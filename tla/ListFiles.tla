------------------------------ MODULE ListFiles ------------------------------
(***************************************************************************)
(* Route, domain and block lists: the file the panel edits, the entries    *)
(* and files config.yaml names, the lists downloaded from URLs, and the    *)
(* merged list the generated files are rendered from.                      *)
(*                                                                         *)
(* routes.txt and domains.txt are rewritten whole, under a lock the        *)
(* threads of the panel share and a korctl process does not.  A download   *)
(* is written to a cache file, then described in a meta file, then         *)
(* rendered.                                                               *)
(***************************************************************************)
EXTENDS Integers, Sequences, SequencesExt, FiniteSets, Lists

CONSTANTS
    ListWorkers,     \* threads of the panel
    ListCli,         \* korctl processes
    Entries,         \* normalised routes or domains
    Spellings,       \* lines of a list: other spellings of an entry, or rubbish
    Normal,          \* line -> the entry it stands for, or Invalid
    Invalid,
    ListUrls,
    ListSettings,    \* routing.split as it may be saved: its inline entries, the lines of
                     \* the files and the URLs it names
    Downloads,       \* what a URL may serve: sequences of lines
    NoList,          \* a file that does not exist, a lock that is free
    MaxListOps,      \* bound: requests
    MaxListCrashes   \* bound: crashes of the panel

ASSUME ListAssumption ==
    /\ ListWorkers \cap ListCli = {} /\ NoList \notin ListWorkers \cup ListCli
    /\ Invalid \notin Entries /\ NoList \notin Seq(Entries)
    /\ Entries \subseteq Spellings /\ Normal \in [Spellings -> Entries \cup {Invalid}]
    /\ \A e \in Entries : Normal[e] = e
    /\ Downloads \subseteq Seq(Spellings)
    /\ ListSettings \subseteq [inline : Seq(Spellings), files : Seq(Seq(Spellings)),
                              urls : Seq(ListUrls)]
    /\ \A c \in ListSettings : \A i \in DOMAIN c.inline : Normal[c.inline[i]] # Invalid
    /\ MaxListOps \in Nat /\ MaxListCrashes \in Nat

VARIABLES
    list_file,   \* the file the panel edits
    list_lock,   \* holder of _ROUTING_FILE_REWRITE_LOCK
    cache,       \* url -> lines of the cache file
    meta,        \* url -> number of entries the meta file tells of
    split,       \* routing.split of the configuration
    list_rendered, \* the list in the generated files
    ljob,        \* what each process is doing
    meant_list,  \* entries the edits so far amount to (history)
    collided,    \* an unlocked rewrite overlapped another (history)
    list_ops, list_crashes

listVars == <<list_file, list_lock, cache, meta, split, list_rendered, ljob, meant_list, collided,
              list_ops, list_crashes>>
listBounds == <<list_ops, list_crashes>>

ListProcesses == ListWorkers \cup ListCli
AtRest == [at |-> "rest"]

-----------------------------------------------------------------------------
(* Reading lists *)

lines_of(f) == IF f = NoList THEN <<>> ELSE f

\* _merge_unique, write_unique_lines: the first occurrences of the lines.
unique(lines) ==
    only(lines, {i \in DOMAIN lines : \A j \in 1 .. (i - 1) : lines[j] # lines[i]})

\* parse_list_text, parse_blocklist_text: lines are normalised, bad ones skipped.
parse_list_text(lines) ==
    LET entries == [i \in DOMAIN lines |-> Normal[lines[i]]]
    IN  unique(only(entries, {i \in DOMAIN lines : entries[i] # Invalid}))

\* _merge_unique: the inline entries, which the validators check and leave as they
\* are spelled, the file, the configured files and the cached URLs.
merged_list(c) ==
    unique(c.inline \o lines_of(list_file)
             \o joined([i \in DOMAIN c.files |-> parse_list_text(c.files[i])])
             \o joined([i \in DOMAIN c.urls |-> lines_of(cache[c.urls[i]])]))

-----------------------------------------------------------------------------
(* Editing the file *)

\* A rewrite: a function of the lines read.
edited(op, lines) ==
    CASE op.what = "add" -> unique(lines \o <<op.entry>>)
      [] op.what = "delete" -> unique(only(lines, {i \in DOMAIN lines : lines[i] # op.entry}))
      [] op.what = "set" -> unique(op.items)
intended(op, entries) ==
    CASE op.what = "add" -> entries \cup {op.entry}
      [] op.what = "delete" -> entries \ {op.entry}
      [] op.what = "set" -> ToSet(op.items)

\* add_route, delete_route, set_routes: an item that is no route or domain is
\* refused, any other is normalised.  A pasted list may repeat an item.
Normalised == {Normal[s] : s \in Spellings} \ {Invalid}
Edits ==
    [what : {"add", "delete"}, entry : Normalised]
    \cup [what : {"set"}, items : {<<e, e>> : e \in Normalised} \cup {<<>>}]

read_unlocked(w, op) ==                          \* mutant
    /\ ljob' = [ljob EXCEPT ![w] = [at |-> "edit", op |-> op, read |-> lines_of(list_file)]]
    /\ UNCHANGED <<list_lock, collided>>
read_locked(w, op) ==
    /\ w \in ListWorkers => list_lock = NoList
    /\ list_lock' = IF w \in ListWorkers THEN w ELSE list_lock
    /\ collided' = (collided \/ \E v \in ListProcesses \ {w} :
                        ljob[v].at = "edit" /\ {v, w} \cap ListCli # {})
    /\ ljob' = [ljob EXCEPT ![w] = [at |-> "edit", op |-> op, read |-> lines_of(list_file)]]

start_edit(w) ==
    /\ ljob[w] = AtRest
    /\ list_ops < MaxListOps
    /\ list_ops' = list_ops + 1
    /\ \E op \in Edits : read_locked(w, op)
    /\ UNCHANGED <<list_file, cache, meta, split, list_rendered, meant_list, list_crashes>>

\* add_route, delete_route, set_routes and their host and domain twins, in the panel.
edit_list(w) == w \in ListWorkers /\ start_edit(w)

\* korctl routes add, delete and korctl domains add, delete.
korctl_list(w) == w \in ListCli /\ start_edit(w)

\* Adding a line that is there writes nothing.
write_edit(w) ==
    /\ ljob[w].at = "edit"
    /\ LET op == ljob[w].op
           read == ljob[w].read
       IN  /\ list_file' = IF op.what = "add" /\ op.entry \in ToSet(read) THEN list_file
                           ELSE edited(op, read)
           /\ meant_list' = intended(op, meant_list)
    /\ list_lock' = IF list_lock = w THEN NoList ELSE list_lock
    /\ ljob' = [ljob EXCEPT ![w] = AtRest]
    /\ UNCHANGED <<cache, meta, split, list_rendered, collided, listBounds>>

-----------------------------------------------------------------------------
(* Lists from URLs *)

\* save_routing_settings: other files and URLs; the lists are rendered with the save.
save_list_settings(w, c) ==
    /\ w \in ListWorkers /\ ljob[w] = AtRest
    /\ list_ops < MaxListOps
    /\ c.inline = split.inline
    /\ list_ops' = list_ops + 1
    /\ split' = c
    /\ ljob' = [ljob EXCEPT ![w] = [at |-> "render", using |-> c]]
    /\ UNCHANGED <<list_file, list_lock, cache, meta, list_rendered, meant_list, collided,
                   list_crashes>>

\* PATCH /config and the source editor change inline entries too and may render
\* nothing; one that renders does what saving the same settings next does.
patch_split(c) ==
    /\ list_ops < MaxListOps
    /\ list_ops' = list_ops + 1
    /\ split' = c
    /\ UNCHANGED <<list_file, list_lock, cache, meta, list_rendered, ljob, meant_list,
                   collided, list_crashes>>

\* refresh: only a configured URL is fetched.  A preview, a failed download and one
\* without a single valid entry apply nothing.  The handler renders with the
\* configuration it began with.
accepts_empty(lines) == TRUE                     \* mutant
acceptable(lines) == parse_list_text(lines) # <<>>

refresh(w, u) ==
    /\ ljob[w] = AtRest
    /\ list_ops < MaxListOps
    /\ u \in ToSet(split.urls)
    /\ list_ops' = list_ops + 1
    /\ ljob' = [ljob EXCEPT ![w] = [at |-> "fetch", url |-> u, using |-> split]]
    /\ UNCHANGED <<list_file, list_lock, cache, meta, split, list_rendered, meant_list,
                   collided, list_crashes>>

fetch_url_text(w) ==
    /\ ljob[w].at = "fetch"
    /\ \/ ljob' = [ljob EXCEPT ![w] = AtRest]                 \* a preview, or it failed
       \/ \E lines \in Downloads :
            ljob' = [ljob EXCEPT ![w] =
                IF acceptable(lines)
                  THEN [at |-> "cache", url |-> @.url, using |-> @.using,
                        items |-> parse_list_text(lines)]
                  ELSE AtRest]
    /\ UNCHANGED <<list_file, list_lock, cache, meta, split, list_rendered, meant_list,
                   collided, listBounds>>

write_cache(w) ==
    /\ ljob[w].at = "cache"
    /\ cache' = [cache EXCEPT ![ljob[w].url] = ljob[w].items]
    /\ ljob' = [ljob EXCEPT ![w] = [@ EXCEPT !.at = "meta"]]
    /\ UNCHANGED <<list_file, list_lock, meta, split, list_rendered, meant_list, collided,
                   listBounds>>

write_meta(w) ==
    /\ ljob[w].at = "meta"
    /\ meta' = [meta EXCEPT ![ljob[w].url] = Len(ljob[w].items)]
    /\ ljob' = [ljob EXCEPT ![w] = [at |-> "render", using |-> ljob[w].using]]
    /\ UNCHANGED <<list_file, list_lock, cache, split, list_rendered, meant_list, collided,
                   listBounds>>

\* write_rendered_files
render_lists(w) ==
    /\ ljob[w].at = "render"
    /\ list_rendered' = merged_list(ljob[w].using)
    /\ ljob' = [ljob EXCEPT ![w] = AtRest]
    /\ UNCHANGED <<list_file, list_lock, cache, meta, split, meant_list, collided, listBounds>>

\* The panel is killed: its threads stop where they are.
panel_killed ==
    /\ list_crashes < MaxListCrashes
    /\ list_crashes' = list_crashes + 1
    /\ ljob' = [w \in ListProcesses |-> IF w \in ListWorkers THEN AtRest ELSE ljob[w]]
    /\ list_lock' = NoList
    /\ UNCHANGED <<list_file, cache, meta, split, list_rendered, meant_list, collided,
                   list_ops>>

-----------------------------------------------------------------------------

ListInit ==
    /\ list_file = NoList /\ list_lock = NoList
    /\ cache = [u \in ListUrls |-> NoList] /\ meta = [u \in ListUrls |-> 0]
    /\ split \in ListSettings /\ list_rendered = merged_list(split)
    /\ ljob = [w \in ListProcesses |-> AtRest]
    /\ meant_list = {} /\ collided = FALSE
    /\ list_ops = 0 /\ list_crashes = 0

ListNext ==
    \/ \E w \in ListProcesses :
        \/ edit_list(w) \/ korctl_list(w) \/ write_edit(w)
        \/ fetch_url_text(w) \/ write_cache(w) \/ write_meta(w) \/ render_lists(w)
        \/ \E u \in ListUrls : refresh(w, u)
        \/ \E c \in ListSettings : save_list_settings(w, c)
    \/ \E c \in ListSettings : patch_split(c)
    \/ panel_killed

ListSpec == ListInit /\ [][ListNext]_listVars

-----------------------------------------------------------------------------
(* Properties *)

(* Processes are at a step of a request, the lock is held by a panel thread  *)
(* that rewrites the file, and a URL that was never cached tells of nothing. *)
ListTypeOK ==
    /\ \A w \in ListProcesses : ljob[w].at \in {"rest", "edit", "fetch", "cache", "meta", "render"}
    /\ list_lock # NoList => list_lock \in ListWorkers /\ ljob[list_lock].at = "edit"
    /\ \A u \in ListUrls : meta[u] # 0 => cache[u] # NoList
    /\ split \in ListSettings /\ meant_list \subseteq Entries

\* Lines of L only, each of them once.
Clean(list, L) == /\ ToSet(list) \subseteq L
                  /\ \A i, j \in DOMAIN list : list[i] = list[j] => i = j

\* The spellings that configurations have inline.
Inlined == UNION {ToSet(c.inline) : c \in ListSettings}

\* The edited file, the caches and the lists rendered for nftables and dnsmasq.
ListsClean ==
    /\ list_file # NoList => Clean(list_file, Entries)
    /\ \A u \in ListUrls : cache[u] # NoList => Clean(cache[u], Entries)
    /\ Clean(list_rendered, Entries \cup Inlined)

(* Parallel edits of the panel are all kept: the file holds exactly the      *)
(* entries the edits amount to, unless korctl rewrote it at the same time.   *)
(* And whatever lines were pasted, downloaded or found in configured files,  *)
(* file and caches have valid, normalised entries only, each of them once;   *)
(* the rendered list has no line twice and none that is not such an entry,   *)
(* except the inline ones of config.yaml, which keep their spelling.         *)
ListEditsKept ==
    /\ ~collided => ToSet(lines_of(list_file)) = meant_list
    /\ ListsClean

\* The list after an edit: what the routes page promises.
list_after(op, list) ==
    CASE op.what = "add" -> IF op.entry \in ToSet(list) THEN list ELSE Append(list, op.entry)
      [] op.what = "delete" -> only(list, {i \in DOMAIN list : list[i] # op.entry})
      [] op.what = "set" -> unique(op.items)

list_edited(op, before, after) == after = list_after(op, before)

ListStore == INSTANCE AtomicUpdates WITH
                Updates <- Edits, Updated <- list_edited,
                content <- lines_of(list_file), raced <- collided

(* The file changes by one edit at a time, each made to the lines of that    *)
(* moment and in their order: reading, editing and writing back, the crashes *)
(* of the panel, the downloads and the renderings in between are one step or *)
(* none of AtomicUpdates, until a korctl rewrite overlaps another one.       *)
ListImplementsStore == ListStore!Spec

(* A refresh never takes a list away: a download that fails, or that has no  *)
(* valid entry, leaves the cached list, and a list is only replaced by       *)
(* another one.                                                              *)
RefreshKeepsList ==
    [][\A u \in ListUrls : cache[u] # NoList => cache'[u] \notin {NoList, <<>>}]_listVars
===============================================================================
