------------------------------ MODULE ConfigPatch ------------------------------
(***************************************************************************)
(* config.yaml and its editors.  A panel handler computes a patch from the *)
(* configuration the panel has cached, then apply_config_patch reads the   *)
(* file, merges, validates, writes, loads it back, replaces the cache and  *)
(* renders the generated files, without a lock.  korctl does the same from *)
(* a fresh read and leaves the panel's cache alone; the source editor      *)
(* writes back a whole file whose secrets it was shown masked.  A save may *)
(* ask that nothing be rendered; files are also rendered without a save.   *)
(* The certificate pages write the file before anything validates it.      *)
(*                                                                         *)
(* A configuration is a record of the settings the handlers treat          *)
(* differently: a plain setting, the ordered profile list, the active      *)
(* profile, the group policies, the default group, the certificate mode    *)
(* and whether the external mode's paths are set.                          *)
(***************************************************************************)
EXTENDS Integers, Sequences, FiniteSets, Lists

CONSTANTS
    Workers,          \* worker threads of the panel
    Cli,              \* a korctl process
    ProfileNames,     \* names of upstream profiles
    Secrets,          \* secret values in the file
    Resolved,         \* [Secrets -> Secrets]: a ${SECRET:...} reference and its value
    Groups,           \* names of group policies
    Levels,           \* values of a plain setting
    Payloads,         \* what POST /profiles may say of a profile
    Unset,            \* a null value
    Mask,             \* the "***" shown instead of a secret
    env_overrides,    \* KORSERVER_* settings, merged over the file
    Init_File,        \* the file the container boots with
    MaxConfigEdits    \* bound: edits started

ASSUME ConfigAssumption ==
    /\ Cli \notin Workers
    /\ Unset # Mask /\ {Unset, Mask} \cap (Secrets \cup ProfileNames \cup Groups) = {}
    /\ Resolved \in [Secrets -> Secrets] /\ \A s \in Secrets : Resolved[Resolved[s]] = Resolved[s]
    /\ MaxConfigEdits \in Nat

VARIABLES
    file,      \* config.yaml
    cached,    \* app.state.config
    rendered,  \* the configuration the generated files were rendered from
    behind,    \* a configuration was published since that was not to be rendered (history)
    editor,    \* what the source editor's page shows
    edit,      \* process -> the edit it is carrying out
    edits,     \* edits started so far (bound)
    fresh      \* the last edit ran alone, in the panel (history)

cfgVars == <<file, cached, rendered, behind, editor, edit, edits, fresh>>

Editors == Workers \cup {Cli}
NoEdit  == [at |-> "idle"]

\* Configurations whose secrets are in S: in the file or loaded, and as a page shows them.
ProfileOf(S) == [name : ProfileNames, secret : S, offset : 0..9, on : BOOLEAN]
ConfigOf(S)  == [level : Levels, profiles : Seq(ProfileOf(S)), active : ProfileNames \cup {Unset},
                 groups : SUBSET Groups, default_group : Groups \cup {Unset},
                 cert_mode : {"auto", "external"}, cert_paths : BOOLEAN]
Config == ConfigOf(Secrets \cup {Unset})
Shown  == ConfigOf({Unset, Mask})

\* Settings to merge over a configuration.
is_patch(p) ==
    /\ "level" \in DOMAIN p => p.level \in Levels
    /\ "profiles" \in DOMAIN p => p.profiles \in Seq(ProfileOf(Secrets \cup {Unset}))
    /\ "active" \in DOMAIN p => p.active \in ProfileNames \cup {Unset}
    /\ "groups" \in DOMAIN p => p.groups \in SUBSET Groups
    /\ "default_group" \in DOMAIN p => p.default_group \in Groups \cup {Unset}
    /\ "cert_mode" \in DOMAIN p => p.cert_mode \in {"auto", "external"}
    /\ "cert_paths" \in DOMAIN p => p.cert_paths \in BOOLEAN

\* A profile as the form sends it.  An unset secret is omitted or null; an unset
\* offset is omitted, 0 an explicit null.
ASSUME PayloadsAssumption ==
    Payloads \subseteq [secret : Secrets \cup {Unset}, offset : 0..9 \cup {Unset}, on : BOOLEAN]

names(ps) == {ps[i].name : i \in DOMAIN ps}
entry(ps, n) == ps[CHOOSE i \in DOMAIN ps : ps[i].name = n]

\* Explicit routing_offset, else the 1-based position; the tunnel's interface
\* follows the same rule.
profile_routing_offset(ps, i) == IF ps[i].offset # 0 THEN ps[i].offset ELSE i

-----------------------------------------------------------------------------
(* Merging, loading and validating *)

deep_merge(base, override) ==
    [f \in DOMAIN base |-> IF f \in DOMAIN override THEN override[f] ELSE base[f]]

resolved(p) == [p EXCEPT !.secret = IF @ \in Secrets THEN Resolved[@] ELSE @]
resolve_secret_refs(c) == [c EXCEPT !.profiles = [i \in DOMAIN @ |-> resolved(@[i])]]

load_config(f) == resolve_secret_refs(deep_merge(f, env_overrides))

\* UpstreamConfig, IdentityConfig and CertificatesConfig, on a configuration as it loads.
validate_profiles(c) ==
    LET ps == c.profiles
    IN  /\ \A i, j \in DOMAIN ps : i # j => /\ ps[i].name # ps[j].name
                                            /\ profile_routing_offset(ps, i)
                                                # profile_routing_offset(ps, j)
        /\ c.active = Unset \/ c.active \in names(ps)
validate_identity(c) == c.default_group = Unset \/ c.default_group \in c.groups
require_external_paths(c) == c.cert_mode = "external" => c.cert_paths

validated(c) == validate_profiles(c) /\ validate_identity(c) /\ require_external_paths(c)

validate_names_only(f) == TRUE                  \* mutant: cross-checks dropped
model_validate(f) == validated(load_config(f))

\* The container boots from a file that loads.
ASSUME BootAssumption ==
    Init_File \in Config /\ is_patch(env_overrides) /\ model_validate(Init_File)

\* _restore_masked_values: list items are matched by position.
restore_drops(new, old) ==                      \* mutant: a masked value is dropped
    LET restored(p) == [p EXCEPT !.secret = IF @ = Mask THEN Unset ELSE @]
    IN  [new EXCEPT !.profiles = [i \in DOMAIN @ |-> restored(@[i])]]
_restore_masked_values(new, old) ==
    LET saved_at(i) == IF i \in DOMAIN old.profiles THEN old.profiles[i].secret ELSE Unset
        restored(p, i) == [p EXCEPT !.secret = IF @ = Mask THEN saved_at(i) ELSE @]
    IN  [new EXCEPT !.profiles = [i \in DOMAIN @ |-> restored(@[i], i)]]

\* redact_value, as the source editor's page shows it.
redact(c) ==
    LET redacted(p) == [p EXCEPT !.secret = IF @ = Unset THEN @ ELSE Mask]
    IN  [c EXCEPT !.profiles = [i \in DOMAIN @ |-> redacted(@[i])]]

-----------------------------------------------------------------------------
(* The patches the handlers compute from the configuration c they hold *)

without(ps, n) == only(ps, {i \in DOMAIN ps : ps[i].name # n})
replaced(ps, q) == [i \in DOMAIN ps |-> IF ps[i].name = q.name THEN q ELSE ps[i]]

\* Handlers that patch scalars: general settings, the default group, the active
\* profile (switch, upstream settings).
settings_patches(c) ==
    {[level |-> l] : l \in Levels}
    \cup {[default_group |-> g] : g \in Groups \cup {Unset}}
    \cup {[active |-> n] : n \in names(c.profiles)}
    \cup {[cert_mode |-> m] : m \in {"auto", "external"}}

\* save_profile: edit in place, or append; an omitted secret or offset keeps the
\* saved one; the first profile becomes the active one.
saved_profile(c, n, payload) ==
    LET kept == IF n \in names(c.profiles) THEN entry(c.profiles, n)
                ELSE [secret |-> Unset, offset |-> 0]
    IN  [name |-> n, on |-> payload.on,
         secret |-> IF payload.secret = Unset THEN kept.secret ELSE payload.secret,
         offset |-> IF payload.offset = Unset THEN kept.offset ELSE payload.offset]
with_active(c, n, ps) ==
    IF c.active = Unset THEN [profiles |-> ps, active |-> n] ELSE [profiles |-> ps]
save_profile_moves(c, n, payload) ==            \* mutant: an edited profile moves to the end
    with_active(c, n, Append(without(c.profiles, n), saved_profile(c, n, payload)))
save_profile(c, n, payload) ==
    LET q == saved_profile(c, n, payload)
    IN  with_active(c, n, IF n \in names(c.profiles) THEN replaced(c.profiles, q)
                          ELSE Append(c.profiles, q))

set_profile_enabled(c, n, on) ==
    [profiles |-> replaced(c.profiles, [entry(c.profiles, n) EXCEPT !.on = on])]

delete_profile(c, n) ==
    LET ps == without(c.profiles, n)
    IN  CASE ps = <<>> -> [profiles |-> ps, active |-> Unset]
          [] ps # <<>> /\ c.active = n -> [profiles |-> ps, active |-> ps[1].name]
          [] ps # <<>> /\ c.active # n -> [profiles |-> ps]

save_group_policy(c, g)   == [groups |-> c.groups \cup {g}]
delete_group_policy(c, g) == [groups |-> c.groups \ {g}]

\* The certificate pages: the mode or a plain setting, and the activation of
\* uploaded or issued certificates.
certificate_patches ==
    [what : {"certificates"}, after : {"republish"},
     patch : {[cert_mode |-> m] : m \in {"auto", "external"}} \cup {[level |-> l] : l \in Levels}]
    \cup {[what |-> "certificates", after |-> "render",
           patch |-> [cert_mode |-> "external", cert_paths |-> TRUE]]}

\* What each handler edits, whether a profile keeps its offset, for the properties,
\* and what follows the write: PATCH /config and the TOTP handlers may leave the
\* generated files as they are, the certificate pages set the cache a second time.
patches(c) ==
    [what : {"settings"}, after : {"render", "nothing"}, patch : settings_patches(c)]
    \cup {[what |-> "save", name |-> n, keeps |-> p.offset = Unset, after |-> "render",
           patch |-> save_profile(c, n, p)] : n \in ProfileNames, p \in Payloads}
    \cup {[what |-> "enable", name |-> n, keeps |-> TRUE, after |-> "render",
           patch |-> set_profile_enabled(c, n, on)] : n \in names(c.profiles), on \in BOOLEAN}
    \cup {[what |-> "delete", name |-> n, after |-> "render", patch |-> delete_profile(c, n)] :
              n \in names(c.profiles)}
    \cup [what : {"group"}, after : {"render"},
          patch : {save_group_policy(c, g) : g \in Groups}
                  \cup {delete_group_policy(c, g) : g \in Groups}]
    \cup certificate_patches

\* korctl upstream enable/disable, identity group set/delete.
cli_patches(c) == {p \in patches(c) : p.what \in {"enable", "group"}}

-----------------------------------------------------------------------------
(* The steps of an edit *)

busy(w) == edit[w] # NoEdit
\* Whatever else is in progress no longer runs alone.
overlapped(w, e) ==
    [v \in Editors |-> IF v = w THEN e
                       ELSE IF busy(v) THEN [edit[v] EXCEPT !.alone = FALSE] ELSE edit[v]]

alone == \A v \in Editors : ~busy(v)

start(w, e) ==
    /\ edit[w] = NoEdit
    /\ edits < MaxConfigEdits
    /\ edits' = edits + 1
    /\ edit' = overlapped(w, e)
    /\ fresh' = FALSE
    /\ UNCHANGED <<file, cached, rendered, behind, editor>>

save_request(w, op) == start(w, [at |-> "read", op |-> op, alone |-> alone, fresh |-> fresh])

\* A panel handler reads app.state.config once, at its start.
panel_edit(w) == \E op \in patches(cached) : save_request(w, op)

\* korctl loads the file first, and ends there when the file is not valid.
cli_edit ==
    /\ model_validate(file)
    /\ \E op \in cli_patches(load_config(file)) : save_request(Cli, op)

\* GET /source, and POST /source with the shown text, perhaps less one profile.
get_config_source ==
    /\ editor' = redact(cached)
    /\ UNCHANGED <<file, cached, rendered, behind, edit, edits, fresh>>

save_config_source(w) ==
    /\ editor # Unset
    /\ \E gone \in ProfileNames \cup {Unset}, after \in {"render", "nothing"} :
        save_request(w, [what |-> "source", after |-> after,
                         content |-> [editor EXCEPT !.profiles = without(@, gone)]])

\* _load_existing_mapping, and the data that will be written.
load_existing(w) ==
    LET e == edit[w]
    IN  /\ e.at = "read"
        /\ edit' = [edit EXCEPT ![w] =
                [at |-> "write", op |-> e.op, alone |-> e.alone, fresh |-> e.fresh,
                 data |-> IF e.op.what = "source"
                            THEN _restore_masked_values(e.op.content, file)
                            ELSE deep_merge(file, e.op.patch)]]
        /\ UNCHANGED <<file, cached, rendered, behind, editor, edits, fresh>>

\* Validate, then replace the file; data that does not validate changes nothing.
\* _update_certificate_config replaces the file without asking.
write_config(w) ==
    LET e == edit[w]
    IN  /\ e.at = "write"
        /\ IF e.op.what = "certificates" \/ model_validate(e.data)
             THEN /\ file' = e.data
                  /\ edit' = [edit EXCEPT ![w] =
                          [at |-> "load", after |-> e.op.after, alone |-> e.alone]]
                  /\ UNCHANGED fresh
             ELSE /\ edit' = [edit EXCEPT ![w] = NoEdit]
                  /\ fresh' = (e.alone /\ e.fresh)
                  /\ UNCHANGED file
        /\ UNCHANGED <<cached, rendered, behind, editor, edits>>

\* A file that does not validate is an error here: the edit ends, the cache stays.
load_back(w) ==
    LET e == edit[w]
    IN  /\ e.at = "load"
        /\ edit' = [edit EXCEPT ![w] =
                IF ~model_validate(file) THEN NoEdit
                ELSE [at |-> IF w = Cli THEN "render" ELSE "publish", after |-> e.after,
                      alone |-> e.alone, fresh |-> w # Cli, config |-> load_config(file)]]
        /\ UNCHANGED <<file, cached, rendered, behind, editor, edits, fresh>>

publish_nothing(w) ==                           \* mutant: the panel keeps its old configuration
    /\ edit[w].at = "publish"
    /\ edit' = [edit EXCEPT ![w].at = "render"]
    /\ UNCHANGED <<file, cached, rendered, behind, editor, edits, fresh>>
publish(w) ==
    LET e == edit[w]
    IN  /\ e.at = "publish"
        /\ cached' = e.config
        /\ IF e.after = "nothing"
             THEN /\ edit' = [edit EXCEPT ![w] = NoEdit]
                  /\ fresh' = e.alone
                  /\ behind' = TRUE
             ELSE /\ edit' = [edit EXCEPT ![w].at = "render"]
                  /\ UNCHANGED <<fresh, behind>>
        /\ UNCHANGED <<file, rendered, editor, edits>>

\* POST /render, and the handlers that render and save no setting (a list edit or
\* refresh, a start or reload of the server): from the configuration of their start.
write_rendered_config(w) ==
    start(w, [at |-> "render", after |-> "render", alone |-> alone, fresh |-> fresh,
              config |-> cached])

\* korctl config render and its likes.
config_render ==
    /\ model_validate(file)
    /\ start(Cli, [at |-> "render", after |-> "render", alone |-> alone, fresh |-> fresh,
                   config |-> load_config(file)])

write_rendered_files(w) ==
    LET e == edit[w]
    IN  /\ e.at = "render"
        /\ rendered' = e.config
        /\ cached' = IF e.after = "republish" THEN e.config ELSE cached
        /\ edit' = [edit EXCEPT ![w] = NoEdit]
        /\ fresh' = (e.alone /\ e.fresh)
        /\ behind' = FALSE
        /\ UNCHANGED <<file, editor, edits>>

-----------------------------------------------------------------------------

CfgInit ==
    /\ file = Init_File
    /\ cached = load_config(Init_File)
    /\ rendered = load_config(Init_File)
    /\ behind = FALSE
    /\ editor = Unset
    /\ edit = [w \in Editors |-> NoEdit]
    /\ edits = 0
    /\ fresh = TRUE

apply_config_patch(w) ==
    load_existing(w) \/ write_config(w) \/ load_back(w) \/ publish(w) \/ write_rendered_files(w)

CfgNext ==
    \/ \E w \in Workers : panel_edit(w) \/ save_config_source(w) \/ write_rendered_config(w)
    \/ cli_edit \/ config_render
    \/ get_config_source
    \/ \E w \in Editors : apply_config_patch(w)

CfgSpec == CfgInit /\ [][CfgNext]_cfgVars

-----------------------------------------------------------------------------
(* Properties *)

(* What the panel holds and what ocserv and the other programs were given is *)
(* valid at all times, and so are the profiles and the identity section of   *)
(* the file: handlers merge a list computed from an older configuration into *)
(* the file of the moment, and it is the merged data that is validated.  The *)
(* certificates section of the file is the exception: its pages write first. *)
ConfigAlwaysValid ==
    /\ validate_profiles(load_config(file)) /\ validate_identity(load_config(file))
    /\ validated(cached) /\ validated(rendered)

(* When the panel made the last edit and no other overlapped it, the cache   *)
(* is that of the file, and the generated files are too unless a save asked  *)
(* that nothing be rendered and nothing was since: also after an edit that   *)
(* did not validate, and whatever overlapping edits came before.             *)
CacheFollowsFile ==
    fresh => /\ cached = load_config(file)
             /\ behind \/ rendered = load_config(file)

(* An edit that runs alone with a fresh cache changes nothing but what it    *)
(* edits: a profile edited, added, enabled or disabled leaves every other    *)
(* profile's entry as it loads, and the routing offset (and so the tunnel    *)
(* device) of every profile it was not told a new offset of, alone.          *)
LoneEditIsLocal ==
    [][\A w \in Workers :
         LET e == edit[w]
         IN  (/\ e.at = "write" /\ e.alone /\ e.fresh /\ e.op.what \in {"save", "enable"}
              /\ file' # file)
             => \A i \in DOMAIN file.profiles :
                  /\ i \in DOMAIN file'.profiles
                  /\ e.op.keeps \/ file.profiles[i].name # e.op.name =>
                        profile_routing_offset(file'.profiles, i)
                            = profile_routing_offset(file.profiles, i)
                  /\ file'.profiles[i].name = file.profiles[i].name
                  /\ file.profiles[i].name # e.op.name =>
                        load_config(file').profiles[i] = load_config(file).profiles[i]]_cfgVars

(* A save of the source editor's text restores every masked secret from the  *)
(* file: when the profiles are those of the file in its order, each one      *)
(* shown with a mask keeps its secret, and no mask is ever written.          *)
SourceKeepsSecrets ==
    [][\A w \in Workers :
         LET e == edit[w]
         IN  e.at = "write" /\ e.op.what = "source" /\ file' # file =>
                /\ \A i \in DOMAIN file'.profiles : file'.profiles[i].secret # Mask
                /\ (e.alone /\ [i \in DOMAIN file'.profiles |-> file'.profiles[i].name]
                        = [i \in DOMAIN file.profiles |-> file.profiles[i].name])
                   => \A i \in DOMAIN file.profiles :
                        e.op.content.profiles[i].secret = Mask =>
                            file'.profiles[i].secret = file.profiles[i].secret]_cfgVars

(* The file and what is loaded from it are configurations without a mask,    *)
(* the source editor shows no secret, and every edit is at a step of         *)
(* apply_config_patch.                                                       *)
CfgTypeOK ==
    /\ file \in Config /\ cached \in Config /\ rendered \in Config
    /\ editor # Unset => editor \in Shown
    /\ \A w \in Editors : edit[w].at \in {"idle", "read", "write", "load", "publish", "render"}
    /\ edits \in Nat /\ fresh \in BOOLEAN /\ behind \in BOOLEAN
===============================================================================
