------------------------------- MODULE Accounts -------------------------------
(***************************************************************************)
(* VPN accounts: the ocpasswd and users.oath files, the per-user and       *)
(* per-group configuration files, and the deletion of a group.             *)
(*                                                                         *)
(* Every change of ocpasswd or users.oath reads the whole file and writes  *)
(* it back.  The panel's own rewrites hold a lock that only its threads    *)
(* share; the ocpasswd command and a korctl process hold none of it.       *)
(*                                                                         *)
(* A line of ocpasswd is a user field and one or two more: groups, if any, *)
(* and the password hash, each perhaps marked "!".                         *)
(***************************************************************************)
EXTENDS Integers, Sequences, FiniteSets, Lists

CONSTANTS
    AccountWorkers,   \* worker threads of the panel
    Korctl,           \* a korctl process
    Users, UserGroups,
    Passwords,        \* password hashes and OTP secrets
    LongLists,        \* sets of groups whose field is longer than 32 characters
    Absent,           \* no line, no file, no holder
    MaxAccountOps     \* bound: operations started

ASSUME AccountsAssumption ==
    /\ Korctl \notin AccountWorkers
    /\ Absent \notin AccountWorkers \cup {Korctl} \cup Users \cup Passwords
    /\ LongLists \subseteq SUBSET UserGroups /\ Passwords # {}
    /\ MaxAccountOps \in Nat

VARIABLES
    store,         \* file -> user -> line
    rewrite_lock,  \* file -> the panel thread that holds its lock
    job,           \* process -> the operation it is carrying out
    ops,           \* operations started so far (bound)
    user_config,   \* user -> lines of the config-per-user file
    group_files,   \* names in the config-per-group directory
    policies,      \* names in identity.group_policies
    default_select_group,  \* identity.default_select_group
    truth,         \* file -> user -> what the operations so far amount to (history)
    contended      \* an unlocked rewrite overlapped another one (history)

accVars == <<store, rewrite_lock, job, ops, user_config, group_files, policies,
             default_select_group, truth, contended>>
groupConfig == <<policies, default_select_group>>

Processes == AccountWorkers \cup {Korctl}
Files   == {"passwd", "oath"}
NoJob   == [at |-> "idle"]
Failed  == [at |-> "failed"]

-----------------------------------------------------------------------------
(* Lines of ocpasswd *)

Hash(p)  == [bang |-> FALSE, hash |-> p, groups |-> {}]
Group(gs) == [bang |-> FALSE, hash |-> Absent, groups |-> gs]

\* What a file may hold of a user: a hash, perhaps with groups before it, or no line.
HashField == [bang : BOOLEAN, hash : Passwords, groups : {{}}]
Line == {<<h>> : h \in HashField}
        \cup {<<Group(gs), h>> : gs \in SUBSET UserGroups, h \in HashField}

looks_like_password_hash(f) == f.hash # Absent \/ f.groups \in LongLists

\* What list_users makes of a line: the groups, and whether the user is locked.
parse_passwd_record(line) ==
    LET legacy_lock == /\ Len(line) >= 2 /\ line[2].bang
                       /\ ~looks_like_password_hash(line[2])
    IN  [disabled |-> \E i \in DOMAIN line : line[i].bang,
         groups |-> IF /\ Len(line) >= 2 /\ ~legacy_lock
                       /\ ~looks_like_password_hash(line[1])
                      THEN line[1].groups ELSE {}]

\* The line with its group field replaced, inserted or removed.
render_overwrites(line, gs) ==                   \* mutant: the first field is the groups
    IF gs = {} THEN Tail(line) ELSE <<Group(gs)>> \o Tail(line)
render_passwd_record(line, gs) ==
    CASE Len(line) = 0 -> line
      [] Len(line) = 1 -> IF gs = {} THEN line ELSE <<Group(gs)>> \o line
      [] Len(line) >= 2 -> IF gs = {} THEN Tail(line) ELSE <<Group(gs)>> \o Tail(line)

\* The ocpasswd command on one line: a new password (a new line has the
\* placeholder group "*"), lock and unlock mark the hash.
ocpasswd(line, op) ==
    CASE op.what = "password" /\ line = Absent -> <<Group({}), Hash(op.hash)>>
      [] op.what = "password" /\ line # Absent ->
            [line EXCEPT ![Len(line)] = Hash(op.hash)]
      [] op.what \in {"lock", "unlock"} /\ line = Absent -> Absent
      [] op.what \in {"lock", "unlock"} /\ line # Absent ->
            [line EXCEPT ![Len(line)].bang = (op.what = "lock")]

\* The effect of an operation on the line of its user.
changed(line, op) ==
    CASE op.what = "groups" ->
            IF line = Absent THEN Absent ELSE render_passwd_record(line, op.groups)
      [] op.what \in {"delete", "otp_off"} -> Absent
      [] op.what = "otp_on" -> <<Hash(op.hash)>>
      [] op.what \in {"password", "lock", "unlock"} -> ocpasswd(line, op)

\* The same, on what a line says.
Says(hash, locked, groups) == [hash |-> hash, locked |-> locked, groups |-> groups]
Saying == [hash : Passwords, locked : BOOLEAN, groups : SUBSET UserGroups]
meant(t, op) ==
    CASE op.what = "groups" -> IF t = Absent THEN t ELSE [t EXCEPT !.groups = op.groups]
      [] op.what \in {"delete", "otp_off"} -> Absent
      [] op.what = "otp_on" \/ (op.what = "password" /\ t = Absent) -> Says(op.hash, FALSE, {})
      [] op.what = "password" /\ t # Absent -> [t EXCEPT !.hash = op.hash, !.locked = FALSE]
      [] op.what \in {"lock", "unlock"} ->
            IF t = Absent THEN t ELSE [t EXCEPT !.locked = (op.what = "lock")]

-----------------------------------------------------------------------------
(* Reading and rewriting a file *)

\* The operations on one account, by the file they rewrite.
set_user_groups(u) == [file : {"passwd"}, user : {u}, what : {"groups"}, groups : SUBSET UserGroups]
delete_user(u)     == [file : {"passwd"}, user : {u}, what : {"delete"}]
lock_user(u)       == [file : {"passwd"}, user : {u}, what : {"lock", "unlock"}]
change_password(u) == [file : {"passwd"}, user : {u}, what : {"password"}, hash : Passwords]
set_otp(u)         == [file : {"oath"}, user : {u}, what : {"otp_on"}, hash : Passwords]
disable_otp(u)     == [file : {"oath"}, user : {u}, what : {"otp_off"}]

Changes(u) == set_user_groups(u) \cup delete_user(u) \cup lock_user(u) \cup change_password(u)
              \cup set_otp(u) \cup disable_otp(u)

\* create_user, change_password, enable_user and disable_user run ocpasswd; the
\* rest is rewritten in Python, under the lock.
locks_nothing(w, op) == FALSE                    \* mutant
locks(w, op) == w \in AccountWorkers /\ op.what \notin {"password", "lock", "unlock"}

rewriting(w, f) == job[w].at = "write" /\ job[w].op.file = f

\* The rewrite begins: take the lock where there is one, read the file.
read_lines(w, op, then) ==
    /\ locks(w, op) => rewrite_lock[op.file] = Absent
    /\ rewrite_lock' = [rewrite_lock EXCEPT ![op.file] = IF locks(w, op) THEN w ELSE @]
    /\ contended' = (contended \/ \E v \in Processes :
            rewriting(v, op.file) /\ (v \notin AccountWorkers \/ w \notin AccountWorkers
                                      \/ {op.what, job[v].op.what} \cap
                                         {"password", "lock", "unlock"} # {}))
    /\ job' = [job EXCEPT ![w] =
            [at |-> "write", op |-> op, read |-> store[op.file], then |-> then]]
    /\ UNCHANGED <<store, truth>>

\* It ends: write the lines read, with the user's line changed; a rewrite that
\* changes no line writes nothing; the lock is released.
write_lines(w) ==
    LET j == job[w]
        f == j.op.file
        u == j.op.user
        lines == [j.read EXCEPT ![u] = changed(@, j.op)]
    IN  /\ j.at = "write"
        /\ store' = IF j.read[u] = Absent /\ lines[u] = Absent THEN store
                    ELSE [store EXCEPT ![f] = lines]
        /\ truth' = [truth EXCEPT ![f][u] = meant(@, j.op)]
        /\ rewrite_lock' = [rewrite_lock EXCEPT ![f] = IF @ = w THEN Absent ELSE @]
        /\ job' = [job EXCEPT ![w] = j.then]
        /\ UNCHANGED <<ops, user_config, group_files, groupConfig, contended>>

start_change(w) ==
    /\ job[w] = NoJob
    /\ ops < MaxAccountOps
    /\ ops' = ops + 1
    /\ \E u \in Users : \E op \in Changes(u) : read_lines(w, op, NoJob)
    /\ UNCHANGED <<user_config, group_files, groupConfig>>

\* The users page and korctl user: the same services, in different processes.
panel_account(w)  == w \in AccountWorkers /\ start_change(w)
korctl_account(w) == w = Korctl /\ start_change(w)

-----------------------------------------------------------------------------
(* delete_group *)

\* The handler starts by removing the group's file; it holds the configuration of
\* this moment.
delete_group(w, g) ==
    /\ w \in AccountWorkers
    /\ job[w] = NoJob
    /\ ops < MaxAccountOps
    /\ ops' = ops + 1
    /\ group_files' = group_files \ {g}
    /\ job' = [job EXCEPT ![w] = [at |-> "list", g |-> g, left |-> policies \ {g},
            start |-> ops', alone |-> \A v \in Processes : job[v] = NoJob]]   \* (history)
    /\ UNCHANGED <<store, rewrite_lock, user_config, groupConfig, truth, contended>>

\* list_users: who is a member, and of which groups besides.
members_unlocked(g) ==                           \* mutant: a locked user is passed over
    {u \in Users : /\ store["passwd"][u] # Absent
                   /\ g \in parse_passwd_record(store["passwd"][u]).groups
                   /\ ~parse_passwd_record(store["passwd"][u]).disabled}
members(g) ==
    {u \in Users : /\ store["passwd"][u] # Absent
                   /\ g \in parse_passwd_record(store["passwd"][u]).groups}

list_members(w) ==
    /\ job[w].at = "list"
    /\ LET g == job[w].g
           remaining == [u \in members(g) |-> parse_passwd_record(store["passwd"][u]).groups \ {g}]
       IN  job' = [job EXCEPT ![w] = [at |-> "members", g |-> g, left |-> @.left, start |-> @.start,
                                      alone |-> @.alone, todo |-> remaining]]
    /\ UNCHANGED <<store, rewrite_lock, ops, user_config, group_files, groupConfig, truth,
                   contended>>

\* set_user_groups for one member after the other, with the groups listed before.
clear_member(w) ==
    /\ job[w].at = "members"
    /\ \E u \in DOMAIN job[w].todo :
        read_lines(w, [file |-> "passwd", user |-> u, what |-> "groups",
                       groups |-> job[w].todo[u]],
                   [job[w] EXCEPT !.todo = [v \in DOMAIN @ \ {u} |-> @[v]]])
    /\ UNCHANGED <<ops, user_config, group_files, groupConfig>>

\* The policies as they were at the start, less this one, are saved; saving renders
\* a file for every policy.
clear_policy(w) ==
    /\ job[w].at = "members" /\ DOMAIN job[w].todo = {}
    /\ default_select_group \in job[w].left \cup {Absent}
    /\ policies' = job[w].left
    /\ group_files' = group_files \cup job[w].left
    /\ job' = [job EXCEPT ![w] = NoJob]
    /\ UNCHANGED <<store, rewrite_lock, ops, user_config, default_select_group, truth, contended>>

\* The validators refuse the save: the default group would lose its policy, or another
\* section of config.yaml is invalid (ConfigPatch).  What was done before stays done.
policy_refused(w) ==
    /\ job[w].at = "members" /\ DOMAIN job[w].todo = {}
    /\ job' = [job EXCEPT ![w] = Failed]
    /\ UNCHANGED <<store, rewrite_lock, ops, user_config, group_files, groupConfig, truth,
                   contended>>

answer_error(w) ==
    /\ job[w] = Failed
    /\ job' = [job EXCEPT ![w] = NoJob]
    /\ UNCHANGED <<store, rewrite_lock, ops, user_config, group_files, groupConfig, truth,
                   contended>>

\* The identity page: the default group must have a policy.
save_identity_settings(g) ==
    /\ ops < MaxAccountOps
    /\ g \in policies \cup {Absent}
    /\ ops' = ops + 1
    /\ default_select_group' = g
    /\ group_files' = group_files \cup policies
    /\ UNCHANGED <<store, rewrite_lock, job, user_config, policies, truth, contended>>

save_group_config(g) ==
    /\ ops < MaxAccountOps
    /\ ops' = ops + 1
    /\ group_files' = group_files \cup {g}
    /\ UNCHANGED <<store, rewrite_lock, job, user_config, groupConfig, truth, contended>>

delete_group_config(g) ==
    /\ ops < MaxAccountOps
    /\ ops' = ops + 1
    /\ group_files' = group_files \ {g}
    /\ UNCHANGED <<store, rewrite_lock, job, user_config, groupConfig, truth, contended>>

-----------------------------------------------------------------------------
(* Per-user settings: a repeated key, a number and a flag stand for the keys of *)
(* their kind.                                                                  *)

UserSettings == [dns : {<<>>, <<"a", "b">>}, keepalive : {Absent, 0}, no_udp : {Absent, TRUE, FALSE}]
NoSettings == [dns |-> <<>>, keepalive |-> Absent, no_udp |-> Absent]

\* A file is a sequence of key = value lines.
render_user_config(c) ==
    [i \in DOMAIN c.dns |-> <<"dns", c.dns[i]>>]
    \o (IF c.keepalive = Absent THEN <<>> ELSE << <<"keepalive", c.keepalive>> >>)
    \o (IF c.no_udp = Absent THEN <<>> ELSE << <<"no-udp", c.no_udp>> >>)

\* Repeated keys accumulate, of the others the last line counts.
parse_user_config_file(lines) ==
    LET values(k) == LET of == only(lines, {i \in DOMAIN lines : lines[i][1] = k})
                     IN  [i \in DOMAIN of |-> of[i][2]]
        last(k) == IF values(k) = <<>> THEN Absent ELSE values(k)[Len(values(k))]
    IN  [dns |-> values("dns"), keepalive |-> last("keepalive"), no_udp |-> last("no-udp")]

\* Empty settings remove the file.
save_user_config(u, c) ==
    /\ ops < MaxAccountOps
    /\ ops' = ops + 1
    /\ user_config' = [user_config EXCEPT ![u] =
            [file |-> IF c = NoSettings THEN Absent ELSE render_user_config(c), saved |-> c]]
    /\ UNCHANGED <<store, rewrite_lock, job, group_files, groupConfig, truth, contended>>

\* No line, no account and no file is none of them.
ASSUME AbsentAssumption ==
    /\ Absent \notin Line /\ Absent \notin Saying /\ Absent \notin {0, TRUE, FALSE}
    /\ \A c \in UserSettings : render_user_config(c) # Absent

-----------------------------------------------------------------------------

AccInit ==
    /\ store = [f \in Files |-> [u \in Users |->
            IF f = "passwd" THEN <<Group({}), Hash(CHOOSE p \in Passwords : TRUE)>> ELSE Absent]]
    /\ rewrite_lock = [f \in Files |-> Absent]
    /\ job = [w \in Processes |-> NoJob]
    /\ ops = 0
    /\ user_config = [u \in Users |-> [file |-> Absent, saved |-> NoSettings]]
    /\ group_files = UserGroups
    /\ policies = UserGroups
    /\ default_select_group = Absent
    /\ truth = [f \in Files |-> [u \in Users |->
            IF f = "passwd" THEN Says(CHOOSE p \in Passwords : TRUE, FALSE, {}) ELSE Absent]]
    /\ contended = FALSE

AccNext ==
    \/ \E w \in Processes : panel_account(w) \/ korctl_account(w) \/ write_lines(w)
    \/ \E w \in AccountWorkers : \/ list_members(w) \/ clear_member(w) \/ clear_policy(w)
                                 \/ policy_refused(w) \/ answer_error(w)
                                 \/ \E g \in UserGroups : delete_group(w, g)
    \/ \E g \in UserGroups : save_group_config(g) \/ delete_group_config(g)
    \/ \E g \in UserGroups \cup {Absent} : save_identity_settings(g)
    \/ \E u \in Users : \E c \in UserSettings : save_user_config(u, c)

AccSpec == AccInit /\ [][AccNext]_accVars

-----------------------------------------------------------------------------
(* Properties *)

(* Lines hold a hash, locks are held by panel threads that rewrite, and    *)
(* every process is at a step of an operation.                               *)
AccTypeOK ==
    /\ \A f \in Files, u \in Users : store[f][u] \in Line \cup {Absent}
    /\ \A f \in Files : rewrite_lock[f] # Absent =>
            rewrite_lock[f] \in AccountWorkers /\ rewriting(rewrite_lock[f], f)
    /\ \A w \in Processes : job[w].at \in {"idle", "write", "list", "members", "failed"}
    /\ group_files \subseteq UserGroups /\ policies \subseteq UserGroups
    /\ default_select_group \in UserGroups \cup {Absent}
    /\ ops \in Nat /\ contended \in BOOLEAN

\* What a line says to ocserv and to the panel.
view(line) ==
    IF line = Absent THEN Absent
    ELSE Says(line[Len(line)].hash, parse_passwd_record(line).disabled,
              parse_passwd_record(line).groups)

\* As the panel can read it: groups in a field that looks like a hash are not read.
readable(t) == IF t # Absent /\ t.groups \in LongLists THEN [t EXCEPT !.groups = {}] ELSE t

(* Parallel requests of the panel lose nothing: as long as no ocpasswd or    *)
(* korctl run overlapped another rewrite, every account has the password,    *)
(* lock, groups and OTP secret its operations amount to - no rewrite drops   *)
(* another user's change, and editing groups keeps the hash and the lock.    *)
AccountsKept ==
    ~contended => \A f \in Files, u \in Users : view(store[f][u]) = readable(truth[f][u])

\* An operation changes the line of its account, to say what the operation means.
AccountOps == UNION {Changes(u) : u \in Users}
account_changed(op, before, after) ==
    /\ after = [before EXCEPT ![op.file][op.user] = after[op.file][op.user]]
    /\ view(after[op.file][op.user]) = readable(meant(view(before[op.file][op.user]), op))

AccountStore == INSTANCE AtomicUpdates WITH
                   Updates <- AccountOps, Updated <- account_changed,
                   content <- store, raced <- contended

(* ocpasswd and users.oath change by one operation on one account at a time, *)
(* made to what they say at that moment, until an ocpasswd or korctl rewrite *)
(* overlaps another one; a group's deletion is one such operation for each   *)
(* member.                                                                   *)
AccountsImplementStore == AccountStore!Spec

\* Some user is listed as a member; a field that looks like a hash is not read.
HasMember(g) ==
    \E u \in Users : /\ store["passwd"][u] # Absent
                    /\ \E i \in DOMAIN store["passwd"][u] :
                        /\ g \in store["passwd"][u][i].groups
                        /\ store["passwd"][u][i].groups \notin LongLists

\* The three places list_groups and the users page read a group from.
Remains(g) == g \in group_files \/ g \in policies \/ HasMember(g)

(* A deleted group is gone from its file, the policies and every user: when  *)
(* delete_group ran with no other operation under way and answers that it is *)
(* done, nothing of the group remains, whatever was done to its members      *)
(* before.  When the last step, the save of the policies, is refused and the *)
(* answer is an error, no member and no file of the group is left all the    *)
(* same, and the policies are as they were.                                  *)
DeletedGroupGone ==
    [][\A w \in AccountWorkers, g \in UserGroups :
         (job[w].at = "members" /\ job[w].g = g /\ job[w].alone /\ job[w].start = ops)
            => /\ job'[w] = NoJob => ~Remains(g)'
               /\ job'[w] = Failed => /\ g \notin group_files' /\ ~HasMember(g)'
                                      /\ policies' = policies]_accVars

(* What is saved for a user is what the page and ocserv read back, zero and  *)
(* "false" included.                                                         *)
UserConfigReadBack ==
    \A u \in Users :
        IF user_config[u].file = Absent THEN user_config[u].saved = NoSettings
        ELSE parse_user_config_file(user_config[u].file) = user_config[u].saved
===============================================================================
