------------------------------- MODULE Upstream -------------------------------
(***************************************************************************)
(* UpstreamService and its users.  The watchdog process (korctl upstream   *)
(* watch), the panel's worker threads and CLI invocations all run          *)
(* connect / disconnect / switch_profile / recover / enforce on the same   *)
(* runtime marker, nftables table, policy-routing tables and openconnect   *)
(* processes, serialised by a reentrant flock; a rules reload              *)
(* (NftablesService.apply from the panel or korctl nft apply), the         *)
(* vpnc-script hook, configuration edits and the kernel take no lock.      *)
(*                                                                         *)
(* Every step is one command or one file access of the code: an nft        *)
(* invocation, an ip invocation, a dial, a kill, a read of the marker.     *)
(***************************************************************************)
EXTENDS Routing, FiniteSets

CONSTANTS
    Watchdog,         \* the upstream-watch process
    Admins,           \* panel requests and CLI invocations
    Init_Config,      \* the configurations the container may boot with
    Edit_Config,      \* bound: the configurations an edit may produce
    check_threshold,  \* upstream.check_threshold
    MaxRequests,      \* bound: operations started by admins
    MaxEdits,         \* bound: configuration edits
    MaxFaults,        \* bound: outages, deaths, bounces, failed nft runs, crashes
    MaxPushes         \* bound: changes of a server's pushed lists

ASSUME UpstreamAssumption ==
    /\ Watchdog \notin Admins
    /\ None \notin Admins \cup {Watchdog}
    /\ Init_Config \subseteq Config /\ Init_Config # {}
    /\ Edit_Config \subseteq Config
    /\ check_threshold \in Nat \ {0}
    /\ {MaxRequests, MaxEdits, MaxFaults, MaxPushes} \subseteq Nat

VARIABLES
    cfg,       \* config.yaml
    marker,    \* active-upstream, the runtime-switched profile
    pushed,    \* profiles with lists in the pushed-routing store
    applied,   \* the fingerprint of the pushed lists last applied
    nft,       \* the live korserver nftables table
    saved,     \* .routing_targets.json
    rules,     \* installed fwmark rules
    routes,    \* default route of each target's table
    up,        \* profiles whose openconnect process (and device) exists
    bad,       \* profiles whose server does not answer
    owner,     \* holder of .upstream.lock
    depth,     \* UpstreamService._lock_depth of each process
    pc,        \* next step of each process
    loc,       \* local variables of each process
    job,       \* ip commands a process still has to run, per target
    dev,       \* device argument of those commands
    watch,     \* the watchdog loop's own variables
    spent      \* how much of each bound is used

vars == <<cfg, marker, pushed, applied, nft, saved, rules, routes, up, bad,
          owner, depth, pc, loc, job, dev, watch, spent>>

files  == <<cfg, marker, pushed, applied>>
kernel == <<nft, saved, rules, routes, up, bad>>
lock   == <<owner, depth>>
ipcmds == <<job, dev>>

Proc == Admins \cup {Watchdog}

\* Steps taken while the upstream lock is held by this very call.
ConnectSteps    == {"c_check", "c_dial", "c_verify", "c_route", "c_named", "c_raise", "c_out"}
DisconnectSteps == {"d_check", "d_kill", "d_select", "d_out"}
SwitchSteps     == {"s_mark", "s_route", "s_out"}
CallSteps       == ConnectSteps \cup DisconnectSteps \cup SwitchSteps
LoopSteps       == {"n_loop", "r_start", "r_loop", "r_dial", "r_switch", "r_out", "e_out"}
NftSteps        == {"nft_probe", "nft_load", "nft_stale", "nft_save"}
FreeSteps       == {"idle", "s_save", "w_health", "w_ping", "p_check"}
LockSteps       == {"c_lock", "d_lock", "s_lock", "e_lock", "n_lock", "r_lock", "p_lock"}
PushSteps       == {"p_mark"}
Steps == CallSteps \cup LoopSteps \cup NftSteps \cup FreeSteps \cup LockSteps \cup PushSteps

\* Where NftablesService.apply returns to.
NftReturns == {"c_dial", "s_route", "p_mark", "idle"}
\* Who called connect, disconnect or switch_profile.
Callers == {"api", "cli", "enforce", "recover"}

Locals ==
    [view    : Config,                 \* the AppConfig this operation runs with
     arg     : Profiles,               \* the profile of the current call
     caller  : Callers,
     is_act  : BOOLEAN,                \* connect's is_active
     out     : Devices,                \* apply's outbound_interface
     ret     : NftReturns,
     targets : SUBSET Targets,         \* apply's resolved targets
     ready   : BOOLEAN,                \* _static_sets_ready
     ok      : BOOLEAN,                \* the ruleset load succeeded
     work    : SUBSET Profiles,        \* profiles a loop still has to visit
     current : Profiles \cup {None},   \* recover's current_name / active_name
     genuine : BOOLEAN,                \* recover's already_active
     success : BOOLEAN,                \* recover's result
     print   : SUBSET Profiles,        \* fingerprint read before the lock
     after   : {"c_out", "idle"}]      \* where apply_server_routing returns to

\* Locals of a process between two operations.
NoLocals ==
    [view |-> CHOOSE c \in Init_Config : TRUE, arg |-> First(Profiles), caller |-> "api",
     is_act |-> FALSE, out |-> Uplink, ret |-> "idle", targets |-> {},
     ready |-> FALSE, ok |-> FALSE, work |-> {}, current |-> None,
     genuine |-> FALSE, success |-> FALSE, print |-> {}, after |-> "idle"]

NoWatch == [fails |-> 0, ever |-> FALSE, settling |-> FALSE, failed |-> {}]

Jobs == {"none", "del", "add", "route", "cdel", "flush", "ensure"}

TypeOK ==
    /\ cfg \in Config
    /\ marker \in Profiles \cup {None}
    /\ pushed \subseteq Profiles
    /\ applied \subseteq Profiles
    /\ nft \in Rulesets
    /\ saved \subseteq Targets
    /\ rules \subseteq Targets
    /\ routes \in [Targets -> Devices \cup {None}]
    /\ up \subseteq Profiles
    /\ bad \subseteq Profiles
    /\ owner \in Proc \cup {None}
    /\ depth \in [Proc -> Nat]
    /\ pc \in [Proc -> Steps]
    /\ loc \in [Proc -> Locals]
    /\ job \in [Proc -> [Targets -> Jobs]]
    /\ dev \in [Proc -> [Targets -> Devices]]
    /\ watch \in [fails : Nat, ever : BOOLEAN, settling : BOOLEAN,
                  failed : SUBSET Profiles]
    /\ spent \in [requests : Nat, edits : Nat, faults : Nat, pushes : Nat]

-----------------------------------------------------------------------------
(***************************************************************************)
(* The lock, calls, and the ip commands of PolicyRoutingService.           *)
(***************************************************************************)

\* p has run every ip command of its previous step.
quiet(p) == \A t \in Targets : job[p][t] = "none"

at(p, step) == pc[p] = step /\ quiet(p)

\* Continue at step with locals l; an operation that ends leaves none behind.
move(p, step, l) ==
    /\ pc' = [pc EXCEPT ![p] = step]
    /\ loc' = [loc EXCEPT ![p] = IF step = "idle" THEN NoLocals ELSE l]

goto(p, step) == move(p, step, loc[p])

\* Mutant: the file lock is shared.
acquire_shared(p) ==
    /\ owner' = p
    /\ depth' = [depth EXCEPT ![p] = @ + 1]

\* _locked(), entry: reentrant within one instance.
acquire(p) ==
    /\ depth[p] > 0 \/ owner = None
    /\ owner' = p
    /\ depth' = [depth EXCEPT ![p] = @ + 1]

\* A method that enters _locked() at step and goes on at next.
enter(p, step, next) ==
    /\ at(p, step)
    /\ acquire(p)
    /\ goto(p, next)
    /\ UNCHANGED <<files, kernel, ipcmds, watch, spent>>

\* Mutant: every level unlocks the file.
release_every_level(p) ==
    /\ depth' = [depth EXCEPT ![p] = @ - 1]
    /\ owner' = None

\* _locked(), exit: only the outermost level unlocks the file.
release(p) ==
    /\ depth' = [depth EXCEPT ![p] = @ - 1]
    /\ owner' = IF depth[p] = 1 THEN None ELSE owner

\* Mutant: an exception leaves one level only.
unwind_one_level(p) ==
    /\ depth' = [depth EXCEPT ![p] = @ - 1]
    /\ owner' = IF owner = p THEN None ELSE owner

\* Every level is unwound: an uncaught exception, or the death of the process
\* (the kernel drops the flock with the descriptor).
unwind(p) ==
    /\ depth' = [depth EXCEPT ![p] = 0]
    /\ owner' = IF owner = p THEN None ELSE owner

\* The default target's commands run first, then the profiles' in list order.
precedes(u, t) ==
    t # Default /\ (u = Default \/ (u # t /\ Position[u] <= Position[t]))

\* Queue the ip commands j for the targets in T, with device d[t].
queue(p, T, j, d) ==
    /\ job' = [job EXCEPT ![p] = [t \in Targets |-> IF t \in T THEN j ELSE "none"]]
    /\ dev' = [dev EXCEPT ![p] = [t \in Targets |-> IF t \in T THEN d[t] ELSE Uplink]]

\* PolicyRoutingService.apply / ensure / cleanup, one ip command per step.
\* `ip route replace` fails when the device does not exist.
ip_command(p, t) ==
    LET j    == job[p][t]
        d    == dev[p][t]
        step(next) == job' = [job EXCEPT ![p][t] = next] /\ UNCHANGED dev
        last       == /\ job' = [job EXCEPT ![p][t] = "none"]
                      /\ dev' = [dev EXCEPT ![p][t] = Uplink]
    IN  /\ j # "none"
        /\ \A u \in Targets : precedes(u, t) => job[p][u] = "none"
        /\ \/ /\ j = "del"
              /\ rules' = rules \ {t}
              /\ step("add")
              /\ UNCHANGED routes
           \/ /\ j \in {"add", "ensure"}
              /\ rules' = rules \cup {t}
              /\ step("route")
              /\ UNCHANGED routes
           \/ /\ j = "route"
              /\ routes' = [routes EXCEPT ![t] = IF d \in up \cup {Uplink} THEN d ELSE @]
              /\ last
              /\ UNCHANGED rules
           \/ /\ j = "cdel"
              /\ rules' = rules \ {t}
              /\ step("flush")
              /\ UNCHANGED routes
           \/ /\ j = "flush"
              /\ routes' = [routes EXCEPT ![t] = None]
              /\ last
              /\ UNCHANGED rules
        /\ UNCHANGED <<files, nft, saved, up, bad, lock, pc, loc, watch, spent>>

\* UpstreamService._named_target_routing.
named_targets(c) == list_targets(c, pushed) \ {Default}

\* PushedRoutingStore.fingerprint, abstracted to which profiles contribute.
fingerprint(c) == c.accept \cap pushed

\* The device of each named target is its own profile's, or every command
\* uses device d.
own    == [t \in Targets |-> IF t = Default THEN Uplink ELSE t]
via(d) == [t \in Targets |-> d]

-----------------------------------------------------------------------------
(***************************************************************************)
(* NftablesService.apply.                                                  *)
(***************************************************************************)

call_nft(p, l, outbound, ret) ==
    move(p, "nft_probe", [l EXCEPT !.out = outbound, !.ret = ret])

\* resolve_targets, then _static_sets_ready.
nft_probe(p) ==
    /\ at(p, "nft_probe")
    /\ move(p, "nft_load",
            [loc[p] EXCEPT
               !.targets = list_targets(loc[p].view, pushed),
               !.ready = nft.sets = expected_set_names(loc[p].view, pushed)])
    /\ UNCHANGED <<files, kernel, lock, ipcmds, watch, spent>>

\* _apply_ruleset: the static refresh leaves every chain as it is and fails
\* when a set is gone; then, or without it, the whole table is recreated.
\* A ruleset that loads is followed by _reassert_policy_routing.
nft_load(p) ==
    LET l       == loc[p]
        refresh == l.ready /\ expected_set_names(l.view, pushed) \subseteq nft.sets
        iface   == [t \in Targets |-> target_interface(l.view, l.out, t)]
    IN  /\ at(p, "nft_load")
        /\ nft' = IF refresh THEN nft ELSE render(l.view, pushed, l.out)
        /\ move(p, "nft_stale", [l EXCEPT !.ok = TRUE])
        /\ IF l.view.enabled
           THEN queue(p, {t \in l.targets : t = Default =>
                              config_selected_profile(l.view) # None},
                      "del", iface)
           ELSE UNCHANGED ipcmds
        /\ UNCHANGED <<files, saved, rules, routes, up, bad, lock, watch, spent>>

\* nft fails: nothing else is touched, and apply returns the failed result.
nft_load_fails(p) ==
    /\ at(p, "nft_load")
    /\ spent.faults < MaxFaults
    /\ spent' = [spent EXCEPT !.faults = @ + 1]
    /\ move(p, loc[p].ret, [loc[p] EXCEPT !.ok = FALSE])
    /\ UNCHANGED <<files, kernel, lock, ipcmds, watch>>

\* _cleanup_stale_targets: targets of the previous apply that are gone.
nft_stale(p) ==
    /\ at(p, "nft_stale")
    /\ queue(p, saved \ loc[p].targets, "cdel", via(Uplink))
    /\ goto(p, "nft_save")
    /\ UNCHANGED <<files, kernel, lock, watch, spent>>

nft_save(p) ==
    /\ at(p, "nft_save")
    /\ saved' = loc[p].targets
    /\ goto(p, loc[p].ret)
    /\ UNCHANGED <<files, nft, rules, routes, up, bad, lock, ipcmds, watch, spent>>

-----------------------------------------------------------------------------
(***************************************************************************)
(* UpstreamService.connect.                                                *)
(***************************************************************************)

connect_lock(p) == enter(p, "c_lock", "c_check")

\* Mutants: the active profile is the configured one; the rules are loaded for
\* the host's own connection until the tunnel is up.
connect_check_config(p) ==
    LET l == loc[p]
    IN  /\ at(p, "c_check")
        /\ IF l.arg \in up
           THEN goto(p, "c_out")
           ELSE call_nft(p,
                    [l EXCEPT !.is_act = config_selected_profile(l.view) = l.arg],
                    active_interface(l.view, marker), "c_dial")
        /\ UNCHANGED <<files, kernel, lock, ipcmds, watch, spent>>

connect_check_uplink(p) ==
    LET l == loc[p]
    IN  /\ at(p, "c_check")
        /\ IF l.arg \in up
           THEN goto(p, "c_out")
           ELSE call_nft(p,
                    [l EXCEPT !.is_act = selected_profile(l.view, marker) = l.arg],
                    Uplink, "c_dial")
        /\ UNCHANGED <<files, kernel, lock, ipcmds, watch, spent>>

\* Already connected is a no-op; otherwise is_active is decided and the rules
\* are refreshed before dialing.
connect_check(p) ==
    LET l == loc[p]
    IN  /\ at(p, "c_check")
        /\ IF l.arg \in up
           THEN goto(p, "c_out")
           ELSE call_nft(p,
                    [l EXCEPT !.is_act = selected_profile(l.view, marker) = l.arg],
                    active_interface(l.view, marker), "c_dial")
        /\ UNCHANGED <<files, kernel, lock, ipcmds, watch, spent>>

\* openconnect --background.  The hook has stored the pushed lists (or not)
\* when it returns.
connect_dial(p) ==
    LET x == loc[p].arg
    IN  /\ at(p, "c_dial")
        /\ IF x \in bad
           THEN goto(p, "c_raise") /\ UNCHANGED <<up, pushed, spent>>
           ELSE /\ up' = up \cup {x}
                /\ goto(p, "c_verify")
                /\ \/ UNCHANGED <<pushed, spent>>
                   \/ /\ x \in loc[p].view.accept \ pushed
                      /\ spent.pushes < MaxPushes
                      /\ spent' = [spent EXCEPT !.pushes = @ + 1]
                      /\ pushed' = pushed \cup {x}
        /\ UNCHANGED <<cfg, marker, applied, nft, saved, rules, routes, bad, lock,
                       ipcmds, watch>>

\* _verify_backgrounded
connect_verify(p) ==
    /\ at(p, "c_verify")
    /\ goto(p, IF loc[p].arg \in up THEN "c_route" ELSE "c_raise")
    /\ UNCHANGED <<files, kernel, lock, ipcmds, watch, spent>>

connect_route(p) ==
    /\ at(p, "c_route")
    /\ queue(p, IF loc[p].is_act THEN {Default} ELSE {}, "del", via(loc[p].arg))
    /\ goto(p, "c_named")
    /\ UNCHANGED <<files, kernel, lock, watch, spent>>

connect_named(p) ==
    /\ at(p, "c_named")
    /\ queue(p, named_targets(loc[p].view) \cap {loc[p].arg}, "del", own)
    /\ move(p, "p_check", [loc[p] EXCEPT !.after = "c_out"])
    /\ UNCHANGED <<files, kernel, lock, watch, spent>>

\* Mutant: the lock is not released when the dial fails.
connect_raise_keeps_lock(p) ==
    /\ at(p, "c_raise")
    /\ goto(p, CASE loc[p].caller = "enforce" -> "n_loop"
                 [] loc[p].caller = "recover" -> "r_loop"
                 [] OTHER -> "idle")
    /\ UNCHANGED <<files, kernel, lock, ipcmds, watch, spent>>

\* A raised CommandError: the request fails, the loops go on.
connect_raise(p) ==
    /\ at(p, "c_raise")
    /\ release(p)
    /\ goto(p, CASE loc[p].caller = "enforce" -> "n_loop"
                 [] loc[p].caller = "recover" -> "r_loop"
                 [] OTHER -> "idle")
    /\ UNCHANGED <<files, kernel, ipcmds, watch, spent>>

connect_return(p) ==
    /\ at(p, "c_out")
    /\ release(p)
    /\ goto(p, CASE loc[p].caller = "enforce" -> "n_loop"
                 [] loc[p].caller = "recover" -> "r_switch"
                 [] OTHER -> "idle")
    /\ UNCHANGED <<files, kernel, ipcmds, watch, spent>>

(***************************************************************************)
(* UpstreamService.apply_server_routing_if_changed.                        *)
(***************************************************************************)

\* The fingerprint is computed before the lock is taken.
push_check(p) ==
    LET f == fingerprint(loc[p].view)
    IN  /\ at(p, "p_check")
        /\ move(p, IF f = applied THEN loc[p].after ELSE "p_lock",
                [loc[p] EXCEPT !.print = f])
        /\ UNCHANGED <<files, kernel, lock, ipcmds, watch, spent>>

push_lock(p) ==
    /\ at(p, "p_lock")
    /\ acquire(p)
    /\ call_nft(p, loc[p], active_interface(loc[p].view, marker), "p_mark")
    /\ UNCHANGED <<files, kernel, ipcmds, watch, spent>>

\* Mutant: the lists are marked as applied and the lock is kept.
push_mark_keeps_lock(p) ==
    /\ at(p, "p_mark")
    /\ applied' = IF loc[p].ok THEN loc[p].print ELSE applied
    /\ goto(p, loc[p].after)
    /\ UNCHANGED <<cfg, marker, pushed, kernel, lock, ipcmds, watch, spent>>

push_mark(p) ==
    /\ at(p, "p_mark")
    /\ applied' = IF loc[p].ok THEN loc[p].print ELSE applied
    /\ release(p)
    /\ goto(p, loc[p].after)
    /\ UNCHANGED <<cfg, marker, pushed, kernel, ipcmds, watch, spent>>

(***************************************************************************)
(* UpstreamService.disconnect.                                             *)
(***************************************************************************)

disconnect_lock(p) == enter(p, "d_lock", "d_check")

\* Mutant: disconnect waits, lock in hand, for a tunnel that is not there.
disconnect_check_waits(p) ==
    /\ at(p, "d_check")
    /\ goto(p, IF loc[p].arg \in up THEN "d_kill" ELSE "d_check")
    /\ UNCHANGED <<files, kernel, lock, ipcmds, watch, spent>>

disconnect_check(p) ==
    /\ at(p, "d_check")
    /\ goto(p, IF loc[p].arg \in up THEN "d_kill" ELSE "d_out")
    /\ UNCHANGED <<files, kernel, lock, ipcmds, watch, spent>>

\* SIGTERM, and SIGKILL after the grace period: the process and its device go.
disconnect_kill(p) ==
    /\ at(p, "d_kill")
    /\ loc[p].arg \in up
    /\ up' = up \ {loc[p].arg}
    /\ routes' = purge(routes, loc[p].arg)
    /\ goto(p, "d_select")
    /\ UNCHANGED <<files, nft, saved, rules, bad, lock, ipcmds, watch, spent>>

\* The process died after the check: os.kill raises ProcessLookupError, which
\* nothing catches.  A request fails; the watchdog exits and is restarted.
disconnect_kill_raises(p) ==
    /\ at(p, "d_kill")
    /\ loc[p].arg \notin up
    /\ unwind(p)
    /\ goto(p, "idle")
    /\ watch' = IF p = Watchdog THEN NoWatch ELSE watch
    /\ UNCHANGED <<files, kernel, ipcmds, spent>>

\* Only the profile that is active now carries the default policy route.
disconnect_select(p) ==
    LET l == loc[p]
    IN  /\ at(p, "d_select")
        /\ queue(p, (IF selected_profile(l.view, marker) = l.arg THEN {Default} ELSE {})
                      \cup (named_targets(l.view) \cap {l.arg}),
                 "cdel", via(Uplink))
        /\ goto(p, "d_out")
        /\ UNCHANGED <<files, kernel, lock, watch, spent>>

disconnect_return(p) ==
    /\ at(p, "d_out")
    /\ release(p)
    /\ goto(p, CASE loc[p].caller = "enforce" -> "n_loop"
                 [] loc[p].caller = "recover" -> "r_dial"
                 [] OTHER -> "idle")
    /\ UNCHANGED <<files, kernel, ipcmds, watch, spent>>

(***************************************************************************)
(* UpstreamService.switch_profile.                                         *)
(***************************************************************************)

switch_lock(p) == enter(p, "s_lock", "s_mark")

switch_mark(p) ==
    /\ at(p, "s_mark")
    /\ marker' = loc[p].arg
    /\ call_nft(p, loc[p], loc[p].arg, "s_route")
    /\ UNCHANGED <<cfg, pushed, applied, kernel, lock, ipcmds, watch, spent>>

switch_route(p) ==
    /\ at(p, "s_route")
    /\ queue(p, IF loc[p].arg \in up THEN {Default} ELSE {}, "del", via(loc[p].arg))
    /\ goto(p, "s_out")
    /\ UNCHANGED <<files, kernel, lock, watch, spent>>

switch_return(p) ==
    /\ at(p, "s_out")
    /\ release(p)
    /\ goto(p, CASE loc[p].caller = "api" -> "s_save"
                 [] loc[p].caller = "cli" -> "idle"
                 [] OTHER                 -> "r_out")
    /\ UNCHANGED <<files, kernel, ipcmds, watch, spent>>

\* POST /switch then saves active_profile (korctl upstream switch does not).
switch_save(p) ==
    /\ at(p, "s_save")
    /\ cfg' = [cfg EXCEPT !.active = loc[p].arg]
    /\ goto(p, "idle")
    /\ UNCHANGED <<marker, pushed, applied, kernel, lock, ipcmds, watch, spent>>

-----------------------------------------------------------------------------
(***************************************************************************)
(* The watchdog: ensure_policy_routing, enforce_profile_enablement,        *)
(* recover and the loop of korctl upstream watch.                          *)
(***************************************************************************)

\* Call connect, disconnect or switch_profile of x.
call(p, l, x, who, step) ==
    move(p, step, [l EXCEPT !.arg = x, !.caller = who])

\* The locals of an operation that starts with the configuration of now.
fresh(p) == [loc[p] EXCEPT !.view = cfg]

\* Mutant: without a selected profile the tick does nothing.
watch_tick_active_only(p) ==
    /\ p = Watchdog
    /\ at(p, "idle")
    /\ IF cfg.enabled /\ selected_profile(cfg, marker) # None
       THEN move(p, "w_health", fresh(p)) /\ UNCHANGED watch
       ELSE /\ watch' = [watch EXCEPT !.fails = 0, !.failed = {}]
            /\ UNCHANGED <<pc, loc>>
    /\ UNCHANGED <<files, kernel, lock, ipcmds, spent>>

\* One tick of the loop, with the configuration of now.
watch_tick(p) ==
    /\ p = Watchdog
    /\ at(p, "idle")
    /\ IF cfg.enabled /\ selected_profile(cfg, marker) # None
       THEN move(p, "w_health", fresh(p)) /\ UNCHANGED watch
       ELSE /\ move(p, IF cfg.enabled THEN "n_lock" ELSE "idle", fresh(p))
            /\ watch' = [watch EXCEPT !.fails = 0, !.failed = {}]
    /\ UNCHANGED <<files, kernel, lock, ipcmds, spent>>

\* What the loop makes of is_healthy.
watch_verdict(p, healthy) ==
    LET c      == loc[p].view
        s      == selected_profile(c, marker)
        failed == watch.failed \cup ({s} \ {None})
    IN  \/ /\ healthy
           /\ watch' = [watch EXCEPT !.fails = 0, !.failed = {}, !.ever = TRUE]
           /\ goto(p, "e_lock")
        \/ /\ ~healthy
           /\ ~c.connect_on_boot /\ ~watch.ever
           /\ watch' = [watch EXCEPT !.fails = 0, !.failed = {}]
           /\ goto(p, "n_lock")
        \/ /\ ~healthy
           /\ c.connect_on_boot \/ watch.ever
           /\ watch.settling
           /\ goto(p, "n_lock")
           /\ UNCHANGED watch
        \/ /\ ~healthy
           /\ c.connect_on_boot \/ watch.ever
           /\ ~watch.settling
           /\ watch' = [watch EXCEPT !.fails = @ + 1, !.failed = failed]
           /\ goto(p, IF watch.fails + 1 >= check_threshold THEN "r_lock" ELSE "n_lock")

\* is_healthy, without the lock: the selected profile's process is alive, ...
watch_health(p) ==
    /\ at(p, "w_health")
    /\ IF selected_profile(loc[p].view, marker) \in up
       THEN goto(p, "w_ping") /\ UNCHANGED watch
       ELSE watch_verdict(p, FALSE)
    /\ UNCHANGED <<files, kernel, lock, ipcmds, spent>>

\* ... and healthcheck, which reads the selection again, gets an answer.
watch_ping(p) ==
    LET s == selected_profile(loc[p].view, marker)
    IN  /\ at(p, "w_ping")
        /\ watch_verdict(p, s = None \/ s \in up \ bad)
        /\ UNCHANGED <<files, kernel, lock, ipcmds, spent>>

\* time.monotonic() passes settled_until.
settle_expires ==
    /\ watch.settling
    /\ watch' = [watch EXCEPT !.settling = FALSE]
    /\ UNCHANGED <<files, kernel, lock, pc, loc, ipcmds, spent>>

\* Mutant: only the named targets are re-asserted.
ensure_lock_named(p) ==
    /\ at(p, "e_lock")
    /\ acquire(p)
    /\ queue(p, named_targets(loc[p].view) \cap up, "ensure", own)
    /\ goto(p, "e_out")
    /\ UNCHANGED <<files, kernel, watch, spent>>

\* ensure_policy_routing: lock, then re-assert the connected targets.
ensure_lock(p) ==
    LET c == loc[p].view
        s == selected_profile(c, marker)
    IN  /\ at(p, "e_lock")
        /\ acquire(p)
        /\ queue(p, (IF s # None /\ s \in up THEN {Default} ELSE {})
                      \cup (named_targets(c) \cap up),
                 "ensure", [own EXCEPT ![Default] = s])
        /\ goto(p, "e_out")
        /\ UNCHANGED <<files, kernel, watch, spent>>

ensure_return(p) ==
    /\ at(p, "e_out")
    /\ release(p)
    /\ goto(p, "n_lock")
    /\ UNCHANGED <<files, kernel, ipcmds, watch, spent>>

\* enforce_profile_enablement
enforce_lock(p) ==
    /\ at(p, "n_lock")
    /\ acquire(p)
    /\ move(p, "n_loop", [loc[p] EXCEPT !.work = Profiles,
                             !.current = selected_profile(loc[p].view, marker)])
    /\ UNCHANGED <<files, kernel, ipcmds, watch, spent>>

enforce_loop(p) ==
    LET x    == First(loc[p].work)
        rest == [loc[p] EXCEPT !.work = @ \ {x}]
        on   == x \in loc[p].view.on
    IN  /\ at(p, "n_loop")
        /\ loc[p].work # {}
        /\ \/ ~on /\ x \in up /\ call(p, rest, x, "enforce", "d_lock")
           \/ /\ on /\ x # loc[p].current /\ x \notin up
              /\ call(p, rest, x, "enforce", "c_lock")
           \/ /\ IF on THEN x = loc[p].current \/ x \in up ELSE x \notin up
              /\ move(p, "n_loop", rest)
        /\ UNCHANGED <<files, kernel, lock, ipcmds, watch, spent>>

enforce_return(p) ==
    /\ at(p, "n_loop")
    /\ loc[p].work = {}
    /\ release(p)
    /\ move(p, "p_check", [loc[p] EXCEPT !.after = "idle"])
    /\ UNCHANGED <<files, kernel, ipcmds, watch, spent>>

\* recover
recover_lock(p) == enter(p, "r_lock", "r_start")

recover_start(p) ==
    LET c      == loc[p].view
        active == selected_profile(c, marker)
        cur    == IF active # None THEN active ELSE First(c.on)
    IN  /\ at(p, "r_start")
        /\ IF c.on = {}
           THEN move(p, "r_out", [loc[p] EXCEPT !.success = FALSE])
           ELSE move(p, "r_loop", [loc[p] EXCEPT
                             !.current = cur,
                             !.genuine = active # None,
                             !.work = IF c.failover THEN c.on ELSE {cur},
                             !.success = FALSE])
        /\ UNCHANGED <<files, kernel, lock, ipcmds, watch, spent>>

\* List order, starting at the current profile and wrapping around.
next_candidate(l) ==
    LET later == {x \in l.work : Position[x] >= Position[l.current]}
    IN  IF later # {} THEN First(later) ELSE First(l.work)

recover_loop(p) ==
    LET l    == loc[p]
        x    == next_candidate(l)
        rest == [l EXCEPT !.work = @ \ {x}]
        failing == x = l.current /\ l.genuine
    IN  /\ at(p, "r_loop")
        /\ IF l.work = {}
           THEN goto(p, "r_out")
           ELSE call(p, rest, x, "recover",
                     CASE failing /\ x \in up   -> "d_lock"
                       [] x \notin up           -> "c_lock"
                       [] OTHER                 -> "r_switch")
        /\ UNCHANGED <<files, kernel, lock, ipcmds, watch, spent>>

\* After the failing connection is torn down it is dialed again.
recover_dial(p) ==
    /\ at(p, "r_dial")
    /\ call(p, loc[p], loc[p].arg, "recover", "c_lock")
    /\ UNCHANGED <<files, kernel, lock, ipcmds, watch, spent>>

\* Mutant: a standby that was brought up is never made active.
recover_switch_never(p) ==
    /\ at(p, "r_switch")
    /\ move(p, "r_out", [loc[p] EXCEPT !.success = TRUE])
    /\ UNCHANGED <<files, kernel, lock, ipcmds, watch, spent>>

\* A reconnected active profile is done, any other one is switched to.
recover_switch(p) ==
    LET l == [loc[p] EXCEPT !.success = TRUE]
    IN  /\ at(p, "r_switch")
        /\ IF l.arg = l.current /\ l.genuine
           THEN move(p, "r_out", l)
           ELSE call(p, l, l.arg, "recover", "s_lock")
        /\ UNCHANGED <<files, kernel, lock, ipcmds, watch, spent>>

\* recover returns and the loop resets its streak.
recover_return(p) ==
    /\ at(p, "r_out")
    /\ release(p)
    /\ watch' = IF loc[p].success
                THEN [fails |-> 0, failed |-> {}, settling |-> TRUE, ever |-> TRUE]
                ELSE [watch EXCEPT !.fails = 0, !.failed = {}]
    /\ goto(p, "n_lock")
    /\ UNCHANGED <<files, kernel, ipcmds, spent>>

-----------------------------------------------------------------------------
(***************************************************************************)
(* Requests from the panel and the CLI, and configuration edits.           *)
(***************************************************************************)

request(a) ==
    /\ a \in Admins
    /\ at(a, "idle")
    /\ spent.requests < MaxRequests
    /\ spent' = [spent EXCEPT !.requests = @ + 1]

\* The profile of connect and disconnect, by name or the selected one, is
\* chosen before the lock is taken.  (Without any, connect raises at once and
\* disconnect returns "not connected".)
request_connect(a) ==
    /\ request(a)
    /\ \E x \in Profiles : call(a, fresh(a), x, "api", "c_lock")
    /\ UNCHANGED <<files, kernel, lock, ipcmds, watch>>

request_disconnect(a) ==
    /\ request(a)
    /\ \E x \in Profiles : call(a, fresh(a), x, "api", "d_lock")
    /\ UNCHANGED <<files, kernel, lock, ipcmds, watch>>

request_switch(a) ==
    /\ request(a)
    /\ \E x \in Profiles, who \in {"api", "cli"} : call(a, fresh(a), x, who, "s_lock")
    /\ UNCHANGED <<files, kernel, lock, ipcmds, watch>>

\* Panel Reload / korctl nft apply: no lock, and the configuration's idea of
\* the selected profile.
request_reload(a) ==
    /\ request(a)
    /\ call_nft(a, fresh(a), resolve_outbound(cfg), "idle")
    /\ UNCHANGED <<files, kernel, lock, ipcmds, watch>>

\* korctl nft cleanup: the table is deleted, without the lock.
request_cleanup(a) ==
    /\ request(a)
    /\ nft' = NoTable
    /\ UNCHANGED <<files, saved, rules, routes, up, bad, lock, pc, loc, ipcmds, watch>>

\* POST /profiles/{name}/sync: the lists fetched through the tunnel of x are
\* stored, then applied if they changed.
request_sync(a) ==
    /\ request(a)
    /\ \E x \in up \cap cfg.accept : pushed' \in {pushed \cup {x}, pushed \ {x}}
    /\ move(a, "p_check", [fresh(a) EXCEPT !.after = "idle"])
    /\ UNCHANGED <<cfg, marker, applied, kernel, lock, ipcmds, watch>>

\* apply_config_patch
edit(c) ==
    /\ spent.edits < MaxEdits
    /\ c \in Edit_Config \ {cfg}
    /\ spent' = [spent EXCEPT !.edits = @ + 1]
    /\ cfg' = c
    /\ UNCHANGED <<marker, pushed, applied, kernel, lock, pc, loc, ipcmds, watch>>

\* A payload that leaves x in or out of a list of profiles.
given(S, x) == {S \cup {x}, S \ {x}}

set_profile_enabled ==
    \E x \in Profiles : \E on \in given(cfg.on, x) : edit([cfg EXCEPT !.on = on])

save_settings ==
    \E e, f, b \in BOOLEAN, a \in Profiles \cup {cfg.active} :
        edit([cfg EXCEPT !.enabled = e, !.failover = f, !.connect_on_boot = b,
                         !.active = a])

\* Saving a profile also sets upstream.enabled, and the default profile when
\* there is none yet.
save_profile ==
    \E x \in Profiles, e \in BOOLEAN :
    \E on \in given(cfg.on, x), c \in given(cfg.clients, x),
       h \in given(cfg.hosts, x), s \in given(cfg.accept, x) :
        edit([cfg EXCEPT !.on = on, !.clients = c, !.hosts = h, !.accept = s,
                         !.enabled = e, !.active = IF @ = None THEN x ELSE @])

save_routing_settings ==
    \E t \in BOOLEAN, h \in {"off", "full", "split"} :
        edit([cfg EXCEPT !.client_traffic = t, !.host_traffic = h])

-----------------------------------------------------------------------------
(***************************************************************************)
(* The environment: servers, tunnels, the hook, and process deaths.        *)
(***************************************************************************)

fault ==
    /\ spent.faults < MaxFaults
    /\ spent' = [spent EXCEPT !.faults = @ + 1]

\* A server stops or resumes answering dials and pings.
server_outage ==
    /\ fault
    /\ \E x \in Profiles : bad' = IF x \in bad THEN bad \ {x} ELSE bad \cup {x}
    /\ UNCHANGED <<files, nft, saved, rules, routes, up, lock, pc, loc, ipcmds, watch>>

\* An openconnect process exits on its own.
tunnel_dies ==
    /\ fault
    /\ \E x \in up : up' = up \ {x} /\ routes' = purge(routes, x)
    /\ UNCHANGED <<files, nft, saved, rules, bad, lock, pc, loc, ipcmds, watch>>

\* openconnect reconnects internally: the kernel purges the device's routes.
device_bounces ==
    /\ fault
    /\ \E x \in up : routes' = purge(routes, x)
    /\ UNCHANGED <<files, nft, saved, rules, up, bad, lock, pc, loc, ipcmds, watch>>

\* The hook (record_vpnc_event) or the watchdog's sync_server_routes stores a
\* profile's lists.  Lists of a profile that does not accept them are unused.
record_vpnc_event ==
    /\ spent.pushes < MaxPushes
    /\ spent' = [spent EXCEPT !.pushes = @ + 1]
    /\ \E x \in up \cap cfg.accept :
          pushed' = IF x \in pushed THEN pushed \ {x} ELSE pushed \cup {x}
    /\ UNCHANGED <<cfg, marker, applied, kernel, lock, pc, loc, ipcmds, watch>>

\* A process dies in the middle of whatever it does; supervisord restarts the
\* watchdog, whose loop variables start over.
process_dies(p) ==
    /\ fault
    /\ pc[p] # "idle"
    /\ unwind(p)
    /\ goto(p, "idle")
    /\ queue(p, {}, "none", own)
    /\ watch' = IF p = Watchdog THEN NoWatch ELSE watch
    /\ UNCHANGED <<files, kernel>>

-----------------------------------------------------------------------------

\* initialize_runtime has loaded the rules for the configuration at boot; the
\* marker and the pushed lists survive a restart, the tunnels do not.
Init ==
    /\ cfg \in Init_Config
    /\ marker \in Profiles \cup {None}
    /\ pushed \in SUBSET cfg.accept
    /\ applied \in SUBSET cfg.accept
    /\ nft = render(cfg, pushed, resolve_outbound(cfg))
    /\ saved = list_targets(cfg, pushed)
    /\ rules = IF cfg.enabled
               THEN {t \in saved : t = Default => config_selected_profile(cfg) # None}
               ELSE {}
    /\ routes = [t \in Targets |->
                   IF t \in rules /\ target_interface(cfg, resolve_outbound(cfg), t) = Uplink
                   THEN Uplink ELSE None]
    /\ up = {} /\ bad = {}
    /\ owner = None
    /\ depth = [p \in Proc |-> 0]
    /\ pc = [p \in Proc |-> "idle"]
    /\ loc = [p \in Proc |-> NoLocals]
    /\ job = [p \in Proc |-> [t \in Targets |-> "none"]]
    /\ dev = [p \in Proc |-> [t \in Targets |-> Uplink]]
    /\ watch = NoWatch
    /\ spent = [requests |-> 0, edits |-> 0, faults |-> 0, pushes |-> 0]

connect_step(p) ==
    \/ connect_lock(p) \/ connect_check(p) \/ connect_dial(p) \/ connect_verify(p)
    \/ connect_route(p) \/ connect_named(p) \/ connect_raise(p) \/ connect_return(p)

push_step(p) == push_check(p) \/ push_lock(p) \/ push_mark(p)

disconnect_step(p) ==
    \/ disconnect_lock(p) \/ disconnect_check(p) \/ disconnect_kill(p)
    \/ disconnect_kill_raises(p) \/ disconnect_select(p) \/ disconnect_return(p)

switch_step(p) ==
    \/ switch_lock(p) \/ switch_mark(p) \/ switch_route(p) \/ switch_return(p)
    \/ switch_save(p)

nft_step(p) == nft_probe(p) \/ nft_load(p) \/ nft_stale(p) \/ nft_save(p)

watch_step(p) ==
    \/ watch_tick(p) \/ watch_health(p) \/ watch_ping(p) \/ ensure_lock(p) \/ ensure_return(p)
    \/ enforce_lock(p) \/ enforce_loop(p) \/ enforce_return(p)
    \/ recover_lock(p) \/ recover_start(p) \/ recover_loop(p) \/ recover_dial(p)
    \/ recover_switch(p) \/ recover_return(p)

\* Waiting for .upstream.lock.
lock_step(p) ==
    \/ connect_lock(p) \/ disconnect_lock(p) \/ switch_lock(p) \/ push_lock(p)
    \/ ensure_lock(p) \/ enforce_lock(p) \/ recover_lock(p)

\* What process p does by itself, once it runs.
proc_step(p) ==
    \/ connect_step(p) \/ push_step(p) \/ disconnect_step(p) \/ switch_step(p)
    \/ nft_step(p) \/ watch_step(p)
    \/ \E t \in Targets : ip_command(p, t)

admin_step(a) ==
    \/ request_connect(a) \/ request_disconnect(a) \/ request_switch(a)
    \/ request_reload(a) \/ request_cleanup(a) \/ request_sync(a)

edit_step ==
    set_profile_enabled \/ save_settings \/ save_profile \/ save_routing_settings

environment ==
    \/ server_outage \/ tunnel_dies \/ device_bounces \/ record_vpnc_event
    \/ settle_expires
    \/ \E p \in Proc : process_dies(p) \/ nft_load_fails(p)

Next ==
    \/ \E p \in Proc : proc_step(p)
    \/ \E a \in Admins : admin_step(a)
    \/ edit_step
    \/ environment

Spec == Init /\ [][Next]_vars

\* Every process that runs goes on; flock serves its waiters in turn, so one
\* that is let in again and again is not passed over forever; time passes.
Fairness ==
    /\ \A p \in Proc : WF_vars(proc_step(p)) /\ SF_vars(lock_step(p))
    /\ WF_vars(settle_expires)

FairSpec == Spec /\ Fairness

-----------------------------------------------------------------------------
(***************************************************************************)
(* The lock.                                                               *)
(***************************************************************************)

\* How many _locked() blocks p is inside of, from where it is and who called.
CallLevel(l) == IF l.caller \in {"enforce", "recover"} THEN 2 ELSE 1

PushLevel(l) == IF l.after = "c_out" THEN CallLevel(l) ELSE 0

LevelAt(step, l) ==
    CASE step \in CallSteps                      -> CallLevel(l)
      [] step \in {"c_lock", "d_lock", "s_lock"} -> CallLevel(l) - 1
      [] step \in LoopSteps                      -> 1
      [] step \in {"p_check", "p_lock"}          -> PushLevel(l)
      [] step = "p_mark"                         -> PushLevel(l) + 1
      [] step \in NftSteps /\ l.ret = "p_mark"   -> PushLevel(l) + 1
      [] step \in NftSteps /\ l.ret \in {"c_dial", "s_route"} -> CallLevel(l)
      [] OTHER                                   -> 0

Level(p) == LevelAt(pc[p], loc[p])

\* _lock_depth counts exactly the blocks a process is inside of, and the file
\* is locked by whoever has a positive depth: no path (nested call, raised
\* error, failed apply, dead process) leaks or loses a level.
LockDepth ==
    \A p \in Proc : depth[p] = Level(p) /\ (depth[p] > 0 <=> owner = p)

\* At most one process is inside a _locked() block.
MutualExclusion ==
    \A p, q \in Proc : Level(p) > 0 /\ Level(q) > 0 => p = q

\* The processes inside a _locked() block, by where they are.
Inside == {p \in Proc : Level(p) > 0}

Lock == INSTANCE Mutex WITH inside <- Inside

\* The reentrant lock implements a plain mutex: whatever operations nest, fail
\* or die, the _locked() blocks together have one process inside at a time,
\* nested levels never hand them over, and they never pass from one process to
\* another without being empty in between.
LockImplementsMutex == Lock!Spec

-----------------------------------------------------------------------------
(***************************************************************************)
(* Safety.                                                                 *)
(***************************************************************************)

\* Inside the lock, an ip command for the default target always agrees with
\* the selection of that very moment: a route is (re)installed through the
\* selected profile's device only, and removed only when the selected profile
\* has just been torn down.  The hazard _locked()'s docstring describes: a
\* watchdog tick re-asserting the old interface right after a switch.
RoutesFollowSelection ==
    \A p \in Proc :
        LET l == loc[p]
            s == selected_profile(l.view, marker)
        IN  Level(p) > 0 =>
              /\ /\ job[p][Default] \in {"del", "add", "ensure", "route"}
                 /\ l.view.client_traffic
                 /\ s # None
                 => dev[p][Default] = s
              /\ job[p][Default] \in {"cdel", "flush"} => s = l.arg /\ s \notin up

\* Two dials of one profile never overlap (the second would find the tun
\* device busy, see _verify_backgrounded).
NoDoubleDial == \A p \in Proc : pc[p] = "c_dial" => loc[p].arg \notin up

\* The kill switch covers every window.  As long as the configuration booted
\* with is unchanged, routes client traffic into an upstream and every profile
\* is enabled, and the table has not been removed by hand, no marked packet
\* leaves by the host's own connection: not between the commands of a
\* re-apply, not while a tunnel is down or bouncing, not after a process died
\* half way, whatever switches, reloads and failovers have happened.
NoLeak ==
    spent.edits = 0 /\ cfg.enabled /\ cfg.client_traffic /\ cfg.on = Profiles
      /\ nft # NoTable
    => \A t \in {Default} \cup cfg.clients :
          /\ t \in nft.mark
          /\ dropped(nft, rules, routes, t) \/ egress(rules, routes, t) # Uplink
          /\ t # Default =>
                dropped(nft, rules, routes, t) \/ egress(rules, routes, t) = t

-----------------------------------------------------------------------------
(***************************************************************************)
(* Liveness, once requests, edits and faults have stopped.                 *)
(***************************************************************************)

\* Every request ends: nobody keeps the lock, nobody waits for it forever.
RequestTerminates ==
    \A a \in Admins : pc[a] # "idle" ~> pc[a] = "idle"

\* The selected profile answers, or failover may choose one that does.
serviceable ==
    LET s == selected_profile(cfg, marker)
    IN  /\ cfg.enabled /\ cfg.connect_on_boot
        /\ s # None
        /\ s \notin bad \/ (cfg.failover /\ cfg.on \ bad # {})

\* The watchdog gets a working tunnel selected and connected, for good.
Recovers ==
    <>[](serviceable => selected_profile(cfg, marker) \in up \ bad)

\* The default target's rule and route point at the selected tunnel again and
\* again.  (Not for good: dialing a dead standby re-applies the rules, and
\* each re-apply deletes and re-adds the rule.)
RoutesHealed ==
    []<>(serviceable => /\ Default \in rules
                        /\ routes[Default] = selected_profile(cfg, marker))

\* Disabled profiles end up disconnected, enabled standbys that answer
\* connected.
EnablementEnforced ==
    <>[](cfg.enabled =>
           /\ up \subseteq cfg.on
           /\ cfg.on \ (bad \cup {selected_profile(cfg, marker)}) \subseteq up)

-----------------------------------------------------------------------------
(***************************************************************************)
(* What the documentation says and the code does not do.                   *)
(***************************************************************************)

\* switch_profile: "re-point the redirection rules (nftables oifname +
\* policy-route device) at its tunnel".  When a switch to an enabled profile
\* returns, the kill switch lets the new tunnel through.
SwitchRepointsRules ==
    \A p \in Proc :
        LET l == loc[p]
        IN  at(p, "s_out") /\ l.ok /\ upstream_active(l.view)
              /\ l.view.client_traffic /\ l.arg \in l.view.on
            => nft.drop[Default] = l.arg

\* connect: "Load the split/full-mode kill-switch rules before dialing, so
\* marked traffic is blocked from the very first moment".
KillSwitchBeforeDial ==
    \A p \in Proc :
        LET c == loc[p].view
        IN  at(p, "c_dial") /\ loc[p].ok /\ upstream_active(c) /\ c.client_traffic
            => nft.drop[Default] # None

\* upstream watch: while connect_on_boot is off, "the watchdog only observes
\* -- it never dials on its own -- until an admin connects manually".
WatchdogOnlyObserves ==
    spent.requests = 0 /\ spent.edits = 0 /\ ~cfg.connect_on_boot
    => pc[Watchdog] # "c_dial"

\* recover: "The active connection is the one that failed its checks".
OnlyFailedTornDown ==
    \A p \in Proc :
        pc[p] = "d_kill" /\ loc[p].caller = "recover" => loc[p].arg \in watch.failed

\* apply_server_routing_if_changed: "Re-render/re-apply nftables and dnsmasq
\* when any profile's effective server-pushed lists changed since the last
\* apply".  When no apply is under way and the lists count as applied, the
\* table has the sets for them.
PushedListsApplied ==
    /\ \A p \in Proc : pc[p] \notin NftSteps \cup {"p_lock", "p_mark"} /\ quiet(p)
    /\ cfg.enabled
    /\ nft # NoTable
    /\ applied = fingerprint(cfg)
    => \A x \in applied : <<"host", x>> \in nft.sets
=============================================================================
