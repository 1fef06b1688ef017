----------------------------- MODULE RouteProofs -----------------------------
(***************************************************************************)
(* Proofs of RoutesFollowSelection and NoLeak, for every set of profiles   *)
(* and processes, every boot configuration and every bound.                *)
(*                                                                         *)
(* An operation reads the selection once and runs its ip commands several  *)
(* steps later.  The invariant says that, inside the lock, what it has     *)
(* remembered is still the selection: the marker moves and tunnels come up *)
(* under the lock only, so nobody else can change either in between.       *)
(***************************************************************************)
EXTENDS UpstreamProofs

\* The profile p's operation takes to be selected.
Selection(p) == selected_profile(loc[p].view, marker)

\* p runs apply for an operation that holds the lock.
Applying(p) == pc[p] \in NftSteps /\ loc[p].ret # "idle"

\* p is between connect's check and its policy route.
Connecting(p) ==
    \/ pc[p] \in {"c_dial", "c_verify", "c_route"}
    \/ pc[p] \in NftSteps /\ loc[p].ret = "c_dial"

\* p has written the marker and not yet re-pointed the route.
Switching(p) == pc[p] = "s_route" \/ (pc[p] \in NftSteps /\ loc[p].ret = "s_route")

\* What an operation remembers of the selection is still true: the interface
\* it applies rules for, connect's is_active, switch_profile's marker, and
\* that the profile disconnect has killed is down.
Window(p) ==
    /\ Applying(p) /\ Selection(p) # None => loc[p].out = Selection(p)
    /\ pc[p] \in {"nft_load", "nft_stale"} => Default \in loc[p].targets
    /\ Connecting(p) /\ loc[p].is_act => Selection(p) = loc[p].arg
    /\ Switching(p) => marker = loc[p].arg
    /\ pc[p] = "d_select" => loc[p].arg \notin up

\* RoutesFollowSelection, for one process.
Follows(p) ==
    Level(p) > 0 =>
      /\ /\ job[p][Default] \in {"del", "add", "ensure", "route"}
         /\ loc[p].view.client_traffic
         /\ Selection(p) # None
         => dev[p][Default] = Selection(p)
      /\ job[p][Default] \in {"cdel", "flush"} =>
           Selection(p) = loc[p].arg /\ Selection(p) \notin up

RouteInv == \A p \in Proc : Window(p) /\ Follows(p)

\* The steps that Window says something about.
Busy == NftSteps \cup {"c_dial", "c_verify", "c_route", "s_route", "d_select"}

-----------------------------------------------------------------------------
(***************************************************************************)
(* What a step of another process leaves alone.                            *)
(***************************************************************************)

LEMMA WindowLocked ==
    ASSUME NEW p \in Proc, loc[p] \in Locals,
           Applying(p) \/ Connecting(p) \/ Switching(p) \/ pc[p] = "d_select"
    PROVE  Level(p) > 0
<1>1. CASE Applying(p)
  BY <1>1, LevelOf, LevelType DEF Applying, Level, Locals, NftReturns
<1>2. CASE Connecting(p) /\ ~Applying(p)
  BY <1>2, LevelOf, LevelType DEF Connecting, Applying, Level, CallSteps, ConnectSteps
<1>3. CASE Switching(p) /\ ~Applying(p)
  BY <1>3, LevelOf, LevelType DEF Switching, Applying, Level, CallSteps, SwitchSteps
<1>4. CASE pc[p] = "d_select"
  BY <1>4, LevelOf, LevelType DEF Level, CallSteps, DisconnectSteps
<1> QED
  BY <1>1, <1>2, <1>3, <1>4

\* A process whose place and commands do not change, and whose lock keeps the
\* marker and the tunnels as they are (one may die).
LEMMA Undisturbed ==
    ASSUME NEW q \in Proc, loc[q] \in Locals, Window(q), Follows(q),
           pc'[q] = pc[q], loc'[q] = loc[q], job'[q] = job[q], dev'[q] = dev[q],
           Level(q) > 0 => marker' = marker /\ up' \subseteq up
    PROVE  Window(q)' /\ Follows(q)'
<1>1. Level(q)' = Level(q)
  BY DEF Level
<1>2. CASE Level(q) > 0
  <2>1. Selection(q)' = Selection(q)
    BY <1>2 DEF Selection
  <2>2. Window(q)'
    BY <1>2, <2>1 DEF Window, Applying, Connecting, Switching
  <2>3. Follows(q)'
    BY <1>1, <1>2, <2>1 DEF Follows
  <2> QED
    BY <2>2, <2>3
<1>3. CASE ~(Level(q) > 0)
  <2>1. ~Applying(q) /\ ~Connecting(q) /\ ~Switching(q) /\ pc[q] # "d_select"
    BY <1>3, WindowLocked
  <2>2. ~Applying(q)' /\ ~Connecting(q)' /\ ~Switching(q)' /\ pc'[q] # "d_select"
    BY <2>1 DEF Applying, Connecting, Switching
  <2>3. Window(q)'
    BY <2>2 DEF Window
  <2> QED
    BY <1>1, <1>3, <2>3 DEF Follows
<1> QED
  BY <1>2, <1>3

\* A step of one process leaves the ip commands of the others alone, and only
\* switch_profile writes the marker.
LEMMA OneRoutes ==
    ASSUME LockInv, NEW p \in Proc, proc_step(p) \/ nft_load_fails(p) \/ process_dies(p)
    PROVE  /\ \A q \in Proc \ {p} : job'[q] = job[q] /\ dev'[q] = dev[q]
           /\ marker' = marker \/ switch_mark(p)
<1>0. job \in [Proc -> [Targets -> Jobs]] /\ dev \in [Proc -> [Targets -> Devices]]
  BY DEF LockInv, TypeOK
<1> DEFINE Others == \A q \in Proc \ {p} : job'[q] = job[q] /\ dev'[q] = dev[q]
<1>1. \A T, j, d : queue(p, T, j, d) => Others
  BY <1>0 DEF queue
<1>2. UNCHANGED ipcmds => Others
  BY DEF ipcmds
<1>3. ASSUME NEW t \in Targets, ip_command(p, t) PROVE Others
  BY <1>0, <1>3 DEF ip_command
<1> HIDE DEF Others
<1>4. CASE connect_step(p)
  BY <1>1, <1>2, <1>4 DEF connect_step, connect_lock, connect_check, connect_dial,
     connect_verify, connect_route, connect_named, connect_raise, connect_return, enter,
     files, Others
<1>5. CASE push_step(p)
  BY <1>2, <1>5 DEF push_step, push_check, push_lock, push_mark, files, Others
<1>6. CASE disconnect_step(p)
  BY <1>1, <1>2, <1>6 DEF disconnect_step, disconnect_lock, disconnect_check, disconnect_kill,
     disconnect_kill_raises, disconnect_select, disconnect_return, enter, files, Others
<1>7. CASE switch_step(p)
  BY <1>1, <1>2, <1>7 DEF switch_step, switch_lock, switch_mark, switch_route, switch_return,
     switch_save, enter, files, Others
<1>8. CASE nft_step(p) \/ nft_load_fails(p) \/ process_dies(p)
  BY <1>1, <1>2, <1>8 DEF nft_step, nft_probe, nft_load, nft_stale, nft_save, nft_load_fails,
     process_dies, files, Others
<1>9. CASE watch_step(p)
  BY <1>1, <1>2, <1>9 DEF watch_step, watch_tick, watch_health, watch_ping,
     ensure_lock, ensure_return, enforce_lock, enforce_loop, enforce_return,
     recover_lock, recover_start, recover_loop, recover_dial, recover_switch,
     recover_return, enter, files, Others
<1>10. CASE \E t \in Targets : ip_command(p, t)
  BY <1>3, <1>10 DEF ip_command, files, Others
<1> QED
  BY <1>4, <1>5, <1>6, <1>7, <1>8, <1>9, <1>10 DEF proc_step, Others

-----------------------------------------------------------------------------
(***************************************************************************)
(* What a process's own steps establish.                                   *)
(***************************************************************************)

LEMMA DefaultTarget == Default \in Targets
BY DEF Targets

\* A process with no pending command, at a step that remembers nothing.
LEMMA Clear ==
    ASSUME NEW p \in Proc, pc'[p] \notin Busy, job'[p][Default] = "none"
    PROVE  Window(p)' /\ Follows(p)'
BY DEF Window, Follows, Applying, Connecting, Switching, Busy, NftSteps

\* A step that runs no ip command and goes where nothing is remembered.
LEMMA Clears ==
    ASSUME LockInv, NEW p \in Proc, NEW step, NEW l, move(p, step, l), step \notin Busy,
           quiet(p), UNCHANGED ipcmds
    PROVE  Window(p)' /\ Follows(p)'
<1>1. pc'[p] = step
  BY DEF LockInv, TypeOK, move
<1>2. job'[p][Default] = "none"
  BY DefaultTarget DEF quiet, ipcmds
<1> QED
  BY <1>1, <1>2, Clear

\* What queue leaves for the default target.
LEMMA QueuedDefault ==
    ASSUME LockInv, NEW p \in Proc, NEW T, NEW j, NEW d, queue(p, T, j, d)
    PROVE  /\ Default \in T => job'[p][Default] = j /\ dev'[p][Default] = d[Default]
           /\ Default \notin T => job'[p][Default] = "none"
BY DefaultTarget DEF LockInv, TypeOK, queue

\* apply starts with an interface that is the selection of now.
LEMMA ApplyStarts ==
    ASSUME LockInv, NEW p \in Proc, NEW l \in Locals, NEW d \in Devices, NEW ret \in NftReturns,
           call_nft(p, l, d, ret), quiet(p), UNCHANGED ipcmds,
           ret # "idle" /\ selected_profile(l.view, marker') # None
             => d = selected_profile(l.view, marker'),
           ret = "c_dial" /\ l.is_act => selected_profile(l.view, marker') = l.arg,
           ret = "s_route" => marker' = l.arg
    PROVE  Window(p)' /\ Follows(p)'
<1> DEFINE m == [l EXCEPT !.out = d, !.ret = ret]
<1>1. m.view = l.view /\ m.arg = l.arg /\ m.is_act = l.is_act /\ m.out = d /\ m.ret = ret
  BY DEF Locals
<1>2. move(p, "nft_probe", m)
  BY DEF call_nft
<1> HIDE DEF m
<1>3. pc'[p] = "nft_probe" /\ loc'[p] = m
  BY <1>2 DEF LockInv, TypeOK, move
<1>4. job'[p][Default] = "none"
  BY DefaultTarget DEF quiet, ipcmds
<1>5. Window(p)'
  BY <1>1, <1>3 DEF Window, Selection, Applying, Connecting, Switching, NftSteps
<1>6. Follows(p)'
  BY <1>4 DEF Follows
<1> QED
  BY <1>5, <1>6

\* The commands run one after the other; the last one leaves nothing behind.
LEMMA IpFollows ==
    ASSUME LockInv, NEW p \in Proc, NEW t \in Targets, ip_command(p, t), Window(p), Follows(p)
    PROVE  Window(p)' /\ Follows(p)'
<1>0. job \in [Proc -> [Targets -> Jobs]] /\ dev \in [Proc -> [Targets -> Devices]]
  BY DEF LockInv, TypeOK
<1>1. /\ pc' = pc /\ loc' = loc /\ marker' = marker /\ up' = up
  BY DEF ip_command, files
<1>2. Selection(p)' = Selection(p) /\ Level(p)' = Level(p)
  BY <1>1 DEF Selection, Level
<1>3. Window(p)'
  BY <1>1, <1>2 DEF Window, Applying, Connecting, Switching
<1>4. CASE t # Default
  <2>1. job'[p][Default] = job[p][Default] /\ dev'[p][Default] = dev[p][Default]
    BY <1>0, <1>4, DefaultTarget DEF ip_command
  <2> QED
    BY <1>1, <1>2, <1>3, <2>1 DEF Follows
<1>5. CASE t = Default
  <2>1. \/ job'[p][Default] = "none"
        \/ /\ job[p][Default] \in {"del", "add", "ensure"}
           /\ job'[p][Default] \in {"add", "route"}
           /\ dev' = dev
        \/ job[p][Default] = "cdel" /\ job'[p][Default] = "flush"
    BY <1>0, <1>5 DEF ip_command
  <2> QED
    BY <1>1, <1>2, <1>3, <2>1 DEF Follows
<1> QED
  BY <1>4, <1>5

\* apply's own steps.
LEMMA NftFollows ==
    ASSUME LockInv, NEW p \in Proc, nft_step(p) \/ nft_load_fails(p), Window(p), Follows(p)
    PROVE  Window(p)' /\ Follows(p)'
<1> DEFINE l == loc[p]
<1>0. /\ l \in Locals /\ pc \in [Proc -> Steps] /\ loc \in [Proc -> Locals]
      /\ l.view \in Config /\ pushed \subseteq Profiles
  BY DEF LockInv, TypeOK, Locals
<1>1. marker' = marker /\ up' = up /\ pc[p] \in NftSteps /\ quiet(p)
  BY DEF nft_step, nft_probe, nft_load, nft_stale, nft_save, nft_load_fails, at, NftSteps,
     files, kernel
\* What is remembered passes on to the next step, and to the caller's.
<1>2. ASSUME NEW step \in NftSteps \cup {l.ret}, NEW m \in Locals, move(p, step, m),
             m.view = l.view, m.arg = l.arg, m.is_act = l.is_act, m.out = l.out, m.ret = l.ret,
             step \in {"nft_load", "nft_stale"} => Default \in m.targets
      PROVE  /\ Window(p)'
             /\ step # "idle" => Selection(p)' = Selection(p) /\ loc'[p] = m
             /\ pc'[p] = step
  <2>1. pc'[p] = step /\ (step # "idle" => loc'[p] = m)
    BY <1>0, <1>2 DEF move
  <2>2. CASE step = "idle"
    BY <2>1, <2>2 DEF Window, Applying, Connecting, Switching, NftSteps
  <2>3. CASE step # "idle"
    <3>1. Selection(p)' = Selection(p)
      BY <1>1, <1>2, <2>1, <2>3 DEF Selection
    <3>2. CASE step \in NftSteps
      BY <1>1, <1>2, <2>1, <2>3, <3>1, <3>2 DEF Window, Applying, Connecting, Switching, NftSteps
    <3>3. CASE step = l.ret /\ step \notin NftSteps
      <4>1. l.ret \in {"c_dial", "s_route", "p_mark"}
        BY <1>0, <2>3, <3>3 DEF Locals, NftReturns
      <4> QED
        BY <1>1, <1>2, <2>1, <2>3, <3>1, <3>3, <4>1
        DEF Window, Applying, Connecting, Switching, NftSteps
    <3> QED
      BY <1>2, <2>1, <2>3, <3>1, <3>2, <3>3
  <2> QED
    BY <2>1, <2>2, <2>3
<1>3. ASSUME UNCHANGED ipcmds PROVE Follows(p)'
  <2>1. job'[p][Default] = "none"
    BY <1>1, <1>3, DefaultTarget DEF quiet, ipcmds
  <2> QED
    BY <2>1 DEF Follows
<1>4. CASE nft_probe(p)
  <2> DEFINE m == [l EXCEPT !.targets = list_targets(l.view, pushed),
                            !.ready = (nft.sets = expected_set_names(l.view, pushed))]
  <2>1. list_targets(l.view, pushed) \subseteq Targets /\ Default \in list_targets(l.view, pushed)
    BY <1>0, ListTargets
  <2>2. /\ m \in Locals /\ m.view = l.view /\ m.arg = l.arg /\ m.is_act = l.is_act
        /\ m.out = l.out /\ m.ret = l.ret /\ Default \in m.targets
    BY <1>0, <2>1 DEF Locals
  <2>3. move(p, "nft_load", m)
    BY <1>4 DEF nft_probe
  <2> HIDE DEF m
  <2> QED
    BY <1>2, <1>3, <1>4, <2>2, <2>3 DEF nft_probe, NftSteps
<1>5. CASE nft_load(p)
  <2> DEFINE m == [l EXCEPT !.ok = TRUE]
             iface == [t \in Targets |-> target_interface(l.view, l.out, t)]
             T == {t \in l.targets : t = Default => config_selected_profile(l.view) # None}
  <2>1. /\ m \in Locals /\ m.view = l.view /\ m.arg = l.arg /\ m.is_act = l.is_act
        /\ m.out = l.out /\ m.ret = l.ret /\ m.targets = l.targets /\ m.after = l.after
        /\ m.caller = l.caller
    BY <1>0 DEF Locals
  <2>2. move(p, "nft_stale", m)
    BY <1>5 DEF nft_load
  <2>3. Default \in m.targets
    BY <1>5, <2>1 DEF Window, nft_load, at
  <2>4. l.view.enabled => queue(p, T, "del", iface)
    BY <1>5 DEF nft_load
  <2>5. ~l.view.enabled => UNCHANGED ipcmds
    BY <1>5 DEF nft_load
  <2>6. iface[Default] = target_interface(l.view, l.out, Default)
    BY DefaultTarget
  <2> HIDE DEF m, iface, T
  <2>7. Window(p)' /\ Selection(p)' = Selection(p) /\ loc'[p] = m /\ pc'[p] = "nft_stale"
    BY <1>2, <2>1, <2>2, <2>3 DEF NftSteps
  <2>8. CASE l.view.enabled
    <3>1. \/ job'[p][Default] = "none"
          \/ job'[p][Default] = "del" /\ dev'[p][Default] = target_interface(l.view, l.out, Default)
      BY <2>4, <2>6, <2>8, QueuedDefault
    <3>2. Level(p)' > 0 => l.ret # "idle"
      BY <2>1, <2>7, LevelOf DEF Level, NftSteps
    <3>3. l.view.client_traffic => target_interface(l.view, l.out, Default) = l.out
      BY DEF target_interface
    <3>4. Level(p)' > 0 /\ Selection(p) # None => l.out = Selection(p)
      BY <1>1, <3>2 DEF Window, Applying
    <3>5. Follows(p)'
      BY <2>1, <2>7, <3>1, <3>3, <3>4 DEF Follows
    <3> QED
      BY <2>7, <3>5
  <2>9. CASE ~l.view.enabled
    BY <1>3, <2>5, <2>7, <2>9
  <2> QED
    BY <2>8, <2>9
<1>6. CASE nft_load_fails(p)
  <2> DEFINE m == [l EXCEPT !.ok = FALSE]
  <2>1. /\ m \in Locals /\ m.view = l.view /\ m.arg = l.arg /\ m.is_act = l.is_act
        /\ m.out = l.out /\ m.ret = l.ret /\ m.targets = l.targets
    BY <1>0 DEF Locals
  <2>2. move(p, l.ret, m)
    BY <1>6 DEF nft_load_fails
  <2>3. l.ret \notin {"nft_load", "nft_stale"}
    BY <1>0 DEF Locals, NftReturns
  <2> HIDE DEF m
  <2> QED
    BY <1>2, <1>3, <1>6, <2>1, <2>2, <2>3 DEF nft_load_fails
<1>7. CASE nft_stale(p)
  <2>1. Window(p)'
    BY <1>0, <1>2, <1>7 DEF nft_stale, goto, NftSteps
  <2>2. Default \in l.targets
    BY <1>7 DEF nft_stale, at, Window
  <2>3. job'[p][Default] = "none"
    BY <1>7, <2>2, QueuedDefault DEF nft_stale
  <2> QED
    BY <2>1, <2>3 DEF Follows
<1>8. CASE nft_save(p)
  <2>1. l.ret \notin {"nft_load", "nft_stale"}
    BY <1>0 DEF Locals, NftReturns
  <2> QED
    BY <1>0, <1>2, <1>3, <1>8, <2>1 DEF nft_save, goto
<1> QED
  BY <1>4, <1>5, <1>6, <1>7, <1>8 DEF nft_step

LEMMA ConnectFollows ==
    ASSUME LockInv, NEW p \in Proc, connect_step(p), Window(p), Follows(p)
    PROVE  Window(p)' /\ Follows(p)'
<1> DEFINE l == loc[p]
<1>0. /\ l \in Locals /\ l.view \in Config /\ marker \in Profiles \cup {None}
      /\ pc \in [Proc -> Steps] /\ loc \in [Proc -> Locals]
  BY DEF LockInv, TypeOK, Locals
<1>1. CASE connect_check(p)
  <2>1. quiet(p) /\ UNCHANGED ipcmds /\ marker' = marker
    BY <1>1 DEF connect_check, at, files
  <2>2. CASE l.arg \in up
    BY <1>1, <2>1, <2>2, Clears DEF connect_check, goto, Busy, NftSteps
  <2>3. CASE l.arg \notin up
    <3> DEFINE m == [l EXCEPT !.is_act = (selected_profile(l.view, marker) = l.arg)]
    <3>1. call_nft(p, m, active_interface(l.view, marker), "c_dial")
      BY <1>1, <2>3 DEF connect_check
    <3>2. m \in Locals /\ m.view = l.view /\ m.arg = l.arg
      BY <1>0 DEF Locals
    <3>3. m.is_act => selected_profile(l.view, marker) = l.arg
      BY <1>0 DEF Locals
    <3>4. active_interface(l.view, marker) \in Devices
      BY <1>0, ActiveInterface DEF Devices
    <3>5. selected_profile(l.view, marker) # None
            => active_interface(l.view, marker) = selected_profile(l.view, marker)
      BY <1>0, ActiveInterface
    <3> HIDE DEF m
    <3> QED
      BY <2>1, <3>1, <3>2, <3>3, <3>4, <3>5, ApplyStarts DEF NftReturns
  <2> QED
    BY <2>2, <2>3
\* The dial brings a tunnel up; the selection does not depend on it.
<1>2. CASE connect_dial(p)
  <2>1. quiet(p) /\ UNCHANGED ipcmds /\ marker' = marker /\ pc[p] = "c_dial"
    BY <1>2 DEF connect_dial, at
  <2>2. pc'[p] \in {"c_raise", "c_verify"} /\ loc'[p] = l
    BY <1>0, <1>2 DEF connect_dial, goto, move
  <2>3. Selection(p)' = Selection(p)
    BY <2>1, <2>2 DEF Selection
  <2>4. job'[p][Default] = "none"
    BY <2>1, DefaultTarget DEF quiet, ipcmds
  <2>5. Window(p)'
    BY <2>1, <2>2, <2>3 DEF Window, Applying, Connecting, Switching, NftSteps
  <2> QED
    BY <2>4, <2>5 DEF Follows
<1>3. CASE connect_verify(p)
  <2>1. quiet(p) /\ UNCHANGED ipcmds /\ marker' = marker /\ pc[p] = "c_verify"
    BY <1>3 DEF connect_verify, at, files
  <2>2. pc'[p] \in {"c_raise", "c_route"} /\ loc'[p] = l
    BY <1>0, <1>3 DEF connect_verify, goto, move
  <2>3. Selection(p)' = Selection(p)
    BY <2>1, <2>2 DEF Selection
  <2>4. job'[p][Default] = "none"
    BY <2>1, DefaultTarget DEF quiet, ipcmds
  <2>5. Window(p)'
    BY <2>1, <2>2, <2>3 DEF Window, Applying, Connecting, Switching, NftSteps
  <2> QED
    BY <2>4, <2>5 DEF Follows
<1>4. CASE connect_route(p)
  <2>1. marker' = marker /\ pc[p] = "c_route"
    BY <1>4 DEF connect_route, at, files
  <2>2. pc'[p] = "c_named" /\ loc'[p] = l
    BY <1>0, <1>4 DEF connect_route, goto, move
  <2>3. Selection(p)' = Selection(p)
    BY <2>1, <2>2 DEF Selection
  <2>4. queue(p, IF l.is_act THEN {Default} ELSE {}, "del", via(l.arg))
    BY <1>4 DEF connect_route
  <2>5. CASE l.is_act
    <3>1. Selection(p) = l.arg
      BY <2>1, <2>5 DEF Window, Connecting
    <3>2. via(l.arg)[Default] = l.arg
      BY DefaultTarget DEF via
    <3>3. job'[p][Default] = "del" /\ dev'[p][Default] = l.arg
      BY <2>4, <2>5, <3>2, QueuedDefault
    <3>4. Window(p)'
      BY <2>2 DEF Window, Applying, Connecting, Switching, NftSteps
    <3>5. Follows(p)'
      BY <2>3, <3>1, <3>3 DEF Follows
    <3> QED
      BY <3>4, <3>5
  <2>6. CASE ~l.is_act
    <3>1. job'[p][Default] = "none"
      BY <2>4, <2>6, QueuedDefault
    <3> QED
      BY <2>2, <3>1, Clear DEF Busy, NftSteps
  <2> QED
    BY <2>5, <2>6
<1>5. CASE connect_named(p)
  <2>1. pc'[p] = "p_check"
    BY <1>0, <1>5 DEF connect_named, move
  <2>2. job'[p][Default] = "none"
    BY <1>5, QueuedDefault DEF connect_named, named_targets
  <2> QED
    BY <2>1, <2>2, Clear DEF Busy, NftSteps
<1>6. CASE connect_lock(p) \/ connect_raise(p) \/ connect_return(p)
  BY <1>6, Clears DEF connect_lock, connect_raise, connect_return, enter, goto, at, Busy, NftSteps
<1> QED
  BY <1>1, <1>2, <1>3, <1>4, <1>5, <1>6 DEF connect_step

LEMMA PushFollows ==
    ASSUME LockInv, NEW p \in Proc, push_step(p)
    PROVE  Window(p)' /\ Follows(p)'
<1> DEFINE l == loc[p]
<1>0. l \in Locals /\ l.view \in Config /\ l.after \in {"c_out", "idle"} /\ marker \in Profiles \cup {None}
  BY DEF LockInv, TypeOK, Locals
<1>1. CASE push_lock(p)
  <2>1. quiet(p) /\ UNCHANGED ipcmds /\ marker' = marker
    BY <1>1 DEF push_lock, at, files
  <2>2. call_nft(p, l, active_interface(l.view, marker), "p_mark")
    BY <1>1 DEF push_lock
  <2>3. active_interface(l.view, marker) \in Devices
    BY <1>0, ActiveInterface DEF Devices
  <2>4. selected_profile(l.view, marker) # None
          => active_interface(l.view, marker) = selected_profile(l.view, marker)
    BY <1>0, ActiveInterface
  <2> QED
    BY <1>0, <2>1, <2>2, <2>3, <2>4, ApplyStarts DEF NftReturns
<1>2. CASE push_check(p) \/ push_mark(p)
  BY <1>0, <1>2, Clears DEF push_check, push_mark, goto, at, Busy, NftSteps
<1> QED
  BY <1>1, <1>2 DEF push_step

LEMMA DisconnectFollows ==
    ASSUME LockInv, NEW p \in Proc, disconnect_step(p), Window(p)
    PROVE  Window(p)' /\ Follows(p)'
<1> DEFINE l == loc[p]
<1>0. pc \in [Proc -> Steps] /\ loc \in [Proc -> Locals]
  BY DEF LockInv, TypeOK
<1>1. CASE disconnect_kill(p)
  <2>1. quiet(p) /\ UNCHANGED ipcmds /\ up' = up \ {l.arg}
    BY <1>1 DEF disconnect_kill, at
  <2>2. pc'[p] = "d_select" /\ loc'[p] = l
    BY <1>0, <1>1 DEF disconnect_kill, goto, move
  <2>3. job'[p][Default] = "none"
    BY <2>1, DefaultTarget DEF quiet, ipcmds
  <2>4. Window(p)'
    BY <2>1, <2>2 DEF Window, Applying, Connecting, Switching, NftSteps
  <2> QED
    BY <2>3, <2>4 DEF Follows
<1>2. CASE disconnect_select(p)
  <2>1. marker' = marker /\ up' = up /\ l.arg \notin up
    BY <1>2 DEF disconnect_select, at, files, kernel, Window
  <2>2. pc'[p] = "d_out" /\ loc'[p] = l
    BY <1>0, <1>2 DEF disconnect_select, goto, move
  <2>3. Selection(p)' = selected_profile(l.view, marker)
    BY <2>1, <2>2 DEF Selection
  <2>4. queue(p, (IF selected_profile(l.view, marker) = l.arg THEN {Default} ELSE {})
                   \cup (named_targets(l.view) \cap {l.arg}), "cdel", via(Uplink))
    BY <1>2 DEF disconnect_select
  <2>5. \/ job'[p][Default] = "none"
        \/ job'[p][Default] = "cdel" /\ selected_profile(l.view, marker) = l.arg
    BY <2>4, QueuedDefault DEF named_targets
  <2>6. Window(p)'
    BY <2>2 DEF Window, Applying, Connecting, Switching, NftSteps
  <2>7. Follows(p)'
    BY <2>1, <2>2, <2>3, <2>5 DEF Follows
  <2> QED
    BY <2>6, <2>7
<1>3. CASE \/ disconnect_lock(p) \/ disconnect_check(p) \/ disconnect_kill_raises(p)
           \/ disconnect_return(p)
  BY <1>3, Clears DEF disconnect_lock, disconnect_check, disconnect_kill_raises,
     disconnect_return, enter, goto, at, Busy, NftSteps
<1> QED
  BY <1>1, <1>2, <1>3 DEF disconnect_step

LEMMA SwitchFollows ==
    ASSUME LockInv, NEW p \in Proc, switch_step(p), Window(p)
    PROVE  Window(p)' /\ Follows(p)'
<1> DEFINE l == loc[p]
<1>0. /\ l \in Locals /\ l.view \in Config /\ l.arg \in Profiles
      /\ pc \in [Proc -> Steps] /\ loc \in [Proc -> Locals]
  BY DEF LockInv, TypeOK, Locals
\* With the marker on a profile, that profile is selected or nothing is.
<1>1. selected_profile(l.view, l.arg) \in {l.arg, None}
  BY <1>0, RoutingAssumption DEF selected_profile
<1>2. CASE switch_mark(p)
  <2>1. quiet(p) /\ UNCHANGED ipcmds /\ marker' = l.arg
    BY <1>2 DEF switch_mark, at
  <2>2. call_nft(p, l, l.arg, "s_route")
    BY <1>2 DEF switch_mark
  <2> QED
    BY <1>0, <1>1, <2>1, <2>2, ApplyStarts DEF NftReturns, Devices
<1>3. CASE switch_route(p)
  <2>1. marker' = marker /\ marker = l.arg
    BY <1>3 DEF switch_route, at, files, Window, Switching
  <2>2. pc'[p] = "s_out" /\ loc'[p] = l
    BY <1>0, <1>3 DEF switch_route, goto, move
  <2>3. Selection(p)' \in {l.arg, None}
    BY <1>1, <2>1, <2>2 DEF Selection
  <2>4. queue(p, IF l.arg \in up THEN {Default} ELSE {}, "del", via(l.arg))
    BY <1>3 DEF switch_route
  <2>5. via(l.arg)[Default] = l.arg
    BY DefaultTarget DEF via
  <2>6. \/ job'[p][Default] = "none"
        \/ job'[p][Default] = "del" /\ dev'[p][Default] = l.arg
    BY <2>4, <2>5, QueuedDefault
  <2>7. Window(p)'
    BY <2>2 DEF Window, Applying, Connecting, Switching, NftSteps
  <2>8. Follows(p)'
    BY <2>3, <2>6 DEF Follows
  <2> QED
    BY <2>7, <2>8
<1>4. CASE switch_lock(p) \/ switch_return(p) \/ switch_save(p)
  BY <1>4, Clears DEF switch_lock, switch_return, switch_save, enter, goto, at, Busy, NftSteps
<1> QED
  BY <1>2, <1>3, <1>4 DEF switch_step

LEMMA WatchFollows ==
    ASSUME LockInv, NEW p \in Proc, watch_step(p)
    PROVE  Window(p)' /\ Follows(p)'
<1> DEFINE l == loc[p]
<1>0. /\ l \in Locals /\ l.view \in Config /\ marker \in Profiles \cup {None}
      /\ pc \in [Proc -> Steps] /\ loc \in [Proc -> Locals]
  BY DEF LockInv, TypeOK, Locals
<1>1. CASE watch_tick(p) \/ watch_health(p) \/ watch_ping(p)
  <2>1. quiet(p) /\ UNCHANGED ipcmds
    BY <1>1 DEF watch_tick, watch_health, watch_ping, at
  <2>2. pc'[p] \in {"idle", "w_health", "w_ping", "e_lock", "n_lock", "r_lock"}
    BY <1>0, <1>1 DEF watch_tick, watch_health, watch_ping, watch_verdict, goto, move
  <2>3. job'[p][Default] = "none"
    BY <2>1, DefaultTarget DEF quiet, ipcmds
  <2> QED
    BY <2>2, <2>3, Clear DEF Busy, NftSteps
<1>2. CASE ensure_lock(p)
  <2> DEFINE s == selected_profile(l.view, marker)
             T == (IF s # None /\ s \in up THEN {Default} ELSE {})
                    \cup (named_targets(l.view) \cap up)
             d == [own EXCEPT ![Default] = s]
  <2>1. marker' = marker
    BY <1>2 DEF ensure_lock, files
  <2>2. pc'[p] = "e_out" /\ loc'[p] = l
    BY <1>0, <1>2 DEF ensure_lock, goto, move
  <2>3. Selection(p)' = s
    BY <2>1, <2>2 DEF Selection
  <2>4. d[Default] = s
    BY DefaultTarget DEF own
  <2>5. queue(p, T, "ensure", d)
    BY <1>2 DEF ensure_lock
  <2> HIDE DEF s, T, d
  <2>6. \/ job'[p][Default] = "none"
        \/ job'[p][Default] = "ensure" /\ dev'[p][Default] = s
    BY <2>4, <2>5, QueuedDefault
  <2>7. Window(p)'
    BY <2>2 DEF Window, Applying, Connecting, Switching, NftSteps
  <2>8. Follows(p)'
    BY <2>3, <2>6 DEF Follows
  <2> QED
    BY <2>7, <2>8
<1>3. CASE \/ ensure_return(p) \/ enforce_lock(p) \/ enforce_loop(p) \/ enforce_return(p)
           \/ recover_lock(p) \/ recover_start(p) \/ recover_loop(p) \/ recover_dial(p)
           \/ recover_switch(p) \/ recover_return(p)
  <2>1. quiet(p) /\ UNCHANGED ipcmds
    BY <1>3 DEF ensure_return, enforce_lock, enforce_loop, enforce_return, recover_lock,
       recover_start, recover_loop, recover_dial, recover_switch, recover_return, enter, at
  <2>2. pc'[p] \in {"n_lock", "n_loop", "d_lock", "c_lock", "s_lock", "p_check", "r_start",
                    "r_out", "r_loop", "r_switch"}
    BY <1>0, <1>3 DEF ensure_return, enforce_lock, enforce_loop, enforce_return, recover_lock,
       recover_start, recover_loop, recover_dial, recover_switch, recover_return, enter, goto,
       call, move
  <2>3. job'[p][Default] = "none"
    BY <2>1, DefaultTarget DEF quiet, ipcmds
  <2> QED
    BY <2>2, <2>3, Clear DEF Busy, NftSteps
<1> QED
  BY <1>1, <1>2, <1>3 DEF watch_step

LEMMA RequestFollows ==
    ASSUME LockInv, NEW a \in Admins, admin_step(a), Window(a), Follows(a)
    PROVE  Window(a)' /\ Follows(a)'
<1>0. /\ a \in Proc /\ loc[a] \in Locals /\ cfg \in Config
      /\ pc \in [Proc -> Steps] /\ loc \in [Proc -> Locals]
  BY DEF LockInv, TypeOK, Proc
<1>1. quiet(a) /\ UNCHANGED ipcmds /\ marker' = marker /\ up' = up
  BY DEF admin_step, request_connect, request_disconnect, request_switch, request_reload,
     request_cleanup, request_sync, request, at, files, kernel
<1>2. CASE request_reload(a)
  <2>1. fresh(a) \in Locals
    BY <1>0 DEF fresh, Locals
  <2>2. call_nft(a, fresh(a), resolve_outbound(cfg), "idle")
    BY <1>2 DEF request_reload
  <2> QED
    BY <1>0, <1>1, <2>1, <2>2, ResolveOutbound, ApplyStarts DEF NftReturns
<1>3. CASE request_cleanup(a)
  BY <1>0, <1>1, <1>3, Undisturbed DEF request_cleanup, ipcmds
<1>4. CASE request_connect(a) \/ request_disconnect(a) \/ request_switch(a) \/ request_sync(a)
  <2>1. pc'[a] \in {"c_lock", "d_lock", "s_lock", "p_check"}
    BY <1>0, <1>4 DEF request_connect, request_disconnect, request_switch, request_sync, call, move
  <2>2. job'[a][Default] = "none"
    BY <1>1, DefaultTarget DEF quiet, ipcmds
  <2> QED
    BY <1>0, <2>1, <2>2, Clear DEF Busy, NftSteps
<1> QED
  BY <1>2, <1>3, <1>4 DEF admin_step

-----------------------------------------------------------------------------

LEMMA RouteStep == LockInv /\ RouteInv /\ [Next]_vars => RouteInv'
<1> SUFFICES ASSUME LockInv, RouteInv, [Next]_vars, NEW q \in Proc
             PROVE  Window(q)' /\ Follows(q)'
  BY DEF RouteInv
<1>0. Window(q) /\ Follows(q) /\ loc[q] \in Locals
  BY DEF RouteInv, LockInv, TypeOK
<1>1. ASSUME NEW p \in Proc, proc_step(p) \/ nft_load_fails(p) \/ process_dies(p)
      PROVE  Window(q)' /\ Follows(q)'
  <2>1. CASE p = q /\ process_dies(p)
    <3>1. pc'[q] = "idle"
      BY <2>1 DEF process_dies, goto, move, LockInv, TypeOK
    <3>2. job'[q][Default] = "none"
      BY <2>1, QueuedDefault DEF process_dies
    <3> QED
      BY <3>1, <3>2, Clear DEF Busy, NftSteps
  <2>2. CASE p = q /\ (proc_step(p) \/ nft_load_fails(p))
    BY <1>0, <2>2, ConnectFollows, PushFollows, DisconnectFollows, SwitchFollows, NftFollows,
       WatchFollows, IpFollows
    DEF proc_step
  <2>3. CASE p # q
    <3>1. /\ pc'[q] = pc[q] /\ loc'[q] = loc[q] /\ job'[q] = job[q] /\ dev'[q] = dev[q]
          /\ up' \subseteq up \/ connect_dial(p)
          /\ marker' = marker \/ switch_mark(p)
      BY <1>1, <2>3, OneMoves, OneRoutes
    <3>2. connect_dial(p) \/ switch_mark(p) => Level(p) > 0
      BY LevelOf, LevelType DEF connect_dial, switch_mark, at, Level, CallSteps, ConnectSteps,
         SwitchSteps
    <3>3. Level(q) > 0 => ~(Level(p) > 0)
      BY <2>3 DEF LockInv, LockDepth
    <3> QED
      BY <1>0, <3>1, <3>2, <3>3, Undisturbed
  <2> QED
    BY <1>1, <2>1, <2>2, <2>3
<1>2. ASSUME NEW a \in Admins, admin_step(a) PROVE Window(q)' /\ Follows(q)'
  <2>1. CASE q = a
    BY <1>0, <1>2, <2>1, RequestFollows
  <2>2. CASE q # a
    <3>1. UNCHANGED ipcmds /\ marker' = marker /\ up' = up
      BY <1>2 DEF admin_step, request_connect, request_disconnect, request_switch,
         request_reload, request_cleanup, request_sync, files, kernel
    <3>2. pc'[q] = pc[q] /\ loc'[q] = loc[q]
      BY <1>2, <2>2 DEF admin_step, request_connect, request_disconnect,
         request_switch, request_reload, request_cleanup, request_sync, call, call_nft, move,
         LockInv, TypeOK
    <3> QED
      BY <1>0, <3>1, <3>2, Undisturbed DEF ipcmds
  <2> QED
    BY <2>1, <2>2
<1>3. CASE edit_step
  <2>1. UNCHANGED <<marker, up, pc, loc, ipcmds>>
    BY <1>3, EditStep DEF edit, kernel
  <2> QED
    BY <1>0, <2>1, Undisturbed DEF ipcmds
<1>4. CASE \/ server_outage \/ tunnel_dies \/ device_bounces \/ record_vpnc_event
           \/ settle_expires \/ UNCHANGED vars
  <2>1. UNCHANGED <<marker, pc, loc, ipcmds>> /\ up' \subseteq up
    BY <1>4 DEF server_outage, tunnel_dies, device_bounces, record_vpnc_event,
       settle_expires, files, kernel, ipcmds, vars
  <2> QED
    BY <1>0, <2>1, Undisturbed DEF ipcmds
<1> QED
  BY <1>1, <1>2, <1>3, <1>4 DEF Next, environment

\* Inside the lock, an ip command for the default target agrees with the
\* selection of that very moment, although connect, switch_profile, disconnect
\* and the watchdog's ensure_policy_routing all decide it several commands
\* earlier: the hazard _locked()'s docstring describes cannot happen, for any
\* number of processes and profiles.
THEOREM RoutesFollowSelectionHolds == Spec => []RoutesFollowSelection
<1>1. Init => RouteInv
  <2>1. Init => \A p \in Proc : pc[p] = "idle" /\ job[p][Default] = "none"
    BY DefaultTarget DEF Init
  <2> QED
    BY <2>1 DEF RouteInv, Window, Follows, Applying, Connecting, Switching, NftSteps
<1>2. RouteInv => RoutesFollowSelection
  BY DEF RouteInv, Follows, Selection, RoutesFollowSelection
<1> QED
  BY <1>1, <1>2, LockInvariant, RouteStep, PTL DEF Spec

-----------------------------------------------------------------------------
(***************************************************************************)
(* NoLeak.  As long as no edit has changed the configuration, every        *)
(* operation runs with a view that agrees with it, whenever it was read    *)
(* (a switch only saves another active profile).  So every ruleset that is *)
(* loaded, by whichever process and for whichever interface, lets marked   *)
(* traffic through tunnels only, and every default route of a marked table *)
(* is one through a tunnel: the kill switch and the routes need not agree  *)
(* with each other for nothing to leak.                                    *)
(***************************************************************************)

\* The configuration NoLeak is about: the one booted with, or one that differs
\* in the active profile.
Steady == spent.edits = 0 /\ cfg.enabled /\ cfg.client_traffic /\ cfg.on = Profiles

\* A view c of it.
Agrees(c, k) == /\ c.enabled /\ c.client_traffic /\ c.on = Profiles
                /\ c.clients = k.clients

\* Traffic of target t that leaves by d is in a tunnel, t's own if it has one.
Tunnelled(t, d) == IF t = Default THEN d \in Profiles ELSE d = t

Installs == {"del", "add", "ensure", "route"}

\* What p will load or install is safe.
Prepared(p) ==
    /\ pc[p] # "idle" => Agrees(loc[p].view, cfg)
    /\ pc[p] \in {"nft_probe", "nft_load"} => loc[p].out \in Profiles
    /\ \A t \in Targets : job[p][t] \in Installs => Tunnelled(t, dev[p][t])

\* The loaded ruleset marks, and drops what is not in a tunnel.
Guarded(n, k) ==
    n = NoTable \/ \A t \in {Default} \cup k.clients : t \in n.mark /\ Tunnelled(t, n.drop[t])

Routed == \A t \in Targets : routes[t] # None => Tunnelled(t, routes[t])

LeakInv == Steady => /\ \A p \in Proc : Prepared(p)
                     /\ Guarded(nft, cfg)
                     /\ Routed

\* Under such a configuration some profile is selected.
LEMMA SteadySelects ==
    ASSUME NEW c \in Config, c.on = Profiles
    PROVE  config_selected_profile(c) \in Profiles
BY FirstIn, RoutingAssumption DEF config_selected_profile, Config

\* A view that agrees renders a ruleset that guards, whatever tunnel it is for.
LEMMA RenderGuards ==
    ASSUME NEW c \in Config, NEW k \in Config, NEW P \in SUBSET Profiles, NEW d \in Profiles,
           Agrees(c, k)
    PROVE  Guarded(render(c, P, d), k)
<1>1. upstream_active(c)
  BY SteadySelects, RoutingAssumption DEF Agrees, upstream_active
<1>2. {Default} \cup k.clients \subseteq list_targets(c, P) /\ list_targets(c, P) \subseteq Targets
  BY ListTargets DEF Agrees, list_targets
<1>3. \A t \in {Default} \cup k.clients :
        /\ t \in render(c, P, d).mark
        /\ render(c, P, d).drop[t] = target_interface(c, d, t)
  BY <1>1, <1>2 DEF render, Agrees, killswitch
<1>4. ASSUME NEW t PROVE Tunnelled(t, target_interface(c, d, t))
  <2>1. c.client_traffic
    BY DEF Agrees
  <2>2. CASE t = Default
    BY <2>1, <2>2 DEF Tunnelled, target_interface
  <2>3. CASE t # Default
    BY <2>3 DEF Tunnelled, target_interface
  <2> QED
    BY <2>2, <2>3
<1> QED
  BY <1>3, <1>4 DEF Guarded

\* The configuration changes by an edit, or a switch saves its profile.
LEMMA SteadyBefore ==
    ASSUME LockInv, [Next]_vars, Steady'
    PROVE  Steady /\ cfg'.clients = cfg.clients
<1>0. cfg \in Config /\ spent \in [requests : Nat, edits : Nat, faults : Nat, pushes : Nat]
  BY DEF LockInv, TypeOK
<1>1. ASSUME NEW n \in {"requests", "faults", "pushes"}, spent' = [spent EXCEPT ![n] = @ + 1]
      PROVE  spent'.edits = spent.edits
  BY <1>0, <1>1
<1>2. SUFFICES /\ cfg' = cfg \/ \E x : cfg' = [cfg EXCEPT !.active = x]
               /\ spent'.edits = spent.edits
  BY <1>0, <1>2 DEF Steady, Config
<1>3. ~edit_step
  <2> SUFFICES ASSUME edit_step PROVE FALSE
    OBVIOUS
  <2>1. PICK c : edit(c)
    BY EditStep
  <2>2. spent'.edits = spent.edits + 1 /\ spent.edits \in Nat
    BY <1>0, <2>1 DEF edit
  <2> QED
    BY <2>2 DEF Steady
<1>4. ASSUME NEW p \in Proc, proc_step(p) \/ nft_load_fails(p) \/ process_dies(p)
      PROVE  /\ cfg' = cfg \/ \E x : cfg' = [cfg EXCEPT !.active = x]
             /\ spent'.edits = spent.edits
  <2>1. CASE connect_step(p)
    <3>1. CASE connect_dial(p)
      <4>1. cfg' = cfg /\ (spent' = spent \/ spent' = [spent EXCEPT !.pushes = @ + 1])
        BY <3>1 DEF connect_dial
      <4> QED
        BY <1>0, <4>1
    <3> QED
      BY <2>1, <3>1 DEF connect_step, connect_lock, connect_check, connect_verify,
         connect_route, connect_named, connect_raise, connect_return, enter, files
  <2>2. CASE push_step(p) \/ disconnect_step(p)
    BY <2>2 DEF push_step, push_check, push_lock, push_mark,
       disconnect_step, disconnect_lock, disconnect_check, disconnect_kill,
       disconnect_kill_raises, disconnect_select, disconnect_return, enter, files
  <2>3. CASE switch_step(p)
    BY <2>3 DEF switch_step, switch_lock, switch_mark, switch_route, switch_return,
       switch_save, enter, files
  <2>4. CASE nft_step(p)
    BY <2>4 DEF nft_step, nft_probe, nft_load, nft_stale, nft_save, files
  <2>5. CASE nft_load_fails(p) \/ process_dies(p)
    <3>1. cfg' = cfg /\ spent' = [spent EXCEPT !.faults = @ + 1]
      BY <2>5 DEF nft_load_fails, process_dies, fault, files
    <3> QED
      BY <1>0, <3>1
  <2>6. CASE watch_step(p)
    BY <2>6 DEF watch_step, watch_tick, watch_health, watch_ping,
       ensure_lock, ensure_return, enforce_lock, enforce_loop, enforce_return,
       recover_lock, recover_start, recover_loop, recover_dial, recover_switch,
       recover_return, enter, files
  <2>7. CASE \E t \in Targets : ip_command(p, t)
    BY <2>7 DEF ip_command, files
  <2> QED
    BY <1>4, <2>1, <2>2, <2>3, <2>4, <2>5, <2>6, <2>7 DEF proc_step
<1>5. ASSUME NEW a \in Admins, admin_step(a)
      PROVE  cfg' = cfg /\ spent'.edits = spent.edits
  <2>1. cfg' = cfg /\ spent' = [spent EXCEPT !.requests = @ + 1]
    BY <1>5 DEF admin_step, request_connect, request_disconnect, request_switch, request_reload,
       request_cleanup, request_sync, request, files
  <2> QED
    BY <1>0, <2>1
<1>6. CASE \/ server_outage \/ tunnel_dies \/ device_bounces \/ record_vpnc_event
           \/ settle_expires \/ UNCHANGED vars
  <2>1. cfg' = cfg /\ \/ spent' = spent
                      \/ spent' = [spent EXCEPT !.faults = @ + 1]
                      \/ spent' = [spent EXCEPT !.pushes = @ + 1]
    BY <1>6 DEF server_outage, tunnel_dies, device_bounces, record_vpnc_event,
       settle_expires, fault, files, vars
  <2> QED
    BY <1>0, <2>1
<1> QED
  BY <1>3, <1>4, <1>5, <1>6 DEF Next, environment

\* A step of p runs with the view it had, or reads the configuration.
Carries(p) ==
    /\ pc'[p] # "idle" => \/ loc'[p].view = cfg
                          \/ pc[p] # "idle" /\ loc'[p].view = loc[p].view
    /\ pc'[p] \in {"nft_probe", "nft_load"} =>
          \/ loc'[p].out \in Profiles \cup {resolve_outbound(cfg)}
          \/ pc[p] \in {"nft_probe", "nft_load"} /\ loc'[p].out = loc[p].out

LEMMA MoveCarries ==
    ASSUME LockInv, NEW p \in Proc, NEW step, NEW l, move(p, step, l),
           l.view = cfg \/ (pc[p] # "idle" /\ l.view = loc[p].view),
           step \notin {"nft_probe", "nft_load"}
    PROVE  Carries(p)
<1>1. pc'[p] = step /\ (step # "idle" => loc'[p] = l)
  BY DEF LockInv, TypeOK, move
<1> QED
  BY <1>1 DEF Carries

LEMMA ApplyCarries ==
    ASSUME LockInv, NEW p \in Proc, NEW l \in Locals, NEW d, NEW ret, call_nft(p, l, d, ret),
           l.view = cfg \/ (pc[p] # "idle" /\ l.view = loc[p].view),
           d \in Profiles \cup {resolve_outbound(cfg)}
    PROVE  Carries(p)
<1> DEFINE m == [l EXCEPT !.out = d, !.ret = ret]
<1>1. m.view = l.view /\ m.out = d
  BY DEF Locals
<1>2. move(p, "nft_probe", m)
  BY DEF call_nft
<1> HIDE DEF m
<1>3. pc'[p] = "nft_probe" /\ loc'[p] = m
  BY <1>2 DEF LockInv, TypeOK, move
<1> QED
  BY <1>1, <1>3 DEF Carries

LEMMA ProcCarries ==
    ASSUME LockInv, NEW p \in Proc, proc_step(p) \/ nft_load_fails(p) \/ process_dies(p)
    PROVE  Carries(p)
<1> DEFINE l == loc[p]
<1>0. /\ l \in Locals /\ l.view \in Config /\ l.arg \in Profiles /\ l.ret \in NftReturns
      /\ l.after \in {"c_out", "idle"} /\ marker \in Profiles \cup {None} /\ cfg \in Config
  BY DEF LockInv, TypeOK, Locals
<1>1. ASSUME pc[p] # "idle", NEW step, step \notin {"nft_probe", "nft_load"}, goto(p, step)
      PROVE  Carries(p)
  BY <1>1, MoveCarries DEF goto
<1>2. ASSUME pc[p] # "idle", NEW step, step \notin {"nft_probe", "nft_load"}, NEW m,
             m.view = l.view, move(p, step, m)
      PROVE  Carries(p)
  BY <1>2, MoveCarries
<1>3. active_interface(l.view, marker) \in Profiles
  BY <1>0, ActiveInterface
<1>4. CASE connect_step(p)
  <2>1. CASE connect_check(p) /\ l.arg \notin up
    <3> DEFINE m == [l EXCEPT !.is_act = selected_profile(l.view, marker) = l.arg]
    <3>1. call_nft(p, m, active_interface(l.view, marker), "c_dial") /\ pc[p] # "idle"
      BY <2>1 DEF connect_check, at
    <3>2. m \in Locals /\ m.view = l.view
      BY <1>0 DEF Locals
    <3> HIDE DEF m
    <3> QED
      BY <1>3, <3>1, <3>2, ApplyCarries
  <2>2. CASE connect_named(p)
    <3> DEFINE m == [l EXCEPT !.after = "c_out"]
    <3>1. m.view = l.view /\ move(p, "p_check", m) /\ pc[p] = "c_named"
      BY <1>0, <2>2 DEF Locals, connect_named, at
    <3> HIDE DEF m
    <3> QED
      BY <1>2, <3>1
  <2> QED
    BY <1>1, <1>4, <2>1, <2>2 DEF connect_step, connect_lock, connect_check, connect_dial,
       connect_verify, connect_route, connect_raise, connect_return, enter, at
<1>5. CASE push_step(p)
  <2>1. CASE push_lock(p)
    BY <1>0, <1>3, <2>1, ApplyCarries DEF push_lock, at
  <2>2. CASE push_check(p)
    <3> DEFINE m == [l EXCEPT !.print = fingerprint(l.view)]
               next == IF fingerprint(l.view) = applied THEN l.after ELSE "p_lock"
    <3>1. m.view = l.view
      BY <1>0 DEF Locals
    <3>2. move(p, next, m) /\ pc[p] = "p_check" /\ next \notin {"nft_probe", "nft_load"}
      BY <1>0, <2>2 DEF push_check, at
    <3> HIDE DEF m, next
    <3> QED
      BY <1>2, <3>1, <3>2
  <2> QED
    BY <1>0, <1>1, <1>5, <2>1, <2>2 DEF push_step, push_mark, at
<1>6. CASE disconnect_step(p)
  BY <1>1, <1>6 DEF disconnect_step, disconnect_lock, disconnect_check, disconnect_kill,
     disconnect_kill_raises, disconnect_select, disconnect_return, enter, at
<1>7. CASE switch_step(p)
  <2>1. CASE switch_mark(p)
    BY <1>0, <2>1, ApplyCarries DEF switch_mark, at
  <2> QED
    BY <1>1, <1>7, <2>1 DEF switch_step, switch_lock, switch_route, switch_return,
       switch_save, enter, at
<1>8. CASE nft_step(p) \/ nft_load_fails(p)
  <2>1. CASE nft_probe(p)
    <3> DEFINE m == [l EXCEPT !.targets = list_targets(l.view, pushed),
                              !.ready = (nft.sets = expected_set_names(l.view, pushed))]
    <3>1. m.view = l.view /\ m.out = l.out
      BY <1>0 DEF Locals
    <3>2. move(p, "nft_load", m) /\ pc[p] = "nft_probe"
      BY <2>1 DEF nft_probe, at
    <3> HIDE DEF m
    <3>3. pc'[p] = "nft_load" /\ loc'[p] = m
      BY <3>2 DEF LockInv, TypeOK, move
    <3> QED
      BY <3>1, <3>2, <3>3 DEF Carries
  <2>2. CASE nft_load(p) \/ nft_load_fails(p)
    <3>1. l.ret \notin {"nft_probe", "nft_load"}
      BY <1>0 DEF NftReturns
    <3>2. [l EXCEPT !.ok = TRUE].view = l.view /\ [l EXCEPT !.ok = FALSE].view = l.view
      BY <1>0 DEF Locals
    <3> QED
      BY <1>2, <2>2, <3>1, <3>2 DEF nft_load, nft_load_fails, at
  <2>3. CASE nft_stale(p) \/ nft_save(p)
    BY <1>0, <1>1, <2>3 DEF nft_stale, nft_save, at, NftReturns
  <2> QED
    BY <1>8, <2>1, <2>2, <2>3 DEF nft_step
<1>9. CASE watch_step(p)
  <2>1. CASE watch_tick(p)
    <3>1. fresh(p).view = cfg
      BY <1>0 DEF fresh, Locals
    <3> QED
      BY <2>1, <3>1, MoveCarries DEF watch_tick
  <2>2. CASE watch_health(p) \/ watch_ping(p)
    BY <1>1, <2>2 DEF watch_health, watch_ping, watch_verdict, at
  <2>3. CASE ensure_lock(p) \/ ensure_return(p) \/ recover_lock(p) \/ recover_return(p)
    BY <1>1, <2>3 DEF ensure_lock, ensure_return, recover_lock, recover_return, enter, at
  <2>4. CASE enforce_lock(p)
    <3> DEFINE m == [l EXCEPT !.work = Profiles, !.current = selected_profile(l.view, marker)]
    <3>1. m.view = l.view /\ move(p, "n_loop", m) /\ pc[p] = "n_lock"
      BY <1>0, <2>4 DEF Locals, enforce_lock, at
    <3> HIDE DEF m
    <3> QED
      BY <1>2, <3>1
  <2>8. CASE enforce_return(p)
    <3> DEFINE m == [l EXCEPT !.after = "idle"]
    <3>1. m.view = l.view /\ move(p, "p_check", m) /\ pc[p] = "n_loop"
      BY <1>0, <2>8 DEF Locals, enforce_return, at
    <3> HIDE DEF m
    <3> QED
      BY <1>2, <3>1
  <2>9. CASE recover_dial(p)
    <3> DEFINE m == [l EXCEPT !.arg = l.arg, !.caller = "recover"]
    <3>1. m.view = l.view /\ move(p, "c_lock", m) /\ pc[p] = "r_dial"
      BY <1>0, <2>9 DEF Locals, recover_dial, call, at
    <3> HIDE DEF m
    <3> QED
      BY <1>2, <3>1
  <2>10. CASE recover_start(p)
    <3> DEFINE active == selected_profile(l.view, marker)
               cur == IF active # None THEN active ELSE First(l.view.on)
               none == [l EXCEPT !.success = FALSE]
               m == [l EXCEPT !.current = cur, !.genuine = active # None,
                              !.work = IF l.view.failover THEN l.view.on ELSE {cur},
                              !.success = FALSE]
    <3>1. m.view = l.view /\ none.view = l.view
      BY <1>0 DEF Locals
    <3>2. (move(p, "r_out", none) \/ move(p, "r_loop", m)) /\ pc[p] = "r_start"
      BY <2>10 DEF recover_start, at
    <3> HIDE DEF m, none
    <3> QED
      BY <1>2, <3>1, <3>2
  <2>5. CASE enforce_loop(p)
    <3> DEFINE x == First(l.work)
               rest == [l EXCEPT !.work = @ \ {x}]
    <3>1. rest.view = l.view /\ [rest EXCEPT !.arg = x, !.caller = "enforce"].view = l.view
      BY <1>0 DEF Locals
    <3> QED
      BY <1>2, <2>5, <3>1 DEF enforce_loop, call, at
  <2>6. CASE recover_loop(p)
    <3> DEFINE x == next_candidate(l)
               rest == [l EXCEPT !.work = @ \ {x}]
    <3>1. [rest EXCEPT !.arg = x, !.caller = "recover"].view = l.view
      BY <1>0 DEF Locals
    <3> QED
      BY <1>1, <1>2, <2>6, <3>1 DEF recover_loop, call, at
  <2>7. CASE recover_switch(p)
    <3> DEFINE m == [l EXCEPT !.success = TRUE]
    <3>1. m.view = l.view /\ [m EXCEPT !.arg = m.arg, !.caller = "recover"].view = l.view
      BY <1>0 DEF Locals
    <3> QED
      BY <1>2, <2>7, <3>1 DEF recover_switch, call, at
  <2> QED
    BY <1>9, <2>1, <2>2, <2>3, <2>4, <2>5, <2>6, <2>7, <2>8, <2>9, <2>10 DEF watch_step
<1>10. CASE \E t \in Targets : ip_command(p, t)
  BY <1>10 DEF ip_command, Carries
<1>11. CASE process_dies(p)
  BY <1>1, <1>11 DEF process_dies
<1> QED
  BY <1>4, <1>5, <1>6, <1>7, <1>8, <1>9, <1>10, <1>11 DEF proc_step

\* Commands queued with tunnel devices, or that install nothing.
LEMMA QueueInstalls ==
    ASSUME LockInv, NEW p \in Proc, NEW T, NEW j, NEW d, queue(p, T, j, d),
           j \in Installs => \A t \in T \cap Targets : Tunnelled(t, d[t])
    PROVE  \A t \in Targets : job'[p][t] \in Installs => Tunnelled(t, dev'[p][t])
BY DEF LockInv, TypeOK, queue, Installs

\* The commands p has queued after its step lead into tunnels.
LEMMA ProcInstalls ==
    ASSUME LockInv, NEW p \in Proc, proc_step(p) \/ nft_load_fails(p) \/ process_dies(p),
           Prepared(p)
    PROVE  \A t \in Targets : job'[p][t] \in Installs => Tunnelled(t, dev'[p][t])
<1> DEFINE l == loc[p]
           Goal == \A t \in Targets : job'[p][t] \in Installs => Tunnelled(t, dev'[p][t])
<1>0. /\ l \in Locals /\ l.view \in Config /\ l.arg \in Profiles /\ l.targets \subseteq Targets
      /\ marker \in Profiles \cup {None} /\ up \subseteq Profiles /\ pushed \subseteq Profiles
  BY DEF LockInv, TypeOK, Locals
<1>1. UNCHANGED ipcmds => Goal
  BY DEF ipcmds, Prepared
<1>2. \A T, d : queue(p, T, "cdel", d) => Goal
  BY QueueInstalls DEF Installs
<1>3. \A T : T \subseteq {Default} /\ queue(p, T, "del", via(l.arg)) => Goal
  <2>1. \A t \in {Default} : Tunnelled(t, via(l.arg)[t])
    BY <1>0, DefaultTarget DEF Tunnelled, via
  <2> QED
    BY <2>1, QueueInstalls
<1>4. \A t \in Targets \ {Default} : Tunnelled(t, own[t])
  BY DEF Tunnelled, own
<1> HIDE DEF Goal
<1>5. CASE connect_step(p)
  <2>1. CASE connect_named(p)
    <3>1. queue(p, named_targets(l.view) \cap {l.arg}, "del", own)
      BY <2>1 DEF connect_named
    <3>2. \A t \in (named_targets(l.view) \cap {l.arg}) \cap Targets : Tunnelled(t, own[t])
      BY <1>4 DEF named_targets
    <3> QED
      BY <3>1, <3>2, QueueInstalls DEF Goal
  <2>2. CASE connect_route(p)
    BY <1>3, <2>2 DEF connect_route, Goal
  <2> QED
    BY <1>1, <1>5, <2>1, <2>2 DEF connect_step, connect_lock, connect_check, connect_dial,
       connect_verify, connect_raise, connect_return, enter, Goal
<1>6. CASE push_step(p)
  BY <1>1, <1>6 DEF push_step, push_check, push_lock, push_mark, Goal
<1>7. CASE disconnect_step(p)
  BY <1>1, <1>2, <1>7 DEF disconnect_step, disconnect_lock, disconnect_check, disconnect_kill,
     disconnect_kill_raises, disconnect_select, disconnect_return, enter, Goal
<1>8. CASE switch_step(p)
  BY <1>1, <1>3, <1>8 DEF switch_step, switch_lock, switch_mark, switch_route, switch_return,
     switch_save, enter, Goal
<1>9. CASE nft_step(p) \/ nft_load_fails(p)
  <2>1. CASE nft_load(p)
    <3> DEFINE T == {t \in l.targets : t = Default => config_selected_profile(l.view) # None}
               iface == [t \in Targets |-> target_interface(l.view, l.out, t)]
    <3>1. pc[p] = "nft_load" /\ l.view.client_traffic /\ l.out \in Profiles
      BY <2>1 DEF nft_load, at, Prepared, Agrees
    <3>2. \A t \in Targets : Tunnelled(t, iface[t])
      BY <3>1 DEF Tunnelled, target_interface
    <3>3. queue(p, T, "del", iface) \/ UNCHANGED ipcmds
      BY <2>1 DEF nft_load
    <3> HIDE DEF T, iface
    <3> QED
      BY <1>1, <3>2, <3>3, QueueInstalls DEF Goal
  <2> QED
    BY <1>1, <1>2, <1>9, <2>1 DEF nft_step, nft_probe, nft_stale, nft_save, nft_load_fails, Goal
<1>10. CASE watch_step(p)
  <2>1. CASE ensure_lock(p)
    <3> DEFINE s == selected_profile(l.view, marker)
               T == (IF s # None /\ s \in up THEN {Default} ELSE {})
                      \cup (named_targets(l.view) \cap up)
               d == [own EXCEPT ![Default] = s]
    <3>1. queue(p, T, "ensure", d)
      BY <2>1 DEF ensure_lock
    <3>2. DOMAIN own = Targets
      BY DEF own
    <3>3. \A t \in T \cap Targets : Tunnelled(t, d[t])
      <4> SUFFICES ASSUME NEW t \in T \cap Targets PROVE Tunnelled(t, d[t])
        OBVIOUS
      <4>1. CASE t = Default
        <5>1. s \in up /\ d[t] = s
          BY <3>2, <4>1, DefaultTarget DEF named_targets
        <5> QED
          BY <1>0, <4>1, <5>1 DEF Tunnelled
      <4>2. CASE t # Default
        BY <1>4, <3>2, <4>2 DEF Tunnelled
      <4> QED
        BY <4>1, <4>2
    <3> HIDE DEF T, d
    <3> QED
      BY <3>1, <3>3, QueueInstalls DEF Goal
  <2> QED
    BY <1>1, <1>10, <2>1 DEF watch_step, watch_tick, watch_health, watch_ping,
       ensure_return, enforce_lock, enforce_loop, enforce_return,
       recover_lock, recover_start, recover_loop, recover_dial, recover_switch,
       recover_return, enter, Goal
<1>11. ASSUME NEW t \in Targets, ip_command(p, t) PROVE Goal
  <2>0. job \in [Proc -> [Targets -> Jobs]] /\ dev \in [Proc -> [Targets -> Devices]]
    BY DEF LockInv, TypeOK
  <2> SUFFICES ASSUME NEW u \in Targets, job'[p][u] \in Installs
               PROVE  Tunnelled(u, dev'[p][u])
    BY DEF Goal
  <2>1. CASE u # t
    <3>1. job'[p][u] = job[p][u] /\ dev'[p][u] = dev[p][u]
      BY <1>11, <2>0, <2>1 DEF ip_command
    <3> QED
      BY <3>1 DEF Prepared
  <2>2. CASE u = t
    <3>1. job[p][u] \in Installs /\ dev' = dev
      BY <1>11, <2>0, <2>2 DEF ip_command, Installs
    <3> QED
      BY <3>1 DEF Prepared
  <2> QED
    BY <2>1, <2>2
<1>12. CASE process_dies(p)
  BY <1>12, QueueInstalls DEF process_dies, Installs, Goal
<1> QED
  BY <1>5, <1>6, <1>7, <1>8, <1>9, <1>10, <1>11, <1>12 DEF proc_step, Goal

\* What p's step does to the ruleset and the routes.
LEMMA ProcGuards ==
    ASSUME LockInv, NEW p \in Proc, proc_step(p) \/ nft_load_fails(p) \/ process_dies(p),
           Prepared(p), Guarded(nft, cfg), Routed
    PROVE  Guarded(nft', cfg) /\ Routed'
<1> DEFINE l == loc[p]
<1>0. /\ l \in Locals /\ l.view \in Config /\ cfg \in Config /\ pushed \subseteq Profiles
      /\ routes \in [Targets -> Devices \cup {None}]
  BY DEF LockInv, TypeOK, Locals
<1>1. UNCHANGED <<nft, routes>> => Guarded(nft', cfg) /\ Routed'
  BY DEF Routed
<1>2. CASE connect_step(p)
  BY <1>1, <1>2 DEF connect_step, connect_lock, connect_check, connect_dial, connect_verify,
     connect_route, connect_named, connect_raise, connect_return, enter, kernel
<1>3. CASE push_step(p)
  BY <1>1, <1>3 DEF push_step, push_check, push_lock, push_mark, kernel
<1>4. CASE disconnect_step(p)
  <2>1. CASE disconnect_kill(p)
    BY <1>0, <2>1 DEF disconnect_kill, purge, Routed
  <2> QED
    BY <1>1, <1>4, <2>1 DEF disconnect_step, disconnect_lock, disconnect_check,
       disconnect_kill_raises, disconnect_select, disconnect_return, enter, kernel
<1>5. CASE switch_step(p)
  BY <1>1, <1>5 DEF switch_step, switch_lock, switch_mark, switch_route, switch_return,
     switch_save, enter, kernel
<1>6. CASE nft_step(p) \/ nft_load_fails(p) \/ process_dies(p)
  <2>1. CASE nft_load(p)
    <3>1. Agrees(l.view, cfg) /\ l.out \in Profiles
      BY <2>1 DEF nft_load, at, Prepared
    <3>2. Guarded(render(l.view, pushed, l.out), cfg)
      BY <1>0, <3>1, RenderGuards
    <3> QED
      BY <2>1, <3>2 DEF nft_load, Routed
  <2> QED
    BY <1>1, <1>6, <2>1 DEF nft_step, nft_probe, nft_stale, nft_save, nft_load_fails,
       process_dies, kernel
<1>7. CASE watch_step(p)
  BY <1>1, <1>7 DEF watch_step, watch_tick, watch_health, watch_ping,
     ensure_lock, ensure_return, enforce_lock, enforce_loop, enforce_return,
     recover_lock, recover_start, recover_loop, recover_dial, recover_switch,
     recover_return, enter, kernel
<1>8. ASSUME NEW t \in Targets, ip_command(p, t) PROVE Guarded(nft', cfg) /\ Routed'
  <2>1. nft' = nft
    BY <1>8 DEF ip_command
  <2>2. \/ routes' = routes
        \/ routes' = [routes EXCEPT ![t] = None]
        \/ job[p][t] = "route" /\ routes' = [routes EXCEPT ![t] = dev[p][t]]
    BY <1>0, <1>8 DEF ip_command
  <2>3. Routed'
    BY <1>0, <2>2 DEF Routed, Prepared, Installs
  <2> QED
    BY <2>1, <2>3
<1> QED
  BY <1>2, <1>3, <1>4, <1>5, <1>6, <1>7, <1>8 DEF proc_step

\* What a step of p carries over is safe after it.
LEMMA StaysPrepared ==
    ASSUME LockInv, Steady, NEW p \in Proc, Prepared(p), Carries(p),
           cfg'.clients = cfg.clients,
           \A t \in Targets : job'[p][t] \in Installs => Tunnelled(t, dev'[p][t])
    PROVE  Prepared(p)'
<1>1. resolve_outbound(cfg) \in Profiles
  BY SteadySelects, RoutingAssumption DEF Steady, resolve_outbound, LockInv, TypeOK
<1> QED
  BY <1>1 DEF Prepared, Carries, Agrees, Steady

LEMMA LeakStep == LockInv /\ LeakInv /\ [Next]_vars => LeakInv'
<1> SUFFICES ASSUME LockInv, LeakInv, [Next]_vars, Steady'
             PROVE  (\A q \in Proc : Prepared(q)') /\ Guarded(nft', cfg') /\ Routed'
  BY DEF LeakInv
<1>0. Steady /\ cfg'.clients = cfg.clients
  BY SteadyBefore
<1>1. (\A q \in Proc : Prepared(q)) /\ Guarded(nft, cfg) /\ Routed
  BY <1>0 DEF LeakInv
<1>2. Guarded(nft', cfg) => Guarded(nft', cfg')
  BY <1>0 DEF Guarded
\* A process that does nothing stays prepared.
<1>3. ASSUME NEW q \in Proc, pc'[q] = pc[q], loc'[q] = loc[q], job'[q] = job[q], dev'[q] = dev[q]
      PROVE  Prepared(q)'
  BY <1>0, <1>1, <1>3 DEF Prepared, Agrees
<1>4. ASSUME NEW p \in Proc, proc_step(p) \/ nft_load_fails(p) \/ process_dies(p)
      PROVE  (\A q \in Proc : Prepared(q)') /\ Guarded(nft', cfg') /\ Routed'
  <2>1. Guarded(nft', cfg') /\ Routed'
    BY <1>1, <1>2, <1>4, ProcGuards
  <2>2. Prepared(p)'
    BY <1>0, <1>1, <1>4, ProcCarries, ProcInstalls, StaysPrepared
  <2>3. \A q \in Proc \ {p} : Prepared(q)'
    BY <1>3, <1>4, OneMoves, OneRoutes
  <2> QED
    BY <2>1, <2>2, <2>3
<1>5. ASSUME NEW a \in Admins, admin_step(a)
      PROVE  (\A q \in Proc : Prepared(q)') /\ Guarded(nft', cfg') /\ Routed'
  <2>0. a \in Proc /\ cfg \in Config /\ loc[a] \in Locals
    BY DEF LockInv, TypeOK, Proc
  <2>1. UNCHANGED <<ipcmds, routes>> /\ nft' \in {nft, NoTable}
    BY <1>5 DEF admin_step, request_connect, request_disconnect, request_switch,
       request_reload, request_cleanup, request_sync, kernel
  <2>2. Guarded(nft', cfg') /\ Routed'
    BY <1>1, <1>2, <2>1 DEF Guarded, Routed
  <2>3. fresh(a) \in Locals /\ fresh(a).view = cfg
    BY <2>0 DEF fresh, Locals
  <2>4. CASE request_cleanup(a)
    BY <1>3, <2>2, <2>1, <2>4 DEF request_cleanup, ipcmds
  <2>5. CASE ~request_cleanup(a)
    <3>1. Carries(a)
      <4>1. CASE request_reload(a)
        BY <2>0, <2>3, <4>1, ApplyCarries DEF request_reload
      <4>2. CASE request_connect(a) \/ request_disconnect(a) \/ request_switch(a)
        <5>1. PICK x \in Profiles, who \in {"api", "cli"}, step \in {"c_lock", "d_lock", "s_lock"} :
                move(a, step, [fresh(a) EXCEPT !.arg = x, !.caller = who])
          BY <4>2 DEF request_connect, request_disconnect, request_switch, call
        <5>2. [fresh(a) EXCEPT !.arg = x, !.caller = who].view = cfg
          BY <2>3 DEF Locals
        <5> QED
          BY <2>0, <5>1, <5>2, MoveCarries
      <4>3. CASE request_sync(a)
        <5> DEFINE m == [fresh(a) EXCEPT !.after = "idle"]
        <5>1. m.view = cfg
          BY <2>3 DEF Locals
        <5>2. move(a, "p_check", m)
          BY <4>3 DEF request_sync
        <5> HIDE DEF m
        <5> QED
          BY <2>0, <5>1, <5>2, MoveCarries
      <4> QED
        BY <1>5, <2>5, <4>1, <4>2, <4>3 DEF admin_step
    <3>2. Prepared(a)'
      BY <1>0, <1>1, <2>0, <2>1, <3>1, StaysPrepared DEF Prepared, ipcmds
    <3>3. \A q \in Proc \ {a} : pc'[q] = pc[q] /\ loc'[q] = loc[q]
      BY <1>5, <2>0, <2>5 DEF admin_step, request_connect, request_disconnect,
         request_switch, request_reload, request_sync, call, call_nft, move, LockInv, TypeOK
    <3> QED
      BY <1>3, <2>1, <2>2, <3>2, <3>3 DEF ipcmds
  <2> QED
    BY <2>4, <2>5
<1>6. CASE edit_step
  BY <1>1, <1>2, <1>3, <1>6, EditStep DEF edit, kernel, ipcmds, Routed
<1>7. CASE \/ server_outage \/ tunnel_dies \/ device_bounces \/ record_vpnc_event
           \/ settle_expires \/ UNCHANGED vars
  <2>1. UNCHANGED <<nft, pc, loc, ipcmds>>
    BY <1>7 DEF server_outage, tunnel_dies, device_bounces, record_vpnc_event,
       settle_expires, kernel, ipcmds, vars
  <2>2. routes' = routes \/ \E x : routes' = purge(routes, x)
    BY <1>7 DEF server_outage, tunnel_dies, device_bounces, record_vpnc_event,
       settle_expires, kernel, vars
  <2>3. Routed'
    BY <1>1, <2>2 DEF Routed, purge
  <2> QED
    BY <1>1, <1>2, <1>3, <2>1, <2>3 DEF ipcmds
<1> QED
  BY <1>4, <1>5, <1>6, <1>7 DEF Next, environment

LEMMA LeakInit == Init => LeakInv
<1> SUFFICES ASSUME Init, Steady PROVE LeakInv
  BY DEF LeakInv
<1>1. cfg \in Config /\ pushed \in SUBSET Profiles
  BY UpstreamAssumption DEF Init, Config
<1>2. resolve_outbound(cfg) \in Profiles
  BY <1>1, SteadySelects, RoutingAssumption DEF Steady, resolve_outbound
<1>3. Guarded(nft, cfg)
  <2>1. Agrees(cfg, cfg)
    BY DEF Steady, Agrees
  <2> QED
    BY <1>1, <1>2, <2>1, RenderGuards DEF Init
<1>4. \A p \in Proc : Prepared(p)
  BY DEF Init, Prepared, Installs
<1>5. Routed
  <2>1. \A t \in Targets : target_interface(cfg, resolve_outbound(cfg), t) # Uplink
    BY <1>2, RoutingAssumption DEF target_interface, Steady, Targets
  <2> QED
    BY <2>1 DEF Init, Routed
<1> QED
  BY <1>3, <1>4, <1>5 DEF LeakInv

\* A packet of a target whose routes and kill switch lead into tunnels.
LEMMA NothingLeaks ==
    ASSUME LockInv, LeakInv
    PROVE  NoLeak
<1> SUFFICES ASSUME Steady, nft # NoTable, NEW t \in {Default} \cup cfg.clients
             PROVE  /\ t \in nft.mark
                    /\ dropped(nft, rules, routes, t) \/ egress(rules, routes, t) # Uplink
                    /\ t # Default =>
                          dropped(nft, rules, routes, t) \/ egress(rules, routes, t) = t
  BY DEF NoLeak, Steady
<1>1. t \in Targets /\ (t # Default => t \in Profiles)
  BY DEF LockInv, TypeOK, Config, Targets
<1>2. t \in nft.mark /\ Tunnelled(t, nft.drop[t])
  BY DEF LeakInv, Guarded
<1>3. egress(rules, routes, t) = Uplink \/ Tunnelled(t, egress(rules, routes, t))
  BY <1>1 DEF LeakInv, Routed, egress
<1>4. nft.drop[t] \in Profiles /\ nft.drop[t] # None /\ nft.drop[t] # Uplink
  BY <1>1, <1>2, RoutingAssumption DEF Tunnelled
<1>5. CASE egress(rules, routes, t) = Uplink
  BY <1>2, <1>4, <1>5 DEF dropped
<1>6. CASE Tunnelled(t, egress(rules, routes, t))
  BY <1>1, <1>2, <1>6, RoutingAssumption DEF Tunnelled
<1> QED
  BY <1>3, <1>5, <1>6

\* The kill switch covers every window: with the configuration booted with,
\* which routes clients into an upstream, and a table nobody removed, no marked
\* packet leaves by the host's own connection, and one of a profile's own target
\* by no other tunnel, whatever processes run, reload, switch, fail over or die
\* half way, and whatever the kernel purges in between.
THEOREM NoLeakHolds == Spec => []NoLeak
BY LeakInit, LeakStep, NothingLeaks, LockInvariant, PTL DEF Spec
=============================================================================
