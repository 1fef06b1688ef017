---------------------------- MODULE UpstreamProofs ----------------------------
(***************************************************************************)
(* Proofs about Upstream, for every set of profiles and processes, every   *)
(* boot configuration and every bound.                                     *)
(***************************************************************************)
EXTENDS Upstream, TLAPS

-----------------------------------------------------------------------------
(***************************************************************************)
(* The operators of Routing.                                               *)
(***************************************************************************)

\* A non-empty part of the profile list has a first element.
LEMMA FirstIn ==
    ASSUME NEW S \in SUBSET Profiles, S # {}
    PROVE  First(S) \in S
BY RoutingAssumption DEF First

\* Selection, by the configuration alone and with the marker, names an enabled
\* profile or nothing.
LEMMA ConfigSelected ==
    ASSUME NEW c \in Config
    PROVE  config_selected_profile(c) \in c.on \cup {None}
BY FirstIn DEF config_selected_profile, Config

LEMMA Selected ==
    ASSUME NEW c \in Config, NEW m \in Profiles \cup {None}
    PROVE  /\ selected_profile(c, m) \in c.on \cup {None}
           /\ selected_profile(c, m) \in Profiles \cup {None}
BY ConfigSelected DEF selected_profile, Config

LEMMA ActiveInterface ==
    ASSUME NEW c \in Config, NEW m \in Profiles \cup {None}
    PROVE  /\ active_interface(c, m) \in Profiles
           /\ selected_profile(c, m) # None => active_interface(c, m) = selected_profile(c, m)
BY Selected, FirstIn, RoutingAssumption DEF active_interface

LEMMA ResolveOutbound ==
    ASSUME NEW c \in Config
    PROVE  resolve_outbound(c) \in Devices
BY ConfigSelected DEF resolve_outbound, Devices, Config

LEMMA ListTargets ==
    ASSUME NEW c \in Config, NEW P \in SUBSET Profiles
    PROVE  /\ list_targets(c, P) \subseteq Targets
           /\ host_targets(c, P) \subseteq Profiles
           /\ Default \in list_targets(c, P)
BY DEF list_targets, host_targets, Targets, Config

LEMMA TargetInterface ==
    ASSUME NEW c \in Config, NEW d \in Devices, NEW t \in Targets
    PROVE  target_interface(c, d, t) \in Devices
BY DEF target_interface, Targets, Devices

LEMMA RenderType ==
    ASSUME NEW c \in Config, NEW P \in SUBSET Profiles, NEW d \in Devices
    PROVE  render(c, P, d) \in Rulesets
<1>1. expected_set_names(c, P) \subseteq {"client", "host"} \X Targets
  BY ListTargets DEF expected_set_names, Targets
<1>2. \A t \in Targets : target_interface(c, d, t) \in Devices
  BY TargetInterface
<1>3. list_targets(c, P) \subseteq Targets /\ host_targets(c, P) \subseteq Profiles
  BY ListTargets
<1> QED
  BY <1>1, <1>2, <1>3 DEF render, Rulesets, Devices, Targets

LEMMA NoTableType == NoTable \in Rulesets
BY DEF NoTable, Rulesets

LEMMA PurgeType ==
    ASSUME NEW r \in [Targets -> Devices \cup {None}], NEW d
    PROVE  purge(r, d) \in [Targets -> Devices \cup {None}]
BY DEF purge

LEMMA NoLocalsType == NoLocals \in Locals
<1>1. (CHOOSE c \in Init_Config : TRUE) \in Config
  BY UpstreamAssumption
<1> QED
  BY <1>1, FirstIn, RoutingAssumption DEF NoLocals, Locals, Callers, NftReturns, Devices

-----------------------------------------------------------------------------
(***************************************************************************)
(* The inductive invariant of the lock: types, and depths that match the   *)
(* place each process is at.  TypeOK alone is not inductive, because a     *)
(* release outside the lock would take a depth below zero.                 *)
(***************************************************************************)
LockInv == TypeOK /\ LockDepth

\* The part of it that concerns where processes are.
Control ==
    /\ owner \in Proc \cup {None}
    /\ depth \in [Proc -> Nat]
    /\ pc \in [Proc -> Steps]
    /\ loc \in [Proc -> Locals]
    /\ LockDepth

\* The part of it that concerns files, the kernel and the loop.
Data ==
    /\ cfg \in Config
    /\ marker \in Profiles \cup {None}
    /\ pushed \subseteq Profiles
    /\ applied \subseteq Profiles
    /\ nft \in Rulesets
    /\ saved \subseteq Targets
    /\ rules \subseteq Targets
    /\ routes \in [Targets -> Devices \cup {None}]
    /\ up \subseteq Profiles
    /\ bad \subseteq Profiles
    /\ job \in [Proc -> [Targets -> Jobs]]
    /\ dev \in [Proc -> [Targets -> Devices]]
    /\ watch \in [fails : Nat, ever : BOOLEAN, settling : BOOLEAN,
                  failed : SUBSET Profiles]
    /\ spent \in [requests : Nat, edits : Nat, faults : Nat, pushes : Nat]

LEMMA LockInvParts == LockInv <=> Control /\ Data
BY DEF LockInv, TypeOK, Control, Data

LEMMA LockInvPartsNext == Control' /\ Data' => LockInv'
BY DEF LockInv, TypeOK, Control, Data

LEMMA LevelType ==
    ASSUME NEW step, NEW l
    PROVE  /\ CallLevel(l) \in {1, 2}
           /\ PushLevel(l) \in {0, 1, 2}
           /\ LevelAt(step, l) \in Nat
BY DEF LevelAt, CallLevel, PushLevel

\* The level of each step, spelled out.
LEMMA LevelOf ==
    ASSUME NEW step, NEW l
    PROVE  /\ step \in CallSteps => LevelAt(step, l) = CallLevel(l)
           /\ step \in {"c_lock", "d_lock", "s_lock"} => LevelAt(step, l) = CallLevel(l) - 1
           /\ step \in LoopSteps => LevelAt(step, l) = 1
           /\ step \in {"p_check", "p_lock"} => LevelAt(step, l) = PushLevel(l)
           /\ step = "p_mark" => LevelAt(step, l) = PushLevel(l) + 1
           /\ step \in NftSteps =>
                /\ l.ret = "p_mark" => LevelAt(step, l) = PushLevel(l) + 1
                /\ l.ret \in {"c_dial", "s_route"} => LevelAt(step, l) = CallLevel(l)
                /\ l.ret = "idle" => LevelAt(step, l) = 0
           /\ step \in {"idle", "s_save", "w_health", "w_ping", "e_lock", "n_lock", "r_lock"}
                => LevelAt(step, l) = 0
BY DEF LevelAt, CallSteps, ConnectSteps, DisconnectSteps, SwitchSteps, LoopSteps, NftSteps

\* What a process does next is well typed, and its level is that of the step
\* it goes to (an operation that ends has none).
LEMMA Moved ==
    ASSUME Control, NEW p \in Proc, NEW step \in Steps, NEW l \in Locals, move(p, step, l)
    PROVE  /\ pc' \in [Proc -> Steps] /\ loc' \in [Proc -> Locals]
           /\ Level(p)' = LevelAt(step, l)
           /\ \A q \in Proc \ {p} : Level(q)' = Level(q)
<1>1. LevelAt("idle", NoLocals) = LevelAt("idle", l)
  BY LevelOf
<1> QED
  BY <1>1, NoLocalsType DEF Control, move, Level

\* A step of p that stays at its level.
LEMMA Keeps ==
    ASSUME Control, NEW p \in Proc, NEW step \in Steps, NEW l \in Locals,
           move(p, step, l), UNCHANGED lock,
           LevelAt(step, l) = Level(p)
    PROVE  Control'
BY Moved DEF Control, LockDepth, lock

\* A step of p that enters a block.
LEMMA Enters ==
    ASSUME Control, NEW p \in Proc, NEW step \in Steps, NEW l \in Locals,
           move(p, step, l), acquire(p),
           LevelAt(step, l) = Level(p) + 1
    PROVE  Control'
BY Moved, UpstreamAssumption DEF Control, LockDepth, acquire, Proc

\* A step of p that leaves a block.
LEMMA Leaves ==
    ASSUME Control, NEW p \in Proc, NEW step \in Steps, NEW l \in Locals,
           move(p, step, l), release(p),
           LevelAt(step, l) = Level(p) - 1
    PROVE  Control'
<1>1. Level(p) \in Nat /\ LevelAt(step, l) \in Nat
  BY LevelType DEF Level
<1>2. depth[p] = Level(p) /\ depth[p] > 0 /\ owner = p
  BY <1>1 DEF Control, LockDepth
<1> QED
  BY <1>1, <1>2, Moved, UpstreamAssumption DEF Control, LockDepth, release, Proc

\* p gives up whatever it was doing.
LEMMA Unwinds ==
    ASSUME Control, NEW p \in Proc, NEW l \in Locals, move(p, "idle", l), unwind(p)
    PROVE  Control'
<1>1. LevelAt("idle", l) = 0 /\ "idle" \in Steps
  BY LevelOf DEF Steps, FreeSteps
<1> QED
  BY <1>1, Moved, UpstreamAssumption DEF Control, LockDepth, unwind, Proc

\* A step of the environment.
LEMMA Stays ==
    ASSUME Control, UNCHANGED <<lock, pc, loc>>
    PROVE  Control'
BY DEF Control, LockDepth, Level, lock

LEMMA QueueType ==
    ASSUME Data, NEW p \in Proc, NEW T, NEW j \in Jobs, NEW d,
           \A t \in T \cap Targets : d[t] \in Devices,
           queue(p, T, j, d)
    PROVE  job' \in [Proc -> [Targets -> Jobs]] /\ dev' \in [Proc -> [Targets -> Devices]]
BY DEF Data, queue, Jobs, Devices

LEMMA DeviceMaps ==
    /\ \A t \in Targets : own[t] \in Devices
    /\ \A d \in Devices : \A t \in Targets : via(d)[t] \in Devices
BY DEF own, via, Devices, Targets

\* The level depends on three of the locals only.
LEMMA SameLevel ==
    ASSUME NEW step, NEW l, NEW m,
           m.caller = l.caller, m.after = l.after, m.ret = l.ret
    PROVE  LevelAt(step, m) = LevelAt(step, l)
BY DEF LevelAt, CallLevel, PushLevel

\* apply runs, and returns to its caller, at its caller's level.
LEMMA NftLevel ==
    ASSUME NEW l, l.ret \in NftReturns, NEW s1 \in NftSteps, NEW s2 \in NftSteps \cup {l.ret}
    PROVE  LevelAt(s2, l) = LevelAt(s1, l) /\ s2 \in Steps
<1>1. CASE s2 \in NftSteps
  BY <1>1, LevelOf DEF NftReturns, Steps
<1>2. CASE s2 = l.ret
  BY <1>2, LevelOf
  DEF NftReturns, Steps, CallSteps, ConnectSteps, SwitchSteps, PushSteps, FreeSteps
<1> QED
  BY <1>1, <1>2

-----------------------------------------------------------------------------
(***************************************************************************)
(* NftablesService.apply and the ip commands                               *)
(***************************************************************************)

\* One ip command changes no process's place.
LEMMA IpCommandInv ==
    ASSUME Control, Data, NEW p \in Proc, NEW t \in Targets, ip_command(p, t)
    PROVE  Control' /\ Data'
<1>1. Control'
  BY Stays DEF ip_command
<1>2. Uplink \in Devices /\ {"none", "add", "route", "flush"} \subseteq Jobs
  BY DEF Devices, Jobs
<1>3. /\ rules' \in {rules, rules \ {t}, rules \cup {t}}
      /\ \E r \in {routes[t], dev[p][t], None} : routes' = [routes EXCEPT ![t] = r]
  BY DEF ip_command, Data
<1>4. \E next \in {"none", "add", "route", "flush"} : job' = [job EXCEPT ![p][t] = next]
  BY DEF ip_command, Data
<1>5. dev' \in {dev, [dev EXCEPT ![p][t] = Uplink]}
  BY DEF ip_command, Data
<1>6. /\ rules' \subseteq Targets
      /\ routes' \in [Targets -> Devices \cup {None}]
      /\ job' \in [Proc -> [Targets -> Jobs]]
      /\ dev' \in [Proc -> [Targets -> Devices]]
  <2>1. rules' \subseteq Targets
    BY <1>3 DEF Data
  <2>2. routes' \in [Targets -> Devices \cup {None}]
    BY <1>3 DEF Data
  <2>3. job' \in [Proc -> [Targets -> Jobs]]
    BY <1>2, <1>4 DEF Data
  <2>4. dev' \in [Proc -> [Targets -> Devices]]
    <3>1. CASE dev' = dev
      BY <3>1 DEF Data
    <3>2. CASE dev' = [dev EXCEPT ![p][t] = Uplink]
      BY <3>2, <1>2 DEF Data
    <3> QED
      BY <3>1, <3>2, <1>5
  <2> QED
    BY <2>1, <2>2, <2>3, <2>4
<1> QED
  BY <1>1, <1>6 DEF ip_command, Data, files

\* The steps of apply stay at the level of its caller.
LEMMA NftInv ==
    ASSUME Control, Data, NEW p \in Proc, nft_step(p) \/ nft_load_fails(p)
    PROVE  Control' /\ Data'
<1> DEFINE l == loc[p]
<1>0. l \in Locals /\ Level(p) = LevelAt(pc[p], l)
  BY DEF Control, Level
<1>1. l.view \in Config /\ l.out \in Devices /\ l.ret \in NftReturns /\ l.targets \subseteq Targets
  BY <1>0 DEF Locals
<1>2. list_targets(l.view, pushed) \subseteq Targets
  BY <1>1, ListTargets DEF Data
<1>3. CASE nft_probe(p)
  <2> DEFINE m == [l EXCEPT !.targets = list_targets(l.view, pushed),
                            !.ready = (nft.sets = expected_set_names(l.view, pushed))]
  <2>1. m \in Locals /\ m.ret = l.ret /\ m.caller = l.caller /\ m.after = l.after
    BY <1>0, <1>2 DEF Locals
  <2>2. LevelAt("nft_load", m) = Level(p)
    <3> HIDE DEF m
    <3> QED
      BY <1>0, <1>1, <1>3, <2>1, NftLevel, SameLevel DEF nft_probe, at, NftSteps
  <2> QED
    BY <1>3, <2>1, <2>2, Keeps DEF nft_probe, Data, files, kernel, lock, ipcmds, Steps, NftSteps
<1>4. CASE nft_load(p)
  <2> DEFINE m == [l EXCEPT !.ok = TRUE]
             iface == [t \in Targets |-> target_interface(l.view, l.out, t)]
             T == {t \in l.targets : t = Default => config_selected_profile(l.view) # None}
  <2>1. m \in Locals /\ m.ret = l.ret /\ m.caller = l.caller /\ m.after = l.after
    BY <1>0 DEF Locals
  <2>2. LevelAt("nft_stale", m) = Level(p)
    <3> HIDE DEF m
    <3> QED
      BY <1>0, <1>1, <1>4, <2>1, NftLevel, SameLevel DEF nft_load, at, NftSteps
  <2>3. Control'
    BY <1>4, <2>1, <2>2, Keeps DEF nft_load, Steps, NftSteps
  <2>4. nft' \in Rulesets
    BY <1>1, <1>4, RenderType DEF nft_load, Data
  <2>5. \A t \in T \cap Targets : iface[t] \in Devices
    BY <1>1, TargetInterface
  <2>6. job' \in [Proc -> [Targets -> Jobs]] /\ dev' \in [Proc -> [Targets -> Devices]]
    <3>1. CASE l.view.enabled
      <4>1. queue(p, T, "del", iface)
        BY <1>4, <3>1 DEF nft_load
      <4> QED
        BY <4>1, <2>5, QueueType DEF Jobs
    <3>2. CASE ~l.view.enabled
      BY <1>4, <3>2 DEF nft_load, ipcmds, Data
    <3> QED
      BY <3>1, <3>2
  <2> QED
    BY <1>4, <2>3, <2>4, <2>6 DEF nft_load, Data, files
<1>5. CASE nft_load_fails(p)
  <2> DEFINE m == [l EXCEPT !.ok = FALSE]
  <2>1. m \in Locals /\ m.ret = l.ret /\ m.caller = l.caller /\ m.after = l.after
    BY <1>0 DEF Locals
  <2>2. LevelAt(l.ret, m) = Level(p) /\ l.ret \in Steps
    <3> HIDE DEF m
    <3> QED
      BY <1>0, <1>1, <1>5, <2>1, NftLevel, SameLevel DEF nft_load_fails, at, NftSteps
  <2>3. Control'
    BY <1>5, <2>1, <2>2, Keeps DEF nft_load_fails
  <2> QED
    BY <1>5, <2>3 DEF nft_load_fails, Data, files, kernel, ipcmds
<1>6. CASE nft_stale(p)
  <2>1. LevelAt("nft_save", l) = Level(p)
    BY <1>0, <1>1, <1>6, NftLevel DEF nft_stale, at, NftSteps
  <2>2. Control'
    BY <1>0, <1>6, <2>1, Keeps DEF nft_stale, goto, Steps, NftSteps
  <2>3. job' \in [Proc -> [Targets -> Jobs]] /\ dev' \in [Proc -> [Targets -> Devices]]
    <3>1. queue(p, saved \ l.targets, "cdel", via(Uplink))
      BY <1>6 DEF nft_stale
    <3>2. \A t \in (saved \ l.targets) \cap Targets : via(Uplink)[t] \in Devices
      BY DeviceMaps DEF Devices
    <3> QED
      BY <3>1, <3>2, QueueType DEF Jobs
  <2> QED
    BY <1>6, <2>2, <2>3 DEF nft_stale, Data, files, kernel
<1>7. CASE nft_save(p)
  <2>1. LevelAt(l.ret, l) = Level(p) /\ l.ret \in Steps
    BY <1>0, <1>1, <1>7, NftLevel DEF nft_save, at, NftSteps
  <2>2. Control'
    BY <1>0, <1>7, <2>1, Keeps DEF nft_save, goto
  <2> QED
    BY <1>1, <1>7, <2>2 DEF nft_save, Data, files, ipcmds
<1> QED
  BY <1>3, <1>4, <1>5, <1>6, <1>7 DEF nft_step

-----------------------------------------------------------------------------
(***************************************************************************)
(* connect and apply_server_routing_if_changed                             *)
(***************************************************************************)

\* A call of apply from a step at the level that apply will run at.
LEMMA CallNft ==
    ASSUME Control, NEW p \in Proc, NEW l \in Locals, NEW out \in Devices,
           NEW ret \in {"c_dial", "s_route"}, call_nft(p, l, out, ret),
           CallLevel(l) = Level(p), UNCHANGED lock
    PROVE  Control'
<1> DEFINE m == [l EXCEPT !.out = out, !.ret = ret]
<1>1. m \in Locals /\ m.ret = ret /\ m.caller = l.caller
  BY DEF Locals, NftReturns
<1>2. move(p, "nft_probe", m)
  BY DEF call_nft
<1>3. LevelAt("nft_probe", m) = CallLevel(l) /\ "nft_probe" \in Steps
  <2> HIDE DEF m
  <2> QED
    BY <1>1, LevelOf DEF NftSteps, CallLevel, Steps
<1> HIDE DEF m
<1> QED
  BY <1>1, <1>2, <1>3, Keeps

\* A call that goes on inside its block.
LEMMA GoesOn ==
    ASSUME Control, NEW p \in Proc, pc[p] \in CallSteps, NEW next \in CallSteps,
           goto(p, next), UNCHANGED lock
    PROVE  Control'
<1>1. loc[p] \in Locals /\ LevelAt(next, loc[p]) = Level(p) /\ next \in Steps
  BY LevelOf DEF Control, Level, Steps
<1> QED
  BY <1>1, Keeps DEF goto

\* A call that returns to the loop it was made from, or ends its request.
LEMMA Returns ==
    ASSUME Control, NEW p \in Proc, pc[p] \in CallSteps, NEW next,
           goto(p, next), release(p),
           \/ loc[p].caller \in {"enforce", "recover"} /\ next \in LoopSteps
           \/ loc[p].caller \notin {"enforce", "recover"} /\ next \in {"idle", "s_save"}
    PROVE  Control'
<1>1. loc[p] \in Locals /\ Level(p) = CallLevel(loc[p]) /\ next \in Steps
  BY LevelOf DEF Control, Level, Steps, FreeSteps
<1>2. LevelAt(next, loc[p]) = Level(p) - 1
  BY <1>1, LevelOf DEF CallLevel
<1> QED
  BY <1>1, <1>2, Leaves DEF goto

LEMMA ConnectInv ==
    ASSUME Control, Data, NEW p \in Proc, connect_step(p)
    PROVE  Control' /\ Data'
<1> DEFINE l == loc[p]
<1>0. l \in Locals /\ Level(p) = LevelAt(pc[p], l)
  BY DEF Control, Level
<1>1. l.view \in Config /\ l.arg \in Profiles /\ l.caller \in Callers
  BY <1>0 DEF Locals
<1>2. CASE connect_lock(p)
  <2>1. LevelAt("c_check", l) = Level(p) + 1 /\ "c_check" \in Steps
    BY <1>0, <1>2, LevelOf, LevelType
    DEF connect_lock, enter, at, Steps, CallSteps, ConnectSteps
  <2>2. Control'
    BY <1>0, <1>2, <2>1, Enters DEF connect_lock, enter, goto
  <2> QED
    BY <1>2, <2>2 DEF connect_lock, enter, Data, files, kernel, ipcmds
<1>3. CASE connect_check(p)
  <2> DEFINE m == [l EXCEPT !.is_act = (selected_profile(l.view, marker) = l.arg)]
  <2>1. active_interface(l.view, marker) \in Devices
    BY <1>1, ActiveInterface DEF Data, Devices
  <2>2. m \in Locals /\ m.caller = l.caller
    BY <1>0 DEF Locals
  <2>3. Level(p) = CallLevel(l) /\ pc[p] \in CallSteps
    BY <1>0, <1>3, LevelOf DEF connect_check, at, CallSteps, ConnectSteps
  <2>4. CASE l.arg \in up
    BY <1>3, <2>3, <2>4, GoesOn
    DEF connect_check, Data, files, kernel, ipcmds, CallSteps, ConnectSteps
  <2>5. CASE l.arg \notin up
    <3>1. call_nft(p, m, active_interface(l.view, marker), "c_dial") /\ UNCHANGED lock
      BY <1>3, <2>5 DEF connect_check
    <3>2. CallLevel(m) = Level(p)
      BY <2>2, <2>3 DEF CallLevel
    <3>3. Control'
      <4> HIDE DEF m
      <4> QED
        BY <2>1, <2>2, <3>1, <3>2, CallNft
    <3> QED
      BY <1>3, <3>3 DEF connect_check, Data, files, kernel, ipcmds
  <2> QED
    BY <2>4, <2>5
<1>4. CASE connect_dial(p)
  <2>1. Control'
    BY <1>4, GoesOn DEF connect_dial, at, CallSteps, ConnectSteps
  <2>2. /\ up' \in {up, up \cup {l.arg}}
        /\ pushed' \in {pushed, pushed \cup {l.arg}}
        /\ spent' \in {spent, [spent EXCEPT !.pushes = @ + 1]}
    BY <1>4 DEF connect_dial
  <2>3. up' \subseteq Profiles /\ pushed' \subseteq Profiles
    BY <1>1, <2>2 DEF Data
  <2>4. spent' \in [requests : Nat, edits : Nat, faults : Nat, pushes : Nat]
    BY <2>2 DEF Data
  <2> QED
    BY <1>4, <2>1, <2>3, <2>4 DEF connect_dial, Data, ipcmds
<1>5. CASE connect_verify(p)
  BY <1>5, GoesOn
  DEF connect_verify, at, Data, files, kernel, ipcmds, CallSteps, ConnectSteps
<1>6. CASE connect_route(p)
  <2>1. Control'
    BY <1>6, GoesOn DEF connect_route, at, CallSteps, ConnectSteps
  <2>2. job' \in [Proc -> [Targets -> Jobs]] /\ dev' \in [Proc -> [Targets -> Devices]]
    <3> DEFINE T == IF l.is_act THEN {Default} ELSE {}
    <3>1. queue(p, T, "del", via(l.arg)) /\ l.arg \in Devices
      BY <1>1, <1>6 DEF connect_route, Devices
    <3> HIDE DEF T
    <3> QED
      BY <3>1, DeviceMaps, QueueType DEF Jobs
  <2> QED
    BY <1>6, <2>1, <2>2 DEF connect_route, Data, files, kernel
<1>7. CASE connect_named(p)
  <2> DEFINE m == [l EXCEPT !.after = "c_out"]
             T == named_targets(l.view) \cap {l.arg}
  <2>1. m \in Locals /\ m.after = "c_out" /\ m.caller = l.caller
    BY <1>0 DEF Locals
  <2>2. move(p, "p_check", m) /\ queue(p, T, "del", own) /\ UNCHANGED lock
    BY <1>7 DEF connect_named
  <2>3. Level(p) = CallLevel(l)
    BY <1>0, <1>7, LevelOf DEF connect_named, at, CallSteps, ConnectSteps
  <2> HIDE DEF m, T
  <2>4. LevelAt("p_check", m) = Level(p) /\ "p_check" \in Steps
    BY <2>1, <2>3, LevelOf DEF PushLevel, CallLevel, Steps, FreeSteps
  <2>5. Control'
    BY <2>1, <2>2, <2>4, Keeps
  <2>6. job' \in [Proc -> [Targets -> Jobs]] /\ dev' \in [Proc -> [Targets -> Devices]]
    BY <2>2, DeviceMaps, QueueType DEF Jobs
  <2> QED
    BY <1>7, <2>5, <2>6 DEF connect_named, Data, files, kernel
<1>8. CASE connect_raise(p)
  BY <1>8, Returns
  DEF connect_raise, at, Data, files, kernel, ipcmds, CallSteps, ConnectSteps, LoopSteps
<1>9. CASE connect_return(p)
  BY <1>9, Returns
  DEF connect_return, at, Data, files, kernel, ipcmds, CallSteps, ConnectSteps, LoopSteps
<1> QED
  BY <1>2, <1>3, <1>4, <1>5, <1>6, <1>7, <1>8, <1>9 DEF connect_step

LEMMA PushInv ==
    ASSUME Control, Data, NEW p \in Proc, push_step(p)
    PROVE  Control' /\ Data'
<1> DEFINE l == loc[p]
<1>0. l \in Locals /\ Level(p) = LevelAt(pc[p], l)
  BY DEF Control, Level
<1>1. l.view \in Config /\ l.after \in {"c_out", "idle"} /\ l.print \subseteq Profiles
  BY <1>0 DEF Locals
<1>2. \A m : m.after = l.after /\ m.caller = l.caller => PushLevel(m) = PushLevel(l)
  BY DEF PushLevel, CallLevel
<1>3. l.after \in Steps /\ LevelAt(l.after, l) = PushLevel(l)
  BY <1>1, LevelOf DEF PushLevel, Steps, CallSteps, ConnectSteps, FreeSteps
<1>4. CASE push_check(p)
  <2> DEFINE m == [l EXCEPT !.print = fingerprint(l.view)]
             next == IF fingerprint(l.view) = applied THEN l.after ELSE "p_lock"
  <2>1. m \in Locals /\ m.after = l.after /\ m.caller = l.caller /\ m.ret = l.ret
    BY <1>0, <1>1 DEF Locals, fingerprint, Config
  <2>2. move(p, next, m) /\ UNCHANGED lock
    BY <1>4 DEF push_check
  <2> HIDE DEF m
  <2>3. LevelAt(next, m) = Level(p) /\ next \in Steps
    BY <1>0, <1>2, <1>3, <1>4, <2>1, LevelOf, SameLevel
    DEF push_check, at, Steps, LockSteps
  <2> HIDE DEF next
  <2>4. Control'
    BY <2>1, <2>2, <2>3, Keeps
  <2> QED
    BY <1>4, <2>4 DEF push_check, Data, files, kernel, ipcmds
<1>5. CASE push_lock(p)
  <2> DEFINE m == [l EXCEPT !.out = active_interface(l.view, marker), !.ret = "p_mark"]
  <2>1. active_interface(l.view, marker) \in Devices
    BY <1>1, ActiveInterface DEF Data, Devices
  <2>2. m \in Locals /\ m.after = l.after /\ m.caller = l.caller /\ m.ret = "p_mark"
    BY <1>0, <2>1 DEF Locals, NftReturns
  <2>3. move(p, "nft_probe", m) /\ acquire(p)
    BY <1>5 DEF push_lock, call_nft
  <2> HIDE DEF m
  <2>4. LevelAt("nft_probe", m) = Level(p) + 1 /\ "nft_probe" \in Steps
    BY <1>0, <1>2, <1>5, <2>2, LevelOf DEF push_lock, at, Steps, NftSteps
  <2>5. Control'
    BY <2>2, <2>3, <2>4, Enters
  <2> QED
    BY <1>5, <2>5 DEF push_lock, Data, files, kernel, ipcmds
<1>6. CASE push_mark(p)
  <2>1. LevelAt(l.after, l) = Level(p) - 1
    BY <1>0, <1>3, <1>6, LevelOf, LevelType DEF push_mark, at
  <2>2. Control'
    BY <1>0, <1>3, <1>6, <2>1, Leaves DEF push_mark, goto
  <2> QED
    BY <1>1, <1>6, <2>2 DEF push_mark, Data, kernel, ipcmds
<1> QED
  BY <1>4, <1>5, <1>6 DEF push_step

-----------------------------------------------------------------------------
(***************************************************************************)
(* disconnect and switch_profile                                           *)
(***************************************************************************)

\* A call enters its block.
LEMMA CallEnters ==
    ASSUME Control, NEW p \in Proc, NEW step \in {"c_lock", "d_lock", "s_lock"},
           NEW next \in CallSteps, enter(p, step, next)
    PROVE  Control'
<1>1. loc[p] \in Locals /\ Level(p) = CallLevel(loc[p]) - 1 /\ next \in Steps
  BY LevelOf DEF Control, Level, enter, at, Steps
<1>2. LevelAt(next, loc[p]) = Level(p) + 1
  BY <1>1, LevelOf, LevelType
<1> QED
  BY <1>1, <1>2, Enters DEF enter, goto

\* The uncaught exception, or the death, of the watchdog restarts its loop.
LEMMA NoWatchType ==
    NoWatch \in [fails : Nat, ever : BOOLEAN, settling : BOOLEAN, failed : SUBSET Profiles]
BY DEF NoWatch

LEMMA DisconnectInv ==
    ASSUME Control, Data, NEW p \in Proc, disconnect_step(p)
    PROVE  Control' /\ Data'
<1> USE DEF CallSteps, DisconnectSteps
<1> DEFINE l == loc[p]
<1>0. l \in Locals
  BY DEF Control
<1>1. CASE disconnect_lock(p)
  BY <1>1, CallEnters DEF disconnect_lock, enter, Data, files, kernel, ipcmds
<1>2. CASE disconnect_check(p)
  BY <1>2, GoesOn DEF disconnect_check, at, Data, files, kernel, ipcmds
<1>3. CASE disconnect_kill(p)
  <2>1. Control'
    BY <1>3, GoesOn DEF disconnect_kill, at
  <2>2. routes' \in [Targets -> Devices \cup {None}] /\ up' \subseteq Profiles
    BY <1>3, PurgeType DEF disconnect_kill, Data
  <2> QED
    BY <1>3, <2>1, <2>2 DEF disconnect_kill, Data, files, ipcmds
<1>4. CASE disconnect_kill_raises(p)
  <2>1. Control'
    BY <1>0, <1>4, Unwinds DEF disconnect_kill_raises, goto
  <2> QED
    BY <1>4, <2>1, NoWatchType DEF disconnect_kill_raises, Data, files, kernel, ipcmds
<1>5. CASE disconnect_select(p)
  <2> DEFINE T == (IF selected_profile(l.view, marker) = l.arg THEN {Default} ELSE {})
                    \cup (named_targets(l.view) \cap {l.arg})
  <2>1. Control'
    BY <1>5, GoesOn DEF disconnect_select, at
  <2>2. queue(p, T, "cdel", via(Uplink)) /\ Uplink \in Devices
    BY <1>5 DEF disconnect_select, Devices
  <2> HIDE DEF T
  <2>3. job' \in [Proc -> [Targets -> Jobs]] /\ dev' \in [Proc -> [Targets -> Devices]]
    BY <2>2, DeviceMaps, QueueType DEF Jobs
  <2> QED
    BY <1>5, <2>1, <2>3 DEF disconnect_select, Data, files, kernel
<1>6. CASE disconnect_return(p)
  BY <1>6, Returns DEF disconnect_return, at, Data, files, kernel, ipcmds, LoopSteps
<1> QED
  BY <1>1, <1>2, <1>3, <1>4, <1>5, <1>6 DEF disconnect_step

LEMMA SwitchInv ==
    ASSUME Control, Data, NEW p \in Proc, switch_step(p)
    PROVE  Control' /\ Data'
<1> USE DEF CallSteps, SwitchSteps
<1> DEFINE l == loc[p]
<1>0. l \in Locals /\ l.arg \in Profiles /\ l.arg \in Devices
  BY DEF Control, Locals, Devices
<1>1. CASE switch_lock(p)
  BY <1>1, CallEnters DEF switch_lock, enter, Data, files, kernel, ipcmds
<1>2. CASE switch_mark(p)
  <2>1. CallLevel(l) = Level(p)
    BY <1>2, LevelOf DEF switch_mark, at, Level
  <2>2. Control'
    BY <1>0, <1>2, <2>1, CallNft DEF switch_mark
  <2> QED
    BY <1>0, <1>2, <2>2 DEF switch_mark, Data, kernel, ipcmds
<1>3. CASE switch_route(p)
  <2> DEFINE T == IF l.arg \in up THEN {Default} ELSE {}
  <2>1. Control'
    BY <1>3, GoesOn DEF switch_route, at
  <2>2. queue(p, T, "del", via(l.arg))
    BY <1>3 DEF switch_route
  <2> HIDE DEF T
  <2>3. job' \in [Proc -> [Targets -> Jobs]] /\ dev' \in [Proc -> [Targets -> Devices]]
    BY <1>0, <2>2, DeviceMaps, QueueType DEF Jobs
  <2> QED
    BY <1>3, <2>1, <2>3 DEF switch_route, Data, files, kernel
<1>4. CASE switch_return(p)
  BY <1>0, <1>4, Returns DEF switch_return, at, Locals, Callers, Data, files, kernel, ipcmds, LoopSteps
<1>5. CASE switch_save(p)
  <2>1. LevelAt("idle", l) = Level(p) /\ "idle" \in Steps
    BY <1>5, LevelOf DEF switch_save, at, Level, Steps, FreeSteps
  <2>2. Control'
    BY <1>0, <1>5, <2>1, Keeps DEF switch_save, goto
  <2>3. cfg' \in Config
    BY <1>0, <1>5 DEF switch_save, Data, Config
  <2> QED
    BY <1>5, <2>2, <2>3 DEF switch_save, Data, kernel, ipcmds
<1> QED
  BY <1>1, <1>2, <1>3, <1>4, <1>5 DEF switch_step

-----------------------------------------------------------------------------
(***************************************************************************)
(* The watchdog                                                            *)
(***************************************************************************)

\* From one place outside the lock to another.
LEMMA Outside ==
    ASSUME Control, NEW p \in Proc, NEW step, NEW l \in Locals,
           pc[p] \in {"idle", "w_health", "w_ping"},
           step \in {"idle", "w_health", "w_ping", "e_lock", "n_lock", "r_lock"},
           move(p, step, l), UNCHANGED lock
    PROVE  Control'
<1>1. LevelAt(step, l) = Level(p) /\ step \in Steps
  BY LevelOf DEF Level, Steps, FreeSteps, LockSteps
<1> QED
  BY <1>1, Keeps

\* From one place in a loop's block to another, or into a call of it.
LEMMA Loops ==
    ASSUME Control, NEW p \in Proc, NEW step, NEW l \in Locals,
           pc[p] \in LoopSteps,
           \/ step \in LoopSteps
           \/ step \in {"c_lock", "d_lock", "s_lock"} /\ l.caller \in {"enforce", "recover"},
           move(p, step, l), UNCHANGED lock
    PROVE  Control'
<1>1. LevelAt(step, l) = Level(p) /\ step \in Steps
  BY LevelOf DEF Level, Steps, LockSteps, CallLevel
<1> QED
  BY <1>1, Keeps

\* What the loop assigns to its own variables is well typed.
LEMMA WatchUpdate ==
    ASSUME Data, NEW n \in Nat, NEW S \in SUBSET Profiles, NEW e \in BOOLEAN
    PROVE  /\ [watch EXCEPT !.fails = n, !.failed = S]
                \in [fails : Nat, ever : BOOLEAN, settling : BOOLEAN, failed : SUBSET Profiles]
           /\ [watch EXCEPT !.fails = n, !.failed = S, !.ever = e]
                \in [fails : Nat, ever : BOOLEAN, settling : BOOLEAN, failed : SUBSET Profiles]
BY DEF Data

LEMMA VerdictType ==
    ASSUME Control, Data, NEW p \in Proc, NEW healthy \in BOOLEAN, watch_verdict(p, healthy)
    PROVE  /\ watch' \in [fails : Nat, ever : BOOLEAN, settling : BOOLEAN,
                          failed : SUBSET Profiles]
           /\ \E step \in {"e_lock", "n_lock", "r_lock"} : goto(p, step)
<1>1. selected_profile(loc[p].view, marker) \in Profiles \cup {None}
  BY Selected DEF Control, Data, Locals
<1>2. watch.fails + 1 \in Nat /\ watch.failed \subseteq Profiles
  BY DEF Data
<1>3. \E step \in {"e_lock", "n_lock", "r_lock"} : goto(p, step)
  BY DEF watch_verdict
<1>4. \/ watch' = watch
      \/ watch' = [watch EXCEPT !.fails = 0, !.failed = {}, !.ever = TRUE]
      \/ watch' = [watch EXCEPT !.fails = 0, !.failed = {}]
      \/ watch' = [watch EXCEPT !.fails = @ + 1,
                     !.failed = watch.failed
                                  \cup ({selected_profile(loc[p].view, marker)} \ {None})]
  BY DEF watch_verdict
<1>5. watch' \in [fails : Nat, ever : BOOLEAN, settling : BOOLEAN, failed : SUBSET Profiles]
  <2> DEFINE S == watch.failed \cup ({selected_profile(loc[p].view, marker)} \ {None})
             n == watch.fails + 1
  <2>1. S \in SUBSET Profiles /\ n \in Nat
    BY <1>1, <1>2
  <2>2. \/ watch' = watch
        \/ watch' = [watch EXCEPT !.fails = 0, !.failed = {}, !.ever = TRUE]
        \/ watch' = [watch EXCEPT !.fails = 0, !.failed = {}]
        \/ watch' = [watch EXCEPT !.fails = n, !.failed = S]
    BY <1>4
  <2>3. {} \in SUBSET Profiles /\ 0 \in Nat /\ TRUE \in BOOLEAN
    OBVIOUS
  <2> HIDE DEF S, n
  <2>4. CASE watch' = watch
    BY <2>4 DEF Data
  <2>5. CASE watch' = [watch EXCEPT !.fails = 0, !.failed = {}, !.ever = TRUE]
    BY <2>3, <2>5, WatchUpdate, Zenon
  <2>6. CASE watch' = [watch EXCEPT !.fails = 0, !.failed = {}]
    BY <2>3, <2>6, WatchUpdate, Zenon
  <2>7. CASE watch' = [watch EXCEPT !.fails = n, !.failed = S]
    BY <2>1, <2>7, WatchUpdate, Zenon
  <2> QED
    BY <2>2, <2>4, <2>5, <2>6, <2>7
<1> QED
  BY <1>3, <1>5

LEMMA WatchInv ==
    ASSUME Control, Data, NEW p \in Proc,
           watch_tick(p) \/ watch_health(p) \/ watch_ping(p)
    PROVE  Control' /\ Data'
<1>0. loc[p] \in Locals
  BY DEF Control
<1>1. CASE watch_tick(p)
  <2>1. fresh(p) \in Locals
    BY <1>0 DEF fresh, Locals, Data
  <2>2. Control'
    BY <1>1, <2>1, Outside DEF watch_tick, at
  <2>3. watch' \in {watch, [watch EXCEPT !.fails = 0, !.failed = {}]}
    BY <1>1 DEF watch_tick
  <2>4. watch' \in [fails : Nat, ever : BOOLEAN, settling : BOOLEAN, failed : SUBSET Profiles]
    <3>1. {} \in SUBSET Profiles /\ 0 \in Nat
      OBVIOUS
    <3>2. [watch EXCEPT !.fails = 0, !.failed = {}]
            \in [fails : Nat, ever : BOOLEAN, settling : BOOLEAN, failed : SUBSET Profiles]
      BY <3>1, WatchUpdate
    <3> QED
      BY <2>3, <3>2 DEF Data
  <2> QED
    BY <1>1, <2>2, <2>4 DEF watch_tick, Data, files, kernel, ipcmds
<1>2. CASE watch_health(p)
  <2>1. CASE watch_verdict(p, FALSE)
    BY <1>0, <1>2, <2>1, VerdictType, Outside
    DEF watch_health, at, goto, Data, files, kernel, ipcmds
  <2>2. CASE goto(p, "w_ping") /\ UNCHANGED watch
    BY <1>0, <1>2, <2>2, Outside DEF watch_health, at, goto, Data, files, kernel, ipcmds
  <2> QED
    BY <1>2, <2>1, <2>2 DEF watch_health
<1>3. CASE watch_ping(p)
  <2>1. \E healthy \in BOOLEAN : watch_verdict(p, healthy)
    BY <1>3 DEF watch_ping
  <2> QED
    BY <1>0, <1>3, <2>1, VerdictType, Outside
    DEF watch_ping, at, goto, Data, files, kernel, ipcmds
<1> QED
  BY <1>1, <1>2, <1>3

LEMMA EnforceInv ==
    ASSUME Control, Data, NEW p \in Proc,
           \/ ensure_lock(p) \/ ensure_return(p)
           \/ enforce_lock(p) \/ enforce_loop(p) \/ enforce_return(p)
    PROVE  Control' /\ Data'
<1> USE DEF LoopSteps
<1> DEFINE l == loc[p]
           s == selected_profile(l.view, marker)
<1>0. l \in Locals /\ Level(p) = LevelAt(pc[p], l)
  BY DEF Control, Level
<1>1. l.view \in Config /\ s \in Profiles \cup {None}
  BY <1>0, Selected DEF Locals, Data
<1>2. CASE ensure_lock(p)
  <2> DEFINE T == (IF s # None /\ s \in up THEN {Default} ELSE {})
                    \cup (named_targets(l.view) \cap up)
             d == [own EXCEPT ![Default] = s]
  <2>1. queue(p, T, "ensure", d) /\ acquire(p) /\ goto(p, "e_out")
    BY <1>2 DEF ensure_lock
  <2>2. \A t \in T \cap Targets : d[t] \in Devices
    <3>1. DOMAIN own = Targets /\ Default \in Targets
      BY DEF own, Targets
    <3> QED
      BY <1>1, <3>1, DeviceMaps, RoutingAssumption DEF named_targets, Data, Devices
  <2>3. LevelAt("e_out", l) = Level(p) + 1 /\ "e_out" \in Steps
    BY <1>0, <1>2, LevelOf DEF ensure_lock, at, Steps
  <2> HIDE DEF T, d
  <2>4. Control'
    BY <1>0, <2>1, <2>3, Enters DEF goto
  <2>5. job' \in [Proc -> [Targets -> Jobs]] /\ dev' \in [Proc -> [Targets -> Devices]]
    BY <2>1, <2>2, QueueType DEF Jobs
  <2> QED
    BY <1>2, <2>4, <2>5 DEF ensure_lock, Data, files, kernel
<1>3. CASE ensure_return(p)
  <2>1. LevelAt("n_lock", l) = Level(p) - 1 /\ "n_lock" \in Steps
    BY <1>0, <1>3, LevelOf DEF ensure_return, at, Steps, LockSteps
  <2>2. Control'
    BY <1>0, <1>3, <2>1, Leaves DEF ensure_return, goto
  <2> QED
    BY <1>3, <2>2 DEF ensure_return, Data, files, kernel, ipcmds
<1>4. CASE enforce_lock(p)
  <2> DEFINE m == [l EXCEPT !.work = Profiles, !.current = s]
  <2>1. m \in Locals
    BY <1>0, <1>1 DEF Locals
  <2>2. move(p, "n_loop", m) /\ acquire(p)
    BY <1>4 DEF enforce_lock
  <2> HIDE DEF m
  <2>3. LevelAt("n_loop", m) = Level(p) + 1 /\ "n_loop" \in Steps
    BY <1>0, <1>4, LevelOf DEF enforce_lock, at, Steps
  <2>4. Control'
    BY <2>1, <2>2, <2>3, Enters
  <2> QED
    BY <1>4, <2>4 DEF enforce_lock, Data, files, kernel, ipcmds
<1>5. CASE enforce_loop(p)
  <2> DEFINE x == First(l.work)
             rest == [l EXCEPT !.work = @ \ {x}]
             made == [rest EXCEPT !.arg = x, !.caller = "enforce"]
  <2>1. x \in Profiles
    BY <1>0, <1>5, FirstIn DEF enforce_loop, Locals
  <2>2. rest \in Locals /\ made \in Locals /\ made.caller = "enforce"
    BY <1>0, <2>1 DEF Locals, Callers
  <2>3. /\ \/ move(p, "d_lock", made) \/ move(p, "c_lock", made) \/ move(p, "n_loop", rest)
        /\ pc[p] = "n_loop" /\ UNCHANGED lock
    BY <1>5 DEF enforce_loop, call, at
  <2> HIDE DEF rest, made
  <2>4. Control'
    BY <2>2, <2>3, Loops
  <2> QED
    BY <1>5, <2>4 DEF enforce_loop, Data, files, kernel, ipcmds
<1>6. CASE enforce_return(p)
  <2> DEFINE m == [l EXCEPT !.after = "idle"]
  <2>1. m \in Locals /\ m.after = "idle"
    BY <1>0 DEF Locals
  <2>2. move(p, "p_check", m) /\ release(p)
    BY <1>6 DEF enforce_return
  <2> HIDE DEF m
  <2>3. LevelAt("p_check", m) = Level(p) - 1 /\ "p_check" \in Steps
    BY <1>0, <1>6, <2>1, LevelOf DEF enforce_return, at, PushLevel, Steps, FreeSteps
  <2>4. Control'
    BY <2>1, <2>2, <2>3, Leaves
  <2> QED
    BY <1>6, <2>4 DEF enforce_return, Data, files, kernel, ipcmds
<1> QED
  BY <1>2, <1>3, <1>4, <1>5, <1>6

LEMMA RecoverInv ==
    ASSUME Control, Data, NEW p \in Proc,
           \/ recover_lock(p) \/ recover_start(p) \/ recover_loop(p) \/ recover_dial(p)
           \/ recover_switch(p) \/ recover_return(p)
    PROVE  Control' /\ Data'
<1> USE DEF LoopSteps
<1> DEFINE l == loc[p]
           s == selected_profile(l.view, marker)
<1>0. l \in Locals /\ Level(p) = LevelAt(pc[p], l)
  BY DEF Control, Level
<1>1. l.view \in Config /\ s \in Profiles \cup {None}
  BY <1>0, Selected DEF Locals, Data
<1>2. CASE recover_lock(p)
  <2>1. LevelAt("r_start", l) = Level(p) + 1 /\ "r_start" \in Steps
    BY <1>0, <1>2, LevelOf DEF recover_lock, enter, at, Steps
  <2>2. Control'
    BY <1>0, <1>2, <2>1, Enters DEF recover_lock, enter, goto
  <2> QED
    BY <1>2, <2>2 DEF recover_lock, enter, Data, files, kernel, ipcmds
<1>3. CASE recover_start(p)
  <2> DEFINE cur == IF s # None THEN s ELSE First(l.view.on)
             none == [l EXCEPT !.success = FALSE]
             m == [l EXCEPT !.current = cur, !.genuine = s # None,
                            !.work = IF l.view.failover THEN l.view.on ELSE {cur},
                            !.success = FALSE]
  <2>1. none \in Locals
    BY <1>0 DEF Locals
  <2>2. l.view.on # {} => m \in Locals
    <3>1. l.view.on \subseteq Profiles
      BY <1>1 DEF Config
    <3>2. l.view.on # {} => cur \in Profiles
      BY <1>1, <3>1, FirstIn
    <3> HIDE DEF cur
    <3> QED
      BY <1>0, <3>1, <3>2 DEF Locals
  <2>3. /\ IF l.view.on = {} THEN move(p, "r_out", none) ELSE move(p, "r_loop", m)
        /\ pc[p] = "r_start" /\ UNCHANGED lock
    BY <1>3 DEF recover_start, at
  <2> HIDE DEF none, m
  <2>4. Control'
    BY <2>1, <2>2, <2>3, Loops
  <2> QED
    BY <1>3, <2>4 DEF recover_start, Data, files, kernel, ipcmds
<1>4. CASE recover_loop(p)
  <2> DEFINE x == next_candidate(l)
             made == [[l EXCEPT !.work = @ \ {x}] EXCEPT !.arg = x, !.caller = "recover"]
  <2>1. CASE l.work = {}
    <3>1. Control'
      BY <1>0, <1>4, <2>1, Loops DEF recover_loop, at, goto
    <3> QED
      BY <1>4, <3>1 DEF recover_loop, Data, files, kernel, ipcmds
  <2>2. CASE l.work # {}
    <3>1. x \in Profiles
      BY <1>0, <2>2, FirstIn DEF next_candidate, Locals
    <3>2. made \in Locals /\ made.caller = "recover"
      BY <1>0, <3>1 DEF Locals, Callers
    <3>3. /\ move(p, "d_lock", made) \/ move(p, "c_lock", made) \/ move(p, "r_switch", made)
          /\ pc[p] = "r_loop" /\ UNCHANGED lock
      BY <1>4, <2>2 DEF recover_loop, call, at
    <3> HIDE DEF made
    <3>4. Control'
      BY <3>2, <3>3, Loops
    <3> QED
      BY <1>4, <3>4 DEF recover_loop, Data, files, kernel, ipcmds
  <2> QED
    BY <2>1, <2>2
<1>5. CASE recover_dial(p)
  <2> DEFINE m == [l EXCEPT !.arg = l.arg, !.caller = "recover"]
  <2>0. m \in Locals /\ m.caller = "recover"
    BY <1>0 DEF Locals, Callers
  <2>2. move(p, "c_lock", m) /\ pc[p] = "r_dial" /\ UNCHANGED lock
    BY <1>5 DEF recover_dial, call, at
  <2> HIDE DEF m
  <2>1. Control'
    BY <2>0, <2>2, Loops
  <2> QED
    BY <1>5, <2>1 DEF recover_dial, Data, files, kernel, ipcmds
<1>6. CASE recover_switch(p)
  <2> DEFINE m == [l EXCEPT !.success = TRUE]
             made == [m EXCEPT !.arg = m.arg, !.caller = "recover"]
  <2>1. m \in Locals
    BY <1>0 DEF Locals
  <2>2. /\ move(p, "r_out", m) \/ move(p, "s_lock", made)
        /\ pc[p] = "r_switch" /\ UNCHANGED lock
    BY <1>6 DEF recover_switch, call, at
  <2> HIDE DEF m
  <2>3. made \in Locals /\ made.caller = "recover"
    BY <2>1 DEF Locals, Callers
  <2> HIDE DEF made
  <2>4. Control'
    BY <2>1, <2>2, <2>3, Loops
  <2> QED
    BY <1>6, <2>4 DEF recover_switch, Data, files, kernel, ipcmds
<1>7. CASE recover_return(p)
  <2>1. LevelAt("n_lock", l) = Level(p) - 1 /\ "n_lock" \in Steps
    BY <1>0, <1>7, LevelOf DEF recover_return, at, Steps, LockSteps
  <2>2. Control'
    BY <1>0, <1>7, <2>1, Leaves DEF recover_return, goto
  <2> QED
    BY <1>7, <2>2 DEF recover_return, Data, files, kernel, ipcmds
<1> QED
  BY <1>2, <1>3, <1>4, <1>5, <1>6, <1>7


-----------------------------------------------------------------------------
(***************************************************************************)
(* Requests, edits and the environment                                     *)
(***************************************************************************)

LEMMA SpentType ==
    ASSUME Data
    PROVE  /\ [spent EXCEPT !.requests = @ + 1] \in
                [requests : Nat, edits : Nat, faults : Nat, pushes : Nat]
           /\ [spent EXCEPT !.edits = @ + 1] \in
                [requests : Nat, edits : Nat, faults : Nat, pushes : Nat]
           /\ [spent EXCEPT !.faults = @ + 1] \in
                [requests : Nat, edits : Nat, faults : Nat, pushes : Nat]
           /\ [spent EXCEPT !.pushes = @ + 1] \in
                [requests : Nat, edits : Nat, faults : Nat, pushes : Nat]
BY DEF Data

\* A request starts outside the lock.
LEMMA Starts ==
    ASSUME Control, NEW p \in Proc, pc[p] = "idle", NEW step, NEW l \in Locals,
           \/ step \in {"c_lock", "d_lock", "s_lock"} /\ l.caller \in {"api", "cli"}
           \/ step = "nft_probe" /\ l.ret = "idle"
           \/ step = "p_check" /\ l.after = "idle",
           move(p, step, l), UNCHANGED lock
    PROVE  Control'
<1>1. LevelAt(step, l) = Level(p) /\ step \in Steps
  BY LevelOf DEF Level, CallLevel, PushLevel, Steps, LockSteps, NftSteps, FreeSteps
<1> QED
  BY <1>1, Keeps

LEMMA RequestInv ==
    ASSUME Control, Data, NEW a \in Admins, admin_step(a)
    PROVE  Control' /\ Data'
<1> DEFINE m == fresh(a)
           made(x, who) == [m EXCEPT !.arg = x, !.caller = who]
<1>0. a \in Proc /\ m \in Locals
  <2>1. a \in Proc /\ cfg \in Config
    BY DEF Proc, Data
  <2>2. loc[a] \in Locals
    BY <2>1 DEF Control
  <2> QED
    BY <2>1, <2>2 DEF fresh, Locals
<1>1. CASE request_connect(a) \/ request_disconnect(a) \/ request_switch(a)
  <2>1. PICK x \in Profiles, who \in {"api", "cli"}, step \in {"c_lock", "d_lock", "s_lock"} :
          move(a, step, made(x, who))
    BY <1>1 DEF request_connect, request_disconnect, request_switch, call
  <2>2. made(x, who) \in Locals /\ made(x, who).caller = who
    <3> HIDE DEF m
    <3> QED
      BY <1>0 DEF Locals, Callers
  <2>3. /\ UNCHANGED <<files, kernel, lock, ipcmds, watch>> /\ pc[a] = "idle"
        /\ spent' = [spent EXCEPT !.requests = @ + 1]
    BY <1>1 DEF request_connect, request_disconnect, request_switch, request, at
  <2> HIDE DEF made
  <2>4. Control'
    BY <1>0, <2>1, <2>2, <2>3, Starts
  <2> QED
    BY <2>3, <2>4, SpentType DEF Data, files, kernel, ipcmds
<1>2. CASE request_reload(a)
  <2> DEFINE r == [m EXCEPT !.out = resolve_outbound(cfg), !.ret = "idle"]
  <2>1. resolve_outbound(cfg) \in Devices
    BY ResolveOutbound DEF Data
  <2>2. move(a, "nft_probe", r)
    BY <1>2 DEF request_reload, call_nft
  <2>3. r \in Locals /\ r.ret = "idle"
    <3> HIDE DEF m
    <3> QED
      BY <1>0, <2>1 DEF Locals, NftReturns
  <2>4. /\ UNCHANGED <<files, kernel, lock, ipcmds, watch>> /\ pc[a] = "idle"
        /\ spent' = [spent EXCEPT !.requests = @ + 1]
    BY <1>2 DEF request_reload, request, at
  <2> HIDE DEF r
  <2>5. Control'
    BY <1>0, <2>2, <2>3, <2>4, Starts
  <2> QED
    BY <2>4, <2>5, SpentType DEF Data, files, kernel, ipcmds
<1>3. CASE request_cleanup(a)
  <2>1. Control'
    BY <1>3, Stays DEF request_cleanup
  <2>2. nft' \in Rulesets /\ spent' \in [requests : Nat, edits : Nat, faults : Nat, pushes : Nat]
    BY <1>3, SpentType, NoTableType DEF request_cleanup, request
  <2> QED
    BY <1>3, <2>1, <2>2 DEF request_cleanup, Data, files, ipcmds
<1>4. CASE request_sync(a)
  <2> DEFINE r == [m EXCEPT !.after = "idle"]
  <2>1. r \in Locals /\ r.after = "idle"
    <3> HIDE DEF m
    <3> QED
      BY <1>0 DEF Locals
  <2>2. /\ move(a, "p_check", r) /\ pc[a] = "idle"
        /\ UNCHANGED <<cfg, marker, applied, kernel, lock, ipcmds, watch>>
        /\ spent' = [spent EXCEPT !.requests = @ + 1]
    BY <1>4 DEF request_sync, request, at
  <2> HIDE DEF r
  <2>3. Control'
    BY <1>0, <2>1, <2>2, Starts
  <2>4. pushed' \subseteq Profiles
    BY <1>4 DEF request_sync, Data
  <2> QED
    BY <2>2, <2>3, <2>4, SpentType DEF Data, kernel, ipcmds
<1> QED
  BY <1>1, <1>2, <1>3, <1>4 DEF admin_step

\* Every handler that edits the configuration ends in apply_config_patch.
LEMMA EditStep == edit_step => \E c : edit(c)
BY DEF edit_step, set_profile_enabled, save_settings, save_profile, save_routing_settings

\* An edit produces one of the configurations the bound allows.
LEMMA EditInv ==
    ASSUME Control, Data, edit_step
    PROVE  Control' /\ Data'
<1>1. PICK c : edit(c)
  BY EditStep
<1>2. cfg' \in Config
  BY <1>1, UpstreamAssumption DEF edit
<1> QED
  BY <1>1, <1>2, Stays, SpentType DEF edit, Data, kernel, ipcmds

LEMMA EnvironmentInv ==
    ASSUME Control, Data, environment
    PROVE  Control' /\ Data'
<1>1. CASE server_outage
  BY <1>1, Stays, SpentType DEF server_outage, fault, Data, files, ipcmds
<1>2. CASE tunnel_dies
  BY <1>2, Stays, SpentType, PurgeType DEF tunnel_dies, fault, Data, files, ipcmds
<1>3. CASE device_bounces
  BY <1>3, Stays, SpentType, PurgeType DEF device_bounces, fault, Data, files, ipcmds
<1>4. CASE record_vpnc_event
  BY <1>4, Stays, SpentType DEF record_vpnc_event, Data, kernel, ipcmds
<1>5. CASE settle_expires
  <2>1. watch' \in [fails : Nat, ever : BOOLEAN, settling : BOOLEAN, failed : SUBSET Profiles]
    BY <1>5 DEF settle_expires, Data
  <2> QED
    BY <1>5, <2>1, Stays DEF settle_expires, Data, files, kernel, ipcmds
<1>6. ASSUME NEW p \in Proc, process_dies(p)
      PROVE  Control' /\ Data'
  <2>1. Control'
    BY <1>6, Unwinds DEF process_dies, goto, Control
  <2>2. queue(p, {}, "none", own) /\ "none" \in Jobs
    BY <1>6 DEF process_dies, Jobs
  <2>3. job' \in [Proc -> [Targets -> Jobs]] /\ dev' \in [Proc -> [Targets -> Devices]]
    BY <2>2, QueueType
  <2> QED
    BY <1>6, <2>1, <2>3, SpentType, NoWatchType DEF process_dies, fault, Data, files, kernel
<1> QED
  BY <1>1, <1>2, <1>3, <1>4, <1>5, <1>6, NftInv DEF environment

-----------------------------------------------------------------------------
(***************************************************************************)
(* Theorems                                                                *)
(***************************************************************************)

LEMMA InitInv == Init => LockInv
<1> SUFFICES ASSUME Init PROVE LockInv
  OBVIOUS
<1>1. cfg \in Config /\ pushed \in SUBSET Profiles
  BY UpstreamAssumption DEF Init, Config
<1>2. resolve_outbound(cfg) \in Devices
  BY <1>1, ResolveOutbound
<1>3. nft \in Rulesets /\ saved \subseteq Targets
  BY <1>1, <1>2, RenderType, ListTargets DEF Init
<1>4. rules \subseteq Targets /\ routes \in [Targets -> Devices \cup {None}]
  BY <1>3 DEF Init, Devices
<1>5. Data
  <2>1. applied \subseteq Profiles
    BY <1>1 DEF Init, Config
  <2>2. job \in [Proc -> [Targets -> Jobs]] /\ dev \in [Proc -> [Targets -> Devices]]
    BY DEF Init, Jobs, Devices
  <2>3. spent \in [requests : Nat, edits : Nat, faults : Nat, pushes : Nat]
    BY DEF Init
  <2> QED
    BY <1>1, <1>3, <1>4, <2>1, <2>2, <2>3, NoWatchType DEF Init, Data
<1>6. Control
  <2>1. \A p \in Proc : Level(p) = 0 /\ p # None
    BY LevelOf, UpstreamAssumption DEF Init, Level, Proc
  <2> QED
    BY <2>1, NoLocalsType DEF Init, Control, LockDepth, Steps, FreeSteps
<1> QED
  BY <1>5, <1>6, LockInvParts

LEMMA StepInv == LockInv /\ [Next]_vars => LockInv'
<1> SUFFICES ASSUME LockInv, [Next]_vars PROVE LockInv'
  OBVIOUS
<1>0. Control /\ Data
  BY LockInvParts
<1>1. ASSUME NEW p \in Proc, proc_step(p) PROVE Control' /\ Data'
  <2>1. CASE watch_step(p)
    BY <1>0, <2>1, WatchInv, EnforceInv, RecoverInv DEF watch_step
  <2>2. CASE \E t \in Targets : ip_command(p, t)
    BY <1>0, <2>2, IpCommandInv
  <2> QED
    BY <1>0, <1>1, <2>1, <2>2, ConnectInv, PushInv, DisconnectInv, SwitchInv, NftInv
    DEF proc_step
<1>2. ASSUME UNCHANGED vars PROVE Control' /\ Data'
  BY <1>0, <1>2, Stays DEF vars, lock, Data
<1> QED
  BY <1>0, <1>1, <1>2, RequestInv, EditInv, EnvironmentInv, LockInvPartsNext DEF Next

\* The inductive invariant holds in every reachable state.
THEOREM LockInvariant == Spec => []LockInv
BY InitInv, StepInv, PTL DEF Spec

\* Every file, kernel object and local variable keeps its type; in particular
\* _lock_depth never goes below zero, whatever is raised, nested or killed.
THEOREM TypeCorrect == Spec => []TypeOK
<1>1. LockInv => TypeOK
  BY DEF LockInv
<1> QED
  BY <1>1, LockInvariant, PTL

\* _lock_depth is the number of _locked() blocks the process is inside of, and
\* the file is locked exactly while that is positive, for every nesting of
\* enforce, recover, connect, switch_profile and apply_server_routing_if_changed
\* and every way out of them.
THEOREM LockDepthCorrect == Spec => []LockDepth
<1>1. LockInv => LockDepth
  BY DEF LockInv
<1> QED
  BY <1>1, LockInvariant, PTL

\* No two processes are ever inside a _locked() block together.
THEOREM MutualExclusionHolds == Spec => []MutualExclusion
<1>1. LockInv => MutualExclusion
  BY DEF LockInv, LockDepth, MutualExclusion
<1> QED
  BY <1>1, LockInvariant, PTL

\* The lock file changes hands only through being free: taken by a process
\* that enters its outermost block, given up by the one that leaves it.
LEMMA OwnerStep ==
    ASSUME LockInv, [Next]_vars, owner' # owner
    PROVE  \E p \in Proc : \/ owner = None /\ owner' = p
                           \/ owner = p /\ owner' = None
<1>1. PICK p \in Proc : acquire(p) \/ release(p) \/ unwind(p)
  <2>1. ASSUME NEW p \in Proc, proc_step(p) PROVE acquire(p) \/ release(p) \/ unwind(p)
    <3>1. CASE connect_step(p)
      BY <3>1 DEF connect_step, connect_lock, connect_check, connect_dial, connect_verify,
         connect_route, connect_named, connect_raise, connect_return, enter, lock
    <3>2. CASE push_step(p)
      BY <3>2 DEF push_step, push_check, push_lock, push_mark, lock
    <3>3. CASE disconnect_step(p)
      BY <3>3 DEF disconnect_step, disconnect_lock, disconnect_check, disconnect_kill,
         disconnect_kill_raises, disconnect_select, disconnect_return, enter, lock
    <3>4. CASE switch_step(p)
      BY <3>4 DEF switch_step, switch_lock, switch_mark, switch_route, switch_return,
         switch_save, enter, lock
    <3>5. CASE nft_step(p)
      BY <3>5 DEF nft_step, nft_probe, nft_load, nft_stale, nft_save, lock
    <3>6. CASE watch_step(p)
      BY <3>6 DEF watch_step, watch_tick, watch_health, watch_ping, ensure_lock,
         ensure_return, enforce_lock, enforce_loop, enforce_return, recover_lock,
         recover_start, recover_loop, recover_dial, recover_switch, recover_return,
         enter, lock
    <3>7. CASE \E t \in Targets : ip_command(p, t)
      BY <3>7 DEF ip_command, lock
    <3> QED
      BY <2>1, <3>1, <3>2, <3>3, <3>4, <3>5, <3>6, <3>7 DEF proc_step
  <2>2. ASSUME NEW a \in Admins, admin_step(a) PROVE FALSE
    BY <2>2 DEF admin_step, request_connect, request_disconnect, request_switch,
       request_reload, request_cleanup, request_sync, lock
  <2>3. ~edit_step
    BY EditStep DEF edit, lock
  <2>4. CASE environment
    BY <2>4 DEF environment, server_outage, tunnel_dies, device_bounces,
       record_vpnc_event, settle_expires, process_dies, nft_load_fails, lock
  <2> QED
    BY <2>1, <2>2, <2>3, <2>4 DEF Next, vars
<1>2. depth[p] > 0 <=> owner = p
  BY DEF LockInv, LockDepth
<1>3. depth[p] \in Nat /\ p # None
  BY UpstreamAssumption DEF LockInv, TypeOK, Proc
<1>4. \/ owner = None /\ owner' = p
      \/ owner = p /\ owner' = None
  <2>1. CASE acquire(p)
    BY <1>2, <1>3, <2>1 DEF acquire
  <2>2. CASE release(p)
    BY <1>2, <1>3, <2>2 DEF release
  <2>3. CASE unwind(p)
    BY <1>2, <2>3 DEF unwind
  <2> QED
    BY <1>1, <2>1, <2>2, <2>3
<1> QED
  BY <1>4

\* Inside the blocks is whoever has locked the file.
LEMMA InsideOwns == LockInv => Inside = IF owner = None THEN {} ELSE {owner}
<1> SUFFICES ASSUME LockInv PROVE Inside = IF owner = None THEN {} ELSE {owner}
  OBVIOUS
<1>1. owner \in Proc \cup {None} /\ None \notin Proc
  BY UpstreamAssumption DEF LockInv, TypeOK, Proc
<1>2. \A p \in Proc : Level(p) > 0 <=> owner = p
  BY DEF LockInv, LockDepth
<1> QED
  BY <1>1, <1>2 DEF Inside

\* So the blocks are entered when the file is locked and left when it is free.
LEMMA InsideStep == LockInv /\ LockInv' /\ [Next]_vars => [Lock!Next]_Inside
<1> SUFFICES ASSUME LockInv, LockInv', [Next]_vars, Inside' # Inside PROVE Lock!Next
  OBVIOUS
<1>1. Inside = IF owner = None THEN {} ELSE {owner}
  BY InsideOwns
<1>2. (Inside = IF owner = None THEN {} ELSE {owner})'
  BY InsideOwns, PTL
<1>3. PICK p \in Proc : \/ owner = None /\ owner' = p
                        \/ owner = p /\ owner' = None
  BY <1>1, <1>2, OwnerStep
<1>4. p # None
  BY UpstreamAssumption DEF Proc
<1> QED
  BY <1>1, <1>2, <1>3, <1>4 DEF Lock!Next, Lock!Enter, Lock!Leave

\* The reentrant lock is a mutex: depth counters, nested calls, exceptions and
\* process deaths implement plain steps into and out of the protected blocks,
\* one process at a time.
THEOREM LockRefinement == Spec => LockImplementsMutex
<1>1. Init => Lock!Init
  <2>1. Init => LockInv
    BY InitInv
  <2>2. Init => owner = None
    BY DEF Init
  <2> QED
    BY <2>1, <2>2, InsideOwns DEF Lock!Init
<1> QED
  BY <1>1, LockInvariant, InsideStep, PTL DEF Spec, LockImplementsMutex, Lock!Spec

-----------------------------------------------------------------------------
(***************************************************************************)
(* NoDoubleDial.  The check and the dial are several commands apart (apply *)
(* runs between them), so the invariant covers the whole window.           *)
(***************************************************************************)

\* p has found its profile disconnected and is on its way to dialing it.
Dialing(p) == pc[p] = "c_dial" \/ (pc[p] \in NftSteps /\ loc[p].ret = "c_dial")

DialInv == \A p \in Proc : Dialing(p) => loc[p].arg \notin up

LEMMA DialingLocked ==
    ASSUME NEW p \in Proc, Dialing(p)
    PROVE  Level(p) > 0
BY LevelOf, LevelType DEF Dialing, Level, CallSteps, ConnectSteps

\* Only apply's own steps and the dial itself are in the window.
LEMMA NotDialing ==
    ASSUME LockInv, NEW p \in Proc, NEW step, NEW l \in Locals, move(p, step, l),
           step \notin NftSteps \cup {"c_dial"} \/ (step \in NftSteps /\ l.ret # "c_dial")
    PROVE  ~Dialing(p)'
<1>1. pc'[p] = step /\ (step # "idle" => loc'[p] = l)
  BY DEF move, LockInv, TypeOK
<1> QED
  BY <1>1 DEF Dialing, NftSteps

\* The window is entered by a check and left alone by apply.
LEMMA DialingStep ==
    ASSUME LockInv, NEW p \in Proc, proc_step(p) \/ nft_load_fails(p), Dialing(p)'
    PROVE  \/ loc'[p].arg \notin up /\ up' = up
           \/ Dialing(p) /\ loc'[p].arg = loc[p].arg /\ up' = up
<1> DEFINE l == loc[p]
<1>0. l \in Locals /\ pc \in [Proc -> Steps] /\ loc \in [Proc -> Locals]
  BY DEF LockInv, TypeOK
<1> USE DEF NftSteps
<1>1. CASE connect_step(p)
  <2>1. CASE connect_check(p)
    <3>1. CASE l.arg \in up
      BY <1>0, <2>1, <3>1, NotDialing DEF connect_check, goto
    <3>2. CASE l.arg \notin up
      <4> DEFINE m == [l EXCEPT !.is_act = (selected_profile(l.view, marker) = l.arg)]
                 n == [m EXCEPT !.out = active_interface(l.view, marker), !.ret = "c_dial"]
      <4>1. move(p, "nft_probe", n)
        BY <2>1, <3>2 DEF connect_check, call_nft
      <4>2. n.arg = l.arg
        BY <1>0 DEF Locals
      <4>3. loc'[p] = n
        <5> HIDE DEF n
        <5> QED
          BY <1>0, <4>1 DEF move
      <4> QED
        BY <2>1, <3>2, <4>2, <4>3 DEF connect_check, kernel
    <3> QED
      BY <3>1, <3>2
  <2>2. CASE connect_named(p)
    <3>1. [l EXCEPT !.after = "c_out"] \in Locals
      BY <1>0 DEF Locals
    <3> QED
      BY <2>2, <3>1, NotDialing DEF connect_named
  <2> QED
    BY <1>0, <1>1, <2>1, <2>2, NotDialing
    DEF connect_step, connect_lock, connect_dial, connect_verify,
        connect_route, connect_raise, connect_return, enter, goto
<1>2. CASE push_step(p)
  <2>1. CASE push_check(p)
    <3>1. [l EXCEPT !.print = fingerprint(l.view)] \in Locals /\ l.after \in {"c_out", "idle"}
      BY <1>0 DEF Locals, fingerprint, Config
    <3> QED
      BY <2>1, <3>1, NotDialing DEF push_check
  <2>2. CASE push_lock(p)
    <3> DEFINE m == [l EXCEPT !.out = active_interface(l.view, marker), !.ret = "p_mark"]
    <3>1. active_interface(l.view, marker) \in Devices
      BY <1>0, ActiveInterface DEF LockInv, TypeOK, Locals, Devices
    <3>2. m \in Locals /\ m.ret = "p_mark"
      BY <1>0, <3>1 DEF Locals, NftReturns
    <3>3. move(p, "nft_probe", m)
      BY <2>2 DEF push_lock, call_nft
    <3> HIDE DEF m
    <3> QED
      BY <3>2, <3>3, NotDialing
  <2>3. CASE push_mark(p)
    <3>1. l.after \in {"c_out", "idle"}
      BY <1>0 DEF Locals
    <3> QED
      BY <1>0, <2>3, <3>1, NotDialing DEF push_mark, goto
  <2> QED
    BY <1>2, <2>1, <2>2, <2>3 DEF push_step
<1>3. CASE disconnect_step(p)
  BY <1>0, <1>3, NotDialing
  DEF disconnect_step, disconnect_lock, disconnect_check, disconnect_kill,
      disconnect_kill_raises, disconnect_select, disconnect_return, enter, goto
<1>4. CASE switch_step(p)
  <2>1. CASE switch_mark(p)
    <3> DEFINE m == [l EXCEPT !.out = l.arg, !.ret = "s_route"]
    <3>1. m \in Locals /\ m.ret = "s_route"
      BY <1>0 DEF Locals, NftReturns, Devices
    <3>2. move(p, "nft_probe", m)
      BY <2>1 DEF switch_mark, call_nft
    <3> HIDE DEF m
    <3> QED
      BY <3>1, <3>2, NotDialing
  <2> QED
    BY <1>0, <1>4, <2>1, NotDialing
    DEF switch_step, switch_lock, switch_route, switch_return, switch_save, enter, goto
<1>5. CASE nft_step(p) \/ nft_load_fails(p)
  <2>1. pc[p] \in NftSteps /\ up' = up
    BY <1>5 DEF nft_step, nft_probe, nft_load, nft_stale, nft_save, nft_load_fails, at, kernel
  <2>2. \E m \in Locals : /\ m.ret = l.ret /\ m.arg = l.arg
                          /\ \/ \E step \in NftSteps : move(p, step, m)
                             \/ move(p, l.ret, m)
    <3>1. CASE nft_probe(p)
      <4> DEFINE m == [l EXCEPT !.targets = list_targets(l.view, pushed),
                                !.ready = (nft.sets = expected_set_names(l.view, pushed))]
      <4>1. list_targets(l.view, pushed) \subseteq Targets
        BY <1>0, ListTargets DEF Locals, LockInv, TypeOK
      <4>2. m \in Locals /\ m.ret = l.ret /\ m.arg = l.arg
        BY <1>0, <4>1 DEF Locals
      <4>3. move(p, "nft_load", m)
        BY <3>1 DEF nft_probe
      <4> HIDE DEF m
      <4> QED
        BY <4>2, <4>3
    <3>2. CASE nft_load(p)
      <4> DEFINE m == [l EXCEPT !.ok = TRUE]
      <4>1. m \in Locals /\ m.ret = l.ret /\ m.arg = l.arg
        BY <1>0 DEF Locals
      <4>2. move(p, "nft_stale", m)
        BY <3>2 DEF nft_load
      <4> HIDE DEF m
      <4> QED
        BY <4>1, <4>2
    <3>3. CASE nft_load_fails(p)
      <4> DEFINE m == [l EXCEPT !.ok = FALSE]
      <4>1. m \in Locals /\ m.ret = l.ret /\ m.arg = l.arg
        BY <1>0 DEF Locals
      <4>2. move(p, l.ret, m)
        BY <3>3 DEF nft_load_fails
      <4> HIDE DEF m
      <4> QED
        BY <4>1, <4>2
    <3>4. CASE nft_stale(p) \/ nft_save(p)
      BY <1>0, <3>4 DEF nft_stale, nft_save, goto
    <3> QED
      BY <1>5, <3>1, <3>2, <3>3, <3>4 DEF nft_step
  <2>3. PICK m \in Locals, step \in NftSteps \cup {l.ret} :
          m.ret = l.ret /\ m.arg = l.arg /\ move(p, step, m)
    BY <2>2
  <2>4. step # "idle"
    BY <1>0, <2>3 DEF Dialing, move
  <2>5. pc'[p] = step /\ loc'[p] = m
    BY <1>0, <2>3, <2>4 DEF move
  <2>6. l.ret = "c_dial"
    BY <2>3, <2>5 DEF Dialing
  <2> QED
    BY <2>1, <2>3, <2>5, <2>6 DEF Dialing
<1>6. CASE watch_step(p)
  <2>0. fresh(p) \in Locals
    BY <1>0 DEF fresh, Locals, LockInv, TypeOK
  <2>1. CASE watch_tick(p) \/ watch_health(p) \/ watch_ping(p)
    BY <1>0, <2>0, <2>1, NotDialing
    DEF watch_tick, watch_health, watch_ping, watch_verdict, goto
  <2>2. CASE \/ ensure_lock(p) \/ ensure_return(p) \/ enforce_lock(p) \/ enforce_loop(p)
             \/ enforce_return(p) \/ recover_lock(p) \/ recover_start(p) \/ recover_loop(p)
             \/ recover_dial(p) \/ recover_switch(p) \/ recover_return(p)
    <3>1. pc'[p] \notin NftSteps \cup {"c_dial"}
      BY <1>0, <2>2 DEF ensure_lock, ensure_return, enforce_lock, enforce_loop, enforce_return,
         recover_lock, recover_start, recover_loop, recover_dial, recover_switch,
         recover_return, enter, goto, call, move
    <3> QED
      BY <3>1 DEF Dialing
  <2> QED
    BY <1>6, <2>1, <2>2 DEF watch_step
<1>7. CASE \E t \in Targets : ip_command(p, t)
  BY <1>7 DEF ip_command, Dialing
<1> QED
  BY <1>1, <1>2, <1>3, <1>4, <1>5, <1>6, <1>7 DEF proc_step

\* A step of one process leaves the place and the locals of the others alone,
\* and only a dial brings a tunnel up.
LEMMA OneMoves ==
    ASSUME LockInv, NEW p \in Proc, proc_step(p) \/ nft_load_fails(p) \/ process_dies(p)
    PROVE  /\ \A q \in Proc \ {p} : pc'[q] = pc[q] /\ loc'[q] = loc[q]
           /\ up' \subseteq up \/ connect_dial(p)
<1>0. pc \in [Proc -> Steps] /\ loc \in [Proc -> Locals]
  BY DEF LockInv, TypeOK
<1> DEFINE Others == \A q \in Proc \ {p} : pc'[q] = pc[q] /\ loc'[q] = loc[q]
<1>1. \A step, l : move(p, step, l) => Others
  BY <1>0 DEF move
<1>2. UNCHANGED <<pc, loc>> => Others
  OBVIOUS
<1> HIDE DEF Others
<1>3. CASE connect_step(p)
  BY <1>1, <1>3 DEF connect_step, connect_lock, connect_check, connect_dial, connect_verify,
     connect_route, connect_named, connect_raise, connect_return, enter, call_nft, goto,
     kernel, Others
<1>4. CASE push_step(p)
  BY <1>1, <1>4 DEF push_step, push_check, push_lock, push_mark, call_nft, goto, kernel, Others
<1>5. CASE disconnect_step(p)
  BY <1>1, <1>5 DEF disconnect_step, disconnect_lock, disconnect_check, disconnect_kill,
     disconnect_kill_raises, disconnect_select, disconnect_return, enter, goto, kernel, Others
<1>6. CASE switch_step(p)
  BY <1>1, <1>6 DEF switch_step, switch_lock, switch_mark, switch_route, switch_return,
     switch_save, enter, call_nft, goto, kernel, Others
<1>7. CASE nft_step(p) \/ nft_load_fails(p) \/ process_dies(p)
  BY <1>1, <1>7 DEF nft_step, nft_probe, nft_load, nft_stale, nft_save, nft_load_fails,
     process_dies, goto, kernel, Others
<1>8. CASE watch_step(p)
  BY <1>1, <1>8 DEF watch_step, watch_tick, watch_health, watch_ping, watch_verdict,
     ensure_lock, ensure_return, enforce_lock, enforce_loop, enforce_return,
     recover_lock, recover_start, recover_loop, recover_dial, recover_switch,
     recover_return, enter, call, goto, kernel, Others
<1>9. CASE \E t \in Targets : ip_command(p, t)
  BY <1>2, <1>9 DEF ip_command, Others
<1> QED
  BY <1>3, <1>4, <1>5, <1>6, <1>7, <1>8, <1>9 DEF proc_step, Others

LEMMA DialStep == LockInv /\ DialInv /\ [Next]_vars => DialInv'
<1> SUFFICES ASSUME LockInv, DialInv, [Next]_vars, NEW q \in Proc, Dialing(q)'
             PROVE  loc'[q].arg \notin up'
  BY DEF DialInv
<1>0. pc \in [Proc -> Steps] /\ loc \in [Proc -> Locals]
  BY DEF LockInv, TypeOK
<1>1. ASSUME pc'[q] = pc[q], loc'[q] = loc[q], up' \subseteq up
      PROVE  loc'[q].arg \notin up'
  BY <1>1 DEF DialInv, Dialing
<1>2. ASSUME NEW p \in Proc, proc_step(p) \/ nft_load_fails(p) \/ process_dies(p)
      PROVE  loc'[q].arg \notin up'
  <2>1. CASE p = q
    <3>1. CASE process_dies(p)
      BY <1>0, <2>1, <3>1 DEF process_dies, goto, move, Dialing, NftSteps
    <3>2. CASE proc_step(p) \/ nft_load_fails(p)
      BY <2>1, <3>2, DialingStep DEF DialInv
    <3> QED
      BY <1>2, <3>1, <3>2
  <2>2. CASE p # q
    <3>1. pc'[q] = pc[q] /\ loc'[q] = loc[q]
      BY <1>2, <2>2, OneMoves
    <3>2. ~connect_dial(p)
      <4> SUFFICES ASSUME connect_dial(p) PROVE FALSE
        OBVIOUS
      <4>1. Dialing(p) /\ Dialing(q)
        BY <3>1 DEF connect_dial, at, Dialing
      <4>2. Level(p) > 0 /\ Level(q) > 0
        BY <4>1, DialingLocked
      <4> QED
        BY <2>2, <4>2 DEF LockInv, LockDepth
    <3> QED
      BY <1>1, <1>2, <3>1, <3>2, OneMoves
  <2> QED
    BY <2>1, <2>2
<1>3. ASSUME NEW a \in Admins, admin_step(a) PROVE loc'[q].arg \notin up'
  <2>0. a \in Proc
    BY DEF Proc
  <2>1. up' = up
    BY <1>3 DEF admin_step, request_connect, request_disconnect, request_switch,
       request_reload, request_cleanup, request_sync, kernel
  <2>2. CASE q # a
    <3>1. pc'[q] = pc[q] /\ loc'[q] = loc[q]
      BY <1>0, <1>3, <2>0, <2>2 DEF admin_step, request_connect, request_disconnect,
         request_switch, request_reload, request_cleanup, request_sync, call, call_nft, move
    <3> QED
      BY <1>1, <2>1, <3>1
  <2>3. CASE q = a
    <3>1. CASE request_reload(a)
      <4> DEFINE m == [fresh(a) EXCEPT !.out = resolve_outbound(cfg), !.ret = "idle"]
      <4>1. fresh(a) \in Locals
        <5>1. cfg \in Config /\ loc[a] \in Locals
          BY <1>0, <2>0 DEF LockInv, TypeOK
        <5> QED
          BY <5>1 DEF fresh, Locals
      <4>2. m.ret = "idle"
        BY <4>1 DEF Locals
      <4>3. move(a, "nft_probe", m)
        BY <3>1 DEF request_reload, call_nft
      <4> HIDE DEF m
      <4>4. pc'[a] = "nft_probe" /\ loc'[a] = m
        BY <1>0, <2>0, <4>3 DEF move
      <4> QED
        BY <2>3, <4>2, <4>4 DEF Dialing
    <3>2. CASE request_cleanup(a)
      BY <1>1, <2>1, <3>2 DEF request_cleanup
    <3>3. CASE request_connect(a) \/ request_disconnect(a) \/ request_switch(a) \/ request_sync(a)
      BY <1>0, <2>0, <2>3, <3>3 DEF request_connect, request_disconnect, request_switch,
         request_sync, call, move, Dialing, NftSteps
    <3> QED
      BY <1>3, <3>1, <3>2, <3>3 DEF admin_step
  <2> QED
    BY <2>2, <2>3
<1>4. CASE edit_step
  <2>1. PICK c : edit(c)
    BY <1>4, EditStep
  <2> QED
    BY <1>1, <2>1 DEF edit, kernel
<1>5. CASE \/ server_outage \/ tunnel_dies \/ device_bounces \/ record_vpnc_event
           \/ settle_expires \/ UNCHANGED vars
  BY <1>1, <1>5 DEF server_outage, tunnel_dies, device_bounces, record_vpnc_event,
     settle_expires, kernel, vars
<1> QED
  BY <1>2, <1>3, <1>4, <1>5 DEF Next, environment

\* connect never dials a profile whose tunnel exists: between the check and
\* the dial, apply runs several commands, and only the lock keeps every other
\* dial of that profile out of the window.
THEOREM NoDoubleDialHolds == Spec => []NoDoubleDial
<1>1. Init => DialInv
  BY DEF Init, DialInv, Dialing, NftSteps
<1>2. DialInv => NoDoubleDial
  BY DEF DialInv, NoDoubleDial, Dialing
<1> QED
  BY <1>1, <1>2, LockInvariant, DialStep, PTL DEF Spec
===============================================================================
