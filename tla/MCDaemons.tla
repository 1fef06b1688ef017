------------------------------- MODULE MCDaemons -------------------------------
(***************************************************************************)
(* The long-running parts that share no state, for TLC: the web terminal,  *)
(* the host DNS guard, the store of server-pushed lists and the marks of   *)
(* the routing targets.  A behaviour runs one of them, from any of its     *)
(* initial states, while the others stay in one of theirs: their product   *)
(* would show nothing more.                                                *)
(***************************************************************************)
EXTENDS TerminalSessions, HostDns, PushedStore, RouteMarks, TLC

VARIABLE part    \* the part that runs

Init ==
    /\ part \in {"terminal", "host_dns", "pushed", "marks"}
    /\ TermInit /\ HostInit /\ PushedInit /\ MarkInit
    /\ part # "host_dns" => host_dns = "off" /\ port_53
    /\ part # "pushed" => published = NoLists

vars == <<part, termVars, hostVars, pushedVars, markVars>>

\* A step of the part that runs.
Terminal(A) == part = "terminal" /\ A /\ UNCHANGED <<part, hostVars, pushedVars, markVars>>
Host(A)     == part = "host_dns" /\ A /\ UNCHANGED <<part, termVars, pushedVars, markVars>>
Pushed(A)   == part = "pushed"   /\ A /\ UNCHANGED <<part, termVars, hostVars, markVars>>
MarksOf(A)  == part = "marks"    /\ A /\ UNCHANGED <<part, termVars, hostVars, pushedVars>>

Next == Terminal(TermNext) \/ Host(HostNext) \/ Pushed(PushedNext) \/ MarksOf(MarkNext)

\* TermFairness, HostFairness, PushedFairness and MarkFairness, each for the
\* behaviours that run its part.
Fairness ==
    /\ \A c \in Conns : WF_vars(Terminal(handler(c)))
    /\ \A c \in Conns : WF_vars(Terminal(writer_ends(c) /\ conn[c].client = "gone"))
    /\ \A a \in Actors : WF_vars(Host(HostStep(a)))
    /\ WF_vars(Host(guard_cycle \/ guard_restore))
    /\ WF_vars(Pushed(refresh_server_routes))
    /\ WF_vars(Pushed(SyncStep("watchdog")))
    /\ WF_vars(Pushed(SyncStep("manual")))
    /\ WF_vars(Pushed(save_handshake))
    /\ WF_vars(Pushed(tunnel_back))
    /\ WF_vars(Pushed(SyncTick))
    /\ WF_vars(MarksOf(ensure_policy_routing))
    /\ \A d \in TunDevices : WF_vars(MarksOf(dial(d)))

Spec == Init /\ [][Next]_vars /\ Fairness

(* Every part's state has its type. *)
DaemonsTypeOK == TermTypeOK /\ HostTypeOK /\ PushedTypeOK /\ MarkTypeOK
===============================================================================
