------------------------------ MODULE MCUpstream ------------------------------
(***************************************************************************)
(* Instances of Upstream for TLC: two profiles, the watchdog and one admin *)
(* process.                                                                *)
(***************************************************************************)
EXTENDS Upstream, TLC

CONSTANTS A, B    \* the two profiles, in list order

MC_Profiles == {A, B}
MC_Position == (A :> 0) @@ (B :> 1)

\* Both profiles enabled, A active, clients routed, A with lists of its own.
Base ==
    [enabled |-> TRUE, active |-> A, on |-> {A, B}, clients |-> {A}, hosts |-> {},
     accept |-> {}, client_traffic |-> TRUE, host_traffic |-> "off",
     failover |-> TRUE, connect_on_boot |-> TRUE]

\* No lists of their own; A's lists come from its server.
Plain   == [Base EXCEPT !.clients = {}]
Pushing == [Plain EXCEPT !.accept = {A}, !.failover = FALSE]

MC_Base      == {Base}
MC_Plain     == {Plain}
MC_Pushing   == {Pushing}
MC_Both      == {Plain, Pushing}
MC_Disabled  == {[Plain EXCEPT !.enabled = FALSE]}
MC_Manual    == {[Plain EXCEPT !.connect_on_boot = FALSE]}

\* One edit of each kind that changes the routing targets, the kill switch or
\* which tunnels are wanted.
MC_Edits ==
    {[Plain EXCEPT !.on = {B}], [Plain EXCEPT !.enabled = FALSE],
     [Plain EXCEPT !.clients = {A}], [Plain EXCEPT !.client_traffic = FALSE]}
MC_OneOff == {[Plain EXCEPT !.on = {B}]}
MC_Fixed  == {}
===============================================================================
