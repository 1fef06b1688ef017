-------------------------------- MODULE Mutex --------------------------------
(***************************************************************************)
(* What .upstream.lock promises to the processes that use it: the blocks   *)
(* it protects have one process inside at a time, which leaves before      *)
(* another enters.  Nesting is invisible.                                  *)
(***************************************************************************)
CONSTANT Proc

VARIABLE inside    \* the processes inside a protected block

Init == inside = {}

Enter(p) == inside = {} /\ inside' = {p}

Leave(p) == inside = {p} /\ inside' = {}

Next == \E p \in Proc : Enter(p) \/ Leave(p)

Spec == Init /\ [][Next]_inside
=============================================================================
