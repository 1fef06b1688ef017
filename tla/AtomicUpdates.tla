---------------------------- MODULE AtomicUpdates ----------------------------
(***************************************************************************)
(* What a file that several processes rewrite whole promises to them: it   *)
(* changes by one update at a time, each made to the content of that       *)
(* moment, so that none is lost and none brings old lines back.  The       *)
(* promise ends when a process that takes no lock rewrites the file at the *)
(* same time as another one.                                               *)
(***************************************************************************)
CONSTANTS
    Updates,
    Updated(_, _, _)    \* an update makes the second content of the first

VARIABLES
    content,
    raced               \* a rewrite without the lock overlapped another

Init == raced = FALSE

Update ==
    /\ raced = FALSE /\ raced' = FALSE
    /\ content' # content
    /\ \E op \in Updates : Updated(op, content, content')

Race == raced' = TRUE

Next == Update \/ Race

Spec == Init /\ [][Next]_<<content, raced>>
===============================================================================
