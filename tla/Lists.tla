-------------------------------- MODULE Lists --------------------------------
(***************************************************************************)
(* The list comprehension [s[i] for i in ... if ...] and a loop that       *)
(* extends a list, as recursive functions so that they can be reasoned     *)
(* about.                                                                  *)
(***************************************************************************)
EXTENDS Integers, Sequences

\* The elements of s at the positions in I, among the first n of s.
only_upto(s, I) ==
    LET kept[n \in 0 .. Len(s)] ==
            IF n = 0 THEN <<>>
            ELSE IF n \in I THEN Append(kept[n - 1], s[n]) ELSE kept[n - 1]
    IN  kept

\* The elements of s at the positions in I, in their order.
only(s, I) == only_upto(s, I)[Len(s)]

\* The lists ss[1], ss[2], ... one after the other.
joined_upto(ss) ==
    LET all[n \in 0 .. Len(ss)] == IF n = 0 THEN <<>> ELSE all[n - 1] \o ss[n]
    IN  all
joined(ss) == joined_upto(ss)[Len(ss)]
===============================================================================
