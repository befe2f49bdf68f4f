------------------------------- MODULE MCLists -------------------------------
(* Heights for small lists. *)
EXTENDS WindowedLists

\* low items, high and low ones in turn, and high ones above low ones
ListHeights ==
  {[i \in 1..Supply |-> 1], [i \in 1..Supply |-> 1 + (i % 2)],
   [i \in 1..Supply |-> IF i < 4 THEN 2 ELSE 1]}

LowItems == {[i \in 1..Supply |-> 1]}
=============================================================================
