----------------------------- MODULE MCLiveClock -----------------------------
(***************************************************************************)
(* LiveClock with two timer names and one callable.                       *)
(***************************************************************************)
EXTENDS LiveClock

CONSTANTS n1, n2, c1

(* Names without the "<,>" delimiter: each splits into itself.           *)
PlainParts == [n \in {n1, n2} |-> <<n>>]

(* n2 is a name like "x<,>y", which timer_names returns as "x" and "y".  *)
DelimitedParts == [n \in {n1, n2} |-> IF n = n2 THEN <<"x", "y">> ELSE <<n>>]
====
