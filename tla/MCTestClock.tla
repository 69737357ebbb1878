----------------------------- MODULE MCTestClock -----------------------------
(***************************************************************************)
(* TestClock with two timer names and one callable.                       *)
(***************************************************************************)
EXTENDS TestClock, TLC

CONSTANTS n1, n2, c1

(* Names without the "<,>" delimiter: each splits into itself.           *)
PlainParts == [n \in {n1, n2} |-> <<n>>]

(* Timer names are interchangeable: nothing but insertion order, kept in  *)
(* `order`, tells them apart.                                             *)
NameSymmetry == Permutations({n1, n2})
====
