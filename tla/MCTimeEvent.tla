----------------------------- MODULE MCTimeEvent -----------------------------
(***************************************************************************)
(* Every TimeEvent over small sets of names, ids and timestamps, one per   *)
(* state, run through a pickle round trip.                                 *)
(***************************************************************************)
EXTENDS TimeEvent

VARIABLE event

Init == event \in Events
NextEvent == event' \in Events
Spec == Init /\ [][NextEvent]_event

(* The pickled and restored event is the same event: same name, id and    *)
(* timestamps, as the events a backtest stores and reloads need to be.    *)
(* TimeEvent.__eq__ compares ids only, so `==` cannot tell.               *)
PickleRoundTrip == RoundTrip(event) = event

====
