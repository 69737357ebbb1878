---------------------------- MODULE ClockRegistry ----------------------------
(***************************************************************************)
(* The list operations behind the component-clock registry of             *)
(* component.pyx, on a registry value `cc`: a function from instance id   *)
(* to its list of clocks, or None where `_COMPONENT_CLOCKS` has no key.    *)
(* The setup calls of MCPure apply them in turn, and a backtest round    *)
(* applies them while it walks the list that get_component_clocks         *)
(* returned.                                                               *)
(***************************************************************************)
EXTENDS Naturals, Sequences, SequencesExt

CONSTANT None

Returned(value) == [kind |-> "return", value |-> value]
Raised(error) == [kind |-> "raise", error |-> error]

(* Bug variant of ComponentClocksCopy: the registry's own list is         *)
(* returned, so the caller walks a list that registry calls still change. *)
ComponentClocksShared(cc, instance_id) ==
  IF cc[instance_id] = None THEN Raised("KeyError")
  ELSE [kind |-> "return", value |-> cc[instance_id], aliased |-> TRUE]

(* get_component_clocks: `_COMPONENT_CLOCKS[instance_id].copy()`.  A      *)
(* missing id raises KeyError; the list returned is a new one, so it is   *)
(* not the registry's (`aliased`) and later registry calls leave it be.   *)
ComponentClocksCopy(cc, instance_id) ==
  IF cc[instance_id] = None THEN Raised("KeyError")
  ELSE [kind |-> "return", value |-> cc[instance_id], aliased |-> FALSE]

(* Bug variant of ClocksAfterRegister: the membership test is dropped.    *)
ClocksAfterRegisterAlways(cc, instance_id, clock) ==
  LET clocks == IF cc[instance_id] = None THEN <<>> ELSE cc[instance_id] IN
  [cc EXCEPT ![instance_id] = Append(clocks, clock)]

(* register_component_clock: the list is created on first use; a clock   *)
(* already in it is not added again.                                      *)
ClocksAfterRegister(cc, instance_id, clock) ==
  LET clocks == IF cc[instance_id] = None THEN <<>> ELSE cc[instance_id] IN
  [cc EXCEPT ![instance_id] = IF clock \in ToSet(clocks) THEN clocks
                              ELSE Append(clocks, clock)]

(* deregister_component_clock: a missing id or clock is ignored; else     *)
(* `clocks.remove(clock)` takes out its first occurrence.                 *)
ClocksAfterDeregister(cc, instance_id, clock) ==
  IF cc[instance_id] = None THEN cc
  ELSE [cc EXCEPT ![instance_id] = RemoveFirstMatch(@, LAMBDA c : c = clock)]

(* remove_instance_component_clocks: `pop(instance_id, None)`.            *)
ClocksAfterRemove(cc, instance_id) == [cc EXCEPT ![instance_id] = None]
====
