------------------------------- MODULE MCPure -------------------------------
(***************************************************************************)
(* The pure operators over bounded inputs, one case per state: the dict  *)
(* round trip of every message over small sets of field values, and      *)
(* a backtest round over an instance's clocks after every short run of    *)
(* registry calls, with every call its handlers can make on the way.      *)
(* Next moves to any other case, so the reachable states are exactly the  *)
(* cases.                                                                  *)
(***************************************************************************)
EXTENDS Messages, SequencesExt

CONSTANTS
  Traders, Components, Types, Reasons, Uuids, Configs, Stamps,
  Instance,   \* the kernel instance id whose clocks a round walks
  RegClocks,  \* the clocks registered for it
  SetupLen    \* bound on the registry calls made before the round

CR == INSTANCE ClockRegistry

VARIABLE case

ShutdownCases ==
  {[kind |-> "shutdown", msg |-> ShutdownSystem(t, c, u, ts, r, k)] :
     t \in Traders, c \in Components, u \in Uuids, ts \in Stamps, r \in Reasons,
     k \in Uuids \cup {None}}

StateChangedCases ==
  {[kind |-> "state_changed",
    msg |-> ComponentStateChanged(t, c, ty, s, cfg, u, te, ti)] :
     t \in Traders, c \in Components, ty \in Types, s \in ComponentStates,
     cfg \in Configs, u \in Uuids, te, ti \in Stamps}

(* Registry calls on the instance, and what the time-event handler of a  *)
(* clock visited in the round may do to the instance's registration.     *)
RegistryCalls == [call : {"register", "deregister"}, clock : RegClocks] \cup {[call |-> "remove"]}
HandlerCalls  == [call : {"register", "deregister"}, clock : RegClocks] \cup {[call |-> "none"]}

Apply(cc, op) ==
  CASE op.call = "register"   -> CR!ClocksAfterRegister(cc, Instance, op.clock)
    [] op.call = "deregister" -> CR!ClocksAfterDeregister(cc, Instance, op.clock)
    [] op.call = "remove"     -> CR!ClocksAfterRemove(cc, Instance)
    [] OTHER                  -> cc

Setup(calls) == FoldLeft(Apply, [i \in {Instance} |-> None], calls)

(* The backtest's round, the caller of get_component_clocks: a Python for *)
(* loop over the list `it` returned, which reads the registry's own list  *)
(* when the two are one object; the handler of the k-th clock visited     *)
(* makes calls[k].  The clocks visited, in order.                         *)
RECURSIVE Round(_, _, _, _)
Round(cc, it, k, calls) ==
  LET walked == IF it.aliased THEN cc[Instance] ELSE it.value IN
  IF k > Len(walked) THEN <<>>
  ELSE <<walked[k]>> \o Round(Apply(cc, IF k <= Len(calls) THEN calls[k]
                                         ELSE [call |-> "none"]),
                              it, k + 1, calls)

(* Reference: the clocks registered after `calls`, as a set.              *)
RegisteredClocks(calls) ==
  FoldLeft(LAMBDA s, op : CASE op.call = "register"   -> s \cup {op.clock}
                            [] op.call = "deregister" -> s \ {op.clock}
                            [] OTHER                  -> {},
           {}, calls)

RoundCases ==
  [kind : {"round"}, setup : SeqOf(RegistryCalls, SetupLen),
   calls : [1 .. Cardinality(RegClocks) -> HandlerCalls]]

Cases == ShutdownCases \cup StateChangedCases \cup RoundCases

Init == case \in Cases

NextCase == case' \in Cases

Spec == Init /\ [][NextCase]_case

(* A ComponentStateChanged read back from its dict is the event it was:  *)
(* the state's name maps back to the same member for every state, and    *)
(* every field lands under its own key.  __eq__ compares event ids only,  *)
(* so `==` cannot tell.                                                    *)
ComponentStateChangedRoundTrip ==
  case.kind = "state_changed" =>
    ComponentStateChangedFromDict(ComponentStateChangedToDict(case.msg)) = case.msg

(* Spec 5: a ShutdownSystem read back from its dict is the command it     *)
(* was, its correlation id included.  __eq__ compares command ids only.   *)
ShutdownSystemRoundTrip ==
  case.kind = "shutdown" =>
    ShutdownSystemFromDict(ShutdownSystemToDict(case.msg)) = case.msg
(* A backtest round over an instance's clocks advances every clock that  *)
(* is registered when it starts exactly once, and no other, whatever the *)
(* handlers it runs register or deregister on the way: the copy taken by  *)
(* get_component_clocks keeps a clock registered mid-round for the next   *)
(* round, and a deregistration from skipping the clock after it, while   *)
(* register's membership test keeps a clock registered twice from being  *)
(* advanced twice.  A missing instance raises instead.                    *)
EachClockAdvancedOnce ==
  case.kind = "round" =>
    LET cc == Setup(case.setup)
        it == CR!ComponentClocksCopy(cc, Instance)
    IN  IF it.kind = "raise" THEN RegisteredClocks(case.setup) = {}
        ELSE LET advanced == Round(cc, it, 1, case.calls)
             IN  IsInjective(advanced) /\ ToSet(advanced) = RegisteredClocks(case.setup)
====
