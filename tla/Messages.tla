------------------------------- MODULE Messages -------------------------------
(***************************************************************************)
(* The framework messages of messages.pyx, ShutdownSystem and              *)
(* ComponentStateChanged, as records, and their to_dict / from_dict.       *)
(* Identifiers are opaque validated strings: to_str gives the string back  *)
(* and the constructor takes it, so an identifier is its string here.  A  *)
(* UUID4 renders as tagged text and parses back.  A dict is a function on *)
(* its keys.                                                               *)
(***************************************************************************)
EXTENDS Naturals

CONSTANTS
  None,
  StateNames   \* the members of the ComponentState enum, by name

(* A member of the ComponentState enum (nexuscore.core.rust.common).     *)
Member(nm) == <<"ComponentState", nm>>

ComponentStates == {Member(nm) : nm \in StateNames}

(* _COMPONENT_STATE_MAP: the names the module spells out.                 *)
COMPONENT_STATE_MAP ==
  [nm \in {"PRE_INITIALIZED", "READY", "STARTING", "RUNNING", "STOPPING",
           "STOPPED", "RESUMING", "DEGRADING", "DEGRADED", "FAULTING",
           "FAULTED", "DISPOSING", "DISPOSED"} |-> Member(nm)]

(* _COMPONENT_STATE_STR_MAP = {v: k for k, v in ...items()}.              *)
COMPONENT_STATE_STR_MAP ==
  LET M == COMPONENT_STATE_MAP IN
  [v \in {M[k] : k \in DOMAIN M} |-> CHOOSE k \in DOMAIN M : M[k] = v]

(* _COMPONENT_STATE_STR_MAP.get(state, str(state)): a member missing from *)
(* the map prints as its number.                                          *)
StateToStr(state) ==
  IF state \in DOMAIN COMPONENT_STATE_STR_MAP THEN COMPONENT_STATE_STR_MAP[state]
  ELSE <<"int", state>>

UuidToStr(id) == <<"uuid4", id>>
UuidFromStr(s) == s[2]

(* dict.get(key): None for a missing key.                                 *)
Get(d, key) == IF key \in DOMAIN d THEN d[key] ELSE None

-----------------------------------------------------------------------------
(* ShutdownSystem.__init__; command_id, ts_init and correlation_id go to *)
(* the Command base.                                                      *)
ShutdownSystem(trader_id, component_id, command_id, ts_init, reason, correlation_id) ==
  [trader_id |-> trader_id, component_id |-> component_id, reason |-> reason,
   command_id |-> command_id, ts_init |-> ts_init, correlation_id |-> correlation_id]

(* ShutdownSystem.to_dict_c.                                              *)
ShutdownSystemToDict(obj) ==
  [type |-> "ShutdownSystem", trader_id |-> obj.trader_id,
   component_id |-> obj.component_id, reason |-> obj.reason,
   command_id |-> UuidToStr(obj.command_id), ts_init |-> obj.ts_init]

(* ShutdownSystem.from_dict_c: correlation_id only when the key holds a   *)
(* truthy value.                                                          *)
ShutdownSystemFromDict(values) ==
  ShutdownSystem(values["trader_id"], values["component_id"],
                 UuidFromStr(values["command_id"]), values["ts_init"], values["reason"],
                 IF Get(values, "correlation_id") \in {None, ""} THEN None
                 ELSE UuidFromStr(Get(values, "correlation_id")))

-----------------------------------------------------------------------------
(* ComponentStateChanged.__init__.                                        *)
ComponentStateChanged(trader_id, component_id, component_type, state, config, event_id, ts_event, ts_init) ==
  [trader_id |-> trader_id, component_id |-> component_id,
   component_type |-> component_type, state |-> state, config |-> config,
   event_id |-> event_id, ts_event |-> ts_event, ts_init |-> ts_init]

(* Bug variant of ComponentStateChangedToDict: the two timestamps under   *)
(* each other's key.                                                      *)
ComponentStateChangedToDictSwapped(obj) ==
  [type |-> "ComponentStateChanged", trader_id |-> obj.trader_id,
   component_id |-> obj.component_id, component_type |-> obj.component_type,
   state |-> StateToStr(obj.state), config |-> obj.config,
   event_id |-> UuidToStr(obj.event_id), ts_event |-> obj.ts_init, ts_init |-> obj.ts_event]

(* ComponentStateChanged.to_dict_c.                                       *)
ComponentStateChangedToDict(obj) ==
  [type |-> "ComponentStateChanged", trader_id |-> obj.trader_id,
   component_id |-> obj.component_id, component_type |-> obj.component_type,
   state |-> StateToStr(obj.state), config |-> obj.config,
   event_id |-> UuidToStr(obj.event_id), ts_event |-> obj.ts_event, ts_init |-> obj.ts_init]

(* ComponentStateChanged.from_dict_c: _COMPONENT_STATE_MAP[...] raises    *)
(* KeyError on a name it does not hold.                                   *)
ComponentStateChangedFromDict(values) ==
  IF values["state"] \notin DOMAIN COMPONENT_STATE_MAP THEN [error |-> "KeyError"]
  ELSE ComponentStateChanged(values["trader_id"], values["component_id"],
         values["component_type"], COMPONENT_STATE_MAP[values["state"]],
         values["config"], UuidFromStr(values["event_id"]),
         values["ts_event"], values["ts_init"])
====
