------------------------------ MODULE TimeEvent ------------------------------
(***************************************************************************)
(* TimeEvent (component.pyx): a Cython object around the native struct     *)
(* TimeEvent_t {name, event_id, ts_event, ts_init}, its pickle round trip  *)
(* through __getstate__ / __setstate__.  Unpickling makes the object with *)
(* `__new__`, whose memory the allocator zero-fills, and then calls       *)
(* __setstate__ on it.                                                     *)
(***************************************************************************)
EXTENDS Naturals

CONSTANTS Names, Ids, Stamps

(* time_event_new: the native struct.                                     *)
TimeEventNew(name, event_id, ts_event, ts_init) ==
  [name |-> name, event_id |-> event_id, ts_event |-> ts_event, ts_init |-> ts_init]

(* An object fresh from TimeEvent.__new__: every field of _mem is zero.   *)
ZeroName == ""
ZeroId == "nil-uuid"
Blank == TimeEventNew(ZeroName, ZeroId, 0, 0)

(* UUID4.value renders the id as text; uuid4_from_cstr parses it back.    *)
IdToStr(id) == <<"uuid4", id>>
StrToId(s) == s[2]

(* __getstate__: (name, id as text, ts_event, ts_init).                   *)
GetState(event) == <<event.name, IdToStr(event.event_id), event.ts_event, event.ts_init>>

(* __setstate__: name and id from the state, ts_event and ts_init read    *)
(* from the object being restored.                                        *)
SetState(self, state) ==
  TimeEventNew(state[1], StrToId(state[2]), self.ts_event, self.ts_init)

(* pickle.loads(pickle.dumps(event)).                                     *)
RoundTrip(event) == SetState(Blank, GetState(event))

Events == {TimeEventNew(n, i, te, ti) : n \in Names, i \in Ids, te, ti \in Stamps}
====
