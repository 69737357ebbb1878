------------------------------ MODULE TestClock ------------------------------
(***************************************************************************)
(* TestClock (component.pyx): the Cython layer, which validates every call *)
(* before it reaches the native clock, and the native clock itself, which  *)
(* is not in the repository and is modelled from the spec (section 4.3.1): *)
(* a virtual time `now`, timers by name in insertion order, a default      *)
(* handler, and advance_time, which returns the handlers of every fire up  *)
(* to the new time, sorted by fire time, ties in timer insertion order.    *)
(* The native clock checks only what the spec leaves to it: a duplicate    *)
(* name and a missing handler.  Spec 4.3 places the rest of the           *)
(* validation before the time source is touched, and `passed` records    *)
(* each call the Cython layer hands on, so that NativeAccepts can compare *)
(* the two.                                                                *)
(*                                                                         *)
(* Times and intervals are uint64_t.  The Cython arithmetic on them        *)
(* (`start_time_ns + interval_ns`) wraps modulo 2^Width; the native clock  *)
(* works in exact arithmetic, as it never reaches 2^64 by iteration.       *)
(***************************************************************************)
EXTENDS Naturals, Sequences, SequencesExt, FiniteSets

CONSTANTS
  Names,      \* timer names
  Callbacks,  \* callables passed as callback or default handler
  None,
  Width,      \* bit width of uint64_t in the model
  Times,      \* alert, set_time and advance times given to calls
  Starts,     \* start_time_ns values given to set_timer_ns
  Stops,      \* stop_time_ns values given to set_timer_ns
  Intervals,  \* interval_ns values given to set_timer_ns
  Truncating, \* intervals whose conversion from a timedelta loses 1 ns
  Parts       \* name -> the pieces its text splits into on "<,>"

Modulus == 2 ^ Width

ASSUME /\ Times \cup Starts \cup Stops \cup Intervals \subseteq 0 .. Modulus - 1
       /\ Truncating \subseteq Intervals \ {0, 1}
       /\ \A n \in Names : Parts[n] \in Seq(STRING \cup Names) /\ Parts[n] # <<>>

VARIABLES
  now,              \* current_ns of the native clock
  timers,           \* name -> [next, interval, stop, callback] or None
  order,            \* names of the timers in insertion order
  default_handler,
  handlers,         \* what the last call returned: advance_time's list
  outcome,          \* "ok" or the error the last call raised
  passed            \* history: the set call the last step handed to the
                    \* native clock, else None

vars == <<now, timers, order, default_handler, handlers, outcome, passed>>

(* `a + b` on two uint64_t in Cython.                                      *)
U64Add(a, b) == (a + b) % Modulus

Errors == {"DuplicateName", "InvalidArgument", "PastTime", "UnknownName",
           "NotMonotonic", "NoHandler"}

Callback == Callbacks \cup {None}

TimerNames == {n \in Names : timers[n] # None}

(* The timer_names property: the native clock joins the names of the      *)
(* active timers with "<,>" and Cython splits the text on "<,>" again, so *)
(* a name holding the delimiter comes back as its pieces.                 *)
TimerNamesOf(active) == UNION {ToSet(Parts[n]) : n \in active}

(* next_time_ns: the next fire time of a timer, 0 if there is none.       *)
NextTimeNs(name) == IF timers[name] = None THEN 0 ELSE timers[name].next

(* timer_count: the number of timers the native clock holds.             *)
TimerCount == Cardinality(TimerNames)

(* timestamp_ns, which the Cython checks read as ts_now.                  *)
TimestampNs == now

(* The native clock's timer record; interval 0 marks a one-shot alert.    *)
Timer(next, interval, stop, callback) ==
  [next |-> next, interval |-> interval, stop |-> stop, callback |-> callback]

(* A timer or alert with no callback needs a default handler.             *)
HasHandler(callback) == callback # None \/ default_handler # None

-----------------------------------------------------------------------------
(* The part of the state a clock call changes, as one record, so that a  *)
(* call made of two calls (cancel, then set) composes them.               *)
Clock == [timers |-> timers, order |-> order]

Active(c) == {n \in Names : c.timers[n] # None}

Installed(c, name, timer) ==
  [c EXCEPT !.timers[name] = timer, !.order = Append(@, name)]

(* Bug variant of Removed: the timer goes but its name stays in the      *)
(* insertion order.                                                       *)
RemovedKeepingOrder(c, name) == [c EXCEPT !.timers[name] = None]

(* test_clock_cancel_timer: the timer is gone.                            *)
Removed(c, name) ==
  [c EXCEPT !.timers[name] = None, !.order = SelectSeq(@, LAMBDA m : m # name)]

(* A set call as the native clock receives it, on clock c; an alert is a  *)
(* fire at its time with no interval and no stop.                         *)
NativeCall(c, alert, name, interval, start, stop, allow_past, fire_immediately) ==
  [alert |-> alert, name |-> name, interval |-> interval, start |-> start,
   stop |-> stop, allow_past |-> allow_past, fire_immediately |-> fire_immediately,
   present |-> name \in Active(c), now |-> now]

(* A call ends with its result (ok or the error raised), a clock and the  *)
(* set call, if any, that reached the native clock.                       *)
Finish(result, c, call) ==
  /\ outcome' = result
  /\ timers' = c.timers /\ order' = c.order
  /\ passed' = call
  /\ handlers' = <<>>
  /\ UNCHANGED <<now, default_handler>>

-----------------------------------------------------------------------------
Init ==
  /\ now = 0
  /\ timers = [n \in Names |-> None]
  /\ order = <<>>
  /\ default_handler = None
  /\ handlers = <<>>
  /\ outcome = "ok"
  /\ passed = None

(* register_default_handler: last writer wins.                            *)
RegisterDefaultHandler(callback) ==
  /\ default_handler' = callback
  /\ outcome' = "ok" /\ handlers' = <<>> /\ passed' = None
  /\ UNCHANGED <<now, timers, order>>

(* test_clock_set_time_alert: names are unique, a handler is needed, and  *)
(* a past alert time is moved up to now.                                  *)
NativeSetTimeAlert(c, name, alert_time_ns, callback, allow_past) ==
  LET call == NativeCall(c, TRUE, name, 0, alert_time_ns, 0, allow_past, TRUE) IN
  CASE name \in Active(c)    -> <<"DuplicateName", c, call>>
    [] ~HasHandler(callback) -> <<"NoHandler", c, call>>
    [] OTHER -> <<"ok", Installed(c, name,
                     Timer(IF alert_time_ns < now THEN now ELSE alert_time_ns,
                           0, 0, callback)), call>>

(* TestClock.set_time_alert_ns on clock c: a name in timer_names, then a  *)
(* past time without allow_past, raise in Cython.                         *)
AlertNs(c, name, alert_time_ns, callback, allow_past) ==
  CASE name \in TimerNamesOf(Active(c))             -> <<"DuplicateName", c, None>>
    [] ~allow_past /\ alert_time_ns < TimestampNs -> <<"PastTime", c, None>>
    [] OTHER -> NativeSetTimeAlert(c, name, alert_time_ns, callback, allow_past)

SetTimeAlertNs(name, alert_time_ns, callback, allow_past) ==
  LET r == AlertNs(Clock, name, alert_time_ns, callback, allow_past)
  IN  Finish(r[1], r[2], r[3])

(* TestClock.cancel_timer on clock c: the name must be in timer_names.    *)
CancelCall(c, name) ==
  IF name \in TimerNamesOf(Active(c)) THEN <<"ok", Removed(c, name)>>
                                      ELSE <<"UnknownName", c>>

(* Clock.set_time_alert: with override, cancel_timer first when           *)
(* next_time_ns(name) > 0 (its raise ends the call), then                 *)
(* set_time_alert_ns.                                                     *)
SetTimeAlert(name, alert_time, callback, override, allow_past) ==
  LET cancelled == IF override /\ NextTimeNs(name) > 0
                     THEN CancelCall(Clock, name) ELSE <<"ok", Clock>>
      r == IF cancelled[1] # "ok" THEN <<cancelled[1], cancelled[2], None>>
           ELSE AlertNs(cancelled[2], name, alert_time, callback, allow_past)
  IN  Finish(r[1], r[2], r[3])

(* Bug variant of StopChecked: a stop time equal to now is let through.   *)
StopCheckedAtNow(start, interval_ns, stop_time_ns, ts_now) ==
  stop_time_ns # 0 =>
    /\ stop_time_ns >= ts_now
    /\ U64Add(start, interval_ns) <= stop_time_ns

(* The two Condition.is_true checks of a set stop time, in uint64_t.      *)
StopChecked(start, interval_ns, stop_time_ns, ts_now) ==
  stop_time_ns # 0 =>
    /\ stop_time_ns > ts_now
    /\ U64Add(start, interval_ns) <= stop_time_ns

(* test_clock_set_timer: names are unique and a handler is needed; the    *)
(* first fire is start, or start + interval.                              *)
NativeSetTimer(name, interval_ns, start, stop_time_ns, callback, allow_past, fire_immediately) ==
  LET call  == NativeCall(Clock, FALSE, name, interval_ns, start, stop_time_ns,
                          allow_past, fire_immediately)
      first == IF fire_immediately THEN start ELSE start + interval_ns
  IN  CASE name \in TimerNames    -> <<"DuplicateName", Clock, call>>
        [] ~HasHandler(callback)  -> <<"NoHandler", Clock, call>>
        [] OTHER -> <<"ok", Installed(Clock, name,
                         Timer(first, interval_ns, stop_time_ns, callback)), call>>

(* TestClock.set_timer_ns: Cython checks the name, the interval, the stop *)
(* time and (without allow_past) the first fire time, all in uint64_t     *)
(* arithmetic, after replacing a zero start by now.                       *)
SetTimerNs(name, interval_ns, start_time_ns, stop_time_ns, callback, allow_past, fire_immediately) ==
  LET ts_now == TimestampNs
      start == IF start_time_ns = 0 THEN ts_now ELSE start_time_ns
      next_event_time == IF fire_immediately THEN start ELSE U64Add(start, interval_ns)
      r == CASE name \in TimerNamesOf(TimerNames)       -> <<"DuplicateName", Clock, None>>
             [] interval_ns = 0                         -> <<"InvalidArgument", Clock, None>>
             [] ~StopChecked(start, interval_ns, stop_time_ns, ts_now)
                                                        -> <<"InvalidArgument", Clock, None>>
             [] ~allow_past /\ next_event_time < ts_now -> <<"PastTime", Clock, None>>
             [] OTHER -> NativeSetTimer(name, interval_ns, start, stop_time_ns,
                                        callback, allow_past, fire_immediately)
  IN  Finish(r[1], r[2], r[3])

(* `<uint64_t>int(interval.total_seconds() * 1_000_000_000)`: the double  *)
(* product lies within one ulp of the exact nanoseconds and int()         *)
(* truncates, so for some intervals the result is one nanosecond short    *)
(* (timedelta(microseconds=65) gives 64999); Truncating names them.       *)
TotalSecondsToNanos(interval) ==
  IF interval \in Truncating THEN interval - 1 ELSE interval

(* Clock.set_timer: the interval converted as above; a missing start or   *)
(* stop (or one at the epoch) becomes 0 through `maybe_dt_to_unix_nanos(..) *)
(* or 0`; then set_timer_ns.                                              *)
SetTimer(name, interval, start_time, stop_time, callback, allow_past, fire_immediately) ==
  SetTimerNs(name, TotalSecondsToNanos(interval), start_time, stop_time, callback,
             allow_past, fire_immediately)

CancelTimer(name) ==
  LET r == CancelCall(Clock, name) IN Finish(r[1], r[2], None)

(* cancel_timers: every timer goes.                                       *)
CancelTimers ==
  Finish("ok", [timers |-> [n \in Names |-> None], order |-> <<>>], None)

(* set_time: the time is set, backwards too, and nothing fires.           *)
SetTime(to_time_ns) ==
  /\ now' = to_time_ns
  /\ outcome' = "ok" /\ handlers' = <<>> /\ passed' = None
  /\ UNCHANGED <<timers, order, default_handler>>

-----------------------------------------------------------------------------
(* The fire times of one timer up to to_time_ns, as the native clock      *)
(* steps it: next, next + interval, ... while not past to or past stop;   *)
(* an alert fires once.                                                   *)
RECURSIVE FireTimes(_, _, _, _)
FireTimes(next, interval, stop, to) ==
  IF next > to \/ (stop # 0 /\ next > stop) THEN <<>>
  ELSE <<next>> \o (IF interval = 0 THEN <<>>
                    ELSE FireTimes(next + interval, interval, stop, to))

(* TimeEventHandler(event, handler), the event cut down to the timer's    *)
(* name and its ts_event (= ts_init); the UUID is left out.               *)
TimeEventHandler(name, ts, callback) == [name |-> name, ts |-> ts, callback |-> callback]

(* The handler of each fire: the timer's callback, else the default.      *)
Fires(name, to) ==
  LET t == timers[name] IN
  [k \in 1 .. Len(FireTimes(t.next, t.interval, t.stop, to)) |->
     TimeEventHandler(name, FireTimes(t.next, t.interval, t.stop, to)[k],
                      IF t.callback # None THEN t.callback ELSE default_handler)]

(* Stable insertion by ts: after the last handler that fires no later.    *)
InsertByTs(acc, h) == InsertAt(acc, SelectLastInSeq(acc, LAMBDA x : x.ts <= h.ts) + 1, h)

(* The timer after its fires: an alert that fired is gone, a timer moves  *)
(* on by one interval per fire and is gone once past its stop time.       *)
Advanced(t, count) ==
  LET next == t.next + count * t.interval IN
  IF count > 0 /\ (t.interval = 0 \/ (t.stop # 0 /\ next > t.stop)) THEN None
  ELSE [t EXCEPT !.next = next]

(* advance_time: to_time_ns below the clock's time raises; otherwise the  *)
(* fires of every timer, taken in insertion order, are sorted by time and *)
(* returned as TimeEventHandlers, the timers step on, and with set_time   *)
(* the clock takes the new time.                                          *)
AdvanceTime(to_time_ns, set_time) ==
  IF to_time_ns < now
  THEN Finish("NotMonotonic", Clock, None)
  ELSE LET fires  == [n \in TimerNames |-> Fires(n, to_time_ns)]
           after  == [n \in Names |-> IF n \in TimerNames
                                        THEN Advanced(timers[n], Len(fires[n]))
                                        ELSE None]
       IN
       /\ handlers' = FoldLeft(LAMBDA acc, n : FoldLeft(InsertByTs, acc, fires[n]),
                               <<>>, order)
       /\ timers' = after
       /\ order' = SelectSeq(order, LAMBDA n : after[n] # None)
       /\ now' = IF set_time THEN to_time_ns ELSE now
       /\ outcome' = "ok" /\ passed' = None
       /\ UNCHANGED default_handler

Next ==
  \/ \E cb \in Callbacks : RegisterDefaultHandler(cb)
  \/ \E n \in Names, t \in Times, cb \in Callback, ap \in BOOLEAN :
        SetTimeAlertNs(n, t, cb, ap)
  \/ \E n \in Names, t \in Times, cb \in Callback, ap \in BOOLEAN :
        SetTimeAlert(n, t, cb, TRUE, ap)
  \/ \E n \in Names, i \in Intervals, s \in Starts, e \in Stops, cb \in Callback,
        ap, fi \in BOOLEAN : SetTimer(n, i, s, e, cb, ap, fi)
  \/ \E n \in Names : CancelTimer(n)
  \/ CancelTimers
  \/ \E t \in Times : SetTime(t)
  \/ \E t \in Times, st \in BOOLEAN : AdvanceTime(t, st)

Spec == Init /\ [][Next]_vars

-----------------------------------------------------------------------------
(***************************************************************************)
(* Properties                                                              *)
(***************************************************************************)
TypeOK ==
  /\ now \in Times
  /\ default_handler \in Callback
  /\ outcome \in {"ok"} \cup Errors
  /\ \A n \in Names :
       timers[n] = None \/
       timers[n] \in [next : Nat, interval : Nat, stop : Stops \cup {0}, callback : Callback]
  /\ order \in Seq(Names)
  /\ ToSet(order) = TimerNames /\ Len(order) = TimerCount

(* The validation list of spec 4.3, in exact arithmetic, of a set call    *)
(* as the native clock receives it: a new name, a positive interval for   *)
(* a timer, a stop after now and after the first interval, and without   *)
(* allow_past a first fire not before now.                                *)
SpecValid(p) ==
  LET first == IF p.fire_immediately THEN p.start ELSE p.start + p.interval IN
  /\ ~p.present
  /\ p.alert \/ p.interval > 0
  /\ p.stop # 0 => p.stop > p.now /\ p.start + p.interval <= p.stop
  /\ ~p.allow_past => first >= p.now

(* Spec 4.3 performs the validation before the time source is touched:   *)
(* every set call the Cython layer of set_time_alert_ns, set_timer_ns,    *)
(* set_time_alert and set_timer hands to the native clock passes it, the  *)
(* handler check aside, which Cython cannot make.  Its checks run in      *)
(* uint64_t on a start replaced by now and on a timer_names list split on *)
(* the delimiter, so they can let through what the list rejects.          *)
NativeAccepts == passed # None => SpecValid(passed)

(* Spec 4.3 and the set_time_alert docstring: with override=True an alert *)
(* of that name is replaced, so set_time_alert never fails on a duplicate *)
(* name.  It cancels only when next_time_ns(name) > 0.                    *)
OverrideReplaces ==
  [][\A n \in Names, t \in Times, cb \in Callback, ap \in BOOLEAN :
       SetTimeAlert(n, t, cb, TRUE, ap) => outcome' # "DuplicateName"]_vars

(* Spec 3/4.3: a timer set with a timedelta interval fires every          *)
(* interval, so the installed interval is the one asked for.              *)
IntervalKept ==
  [][\A n \in Names, i \in Intervals, s \in Starts, e \in Stops, cb \in Callback,
        ap, fi \in BOOLEAN :
       SetTimer(n, i, s, e, cb, ap, fi) /\ outcome' = "ok" =>
         timers'[n].interval = i]_vars
====
