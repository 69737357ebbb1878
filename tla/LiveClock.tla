------------------------------ MODULE LiveClock ------------------------------
(***************************************************************************)
(* LiveClock (component.pyx): the Cython layer, which validates a call     *)
(* before handing it to the native clock, and the native clock, which is   *)
(* not in the repository and is modelled from the spec (sections 4.3,      *)
(* 4.3.2 and 5): the time is the wall clock, which is never at the UNIX   *)
(* epoch, and every timer has a task that sleeps until the timer's next    *)
(* fire time, calls the timer's callback (or the default handler) and     *)
(* moves on by one interval, until the stop time or cancellation.  A      *)
(* timer task fires on the executor that makes the calls, so a fire and a *)
(* call never overlap.                                                     *)
(*                                                                         *)
(* Times and intervals are uint64_t.  The Cython sum start_time_ns +       *)
(* interval_ns wraps modulo 2^Width; the native clock is exact.            *)
(***************************************************************************)
EXTENDS Naturals, Sequences, SequencesExt, FiniteSets

CONSTANTS
  Names,      \* timer names
  Parts,      \* name -> the pieces its text splits into on "<,>"
  Callbacks,  \* callables passed as callback or default handler
  None,
  Width,      \* bit width of uint64_t in the model
  StartTime,  \* the wall clock when the model starts
  MaxTime,    \* the wall clock is explored up to this time
  Times,      \* alert times given to set_time_alert_ns
  Starts,     \* start_time_ns values given to set_timer_ns
  Stops,      \* stop_time_ns values given to set_timer_ns
  Intervals   \* interval_ns values given to set_timer_ns

Modulus == 2 ^ Width

ASSUME /\ Times \cup Starts \cup Stops \cup Intervals \cup {MaxTime} \subseteq 0 .. Modulus - 1
       /\ StartTime \in 1 .. MaxTime
       /\ \A n \in Names : Parts[n] \in Seq(STRING \cup Names) /\ Parts[n] # <<>>

VARIABLES
  now,              \* live_clock_timestamp_ns: the wall clock
  timers,           \* name -> [next, interval, stop, callback] or None
  default_handler,
  outcome           \* "ok" or the error the last call raised

vars == <<now, timers, default_handler, outcome>>

(* `a + b` on two uint64_t in Cython.                                      *)
U64Add(a, b) == (a + b) % Modulus

Errors == {"DuplicateName", "InvalidArgument", "PastTime", "UnknownName",
           "NoHandler"}

Callback == Callbacks \cup {None}

(* The native timer record; interval 0 marks a one-shot alert.            *)
Timer(next, interval, stop, callback) ==
  [next |-> next, interval |-> interval, stop |-> stop, callback |-> callback]

HasHandler(callback) == callback # None \/ default_handler # None

(* The part of the state a call changes, as one record, so that           *)
(* cancel_timers can chain its cancel_timer calls.                        *)
Clock == [timers |-> timers]

Active(c) == {n \in Names : c.timers[n] # None}

(* timer_names: the native names joined with "<,>", split again by        *)
(* Cython, so a name holding the delimiter comes back as its pieces.      *)
TimerNamesOf(c) == UNION {ToSet(Parts[n]) : n \in Active(c)}

TimerNames == TimerNamesOf(Clock)

Installed(c, name, timer) == [c EXCEPT !.timers[name] = timer]

Removed(c, name) == [c EXCEPT !.timers[name] = None]

(* live_clock_cancel_timer: the task of the named timer is cancelled; a   *)
(* name with no timer changes nothing.                                    *)
NativeCancel(c, name) == IF name \in Active(c) THEN Removed(c, name) ELSE c

Finish(result, c) ==
  /\ outcome' = result
  /\ timers' = c.timers
  /\ UNCHANGED <<now, default_handler>>

-----------------------------------------------------------------------------
Init ==
  /\ now = StartTime
  /\ timers = [n \in Names |-> None]
  /\ default_handler = None
  /\ outcome = "ok"

(* The wall clock moves on.                                               *)
Tick ==
  /\ now < MaxTime
  /\ now' = now + 1
  /\ UNCHANGED <<timers, default_handler, outcome>>

(* register_default_handler: last writer wins.                            *)
RegisterDefaultHandler(callback) ==
  /\ default_handler' = callback
  /\ outcome' = "ok"
  /\ UNCHANGED <<now, timers>>

(* timestamp_ns, which the Cython checks read as ts_now.                  *)
TimestampNs == now

(* live_clock_set_time_alert on clock c: names are unique, a handler is   *)
(* needed, and with allow_past a past alert time is moved up to now.      *)
NativeSetTimeAlert(c, name, alert_time_ns, callback) ==
  CASE name \in Active(c)        -> <<"DuplicateName", c>>
    [] ~HasHandler(callback)     -> <<"NoHandler", c>>
    [] OTHER -> <<"ok", Installed(c, name,
                     Timer(IF alert_time_ns < now THEN now ELSE alert_time_ns,
                           0, 0, callback))>>

(* LiveClock.set_time_alert_ns on clock c: Cython raises on a name in     *)
(* timer_names and, without allow_past, on a past alert time.             *)
AlertNs(c, name, alert_time_ns, callback, allow_past) ==
  CASE name \in TimerNamesOf(c)                 -> <<"DuplicateName", c>>
    [] ~allow_past /\ alert_time_ns < TimestampNs -> <<"PastTime", c>>
    [] OTHER -> NativeSetTimeAlert(c, name, alert_time_ns, callback)

SetTimeAlertNs(name, alert_time_ns, callback, allow_past) ==
  LET r == AlertNs(Clock, name, alert_time_ns, callback, allow_past)
  IN  Finish(r[1], r[2])

(* LiveClock.next_time_ns: the next fire time of a timer, 0 if none.      *)
NextTimeNs(c, name) == IF c.timers[name] = None THEN 0 ELSE c.timers[name].next

(* Condition.valid_string, not in the repository: spec 7 rejects an      *)
(* empty or all-whitespace string, " " standing for the latter.           *)
ValidString(s) == s \notin {"", " "}

(* LiveClock.cancel_timer on clock c: the name must be a valid string and *)
(* in timer_names.                                                        *)
CancelCall(c, name) ==
  CASE ~ValidString(name)           -> <<"InvalidArgument", c>>
    [] name \notin TimerNamesOf(c) -> <<"UnknownName", c>>
    [] OTHER                       -> <<"ok", NativeCancel(c, name)>>

(* Bug variant of SetTimeAlert: override is ignored.                      *)
SetTimeAlertIgnoringOverride(name, alert_time, callback, override, allow_past) ==
  LET r == AlertNs(Clock, name, alert_time, callback, allow_past)
  IN  Finish(r[1], r[2])

(* Clock.set_time_alert: with override, cancel_timer first when           *)
(* next_time_ns(name) > 0 (its raise ends the call), then                 *)
(* set_time_alert_ns.                                                     *)
SetTimeAlert(name, alert_time, callback, override, allow_past) ==
  LET cancelled == IF override /\ NextTimeNs(Clock, name) > 0
                     THEN CancelCall(Clock, name) ELSE <<"ok", Clock>>
      r == IF cancelled[1] # "ok" THEN cancelled
           ELSE AlertNs(cancelled[2], name, alert_time, callback, allow_past)
  IN  Finish(r[1], r[2])

(* live_clock_set_timer: the validation of spec 4.3 on a start of 0       *)
(* replaced by now, in exact arithmetic; with allow_past a past first     *)
(* fire is moved up to now.                                               *)
NativeSetTimer(name, interval_ns, start_time_ns, stop_time_ns, callback, allow_past, fire_immediately) ==
  LET start == IF start_time_ns = 0 THEN now ELSE start_time_ns
      first == IF fire_immediately THEN start ELSE start + interval_ns
  IN  CASE name \in Active(Clock)                                -> <<"DuplicateName", Clock>>
        [] stop_time_ns # 0 /\ ~(stop_time_ns > now)             -> <<"InvalidArgument", Clock>>
        [] stop_time_ns # 0 /\ start + interval_ns > stop_time_ns -> <<"InvalidArgument", Clock>>
        [] ~allow_past /\ first < now                            -> <<"PastTime", Clock>>
        [] ~HasHandler(callback)                                 -> <<"NoHandler", Clock>>
        [] OTHER -> <<"ok", Installed(Clock, name,
                         Timer(IF first < now THEN now ELSE first, interval_ns,
                               stop_time_ns, callback))>>

(* LiveClock.set_timer_ns: Cython raises on a name in timer_names, on a   *)
(* zero interval and, without allow_past and only for a start that is     *)
(* set, on a first fire time before now, computed in uint64_t.            *)
SetTimerNs(name, interval_ns, start_time_ns, stop_time_ns, callback, allow_past, fire_immediately) ==
  LET next_event_time == IF fire_immediately THEN start_time_ns
                         ELSE U64Add(start_time_ns, interval_ns)
      r == CASE name \in TimerNames -> <<"DuplicateName", Clock>>
             [] interval_ns = 0     -> <<"InvalidArgument", Clock>>
             [] ~allow_past /\ start_time_ns # 0 /\ next_event_time < TimestampNs
                                    -> <<"PastTime", Clock>>
             [] OTHER -> NativeSetTimer(name, interval_ns, start_time_ns, stop_time_ns,
                                        callback, allow_past, fire_immediately)
  IN  Finish(r[1], r[2])

CancelTimer(name) ==
  LET r == CancelCall(Clock, name) IN Finish(r[1], r[2])

(* The loop of cancel_timers: cancel_timer on each listed name, each call *)
(* reading timer_names afresh; the first that raises ends the loop.       *)
RECURSIVE CancelEach(_, _)
CancelEach(c, names) ==
  IF names = <<>> THEN <<"ok", c>>
  ELSE LET r == CancelCall(c, Head(names)) IN
       IF r[1] # "ok" THEN r ELSE CancelEach(r[2], Tail(names))

(* LiveClock.cancel_timers: the loop over timer_names, which is sorted;   *)
(* names are model values, and every order of them is the sorted order    *)
(* of some choice of their texts.                                         *)
CancelTimers ==
  \E names \in SetToSeqs(TimerNames) :
     LET r == CancelEach(Clock, names) IN Finish(r[1], r[2])

-----------------------------------------------------------------------------
(* A timer task wakes once the wall clock reaches its next fire time.     *)
IsDue(t) == t.next <= now

(* After a fire an alert is gone; a timer moves on by one interval and is *)
(* gone once that passes its stop time.                                   *)
Rescheduled(t) ==
  LET next == t.next + t.interval IN
  IF t.interval = 0 \/ (t.stop # 0 /\ next > t.stop) THEN None
  ELSE [t EXCEPT !.next = next]

(* The task of timer `name` fires: it calls the callback, else the       *)
(* default handler, and reschedules; the call itself changes no clock     *)
(* state here.                                                            *)
Fire(name) ==
  LET t     == timers[name]
      after == Rescheduled(t)
  IN
  /\ t # None
  /\ IsDue(t)
  /\ timers' = [timers EXCEPT ![name] = after]
  /\ UNCHANGED <<now, default_handler, outcome>>

Next ==
  \/ Tick
  \/ \E n \in Names : Fire(n)
  \/ \E cb \in Callbacks : RegisterDefaultHandler(cb)
  \/ \E n \in Names, t \in Times, cb \in Callback, ap \in BOOLEAN :
        SetTimeAlertNs(n, t, cb, ap)
  \/ \E n \in Names, t \in Times, cb \in Callback, ap \in BOOLEAN :
        SetTimeAlert(n, t, cb, TRUE, ap)
  \/ \E n \in Names, i \in Intervals, s \in Starts, e \in Stops, cb \in Callback,
        ap, fi \in BOOLEAN : SetTimerNs(n, i, s, e, cb, ap, fi)
  \/ \E n \in Names : CancelTimer(n)
  \/ CancelTimers

Spec == Init /\ [][Next]_vars

-----------------------------------------------------------------------------
(***************************************************************************)
(* Properties                                                              *)
(***************************************************************************)
(* Spec 4.3 and the set_time_alert docstring: with override=True an alert *)
(* of that name is replaced, so set_time_alert never fails on a duplicate *)
(* name.  The cancel it makes first runs only when next_time_ns(name) > 0 *)
(* and goes through cancel_timer's timer_names check.                     *)
OverrideReplaces ==
  [][\A n \in Names, t \in Times, cb \in Callback, ap \in BOOLEAN :
       SetTimeAlert(n, t, cb, TRUE, ap) => outcome' # "DuplicateName"]_vars

(* Spec 4.3: cancel_timers removes every timer.  It returns normally only *)
(* after every timer is gone.                                             *)
CancelTimersCancelsAll ==
  [][CancelTimers /\ outcome' = "ok" => \A n \in Names : timers'[n] = None]_vars
====
