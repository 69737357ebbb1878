# TLA+ models of nexuscore

These modules model the message bus, its topic matcher, the two clocks, the
component-clock registry and the `TimeEvent` pickle round trip of
`src/nexuscore/common/component.pyx`, and the framework messages of
`src/nexuscore/common/messages.pyx`. TLC checks them.

## The system

`component.pyx` holds four parts that interact:

| Part | State | Operations |
|---|---|---|
| `MessageBus` | `_endpoints`, `_patterns` (published topic → cached array of subscriptions), `_subscriptions` (subscription → topics recorded against it), `_correlation_index`, `_resolved`, four `uint64` counters | register, deregister, send, request, response, subscribe, unsubscribe, publish / publish_c, `_resolve_subscriptions` |
| `Subscription` | topic, handler, priority | equality on (topic, handler), ordering on priority only |
| `Clock` / `TestClock` / `LiveClock` | native clock state: time, timers, default handler | set_time_alert(_ns), set_timer(_ns), cancel_timer(s), next_time_ns, set_time, advance_time |
| component-clock registry | `_COMPONENT_CLOCKS` (instance id → list of clocks), the C global `FORCE_STOP` | register / deregister / remove clocks, set / query force stop |

`TimeEvent` and `TimeEventHandler` carry timer firings from a clock to the
handlers. `identifiers.pxd` holds stateless time conversions.
`messages.pyx` holds two immutable framework messages.

Everything runs on one thread. The concurrency that matters is re-entrance:
- handlers are called synchronously from inside `send`, `request`,
  `response` and `publish_c`;
- a handler may call any bus operation;
- a handler may raise, which ends the outer call part-way.

### Hard behaviours
- The two indexes `_patterns` and `_subscriptions` must stay in step:
  - `subscribe` edits the cached lists;
  - `publish_c` fills them lazily;
  - `unsubscribe` trusts the recorded topics.
- Cache staleness: `_resolved` is a single flag, and `publish_c`
  re-resolves only an empty list.
- Nested calls from handlers while an outer publish iterates its snapshot.
- Correlation ids: duplicated or early responses, duplicate requests, and
  requests to unknown endpoints.

## Modules

| Module | Models | Notes |
|---|---|---|
| `GlobMatch` | `is_matching` → native `is_matching_ffi` | The native matcher is not in the repository. It is modelled from the spec as the recursive glob `IsMatching` (`*` matches any run, `?` one character), which `MessageBus` calls. |
| `Messages` | `ShutdownSystem`, `ComponentStateChanged`, `_COMPONENT_STATE_MAP` | Constructors, `to_dict_c` and `from_dict_c` as operators. A dict is a function on its keys. |
| `MCPure` | — | One variable `case` ranging over tagged cases: every message over small field sets, and every backtest round over an instance's clocks (see below). Each invariant checks its kind of case. |
| `MessageBus` | `MessageBus`, `Subscription` | One action per bus method that changes state, plus dispatch steps. The read-only views (`endpoints`, `topics`, `subscriptions`, `has_subscribers`, `is_pending_request`, `is_streaming_type`) are operators on the state. |
| `MCMessageBus` | — | Topics, subscribers and handlers for TLC. |
| `TestClock` | `Clock.set_time_alert`, `Clock.set_timer`, `TestClock`, `TimeEventHandler` | The Cython validation of every call, and the native clock from spec 4.3.1. The validation reads `timestamp_ns` as `ts_now`, as the code does. |
| `MCTestClock` | — | Two timer names, one callable, a 4-bit (or 3-bit) `uint64_t`. |
| `LiveClock` | `Clock.set_time_alert`, `LiveClock` | The Cython validation, and the native timer tasks from spec 4.3.2 and 5. |
| `MCLiveClock` | — | Two timer names, one callable, the wall clock from 1 to 4. |
| `ClockRegistry` | the list operations of `get_component_clocks`, `register_component_clock`, `deregister_component_clock`, `remove_instance_component_clocks` | Operators on a registry value, which `MCPure` applies. |
| `TimeEvent` | `TimeEvent.__getstate__` / `__setstate__` | The pickle round trip as operators. |
| `MCTimeEvent` | — | Walks every event over two names, two ids and two timestamps. |

### How `MessageBus` corresponds to the code
- `subscriptions` is `_subscriptions`:
  - a sequence in dict-insertion order, because `_resolve_subscriptions`
    iterates it in that order and the sort is stable;
  - each element is `[sub, patterns]`, where `patterns` is the set of topics
    recorded against the subscription.
- `patterns` is `_patterns`, a function from published topic to a sequence
  of subscriptions.
- `endpoints` and `correlation_index` map to `None` where the dict has no key.
- The counters are `uint64_t` and are never read by the bus. They are kept
  modulo `CounterModulus` so that the state space stays finite.
- `stack` is the Python call stack of handler dispatch. Each frame holds:
  - the op;
  - the snapshot of callees;
  - the index `i` of the next callee;
  - whether a callee is running (`inside`).

  The dispatch steps:
  - `Invoke` calls the next callee.
  - `HandlerReturn` is a normal return.
  - `HandlerRaise` is an exception. It abandons the frame, so the rest of the
    snapshot is skipped and the counter is not incremented.
  - `FinishDispatch` ends the loop and increments the op's counter.
- A bus call is allowed at top level, or from inside the handler of the top
  frame (`CanCall`). That is exactly what re-entrance allows.
- `Subscribe` inserts into the cached list of each topic `p` with
  `is_matching(topic, p)`. This keeps the code's argument order: the new
  subscription's pattern is passed as the topic.
- `SortByPriority` is Python's stable `sorted(..., reverse=True)` under
  `Subscription.__lt__`.
- History variable `awaiting`: request ids whose stored callback has not
  yet been called.

### How the clocks correspond to the code
- The native clock is not in the repository. Its parts are modelled from the
  spec and are marked as such in `PROJECT.json`:
  - the timer records;
  - the duplicate-name and handler checks;
  - the move of a past first fire up to `now` under `allow_past`;
  - `advance_time`'s collection of fires (`FireTimes`, `InsertByTs`);
  - LiveClock's timer tasks (`IsDue`, `Rescheduled`, `Fire`);
  - `Condition.valid_string` (`ValidString`), which is not in the repository
    either: spec 7 rejects empty and all-whitespace strings.
- TestClock's native clock checks only a duplicate name and a missing
  handler. Spec 4.3 says the rest of the validation happens "before touching
  the time source", which in this code is the Cython layer. The history
  variable `passed` records each set call the Cython layer hands on, with the
  clock's time and whether the name was present. `NativeAccepts` compares it
  with the spec's list (`SpecValid`).
- LiveClock's native `set_timer` checks the stop time itself, because the
  Cython layer does not (its comment: "This will be validated by Rust").
- Every Cython method is one action. It keeps its checks in the code's order,
  each an arm of a `CASE` whose result is an error name or the new clock.
  `Finish` writes the result.
- `Clock` bundles the state a call changes. This lets `Clock.set_time_alert`
  (cancel, then set) and LiveClock's `cancel_timers` loop chain calls.
- `TimerNamesOf` is the `timer_names` property: the native names joined with
  `"<,>"` and split again. `Parts` gives the pieces each name splits into.
- Integer sizes:
  - The Cython sums `start_time_ns + interval_ns` are `uint64_t` and wrap:
    `U64Add`, modulo `2^Width`.
  - The native arithmetic is exact.
- `TotalSecondsToNanos` is `Clock.set_timer`'s `int(total_seconds() * 1e9)`.
  The constant `Truncating` lists the intervals that come out one nanosecond
  short.
- `TimeEventHandler` is the record `advance_time` builds for each fire:
  the event cut down to the timer name and `ts_event`, and the callback.
- `SetTimeAlert` is `Clock.set_time_alert`. With `override`, it first calls
  `cancel_timer` (`CancelCall`: `valid_string`, then the `timer_names`
  check) when `next_time_ns(name) > 0`. A raise there ends the call.
- LiveClock's wall clock starts at `StartTime` > 0. A wall clock read as
  nanoseconds since the UNIX epoch is never 0.
- LiveClock's `cancel_timers` is `CancelEach` over the sorted `timer_names`.
  Each step is a full `cancel_timer` call that reads `timer_names` again.
- `TimeEvent`:
  - `GetState` and `SetState` translate `__getstate__` and `__setstate__`.
  - The UUID is a tagged value that `IdToStr` and `StrToId` convert.

### The backtest round over an instance's clocks
A backtest advances every clock of a kernel instance through
`get_component_clocks(instance_id)`, which returns `.copy()` of the
registry's list "in case a new clock is registered during iteration". The
loop itself belongs to the caller and is not in the repository. `MCPure`
models it as the environment, in `Round`: a Python `for` loop over the list
returned. The loop reads the registry's own list when the two are one
object (`aliased`). The handler of the k-th clock visited may register or
deregister a clock of the same instance.

A round case holds:
- up to `SetupLen` (3) registry calls before the round;
- one handler call per visited clock.

`RegisteredClocks` is the reference: the set of clocks registered after the
setup calls, under plain set semantics.

## Runs

| Run | Result | What it shows |
|---|---|---|
| `pure` | pass | `ComponentStateChangedRoundTrip`: `from_dict(to_dict(e))` gives back every `ComponentStateChanged` over all 13 states. `EachClockAdvancedOnce`: a backtest round advances each clock registered at its start exactly once, and no other, whatever the handlers register or deregister on the way. This needs both the `.copy()` in `get_component_clocks` and the membership test in `register_component_clock`. About 4k states. |
| `pubsub` | pass | `TypeOK`. `CacheIndexConsistent`: a subscription is in a topic's cached list exactly when that topic is recorded against it. `DispatchFollowsSubscriptions`: each publish calls current matching subscribers, each once, in priority order, including every exact-topic subscriber. About 102k states. |
| `cache_stale` | violation | `DispatchReachesEverySubscriber`, the spec's promise. It fails: `publish(ab)` with no subscribers, then `subscribe(ab, h1)`, `subscribe(a*, h1)`, then `publish(ab)` calls only the `ab` handler. |
| `reqrep` | pass | `CallbackAtMostOnce`: a stored callback runs at most once per request. This holds with duplicated responses, responses from inside the endpoint handler, and re-registration. `add_streaming_type` is fired here too. About 386k states. |
| `testclock` | pass | `TypeOK`. `NativeAccepts`: every set call that the Cython checks of `set_time_alert(_ns)` and `set_timer(_ns)` hand to the native clock passes spec 4.3's list in exact arithmetic, the handler check aside. This covers a start of 0 replaced by now, `set_time` moving the clock backwards, and override. At `Width` 4 no sum wraps. About 9k states. |
| `timer_wrap` | violation | `NativeAccepts` at `Width` 3. At time 0, `set_timer_ns(start 6, interval 3, stop 6)` passes the Cython stop check on the wrapped sum `6 + 3 = 1` and reaches the native clock. |
| `override_epoch` | violation | `OverrideReplaces` on TestClock. An alert set for time 0 at time 0 has `next_time_ns` 0, so `set_time_alert(..., override=True)` does not cancel it and raises on the duplicate name. |
| `interval_trunc` | violation | `IntervalKept`: `set_timer` installs an interval one nanosecond short for a truncating timedelta. |
| `liveclock` | pass | `OverrideReplaces` on LiveClock: the wall clock is past the epoch, so every timer's next time is positive, and override always cancels the old alert through `cancel_timer` first. About 5k states. |
| `delimiter` | violation | `CancelTimersCancelsAll`. For a name like `x<,>y`, `cancel_timers` cancels the pieces `x` and `y`, which both pass `cancel_timer`'s checks and which the native clock ignores. It returns normally with that timer still running. |
| `pickle` | violation | `PickleRoundTrip`: an unpickled `TimeEvent` has both timestamps 0. |
| `shutdown_dict` | violation | `ShutdownSystemRoundTrip`: `ShutdownSystem.to_dict` drops `correlation_id`, so `from_dict(to_dict(c))` loses it. |

### Bounds
- `pubsub`:
  - two handlers;
  - subscriptions `ab`/h1, `a*`/h1 and `ab`/h2;
  - published topics `ab` and `ac`;
  - priorities {0,1};
  - `MaxDepth` 1: calls from inside a handler are allowed, but they cannot
    start a nested dispatch.

  This is the smallest setting with:
  - a wildcard that matches a literal topic;
  - two subscriptions on the same topic with tied and with different
    priorities;
  - a topic that only the wildcard matches.

  `MaxDepth` 2 did not finish within minutes.
- `reqrep`:
  - one endpoint and one request id;
  - `MaxDepth` 2, so that a response can arrive from inside the endpoint
    handler while `request` is still on the stack, and can be duplicated.
- `CounterModulus` 2 keeps the counters finite. No property reads them.
- `testclock`:
  - times {0,3,6}, starts {0,3,6}, stops {0,6}, intervals {0,3};
  - a start below a later `now` (3 at time 6), so that a stop time equal to
    now can pass the first interval check; this is what the mutant of the
    stop check needs;
  - `Width` 4, so that no sum wraps; `timer_wrap` uses `Width` 3, where
    `6 + 3` wraps;
  - symmetry over the two names, which is sound because only `order` tells
    them apart, and `order` is permuted with them.
- `liveclock`:
  - the wall clock runs from 1 to 4;
  - interval 2 with stop 3, so that a timer runs past its stop;
  - alert times 1 and 4, the second at the last time explored.
- The wrap needs a start time within one interval of 2^64 ns, which is the
  year 2554. `timer_wrap` shows the check is not proof against it.
- `pure`: one trader, component and type, the 13 state names, reasons
  {None, "maintenance"}, two UUIDs, one config and stamps {0,5}. Two stamps
  tell a swapped pair of timestamps apart; two UUIDs tell a lost or replaced
  correlation id apart.

  Round cases use one instance, two clocks and up to three setup calls. Two
  clocks are enough for each failure:
  - a clock registered while the first is visited would be walked too;
  - deregistering the visited clock would skip the second;
  - a double registration needs two setup calls, and its lone deregister a
    third.
- The violation runs use the same bounds. `delimiter` differs only in
  `Parts`, `timer_wrap` only in `Width`.

### Fairness
No run checks a liveness property, so no fairness is assumed. Every
property is a safety property: an invariant or an action property.

## Findings
1. **Wildcard subscribers are missed for cached topics** (component.pyx:1556
   and :1636).
   - `subscribe` calls `is_matching(topic, pattern)` with the subscription's
     pattern as topic, so `a*` is not added to the cached list of `ab`.
   - `publish_c` re-resolves only empty lists, so the omission persists.
2. **`set_timer` loses a nanosecond of the interval** for some timedeltas
   (component.pyx:405). The conversion is a truncated double product.
3. **Unpickled `TimeEvent`s have timestamps 0** (component.pyx:976).
   `__setstate__` reads `self.ts_event`, not the state.
4. **`cancel_timers` leaves a timer whose name holds `"<,>"` running**
   (component.pyx:783).
   - `timer_names` splits the name into pieces.
   - The pieces pass `cancel_timer`'s `valid_string` and `timer_names`
     checks.
   - The native cancel of a name it does not hold does nothing, so the call
     returns normally.
   - Only a piece that is empty, from a name that starts or ends with the
     delimiter, makes `valid_string` raise.
5. **`ShutdownSystem.to_dict` drops `correlation_id`** (messages.pyx:110).
   `from_dict_c` reads it back with `values.get`, so a serialised command
   always comes back uncorrelated.
6. **Override does not replace an alert at time 0** (component.pyx:293).
   `next_time_ns(name) > 0` stands for "exists". An alert at the epoch on a
   TestClock still at time 0 fails as a duplicate. LiveClock never reaches
   this case.
7. **The TestClock stop check wraps** (component.pyx:656). The check
   `start_time_ns + interval_ns <= stop_time_ns` is done in `uint64_t`, so a
   sum that wraps lets an invalid timer reach the native clock.

## Plan
Remaining work: `MessageBus` composed with a TestClock whose time-event
handlers publish on the bus. The two meet only in the loop that calls
`handle()` on what `advance_time` returns, which is in the backtest
engine, not in the repository. The composition would model that loop from
spec 4.3.1 and needs a run of its own.

## Not modelled
- `streaming_types()` (a copy of the set) and `dispose` (does nothing).
- `has_subscribers(topic)` and `subscriptions(pattern)` pass the
  subscription's topic as the topic argument of `is_matching`. So
  `has_subscribers("ab")` is False when only `a*` is subscribed, although
  `publish("ab")` can reach `a*`. This is what their docstrings describe
  (the argument filters subscription topics). No property treats it as an
  error.
- Datetime and time conversions: `core/datetime.pxd` holds declarations
  only, and the conversions are floating point and pandas, with no state.
- Identifiers: immutable validated strings. They are modelled as the string
  itself, because `to_str` and the constructor are inverse.
- The message `__str__` / `__repr__` formatting: text only.
- The aliasing of the `config` dict in `ComponentStateChanged`: the model
  holds values, not object identity.
- Serializer and FiniteStateMachine: stubs only.
- LiveClock's runtime: modelled from the spec as one atomic fire step per
  timer. The native code is not in the repository. No property is about
  when or in what order the tasks fire, because that would check the spec
  against itself.
- TestClock's `advance_time` stepping (`FireTimes`, `Advanced`,
  `InsertByTs`) is modelled from the spec. No property is about it, for the
  same reason.
- `set_backtest_force_stop` and `is_backtest_force_stop` write and read the
  zero-initialised C global `cdef bint FORCE_STOP`. Nothing else reads it.
- `timestamp()` (a double of seconds), `utc_now` and `local_now` (datetimes
  built from `timestamp_ns`), and `timestamp_ms/us`: they only read the
  time, and no property is about them. `timestamp_ns` and TestClock's
  `timer_count` are modelled.
- `Subscription.__hash__` hashes `str(handler)`, while `__eq__` compares
  the handler (component.pyx:1747). A handler whose text changes after
  `subscribe` is then not found: `unsubscribe` does nothing, and a second
  `subscribe` adds a duplicate. Handlers are model values with fixed text,
  and `_subscriptions` is modelled by equality, so no run reaches this. It
  is listed as a hazard.
- `TimeEventHandler`'s comparisons (on `ts_event`) and `__repr__`.
