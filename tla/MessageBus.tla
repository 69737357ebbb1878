------------------------------ MODULE MessageBus ------------------------------
(***************************************************************************)
(* The in-process MessageBus of component.pyx: endpoints for send and      *)
(* request, the correlation index for responses, and pub/sub with the      *)
(* topic cache `_patterns`, the per-subscription index `_subscriptions`    *)
(* and the global `_resolved` flag.                                        *)
(*                                                                         *)
(* Handlers are called synchronously and may call back into the bus before *)
(* they return, or raise.  A call that invokes handlers pushes a frame on  *)
(* `stack`; the frame walks its snapshot of callees one handler at a time, *)
(* and while the top frame is inside a handler that handler may make any   *)
(* bus call, nested up to MaxDepth frames.  A raise pops the frame without *)
(* the counter increment that follows the dispatch loop in the code.       *)
(***************************************************************************)
EXTENDS Naturals, Sequences, SequencesExt, GlobMatch

CONSTANTS
  Handlers,     \* callables: subscription handlers, endpoints, callbacks
  SubTopics,    \* topics given to subscribe (may hold `*` and `?`)
  Subscribers,  \* the <<topic, handler>> pairs subscribe is called with
  PubTopics,    \* topics given to publish
  Priorities,   \* subscription priorities (non-negative)
  Endpoints,    \* endpoint addresses
  RequestIds,   \* request ids (UUID4), matched by response.correlation_id
  StreamingTypes, \* message types given to add_streaming_type
  MaxDepth,     \* bound on nested handler calls
  CounterModulus, \* 2^w for the w-bit counters (uint64_t in the code)
  None          \* no handler / no callback

ASSUME Subscribers \subseteq SubTopics \X Handlers
ASSUME Priorities \subseteq Nat /\ MaxDepth \in Nat \ {0} /\ CounterModulus \in Nat \ {0}

VARIABLES
  subscriptions,      \* _subscriptions: Seq of [sub, patterns], dict order
  patterns,           \* _patterns: published topic -> Seq of Subscription
  resolved,           \* _resolved
  endpoints,          \* _endpoints
  correlation_index,  \* _correlation_index
  sent_count, req_count, res_count, pub_count,
  streaming_types,    \* _streaming_types
  stack,              \* frames of the handler dispatches in progress
  awaiting            \* history: ids whose stored callback has not run

bus_vars == <<subscriptions, patterns, resolved, endpoints, correlation_index,
              sent_count, req_count, res_count, pub_count, streaming_types, stack>>
vars == <<bus_vars, awaiting>>

-----------------------------------------------------------------------------
(* Subscription: equal by topic and handler, ordered by priority alone.   *)
Subscription == [topic : SubTopics, handler : Handlers, priority : Priorities]

SameSub(a, b) == a.topic = b.topic /\ a.handler = b.handler

(* sorted(subs, reverse=True): Python's sort is stable, so a subscription  *)
(* goes after every one of higher or equal priority already placed.        *)
InsertByPriority(acc, s) ==
  InsertAt(acc, SelectLastInSeq(acc, LAMBDA x : x.priority >= s.priority) + 1, s)

SortByPriority(seq) == FoldLeft(InsertByPriority, <<>>, seq)

SubsOf(entries) == [k \in 1 .. Len(entries) |-> entries[k].sub]

IsSubscribed(topic, handler) ==
  \E k \in 1 .. Len(subscriptions) :
     SameSub(subscriptions[k].sub, [topic |-> topic, handler |-> handler])

(* The read-only views.  endpoints(): the registered addresses (their     *)
(* dict order is not kept here).                                          *)
EndpointsQuery == {e \in Endpoints : endpoints[e] # None}

(* topics(): the sorted set of the subscriptions' topics.                 *)
TopicsQuery == {subscriptions[k].sub.topic : k \in 1 .. Len(subscriptions)}

(* subscriptions(pattern): a missing pattern is "*"; the subscriptions    *)
(* whose topic, as the topic argument of is_matching, matches it, in dict *)
(* order.                                                                 *)
SubscriptionsQuery(pattern) ==
  LET p == IF pattern = None THEN <<"*">> ELSE pattern IN
  SelectSeq(SubsOf(subscriptions), LAMBDA s : IsMatching(s.topic, p))

HasSubscribers(pattern) == Len(SubscriptionsQuery(pattern)) > 0

IsPendingRequest(request_id) == correlation_index[request_id] # None

IsStreamingType(cls) == cls \in streaming_types

(* The callee of a send, a request or a response: one handler.            *)
Callee(h) == [topic |-> <<>>, handler |-> h, priority |-> 0]

Frame == [op : {"send", "request", "response", "publish"},
          subs : Seq(Subscription \cup [topic : {<<>>}, handler : Handlers,
                                        priority : {0}]),
          i : Nat, inside : BOOLEAN]

-----------------------------------------------------------------------------
(* A bus call is made from the top level or by the handler that the top   *)
(* frame is inside; a call that runs handlers also needs a free frame.    *)
CanCall == stack = <<>> \/ (stack # <<>> /\ Last(stack).inside)
CanPush == CanCall /\ Len(stack) < MaxDepth

(* `count += 1` on a uint64_t counter, at the model's width.               *)
Inc(count) == (count + 1) % CounterModulus

Push(op, subs) ==
  stack' = Append(stack, [op |-> op, subs |-> subs, i |-> 1, inside |-> FALSE])

Init ==
  /\ subscriptions = <<>>
  /\ patterns = <<>>
  /\ resolved = FALSE
  /\ endpoints = [e \in Endpoints |-> None]
  /\ correlation_index = [r \in RequestIds |-> None]
  /\ sent_count = 0 /\ req_count = 0 /\ res_count = 0 /\ pub_count = 0
  /\ streaming_types = {}
  /\ stack = <<>>
  /\ awaiting = {}

(* register: the endpoint must be free.                                   *)
Register(endpoint, handler) ==
  /\ CanCall
  /\ endpoints[endpoint] = None
  /\ endpoints' = [endpoints EXCEPT ![endpoint] = handler]
  /\ UNCHANGED <<subscriptions, patterns, resolved, correlation_index,
                 sent_count, req_count, res_count, pub_count, stack,
                 awaiting>>

(* deregister: the endpoint must be registered with this handler.         *)
Deregister(endpoint, handler) ==
  /\ CanCall
  /\ endpoints[endpoint] = handler
  /\ endpoints' = [endpoints EXCEPT ![endpoint] = None]
  /\ UNCHANGED <<subscriptions, patterns, resolved, correlation_index,
                 sent_count, req_count, res_count, pub_count, stack,
                 awaiting>>

(* send: an unknown endpoint returns without effect.                      *)
Send(endpoint) ==
  /\ CanPush
  /\ endpoints[endpoint] # None
  /\ Push("send", <<Callee(endpoints[endpoint])>>)
  /\ UNCHANGED <<subscriptions, patterns, resolved, endpoints,
                 correlation_index, sent_count, req_count, res_count,
                 pub_count, awaiting>>

(* request: a duplicate id returns; else the callback (if any) is stored  *)
(* before the endpoint is looked up, and an unknown endpoint returns.     *)
Request(endpoint, id, callback) ==
  LET handler == endpoints[endpoint] IN
  /\ CanPush
  /\ correlation_index[id] = None
  /\ callback # None \/ handler # None
  /\ correlation_index' = IF callback # None
                            THEN [correlation_index EXCEPT ![id] = callback]
                            ELSE correlation_index
  /\ awaiting' = IF callback # None THEN awaiting \cup {id} ELSE awaiting
  /\ IF handler # None THEN Push("request", <<Callee(handler)>>)
                       ELSE UNCHANGED stack
  /\ UNCHANGED <<subscriptions, patterns, resolved, endpoints, sent_count,
                 req_count, res_count, pub_count>>

(* Bug variant of Response: the callback is read with get() instead of    *)
(* pop(), so it stays in the correlation index.                           *)
ResponseWithoutPop(id) ==
  LET callback == correlation_index[id] IN
  /\ CanCall
  /\ UNCHANGED correlation_index
  /\ IF callback # None
       THEN /\ Len(stack) < MaxDepth
            /\ Push("response", <<Callee(callback)>>)
            /\ awaiting' = awaiting \ {id}
            /\ UNCHANGED res_count
       ELSE /\ res_count' = Inc(res_count)
            /\ UNCHANGED <<stack, awaiting>>
  /\ UNCHANGED <<subscriptions, patterns, resolved, endpoints, sent_count,
                 req_count, pub_count>>

(* response: pop the callback of the correlation id, call it if there was *)
(* one, then count the response.                                          *)
Response(id) ==
  LET callback == correlation_index[id] IN
  /\ CanCall
  /\ correlation_index' = [correlation_index EXCEPT ![id] = None]
  /\ IF callback # None
       THEN /\ Len(stack) < MaxDepth
            /\ Push("response", <<Callee(callback)>>)
            /\ awaiting' = awaiting \ {id}
            /\ UNCHANGED res_count
       ELSE /\ res_count' = Inc(res_count)
            /\ UNCHANGED <<stack, awaiting>>
  /\ UNCHANGED <<subscriptions, patterns, resolved, endpoints, sent_count,
                 req_count, pub_count>>
(* Bug variant of Subscribe: the matched topics are not recorded against *)
(* the new subscription (`self._subscriptions[sub] = []`).                *)
SubscribeWithoutMatches(topic, handler, priority) ==
  LET sub     == [topic |-> topic, handler |-> handler, priority |-> priority]
      matches == {p \in DOMAIN patterns : IsMatching(topic, p)}
  IN
  /\ CanCall
  /\ ~IsSubscribed(topic, handler)
  /\ patterns' = [p \in DOMAIN patterns |->
                    IF p \in matches THEN SortByPriority(Append(patterns[p], sub))
                                     ELSE patterns[p]]
  /\ subscriptions' = Append(subscriptions, [sub |-> sub, patterns |-> {}])
  /\ resolved' = FALSE
  /\ UNCHANGED <<endpoints, correlation_index, sent_count, req_count,
                 res_count, pub_count, stack, awaiting>>

-----------------------------------------------------------------------------
(* subscribe: an equal subscription returns at once.  Otherwise the new   *)
(* subscription is inserted, in priority order, into the cached list of   *)
(* every published topic for which is_matching(topic, pattern) holds,     *)
(* with the new subscription's topic as the first argument, and those     *)
(* topics are recorded against it.                                        *)
Subscribe(topic, handler, priority) ==
  LET sub     == [topic |-> topic, handler |-> handler, priority |-> priority]
      matches == {p \in DOMAIN patterns : IsMatching(topic, p)}
  IN
  /\ CanCall
  /\ ~IsSubscribed(topic, handler)
  /\ patterns' = [p \in DOMAIN patterns |->
                    IF p \in matches THEN SortByPriority(Append(patterns[p], sub))
                                     ELSE patterns[p]]
  /\ subscriptions' = Append(subscriptions, [sub |-> sub, patterns |-> matches])
  /\ resolved' = FALSE
  /\ UNCHANGED <<endpoints, correlation_index, sent_count, req_count,
                 res_count, pub_count, stack, awaiting>>

(* Bug variant of Unsubscribe: the subscription is deleted from           *)
(* `_subscriptions` but left in the cached lists.                         *)
UnsubscribeKeepingCache(topic, handler) ==
  LET key == [topic |-> topic, handler |-> handler] IN
  /\ CanCall
  /\ IsSubscribed(topic, handler)
  /\ subscriptions' = SelectSeq(subscriptions, LAMBDA e : ~SameSub(e.sub, key))
  /\ resolved' = FALSE
  /\ UNCHANGED <<patterns, endpoints, correlation_index, sent_count, req_count,
                 res_count, pub_count, stack, awaiting>>

(* unsubscribe: an unknown subscription returns; otherwise it is removed  *)
(* from the cached list of every topic recorded against it, then deleted. *)
Unsubscribe(topic, handler) ==
  LET key   == [topic |-> topic, handler |-> handler]
      entry == CHOOSE e \in ToSet(subscriptions) : SameSub(e.sub, key)
  IN
  /\ CanCall
  /\ IsSubscribed(topic, handler)
  /\ patterns' = [p \in DOMAIN patterns |->
                    IF p \in entry.patterns
                      THEN SortByPriority(RemoveFirstMatch(patterns[p],
                                             LAMBDA s : SameSub(s, key)))
                      ELSE patterns[p]]
  /\ subscriptions' = SelectSeq(subscriptions, LAMBDA e : ~SameSub(e.sub, key))
  /\ resolved' = FALSE
  /\ UNCHANGED <<endpoints, correlation_index, sent_count, req_count,
                 res_count, pub_count, stack, awaiting>>

(* _resolve_subscriptions: every subscription whose topic, as pattern,    *)
(* matches the published topic, in dict order then sorted by priority.    *)
ResolveSubscriptions(topic) ==
  SortByPriority(SubsOf(SelectSeq(subscriptions,
                                  LAMBDA e : IsMatching(topic, e.sub.topic))))

(* Bug variant of Publish: a resolved list is recorded against its        *)
(* subscriptions but never stored in `_patterns`.                         *)
PublishWithoutCaching(topic) ==
  LET cached   == topic \in DOMAIN patterns
      resolve  == ~cached \/ (~resolved /\ patterns[topic] = <<>>)
      fresh    == ResolveSubscriptions(topic)
      subs     == IF resolve THEN fresh ELSE patterns[topic]
  IN
  /\ CanPush
  /\ IF resolve
       THEN /\ subscriptions' =
                 [k \in 1 .. Len(subscriptions) |->
                    IF \E j \in 1 .. Len(fresh) : SameSub(fresh[j], subscriptions[k].sub)
                      THEN [subscriptions[k] EXCEPT !.patterns = @ \cup {topic}]
                      ELSE subscriptions[k]]
            /\ resolved' = TRUE
            /\ UNCHANGED patterns
       ELSE UNCHANGED <<patterns, subscriptions, resolved>>
  /\ Push("publish", subs)
  /\ UNCHANGED <<endpoints, correlation_index, sent_count, req_count,
                 res_count, pub_count, awaiting>>

(* publish_c: use the cached list unless the topic is not cached, or the  *)
(* list is empty while `_resolved` is clear; resolving caches the list,   *)
(* records the topic against each subscription in it and sets the flag.  *)
(* The handlers are then called in the order of that list.                *)
Publish(topic) ==
  LET cached   == topic \in DOMAIN patterns
      resolve  == ~cached \/ (~resolved /\ patterns[topic] = <<>>)
      fresh    == ResolveSubscriptions(topic)
      subs     == IF resolve THEN fresh ELSE patterns[topic]
  IN
  /\ CanPush
  /\ IF resolve
       THEN /\ patterns' = [p \in DOMAIN patterns \cup {topic} |->
                              IF p = topic THEN fresh ELSE patterns[p]]
            /\ subscriptions' =
                 [k \in 1 .. Len(subscriptions) |->
                    IF \E j \in 1 .. Len(fresh) : SameSub(fresh[j], subscriptions[k].sub)
                      THEN [subscriptions[k] EXCEPT !.patterns = @ \cup {topic}]
                      ELSE subscriptions[k]]
            /\ resolved' = TRUE
       ELSE UNCHANGED <<patterns, subscriptions, resolved>>
  /\ Push("publish", subs)
  /\ UNCHANGED <<endpoints, correlation_index, sent_count, req_count,
                 res_count, pub_count, awaiting>>

-----------------------------------------------------------------------------
(* The dispatch loop of the top frame: call the next handler, return from *)
(* it, or raise out of it; after the last handler, count the message.     *)
Invoke ==
  /\ stack # <<>>
  /\ ~Last(stack).inside
  /\ Last(stack).i <= Len(Last(stack).subs)
  /\ stack' = [stack EXCEPT ![Len(stack)].inside = TRUE]
  /\ UNCHANGED <<subscriptions, patterns, resolved, endpoints, correlation_index,
                 sent_count, req_count, res_count, pub_count,
                 awaiting>>

HandlerReturn ==
  /\ stack # <<>>
  /\ Last(stack).inside
  /\ stack' = [stack EXCEPT ![Len(stack)].inside = FALSE,
                            ![Len(stack)].i = @ + 1]
  /\ UNCHANGED <<subscriptions, patterns, resolved, endpoints, correlation_index,
                 sent_count, req_count, res_count, pub_count,
                 awaiting>>

(* The exception leaves the bus call: the rest of the snapshot is not     *)
(* called and the counter is not incremented.  The handler of the frame   *)
(* below, if any, is still running and may catch it.                      *)
HandlerRaise ==
  /\ stack # <<>>
  /\ Last(stack).inside
  /\ stack' = Front(stack)
  /\ UNCHANGED <<subscriptions, patterns, resolved, endpoints, correlation_index,
                 sent_count, req_count, res_count, pub_count,
                 awaiting>>

FinishDispatch ==
  LET op == Last(stack).op IN
  /\ stack # <<>>
  /\ ~Last(stack).inside
  /\ Last(stack).i > Len(Last(stack).subs)
  /\ stack' = Front(stack)
  /\ sent_count' = IF op = "send" THEN Inc(sent_count) ELSE sent_count
  /\ req_count' = IF op = "request" THEN Inc(req_count) ELSE req_count
  /\ res_count' = IF op = "response" THEN Inc(res_count) ELSE res_count
  /\ pub_count' = IF op = "publish" THEN Inc(pub_count) ELSE pub_count
  /\ UNCHANGED <<subscriptions, patterns, resolved, endpoints, correlation_index,
                 awaiting>>

(* add_streaming_type: the type joins the set; nothing else reads it.     *)
AddStreamingType(cls) ==
  /\ CanCall
  /\ streaming_types' = streaming_types \cup {cls}
  /\ UNCHANGED <<subscriptions, patterns, resolved, endpoints, correlation_index,
                 sent_count, req_count, res_count, pub_count, stack,
                 awaiting>>

(* Every other operation leaves `_streaming_types` alone.                 *)
BusNext ==
  \/ \E e \in Endpoints, h \in Handlers : Register(e, h) \/ Deregister(e, h)
  \/ \E e \in Endpoints : Send(e)
  \/ \E e \in Endpoints, r \in RequestIds, cb \in Handlers \cup {None} :
        Request(e, r, cb)
  \/ \E r \in RequestIds : Response(r)
  \/ \E <<t, h>> \in Subscribers, p \in Priorities : Subscribe(t, h, p)
  \/ \E <<t, h>> \in Subscribers : Unsubscribe(t, h)
  \/ \E t \in PubTopics : Publish(t)
  \/ Invoke \/ HandlerReturn \/ HandlerRaise \/ FinishDispatch

Next ==
  \/ BusNext /\ UNCHANGED streaming_types
  \/ \E cls \in StreamingTypes : AddStreamingType(cls)

Spec == Init /\ [][Next]_vars

-----------------------------------------------------------------------------
(***************************************************************************)
(* Properties                                                              *)
(***************************************************************************)
TypeOK ==
  /\ DOMAIN patterns \subseteq PubTopics
  /\ subscriptions \in Seq([sub : Subscription, patterns : SUBSET DOMAIN patterns])
  /\ \A p \in DOMAIN patterns : patterns[p] \in Seq(Subscription)
  /\ resolved \in BOOLEAN
  /\ endpoints \in [Endpoints -> Handlers \cup {None}]
  /\ correlation_index \in [RequestIds -> Handlers \cup {None}]
  /\ {sent_count, req_count, res_count, pub_count} \subseteq 0 .. CounterModulus - 1
  /\ streaming_types \subseteq StreamingTypes
  /\ stack \in Seq(Frame) /\ Len(stack) <= MaxDepth
  /\ awaiting \subseteq RequestIds

(* s is e with some elements left out, the rest in e's order.             *)
IsSubsequence(s, e) ==
  \E f \in [1 .. Len(s) -> 1 .. Len(e)] :
     /\ \A k \in 1 .. Len(s) - 1 : f[k] < f[k + 1]
     /\ \A k \in 1 .. Len(s) : s[k] = e[f[k]]

(* The handlers a publish calls, whether taken from the `_patterns` cache *)
(* or freshly resolved, are current subscriptions whose pattern matches   *)
(* the topic, each once, with its current priority, highest priority      *)
(* first and ties in subscription order; and every subscription to       *)
(* exactly that topic is among them.  Violated by a cache that keeps a    *)
(* subscription after unsubscribe, misses an insertion on subscribe, or   *)
(* loses the priority order, after any run of subscribe, unsubscribe and  *)
(* publish calls, nested ones from handlers included.                     *)
DispatchFollowsSubscriptions ==
  [][\A t \in PubTopics :
       Publish(t) =>
         LET snap     == Last(stack').subs
             expected == ResolveSubscriptions(t)
         IN /\ IsSubsequence(snap, expected)
            /\ \A j \in 1 .. Len(expected) :
                  expected[j].topic = t => \E k \in 1 .. Len(snap) : snap[k] = expected[j]
    ]_vars

(* The two indexes of the bus agree: a subscription sits in the cached   *)
(* list of a topic, once, exactly when that topic is recorded against it *)
(* in `_subscriptions`.  unsubscribe relies on it: it edits only the      *)
(* recorded lists, and `subs.remove(sub)` raises on a list that lacks the *)
(* subscription, while a list it misses keeps calling an unsubscribed     *)
(* handler.  Breaking it takes a subscribe, publish and unsubscribe that  *)
(* disagree on which lists they touch.                                    *)
CacheIndexConsistent ==
  /\ \A p \in DOMAIN patterns : \A k \in 1 .. Len(patterns[p]) :
        /\ \E e \in ToSet(subscriptions) :
              e.sub = patterns[p][k] /\ p \in e.patterns
        /\ \A j \in 1 .. Len(patterns[p]) :
              SameSub(patterns[p][j], patterns[p][k]) => j = k
  /\ \A k \in 1 .. Len(subscriptions) : \A p \in subscriptions[k].patterns :
        \E j \in 1 .. Len(patterns[p]) : SameSub(patterns[p][j], subscriptions[k].sub)

(* What the spec promises of publish: the handlers called are exactly the *)
(* subscriptions whose pattern matches the topic, in priority order.      *)
DispatchReachesEverySubscriber ==
  [][\A t \in PubTopics :
       Publish(t) => Last(stack').subs = ResolveSubscriptions(t)]_vars

(* A request's callback runs at most once for each time request() stored  *)
(* it, however responses with its correlation id are duplicated, and      *)
(* whether they arrive from inside the endpoint handler or later.         *)
CallbackAtMostOnce ==
  [][\A r \in RequestIds :
       Response(r) /\ Len(stack') > Len(stack) => r \in awaiting]_vars

=============================================================================
