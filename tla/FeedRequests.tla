---------------------------- MODULE FeedRequests ----------------------------
(***************************************************************************)
(* Requests over the event feed (clients/websocket/subscriptions.js,       *)
(* pacing.js, message_pump.js, XChainSDK/entity_subscriptions.js,          *)
(* event_subscriptions.js, event_frames.js): watchers share subscriptions  *)
(* by key, requests leave through a leaky bucket, a rate-limited one is    *)
(* sent again, and frames are handed to the watchers they are about.       *)
(* Time passes in steps of one drain interval.                             *)
(***************************************************************************)
EXTENDS Integers, Sequences, FiniteSets, SequencesExt

CONSTANTS
    Watchers,      \* onAddress(), onToken(), ... calls
    WatchKey,      \* watcher -> the key of its subscription: entity and channel
    WatchTypes,    \* watcher -> the event types it listens to
    EntityOf,      \* key -> the entity a frame about it names
    RefusedKeys,   \* keys the server refuses
    DefaultRate,   \* defaultMessageRate
    ServerRate,    \* max_message_rate of the server's WELCOME
    MaxResends,   \* RATE_RETRIES
    MaxIds,        \* bound on requests sent
    MaxBunches,    \* bound on messages that reach the server bunched together
    MaxCloses      \* bound on connections lost

ASSUME WatchersAssumption ==
    IsFiniteSet(Watchers) /\ DefaultRate \in Nat \ {0} /\ ServerRate \in Nat \ {0}

FeedKeys == {WatchKey[w] : w \in Watchers}
EventTypes == UNION {WatchTypes[w] : w \in Watchers}

VARIABLES
    linkState,       \* "down", "open" or "welcomed"
    watch,      \* watcher -> "new", "on" or "done"
    handlers,   \* type -> watchers called for it
    refs,       \* _subscriptions: key -> holders, 0 when it is not in the list
    pending,    \* _pending: id -> key and retries of a request that awaits its answer
    tracked,    \* _pendingSubscribes: id -> key and attempt
    outQueue,   \* messages waiting for the bucket
    outLevel,   \* the client's bucket
    retries,    \* timers of requests to send again
    nextReq,    \* nextId
    server,     \* the keys the server pushes for
    serverLevel,
    answers,    \* answers under way
    bunches,    \* messages bunched so far
    sought,     \* history: keys asked for on this connection and not refused, given
                \* up or let go by every watcher
    closes

reqVars == <<linkState, watch, handlers, refs, pending, tracked, outQueue, outLevel, retries, nextReq,
             server, serverLevel, answers, bunches, sought, closes>>

FeedReqInit ==
    /\ linkState = "down"
    /\ watch = [w \in Watchers |-> "new"]
    /\ handlers = [t \in EventTypes |-> {}]
    /\ refs = [k \in FeedKeys |-> 0]
    /\ pending = <<>> /\ tracked = <<>> /\ retries = {}
    /\ outQueue = <<>> /\ outLevel = 0
    /\ nextReq = 1
    /\ server = {} /\ serverLevel = 0 /\ answers = <<>> /\ bunches = 0
    /\ sought = {} /\ closes = 0

-----------------------------------------------------------------------------
(* The bucket *)

\* messageRate: the server's rate once it is known.
MessageRate == IF linkState = "welcomed" THEN ServerRate ELSE DefaultRate

\* One less than the server's bucket, at least one.
OutCapacity == IF MessageRate > 2 THEN MessageRate - 1 ELSE 1

\* How many messages of queue leave at once from a bucket at level.
Leaving(queue, level) ==
    IF level >= OutCapacity THEN 0
    ELSE IF Len(queue) < OutCapacity - level THEN Len(queue) ELSE OutCapacity - level

\* The elements of a finite set of numbers, in order.
Rising(S) == CHOOSE s \in [1..Cardinality(S) -> S] :
                /\ Range(s) = S
                /\ \A m, n \in DOMAIN s : m < n => s[m] < s[n]

\* The server's answer to a message that finds its bucket at level.
Reply(m, level) ==
    [id |-> m.id, key |-> m.key,
     code |-> IF level + 1 > ServerRate THEN "RATE_LIMITED"
              ELSE IF m.key \in RefusedKeys THEN "REFUSED" ELSE "ok"]

\* drainOut after queue was pushed or time has passed: what leaves reaches the
\* server in this step; its answers come later.
Drain(queue, level, slevel) ==
    LET n == Leaving(queue, level)
        sent == SubSeq(queue, 1, n)
        asked == {i \in 1..n : sent[i].id # 0}
        reply(i) == Reply(sent[i], slevel + i - 1)
        subscribed == {k \in FeedKeys : \E i \in 1..n :
                         /\ sent[i].key = k /\ sent[i].kind = "subscribe" /\ reply(i).code = "ok"
                         /\ \A j \in (i + 1)..n : ~(/\ sent[j].key = k /\ sent[j].kind = "unsubscribe"
                                                    /\ reply(j).code # "RATE_LIMITED")}
        dropped == {sent[i].key : i \in {i \in 1..n : /\ sent[i].kind = "unsubscribe"
                                                      /\ reply(i).code # "RATE_LIMITED"}}
    IN  /\ outQueue' = SubSeq(queue, n + 1, Len(queue))
        /\ outLevel' = level + n
        /\ serverLevel' = IF slevel + n > ServerRate THEN ServerRate ELSE slevel + n
        /\ server' = (server \ dropped) \cup subscribed
        /\ answers' = answers \o [j \in 1..Cardinality(asked) |-> reply(Rising(asked)[j])]

\* send: dropped unless the socket is open.
Send(msgs) ==
    IF linkState = "down" THEN UNCHANGED <<outQueue, outLevel, serverLevel, server, answers>>
    ELSE Drain(outQueue \o msgs, outLevel, serverLevel)

Subscription(id, key) == [kind |-> "subscribe", id |-> id, key |-> key]

-----------------------------------------------------------------------------
(* Watchers *)

\* subscribe: a key already held gains a reference, a new one is asked for.
Subscribe(key) ==
    /\ refs' = [refs EXCEPT ![key] = @ + 1]
    /\ IF refs[key] > 0
       THEN UNCHANGED <<pending, nextReq, sought, outQueue, outLevel, serverLevel, server, answers>>
       ELSE /\ nextReq' = nextReq + 1
            /\ pending' = [i \in DOMAIN pending \cup {nextReq} |->
                              IF i = nextReq THEN [key |-> key, retries |-> 0] ELSE pending[i]]
            /\ sought' = IF linkState = "down" THEN sought ELSE sought \cup {key}
            /\ Send(<<Subscription(nextReq, key)>>)

\* onAddress, onToken, onMarket, onDispenser, onMempoolAction, onBetFeed...
Watch(w) ==
    /\ watch[w] = "new" /\ nextReq <= MaxIds
    /\ watch' = [watch EXCEPT ![w] = "on"]
    /\ handlers' = [t \in DOMAIN handlers |->
                       IF t \in WatchTypes[w] THEN handlers[t] \cup {w} ELSE handlers[t]]
    /\ Subscribe(WatchKey[w])
    /\ UNCHANGED <<linkState, tracked, retries, bunches, closes>>

\* unsubscribe goes to the server when the last holder lets go.
Unsubscribes(key) == refs[key] <= 1

Unsubscribe(key) ==
    /\ refs' = [refs EXCEPT ![key] = IF Unsubscribes(key) THEN 0 ELSE @ - 1]
    /\ IF Unsubscribes(key) THEN Send(<<[kind |-> "unsubscribe", id |-> 0, key |-> key]>>)
       ELSE UNCHANGED <<outQueue, outLevel, serverLevel, server, answers>>

\* oneShotTeardown: the handle acts once.
TeardownActs(w) == watch[w] = "on"

\* The caller uses the handle, perhaps again: off() and unsubscribe().
Teardown(w) ==
    /\ watch[w] \in {"on", "done"}
    /\ TeardownActs(w)
    /\ watch' = [watch EXCEPT ![w] = "done"]
    /\ handlers' = [t \in DOMAIN handlers |-> handlers[t] \ {w}]
    /\ sought' = IF \E x \in Watchers \ {w} : watch[x] = "on" /\ WatchKey[x] = WatchKey[w]
                 THEN sought ELSE sought \ {WatchKey[w]}
    /\ Unsubscribe(WatchKey[w])
    /\ UNCHANGED <<linkState, pending, tracked, retries, nextReq, bunches, closes>>

\* frameIsForAddress, frameIdMatches: a frame that names nobody is for everybody.
FrameIsFor(f, w) == f.names = {} \/ EntityOf[WatchKey[w]] \in f.names

\* onMessage: the watchers called for a frame, from a copy of its handlers.
Reached(f) == {w \in handlers[f.type] : FrameIsFor(f, w)}

-----------------------------------------------------------------------------
(* Answers, retries and time *)

Without(f, id) == [i \in DOMAIN f \ {id} |-> f[i]]

\* answerRateLimited: the request keeps its promise and is sent again.
SendsAgain(a) ==
    /\ a.code = "RATE_LIMITED"
    /\ a.id \in DOMAIN pending /\ pending[a.id].retries < MaxResends

\* answerTrackedSubscribe: sent again while somebody holds the key.
TracksAgain(a) ==
    /\ a.code = "RATE_LIMITED"
    /\ a.id \in DOMAIN tracked /\ tracked[a.id].attempt < MaxResends /\ refs[a.key] > 0

\* Mutant: only a request with a promise is sent again.
RetryTimersPromised(a) == IF SendsAgain(a) THEN {[id |-> a.id, key |-> a.key, attempt |-> 0]} ELSE {}

RetryTimers(a) ==
    (IF SendsAgain(a) THEN {[id |-> a.id, key |-> a.key, attempt |-> 0]} ELSE {})
    \cup (IF TracksAgain(a) THEN {[id |-> 0, key |-> a.key, attempt |-> tracked[a.id].attempt + 1]}
                            ELSE {})

\* onMessage: the retries, else the promise of the request.
OnAnswer ==
    /\ answers # <<>>
    /\ LET a == Head(answers)
       IN  /\ answers' = Tail(answers)
           /\ tracked' = Without(tracked, a.id)
           /\ pending' = IF SendsAgain(a) THEN [pending EXCEPT ![a.id].retries = @ + 1]
                         ELSE Without(pending, a.id)
           /\ retries' = retries \cup RetryTimers(a)
           /\ sought' = IF a.code = "ok" \/ SendsAgain(a) \/ TracksAgain(a) THEN sought
                        ELSE sought \ {a.key}
    /\ UNCHANGED <<linkState, watch, handlers, refs, outQueue, outLevel, nextReq, server, serverLevel,
                   bunches, closes>>

\* sendTrackedSubscribe for each of keys, in some order.
SendTracked(keys, attempt) ==
    LET n == Cardinality(keys)
        id(i) == nextReq + i - 1
    IN  \E order \in {s \in [1..n -> keys] : Range(s) = keys} :
          /\ nextReq' = nextReq + n
          /\ tracked' = [i \in DOMAIN tracked \cup {id(j) : j \in 1..n} |->
                            IF i \in DOMAIN tracked THEN tracked[i]
                            ELSE [key |-> order[i - nextReq + 1], attempt |-> attempt]]
          /\ Send([i \in 1..n |-> Subscription(id(i), order[i])])

\* A retry timer: the request of a promise that still waits, or a tracked one.
RetryFires(r) ==
    /\ r \in retries
    /\ retries' = retries \ {r}
    /\ IF r.id # 0
       THEN /\ IF r.id \in DOMAIN pending THEN Send(<<Subscription(r.id, r.key)>>)
               ELSE UNCHANGED <<outQueue, outLevel, serverLevel, server, answers>>
            /\ sought' = IF r.id \in DOMAIN pending THEN sought ELSE sought \ {r.key}
            /\ UNCHANGED <<nextReq, tracked>>
       ELSE SendTracked({r.key}, r.attempt) /\ UNCHANGED sought
    /\ UNCHANGED <<linkState, watch, handlers, refs, pending, bunches, closes>>

\* sendWithResponse: ten seconds pass without an answer.
RequestTimesOut(id) ==
    /\ id \in DOMAIN pending
    /\ pending' = Without(pending, id)
    /\ UNCHANGED <<linkState, watch, handlers, refs, tracked, outQueue, outLevel, retries, nextReq,
                   server, serverLevel, answers, sought, bunches, closes>>

\* A drain interval passes: the bucket leaks, and the drain timer fires if the
\* queue is not empty.  A message that arrives bunched with the one before it
\* finds the server's bucket as that one left it.
DrainInterval ==
    /\ outLevel > 0 \/ serverLevel > 0 \/ outQueue # <<>>
    /\ linkState # "down"
    /\ \E leaked \in {0, 1} :
          /\ leaked = 0 => outQueue # <<>> /\ bunches < MaxBunches
          /\ bunches' = bunches + 1 - leaked
          /\ Drain(outQueue, IF outLevel > 0 THEN outLevel - 1 ELSE 0,
                   IF serverLevel > 0 THEN serverLevel - leaked ELSE 0)
    /\ UNCHANGED <<linkState, watch, handlers, refs, pending, tracked, retries, nextReq, sought,
                   closes>>

-----------------------------------------------------------------------------
(* The connection, as far as requests see it *)

\* The open listener: resetOut.
Opens ==
    /\ linkState = "down" /\ nextReq <= MaxIds
    /\ linkState' = "open"
    /\ outQueue' = <<>> /\ outLevel' = 0 /\ tracked' = <<>>
    /\ server' = {} /\ serverLevel' = 0 /\ answers' = <<>> /\ sought' = {}
    /\ UNCHANGED <<watch, handlers, refs, pending, retries, nextReq, bunches, closes>>

\* WELCOME; after a reconnect, resubscribe sends every subscription again.
Welcomes ==
    /\ linkState = "open"
    /\ linkState' = "welcomed"
    /\ LET held == {k \in FeedKeys : refs[k] > 0}
       IN  IF closes > 0
           THEN SendTracked(held, 0) /\ sought' = sought \cup held
           ELSE UNCHANGED <<nextReq, tracked, outQueue, outLevel, serverLevel, server, answers, sought>>
    /\ UNCHANGED <<watch, handlers, refs, pending, retries, bunches, closes>>

\* The close listener: resetOut; requests go on waiting.
Closes ==
    /\ linkState = "welcomed" /\ closes < MaxCloses
    /\ linkState' = "down" /\ closes' = closes + 1
    /\ outQueue' = <<>> /\ outLevel' = 0 /\ tracked' = <<>>
    /\ server' = {} /\ serverLevel' = 0 /\ answers' = <<>> /\ sought' = {}
    /\ UNCHANGED <<watch, handlers, refs, pending, retries, nextReq, bunches>>

\* disconnect(): every promise is rejected.
Disconnects ==
    /\ linkState = "welcomed" /\ closes < MaxCloses
    /\ linkState' = "down" /\ closes' = closes + 1
    /\ pending' = <<>>
    /\ outQueue' = <<>> /\ outLevel' = 0 /\ tracked' = <<>>
    /\ server' = {} /\ serverLevel' = 0 /\ answers' = <<>> /\ sought' = {}
    /\ UNCHANGED <<watch, handlers, refs, retries, nextReq, bunches>>

FeedReqNext ==
    \/ \E w \in Watchers : Watch(w) \/ Teardown(w)
    \/ OnAnswer
    \/ \E r \in retries : RetryFires(r)
    \/ \E id \in DOMAIN pending : RequestTimesOut(id)
    \/ DrainInterval
    \/ Opens \/ Welcomes \/ Closes \/ Disconnects

FeedReqSpec == FeedReqInit /\ [][FeedReqNext]_reqVars

-----------------------------------------------------------------------------
\* Once nothing is under way, whoever still watches is told: the server pushes
\* for its key, if that was asked for on this connection without being refused or
\* given up, and a frame about its entity is handed to it; and whoever has let go
\* is handed nothing.  So however watchers came and went and requests were rate
\* limited (subscriptions.js, pacing.js, event_frames.js).
HeldIsSubscribed ==
    /\ (linkState = "welcomed" /\ outQueue = <<>> /\ answers = <<>> /\ retries = {}) =>
           \A w \in Watchers : (watch[w] = "on" /\ WatchKey[w] \in sought) => WatchKey[w] \in server
    /\ \A w \in Watchers, t \in DOMAIN handlers :
           w \in Reached([type |-> t, names |-> {EntityOf[WatchKey[w]]}])
               <=> watch[w] = "on" /\ t \in WatchTypes[w]
=============================================================================
