---------------------------- MODULE SdkCallsProofs ----------------------------
(***************************************************************************)
(* Proofs about the components that serve an SDK caller: calls of the      *)
(* services for any number of retries, lookups of any list, waits for any  *)
(* transaction with any number of polls, a configuration fetched from any  *)
(* number of hubs, an event feed over any connection, the requests made    *)
(* over it, the workflows, and a light client of any chain.                *)
(***************************************************************************)
EXTENDS ServiceCalls, ReferenceLookup, ActionWaiter, HubConfig, EventFeed, Workflows, FeedRequests,
        LightClient, SumLemmas, SequenceTheorems

-----------------------------------------------------------------------------
(* Calls of the services. *)

\* A call under way has come to nothing yet; a broadcast is the caller's only
\* call, at its first attempt, and has not been carried out.
CallInv ==
    /\ DOMAIN done = CallOps
    /\ call # NoCall => /\ call.op \in CallOps /\ call.again = RetriesOp(call.op)
                        /\ said = "nothing"
                        /\ call.op = "broadcast_tx" <=> want = "broadcast"
    /\ done["broadcast_tx"] \in {0, 1}
    /\ want # "broadcast" \/ said = "nothing" => done["broadcast_tx"] = 0
    /\ want = "broadcast" => outputs = {}
    /\ BroadcastIsHonest

\* The destination of a fee.
LEMMA FeeIsPinned ==
    ASSUME NEW q \in Quotes, native.net = "main"
    PROVE  FeeOutputs(q).outs \subseteq {PinnedFee}
<1>1. FeeDestinationOk(q) => {q.to} \subseteq {PinnedFee}
    BY DEF FeeDestinationOk
<1>2. FeeOutputs(q).outs \in {{}, {q.to}}
    BY DEF FeeOutputs
<1>3. FeeOutputs(q).outs = {q.to} => FeeDestinationOk(q) \/ FeeOutputs(q).outs = {}
    BY DEF FeeOutputs
<1> QED BY <1>1, <1>2, <1>3

\* An attempt at a broadcast ends the call; it may have been carried out only if
\* the answer was lost or good.
LEMMA BroadcastEnds ==
    ASSUME CallInv, NEW o \in Outcomes, call.op = "broadcast_tx"
    PROVE  ~TriesAgain(call, o)
<1>1. call # NoCall
    BY DEF NoCall
<1>2. call.again = RetriesOp(call.op)
    BY <1>1 DEF CallInv
<1>3. ~RetriesOp(call.op)
    BY DEF RetriesOp
<1>4. ~call.again
    BY <1>2, <1>3, Zenon
<1> QED BY <1>4 DEF TriesAgain

LEMMA CallStep ==
    ASSUME CallInv, [CallNext]_callVars
    PROVE  CallInv'
<1> USE DEF CallInv, BroadcastIsHonest
<1>1. CASE CallStarts
    BY <1>1 DEF CallStarts, Begin, NoCall, CallOps
<1>2. CASE CallAnswered
    BY <1>2 DEF CallAnswered, NoCall, CallOps
<1>3. ASSUME NEW o \in Outcomes, NEW carried \in BOOLEAN, AttemptFails(o, carried)
      PROVE  CallInv'
    BY <1>3, BroadcastEnds DEF AttemptFails, NoCall, CallOps
<1>4. ASSUME NEW o \in Outcomes, NEW carried \in BOOLEAN, CallFails(o, carried)
      PROVE  CallInv'
    <2>1. /\ call' = NoCall /\ said' = ErrorOf(o) /\ UNCHANGED <<want, native, outputs>>
          /\ done' = [done EXCEPT ![call.op] = @ + (IF carried THEN 1 ELSE 0)]
          /\ call # NoCall /\ carried \in Carried(o)
        BY <1>4 DEF CallFails
    <2>2. ErrorOf(o) # "OK" /\ ErrorOf(o) # "nothing"
        BY DEF ErrorOf
    <2>3. ErrorOf(o) \in {"RPC_ERROR", "RATE_LIMITED"} => ~carried
        BY <2>1 DEF ErrorOf, Carried, Outcomes
    <2>4. CASE call.op = "broadcast_tx"
        BY <2>1, <2>2, <2>3, <2>4 DEF NoCall, CallOps
    <2>5. CASE call.op # "broadcast_tx"
        BY <2>1, <2>2, <2>5 DEF NoCall, CallOps
    <2> QED BY <2>4, <2>5
<1>5. ASSUME NEW u, UtxosAnswered(u) PROVE CallInv'
    BY <1>5 DEF UtxosAnswered, Begin, NoCall, CallOps, RetriesOp
<1>6. ASSUME NEW q \in Quotes, QuoteAnswered(q) PROVE CallInv'
    BY <1>6, FeeIsPinned DEF QuoteAnswered, Begin, NoCall, CallOps, RetriesOp
<1>7. CASE UNCHANGED callVars
    BY <1>7 DEF callVars
<1> QED BY <1>1, <1>2, <1>3, <1>4, <1>5, <1>6, <1>7 DEF CallNext

\* A broadcast is carried out at most once, and what it reports is so; a native
\* fee goes to the pinned destination.  For any number of retries, any answer
\* and any outcome of every attempt (retry.js, transactions.js).
THEOREM BroadcastsAreHonest ==
    ASSUME NEW wants, NEW natives
    PROVE  CallSpec(wants, natives) => []BroadcastIsHonest
<1>1. CallInit(wants, natives) => CallInv
    BY DEF CallInit, CallInv, BroadcastIsHonest, NoCall, CallOps
<1>2. CallInv => BroadcastIsHonest
    BY DEF CallInv
<1> QED BY <1>1, <1>2, CallStep, PTL DEF CallSpec

-----------------------------------------------------------------------------
(* Lookups. *)

\* Items are looked up once the gate is active, and never those that are kept;
\* what is cached under a key is the id of what is spelled like the key.
LookupInv ==
    /\ nextIndex \in Nat \ {0} /\ busy \subseteq 1..Len(Items)
    /\ stage \in {"parent", "items"} \/ busy # {} => gateActive
    /\ \A i \in busy : Items[i] \notin KeptItems
    /\ \A k \in DOMAIN refCache : refCache[k] = IdOf[k]
    /\ DOMAIN results = 1..Len(Items)
    /\ ItemsKeepTheirMeaning

\* The id a key is cached with is the id of every item with that key.
LEMMA KeyDenotes ==
    ASSUME NEW item, item \notin KeptItems
    PROVE  Denotes(item) = IdOf[CacheKey(item)]
BY DEF Denotes, CacheKey

LEMMA LookupStep ==
    ASSUME LookupInv, [LookupNext]_lookupVars
    PROVE  LookupInv'
<1> USE ItemsAssumption DEF LookupInv, ItemsKeepTheirMeaning
<1>1. ASSUME NEW item, GetsIndexed(item) PROVE LookupInv'
    BY <1>1 DEF GetsIndexed, Denotes
<1>2. CASE GateAsked
    BY <1>2 DEF GateAsked, Denotes
<1>3. CASE ParentAsked
    BY <1>3 DEF ParentAsked, Denotes
<1>4. CASE WorkerTakes
    <2> DEFINE item == Items[nextIndex]
    <2>1. /\ stage = "items" /\ gateActive /\ nextIndex \in 1..Len(Items)
          /\ nextIndex' = nextIndex + 1
          /\ UNCHANGED <<listKind, gateActive, stage, refCache>>
        BY <1>4 DEF WorkerTakes
    <2>2. \A x : Denotes(x)' = Denotes(x)
        BY <2>1 DEF Denotes
    <2>3. CASE Immediate(item)
        <3>1. /\ UNCHANGED busy
              /\ results' = [results EXCEPT ![nextIndex] =
                                IF item \in KeptItems THEN Plain(item)
                                ELSE Reference(refCache[CacheKey(item)])]
            BY <1>4, <2>3 DEF WorkerTakes
        <3>2. item \notin KeptItems => Reference(refCache[CacheKey(item)]) = Reference(Denotes(item))
            BY <2>3, KeyDenotes DEF Immediate
        <3>3. /\ results'[nextIndex] \in {Plain(item), Reference(Denotes(item))}
              /\ results'[nextIndex] # Plain(item) => item \notin KeptItems
            BY <2>1, <3>1, <3>2
        <3>4. \A i \in 1..Len(Items) : i # nextIndex => results'[i] = results[i]
            BY <3>1
        <3> QED BY <2>1, <2>2, <3>1, <3>3, <3>4
    <2>4. CASE ~Immediate(item)
        <3>1. busy' = busy \cup {nextIndex} /\ UNCHANGED results
            BY <1>4, <2>4 DEF WorkerTakes
        <3>2. item \notin KeptItems
            BY <2>4 DEF Immediate
        <3> QED BY <2>1, <2>2, <3>1, <3>2
    <2> QED BY <2>3, <2>4
<1>5. ASSUME NEW i \in busy, LookupAnswered(i) PROVE LookupInv'
    <2> DEFINE item == Items[i]
    <2>1. /\ UNCHANGED <<listKind, gateActive, stage, nextIndex>>
          /\ busy' = busy \ {i} /\ gateActive /\ item \notin KeptItems /\ i \in 1..Len(Items)
        BY <1>5 DEF LookupAnswered
    <2>2. \A x : Denotes(x)' = Denotes(x)
        BY <2>1 DEF Denotes
    <2>3. \A k \in DOMAIN refCache' : refCache'[k] = IdOf[k]
        BY <1>5, <2>1, KeyDenotes DEF LookupAnswered
    <2>4. results' \in {results, [results EXCEPT ![i] = Reference(Denotes(item))]}
        BY <1>5 DEF LookupAnswered
    <2>5. /\ DOMAIN results' = 1..Len(Items)
          /\ results'[i] \in {results[i], Reference(Denotes(item))}
          /\ \A j \in 1..Len(Items) : j # i => results'[j] = results[j]
        BY <2>1, <2>4
    <2> QED BY <2>1, <2>2, <2>3, <2>5
<1>6. ASSUME NEW i \in busy, LookupFails(i) PROVE LookupInv'
    BY <1>6 DEF LookupFails, Denotes
<1>7. CASE LookupsEnd
    BY <1>7 DEF LookupsEnd, Denotes
<1>8. CASE UNCHANGED lookupVars
    BY <1>8 DEF lookupVars, Denotes
<1> QED BY <1>1, <1>2, <1>3, <1>4, <1>5, <1>6, <1>7, <1>8 DEF LookupNext

\* A list of any length keeps its order and its meaning, with any number of
\* lookups under way and in whatever order they end, fail or come too late
\* (tick_resolver.js, address_resolver.js, utils/list).
THEOREM ListsKeepTheirMeaning ==
    ASSUME NEW kinds, NEW flags
    PROVE  LookupSpec(kinds, flags) => []ItemsKeepTheirMeaning
<1>1. LookupInit(kinds, flags) => LookupInv
    BY ItemsAssumption DEF LookupInit, LookupInv, ItemsKeepTheirMeaning
<1>2. LookupInv => ItemsKeepTheirMeaning
    BY DEF LookupInv
<1> QED BY <1>1, <1>2, LookupStep, PTL DEF LookupSpec

-----------------------------------------------------------------------------
(* Waits. *)

Statuses == {"none", "unknown", "valid", "invalid", "cancelled"}

\* A transaction's actions are indexed together.
Together(l) == (\A a \in Acts : l[a] = "none") \/ (\A a \in Acts : l[a] # "none")

\* What an answer under way says was so when it was asked.
WasSo(snap) ==
    /\ Together(snap.ledger)
    /\ \A a \in Acts : snap.ledger[a] \in {"none", "unknown"} \/ ledger[a] = snap.ledger[a]
    /\ \A a \in Acts : ledger[a] = "none" => snap.ledger[a] = "none"
    /\ snap.contract => contract

AskTyped ==
    /\ ask.kind \in {"txid", "index", "contract"} /\ ask.target \subseteq Acts
    /\ ask.kind = "txid" => ask.target # {}

\* Answers and events say what was so, and a missing status was seen on a target.
WaitInv ==
    /\ AskTyped /\ DOMAIN ledger = Acts /\ \A a \in Acts : ledger[a] \in Statuses
    /\ Together(ledger)
    /\ \A snap \in inFlight : WasSo(snap)
    /\ \A e \in events : /\ e.act \in Acts /\ e.status # "none" /\ ledger[e.act] # "none"
                         /\ e.status # "unknown" => ledger[e.act] = e.status
    /\ listening => ask.kind = "txid"
    /\ sawUnknown => \E a \in ask.target : ledger[a] # "none"
    /\ WaitTellsTheTruth

\* What was so stays so.
LEMMA LedgerGrows ==
    ASSUME WaitInv, DOMAIN ledger' = Acts, \A a \in Acts : ledger'[a] \in Statuses,
           Together(ledger)', contract => contract',
           \A a \in Acts : /\ ledger[a] \notin {"none", "unknown"} => ledger'[a] = ledger[a]
                           /\ ledger[a] # "none" => ledger'[a] # "none",
           UNCHANGED <<ask, inFlight, listening, interval, sawUnknown, ended>>,
           \A e \in events' : \/ e \in events
                              \/ e.act \in Acts /\ e.status # "none" /\ ledger'[e.act] = e.status
    PROVE  WaitInv'
<1> USE DEF WaitInv
<1>1. ASSUME NEW snap \in inFlight PROVE WasSo(snap)'
    BY DEF WasSo, Together
<1>2. WaitTellsTheTruth'
    BY DEF WaitTellsTheTruth, AskTyped
<1>3. AskTyped'
    BY DEF AskTyped
<1>4. sawUnknown' => \E a \in ask'.target : ledger'[a] # "none"
    BY DEF AskTyped
<1>5. \A e \in events' : /\ e.act \in Acts /\ e.status # "none" /\ ledger'[e.act] # "none"
                         /\ e.status # "unknown" => ledger'[e.act] = e.status
    OBVIOUS
<1> QED BY <1>1, <1>2, <1>3, <1>4, <1>5

\* What the explorer would answer now is so.
LEMMA NowIsSo ==
    ASSUME WaitInv
    PROVE  WasSo([ledger |-> ledger, contract |-> contract])
BY DEF WaitInv, WasSo

\* A wait for one action has one target.
LEMMA OneTarget ==
    ASSUME AskTyped, Targeted, NEW a \in ask.target
    PROVE  ask.target = {a}
<1>1. IsFiniteSet(ask.target)
    BY ActsAssumption, FS_Subset DEF AskTyped
<1>2. PICK x : ask.target = {x}
    BY <1>1, FS_Singleton DEF Targeted
<1> QED BY <1>2

\* A wait that settles on an answer or an event, or goes on.
LEMMA SettlesSo ==
    ASSUME WaitInv, UNCHANGED <<ask, ledger, contract>>, events' \subseteq events,
           \A snap \in inFlight' :
               snap \in inFlight \/ snap = [ledger |-> ledger, contract |-> contract],
           sawUnknown' => \E a \in ask.target : ledger[a] # "none",
           \/ UNCHANGED <<ended, listening>> /\ (UNCHANGED interval \/ ended = "open")
           \/ /\ ended' # "open" /\ ~listening' /\ interval' = "none"
              /\ ended' = "resolved" /\ ask.kind = "txid" =>
                    \A a \in ask.target : /\ ledger[a] \notin {"none", "unknown"}
                                          /\ ask.requireValid => ledger[a] # "invalid"
              /\ ended' = "resolved" /\ ask.kind = "contract" => contract
              /\ ended' = "rejected" => \E a \in ask.target : ledger[a] = "invalid"
              /\ ended' = "assumed" => ~(ask.requireValid /\ ask.strictStatus)
              /\ ended' = "statusUnknown" => \E a \in ask.target : ledger[a] # "none"
    PROVE  WaitInv'
<1> USE DEF WaitInv
<1>1. ASSUME NEW snap \in inFlight' PROVE WasSo(snap)'
    <2>1. WasSo(snap)
        BY NowIsSo
    <2> QED BY <2>1 DEF WasSo, Together
<1>2. WaitTellsTheTruth'
    BY DEF WaitTellsTheTruth
<1>3. AskTyped' /\ Together(ledger)'
    BY DEF AskTyped, Together
<1>4. \A e \in events' : /\ e.act \in Acts /\ e.status # "none" /\ ledger'[e.act] # "none"
                         /\ e.status # "unknown" => ledger'[e.act] = e.status
    OBVIOUS
<1>5. listening' => ask'.kind = "txid"
    OBVIOUS
<1> QED BY <1>1, <1>2, <1>3, <1>4, <1>5

\* An answer: what it settles is so.
LEMMA AnswerSettles ==
    ASSUME WaitInv, NEW snap \in inFlight, Answered(snap)
    PROVE  WaitInv'
<1>1. /\ UNCHANGED <<ask, ledger, contract, events>> /\ inFlight' = inFlight \ {snap}
      /\ WasSo(snap) /\ AskTyped
    BY DEF WaitInv, Answered
<1>2. \A a \in Found(snap) : a \in ask.target /\ snap.ledger[a] # "none" /\ ledger[a] # "none"
    BY <1>1 DEF Found, WasSo, AskTyped
<1>3. Found(snap) # {} => Found(snap) = ask.target
    BY <1>1 DEF Found, WasSo, Together, AskTyped
<1>4. Rejected(snap) => \E a \in ask.target : ledger[a] = "invalid"
    BY <1>1, <1>2 DEF Rejected, WasSo, AskTyped
<1>5. StatusMissing(snap) => \E a \in ask.target : ledger[a] # "none"
    BY <1>2 DEF StatusMissing
<1>6. ASSUME Found(snap) # {}, ~Rejected(snap), ~StatusMissing(snap), NEW a \in ask.target
      PROVE  /\ ledger[a] \notin {"none", "unknown"}
             /\ ask.requireValid => ledger[a] # "invalid"
    BY <1>1, <1>2, <1>3, <1>6 DEF Rejected, StatusMissing, WasSo, AskTyped
<1>7. CASE UNCHANGED <<interval, listening, ended, sawUnknown>>
    BY <1>1, <1>7, SettlesSo DEF WaitInv
<1>8. CASE ~UNCHANGED <<interval, listening, ended, sawUnknown>>
    <2>1. /\ ended = "open"
          /\ ask.kind = "contract" => snap.contract
          /\ ask.kind # "contract" => Found(snap) # {}
        BY <1>8 DEF Answered, ValueReached
    <2>2. CASE ask.kind # "txid"
        <3>1. Settle("resolved") /\ UNCHANGED sawUnknown
            BY <1>8, <2>2 DEF Answered
        <3>2. ended' = "resolved" /\ ~listening' /\ interval' = "none"
            BY <3>1 DEF Settle
        <3>3. ask.kind = "contract" => contract
            BY <1>1, <2>1 DEF WasSo
        <3>4. sawUnknown' => \E a \in ask.target : ledger[a] # "none"
            BY <3>1 DEF WaitInv
        <3> QED BY <1>1, <2>2, <3>2, <3>3, <3>4, SettlesSo
    <2>3. CASE ask.kind = "txid" /\ Rejected(snap)
        <3>1. Settle("rejected") /\ UNCHANGED sawUnknown
            BY <1>8, <2>3 DEF Answered
        <3> QED BY <1>1, <1>4, <2>3, <3>1, SettlesSo DEF Settle, WaitInv
    <2>4. CASE ask.kind = "txid" /\ ~Rejected(snap)
        <3>1. sawUnknown' = (sawUnknown \/ StatusMissing(snap))
            BY <1>8, <2>4 DEF Answered
        <3>2. sawUnknown' => \E a \in ask.target : ledger[a] # "none"
            BY <1>5, <3>1 DEF WaitInv
        <3>3. CASE StatusMissing(snap)
            <4>1. \/ UNCHANGED <<interval, listening, ended>>
                  \/ Settle("assumed") /\ ~(ask.requireValid /\ ask.strictStatus)
                BY <1>8, <2>4, <3>3 DEF Answered
            <4> QED BY <1>1, <3>2, <4>1, SettlesSo DEF Settle
        <3>4. CASE ~StatusMissing(snap)
            <4>1. Settle("resolved")
                BY <1>8, <2>4, <3>4 DEF Answered
            <4> QED BY <1>1, <1>6, <2>1, <2>4, <3>2, <3>4, <4>1, SettlesSo DEF Settle
        <3> QED BY <3>3, <3>4
    <2> QED BY <2>2, <2>3, <2>4
<1> QED BY <1>7, <1>8

\* An event, and the deadline.
LEMMA EventSettles ==
    ASSUME WaitInv, NEW e \in events, Event(e)
    PROVE  WaitInv'
<1>1. UNCHANGED <<ask, ledger, contract, sawUnknown>> /\ events' = events \ {e} /\ AskTyped
    BY DEF WaitInv, Event
<1>2. \/ UNCHANGED <<inFlight, interval, listening, ended>>
      \/ /\ inFlight' = inFlight \cup {[ledger |-> ledger, contract |-> contract]}
         /\ UNCHANGED <<interval, listening, ended>>
      \/ /\ Targeted /\ listening /\ e.act \in ask.target /\ e.status # "unknown"
         /\ Settle(IF ask.requireValid /\ e.status = "invalid" THEN "rejected" ELSE "resolved")
         /\ UNCHANGED inFlight
    BY DEF Event
<1>3. CASE UNCHANGED <<interval, listening, ended>>
    BY <1>1, <1>2, <1>3, SettlesSo DEF WaitInv, Settle
<1>4. CASE /\ Targeted /\ listening /\ e.act \in ask.target /\ e.status # "unknown"
           /\ Settle(IF ask.requireValid /\ e.status = "invalid" THEN "rejected" ELSE "resolved")
           /\ UNCHANGED inFlight
    <2>1. ask.target = {e.act} /\ ledger[e.act] = e.status /\ e.status # "none"
          /\ ask.kind = "txid"
        BY <1>1, <1>4, OneTarget DEF WaitInv
    <2> QED BY <1>1, <1>4, <2>1, SettlesSo DEF Settle, WaitInv
<1> QED BY <1>2, <1>3, <1>4

LEMMA WaitStep ==
    ASSUME WaitInv, [WaitNext]_waitVars
    PROVE  WaitInv'
<1>1. CASE Indexed
    <2>1. PICK st \in [Acts -> {"unknown", "valid", "invalid", "cancelled"}] :
              ledger' = st /\ events' = {[act |-> a, status |-> st[a]] : a \in Acts}
        BY <1>1 DEF Indexed
    <2>2. \A a \in Acts : ledger[a] = "none"
        BY <1>1 DEF Indexed
    <2>3. \A a \in Acts : ledger'[a] \in Statuses /\ ledger'[a] # "none"
        BY <2>1 DEF Statuses
    <2>4. \A e \in events' : e.act \in Acts /\ e.status # "none" /\ ledger'[e.act] = e.status
        BY <2>1, <2>3
    <2>5. UNCHANGED <<ask, contract, inFlight, listening, interval, sawUnknown, ended>>
        BY <1>1 DEF Indexed
    <2> QED BY <2>1, <2>2, <2>3, <2>4, <2>5, LedgerGrows DEF Together
<1>2. CASE StatusKnown
    <2>1. PICK a \in Acts, st \in {"valid", "invalid"} :
              ledger[a] = "unknown" /\ ledger' = [ledger EXCEPT ![a] = st]
        BY <1>2 DEF StatusKnown
    <2>2. UNCHANGED <<ask, contract, events, inFlight, listening, interval, sawUnknown, ended>>
        BY <1>2 DEF StatusKnown
    <2> QED BY <2>1, <2>2, LedgerGrows DEF WaitInv, Together, Statuses
<1>3. CASE Executes
    BY <1>3, LedgerGrows DEF Executes, WaitInv, Together
<1>4. CASE Poll
    BY <1>4, SettlesSo DEF Poll, WaitInv
<1>5. CASE PollFails
    BY <1>5, SettlesSo DEF PollFails, WaitInv
<1>6. ASSUME NEW snap \in inFlight, Answered(snap) PROVE WaitInv'
    BY <1>6, AnswerSettles
<1>7. ASSUME NEW e \in events, Event(e) PROVE WaitInv'
    BY <1>7, EventSettles
<1>8. CASE Deadline
    BY <1>8, SettlesSo DEF Deadline, Settle, WaitInv
<1>9. CASE UNCHANGED waitVars
    BY <1>9, SettlesSo DEF waitVars, WaitInv
<1> QED BY <1>1, <1>2, <1>3, <1>4, <1>5, <1>6, <1>7, <1>8, <1>9 DEF WaitNext

\* What a wait reports is so, for a transaction of any number of actions, any
\* number of polls under way, and answers and events in any order
\* (action_waiter.js).
THEOREM WaitsTellTheTruth ==
    ASSUME NEW waits, waits \subseteq WaitAsks
    PROVE  WaitSpec(waits) => []WaitTellsTheTruth
<1>1. WaitInit(waits) => WaitInv
    <2> SUFFICES ASSUME WaitInit(waits) PROVE WaitInv
        OBVIOUS
    <2>1. ask \in Asks
        BY DEF WaitInit, WaitAsks
    <2>2. AskTyped
        BY <2>1 DEF Asks, AskTyped
    <2> QED BY <2>2 DEF WaitInit, WaitInv, Together, WaitTellsTheTruth, Statuses
<1>2. WaitInv => WaitTellsTheTruth
    BY DEF WaitInv
<1> QED BY <1>1, <1>2, WaitStep, PTL DEF WaitSpec

-----------------------------------------------------------------------------
(* The configuration of the hubs. *)

Row == [value : Urls \cup {Nothing}, at : Nat]

HubAnswers == [whole : [HubParams -> Urls \cup {Nothing}], sent : SUBSET HubParams, mark : Nat,
               seq : Nat, past : BOOLEAN]

FetchStates == [by : {"nobody", "discover", "poll"}, tried : Nat, phase : {"idle", "asked", "answered"},
                hub : Hubs, cursor : Nat, again : BOOLEAN, overtaken : BOOLEAN, answer : HubAnswers]

\* A table of rows written by the given second; a row without a value was never
\* written, and the encoder's was.
Table(t) == /\ t \in [HubParams -> Row]
            /\ \A p \in HubParams : t[p].at <= second /\ (t[p].value = Nothing => t[p].at = 0)
            /\ t[<<Network, "encoder">>].at >= 1

HubTyped ==
    /\ rows \in [Hubs -> [HubParams -> Row]] /\ \A h \in Hubs : Table(rows[h])
    /\ hubSeq \in [Hubs -> Nat] /\ lastSeq \in Nat
    /\ second \in Nat \ {0} /\ lastWatermark \in 0..second
    /\ lastGood \in Hubs
    /\ fetch \in [Fetchers -> FetchStates]

\* A request that no other fetch overtook is about the tree as it is.
RequestInv(f) ==
    /\ fetch[f].phase # "idle" => fetch[f].by # "nobody"
    /\ fetch[f].cursor > 0 /\ ~fetch[f].overtaken =>
          lastWatermark = fetch[f].cursor /\ cursorHub = fetch[f].hub
    /\ fetch[f].again => fetch[f].cursor = 0 /\ (fetch[f].overtaken \/ lastWatermark = 0)

\* What an answer leaves out is empty or, unless the hub went back, in the tree;
\* what it has wrong by now was written in the second of its mark or later.
AnswerInv(f) ==
    LET a == fetch[f].answer
        h == fetch[f].hub
    IN  fetch[f].phase = "answered" =>
            /\ a.mark \in 1..second
            /\ fetch[f].cursor = 0 => \A p \in HubParams \ a.sent : a.whole[p] = Nothing
            /\ fetch[f].cursor > 0 /\ ~fetch[f].overtaken /\ ~mixed /\ h \notin restored =>
                  \A p \in HubParams \ a.sent : a.whole[p] = configs[p]
            /\ ~a.past =>
                  \A p \in HubParams : a.whole[p] = rows[h][p].value \/ rows[h][p].at >= a.mark

\* What the tree does not have of its hub, unless the hub went back, was written
\* in the second of the watermark or later.
TreeInv ==
    lastWatermark > 0 =>
        /\ configs # NullTree /\ cursorHub \in Hubs /\ HubKind[cursorHub] # "bare"
        /\ cursorHub \notin restored /\ ~mixed =>
              \A p \in HubParams : \/ configs[p] = rows[cursorHub][p].value
                                   \/ rows[cursorHub][p].at >= lastWatermark

HubInv ==
    /\ HubTyped /\ TreeInv
    /\ \A f \in Fetchers : RequestInv(f) /\ AnswerInv(f)
    /\ HubIsMirrored

\* A hub has a watermark, and it is not in the future.
LEMMA WatermarkIs ==
    ASSUME HubTyped, NEW h \in Hubs
    PROVE  Watermark(h) \in 1..second
<1> DEFINE B == {w \in 0..second : \A p \in HubParams : rows[h][p].at <= w}
<1>1. \A p \in HubParams : rows[h][p].at \in 0..second
    BY DEF HubTyped, Table, Row
<1>2. second \in B /\ B \subseteq Nat
    BY <1>1 DEF HubTyped
<1> HIDE DEF B
<1>3. PICK w \in B : \A v \in B : w <= v
    BY <1>2, Least
<1>4. w \in 0..second /\ \A p \in HubParams : rows[h][p].at <= w
    BY <1>3 DEF B
<1>5. w = 0 \/ \E p \in HubParams : rows[h][p].at = w
    <2> SUFFICES ASSUME w # 0, \A p \in HubParams : rows[h][p].at # w
                 PROVE  FALSE
        OBVIOUS
    <2>0. second \in Nat
        BY DEF HubTyped
    <2>1. w - 1 \in 0..second /\ w \in Nat
        <3>1. w \in Nat /\ w <= second
            BY <1>4, <2>0
        <3> QED BY <2>0, <3>1
    <2>2. \A p \in HubParams : rows[h][p].at <= w - 1
        <3> TAKE p \in HubParams
        <3>1. rows[h][p].at \in Nat /\ rows[h][p].at <= w /\ rows[h][p].at # w
            BY <1>1, <1>4, <2>0
        <3> QED BY <2>1, <3>1
    <2>3. w - 1 \in B
        BY <2>1, <2>2 DEF B
    <2> QED BY <1>3, <1>4, <2>3
<1> DEFINE IsMark(v) == /\ \A p \in HubParams : rows[h][p].at <= v
                        /\ v = 0 \/ \E p \in HubParams : rows[h][p].at = v
<1>6. IsMark(w)
    BY <1>4, <1>5
<1>7. Watermark(h) = CHOOSE v \in 0..second : IsMark(v)
    BY DEF Watermark
<1>8. <<Network, "encoder">> \in HubParams /\ rows[h][<<Network, "encoder">>].at >= 1
    BY ParamsAssumption DEF HubTyped, Table
<1>9. \A v \in 0..second : IsMark(v) => v >= 1
    <2> TAKE v \in 0..second
    <2>1. rows[h][<<Network, "encoder">>].at \in Nat /\ second \in Nat
        BY <1>1, <1>8 DEF HubTyped
    <2> QED BY <1>8, <2>1
<1> HIDE DEF IsMark
<1>10. Watermark(h) \in 0..second /\ IsMark(Watermark(h))
    BY <1>4, <1>6, <1>7
<1> QED BY <1>9, <1>10 DEF HubTyped

LEMMA HubsAre ==
    Cardinality(Hubs) \in Nat \ {0} /\ Hubs = 0..(Cardinality(Hubs) - 1)
BY HubsAssumption, FS_CardinalityType, FS_EmptySet

\* Every attempt is at one of the hubs, and is about the tree as it is.
LEMMA RequestIs ==
    ASSUME HubTyped, NEW by \in {"discover", "poll"}, NEW tried \in Nat
    PROVE  /\ Request(by, tried) \in FetchStates /\ Request(by, tried).phase = "asked"
           /\ Request(by, tried).by = by /\ Request(by, tried).tried = tried
           /\ ~Request(by, tried).again /\ ~Request(by, tried).overtaken
           /\ Request(by, tried).cursor > 0 => /\ Request(by, tried).cursor = lastWatermark
                                               /\ Request(by, tried).hub = cursorHub
<1> DEFINE n == Cardinality(Hubs)
           h == Candidate(tried)
           c == IF CursorValid(h) THEN lastWatermark ELSE 0
<1>1. n \in Nat \ {0} /\ Hubs = 0..(n - 1)
    BY HubsAre
<1>2. h \in Hubs
    <2> HIDE DEF n
    <2>1. lastGood + tried \in Nat
        BY <1>1 DEF HubTyped
    <2>2. (lastGood + tried) % n \in 0..(n - 1)
        BY <1>1, <2>1
    <2> QED BY <1>1, <2>2 DEF Candidate, n
<1>3. c \in Nat /\ (c > 0 => c = lastWatermark /\ h = cursorHub)
    BY DEF HubTyped, CursorValid
<1>4. NoAnswer \in HubAnswers
    BY DEF NoAnswer, HubAnswers, EmptyTree
<1>a. Request(by, tried) = [NoFetch EXCEPT !.by = by, !.tried = tried, !.phase = "asked", !.hub = h,
                                           !.cursor = c]
    BY DEF Request
<1> HIDE DEF h, c
<1>5. Request(by, tried) =
          [by |-> by, tried |-> tried, phase |-> "asked", hub |-> h, cursor |-> c,
           again |-> FALSE, overtaken |-> FALSE, answer |-> NoAnswer]
    BY <1>a DEF NoFetch
<1>6. Request(by, tried) \in FetchStates
    BY <1>2, <1>3, <1>4, <1>5 DEF FetchStates
<1> QED BY <1>3, <1>5, <1>6

LEMMA NoFetchIs ==
    /\ NoFetch \in FetchStates /\ NoFetch.phase = "idle" /\ NoFetch.cursor = 0
    /\ ~NoFetch.again /\ ~NoFetch.overtaken
<1>1. NoAnswer \in HubAnswers /\ 0 \in Hubs
    BY HubsAre DEF NoAnswer, HubAnswers, EmptyTree
<1> QED BY <1>1 DEF NoFetch, FetchStates

\* The invariants of a fetch are about the tree, the marks and the hubs.
LEMMA FetchKept ==
    ASSUME HubInv, NEW f \in Fetchers, fetch'[f] = fetch[f],
           UNCHANGED <<rows, configs, lastWatermark, cursorHub, restored, mixed>>,
           second' \in Nat, second <= second'
    PROVE  RequestInv(f)' /\ AnswerInv(f)'
<1>1. RequestInv(f) /\ AnswerInv(f) /\ second \in Nat
    BY DEF HubInv, HubTyped
<1>2. RequestInv(f)'
    BY <1>1 DEF RequestInv
<1>3. AnswerInv(f)'
    BY <1>1 DEF AnswerInv
<1> QED BY <1>2, <1>3

\* A step that touches neither the hubs nor the tree, nor moves the marks.
LEMMA HubInvKept ==
    ASSUME HubInv, UNCHANGED <<rows, hubSeq, configs, cursorHub, lastSeq, lastWatermark, history>>,
           second' \in Nat, second <= second', lastGood' \in Hubs,
           fetch' \in [Fetchers -> FetchStates],
           \A f \in Fetchers : fetch'[f] = fetch[f] \/ (RequestInv(f)' /\ AnswerInv(f)')
    PROVE  HubInv'
<1>1. second \in Nat \ {0} /\ lastWatermark \in 0..second /\ HubTyped /\ TreeInv
    BY DEF HubInv, HubTyped
<1>2. ASSUME NEW h \in Hubs PROVE Table(rows[h])'
    <2>1. Table(rows[h])
        BY <1>1 DEF HubTyped
    <2>2. \A p \in HubParams : rows[h][p].at \in Nat
        BY <2>1 DEF Table, Row
    <2> QED BY <1>1, <2>1, <2>2 DEF Table
<1>3. HubTyped'
    BY <1>1, <1>2 DEF HubTyped
<1>4. TreeInv'
    BY <1>1 DEF TreeInv, history
<1>5. \A f \in Fetchers : RequestInv(f)' /\ AnswerInv(f)'
    BY FetchKept DEF history
<1>6. HubIsMirrored'
    BY DEF HubInv, HubIsMirrored, history
<1> QED BY <1>3, <1>4, <1>5, <1>6 DEF HubInv

\* What is not asked of a hub that did not go back is in the tree already.
LEMMA DeltaIsWhole ==
    ASSUME HubInv, NEW f \in Fetchers, NEW h, h = fetch[f].hub, fetch[f].cursor > 0,
           ~fetch[f].overtaken, ~mixed, h \notin restored,
           NEW p \in HubParams, p \notin Served(h, SinceCursor(f))
    PROVE  rows[h][p].value = configs[p]
<1>1. fetch[f] \in FetchStates /\ h \in Hubs /\ fetch[f].cursor \in Nat
    BY DEF HubInv, HubTyped, FetchStates
<1>2. Table(rows[h]) /\ lastWatermark \in Nat
    BY <1>1 DEF HubInv, HubTyped
<1>3. rows[h][p].at \in Nat /\ (rows[h][p].value = Nothing => rows[h][p].at = 0)
    BY <1>2 DEF Table, Row
<1>4. lastWatermark = fetch[f].cursor /\ cursorHub = h /\ lastWatermark > 0
    BY DEF HubInv, RequestInv
<1>5. configs[p] = rows[h][p].value \/ rows[h][p].at >= lastWatermark
    BY <1>4 DEF HubInv, TreeInv
<1>6. SinceCursor(f) = lastWatermark - 1
    BY <1>4 DEF SinceCursor
<1>7. rows[h][p].value = Nothing \/ ~(rows[h][p].at > lastWatermark - 1)
    BY <1>6 DEF Served
<1>8. ~(rows[h][p].at >= lastWatermark)
    BY <1>2, <1>3, <1>4, <1>7
<1> QED BY <1>5, <1>8

\* An answer laid over the tree is the tree of the hub, unless the hub went back
\* or another fetch got in between.
LEMMA AnswerIsWhole ==
    ASSUME HubInv, NEW f \in Fetchers, fetch[f].phase = "answered", ~fetch[f].overtaken, ~mixed,
           fetch[f].cursor > 0 => fetch[f].hub \notin restored
    PROVE  Merged(Base(f), fetch[f].answer) = fetch[f].answer.whole
<1> DEFINE a == fetch[f].answer
           b == Base(f)
<1>1. fetch[f] \in FetchStates /\ RequestInv(f) /\ AnswerInv(f) /\ TreeInv
    BY DEF HubInv, HubTyped
<1>2. a.whole \in [HubParams -> Urls \cup {Nothing}] /\ fetch[f].cursor \in Nat
    BY <1>1 DEF FetchStates, HubAnswers
<1>3. ASSUME NEW p \in HubParams \ a.sent
      PROVE  a.whole[p] = b[p]
    <2>1. CASE fetch[f].cursor > 0
        <3>1. lastWatermark = fetch[f].cursor /\ cursorHub = fetch[f].hub
            BY <1>1, <2>1 DEF RequestInv
        <3>2. configs # NullTree /\ HubKind[fetch[f].hub] # "bare" /\ lastWatermark > 0
            BY <1>1, <2>1, <3>1 DEF TreeInv
        <3>3. b = configs
            BY <2>1, <3>2 DEF Base
        <3>4. a.whole[p] = configs[p]
            BY <1>1, <2>1 DEF AnswerInv
        <3> QED BY <3>3, <3>4
    <2>2. CASE fetch[f].cursor = 0
        <3>1. fetch[f].again => lastWatermark = 0
            BY <1>1 DEF RequestInv
        <3>2. b = EmptyTree
            BY <2>2, <3>1 DEF Base
        <3>3. a.whole[p] = Nothing
            BY <1>1, <2>2 DEF AnswerInv
        <3> QED BY <3>2, <3>3 DEF EmptyTree
    <2> QED BY <1>2, <2>1, <2>2
<1> HIDE DEF a, b
<1>4. Merged(b, a) = a.whole
    BY <1>2, <1>3 DEF Merged, a
<1> QED BY <1>4 DEF a, b

\* A tree that is not the hub's has its reason.
LEMMA NothingStale ==
    ASSUME HubInv, NEW f \in Fetchers, Answers(f)
    PROVE  /\ verdict' # "stale"
           /\ configs' = fetch[f].answer.whole \/ mixed' \/ fetch[f].hub \in restored
<1> DEFINE a == fetch[f].answer
           tree == Merged(Base(f), a)
<1>1. /\ fetch[f].phase = "answered" /\ (fetch[f].cursor > 0 => ~Regressed(f))
      /\ configs' = tree /\ verdict' = Verdict(f, tree)
      /\ mixed' = (tree # a.whole /\ (mixed \/ fetch[f].overtaken))
    BY DEF Answers
<1>2. fetch[f] \in FetchStates /\ RequestInv(f) /\ AnswerInv(f) /\ TreeInv /\ lastSeq \in Nat
      /\ lastWatermark \in Nat
    BY DEF HubInv, HubTyped
<1>3. a.mark \in Nat /\ a.mark >= 1 /\ a.seq \in Nat /\ fetch[f].cursor \in Nat
    BY <1>1, <1>2 DEF AnswerInv, FetchStates, HubAnswers
<1>4. CASE tree = a.whole
    BY <1>1, <1>4 DEF Verdict
<1>5. CASE tree # a.whole /\ (mixed \/ fetch[f].overtaken)
    BY <1>1, <1>5 DEF Verdict
<1>6. CASE tree # a.whole /\ ~(mixed \/ fetch[f].overtaken)
    <2>1. fetch[f].cursor > 0 /\ fetch[f].hub \in restored
        BY <1>1, <1>6, AnswerIsWhole
    <2>2. lastWatermark = fetch[f].cursor /\ cursorHub = fetch[f].hub
        BY <1>2, <1>6, <2>1 DEF RequestInv
    <2>3. HubKind[fetch[f].hub] # "bare"
        BY <1>2, <2>1, <2>2 DEF TreeInv
    <2>4. ~(a.mark > 0 /\ a.mark < lastWatermark) /\ ~(lastSeq > 0 /\ a.seq < lastSeq)
        BY <1>1, <2>1, <2>3 DEF Regressed
    <2>5. a.mark >= lastWatermark /\ a.seq >= lastSeq
        BY <1>2, <1>3, <2>4
    <2>6. Verdict(f, tree) = "lost"
        BY <1>6, <2>1, <2>5 DEF Verdict
    <2> QED BY <1>1, <2>1, <2>6
<1> QED BY <1>4, <1>5, <1>6

\* The others are overtaken, and nothing else changes about them.
LEMMA OthersKept ==
    ASSUME HubInv, NEW f \in Fetchers, NEW mine \in FetchStates, fetch' = OthersOvertaken(f, mine),
           UNCHANGED <<rows, second>>, lastWatermark' \in Nat
    PROVE  /\ fetch' \in [Fetchers -> FetchStates] /\ fetch'[f] = mine
           /\ \A g \in Fetchers \ {f} : RequestInv(g)' /\ AnswerInv(g)'
<1>1. ASSUME NEW g \in Fetchers \ {f}
      PROVE  /\ fetch'[g] \in FetchStates /\ RequestInv(g)' /\ AnswerInv(g)'
    <2>1. fetch[g] \in FetchStates /\ RequestInv(g) /\ AnswerInv(g)
        BY DEF HubInv, HubTyped
    <2> DEFINE late == fetch[g].overtaken \/ fetch[g].cursor > 0 \/ fetch[g].again
    <2>2. late \in BOOLEAN
        BY <2>1 DEF FetchStates
    <2>3. fetch'[g] = [fetch[g] EXCEPT !.overtaken = late]
        BY DEF OthersOvertaken
    <2> HIDE DEF late
    <2>4. /\ fetch'[g] \in FetchStates /\ fetch'[g].overtaken = late
          /\ fetch'[g].phase = fetch[g].phase /\ fetch'[g].hub = fetch[g].hub
          /\ fetch'[g].cursor = fetch[g].cursor /\ fetch'[g].again = fetch[g].again
          /\ fetch'[g].answer = fetch[g].answer /\ fetch'[g].by = fetch[g].by
        BY <2>1, <2>2, <2>3 DEF FetchStates
    <2>5. fetch'[g].cursor > 0 \/ fetch'[g].again => fetch'[g].overtaken
        BY <2>4 DEF late
    <2>6. RequestInv(g)'
        BY <2>1, <2>4, <2>5 DEF RequestInv
    <2>7. AnswerInv(g)'
        BY <2>1, <2>4, <2>5 DEF AnswerInv
    <2> QED BY <2>4, <2>6, <2>7
<1>2. fetch'[f] = mine /\ DOMAIN fetch' = Fetchers
    BY DEF OthersOvertaken
<1>3. fetch' = [g \in Fetchers |-> fetch'[g]]
    BY DEF OthersOvertaken
<1> QED BY <1>1, <1>2, <1>3

\* A fetch that ends frees its fetcher.
LEMMA FetchEnds ==
    ASSUME HubInv, NEW f \in Fetchers, NEW tree, Finished(f, tree), UNCHANGED <<rows, second>>,
           lastWatermark' \in Nat
    PROVE  /\ fetch' \in [Fetchers -> FetchStates]
           /\ \A g \in Fetchers : RequestInv(g)' /\ AnswerInv(g)'
<1>1. fetch' = OthersOvertaken(f, NoFetch)
    BY DEF Finished
<1>2. /\ fetch' \in [Fetchers -> FetchStates] /\ fetch'[f] = NoFetch
      /\ \A g \in Fetchers \ {f} : RequestInv(g)' /\ AnswerInv(g)'
    BY <1>1, NoFetchIs, OthersKept
<1>3. RequestInv(f)' /\ AnswerInv(f)'
    BY <1>2, NoFetchIs DEF RequestInv, AnswerInv
<1> QED BY <1>2, <1>3

LEMMA AnswersKeepInv ==
    ASSUME HubInv, NEW f \in Fetchers, Answers(f)
    PROVE  HubInv'
<1> DEFINE a == fetch[f].answer
           h == fetch[f].hub
           tree == Merged(Base(f), a)
<1>1. /\ fetch[f].phase = "answered" /\ configs' = tree /\ lastGood' = h /\ cursorHub' = h
      /\ lastSeq' = IF HubKind[h] = "bare" THEN 0 ELSE a.seq
      /\ lastWatermark' = IF HubKind[h] = "bare" THEN 0 ELSE a.mark
      /\ restored' = IF a.past THEN restored \cup {h}
                     ELSE IF tree = a.whole THEN restored \ {h} ELSE restored
      /\ Finished(f, tree) /\ UNCHANGED <<rows, hubSeq, second>>
    BY DEF Answers, serverSide
<1>2. fetch[f] \in FetchStates /\ AnswerInv(f) /\ HubTyped
    BY DEF HubInv, HubTyped
<1>3. h \in Hubs /\ a.mark \in 1..second /\ a.seq \in Nat /\ second \in Nat
    BY <1>1, <1>2 DEF AnswerInv, FetchStates, HubAnswers, HubTyped
<1>4. lastWatermark' \in 0..second' /\ lastSeq' \in Nat /\ lastGood' \in Hubs
    BY <1>1, <1>3
<1>5. /\ fetch' \in [Fetchers -> FetchStates]
      /\ \A g \in Fetchers : RequestInv(g)' /\ AnswerInv(g)'
    BY <1>1, <1>3, <1>4, FetchEnds
<1>6. HubTyped'
    BY <1>1, <1>2, <1>4, <1>5 DEF HubTyped, Table
<1>7. /\ HubIsMirrored'
      /\ configs' = a.whole \/ mixed' \/ h \in restored
    BY NothingStale DEF HubIsMirrored
<1>8. configs' # NullTree
    <2>1. DOMAIN tree = HubParams /\ DOMAIN NullTree = {}
        BY DEF Merged, NullTree
    <2> HIDE DEF tree
    <2> QED BY <1>1, <2>1, ParamsAssumption
<1>9. TreeInv'
    <2> SUFFICES ASSUME lastWatermark' > 0
                 PROVE  /\ HubKind[h] # "bare" /\ lastWatermark' = a.mark
                        /\ h \notin restored' /\ ~mixed' =>
                              \A p \in HubParams : \/ configs'[p] = rows[h][p].value
                                                   \/ rows[h][p].at >= a.mark
        BY <1>1, <1>3, <1>8 DEF TreeInv
    <2>1. HubKind[h] # "bare" /\ lastWatermark' = a.mark
        BY <1>1
    <2>2. ASSUME h \notin restored', ~mixed'
          PROVE  configs' = a.whole /\ ~a.past
        BY <1>1, <1>7, <2>2
    <2>3. ~a.past => \A p \in HubParams : a.whole[p] = rows[h][p].value \/ rows[h][p].at >= a.mark
        BY <1>1, <1>2 DEF AnswerInv
    <2> HIDE DEF a, h, tree
    <2> QED BY <2>1, <2>2, <2>3
<1> QED BY <1>5, <1>6, <1>7, <1>9 DEF HubInv

\* What the hubs start with is a table.
LEMMA FirstTable ==
    ASSUME second \in Nat \ {0}
    PROVE  FirstRows \in [HubParams -> Row] /\ Table(FirstRows)
<1> DEFINE first == CHOOSE u \in SecureUrls : TRUE
<1>1. first \in Urls /\ first # Nothing
    BY UrlsAssumption
<1> HIDE DEF first
<1>2. FirstRows = [p \in HubParams |-> IF p = <<Network, "encoder">> THEN [value |-> first, at |-> 1]
                                       ELSE [value |-> Nothing, at |-> 0]]
    BY DEF FirstRows, first
<1>3. \A p \in HubParams : FirstRows[p] \in {[value |-> first, at |-> 1], [value |-> Nothing, at |-> 0]}
    BY <1>2
<1>4. FirstRows \in [HubParams -> Row]
    BY <1>1, <1>2 DEF Row
<1>5. FirstRows[<<Network, "encoder">>].at = 1
    BY <1>2, ParamsAssumption
<1>6. \A p \in HubParams : /\ FirstRows[p].at <= second
                           /\ FirstRows[p].value = Nothing => FirstRows[p].at = 0
    BY <1>1, <1>3
<1> QED BY <1>4, <1>5, <1>6 DEF Table

LEMMA RestoresKeepInv ==
    ASSUME HubInv, NEW h \in Hubs, HubRestored(h)
    PROVE  HubInv'
<1>1. /\ rows' = [rows EXCEPT ![h] = FirstRows] /\ hubSeq' = [hubSeq EXCEPT ![h] = 1]
      /\ restored' = restored \cup {h}
      /\ fetch' = [f \in Fetchers |->
                      [fetch[f] EXCEPT !.answer.past =
                          @ \/ (fetch[f].phase = "answered" /\ fetch[f].hub = h)]]
      /\ UNCHANGED <<second, configs, lastGood, lastSeq, lastWatermark, cursorHub, mixed, verdict>>
    BY DEF HubRestored, marks
<1>2. HubTyped /\ TreeInv /\ second \in Nat \ {0}
    BY DEF HubInv, HubTyped
<1>3. FirstRows \in [HubParams -> Row] /\ Table(FirstRows)
    BY <1>2, FirstTable
<1>4. \A k \in Hubs : rows'[k] = IF k = h THEN FirstRows ELSE rows[k]
    BY <1>1, <1>2 DEF HubTyped
<1>5. \A k \in Hubs : Table(rows[k])'
    BY <1>1, <1>2, <1>3, <1>4 DEF HubTyped, Table
<1>6. rows' \in [Hubs -> [HubParams -> Row]] /\ hubSeq' \in [Hubs -> Nat]
    BY <1>1, <1>2, <1>3 DEF HubTyped
<1>7. ASSUME NEW f \in Fetchers
      PROVE  fetch'[f] \in FetchStates /\ RequestInv(f)' /\ AnswerInv(f)'
    <2> DEFINE gone == fetch[f].answer.past \/ (fetch[f].phase = "answered" /\ fetch[f].hub = h)
    <2>1. fetch[f] \in FetchStates /\ RequestInv(f) /\ AnswerInv(f)
        BY DEF HubInv, HubTyped
    <2>2. gone \in BOOLEAN
        BY <2>1 DEF FetchStates, HubAnswers
    <2>3. fetch'[f] = [fetch[f] EXCEPT !.answer.past = gone]
        BY <1>1
    <2>4. fetch[f].answer \in HubAnswers
        BY <2>1 DEF FetchStates
    <2> HIDE DEF gone
    <2>5. /\ fetch'[f] = [fetch[f] EXCEPT !.answer = [fetch[f].answer EXCEPT !.past = gone]]
          /\ [fetch[f].answer EXCEPT !.past = gone] \in HubAnswers
        BY <2>1, <2>2, <2>3, <2>4 DEF FetchStates, HubAnswers
    <2>6. /\ fetch'[f] \in FetchStates /\ fetch'[f].overtaken = fetch[f].overtaken
          /\ fetch'[f].phase = fetch[f].phase /\ fetch'[f].hub = fetch[f].hub
          /\ fetch'[f].cursor = fetch[f].cursor /\ fetch'[f].again = fetch[f].again
          /\ fetch'[f].by = fetch[f].by /\ fetch'[f].answer = [fetch[f].answer EXCEPT !.past = gone]
        BY <2>1, <2>5 DEF FetchStates
    <2>7. /\ fetch'[f].answer.whole = fetch[f].answer.whole
          /\ fetch'[f].answer.sent = fetch[f].answer.sent
          /\ fetch'[f].answer.mark = fetch[f].answer.mark /\ fetch'[f].answer.past = gone
        BY <2>2, <2>4, <2>6 DEF HubAnswers
    <2>8. RequestInv(f)'
        BY <1>1, <2>1, <2>6 DEF RequestInv
    <2>9. fetch[f].phase = "answered" /\ ~gone =>
              /\ fetch[f].hub # h /\ ~fetch[f].answer.past
              /\ \A p \in HubParams : rows'[fetch[f].hub][p] = rows[fetch[f].hub][p]
        BY <1>4, <2>1 DEF gone, FetchStates
    <2>10. AnswerInv(f)'
        <3> SUFFICES ASSUME fetch[f].phase = "answered"
                     PROVE  AnswerInv(f)'
            BY <2>6 DEF AnswerInv
        <3>1. fetch[f].cursor > 0 /\ ~fetch[f].overtaken /\ ~mixed /\ fetch[f].hub \notin restored' =>
                  \A p \in HubParams \ fetch[f].answer.sent : fetch[f].answer.whole[p] = configs[p]
            BY <1>1, <2>1 DEF AnswerInv
        <3>2. ~gone => \A p \in HubParams :
                          \/ fetch[f].answer.whole[p] = rows'[fetch[f].hub][p].value
                          \/ rows'[fetch[f].hub][p].at >= fetch[f].answer.mark
            BY <2>1, <2>9 DEF AnswerInv
        <3>3. /\ fetch[f].answer.mark \in 1..second
              /\ fetch[f].cursor = 0 =>
                    \A p \in HubParams \ fetch[f].answer.sent : fetch[f].answer.whole[p] = Nothing
            BY <2>1 DEF AnswerInv
        <3>4. /\ fetch'[f].cursor = fetch[f].cursor /\ fetch'[f].overtaken = fetch[f].overtaken
              /\ fetch'[f].hub = fetch[f].hub /\ mixed' = mixed /\ configs' = configs
              /\ second' = second
            BY <1>1, <2>6
        <3> QED BY <2>7, <3>1, <3>2, <3>3, <3>4 DEF AnswerInv
    <2> QED BY <2>6, <2>8, <2>10
<1>8. HubTyped'
    <2>1. fetch' = [f \in Fetchers |-> fetch'[f]]
        BY <1>1
    <2>2. fetch' \in [Fetchers -> FetchStates]
        BY <1>7, <2>1
    <2> QED BY <1>1, <1>2, <1>5, <1>6, <2>2 DEF HubTyped
<1>9. TreeInv'
    BY <1>1, <1>2, <1>4 DEF TreeInv
<1> QED BY <1>1, <1>7, <1>8, <1>9 DEF HubInv, HubIsMirrored

LEMMA UpdatesKeepInv ==
    ASSUME HubInv, NEW h \in Hubs, NEW p \in HubParams, NEW u \in Urls, HubUpdates(h, p, u)
    PROVE  HubInv'
<1>1. /\ rows' = [rows EXCEPT ![h][p] = [value |-> u, at |-> second]]
      /\ hubSeq' = [hubSeq EXCEPT ![h] = @ + 1]
      /\ UNCHANGED <<second, configs, marks, fetch, history>>
    BY DEF HubUpdates
<1>2. HubTyped /\ TreeInv /\ second \in Nat \ {0} /\ lastWatermark \in 0..second /\ u # Nothing
    BY UrlsAssumption DEF HubInv, HubTyped
<1>3. \A k \in Hubs, q \in HubParams :
          rows'[k][q] = IF k = h /\ q = p THEN [value |-> u, at |-> second] ELSE rows[k][q]
    BY <1>1, <1>2 DEF HubTyped
<1>4. rows' \in [Hubs -> [HubParams -> Row]] /\ hubSeq' \in [Hubs -> Nat]
    BY <1>1, <1>2 DEF HubTyped, Row
<1>5. \A k \in Hubs : Table(rows[k])'
    <2> TAKE k \in Hubs
    <2>1. Table(rows[k]) /\ rows'[k] \in [HubParams -> Row]
        BY <1>2, <1>4 DEF HubTyped
    <2>2. \A q \in HubParams : /\ rows'[k][q].at <= second
                               /\ rows'[k][q].value = Nothing => rows'[k][q].at = 0
        BY <1>2, <1>3, <2>1 DEF Table
    <2>3. rows'[k][<<Network, "encoder">>].at >= 1
        BY <1>2, <1>3, <2>1, ParamsAssumption DEF Table
    <2> QED BY <1>1, <2>1, <2>2, <2>3 DEF Table
<1>6. HubTyped'
    BY <1>1, <1>2, <1>4, <1>5 DEF HubTyped, marks
<1>7. TreeInv'
    BY <1>1, <1>2, <1>3 DEF TreeInv, marks, history
<1>8. ASSUME NEW f \in Fetchers PROVE RequestInv(f)' /\ AnswerInv(f)'
    <2>1. RequestInv(f) /\ AnswerInv(f) /\ fetch[f] \in FetchStates
        BY <1>2 DEF HubInv, HubTyped
    <2>2. RequestInv(f)'
        BY <1>1, <2>1 DEF RequestInv, marks
    <2>3. fetch[f].hub \in Hubs /\ fetch[f].answer.mark \in Nat
        BY <2>1 DEF FetchStates, HubAnswers
    <2>4. AnswerInv(f)'
        BY <1>1, <1>2, <1>3, <2>1, <2>3 DEF AnswerInv, history
    <2> QED BY <2>2, <2>4
<1> QED BY <1>1, <1>6, <1>7, <1>8 DEF HubInv, HubIsMirrored, history

\* What a hub answers.
LEMMA ServesKeepInv ==
    ASSUME HubInv, NEW f \in Fetchers, HubServes(f)
    PROVE  HubInv'
<1> DEFINE h == fetch[f].hub
           a == [whole |-> Values(h), sent |-> Served(h, SinceCursor(f)), mark |-> Watermark(h),
                 seq |-> hubSeq[h], past |-> FALSE]
<1>1. fetch[f] \in FetchStates /\ RequestInv(f) /\ HubTyped /\ TreeInv /\ h \in Hubs
    BY DEF HubInv, HubTyped, FetchStates
<1>2. rows[h] \in [HubParams -> Row] /\ Watermark(h) \in 1..second /\ second \in Nat
    BY <1>1, WatermarkIs DEF HubTyped
<1>3. a \in HubAnswers
    <2>1. Values(h) \in [HubParams -> Urls \cup {Nothing}]
        BY <1>2 DEF Values, Row
    <2>2. Served(h, SinceCursor(f)) \in SUBSET HubParams
        BY DEF Served
    <2>3. hubSeq[h] \in Nat /\ Watermark(h) \in Nat
        BY <1>1, <1>2 DEF HubTyped
    <2> QED BY <2>1, <2>2, <2>3 DEF HubAnswers
<1>4. /\ fetch' = [fetch EXCEPT ![f].phase = "answered", ![f].answer = a]
      /\ UNCHANGED <<rows, hubSeq, second, configs, lastSeq, lastWatermark, cursorHub, lastGood, history>>
    BY DEF HubServes, serverSide, marks
<1>a. /\ a.whole = Values(h) /\ a.sent = Served(h, SinceCursor(f)) /\ a.mark = Watermark(h)
    OBVIOUS
<1> HIDE DEF a
<1>5. fetch' = [fetch EXCEPT ![f] = [fetch[f] EXCEPT !.phase = "answered", !.answer = a]]
    BY <1>1, <1>4 DEF HubTyped
<1>6. fetch'[f] = [fetch[f] EXCEPT !.phase = "answered", !.answer = a]
      /\ \A g \in Fetchers \ {f} : fetch'[g] = fetch[g]
    BY <1>1, <1>5 DEF HubTyped
<1>7. /\ fetch'[f] \in FetchStates /\ fetch'[f].phase = "answered" /\ fetch'[f].answer = a
      /\ fetch'[f].hub = h /\ fetch'[f].cursor = fetch[f].cursor /\ fetch'[f].again = fetch[f].again
      /\ fetch'[f].overtaken = fetch[f].overtaken /\ fetch'[f].by = fetch[f].by
    BY <1>1, <1>3, <1>6 DEF FetchStates
<1>8. fetch' \in [Fetchers -> FetchStates]
    BY <1>1, <1>5, <1>6, <1>7 DEF HubTyped
<1>9. RequestInv(f)'
    BY <1>1, <1>4, <1>7 DEF RequestInv, HubServes
<1>10. AnswerInv(f)'
    <2>1. a.mark \in 1..second
        BY <1>2, <1>a
    <2>2. fetch[f].cursor = 0 => \A p \in HubParams \ a.sent : a.whole[p] = Nothing
        BY <1>a DEF Served, SinceCursor, Values
    <2>3. fetch[f].cursor > 0 /\ ~fetch[f].overtaken /\ ~mixed /\ h \notin restored =>
              \A p \in HubParams \ a.sent : a.whole[p] = configs[p]
        BY <1>a, DeltaIsWhole DEF Values
    <2>4. \A p \in HubParams : a.whole[p] = rows[h][p].value
        BY <1>a DEF Values
    <2> HIDE DEF h
    <2> QED BY <1>4, <1>7, <2>1, <2>2, <2>3, <2>4 DEF AnswerInv, history
<1>11. lastGood' \in Hubs
    BY <1>1, <1>4 DEF HubTyped
<1> QED BY <1>2, <1>4, <1>6, <1>8, <1>9, <1>10, <1>11, HubInvKept

\* A fetcher that sends a request, or gives up.
LEMMA RequestKeepsInv ==
    ASSUME HubInv, NEW f \in Fetchers, NEW r \in FetchStates, fetch' = [fetch EXCEPT ![f] = r],
           UNCHANGED <<serverSide, configs, marks, history>>, r.phase # "answered", ~r.again,
           r.phase # "idle" => r.by # "nobody",
           r.cursor > 0 => r.cursor = lastWatermark /\ r.hub = cursorHub
    PROVE  HubInv'
<1>1. HubTyped /\ second \in Nat
    BY DEF HubInv, HubTyped
<1>2. fetch' \in [Fetchers -> FetchStates] /\ fetch'[f] = r
      /\ \A g \in Fetchers \ {f} : fetch'[g] = fetch[g]
    BY <1>1 DEF HubTyped
<1>3. RequestInv(f)' /\ AnswerInv(f)'
    BY <1>2 DEF RequestInv, AnswerInv, marks
<1> QED BY <1>1, <1>2, <1>3, HubInvKept DEF serverSide, marks, HubTyped

LEMMA HubStep ==
    ASSUME HubInv, [HubNext]_hubVars
    PROVE  HubInv'
<1>0. HubTyped /\ second \in Nat \ {0} /\ lastGood \in Hubs /\ fetch \in [Fetchers -> FetchStates]
    BY DEF HubInv, HubTyped
<1>1. ASSUME NEW h \in Hubs, NEW p \in HubParams, NEW u \in Urls, HubUpdates(h, p, u)
      PROVE  HubInv'
    BY <1>1, UpdatesKeepInv
<1>2. CASE HubSecond
    BY <1>0, <1>2, HubInvKept DEF HubSecond, marks
<1>3. ASSUME NEW h \in Hubs, HubRestored(h) PROVE HubInv'
    BY <1>3, RestoresKeepInv
<1>4. ASSUME NEW h \in Hubs, Pinged(h) PROVE HubInv'
    BY <1>0, <1>4, HubInvKept DEF Pinged, serverSide
<1>5. ASSUME NEW f \in Fetchers, Discover(f) PROVE HubInv'
    <2> DEFINE r == Request("discover", 0)
    <2>1. fetch' = [fetch EXCEPT ![f] = r] /\ UNCHANGED <<serverSide, configs, marks, history>>
        BY <1>5 DEF Discover
    <2>2. /\ r \in FetchStates /\ r.phase = "asked" /\ ~r.again /\ r.by # "nobody"
          /\ r.cursor > 0 => r.cursor = lastWatermark /\ r.hub = cursorHub
        BY <1>0, RequestIs
    <2> HIDE DEF r
    <2> QED BY <2>1, <2>2, RequestKeepsInv
<1>6. ASSUME NEW f \in Fetchers, PollHub(f) PROVE HubInv'
    <2> DEFINE r == Request("poll", 0)
    <2>1. fetch' = [fetch EXCEPT ![f] = r] /\ UNCHANGED <<serverSide, configs, marks, history>>
        BY <1>6 DEF PollHub
    <2>2. /\ r \in FetchStates /\ r.phase = "asked" /\ ~r.again /\ r.by # "nobody"
          /\ r.cursor > 0 => r.cursor = lastWatermark /\ r.hub = cursorHub
        BY <1>0, RequestIs
    <2> HIDE DEF r
    <2> QED BY <2>1, <2>2, RequestKeepsInv
<1>7. ASSUME NEW f \in Fetchers, HubServes(f) PROVE HubInv'
    BY <1>7, ServesKeepInv
<1>8. ASSUME NEW f \in Fetchers, Answers(f) PROVE HubInv'
    BY <1>8, AnswersKeepInv
<1>9. ASSUME NEW f \in Fetchers, AnswersOlder(f) PROVE HubInv'
    <2> DEFINE mine == [fetch[f] EXCEPT !.phase = "asked", !.cursor = 0, !.again = TRUE,
                                        !.overtaken = FALSE, !.answer = NoAnswer]
    <2>1. /\ lastWatermark' = 0 /\ fetch' = OthersOvertaken(f, mine)
          /\ UNCHANGED <<rows, hubSeq, second, lastGood, lastSeq, history>>
        BY <1>9 DEF AnswersOlder, serverSide
    <2>a. fetch[f] \in FetchStates /\ fetch[f].by # "nobody" /\ fetch[f].phase = "answered"
        BY <1>0, <1>9 DEF AnswersOlder, HubInv, RequestInv
    <2>2. /\ mine \in FetchStates /\ mine.phase = "asked" /\ mine.cursor = 0 /\ mine.again
          /\ ~mine.overtaken /\ mine.by # "nobody"
        BY <2>a DEF FetchStates, NoAnswer, HubAnswers, EmptyTree
    <2> HIDE DEF mine
    <2>3. /\ fetch' \in [Fetchers -> FetchStates] /\ fetch'[f] = mine
          /\ \A g \in Fetchers \ {f} : RequestInv(g)' /\ AnswerInv(g)'
        BY <2>1, <2>2, OthersKept
    <2>4. RequestInv(f)' /\ AnswerInv(f)'
        BY <2>1, <2>2, <2>3 DEF RequestInv, AnswerInv
    <2>5. HubTyped'
        <3>1. lastWatermark' \in 0..second'
            BY <1>0, <2>1
        <3> QED BY <1>0, <2>1, <2>3, <3>1 DEF HubTyped, Table
    <2>6. TreeInv'
        BY <2>1 DEF TreeInv
    <2>7. HubIsMirrored'
        BY <2>1 DEF HubInv, HubIsMirrored, history
    <2> QED BY <2>3, <2>4, <2>5, <2>6, <2>7 DEF HubInv
<1>10. ASSUME NEW f \in Fetchers, AnswersRegistry(f) PROVE HubInv'
    <2>1. /\ lastWatermark' = 0 /\ lastSeq' = 0 /\ lastGood' = fetch[f].hub /\ verdict' = "same"
          /\ Finished(f, fetch[f].answer.whole) /\ UNCHANGED <<rows, hubSeq, second>>
        BY <1>10 DEF AnswersRegistry, serverSide
    <2>2. /\ fetch' \in [Fetchers -> FetchStates]
          /\ \A g \in Fetchers : RequestInv(g)' /\ AnswerInv(g)'
        BY <2>1, FetchEnds
    <2>3. lastGood' \in Hubs
        BY <1>0, <2>1 DEF FetchStates
    <2>4. HubTyped'
        <3>1. lastWatermark' \in 0..second' /\ lastSeq' \in Nat
            BY <1>0, <2>1
        <3> QED BY <1>0, <2>1, <2>2, <2>3, <3>1 DEF HubTyped, Table
    <2> QED BY <2>1, <2>2, <2>4 DEF HubInv, TreeInv, HubIsMirrored
<1>11. ASSUME NEW f \in Fetchers, HubFails(f) PROVE HubInv'
    <2>1. UNCHANGED <<serverSide, configs, marks, history>>
        BY <1>11 DEF HubFails, serverSide, marks, history
    <2>2. CASE fetch' = [fetch EXCEPT ![f] = NoFetch]
        <3> DEFINE r == NoFetch
        <3>1. /\ r \in FetchStates /\ r.phase = "idle" /\ ~r.again
              /\ ~(r.cursor > 0)
            BY NoFetchIs
        <3>2. fetch' = [fetch EXCEPT ![f] = r]
            BY <2>2
        <3> HIDE DEF r
        <3> QED BY <2>1, <3>1, <3>2, RequestKeepsInv
    <2>3. CASE fetch' = [fetch EXCEPT ![f] = Request(@.by, @.tried + 1)] /\ fetch[f].phase = "asked"
        <3> DEFINE r == Request(fetch[f].by, fetch[f].tried + 1)
        <3>1. fetch' = [fetch EXCEPT ![f] = r]
            BY <1>0, <2>3
        <3>2. CASE fetch[f].by \in {"discover", "poll"}
            <4>1. fetch[f].tried + 1 \in Nat
                BY <1>0 DEF FetchStates
            <4>2. /\ r \in FetchStates /\ r.phase = "asked" /\ ~r.again /\ r.by # "nobody"
                  /\ r.cursor > 0 => r.cursor = lastWatermark /\ r.hub = cursorHub
                BY <1>0, <3>2, <4>1, RequestIs
            <4> HIDE DEF r
            <4> QED BY <2>1, <3>1, <4>2, RequestKeepsInv
        <3>3. fetch[f].by \in {"discover", "poll"}
            BY <1>0, <2>3 DEF HubInv, RequestInv, FetchStates
        <3> QED BY <3>2, <3>3
    <2> QED BY <1>11, <2>2, <2>3 DEF HubFails
<1>12. CASE StopSdk
    BY <1>0, <1>12, HubInvKept DEF StopSdk, serverSide, marks
<1>13. CASE UNCHANGED hubVars
    BY <1>0, <1>13, HubInvKept DEF hubVars, history
<1> QED BY <1>1, <1>2, <1>3, <1>4, <1>5, <1>6, <1>7, <1>8, <1>9, <1>10, <1>11, <1>12, <1>13
        DEF HubNext, FetchStep

\* However many fetches are under way at once, from any number of hubs, with
\* updates, restarts from snapshots, failures and changes of hub in between: a
\* fetch that none overtook leaves the tree the hub had when it answered, unless
\* the hub was restored and has reached both of its marks again (config_sync.js).
THEOREM HubsMirrored ==
    ASSUME NEW choices
    PROVE  HubSpec(choices) => []HubIsMirrored
<1>1. HubInit(choices) => HubInv
    <2> SUFFICES ASSUME HubInit(choices) PROVE HubInv
        OBVIOUS
    <2>1. /\ rows = [h \in Hubs |-> FirstRows] /\ hubSeq = [h \in Hubs |-> 1] /\ second = 1
          /\ lastGood = 0 /\ lastSeq = 0 /\ lastWatermark = 0 /\ verdict = "none"
          /\ fetch = [f \in Fetchers |-> NoFetch]
        BY DEF HubInit
    <2>2. FirstRows \in [HubParams -> Row] /\ Table(FirstRows)
        BY <2>1, FirstTable
    <2>3. rows \in [Hubs -> [HubParams -> Row]] /\ \A h \in Hubs : Table(rows[h])
        BY <2>1, <2>2
    <2>4. 0 \in Hubs
        BY HubsAre
    <2>5. fetch \in [Fetchers -> FetchStates]
        BY <2>1, NoFetchIs
    <2>6. HubTyped
        BY <2>1, <2>3, <2>4, <2>5 DEF HubTyped
    <2>7. \A f \in Fetchers : RequestInv(f) /\ AnswerInv(f)
        BY <2>1, NoFetchIs DEF RequestInv, AnswerInv
    <2> QED BY <2>1, <2>6, <2>7 DEF HubInv, TreeInv, HubIsMirrored
<1>2. HubInv => HubIsMirrored
    BY DEF HubInv
<1> QED BY <1>1, <1>2, HubStep, PTL DEF HubSpec

-----------------------------------------------------------------------------
(* The feed: what a replay carries. *)

\* A finite set of numbers that is not empty has a greatest element.
LEMMA Greatest ==
    ASSUME NEW S, IsFiniteSet(S), S \subseteq Nat, S # {}
    PROVE  \E x \in S : \A y \in S : y <= x
<1> DEFINE Q == {s \in SUBSET S : s = {} \/ \E x \in s : \A y \in s : y <= x}
<1>1. {} \in Q
    OBVIOUS
<1>2. ASSUME NEW s \in SUBSET S, s # {}, \A x \in s : s \ {x} \in Q
      PROVE  s \in Q
    <2>1. PICK x \in s : TRUE
        BY <1>2
    <2>2. CASE s \ {x} = {}
        <3>1. \A y \in s : y = x
            BY <2>2
        <3> QED BY <3>1
    <2>3. CASE s \ {x} # {}
        <3>1. PICK z \in s \ {x} : \A y \in s \ {x} : y <= z
            BY <1>2, <2>3
        <3>2. \A y \in s : y = x \/ y <= z
            BY <3>1
        <3>3. x \in Nat /\ z \in Nat /\ s \subseteq Nat
            BY <3>1
        <3>4. CASE x <= z
            BY <3>1, <3>2, <3>3, <3>4
        <3>5. CASE z < x
            BY <3>1, <3>2, <3>3, <3>5
        <3> QED BY <3>3, <3>4, <3>5
    <2> QED BY <2>2, <2>3
<1> HIDE DEF Q
<1>3. SUBSET S \subseteq Q
    BY <1>1, <1>2, SetInduct
<1>4. S \in Q
    BY <1>3
<1> QED BY <1>4 DEF Q

InOrder(s, S) ==
    /\ s \in [1..Cardinality(S) -> S]
    /\ Range(s) = S
    /\ \A m, n \in DOMAIN s : m < n => s[m] < s[n]

\* A finite set of numbers can be put in order.
LEMMA CanBeOrdered ==
    ASSUME NEW S, IsFiniteSet(S), S \subseteq Nat
    PROVE  \E s : InOrder(s, S)
<1> DEFINE Q == {T \in SUBSET S : \E s : InOrder(s, T)}
<1>1. {} \in Q
    <2>1. Cardinality({}) = 0
        BY FS_EmptySet
    <2>2. InOrder([k \in 1..0 |-> 0], {})
        BY <2>1 DEF InOrder, Range
    <2> QED BY <2>2
<1>2. ASSUME NEW T \in SUBSET S, T # {}, \A x \in T : T \ {x} \in Q
      PROVE  T \in Q
    <2>1. IsFiniteSet(T)
        BY FS_Subset
    <2>2. PICK x \in T : \A y \in T : y <= x
        BY <1>2, <2>1, Greatest
    <2>3. PICK s : InOrder(s, T \ {x})
        BY <1>2
    <2> DEFINE N == Cardinality(T)
               t == [k \in 1..N |-> IF k = N THEN x ELSE s[k]]
    <2>4. N \in Nat /\ N >= 1 /\ Cardinality(T \ {x}) = N - 1
        <3>1. N \in Nat /\ Cardinality(T \ {x}) = N - 1
            BY <2>1, FS_CardinalityType, FS_RemoveElement
        <3>2. N # 0
            BY <1>2, <2>1, FS_EmptySet
        <3> QED BY <3>1, <3>2
    <2> HIDE DEF N
    <2>5. /\ s \in [1..(N - 1) -> T \ {x}] /\ DOMAIN s = 1..(N - 1)
          /\ Range(s) = T \ {x}
          /\ \A m, n \in 1..(N - 1) : m < n => s[m] < s[n]
        BY <2>3, <2>4 DEF InOrder
    <2>6. t \in [1..N -> T] /\ DOMAIN t = 1..N
        BY <2>4, <2>5
    <2>7. Range(t) = T
        <3>1. \A y \in T \ {x} : \E k \in 1..(N - 1) : s[k] = y
            BY <2>5 DEF Range
        <3>2. \A y \in T \ {x} : \E k \in 1..N : t[k] = y
            BY <2>4, <3>1
        <3>3. t[N] = x /\ N \in 1..N
            BY <2>4
        <3>4. \A y \in T : \E k \in 1..N : t[k] = y
            BY <3>2, <3>3
        <3> QED BY <2>6, <3>4 DEF Range
    <2>8. ASSUME NEW m \in 1..N, NEW n \in 1..N, m < n PROVE t[m] < t[n]
        <3>1. m \in 1..(N - 1) /\ m # N /\ t[m] = s[m]
            BY <2>4, <2>8
        <3>2. CASE n = N
            <4>1. s[m] \in T \ {x}
                BY <2>5, <3>1
            <4>2. s[m] <= x /\ s[m] # x /\ s[m] \in Nat /\ x \in Nat
                BY <2>2, <4>1
            <4> QED BY <3>1, <3>2, <4>2
        <3>3. CASE n # N
            <4>1. n \in 1..(N - 1) /\ t[n] = s[n]
                BY <2>4, <3>3
            <4> QED BY <2>5, <2>8, <3>1, <4>1
        <3> QED BY <3>2, <3>3
    <2> HIDE DEF t
    <2>9. InOrder(t, T)
        BY <2>6, <2>7, <2>8 DEF InOrder, N
    <2> QED BY <2>9
<1> HIDE DEF Q
<1>3. SUBSET S \subseteq Q
    BY <1>1, <1>2, SetInduct
<1>4. S \in Q
    BY <1>3
<1> QED BY <1>4 DEF Q

LEMMA AscendingOrders ==
    ASSUME NEW S, IsFiniteSet(S), S \subseteq Nat
    PROVE  InOrder(Ascending(S), S)
<1>1. \E s \in [1..Cardinality(S) -> S] :
          Range(s) = S /\ \A m, n \in DOMAIN s : m < n => s[m] < s[n]
    BY CanBeOrdered DEF InOrder
<1> QED BY <1>1 DEF Ascending, InOrder
Rows == [sub : SubNames, gen : Nat]

\* Of the rows a request is owed, a replay carries all up to the index its
\* CATCH_UP_COMPLETE names.
LEMMA ReplayCarries ==
    ASSUME log \in Seq(Rows), NEW req, req.since \in Nat
    PROVE  /\ Replayed(req) \in Seq(Missed(req))
           /\ Missed(req) \subseteq 1..Len(log)
           /\ Complete(req).latest \in 0..Len(log)
           /\ \A i \in Missed(req) : i <= Complete(req).latest =>
                  \E m \in 1..Len(Replayed(req)) : Replayed(req)[m] = i
           /\ ~Complete(req).truncated => Complete(req).latest = Len(log)
<1> DEFINE M == Missed(req)
           A == Ascending(M)
           N == Cardinality(M)
           n == Min({Cap, N})
           R == Replayed(req)
<1>1. M \subseteq 1..Len(log) /\ Len(log) \in Nat
    BY DEF Missed
<1>2. IsFiniteSet(M) /\ M \subseteq Nat /\ N \in Nat
    <2>1. IsFiniteSet(1..Len(log))
        BY <1>1, FS_Interval
    <2> QED BY <1>1, <2>1, FS_Subset, FS_CardinalityType
<1>3. InOrder(A, M)
    BY <1>2, AscendingOrders
<1>4. Cap \in Nat /\ Cap > 0
    BY FeedAssumption
<1>5. n \in {Cap, N} /\ n <= N /\ n <= Cap /\ n \in Nat
    <2>1. \E x \in {Cap, N} : \A y \in {Cap, N} : x <= y
        BY <1>2, <1>4
    <2> QED BY <1>2, <1>4, <2>1 DEF Min
<1> HIDE DEF M, A, N, n
<1>6. /\ DOMAIN A = 1..N /\ A \in [1..N -> M]
      /\ \A i \in M : \E k \in 1..N : A[k] = i
      /\ \A j, k \in 1..N : j < k => A[j] < A[k]
    BY <1>3 DEF InOrder, Range, N
<1>7. /\ R \in Seq(M) /\ Len(R) = n
      /\ \A k \in 1..n : R[k] = A[k]
    <2>1. R = SubSeq(A, 1, n)
        BY DEF Replayed, A, M, n, N
    <2>2. \A k \in 1..n : A[k] \in M
        BY <1>2, <1>5, <1>6
    <2>3. /\ SubSeq(A, 1, n) \in Seq(M)
          /\ Len(SubSeq(A, 1, n)) = IF 1 <= n THEN n - 1 + 1 ELSE 0
          /\ \A k \in 1..(n - 1 + 1) : SubSeq(A, 1, n)[k] = A[1 + k - 1]
        BY <1>5, <2>2, SubSeqProperties
    <2> QED BY <1>5, <2>1, <2>3
<1> HIDE DEF R
<1>8. Complete(req).truncated = (n < N)
    BY <1>7 DEF Complete, R, M, N
<1>9. Complete(req).latest = IF n < N THEN R[n] ELSE Len(log)
    BY <1>5, <1>7 DEF Complete, R, M, N, Last
<1>10. CASE n < N
    <2>1. n = Cap /\ n \in 1..n /\ n \in 1..N
        BY <1>2, <1>4, <1>5, <1>10
    <2>2. R[n] = A[n] /\ A[n] \in M
        BY <1>6, <1>7, <2>1
    <2>3. ASSUME NEW i \in M, i <= R[n] PROVE \E m \in 1..n : R[m] = i
        <3>1. PICK k \in 1..N : A[k] = i
            BY <1>6
        <3>2. ~(n < k)
            <4>1. n < k => A[n] < i
                BY <1>6, <2>1, <3>1
            <4>2. i \in Nat /\ R[n] \in Nat /\ i <= R[n]
                BY <1>2, <2>2, <2>3
            <4> QED BY <2>2, <4>1, <4>2
        <3>3. k \in 1..n
            BY <1>5, <3>1, <3>2
        <3> QED BY <1>7, <3>1, <3>3
    <2>4. R[n] \in 0..Len(log)
        <3>1. R[n] \in 1..Len(log)
            BY <1>1, <2>2
        <3> QED BY <1>1, <3>1
    <2> QED BY <1>1, <1>7, <1>8, <1>9, <1>10, <2>3, <2>4 DEF R, M
<1>11. CASE ~(n < N)
    <2>1. n = N
        BY <1>2, <1>5, <1>11
    <2>2. \A i \in M : \E m \in 1..n : R[m] = i
        BY <1>6, <1>7, <2>1
    <2> QED BY <1>1, <1>7, <1>8, <1>9, <1>11, <2>2 DEF R, M
<1> QED BY <1>10, <1>11

-----------------------------------------------------------------------------
(* The feed: no silent gap. *)

Frames ==
    [type : {"NEW_ACTION"}, index : Nat, row : Rows]
    \cup [type : {"REORG"}, first : Nat \ {0}]
    \cup [type : {"CATCH_UP_COMPLETE"}, id : Nat, truncated : BOOLEAN, latest : Nat]
    \cup [type : {"error"}, id : Nat, code : Errors \cup {"CATCH_UP_REORGED"}]

Requests == [id : Nat, sub : SubNames \cup {None}, since : Nat]

IsComplete(f) == f.type = "CATCH_UP_COMPLETE"

\* How far a frame moves the client.
Mark(f) == IF f.type = "NEW_ACTION" THEN f.index
           ELSE IF IsComplete(f) THEN f.latest ELSE 0

\* The rows the caller has neither got nor been told to backfill.
Owed == {i \in 1..Len(log) : i < fork /\ ~Accounted(i)}

\* The row is in flight, behind nothing that would move the client past it.
OnTheWay(i) == \E k \in 1..Len(wire) : /\ wire[k] = RowFrame(i, log[i])
                                       /\ \A m \in 1..(k - 1) : Mark(wire[m]) < i

\* Until the first rollback the log may grow by rows that are owed.
Growing == Len(log) + 1 < fork

Known(p) == p \in Nat /\ (Growing => p <= Len(log))

WireInv ==
    /\ log \in Seq(Rows) /\ fork \in Nat /\ fork >= 2
    /\ wire \in Seq(Frames)
    /\ \A n \in 1..Len(wire) : Known(Mark(wire[n]))
    /\ \A r \in reports : Known(r.since)

AskInv ==
    /\ asks \in Seq(Requests) /\ nextId \in Nat
    /\ \A k \in 1..Len(asks) : asks[k].id < nextId /\ Known(asks[k].since)

CompleteIds(next) == \A n \in 1..Len(wire) : IsComplete(wire[n]) => wire[n].id < next

\* A client at p has passed nothing that is owed.
CursorAt(p) == Known(p) /\ \A i \in Owed : i > p

Kept(s) == s \in live \/ \E r \in reports : r.sub = s

\* Catch-up c is done with all subscriptions but those of todo.
Settled(c, todo) ==
    /\ c \in CatchUps /\ Known(c.cursor) /\ Known(c.maxSeen)
    /\ \A i \in Owed : /\ log[i].sub \notin todo => c.maxSeen < i /\ OnTheWay(i)
                       /\ log[i].sub \in ToSet(c.queue) => c.cursor < i
    /\ \A s \in SubNames \ todo : Kept(s)

\* It asks for the rows of its current subscription after since.
Asking(c, since) ==
    /\ Settled(c, ToSet(c.queue) \cup {c.current.sub})
    /\ Known(since)
    /\ \A i \in Owed : log[i].sub = c.current.sub => since < i

\* The answer in flight at n has behind it what it does not carry.
AnswerAt(n, c) ==
    /\ c.current.sub \in live
    /\ \A i \in Owed : log[i].sub = c.current.sub =>
          IF i <= wire[n].latest THEN \E m \in 1..(n - 1) : wire[m] = RowFrame(i, log[i])
          ELSE wire[n].truncated \/ (c.maxSeen < i /\ OnTheWay(i))

AnswersHold(c) ==
    /\ c.current.id < nextId
    /\ \A k \in 1..Len(asks) : asks[k].id = c.current.id =>
          asks[k].sub = c.current.sub /\ asks[k].since = c.current.since
    /\ \A n \in 1..Len(wire) : IsComplete(wire[n]) /\ wire[n].id = c.current.id => AnswerAt(n, c)

\* No catch-up runs, and the connection is up.
AllSettled == /\ \A i \in Owed : OnTheWay(i)
              /\ \A s \in SubNames : Kept(s)

FeedInv ==
    /\ WireInv /\ AskInv /\ CompleteIds(nextId) /\ CursorAt(cursor)
    /\ cu # None => link = "up" /\ Asking(cu, cu.current.since) /\ AnswersHold(cu)
    /\ cu = None /\ link = "up" => AllSettled
    /\ link = "up" \/ (link = "down" /\ cu = None /\ wire = <<>> /\ asks = <<>> /\ live = {})

LEMMA FrameFacts ==
    /\ \A f \in Frames : /\ Mark(f) \in Nat
                         /\ f.type = "REORG" => f.first \in Nat \ {0}
                         /\ f.type = "NEW_ACTION" => f.row \in Rows /\ f = RowFrame(f.index, f.row)
                         /\ IsComplete(f) => f.id \in Nat /\ f.latest \in Nat /\ f.truncated \in BOOLEAN
                         /\ f.type = "error" => f.id \in Nat
    /\ \A i \in Nat, row \in Rows : RowFrame(i, row) \in Frames
    /\ \A i, row : /\ RowFrame(i, row).type = "NEW_ACTION" /\ Mark(RowFrame(i, row)) = i
                   /\ ~IsComplete(RowFrame(i, row))
                   /\ RowFrame(i, row).index = i /\ RowFrame(i, row).row = row
BY DEF Frames, Mark, IsComplete, RowFrame

\* What is accounted for stays so.
LEMMA StaysAccounted ==
    ASSUME NEW i, Accounted(i), log'[i] = log[i],
           delivered \subseteq delivered', reports \subseteq reports'
    PROVE  Accounted(i)'
BY DEF Accounted

\* Frames are added behind those in flight.
LEMMA Pushes ==
    ASSUME wire \in Seq(Frames), NEW fs \in Seq(Frames), Push(fs)
    PROVE  /\ wire' \in Seq(Frames) /\ Len(wire') = Len(wire) + Len(fs)
           /\ Len(wire) \in Nat /\ Len(fs) \in Nat
           /\ \A k \in 1..Len(wire) : wire'[k] = wire[k]
           /\ \A k \in 1..Len(fs) : wire'[Len(wire) + k] = fs[k]
           /\ \A k \in 1..Len(wire') : k \in 1..Len(wire) \/ (k - Len(wire) \in 1..Len(fs) /\ wire'[k] = fs[k - Len(wire)])
           /\ \A i : log'[i] = log[i] /\ OnTheWay(i) => OnTheWay(i)'
<1>1. wire' = wire \o fs
    BY DEF Push
<1>2. /\ wire' \in Seq(Frames) /\ Len(wire') = Len(wire) + Len(fs)
      /\ Len(wire) \in Nat /\ Len(fs) \in Nat
      /\ \A k \in 1..(Len(wire) + Len(fs)) : wire'[k] = IF k <= Len(wire) THEN wire[k] ELSE fs[k - Len(wire)]
    BY <1>1, ConcatProperties, LenProperties
<1>3. \A k \in 1..Len(wire) : wire'[k] = wire[k]
    BY <1>2
<1>4. \A k \in 1..Len(fs) : wire'[Len(wire) + k] = fs[k]
    BY <1>2
<1>5. \A k \in 1..Len(wire') : k \in 1..Len(wire) \/ (k - Len(wire) \in 1..Len(fs) /\ wire'[k] = fs[k - Len(wire)])
    BY <1>2
<1>6. ASSUME NEW i, log'[i] = log[i], OnTheWay(i) PROVE OnTheWay(i)'
    <2>1. PICK k \in 1..Len(wire) : wire[k] = RowFrame(i, log[i]) /\ \A m \in 1..(k - 1) : Mark(wire[m]) < i
        BY <1>6 DEF OnTheWay
    <2>2. k \in 1..Len(wire') /\ wire'[k] = RowFrame(i, log'[i])
        BY <1>2, <1>3, <1>6, <2>1
    <2>3. \A m \in 1..(k - 1) : wire'[m] = wire[m]
        BY <1>2, <1>3
    <2> QED BY <2>1, <2>2, <2>3 DEF OnTheWay
<1> QED BY <1>2, <1>3, <1>4, <1>5, <1>6

\* The frame in front is taken: what is still owed is behind it.
LEMMA Pops ==
    ASSUME WireInv, CompleteIds(nextId), wire # <<>>, wire' = Tail(wire), UNCHANGED <<log, fork>>,
           delivered \subseteq delivered', reports \subseteq reports',
           \A i \in 1..Len(log) : Head(wire) = RowFrame(i, log[i]) => <<i, log[i]>> \in delivered',
           \A r \in reports' : Known(r.since)
    PROVE  /\ WireInv' /\ Owed' \subseteq Owed
           /\ Head(wire) \in Frames /\ Known(Mark(Head(wire)))
           /\ Len(wire') = Len(wire) - 1 /\ Len(wire) \in Nat
           /\ \A k \in 1..Len(wire') : wire'[k] = wire[k + 1]
           /\ \A i \in Owed' : wire[1] # RowFrame(i, log[i]) /\ (OnTheWay(i) => OnTheWay(i)' /\ Mark(Head(wire)) < i)
           /\ \A n \in 1..Len(wire') : IsComplete(wire'[n]) => wire'[n].id < nextId
<1>1. /\ Head(wire) = wire[1] /\ Head(wire) \in Frames
      /\ wire' \in Seq(Frames) /\ Len(wire') = Len(wire) - 1 /\ Len(wire) \in Nat
      /\ \A k \in 1..Len(wire') : wire'[k] = wire[k + 1] /\ k + 1 \in 1..Len(wire)
      /\ 1 \in 1..Len(wire)
    <2>1. wire \in Seq(Frames) /\ Len(wire) \in Nat
        BY LenProperties DEF WireInv
    <2>2. Len(wire) # 0
        BY <2>1
    <2>3. /\ Head(wire) \in Frames /\ Tail(wire) \in Seq(Frames)
          /\ Len(Tail(wire)) = Len(wire) - 1
          /\ \A k \in 1..Len(Tail(wire)) : Tail(wire)[k] = wire[k + 1]
        BY <2>1, HeadTailProperties
    <2> QED BY <2>1, <2>2, <2>3
<1>2. Owed' \subseteq Owed
    BY StaysAccounted DEF Owed
<1>3. WireInv'
    <2>1. \A n \in 1..Len(wire') : Known(Mark(wire'[n]))
        BY <1>1 DEF WireInv
    <2> QED BY <1>1, <2>1 DEF WireInv, Known, Growing
<1>4. ASSUME NEW i \in Owed'
      PROVE  wire[1] # RowFrame(i, log[i]) /\ (OnTheWay(i) => OnTheWay(i)' /\ Mark(Head(wire)) < i)
    <2>1. i \in 1..Len(log) /\ ~Accounted(i)' /\ log'[i] = log[i]
        BY DEF Owed
    <2>2. Head(wire) # RowFrame(i, log[i])
        BY <2>1 DEF Accounted
    <2>3. ASSUME OnTheWay(i) PROVE OnTheWay(i)' /\ Mark(Head(wire)) < i
        <3>1. PICK k \in 1..Len(wire) : wire[k] = RowFrame(i, log[i]) /\ \A m \in 1..(k - 1) : Mark(wire[m]) < i
            BY <2>3 DEF OnTheWay
        <3>2. k # 1
            BY <1>1, <2>2, <3>1
        <3>3. k - 1 \in 1..Len(wire') /\ wire'[k - 1] = RowFrame(i, log'[i])
            BY <1>1, <2>1, <3>1, <3>2
        <3>4. \A m \in 1..((k - 1) - 1) : wire'[m] = wire[m + 1] /\ m + 1 \in 1..(k - 1)
            BY <1>1, <3>1
        <3>5. \A m \in 1..((k - 1) - 1) : Mark(wire'[m]) < i
            BY <3>1, <3>4
        <3>6. Mark(wire[1]) < i
            BY <3>1, <3>2
        <3> QED BY <1>1, <3>3, <3>5, <3>6 DEF OnTheWay
    <2> QED BY <1>1, <2>2, <2>3
<1>5. \A n \in 1..Len(wire') : IsComplete(wire'[n]) => wire'[n].id < nextId
    BY <1>1 DEF CompleteIds
<1> QED BY <1>1, <1>2, <1>3, <1>4, <1>5 DEF WireInv

\* The frame in front is taken and moves the cursor, or a catch-up's maxSeen, no
\* further than its mark.
LEMMA Consumes ==
    ASSUME FeedInv, wire # <<>>, wire' = Tail(wire),
           UNCHANGED <<log, fork, live, link, asks, nextId, reports>>,
           delivered \subseteq delivered',
           \A i \in 1..Len(log) : Head(wire) = RowFrame(i, log[i]) => <<i, log[i]>> \in delivered',
           cursor' \in Nat,
           cursor' <= cursor \/ (cu = None /\ cursor' <= Mark(Head(wire))),
           cu = None => cu' = None,
           cu # None => /\ cu' \in CatchUps
                        /\ cu'.queue = cu.queue /\ cu'.cursor = cu.cursor
                        /\ cu'.current.sub = cu.current.sub /\ cu'.current.id = cu.current.id
                        /\ cu'.current.since = cu.current.since
                        /\ cu'.maxSeen <= cu.maxSeen \/ cu'.maxSeen <= Mark(Head(wire))
    PROVE  FeedInv'
<1>1. /\ WireInv /\ AskInv /\ CompleteIds(nextId) /\ CursorAt(cursor)
      /\ cu # None => link = "up" /\ Asking(cu, cu.current.since) /\ AnswersHold(cu)
      /\ cu = None /\ link = "up" => AllSettled
      /\ link = "up" \/ (link = "down" /\ cu = None /\ wire = <<>> /\ asks = <<>> /\ live = {})
    BY DEF FeedInv
<1>2. \A r \in reports' : Known(r.since)
    BY <1>1 DEF WireInv
<1>3. /\ WireInv' /\ Owed' \subseteq Owed
      /\ Head(wire) \in Frames /\ Known(Mark(Head(wire)))
      /\ Len(wire') = Len(wire) - 1 /\ Len(wire) \in Nat
      /\ \A k \in 1..Len(wire') : wire'[k] = wire[k + 1]
      /\ \A i \in Owed' : wire[1] # RowFrame(i, log[i]) /\ (OnTheWay(i) => OnTheWay(i)' /\ Mark(Head(wire)) < i)
      /\ \A n \in 1..Len(wire') : IsComplete(wire'[n]) => wire'[n].id < nextId
    BY <1>1, <1>2, Pops
<1>4. link = "up" /\ link' = "up"
    BY <1>1
<1>5. \A p : Known(p)' <=> Known(p)
    BY DEF Known, Growing
<1>6. AskInv' /\ CompleteIds(nextId)'
    BY <1>1, <1>3, <1>5 DEF AskInv, CompleteIds
<1>7. \A i \in Owed' : i \in Nat /\ log'[i] = log[i]
    BY <1>1, LenProperties DEF Owed, WireInv
<1>8. \A s : Kept(s)' <=> Kept(s)
    BY DEF Kept
<1>9. CASE cu = None
    <2>1. AllSettled /\ cu' = None
        BY <1>1, <1>4, <1>9
    <2>2. AllSettled'
        BY <1>3, <1>8, <2>1 DEF AllSettled
    <2>3. CursorAt(cursor)'
        <3>1. \A i \in Owed' : i > cursor /\ i > Mark(Head(wire))
            BY <1>1, <1>3, <2>1 DEF AllSettled, CursorAt
        <3>2. cursor \in Nat /\ Mark(Head(wire)) \in Nat /\ Known(cursor)
            BY <1>1, <1>3 DEF CursorAt, Known
        <3>3. \A i \in Owed' : i > cursor'
            BY <1>7, <3>1, <3>2
        <3>4. Known(cursor')
            BY <1>1, <1>3, <3>2, LenProperties DEF Known, WireInv
        <3> QED BY <1>5, <3>3, <3>4 DEF CursorAt
    <2> QED BY <1>3, <1>4, <1>6, <2>1, <2>2, <2>3 DEF FeedInv
<1>10. CASE cu # None
    <2> PICK c : c = cu'
        OBVIOUS
    <2>1. /\ Asking(cu, cu.current.since) /\ AnswersHold(cu) /\ cu \in CatchUps
          /\ Known(cu.cursor) /\ Known(cu.maxSeen) /\ Known(cu.current.since)
        BY <1>1, <1>10 DEF Asking, Settled
    <2>2. CursorAt(cursor)'
        <3>1. cursor \in Nat /\ \A i \in Owed' : i > cursor
            BY <1>1, <1>3 DEF CursorAt, Known
        <3>2. Known(cursor')
            BY <1>1, <1>10, <3>1, LenProperties DEF CursorAt, Known, WireInv
        <3> QED BY <1>5, <1>7, <1>10, <3>1, <3>2 DEF CursorAt
    <2>3. c # None /\ c \in CatchUps
        BY <1>10, NoneAssumption
    <2>4. c.maxSeen \in Nat /\ cu.maxSeen \in Nat
        BY <2>1, <2>3 DEF CatchUps
    <2>5. Known(c.maxSeen)
        BY <1>1, <1>3, <1>10, <2>1, <2>4, LenProperties DEF Known, WireInv
    <2>6. \A i \in Owed' : cu.maxSeen < i /\ OnTheWay(i) => c.maxSeen < i /\ OnTheWay(i)'
        <3> SUFFICES ASSUME NEW i \in Owed', cu.maxSeen < i, OnTheWay(i)
                     PROVE  c.maxSeen < i /\ OnTheWay(i)'
            OBVIOUS
        <3>1. OnTheWay(i)' /\ Mark(Head(wire)) < i
            BY <1>3
        <3>2. i \in Nat /\ Mark(Head(wire)) \in Nat
            BY <1>3, <1>7 DEF Known
        <3> QED BY <1>10, <2>4, <3>1, <3>2
    <2>7. Asking(c, c.current.since)'
        <3>1. \A i \in Owed' : i \in Owed /\ log'[i] = log[i]
            BY <1>3, <1>7
        <3>2. Settled(c, ToSet(c.queue) \cup {c.current.sub})'
            BY <1>5, <1>8, <1>10, <2>1, <2>3, <2>5, <2>6, <3>1 DEF Asking, Settled
        <3> QED BY <1>5, <1>10, <2>1, <3>1, <3>2 DEF Asking
    <2>8. AnswersHold(c)'
        <3>1. ASSUME NEW n \in 1..Len(wire'), IsComplete(wire'[n]), wire'[n].id = c.current.id
              PROVE  AnswerAt(n, c)'
            <4>1. n + 1 \in 1..Len(wire) /\ wire[n + 1] = wire'[n]
                BY <1>3
            <4>2. AnswerAt(n + 1, cu)
                BY <1>10, <2>1, <3>1, <4>1 DEF AnswersHold
            <4>3. ASSUME NEW i \in Owed', NEW m \in 1..((n + 1) - 1), wire[m] = RowFrame(i, log[i])
                  PROVE  \E k \in 1..(n - 1) : wire'[k] = RowFrame(i, log'[i])
                <5>1. m # 1
                    BY <1>3, <4>3
                <5>2. m - 1 \in 1..(n - 1) /\ m - 1 \in 1..Len(wire')
                    BY <1>3, <4>3, <5>1
                <5>3. wire'[m - 1] = wire[m]
                    BY <1>3, <5>2
                <5> QED BY <1>7, <4>3, <5>2, <5>3
            <4> QED BY <1>3, <1>7, <1>10, <2>6, <4>1, <4>2, <4>3 DEF AnswerAt
        <3> QED BY <1>10, <2>1, <3>1 DEF AnswersHold
    <2> QED BY <1>3, <1>4, <1>6, <2>2, <2>3, <2>7, <2>8 DEF FeedInv, Asking, Settled, AnswersHold, AnswerAt
<1> QED BY <1>9, <1>10

\* A request is sent, whatever else the step does before it.
LEMMA Sends ==
    ASSUME NEW c, NEW since, SendCatchUp(c, since), Asking(c, since)',
           WireInv', AskInv, UNCHANGED <<log, fork>>, CursorAt(cursor)', link' = "up",
           \A n \in 1..Len(wire') : IsComplete(wire'[n]) => wire'[n].id < nextId
    PROVE  FeedInv'
<1>1. /\ cu' = [c EXCEPT !.current.id = nextId, !.current.since = since, !.timer = "answer"]
      /\ asks' = Append(asks, [id |-> nextId, sub |-> c.current.sub, since |-> since])
      /\ nextId' = nextId + 1
    BY DEF SendCatchUp
<1>2. c \in CatchUps /\ since \in Nat /\ nextId \in Nat
    BY DEF Asking, Settled, Known, AskInv
<1>3. c.current \in [sub : SubNames \cup {None}, id : Nat, since : Nat, rounds : Nat, retries : Nat]
    BY <1>2 DEF CatchUps
<1>4. PICK d : d = cu'
    OBVIOUS
<1>5. /\ d \in CatchUps /\ d.queue = c.queue /\ d.cursor = c.cursor /\ d.maxSeen = c.maxSeen
      /\ d.current.sub = c.current.sub /\ d.current.id = nextId /\ d.current.since = since
    BY <1>1, <1>2, <1>3, <1>4 DEF CatchUps
<1>6. d # None
    BY <1>5, NoneAssumption
<1>7. Asking(d, d.current.since)'
    BY <1>5 DEF Asking, Settled
<1>8. \A p : Known(p)' <=> Known(p)
    BY DEF Known, Growing
<1>9. /\ asks' \in Seq(Requests) /\ Len(asks') = Len(asks) + 1 /\ Len(asks) \in Nat
      /\ \A k \in 1..Len(asks) : asks'[k] = asks[k]
      /\ asks'[Len(asks) + 1] = [id |-> nextId, sub |-> c.current.sub, since |-> since]
    <2>1. [id |-> nextId, sub |-> c.current.sub, since |-> since] \in Requests
        BY <1>2, <1>3 DEF Requests
    <2> QED BY <1>1, <2>1, AppendProperties, LenProperties DEF AskInv
<1>10. \A k \in 1..Len(asks') : k \in 1..Len(asks) \/ k = Len(asks) + 1
    BY <1>9
<1>11. AskInv'
    <2>1. \A k \in 1..Len(asks) : asks[k].id \in Nat
        <3>1. \A k \in 1..Len(asks) : asks[k] \in Requests
            BY LenProperties DEF AskInv
        <3> QED BY <3>1 DEF Requests
    <2>2. Known(since)
        BY <1>8 DEF Asking
    <2>3. \A k \in 1..Len(asks') : asks'[k].id < nextId' /\ Known(asks'[k].since)
        BY <1>1, <1>2, <1>9, <1>10, <2>1, <2>2 DEF AskInv
    <2> QED BY <1>1, <1>2, <1>8, <1>9, <2>3 DEF AskInv
<1>12. \A n \in 1..Len(wire') : IsComplete(wire'[n]) => wire'[n].id \in Nat
    BY FrameFacts DEF WireInv
<1>13. CompleteIds(nextId)'
    BY <1>1, <1>2, <1>12 DEF CompleteIds
<1>14. AnswersHold(d)'
    <2>1. \A k \in 1..Len(asks') : asks'[k].id = nextId =>
              asks'[k].sub = c.current.sub /\ asks'[k].since = since
        <3>1. \A k \in 1..Len(asks) : asks[k].id # nextId
            BY <1>2 DEF AskInv, Requests
        <3> QED BY <1>9, <1>10, <3>1
    <2>2. \A n \in 1..Len(wire') : IsComplete(wire'[n]) => wire'[n].id # nextId
        BY <1>2, <1>12
    <2> QED BY <1>1, <1>2, <1>5, <2>1, <2>2 DEF AnswersHold
<1> QED BY <1>4, <1>6, <1>7, <1>11, <1>13, <1>14 DEF FeedInv, Asking, Settled, AnswersHold, AnswerAt

\* The next subscription is asked for, or the catch-up is over.
LEMMA Proceeds ==
    ASSUME NEW c, NextCatchUp(c), Settled(c, ToSet(c.queue))',
           WireInv', AskInv, UNCHANGED <<log, fork>>, NEW p, p = cursor, CursorAt(p)', link' = "up",
           \A n \in 1..Len(wire') : IsComplete(wire'[n]) => wire'[n].id < nextId
    PROVE  FeedInv'
<1>1. /\ c \in CatchUps /\ c.queue \in Seq(SubNames) /\ c.maxSeen \in Nat /\ c.cursor \in Nat
      /\ Known(c.cursor)' /\ Known(c.maxSeen)'
    BY DEF Settled, CatchUps
<1>2. \A q : Known(q)' <=> Known(q)
    BY DEF Known, Growing
<1>3. CASE c.queue = <<>>
    <2>1. cu' = None /\ cursor' = Higher(cursor, c.maxSeen) /\ UNCHANGED <<asks, nextId>>
        BY <1>3 DEF NextCatchUp
    <2>2. ToSet(c.queue) = {}
        BY <1>3 DEF ToSet
    <2>3. /\ \A i \in Owed' : c.maxSeen < i /\ OnTheWay(i)'
          /\ \A s \in SubNames : Kept(s)'
        BY <2>2 DEF Settled
    <2>4. CursorAt(cursor)'
        <3>1. p \in Nat /\ Known(p)' /\ \A i \in Owed' : i > p
            BY DEF CursorAt, Known
        <3>2. \E x \in {p, c.maxSeen} : \A y \in {p, c.maxSeen} : x >= y
            BY <1>1, <3>1
        <3>3. cursor' \in {p, c.maxSeen}
            BY <2>1, <3>2 DEF Higher, Max
        <3>4. \A i \in Owed' : i > cursor'
            <4>1. \A i \in Owed' : i \in Nat
                BY LenProperties DEF Owed, WireInv
            <4> QED BY <1>1, <2>3, <3>1, <3>3, <4>1
        <3>5. Known(cursor')
            BY <1>1, <1>2, <3>1, <3>3
        <3> QED BY <1>2, <3>4, <3>5 DEF CursorAt
    <2>5. AskInv' /\ CompleteIds(nextId)'
        BY <1>2, <2>1 DEF AskInv, CompleteIds
    <2> QED BY <2>1, <2>3, <2>4, <2>5 DEF FeedInv, AllSettled
<1>4. CASE c.queue # <<>>
    <2>1. PICK d : d = [c EXCEPT !.queue = Tail(@), !.current = Fresh(Head(c.queue))]
        OBVIOUS
    <2>2. SendCatchUp(d, c.cursor) /\ cursor' = cursor
        BY <1>4, <2>1 DEF NextCatchUp
    <2>3. /\ Head(c.queue) \in SubNames /\ Tail(c.queue) \in Seq(SubNames)
          /\ ToSet(c.queue) = ToSet(Tail(c.queue)) \cup {Head(c.queue)}
        <3>1. /\ Len(c.queue) \in Nat /\ DOMAIN c.queue = 1..Len(c.queue)
              /\ Head(c.queue) = c.queue[1] /\ Head(c.queue) \in SubNames
              /\ Tail(c.queue) \in Seq(SubNames)
              /\ Len(Tail(c.queue)) = Len(c.queue) - 1
              /\ DOMAIN Tail(c.queue) = 1..Len(Tail(c.queue))
              /\ \A i \in 1..Len(Tail(c.queue)) : Tail(c.queue)[i] = c.queue[i + 1]
            BY <1>1, <1>4, HeadTailProperties, LenProperties
        <3>2. Len(c.queue) # 0
            BY <1>1, <1>4
        <3>3. \A k \in 1..Len(c.queue) : k = 1 \/ (k - 1 \in 1..Len(Tail(c.queue)) /\ Tail(c.queue)[k - 1] = c.queue[k])
            BY <3>1
        <3>4. \A k \in 1..Len(Tail(c.queue)) : k + 1 \in 1..Len(c.queue) /\ Tail(c.queue)[k] = c.queue[k + 1]
            BY <3>1
        <3>5. 1 \in 1..Len(c.queue)
            BY <3>1, <3>2
        <3>6. /\ ToSet(c.queue) = {c.queue[k] : k \in 1..Len(c.queue)}
              /\ ToSet(Tail(c.queue)) = {Tail(c.queue)[k] : k \in 1..Len(Tail(c.queue))}
            BY <3>1 DEF ToSet
        <3>7. ToSet(c.queue) \subseteq ToSet(Tail(c.queue)) \cup {Head(c.queue)}
            <4> SUFFICES ASSUME NEW k \in 1..Len(c.queue)
                         PROVE  c.queue[k] \in ToSet(Tail(c.queue)) \cup {Head(c.queue)}
                BY <3>6
            <4>1. k = 1 => c.queue[k] = Head(c.queue)
                BY <3>1
            <4>2. k # 1 => c.queue[k] \in ToSet(Tail(c.queue))
                BY <3>3, <3>6
            <4> QED BY <4>1, <4>2
        <3>8. ToSet(Tail(c.queue)) \cup {Head(c.queue)} \subseteq ToSet(c.queue)
            BY <3>1, <3>4, <3>5, <3>6
        <3> QED BY <3>1, <3>7, <3>8
    <2>4. /\ d \in CatchUps /\ d.queue = Tail(c.queue) /\ d.cursor = c.cursor /\ d.maxSeen = c.maxSeen
          /\ d.current.sub = Head(c.queue)
        BY <1>1, <2>1, <2>3 DEF CatchUps, Fresh
    <2>5. Asking(d, c.cursor)'
        <3>1. ToSet(d.queue) \cup {d.current.sub} = ToSet(c.queue) /\ ToSet(d.queue) \subseteq ToSet(c.queue)
            BY <2>3, <2>4
        <3>2. Settled(d, ToSet(c.queue))'
            BY <2>4, <3>1 DEF Settled
        <3>3. Settled(d, ToSet(d.queue) \cup {d.current.sub})'
            BY <3>1, <3>2 DEF Settled
        <3>4. \A i \in Owed' : log'[i].sub = d.current.sub => c.cursor < i
            BY <2>3, <2>4 DEF Settled
        <3> QED BY <1>1, <3>3, <3>4 DEF Asking
    <2>6. CursorAt(cursor)'
        BY <2>2 DEF CursorAt
    <2> QED BY <2>2, <2>5, <2>6, Sends
<1> QED BY <1>3, <1>4

\* What is reported is no longer owed.
LEMMA Refuses ==
    ASSUME NEW c, NEW since, RefuseCatchUp(c, since), NEW asked, Asking(c, asked)', since <= asked, since \in Nat,
           WireInv', AskInv, UNCHANGED <<log, fork>>, NEW p, p = cursor, CursorAt(p)', link' = "up",
           \A n \in 1..Len(wire') : IsComplete(wire'[n]) => wire'[n].id < nextId
    PROVE  FeedInv'
<1>1. [sub |-> c.current.sub, since |-> since] \in reports' /\ NextCatchUp(c)
    BY DEF RefuseCatchUp
<1>2. \A i \in Owed' : log'[i].sub # c.current.sub
    <2> SUFFICES ASSUME NEW i \in Owed', log'[i].sub = c.current.sub PROVE FALSE
        OBVIOUS
    <2>1. asked < i /\ asked \in Nat /\ i \in Nat
        BY LenProperties DEF Asking, Known, Owed, WireInv
    <2>2. since < i
        BY <2>1
    <2>3. Accounted(i)'
        BY <1>1, <2>2 DEF Accounted
    <2> QED BY <2>3 DEF Owed
<1>3. Kept(c.current.sub)'
    BY <1>1 DEF Kept
<1>4. Settled(c, ToSet(c.queue))'
    BY <1>2, <1>3 DEF Asking, Settled
<1> QED BY <1>1, <1>4, Proceeds

\* The explorer adds frames; the log may lose rows, or gain one that is in
\* flight to whoever is subscribed.
LEMMA Gains ==
    ASSUME FeedInv, NEW fs \in Seq(Frames), Push(fs), UNCHANGED <<cu, cursor, nextId, link, delivered, reports>>,
           log' \in Seq(Rows), fork' \in Nat, fork' >= 2, \A p : Known(p) => Known(p)',
           \A i \in Owed' : \/ i \in Owed /\ log'[i] = log[i]
                            \/ i = Len(log) + 1 /\ Growing /\ (Kept(log'[i].sub) => OnTheWay(i)'),
           live \subseteq live', asks' \in Seq(Requests),
           \A k \in 1..Len(asks') : \E j \in 1..Len(asks) : asks'[k] = asks[j],
           \A k \in 1..Len(fs) : Known(Mark(fs[k]))',
           \A k \in 1..Len(fs) : IsComplete(fs[k]) =>
              /\ fs[k].id < nextId
              /\ cu # None /\ fs[k].id = cu.current.id =>
                    /\ cu.current.sub \in live'
                    /\ \A i \in Owed' : log'[i].sub = cu.current.sub =>
                          IF i <= fs[k].latest THEN \E m \in 1..(k - 1) : fs[m] = RowFrame(i, log'[i])
                          ELSE fs[k].truncated,
           link = "down" => fs = <<>> /\ asks' = <<>> /\ live' = {}
    PROVE  FeedInv'
<1>1. /\ WireInv /\ AskInv /\ CompleteIds(nextId) /\ CursorAt(cursor)
      /\ cu # None => link = "up" /\ Asking(cu, cu.current.since) /\ AnswersHold(cu)
      /\ cu = None /\ link = "up" => AllSettled
      /\ link = "up" \/ (link = "down" /\ cu = None /\ wire = <<>> /\ asks = <<>> /\ live = {})
    BY DEF FeedInv
<1>2. /\ wire' \in Seq(Frames) /\ Len(wire') = Len(wire) + Len(fs)
      /\ Len(wire) \in Nat /\ Len(fs) \in Nat /\ Len(log) \in Nat
      /\ \A k \in 1..Len(wire) : wire'[k] = wire[k]
      /\ \A k \in 1..Len(fs) : wire'[Len(wire) + k] = fs[k]
      /\ \A k \in 1..Len(wire') : k \in 1..Len(wire) \/ (k - Len(wire) \in 1..Len(fs) /\ wire'[k] = fs[k - Len(wire)])
      /\ \A i : log'[i] = log[i] /\ OnTheWay(i) => OnTheWay(i)'
    BY <1>1, Pushes, LenProperties DEF WireInv
<1>3. WireInv'
    <2>1. (\A n \in 1..Len(wire) : Known(Mark(wire[n])))'
        <3> SUFFICES ASSUME NEW n \in 1..Len(wire') PROVE Known(Mark(wire[n]))'
            OBVIOUS
        <3>1. CASE n \in 1..Len(wire)
            BY <1>1, <1>2, <3>1 DEF WireInv
        <3>2. CASE n \notin 1..Len(wire)
            BY <1>2, <3>2
        <3> QED BY <3>1, <3>2
    <2> QED BY <1>1, <1>2, <2>1 DEF WireInv
<1>4. AskInv'
    BY <1>1 DEF AskInv
<1>5. CompleteIds(nextId)'
    BY <1>1, <1>2 DEF CompleteIds
<1>6. \A s : Kept(s) => Kept(s)'
    BY DEF Kept
<1>7. \A p : Known(p) /\ Growing => \A i \in Owed' : i = Len(log) + 1 => p < i
    BY <1>2 DEF Known
<1>8. CursorAt(cursor)'
    <2>1. Known(cursor) /\ Known(cursor)' /\ cursor' = cursor
        BY <1>1 DEF CursorAt
    <2>2. \A i \in Owed' : cursor < i
        BY <1>1, <1>7, <2>1 DEF CursorAt
    <2> QED BY <2>1, <2>2 DEF CursorAt
<1>9. \A i \in Owed' : log'[i].sub \in SubNames
    <2>1. \A i \in Owed' : i \in 1..Len(log')
        BY DEF Owed
    <2>2. \A i \in Owed' : log'[i] \in Rows
        BY <2>1, LenProperties
    <2> QED BY <2>2 DEF Rows
<1>10. CASE cu = None
    <2>1. link = "up" => AllSettled'
        <3> SUFFICES ASSUME link = "up" PROVE AllSettled'
            OBVIOUS
        <3>1. AllSettled
            BY <1>1, <1>10
        <3>2. \A i \in Owed' : OnTheWay(i)'
            BY <1>2, <1>9, <3>1 DEF AllSettled
        <3> QED BY <1>6, <3>1, <3>2 DEF AllSettled
    <2>2. link = "down" => wire' = <<>>
        BY <1>1, <1>2
    <2> QED BY <1>1, <1>3, <1>4, <1>5, <1>8, <1>10, <2>1, <2>2 DEF FeedInv
<1>11. CASE cu # None
    <2> PICK c : c = cu
        OBVIOUS
    <2>1. /\ Asking(c, c.current.since) /\ AnswersHold(c) /\ c \in CatchUps /\ link = "up"
          /\ Known(c.cursor) /\ Known(c.maxSeen) /\ Known(c.current.since)
          /\ Settled(c, ToSet(c.queue) \cup {c.current.sub})
        BY <1>1, <1>11 DEF Asking, Settled
    <2> DEFINE todo == ToSet(c.queue) \cup {c.current.sub}
    <2> HIDE DEF todo
    <2>2. \A i \in Owed' : /\ log'[i].sub \notin todo => c.maxSeen < i /\ OnTheWay(i)'
                           /\ log'[i].sub \in ToSet(c.queue) => c.cursor < i
                           /\ log'[i].sub = c.current.sub => c.current.since < i
        <3> SUFFICES ASSUME NEW i \in Owed'
                     PROVE  /\ log'[i].sub \notin todo => c.maxSeen < i /\ OnTheWay(i)'
                            /\ log'[i].sub \in ToSet(c.queue) => c.cursor < i
                            /\ log'[i].sub = c.current.sub => c.current.since < i
            OBVIOUS
        <3>1. CASE i \in Owed /\ log'[i] = log[i]
            BY <1>2, <2>1, <3>1 DEF Asking, Settled, todo
        <3>2. CASE i = Len(log) + 1 /\ Growing /\ (Kept(log'[i].sub) => OnTheWay(i)')
            <4>1. log'[i].sub \notin todo => Kept(log'[i].sub)
                BY <1>9, <2>1 DEF Settled, todo
            <4> QED BY <1>7, <2>1, <3>2, <4>1
        <3> QED BY <3>1, <3>2
    <2>3. Settled(c, todo)'
        BY <1>6, <2>1, <2>2 DEF Settled, todo
    <2>4. Asking(c, c.current.since)'
        BY <2>1, <2>2, <2>3 DEF Asking, todo
    <2>5. ASSUME NEW n \in 1..Len(wire'), IsComplete(wire'[n]), wire'[n].id = c.current.id
          PROVE  AnswerAt(n, c)'
        <3>1. CASE n \in 1..Len(wire)
            <4>1. wire'[n] = wire[n] /\ AnswerAt(n, c)
                BY <1>2, <2>1, <2>5, <3>1 DEF AnswersHold
            <4>2. \A m \in 1..(n - 1) : wire'[m] = wire[m]
                BY <1>2, <3>1
            <4>3. Known(wire[n].latest)
                BY <1>1, <2>5, <3>1, <4>1 DEF WireInv, Mark, IsComplete
            <4>4. Kept(c.current.sub)
                BY <4>1 DEF AnswerAt, Kept
            <4>5. ASSUME NEW i \in Owed', log'[i].sub = c.current.sub
                  PROVE  IF i <= wire'[n].latest THEN \E m \in 1..(n - 1) : wire'[m] = RowFrame(i, log'[i])
                         ELSE wire'[n].truncated \/ (c.maxSeen < i /\ OnTheWay(i)')
                <5>1. CASE i \in Owed /\ log'[i] = log[i]
                    <6>1. IF i <= wire[n].latest THEN \E m \in 1..(n - 1) : wire[m] = RowFrame(i, log[i])
                          ELSE wire[n].truncated \/ (c.maxSeen < i /\ OnTheWay(i))
                        BY <4>1, <4>5, <5>1 DEF AnswerAt
                    <6>2. OnTheWay(i) => OnTheWay(i)'
                        BY <1>2, <5>1
                    <6> QED BY <4>1, <4>2, <5>1, <6>1, <6>2
                <5>2. CASE i = Len(log) + 1 /\ Growing /\ (Kept(log'[i].sub) => OnTheWay(i)')
                    <6>1. wire[n].latest < i /\ c.maxSeen < i /\ wire[n].latest \in Nat /\ i \in Nat
                        BY <1>2, <1>7, <2>1, <4>3, <5>2 DEF Known
                    <6>2. ~(i <= wire'[n].latest)
                        BY <4>1, <6>1
                    <6> QED BY <4>4, <4>5, <5>2, <6>1, <6>2
                <5> QED BY <5>1, <5>2
            <4> QED BY <4>1, <4>5 DEF AnswerAt
        <3>2. CASE n \notin 1..Len(wire)
            <4>1. PICK k \in 1..Len(fs) : k = n - Len(wire) /\ wire'[n] = fs[k]
                BY <1>2, <3>2
            <4>2. /\ c.current.sub \in live'
                  /\ \A i \in Owed' : log'[i].sub = c.current.sub =>
                        IF i <= fs[k].latest THEN \E m \in 1..(k - 1) : fs[m] = RowFrame(i, log'[i])
                        ELSE fs[k].truncated
                BY <1>11, <2>5, <4>1
            <4>3. \A m \in 1..(k - 1) : Len(wire) + m \in 1..(n - 1) /\ wire'[Len(wire) + m] = fs[m]
                BY <1>2, <4>1
            <4>4. ASSUME NEW i \in Owed', log'[i].sub = c.current.sub
                  PROVE  IF i <= wire'[n].latest THEN \E m \in 1..(n - 1) : wire'[m] = RowFrame(i, log'[i])
                         ELSE wire'[n].truncated \/ (c.maxSeen < i /\ OnTheWay(i)')
                <5>1. wire'[n] = fs[k] /\ IF i <= fs[k].latest THEN \E m \in 1..(k - 1) : fs[m] = RowFrame(i, log'[i])
                      ELSE fs[k].truncated
                    BY <4>1, <4>2, <4>4
                <5> QED BY <4>3, <5>1
            <4> QED BY <4>2, <4>4 DEF AnswerAt
        <3> QED BY <3>1, <3>2
    <2>6. AnswersHold(c)'
        BY <1>1, <2>1, <2>5 DEF AnswersHold
    <2> QED BY <1>3, <1>4, <1>5, <1>8, <1>11, <2>1, <2>4, <2>6 DEF FeedInv, Asking, Settled, AnswersHold, AnswerAt
<1> QED BY <1>10, <1>11

LEMMA PushNothing == ASSUME wire \in Seq(Frames), UNCHANGED wire PROVE Push(<<>>)
BY ConcatEmptySeq DEF Push

LEMMA FeedStarts == Init => FeedInv
<1> SUFFICES ASSUME Init PROVE FeedInv
    OBVIOUS
<1>1. /\ log \in [1..Seed -> [sub : SubNames, gen : {0}]] /\ fork = MaxRows + 1
      /\ link = "up" /\ live = SubNames /\ asks = <<>> /\ wire = <<>>
      /\ cursor = Seed /\ cu = None /\ nextId = 1 /\ reports = {}
    BY DEF Init
<1>2. Seed \in Nat /\ MaxRows \in Nat /\ Seed > 0 /\ Seed <= MaxRows
    BY FeedAssumption
<1>3. log \in Seq(Rows) /\ Len(log) = Seed
    <2>1. log \in [1..Seed -> Rows]
        BY <1>1 DEF Rows
    <2> QED BY <1>2, <2>1
<1>4. Owed = {}
    <2>1. \A i \in 1..Seed : log[i].gen = 0
        BY <1>1
    <2> QED BY <1>2, <1>3, <2>1 DEF Owed, Accounted
<1>5. WireInv
    BY <1>1, <1>2, <1>3 DEF WireInv
<1>6. AskInv /\ CompleteIds(nextId)
    BY <1>1 DEF AskInv, CompleteIds
<1>7. CursorAt(cursor) /\ AllSettled
    BY <1>1, <1>2, <1>3, <1>4 DEF CursorAt, Known, AllSettled, Kept
<1> QED BY <1>1, <1>5, <1>6, <1>7 DEF FeedInv

LEMMA AppendRowKeeps ==
    ASSUME FeedInv, rollbacks \in Nat, AppendRow
    PROVE  FeedInv'
<1>1. PICK s \in SubNames : /\ log' = Append(log, [sub |-> s, gen |-> rollbacks])
                            /\ IF s \in live THEN Push(<<RowFrame(Len(log) + 1, [sub |-> s, gen |-> rollbacks])>>)
                               ELSE UNCHANGED wire
    BY DEF AppendRow
<1> PICK row, new : row = [sub |-> s, gen |-> rollbacks] /\ new = Len(log) + 1
    OBVIOUS
<1>2. PICK fs : fs = IF s \in live THEN <<RowFrame(new, row)>> ELSE <<>>
    OBVIOUS
<1>3. /\ WireInv /\ AskInv /\ log \in Seq(Rows) /\ Len(log) \in Nat /\ wire \in Seq(Frames) /\ fork \in Nat
      /\ fork >= 2
    BY LenProperties DEF FeedInv, WireInv
<1>4. UNCHANGED <<fork, rollbacks, drops, link, live, asks, cursor, cu, nextId, delivered, reports>>
    BY DEF AppendRow, linkVars
<1>5. /\ row \in Rows /\ log' \in Seq(Rows) /\ Len(log') = new /\ log'[new] = row
      /\ \A i \in 1..Len(log) : log'[i] = log[i]
    <2>1. row \in Rows
        BY DEF Rows
    <2> QED BY <1>1, <1>3, <2>1, AppendProperties
<1>6. RowFrame(new, row) \in Frames
    BY <1>3, <1>5, FrameFacts
<1>7. /\ fs \in Seq(Frames) /\ Push(fs)
      /\ Len(fs) = IF s \in live THEN 1 ELSE 0
      /\ s \in live => fs[1] = RowFrame(new, row)
    BY <1>1, <1>2, <1>3, <1>6, PushNothing
<1>8. /\ Len(wire') = Len(wire) + Len(fs) /\ Len(wire) \in Nat
      /\ \A k \in 1..Len(wire) : wire'[k] = wire[k]
      /\ \A k \in 1..Len(fs) : wire'[Len(wire) + k] = fs[k]
    BY <1>3, <1>7, Pushes
<1>9. \A p : Known(p) => Known(p)'
    BY <1>3, <1>4, <1>5 DEF Known, Growing
<1>10. ASSUME NEW i \in Owed'
       PROVE  \/ i \in Owed /\ log'[i] = log[i]
              \/ i = new /\ Growing /\ (Kept(log'[i].sub) => OnTheWay(i)')
    <2>1. i \in 1..Len(log') /\ i < fork /\ ~Accounted(i)'
        BY <1>4 DEF Owed
    <2>2. CASE i \in 1..Len(log)
        <3>1. log'[i] = log[i] /\ ~Accounted(i)
            BY <1>4, <1>5, <2>1, <2>2, StaysAccounted
        <3> QED BY <2>1, <2>2, <3>1 DEF Owed
    <2>3. CASE i \notin 1..Len(log)
        <3>1. i = new /\ Growing
            BY <1>3, <1>5, <2>1, <2>3 DEF Growing
        <3>2. ASSUME Kept(log'[i].sub) PROVE OnTheWay(i)'
            <4>1. log'[i].sub = s
                BY <1>5, <3>1
            <4>2. \A r \in reports : r.since < i
                BY <1>3, <3>1 DEF WireInv, Known
            <4>3. s \in live
                BY <1>4, <2>1, <3>2, <4>1, <4>2 DEF Kept, Accounted
            <4>4. wire'[Len(wire) + 1] = RowFrame(i, log'[i]) /\ Len(wire') = Len(wire) + 1
                BY <1>5, <1>7, <1>8, <3>1, <4>3
            <4>5. \A m \in 1..Len(wire) : Mark(wire'[m]) < i
                BY <1>3, <1>8, <3>1 DEF WireInv, Known
            <4>6. Len(wire) + 1 \in 1..Len(wire') /\ (Len(wire) + 1) - 1 = Len(wire)
                BY <1>8, <4>4
            <4> QED BY <4>4, <4>5, <4>6 DEF OnTheWay
        <3> QED BY <3>1, <3>2
    <2> QED BY <2>2, <2>3
<1>11. \A k \in 1..Len(fs) : fs[k] = RowFrame(new, row) /\ Known(Mark(fs[k]))' /\ ~IsComplete(fs[k])
    <2>1. \A k \in 1..Len(fs) : fs[k] = RowFrame(new, row)
        BY <1>7
    <2>2. Mark(RowFrame(new, row)) = new /\ ~IsComplete(RowFrame(new, row))
        BY FrameFacts
    <2>3. Known(new)'
        BY <1>3, <1>5 DEF Known
    <2> QED BY <2>1, <2>2, <2>3
<1>12. asks' \in Seq(Requests) /\ \A k \in 1..Len(asks') : \E j \in 1..Len(asks) : asks'[k] = asks[j]
    BY <1>3, <1>4 DEF AskInv
<1>13. link = "down" => fs = <<>> /\ asks' = <<>> /\ live' = {}
    BY <1>2, <1>4 DEF FeedInv
<1>14. fork' \in Nat /\ fork' >= 2 /\ UNCHANGED <<cu, cursor, nextId, link, delivered, reports>> /\ live \subseteq live'
    BY <1>3, <1>4
<1>15. \A i \in Owed' : \/ i \in Owed /\ log'[i] = log[i]
                        \/ i = Len(log) + 1 /\ Growing /\ (Kept(log'[i].sub) => OnTheWay(i)')
    BY <1>10
<1> QED BY <1>5, <1>7, <1>9, <1>11, <1>12, <1>13, <1>14, <1>15, Gains

\* A rollback takes rows away, and from then on none is owed that is appended.
LEMMA RollbackKeeps ==
    ASSUME FeedInv, Rollback
    PROVE  FeedInv'
<1>1. PICK f \in 2..Len(log) : /\ log' = SubSeq(log, 1, f - 1) /\ fork' = Min({fork, f})
                               /\ IF live # {} THEN Push(<<[type |-> "REORG", first |-> f]>>) ELSE UNCHANGED wire
    BY DEF Rollback
<1>2. PICK fs : fs = IF live # {} THEN <<[type |-> "REORG", first |-> f]>> ELSE <<>>
    OBVIOUS
<1>3. /\ WireInv /\ AskInv /\ log \in Seq(Rows) /\ Len(log) \in Nat /\ wire \in Seq(Frames)
      /\ fork \in Nat /\ fork >= 2
    BY LenProperties DEF FeedInv, WireInv
<1>4. UNCHANGED <<drops, link, live, asks, cursor, cu, nextId, delivered, reports>>
    BY DEF Rollback, linkVars
<1>5. /\ log' \in Seq(Rows) /\ Len(log') = f - 1
      /\ \A i \in 1..Len(log') : i \in 1..Len(log) /\ log'[i] = log[i]
    <2>1. \A i \in 1..(f - 1) : log[i] \in Rows /\ i \in 1..Len(log)
        BY <1>3, LenProperties
    <2>2. /\ log' \in Seq(Rows) /\ Len(log') = (IF 1 <= f - 1 THEN (f - 1) - 1 + 1 ELSE 0)
          /\ \A i \in 1..((f - 1) - 1 + 1) : log'[i] = log[1 + i - 1]
        BY <1>1, <1>3, <2>1, SubSeqProperties
    <2> QED BY <2>1, <2>2
<1>6. fork' \in Nat /\ fork' >= 2 /\ fork' <= fork /\ fork' <= f
    <2>1. \E x \in {fork, f} : \A y \in {fork, f} : x <= y
        BY <1>3
    <2>2. fork' \in {fork, f} /\ \A y \in {fork, f} : fork' <= y
        BY <1>1, <2>1 DEF Min
    <2>3. f \in Nat /\ f >= 2
        BY <1>3
    <2> QED BY <1>3, <2>2, <2>3
<1>7. \A p : Known(p) => Known(p)'
    BY <1>5, <1>6 DEF Known, Growing
<1>8. \A i \in Owed' : i \in Owed /\ log'[i] = log[i]
    <2> SUFFICES ASSUME NEW i \in Owed' PROVE i \in Owed /\ log'[i] = log[i]
        OBVIOUS
    <2>1. i \in 1..Len(log') /\ i < fork' /\ ~Accounted(i)'
        BY DEF Owed
    <2>2. i \in 1..Len(log) /\ log'[i] = log[i] /\ i < fork
        BY <1>3, <1>5, <1>6, <2>1
    <2>3. ~Accounted(i)
        BY <1>4, <2>1, <2>2, StaysAccounted
    <2> QED BY <2>2, <2>3 DEF Owed
<1>9. /\ fs \in Seq(Frames) /\ Push(fs)
      /\ \A k \in 1..Len(fs) : fs[k] = [type |-> "REORG", first |-> f]
    <2>1. [type |-> "REORG", first |-> f] \in Frames
        BY DEF Frames
    <2> QED BY <1>1, <1>2, <1>3, <2>1, PushNothing
<1>10. \A k \in 1..Len(fs) : Known(Mark(fs[k]))' /\ ~IsComplete(fs[k])
    <2>1. Known(0)'
        BY <1>5, LenProperties DEF Known
    <2> QED BY <1>9, <2>1 DEF Mark, IsComplete
<1>11. asks' \in Seq(Requests) /\ \A k \in 1..Len(asks') : \E j \in 1..Len(asks) : asks'[k] = asks[j]
    BY <1>3, <1>4 DEF AskInv
<1>12. link = "down" => fs = <<>> /\ asks' = <<>> /\ live' = {}
    BY <1>2, <1>4 DEF FeedInv
<1> QED BY <1>4, <1>5, <1>6, <1>7, <1>8, <1>9, <1>10, <1>11, <1>12, Gains

\* The frames of a replay.
ReplayWire(req) ==
    [n \in 1..Len(Replayed(req)) |-> RowFrame(Replayed(req)[n], log[Replayed(req)[n]])] \o <<Complete(req)>>

LEMMA ReplayFrames ==
    ASSUME log \in Seq(Rows), NEW req, req.since \in Nat, req.id \in Nat,
           NEW fs, fs = ReplayWire(req)
    PROVE  /\ fs \in Seq(Frames)
           /\ \A k \in 1..Len(fs) : Mark(fs[k]) \in 0..Len(log)
           /\ \A k \in 1..Len(fs) : IsComplete(fs[k]) =>
                 /\ fs[k].id = req.id
                 /\ \A i \in Missed(req) :
                       IF i <= fs[k].latest THEN \E m \in 1..(k - 1) : fs[m] = RowFrame(i, log[i])
                       ELSE fs[k].truncated
<1> DEFINE R == Replayed(req)
           C == Complete(req)
           frames == [n \in 1..Len(R) |-> RowFrame(R[n], log[R[n]])]
<1>1. /\ R \in Seq(Missed(req)) /\ Missed(req) \subseteq 1..Len(log)
      /\ C.latest \in 0..Len(log)
      /\ \A i \in Missed(req) : i <= C.latest => \E m \in 1..Len(R) : R[m] = i
      /\ ~C.truncated => C.latest = Len(log)
    BY ReplayCarries
<1>2. C.id = req.id /\ C.type = "CATCH_UP_COMPLETE" /\ C \in Frames
    <2>1. C = [type |-> "CATCH_UP_COMPLETE", id |-> req.id, truncated |-> C.truncated, latest |-> C.latest]
        BY DEF Complete
    <2>2. C.truncated \in BOOLEAN
        BY DEF Complete
    <2>3. C.latest \in Nat
        BY <1>1, LenProperties
    <2> QED BY <2>1, <2>2, <2>3 DEF Frames
<1> HIDE DEF R, C
<1>3. Len(R) \in Nat /\ Len(log) \in Nat /\ \A n \in 1..Len(R) : R[n] \in 1..Len(log) /\ log[R[n]] \in Rows
    <2>1. \A n \in 1..Len(R) : R[n] \in 1..Len(log)
        BY <1>1, LenProperties
    <2> QED BY <1>1, <2>1, LenProperties
<1>4. frames \in Seq(Frames) /\ Len(frames) = Len(R) /\ \A n \in 1..Len(R) : frames[n] = RowFrame(R[n], log[R[n]])
    <2>1. \A n \in 1..Len(R) : RowFrame(R[n], log[R[n]]) \in Frames
        BY <1>3, FrameFacts
    <2>2. frames \in [1..Len(R) -> Frames]
        BY <2>1
    <2> QED BY <1>3, <2>2
<1>5. fs = frames \o <<C>>
    BY DEF R, C, ReplayWire
<1> HIDE DEF frames
<1>6. /\ fs \in Seq(Frames) /\ Len(fs) = Len(R) + 1 /\ fs[Len(R) + 1] = C
      /\ \A n \in 1..Len(R) : fs[n] = RowFrame(R[n], log[R[n]])
    <2>0. PICK last, rs, L : last = <<C>> /\ rs = frames /\ L = Len(R)
        OBVIOUS
    <2>1. last \in Seq(Frames) /\ Len(last) = 1 /\ last[1] = C
        BY <1>2, <2>0
    <2>2. rs \in Seq(Frames) /\ Len(rs) = L /\ L \in Nat
        BY <1>3, <1>4, <2>0
    <2>3. /\ rs \o last \in Seq(Frames) /\ Len(rs \o last) = L + 1
          /\ \A k \in 1..(L + 1) : (rs \o last)[k] = IF k <= L THEN rs[k] ELSE last[k - L]
        <3>1. /\ rs \o last \in Seq(Frames) /\ Len(rs \o last) = Len(rs) + Len(last)
              /\ \A k \in 1..(Len(rs) + Len(last)) :
                    (rs \o last)[k] = IF k <= Len(rs) THEN rs[k] ELSE last[k - Len(rs)]
            BY <2>1, <2>2, ConcatProperties
        <3> QED BY <2>1, <2>2, <3>1
    <2>4. fs = rs \o last
        BY <1>5, <2>0, Zenon
    <2>5. \A n \in 1..L : fs[n] = rs[n]
        BY <2>2, <2>3, <2>4
    <2>6. fs[L + 1] = last[1]
        BY <2>2, <2>3, <2>4
    <2> QED BY <1>4, <2>0, <2>1, <2>3, <2>4, <2>5, <2>6
<1>7. \A k \in 1..Len(fs) : k \in 1..Len(R) \/ k = Len(R) + 1
    BY <1>3, <1>6
<1>8. \A k \in 1..Len(R) : Mark(fs[k]) \in 0..Len(log) /\ ~IsComplete(fs[k])
    <2>1. \A k \in 1..Len(R) : Mark(fs[k]) = R[k] /\ ~IsComplete(fs[k])
        <3>1. \A i, row : Mark(RowFrame(i, row)) = i /\ ~IsComplete(RowFrame(i, row))
            BY FrameFacts
        <3> QED BY <1>6, <3>1
    <2>2. \A k \in 1..Len(R) : R[k] \in 0..Len(log)
        BY <1>3
    <2> QED BY <2>1, <2>2
<1>9. Mark(C) \in 0..Len(log)
    BY <1>1, <1>2 DEF Mark, IsComplete
<1>10. \A i \in Missed(req) :
          IF i <= C.latest THEN \E m \in 1..Len(R) : fs[m] = RowFrame(i, log[i]) ELSE C.truncated
    <2> SUFFICES ASSUME NEW i \in Missed(req)
                 PROVE  IF i <= C.latest THEN \E m \in 1..Len(R) : fs[m] = RowFrame(i, log[i]) ELSE C.truncated
        OBVIOUS
    <2>1. i \in 1..Len(log)
        BY <1>1
    <2>2. i <= C.latest => \E m \in 1..Len(R) : fs[m] = RowFrame(i, log[i])
        BY <1>1, <1>6
    <2>3. ~C.truncated => i <= C.latest
        BY <1>1, <1>3, <2>1
    <2> QED BY <2>2, <2>3
<1>11. \A k \in 1..Len(fs) : IsComplete(fs[k]) => k = Len(R) + 1 /\ k - 1 = Len(R) /\ fs[k] = C
    <2>1. (Len(R) + 1) - 1 = Len(R)
        BY <1>3
    <2> QED BY <1>6, <1>7, <1>8, <2>1
<1>12. \A k \in 1..Len(fs) : Mark(fs[k]) \in 0..Len(log)
    BY <1>6, <1>7, <1>8, <1>9
<1> QED BY <1>2, <1>6, <1>10, <1>11, <1>12

\* The explorer answers, carries what was asked for, refuses, or says nothing.
LEMMA AnswerKeeps ==
    ASSUME FeedInv, Answer
    PROVE  FeedInv'
<1>1. /\ WireInv /\ AskInv /\ log \in Seq(Rows) /\ Len(log) \in Nat /\ wire \in Seq(Frames)
      /\ fork \in Nat /\ fork >= 2 /\ asks \in Seq(Requests)
      /\ cu # None => Asking(cu, cu.current.since) /\ AnswersHold(cu)
    BY LenProperties DEF FeedInv, WireInv, AskInv
<1>2. PICK req : req = Head(asks)
    OBVIOUS
<1>3. /\ asks # <<>> /\ asks' = Tail(asks)
      /\ UNCHANGED <<log, fork, drops, link, cursor, cu, nextId, delivered, reports>>
    BY DEF Answer, serverVars
<1>4. /\ asks' \in Seq(Requests) /\ 1 \in 1..Len(asks) /\ req = asks[1] /\ req \in Requests
      /\ \A k \in 1..Len(asks') : \E j \in 1..Len(asks) : asks'[k] = asks[j]
    <2>1. /\ Head(asks) \in Requests /\ Tail(asks) \in Seq(Requests) /\ Len(Tail(asks)) = Len(asks) - 1
          /\ \A i \in 1..Len(Tail(asks)) : Tail(asks)[i] = asks[i + 1]
        BY <1>1, <1>3, HeadTailProperties
    <2>2. Len(asks) \in Nat /\ Len(asks) # 0 /\ Head(asks) = asks[1]
        BY <1>1, <1>3, LenProperties
    <2>3. \A k \in 1..Len(asks') : k + 1 \in 1..Len(asks) /\ asks'[k] = asks[k + 1]
        BY <1>3, <2>1, <2>2
    <2> QED BY <1>2, <1>3, <2>1, <2>2, <2>3
<1>5. req.id \in Nat /\ req.since \in Nat /\ req.id < nextId
    BY <1>1, <1>4 DEF Requests, AskInv
<1>6. \A p : Known(p)' <=> Known(p)
    BY <1>3 DEF Known, Growing
<1>7. \A i \in Owed' : i \in Owed /\ log'[i] = log[i] /\ i \in 1..Len(log) /\ i \in Nat
    BY <1>1, <1>3 DEF Owed, Accounted
<1>8. link = "up"
    BY <1>3 DEF FeedInv
<1>9. ASSUME NEW fs \in Seq(Frames), Push(fs), live \subseteq live',
             \A k \in 1..Len(fs) : Known(Mark(fs[k])),
             \A k \in 1..Len(fs) : IsComplete(fs[k]) =>
                 /\ fs[k].id = req.id /\ req.sub \in live'
                 /\ \A i \in Missed(req) :
                       IF i <= fs[k].latest THEN \E m \in 1..(k - 1) : fs[m] = RowFrame(i, log[i])
                       ELSE fs[k].truncated
      PROVE  FeedInv'
    <2>1. \A k \in 1..Len(fs) : IsComplete(fs[k]) /\ cu # None /\ fs[k].id = cu.current.id =>
              /\ cu.current.sub \in live'
              /\ \A i \in Owed' : log'[i].sub = cu.current.sub =>
                    IF i <= fs[k].latest THEN \E m \in 1..(k - 1) : fs[m] = RowFrame(i, log'[i])
                    ELSE fs[k].truncated
        <3> SUFFICES ASSUME NEW k \in 1..Len(fs), IsComplete(fs[k]), cu # None, fs[k].id = cu.current.id
                     PROVE  /\ cu.current.sub \in live'
                            /\ \A i \in Owed' : log'[i].sub = cu.current.sub =>
                                  IF i <= fs[k].latest THEN \E m \in 1..(k - 1) : fs[m] = RowFrame(i, log'[i])
                                  ELSE fs[k].truncated
            OBVIOUS
        <3>1. req.sub = cu.current.sub /\ req.since = cu.current.since
            BY <1>1, <1>4, <1>9 DEF AnswersHold
        <3>2. \A i \in Owed' : log'[i].sub = cu.current.sub => cu.current.since < i
            BY <1>1, <1>7 DEF Asking
        <3>3. \A i \in Owed' : log'[i].sub = cu.current.sub => i \in Missed(req)
            BY <1>1, <1>5, <1>7, <3>1, <3>2 DEF Missed
        <3> QED BY <1>7, <1>9, <3>1, <3>3
    <2>2. \A k \in 1..Len(fs) : Known(Mark(fs[k]))'
        BY <1>6, <1>9
    <2>3. log' \in Seq(Rows) /\ fork' \in Nat /\ fork' >= 2
        BY <1>1, <1>3
    <2> QED BY <1>3, <1>4, <1>5, <1>6, <1>7, <1>8, <1>9, <2>1, <2>2, <2>3, Gains
<1>10. ASSUME NEW f \in Frames, Push(<<f>>), live \subseteq live', f.type = "error"
       PROVE  FeedInv'
    <2>1. <<f>> \in Seq(Frames) /\ \A k \in 1..Len(<<f>>) : <<f>>[k] = f
        OBVIOUS
    <2>2. Known(0) /\ Mark(f) = 0 /\ ~IsComplete(f)
        BY <1>1, <1>10 DEF Known, Mark, IsComplete
    <2> QED BY <1>9, <1>10, <2>1, <2>2
<1>11. \A code \in Errors \cup {"CATCH_UP_REORGED"} :
           Refusal(req, code) \in Frames /\ Refusal(req, code).type = "error"
    BY <1>5 DEF Refusal, Frames
<1>12. CASE req.since < fork /\ live' = live \cup {req.sub}
            /\ Push(ReplayWire(req))
    <2>1. PICK fs : fs = ReplayWire(req)
        OBVIOUS
    <2>2. /\ fs \in Seq(Frames)
          /\ \A k \in 1..Len(fs) : Mark(fs[k]) \in 0..Len(log)
          /\ \A k \in 1..Len(fs) : IsComplete(fs[k]) =>
                 /\ fs[k].id = req.id
                 /\ \A i \in Missed(req) :
                       IF i <= fs[k].latest THEN \E m \in 1..(k - 1) : fs[m] = RowFrame(i, log[i])
                       ELSE fs[k].truncated
        BY <1>1, <1>5, <2>1, ReplayFrames
    <2>3. \A k \in 1..Len(fs) : Known(Mark(fs[k]))
        BY <1>1, <2>2 DEF Known
    <2>4. Push(fs) /\ live \subseteq live' /\ req.sub \in live'
        BY <1>12, <2>1
    <2> QED BY <1>9, <2>2, <2>3, <2>4
<1>13. CASE req.since >= fork /\ live' \in {live, live \cup {req.sub}} /\ Push(<<Refusal(req, "CATCH_UP_REORGED")>>)
    <2>1. live \subseteq live'
        BY <1>13
    <2> QED BY <1>10, <1>11, <1>13, <2>1
<1>14. ASSUME NEW code \in Errors,
              live' \in IF code = "RATE_LIMITED" THEN {live} ELSE {live, live \cup {req.sub}},
              IF code = "SILENT" THEN UNCHANGED wire ELSE Push(<<Refusal(req, code)>>)
       PROVE  FeedInv'
    <2>1. live \subseteq live'
        BY <1>14
    <2>2. CASE code = "SILENT"
        <3>1. Push(<<>>) /\ <<>> \in Seq(Frames) /\ \A k \in 1..Len(<<>>) : FALSE
            BY <1>1, <1>14, <2>2, PushNothing
        <3> QED BY <1>9, <2>1, <3>1
    <2>3. CASE code # "SILENT"
        BY <1>10, <1>11, <1>14, <2>1, <2>3
    <2> QED BY <2>2, <2>3
<1> QED BY <1>2, <1>12, <1>13, <1>14 DEF Answer, ReplayWire

LEMMA HigherIs ==
    ASSUME NEW a \in Nat, NEW b \in Nat
    PROVE  Higher(a, b) \in {a, b} /\ Higher(a, b) >= a /\ Higher(a, b) >= b
<1>1. \E x \in {a, b} : \A y \in {a, b} : x >= y
    OBVIOUS
<1> QED BY <1>1 DEF Higher, Max

LEMMA LowerIs ==
    ASSUME NEW a \in Nat, NEW b \in Int
    PROVE  Min({a, b}) \in {a, b} /\ Min({a, b}) <= a /\ Min({a, b}) <= b
<1>1. \E x \in {a, b} : \A y \in {a, b} : x <= y
    OBVIOUS
<1> QED BY <1>1 DEF Min

\* What a catch-up asks for is not disturbed by a step that owes no more.
LEMMA StillAsking ==
    ASSUME cu # None, Asking(cu, cu.current.since), UNCHANGED <<log, fork, live>>,
           reports \subseteq reports', Owed' \subseteq Owed,
           NEW c \in CatchUps, c.queue = cu.queue, c.cursor = cu.cursor, c.current.sub = cu.current.sub,
           Known(c.maxSeen),
           \A i \in Owed' : cu.maxSeen < i /\ OnTheWay(i) => c.maxSeen < i /\ OnTheWay(i)',
           NEW since, Known(since), \A i \in Owed' : log[i].sub = c.current.sub => since < i
    PROVE  Asking(c, since)'
<1>1. \A p : Known(p)' <=> Known(p)
    BY DEF Known, Growing
<1>2. \A s : Kept(s) => Kept(s)'
    BY DEF Kept
<1>3. Settled(c, ToSet(c.queue) \cup {c.current.sub})'
    BY <1>1, <1>2 DEF Asking, Settled
<1> QED BY <1>1, <1>3 DEF Asking

LEMMA OnNewActionKeeps ==
    ASSUME FeedInv, OnNewAction
    PROVE  FeedInv'
<1>1. PICK f : f = Head(wire)
    OBVIOUS
<1>2. /\ wire # <<>> /\ f.type = "NEW_ACTION" /\ wire' = Tail(wire)
      /\ TrackCursor(f.index) /\ delivered' = delivered \cup {<<f.index, f.row>>}
      /\ UNCHANGED <<log, fork, live, link, asks, nextId, reports>>
    BY <1>1 DEF OnNewAction, Frame, serverVars, linkVars
<1>3. f \in Frames
    BY <1>1, <1>2, HeadTailProperties DEF FeedInv, WireInv
<1>4. Mark(f) = f.index /\ f.index \in Nat
    <2>1. Mark(f) = f.index
        BY <1>2 DEF Mark
    <2> QED BY <1>3, <2>1, FrameFacts
<1>5. ASSUME NEW i \in 1..Len(log), f = RowFrame(i, log[i]) PROVE <<i, log[i]>> \in delivered'
    <2>1. f.index = i /\ f.row = log[i]
        BY <1>5, FrameFacts
    <2> QED BY <1>2, <2>1
<1>6. cursor \in Nat
    BY DEF FeedInv, CursorAt, Known
<1>7. CASE cu = None
    <2>1. cursor' = Higher(cursor, f.index) /\ cu' = cu
        BY <1>2, <1>7 DEF TrackCursor
    <2>2. cursor' \in Nat /\ (cursor' <= cursor \/ cursor' <= Mark(f))
        BY <1>4, <1>6, <2>1, HigherIs
    <2> QED BY <1>1, <1>2, <1>5, <1>7, <2>1, <2>2, Consumes
<1>8. CASE cu # None
    <2>1. cu' = [cu EXCEPT !.maxSeen = Higher(@, f.index)] /\ cursor' = cursor
        BY <1>2, <1>8 DEF TrackCursor
    <2>2. cu \in CatchUps
        BY <1>8 DEF FeedInv, Asking, Settled
    <2>3. cu.maxSeen \in Nat
        BY <2>2 DEF CatchUps
    <2>4. Higher(cu.maxSeen, f.index) \in {cu.maxSeen, f.index}
        BY <1>4, <2>3, HigherIs
    <2>5. /\ cu' \in CatchUps /\ cu'.queue = cu.queue /\ cu'.cursor = cu.cursor /\ cu'.current = cu.current
          /\ cu'.maxSeen = Higher(cu.maxSeen, f.index)
        BY <1>4, <2>1, <2>2, <2>4 DEF CatchUps
    <2>6. cu'.maxSeen <= cu.maxSeen \/ cu'.maxSeen <= Mark(f)
        BY <1>4, <2>3, <2>4, <2>5
    <2>7. cursor' \in Nat /\ cursor' <= cursor
        BY <1>6, <2>1
    <2> QED BY <1>1, <1>2, <1>5, <1>8, <2>5, <2>6, <2>7, Consumes
<1> QED BY <1>7, <1>8

LEMMA OnReorgKeeps ==
    ASSUME FeedInv, OnReorg
    PROVE  FeedInv'
<1>1. PICK f : f = Head(wire)
    OBVIOUS
<1>2. /\ wire # <<>> /\ f.type = "REORG" /\ wire' = Tail(wire)
      /\ cursor' = Below(cursor, f.first)
      /\ cu' = IF cu = None THEN None ELSE [cu EXCEPT !.maxSeen = Below(@, f.first)]
      /\ UNCHANGED <<log, fork, live, link, asks, nextId, delivered, reports>>
    BY <1>1 DEF OnReorg, Frame, serverVars, linkVars
<1>3. f \in Frames
    BY <1>1, <1>2, HeadTailProperties DEF FeedInv, WireInv
<1>4. f.first - 1 \in Nat
    BY <1>2, <1>3, FrameFacts
<1>5. \A i \in 1..Len(log) : f # RowFrame(i, log[i])
    BY <1>2, FrameFacts
<1>6. cursor \in Nat
    BY DEF FeedInv, CursorAt, Known
<1>7. cursor' \in Nat /\ cursor' <= cursor
    BY <1>2, <1>4, <1>6, LowerIs DEF Below
<1>8. CASE cu = None
    BY <1>1, <1>2, <1>5, <1>7, <1>8, Consumes
<1>9. CASE cu # None
    <2>1. cu \in CatchUps
        BY <1>9 DEF FeedInv, Asking, Settled
    <2>2. cu.maxSeen \in Nat
        BY <2>1 DEF CatchUps
    <2>3. Below(cu.maxSeen, f.first) \in Nat /\ Below(cu.maxSeen, f.first) <= cu.maxSeen
        BY <1>4, <2>2, LowerIs DEF Below
    <2>4. /\ cu' \in CatchUps /\ cu'.queue = cu.queue /\ cu'.cursor = cu.cursor /\ cu'.current = cu.current
          /\ cu'.maxSeen = Below(cu.maxSeen, f.first)
        BY <1>2, <1>9, <2>1, <2>3 DEF CatchUps
    <2> QED BY <1>1, <1>2, <1>5, <1>7, <1>9, <2>3, <2>4, Consumes
<1> QED BY <1>8, <1>9

LEMMA OnCompleteKeeps ==
    ASSUME FeedInv, OnComplete
    PROVE  FeedInv'
<1>1. PICK f : f = Head(wire)
    OBVIOUS
<1>2. /\ wire # <<>> /\ f.type = "CATCH_UP_COMPLETE" /\ wire' = Tail(wire)
      /\ IF IsAnswer(f) THEN AnswerComplete(f, [cu EXCEPT !.maxSeen = Higher(@, f.latest)])
         ELSE TrackCursor(f.latest) /\ UNCHANGED <<asks, nextId, reports>>
      /\ UNCHANGED <<log, fork, live, link, delivered>>
    BY <1>1 DEF OnComplete, Frame, serverVars, linkVars
<1>3. f \in Frames /\ f = wire[1] /\ 1 \in 1..Len(wire)
    BY <1>1, <1>2, HeadTailProperties, LenProperties DEF FeedInv, WireInv
<1>4. Mark(f) = f.latest /\ f.latest \in Nat /\ IsComplete(f)
    <2>1. Mark(f) = f.latest /\ IsComplete(f)
        BY <1>2 DEF Mark, IsComplete
    <2> QED BY <1>3, <2>1, FrameFacts
<1>5. \A i \in 1..Len(log) : f # RowFrame(i, log[i])
    BY <1>2, FrameFacts
<1>6. cursor \in Nat
    BY DEF FeedInv, CursorAt, Known
<1>7. CASE ~IsAnswer(f) /\ cu = None
    <2>1. cursor' = Higher(cursor, f.latest) /\ cu' = cu /\ UNCHANGED <<asks, nextId, reports>>
        BY <1>2, <1>7 DEF TrackCursor
    <2>2. cursor' \in Nat /\ (cursor' <= cursor \/ cursor' <= Mark(f))
        BY <1>4, <1>6, <2>1, HigherIs
    <2> QED BY <1>1, <1>2, <1>5, <1>7, <2>1, <2>2, Consumes
<1>8. CASE cu # None
    <2> PICK c : c = [cu EXCEPT !.maxSeen = Higher(@, f.latest)]
        OBVIOUS
    <2>1. cu \in CatchUps /\ Asking(cu, cu.current.since) /\ AnswersHold(cu) /\ link' = "up" /\ Known(cu.maxSeen)
        BY <1>2, <1>8 DEF FeedInv, Asking, Settled
    <2>2. cu.maxSeen \in Nat
        BY <2>1 DEF CatchUps
    <2>3. /\ Higher(cu.maxSeen, f.latest) \in {cu.maxSeen, f.latest}
          /\ Higher(cu.maxSeen, f.latest) \in Nat
        BY <1>4, <2>2, HigherIs
    <2>4. /\ c \in CatchUps /\ c.queue = cu.queue /\ c.cursor = cu.cursor /\ c.current = cu.current
          /\ c.maxSeen = Higher(cu.maxSeen, f.latest)
        BY <2>1, <2>3 DEF CatchUps
    <2>5. CASE ~IsAnswer(f)
        <3>1. cu' = c /\ cursor' = cursor /\ UNCHANGED <<asks, nextId, reports>>
            BY <1>2, <1>8, <2>5 DEF TrackCursor
        <3>2. cu'.maxSeen <= cu.maxSeen \/ cu'.maxSeen <= Mark(f)
            BY <1>4, <2>2, <2>3, <2>4, <3>1
        <3>3. cursor' \in Nat /\ cursor' <= cursor
            BY <1>6, <3>1
        <3> QED BY <1>1, <1>2, <1>5, <1>8, <2>4, <3>1, <3>2, <3>3, Consumes
    <2>6. CASE IsAnswer(f)
        <3>1. AnswerComplete(f, c) /\ f.id = cu.current.id
            BY <1>2, <2>6 DEF IsAnswer
        <3> PICK d : d = [c EXCEPT !.current.rounds = @ + 1]
            OBVIOUS
        <3>10. /\ c.current \in [sub : SubNames \cup {None}, id : Nat, since : Nat, rounds : Nat, retries : Nat]
               /\ d \in CatchUps /\ d.queue = c.queue /\ d.cursor = c.cursor /\ d.maxSeen = c.maxSeen
               /\ d.current.sub = c.current.sub /\ d.current.since = c.current.since
            <4>1. c.current \in [sub : SubNames \cup {None}, id : Nat, since : Nat, rounds : Nat, retries : Nat]
                BY <2>4 DEF CatchUps
            <4> PICK e : e = [c.current EXCEPT !.rounds = @ + 1]
                OBVIOUS
            <4>2. /\ e \in [sub : SubNames \cup {None}, id : Nat, since : Nat, rounds : Nat, retries : Nat]
                  /\ e.sub = c.current.sub /\ e.since = c.current.since
                BY <4>1
            <4>3. d = [c EXCEPT !.current = e]
                BY <2>4 DEF CatchUps
            <4>4. /\ d \in CatchUps /\ d.queue = c.queue /\ d.cursor = c.cursor /\ d.maxSeen = c.maxSeen
                  /\ d.current = e
                BY <2>4, <4>2, <4>3 DEF CatchUps
            <4> QED BY <4>1, <4>2, <4>4
        <3>11. \/ f.truncated /\ RefuseCatchUp(d, c.current.since)
               \/ f.truncated /\ SendCatchUp(d, f.latest) /\ UNCHANGED <<cursor, reports>>
               \/ ~f.truncated /\ NextCatchUp(c) /\ UNCHANGED reports
            BY <3>1 DEF AnswerComplete
        <3>2. reports \subseteq reports' /\ \A r \in reports' : Known(r.since)
            <4>1. \A r \in reports : Known(r.since)
                BY DEF FeedInv, WireInv
            <4>2. Known(c.current.since)
                BY <2>1, <2>4 DEF Asking
            <4>3. reports' = reports \/ reports' = reports \cup {[sub |-> c.current.sub, since |-> c.current.since]}
                BY <3>10, <3>11 DEF RefuseCatchUp
            <4> QED BY <4>1, <4>2, <4>3
        <3>3. /\ WireInv' /\ Owed' \subseteq Owed /\ Known(f.latest)
              /\ \A i \in Owed' : wire[1] # RowFrame(i, log[i]) /\ (OnTheWay(i) => OnTheWay(i)' /\ f.latest < i)
              /\ \A n \in 1..Len(wire') : IsComplete(wire'[n]) => wire'[n].id < nextId
            <4>1. WireInv /\ CompleteIds(nextId) /\ delivered \subseteq delivered' /\ UNCHANGED <<log, fork>>
                BY <1>2 DEF FeedInv
            <4> QED BY <1>1, <1>2, <1>4, <1>5, <3>2, <4>1, Pops
        <3>4. WireInv /\ AskInv /\ Len(log) \in Nat /\ UNCHANGED <<log, fork, live>> /\ CursorAt(cursor)
            BY <1>2, LenProperties DEF FeedInv, WireInv
        <3> PICK p : p = cursor
            OBVIOUS
        <3>5. CursorAt(p)'
            BY <3>3, <3>4 DEF CursorAt, Known, Growing
        <3>6. \A i \in Owed' : i \in Nat /\ log'[i] = log[i]
            BY <3>3, <3>4 DEF Owed
        <3>7. Known(c.maxSeen)
            BY <2>1, <2>3, <2>4, <3>3 DEF Known
        <3>8. \A i \in Owed' : cu.maxSeen < i /\ OnTheWay(i) => c.maxSeen < i /\ OnTheWay(i)'
            BY <2>2, <2>3, <2>4, <3>3
        <3>9. /\ c.current.sub \in live'
              /\ \A i \in Owed' : log[i].sub = c.current.sub =>
                    f.latest < i /\ (f.truncated \/ (c.maxSeen < i /\ OnTheWay(i)'))
            <4>1. AnswerAt(1, cu)
                BY <1>3, <1>4, <2>1, <3>1 DEF AnswersHold
            <4> SUFFICES ASSUME NEW i \in Owed', log[i].sub = c.current.sub
                         PROVE  f.latest < i /\ (f.truncated \/ (c.maxSeen < i /\ OnTheWay(i)'))
                BY <2>4, <3>4, <4>1 DEF AnswerAt
            <4>2. IF i <= f.latest THEN \E m \in 1..0 : wire[m] = RowFrame(i, log[i])
                  ELSE f.truncated \/ (cu.maxSeen < i /\ OnTheWay(i))
                BY <1>3, <2>4, <3>3, <4>1 DEF AnswerAt
            <4>3. f.latest < i
                BY <1>4, <3>6, <4>2
            <4> QED BY <1>4, <3>6, <3>8, <4>2, <4>3
        <3>12. CASE f.truncated /\ RefuseCatchUp(d, c.current.since)
            <4>1. Known(cu.current.since) /\ \A i \in Owed' : log[i].sub = d.current.sub => cu.current.since < i
                BY <2>1, <2>4, <3>3, <3>10 DEF Asking
            <4> PICK asked : asked = cu.current.since
                OBVIOUS
            <4>2. Asking(d, asked)'
                BY <1>8, <2>1, <2>4, <3>2, <3>3, <3>4, <3>7, <3>8, <3>10, <4>1, StillAsking
            <4>3. c.current.since <= asked /\ c.current.since \in Nat
                BY <2>4, <3>10
            <4> QED BY <2>1, <3>3, <3>4, <3>5, <3>12, <4>2, <4>3, Refuses
        <3>13. CASE f.truncated /\ SendCatchUp(d, f.latest) /\ UNCHANGED <<cursor, reports>>
            <4>1. \A i \in Owed' : log[i].sub = d.current.sub => f.latest < i
                BY <3>9, <3>10
            <4>2. Asking(d, f.latest)'
                BY <1>8, <2>1, <2>4, <3>2, <3>3, <3>4, <3>7, <3>8, <3>10, <4>1, StillAsking
            <4>3. CursorAt(cursor)'
                BY <3>5, <3>13 DEF CursorAt
            <4> QED BY <2>1, <3>3, <3>4, <3>13, <4>2, <4>3, Sends
        <3>14. CASE ~f.truncated /\ NextCatchUp(c) /\ UNCHANGED reports
            <4>1. Known(cu.current.since) /\ \A i \in Owed' : log[i].sub = c.current.sub => cu.current.since < i
                BY <2>1, <2>4, <3>3 DEF Asking
            <4> PICK asked : asked = cu.current.since
                OBVIOUS
            <4>2. Asking(c, asked)'
                BY <1>8, <2>1, <2>4, <3>2, <3>3, <3>4, <3>7, <3>8, <4>1, StillAsking
            <4>3. Settled(c, ToSet(c.queue))'
                BY <3>6, <3>9, <3>14, <4>2 DEF Asking, Settled, Kept
            <4> QED BY <2>1, <3>3, <3>4, <3>5, <3>14, <4>3, Proceeds
        <3> QED BY <3>11, <3>12, <3>13, <3>14
    <2> QED BY <2>5, <2>6
<1> QED BY <1>7, <1>8 DEF IsAnswer

LEMMA OnErrorKeeps ==
    ASSUME FeedInv, OnError
    PROVE  FeedInv'
<1>1. PICK f : f = Head(wire)
    OBVIOUS
<1>2. /\ wire # <<>> /\ f.type = "error" /\ wire' = Tail(wire)
      /\ IF IsAnswer(f) THEN AnswerError(f) ELSE UNCHANGED <<cursor, cu, asks, nextId, reports>>
      /\ UNCHANGED <<log, fork, live, link, delivered>>
    BY <1>1 DEF OnError, Frame, serverVars, linkVars
<1>3. \A i \in 1..Len(log) : f # RowFrame(i, log[i])
    BY <1>2, FrameFacts
<1>4. cursor \in Nat /\ fork \in Nat /\ fork >= 2
    BY DEF FeedInv, WireInv, CursorAt, Known
<1>5. CASE UNCHANGED <<cursor, cu, asks, nextId, reports>>
    <2>1. cu # None => cu \in CatchUps /\ cu.maxSeen \in Nat
        BY DEF FeedInv, Asking, Settled, CatchUps
    <2> QED BY <1>1, <1>2, <1>3, <1>4, <1>5, <2>1, Consumes
<1>6. CASE IsAnswer(f) /\ AnswerError(f)
    <2>1. /\ cu # None /\ cu \in CatchUps /\ Asking(cu, cu.current.since) /\ link' = "up"
          /\ Known(cu.maxSeen) /\ Known(cu.current.since)
        BY <1>2, <1>6 DEF IsAnswer, FeedInv, Asking, Settled
    <2>2. CASE /\ cu' = [cu EXCEPT !.current.retries = @ + 1, !.timer = "resend"]
               /\ UNCHANGED <<cursor, asks, nextId, reports>>
        <3>1. cu.current \in [sub : SubNames \cup {None}, id : Nat, since : Nat, rounds : Nat, retries : Nat]
            BY <2>1 DEF CatchUps
        <3> PICK e : e = [cu.current EXCEPT !.retries = @ + 1]
            OBVIOUS
        <3>2. /\ e \in [sub : SubNames \cup {None}, id : Nat, since : Nat, rounds : Nat, retries : Nat]
              /\ e.sub = cu.current.sub /\ e.id = cu.current.id /\ e.since = cu.current.since
            BY <3>1
        <3>3. cu' = [cu EXCEPT !.current = e, !.timer = "resend"]
            BY <2>1, <2>2 DEF CatchUps
        <3>4. /\ cu' \in CatchUps /\ cu'.queue = cu.queue /\ cu'.cursor = cu.cursor /\ cu'.maxSeen = cu.maxSeen
              /\ cu'.current = e /\ cu.maxSeen \in Nat
            BY <2>1, <3>2, <3>3 DEF CatchUps
        <3> QED BY <1>1, <1>2, <1>3, <1>4, <2>1, <2>2, <3>2, <3>4, Consumes
    <2>3. ASSUME NEW since, since = Min({cu.current.since, fork - 1}) \/ since = cu.current.since,
                 RefuseCatchUp(cu, since)
          PROVE  FeedInv'
        <3> PICK c, p, asked : c = cu /\ p = cursor /\ asked = cu.current.since
            OBVIOUS
        <3>1. since \in Nat /\ since <= asked /\ asked \in Nat /\ Known(since)
            <4>1. asked \in Nat /\ fork - 1 \in Nat
                BY <1>4, <2>1 DEF Known
            <4>2. since \in Nat /\ since <= asked
                BY <2>3, <4>1, LowerIs
            <4> QED BY <2>1, <4>1, <4>2, LenProperties DEF Known, FeedInv, WireInv
        <3>2. reports \subseteq reports' /\ \A r \in reports' : Known(r.since)
            <4>1. reports' = reports \cup {[sub |-> cu.current.sub, since |-> since]}
                BY <2>3 DEF RefuseCatchUp
            <4> QED BY <3>1, <4>1 DEF FeedInv, WireInv
        <3>3. WireInv /\ AskInv /\ CompleteIds(nextId) /\ CursorAt(cursor) /\ UNCHANGED <<log, fork, live>>
            BY <1>2 DEF FeedInv
        <3>4. /\ WireInv' /\ Owed' \subseteq Owed
              /\ \A i \in Owed' : OnTheWay(i) => OnTheWay(i)'
              /\ \A n \in 1..Len(wire') : IsComplete(wire'[n]) => wire'[n].id < nextId
            BY <1>1, <1>2, <1>3, <3>2, <3>3, Pops
        <3>5. CursorAt(p)'
            BY <3>3, <3>4 DEF CursorAt, Known, Growing
        <3>6. \A i \in Owed' : log[i].sub = c.current.sub => asked < i
            BY <2>1, <3>4 DEF Asking
        <3>7. Asking(c, asked)'
            BY <2>1, <3>2, <3>3, <3>4, <3>6, StillAsking
        <3> QED BY <2>1, <2>3, <3>1, <3>3, <3>4, <3>5, <3>7, Refuses
    <2> QED BY <1>6, <2>2, <2>3 DEF AnswerError
<1> QED BY <1>2, <1>5, <1>6

LEMMA TimeOutKeeps ==
    ASSUME FeedInv, TimeOut
    PROVE  FeedInv'
<1>1. /\ cu # None /\ RefuseCatchUp(cu, cu.current.since)
      /\ UNCHANGED <<log, fork, link, live, wire, delivered>>
    BY DEF TimeOut, serverVars, linkVars
<1>2. /\ cu \in CatchUps /\ Asking(cu, cu.current.since) /\ link' = "up"
      /\ Known(cu.maxSeen) /\ Known(cu.current.since)
    BY <1>1 DEF FeedInv, Asking, Settled
<1> PICK c, p, asked : c = cu /\ p = cursor /\ asked = cu.current.since
    OBVIOUS
<1>3. WireInv /\ AskInv /\ CompleteIds(nextId) /\ CursorAt(cursor)
    BY DEF FeedInv
<1>4. reports \subseteq reports' /\ \A r \in reports' : Known(r.since)
    <2>1. reports' = reports \cup {[sub |-> cu.current.sub, since |-> cu.current.since]}
        BY <1>1 DEF RefuseCatchUp
    <2> QED BY <1>2, <2>1 DEF FeedInv, WireInv
<1>5. Owed' \subseteq Owed
    BY <1>1, <1>4, StaysAccounted DEF Owed
<1>6. WireInv'
    BY <1>1, <1>3, <1>4 DEF WireInv, Known, Growing
<1>7. \A i : OnTheWay(i) => OnTheWay(i)'
    BY <1>1 DEF OnTheWay
<1>8. CursorAt(p)'
    BY <1>1, <1>3, <1>5 DEF CursorAt, Known, Growing
<1>9. \A i \in Owed' : log[i].sub = c.current.sub => asked < i
    BY <1>2, <1>5 DEF Asking
<1>10. Asking(c, asked)'
    BY <1>1, <1>2, <1>4, <1>5, <1>7, <1>9, StillAsking
<1>11. \A n \in 1..Len(wire') : IsComplete(wire'[n]) => wire'[n].id < nextId
    BY <1>1, <1>3 DEF CompleteIds
<1>12. asked \in Nat /\ asked <= asked
    BY <1>2 DEF Known
<1> QED BY <1>1, <1>2, <1>3, <1>6, <1>8, <1>10, <1>11, <1>12, Refuses

LEMMA ResendKeeps ==
    ASSUME FeedInv, Resend
    PROVE  FeedInv'
<1>1. /\ cu # None /\ SendCatchUp(cu, cu.current.since)
      /\ UNCHANGED <<log, fork, link, live, wire, cursor, delivered, reports>>
    BY DEF Resend, serverVars, linkVars
<1>2. /\ cu \in CatchUps /\ Asking(cu, cu.current.since) /\ link' = "up"
      /\ Known(cu.maxSeen) /\ Known(cu.current.since)
    BY <1>1 DEF FeedInv, Asking, Settled
<1> PICK c, asked : c = cu /\ asked = cu.current.since
    OBVIOUS
<1>3. WireInv /\ AskInv /\ CompleteIds(nextId) /\ CursorAt(cursor)
    BY DEF FeedInv
<1>4. Owed' = Owed
    BY <1>1 DEF Owed, Accounted
<1>5. WireInv' /\ CursorAt(cursor)'
    BY <1>1, <1>3, <1>4 DEF WireInv, CursorAt, Known, Growing
<1>6. \A i : OnTheWay(i) => OnTheWay(i)'
    BY <1>1 DEF OnTheWay
<1>7. \A i \in Owed' : log[i].sub = c.current.sub => asked < i
    BY <1>2, <1>4 DEF Asking
<1>8. Asking(c, asked)'
    BY <1>1, <1>2, <1>4, <1>6, <1>7, StillAsking
<1>9. \A n \in 1..Len(wire') : IsComplete(wire'[n]) => wire'[n].id < nextId
    BY <1>1, <1>3 DEF CompleteIds
<1> QED BY <1>1, <1>2, <1>3, <1>5, <1>8, <1>9, Sends

LEMMA DropKeeps ==
    ASSUME FeedInv, Drop
    PROVE  FeedInv'
<1>1. /\ link' = "down" /\ live' = {} /\ asks' = <<>> /\ wire' = <<>> /\ cu' = None
      /\ UNCHANGED <<log, fork, cursor, nextId, delivered, reports>>
    BY DEF Drop, serverVars
<1>2. WireInv /\ AskInv /\ CursorAt(cursor)
    BY DEF FeedInv
<1>3. Owed' = Owed
    BY <1>1 DEF Owed, Accounted
<1>4. WireInv' /\ AskInv' /\ CompleteIds(nextId)' /\ CursorAt(cursor)'
    BY <1>1, <1>2, <1>3 DEF WireInv, AskInv, CompleteIds, CursorAt, Known, Growing
<1> QED BY <1>1, <1>4 DEF FeedInv

LEMMA ReconnectKeeps ==
    ASSUME FeedInv, Reconnect
    PROVE  FeedInv'
<1> PICK p, c : /\ p = cursor
                /\ c = [queue |-> Subs, cursor |-> cursor, current |-> Fresh(None), maxSeen |-> 0, timer |-> "none"]
    OBVIOUS
<1>1. /\ link = "down" /\ link' = "up" /\ NextCatchUp(c)
      /\ UNCHANGED <<log, fork, live, wire, delivered, reports>>
    BY DEF Reconnect, serverVars
<1>2. WireInv /\ AskInv /\ CompleteIds(nextId) /\ CursorAt(cursor) /\ wire = <<>> /\ Len(log) \in Nat
    BY <1>1, LenProperties DEF FeedInv, WireInv
<1>3. Owed' = Owed
    BY <1>1 DEF Owed, Accounted
<1>4. WireInv' /\ CursorAt(p)'
    BY <1>1, <1>2, <1>3 DEF WireInv, CursorAt, Known, Growing
<1>5. Subs \in Seq(SubNames) /\ ToSet(Subs) = SubNames
    BY FeedAssumption DEF SubNames, ToSet
<1>6. c \in CatchUps
    BY <1>2, <1>5 DEF CatchUps, CursorAt, Known, Fresh
<1>7. \A i \in Owed' : log'[i].sub \in SubNames /\ p < i
    <2>1. \A i \in Owed : log[i] \in Rows /\ cursor < i
        BY <1>2, LenProperties DEF Owed, WireInv, CursorAt
    <2> QED BY <1>1, <1>3, <2>1 DEF Rows
<1>8. Settled(c, ToSet(c.queue))'
    <2>1. Known(c.cursor)' /\ Known(c.maxSeen)'
        BY <1>1, <1>2, <1>4 DEF CursorAt, Known, Growing
    <2> QED BY <1>5, <1>6, <1>7, <2>1 DEF Settled
<1>9. \A n \in 1..Len(wire') : IsComplete(wire'[n]) => wire'[n].id < nextId
    BY <1>1, <1>2
<1> QED BY <1>1, <1>2, <1>4, <1>8, <1>9, Proceeds

LEMMA FeedStep ==
    ASSUME FeedInv, rollbacks \in Nat, [Next]_vars
    PROVE  (FeedInv /\ rollbacks \in Nat)'
<1>1. rollbacks' \in Nat
    BY DEF Next, vars, AppendRow, Rollback, Answer, Handle, OnNewAction, OnReorg, OnComplete, OnError,
           TimeOut, Resend, Drop, Reconnect, serverVars
<1>2. CASE UNCHANGED vars
    <2>1. UNCHANGED <<log, fork, link, live, asks, wire, cursor, cu, nextId, delivered, reports>>
        BY <1>2 DEF vars
    <2>2. Owed' = Owed
        BY <2>1 DEF Owed, Accounted
    <2>3. \A i : OnTheWay(i)' <=> OnTheWay(i)
        BY <2>1 DEF OnTheWay
    <2>4. \A p : Known(p)' <=> Known(p)
        BY <2>1 DEF Known, Growing
    <2>5. \A s : Kept(s)' <=> Kept(s)
        BY <2>1 DEF Kept
    <2>6. WireInv' <=> WireInv
        BY <2>1, <2>4 DEF WireInv
    <2>7. AskInv' <=> AskInv
        BY <2>1, <2>4 DEF AskInv
    <2>8. CompleteIds(nextId)' <=> CompleteIds(nextId)
        BY <2>1 DEF CompleteIds
    <2>9. CursorAt(cursor)' <=> CursorAt(cursor)
        BY <2>1, <2>2, <2>4 DEF CursorAt
    <2>10. AllSettled => AllSettled'
        BY <2>1, <2>2, <2>3, <2>5 DEF AllSettled
    <2> PICK c : c = cu
        OBVIOUS
    <2>11. Asking(c, c.current.since) => Asking(c, c.current.since)'
        BY <2>1, <2>2, <2>3, <2>4, <2>5 DEF Asking, Settled
    <2>12. AnswersHold(c) => AnswersHold(c)'
        BY <2>1, <2>2, <2>3 DEF AnswersHold, AnswerAt
    <2>13. Asking(cu, cu.current.since) => Asking(cu, cu.current.since)'
        BY <2>1, <2>11 DEF Asking, Settled
    <2>14. AnswersHold(cu) => AnswersHold(cu)'
        BY <2>1, <2>12 DEF AnswersHold, AnswerAt
    <2> QED BY <1>1, <2>1, <2>6, <2>7, <2>8, <2>9, <2>10, <2>13, <2>14 DEF FeedInv
<1> QED BY <1>1, <1>2, AppendRowKeeps, RollbackKeeps, AnswerKeeps, OnNewActionKeeps, OnReorgKeeps,
           OnCompleteKeeps, OnErrorKeeps, TimeOutKeeps, ResendKeeps, DropKeeps, ReconnectKeeps
        DEF Next, Handle

\* No silent gap, for any number of subscriptions and rows, any replay cap, any
\* retries and rounds, any drops and rollbacks: what the cursor has passed was
\* handed to the caller or reported (catch_up.js, message_pump.js).
THEOREM GapsAreReported == Spec => []NoSilentGap
<1>1. Init => FeedInv /\ rollbacks \in Nat
    BY FeedStarts DEF Init
<1>2. FeedInv => NoSilentGap
    <2> SUFFICES ASSUME FeedInv, NEW i \in 1..Len(log), i < fork, i <= cursor, ~Accounted(i) PROVE FALSE
        BY DEF NoSilentGap
    <2>1. i \in Owed
        BY DEF Owed
    <2>2. cursor < i /\ cursor \in Nat /\ Len(log) \in Nat
        BY <2>1, LenProperties DEF FeedInv, CursorAt, Known, WireInv
    <2> QED BY <2>2
<1> QED BY <1>1, <1>2, FeedStep, PTL DEF Spec
-----------------------------------------------------------------------------
(* Workflows. *)

StepNames == {"submit", "issue", "mint", "send", "stake", "delegate", "list", "link", "file",
              "tisFile", "describe", "chunk", "assemble", "resolve", "deploy", "deposit"}

\* Only one step of a workflow can give it its contract when that is deployed
\* whole.  A plan is put together from steps and repeated steps.
OneDeploy(p) ==
    /\ p \in Seq(StepNames)
    /\ \A i, j \in 1..Len(p) : p[i] = "deploy" /\ p[j] \in {"deploy", "resolve"} => i = j

WithoutDeploy(p) == p \in Seq(StepNames) /\ \A i \in 1..Len(p) : p[i] # "deploy"

LEMMA RepeatIs ==
    ASSUME NEW x \in StepNames, NEW n \in Nat
    PROVE  /\ Repeat(x, n) \in Seq(StepNames) /\ Len(Repeat(x, n)) = n
           /\ \A i \in 1..n : Repeat(x, n)[i] = x
BY DEF Repeat

LEMMA Repeated ==
    ASSUME NEW x \in StepNames, x # "deploy", NEW n \in Nat
    PROVE  WithoutDeploy(Repeat(x, n))
BY RepeatIs DEF WithoutDeploy

LEMMA Single ==
    ASSUME NEW x \in StepNames
    PROVE  <<x>> \in Seq(StepNames) /\ Len(<<x>>) = 1 /\ <<x>>[1] = x
OBVIOUS

LEMMA Pair ==
    ASSUME NEW x \in StepNames, NEW y \in StepNames, x # "deploy", y # "deploy"
    PROVE  WithoutDeploy(<<x, y>>)
<1>1. <<x, y>> \in Seq(StepNames) /\ Len(<<x, y>>) = 2
    OBVIOUS
<1>2. \A i \in 1..2 : <<x, y>>[i] # "deploy"
    OBVIOUS
<1> QED BY <1>1, <1>2 DEF WithoutDeploy

LEMMA Joined ==
    ASSUME NEW p, NEW q, WithoutDeploy(p), WithoutDeploy(q)
    PROVE  WithoutDeploy(p \o q)
<1> USE DEF WithoutDeploy
<1>1. p \in Seq(StepNames) /\ q \in Seq(StepNames) /\ Len(p) \in Nat /\ Len(q) \in Nat
    BY LenProperties
<1>2. /\ p \o q \in Seq(StepNames) /\ Len(p \o q) = Len(p) + Len(q)
      /\ \A i \in 1..(Len(p) + Len(q)) :
            (p \o q)[i] = IF i <= Len(p) THEN p[i] ELSE q[i - Len(p)]
    BY <1>1, ConcatProperties
<1>3. ASSUME NEW i \in 1..(Len(p) + Len(q)) PROVE (p \o q)[i] # "deploy"
    <2>1. i <= Len(p) => i \in 1..Len(p)
        BY <1>1
    <2>2. ~(i <= Len(p)) => i - Len(p) \in 1..Len(q)
        BY <1>1
    <2> QED BY <1>2, <2>1, <2>2
<1> QED BY <1>2, <1>3

\* A DEPLOY, then steps that neither deploy nor resolve.
LEMMA DeployFirst ==
    ASSUME NEW n \in Nat
    PROVE  OneDeploy(<<"deploy">> \o Repeat("deposit", n))
<1> DEFINE p == <<"deploy">> \o Repeat("deposit", n)
<1>1. /\ p \in Seq(StepNames) /\ Len(p) = 1 + n
      /\ \A i \in 1..(1 + n) :
            p[i] = IF i <= 1 THEN <<"deploy">>[i] ELSE Repeat("deposit", n)[i - 1]
    <2>1. <<"deploy">> \in Seq(StepNames) /\ Len(<<"deploy">>) = 1
        BY Single DEF StepNames
    <2>2. Repeat("deposit", n) \in Seq(StepNames) /\ Len(Repeat("deposit", n)) = n
        BY RepeatIs DEF StepNames
    <2> HIDE DEF p
    <2> QED BY <2>1, <2>2, ConcatProperties DEF p
<1>2. \A i \in 1..(1 + n) : i # 1 => p[i] = "deposit"
    <2> SUFFICES ASSUME NEW i \in 1..(1 + n), i # 1 PROVE p[i] = "deposit"
        OBVIOUS
    <2>1. i - 1 \in 1..n /\ ~(i <= 1)
        OBVIOUS
    <2> QED BY <1>1, <2>1, RepeatIs DEF StepNames
<1> HIDE DEF p
<1>3. OneDeploy(p)
    BY <1>1, <1>2 DEF OneDeploy
<1> QED BY <1>3 DEF p

LEMMA FlowFields ==
    ASSUME NEW f \in Flows
    PROVE  /\ f.deposits \in Nat /\ f.size \in Nat
           /\ f.name = "bridge" => f.bridge \in Bridges
<1>1. f.deposits \in Nat /\ f.size \in Nat
    BY SizesAssumption, SMT DEF Flows, Flow
<1>2. f.name = "bridge" => f.bridge \in Bridges
    BY SMT DEF Flows, Flow
<1> QED BY <1>1, <1>2

LEMMA PlanShape ==
    ASSUME NEW f \in Flows
    PROVE  OneDeploy(StepsOf(f))
<1>1. f.deposits \in Nat /\ f.size \in Nat
    BY FlowFields
<1>2. WithoutDeploy(<<"submit">>) /\ WithoutDeploy(<<"issue">>) /\ WithoutDeploy(<<>>)
    BY Single, EmptySeq DEF WithoutDeploy, StepNames
<1>3. WithoutDeploy(ContentSteps(f))
    <2>1. /\ WithoutDeploy(<<"list", "link">>) /\ WithoutDeploy(<<"file", "link">>)
          /\ WithoutDeploy(<<"tisFile", "describe">>)
        BY Pair DEF StepNames
    <2>2. /\ WithoutDeploy(<<"file", "link">> \o <<>>)
          /\ WithoutDeploy(<<"file", "link">> \o <<"tisFile", "describe">>)
        BY <1>2, <2>1, Joined
    <2> QED BY <2>1, <2>2 DEF ContentSteps
<1>4. WithoutDeploy(IssueSteps(f))
    <2>1. WithoutDeploy(<<"issue">> \o Repeat("send", f.deposits))
        BY <1>1, <1>2, Repeated, Joined DEF StepNames
    <2>2. WithoutDeploy(<<"issue", "mint">>) /\ WithoutDeploy(<<"stake", "delegate">>)
        BY Pair DEF StepNames
    <2> QED BY <2>1, <2>2 DEF IssueSteps
<1>5. Chunked(f) => WithoutDeploy(DeploySteps(f))
    <2>1. /\ WithoutDeploy(Repeat("chunk", Parts(f.size)))
          /\ WithoutDeploy(<<"assemble", "resolve">>)
          /\ WithoutDeploy(Repeat("deposit", f.deposits))
        BY <1>1, Repeated, Pair DEF Parts, StepNames
    <2>2. WithoutDeploy(Repeat("chunk", Parts(f.size)) \o <<"assemble", "resolve">>)
        BY <2>1, Joined
    <2>3. WithoutDeploy((Repeat("chunk", Parts(f.size)) \o <<"assemble", "resolve">>)
                            \o Repeat("deposit", f.deposits))
        BY <2>1, <2>2, Joined
    <2> QED BY <2>3 DEF DeploySteps
<1>6. ~Chunked(f) => OneDeploy(DeploySteps(f))
    BY <1>1, DeployFirst DEF DeploySteps
<1>7. \A p : WithoutDeploy(p) => OneDeploy(p)
    BY DEF WithoutDeploy, OneDeploy
<1> QED BY <1>2, <1>3, <1>4, <1>5, <1>6, <1>7 DEF StepsOf

\* A workflow is at a step of its plan, and what it reports are the steps before
\* it; an action on the chain is one of those, or the one that failed.
\* The contract it knows of is the contract, and the deposits name it.
FlowInv ==
    /\ flow \in Flows /\ plan = StepsOf(flow) /\ step \in 1..(Len(plan) + 1)
    /\ partial = {i \in 1..(step - 1) : plan[i] # "resolve"}
    /\ flowEnd = "returned" => step = Len(plan) + 1
    /\ flowEnd = "refused" => onChain = {}
    /\ flowEnd # "refused" => ~PlanRefused(flow)
    /\ \A a \in onChain :
          \/ a.step \in partial
          \/ a.step = step /\ flowEnd = IF a.heard THEN "failedWithTxid" ELSE "failed"
    /\ \A a \in onChain : a.kind = "deposit" =>
                              "contract" \in DOMAIN known /\ a.names = known["contract"]
    /\ "contract" \in DOMAIN known =>
          /\ known["contract"] = contractAt /\ contractAt # 0
          /\ \E j \in 1..(step - 1) : plan[j] \in {"deploy", "resolve"}

\* A step that goes out: only a DEPLOY moves the contract, and it does so before
\* there is one; a deposit names the contract.
LEMMA GoesOut ==
    ASSUME FlowInv, NEW heard, Running, ~Lacks, Broadcast(heard), plan[step] # "resolve"
    PROVE  /\ plan[step] = "deploy" => "contract" \notin DOMAIN known /\ contractAt' = 10 * step
           /\ plan[step] # "deploy" => contractAt' = contractAt
           /\ \E a : /\ onChain' = onChain \cup {a} /\ a.step = step /\ a.kind = plan[step]
                     /\ a.heard = heard
                     /\ a.kind = "deposit" =>
                            "contract" \in DOMAIN known /\ a.names = known["contract"]
<1>1. plan \in Seq(StepNames) /\ OneDeploy(plan) /\ Len(plan) \in Nat /\ step \in 1..Len(plan)
    BY PlanShape DEF FlowInv, OneDeploy, Running
<1>2. ASSUME plan[step] = "deploy", "contract" \in DOMAIN known PROVE FALSE
    <2>1. PICK j \in 1..(step - 1) : plan[j] \in {"deploy", "resolve"}
        BY <1>2 DEF FlowInv
    <2>2. j \in 1..Len(plan) /\ j # step
        BY <1>1
    <2> QED BY <1>1, <1>2, <2>1, <2>2 DEF OneDeploy
<1>3. plan[step] = "deposit" => Needs(plan[step]) = "contract" /\ "contract" \in DOMAIN known
    BY DEF Needs, Lacks
<1> DEFINE a == [step |-> step, kind |-> plan[step], index |-> 10 * step,
                 heard |-> heard, names |-> IF Needs(plan[step]) = "none" THEN 0 ELSE known[Needs(plan[step])]]
<1>4. onChain' = onChain \cup {a} /\ a.step = step /\ a.kind = plan[step] /\ a.heard = heard
    BY DEF Broadcast
<1>5. a.kind = "deposit" => "contract" \in DOMAIN known /\ a.names = known["contract"]
    BY <1>3
<1>6. contractAt' = IF plan[step] = "deploy" THEN 10 * step ELSE contractAt
    BY DEF Broadcast
<1> HIDE DEF a
<1> QED BY <1>2, <1>4, <1>5, <1>6

LEMMA StepDoneKeeps ==
    ASSUME FlowInv, NEW learns \in BOOLEAN, StepDone(learns)
    PROVE  FlowInv'
<1> USE DEF FlowInv
<1>1. /\ Running /\ ~Lacks /\ Broadcast(TRUE) /\ plan[step] # "resolve"
      /\ UNCHANGED <<flow, plan, reads, flowEnd>>
      /\ step' = step + 1 /\ partial' = partial \cup {step}
    BY DEF StepDone
<1>2. plan \in Seq(StepNames) /\ Len(plan) \in Nat /\ step \in 1..Len(plan) /\ flowEnd = "open"
    BY <1>1, PlanShape DEF OneDeploy, Running
<1>3. PICK a : /\ onChain' = onChain \cup {a} /\ a.step = step /\ a.kind = plan[step]
               /\ a.kind = "deposit" => "contract" \in DOMAIN known /\ a.names = known["contract"]
    BY <1>1, GoesOut
<1>4. partial' = {i \in 1..(step' - 1) : plan'[i] # "resolve"}
    BY <1>1, <1>2
<1>5. "contract" \in DOMAIN known => /\ "contract" \in DOMAIN known' /\ known'["contract"] = known["contract"]
                                     /\ contractAt' = contractAt
    <2> SUFFICES ASSUME "contract" \in DOMAIN known
                 PROVE  /\ "contract" \in DOMAIN known' /\ known'["contract"] = known["contract"]
                        /\ contractAt' = contractAt
        OBVIOUS
    <2>1. plan[step] # "deploy" /\ contractAt' = contractAt
        BY <1>1, GoesOut
    <2>2. Gives(plan[step]) # "contract"
        BY <2>1 DEF Gives
    <2>3. known' = known \/ known' = Learnt(Gives(plan[step]), 10 * step)
        BY DEF StepDone
    <2> QED BY <2>1, <2>2, <2>3 DEF Learnt
<1>6. ASSUME "contract" \in DOMAIN known', "contract" \notin DOMAIN known
      PROVE  plan[step] = "deploy" /\ known'["contract"] = contractAt' /\ contractAt' # 0
    <2>1. known' = Learnt(Gives(plan[step]), 10 * step)
        BY <1>6 DEF StepDone
    <2>2. Gives(plan[step]) = "contract"
        BY <1>6, <2>1 DEF Learnt
    <2>3. plan[step] = "deploy"
        BY <2>2 DEF Gives
    <2>4. contractAt' = 10 * step
        BY <1>1, <2>3, GoesOut
    <2> QED BY <1>2, <2>1, <2>2, <2>3, <2>4 DEF Learnt
<1>7. "contract" \in DOMAIN known' =>
          /\ known'["contract"] = contractAt' /\ contractAt' # 0
          /\ \E j \in 1..(step' - 1) : plan'[j] \in {"deploy", "resolve"}
    BY <1>1, <1>2, <1>5, <1>6
<1>8. \A x \in onChain' : x.kind = "deposit" =>
                              "contract" \in DOMAIN known' /\ x.names = known'["contract"]
    BY <1>3, <1>5
<1>9. \A x \in onChain' : x.step \in partial'
    BY <1>1, <1>2, <1>3
<1> QED BY <1>1, <1>2, <1>4, <1>7, <1>8, <1>9 DEF PlanRefused, BridgeRefused, FitsSingleDeploy

LEMMA StepFailsKeeps ==
    ASSUME FlowInv, NEW when, StepFails(when)
    PROVE  FlowInv'
<1> USE DEF FlowInv
<1>1. /\ Running /\ ~Lacks /\ plan[step] # "resolve" /\ flowEnd = "open"
      /\ UNCHANGED <<flow, plan, step, partial, known, reads>>
      /\ flowEnd' \in {"failedWithTxid", "failed"}
    BY DEF StepFails, Running
<1>2. CASE when = "before"
    BY <1>1, <1>2 DEF StepFails
<1>3. CASE when # "before"
    <2> DEFINE heard == when = "after"
    <2>1. Broadcast(heard) /\ flowEnd' = IF heard THEN "failedWithTxid" ELSE "failed"
        BY <1>3 DEF StepFails
    <2> HIDE DEF heard
    <2>2. PICK a : /\ onChain' = onChain \cup {a} /\ a.step = step /\ a.kind = plan[step]
                   /\ a.heard = heard
                   /\ a.kind = "deposit" => "contract" \in DOMAIN known /\ a.names = known["contract"]
        BY <1>1, <2>1, GoesOut
    <2>3. "contract" \in DOMAIN known => contractAt' = contractAt
        BY <1>1, <2>1, GoesOut
    <2>4. \A x \in onChain' :
             \/ x.step \in partial'
             \/ x.step = step' /\ flowEnd' = IF x.heard THEN "failedWithTxid" ELSE "failed"
        BY <1>1, <2>1, <2>2
    <2>5. \A x \in onChain' : x.kind = "deposit" =>
                                  "contract" \in DOMAIN known' /\ x.names = known'["contract"]
        BY <1>1, <2>2
    <2> QED BY <1>1, <2>1, <2>3, <2>4, <2>5
<1> QED BY <1>2, <1>3

LEMMA AssemblesKeeps ==
    ASSUME FlowInv, NEW how, Assembles(how)
    PROVE  FlowInv'
<1>1. "contract" \notin DOMAIN known
    BY DEF FlowInv, Assembles
<1>2. onChain # {} /\ UNCHANGED <<flow, plan, step, partial, onChain, known, reads, flowEnd>>
    BY DEF Assembles
<1> QED BY <1>1, <1>2 DEF FlowInv

LEMMA ResolveKeeps ==
    ASSUME FlowInv, NEW age, Resolve(age)
    PROVE  FlowInv'
<1> USE DEF FlowInv
<1>1. /\ flowEnd = "open" /\ plan[step] = "resolve"
      /\ UNCHANGED <<flow, plan, partial, onChain, contractAt>>
    BY DEF Resolve, Running
<1>2. plan \in Seq(StepNames) /\ Len(plan) \in Nat /\ step \in 1..Len(plan)
    BY PlanShape DEF OneDeploy, Resolve, Running
<1>3. CASE Inspected(age) > 0
    <2>1. known' = Learnt("contract", Inspected(age)) /\ step' = step + 1 /\ UNCHANGED flowEnd
        BY <1>3 DEF Resolve
    <2>2. Inspected(age) = contractAt /\ contractAt # 0
        BY <1>3 DEF Inspected
    <2>3. "contract" \in DOMAIN known' /\ known'["contract"] = contractAt'
        BY <1>1, <2>1, <2>2 DEF Learnt
    <2>4. partial' = {i \in 1..(step' - 1) : plan'[i] # "resolve"}
        BY <1>1, <1>2, <2>1
    <2>5. \A a \in onChain' : a.kind = "deposit" => a.names = known'["contract"]
        BY <1>1, <2>3
    <2>6. \E j \in 1..(step' - 1) : plan'[j] \in {"deploy", "resolve"}
        BY <1>1, <1>2, <2>1
    <2> QED BY <1>1, <1>2, <2>1, <2>2, <2>3, <2>4, <2>5, <2>6
<1>4. CASE ~(Inspected(age) > 0)
    <2>1. UNCHANGED <<known, step>> /\ flowEnd' \in {"failed", "open"}
        BY <1>4 DEF Resolve
    <2> QED BY <1>1, <2>1
<1> QED BY <1>3, <1>4

LEMMA FlowStep ==
    ASSUME FlowInv, [FlowNext]_flowVars
    PROVE  FlowInv'
<1>1. CASE UNCHANGED flowVars
    BY <1>1 DEF flowVars, FlowInv
<1>2. CASE StepLacks
    BY <1>2 DEF StepLacks, Running, FlowInv
<1>3. CASE ResolveSkipped
    <2>1. /\ flowEnd = "open" /\ plan[step] = "resolve" /\ step' = step + 1 /\ step <= Len(plan)
          /\ UNCHANGED <<flow, plan, partial, onChain, known, contractAt, reads, flowEnd>>
        BY <1>3 DEF ResolveSkipped, Running
    <2>2. Len(plan) \in Nat /\ step \in 1..Len(plan)
        BY <2>1, PlanShape DEF OneDeploy, FlowInv
    <2>3. partial' = {i \in 1..(step' - 1) : plan'[i] # "resolve"}
        BY <2>1, <2>2 DEF FlowInv
    <2> QED BY <2>1, <2>2, <2>3 DEF FlowInv
<1>4. CASE FlowReturns
    <2>1. Len(plan) \in Nat
        BY PlanShape DEF OneDeploy, FlowInv
    <2> QED BY <1>4, <2>1 DEF FlowReturns, FlowInv
<1> QED BY <1>1, <1>2, <1>3, <1>4, StepDoneKeeps, StepFailsKeeps, AssemblesKeeps, ResolveKeeps
        DEF FlowNext

\* The caller of a workflow, whatever fails, can account for every action on the
\* chain but for the step that failed with the answer to its broadcast lost, a
\* refusal comes before the first broadcast, every deposit names the contract
\* itself, and a bridge credits no foreign address (lifecycle_manager.js,
\* contract_deploy.js, bridge.js).
THEOREM WorkflowsAccount ==
    ASSUME NEW flows, flows \subseteq Flows
    PROVE  FlowSpec(flows) => []FlowAccounts
<1>1. FlowInit(flows) => FlowInv
    <2> SUFFICES ASSUME FlowInit(flows) PROVE FlowInv
        OBVIOUS
    <2>1. flow \in Flows /\ plan = StepsOf(flow)
        BY DEF FlowInit
    <2>2. Len(plan) \in Nat
        BY <2>1, PlanShape DEF OneDeploy
    <2> QED BY <2>1, <2>2 DEF FlowInit, FlowInv
<1>2. FlowInv => FlowAccounts
    <2> SUFFICES ASSUME FlowInv PROVE FlowAccounts
        OBVIOUS
    <2>1. Len(plan) \in Nat
        BY PlanShape DEF OneDeploy, FlowInv
    <2>2. flowEnd = "returned" => partial = {i \in 1..Len(plan) : plan[i] # "resolve"}
        BY <2>1 DEF FlowInv
    <2>3. (flow.name = "bridge" /\ flow.bridge.version # 7 /\ onChain # {}) => flow.bridge.dest = "valid"
        <3> SUFFICES ASSUME flow.name = "bridge", flow.bridge.version # 7, onChain # {}
                     PROVE  flow.bridge.dest = "valid"
            OBVIOUS
        <3>1. ~BridgeRefused(flow.bridge)
            BY DEF FlowInv, PlanRefused
        <3>2. flow.bridge.version \in {0, 1, 3, 4, 7}
            BY FlowFields DEF FlowInv, Bridges
        <3> QED BY <3>1, <3>2 DEF BridgeRefused
    <2>4. \A i \in 1..(step - 1) : i \in partial \/ plan[i] = "resolve"
        BY DEF FlowInv
    <2> QED BY <2>2, <2>3, <2>4 DEF FlowInv, FlowAccounts
<1> QED BY <1>1, <1>2, FlowStep, PTL DEF FlowSpec
-----------------------------------------------------------------------------
(* Requests. *)

Messages == [kind : {"subscribe", "unsubscribe"}, id : Nat, key : FeedKeys]
Replies == [id : Nat, key : FeedKeys, code : {"RATE_LIMITED", "REFUSED", "ok"}]

\* A request that expects an answer has a number.
Sendable(q) ==
    /\ q \in Seq(Messages)
    /\ \A i \in 1..Len(q) : q[i].kind = "subscribe" => q[i].id # 0

\* From the m-th message on, a queue does not let go of k; it asks for k and does
\* not let go of it; the server has refused to serve k, one way or another.
KeepsFrom(q, m, k) == \A i \in m..Len(q) : ~(q[i].kind = "unsubscribe" /\ q[i].key = k)
AsksFor(q, k) ==
    \E i \in 1..Len(q) : q[i].kind = "subscribe" /\ q[i].key = k /\ KeepsFrom(q, i + 1, k)
TurnsDown(ans, k) == \E i \in 1..Len(ans) : ans[i].key = k /\ ans[i].code # "ok"

\* The server pushes for k or is going to, unless it says otherwise.
UnderWay(srv, q, ans, k) ==
    \/ k \in srv /\ KeepsFrom(q, 1, k)
    \/ AsksFor(q, k)
    \/ TurnsDown(ans, k)

\* How many messages leave.
LEMMA LeavingIs ==
    ASSUME NEW q \in Seq(Messages), NEW level \in Nat
    PROVE  Leaving(q, level) \in 0..Len(q)
<1>1. MessageRate \in Nat
    BY WatchersAssumption DEF MessageRate
<1>2. OutCapacity \in Nat
    BY <1>1 DEF OutCapacity
<1>3. Len(q) \in Nat
    BY LenProperties
<1> HIDE DEF OutCapacity
<1> QED BY <1>2, <1>3 DEF Leaving

LEMMA RisingOrders ==
    ASSUME NEW S, IsFiniteSet(S), S \subseteq Nat
    PROVE  InOrder(Rising(S), S)
<1>1. \E s \in [1..Cardinality(S) -> S] :
          Range(s) = S /\ \A m, n \in DOMAIN s : m < n => s[m] < s[n]
    BY CanBeOrdered DEF InOrder
<1> QED BY <1>1 DEF Rising, InOrder

\* What a part of a queue keeps, what is left of it keeps.
LEMMA RestOf ==
    ASSUME NEW q, Sendable(q), NEW n \in 0..Len(q)
    PROVE  /\ Sendable(SubSeq(q, n + 1, Len(q)))
           /\ Len(SubSeq(q, n + 1, Len(q))) = Len(q) - n
           /\ \A i \in 1..(Len(q) - n) : SubSeq(q, n + 1, Len(q))[i] = q[n + i]
           /\ Len(SubSeq(q, 1, n)) = n
           /\ \A i \in 1..n : SubSeq(q, 1, n)[i] = q[i]
<1>1. q \in Seq(Messages) /\ Len(q) \in Nat /\ n \in Nat
    BY LenProperties DEF Sendable
<1>2. /\ SubSeq(q, n + 1, Len(q)) \in Seq(Messages)
      /\ Len(SubSeq(q, n + 1, Len(q))) = Len(q) - n
      /\ \A i \in 1..(Len(q) - n) : SubSeq(q, n + 1, Len(q))[i] = q[n + i]
    BY <1>1
<1>3. \A i \in 1..(Len(q) - n) : n + i \in 1..Len(q)
    BY <1>1
<1>4. Sendable(SubSeq(q, n + 1, Len(q)))
    BY <1>2, <1>3 DEF Sendable
<1>5. Len(SubSeq(q, 1, n)) = n /\ \A i \in 1..n : SubSeq(q, 1, n)[i] = q[i]
    BY <1>1
<1> QED BY <1>2, <1>4, <1>5

\* The bucket drains: whatever was under way for a key still is.
LEMMA Drains ==
    ASSUME NEW q, Sendable(q), NEW level \in Nat, NEW slevel \in Nat,
           server \subseteq FeedKeys, answers \in Seq(Replies), Drain(q, level, slevel)
    PROVE  /\ Sendable(outQueue') /\ outLevel' \in Nat /\ serverLevel' \in Nat
           /\ server' \subseteq FeedKeys /\ answers' \in Seq(Replies)
           /\ \A k \in FeedKeys : UnderWay(server, q, answers, k)
                                      => UnderWay(server', outQueue', answers', k)
<1> DEFINE n == Leaving(q, level)
           sent == SubSeq(q, 1, n)
           asked == {i \in 1..n : sent[i].id # 0}
           reply(i) == Reply(sent[i], slevel + i - 1)
           more == [j \in 1..Cardinality(asked) |-> reply(Rising(asked)[j])]
           subscribed == {k \in FeedKeys : \E i \in 1..n :
                            /\ sent[i].key = k /\ sent[i].kind = "subscribe" /\ reply(i).code = "ok"
                            /\ \A j \in (i + 1)..n : ~(/\ sent[j].key = k
                                                       /\ sent[j].kind = "unsubscribe"
                                                       /\ reply(j).code # "RATE_LIMITED")}
           dropped == {sent[i].key : i \in {i \in 1..n : /\ sent[i].kind = "unsubscribe"
                                                         /\ reply(i).code # "RATE_LIMITED"}}
<1>1. /\ outQueue' = SubSeq(q, n + 1, Len(q)) /\ outLevel' = level + n
      /\ serverLevel' = IF slevel + n > ServerRate THEN ServerRate ELSE slevel + n
      /\ server' = (server \ dropped) \cup subscribed
      /\ answers' = answers \o more
    BY DEF Drain
<1>2. q \in Seq(Messages) /\ Len(q) \in Nat /\ n \in 0..Len(q) /\ n \in Nat
    BY LeavingIs, LenProperties DEF Sendable
<1> HIDE DEF n
<1>3. /\ Len(sent) = n /\ \A i \in 1..n : sent[i] = q[i] /\ sent[i] \in Messages /\ i \in 1..Len(q)
    BY <1>2, RestOf
<1> HIDE DEF sent
<1>4. \A i \in 1..n : reply(i) \in Replies /\ reply(i).key = sent[i].key
    BY <1>3 DEF Reply, Messages, Replies
<1> HIDE DEF reply
<1>5. IsFiniteSet(asked) /\ asked \subseteq Nat /\ Cardinality(asked) \in Nat
    <2>1. IsFiniteSet(1..n)
        BY <1>2, FS_Interval
    <2>2. asked \subseteq 1..n /\ 1..n \subseteq Nat
        OBVIOUS
    <2> HIDE DEF asked
    <2> QED BY <2>1, <2>2, FS_Subset, FS_CardinalityType
<1>6. InOrder(Rising(asked), asked)
    BY <1>5, RisingOrders
<1>7. more \in Seq(Replies) /\ Len(more) = Cardinality(asked)
    <2> DEFINE C == Cardinality(asked)
    <2>1. \A j \in 1..C : Rising(asked)[j] \in 1..n
        BY <1>6 DEF InOrder
    <2>2. C \in Nat
        BY <1>5
    <2> HIDE DEF C, asked
    <2>3. \A j \in 1..C : reply(Rising(asked)[j]) \in Replies
        BY <2>1, <1>4
    <2>4. [j \in 1..C |-> reply(Rising(asked)[j])] \in Seq(Replies)
        BY <2>2, <2>3
    <2>5. Len([j \in 1..C |-> reply(Rising(asked)[j])]) = C
        BY <2>2
    <2> QED BY <2>4, <2>5 DEF C
<1>8. \A i \in asked : \E j \in 1..Len(more) : more[j] = reply(i)
    <2> SUFFICES ASSUME NEW i \in asked PROVE \E j \in 1..Len(more) : more[j] = reply(i)
        OBVIOUS
    <2>1. PICK j \in 1..Cardinality(asked) : Rising(asked)[j] = i
        BY <1>6 DEF InOrder, Range
    <2> QED BY <1>7, <2>1
<1>9. /\ answers' \in Seq(Replies)
      /\ \A i \in 1..Len(answers) : \E j \in 1..Len(answers') : answers'[j] = answers[i]
      /\ \A i \in asked : \E j \in 1..Len(answers') : answers'[j] = reply(i)
    <2> HIDE DEF more
    <2>1. /\ answers' \in Seq(Replies) /\ Len(answers') = Len(answers) + Len(more)
          /\ \A i \in 1..(Len(answers) + Len(more)) :
                answers'[i] = IF i <= Len(answers) THEN answers[i] ELSE more[i - Len(answers)]
        BY <1>1, <1>7, ConcatProperties
    <2>2. Len(answers) \in Nat /\ Len(more) \in Nat
        BY <1>7, LenProperties
    <2>3. ASSUME NEW i \in 1..Len(answers) PROVE \E j \in 1..Len(answers') : answers'[j] = answers[i]
        <3>1. i \in 1..Len(answers') /\ answers'[i] = answers[i]
            BY <2>1, <2>2
        <3> QED BY <3>1
    <2>4. ASSUME NEW i \in asked PROVE \E j \in 1..Len(answers') : answers'[j] = reply(i)
        <3>1. PICK j \in 1..Len(more) : more[j] = reply(i)
            BY <1>8
        <3>2. Len(answers) + j \in 1..Len(answers') /\ answers'[Len(answers) + j] = reply(i)
            BY <2>1, <2>2, <3>1
        <3> QED BY <3>2
    <2> QED BY <2>1, <2>3, <2>4
<1> HIDE DEF more
<1>10. /\ Sendable(outQueue') /\ Len(outQueue') = Len(q) - n
       /\ \A i \in 1..(Len(q) - n) : outQueue'[i] = q[n + i]
    BY <1>1, <1>2, RestOf
<1>11. outLevel' \in Nat /\ serverLevel' \in Nat
    BY <1>1, <1>2, WatchersAssumption
<1>12. server' \subseteq FeedKeys
    BY <1>1
<1>13. ASSUME NEW k \in FeedKeys, UnderWay(server, q, answers, k)
       PROVE  UnderWay(server', outQueue', answers', k)
    <2>1. ASSUME NEW m \in 1..(Len(q) + 1), KeepsFrom(q, m, k), m <= n + 1
          PROVE  KeepsFrom(outQueue', 1, k)
        <3> SUFFICES ASSUME NEW i \in 1..Len(outQueue')
                     PROVE  ~(outQueue'[i].kind = "unsubscribe" /\ outQueue'[i].key = k)
            BY DEF KeepsFrom
        <3>1. n + i \in m..Len(q) /\ outQueue'[i] = q[n + i]
            BY <1>2, <1>10, <2>1
        <3> QED BY <2>1, <3>1 DEF KeepsFrom
    <2>2. CASE k \in server /\ KeepsFrom(q, 1, k)
        <3>1. KeepsFrom(outQueue', 1, k)
            BY <1>2, <2>1, <2>2
        <3>2. k \notin dropped
            <4> SUFFICES ASSUME NEW i \in 1..n, sent[i].kind = "unsubscribe", sent[i].key = k
                         PROVE  FALSE
                OBVIOUS
            <4>1. i \in 1..Len(q) /\ q[i].kind = "unsubscribe" /\ q[i].key = k
                BY <1>3
            <4> QED BY <2>2, <4>1 DEF KeepsFrom
        <3> QED BY <1>1, <2>2, <3>1, <3>2 DEF UnderWay
    <2>3. CASE AsksFor(q, k)
        <3>1. PICK i \in 1..Len(q) : q[i].kind = "subscribe" /\ q[i].key = k /\ KeepsFrom(q, i + 1, k)
            BY <2>3 DEF AsksFor
        <3>2. CASE i > n
            <4>1. i - n \in 1..Len(outQueue') /\ outQueue'[i - n] = q[i]
                BY <1>2, <1>10, <3>2
            <4>2. KeepsFrom(outQueue', i - n + 1, k)
                <5> SUFFICES ASSUME NEW j \in (i - n + 1)..Len(outQueue')
                             PROVE  ~(outQueue'[j].kind = "unsubscribe" /\ outQueue'[j].key = k)
                    BY DEF KeepsFrom
                <5>1. n + j \in (i + 1)..Len(q) /\ j \in 1..(Len(q) - n)
                    BY <1>2, <1>10, <3>2
                <5> QED BY <1>10, <3>1, <5>1 DEF KeepsFrom
            <4> QED BY <3>1, <4>1, <4>2 DEF UnderWay, AsksFor
        <3>3. CASE i <= n /\ reply(i).code = "ok"
            <4>1. KeepsFrom(outQueue', 1, k)
                BY <1>2, <2>1, <3>1, <3>3
            <4>2. \A j \in (i + 1)..n : ~(sent[j].key = k /\ sent[j].kind = "unsubscribe")
                <5> SUFFICES ASSUME NEW j \in (i + 1)..n, sent[j].key = k, sent[j].kind = "unsubscribe"
                             PROVE  FALSE
                    OBVIOUS
                <5>1. j \in 1..n /\ j \in (i + 1)..Len(q)
                    BY <1>2
                <5> QED BY <1>3, <3>1, <5>1 DEF KeepsFrom
            <4>3. i \in 1..n /\ sent[i].key = k /\ sent[i].kind = "subscribe"
                BY <1>2, <1>3, <3>1, <3>3
            <4>4. k \in subscribed
                BY <3>3, <4>2, <4>3
            <4> QED BY <1>1, <4>1, <4>4 DEF UnderWay
        <3>4. CASE i <= n /\ reply(i).code # "ok"
            <4>1. i \in 1..n /\ sent[i] = q[i]
                BY <1>2, <1>3, <3>4
            <4>2. i \in asked /\ reply(i).key = k
                BY <1>4, <3>1, <4>1 DEF Sendable
            <4>3. PICK j \in 1..Len(answers') : answers'[j] = reply(i)
                BY <1>9, <4>2
            <4> QED BY <3>4, <4>2, <4>3 DEF UnderWay, TurnsDown
        <3> QED BY <1>2, <3>2, <3>3, <3>4
    <2>4. CASE TurnsDown(answers, k)
        BY <1>9, <2>4 DEF UnderWay, TurnsDown
    <2> QED BY <1>13, <2>2, <2>3, <2>4 DEF UnderWay
<1> QED BY <1>9, <1>10, <1>11, <1>12, <1>13

\* The two ends of the wire.
FeedWire ==
    /\ Sendable(outQueue) /\ outLevel \in Nat /\ serverLevel \in Nat
    /\ server \subseteq FeedKeys /\ answers \in Seq(Replies)

Requested(k) == UnderWay(server, outQueue, answers, k)

\* What is sent behind a queue lets go of a key only if it says so.
LEMMA Behind ==
    ASSUME NEW q, Sendable(q), NEW m, Sendable(m), NEW k
    PROVE  /\ Sendable(q \o m)
           /\ KeepsFrom(m, 1, k) => \A srv, ans : UnderWay(srv, q, ans, k)
                                                      => UnderWay(srv, q \o m, ans, k)
           /\ AsksFor(m, k) => AsksFor(q \o m, k)
<1>1. /\ q \in Seq(Messages) /\ m \in Seq(Messages) /\ Len(q) \in Nat /\ Len(m) \in Nat
    BY LenProperties DEF Sendable
<1>2. /\ q \o m \in Seq(Messages) /\ Len(q \o m) = Len(q) + Len(m)
      /\ \A i \in 1..Len(q) : (q \o m)[i] = q[i]
      /\ \A i \in 1..Len(m) : (q \o m)[Len(q) + i] = m[i]
    BY <1>1
<1>3. \A i \in 1..(Len(q) + Len(m)) : i \in 1..Len(q) \/ i - Len(q) \in 1..Len(m)
    BY <1>1
<1>4. Sendable(q \o m)
    <2> SUFFICES ASSUME NEW i \in 1..Len(q \o m), (q \o m)[i].kind = "subscribe"
                 PROVE  (q \o m)[i].id # 0
        BY <1>2 DEF Sendable
    <2>1. CASE i \in 1..Len(q)
        BY <1>2, <2>1 DEF Sendable
    <2>2. CASE i - Len(q) \in 1..Len(m)
        <3>1. (q \o m)[Len(q) + (i - Len(q))] = m[i - Len(q)]
            BY <1>2, <2>2
        <3>2. Len(q) + (i - Len(q)) = i
            BY <1>1, <1>2
        <3> QED BY <2>2, <3>1, <3>2 DEF Sendable
    <2> QED BY <1>2, <1>3, <2>1, <2>2
<1>5. ASSUME KeepsFrom(m, 1, k), NEW a \in 1..(Len(q) + 1), KeepsFrom(q, a, k)
      PROVE  KeepsFrom(q \o m, a, k)
    <2> SUFFICES ASSUME NEW i \in a..Len(q \o m), (q \o m)[i].kind = "unsubscribe", (q \o m)[i].key = k
                 PROVE  FALSE
        BY DEF KeepsFrom
    <2>1. CASE i \in 1..Len(q)
        <3>1. i \in a..Len(q) /\ (q \o m)[i] = q[i]
            BY <1>1, <1>2, <2>1
        <3> QED BY <1>5, <3>1 DEF KeepsFrom
    <2>2. CASE i - Len(q) \in 1..Len(m)
        <3>1. (q \o m)[Len(q) + (i - Len(q))] = m[i - Len(q)]
            BY <1>2, <2>2
        <3>2. Len(q) + (i - Len(q)) = i
            BY <1>1
        <3> QED BY <1>5, <2>2, <3>1, <3>2 DEF KeepsFrom
    <2> QED BY <1>1, <1>2, <1>3, <2>1, <2>2
<1>6. ASSUME KeepsFrom(m, 1, k), NEW srv, NEW ans, UnderWay(srv, q, ans, k)
      PROVE  UnderWay(srv, q \o m, ans, k)
    <2>1. CASE k \in srv /\ KeepsFrom(q, 1, k)
        <3>1. 1 \in 1..(Len(q) + 1)
            BY <1>1
        <3>2. KeepsFrom(q \o m, 1, k)
            BY <1>5, <1>6, <2>1, <3>1
        <3> QED BY <2>1, <3>2 DEF UnderWay
    <2>2. CASE AsksFor(q, k)
        <3>1. PICK i \in 1..Len(q) : q[i].kind = "subscribe" /\ q[i].key = k /\ KeepsFrom(q, i + 1, k)
            BY <2>2 DEF AsksFor
        <3>2. i + 1 \in 1..(Len(q) + 1) /\ i \in 1..Len(q \o m)
            BY <1>1, <1>2
        <3>3. KeepsFrom(q \o m, i + 1, k)
            BY <1>5, <1>6, <3>1, <3>2
        <3>4. (q \o m)[i] = q[i]
            BY <1>2
        <3> QED BY <3>1, <3>2, <3>3, <3>4 DEF UnderWay, AsksFor
    <2>3. CASE TurnsDown(ans, k)
        BY <2>3 DEF UnderWay
    <2> QED BY <1>6, <2>1, <2>2, <2>3 DEF UnderWay
<1>7. ASSUME AsksFor(m, k) PROVE AsksFor(q \o m, k)
    <2>1. PICK i \in 1..Len(m) : m[i].kind = "subscribe" /\ m[i].key = k /\ KeepsFrom(m, i + 1, k)
        BY <1>7 DEF AsksFor
    <2>2. Len(q) + i \in 1..Len(q \o m) /\ (q \o m)[Len(q) + i] = m[i]
        BY <1>1, <1>2
    <2>3. KeepsFrom(q \o m, Len(q) + i + 1, k)
        <3> SUFFICES ASSUME NEW j \in (Len(q) + i + 1)..Len(q \o m),
                            (q \o m)[j].kind = "unsubscribe", (q \o m)[j].key = k
                     PROVE  FALSE
            BY DEF KeepsFrom
        <3>1. j - Len(q) \in (i + 1)..Len(m) /\ j - Len(q) \in 1..Len(m) /\ Len(q) + (j - Len(q)) = j
            BY <1>1, <1>2
        <3>2. (q \o m)[j] = m[j - Len(q)]
            BY <1>2, <3>1
        <3> QED BY <2>1, <3>1, <3>2 DEF KeepsFrom
    <2> QED BY <2>1, <2>2, <2>3 DEF AsksFor
<1> QED BY <1>4, <1>6, <1>7

\* Messages sent: a key under way still is unless they let go of it, and what they
\* ask for is under way.
LEMMA SendKeeps ==
    ASSUME FeedWire, NEW msgs, Sendable(msgs), Send(msgs)
    PROVE  /\ FeedWire'
           /\ \A k \in FeedKeys : Requested(k) /\ KeepsFrom(msgs, 1, k) => Requested(k)'
           /\ linkState # "down" => \A k \in FeedKeys : AsksFor(msgs, k) => Requested(k)'
<1>1. CASE linkState = "down"
    BY <1>1 DEF Send, FeedWire, Requested
<1>2. CASE linkState # "down"
    <2>1. Drain(outQueue \o msgs, outLevel, serverLevel)
        BY <1>2 DEF Send
    <2>2. Sendable(outQueue \o msgs)
        BY Behind DEF FeedWire
    <2>3. /\ FeedWire'
          /\ \A k \in FeedKeys : UnderWay(server, outQueue \o msgs, answers, k) => Requested(k)'
        BY <2>1, <2>2, Drains DEF FeedWire, Requested
    <2>4. \A k \in FeedKeys : Requested(k) /\ KeepsFrom(msgs, 1, k) => Requested(k)'
        BY <2>3, Behind DEF FeedWire, Requested
    <2>5. \A k \in FeedKeys : AsksFor(msgs, k) => Requested(k)'
        BY <2>3, Behind DEF FeedWire, UnderWay
    <2> QED BY <2>3, <2>4, <2>5
<1> QED BY <1>1, <1>2

\* The subscriptions a list of keys is asked for with.
Batch(first, n, order) == [i \in 1..n |-> Subscription(first + i - 1, order[i])]

LEMMA BatchAsks ==
    ASSUME NEW first \in Nat \ {0}, NEW n \in Nat, NEW order \in [1..n -> FeedKeys]
    PROVE  /\ Sendable(Batch(first, n, order))
           /\ \A k \in FeedKeys : KeepsFrom(Batch(first, n, order), 1, k)
           /\ \A k \in Range(order) : AsksFor(Batch(first, n, order), k)
<1> DEFINE b == Batch(first, n, order)
<1>1. /\ b \in Seq(Messages) /\ Len(b) = n
      /\ \A i \in 1..n : b[i].kind = "subscribe" /\ b[i].id = first + i - 1 /\ b[i].key = order[i]
    <2>1. \A i \in 1..n : Subscription(first + i - 1, order[i]) \in Messages
        BY DEF Subscription, Messages
    <2>2. b \in Seq(Messages) /\ Len(b) = n /\ \A i \in 1..n : b[i] = Subscription(first + i - 1, order[i])
        BY <2>1 DEF Batch
    <2> QED BY <2>2 DEF Subscription
<1> HIDE DEF b
<1>2. Sendable(b)
    BY <1>1 DEF Sendable
<1>3. \A m \in Nat \ {0}, k \in FeedKeys : KeepsFrom(b, m, k)
    <2> SUFFICES ASSUME NEW m \in Nat \ {0}, NEW k \in FeedKeys, NEW i \in m..n
                 PROVE  ~(b[i].kind = "unsubscribe" /\ b[i].key = k)
        BY <1>1 DEF KeepsFrom
    <2>1. i \in 1..n
        OBVIOUS
    <2> QED BY <1>1, <2>1
<1>4. ASSUME NEW k \in Range(order) PROVE AsksFor(b, k)
    <2>1. PICK i \in 1..n : order[i] = k
        BY DEF Range
    <2>2. k \in FeedKeys /\ i + 1 \in Nat \ {0}
        BY <2>1
    <2>3. KeepsFrom(b, i + 1, k)
        BY <1>3, <2>2
    <2> QED BY <1>1, <2>1, <2>3 DEF AsksFor
<1> QED BY <1>2, <1>3, <1>4 DEF b

LEMMA OneAsks ==
    ASSUME NEW id \in Nat \ {0}, NEW key \in FeedKeys
    PROVE  /\ Sendable(<<Subscription(id, key)>>)
           /\ \A k \in FeedKeys : KeepsFrom(<<Subscription(id, key)>>, 1, k)
           /\ AsksFor(<<Subscription(id, key)>>, key)
<1> DEFINE b == <<Subscription(id, key)>>
<1>1. Subscription(id, key) \in Messages
    BY DEF Subscription, Messages
<1>2. b \in Seq(Messages) /\ Len(b) = 1 /\ b[1] = Subscription(id, key)
    BY <1>1
<1>3. b[1].kind = "subscribe" /\ b[1].id = id /\ b[1].key = key
    BY DEF Subscription
<1> HIDE DEF b
<1>4. Sendable(b) /\ \A k \in FeedKeys : KeepsFrom(b, 1, k)
    BY <1>2, <1>3 DEF Sendable, KeepsFrom
<1>5. AsksFor(b, key)
    <2>1. KeepsFrom(b, 2, key)
        BY <1>2 DEF KeepsFrom
    <2> QED BY <1>2, <1>3, <2>1 DEF AsksFor
<1> QED BY <1>4, <1>5 DEF b

\* Who holds a key.
Holders(k) == {w \in Watchers : watch[w] = "on" /\ WatchKey[w] = k}

\* A key has as many references as holders, and a watcher is registered while it
\* is on.
HeldInv ==
    /\ watch \in [Watchers -> {"new", "on", "done"}]
    /\ refs \in [FeedKeys -> Nat]
    /\ \A k \in FeedKeys : refs[k] = Cardinality(Holders(k))
    /\ handlers \in [EventTypes -> SUBSET Watchers]
    /\ \A w \in Watchers, t \in EventTypes :
          w \in handlers[t] <=> watch[w] = "on" /\ t \in WatchTypes[w]

\* A key asked for on this connection, and not refused or given up, is under way
\* or waits for its timer.
SoughtInv ==
    /\ sought \subseteq FeedKeys
    /\ linkState = "down" => sought = {}
    /\ \A k \in sought : Requested(k) \/ \E r \in retries : r.key = k

ReqInv ==
    /\ HeldInv /\ FeedWire /\ SoughtInv
    /\ nextReq \in Nat \ {0}
    /\ \A r \in retries : r.id \in Nat /\ r.key \in FeedKeys

LEMMA KeysAreFinite ==
    /\ IsFiniteSet(FeedKeys)
    /\ \A w \in Watchers : WatchKey[w] \in FeedKeys
    /\ \A k : IsFiniteSet(Holders(k)) /\ Cardinality(Holders(k)) \in Nat
<1>1. IsFiniteSet(FeedKeys)
    <2> DEFINE f == [w \in Watchers |-> WatchKey[w]]
    <2>1. f \in Surjection(Watchers, FeedKeys)
        BY DEF Surjection, FeedKeys
    <2> QED BY <2>1, FS_Surjection, WatchersAssumption
<1>2. \A w \in Watchers : WatchKey[w] \in FeedKeys
    BY DEF FeedKeys
<1>3. \A k : IsFiniteSet(Holders(k)) /\ Cardinality(Holders(k)) \in Nat
    <2> TAKE k
    <2>1. Holders(k) \subseteq Watchers
        BY DEF Holders
    <2> HIDE DEF Holders
    <2> QED BY <2>1, FS_Subset, FS_CardinalityType, WatchersAssumption
<1> QED BY <1>1, <1>2, <1>3

LEMMA WatchKeeps ==
    ASSUME ReqInv, NEW w \in Watchers, Watch(w)
    PROVE  ReqInv'
<1> DEFINE key == WatchKey[w]
<1>1. /\ watch[w] = "new" /\ watch' = [watch EXCEPT ![w] = "on"]
      /\ handlers' = [t \in DOMAIN handlers |->
                         IF t \in WatchTypes[w] THEN handlers[t] \cup {w} ELSE handlers[t]]
      /\ Subscribe(key) /\ UNCHANGED <<linkState, tracked, retries, bunches, closes>>
    BY DEF Watch
<1>2. key \in FeedKeys
    BY KeysAreFinite
<1> HIDE DEF key
<1>3. refs' = [refs EXCEPT ![key] = @ + 1]
    BY <1>1 DEF Subscribe
<1>4. HeldInv'
    <2>1. watch' \in [Watchers -> {"new", "on", "done"}] /\ refs' \in [FeedKeys -> Nat]
        BY <1>1, <1>2, <1>3 DEF ReqInv, HeldInv
    <2>2. ASSUME NEW k \in FeedKeys PROVE refs'[k] = Cardinality(Holders(k)')
        <3>1. CASE k = key
            <4>1. Holders(k)' = Holders(k) \cup {w} /\ w \notin Holders(k)
                BY <1>1, <3>1 DEF Holders, key, ReqInv, HeldInv
            <4>2. Cardinality(Holders(k) \cup {w}) = Cardinality(Holders(k)) + 1
                BY <4>1, KeysAreFinite, FS_AddElement
            <4> QED BY <1>2, <1>3, <3>1, <4>1, <4>2 DEF ReqInv, HeldInv
        <3>2. CASE k # key
            <4>1. Holders(k)' = Holders(k)
                BY <1>1, <3>2 DEF Holders, key, ReqInv, HeldInv
            <4> QED BY <1>3, <3>2, <4>1 DEF ReqInv, HeldInv
        <3> QED BY <3>1, <3>2
    <2>3. handlers' \in [EventTypes -> SUBSET Watchers]
        BY <1>1 DEF ReqInv, HeldInv
    <2>4. ASSUME NEW x \in Watchers, NEW t \in EventTypes
          PROVE  x \in handlers'[t] <=> watch'[x] = "on" /\ t \in WatchTypes[x]
        BY <1>1 DEF ReqInv, HeldInv
    <2> QED BY <2>1, <2>2, <2>3, <2>4 DEF HeldInv
<1>5. CASE refs[key] > 0
    <2>1. UNCHANGED <<pending, nextReq, sought, outQueue, outLevel, serverLevel, server, answers>>
        BY <1>1, <1>5 DEF Subscribe
    <2> QED BY <1>1, <1>4, <2>1 DEF ReqInv, FeedWire, SoughtInv, Requested
<1>6. CASE ~(refs[key] > 0)
    <2>1. /\ nextReq' = nextReq + 1 /\ Send(<<Subscription(nextReq, key)>>)
          /\ sought' = IF linkState = "down" THEN sought ELSE sought \cup {key}
        BY <1>1, <1>6 DEF Subscribe
    <2>2. /\ Sendable(<<Subscription(nextReq, key)>>)
          /\ \A k \in FeedKeys : KeepsFrom(<<Subscription(nextReq, key)>>, 1, k)
          /\ AsksFor(<<Subscription(nextReq, key)>>, key)
        BY <1>2, OneAsks DEF ReqInv
    <2>3. /\ FeedWire'
          /\ \A k \in FeedKeys : Requested(k) => Requested(k)'
          /\ linkState # "down" => Requested(key)'
        BY <1>2, <2>1, <2>2, SendKeeps DEF ReqInv
    <2>4. SoughtInv'
        BY <1>1, <1>2, <2>1, <2>3 DEF ReqInv, SoughtInv, Requested
    <2> QED BY <1>1, <1>4, <2>1, <2>3, <2>4 DEF ReqInv
<1> QED BY <1>5, <1>6

LEMMA TeardownKeeps ==
    ASSUME ReqInv, NEW w \in Watchers, Teardown(w)
    PROVE  ReqInv'
<1> DEFINE key == WatchKey[w]
<1>1. /\ watch[w] = "on" /\ watch' = [watch EXCEPT ![w] = "done"]
      /\ handlers' = [t \in DOMAIN handlers |-> handlers[t] \ {w}]
      /\ sought' = IF \E x \in Watchers \ {w} : watch[x] = "on" /\ WatchKey[x] = key
                   THEN sought ELSE sought \ {key}
      /\ Unsubscribe(key) /\ UNCHANGED <<linkState, pending, tracked, retries, nextReq>>
    BY DEF Teardown, TeardownActs
<1>2. key \in FeedKeys
    BY KeysAreFinite
<1>3. /\ w \in Holders(key)
      /\ \A x \in Watchers \ {w} : watch[x] = "on" /\ WatchKey[x] = key => x \in Holders(key)
    BY <1>1 DEF Holders
<1>4. Cardinality(Holders(key) \ {w}) = Cardinality(Holders(key)) - 1
    BY <1>3, KeysAreFinite, FS_RemoveElement
<1>5. refs[key] = Cardinality(Holders(key)) /\ refs[key] \in Nat
    BY <1>2 DEF ReqInv, HeldInv
<1>6. IsFiniteSet(Holders(key) \ {w}) /\ Cardinality(Holders(key) \ {w}) \in Nat
    BY KeysAreFinite, FS_Subset, FS_CardinalityType
<1>7. refs[key] >= 1 /\ (Unsubscribes(key) <=> refs[key] = 1)
    BY <1>4, <1>5, <1>6 DEF Unsubscribes
<1>8. (\E x \in Watchers \ {w} : watch[x] = "on" /\ WatchKey[x] = key) => ~Unsubscribes(key)
    <2> SUFFICES ASSUME NEW x \in Watchers \ {w}, watch[x] = "on" /\ WatchKey[x] = key
                 PROVE  ~Unsubscribes(key)
        OBVIOUS
    <2>1. Holders(key) \ {w} # {}
        BY <1>3
    <2>2. Cardinality(Holders(key) \ {w}) # 0
        BY <1>6, <2>1, FS_EmptySet
    <2> QED BY <1>4, <1>5, <1>6, <1>7, <2>2
<1>9. refs' = [refs EXCEPT ![key] = refs[key] - 1]
    <2>1. refs' = [refs EXCEPT ![key] = IF Unsubscribes(key) THEN 0 ELSE @ - 1]
        BY <1>1 DEF Unsubscribe
    <2>2. Unsubscribes(key) => refs[key] - 1 = 0
        BY <1>7
    <2> HIDE DEF key
    <2> QED BY <2>1, <2>2
<1>10. HeldInv'
    <2>1. watch' \in [Watchers -> {"new", "on", "done"}] /\ refs' \in [FeedKeys -> Nat]
        BY <1>1, <1>2, <1>5, <1>7, <1>9 DEF ReqInv, HeldInv
    <2>2. ASSUME NEW k \in FeedKeys PROVE refs'[k] = Cardinality(Holders(k)')
        <3>1. CASE k = key
            <4>1. Holders(key)' = Holders(key) \ {w}
                BY <1>1 DEF Holders, ReqInv, HeldInv
            <4>2. refs'[key] = refs[key] - 1
                BY <1>2, <1>9 DEF ReqInv, HeldInv
            <4> QED BY <1>4, <1>5, <3>1, <4>1, <4>2
        <3>2. CASE k # key
            <4>1. Holders(k)' = Holders(k)
                BY <1>1, <3>2 DEF Holders, ReqInv, HeldInv
            <4> QED BY <1>9, <3>2, <4>1 DEF ReqInv, HeldInv
        <3> QED BY <3>1, <3>2
    <2>3. handlers' \in [EventTypes -> SUBSET Watchers]
        BY <1>1 DEF ReqInv, HeldInv
    <2>4. ASSUME NEW x \in Watchers, NEW t \in EventTypes
          PROVE  x \in handlers'[t] <=> watch'[x] = "on" /\ t \in WatchTypes[x]
        BY <1>1 DEF ReqInv, HeldInv
    <2> QED BY <2>1, <2>2, <2>3, <2>4 DEF HeldInv
<1>11. CASE ~Unsubscribes(key)
    <2>1. UNCHANGED <<outQueue, outLevel, serverLevel, server, answers>> /\ sought' \subseteq sought
        BY <1>1, <1>11 DEF Unsubscribe
    <2>2. FeedWire' /\ \A k : Requested(k)' = Requested(k)
        BY <2>1 DEF FeedWire, Requested, ReqInv
    <2> QED BY <1>1, <1>10, <2>1, <2>2 DEF ReqInv, SoughtInv, Requested
<1>12. CASE Unsubscribes(key)
    <2> DEFINE m == [kind |-> "unsubscribe", id |-> 0, key |-> key]
    <2>1. Send(<<m>>) /\ sought' = sought \ {key}
        BY <1>1, <1>8, <1>12 DEF Unsubscribe
    <2>2. m \in Messages /\ m.kind = "unsubscribe" /\ m.key = key
        BY <1>2 DEF Messages
    <2> HIDE DEF m
    <2>3. <<m>> \in Seq(Messages) /\ Len(<<m>>) = 1 /\ <<m>>[1] = m
        BY <2>2
    <2>4. Sendable(<<m>>) /\ \A k \in FeedKeys : k # key => KeepsFrom(<<m>>, 1, k)
        BY <2>2, <2>3 DEF Sendable, KeepsFrom
    <2>5. FeedWire' /\ \A k \in FeedKeys : k # key /\ Requested(k) => Requested(k)'
        BY <2>1, <2>4, SendKeeps DEF ReqInv
    <2>6. SoughtInv'
        BY <1>1, <2>1, <2>5 DEF ReqInv, SoughtInv, Requested
    <2> QED BY <1>1, <1>10, <2>5, <2>6 DEF ReqInv
<1> QED BY <1>11, <1>12

LEMMA OnAnswerKeeps ==
    ASSUME ReqInv, OnAnswer
    PROVE  ReqInv'
<1> DEFINE a == Head(answers)
<1>1. /\ answers # <<>> /\ answers' = Tail(answers)
      /\ retries' = retries \cup RetryTimers(a)
      /\ sought' = IF a.code = "ok" \/ SendsAgain(a) \/ TracksAgain(a) THEN sought
                   ELSE sought \ {a.key}
      /\ UNCHANGED <<linkState, watch, handlers, refs, outQueue, outLevel, nextReq, server, serverLevel>>
    BY DEF OnAnswer
<1>2. /\ a \in Replies /\ a = answers[1] /\ Tail(answers) \in Seq(Replies)
      /\ Len(answers) \in Nat /\ Len(Tail(answers)) = Len(answers) - 1
      /\ \A i \in 1..Len(Tail(answers)) : Tail(answers)[i] = answers[i + 1]
    <2>1. answers \in Seq(Replies)
        BY DEF ReqInv, FeedWire
    <2> QED BY <1>1, <2>1
<1> HIDE DEF a
<1>3. HeldInv'
    BY <1>1 DEF ReqInv, HeldInv, Holders
<1>4. FeedWire'
    BY <1>1, <1>2 DEF ReqInv, FeedWire
<1>5. \A r \in RetryTimers(a) : r.id \in Nat /\ r.key \in FeedKeys
    BY <1>2 DEF RetryTimers, Replies
<1>6. SendsAgain(a) \/ TracksAgain(a) => \E r \in RetryTimers(a) : r.key = a.key
    <2>1. SendsAgain(a) => [id |-> a.id, key |-> a.key, attempt |-> 0] \in RetryTimers(a)
        BY DEF RetryTimers
    <2>2. TracksAgain(a) =>
              [id |-> 0, key |-> a.key, attempt |-> tracked[a.id].attempt + 1] \in RetryTimers(a)
        BY DEF RetryTimers
    <2> QED BY <2>1, <2>2
<1>7. ASSUME NEW k \in sought' PROVE Requested(k)' \/ \E r \in retries' : r.key = k
    <2>1. k \in sought /\ (k = a.key => a.code = "ok" \/ SendsAgain(a) \/ TracksAgain(a))
        BY <1>1
    <2>2. CASE \E r \in retries : r.key = k
        BY <1>1, <2>2
    <2>3. CASE (k \in server /\ KeepsFrom(outQueue, 1, k)) \/ AsksFor(outQueue, k)
        BY <1>1, <2>3 DEF Requested, UnderWay
    <2>4. CASE TurnsDown(answers, k)
        <3>1. PICK i \in 1..Len(answers) : answers[i].key = k /\ answers[i].code # "ok"
            BY <2>4 DEF TurnsDown
        <3>2. CASE i = 1
            BY <1>1, <1>2, <1>6, <2>1, <3>1, <3>2
        <3>3. CASE i # 1
            <4>1. i - 1 \in 1..Len(answers') /\ answers'[i - 1] = answers[i]
                BY <1>1, <1>2, <3>3
            <4> QED BY <3>1, <4>1 DEF Requested, UnderWay, TurnsDown
        <3> QED BY <3>2, <3>3
    <2> QED BY <2>1, <2>2, <2>3, <2>4 DEF ReqInv, SoughtInv, Requested, UnderWay
<1>8. SoughtInv'
    BY <1>1, <1>7 DEF ReqInv, SoughtInv, Requested
<1> QED BY <1>1, <1>3, <1>4, <1>5, <1>8 DEF ReqInv

\* Subscriptions sent for a set of keys: all of them are under way.
LEMMA SendTrackedKeeps ==
    ASSUME ReqInv, NEW keys, keys \subseteq FeedKeys, NEW attempt, SendTracked(keys, attempt)
    PROVE  /\ FeedWire' /\ nextReq' \in Nat \ {0}
           /\ \A k \in FeedKeys : Requested(k) => Requested(k)'
           /\ linkState # "down" => \A k \in keys : Requested(k)'
<1> DEFINE n == Cardinality(keys)
<1>1. n \in Nat
    BY KeysAreFinite, FS_Subset, FS_CardinalityType
<1> HIDE DEF n
<1>2. PICK order \in [1..n -> keys] :
          Range(order) = keys /\ nextReq' = nextReq + n /\ Send(Batch(nextReq, n, order))
    BY DEF SendTracked, Batch, n
<1>3. order \in [1..n -> FeedKeys] /\ nextReq \in Nat \ {0}
    BY <1>2 DEF ReqInv
<1>4. /\ Sendable(Batch(nextReq, n, order))
      /\ \A k \in FeedKeys : KeepsFrom(Batch(nextReq, n, order), 1, k)
      /\ \A k \in keys : AsksFor(Batch(nextReq, n, order), k)
    BY <1>1, <1>2, <1>3, BatchAsks
<1>5. /\ FeedWire'
      /\ \A k \in FeedKeys : Requested(k) => Requested(k)'
      /\ linkState # "down" => \A k \in keys : Requested(k)'
    BY <1>2, <1>4, SendKeeps DEF ReqInv
<1> QED BY <1>1, <1>2, <1>3, <1>5

LEMMA RetryFiresKeeps ==
    ASSUME ReqInv, NEW r, RetryFires(r)
    PROVE  ReqInv'
<1>1. /\ r \in retries /\ retries' = retries \ {r} /\ r.id \in Nat /\ r.key \in FeedKeys
      /\ UNCHANGED <<linkState, watch, handlers, refs>>
    BY DEF RetryFires, ReqInv
<1>2. HeldInv'
    BY <1>1 DEF ReqInv, HeldInv, Holders
<1>3. SUFFICES /\ FeedWire' /\ nextReq' \in Nat \ {0} /\ sought' \subseteq sought
               /\ \A k \in sought' : Requested(k) \/ k = r.key => Requested(k)'
    <2>1. SoughtInv'
        BY <1>1, <1>3 DEF ReqInv, SoughtInv, Requested
    <2> QED BY <1>1, <1>2, <1>3, <2>1 DEF ReqInv
<1>4. CASE r.id # 0 /\ r.id \in DOMAIN pending
    <2>1. Send(<<Subscription(r.id, r.key)>>) /\ UNCHANGED <<nextReq, sought>>
        BY <1>4 DEF RetryFires
    <2>2. /\ FeedWire' /\ \A k \in FeedKeys : Requested(k) => Requested(k)'
          /\ linkState # "down" => Requested(r.key)'
        BY <1>1, <1>4, <2>1, OneAsks, SendKeeps DEF ReqInv
    <2> QED BY <2>1, <2>2 DEF ReqInv, SoughtInv, Requested
<1>5. CASE r.id # 0 /\ r.id \notin DOMAIN pending
    <2>1. /\ UNCHANGED <<nextReq, outQueue, outLevel, serverLevel, server, answers>>
          /\ sought' = sought \ {r.key}
        BY <1>5 DEF RetryFires
    <2> QED BY <2>1 DEF ReqInv, FeedWire, Requested
<1>6. CASE r.id = 0
    <2>1. SendTracked({r.key}, r.attempt) /\ UNCHANGED sought
        BY <1>6 DEF RetryFires
    <2>2. /\ FeedWire' /\ nextReq' \in Nat \ {0}
          /\ \A k \in FeedKeys : Requested(k) => Requested(k)'
          /\ linkState # "down" => Requested(r.key)'
        BY <1>1, <2>1, SendTrackedKeeps
    <2> QED BY <2>1, <2>2 DEF ReqInv, SoughtInv, Requested
<1> QED BY <1>4, <1>5, <1>6

LEMMA DrainIntervalKeeps ==
    ASSUME ReqInv, DrainInterval
    PROVE  ReqInv'
<1>1. UNCHANGED <<linkState, watch, handlers, refs, retries, nextReq, sought>>
    BY DEF DrainInterval
<1>2. PICK leaked \in {0, 1} : Drain(outQueue, IF outLevel > 0 THEN outLevel - 1 ELSE 0,
                                     IF serverLevel > 0 THEN serverLevel - leaked ELSE 0)
    BY DEF DrainInterval
<1>3. /\ (IF outLevel > 0 THEN outLevel - 1 ELSE 0) \in Nat
      /\ (IF serverLevel > 0 THEN serverLevel - leaked ELSE 0) \in Nat
    BY DEF ReqInv, FeedWire
<1>4. FeedWire' /\ \A k \in FeedKeys : Requested(k) => Requested(k)'
    BY <1>2, <1>3, Drains DEF ReqInv, FeedWire, Requested
<1>5. HeldInv'
    BY <1>1 DEF ReqInv, HeldInv, Holders
<1> QED BY <1>1, <1>4, <1>5 DEF ReqInv, SoughtInv, Requested

LEMMA ReqStep ==
    ASSUME ReqInv, [FeedReqNext]_reqVars
    PROVE  ReqInv'
<1>1. CASE UNCHANGED reqVars
    BY <1>1 DEF reqVars, ReqInv, HeldInv, Holders, FeedWire, SoughtInv, Requested
<1>2. ASSUME NEW id, RequestTimesOut(id) PROVE ReqInv'
    BY <1>2 DEF RequestTimesOut, ReqInv, HeldInv, Holders, FeedWire, SoughtInv, Requested
<1>3. ASSUME /\ UNCHANGED <<watch, handlers, refs, retries, nextReq>>
             /\ outQueue' = <<>> /\ outLevel' = 0
             /\ server' = {} /\ serverLevel' = 0 /\ answers' = <<>> /\ sought' = {}
      PROVE  ReqInv'
    <2>1. HeldInv'
        BY <1>3 DEF ReqInv, HeldInv, Holders
    <2>2. FeedWire'
        <3>1. Sendable(<<>>) /\ <<>> \in Seq(Replies)
            BY EmptySeq DEF Sendable
        <3> QED BY <1>3, <3>1 DEF FeedWire
    <2> QED BY <1>3, <2>1, <2>2 DEF ReqInv, SoughtInv, Requested
<1>4. Opens \/ Closes \/ Disconnects => ReqInv'
    BY <1>3 DEF Opens, Closes, Disconnects
<1>5. CASE Welcomes
    <2> DEFINE held == {k \in FeedKeys : refs[k] > 0}
    <2>1. /\ linkState = "open" /\ linkState' = "welcomed"
          /\ UNCHANGED <<watch, handlers, refs, retries>>
        BY <1>5 DEF Welcomes
    <2>2. HeldInv'
        BY <2>1 DEF ReqInv, HeldInv, Holders
    <2>3. CASE closes > 0
        <3>1. SendTracked(held, 0) /\ sought' = sought \cup held
            BY <1>5, <2>3 DEF Welcomes
        <3>2. held \subseteq FeedKeys
            OBVIOUS
        <3> HIDE DEF held
        <3>3. /\ FeedWire' /\ nextReq' \in Nat \ {0}
              /\ \A k \in FeedKeys : Requested(k) => Requested(k)'
              /\ \A k \in held : Requested(k)'
            BY <2>1, <3>1, <3>2, SendTrackedKeeps
        <3>4. SoughtInv'
            BY <2>1, <3>1, <3>2, <3>3 DEF ReqInv, SoughtInv, Requested
        <3> QED BY <2>1, <2>2, <3>3, <3>4 DEF ReqInv
    <2>4. CASE ~(closes > 0)
        <3>1. UNCHANGED <<nextReq, outQueue, outLevel, serverLevel, server, answers, sought>>
            BY <1>5, <2>4 DEF Welcomes
        <3> QED BY <2>1, <2>2, <3>1 DEF ReqInv, FeedWire, SoughtInv, Requested
    <2> QED BY <2>3, <2>4
<1> QED BY <1>1, <1>2, <1>4, <1>5, WatchKeeps, TeardownKeeps, OnAnswerKeeps, RetryFiresKeeps,
        DrainIntervalKeeps DEF FeedReqNext

\* Once nothing is under way the server pushes for every watched key that was
\* asked for on this connection and not refused or given up, and frames reach
\* those who watch and nobody else: for any watchers, sharing keys in any way,
\* any rates and retries (subscriptions.js, pacing.js, event_frames.js).
THEOREM WatchersAreServed == FeedReqSpec => []HeldIsSubscribed
<1>1. FeedReqInit => ReqInv
    <2> SUFFICES ASSUME FeedReqInit PROVE ReqInv
        OBVIOUS
    <2>1. \A k : Holders(k) = {}
        BY DEF Holders, FeedReqInit
    <2>2. HeldInv
        BY <2>1, FS_EmptySet DEF HeldInv, FeedReqInit, EventTypes
    <2>3. FeedWire
        <3>1. Sendable(<<>>) /\ <<>> \in Seq(Replies)
            BY EmptySeq DEF Sendable
        <3> QED BY <3>1 DEF FeedWire, FeedReqInit
    <2> QED BY <2>2, <2>3 DEF FeedReqInit, ReqInv, SoughtInv
<1>2. ReqInv => HeldIsSubscribed
    <2> SUFFICES ASSUME ReqInv PROVE HeldIsSubscribed
        OBVIOUS
    <2>1. ASSUME outQueue = <<>>, answers = <<>>, retries = {}, NEW k \in sought PROVE k \in server
        <3>1. Len(<<>>) = 0 /\ 1..0 = {}
            BY EmptySeq
        <3>2. ~AsksFor(outQueue, k) /\ ~TurnsDown(answers, k)
            BY <2>1, <3>1 DEF AsksFor, TurnsDown
        <3> QED BY <2>1, <3>2 DEF ReqInv, SoughtInv, Requested, UnderWay
    <2>2. DOMAIN handlers = EventTypes
        BY DEF ReqInv, HeldInv
    <2>3. ASSUME NEW w \in Watchers, NEW t \in EventTypes
          PROVE  w \in Reached([type |-> t, names |-> {EntityOf[WatchKey[w]]}])
                     <=> watch[w] = "on" /\ t \in WatchTypes[w]
        BY DEF Reached, FrameIsFor, ReqInv, HeldInv
    <2> QED BY <2>1, <2>2, <2>3 DEF HeldIsSubscribed
<1> QED BY <1>1, <1>2, ReqStep, PTL DEF FeedReqSpec

-----------------------------------------------------------------------------
(* The Merkle trees: each recursive definition obeys its equation. *)

LEMMA EmptyObeys ==
    /\ Empty[0] = <<"empty">>
    /\ \A h \in 1..Depth : Empty[h] = NodeHash(Empty[h - 1], Empty[h - 1])
<1> DEFINE B(e, h) == IF h = 0 THEN <<"empty">> ELSE NodeHash(e[h - 1], e[h - 1])
           P == {n \in Nat : \E e : \A h \in 0..n : e[h] = B(e, h)}
<1>1. 0 \in P
    <2> DEFINE e == [h \in 0..0 |-> <<"empty">>]
    <2>1. \A h \in 0..0 : e[h] = B(e, h)
        OBVIOUS
    <2> HIDE DEF B, e
    <2> QED BY <2>1
<1>2. ASSUME NEW n \in Nat, n \in P PROVE n + 1 \in P
    <2>1. PICK e : \A h \in 0..n : e[h] = B(e, h)
        BY <1>2
    <2> DEFINE f == [h \in 0..(n + 1) |-> IF h <= n THEN e[h] ELSE NodeHash(e[n], e[n])]
    <2>2. \A h \in 0..(n + 1) : f[h] = B(f, h)
        BY <2>1
    <2> HIDE DEF B, f
    <2> QED BY <2>2
<1> HIDE DEF P
<1>3. Depth \in P
    BY <1>1, <1>2, Induct, DepthAssumption
<1>4. PICK d : \A h \in 0..Depth : d[h] = B(d, h)
    BY <1>3 DEF P
<1> DEFINE f == [h \in 0..Depth |-> d[h]]
<1>5. f = [h \in 0..Depth |-> B(f, h)]
    BY <1>4, DepthAssumption
<1> HIDE DEF f
<1>6. Empty = CHOOSE e : e = [h \in 0..Depth |-> B(e, h)]
    BY DEF Empty
<1>7. Empty = [h \in 0..Depth |-> B(Empty, h)]
    <2> HIDE DEF B
    <2> QED BY <1>5, <1>6, Zenon
<1> HIDE DEF NodeHash
<1> QED BY <1>7, DepthAssumption

\* The powers of two, and the index of a leaf halved on the way up.
LEMMA PowersObey ==
    ASSUME NEW N \in Nat
    PROVE  /\ Powers(N)[0] = 1
           /\ \A h \in 1..N : Powers(N)[h] = 2 * Powers(N)[h - 1]
<1> DEFINE B(e, h) == IF h = 0 THEN 1 ELSE 2 * e[h - 1]
           P == {n \in Nat : \E e : \A h \in 0..n : e[h] = B(e, h)}
<1>1. 0 \in P
    <2> DEFINE e == [h \in 0..0 |-> 1]
    <2>1. \A h \in 0..0 : e[h] = B(e, h)
        OBVIOUS
    <2> HIDE DEF B, e
    <2> QED BY <2>1
<1>2. ASSUME NEW n \in Nat, n \in P PROVE n + 1 \in P
    <2>1. PICK e : \A h \in 0..n : e[h] = B(e, h)
        BY <1>2
    <2> DEFINE f == [h \in 0..(n + 1) |-> IF h <= n THEN e[h] ELSE 2 * e[n]]
    <2>2. \A h \in 0..(n + 1) : f[h] = B(f, h)
        BY <2>1
    <2> HIDE DEF B, f
    <2> QED BY <2>2
<1> HIDE DEF P
<1>3. N \in P
    BY <1>1, <1>2, Induct
<1>4. PICK d : \A h \in 0..N : d[h] = B(d, h)
    BY <1>3 DEF P
<1> DEFINE f == [h \in 0..N |-> d[h]]
<1>5. f = [h \in 0..N |-> B(f, h)]
    BY <1>4
<1> HIDE DEF f
<1> DEFINE it == CHOOSE e : e = [h \in 0..N |-> B(e, h)]
<1>6. it = [h \in 0..N |-> B(it, h)]
    <2> HIDE DEF B
    <2> QED BY <1>5, Zenon
<1>7. Powers(N) = it
    BY DEF Powers
<1> HIDE DEF it
<1> QED BY <1>6, <1>7

LEMMA HalvedObeys ==
    ASSUME NEW N \in Nat, NEW index \in Nat
    PROVE  /\ Halved(index, N)[0] = index
           /\ \A h \in 0..N : Halved(index, N)[h] \in Nat
           /\ \A h \in 1..N : Halved(index, N)[h] = Halved(index, N)[h - 1] \div 2
<1> DEFINE B(e, h) == IF h = 0 THEN index ELSE e[h - 1] \div 2
           P == {n \in Nat : \E e : \A h \in 0..n : e[h] = B(e, h)}
<1>1. 0 \in P
    <2> DEFINE e == [h \in 0..0 |-> index]
    <2>1. \A h \in 0..0 : e[h] = B(e, h)
        OBVIOUS
    <2> HIDE DEF B, e
    <2> QED BY <2>1
<1>2. ASSUME NEW n \in Nat, n \in P PROVE n + 1 \in P
    <2>1. PICK e : \A h \in 0..n : e[h] = B(e, h)
        BY <1>2
    <2> DEFINE f == [h \in 0..(n + 1) |-> IF h <= n THEN e[h] ELSE e[n] \div 2]
    <2>2. \A h \in 0..(n + 1) : f[h] = B(f, h)
        BY <2>1
    <2> HIDE DEF B, f
    <2> QED BY <2>2
<1> HIDE DEF P
<1>3. N \in P
    BY <1>1, <1>2, Induct
<1>4. PICK d : \A h \in 0..N : d[h] = B(d, h)
    BY <1>3 DEF P
<1> DEFINE f == [h \in 0..N |-> d[h]]
<1>5. f = [h \in 0..N |-> B(f, h)]
    BY <1>4
<1> HIDE DEF f
<1> DEFINE it == CHOOSE e : e = [h \in 0..N |-> B(e, h)]
<1>6. it = [h \in 0..N |-> B(it, h)]
    <2> HIDE DEF B
    <2> QED BY <1>5, Zenon
<1>7. Halved(index, N) = it
    BY DEF Halved
<1> HIDE DEF it
<1>8. it[0] = index /\ \A h \in 1..N : it[h] = it[h - 1] \div 2
    BY <1>6
<1> DEFINE R == {n \in Nat : n <= N => it[n] \in Nat}
<1>9. 0 \in R /\ \A n \in Nat : n \in R => n + 1 \in R
    <2>1. 0 \in R
        BY <1>8
    <2>2. ASSUME NEW n \in Nat, n \in R, n + 1 <= N PROVE it[n + 1] \in Nat
        <3>1. it[n + 1] = it[n] \div 2 /\ it[n] \in Nat
            BY <1>8, <2>2
        <3> QED BY <3>1
    <2> QED BY <2>1, <2>2
<1> HIDE DEF R
<1>10. Nat \subseteq R
    BY <1>9, Induct
<1> QED BY <1>7, <1>8, <1>10 DEF R

\* Hashes tell apart what they are hashes of.
LEMMA NodesDiffer ==
    /\ \A a, b, f : NodeHash(a, b) # LeafHash(f)
    /\ \A a, b : NodeHash(a, b) # <<"empty">>
    /\ \A f : LeafHash(f) # <<"empty">>
    /\ \A f, g : LeafHash(f) = LeafHash(g) => f = g
BY DEF NodeHash, LeafHash

LEMMA NodeParts ==
    ASSUME NEW a, NEW b, NEW c, NEW d, NodeHash(a, b) = NodeHash(c, d)
    PROVE  a = c /\ b = d
BY DEF NodeHash

\* A path down from t[0]: bits[k] is the side that step k takes.
IsPath(t, bits, n) ==
    \A k \in 1..n : \E s : t[k - 1] = IF bits[k] = 0 THEN NodeHash(t[k], s) ELSE NodeHash(s, t[k])

\* What climbs up from a leaf is a path down to it.
LEMMA ClimbIsPath ==
    ASSUME NEW N \in Nat, NEW leaf, NEW bits, NEW siblings,
           NEW down, \A k \in 1..N : down[k] = bits[N - k + 1]
    PROVE  \E t : /\ t[0] = Climb(leaf, bits, siblings, N) /\ t[N] = leaf
                 /\ IsPath(t, down, N)
<1> DEFINE B(e, h) == IF h = 0 THEN leaf
                      ELSE IF bits[h] = 0 THEN NodeHash(e[h - 1], siblings[h])
                                          ELSE NodeHash(siblings[h], e[h - 1])
           P == {n \in Nat : \E e : \A h \in 0..n : e[h] = B(e, h)}
<1>1. 0 \in P
    <2> DEFINE e == [h \in 0..0 |-> leaf]
    <2>1. \A h \in 0..0 : e[h] = B(e, h)
        OBVIOUS
    <2> HIDE DEF B, e
    <2> QED BY <2>1
<1>2. ASSUME NEW n \in Nat, n \in P PROVE n + 1 \in P
    <2>1. PICK e : \A h \in 0..n : e[h] = B(e, h)
        BY <1>2
    <2> DEFINE f == [h \in 0..(n + 1) |-> IF h <= n THEN e[h] ELSE IF bits[n + 1] = 0
                                     THEN NodeHash(e[n], siblings[n + 1])
                                     ELSE NodeHash(siblings[n + 1], e[n])]
    <2>2. ASSUME NEW h \in 0..(n + 1) PROVE f[h] = B(f, h)
        <3> HIDE DEF NodeHash
        <3>1. CASE h = 0
            BY <2>1, <3>1
        <3>2. CASE h \in 1..n
            <4>1. h \in 0..n /\ h - 1 \in 0..n /\ h \in 0..(n + 1) /\ h # 0
                BY <3>2
            <4>2. f[h] = e[h] /\ f[h - 1] = e[h - 1] /\ e[h] = B(e, h)
                BY <2>1, <4>1
            <4> HIDE DEF f
            <4> QED BY <4>1, <4>2
        <3>3. CASE h = n + 1
            <4>1. f[n + 1 - 1] = e[n] /\ n + 1 # 0
                OBVIOUS
            <4>2. f[n + 1] = IF bits[n + 1] = 0 THEN NodeHash(e[n], siblings[n + 1])
                                              ELSE NodeHash(siblings[n + 1], e[n])
                OBVIOUS
            <4> HIDE DEF f
            <4> QED BY <3>3, <4>1, <4>2
        <3> QED BY <3>1, <3>2, <3>3
    <2> HIDE DEF B, f
    <2> QED BY <2>2
<1> HIDE DEF P
<1>3. N \in P
    BY <1>1, <1>2, Induct
<1>4. PICK d : \A h \in 0..N : d[h] = B(d, h)
    BY <1>3 DEF P
<1> DEFINE f == [h \in 0..N |-> d[h]]
<1>5. f = [h \in 0..N |-> B(f, h)]
    BY <1>4
<1> HIDE DEF f
<1> DEFINE it == CHOOSE e : e = [h \in 0..N |-> B(e, h)]
<1>6. it = [h \in 0..N |-> B(it, h)]
    <2> HIDE DEF B
    <2> QED BY <1>5, Zenon
<1>7. Climb(leaf, bits, siblings, N) = it[N]
    BY DEF Climb
<1> HIDE DEF it
<1>8. it[0] = leaf
    BY <1>6
<1> DEFINE t == [k \in 0..N |-> it[N - k]]
<1>9. ASSUME NEW k \in 1..N
      PROVE  \E s : t[k - 1] = IF bits[N - k + 1] = 0 THEN NodeHash(t[k], s) ELSE NodeHash(s, t[k])
    <2>1. N - k + 1 \in 0..N /\ N - k + 1 # 0 /\ (N - k + 1) - 1 = N - k /\ N - (k - 1) = N - k + 1
        OBVIOUS
    <2>2. it[N - k + 1] = B(it, N - k + 1)
        BY <1>6, <2>1
    <2>3. t[k - 1] = it[N - k + 1] /\ t[k] = it[N - k]
        BY <2>1
    <2> HIDE DEF NodeHash, t
    <2> QED BY <2>1, <2>2, <2>3
<1>10. t[0] = it[N] /\ t[N] = it[0]
    OBVIOUS
<1> HIDE DEF t
<1>11. IsPath(t, down, N)
    BY <1>9 DEF IsPath
<1> QED BY <1>7, <1>8, <1>10, <1>11

\* Hashes being free, two paths from one root that take the same sides meet the
\* same nodes.
LEMMA PathsAgree ==
    ASSUME NEW t, NEW u, NEW n \in Nat, NEW b, NEW c, t[0] = u[0],
           IsPath(t, b, n), IsPath(u, c, n), \A k \in 1..n : b[k] = c[k]
    PROVE  t[n] = u[n]
<1> DEFINE P == {m \in Nat : m <= n => t[m] = u[m]}
<1>1. 0 \in P
    OBVIOUS
<1>2. ASSUME NEW m \in Nat, m \in P, m + 1 <= n PROVE t[m + 1] = u[m + 1]
    <2>1. m + 1 \in 1..n /\ (m + 1) - 1 = m /\ t[m] = u[m] /\ b[m + 1] = c[m + 1]
        BY <1>2
    <2>2. PICK r : t[m] = IF b[m + 1] = 0 THEN NodeHash(t[m + 1], r) ELSE NodeHash(r, t[m + 1])
        BY <2>1 DEF IsPath
    <2>3. PICK s : u[m] = IF c[m + 1] = 0 THEN NodeHash(u[m + 1], s) ELSE NodeHash(s, u[m + 1])
        BY <2>1 DEF IsPath
    <2> HIDE DEF P
    <2>4. CASE b[m + 1] = 0
        <3>1. NodeHash(t[m + 1], r) = NodeHash(u[m + 1], s)
            BY <2>1, <2>2, <2>3, <2>4, Zenon
        <3> QED BY <3>1, NodeParts
    <2>5. CASE b[m + 1] # 0
        <3>1. NodeHash(r, t[m + 1]) = NodeHash(s, u[m + 1])
            BY <2>1, <2>2, <2>3, <2>5, Zenon
        <3> QED BY <3>1, NodeParts
    <2> QED BY <2>4, <2>5
<1>3. \A m \in Nat : m \in P => m + 1 \in P
    BY <1>2
<1> HIDE DEF P
<1>4. n \in P
    BY <1>1, <1>3, Induct
<1> QED BY <1>4 DEF P

\* The sparse tree.
LEMMA SmtNodesObey ==
    ASSUME NEW entries
    PROVE  /\ \A S \in SUBSET DOMAIN entries :
                 SmtNodes(entries)[0][S] = IF S = {} THEN Empty[0]
                                           ELSE entries[CHOOSE k \in S : TRUE]
           /\ \A h \in 1..Depth : \A S \in SUBSET DOMAIN entries :
                 SmtNodes(entries)[h][S] =
                     IF S = {} THEN Empty[h]
                     ELSE NodeHash(SmtNodes(entries)[h - 1][Going(S, Depth - h + 1, 0)],
                                   SmtNodes(entries)[h - 1][Going(S, Depth - h + 1, 1)])
<1> DEFINE C0 == [S \in SUBSET DOMAIN entries |->
                    IF S = {} THEN Empty[0] ELSE entries[CHOOSE k \in S : TRUE]]
           C(g, h) == [S \in SUBSET DOMAIN entries |->
                          IF S = {} THEN Empty[h]
                          ELSE NodeHash(g[Going(S, Depth - h + 1, 0)],
                                        g[Going(S, Depth - h + 1, 1)])]
<1> HIDE DEF C0, C
<1> DEFINE B(e, h) == IF h = 0 THEN C0 ELSE C(e[h - 1], h)
           P == {n \in Nat : \E e : \A h \in 0..n : e[h] = B(e, h)}
<1>1. 0 \in P
    <2> DEFINE e == [h \in 0..0 |-> C0]
    <2>1. \A h \in 0..0 : e[h] = B(e, h)
        OBVIOUS
    <2> HIDE DEF B, e
    <2> QED BY <2>1
<1>2. ASSUME NEW n \in Nat, n \in P PROVE n + 1 \in P
    <2>1. PICK e : \A h \in 0..n : e[h] = B(e, h)
        BY <1>2
    <2> DEFINE f == [h \in 0..(n + 1) |-> IF h <= n THEN e[h] ELSE C(e[n], n + 1)]
    <2>2. \A h \in 0..(n + 1) : f[h] = B(f, h)
        BY <2>1
    <2> HIDE DEF B, f
    <2> QED BY <2>2
<1> HIDE DEF P
<1>3. Depth \in P
    BY <1>1, <1>2, Induct, DepthAssumption
<1>4. PICK d : \A h \in 0..Depth : d[h] = B(d, h)
    BY <1>3 DEF P
<1> DEFINE f == [h \in 0..Depth |-> d[h]]
<1>5. f = [h \in 0..Depth |-> B(f, h)]
    BY <1>4, DepthAssumption
<1> HIDE DEF f
<1> DEFINE it == CHOOSE e : e = [h \in 0..Depth |-> B(e, h)]
<1>6. it = [h \in 0..Depth |-> B(it, h)]
    <2> HIDE DEF B
    <2> QED BY <1>5, Zenon
<1>7. SmtNodes(entries) = it
    BY DEF SmtNodes, C0, C
<1> HIDE DEF it
<1>8. it[0] = C0 /\ \A h \in 1..Depth : it[h] = C(it[h - 1], h)
    BY <1>6, DepthAssumption
<1>9. \A S \in SUBSET DOMAIN entries :
         it[0][S] = IF S = {} THEN Empty[0] ELSE entries[CHOOSE k \in S : TRUE]
    BY <1>8 DEF C0
<1>10. ASSUME NEW h \in 1..Depth, NEW S \in SUBSET DOMAIN entries
       PROVE  it[h][S] = IF S = {} THEN Empty[h]
                         ELSE NodeHash(it[h - 1][Going(S, Depth - h + 1, 0)],
                                       it[h - 1][Going(S, Depth - h + 1, 1)])
    <2>1. it[h] = C(it[h - 1], h)
        BY <1>8
    <2> QED BY <2>1 DEF C
<1> QED BY <1>7, <1>9, <1>10, Zenon

\* The fixed tree.
LEMMA FixedLayersObey ==
    ASSUME NEW leaves, NEW N \in Nat, N = Height(Len(leaves))
    PROVE  /\ \A i \in Nat : FixedLayers(leaves)[0][i] = IF i < Len(leaves) THEN leaves[i + 1]
                                                                         ELSE Empty[0]
           /\ \A h \in 1..N : \A i \in Nat :
                 FixedLayers(leaves)[h][i] = NodeHash(FixedLayers(leaves)[h - 1][2 * i],
                                                      FixedLayers(leaves)[h - 1][2 * i + 1])
<1> DEFINE C0 == [i \in Nat |-> IF i < Len(leaves) THEN leaves[i + 1] ELSE Empty[0]]
           C(g, h) == [i \in Nat |-> NodeHash(g[2 * i], g[2 * i + 1])]
<1> HIDE DEF C0, C
<1> DEFINE B(e, h) == IF h = 0 THEN C0 ELSE C(e[h - 1], h)
           P == {n \in Nat : \E e : \A h \in 0..n : e[h] = B(e, h)}
<1>1. 0 \in P
    <2> DEFINE e == [h \in 0..0 |-> C0]
    <2>1. \A h \in 0..0 : e[h] = B(e, h)
        OBVIOUS
    <2> HIDE DEF B, e
    <2> QED BY <2>1
<1>2. ASSUME NEW n \in Nat, n \in P PROVE n + 1 \in P
    <2>1. PICK e : \A h \in 0..n : e[h] = B(e, h)
        BY <1>2
    <2> DEFINE f == [h \in 0..(n + 1) |-> IF h <= n THEN e[h] ELSE C(e[n], n + 1)]
    <2>2. \A h \in 0..(n + 1) : f[h] = B(f, h)
        BY <2>1
    <2> HIDE DEF B, f
    <2> QED BY <2>2
<1> HIDE DEF P
<1>3. N \in P
    BY <1>1, <1>2, Induct
<1>4. PICK d : \A h \in 0..N : d[h] = B(d, h)
    BY <1>3 DEF P
<1> DEFINE f == [h \in 0..N |-> d[h]]
<1>5. f = [h \in 0..N |-> B(f, h)]
    BY <1>4
<1> HIDE DEF f
<1> DEFINE it == CHOOSE e : e = [h \in 0..N |-> B(e, h)]
<1>6. it = [h \in 0..N |-> B(it, h)]
    <2> HIDE DEF B
    <2> QED BY <1>5, Zenon
<1>7. FixedLayers(leaves) = it
    BY DEF FixedLayers, C0, C
<1> HIDE DEF it
<1>8. it[0] = C0 /\ \A h \in 1..N : it[h] = C(it[h - 1], h)
    BY <1>6
<1>9. \A i \in Nat : it[0][i] = IF i < Len(leaves) THEN leaves[i + 1] ELSE Empty[0]
    BY <1>8 DEF C0
<1>10. ASSUME NEW h \in 1..N, NEW i \in Nat
       PROVE  it[h][i] = NodeHash(it[h - 1][2 * i], it[h - 1][2 * i + 1])
    <2>1. it[h] = C(it[h - 1], h)
        BY <1>8
    <2> QED BY <2>1 DEF C
<1> QED BY <1>7, <1>9, <1>10, Zenon

\* Any key leads down the sparse tree to its value, or to the empty leaf.
LEMMA SmtPath ==
    ASSUME NEW entries, DOMAIN entries \subseteq Bits(Depth), NEW key \in Bits(Depth)
    PROVE  \E t : /\ t[0] = SmtRoot(entries)
                  /\ t[Depth] = IF key \in DOMAIN entries THEN entries[key] ELSE Empty[0]
                  /\ IsPath(t, key, Depth)
<1> DEFINE K == DOMAIN entries
           Along(k) == {e \in K : \A d \in 1..k : e[d] = key[d]}
           t == [k \in 0..Depth |-> SmtNodes(entries)[Depth - k][Along(k)]]
<1>1. Depth \in Nat /\ Depth - 0 = Depth /\ Depth - Depth = 0 /\ 0 \in 0..Depth /\ Depth \in 0..Depth
    BY DepthAssumption
<1>2. Along(0) = K
    OBVIOUS
<1>3. t[0] = SmtRoot(entries)
    BY <1>1, <1>2 DEF SmtRoot
<1>4. t[Depth] = IF key \in K THEN entries[key] ELSE Empty[0]
    <2>1. Along(Depth) = IF key \in K THEN {key} ELSE {}
        <3>1. ASSUME NEW e \in K, \A d \in 1..Depth : e[d] = key[d] PROVE e = key
            <4>1. e \in [1..Depth -> {0, 1}] /\ key \in [1..Depth -> {0, 1}]
                BY DEF Bits
            <4> HIDE DEF K
            <4>2. \A d \in 1..Depth : e[d] = key[d]
                BY <3>1
            <4>3. e = [d \in 1..Depth |-> e[d]] /\ key = [d \in 1..Depth |-> key[d]]
                BY <4>1
            <4>4. [d \in 1..Depth |-> e[d]] = [d \in 1..Depth |-> key[d]]
                BY <4>2
            <4> QED BY <4>3, <4>4, Zenon
        <3> QED BY <3>1
    <2>2. t[Depth] = SmtNodes(entries)[0][Along(Depth)]
        BY <1>1
    <2>3. Along(Depth) \in SUBSET K
        OBVIOUS
    <2>4. t[Depth] = IF Along(Depth) = {} THEN Empty[0] ELSE entries[CHOOSE k \in Along(Depth) : TRUE]
        BY <2>2, <2>3, SmtNodesObey
    <2> HIDE DEF t, Along
    <2>5. CASE key \in K
        <3>1. (CHOOSE k \in {key} : TRUE) = key
            OBVIOUS
        <3> QED BY <2>1, <2>4, <2>5, <3>1
    <2>6. CASE key \notin K
        BY <2>1, <2>4, <2>6
    <2> QED BY <2>5, <2>6
<1>5. ASSUME NEW k \in 1..Depth
      PROVE  \E s : t[k - 1] = IF key[k] = 0 THEN NodeHash(t[k], s) ELSE NodeHash(s, t[k])
    <2> DEFINE h == Depth - k + 1
               nodes == SmtNodes(entries)
    <2>1. /\ h \in 1..Depth /\ h - 1 = Depth - k /\ Depth - (k - 1) = h /\ Depth - h + 1 = k
          /\ k \in Nat /\ k - 1 \in 0..Depth /\ k \in 0..Depth
        BY DepthAssumption
    <2>2. t[k - 1] = nodes[h][Along(k - 1)] /\ t[k] = nodes[h - 1][Along(k)]
        BY <2>1
    <2> HIDE DEF t, h
    <2>3. key[k] \in {0, 1}
        BY DEF Bits
    <2>4. Along(k) = Going(Along(k - 1), k, key[k])
        <3>1. \A e : (\A d \in 1..k : e[d] = key[d])
                     <=> (\A d \in 1..(k - 1) : e[d] = key[d]) /\ e[k] = key[k]
            BY <2>1
        <3> QED BY <3>1 DEF Going
    <2>5. Along(k - 1) \in SUBSET K
        OBVIOUS
    <2> HIDE DEF Along
    <2>6. CASE Along(k - 1) = {}
        <3>1. Along(k) = {} /\ {} \in SUBSET K
            BY <2>4, <2>6 DEF Going
        <3>2. nodes[h][{}] = Empty[h] /\ Empty[h] = NodeHash(Empty[h - 1], Empty[h - 1])
            BY <2>1, <3>1, SmtNodesObey, EmptyObeys
        <3>3. nodes[h - 1][{}] = Empty[h - 1]
            <4>1. ASSUME NEW g \in 0..Depth PROVE nodes[g][{}] = Empty[g]
                <5>1. CASE g = 0
                    BY <3>1, <5>1, SmtNodesObey
                <5>2. CASE g \in 1..Depth
                    BY <3>1, <5>2, SmtNodesObey
                <5> QED BY <1>1, <5>1, <5>2
            <4>2. h - 1 \in 0..Depth
                BY <1>1, <2>1
            <4> QED BY <4>1, <4>2, Zenon
        <3>4. t[k - 1] = NodeHash(t[k], t[k])
            BY <2>2, <2>6, <3>1, <3>2, <3>3
        <3> QED BY <3>4
    <2>7. CASE Along(k - 1) # {}
        <3>1. nodes[h][Along(k - 1)] = NodeHash(nodes[h - 1][Going(Along(k - 1), k, 0)],
                                                nodes[h - 1][Going(Along(k - 1), k, 1)])
            BY <2>1, <2>5, <2>7, SmtNodesObey
        <3> HIDE DEF nodes
        <3>2. CASE key[k] = 0
            BY <2>2, <2>4, <3>1, <3>2
        <3>3. CASE key[k] = 1
            BY <2>2, <2>4, <3>1, <3>3
        <3> QED BY <2>3, <3>2, <3>3
    <2> QED BY <2>6, <2>7
<1> HIDE DEF t
<1>6. IsPath(t, key, Depth)
    BY <1>5 DEF IsPath
<1> QED BY <1>3, <1>4, <1>6

\* The height of the fixed tree over n leaves.
LEMMA HeightIs ==
    ASSUME NEW n \in Nat \ {0}
    PROVE  /\ Height(n) \in 0..n /\ Powers(n)[Height(n)] >= n
           /\ \A h \in 0..n : Powers(n)[h] \in Nat
<1> DEFINE p == Powers(n)
           R == {h \in Nat : h <= n => p[h] \in Nat /\ p[h] > h}
           T == {h \in 0..n : p[h] >= n}
<1>1. p[0] = 1 /\ \A h \in 1..n : p[h] = 2 * p[h - 1]
    BY PowersObey
<1> HIDE DEF p
<1>2. 0 \in R
    BY <1>1
<1>3. ASSUME NEW h \in Nat, h \in R, h + 1 <= n PROVE p[h + 1] \in Nat /\ p[h + 1] > h + 1
    <2>1. p[h + 1] = 2 * p[h] /\ p[h] \in Nat /\ p[h] > h
        BY <1>1, <1>3
    <2> QED BY <2>1
<1>4. \A h \in Nat : h \in R => h + 1 \in R
    BY <1>3
<1> HIDE DEF R
<1>5. Nat \subseteq R
    BY <1>2, <1>4, Induct
<1>6. \A h \in 0..n : p[h] \in Nat /\ p[h] > h
    BY <1>5 DEF R
<1>7. T \subseteq Nat /\ n \in T
    BY <1>6
<1>8. PICK h \in T : \A g \in T : h <= g
    BY <1>7, Least
<1>9. h \in 0..n /\ p[h] >= n /\ \A g \in 0..(h - 1) : p[g] < n
    BY <1>6, <1>8
<1>10. Height(n) \in 0..n /\ p[Height(n)] >= n
    <2>1. \E g \in 0..n : p[g] >= n /\ \A f \in 0..(g - 1) : p[f] < n
        BY <1>9
    <2>2. Height(n) = CHOOSE g \in 0..n : p[g] >= n /\ \A f \in 0..(g - 1) : p[f] < n
        BY Zenon DEF Height, p
    <2> QED BY <2>1, <2>2
<1> QED BY <1>6, <1>10 DEF p

LEMMA HeightOfFive == Height(5) = 3
<1> DEFINE p == Powers(5)
<1>1. p[0] = 1 /\ \A h \in 1..5 : p[h] = 2 * p[h - 1]
    BY PowersObey
<1> HIDE DEF p
<1>2. p[0] = 1 /\ p[1] = 2 /\ p[2] = 4 /\ p[3] = 8 /\ p[4] = 16 /\ p[5] = 32
    <2>1. p[1] = 2 * p[0] /\ p[2] = 2 * p[1] /\ p[3] = 2 * p[2] /\ p[4] = 2 * p[3] /\ p[5] = 2 * p[4]
        BY <1>1
    <2> QED BY <1>1, <2>1
<1> DEFINE Fits(h) == h \in 0..5 /\ p[h] >= 5 /\ \A g \in 0..(h - 1) : p[g] < 5
<1>3. Fits(3)
    <2>1. \A g \in 0..2 : g = 0 \/ g = 1 \/ g = 2
        OBVIOUS
    <2> QED BY <1>2, <2>1
<1>4. \A h : Fits(h) => h = 3
    <2> SUFFICES ASSUME NEW h, Fits(h), h # 3 PROVE FALSE
        OBVIOUS
    <2>1. h \in 0..2 \/ h \in 4..5
        OBVIOUS
    <2>2. CASE h \in 0..2
        BY <1>2, <2>2
    <2>3. CASE h \in 4..5
        <3>1. 3 \in 0..(h - 1)
            BY <2>3
        <3> QED BY <1>2, <3>1
    <2> QED BY <2>1, <2>2, <2>3
<1>5. Height(5) = CHOOSE h : Fits(h)
    BY DEF Height, p
<1> HIDE DEF Fits
<1> QED BY <1>3, <1>4, <1>5

\* The sides of the path to a leaf, from the top.
Sides(index, N) == [k \in 1..N |-> Halved(index, N)[N - k] % 2]

\* The fixed tree has a path down to each of its leaves.
LEMMA FixedPath ==
    ASSUME NEW leaves, Len(leaves) \in Nat \ {0}, leaves # <<>>,
           NEW index \in 0..(Len(leaves) - 1), NEW N, N = Height(Len(leaves))
    PROVE  \E t : t[0] = FixedMerkleRoot(leaves) /\ t[N] = leaves[index + 1]
                  /\ IsPath(t, Sides(index, N), N)
<1> DEFINE n == Len(leaves)
           p == Powers(n)
           at == Halved(index, N)
           layers == FixedLayers(leaves)
           t == [k \in 0..N |-> layers[N - k][at[N - k]]]
           R == {h \in Nat : h <= N => at[h] < p[N - h]}
<1>1. /\ n \in Nat /\ N \in 0..n /\ N \in Nat /\ p[N] >= n /\ (\A h \in 0..n : p[h] \in Nat)
      /\ p[0] = 1 /\ \A h \in 1..n : p[h] = 2 * p[h - 1]
    BY HeightIs, PowersObey
<1>2. /\ at[0] = index /\ (\A h \in 0..N : at[h] \in Nat)
      /\ \A h \in 1..N : at[h] = at[h - 1] \div 2
    BY <1>1, HalvedObeys
<1>3. /\ \A i \in Nat : layers[0][i] = IF i < n THEN leaves[i + 1] ELSE Empty[0]
      /\ \A h \in 1..N : \A i \in Nat :
            layers[h][i] = NodeHash(layers[h - 1][2 * i], layers[h - 1][2 * i + 1])
    <2>1. N \in Nat
        BY <1>1
    <2> QED BY <2>1, FixedLayersObey, Zenon
<1>4. FixedMerkleRoot(leaves) = layers[N][0]
    BY DEF FixedMerkleRoot
<1>5. Sides(index, N) = [k \in 1..N |-> at[N - k] % 2]
    BY DEF Sides
<1> HIDE DEF n, p, at, layers
\* The index stays within the layer, and is 0 at the top.
<1>6. 0 \in R
    BY <1>1, <1>2 DEF n
<1>7. ASSUME NEW h \in Nat, h \in R, h + 1 <= N PROVE at[h + 1] < p[N - (h + 1)]
    <2>1. /\ h + 1 \in 1..N /\ (h + 1) - 1 = h /\ N - h \in 1..n /\ (N - h) - 1 = N - (h + 1)
          /\ N - (h + 1) \in 0..n /\ h \in 0..N
        <3>1. N \in Nat /\ n \in Nat /\ N <= n
            BY <1>1
        <3>2. h \in Nat /\ h + 1 <= N
            BY <1>7
        <3> QED BY <3>1, <3>2
    <2>2. at[h + 1] = at[h] \div 2 /\ at[h] < p[N - h] /\ at[h] \in Nat
        <3>1. at[h + 1] = at[(h + 1) - 1] \div 2 /\ at[h] \in Nat
            BY <1>2, <2>1
        <3>2. at[h] < p[N - h]
            BY <1>7, <2>1
        <3> QED BY <2>1, <3>1, <3>2
    <2>3. p[N - h] = 2 * p[N - (h + 1)] /\ p[N - (h + 1)] \in Nat
        BY <1>1, <2>1
    <2> QED BY <2>2, <2>3
<1>8. \A h \in Nat : h \in R => h + 1 \in R
    BY <1>7
<1> HIDE DEF R
<1>9. N \in R
    BY <1>1, <1>6, <1>8, Induct
<1>10. at[N] = 0
    <2>1. at[N] < p[N - N] /\ N - N = 0 /\ at[N] \in Nat
        BY <1>1, <1>2, <1>9 DEF R
    <2> QED BY <1>1, <2>1
<1>11. t[0] = FixedMerkleRoot(leaves)
    <2>1. t[0] = layers[N][at[N]]
        BY <1>1
    <2> QED BY <1>4, <1>10, <2>1
<1>12. t[N] = leaves[index + 1]
    <2>1. t[N] = layers[0][at[0]]
        BY <1>1
    <2>2. index \in Nat /\ index < n
        BY <1>1 DEF n
    <2> QED BY <1>2, <1>3, <2>1, <2>2
<1>13. ASSUME NEW k \in 1..N
       PROVE  \E s : t[k - 1] = IF at[N - k] % 2 = 0 THEN NodeHash(t[k], s) ELSE NodeHash(s, t[k])
    <2> DEFINE h == N - k + 1
               i == at[h]
               j == at[h - 1]
    <2>1. /\ h \in 1..N /\ h - 1 = N - k /\ N - (k - 1) = h /\ h - 1 \in 0..N /\ h \in 0..N
          /\ k - 1 \in 0..N /\ k \in 0..N
        <3>1. N \in Nat
            BY <1>1
        <3> QED BY <3>1
    <2>2. t[k - 1] = layers[h][i] /\ t[k] = layers[h - 1][j]
        <3>1. t[k - 1] = layers[N - (k - 1)][at[N - (k - 1)]] /\ t[k] = layers[N - k][at[N - k]]
            BY <2>1
        <3> HIDE DEF t
        <3> QED BY <2>1, <3>1
    <2>3. i \in Nat /\ j \in Nat /\ i = j \div 2
        BY <1>2, <2>1
    <2>4. layers[h][i] = NodeHash(layers[h - 1][2 * i], layers[h - 1][2 * i + 1])
        BY <1>3, <2>1, <2>3
    <2>5. at[N - k] = j
        BY <2>1
    <2> HIDE DEF t, h, i, j
    <2>6. IF j % 2 = 0 THEN j = 2 * i ELSE j = 2 * i + 1
        BY <2>3
    <2>7. CASE j % 2 = 0
        BY <2>2, <2>4, <2>5, <2>6, <2>7
    <2>8. CASE j % 2 # 0
        BY <2>2, <2>4, <2>5, <2>6, <2>8
    <2> QED BY <2>7, <2>8
<1> HIDE DEF t
<1>14. IsPath(t, Sides(index, N), N)
    BY <1>5, <1>13 DEF IsPath
<1> QED BY <1>11, <1>12, <1>14

\* The first leaf is on the left of every pair.
LEMMA HalvedZero ==
    ASSUME NEW N \in Nat
    PROVE  \A h \in 0..N : Halved(0, N)[h] = 0
<1> DEFINE at == Halved(0, N)
           R == {h \in Nat : h <= N => at[h] = 0}
<1>1. at[0] = 0 /\ \A h \in 1..N : at[h] = at[h - 1] \div 2
    BY HalvedObeys
<1> HIDE DEF at
<1>2. 0 \in R
    BY <1>1
<1>3. ASSUME NEW h \in Nat, h \in R, h + 1 <= N PROVE at[h + 1] = 0
    <2>1. at[h + 1] = at[h] \div 2 /\ at[h] = 0
        BY <1>1, <1>3
    <2> QED BY <2>1
<1>4. \A h \in Nat : h \in R => h + 1 \in R
    BY <1>3
<1> HIDE DEF R
<1>5. Nat \subseteq R
    BY <1>2, <1>4, Induct
<1> QED BY <1>5 DEF R, at

\* What the verifiers accept is a path down from the root.
LEMMA FixedVerified ==
    ASSUME NEW root, NEW leaf, NEW proof, Len(proof.siblings) \in Nat, proof.index \in Nat,
           VerifyFixedMerkleProof(root, leaf, proof)
    PROVE  LET n == Len(proof.siblings)
           IN  \E t : t[0] = root /\ t[n] = leaf /\ IsPath(t, Sides(proof.index, n), n)
<1> DEFINE n == Len(proof.siblings)
           at == Halved(proof.index, n)
           bits == [h \in 1..n |-> at[h - 1] % 2]
           beside == proof.siblings
           down == Sides(proof.index, n)
<1>1. root = Climb(leaf, bits, beside, n)
    BY DEF VerifyFixedMerkleProof
<1>2. \A k \in 1..n : down[k] = bits[n - k + 1]
    <2>1. ASSUME NEW k \in 1..n PROVE bits[n - k + 1] = at[n - k] % 2
        <3> HIDE DEF n, at
        <3>1. n \in Nat
            BY DEF n
        <3>2. n - k + 1 \in 1..n /\ (n - k + 1) - 1 = n - k
            BY <3>1
        <3> QED BY <3>2
    <2> HIDE DEF bits
    <2> QED BY <2>1 DEF Sides
<1>3. n \in Nat
    OBVIOUS
<1> HIDE DEF bits, n, beside, down
<1>4. \E t : t[0] = Climb(leaf, bits, beside, n) /\ t[n] = leaf /\ IsPath(t, down, n)
    BY <1>2, <1>3, ClimbIsPath, ZenonT(60)
<1> QED BY <1>1, <1>4 DEF n, down

LEMMA SmtVerified ==
    ASSUME NEW root, NEW key \in Bits(Depth), NEW leaf, NEW compressed,
           VerifyCompressedSmtProof(root, key, leaf, compressed)
    PROVE  \E t : /\ t[0] = root /\ t[Depth] = IF leaf = Undefined THEN Empty[0] ELSE leaf
                  /\ IsPath(t, key, Depth)
<1> DEFINE siblings == DecompressSmtProof(compressed)
           ends == IF leaf = Undefined THEN Empty[0] ELSE leaf
           up(path) == [h \in 1..Depth |-> path[Depth - h + 1]]
           bits == up(key)
           beside == up(siblings)
<1>1. root = Climb(ends, bits, beside, Depth)
    BY DEF VerifyCompressedSmtProof, VerifySmtProof
<1> HIDE DEF beside, ends
<1>2. ASSUME NEW k \in 1..Depth PROVE key[k] = bits[Depth - k + 1]
    <2>1. Depth - k + 1 \in 1..Depth /\ Depth - (Depth - k + 1) + 1 = k
        BY DepthAssumption
    <2> QED BY <2>1
<1> HIDE DEF bits
<1>3. Depth \in Nat
    BY DepthAssumption
<1>4. \E t : t[0] = Climb(ends, bits, beside, Depth) /\ t[Depth] = ends /\ IsPath(t, key, Depth)
    BY <1>2, <1>3, ClimbIsPath, ZenonT(60)
<1> QED BY <1>1, <1>4 DEF ends

\* A path that stays left for n steps, at least 3, and then follows a key ends
\* in that key's own leaf if the sparse tree hangs 3 steps below the root: of
\* another length it would run past the leaves.
LEMMA LeafFound ==
    ASSUME NEW entries, DOMAIN entries \subseteq Bits(Depth), NEW key \in Bits(Depth),
           \A k \in DOMAIN entries : \A a, b : entries[k] # NodeHash(a, b),
           NEW t, t[3] = SmtRoot(entries), NEW b, \A k \in 1..3 : b[k] = 0, IsPath(t, b, 3),
           NEW n \in Nat, n >= 3, NEW u, u[0] = t[0],
           NEW c, \A k \in 1..n : c[k] = 0, IsPath(u, c, n),
           NEW w, w[0] = u[n], IsPath(w, key, Depth)
    PROVE  w[Depth] = IF key \in DOMAIN entries THEN entries[key] ELSE Empty[0]
<1> DEFINE key2 == [k \in 1..Depth |-> IF k <= n - 3 THEN 0 ELSE key[k - (n - 3)]]
           y == [k \in 0..Depth |-> IF k + 3 <= n THEN u[k + 3] ELSE w[k + 3 - n]]
<1>1. Depth \in Nat /\ Depth >= 1
    BY DepthAssumption
<1>2. \A k \in 1..Depth : key[k] \in {0, 1}
    BY DEF Bits
<1>3. key2 \in Bits(Depth)
    <2>1. ASSUME NEW k \in 1..Depth PROVE key2[k] \in {0, 1}
        <3>1. k > n - 3 => k - (n - 3) \in 1..Depth
            BY <1>1
        <3> QED BY <1>2, <3>1
    <2>2. DOMAIN key2 = 1..Depth /\ key2 = [k \in 1..Depth |-> key2[k]]
        OBVIOUS
    <2> HIDE DEF key2
    <2> QED BY <2>1, <2>2 DEF Bits
<1>4. PICK x : /\ x[0] = SmtRoot(entries)
               /\ x[Depth] = IF key2 \in DOMAIN entries THEN entries[key2] ELSE Empty[0]
               /\ IsPath(x, key2, Depth)
    <2> HIDE DEF key2
    <2> QED BY <1>3, SmtPath
<1>5. u[3] = t[3]
    <2>1. IsPath(u, c, 3)
        <3>1. \A k \in 1..3 : k \in 1..n
            OBVIOUS
        <3> QED BY <3>1 DEF IsPath
    <2>2. \A k \in 1..3 : b[k] = c[k]
        OBVIOUS
    <2> QED BY <2>1, <2>2, PathsAgree
<1>6. y[0] = x[0]
    BY <1>1, <1>4, <1>5
<1>7. ASSUME NEW k \in 1..Depth
      PROVE  \E s : y[k - 1] = IF key2[k] = 0 THEN NodeHash(y[k], s) ELSE NodeHash(s, y[k])
    <2>1. k \in Nat /\ k >= 1 /\ k <= Depth /\ k - 1 \in 0..Depth /\ k \in 0..Depth
        BY <1>1
    <2>2. CASE k + 3 <= n
        <3>1. k + 3 \in 1..n /\ (k + 3) - 1 = (k - 1) + 3 /\ (k - 1) + 3 <= n /\ k <= n - 3
            BY <2>1, <2>2
        <3>2. y[k - 1] = u[(k + 3) - 1] /\ y[k] = u[k + 3] /\ key2[k] = 0
            BY <2>1, <3>1
        <3>3. c[k + 3] = 0
            BY <3>1
        <3> HIDE DEF y, key2
        <3>4. PICK s : u[(k + 3) - 1] = IF c[k + 3] = 0 THEN NodeHash(u[k + 3], s)
                                                       ELSE NodeHash(s, u[k + 3])
            BY <3>1 DEF IsPath
        <3> QED BY <3>2, <3>3, <3>4
    <2>3. CASE ~(k + 3 <= n)
        <3> DEFINE j == k + 3 - n
        <3>1. j \in 1..Depth /\ k - (n - 3) = j /\ ~(k <= n - 3)
            BY <1>1, <2>1, <2>3
        <3>2. y[k] = w[j] /\ key2[k] = key[j]
            BY <2>1, <2>3, <3>1
        <3>3. y[k - 1] = w[j - 1]
            <4>1. CASE (k - 1) + 3 <= n
                <5>1. j - 1 = 0 /\ (k - 1) + 3 = n
                    BY <2>1, <2>3, <4>1
                <5> QED BY <2>1, <4>1, <5>1
            <4>2. CASE ~((k - 1) + 3 <= n)
                <5>1. (k - 1) + 3 - n = j - 1
                    BY <2>1
                <5> QED BY <2>1, <4>2, <5>1
            <4> QED BY <4>1, <4>2
        <3> HIDE DEF y, key2, j
        <3>4. PICK s : w[j - 1] = IF key[j] = 0 THEN NodeHash(w[j], s) ELSE NodeHash(s, w[j])
            BY <3>1 DEF IsPath
        <3> QED BY <3>2, <3>3, <3>4
    <2> QED BY <2>2, <2>3
<1>8. y[Depth] = x[Depth]
    <2> HIDE DEF y, key2
    <2>1. IsPath(y, key2, Depth)
        BY <1>7 DEF IsPath
    <2> QED BY <1>1, <1>4, <1>6, <2>1, PathsAgree
<1>9. \A p, q : x[Depth] # NodeHash(p, q)
    <2> HIDE DEF key2
    <2> QED BY <1>4, EmptyObeys, NodesDiffer
<1>10. ASSUME n # 3 PROVE \E p, q : y[Depth] = NodeHash(p, q)
    <2>1. CASE Depth + 3 < n
        <3>1. Depth + 4 \in 1..n /\ (Depth + 4) - 1 = Depth + 3
            BY <1>1, <2>1
        <3>2. PICK s : u[(Depth + 4) - 1] = IF c[Depth + 4] = 0 THEN NodeHash(u[Depth + 4], s)
                                                               ELSE NodeHash(s, u[Depth + 4])
            BY <3>1 DEF IsPath
        <3>3. y[Depth] = u[Depth + 3]
            BY <1>1, <2>1
        <3> HIDE DEF y
        <3> QED BY <3>1, <3>2, <3>3
    <2>2. CASE ~(Depth + 3 < n)
        <3> DEFINE j == Depth + 4 - n
        <3>1. j \in 1..Depth
            BY <1>1, <1>10, <2>2
        <3>2. PICK s : w[j - 1] = IF key[j] = 0 THEN NodeHash(w[j], s) ELSE NodeHash(s, w[j])
            BY <3>1 DEF IsPath
        <3>3. y[Depth] = w[j - 1]
            <4>1. CASE Depth + 3 = n
                <5>1. j - 1 = 0 /\ Depth + 3 <= n
                    BY <1>1, <4>1
                <5> QED BY <1>1, <4>1, <5>1
            <4>2. CASE Depth + 3 # n
                <5>1. Depth + 3 - n = j - 1 /\ ~(Depth + 3 <= n)
                    BY <1>1, <2>2, <4>2
                <5> QED BY <1>1, <5>1
            <4> QED BY <4>1, <4>2
        <3> HIDE DEF y, j
        <3> QED BY <3>2, <3>3
    <2> QED BY <2>1, <2>2
<1> HIDE DEF y, key2
<1>11. n = 3
    BY <1>8, <1>9, <1>10
<1>12. key2 = key
    <2>1. \A k \in 1..Depth : key2[k] = key[k]
        BY <1>1, <1>11 DEF key2
    <2>2. key2 = [k \in 1..Depth |-> key2[k]] /\ key = [k \in 1..Depth |-> key[k]]
        BY <1>3 DEF Bits
    <2> QED BY <2>1, <2>2
<1>13. y[Depth] = w[Depth]
    <2>1. Depth \in 0..Depth /\ ~(Depth + 3 <= n) /\ Depth + 3 - n = Depth
        BY <1>1, <1>11
    <2> QED BY <2>1 DEF y
<1> QED BY <1>4, <1>8, <1>12, <1>13

LEMMA SidesZero ==
    ASSUME NEW N \in Nat
    PROVE  \A k \in 1..N : Sides(0, N)[k] = 0
<1> SUFFICES ASSUME NEW k \in 1..N PROVE Halved(0, N)[N - k] % 2 = 0
    BY DEF Sides
<1>1. N - k \in 0..N
    OBVIOUS
<1>2. Halved(0, N)[N - k] = 0
    BY <1>1, HalvedZero
<1> QED BY <1>2

\* The balances hang three steps below the state root, always on the left.
LEMMA BalancesPath ==
    ASSUME NEW subRoots, "balances" \in DOMAIN subRoots
    PROVE  \E t : /\ t[0] = StateRoot(subRoots) /\ t[3] = subRoots["balances"]
                  /\ IsPath(t, Sides(0, 3), 3)
<1> DEFINE leaves == StateLeaves(subRoots)
<1>1. /\ Len(leaves) = 5 /\ leaves # <<>>
      /\ leaves[1] = subRoots["balances"]
    BY DEF StateLeaves, StateSubtrees
<1>2. StateRoot(subRoots) = FixedMerkleRoot(leaves)
    BY DEF StateRoot
<1> HIDE DEF leaves
<1>3. 3 = Height(Len(leaves))
    BY <1>1, HeightOfFive
<1>4. /\ Len(leaves) \in Nat \ {0} /\ 0 \in 0..(Len(leaves) - 1) /\ leaves[0 + 1] = leaves[1]
    BY <1>1
<1>5. \E t : t[0] = FixedMerkleRoot(leaves) /\ t[3] = leaves[0 + 1] /\ IsPath(t, Sides(0, 3), 3)
    BY <1>1, <1>3, <1>4, FixedPath
<1> QED BY <1>1, <1>2, <1>4, <1>5

LEMMA BalancesFirst == SlotOf("balances") = 0
<1> DEFINE Fits(i) == i \in 1..5 /\ StateSubtrees[i] = "balances"
           slot == CHOOSE i : Fits(i)
<1>1. \A i : Fits(i) <=> i = 1
    <2>1. \A i \in 1..5 : i = 1 \/ i = 2 \/ i = 3 \/ i = 4 \/ i = 5
        OBVIOUS
    <2> QED BY <2>1 DEF StateSubtrees
<1>2. SlotOf("balances") = slot - 1
    BY DEF SlotOf
<1>3. slot = 1
    <2> HIDE DEF Fits
    <2> QED BY <1>1
<1> HIDE DEF slot
<1> QED BY <1>2, <1>3

\* A member proof verifies for one leaf only: the one at its index.
LEMMA MemberFound ==
    ASSUME NEW leaves, Len(leaves) \in Nat \ {0}, leaves # <<>>,
           NEW index \in 0..(Len(leaves) - 1), NEW leaf,
           VerifyFixedMerkleProof(FixedMerkleRoot(leaves), leaf, FixedMerkleProof(leaves, index))
    PROVE  leaf = leaves[index + 1]
<1> DEFINE proof == FixedMerkleProof(leaves, index)
           top == Height(Len(leaves))
<1>1. top \in Nat
    BY HeightIs
<1>2. Len(proof.siblings) = top /\ proof.index = index
    BY <1>1 DEF FixedMerkleProof
<1>3. index \in Nat /\ Len(proof.siblings) \in Nat
    BY <1>1, <1>2
<1>4. \E t : t[0] = FixedMerkleRoot(leaves) /\ t[top] = leaf /\ IsPath(t, Sides(index, top), top)
    <2> DEFINE root == FixedMerkleRoot(leaves)
    <2> HIDE DEF proof, top, root
    <2>1. VerifyFixedMerkleProof(root, leaf, proof)
        BY DEF proof, root
    <2>2. \E t : /\ t[0] = root /\ t[Len(proof.siblings)] = leaf
                 /\ IsPath(t, Sides(proof.index, Len(proof.siblings)), Len(proof.siblings))
        BY <1>2, <1>3, <2>1, FixedVerified
    <2> QED BY <1>2, <2>2 DEF root
<1>5. \E t : t[0] = FixedMerkleRoot(leaves) /\ t[top] = leaves[index + 1]
             /\ IsPath(t, Sides(index, top), top)
    BY FixedPath
<1> DEFINE sides == Sides(index, top)
<1> HIDE DEF top, sides
<1>6. PICK t : t[0] = FixedMerkleRoot(leaves) /\ t[top] = leaf /\ IsPath(t, sides, top)
    BY <1>4 DEF sides
<1>7. PICK u : /\ u[0] = FixedMerkleRoot(leaves) /\ u[top] = leaves[index + 1]
               /\ IsPath(u, sides, top)
    BY <1>5 DEF sides
<1>8. t[top] = u[top]
    <2>1. t[0] = u[0]
        BY <1>6, <1>7
    <2> QED BY <1>1, <1>6, <1>7, <2>1, PathsAgree
<1> QED BY <1>6, <1>7, <1>8

-----------------------------------------------------------------------------
(* The light client: what is signed. *)

\* The stake of the addresses some validators sign for, as a total.
StakeAt == [src \in {SourceOf[v] : v \in DOMAIN SourceOf} |-> WeightOf[src]]

LEMMA StakeIsTotal ==
    ASSUME NEW members, members \subseteq DOMAIN SourceOf
    PROVE  LET sources == {SourceOf[v] : v \in members}
           IN  /\ StakeOf(members) = Total(StakeAt, sources)
               /\ IsFiniteSet(sources)
               /\ \A x \in sources : StakeAt[x] \in Nat
<1> DEFINE sources == {SourceOf[v] : v \in members}
           g == [x \in sources |-> WeightOf[x]]
<1>1. IsFiniteSet(members)
    BY FaultyAssumption, FS_Subset
<1>2. IsFiniteSet(sources)
    <2> DEFINE f == [v \in members |-> SourceOf[v]]
    <2>1. f \in Surjection(members, sources)
        BY DEF Surjection
    <2> HIDE DEF f, sources
    <2> QED BY <1>1, <2>1, FS_Surjection
<1>3. /\ sources \subseteq DOMAIN StakeAt
      /\ \A x \in sources : StakeAt[x] = WeightOf[x] /\ WeightOf[x] \in Nat /\ g[x] = StakeAt[x]
    BY FaultyAssumption DEF StakeAt
<1>4. StakeOf(members) = Total(g, sources)
    <2> DEFINE B(h, s) == IF s = {} THEN 0
                          ELSE WeightOf[CHOOSE x \in s : TRUE] + h[s \ {CHOOSE x \in s : TRUE}]
    <2>1. ASSUME NEW h
          PROVE  [s \in SUBSET sources |-> Unfold(g, h, s)] = [s \in SUBSET sources |-> B(h, s)]
        <3>1. ASSUME NEW s \in SUBSET sources PROVE Unfold(g, h, s) = B(h, s)
            <4>1. s # {} => (CHOOSE x \in s : TRUE) \in sources
                OBVIOUS
            <4> QED BY <4>1 DEF Unfold, Pick
        <3> QED BY <3>1
    <2>2. (CHOOSE h : Folds(h, g, sources))
          = CHOOSE h : h = [s \in SUBSET sources |-> B(h, s)]
        BY <2>1, Zenon DEF Folds
    <2>3. StakeOf(members) = (CHOOSE h : h = [s \in SUBSET sources |-> B(h, s)])[sources]
        BY DEF StakeOf, MapThenSumSet, MapThenFoldSet
    <2> QED BY <2>2, <2>3 DEF Total
<1>5. \A x \in sources : StakeAt[x] \in Int /\ g[x] = StakeAt[x]
    BY <1>3
<1> HIDE DEF g, sources
<1>6. Total(g, sources) = Total(StakeAt, sources)
    BY <1>2, <1>5, TotalSame
<1> QED BY <1>2, <1>3, <1>4, <1>6 DEF sources

\* More validators have no less stake.
LEMMA StakeMore ==
    ASSUME NEW members, members \subseteq DOMAIN SourceOf, NEW signers, signers \subseteq members
    PROVE  /\ StakeOf(signers) \in Nat /\ StakeOf(members) \in Nat
           /\ StakeOf(signers) <= StakeOf(members)
<1> DEFINE few == {SourceOf[v] : v \in signers}
           many == {SourceOf[v] : v \in members}
<1>1. few \subseteq many /\ signers \subseteq DOMAIN SourceOf
    OBVIOUS
<1>2. /\ StakeOf(members) = Total(StakeAt, many) /\ IsFiniteSet(many)
      /\ \A x \in many : StakeAt[x] \in Nat
    BY StakeIsTotal
<1>3. StakeOf(signers) = Total(StakeAt, few)
    BY <1>1, StakeIsTotal
<1> HIDE DEF few, many
<1> QED BY <1>1, <1>2, <1>3, TotalMore

LEMMA StakesAreOfBtc == "BTC" \in DOMAIN TrueState
BY CheckpointsAssumption DEF Presented

\* A quorum of the validators in force at a block of BTC holds an honest one.
LEMMA HonestByStake ==
    ASSUME NEW h \in DOMAIN TrueState["BTC"], NEW members, NEW signers,
           members \subseteq MembersAt(h), StakeOf(members) = StakeOf(MembersAt(h)),
           MeetsStakeThreshold(members, signers)
    PROVE  \E v \in signers : v \notin Faulty
<1> SUFFICES ASSUME signers \subseteq Faulty PROVE FALSE
    OBVIOUS
<1>1. MembersAt(h) \subseteq DOMAIN SourceOf
    BY StakesAreOfBtc, CheckpointsAssumption, FaultyAssumption DEF MembersAt
<1>2. signers \cap members \subseteq MembersAt(h) \cap Faulty
    OBVIOUS
<1>3. MembersAt(h) \cap Faulty \subseteq DOMAIN SourceOf
    BY <1>1
<1>4. /\ StakeOf(signers \cap members) \in Nat /\ StakeOf(MembersAt(h) \cap Faulty) \in Nat
      /\ StakeOf(signers \cap members) <= StakeOf(MembersAt(h) \cap Faulty)
    BY <1>2, <1>3, StakeMore
<1>5. StakeOf(MembersAt(h)) \in Nat
    BY <1>1, StakeMore
<1>6. 3 * StakeOf(MembersAt(h) \cap Faulty) <= 2 * StakeOf(MembersAt(h))
    BY FaultyAssumption
<1>7. 3 * StakeOf(signers \cap members) > 2 * StakeOf(MembersAt(h))
    BY DEF MeetsStakeThreshold
<1> HIDE DEF StakeOf, MembersAt
<1> QED BY <1>4, <1>5, <1>6, <1>7

\* A checkpoint about what some served one is about.
KnownCheckpoint(cp) ==
    IsCheckpoint(cp) /\ \E c \in Presented : c.chain = cp.chain /\ c.height = cp.height /\ c.snapshot = cp.snapshot

LEMMA HonestByQuorum ==
    ASSUME NEW cp, KnownCheckpoint(cp), NEW h \in {cp.snapshot, Pinned.height},
           VerifyCheckpoint(cp, MembersAt(h))
    PROVE  \E v \in Signers(cp, MembersAt(h)) : v \notin Faulty
<1>1. h \in DOMAIN TrueState["BTC"]
    BY CheckpointsAssumption DEF Presented, KnownCheckpoint
<1>2. CASE ActiveAt("weighted", cp.snapshot)
    <2>1. MeetsStakeThreshold(MembersAt(h), Signers(cp, MembersAt(h)))
        BY <1>2 DEF VerifyCheckpoint
    <2> QED BY <1>1, <2>1, HonestByStake
<1>3. CASE ~ActiveAt("weighted", cp.snapshot)
    <2>1. SUFFICES ASSUME Signers(cp, MembersAt(h)) \subseteq Faulty PROVE FALSE
        OBVIOUS
    <2>2. Signers(cp, MembersAt(h)) \subseteq MembersAt(h) \cap Faulty
        BY <2>1 DEF Signers
    <2>3. IsFiniteSet(MembersAt(h))
        BY <1>1, StakesAreOfBtc, CheckpointsAssumption, FaultyAssumption, FS_Subset DEF MembersAt
    <2>4. IsFiniteSet(MembersAt(h) \cap Faulty)
        BY <2>3, FS_Subset
    <2>5. /\ Cardinality(Signers(cp, MembersAt(h))) <= Cardinality(MembersAt(h) \cap Faulty)
          /\ Cardinality(MembersAt(h) \cap Faulty) \in Nat
          /\ Cardinality(MembersAt(h)) \in Nat
          /\ Cardinality(Signers(cp, MembersAt(h))) \in Nat
        BY <2>2, <2>3, <2>4, FS_Subset, FS_CardinalityType
    <2>6. Cardinality(MembersAt(h) \cap Faulty) < Quorum(Cardinality(MembersAt(h)))
        BY <1>3, FaultyAssumption DEF KnownCheckpoint
    <2>7. Cardinality(Signers(cp, MembersAt(h))) >= Quorum(Cardinality(MembersAt(h)))
        BY <1>3 DEF VerifyCheckpoint
    <2>8. Quorum(Cardinality(MembersAt(h))) \in Int
        BY <2>5 DEF Quorum
    <2> HIDE DEF Quorum, MembersAt, Signers
    <2> QED BY <2>5, <2>6, <2>7, <2>8
<1> QED BY <1>2, <1>3

\* The signed fields of a checkpoint.
LEMMA CanonicalKeeps ==
    ASSUME NEW cp, IsCheckpoint(cp)
    PROVE  LET signed == CanonicalCheckpoint(cp)
           IN  /\ signed.chain = cp.chain /\ signed.height = cp.height
               /\ signed.snapshot = cp.snapshot
               /\ signed.state = IF CommitmentActive(cp) THEN cp.state ELSE Undefined
               /\ signed.super = IF ActiveAt("supersede", cp.snapshot) THEN cp.super ELSE Undefined
BY DEF CanonicalCheckpoint, IsCheckpoint

\* What an honest validator signs with its roots and its supersession is the
\* chain's own.
LEMMA SignedIsTrue ==
    ASSUME NEW cp, IsCheckpoint(cp), NEW v, v \notin Faulty, VerifySignature(cp, v),
           CommitmentActive(cp), ~SupersessionDisallowed(cp)
    PROVE  IsTrue(cp)
<1>1. PICK true \in Checkpoints : IsTrue(true) /\ CanonicalCheckpoint(true) = CanonicalCheckpoint(cp)
    BY DEF VerifySignature
<1>2. IsCheckpoint(true)
    BY CheckpointsAssumption DEF Presented
<1>5. /\ true.chain = cp.chain /\ true.height = cp.height /\ true.snapshot = cp.snapshot
      /\ CommitmentActive(true)
      /\ true.state = cp.state
    BY <1>1, <1>2, CanonicalKeeps DEF CommitmentActive
<1>6. cp.super = Undefined
    <2>1. CASE cp.super # Undefined
        <3>1. ActiveAt("supersede", cp.snapshot)
            BY <2>1 DEF SupersessionDisallowed
        <3> QED BY <1>1, <1>2, <1>5, <3>1, CanonicalKeeps DEF IsTrue
    <2> QED BY <2>1
<1> QED BY <1>1, <1>5, <1>6 DEF IsTrue

-----------------------------------------------------------------------------
(* The light client: the set of validators. *)

LEMMA LeavesDiffer ==
    /\ \A x, y : AmountLeaf(x) = AmountLeaf(y) => x = y
    /\ \A x, y : StakeTotalLeaf(x) = StakeTotalLeaf(y) => x = y
    /\ \A x, y, z, u : StakeMemberLeaf(x, y) = StakeMemberLeaf(z, u) => x = z /\ y = u
    /\ \A x, y, z : StakeMemberLeaf(x, y) # StakeTotalLeaf(z)
BY DEF AmountLeaf, StakeTotalLeaf, StakeMemberLeaf, LeafHash

\* The leaf of a key in the stakes tree of a state.
LEMMA StakeLeaf ==
    ASSUME NEW s \in DOMAIN States, NEW key \in Bits(Depth)
    PROVE  StakeProofs[s][key].leaf
           = IF key \in DOMAIN StakeEntries(s) THEN StakeEntries(s)[key] ELSE Undefined
<1>1. StakeProofs[s][key] = Prove(StakeEntries(s), key)
    BY DEF StakeProofs
<1> QED BY <1>1 DEF Prove

\* A proven set of validators is the state's own, up to who stands for an
\* address: none is made up, and none of the stake is left out.
LEMMA ProvenSet ==
    ASSUME NEW s \in DOMAIN States, States[s].chain = "BTC", NEW claim \in SetClaims(s),
           VerifyValidatorSet(s, claim)
    PROVE  LET members == {m.v : m \in claim.members}
           IN  /\ members \subseteq States[s].members
               /\ StakeOf(members) = StakeOf(States[s].members)
<1> DEFINE members == {m.v : m \in claim.members}
           mine == States[s].members
           keys == {StakeKey(v) : v \in mine} \cup {StakeTotalKey}
<1>1. mine \subseteq DOMAIN SourceOf
    BY FaultyAssumption
<1>2. \A m \in claim.members : m.v \in DOMAIN SourceOf
    BY DEF SetClaims
<1>3. DOMAIN StakeEntries(s) = keys
    BY DEF StakeEntries
<1>4. members \subseteq mine
    <2> SUFFICES ASSUME NEW m \in claim.members PROVE m.v \in mine
        OBVIOUS
    <2>1. StakeKey(m.v) \in Bits(Depth) /\ StakeKey(m.v) # StakeTotalKey
        BY <1>2, KeysAssumption
    <2>2. StakeProofs[s][StakeKey(m.v)].leaf = StakeMemberLeaf(SourceOf[m.v], m.weight)
        BY DEF VerifyValidatorSet
    <2>3. m.weight = WeightOf[SourceOf[m.v]]
        BY DEF SetClaims
    <2>4. StakeKey(m.v) \in keys
        BY <1>2, <1>3, <2>1, <2>2, <2>3, StakeLeaf, KeysAssumption
    <2>5. PICK v \in mine : StakeKey(v) = StakeKey(m.v)
        BY <2>1, <2>4
    <2> QED BY <1>1, <1>2, <2>5, KeysAssumption
<1>5. StakeOf(members) = StakeOf(mine)
    <2>1. StakeEntries(s)[StakeTotalKey] = StakeTotalLeaf(StakeOf(mine))
        BY <1>3 DEF StakeEntries
    <2>2. StakeProofs[s][StakeTotalKey].leaf = StakeTotalLeaf(StakeOf(mine))
        BY <1>3, <2>1, KeysAssumption, StakeLeaf
    <2>3. /\ StakeProofs[s][StakeTotalKey].leaf = StakeTotalLeaf(claim.total)
          /\ StakeOf(members) = claim.total
        BY DEF VerifyValidatorSet
    <2> HIDE DEF members, mine
    <2> QED BY <2>2, <2>3, LeavesDiffer
<1> QED BY <1>4, <1>5

LEMMA FollowStep ==
    ASSUME FollowedIsTrue, trusted \in Presented, NEW next \in Checkpoints,
           NEW claim \in SetClaims(trusted.state), FollowForward(next, claim)
    PROVE  FollowedIsTrue' /\ trusted' \in Presented
<1> DEFINE members == {m.v : m \in claim.members}
<1>1. trusted.height \in DOMAIN TrueState["BTC"] /\ trusted.state = TrueState["BTC"][trusted.height]
    BY CheckpointsAssumption DEF FollowedIsTrue, IsTrue
<1>2. /\ trusted.state \in DOMAIN States /\ States[trusted.state].chain = "BTC"
      /\ MembersAt(trusted.height) = States[trusted.state].members
    BY <1>1, StakesAreOfBtc, CheckpointsAssumption DEF MembersAt
<1>3. /\ members \subseteq MembersAt(trusted.height)
      /\ StakeOf(members) = StakeOf(MembersAt(trusted.height))
    BY <1>2, ProvenSet DEF FollowForward
<1>4. MeetsStakeThreshold(members, Signers(next, members))
    BY DEF FollowForward
<1> HIDE DEF members
<1>5. PICK v \in Signers(next, members) : v \notin Faulty
    BY <1>1, <1>3, <1>4, HonestByStake
<1>6. next \in Presented
    BY DEF Presented
<1>7. IsTrue(next)
    BY <1>5, <1>6, CheckpointsAssumption, SignedIsTrue DEF FollowForward, Signers
<1>8. next.state # Undefined /\ next.chain = "BTC" /\ trusted' = next
    BY DEF FollowForward, CommitmentMissing, FollowedIsTrue
<1> QED BY <1>6, <1>7, <1>8 DEF FollowedIsTrue, IsTrue

\* A checkpoint the validators in force have signed is the chain's own.
LEMMA VerifiedRoots ==
    ASSUME NEW cp, KnownCheckpoint(cp), NEW h \in {cp.snapshot, Pinned.height},
           CommitmentActive(cp), VerifyCheckpoint(cp, MembersAt(h))
    PROVE  IsTrue(cp)
<1>1. PICK v \in Signers(cp, MembersAt(h)) : v \notin Faulty
    BY HonestByQuorum
<1>2. VerifySignature(cp, v)
    BY DEF Signers
<1> QED BY <1>1, <1>2, SignedIsTrue DEF VerifyCheckpoint, KnownCheckpoint

LEMMA PinnedMembers == States[Pinned.state].members = MembersAt(Pinned.height)
BY CheckpointsAssumption DEF IsTrue, MembersAt

\* A checkpoint the client trusts without asking the explorer for the validators
\* has the roots of its chain, if they are signed or vouched for.
LEMMA TrustedRoots ==
    ASSUME FollowedIsTrue, trusted \in Presented, NEW trust \in Trusts \ {"explorer"},
           NEW cp \in Presented, NEW named,
           CommitmentActive(cp) \/ trust = "checkpoint", cp.state # Undefined,
           QuorumOf(trust, cp, named)
    PROVE  cp.state = TrueState[cp.chain][cp.height]
<1>1. KnownCheckpoint(cp) /\ IsCheckpoint(cp) /\ IsCheckpoint(trusted)
    BY CheckpointsAssumption DEF KnownCheckpoint
<1>2. trusted.state = TrueState[trusted.chain][trusted.height]
    BY DEF FollowedIsTrue, IsTrue
<1>3. CASE trust = "checkpoint"
    BY <1>2, <1>3 DEF QuorumOf
<1>4. CASE trust = "validators"
    BY <1>1, <1>4, VerifiedRoots DEF QuorumOf, IsTrue
<1>5. CASE trust = "pinned" /\ VerifyCheckpoint(cp, States[Pinned.state].members)
    BY <1>1, <1>5, VerifiedRoots, PinnedMembers DEF IsTrue
<1>6. CASE trust = "pinned" /\ ~VerifyCheckpoint(cp, States[Pinned.state].members)
    BY <1>1, <1>2, <1>6, CanonicalKeeps DEF QuorumOf
<1> QED BY <1>3, <1>4, <1>5, <1>6 DEF Trusts

\* A finite set of rows has a newest one.
LEMMA NewestRow ==
    ASSUME NEW given, given \subseteq Anchors, given # {}
    PROVE  \E a \in given : \A b \in given : b.cp.seq <= a.cp.seq
<1> DEFINE Q == {s \in SUBSET given : s = {} \/ \E a \in s : \A b \in s : b.cp.seq <= a.cp.seq}
<1>1. IsFiniteSet(given) /\ \A a \in given : a.cp.seq \in Nat
    BY CheckpointsAssumption, FS_Subset DEF Presented
<1>2. {} \in Q
    OBVIOUS
<1>3. ASSUME NEW s \in SUBSET given, s # {}, \A x \in s : s \ {x} \in Q
      PROVE  s \in Q
    <2>1. PICK x \in s : TRUE
        BY <1>3
    <2>2. CASE s \ {x} = {}
        BY <1>1, <2>1, <2>2
    <2>3. CASE s \ {x} # {}
        <3>1. PICK a \in s \ {x} : \A b \in s \ {x} : b.cp.seq <= a.cp.seq
            BY <1>3, <2>1, <2>3
        <3>2. CASE x.cp.seq <= a.cp.seq
            BY <3>1, <3>2
        <3>3. CASE ~(x.cp.seq <= a.cp.seq)
            <4>1. \A b \in s : b.cp.seq <= x.cp.seq
                BY <1>1, <2>1, <3>1, <3>3
            <4> QED BY <2>1, <4>1
        <3> QED BY <3>2, <3>3
    <2> QED BY <2>2, <2>3
<1> HIDE DEF Q
<1>4. SUBSET given \subseteq Q
    BY <1>1, <1>2, <1>3, SetInduct
<1> QED BY <1>4 DEF Q

\* An anchored checkpoint that is returned as verified.
LEMMA AnchorStep ==
    ASSUME NEW given \in AnchorSets, NEW opts \in AnchorOptions, NEW named,
           FetchAnchoredCheckpoint(given, opts, named)
    PROVE  VerifiedIsTrue'
<1> DEFINE sections == AnchoredCheckpointRows(given)
           rec == CHOOSE a \in sections : \A b \in sections : b.cp.seq <= a.cp.seq
           height == IF opts.callerHeight THEN rec.realHeight ELSE rec.claimedHeight
           cp == AnchorToCheckpoint(rec)
           members == ResolveValidatorSet(opts.trust, cp, named)
           wanted == /\ rec.supersededBy = Undefined \/ opts.allowSuperseded
                     /\ opts.requireTrustedDepth => opts.callerHeight
                     /\ IsCheckpointSectionRow(rec, height)
           ok == /\ sections # {} /\ wanted
                 /\ VerifyAnchoredCheckpoint(cp, members, opts.tip - height + 1)
           answer == Verified("anchor", opts.trust, cp, [row |-> rec, opts |-> opts], cp.state)
<1>1. \/ ok /\ result' = answer
      \/ result' = Refused("anchor")
    <2>1. result' = IF ok THEN answer ELSE Refused("anchor")
        BY DEF FetchAnchoredCheckpoint
    <2> HIDE DEF ok, answer
    <2> QED BY <2>1
<1>2. CASE result' = Refused("anchor")
    BY <1>2 DEF VerifiedIsTrue, Refused
<1>3. CASE ok /\ result' = answer /\ opts.trust # "explorer"
    <2>1. rec \in sections
        <3>1. sections \subseteq Anchors
            BY DEF AnchorSets, AnchoredCheckpointRows
        <3>2. \E a \in sections : \A b \in sections : b.cp.seq <= a.cp.seq
            BY <1>3, <3>1, NewestRow
        <3> QED BY <3>2
    <2> HIDE DEF rec
    <2>2. rec \in Anchors /\ rec.cp \in Presented
        BY <2>1 DEF AnchorSets, AnchoredCheckpointRows, Presented
    <2>3. IsCheckpoint(rec.cp) /\ rec.cp.chain = "BTC"
        BY <2>1, <2>2, CheckpointsAssumption DEF AnchoredCheckpointRows
    <2>4. /\ IsCheckpoint(cp) /\ cp.chain = rec.cp.chain /\ cp.height = rec.cp.height
          /\ cp.snapshot = rec.cp.snapshot
        BY <2>3 DEF IsCheckpoint, AnchorToCheckpoint
    <2> HIDE DEF cp
    <2>5. KnownCheckpoint(cp)
        BY <2>2, <2>4 DEF KnownCheckpoint
    <2>6. CommitmentActive(cp) /\ cp.state # Undefined /\ VerifyCheckpoint(cp, members)
        BY <1>3 DEF VerifyAnchoredCheckpoint
    <2>7. opts.trust \in {"pinned", "validators"}
        BY <1>3 DEF AnchorOptions
    <2>8. \E h \in {cp.snapshot, Pinned.height} : members = MembersAt(h)
        BY <2>7, PinnedMembers DEF ResolveValidatorSet
    <2>9. cp.chain = "BTC" /\ cp.state = TrueState["BTC"][cp.height]
        BY <2>3, <2>4, <2>5, <2>6, <2>8, VerifiedRoots DEF IsTrue
    <2>10. opts.requireTrustedDepth => opts.tip - rec.realHeight + 1 >= MinDepth
        BY <1>3 DEF VerifyAnchoredCheckpoint
    <2>11. rec.supersededBy # Undefined => opts.allowSuperseded
        BY <1>3
    <2>12. /\ result'.kind = "anchor" /\ result'.claim = cp.state /\ result'.checkpoint = cp
           /\ result'.about.row = rec /\ result'.about.opts = opts
        BY <1>3 DEF Verified
    <2> QED BY <2>9, <2>10, <2>11, <2>12 DEF VerifiedIsTrue
<1>4. CASE result' = answer /\ opts.trust = "explorer"
    BY <1>4 DEF VerifiedIsTrue, Verified
<1> QED BY <1>1, <1>2, <1>3, <1>4

-----------------------------------------------------------------------------
(* The light client: balances. *)

\* What the tree of balances holds for an address that is asked about.
LEMMA AmountEntry ==
    ASSUME NEW s \in DOMAIN States, States[s].chain \in DOMAIN TrueState,
           NEW kind \in {"balance", "locked"}, NEW a \in Asked
    PROVE  LET key == QueriedKey(kind, States[s].chain, a, a)
               held == IF kind = "locked" THEN States[s].locked ELSE States[s].balances
               entries == BalanceEntries(s)
           IN  /\ key \in Bits(Depth) /\ DOMAIN entries \subseteq Bits(Depth)
               /\ \A k \in DOMAIN entries : \A x, y : entries[k] # NodeHash(x, y)
               /\ key \in DOMAIN entries <=> a \in DOMAIN held
               /\ a \in DOMAIN held => entries[key] = AmountLeaf(held[a])
<1> DEFINE held == DOMAIN States[s].balances
           locked == DOMAIN States[s].locked
           B(x) == BalanceKey(States[s].chain, x)
           E(x) == EscrowKey(States[s].chain, x)
           K == {B(x) : x \in held}
           L == {E(x) : x \in locked}
           keyed == [k \in K |-> AmountLeaf(States[s].balances[CHOOSE x \in held : B(x) = k])]
           escrowed == [k \in L |-> AmountLeaf(States[s].locked[CHOOSE x \in locked : E(x) = k])]
           entries == BalanceEntries(s)
           all == Asked \cup held \cup locked
<1>1. \A x, y \in all : /\ B(x) \in Bits(Depth) /\ E(x) \in Bits(Depth) /\ B(x) # E(y)
                        /\ x # y => B(x) # B(y) /\ E(x) # E(y)
    <2>1. all \subseteq Asked \cup UNION {DOMAIN States[z].balances \cup DOMAIN States[z].locked :
                                             z \in DOMAIN States}
        OBVIOUS
    <2> HIDE DEF all
    <2> QED BY <2>1, KeysAssumption
<1>2. entries = [k \in K \cup L |-> IF k \in K THEN keyed[k] ELSE escrowed[k]]
    BY DEF BalanceEntries
<1> HIDE DEF B, E, entries
<1>3. DOMAIN entries = K \cup L
    BY <1>2
<1>4. ASSUME NEW x \in held PROVE B(x) \in K /\ entries[B(x)] = AmountLeaf(States[s].balances[x])
    <2>1. (CHOOSE y \in held : B(y) = B(x)) = x
        BY <1>1
    <2>2. B(x) \in K
        OBVIOUS
    <2> QED BY <1>2, <2>1, <2>2
<1>5. ASSUME NEW x \in locked PROVE E(x) \in L /\ entries[E(x)] = AmountLeaf(States[s].locked[x])
    <2>1. (CHOOSE y \in locked : E(y) = E(x)) = x
        BY <1>1
    <2>2. E(x) \in L /\ E(x) \notin K
        BY <1>1
    <2> QED BY <1>2, <2>1, <2>2
<1>6. \A k \in DOMAIN entries : \A x, y : entries[k] # NodeHash(x, y)
    <2>1. \A k \in DOMAIN entries : \E z : entries[k] = AmountLeaf(z)
        BY <1>3, <1>4, <1>5
    <2> QED BY <2>1, NodesDiffer DEF AmountLeaf
<1>7. DOMAIN entries \subseteq Bits(Depth)
    BY <1>1, <1>3
<1>8. B(a) \in K <=> a \in held
    BY <1>1
<1>9. E(a) \in L <=> a \in locked
    BY <1>1
<1>10. B(a) \notin L /\ E(a) \notin K /\ B(a) \in Bits(Depth) /\ E(a) \in Bits(Depth)
    BY <1>1
<1>11. QueriedKey(kind, States[s].chain, a, a) = IF kind = "locked" THEN E(a) ELSE B(a)
    BY DEF QueriedKey, B, E
<1> HIDE DEF K, L, held, locked
<1>12. CASE kind = "locked"
    BY <1>3, <1>5, <1>6, <1>7, <1>9, <1>10, <1>11, <1>12 DEF entries, locked
<1>13. CASE kind # "locked"
    BY <1>3, <1>4, <1>6, <1>7, <1>8, <1>10, <1>11, <1>13 DEF entries, held
<1> QED BY <1>12, <1>13

\* A proof put together from a tree is three or four steps above the sub-root.
LEMMA ProofLength ==
    ASSUME NEW s \in DOMAIN States, NEW key \in Bits(Depth), NEW p \in ProofsOf[s][key]
    PROVE  Len(p.siblings) \in 3..4
<1>1. PICK b \in SubRootPaths : p.siblings = Reverse(WalkSiblings(StateRootOf[s], b))
    BY DEF ProofsOf
<1>2. PICK n \in 3..4 : b \in Bits(n)
    BY DEF SubRootPaths
<1>3. Len(b) = n
    BY <1>2 DEF Bits
<1> DEFINE walk == WalkSiblings(StateRootOf[s], b)
<1>4. Len(walk) = n
    BY <1>2, <1>3 DEF WalkSiblings
<1> HIDE DEF walk
<1>5. Len(Reverse(walk)) = n
    BY <1>2, <1>4 DEF Reverse
<1> QED BY <1>1, <1>5 DEF walk

\* What a proof of an amount verifies against the state root of s is what s
\* holds.
LEMMA AmountProven ==
    ASSUME NEW s \in DOMAIN States, States[s].chain \in DOMAIN TrueState,
           NEW kind \in {"balance", "locked"}, NEW a \in Asked,
           NEW p, Len(p.siblings) \in 3..4,
           VerifyAmountProof(p, QueriedKey(kind, States[s].chain, a, a), StateRootOf[s])
    PROVE  LET held == IF kind = "locked" THEN States[s].locked ELSE States[s].balances
           IN  p.amount = IF a \in DOMAIN held THEN held[a] ELSE 0
<1> DEFINE key == QueriedKey(kind, States[s].chain, a, a)
           held == IF kind = "locked" THEN States[s].locked ELSE States[s].balances
           entries == BalanceEntries(s)
           n == Len(p.siblings)
           ends == IF p.leaf = Undefined THEN Empty[0] ELSE p.leaf
<1>1. /\ key \in Bits(Depth) /\ DOMAIN entries \subseteq Bits(Depth)
      /\ \A k \in DOMAIN entries : \A x, y : entries[k] # NodeHash(x, y)
      /\ key \in DOMAIN entries <=> a \in DOMAIN held
      /\ a \in DOMAIN held => entries[key] = AmountLeaf(held[a])
    BY AmountEntry
<1>2. /\ IF p.leaf = Undefined THEN p.amount = 0 ELSE p.leaf = AmountLeaf(p.amount)
      /\ VerifyCompressedSmtProof(p.subRoot, key, p.leaf, p.compressed)
      /\ p.index = 0 /\ VerifyFixedMerkleProof(StateRootOf[s], p.subRoot, p)
    BY BalancesFirst DEF VerifyAmountProof, SubRootBound
<1>3. PICK t : t[0] = StateRootOf[s] /\ t[3] = SmtRoot(entries) /\ IsPath(t, Sides(0, 3), 3)
    <2>1. /\ "balances" \in DOMAIN SubRoots[s] /\ SubRoots[s]["balances"] = SmtRoot(entries)
          /\ StateRootOf[s] = StateRoot(SubRoots[s])
        BY DEF SubRoots, StateRootOf
    <2> HIDE DEF entries
    <2> QED BY <2>1, BalancesPath
<1>4. n \in Nat /\ n >= 3
    <2>1. \A m \in 3..4 : m \in Nat /\ m >= 3
        OBVIOUS
    <2> QED BY <2>1, Zenon
<1> HIDE DEF key, entries, held
<1>5. PICK u : u[0] = StateRootOf[s] /\ u[n] = p.subRoot /\ IsPath(u, Sides(0, n), n)
    <2>1. p.index \in Nat
        BY <1>2
    <2>2. \E u : /\ u[0] = StateRootOf[s] /\ u[n] = p.subRoot
                 /\ IsPath(u, Sides(p.index, n), n)
        BY <1>2, <1>4, <2>1, FixedVerified
    <2> QED BY <1>2, <2>2
<1>6. PICK w : w[0] = p.subRoot /\ w[Depth] = ends /\ IsPath(w, key, Depth)
    BY <1>1, <1>2, SmtVerified
<1>7. w[Depth] = IF key \in DOMAIN entries THEN entries[key] ELSE Empty[0]
    <2>1. (\A k \in 1..3 : Sides(0, 3)[k] = 0) /\ \A k \in 1..n : Sides(0, n)[k] = 0
        BY <1>4, SidesZero
    <2>2. u[0] = t[0] /\ w[0] = u[n]
        BY <1>3, <1>5, <1>6
    <2> DEFINE b == Sides(0, 3)
               c == Sides(0, n)
    <2> HIDE DEF b, c, n
    <2>3. IsPath(t, b, 3) /\ IsPath(u, c, n) /\ (\A k \in 1..3 : b[k] = 0) /\ \A k \in 1..n : c[k] = 0
        BY <1>3, <1>5, <2>1 DEF b, c, n
    <2> QED BY <1>1, <1>3, <1>4, <1>6, <2>2, <2>3, LeafFound
<1>8. \A x : AmountLeaf(x) # Empty[0]
    BY EmptyObeys, NodesDiffer DEF AmountLeaf
<1> HIDE DEF n
<1> SUFFICES p.amount = IF a \in DOMAIN held THEN held[a] ELSE 0
    BY DEF held
<1>9. CASE a \in DOMAIN held
    <2>1. ends = AmountLeaf(held[a])
        BY <1>1, <1>6, <1>7, <1>9
    <2>2. AmountLeaf(p.amount) = AmountLeaf(held[a])
        BY <1>2, <1>8, <2>1
    <2> QED BY <1>9, <2>2, LeavesDiffer
<1>10. CASE a \notin DOMAIN held
    <2>1. ends = Empty[0]
        BY <1>1, <1>6, <1>7, <1>10
    <2> QED BY <1>2, <1>8, <1>10, <2>1
<1> QED BY <1>9, <1>10

\* The answer of a call that is put to the explorer.
LEMMA AskedAnswer ==
    ASSUME NEW kind, NEW cp, NEW about, NEW claims, Ask(kind, cp, about, claims)
    PROVE  \/ result' = Refused(kind)
           \/ \E trust \in Trusts, named \in NamedSets, claim \in claims :
                 QuorumOf(trust, cp, named) /\ result' = Verified(kind, trust, cp, about, claim)
BY DEF Ask

\* An amount that is returned as verified is the chain's.
LEMMA AmountStep ==
    ASSUME FollowedIsTrue, trusted \in Presented, AskAmount
    PROVE  VerifiedIsTrue'
<1>1. PICK kind \in {"balance", "locked"}, cp \in Checkpoints, asked \in Asked,
           least \in AskedHeights :
             LET Proofs(echoed) ==
                     {p \in ProofsOf[ServedState(cp)][QueriedKey(kind, cp.chain, echoed, echoed)] :
                         VerifyAmount(kind, cp, asked, least, echoed, p)}
             IN  Ask(kind, cp, [address |-> asked, least |-> least],
                     UNION {{p.amount : p \in Proofs(echoed)} : echoed \in Asked})
    BY DEF AskAmount
<1> DEFINE Proofs(echoed) ==
               {p \in ProofsOf[ServedState(cp)][QueriedKey(kind, cp.chain, echoed, echoed)] :
                   VerifyAmount(kind, cp, asked, least, echoed, p)}
           claims == UNION {{p.amount : p \in Proofs(echoed)} : echoed \in Asked}
           about == [address |-> asked, least |-> least]
<1>2. \A claim \in claims : \E echoed \in Asked : \E p \in Proofs(echoed) : claim = p.amount
    OBVIOUS
<1>3. Ask(kind, cp, about, claims)
    BY <1>1
<1> HIDE DEF claims, about
<1>4. \/ result' = Refused(kind)
      \/ \E trust \in Trusts, named \in NamedSets, claim \in claims :
            QuorumOf(trust, cp, named) /\ result' = Verified(kind, trust, cp, about, claim)
    BY <1>3, AskedAnswer
<1>5. CASE result' = Refused(kind)
    BY <1>5 DEF VerifiedIsTrue, Refused
<1>6. ASSUME NEW trust \in Trusts, NEW named \in NamedSets, NEW claim \in claims,
             QuorumOf(trust, cp, named), result' = Verified(kind, trust, cp, about, claim)
      PROVE  VerifiedIsTrue'
    <2>8. PICK echoed \in Asked : \E q \in Proofs(echoed) : claim = q.amount
        BY <1>2
    <2>1. PICK p \in Proofs(echoed) : claim = p.amount
        BY <2>8
    <2>2. /\ p \in ProofsOf[ServedState(cp)][QueriedKey(kind, cp.chain, echoed, echoed)]
          /\ least # Undefined => cp.height >= least
          /\ cp.state # Undefined
          /\ VerifyAmountProof(p, QueriedKey(kind, cp.chain, asked, echoed), StateRootOf[cp.state])
        BY <2>1 DEF VerifyAmount
    <2>3. /\ result'.kind = kind /\ result'.trust = trust /\ result'.checkpoint = cp
          /\ result'.claim = p.amount /\ result'.about.address = asked
          /\ result'.about.least = least
        BY <1>6, <2>1 DEF Verified, about
    <2>4. cp \in Presented /\ cp.state \in DOMAIN States /\ ServedState(cp) = cp.state
        BY <2>2, CheckpointsAssumption DEF ServedState, Presented
    <2>5. ASSUME trust # "explorer", CommitmentActive(cp) \/ trust = "checkpoint"
          PROVE  p.amount = TrueAmount(kind, cp, asked)
        <3>1. cp.state = TrueState[cp.chain][cp.height]
            BY <1>6, <2>2, <2>4, <2>5, TrustedRoots
        <3>2. cp.chain \in DOMAIN TrueState /\ States[cp.state].chain = cp.chain
            BY <2>4, <3>1, CheckpointsAssumption
        <3>3. QueriedKey(kind, cp.chain, echoed, echoed) \in Bits(Depth)
            BY <2>4, <3>2, AmountEntry
        <3>4. Len(p.siblings) \in 3..4
            BY <2>2, <2>4, <3>3, ProofLength
        <3>5. QueriedKey(kind, cp.chain, asked, echoed) = QueriedKey(kind, cp.chain, asked, asked)
            BY DEF QueriedKey
        <3>6. LET held == IF kind = "locked" THEN States[cp.state].locked
                          ELSE States[cp.state].balances
              IN  p.amount = IF asked \in DOMAIN held THEN held[asked] ELSE 0
            BY <2>2, <2>4, <3>2, <3>4, <3>5, AmountProven
        <3> QED BY <3>1, <3>6 DEF TrueAmount
    <2>6. (result'.trust # "explorer" /\ RootsVouched')
          => result'.claim = TrueAmount(result'.kind, result'.checkpoint, result'.about.address)
        BY <2>3, <2>5, Zenon DEF RootsVouched
    <2>7. result'.about.least # Undefined => result'.checkpoint.height >= result'.about.least
        BY <2>2, <2>3
    <2> HIDE DEF Proofs
    <2> QED BY <2>3, <2>6, <2>7 DEF VerifiedIsTrue, TrueAmount
<1> QED BY <1>4, <1>5, <1>6

-----------------------------------------------------------------------------
(* The light client: actions. *)

\* A leaf of a block is that of a ledger row, an action or a contract row.
LEMMA BlockLeaf ==
    ASSUME NEW s \in DOMAIN States
    PROVE  LET block == States[s].rows
               leaves == BlockMerkleLeaves(block)
           IN  /\ Len(leaves) \in Nat
               /\ \A i \in 1..Len(leaves) :
                     \/ \E r : leaves[i] = LedgerLeaf(r)
                     \/ \E r \in Range(block.actions) : leaves[i] = ActionsLeaf(r)
                     \/ \E r : leaves[i] = ContractLeaf(r)
<1> DEFINE block == States[s].rows
           A == [k \in 1..Len(block.ledger) |-> LedgerLeaf(block.ledger[k])]
           B == [k \in 1..Len(block.actions) |-> ActionsLeaf(block.actions[k])]
           C == [k \in 1..Len(block.contracts) |-> ContractLeaf(block.contracts[k])]
           IsLeaf(x) == \/ \E r : x = LedgerLeaf(r)
                        \/ \E r \in Range(block.actions) : x = ActionsLeaf(r)
                        \/ \E r : x = ContractLeaf(r)
           V == {A[k] : k \in 1..Len(block.ledger)} \cup {B[k] : k \in 1..Len(block.actions)}
                \cup {C[k] : k \in 1..Len(block.contracts)}
<1>1. /\ Len(block.ledger) \in Nat /\ Len(block.actions) \in Nat /\ Len(block.contracts) \in Nat
      /\ \A k \in 1..Len(block.actions) : block.actions[k] \in Range(block.actions)
    <2>1. /\ block.ledger \in Seq(Range(block.ledger)) /\ block.actions \in Seq(Range(block.actions))
          /\ block.contracts \in Seq(Range(block.contracts))
        BY RowsAssumption
    <2> QED BY <2>1
<1>2. \A x \in V : IsLeaf(x)
    <2>1. ASSUME NEW k \in 1..Len(block.ledger) PROVE \E r : A[k] = LedgerLeaf(r)
        OBVIOUS
    <2>2. ASSUME NEW k \in 1..Len(block.actions)
          PROVE  \E r \in Range(block.actions) : B[k] = ActionsLeaf(r)
        BY <1>1
    <2>3. ASSUME NEW k \in 1..Len(block.contracts) PROVE \E r : C[k] = ContractLeaf(r)
        OBVIOUS
    <2> HIDE DEF A, B, C
    <2> QED BY <2>1, <2>2, <2>3
<1>3. A \in Seq(V) /\ B \in Seq(V) /\ C \in Seq(V)
    <2>1. A = [k \in 1..Len(block.ledger) |-> A[k]] /\ \A k \in 1..Len(block.ledger) : A[k] \in V
        OBVIOUS
    <2>2. B = [k \in 1..Len(block.actions) |-> B[k]] /\ \A k \in 1..Len(block.actions) : B[k] \in V
        OBVIOUS
    <2>3. /\ C = [k \in 1..Len(block.contracts) |-> C[k]]
          /\ \A k \in 1..Len(block.contracts) : C[k] \in V
        OBVIOUS
    <2> HIDE DEF A, B, C, V
    <2>4. /\ A \in [1..Len(block.ledger) -> V] /\ B \in [1..Len(block.actions) -> V]
          /\ C \in [1..Len(block.contracts) -> V]
        BY <2>1, <2>2, <2>3, Zenon
    <2>5. ASSUME NEW n \in Nat, NEW f \in [1..n -> V] PROVE f \in Seq(V)
        OBVIOUS
    <2> QED BY <1>1, <2>4, <2>5, Zenon
<1>4. BlockMerkleLeaves(block) = (A \o B) \o C
    BY DEF BlockMerkleLeaves
<1> HIDE DEF A, B, C, V, IsLeaf
<1>5. BlockMerkleLeaves(block) \in Seq(V)
    BY <1>3, <1>4
<1>6. /\ Len(BlockMerkleLeaves(block)) \in Nat
      /\ \A i \in 1..Len(BlockMerkleLeaves(block)) : BlockMerkleLeaves(block)[i] \in V
    BY <1>5
<1> QED BY <1>2, <1>6 DEF IsLeaf

LEMMA RowsDiffer ==
    /\ \A r, q : ActionsLeaf(r) = ActionsLeaf(q) => r.index = q.index /\ r.action = q.action
    /\ \A r, q : ActionsLeaf(r) # LedgerLeaf(q) /\ ActionsLeaf(r) # ContractLeaf(q)
BY DEF ActionsLeaf, LedgerLeaf, ContractLeaf, LeafHash

\* An action that is returned as verified is in the chain's block.
LEMMA ActionStep ==
    ASSUME FollowedIsTrue, trusted \in Presented, AskAction
    PROVE  VerifiedIsTrue'
<1>1. PICK cp \in Checkpoints, index \in {1, 2} :
             LET block == States[ServedState(cp)].rows
                 leaves == BlockMerkleLeaves(block)
                 Proven(act) == \E i \in 1..Len(block.actions), at \in 1..Len(leaves) :
                                   VerifyAction(cp, index, [block.actions[i] EXCEPT !.action = act],
                                                FixedMerkleProof(leaves, at - 1))
             IN  Ask("action", cp, index, {act \in {"SEND", "MINT"} : Proven(act)})
    BY DEF AskAction
<1> DEFINE block == States[ServedState(cp)].rows
           leaves == BlockMerkleLeaves(block)
           Proven(act) == \E i \in 1..Len(block.actions), at \in 1..Len(leaves) :
                             VerifyAction(cp, index, [block.actions[i] EXCEPT !.action = act],
                                          FixedMerkleProof(leaves, at - 1))
           claims == {act \in {"SEND", "MINT"} : Proven(act)}
<1>2. \A act \in claims : Proven(act)
    OBVIOUS
<1>3. Ask("action", cp, index, claims)
    BY <1>1, Zenon
<1> HIDE DEF claims
<1>4. \/ result' = Refused("action")
      \/ \E trust \in Trusts, named \in NamedSets, claim \in claims :
            QuorumOf(trust, cp, named) /\ result' = Verified("action", trust, cp, index, claim)
    BY <1>3, AskedAnswer
<1>5. CASE result' = Refused("action")
    BY <1>5 DEF VerifiedIsTrue, Refused
<1>6. ASSUME NEW trust \in Trusts, NEW named \in NamedSets, NEW act \in claims,
             QuorumOf(trust, cp, named), result' = Verified("action", trust, cp, index, act)
      PROVE  VerifiedIsTrue'
    <2>1. PICK i \in 1..Len(block.actions), at \in 1..Len(leaves) :
                 VerifyAction(cp, index, [block.actions[i] EXCEPT !.action = act],
                              FixedMerkleProof(leaves, at - 1))
        BY <1>2, Zenon
    <2> DEFINE row == [block.actions[i] EXCEPT !.action = act]
    <2>2. row.action = act
        <3>1. row.index = index
            BY <2>1 DEF VerifyAction
        <3> QED BY <3>1
    <2> HIDE DEF row
    <2>3. /\ cp.state # Undefined /\ row.index = index
          /\ VerifyActionProof(row, FixedMerkleProof(leaves, at - 1), BlockRootOf[cp.state])
        <3>1. VerifyAction(cp, index, row, FixedMerkleProof(leaves, at - 1))
            BY <2>1, Zenon DEF row
        <3> HIDE DEF leaves
        <3> QED BY <3>1 DEF VerifyAction
    <2>4. cp \in Presented /\ cp.state \in DOMAIN States /\ ServedState(cp) = cp.state
        BY <2>3, CheckpointsAssumption DEF ServedState, Presented
    <2>5. /\ Len(leaves) \in Nat
          /\ \/ \E r : leaves[at] = LedgerLeaf(r)
             \/ \E r \in Range(block.actions) : leaves[at] = ActionsLeaf(r)
             \/ \E r : leaves[at] = ContractLeaf(r)
        BY <2>4, BlockLeaf
    <2>6. BlockRootOf[cp.state] = FixedMerkleRoot(leaves)
        BY <2>4 DEF BlockRootOf
    <2> HIDE DEF leaves
    <2>7. ActionsLeaf(row) = leaves[at]
        <3>1. Len(leaves) \in Nat \ {0} /\ leaves # <<>> /\ at - 1 \in 0..(Len(leaves) - 1)
              /\ at - 1 + 1 = at
            BY <2>5
        <3>2. VerifyFixedMerkleProof(FixedMerkleRoot(leaves), ActionsLeaf(row),
                                     FixedMerkleProof(leaves, at - 1))
            BY <2>3, <2>6 DEF VerifyActionProof
        <3>3. ActionsLeaf(row) = leaves[at - 1 + 1]
            BY <3>1, <3>2, MemberFound
        <3> QED BY <3>1, <3>3
    <2>8. PICK r \in Range(block.actions) : r.index = row.index /\ r.action = row.action
        BY <2>5, <2>7, RowsDiffer
    <2>9. /\ result'.kind = "action" /\ result'.trust = trust /\ result'.checkpoint = cp
          /\ result'.claim = r.action /\ result'.about = r.index
        BY <1>6, <2>2, <2>3, <2>8 DEF Verified
    <2>10. ASSUME trust # "explorer", CommitmentActive(cp) \/ trust = "checkpoint"
           PROVE  r \in Range(States[TrueState[cp.chain][cp.height]].rows.actions)
        <3>1. cp.state = TrueState[cp.chain][cp.height]
            BY <1>6, <2>3, <2>4, <2>10, TrustedRoots
        <3> QED BY <2>4, <3>1
    <2> HIDE DEF block
    <2> QED BY <2>9, <2>10 DEF VerifiedIsTrue, RootsVouched
<1> QED BY <1>4, <1>5, <1>6

-----------------------------------------------------------------------------
(* The light client: the theorems. *)

\* What the light client believes and has served, through every call.
LightInv == FollowedIsTrue /\ trusted \in Presented /\ VerifiedIsTrue

LEMMA LightStarts == LightInit => LightInv
<1> SUFFICES ASSUME LightInit PROVE LightInv
    OBVIOUS
<1>1. trusted = Pinned /\ result = Refused("none")
    BY DEF LightInit
<1>2. trusted \in Presented
    BY <1>1 DEF Presented
<1>3. FollowedIsTrue
    BY <1>1, CheckpointsAssumption DEF FollowedIsTrue
<1>4. VerifiedIsTrue
    BY <1>1 DEF VerifiedIsTrue, Refused
<1> QED BY <1>2, <1>3, <1>4 DEF LightInv

LEMMA LightStep == LightInv /\ [LightNext]_lightVars => LightInv'
<1> SUFFICES ASSUME LightInv, [LightNext]_lightVars PROVE LightInv'
    OBVIOUS
<1>1. FollowedIsTrue /\ trusted \in Presented /\ VerifiedIsTrue
    BY DEF LightInv
<1>2. ASSUME NEW next \in Checkpoints, NEW claim \in SetClaims(trusted.state),
             FollowForward(next, claim)
      PROVE  LightInv'
    <2>1. FollowedIsTrue' /\ trusted' \in Presented
        BY <1>1, <1>2, FollowStep
    <2>2. result' = result
        BY <1>2 DEF FollowForward
    <2> QED BY <1>1, <2>1, <2>2 DEF LightInv, VerifiedIsTrue, RootsVouched
<1>3. ASSUME trusted' = trusted, VerifiedIsTrue' PROVE LightInv'
    BY <1>1, <1>3 DEF LightInv, FollowedIsTrue, IsTrue
<1>4. CASE AskAmount
    <2>1. trusted' = trusted
        BY <1>4 DEF AskAmount, Ask
    <2> QED BY <1>1, <1>3, <1>4, <2>1, AmountStep
<1>5. CASE AskAction
    <2>1. trusted' = trusted
        BY <1>5 DEF AskAction, Ask
    <2> QED BY <1>1, <1>3, <1>5, <2>1, ActionStep
<1>6. ASSUME NEW given \in AnchorSets, NEW opts \in AnchorOptions, NEW named,
             FetchAnchoredCheckpoint(given, opts, named)
      PROVE  LightInv'
    <2>1. trusted' = trusted
        BY <1>6 DEF FetchAnchoredCheckpoint
    <2>2. VerifiedIsTrue'
        BY <1>6, AnchorStep
    <2> QED BY <1>3, <2>1, <2>2
<1>7. CASE TakeResult
    <2>1. trusted' = trusted /\ result' = Refused("none")
        BY <1>7 DEF TakeResult
    <2>2. VerifiedIsTrue'
        BY <2>1 DEF VerifiedIsTrue, Refused
    <2> QED BY <1>3, <2>1, <2>2
<1>8. CASE UNCHANGED lightVars
    <2>1. trusted' = trusted /\ result' = result
        BY <1>8 DEF lightVars
    <2> QED BY <1>1, <1>3, <2>1 DEF VerifiedIsTrue, RootsVouched
<1> QED BY <1>2, <1>4, <1>5, <1>6, <1>7, <1>8 DEF LightNext

LEMMA LightAlways == LightSpec => []LightInv
BY LightStarts, LightStep, PTL DEF LightSpec

\* Followed forward from the checkpoint shipped with the SDK, from one proven set
\* of validators to the next, the trusted checkpoint stays the chain's own,
\* however long the chain of steps and whatever the explorer claims
\* (followForward in validator_set_follow.js).
THEOREM FollowingIsSafe == LightSpec => []FollowedIsTrue
<1>1. LightInv => FollowedIsTrue
    BY DEF LightInv
<1> QED BY <1>1, LightAlways, PTL

\* Whatever checkpoints and proofs an explorer serves, of whatever chain the
\* validators sign for, what verifies is true unless the caller left it to the
\* explorer to name the validators: where the checkpoint that comes with the
\* answer has its roots signed, or the caller had vouched for it, a balance, a
\* locked balance or an action is that of the chain and the height the checkpoint
\* names; an anchored checkpoint is of the chain asked for.  For trees of any
\* depth and paths of any balance, any stake and any number of heights and chains
\* (verifyBalance, verifyLockedBalance, verifyAction, fetchAnchoredCheckpoint).
THEOREM VerifiedAnswersAreTrue == LightSpec => []VerifiedIsTrue
<1>1. LightInv => VerifiedIsTrue
    BY DEF LightInv
<1> QED BY <1>1, LightAlways, PTL
=============================================================================
