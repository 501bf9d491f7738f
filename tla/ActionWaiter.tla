---------------------------- MODULE ActionWaiter ----------------------------
(***************************************************************************)
(* Waiting for an action (utils/action_waiter.js and action_waiter/*.js):  *)
(* a wait polls the explorer, listens to the feed and has a deadline.      *)
(* Polls are started by an interval, so several can be under way and their *)
(* answers come in any order; an answer says what the explorer knew when   *)
(* it was asked.  The transaction's actions are indexed together, each     *)
(* with a status or, at first, without.                                    *)
(***************************************************************************)
EXTENDS Integers, FiniteSets

CONSTANTS
    Acts,       \* the ACTION_INDEX values of the transaction
    MaxPolls    \* bound on the polls of one wait

\* A transaction has finitely many actions.
ASSUME ActsAssumption == IsFiniteSet(Acts)

VARIABLES
    ask,        \* the call: kind, target, requireValid, strictStatus, useWebSocket
    ledger,     \* act -> "none", "unknown", "valid", "invalid" or "cancelled"
    contract,   \* whether the contract has reached the awaited value
    events,     \* NEW_ACTION frames under way
    inFlight,   \* polls under way: what the explorer answered
    polls,      \* polls started
    listening,  \* the NEW_ACTION handler is on
    interval,   \* the polling interval: "none", "starting" or "on"
    sawUnknown, \* unknownResult is set
    ended       \* the promise: "open" or how it was settled

waitVars == <<ask, ledger, contract, events, inFlight, polls, listening, interval, sawUnknown, ended>>

Asks == [kind : {"txid"}, target : (SUBSET Acts) \ {{}}, requireValid : BOOLEAN,
         strictStatus : BOOLEAN, useWebSocket : BOOLEAN]
        \cup [kind : {"index"}, target : {{a} : a \in Acts}, requireValid : {FALSE},
              strictStatus : {FALSE}, useWebSocket : {FALSE}]
        \cup [kind : {"contract"}, target : {{}}, requireValid : {FALSE},
              strictStatus : {FALSE}, useWebSocket : {FALSE}]

WaitAsks == {a \in Asks : Cardinality(a.target) = 1 \/ a.target \in {{}, Acts}}

\* waitForTxid without actionIndex is about every action of the transaction.
Targeted == Cardinality(ask.target) = 1 /\ ask.target # Acts

WaitInit(asks) ==
    /\ ask \in asks
    /\ ledger = [a \in Acts |-> "none"] /\ contract = FALSE
    /\ events = {} /\ inFlight = {} /\ polls = 0
    /\ listening = (ask.kind = "txid" /\ ask.useWebSocket)
    /\ interval = "starting"
    /\ sawUnknown = FALSE /\ ended = "open"

-----------------------------------------------------------------------------
(* The chain *)

\* A block with the transaction is indexed, and pushed.
Indexed ==
    /\ ledger = [a \in Acts |-> "none"]
    /\ \E st \in [Acts -> {"unknown", "valid", "invalid", "cancelled"}] :
          /\ ledger' = st
          /\ events' = {[act |-> a, status |-> st[a]] : a \in Acts}
    /\ UNCHANGED <<ask, contract, inFlight, polls, listening, interval, sawUnknown, ended>>

\* A status that was missing is filled in.
StatusKnown ==
    \E a \in Acts, st \in {"valid", "invalid"} :
        /\ ledger[a] = "unknown"
        /\ ledger' = [ledger EXCEPT ![a] = st]
        /\ UNCHANGED <<ask, contract, events, inFlight, polls, listening, interval, sawUnknown, ended>>

\* The contract executes the action, in a later block.
Executes ==
    /\ ~contract /\ \E a \in Acts : ledger[a] = "valid"
    /\ contract' = TRUE
    /\ UNCHANGED <<ask, ledger, events, inFlight, polls, listening, interval, sawUnknown, ended>>

-----------------------------------------------------------------------------
(* The wait *)

\* settleTxidWait: the first to settle wins, and takes everything down.
Settle(how) ==
    /\ ended' = how
    /\ interval' = "none"
    /\ listening' = FALSE

\* pollForTxid, poll, readOnce: the explorer is asked.  pollUntil asks again only
\* after its answer.
Poll ==
    /\ ended = "open" /\ polls < MaxPolls
    /\ ask.kind = "contract" => inFlight = {}
    /\ inFlight' = inFlight \cup {[ledger |-> ledger, contract |-> contract]}
    /\ polls' = polls + 1
    /\ interval' = "on"
    /\ UNCHANGED <<ask, ledger, contract, events, listening, sawUnknown, ended>>

\* The explorer does not answer: the error is swallowed.
PollFails ==
    /\ ended = "open" /\ polls < MaxPolls
    /\ polls' = polls + 1 /\ interval' = "on"
    /\ UNCHANGED <<ask, ledger, contract, events, inFlight, listening, sawUnknown, ended>>

Found(snap) == {a \in ask.target : snap.ledger[a] # "none"}

\* Mutant: the first action found speaks for the transaction.
RejectedByFirst(snap) ==
    ask.requireValid /\ \A a \in Found(snap) : snap.ledger[a] = "invalid"

\* classifyTransactionResult: one invalid target rejects the wait; "cancelled"
\* and the like are reported, not rejected.
Rejected(snap) == ask.requireValid /\ \E a \in Found(snap) : snap.ledger[a] = "invalid"

StatusMissing(snap) == \E a \in Found(snap) : snap.ledger[a] = "unknown"

\* classifyState, classifyBalance: the awaited value, or at least the quantity.
ValueReached(snap) == snap.contract

\* resolvePolledTransaction; an answer after the end is ignored.
Answered(snap) ==
    /\ snap \in inFlight
    /\ inFlight' = inFlight \ {snap}
    /\ IF \/ ended # "open"
          \/ ask.kind = "contract" /\ ~ValueReached(snap)
          \/ ask.kind # "contract" /\ Found(snap) = {}
       THEN UNCHANGED <<interval, listening, ended, sawUnknown>>
       ELSE IF ask.kind # "txid" THEN Settle("resolved") /\ UNCHANGED sawUnknown
       ELSE IF Rejected(snap) THEN Settle("rejected") /\ UNCHANGED sawUnknown
       ELSE /\ sawUnknown' = (sawUnknown \/ StatusMissing(snap))
            /\ IF StatusMissing(snap)
               THEN IF ask.requireValid /\ ask.strictStatus
                    THEN UNCHANGED <<interval, listening, ended>>
                    ELSE Settle("assumed")
               ELSE Settle("resolved")
    /\ UNCHANGED <<ask, ledger, contract, events, polls>>

\* handleTxidEvent: an event of the target settles the wait if it bears a
\* status, any other makes the waiter poll.
Event(e) ==
    /\ e \in events
    /\ events' = events \ {e}
    /\ IF ~listening \/ ended # "open" \/ (Targeted /\ e.act \notin ask.target)
       THEN UNCHANGED <<inFlight, polls, interval, listening, ended>>
       ELSE IF Targeted /\ e.status # "unknown"
       THEN /\ Settle(IF ask.requireValid /\ e.status = "invalid" THEN "rejected" ELSE "resolved")
            /\ UNCHANGED <<inFlight, polls>>
       ELSE /\ inFlight' = inFlight \cup {[ledger |-> ledger, contract |-> contract]}
            /\ UNCHANGED <<polls, interval, listening, ended>>
    /\ UNCHANGED <<ask, ledger, contract, sawUnknown>>

\* startTxidTimeout: the deadline tells a missing status from a missing
\* transaction.
Deadline ==
    /\ ended = "open"
    /\ Settle(IF ask.kind = "txid" /\ ask.strictStatus /\ ask.requireValid /\ sawUnknown
              THEN "statusUnknown" ELSE "timeout")
    /\ UNCHANGED <<ask, ledger, contract, events, inFlight, polls, sawUnknown>>

WaitNext ==
    \/ Indexed \/ StatusKnown \/ Executes
    \/ Poll \/ PollFails
    \/ \E snap \in inFlight : Answered(snap)
    \/ \E e \in events : Event(e)
    \/ Deadline

WaitSpec(asks) == WaitInit(asks) /\ [][WaitNext]_waitVars

-----------------------------------------------------------------------------
\* What a wait reports is so, in whatever order answers and events arrive:
\* "resolved" with every awaited status known and, if the caller wants valid
\* actions, none of them invalid; "rejected" for an invalid one; a missing status
\* is only ever assumed valid when strictStatus is off (action_waiter.js).
WaitTellsTheTruth ==
    /\ ended = "resolved" /\ ask.kind = "txid" =>
          \A a \in ask.target : /\ ledger[a] \notin {"none", "unknown"}
                                /\ ask.requireValid => ledger[a] # "invalid"
    /\ ended = "resolved" /\ ask.kind = "contract" => contract
    /\ ended = "rejected" => \E a \in ask.target : ledger[a] = "invalid"
    /\ ended = "assumed" => ~(ask.requireValid /\ ask.strictStatus)
    /\ ended = "statusUnknown" => \E a \in ask.target : ledger[a] # "none"
    /\ ended # "open" => ~listening /\ interval = "none"
=============================================================================
