----------------------------- MODULE EventFeed -----------------------------
(***************************************************************************)
(* The event feed of clients/websocket/catch_up.js and message_pump.js:    *)
(* a client with a cursor into the explorer's action log, and the          *)
(* catch-ups by which a reconnect replays what it missed, one subscription *)
(* at a time.  The connection itself is FeedConnection's subject: here it  *)
(* drops, with everything in flight, and comes back.                       *)
(*                                                                         *)
(* The explorer is external.  It appends rows, rolls some back, pushes a   *)
(* row to a connection that has subscribed to it, and answers a            *)
(* subscription that carries a position with the rows after it, at most    *)
(* Cap of them, or an error, or not at all.  It refuses a position that a  *)
(* rollback has invalidated.  An index is a number; 0 is the unset cursor. *)
(***************************************************************************)
EXTENDS Integers, Sequences, SequencesExt, FiniteSets, FiniteSetsExt

CONSTANTS
    None,
    Subs,         \* the tracked subscriptions, a sequence of distinct names
    Seed,         \* rows in the log when the client subscribed
    Cap,          \* rows one replay may carry
    RateRetries,  \* RATE_RETRIES
    MaxRounds,    \* MAX_ROUNDS
    Errors,       \* subset of {"RATE_LIMITED", "CATCH_UP_NOT_READY", "REFUSED", "SILENT"}
    MaxRows,      \* bound on the log
    MaxFaults     \* bound on rollbacks and lost connections together

ASSUME FeedAssumption ==
    /\ {Seed, Cap, RateRetries, MaxRounds, MaxRows, MaxFaults} \subseteq Nat
    /\ Seed > 0 /\ Cap > 0 /\ Seed <= MaxRows
    /\ Subs \in Seq(ToSet(Subs))

VARIABLES
    log,         \* the explorer's rows, each with its subscription and its rollback count
    fork,        \* the lowest index rolled back so far
    rollbacks, drops,
    link,        \* "up" or "down"
    live,        \* the subscriptions the explorer pushes to on this connection
    asks, wire,  \* frames to the explorer and to the client
    cursor,      \* lastActionIndex
    cu,          \* _catchUp
    nextId,
    delivered,   \* history: the rows handed to the handlers
    reports      \* history: resync_required events

SubNames == ToSet(Subs)

\* _catchUp: the subscriptions still to ask for, where the catch-up started, the
\* one being asked for, the highest index seen meanwhile, and the armed timer.
CatchUps ==
    [queue : Seq(SubNames), cursor : Nat,
     current : [sub : SubNames \cup {None}, id : Nat, since : Nat, rounds : Nat, retries : Nat],
     maxSeen : Nat, timer : {"none", "answer", "resend"}]

ASSUME NoneAssumption == None \notin CatchUps

serverVars == <<log, fork, rollbacks>>
linkVars == <<drops, link, live>>
vars == <<log, fork, rollbacks, drops, link, live, asks, wire, cursor, cu, nextId, delivered, reports>>

Init ==
    /\ log \in [1..Seed -> [sub : SubNames, gen : {0}]]
    /\ fork = MaxRows + 1 /\ rollbacks = 0 /\ drops = 0
    /\ link = "up" /\ live = SubNames
    /\ asks = <<>> /\ wire = <<>>
    /\ cursor = Seed /\ cu = None /\ nextId = 1
    /\ delivered = {} /\ reports = {}

-----------------------------------------------------------------------------
(* The explorer. *)

Push(frames) == wire' = wire \o frames

RowFrame(i, row) == [type |-> "NEW_ACTION", index |-> i, row |-> row]

AppendRow ==
    /\ Len(log) < MaxRows
    /\ \E s \in SubNames :
          LET row == [sub |-> s, gen |-> rollbacks] IN
          /\ log' = Append(log, row)
          /\ IF s \in live THEN Push(<<RowFrame(Len(log) + 1, row)>>) ELSE UNCHANGED wire
    /\ UNCHANGED <<fork, rollbacks, linkVars, asks, cursor, cu, nextId, delivered, reports>>

\* Every connection with a subscription is told of a rollback.
Rollback ==
    /\ rollbacks + drops < MaxFaults
    /\ rollbacks' = rollbacks + 1
    /\ \E f \in 2..Len(log) :
          /\ log' = SubSeq(log, 1, f - 1)
          /\ fork' = Min({fork, f})
          /\ IF live # {} THEN Push(<<[type |-> "REORG", first |-> f]>>) ELSE UNCHANGED wire
    /\ UNCHANGED <<linkVars, asks, cursor, cu, nextId, delivered, reports>>

Missed(ask) == {i \in (ask.since + 1)..Len(log) : log[i].sub = ask.sub}

\* The elements of a finite set of numbers, in order.
Ascending(S) == CHOOSE s \in [1..Cardinality(S) -> S] :
                   /\ Range(s) = S
                   /\ \A m, n \in DOMAIN s : m < n => s[m] < s[n]

\* The rows a replay carries, in order.
Replayed(ask) == SubSeq(Ascending(Missed(ask)), 1, Min({Cap, Cardinality(Missed(ask))}))

\* A replay stopped at the cap names the last row it carried.
Complete(ask) ==
    LET rows == Replayed(ask)
        truncated == Len(rows) < Cardinality(Missed(ask))
    IN  [type |-> "CATCH_UP_COMPLETE", id |-> ask.id, truncated |-> truncated,
         latest |-> IF truncated THEN Last(rows) ELSE Len(log)]

Refusal(ask, code) == [type |-> "error", id |-> ask.id, code |-> code]

\* The explorer answers the oldest request on this connection.
Answer ==
    /\ asks # <<>>
    /\ asks' = Tail(asks)
    /\ LET ask == Head(asks) IN
       \/ /\ ask.since < fork
          /\ live' = live \cup {ask.sub}
          /\ Push([n \in 1..Len(Replayed(ask)) |-> RowFrame(Replayed(ask)[n], log[Replayed(ask)[n]])]
                    \o <<Complete(ask)>>)
       \/ /\ ask.since >= fork
          /\ live' \in {live, live \cup {ask.sub}}
          /\ Push(<<Refusal(ask, "CATCH_UP_REORGED")>>)
       \/ \E code \in Errors :
          /\ live' \in IF code = "RATE_LIMITED" THEN {live} ELSE {live, live \cup {ask.sub}}
          /\ IF code = "SILENT" THEN UNCHANGED wire ELSE Push(<<Refusal(ask, code)>>)
    /\ UNCHANGED <<serverVars, drops, link, cursor, cu, nextId, delivered, reports>>

-----------------------------------------------------------------------------
(* The client's catch-up. *)

\* maxIndex and advanceCursor
Higher(a, b) == Max({a, b})

\* belowIndex
Below(current, first) == Min({current, first - 1})

\* sendCatchUp: a fresh id, and a timer.
SendCatchUp(c, since) ==
    /\ cu' = [c EXCEPT !.current.id = nextId, !.current.since = since, !.timer = "answer"]
    /\ asks' = Append(asks, [id |-> nextId, sub |-> c.current.sub, since |-> since])
    /\ nextId' = nextId + 1

Fresh(sub) == [sub |-> sub, id |-> 0, since |-> 0, rounds |-> 0, retries |-> 0]

\* nextCatchUp, and finishCatchUp when none remain.
NextCatchUp(c) ==
    IF c.queue = <<>>
    THEN /\ cu' = None
         /\ cursor' = Higher(cursor, c.maxSeen)
         /\ UNCHANGED <<asks, nextId>>
    ELSE /\ SendCatchUp([c EXCEPT !.queue = Tail(@), !.current = Fresh(Head(c.queue))], c.cursor)
         /\ UNCHANGED cursor

\* Mutant: a refused catch-up is skipped.
RefuseCatchUpQuietly(c, since) == NextCatchUp(c) /\ UNCHANGED reports

\* refuseCatchUp: the caller is told from where to backfill.
RefuseCatchUp(c, since) ==
    /\ reports' = reports \cup {[sub |-> c.current.sub, since |-> since]}
    /\ NextCatchUp(c)

\* answerCatchUp, on an error.
AnswerError(f) ==
    IF f.code \in {"RATE_LIMITED", "CATCH_UP_NOT_READY"} /\ cu.current.retries < RateRetries
    THEN /\ cu' = [cu EXCEPT !.current.retries = @ + 1, !.timer = "resend"]
         /\ UNCHANGED <<cursor, asks, nextId, reports>>
    ELSE RefuseCatchUp(cu, IF f.code = "CATCH_UP_REORGED" THEN Min({cu.current.since, fork - 1})
                           ELSE cu.current.since)

\* answerCatchUp, on CATCH_UP_COMPLETE: a truncated replay is continued from
\* where it stopped.
AnswerComplete(f, c) ==
    IF f.truncated
    THEN IF c.current.rounds + 1 >= MaxRounds
         THEN RefuseCatchUp([c EXCEPT !.current.rounds = @ + 1], c.current.since)
         ELSE /\ SendCatchUp([c EXCEPT !.current.rounds = @ + 1], f.latest)
              /\ UNCHANGED <<cursor, reports>>
    ELSE NextCatchUp(c) /\ UNCHANGED reports

IsAnswer(f) == cu # None /\ cu.current.id = f.id

-----------------------------------------------------------------------------
(* onMessage, one frame at a time. *)

Frame(type) == wire # <<>> /\ Head(wire).type = type /\ wire' = Tail(wire)

\* Mutant: a frame moves the cursor whether or not a catch-up runs.
TrackCursorAlways(index) ==
    /\ cursor' = Higher(cursor, index)
    /\ UNCHANGED cu

\* trackCursor: while a catch-up runs the cursor waits for it.
TrackCursor(index) ==
    IF cu = None
    THEN cursor' = Higher(cursor, index) /\ UNCHANGED cu
    ELSE cu' = [cu EXCEPT !.maxSeen = Higher(@, index)] /\ UNCHANGED cursor

OnNewAction ==
    /\ Frame("NEW_ACTION")
    /\ LET f == Head(wire) IN
       /\ TrackCursor(f.index)
       /\ delivered' = delivered \cup {<<f.index, f.row>>}
    /\ UNCHANGED <<serverVars, linkVars, asks, nextId, reports>>

OnReorg ==
    /\ Frame("REORG")
    /\ LET f == Head(wire) IN
       /\ cursor' = Below(cursor, f.first)
       /\ cu' = IF cu = None THEN None ELSE [cu EXCEPT !.maxSeen = Below(@, f.first)]
    /\ UNCHANGED <<serverVars, linkVars, asks, nextId, delivered, reports>>

OnComplete ==
    /\ Frame("CATCH_UP_COMPLETE")
    /\ LET f == Head(wire) IN
       IF IsAnswer(f)
       THEN AnswerComplete(f, [cu EXCEPT !.maxSeen = Higher(@, f.latest)])
       ELSE TrackCursor(f.latest) /\ UNCHANGED <<asks, nextId, reports>>
    /\ UNCHANGED <<serverVars, linkVars, delivered>>

OnError ==
    /\ Frame("error")
    /\ IF IsAnswer(Head(wire)) THEN AnswerError(Head(wire))
       ELSE UNCHANGED <<cursor, cu, asks, nextId, reports>>
    /\ UNCHANGED <<serverVars, linkVars, delivered>>

\* The backstop: an unanswered request is a refused one.
TimeOut ==
    /\ cu # None /\ cu.timer = "answer"
    /\ RefuseCatchUp(cu, cu.current.since)
    /\ UNCHANGED <<serverVars, linkVars, wire, delivered>>

Resend ==
    /\ cu # None /\ cu.timer = "resend"
    /\ SendCatchUp(cu, cu.current.since)
    /\ UNCHANGED <<serverVars, linkVars, wire, cursor, delivered, reports>>

-----------------------------------------------------------------------------
(* The connection. *)

\* The close handler: what the catch-up saw is not applied.
Drop ==
    /\ link = "up" /\ rollbacks + drops < MaxFaults
    /\ drops' = drops + 1 /\ link' = "down"
    /\ live' = {} /\ asks' = <<>> /\ wire' = <<>>
    /\ cu' = None
    /\ UNCHANGED <<serverVars, cursor, nextId, delivered, reports>>

\* WELCOME, whose tip only seeds an unset cursor, then resubscribe().
Reconnect ==
    /\ link = "down"
    /\ link' = "up"
    /\ NextCatchUp([queue |-> Subs, cursor |-> cursor, current |-> Fresh(None),
                    maxSeen |-> 0, timer |-> "none"])
    /\ UNCHANGED <<serverVars, drops, live, wire, delivered, reports>>

Handle == OnNewAction \/ OnReorg \/ OnComplete \/ OnError

Next ==
    \/ AppendRow \/ Rollback \/ Answer
    \/ Handle \/ TimeOut \/ Resend
    \/ Drop \/ Reconnect

Spec == Init /\ [][Next]_vars

\* Frames arrive, timers fire, and a connection that was lost is made again.
Fairness == WF_vars(Handle) /\ WF_vars(TimeOut) /\ WF_vars(Resend) /\ WF_vars(Reconnect)

FairSpec == Spec /\ Fairness

-----------------------------------------------------------------------------
TypeOK ==
    /\ link \in {"up", "down"} /\ live \subseteq SubNames
    /\ cursor \in 0..MaxRows
    /\ cu # None => /\ cu.current.sub \in SubNames
                    /\ cu.current.id \in 1..(nextId - 1)
                    /\ cu.current.retries \in 0..RateRetries
                    /\ cu.current.rounds \in 0..MaxRounds
                    /\ cu.timer \in {"answer", "resend"}
    /\ \A r \in reports : r.sub \in SubNames /\ r.since \in 0..MaxRows

\* A row was handed over, or the caller was told to backfill from before it.
Accounted(i) ==
    \/ i <= Seed /\ log[i].gen = 0
    \/ <<i, log[i]>> \in delivered
    \/ \E r \in reports : r.sub = log[i].sub /\ r.since < i

\* No silent gap: a row the cursor has passed, which no later reconnect will ask
\* for again, reached the caller or was reported, through drops in the middle
\* of a catch-up, refusals, truncated replays, timeouts and late answers
\* (catch_up.js, dropCatchUp: "the cursor still points before the gap").  A
\* cursor that has passed a row rolled back is refused, and so reported, when
\* it is next used.
NoSilentGap == \A i \in 1..Len(log) : i < fork /\ i <= cursor => Accounted(i)

\* Every row no rollback has touched reaches the caller or is reported, once the
\* connection stops dropping (sendCatchUp: "an unanswered request is treated as
\* refused instead of stalling the queue behind it").
EveryRowArrives == <>[](\A i \in 1..Len(log) : i < fork => Accounted(i))
=============================================================================
