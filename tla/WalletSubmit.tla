---------------------------- MODULE WalletSubmit ----------------------------
(***************************************************************************)
(* One wallet session submitting actions: WalletSession.submit             *)
(* (utils/wallet_session.js), the UTXO cache it shares between submits     *)
(* (carrier/utxo_cache.js) and the lifecycle of one action                 *)
(* (carrier/lifecycle_manager.js and its parts): create, sign, prepare the *)
(* reveal, broadcast, broadcast the reveal, wait for the indexer, and only *)
(* then update the cache.                                                  *)
(*                                                                         *)
(* Submits are numbered in the order of the session's tail promise and run *)
(* one after the other; what interleaves with them is the network, the     *)
(* tracker's lagging view of it, and hydrateUTXOs, which refreshes the     *)
(* cache without queueing.  A coin is a pair <<submit, name>>; coins of    *)
(* submit 0 were there before.                                             *)
(***************************************************************************)
EXTENDS Integers, FiniteSets

CONSTANTS
    Coins,         \* names of the coins the address starts with
    WalletSubmits, \* number of submit() calls
    Encodings,     \* subset of {"inline", "envelope", "chunk"}
    Unconfirmed,   \* values of the caller's `unconfirmed': subset of {"unset", "yes", "no"}
    MaxExplicit,   \* bound on submits that spend utxos the caller brought
    MaxHydrates,   \* bound on hydrateUTXOs calls
    Changes,       \* whether a transaction pays change to the session's address
    Failures,      \* what may fail after a transaction was accepted:
                   \* subset of {"ack", "reveal", "wait"}
    MaxFailures    \* bound on submits that fail so

ASSUME SubmitsAssumption ==
    /\ {WalletSubmits, MaxExplicit, MaxHydrates, MaxFailures} \subseteq Nat
    /\ Failures \subseteq {"ack", "reveal", "wait"}

VARIABLES
    accepted,   \* transactions the network accepted
    mined,      \* submits whose transactions are in a block
    tracker,    \* the UTXO tracker's view: coins, each with its confirmation
    utxos, spent, spec, stale, known,    \* the UTXOCache; known: it has its address
    behind,     \* history: it holds an older view than it once did
    hydrates,   \* hydrateUTXOs calls so far
    views,      \* the answers on their way to a refresh, by who asked; history:
                \* the refreshes in flight it began after, and whether one that
                \* began later was applied already
    cur,        \* the submit at the head of the queue
    task,       \* where it is
    lastTx,     \* history: what the last submit at work broadcast last, in a set
    outcome     \* submit -> "resolved", "rejected", or "early": resolved before
                \* the cache had its address

network == <<accepted, mined, tracker>>
cacheVars == <<utxos, spent, spec, stale, known, behind>>
walletVars == <<accepted, mined, tracker, utxos, spent, spec, stale, known, behind,
                hydrates, views, cur, task, lastTx, outcome>>

Coin(k, name) == <<k, name>>
Initial == {Coin(0, c) : c \in Coins}

\* Coins of a set of entries.
CoinsOf(entries) == {e.coin : e \in entries}

NoJob == [at |-> "idle", opts |-> "unset", offered |-> {}, kind |-> "inline", ins |-> {},
         change |-> {}, ready |-> FALSE, by |-> "session"]

WalletInit ==
    /\ accepted = {} /\ mined = {0}
    /\ tracker = [coin : Initial, conf : {TRUE}]
    /\ utxos = {} /\ spent = {} /\ spec = {} /\ stale = TRUE /\ known = FALSE
    /\ behind = FALSE
    /\ hydrates = 0 /\ views = <<>>
    /\ cur = 1 /\ task = NoJob
    /\ lastTx = {} /\ outcome = <<>>

-----------------------------------------------------------------------------
(* The network and its tracker. *)

Spent == UNION {t.ins : t \in accepted}
Unspent == (Initial \cup UNION {t.outs : t \in accepted}) \ Spent

\* The tracker catches up with the mempool, and with the blocks that have
\* confirmed what was in it.
TrackerSyncs ==
    /\ mined' \in {mined, mined \cup {t.id[1] : t \in accepted}}
    /\ tracker' = {[coin |-> c, conf |-> c[1] \in mined'] : c \in Unspent}
    /\ tracker' # tracker
    /\ UNCHANGED <<accepted, cacheVars, hydrates, views, cur, task, lastTx, outcome>>

-----------------------------------------------------------------------------
(* The UTXO cache. *)

\* getAvailable()
Available(us, sp, gone) == {e \in us \cup sp : e.coin \notin gone}

\* refresh() up to its await: the first one fixes the address, which empties
\* the cache, and asks the encoder for the tracker's view.
RefreshBegin(who) ==
    /\ spent' = IF known THEN spent ELSE {}
    /\ spec' = IF known THEN spec ELSE {}
    /\ known' = TRUE
    /\ views' = [w \in DOMAIN views \cup {who} |->
                    IF w = who THEN [entries |-> tracker, after |-> DOMAIN views, late |-> FALSE]
                    ELSE views[w]]
    /\ UNCHANGED <<utxos, stale, behind>>

\* Mutant: a refresh starts over from the tracker's view.
StillSpeculativeNone(view) == {}

\* What refresh() keeps of the speculative change.
StillSpeculative(view) == {e \in spec : e.coin \notin CoinsOf(view) /\ e.coin \notin spent}

\* A refresh is over; those that began before one that was applied are late.
Answered(who, overtaken) ==
    views' = [w \in DOMAIN views \ {who} |->
                [entries |-> views[w].entries, after |-> views[w].after \ {who},
                 late |-> views[w].late \/ w \in overtaken]]

\* refresh() after its await: the view replaces the confirmed set.
RefreshApply(who) ==
    /\ utxos' = views[who].entries
    /\ spec' = StillSpeculative(views[who].entries)
    /\ stale' = FALSE
    /\ behind' = views[who].late
    /\ Answered(who, views[who].after)
    /\ UNCHANGED <<spent, known>>

\* hydrateUTXOs(): a refresh outside the queue, one at a time.
HydrateBegin ==
    /\ "hydrate" \notin DOMAIN views
    /\ hydrates < MaxHydrates /\ hydrates' = hydrates + 1
    /\ RefreshBegin("hydrate")
    /\ UNCHANGED <<network, cur, task, lastTx, outcome>>

HydrateEnd ==
    /\ "hydrate" \in DOMAIN views
    /\ \/ RefreshApply("hydrate")
       \/ Answered("hydrate", {}) /\ UNCHANGED cacheVars
    /\ UNCHANGED <<network, hydrates, cur, task, lastTx, outcome>>

-----------------------------------------------------------------------------
(* One submit. *)

At(p) == cur <= WalletSubmits /\ task.at = p

\* A submit is over: the tail moves on whatever the outcome.
Finish(how) ==
    /\ outcome' = [k \in 1..cur |-> IF k = cur THEN how ELSE outcome[k]]
    /\ cur' = cur + 1
    /\ task' = NoJob

\* buildEncoderOptions: the coins on offer, none of them when the encoder is to
\* look for itself; a caller that refuses unconfirmed ones may be left without.
Offer(opts, all) ==
    LET confirmed == {e \in all : e.conf}
    IN  IF opts = "no" /\ all # {} /\ confirmed = {} THEN Finish("rejected")
        ELSE /\ task' = [NoJob EXCEPT !.at = "create", !.opts = opts,
                                    !.offered = IF opts = "no" THEN confirmed ELSE all,
                                    !.by = IF all = {} THEN "encoder" ELSE "session"]
             /\ UNCHANGED <<cur, outcome>>

\* loadAvailableUTXOs: a refresh when the cache was never loaded, the caller
\* asked for unconfirmed coins or nothing is available.
Load ==
    /\ At("idle")
    /\ \E o \in Unconfirmed :
          IF o = "yes" \/ stale \/ Available(utxos, spec, spent) = {}
          THEN /\ RefreshBegin("submit")
               /\ task' = [NoJob EXCEPT !.at = "load", !.opts = o]
               /\ UNCHANGED <<cur, outcome>>
          ELSE /\ Offer(o, Available(utxos, spec, spent))
               /\ UNCHANGED <<cacheVars, views>>
    /\ lastTx' = {}
    /\ UNCHANGED network

\* The view arrives, or the request fails and the submit with it.
LoadEnd ==
    /\ At("load")
    /\ \/ /\ RefreshApply("submit")
          /\ Offer(task.opts, Available(utxos', spec', spent))
       \/ Answered("submit", {}) /\ Finish("rejected") /\ UNCHANGED cacheVars
    /\ UNCHANGED <<network, lastTx>>

\* The caller brings its own utxos; the cache is not consulted.
LoadExplicit ==
    /\ At("idle")
    /\ Cardinality({t \in accepted : t.by = "caller"}) < MaxExplicit
    /\ \E e \in tracker :
          /\ e.coin \notin Spent
          /\ task' = [NoJob EXCEPT !.at = "create", !.offered = {e}, !.by = "caller"]
    /\ lastTx' = {}
    /\ UNCHANGED <<network, cacheVars, views, cur, outcome>>

\* Mutant: a rejection leaves the tail where it is.
RejectWedged ==
    /\ outcome' = outcome
    /\ task' = [task EXCEPT !.at = "stuck"]
    /\ UNCHANGED <<network, cacheVars, views, cur, lastTx>>

Reject == Finish("rejected") /\ UNCHANGED <<network, cacheVars, views, lastTx>>

\* What the encoder selects from: the offer, or its own fetch of the tracker.
Selectable ==
    IF task.offered # {} THEN task.offered ELSE {e \in tracker : task.opts = "no" => e.conf}

\* Resolvers, createTx, carrier and reconcile gates, signing: any of them may
\* throw; nothing has left the machine.
Create ==
    /\ At("create")
    /\ \/ Reject
       \/ /\ \E e \in Selectable, kind \in Encodings, change \in Changes :
                task' = [NoJob EXCEPT !.at = IF kind = "inline" THEN "broadcast" ELSE "prepare",
                                    !.kind = kind, !.ins = {e.coin}, !.by = task.by,
                                    !.change = IF change THEN {Coin(cur, "change")} ELSE {}]
          /\ UNCHANGED <<network, cacheVars, views, cur, lastTx, outcome>>

\* prepareEnvelope and prepareChunkReveal: the reveal is built, bound and
\* signed before the commit goes out.
Prepare ==
    /\ At("prepare")
    /\ \/ Reject
       \/ /\ task' = [task EXCEPT !.at = "broadcast", !.ready = TRUE]
          /\ UNCHANGED <<network, cacheVars, views, cur, lastTx, outcome>>

FirstTx ==
    [id |-> <<cur, "tx">>, by |-> task.by, ins |-> task.ins,
     outs |-> task.change \cup (IF task.kind = "inline" THEN {} ELSE {Coin(cur, "fund")})]

RevealTx ==
    [id |-> <<cur, "reveal">>, by |-> "itself", ins |-> {Coin(cur, "fund")}, outs |-> {Coin(cur, "rest")}]

AfterFirst == IF task.kind = "inline" THEN "wait" ELSE "reveal"

\* The node takes a transaction whose inputs exist and are unspent.
Acceptable(tx) == tx.ins \subseteq Unspent

BroadcastAccepted(tx) ==
    /\ Acceptable(tx)
    /\ accepted' = accepted \cup {tx}
    /\ lastTx' = {tx}

BroadcastRefused(tx) ==
    /\ lastTx' = {tx}
    /\ UNCHANGED accepted

\* A submit may still fail in this way after a transaction of its is out.
MayFail(how) ==
    /\ how \in Failures
    /\ Cardinality({k \in DOMAIN outcome :
          outcome[k] = "rejected" /\ \E t \in accepted : t.id[1] = k}) < MaxFailures

Broadcast ==
    /\ At("broadcast")
    /\ UNCHANGED <<mined, tracker, cacheVars, views>>
    /\ \/ /\ BroadcastAccepted(FirstTx)
          /\ task' = [task EXCEPT !.at = AfterFirst]
          /\ UNCHANGED <<cur, outcome>>
       \/ BroadcastRefused(FirstTx) /\ Finish("rejected")
       \/ MayFail("ack") /\ BroadcastAccepted(FirstTx) /\ Finish("rejected")

BroadcastReveal ==
    /\ At("reveal")
    /\ UNCHANGED <<mined, tracker, cacheVars, views>>
    /\ \/ /\ BroadcastAccepted(RevealTx)
          /\ task' = [task EXCEPT !.at = "wait"]
          /\ UNCHANGED <<cur, outcome>>
       \/ MayFail("reveal") /\ BroadcastRefused(RevealTx) /\ Finish("rejected")

\* waitForTxid and waitForContract: a timeout or an invalid status rejects.
WaitFails == At("wait") /\ MayFail("wait") /\ Reject

\* shapeResult: what the phases spent, and the change that survives them.
SpentInputs == task.ins \cup (IF task.kind = "inline" THEN {} ELSE {Coin(cur, "fund")})

ChangeOutputs ==
    {[coin |-> c, conf |-> FALSE] :
        c \in task.change \cup (IF task.kind = "inline" THEN {} ELSE {Coin(cur, "rest")})}

Resolve == Finish(IF known THEN "resolved" ELSE "early")

\* Mutant: only the change is registered.
TrackUnmarked ==
    /\ At("wait")
    /\ spec' = spec \cup ChangeOutputs
    /\ Resolve
    /\ UNCHANGED <<network, utxos, spent, stale, known, behind, views, lastTx>>

\* submitAndTrack, once submitAction resolves.
Track ==
    /\ At("wait")
    /\ spent' = spent \cup SpentInputs
    /\ spec' = spec \cup ChangeOutputs
    /\ Resolve
    /\ UNCHANGED <<network, utxos, stale, known, behind, views, lastTx>>

Step ==
    /\ \/ Load \/ LoadEnd \/ LoadExplicit \/ Create \/ Prepare
       \/ Broadcast \/ BroadcastReveal \/ WaitFails \/ Track
    /\ UNCHANGED hydrates

WalletNext == Step \/ HydrateBegin \/ HydrateEnd \/ TrackerSyncs

WalletSpec == WalletInit /\ [][WalletNext]_walletVars

-----------------------------------------------------------------------------
WalletTypeOK ==
    /\ cur \in 1..(WalletSubmits + 1)
    /\ stale \in BOOLEAN /\ hydrates \in 0..MaxHydrates
    /\ task.at \in {"idle", "load", "create", "prepare", "broadcast", "reveal", "wait"}
    /\ DOMAIN outcome = 1..(cur - 1)
    /\ \A e \in utxos \cup spec \cup tracker \cup task.offered :
          e.conf \in BOOLEAN /\ e.coin[1] \in 0..WalletSubmits
    /\ Cardinality(lastTx) <= 1

\* The session never sends a transaction that spends what an earlier submit
\* already spent (utxo_cache.js: the cache "prevents double-spend when
\* sending rapid sequential transactions from the same address").
NoSelfConflict ==
    \A s \in lastTx, t \in accepted : t.id[1] < s.id[1] => s.ins \cap t.ins = {}

\* ... and in particular what the session offers is never spent by a submit that
\* resolved, however the submits between them ended, refreshes overlap or fail,
\* and whether change comes back or not.  The encoder's own choice and the
\* caller's are not the session's, and what resolved before the session had
\* asked for any coin is forgotten by the first refresh (utxo_cache.js,
\* markSpent, getAvailable and refresh).
ResolvedNeverRespent ==
    \A s \in lastTx, t \in accepted :
        /\ s.by = "session"
        /\ t.id[1] < s.id[1]
        /\ outcome[t.id[1]] = "resolved"
        => s.ins \cap t.ins = {}

\* The change of a submit that resolved is on offer to the next ones until it
\* is spent, whatever the tracker has seen (submitAndTrack: "Registering the
\* change is what makes the NEXT submit spend THIS one's output").  An older
\* view that arrives after a newer one may hide it; the newest brings it back.
ChangeStaysAvailable ==
    ~behind =>
        \A k \in DOMAIN outcome : outcome[k] = "resolved" =>
            \A c \in Unspent : c[1] = k => c \in CoinsOf(Available(utxos, spec, spent))
=============================================================================
