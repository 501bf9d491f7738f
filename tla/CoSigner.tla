------------------------------- MODULE CoSigner -------------------------------
(***************************************************************************)
(* The co-signer daemon: CoSigner.process (cosigner/co_signer/*.js), the   *)
(* decoding of the action a PSBT carries (cosigner/psbt_action_decode.js,  *)
(* cosigner/envelope.js) and the rolling window it charges                 *)
(* (cosigner/window_store/window_ledger.js).  process() is synchronous and *)
(* the daemon is the ledger's only writer (WindowLock), so one request is  *)
(* one step; what interleaves is time, the host clock, restarts, failing   *)
(* writes and the order in which the agent sends its requests.             *)
(*                                                                         *)
(* A request is a PSBT reduced to what process() reads:                    *)
(*    txid, prev0   its txid and the txid input 0 spends from              *)
(*    ins, ask      the scripts its inputs spend; the inputs to sign       *)
(*    leaf0         the envelope whose leaf input 0 presents, or Undefined *)
(*    env           the envelope named in the request, or Undefined        *)
(*    outs          the outputs, each with a script and a value            *)
(*    carried       the action in its data carrier, or Undefined           *)
(*    inValue       the sum of its inputs                                  *)
(*    sighash       "default" or another sighash type                      *)
(*    nonces        whether every asked input comes with a usable nonce    *)
(* A leaf on another input than the first is refused by the decoder and    *)
(* left out.                                                               *)
(***************************************************************************)
EXTENDS PolicyEvaluator, Sequences

CONSTANTS
    Hours,         \* length of the window, in units of time
    Skew,          \* CLOCK_SKEW_TOLERANCE_MS, in the same unit
    Policies,      \* the configurations of the daemon
    MaxFee,        \* maxFeeSats, or Unset
    PayeeCap,      \* maxValue of the one allowed output
    AllowConfirmable,
    MaxInputs,     \* maxCosignInputs
    ActionOf,      \* envelope -> the action its leaf declares
    OwnEnvelopes,  \* envelopes whose leaf commits to this account's key
    Requests,      \* the requests the agent may send
    ClockSteps,    \* how far the host clock may be stepped at once
    MaxTime,       \* bound on real time
    MaxRecords     \* bound on the number of rows written

ASSUME HoursAssumption == Hours \in Nat /\ Skew \in Nat
ASSUME StepAssumption == ClockSteps \subseteq Int

\* The limits an operator writes: a count, and decimal amounts.
ASSUME PolicyAssumption ==
    \A p \in Policies :
        /\ p.maxActions \in Nat \cup {Unset}
        /\ \A k \in DOMAIN p.perTick : p.perTick[k] \in Nat /\ p.perTick[k] # Undefined

\* Values are satoshis, which a PSBT cannot encode below zero.
ASSUME ValueAssumption ==
    /\ MaxFee \in Nat \cup {Unset} /\ PayeeCap \in Nat
    /\ \A r \in Requests : /\ r.inValue \in Nat /\ Len(r.outs) \in Nat
                           /\ \A i \in 1..Len(r.outs) : r.outs[i].value \in Nat

\* A txid names one transaction: what input 0 spends is an output of it.
ASSUME TxidAssumption ==
    \A q, r \in Requests :
        q.txid = r.prev0 => \E i \in 1..Len(q.outs) : q.outs[i].to = r.ins[1]

ASSUME BoundsAssumption == MaxTime \in Nat /\ MaxRecords \in Nat

VARIABLES
    policy,    \* the configured policy
    real,      \* real time; no component reads it
    clock,     \* the host clock the daemon reads
    cache,     \* the window entries in memory
    file,      \* the window entries on disk
    rows,      \* rows made so far, an entry's identity
    charges,   \* charges a signature was released for, in real time
    last       \* the request whose signatures the last step released

storeVars == <<cache, file, rows, charges>>
vars == <<policy, real, clock, cache, file, rows, charges, last>>

Account == <<"account">>
Foreign == <<"foreign">>
Payee == <<"payee">>
OpReturn == <<"opreturn">>
CommitOf(env) == <<"commit", env>>

Idle == [req |-> Undefined, role |-> "plain", act |-> Undefined, approved |-> FALSE]

Init ==
    /\ policy \in Policies
    /\ real = 0
    /\ clock = Hours
    /\ cache = {} /\ file = {} /\ rows = 0
    /\ charges = {}
    /\ last = Idle

-----------------------------------------------------------------------------
OutsTo(r, script) == {i \in 1..Len(r.outs) : r.outs[i].to = script}

ValueOf(r, I) ==
    LET V(i) == r.outs[i].value IN MapThenSumSet(V, I)

\* readRequest and validateInputs: a bounded request for inputs that all
\* spend one script.
WellFormed(r) ==
    /\ r.ask # {}
    /\ Cardinality(r.ask) <= MaxInputs /\ Len(r.ins) <= MaxInputs
    /\ r.ask \subseteq 1..Len(r.ins)
    /\ \A i, j \in r.ask : r.ins[i] = r.ins[j]

\* deriveEnvelope and classifyEnvelopeRole: the role follows from the PSBT and
\* the envelope script, never from the caller's word.
Role(r) ==
    IF r.env = Undefined THEN "plain"
    ELSE IF r.env \notin OwnEnvelopes THEN "invalid"
    ELSE IF r.ins[1] = CommitOf(r.env)
         THEN IF r.leaf0 = Undefined THEN "cancel"
              ELSE IF r.leaf0 = r.env THEN "reveal" ELSE "invalid"
    ELSE IF OutsTo(r, CommitOf(r.env)) # {} THEN "commit"
    ELSE "invalid"

\* extractInlineActionString: the action of the one data carrier.
InlineAction(r) ==
    IF Cardinality(OutsTo(r, OpReturn)) = 1 THEN r.carried ELSE Undefined

\* extractEnvelopeActionString: the action of the leaf input 0 presents, which
\* may not be mixed with a data carrier.
LeafAction(r) ==
    IF OutsTo(r, OpReturn) # {} THEN Undefined ELSE ActionOf[r.leaf0]

\* decodeEnvelopeAction and decodeActionFromPsbt: a commit or a cancel stands
\* for the action of the envelope script itself.
Decoded(r) ==
    IF Role(r) \in {"commit", "cancel"} THEN ActionOf[r.env]
    ELSE IF r.leaf0 # Undefined THEN LeafAction(r) ELSE InlineAction(r)

\* resolveValue binds a cap to an amount or to nothing.
ASSUME AmountAssumption ==
    \A r \in Requests : Decoded(r) # Undefined => Decoded(r).amount \in Int \cup {Undefined}

\* pruned(): entries the window still covers, by the host clock.
Live(entries) == {e \in entries : e.t >= clock - Hours}

\* Mutant: the reveal is judged on the window including its own commit.
SnapshotFull(r) == Live(cache)

\* snapshot() and snapshotExcludingTxid(): a reveal is judged on the window
\* its commit was judged on.
Snapshot(r) ==
    IF Role(r) = "reveal" THEN {e \in Live(cache) : e.txid # r.prev0} ELSE Live(cache)

\* evaluateRequest: policy, unless the request is a cancel, which publishes no
\* action; a headless daemon refuses what needs confirmation.
PolicyAllows(r) ==
    \/ Role(r) = "cancel"
    \/ /\ Permits(policy, Decoded(r), Snapshot(r))
       /\ NeedsConfirmation(policy, Decoded(r)) => AllowConfirmable

-----------------------------------------------------------------------------
\* The script a signed input must spend: this account's, or for a reveal or a
\* cancel the commit output derived from the account's key and the leaf.
ExpectedScript(r) ==
    IF Role(r) \in {"reveal", "cancel"} THEN CommitOf(r.env) ELSE Account

\* checkPrevouts and checkSource.
InputsAreOurs(r) ==
    /\ \A i \in r.ask : r.ins[i] = ExpectedScript(r)
    /\ 1 \in r.ask

\* Mutant: an envelope request may carry a data carrier too.
OutputsAllowedMixed(r) ==
    LET role == Role(r)
        commits == IF role = "commit" THEN OutsTo(r, CommitOf(r.env)) ELSE {}
        carriers == OutsTo(r, OpReturn)
        payees == OutsTo(r, Payee)
    IN  /\ 1..Len(r.outs) = OutsTo(r, Account) \cup commits \cup carriers \cup payees
        /\ \A i \in carriers : r.outs[i].value = 0
        /\ Cardinality(commits) <= 1
        /\ \A i \in commits : MaxFee # Unset /\ r.outs[i].value <= MaxFee
        /\ ValueOf(r, payees) <= PayeeCap

\* Mutant: every allowed output is held to the cap by itself.
OutputsAllowedEach(r) ==
    LET role == Role(r)
        commits == IF role = "commit" THEN OutsTo(r, CommitOf(r.env)) ELSE {}
        carriers == OutsTo(r, OpReturn)
        payees == OutsTo(r, Payee)
    IN  /\ 1..Len(r.outs) = OutsTo(r, Account) \cup commits \cup carriers \cup payees
        /\ \A i \in carriers : role = "plain" /\ r.outs[i].value = 0
        /\ Cardinality(commits) <= 1
        /\ \A i \in commits : MaxFee # Unset /\ r.outs[i].value <= MaxFee
        /\ \A i \in payees : r.outs[i].value <= PayeeCap

\* checkOutputs: change to the account, a data carrier without value outside
\* envelopes, at most one commit output no larger than maxFeeSats, and allowed
\* outputs whose sum stays within their cap.
OutputsAllowed(r) ==
    LET role == Role(r)
        commits == IF role = "commit" THEN OutsTo(r, CommitOf(r.env)) ELSE {}
        carriers == OutsTo(r, OpReturn)
        payees == OutsTo(r, Payee)
    IN  /\ 1..Len(r.outs) = OutsTo(r, Account) \cup commits \cup carriers \cup payees
        /\ \A i \in carriers : role = "plain" /\ r.outs[i].value = 0
        /\ Cardinality(commits) <= 1
        /\ \A i \in commits : MaxFee # Unset /\ r.outs[i].value <= MaxFee
        /\ ValueOf(r, payees) <= PayeeCap

\* checkFee: no negative fee, no whole-input burn, no fee above the cap.
FeeAllowed(r) ==
    LET out == ValueOf(r, 1..Len(r.outs))
    IN  /\ out <= r.inValue
        /\ r.inValue > 0 => out > 0
        /\ MaxFee # Unset => r.inValue - out <= MaxFee

\* checkTransaction, then signInputs: one partial signature per input.
Signable(r) ==
    /\ InputsAreOurs(r) /\ OutputsAllowed(r) /\ FeeAllowed(r)
    /\ r.sighash = "default" /\ r.nonces

\* The request got as far as the window snapshot, which prunes the cache.
Evaluated(r) == WellFormed(r) /\ Role(r) # "invalid" /\ Decoded(r) # Undefined

Approved(r) == Evaluated(r) /\ PolicyAllows(r) /\ Signable(r)

\* An envelope is charged once, at the commit.
Charged(r) == Role(r) \in {"plain", "commit"}

\* The response that releases the signatures.
Release(r) ==
    last' = [req |-> r, role |-> Role(r), act |-> Decoded(r), approved |-> TRUE]

\* The window row of a request; the action's name is an audit field.
Entry(r) ==
    [id |-> rows + 1, t |-> clock, tick |-> ResolveTick(policy, Decoded(r)),
     amount |-> Decoded(r).amount, txid |-> r.txid]

Deny(r) ==
    /\ ~Approved(r)
    /\ cache' = IF Evaluated(r) THEN Live(cache) ELSE cache
    /\ last' = Idle
    /\ UNCHANGED <<policy, real, clock, file, rows, charges>>

\* A reveal or a cancel: signed, never recorded.
ApproveUncharged(r) ==
    /\ Approved(r) /\ ~Charged(r)
    /\ cache' = Live(cache)
    /\ Release(r)
    /\ UNCHANGED <<policy, real, clock, file, rows, charges>>

\* recordBudget: the row reaches the disk, then the signature leaves.
ApproveCharged(r) ==
    /\ Approved(r) /\ Charged(r) /\ rows < MaxRecords
    /\ rows' = rows + 1
    /\ cache' = Live(cache) \cup {Entry(r)}
    /\ file' = cache'
    /\ charges' = charges \cup {[id |-> rows', at |-> real, tick |-> Entry(r).tick,
                                 amount |-> Entry(r).amount, txid |-> r.txid]}
    /\ Release(r)
    /\ UNCHANGED <<policy, real, clock>>

\* record() throws: nothing is signed.  A failing write leaves the row in the
\* cache; a fenced store refuses before making one.
RecordFails(r) ==
    /\ Approved(r) /\ Charged(r) /\ rows < MaxRecords
    /\ rows' = rows + 1
    /\ cache' \in {Live(cache), Live(cache) \cup {Entry(r)}}
    /\ last' = Idle
    /\ UNCHANGED <<policy, real, clock, file, charges>>

\* process(): an approved request that would make row MaxRecords + 1 is the
\* one request the bound leaves out.
Process(r) == Deny(r) \/ ApproveUncharged(r) \/ ApproveCharged(r) \/ RecordFails(r)

\* applyClockGuards: an entry from the future is dated now and kept.
Clamp(entries) ==
    {IF e.t > clock + Skew THEN [e EXCEPT !.t = clock] ELSE e : e \in entries}

\* The daemon stops, for whatever reason, and a new one loads the file.
Restart ==
    /\ cache' = Clamp(file)
    /\ last' = Idle
    /\ UNCHANGED <<policy, real, clock, file, rows, charges>>

Tick ==
    /\ real < MaxTime
    /\ real' = real + 1
    /\ clock' = clock + 1
    /\ last' = Idle
    /\ UNCHANGED <<policy, storeVars>>

\* Somebody, or NTP, steps the host clock.
StepClock(d) ==
    /\ clock + d >= 0
    /\ clock' = clock + d
    /\ last' = Idle
    /\ UNCHANGED <<policy, real, storeVars>>

Next ==
    \/ \E r \in Requests : Process(r)
    \/ Restart
    \/ Tick
    \/ \E d \in ClockSteps : StepClock(d)

Spec == Init /\ [][Next]_vars

-----------------------------------------------------------------------------
\* Every row in memory or on disk is one the loader accepts back, with an
\* identity of its own; the sets are finite.
TypeOK ==
    /\ policy \in Policies
    /\ real \in 0..MaxTime
    /\ clock \in Int
    /\ rows \in 0..MaxRecords
    /\ \A e \in cache \cup file : /\ DOMAIN e = {"id", "t", "tick", "amount", "txid"}
                                  /\ e.id \in 1..rows /\ e.t \in Int
    /\ \A c \in charges : c.id \in 1..rows /\ c.at \in 0..real
    /\ IsFiniteSet(cache) /\ IsFiniteSet(file) /\ IsFiniteSet(charges)

Budget == INSTANCE SpendingWindow

\* The entries hold, for every charge of the last Hours of real time, a row
\* that is no older by the host clock than the charge is in truth.
Remembers(entries) ==
    \A c \in charges : real - c.at <= Hours =>
        \E e \in entries : /\ e.id = c.id /\ e.tick = c.tick /\ e.amount = c.amount
                           /\ clock - e.t <= real - c.at

\* No charge is forgotten early, by the running daemon or by the next one that
\* loads the file: pruning, failing writes, restarts and the clamping of dates
\* that lie ahead never make a charge look older than it is, as long as the
\* clock only steps back (window_ledger.js, applyClockGuards: "a BACKWARD step
\* is harmless for the budget").
ChargesRemembered == Remembers(cache) /\ Remembers(file)

\* No window of real time ever holds more charges than maxActions
\* (evaluate_policy.js, checkWindow).
CountCap ==
    policy.maxActions # Unset =>
        Cardinality(Budget!Window(charges, real)) <= policy.maxActions

\* The daemon implements the promise of the spending window, count and amounts,
\* in real time, through restarts, failing writes, references, spellings,
\* envelopes and every backward step of the clock (evaluate_policy.js,
\* window_ledger.js).
ImplementsBudget == Budget!Spec

\* A commit that was signed can be revealed: with the clock where it was and
\* no other charge since, the window does not turn its own reveal away
\* (window_ledger.js, snapshotExcludingTxid).
RevealNotStranded ==
    \A r \in Requests :
        (/\ Role(r) = "reveal" /\ WellFormed(r) /\ Signable(r)
         /\ \E e \in Live(cache) : e.txid = r.prev0 /\ \A f \in cache : f.id <= e.id
         /\ \E c \in charges : c.txid = r.prev0 /\ c.id = rows)
            => PolicyAllows(r)

\* What the chain executes for a transaction (the indexer's arbitration,
\* src/src/cosigner/psbt_action_decode/action_string_extract.js): the leaf
\* input 0 reveals, if no data carrier is mixed in, else the one data carrier.
Published(r) ==
    IF r.leaf0 # Undefined /\ r.ins[1] = CommitOf(r.leaf0)
    THEN LeafAction(r) ELSE InlineAction(r)

\* Whatever action a signed transaction publishes from this account is one the
\* policy allows (output_policy.js, inspectDataCarrier: no "SECOND action that
\* nothing in this daemon judged").
NothingUnjudged ==
    last.approved /\ Published(last.req) # Undefined
        => /\ Published(last.req).name \in policy.actions
           /\ ~FailsActionCap(policy, Published(last.req))
           /\ Published(last.req) = last.act

\* Native coin leaves the account only as the fee, to the allowed payee and
\* into one commit output, each within its bound (output_policy.js).
OutflowBounded ==
    last.approved /\ MaxFee # Unset =>
        LET r == last.req
            change == ValueOf(r, OutsTo(r, Account))
        IN  r.inValue - change <= PayeeCap + (IF last.role = "commit" THEN 2 ELSE 1) * MaxFee

\* Every action published through an envelope was charged to the window
\* (sign_request.js: "the reveal only spends the commit output the window
\* already paid for").
RevealsWerePaidFor ==
    last.approved /\ last.role = "reveal"
        => \E c \in charges : c.txid = last.req.prev0
=============================================================================
