---------------------------- MODULE AgentSession ----------------------------
(***************************************************************************)
(* The policy-guarded agent session (cosigner/agent_session.js): one       *)
(* process, its submits queued on _submitTail, its usage file, the         *)
(* operator's pause and kill switch, crashes and restarts.                 *)
(*                                                                         *)
(* A submit runs from its start to the confirmation handler, from the      *)
(* handler's answer to the broadcast, and from there to the end, with      *)
(* anything in between: that is what the actions below are.  The broadcast *)
(* itself, submitInner, is WalletSubmit's subject; here it ends in one of  *)
(*    "ok"       resolved, with the txid                                   *)
(*    "prior"    thrown before anything was sent                           *)
(*    "timeout"  thrown after it was sent, the txid in the error's details *)
(*    "silent"   thrown after it was sent, without details.txid            *)
(***************************************************************************)
EXTENDS PolicyEvaluator

CONSTANTS
    None,        \* null
    Hours,       \* maxPerWindow.hours
    KeyHours,    \* idempotencyHours
    Policies,    \* the configurations of the session
    Acts,        \* the actions the agent may submit
    Keys,        \* idempotency keys
    AllowUnkeyed,  \* allowUnkeyedSubmits
    Outcomes,    \* how submitInner may end
    Restarts,    \* whether the process may die
    Halts,       \* whether the operator uses pause() or the kill switch
    MaxTime,     \* bound on time
    MaxSubmits   \* bound on the number of submits that get past the guards

ASSUME WindowAssumption == Hours \in Nat /\ KeyHours \in Nat
ASSUME AgentBoundsAssumption == MaxTime \in Nat /\ MaxSubmits \in Nat

\* The configuration is checked when the session is made: limits are amounts.
ASSUME AgentPolicyAssumption ==
    \A p \in Policies :
        /\ p.maxActions \in Nat \cup {Unset}
        /\ \A k \in DOMAIN p.perTick : p.perTick[k] \in Nat /\ p.perTick[k] # Undefined

\* What resolveValue() makes of an action.
ASSUME ActAssumption ==
    \A a \in Acts : /\ DOMAIN a = {"name", "tick", "amount", "dests", "class"}
                    /\ a.amount \in Int \cup {Undefined}

VARIABLES
    policy,    \* the policy, fixed
    now,       \* the clock
    cache,     \* the usage entries in memory, or None before the first load
    file,      \* the usage entries on disk
    halted,    \* paused, or the kill-switch file is there
    job,       \* the submit at the head of the tail
    rows,      \* rows recorded so far, an entry's identity
    charges,   \* history: every authorisation
    sent       \* history: the transactions broadcast, by row

vars == <<policy, now, cache, file, halted, job, rows, charges, sent>>

\* Idle, at the confirmation handler, or inside submitInner with its row.
Idle == [at |-> "idle", act |-> Undefined, key |-> None, row |-> 0]

Init ==
    /\ policy \in Policies
    /\ now = 0
    /\ cache = None /\ file = {}
    /\ halted = FALSE
    /\ job = Idle
    /\ rows = 0 /\ charges = {} /\ sent = {}

-----------------------------------------------------------------------------
(* The usage window. *)

\* loadUsage()
Loaded == IF cache = None THEN file ELSE cache

InWindow(e) == e.t >= now - Hours

\* Mutant: an idempotency key lives as long as the window.
KeptOnlyInWindow(e) == FALSE

\* A keyed row outlives the window ...
KeptForKey(e) == e.key # None /\ e.t >= now - KeyHours

\* ... without the fields a cap could sum.
Compacted(e) == [e EXCEPT !.tick = Undefined, !.amount = Undefined, !.live = FALSE]

\* pruned(): nothing ages without a window rule.
HasWindow == policy.maxActions # Unset \/ DOMAIN policy.perTick # {}

PrunedOf(entries) ==
    IF HasWindow
    THEN {IF InWindow(e) THEN e ELSE Compacted(e) :
             e \in {x \in entries : InWindow(x) \/ KeptForKey(x)}}
    ELSE entries

Pruned == PrunedOf(Loaded)

\* computeWindowUsage(): the retained rows do not count.
Usage == {e \in Pruned : InWindow(e)}

\* The session's evaluate(): the encoder picks the version later, so the
\* checks that need one do not apply.
Versionless(act) ==
    [act EXCEPT !.class = "any", !.dests = IF @ = Undefined THEN {} ELSE @]

Evaluates(act) == Permits(policy, Versionless(act), IF HasWindow THEN Usage ELSE {})

-----------------------------------------------------------------------------
(* submit() *)

AfterEvaluate == cache' = IF HasWindow THEN Pruned ELSE cache

\* Halted, or denied by the policy: no side effect but the pruning.
Refuse(act) ==
    /\ job.at = "idle"
    /\ halted \/ ~Evaluates(act)
    /\ IF halted THEN UNCHANGED cache ELSE AfterEvaluate
    /\ UNCHANGED <<policy, now, file, halted, job, rows, charges, sent>>

Duplicate(key) == key # None /\ \E e \in Pruned : e.key = key

Unkeyed(key) == key = None /\ ~AllowUnkeyed

\* authorizeSubmission refuses: no key, or a key already on record.
RefuseSubmission(key) ==
    /\ Duplicate(key) \/ Unkeyed(key)
    /\ IF key = None THEN AfterEvaluate ELSE cache' = Pruned
    /\ job' = Idle
    /\ UNCHANGED <<file, rows, charges>>

NewRow(act, key) ==
    [id |-> rows + 1, t |-> now, tick |-> ResolveTick(policy, act), amount |-> act.amount,
     key |-> key, txid |-> None, live |-> TRUE]

Charge(row) == [id |-> row.id, at |-> now, tick |-> row.tick, amount |-> row.amount, key |-> row.key]

\* authorizeSubmission and recordUsage: the row is on disk before the
\* transaction is on the wire.
Authorize(act, key) ==
    /\ ~Duplicate(key) /\ ~Unkeyed(key)
    /\ rows' = rows + 1
    /\ cache' = Pruned \cup {NewRow(act, key)}
    /\ file' = cache'
    /\ charges' = charges \cup {Charge(NewRow(act, key))}
    /\ job' = [at |-> "submit", act |-> act, key |-> key, row |-> rows + 1]

\* enforceAndSubmit up to its first await: past the halt check and the policy,
\* to the confirmation handler or, without one, straight to the broadcast.
Begin(act, key) ==
    /\ job.at = "idle" /\ rows < MaxSubmits
    /\ ~halted
    /\ Evaluates(act)
    /\ IF NeedsConfirmation(policy, Versionless(act))
       THEN /\ job' = [at |-> "confirm", act |-> act, key |-> key, row |-> 0]
            /\ cache' = Pruned
            /\ UNCHANGED <<file, rows, charges>>
       ELSE RefuseSubmission(key) \/ Authorize(act, key)
    /\ UNCHANGED <<policy, now, halted, sent>>

\* The confirmation handler answers; only its answer is looked at.
Confirm ==
    /\ job.at = "confirm"
    /\ RefuseSubmission(job.key) \/ Authorize(job.act, job.key)
    /\ UNCHANGED <<policy, now, halted, sent>>

Decline ==
    /\ job.at = "confirm"
    /\ job' = Idle
    /\ UNCHANGED <<policy, now, cache, file, halted, rows, charges, sent>>

\* submitInner puts the transaction on the wire ...
Send ==
    /\ job.at = "submit"
    /\ sent' = sent \cup {job.row}
    /\ job' = [job EXCEPT !.at = "await"]
    /\ UNCHANGED <<policy, now, cache, file, halted, rows, charges>>

\* ... or throws first.
SendFails ==
    /\ job.at = "submit" /\ "prior" \in Outcomes
    /\ job' = Idle
    /\ UNCHANGED <<policy, now, cache, file, halted, rows, charges, sent>>

\* patchUsageTxid mutates the entry recordUsage returned; a row compacted in
\* the meantime is another object and keeps its null.
Patched(entries) ==
    {IF e.id = job.row /\ e.live THEN [e EXCEPT !.txid = job.row] ELSE e : e \in entries}

\* The answer arrives with the txid; the result then reports the window, which
\* prunes it once more.
SubmitEnds ==
    /\ job.at = "await"
    /\ \E o \in Outcomes \cap {"ok", "timeout"} :
          /\ file' = Patched(cache)
          /\ cache' = IF o = "ok" THEN PrunedOf(Patched(cache)) ELSE Patched(cache)
    /\ job' = Idle
    /\ UNCHANGED <<policy, now, halted, rows, charges, sent>>

\* An error that carries no txid.
SubmitEndsSilently ==
    /\ job.at = "await" /\ "silent" \in Outcomes
    /\ job' = Idle
    /\ UNCHANGED <<policy, now, cache, file, halted, rows, charges, sent>>

-----------------------------------------------------------------------------
(* Around it. *)

\* computeWindowUsage() is public: whoever asks for the remaining budget prunes
\* the window, at any time.
Inspect ==
    /\ Pruned # Loaded
    /\ cache' = Pruned
    /\ UNCHANGED <<policy, now, file, halted, job, rows, charges, sent>>

\* pause(), or the operator drops the kill-switch file; and back.
Halt ==
    /\ Halts
    /\ halted' = ~halted
    /\ UNCHANGED <<policy, now, cache, file, job, rows, charges, sent>>

\* The process dies and another one is started on the same file.
Restart ==
    /\ Restarts
    /\ cache' = None
    /\ job' = Idle
    /\ UNCHANGED <<policy, now, file, halted, rows, charges, sent>>

Tick ==
    /\ now < MaxTime
    /\ now' = now + 1
    /\ UNCHANGED <<policy, cache, file, halted, job, rows, charges, sent>>

Next ==
    \/ \E act \in Acts : Refuse(act) \/ \E key \in Keys \cup {None} : Begin(act, key)
    \/ Confirm \/ Decline
    \/ Send \/ SendFails \/ SubmitEnds \/ SubmitEndsSilently
    \/ Inspect \/ Halt \/ Restart \/ Tick

Spec == Init /\ [][Next]_vars

-----------------------------------------------------------------------------
TypeOK ==
    /\ policy \in Policies
    /\ now \in 0..MaxTime /\ halted \in BOOLEAN
    /\ job.at \in {"idle", "confirm", "submit", "await"}
    /\ rows \in 0..MaxSubmits
    /\ \A e \in file \cup (IF cache = None THEN {} ELSE cache) :
          /\ e.id \in 1..rows /\ e.t \in 0..now
          /\ e.key \in Keys \cup {None} /\ e.txid \in {None, e.id}
    /\ sent \subseteq 1..rows

Budget == INSTANCE SpendingWindow WITH real <- now

\* The session keeps the promise of the spending window: every authorisation
\* leaves the window within its limits, through confirmations that take their
\* time, failed submits, crashes and restarts (agent_session.js, submit: "two
\* concurrent submits both evaluate against the same pre-record snapshot").
ImplementsBudget == Budget!Spec

\* At most once: while a key is remembered no second transaction is sent for
\* it, whatever was thrown, lost or restarted (authorizeSubmission:
\* "At-most-once on the automated rail").
AtMostOncePerKey ==
    \A c, d \in charges :
        (/\ c.key # None /\ c.key = d.key /\ c.id < d.id
         /\ c.id \in sent /\ d.id \in sent)
            => d.at - c.at > (IF HasWindow THEN KeyHours ELSE MaxTime)

\* A transaction on the wire has its row on disk (recordUsage before the
\* broadcast: a throw or a crash after it must not leave the window unconsumed).
SentIsOnDisk ==
    \A c \in charges : c.id \in sent /\ now - c.at <= Hours => \E e \in file : e.id = c.id
=============================================================================
