---------------------------- MODULE SpendingProofs ----------------------------
(***************************************************************************)
(* Proofs about AgentSession for every set of policies, actions and keys,  *)
(* any window, any retention of keys, and any interleaving of submits,     *)
(* confirmations, pruning, crashes and restarts: every charge that still   *)
(* counts, and every key that is still remembered, has its row in memory   *)
(* and on disk.  What the session promises follows: no key is charged      *)
(* twice while it is remembered, and no window exceeds the policy.         *)
(*                                                                         *)
(* And about WalletSubmit, the session below it, for any number of coins   *)
(* and submits, any encoding, any lag of the tracker, overlapping          *)
(* refreshes and any failure: what it offers was not spent by a submit     *)
(* that resolved, and has the change of those.                             *)
(***************************************************************************)
EXTENDS AgentSession, WalletSubmit, BudgetLemmas


\* A charge the window counts; without a window rule nothing ages.
Fresh(c) == ~HasWindow \/ now - c.at <= Hours

\* A charge whose row must not be gone: it is fresh, or its key is remembered.
Due(c) == Fresh(c) \/ (c.key # None /\ now - c.at <= KeyHours)

StandsFor(e, c) ==
    /\ e.id = c.id /\ e.t = c.at /\ e.key = c.key
    /\ Fresh(c) => e.tick = c.tick /\ e.amount = c.amount

Remembers(entries) == \A c \in charges : Due(c) => \E e \in entries : StandsFor(e, c)

RowFields == {"id", "t", "tick", "amount", "key", "txid", "live"}

RowsTyped(entries, n, t) ==
    /\ Summable(entries)
    /\ \A e \in entries : /\ DOMAIN e = RowFields
                          /\ e.id \in 1..n /\ e.t \in 0..t
                          /\ e.key \in Keys \cup {None} /\ e.txid \in {None, e.id}

\* A submit past its authorisation holds its rows in memory.
InMemory == cache # None \/ job.at \in {"submit", "await"}

LedgerInv ==
    /\ RowsTyped(file, rows, now) /\ Remembers(file)
    /\ InMemory => RowsTyped(cache, rows, now) /\ Remembers(cache)

JobInv ==
    /\ job.at \in {"idle", "confirm", "submit", "await"}
    /\ DOMAIN job = {"at", "act", "key", "row"}
    /\ job.at = "confirm" =>
          /\ job.act \in Acts /\ job.act.amount \in Nat \cup {Undefined}
          /\ job.key \in Keys \cup {None} /\ rows < MaxSubmits
    /\ job.at \in {"submit", "await"} => job.row \in 1..rows

ChargesTyped ==
    /\ Summable(charges)
    /\ \A c \in charges : c.id \in 1..rows /\ c.at \in 0..now /\ c.key \in Keys \cup {None}
    /\ \A c, d \in charges : c.id = d.id => c = d

\* Two charges of one key are further apart than a key is remembered.
KeysApart ==
    \A c, d \in charges :
        c.key # None /\ c.key = d.key /\ c.id < d.id => HasWindow /\ d.at - c.at > KeyHours

\* The scalars.
StateTyped ==
    /\ policy \in Policies /\ now \in 0..MaxTime /\ halted \in BOOLEAN
    /\ rows \in 0..MaxSubmits /\ sent \subseteq 1..rows

Inv == StateTyped /\ LedgerInv /\ JobInv /\ ChargesTyped /\ KeysApart

Window == Budget!Window(charges, now)

\* While the confirmation handler is asked the action still fits the window.
BudgetInv ==
    /\ Inv
    /\ InLimits(policy, Window)
    /\ job.at = "confirm" => Fits(policy, job.act, Window)
-----------------------------------------------------------------------------
(* The rows: pruning, patching and adding one. *)

LEMMA LoadedKept ==
    ASSUME LedgerInv
    PROVE  RowsTyped(Loaded, rows, now) /\ Remembers(Loaded)
BY DEF LedgerInv, InMemory, Loaded

\* A row that is not of the window any more keeps its identity, time and key.
LEMMA CompactedRow ==
    ASSUME NEW e, DOMAIN e = RowFields
    PROVE  LET r == Compacted(e)
           IN  /\ DOMAIN r = RowFields /\ r.amount = Undefined
               /\ r.id = e.id /\ r.t = e.t /\ r.key = e.key /\ r.txid = e.txid
BY DEF Compacted, RowFields

LEMMA PrunedRow ==
    ASSUME NEW E, NEW r \in PrunedOf(E), \A e \in E : DOMAIN e = RowFields
    PROVE  \E e \in E : /\ DOMAIN r = RowFields
                        /\ r.id = e.id /\ r.t = e.t /\ r.key = e.key /\ r.txid = e.txid
                        /\ r.amount \in {e.amount, Undefined}
<1>1. CASE ~HasWindow
    BY <1>1 DEF PrunedOf
<1>2. CASE HasWindow
    <2>1. PICK e \in E : r = IF InWindow(e) THEN e ELSE Compacted(e)
        BY <1>2 DEF PrunedOf
    <2> QED BY <2>1, CompactedRow
<1> QED BY <1>1, <1>2

LEMMA PruneTyped ==
    ASSUME NEW E, NEW n, NEW t, RowsTyped(E, n, t)
    PROVE  RowsTyped(PrunedOf(E), n, t)
<1>1. IsFiniteSet(PrunedOf(E))
    <2>1. CASE ~HasWindow
        BY <2>1 DEF PrunedOf, RowsTyped, Summable
    <2>2. CASE HasWindow
        <3> DEFINE K == {x \in E : InWindow(x) \/ KeptForKey(x)}
                   f == [e \in K |-> IF InWindow(e) THEN e ELSE Compacted(e)]
        <3>1. IsFiniteSet(K)
            BY FS_Subset DEF RowsTyped, Summable
        <3>2. f \in Surjection(K, PrunedOf(E))
            BY <2>2 DEF PrunedOf, Surjection
        <3> HIDE DEF K, f
        <3> QED BY <3>1, <3>2, FS_Surjection
    <2> QED BY <2>1, <2>2
<1>2. ASSUME NEW r \in PrunedOf(E)
      PROVE  /\ DOMAIN r = RowFields /\ r.id \in 1..n /\ r.t \in 0..t
             /\ r.key \in Keys \cup {None} /\ r.txid \in {None, r.id}
             /\ r.amount # Undefined => r.amount \in Nat
    <2>1. PICK e \in E : /\ DOMAIN r = RowFields
                         /\ r.id = e.id /\ r.t = e.t /\ r.key = e.key /\ r.txid = e.txid
                         /\ r.amount \in {e.amount, Undefined}
        BY PrunedRow DEF RowsTyped
    <2> QED BY <2>1 DEF RowsTyped, Summable, Counted
<1> QED BY <1>1, <1>2 DEF RowsTyped, Summable, Counted

\* pruned() drops no row that is still due, and strips none that is fresh.
LEMMA PruneRemembers ==
    ASSUME StateTyped, ChargesTyped, NEW E, RowsTyped(E, rows, now), Remembers(E)
    PROVE  Remembers(PrunedOf(E))
<1> SUFFICES ASSUME NEW c \in charges, Due(c) PROVE \E e \in PrunedOf(E) : StandsFor(e, c)
    BY DEF Remembers
<1>1. PICK e \in E : StandsFor(e, c)
    BY DEF Remembers
<1>2. CASE ~HasWindow
    BY <1>1, <1>2 DEF PrunedOf
<1>3. CASE HasWindow
    <2> DEFINE r == IF InWindow(e) THEN e ELSE Compacted(e)
    <2>1. InWindow(e) <=> Fresh(c)
        BY <1>1, <1>3, WindowAssumption DEF InWindow, Fresh, StandsFor, ChargesTyped, StateTyped
    <2>2. InWindow(e) \/ KeptForKey(e)
        BY <1>1, <2>1, WindowAssumption DEF KeptForKey, Due, StandsFor, ChargesTyped, StateTyped
    <2>3. r \in PrunedOf(E)
        BY <1>3, <2>2 DEF PrunedOf
    <2>4. StandsFor(r, c)
        BY <1>1, <2>1, CompactedRow DEF StandsFor, RowsTyped
    <2> QED BY <2>3, <2>4
<1> QED BY <1>2, <1>3

\* Filling in a transaction id changes nothing a charge is compared with.
LEMMA PatchKept ==
    ASSUME StateTyped, NEW E, RowsTyped(E, rows, now), Remembers(E)
    PROVE  RowsTyped(Patched(E), rows, now) /\ Remembers(Patched(E))
<1> DEFINE P(e) == IF e.id = job.row /\ e.live THEN [e EXCEPT !.txid = job.row] ELSE e
<1>1. Patched(E) = {P(e) : e \in E}
    BY DEF Patched
<1>2. ASSUME NEW e \in E
      PROVE  /\ DOMAIN P(e) = RowFields
             /\ P(e).id = e.id /\ P(e).t = e.t /\ P(e).key = e.key
             /\ P(e).tick = e.tick /\ P(e).amount = e.amount
             /\ P(e).txid \in {None, e.id}
    BY DEF RowsTyped, RowFields
<1>3. IsFiniteSet(Patched(E))
    <2> DEFINE f == [e \in E |-> P(e)]
    <2>1. f \in Surjection(E, Patched(E))
        BY DEF Patched, Surjection
    <2> HIDE DEF f
    <2> QED BY <2>1, FS_Surjection DEF RowsTyped, Summable
<1> HIDE DEF P
<1>4. RowsTyped(Patched(E), rows, now)
    BY <1>1, <1>2, <1>3 DEF RowsTyped, Summable, Counted
<1>5. Remembers(Patched(E))
    BY <1>1, <1>2 DEF Remembers, StandsFor
<1> QED BY <1>4, <1>5

\* A row and its charge are added together.
LEMMA NewRowTyped ==
    ASSUME StateTyped, NEW E, RowsTyped(E, rows, now), NEW act,
           act.amount \in Nat \cup {Undefined}, NEW key \in Keys \cup {None}
    PROVE  RowsTyped(E \cup {NewRow(act, key)}, rows + 1, now)
<1> DEFINE n == NewRow(act, key)
<1>1. /\ DOMAIN n = RowFields /\ n.id = rows + 1 /\ n.t = now /\ n.key = key
      /\ n.txid = None /\ n.amount = act.amount
    BY DEF NewRow, RowFields
<1> HIDE DEF n
<1>2. IsFiniteSet(E \cup {n})
    BY FS_AddElement DEF RowsTyped, Summable
<1>3. n.id \in 1..(rows + 1) /\ n.t \in 0..now
    BY <1>1 DEF StateTyped
<1>4. \A e \in E : e.id \in 1..(rows + 1)
    BY DEF RowsTyped, StateTyped
<1>5. Summable(E \cup {n})
    BY <1>1, <1>2 DEF RowsTyped, Summable, Counted
<1> QED BY <1>1, <1>3, <1>4, <1>5 DEF RowsTyped, n
-----------------------------------------------------------------------------
(* The steps. *)

\* What the evaluator permits has an amount, or none.
LEMMA Evaluated ==
    ASSUME NEW act \in Acts, Evaluates(act)
    PROVE  /\ act.amount \in Nat \cup {Undefined}
           /\ Versionless(act).amount = act.amount
           /\ ResolveTick(policy, Versionless(act)) = ResolveTick(policy, act)
<1>1. Versionless(act).amount = act.amount /\ Versionless(act).tick = act.tick
    BY ActAssumption DEF Versionless
<1>2. ~FailsBasics(policy, Versionless(act))
    BY DEF Evaluates, Permits
<1> QED BY <1>1, <1>2, ActAssumption DEF FailsBasics, ResolveTick

\* A step that charges nothing and takes no time.
LEMMA QuietStep ==
    ASSUME Inv, UNCHANGED <<policy, now, rows, charges>>,
           halted' \in BOOLEAN, sent' \subseteq 1..rows,
           RowsTyped(file', rows, now), Remembers(file'),
           InMemory' => RowsTyped(cache', rows, now) /\ Remembers(cache'),
           JobInv'
    PROVE  Inv'
<1>1. HasWindow' <=> HasWindow
    BY DEF HasWindow
<1>2. StateTyped'
    BY DEF Inv, StateTyped
<1>3. LedgerInv'
    BY <1>1 DEF LedgerInv, Remembers, Due, Fresh, StandsFor
<1>4. ChargesTyped' /\ KeysApart'
    BY <1>1 DEF Inv, ChargesTyped, KeysApart
<1> QED BY <1>2, <1>3, <1>4 DEF Inv

\* The ledger as it is, or pruned in memory.
LEMMA PrunedKept ==
    ASSUME Inv
    PROVE  /\ RowsTyped(file, rows, now) /\ Remembers(file)
           /\ RowsTyped(Pruned, rows, now) /\ Remembers(Pruned)
           /\ InMemory => RowsTyped(cache, rows, now) /\ Remembers(cache)
<1>1. RowsTyped(Loaded, rows, now) /\ Remembers(Loaded)
    BY LoadedKept DEF Inv
<1>2. RowsTyped(Pruned, rows, now) /\ Remembers(Pruned)
    BY <1>1, PruneTyped, PruneRemembers DEF Inv, Pruned
<1> QED BY <1>2 DEF Inv, LedgerInv

\* Evaluating, refusing, declining, failing, halting, dying: no row is made.
LEMMA Undone ==
    ASSUME Inv, UNCHANGED <<policy, now, file, rows, charges>>,
           halted' \in BOOLEAN, sent' \subseteq 1..rows, job' \in {job, Idle},
           cache' \in {cache, Pruned} \/ (cache' = None /\ job' = Idle)
    PROVE  Inv'
<1>1. InMemory' => RowsTyped(cache', rows, now) /\ Remembers(cache')
    BY PrunedKept DEF InMemory, Idle
<1>2. JobInv'
    BY DEF Inv, JobInv, Idle
<1> QED BY <1>1, <1>2, PrunedKept, QuietStep
\* A submission refused by its key, or its lack of one.
LEMMA Refused ==
    ASSUME Inv, NEW key, RefuseSubmission(key), UNCHANGED <<policy, now, halted, sent>>
    PROVE  Inv'
<1>1. cache' \in {cache, Pruned} /\ job' = Idle /\ UNCHANGED <<file, rows, charges>>
    BY DEF RefuseSubmission, AfterEvaluate
<1> QED BY <1>1, Undone DEF Inv, StateTyped

\* The confirmation handler is asked.
LEMMA Asked ==
    ASSUME Inv, NEW act \in Acts, NEW key \in Keys \cup {None}, rows < MaxSubmits, Evaluates(act),
           job' = [at |-> "confirm", act |-> act, key |-> key, row |-> 0], cache' = Pruned,
           UNCHANGED <<policy, now, halted, file, rows, charges, sent>>
    PROVE  Inv'
<1>1. JobInv'
    BY Evaluated DEF JobInv
<1> QED BY <1>1, PrunedKept, QuietStep DEF Inv, StateTyped

\* The authorisation: a new row on disk and in memory for a new charge, whose
\* key no charge that is still remembered has.
LEMMA NoOlderCharge ==
    ASSUME Inv, NEW key, key # None, ~Duplicate(key), NEW c \in charges, c.key = key
    PROVE  HasWindow /\ now - c.at > KeyHours
<1> SUFFICES ASSUME Due(c) PROVE FALSE
    BY WindowAssumption DEF Due, Fresh, Inv, ChargesTyped, StateTyped
<1>1. PICK e \in Pruned : StandsFor(e, c)
    BY PrunedKept DEF Remembers
<1> QED BY <1>1 DEF StandsFor, Duplicate

LEMMA Authorized ==
    ASSUME Inv, NEW act, act.amount \in Nat \cup {Undefined}, NEW key \in Keys \cup {None},
           rows < MaxSubmits, Authorize(act, key), UNCHANGED <<policy, now, halted, sent>>
    PROVE  Inv'
<1> DEFINE n == NewRow(act, key)
           d == Charge(n)
<1>1. /\ rows' = rows + 1 /\ cache' = Pruned \cup {n} /\ file' = cache'
      /\ charges' = charges \cup {d}
      /\ job' = [at |-> "submit", act |-> act, key |-> key, row |-> rows + 1]
      /\ ~Duplicate(key)
    BY DEF Authorize
<1>2. /\ n.id = rows + 1 /\ n.t = now /\ n.key = key
      /\ d.id = rows + 1 /\ d.at = now /\ d.key = key
      /\ d.tick = n.tick /\ d.amount = n.amount /\ d.amount = act.amount
    BY DEF NewRow, Charge
<1>3. RowsTyped(cache', rows', now)
    BY <1>1, PrunedKept, NewRowTyped DEF Inv
<1> HIDE DEF n, d
<1>4. HasWindow' <=> HasWindow
    BY DEF HasWindow
<1>5. Remembers(Pruned)
    BY PrunedKept
<1>6. Remembers(cache)'
    <2> SUFFICES ASSUME NEW c \in charges', Due(c)' PROVE \E e \in cache' : StandsFor(e, c)'
        BY DEF Remembers
    <2>1. CASE c \in charges
        <3>1. Due(c)
            BY <1>4 DEF Due, Fresh
        <3>2. PICK e \in Pruned : StandsFor(e, c)
            BY <1>5, <2>1, <3>1 DEF Remembers
        <3>3. StandsFor(e, c)'
            BY <1>4, <3>2 DEF StandsFor, Fresh
        <3> QED BY <1>1, <3>2, <3>3
    <2>2. CASE c = d
        <3>1. PICK e \in cache' : /\ e.id = c.id /\ e.t = c.at /\ e.key = c.key
                                  /\ e.tick = c.tick /\ e.amount = c.amount
            BY <1>1, <1>2, <2>2
        <3> QED BY <3>1 DEF StandsFor
    <2> QED BY <1>1, <2>1, <2>2
<1>7. StateTyped'
    BY <1>1, AgentBoundsAssumption DEF Inv, StateTyped
<1>8. LedgerInv'
    <2>1. Remembers(file)'
        BY <1>1, <1>6 DEF Remembers
    <2> QED BY <1>1, <1>3, <1>6, <2>1 DEF LedgerInv
<1>9. JobInv'
    BY <1>1 DEF JobInv, Inv, StateTyped
<1>10. ChargesTyped'
    <2>1. Summable(charges')
        BY <1>1, <1>2, FS_AddElement DEF Inv, ChargesTyped, Summable, Counted
    <2>2. \A c \in charges' : c.id \in 1..rows' /\ c.at \in 0..now' /\ c.key \in Keys \cup {None}
        BY <1>1, <1>2 DEF Inv, ChargesTyped, StateTyped
    <2>3. \A c, e \in charges' : c.id = e.id => c = e
        BY <1>1, <1>2 DEF Inv, ChargesTyped, StateTyped
    <2> QED BY <2>1, <2>2, <2>3 DEF ChargesTyped
<1>11. KeysApart'
    <2> SUFFICES ASSUME NEW c \in charges', NEW e \in charges',
                        c.key # None, c.key = e.key, c.id < e.id
                 PROVE  HasWindow' /\ e.at - c.at > KeyHours
        BY DEF KeysApart
    <2>1. CASE c \in charges /\ e \in charges
        BY <1>4, <2>1 DEF Inv, KeysApart
    <2>2. CASE c \in charges /\ e = d
        BY <1>1, <1>2, <1>4, <2>2, NoOlderCharge
    <2>3. c # d
        BY <1>1, <1>2 DEF Inv, ChargesTyped, StateTyped
    <2> QED BY <1>1, <2>1, <2>2, <2>3
<1> QED BY <1>7, <1>8, <1>9, <1>10, <1>11 DEF Inv

LEMMA Ended ==
    ASSUME Inv, SubmitEnds
    PROVE  Inv'
<1>1. job.at = "await" /\ job' = Idle /\ UNCHANGED <<policy, now, halted, rows, charges, sent>>
    BY DEF SubmitEnds
<1>2. RowsTyped(cache, rows, now) /\ Remembers(cache)
    BY <1>1, PrunedKept DEF InMemory
<1>3. RowsTyped(Patched(cache), rows, now) /\ Remembers(Patched(cache))
    BY <1>2, PatchKept DEF Inv
<1>4. RowsTyped(PrunedOf(Patched(cache)), rows, now) /\ Remembers(PrunedOf(Patched(cache)))
    BY <1>3, PruneTyped, PruneRemembers DEF Inv
<1>5. file' = Patched(cache) /\ cache' \in {Patched(cache), PrunedOf(Patched(cache))}
    BY DEF SubmitEnds
<1>6. JobInv'
    BY <1>1 DEF Inv, JobInv, Idle
<1> QED BY <1>1, <1>3, <1>4, <1>5, <1>6, QuietStep DEF Inv, StateTyped

LEMMA Ages ==
    ASSUME StateTyped, ChargesTyped, now' = now + 1, UNCHANGED <<policy, charges>>,
           NEW E, RowsTyped(E, rows, now), Remembers(E)
    PROVE  /\ RowsTyped(E, rows, now')
           /\ \A c \in charges : Due(c)' => \E e \in E : StandsFor(e, c)'
<1>1. HasWindow' <=> HasWindow
    BY DEF HasWindow
<1>2. \A c \in charges : (Fresh(c)' => Fresh(c)) /\ (Due(c)' => Due(c))
    BY <1>1, WindowAssumption DEF Due, Fresh, StateTyped, ChargesTyped
<1>3. \A c, e : c \in charges /\ StandsFor(e, c) => StandsFor(e, c)'
    BY <1>2 DEF StandsFor
<1>4. RowsTyped(E, rows, now')
    BY DEF RowsTyped, StateTyped
<1> QED BY <1>2, <1>3, <1>4 DEF Remembers

LEMMA TimePasses ==
    ASSUME Inv, Tick
    PROVE  Inv'
<1>1. /\ now < MaxTime /\ now' = now + 1
      /\ UNCHANGED <<policy, cache, file, halted, job, rows, charges, sent>>
    BY DEF Tick
<1>2. RowsTyped(file, rows, now') /\ Remembers(file)'
    BY <1>1, PrunedKept, Ages DEF Inv, Remembers
<1>3. InMemory => RowsTyped(cache, rows, now') /\ Remembers(cache)'
    BY <1>1, PrunedKept, Ages DEF Inv, Remembers
<1>4. LedgerInv'
    BY <1>1, <1>2, <1>3 DEF LedgerInv, InMemory
<1>5. StateTyped' /\ JobInv' /\ ChargesTyped'
    BY <1>1, AgentBoundsAssumption DEF Inv, StateTyped, JobInv, ChargesTyped
<1>6. KeysApart'
    BY <1>1 DEF Inv, KeysApart, HasWindow
<1> QED BY <1>4, <1>5, <1>6 DEF Inv
LEMMA InitInv == ASSUME Init PROVE Inv
<1>1. StateTyped /\ JobInv
    <2>1. job = Idle
        BY DEF Init
    <2>2. JobInv
        BY <2>1 DEF JobInv, Idle
    <2>3. 0 \in 0..MaxTime /\ 0 \in 0..MaxSubmits
        BY AgentBoundsAssumption
    <2>4. StateTyped
        BY <2>3 DEF Init, StateTyped
    <2> QED BY <2>2, <2>4
<1>2. RowsTyped({}, rows, now) /\ Remembers({}) /\ Summable({})
    BY FS_EmptySet DEF Init, RowsTyped, Remembers, Summable, Counted
<1>3. LedgerInv
    BY <1>2 DEF Init, LedgerInv, InMemory, Idle
<1>4. ChargesTyped /\ KeysApart
    BY <1>2 DEF Init, ChargesTyped, KeysApart
<1> QED BY <1>1, <1>3, <1>4 DEF Inv

LEMMA InvStep == ASSUME Inv, [Next]_vars PROVE Inv'
<1>1. ASSUME NEW act \in Acts, Refuse(act) PROVE Inv'
    <2>1. cache' \in {cache, Pruned}
        BY <1>1 DEF Refuse, AfterEvaluate
    <2> QED BY <1>1, <2>1, Undone DEF Refuse, Inv, StateTyped
<1>2. ASSUME NEW act \in Acts, NEW key \in Keys \cup {None}, Begin(act, key) PROVE Inv'
    <2>1. Evaluates(act) /\ rows < MaxSubmits /\ UNCHANGED <<policy, now, halted, sent>>
        BY <1>2 DEF Begin
    <2>2. CASE NeedsConfirmation(policy, Versionless(act))
        BY <1>2, <2>1, <2>2, Asked DEF Begin
    <2>3. CASE RefuseSubmission(key)
        BY <2>1, <2>3, Refused
    <2>4. CASE Authorize(act, key)
        BY <2>1, <2>4, Evaluated, Authorized
    <2> QED BY <1>2, <2>2, <2>3, <2>4 DEF Begin
<1>3. CASE Confirm
    <2>1. /\ job.act.amount \in Nat \cup {Undefined} /\ job.key \in Keys \cup {None}
          /\ rows < MaxSubmits /\ UNCHANGED <<policy, now, halted, sent>>
        BY <1>3 DEF Confirm, Inv, JobInv
    <2> QED BY <1>3, <2>1, Refused, Authorized DEF Confirm
<1>4. CASE Decline \/ SendFails \/ SubmitEndsSilently \/ Inspect \/ Halt \/ Restart
    BY <1>4, Undone DEF Decline, SendFails, SubmitEndsSilently, Inspect, Halt, Restart,
                        Inv, StateTyped
<1>5. CASE Send
    <2>1. /\ job.at = "submit" /\ sent' = sent \cup {job.row} /\ job' = [job EXCEPT !.at = "await"]
          /\ UNCHANGED <<policy, now, cache, file, halted, rows, charges>>
        BY <1>5 DEF Send
    <2>2. JobInv' /\ job.row \in 1..rows
        BY <2>1 DEF Inv, JobInv
    <2>3. sent' \subseteq 1..rows /\ InMemory
        BY <2>1, <2>2 DEF Inv, StateTyped, InMemory
    <2> QED BY <2>1, <2>2, <2>3, PrunedKept, QuietStep DEF Inv, StateTyped
<1>6. CASE SubmitEnds \/ Tick
    BY <1>6, Ended, TimePasses
<1>7. CASE UNCHANGED vars
    BY <1>7, Undone DEF vars, Inv, StateTyped
<1> QED BY <1>1, <1>2, <1>3, <1>4, <1>5, <1>6, <1>7 DEF Next

\* Every charge that still counts and every key that is still remembered has
\* its row, in memory and on disk, whatever crashed or failed in between.
THEOREM NoChargeIsLost == Spec => []Inv
<1>1. Init => Inv
    BY InitInv
<1>2. Inv /\ [Next]_vars => Inv'
    BY InvStep
<1> QED BY <1>1, <1>2, PTL DEF Spec

\* No key is charged, let alone sent, twice while it is remembered
\* (AtMostOncePerKey).
THEOREM KeysAreChargedOnce == Spec => []AtMostOncePerKey
<1>1. Inv => AtMostOncePerKey
    BY DEF Inv, KeysApart, AtMostOncePerKey
<1> QED BY <1>1, NoChargeIsLost, PTL

\* A transaction on the wire has its row on disk (SentIsOnDisk).
THEOREM SendsAreRecorded == Spec => []SentIsOnDisk
<1>1. Inv => SentIsOnDisk
    BY DEF Inv, LedgerInv, Remembers, StandsFor, Due, Fresh, SentIsOnDisk
<1> QED BY <1>1, NoChargeIsLost, PTL
-----------------------------------------------------------------------------
(* The refinement: the session implements SpendingWindow.                  *)

\* The limits as SpendingWindow states them.
LEMMA SameLimits ==
    ASSUME NEW S
    PROVE  InLimits(policy, S) => Budget!WithinLimits(S)
<1>1. ASSUME NEW token PROVE Budget!Spent(S, {token}) = Amounts(OfToken(S, token))
    <2> DEFINE T == {c \in S : /\ c.amount # Undefined
                               /\ c.tick # Undefined
                               /\ Fold[c.tick] \in {token}}
    <2>1. T = OfToken(S, token)
        BY DEF OfToken, Counted
    <2>2. Budget!Spent(S, {token}) = Amounts(T)
        BY AmountFold DEF Budget!Spent, Budget!MapThenSumSet, Budget!MapThenFoldSet, Amounts
    <2> QED BY <2>1, <2>2
<1>2. Budget!SpentUnresolved(S) = Amounts(Unresolved(S))
    <2> DEFINE T == {c \in S : c.amount # Undefined /\ c.tick = Undefined}
    <2>1. T = Unresolved(S)
        BY DEF Unresolved, Counted
    <2>2. Budget!SpentUnresolved(S) = Amounts(T)
        BY AmountFold DEF Budget!SpentUnresolved, Budget!MapThenSumSet, Budget!MapThenFoldSet, Amounts
    <2> QED BY <2>1, <2>2
<1>3. Budget!NamedTokens(policy.perTick) = {Fold[k] : k \in Named(policy.perTick)}
    BY DEF Budget!NamedTokens, Named
<1> SUFFICES ASSUME InLimits(policy, S) PROVE Budget!WithinLimits(S)
    OBVIOUS
<1>4. policy.maxActions = Unset \/ Budget!Cardinality(S) <= policy.maxActions
    <2>1. Budget!Cardinality(S) = Cardinality(S)
        BY DEF Budget!Cardinality, Cardinality
    <2> QED BY <2>1 DEF InLimits
<1>5. \A k \in DOMAIN policy.perTick \ {"*"} :
          Budget!Spent(S, {Fold[k]}) <= policy.perTick[k]
    BY <1>1 DEF InLimits, Named
<1>6. "*" \in DOMAIN policy.perTick =>
          /\ \A token \in {Fold[s] : s \in DOMAIN Fold} \ Budget!NamedTokens(policy.perTick) :
                Budget!Spent(S, {token}) <= policy.perTick["*"]
          /\ Budget!SpentUnresolved(S) <= policy.perTick["*"]
    BY <1>1, <1>2, <1>3 DEF InLimits
<1> QED BY <1>4, <1>5, <1>6 DEF Budget!WithinLimits

LEMMA WindowSummed ==
    ASSUME Inv
    PROVE  LimitsTyped(policy) /\ Summable(Window) /\ Window \subseteq charges
<1>1. Window \subseteq charges
    BY DEF Window, Budget!Window
<1>2. LimitsTyped(policy)
    BY AgentPolicyAssumption DEF Inv, StateTyped, LimitsTyped
<1> QED BY <1>1, <1>2, SummableLess DEF Inv, ChargesTyped

\* Every charge of the window has a row of its own in the usage, of the same
\* tick and amount.
LEMMA UsageMatches ==
    ASSUME Inv, HasWindow
    PROVE  Summable(Usage) /\ \E m : Matches(m, Window, Usage)
<1> DEFINE m == [c \in Window |-> CHOOSE e \in Usage : StandsFor(e, c)]
<1>1. ASSUME NEW c \in Window PROVE c \in charges /\ Fresh(c)
    BY WindowAssumption DEF Window, Budget!Window, Fresh, Inv, StateTyped, ChargesTyped
<1>2. ASSUME NEW c \in Window PROVE \E e \in Usage : StandsFor(e, c)
    <2>1. PICK e \in Pruned : StandsFor(e, c)
        BY <1>1, PrunedKept DEF Remembers, Due
    <2>2. InWindow(e)
        BY <1>1, <2>1, WindowAssumption DEF InWindow, StandsFor, Fresh, Inv, StateTyped, ChargesTyped
    <2> QED BY <2>1, <2>2 DEF Usage
<1>3. \A c \in Window : m[c] \in Usage /\ StandsFor(m[c], c)
    BY <1>2
<1>4. \A c, d \in Window : m[c] = m[d] => c = d
    BY <1>1, <1>3 DEF StandsFor, Inv, ChargesTyped
<1>5. m \in [Window -> Usage]
    BY <1>3
<1> HIDE DEF m
<1>6. Matches(m, Window, Usage)
    BY <1>1, <1>3, <1>4, <1>5 DEF Matches, StandsFor
<1>7. Summable(Usage)
    BY PrunedKept, SummableLess DEF Usage, RowsTyped
<1> QED BY <1>6, <1>7

\* What the evaluator permits fits the window of charges.
LEMMA EvaluatedFits ==
    ASSUME Inv, NEW act \in Acts, Evaluates(act)
    PROVE  Fits(policy, act, Window)
<1> DEFINE vl == Versionless(act)
<1>1. /\ vl.amount = act.amount /\ ResolveTick(policy, vl) = ResolveTick(policy, act)
      /\ vl.amount \in Nat \cup {Undefined}
    BY Evaluated
<1>2. Permits(policy, vl, IF HasWindow THEN Usage ELSE {})
    BY DEF Evaluates
<1> HIDE DEF vl
<1>3. Fits(policy, vl, Window)
    <2>1. CASE HasWindow
        <3>1. PICK m : Matches(m, Window, Usage)
            BY <2>1, UsageMatches
        <3> QED BY <1>1, <1>2, <2>1, <3>1, UsageMatches, WindowSummed, PermittedFits
    <2>2. CASE ~HasWindow
        <3>1. policy.maxActions = Unset /\ DOMAIN policy.perTick = {}
            BY <2>2 DEF HasWindow
        <3> QED BY <1>1, <3>1 DEF Fits, CapFor, TickKeysFor
    <2> QED BY <2>1, <2>2
<1> QED BY <1>1, <1>3 DEF Fits

\* An authorisation of what fits is a charge of the abstract window.
LEMMA AuthorizedFits ==
    ASSUME BudgetInv, Inv', NEW act, Fits(policy, act, Window), NEW key,
           Authorize(act, key), UNCHANGED <<policy, now>>
    PROVE  InLimits(policy, Window)' /\ Budget!Charge
<1> DEFINE d == Charge(NewRow(act, key))
           V == Budget!Window(charges', now)
<1>1. charges' = charges \cup {d} /\ job'.at = "submit"
    BY DEF Authorize
<1>2. d.tick = ResolveTick(policy, act) /\ d.amount = act.amount /\ d.at = now /\ d.id = rows + 1
    BY DEF NewRow, Charge
<1>3. d \notin charges
    BY <1>2 DEF BudgetInv, Inv, ChargesTyped, StateTyped
<1> HIDE DEF d
<1>4. Summable(Window) /\ LimitsTyped(policy) /\ d \notin Window
    BY <1>3, WindowSummed DEF BudgetInv
<1>5. Summable(Window \cup {d}) /\ InLimits(policy, Window \cup {d})
    BY <1>2, <1>4, FitsLimits DEF BudgetInv
<1>6. V \subseteq Window \cup {d}
    BY <1>1 DEF Window, Budget!Window
<1>7. InLimits(policy, V)
    BY <1>4, <1>5, <1>6, LimitsLess
<1>8. InLimits(policy, Window)'
    BY <1>7 DEF Window
<1>9. Budget!Charge
    BY <1>1, <1>2, <1>3, <1>7, SameLimits DEF Budget!Charge
<1> QED BY <1>8, <1>9

\* A step that charges nothing: at most time passes, and the window shrinks.
LEMMA Uncharged ==
    ASSUME BudgetInv, Inv', UNCHANGED <<policy, charges>>, now' \in {now, now + 1},
           job'.at = "confirm" =>
               \/ job.at = "confirm" /\ job'.act = job.act
               \/ Fits(policy, job'.act, Window)
    PROVE  BudgetInv' /\ [Budget!Next]_<<policy, now, charges>>
<1> DEFINE V == Budget!Window(charges, now')
<1>1. V \subseteq Window
    BY WindowAssumption DEF Window, Budget!Window, BudgetInv, Inv, StateTyped, ChargesTyped
<1>2. Summable(Window) /\ LimitsTyped(policy)
    BY WindowSummed DEF BudgetInv
<1> HIDE DEF V
<1>3. InLimits(policy, V)
    BY <1>1, <1>2, LimitsLess DEF BudgetInv
<1>4. ASSUME job'.at = "confirm" PROVE Fits(policy, job'.act, V)
    <2>1. Fits(policy, job'.act, Window)
        BY <1>4 DEF BudgetInv
    <2> QED BY <1>1, <1>2, <2>1, FitsLess
<1>5. Window' = V
    BY DEF Window, V
<1>6. BudgetInv'
    BY <1>3, <1>4, <1>5 DEF BudgetInv
<1>7. now' = now \/ Budget!Tick
    BY DEF Budget!Tick, BudgetInv, Inv, StateTyped
<1> QED BY <1>6, <1>7 DEF Budget!Next

LEMMA BudgetStep ==
    ASSUME BudgetInv, [Next]_vars
    PROVE  BudgetInv' /\ [Budget!Next]_<<policy, now, charges>>
<1>1. Inv'
    BY InvStep DEF BudgetInv
<1>2. ASSUME NEW act \in Acts, NEW key \in Keys \cup {None}, Begin(act, key)
      PROVE  BudgetInv' /\ [Budget!Next]_<<policy, now, charges>>
    <2>1. Fits(policy, act, Window)
        BY <1>2, EvaluatedFits DEF Begin, BudgetInv
    <2>2. UNCHANGED <<policy, now>>
        BY <1>2 DEF Begin
    <2>3. CASE Authorize(act, key)
        <3>1. InLimits(policy, Window)' /\ Budget!Charge /\ job'.at = "submit"
            BY <2>1, <2>2, <2>3, <1>1, AuthorizedFits DEF Authorize
        <3> QED BY <1>1, <3>1 DEF BudgetInv, Budget!Next
    <2>4. CASE ~Authorize(act, key)
        <3>1. charges' = charges /\ (job'.at = "confirm" => job'.act = act)
            BY <1>2, <2>4 DEF Begin, RefuseSubmission, Idle
        <3> QED BY <1>1, <2>1, <2>2, <3>1, Uncharged
    <2> QED BY <2>3, <2>4
<1>3. CASE Confirm
    <2>1. Fits(policy, job.act, Window) /\ UNCHANGED <<policy, now>>
        BY <1>3 DEF Confirm, BudgetInv
    <2>2. CASE Authorize(job.act, job.key)
        <3>1. InLimits(policy, Window)' /\ Budget!Charge /\ job'.at = "submit"
            BY <2>1, <2>2, <1>1, AuthorizedFits DEF Authorize
        <3> QED BY <1>1, <3>1 DEF BudgetInv, Budget!Next
    <2>3. CASE RefuseSubmission(job.key)
        <3>1. charges' = charges /\ job'.at # "confirm"
            BY <2>3 DEF RefuseSubmission, Idle
        <3> QED BY <1>1, <2>1, <3>1, Uncharged
    <2> QED BY <1>3, <2>2, <2>3 DEF Confirm
<1>4. CASE \/ \E act \in Acts : Refuse(act)
           \/ Decline \/ SendFails \/ SubmitEnds \/ SubmitEndsSilently \/ Inspect \/ Halt
           \/ Restart \/ Tick \/ Send \/ UNCHANGED vars
    <2>1. /\ UNCHANGED <<policy, charges>> /\ now' \in {now, now + 1}
          /\ job'.at # "confirm" \/ job' = job
        BY <1>4 DEF Refuse, Decline, SendFails, SubmitEnds, SubmitEndsSilently, Inspect, Halt,
                    Restart, Tick, Send, vars, Idle, BudgetInv, Inv, JobInv
    <2> QED BY <1>1, <2>1, Uncharged
<1> QED BY <1>2, <1>3, <1>4 DEF Next

\* The session keeps the promise of the spending window, for every policy,
\* spelling, confirmation, failed submit, crash and restart
\* (ImplementsBudget).
THEOREM SessionKeepsBudget == Spec => ImplementsBudget
<1>1. Init => Budget!Init /\ BudgetInv
    <2> SUFFICES ASSUME Init PROVE Budget!Init /\ BudgetInv
        OBVIOUS
    <2>1. Window = {} /\ charges = {} /\ now = 0 /\ job.at # "confirm"
        BY DEF Init, Window, Budget!Window, Idle
    <2> QED BY <2>1, InitInv, WindowSummed, NoCharges DEF BudgetInv, Budget!Init
<1>2. BudgetInv /\ [Next]_vars => BudgetInv' /\ [Budget!Next]_<<policy, now, charges>>
    BY BudgetStep
<1> QED BY <1>1, <1>2, PTL DEF Spec, ImplementsBudget, Budget!Spec

-----------------------------------------------------------------------------
(* The wallet session: its inductive invariant. *)

\* A submit that resolved, and what such submits spent.
Resolved(k) == k \in DOMAIN outcome /\ outcome[k] = "resolved"
ResolvedIns == UNION {t.ins : t \in {u \in accepted : Resolved(u.id[1])}}

\* Every coin there ever was.
Minted == Initial \cup UNION {t.outs : t \in accepted}

\* Transactions belong to the submits so far, and make coins of their own.
TxInv ==
    /\ cur \in Nat \ {0} /\ DOMAIN outcome = 1..(cur - 1)
    /\ \A t \in accepted \cup lastTx :
          t.id[1] \in 1..cur /\ (t.id[1] = cur => task.at \in {"reveal", "wait"})
    /\ \A t \in accepted : \A c \in t.outs : c[1] = t.id[1]

\* What the submit at work has asked for, was offered and has picked ...
OfferInv ==
    /\ DOMAIN task = DOMAIN NoJob
    /\ task.at = "load" <=> "submit" \in DOMAIN views
    /\ task.at = "create" /\ task.by = "session" =>
          task.offered # {} /\ \A e \in task.offered : e.coin \notin ResolvedIns
    /\ task.at \in {"prepare", "broadcast"} /\ task.by = "session" =>
          task.ins \cap ResolvedIns = {}
    /\ task.at \in {"prepare", "broadcast"} => task.change \subseteq {Coin(cur, "change")}

\* ... and what it has sent.
SentInv ==
    /\ task.at \in {"reveal", "wait"} =>
          /\ task.ins \subseteq Spent
          /\ \A t \in accepted : t.id[1] = cur =>
                /\ t.ins = task.ins \/ (task.kind # "inline" /\ t.ins = {Coin(cur, "fund")})
                /\ \A c \in t.outs :
                      \/ c \in task.change
                      \/ task.kind # "inline" /\ c \in {Coin(cur, "fund"), Coin(cur, "rest")}
    /\ task.at = "reveal" => task.kind # "inline"
    /\ task.at = "wait" /\ task.kind # "inline" => Coin(cur, "fund") \in Spent

\* What the cache knows to be spent; until it has its address no submit counts
\* as resolved, for the first refresh empties it.
SpentInv ==
    /\ ResolvedIns \subseteq spent /\ spent \subseteq Spent
    /\ ~known => \A k : ~Resolved(k)

ViewCoins(w) == CoinsOf(views[w].entries)

\* Of two refreshes in flight one began after the other, and its view has what
\* is unspent of the other's; the tracker's has it of both.
ViewInv ==
    /\ CoinsOf(tracker) \subseteq Minted
    /\ \A w \in DOMAIN views :
          /\ ViewCoins(w) \subseteq Minted
          /\ ViewCoins(w) \cap Unspent \subseteq CoinsOf(tracker)
          /\ views[w].after \subseteq DOMAIN views
          /\ \A v \in DOMAIN views :
                /\ v # w => v \in views[w].after \/ w \in views[v].after
                /\ v \in views[w].after => ViewCoins(v) \cap Unspent \subseteq ViewCoins(w)

\* A coin that every view from now on has, but for the late ones.
Seen(c) ==
    /\ c \in CoinsOf(tracker)
    /\ \A w \in DOMAIN views : ~views[w].late => c \in ViewCoins(w)
    /\ ~behind => c \in CoinsOf(utxos)

\* The cache keeps the unspent change of the submits that resolved until then.
CacheInv == \A c \in Unspent : Resolved(c[1]) => c \in CoinsOf(spec) \/ Seen(c)

\* What was sent of the coins on offer kept off what earlier submits had spent,
\* if they resolved.
PastInv ==
    \A s \in lastTx, t \in accepted :
        s.by = "session" /\ t.id[1] < s.id[1] /\ Resolved(t.id[1]) => s.ins \cap t.ins = {}

StoreInv == SpentInv /\ ViewInv /\ CacheInv
WalletInv == TxInv /\ OfferInv /\ SentInv /\ PastInv /\ StoreInv

-----------------------------------------------------------------------------
(* The cache, the tracker and the network. *)

\* A submit goes on, or fails.
UnresolvedSo == UNCHANGED <<cur, outcome>> \/ Finish("rejected")

LEMMA SameResolved ==
    ASSUME TxInv, UnresolvedSo
    PROVE  (\A k : Resolved(k)' <=> Resolved(k)) /\ ~Resolved(cur)
BY DEF TxInv, UnresolvedSo, Finish, Resolved

LEMMA SameCoins ==
    ASSUME accepted' = accepted, \A k : Resolved(k)' <=> Resolved(k)
    PROVE  ResolvedIns' = ResolvedIns /\ Minted' = Minted /\ Spent' = Spent /\ Unspent' = Unspent
BY DEF ResolvedIns, Minted, Spent, Unspent, Initial

\* Nothing is sent and nothing asked.
LEMMA StoreKept ==
    ASSUME TxInv, StoreInv, UnresolvedSo,
           UNCHANGED <<accepted, tracker, utxos, spec, spent, known, behind, views>>
    PROVE  StoreInv'
<1>1. \A k : Resolved(k)' <=> Resolved(k)
    BY SameResolved
<1>2. ResolvedIns' = ResolvedIns /\ Minted' = Minted /\ Spent' = Spent /\ Unspent' = Unspent
    BY <1>1, SameCoins
<1>3. SpentInv'
    BY <1>1, <1>2 DEF StoreInv, SpentInv
<1>4. \A w : ViewCoins(w)' = ViewCoins(w)
    BY DEF ViewCoins, CoinsOf
<1>5. ViewInv'
    BY <1>2, <1>4 DEF StoreInv, ViewInv
<1>6. CacheInv'
    BY <1>1, <1>2, <1>4 DEF StoreInv, CacheInv, Seen
<1> QED
    BY <1>3, <1>5, <1>6 DEF StoreInv

LEMMA CoinsOfAll ==
    ASSUME NEW U, NEW B
    PROVE  CoinsOf({[coin |-> c, conf |-> c[1] \in B] : c \in U}) = U
<1> DEFINE E == {[coin |-> c, conf |-> c[1] \in B] : c \in U}
<1>1. ASSUME NEW c \in U PROVE c \in CoinsOf(E)
    <2>1. [coin |-> c, conf |-> c[1] \in B] \in E /\ [coin |-> c, conf |-> c[1] \in B].coin = c
        OBVIOUS
    <2> QED
        BY <2>1 DEF CoinsOf
<1>2. ASSUME NEW c \in CoinsOf(E) PROVE c \in U
    BY DEF CoinsOf
<1> QED
    BY <1>1, <1>2

\* The tracker catches up.
LEMMA StoreSyncs ==
    ASSUME TxInv, StoreInv, TrackerSyncs
    PROVE  StoreInv'
<1>1. /\ UNCHANGED <<cur, outcome, accepted, utxos, spec, spent, known, behind, views>>
      /\ CoinsOf(tracker') = Unspent
    BY CoinsOfAll DEF TrackerSyncs, cacheVars
<1>2. \A k : Resolved(k)' <=> Resolved(k)
    BY <1>1, SameResolved DEF UnresolvedSo
<1>3. ResolvedIns' = ResolvedIns /\ Minted' = Minted /\ Spent' = Spent /\ Unspent' = Unspent
    BY <1>1, <1>2, SameCoins
<1>4. SpentInv'
    BY <1>1, <1>2, <1>3 DEF StoreInv, SpentInv
<1>5. \A w : ViewCoins(w)' = ViewCoins(w)
    BY <1>1 DEF ViewCoins, CoinsOf
<1>6. Unspent \subseteq Minted
    BY DEF Unspent, Minted
<1>7. ViewInv'
    BY <1>1, <1>3, <1>5, <1>6 DEF StoreInv, ViewInv
<1>8. CacheInv'
    BY <1>1, <1>2, <1>3, <1>5 DEF StoreInv, CacheInv, Seen
<1> QED
    BY <1>4, <1>7, <1>8 DEF StoreInv

\* A refresh asks, and empties the cache before the first one.
LEMMA StoreBegins ==
    ASSUME TxInv, StoreInv, NEW who, who \notin DOMAIN views,
           RefreshBegin(who), UNCHANGED <<accepted, tracker, cur, outcome>>
    PROVE  StoreInv' /\ DOMAIN views' = DOMAIN views \cup {who}
<1>1. /\ DOMAIN views' = DOMAIN views \cup {who}
      /\ views'[who] = [entries |-> tracker, after |-> DOMAIN views, late |-> FALSE]
      /\ \A w \in DOMAIN views : views'[w] = views[w]
      /\ known' /\ UNCHANGED <<utxos, behind>>
    BY DEF RefreshBegin
<1>2. \A k : Resolved(k)' <=> Resolved(k)
    BY SameResolved DEF UnresolvedSo
<1>3. ResolvedIns' = ResolvedIns /\ Minted' = Minted /\ Spent' = Spent /\ Unspent' = Unspent
    BY <1>2, SameCoins
<1>4. ~known => ResolvedIns = {} /\ spent' = {} /\ spec' = {}
    BY DEF RefreshBegin, ResolvedIns, StoreInv, SpentInv
<1>5. known => UNCHANGED <<spent, spec>>
    BY DEF RefreshBegin
<1>6. SpentInv'
    BY <1>1, <1>2, <1>3, <1>4, <1>5 DEF StoreInv, SpentInv
<1>7. /\ ViewCoins(who)' = CoinsOf(tracker)
      /\ \A w \in DOMAIN views : ViewCoins(w)' = ViewCoins(w)
    BY <1>1 DEF ViewCoins, CoinsOf
<1>8. ViewInv'
    <2> SUFFICES ASSUME NEW w \in DOMAIN views'
                 PROVE  /\ ViewCoins(w)' \subseteq Minted
                        /\ ViewCoins(w)' \cap Unspent \subseteq CoinsOf(tracker)
                        /\ views'[w].after \subseteq DOMAIN views'
                        /\ \A v \in DOMAIN views' :
                              /\ v # w => v \in views'[w].after \/ w \in views'[v].after
                              /\ v \in views'[w].after =>
                                    ViewCoins(v)' \cap Unspent \subseteq ViewCoins(w)'
        BY <1>3 DEF StoreInv, ViewInv
    <2>1. CASE w = who
        BY <1>1, <1>7, <2>1 DEF StoreInv, ViewInv
    <2>2. CASE w \in DOMAIN views
        <3>1. ASSUME NEW v \in DOMAIN views'
              PROVE  /\ v # w => v \in views'[w].after \/ w \in views'[v].after
                     /\ v \in views'[w].after => ViewCoins(v)' \cap Unspent \subseteq ViewCoins(w)'
            <4>1. CASE v = who
                <5>1. w \in views'[v].after
                    BY <1>1, <2>2, <4>1
                <5> QED
                    BY <1>1, <2>2, <4>1, <5>1 DEF StoreInv, ViewInv
            <4>2. CASE v \in DOMAIN views
                BY <1>1, <1>7, <2>2, <4>2 DEF StoreInv, ViewInv
            <4> QED
                BY <1>1, <4>1, <4>2
        <3> QED
            BY <1>1, <1>7, <2>2, <3>1 DEF StoreInv, ViewInv
    <2> QED
        BY <1>1, <2>1, <2>2
<1>9. CacheInv'
    <2> SUFFICES ASSUME NEW c \in Unspent, Resolved(c[1])
                 PROVE  c \in CoinsOf(spec') \/ Seen(c)'
        BY <1>2, <1>3 DEF CacheInv
    <2>1. known
        BY DEF StoreInv, SpentInv
    <2>2. Seen(c) => Seen(c)'
        BY <1>1, <1>7 DEF Seen
    <2> QED
        BY <1>5, <2>1, <2>2 DEF StoreInv, CacheInv
<1> QED
    BY <1>1, <1>6, <1>8, <1>9 DEF StoreInv

\* A refresh leaves.
LEMMA ViewsLeft ==
    ASSUME ViewInv, NEW who, NEW overtaken, Answered(who, overtaken),
           UNCHANGED <<accepted, tracker>>
    PROVE  /\ ViewInv'
           /\ DOMAIN views' = DOMAIN views \ {who}
           /\ \A w \in DOMAIN views' :
                 /\ ViewCoins(w)' = ViewCoins(w)
                 /\ ~views'[w].late => ~views[w].late /\ w \notin overtaken
<1>1. /\ DOMAIN views' = DOMAIN views \ {who}
      /\ \A w \in DOMAIN views' :
            views'[w] = [entries |-> views[w].entries, after |-> views[w].after \ {who},
                         late |-> views[w].late \/ w \in overtaken]
    BY DEF Answered
<1>2. \A w \in DOMAIN views' :
         /\ ViewCoins(w)' = ViewCoins(w) /\ views'[w].after = views[w].after \ {who}
         /\ ~views'[w].late => ~views[w].late /\ w \notin overtaken
    <2> SUFFICES ASSUME NEW w \in DOMAIN views'
                 PROVE  /\ ViewCoins(w)' = ViewCoins(w) /\ views'[w].after = views[w].after \ {who}
                        /\ ~views'[w].late => ~views[w].late /\ w \notin overtaken
        OBVIOUS
    <2>1. /\ views'[w].entries = views[w].entries /\ views'[w].after = views[w].after \ {who}
          /\ views'[w].late = (views[w].late \/ w \in overtaken)
        BY <1>1
    <2>2. ~views'[w].late => ~views[w].late /\ w \notin overtaken
        BY <2>1, Zenon
    <2> QED
        BY <2>1, <2>2 DEF ViewCoins, CoinsOf
<1>3. Minted' = Minted /\ Unspent' = Unspent
    BY DEF Minted, Spent, Unspent, Initial
<1>4. ViewInv'
    BY <1>1, <1>2, <1>3 DEF ViewInv
<1> QED
    BY <1>1, <1>2, <1>4

\* A refresh fails.
LEMMA StoreForgets ==
    ASSUME TxInv, StoreInv, UnresolvedSo, NEW who, Answered(who, {}),
           UNCHANGED <<accepted, tracker, utxos, spec, spent, known, behind>>
    PROVE  StoreInv'
<1>1. \A k : Resolved(k)' <=> Resolved(k)
    BY SameResolved
<1>2. ResolvedIns' = ResolvedIns /\ Minted' = Minted /\ Spent' = Spent /\ Unspent' = Unspent
    BY <1>1, SameCoins
<1>3. SpentInv'
    BY <1>1, <1>2 DEF StoreInv, SpentInv
<1>4. /\ ViewInv' /\ DOMAIN views' \subseteq DOMAIN views
      /\ \A w \in DOMAIN views' : /\ ViewCoins(w)' = ViewCoins(w)
                                  /\ ~views'[w].late => ~views[w].late
    BY ViewsLeft DEF StoreInv
<1>5. \A c : Seen(c) => Seen(c)'
    BY <1>4 DEF Seen
<1>6. CacheInv'
    BY <1>1, <1>2, <1>5 DEF StoreInv, CacheInv
<1> QED
    BY <1>3, <1>4, <1>6 DEF StoreInv

\* A refresh ends: what its view takes over of the speculative change, the
\* views of the refreshes that began after it have as well.
LEMMA StoreApplies ==
    ASSUME TxInv, StoreInv, UnresolvedSo, NEW who \in DOMAIN views, RefreshApply(who),
           UNCHANGED <<accepted, tracker>>
    PROVE  StoreInv'
<1>1. /\ CoinsOf(utxos') = ViewCoins(who) /\ UNCHANGED <<spent, known>>
      /\ behind' = views[who].late /\ Answered(who, views[who].after)
    BY DEF RefreshApply, ViewCoins
<1>2. \A c \in CoinsOf(spec) : c \notin ViewCoins(who) /\ c \notin spent => c \in CoinsOf(spec')
    BY DEF RefreshApply, StillSpeculative, ViewCoins, CoinsOf
<1>3. \A k : Resolved(k)' <=> Resolved(k)
    BY SameResolved
<1>4. ResolvedIns' = ResolvedIns /\ Minted' = Minted /\ Spent' = Spent /\ Unspent' = Unspent
    BY <1>3, SameCoins
<1>5. SpentInv'
    BY <1>1, <1>3, <1>4 DEF StoreInv, SpentInv
<1>6. /\ ViewInv' /\ DOMAIN views' = DOMAIN views \ {who}
      /\ \A w \in DOMAIN views' :
            /\ ViewCoins(w)' = ViewCoins(w)
            /\ ~views'[w].late => ~views[w].late /\ w \notin views[who].after
    BY <1>1, ViewsLeft DEF StoreInv
<1>7. CacheInv'
    <2> SUFFICES ASSUME NEW c \in Unspent, Resolved(c[1])
                 PROVE  c \in CoinsOf(spec') \/ Seen(c)'
        BY <1>3, <1>4 DEF CacheInv
    <2>1. CASE Seen(c)
        <3>1. c \in CoinsOf(tracker')
            BY <2>1 DEF Seen
        <3>2. \A w \in DOMAIN views' : ~views'[w].late => c \in ViewCoins(w)'
            BY <1>6, <2>1 DEF Seen
        <3>3. ~behind' => c \in CoinsOf(utxos')
            BY <1>1, <2>1 DEF Seen
        <3> QED
            BY <3>1, <3>2, <3>3 DEF Seen
    <2>2. CASE c \in CoinsOf(spec) /\ c \notin ViewCoins(who)
        <3>1. c \notin spent
            BY DEF StoreInv, SpentInv, Unspent
        <3> QED
            BY <1>2, <2>2, <3>1
    <2>3. CASE c \in ViewCoins(who)
        <3>1. c \in CoinsOf(tracker')
            BY <2>3 DEF StoreInv, ViewInv
        <3>2. ASSUME NEW w \in DOMAIN views', ~views'[w].late PROVE c \in ViewCoins(w)'
            <4>1. w \in DOMAIN views /\ w # who /\ w \notin views[who].after
                BY <1>6, <3>2
            <4>2. who \in views[w].after
                BY <4>1 DEF StoreInv, ViewInv
            <4>3. ViewCoins(who) \cap Unspent \subseteq ViewCoins(w)
                BY <4>1, <4>2 DEF StoreInv, ViewInv
            <4> QED
                BY <1>6, <2>3, <3>2, <4>3
        <3> QED
            BY <1>1, <2>3, <3>1, <3>2 DEF Seen
    <2> QED
        BY <2>1, <2>2, <2>3 DEF StoreInv, CacheInv
<1> QED
    BY <1>5, <1>6, <1>7 DEF StoreInv

\* A transaction is accepted; what it makes no view has, and no submit that
\* resolved has made.
LEMMA StoreAccepts ==
    ASSUME TxInv, StoreInv, UnresolvedSo, NEW tx, tx.id[1] = cur,
           accepted' = accepted \cup {tx},
           UNCHANGED <<tracker, utxos, spec, spent, known, behind, views>>,
           \A c \in tx.outs : c[1] = cur
    PROVE  StoreInv'
<1>1. (\A k : Resolved(k)' <=> Resolved(k)) /\ ~Resolved(cur)
    BY SameResolved
<1>2. ResolvedIns' = ResolvedIns
    BY <1>1 DEF ResolvedIns
<1>3. Minted' = Minted \cup tx.outs /\ Spent' = Spent \cup tx.ins
    BY DEF Minted, Spent, Initial
<1>4. Unspent = Minted \ Spent /\ Unspent' = Minted' \ Spent'
    BY DEF Unspent, Minted
<1>5. SpentInv'
    BY <1>1, <1>2, <1>3 DEF StoreInv, SpentInv
<1>6. \A w : ViewCoins(w)' = ViewCoins(w)
    BY DEF ViewCoins, CoinsOf
<1>7. ViewInv'
    BY <1>3, <1>4, <1>6 DEF StoreInv, ViewInv
<1>8. CacheInv'
    <2> SUFFICES ASSUME NEW c \in Unspent', Resolved(c[1])
                 PROVE  c \in CoinsOf(spec') \/ Seen(c)'
        BY <1>1 DEF CacheInv
    <2>1. c \in Unspent
        BY <1>1, <1>3, <1>4
    <2> QED
        BY <1>6, <2>1 DEF StoreInv, CacheInv, Seen
<1> QED
    BY <1>5, <1>7, <1>8 DEF StoreInv

\* A submit is carried out: what it spent is marked, what it made is kept.
LEMMA StoreTracks ==
    ASSUME TxInv, OfferInv, SentInv, StoreInv, Track
    PROVE  StoreInv'
<1> DEFINE Made == {Coin(cur, "rest") : x \in {y \in {task.kind} : y # "inline"}}
           Gone == {Coin(cur, "fund") : x \in {y \in {task.kind} : y # "inline"}}
<1>1. /\ task.at = "wait" /\ cur \in Nat \ {0} /\ DOMAIN outcome = 1..(cur - 1)
      /\ cur' = cur + 1 /\ DOMAIN outcome' = 1..cur
      /\ outcome'[cur] = IF known THEN "resolved" ELSE "early"
      /\ \A k \in DOMAIN outcome : outcome'[k] = outcome[k]
      /\ UNCHANGED <<accepted, tracker, utxos, known, behind, views>>
    BY DEF Track, Resolve, At, Finish, TxInv, network
<1>2. \A k : Resolved(k)' => Resolved(k) \/ (k = cur /\ known)
    BY <1>1 DEF Resolved
<1>3. spent' = spent \cup task.ins \cup Gone
    BY DEF Track, SpentInputs
<1>4. CoinsOf(spec') = CoinsOf(spec) \cup task.change \cup Made
    <2> DEFINE N == task.change \cup (IF task.kind = "inline" THEN {} ELSE {Coin(cur, "rest")})
    <2>1. N = task.change \cup Made
        OBVIOUS
    <2>2. CoinsOf(ChangeOutputs) = N
        <3> HIDE DEF N
        <3>1. ChangeOutputs = {[coin |-> c, conf |-> FALSE] : c \in N}
            BY DEF ChangeOutputs, N
        <3>2. \A c \in N : [coin |-> c, conf |-> FALSE].coin = c
            OBVIOUS
        <3> QED
            BY <3>1, <3>2 DEF CoinsOf
    <2>3. spec' = spec \cup ChangeOutputs
        BY DEF Track
    <2>4. CoinsOf(spec') = CoinsOf(spec) \cup CoinsOf(ChangeOutputs)
        BY <2>3 DEF CoinsOf
    <2> QED
        BY <2>1, <2>2, <2>4
<1>5. Minted' = Minted /\ Spent' = Spent /\ Unspent' = Unspent
    BY <1>1 DEF Minted, Spent, Unspent, Initial
<1>6. task.ins \cup Gone \subseteq Spent
    BY <1>1 DEF SentInv
<1>7. ResolvedIns' \subseteq ResolvedIns \cup task.ins \cup Gone
    <2> SUFFICES ASSUME NEW t \in accepted, Resolved(t.id[1])', NEW c \in t.ins
                 PROVE  c \in ResolvedIns \cup task.ins \cup Gone
        BY <1>1 DEF ResolvedIns
    <2>1. CASE t.id[1] = cur
        BY <1>1, <2>1 DEF SentInv
    <2>2. CASE Resolved(t.id[1])
        BY <2>2 DEF ResolvedIns
    <2> QED
        BY <1>2, <2>1, <2>2
<1>8. SpentInv'
    BY <1>1, <1>2, <1>3, <1>5, <1>6, <1>7 DEF StoreInv, SpentInv
<1>9. (\A w : ViewCoins(w)' = ViewCoins(w)) /\ CoinsOf(tracker') = CoinsOf(tracker)
    BY <1>1 DEF ViewCoins
<1>10. ViewInv'
    BY <1>1, <1>5, <1>9 DEF StoreInv, ViewInv
<1>11. ASSUME NEW c \in Unspent', Resolved(c[1])' PROVE c \in CoinsOf(spec') \/ Seen(c)'
    <2>1. c \in Minted /\ c \notin Spent
        BY <1>5 DEF Unspent, Minted
    <2>2. CASE Resolved(c[1])
        <3>1. Seen(c) => Seen(c)'
            BY <1>1, <1>9 DEF Seen
        <3> QED
            BY <1>4, <1>5, <2>2, <3>1 DEF StoreInv, CacheInv
    <2>3. CASE c[1] = cur
        <3>1. c \notin Initial
            BY <1>1, <2>3 DEF Initial, Coin
        <3>2. PICK t \in accepted : c \in t.outs
            BY <2>1, <3>1 DEF Minted
        <3>3. t.id[1] = cur
            BY <2>3, <3>2 DEF TxInv
        <3>4. c \in task.change \/ (task.kind # "inline" /\ c \in {Coin(cur, "fund"), Coin(cur, "rest")})
            BY <1>1, <3>2, <3>3 DEF SentInv
        <3>5. c \in task.change \cup Made
            BY <1>6, <2>1, <3>4
        <3> QED
            BY <1>4, <3>5
    <2> QED
        BY <1>2, <1>11, <2>2, <2>3
<1> QED
    BY <1>8, <1>10, <1>11 DEF StoreInv, CacheInv

-----------------------------------------------------------------------------
(* The submit at work. *)

\* The queue rests: the world moves, or the cache.
LEMMA Rests ==
    ASSUME TxInv, SentInv, PastInv, UNCHANGED <<accepted, lastTx, cur, outcome, task>>
    PROVE  TxInv' /\ SentInv' /\ PastInv'
BY DEF TxInv, SentInv, PastInv, Resolved, Spent

\* A submit goes on before it sends.
LEMMA GoesOn ==
    ASSUME TxInv, PastInv, task.at \notin {"reveal", "wait"}, task'.at \notin {"reveal", "wait"},
           lastTx' \in {lastTx, {}}, UNCHANGED <<accepted, cur, outcome>>
    PROVE  TxInv' /\ SentInv' /\ PastInv'
BY DEF TxInv, SentInv, PastInv, Resolved

\* A submit fails.
LEMMA Fails ==
    ASSUME TxInv, PastInv, Finish("rejected"), lastTx' \in {lastTx, {}}, UNCHANGED accepted
    PROVE  TxInv' /\ SentInv' /\ PastInv' /\ ("submit" \notin DOMAIN views' => OfferInv')
<1>1. \A k : Resolved(k)' <=> Resolved(k)
    BY SameResolved DEF UnresolvedSo
<1>2. cur' = cur + 1 /\ DOMAIN outcome' = 1..cur /\ task' = NoJob /\ task'.at = "idle"
    BY DEF Finish, NoJob
<1>3. TxInv'
    BY <1>2 DEF TxInv
<1>4. SentInv' /\ ("submit" \notin DOMAIN views' => OfferInv')
    BY <1>2 DEF SentInv, OfferInv
<1>5. PastInv'
    BY <1>1 DEF PastInv
<1> QED
    BY <1>3, <1>4, <1>5

\* A submit sends, and of what was offered spends nothing that one that
\* resolved has spent.
LEMMA Sends ==
    ASSUME TxInv, UnresolvedSo, NEW tx, tx.id[1] = cur,
           lastTx' = {tx}, accepted' \in {accepted, accepted \cup {tx}},
           tx.by = "session" => tx.ins \cap ResolvedIns = {}
    PROVE  PastInv'
<1>1. (\A k : Resolved(k)' <=> Resolved(k)) /\ ~Resolved(cur)
    BY SameResolved
<1> SUFFICES ASSUME NEW t \in accepted', tx.by = "session", Resolved(t.id[1])
             PROVE  tx.ins \cap t.ins = {}
    BY <1>1 DEF PastInv
<1>2. t \in accepted
    BY <1>1
<1> QED
    BY <1>2 DEF ResolvedIns

\* The transactions of a submit that has sent.
LEMMA TxSent ==
    ASSUME TxInv, NEW tx, tx.id[1] = cur, task.at \in {"broadcast", "reveal"},
           lastTx' = {tx}, accepted' \in {accepted, accepted \cup {tx}},
           \A c \in tx.outs : c[1] = cur,
           \/ UNCHANGED <<cur, outcome>> /\ task'.at \in {"reveal", "wait"}
           \/ Finish("rejected")
    PROVE  TxInv'
<1>1. cur' \in Nat \ {0} /\ DOMAIN outcome' = 1..(cur' - 1)
    BY DEF TxInv, Finish
<1>2. \A t \in accepted' \cup lastTx' :
         t.id[1] \in 1..cur' /\ (t.id[1] = cur' => task'.at \in {"reveal", "wait"})
    BY DEF TxInv, Finish
<1>3. \A t \in accepted' : \A c \in t.outs : c[1] = t.id[1]
    BY DEF TxInv
<1> QED
    BY <1>1, <1>2, <1>3 DEF TxInv

\* What is on offer is what the cache has and knows not to be spent.
LEMMA Offers ==
    ASSUME NEW all, \A e \in all : e.coin \notin spent', NEW opts, Offer(opts, all),
           StoreInv', "submit" \notin DOMAIN views'
    PROVE  OfferInv' /\ task'.at \in {"create", "idle"}
<1>1. CASE Finish("rejected")
    BY <1>1 DEF OfferInv, Finish, NoJob
<1>2. CASE /\ ~(opts = "no" /\ all # {} /\ {e \in all : e.conf} = {})
           /\ task' = [NoJob EXCEPT !.at = "create", !.opts = opts,
                                  !.offered = IF opts = "no" THEN {e \in all : e.conf} ELSE all,
                                  !.by = IF all = {} THEN "encoder" ELSE "session"]
    <2>1. /\ DOMAIN task' = DOMAIN NoJob /\ task'.at = "create"
          /\ task'.offered \subseteq all /\ (task'.by = "session" => task'.offered # {})
        BY <1>2 DEF NoJob
    <2>2. \A e \in all : e.coin \notin ResolvedIns'
        BY DEF StoreInv, SpentInv
    <2> QED
        BY <2>1, <2>2 DEF OfferInv
<1> QED
    BY <1>1, <1>2 DEF Offer

-----------------------------------------------------------------------------
(* One step of the session, of a refresh and of the tracker. *)

LEMMA WalletStep ==
    ASSUME WalletInv, [WalletNext]_walletVars
    PROVE  WalletInv'
<1> USE DEF WalletInv
<1>1. CASE TrackerSyncs
    <2>1. /\ UNCHANGED <<accepted, views, cur, task, lastTx, outcome>>
        BY <1>1 DEF TrackerSyncs, cacheVars
    <2>2. StoreInv'
        BY <1>1, StoreSyncs
    <2>3. OfferInv'
        BY <2>1, SameCoins DEF OfferInv, Resolved
    <2> QED
        BY <2>1, <2>2, <2>3, Rests
<1>2. CASE HydrateBegin
    <2>1. /\ UNCHANGED <<accepted, tracker, cur, task, lastTx, outcome>>
          /\ RefreshBegin("hydrate") /\ "hydrate" \notin DOMAIN views
        BY <1>2 DEF HydrateBegin, network
    <2>2. StoreInv' /\ DOMAIN views' = DOMAIN views \cup {"hydrate"}
        BY <2>1, StoreBegins
    <2>3. OfferInv'
        BY <2>1, <2>2, SameCoins DEF OfferInv, Resolved
    <2> QED
        BY <2>1, <2>2, <2>3, Rests
<1>3. CASE HydrateEnd
    <2>1. /\ UNCHANGED <<accepted, tracker, cur, task, lastTx, outcome>>
          /\ "hydrate" \in DOMAIN views
          /\ RefreshApply("hydrate") \/ (Answered("hydrate", {}) /\ UNCHANGED cacheVars)
        BY <1>3 DEF HydrateEnd, network
    <2>2. StoreInv'
        BY <2>1, StoreApplies, StoreForgets DEF UnresolvedSo, cacheVars
    <2>3. DOMAIN views' = DOMAIN views \ {"hydrate"}
        BY <2>1 DEF RefreshApply, Answered
    <2>4. OfferInv'
        BY <2>1, <2>3, SameCoins DEF OfferInv, Resolved
    <2> QED
        BY <2>1, <2>2, <2>4, Rests
<1>4. CASE Load
    <2>1. /\ UNCHANGED <<accepted, tracker>> /\ lastTx' = {} /\ task.at = "idle"
          /\ "submit" \notin DOMAIN views
        BY <1>4 DEF Load, At, network, OfferInv
    <2>2. PICK o \in Unconfirmed :
             IF o = "yes" \/ stale \/ Available(utxos, spec, spent) = {}
             THEN /\ RefreshBegin("submit")
                  /\ task' = [NoJob EXCEPT !.at = "load", !.opts = o]
                  /\ UNCHANGED <<cur, outcome>>
             ELSE /\ Offer(o, Available(utxos, spec, spent))
                  /\ UNCHANGED <<cacheVars, views>>
        BY <1>4 DEF Load
    <2>3. CASE /\ RefreshBegin("submit")
               /\ task' = [NoJob EXCEPT !.at = "load", !.opts = o]
               /\ UNCHANGED <<cur, outcome>>
        <3>1. StoreInv' /\ DOMAIN views' = DOMAIN views \cup {"submit"}
            BY <2>1, <2>3, StoreBegins
        <3>2. task'.at = "load" /\ DOMAIN task' = DOMAIN NoJob
            BY <2>3 DEF NoJob
        <3>3. OfferInv'
            BY <3>1, <3>2 DEF OfferInv
        <3> QED
            BY <2>1, <2>3, <3>1, <3>2, <3>3, GoesOn
    <2>4. CASE Offer(o, Available(utxos, spec, spent)) /\ UNCHANGED <<cacheVars, views>>
        <3>1. UNCHANGED <<utxos, spec, spent, known, behind, views>>
            BY <2>4 DEF cacheVars
        <3>2. Finish("rejected") \/ (UNCHANGED <<cur, outcome>> /\ task'.at = "create")
            BY <2>4 DEF Offer, NoJob
        <3>3. StoreInv'
            BY <2>1, <3>1, <3>2, StoreKept DEF UnresolvedSo
        <3>4. TxInv' /\ SentInv' /\ PastInv'
            BY <2>1, <3>2, Fails, GoesOn
        <3>5. \A e \in Available(utxos, spec, spent) : e.coin \notin spent'
            BY <3>1 DEF Available
        <3>6. OfferInv'
            BY <2>1, <2>4, <3>1, <3>3, <3>5, Offers
        <3> QED
            BY <3>3, <3>4, <3>6
    <2> QED
        BY <2>2, <2>3, <2>4
<1>5. CASE LoadEnd
    <2>1. /\ UNCHANGED <<accepted, tracker, lastTx>> /\ task.at = "load"
          /\ "submit" \in DOMAIN views
        BY <1>5 DEF LoadEnd, At, network, OfferInv
    <2>2. CASE RefreshApply("submit") /\ Offer(task.opts, Available(utxos', spec', spent))
        <3>1. Finish("rejected") \/ (UNCHANGED <<cur, outcome>> /\ task'.at = "create")
            BY <2>2 DEF Offer, NoJob
        <3>2. StoreInv'
            BY <2>1, <2>2, <3>1, StoreApplies DEF UnresolvedSo
        <3>3. TxInv' /\ SentInv' /\ PastInv'
            BY <2>1, <3>1, Fails, GoesOn
        <3>4. /\ \A e \in Available(utxos', spec', spent) : e.coin \notin spent'
              /\ "submit" \notin DOMAIN views'
            BY <2>2 DEF Available, RefreshApply, Answered
        <3>5. OfferInv'
            BY <2>2, <3>2, <3>4, Offers
        <3> QED
            BY <3>2, <3>3, <3>5
    <2>3. CASE Answered("submit", {}) /\ Finish("rejected") /\ UNCHANGED cacheVars
        <3>1. UNCHANGED <<utxos, spec, spent, known, behind>> /\ "submit" \notin DOMAIN views'
            BY <2>3 DEF cacheVars, Answered
        <3> QED
            BY <2>1, <2>3, <3>1, StoreForgets, Fails DEF UnresolvedSo
    <2> QED
        BY <1>5, <2>2, <2>3 DEF LoadEnd
<1>6. CASE LoadExplicit
    <2>1. /\ UNCHANGED <<accepted, tracker, utxos, spec, spent, known, behind, views, cur, outcome>>
          /\ task.at = "idle" /\ lastTx' = {}
        BY <1>6 DEF LoadExplicit, At, network, cacheVars
    <2>2. task'.at = "create" /\ task'.by = "caller" /\ DOMAIN task' = DOMAIN NoJob
        BY <1>6 DEF LoadExplicit, NoJob
    <2>3. OfferInv'
        BY <2>1, <2>2 DEF OfferInv
    <2> QED
        BY <2>1, <2>2, <2>3, StoreKept, GoesOn DEF UnresolvedSo
<1>7. ASSUME Reject, task.at # "load" PROVE WalletInv'
    <2>1. /\ UNCHANGED <<accepted, tracker, utxos, spec, spent, known, behind, views, lastTx>>
          /\ Finish("rejected") /\ "submit" \notin DOMAIN views'
        BY <1>7 DEF Reject, network, cacheVars, OfferInv
    <2> QED
        BY <2>1, StoreKept, Fails DEF UnresolvedSo
<1>8. CASE Create
    <2>1. task.at = "create"
        BY <1>8 DEF Create, At
    <2>2. CASE Reject
        BY <2>1, <2>2, <1>7
    <2> DEFINE Picks(e, kind, change) ==
                  task' = [NoJob EXCEPT !.at = IF kind = "inline" THEN "broadcast" ELSE "prepare",
                                        !.kind = kind, !.ins = {e.coin}, !.by = task.by,
                                        !.change = IF change THEN {Coin(cur, "change")} ELSE {}]
    <2>3. ASSUME NEW e \in Selectable, NEW kind \in Encodings, NEW change \in Changes,
                 Picks(e, kind, change),
                 UNCHANGED <<network, cacheVars, views, cur, lastTx, outcome>>
          PROVE  WalletInv'
        <3>1. UNCHANGED <<accepted, tracker, utxos, spec, spent, known, behind, views, cur, lastTx, outcome>>
            BY <2>3 DEF network, cacheVars
        <3>2. /\ task'.at \in {"prepare", "broadcast"} /\ task'.ins = {e.coin}
              /\ task'.by = task.by /\ DOMAIN task' = DOMAIN NoJob
              /\ task'.change \subseteq {Coin(cur, "change")}
            BY <2>3 DEF NoJob
        <3>3. task.by = "session" => e.coin \notin ResolvedIns
            BY <2>1 DEF Selectable, OfferInv
        <3>4. ResolvedIns' = ResolvedIns
            BY <3>1, SameCoins DEF Resolved
        <3>5. OfferInv'
            BY <2>1, <3>1, <3>2, <3>3, <3>4 DEF OfferInv
        <3> QED
            BY <2>1, <3>1, <3>2, <3>5, StoreKept, GoesOn DEF UnresolvedSo
    <2>4. \/ Reject
          \/ /\ \E e \in Selectable, kind \in Encodings, change \in Changes : Picks(e, kind, change)
             /\ UNCHANGED <<network, cacheVars, views, cur, lastTx, outcome>>
        BY <1>8, Zenon DEF Create
    <2> HIDE DEF Picks, WalletInv
    <2> QED
        BY <2>2, <2>3, <2>4
<1>9. CASE Prepare
    <2>1. task.at = "prepare"
        BY <1>9 DEF Prepare, At
    <2>2. CASE Reject
        BY <2>1, <2>2, <1>7
    <2>3. CASE /\ task' = [task EXCEPT !.at = "broadcast", !.ready = TRUE]
               /\ UNCHANGED <<network, cacheVars, views, cur, lastTx, outcome>>
        <3>1. UNCHANGED <<accepted, tracker, utxos, spec, spent, known, behind, views, cur, lastTx, outcome>>
            BY <2>3 DEF network, cacheVars
        <3>2. /\ task'.at = "broadcast" /\ task'.ins = task.ins
              /\ task'.by = task.by /\ DOMAIN task' = DOMAIN NoJob
              /\ task'.change = task.change
            BY <2>3 DEF OfferInv, NoJob
        <3>3. OfferInv'
            BY <2>1, <3>1, <3>2, SameCoins DEF OfferInv, Resolved
        <3> QED
            BY <2>1, <3>1, <3>2, <3>3, StoreKept, GoesOn DEF UnresolvedSo
    <2> QED
        BY <1>9, <2>2, <2>3 DEF Prepare
<1>10. CASE Broadcast
    <2>1. /\ UNCHANGED <<tracker, utxos, spec, spent, known, behind, views>>
          /\ task.at = "broadcast" /\ "submit" \notin DOMAIN views'
        BY <1>10 DEF Broadcast, At, cacheVars, OfferInv
    <2>2. /\ FirstTx.id[1] = cur /\ FirstTx.ins = task.ins /\ FirstTx.by = task.by
          /\ FirstTx.outs = task.change \cup (IF task.kind = "inline" THEN {} ELSE {Coin(cur, "fund")})
          /\ \A c \in task.change : c = Coin(cur, "change")
          /\ DOMAIN task = DOMAIN NoJob
          /\ task.by = "session" => task.ins \cap ResolvedIns = {}
        BY <2>1 DEF FirstTx, OfferInv
    <2>3. /\ lastTx' = {FirstTx} /\ accepted' \in {accepted, accepted \cup {FirstTx}}
          /\ \/ Finish("rejected")
             \/ /\ UNCHANGED <<cur, outcome>> /\ accepted' = accepted \cup {FirstTx}
                /\ task' = [task EXCEPT !.at = AfterFirst]
        BY <1>10 DEF Broadcast, BroadcastAccepted, BroadcastRefused
    <2>4. UnresolvedSo
        BY <2>3 DEF UnresolvedSo
    <2> HIDE DEF FirstTx
    <2>5. \A c \in FirstTx.outs : c[1] = cur
        BY <2>2 DEF Coin
    <2>6. StoreInv'
        <3>1. CASE accepted' = accepted
            BY <2>1, <2>4, <3>1, StoreKept
        <3>2. CASE accepted' = accepted \cup {FirstTx}
            BY <2>1, <2>2, <2>4, <2>5, <3>2, StoreAccepts
        <3> QED
            BY <2>3, <3>1, <3>2
    <2>7. PastInv'
        BY <2>2, <2>3, <2>4, Sends
    <2>8. CASE Finish("rejected")
        <3>1. TxInv'
            BY <2>1, <2>2, <2>3, <2>5, <2>8, TxSent
        <3>2. OfferInv' /\ SentInv'
            BY <2>1, <2>8 DEF Finish, NoJob, OfferInv, SentInv
        <3> QED
            BY <2>6, <2>7, <3>1, <3>2
    <2>9. CASE /\ UNCHANGED <<cur, outcome>> /\ accepted' = accepted \cup {FirstTx}
               /\ task' = [task EXCEPT !.at = AfterFirst]
        <3>1. /\ task'.at = AfterFirst /\ task'.ins = task.ins /\ task'.change = task.change
              /\ task'.kind = task.kind /\ DOMAIN task' = DOMAIN NoJob
            BY <2>2, <2>9 DEF NoJob
        <3>2. task'.at \in {"reveal", "wait"}
            BY <3>1 DEF AfterFirst
        <3>3. TxInv'
            BY <2>1, <2>2, <2>3, <2>5, <2>9, <3>2, TxSent
        <3>4. OfferInv'
            BY <2>1, <2>2, <3>1, <3>2 DEF OfferInv
        <3>5. \A t \in accepted' : t.id[1] = cur => t = FirstTx
            BY <2>1, <2>9 DEF TxInv
        <3>6. Spent' = Spent \cup FirstTx.ins
            BY <2>9 DEF Spent
        <3>7. SentInv'
            BY <2>2, <2>9, <3>1, <3>5, <3>6 DEF SentInv, AfterFirst
        <3> QED
            BY <2>6, <2>7, <3>3, <3>4, <3>7
    <2> QED
        BY <2>3, <2>8, <2>9
<1>11. CASE BroadcastReveal
    <2>1. /\ UNCHANGED <<tracker, utxos, spec, spent, known, behind, views>> /\ task.at = "reveal"
          /\ DOMAIN task = DOMAIN NoJob /\ task.kind # "inline" /\ "submit" \notin DOMAIN views'
        BY <1>11 DEF BroadcastReveal, At, cacheVars, OfferInv, SentInv
    <2>2. /\ RevealTx.id[1] = cur /\ RevealTx.ins = {Coin(cur, "fund")}
          /\ RevealTx.outs = {Coin(cur, "rest")} /\ RevealTx.by # "session"
          /\ \A c \in RevealTx.outs : c[1] = cur
        BY DEF RevealTx, Coin
    <2>3. /\ lastTx' = {RevealTx} /\ accepted' \in {accepted, accepted \cup {RevealTx}}
          /\ \/ Finish("rejected")
             \/ /\ UNCHANGED <<cur, outcome>> /\ accepted' = accepted \cup {RevealTx}
                /\ task' = [task EXCEPT !.at = "wait"]
        BY <1>11 DEF BroadcastReveal, BroadcastAccepted, BroadcastRefused
    <2>4. UnresolvedSo
        BY <2>3 DEF UnresolvedSo
    <2> HIDE DEF RevealTx
    <2>5. StoreInv'
        <3>1. CASE accepted' = accepted
            BY <2>1, <2>4, <3>1, StoreKept
        <3>2. CASE accepted' = accepted \cup {RevealTx}
            BY <2>1, <2>2, <2>4, <3>2, StoreAccepts
        <3> QED
            BY <2>3, <3>1, <3>2
    <2>6. PastInv'
        BY <2>2, <2>3, <2>4, Sends
    <2>7. CASE Finish("rejected")
        <3>1. TxInv'
            BY <2>1, <2>2, <2>3, <2>7, TxSent
        <3>2. OfferInv' /\ SentInv'
            BY <2>1, <2>7 DEF Finish, NoJob, OfferInv, SentInv
        <3> QED
            BY <2>5, <2>6, <3>1, <3>2
    <2>8. CASE /\ UNCHANGED <<cur, outcome>> /\ accepted' = accepted \cup {RevealTx}
               /\ task' = [task EXCEPT !.at = "wait"]
        <3>1. /\ task'.at = "wait" /\ task'.ins = task.ins /\ task'.change = task.change
              /\ task'.kind = task.kind /\ DOMAIN task' = DOMAIN NoJob
            BY <2>1, <2>8 DEF NoJob
        <3>2. TxInv'
            BY <2>1, <2>2, <2>3, <2>8, <3>1, TxSent
        <3>3. OfferInv'
            BY <2>1, <3>1 DEF OfferInv
        <3>4. Spent' = Spent \cup RevealTx.ins
            BY <2>8 DEF Spent
        <3>5. SentInv'
            BY <2>1, <2>2, <2>8, <3>1, <3>4 DEF SentInv
        <3> QED
            BY <2>5, <2>6, <3>2, <3>3, <3>5
    <2> QED
        BY <2>3, <2>7, <2>8
<1>12. CASE WaitFails
    BY <1>7, <1>12 DEF WaitFails, At
<1>13. CASE Track
    <2>1. /\ task.at = "wait" /\ UNCHANGED <<accepted, lastTx, views>>
          /\ cur \in Nat \ {0} /\ cur' = cur + 1 /\ DOMAIN outcome' = 1..cur /\ task' = NoJob
          /\ \A k \in DOMAIN outcome : outcome'[k] = outcome[k]
        BY <1>13 DEF Track, Resolve, At, network, Finish, TxInv
    <2>2. StoreInv'
        BY <1>13, StoreTracks
    <2>3. TxInv'
        BY <2>1 DEF TxInv, NoJob
    <2>4. OfferInv' /\ SentInv'
        BY <2>1 DEF OfferInv, SentInv, NoJob
    <2>5. \A k : Resolved(k)' => Resolved(k) \/ k = cur
        BY <2>1 DEF Resolved, TxInv
    <2>6. PastInv'
        BY <2>1, <2>5 DEF PastInv, TxInv
    <2> QED
        BY <2>2, <2>3, <2>4, <2>6
<1>14. CASE UNCHANGED walletVars
    <2>1. UNCHANGED <<accepted, tracker, utxos, spec, spent, known, behind, views, cur, task, lastTx, outcome>>
        BY <1>14 DEF walletVars
    <2>2. OfferInv'
        BY <2>1, SameCoins DEF OfferInv, Resolved
    <2> QED
        BY <2>1, <2>2, StoreKept, Rests DEF UnresolvedSo
<1> QED
    BY <1>1, <1>2, <1>3, <1>4, <1>5, <1>6, <1>8, <1>9, <1>10, <1>11, <1>12, <1>13, <1>14
       DEF WalletNext, Step

LEMMA WalletInitial ==
    ASSUME WalletInit PROVE WalletInv
<1>1. /\ accepted = {} /\ lastTx = {} /\ cur = 1 /\ outcome = <<>> /\ DOMAIN outcome = {}
      /\ task = NoJob /\ spec = {} /\ spent = {} /\ DOMAIN views = {}
    BY DEF WalletInit
<1>2. \A k : ~Resolved(k)
    BY <1>1 DEF Resolved
<1>3. CoinsOf(tracker) \subseteq Initial
    BY DEF WalletInit, CoinsOf
<1>4. Initial \subseteq Minted /\ ResolvedIns = {}
    BY <1>1 DEF Minted, ResolvedIns
<1>5. TxInv /\ OfferInv /\ SentInv /\ PastInv
    BY <1>1 DEF TxInv, OfferInv, SentInv, PastInv, NoJob
<1>6. StoreInv
    BY <1>1, <1>2, <1>3, <1>4 DEF StoreInv, SpentInv, ViewInv, CacheInv
<1> QED
    BY <1>5, <1>6 DEF WalletInv

\* No transaction whose coins the session offered spends what a submit that
\* resolved has spent: buildEncoderOptions offers what the cache does not know to
\* be spent, and neither a refresh that fails or comes late, nor a transaction
\* without change, nor coins a caller brought in between make it forget.
THEOREM SpentStaysSpent == WalletSpec => []ResolvedNeverRespent
<1>1. WalletInit => WalletInv
    BY WalletInitial
<1>2. WalletInv /\ [WalletNext]_walletVars => WalletInv'
    BY WalletStep
<1>3. WalletInv => ResolvedNeverRespent
    <2> SUFFICES ASSUME WalletInv, NEW s \in lastTx, NEW t \in accepted, s.by = "session",
                        t.id[1] < s.id[1], outcome[t.id[1]] = "resolved"
                 PROVE  s.ins \cap t.ins = {}
        BY DEF ResolvedNeverRespent
    <2>1. t.id[1] \in 1..cur /\ s.id[1] \in 1..cur /\ cur \in Nat /\ DOMAIN outcome = 1..(cur - 1)
        BY DEF WalletInv, TxInv
    <2>2. t.id[1] \in DOMAIN outcome
        BY <2>1
    <2> QED
        BY <2>2 DEF WalletInv, PastInv, Resolved
<1> QED
    BY <1>1, <1>2, <1>3, PTL DEF WalletSpec

\* The unspent change of a submit that resolved is on offer to the next ones
\* however refreshes overlap, unless the view in the cache came late:
\* submitAndTrack registers it, and UTXOCache.refresh keeps it until a view has
\* it, which then every view asked for later has too.
THEOREM ChangeIsKept == WalletSpec => []ChangeStaysAvailable
<1>1. WalletInit => WalletInv
    BY WalletInitial
<1>2. WalletInv /\ [WalletNext]_walletVars => WalletInv'
    BY WalletStep
<1>3. WalletInv => ChangeStaysAvailable
    <2> SUFFICES ASSUME WalletInv, ~behind, NEW c \in Unspent, Resolved(c[1])
                 PROVE  c \in CoinsOf(Available(utxos, spec, spent))
        BY DEF ChangeStaysAvailable, Resolved
    <2>1. c \in CoinsOf(utxos) \cup CoinsOf(spec) /\ c \notin spent
        BY DEF WalletInv, StoreInv, CacheInv, Seen, SpentInv, Unspent
    <2>2. PICK e \in utxos \cup spec : e.coin = c
        BY <2>1 DEF CoinsOf
    <2> QED
        BY <2>1, <2>2 DEF Available, CoinsOf
<1> QED
    BY <1>1, <1>2, <1>3, PTL DEF WalletSpec
===============================================================================
