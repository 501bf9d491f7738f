--------------------------- MODULE CoSignerProofs ---------------------------
(***************************************************************************)
(* Proofs about CoSigner for any set of requests, policies and envelopes,  *)
(* any window length and any number of restarts and failing writes.        *)
(* Whatever the shape of a PSBT, nothing is released unjudged and what     *)
(* leaves the account is bounded.  If the host clock is never stepped      *)
(* forward, the ledger remembers every charge of the window, the daemon    *)
(* implements SpendingWindow, and a charged commit's reveal is signed.     *)
(***************************************************************************)
EXTENDS CoSigner, BudgetLemmas, FunctionTheorems

Backwards == \A d \in ClockSteps : d <= 0

\* Two charges never share an identity: each has a row of its own.
ChargesDistinct == \A c, d \in charges : c.id = d.id => c = d

Inv == TypeOK /\ ChargesDistinct /\ ChargesRemembered /\ CountCap

-----------------------------------------------------------------------------
\* One more element makes a set larger by at most one.
LEMMA OneMore ==
    ASSUME NEW S, NEW x, IsFiniteSet(S)
    PROVE  IsFiniteSet(S \cup {x}) /\ Cardinality(S \cup {x}) <= Cardinality(S) + 1
<1>1. Cardinality(S) \in Nat
    BY FS_CardinalityType
<1> QED
    BY <1>1, FS_AddElement

\* pruned() drops no row that a charge of the window still needs.
LEMMA PruneRemembers ==
    ASSUME TypeOK, NEW E, E \subseteq cache, Remembers(E)
    PROVE  Remembers(Live(E))
<1> SUFFICES ASSUME NEW c \in charges, real - c.at <= Hours
             PROVE  \E e \in Live(E) : /\ e.id = c.id /\ e.tick = c.tick /\ e.amount = c.amount
                                       /\ clock - e.t <= real - c.at
    BY DEF Remembers
<1>1. PICK e \in E : /\ e.id = c.id /\ e.tick = c.tick /\ e.amount = c.amount
                     /\ clock - e.t <= real - c.at
    BY DEF Remembers
<1>2. e.t >= clock - Hours
    BY <1>1, HoursAssumption DEF TypeOK
<1> QED
    BY <1>1, <1>2 DEF Live

\* A window of charges is never larger than the ledger's own.
LEMMA WindowFits ==
    ASSUME TypeOK, ChargesDistinct, Remembers(cache)
    PROVE  /\ IsFiniteSet(Budget!Window(charges, real))
           /\ IsFiniteSet(Live(cache))
           /\ Cardinality(Budget!Window(charges, real)) <= Cardinality(Live(cache))
           /\ Cardinality(Budget!Window(charges, real)) \in Nat
           /\ Cardinality(Live(cache)) \in Nat
<1> DEFINE W == Budget!Window(charges, real)
           L == Live(cache)
           f == [c \in W |-> CHOOSE e \in L : e.id = c.id]
<1>1. IsFiniteSet(W)
    BY FS_Subset DEF Budget!Window, TypeOK
<1>2. IsFiniteSet(L)
    BY FS_Subset DEF Live, TypeOK
<1>3. Remembers(L)
    BY PruneRemembers
<1>4. \A c \in W : \E e \in L : e.id = c.id
    <2> SUFFICES ASSUME NEW c \in W PROVE \E e \in L : e.id = c.id
        OBVIOUS
    <2>1. c \in charges /\ real - c.at <= Hours
        BY HoursAssumption DEF Budget!Window, TypeOK
    <2> QED BY <2>1, <1>3 DEF Remembers
<1>5. \A c \in W : f[c] \in L /\ f[c].id = c.id
    BY <1>4
<1>6. W \subseteq charges
    BY DEF Budget!Window
<1>7. f \in Injection(W, L)
    <2>1. f \in [W -> L]
        BY <1>5
    <2>2. \A c, d \in W : f[c] = f[d] => c = d
        BY <1>5, <1>6 DEF ChargesDistinct
    <2> QED BY <2>1, <2>2 DEF Injection, IsInjective
<1>8. Cardinality(W) <= Cardinality(L)
    BY <1>2, <1>7, FS_Injection
<1> QED
    BY <1>1, <1>2, <1>8, FS_CardinalityType

-----------------------------------------------------------------------------
\* A step that changes no charge and neither clock, and leaves in memory and on
\* disk rows of the old identities that remember the charges, keeps Inv.
LEMMA QuietStep ==
    ASSUME Inv, UNCHANGED <<policy, real, clock, charges>>,
           rows' \in 0..MaxRecords, rows <= rows',
           IsFiniteSet(cache'), IsFiniteSet(file'),
           \A e \in cache' \cup file' : /\ DOMAIN e = {"id", "t", "tick", "amount", "txid"}
                                        /\ e.id \in 1..rows' /\ e.t \in Int,
           Remembers(cache'), Remembers(file')
    PROVE  Inv'
<1>1. TypeOK'
    BY BoundsAssumption DEF Inv, TypeOK
<1>2. ChargesDistinct'
    BY DEF Inv, ChargesDistinct
<1>3. ChargesRemembered'
    BY DEF ChargesRemembered, Remembers
<1>4. CountCap'
    BY DEF Inv, CountCap, Budget!Window
<1> QED
    BY <1>1, <1>2, <1>3, <1>4 DEF Inv

LEMMA LiveFinite ==
    ASSUME TypeOK
    PROVE  Live(cache) \subseteq cache /\ IsFiniteSet(Live(cache))
BY FS_Subset DEF Live, TypeOK

\* A row taken over from the ledger by the clamp is no older than its charge.
LEMMA ClampRemembers ==
    ASSUME TypeOK, Remembers(file)
    PROVE  Remembers(Clamp(file))
<1> SUFFICES ASSUME NEW c \in charges, real - c.at <= Hours
             PROVE  \E e \in Clamp(file) :
                        /\ e.id = c.id /\ e.tick = c.tick /\ e.amount = c.amount
                        /\ clock - e.t <= real - c.at
    BY DEF Remembers
<1>1. PICK e \in file : /\ e.id = c.id /\ e.tick = c.tick /\ e.amount = c.amount
                        /\ clock - e.t <= real - c.at
    BY DEF Remembers
<1> DEFINE g == IF e.t > clock + Skew THEN [e EXCEPT !.t = clock] ELSE e
<1>2. g \in Clamp(file)
    BY <1>1 DEF Clamp
<1>3. g.id = e.id /\ g.tick = e.tick /\ g.amount = e.amount
    BY <1>1 DEF TypeOK
<1>4. clock - g.t <= real - c.at
    <2>1. CASE e.t > clock + Skew
        <3>1. g.t = clock
            BY <1>1, <2>1 DEF TypeOK
        <3> QED BY <3>1 DEF TypeOK
    <2>2. CASE ~(e.t > clock + Skew)
        BY <1>1, <2>2
    <2> QED BY <2>1, <2>2
<1> QED
    BY <1>1, <1>2, <1>3, <1>4

LEMMA ClampTyped ==
    ASSUME TypeOK
    PROVE  /\ IsFiniteSet(Clamp(file))
           /\ \A e \in Clamp(file) : /\ DOMAIN e = {"id", "t", "tick", "amount", "txid"}
                                     /\ e.id \in 1..rows /\ e.t \in Int
<1>1. \A e \in file : LET g == IF e.t > clock + Skew THEN [e EXCEPT !.t = clock] ELSE e
                      IN  /\ DOMAIN g = {"id", "t", "tick", "amount", "txid"}
                          /\ g.id \in 1..rows /\ g.t \in Int
    BY DEF TypeOK
<1>2. IsFiniteSet(Clamp(file))
    <2> DEFINE G(e) == IF e.t > clock + Skew THEN [e EXCEPT !.t = clock] ELSE e
               h == [e \in file |-> G(e)]
    <2>1. h \in Surjection(file, Clamp(file))
        BY DEF Clamp, Surjection
    <2>2. IsFiniteSet(file)
        BY DEF TypeOK
    <2> QED BY <2>1, <2>2, FS_Surjection
<1> QED
    BY <1>1, <1>2 DEF Clamp

-----------------------------------------------------------------------------
LEMMA RequestDenied ==
    ASSUME Inv, NEW r \in Requests, Deny(r) \/ ApproveUncharged(r)
    PROVE  Inv'
<1>1. cache' \subseteq cache /\ IsFiniteSet(cache') /\ Remembers(cache')
    BY LiveFinite, PruneRemembers DEF Deny, ApproveUncharged, Inv, TypeOK, ChargesRemembered
<1>2. file' = file /\ rows' = rows /\ UNCHANGED <<policy, real, clock, charges>>
    BY DEF Deny, ApproveUncharged
<1> QED
    BY <1>1, <1>2, QuietStep DEF Inv, TypeOK, ChargesRemembered

LEMMA EntryTyped ==
    ASSUME TypeOK, NEW r
    PROVE  /\ DOMAIN Entry(r) = {"id", "t", "tick", "amount", "txid"}
           /\ Entry(r).id = rows + 1 /\ Entry(r).t = clock
           /\ rows + 1 \in 1..(rows + 1) /\ clock \in Int
BY DEF Entry, TypeOK

LEMMA RecordFailed ==
    ASSUME Inv, NEW r \in Requests, RecordFails(r)
    PROVE  Inv'
<1>1. /\ UNCHANGED <<policy, real, clock, charges>> /\ file' = file
      /\ rows' = rows + 1 /\ rows' \in 0..MaxRecords /\ rows \in Nat
      /\ Live(cache) \subseteq cache' /\ cache' \subseteq Live(cache) \cup {Entry(r)}
    BY BoundsAssumption DEF RecordFails, Inv, TypeOK
<1>2. Live(cache) \subseteq cache /\ IsFiniteSet(Live(cache) \cup {Entry(r)})
    BY LiveFinite, FS_AddElement DEF Inv
<1>3. IsFiniteSet(cache')
    BY <1>1, <1>2, FS_Subset
<1>4. Remembers(cache')
    BY <1>1, PruneRemembers DEF Inv, ChargesRemembered, Remembers
<1>5. \A e \in cache' \cup file' : /\ DOMAIN e = {"id", "t", "tick", "amount", "txid"}
                                   /\ e.id \in 1..rows' /\ e.t \in Int
    <2>1. \A e \in cache \cup file : /\ DOMAIN e = {"id", "t", "tick", "amount", "txid"}
                                     /\ e.id \in 1..rows' /\ e.t \in Int
        BY <1>1 DEF Inv, TypeOK
    <2>2. /\ DOMAIN Entry(r) = {"id", "t", "tick", "amount", "txid"}
          /\ Entry(r).id \in 1..rows' /\ Entry(r).t \in Int
        BY <1>1, EntryTyped DEF Inv
    <2> QED BY <1>1, <1>2, <2>1, <2>2
<1> QED
    BY <1>1, <1>2, <1>3, <1>4, <1>5, QuietStep DEF Inv, TypeOK, ChargesRemembered

\* An approved request is charged within the count limit: the policy was
\* evaluated on the whole window, and the new row reaches the disk.
LEMMA RequestCharged ==
    ASSUME Inv, NEW r \in Requests, ApproveCharged(r)
    PROVE  Inv'
<1> DEFINE e == Entry(r)
           new == [id |-> rows + 1, at |-> real, tick |-> e.tick, amount |-> e.amount,
                   txid |-> r.txid]
<1>1. /\ UNCHANGED <<policy, real, clock>>
      /\ rows' = rows + 1 /\ rows' \in 0..MaxRecords /\ rows \in Nat
      /\ cache' = Live(cache) \cup {e} /\ file' = cache'
      /\ charges' = charges \cup {new}
    BY BoundsAssumption DEF ApproveCharged, Inv, TypeOK
<1>2. Live(cache) \subseteq cache /\ IsFiniteSet(cache') /\ IsFiniteSet(charges')
    BY <1>1, LiveFinite, FS_AddElement DEF Inv, TypeOK
<1>3. TypeOK'
    <2>1. \A x \in cache' : /\ DOMAIN x = {"id", "t", "tick", "amount", "txid"}
                            /\ x.id \in 1..rows' /\ x.t \in Int
        <3>1. \A x \in cache : /\ DOMAIN x = {"id", "t", "tick", "amount", "txid"}
                               /\ x.id \in 1..rows' /\ x.t \in Int
            BY <1>1 DEF Inv, TypeOK
        <3>2. /\ DOMAIN e = {"id", "t", "tick", "amount", "txid"}
              /\ e.id \in 1..rows' /\ e.t \in Int
            BY <1>1, EntryTyped DEF Inv
        <3> QED BY <1>1, <1>2, <3>1, <3>2
    <2>2. \A c \in charges' : c.id \in 1..rows' /\ c.at \in 0..real'
        BY <1>1 DEF Inv, TypeOK
    <2> QED BY <1>1, <1>2, <2>1, <2>2 DEF Inv, TypeOK
<1>4. ChargesDistinct'
    <2>1. \A c \in charges : c.id <= rows /\ c.id \in Nat
        BY DEF Inv, TypeOK
    <2> QED BY <1>1, <2>1 DEF Inv, ChargesDistinct
<1>5. Remembers(cache)' /\ Remembers(file)'
    <2>1. Remembers(Live(cache))
        BY PruneRemembers DEF Inv, ChargesRemembered
    <2>2. /\ e.id = new.id /\ e.tick = new.tick /\ e.amount = new.amount
          /\ clock - e.t <= real - new.at
        <3>1. e.id = rows + 1 /\ e.t = clock
            BY EntryTyped DEF Inv
        <3>2. clock - e.t = 0 /\ real - new.at = 0
            BY <3>1 DEF Inv, TypeOK
        <3> QED BY <3>1, <3>2
    <2>3. ASSUME NEW c \in charges', real' - c.at <= Hours
          PROVE  \E x \in cache' : /\ x.id = c.id /\ x.tick = c.tick /\ x.amount = c.amount
                                   /\ clock' - x.t <= real' - c.at
        <3>1. CASE c = new
            BY <1>1, <2>2, <3>1
        <3>2. CASE c \in charges
            BY <1>1, <2>1, <2>3, <3>2 DEF Remembers
        <3> QED BY <1>1, <3>1, <3>2
    <2> QED BY <1>1, <2>3 DEF Remembers
<1>6. CountCap'
    <2> SUFFICES ASSUME policy.maxActions # Unset
                 PROVE  Cardinality(Budget!Window(charges', real)) <= policy.maxActions
        BY <1>1 DEF CountCap
    <2>1. Snapshot(r) = Live(cache)
        BY DEF ApproveCharged, Charged, Snapshot
    <2>2. Cardinality(Live(cache)) + 1 <= policy.maxActions
        <3>1. Permits(policy, Decoded(r), Snapshot(r))
            BY DEF ApproveCharged, Charged, Approved, PolicyAllows
        <3>2. ~(Cardinality(Live(cache)) + 1 > policy.maxActions)
            BY <2>1, <3>1 DEF Permits, FailsWindow
        <3>3. policy.maxActions \in Nat /\ Cardinality(Live(cache)) \in Nat
            BY PolicyAssumption, WindowFits DEF Inv, TypeOK, ChargesRemembered
        <3> QED BY <3>2, <3>3
    <2>3. Budget!Window(charges', real) \subseteq Budget!Window(charges, real) \cup {new}
        BY <1>1 DEF Budget!Window
    <2>4. /\ IsFiniteSet(Budget!Window(charges, real))
          /\ Cardinality(Budget!Window(charges, real)) <= Cardinality(Live(cache))
          /\ Cardinality(Budget!Window(charges, real)) \in Nat
          /\ Cardinality(Live(cache)) \in Nat
        BY WindowFits DEF Inv, ChargesRemembered
    <2>5. /\ IsFiniteSet(Budget!Window(charges, real) \cup {new})
          /\ Cardinality(Budget!Window(charges, real) \cup {new})
                <= Cardinality(Budget!Window(charges, real)) + 1
        BY <2>4, OneMore
    <2>6. /\ Cardinality(Budget!Window(charges', real))
                <= Cardinality(Budget!Window(charges, real) \cup {new})
          /\ Cardinality(Budget!Window(charges', real)) \in Nat
          /\ Cardinality(Budget!Window(charges, real) \cup {new}) \in Nat
        BY <2>3, <2>5, FS_Subset, FS_CardinalityType
    <2>7. policy.maxActions \in Nat
        BY PolicyAssumption DEF Inv, TypeOK
    <2> QED BY <2>2, <2>4, <2>5, <2>6, <2>7
<1> QED
    BY <1>3, <1>4, <1>5, <1>6 DEF Inv, ChargesRemembered

LEMMA Restarted ==
    ASSUME Inv, Restart
    PROVE  Inv'
<1>1. cache' = Clamp(file) /\ UNCHANGED <<policy, real, clock, file, rows, charges>>
    BY DEF Restart
<1>2. Remembers(cache') /\ Remembers(file')
    BY <1>1, ClampRemembers DEF Inv, ChargesRemembered
<1>3. /\ IsFiniteSet(cache')
      /\ \A e \in cache' : /\ DOMAIN e = {"id", "t", "tick", "amount", "txid"}
                           /\ e.id \in 1..rows /\ e.t \in Int
    BY <1>1, ClampTyped DEF Inv
<1> QED
    BY <1>1, <1>2, <1>3, QuietStep DEF Inv, TypeOK

\* A row dated x by clocks k then l ages no more than a charge made at y.
LEMMA Ages ==
    ASSUME NEW k \in Int, NEW l \in Int, NEW x \in Int, NEW r \in Int, NEW s \in Int,
           NEW y \in Int, l - k <= s - r, k - x <= r - y
    PROVE  l - x <= s - y
OBVIOUS

\* Time passes for the ledger no faster than for the charges.
LEMMA TimePasses ==
    ASSUME Inv, Backwards, Tick \/ \E d \in ClockSteps : StepClock(d)
    PROVE  Inv'
<1>1. /\ UNCHANGED <<policy, cache, file, rows, charges>>
      /\ real' \in 0..MaxTime /\ real <= real' /\ clock' \in Int
      /\ clock' - clock <= real' - real
    BY StepAssumption, BoundsAssumption
    DEF Backwards, Tick, StepClock, storeVars, Inv, TypeOK
<1>2. TypeOK'
    BY <1>1 DEF Inv, TypeOK
<1>3. ChargesDistinct'
    BY <1>1 DEF Inv, ChargesDistinct
<1>4. ASSUME NEW E, E \in {cache, file}, Remembers(E),
             NEW c \in charges, real' - c.at <= Hours
      PROVE  \E e \in E : /\ e.id = c.id /\ e.tick = c.tick /\ e.amount = c.amount
                          /\ clock' - e.t <= real' - c.at
    <2>1. real - c.at <= Hours
        BY <1>1, <1>4, HoursAssumption DEF Inv, TypeOK
    <2>2. PICK e \in E : /\ e.id = c.id /\ e.tick = c.tick /\ e.amount = c.amount
                         /\ clock - e.t <= real - c.at
        BY <1>4, <2>1 DEF Remembers
    <2>3. clock' - e.t <= real' - c.at
        <3> DEFINE x == e.t
                   y == c.at
        <3>1. x \in Int /\ y \in Int /\ clock \in Int /\ real \in Int /\ real' \in Int
            BY <1>1, <1>4 DEF Inv, TypeOK
        <3>2. clock - x <= real - y
            BY <2>2
        <3> HIDE DEF x, y
        <3>3. clock' - x <= real' - y
            BY <1>1, <3>1, <3>2, Ages
        <3> QED BY <3>3 DEF x, y
    <2> QED BY <2>2, <2>3
<1>5. ChargesRemembered'
    <2>1. Remembers(cache)'
        BY <1>1, <1>4 DEF Inv, ChargesRemembered, Remembers
    <2>2. Remembers(file)'
        BY <1>1, <1>4 DEF Inv, ChargesRemembered, Remembers
    <2> QED BY <2>1, <2>2 DEF ChargesRemembered
<1>6. CountCap'
    <2>1. Budget!Window(charges', real') \subseteq Budget!Window(charges, real)
        BY <1>1, HoursAssumption DEF Budget!Window, Inv, TypeOK
    <2>2. IsFiniteSet(Budget!Window(charges, real))
        BY WindowFits DEF Inv, ChargesRemembered
    <2>3. /\ Cardinality(Budget!Window(charges', real'))
                <= Cardinality(Budget!Window(charges, real))
          /\ Cardinality(Budget!Window(charges', real')) \in Nat
          /\ Cardinality(Budget!Window(charges, real)) \in Nat
        BY <2>1, <2>2, FS_Subset, FS_CardinalityType
    <2>4. policy.maxActions \in Nat \cup {Unset}
        BY PolicyAssumption DEF Inv, TypeOK
    <2> QED BY <1>1, <2>3, <2>4 DEF Inv, CountCap
<1> QED
    BY <1>2, <1>3, <1>5, <1>6 DEF Inv

LEMMA InitInv == Init => Inv
<1> SUFFICES ASSUME Init PROVE Inv
    OBVIOUS
<1>1. TypeOK /\ ChargesDistinct /\ ChargesRemembered
    BY HoursAssumption, BoundsAssumption, FS_EmptySet
    DEF Init, TypeOK, ChargesDistinct, ChargesRemembered, Remembers
<1>2. CountCap
    <2>1. Budget!Window(charges, real) = {}
        BY DEF Init, Budget!Window
    <2>2. policy.maxActions # Unset => 0 <= policy.maxActions
        BY PolicyAssumption DEF Init
    <2> QED BY <2>1, <2>2, FS_EmptySet DEF CountCap
<1> QED BY <1>1, <1>2 DEF Inv

LEMMA InvStep == ASSUME Inv, Backwards, [Next]_vars PROVE Inv'
<1>1. CASE \E r \in Requests : Process(r)
    BY <1>1, RequestDenied, RequestCharged, RecordFailed DEF Process
<1>2. CASE Restart
    BY <1>2, Restarted
<1>3. CASE Tick \/ \E d \in ClockSteps : StepClock(d)
    BY <1>3, TimePasses
<1>4. CASE UNCHANGED vars
    BY <1>4 DEF vars, Inv, TypeOK, ChargesDistinct, ChargesRemembered, Remembers,
                CountCap, Budget!Window
<1> QED BY <1>1, <1>2, <1>3, <1>4 DEF Next

\* Along every run of a daemon whose clock is never stepped forward the ledger
\* invariant holds, whatever the requests, restarts and failing writes.
THEOREM LedgerInvariant ==
    ASSUME Backwards
    PROVE  Spec => []Inv
<1>1. Inv /\ [Next]_vars => Inv'
    BY InvStep
<1> QED
    BY InitInv, <1>1, PTL DEF Spec

\* No charge is forgotten early, in memory or on disk (ChargesRemembered).
THEOREM NoChargeForgotten ==
    ASSUME Backwards
    PROVE  Spec => []ChargesRemembered
<1>1. Inv => ChargesRemembered
    BY DEF Inv
<1> QED BY <1>1, LedgerInvariant, PTL

\* No window of real time holds more charges than maxActions (CountCap).
THEOREM CountIsCapped ==
    ASSUME Backwards
    PROVE  Spec => []CountCap
<1>1. Inv => CountCap
    BY DEF Inv
<1> QED BY <1>1, LedgerInvariant, PTL
-----------------------------------------------------------------------------
(* The refinement: the daemon implements SpendingWindow.  Beyond Inv it    *)
(* takes that every amount in the ledger is one, and that the window of    *)
(* real time is within the policy's limits.                                *)

Window == Budget!Window(charges, real)

Summed == /\ Summable(cache) /\ Summable(file) /\ Summable(charges)
          /\ InLimits(policy, Window)

BudgetInv == Inv /\ Summed

\* The limits as SpendingWindow states them.
LEMMA SameLimits ==
    ASSUME NEW S
    PROVE  InLimits(policy, S) => Budget!WithinLimits(S)
<1>1. ASSUME NEW token PROVE Budget!Spent(S, {token}) = Amounts(OfToken(S, token))
    <2> DEFINE T == {c \in S : /\ c.amount # Undefined
                               /\ c.tick # Undefined
                               /\ Fold[c.tick] \in {token}}
    <2>1. T = OfToken(S, token)
        BY DEF OfToken, Counted
    <2>2. Budget!Spent(S, {token}) = Amounts(T)
        BY AmountFold DEF Budget!Spent, Budget!MapThenSumSet, Budget!MapThenFoldSet, Amounts
    <2> QED BY <2>1, <2>2
<1>2. Budget!SpentUnresolved(S) = Amounts(Unresolved(S))
    <2> DEFINE T == {c \in S : c.amount # Undefined /\ c.tick = Undefined}
    <2>1. T = Unresolved(S)
        BY DEF Unresolved, Counted
    <2>2. Budget!SpentUnresolved(S) = Amounts(T)
        BY AmountFold DEF Budget!SpentUnresolved, Budget!MapThenSumSet, Budget!MapThenFoldSet, Amounts
    <2> QED BY <2>1, <2>2
<1>3. Budget!NamedTokens(policy.perTick) = {Fold[k] : k \in Named(policy.perTick)}
    BY DEF Budget!NamedTokens, Named
<1> SUFFICES ASSUME InLimits(policy, S) PROVE Budget!WithinLimits(S)
    OBVIOUS
<1>4. policy.maxActions = Unset \/ Budget!Cardinality(S) <= policy.maxActions
    <2>1. Budget!Cardinality(S) = Cardinality(S)
        BY DEF Budget!Cardinality, Cardinality
    <2> QED BY <2>1 DEF InLimits
<1>5. \A k \in DOMAIN policy.perTick \ {"*"} :
          Budget!Spent(S, {Fold[k]}) <= policy.perTick[k]
    BY <1>1 DEF InLimits, Named
<1>6. "*" \in DOMAIN policy.perTick =>
          /\ \A token \in {Fold[s] : s \in DOMAIN Fold} \ Budget!NamedTokens(policy.perTick) :
                Budget!Spent(S, {token}) <= policy.perTick["*"]
          /\ Budget!SpentUnresolved(S) <= policy.perTick["*"]
    BY <1>1, <1>2, <1>3 DEF InLimits
<1> QED BY <1>4, <1>5, <1>6 DEF Budget!WithinLimits
\* Every charge of the window has its own live row, of the same tick and amount.
LEMMA WindowMatched ==
    ASSUME TypeOK, ChargesDistinct, Remembers(cache)
    PROVE  \E m : Matches(m, Window, Live(cache))
<1> DEFINE Of(c, e) == e.id = c.id /\ e.tick = c.tick /\ e.amount = c.amount
           L == Live(cache)
           m == [c \in Window |-> CHOOSE e \in L : Of(c, e)]
<1>1. Remembers(L)
    BY PruneRemembers
<1>2. ASSUME NEW c \in Window PROVE \E e \in L : Of(c, e)
    <2>1. c \in charges /\ real - c.at <= Hours
        BY HoursAssumption DEF Window, Budget!Window, TypeOK
    <2> QED BY <2>1, <1>1 DEF Remembers
<1>3. \A c \in Window : m[c] \in L /\ Of(c, m[c])
    BY <1>2
<1>4. \A c, d \in Window : m[c] = m[d] => c = d
    BY <1>3 DEF ChargesDistinct, Window, Budget!Window
<1>5. m \in [Window -> L]
    BY <1>3
<1> HIDE DEF m
<1> QED BY <1>3, <1>4, <1>5 DEF Matches

LEMMA WindowSummed ==
    ASSUME BudgetInv
    PROVE  Summable(Window) /\ Summable(Live(cache)) /\ LimitsTyped(policy)
<1>1. Window \subseteq charges /\ Live(cache) \subseteq cache
    BY DEF Window, Budget!Window, Live
<1>2. LimitsTyped(policy)
    BY PolicyAssumption DEF BudgetInv, Inv, TypeOK, LimitsTyped
<1> QED BY <1>1, <1>2, SummableLess DEF BudgetInv, Summed

\* The row of an approved charge holds an amount, or none.
LEMMA EntryAmount ==
    ASSUME NEW r \in Requests, Approved(r), Charged(r)
    PROVE  /\ Permits(policy, Decoded(r), Live(cache))
           /\ Decoded(r).amount \in Int \cup {Undefined}
           /\ Entry(r).amount = Decoded(r).amount
           /\ Entry(r).tick = ResolveTick(policy, Decoded(r))
           /\ Entry(r).amount # Undefined => Entry(r).amount \in Nat
<1>1. Permits(policy, Decoded(r), Live(cache))
    BY DEF Approved, PolicyAllows, Charged, Snapshot
<1>2. Decoded(r).amount \in Int \cup {Undefined}
    BY AmountAssumption DEF Approved, Evaluated
<1>3. Entry(r).amount = Decoded(r).amount /\ Entry(r).tick = ResolveTick(policy, Decoded(r))
    BY DEF Entry
<1>4. ~FailsBasics(policy, Decoded(r))
    BY <1>1 DEF Permits
<1> QED BY <1>1, <1>2, <1>3, <1>4 DEF FailsBasics

LEMMA ClampSummable ==
    ASSUME TypeOK, Summable(file)
    PROVE  Summable(Clamp(file))
<1>1. ASSUME NEW e \in Clamp(file) PROVE \E f \in file : e.amount = f.amount
    <2>1. PICK f \in file : e = IF f.t > clock + Skew THEN [f EXCEPT !.t = clock] ELSE f
        BY DEF Clamp
    <2>2. "amount" \in DOMAIN f
        BY DEF TypeOK
    <2> QED BY <2>1, <2>2
<1>2. IsFiniteSet(Clamp(file))
    BY ClampTyped
<1> QED BY <1>1, <1>2 DEF Summable, Counted

\* A charge keeps the promise: the window it leaves is within the limits.
LEMMA ChargeKeepsBudget ==
    ASSUME BudgetInv, NEW r \in Requests, ApproveCharged(r)
    PROVE  /\ Summed'
           /\ Budget!Charge
<1> DEFINE n == [id |-> rows + 1, at |-> real, tick |-> Entry(r).tick,
                 amount |-> Entry(r).amount, txid |-> r.txid]
           V == Budget!Window(charges', real)
<1>1. /\ UNCHANGED <<policy, real>> /\ Approved(r) /\ Charged(r)
      /\ cache' = Live(cache) \cup {Entry(r)} /\ file' = cache' /\ charges' = charges \cup {n}
    BY DEF ApproveCharged
<1>2. /\ Permits(policy, Decoded(r), Live(cache))
      /\ Decoded(r).amount \in Int \cup {Undefined}
      /\ Entry(r).amount = Decoded(r).amount
      /\ Entry(r).tick = ResolveTick(policy, Decoded(r))
      /\ Entry(r).amount # Undefined => Entry(r).amount \in Nat
    BY <1>1, EntryAmount
<1>3. /\ n.tick = Entry(r).tick /\ n.amount = Entry(r).amount /\ n.at = real /\ n.id = rows + 1
    OBVIOUS
<1>4. n \notin charges
    BY <1>3 DEF BudgetInv, Inv, TypeOK
<1> HIDE DEF n
<1>5. Summable(Window) /\ Summable(Live(cache)) /\ LimitsTyped(policy)
    BY WindowSummed
<1>6. PICK m : Matches(m, Window, Live(cache))
    BY WindowMatched DEF BudgetInv, Inv, ChargesRemembered
<1>7. Fits(policy, Decoded(r), Window)
    BY <1>2, <1>5, <1>6, PermittedFits
<1>8. n \notin Window /\ InLimits(policy, Window)
    BY <1>4 DEF Window, Budget!Window, BudgetInv, Summed
<1>9. Summable(Window \cup {n}) /\ InLimits(policy, Window \cup {n})
    BY <1>2, <1>3, <1>5, <1>7, <1>8, FitsLimits
<1>10. V \subseteq Window \cup {n}
    BY <1>1 DEF Window, Budget!Window
<1>11. InLimits(policy, V)
    BY <1>5, <1>9, <1>10, LimitsLess
<1>12. Summable(cache') /\ Summable(charges')
    BY <1>1, <1>2, <1>3, <1>5, FS_AddElement DEF BudgetInv, Summed, Summable, Counted
<1>13. Summed'
    BY <1>1, <1>11, <1>12 DEF Summed, Window
<1>14. Budget!Charge
    <2>1. Budget!WithinLimits(V)
        BY <1>11, SameLimits
    <2> QED BY <1>1, <1>3, <1>4, <2>1 DEF Budget!Charge
<1> QED BY <1>13, <1>14

\* A step that charges nothing.
LEMMA OtherSteps ==
    ASSUME BudgetInv, Backwards,
           \/ \E r \in Requests : Deny(r) \/ ApproveUncharged(r) \/ RecordFails(r)
           \/ Restart \/ Tick \/ (\E d \in ClockSteps : StepClock(d)) \/ UNCHANGED vars
    PROVE  /\ Summed'
           /\ Budget!Tick \/ UNCHANGED <<policy, real, charges>>
<1>1. UNCHANGED <<policy, charges>> /\ (real' = real \/ real' = real + 1)
    BY DEF Deny, ApproveUncharged, RecordFails, Restart, Tick, StepClock, storeVars, vars
<1>2. Budget!Tick \/ UNCHANGED <<policy, real, charges>>
    BY <1>1 DEF Budget!Tick, BudgetInv, Inv, TypeOK
<1>3. InLimits(policy', Window')
    <2>1. Budget!Window(charges, real') \subseteq Window
        BY <1>1, HoursAssumption DEF Budget!Window, Window, BudgetInv, Inv, TypeOK
    <2>2. InLimits(policy, Budget!Window(charges, real'))
        BY <2>1, WindowSummed, LimitsLess DEF BudgetInv, Summed
    <2> QED BY <1>1, <2>2 DEF Window
<1>4. Summable(cache') /\ Summable(file')
    <2>1. CASE \E r \in Requests : Deny(r) \/ ApproveUncharged(r)
        <3>1. cache' \subseteq cache /\ file' = file
            BY <2>1 DEF Deny, ApproveUncharged, Live
        <3> QED BY <3>1, SummableLess DEF BudgetInv, Summed
    <2>2. ASSUME NEW r \in Requests, RecordFails(r) PROVE Summable(cache') /\ Summable(file')
        <3>1. /\ cache' \subseteq Live(cache) \cup {Entry(r)} /\ file' = file
              /\ Approved(r) /\ Charged(r)
            BY <2>2 DEF RecordFails
        <3>2. Summable(Live(cache) \cup {Entry(r)})
            <4>1. Entry(r).amount # Undefined => Entry(r).amount \in Nat
                BY <3>1, EntryAmount
            <4> QED BY <4>1, WindowSummed, FS_AddElement DEF Summable, Counted
        <3> QED BY <3>1, <3>2, SummableLess DEF BudgetInv, Summed
    <2>3. CASE Restart
        BY <2>3, ClampSummable DEF Restart, BudgetInv, Inv, Summed
    <2>4. CASE Tick \/ (\E d \in ClockSteps : StepClock(d)) \/ UNCHANGED vars
        BY <2>4 DEF Tick, StepClock, storeVars, vars, BudgetInv, Summed
    <2> QED BY <2>1, <2>2, <2>3, <2>4
<1> QED BY <1>1, <1>2, <1>3, <1>4 DEF Summed, BudgetInv

LEMMA BudgetInit == ASSUME Init PROVE Budget!Init /\ BudgetInv
<1>1. Inv
    BY InitInv
<1>2. Window = {} /\ cache = {} /\ file = {} /\ charges = {} /\ real = 0
    BY DEF Init, Window, Budget!Window
<1>3. LimitsTyped(policy)
    BY PolicyAssumption DEF Init, LimitsTyped
<1> QED BY <1>1, <1>2, <1>3, NoCharges DEF BudgetInv, Summed, Budget!Init

LEMMA BudgetStep ==
    ASSUME BudgetInv, Backwards, [Next]_vars
    PROVE  BudgetInv' /\ [Budget!Next]_<<policy, real, charges>>
<1>1. Inv'
    BY InvStep DEF BudgetInv
<1>2. CASE \E r \in Requests : ApproveCharged(r)
    BY <1>1, <1>2, ChargeKeepsBudget DEF BudgetInv, Budget!Next
<1>3. CASE \/ \E r \in Requests : Deny(r) \/ ApproveUncharged(r) \/ RecordFails(r)
           \/ Restart \/ Tick \/ (\E d \in ClockSteps : StepClock(d)) \/ UNCHANGED vars
    BY <1>1, <1>3, OtherSteps DEF BudgetInv, Budget!Next
<1> QED BY <1>2, <1>3 DEF Next, Process

\* The daemon keeps the promise of the spending window, for every policy,
\* request, spelling, restart, failing write and backward step of the clock
\* (ImplementsBudget).
THEOREM BudgetIsKept ==
    ASSUME Backwards
    PROVE  Spec => ImplementsBudget
<1>1. Init => Budget!Init /\ BudgetInv
    BY BudgetInit
<1>2. BudgetInv /\ [Next]_vars => BudgetInv' /\ [Budget!Next]_<<policy, real, charges>>
    BY BudgetStep
<1> QED BY <1>1, <1>2, PTL DEF Spec, ImplementsBudget, Budget!Spec
-----------------------------------------------------------------------------
(* What the signatures of one step release: nothing unjudged, no outflow   *)
(* beyond its bound.  Both follow from Approved alone, so any clock will do. *)

\* A step releases the signatures of an approved request, or none.
LEMMA Releases ==
    ASSUME [Next]_vars
    PROVE  /\ policy' = policy
           /\ \/ last' = last
              \/ last' = Idle
              \/ \E r \in Requests : Approved(r) /\ last' = [req |-> r, role |-> Role(r),
                                                             act |-> Decoded(r), approved |-> TRUE]
BY DEF Next, Process, Deny, ApproveUncharged, ApproveCharged, RecordFails, Release, Restart,
       Tick, StepClock, vars, storeVars

\* The scripts an output can have are told apart.
LEMMA ScriptsDiffer ==
    /\ \A e : CommitOf(e) # Account /\ CommitOf(e) # OpReturn /\ CommitOf(e) # Payee
    /\ Account # OpReturn /\ Account # Payee /\ OpReturn # Payee
    /\ \A e, f : CommitOf(e) = CommitOf(f) => e = f
<1>1. ASSUME NEW e PROVE CommitOf(e) # Account /\ CommitOf(e) # OpReturn /\ CommitOf(e) # Payee
    <2>1. Len(CommitOf(e)) = 2 /\ Len(Account) = 1 /\ Len(OpReturn) = 1 /\ Len(Payee) = 1
        BY DEF CommitOf, Account, OpReturn, Payee
    <2> QED BY <2>1
<1>2. Account # OpReturn /\ Account # Payee /\ OpReturn # Payee
    <2>1. Account[1] = "account" /\ OpReturn[1] = "opreturn" /\ Payee[1] = "payee"
        BY DEF Account, OpReturn, Payee
    <2> QED BY <2>1
<1>3. ASSUME NEW e, NEW f, CommitOf(e) = CommitOf(f) PROVE e = f
    <2>1. CommitOf(e)[2] = e /\ CommitOf(f)[2] = f
        BY DEF CommitOf
    <2> QED BY <1>3, <2>1
<1> QED BY <1>1, <1>2, <1>3

\* An approved request publishes the action it was judged by, or none.
LEMMA PublishesJudged ==
    ASSUME NEW r, Approved(r), Published(r) # Undefined
    PROVE  Published(r) = Decoded(r) /\ Permits(policy, Decoded(r), Snapshot(r))
<1>1. Role(r) # "invalid" /\ Decoded(r) # Undefined /\ InputsAreOurs(r) /\ OutputsAllowed(r)
      /\ (Role(r) = "cancel" \/ Permits(policy, Decoded(r), Snapshot(r)))
    BY DEF Approved, Evaluated, PolicyAllows, Signable
<1>2. r.ins[1] = ExpectedScript(r)
    BY <1>1 DEF InputsAreOurs
<1>3. OutsTo(r, OpReturn) = {} => InlineAction(r) = Undefined
    BY FS_EmptySet DEF InlineAction
<1>4. Role(r) # "plain" => OutsTo(r, OpReturn) = {}
    BY <1>1 DEF OutputsAllowed
<1>5. Role(r) \in {"plain", "commit", "cancel", "reveal"}
    BY <1>1 DEF Role
<1>6. CASE Role(r) = "plain"
    <2>1. r.ins[1] = Account
        BY <1>2, <1>6 DEF ExpectedScript
    <2>2. Published(r) = InlineAction(r)
        BY <2>1, ScriptsDiffer DEF Published
    <2>3. r.leaf0 # Undefined => OutsTo(r, OpReturn) = {}
        BY <1>1, <1>6 DEF Decoded, LeafAction
    <2>4. r.leaf0 = Undefined
        BY <1>3, <2>2, <2>3
    <2> QED BY <1>1, <1>6, <2>2, <2>4 DEF Decoded
<1>7. CASE Role(r) \in {"commit", "cancel"}
    <2>1. InlineAction(r) = Undefined
        BY <1>3, <1>4, <1>7
    <2>2. r.leaf0 = Undefined \/ r.ins[1] = Account
        <3>1. Role(r) = "cancel" => r.leaf0 = Undefined
            BY DEF Role
        <3> QED BY <1>2, <1>7, <3>1 DEF ExpectedScript
    <2> QED BY <2>1, <2>2, ScriptsDiffer DEF Published
<1>8. CASE Role(r) = "reveal"
    <2>1. r.leaf0 = r.env /\ r.env # Undefined /\ r.ins[1] = CommitOf(r.env)
        BY <1>8 DEF Role
    <2>2. Published(r) = LeafAction(r) /\ Decoded(r) = LeafAction(r)
        BY <1>8, <2>1 DEF Published, Decoded
    <2> QED BY <1>1, <1>8, <2>2
<1> QED BY <1>5, <1>6, <1>7, <1>8

\* Whatever a signed transaction publishes was judged (NothingUnjudged).
THEOREM NothingIsUnjudged == Spec => []NothingUnjudged
<1>1. Init => NothingUnjudged
    BY DEF Init, NothingUnjudged, Idle
<1>2. NothingUnjudged /\ [Next]_vars => NothingUnjudged'
    <2> SUFFICES ASSUME NothingUnjudged, [Next]_vars PROVE NothingUnjudged'
        OBVIOUS
    <2>1. CASE last' = last \/ last' = Idle
        BY <2>1, Releases DEF NothingUnjudged, Idle
    <2>2. ASSUME NEW r \in Requests, Approved(r),
                 last' = [req |-> r, role |-> Role(r), act |-> Decoded(r), approved |-> TRUE]
          PROVE  NothingUnjudged'
        <3>1. last'.req = r /\ last'.act = Decoded(r) /\ policy' = policy
            BY <2>2, Releases
        <3>2. Published(r) # Undefined =>
                  /\ Published(r) = Decoded(r)
                  /\ Published(r).name \in policy.actions
                  /\ ~FailsActionCap(policy, Published(r))
            BY <2>2, PublishesJudged DEF Permits, FailsBasics
        <3> QED BY <3>1, <3>2 DEF NothingUnjudged
    <2> QED BY <2>1, <2>2, Releases
<1> QED BY <1>1, <1>2, PTL DEF Spec
\* The sums of output values are totals, over sets of output indexes.
LEMMA ValueIsTotal ==
    ASSUME NEW r, NEW I
    PROVE  ValueOf(r, I) = Total([i \in I |-> r.outs[i].value], I)
<1> DEFINE g == [i \in I |-> r.outs[i].value]
           B(h, s) == IF s = {} THEN 0
                      ELSE r.outs[CHOOSE x \in s : TRUE].value + h[s \ {CHOOSE x \in s : TRUE}]
<1>1. ASSUME NEW h PROVE [s \in SUBSET I |-> Unfold(g, h, s)] = [s \in SUBSET I |-> B(h, s)]
    <2>1. ASSUME NEW s \in SUBSET I PROVE Unfold(g, h, s) = B(h, s)
        <3>1. s # {} => (CHOOSE x \in s : TRUE) \in I
            OBVIOUS
        <3> QED BY <3>1 DEF Unfold, Pick
    <2> QED BY <2>1
<1>2. (CHOOSE h : Folds(h, g, I)) = CHOOSE h : h = [s \in SUBSET I |-> B(h, s)]
    BY <1>1, Zenon DEF Folds
<1>3. ValueOf(r, I) = (CHOOSE h : h = [s \in SUBSET I |-> B(h, s)])[I]
    BY DEF ValueOf, MapThenSumSet, MapThenFoldSet
<1> QED BY <1>2, <1>3 DEF Total

\* Values of disjoint outputs add up; no value is negative.
LEMMA ValuesAdd ==
    ASSUME NEW r \in Requests, NEW I, NEW J, I \cap J = {}, I \cup J \subseteq 1..Len(r.outs)
    PROVE  /\ ValueOf(r, I) \in Nat /\ ValueOf(r, J) \in Nat
           /\ ValueOf(r, I \cup J) = ValueOf(r, I) + ValueOf(r, J)
<1> DEFINE f == [i \in I |-> r.outs[i].value]
           g == [i \in J |-> r.outs[i].value]
           h == [i \in I \cup J |-> r.outs[i].value]
<1>1. /\ IsFiniteSet(I) /\ IsFiniteSet(J)
      /\ \A i \in I \cup J : r.outs[i].value \in Nat
    <2>1. IsFiniteSet(1..Len(r.outs))
        BY ValueAssumption, FS_Interval
    <2> QED BY <2>1, FS_Subset, ValueAssumption
<1>2. /\ (\A i \in I : h[i] \in Int /\ f[i] = h[i] /\ h[i] \in Nat)
      /\ (\A i \in J : h[i] \in Int /\ g[i] = h[i] /\ h[i] \in Nat)
      /\ (\A i \in I \cup J : h[i] \in Int)
    BY <1>1
<1> HIDE DEF f, g, h
<1>3. Total(f, I) = Total(h, I) /\ Total(g, J) = Total(h, J)
    BY <1>1, <1>2, TotalSame
<1>4. Total(h, I) \in Nat /\ Total(h, J) \in Nat
    BY <1>1, <1>2, TotalNat
<1>5. Total(h, I \cup J) = Total(h, I) + Total(h, J)
    BY <1>1, <1>2, TotalUnion
<1>6. /\ ValueOf(r, I) = Total(f, I) /\ ValueOf(r, J) = Total(g, J)
      /\ ValueOf(r, I \cup J) = Total(h, I \cup J)
    BY ValueIsTotal DEF f, g, h
<1> QED BY <1>3, <1>4, <1>5, <1>6

LEMMA ValueOfNone == ASSUME NEW r PROVE ValueOf(r, {}) = 0
BY ValueIsTotal, TotalEmpty

\* One output.
LEMMA ValueOfOne ==
    ASSUME NEW r \in Requests, NEW i \in 1..Len(r.outs)
    PROVE  ValueOf(r, {i}) = r.outs[i].value
<1> DEFINE g == [j \in {i} |-> r.outs[j].value]
<1>1. IsFiniteSet({}) /\ i \notin {} /\ (\A j \in {} \cup {i} : g[j] \in Int) /\ g[i] = r.outs[i].value
    BY FS_EmptySet, ValueAssumption
<1>2. ValueOf(r, {i}) = Total(g, {i})
    BY ValueIsTotal
<1> HIDE DEF g
<1>3. Total(g, {} \cup {i}) = Total(g, {}) + g[i]
    BY <1>1, TotalAdd
<1>4. {} \cup {i} = {i} /\ r.outs[i].value \in Int
    BY ValueAssumption
<1>5. Total(g, {}) = 0
    BY TotalEmpty
<1>6. Total(g, {i}) = Total(g, {}) + g[i]
    BY <1>3, <1>4
<1> QED BY <1>1, <1>2, <1>4, <1>5, <1>6

\* Outputs without value.
LEMMA ValueOfZeros ==
    ASSUME NEW r \in Requests, NEW I, I \subseteq 1..Len(r.outs),
           \A i \in I : r.outs[i].value = 0
    PROVE  ValueOf(r, I) = 0
<1> DEFINE f == [i \in I |-> r.outs[i].value]
           Q == {s \in SUBSET I : Total(f, s) = 0}
<1>1. IsFiniteSet(I)
    <2>1. IsFiniteSet(1..Len(r.outs))
        BY ValueAssumption, FS_Interval
    <2> QED BY <2>1, FS_Subset
<1>2. {} \in Q
    BY TotalEmpty
<1>3. ASSUME NEW s \in SUBSET I, s # {}, \A x \in s : s \ {x} \in Q
      PROVE  s \in Q
    <2>1. PICK x \in s : TRUE
        BY <1>3
    <2> DEFINE t == s \ {x}
    <2>2. /\ IsFiniteSet(t) /\ x \notin t /\ t \cup {x} = s /\ Total(f, t) = 0
          /\ (\A y \in t \cup {x} : f[y] \in Int) /\ f[x] = 0
        BY <1>1, <1>3, FS_Subset
    <2> HIDE DEF f, t
    <2>3. Total(f, t \cup {x}) = Total(f, t) + f[x]
        BY <2>2, TotalAdd
    <2>4. Total(f, s) = Total(f, t) + f[x]
        BY <2>2, <2>3
    <2>5. Total(f, s) = 0
        BY <2>2, <2>4
    <2> QED BY <2>5
<1> HIDE DEF Q
<1>4. SUBSET I \subseteq Q
    BY <1>1, <1>2, <1>3, SetInduct
<1>5. Total(f, I) = 0
    BY <1>4 DEF Q
<1> QED BY <1>5, ValueIsTotal
\* The change is what an approved request leaves to the account; the rest of
\* its inputs is the fee, the commit output and the payee's.
LEMMA OutflowOf ==
    ASSUME NEW r \in Requests, Approved(r), MaxFee # Unset
    PROVE  r.inValue - ValueOf(r, OutsTo(r, Account))
               <= PayeeCap + (IF Role(r) = "commit" THEN 2 ELSE 1) * MaxFee
<1> DEFINE role == Role(r)
           A == OutsTo(r, Account)
           C == IF role = "commit" THEN OutsTo(r, CommitOf(r.env)) ELSE {}
           K == OutsTo(r, OpReturn)
           P == OutsTo(r, Payee)
           all == 1..Len(r.outs)
<1>1. MaxFee \in Nat /\ PayeeCap \in Nat /\ r.inValue \in Nat /\ Len(r.outs) \in Nat
    BY ValueAssumption
<1>2. /\ all = A \cup C \cup K \cup P
      /\ \A i \in K : r.outs[i].value = 0
      /\ Cardinality(C) <= 1
      /\ \A i \in C : r.outs[i].value <= MaxFee
      /\ ValueOf(r, P) <= PayeeCap
    BY DEF Approved, Signable, OutputsAllowed
<1>3. r.inValue - ValueOf(r, all) <= MaxFee
    BY DEF Approved, Signable, FeeAllowed
<1>4. /\ A \cap C = {} /\ (A \cup C) \cap K = {} /\ (A \cup C \cup K) \cap P = {}
      /\ A \cup C \subseteq all /\ A \cup C \cup K \subseteq all /\ A \cup C \cup K \cup P \subseteq all
      /\ C \subseteq all /\ K \subseteq all
    BY <1>2, ScriptsDiffer DEF OutsTo
<1>5. ValueOf(r, C) \in Nat /\ ValueOf(r, C) <= (IF role = "commit" THEN MaxFee ELSE 0)
    <2>1. CASE C = {}
        <3>1. ValueOf(r, C) = 0
            <4> HIDE DEF C
            <4> QED BY <2>1, ValueOfNone
        <3> QED BY <1>1, <3>1
    <2>2. CASE C # {}
        <3>1. PICK i \in C : TRUE
            BY <2>2
        <3>2. IsFiniteSet(C)
            <4>1. IsFiniteSet(1..Len(r.outs))
                BY <1>1, FS_Interval
            <4> QED BY <1>4, <4>1, FS_Subset
        <3>3. C = {i}
            <4>1. ASSUME NEW j \in C, j # i PROVE FALSE
                <5>1. {i} \subseteq C \ {j} /\ IsFiniteSet(C \ {j})
                    BY <3>2, <4>1, FS_Subset
                <5>2. Cardinality(C \ {j}) = Cardinality(C) - 1 /\ Cardinality(C) \in Nat
                    BY <3>2, FS_RemoveElement, FS_CardinalityType
                <5>3. Cardinality({i}) <= Cardinality(C \ {j}) /\ Cardinality({i}) = 1
                    BY <5>1, FS_Subset, FS_Singleton
                <5> QED BY <1>2, <5>2, <5>3
            <4> QED BY <4>1
        <3>4. ValueOf(r, C) = r.outs[i].value /\ r.outs[i].value \in Nat
            BY <1>4, <3>3, ValueOfOne, ValueAssumption
        <3>5. role = "commit"
            BY <2>2
        <3> QED BY <1>2, <3>3, <3>4, <3>5
    <2> QED BY <2>1, <2>2
<1>6. ValueOf(r, K) = 0
    BY <1>2, <1>4, ValueOfZeros
<1> HIDE DEF A, C, K, P, all, role
<1>7. /\ ValueOf(r, A) \in Nat
      /\ ValueOf(r, A \cup C) = ValueOf(r, A) + ValueOf(r, C)
      /\ ValueOf(r, A \cup C \cup K) = ValueOf(r, A \cup C) + ValueOf(r, K)
      /\ ValueOf(r, A \cup C \cup K \cup P) = ValueOf(r, A \cup C \cup K) + ValueOf(r, P)
      /\ ValueOf(r, P) \in Nat
    BY <1>4, ValuesAdd DEF all
<1>8. ValueOf(r, all) = ValueOf(r, A) + ValueOf(r, C) + ValueOf(r, P)
    BY <1>2, <1>5, <1>6, <1>7
<1>9. r.inValue - ValueOf(r, A) <= PayeeCap + (IF role = "commit" THEN MaxFee ELSE 0) + MaxFee
    BY <1>1, <1>2, <1>3, <1>5, <1>7, <1>8
<1>10. r.inValue - ValueOf(r, A) <= PayeeCap + (IF role = "commit" THEN 2 ELSE 1) * MaxFee
    BY <1>1, <1>7, <1>9
<1> QED BY <1>10 DEF A, role

\* Native coin leaves the account within its bounds only (OutflowBounded).
THEOREM OutflowIsBounded == Spec => []OutflowBounded
<1>1. Init => OutflowBounded
    BY DEF Init, OutflowBounded, Idle
<1>2. OutflowBounded /\ [Next]_vars => OutflowBounded'
    <2> SUFFICES ASSUME OutflowBounded, [Next]_vars PROVE OutflowBounded'
        OBVIOUS
    <2>1. CASE last' = last \/ last' = Idle
        BY <2>1 DEF OutflowBounded, Idle
    <2>2. ASSUME NEW r \in Requests, Approved(r),
                 last' = [req |-> r, role |-> Role(r), act |-> Decoded(r), approved |-> TRUE]
          PROVE  OutflowBounded'
        <3>1. last'.req = r /\ last'.role = Role(r)
            BY <2>2
        <3> QED BY <2>2, <3>1, OutflowOf DEF OutflowBounded
    <2> QED BY <2>1, <2>2, Releases
<1> QED BY <1>1, <1>2, PTL DEF Spec
-----------------------------------------------------------------------------
(* A commit that was signed can be revealed.  The invariant keeps, for the *)
(* newest charge, what the request it was made for was judged on: the      *)
(* evaluator would still permit its action beside all the other rows.      *)

Others(entries) == {e \in entries : e.id # rows}

JudgedFor(c, q) ==
    /\ q.txid = c.txid /\ Charged(q) /\ Evaluated(q) /\ OutputsAllowed(q)
    /\ Decoded(q).amount \in Int \cup {Undefined}
    /\ NeedsConfirmation(policy, Decoded(q)) => AllowConfirmable
    /\ Permits(policy, Decoded(q), Others(cache)) /\ Permits(policy, Decoded(q), Others(file))
    /\ \A e \in cache \cup file : e.id = rows => e.txid = c.txid

RevealInv == \A c \in charges : c.id = rows => \E q \in Requests : JudgedFor(c, q)

\* Rows that are pruned, or whose date the clamp moves, leave what was permitted
\* permitted.
LEMMA OthersLess ==
    ASSUME BudgetInv, NEW c, NEW q, JudgedFor(c, q),
           UNCHANGED <<policy, file, rows>>,
           \/ cache' \subseteq cache
           \/ cache' = Clamp(file)
    PROVE  JudgedFor(c, q)'
<1>1. LimitsTyped(policy) /\ Summable(cache) /\ Summable(file)
    BY WindowSummed DEF BudgetInv, Summed
<1>2. /\ Permits(policy, Decoded(q), {e \in cache' : e.id # rows})
      /\ \A e \in cache' : e.id = rows => e.txid = c.txid
    <2>1. CASE cache' \subseteq cache
        <3>1. {e \in cache' : e.id # rows} \subseteq Others(cache) /\ Others(cache) \subseteq cache
            BY <2>1 DEF Others
        <3>2. Summable(Others(cache))
            BY <1>1, <3>1, SummableLess
        <3> QED BY <1>1, <2>1, <3>1, <3>2, PermittedOnSubset DEF JudgedFor
    <2>2. CASE cache' = Clamp(file)
        <3> DEFINE K(e) == IF e.t > clock + Skew THEN [e EXCEPT !.t = clock] ELSE e
                   S == {e \in Clamp(file) : e.id # rows}
                   T == Others(file)
                   m == [e \in S |-> CHOOSE f \in T : K(f) = e]
        <3>1. ASSUME NEW f \in file
              PROVE  /\ K(f).id = f.id /\ K(f).tick = f.tick
                     /\ K(f).amount = f.amount /\ K(f).txid = f.txid
            BY DEF BudgetInv, Inv, TypeOK
        <3>2. ASSUME NEW e \in S PROVE \E f \in T : K(f) = e
            BY <3>1 DEF Clamp, Others
        <3>3. \A e \in S : m[e] \in T /\ K(m[e]) = e
            BY <3>2
        <3>4. Matches(m, S, T)
            <4>1. m \in [S -> T]
                BY <3>3
            <4>2. \A c1, d \in S : m[c1] = m[d] => c1 = d
                BY <3>3
            <4>3. \A e \in S : m[e].tick = e.tick /\ m[e].amount = e.amount
                BY <3>1, <3>3 DEF Others
            <4> QED BY <4>1, <4>2, <4>3 DEF Matches
        <3>5. Summable(S) /\ Summable(T)
            <4>1. S \subseteq Clamp(file) /\ T \subseteq file
                BY DEF Others
            <4>2. Summable(Clamp(file))
                BY <1>1, ClampSummable DEF BudgetInv, Inv
            <4> QED BY <1>1, <4>1, <4>2, SummableLess
        <3>6. \A e \in Clamp(file) : e.id = rows => e.txid = c.txid
            <4> SUFFICES ASSUME NEW e \in Clamp(file), e.id = rows PROVE e.txid = c.txid
                OBVIOUS
            <4>1. PICK f \in file : e = K(f)
                BY DEF Clamp
            <4>2. f.id = rows /\ e.txid = f.txid
                BY <3>1, <4>1
            <4> QED BY <4>2 DEF JudgedFor
        <3> HIDE DEF m, S, T
        <3>7. Permits(policy, Decoded(q), S)
            BY <1>1, <3>4, <3>5, PermittedOnLess DEF JudgedFor, T
        <3> QED BY <2>2, <3>6, <3>7 DEF S
    <2> QED BY <2>1, <2>2
<1> QED BY <1>2 DEF JudgedFor, Others

LEMMA RevealStep == ASSUME BudgetInv, RevealInv, [Next]_vars PROVE RevealInv'
<1>1. ASSUME UNCHANGED <<policy, file, rows, charges>>, cache' \subseteq cache \/ cache' = Clamp(file)
      PROVE  RevealInv'
    BY <1>1, OthersLess DEF RevealInv
<1>2. CASE \/ \E r \in Requests : Deny(r) \/ ApproveUncharged(r)
           \/ Restart \/ Tick \/ (\E d \in ClockSteps : StepClock(d)) \/ UNCHANGED vars
    <2>1. UNCHANGED <<policy, file, rows, charges>> /\ (cache' \subseteq cache \/ cache' = Clamp(file))
        BY <1>2 DEF Deny, ApproveUncharged, Live, Restart, Tick, StepClock, storeVars, vars
    <2> QED BY <1>1, <2>1
<1>3. ASSUME NEW r \in Requests, RecordFails(r) PROVE RevealInv'
    <2>1. \A c \in charges : c.id # rows + 1
        BY DEF BudgetInv, Inv, TypeOK
    <2> QED BY <1>3, <2>1 DEF RecordFails, RevealInv
<1>4. ASSUME NEW r \in Requests, ApproveCharged(r) PROVE RevealInv'
    <2> SUFFICES ASSUME NEW c \in charges', c.id = rows' PROVE JudgedFor(c, r)'
        BY DEF RevealInv
    <2>1. /\ policy' = policy /\ Approved(r) /\ Charged(r) /\ rows' = rows + 1
          /\ cache' = Live(cache) \cup {Entry(r)} /\ file' = cache'
        BY <1>4 DEF ApproveCharged
    <2>2. c.txid = r.txid
        <3>1. \A d \in charges : d.id # rows + 1
            BY DEF BudgetInv, Inv, TypeOK
        <3> QED BY <1>4, <3>1 DEF ApproveCharged
    <2>3. Permits(policy, Decoded(r), Live(cache)) /\ Decoded(r).amount \in Int \cup {Undefined}
        BY <2>1, EntryAmount
    <2>4. Entry(r).id = rows + 1 /\ Entry(r).txid = r.txid /\ \A e \in Live(cache) : e.id # rows + 1
        BY DEF Entry, Live, BudgetInv, Inv, TypeOK
    <2>5. {e \in cache' : e.id # rows'} = Live(cache)
        BY <2>1, <2>4
    <2>6. /\ Evaluated(r) /\ OutputsAllowed(r)
          /\ NeedsConfirmation(policy, Decoded(r)) => AllowConfirmable
        BY <2>1 DEF Approved, Signable, PolicyAllows, Charged
    <2> QED BY <2>1, <2>2, <2>3, <2>4, <2>5, <2>6 DEF JudgedFor, Others
<1> QED BY <1>2, <1>3, <1>4 DEF Next, Process

\* The reveal of the newest charge is permitted.
LEMMA RevealAllowed ==
    ASSUME BudgetInv, RevealInv, NEW r \in Requests, Role(r) = "reveal", Signable(r),
           NEW c \in charges, c.txid = r.prev0, c.id = rows
    PROVE  PolicyAllows(r)
<1>1. PICK q \in Requests : JudgedFor(c, q)
    BY DEF RevealInv
<1>2. r.env # Undefined /\ r.leaf0 = r.env /\ r.ins[1] = CommitOf(r.env)
    BY DEF Role
<1>3. \E i \in 1..Len(q.outs) : q.outs[i].to = CommitOf(r.env)
    BY <1>1, <1>2, TxidAssumption DEF JudgedFor
<1>4. Role(q) = "commit" /\ q.env = r.env
    <2>1. OutputsAllowed(q) /\ Role(q) \in {"plain", "commit"}
        BY <1>1 DEF JudgedFor, Charged
    <2>2. PICK i \in 1..Len(q.outs) : q.outs[i].to = CommitOf(r.env)
        BY <1>3
    <2>3. i \notin OutsTo(q, Account) /\ i \notin OutsTo(q, OpReturn) /\ i \notin OutsTo(q, Payee)
        BY <2>2, ScriptsDiffer DEF OutsTo
    <2>4. Role(q) = "commit" /\ i \in OutsTo(q, CommitOf(q.env))
        BY <2>1, <2>2, <2>3 DEF OutputsAllowed
    <2> QED BY <2>2, <2>4, ScriptsDiffer DEF OutsTo
<1>5. Decoded(r) = Decoded(q)
    <2>1. OutsTo(r, OpReturn) = {}
        BY DEF Signable, OutputsAllowed
    <2>2. Decoded(q) = ActionOf[r.env]
        BY <1>4 DEF Decoded
    <2>3. Decoded(r) = ActionOf[r.env]
        BY <1>2, <2>1 DEF Decoded, LeafAction
    <2> QED BY <2>2, <2>3
<1>6. Snapshot(r) \subseteq Others(cache)
    BY <1>1 DEF Snapshot, Live, Others, JudgedFor
<1>7. Permits(policy, Decoded(r), Snapshot(r))
    <2>1. LimitsTyped(policy) /\ Summable(cache)
        BY WindowSummed DEF BudgetInv, Summed
    <2>2. Summable(Others(cache))
        BY <2>1, SummableLess DEF Others
    <2> QED BY <1>1, <1>5, <1>6, <2>1, <2>2, PermittedOnSubset DEF JudgedFor
<1> QED BY <1>1, <1>5, <1>7 DEF PolicyAllows, JudgedFor

\* No signed commit is stranded by its own charge (RevealNotStranded).
THEOREM NoRevealIsStranded ==
    ASSUME Backwards
    PROVE  Spec => []RevealNotStranded
<1>1. Init => BudgetInv /\ RevealInv
    BY BudgetInit DEF Init, RevealInv
<1>2. BudgetInv /\ RevealInv /\ [Next]_vars => BudgetInv' /\ RevealInv'
    BY BudgetStep, RevealStep
<1>3. BudgetInv /\ RevealInv => RevealNotStranded
    BY RevealAllowed DEF RevealNotStranded
<1> QED BY <1>1, <1>2, <1>3, PTL DEF Spec
=============================================================================
