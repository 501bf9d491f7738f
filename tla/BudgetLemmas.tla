---------------------------- MODULE BudgetLemmas ----------------------------
(***************************************************************************)
(* Facts about the spending policy that the proofs about the co-signer and *)
(* the agent session share: an action the evaluator permits on a window    *)
(* keeps that window within the policy's limits.                           *)
(***************************************************************************)
EXTENDS PolicyEvaluator, SumLemmas

(* A window of charges, or of usage entries: records with a tick and an    *)
(* amount.                                                                 *)

Counted(S) == {e \in S : e.amount # Undefined}

\* The counted entries of a token, and those whose tick never resolved.
OfToken(S, token) == {e \in Counted(S) : e.tick # Undefined /\ Fold[e.tick] = token}
Unresolved(S) == {e \in Counted(S) : e.tick = Undefined}

Summable(S) == IsFiniteSet(S) /\ \A e \in Counted(S) : e.amount \in Nat

Named(table) == DOMAIN table \ {"*"}

\* The limits of SpendingWindow, with sums written as totals.
InLimits(pol, cs) ==
    /\ pol.maxActions = Unset \/ Cardinality(cs) <= pol.maxActions
    /\ \A k \in Named(pol.perTick) : Amounts(OfToken(cs, Fold[k])) <= pol.perTick[k]
    /\ "*" \in DOMAIN pol.perTick =>
          /\ \A token \in {Fold[s] : s \in DOMAIN Fold} \ {Fold[k] : k \in Named(pol.perTick)} :
                Amounts(OfToken(cs, token)) <= pol.perTick["*"]
          /\ Amounts(Unresolved(cs)) <= pol.perTick["*"]

\* What a configured policy is: caps that are amounts.
LimitsTyped(pol) ==
    /\ pol.maxActions \in Nat \cup {Unset}
    /\ \A k \in DOMAIN pol.perTick : pol.perTick[k] \in Nat /\ pol.perTick[k] # Undefined

\* The evaluator's sum for a tick.
LEMMA UsedIsTotal ==
    ASSUME NEW S, NEW tick
    PROVE  Used(S, tick) = Amounts(IF tick = Undefined THEN Unresolved(S)
                                   ELSE OfToken(S, Fold[tick]))
<1> DEFINE same == {e \in S : /\ e.amount # Undefined
                              /\ IF tick = Undefined THEN e.tick = Undefined
                                 ELSE e.tick # Undefined /\ Fold[e.tick] = Fold[tick]}
<1>1. same = IF tick = Undefined THEN Unresolved(S) ELSE OfToken(S, Fold[tick])
    BY DEF Unresolved, OfToken, Counted
<1>2. Used(S, tick) = Amounts(same)
    BY AmountFold DEF Used, MapThenSumSet, MapThenFoldSet, Amounts
<1> QED BY <1>1, <1>2

\* The entries a charge of this tick is summed with.
Bucket(S, tick) == IF tick = Undefined THEN Unresolved(S) ELSE OfToken(S, Fold[tick])

\* One more charge, for act, keeps a window within the limits.
Fits(pol, act, S) ==
    LET tick == ResolveTick(pol, act)
        cap == CapFor(pol.perTick, tick)
    IN  /\ pol.maxActions # Unset => Cardinality(S) + 1 <= pol.maxActions
        /\ act.amount # Undefined =>
              /\ act.amount \in Nat
              /\ cap # Undefined => Amounts(Bucket(S, tick)) + act.amount <= cap
        /\ \A j, k \in TickKeysFor(pol.perTick, tick) : j = k

\* Charges matched with entries of the same tick and amount.
Matches(m, W, L) ==
    /\ m \in [W -> L]
    /\ \A c, d \in W : m[c] = m[d] => c = d
    /\ \A c \in W : m[c].tick = c.tick /\ m[c].amount = c.amount

LEMMA AmountsMatched ==
    ASSUME NEW S, NEW T, IsFiniteSet(S), IsFiniteSet(T), \A e \in T : e.amount \in Nat,
           NEW m, Matches(m, S, T)
    PROVE  Amounts(S) \in Nat /\ Amounts(T) \in Nat /\ Amounts(S) <= Amounts(T)
<1> DEFINE f == [e \in S |-> e.amount]
           g == [e \in T |-> e.amount]
<1>1. /\ m \in [S -> T] /\ (\A c, d \in S : m[c] = m[d] => c = d)
      /\ (\A c \in S : f[c] = g[m[c]]) /\ \A e \in T : g[e] \in Nat
    BY DEF Matches
<1> HIDE DEF f, g
<1>2. Total(f, S) \in Nat /\ Total(g, T) \in Nat /\ Total(f, S) <= Total(g, T)
    BY <1>1, TotalMatched
<1> QED BY <1>2 DEF Amounts, f, g

\* What a bucket of a window is made of.
LEMMA BucketTyped ==
    ASSUME NEW S, Summable(S), NEW tick
    PROVE  IsFiniteSet(Bucket(S, tick)) /\ \A e \in Bucket(S, tick) : e.amount \in Nat
<1>1. Bucket(S, tick) \subseteq Counted(S) /\ Counted(S) \subseteq S
    BY DEF Bucket, OfToken, Unresolved, Counted
<1> QED BY <1>1, FS_Subset DEF Summable

LEMMA TokenTyped ==
    ASSUME NEW S, Summable(S), NEW token
    PROVE  IsFiniteSet(OfToken(S, token)) /\ \A e \in OfToken(S, token) : e.amount \in Nat
<1>1. OfToken(S, token) \subseteq Counted(S) /\ Counted(S) \subseteq S
    BY DEF OfToken, Counted
<1> QED BY <1>1, FS_Subset DEF Summable

LEMMA UnresolvedTyped ==
    ASSUME NEW S, Summable(S)
    PROVE  IsFiniteSet(Unresolved(S)) /\ \A e \in Unresolved(S) : e.amount \in Nat
<1>1. Unresolved(S) \subseteq Counted(S) /\ Counted(S) \subseteq S
    BY DEF Unresolved, Counted
<1> QED BY <1>1, FS_Subset DEF Summable

\* An action permitted on the usage entries fits the charges they stand for.
LEMMA PermittedFits ==
    ASSUME NEW pol, LimitsTyped(pol), NEW act, act.amount \in Int \cup {Undefined},
           NEW W, NEW L, Summable(W), Summable(L), NEW m, Matches(m, W, L),
           Permits(pol, act, L)
    PROVE  Fits(pol, act, W)
<1> DEFINE tick == ResolveTick(pol, act)
           cap == CapFor(pol.perTick, tick)
<1>1. ~FailsWindow(pol, act, L) /\ ~CaseCollision(pol, act) /\ ~FailsBasics(pol, act)
    BY DEF Permits
<1>2. IsFiniteSet(W) /\ IsFiniteSet(L)
    BY DEF Summable
<1>3. /\ Cardinality(W) \in Nat /\ Cardinality(L) \in Nat
      /\ Cardinality(W) <= Cardinality(L)
    <2>1. m \in Injection(W, L)
        BY DEF Matches, Injection, IsInjective
    <2> QED BY <1>2, <2>1, FS_Injection, FS_CardinalityType
<1>4. pol.maxActions # Unset => Cardinality(W) + 1 <= pol.maxActions
    <2>1. ASSUME pol.maxActions # Unset
          PROVE  Cardinality(L) + 1 <= pol.maxActions /\ pol.maxActions \in Nat
        BY <1>1, <1>3, <2>1 DEF FailsWindow, LimitsTyped
    <2> QED BY <1>3, <2>1
<1>5. ASSUME act.amount # Undefined PROVE act.amount \in Nat
    BY <1>1, <1>5 DEF FailsBasics
<1>6. ASSUME act.amount # Undefined, cap # Undefined
      PROVE  Amounts(Bucket(W, tick)) + act.amount <= cap
    <2>1. Amounts(Bucket(W, tick)) <= Amounts(Bucket(L, tick))
          /\ Amounts(Bucket(W, tick)) \in Nat /\ Amounts(Bucket(L, tick)) \in Nat
        <3> DEFINE A == Bucket(W, tick)
                   B == Bucket(L, tick)
                   k == [c \in A |-> m[c]]
        <3>1. Matches(k, A, B)
            BY DEF Matches, Bucket, OfToken, Unresolved, Counted
        <3>2. IsFiniteSet(A) /\ IsFiniteSet(B) /\ \A e \in B : e.amount \in Nat
            BY BucketTyped
        <3> HIDE DEF A, B, k
        <3>3. Amounts(A) \in Nat /\ Amounts(B) \in Nat /\ Amounts(A) <= Amounts(B)
            BY <3>1, <3>2, AmountsMatched
        <3> QED BY <3>3 DEF A, B
    <2>2. Used(L, tick) = Amounts(Bucket(L, tick))
        BY UsedIsTotal DEF Bucket
    <2>3. ~(Used(L, tick) + act.amount > cap)
        BY <1>1, <1>6 DEF FailsWindow, Exceeds
    <2>4. cap \in Nat
        BY <1>6 DEF CapFor, TickKeysFor, LimitsTyped
    <2> QED BY <1>5, <1>6, <2>1, <2>2, <2>3, <2>4
<1>7. \A j, k \in TickKeysFor(pol.perTick, tick) : j = k
    BY <1>1 DEF CaseCollision
<1> QED BY <1>4, <1>5, <1>6, <1>7 DEF Fits

\* The cap of a tick is the one its only named key or the default gives it.
LEMMA CapTyped ==
    ASSUME NEW pol, LimitsTyped(pol), NEW tick
    PROVE  CapFor(pol.perTick, tick) # Undefined => CapFor(pol.perTick, tick) \in Nat
BY DEF CapFor, TickKeysFor, LimitsTyped

\* Fewer charges fit and respect the limits as well.
LEMMA FitsLess ==
    ASSUME NEW pol, LimitsTyped(pol), NEW act, NEW S, NEW T, Summable(T), S \subseteq T,
           Fits(pol, act, T)
    PROVE  Fits(pol, act, S)
<1> DEFINE tick == ResolveTick(pol, act)
           cap == CapFor(pol.perTick, tick)
<1>1. IsFiniteSet(T) /\ IsFiniteSet(S)
    BY FS_Subset DEF Summable
<1>2. Cardinality(S) \in Nat /\ Cardinality(T) \in Nat /\ Cardinality(S) <= Cardinality(T)
    BY <1>1, FS_Subset, FS_CardinalityType
<1>3. pol.maxActions # Unset => Cardinality(S) + 1 <= pol.maxActions
    <2>1. ASSUME pol.maxActions # Unset
          PROVE  Cardinality(T) + 1 <= pol.maxActions /\ pol.maxActions \in Nat
        BY <2>1 DEF Fits, LimitsTyped
    <2> QED BY <1>2, <2>1
<1>4. ASSUME act.amount # Undefined, cap # Undefined
      PROVE  Amounts(Bucket(S, tick)) + act.amount <= cap
    <2>1. act.amount \in Nat /\ Amounts(Bucket(T, tick)) + act.amount <= cap
        BY <1>4 DEF Fits
    <2>2. Bucket(S, tick) \subseteq Bucket(T, tick)
        BY DEF Bucket, OfToken, Unresolved, Counted
    <2>3. IsFiniteSet(Bucket(T, tick)) /\ \A e \in Bucket(T, tick) : e.amount \in Nat
        BY BucketTyped
    <2>4. /\ Amounts(Bucket(S, tick)) \in Nat /\ Amounts(Bucket(T, tick)) \in Nat
          /\ Amounts(Bucket(S, tick)) <= Amounts(Bucket(T, tick))
        BY <2>2, <2>3, AmountsMore
    <2>5. cap \in Nat
        BY <1>4, CapTyped
    <2> QED BY <2>1, <2>4, <2>5
<1> QED BY <1>3, <1>4 DEF Fits

LEMMA SummableLess ==
    ASSUME NEW S, NEW T, Summable(T), S \subseteq T
    PROVE  Summable(S)
BY FS_Subset DEF Summable, Counted

LEMMA LimitsLess ==
    ASSUME NEW pol, LimitsTyped(pol), NEW S, NEW T, Summable(T), S \subseteq T, InLimits(pol, T)
    PROVE  InLimits(pol, S)
<1>1. IsFiniteSet(T) /\ IsFiniteSet(S)
    BY FS_Subset DEF Summable
<1>2. Cardinality(S) \in Nat /\ Cardinality(T) \in Nat /\ Cardinality(S) <= Cardinality(T)
    BY <1>1, FS_Subset, FS_CardinalityType
<1>3. pol.maxActions = Unset \/ Cardinality(S) <= pol.maxActions
    BY <1>2 DEF InLimits, LimitsTyped
<1>4. ASSUME NEW token
      PROVE  /\ Amounts(OfToken(S, token)) \in Nat /\ Amounts(OfToken(T, token)) \in Nat
             /\ Amounts(OfToken(S, token)) <= Amounts(OfToken(T, token))
    <2>1. OfToken(S, token) \subseteq OfToken(T, token)
        BY DEF OfToken, Counted
    <2> QED BY <2>1, TokenTyped, AmountsMore
<1>5. /\ Amounts(Unresolved(S)) \in Nat /\ Amounts(Unresolved(T)) \in Nat
      /\ Amounts(Unresolved(S)) <= Amounts(Unresolved(T))
    <2>1. Unresolved(S) \subseteq Unresolved(T)
        BY DEF Unresolved, Counted
    <2> QED BY <2>1, UnresolvedTyped, AmountsMore
<1>6. ASSUME NEW k \in Named(pol.perTick)
      PROVE  Amounts(OfToken(S, Fold[k])) <= pol.perTick[k]
    <2>1. pol.perTick[k] \in Nat /\ Amounts(OfToken(T, Fold[k])) <= pol.perTick[k]
        BY DEF InLimits, LimitsTyped, Named
    <2> QED BY <1>4, <2>1
<1>7. ASSUME "*" \in DOMAIN pol.perTick
      PROVE  /\ \A token \in {Fold[s] : s \in DOMAIN Fold} \ {Fold[k] : k \in Named(pol.perTick)} :
                    Amounts(OfToken(S, token)) <= pol.perTick["*"]
             /\ Amounts(Unresolved(S)) <= pol.perTick["*"]
    <2>1. pol.perTick["*"] \in Nat
        BY <1>7 DEF LimitsTyped
    <2>2. Amounts(Unresolved(T)) <= pol.perTick["*"]
        BY <1>7 DEF InLimits
    <2>3. ASSUME NEW token \in {Fold[s] : s \in DOMAIN Fold} \ {Fold[k] : k \in Named(pol.perTick)}
          PROVE  Amounts(OfToken(S, token)) <= pol.perTick["*"]
        <3>1. Amounts(OfToken(T, token)) <= pol.perTick["*"]
            BY <1>7 DEF InLimits
        <3> QED BY <1>4, <2>1, <3>1
    <2> QED BY <1>5, <2>1, <2>2, <2>3
<1> QED BY <1>3, <1>6, <1>7 DEF InLimits

\* A charge that fits is within the limits once it is made.
LEMMA FitsLimits ==
    ASSUME NEW pol, LimitsTyped(pol), NEW act, NEW W, Summable(W), NEW n, n \notin W,
           n.tick = ResolveTick(pol, act), n.amount = act.amount,
           InLimits(pol, W), Fits(pol, act, W)
    PROVE  Summable(W \cup {n}) /\ InLimits(pol, W \cup {n})
<1> DEFINE V == W \cup {n}
           tick == n.tick
           cap == CapFor(pol.perTick, tick)
<1>1. Summable(V)
    BY FS_AddElement DEF Summable, Fits, Counted
<1>2. pol.maxActions = Unset \/ Cardinality(V) <= pol.maxActions
    <2>1. IsFiniteSet(W) /\ Cardinality(V) = Cardinality(W) + 1
        BY FS_AddElement DEF Summable
    <2> QED BY <2>1 DEF Fits
<1>3. ASSUME n.amount # Undefined, cap # Undefined
      PROVE  Amounts(Bucket(V, tick)) <= cap
    <2>1. Bucket(V, tick) = Bucket(W, tick) \cup {n} /\ n \notin Bucket(W, tick)
        BY <1>3 DEF Bucket, OfToken, Unresolved, Counted
    <2>2. Amounts(Bucket(W, tick)) + n.amount <= cap /\ n.amount \in Nat
        BY <1>3 DEF Fits
    <2>3. IsFiniteSet(Bucket(W, tick)) /\ \A e \in Bucket(W, tick) : e.amount \in Nat
        BY BucketTyped
    <2>4. Amounts(Bucket(W, tick) \cup {n}) = Amounts(Bucket(W, tick)) + n.amount
        BY <2>1, <2>2, <2>3, AmountsAdd
    <2> QED BY <2>1, <2>2, <2>4
<1>4. ASSUME NEW token, n.amount = Undefined \/ tick = Undefined \/ token # Fold[tick]
      PROVE  OfToken(V, token) = OfToken(W, token)
    BY <1>4 DEF OfToken, Counted
<1>5. n.amount = Undefined \/ tick # Undefined => Unresolved(V) = Unresolved(W)
    BY DEF Unresolved, Counted
<1>6. ASSUME NEW k \in Named(pol.perTick)
      PROVE  Amounts(OfToken(V, Fold[k])) <= pol.perTick[k]
    <2>1. CASE n.amount = Undefined \/ tick = Undefined \/ Fold[k] # Fold[tick]
        BY <1>4, <2>1 DEF InLimits
    <2>2. CASE n.amount # Undefined /\ tick # Undefined /\ Fold[k] = Fold[tick]
        <3>1. k \in TickKeysFor(pol.perTick, tick)
            BY <2>2 DEF TickKeysFor, Named
        <3>2. \A j \in TickKeysFor(pol.perTick, tick) : j = k
            BY <3>1 DEF Fits
        <3>3. cap = pol.perTick[k]
            BY <3>1, <3>2 DEF CapFor
        <3>4. cap # Undefined
            BY <3>3 DEF LimitsTyped, Named
        <3>5. Amounts(Bucket(V, tick)) <= cap
            BY <1>3, <2>2, <3>4
        <3>6. Bucket(V, tick) = OfToken(V, Fold[k])
            BY <2>2 DEF Bucket
        <3> QED BY <3>3, <3>5, <3>6
    <2> QED BY <2>1, <2>2
<1>7. ASSUME "*" \in DOMAIN pol.perTick, n.amount # Undefined,
             TickKeysFor(pol.perTick, tick) = {}
      PROVE  Amounts(Bucket(V, tick)) <= pol.perTick["*"]
    <2>1. cap = pol.perTick["*"] /\ cap # Undefined
        BY <1>7 DEF CapFor, LimitsTyped
    <2> QED BY <1>3, <1>7, <2>1
<1>8. ASSUME "*" \in DOMAIN pol.perTick
      PROVE  /\ \A token \in {Fold[s] : s \in DOMAIN Fold} \ {Fold[k] : k \in Named(pol.perTick)} :
                    Amounts(OfToken(V, token)) <= pol.perTick["*"]
             /\ Amounts(Unresolved(V)) <= pol.perTick["*"]
    <2>1. ASSUME NEW token \in {Fold[s] : s \in DOMAIN Fold} \ {Fold[k] : k \in Named(pol.perTick)}
          PROVE  Amounts(OfToken(V, token)) <= pol.perTick["*"]
        <3>1. CASE n.amount = Undefined \/ tick = Undefined \/ token # Fold[tick]
            BY <1>4, <1>8, <3>1 DEF InLimits
        <3>2. CASE n.amount # Undefined /\ tick # Undefined /\ token = Fold[tick]
            <4>1. TickKeysFor(pol.perTick, tick) = {}
                BY <3>2 DEF TickKeysFor, Named
            <4>2. Bucket(V, tick) = OfToken(V, token)
                BY <3>2 DEF Bucket
            <4> QED BY <1>7, <1>8, <3>2, <4>1, <4>2
        <3> QED BY <3>1, <3>2
    <2>2. Amounts(Unresolved(V)) <= pol.perTick["*"]
        <3>1. CASE n.amount = Undefined \/ tick # Undefined
            BY <1>5, <1>8, <3>1 DEF InLimits
        <3>2. CASE n.amount # Undefined /\ tick = Undefined
            <4>1. TickKeysFor(pol.perTick, tick) = {} /\ Bucket(V, tick) = Unresolved(V)
                BY <3>2 DEF TickKeysFor, Bucket
            <4> QED BY <1>7, <1>8, <3>2, <4>1
        <3> QED BY <3>1, <3>2
    <2> QED BY <2>1, <2>2
<1> QED BY <1>1, <1>2, <1>6, <1>8 DEF InLimits

\* No charges are within any limits.
LEMMA NoCharges ==
    ASSUME NEW pol, LimitsTyped(pol)
    PROVE  Summable({}) /\ InLimits(pol, {})
<1>1. IsFiniteSet({}) /\ Cardinality({}) = 0
    BY FS_EmptySet
<1>2. Amounts({}) = 0
    BY TotalEmpty DEF Amounts
<1>3. Unresolved({}) = {} /\ \A token : OfToken({}, token) = {}
    BY DEF Unresolved, OfToken, Counted
<1> QED BY <1>1, <1>2, <1>3 DEF Summable, InLimits, LimitsTyped, Named, Counted
\* The evaluator permits what fits; so what it permits it also permits on fewer
\* entries.
LEMMA PermittedOnLess ==
    ASSUME NEW pol, LimitsTyped(pol), NEW act, act.amount \in Int \cup {Undefined},
           NEW S, NEW T, Summable(S), Summable(T), NEW m, Matches(m, S, T),
           Permits(pol, act, T)
    PROVE  Permits(pol, act, S)
<1> DEFINE tick == ResolveTick(pol, act)
           cap == CapFor(pol.perTick, tick)
<1>1. Fits(pol, act, S)
    BY PermittedFits
<1>2. Cardinality(S) \in Nat /\ Amounts(Bucket(S, tick)) \in Nat
    <2>1. IsFiniteSet(Bucket(S, tick)) /\ \A e \in Bucket(S, tick) : e.amount \in Nat
        BY BucketTyped
    <2> QED BY <2>1, AmountsMore, FS_CardinalityType DEF Summable
<1>3. ~(pol.maxActions # Unset /\ Cardinality(S) + 1 > pol.maxActions)
    BY <1>1, <1>2 DEF Fits, LimitsTyped
<1>4. Used(S, tick) = Amounts(Bucket(S, tick))
    BY UsedIsTotal DEF Bucket
<1>5. ~(act.amount # Undefined /\ Exceeds(Used(S, tick) + act.amount, cap))
    <2> SUFFICES ASSUME act.amount # Undefined, cap # Undefined
                 PROVE  ~(Used(S, tick) + act.amount > cap)
        BY DEF Exceeds
    <2>1. /\ act.amount \in Nat
          /\ Amounts(Bucket(S, tick)) + act.amount <= cap
        BY <1>1 DEF Fits
    <2>2. cap \in Nat
        BY CapTyped
    <2> QED BY <1>2, <1>4, <2>1, <2>2
<1>6. ~FailsWindow(pol, act, S)
    BY <1>3, <1>5 DEF FailsWindow
<1> QED BY <1>6 DEF Permits

LEMMA PermittedOnSubset ==
    ASSUME NEW pol, LimitsTyped(pol), NEW act, act.amount \in Int \cup {Undefined},
           NEW S, NEW T, Summable(T), S \subseteq T, Permits(pol, act, T)
    PROVE  Permits(pol, act, S)
<1> DEFINE m == [e \in S |-> e]
<1>1. Matches(m, S, T) /\ Summable(S)
    BY SummableLess DEF Matches
<1> HIDE DEF m
<1> QED BY <1>1, PermittedOnLess
=============================================================================
