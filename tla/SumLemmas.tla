------------------------------ MODULE SumLemmas ------------------------------
(***************************************************************************)
(* What MapThenSumSet computes, for every finite set: the lemmas about     *)
(* sums that the proofs about the budgets and about the gateway share.     *)
(* Total(g, S) is the sum of g over S, by the recursion MapThenSumSet uses *)
(* with the operator replaced by a function g, so that lemmas can          *)
(* quantify over it.                                                       *)
(***************************************************************************)
EXTENDS Integers, FiniteSetTheorems, WellFoundedInduction, TLAPS

Pick(s) == CHOOSE x \in s : TRUE

\* One step of the fold: an element, and the rest.
Unfold(g, h, s) == IF s = {} THEN 0 ELSE g[Pick(s)] + h[s \ {Pick(s)}]

Folds(h, g, S) == h = [s \in SUBSET S |-> Unfold(g, h, s)]

Total(g, S) == (CHOOSE h : Folds(h, g, S))[S]

IsFold(h, g, S) == \A s \in SUBSET S : h[s] = Unfold(g, h, s)

\* Any element may be taken first.
AnyOrder(h, g, S) == \A s \in SUBSET S : \A x \in s : h[s] = g[x] + h[s \ {x}]

\* h holds the totals of the subsets of S, of g and of what agrees with g.
HoldsTotals(h, g, S) ==
    /\ h \in [SUBSET S -> Int]
    /\ IsFold(h, g, S)
    /\ \A f, s : s \in SUBSET S /\ (\A x \in s : f[x] = g[x]) => Total(f, s) = h[s]

-----------------------------------------------------------------------------
\* A nonempty set of naturals has a least element, and so induction holds.
LEMMA Least ==
    ASSUME NEW T, T \subseteq Nat, T # {}
    PROVE  \E n \in T : \A m \in T : n <= m
<1>1. IsWellFoundedOn(OpToRel(<, Nat), Nat)
    BY NatLessThanWellFounded
<1>2. PICK n \in T : \A m \in T : ~(<<m, n>> \in OpToRel(<, Nat))
    BY <1>1, WFMin
<1>3. \A m \in T : ~(m < n)
    BY <1>2 DEF OpToRel
<1>4. \A m \in T, k \in T : ~(m < k) => k <= m
    OBVIOUS
<1> QED BY <1>2, <1>3, <1>4

LEMMA Induct ==
    ASSUME NEW P, 0 \in P, \A n \in Nat : n \in P => n + 1 \in P
    PROVE  Nat \subseteq P
<1> SUFFICES ASSUME Nat \ P # {} PROVE FALSE
    OBVIOUS
<1>1. PICK n \in Nat \ P : \A m \in Nat \ P : n <= m
    BY Least
<1>2. n # 0 /\ n - 1 \in Nat /\ n - 1 < n
    BY <1>1
<1>3. n - 1 \in P
    BY <1>1, <1>2
<1>4. (n - 1) + 1 \in P
    BY <1>2, <1>3
<1> QED BY <1>1, <1>4

\* Subsets of a finite set, from the empty one up: a property that a set has
\* as soon as it has it without any one of its elements holds of all of them.
LEMMA SetInduct ==
    ASSUME NEW S, IsFiniteSet(S), NEW Q, {} \in Q,
           \A s \in SUBSET S : s # {} /\ (\A x \in s : s \ {x} \in Q) => s \in Q
    PROVE  SUBSET S \subseteq Q
<1> DEFINE P == {n \in Nat : \A s \in SUBSET S : Cardinality(s) = n => s \in Q}
<1>1. \A s \in SUBSET S : IsFiniteSet(s) /\ Cardinality(s) \in Nat
    BY FS_Subset, FS_CardinalityType
<1>2. 0 \in P
    BY <1>1, FS_EmptySet
<1>3. ASSUME NEW n \in Nat, n \in P PROVE n + 1 \in P
    <2> SUFFICES ASSUME NEW s \in SUBSET S, Cardinality(s) = n + 1 PROVE s \in Q
        OBVIOUS
    <2>1. s # {}
        <3>1. Cardinality({}) = 0
            BY FS_EmptySet
        <3> QED BY <3>1
    <2>2. ASSUME NEW x \in s PROVE s \ {x} \in Q
        <3>1. Cardinality(s \ {x}) = n
            BY <1>1, FS_RemoveElement
        <3> QED BY <1>3, <3>1
    <2> QED BY <2>1, <2>2
<1> HIDE DEF P
<1>4. Nat \subseteq P
    BY <1>2, <1>3, Induct
<1> QED BY <1>1, <1>4 DEF P

-----------------------------------------------------------------------------
\* Two folds of one function over the subsets of T agree.
LEMMA FoldsUnique ==
    ASSUME NEW T, IsFiniteSet(T), NEW g, NEW h, NEW k,
           IsFold(h, g, T), IsFold(k, g, T)
    PROVE  \A s \in SUBSET T : h[s] = k[s]
<1> DEFINE Q == {s \in SUBSET T : h[s] = k[s]}
<1>1. {} \in Q
    BY DEF Unfold, IsFold
<1>2. ASSUME NEW s \in SUBSET T, s # {}, \A x \in s : s \ {x} \in Q
      PROVE  s \in Q
    <2>1. Pick(s) \in s
        BY <1>2 DEF Pick
    <2>2. h[s \ {Pick(s)}] = k[s \ {Pick(s)}]
        BY <1>2, <2>1
    <2> QED BY <1>2, <2>2 DEF Unfold, IsFold
<1> HIDE DEF Q
<1>3. SUBSET T \subseteq Q
    BY <1>1, <1>2, SetInduct
<1> QED BY <1>3 DEF Q

\* There is a fold: level by level of the size of the set.
LEMMA FoldsExist ==
    ASSUME NEW S, IsFiniteSet(S), NEW g \in [S -> Int]
    PROVE  \E h \in [SUBSET S -> Int] : Folds(h, g, S)
<1> DEFINE Level(n) == {s \in SUBSET S : Cardinality(s) <= n}
           Good(h, n) == h \in [Level(n) -> Int] /\ \A s \in Level(n) : h[s] = Unfold(g, h, s)
           P == {n \in Nat : \E h : Good(h, n)}
<1>1. \A s \in SUBSET S : IsFiniteSet(s) /\ Cardinality(s) \in Nat
    BY FS_Subset, FS_CardinalityType
<1>2. \A s \in SUBSET S : s # {} => Pick(s) \in s /\ g[Pick(s)] \in Int
    BY DEF Pick
<1>3. ASSUME NEW n \in Nat, NEW s \in SUBSET S, s # {}, Cardinality(s) <= n + 1
      PROVE  s \ {Pick(s)} \in Level(n)
    <2>1. Cardinality(s \ {Pick(s)}) = Cardinality(s) - 1
        BY <1>1, <1>2, <1>3, FS_RemoveElement
    <2> QED BY <1>1, <1>3, <2>1
<1>4. 0 \in P
    <2> DEFINE h == [s \in Level(0) |-> 0]
    <2>1. ASSUME NEW s \in Level(0) PROVE s = {}
        <3>1. Cardinality(s) = 0
            BY <1>1
        <3> QED BY <1>1, <3>1, FS_EmptySet
    <2>2. Good(h, 0)
        BY <2>1 DEF Unfold
    <2> QED BY <2>2
<1>5. ASSUME NEW n \in Nat, n \in P PROVE n + 1 \in P
    <2>1. PICK h : Good(h, n)
        BY <1>5
    <2> DEFINE k == [s \in Level(n + 1) |-> Unfold(g, h, s)]
    <2>2. ASSUME NEW s \in Level(n + 1) PROVE k[s] \in Int
        <3>1. CASE s = {}
            BY <3>1 DEF Unfold
        <3>2. CASE s # {}
            <4>1. s \ {Pick(s)} \in Level(n)
                BY <1>3, <3>2
            <4>2. h[s \ {Pick(s)}] \in Int
                BY <2>1, <4>1
            <4> QED BY <1>2, <3>2, <4>2 DEF Unfold
        <3> QED BY <3>1, <3>2
    <2>3. ASSUME NEW s \in Level(n) PROVE s \in Level(n + 1) /\ k[s] = h[s]
        <3>1. s \in Level(n + 1)
            BY <1>1
        <3> QED BY <2>1, <3>1
    <2>4. ASSUME NEW s \in Level(n + 1) PROVE k[s] = Unfold(g, k, s)
        <3>1. CASE s = {}
            BY <3>1 DEF Unfold
        <3>2. CASE s # {}
            <4>1. s \ {Pick(s)} \in Level(n)
                BY <1>3, <3>2
            <4> HIDE DEF Level
            <4>2. k[s \ {Pick(s)}] = h[s \ {Pick(s)}]
                BY <2>3, <4>1
            <4> QED BY <3>2, <4>2 DEF Unfold
        <3> QED BY <3>1, <3>2
    <2>5. Good(k, n + 1)
        BY <2>2, <2>4
    <2> HIDE DEF k, Good
    <2> QED BY <2>5
<1> HIDE DEF P
<1>6. Nat \subseteq P
    BY <1>4, <1>5, Induct
<1>7. Cardinality(S) \in Nat /\ Cardinality(S) \in P
    BY <1>6, FS_CardinalityType
<1>8. PICK h : Good(h, Cardinality(S))
    BY <1>7 DEF P
<1>9. Level(Cardinality(S)) = SUBSET S
    BY FS_Subset
<1> QED BY <1>8, <1>9 DEF Folds

-----------------------------------------------------------------------------
\* The fold over the subsets of S: its values are the totals.
LEMMA TotalIsFold ==
    ASSUME NEW S, IsFiniteSet(S), NEW g \in [S -> Int]
    PROVE  \E h : HoldsTotals(h, g, S)
<1>1. PICK h \in [SUBSET S -> Int] : Folds(h, g, S)
    BY FoldsExist
<1>2. IsFold(h, g, S)
    BY <1>1 DEF Folds, IsFold
<1>3. ASSUME NEW f, NEW s \in SUBSET S, \A x \in s : f[x] = g[x]
      PROVE  Total(f, s) = h[s]
    <2> DEFINE g1 == [x \in s |-> g[x]]
               k == CHOOSE k : Folds(k, f, s)
    <2>1. IsFiniteSet(s) /\ g1 \in [s -> Int]
        BY FS_Subset
    <2>2. PICK h1 \in [SUBSET s -> Int] : Folds(h1, g1, s)
        BY <2>1, FoldsExist
    <2>3. \A j, t : t \in SUBSET s => Unfold(g1, j, t) = Unfold(f, j, t)
        BY <1>3 DEF Unfold, Pick
    <2>4. Folds(h1, f, s)
        BY <2>2, <2>3 DEF Folds
    <2>5. Folds(k, f, s)
        BY <2>4
    <2>6. IsFold(k, g1, s)
        BY <2>3, <2>5 DEF Folds, IsFold
    <2>7. IsFold(h, g1, s)
        BY <1>2 DEF Unfold, Pick, IsFold
    <2> HIDE DEF k, g1
    <2>8. \A t \in SUBSET s : k[t] = h[t]
        BY <2>1, <2>6, <2>7, FoldsUnique
    <2> QED BY <2>8 DEF Total, k
<1>4. HoldsTotals(h, g, S)
    BY <1>2, <1>3 DEF HoldsTotals
<1> QED BY <1>4

\* Which element is taken first does not matter.
LEMMA AnyFirst ==
    ASSUME NEW S, IsFiniteSet(S), NEW g \in [S -> Int], NEW h \in [SUBSET S -> Int],
           IsFold(h, g, S)
    PROVE  AnyOrder(h, g, S)
<1> DEFINE Q == {s \in SUBSET S : \A x \in s : h[s] = g[x] + h[s \ {x}]}
<1>1. {} \in Q
    OBVIOUS
<1>2. ASSUME NEW s \in SUBSET S, s # {}, \A x \in s : s \ {x} \in Q
      PROVE  s \in Q
    <2> SUFFICES ASSUME NEW x \in s PROVE h[s] = g[x] + h[s \ {x}]
        OBVIOUS
    <2> DEFINE c == Pick(s)
    <2>1. c \in s /\ h[s] = g[c] + h[s \ {c}]
        BY DEF Unfold, Pick, IsFold
    <2> HIDE DEF c
    <2>2. CASE x = c
        BY <2>1, <2>2
    <2>3. CASE x # c
        <3>1. s \ {c} \in Q /\ x \in s \ {c} /\ s \ {x} \in Q /\ c \in s \ {x}
            BY <1>2, <2>1, <2>3
        <3>2. h[s \ {c}] = g[x] + h[(s \ {c}) \ {x}] /\ h[s \ {x}] = g[c] + h[(s \ {x}) \ {c}]
            BY <3>1
        <3>3. (s \ {c}) \ {x} = (s \ {x}) \ {c}
            OBVIOUS
        <3>4. g[x] \in Int /\ g[c] \in Int /\ h[(s \ {x}) \ {c}] \in Int
            BY <2>1
        <3>5. h[s \ {c}] = g[x] + h[(s \ {x}) \ {c}]
            BY <3>2, <3>3
        <3> HIDE DEF Q
        <3> QED BY <2>1, <3>2, <3>4, <3>5
    <2> QED BY <2>2, <2>3
<1> HIDE DEF Q
<1>3. SUBSET S \subseteq Q
    BY <1>1, <1>2, SetInduct
<1> QED BY <1>3 DEF Q, AnyOrder

\* The empty total, the type of a total, and one more summand.
LEMMA TotalEmpty == ASSUME NEW g PROVE Total(g, {}) = 0
<1> DEFINE f == [x \in {} |-> 0]
<1>1. IsFiniteSet({}) /\ f \in [{} -> Int]
    BY FS_EmptySet
<1> HIDE DEF f
<1>2. PICK h : HoldsTotals(h, f, {})
    BY <1>1, TotalIsFold
<1>3. Total(g, {}) = h[{}]
    BY <1>2 DEF HoldsTotals
<1> QED BY <1>2, <1>3 DEF Unfold, HoldsTotals, IsFold

LEMMA TotalInt ==
    ASSUME NEW S, IsFiniteSet(S), NEW g, \A x \in S : g[x] \in Int
    PROVE  Total(g, S) \in Int
<1> DEFINE f == [x \in S |-> g[x]]
<1>1. f \in [S -> Int] /\ \A x \in S : g[x] = f[x]
    OBVIOUS
<1> HIDE DEF f
<1>2. PICK h : HoldsTotals(h, f, S)
    BY <1>1, TotalIsFold
<1>3. Total(g, S) = h[S] /\ h[S] \in Int
    BY <1>1, <1>2 DEF HoldsTotals
<1> QED BY <1>3

LEMMA TotalAdd ==
    ASSUME NEW S, IsFiniteSet(S), NEW x, x \notin S, NEW g, \A y \in S \cup {x} : g[y] \in Int
    PROVE  Total(g, S \cup {x}) = Total(g, S) + g[x]
<1> DEFINE T == S \cup {x}
           f == [y \in T |-> g[y]]
<1>1. IsFiniteSet(T) /\ f \in [T -> Int] /\ \A y \in T : g[y] = f[y]
    BY FS_AddElement
<1>2. x \in T /\ T \ {x} = S /\ S \subseteq T
    OBVIOUS
<1> HIDE DEF f, T
<1>3. PICK h : HoldsTotals(h, f, T)
    BY <1>1, TotalIsFold
<1>4. h[T] = f[x] + h[S]
    <2>1. h \in [SUBSET T -> Int] /\ IsFold(h, f, T)
        BY <1>3 DEF HoldsTotals
    <2>2. IsFiniteSet(T) /\ f \in [T -> Int] /\ T \in SUBSET T /\ x \in T
        BY <1>1, <1>2
    <2>3. AnyOrder(h, f, T)
        BY <2>1, <2>2, AnyFirst
    <2> QED BY <1>2, <2>2, <2>3 DEF AnyOrder
<1>5. Total(g, T) = h[T] /\ Total(g, S) = h[S]
    BY <1>1, <1>2, <1>3 DEF HoldsTotals
<1>6. f[x] \in Int /\ h[S] \in Int /\ f[x] = g[x]
    BY <1>1, <1>2, <1>3 DEF HoldsTotals
<1>7. Total(g, T) = Total(g, S) + g[x]
    BY <1>4, <1>5, <1>6
<1> QED BY <1>7 DEF T

\* Totals of functions that agree on the set.
LEMMA TotalSame ==
    ASSUME NEW S, IsFiniteSet(S), NEW f, NEW g, \A x \in S : g[x] \in Int /\ f[x] = g[x]
    PROVE  Total(f, S) = Total(g, S)
<1> DEFINE k == [x \in S |-> g[x]]
<1>1. k \in [S -> Int] /\ \A x \in S : g[x] = k[x] /\ f[x] = k[x]
    OBVIOUS
<1> HIDE DEF k
<1>2. PICK h : HoldsTotals(h, k, S)
    BY <1>1, TotalIsFold
<1> QED BY <1>1, <1>2 DEF HoldsTotals

LEMMA TotalNat ==
    ASSUME NEW S, IsFiniteSet(S), NEW g, \A x \in S : g[x] \in Nat
    PROVE  Total(g, S) \in Nat
<1> DEFINE Q == {s \in SUBSET S : Total(g, s) \in Nat}
<1>1. {} \in Q
    BY TotalEmpty
<1>2. ASSUME NEW s \in SUBSET S, s # {}, \A x \in s : s \ {x} \in Q
      PROVE  s \in Q
    <2>1. PICK x \in s : TRUE
        BY <1>2
    <2> DEFINE r == s \ {x}
    <2>2. /\ IsFiniteSet(r) /\ x \notin r /\ r \cup {x} = s /\ r \in Q
          /\ (\A y \in r \cup {x} : g[y] \in Int) /\ g[x] \in Nat
        BY <1>2, FS_Subset
    <2> HIDE DEF r
    <2>3. Total(g, r \cup {x}) = Total(g, r) + g[x]
        BY <2>2, TotalAdd
    <2>4. Total(g, r) \in Nat /\ Total(g, s) = Total(g, r) + g[x]
        BY <2>2, <2>3
    <2>5. Total(g, s) \in Nat
        BY <2>2, <2>4
    <2> QED BY <2>5
<1> HIDE DEF Q
<1>3. SUBSET S \subseteq Q
    BY <1>1, <1>2, SetInduct
<1> QED BY <1>3 DEF Q

\* Two disjoint sets.
LEMMA TotalUnion ==
    ASSUME NEW S, NEW T, IsFiniteSet(S), IsFiniteSet(T), S \cap T = {},
           NEW g, \A x \in S \cup T : g[x] \in Int
    PROVE  Total(g, S \cup T) = Total(g, S) + Total(g, T)
<1> DEFINE Q == {t \in SUBSET T : Total(g, S \cup t) = Total(g, S) + Total(g, t)}
<1>1. {} \in Q
    <2>1. S \cup {} = S /\ Total(g, S) \in Int
        BY TotalInt
    <2> QED BY <2>1, TotalEmpty
<1>2. ASSUME NEW t \in SUBSET T, t # {}, \A x \in t : t \ {x} \in Q
      PROVE  t \in Q
    <2>1. PICK x \in t : TRUE
        BY <1>2
    <2> DEFINE r == t \ {x}
               u == S \cup r
    <2>2. /\ IsFiniteSet(r) /\ x \notin r /\ r \cup {x} = t /\ r \in Q
          /\ (\A y \in r \cup {x} : g[y] \in Int) /\ \A y \in r : g[y] \in Int
        BY <1>2, FS_Subset
    <2>3. /\ IsFiniteSet(u) /\ x \notin u /\ u \cup {x} = S \cup t
          /\ (\A y \in u \cup {x} : g[y] \in Int)
        BY <2>2, FS_Union
    <2>4. Total(g, u) = Total(g, S) + Total(g, r)
        BY <2>2
    <2>5. Total(g, r) \in Int /\ Total(g, S) \in Int /\ g[x] \in Int
        BY <2>2, TotalInt
    <2> HIDE DEF r, u
    <2>6. Total(g, r \cup {x}) = Total(g, r) + g[x]
        BY <2>2, TotalAdd
    <2>7. Total(g, u \cup {x}) = Total(g, u) + g[x]
        BY <2>3, TotalAdd
    <2>8. /\ Total(g, t) = Total(g, r) + g[x]
          /\ Total(g, S \cup t) = Total(g, u) + g[x]
        BY <2>2, <2>3, <2>6, <2>7
    <2>9. Total(g, S \cup t) = Total(g, S) + Total(g, t)
        BY <2>4, <2>5, <2>8
    <2> QED BY <2>9
<1> HIDE DEF Q
<1>3. SUBSET T \subseteq Q
    BY <1>1, <1>2, SetInduct
<1>4. T \in Q
    BY <1>3
<1> QED BY <1>4 DEF Q

\* More summands, none of them negative.
LEMMA TotalMore ==
    ASSUME NEW S, NEW T, IsFiniteSet(T), S \subseteq T, NEW g, \A x \in T : g[x] \in Nat
    PROVE  Total(g, S) \in Nat /\ Total(g, T) \in Nat /\ Total(g, S) <= Total(g, T)
<1> DEFINE R == T \ S
<1>1. /\ IsFiniteSet(S) /\ IsFiniteSet(R) /\ S \cap R = {} /\ S \cup R = T
      /\ (\A x \in S : g[x] \in Nat) /\ (\A x \in R : g[x] \in Nat)
      /\ \A x \in S \cup R : g[x] \in Int
    BY FS_Subset
<1> HIDE DEF R
<1>2. Total(g, S) \in Nat /\ Total(g, R) \in Nat
    BY <1>1, TotalNat
<1>3. Total(g, S \cup R) = Total(g, S) + Total(g, R)
    BY <1>1, TotalUnion
<1>4. Total(g, T) = Total(g, S) + Total(g, R)
    BY <1>1, <1>3
<1> QED BY <1>2, <1>4

\* Summands matched one to one with some of a larger set.
LEMMA TotalMatched ==
    ASSUME NEW S, NEW T, IsFiniteSet(S), IsFiniteSet(T), NEW f, NEW g,
           NEW m \in [S -> T], \A x, y \in S : m[x] = m[y] => x = y,
           \A x \in S : f[x] = g[m[x]], \A y \in T : g[y] \in Nat
    PROVE  Total(f, S) \in Nat /\ Total(g, T) \in Nat /\ Total(f, S) <= Total(g, T)
<1> DEFINE I(s) == {m[x] : x \in s}
           Q == {s \in SUBSET S : Total(f, s) = Total(g, I(s))}
<1>1. {} \in Q
    <2>1. I({}) = {}
        OBVIOUS
    <2> QED BY <2>1, TotalEmpty
<1>2. ASSUME NEW s \in SUBSET S, s # {}, \A x \in s : s \ {x} \in Q
      PROVE  s \in Q
    <2>1. PICK x \in s : TRUE
        BY <1>2
    <2> DEFINE r == s \ {x}
               i == I(r)
    <2>2. /\ IsFiniteSet(r) /\ x \notin r /\ r \cup {x} = s /\ r \in Q
          /\ (\A y \in r \cup {x} : f[y] \in Int)
        BY <1>2, FS_Subset
    <2>3. /\ IsFiniteSet(i) /\ m[x] \notin i /\ i \cup {m[x]} = I(s)
          /\ (\A y \in i \cup {m[x]} : g[y] \in Int)
        <3>1. i \subseteq T /\ m[x] \in T
            OBVIOUS
        <3>2. IsFiniteSet(i)
            BY <3>1, FS_Subset
        <3>3. m[x] \notin i /\ i \cup {m[x]} = I(s)
            BY <2>2
        <3> QED BY <3>1, <3>2, <3>3
    <2>4. Total(f, r) = Total(g, i) /\ f[x] = g[m[x]]
        BY <2>2
    <2> HIDE DEF r, i
    <2>5. Total(f, r \cup {x}) = Total(f, r) + f[x]
        BY <2>2, TotalAdd
    <2>6. Total(g, i \cup {m[x]}) = Total(g, i) + g[m[x]]
        BY <2>3, TotalAdd
    <2>7. Total(f, s) = Total(g, I(s))
        BY <2>2, <2>3, <2>4, <2>5, <2>6
    <2> QED BY <2>7
<1> HIDE DEF Q
<1>3. SUBSET S \subseteq Q
    BY <1>1, <1>2, SetInduct
<1>4. Total(f, S) = Total(g, I(S)) /\ I(S) \subseteq T
    BY <1>3 DEF Q
<1> HIDE DEF I
<1> QED BY <1>4, TotalMore

\* The fold MapThenSumSet makes over amounts is the total of the amounts.
LEMMA AmountFold ==
    ASSUME NEW S
    PROVE  (CHOOSE h : h = [s \in SUBSET S |->
                IF s = {} THEN 0
                ELSE (CHOOSE x \in s : TRUE).amount + h[s \ {CHOOSE x \in s : TRUE}]])[S]
           = Total([e \in S |-> e.amount], S)
<1> DEFINE g == [e \in S |-> e.amount]
           B(h, s) == IF s = {} THEN 0
                      ELSE (CHOOSE x \in s : TRUE).amount + h[s \ {CHOOSE x \in s : TRUE}]
<1>1. ASSUME NEW h PROVE [s \in SUBSET S |-> Unfold(g, h, s)] = [s \in SUBSET S |-> B(h, s)]
    <2>1. ASSUME NEW s \in SUBSET S PROVE Unfold(g, h, s) = B(h, s)
        <3>1. s # {} => (CHOOSE x \in s : TRUE) \in S
            OBVIOUS
        <3> QED BY <3>1 DEF Unfold, Pick
    <2> QED BY <2>1
<1>2. (CHOOSE h : Folds(h, g, S)) = CHOOSE h : h = [s \in SUBSET S |-> B(h, s)]
    BY <1>1, Zenon DEF Folds
<1> QED BY <1>2 DEF Total
-----------------------------------------------------------------------------
(* Records with an amount. *)

Amounts(S) == Total([e \in S |-> e.amount], S)

LEMMA AmountsMore ==
    ASSUME NEW S, NEW T, IsFiniteSet(T), S \subseteq T, \A e \in T : e.amount \in Nat
    PROVE  Amounts(S) \in Nat /\ Amounts(T) \in Nat /\ Amounts(S) <= Amounts(T)
<1> DEFINE f == [e \in S |-> e.amount]
           g == [e \in T |-> e.amount]
<1>1. IsFiniteSet(S) /\ (\A e \in S : g[e] \in Int /\ f[e] = g[e]) /\ \A e \in T : g[e] \in Nat
    BY FS_Subset
<1> HIDE DEF f, g
<1>2. Total(f, S) = Total(g, S)
    BY <1>1, TotalSame
<1>3. Total(g, S) \in Nat /\ Total(g, T) \in Nat /\ Total(g, S) <= Total(g, T)
    BY <1>1, TotalMore
<1> QED BY <1>2, <1>3 DEF Amounts, f, g
LEMMA AmountsAdd ==
    ASSUME NEW S, IsFiniteSet(S), \A e \in S : e.amount \in Nat, NEW n, n \notin S,
           n.amount \in Nat
    PROVE  Amounts(S \cup {n}) = Amounts(S) + n.amount /\ Amounts(S) \in Nat
<1> DEFINE T == S \cup {n}
           f == [e \in S |-> e.amount]
           g == [e \in T |-> e.amount]
<1>1. /\ (\A e \in S : g[e] \in Int /\ f[e] = g[e]) /\ (\A e \in S \cup {n} : g[e] \in Int)
      /\ g[n] = n.amount
    OBVIOUS
<1>2. Amounts(S) \in Nat
    BY AmountsMore
<1> HIDE DEF f, g
<1>3. Total(f, S) = Total(g, S)
    BY <1>1, TotalSame
<1>4. Total(g, S \cup {n}) = Total(g, S) + g[n]
    BY <1>1, TotalAdd
<1> QED BY <1>1, <1>2, <1>3, <1>4 DEF Amounts, f, g
=============================================================================
