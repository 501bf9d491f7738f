-------------------------- MODULE ReferenceLookup --------------------------
(***************************************************************************)
(* Compaction of list items (utils/tick_resolver.js, address_resolver.js,  *)
(* list_tick_compaction.js, utils/list/*.js): the items of a LIST action   *)
(* are looked up at the explorer, a few at a time, and a ticker or address *)
(* that is indexed is replaced by a reference to its id.  A lookup is      *)
(* capped: an answer that comes later is dropped.                          *)
(***************************************************************************)
EXTENDS Integers, Sequences, FiniteSets

CONSTANTS
    Items,          \* the items of the LIST, a sequence
    Folded,         \* item -> the item in lower case
    IdOf,           \* item -> the id of what is spelled so
    KeptItems,      \* items that are never looked up: ^id, C:index, BURN, ill-formed
    LookupLimit     \* LIST_ITEM_LOOKUP_LIMIT, LIST_TICK_LOOKUP_CONCURRENCY

ASSUME ItemsAssumption == Len(Items) \in Nat

VARIABLES
    listKind,   \* "tick" (TYPE 1) or "address" (TYPE 2)
    typeKnown,  \* TYPE is a parameter; else it is the parent list's
    gateActive, \* the explorer's tip has reached the activation block
    stage,      \* "gate", "parent", "items" or "done"
    explorer,   \* whether the explorer is reachable
    indexed,    \* items whose token or address is indexed by now
    refCache,   \* key -> id
    nextIndex,
    busy,       \* indexes a worker awaits
    results     \* index -> what it becomes; 0 before

lookupVars == <<listKind, typeKnown, gateActive, stage, explorer, indexed, refCache, nextIndex, busy,
                results>>

Plain(item) == [item |-> item, id |-> 0]
Reference(id) == [item |-> "^", id |-> id]

LookupInit(kinds, flags) ==
    /\ listKind \in kinds
    /\ typeKnown \in flags /\ gateActive \in flags /\ explorer \in flags
    /\ stage = "gate"
    /\ indexed = {}
    /\ refCache = [k \in {} |-> 0]
    /\ nextIndex = 1 /\ busy = {}
    /\ results = [i \in 1..Len(Items) |-> Plain(Items[i])]

\* What the explorer answers: a ticker is one token in any case.
Denotes(item) == IF item \in KeptItems THEN 0 ELSE IdOf[IF listKind = "tick" THEN Folded[item] ELSE item]

\* The token or address is indexed, at some point.
GetsIndexed(item) ==
    /\ item \notin indexed
    /\ indexed' = indexed \cup {x \in DOMAIN IdOf : Denotes(x) = Denotes(item)}
    /\ UNCHANGED <<listKind, typeKnown, gateActive, stage, explorer, refCache, nextIndex, busy, results>>

\* compactListItems, compactListTickItems: the gate; without the status, or
\* before the activation block, the items stay as they are.
GateAsked ==
    /\ stage = "gate"
    /\ stage' = IF ~explorer \/ ~gateActive THEN "done" ELSE IF typeKnown THEN "items" ELSE "parent"
    /\ UNCHANGED <<listKind, typeKnown, gateActive, explorer, indexed, refCache, nextIndex, busy, results>>

\* readParentListType: the type, or nothing on any failure.
ParentAsked ==
    /\ stage = "parent"
    /\ stage' \in {"items", "done"}
    /\ UNCHANGED <<listKind, typeKnown, gateActive, explorer, indexed, refCache, nextIndex, busy, results>>

\* Mutant: every key is folded.
CacheKeyFolded(item) == Folded[item]

\* resolve's key: tickers are the same in any case, addresses are not.
CacheKey(item) == IF listKind = "tick" THEN Folded[item] ELSE item

WorkerCount == IF LookupLimit < Len(Items) THEN LookupLimit ELSE Len(Items)

\* Whether an item is answered without the explorer.
Immediate(item) == item \in KeptItems \/ CacheKey(item) \in DOMAIN refCache

\* mapWithLimit: a free worker takes the next item.
WorkerTakes ==
    /\ stage = "items" /\ Cardinality(busy) < WorkerCount /\ nextIndex <= Len(Items)
    /\ nextIndex' = nextIndex + 1
    /\ LET item == Items[nextIndex]
       IN  IF Immediate(item)
           THEN /\ results' = [results EXCEPT ![nextIndex] =
                                  IF item \in KeptItems THEN Plain(item)
                                  ELSE Reference(refCache[CacheKey(item)])]
                /\ UNCHANGED busy
           ELSE busy' = busy \cup {nextIndex} /\ UNCHANGED results
    /\ UNCHANGED <<listKind, typeKnown, gateActive, stage, explorer, indexed, refCache>>

\* The explorer answers in time: an id is remembered.
LookupAnswered(i) ==
    /\ i \in busy
    /\ busy' = busy \ {i}
    /\ LET item == Items[i]
           hit == item \in indexed
       IN  /\ refCache' = IF hit THEN [k \in DOMAIN refCache \cup {CacheKey(item)} |->
                                          IF k = CacheKey(item) THEN Denotes(item) ELSE refCache[k]]
                          ELSE refCache
           /\ results' = IF hit THEN [results EXCEPT ![i] = Reference(Denotes(item))] ELSE results
    /\ UNCHANGED <<listKind, typeKnown, gateActive, stage, explorer, indexed, nextIndex>>

\* withCap: no answer, or not in time; the item stays.
LookupFails(i) ==
    /\ i \in busy
    /\ busy' = busy \ {i}
    /\ UNCHANGED <<listKind, typeKnown, gateActive, stage, explorer, indexed, refCache, nextIndex, results>>

LookupsEnd ==
    /\ stage = "items" /\ nextIndex > Len(Items) /\ busy = {}
    /\ stage' = "done"
    /\ UNCHANGED <<listKind, typeKnown, gateActive, explorer, indexed, refCache, nextIndex, busy, results>>

LookupNext ==
    \/ \E item \in DOMAIN IdOf : GetsIndexed(item)
    \/ GateAsked \/ ParentAsked \/ WorkerTakes \/ LookupsEnd
    \/ \E i \in busy : LookupAnswered(i) \/ LookupFails(i)

LookupSpec(kinds, flags) == LookupInit(kinds, flags) /\ [][LookupNext]_lookupVars

-----------------------------------------------------------------------------
\* In whatever order the lookups end, the list keeps its order and its meaning:
\* every item is left as it was or is a reference to its own id, and nothing is
\* compacted before the activation block (address_resolver.js, tick_resolver.js).
ItemsKeepTheirMeaning ==
    \A i \in 1..Len(Items) :
        /\ results[i] \in {Plain(Items[i]), Reference(Denotes(Items[i]))}
        /\ results[i] # Plain(Items[i]) => gateActive /\ Items[i] \notin KeptItems
=============================================================================
