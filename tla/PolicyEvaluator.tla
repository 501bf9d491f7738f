---------------------------- MODULE PolicyEvaluator ----------------------------
(***************************************************************************)
(* The spending-policy evaluator shared by the agent session and the       *)
(* co-signer (cosigner/policy_evaluator/*.js), as pure operators.          *)
(*                                                                         *)
(* A policy is a record                                                    *)
(*    actions    allowed action names                                      *)
(*    dests      allowed destinations, or Unset when the list is not set     *)
(*    perAction  action name -> cap table                                  *)
(*    perTick    the window's cap table                                    *)
(*    confirm    confirmAbove's table of thresholds                        *)
(*    maxActions actions per window, or Unset                                *)
(*    tickIds    ^<id> reference -> token name                             *)
(* where a cap table maps spellings of a token, and "*", to amounts; a     *)
(* table that is not configured is the empty one.  An action is a record   *)
(* [name, tick, amount, dests, class]: the tick and amount resolveValue()  *)
(* binds the caps to, Undefined where it has none; the destinations it     *)
(* names, Undefined where its format has no such field; and the class of   *)
(* value_derivability.js, of which only "unbounded" is told apart.         *)
(***************************************************************************)
EXTENDS Integers, FiniteSetsExt

CONSTANTS
    Undefined,   \* JavaScript's undefined
    Unset,         \* a list or limit that is not configured
    Refs,        \* wire-form references ^<id>
    Fold         \* spelling -> the one token consensus reads it as

\* policy.tickIds resolves a reference; anything else is itself.
ResolveTick(pol, act) ==
    IF act.tick \in DOMAIN pol.tickIds THEN pol.tickIds[act.tick] ELSE act.tick

ActionTable(pol, act) ==
    IF act.name \in DOMAIN pol.perAction THEN pol.perAction[act.name] ELSE <<>>

HasNamedKey(table) == DOMAIN table \ {"*"} # {}

\* The table's keys consensus reads as this token, in whatever case.
TickKeysFor(table, tick) ==
    IF tick = Undefined THEN {}
    ELSE {k \in DOMAIN table \ {"*"} : Fold[k] = Fold[tick]}

CapFor(table, tick) ==
    LET keys == TickKeysFor(table, tick)
    IN  IF keys # {}
        THEN table[IF tick \in keys THEN tick ELSE CHOOSE k \in keys : TRUE]
        ELSE IF "*" \in DOMAIN table THEN table["*"] ELSE Undefined

Exceeds(amount, cap) == cap # Undefined /\ amount > cap

\* What the window holds for this token: amounts recorded under any spelling,
\* or under the reserved bucket of entries whose tick never resolved.
Used(entries, tick) ==
    LET same == {e \in entries :
                    /\ e.amount # Undefined
                    /\ IF tick = Undefined THEN e.tick = Undefined
                       ELSE e.tick # Undefined /\ Fold[e.tick] = Fold[tick]}
        AmountOf(e) == e.amount
    IN  MapThenSumSet(AmountOf, same)

-----------------------------------------------------------------------------
\* POLICY_UNRESOLVED_TICK: a reference no rule of this policy can identify.
UnresolvedTick(pol, act) ==
    /\ ResolveTick(pol, act) \in Refs
    /\ \/ HasNamedKey(ActionTable(pol, act))
       \/ DOMAIN pol.perTick # {}
       \/ HasNamedKey(pol.confirm)

\* POLICY_TICK_CASE_COLLISION: two keys of one table name the same token.
CaseCollision(pol, act) ==
    \E table \in {ActionTable(pol, act), pol.perTick, pol.confirm} :
        \E j, k \in TickKeysFor(table, ResolveTick(pol, act)) : j # k

\* checkBasics: amount syntax (a negative amount stands for every
\* non-canonical one), allowed action, allowed destination.
FailsBasics(pol, act) ==
    \/ act.amount # Undefined /\ act.amount < 0
    \/ act.name \notin pol.actions
    \/ pol.dests # Unset /\ (act.dests = Undefined \/ ~(act.dests \subseteq pol.dests))

HasAmountLimit(pol) ==
    DOMAIN pol.perAction # {} \/ DOMAIN pol.perTick # {} \/ DOMAIN pol.confirm # {}

\* checkDerivability: an outflow no amount cap can express.
FailsDerivability(pol, act) == HasAmountLimit(pol) /\ act.class = "unbounded"

FailsActionCap(pol, act) ==
    /\ act.amount # Undefined
    /\ Exceeds(act.amount, CapFor(ActionTable(pol, act), ResolveTick(pol, act)))

\* Mutant: the window is compared before this action is added to it.
FailsWindowLate(pol, act, entries) ==
    \/ pol.maxActions # Unset /\ Cardinality(entries) > pol.maxActions
    \/ /\ act.amount # Undefined
       /\ Exceeds(Used(entries, ResolveTick(pol, act)) + act.amount,
                  CapFor(pol.perTick, ResolveTick(pol, act)))

\* Mutant: entries and action must agree on the spelling of the token.
FailsWindowBySpelling(pol, act, entries) ==
    \/ pol.maxActions # Unset /\ Cardinality(entries) + 1 > pol.maxActions
    \/ /\ act.amount # Undefined
       /\ Exceeds(Used({e \in entries : e.tick = ResolveTick(pol, act)},
                       ResolveTick(pol, act)) + act.amount,
                  CapFor(pol.perTick, ResolveTick(pol, act)))

\* checkWindow: the window with this action added to it.
FailsWindow(pol, act, entries) ==
    \/ pol.maxActions # Unset /\ Cardinality(entries) + 1 > pol.maxActions
    \/ /\ act.amount # Undefined
       /\ Exceeds(Used(entries, ResolveTick(pol, act)) + act.amount,
                  CapFor(pol.perTick, ResolveTick(pol, act)))

NeedsConfirmation(pol, act) ==
    /\ act.amount # Undefined
    /\ Exceeds(act.amount, CapFor(pol.confirm, ResolveTick(pol, act)))

\* evaluatePolicy's verdict, against the given window entries.
Permits(pol, act, entries) ==
    /\ ~UnresolvedTick(pol, act)
    /\ ~CaseCollision(pol, act)
    /\ ~FailsBasics(pol, act)
    /\ ~FailsDerivability(pol, act)
    /\ ~FailsActionCap(pol, act)
    /\ ~FailsWindow(pol, act, entries)
=============================================================================
