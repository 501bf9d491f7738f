---------------------------- MODULE SpendingWindow ----------------------------
(***************************************************************************)
(* What the spending window promises, with no clock of its own, no ledger  *)
(* and no envelopes: an action is charged only if, counting it, the        *)
(* charges of the last `Hours' of real time respect the policy's count     *)
(* limit and every token's cap, whatever spelling a charge was made under. *)
(***************************************************************************)
EXTENDS Integers, FiniteSetsExt

CONSTANTS Undefined, Unset, Fold,
          Hours      \* length of the window

VARIABLES policy,    \* the configured limits, fixed
          real,      \* real time
          charges    \* every action a signature was released for

\* The charges of the window that ends at time t.
Window(cs, t) == {c \in cs : c.at >= t - Hours}

Spent(cs, tokens) ==
    LET AmountOf(c) == c.amount
    IN  MapThenSumSet(AmountOf, {c \in cs : /\ c.amount # Undefined
                                            /\ c.tick # Undefined
                                            /\ Fold[c.tick] \in tokens})

SpentUnresolved(cs) ==
    LET AmountOf(c) == c.amount
    IN  MapThenSumSet(AmountOf, {c \in cs : c.amount # Undefined /\ c.tick = Undefined})

NamedTokens(table) == {Fold[k] : k \in DOMAIN table \ {"*"}}

\* The limits, read off the policy without the evaluator's lookups.
WithinLimits(cs) ==
    /\ policy.maxActions = Unset \/ Cardinality(cs) <= policy.maxActions
    /\ \A k \in DOMAIN policy.perTick \ {"*"} :
          Spent(cs, {Fold[k]}) <= policy.perTick[k]
    /\ "*" \in DOMAIN policy.perTick =>
          /\ \A token \in {Fold[s] : s \in DOMAIN Fold} \ NamedTokens(policy.perTick) :
                Spent(cs, {token}) <= policy.perTick["*"]
          /\ SpentUnresolved(cs) <= policy.perTick["*"]

Init == real = 0 /\ charges = {}

Charge ==
    /\ charges \subseteq charges'
    /\ charges' # charges
    /\ \A c \in charges' \ charges : c.at = real
    /\ WithinLimits(Window(charges', real))
    /\ UNCHANGED <<policy, real>>

Tick == real' > real /\ UNCHANGED <<policy, charges>>

Next == Charge \/ Tick

Spec == Init /\ [][Next]_<<policy, real, charges>>
=============================================================================
