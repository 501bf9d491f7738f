----------------------------- MODULE MCSpending -----------------------------
(***************************************************************************)
(* What spends an account's coins for a caller: the agent session, which   *)
(* meters the submits, and the wallet session, which carries them out.     *)
(* Which one is at work is chosen at the start; the other rests, since     *)
(* each sees of the other only the outcome of a call.                      *)
(***************************************************************************)
EXTENDS AgentSession, WalletSubmit, TLC

CONSTANTS k1, c1

VARIABLE part

MCFold == ("tok" :> "tok") @@ ("TOK" :> "tok") @@ ("other" :> "other")
MCRefs == {}

Act(tick, amount) ==
    [name |-> "SEND", tick |-> tick, amount |-> amount, dests |-> {}, class |-> "amount"]

MCActs == {Act("tok", 1), Act("TOK", 2)}

Base == [actions |-> {"SEND"}, dests |-> Unset, perAction |-> <<>>, perTick |-> <<>>,
         confirm |-> ("*" :> 1), maxActions |-> Unset, tickIds |-> <<>>]

Windowed == {[Base EXCEPT !.perTick = ("tok" :> 3)], [Base EXCEPT !.maxActions = 2]}
AllPolicies == Windowed \cup {Base}

spendVars == <<part, vars, walletVars>>

SpendInit ==
    /\ part \in {"agent", "wallet"}
    /\ Init /\ (part = "wallet" => policy = Base)
    /\ WalletInit

AgentWorks == part = "agent" /\ UNCHANGED <<part, walletVars>>
WalletWorks == part = "wallet" /\ UNCHANGED <<part, vars>>

SpendNext ==
    \/ AgentWorks /\ Next
    \/ WalletWorks /\ WalletNext

\* The event loop runs every step of a submit: each await settles, by an
\* answer, an error or a timeout.
FairSpend ==
    /\ SpendInit /\ [][SpendNext]_spendVars
    /\ WF_walletVars(part = "wallet" /\ Step)
    /\ WF_walletVars(part = "wallet" /\ HydrateEnd)

\* A failed submit does not block the queue (wallet_session.js, submit).
QueueDrains == part = "wallet" => <>(cur = WalletSubmits + 1)
=============================================================================
