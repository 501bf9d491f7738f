---------------------------- MODULE MCX402Gateway ----------------------------
(* Instances of X402Gateway for TLC. *)
EXTENDS X402Gateway

CONSTANTS k1, k2, alice, bob

Options(send, minConf, dispenser, deposit, secret) ==
    [send |-> send, minConf |-> minConf, dispenser |-> dispenser, deposit |-> deposit,
     signed |-> TRUE, secret |-> secret]

\* A gateway that is paid per call, with and without waiting for a block, and
\* one with a hold and a deposit scheme.
MCConfigs == {Options(TRUE, 0, FALSE, FALSE, "random"), Options(TRUE, 1, FALSE, FALSE, "random"),
              Options(FALSE, 1, TRUE, TRUE, "random")}

Pay(source, memo, amount, compact) ==
    [source |-> source, to |-> "gate", tick |-> "TOK", amount |-> amount, memo |-> memo,
     compact |-> compact]
Fund(source, amount) ==
    [source |-> source, to |-> "deposit", tick |-> "TOK", amount |-> amount, memo |-> None,
     compact |-> FALSE]

\* Alice pays by reference, Bob pays too little for the same invoice, and Alice
\* deposits the price of half a call and of a whole one.
MCPayments == {Pay(alice, k1, 2, TRUE), Pay(bob, k1, 1, FALSE), Fund(alice, 1), Fund(alice, 2)}
=============================================================================
