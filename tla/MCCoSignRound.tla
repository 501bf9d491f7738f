---------------------------- MODULE MCCoSignRound ----------------------------
(* Instance of CoSignRound for TLC. *)
EXTENDS CoSignRound, TLC

Tenant(id, token, store) == [id |-> id, token |-> token, store |-> store, capped |-> TRUE]

Hosted(tenants) ==
    [hosted |-> TRUE, tenants |-> tenants, allowUnauthenticated |-> FALSE, loopback |-> FALSE, tls |-> TRUE]

\* Two tenants, the ways to misconfigure them, and a sidecar with or without a
\* token.
MCEndpoints ==
    {Hosted(<<Tenant("a", "tokA", "s1"), Tenant("b", "tokB", "s2")>>),
     Hosted(<<Tenant("a", "tokA", "s1"), Tenant("b", "tokB", "s1")>>),
     Hosted(<<Tenant("a", "tokA", "s1"), Tenant("b", "tokA", "s2")>>),
     [Hosted(<<Tenant("a", "tokA", "s1")>>) EXCEPT !.tls = FALSE],
     [Hosted(<<Tenant("a", "tokA", "s1")>>) EXCEPT !.hosted = FALSE],
     [Hosted(<<Tenant("a", Undefined, "s1")>>) EXCEPT !.hosted = FALSE, !.allowUnauthenticated = TRUE],
     [Hosted(<<Tenant("a", Undefined, "s1")>>) EXCEPT !.hosted = FALSE]}

Whole == [method |-> "signer", psbt |-> "p", inputs |-> 2, asks |-> {1, 2}, env |-> "none",
          token |-> "tokA", version |-> 1, body |-> "ok", fee |-> 1, vsize |-> 1]

MCPlans ==
    {Whole, [Whole EXCEPT !.fee = 3],
     [Whole EXCEPT !.method = "sign", !.asks = {1}, !.inputs = 1, !.env = "reveal"],
     [Whole EXCEPT !.method = "signAll", !.asks = {2}, !.version = Undefined],
     [Whole EXCEPT !.env = "unrelated"], [Whole EXCEPT !.token = "none", !.body = "large"],
     [Whole EXCEPT !.token = "none"], [Whole EXCEPT !.body = "malformed"]}

Sig(i, psbt, path, nonce) ==
    [index |-> i, msg |-> [psbt |-> psbt, index |-> i, path |-> path], nonce |-> nonce]

MCWrongSigs ==
    {<<>>, <<Sig(1, "p", "key", <<"wrong", 1>>)>>, <<Sig(1, "q", "key", <<"wrong", 1>>)>>,
     <<Sig(1, "p", "key", <<"wrong", 1>>), Sig(1, "p", "key", <<"wrong", 2>>)>>,
     <<Sig(1, "p", "leaf", <<"wrong", 1>>), Sig(3, "p", "key", <<"wrong", 1>>)>>}

MCRecoveries ==
    {[leaf |-> l, keys |-> k, in |-> 4, out |-> o, vsize |-> 2, acceptHighFee |-> h] :
        l \in {"agentRecovery", "other"}, k \in {{"agent", "recovery"}, {"agent", "daemon"}},
        o \in {0, 3, 5}, h \in BOOLEAN}

\* Three agents at once, one of them another tenant's; one agent with each
\* plan; nonces under session ids; recovery spends.
MCWorkloads ==
    LET Load(plans, wrong, sids, recoveries) ==
            [plans |-> plans, wrong |-> wrong, sids |-> sids, recoveries |-> recoveries]
        nobody == [c \in Calls |-> Undefined]
        one == CHOOSE c \in Calls : TRUE
        from(B) == [c \in Calls |-> IF c \in B THEN [Whole EXCEPT !.token = "tokB"] ELSE Whole]
    IN  {Load(from(B), {}, {}, {}) : B \in {{}, {one}}}
        \cup {Load([nobody EXCEPT ![one] = p], MCWrongSigs, {"x"}, {}) : p \in MCPlans}
        \cup {Load(nobody, {}, {"x", "y"}, MCRecoveries)}
=============================================================================
