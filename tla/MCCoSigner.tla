----------------------------- MODULE MCCoSigner -----------------------------
(* Instances of CoSigner for TLC. *)
EXTENDS CoSigner, TLC

\* Two spellings of one token, another token, and two wire-form references.
MCFold == ("tok" :> "tok") @@ ("TOK" :> "tok") @@ ("other" :> "other")
          @@ ("^1" :> "^1") @@ ("^9" :> "^9")
MCRefs == {"^1", "^9"}

Act(name, tick, amount) ==
    [name |-> name, tick |-> tick, amount |-> amount, dests |-> {"friend"}, class |-> "amount"]

Base == [actions |-> {"SEND", "MINT"}, dests |-> Unset, perAction |-> <<>>, perTick |-> <<>>,
         confirm |-> <<>>, maxActions |-> Unset, tickIds |-> ("^1" :> "tok")]

MCActionOf == ("e1" :> Act("SEND", "TOK", 2)) @@ ("e2" :> Act("MINT", "TOK", 1))

-----------------------------------------------------------------------------
(* Every gate: all small PSBTs of a few shapes, one charge, no time. *)
GatePolicies ==
    {[Base EXCEPT !.perAction = ("SEND" :> ("tok" :> 2))],
     [Base EXCEPT !.actions = {"SEND"}, !.confirm = ("*" :> 1), !.dests = {"friend"}]}

GateActs ==
    {Undefined, Act("SEND", "TOK", 2), Act("SEND", "tok", 3), Act("MINT", "^9", 1),
     [Act("MINT", "other", Undefined) EXCEPT !.class = "unbounded", !.dests = Undefined],
     [Act("SEND", "other", 1) EXCEPT !.dests = {"friend", "stranger"}]}

GateOuts ==
    LET out == {[to |-> Account, value |-> 1], [to |-> Account, value |-> 3],
                [to |-> Foreign, value |-> 1], [to |-> Payee, value |-> 1],
                [to |-> OpReturn, value |-> 0], [to |-> OpReturn, value |-> 1],
                [to |-> CommitOf("e1"), value |-> 1], [to |-> CommitOf("e1"), value |-> 3]}
    IN  {<<x>> : x \in out} \cup {<<x, y>> : x, y \in out}

GateShapes ==
    [txid : {"t1"}, prev0 : {"p0"}, ask : {{1}},
     ins : {<<Account>>, <<CommitOf("e1")>>, <<Foreign, Account>>},
     leaf0 : {Undefined, "e1"}, env : {Undefined, "e1", "foreign"},
     outs : GateOuts, carried : GateActs, inValue : {4}, sighash : {"default"}, nonces : {TRUE}]
    \cup
    [txid : {"t1"}, prev0 : {"p0"}, ask : {{}, {1}, {2}, {1, 2}},
     ins : {<<Account>>, <<Account, Account>>, <<Account, Foreign>>},
     leaf0 : {Undefined}, env : {Undefined}, outs : {<<>>, <<[to |-> Account, value |-> 3]>>,
        <<[to |-> OpReturn, value |-> 0], [to |-> Account, value |-> 2]>>},
     carried : {Act("SEND", "TOK", 2)}, inValue : {1, 3, 9}, sighash : {"default", "all"},
     nonces : BOOLEAN]

\* A carried action needs a data carrier to be carried in.
GateRequests == {r \in GateShapes : r.carried # Undefined => OutsTo(r, OpReturn) # {}}

-----------------------------------------------------------------------------
(* The window: a few requests in any order, while time passes. *)
WindowPolicies ==
    {[Base EXCEPT !.maxActions = 2],
     [Base EXCEPT !.perTick = ("tok" :> 2) @@ ("*" :> 1)]}

Plain(txid, act) ==
    [txid |-> txid, prev0 |-> "coin", ins |-> <<Account>>, ask |-> {1}, leaf0 |-> Undefined,
     env |-> Undefined, carried |-> act, inValue |-> 3, sighash |-> "default", nonces |-> TRUE,
     outs |-> <<[to |-> OpReturn, value |-> 0], [to |-> Account, value |-> 2]>>]

Commit(txid, e) ==
    [Plain(txid, Undefined) EXCEPT !.env = e,
        !.outs = <<[to |-> CommitOf(e), value |-> 1], [to |-> Account, value |-> 1]>>]

Reveal(txid, prev0, e) ==
    [Plain(txid, Undefined) EXCEPT !.env = e, !.leaf0 = e, !.prev0 = prev0,
        !.ins = <<CommitOf(e)>>, !.outs = <<[to |-> Account, value |-> 2]>>]

WindowRequests ==
    {Plain("p1", Act("SEND", "^1", 1)), Plain("p2", Act("MINT", Undefined, 1)),
     Commit("c1", "e1"), Reveal("r1", "c1", "e1")}

\* Host clocks that step back, and clocks that never step.
Backward == {-1}
NoSteps == {}
=============================================================================
