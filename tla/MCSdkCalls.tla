----------------------------- MODULE MCSdkCalls -----------------------------
(***************************************************************************)
(* The components that serve an SDK caller, one at a time: which one is at *)
(* work is chosen at the start, and the others rest.                       *)
(***************************************************************************)
EXTENDS FeedRequests, ActionWaiter, HubConfig, ServiceCalls, ReferenceLookup, X402Buyer, Workflows,
        LightClient, TLC

CONSTANTS v1, v2, v3, alice, bob, carol

VARIABLE part

SdkParts == {"feed", "wait", "hub", "calls", "lookup", "buyer", "flows", "light"}

MCWatchKey == "a1" :> "ka" @@ "a2" :> "ka" @@ "t" :> "kt"
MCWatchTypes == "a1" :> {"ADDRESS"} @@ "a2" :> {"ADDRESS"} @@ "t" :> {"TOKEN"}
MCEntityOf == "ka" :> "alice" @@ "kt" :> "tick"

MCHubKind == 0 :> "older" @@ 1 :> "current"
MCPublicUrl == [s \in Services |-> IF s = "encoder" THEN Nothing ELSE "https"]
MCHubParams == {<<"here", "encoder">>, <<"here", "explorer">>}
MCSdkOptions == {[apiKey |-> TRUE, pinned |-> {}, allowInsecure |-> FALSE],
                 [apiKey |-> FALSE, pinned |-> {"encoder"}, allowInsecure |-> TRUE]}

MCItems == <<"Ab", "ab", "^7", "xY">>
MCFolded == [i \in {"Ab", "ab", "xY", "xy", "^7"} |->
                CASE i = "Ab" -> "ab" [] i = "xY" -> "xy" [] OTHER -> i]
MCIdOf == "Ab" :> 1 @@ "ab" :> 2 @@ "xY" :> 3 @@ "xy" :> 4

MCOffers == [tick : {"A", "B"}, amount : {0, 2}]
MCCeilings == {"A" :> 2, "A" :> 1}

\* The balance and escrow keys of two addresses on two chains, and the keys of the
\* stakes tree.
MCKeyOf(fields) ==
    CASE fields = <<"BAL", "BTC", alice>> -> <<0, 0, 0>>
      [] fields = <<"BAL", "BTC", bob>>   -> <<0, 0, 1>>
      [] fields = <<"ESC", "BTC", alice>> -> <<0, 1, 0>>
      [] fields = <<"ESC", "BTC", bob>>   -> <<0, 1, 1>>
      [] fields = <<"BAL", "LTC", alice>> -> <<1, 0, 0>>
      [] fields = <<"BAL", "LTC", bob>>   -> <<1, 0, 1>>
      [] fields = <<"ESC", "LTC", alice>> -> <<1, 1, 0>>
      [] fields = <<"ESC", "LTC", bob>>   -> <<1, 1, 1>>
      [] fields = <<"STK", v1>> -> <<0, 0, 0>>
      [] fields = <<"STK", v2>> -> <<0, 0, 1>>
      [] fields = <<"STK", v3>> -> <<0, 1, 0>>
      [] OTHER -> <<1, 1, 1>>

MCGates == [commitment |-> 1, supersede |-> 3, weighted |-> 2, burial |-> 2, escrow |-> 2, fold |-> 3]

MCSourceOf == v1 :> alice @@ v2 :> bob @@ v3 :> carol
MCWeightOf == alice :> 1 @@ bob :> 1 @@ carol :> 1
MCFaulty == {v2, v3}

Row(i, act) == [index |-> i, tx |-> i, action |-> act]

MCStates ==
    [t1 |-> [chain |-> "BTC", balances |-> alice :> 1, locked |-> <<>>, members |-> {v1},
             rows |-> [ledger |-> <<>>, actions |-> <<Row(1, "MINT")>>, contracts |-> <<>>]],
     t2 |-> [chain |-> "BTC", balances |-> alice :> 1, locked |-> alice :> 1, members |-> {v1, v2, v3},
             rows |-> [ledger |-> <<[kind |-> "credit", index |-> 1, address |-> bob, amount |-> 1]>>,
                       actions |-> <<Row(1, "SEND"), Row(2, "MINT")>>,
                       contracts |-> <<[table |-> "set", index |-> 1, value |-> 1]>>]],
     f2 |-> [chain |-> "BTC", balances |-> bob :> 1, locked |-> <<>>, members |-> {v2, v3},
             rows |-> [ledger |-> <<>>, actions |-> <<Row(1, "MINT"), Row(2, "SEND")>>,
                       contracts |-> <<>>]],
     l2 |-> [chain |-> "LTC", balances |-> bob :> 1, locked |-> bob :> 1, members |-> {},
             rows |-> [ledger |-> <<>>, actions |-> <<Row(1, "SEND")>>, contracts |-> <<>>]]]

MCTrueState == [BTC |-> 0 :> "t1" @@ 1 :> "t1" @@ 2 :> "t2" @@ 3 :> "t2", LTC |-> 2 :> "l2"]

CP(h, snap, s) == [chain |-> "BTC", height |-> h, seq |-> h, snapshot |-> snap, state |-> s,
                   super |-> Undefined, fold |-> Undefined]

MCPinned == CP(1, 1, "t1")

MCCheckpoints ==
    {CP(1, 0, "f2"), CP(1, 0, Undefined), MCPinned, CP(1, 1, "f2"), CP(2, 2, "t2"), CP(2, 2, "f2"),
     CP(2, 2, Undefined), CP(3, 3, "t2"), CP(3, 3, "f2"), [CP(2, 2, "l2") EXCEPT !.chain = "LTC"], [CP(2, 2, "t2") EXCEPT !.chain = "LTC"],
     [CP(3, 3, "f2") EXCEPT !.super = 2], [CP(3, 3, "t2") EXCEPT !.fold = "batch"]}

MCAskedHeights == {Undefined, 3}

Anchor(cp, version, claimed, real) ==
    [cp |-> cp, version |-> version, claimedHeight |-> claimed, realHeight |-> real,
     supersededBy |-> Undefined, archive |-> "batch"]

MCAnchors ==
    {Anchor(CP(1, 0, "f2"), 0, 1, 1), Anchor(CP(1, 1, "t1"), 0, 1, 4), Anchor(CP(2, 2, "t2"), 0, 2, 2),
     [Anchor(CP(2, 2, "t2"), 0, 2, 3) EXCEPT !.supersededBy = 3],
     Anchor([CP(2, 2, "l2") EXCEPT !.chain = "LTC", !.seq = 4], 0, 2, 2), Anchor(CP(3, 3, "t2"), 3, 3, 2), Anchor(CP(3, 3, "t2"), 3, 3, 3)}

-----------------------------------------------------------------------------
Only(p, choices) == IF part = p THEN choices ELSE {CHOOSE c \in choices : TRUE}

Init ==
    /\ part \in SdkParts
    /\ FeedReqInit
    /\ WaitInit(Only("wait", WaitAsks))
    /\ HubInit(Only("hub", SdkOptions))
    /\ CallInit(Only("calls", {"broadcast", "createTx", "estimateFees", "read"}),
                Only("calls", NativeOptions))
    /\ LookupInit(Only("lookup", {"tick", "address"}), Only("lookup", BOOLEAN))
    /\ BuyerInit(Only("buyer", Ceilings))
    /\ FlowInit(Only("flows", Flows))
    /\ LightInit

Rest(p, vs) == part # p /\ UNCHANGED vs

Next ==
    /\ (part = "feed" /\ FeedReqNext) \/ Rest("feed", reqVars)
    /\ (part = "wait" /\ WaitNext) \/ Rest("wait", waitVars)
    /\ (part = "hub" /\ HubNext) \/ Rest("hub", hubVars)
    /\ (part = "calls" /\ CallNext) \/ Rest("calls", callVars)
    /\ (part = "lookup" /\ LookupNext) \/ Rest("lookup", lookupVars)
    /\ (part = "buyer" /\ BuyerNext) \/ Rest("buyer", buyerVars)
    /\ (part = "flows" /\ FlowNext) \/ Rest("flows", flowVars)
    /\ (part = "light" /\ LightNext) \/ Rest("light", lightVars)
    /\ UNCHANGED part

sdkVars == <<part, reqVars, waitVars, hubVars, callVars, lookupVars, buyerVars, flowVars,
             lightVars>>

Spec == Init /\ [][Next]_sdkVars
=============================================================================
