------------------------------ MODULE MCProtocol ------------------------------
EXTENDS BatchBuilder, Preflight

VARIABLE part

One(m) == [f \in DOMAIN m |-> <<m[f]>>]

Req(a, pin, m) == [action |-> a, pinned |-> pin, fields |-> One(m), legs |-> <<>>]
Legged(a, pin, m, ls) == [action |-> a, pinned |-> pin, fields |-> One(m),
                          legs |-> [i \in DOMAIN ls |-> One(ls[i])]]

\* One request of every form of every action
MCForms ==
    <<Req("ADDRESS", NoVersion, [FEE_PREFERENCE |-> "1"]),
      Req("ADDRESS", NoVersion, [CONTROLLER |-> "1", ACTION_CLASS |-> "all"]),
      Req("AIRDROP", NoVersion, [TICK |-> "x", AMOUNT |-> "1", LIST_ACTION_INDEX |-> "1"]),
      Legged("AIRDROP", NoVersion, [LIST_ACTION_INDEX |-> "1"],
             <<[TICK |-> "x", AMOUNT |-> "1"], [TICK |-> "x", AMOUNT |-> "2"]>>),
      Req("BET", NoVersion, [LABEL |-> "x", OUTCOMES |-> "a,b", TICK |-> "x", DEADLINE |-> "1"]),
      Req("BET", NoVersion, [FEED_ACTION_INDEX |-> "1", OUTCOME |-> "1", AMOUNT |-> "1"]),
      Req("BET", 4, [FEED_ACTION_INDEX |-> "1", ALLOW_LIST |-> "1"]),
      Req("BROADCAST", NoVersion, [MESSAGE |-> "x", VALUE |-> "1"]),
      Req("COLLECT", NoVersion, [AMOUNT |-> "1"]),
      Req("COINPAY", NoVersion, [ORDER_MATCH_ACTION_INDEX |-> "1"]),
      Req("CALLBACK", NoVersion, [TICK |-> "x"]),
      Req("DELEGATE", NoVersion, [NEW_SIGNING_PUBKEY |-> "hex"]),
      Req("DELEGATE", NoVersion, [SIGNING_PUBKEY |-> "hex", TARGET_CONTRACT_INDEX |-> "1", TICK |-> "x"]),
      Req("DEPLOY", NoVersion, [CODE_ENCODING |-> "x", GAS_LIMIT |-> "1000"]),
      Req("DEPLOY", 1, [CODE_ENCODING |-> "x", GAS_LIMIT |-> "1000", COOLDOWN_BLOCKS |-> "1"]),
      Req("DEPLOY", 4, [CODE_HASH |-> "hex", CHUNK_INDEX |-> "0", TOTAL_CHUNKS |-> "2", CODE_PART |-> "x"]),
      Req("DEPOSIT", NoVersion, [CONTRACT_ACTION_INDEX |-> "1", TICK |-> "x", QUANTITY |-> "1"]),
      Legged("DESTROY", NoVersion, [MEMO |-> "x"], <<[TICK |-> "x", AMOUNT |-> "1"], [TICK |-> "^1", AMOUNT |-> "2"]>>),
      Req("DISPENSER", NoVersion, [GIVE_TICK |-> "x", GIVE_AMOUNT |-> "1", GET_AMOUNT |-> "1"]),
      Req("DISPENSER", NoVersion, [DISPENSER_ACTION_INDEX |-> "1"]),
      Req("DIVIDEND", NoVersion, [TICK |-> "x", DIVIDEND_TICK |-> "x", AMOUNT |-> "1"]),
      [Req("EXECUTE", NoVersion, [CONTRACT_ACTION_INDEX |-> "1", METHOD |-> "x"])
          EXCEPT !.fields = @ @@ ("PARAMS" :> <<"x", "1">>)],
      Req("FILE", NoVersion, [TYPE |-> "x", GATE_TICKER |-> "x"]),
      Req("ISSUE", NoVersion, [TICK |-> "x", MAX_SUPPLY |-> "1"]),
      Req("ISSUE", NoVersion, [TICK |-> "^1", BRIDGE_CHAINS |-> "BTC"]),
      Req("LINK", NoVersion, [COIN1 |-> "BTC", COIN1_ACTION_INDEX |-> "1", COIN2 |-> "BTC", COIN2_ACTION_INDEX |-> "1"]),
      [Req("LIST", NoVersion, [TYPE |-> "1"]) EXCEPT !.fields = @ @@ ("ITEM" :> <<"x">>)],
      [Req("LIST", 4, [TYPE |-> "1", NAME |-> "x"]) EXCEPT !.fields = @ @@ ("ITEM" :> <<"x">>)],
      Req("LIST", 3, [LIST_ACTION_INDEX |-> "1", DESTINATION |-> "addr"]),
      Req("MESSAGE", 3, [COIN |-> "BTC", DESTINATION |-> "addr", PLAINTEXT_MESSAGE |-> "x"]),
      Req("MINT", NoVersion, [TICK |-> "x", AMOUNT |-> "1"]),
      Req("ORDER", NoVersion, [GIVE_TICK |-> "x", GIVE_AMOUNT |-> "1", GET_AMOUNT |-> "1"]),
      Req("PRICE", NoVersion, [COIN |-> "BTC", TICK |-> "x", FIAT |-> "USD", VALUE |-> "1"]),
      Req("SEND", NoVersion, [TICK |-> "x", AMOUNT |-> "1", DESTINATION |-> "addr"]),
      Legged("SEND", NoVersion, [TICK |-> "x"],
             <<[AMOUNT |-> "1", DESTINATION |-> "addr"], [AMOUNT |-> "2", DESTINATION |-> "hex"]>>),
      Legged("SEND", 0, [TICK |-> "x"], <<[AMOUNT |-> "1", DESTINATION |-> "addr"]>>),
      Legged("DESTROY", 0, [TICK |-> "x"], <<[AMOUNT |-> "1", DESTINATION |-> "addr"]>>),
      Req("SLEEP", NoVersion, [RESUME_BLOCK |-> "1"]),
      Req("STAKE", 1, [AMOUNT |-> "1", SIGNING_PUBKEY |-> "hex"]),
      Req("SWAP", NoVersion, [GIVE_TICK |-> "x", GIVE_AMOUNT |-> "1", GET_TICK |-> "^1", GET_AMOUNT |-> "1"]),
      Req("SWEEP", NoVersion, [DESTINATION |-> "addr"]),
      Req("UNSTAKE", NoVersion, [SIGNING_PUBKEY |-> "hex"]),
      Req("WITHDRAW", NoVersion, [CONTRACT_ACTION_INDEX |-> "1", TICK |-> "x", QUANTITY |-> "1"]),
      Req("XBRIDGE", NoVersion, [TICK |-> "x", DEST_COIN |-> "BTC", DEST_ADDRESS |-> "addr", AMOUNT |-> "1"]),
      Req("VOTE", NoVersion, [TICK |-> "x", END_BLOCK |-> "1", OPTIONS |-> "a,b"]),
      Req("VOTE", NoVersion, [POLL_REF |-> "1", BALLOT |-> "x"])>>

MCRequests == Range(MCForms)

Names == UNION {ActionFields(a) : a \in Actions}

MCFieldWords ==
    [f \in Names |->
        CASE f \in TickFields \cup {"GATE_TICKER"} -> {"x", "^1", "^x", "x|y", "BTC", "BTC.x"}
          [] f \in NUMBER_FIELDS \cup {"MIN_AMOUNT", "END_BLOCK", "DEADLINE"} -> {"0", "1", " 1", "1e3", "fine", "x"}
          [] f \in AddressRefFields \cup {"DEST_ADDRESS", "ORIGIN_ADDRESS"} -> {"addr", "hex", "^1", "x"}
          [] f \in RestBases -> {"x", "", "x;y", "lone"}
          [] f \in {"MEMO", "NAME", "DESCRIPTION", "TITLE", "MESSAGE"} -> {"x", " x", "x|y", "lone", "long", ""}
          [] f \in {"PLAINTEXT_MESSAGE", "CODE_ENCODING", "QUESTION"} -> {"x", "big", "giant", "x;y"}
          [] f \in {"OUTCOMES", "OPTIONS"} -> {"a,b", "x", "x|y"}
          [] f = "DETAILS" -> {"json", "jsonab", "deep"}
          [] OTHER -> {"1", "3", "BTC", "hex"}]

MCNetworks == {[coin |-> "BTC", networked |-> TRUE, canonical |-> TRUE, segwit |-> TRUE],
               [coin |-> "DOGE", networked |-> TRUE, canonical |-> FALSE, segwit |-> FALSE]}
MCEncodings == {"none", "AUTO", "OP_RETURN", "MULTISIGN_UNKEYED"}

-----------------------------------------------------------------------------
Entry(a, m) == [action |-> a, fields |-> One(m), legs |-> <<>>]

MCEntries ==
    {Entry("MINT", [TICK |-> "x", AMOUNT |-> "1"]), Entry("MINT", [TICK |-> "X", AMOUNT |-> "1"]),
     Entry("MINT", [TICK |-> "^1", AMOUNT |-> "1"]),
     Entry("ISSUE", [TICK |-> "x", MAX_SUPPLY |-> "1"]),
     Entry("ISSUE", [TICK |-> "x.y", CONTROLLER |-> "1", ACTION_CLASS |-> "all"]),
     Entry("ISSUE", [TICK |-> "x", CONTROLLER |-> "1", ACTION_CLASS |-> "all"]),
     Entry("DEPLOY", [CODE_ENCODING |-> "x", GAS_LIMIT |-> "1"]),
     Entry("FILE", [TYPE |-> "x", NAME |-> "x;y"]),
     Entry("SEND", [TICK |-> "x", AMOUNT |-> "1", DESTINATION |-> "addr", MEMO |-> "x;y"]),
     [action |-> "AIRDROP", fields |-> [LIST_ACTION_INDEX |-> <<"1">>],
      legs |-> <<One([TICK |-> "x", AMOUNT |-> "1"]), One([TICK |-> "X", AMOUNT |-> "2"])>>],
     [action |-> "AIRDROP", fields |-> <<>>,
      legs |-> [i \in 1..2 |-> One([TICK |-> "x", AMOUNT |-> "1", LIST_ACTION_INDEX |-> "1", MEMO |-> "x"])]],
     [action |-> "EXECUTE", legs |-> <<>>,
      fields |-> One([CONTRACT_ACTION_INDEX |-> "1", METHOD |-> "x"]) @@ ("PARAMS" :> <<"1", "x">>)]}

MCRawCommands ==
    {<<"MINT", "0", "x", "1">>, <<"MINT", "X", "1">>, <<"MINT", "0", "^1", "1">>,
     <<"ISSUE", "x", "1">>, <<"ISSUE", "0", "x.y", "1">>, <<"BATCH", "0", "x">>, <<"BATCH", "x">>, <<"">>,
     <<"DROP", "0", "x", "1", "1">>, <<"AIRDROP", "3", "x", "1", "1", " x", "x", "1", "1", "x">>,
     <<"AIRDROP", "2", "x", "1", "1", "x", "1", "1">>, <<"AIRDROP", "2", "x", "1", "1", "x">>,
     <<"DEPLOY", "4", "hex", "0", "2", "x">>, <<"TRANSFER", "x", "1", "addr">>,
     <<"EXECUTE", "0", "1", "x">>, <<"MINT", "0", "x", "0">>}

MCWeights == "AIRDROP" :> 2 @@ "ISSUE" :> 2 @@ "DIVIDEND" :> 2 @@ "DEPLOY" :> 3 @@ "EXECUTE" :> 3
MCActivations == {0, 5}
MCCaretOf == "x" :> "^1" @@ "X" :> "^1" @@ "x.y" :> "^2"

-----------------------------------------------------------------------------
(* A pre-flight asks of these, on this chain.                              *)

Flat(a, v, m) == Serialize(a, v, One(m), <<>>)
Multi(a, v, m, ls) == Serialize(a, v, One(m), [i \in DOMAIN ls |-> One(ls[i])])

Send(tick, amount) == Flat("SEND", 0, [TICK |-> tick, AMOUNT |-> amount, DESTINATION |-> "hex"])
ToSelf(tick, amount) == Flat("SEND", 0, [TICK |-> tick, AMOUNT |-> amount, DESTINATION |-> "addr"])
Mint(tick, amount) == Flat("MINT", 0, [TICK |-> tick, AMOUNT |-> amount])
Order(m) == Flat("ORDER", 0, m)
Dispenser(m) == Flat("DISPENSER", 0, m)
Dispense(idx) == <<"DISPENSE", "0", idx>>

-----------------------------------------------------------------------------
(* The chain.  x: capped, mintable, ours; x.y: locked, another's, without  *)
(* decimals in its row.                                                    *)

Row0 == [ref |-> "^1", decimals |-> <<1>>, owner |-> "addr", locked |-> FALSE,
         maxMint |-> 1000, maxSupply |-> 3000, supply |-> 2000]
Dispenser0 == [state |-> "open", giveTick |-> "x", owner |-> "addr", getAddress |-> "hex", give |-> 1000,
               remaining |-> <<2000>>, ownership |-> FALSE, priced |-> FALSE, get |-> <<1000>>]

Rich ==
    [tokens |-> "x" :> Row0 @@ "XCHAIN" :> [Row0 EXCEPT !.ref = "^9", !.maxMint = 0, !.maxSupply = 0, !.owner = "gas"]
                @@ "x.y" :> [Row0 EXCEPT !.ref = "^2", !.decimals = <<>>, !.owner = "hex", !.locked = TRUE, !.maxMint = 0,
                                         !.maxSupply = 0],
     balances |-> "addr" :> ("x" :> 2000 @@ "XCHAIN" :> 1000 @@ "x.y" :> 1000) @@ "hex" :> ("x" :> 1000)
                  @@ NoAddress :> <<>>,
     native |-> [addr |-> 1000, hex |-> 0],
     dispensers |-> "1" :> Dispenser0 @@ "2" :> [Dispenser0 EXCEPT !.state = "cancelling"]
                    @@ "3" :> [Dispenser0 EXCEPT !.remaining = <<500>>, !.priced = TRUE]
                    @@ "0" :> [Dispenser0 EXCEPT !.state = "", !.remaining = <<>>, !.giveTick = ""],
     lists |-> "1" :> [valid |-> TRUE] @@ "2" :> [valid |-> FALSE]]

Poor == [Rich EXCEPT !.balances = [@ EXCEPT !["addr"] = "x" :> 1000 @@ "XCHAIN" :> 100],
                     !.dispensers["1"].state = "closed", !.tokens["x"].supply = 3000]

MCViews == {Rich, Poor}

MCSchedule == [ISSUE |-> 200, ISSUE_SUBTOKEN |-> 100, PER_DAY |-> 100, EXECUTE |-> 100, FREE_DAYS |-> 1]

MCDowns == {{}, {"TOKEN_LOOKUP", "STATUS_LOOKUP"},
            {"BALANCE_LOOKUP", "NATIVE_BALANCE_LOOKUP", "LIST_LOOKUP", "DISPENSER_LOOKUP"}}

-----------------------------------------------------------------------------
(* One caller asks of every action that has checks, and of BATCHes.        *)

Singles ==
    {Send("x", "2"), Send("x", "3"), Send("X", "1"), Send("^1", "2"), Send("^01", "1"), Send("hex", "1"),
     Send("x", "0.123"), Send("x", "fine"), Send("BTC", "1"), Send("x", "0"), Send("x.y", "0.5"),
     Multi("SEND", 1, [TICK |-> "x"], <<[AMOUNT |-> "1", DESTINATION |-> "hex"], [AMOUNT |-> "2", DESTINATION |-> "hex"]>>),
     Multi("DESTROY", 1, [MEMO |-> "x"], <<[TICK |-> "x", AMOUNT |-> "1"], [TICK |-> "XCHAIN", AMOUNT |-> "1"]>>),
     Flat("DESTROY", 0, [TICK |-> "BTC.x", AMOUNT |-> "1"]),
     Mint("x", "1"), Mint("x", "2"), Mint("x.y", "1"), Mint("hex", "1"),
     Flat("ISSUE", 0, [TICK |-> "x", MAX_SUPPLY |-> "1"]), Flat("ISSUE", 0, [TICK |-> "x.y", MAX_SUPPLY |-> "3"]),
     Flat("ISSUE", 0, [TICK |-> "x", MAX_SUPPLY |-> "3", MINT_SUPPLY |-> "2"]),
     Flat("ISSUE", 0, [TICK |-> "hex", MAX_SUPPLY |-> "1", MINT_SUPPLY |-> "2", DECIMALS |-> "0"]),
     Flat("ISSUE", 0, [TICK |-> "XCHAIN"]), Flat("ISSUE", 0, [TICK |-> "ETH"]), Flat("ISSUE", 0, [TICK |-> "^1"]),
     Flat("ISSUE", 0, [TICK |-> "BTC:x", DECIMALS |-> "0x1"]), Flat("ISSUE", 0, [TICK |-> "^2", CALLBACK_BLOCK |-> "0x1"]),
     Flat("ISSUE", 7, [TICK |-> "x.y", BRIDGE_CHAINS |-> "LTC", MIN_DEPTH |-> "0x1"]),
     Order([GIVE_TICK |-> "x", GIVE_AMOUNT |-> "2", GET_TICK |-> "x", GET_AMOUNT |-> "1"]),
     Order([GIVE_TICK |-> "x", GIVE_AMOUNT |-> "1", GET_COIN |-> "LTC", GET_TICK |-> "hex", GET_AMOUNT |-> "0",
            EXPIRATION |-> "7200"]),
     Order([GIVE_COIN |-> "BTC", GIVE_AMOUNT |-> "1", GET_TICK |-> "x", GET_AMOUNT |-> "fine", EXPIRATION |-> "1000"]),
     Flat("SWAP", 0, [GIVE_TICK |-> "x.y", GIVE_OWNERSHIP |-> "1", GET_TICK |-> "x", GET_AMOUNT |-> "1",
                      EXPIRATION |-> "huge"]),
     Flat("ORDER", 1, [ORDER_ACTION_INDEX |-> "0x1"]), Flat("ORDER", 2, [ORDER_ACTION_INDEX |-> "1", EXPIRATION |-> "7200"]),
     Dispenser([GIVE_TICK |-> "x", GIVE_AMOUNT |-> "1", GIVE_ESCROW |-> "3", GET_AMOUNT |-> "1", GET_COIN |-> "BTC"]),
     Dispenser([GIVE_TICK |-> "x", GIVE_AMOUNT |-> "0.123", GET_TICK |-> "x", GET_AMOUNT |-> "fine", FIAT_CODE |-> "USD",
                ORACLE_ADDRESS |-> "^1", EXPIRATION |-> "7200"]),
     Dispenser([GIVE_OWNERSHIP |-> "1", GET_AMOUNT |-> "0"]),
     Flat("DISPENSER", 1, [DISPENSER_ACTION_INDEX |-> "2"]),
     Flat("DISPENSER", 2, [DISPENSER_ACTION_INDEX |-> "1", GIVE_ESCROW |-> "2"]),
     Flat("DISPENSER", 2, [DISPENSER_ACTION_INDEX |-> "0", GIVE_ESCROW |-> "1"]),
     Flat("DISPENSER", 2, [DISPENSER_ACTION_INDEX |-> "7200"]),
     Dispense("1"), Dispense("2"), Dispense("3"), Dispense("0"), Dispense("7200"), Dispense(""),
     Flat("AIRDROP", 0, [TICK |-> "x", AMOUNT |-> "1", LIST_ACTION_INDEX |-> "1"]),
     Multi("AIRDROP", 1, [LIST_ACTION_INDEX |-> "2"], <<[TICK |-> "x", AMOUNT |-> "fine"], [TICK |-> "x.y", AMOUNT |-> "1"]>>),
     Flat("AIRDROP", 0, [TICK |-> "x", AMOUNT |-> "1", LIST_ACTION_INDEX |-> "7200"]),
     Flat("DIVIDEND", 0, [TICK |-> "x", DIVIDEND_TICK |-> "XCHAIN", AMOUNT |-> "fine"]),
     Flat("DIVIDEND", 0, [TICK |-> "x", DIVIDEND_TICK |-> "x"]),
     Flat("STAKE", 1, [AMOUNT |-> "2", SIGNING_PUBKEY |-> "hex"]), Flat("STAKE", 1, [AMOUNT |-> "long"]),
     Flat("DEPOSIT", 0, [CONTRACT_ACTION_INDEX |-> "1", TICK |-> "x", QUANTITY |-> "long"]),
     Flat("LIST", 5, [LIST_ACTION_INDEX |-> "1", NAME |-> "x"]), Flat("MESSAGE", 3, [COIN |-> "BTC", DESTINATION |-> "^1",
                                                                           PLAINTEXT_MESSAGE |-> "x"]),
     Flat("PRICE", 1, [COIN |-> "BTC", TICK |-> "x", FIAT |-> "USD", VALUE |-> "long"]), <<"x", "1">>}

Batches ==
    {<<Send("x", "1"), Send("x", "2")>>, <<ToSelf("x", "2"), Send("x", "2")>>, <<Mint("x", "1"), Send("x", "3")>>,
     <<Flat("ISSUE", 0, [TICK |-> "hex", MINT_SUPPLY |-> "1", MAX_SUPPLY |-> "1"]), Send("XCHAIN", "1")>>,
     <<Flat("ISSUE", 0, [TICK |-> "hex", MINT_SUPPLY |-> "1", MAX_SUPPLY |-> "1", DECIMALS |-> "0"]), Send("hex", "1")>>,
     <<Mint("^1", "1"), Send("x", "3")>>,
     <<Flat("ISSUE", 0, [TICK |-> "^1", MAX_MINT |-> "3", MAX_SUPPLY |-> "1000"]), Mint("x", "2")>>,
     <<Order([GIVE_TICK |-> "x", GIVE_AMOUNT |-> "2", GET_TICK |-> "XCHAIN", GET_AMOUNT |-> "1", EXPIRATION |-> "7200"]),
       Send("x", "1")>>,
     <<Flat("ISSUE", 0, [TICK |-> "hex"]), Flat("ISSUE", 0, [TICK |-> "BTC.x"])>>,
     <<Flat("DESTROY", 0, [TICK |-> "x", AMOUNT |-> "2"]), Send("x", "1"), Mint("x", "1")>>,
     <<Flat("EXECUTE", 0, [CONTRACT_ACTION_INDEX |-> "1", METHOD |-> "x"]), Send("x", "3")>>,
     <<Dispenser([GIVE_TICK |-> "x", GIVE_AMOUNT |-> "1", GIVE_ESCROW |-> "2", GET_AMOUNT |-> "1"]), <<"x", "1">>>>,
     <<Flat("AIRDROP", 0, [TICK |-> "x", AMOUNT |-> "1", LIST_ACTION_INDEX |-> "2"]), Send("x", "1"), Send("x", "1"),
       Send("x", "1")>>}

Btc == [coin |-> "BTC", network |-> "testnet"]
Ltc == [coin |-> "LTC", network |-> "mainnet"]
Local == [coin |-> "BTC", network |-> "regtest"]

Ask0 == [wires |-> <<>>, source |-> "addr", deltas |-> <<>>, plane |-> Btc, mode |-> "report", now |-> LATER,
         feeMode |-> "none", encoding |-> "P2TR", bypass |-> FALSE]

\* From where and how it is asked
Settings ==
    {[Ask0 EXCEPT !.mode = "enforce"], [Ask0 EXCEPT !.plane = Ltc, !.now = 0, !.encoding = "OP_RETURN"],
     [Ask0 EXCEPT !.plane = NoPlane, !.source = NoAddress], [Ask0 EXCEPT !.source = "hex", !.plane = Local, !.mode = "local"],
     [Ask0 EXCEPT !.feeMode = "native", !.plane = Local]}

Reserved(tick, amount) == <<[tick |-> tick, amount |-> amount]>>

SoloAsks == {[s EXCEPT !.wires = <<w>>] : s \in Settings, w \in Singles} \cup {[s EXCEPT !.wires = b] : s \in Settings, b \in Batches}
            \cup {[Ask0 EXCEPT !.wires = <<Send(tick, amount)>>, !.deltas = Reserved("x", 1000)] :
                      tick \in {"x", "X", "^1"}, amount \in {"1", "2"}}
            \cup {[Ask0 EXCEPT !.mode = "false", !.wires = <<Send("x", "1")>>]}

-----------------------------------------------------------------------------
(* Two windows of a wallet ask at once, with what each knows to be spent.  *)

Window(amount, deltas) == [Ask0 EXCEPT !.wires = <<Send("x", amount)>>, !.deltas = deltas]

FirstAsks == {Window("1", <<>>), [Window("1", <<>>) EXCEPT !.mode = "local"],
              [Window("1", Reserved("x", 1000)) EXCEPT !.bypass = TRUE]}
SecondAsks == {Window("1", Reserved("x", 1000)), [Window("1", <<>>) EXCEPT !.mode = "enforce"]}

MCAsks == [s |-> SoloAsks, a |-> FirstAsks, b |-> SecondAsks]

-----------------------------------------------------------------------------
Only(p, choices) == IF part = p THEN choices ELSE {CHOOSE c \in choices : TRUE}

Init ==
    /\ part \in {"action", "batch", "solo", "windows"}
    /\ PipeInit(Only("action", Requests), Only("action", Networks), Only("action", Encodings))
    /\ IF part = "batch" THEN BatchInit({"builder", "hand", "coinpay"}, Activations, {UnknownHeight} \cup Heights)
       ELSE BatchInit({"hand"}, Only("batch", Activations), {UnknownHeight})
    /\ CASE part = "solo" -> PreflightInit({"s"}) /\ moves = MaxMoves
         [] part = "windows" -> PreflightInit({"a", "b"}) /\ moves = 0 /\ view = Rich
         [] OTHER -> PreflightInit({}) /\ moves = 0 /\ view = Rich

Next ==
    /\ (part = "action" /\ PipeNext) \/ (part # "action" /\ UNCHANGED pipeVars)
    /\ (part = "batch" /\ BatchNext) \/ (part # "batch" /\ UNCHANGED batchVars)
    /\ IF part \in {"solo", "windows"} THEN PreflightNext ELSE UNCHANGED preflightVars
    /\ UNCHANGED part

Spec == Init /\ [][Next]_<<part, pipeVars, batchVars, preflightVars>>
=============================================================================
