--------------------------- MODULE ActionValidator ---------------------------
(***************************************************************************)
(* The rules of protocol/validator/ that tie the fields of an action       *)
(* together, and Validator.validate over an action: shape of the legs,     *)
(* required fields, flat fields, the fields of every leg against the       *)
(* merged map, and the action's own rules.                                 *)
(***************************************************************************)
EXTENDS ActionRules

First(fields, f) == Word(Val(fields, f))
NumberOf(fields, f) == IF IsNumeric(First(fields, f)) THEN Num(First(fields, f)) ELSE 0
Is(fields, f, n) == IsNumeric(First(fields, f)) /\ Num(First(fields, f)) = n * 1000

-----------------------------------------------------------------------------
(* market_and_contract.js                                                  *)

MAX_DEPLOY_CHUNKS == 16

ValidateDeployCarrier(fields) ==
    LET total == NumberOf(fields, "TOTAL_CHUNKS") IN
    Missing(\E f \in {"CODE_HASH", "CHUNK_INDEX", "TOTAL_CHUNKS", "CODE_PART"} : ~Has(fields, f))
    \cup Err("DEPLOY_CHUNK_CONSTRAINT",
             \/ /\ Has(fields, "TOTAL_CHUNKS") /\ IsNumeric(First(fields, "TOTAL_CHUNKS"))
                /\ total < 1000 \/ total > MAX_DEPLOY_CHUNKS * 1000
             \/ /\ \A f \in {"CHUNK_INDEX", "TOTAL_CHUNKS"} :
                       Has(fields, f) /\ IsNumeric(First(fields, f))
                /\ NumberOf(fields, "CHUNK_INDEX") >= total)

ValidateDeploy(fields, version) ==
    LET inline == Has(fields, "CODE_ENCODING")
        hash == Has(fields, "CODE_HASH")
    IN IF version = 4 THEN ValidateDeployCarrier(fields)
       ELSE Missing(~Has(fields, "GAS_LIMIT") \/ (~inline /\ ~hash))
            \cup Err("DEPLOY_CONSTRAINT", inline /\ hash)
            \cup Err("DEPLOY_CONSTRAINT", Has(fields, "SLASH_DESTINATION") /\ ~Has(fields, "COOLDOWN_BLOCKS"))

\* marketCoinErrors and the amounts an ownership leg must leave out
MarketRules(fields, giveOwn, getOwn, required) ==
    Missing(\E f \in {"GIVE_COIN", "GET_COIN"} \cup required : ~Has(fields, f))
    \cup Invalid(\/ giveOwn /\ Has(fields, "GIVE_AMOUNT")
                 \/ getOwn /\ Has(fields, "GET_AMOUNT"))

GivesOwnership(fields) == Is(fields, "GIVE_OWNERSHIP", 1)
GetsOwnership(fields) == Is(fields, "GET_OWNERSHIP", 1)

ValidateDispenser(fields) ==
    LET own == GivesOwnership(fields) IN
    IF Has(fields, "DISPENSER_ACTION_INDEX") THEN {}
    ELSE MarketRules(fields, own, FALSE,
                     {"GIVE_TICK", "GET_AMOUNT"} \cup (IF own THEN {} ELSE {"GIVE_AMOUNT"}))
         \cup Invalid(own /\ Has(fields, "GIVE_ESCROW"))
         \cup Missing(~Has(fields, "GET_TICK") /\ ~Has(fields, "GET_COIN"))

ValidateOrder(fields) ==
    LET give == GivesOwnership(fields)
        get == GetsOwnership(fields)
    IN IF Has(fields, "ORDER_ACTION_INDEX") THEN {}
       ELSE MarketRules(fields, give, get,
                        (IF give THEN {"GIVE_TICK"} ELSE {"GIVE_AMOUNT"})
                        \cup (IF get THEN {"GET_TICK"} ELSE {"GET_AMOUNT"}))
            \cup Missing(~Has(fields, "GIVE_TICK") /\ ~Has(fields, "GET_TICK"))

ValidateSwap(fields) ==
    LET give == GivesOwnership(fields)
        get == GetsOwnership(fields)
    IN IF Has(fields, "SWAP_ACTION_INDEX") THEN {}
       ELSE MarketRules(fields, give, get,
                        {"GIVE_TICK", "GET_TICK"} \cup (IF give THEN {} ELSE {"GIVE_AMOUNT"})
                        \cup (IF get THEN {} ELSE {"GET_AMOUNT"}))

-----------------------------------------------------------------------------
(* LIST: field_rules_extended.js (version fields), market_and_contract.js  *)

PositiveIndex(w) == IsDigits(w) /\ w # "0"
RejectsListFields(fields, names) == Invalid(\E f \in names : Has(fields, f))
ListIndexRules(fields) ==
    IF ~Has(fields, "LIST_ACTION_INDEX") THEN Missing(TRUE)
    ELSE Invalid(~PositiveIndex(First(fields, "LIST_ACTION_INDEX")))

\* A null version that names or describes the list is a create (4) or an edit (5)
ListVersion(fields, version) ==
    IF version = NoVersion /\ (Has(fields, "NAME") \/ Has(fields, "DESCRIPTION"))
    THEN IF Has(fields, "LIST_ACTION_INDEX") THEN 5 ELSE 4
    ELSE version

\* validateListAddress of a networked SDK; an SDK without one judges by length
ListAddressRules(w, networked) ==
    Err("INVALID_ADDRESS_ID", IsCaret(w) /\ ~CaretNumeric(w))
    \cup Invalid(~IsCaret(w) /\ IF networked THEN ~IsListAddress(w) ELSE ~IsCryptoAddress(w))

ListVersionRules(fields, version, networked) ==
    LET to == First(fields, "DESTINATION") IN
    Invalid(Has(fields, "DESTINATION") /\ version # 3)
    \cup CASE version = 2 -> ListIndexRules(fields) \cup RejectsListFields(fields, {"EDIT", "TYPE", "ITEM"})
           [] version = 4 -> RejectsListFields(fields, {"EDIT", "LIST_ACTION_INDEX", "DESTINATION"})
           [] version = 5 -> ListIndexRules(fields)
                             \cup RejectsListFields(fields, {"EDIT", "TYPE", "DESTINATION", "ITEM"})
                             \cup Invalid(~Has(fields, "NAME") /\ ~Has(fields, "DESCRIPTION"))
           [] version = 3 -> Missing(~Has(fields, "LIST_ACTION_INDEX") \/ ~Has(fields, "DESTINATION"))
                             \cup (IF Has(fields, "DESTINATION") THEN ListAddressRules(to, networked) ELSE {})
                             \cup RejectsListFields(fields, {"ITEM"})
           [] OTHER -> {}

ListUnionRules(fields) ==
    LET items == Val(fields, "ITEM")
    IN Missing(items = <<>>)
       \cup Invalid(\/ \E w \in Range(items) : ~PositiveIndex(w)
                    \/ Cardinality(Range(items)) < Len(items))

ValidateList(fields, pinned, networked) ==
    LET version == ListVersion(fields, pinned)
        isEdit == Has(fields, "LIST_ACTION_INDEX") \/ Has(fields, "EDIT")
        items == {w \in Range(Val(fields, "ITEM")) : w # ""}
    IN ListVersionRules(fields, version, networked)
       \cup (IF version \in {2, 3, 5} THEN {}
             ELSE Missing(~Has(fields, "ITEM") /\ ~Is(fields, "TYPE", 3))
                  \cup Missing(~isEdit /\ ~Has(fields, "TYPE"))
                  \cup (IF ~isEdit /\ Is(fields, "TYPE", 2)
                        THEN UNION {ListAddressRules(w, networked) : w \in items} ELSE {})
                  \cup (IF ~isEdit /\ Is(fields, "TYPE", 3) THEN ListUnionRules(fields) ELSE {}))

-----------------------------------------------------------------------------
(* VOTE and DELEGATE: market_and_contract.js, consensus_action_rules.js    *)

ValidateVoteThresholds(fields) ==
    LET Bad(f, P(_)) == Has(fields, f) /\ ~P(First(fields, f)) IN
    Invalid(\/ \E f \in {"QUORUM", "DECIDE_THRESHOLD"} :
                   Bad(f, LAMBDA w : IsNumeric(w) /\ Num(w) \in 1..1000)
            \/ Bad("MIN_VOTERS", LAMBDA w : IsInteger(w) /\ Num(w) >= 0)
            \/ Bad("MIN_VOTE_BALANCE", LAMBDA w : IsNumeric(w) /\ Num(w) >= 0)
            \/ Length(First(fields, "QUESTION")) > 1048576)

ValidateVoteCallback(fields) ==
    LET method == First(fields, "CALLBACK_METHOD") IN
    Invalid(IF Has(fields, "CALLBACK_CONTRACT")
            THEN \/ method = "" \/ Length(method) > 64
                 \/ Has(fields, "CALLBACK_ON") /\ First(fields, "CALLBACK_ON") # "pass"
            ELSE IsPositive(First(fields, "GAS_ESCROW")))

Options(w) == IF w = "a,b" THEN 2 ELSE IF w = "" THEN 0 ELSE 1

ValidateVoteCreate(fields) ==
    LET options == Options(First(fields, "OPTIONS"))
        weight == First(fields, "WEIGHT_MODE")
    IN Invalid(\/ Has(fields, "END_BLOCK") /\ ~IsNumeric(First(fields, "END_BLOCK"))
               \/ Has(fields, "OPTIONS") /\ options < 2
               \/ options >= 2 /\ Has(fields, "MAX_SELECTIONS")
                  /\ ~(IsInteger(First(fields, "MAX_SELECTIONS"))
                       /\ Num(First(fields, "MAX_SELECTIONS")) \in 1000..(options * 1000))
               \/ Has(fields, "TALLY_MODE") /\ First(fields, "TALLY_MODE") # "split"
               \/ Has(fields, "WEIGHT_MODE") /\ weight \notin {"flat", "quadratic"}
               \/ weight = "quadratic" /\ ~IsPositive(First(fields, "MIN_VOTE_BALANCE")))
       \cup ValidateVoteThresholds(fields) \cup ValidateVoteCallback(fields)

\* Without a VERSION the rules follow the version the selector would send
SentVersion(a, fields, pinned, legs) ==
    IF pinned # NoVersion THEN pinned ELSE AutoSelect(a, fields, legs)

ValidateVote(fields, version) ==
    LET Needs(names) == Missing(\E f \in names : ~Has(fields, f))
    IN CASE version = 0 -> Needs({"TICK", "END_BLOCK", "OPTIONS"}) \cup ValidateVoteCreate(fields)
         [] version = 1 -> Needs({"POLL_REF", "BALLOT"})
         [] version = 2 -> {"VOTE_CONSTRAINT"}
         [] version = 3 -> Needs({"TICK"})
         [] OTHER -> {}

ValidateDelegate(fields, pinned) ==
    LET targeted == Has(fields, "TARGET_CONTRACT_INDEX") \/ Has(fields, "TICK")
        revoke == Has(fields, "SIGNING_PUBKEY") /\ ~Has(fields, "NEW_SIGNING_PUBKEY")
        version == IF pinned # NoVersion THEN pinned
                   ELSE (IF revoke THEN 2 ELSE 0) + (IF targeted THEN 1 ELSE 0)
    IN Missing(\E f \in {IF version \in {0, 1} THEN "NEW_SIGNING_PUBKEY" ELSE "SIGNING_PUBKEY"}
                        \cup (IF version \in {1, 3} THEN {"TARGET_CONTRACT_INDEX", "TICK"} ELSE {}) :
                   version \in 0..3 /\ ~Has(fields, f))

-----------------------------------------------------------------------------
(* BET: bet_rules.js, bet_details.js                                       *)

Outcomes(w) == CASE w = "a,b" -> <<"a", "b">> [] w = PipedWord -> <<PipedWord>> [] OTHER -> <<w>>

\* DETAILS: strict base64 of a shallow JSON object whose outcomes repeat OUTCOMES
ValidateBetDetails(w, outcomes) ==
    Invalid(\/ w \notin {"json", "jsonab", "deep"}
            \/ w = "deep"
            \/ w = "jsonab" /\ outcomes # "" /\ Outcomes(outcomes) # <<"a", "b">>)

ValidateBetLabels(fields) ==
    LET labels == Outcomes(First(fields, "OUTCOMES")) IN
    Invalid(\/ Length(First(fields, "LABEL")) > 250
            \/ Has(fields, "OUTCOMES") /\ (Len(labels) \notin 2..16 \/ Cardinality(Range(labels)) < Len(labels)))

ValidateBetTerms(fields) ==
    LET Bad(f, P(_)) == Has(fields, f) /\ ~P(First(fields, f)) IN
    Invalid(\/ Bad("FEE", LAMBDA w : IsPlainDecimal(Trim(w)) /\ FractionDigits(w) <= 2 /\ Num(w) <= 10000)
            \/ Bad("DEADLINE", LAMBDA w : IsInteger(w) /\ Num(w) > 0)
            \/ Bad("REFUND_WINDOW", LAMBDA w : IsInteger(w) /\ Num(w) \in 3600000..1999999999)
            \/ Bad("MIN_AMOUNT", IsPositive))

ValidateBetPolicy(fields) ==
    LET allow == First(fields, "ALLOW_LIST")
        block == First(fields, "BLOCK_LIST")
    IN Invalid(/\ allow # "" /\ block # "" /\ IsNumeric(allow) /\ IsNumeric(block)
               /\ Num(allow) = Num(block))
       \cup (IF Has(fields, "DETAILS")
             THEN ValidateBetDetails(First(fields, "DETAILS"), First(fields, "OUTCOMES")) ELSE {})

BetFeedReference(fields) == Invalid(~IsDigits(Trim(First(fields, "FEED_ACTION_INDEX"))))

ValidateBetLifecycle(fields) ==
    BetFeedReference(fields)
    \cup Invalid(\/ Has(fields, "OUTCOME") /\ ~IsDigits(Trim(First(fields, "OUTCOME")))
                 \/ Has(fields, "AMOUNT") /\ ~IsPositive(First(fields, "AMOUNT")))
    \cup Missing(Has(fields, "AMOUNT") /\ ~Has(fields, "OUTCOME"))

ValidateBetListEdit(fields) ==
    LET edits == {f \in {"ALLOW_LIST", "BLOCK_LIST"} : Has(fields, f)} IN
    BetFeedReference(fields)
    \cup Missing(edits = {})
    \cup Invalid(\/ \E f \in edits : ~IsDigits(Trim(First(fields, f)))
                 \/ Cardinality(edits) = 2 /\ First(fields, "ALLOW_LIST") # "0"
                    /\ Trim(First(fields, "ALLOW_LIST")) = Trim(First(fields, "BLOCK_LIST")))

ValidateBet(fields, version) ==
    LET isCreate == ~Has(fields, "FEED_ACTION_INDEX")
        listEdit == ~isCreate /\ (Has(fields, "ALLOW_LIST") \/ Has(fields, "BLOCK_LIST"))
    IN Invalid(version \notin {NoVersion, 4} /\ listEdit)
       \cup (IF version = 4 \/ (version = NoVersion /\ listEdit) THEN ValidateBetListEdit(fields)
             ELSE IF isCreate
             THEN ValidateBetLabels(fields) \cup ValidateBetTerms(fields) \cup ValidateBetPolicy(fields)
             ELSE ValidateBetLifecycle(fields))

-----------------------------------------------------------------------------
(* legs_and_actions.js, consensus_action_rules.js                          *)

ValidateControllerBind(fields) ==
    LET binds == {f \in {"CONTROLLER", "ACTION_CLASS", "UNBIND"} : Has(fields, f)} IN
    Missing(/\ binds # {}
            /\ \/ ~Has(fields, "ACTION_CLASS")
               \/ ~Is(fields, "UNBIND", 1) /\ ~Has(fields, "CONTROLLER"))

ValidateBridgeOptIn(fields, version) ==
    LET tick == First(fields, "TICK") IN
    Err("ISSUE_CONSTRAINT",
        /\ \/ version = 7
           \/ version = NoVersion /\ \E f \in {"BRIDGE_CHAINS", "MIN_DEPTH", "LOCK_BRIDGE"} : Has(fields, f)
        /\ ~IsCaret(tick) /\ HasDot(tick))

ValidateBroadcast(fields) ==
    Err("GUARD", \A f \in {"MESSAGE", "VALUE", "FEE", "MEMO", "BROADCAST_ACTION_INDEX"} : ~Has(fields, f))

ValidateFileGatePairing(fields) == Invalid(Has(fields, "GATE_MIN_AMOUNT") /\ ~Has(fields, "GATE_TICKER"))

ValidateDispenserFiatPairing(fields) ==
    Missing(/\ ~Has(fields, "DISPENSER_ACTION_INDEX")
            /\ \/ Has(fields, "FIAT_AMOUNT") /\ ~Has(fields, "FIAT_CODE")
               \/ /\ Has(fields, "FIAT_CODE")
                  /\ ~Has(fields, "FIAT_AMOUNT") /\ ~Has(fields, "ORACLE_ADDRESS"))

ValidateIssueCrossFields(fields) ==
    LET N(f) == IF IsNumeric(First(fields, f)) THEN <<Num(First(fields, f))>> ELSE <<>>
        Over(f, g) == N(f) # <<>> /\ N(g) # <<>> /\ N(f)[1] > N(g)[1]
        Positive(f) == N(f) # <<>> /\ N(f)[1] > 0
    IN Invalid(\/ Positive("MAX_SUPPLY") /\ Over("MINT_SUPPLY", "MAX_SUPPLY")
               \/ Positive("MAX_SUPPLY") /\ Positive("MINT_ADDRESS_MAX") /\ Over("MINT_ADDRESS_MAX", "MAX_SUPPLY")
               \/ Positive("MINT_ADDRESS_MAX") /\ Over("MAX_MINT", "MINT_ADDRESS_MAX")
               \/ /\ Positive("MINT_START_BLOCK") /\ Positive("MINT_STOP_BLOCK")
                  /\ Over("MINT_START_BLOCK", "MINT_STOP_BLOCK"))

\* coin: the SDK network's coin, "none" when it names no coin
ValidateXbridgeShape(fields, version, coin) ==
    LET tick == Trim(First(fields, "TICK"))
        bridged == IsBridgedCopy(tick, coin)
    IN Invalid(/\ coin # "none"
               /\ \/ version = 0 /\ coin # "BTC"
                  \/ version = 1 /\ coin = "BTC"
                  \/ version = 4 /\ tick # "" /\ ~bridged
                  \/ version = 3 /\ tick # "" /\ (HasDot(tick) \/ Length(tick) > 246))

ACTION_INDEX_FIELDS ==
    [BET |-> "FEED_ACTION_INDEX", BROADCAST |-> "BROADCAST_ACTION_INDEX",
     DISPENSER |-> "DISPENSER_ACTION_INDEX", ORDER |-> "ORDER_ACTION_INDEX", SWAP |-> "SWAP_ACTION_INDEX"]

ActionRequiredFields(a) ==
    CASE a = "AIRDROP" -> {"TICK", "AMOUNT", "LIST_ACTION_INDEX"}
      [] a = "BATCH" -> {"COMMAND"}
      [] a = "BET" -> {"LABEL", "OUTCOMES", "TICK", "DEADLINE"}
      [] a = "CALLBACK" -> {"TICK"}
      [] a = "COINPAY" -> {"ORDER_MATCH_ACTION_INDEX"}
      [] a \in {"DEPOSIT", "WITHDRAW"} -> {"CONTRACT_ACTION_INDEX", "TICK", "QUANTITY"}
      [] a \in {"DESTROY", "MINT"} -> {"TICK", "AMOUNT"}
      [] a = "DIVIDEND" -> {"TICK", "DIVIDEND_TICK", "AMOUNT"}
      [] a = "EXECUTE" -> {"CONTRACT_ACTION_INDEX", "METHOD"}
      [] a = "FILE" -> {"TYPE"}
      [] a = "ISSUE" -> {"TICK"}
      [] a = "LINK" -> {"COIN1", "COIN1_ACTION_INDEX", "COIN2", "COIN2_ACTION_INDEX"}
      [] a = "MESSAGE" -> {"COIN", "DESTINATION"}
      [] a = "PRICE" -> {"COIN", "TICK", "FIAT", "VALUE"}
      [] a = "SEND" -> {"TICK", "AMOUNT", "DESTINATION"}
      [] a = "SLEEP" -> {"RESUME_BLOCK"}
      [] a = "STAKE" -> {"AMOUNT", "SIGNING_PUBKEY"}
      [] a = "SWEEP" -> {"DESTINATION"}
      [] a = "UNSTAKE" -> {"SIGNING_PUBKEY"}
      [] OTHER -> {}

\* A required field may stand in the leg or be hoisted out of it
ValidateRequiredFields(a, fields, legs) ==
    LET indexed == a \in DOMAIN ACTION_INDEX_FIELDS /\ Has(fields, ACTION_INDEX_FIELDS[a]) IN
    Missing(/\ ~indexed
            /\ \E f \in ActionRequiredFields(a) :
                   IF legs = <<>> THEN ~Has(fields, f)
                   ELSE \E i \in DOMAIN legs : ~Has(legs[i], f) /\ ~Has(fields, f))

ValidateLegsShape(a, legs) ==
    Err("INVALID_LEGS", Len(legs) > 1 /\ ~\E layout \in Range(Layouts[a]) : IsRepeatedFormat(layout))

\* env: the coin of the validator's network, whether it has one, and its PRICE gate
ValidateAction(a, fields, version, legs, env) ==
    CASE a = "ADDRESS" -> ValidateControllerBind(fields)
      [] a = "ISSUE" -> ValidateControllerBind(fields) \cup ValidateBridgeOptIn(fields, version)
                        \cup ValidateIssueCrossFields(fields)
      [] a = "XBRIDGE" -> ValidateXbridgeShape(fields, SentVersion(a, fields, version, legs), env.coin)
      [] a = "BET" -> ValidateBet(fields, version)
      [] a = "BROADCAST" -> ValidateBroadcast(fields)
      [] a = "DELEGATE" -> ValidateDelegate(fields, version)
      [] a = "DEPLOY" -> ValidateDeploy(fields, version)
      [] a = "DISPENSER" -> ValidateDispenser(fields) \cup ValidateDispenserFiatPairing(fields)
      [] a = "FILE" -> ValidateFileGatePairing(fields)
      [] a = "LIST" -> ValidateList(fields, version, env.networked)
      [] a = "ORDER" -> ValidateOrder(fields)
      [] a = "SWAP" -> ValidateSwap(fields)
      [] a = "VOTE" -> ValidateVote(fields, SentVersion(a, fields, version, legs))
      [] OTHER -> {}

ValidateFlatFields(a, fields, version, env) ==
    UNION {CheckDelimiters(f, fields[f])
           \cup ValidateField(a, f, fields[f], fields, version, TRUE, env.canonical) :
               f \in PopulatedFields(fields)}

\* The amounts of legs taken as they are
UncheckedLegAmounts(a, fields, version, legs, env) ==
    UNION {UNION {CheckDelimiters(f, legs[i][f])
                  \cup ValidateField(a, f, legs[i][f], Merge(fields, legs[i]), version, TRUE, env.canonical) :
                      f \in PopulatedFields(legs[i]) \ {"AMOUNT"}} : i \in DOMAIN legs}

ValidateLegFields(a, fields, version, legs, env) ==
    UNION {UNION {CheckDelimiters(f, legs[i][f])
                  \cup ValidateField(a, f, legs[i][f], Merge(fields, legs[i]), version, TRUE, env.canonical) :
                      f \in PopulatedFields(legs[i])} : i \in DOMAIN legs}

Validate(a, fields, version, legs, env) ==
    IF a \notin Actions THEN {"UNKNOWN_ACTION"}
    ELSE ValidateLegsShape(a, legs) \cup ValidateRequiredFields(a, fields, legs)
         \cup ValidateFlatFields(a, fields, version, env)
         \cup ValidateLegFields(a, fields, version, legs, env)
         \cup ValidateAction(a, fields, version, legs, env)

-----------------------------------------------------------------------------
(* The decoder's validation of what it read: the first value of a repeated *)
(* field, the version it read, a validator without a network.              *)

DecoderEnv == [coin |-> "none", networked |-> FALSE, canonical |-> FALSE]

ValidatorFields(decoded) ==
    IF decoded.legs = <<>> THEN decoded.params ELSE Merge(decoded.params, decoded.legs[1])

RunValidation(decoded) ==
    Validate(decoded.action, ValidatorFields(decoded), decoded.version, <<>>, DecoderEnv)

Findings(errors) == errors \ {"GUARD"}
=============================================================================
