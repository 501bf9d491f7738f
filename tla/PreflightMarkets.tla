--------------------------- MODULE PreflightMarkets ---------------------------
(***************************************************************************)
(* The checks of a pre-flight for offers, dispensers, airdrops, dividends  *)
(* and the actions without a check of their own (preflight/checks/), the   *)
(* BATCH that runs them over its commands, and the dispatch.               *)
(***************************************************************************)
EXTENDS PreflightRules

-----------------------------------------------------------------------------
(* checks/trading.js                                                       *)

CheckExpirationRange(ctx) ==
    LET expiration == Field(ctx, "EXPIRATION")
    IN Error(ctx, "VALIDATOR_SEMANTICS",
             expiration # "" /\ ExceedsColumn(expiration))

\* coinDecimals: of a chain's native coin
CoinDecimals(coin) == IF coin \in ALLOWED_COINS THEN <<8>> ELSE None

CheckGiveBalance(ctx, noun) ==
    LET tick == Field(ctx, "GIVE_TICK")
        amount == Field(ctx, "GIVE_AMOUNT")
        ownership == Field(ctx, "GIVE_OWNERSHIP") = "1"
        get == Field(ctx, "GET_AMOUNT")
    IN IF ctx.cmd.version # 0 THEN Unverified(noun \o "_REFERENCE")
       ELSE (IF ownership \/ (tick = "" /\ Given(ctx, "GIVE_COIN")) THEN Info(ctx, "GIVE_NOT_BALANCE_MODE", TRUE)
             ELSE If(tick # "" /\ amount # "" /\ ctx.source # NoAddress, BalanceCovers(ctx, tick, NumOf(amount))))
            \cup Warning(ctx, "AMOUNT_NOT_POSITIVE",
                         get # "" /\ NumOf(get) <= 0 /\ Field(ctx, "GET_OWNERSHIP") # "1")
            \cup Info(ctx, "EXPIRY_IN_PAST", IsDigits(Field(ctx, "EXPIRATION")))
            \cup Unverified(noun \o "_RESTRICTIONS")

\* The decimals one side is judged by: of its token, of the coin of an ORDER
SideDecimals(ctx, noun, tick, coin) ==
    IF tick # "" THEN TokenDecimals(ctx, Token(ctx, tick))
    ELSE IF noun = "ORDER" THEN CoinDecimals(coin) ELSE None

CheckSide(ctx, noun, side) ==
    LET amount == Field(ctx, side \o "_AMOUNT")
        tick == Field(ctx, side \o "_TICK")
        coin == Field(ctx, side \o "_COIN")
        crossable == side = "GET" /\ noun = "ORDER"
    IN IF amount = "" THEN {}
       ELSE IF crossable /\ ctx.plane = NoPlane THEN Unverified("AMOUNT_FORMAT_INVALID")
       ELSE IF crossable /\ coin \notin {"", ctx.plane.coin} THEN {}
       ELSE If(tick # "", Lookup(ctx, "TOKEN_LOOKUP")
                          \cup If(Token(ctx, tick) = Unread, Unverified("AMOUNT_FORMAT_INVALID")))
            \cup CheckAmountField(ctx, amount, SideDecimals(ctx, noun, tick, coin))

\* A bad GIVE side ends the check
CheckTradeAmountFormats(ctx, noun) ==
    LET give == CheckSide(ctx, noun, "GIVE")
    IN IF ctx.cmd.version # 0 THEN {}
       ELSE give \cup (IF \E n \in give : n.severity = "error" THEN {} ELSE CheckSide(ctx, noun, "GET"))

CheckSameTokenOffer(ctx) ==
    LET give == Field(ctx, "GIVE_TICK")
        get == Field(ctx, "GET_TICK")
        tokens == {Token(ctx, give), Token(ctx, get)}
        active == ActiveAtHeight("SAME_TOKEN_OFFER_REFUSAL", ctx)
    IN IF \/ ctx.cmd.version # 0 \/ ctx.plane = NoPlane \/ give = "" \/ get = ""
          \/ Field(ctx, "GET_COIN") \notin {"", ctx.plane.coin} THEN {}
       ELSE Lookup(ctx, "TOKEN_LOOKUP")
            \cup (IF Unread \in tokens THEN Unverified("VALIDATOR_SEMANTICS")
                  ELSE IF Absent \in tokens THEN {}
                  ELSE IF active = "unknown" THEN Unverified("VALIDATOR_SEMANTICS")
                  ELSE Error(ctx, "VALIDATOR_SEMANTICS", active = "active" /\ Cardinality(tokens) = 1))

CheckTrade(ctx, noun) ==
    CheckExpirationRange(ctx) \cup CheckGiveBalance(ctx, noun) \cup CheckTradeAmountFormats(ctx, noun)
    \cup If(ctx.cmd.version = 0, DeclareRepresentability(ctx)) \cup CheckDurationFee(ctx) \cup CheckSameTokenOffer(ctx)

-----------------------------------------------------------------------------
(* checks/airdrop.js, checks/dividend.js                                   *)

\* Each leg in turn, up to the first that is badly written
CheckAirdropAmountFormat(ctx) ==
    LET Bad(i) == BadAmount(ctx, LegAmount(ctx.cmd, i), TokenDecimals(ctx, Token(ctx, LegTick(ctx.cmd, i))))
        asked == {i \in LegsOf(ctx.cmd) : \A j \in LegsOf(ctx.cmd) : j < i => ~Bad(j)}
    IN If(asked # {}, Lookup(ctx, "TOKEN_LOOKUP"))
       \cup If(\E i \in asked : Token(ctx, LegTick(ctx.cmd, i)) = Unread, Unverified("AMOUNT_FORMAT_INVALID"))
       \cup Error(ctx, "AMOUNT_FORMAT_INVALID", \E i \in asked : Bad(i))

\* An invalid list is refused for certain only where the gate is open from 0
NoteInvalidListReference(ctx) ==
    IF ActivationThreshold("LIST_REFERENCE_VALIDITY", ctx.plane) = <<0>> THEN Error(ctx, "LIST_NOT_FOUND", TRUE)
    ELSE Unverified("LIST_REFERENCE_VALIDITY")

CheckListReference(ctx, idx) ==
    Lookup(ctx, "LIST_LOOKUP")
    \cup (IF ~Reads(ctx, "LIST_LOOKUP") THEN Unverified("LIST_NOT_FOUND")
          ELSE IF idx \notin DOMAIN ctx.view.lists THEN Error(ctx, "LIST_NOT_FOUND", TRUE)
          ELSE If(~ctx.view.lists[idx].valid, NoteInvalidListReference(ctx)))

CheckAirdrop(ctx) ==
    Warning(ctx, "AMOUNT_NOT_POSITIVE", ~IsArray(ctx, "AMOUNT") /\ NumOf(Field(ctx, "AMOUNT")) <= 0)
    \cup CheckAirdropAmountFormat(ctx) \cup DeclareRepresentability(ctx)
    \cup UNION {CheckListReference(ctx, idx) : idx \in Range(Column(ctx.cmd, "LIST_ACTION_INDEX")) \ {""}}
    \cup Unverified("AIRDROP_TOTAL_VS_BALANCE")

CheckDividendAmountFormat(ctx) ==
    LET amount == Field(ctx, "AMOUNT")
        token == Token(ctx, Field(ctx, "DIVIDEND_TICK"))
    IN IF amount = "" THEN Error(ctx, "AMOUNT_FORMAT_INVALID", TRUE)
       ELSE IF ~Given(ctx, "DIVIDEND_TICK") THEN {}
       ELSE Lookup(ctx, "TOKEN_LOOKUP")
            \cup (IF token = Unread THEN Unverified("AMOUNT_FORMAT_INVALID")
                  ELSE CheckAmountField(ctx, amount, TokenDecimals(ctx, token)))

CheckDividend(ctx) ==
    CheckDividendAmountFormat(ctx) \cup DeclareRepresentability(ctx)
    \cup Warning(ctx, "AMOUNT_NOT_POSITIVE", Given(ctx, "AMOUNT") /\ NumOf(Field(ctx, "AMOUNT")) <= 0)
    \cup Unverified("DIVIDEND_DEBIT_TOTAL")

-----------------------------------------------------------------------------
(* checks/dispenser/amount_rules.js                                        *)

SelfPriced(ctx) == ~Given(ctx, "FIAT_CODE") /\ ~Given(ctx, "ORACLE_ADDRESS")

CheckGiveAmount(ctx) == Warning(ctx, "AMOUNT_NOT_POSITIVE", NumOf(Field(ctx, "GIVE_AMOUNT")) <= 0)

CheckSelfPrice(ctx) ==
    LET get == Field(ctx, "GET_AMOUNT")
        decimals == IF Given(ctx, "GET_TICK") THEN None ELSE CoinDecimals(Field(ctx, "GET_COIN"))
    IN IF ~SelfPriced(ctx) THEN {}
       ELSE IF BadAmount(ctx, get, decimals) THEN CheckAmountField(ctx, get, decimals)
       ELSE Warning(ctx, "AMOUNT_NOT_POSITIVE", NumOf(get) <= 0)

\* An amount of either side at the decimals of its token
CheckTokenAmount(ctx, tick, amounts) ==
    LET token == Token(ctx, tick)
    IN Lookup(ctx, "TOKEN_LOOKUP") \cup If(token = Unread, Unverified("AMOUNT_FORMAT_INVALID"))
       \cup UNION {CheckAmountField(ctx, w, TokenDecimals(ctx, token)) : w \in amounts}

CheckCreateAmountFormats(ctx) ==
    LET give == Field(ctx, "GIVE_TICK")
        get == Field(ctx, "GET_TICK")
    IN If(give # "", CheckTokenAmount(ctx, give, {Field(ctx, "GIVE_AMOUNT"), Field(ctx, "GIVE_ESCROW")}))
       \cup If(get # "", CheckTokenAmount(ctx, get, {Field(ctx, "GET_AMOUNT")}))

CheckRefillEscrowFormat(ctx, dispenser) ==
    LET escrow == Field(ctx, "GIVE_ESCROW")
    IN If(escrow # "" /\ dispenser.giveTick # "",
          CheckTokenAmount(ctx, dispenser.giveTick, {escrow}) \cup DeclareRepresentability(ctx))

CheckDispensePrice(ctx, dispenser) ==
    Warning(ctx, "AMOUNT_NOT_POSITIVE", ~dispenser.priced /\ dispenser.get # None /\ dispenser.get[1] <= 0)

-----------------------------------------------------------------------------
(* checks/dispenser.js                                                     *)

\* resolveDispenserState: unread, absent, or the record
DispenserFound(ctx, idx) ==
    IF ~Reads(ctx, "DISPENSER_LOOKUP") THEN Unread ELSE IF idx \in DOMAIN ctx.view.dispensers THEN idx ELSE Absent

\* reportEditStanding: state None is a record without a status
ReportEditStanding(ctx, dispenser) ==
    (IF dispenser.state = "" THEN Unverified("DISPENSER_LIFECYCLE")
     ELSE Warning(ctx, "DISPENSER_LIFECYCLE", dispenser.state # "open"))
    \cup Warning(ctx, "DISPENSER_NOT_OWNER", ctx.source \notin {NoAddress, dispenser.owner, dispenser.getAddress})

CheckRefillBalance(ctx, dispenser, topUp) ==
    IF dispenser.giveTick = "" \/ ctx.source = NoAddress THEN Unverified("BALANCE_INSUFFICIENT")
    ELSE BalanceCovers(ctx, dispenser.giveTick, NumOf(topUp))

\* noteSettlementPrice, noteOracleFee
NoteFiatTerms(fiat, oracle) ==
    If(fiat, Unverified("DISPENSER_SETTLEMENT_PRICE")) \cup If(oracle, Unverified("DISPENSER_ORACLE_FEE"))

CheckEditEscrow(ctx, dispenser) ==
    LET topUp == Field(ctx, "GIVE_ESCROW")
    IN Warning(ctx, "DISPENSER_OWNERSHIP_ESCROW", dispenser.ownership /\ topUp # "")
       \cup If(NumOf(topUp) > 0, CheckRefillBalance(ctx, dispenser, topUp)
                                 \cup NoteFiatTerms(dispenser.priced, FALSE) \cup Unverified("DISPENSER_MAX_REFILLS"))

CheckDispenserCreate(ctx) ==
    LET tick == Field(ctx, "GIVE_TICK")
        escrow == Field(ctx, "GIVE_ESCROW")
        ownership == Field(ctx, "GIVE_OWNERSHIP") = "1"
    IN If(~ownership, If(tick # "" /\ escrow # "" /\ ctx.source # NoAddress, BalanceCovers(ctx, tick, NumOf(escrow)))
                      \cup CheckGiveAmount(ctx))
       \cup CheckSelfPrice(ctx) \cup CheckCreateAmountFormats(ctx) \cup DeclareRepresentability(ctx)
       \cup Unverified("DISPENSER_ORIGIN_STANDING")
       \cup NoteFiatTerms(Given(ctx, "FIAT_CODE"), Given(ctx, "ORACLE_ADDRESS"))

CheckDispenser(ctx) ==
    LET idx == Field(ctx, "DISPENSER_ACTION_INDEX")
        found == DispenserFound(ctx, idx)
        dispenser == ctx.view.dispensers[found]
    IN CheckExpirationRange(ctx) \cup CheckDurationFee(ctx) \cup Unverified("DISPENSER_RESTRICTIONS")
       \cup (IF ctx.cmd.version = 0 THEN CheckDispenserCreate(ctx)
             ELSE IF idx = "" THEN {}
             ELSE Lookup(ctx, "DISPENSER_LOOKUP")
                  \cup (IF found = Unread THEN Unverified("DISPENSER_NOT_FOUND")
                        ELSE IF found = Absent THEN Error(ctx, "DISPENSER_NOT_FOUND", TRUE)
                        ELSE ReportEditStanding(ctx, dispenser)
                             \cup If(ctx.cmd.version = 2, CheckRefillEscrowFormat(ctx, dispenser)
                                                          \cup CheckEditEscrow(ctx, dispenser))))

\* A dispenser being cancelled still settles where that is armed
CheckOpen(ctx, dispenser) ==
    IF dispenser.state = "" THEN Unverified("DISPENSER_NOT_OPEN")
    ELSE Error(ctx, "DISPENSER_NOT_OPEN",
               /\ dispenser.state # "open"
               /\ ~(/\ dispenser.state = "cancelling"
                    /\ ActiveByWallClock("DISPENSE_CANCELLING_MATCH", ctx) = "active"))

CheckRemaining(ctx, dispenser) ==
    IF dispenser.remaining = None THEN Unverified("DISPENSER_EMPTY")
    ELSE Error(ctx, "DISPENSER_EMPTY", dispenser.give > 0 /\ dispenser.remaining[1] < dispenser.give)

CheckDispense(ctx) ==
    LET idx == Field(ctx, "DISPENSER_ACTION_INDEX")
        found == DispenserFound(ctx, idx)
        dispenser == ctx.view.dispensers[found]
    IN IF idx = "" THEN Unverified("DISPENSER_NOT_FOUND")
       ELSE Lookup(ctx, "DISPENSER_LOOKUP")
            \cup (IF found = Unread THEN Unverified("DISPENSER_NOT_FOUND")
                  ELSE IF found = Absent THEN Error(ctx, "DISPENSER_NOT_FOUND", TRUE)
                  ELSE CheckOpen(ctx, dispenser) \cup CheckRemaining(ctx, dispenser)
                       \cup CheckDispensePrice(ctx, dispenser) \cup Unverified("DISPENSE_SETTLEMENT_MATCH"))

-----------------------------------------------------------------------------
(* checks/misc.js                                                          *)

STAKE_AMOUNT_MAX_CHARS == 250

TooWide(ctx, f) == Width(Field(ctx, f)) > STAKE_AMOUNT_MAX_CHARS

CheckCapabilityStakeBalance(ctx) ==
    LET amount == Field(ctx, "AMOUNT")
        token == Token(ctx, GAS_TICK)
    IN IF ctx.cmd.version \notin {1, 2} \/ NumOf(amount) <= 0 THEN {}
       ELSE IF ctx.source = NoAddress THEN Unverified("BALANCE_INSUFFICIENT")
       ELSE Lookup(ctx, "TOKEN_LOOKUP")
            \cup (IF token = Unread THEN Unverified("BALANCE_INSUFFICIENT")
                  ELSE IF token = Absent THEN {} ELSE BalanceCovers(ctx, GAS_TICK, NumOf(amount)))

CheckMisc(ctx) ==
    LET a == ctx.cmd.action IN
    Error(ctx, "AMOUNT_FORMAT_INVALID",
          (a = "STAKE" /\ TooWide(ctx, "AMOUNT")) \/ (a \in {"DEPOSIT", "WITHDRAW"} /\ TooWide(ctx, "QUANTITY")))
    \cup If(a = "STAKE" /\ ~TooWide(ctx, "AMOUNT"), CheckCapabilityStakeBalance(ctx))
    \cup If(a \notin {"BROADCAST", "MESSAGE"}, Unverified(a \o "_STATE"))
    \cup If(a = "LIST" /\ ctx.cmd.version = 5, Unverified("LIST_SET_META_FEE"))

-----------------------------------------------------------------------------
(* checks/index.js: the dispatch, of what is no BATCH.                     *)

RunActionChecks(ctx) ==
    CASE ctx.cmd.action = "SEND" -> CheckSend(ctx)
      [] ctx.cmd.action = "DESTROY" -> CheckDestroy(ctx)
      [] ctx.cmd.action = "MINT" -> CheckMint(ctx)
      [] ctx.cmd.action = "ISSUE" -> CheckIssue(ctx)
      [] ctx.cmd.action = "DISPENSER" -> CheckDispenser(ctx)
      [] ctx.cmd.action = "DISPENSE" -> CheckDispense(ctx)
      [] ctx.cmd.action \in {"ORDER", "SWAP"} -> CheckTrade(ctx, ctx.cmd.action)
      [] ctx.cmd.action = "AIRDROP" -> CheckAirdrop(ctx)
      [] ctx.cmd.action = "DIVIDEND" -> CheckDividend(ctx)
      [] OTHER -> CheckMisc(ctx)
=============================================================================
