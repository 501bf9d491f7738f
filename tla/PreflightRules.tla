---------------------------- MODULE PreflightRules ----------------------------
(***************************************************************************)
(* The client-side checks of a pre-flight (preflight/universal.js and      *)
(* preflight/checks/): what every action is asked, then what its own       *)
(* action is asked.  Each operator yields the notes of one check function. *)
(***************************************************************************)
EXTENDS PreflightContext

-----------------------------------------------------------------------------
(* universal.js: the validator's findings, raised to what they cost.       *)

AMOUNT_FORMAT_FIELDS ==
    {"AMOUNT", "GIVE_AMOUNT", "GET_AMOUNT", "GIVE_ESCROW", "MIN_AMOUNT", "MAX_SUPPLY", "MAX_MINT",
     "MINT_SUPPLY", "CALLBACK_AMOUNT", "MINT_ADDRESS_MAX", "MINT_START_BLOCK", "MINT_STOP_BLOCK",
     "TRANSFER_SUPPLY", "FIAT_AMOUNT", "QUANTITY", "VALUE", "GATE_MIN_AMOUNT", "LOCK_MAX_SUPPLY",
     "LOCK_MINT_SUPPLY"}

IsChainValidZeroEscrow(f, w) == f = "GIVE_ESCROW" /\ w = "0"

\* checkValidatorSemantics, over the findings of each field and of the action
FieldFinding(ctx, f, w, code) ==
    IF f = "DESTINATION" THEN Error(ctx, "DEST_ADDRESS_INVALID", TRUE)
    ELSE IF f \in AMOUNT_FORMAT_FIELDS /\ ~IsChainValidZeroEscrow(f, w) /\ code = "INVALID_FIELD_VALUE"
    THEN Error(ctx, "AMOUNT_FORMAT_INVALID", TRUE)
    ELSE IF code = "FORBIDDEN_CHARACTER" THEN Error(ctx, "VALIDATOR_SEMANTICS", TRUE)
    ELSE Warning(ctx, "VALIDATOR_SEMANTICS", TRUE)

CheckValidatorSemantics(ctx) ==
    LET fields == ValidatorFields(ctx.cmd)
        a == ctx.cmd.action
        v == ctx.cmd.version
        Judged(f) == CheckDelimiters(f, fields[f])
                     \cup ValidateField(a, f, fields[f], fields, v, TRUE, DecoderEnv.canonical)
        whole == ValidateRequiredFields(a, fields, <<>>) \cup ValidateAction(a, fields, v, <<>>, DecoderEnv)
    IN UNION {UNION {FieldFinding(ctx, f, Word(fields[f]), code) : code \in Judged(f)} :
                  f \in PopulatedFields(fields)}
       \cup Warning(ctx, "VALIDATOR_SEMANTICS", whole # {})

-----------------------------------------------------------------------------
(* universal/halt_fields.js, column_widths.js, prefixed_integers.js: what  *)
(* no column of the chain could store.                                     *)

HALT_INDEX_FIELDS ==
    [DISPENSER |-> 1 :> "DISPENSER_ACTION_INDEX" @@ 2 :> "DISPENSER_ACTION_INDEX",
     ORDER |-> 1 :> "ORDER_ACTION_INDEX" @@ 2 :> "ORDER_ACTION_INDEX",
     SWAP |-> 1 :> "SWAP_ACTION_INDEX" @@ 2 :> "SWAP_ACTION_INDEX",
     BET |-> 2 :> "FEED_ACTION_INDEX"]

COLUMN_TEXT_WIDTHS == [PRICE |-> 1 :> [VALUE |-> 250, FEE |-> 250], BET |-> 0 :> [FEE |-> 11]]

PREFIXED_INTEGER_FIELDS ==
    LET expiring == 0 :> {"EXPIRATION"} @@ 2 :> {"EXPIRATION"} IN
    [DISPENSER |-> expiring, ORDER |-> expiring, SWAP |-> expiring,
     BET |-> 0 :> {"DEADLINE", "REFUND_WINDOW"} @@ 2 :> {"OUTCOME"} @@ 3 :> {"OUTCOME"},
     ISSUE |-> 0 :> {"CALLBACK_BLOCK", "MINT_START_BLOCK", "MINT_STOP_BLOCK"}
               @@ 2 :> {"MINT_START_BLOCK", "MINT_STOP_BLOCK"} @@ 4 :> {"CALLBACK_BLOCK"}]

HasRow(table, cmd) == cmd.action \in DOMAIN table /\ cmd.version \in DOMAIN table[cmd.action]
RowFor(table, cmd) == table[cmd.action][cmd.version]

CheckColumnTextWidths(ctx) ==
    Error(ctx, "VALIDATOR_SEMANTICS",
          /\ HasRow(COLUMN_TEXT_WIDTHS, ctx.cmd)
          /\ LET widths == RowFor(COLUMN_TEXT_WIDTHS, ctx.cmd)
             IN \E f \in DOMAIN widths : Width(Field(ctx, f)) > widths[f])

CheckPrefixedIntegers(ctx) ==
    Error(ctx, "VALIDATOR_SEMANTICS",
          /\ HasRow(PREFIXED_INTEGER_FIELDS, ctx.cmd)
          /\ \E f \in RowFor(PREFIXED_INTEGER_FIELDS, ctx.cmd) : Prefixed(Field(ctx, f)))

CheckHaltFields(ctx) ==
    LET Storable(w) == IsNumeric(w) /\ ~Prefixed(w) /\ ~ExceedsColumn(w)
    IN CheckColumnTextWidths(ctx) \cup CheckPrefixedIntegers(ctx)
       \cup Error(ctx, "VALIDATOR_SEMANTICS",
                  \/ HasRow(HALT_INDEX_FIELDS, ctx.cmd) /\ ~Storable(Field(ctx, RowFor(HALT_INDEX_FIELDS, ctx.cmd)))
                  \/ ctx.cmd.action = "STAKE" /\ ~Given(ctx, "SIGNING_PUBKEY"))

-----------------------------------------------------------------------------
(* universal.js, tick_rules.js: ticks that must exist.                     *)

NATIVE_TICK_REFUSED ==
    [SEND |-> {"TICK"}, MINT |-> {"TICK"}, DESTROY |-> {"TICK"}, AIRDROP |-> {"TICK"},
     DIVIDEND |-> {"TICK", "DIVIDEND_TICK"}, ORDER |-> {"GIVE_TICK", "GET_TICK"},
     SWAP |-> {"GIVE_TICK", "GET_TICK"}, DISPENSER |-> {"GIVE_TICK", "GET_TICK"}]

TICK_EXISTENCE_FIELDS == TickFields \cup {"GATE_TICKER"}

IsCrossChainGet(ctx, f) ==
    /\ f = "GET_TICK" /\ ctx.cmd.action \in {"ORDER", "SWAP"} /\ ctx.cmd.version = 0
    /\ ctx.plane # NoPlane /\ Field(ctx, "GET_COIN") \notin {"", ctx.plane.coin}

NativeTickRefused(ctx, f) ==
    /\ ctx.cmd.action \in DOMAIN NATIVE_TICK_REFUSED /\ f \in NATIVE_TICK_REFUSED[ctx.cmd.action]
    /\ ctx.cmd.action \in {"ORDER", "SWAP", "DISPENSER"} =>
           /\ ctx.cmd.version = 0
           /\ ctx.cmd.action # "DISPENSER" /\ f = "GET_TICK" => Field(ctx, "GET_COIN") \in {"", ctx.plane.coin}

\* checkTokenExistence, of one spelling
CheckTick(ctx, f, tick) ==
    IF IsNative(ctx, tick) THEN Error(ctx, "TOKEN_NOT_FOUND", NativeTickRefused(ctx, f))
    ELSE IF IsCaret(tick) /\ ~CanonicalCaret(tick) THEN Error(ctx, "TOKEN_NOT_FOUND", TRUE)
    ELSE Lookup(ctx, "TOKEN_LOOKUP") \cup Error(ctx, "TOKEN_NOT_FOUND", Token(ctx, tick) = Absent)

CheckTokenExistence(ctx) ==
    LET price == ctx.cmd.action = "PRICE"
        \* a PRICE names the tick of another ledger, ISSUE the tick it creates
        Skipped(f) == (price /\ f = "TICK") \/ IsCrossChainGet(ctx, f) \/ ctx.cmd.action = "ISSUE"
    IN Error(ctx, "TOKEN_NOT_FOUND",
             ctx.cmd.action = "DISPENSER" /\ ctx.cmd.version = 0 /\ ~Given(ctx, "GIVE_TICK"))
       \cup Error(ctx, "VALIDATOR_SEMANTICS", price /\ Width(Field(ctx, "TICK")) \notin 1..250)
       \cup UNION {UNION {CheckTick(ctx, f, tick) : tick \in Range(Column(ctx.cmd, f)) \ {""}} :
                       f \in {g \in TICK_EXISTENCE_FIELDS : ~Skipped(g)}}

\* checkAddressRefs: an address written ^id; the last two are never resolved by the decoder
CARET_RESOLVED_FIELDS ==
    [MINT |-> {"DESTINATION"}, MESSAGE |-> {"DESTINATION"}, SWEEP |-> {"DESTINATION"},
     ISSUE |-> {"TRANSFER", "TRANSFER_SUPPLY"}, DEPLOY |-> {"SLASH_DESTINATION"}, LIST |-> {"DESTINATION"},
     ORDER |-> {"GET_ADDRESS"}, SWAP |-> {"GET_ADDRESS"}, DISPENSER |-> {"GET_ADDRESS", "ORACLE_ADDRESS"}]

CheckAddressRefs(ctx) ==
    LET a == ctx.cmd.action
        Ref(f) == Field(ctx, f)
    IN UNION {IF ~IsCaret(Ref(f)) THEN {}
              ELSE IF ~CanonicalCaret(Ref(f)) \/ a = "DISPENSER" THEN Warning(ctx, "CARET_REF_UNRESOLVABLE", TRUE)
              ELSE Unverified("CARET_REF_UNRESOLVABLE") :
                  f \in IF a \in DOMAIN CARET_RESOLVED_FIELDS THEN CARET_RESOLVED_FIELDS[a] ELSE {}}

FEE_CHARGING_ACTIONS ==
    {"ISSUE", "SWEEP", "DISPENSER", "DIVIDEND", "AIRDROP", "CALLBACK", "ORDER", "SWAP", "DEPLOY",
     "EXECUTE", "BET", "XBRIDGE", "LIST"}

\* runUniversal of an action that is no BATCH
RunUniversal(ctx) ==
    CheckValidatorSemantics(ctx) \cup CheckHaltFields(ctx) \cup CheckTokenExistence(ctx)
    \cup CheckAddressRefs(ctx) \cup Warning(ctx, "NATIVE_FEE_FORFEIT", ctx.cmd.action \in FEE_CHARGING_ACTIONS)

-----------------------------------------------------------------------------
(* checks/send.js                                                          *)

\* Nothing is said of a balance nobody can read
CheckKnownBalance(ctx) ==
    IF ctx.source = NoAddress THEN {}
    ELSE UNION {BalanceCovers(ctx, tick, PerTickTotal(ctx.cmd, tick)) :
                    tick \in {LegTick(ctx.cmd, i) : i \in LegsOf(ctx.cmd)}}

CheckBalanceCovers(ctx) ==
    IF ctx.source = NoAddress THEN Unverified("BALANCE_INSUFFICIENT")
    ELSE UNION {LET total == PerTickTotal(ctx.cmd, tick)
                IN IF total <= 0 THEN Warning(ctx, "AMOUNT_NOT_POSITIVE", TRUE)
                   ELSE BalanceCovers(ctx, tick, total) :
                       tick \in {LegTick(ctx.cmd, i) : i \in LegsOf(ctx.cmd)}}

CheckLegAmountFormat(ctx) ==
    UNION {LET token == Token(ctx, LegTick(ctx.cmd, i))
           IN Lookup(ctx, "TOKEN_LOOKUP")
              \cup (IF token = Unread THEN Unverified("AMOUNT_FORMAT_INVALID")
                    ELSE CheckAmountField(ctx, LegAmount(ctx.cmd, i), TokenDecimals(ctx, token))) :
               i \in LegsOf(ctx.cmd)}

\* checkBridgeSupplyPath: what only XBRIDGE may take out of supply
CheckBridgeSupplyPath(ctx) ==
    LET ticks == Range(Column(ctx.cmd, "TICK")) \ {""}
    IN IF ticks # {} /\ ctx.plane = NoPlane THEN Unverified("DESTROY_BRIDGE_SUPPLY")
       ELSE Warning(ctx, "TICK_FORMAT", \E tick \in ticks : \/ tick = GAS_TICK /\ ctx.plane.coin # "BTC"
                                                            \/ IsBridgedCopy(tick, ctx.plane.coin))

CheckSend(ctx) == CheckBalanceCovers(ctx) \cup CheckLegAmountFormat(ctx) \cup DeclareRepresentability(ctx)
                  \cup Unverified("SEND_RESTRICTIONS")

CheckDestroy(ctx) == CheckBalanceCovers(ctx) \cup CheckLegAmountFormat(ctx) \cup DeclareRepresentability(ctx)
                     \cup CheckBridgeSupplyPath(ctx) \cup Unverified("DESTROY_RESTRICTIONS")

-----------------------------------------------------------------------------
(* checks/mint.js                                                          *)

CheckMintLock(ctx, row) == Error(ctx, "MINT_OVER_MAX", row.locked)

CheckMintLimit(ctx, w, row) == Error(ctx, "MINT_OVER_MAX", row.maxMint > 0 /\ w # "" /\ NumOf(w) > row.maxMint)

\* A limit of 0 is no limit above an activation that cannot be read
CheckSupplyLimit(ctx, w, row) ==
    IF row.maxSupply = 0 THEN Unverified("SUPPLY_EXCEEDED")
    ELSE Error(ctx, "SUPPLY_EXCEEDED", w # "" /\ NumOf(w) > row.maxSupply - row.supply)

CheckMint(ctx) ==
    LET token == Token(ctx, Field(ctx, "TICK"))
        w == Field(ctx, "AMOUNT")
        row == Row(ctx, token)
    IN IF ~Given(ctx, "TICK") THEN {}
       ELSE Lookup(ctx, "TOKEN_LOOKUP") \cup If(token = Unread, Unverified("MINT_OVER_MAX"))
            \cup (IF ~IsFound(token) THEN {}
                  ELSE Warning(ctx, "AMOUNT_NOT_POSITIVE", w # "" /\ NumOf(w) <= 0)
                       \cup CheckMintLock(ctx, row) \cup CheckMintLimit(ctx, w, row)
                       \cup CheckSupplyLimit(ctx, w, row) \cup CheckAmountField(ctx, w, row.decimals)
                       \cup DeclareRepresentability(ctx) \cup Unverified("MINT_ADDRESS_HEADROOM"))

DAY == 500
GasAddress == "gas"             \* the coin's addresses.GAS

-----------------------------------------------------------------------------
(* checks/batch/fee_projection.js: what the protocol charges in XCHAIN.    *)
(* A fee is unknown (None) or [amount, chargeable, bound]: bound when no   *)
(* later block makes it less.                                              *)

DURATION_FEE_ACTIONS == {"ORDER", "SWAP", "DISPENSER"}

Fee(amount, bound) == <<[amount |-> amount, chargeable |-> amount > 0, bound |-> bound]>>
NoFee == Fee(0, TRUE)

\* gasConfig is null without a plane
XchainFeeDebit(ctx) ==
    CASE ctx.feeMode = "native" -> FALSE
      [] ctx.feeMode = "xchain" -> TRUE
      [] OTHER -> ctx.plane = NoPlane \/ ctx.plane.coin = "BTC"

ProjectIssueFee(ctx) ==
    LET tick == Field(ctx, "TICK")
        token == Token(ctx, tick)
    IN IF ctx.plane = NoPlane \/ tick = "" \/ IsCaret(tick) THEN None
       ELSE IF tick = GAS_TICK THEN NoFee
       ELSE IF token = Unread THEN None
       ELSE IF token # Absent THEN NoFee
       ELSE Fee(IF ClassifyIssueTick(tick) = "ISSUE.CHILD" THEN GasSchedule.ISSUE_SUBTOKEN ELSE GasSchedule.ISSUE, TRUE)

ProjectDurationFee(ctx, now) ==
    LET expiration == Field(ctx, "EXPIRATION")
        days == (Num(expiration) \div 1000 - now) \div DAY - GasSchedule.FREE_DAYS
    IN IF ctx.plane = NoPlane \/ ctx.cmd.version # 0 THEN None
       ELSE IF expiration = "" THEN NoFee
       ELSE IF ~IsNumeric(expiration) THEN None
       ELSE Fee(IF days > 0 THEN days * GasSchedule.PER_DAY ELSE 0, FALSE)

ProjectExecuteFee(ctx) ==
    IF ctx.plane = NoPlane \/ ~IsFound(Token(ctx, GAS_TICK)) THEN None ELSE Fee(GasSchedule.EXECUTE, TRUE)

\* checkDurationFee: an error only when even a block a day later charges too much
CheckDurationFee(ctx) ==
    LET expires == Field(ctx, "EXPIRATION") # ""
        upper == ProjectDurationFee(ctx, ctx.now)
        lower == ProjectDurationFee(ctx, ctx.now + DAY)
        balance == Balance(ctx, ctx.source, GAS_TICK)
        Short(fee) == fee[1].amount > 0 /\ balance[1] < fee[1].amount
    IN IF ctx.index # 0 \/ ~expires \/ ctx.cmd.version = 1 THEN {}
       ELSE IF ctx.cmd.version = 2 \/ ctx.plane = NoPlane THEN Unverified("DURATION_FEE")
       ELSE IF ~XchainFeeDebit(ctx) \/ upper = None \/ ~upper[1].chargeable THEN {}
       ELSE IF ctx.source = NoAddress THEN Unverified("BALANCE_INSUFFICIENT")
       ELSE BalanceLookups(ctx, GAS_TICK)
            \cup (IF balance = None THEN Unverified("BALANCE_INSUFFICIENT")
                  ELSE IF Short(lower) THEN Error(ctx, "BALANCE_INSUFFICIENT", TRUE)
                  ELSE Warning(ctx, "BALANCE_INSUFFICIENT", Short(upper)))

-----------------------------------------------------------------------------
(* checks/issue.js: the name.                                              *)

RESERVED_TICKS == ALLOWED_COINS \cup {GAS_TICK}
RESERVED_FUTURE_ROOTS == {"ETH"}
MIN_NEW_TOP_LEVEL_TICK_LENGTH == 4

\* checkCaretTickRule: a caret edits, on the networks that arm the rule
CheckCaretTickRule(ctx, tick, token) ==
    IF ctx.plane.network \notin {"regtest", "testnet"} THEN {}
    ELSE IF ~CanonicalCaret(tick) THEN Warning(ctx, "TICK_FORMAT", TRUE)
    ELSE If(token = Unread, Unverified("ISSUE_CARET_TICK_NO_CREATE"))
         \cup Warning(ctx, "TICK_FORMAT", token = Absent)

CheckReservedTick(ctx, tick) ==
    LET exempt == tick = GAS_TICK /\ (ctx.plane.network = "regtest" \/ ctx.source = GasAddress)
    IN IF tick = GAS_TICK /\ ctx.plane = NoPlane THEN Unverified("ISSUE_GAS_TICK")
       ELSE Warning(ctx, "TICK_FORMAT", ~exempt \/ ctx.plane.coin # "BTC")

CheckTickRules(ctx, tick, token) ==
    IF IsCaret(tick) THEN CheckCaretTickRule(ctx, tick, token)
    ELSE IF tick \in RESERVED_TICKS THEN CheckReservedTick(ctx, tick)
    ELSE IF \/ tick \in RESERVED_FUTURE_ROOTS
            \/ ~HasDot(tick) /\ WordLength(tick) < MIN_NEW_TOP_LEVEL_TICK_LENGTH
    THEN If(token = Unread, Unverified("ISSUE_TICK_NAMESPACE")) \cup Warning(ctx, "TICK_FORMAT", token = Absent)
    ELSE {}

\* coinQualifierRoot: a chain's or a reserved root's code before the colon
IsCoinQualified(tick) == tick = "BTC:x"

\* isListTickCoinActive: the next block against the row, FALSE without a tip
ListTickCoinActive(ctx) ==
    LET at == ActivationThreshold("LIST_TICK_COIN", ctx.plane)
    IN /\ at # None /\ at[1] # UNARMED
       /\ ctx.height # UnknownHeight /\ ctx.height + 1 >= at[1]

ReadsActivation(ctx) ==
    LET at == ActivationThreshold("LIST_TICK_COIN", ctx.plane) IN at # None /\ at[1] # UNARMED

CheckTickCoinPrefix(ctx, tick, token) ==
    IF ctx.cmd.version # 0 THEN {}
    ELSE IF ReadsActivation(ctx) /\ "STATUS_LOOKUP" \in ctx.down THEN Unverified("ISSUE_TICK_COIN_PREFIX")
    ELSE IF ~ListTickCoinActive(ctx) \/ ~IsCoinQualified(tick) THEN {}
    ELSE If(token = Unread, Unverified("ISSUE_TICK_COIN_PREFIX"))
         \cup Error(ctx, "VALIDATOR_SEMANTICS", token = Absent)

-----------------------------------------------------------------------------
(* checks/issue.js: the bridge opt-in; stored_widths.js.                   *)

STORED_TEXT_WIDTHS ==
    [DECIMALS |-> 2, CALLBACK_BLOCK |-> 15, MINT_START_BLOCK |-> 15, MINT_STOP_BLOCK |-> 15,
     BRIDGE_CHAINS |-> 250, LOCK_BRIDGE |-> 1]

MIN_DEPTH_MAX_CHARS == 15

CheckBridgeOptIn(ctx, tick, token) ==
    LET resolved == IF IsFound(token) THEN token ELSE tick
        chain == Field(ctx, "BRIDGE_CHAINS")
        depth == Field(ctx, "MIN_DEPTH")
        lock == Field(ctx, "LOCK_BRIDGE")
    IN IF ctx.cmd.version # 7 THEN {}
       ELSE Unverified("ISSUE_BRIDGE_ACTIVATION")
            \cup Error(ctx, "TOKEN_NOT_FOUND", token = Absent)
            \cup Warning(ctx, "TICK_FORMAT", HasDot(resolved))
            \cup Error(ctx, "VALIDATOR_SEMANTICS",
                       \/ chain \notin {"", "-"} /\ (chain \notin ALLOWED_COINS \/ chain = ctx.plane.coin)
                       \/ depth # "" /\ (~IsDigits(depth) \/ Width(depth) > MIN_DEPTH_MAX_CHARS)
                       \/ lock # "" /\ ~IsValidValue(lock, {0, 1}))

\* storedText: what a column never gets to hold is refused on other grounds
IsStored(f, w) ==
    CASE f \in {"CALLBACK_BLOCK", "MINT_START_BLOCK", "MINT_STOP_BLOCK"} -> IsNumeric(w) /\ ~ExceedsColumn(w)
      [] f = "DECIMALS" -> IsNumeric(w) /\ Num(w) \in 0..18000
      [] OTHER -> TRUE

CheckIssueStoredWidths(ctx) ==
    Error(ctx, "VALIDATOR_SEMANTICS",
          \E f \in DOMAIN STORED_TEXT_WIDTHS :
              /\ Given(ctx, f) /\ IsStored(f, Field(ctx, f))
              /\ Width(Field(ctx, f)) > STORED_TEXT_WIDTHS[f])

-----------------------------------------------------------------------------
(* issue/supply_rules.js                                                   *)

ISSUE_AMOUNT_FIELDS ==
    {"MAX_SUPPLY", "MAX_MINT", "MINT_SUPPLY", "MINT_ADDRESS_MAX", "MINT_START_BLOCK", "MINT_STOP_BLOCK"}

\* The row's decimals before the wire's; unknown ones pass until the rule is armed
CheckMaxSupplyFormat(ctx, token) ==
    LET present == {f \in ISSUE_AMOUNT_FIELDS : Given(ctx, f)}
        wire == Field(ctx, "DECIMALS")
        decimals == IF TokenDecimals(ctx, token) # None THEN TokenDecimals(ctx, token)
                    ELSE IF wire = "" THEN None ELSE <<NumOf(wire) \div 1000>>
    IN IF present = {} THEN {}
       ELSE DeclareRepresentability(ctx)
            \cup Error(ctx, "AMOUNT_FORMAT_INVALID",
                       /\ decimals # None \/ RepresentabilityArmed(ctx)
                       /\ \E f \in present : ~AmountFormatOk(ctx, decimals, Field(ctx, f)))

CheckSupplyRules(ctx, token) ==
    LET wireMax == Field(ctx, "MAX_SUPPLY")
        max == IF wireMax # "" THEN NumOf(wireMax) ELSE IF IsFound(token) THEN Row(ctx, token).maxSupply ELSE 0
        supply == IF IsFound(token) THEN Row(ctx, token).supply ELSE 0
        mints == Field(ctx, "MINT_SUPPLY")
        capped == ActiveByWallClock("ISSUE_MINT_SUPPLY_CUMULATIVE_CAP", ctx)
    IN IF max <= 0 THEN {}
       ELSE IF wireMax # "" /\ supply > max THEN Error(ctx, "SUPPLY_EXCEEDED", TRUE)
       ELSE IF ~IsNumeric(mints) THEN {}
       ELSE IF Num(mints) > max THEN Error(ctx, "SUPPLY_EXCEEDED", TRUE)
       ELSE IF Num(mints) <= 0 \/ supply + Num(mints) <= max THEN {}
       ELSE IF capped = "active" THEN Error(ctx, "SUPPLY_EXCEEDED", TRUE) ELSE Unverified("SUPPLY_EXCEEDED")

CheckOwner(ctx, row) ==
    (IF ctx.source = NoAddress THEN Unverified("NOT_OWNER") ELSE Error(ctx, "NOT_OWNER", row.owner # ctx.source))
    \cup Unverified("ISSUE_LOCK_RATCHETS") \cup Unverified("ISSUE_BRIDGE_POLICY_EXCLUSION")

CheckIssue(ctx) ==
    LET tick == Field(ctx, "TICK")
        token == Token(ctx, tick)
    IN IF ~Given(ctx, "TICK") THEN {}
       ELSE Lookup(ctx, "TOKEN_LOOKUP") \cup CheckTickRules(ctx, tick, token) \cup CheckTickCoinPrefix(ctx, tick, token)
            \cup CheckBridgeOptIn(ctx, tick, token) \cup CheckIssueStoredWidths(ctx)
            \cup (IF token = Unread THEN Unverified("NOT_OWNER") \cup Unverified("AMOUNT_FORMAT_INVALID")
                  ELSE CheckMaxSupplyFormat(ctx, token) \cup CheckSupplyRules(ctx, token)
                       \cup (IF token = Absent THEN {} ELSE CheckOwner(ctx, Row(ctx, token))))
=============================================================================
