--------------------------- MODULE PreflightContext ---------------------------
(***************************************************************************)
(* What a pre-flight check looks at (preflight/context.js, constants.js,   *)
(* activation.js, numeric.js, checks/amount_format.js): the parsed action, *)
(* its source, the explorer's view of the chain, the caller's own          *)
(* reservations, the activation rows of the network.                       *)
(*                                                                         *)
(* A check yields notes: findings with a severity and the entries of the   *)
(* report's list of what was left unverified.  Messages are left out.      *)
(*                                                                         *)
(* A context is a record                                                   *)
(*   cmd     the parsed action         index    its place in a BATCH, 0    *)
(*   source  an address or NoAddress   deltas   <<[tick, amount], ...>>    *)
(*   view    tokens, balances, native, dispensers, lists of the chain      *)
(*   down    lookups that fail         online   mode # local and explorer  *)
(*   plane   [coin, network] or NoPlane                                    *)
(*   height  target height             now      the wall clock             *)
(*   feeMode "none", "xchain", "native"                                    *)
(***************************************************************************)
EXTENDS BatchRules

CONSTANT GasSchedule    \* GAS_SCHEDULE priced: ISSUE, ISSUE_SUBTOKEN, PER_DAY, EXECUTE

GAS_TICK == "XCHAIN"
ALLOWED_COINS == {"BTC", "LTC", "DOGE"}
NoAddress == "nobody"
NoPlane == [coin |-> "none", network |-> "none"]
None == <<>>

-----------------------------------------------------------------------------
(* Notes.                                                                  *)

TIER2_ERROR_CAPABLE ==
    {"PARSE_INVALID", "VALIDATOR_SEMANTICS", "DEST_ADDRESS_INVALID", "ENCODING_TOO_LARGE",
     "AMOUNT_FORMAT_INVALID", "BALANCE_INSUFFICIENT", "TOKEN_NOT_FOUND", "NOT_OWNER",
     "SUPPLY_EXCEEDED", "MINT_OVER_MAX", "LIST_NOT_FOUND", "DISPENSER_NOT_FOUND",
     "DISPENSER_NOT_OPEN", "DISPENSER_TERMS_MISMATCH", "DISPENSER_EMPTY"}

\* addFinding: an error that is not certified is capped at a warning
Finding(ctx, code, severity, local) ==
    {[code |-> code, cmd |-> ctx.index, local |-> local, source |-> "client",
      severity |-> IF severity = "error" /\ code \notin TIER2_ERROR_CAPABLE THEN "warning" ELSE severity]}

If(condition, notes) == IF condition THEN notes ELSE {}
Error(ctx, code, bad) == If(bad, Finding(ctx, code, "error", FALSE))
Warning(ctx, code, bad) == If(bad, Finding(ctx, code, "warning", FALSE))
Info(ctx, code, bad) == If(bad, Finding(ctx, code, "info", FALSE))

\* addUnverified
Unverified(check) ==
    {[code |-> check, cmd |-> 0, local |-> FALSE, source |-> "client", severity |-> "unverified"]}

-----------------------------------------------------------------------------
(* Activation rows: UNARMED, open from 0, or armed at LATER.               *)

LATER == 5
TestnetRow == [mainnet |-> UNARMED, testnet |-> LATER, regtest |-> 0]
TimedRow == [mainnet |-> LATER, testnet |-> 0, regtest |-> 0]

ACTIVATION_MIRRORS ==
    [LIST_TICK_COIN |-> TestnetRow, LIST_REFERENCE_VALIDITY |-> TestnetRow,
     AMOUNT_REPRESENTABILITY |-> TestnetRow, SAME_TOKEN_OFFER_REFUSAL |-> TestnetRow,
     DISPENSE_CANCELLING_MATCH |-> TimedRow, ISSUE_MINT_SUPPLY_CUMULATIVE_CAP |-> TimedRow]

ActivationThreshold(gate, plane) ==
    IF plane = NoPlane THEN None ELSE <<ACTIVATION_MIRRORS[gate][plane.network]>>

Reached(at, by) == IF at = None THEN "unknown" ELSE IF at[1] # UNARMED /\ by >= at[1] THEN "active" ELSE "inactive"

ActiveByWallClock(gate, ctx) == Reached(ActivationThreshold(gate, ctx.plane), ctx.now)

ActiveAtHeight(gate, ctx) ==
    LET at == ActivationThreshold(gate, ctx.plane) IN
    IF at # None /\ at[1] # UNARMED /\ ctx.height = UnknownHeight THEN "unknown" ELSE Reached(at, ctx.height)

-----------------------------------------------------------------------------
(* Numbers.  bcnum takes what is not a number for 0.                       *)

NumOf(w) == IF IsNumeric(w) THEN Num(w) ELSE 0
Width(w) == CASE w = "huge" -> 43 [] w = "fine" -> 21 [] OTHER -> WordLength(w)
Sum(amounts) == FoldSeq(LAMBDA n, total : n + total, 0, amounts)

ExceedsColumn(w) == w = "huge" \/ (IsNumeric(w) /\ Num(w) < 0)
\* keepsPrefixedSpelling: a hexadecimal, binary or octal literal in range
Prefixed(w) == Trim(w) = "0x1"
CanonicalCaret(w) == w \in {"^1", "^2"}

\* isValidAmountFormat; decimals None is a token whose row carries none
LegacyAmountFormat(decimals, w) ==
    /\ IsNumeric(w) /\ w # "-1"
    /\ decimals # None => FractionDigits(w) <= decimals[1]

\* isRepresentableAmount: a plain decimal that fits the ledger
IsRepresentableAmount(decimals, w) ==
    /\ IsPlainDecimal(w) /\ w # "huge"
    /\ decimals # None /\ FractionDigits(w) <= decimals[1]

RepresentabilityArmed(ctx) == ActiveByWallClock("AMOUNT_REPRESENTABILITY", ctx) = "active"

AmountFormatOk(ctx, decimals, w) ==
    /\ RepresentabilityArmed(ctx) => IsRepresentableAmount(decimals, w)
    /\ LegacyAmountFormat(decimals, w)

DeclareRepresentability(ctx) == If(~RepresentabilityArmed(ctx), Unverified("AMOUNT_REPRESENTABILITY"))

\* checkAmountField: nothing to say of no amount, or at unknown decimals
BadAmount(ctx, w, decimals) == w # "" /\ decimals # None /\ ~AmountFormatOk(ctx, decimals, w)
CheckAmountField(ctx, w, decimals) == Error(ctx, "AMOUNT_FORMAT_INVALID", BadAmount(ctx, w, decimals))

-----------------------------------------------------------------------------
(* The parsed action's fields: a word, or one for each leg.                *)

HasLegs(cmd, f) == cmd.legs # <<>> /\ f \in DOMAIN cmd.legs[1]
IsArray(ctx, f) == f \in RestBases \/ HasLegs(ctx.cmd, f)
Field(ctx, f) == IF IsArray(ctx, f) THEN "" ELSE Word(Val(ctx.cmd.params, f))
Given(ctx, f) == Field(ctx, f) # ""

Column(cmd, f) ==
    IF HasLegs(cmd, f) THEN [i \in DOMAIN cmd.legs |-> Word(cmd.legs[i][f])]
    ELSE IF Word(Val(cmd.params, f)) = "" THEN <<>> ELSE <<Word(Val(cmd.params, f))>>

\* One tick under several amounts stands for each of them
LegTick(cmd, i) == LET ticks == Column(cmd, "TICK") IN At(ticks, Min({i, Len(ticks)}))
LegAmount(cmd, i) == At(Column(cmd, "AMOUNT"), i)
LegsOf(cmd) == {i \in 1..Max({Len(Column(cmd, "TICK")), Len(Column(cmd, "AMOUNT"))}) :
                   LegTick(cmd, i) # "" /\ LegAmount(cmd, i) # ""}

\* perTickTotals: by the spelling on the wire
PerTickTotal(cmd, tick) ==
    LET legs == SetToSeq({i \in LegsOf(cmd) : LegTick(cmd, i) = tick})
    IN Sum([k \in DOMAIN legs |-> NumOf(LegAmount(cmd, legs[k]))])

-----------------------------------------------------------------------------
(* Lookups.  A failing one leaves its name in the unverified list.         *)

Reads(ctx, lookup) == ctx.online /\ lookup \notin ctx.down
Lookup(ctx, lookup) == If(~Reads(ctx, lookup), Unverified(lookup))

\* What the chain resolves a spelling to: a name in any case, a canonical ^id
Resolve(view, tick) ==
    LET named == {name \in DOMAIN view.tokens : name = Lowered(tick) \/ view.tokens[name].ref = tick}
    IN IF named = {} THEN "" ELSE CHOOSE name \in named : TRUE

Unread == "?"
Absent == ""
\* token: undefined, null, or the name of the row
Token(ctx, tick) == IF Reads(ctx, "TOKEN_LOOKUP") THEN Resolve(ctx.view, tick) ELSE Unread
IsFound(token) == token \notin {Unread, Absent}
Row(ctx, token) == ctx.view.tokens[token]
TokenDecimals(ctx, token) == IF IsFound(token) THEN Row(ctx, token).decimals ELSE None

IsNative(ctx, tick) == ctx.plane # NoPlane /\ tick = ctx.plane.coin

DeltaApplied(ctx, tick) ==
    Sum([i \in DOMAIN ctx.deltas |-> IF ctx.deltas[i].tick = tick THEN ctx.deltas[i].amount ELSE 0])

DeltasOf(ctx, spellings) ==
    Sum([i \in DOMAIN ctx.deltas |-> IF ctx.deltas[i].tick \in spellings THEN ctx.deltas[i].amount ELSE 0])

Held(view, address, name) ==
    IF address \in DOMAIN view.balances /\ name \in DOMAIN view.balances[address]
    THEN view.balances[address][name] ELSE 0

\* balance, resolvedTickName, balanceRow: net of the deltas spelled as on the
\* wire or as the row is named; a ^id nobody answered for matches no row.
Balance(ctx, address, tick) ==
    LET token == Token(ctx, tick)
        name == IF IsFound(token) THEN token
                ELSE IF IsCaret(tick) THEN Absent ELSE Lowered(tick)
    IN IF IsNative(ctx, tick)
       THEN IF Reads(ctx, "NATIVE_BALANCE_LOOKUP")
            THEN <<ctx.view.native[address] - DeltasOf(ctx, {tick})>> ELSE None
       ELSE IF (token = Unread /\ IsCaret(tick)) \/ ~Reads(ctx, "BALANCE_LOOKUP") THEN None
       ELSE <<Held(ctx.view, address, name) - DeltasOf(ctx, {tick} \cup ({token} \ {Unread, Absent}))>>

BalanceLookups(ctx, tick) ==
    IF IsNative(ctx, tick) THEN Lookup(ctx, "NATIVE_BALANCE_LOOKUP")
    ELSE Lookup(ctx, "TOKEN_LOOKUP")
         \cup If(~(IsCaret(tick) /\ ~Reads(ctx, "TOKEN_LOOKUP")), Lookup(ctx, "BALANCE_LOOKUP"))

\* The shortfall every balance check reports: marked when the caller's own
\* commitments made it, of which the network knows nothing.
BalanceCovers(ctx, tick, need) ==
    LET balance == Balance(ctx, ctx.source, tick) IN
    BalanceLookups(ctx, tick)
    \cup (IF balance = None THEN Unverified("BALANCE_INSUFFICIENT")
          ELSE If(balance[1] < need,
                  Finding(ctx, "BALANCE_INSUFFICIENT", "error", DeltaApplied(ctx, tick) > 0)))
=============================================================================
