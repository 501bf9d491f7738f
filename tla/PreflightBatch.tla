---------------------------- MODULE PreflightBatch ----------------------------
(***************************************************************************)
(* A pre-flight's parsed input and its client-side checks as a whole: the  *)
(* universal ones, those of the action, and for a BATCH those of every     *)
(* command in turn, over what the commands before it would leave           *)
(* (preflight/checks/batch.js, batch/fee_projection.js, universal.js,      *)
(* normalizeInput of preflight/index.js).                                  *)
(***************************************************************************)
EXTENDS PreflightMarkets

-----------------------------------------------------------------------------
(* normalizeInput.  An input is a sequence of wires, of a BATCH when there *)
(* are several; a DISPENSE is no wire of the protocol.                     *)

BuildVirtual(wire) ==
    [ok |-> TRUE, action |-> "DISPENSE", version |-> 0,
     params |-> [DISPENSER_ACTION_INDEX |-> <<At(wire, 3)>>], legs |-> <<>>]

ParsedBatch(wires) ==
    [ok |-> DecodeBatch(wires, 0, UnknownHeight).ok, action |-> "BATCH", version |-> 0, params |-> <<>>,
     legs |-> <<>>, wires |-> wires, commands |-> DecodeBatch(wires, 0, UnknownHeight).commands]

NormalizeInput(wires) ==
    IF Len(wires) > 1 THEN ParsedBatch(wires)
    ELSE IF wires[1][1] = "DISPENSE" THEN BuildVirtual(wires[1]) ELSE ParseAction(wires[1])

IsBatch(cmd) == cmd.action = "BATCH"
CommandsOf(cmd) == IF IsBatch(cmd) THEN cmd.commands ELSE <<cmd>>

Child(ctx, i) == [ctx EXCEPT !.cmd = ctx.cmd.commands[i], !.index = i]

-----------------------------------------------------------------------------
(* batch.js: what a command would take from the source.  A negative amount *)
(* is a credit; an effect that cannot be told is not known.                *)

Unprojectable == [known |-> FALSE, deltas |-> <<>>]
Projected(deltas) == [known |-> TRUE, deltas |-> deltas]
Debit(tick, amount) == <<[tick |-> tick, amount |-> amount]>>
Credit(tick, amount) == Debit(tick, -amount)

LegDestination(cmd, i) == At(Column(cmd, "DESTINATION"), i)

\* A transfer to oneself taken for a debit
ProjectDebits(ctx, credited) ==
    FoldLeft(LAMBDA done, i : done \o Debit(LegTick(ctx.cmd, i), NumOf(LegAmount(ctx.cmd, i))), <<>>,
             SetToSortSeq(LegsOf(ctx.cmd), <))

ProjectLegs(ctx, credited) ==
    LET Leg(i) == LET amount == NumOf(LegAmount(ctx.cmd, i))
                      tick == LegTick(ctx.cmd, i)
                  IN Debit(tick, amount)
                     \o (IF credited /\ LegDestination(ctx.cmd, i) = ctx.source THEN Credit(tick, amount) ELSE <<>>)
    IN FoldLeft(LAMBDA done, i : done \o Leg(i), <<>>, SetToSortSeq(LegsOf(ctx.cmd), <))

ProjectMint(ctx) ==
    IF Field(ctx, "DESTINATION") \notin {"", ctx.source} \/ ~Given(ctx, "TICK") \/ ~Given(ctx, "AMOUNT") THEN <<>>
    ELSE Credit(Field(ctx, "TICK"), NumOf(Field(ctx, "AMOUNT")))

ProjectIssueDeltas(ctx, fee) ==
    LET minted == NumOf(Field(ctx, "MINT_SUPPLY"))
    IN (IF fee.amount > 0 THEN Debit(GAS_TICK, fee.amount) ELSE <<>>)
       \o (IF minted > 0 /\ Field(ctx, "TRANSFER_SUPPLY") \in {"", ctx.source} /\ Given(ctx, "TICK")
           THEN Credit(Field(ctx, "TICK"), minted) ELSE <<>>)

\* projectDeltas
ProjectDeltas(ctx, fee) ==
    CASE ctx.cmd.action = "MINT" -> Projected(ProjectMint(ctx))
      [] ctx.cmd.action = "ISSUE" -> IF fee = None THEN Unprojectable ELSE Projected(ProjectIssueDeltas(ctx, fee[1]))
      [] ctx.cmd.action = "SEND" -> Projected(ProjectLegs(ctx, TRUE))
      [] ctx.cmd.action = "DESTROY" -> Projected(ProjectLegs(ctx, FALSE))
      [] OTHER -> Unprojectable

PRICED_ACTIONS == DURATION_FEE_ACTIONS \cup {"ISSUE", "EXECUTE"}

ProjectCommandFee(ctx) ==
    IF ~XchainFeeDebit(ctx) THEN NoFee
    ELSE CASE ctx.cmd.action = "ISSUE" -> ProjectIssueFee(ctx)
           [] ctx.cmd.action = "EXECUTE" -> ProjectExecuteFee(ctx)
           [] OTHER -> ProjectDurationFee(ctx, ctx.now)

-----------------------------------------------------------------------------
(* batch.js: the commands in turn.                                         *)

\* runCommandChecks: after an effect nobody could project a shortfall is advice
RunCommandChecks(child, unprojectable) ==
    {IF unprojectable /\ n.code = "BALANCE_INSUFFICIENT" /\ n.severity = "error"
     THEN [n EXCEPT !.severity = "warning"] ELSE n :
         n \in CheckHaltFields(child) \cup RunActionChecks(child)}

Checked(done, child, fee, effect) ==
    LET priced == child.cmd.action \in PRICED_ACTIONS
    IN [notes |-> done.notes \cup RunCommandChecks(child, done.unprojectable),
        projected |-> done.projected \o effect.deltas,
        unprojectable |-> done.unprojectable \/ ~effect.known,
        fees |-> IF priced THEN Append(done.fees, fee) ELSE done.fees,
        allPriced |-> done.allPriced /\ priced /\ fee # None /\ fee[1].chargeable /\ fee[1].bound]

CheckPriced(done, child, fee) == Checked(done, child, fee, ProjectDeltas(child, fee))

CheckChild(done, child) ==
    IF child.cmd.ok THEN CheckPriced(done, child, ProjectCommandFee(child))
    ELSE [done EXCEPT !.notes = @ \cup Error(child, "PARSE_INVALID", TRUE), !.allPriced = FALSE]

CheckCommand(ctx, done, i) == CheckChild(done, [Child(ctx, i) EXCEPT !.deltas = @ \o done.projected])

\* checkFeeBudget: certain only when the balance covers none of them
CheckFeeBudget(ctx, fees, allPriced) ==
    LET known == SelectSeq(fees, LAMBDA fee : fee # None)
        total == Sum([i \in DOMAIN known |-> known[i][1].amount])
        chargeable == {fee[1].amount : fee \in {f \in Range(known) : f[1].chargeable}}
        balance == Balance(ctx, ctx.source, GAS_TICK)
        certain == allPriced /\ chargeable # {} /\ balance[1] < Min(chargeable)
        short == balance[1] < total
        local == DeltaApplied(ctx, GAS_TICK) > 0
    IN IF fees = <<>> THEN {}
       ELSE IF ~XchainFeeDebit(ctx) THEN Unverified("BALANCE_INSUFFICIENT")
       ELSE IF total <= 0 THEN {}
       ELSE IF ctx.source = NoAddress THEN Unverified("BALANCE_INSUFFICIENT")
       ELSE BalanceLookups(ctx, GAS_TICK)
            \cup (IF balance = None THEN Unverified("BALANCE_INSUFFICIENT")
                  ELSE If(short, Finding(ctx, "BALANCE_INSUFFICIENT", IF certain THEN "error" ELSE "warning", local)))

\* checkCommandCap: the weight at the height the dry run spoke of
CheckCommandCap(ctx) ==
    Warning(ctx, "BATCH_LIMIT_EXCEEDED",
            \/ Len(ctx.cmd.wires) > BATCH_COMMAND_LIMIT
            \/ BatchWeight(ctx.cmd.wires, IF ctx.plane.network = "mainnet" THEN LATER ELSE 0, ctx.height)
                   > BATCH_WEIGHT_BUDGET)

NothingDone == [notes |-> {}, projected |-> <<>>, unprojectable |-> FALSE, fees |-> <<>>, allPriced |-> TRUE]

CheckWhole(ctx, done) ==
    Warning(ctx, "BATCH_NOT_ATOMIC", TRUE) \cup CheckCommandCap(ctx) \cup done.notes
    \cup CheckFeeBudget(ctx, done.fees, done.allPriced)

CheckBatch(ctx) ==
    CheckWhole(ctx, FoldLeft(LAMBDA done, i : CheckCommand(ctx, done, i), NothingDone,
                             [i \in DOMAIN ctx.cmd.commands |-> i]))

-----------------------------------------------------------------------------
(* universal.js of a BATCH: the validator's findings are tagged with the   *)
(* command they are about; ticks and references are left to the commands.  *)

RunUniversalOfBatch(ctx) ==
    Warning(ctx, "BATCH_LIMIT_EXCEEDED", DecodeBatch(ctx.cmd.wires, 0, UnknownHeight).findings # {})
    \cup Warning(ctx, "VALIDATOR_SEMANTICS", "BATCH_CONSTRAINT" \in ValidateBatch(ctx.cmd.wires, 0))
    \cup UNION {IF ctx.cmd.commands[i].ok THEN CheckValidatorSemantics(Child(ctx, i))
                ELSE Warning(Child(ctx, i), "VALIDATOR_SEMANTICS", TRUE) : i \in DOMAIN ctx.cmd.commands}

\* checkEncodingFitsCarrier
OP_RETURN_LIMIT == 75
CheckEncodingFitsCarrier(ctx, wires, encoding) ==
    LET bytes == Sum([i \in DOMAIN wires |-> Sum([k \in DOMAIN wires[i] |-> WordLength(wires[i][k]) + 1])])
    IN Error(ctx, "ENCODING_TOO_LARGE", encoding = "OP_RETURN" /\ bytes > OP_RETURN_LIMIT)

\* The second tier of a pre-flight; a virtual action has no validation
ClientChecks(ctx, wires, encoding) ==
    CheckEncodingFitsCarrier(ctx, wires, encoding)
    \cup (IF IsBatch(ctx.cmd) THEN RunUniversalOfBatch(ctx) \cup CheckBatch(ctx)
          ELSE IF ctx.cmd.action = "DISPENSE" THEN CheckDispense(ctx)
          ELSE RunUniversal(ctx) \cup RunActionChecks(ctx))

-----------------------------------------------------------------------------
(* External: how a chain judges the actions a pre-flight looks at, as the  *)
(* checks describe it, by resolved token and not by spelling, each command *)
(* of a BATCH against what the commands before it left.  The dry run       *)
(* answers with it, and the properties compare a report with it.           *)

\* What the command takes of a token from its source
Taken(ctx, name) ==
    LET legs == SetToSeq({i \in LegsOf(ctx.cmd) : Resolve(ctx.view, LegTick(ctx.cmd, i)) = name})
        own == {k \in DOMAIN legs : ctx.cmd.action = "SEND" /\ LegDestination(ctx.cmd, legs[k]) = ctx.source}
    IN [debit |-> Sum([k \in DOMAIN legs |-> NumOf(LegAmount(ctx.cmd, legs[k]))]),
        credit |-> Sum([k \in DOMAIN legs |-> IF k \in own THEN NumOf(LegAmount(ctx.cmd, legs[k])) ELSE 0])]

LegNames(ctx) == {Resolve(ctx.view, LegTick(ctx.cmd, i)) : i \in LegsOf(ctx.cmd)} \ {""}

\* What is put aside, and of which token: an offer, a dispenser, a refill, a stake
EscrowName(ctx) ==
    LET idx == Field(ctx, "DISPENSER_ACTION_INDEX")
        refilled == IF idx \in DOMAIN ctx.view.dispensers THEN ctx.view.dispensers[idx].giveTick ELSE ""
    IN CASE ctx.cmd.action = "STAKE" -> GAS_TICK
         [] ctx.cmd.action = "DISPENSER" /\ ctx.cmd.version = 2 -> Resolve(ctx.view, refilled)
         [] ctx.cmd.action \in DURATION_FEE_ACTIONS /\ ctx.cmd.version = 0 -> Resolve(ctx.view, Field(ctx, "GIVE_TICK"))
         [] OTHER -> ""

Escrow(ctx) ==
    LET field == CASE ctx.cmd.action = "STAKE" -> "AMOUNT" [] ctx.cmd.action = "DISPENSER" -> "GIVE_ESCROW"
                   [] OTHER -> "GIVE_AMOUNT"
    IN IF EscrowName(ctx) = "" \/ Field(ctx, "GIVE_OWNERSHIP") = "1" THEN 0 ELSE NumOf(Field(ctx, field))

ChainFee(ctx) ==
    LET all == [ctx EXCEPT !.down = {}, !.online = TRUE]
        fee == ProjectCommandFee(all)
    IN IF ctx.cmd.action \in {"ISSUE"} \cup DURATION_FEE_ACTIONS /\ ctx.cmd.version = 0 /\ fee # None
       THEN fee[1].amount ELSE 0

\* The ledger after an accepted command
Ledger(ctx) ==
    LET row == Resolve(ctx.view, Field(ctx, "TICK"))
        own == Field(ctx, "DESTINATION") \in {"", ctx.source}
        Moved(name) ==
            CASE ctx.cmd.action \in {"SEND", "DESTROY"} -> Taken(ctx, name).credit - Taken(ctx, name).debit
              [] ctx.cmd.action = "MINT" /\ own /\ name = row -> NumOf(Field(ctx, "AMOUNT"))
              [] ctx.cmd.action = "ISSUE" /\ name = row -> NumOf(Field(ctx, "MINT_SUPPLY"))
              [] name = EscrowName(ctx) -> -Escrow(ctx)
              [] OTHER -> 0
        After(name) == Held(ctx.view, ctx.source, name) + Moved(name) - (IF name = GAS_TICK THEN ChainFee(ctx) ELSE 0)
    IN [ctx.view EXCEPT !.balances[ctx.source] = [name \in DOMAIN ctx.view.tokens |-> After(name)]]

\* What an accepted ISSUE leaves of its token's row
Issued(ctx, view) ==
    LET row == Resolve(view, Field(ctx, "TICK"))
        Set(f, old) == IF Given(ctx, f) THEN NumOf(Field(ctx, f)) ELSE old
    IN IF ctx.cmd.action # "ISSUE" \/ row = "" THEN view
       ELSE [view EXCEPT !.tokens[row].maxMint = Set("MAX_MINT", @), !.tokens[row].maxSupply = Set("MAX_SUPPLY", @),
                         !.tokens[row].supply = @ + NumOf(Field(ctx, "MINT_SUPPLY"))]

-----------------------------------------------------------------------------
RefusesTicks(ctx) ==
    LET Unknown(f, tick) == /\ Resolve(ctx.view, tick) = ""
                            /\ IsNative(ctx, tick) => NativeTickRefused(ctx, f)
    IN Err("TOKEN_NOT_FOUND",
           /\ ctx.cmd.action \notin {"ISSUE", "PRICE", "DISPENSE"}
           /\ \/ ctx.cmd.action = "DISPENSER" /\ ctx.cmd.version = 0 /\ ~Given(ctx, "GIVE_TICK")
              \/ \E f \in TICK_EXISTENCE_FIELDS :
                     ~IsCrossChainGet(ctx, f) /\ \E tick \in Range(Column(ctx.cmd, f)) \ {""} : Unknown(f, tick))

RefusesMint(ctx, row) ==
    LET amount == NumOf(Field(ctx, "AMOUNT"))
    IN Err("MINT_OVER_MAX", row.locked \/ (row.maxMint > 0 /\ amount > row.maxMint))
       \cup Err("SUPPLY_EXCEEDED", row.maxSupply > 0 /\ amount > row.maxSupply - row.supply)

RefusesIssue(ctx) ==
    LET row == Resolve(ctx.view, Field(ctx, "TICK"))
        max == NumOf(Field(ctx, "MAX_SUPPLY"))
        mints == NumOf(Field(ctx, "MINT_SUPPLY"))
        capped == ActiveByWallClock("ISSUE_MINT_SUPPLY_CUMULATIVE_CAP", ctx) = "active"
    IN Err("NOT_OWNER", row # "" /\ ctx.view.tokens[row].owner # ctx.source)
       \cup Err("SUPPLY_EXCEEDED", \/ max > 0 /\ row # "" /\ ctx.view.tokens[row].supply > max
                                   \/ max > 0 /\ mints > max
                                   \/ capped /\ max > 0 /\ mints > 0 /\ row # "" /\ ctx.view.tokens[row].supply + mints > max)

RefusesDispense(ctx) ==
    LET idx == Field(ctx, "DISPENSER_ACTION_INDEX")
        dispenser == ctx.view.dispensers[idx]
        settles == dispenser.state = "cancelling" /\ ActiveByWallClock("DISPENSE_CANCELLING_MATCH", ctx) = "active"
    IN IF idx \notin DOMAIN ctx.view.dispensers THEN {"DISPENSER_NOT_FOUND"}
       ELSE Err("DISPENSER_NOT_OPEN", dispenser.state \notin {"open", ""} /\ ~settles)
            \cup Err("DISPENSER_EMPTY", dispenser.remaining # None /\ dispenser.remaining[1] < dispenser.give)

RefusesLists(ctx) ==
    Err("LIST_NOT_FOUND",
        /\ ctx.cmd.action = "AIRDROP"
        /\ \E idx \in Range(Column(ctx.cmd, "LIST_ACTION_INDEX")) \ {""} :
               idx \in DOMAIN ctx.view.lists =>
                   ~ctx.view.lists[idx].valid /\ ActiveByWallClock("LIST_REFERENCE_VALIDITY", ctx) = "active")

\* Against the ledger: what is taken, put in escrow, owed as a fee
RefusesFunds(ctx) ==
    Err("BALANCE_INSUFFICIENT",
        \/ /\ ctx.cmd.action \in {"SEND", "DESTROY"}
           /\ \E name \in LegNames(ctx) : Taken(ctx, name).debit > Held(ctx.view, ctx.source, name)
        \/ Escrow(ctx) > Held(ctx.view, ctx.source, EscrowName(ctx))
        \/ ChainFee(ctx) > Held(ctx.view, ctx.source, GAS_TICK))

Refusals(ctx) ==
    LET row == Resolve(ctx.view, Field(ctx, "TICK"))
        idx == Field(ctx, "DISPENSER_ACTION_INDEX")
    IN IF ~ctx.cmd.ok THEN {"PARSE_INVALID"}
       ELSE RefusesTicks(ctx) \cup RefusesFunds(ctx) \cup RefusesLists(ctx)
            \cup (CASE ctx.cmd.action = "MINT" /\ row # "" -> RefusesMint(ctx, ctx.view.tokens[row])
                    [] ctx.cmd.action = "ISSUE" -> RefusesIssue(ctx)
                    [] ctx.cmd.action = "DISPENSE" -> RefusesDispense(ctx)
                    [] ctx.cmd.action = "DISPENSER" /\ idx # "" ->
                           Err("DISPENSER_NOT_FOUND", idx \notin DOMAIN ctx.view.dispensers)
                    [] OTHER -> {})

\* The refusals of each command in turn
Settled(done, child, refusals) ==
    [view |-> IF refusals = {} THEN Issued(child, Ledger(child)) ELSE done.view,
     refusals |-> Append(done.refusals, refusals)]

JudgeChild(done, child) == Settled(done, child, Refusals(child))

RefusalsInTurn(ctx) ==
    FoldLeft(LAMBDA done, cmd : JudgeChild(done, [ctx EXCEPT !.cmd = cmd, !.view = done.view]),
             [view |-> ctx.view, refusals |-> <<>>], CommandsOf(ctx.cmd)).refusals
=============================================================================
