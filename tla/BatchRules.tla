------------------------------- MODULE BatchRules -------------------------------
(***************************************************************************)
(* What a BATCH may hold (protocol/batch_limits.js and its parts), asked   *)
(* twice: by the validator before a BATCH is composed (validator/          *)
(* batch_rules.js, batch_and_bet.js) and by the decoder that reads one     *)
(* (parseBatch of decoder/parse.js).                                       *)
(*                                                                         *)
(* A BATCH is a sequence of commands, each a wire.  The per-leg weight of  *)
(* an AIRDROP is behind an activation height; asked without a height, only *)
(* a gate that is open from genesis counts.                                *)
(***************************************************************************)
EXTENDS ActionValidator

CONSTANTS
    BATCH_COMMAND_LIMIT,
    BATCH_WEIGHT_BUDGET,
    BATCH_COMMAND_WEIGHTS       \* action -> weight; 1 for the rest

UnknownHeight == -1
UNARMED == -1                   \* an activation row that is not armed

-----------------------------------------------------------------------------
(* Classifying a command.                                                  *)

\* The parameters as the chain counts them: version restored to a legacy form
CommandParams(wire) ==
    IF ExpandAlias(wire[1]) \in LEGACY_FORMAT_ACTIONS /\ IsLegacyActionFormat(Tail(wire))
    THEN <<"0">> \o Tail(wire) ELSE Tail(wire)

ClassifyIssueTick(tick) == IF ~IsCaret(tick) /\ HasDot(tick) THEN "ISSUE.CHILD" ELSE "ISSUE"

ClassifyCommand(wire) ==
    LET a == ExpandAlias(wire[1])
    IN IF a = "ISSUE" THEN ClassifyIssueTick(At(CommandParams(wire), 2)) ELSE a

CommandTick(wire) == Trim(At(CommandParams(wire), 2))

Lowered(w) == IF w = "X" THEN "x" ELSE w

\* mintTickKey: a caret id counts verbatim, a name in any case, "" for no tick at all
MintTickKey(tick) == IF IsCaret(tick) THEN tick ELSE Lowered(tick)

-----------------------------------------------------------------------------
(* Weights.                                                                *)

AirdropLegWeightActive(activation, height) ==
    IF height = UnknownHeight THEN activation = 0 ELSE activation # UNARMED /\ height >= activation

\* Which parameters open a leg, by format; i counts from the version, at 0
AirdropLegCount(params) ==
    LET last == Len(params) - 1
        format == FormatVersion(Trim(params[1]))
        Opens(i) == CASE format = 0 -> i = 0
                      [] format = 1 -> i > 1 /\ i % 2 = 1
                      [] format = 2 -> i > 0 /\ i % 3 = 1 /\ i < last
                      [] format = 3 -> i > 0 /\ i % 4 = 1 /\ i < last
                      [] OTHER -> FALSE
    IN Max({1, Cardinality({i \in 0..last : Opens(i)})})

ActionWeight(a) == IF a \in DOMAIN BATCH_COMMAND_WEIGHTS THEN BATCH_COMMAND_WEIGHTS[a] ELSE 1

SubCommandWeight(wire, activation, height) ==
    LET a == ExpandAlias(wire[1]) IN
    IF a = "DEPLOY" /\ FormatVersion(At(wire, 2)) = 4 THEN 1
    ELSE IF a = "AIRDROP" /\ Len(wire) > 1 /\ AirdropLegWeightActive(activation, height)
    THEN ActionWeight(a) * AirdropLegCount(Tail(wire))
    ELSE ActionWeight(a)

BatchWeight(wires, activation, height) ==
    FoldSeq(LAMBDA wire, n : n + SubCommandWeight(wire, activation, height), 0, wires)

-----------------------------------------------------------------------------
(* The limits per action.                                                  *)

BATCH_ACTION_LIMITS == [BATCH |-> 0, MINT |-> 1, ISSUE |-> 1, DEPLOY |-> 1]

CountOf(keys, k) == Cardinality({i \in DOMAIN keys : keys[i] = k})

MintsPerDistinctTick(ticks) ==
    LET keys == [i \in DOMAIN ticks |-> MintTickKey(ticks[i])]
    IN [max |-> Max({0} \cup {CountOf(keys, k) : k \in Range(keys)}),
        approximate |-> /\ \E k \in Range(keys) : IsCaret(k)
                        /\ \E k \in Range(keys) : ~IsCaret(k)]

\* The keys over their limit, among those of "limited"
OverLimit(keys, mintTicks, limited) ==
    {k \in limited \cap Range(keys) :
        (IF k = "MINT" THEN MintsPerDistinctTick(mintTicks).max ELSE CountOf(keys, k))
            > BATCH_ACTION_LIMITS[k]}

Keys(wires) == [i \in DOMAIN wires |-> ClassifyCommand(wires[i])]

MintTicks(wires) ==
    LET mints == SelectSeq(wires, LAMBDA wire : ClassifyCommand(wire) = "MINT")
    IN [i \in DOMAIN mints |-> CommandTick(mints[i])]

-----------------------------------------------------------------------------
(* The validator's verdict: the set of codes, for a SDK whose network has  *)
(* this activation row.                                                    *)

\* validateBatchCommand: what the decoder would say, guards included
DecodedErrors(decoded) == IF decoded.ok THEN RunValidation(decoded) ELSE {"BATCH_COMMAND_INVALID"}

ValidateBatchCommand(wire) == DecodedErrors(IF wire = <<"">> THEN NoDecode ELSE ParseAction(wire))

ValidateBatch(wires, activation) ==
    LET keys == Keys(wires)
        ticks == MintTicks(wires)
        Constraint(bad) == Err("BATCH_CONSTRAINT", bad)
    IN IF Len(wires) > BATCH_COMMAND_LIMIT
          \/ BatchWeight(wires, activation, UnknownHeight) > BATCH_WEIGHT_BUDGET
       THEN {"BATCH_CONSTRAINT"}
       ELSE UNION {IF keys[i] = "BATCH" THEN {"BATCH_CONSTRAINT"} ELSE ValidateBatchCommand(wires[i]) :
                       i \in DOMAIN wires}
            \cup Constraint(\/ OverLimit(keys, ticks, DOMAIN BATCH_ACTION_LIMITS \ {"BATCH"}) # {}
                            \/ MintsPerDistinctTick(ticks).approximate
                            \/ CountOf(keys, "FILE") > 1)

-----------------------------------------------------------------------------
(* The decoder's verdict at a height: the commands it read and the limit   *)
(* findings.  ok is FALSE for a refusal of the whole batch.                *)

NestsBatch(wire) == ExpandAlias(wire[1]) = "BATCH" /\ FormatVersion(Trim(At(wire, 2))) \in DOMAIN Formats["BATCH"]

\* appendGlobalBatchFinding, and only without one appendPerActionFindings
LimitFindings(wires, activation, height) ==
    IF Len(wires) > BATCH_COMMAND_LIMIT
       \/ BatchWeight(wires, activation, height) > BATCH_WEIGHT_BUDGET
    THEN {"COMMAND"}
    ELSE OverLimit(Keys(wires), MintTicks(wires), DOMAIN BATCH_ACTION_LIMITS)

DecodeBatch(wires, activation, height) ==
    IF wires = <<>> \/ \E i \in DOMAIN wires : NestsBatch(wires[i])
    THEN [ok |-> FALSE, commands |-> <<>>, findings |-> {}]
    ELSE [ok |-> TRUE,
          commands |-> [i \in DOMAIN wires |-> IF wires[i] = <<"">> THEN NoDecode ELSE ParseAction(wires[i])],
          findings |-> LimitFindings(wires, activation, height)]

-----------------------------------------------------------------------------
(* The text of a COMMAND split at every ; it holds.                        *)

SplitCommand(wire) ==
    FoldLeft(LAMBDA done, w : IF w = SemiWord
                              THEN SubSeq(done, 1, Len(done) - 1)
                                       \o <<Append(done[Len(done)], "x"), <<"y">>>>
                              ELSE [done EXCEPT ![Len(done)] = Append(@, w)], <<<<>>>>, wire)

SplitCommands(wires) == FoldLeft(LAMBDA done, wire : done \o SplitCommand(wire), <<>>, wires)

-----------------------------------------------------------------------------
(* COINPAY settles off-chain obligations with the outputs of the           *)
(* transaction that carries the batch (coinpay_output_plan.js).            *)

Owed(obligations, payee) ==
    FoldSeq(LAMBDA o, n : n + (IF o.payee = payee THEN o.amount ELSE 0), 0, obligations)

\* One output for each obligation
OutputPerObligation(obligations) ==
    [k \in DOMAIN obligations |-> [address |-> obligations[k].payee, amount |-> obligations[k].amount]]

PlanCoinpayOutputs(obligations) ==
    LET Firsts == {i \in DOMAIN obligations : \A j \in 1..(i - 1) : obligations[j].payee # obligations[i].payee}
        order == SetToSortSeq(Firsts, <)
    IN [k \in DOMAIN order |-> LET payee == obligations[order[k]].payee
                               IN [address |-> payee, amount |-> Owed(obligations, payee)]]

\* Only the first output to a payee is looked at
CheckCoinpayOutputPlan(obligations, outputs) ==
    \A payee \in {obligations[i].payee : i \in DOMAIN obligations} :
        \E k \in DOMAIN outputs :
            /\ outputs[k].address = payee
            /\ \A j \in 1..(k - 1) : outputs[j].address # payee
            /\ outputs[k].amount >= Owed(obligations, payee)
=============================================================================
