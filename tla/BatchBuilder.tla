------------------------------ MODULE BatchBuilder ------------------------------
(***************************************************************************)
(* Composing a BATCH: sdk.batch() (carrier/batch_builder.js) queues        *)
(* actions, checks the batch, compacts the tickers of each action while it *)
(* composes it, weighs the strings it got at the height the batch will be  *)
(* judged at, and composes the BATCH; or a caller writes COMMAND itself    *)
(* and hands it to createAction.                                           *)
(***************************************************************************)
EXTENDS BatchRules, ActionPipeline

CONSTANTS
    Entries,        \* [action, fields, legs] a caller queues
    RawCommands,    \* commands a caller writes by hand
    Commands,       \* how many a batch holds at most
    CaretOf,        \* ticker word -> its ^id, for the tokens that have one
    Activations,    \* rows of the AIRDROP leg weight
    Heights,        \* heights the chain may have
    Payees, Amounts

VARIABLES
    way,            \* "builder"; "hand", the caller writes COMMAND; "coinpay", a buyer settles
    activation,
    tip,            \* the explorer's tip; UnknownHeight when it does not answer
    queue,          \* entries, or commands
    batch,          \* what was composed: [wires, said], NoBatch before
    obligations,    \* of the COINPAYs of the batch, in their order
    outputs         \* of the transaction that carries it

batchVars == <<way, activation, tip, queue, batch, obligations, outputs>>

NoBatch == [wires |-> <<>>, said |-> <<>>]

BatchNet == [coin |-> "BTC", networked |-> TRUE, canonical |-> TRUE, segwit |-> TRUE]

AsRequest(e) == [action |-> e.action, pinned |-> NoVersion, net |-> BatchNet, encoding |-> "none"]

-----------------------------------------------------------------------------
(* Composition.                                                            *)

\* tickResolver: the ticker of an action by its id, once the token has one.  An ISSUE
\* is compacted in the forms that edit an existing token, and a child's name comes back
\* (restoreChildIssueTick).
CompactTick(e, known) ==
    LET tick == First(e.fields, "TICK")
        compacts == /\ tick \in known
                    /\ \/ e.action # "ISSUE"
                       \/ IssueFormat(e.fields, NoVersion) \in {6, 7} /\ ~HasDot(tick)
    IN IF compacts THEN [e.fields EXCEPT !.TICK = <<CaretOf[tick]>>] ELSE e.fields

ComposedEntry(e, known) == Composed(AsRequest(e), CompactTick(e, known), e.legs)

-----------------------------------------------------------------------------
(* BatchBuilder.validate, over the queued parameters.                      *)

\* paramsTick: the tick of the flat parameters
QueuedTick(e) == First(e.fields, "TICK")

QueuedKey(e) == IF e.action = "ISSUE" THEN ClassifyIssueTick(QueuedTick(e)) ELSE e.action

\* AIRDROP is composed to count its legs; an ill-formed one weighs what one leg does
DryWeight(a, dry) ==
    IF dry = NotSent THEN ActionWeight(a) ELSE SubCommandWeight(dry.wire, activation, UnknownHeight)

QueuedWeight(e) ==
    IF e.action = "AIRDROP" THEN DryWeight(e.action, ComposedEntry(e, {})) ELSE ActionWeight(e.action)

BuilderValidates ==
    LET keys == [i \in DOMAIN queue |-> QueuedKey(queue[i])]
        mints == SelectSeq(queue, LAMBDA e : QueuedKey(e) = "MINT")
        ticks == [i \in DOMAIN mints |-> Trim(QueuedTick(mints[i]))]
    IN /\ queue # <<>>
       /\ Len(queue) <= BATCH_COMMAND_LIMIT
       /\ FoldSeq(LAMBDA e, n : n + QueuedWeight(e), 0, queue) <= BATCH_WEIGHT_BUDGET
       /\ OverLimit(keys, ticks, DOMAIN BATCH_ACTION_LIMITS) = {}
       /\ ~MintsPerDistinctTick(ticks).approximate
       /\ CountOf(keys, "FILE") <= 1

-----------------------------------------------------------------------------
\* The gate never looked up
WeighedNow(wires) == UnknownHeight

\* targetWeightAt: the explicit or the next height, when the gate can make a difference
TargetHeight(wires) ==
    IF BatchWeight(wires, activation, UnknownHeight) = BatchWeight(wires, activation, Max(Heights) + 1)
    THEN UnknownHeight
    ELSE IF tip = UnknownHeight THEN UnknownHeight ELSE tip + 1

ComposesBatch(wires, said) ==
    /\ ValidateBatch(wires, activation) = {}
    /\ batch' = [wires |-> SplitCommands(wires), said |-> said]
    /\ UNCHANGED <<way, activation, tip, queue, obligations, outputs>>

\* The composed actions, weighed at the target height and joined
ComposesActions(subs, wires) ==
    /\ \A i \in DOMAIN subs : subs[i] # NotSent
    /\ BatchWeight(wires, activation, TargetHeight(wires)) <= BATCH_WEIGHT_BUDGET
    /\ ComposesBatch(wires, subs)

ComposesEntries(subs) == ComposesActions(subs, [i \in DOMAIN subs |-> subs[i].wire])

\* BatchBuilder.build; a refusal leaves the queue as it was
Build ==
    /\ way = "builder" /\ batch = NoBatch
    /\ BuilderValidates
    /\ \E known \in SUBSET {t \in DOMAIN CaretOf : \E i \in DOMAIN queue : QueuedTick(queue[i]) = t} :
           ComposesEntries([i \in DOMAIN queue |-> ComposedEntry(queue[i], known)])

\* createAction({action: BATCH, params: {command}})
BuildByHand ==
    /\ way = "hand" /\ batch = NoBatch /\ queue # <<>>
    /\ ComposesBatch(queue, <<>>)

Add ==
    /\ way # "coinpay" /\ batch = NoBatch /\ Len(queue) < Commands
    /\ \E e \in IF way = "hand" THEN RawCommands ELSE Entries : queue' = Append(queue, e)
    /\ UNCHANGED <<way, activation, tip, batch, obligations, outputs>>

\* A COINPAY joins the batch: what the buyer owes
Owe ==
    /\ way = "coinpay" /\ Len(obligations) < Commands
    /\ \E p \in Payees, n \in Amounts :
           obligations' = Append(obligations, [payee |-> p, amount |-> n])
    /\ outputs' = PlanCoinpayOutputs(obligations')
    /\ UNCHANGED <<way, activation, tip, queue, batch>>

\* The wallet builds other outputs than the plan's
OtherOutputs ==
    /\ obligations # <<>>
    /\ \E p \in Payees, n \in Amounts : Len(outputs) < Commands + 1 /\ outputs' = Append(outputs, [address |-> p, amount |-> n])
    /\ UNCHANGED <<way, activation, tip, queue, batch, obligations>>

DropOutput ==
    /\ outputs # <<>> /\ obligations # <<>>
    /\ outputs' = Tail(outputs)
    /\ UNCHANGED <<way, activation, tip, queue, batch, obligations>>

BatchInit(ways, rows, tips) ==
    /\ way \in ways /\ activation \in rows /\ tip \in tips
    /\ way # "builder" => tip = UnknownHeight
    /\ queue = <<>> /\ batch = NoBatch
    /\ obligations = <<>> /\ outputs = <<>>

BatchNext == Add \/ Build \/ BuildByHand \/ Owe \/ OtherOutputs \/ DropOutput

-----------------------------------------------------------------------------
(* What a batch that was composed is worth on chain.                       *)

BatchIsAccepted(read) ==
    /\ read.ok /\ read.findings = {}
    /\ \A c \in Range(read.commands) : c.ok /\ Findings(RunValidation(c)) = {}

\* The decoder and the validator judge a batch alike (batch_rules.js, parse.js): what was
\* composed is read whole, command by command, with no limit finding at the next
\* height as the explorer tells it, and no finding in a command.
BatchVerdictsAgree ==
    batch # NoBatch =>
        BatchIsAccepted(DecodeBatch(batch.wires, activation, IF tip = UnknownHeight THEN tip ELSE tip + 1))

\* The chain's settlement of a batch: each COINPAY draws on the first output to its payee
\* (the ledger coinpay_output_plan.js describes)
ChainSettles ==
    \A i \in DOMAIN obligations :
        LET payee == obligations[i].payee
            owedSoFar == Owed(SubSeq(obligations, 1, i), payee)
            paying == {k \in DOMAIN outputs : outputs[k].address = payee}
        IN paying # {} /\ outputs[Min(paying)].amount >= owedSoFar

\* coinpay_output_plan.js: the check passes exactly the outputs with which the chain settles
\* every obligation, and the plan's own outputs are among them.
PlanSettles ==
    /\ CheckCoinpayOutputPlan(obligations, outputs) <=> ChainSettles
    /\ CheckCoinpayOutputPlan(obligations, PlanCoinpayOutputs(obligations))
=============================================================================
