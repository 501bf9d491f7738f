------------------------------- MODULE Preflight -------------------------------
(***************************************************************************)
(* sdk.preflight() (preflight/index.js, lifecycle.js, tier1.js,            *)
(* index/tier1_findings.js): callers ask for a report on an action before  *)
(* they sign it.  Two tiers run side by side, the network's dry run and    *)
(* the client's own checks over what it reads; they meet in one report.    *)
(* Callers with the same question share one production of the report.      *)
(*                                                                         *)
(* The client's reads are one step of the model: what they see is one view *)
(* of the chain, another than the one the dry run judges.                  *)
(***************************************************************************)
EXTENDS PreflightBatch

CONSTANTS
    Callers,
    Asks,           \* caller -> what it may ask: wires, source, deltas, plane, mode, ...
    Views,          \* the states of the chain
    Downs,          \* sets of lookups that fail together
    MaxMoves        \* bounds the changes of the chain

VARIABLES
    view,           \* what the chain holds
    moves,
    runs,           \* the production each caller started, if it did
    calls           \* each caller's promise

preflightVars == <<view, moves, runs, calls>>

NoRun == [started |-> FALSE]
Pending == [kind |-> "pending"]

Starters == {c \in Callers : runs[c] # NoRun}
InFlight(c) == c \in Starters /\ ~runs[c].settled

\* Coalescer.key: the chain, the action, the source, the reservations in any order
KeyWithoutDeltas(ask) == <<ask.plane, ask.wires, ask.source>>

Times(d, deltas) == Cardinality({i \in DOMAIN deltas : deltas[i] = d})
Key(ask) ==
    <<ask.plane, ask.wires, ask.source, [d \in Range(ask.deltas) |-> Times(d, ask.deltas)]>>

-----------------------------------------------------------------------------
(* Tier 1.                                                                 *)

TIER1_DENYLIST == {"DEPLOY", "EXECUTE", "XEXEC", "BATCH"}
TIER1_SUBCOMMAND_PREFLIGHT == {"BATCH"}
Denied == TIER1_DENYLIST \ TIER1_SUBCOMMAND_PREFLIGHT

\* What came of the request: the state of the chain a quote speaks of, or why there is none
Answer(kind) == [kind |-> kind, judged |-> <<>>, height |-> UnknownHeight]
QuoteOf(judged, height) == [kind |-> "quote", judged |-> judged, height |-> height]

\* runTier1, up to the request
Tier1Start(ask, parsed) ==
    IF ask.mode = "local" \/ parsed.action \in Denied THEN Answer("no-verdict") ELSE Pending

Context(run) ==
    [cmd |-> NormalizeInput(run.ask.wires), index |-> 0, source |-> run.ask.source, deltas |-> run.ask.deltas,
     view |-> run.seen, down |-> run.down, online |-> run.ask.mode # "local", plane |-> run.ask.plane,
     height |-> run.tier1.height, now |-> run.ask.now, feeMode |-> run.ask.feeMode]

NoVerdict == [verdict |-> FALSE, valid |-> FALSE, subs |-> <<>>]

\* classifyQuote of an honest node: the whole action, each command of a BATCH
\* or, when one may not be evaluated, nothing
Quote(commands, refusals, batch) ==
    LET Status(i) == IF commands[i].action = "DISPENSER" THEN "unjudged"
                     ELSE IF refusals[i] = {} THEN "valid" ELSE "refused"
    IN IF \E i \in DOMAIN commands : commands[i].action \in Denied THEN NoVerdict
       ELSE [verdict |-> TRUE, valid |-> batch \/ refusals[1] = {},
             subs |-> IF batch THEN [i \in DOMAIN commands |-> Status(i)] ELSE <<>>]

QuoteIn(ctx) == Quote(CommandsOf(ctx.cmd), RefusalsInTurn(ctx), IsBatch(ctx.cmd))

DryRun(run) ==
    IF run.tier1.kind = "quote" THEN QuoteIn([Context(run) EXCEPT !.view = run.tier1.judged]) ELSE NoVerdict

-----------------------------------------------------------------------------
(* tier1_findings.js: the report.                                          *)

DryRunNote(code, severity) ==
    [code |-> code, cmd |-> 0, local |-> FALSE, source |-> "dryrun", severity |-> severity]

\* pushSubCommandFindings
SubCommandNotes(tier1) ==
    {[DryRunNote(IF tier1.subs[i] = "refused" THEN "DRYRUN_SUBCOMMAND_INVALID" ELSE "DRYRUN_SUBCOMMAND_UNJUDGED",
                 IF tier1.subs[i] = "refused" THEN "error" ELSE "info") EXCEPT !.cmd = i] :
         i \in {k \in DOMAIN tier1.subs : tier1.subs[k] # "valid"}}

\* Does an accepting dry run outrank this finding
Outranked(n, tier1) ==
    IF tier1.subs = <<>> THEN TRUE
    ELSE IF n.cmd # 0 THEN tier1.subs[n.cmd] = "valid" ELSE Range(tier1.subs) = {"valid"}

\* The network knows nothing of what the caller's wallet has committed
Downgrade(n, tier1) ==
    IF n.severity # "error" \/ ~Outranked(n, tier1) THEN n
    ELSE [n EXCEPT !.severity = IF n.local THEN "warning" ELSE "info"]

ApplyTier1(notes, tier1) ==
    CASE tier1.verdict /\ tier1.valid ->
             {Downgrade(n, tier1) : n \in notes} \cup SubCommandNotes(tier1) \cup {DryRunNote("DRYRUN_VALID", "info")}
      [] tier1.verdict /\ ~tier1.valid ->
             notes \cup SubCommandNotes(tier1) \cup {DryRunNote("DRYRUN_INVALID", "error")}
      [] OTHER -> notes \cup {DryRunNote("DRYRUN_UNAVAILABLE", "info")}

ComputeVerdict(notes) ==
    LET severities == {n.severity : n \in notes}
    IN IF "error" \in severities THEN "fail" ELSE IF "warning" \in severities THEN "warn" ELSE "pass"

Report(run) == ApplyTier1(ClientChecks(Context(run), run.ask.wires, run.ask.encoding), DryRun(run))

-----------------------------------------------------------------------------
(* The calls.                                                              *)

PreflightInit(who) ==
    /\ view \in Views
    /\ moves \in {0, MaxMoves}
    /\ runs = [c \in Callers |-> NoRun]
    /\ calls = [c \in Callers |-> [phase |-> IF c \in who THEN "idle" ELSE "left"]]

Waiting(ask, starter) == [phase |-> "waiting", ask |-> ask, run |-> starter]

\* runPreflight: nothing is asked when the mode is false or the input is no action
Call(c, ask) ==
    LET parsed == NormalizeInput(ask.wires)
        shared == {s \in Starters : /\ InFlight(s) /\ ~runs[s].ask.bypass
                                    /\ Key(runs[s].ask) = Key(ask)}
        starter == IF shared = {} \/ ask.bypass THEN c ELSE CHOOSE s \in shared : TRUE
    IN /\ calls[c].phase = "idle"
       /\ IF ask.mode = "false" \/ ~parsed.ok
          THEN /\ calls' = [calls EXCEPT ![c].phase = "left"]
               /\ UNCHANGED runs
          ELSE /\ calls' = [calls EXCEPT ![c] = Waiting(ask, starter)]
               /\ runs' = IF starter # c THEN runs
                          ELSE [runs EXCEPT ![c] = [ask |-> ask, tier1 |-> Tier1Start(ask, parsed),
                                                    seen |-> Pending, down |-> {}, settled |-> FALSE]]
       /\ UNCHANGED <<view, moves>>

AwaitsTier1(c) == InFlight(c) /\ runs[c].tier1 = Pending
AwaitsTier2(c) == InFlight(c) /\ runs[c].seen = Pending

\* The dry run answers, at the height of the chain it judged
Tier1Answers(c) ==
    /\ AwaitsTier1(c)
    /\ runs' = [runs EXCEPT ![c].tier1 = QuoteOf(view, runs[c].ask.now)]
    /\ UNCHANGED <<view, moves, calls>>

\* withAbort's timer, a full queue, a response that carries no verdict
Tier1Fails(c) ==
    /\ AwaitsTier1(c)
    /\ runs' = [runs EXCEPT ![c].tier1 = Answer("unavailable")]
    /\ UNCHANGED <<view, moves, calls>>

\* The client's reads; those that fail or time out
Tier2Reads(c, down) ==
    /\ AwaitsTier2(c)
    /\ runs' = [runs EXCEPT ![c].seen = view, ![c].down = down]
    /\ UNCHANGED <<view, moves, calls>>

\* Both tiers are in: everyone who waits for this production has its report
Settle(c) ==
    /\ InFlight(c) /\ ~AwaitsTier1(c) /\ ~AwaitsTier2(c)
    /\ calls' = [d \in Callers |-> IF calls[d].phase = "waiting" /\ calls[d].run = c
                                   THEN [calls[d] EXCEPT !.phase = "done"] ELSE calls[d]]
    /\ runs' = [runs EXCEPT ![c].settled = TRUE]
    /\ UNCHANGED <<view, moves>>

\* A caller's signal: its own promise is rejected; the signal of the caller that
\* started the production also ends its request and its reads
Abort(c) ==
    /\ calls[c].phase = "waiting"
    /\ calls' = [calls EXCEPT ![c].phase = "aborted"]
    /\ runs' = IF calls[c].run # c THEN runs
               ELSE [runs EXCEPT ![c].tier1 = IF @ = Pending THEN Answer("unavailable") ELSE @,
                                 ![c].seen = IF @ = Pending THEN view ELSE @,
                                 ![c].down = IF runs[c].seen = Pending THEN UNION Downs ELSE @]
    /\ UNCHANGED <<view, moves>>

\* External: other transactions confirm
ChainMoves ==
    /\ moves < MaxMoves
    /\ moves' = moves + 1
    /\ view' \in Views \ {view}
    /\ UNCHANGED <<runs, calls>>

PreflightNext ==
    \/ ChainMoves
    \/ \E c \in Callers :
           \/ \E ask \in IF calls[c].phase = "idle" THEN Asks[c] ELSE {} : Call(c, ask)
           \/ Tier1Answers(c) \/ Tier1Fails(c) \/ Settle(c) \/ Abort(c)
           \/ \E down \in Downs : Tier2Reads(c, down)

-----------------------------------------------------------------------------
(* What is asked of a report.                                              *)

Codes(notes) == {n.code : n \in notes}
Open(notes) == {n.code : n \in {m \in notes : m.severity = "unverified"}}
LOOKUPS == {"TOKEN_LOOKUP", "BALANCE_LOOKUP", "NATIVE_BALANCE_LOOKUP", "LIST_LOOKUP", "DISPENSER_LOOKUP"}

Reported == {c \in Callers : calls[c].phase = "done"}
RunOf(c) == runs[calls[c].run]
Notes(c) == Report(RunOf(c))

\* What the chain the checks read from would refuse of the caller's action
JudgedByTheChain(c) == RefusalsInTurn([Context(RunOf(c)) EXCEPT !.deltas = <<>>, !.down = {}, !.online = TRUE])

Commits(deltas, spellings) ==
    Sum([i \in DOMAIN deltas |-> IF deltas[i].tick \in spellings THEN deltas[i].amount ELSE 0])

\* A report that passes a transfer whose balance it could read
Covers(notes) == ComputeVerdict(notes) = "pass" /\ "BALANCE_INSUFFICIENT" \notin Open(notes)

CommitsFit(cmd, ask, seen) ==
    cmd.action \in {"SEND", "DESTROY"} =>
        \A tick \in {LegTick(cmd, i) : i \in LegsOf(cmd)} :
            LET committed == Commits(ask.deltas, {tick})
            IN committed > 0 => PerTickTotal(cmd, tick) + committed <= Held(seen, ask.source, Resolve(seen, tick))

\* What a caller's wallet has committed already and a transfer on top of it never
\* pass together beyond the balance that was read (constants.js, the rule of
\* reservations): neither an accepting dry run, which knows nothing of the
\* reservations, nor the report of another caller hides it.
ReservationsAreSeen ==
    \A c \in Reported :
        Covers(Notes(c)) => CommitsFit(NormalizeInput(calls[c].ask.wires), calls[c].ask, RunOf(c).seen)

NETWORK_CODES ==
    {"BALANCE_INSUFFICIENT", "TOKEN_NOT_FOUND", "NOT_OWNER", "SUPPLY_EXCEEDED", "MINT_OVER_MAX",
     "LIST_NOT_FOUND", "DISPENSER_NOT_FOUND", "DISPENSER_NOT_OPEN", "DISPENSER_EMPTY"}

Blocking(notes) == {n \in notes : n.source = "client" /\ n.severity = "error" /\ n.code \in NETWORK_CODES}

\* The chain refuses the command of every blocking finding, or one before it
CertifiedByTheChain(blocking, judged) ==
    \A n \in blocking : \E i \in 1..(IF n.cmd = 0 THEN Len(judged) ELSE n.cmd) : judged[i] # {}

IsPlain(wires) ==
    \A i, j \in DOMAIN wires :
        /\ ~(i < j /\ wires[i][1] = "ISSUE" /\ wires[j][1] = "MINT")
        /\ IsCaret(CommandTick(wires[i])) = IsCaret(CommandTick(wires[j]))

BlocksTruly(c) ==
    RunOf(c).ask.deltas = <<>> => CertifiedByTheChain(Blocking(Notes(c)), JudgedByTheChain(c))

\* A report fails on what it read of the chain only when a chain in that state
\* refuses the command, or one before it in the same BATCH (constants.js: the
\* codes certified to be errors).
\* A BATCH that issues a token and then mints it, and one that spells a token in
\* two ways, are left to NothingIsFalselyBlocked.
NoFalseBlock == \A c \in Reported : IsPlain(calls[c].ask.wires) => BlocksTruly(c)

GreenIsExplained(notes, tier1, judged) ==
    ComputeVerdict(notes) = "pass" /\ ~(tier1.verdict /\ tier1.valid)
    => \A i \in DOMAIN judged : \A code \in judged[i] : code \in Codes(notes) \/ Open(notes) \cap LOOKUPS # {}

\* A report never passes an action the chain it read would refuse without a
\* word on what it was refused for: a finding, an entry of the list of what was
\* not verified, a read that failed.  An accepting dry run is the chain's word.
NoSilentGreen == \A c \in Reported : GreenIsExplained(Notes(c), DryRun(RunOf(c)), JudgedByTheChain(c))

-----------------------------------------------------------------------------
(* What the documentation says and the code does not do.                   *)

\* lifecycle.js: identical runs share one promise; coalescing merges the request
\* only.  index.js: a caller in a networked mode has the dry run as its first tier.
JoinersAskTheSame ==
    \A c \in Reported : calls[c].ask.mode # "local" => RunOf(c).ask.mode # "local"

\* The commitments of either spelling
CommitsFitNamed(cmd, ask, seen) ==
    LET name == Resolve(seen, LegTick(cmd, 1))
        committed == Commits(ask.deltas, {name, LegTick(cmd, 1)})
    IN cmd.action = "SEND" /\ committed > 0 =>
           PerTickTotal(cmd, LegTick(cmd, 1)) + committed <= Held(seen, ask.source, name)

\* context.js: a reservation may name the tick by its wire spelling or by the
\* resolved name, both net
ReservationsNetEitherWay ==
    \A c \in Reported :
        Covers(Notes(c)) => CommitsFitNamed(NormalizeInput(calls[c].ask.wires), calls[c].ask, RunOf(c).seen)

\* constants.js: what is certified to be an error is refused by the chain
NothingIsFalselyBlocked == \A c \in Reported : BlocksTruly(c)
=============================================================================
