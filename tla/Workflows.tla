----------------------------- MODULE Workflows -----------------------------
(***************************************************************************)
(* Workflows (actions/workflows/*.js, contract/chunk_helper.js): several   *)
(* actions submitted one after the other, a later one often naming the     *)
(* index of an earlier one.  A step may fail before its broadcast, in it   *)
(* or after it, and may come back without an index; the error carries what *)
(* was done, as far as the SDK heard of it.                                *)
(* A large contract is deployed in chunks and assembled by a DEPLOY whose  *)
(* contract may come into being under another index, later.                *)
(***************************************************************************)
EXTENDS Integers, Sequences, FiniteSets

CONSTANTS
    CodeSizes,      \* sizes of contract sources, in parts
    SingleFits,     \* MAX_ACTION_DATA_LENGTH: the largest source one DEPLOY holds
    MaxDeployChunks,\* MAX_DEPLOY_CHUNKS
    MaxCodeSize,    \* MAX_CODE_SIZE
    MaxReads        \* bound on the reads of resolveDeployedContract

ASSUME SizesAssumption == CodeSizes \subseteq Nat

VARIABLES
    flow,       \* the workflow: name, source size, deposits, whether it has a TIS
    plan,       \* its steps, in order
    step,       \* the step under way
    partial,    \* p: what is reported, by step
    onChain,    \* steps broadcast: index given, index named, whether the answer was heard
    known,      \* indexes the workflow has: "file", "tis", "list", "contract", "assembler"
    contractAt, \* the index of the contract on the chain, 0 while pending, -1 if none
    reads,
    flowEnd     \* "open", "returned" or the error: whether it names a txid

flowVars == <<flow, plan, step, partial, onChain, known, contractAt, reads, flowEnd>>

Bridges == [version : {0, 1, 3, 4, 7}, tick : {"none", "plain", "dotted"},
            dest : {"valid", "invalid", "otherCoin"}, network : BOOLEAN]
NoBridge == CHOOSE b \in Bridges : b.version = 0

Flow(name, size, deposits, tis) ==
    [name |-> name, size |-> size, deposits |-> deposits, tis |-> tis, bridge |-> NoBridge]

\* Workflows of one action.
TradeFlows == {"createDispenser", "createOrder", "cancelOrder"}
NftFlows == {"distributeDividend", "issueNft", "issueNftEdition", "issueCollectionItem"}
VoteAndMarketFlows == {"createPoll", "castBallot", "delegateVote", "clearVoteDelegation",
                       "openMarket", "placeBet", "resolveMarket", "cancelMarket"}
SingleFlows == TradeFlows \cup NftFlows \cup VoteAndMarketFlows \cup {"bridge"}

Flows ==
    {Flow(n, 0, 2, FALSE) : n \in {"issueAndDistribute", "issueAndMint", "stakeAndDelegate",
                                   "stakeToContractAndDelegate", "deployAndFund", "setRoster"}
                                  \cup (SingleFlows \ {"bridge"})}
    \cup {Flow("attachContent", 0, 0, t) : t \in BOOLEAN}
    \cup {Flow("deployContract", s, d, FALSE) : s \in CodeSizes, d \in {0, 2}}
    \cup {[Flow("bridge", 0, 0, FALSE) EXCEPT !.bridge = b] : b \in Bridges}

Repeat(x, n) == [i \in 1..n |-> x]

-----------------------------------------------------------------------------
(* contract/chunk_helper.js *)

\* fitsSingleDeploy, with deployOverhead
FitsSingleDeploy(size) == size <= SingleFits

\* splitCode: one part at least.
Parts(size) == IF size = 0 THEN 1 ELSE size

\* assertBridgeAddress: a credit cannot be recalled, so the address must be one of
\* the coin and network.  bridgeTokenLock takes a plain tick, bridgeTokenBurn a
\* bridged one; setTokenBridgeability names coins only.
BridgeRefused(b) ==
    CASE b.version \in {0, 1} -> b.dest # "valid" \/ ~b.network
      [] b.version = 3 -> b.tick # "plain" \/ b.dest # "valid" \/ ~b.network
      [] b.version = 4 -> b.tick # "dotted" \/ b.dest # "valid" \/ ~b.network
      [] OTHER -> b.dest = "otherCoin"

\* planDeploy and assertAssemblerFits refuse before anything is broadcast.
PlanRefused(f) ==
    \/ /\ f.name = "deployContract"
       /\ f.size > MaxCodeSize \/ (~FitsSingleDeploy(f.size) /\ Parts(f.size) > MaxDeployChunks)
    \/ f.name = "bridge" /\ BridgeRefused(f.bridge)

Chunked(f) == f.name = "deployContract" /\ ~FitsSingleDeploy(f.size)

\* issueAndDistribute, issueAndMint, stakeAndDelegate, stakeToContractAndDelegate
IssueSteps(f) ==
    CASE f.name = "issueAndDistribute" -> <<"issue">> \o Repeat("send", f.deposits)
      [] f.name = "issueAndMint" -> <<"issue", "mint">>
      [] OTHER -> <<"stake", "delegate">>

\* attachContent, setRoster
ContentSteps(f) ==
    IF f.name = "setRoster" THEN <<"list", "link">>
    ELSE <<"file", "link">> \o (IF f.tis THEN <<"tisFile", "describe">> ELSE <<>>)

\* deployAndFund, deployContract
DeploySteps(f) ==
    (IF Chunked(f) THEN Repeat("chunk", Parts(f.size)) \o <<"assemble", "resolve">> ELSE <<"deploy">>)
    \o Repeat("deposit", f.deposits)

\* The actions of a workflow, in the order they are submitted.
StepsOf(f) ==
    CASE f.name \in SingleFlows -> <<"submit">>
      [] f.name \in {"setRoster", "attachContent"} -> ContentSteps(f)
      [] f.name \in {"deployAndFund", "deployContract"} -> DeploySteps(f)
      [] OTHER -> IssueSteps(f)

\* The index a step gives the workflow, and the one it needs.
Gives(s) == CASE s = "file" -> "file" [] s = "tisFile" -> "tis" [] s = "list" -> "list"
              [] s = "deploy" -> "contract" [] s = "assemble" -> "assembler" [] OTHER -> "none"
Needs(s) == CASE s = "link" -> IF flow.name = "setRoster" THEN "list" ELSE "file"
              [] s = "describe" -> "tis" [] s = "deposit" -> "contract"
              [] OTHER -> "none"

-----------------------------------------------------------------------------
FlowInit(flows) ==
    /\ flow \in flows
    /\ plan = StepsOf(flow)
    /\ step = 1 /\ partial = {} /\ onChain = {}
    /\ known = [k \in {} |-> 0]
    /\ contractAt = 0 /\ reads = 0
    /\ flowEnd = IF PlanRefused(flow) THEN "refused" ELSE "open"

Running == flowEnd = "open" /\ step <= Len(plan)

\* An index is missing: the session did not wait for the indexer.
Lacks == Needs(plan[step]) \notin DOMAIN known \cup {"none"}

\* The next action goes out.  Indexes grow; the contract of a plain DEPLOY is its
\* own action, and an assembled one comes later.
Broadcast(heard) ==
    /\ onChain' = onChain \cup {[step |-> step, kind |-> plan[step], index |-> 10 * step,
                                 heard |-> heard,
                                 names |-> IF Needs(plan[step]) = "none" THEN 0
                                           ELSE known[Needs(plan[step])]]}
    /\ contractAt' = IF plan[step] = "deploy" THEN 10 * step ELSE contractAt

Learnt(k, index) == [x \in DOMAIN known \cup {k} |-> IF x = k THEN index ELSE known[x]]

\* The step is submitted and comes back, with its index or without.
StepDone(indexed) ==
    /\ Running /\ plan[step] # "resolve" /\ ~Lacks
    /\ Broadcast(TRUE)
    /\ partial' = partial \cup {step}
    /\ known' = IF indexed /\ Gives(plan[step]) # "none" THEN Learnt(Gives(plan[step]), 10 * step)
                ELSE known
    /\ step' = step + 1
    /\ UNCHANGED <<flow, plan, reads, flowEnd>>

\* withPartial: the error of a step carries what was done before it.  An error
\* after the broadcast (a time-out, a rejection) names the transaction; the error
\* of the broadcast itself does not, and the broadcast may have been carried out.
StepFails(when) ==
    /\ Running /\ plan[step] # "resolve" /\ ~Lacks
    /\ IF when = "before" THEN UNCHANGED <<onChain, contractAt>> ELSE Broadcast(when = "after")
    /\ flowEnd' = IF when = "after" THEN "failedWithTxid" ELSE "failed"
    /\ UNCHANGED <<flow, plan, step, partial, known, reads>>

\* "action_index unavailable; submit with waitForIndexer enabled"
StepLacks ==
    /\ Running /\ plan[step] # "resolve" /\ Lacks
    /\ flowEnd' = "failed"
    /\ UNCHANGED <<flow, plan, step, partial, onChain, known, contractAt, reads>>

\* The chain assembles the contract: at the assembler's own index if it completes
\* the group, at a carrier's after a reorg put the assembler first; or not at all.
Assembles(how) ==
    /\ contractAt = 0
    /\ \E a \in onChain :
          /\ a.kind = "assemble"
          /\ contractAt' = CASE how = "self" -> a.index [] how = "carrier" -> a.index + 5 [] OTHER -> -1
    /\ UNCHANGED <<flow, plan, step, partial, onChain, known, reads, flowEnd>>

\* Mutant: the contract is taken to be at the assembler's index.
InspectedAssembler(age) == IF age = "unread" \/ contractAt <= 0 THEN 0 ELSE known["assembler"]

\* inspectDeploymentDetail: the deployed index, a failure (-1), or nothing yet (0).
\* An older explorer knows the assembler's own status only.
Inspected(age) ==
    CASE age = "current" -> contractAt
      [] age = "older" -> IF contractAt \in {-1, known["assembler"]} THEN contractAt ELSE 0
      [] OTHER -> 0

\* resolveDeployedContract: a read, or a read error; the deadline ends it.
Resolve(age) ==
    /\ Running /\ plan[step] = "resolve" /\ "assembler" \in DOMAIN known
    /\ LET found == Inspected(age)
       IN  CASE found > 0 -> /\ known' = Learnt("contract", found) /\ step' = step + 1
                             /\ UNCHANGED <<reads, flowEnd>>
             [] found = -1 -> flowEnd' = "failed" /\ UNCHANGED <<known, step, reads>>
             [] OTHER -> /\ reads' = reads + 1
                         /\ flowEnd' = IF reads + 1 >= MaxReads THEN "failed" ELSE "open"
                         /\ UNCHANGED <<known, step>>
    /\ UNCHANGED <<flow, plan, partial, onChain, contractAt>>

\* Without the assembler's index there is nothing to resolve.
ResolveSkipped ==
    /\ Running /\ plan[step] = "resolve" /\ "assembler" \notin DOMAIN known
    /\ step' = step + 1
    /\ UNCHANGED <<flow, plan, partial, onChain, known, contractAt, reads, flowEnd>>

FlowReturns ==
    /\ flowEnd = "open" /\ step > Len(plan)
    /\ flowEnd' = "returned"
    /\ UNCHANGED <<flow, plan, step, partial, onChain, known, contractAt, reads>>

FlowNext ==
    \/ \E b \in BOOLEAN : StepDone(b)
    \/ \E when \in {"before", "lost", "after"} : StepFails(when)
    \/ \E how \in {"self", "carrier", "not"} : Assembles(how)
    \/ StepLacks \/ ResolveSkipped \/ FlowReturns
    \/ \E age \in {"current", "older", "unread"} : Resolve(age)

FlowSpec(flows) == FlowInit(flows) /\ [][FlowNext]_flowVars

-----------------------------------------------------------------------------
\* What the caller cannot account for is at most one action, and which one is
\* known: every action on the chain is in what is returned or in the error's
\* partial, or is the step right after these, which failed; the error names its
\* transaction unless the answer to its broadcast was lost.  A refusal comes
\* before the first broadcast, and every deposit names the contract itself
\* (lifecycle_manager.js, contract_deploy.js, bridge.js).
FlowAccounts ==
    /\ \A a \in onChain :
          \/ a.step \in partial
          \/ /\ a.step = step /\ \A i \in 1..(step - 1) : i \in partial \/ plan[i] = "resolve"
             /\ flowEnd = IF a.heard THEN "failedWithTxid" ELSE "failed"
    /\ flowEnd = "returned" => partial = {i \in 1..Len(plan) : plan[i] # "resolve"}
    /\ flowEnd = "refused" => onChain = {}
    /\ \A a \in onChain : a.kind = "deposit" => a.names = contractAt
    /\ (flow.name = "bridge" /\ flow.bridge.version # 7 /\ onChain # {}) => flow.bridge.dest = "valid"
=============================================================================
