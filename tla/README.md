# A verification project for the XChain SDK

The XChain SDK (`src/`) is a JavaScript library that builds, signs, submits and
follows *actions* of the XChain protocol on UTXO chains, together with a policy
engine that lets a machine agent spend from a wallet under limits: an in-process
*agent session* and an out-of-process *co-signer* that holds the second key of a
2-of-2 account. This directory models the SDK in TLA+: its stateful parts as state
machines, its protocol rules as operators. TLC checks small instances, and TLAPS
proves the central results of its stateful parts for every value of the constants.

Paths below are relative to `src/src/` unless they start with `src/`.

## 1. The system

### 1.1 Components, their state and their operations

| Part | State it keeps | Operations | What is hard about it |
|---|---|---|---|
| co-signer window store (`cosigner/window_store.js`, `window_store/window_ledger.js`) | lock file, state file, in-memory ledger of charges | acquire/reclaim/release the lock, load, record, persist | several daemons started at once, crashes between two file-system calls, pid reuse, an operator who deletes files |
| spending policy (`cosigner/policy_evaluator*`, `cosigner/policy/*`) | none | evaluate an action against a policy and a window | several spellings of one token, boundaries, unresolved references |
| co-signer daemon (`cosigner/co_signer*`, `envelope.js`, `psbt_action_decode*`) | the ledger | `process(request)` | two requests for one action (commit and reveal), outputs the action string does not mention, a clock that steps, a string read differently by the chain |
| co-signer client, servers, MuSig2, recovery (`cosigner/client.js`, `server.js`, `hosted_server.js`, `musig2*`, `recovery.js`) | nonces, sessions, request rates | two rounds of a signature over HTTP | lost answers, nonce reuse, tenants on one endpoint |
| wallet session and lifecycle manager (`utils/wallet_session.js`, `carrier/utxo_cache.js`, `carrier/lifecycle_manager*`) | the UTXO cache, the submit tail | submit, hydrateUTXOs | a tracker that lags, overlapping refreshes, a failure after the broadcast |
| agent session (`cosigner/agent_session.js`) | usage file, idempotency keys, halt switch | submit under policy | crash between record and broadcast, retries, halt during a confirmation |
| WebSocket client (`clients/websocket*`, `XChainSDK/*subscriptions.js`) | socket, cursor, catch-up queue, subscriptions, pending requests, leaky bucket | connect, disconnect, setBase, subscribe, watch, reconnect | reordered and lost frames, timers racing calls, rollbacks, rate limits |
| action waiter (`utils/action_waiter*`) | one pending wait | wait for a transaction, an action, a contract value | event, poll and timeout race; a status that comes later |
| x402 gateway (`utils/x402.js`, `utils/x402/*`) | invoice files, deposit ledgers, used challenges in memory | `guard`/`verify` under three schemes, `sweep`, `prune` | one payment presented twice at once, waits for the explorer between check and claim, a sweeper beside the requests, restarts |
| x402 client (`utils/x402/client.js`) | what it paid, the resume handle | pay and retry | an answer lost after the payment |
| hub client and life cycle (`clients/hub*`, `XChainSDK/client_lifecycle.js`) | config tree, watermarks, the clients' endpoints | fetch, apply | several hubs, a hub restored from a snapshot, a row written in the second of the watermark |
| HTTP clients (`clients/encoder*`, `clients/explorer*`, `utils/retry.js`) | none | requests with retries | retry of what was done |
| resolvers (`utils/tick_resolver.js`, `utils/address_resolver.js`, `utils/list/*`) | lookup caches | resolve the items of a LIST | parallel capped lookups, an answer that comes after its cap |
| light client (`protocol/light_client*`, `merkle*`, `checkpoint.js`, `consensus/*`) | none (pure verification) | verify proofs and checkpoints, follow the validator set | an explorer that answers anything, faulty validators, thresholds, supersession, reorg depth |
| formats, validator, decoder (`protocol/*`, `decoder/*`, `actions/index.js`) | none | from parameters to a string and back | guessed versions, legacy strings, repeated legs, delimiters in values |
| batch builder (`carrier/batch_builder.js`, `protocol/batch_limits*`) | the queued actions | add, validate, compose | limits that three parties compute, weights behind an activation height |
| preflight (`preflight/*`) | shared productions of a report | preflight | two tiers racing a budget, failing lookups, callers that share work, the reservations of another window |
| workflows (`actions/workflows*`) | none between calls | multi-transaction sequences | one step of several failing |
| carrier gates (`carrier/bind_action_carrier.js`, `reconcile_encoded*`, `verify_carrier_scripts.js`) | none | compare what the encoder built with what was asked | what a remote encoder may change |
| contracts (`contract/*`), messaging, betting, other action helpers | none | lint, metering, encryption, parameter builders | syntax trees, cryptography |
| facade (`XChainSDK*`), API server, REPL, MCP server (`src/mcp`) | which clients exist | init, destroy, delegate | life cycle |

### 1.2 How they interact

An application calls the facade, which owns the hub, encoder, explorer and
WebSocket clients. A `WalletSession` serialises its submits on a tail promise; each
submit composes an action (validate, choose a format, serialise), may ask for a
preflight report, and goes through the `LifecycleManager` (create with the encoder,
check, sign, broadcast, reveal, wait), which shares the session's `UTXOCache`. An
`AgentSession` wraps a wallet session: it evaluates the policy against its usage file
before the inner submit and patches the record after it. In the co-signed set-up the
signature itself needs a second party: the client draws nonces and sends the PSBT to
the co-signer's endpoint, whose `CoSigner.process` reads the action out of the
transaction with a reader of its own and evaluates *the same* policy engine against
its own ledger, a file with a single writer guaranteed by the window-store lock.
Events reach the application over the WebSocket client, whose cursor and catch-up
replay what a lost connection missed; the action waiter races those events with
polling and a timeout. A workflow is a sequence of submits and waits.

### 1.3 What makes each part correct

* Lock: one live daemon owns the store, and no charge a signature was released for
  disappears from the file, whoever crashes when.
* Co-signer: nothing is published that was not judged; what leaves the account is
  bounded by fee, payee and action; in every window of real time the charges respect
  the limits; an approved commit's reveal is signed; the action it judges is the one
  the chain reads.
* Signing round: a secret nonce signs once; a call is charged once, in its tenant's
  window, and no signature of a daemon's goes uncharged.
* Wallet: two transactions of one session never spend the same coin; the change of a
  finished submit can be spent by the next; every submit settles.
* Agent: one broadcast per idempotency key; the window limits; a halt stops what was
  not yet authorised.
* Feed: no row is skipped without a report; every row arrives; who watches is told;
  a lost connection comes back.
* Waiter: what a wait reports is so.
* x402: an invoice and a challenge each buy one response, for the payer who paid; no
  deposit is overdrawn; every provisional grant is settled, confirmations for good; a
  buyer pays once.
* Hub: the configuration is that of the hub that answered, when it answered.
* Light client: what it calls verified is true of the chain and height it names, whatever
  the explorer serves.
* Protocol: what was validated is what is published and what is read; the three
  judges of a BATCH agree.
* Preflight: what it calls sufficient is sufficient after the other window's
  reservations; what it blocks is refused; what it could not check it says.
* Workflows: the caller can account for every action on the chain but at most one, and
  knows which step that is.

## 2. Modules

| Module | Models | State and actions |
|---|---|---|
| `WindowLock` | lock protocol and the ledger file it protects | one action per file-system call of `acquireLock`, `publishLock`, `reclaimStaleLock`, `release`, the exit hook and `persist`; a process is one incarnation of a daemon |
| `PolicyEvaluator` | `evaluatePolicy` | pure operators on policies, actions and windows |
| `SpendingWindow` | *abstract*: what a budget over a window of real time promises | `Charge`, `Tick` |
| `CoSigner` | `CoSigner.process` with decoding, output policy and ledger | one action per outcome of a request (denied, approved and charged, approved uncharged, the record failing), `Restart`, time and clock steps |
| `CoSignRound` | client, endpoint, MuSig2 nonces and recovery around `CoSigner.process` | a client call up to and after its request, the endpoint's gates in order, answers that are wrong, late or lost, the partial signatures, time |
| `WalletSubmit` | wallet session, UTXO cache, lifecycle manager | one action per await of a submit, `hydrateUTXOs` in two halves, the network and its tracker |
| `AgentSession` | agent session with its usage file | submit up to and after each await, halts, restarts, time |
| `EventFeed` | cursor and catch-up of the WebSocket client | explorer, frames in both directions, handlers, timers, drops |
| `FeedConnection` | connect, disconnect, setBase, reconnect | caller, socket events of every socket ever made, ready hook, reconnect timers |
| `FeedRequests` | watchers, subscriptions, pending requests, pacing | watch and teardown, answers, retry timers, drain intervals, the connection as requests see it |
| `ActionWaiter` | the waits | polls and events in flight, deadline, the chain behind them |
| `X402Gateway` | the gateway of the HTTP 402 flow with its store, ledger and sweeper | 402 answers, one action per answer of the explorer to a request, the claim under the nonce's mutex, the sweep in read and write halves, prune, restart, time; the chain as the explorer shows it |
| `X402Buyer` | `fetchUrl` of the paying side | offer, payment, presentations, the caller who tries again |
| `HubConfig` | hub client, config sync, endpoints | hubs that change, are restored or fail; fetches that overlap, with their attempts and answers; what the clients then use |
| `ServiceCalls` | `withRetry` and the calls of encoder and explorer | attempts and their outcomes, carried out or not; the fee outputs of a submit |
| `ReferenceLookup` | compaction of LIST items | gate, parent list, lookups that start, answer, time out and answer late |
| `Workflows` | every multi-transaction workflow | a plan of steps; submits, waits, refusals, and failures before a broadcast, after it or with its answer lost |
| `MerkleProofs` | both Merkle trees | pure operators; a hash is a term |
| `LightClient` | verification of balances, actions and anchors, quorum, following the set | several chains with one set of validators; the caller asks, the explorer answers with any checkpoint and any proof it can build, the verdict |
| `ActionFormats` | format table, selection, serialisation, parsing | pure operators over words |
| `ActionRules`, `ActionValidator` | the validator: rules of a field, then of an action | pure operators yielding finding codes |
| `ActionPipeline` | `createAction` from parameters to string; the co-signer's own reader of that string | a caller who edits a request, then composes; pure operators of the reader, and the spellings an agent may choose |
| `BatchRules`, `BatchBuilder` | limits of a BATCH as validator, builder and decoder compute them; `sdk.batch()` | queue, compose, the chain's height, COINPAY outputs |
| `PreflightContext`, `PreflightRules`, `PreflightMarkets`, `PreflightBatch` | the checks of a preflight; at the end of `PreflightBatch`, *external*, how the chain judges the same actions | pure operators yielding notes (findings and what was left unverified) |
| `Preflight` | the life cycle of a report | callers that ask, join and leave; dry run, reads, verdict, the budget running out |
| `MC*` | instances for TLC | constants, and which component of a merged instance is at work |
| `WindowLockProofs`, `CoSignerProofs`, `CoSignRoundProofs`, `X402GatewayProofs` | theorems about the module of that name | |
| `SpendingProofs` | theorems about `AgentSession` and `WalletSubmit` | |
| `SdkCallsProofs` | theorems about `ServiceCalls`, `ReferenceLookup`, `ActionWaiter`, `HubConfig`, `EventFeed`, `FeedRequests`, `Workflows`, `MerkleProofs` and `LightClient` | |
| `SumLemmas`, `BudgetLemmas` | what a sum over a finite set is; what an action the evaluator permits does to a window | lemmas |

`CoSigner` and `AgentSession` both extend `PolicyEvaluator`, and both are shown to
implement `SpendingWindow` (`ImplementsBudget`): the mapping keeps the policy, maps
the clock to real time and each authorisation to a charge. `SpendingWindow` reads the
limits off the policy by itself, without the evaluator's look-ups, so the refinement
also checks the evaluator.

The protocol rules form a chain: `ActionFormats` < `ActionRules` < `ActionValidator`
< {`ActionPipeline`, `BatchRules`}; `BatchBuilder` extends both, and the preflight
modules `BatchRules`. The same operators are therefore
asked by every party that asks the same code, and where the code has a second
implementation (the decoder's parse, the co-signer's reader, the builder's weights)
the model has one too.

What the models abstract: scripts, keys and signatures are names; amounts are small
integers; a token is a spelling with a `Fold` to what consensus reads; a coin is a
pair of the submit that made it and a name; HTTP and the file system are their
outcomes. A field's value is a *word*: a member of a small set with the properties the
rules tell apart (its length, whether it is numeric, what it contains), and a string is
the sequence of its words. What the models keep: every guard, early return and error
path, in order, and every point where another actor can run. A synchronous stretch of
JavaScript between two awaits is one step, except in `WindowLock`, where processes share
files and each system call is one.

## 3. Runs

`pass` runs hold; `violation` runs show a place where the code does something other
than what its own documentation says (section 6). A run merges what it can: the initial
state or a nondeterministic step chooses the policy, the kind of mount or the failure,
and in `spending`, `feeds`, `sdk_calls` and `protocol` also which
component is at work (`part`), so that each is explored from its own initial states
while the others rest.

| Run | Question and bounds |
|---|---|
| `lock_race` | two starters and a crashed predecessor, on mounts with and without hardlinks, two charges, a careful operator: one holder, no charge lost, not everyone refused. Two starters is where reclaiming first races; three is `lock_three` |
| `cosign_gates` | a few thousand PSBT shapes (up to two inputs and two outputs over every kind of script, with and without leaf, envelope and action), one charge and no time: all gates |
| `cosign_window` | four requests (a token by reference, an unresolved one, a commit and its reveal, whose token is spelled differently), three rows, two units of time, a clock stepping back, restarts and failing writes. A window of length 1 inside two units has rows that expire, just do not, and lie in the future |
| `cosign_round` | three calls at once over two tenants, or one call with each plan against every way the endpoint can be set up (shared stores and tokens, no TLS, no token) and answer: wrong or surplus signatures, a signature for another input, nothing, or too late; nonces drawn under session ids; recovery spends with every fee |
| `spending` | the agent session: three submits, a key used twice, three policies, all endings, restarts, halts, three units of time with a window of 1 and a key life of 2. The wallet session: three submits of envelope transactions from one coin, so that the third spends the change of a change; one hydrate at any time, also beside a submit's own refresh, one submit that spends a coin its caller brings, transactions with and without change, one failure of any kind (a lost acknowledgement, a refused reveal, a wait that fails), a tracker that lags at will |
| `x402_gateway` | two requests with any proof (any scheme, payer, signer), one 402 answer, a payment by reference, a payment that is too small, two deposits that only together exceed the price of one call, payments that confirm, fail or leave the first page, one explorer failure, one restart, one sweep at a time. Initial states choose a gateway paid per call, with and without a confirmation, or one with a hold and a deposit scheme. Six moments in time cover an invoice's life (1), the longest wait of a request (1), the confirmation window and a challenge's life (2 each) and what follows them |
| `feeds` | the feed: two subscriptions, a replay cap of 1 and up to three rows (so a replay needs several rounds), and two faults, each a dropped connection or a rollback of the explorer. The connection: three calls of any kind at any moment, two drops, failing attempts |
| `sdk_calls` | *requests*: three watchers over two keys, a server with a rate of one, three requests, one connection lost; *waits*: two actions of one transaction, two polls; *hub*: two hubs, one with an older comparison, two updates or pings and two seconds, three fetches, two of them at once (what one fetch decides before its answer, another changes); *calls*: every outcome of every attempt; *lookup*: four items, two of which differ in case only; *buyer*: every answer of the gateway, three fetches; *flows*: every workflow, deploys of every number of chunks up to one too many; *light client*: two chains of three heights past the first, three validators of equal stake that sign for both and of which two are faulty, an explorer that serves thirteen checkpoints, of either chain, true, false, relabelled, with and without signed roots, with every proof that can be walked out of the hashes it knows, and seven anchors; callers with and without a lower bound on the height |
| `protocol` | every form of every action with one field changed to any word, validated, formatted, serialised, read by the decoder and, in every spelling, by the co-signer; batches of up to three commands queued or written by hand, at heights on either side of an activation; up to two payees and amounts of COINPAY obligations against any outputs. Preflight: some seventy actions and a dozen BATCHes asked in five settings (mode, chain, source, fee) against two states of the chain, with every set of look-ups in `MCDowns` failing together; and two windows of one wallet that ask at once, with and without reservations, sharing a production or not, while the chain moves |
| `lock_three` | (violation) a third starter publishes while the second carries a live lock aside |
| `x402_buyer` | (violation) a fetch that rejects after the payment was sent |
| `x402_sweeps` | (violation) `x402_gateway` with a second sweep beside the first |

`MaxFaults` (`EventFeed`) and `MaxFailures` (`WalletSubmit`) bound how many faults a
behaviour has, not which: two faults are enough for a fault during the recovery from
another. `MaxHydrates` bounds calls outside the queue, `MaxExplicit` the submits whose
coins the caller brings: one of each is what meets a submit of the session.

What the two wallet properties leave out is named in them, not kept out of the model. In
`ResolvedNeverRespent` the transaction that spends is of coins the *session* put on offer
(`by`; the encoder's own choice and the caller's are theirs), and a submit that ended
before the cache had its address (`"early"`) does not count as resolved, for the first
refresh empties the cache. `ChangeStaysAvailable` holds but while `behind`: a refresh that
began earlier was applied after one that began later. Section 6 has a row for each.

`HubIsMirrored` sorts the tree a fetch leaves by a `verdict`: the same as the hub's when it
answered; `"lost"`, after a restore, only if the answer's two marks had both reached those
the client held; `"mixed"`, only if another fetch took or dropped the tree while this one's
request was under way, or the tree it was laid over was mixed itself; anything else is
`"stale"`, which the property excludes.

`FlowAccounts` allows one action the caller was not told of by its transaction: that of the
step right after those reported, when the answer to its own broadcast was lost
(`StepFails("lost")`).

In `X402Gateway`, `Latency` is the longest a request waits for the explorer, its
client's time-outs and retries included: time does not pass it while a request is on
its way. `LastAsk` (0) only fixes the origin of time at the one answer that is
followed. A 402 answer beyond the bound on `Nonces` goes to a client that is not
followed. Two requests are where claims first race; the proof covers any number.

`FeedConnection` keeps the history variables `quiet`, whether the caller has so far
called only `connect` and `disconnect`, and only when the connection was at rest, and
`failed`, whether a connection attempt has failed. `ComesBackUnlessFailing` names both
as exceptions: a caller that stays quiet and meets no failed attempt is connected again.
`EveryRowArrives` speaks of the rows below the lowest
rollback (`fork`); the rows above it are exposed to the rollback nobody announces
(section 5). `HeldIsSubscribed` speaks of the keys in `sought`, asked for on this
connection, neither refused nor given up after the last retry, and still watched by
somebody: what one watcher lets go of, another keeps.

In `LightClient` two of three validators are faulty, which is two thirds of the stake
and so exactly what a quorum must exceed: one faulty vote more and the property is
false, one less and the boundary is not met. The faulty sign anything the explorer
wants; a checkpoint of a height the gates have not reached may be unweighted, and its
roots unsigned. `VerifiedIsTrue` judges an answer by the chain and the height of the
checkpoint that is returned with it, which is what the client checks; and it vouches for a
balance or an action where the roots were signed for or the caller brought the checkpoint
(`RootsVouched`), and an anchored checkpoint always, since that call asks for signed roots.
What a caller may wrongly take from such an answer is in section 6.

The words of `protocol` are chosen by the rules: for every test a rule makes there is a
word that passes and one that fails it, among them a value with each delimiter, a padded
one, an empty one, one at and one past every length that decides anything. One edit from
a valid form reaches each rule alone; what two violations at once add is which is reported.

In the preflights the client's reads see one view of the chain and the dry run another: the
chain may move between them. `NoFalseBlock` is about the actions the documentation calls
certified, `NothingIsFalselyBlocked` about all (section 6).

Deadlock checking is off in all runs: every bound (charges, submits, rows, calls) is
a place where the instance stops although the system would go on; progress is stated
by the liveness properties instead.

### Fairness

* `spending` (`QueueDrains`): weak fairness of the step of the submit at the head and of
  a refresh in flight: each await settles by an answer, an error or a time-out.
* `feeds` (`EveryRowArrives`, `ComesBackUnlessFailing`): frames that arrived are handled,
  timers fire, a lost connection is made again (`FeedConnection` says when that is so);
  the ready hook resolves, socket events arrive. The explorer's answers, calls, drops and
  failures are not fair.
* `x402_gateway` (`ProvisionalSettles`): the explorer answers a request or times out, the
  sweeper's timer fires and its reads end, time passes. Clients, the chain, restarts and
  `prune()` are not fair, and the number of explorer failures is bounded: the property is
  about an explorer that fails finitely often, which is what the code's own comment in
  `sweep()` asks for.

The other components are checked for safety only: a wait, a call, a lookup or a report
ends by a deadline that is an action of its own.

## 4. Proofs

Each theorem is about every value of the constants that meets the module's named
assumptions; further hypotheses stand in the theorem's own `ASSUME`. Where a run checks
the same property, the theorem lifts it from the instance to all of them.

**Lock** (`WindowLockProofs`): `TypeOK` outright, and for *serial starts*
(`~Concurrent`: no process starts while another is inside the constructor) with an
operator who never deletes a live lock, for any number of incarnations, any pids and any
number of charges: `SingleHolder`, `ChargesSurvive` and `RemovalIsByOwner`. None is
inductive. The strengthening `SerialInv` is `TypeOK`, `LockInv` (the record at the lock
file's name is the holder's; a carried record belongs to a dead process; only a holder
has the name in its exit hook) and `LedgerInv` (the holder's cache contains every charge
of the file, the file every signed charge, the tmp file of a holder about to rename is
its cache). The assumption is needed: with three concurrent starters the claim is false
(`lock_three`). `NotAllRefused` is proved for concurrent starts too, any number of them.
`DoorInv` says that either somebody has entered, which no later step undoes, or the only
complete record is the crashed daemon's, at the name or in the hands of the one process
that can carry it, or the name is free. The hypothesis `OldPidsAreGone` (no starter has
the crashed daemon's pid) is what the code says of itself: a pid that is in use again
makes it fail closed.

**Sums** (`SumLemmas`, `BudgetLemmas`): the limits of a policy are sums over a set of
rows, by `MapThenSumSet`, a fold defined by recursion. `SumLemmas` shows that this fold is
the value at a set of a *function* on its subsets that takes one element at a time
(`Total`), that the function exists for every finite set (well-founded induction on
cardinality, for one predicate at a time), that any element may be taken first, and what
follows: a sum over a subset, a union, with one element more, of equal or smaller
values. `BudgetLemmas` shows that an action `Permits` lets through keeps every limit of
the window it was judged on (`InLimits`) when its row is added, for any spelling of the
tokens, and that a window with fewer rows keeps its limits.

**Co-signer** (`CoSignerProofs`): for any requests and policies, `NothingUnjudged` and
`OutflowBounded` hold outright, with the output policy's two passes unfolded as sums over
the outputs of a PSBT (`ValueAssumption`: a PSBT has no negative values). For any sequence
of restarts, failing writes and steps of the clock with `Backwards` (the host clock only
ever steps *back*; the code says a forward step is the operator's responsibility), the
daemon forgets no charge (`ChargesRemembered`), no window of real time contains more than
`maxActions` charges (`CountCap`), the daemon implements `SpendingWindow`
(`ImplementsBudget`: initial states map to initial states, a charging step to `Charge`
within the limits, a tick to `Tick`, everything else to a stutter), and the reveal of a
charged commit is approved (`RevealNotStranded`). `Inv` adds types and that charges are
distinct rows; the argument is that an entry of the ledger never looks older than its
charge is in real time, so that the window the daemon evaluates contains the window of
real time. `RevealInv` remembers how the commit of the last row was judged: the
action fits what the ledger holds *besides* that row, in memory and on disk, which is what
`Snapshot` leaves of it for the reveal. `TxidAssumption` is that a transaction id names
one transaction.

**Signing round** (`CoSignRoundProofs`): `NonceSafe`, `ChargedOnce` and `RateBound` for
any number of agents, tenants and requests, any plan and any answer of a broken endpoint.
`HandleInv`: a cached nonce is its owner's, drawn once, and none that has signed is
still cached. `RequestInv` follows a request: not sent or still on the wire, it was
neither charged nor answered, so that a call whose answer is lost is charged once at most;
a daemon's nonce is a function of its key, which no sidecar's answer contains, so that a
signature made with it was released, and charged, by that daemon. `RateInv` splits the past of a tenant at
the start of the current window: the requests from then on number at most the window's
count, and no span that ends before it saw more than one window's worth reach across.

**Agent session** (`SpendingProofs`): `AtMostOncePerKey`, `SentIsOnDisk` and
`ImplementsBudget` for any policies, actions, keys, retention, failures and restarts.
`LedgerInv`: every charge that still counts, or whose key is still remembered (`Due`), has
its row in the usage file and, from the first load on, in memory. `KeysApart` is the
inductive form of the key property. `BudgetInv` adds that the action the confirmation
handler is asked about still fits the window when the answer comes: rows only get older
while it waits, and no other submit is let in.

**Wallet session** (`SpendingProofs`): `ResolvedNeverRespent` and
`ChangeStaysAvailable`, without a hypothesis: for any number of coins, submits, failures
and refreshes of `hydrateUTXOs` beside a submit's own, any encoding, with and without
change, whoever brings the coins, any lag of the tracker. `WalletInv` has a part for the
transactions there are (`TxInv`), for what a submit under way has been offered
(`OfferInv`) and has sent (`SentInv`), for what finished submits left (`PastInv`) and for
the cache (`StoreInv`):

* `SpentInv`: what resolved submits spent is marked, and is spent; while the cache has no
  address nothing counts as resolved.
* `ViewInv`: the views under way are older than the tracker's and ordered by when they
  began, each with what is still unspent of the ones before it.
* `CacheInv`: an unspent coin of a resolved submit is speculative change, or `Seen`: in the
  tracker's view, in every view under way that was not overtaken, and in the cache unless
  it is `behind`. A refresh drops speculative change only when its view has the coin, and
  by `ViewInv` the views that began later then have it too.

**x402 gateway** (`X402GatewayProofs`): `SingleUse` for any number of requests, invoices,
sweepers that overlap, prunes, restarts and explorer failures. The assumption
(`WindowAssumption`) is that the confirmation window is at least as long as the life of
an invoice, its grace included, plus the longest wait of a request; the defaults are ten
minutes against five minutes, ten seconds and the explorer client's time-outs. It is
needed: a failed provisional grant makes its invoice claimable again. `SingleUse` is not
inductive; `InvoiceInv` adds when answers, grants and requests are dated
(`InvoiceDates`, `RequestDates`, and `SweepDates` for the copies a sweep carries) and
`ServedIsClosed`: an invoice that bought a response is claimable only at a time when no
request admitted before its expiry can still be waiting. `PayerIsServed` (of the send
and the deposit scheme: a response by invoice is its payer's, one from a deposit that of
somebody who deposited its price; a balance a payer merely holds is looked up once and may
be gone when the response leaves, so the hold scheme promises no such thing) and
`NeverOverdrawn` follow from `ServiceInv`: what a request has read so far vouches for the
phase it is in (`Vouched`, also for the phases between two reads), and every response
drawn from a deposit is in a ledger that deposits, which only grow, cover (`Ledgers`).
`PromotionSticks` is proved for one sweep at a time, on the invariant `Carried` (an
invoice a sweep is to settle is still provisional); with two it is false (`x402_sweeps`).

**Event feed** (`SdkCallsProofs`): `NoSilentGap` for any subscriptions, log, replay cap,
retries, rounds and bounds, with drops, refusals, late answers and rollbacks. It speaks
of rows the cursor has passed, which says nothing of what a replay under way will do, so
`FeedInv` follows each row still owed, from the row to the client: it is ahead of the
cursor always, and while a connection is up

* for a subscription the catch-up is done with, its frame is on the way behind nothing
  that would move the client past it (`Settled`);
* for one that has still to ask, it is after the position that will be asked from
  (`Asking`);
* for one whose answer is on the way, the answer carries it or ends before it
  (`AnswerAt`), which rests on what a replay carries: all that was missed up to the index
  its end names (`ReplayCarries`).

There is one lemma per action. New rows come to be owed only before the first rollback;
from then on every position the client holds stays within the log it is about.

**Requests** (`SdkCallsProofs`): `HeldIsSubscribed` for any watchers that share keys in
any way, any rates of client and server, any retries and any losses of the connection. A
key that is sought is pushed for and nothing queued lets go of it, or is asked for in the
queue with nothing behind that lets go of it, or an answer that turns it down is on the
way, or a timer is (`UnderWay`, `SoughtInv`); the bucket preserves that whatever leaves it
(`Drains`). A key has as many references as holders (`HeldInv`), without which the last
teardown but one would end what another watcher still listens to.

**Workflows** (`SdkCallsProofs`): `FlowAccounts` for sources of any size, any limits of a
deploy and any number of reads, whichever step fails, and whether before its broadcast,
after it or with the answer to it lost. What is reported is at any time what lies before
the step under way, so that the one action that may be unaccounted for is that step's; the contract a workflow knows is the contract; and since a plan deploys
whole at most once, and then neither assembles nor resolves (`PlanShape`), no later step
moves a contract a deposit has named.

**Light client** (`SdkCallsProofs`): `FollowedIsTrue` and `VerifiedIsTrue` for any chains,
stakes, trees of any depth over any balances and rows, any lower bounds on the height, and
checkpoints of any chain and kind, their roots signed or not. The
inductive invariant (`LightInv`) is the two together, with the trusted checkpoint one that
was shipped or served. Two arguments meet in it.

* *What is signed*: a proven set of validators is the state's own members with all of
  their stake (`ProvenSet`), since each has a leaf in the stakes tree and the total has one
  too. Signers with more than two thirds of that stake include an honest one
  (`HonestByStake`, on `SumLemmas`; `HonestByQuorum` where votes are still counted), and an
  honest signature over the roots and the supersession is on the checkpoint of the chain it
  names (`SignedIsTrue`). Hence `FollowStep`, and `TrustedRoots` where the roots are signed.
  A root no signature covers proves nothing, and the theorem says nothing of it.
* *What is proved from the roots*: whatever folds up to a root is a path down from it
  (`ClimbIsPath`), two paths that take the same sides meet the same nodes (`PathsAgree`),
  and the trees have a path to every leaf and every absent key (`SmtPath`, `FixedPath`). A
  path through the slot of the balances that is longer than the true one would run past
  the leaves (`LeafFound`, for any length from the true one on), so an accepted amount is
  the leaf of the caller's own key on the checkpoint's chain, and an accepted action the
  block's leaf at that index.

Assumed are that hashes are free terms, that no two keys of a tree collide
(`KeysAssumption`), that the faulty hold at most two thirds of the stake in force, or are
fewer than a quorum where votes are counted (`FaultyAssumption`), that the shipped checkpoint is the
chain's and checkpoints are about heights it has (`CheckpointsAssumption`). Proofs are
those the explorer of the model can walk out of a tree: sub-root paths of three or four
steps, and block proofs of any leaf.

The recursive functions of `MerkleProofs` are shown to obey their equations by induction
on a height for one predicate at a time (`SmtNodesObey`, `FixedLayersObey`, `HalvedObeys`
and their like).

**Calls of the SDK** (`SdkCallsProofs`): four more components of `sdk_calls`, each from any of
its initial states. `BroadcastIsHonest` for any number of retries: a broadcast is the
caller's only call, at its first attempt, and has not been carried out while it is under
way (`CallInv`). `ItemsKeepTheirMeaning` for a list of any length and any number of
lookups at a time. `WaitTellsTheTruth` for a transaction of any finite number of actions
and any number of polls: an answer or an event under way says what was so, statuses once
known stay, and the actions of a transaction are indexed together, so that one found means
all found (`WaitInv`). `HubIsMirrored` for any number of hubs of any kind, any table of
rows and any number of fetches under way at once: what the tree lacks of its hub, unless the
hub went back, was written in the second of the watermark or later (`TreeInv`), and the
cursor one second before the watermark asks for exactly that. A request that no other fetch
overtook is still about the tree as it is (`RequestInv`), so that its answer leaves out
only what the tree has (`AnswerInv`); of a restored hub, an answer whose marks are below
the client's is never merged. The least number principle of `SumLemmas` gives a hub's watermark its
existence (`WatermarkIs`).

The inductive invariants that stand in a component's own module (`SerialInv`,
`InvoiceInv`) hold on the instances of `lock_race`, with `Concurrent = FALSE`, and
`x402_gateway`, when they are added there as invariants.

Only model-checked: everything under fairness (`QueueDrains`, `EveryRowArrives`,
`ComesBackUnlessFailing`, `ProvisionalSettles`), which is out of the prover's reach; what
the protocol and preflight operators compute for every input (the properties of
`protocol`), since they recurse over sequences of words with tables the definitions spell
out; and the preflight's life cycle over those operators (`ReservationsAreSeen`,
`NoFalseBlock`, `NoSilentGreen`). Each module with state has a type invariant; those that
no run checks are part of its inductive invariant.

## 5. Hazards

`PROJECT.json` lists under `hazards` each place where the code is exposed to
something a test hardly reaches, with the properties that would notice. The ones
without a property have a note: two agent sessions on one usage file (nothing guards
against it and nothing promises it), a rollback nobody tells the client of, and the two
limits of what the light client verifies (section 6). Where
a property holds only up to a point the note says so, and section 6 describes what is
beyond it. Two more the code documents as out of its hands: a dead daemon's pid that
stays in use makes every starter refuse (fail closed), and a forward step of the host
clock ages charges out early (the operator's responsibility).

## 6. Where code and documentation disagree

Three disagreements are kept as `violation` runs, with a finding that quotes the
documentation:

| Run | What happens |
|---|---|
| `lock_three` | while one starter carries a live lock aside to look at it, a third publishes its own |
| `x402_buyer` | a fetch that rejects while a payment is presented leaves no resume handle; the next call pays again |
| `x402_sweeps` | the sweeper writes without looking at the status again: of two overlapping cycles the one that read first fails a grant the other has just confirmed |

The others bound what the passing runs may promise. Each of the following is a run with
its invariants replaced by the one named, without one of its own exceptions where it says
so, and with a constant changed where it says so; TLC then finds the violation:

| Where | What happens | Run, property, change |
|---|---|---|
| `cosigner/window_store.js` | a lock lost between the ownership check and the rename does not stop the write | `lock_race`, `SingleHolder`, `Operator = "any"` |
| `cosigner/window_store.js` | the exit hook deletes by name, also a successor's lock | `lock_race`, `RemovalIsByOwner` (a PROPERTY), four processes |
| `cosigner/co_signer/request_preparation.js` | the reveal of a commit that was never charged is signed and charged by nobody | `cosign_window`, `RevealsWerePaidFor` |
| `utils/wallet_session.js` | a submit that timed out after its broadcast never marks its coins spent | `spending`, `NoSelfConflict` |
| `utils/wallet_session.js` | a session without available coins lets the encoder choose, which knows nothing of recent spends | `spending`, `ResolvedNeverRespent` without `s.by = "session"`, `Encodings = {"inline"}`, two coins |
| `carrier/utxo_cache.js` | the first refresh empties a cache that already tracked a spend | `spending`, `ResolvedNeverRespent` with `"early"` counted as resolved |
| `carrier/utxo_cache.js` | an older view applied last hides the change of a finished submit | `spending`, `ChangeStaysAvailable` without `~behind` |
| `clients/hub/config_sync.js:96` | a delta must "never merge across hubs", and the client checks so when it *sends* the request; the poll interval does not wait (`clients/hub.js:194`), so when a fetch outlasts it, its delta is laid over a tree that another fetch took from another hub meanwhile. With the default interval of 60 s and 5 s a request that needs a dozen hubs that do not answer, or a caller with a shorter `hubPollInterval` | `sdk_calls`, `HubIsMirrored` with `"mixed"` excluded too |
| `clients/hub/config_sync.js:227` | a hub that was restored and has reached both of its marks again cannot be told from one that went on: rows of the lost window stay | `sdk_calls`, `HubIsMirrored` with `"lost"` excluded too |
| `carrier/lifecycle_manager.js:108` | the broadcast of a workflow's step is carried out and its answer lost: the error names no transaction and the partial lacks the step | `sdk_calls`, `FlowAccounts` with `"failedWithTxid"` for every action |
| `protocol/light_client/online_verify.js:103` | the chain is the served checkpoint's, and nothing compares it with the coin that is asked about (`quorum_resolution.js:125-133` neither), while one set of validators signs for all chains (`validator_set_follow.js:174` refuses another chain for this reason): the answer to a question about BTC may be a true balance of another chain. The caller can tell from the checkpoint that is returned | `sdk_calls`, `VerifiedIsTrue` with `cp.chain = "BTC"` for balances |
| `protocol/light_client/online_verify.js:91` | before the commitment gate (mainnet block 961000, testnet 146000) the roots are not signed, and balances and actions ask only that a root is there, where `anchored_checkpoint.js:272-282` asks for the gate: an old checkpoint verifies with roots the explorer chose | `sdk_calls`, `VerifiedIsTrue` without `RootsVouched` |
| `utils/x402.js` | the replay guard lives in memory: with a configured `challengeSecret` a restart accepts a used challenge again | `x402_gateway`, `ChallengeOnce`, the third option of `MCConfigs` with the secret `"fixed"` |
| `protocol/format_selector.js:101` | "No data loss": a version pinned by the caller drops a field of a single leg that it has no slot for | `protocol`, `PinnedLosesNothing` |
| `preflight/lifecycle.js` | "identical runs": the key of the coalescer names neither mode nor fee mode nor encoding, so a caller in a networked mode may be handed a report without a dry run | `protocol`, `JoinersAskTheSame` |
| `preflight/context.js` | a reservation named by the token's resolved name is subtracted from the balance but not reported as one, so the dry run's verdict, which knows nothing of it, wins | `protocol`, `ReservationsNetEitherWay` |
| `preflight/constants.js` | some findings certified to be errors are raised on actions the chain accepts | `protocol`, `NothingIsFalselyBlocked` |

Found while modelling and visible in the definitions, with no property of their own:

* `cosigner/agent_session.js`: a halt during the confirmation handler is not seen before
  the submit (`Confirm` still authorises after `Halt`); two kinds of failure after the
  broadcast leave no txid on record (`SubmitEndsSilently` leaves the row it found).
* `utils/x402/payment_verification.js`: a confirmed payment below the first hundred rows
  is not found, so its provisional grant is failed (`SweepRead` after `Bury`).
* `clients/websocket/message_pump.js`: a failed reconnect attempt is the last one: the
  comment counts on the close handler, which returns early for a socket that was never
  welcomed (`ComesBackUnlessFailing` needs its disjunct `failed`).
* `clients/websocket.js`: a disconnect during `connect()` is undone by the timer it does
  not know of; after `setBase` the old socket's close event marks the new connection as
  closed.
* `preflight/index.js`: the abort signal of the caller that started a shared production
  is the one its network reads get (`produceReport`), although `lifecycle.js` says an
  abort never touches the shared work.
* `XChainSDK/client_lifecycle.js`: `discover()` keeps its promise, also a rejected one.
* `protocol/format_selector/repeated_legs.js`: a leg's empty value hides the value given
  for all legs (`legFieldValue`).
* `carrier/batch_builder.js`: tickers are compacted after `validate()`, so two MINTs of
  one token under two spellings are told apart when checked and alike when composed.

## 7. Plan

The model covers what the plan of the first survey listed, apart from the carrier gates
and the parameter builders, which compare or build one transaction's data (section 8).
What is left is proof:

1. `X402Gateway`: `ConfirmedIsPaid` and `ChallengeOnce`, which no run checks any more, on
   the invariant that is there.
2. `X402Buyer`, beyond the run that shows it can pay twice (section 6).

## 8. Not modelled

* Cryptography and byte encodings: keys, PSBT serialisation and signing, curve
  arithmetic, messaging encryption, compression. Pure functions over data TLC cannot
  enumerate meaningfully.
* Carrier gates (`carrier/bind_action_carrier.js`, `reconcile_encoded*`,
  `verify_carrier_scripts.js`): comparison of one transaction's scripts and amounts with
  what was asked; `WalletSubmit` takes their verdict as an outcome.
* Contract lint and metering: analysis of syntax trees.
* Display of decoded actions (`decoder/describe/*`), logging, the REPL, the API server's
  and the MCP server's routing, query methods that build a URL: formatting and I/O.
* Tables: networks, coins, gate rows. The models take the entries they need as constants.
* Parameter builders of messaging, betting, votes, NFTs, gated files and attestations:
  what they build is a request like any other to `ActionPipeline`.
* In the light client: the wire parsing of anchors, and proofs of contract state.
* In the feed client: `listSubscriptions`, `once()`, ping frames, and the `not_replayed`
  and `stale_replay` notices, which change no state.

`PROJECT.json` gives the reason for each part.
