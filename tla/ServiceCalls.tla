---------------------------- MODULE ServiceCalls ----------------------------
(***************************************************************************)
(* Calls of the encoder and the explorer (utils/retry.js, clients/         *)
(* encoder.js, encoder/transactions.js, clients/explorer/transport.js,     *)
(* XChainSDK/fees_and_services.js): a call is tried until it is answered,  *)
(* refused or out of retries.  An attempt that ends in a timeout, a reset  *)
(* or a gateway error may or may not have been carried out.                *)
(***************************************************************************)
EXTENDS Integers, FiniteSets

CONSTANTS
    MaxRetries,          \* maxRetries
    MaxRateLimitRetries, \* maxRateLimitRetries
    PinnedFee            \* FEE_DESTINATION of the chain, pinned in the package

CallOps == {"broadcast_tx", "create_tx", "get_utxos", "get", "feequote"}
Outcomes == {"ok", "rpcError", "429", "gateway", "http", "timeout", "reset", "refused"}

VARIABLES
    call,       \* the call under way: op, attempt, rate limits met, whether the SDK retries
    done,       \* op -> how often the service carried the call out
    said,       \* what the last call came to
    want,       \* what the caller wants: "broadcast", "createTx", "estimateFees" or "read"
    native,     \* payFeeInNativeCoin: "default", "yes" or "no"; then the chain's mode
    outputs     \* outputs the SDK adds for the fee

callVars == <<call, done, said, want, native, outputs>>

NoCall == [op |-> "none", attempt |-> 0, limited |-> 0, again |-> FALSE]

Quotes == [supported : BOOLEAN, valid : BOOLEAN, busy : BOOLEAN,
           amount : {"zero", "sats", "malformed", "missing"}, to : {PinnedFee, "else", "unset"}]

NativeOptions == [asked : {"default", "yes", "no"}, mode : {"native", "token"}, net : {"main", "regtest"}]

CallInit(wants, natives) ==
    /\ call = NoCall
    /\ done = [o \in CallOps |-> 0]
    /\ said = "nothing"
    /\ want \in wants
    /\ native \in natives
    /\ outputs = {}

-----------------------------------------------------------------------------
(* utils/retry.js *)

\* isRetryable
IsRetryable(o) == o \in {"429", "gateway", "timeout", "reset", "refused"}

\* withRetry's loop: whether a failed attempt is followed by another.
TriesAgain(c, o) ==
    /\ ~(o = "429" /\ c.limited >= MaxRateLimitRetries)
    /\ c.again /\ c.attempt < MaxRetries
    /\ IsRetryable(o)

\* What an attempt with outcome o may have done to the service.
Carried(o) == CASE o \in {"ok"} -> {TRUE}
                [] o \in {"gateway", "timeout", "reset"} -> BOOLEAN
                [] OTHER -> {FALSE}

\* handleError: what the caller reads.
ErrorOf(o) == CASE o = "rpcError" -> "RPC_ERROR" [] o = "429" -> "RATE_LIMITED"
                [] o \in {"http", "gateway"} -> "HTTP" [] o = "timeout" -> "TIMEOUT"
                [] OTHER -> "NETWORK"

\* Mutant: every method is retried alike.
RetriesOpAlways(op) == TRUE

\* broadcastTx is sent once: retry is off for it.
RetriesOp(op) == op # "broadcast_tx"

\* rpc, get, post: the call is made, after the ready hook.
Begin(op) == call' = [op |-> op, attempt |-> 0, limited |-> 0, again |-> RetriesOp(op)]

-----------------------------------------------------------------------------
(* The native fee *)

\* nativeFeeRequired
NativeFeeRequired == native.asked = "yes" \/ (native.asked = "default" /\ native.mode = "native")

\* nativeFeeDisabled: the chain has no destination, so its default does not hold.
NativeFeeDisabled(q) == ~q.supported /\ q.to = "unset"

\* pinnedFeeDestination: on regtest the quote's own.
FeeDestinationOk(q) == native.net = "regtest" \/ q.to = PinnedFee

\* appendNativeFeeOutput and resolveNativeFeeOutputs: the outputs for a quote, or
\* a refusal.
FeeOutputs(q) ==
    IF native.asked = "default" /\ NativeFeeDisabled(q) THEN [ok |-> TRUE, outs |-> {}]
    ELSE IF ~q.supported \/ ~q.valid \/ q.amount \in {"missing", "malformed"}
         THEN [ok |-> FALSE, outs |-> {}]
    ELSE IF q.amount = "zero" THEN [ok |-> TRUE, outs |-> {}]
    ELSE IF ~FeeDestinationOk(q) THEN [ok |-> FALSE, outs |-> {}]
    ELSE [ok |-> TRUE, outs |-> {q.to}]

-----------------------------------------------------------------------------
(* The SDK's calls *)

\* broadcastTx, getUTXOs for createTx, the fee quote of estimateFees, a read.
CallStarts ==
    /\ call = NoCall /\ said = "nothing"
    /\ Begin(CASE want = "broadcast" -> "broadcast_tx" [] want = "createTx" -> "get_utxos"
               [] want = "read" -> "get"
               [] OTHER -> IF NativeFeeRequired THEN "feequote" ELSE "create_tx")
    /\ UNCHANGED <<done, said, want, native, outputs>>

\* An attempt that fails and is made again after its delay.
AttemptFails(o, carried) ==
    /\ call # NoCall /\ o # "ok" /\ carried \in Carried(o)
    /\ o = "rpcError" => call.op \notin {"get", "feequote"}
    /\ TriesAgain(call, o)
    /\ call' = [call EXCEPT !.attempt = @ + 1, !.limited = @ + (IF o = "429" THEN 1 ELSE 0)]
    /\ done' = [done EXCEPT ![call.op] = @ + (IF carried THEN 1 ELSE 0)]
    /\ UNCHANGED <<said, want, native, outputs>>

\* An attempt that ends the call with an error.
CallFails(o, carried) ==
    /\ call # NoCall /\ o # "ok" /\ carried \in Carried(o)
    /\ o = "rpcError" => call.op \notin {"get", "feequote"}
    /\ ~TriesAgain(call, o)
    /\ call' = NoCall
    /\ done' = [done EXCEPT ![call.op] = @ + (IF carried THEN 1 ELSE 0)]
    /\ said' = ErrorOf(o)
    /\ UNCHANGED <<want, native, outputs>>

\* createTx: utxos of an unsynced tracker, or none, are refused.
UtxosAnswered(utxos) ==
    /\ call.op = "get_utxos"
    /\ done' = [done EXCEPT !["get_utxos"] = @ + 1]
    /\ IF utxos = "some" THEN Begin("create_tx") /\ UNCHANGED said
       ELSE call' = NoCall /\ said' = "REFUSED"
    /\ UNCHANGED <<want, native, outputs>>

\* quoteNativeFee: a busy explorer is asked once more, outside withRetry.
QuoteAnswered(q) ==
    /\ call.op = "feequote"
    /\ done' = [done EXCEPT !["feequote"] = @ + 1]
    /\ IF q.busy /\ done["feequote"] = 0
       THEN Begin("feequote") /\ UNCHANGED <<said, outputs>>
       ELSE IF FeeOutputs(q).ok
       THEN Begin("create_tx") /\ outputs' = FeeOutputs(q).outs /\ UNCHANGED said
       ELSE call' = NoCall /\ said' = "REFUSED" /\ UNCHANGED outputs
    /\ UNCHANGED <<want, native>>

\* Any other call is answered; estimateFees ends with create_tx and what
\* reconcileFeeEstimate makes of it.
CallAnswered ==
    /\ call.op \in {"broadcast_tx", "create_tx", "get"}
    /\ call' = NoCall
    /\ done' = [done EXCEPT ![call.op] = @ + 1]
    /\ said' = "OK"
    /\ UNCHANGED <<want, native, outputs>>

CallNext ==
    \/ CallStarts \/ CallAnswered
    \/ \E o \in Outcomes, carried \in BOOLEAN : AttemptFails(o, carried) \/ CallFails(o, carried)
    \/ \E u \in {"some", "none", "stale"} : UtxosAnswered(u)
    \/ \E q \in Quotes : QuoteAnswered(q)

CallSpec(wants, natives) == CallInit(wants, natives) /\ [][CallNext]_callVars

-----------------------------------------------------------------------------
\* What broadcastTx reports is what happened: the transaction reached the network
\* at most once, did if it says so, and did not if it reports a refusal by the
\* service, which a retry after a lost answer would make a lie (transactions.js).
\* The fee is only ever paid to the destination pinned in the package.
BroadcastIsHonest ==
    /\ done["broadcast_tx"] <= 1
    /\ want = "broadcast" /\ said = "OK" => done["broadcast_tx"] = 1
    /\ want = "broadcast" /\ said \in {"RPC_ERROR", "RATE_LIMITED"} => done["broadcast_tx"] = 0
    /\ native.net = "main" => outputs \subseteq {PinnedFee}
=============================================================================
