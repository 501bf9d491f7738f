----------------------------- MODULE CoSignRound -----------------------------
(***************************************************************************)
(* One MuSig2 round between an agent and a co-signer endpoint: the client  *)
(* (cosigner/client.js, musig2_signer.js), the secret nonces it draws      *)
(* (cosigner/musig2.js), the HTTP endpoint in its two deployments          *)
(* (server.js: one account; hosted_server.js: many tenants, with a request *)
(* rate) and the recovery spend that needs no endpoint (recovery.js).      *)
(* CoSigner.process, which decides and charges, is CoSigner; here it is    *)
(* its promise: an approval charges the tenant's window once, within the   *)
(* window's cap, and a denial charges nothing.                             *)
(*                                                                         *)
(* A call follows a plan: the method (sign, signAll or signer), the PSBT   *)
(* and how many inputs it has, the inputs asked for, the envelope (none,   *)
(* reveal, or unrelated to the PSBT), the bearer token and wire version    *)
(* its transport sends, the shape of the body, and the fee and size the    *)
(* transaction ends up with.                                               *)
(***************************************************************************)
EXTENDS Integers, Sequences, FiniteSets

CONSTANTS
    Undefined,
    Calls,        \* calls of a client method, each made once
    Workloads,    \* what the agents set out to do: the plan of every call, the
                  \* nonces drawn under a session id, the recovery spends,
                  \* and the signature lists a broken sidecar or proxy may
                  \* answer with
    Endpoints,    \* configurations an operator may start
    MaxRequests,  \* maxRequestsPerTenant of a hosted endpoint
    RateWindow,   \* rateWindowMs, in units of time
    WindowCap,    \* charges a tenant's window admits
    FeeCeiling,   \* the default sat/vB ceiling
    MaxTime       \* bound on real time

\* resolveRateBound: "rateWindowMs must be a positive integer".
ASSUME RateAssumption ==
    MaxRequests \in Nat /\ RateWindow \in Nat \ {0} /\ {WindowCap, MaxTime} \subseteq Nat

\* A plan names finitely many inputs; a broken endpoint still answers a list,
\* and the daemon's nonces, a function of its key, are not among what it makes up.
ASSUME WorkAssumption ==
    \A w \in Workloads :
        /\ \A c \in Calls : w.plans[c] = Undefined \/ IsFiniteSet(w.plans[c].asks)
        /\ \A sigs \in w.wrong : /\ Len(sigs) \in Nat
                                 /\ \A k \in 1..Len(sigs) : sigs[k].nonce[1] # "daemon"

\* Calls are told apart from session ids, and undefined from every reason.
ASSUME NameAssumption ==
    /\ "session" \notin Calls
    /\ Undefined \notin {"not JSON", "COSIGNER_BAD_RESPONSE", "COSIGNER_MSG_MISMATCH",
                          "PARTIAL_SIGN_FAILED", "DENIED", "TENANT_RATE_LIMIT", "UNAUTHORIZED",
                          "REQUEST_TOO_LARGE", "BAD_REQUEST", "UNSUPPORTED_WIRE_VERSION"}

VARIABLES
    work,      \* the workload
    server,    \* the endpoint that was started
    now,       \* Date.now() of the endpoint
    rate,      \* tenant -> its fixed window: count and resetAt
    charges,   \* rows in the tenants' window stores
    served,    \* requests that got past the rate gate, and when
    wire,      \* requests that may still reach the endpoint
    call,      \* call -> where its client method stands
    answer,    \* call -> the HTTP response on its way back
    live,      \* secret nonces the library still caches, by handle
    sessions,  \* _nonceSessions
    signed,    \* partial signatures the agent made
    tx         \* the last transaction handed to the caller

nonceVars == <<live, sessions, signed>>
serverVars == <<work, server, now, rate, charges, served>>
vars == <<work, server, now, rate, charges, served, wire, call, answer, live, sessions, signed, tx>>

-----------------------------------------------------------------------------
(* The endpoint. *)

\* createHostedCoSignerApp, indexTenants: ids, tokens and window stores are
\* distinct, tokens are long enough, and every tenant caps its inputs.
IndexTenants(s) ==
    LET n == Len(s.tenants)
    IN  /\ n > 0
        /\ \A i \in 1..n : s.tenants[i].capped /\ s.tenants[i].token # "short"
        /\ \A i, j \in 1..n : i # j => /\ s.tenants[i].id # s.tenants[j].id
                                       /\ s.tenants[i].token # s.tenants[j].token
                                       /\ s.tenants[i].store # s.tenants[j].store

\* createCoSignerApp: the one account of a sidecar needs a token, unless the
\* operator asks for an open endpoint by name.
SidecarStarts(s) ==
    Len(s.tenants) = 1 /\ (s.tenants[1].token # Undefined \/ s.allowUnauthenticated)

\* listenSecure: off loopback, only with TLS.
ListenSecure(s) == s.loopback \/ s.tls

Starts(s) == IF s.hosted THEN IndexTenants(s) /\ ListenSecure(s) ELSE SidecarStarts(s)

Tenants == 1..Len(server.tenants)

\* The tenant whose token the request carries; an open sidecar takes any.
TenantOf(token) ==
    {t \in Tenants : \/ server.tenants[t].token = token /\ token # Undefined
                     \/ ~server.hosted /\ server.tenants[t].token = Undefined}

\* Mutant: the window restarts one request early.
BumpedLoose(t) ==
    IF rate[t].resetAt <= now \/ rate[t].count >= MaxRequests
    THEN [count |-> 1, resetAt |-> now + RateWindow]
    ELSE [rate[t] EXCEPT !.count = @ + 1]

\* The fixed window after one more request, refused ones included.
Bumped(t) ==
    IF rate[t].resetAt <= now
    THEN [count |-> 1, resetAt |-> now + RateWindow]
    ELSE [rate[t] EXCEPT !.count = @ + 1]

Limited == server.hosted /\ MaxRequests > 0
Over(t) == Limited /\ Bumped(t).count > MaxRequests

Refusal(status, reason) ==
    [status |-> status, reason |-> reason, approved |-> FALSE, sigs |-> <<>>]

Respond(c, a) ==
    /\ wire' = wire \ {c}
    /\ answer' = [answer EXCEPT ![c] = a]

\* express.json and tooLargeHandler come before the handler, so before the
\* token is looked at.
TooLarge(c) ==
    /\ c \in wire /\ call[c].plan.body = "large"
    /\ Respond(c, Refusal(413, "REQUEST_TOO_LARGE"))
    /\ UNCHANGED <<work, server, now, rate, charges, served, call, nonceVars, tx>>

Unauthorized(c) ==
    /\ c \in wire /\ call[c].plan.body # "large"
    /\ TenantOf(call[c].plan.token) = {}
    /\ Respond(c, Refusal(401, "UNAUTHORIZED"))
    /\ UNCHANGED <<work, server, now, rate, charges, served, call, nonceVars, tx>>

\* An authenticated request of tenant t, counted before its body is read.
Authenticated(c, t) ==
    /\ c \in wire /\ call[c].plan.body # "large"
    /\ t \in TenantOf(call[c].plan.token)
    /\ rate' = IF Limited THEN [rate EXCEPT ![t] = Bumped(t)] ELSE rate

Throttle(c, t) ==
    /\ Authenticated(c, t) /\ Over(t)
    /\ Respond(c, Refusal(429, "TENANT_RATE_LIMIT"))
    /\ UNCHANGED <<work, server, now, charges, served, call, nonceVars, tx>>

Admitted(c, t) == Authenticated(c, t) /\ ~Over(t)

\* A hosted endpoint wants a wire version it implements, both want a body.
BadRequest(c, t) ==
    /\ Admitted(c, t)
    /\ LET wrongVersion == server.hosted /\ call[c].plan.version # 1
       IN  /\ wrongVersion \/ call[c].plan.body # "ok"
           /\ Respond(c, Refusal(400, IF wrongVersion THEN "UNSUPPORTED_WIRE_VERSION"
                                                      ELSE "BAD_REQUEST"))
    /\ UNCHANGED <<work, server, now, charges, served, call, nonceVars, tx>>

\* The request reaches this tenant's CoSigner.process.
Processed(c, t) ==
    /\ Admitted(c, t)
    /\ call[c].plan.body = "ok"
    /\ server.hosted => call[c].plan.version = 1
    /\ served' = served \cup {[call |-> c, tenant |-> t, at |-> now]}

StoreOf(t) == server.tenants[t].store

\* A row of the tenant's window store, of the request of call c.
Row(c, t) == [store |-> StoreOf(t), call |-> c, at |-> now]

Deny(c, t) ==
    /\ Processed(c, t)
    /\ Respond(c, Refusal(200, "DENIED"))
    /\ UNCHANGED <<work, server, now, charges, call, nonceVars, tx>>

\* process() throws: the window store could not be written.  The row may stay
\* in memory.
Fault(c, t) ==
    /\ Processed(c, t)
    /\ charges' \in {charges, charges \cup {Row(c, t)}}
    /\ Respond(c, Refusal(500, "INTERNAL_ERROR"))
    /\ UNCHANGED <<work, server, now, call, nonceVars, tx>>

\* The 32-byte message of an input: the script path's for a reveal.
Sighash(plan, i) ==
    [psbt |-> plan.psbt, index |-> i, path |-> IF plan.env = "reveal" THEN "leaf" ELSE "key"]

\* deterministicSign: the daemon's nonce is a function of what it signs and of
\* the agent's nonce, so the daemon keeps none.
DeterministicNonce(c, i) == <<"daemon", c, i>>

\* The inputs asked for, in ascending order.
InOrder(S) == [k \in 1..Cardinality(S) |-> CHOOSE i \in S : Cardinality({j \in S : j < i}) = k - 1]

\* signInputs: one partial signature for every input asked for ...
Signatures(c) ==
    LET plan == call[c].plan
        sig(i) == [index |-> i, msg |-> Sighash(plan, i), nonce |-> DeterministicNonce(c, i)]
    IN  [k \in 1..Cardinality(plan.asks) |-> sig(InOrder(plan.asks)[k])]

\* ... and one charge for all of them.
Approve(c, t) ==
    /\ Processed(c, t)
    /\ Cardinality({x \in charges : x.store = StoreOf(t)}) < WindowCap
    /\ charges' = charges \cup {Row(c, t)}
    /\ Respond(c, [status |-> 200, reason |-> Undefined, approved |-> TRUE, sigs |-> Signatures(c)])
    /\ UNCHANGED <<work, server, now, call, nonceVars, tx>>

\* A sidecar or a proxy that answers wrongly: a body that is not JSON, or
\* signatures for other inputs, messages or nonces than asked.
Misanswer(c) ==
    /\ c \in wire
    /\ \E w \in work.wrong : \/ Respond(c, Refusal(200, "not JSON"))
                             \/ Respond(c, [status |-> 200, reason |-> Undefined,
                                            approved |-> TRUE, sigs |-> w])
    /\ UNCHANGED <<serverVars, call, nonceVars, tx>>

-----------------------------------------------------------------------------
(* The agent's nonces. *)

\* A handle is the array generateNonce returned; the secret behind it is fresh
\* unless the caller names a session id.
Handle(secret, n) == [secret |-> secret, n |-> n]

\* generateNonce with a session id, guardSessionIdReuse.
GenerateNonce(sid, n) ==
    /\ sid \notin sessions
    /\ sessions' = sessions \cup {sid}
    /\ live' = live \cup {Handle(<<"session", sid>>, n)}
    /\ UNCHANGED <<serverVars, wire, call, answer, signed, tx>>

\* Mutant: the cached secret nonce survives the signature.
SpentKept(handles) == {}

\* partialSign deletes what it used: the handle finds its secret once.
Spent(handles) == handles

\* partialSign by a caller that drives MuSig2 itself.
PartialSign(h, msg) ==
    /\ h \in live /\ h.secret[1] = "session"
    /\ signed' = signed \cup {[secret |-> h.secret, msg |-> msg, nonce |-> Undefined]}
    /\ live' = live \ Spent({h})
    /\ UNCHANGED <<serverVars, wire, call, answer, sessions, tx>>

-----------------------------------------------------------------------------
(* The client. *)

AgentHandle(c, i) == Handle(<<c, i>>, 0)

\* sign, signAll and the signer of a MuSig2AgentSession: the envelope context
\* is derived, a nonce is drawn for every input, the request leaves.
Start(c) ==
    /\ call[c].st = "new" /\ call[c].plan # Undefined
    /\ IF call[c].plan.env = "unrelated"
       THEN /\ call' = [call EXCEPT ![c].st = "failed", ![c].why = "COSIGNER_CONFIG"]
            /\ UNCHANGED <<wire, live>>
       ELSE /\ call' = [call EXCEPT ![c].st = "sent"]
            /\ live' = live \cup {AgentHandle(c, i) : i \in call[c].plan.asks}
            /\ wire' = wire \cup {c}
    /\ UNCHANGED <<serverVars, answer, sessions, signed, tx>>

\* Mutant: the transport posts a request again when its answer is lost.
GiveUpPosting(c) ==
    /\ call[c].st = "sent"
    /\ wire' = wire \cup {c}
    /\ answer' = [answer EXCEPT ![c] = Undefined]
    /\ UNCHANGED <<serverVars, call, nonceVars, tx>>

\* fetch rejects; the request, or its answer, may be lost or still under way.
GiveUp(c) ==
    /\ call[c].st = "sent"
    /\ call' = [call EXCEPT ![c].st = "failed", ![c].why = "network"]
    /\ UNCHANGED <<serverVars, wire, answer, nonceVars, tx>>

\* httpTransport and the checks on approved.
AnswerFault(a) ==
    IF a.reason = "not JSON" THEN "COSIGNER_TRANSPORT_ERROR"
    ELSE IF ~a.approved THEN a.reason
    ELSE Undefined

\* assertMsgMatchesPsbt.
MsgMatches(plan, s) == s.msg = Sighash(plan, s.index)

\* What entry k of the answer makes the client throw.
EntryFault(c, sigs, k) ==
    LET plan == call[c].plan
        s == sigs[k]
        spent == Spent({AgentHandle(c, sigs[j].index) : j \in 1..(k - 1)})
    IN  IF s.index \notin plan.asks THEN "COSIGNER_BAD_RESPONSE"
        ELSE IF ~MsgMatches(plan, s) THEN "COSIGNER_MSG_MISMATCH"
        ELSE IF AgentHandle(c, s.index) \notin live \ spent THEN "PARTIAL_SIGN_FAILED"
        ELSE Undefined

\* The entries the client signs before the first one it throws on; sign wants
\* exactly one.
Taken(c, sigs) ==
    IF call[c].plan.method = "sign" /\ Len(sigs) # 1 THEN 0
    ELSE LET faults == {k \in 1..Len(sigs) : EntryFault(c, sigs, k) # Undefined}
         IN  IF faults = {} THEN Len(sigs)
             ELSE (CHOOSE k \in faults : \A j \in faults : k <= j) - 1

\* resolveMaxFeeRate, setMaximumFeeRate and extractTransaction: every input is
\* finalized and the fee rate is under the ceiling.
Extractable(plan, indexes) ==
    /\ indexes = 1..plan.inputs
    /\ plan.fee <= FeeCeiling * plan.vsize

\* The client reads its answer.
Receive(c) ==
    LET a == answer[c]
        plan == call[c].plan
        n == IF AnswerFault(a) = Undefined THEN Taken(c, a.sigs) ELSE 0
        indexes == {a.sigs[k].index : k \in 1..n}
        all == n = Len(a.sigs) /\ (plan.method = "sign" => n = 1)
        returns == /\ AnswerFault(a) = Undefined /\ all
                   /\ plan.method = "signer" => Extractable(plan, indexes)
    IN  /\ a # Undefined /\ call[c].st = "sent"
        /\ live' = live \ Spent({AgentHandle(c, i) : i \in indexes})
        /\ signed' = signed \cup {[secret |-> <<c, a.sigs[k].index>>, msg |-> a.sigs[k].msg,
                                   nonce |-> a.sigs[k].nonce] : k \in 1..n}
        /\ call' = [call EXCEPT ![c].st = IF returns THEN "returned" ELSE "failed",
                                ![c].why = IF returns THEN Undefined
                                           ELSE IF AnswerFault(a) # Undefined THEN AnswerFault(a)
                                           ELSE IF all THEN "not extractable"
                                           ELSE IF n < Len(a.sigs) /\ plan.method # "sign"
                                                THEN EntryFault(c, a.sigs, n + 1)
                                           ELSE "COSIGNER_BAD_RESPONSE"]
        /\ tx' = IF returns /\ plan.method = "signer"
                 THEN [fee |-> plan.fee, vsize |-> plan.vsize, accepted |-> FALSE,
                       unsigned |-> (1..plan.inputs) \ indexes]
                 ELSE tx
        /\ answer' = [answer EXCEPT ![c] = Undefined]
        /\ UNCHANGED <<serverVars, wire, sessions>>

-----------------------------------------------------------------------------
(* Recovery: the account is a tap tree whose key path is the agent and the *)
(* daemon, and whose two leaves pair each of them with the recovery key.   *)

\* deriveMuSig2P2TR2of3.
Leaf == [agentRecovery |-> {"agent", "recovery"}, daemonRecovery |-> {"daemon", "recovery"}]

FeeAccepted(r) == r.acceptHighFee \/ r.in - r.out <= FeeCeiling * r.vsize

\* buildRecoverySpend with localPairSigner, reconcileRecoveryFee.
Recover(r) ==
    /\ r.leaf \in DOMAIN Leaf /\ r.keys = Leaf[r.leaf]
    /\ r.in > 0 /\ r.out <= r.in
    /\ FeeAccepted(r)
    /\ tx' = [fee |-> r.in - r.out, vsize |-> r.vsize, accepted |-> r.acceptHighFee,
              unsigned |-> {}]
    /\ UNCHANGED <<serverVars, wire, call, answer, nonceVars>>

Tick ==
    /\ now < MaxTime
    /\ now' = now + 1
    /\ UNCHANGED <<work, server, rate, charges, served, wire, call, answer, nonceVars, tx>>

Init ==
    /\ work \in Workloads
    /\ server \in {s \in Endpoints : Starts(s)}
    /\ now = 0
    /\ rate = [t \in Tenants |-> [count |-> 0, resetAt |-> 0]]
    /\ charges = {} /\ served = {} /\ wire = {}
    /\ call = [c \in Calls |-> [st |-> "new", plan |-> work.plans[c], why |-> Undefined]]
    /\ answer = [c \in Calls |-> Undefined]
    /\ live = {} /\ sessions = {} /\ signed = {} /\ tx = Undefined

Next ==
    \/ \E c \in Calls : \/ Start(c) \/ GiveUp(c) \/ Receive(c)
                        \/ TooLarge(c) \/ Unauthorized(c) \/ Misanswer(c)
                        \/ \E t \in Tenants : \/ Throttle(c, t) \/ BadRequest(c, t)
                                              \/ Deny(c, t) \/ Fault(c, t) \/ Approve(c, t)
    \/ \E sid \in work.sids, n \in {1, 2} : GenerateNonce(sid, n)
    \/ \E h \in live, msg \in {"m1", "m2"} : PartialSign(h, msg)
    \/ \E r \in work.recoveries : Recover(r)
    \/ Tick

Spec == Init /\ [][Next]_vars

-----------------------------------------------------------------------------
\* A secret nonce makes one partial signature, over the sighash of the PSBT it
\* was drawn for, whatever a sidecar answers: a second one under another
\* challenge would disclose the agent's key (musig2.js, guardSessionIdReuse;
\* client.js, assertMsgMatchesPsbt).
NonceSafe ==
    /\ \A x, y \in signed : x.secret = y.secret => x = y
    /\ \A x \in signed, c \in Calls :
          x.secret[1] = c => x.msg = Sighash(call[c].plan, x.secret[2])

\* What the windows hold is what the daemon gave away: a call is charged at most
\* once, also when its answer is lost, in no other window than that of the
\* tenant whose token it sent, and a daemon's signature an agent has completed
\* is charged, whatever the other agents lose or a broken sidecar answers
\* (sign_request.js, recordBudget; hosted_server.js, indexTenants; client.js,
\* httpTransport, which posts a request once).
ChargedOnce ==
    /\ \A x, y \in charges : x.call = y.call => x = y
    /\ \A x \in charges, t \in Tenants :
          StoreOf(t) = x.store => t \in TenantOf(call[x.call].plan.token)
    /\ \A x \in signed :
          x.secret[1] \in Calls /\ x.nonce = DeterministicNonce(x.secret[1], x.secret[2])
              => \E y \in charges : y.call = x.secret[1]

\* No span of RateWindow admits more than two windows' worth of requests of a
\* tenant (hosted_server.js: "a fixed window admits a burst across a window
\* boundary").
RateBound ==
    Limited => \A t \in Tenants, from \in 0..now :
        Cardinality({x \in served : x.tenant = t /\ x.at \in from..(from + RateWindow - 1)})
            <= 2 * MaxRequests
=============================================================================
