----------------------------- MODULE X402Gateway -----------------------------
(***************************************************************************)
(* The server side of the HTTP 402 flow (utils/x402.js, utils/x402/):      *)
(* guard() answers a request without an accepted proof with a challenge,   *)
(* verify() checks a proof under one of three schemes, and the sweeper     *)
(* settles the grants made before a confirmation.  A request runs up to    *)
(* its next call to the explorer in one step; FileInvoiceStore.update()    *)
(* reads, decides and renames under a mutex per nonce, which makes it one  *)
(* step too.  A 402 answer is named by its nonce k: it stands for the      *)
(* invoice and for the challenge tokens the answer carries.                *)
(***************************************************************************)
EXTENDS Integers, Sequences, FiniteSetsExt

CONSTANTS
    None,
    Configs,        \* gateway options: [send, minConf, dispenser, deposit, signed, secret]
    Nonces,         \* the 402 answers that can be given (a bound)
    Req,            \* the requests with an admitted proof (a bound)
    Payers, Resources,
    Payments,       \* the transactions that may be sent
    PayTo, DepositTo, Tick402, Amount, Price,
    Ttl,            \* send.ttlMs + expiryGraceMs
    ChallengeTtl,   \* challengeTtlMs
    ConfirmWindow,  \* confirmWindowMs
    Sweepers,       \* the sweep cycles that may overlap: startSweeper's timer waits for none
    Latency,        \* the longest a request waits for the explorer, its time-outs included
    PruneAge,       \* maxAgeDays of prune()
    LastAsk,        \* the last time a 402 answer is followed (a bound)
    MaxTime, MaxFailures, MaxRestarts

ASSUME GatewayAssumption ==
    /\ {Ttl, ChallengeTtl, ConfirmWindow, Latency, PruneAge, LastAsk, MaxTime} \subseteq Nat
    /\ {Amount, Price, MaxFailures, MaxRestarts} \subseteq Nat
    /\ None \notin Req \cup Nonces

\* The window in which a provisional grant may still confirm outlasts every
\* request that was admitted before the invoice expired.  With the defaults:
\* five minutes and ten seconds, and ten minutes.
ASSUME WindowAssumption == Ttl + Latency <= ConfirmWindow

\* The explorer's amounts are token amounts, of finitely many payments.
ASSUME PaymentAssumption == IsFiniteSet(Payments) /\ \A p \in Payments : p.amount \in Nat

VARIABLES
    config,    \* the options of the constructor, fixed
    now,
    restarts,
    chain,     \* what the explorer reports of each payment
    holders,   \* the payers that hold minBalance of holdTick
    ask,       \* 402 answers: when, for which resource, under which secret
    inv,       \* invoice files
    spent,     \* deposit ledger files
    used,      \* _usedChallenges: <<answer, scheme>>, in memory
    wireIds,   \* _wireIdCache is filled
    tail,      \* _depositLocks: the requests of each payer, in order
    req,       \* requests being verified, and how they ended
    sweep,     \* the sweeps in flight
    failures

vars == <<config, now, restarts, chain, holders, ask, inv, spent, used, wireIds, tail, req, sweep,
          failures>>
worldVars == <<chain, holders>>
memoryVars == <<used, wireIds, tail>>

Reading == {"sends", "mempool", "balances", "deposits"}
Claiming == {"claim", "claim_0conf"}
InFlight(i) == req[i].pc \in Reading \cup Claiming \cup {"debit"}
Granted(i) == req[i].pc = "granted"

NoRequest == [pc |-> "new", scheme |-> None, k |-> None, payer |-> None, signer |-> None,
              resource |-> None, at |-> 0, found |-> 0]
NoSweep == [todo |-> {}, cur |-> None]

Init ==
    /\ config \in Configs
    /\ now = 0 /\ restarts = 0 /\ failures = 0
    /\ chain = [p \in Payments |-> "unsent"]
    /\ holders = {}
    /\ ask = [k \in Nonces |-> [issued |-> FALSE, at |-> 0, resource |-> None, secret |-> 0]]
    /\ inv = [k \in Nonces |-> [status |-> "none", payer |-> None, grantedAt |-> 0]]
    /\ spent = [p \in Payers |-> 0]
    /\ used = {} /\ wireIds = FALSE
    /\ tail = [p \in Payers |-> <<>>]
    /\ req = [i \in Req |-> NoRequest]
    /\ sweep = [s \in Sweepers |-> NoSweep]

-----------------------------------------------------------------------------
(* The explorer, external. *)

SetChain(p, from, to) ==
    /\ chain[p] \in from
    /\ chain' = [chain EXCEPT ![p] = to]
    /\ UNCHANGED <<config, now, restarts, holders, ask, inv, spent, memoryVars, req, sweep, failures>>

\* A client pays under a scheme on offer; a nonce is random, and nobody puts it
\* in a memo before it is issued.
Broadcast(p) ==
    /\ IF p.to = DepositTo THEN config.deposit ELSE config.send
    /\ p.memo \in Nonces => ask[p.memo].issued
    /\ SetChain(p, {"unsent"}, "mempool")
Confirm(p) == SetChain(p, {"mempool"}, "valid")
\* Found invalid by the indexer, or evicted.
Fail(p) == SetChain(p, {"mempool"}, "invalid")
\* A hundred newer sends to the address push the row off the first page.
Bury(p) == p.to = PayTo /\ SetChain(p, {"valid"}, "buried")

Trade(p) ==
    /\ config.dispenser
    /\ holders' = IF p \in holders THEN holders \ {p} ELSE holders \cup {p}
    /\ UNCHANGED <<config, now, restarts, chain, ask, inv, spent, memoryVars, req, sweep, failures>>

-----------------------------------------------------------------------------
(* What counts as payment. *)

\* outputMatches, for an output with its references expanded.
OutputMatches(p, k) ==
    p.to = PayTo /\ p.tick = Tick402 /\ p.amount >= Amount /\ p.memo = k

\* Mutant: anybody's payment will do.
FindConfirmedSendOfAny(k, payer) ==
    \E p \in Payments : chain[p] = "valid" /\ OutputMatches(p, k)

\* findConfirmedSend: the first page of valid sends to payTo by this source.
FindConfirmedSend(k, payer) ==
    \E p \in Payments : chain[p] = "valid" /\ p.source = payer /\ OutputMatches(p, k)

\* findMempoolSend: a compacted destination or tick matches only if its id is known.
FindMempoolSend(k, payer, known) ==
    \E p \in Payments : /\ chain[p] = "mempool" /\ p.source = payer /\ OutputMatches(p, k)
                        /\ p.compact => known

\* The deposits of a payer, from every page.
Deposited(payer) ==
    LET AmountOf(p) == p.amount
    IN  MapThenSumSet(AmountOf, {p \in Payments : /\ chain[p] \in {"valid", "buried"}
                                                  /\ p.source = payer
                                                  /\ p.to = DepositTo /\ p.tick = Tick402})

-----------------------------------------------------------------------------
(* The 402 answer. *)

Fresh == {k \in Nonces : ~ask[k].issued /\ now <= LastAsk}

\* The HMAC secret: random per process unless challengeSecret is configured.
Secret == IF config.secret = "random" THEN restarts ELSE 0

\* challengeBody: a pending invoice and challenge tokens.  When the bound on
\* answers is reached, the answer goes to a client the model does not follow.
ChallengeBody(resource) ==
    IF Fresh = {} THEN UNCHANGED <<ask, inv>>
    ELSE LET k == CHOOSE k \in Fresh : TRUE
         IN  /\ ask' = [ask EXCEPT ![k] = [issued |-> TRUE, at |-> now, resource |-> resource,
                                           secret |-> Secret]]
             /\ inv' = IF config.send THEN [inv EXCEPT ![k].status = "pending"] ELSE inv

\* A request without an X-Payment header.
Ask ==
    /\ Fresh # {}
    /\ \E r \in Resources : ChallengeBody(r)
    /\ UNCHANGED <<config, now, restarts, worldVars, spent, memoryVars, req, sweep, failures>>

-----------------------------------------------------------------------------
(* A request with a proof, up to its first wait for the explorer. *)

Proofs == [scheme : {"send", "dispenser", "deposit"}, k : Nonces, payer : Payers,
           signer : Payers, resource : Resources]

\* verifyPayerSignature: the proof is signed by the key of `payer'.
Signed(f) == config.signed => f.signer = f.payer

Claimable(k) == inv[k].status \in {"pending", "failed_0conf"}

SendAdmits(f) ==
    /\ config.send /\ Signed(f)
    /\ Claimable(f.k)
    /\ now <= ask[f.k].at + Ttl

Live(k) == ask[k].at + ChallengeTtl > now

\* checkChallenge: MAC, resource and expiry.
CheckChallenge(f) ==
    ask[f.k].issued /\ ask[f.k].secret = Secret /\ ask[f.k].resource = f.resource /\ Live(f.k)

Pruned == {u \in used : Live(u[1])}

\* verifyDispenser and verifyDeposit, up to the explorer.
TokenAdmits(f) ==
    /\ IF f.scheme = "dispenser" THEN config.dispenser ELSE config.deposit
    /\ config.signed => CheckChallenge(f) /\ Signed(f) /\ <<f.k, f.scheme>> \notin Pruned

Admits(f) == IF f.scheme = "send" THEN SendAdmits(f) ELSE TokenAdmits(f)

\* consumeChallenge.
Consumed(f) ==
    IF f.scheme = "send" \/ ~config.signed THEN used ELSE Pruned \cup {<<f.k, f.scheme>>}

FirstRead(scheme) ==
    CASE scheme = "send" -> "sends" [] scheme = "dispenser" -> "balances"
      [] scheme = "deposit" -> "deposits"

Unused == {i \in Req : req[i].pc = "new"}

Arrive(f) ==
    /\ Admits(f)
    /\ Unused # {}
    /\ LET i == CHOOSE i \in Unused : TRUE
       IN  /\ req' = [req EXCEPT ![i] = [pc |-> FirstRead(f.scheme), scheme |-> f.scheme,
                                         k |-> f.k, payer |-> f.payer, signer |-> f.signer,
                                         resource |-> f.resource, at |-> now, found |-> 0]]
           /\ tail' = IF f.scheme = "deposit"
                      THEN [tail EXCEPT ![f.payer] = Append(@, i)] ELSE tail
    /\ used' = Consumed(f)
    /\ UNCHANGED <<config, now, restarts, worldVars, ask, inv, spent, wireIds, sweep, failures>>

TurnAway(f) ==
    /\ ~Admits(f)
    /\ Fresh # {}
    /\ ChallengeBody(f.resource)
    /\ used' = IF f.scheme # "send" /\ config.signed /\ CheckChallenge(f) /\ Signed(f)
               THEN Pruned ELSE used
    /\ UNCHANGED <<config, now, restarts, worldVars, spent, wireIds, tail, req, sweep, failures>>

-----------------------------------------------------------------------------
(* A request, one step per answer of the explorer. *)

Goto(i, pc) == req' = [req EXCEPT ![i].pc = pc]

\* Nothing is kept of a request that ended without a grant.
Ended == [NoRequest EXCEPT !.pc = "over"]

\* guard(): 402 with a new challenge.
Refuse(i) == req' = [req EXCEPT ![i] = Ended] /\ ChallengeBody(req[i].resource)

Grant(i) == req' = [req EXCEPT ![i].pc = "granted", ![i].at = 0, ![i].found = 0]

Proceed(i, pc) == Goto(i, pc) /\ UNCHANGED <<ask, inv>>

ReadSends(i) ==
    /\ req[i].pc = "sends"
    /\ IF FindConfirmedSend(req[i].k, req[i].payer) THEN Proceed(i, "claim")
       ELSE IF config.minConf = 0 THEN Proceed(i, "mempool") ELSE Refuse(i)
    /\ UNCHANGED <<config, now, restarts, worldVars, spent, memoryVars, sweep, failures>>

\* resolveWireIds() may fail to learn an id, and remembers one it learnt.
ReadMempool(i) ==
    /\ req[i].pc = "mempool"
    /\ wireIds' \in (IF wireIds THEN {TRUE} ELSE BOOLEAN)
    /\ IF FindMempoolSend(req[i].k, req[i].payer, wireIds')
       THEN Proceed(i, "claim_0conf") ELSE Refuse(i)
    /\ UNCHANGED <<config, now, restarts, worldVars, spent, used, tail, sweep, failures>>

Provisional(i) == [status |-> "provisional_0conf", payer |-> req[i].payer, grantedAt |-> now]

Confirmed(i) == [inv[req[i].k] EXCEPT !.status = "confirmed", !.payer = req[i].payer]

\* Mutant: the claim trusts the status that was read before the explorer.
ClaimUnchecked(i) ==
    /\ req[i].pc \in Claiming
    /\ Grant(i)
    /\ inv' = [inv EXCEPT ![req[i].k] =
            IF req[i].pc = "claim" THEN Confirmed(i) ELSE Provisional(i)]
    /\ UNCHANGED <<config, now, restarts, worldVars, ask, spent, memoryVars, sweep, failures>>

\* store.update() with the status looked at again, under the nonce's mutex.
Claim(i) ==
    /\ req[i].pc \in Claiming
    /\ IF Claimable(req[i].k)
       THEN /\ Grant(i) /\ UNCHANGED ask
            /\ inv' = [inv EXCEPT ![req[i].k] =
                    IF req[i].pc = "claim" THEN Confirmed(i) ELSE Provisional(i)]
       ELSE Refuse(i)
    /\ UNCHANGED <<config, now, restarts, worldVars, spent, memoryVars, sweep, failures>>

ReadBalances(i) ==
    /\ req[i].pc = "balances"
    /\ IF req[i].payer \in holders THEN Grant(i) /\ UNCHANGED <<ask, inv>> ELSE Refuse(i)
    /\ UNCHANGED <<config, now, restarts, worldVars, spent, memoryVars, sweep, failures>>

\* The requests of one payer wait for each other.
ReadDeposits(i) ==
    /\ req[i].pc = "deposits" /\ Head(tail[req[i].payer]) = i
    /\ req' = [req EXCEPT ![i].pc = "debit", ![i].found = Deposited(req[i].payer)]
    /\ UNCHANGED <<config, now, restarts, worldVars, ask, inv, spent, memoryVars, sweep, failures>>

Leave(i) == tail' = [tail EXCEPT ![req[i].payer] = Tail(@)]

\* Mutant: any credit left buys a call.
DebitLast(i) ==
    /\ req[i].pc = "debit"
    /\ IF req[i].found - spent[req[i].payer] > 0
       THEN /\ spent' = [spent EXCEPT ![req[i].payer] = @ + Price]
            /\ Grant(i) /\ UNCHANGED <<ask, inv>>
       ELSE UNCHANGED spent /\ Refuse(i)
    /\ Leave(i)
    /\ UNCHANGED <<config, now, restarts, worldVars, used, wireIds, sweep, failures>>

\* The ledger is read, compared and renamed into place without a wait.
Debit(i) ==
    /\ req[i].pc = "debit"
    /\ IF req[i].found - spent[req[i].payer] >= Price
       THEN /\ spent' = [spent EXCEPT ![req[i].payer] = @ + Price]
            /\ Grant(i) /\ UNCHANGED <<ask, inv>>
       ELSE UNCHANGED spent /\ Refuse(i)
    /\ Leave(i)
    /\ UNCHANGED <<config, now, restarts, worldVars, used, wireIds, sweep, failures>>

\* The explorer fails or times out: guard() answers 500.
ReadFails(i) ==
    /\ req[i].pc \in Reading /\ failures < MaxFailures
    /\ req[i].pc = "deposits" => Head(tail[req[i].payer]) = i
    /\ req' = [req EXCEPT ![i] = Ended] /\ UNCHANGED <<ask, inv>>
    /\ IF req[i].pc = "deposits" THEN Leave(i) ELSE UNCHANGED tail
    /\ failures' = failures + 1
    /\ UNCHANGED <<config, now, restarts, worldVars, spent, used, wireIds, sweep>>

Verify(i) ==
    ReadSends(i) \/ ReadMempool(i) \/ Claim(i) \/ ReadBalances(i) \/ ReadDeposits(i) \/ Debit(i)

-----------------------------------------------------------------------------
(* sweep() *)

ListProvisional == {k \in Nonces : inv[k].status = "provisional_0conf"}

SweepStart(s) ==
    /\ sweep[s] = NoSweep
    /\ ListProvisional # {}
    /\ sweep' = [sweep EXCEPT ![s].todo =
            {[k |-> k, payer |-> inv[k].payer, grantedAt |-> inv[k].grantedAt] :
                k \in ListProvisional}]
    /\ UNCHANGED <<config, now, restarts, worldVars, ask, inv, spent, memoryVars, req, failures>>

SweepRead(s) ==
    /\ sweep[s].cur = None
    /\ \E e \in sweep[s].todo :
        sweep' = [sweep EXCEPT ![s] = [todo |-> @.todo \ {e},
                      cur |-> [of |-> e, found |-> FindConfirmedSend(e.k, e.payer)]]]
    /\ UNCHANGED <<config, now, restarts, worldVars, ask, inv, spent, memoryVars, req, failures>>

\* One invoice's failure is logged and left to the next cycle.
SweepReadFails(s) ==
    /\ sweep[s].cur = None /\ failures < MaxFailures
    /\ \E e \in sweep[s].todo : sweep' = [sweep EXCEPT ![s].todo = @ \ {e}]
    /\ failures' = failures + 1
    /\ UNCHANGED <<config, now, restarts, worldVars, ask, inv, spent, memoryVars, req>>

\* Mutant: an unconfirmed grant is never given up.
SettledForGood(c, status) == IF c.found THEN "confirmed" ELSE status

\* The status the cycle gives an invoice.
Settled(c, status) ==
    IF c.found THEN "confirmed"
    ELSE IF now - c.of.grantedAt > ConfirmWindow THEN "failed_0conf" ELSE status

\* The update does not look at the status again; a pruned file stays pruned.
SweepApply(s) ==
    /\ sweep[s].cur # None
    /\ sweep' = [sweep EXCEPT ![s].cur = None]
    /\ LET k == sweep[s].cur.of.k
       IN  inv' = IF inv[k].status = "none" THEN inv
                  ELSE [inv EXCEPT ![k].status = Settled(sweep[s].cur, @)]
    /\ UNCHANGED <<config, now, restarts, worldVars, ask, spent, memoryVars, req, failures>>

Sweep(s) == SweepStart(s) \/ SweepRead(s) \/ SweepReadFails(s) \/ SweepApply(s)

\* prune(): the operator drops old day directories.
Prune(k) ==
    /\ inv[k].status # "none"
    /\ now - ask[k].at > PruneAge
    /\ inv' = [inv EXCEPT ![k].status = "none"]
    /\ UNCHANGED <<config, now, restarts, worldVars, ask, spent, memoryVars, req, sweep, failures>>

-----------------------------------------------------------------------------
\* The process dies and a new one reads the files.
Restart ==
    /\ restarts < MaxRestarts
    /\ restarts' = restarts + 1
    /\ req' = [i \in Req |-> IF InFlight(i) THEN Ended ELSE req[i]]
    /\ used' = {} /\ wireIds' = FALSE /\ tail' = [p \in Payers |-> <<>>]
    /\ sweep' = [s \in Sweepers |-> NoSweep]
    /\ UNCHANGED <<config, now, worldVars, ask, inv, spent, failures>>

\* No request outlives its time-outs.
Tick ==
    /\ now < MaxTime
    /\ \A i \in Req : InFlight(i) => now < req[i].at + Latency
    /\ now' = now + 1
    /\ UNCHANGED <<config, restarts, worldVars, ask, inv, spent, memoryVars, req, sweep, failures>>

World ==
    \/ \E p \in Payments : Broadcast(p) \/ Confirm(p) \/ Fail(p) \/ Bury(p)
    \/ \E p \in Payers : Trade(p)

Next ==
    \/ World
    \/ Ask
    \/ \E f \in Proofs : Arrive(f) \/ TurnAway(f)
    \/ \E i \in Req : Verify(i) \/ ReadFails(i)
    \/ \E s \in Sweepers : Sweep(s)
    \/ \E k \in Nonces : Prune(k)
    \/ Restart
    \/ Tick

Spec == Init /\ [][Next]_vars

\* The explorer answers or times out, the sweeper's timer fires, time passes.
FairSpec ==
    /\ Spec
    /\ \A i \in Req : WF_vars(Verify(i) \/ ReadFails(i))
    /\ WF_vars(Tick)
    /\ \A s \in Sweepers : WF_vars(Sweep(s))

-----------------------------------------------------------------------------
\* An invoice buys one response, however many requests present it at once,
\* whatever the sweeper decides meanwhile and whenever the process restarts
\* (x402.js: "invoice nonces are single-use").
SingleUse ==
    \A i, j \in Req :
        Granted(i) /\ Granted(j) /\ req[i].scheme = "send" /\ req[j].scheme = "send"
            /\ req[i].k = req[j].k => i = j

\* What the store calls confirmed is a payment of the full price, by the payer
\* on record, that the explorer reports as valid (findConfirmedSend).
ConfirmedIsPaid ==
    \A k \in Nonces : inv[k].status = "confirmed" =>
        \E p \in Payments : /\ chain[p] \in {"valid", "buried"} /\ p.source = inv[k].payer
                            /\ p.to = PayTo /\ p.tick = Tick402 /\ p.amount >= Amount
                            /\ p.memo = k

\* A response for an invoice goes to the holder of a key that sent the payment,
\* and a response from a deposit to the holder of a key that deposited its price
\* (x402.js: "the on-chain SEND's source must equal the proof's payer").  What a
\* payer holds is looked up once and may be gone when the response leaves.
PayerIsServed ==
    config.signed =>
        \A i \in Req : Granted(i) =>
            /\ req[i].scheme = "send" =>
                  \E p \in Payments : /\ chain[p] # "unsent" /\ p.source = req[i].signer
                                      /\ p.memo = req[i].k /\ p.amount >= Amount
            /\ req[i].scheme = "deposit" => Deposited(req[i].signer) >= Price

\* The calls served from a payer's deposits never cost more than the deposits
\* (verifyDeposit).
NeverOverdrawn ==
    \A p \in Payers :
        Cardinality({i \in Req : /\ Granted(i) /\ req[i].scheme = "deposit"
                                 /\ req[i].payer = p}) * Price <= Deposited(p)

\* A signed challenge buys one response (payment_verification.js: "Consumed
\* one-time so a captured proof cannot re-debit within the TTL").
ChallengeOnce ==
    config.signed =>
        \A i, j \in Req :
            Granted(i) /\ Granted(j) /\ req[i].scheme # "send"
                /\ req[i].scheme = req[j].scheme /\ req[i].k = req[j].k => i = j

\* Once an invoice is confirmed, no later cycle of the sweeper and no late
\* request takes that back (sweep: "promote on confirmation").
PromotionStep ==
    \A k \in Nonces : inv[k].status = "confirmed" => inv'[k].status \in {"confirmed", "none"}

PromotionSticks == [][PromotionStep]_vars

\* A grant made before confirmation is promoted or failed in the end
\* (x402.js: "a sweeper promotes to confirmed or revokes").
ProvisionalSettles ==
    \A k \in Nonces : inv[k].status = "provisional_0conf" ~> inv[k].status # "provisional_0conf"

-----------------------------------------------------------------------------
(* The inductive invariant behind SingleUse: no request is still on its way  *)
(* when a grant of its invoice may be failed.                                *)

SendPhases == {"sends", "mempool"} \cup Claiming

EntriesOf(s) ==
    sweep[s].todo \cup (IF sweep[s].cur = None THEN {} ELSE {sweep[s].cur.of})

\* An invoice file belongs to an answer, and is granted after it was issued.
InvoiceDates ==
    /\ DOMAIN ask = Nonces /\ DOMAIN inv = Nonces
    /\ \A k \in Nonces :
        /\ DOMAIN inv[k] = {"status", "payer", "grantedAt"}
        /\ ask[k].at \in Nat /\ ask[k].at <= now /\ inv[k].grantedAt \in Nat
        /\ ask[k].issued \in BOOLEAN
        /\ inv[k].status # "none" => ask[k].issued
        /\ inv[k].status = "provisional_0conf" => ask[k].at <= inv[k].grantedAt

\* A request is on its way no longer than Latency, since before the expiry.
RequestDates ==
    /\ DOMAIN req = Req
    /\ \A i \in Req :
        /\ DOMAIN req[i] = DOMAIN NoRequest
        /\ InFlight(i) => (req[i].pc \in SendPhases <=> req[i].scheme = "send")
        /\ (InFlight(i) \/ Granted(i)) /\ req[i].scheme = "send" =>
              req[i].k \in Nonces /\ ask[req[i].k].issued
        /\ InFlight(i) =>
              /\ req[i].at \in Nat /\ now <= req[i].at + Latency
              /\ req[i].scheme = "send" => req[i].at <= ask[req[i].k].at + Ttl

\* What a sweep carries was granted after its invoice was issued.
SweepDates ==
    /\ DOMAIN sweep = Sweepers
    /\ \A s \in Sweepers :
        /\ DOMAIN sweep[s] = {"todo", "cur"}
        /\ \A e \in EntriesOf(s) : /\ e.k \in Nonces /\ e.grantedAt \in Nat
                                   /\ ask[e.k].issued /\ ask[e.k].at <= e.grantedAt

\* An invoice that bought a response is claimable only when nobody can be left
\* to claim it.
ServedIsClosed ==
    \A i \in Req : Granted(i) /\ req[i].scheme = "send" =>
        \/ ~Claimable(req[i].k)
        \/ now > ask[req[i].k].at + ConfirmWindow

InvoiceInv ==
    now \in Nat /\ InvoiceDates /\ RequestDates /\ SweepDates /\ ServedIsClosed /\ SingleUse
=============================================================================
