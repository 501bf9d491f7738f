-------------------------- MODULE X402GatewayProofs --------------------------
(***************************************************************************)
(* Proofs about X402Gateway for every number of requests, invoices,        *)
(* payments, sweeps, restarts and failures: an invoice buys one response   *)
(* whenever the confirmation window outlasts the time a request may take,  *)
(* who is served has paid, no deposit is overdrawn, and, with one sweep at *)
(* a time, a confirmed grant stays.                                        *)
(***************************************************************************)
EXTENDS X402Gateway, SumLemmas

\* What a step may do to 402 answers and invoice files besides a claim, a sweep
\* and a prune: nothing, or issue an answer that was not there.
AskStep ==
    /\ DOMAIN ask' = Nonces /\ DOMAIN inv' = Nonces
    /\ \A k \in Nonces :
        \/ ask'[k] = ask[k] /\ inv'[k] = inv[k]
        \/ /\ ~ask[k].issued
           /\ ask'[k].issued = TRUE /\ ask'[k].at = now
           /\ DOMAIN inv'[k] = {"status", "payer", "grantedAt"}
           /\ inv'[k].grantedAt = inv[k].grantedAt
           /\ inv'[k].status \in {"none", "pending"}

\* What a step may do to a request besides admitting it and claiming for it:
\* nothing, end it, take it on within its scheme, or grant it off-invoice.
ReqStep ==
    /\ DOMAIN req' = Req
    /\ \A i \in Req :
        /\ DOMAIN req'[i] = DOMAIN NoRequest
        /\ \/ req'[i] = req[i]
           \/ req'[i].pc = "over"
           \/ /\ InFlight(i) /\ InFlight(i)'
              /\ req'[i].scheme = req[i].scheme /\ req'[i].k = req[i].k
              /\ req'[i].at = req[i].at
              /\ req'[i].pc \in SendPhases <=> req[i].pc \in SendPhases
           \/ req'[i].pc = "granted" /\ req'[i].scheme # "send"

\* A sweep carries no more than it did.
SweepStep ==
    /\ DOMAIN sweep' = Sweepers
    /\ \A s \in Sweepers :
        /\ DOMAIN sweep'[s] = {"todo", "cur"}
        /\ EntriesOf(s)' \subseteq EntriesOf(s)

\* The constants that are durations are numbers (options of the constructor).
LEMMA Durations == Ttl \in Nat /\ Latency \in Nat /\ ConfirmWindow \in Nat /\ Ttl + Latency <= ConfirmWindow
BY GatewayAssumption, WindowAssumption

\* A member is chosen from a set that is not empty (the next nonce, the next
\* request).
LEMMA Chosen == ASSUME NEW S, S # {} PROVE (CHOOSE x \in S : TRUE) \in S
OBVIOUS

\* challengeBody() touches no invoice that exists.
LEMMA ChallengeBodyAsks ==
    ASSUME InvoiceDates, NEW r, ChallengeBody(r)
    PROVE  AskStep
<1>1. CASE Fresh = {}
    BY <1>1 DEF ChallengeBody, AskStep, InvoiceDates
<1>2. CASE Fresh # {}
    <2>. DEFINE k == CHOOSE k \in Fresh : TRUE
    <2>1. k \in Fresh
        BY <1>2, Chosen
    <2>2. k \in Nonces /\ ~ask[k].issued
        BY <2>1 DEF Fresh
    <2>3. inv[k].status = "none"
        BY <2>2 DEF InvoiceDates
    <2>4. ask' = [ask EXCEPT ![k] = [issued |-> TRUE, at |-> now, resource |-> r,
                                     secret |-> Secret]]
        BY <1>2 DEF ChallengeBody
    <2>5. inv' = IF config.send THEN [inv EXCEPT ![k].status = "pending"] ELSE inv
        BY <1>2 DEF ChallengeBody
    <2>. HIDE DEF k
    <2>6. DOMAIN ask' = Nonces /\ DOMAIN inv' = Nonces
        BY <2>4, <2>5 DEF InvoiceDates
    <2>7. ASSUME NEW j \in Nonces, j # k PROVE ask'[j] = ask[j] /\ inv'[j] = inv[j]
        BY <2>4, <2>5, <2>7 DEF InvoiceDates
    <2>8. /\ ask'[k].issued = TRUE /\ ask'[k].at = now
          /\ DOMAIN inv'[k] = {"status", "payer", "grantedAt"}
          /\ inv'[k].grantedAt = inv[k].grantedAt
          /\ inv'[k].status \in {"none", "pending"}
        BY <2>2, <2>3, <2>4, <2>5 DEF InvoiceDates
    <2>. QED BY <2>2, <2>6, <2>7, <2>8 DEF AskStep
<1>. QED BY <1>1, <1>2

\* Nothing but a claim, a sweep, a prune or time can disturb the invariant.
LEMMA QuietStep ==
    ASSUME InvoiceInv, now' = now, AskStep, ReqStep, SweepStep
    PROVE  InvoiceInv'
<1>. USE Durations DEF InvoiceInv
<1>1. InvoiceDates'
    <2>. SUFFICES ASSUME NEW k \in Nonces
         PROVE  /\ DOMAIN inv'[k] = {"status", "payer", "grantedAt"}
                /\ ask'[k].at \in Nat /\ ask'[k].at <= now' /\ inv'[k].grantedAt \in Nat
                /\ ask'[k].issued \in BOOLEAN
                /\ inv'[k].status # "none" => ask'[k].issued
                /\ inv'[k].status = "provisional_0conf" => ask'[k].at <= inv'[k].grantedAt
        BY DEF InvoiceDates, AskStep
    <2>1. CASE ask'[k] = ask[k] /\ inv'[k] = inv[k]
        BY <2>1 DEF InvoiceDates
    <2>2. CASE ~(ask'[k] = ask[k] /\ inv'[k] = inv[k])
        <3>1. /\ ask'[k].issued = TRUE /\ ask'[k].at = now
              /\ DOMAIN inv'[k] = {"status", "payer", "grantedAt"}
              /\ inv'[k].grantedAt = inv[k].grantedAt
              /\ inv'[k].status \in {"none", "pending"}
            BY <2>2 DEF AskStep
        <3>2. inv[k].grantedAt \in Nat /\ now \in Nat
            BY DEF InvoiceDates
        <3>3. ask'[k].issued \in BOOLEAN /\ ask'[k].issued
            BY <3>1, Zenon
        <3>4. ask'[k].at \in Nat /\ ask'[k].at <= now' /\ inv'[k].grantedAt \in Nat
            BY <3>1, <3>2
        <3>5. inv'[k].status # "provisional_0conf"
            BY <3>1
        <3>. QED BY <3>1, <3>3, <3>4, <3>5, Zenon
    <2>. QED BY <2>1, <2>2
<1>2. ASSUME NEW k \in Nonces, ask[k].issued
      PROVE  ask'[k] = ask[k] /\ inv'[k] = inv[k]
    BY <1>2 DEF AskStep
<1>3. RequestDates'
    <2>. SUFFICES ASSUME NEW i \in Req
         PROVE  /\ InFlight(i)' => (req'[i].pc \in SendPhases <=> req'[i].scheme = "send")
                /\ (InFlight(i)' \/ Granted(i)') /\ req'[i].scheme = "send" =>
                      req'[i].k \in Nonces /\ ask'[req'[i].k].issued
                /\ InFlight(i)' =>
                      /\ req'[i].at \in Nat /\ now' <= req'[i].at + Latency
                      /\ req'[i].scheme = "send" => req'[i].at <= ask'[req'[i].k].at + Ttl
        BY DEF RequestDates, ReqStep, SendPhases, Claiming
    <2>1. CASE req'[i] = req[i]
        BY <1>2, <2>1 DEF RequestDates, InFlight, Granted, SendPhases
    <2>2. CASE req'[i].pc = "over"
        BY <2>2 DEF InFlight, Granted, Reading, Claiming
    <2>3. CASE /\ InFlight(i) /\ InFlight(i)'
               /\ req'[i].scheme = req[i].scheme /\ req'[i].k = req[i].k
               /\ req'[i].at = req[i].at
               /\ req'[i].pc \in SendPhases <=> req[i].pc \in SendPhases
        BY <1>2, <2>3 DEF RequestDates
    <2>4. CASE req'[i].pc = "granted" /\ req'[i].scheme # "send"
        BY <2>4 DEF InFlight, Granted, Reading, Claiming
    <2>. QED BY <2>1, <2>2, <2>3, <2>4 DEF ReqStep
<1>4. SweepDates'
    BY <1>2 DEF SweepDates, SweepStep
<1>5. ASSUME NEW i \in Req, Granted(i)', req'[i].scheme = "send"
      PROVE  req'[i] = req[i] /\ Granted(i)
    BY <1>5 DEF ReqStep, Granted, InFlight, Reading, Claiming
<1>6. ServedIsClosed'
    BY <1>2, <1>5 DEF ServedIsClosed, RequestDates, Claimable
<1>7. SingleUse'
    BY <1>5 DEF SingleUse
<1>. QED BY <1>1, <1>3, <1>4, <1>6, <1>7

\* A step that leaves a part alone takes a quiet step of it.
LEMMA Frames ==
    ASSUME InvoiceInv
    PROVE  /\ UNCHANGED <<ask, inv>> => AskStep
           /\ UNCHANGED req => ReqStep
           /\ UNCHANGED sweep => SweepStep
BY DEF InvoiceInv, InvoiceDates, RequestDates, SweepDates, AskStep, ReqStep, SweepStep, EntriesOf

\* A request goes on, ends, or is granted for a holding or a deposit
\* (verifySend, verifyDispenser and verifyDeposit up to their claims).
LEMMA RequestMoves ==
    ASSUME InvoiceInv, NEW i \in Req, InFlight(i),
           \/ /\ req' = [req EXCEPT ![i].pc = req'[i].pc]
              /\ req'[i].pc \in Reading \cup Claiming \cup {"debit"}
              /\ req'[i].pc \in SendPhases <=> req[i].pc \in SendPhases
           \/ req' = [req EXCEPT ![i] = Ended]
           \/ Grant(i) /\ req[i].scheme # "send"
    PROVE  ReqStep
<1>1. DOMAIN req = Req /\ \A j \in Req : DOMAIN req[j] = DOMAIN NoRequest
    BY DEF InvoiceInv, RequestDates
<1>2. CASE /\ req' = [req EXCEPT ![i].pc = req'[i].pc]
           /\ req'[i].pc \in Reading \cup Claiming \cup {"debit"}
           /\ req'[i].pc \in SendPhases <=> req[i].pc \in SendPhases
    <2>1. /\ req'[i].scheme = req[i].scheme /\ req'[i].k = req[i].k
          /\ req'[i].at = req[i].at /\ DOMAIN req'[i] = DOMAIN NoRequest
        BY <1>1, <1>2 DEF NoRequest
    <2>2. DOMAIN req' = Req /\ \A j \in Req : j # i => req'[j] = req[j]
        BY <1>1, <1>2
    <2>3. InFlight(i)'
        BY <1>2 DEF InFlight
    <2>. QED BY <1>1, <1>2, <2>1, <2>2, <2>3 DEF ReqStep
<1>3. CASE req' = [req EXCEPT ![i] = Ended]
    BY <1>1, <1>3 DEF ReqStep, Ended, NoRequest
<1>4. CASE Grant(i) /\ req[i].scheme # "send"
    <2>1. /\ req'[i].pc = "granted" /\ req'[i].scheme = req[i].scheme
          /\ DOMAIN req'[i] = DOMAIN NoRequest
        BY <1>1, <1>4 DEF Grant, NoRequest
    <2>2. DOMAIN req' = Req /\ \A j \in Req : j # i => req'[j] = req[j]
        BY <1>1, <1>4 DEF Grant
    <2>. QED BY <1>1, <1>4, <2>1, <2>2 DEF ReqStep
<1>. QED BY <1>2, <1>3, <1>4

\* A refusal is quiet (guard(): 402 with a new challenge).
LEMMA Refusal ==
    ASSUME InvoiceInv, NEW i \in Req, InFlight(i), Refuse(i)
    PROVE  AskStep /\ ReqStep
BY ChallengeBodyAsks, RequestMoves DEF Refuse, InvoiceInv

\* Every step of a request but its claim is quiet.
LEMMA ReadsAreQuiet ==
    ASSUME InvoiceInv, NEW i \in Req,
           \/ ReadSends(i) \/ ReadMempool(i) \/ ReadBalances(i) \/ ReadDeposits(i)
           \/ Debit(i) \/ ReadFails(i)
    PROVE  AskStep /\ sweep' = sweep /\ InvoiceInv'
<1>1. now' = now /\ sweep' = sweep /\ SweepStep
    BY Frames DEF ReadSends, ReadMempool, ReadBalances, ReadDeposits, Debit, ReadFails
<1>2. InFlight(i)
    BY DEF ReadSends, ReadMempool, worldVars, ReadBalances, ReadDeposits, Debit, ReadFails, InFlight,
           Reading, Claiming
<1>3. DOMAIN req = Req /\ DOMAIN req[i] = DOMAIN NoRequest
    BY DEF InvoiceInv, RequestDates
<1>4. req[i].pc \in {"balances", "deposits", "debit"} => req[i].scheme # "send"
    BY <1>2 DEF InvoiceInv, RequestDates, SendPhases, Claiming
<1>5. ASSUME NEW pc \in {"mempool", "claim", "claim_0conf"}, Proceed(i, pc),
             req[i].pc \in {"sends", "mempool"}
      PROVE  AskStep /\ ReqStep
    <2>1. req' = [req EXCEPT ![i].pc = req'[i].pc] /\ req'[i].pc = pc
        BY <1>3, <1>5 DEF Proceed, Goto, NoRequest
    <2>. QED BY <1>2, <1>5, <2>1, Frames, RequestMoves DEF Proceed, Reading, Claiming, SendPhases
<1>6. AskStep /\ ReqStep
    <2>1. CASE ReadSends(i)
        BY <1>2, <1>5, <2>1, Refusal DEF ReadSends
    <2>2. CASE ReadMempool(i)
        BY <1>2, <1>5, <2>2, Refusal DEF ReadMempool
    <2>3. CASE ReadBalances(i)
        BY <1>2, <1>4, <2>3, Refusal, RequestMoves, Frames DEF ReadBalances
    <2>4. CASE ReadDeposits(i)
        <3>1. DOMAIN req' = Req /\ \A j \in Req : j # i => req'[j] = req[j]
            BY <1>3, <2>4 DEF ReadDeposits
        <3>2. /\ req'[i].scheme = req[i].scheme /\ req'[i].k = req[i].k
              /\ req'[i].at = req[i].at /\ DOMAIN req'[i] = DOMAIN NoRequest
              /\ req'[i].pc = "debit" /\ req[i].pc = "deposits"
            BY <1>3, <2>4 DEF ReadDeposits, NoRequest
        <3>3. \A j \in Req : DOMAIN req[j] = DOMAIN NoRequest
            BY DEF InvoiceInv, RequestDates
        <3>4. ReqStep
            BY <1>2, <3>1, <3>2, <3>3 DEF ReqStep, InFlight, SendPhases, Claiming
        <3>. QED BY <2>4, <3>4, Frames DEF ReadDeposits
    <2>5. CASE Debit(i)
        BY <1>2, <1>4, <2>5, Refusal, RequestMoves, Frames DEF Debit
    <2>6. CASE ReadFails(i)
        BY <1>2, <2>6, RequestMoves, Frames DEF ReadFails
    <2>. QED BY <2>1, <2>2, <2>3, <2>4, <2>5, <2>6
<1>. QED BY <1>1, <1>6, QuietStep

\* An admitted request starts within the invoice's life.
LEMMA ArriveKeeps ==
    ASSUME InvoiceInv, NEW f \in Proofs, Arrive(f)
    PROVE  InvoiceInv'
<1>. USE Durations
<1>. DEFINE i == CHOOSE i \in Unused : TRUE
<1>1. i \in Req /\ req[i].pc = "new"
    BY Chosen DEF Arrive, Unused
<1>2. /\ req' = [req EXCEPT ![i] = [pc |-> FirstRead(f.scheme), scheme |-> f.scheme,
                                    k |-> f.k, payer |-> f.payer, signer |-> f.signer,
                                    resource |-> f.resource, at |-> now, found |-> 0]]
      /\ UNCHANGED <<now, ask, inv, sweep>>
      /\ Admits(f)
    BY DEF Arrive
<1>. HIDE DEF i
<1>3. f.scheme \in {"send", "dispenser", "deposit"} /\ f.k \in Nonces
    BY DEF Proofs
<1>4. f.scheme = "send" => ask[f.k].issued /\ now <= ask[f.k].at + Ttl
    BY <1>2, <1>3 DEF Admits, SendAdmits, Claimable, InvoiceInv, InvoiceDates
<1>5. /\ DOMAIN req' = Req
      /\ \A j \in Req : j # i => req'[j] = req[j]
      /\ DOMAIN req'[i] = DOMAIN NoRequest
      /\ req'[i].pc = FirstRead(f.scheme) /\ req'[i].scheme = f.scheme
      /\ req'[i].k = f.k /\ req'[i].at = now
    BY <1>1, <1>2 DEF InvoiceInv, RequestDates, NoRequest
<1>6. /\ req'[i].pc \in Reading
      /\ req'[i].pc \in SendPhases <=> req'[i].scheme = "send"
    BY <1>3, <1>5 DEF FirstRead, Reading, SendPhases, Claiming
<1>7. InvoiceDates' /\ SweepDates'
    BY <1>2 DEF InvoiceInv, InvoiceDates, SweepDates, EntriesOf
<1>8. RequestDates'
    <2>. SUFFICES ASSUME NEW j \in Req
         PROVE  /\ DOMAIN req'[j] = DOMAIN NoRequest
                /\ InFlight(j)' => (req'[j].pc \in SendPhases <=> req'[j].scheme = "send")
                /\ (InFlight(j)' \/ Granted(j)') /\ req'[j].scheme = "send" =>
                      req'[j].k \in Nonces /\ ask'[req'[j].k].issued
                /\ InFlight(j)' =>
                      /\ req'[j].at \in Nat /\ now' <= req'[j].at + Latency
                      /\ req'[j].scheme = "send" => req'[j].at <= ask'[req'[j].k].at + Ttl
        BY <1>5 DEF RequestDates, SendPhases, Claiming
    <2>1. CASE j = i
        BY <1>2, <1>3, <1>4, <1>5, <1>6, <2>1 DEF InvoiceInv
    <2>2. CASE j # i
        BY <1>2, <1>5, <2>2 DEF InvoiceInv, RequestDates, InFlight, Granted
    <2>. QED BY <2>1, <2>2
<1>9. ASSUME NEW j \in Req, Granted(j)' PROVE req'[j] = req[j] /\ Granted(j)
    BY <1>5, <1>6, <1>9 DEF Granted, Reading
<1>10. ServedIsClosed' /\ SingleUse'
    BY <1>2, <1>9 DEF InvoiceInv, ServedIsClosed, SingleUse, Claimable
<1>. QED BY <1>2, <1>7, <1>8, <1>10 DEF InvoiceInv

\* A claim that succeeds is the first: an invoice that was served before is
\* claimable again only after every request for it has timed out.
LEMMA ClaimKeeps ==
    ASSUME InvoiceInv, NEW i \in Req, Claim(i)
    PROVE  InvoiceInv'
<1>. USE Durations
<1>. DEFINE k == req[i].k
<1>1. InFlight(i) /\ req[i].pc \in SendPhases
    BY DEF Claim, InFlight, SendPhases
<1>2. req[i].scheme = "send" /\ k \in Nonces /\ ask[k].issued
    BY <1>1 DEF InvoiceInv, RequestDates
<1>3. now <= ask[k].at + ConfirmWindow
    BY <1>1, <1>2 DEF InvoiceInv, RequestDates, InvoiceDates
<1>4. CASE ~Claimable(k)
    BY <1>1, <1>4, Refusal, Frames, QuietStep DEF Claim
<1>5. CASE Claimable(k)
    <2>1. /\ UNCHANGED <<now, ask, sweep>> /\ Grant(i)
          /\ inv' = [inv EXCEPT ![k] = IF req[i].pc = "claim" THEN Confirmed(i) ELSE Provisional(i)]
        BY <1>5 DEF Claim
    <2>2. /\ DOMAIN req' = Req /\ \A j \in Req : j # i => req'[j] = req[j]
          /\ DOMAIN req'[i] = DOMAIN NoRequest /\ req'[i].pc = "granted"
          /\ req'[i].scheme = "send" /\ req'[i].k = k
        BY <1>2, <2>1 DEF Grant, InvoiceInv, RequestDates, NoRequest
    <2>3. /\ DOMAIN inv' = Nonces /\ \A n \in Nonces : n # k => inv'[n] = inv[n]
          /\ DOMAIN inv'[k] = {"status", "payer", "grantedAt"}
          /\ inv'[k].grantedAt \in {inv[k].grantedAt, now}
          /\ inv'[k].status \in {"confirmed", "provisional_0conf"}
          /\ inv'[k].status = "provisional_0conf" => inv'[k].grantedAt = now
        BY <1>2, <2>1 DEF Confirmed, Provisional, InvoiceInv, InvoiceDates
    <2>4. InvoiceDates'
        BY <1>2, <2>1, <2>3 DEF InvoiceInv, InvoiceDates
    <2>5. RequestDates'
        <3>. SUFFICES ASSUME NEW j \in Req
             PROVE  /\ DOMAIN req'[j] = DOMAIN NoRequest
                    /\ InFlight(j)' => (req'[j].pc \in SendPhases <=> req'[j].scheme = "send")
                    /\ (InFlight(j)' \/ Granted(j)') /\ req'[j].scheme = "send" =>
                          req'[j].k \in Nonces /\ ask'[req'[j].k].issued
                    /\ InFlight(j)' =>
                          /\ req'[j].at \in Nat /\ now' <= req'[j].at + Latency
                          /\ req'[j].scheme = "send" => req'[j].at <= ask'[req'[j].k].at + Ttl
            BY <2>2 DEF RequestDates, SendPhases, Claiming
        <3>1. CASE j = i
            BY <1>2, <2>1, <2>2, <3>1 DEF InFlight, Reading, Claiming
        <3>2. CASE j # i
            BY <2>1, <2>2, <3>2 DEF InvoiceInv, RequestDates, InFlight, Granted
        <3>. QED BY <3>1, <3>2
    <2>6. SweepDates'
        BY <2>1 DEF InvoiceInv, SweepDates, EntriesOf
    <2>7. ASSUME NEW j \in Req, j # i, Granted(j)', req'[j].scheme = "send"
          PROVE  Granted(j) /\ req'[j] = req[j] /\ req[j].k # k
        <3>1. Granted(j) /\ req'[j] = req[j]
            BY <2>2, <2>7 DEF Granted
        <3>2. ~Claimable(req[j].k) \/ now > ask[req[j].k].at + ConfirmWindow
            BY <2>7, <3>1 DEF InvoiceInv, ServedIsClosed
        <3>. QED BY <1>2, <1>3, <1>5, <3>1, <3>2 DEF InvoiceInv, InvoiceDates
    <2>8. ServedIsClosed'
        <3>. SUFFICES ASSUME NEW j \in Req, Granted(j)', req'[j].scheme = "send"
             PROVE  \/ inv'[req'[j].k].status \notin {"pending", "failed_0conf"}
                    \/ now' > ask'[req'[j].k].at + ConfirmWindow
            BY DEF ServedIsClosed, Claimable
        <3>1. CASE j = i
            BY <2>2, <2>3, <3>1
        <3>2. CASE j # i
            BY <2>1, <2>3, <2>7, <3>2 DEF InvoiceInv, ServedIsClosed, RequestDates, Claimable
        <3>. QED BY <3>1, <3>2
    <2>9. SingleUse'
        BY <2>2, <2>7 DEF InvoiceInv, SingleUse
    <2>. QED BY <2>1, <2>4, <2>5, <2>6, <2>8, <2>9 DEF InvoiceInv
<1>. QED BY <1>4, <1>5

\* The steps of a sweep: what it carries, and what it writes.
LEMMA SweepKeeps ==
    ASSUME InvoiceInv, NEW s \in Sweepers, Sweep(s)
    PROVE  InvoiceInv'
<1>. USE Durations
<1>1. CASE SweepStart(s)
    <2>1. UNCHANGED <<now, ask, inv, req>>
        BY <1>1 DEF SweepStart
    <2>2. /\ DOMAIN sweep' = Sweepers /\ \A t \in Sweepers : t # s => sweep'[t] = sweep[t]
          /\ DOMAIN sweep'[s] = {"todo", "cur"} /\ sweep'[s].cur = None
          /\ sweep'[s].todo = {[k |-> k, payer |-> inv[k].payer, grantedAt |-> inv[k].grantedAt] :
                                  k \in ListProvisional}
        BY <1>1 DEF SweepStart, NoSweep, InvoiceInv, SweepDates
    <2>3. ASSUME NEW e \in sweep'[s].todo
          PROVE  /\ e.k \in Nonces /\ e.grantedAt \in Nat
                 /\ ask[e.k].issued /\ ask[e.k].at <= e.grantedAt
        BY <2>2 DEF ListProvisional, InvoiceInv, InvoiceDates
    <2>4. ASSUME NEW t \in Sweepers, NEW e \in EntriesOf(t)'
          PROVE  /\ e.k \in Nonces /\ e.grantedAt \in Nat
                 /\ ask'[e.k].issued /\ ask'[e.k].at <= e.grantedAt
        <3>1. CASE t = s
            BY <2>1, <2>2, <2>3, <3>1 DEF EntriesOf
        <3>2. CASE t # s
            BY <2>1, <2>2, <3>2 DEF EntriesOf, InvoiceInv, SweepDates
        <3>. QED BY <3>1, <3>2
    <2>5. SweepDates'
        BY <2>2, <2>4 DEF SweepDates, InvoiceInv
    <2>6. InvoiceDates' /\ RequestDates' /\ ServedIsClosed' /\ SingleUse'
        BY <2>1 DEF InvoiceInv, InvoiceDates, RequestDates, ServedIsClosed, SingleUse, InFlight,
                    Granted, Claimable
    <2>. QED BY <2>1, <2>5, <2>6 DEF InvoiceInv
<1>2. CASE SweepRead(s)
    <2>1. PICK e \in sweep[s].todo :
            sweep' = [sweep EXCEPT ![s] = [todo |-> @.todo \ {e},
                          cur |-> [of |-> e, found |-> FindConfirmedSend(e.k, e.payer)]]]
        BY <1>2 DEF SweepRead
    <2>2. SweepStep
        BY <2>1 DEF SweepStep, EntriesOf, InvoiceInv, SweepDates
    <2>. QED BY <1>2, <2>2, Frames, QuietStep DEF SweepRead
<1>3. CASE SweepReadFails(s)
    <2>1. PICK e \in sweep[s].todo : sweep' = [sweep EXCEPT ![s].todo = @ \ {e}]
        BY <1>3 DEF SweepReadFails
    <2>2. SweepStep
        BY <2>1 DEF SweepStep, EntriesOf, InvoiceInv, SweepDates
    <2>. QED BY <1>3, <2>2, Frames, QuietStep DEF SweepReadFails
<1>4. CASE SweepApply(s)
    <2>. DEFINE c == sweep[s].cur
                k == c.of.k
    <2>1. /\ k \in Nonces /\ c.of.grantedAt \in Nat
          /\ ask[k].issued /\ ask[k].at <= c.of.grantedAt
        BY <1>4 DEF SweepApply, InvoiceInv, SweepDates, EntriesOf
    <2>2. /\ UNCHANGED <<now, ask, req>>
          /\ sweep' = [sweep EXCEPT ![s].cur = None]
          /\ inv' = IF inv[k].status = "none" THEN inv
                    ELSE [inv EXCEPT ![k].status = Settled(c, @)]
        BY <1>4 DEF SweepApply
    <2>3. /\ DOMAIN inv' = Nonces /\ \A n \in Nonces : n # k => inv'[n] = inv[n]
          /\ DOMAIN inv'[k] = {"status", "payer", "grantedAt"}
          /\ inv'[k].grantedAt = inv[k].grantedAt
          /\ \/ inv'[k].status = inv[k].status
             \/ inv'[k].status = "confirmed"
             \/ inv'[k].status = "failed_0conf" /\ now - c.of.grantedAt > ConfirmWindow
        BY <2>1, <2>2 DEF Settled, InvoiceInv, InvoiceDates
    <2>4. inv'[k].status = "failed_0conf" =>
             inv[k].status = "failed_0conf" \/ now > ask[k].at + ConfirmWindow
        BY <2>1, <2>3 DEF InvoiceInv, InvoiceDates
    <2>5. SweepStep
        BY <2>2 DEF SweepStep, EntriesOf, InvoiceInv, SweepDates
    <2>6. SweepDates'
        BY <2>2, <2>5 DEF SweepStep, InvoiceInv, SweepDates
    <2>7. InvoiceDates'
        <3>. HIDE DEF k
        <3>1. inv'[k].status = "provisional_0conf" => inv[k].status = "provisional_0conf"
            BY <2>3
        <3>2. ask[k].issued \in BOOLEAN
            BY <2>1 DEF InvoiceInv, InvoiceDates
        <3>. QED BY <2>1, <2>2, <2>3, <3>1, <3>2 DEF InvoiceInv, InvoiceDates
    <2>8. RequestDates' /\ SingleUse'
        BY <2>2 DEF InvoiceInv, RequestDates, SingleUse, InFlight, Granted
    <2>9. ServedIsClosed'
        <3>. HIDE DEF k
        <3>. SUFFICES ASSUME NEW i \in Req, Granted(i), req[i].scheme = "send"
             PROVE  \/ inv'[req[i].k].status \notin {"pending", "failed_0conf"}
                    \/ now > ask[req[i].k].at + ConfirmWindow
            BY <2>2 DEF ServedIsClosed, Claimable, Granted
        <3>1. req[i].k \in Nonces
            BY DEF InvoiceInv, RequestDates
        <3>2. \/ inv[req[i].k].status \notin {"pending", "failed_0conf"}
              \/ now > ask[req[i].k].at + ConfirmWindow
            BY DEF InvoiceInv, ServedIsClosed, Claimable
        <3>3. CASE req[i].k = k
            BY <2>3, <2>4, <3>2, <3>3
        <3>4. CASE req[i].k # k
            BY <2>3, <3>1, <3>2, <3>4
        <3>. QED BY <3>3, <3>4
    <2>. QED BY <2>2, <2>6, <2>7, <2>8, <2>9 DEF InvoiceInv
<1>. QED BY <1>1, <1>2, <1>3, <1>4 DEF Sweep

\* prune() removes whole files.
LEMMA PruneKeeps ==
    ASSUME InvoiceInv, NEW k \in Nonces, Prune(k)
    PROVE  InvoiceInv'
<1>1. UNCHANGED <<now, ask, req, sweep>> /\ inv' = [inv EXCEPT ![k].status = "none"]
    BY DEF Prune
<1>2. /\ DOMAIN inv' = Nonces /\ \A n \in Nonces : n # k => inv'[n] = inv[n]
      /\ DOMAIN inv'[k] = {"status", "payer", "grantedAt"}
      /\ inv'[k].grantedAt = inv[k].grantedAt /\ inv'[k].status = "none"
    BY <1>1 DEF InvoiceInv, InvoiceDates
<1>3. InvoiceDates'
    BY <1>1, <1>2 DEF InvoiceInv, InvoiceDates
<1>4. RequestDates' /\ SweepDates' /\ SingleUse'
    BY <1>1 DEF InvoiceInv, RequestDates, SweepDates, SingleUse, InFlight, Granted, EntriesOf
<1>5. ServedIsClosed'
    BY <1>1, <1>2 DEF InvoiceInv, ServedIsClosed, RequestDates, Granted, Claimable
<1>. QED BY <1>1, <1>3, <1>4, <1>5 DEF InvoiceInv

\* A restart ends what was on its way and keeps the files.
LEMMA RestartKeeps ==
    ASSUME InvoiceInv, Restart
    PROVE  InvoiceInv'
<1>1. UNCHANGED <<now, ask, inv>>
    BY DEF Restart
<1>2. ReqStep
    BY DEF Restart, ReqStep, Ended, NoRequest, InvoiceInv, RequestDates
<1>3. SweepStep
    BY DEF Restart, SweepStep, EntriesOf, NoSweep
<1>. QED BY <1>1, <1>2, <1>3, Frames, QuietStep

\* Time only closes invoices, and passes no request's time-out.
LEMMA TickKeeps ==
    ASSUME InvoiceInv, Tick
    PROVE  InvoiceInv'
<1>. USE Durations
<1>1. UNCHANGED <<ask, inv, req, sweep>> /\ now' = now + 1 /\ now \in Nat
    BY DEF Tick, InvoiceInv
<1>2. InvoiceDates'
    BY <1>1 DEF InvoiceInv, InvoiceDates
<1>3. RequestDates'
    <2>1. ASSUME NEW i \in Req, InFlight(i) PROVE now' <= req[i].at + Latency
        BY <1>1, <2>1 DEF Tick, InvoiceInv, RequestDates
    <2>. QED BY <1>1, <2>1 DEF InvoiceInv, RequestDates, InFlight, Granted
<1>4. SweepDates' /\ SingleUse'
    BY <1>1 DEF InvoiceInv, SweepDates, EntriesOf, SingleUse, Granted
<1>5. ServedIsClosed'
    BY <1>1 DEF InvoiceInv, InvoiceDates, RequestDates, ServedIsClosed, Granted, Claimable
<1>. QED BY <1>1, <1>2, <1>3, <1>4, <1>5 DEF InvoiceInv

\* Every step preserves the invariant.
LEMMA InvoiceStep ==
    ASSUME InvoiceInv, [Next]_vars
    PROVE  InvoiceInv'
<1>1. CASE World
    <2>1. UNCHANGED <<now, ask, inv, req, sweep>>
        BY <1>1 DEF World, Broadcast, Confirm, Fail, Bury, SetChain, Trade
    <2>. QED BY <2>1, Frames, QuietStep
<1>2. CASE Ask
    <2>1. PICK r \in Resources : ChallengeBody(r)
        BY <1>2 DEF Ask
    <2>2. AskStep
        BY <2>1, ChallengeBodyAsks DEF InvoiceInv
    <2>. QED BY <1>2, <2>2, Frames, QuietStep DEF Ask
<1>3. ASSUME NEW f \in Proofs, Arrive(f) PROVE InvoiceInv'
    BY <1>3, ArriveKeeps
<1>4. ASSUME NEW f \in Proofs, TurnAway(f) PROVE InvoiceInv'
    <2>1. AskStep
        BY <1>4, ChallengeBodyAsks DEF TurnAway, InvoiceInv
    <2>. QED BY <1>4, <2>1, Frames, QuietStep DEF TurnAway
<1>5. ASSUME NEW i \in Req, Verify(i) \/ ReadFails(i) PROVE InvoiceInv'
    BY <1>5, ReadsAreQuiet, ClaimKeeps DEF Verify
<1>6. ASSUME NEW s \in Sweepers, Sweep(s) PROVE InvoiceInv'
    BY <1>6, SweepKeeps
<1>7. ASSUME NEW k \in Nonces, Prune(k) PROVE InvoiceInv'
    BY <1>7, PruneKeeps
<1>8. CASE UNCHANGED vars
    BY <1>8, Frames, QuietStep DEF vars
<1>. QED BY <1>1, <1>2, <1>3, <1>4, <1>5, <1>6, <1>7, <1>8, RestartKeeps, TickKeeps DEF Next

\* The initial state has no answers, files or requests.
LEMMA InvoiceInit == Init => InvoiceInv
<1>. SUFFICES ASSUME Init PROVE InvoiceInv
    OBVIOUS
<1>1. InvoiceDates
    <2>1. DOMAIN ask = Nonces /\ DOMAIN inv = Nonces /\ now = 0
        BY DEF Init
    <2>2. ASSUME NEW k \in Nonces
          PROVE  /\ DOMAIN inv[k] = {"status", "payer", "grantedAt"}
                 /\ inv[k].status = "none" /\ inv[k].grantedAt = 0
                 /\ ask[k].at = 0
        BY DEF Init
    <2>3. ASSUME NEW k \in Nonces PROVE ask[k].issued \in BOOLEAN
        BY DEF Init
    <2>4. ASSUME NEW k \in Nonces
          PROVE  ask[k].at \in Nat /\ ask[k].at <= now /\ inv[k].grantedAt \in Nat
        BY <2>1, <2>2
    <2>5. ASSUME NEW k \in Nonces PROVE inv[k].status # "provisional_0conf"
        BY <2>2
    <2>. QED BY <2>1, <2>2, <2>3, <2>4, <2>5, Zenon DEF InvoiceDates
<1>2. RequestDates /\ ServedIsClosed /\ SingleUse
    BY DEF Init, RequestDates, ServedIsClosed, SingleUse, InFlight, Granted, NoRequest, Reading,
           Claiming
<1>3. SweepDates
    BY DEF Init, SweepDates, EntriesOf, NoSweep
<1>. QED BY <1>1, <1>2, <1>3 DEF Init, InvoiceInv

\* No invoice buys two responses (verifySend): for any number of requests,
\* invoices, overlapping sweeps, restarts and explorer failures, as long as the
\* confirmation window outlasts the life of an invoice plus the longest wait.
THEOREM InvoiceSingleUse == Spec => []SingleUse
<1>1. InvoiceInv => SingleUse
    BY DEF InvoiceInv
<1>. QED BY <1>1, InvoiceInit, InvoiceStep, PTL DEF Spec

-----------------------------------------------------------------------------
(* Who is served, and what a deposit pays for. *)

Flying(r) == r.pc \in Reading \cup Claiming \cup {"debit"}

\* A send that pays the invoice of this request, as a claim was given it.
Paid(r) ==
    \E p \in Payments : /\ chain[p] # "unsent"
                        /\ p.source = r.payer /\ OutputMatches(p, r.k)

\* What is known of a request on its way or served.
Vouched(r) ==
    /\ Flying(r) \/ r.pc = "granted" =>
          /\ r.payer \in Payers
          /\ config.signed => r.signer = r.payer
          /\ r.scheme = "send" /\ r.pc \in Claiming \cup {"granted"} => Paid(r)
    /\ Flying(r) => /\ r.pc \in SendPhases <=> r.scheme = "send"
                    /\ r.pc \in {"deposits", "debit"} <=> r.scheme = "deposit"
    /\ r.pc = "debit" => r.found \in Int /\ r.found <= Deposited(r.payer)

RequestsVouched ==
    /\ DOMAIN req = Req /\ DOMAIN chain = Payments
    /\ \A i \in Req : DOMAIN req[i] = DOMAIN NoRequest /\ Vouched(req[i])

\* Served from the payer's deposit.
Drew(r, p) == r.pc = "granted" /\ r.scheme = "deposit" /\ r.payer = p

Draws(p) == {i \in Req : Drew(req[i], p)}

\* Every draw is in the ledger, and the ledger is within the deposits.
Ledgers ==
    /\ DOMAIN spent = Payers
    /\ \A p \in Payers : /\ spent[p] \in Nat /\ spent[p] <= Deposited(p)
                         /\ IsFiniteSet(Draws(p)) /\ Cardinality(Draws(p)) * Price <= spent[p]

ServiceInv == RequestsVouched /\ Ledgers

\* The payments a deposit is made of.
Funds(ch, payer) ==
    {p \in Payments : /\ ch[p] \in {"valid", "buried"} /\ p.source = payer
                      /\ p.to = DepositTo /\ p.tick = Tick402}

\* A payment on the chain stays there.
ChainStep ==
    /\ DOMAIN chain' = Payments
    /\ \A p \in Payments : /\ chain[p] # "unsent" => chain'[p] # "unsent"
                           /\ chain[p] \in {"valid", "buried"} => chain'[p] \in {"valid", "buried"}

\* Deposits are added up in the order the fold chooses.
LEMMA DepositsAdd ==
    ASSUME NEW payer
    PROVE  Deposited(payer) = Amounts(Funds(chain, payer)) /\ Deposited(payer) \in Nat
<1>1. Deposited(payer) = Amounts(Funds(chain, payer))
    <2> DEFINE T == {p \in Payments : /\ chain[p] \in {"valid", "buried"}
                                      /\ p.source = payer
                                      /\ p.to = DepositTo /\ p.tick = Tick402}
    <2>1. T = Funds(chain, payer)
        BY DEF Funds
    <2>2. Deposited(payer) = Amounts(T)
        BY AmountFold DEF Deposited, MapThenSumSet, MapThenFoldSet, Amounts
    <2> QED BY <2>1, <2>2
<1>2. IsFiniteSet(Funds(chain, payer)) /\ \A p \in Funds(chain, payer) : p.amount \in Nat
    BY FS_Subset, PaymentAssumption DEF Funds
<1> QED BY <1>1, <1>2, AmountsMore

LEMMA DepositedGrows ==
    ASSUME ChainStep, NEW payer
    PROVE  /\ Deposited(payer) \in Nat /\ Deposited(payer)' \in Nat
           /\ Deposited(payer) <= Deposited(payer)'
<1>1. Deposited(payer) = Amounts(Funds(chain, payer))
    BY DepositsAdd
<1>2. Deposited(payer)' = Amounts(Funds(chain', payer))
    <2> DEFINE T == {p \in Payments : /\ chain'[p] \in {"valid", "buried"}
                                      /\ p.source = payer
                                      /\ p.to = DepositTo /\ p.tick = Tick402}
    <2>1. T = Funds(chain', payer)
        BY DEF Funds
    <2>2. Deposited(payer)' = Amounts(T)
        BY AmountFold DEF Deposited, MapThenSumSet, MapThenFoldSet, Amounts
    <2> QED BY <2>1, <2>2
<1>3. /\ Funds(chain, payer) \subseteq Funds(chain', payer)
      /\ Funds(chain', payer) \subseteq Payments
    BY DEF Funds, ChainStep
<1>4. /\ IsFiniteSet(Funds(chain', payer))
      /\ \A p \in Funds(chain', payer) : p.amount \in Nat
    BY <1>3, FS_Subset, PaymentAssumption
<1> QED BY <1>1, <1>2, <1>3, <1>4, AmountsMore

\* What was vouched for a request stays vouched as the chain grows.
LEMMA StillVouched ==
    ASSUME ChainStep, config' = config
    PROVE  \A r : Vouched(r) => Vouched(r)'
<1> SUFFICES ASSUME NEW r, Vouched(r) PROVE Vouched(r)'
    OBVIOUS
<1>1. Paid(r) => Paid(r)'
    BY DEF Paid, ChainStep, OutputMatches
<1>2. r.pc = "debit" => r.found \in Int /\ r.found <= Deposited(r.payer)'
    BY DepositedGrows DEF Vouched
<1> QED BY <1>1, <1>2 DEF Vouched, Flying

LEMMA Untouched ==
    ASSUME chain' = chain, ServiceInv
    PROVE  ChainStep
BY DEF ServiceInv, RequestsVouched, ChainStep

\* A step that draws on no deposit.
LEMMA NoDraw ==
    ASSUME ServiceInv, ChainStep, spent' = spent, RequestsVouched',
           \A i \in Req, p \in Payers : Drew(req'[i], p) <=> Drew(req[i], p)
    PROVE  ServiceInv'
<1>1. \A p \in Payers : Draws(p)' = Draws(p)
    BY DEF Draws, Drew
<1>2. \A p \in Payers : Deposited(p) \in Nat /\ Deposited(p)' \in Nat
                        /\ Deposited(p) <= Deposited(p)'
    BY DepositedGrows
<1>3. Ledgers'
    <2>1. DOMAIN spent' = Payers
        BY DEF ServiceInv, Ledgers
    <2>2. ASSUME NEW p \in Payers
          PROVE  /\ spent'[p] \in Nat /\ spent'[p] <= Deposited(p)'
                 /\ IsFiniteSet(Draws(p)') /\ Cardinality(Draws(p)') * Price <= spent'[p]
        <3>1. /\ spent[p] \in Nat /\ spent[p] <= Deposited(p)
              /\ IsFiniteSet(Draws(p)) /\ Cardinality(Draws(p)) * Price <= spent[p]
            BY DEF ServiceInv, Ledgers
        <3>2. Draws(p)' = Draws(p) /\ spent'[p] = spent[p]
            BY <1>1
        <3> QED BY <1>2, <3>1, <3>2
    <2> QED BY <2>1, <2>2 DEF Ledgers
<1> QED BY <1>3 DEF ServiceInv

\* One request changes, into one that is vouched for and draws on no deposit.
LEMMA OneMoves ==
    ASSUME ServiceInv, chain' = chain, config' = config, spent' = spent, NEW i \in Req,
           DOMAIN req' = Req, \A j \in Req : j # i => req'[j] = req[j],
           DOMAIN req'[i] = DOMAIN NoRequest, Vouched(req'[i]),
           req[i].pc # "granted", req'[i].pc = "granted" => req'[i].scheme # "deposit"
    PROVE  ServiceInv'
<1>1. ChainStep
    BY Untouched
<1>2. RequestsVouched'
    <2>1. ASSUME NEW j \in Req PROVE DOMAIN req'[j] = DOMAIN NoRequest /\ Vouched(req'[j])
        BY DEF ServiceInv, RequestsVouched
    <2>2. \A r : Vouched(r) => Vouched(r)'
        BY <1>1, StillVouched
    <2>3. ASSUME NEW j \in Req PROVE Vouched(req[j])'
        <3>1. PICK r : r = req'[j]
            OBVIOUS
        <3>2. Vouched(r)'
            BY <2>1, <2>2, <3>1
        <3> QED BY <3>1, <3>2
    <2> QED BY <2>1, <2>3 DEF RequestsVouched, ServiceInv
<1>3. \A j \in Req, p \in Payers : Drew(req'[j], p) <=> Drew(req[j], p)
    BY DEF Drew
<1> QED BY <1>1, <1>2, <1>3, NoDraw

\* A step that leaves the requests, the ledgers and the chain alone.
LEMMA NothingMoves ==
    ASSUME ServiceInv, UNCHANGED <<config, chain, spent, req>>
    PROVE  ServiceInv'
<1>1. ChainStep
    BY Untouched
<1>2. RequestsVouched'
    BY <1>1, StillVouched DEF ServiceInv, RequestsVouched
<1> QED BY <1>1, <1>2, NoDraw

\* The chain only adds to what was found on it.
LEMMA WorldServes ==
    ASSUME ServiceInv, World
    PROVE  ServiceInv'
<1>1. UNCHANGED <<config, spent, req>>
    BY DEF World, Broadcast, Confirm, Fail, Bury, SetChain, Trade
<1>2. ChainStep
    <2>1. CASE chain' = chain
        BY <2>1, Untouched
    <2>2. CASE \E p \in Payments : Broadcast(p) \/ Confirm(p) \/ Fail(p) \/ Bury(p)
        BY <2>2 DEF Broadcast, Confirm, Fail, Bury, SetChain, ChainStep, ServiceInv, RequestsVouched
    <2> QED BY <2>1, <2>2 DEF World, Trade
<1>3. RequestsVouched'
    <2>1. \A r : Vouched(r) => Vouched(r)'
        BY <1>1, <1>2, StillVouched
    <2>2. ASSUME NEW i \in Req PROVE Vouched(req[i])'
        <3>1. PICK r : r = req[i]
            OBVIOUS
        <3>2. Vouched(r)'
            BY <2>1, <3>1 DEF ServiceInv, RequestsVouched
        <3>3. r = req'[i]
            BY <1>1, <3>1
        <3> QED BY <3>2, <3>3
    <2> QED BY <1>1, <1>2, <2>2 DEF ServiceInv, RequestsVouched, ChainStep
<1> QED BY <1>1, <1>2, <1>3, NoDraw

\* A request comes in with its payer's signature, where one is asked for.
LEMMA ArriveServes ==
    ASSUME ServiceInv, NEW f \in Proofs, Arrive(f)
    PROVE  ServiceInv'
<1>1. PICK i \in Unused :
        req' = [req EXCEPT ![i] = [pc |-> FirstRead(f.scheme), scheme |-> f.scheme,
                                   k |-> f.k, payer |-> f.payer, signer |-> f.signer,
                                   resource |-> f.resource, at |-> now, found |-> 0]]
    BY DEF Arrive
<1>2. i \in Req /\ req[i].pc = "new" /\ UNCHANGED <<config, chain, spent>>
    BY <1>1 DEF Unused, Arrive, worldVars
<1>3. f.payer \in Payers /\ f.scheme \in {"send", "dispenser", "deposit"}
      /\ (config.signed => f.signer = f.payer)
    BY DEF Arrive, Admits, SendAdmits, TokenAdmits, Signed, Proofs
<1>4. DOMAIN req'[i] = DOMAIN NoRequest /\ req'[i].pc = FirstRead(f.scheme)
      /\ req'[i].scheme = f.scheme /\ req'[i].payer = f.payer /\ req'[i].signer = f.signer
    BY <1>1, <1>2 DEF NoRequest, ServiceInv, RequestsVouched
<1>5. Vouched(req'[i]) /\ req'[i].pc # "granted"
    BY <1>3, <1>4 DEF Vouched, FirstRead, Flying, Reading, Claiming, SendPhases
<1>6. DOMAIN req' = Req /\ \A j \in Req : j # i => req'[j] = req[j]
    BY <1>1, <1>2 DEF ServiceInv, RequestsVouched
<1> QED BY <1>2, <1>4, <1>5, <1>6, OneMoves

\* A request is answered with a new challenge, or with an error.
LEMMA EndedServes ==
    ASSUME ServiceInv, UNCHANGED <<config, chain, spent>>, NEW i \in Req, Flying(req[i]),
           req' = [req EXCEPT ![i] = Ended]
    PROVE  ServiceInv'
<1>1. DOMAIN req'[i] = DOMAIN NoRequest /\ req'[i].pc = "over" /\ req[i].pc # "granted"
    BY DEF Ended, NoRequest, ServiceInv, RequestsVouched, Flying, Reading, Claiming
<1>2. Vouched(req'[i])
    BY <1>1 DEF Vouched, Flying, Reading, Claiming
<1>3. DOMAIN req' = Req /\ \A j \in Req : j # i => req'[j] = req[j]
    BY DEF ServiceInv, RequestsVouched
<1> QED BY <1>1, <1>2, <1>3, OneMoves

\* What a request keeps as it moves on.
LEMMA SameClaim ==
    ASSUME ServiceInv, NEW i \in Req, NEW pc,
           \/ req' = [req EXCEPT ![i].pc = pc]
           \/ req' = [req EXCEPT ![i].pc = pc, ![i].at = 0, ![i].found = 0]
    PROVE  /\ DOMAIN req' = Req /\ \A j \in Req : j # i => req'[j] = req[j]
           /\ DOMAIN req'[i] = DOMAIN NoRequest /\ req'[i].pc = pc
           /\ req'[i].scheme = req[i].scheme /\ req'[i].k = req[i].k
           /\ req'[i].payer = req[i].payer /\ req'[i].signer = req[i].signer
BY DEF ServiceInv, RequestsVouched, NoRequest

\* The payment that was looked for was found.
LEMMA SendsServe ==
    ASSUME ServiceInv, NEW i \in Req, ReadSends(i) \/ ReadMempool(i)
    PROVE  ServiceInv'
<1>1. UNCHANGED <<config, chain, spent>> /\ req[i].pc \in {"sends", "mempool"}
    BY DEF ReadSends, ReadMempool, worldVars
<1>2. Flying(req[i]) /\ req[i].scheme = "send" /\ Vouched(req[i])
    BY <1>1 DEF ServiceInv, RequestsVouched, Vouched, Flying, Reading, SendPhases
<1>3. CASE Refuse(i)
    BY <1>1, <1>2, <1>3, EndedServes DEF Refuse
<1>4. ASSUME NEW pc \in {"claim", "mempool", "claim_0conf"}, Proceed(i, pc),
             pc # "mempool" => Paid(req[i])
      PROVE  ServiceInv'
    <2>1. req' = [req EXCEPT ![i].pc = pc]
        BY <1>4 DEF Proceed, Goto
    <2>2. /\ DOMAIN req' = Req /\ \A j \in Req : j # i => req'[j] = req[j]
          /\ DOMAIN req'[i] = DOMAIN NoRequest /\ req'[i].pc = pc
          /\ req'[i].scheme = req[i].scheme /\ req'[i].k = req[i].k
          /\ req'[i].payer = req[i].payer /\ req'[i].signer = req[i].signer
        BY <2>1, SameClaim
    <2>3. Vouched(req'[i])
        BY <1>2, <1>4, <2>2
           DEF Vouched, Paid, OutputMatches, Flying, Reading, Claiming, SendPhases
    <2> QED BY <1>1, <1>4, <2>2, <2>3, OneMoves
<1>5. FindConfirmedSend(req[i].k, req[i].payer) => Paid(req[i])
    BY DEF FindConfirmedSend, Paid
<1>6. FindMempoolSend(req[i].k, req[i].payer, wireIds') => Paid(req[i])
    BY DEF FindMempoolSend, Paid
<1> QED BY <1>3, <1>4, <1>5, <1>6 DEF ReadSends, ReadMempool

\* A claim is granted to whom it was found for; a dispenser's customer draws on
\* no deposit.
LEMMA ClaimServes ==
    ASSUME ServiceInv, NEW i \in Req, Claim(i) \/ ReadBalances(i)
    PROVE  ServiceInv'
<1>1. UNCHANGED <<config, chain, spent>> /\ req[i].pc \in Claiming \cup {"balances"}
    BY DEF Claim, ReadBalances, worldVars
<1>2. Flying(req[i]) /\ Vouched(req[i]) /\ req[i].scheme # "deposit"
    BY <1>1 DEF ServiceInv, RequestsVouched, Vouched, Flying, Reading, Claiming, SendPhases
<1>3. CASE Refuse(i)
    BY <1>1, <1>2, <1>3, EndedServes DEF Refuse
<1>4. CASE Grant(i)
    <2>1. req' = [req EXCEPT ![i].pc = "granted", ![i].at = 0, ![i].found = 0]
        BY <1>4 DEF Grant
    <2>2. /\ DOMAIN req' = Req /\ \A j \in Req : j # i => req'[j] = req[j]
          /\ DOMAIN req'[i] = DOMAIN NoRequest /\ req'[i].pc = "granted"
          /\ req'[i].scheme = req[i].scheme /\ req'[i].k = req[i].k
          /\ req'[i].payer = req[i].payer /\ req'[i].signer = req[i].signer
        BY <2>1, SameClaim
    <2>3. req[i].scheme = "send" => Paid(req[i])
        BY <1>1, <1>2 DEF Vouched, SendPhases, Claiming
    <2>4. Vouched(req'[i])
        BY <1>2, <2>2, <2>3
           DEF Vouched, Paid, OutputMatches, Flying, Reading, Claiming, SendPhases
    <2> QED BY <1>1, <1>2, <2>2, <2>4, OneMoves DEF Claiming
<1> QED BY <1>3, <1>4 DEF Claim, ReadBalances

\* The deposits are counted.
LEMMA CountServes ==
    ASSUME ServiceInv, NEW i \in Req, ReadDeposits(i)
    PROVE  ServiceInv'
<1>1. /\ UNCHANGED <<config, chain, spent>> /\ req[i].pc = "deposits"
      /\ req' = [req EXCEPT ![i].pc = "debit", ![i].found = Deposited(req[i].payer)]
    BY DEF ReadDeposits, worldVars
<1>2. Flying(req[i]) /\ Vouched(req[i]) /\ req[i].scheme = "deposit"
    BY <1>1 DEF ServiceInv, RequestsVouched, Vouched, Flying, Reading
<1>3. PICK n : n = Deposited(req[i].payer)
    OBVIOUS
<1>4. n \in Nat
    BY <1>3, Untouched, DepositedGrows, <1>1
<1>5. /\ DOMAIN req' = Req /\ \A j \in Req : j # i => req'[j] = req[j]
      /\ DOMAIN req'[i] = DOMAIN NoRequest /\ req'[i].pc = "debit"
      /\ req'[i].scheme = req[i].scheme /\ req'[i].found = n
      /\ req'[i].payer = req[i].payer /\ req'[i].signer = req[i].signer
    BY <1>1, <1>3 DEF ServiceInv, RequestsVouched, NoRequest
<1>6. Deposited(req'[i].payer) = n
    BY <1>3, <1>5
<1>7. Vouched(req'[i])
    BY <1>2, <1>4, <1>5, <1>6 DEF Vouched, Flying, Reading, Claiming, SendPhases
<1> QED BY <1>1, <1>5, <1>7, OneMoves

\* A debit is recorded before it is served, and never beyond what was counted.
LEMMA DebitServes ==
    ASSUME ServiceInv, NEW i \in Req, Debit(i)
    PROVE  ServiceInv'
<1>1. UNCHANGED <<config, chain>> /\ req[i].pc = "debit"
    BY DEF Debit, worldVars
<1>2. /\ Flying(req[i]) /\ Vouched(req[i]) /\ req[i].scheme = "deposit" /\ req[i].payer \in Payers
      /\ req[i].found \in Int /\ req[i].found <= Deposited(req[i].payer)
    BY <1>1 DEF ServiceInv, RequestsVouched, Vouched, Flying
<1>3. CASE Refuse(i) /\ spent' = spent
    BY <1>1, <1>2, <1>3, EndedServes DEF Refuse
<1>4. ASSUME Grant(i), req[i].found - spent[req[i].payer] >= Price,
             spent' = [spent EXCEPT ![req[i].payer] = @ + Price]
      PROVE  ServiceInv'
    <2>1. req' = [req EXCEPT ![i].pc = "granted", ![i].at = 0, ![i].found = 0]
        BY <1>4 DEF Grant
    <2>2. /\ DOMAIN req' = Req /\ \A j \in Req : j # i => req'[j] = req[j]
          /\ DOMAIN req'[i] = DOMAIN NoRequest /\ req'[i].pc = "granted"
          /\ req'[i].scheme = req[i].scheme /\ req'[i].k = req[i].k
          /\ req'[i].payer = req[i].payer /\ req'[i].signer = req[i].signer
        BY <2>1, SameClaim
    <2>3. Vouched(req'[i])
        BY <1>2, <2>2 DEF Vouched, Flying, Reading, Claiming, SendPhases
    <2>4. ChainStep
        BY <1>1, Untouched
    <2>5. RequestsVouched'
        <3>1. ASSUME NEW j \in Req PROVE DOMAIN req'[j] = DOMAIN NoRequest /\ Vouched(req'[j])
            BY <2>2, <2>3 DEF ServiceInv, RequestsVouched
        <3>2. \A r : Vouched(r) => Vouched(r)'
            BY <1>1, <2>4, StillVouched
        <3>3. ASSUME NEW j \in Req PROVE Vouched(req[j])'
            <4>1. PICK r : r = req'[j]
                OBVIOUS
            <4>2. Vouched(r)'
                BY <3>1, <3>2, <4>1
            <4> QED BY <4>1, <4>2
        <3> QED BY <1>1, <2>2, <3>1, <3>3 DEF RequestsVouched, ServiceInv
    <2>6. ASSUME NEW p \in Payers
          PROVE  /\ spent'[p] \in Nat /\ spent'[p] <= Deposited(p)'
                 /\ IsFiniteSet(Draws(p)') /\ Cardinality(Draws(p)') * Price <= spent'[p]
        <3>1. /\ spent[p] \in Nat /\ spent[p] <= Deposited(p) /\ IsFiniteSet(Draws(p))
              /\ Cardinality(Draws(p)) * Price <= spent[p] /\ DOMAIN spent = Payers
            BY DEF ServiceInv, Ledgers
        <3>2. /\ Deposited(p) \in Nat /\ Deposited(p)' \in Nat /\ Deposited(p) <= Deposited(p)'
              /\ Price \in Nat /\ Cardinality(Draws(p)) \in Nat
            BY <2>4, <3>1, DepositedGrows, GatewayAssumption, FS_CardinalityType
        <3>3. CASE p # req[i].payer
            <4>1. Draws(p)' = Draws(p) /\ spent'[p] = spent[p]
                BY <1>4, <2>2, <3>3, <1>1 DEF Draws, Drew
            <4> QED BY <3>1, <3>2, <4>1
        <3>4. CASE p = req[i].payer
            <4>1. Draws(p)' = Draws(p) \cup {i} /\ i \notin Draws(p)
                BY <1>1, <1>2, <2>2, <3>4 DEF Draws, Drew
            <4>2. IsFiniteSet(Draws(p)') /\ Cardinality(Draws(p)') = Cardinality(Draws(p)) + 1
                BY <3>1, <4>1, FS_AddElement
            <4>3. (Cardinality(Draws(p)) + 1) * Price = Cardinality(Draws(p)) * Price + Price
                BY <3>2
            <4>4. spent'[p] = spent[p] + Price
                BY <1>4, <3>1, <3>4
            <4>5. spent[p] + Price <= Deposited(p)
                BY <1>2, <1>4, <3>1, <3>2, <3>4
            <4> QED BY <3>1, <3>2, <4>2, <4>3, <4>4, <4>5
        <3> QED BY <3>3, <3>4
    <2>7. DOMAIN spent' = Payers
        BY <1>4 DEF ServiceInv, Ledgers
    <2> QED BY <2>5, <2>6, <2>7 DEF ServiceInv, Ledgers
<1> QED BY <1>3, <1>4 DEF Debit

\* A restart grants nothing.
LEMMA RestartServes ==
    ASSUME ServiceInv, Restart
    PROVE  ServiceInv'
<1>1. UNCHANGED <<config, chain, spent>>
      /\ req' = [i \in Req |-> IF InFlight(i) THEN Ended ELSE req[i]]
    BY DEF Restart, worldVars
<1>2. ChainStep
    BY <1>1, Untouched
<1>3. ASSUME NEW i \in Req
      PROVE  /\ DOMAIN req'[i] = DOMAIN NoRequest /\ Vouched(req'[i])
             /\ \A p \in Payers : Drew(req'[i], p) <=> Drew(req[i], p)
    <2>1. CASE InFlight(i)
        <3>1. req'[i].pc = "over" /\ DOMAIN req'[i] = DOMAIN NoRequest
            BY <1>1, <2>1 DEF Ended, NoRequest
        <3> QED BY <2>1, <3>1 DEF Vouched, Flying, Reading, Claiming, Drew, InFlight
    <2>2. CASE ~InFlight(i)
        BY <1>1, <2>2 DEF ServiceInv, RequestsVouched
    <2> QED BY <2>1, <2>2
<1>4. RequestsVouched'
    <2>1. \A r : Vouched(r) => Vouched(r)'
        BY <1>1, <1>2, StillVouched
    <2>2. ASSUME NEW i \in Req PROVE Vouched(req[i])'
        <3>1. PICK r : r = req'[i]
            OBVIOUS
        <3>2. Vouched(r)'
            BY <1>3, <2>1, <3>1
        <3> QED BY <3>1, <3>2
    <2> QED BY <1>1, <1>3, <2>2 DEF RequestsVouched, ServiceInv
<1> QED BY <1>1, <1>2, <1>3, <1>4, NoDraw

LEMMA ServiceStep ==
    ASSUME ServiceInv, [Next]_vars
    PROVE  ServiceInv'
<1>1. CASE Ask \/ Tick \/ UNCHANGED vars
    BY <1>1, NothingMoves DEF Ask, Tick, vars, worldVars
<1>2. ASSUME NEW f \in Proofs, TurnAway(f) PROVE ServiceInv'
    BY <1>2, NothingMoves DEF TurnAway, worldVars
<1>3. ASSUME NEW s \in Sweepers, Sweep(s) PROVE ServiceInv'
    BY <1>3, NothingMoves DEF Sweep, SweepStart, SweepRead, SweepReadFails, SweepApply, worldVars
<1>4. ASSUME NEW k \in Nonces, Prune(k) PROVE ServiceInv'
    BY <1>4, NothingMoves DEF Prune, worldVars
<1>5. ASSUME NEW i \in Req, ReadFails(i) PROVE ServiceInv'
    BY <1>5, EndedServes DEF ReadFails, Flying, worldVars
<1>6. ASSUME NEW i \in Req, Verify(i) PROVE ServiceInv'
    BY <1>6, SendsServe, ClaimServes, CountServes, DebitServes DEF Verify
<1> QED BY <1>1, <1>2, <1>3, <1>4, <1>5, <1>6, WorldServes, ArriveServes, RestartServes DEF Next

LEMMA ServiceInit == Init => ServiceInv
<1> SUFFICES ASSUME Init PROVE ServiceInv
    OBVIOUS
<1>1. RequestsVouched
    BY DEF Init, RequestsVouched, Vouched, Flying, Reading, Claiming, NoRequest
<1>2. ASSUME NEW p \in Payers
      PROVE  /\ spent[p] \in Nat /\ spent[p] <= Deposited(p)
             /\ IsFiniteSet(Draws(p)) /\ Cardinality(Draws(p)) * Price <= spent[p]
    <2>1. spent[p] = 0 /\ Draws(p) = {}
        BY DEF Init, Draws, Drew, NoRequest
    <2>2. Deposited(p) \in Nat
        BY DepositsAdd
    <2>3. IsFiniteSet({}) /\ Cardinality({}) = 0
        BY FS_EmptySet
    <2> QED BY <2>1, <2>2, <2>3, GatewayAssumption
<1> QED BY <1>1, <1>2 DEF Init, ServiceInv, Ledgers

\* A response for an invoice goes to the holder of a key that sent the payment
\* (verifySend: "the on-chain SEND's source must equal the proof's payer"), and
\* one from a deposit to the holder of a key that deposited its price, for any
\* number of payers, payments and requests.
THEOREM PayerServed == Spec => []PayerIsServed
<1>1. ServiceInv => PayerIsServed
    <2> SUFFICES ASSUME ServiceInv, config.signed, NEW i \in Req, Granted(i)
                 PROVE  /\ req[i].scheme = "send" =>
                              \E p \in Payments : /\ chain[p] # "unsent" /\ p.source = req[i].signer
                                                  /\ p.memo = req[i].k /\ p.amount >= Amount
                        /\ req[i].scheme = "deposit" => Deposited(req[i].signer) >= Price
        BY DEF PayerIsServed
    <2>1. /\ req[i].signer = req[i].payer /\ req[i].payer \in Payers
          /\ req[i].scheme = "send" => Paid(req[i])
        BY DEF ServiceInv, RequestsVouched, Vouched, Granted
    <2>2. ASSUME req[i].scheme = "deposit" PROVE Deposited(req[i].signer) >= Price
        <3> DEFINE p == req[i].payer
        <3>1. /\ spent[p] \in Nat /\ spent[p] <= Deposited(p)
              /\ IsFiniteSet(Draws(p)) /\ Cardinality(Draws(p)) * Price <= spent[p]
            BY <2>1 DEF ServiceInv, Ledgers
        <3>2. Cardinality(Draws(p)) \in Nat /\ Cardinality(Draws(p)) # 0
            <4>1. i \in Draws(p)
                BY <2>2 DEF Draws, Drew, Granted
            <4> QED BY <3>1, <4>1, FS_CardinalityType, FS_EmptySet
        <3>3. Price \in Nat /\ Deposited(p) \in Nat
            BY DepositsAdd, GatewayAssumption
        <3>4. PICK n \in Nat : n = Cardinality(Draws(p)) /\ n # 0
            BY <3>2
        <3>5. Price <= n * Price
            BY <3>3, <3>4
        <3> QED BY <2>1, <3>1, <3>3, <3>4, <3>5
    <2> QED BY <2>1, <2>2 DEF Paid, OutputMatches
<1> QED BY <1>1, ServiceInit, ServiceStep, PTL DEF Spec

\* The calls a payer was served never cost more than the payer's deposits
\* (verifyDeposit), whatever the interleaving of requests, failures and restarts.
THEOREM DepositsSuffice == Spec => []NeverOverdrawn
<1>1. ServiceInv => NeverOverdrawn
    <2> SUFFICES ASSUME ServiceInv, NEW p \in Payers
        PROVE  Cardinality({i \in Req : /\ Granted(i) /\ req[i].scheme = "deposit"
                                        /\ req[i].payer = p}) * Price <= Deposited(p)
        BY DEF NeverOverdrawn
    <2>1. {i \in Req : Granted(i) /\ req[i].scheme = "deposit" /\ req[i].payer = p} = Draws(p)
        BY DEF Draws, Drew, Granted
    <2>2. /\ spent[p] \in Nat /\ spent[p] <= Deposited(p)
          /\ IsFiniteSet(Draws(p)) /\ Cardinality(Draws(p)) * Price <= spent[p]
        BY DEF ServiceInv, Ledgers
    <2>3. Deposited(p) \in Nat /\ Cardinality(Draws(p)) * Price \in Nat
        BY <2>2, DepositsAdd, FS_CardinalityType, GatewayAssumption
    <2> QED BY <2>1, <2>2, <2>3
<1> QED BY <1>1, ServiceInit, ServiceStep, PTL DEF Spec

-----------------------------------------------------------------------------
(* One sweep at a time. *)

\* What a cycle carries is settled by nobody else, and by it once.
Carried ==
    \A s \in Sweepers :
        /\ \A e \in EntriesOf(s) : inv[e.k].status \in {"provisional_0conf", "none"}
        /\ \A e, f \in sweep[s].todo : e.k = f.k => e = f
        /\ sweep[s].cur # None => \A e \in sweep[s].todo : e.k # sweep[s].cur.of.k
\* An invoice that a cycle may carry: its status, in the file or pruned away.
Unsettled(k) == inv[k].status \in {"provisional_0conf", "none"}

\* A step that leaves the sweep alone.
LEMMA CarriedOn ==
    ASSUME InvoiceInv, Carried, sweep' = sweep,
           \A k \in Nonces : ask[k].issued /\ Unsettled(k) => Unsettled(k)'
    PROVE  Carried'
<1>1. \A s \in Sweepers : \A e \in EntriesOf(s) : e.k \in Nonces /\ ask[e.k].issued /\ Unsettled(e.k)
    BY DEF InvoiceInv, SweepDates, Carried, Unsettled
<1> QED BY <1>1 DEF Carried, EntriesOf, Unsettled

\* An answer takes a new nonce.
LEMMA AskPromotes ==
    ASSUME InvoiceInv, Carried, AskStep, sweep' = sweep
    PROVE  Carried' /\ PromotionStep
<1>1. \A k \in Nonces : ask[k].issued => inv'[k] = inv[k]
    BY DEF AskStep
<1>2. PromotionStep
    BY <1>1 DEF InvoiceInv, InvoiceDates, PromotionStep
<1> QED BY <1>1, <1>2, CarriedOn DEF Unsettled

\* A claim takes an invoice nobody sweeps.
LEMMA ClaimPromotes ==
    ASSUME InvoiceInv, Carried, NEW i \in Req, Claim(i)
    PROVE  Carried' /\ PromotionStep
<1> DEFINE k == req[i].k
<1>1. UNCHANGED sweep /\ k \in Nonces /\ ask[k].issued
    BY DEF Claim, InvoiceInv, RequestDates, InFlight, SendPhases
<1>2. CASE ~Claimable(k)
    <2>1. ChallengeBody(req[i].resource)
        BY <1>2 DEF Claim, Refuse
    <2>2. AskStep
        BY <2>1, ChallengeBodyAsks DEF InvoiceInv
    <2> QED BY <1>1, <2>2, AskPromotes
<1>3. CASE Claimable(k)
    <2>1. \A n \in Nonces : n # k => inv'[n] = inv[n]
        BY <1>3 DEF Claim, InvoiceInv, InvoiceDates
    <2>2. inv[k].status \notin {"provisional_0conf", "none", "confirmed"}
        BY <1>3 DEF Claimable
    <2> HIDE DEF k
    <2> QED BY <1>1, <2>1, <2>2, CarriedOn DEF Unsettled, PromotionStep
<1> QED BY <1>2, <1>3

\* The one cycle there is settles what it carries, which is not yet confirmed.
LEMMA SweepPromotes ==
    ASSUME InvoiceInv, Carried, NEW s \in Sweepers, Sweepers = {s}, Sweep(s)
    PROVE  Carried' /\ PromotionStep
<1> USE DEF InvoiceInv, SweepDates
<1>1. CASE SweepStart(s)
    <2>1. inv' = inv /\ sweep'[s].cur = None
          /\ sweep'[s].todo = {[k |-> k, payer |-> inv[k].payer, grantedAt |-> inv[k].grantedAt] :
                                  k \in ListProvisional}
        BY <1>1 DEF SweepStart, NoSweep
    <2>2. \A e \in sweep'[s].todo : inv[e.k].status = "provisional_0conf"
        BY <2>1 DEF ListProvisional
    <2>3. \A e, f \in sweep'[s].todo : e.k = f.k => e = f
        BY <2>1
    <2> QED BY <2>1, <2>2, <2>3 DEF Carried, EntriesOf, PromotionStep
<1>2. CASE SweepRead(s)
    <2>1. PICK e \in sweep[s].todo :
            sweep' = [sweep EXCEPT ![s] = [todo |-> @.todo \ {e},
                          cur |-> [of |-> e, found |-> FindConfirmedSend(e.k, e.payer)]]]
        BY <1>2 DEF SweepRead
    <2>2. inv' = inv /\ sweep'[s].todo = sweep[s].todo \ {e} /\ sweep'[s].cur.of = e
        BY <1>2, <2>1 DEF SweepRead
    <2>3. EntriesOf(s)' \subseteq EntriesOf(s)
        BY <2>2 DEF EntriesOf
    <2> QED BY <2>2, <2>3 DEF Carried, PromotionStep
<1>3. CASE SweepReadFails(s)
    <2>1. PICK e \in sweep[s].todo : sweep' = [sweep EXCEPT ![s].todo = @ \ {e}]
        BY <1>3 DEF SweepReadFails
    <2>2. inv' = inv /\ sweep'[s].todo = sweep[s].todo \ {e} /\ sweep'[s].cur = sweep[s].cur
        BY <1>3, <2>1 DEF SweepReadFails
    <2>3. EntriesOf(s)' \subseteq EntriesOf(s)
        BY <2>2 DEF EntriesOf
    <2> QED BY <2>2, <2>3 DEF Carried, PromotionStep
<1>4. CASE SweepApply(s)
    <2> DEFINE k == sweep[s].cur.of.k
    <2>1. k \in Nonces /\ Unsettled(k) /\ sweep[s].cur # None
          /\ sweep[s].cur.of \in EntriesOf(s)
        BY <1>4 DEF SweepApply, EntriesOf, Carried, Unsettled
    <2>2. \A n \in Nonces : n # k => inv'[n] = inv[n]
        BY <1>4 DEF SweepApply, InvoiceDates
    <2>3. sweep'[s].todo = sweep[s].todo /\ sweep'[s].cur = None
        BY <1>4 DEF SweepApply
    <2>4. \A e \in sweep[s].todo : e.k # k /\ e.k \in Nonces /\ e \in EntriesOf(s)
        BY <2>1 DEF Carried, EntriesOf
    <2>5. inv[k].status # "confirmed"
        BY <2>1 DEF Unsettled
    <2> HIDE DEF k
    <2>6. \A e \in EntriesOf(s)' : e \in sweep[s].todo
        BY <2>3 DEF EntriesOf
    <2> QED BY <2>2, <2>3, <2>4, <2>5, <2>6 DEF Carried, PromotionStep
<1> QED BY <1>1, <1>2, <1>3, <1>4 DEF Sweep

LEMMA PromotionHolds ==
    ASSUME InvoiceInv, Carried, \A s, t \in Sweepers : s = t, [Next]_vars
    PROVE  Carried' /\ PromotionStep
<1>1. CASE World \/ Tick \/ UNCHANGED vars
    <2>1. UNCHANGED <<inv, sweep>>
        BY <1>1 DEF World, Broadcast, Confirm, Fail, Bury, SetChain, Trade, Tick, vars
    <2> QED BY <2>1, CarriedOn DEF Unsettled, PromotionStep
<1>2. CASE Ask
    <2>1. AskStep
        BY <1>2, ChallengeBodyAsks DEF InvoiceInv, Ask
    <2> QED BY <1>2, <2>1, AskPromotes DEF Ask
<1>3. ASSUME NEW f \in Proofs, Arrive(f) \/ TurnAway(f) PROVE Carried' /\ PromotionStep
    <2>1. AskStep
        BY <1>3, ChallengeBodyAsks DEF InvoiceInv, Arrive, TurnAway, AskStep, InvoiceDates
    <2> QED BY <1>3, <2>1, AskPromotes DEF Arrive, TurnAway
<1>4. ASSUME NEW i \in Req, Verify(i) \/ ReadFails(i) PROVE Carried' /\ PromotionStep
    <2>1. CASE Claim(i)
        BY <2>1, ClaimPromotes
    <2>2. CASE ~Claim(i)
        <3>1. AskStep /\ sweep' = sweep
            BY <1>4, <2>2, ReadsAreQuiet DEF Verify
        <3> QED BY <3>1, AskPromotes
    <2> QED BY <2>1, <2>2
<1>5. ASSUME NEW s \in Sweepers, Sweep(s) PROVE Carried' /\ PromotionStep
    <2>1. Sweepers = {s}
        OBVIOUS
    <2> QED BY <1>5, <2>1, SweepPromotes
<1>6. ASSUME NEW k \in Nonces, Prune(k) PROVE Carried' /\ PromotionStep
    <2>1. sweep' = sweep /\ inv'[k].status = "none"
          /\ \A n \in Nonces : n # k => inv'[n] = inv[n]
        BY <1>6 DEF Prune, InvoiceInv, InvoiceDates
    <2> QED BY <2>1, CarriedOn DEF Unsettled, PromotionStep
<1>7. CASE Restart
    <2>1. inv' = inv /\ \A s \in Sweepers : sweep'[s].todo = {} /\ sweep'[s].cur = None
        BY <1>7 DEF Restart, NoSweep
    <2> QED BY <2>1 DEF Carried, EntriesOf, PromotionStep
<1> QED BY <1>1, <1>2, <1>3, <1>4, <1>5, <1>6, <1>7 DEF Next

\* A confirmed invoice stays confirmed until it is pruned, whatever the requests
\* and the failures, as long as one sweep runs at a time (sweep(), startSweeper).
\* With two that overlap it does not hold.
THEOREM ConfirmedStays ==
    ASSUME \A s, t \in Sweepers : s = t
    PROVE  Spec => PromotionSticks
<1>1. Init => Carried
    BY DEF Init, Carried, EntriesOf, NoSweep
<1>2. InvoiceInv /\ Carried /\ [Next]_vars => Carried' /\ PromotionStep
    BY PromotionHolds
<1> QED BY <1>1, <1>2, InvoiceInit, InvoiceStep, PTL DEF Spec, PromotionSticks
=============================================================================
