-------------------------- MODULE CoSignRoundProofs --------------------------
(***************************************************************************)
(* Proofs about CoSignRound for any number of agents, tenants and          *)
(* requests, any plans and any answers of a broken endpoint: a secret      *)
(* nonce signs once, a window charges a call of its own tenant once and    *)
(* every signature given away, and no span of a rate window admits more    *)
(* than two windows' worth.                                                *)
(***************************************************************************)
EXTENDS CoSignRound, FiniteSetTheorems, TLAPS

\* A call keeps the plan its workload gave it, and what reaches the client is
\* a list of signatures.
CallInv ==
    /\ work \in Workloads
    /\ DOMAIN call = Calls /\ DOMAIN answer = Calls
    /\ \A c \in Calls : DOMAIN call[c] = {"st", "plan", "why"} /\ call[c].plan = work.plans[c]
    /\ wire \subseteq Calls /\ \A c \in wire : call[c].plan # Undefined
    /\ \A c \in Calls : answer[c] # Undefined => Len(answer[c].sigs) \in Nat

\* A handle is an agent's, of a call that has started, or a session id's; no
\* two share a secret, and what has signed is no longer cached.
HandleInv ==
    /\ \A h \in live :
          /\ h.secret[1] # "session" =>
                /\ h.secret[1] \in Calls /\ call[h.secret[1]].st # "new"
                /\ h = AgentHandle(h.secret[1], h.secret[2])
          /\ h.secret[1] = "session" =>
                /\ h.secret[2] \in sessions /\ h = Handle(<<"session", h.secret[2]>>, h.n)
    /\ \A g, h \in live : g.secret = h.secret => g = h
    /\ \A x \in signed :
          /\ x.secret[1] # "session" =>
                x.secret[1] \in Calls /\ call[x.secret[1]].st # "new"
          /\ x.secret[1] = "session" => x.secret[2] \in sessions
    /\ \A x \in signed, h \in live : x.secret # h.secret

NonceInv == CallInv /\ HandleInv /\ NonceSafe

\* The request of a call has a row in some window.
Charged(c) == \E y \in charges : y.call = c

\* A signature of the daemon's, for this call.
ByDaemon(c, s) == s.nonce = DeterministicNonce(c, s.index)

\* A request that is not sent or still on the wire is not charged; an answer
\* with a signature of the daemon's is that of a charged one.
AccountInv ==
    /\ Starts(server)
    /\ \A c \in Calls :
          /\ call[c].st = "new" => c \notin wire
          /\ call[c].st = "new" \/ c \in wire => ~Charged(c)
          /\ answer[c] # Undefined =>
                \A k \in 1..Len(answer[c].sigs) : ByDaemon(c, answer[c].sigs[k]) => Charged(c)
    /\ \A x \in charges : x.call \in Calls
    /\ ChargedOnce

\* The requests a tenant had served from time a on, and before time b.
ServedIn(S, t, a, b) == {x \in S : x.tenant = t /\ a <= x.at /\ x.at < b}

\* The fixed window of a tenant starts here.
WindowStart(t) == rate[t].resetAt - RateWindow

\* The current window holds no more than it counted, the span before it no more
\* than one window's worth: no two earlier windows both reach into it.
RateInv ==
    /\ now \in Nat /\ IsFiniteSet(served)
    /\ \A x \in served : x.at \in 0..now
    /\ DOMAIN rate = Tenants
    /\ Limited => \A t \in Tenants :
          /\ rate[t] = [count |-> rate[t].count, resetAt |-> rate[t].resetAt]
          /\ rate[t].count \in Nat /\ rate[t].resetAt \in Nat
          /\ rate[t].resetAt <= now + RateWindow
          /\ \A x \in served : x.tenant = t => x.at < rate[t].resetAt
          /\ Cardinality(ServedIn(served, t, WindowStart(t), now + 1)) <= rate[t].count
          /\ Cardinality(ServedIn(served, t, WindowStart(t), now + 1)) <= MaxRequests
          /\ Cardinality(ServedIn(served, t, WindowStart(t) - RateWindow, WindowStart(t))) <= MaxRequests
    /\ RateBound

-----------------------------------------------------------------------------
\* A nonempty set of naturals has a least element.
LEMMA LeastNat ==
    ASSUME NEW T, T \subseteq Nat, T # {}
    PROVE  \E n \in T : \A m \in T : n <= m
<1>1. IsWellFoundedOn(OpToRel(<, Nat), Nat)
    BY NatLessThanWellFounded
<1>2. PICK n \in T : \A m \in T : ~(<<m, n>> \in OpToRel(<, Nat))
    BY <1>1, WFMin
<1>3. \A m \in T : ~(m < n)
    BY <1>2 DEF OpToRel
<1>4. \A m \in T, k \in T : ~(m < k) => k <= m
    OBVIOUS
<1> QED BY <1>2, <1>3, <1>4

\* The client stops before the first entry it throws on.
LEMMA TakenFaultless ==
    ASSUME NEW c, NEW sigs, Len(sigs) \in Nat
    PROVE  /\ Taken(c, sigs) \in 0..Len(sigs)
           /\ \A k \in 1..Taken(c, sigs) : EntryFault(c, sigs, k) = Undefined
<1> DEFINE faults == {k \in 1..Len(sigs) : EntryFault(c, sigs, k) # Undefined}
<1>1. CASE call[c].plan.method = "sign" /\ Len(sigs) # 1
    BY <1>1 DEF Taken
<1>2. CASE ~(call[c].plan.method = "sign" /\ Len(sigs) # 1) /\ faults = {}
    BY <1>2 DEF Taken
<1>3. CASE ~(call[c].plan.method = "sign" /\ Len(sigs) # 1) /\ faults # {}
    <2> DEFINE first == CHOOSE k \in faults : \A j \in faults : k <= j
    <2>1. first \in faults /\ \A j \in faults : first <= j
        <3>1. faults \subseteq Nat /\ faults # {}
            BY <1>3
        <3>2. \E k \in faults : \A j \in faults : k <= j
            <4> HIDE DEF faults
            <4> QED BY <3>1, LeastNat
        <3> QED BY <3>2
    <2>2. Taken(c, sigs) = first - 1
        BY <1>3 DEF Taken
    <2>3. first \in 1..Len(sigs)
        BY <2>1
    <2> HIDE DEF first
    <2>4. ASSUME NEW k \in 1..(first - 1) PROVE EntryFault(c, sigs, k) = Undefined
        BY <2>1, <2>3
    <2> QED BY <2>2, <2>3, <2>4
<1> QED BY <1>1, <1>2, <1>3

\* Each entry the client takes is for an input it asked for, over the sighash
\* of its own PSBT, with a nonce that is still cached and used by no other
\* entry.
LEMMA TakenIsSound ==
    ASSUME NEW c, NEW sigs, Len(sigs) \in Nat, NEW k \in 1..Taken(c, sigs)
    PROVE  /\ sigs[k].msg = Sighash(call[c].plan, sigs[k].index)
           /\ AgentHandle(c, sigs[k].index) \in live
           /\ \A j \in 1..Taken(c, sigs) : sigs[j].index = sigs[k].index => j = k
<1> DEFINE n == Taken(c, sigs)
           spent(i) == Spent({AgentHandle(c, sigs[j].index) : j \in 1..(i - 1)})
<1>1. n \in Nat /\ \A i \in 1..n : EntryFault(c, sigs, i) = Undefined
    BY TakenFaultless
<1>2. \A i \in 1..n : /\ MsgMatches(call[c].plan, sigs[i])
                      /\ AgentHandle(c, sigs[i].index) \in live \ spent(i)
    BY <1>1, NameAssumption DEF EntryFault
<1>3. ASSUME NEW i \in 1..n, NEW j \in 1..n, j < i PROVE sigs[j].index # sigs[i].index
    <2>1. j \in 1..(i - 1)
        BY <1>1, <1>3
    <2>2. AgentHandle(c, sigs[j].index) \in spent(i)
        BY <2>1 DEF Spent
    <2> QED BY <1>2, <2>2
<1>4. ASSUME NEW j \in 1..n, sigs[j].index = sigs[k].index PROVE j = k
    <2>1. ~(j < k) /\ ~(k < j)
        BY <1>3, <1>4
    <2> QED BY <1>1, <2>1
<1> QED BY <1>2, <1>4 DEF MsgMatches
-----------------------------------------------------------------------------
\* Respond hands a list of signatures to the client.
LEMMA Responds ==
    ASSUME CallInv, NEW c \in Calls, NEW a, Respond(c, a), Len(a.sigs) \in Nat
    PROVE  /\ wire' \subseteq wire /\ DOMAIN answer' = Calls
           /\ \A d \in Calls : answer'[d] # Undefined => Len(answer'[d].sigs) \in Nat
BY DEF CallInv, Respond

LEMMA RefusalIsList ==
    ASSUME NEW status, NEW reason
    PROVE  /\ Refusal(status, reason).sigs = <<>> /\ Len(Refusal(status, reason).sigs) \in Nat
           /\ Refusal(status, reason).reason = reason
BY DEF Refusal

LEMMA CallInit == Init => CallInv
BY DEF Init, CallInv

\* A call that moves on keeps its plan, and moves alone.
Moves(c, d) == DOMAIN call'[d] = {"st", "plan", "why"} /\ call'[d].plan = call[d].plan
               /\ (d # c => call'[d] = call[d])

LEMMA MovesOn ==
    ASSUME CallInv, NEW c \in Calls,
           \E st : \/ call' = [call EXCEPT ![c].st = st]
                   \/ \E why : call' = [call EXCEPT ![c].st = st, ![c].why = why]
    PROVE  DOMAIN call' = Calls /\ \A d \in Calls : Moves(c, d)
BY DEF CallInv, Moves

LEMMA CallStep ==
    ASSUME CallInv, [Next]_vars
    PROVE  CallInv'
<1>1. ASSUME NEW c \in Calls, Start(c) PROVE CallInv'
    <2>1. work' = work /\ answer' = answer /\ wire' \subseteq Calls
        BY <1>1 DEF Start, serverVars, CallInv
    <2>2. \E st : \/ call' = [call EXCEPT ![c].st = st]
                  \/ \E why : call' = [call EXCEPT ![c].st = st, ![c].why = why]
        BY <1>1 DEF Start
    <2>3. wire' \subseteq wire \cup {c} /\ call[c].plan # Undefined
        BY <1>1 DEF Start
    <2> QED BY <2>1, <2>2, <2>3, MovesOn DEF CallInv, Moves
<1>2. ASSUME NEW c \in Calls, GiveUp(c) PROVE CallInv'
    <2>1. work' = work /\ answer' = answer /\ wire' = wire
        BY <1>2 DEF GiveUp, serverVars
    <2>2. \E st, why : call' = [call EXCEPT ![c].st = st, ![c].why = why]
        BY <1>2 DEF GiveUp
    <2> QED BY <2>1, <2>2, MovesOn DEF CallInv, Moves
<1>3. ASSUME NEW c \in Calls, Receive(c) PROVE CallInv'
    <2>1. work' = work /\ wire' = wire /\ answer' = [answer EXCEPT ![c] = Undefined]
        BY <1>3 DEF Receive, serverVars
    <2>2. \E st, why : call' = [call EXCEPT ![c].st = st, ![c].why = why]
        BY <1>3 DEF Receive
    <2> QED BY <2>1, <2>2, MovesOn DEF CallInv, Moves
<1>4. ASSUME UNCHANGED <<work, call>>, NEW c \in Calls, NEW a, Respond(c, a), Len(a.sigs) \in Nat
      PROVE  CallInv'
    BY <1>4, Responds DEF CallInv
<1>5. ASSUME NEW c \in Calls, TooLarge(c) \/ Unauthorized(c) PROVE CallInv'
    <2>1. \E status, reason : Respond(c, Refusal(status, reason))
        BY <1>5 DEF TooLarge, Unauthorized
    <2>2. UNCHANGED <<work, call>>
        BY <1>5 DEF TooLarge, Unauthorized
    <2> QED BY <1>4, <2>1, <2>2, RefusalIsList
<1>6. ASSUME NEW c \in Calls, Misanswer(c) PROVE CallInv'
    <2>1. UNCHANGED <<work, call>> /\ work \in Workloads
        BY <1>6 DEF Misanswer, serverVars, CallInv
    <2>2. CASE Respond(c, Refusal(200, "not JSON"))
        BY <1>4, <2>1, <2>2, RefusalIsList
    <2>3. CASE \E w \in work.wrong : Respond(c, [status |-> 200, reason |-> Undefined,
                                                 approved |-> TRUE, sigs |-> w])
        BY <1>4, <2>1, <2>3, WorkAssumption
    <2> QED BY <1>6, <2>2, <2>3 DEF Misanswer
<1>7. ASSUME NEW c \in Calls, NEW t \in Tenants, Throttle(c, t) \/ BadRequest(c, t) PROVE CallInv'
    <2>1. \E status, reason : Respond(c, Refusal(status, reason))
        BY <1>7 DEF Throttle, BadRequest
    <2>2. UNCHANGED <<work, call>>
        BY <1>7 DEF Throttle, BadRequest
    <2> QED BY <1>4, <2>1, <2>2, RefusalIsList
<1>8. ASSUME NEW c \in Calls, NEW t \in Tenants, Deny(c, t) \/ Fault(c, t) PROVE CallInv'
    <2>1. \E status, reason : Respond(c, Refusal(status, reason))
        BY <1>8 DEF Deny, Fault
    <2>2. UNCHANGED <<work, call>>
        BY <1>8 DEF Deny, Fault
    <2> QED BY <1>4, <2>1, <2>2, RefusalIsList
<1>9. ASSUME NEW c \in Calls, NEW t \in Tenants, Approve(c, t) PROVE CallInv'
    <2>1. UNCHANGED <<work, call>>
        BY <1>9 DEF Approve
    <2>2. Respond(c, [status |-> 200, reason |-> Undefined, approved |-> TRUE, sigs |-> Signatures(c)])
        BY <1>9 DEF Approve
    <2>3. c \in wire
        BY <1>9 DEF Approve, Processed, Admitted, Authenticated
    <2>4. Cardinality(call[c].plan.asks) \in Nat
        BY <2>3, WorkAssumption, FS_CardinalityType DEF CallInv
    <2>5. Len(Signatures(c)) \in Nat
        BY <2>4 DEF Signatures
    <2> QED BY <1>4, <2>1, <2>2, <2>5
<1>10. ASSUME UNCHANGED <<work, wire, call, answer>> PROVE CallInv'
    BY <1>10 DEF CallInv
<1>11. ASSUME NEW sid, NEW n, GenerateNonce(sid, n) PROVE CallInv'
    BY <1>10, <1>11 DEF GenerateNonce, serverVars
<1>12. ASSUME NEW h, NEW msg, PartialSign(h, msg) PROVE CallInv'
    BY <1>10, <1>12 DEF PartialSign, serverVars
<1>13. ASSUME NEW r, Recover(r) PROVE CallInv'
    BY <1>10, <1>13 DEF Recover, serverVars
<1>14. CASE Tick \/ UNCHANGED vars
    BY <1>10, <1>14 DEF Tick, vars
<1> QED BY <1>1, <1>2, <1>3, <1>5, <1>6, <1>7, <1>8, <1>9, <1>11, <1>12, <1>13, <1>14 DEF Next
-----------------------------------------------------------------------------
\* The parts of a handle.
LEMMA HandleParts ==
    ASSUME NEW a, NEW b, NEW n
    PROVE  /\ AgentHandle(a, b).secret = <<a, b>>
           /\ Handle(<<a, b>>, n).secret = <<a, b>> /\ Handle(<<a, b>>, n).n = n
           /\ <<a, b>>[1] = a /\ <<a, b>>[2] = b
BY DEF AgentHandle, Handle

\* A step that leaves the nonces alone, and makes no call new again.
LEMMA NoNonce ==
    ASSUME NonceInv, UNCHANGED nonceVars,
           \A d \in Calls : /\ call'[d].plan = call[d].plan
                            /\ call[d].st # "new" => call'[d].st # "new"
    PROVE  HandleInv' /\ NonceSafe'
<1>1. HandleInv'
    BY DEF NonceInv, HandleInv, nonceVars
<1>2. NonceSafe'
    BY DEF NonceInv, NonceSafe, nonceVars, Sighash
<1> QED BY <1>1, <1>2

\* A call draws its nonces once.
LEMMA StartDraws ==
    ASSUME NonceInv, NEW c \in Calls, Start(c)
    PROVE  HandleInv' /\ NonceSafe'
<1>1. /\ call[c].st = "new" /\ signed' = signed /\ sessions' = sessions
      /\ call'[c].st # "new"
      /\ \A d \in Calls : /\ call'[d].plan = call[d].plan
                          /\ call[d].st # "new" => call'[d].st # "new"
    BY DEF Start, NonceInv, CallInv
<1>2. \A h \in live' : h \in live \/ \E i : h = AgentHandle(c, i)
    BY DEF Start
<1>3. \A i : AgentHandle(c, i).secret = <<c, i>> /\ <<c, i>>[1] = c /\ <<c, i>>[2] = i
    BY HandleParts
<1>4. c # "session"
    BY NameAssumption
<1>5. \A x \in signed : x.secret[1] # c
    BY <1>1, <1>4 DEF NonceInv, HandleInv
<1>6. \A h \in live : h.secret[1] # c
    BY <1>1, <1>4 DEF NonceInv, HandleInv
<1>7. HandleInv'
    <2>1. \A h \in live' :
            /\ h.secret[1] # "session" =>
                  /\ h.secret[1] \in Calls /\ call'[h.secret[1]].st # "new"
                  /\ h = AgentHandle(h.secret[1], h.secret[2])
            /\ h.secret[1] = "session" =>
                  /\ h.secret[2] \in sessions /\ h = Handle(<<"session", h.secret[2]>>, h.n)
        <3> SUFFICES ASSUME NEW h \in live'
                     PROVE  /\ h.secret[1] # "session" =>
                                /\ h.secret[1] \in Calls /\ call'[h.secret[1]].st # "new"
                                /\ h = AgentHandle(h.secret[1], h.secret[2])
                            /\ h.secret[1] = "session" =>
                                /\ h.secret[2] \in sessions
                                /\ h = Handle(<<"session", h.secret[2]>>, h.n)
            OBVIOUS
        <3>1. CASE h \in live
            BY <1>1, <3>1 DEF NonceInv, HandleInv
        <3>2. CASE \E i : h = AgentHandle(c, i)
            BY <1>1, <1>3, <1>4, <3>2
        <3> QED BY <1>2, <3>1, <3>2
    <2>2. \A g, h \in live' : g.secret = h.secret => g = h
        BY <1>2, <1>3, <1>6 DEF NonceInv, HandleInv
    <2>3. \A x \in signed : /\ x.secret[1] # "session" =>
                                  x.secret[1] \in Calls /\ call'[x.secret[1]].st # "new"
                            /\ x.secret[1] = "session" => x.secret[2] \in sessions
        BY <1>1 DEF NonceInv, HandleInv
    <2>4. \A x \in signed, h \in live' : x.secret # h.secret
        BY <1>2, <1>3, <1>5 DEF NonceInv, HandleInv
    <2> QED BY <1>1, <2>1, <2>2, <2>3, <2>4 DEF HandleInv
<1>8. NonceSafe'
    BY <1>1 DEF NonceInv, NonceSafe, Sighash
<1> QED BY <1>7, <1>8
\* A session id draws a nonce once (guardSessionIdReuse).
LEMMA SessionDraws ==
    ASSUME NonceInv, NEW sid, NEW n, GenerateNonce(sid, n)
    PROVE  HandleInv' /\ NonceSafe'
<1> DEFINE new == Handle(<<"session", sid>>, n)
<1>1. /\ sid \notin sessions /\ sessions' = sessions \cup {sid}
      /\ live' = live \cup {new} /\ UNCHANGED <<call, signed>>
    BY DEF GenerateNonce
<1>2. new.secret = <<"session", sid>> /\ new.secret[1] = "session" /\ new.secret[2] = sid /\ new.n = n
    BY HandleParts
<1>3. \A h \in live : h.secret # new.secret
    BY <1>1, <1>2 DEF NonceInv, HandleInv
<1>4. \A x \in signed : x.secret # new.secret
    BY <1>1, <1>2 DEF NonceInv, HandleInv
<1>5. /\ new.secret[1] = "session"
      /\ new.secret[2] \in sessions'
      /\ new = Handle(<<"session", new.secret[2]>>, new.n)
    BY <1>1, <1>2
<1> HIDE DEF new
<1>6. HandleInv'
    BY <1>1, <1>3, <1>4, <1>5 DEF NonceInv, HandleInv
<1>7. NonceSafe'
    BY <1>1 DEF NonceInv, NonceSafe
<1> QED BY <1>6, <1>7

\* A nonce of a session id signs, and is forgotten.
LEMMA SessionSigns ==
    ASSUME NonceInv, NEW h \in live, NEW msg, PartialSign(h, msg)
    PROVE  HandleInv' /\ NonceSafe'
<1> DEFINE new == [secret |-> h.secret, msg |-> msg, nonce |-> Undefined]
<1>1. /\ h.secret[1] = "session" /\ h.secret[2] \in sessions
      /\ signed' = signed \cup {new} /\ live' = live \ {h} /\ UNCHANGED <<call, sessions>>
    BY DEF PartialSign, Spent, NonceInv, HandleInv
<1>2. new.secret = h.secret
    OBVIOUS
<1>3. \A g \in live' : g.secret # new.secret
    BY <1>1, <1>2 DEF NonceInv, HandleInv
<1>4. \A x \in signed : x.secret # new.secret
    BY <1>2 DEF NonceInv, HandleInv
<1> HIDE DEF new
<1>5. HandleInv'
    BY <1>1, <1>2, <1>3 DEF NonceInv, HandleInv
<1>6. NonceSafe'
    <2>1. \A x, y \in signed' : x.secret = y.secret => x = y
        BY <1>1, <1>4 DEF NonceInv, NonceSafe
    <2>2. \A c \in Calls : new.secret[1] # c
        BY <1>1, <1>2, NameAssumption
    <2>3. \A x \in signed', c \in Calls :
              x.secret[1] = c => x.msg = Sighash(call'[c].plan, x.secret[2])
        BY <1>1, <2>2 DEF NonceInv, NonceSafe
    <2> QED BY <2>1, <2>3 DEF NonceSafe, Sighash
<1> QED BY <1>5, <1>6

\* What a client makes of an answer: signatures by the nonces it drew for the
\* inputs it asked for, each forgotten as it is used.
LEMMA ReceiveSigns ==
    ASSUME NonceInv, NEW c \in Calls, Receive(c)
    PROVE  HandleInv' /\ NonceSafe'
<1> DEFINE a == answer[c]
           n == IF AnswerFault(a) = Undefined THEN Taken(c, a.sigs) ELSE 0
           new(k) == [secret |-> <<c, a.sigs[k].index>>, msg |-> a.sigs[k].msg,
                      nonce |-> a.sigs[k].nonce]
           used == {AgentHandle(c, i) : i \in {a.sigs[k].index : k \in 1..n}}
<1>1. a # Undefined /\ call[c].st = "sent"
    BY DEF Receive
<1>2. /\ live' = live \ used /\ signed' = signed \cup {new(k) : k \in 1..n}
      /\ sessions' = sessions
    <2>1. sessions' = sessions /\ live' = live \ Spent(used)
        BY DEF Receive
    <2>2. signed' = signed \cup {new(k) : k \in 1..n}
        BY DEF Receive
    <2> QED BY <2>1, <2>2 DEF Spent
<1>3. \A d \in Calls : /\ call'[d].plan = call[d].plan
                       /\ call[d].st # "new" => call'[d].st # "new"
    <2>1. \E st, why : st # "new" /\ call' = [call EXCEPT ![c].st = st, ![c].why = why]
        BY DEF Receive
    <2> QED BY <2>1 DEF NonceInv, CallInv
<1>4. \A k \in 1..n : /\ a.sigs[k].msg = Sighash(call[c].plan, a.sigs[k].index)
                      /\ AgentHandle(c, a.sigs[k].index) \in live
                      /\ \A j \in 1..n : a.sigs[j].index = a.sigs[k].index => j = k
    <2>1. Len(a.sigs) \in Nat
        BY <1>1 DEF NonceInv, CallInv
    <2>2. CASE AnswerFault(a) = Undefined
        BY <2>1, <2>2, TakenIsSound
    <2>3. CASE AnswerFault(a) # Undefined
        BY <2>3
    <2> QED BY <2>2, <2>3
<1>5. \A k \in 1..n : /\ new(k).secret = AgentHandle(c, a.sigs[k].index).secret
                      /\ new(k).secret[1] = c /\ new(k).secret[2] = a.sigs[k].index
                      /\ new(k).msg = a.sigs[k].msg
    <2>1. \A i : AgentHandle(c, i).secret = <<c, i>> /\ <<c, i>>[1] = c /\ <<c, i>>[2] = i
        BY HandleParts
    <2>2. \A k \in 1..n : new(k).secret = <<c, a.sigs[k].index>> /\ new(k).msg = a.sigs[k].msg
        OBVIOUS
    <2> HIDE DEF new
    <2> QED BY <2>1, <2>2
<1>6. c # "session"
    BY NameAssumption
<1> HIDE DEF n, new, used
<1>7. \A k \in 1..n : \A h \in live' : h.secret # new(k).secret
    <2> SUFFICES ASSUME NEW k \in 1..n, NEW h \in live', h.secret = new(k).secret
                 PROVE  FALSE
        OBVIOUS
    <2>1. h = AgentHandle(c, a.sigs[k].index)
        BY <1>2, <1>4, <1>5 DEF NonceInv, HandleInv
    <2> QED BY <1>2, <2>1 DEF used
<1>8. \A k \in 1..n : \A x \in signed : x.secret # new(k).secret
    BY <1>4, <1>5 DEF NonceInv, HandleInv
<1>9. HandleInv'
    <2>1. \A x \in signed' : \/ x \in signed
                             \/ \E k \in 1..n : x = new(k)
        BY <1>2
    <2>2. \A x \in signed' :
              /\ x.secret[1] # "session" =>
                    x.secret[1] \in Calls /\ call'[x.secret[1]].st # "new"
              /\ x.secret[1] = "session" => x.secret[2] \in sessions'
        BY <1>1, <1>2, <1>3, <1>5, <1>6, <2>1 DEF NonceInv, HandleInv
    <2>3. \A x \in signed', h \in live' : x.secret # h.secret
        BY <1>2, <1>7, <2>1 DEF NonceInv, HandleInv
    <2>4. \A h \in live' :
            /\ h.secret[1] # "session" =>
                  /\ h.secret[1] \in Calls /\ call'[h.secret[1]].st # "new"
                  /\ h = AgentHandle(h.secret[1], h.secret[2])
            /\ h.secret[1] = "session" =>
                  /\ h.secret[2] \in sessions' /\ h = Handle(<<"session", h.secret[2]>>, h.n)
        BY <1>2, <1>3 DEF NonceInv, HandleInv
    <2>5. \A g, h \in live' : g.secret = h.secret => g = h
        BY <1>2 DEF NonceInv, HandleInv
    <2> QED BY <2>2, <2>3, <2>4, <2>5 DEF HandleInv
<1>10. NonceSafe'
    <2>1. \A k, j \in 1..n : new(k).secret = new(j).secret => new(k) = new(j)
        BY <1>4, <1>5
    <2>2. \A x, y \in signed' : x.secret = y.secret => x = y
        BY <1>2, <1>8, <2>1 DEF NonceInv, NonceSafe
    <2>3. \A x \in signed', d \in Calls :
              x.secret[1] = d => x.msg = Sighash(call[d].plan, x.secret[2])
        BY <1>2, <1>4, <1>5 DEF NonceInv, NonceSafe
    <2>4. \A x \in signed', d \in Calls :
              x.secret[1] = d => x.msg = Sighash(call'[d].plan, x.secret[2])
        BY <1>3, <2>3 DEF Sighash
    <2> QED BY <2>2, <2>4 DEF NonceSafe, Sighash
<1> QED BY <1>9, <1>10
\* What the endpoint does, lost answers, recovery and time leave nonces alone.
LEMMA NonceStep ==
    ASSUME NonceInv, [Next]_vars
    PROVE  NonceInv'
<1>1. CallInv'
    BY CallStep DEF NonceInv
<1>2. ASSUME UNCHANGED <<call, nonceVars>> PROVE HandleInv' /\ NonceSafe'
    BY <1>2, NoNonce
<1>3. ASSUME NEW c \in Calls, TooLarge(c) \/ Unauthorized(c) \/ Misanswer(c)
      PROVE  HandleInv' /\ NonceSafe'
    BY <1>2, <1>3 DEF TooLarge, Unauthorized, Misanswer
<1>4. ASSUME NEW c \in Calls, NEW t \in Tenants,
             Throttle(c, t) \/ BadRequest(c, t) \/ Deny(c, t) \/ Fault(c, t) \/ Approve(c, t)
      PROVE  HandleInv' /\ NonceSafe'
    BY <1>2, <1>4 DEF Throttle, BadRequest, Deny, Fault, Approve
<1>5. ASSUME NEW c \in Calls, GiveUp(c) PROVE HandleInv' /\ NonceSafe'
    <2>1. UNCHANGED nonceVars /\ call' = [call EXCEPT ![c].st = "failed", ![c].why = "network"]
        BY <1>5 DEF GiveUp
    <2>2. \A d \in Calls : /\ call'[d].plan = call[d].plan
                           /\ call[d].st # "new" => call'[d].st # "new"
        BY <2>1 DEF NonceInv, CallInv
    <2> QED BY <2>1, <2>2, NoNonce
<1>6. ASSUME (\E r \in work.recoveries : Recover(r)) \/ Tick \/ UNCHANGED vars
      PROVE  HandleInv' /\ NonceSafe'
    BY <1>2, <1>6 DEF Recover, Tick, vars, nonceVars
<1>7. HandleInv' /\ NonceSafe'
    BY <1>3, <1>4, <1>5, <1>6, StartDraws, SessionDraws, SessionSigns, ReceiveSigns DEF Next
<1> QED BY <1>1, <1>7 DEF NonceInv

\* A secret nonce makes one partial signature, over the sighash of the PSBT it
\* was drawn for (NonceSafe), whatever the plans and the endpoint's answers.
THEOREM NoncesAreSafe == Spec => []NonceSafe
<1>1. Init => NonceInv
    <2>1. Init => CallInv
        BY CallInit
    <2>2. Init => HandleInv /\ NonceSafe
        BY DEF Init, HandleInv, NonceSafe
    <2> QED BY <2>1, <2>2 DEF NonceInv
<1>2. NonceInv /\ [Next]_vars => NonceInv'
    BY NonceStep
<1>3. NonceInv => NonceSafe
    BY DEF NonceInv
<1> QED BY <1>1, <1>2, <1>3, PTL DEF Spec

-----------------------------------------------------------------------------
\* No two tenants of an endpoint that started share a window store.
LEMMA StoresApart ==
    ASSUME Starts(server), NEW t \in Tenants, NEW u \in Tenants, StoreOf(t) = StoreOf(u)
    PROVE  t = u
<1>1. CASE server.hosted
    <2>1. \A i, j \in 1..Len(server.tenants) :
              i # j => server.tenants[i].store # server.tenants[j].store
        BY <1>1 DEF Starts, IndexTenants
    <2> QED BY <2>1 DEF Tenants, StoreOf
<1>2. CASE ~server.hosted
    <2>1. Len(server.tenants) = 1
        BY <1>2 DEF Starts, SidecarStarts
    <2>2. \A i \in 1..1, j \in 1..1 : i = j
        OBVIOUS
    <2>3. t \in 1..1 /\ u \in 1..1
        BY <2>1 DEF Tenants
    <2> QED BY <2>2, <2>3
<1> QED BY <1>1, <1>2

\* The row of a request names its call.
LEMMA RowOfCall == ASSUME NEW c, NEW t PROVE Row(c, t).call = c
BY DEF Row

\* A refusal carries no signature.
LEMMA NothingSigned ==
    ASSUME NEW c, NEW status, NEW reason
    PROVE  \A k \in 1..Len(Refusal(status, reason).sigs) : ByDaemon(c, Refusal(status, reason).sigs[k])
                                                            => Charged(c)'
<1>1. Refusal(status, reason).sigs = <<>>
    BY RefusalIsList
<1>2. 1..Len(<<>>) = {}
    OBVIOUS
<1> QED BY <1>1, <1>2


\* A step that charges nobody, answers nobody and signs nothing.
LEMMA ChargesKept ==
    ASSUME AccountInv, CallInv, UNCHANGED <<work, server, charges, wire>>,
           \A d \in Calls : /\ call'[d].plan = call[d].plan
                            /\ call[d].st # "new" => call'[d].st # "new"
                            /\ answer'[d] = answer[d] \/ answer'[d] = Undefined,
           \A x \in signed' : x \in signed \/ x.secret[1] \notin Calls
    PROVE  AccountInv'
<1>1. \A d \in Calls : (Charged(d)' <=> Charged(d))
    BY DEF Charged
<1>2. ChargedOnce'
    BY DEF AccountInv, ChargedOnce, Tenants, StoreOf, TenantOf
<1>3. \A d \in Calls : answer'[d] # Undefined => answer'[d] = answer[d]
    OBVIOUS
<1>4. \A d \in Calls : answer[d] # Undefined =>
          \A k \in 1..Len(answer[d].sigs) : ByDaemon(d, answer[d].sigs[k]) => Charged(d)
    BY DEF AccountInv
<1>5. \A d \in Calls : answer'[d] # Undefined =>
          \A k \in 1..Len(answer'[d].sigs) : ByDaemon(d, answer'[d].sigs[k]) => Charged(d)'
    BY <1>1, <1>3, <1>4
<1> QED BY <1>1, <1>2, <1>5 DEF AccountInv

\* The endpoint answers a request that was on the wire, after charging it or
\* not; an answer that holds a signature of the daemon's is of one it charged.
LEMMA Answered ==
    ASSUME AccountInv, CallInv, NEW c \in Calls, c \in wire, NEW a, Respond(c, a),
           UNCHANGED <<work, server, call, signed>>,
           \/ charges' = charges
           \/ \E t \in TenantOf(call[c].plan.token) : charges' = charges \cup {Row(c, t)},
           \A k \in 1..Len(a.sigs) : ByDaemon(c, a.sigs[k]) => Charged(c)'
    PROVE  AccountInv'
<1>1. wire' = wire \ {c} /\ answer' = [answer EXCEPT ![c] = a]
    BY DEF Respond
<1>2. /\ \A d \in Calls : d # c => answer'[d] = answer[d]
      /\ answer'[c] = a
    BY <1>1 DEF CallInv
<1>3. ~Charged(c) /\ call[c].st # "new"
    BY DEF AccountInv
<1>4. /\ \A d \in Calls : d # c => (Charged(d)' <=> Charged(d))
      /\ charges \subseteq charges' /\ \A x \in charges' : x \in charges \/ x.call = c
    BY DEF Charged, Row
<1>5. \A x \in charges', y \in charges' : x.call = y.call => x = y
    <2>1. CASE charges' = charges
        BY <2>1 DEF AccountInv, ChargedOnce
    <2>2. ASSUME NEW t, charges' = charges \cup {Row(c, t)}
          PROVE  \A x \in charges', y \in charges' : x.call = y.call => x = y
        BY <1>3, <2>2 DEF AccountInv, ChargedOnce, Charged, Row
    <2> QED BY <2>1, <2>2
<1>6. \A x \in charges', t \in Tenants :
          StoreOf(t) = x.store => t \in TenantOf(call[x.call].plan.token)
    <2>1. CASE charges' = charges
        BY <2>1 DEF AccountInv, ChargedOnce
    <2>2. ASSUME NEW u \in TenantOf(call[c].plan.token), charges' = charges \cup {Row(c, u)}
          PROVE  \A x \in charges', t \in Tenants :
                     StoreOf(t) = x.store => t \in TenantOf(call[x.call].plan.token)
        <3>1. Row(c, u).store = StoreOf(u) /\ Row(c, u).call = c /\ u \in Tenants
            BY DEF Row, TenantOf
        <3>2. \A t \in Tenants : StoreOf(t) = StoreOf(u) => t = u
            BY <3>1, StoresApart DEF AccountInv
        <3>3. \A x \in charges, t \in Tenants :
                  StoreOf(t) = x.store => t \in TenantOf(call[x.call].plan.token)
            BY DEF AccountInv, ChargedOnce
        <3> QED BY <2>2, <3>1, <3>2, <3>3
    <2> QED BY <2>1, <2>2
<1>7. ChargedOnce'
    <2>1. \A x \in signed : /\ x.secret[1] \in Calls
                            /\ x.nonce = DeterministicNonce(x.secret[1], x.secret[2])
                            => \E y \in charges' : y.call = x.secret[1]
        BY <1>4 DEF AccountInv, ChargedOnce
    <2>2. /\ \A t \in Tenants : StoreOf(t)' = StoreOf(t)
          /\ Tenants' = Tenants /\ \A token : TenantOf(token)' = TenantOf(token)
        BY DEF Tenants, StoreOf, TenantOf
    <2> QED BY <1>5, <1>6, <2>1, <2>2 DEF ChargedOnce, DeterministicNonce
<1>8. \A d \in Calls : answer'[d] # Undefined =>
          \A k \in 1..Len(answer'[d].sigs) : ByDaemon(d, answer'[d].sigs[k]) => Charged(d)'
    BY <1>2, <1>4 DEF AccountInv
<1>9. \A d \in Calls : /\ call'[d].st = "new" => d \notin wire'
                       /\ call'[d].st = "new" \/ d \in wire' => ~Charged(d)'
    BY <1>1, <1>3, <1>4 DEF AccountInv
<1>10. \A x \in charges' : x.call \in Calls
    BY <1>4 DEF AccountInv
<1>11. Starts(server)'
    BY DEF AccountInv
<1> QED BY <1>7, <1>8, <1>9, <1>10, <1>11 DEF AccountInv

\* A refusal, charged or not, keeps the account right.
LEMMA Refused ==
    ASSUME AccountInv, CallInv, NEW c \in Calls, c \in wire, NEW status, NEW reason,
           Respond(c, Refusal(status, reason)), UNCHANGED <<work, server, call, signed>>,
           \/ charges' = charges
           \/ \E t \in TenantOf(call[c].plan.token) : charges' = charges \cup {Row(c, t)}
    PROVE  AccountInv'
<1> DEFINE a == Refusal(status, reason)
<1>1. Respond(c, a) /\ \A k \in 1..Len(a.sigs) : ByDaemon(c, a.sigs[k]) => Charged(c)'
    BY NothingSigned
<1> HIDE DEF a
<1> QED BY <1>1, Answered

\* What the client signs of an answer with the daemon's nonce was charged.
LEMMA ReceiveCharged ==
    ASSUME AccountInv, CallInv, NEW c \in Calls, Receive(c)
    PROVE  AccountInv'
<1> DEFINE a == answer[c]
           n == IF AnswerFault(a) = Undefined THEN Taken(c, a.sigs) ELSE 0
           new(k) == [secret |-> <<c, a.sigs[k].index>>, msg |-> a.sigs[k].msg,
                      nonce |-> a.sigs[k].nonce]
<1>1. /\ a # Undefined /\ call[c].st = "sent"
      /\ answer' = [answer EXCEPT ![c] = Undefined]
      /\ UNCHANGED <<work, server, wire, charges>>
    BY DEF Receive, serverVars
<1>2. signed' = signed \cup {new(k) : k \in 1..n}
    BY DEF Receive
<1>3. \E st, why : st # "new" /\ call' = [call EXCEPT ![c].st = st, ![c].why = why]
    BY DEF Receive
<1>4. \A d \in Calls : /\ call'[d].plan = call[d].plan
                       /\ call[d].st # "new" => call'[d].st # "new"
                       /\ call'[d].st = "new" => call[d].st = "new"
                       /\ answer'[d] = answer[d] \/ answer'[d] = Undefined
    BY <1>1, <1>3 DEF CallInv
<1>5. n \in 0..Len(a.sigs) /\ Len(a.sigs) \in Nat
    <2>1. Len(a.sigs) \in Nat
        BY <1>1 DEF CallInv
    <2> QED BY <2>1, TakenFaultless
<1>6. \A k \in 1..n : ByDaemon(c, a.sigs[k]) => Charged(c)
    <2>1. \A k \in 1..Len(a.sigs) : ByDaemon(c, a.sigs[k]) => Charged(c)
        BY <1>1 DEF AccountInv
    <2> HIDE DEF n, a
    <2> QED BY <1>5, <2>1
<1>7. ASSUME NEW x \in signed', x.secret[1] \in Calls,
             x.nonce = DeterministicNonce(x.secret[1], x.secret[2])
      PROVE  \E y \in charges : y.call = x.secret[1]
    <2>1. CASE x \in signed
        BY <1>7, <2>1 DEF AccountInv, ChargedOnce
    <2>2. ASSUME NEW k \in 1..n, x = new(k) PROVE \E y \in charges : y.call = x.secret[1]
        <3>1. x.secret[1] = c /\ x.secret[2] = a.sigs[k].index /\ x.nonce = a.sigs[k].nonce
            BY <2>2
        <3>2. ByDaemon(c, a.sigs[k])
            BY <1>7, <3>1 DEF ByDaemon
        <3> QED BY <1>6, <3>1, <3>2 DEF Charged
    <2> HIDE DEF n, new
    <2> QED BY <1>2, <2>1, <2>2
<1>8. ChargedOnce'
    <2>1. \A x \in signed' : /\ x.secret[1] \in Calls
                             /\ x.nonce = DeterministicNonce(x.secret[1], x.secret[2])
                             => \E y \in charges' : y.call = x.secret[1]
        BY <1>1, <1>7
    <2>2. /\ \A t \in Tenants : StoreOf(t)' = StoreOf(t)
          /\ Tenants' = Tenants /\ \A token : TenantOf(token)' = TenantOf(token)
        BY <1>1 DEF Tenants, StoreOf, TenantOf
    <2>3. \A x \in charges, t \in Tenants :
              StoreOf(t) = x.store => t \in TenantOf(call'[x.call].plan.token)
        BY <1>4 DEF AccountInv, ChargedOnce
    <2>4. \A x, y \in charges : x.call = y.call => x = y
        BY DEF AccountInv, ChargedOnce
    <2> QED BY <1>1, <2>1, <2>2, <2>3, <2>4 DEF ChargedOnce, DeterministicNonce
<1>9. \A d \in Calls : answer'[d] # Undefined =>
          \A k \in 1..Len(answer'[d].sigs) : ByDaemon(d, answer'[d].sigs[k]) => Charged(d)'
    <2>1. \A d \in Calls : answer'[d] # Undefined => answer'[d] = answer[d]
        BY <1>4
    <2>2. \A d \in Calls : (Charged(d)' <=> Charged(d))
        BY <1>1 DEF Charged
    <2>3. \A d \in Calls : answer[d] # Undefined =>
              \A k \in 1..Len(answer[d].sigs) : ByDaemon(d, answer[d].sigs[k]) => Charged(d)
        BY DEF AccountInv
    <2> QED BY <2>1, <2>2, <2>3
<1> HIDE DEF a, n
<1> QED BY <1>1, <1>4, <1>8, <1>9 DEF AccountInv, Charged

LEMMA ChargeStep ==
    ASSUME AccountInv, CallInv, [Next]_vars
    PROVE  AccountInv'
<1>1. ASSUME NEW c \in Calls, Start(c) PROVE AccountInv'
    <2>1. /\ call[c].st = "new" /\ UNCHANGED <<work, server, answer, charges, signed>>
          /\ \/ call' = [call EXCEPT ![c].st = "failed", ![c].why = "COSIGNER_CONFIG"] /\ wire' = wire
             \/ call' = [call EXCEPT ![c].st = "sent"] /\ wire' = wire \cup {c}
        BY <1>1 DEF Start, serverVars
    <2>2. \A d \in Calls : /\ call'[d].plan = call[d].plan
                           /\ d # c => call'[d] = call[d] /\ (d \in wire' <=> d \in wire)
        BY <2>1 DEF CallInv
    <2>3. call'[c].st # "new" /\ ~Charged(c)
        BY <2>1 DEF AccountInv, CallInv
    <2>4. \A d \in Calls : (Charged(d)' <=> Charged(d))
        BY <2>1 DEF Charged
    <2>5. ChargedOnce'
        BY <2>1, <2>2 DEF AccountInv, ChargedOnce, Tenants, StoreOf, TenantOf
    <2>6. \A d \in Calls : /\ call'[d].st = "new" => d \notin wire'
                           /\ call'[d].st = "new" \/ d \in wire' => ~Charged(d)'
        BY <2>2, <2>3, <2>4 DEF AccountInv
    <2>7. \A d \in Calls : answer[d] # Undefined =>
              \A k \in 1..Len(answer[d].sigs) : ByDaemon(d, answer[d].sigs[k]) => Charged(d)'
        BY <2>4 DEF AccountInv
    <2> QED BY <2>1, <2>5, <2>6, <2>7 DEF AccountInv
<1>2. ASSUME NEW c \in Calls, GiveUp(c) PROVE AccountInv'
    <2>1. /\ call[c].st = "sent" /\ UNCHANGED <<work, server, wire, answer, charges, signed>>
          /\ call' = [call EXCEPT ![c].st = "failed", ![c].why = "network"]
        BY <1>2 DEF GiveUp, serverVars, nonceVars
    <2>2. \A d \in Calls : /\ call'[d].plan = call[d].plan
                           /\ call[d].st # "new" => call'[d].st # "new"
        BY <2>1 DEF CallInv
    <2> QED BY <2>1, <2>2, ChargesKept
<1>3. ASSUME NEW c \in Calls, TooLarge(c) \/ Unauthorized(c) PROVE AccountInv'
    <2>1. /\ c \in wire /\ UNCHANGED <<work, server, call, charges, signed>>
          /\ \E status, reason : Respond(c, Refusal(status, reason))
        BY <1>3 DEF TooLarge, Unauthorized, nonceVars
    <2> QED BY <2>1, Refused
<1>4. ASSUME NEW c \in Calls, Misanswer(c) PROVE AccountInv'
    <2>1. c \in wire /\ UNCHANGED <<work, server, call, charges, signed>> /\ work \in Workloads
        BY <1>4 DEF Misanswer, serverVars, nonceVars, CallInv
    <2>2. CASE Respond(c, Refusal(200, "not JSON"))
        BY <2>1, <2>2, Refused
    <2>3. ASSUME NEW w \in work.wrong,
                 Respond(c, [status |-> 200, reason |-> Undefined, approved |-> TRUE, sigs |-> w])
          PROVE  AccountInv'
        <3> DEFINE b == [status |-> 200, reason |-> Undefined, approved |-> TRUE, sigs |-> w]
        <3>1. b.sigs = w /\ \A k \in 1..Len(w) : ~ByDaemon(c, w[k])
            BY <2>1, WorkAssumption DEF ByDaemon, DeterministicNonce
        <3> HIDE DEF b
        <3>2. Respond(c, b)
            BY <2>3 DEF b
        <3>3. \A k \in 1..Len(b.sigs) : ByDaemon(c, b.sigs[k]) => Charged(c)'
            BY <3>1
        <3> QED BY <2>1, <3>2, <3>3, Answered
    <2> QED BY <1>4, <2>2, <2>3 DEF Misanswer
<1>5. ASSUME NEW c \in Calls, NEW t \in Tenants, Throttle(c, t) \/ BadRequest(c, t) \/ Deny(c, t)
      PROVE  AccountInv'
    <2>1. /\ c \in wire /\ UNCHANGED <<work, server, call, charges, signed>>
          /\ \E status, reason : Respond(c, Refusal(status, reason))
        BY <1>5 DEF Throttle, BadRequest, Deny, Processed, Admitted, Authenticated, nonceVars
    <2> QED BY <2>1, Refused
<1>6. ASSUME NEW c \in Calls, NEW t \in Tenants, Fault(c, t) PROVE AccountInv'
    <2>1. /\ c \in wire /\ UNCHANGED <<work, server, call, signed>>
          /\ Respond(c, Refusal(500, "INTERNAL_ERROR")) /\ t \in TenantOf(call[c].plan.token)
          /\ charges' \in {charges, charges \cup {Row(c, t)}}
        BY <1>6 DEF Fault, Processed, Admitted, Authenticated, nonceVars
    <2> QED BY <2>1, Refused
<1>7. ASSUME NEW c \in Calls, NEW t \in Tenants, Approve(c, t) PROVE AccountInv'
    <2> DEFINE a == [status |-> 200, reason |-> Undefined, approved |-> TRUE, sigs |-> Signatures(c)]
    <2>1. /\ c \in wire /\ UNCHANGED <<work, server, call, signed>> /\ Respond(c, a)
          /\ t \in TenantOf(call[c].plan.token) /\ charges' = charges \cup {Row(c, t)}
        BY <1>7 DEF Approve, Processed, Admitted, Authenticated, nonceVars
    <2>2. Charged(c)'
        BY <2>1, RowOfCall DEF Charged
    <2>3. \A k \in 1..Len(a.sigs) : ByDaemon(c, a.sigs[k]) => Charged(c)'
        BY <2>2
    <2>4. \E u \in TenantOf(call[c].plan.token) : charges' = charges \cup {Row(c, u)}
        BY <2>1
    <2> HIDE DEF a
    <2> QED BY <2>1, <2>3, <2>4, Answered
<1>8. ASSUME \/ \E sid \in work.sids, n \in {1, 2} : GenerateNonce(sid, n)
             \/ \E r \in work.recoveries : Recover(r)
             \/ Tick \/ UNCHANGED vars
      PROVE  AccountInv'
    <2>1. UNCHANGED <<work, server, charges, wire, call, answer, signed>>
        BY <1>8 DEF GenerateNonce, Recover, Tick, vars, serverVars, nonceVars
    <2> QED BY <2>1, ChargesKept
<1>9. ASSUME NEW h \in live, NEW msg, PartialSign(h, msg) PROVE AccountInv'
    <2>1. UNCHANGED <<work, server, charges, wire, call, answer>>
        BY <1>9 DEF PartialSign, serverVars
    <2>2. \A x \in signed' : x \in signed \/ x.secret[1] \notin Calls
        <3> DEFINE new == [secret |-> h.secret, msg |-> msg, nonce |-> Undefined]
        <3>1. signed' = signed \cup {new} /\ h.secret[1] \notin Calls
            BY <1>9, NameAssumption DEF PartialSign
        <3>2. new.secret = h.secret
            OBVIOUS
        <3> HIDE DEF new
        <3> QED BY <3>1, <3>2
    <2> QED BY <2>1, <2>2, ChargesKept
<1> QED BY <1>1, <1>2, <1>3, <1>4, <1>5, <1>6, <1>7, <1>8, <1>9, ReceiveCharged DEF Next

\* A call is charged at most once and in its own tenant's window, and what the
\* daemon signed for an agent is charged, whatever is lost or answered wrongly
\* (ChargedOnce).
THEOREM ChargesAreRight == Spec => []ChargedOnce
<1>1. Init => CallInv /\ AccountInv
    <2>1. Init => AccountInv
        BY DEF Init, AccountInv, ChargedOnce, Charged
    <2> QED BY <2>1, CallInit
<1>2. CallInv /\ AccountInv /\ [Next]_vars => (CallInv /\ AccountInv)'
    BY CallStep, ChargeStep
<1>3. AccountInv => ChargedOnce
    BY DEF AccountInv
<1> QED BY <1>1, <1>2, <1>3, PTL DEF Spec
-----------------------------------------------------------------------------
\* Sizes of finite sets: a subset, one more element, two halves.
LEMMA Smaller ==
    ASSUME NEW S, NEW T, IsFiniteSet(T), S \subseteq T
    PROVE  /\ IsFiniteSet(S) /\ Cardinality(S) \in Nat /\ Cardinality(T) \in Nat
           /\ Cardinality(S) <= Cardinality(T)
BY FS_Subset, FS_CardinalityType

LEMMA OneMore ==
    ASSUME NEW S, NEW T, NEW x, IsFiniteSet(T), S \subseteq T \cup {x}
    PROVE  /\ IsFiniteSet(S) /\ Cardinality(S) \in Nat /\ Cardinality(T) \in Nat
           /\ Cardinality(S) <= Cardinality(T) + 1
<1>1. /\ IsFiniteSet(T \cup {x}) /\ Cardinality(T) \in Nat
      /\ Cardinality(T \cup {x}) <= Cardinality(T) + 1
    BY FS_AddElement, FS_CardinalityType
<1>2. /\ IsFiniteSet(S) /\ Cardinality(S) \in Nat /\ Cardinality(T \cup {x}) \in Nat
      /\ Cardinality(S) <= Cardinality(T \cup {x})
    BY <1>1, Smaller
<1> QED BY <1>1, <1>2

LEMMA TwoHalves ==
    ASSUME NEW A, NEW B, NEW C, IsFiniteSet(A), IsFiniteSet(B), C \subseteq A \cup B,
           NEW n \in Nat, Cardinality(A) <= n, Cardinality(B) <= n
    PROVE  Cardinality(C) <= 2 * n
<1>1. /\ IsFiniteSet(A \cup B)
      /\ Cardinality(A \cup B) = Cardinality(A) + Cardinality(B) - Cardinality(A \cap B)
    BY FS_Union
<1>2. Cardinality(A) \in Nat /\ Cardinality(B) \in Nat /\ Cardinality(A \cap B) \in Nat
    BY FS_CardinalityType, FS_Intersection
<1>3. Cardinality(C) \in Nat /\ Cardinality(C) <= Cardinality(A \cup B)
    BY <1>1, Smaller
<1> QED BY <1>1, <1>2, <1>3

\* The requests served in one span of RateWindow, as RateBound counts them.
Span(S, t, from) == {x \in S : x.tenant = t /\ x.at \in from..(from + RateWindow - 1)}

LEMMA RateBoundIs ==
    RateBound <=> (Limited => \A t \in Tenants, from \in 0..now :
                                  Cardinality(Span(served, t, from)) <= 2 * MaxRequests)
BY DEF RateBound, Span

\* A counted request of tenant t, served only if it is within the window: the
\* window it opens or joins keeps the bounds.
LEMMA Counted ==
    ASSUME RateInv, Limited, NEW t \in Tenants, rate' = [rate EXCEPT ![t] = Bumped(t)],
           UNCHANGED <<now, server>>, NEW r, r.tenant = t, r.at = now,
           served' = served \/ (served' = served \cup {r} /\ ~Over(t))
    PROVE  RateInv'
<1> DEFINE W == RateWindow
           s == WindowStart(t)
           u == rate'[t].resetAt - RateWindow
<1>1. /\ now \in Nat /\ W \in Nat \ {0} /\ MaxRequests \in Nat \ {0} /\ IsFiniteSet(served)
      /\ \A x \in served : x.at \in Nat /\ x.at <= now
      /\ rate[t].count \in Nat /\ rate[t].resetAt \in Nat
      /\ rate[t].resetAt <= now + W /\ s = rate[t].resetAt - W
      /\ \A x \in served : x.tenant = t => x.at < rate[t].resetAt
      /\ Cardinality(ServedIn(served, t, s, now + 1)) <= rate[t].count
      /\ Cardinality(ServedIn(served, t, s, now + 1)) <= MaxRequests
      /\ Cardinality(ServedIn(served, t, s - W, s)) <= MaxRequests
    BY RateAssumption DEF RateInv, Limited, WindowStart
<1>2. /\ IsFiniteSet(served') /\ served' \subseteq served \cup {r}
      /\ \A x \in served' : x.at \in 0..now
    BY <1>1, FS_AddElement
<1>3. \A a, b : ServedIn(served', t, a, b) \subseteq ServedIn(served, t, a, b) \cup {r}
    BY <1>2 DEF ServedIn
<1>4. \A a, b : IsFiniteSet(ServedIn(served, t, a, b)) /\ IsFiniteSet(ServedIn(served', t, a, b))
    BY <1>1, <1>2, Smaller DEF ServedIn
<1>5. rate'[t] = Bumped(t) /\ DOMAIN rate' = Tenants /\ Tenants' = Tenants /\ Limited'
      /\ \A v \in Tenants : v # t => rate'[v] = rate[v]
    BY DEF RateInv, Tenants, Limited
<1>6. /\ rate'[t] = [count |-> rate'[t].count, resetAt |-> rate'[t].resetAt]
      /\ rate'[t].count \in Nat /\ rate'[t].resetAt \in Nat
      /\ rate'[t].resetAt <= now + W
      /\ now < rate'[t].resetAt /\ rate[t].resetAt <= rate'[t].resetAt
    <2>1. CASE rate[t].resetAt <= now
        <3>1. rate'[t] = [count |-> 1, resetAt |-> now + W]
            BY <1>5, <2>1 DEF Bumped
        <3> QED BY <1>1, <2>1, <3>1 DEF WindowStart
    <2>2. CASE ~(rate[t].resetAt <= now)
        <3>1. rate[t] = [count |-> rate[t].count, resetAt |-> rate[t].resetAt]
            BY DEF RateInv
        <3>2. rate'[t] = [count |-> rate[t].count + 1, resetAt |-> rate[t].resetAt]
            BY <1>5, <2>2, <3>1 DEF Bumped
        <3> QED BY <1>1, <2>2, <3>2 DEF WindowStart
    <2> QED BY <2>1, <2>2
<1>7. /\ Cardinality(ServedIn(served', t, u, now + 1)) <= rate'[t].count
      /\ Cardinality(ServedIn(served', t, u, now + 1)) <= MaxRequests
      /\ Cardinality(ServedIn(served', t, u - W, u)) <= MaxRequests
    <2>1. CASE rate[t].resetAt <= now
        <3>1. rate'[t].count = 1 /\ u = now
            BY <1>1, <1>5, <2>1 DEF Bumped, WindowStart
        <3>2. ServedIn(served', t, now, now + 1) \subseteq {} \cup {r}
            BY <1>1, <1>2, <2>1 DEF ServedIn
        <3>3. Cardinality(ServedIn(served', t, now, now + 1)) <= 1
            <4> DEFINE D == ServedIn(served', t, now, now + 1)
            <4>1. IsFiniteSet({}) /\ Cardinality({}) = 0 /\ D \subseteq {} \cup {r}
                BY <3>2, FS_EmptySet
            <4> HIDE DEF D
            <4>2. Cardinality(D) <= Cardinality({}) + 1
                BY <4>1, OneMore
            <4> QED BY <4>1, <4>2 DEF D
        <3>4. ServedIn(served', t, now - W, now) \subseteq ServedIn(served, t, s, now + 1)
            BY <1>1, <1>2, <2>1 DEF ServedIn
        <3>5. Cardinality(ServedIn(served', t, now - W, now)) <= MaxRequests
            BY <1>1, <1>4, <3>4, Smaller
        <3>6. Cardinality(ServedIn(served', t, now, now + 1)) \in Nat
            BY <1>4, FS_CardinalityType
        <3> QED BY <1>1, <3>1, <3>3, <3>5, <3>6
    <2>2. CASE ~(rate[t].resetAt <= now)
        <3>1. Bumped(t).count = rate[t].count + 1 /\ rate'[t].count = rate[t].count + 1 /\ u = s
            <4>1. rate[t] = [count |-> rate[t].count, resetAt |-> rate[t].resetAt]
                BY DEF RateInv
            <4> QED BY <1>1, <1>5, <2>2, <4>1 DEF Bumped, WindowStart
        <3>2. /\ Cardinality(ServedIn(served', t, s, now + 1)) <= rate[t].count + 1
              /\ Cardinality(ServedIn(served', t, s, now + 1)) <= MaxRequests
            <4>1. CASE served' = served
                <5>1. ServedIn(served', t, s, now + 1) = ServedIn(served, t, s, now + 1)
                    BY <4>1 DEF ServedIn
                <5>2. Cardinality(ServedIn(served, t, s, now + 1)) \in Nat
                    BY <1>4, FS_CardinalityType
                <5> QED BY <1>1, <5>1, <5>2
            <4>2. CASE ~Over(t)
                <5>1. rate[t].count + 1 <= MaxRequests
                    BY <1>1, <3>1, <4>2 DEF Over
                <5>2. /\ Cardinality(ServedIn(served', t, s, now + 1)) <= Cardinality(ServedIn(served, t, s, now + 1)) + 1
                      /\ Cardinality(ServedIn(served, t, s, now + 1)) \in Nat
                      /\ Cardinality(ServedIn(served', t, s, now + 1)) \in Nat
                    <6> DEFINE D == ServedIn(served', t, s, now + 1)
                               E == ServedIn(served, t, s, now + 1)
                    <6>1. IsFiniteSet(E) /\ D \subseteq E \cup {r}
                        BY <1>3, <1>4
                    <6>2. IsFiniteSet(D)
                        BY <1>4
                    <6> HIDE DEF D, E
                    <6>3. Cardinality(D) <= Cardinality(E) + 1
                        BY <6>1, OneMore
                    <6>4. Cardinality(E) \in Nat /\ Cardinality(D) \in Nat
                        BY <6>1, <6>2, FS_CardinalityType
                    <6> QED BY <6>3, <6>4 DEF D, E
                <5> QED BY <1>1, <5>1, <5>2
            <4> QED BY <4>1, <4>2
        <3>3. ServedIn(served', t, s - W, s) \subseteq ServedIn(served, t, s - W, s)
            BY <1>1, <1>2 DEF ServedIn
        <3>4. Cardinality(ServedIn(served', t, s - W, s)) <= MaxRequests
            BY <1>1, <1>4, <3>3, Smaller
        <3> QED BY <3>1, <3>2, <3>4
    <2> QED BY <2>1, <2>2
<1>8. ASSUME NEW from \in 0..now PROVE Cardinality(Span(served', t, from)) <= 2 * MaxRequests
    <2>1. CASE from + W <= now
        <3>1. Span(served', t, from) \subseteq Span(served, t, from)
            BY <1>1, <1>2, <2>1 DEF Span
        <3>2. Cardinality(Span(served, t, from)) <= 2 * MaxRequests
            BY RateBoundIs DEF RateInv
        <3>3. IsFiniteSet(Span(served, t, from))
            BY <1>1, Smaller DEF Span
        <3> QED BY <1>1, <3>1, <3>2, <3>3, Smaller
    <2>2. CASE ~(from + W <= now)
        <3>1. u - W <= from
            BY <1>1, <1>6, <2>2
        <3>2. Span(served', t, from) \subseteq ServedIn(served', t, u - W, u) \cup ServedIn(served', t, u, now + 1)
            BY <1>1, <1>2, <1>6, <3>1 DEF Span, ServedIn
        <3> QED BY <1>1, <1>4, <1>7, <3>2, TwoHalves
    <2> QED BY <2>1, <2>2
<1>9. ASSUME NEW v \in Tenants, v # t
      PROVE  /\ \A a, b : ServedIn(served', v, a, b) = ServedIn(served, v, a, b)
             /\ \A from : Span(served', v, from) = Span(served, v, from)
             /\ rate'[v] = rate[v]
             /\ \A x \in served' : x.tenant = v => x \in served
    BY <1>2, <1>5, <1>9 DEF ServedIn, Span
<1> DEFINE Good(v) ==
        /\ rate'[v] = [count |-> rate'[v].count, resetAt |-> rate'[v].resetAt]
        /\ rate'[v].count \in Nat /\ rate'[v].resetAt \in Nat
        /\ rate'[v].resetAt <= now + W
        /\ \A x \in served' : x.tenant = v => x.at < rate'[v].resetAt
        /\ Cardinality(ServedIn(served', v, rate'[v].resetAt - W, now + 1)) <= rate'[v].count
        /\ Cardinality(ServedIn(served', v, rate'[v].resetAt - W, now + 1)) <= MaxRequests
        /\ Cardinality(ServedIn(served', v, rate'[v].resetAt - W - W, rate'[v].resetAt - W)) <= MaxRequests
        /\ \A from \in 0..now : Cardinality(Span(served', v, from)) <= 2 * MaxRequests
<1>10. Good(t)
    <2>1. \A x \in served' : x.tenant = t => x.at < rate'[t].resetAt
        BY <1>1, <1>2, <1>6
    <2> QED BY <1>6, <1>7, <1>8, <2>1
<1>11. ASSUME NEW v \in Tenants, v # t PROVE Good(v)
    <2>1. \A from \in 0..now : Cardinality(Span(served, v, from)) <= 2 * MaxRequests
        BY RateBoundIs DEF RateInv
    <2> QED BY <1>9, <1>11, <2>1 DEF RateInv, WindowStart
<1>12. \A v \in Tenants : Good(v)
    BY <1>10, <1>11
<1>13. RateBound'
    BY <1>5, <1>12 DEF RateBound, Span
<1> HIDE DEF s, u
<1> QED BY <1>1, <1>2, <1>5, <1>12, <1>13 DEF RateInv, WindowStart
\* Steps that serve nobody and count nobody.
LEMMA RateKept ==
    ASSUME RateInv, UNCHANGED <<rate, now, server, served>>
    PROVE  RateInv'
BY DEF RateInv, Limited, Tenants, ServedIn, WindowStart, RateBound

LEMMA RateTick == ASSUME RateInv, Tick PROVE RateInv'
<1>1. /\ now \in Nat /\ now' = now + 1
      /\ UNCHANGED <<rate, server, served>>
      /\ \A x \in served : x.at \in 0..now
    BY DEF RateInv, Tick, serverVars
<1>2. \A t : ServedIn(served, t, WindowStart(t), now + 1 + 1) = ServedIn(served, t, WindowStart(t), now + 1)
    BY <1>1 DEF ServedIn
<1>3. RateBound'
    <2> SUFFICES ASSUME Limited, NEW t \in Tenants, NEW from \in 0..(now + 1)
                 PROVE  Cardinality(Span(served, t, from)) <= 2 * MaxRequests
        BY <1>1 DEF RateBound, Limited, Tenants, Span
    <2>1. CASE from \in 0..now
        BY <2>1, RateBoundIs DEF RateInv
    <2>2. CASE from = now + 1
        <3>1. Span(served, t, from) = {}
            BY <1>1, <2>2 DEF Span
        <3> QED BY <3>1, FS_EmptySet, RateAssumption
    <2> QED BY <1>1, <2>1, <2>2
<1> QED BY <1>1, <1>2, <1>3, RateAssumption DEF RateInv, Limited, Tenants, WindowStart

\* A request that is served without counting, where nothing is limited.
LEMMA Uncounted ==
    ASSUME RateInv, ~Limited, UNCHANGED <<rate, now, server>>, NEW r, r.at = now,
           served' = served \/ served' = served \cup {r}
    PROVE  RateInv'
<1>1. now \in Nat /\ IsFiniteSet(served') /\ (\A x \in served' : x.at \in 0..now)
    BY FS_AddElement DEF RateInv
<1> QED BY <1>1 DEF RateInv, Limited, Tenants, RateBound

\* What the endpoint does with a request it let in.
LEMMA RateStep == ASSUME RateInv, [Next]_vars PROVE RateInv'
<1>1. ASSUME NEW c \in Calls, NEW t \in Tenants,
             \/ Throttle(c, t) \/ BadRequest(c, t) \/ Deny(c, t) \/ Fault(c, t) \/ Approve(c, t)
      PROVE  RateInv'
    <2> DEFINE r == [call |-> c, tenant |-> t, at |-> now]
    <2>1. /\ rate' = IF Limited THEN [rate EXCEPT ![t] = Bumped(t)] ELSE rate
          /\ UNCHANGED <<now, server>>
          /\ served' = served \/ (served' = served \cup {r} /\ ~Over(t))
        BY <1>1 DEF Throttle, BadRequest, Deny, Fault, Approve, Processed, Admitted, Authenticated
    <2>2. r.tenant = t /\ r.at = now
        OBVIOUS
    <2> HIDE DEF r
    <2>3. CASE Limited
        BY <2>1, <2>2, <2>3, Counted
    <2>4. CASE ~Limited
        BY <2>1, <2>2, <2>4, Uncounted
    <2> QED BY <2>3, <2>4
<1>2. ASSUME NEW c \in Calls,
             \/ Start(c) \/ GiveUp(c) \/ Receive(c) \/ TooLarge(c) \/ Unauthorized(c) \/ Misanswer(c)
      PROVE  RateInv'
    <2>1. UNCHANGED <<rate, now, server, served>>
        BY <1>2 DEF Start, GiveUp, Receive, TooLarge, Unauthorized, Misanswer, serverVars
    <2> QED BY <2>1, RateKept
<1>3. ASSUME \/ \E sid \in work.sids, n \in {1, 2} : GenerateNonce(sid, n)
             \/ \E h \in live, msg \in {"m1", "m2"} : PartialSign(h, msg)
             \/ \E q \in work.recoveries : Recover(q)
             \/ UNCHANGED vars
      PROVE  RateInv'
    <2>1. UNCHANGED <<rate, now, server, served>>
        BY <1>3 DEF GenerateNonce, PartialSign, Recover, serverVars, vars
    <2> QED BY <2>1, RateKept
<1> QED BY <1>1, <1>2, <1>3, RateTick DEF Next

\* No span of RateWindow admits more than two windows' worth of requests of a
\* tenant, whatever MaxRequests and RateWindow an operator chose (RateBound).
THEOREM RateIsBounded == Spec => []RateBound
<1>1. Init => RateInv
    <2> SUFFICES ASSUME Init PROVE RateInv
        OBVIOUS
    <2>1. /\ now = 0 /\ served = {} /\ DOMAIN rate = Tenants
          /\ \A t \in Tenants : rate[t] = [count |-> 0, resetAt |-> 0]
        BY DEF Init
    <2>2. IsFiniteSet(served) /\ Cardinality({}) = 0
        BY <2>1, FS_EmptySet
    <2>3. ASSUME NEW t, NEW a, NEW b PROVE Cardinality(ServedIn(served, t, a, b)) = 0
        <3>1. ServedIn(served, t, a, b) = {}
            BY <2>1 DEF ServedIn
        <3> QED BY <2>2, <3>1
    <2>4. RateBound
        <3>1. \A t, from : Span(served, t, from) = {}
            BY <2>1 DEF Span
        <3> QED BY <2>2, <3>1, RateBoundIs, RateAssumption
    <2>5. ASSUME NEW t \in Tenants
          PROVE  /\ rate[t] = [count |-> rate[t].count, resetAt |-> rate[t].resetAt]
                 /\ rate[t].count = 0 /\ rate[t].resetAt = 0
        BY <2>1
    <2>6. \A t \in Tenants :
              /\ Cardinality(ServedIn(served, t, WindowStart(t), now + 1)) = 0
              /\ Cardinality(ServedIn(served, t, WindowStart(t) - RateWindow, WindowStart(t))) = 0
        BY <2>3
    <2> QED BY <2>1, <2>2, <2>4, <2>5, <2>6, RateAssumption DEF RateInv
<1>2. RateInv /\ [Next]_vars => RateInv'
    BY RateStep
<1>3. RateInv => RateBound
    BY DEF RateInv
<1> QED BY <1>1, <1>2, <1>3, PTL DEF Spec
=============================================================================
