----------------------------- MODULE X402Buyer -----------------------------
(***************************************************************************)
(* The paying side of x402 (utils/x402/client.js): fetchUrl meets a 402,   *)
(* checks the offer against the caller's ceiling, pays once and presents   *)
(* the payment until the gateway takes it.  The caller fetches again when  *)
(* a call fails, with the resume handle if the error carries one.          *)
(***************************************************************************)
EXTENDS Integers, FiniteSets

CONSTANTS
    Offers,       \* offers a gateway makes: tick and amount, 0 for malformed
    Ceilings,     \* what the caller allows: tick -> amount, or no entry
    MaxPresents,  \* maxRetries
    MaxFetchUrls  \* bound on calls of fetchUrl

VARIABLES
    buyerAt,    \* "idle", "fetching", "paying", "presenting" or "served"
    ceiling,
    offer,      \* the offer being paid
    presents,   \* attempts of presentPayment
    payments,   \* payments broadcast for the resource
    resume,     \* the handle the last error gave the caller
    lastError,
    urlCalls

buyerVars == <<buyerAt, ceiling, offer, presents, payments, resume, lastError, urlCalls>>

NoOffer == [tick |-> "none", amount |-> 0]

BuyerInit(ceilings) ==
    /\ buyerAt = "idle" /\ ceiling \in ceilings /\ offer = NoOffer
    /\ presents = 0 /\ payments = {} /\ resume = 0
    /\ lastError = "none" /\ urlCalls = 0

\* fetchUrl, fresh: no handle is at hand.
FetchUrl ==
    /\ buyerAt = "idle" /\ resume = 0 /\ urlCalls < MaxFetchUrls
    /\ buyerAt' = "fetching" /\ urlCalls' = urlCalls + 1
    /\ UNCHANGED <<ceiling, offer, presents, payments, resume, lastError>>

\* fetchUrl with { resume }: the payment is presented again, none is made.
FetchResuming ==
    /\ buyerAt = "idle" /\ resume # 0 /\ urlCalls < MaxFetchUrls
    /\ buyerAt' = "presenting" /\ presents' = 0 /\ urlCalls' = urlCalls + 1
    /\ UNCHANGED <<ceiling, offer, payments, resume, lastError>>

\* checkOffer, parseCeiling: a tick without a ceiling is refused.
OfferOk(o) == o.amount > 0 /\ o.tick \in DOMAIN ceiling /\ o.amount <= ceiling[o.tick]

\* A 402 with an offer: it is paid, or refused.
Challenged(o) ==
    /\ buyerAt = "fetching"
    /\ IF OfferOk(o) THEN buyerAt' = "paying" /\ offer' = o /\ UNCHANGED lastError
       ELSE buyerAt' = "idle" /\ lastError' = "refused" /\ UNCHANGED offer
    /\ UNCHANGED <<ceiling, presents, payments, resume, urlCalls>>

\* session.send: broadcast, or refused before it.
SendEnds(broadcast, throws) ==
    /\ buyerAt = "paying" /\ (broadcast \/ throws)
    /\ payments' = IF broadcast THEN payments \cup {[n |-> urlCalls, tick |-> offer.tick, amount |-> offer.amount]}
                   ELSE payments
    /\ buyerAt' = IF throws THEN "idle" ELSE "presenting"
    /\ presents' = 0
    /\ lastError' = IF ~throws THEN lastError ELSE IF broadcast THEN "ambiguous" ELSE "refused"
    /\ resume' = IF broadcast /\ throws THEN urlCalls ELSE resume
    /\ UNCHANGED <<ceiling, offer, urlCalls>>

\* presentPayment: still 402, or served.
PresentedUnseen ==
    /\ buyerAt = "presenting"
    /\ presents' = presents + 1
    /\ IF presents + 1 < MaxPresents THEN UNCHANGED <<buyerAt, lastError, resume>>
       ELSE buyerAt' = "idle" /\ lastError' = "ambiguous" /\ resume' = (IF resume # 0 THEN resume ELSE urlCalls)
    /\ UNCHANGED <<ceiling, offer, payments, urlCalls>>

ServedPaid ==
    /\ buyerAt \in {"fetching", "presenting"}
    /\ buyerAt' = "served"
    /\ UNCHANGED <<ceiling, offer, presents, payments, resume, lastError, urlCalls>>

\* fetch rejects: nothing catches it, before or after the payment.
FetchRejects ==
    /\ buyerAt \in {"fetching", "presenting"}
    /\ buyerAt' = "idle" /\ lastError' = "network"
    /\ UNCHANGED <<ceiling, offer, presents, payments, resume, urlCalls>>

BuyerNext ==
    \/ FetchUrl \/ FetchResuming
    \/ \E o \in Offers : Challenged(o)
    \/ \E b, t \in BOOLEAN : SendEnds(b, t)
    \/ PresentedUnseen \/ ServedPaid \/ FetchRejects

-----------------------------------------------------------------------------
\* "one typed, txid-carrying signal for every post-broadcast ambiguity"
\* (client.js): a caller who resumes whenever the error says so pays once.
PaidOnce == Cardinality(payments) <= 1
=============================================================================
