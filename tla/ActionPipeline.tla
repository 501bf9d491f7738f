---------------------------- MODULE ActionPipeline ----------------------------
(***************************************************************************)
(* A caller composes an action (actions/index.js): it fills in a request,  *)
(* flat fields and legs, with or without a pinned version, and calls       *)
(* createAction, which normalises the fields, completes the coins of a     *)
(* market action, validates, chooses a format and serialises.  The string  *)
(* is what the network's decoder and the co-signer's read.                 *)
(*                                                                         *)
(* The caller starts from a request of Requests and changes it, one field  *)
(* at a time, at most MaxEdits times.                                      *)
(***************************************************************************)
EXTENDS ActionValidator

CONSTANTS
    Requests,       \* [action, pinned, fields, legs] to start from
    FieldWords,     \* field name -> the words a caller may put there
    Networks,       \* [coin, networked, canonical, segwit] the SDK may be configured with
    Encodings,      \* encoder.encoding: "none", "AUTO", a carrier, or "MULTISIGN_UNKEYED",
                    \* MULTISIGN without the compressed public key
    MAX_REST_PARAMS,\* values a rest slot may carry past the co-signer
    MaxEdits

VARIABLES
    request,        \* [action, pinned, net, encoding]
    fields,         \* data.params
    legs,           \* data.params.legs
    edits,
    sent            \* what createAction gave: NotSent, or [version, fields, legs, wire]

pipeVars == <<request, fields, legs, edits, sent>>

NotSent == [version |-> Refused, fields |-> <<>>, legs |-> <<>>, wire |-> <<>>]

LEGACY_CARRIERS == {"OP_RETURN", "P2SH", "P2WSH", "MULTISIGN"}

MAX_ACTION_DATA_LENGTH == 8192
ENVELOPE_MAX_PAYLOAD == 390000

NUMBER_FIELDS ==
    {"ALLOW_LIST", "AMOUNT", "BALANCES", "BLOCK_LIST", "BROADCAST_ACTION_INDEX", "CALLBACK_AMOUNT",
     "CALLBACK_BLOCK", "COIN1_ACTION_INDEX", "CONTRACT_ACTION_INDEX", "CONTROLLER",
     "COIN2_ACTION_INDEX", "COOLDOWN_BLOCKS", "DECIMALS", "DEPOSIT", "DISPENSER_ACTION_INDEX",
     "EDIT", "ENCRYPTION_METHOD", "EXPIRATION", "FEE", "GET_AMOUNT", "GAS_ESCROW", "GAS_LIMIT",
     "GIVE_AMOUNT", "GIVE_ESCROW", "LIST_ACTION_INDEX", "MAX_SUPPLY", "MAX_MINT", "MIN_AMOUNT",
     "MINT_ADDRESS_MAX", "MINT_START_BLOCK", "MINT_STOP_BLOCK", "MINT_SUPPLY",
     "ORDER_ACTION_INDEX", "OWNERSHIPS", "QUANTITY", "RESUME_BLOCK", "SWAP_ACTION_INDEX", "TIER",
     "TRANSFER_SUPPLY", "TYPE", "UNBIND", "VALUE"}

-----------------------------------------------------------------------------
(* Normalisation.                                                          *)

\* setNumberFormats: a numeric word of a number field in fixed notation
FixedNotation(w) == CASE w = " 1" -> "1" [] w = "1e3" -> "1000" [] OTHER -> w

SetNumberFormats(m) ==
    [f \in DOMAIN m |-> IF f \in NUMBER_FIELDS THEN [i \in DOMAIN m[f] |-> FixedNotation(m[f][i])]
                        ELSE m[f]]

MarketIndexField ==
    [ORDER |-> "ORDER_ACTION_INDEX", SWAP |-> "SWAP_ACTION_INDEX", DISPENSER |-> "DISPENSER_ACTION_INDEX"]

\* fillSide: the network's coin where none is given, no tick that only repeats the coin
FillSide(a, m, coinKey, tickKey, coin) ==
    LET filled == IF ~Has(m, coinKey) /\ coin # "none" THEN coinKey :> <<coin>> @@ m ELSE m
        repeats == /\ Has(filled, tickKey) /\ Val(filled, tickKey) = Val(filled, coinKey)
                   /\ ~(a = "DISPENSER" /\ tickKey = "GIVE_TICK")
    IN IF repeats THEN [f \in DOMAIN filled \ {tickKey} |-> filled[f]] ELSE filled

FillMarketCoinFields(a, m, pinned, coin) ==
    IF a \notin DOMAIN MarketIndexField THEN m
    ELSE IF Has(m, MarketIndexField[a]) \/ pinned \notin {NoVersion, 0} THEN m
    ELSE FillSide(a, FillSide(a, m, "GIVE_COIN", "GIVE_TICK", coin), "GET_COIN", "GET_TICK", coin)

NormalizeLegs(ls) == [i \in DOMAIN ls |-> SetNumberFormats(ls[i])]

Normalized(r, m) == FillMarketCoinFields(r.action, SetNumberFormats(m), r.pinned, r.net.coin)

-----------------------------------------------------------------------------
(* The carrier the encoder will use, and what it holds.                    *)

ComposeCarrier(r) ==
    CASE r.encoding \notin {"none", "AUTO"} -> r.encoding
      [] ~r.net.segwit -> "P2SH"
      [] r.encoding = "AUTO" -> "P2WSH"
      [] OTHER -> "envelope"

\* compiledPushSize: the words, a separator after each but the last, the push's own byte
WireLength(wire) == FoldSeq(LAMBDA w, n : n + WordLength(w) + 1, 0, wire)

FitsCarrier(wire, carrier) ==
    WireLength(wire) <= IF carrier \in LEGACY_CARRIERS THEN MAX_ACTION_DATA_LENGTH
                        ELSE ENVELOPE_MAX_PAYLOAD

\* A stakeable DEPLOY packs its constructor parameters into one slot
PacksTooMany(a, v, m) ==
    a = "DEPLOY" /\ "CONSTRUCTOR_PARAMS" \in Range(Formats[a][v]) /\ Len(Val(m, "CONSTRUCTOR_PARAMS")) > 1

SelectFormat(r, m, ls) ==
    IF r.pinned = NoVersion THEN AutoSelect(r.action, m, ls) ELSE SelectPinned(r.action, m, r.pinned)

\* What fits no carrier, or could not be serialised, is refused
Carried(r, s) == IF s.wire = <<>> \/ ~FitsCarrier(s.wire, ComposeCarrier(r)) THEN NotSent ELSE s

ComposedAs(r, v, m, ls) ==
    IF v = Refused \/ PacksTooMany(r.action, v, m) THEN NotSent
    ELSE Carried(r, [version |-> v, fields |-> m, legs |-> ls, wire |-> Serialize(r.action, v, m, ls)])

ComposeNormalized(r, m, ls) ==
    IF Validate(r.action, m, r.pinned, ls, r.net) # {} THEN NotSent
    ELSE ComposedAs(r, SelectFormat(r, m, ls), m, ls)

\* composeActionString
Composed(r, flat, rawLegs) == ComposeNormalized(r, Normalized(r, flat), NormalizeLegs(rawLegs))

-----------------------------------------------------------------------------
PipeInit(requests, networks, encodings) ==
    \E q \in requests, net \in networks, encoding \in encodings :
        /\ request = [action |-> q.action, pinned |-> q.pinned, net |-> net, encoding |-> encoding]
        /\ fields = q.fields
        /\ legs = q.legs
        /\ edits = 0
        /\ sent = NotSent

ActionFields(a) == UNION {Slots(format) : format \in Range(Formats[a])}

Edit(newFields, newLegs) ==
    /\ edits < MaxEdits
    /\ sent = NotSent
    /\ fields' = newFields
    /\ legs' = newLegs
    /\ edits' = edits + 1
    /\ UNCHANGED <<request, sent>>

SetField ==
    \E f \in ActionFields(request.action) :
        \/ \E w \in FieldWords[f] : Edit(f :> <<w>> @@ fields, legs)
        \/ /\ f \in RestBases
           /\ \E w \in FieldWords[f], x \in FieldWords[f] : Edit(f :> <<w, x>> @@ fields, legs)

DropField == \E f \in DOMAIN fields : Edit([g \in DOMAIN fields \ {f} |-> fields[g]], legs)

SetLegField ==
    \E i \in DOMAIN legs, f \in ActionFields(request.action) \ RestBases :
        \E w \in FieldWords[f] : Edit(fields, [legs EXCEPT ![i] = f :> <<w>> @@ @])

AddLeg == legs # <<>> /\ Edit(fields, Append(legs, legs[1]))

\* validateEncoding: OP_RETURN holds 80 bytes, 4 of them a magic word; MULTISIGN needs the
\* compressed key
ValidateEncoding(r, wire) ==
    /\ r.encoding = "OP_RETURN" => WireLength(wire) + 4 <= 80
    /\ r.encoding # "MULTISIGN_UNKEYED"

CreatedFrom(r, s) == IF s = NotSent \/ ~ValidateEncoding(r, s.wire) THEN NotSent ELSE s

\* createAction; a refused request stays with the caller
CreateAction ==
    /\ sent = NotSent
    /\ sent' = CreatedFrom(request, Composed(request, fields, legs))
    /\ sent' # NotSent
    /\ UNCHANGED <<request, fields, legs, edits>>

PipeNext == SetField \/ DropField \/ SetLegField \/ AddLeg \/ CreateAction

-----------------------------------------------------------------------------
(* What a reader of the wire may rely on.                                  *)

TrimValue(value) ==
    LET trimmed == [i \in DOMAIN value |-> Trim(value[i])]
        last == Max({0} \cup {i \in DOMAIN trimmed : trimmed[i] # ""})
    IN SubSeq(trimmed, 1, last)

SameValue(x, y) == TrimValue(x) = TrimValue(y)

\* The flat fields of a request whose single leg is folded into them
FoldedFields(s) == IF Len(s.legs) = 1 THEN Merge(s.fields, s.legs[1]) ELSE s.fields

\* The wire says what the request said: every field and every leg, in its place
SaysTheSame(a, s, decoded) ==
    LET folded == FoldedFields(s)
        Told(f) == f \in DOMAIN decoded.params /\ SameValue(decoded.params[f], folded[f])
    IN IF ~IsRepeatedFormat(Layouts[a][s.version]) THEN \A f \in PopulatedFields(folded) : Told(f)
       ELSE /\ Len(decoded.legs) = Len(s.legs)
            /\ \A i \in DOMAIN s.legs : LET said == Merge(s.fields, s.legs[i]) IN
                   \A f \in PopulatedFields(said) :
                       LET read == Merge(decoded.params, decoded.legs[i])
                       IN f \in DOMAIN read /\ SameValue(read[f], said[f])

\* A format pinned for a single leg whose slots do not hold what the leg carries
PinnedTooSmall ==
    /\ request.pinned # NoVersion
    /\ \E i \in DOMAIN sent.legs : ~(PopulatedFields(sent.legs[i]) \subseteq Slots(Formats[request.action][sent.version]))

ReadsBack(decoded) ==
    /\ decoded.ok
    /\ decoded.action = request.action /\ decoded.version = sent.version
    /\ SaysTheSame(request.action, sent, decoded)

\* The decoder reads from the composed string (format_selector.js:101 "No data loss") the
\* action, the version, and every field and leg the caller gave, trimmed of padding: no field
\* is dropped, moved to another slot or split by a delimiter it contains.
WireKeepsTheFields ==
    (sent # NotSent /\ ~PinnedTooSmall) =>
        ReadsBack(ParseAction(sent.wire))

\* The same with the pinned version included, as format_selector.js:101 promises for it:
\* a field the pinned version has no slot for is a refusal and never a silent loss.
PinnedLosesNothing ==
    sent # NotSent => SaysTheSame(request.action, sent, ParseAction(sent.wire))

ValidatesBack(decoded) == decoded.ok => Findings(RunValidation(decoded)) = {}

\* What the validator let through the decoder's own validation accepts: the string reads
\* back with no finding, though the decoder applies the rules of the version it read and the
\* composer those of the version it guessed.
DecoderAgrees ==
    sent # NotSent => ValidatesBack(ParseAction(sent.wire))

-----------------------------------------------------------------------------
(* The co-signer's own reader of an action string                          *)
(* (cosigner/psbt_action_decode.js and cosigner/policy/param_charset.js):  *)
(* it judges a transaction by what this reader finds in it, so it reads    *)
(* only the canonical spelling of actions that move one amount, and        *)
(* refuses everything else.  The agent that asks for the signature wrote   *)
(* the string: what createAction composed, or another spelling of it.      *)

ValueFields == {"TICK", "AMOUNT", "DESTINATION"}

\* The formats whose rest slot carries no value: <<action, version>>
BOUNDED_REST_FORMATS == {<<"EXECUTE", 0>>, <<"LIST", 4>>}

-----------------------------------------------------------------------------
(* policy/param_charset.js: the names that may become keys of a policy.    *)

IsTickRef(w) == CaretNumeric(w)

IsCanonicalTick(w) ==
    IsTickRef(w) \/ (Length(w) <= 250 /\ TickCharsOK(w) /\ w \notin {"fffd", "x."})

IsTickField(f) == f \in TickFields

ValidateDecodedParams(params) ==
    \A f \in DOMAIN params : IsTickField(f) => Word(params[f]) = "" \/ IsCanonicalTick(Word(params[f]))

-----------------------------------------------------------------------------
\* parseVersion: one or two plain digits
ParseVersion(w) == IF w \in VersionWords THEN FormatVersion(w) ELSE Refused

Occurrences(format, f) == Cardinality({i \in DOMAIN format : format[i] = f})

\* The shape judged by the rest slot alone
ShapeByRestAlone(a, v, layout) ==
    Range(layout.slots) \cap RestFields # {} => <<a, v>> \in BOUNDED_REST_FORMATS

\* validateActionShape: no unbounded rest slot, no value slot twice, no repeated group
ValidateActionShape(a, v, layout) ==
    /\ Range(layout.slots) \cap RestFields # {} => <<a, v>> \in BOUNDED_REST_FORMATS
    /\ \A f \in ValueFields : Occurrences(layout.slots, f) <= 1
    /\ ~IsRepeatedFormat(layout)

RestFits(params) == \A f \in DOMAIN params \cap RestBases : Len(params[f]) <= MAX_REST_PARAMS

Judged(decoded) ==
    IF RestFits(decoded.params) /\ ValidateDecodedParams(decoded.params) THEN decoded ELSE NoDecode

\* mapFields under strictWire: a surplus segment of a fixed format is a refusal
SurplusSegments(layout, values) ==
    Len(values) > Len(layout.slots) /\ Range(layout.slots) \cap RestFields = {}

\* parseActionParams: nothing trimmed, no version restored, no BATCH
ParseActionParams(a, v, layout, values) ==
    IF a = "BATCH" \/ SurplusSegments(layout, values) THEN NoDecode
    ELSE Judged(ParseMapped(a, v, MapFields(layout, values)))

JudgeFormat(a, v, values) ==
    IF a \notin Actions THEN NoDecode
    ELSE IF v \notin DOMAIN Layouts[a] THEN NoDecode
    ELSE IF ~ValidateActionShape(a, v, Layouts[a][v]) THEN NoDecode
    ELSE ParseActionParams(a, v, Layouts[a][v], values)

\* judgeActionString, behind the size gates of the extraction and of the parse
JudgeActionString(wire) ==
    IF Len(wire) < 2 \/ WireLength(wire) > MAX_ACTION_DATA_LENGTH THEN NoDecode
    ELSE JudgeFormat(ExpandAlias(wire[1]), ParseVersion(wire[2]), SubSeq(wire, 3, Len(wire)))

-----------------------------------------------------------------------------
(* What the agent may write in place of the composed string.               *)

Pad(w) == CASE w = "x" -> " x" [] w = "1" -> " 1" [] OTHER -> w

Spellings(wire) ==
    {wire,
     Append(wire, "x"), Append(wire, ""),                           \* a segment more
     <<wire[1]>> \o SubSeq(wire, 3, Len(wire)),                     \* the version left out
     <<"BATCH", "0">> \o wire}
    \cup {[wire EXCEPT ![i] = Pad(@)] : i \in DOMAIN wire}
    \cup {[wire EXCEPT ![1] = alias] : alias \in {x \in DOMAIN Aliases : Aliases[x] = wire[1]}}

ReadAlike(signer, chain) ==
    signer.ok =>
        /\ chain.ok /\ chain.legs = <<>>
        /\ signer.action = chain.action /\ signer.version = chain.version
        /\ \A f \in DOMAIN chain.params : SameValue(signer.params[f], chain.params[f])

\* A format of one amount and no open end
IsPlainFormat(layout) == ~IsRepeatedFormat(layout) /\ Range(layout.slots) \cap RestFields = {}

\* Whatever the spelling, the co-signer either refuses or judges the very action the
\* network's decoder reads, with one leg at most (psbt_action_decode.js:35 "a silent
\* misparse is the only unacceptable outcome"); and it does read what the SDK itself composed
\* in a plain format, though it re-checks names by a rule of its own.
SignerAndChainAgree ==
    sent # NotSent =>
        /\ \A w \in Spellings(sent.wire) : ReadAlike(JudgeActionString(w), ParseAction(w))
        /\ (/\ IsPlainFormat(Layouts[request.action][sent.version])
            /\ WireLength(sent.wire) <= MAX_ACTION_DATA_LENGTH) => JudgeActionString(sent.wire).ok
=============================================================================
