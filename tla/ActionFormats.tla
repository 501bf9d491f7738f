---------------------------- MODULE ActionFormats ----------------------------
(***************************************************************************)
(* The wire form of an XChain action: the format table                     *)
(* (protocol/formats.js), the choice of a format version and the           *)
(* serialisation (protocol/format_selector.js and its parts), and the      *)
(* decoder that reads the string back (decoder/parse.js,                   *)
(* decoder/parse/field_mapping.js).                                        *)
(*                                                                         *)
(* A field value is a sequence of words: <<>> for an absent field, one     *)
(* word for a scalar, several for an array (the three fields a format can  *)
(* spread over its last segments).  A word is one of a small alphabet      *)
(* whose members differ in what the code looks at: whether they hold a     *)
(* delimiter, whether they are padded, whether UTF-8 can carry them, and   *)
(* how long they are.  A wire is the sequence of its |-separated segments, *)
(* the action name first.                                                  *)
(***************************************************************************)
EXTENDS Integers, Sequences, FiniteSets, FiniteSetsExt, SequencesExt, Folds, TLC

-----------------------------------------------------------------------------
(* The format table.  Every format of the source opens with VERSION; the   *)
(* rows below list the slots after it.                                     *)

FormatsToLink ==
    [ADDRESS |-> 
           0 :> <<"FEE_PREFERENCE", "REQUIRE_MEMO", "DISPENSER_PREFERENCE", "MEMO">>
        @@ 1 :> <<"CONTROLLER", "ACTION_CLASS", "COOLDOWN_BLOCKS", "UNBIND", "MEMO">>,
     AIRDROP |-> 
           0 :> <<"TICK", "AMOUNT", "LIST_ACTION_INDEX", "MEMO">>
        @@ 1 :> <<"LIST_ACTION_INDEX", "TICK", "AMOUNT", "TICK", "AMOUNT", "MEMO">>
        @@ 2 :> <<"TICK", "AMOUNT", "LIST_ACTION_INDEX", "TICK", "AMOUNT", "LIST_ACTION_INDEX",
                "MEMO">>
        @@ 3 :> <<"TICK", "AMOUNT", "LIST_ACTION_INDEX", "MEMO", "TICK", "AMOUNT",
                "LIST_ACTION_INDEX", "MEMO">>,
     BATCH |-> 0 :> <<"COMMAND">>,
     BET |-> 
           0 :> <<"LABEL", "OUTCOMES", "TICK", "FEE", "DEADLINE", "REFUND_WINDOW", "MIN_AMOUNT",
                "ALLOW_LIST", "BLOCK_LIST", "DETAILS", "MEMO">>
        @@ 1 :> <<"FEED_ACTION_INDEX", "MEMO">>
        @@ 2 :> <<"FEED_ACTION_INDEX", "OUTCOME", "AMOUNT", "MEMO">>
        @@ 3 :> <<"FEED_ACTION_INDEX", "OUTCOME", "MEMO">>
        @@ 4 :> <<"FEED_ACTION_INDEX", "ALLOW_LIST", "BLOCK_LIST", "MEMO">>,
     BROADCAST |-> 
           0 :> <<"MESSAGE", "VALUE">>
        @@ 1 :> <<"MESSAGE", "VALUE", "FEE", "MEMO">>
        @@ 2 :> <<"MESSAGE", "FEE", "MEMO">>
        @@ 3 :> <<"BROADCAST_ACTION_INDEX", "VALUE", "MEMO">>,
     COLLECT |-> 0 :> <<"AMOUNT">>,
     COINPAY |-> 0 :> <<"ORDER_MATCH_ACTION_INDEX">>,
     CALLBACK |-> 0 :> <<"TICK", "MEMO">>,
     DELEGATE |-> 
           0 :> <<"NEW_SIGNING_PUBKEY">>
        @@ 1 :> <<"NEW_SIGNING_PUBKEY", "TARGET_CONTRACT_INDEX", "TICK">>
        @@ 2 :> <<"SIGNING_PUBKEY">>
        @@ 3 :> <<"SIGNING_PUBKEY", "TARGET_CONTRACT_INDEX", "TICK">>,
     DEPLOY |-> 
           0 :> <<"CODE_ENCODING", "GAS_LIMIT", "...CONSTRUCTOR_PARAMS">>
        @@ 1 :> <<"CODE_ENCODING", "GAS_LIMIT", "CONSTRUCTOR_PARAMS", "COOLDOWN_BLOCKS",
                "SLASH_DESTINATION">>
        @@ 2 :> <<"CODE_HASH", "GAS_LIMIT", "...CONSTRUCTOR_PARAMS">>
        @@ 3 :> <<"CODE_HASH", "GAS_LIMIT", "CONSTRUCTOR_PARAMS", "COOLDOWN_BLOCKS",
                "SLASH_DESTINATION">>
        @@ 4 :> <<"CODE_HASH", "CHUNK_INDEX", "TOTAL_CHUNKS", "CODE_PART">>,
     DEPOSIT |-> 0 :> <<"CONTRACT_ACTION_INDEX", "TICK", "QUANTITY">>,
     DESTROY |-> 
           0 :> <<"TICK", "AMOUNT", "MEMO">>
        @@ 1 :> <<"TICK", "AMOUNT", "TICK", "AMOUNT", "MEMO">>
        @@ 2 :> <<"TICK", "AMOUNT", "MEMO", "TICK", "AMOUNT", "MEMO">>,
     DISPENSER |-> 
           0 :> <<"GIVE_COIN", "GIVE_TICK", "GIVE_AMOUNT", "GIVE_OWNERSHIP", "GIVE_ESCROW",
                "GET_COIN", "GET_TICK", "GET_AMOUNT", "GET_ADDRESS", "FIAT_CODE", "FIAT_AMOUNT",
                "ORACLE_ADDRESS", "EXPIRATION", "ALLOW_LIST", "BLOCK_LIST", "MEMO">>
        @@ 1 :> <<"DISPENSER_ACTION_INDEX", "MEMO">>
        @@ 2 :> <<"DISPENSER_ACTION_INDEX", "GIVE_ESCROW", "EXPIRATION", "ALLOW_LIST",
                "BLOCK_LIST", "MEMO">>,
     DIVIDEND |-> 0 :> <<"TICK", "DIVIDEND_TICK", "AMOUNT", "MEMO">>,
     EXECUTE |-> 0 :> <<"CONTRACT_ACTION_INDEX", "METHOD", "...PARAMS">>,
     FILE |-> 
         0 :> <<"NAME", "TYPE", "TITLE", "MEMO", "GATE_TICKER", "ENCRYPTION_METHOD", "KEY_HASH",
                "GATE_MIN_AMOUNT", "COMPRESSION">>,
     ISSUE |-> 
           0 :> <<"TICK", "MAX_SUPPLY", "MAX_MINT", "DECIMALS", "DESCRIPTION", "MINT_SUPPLY",
                "TRANSFER", "TRANSFER_SUPPLY", "LOCK_MAX_SUPPLY", "LOCK_MAX_MINT",
                "LOCK_DESCRIPTION", "LOCK_SLEEP", "LOCK_CALLBACK", "CALLBACK_BLOCK",
                "CALLBACK_TICK", "CALLBACK_AMOUNT", "ALLOW_LIST", "BLOCK_LIST",
                "MINT_ADDRESS_MAX", "MINT_START_BLOCK", "MINT_STOP_BLOCK", "LOCK_MINT",
                "LOCK_MINT_SUPPLY", "MEMO">>
        @@ 1 :> <<"TICK", "DESCRIPTION", "MEMO">>
        @@ 2 :> <<"TICK", "MAX_MINT", "MINT_SUPPLY", "TRANSFER_SUPPLY", "MINT_ADDRESS_MAX",
                "MINT_START_BLOCK", "MINT_STOP_BLOCK", "MEMO">>
        @@ 3 :> <<"TICK", "LOCK_MAX_SUPPLY", "LOCK_MAX_MINT", "LOCK_DESCRIPTION", "LOCK_SLEEP",
                "LOCK_CALLBACK", "LOCK_MINT", "LOCK_MINT_SUPPLY", "MEMO">>
        @@ 4 :> <<"TICK", "CALLBACK_BLOCK", "CALLBACK_TICK", "CALLBACK_AMOUNT", "MEMO">>
        @@ 5 :> <<"TICK", "ALLOW_LIST", "BLOCK_LIST", "MEMO">>
        @@ 6 :> <<"TICK", "CONTROLLER", "ACTION_CLASS", "COOLDOWN_BLOCKS", "UNBIND", "MEMO">>
        @@ 7 :> <<"TICK", "BRIDGE_CHAINS", "MIN_DEPTH", "LOCK_BRIDGE", "MEMO">>,
     LINK |-> 0 :> <<"COIN1", "COIN1_ACTION_INDEX", "COIN2", "COIN2_ACTION_INDEX", "MEMO">>]

FormatsFromList ==
    [LIST |-> 
           0 :> <<"TYPE", "MEMO", "...ITEM">>
        @@ 1 :> <<"EDIT", "LIST_ACTION_INDEX", "MEMO", "...ITEM">>
        @@ 2 :> <<"LIST_ACTION_INDEX", "MEMO">>
        @@ 3 :> <<"LIST_ACTION_INDEX", "DESTINATION", "MEMO">>
        @@ 4 :> <<"TYPE", "NAME", "DESCRIPTION", "MEMO", "...ITEM">>
        @@ 5 :> <<"LIST_ACTION_INDEX", "NAME", "DESCRIPTION", "MEMO">>,
     MESSAGE |-> 
           0 :> <<"COIN", "DESTINATION", "ENCRYPTION_METHOD", "ENCRYPTION_KEY">>
        @@ 1 :> <<"COIN", "DESTINATION", "ENCRYPTION_METHOD", "ENCRYPTION_KEY">>
        @@ 2 :> <<"COIN", "DESTINATION", "ENCRYPTED_MESSAGE">>
        @@ 3 :> <<"COIN", "DESTINATION", "PLAINTEXT_MESSAGE">>,
     MINT |-> 0 :> <<"TICK", "AMOUNT", "DESTINATION", "MEMO">>,
     ORDER |-> 
           0 :> <<"GIVE_COIN", "GIVE_TICK", "GIVE_AMOUNT", "GIVE_OWNERSHIP", "GET_COIN",
                "GET_TICK", "GET_AMOUNT", "GET_OWNERSHIP", "GET_ADDRESS", "EXPIRATION",
                "ALLOW_LIST", "BLOCK_LIST", "MEMO">>
        @@ 1 :> <<"ORDER_ACTION_INDEX", "MEMO">>
        @@ 2 :> <<"ORDER_ACTION_INDEX", "EXPIRATION", "ALLOW_LIST", "BLOCK_LIST", "MEMO">>,
     PRICE |-> 1 :> <<"COIN", "TICK", "FIAT", "VALUE", "FEE", "MEMO">>,
     SEND |-> 
           0 :> <<"TICK", "AMOUNT", "DESTINATION", "MEMO">>
        @@ 1 :> <<"TICK", "AMOUNT", "DESTINATION", "AMOUNT", "DESTINATION", "MEMO">>
        @@ 2 :> <<"TICK", "AMOUNT", "DESTINATION", "TICK", "AMOUNT", "DESTINATION", "MEMO">>
        @@ 3 :> <<"TICK", "AMOUNT", "DESTINATION", "MEMO", "TICK", "AMOUNT", "DESTINATION", "MEMO">>,
     SLEEP |-> 
           0 :> <<"RESUME_BLOCK", "MEMO">>
        @@ 1 :> <<"RESUME_BLOCK", "TICK", "MEMO">>,
     STAKE |-> 
           1 :> <<"AMOUNT", "SIGNING_PUBKEY">>
        @@ 2 :> <<"AMOUNT", "SIGNING_PUBKEY">>
        @@ 3 :> <<"AMOUNT", "SIGNING_PUBKEY", "TARGET_CONTRACT_INDEX", "TICK">>,
     SWAP |-> 
           0 :> <<"GIVE_COIN", "GIVE_TICK", "GIVE_AMOUNT", "GIVE_OWNERSHIP", "GET_COIN",
                "GET_TICK", "GET_AMOUNT", "GET_OWNERSHIP", "GET_ADDRESS", "EXPIRATION",
                "ALLOW_LIST", "BLOCK_LIST", "MEMO">>
        @@ 1 :> <<"SWAP_ACTION_INDEX", "MEMO">>
        @@ 2 :> <<"SWAP_ACTION_INDEX", "EXPIRATION", "ALLOW_LIST", "BLOCK_LIST", "MEMO">>,
     SWEEP |-> 
         0 :> <<"DESTINATION", "BALANCES", "OWNERSHIPS", "ORDERS", "SWAPS", "DISPENSERS", "MEMO">>,
     UNSTAKE |-> 
           0 :> <<"SIGNING_PUBKEY", "AMOUNT">>
        @@ 1 :> <<"SIGNING_PUBKEY", "TARGET_CONTRACT_INDEX", "TICK", "AMOUNT">>,
     WITHDRAW |-> 0 :> <<"CONTRACT_ACTION_INDEX", "TICK", "QUANTITY">>,
     XBRIDGE |-> 
           0 :> <<"DEST_COIN", "DEST_ADDRESS", "AMOUNT", "MEMO">>
        @@ 1 :> <<"BTC_ADDRESS", "AMOUNT", "MEMO">>
        @@ 3 :> <<"TICK", "DEST_COIN", "DEST_ADDRESS", "AMOUNT", "MEMO">>
        @@ 4 :> <<"TICK", "ORIGIN_ADDRESS", "AMOUNT", "MEMO">>,
     VOTE |-> 
           0 :> <<"TICK", "END_BLOCK", "OPTIONS", "MAX_SELECTIONS", "TALLY_MODE", "WEIGHT_MODE",
                "QUORUM", "MIN_VOTERS", "MIN_VOTE_BALANCE", "DECIDE_THRESHOLD", "QUESTION",
                "DEPOSIT", "CALLBACK_CONTRACT", "CALLBACK_METHOD", "CALLBACK_PARAMS",
                "CALLBACK_ON", "GAS_ESCROW", "CALLBACK_DELAY_BLOCKS">>
        @@ 1 :> <<"POLL_REF", "BALLOT", "MEMO">>
        @@ 3 :> <<"TICK", "DELEGATE_TO", "MEMO">>]

Formats == FormatsToLink @@ FormatsFromList

Actions == DOMAIN Formats

LIST_PIN_ONLY == 2..5

RestFields == {"...CONSTRUCTOR_PARAMS", "...PARAMS", "...ITEM"}

BaseFieldName(slot) ==
    CASE slot = "...CONSTRUCTOR_PARAMS" -> "CONSTRUCTOR_PARAMS"
      [] slot = "...PARAMS" -> "PARAMS"
      [] slot = "...ITEM" -> "ITEM"
      [] OTHER -> slot

RestBases == {BaseFieldName(s) : s \in RestFields}

Slots(format) == {BaseFieldName(s) : s \in Range(format)}

-----------------------------------------------------------------------------
(* Words.                                                                  *)

PipedWord == "x|y"          \* holds the field separator
SemiWord == "x;y"           \* holds the command separator of a BATCH
LoneWord == "lone"          \* an unpaired surrogate: UTF-8 writes U+FFFD
LongWord == "long"          \* longer than every text limit
BigWord == "big"            \* longer than a legacy carrier holds
GiantWord == "giant"        \* longer than an envelope holds

\* String(value) joined with | and split again by the reader
Segments(w) == IF w = PipedWord THEN <<"x", "y">> ELSE <<w>>

\* What a reader of the UTF-8 bytes sees
Bytes(w) == IF w = LoneWord THEN "fffd" ELSE w

\* trimSegments: seg.trim()
Trim(w) == CASE w = " x" -> "x" [] w = " 1" -> "1" [] OTHER -> w

WordLength(w) ==
    CASE w = "" -> 0
      [] w = LongWord -> 300
      [] w = BigWord -> 10000
      [] w = GiantWord -> 2000000
      [] w \in {"0", "1", "2", "3", "x", "-"} -> 1
      [] OTHER -> 4

-----------------------------------------------------------------------------
(* Fields: a partial function from names to sequences of words.            *)

Val(fields, f) == IF f \in DOMAIN fields THEN fields[f] ELSE <<>>

\* '' and an absent value are empty; an array is not, whatever it holds
IsEmpty(f, value) == f \notin RestBases /\ value \in {<<>>, <<"">>}

Has(fields, f) == f \in DOMAIN fields /\ ~IsEmpty(f, fields[f])

PopulatedFields(fields) == {f \in DOMAIN fields : Has(fields, f)}

Merge(fields, leg) == leg @@ fields

-----------------------------------------------------------------------------
(* The repeated group of a format: the largest block of slots that occurs  *)
(* twice in a row, leftmost first.  NoGroup when there is none.            *)

NoGroup == [prefix |-> <<>>, group |-> <<>>, suffix |-> <<>>]

GetRepeatedGroup(s) ==
    LET n == Len(s)
        Repeats(size, start) ==
            /\ start + 2 * size - 1 <= n
            /\ \A i \in start..(start + size - 1) : s[i] \notin RestFields /\ s[i] = s[i + size]
        sizes == {size \in 1..(n \div 2) : \E start \in 1..n : Repeats(size, start)}
    IN IF sizes = {} THEN NoGroup
       ELSE LET size == CHOOSE k \in sizes : \A m \in sizes : k >= m
                start == CHOOSE i \in 1..n :
                             Repeats(size, i) /\ \A j \in 1..(i - 1) : ~Repeats(size, j)
            IN [prefix |-> SubSeq(s, 1, start - 1),
                group |-> SubSeq(s, start, start + size - 1),
                suffix |-> SubSeq(s, start + 2 * size, n)]

Layout(format) == [slots |-> format, names |-> Slots(format)] @@ GetRepeatedGroup(format)

\* getRepeatedGroup is cached per format
Layouts == [a \in Actions |-> <<>> @@ [v \in DOMAIN Formats[a] |-> Layout(Formats[a][v])]]

IsRepeatedFormat(layout) == layout.group # <<>>

\* Can this version carry these legs without losing data
LegsFit(layout, legs) ==
    LET legFields == UNION {PopulatedFields(legs[i]) : i \in DOMAIN legs}
    IN /\ legFields \subseteq layout.names
       /\ IF ~IsRepeatedFormat(layout)
          THEN Len(legs) = 1
          ELSE \A f \in legFields \ Range(layout.group) :
                   Cardinality({legs[i][f] : i \in {j \in DOMAIN legs : Has(legs[j], f)}}) <= 1

\* The one value of a shared slot, and whether the legs agree on it
SharedValues(f, fields, legs) ==
    {m[f] : m \in {x \in {fields} \cup Range(legs) : Has(x, f)}}

LegFieldValue(f, leg, fields) == IF Val(leg, f) # <<>> THEN leg[f] ELSE Val(fields, f)

\* buildRepeatedParts throws on a leg key without a slot, sharedValue on a shared
\* slot with two values (the flat field is one of the claimants)
BuildThrows(layout, fields, legs) ==
    \/ \E i \in DOMAIN legs : ~(DOMAIN legs[i] \subseteq layout.names)
    \/ \E f \in Range(layout.prefix \o layout.suffix) : Cardinality(SharedValues(f, fields, legs)) > 1

-----------------------------------------------------------------------------
(* Selection.  A refusal is Refused; otherwise the version.                *)

Refused == -1

ValueWidth(value) == FoldSeq(LAMBDA w, n : WordLength(w) + n, 0, value)

FlatLength(slots, flat) ==
    FoldSeq(LAMBDA slot, n : ValueWidth(Val(flat, BaseFieldName(slot)))
                             + Max({1, Len(Val(flat, BaseFieldName(slot)))}) + n, 0, slots)

SharedLength(slots, fields, legs) ==
    FoldSeq(LAMBDA f, n : Max({ValueWidth(x) : x \in SharedValues(f, fields, legs)} \cup {0}) + 1 + n, 0, slots)

LegsLength(slots, fields, legs) ==
    FoldSeq(LAMBDA leg, n : n + FoldSeq(LAMBDA f, k :
                ValueWidth(LegFieldValue(f, leg, fields)) + 1 + k, 0, slots), 0, legs)

EstimateLength(layout, fields, legs) ==
    IF IsRepeatedFormat(layout) /\ legs # <<>>
    THEN SharedLength(layout.prefix \o layout.suffix, fields, legs) + LegsLength(layout.group, fields, legs)
    ELSE FlatLength(layout.slots, IF Len(legs) = 1 THEN Merge(fields, legs[1]) ELSE fields)

IsCandidate(a, v, layout, fields, legs) ==
    /\ ~(a = "LIST" /\ v \in LIST_PIN_ONLY)
    /\ ~IsRepeatedFormat(layout) \/ legs # <<>>
    /\ PopulatedFields(fields) \subseteq layout.names
    /\ legs = <<>> \/ LegsFit(layout, legs)

Shortest(length) ==
    CHOOSE v \in DOMAIN length :
        \A w \in DOMAIN length : length[v] < length[w] \/ (length[v] = length[w] /\ v <= w)

SelectAmong(candidates, layouts, fields, legs) ==
    IF \/ candidates = {}
       \/ \E v \in candidates : IsRepeatedFormat(layouts[v]) /\ BuildThrows(layouts[v], fields, legs)
    THEN Refused
    ELSE Shortest([v \in candidates |-> EstimateLength(layouts[v], fields, legs)])

SelectFrom(a, layouts, fields, legs) ==
    SelectAmong({v \in DOMAIN layouts : IsCandidate(a, v, layouts[v], fields, legs)}, layouts, fields, legs)

AutoSelect(a, fields, legs) == SelectFrom(a, Layouts[a], fields, legs)

\* A pinned version must exist and have a slot for every populated flat field
SelectPinned(a, fields, version) ==
    IF version \in DOMAIN Formats[a] /\ PopulatedFields(fields) \subseteq Slots(Formats[a][version])
    THEN version
    ELSE Refused

-----------------------------------------------------------------------------
(* Serialisation: the sequence of slot values, one word per segment before *)
(* the join.  <<>> stands for a refusal (every wire has an action name).   *)

Word(value) == IF value = <<>> THEN "" ELSE value[1]

\* Trailing empty segments go, the action name and the version stay
TrimTail(parts) ==
    LET last == Max({2} \cup {i \in DOMAIN parts : parts[i] # ""})
    IN SubSeq(parts, 1, last)

JoinSegments(parts) ==
    FoldLeft(LAMBDA segs, w : segs \o Segments(Bytes(w)), <<>>, parts)

SerializeFlat(layout, fields) ==
    LET Put(slot) == IF slot \in RestFields THEN Val(fields, BaseFieldName(slot))
                     ELSE <<Word(Val(fields, slot))>>
    IN FoldLeft(LAMBDA parts, slot : parts \o Put(slot), <<>>, layout.slots)

SerializeRepeated(layout, fields, legs) ==
    LET Shared(f) == LET vs == SharedValues(f, fields, legs)
                     IN IF vs = {} THEN "" ELSE Word(CHOOSE x \in vs : TRUE)
        Each(s, W(_)) == [i \in DOMAIN s |-> W(s[i])]
    IN Each(layout.prefix, Shared)
       \o FoldLeft(LAMBDA parts, leg : parts \o Each(layout.group,
                      LAMBDA f : Word(LegFieldValue(f, leg, fields))), <<>>, legs)
       \o Each(layout.suffix, Shared)

\* The slots' values in their order, or <<>>
SerializeSlots(layout, fields, legs) ==
    IF IsRepeatedFormat(layout)
    THEN IF legs = <<>> \/ BuildThrows(layout, fields, legs) THEN <<>>
         ELSE SerializeRepeated(layout, fields, legs)
    ELSE IF Len(legs) > 1 THEN <<>>
    ELSE SerializeFlat(layout, IF legs = <<>> THEN fields ELSE Merge(fields, legs[1]))

Joined(head, parts) == IF parts = <<>> THEN <<>> ELSE JoinSegments(TrimTail(head \o parts))

Serialize(a, v, fields, legs) ==
    Joined(<<a, ToString(v)>>, SerializeSlots(Layouts[a][v], fields, legs))

-----------------------------------------------------------------------------
(* Decoding.  ok is FALSE for every failure code.                          *)

Aliases == [TRANSFER |-> "SEND", ADDR |-> "ADDRESS", DROP |-> "AIRDROP",
            CAST |-> "BROADCAST", MSG |-> "MESSAGE"]

ExpandAlias(name) == IF name \in DOMAIN Aliases THEN Aliases[name] ELSE name

LEGACY_FORMAT_ACTIONS == {"ISSUE", "MINT", "SEND"}

VersionWords == {"0", "1", "2", "3", "4", "5", "6", "7"}

\* formatVersion: an absent or empty segment is 0, other text no version
FormatVersion(w) ==
    CASE w = "" -> 0
      [] w \in VersionWords -> CHOOSE n \in 0..7 : ToString(n) = w
      [] OTHER -> Refused

\* isLegacyActionFormat: what stands in the version slot is no one- or two-character number
IsLegacyActionFormat(values) == values = <<>> \/ values[1] \notin VersionWords \cup {"-1", " 1"}

\* readSegments: trim, restore the version a legacy form left out
ReadValues(a, values) ==
    LET trimmed == [i \in DOMAIN values |-> Trim(values[i])]
    IN IF a \in LEGACY_FORMAT_ACTIONS /\ IsLegacyActionFormat(trimmed) THEN <<"0">> \o trimmed
       ELSE IF trimmed = <<>> THEN <<"">> ELSE trimmed

NoDecode == [ok |-> FALSE, action |-> "", version |-> 0, params |-> <<>>, legs |-> <<>>]

At(segs, i) == IF i \in DOMAIN segs THEN segs[i] ELSE ""

\* mapFields without a group: surplus segments are ignored, a rest slot takes them all
MapFlatFields(s, segs) ==
    LET IsRest(i) == s[i] \in RestFields
        Read(i) == IF IsRest(i) THEN SubSeq(segs, i, Len(segs)) ELSE <<At(segs, i)>>
    IN [f \in Slots(s) |-> Read(CHOOSE i \in DOMAIN s : BaseFieldName(s[i]) = f)]

\* mapRepeatedFields: as many legs as it takes to hold the segments
MapRepeatedFields(g, segs) ==
    LET per == Len(g.group)
        base == Len(g.prefix) + Len(g.suffix)
        count == Min({n \in 1..(Len(segs) + 1) : base + n * per >= Len(segs)})
        Leg(i) == [f \in Range(g.group) |->
                     <<At(segs, Len(g.prefix) + (i - 1) * per
                                + (CHOOSE k \in DOMAIN g.group : g.group[k] = f))>>]
        Pre(f) == <<At(segs, CHOOSE k \in DOMAIN g.prefix : g.prefix[k] = f)>>
        Suf(f) == <<At(segs, Len(g.prefix) + count * per
                             + (CHOOSE k \in DOMAIN g.suffix : g.suffix[k] = f))>>
    IN [legs |-> [i \in 1..count |-> Leg(i)],
        params |-> [f \in Range(g.prefix) |-> Pre(f)] @@ [f \in Range(g.suffix) |-> Suf(f)]]

\* parseTopLevel, for everything but a BATCH
ParseMapped(a, v, mapped) ==
    [ok |-> TRUE, action |-> a, version |-> v, params |-> mapped.params, legs |-> mapped.legs]

MapFields(layout, segs) ==
    IF IsRepeatedFormat(layout) THEN MapRepeatedFields(layout, segs)
    ELSE [params |-> MapFlatFields(layout.slots, segs), legs |-> <<>>]

ParseFormat(a, v, layouts, segs) ==
    IF v \in DOMAIN layouts THEN ParseMapped(a, v, MapFields(layouts[v], segs)) ELSE NoDecode

ParseValues(a, values) ==
    IF a \in Actions THEN ParseFormat(a, FormatVersion(values[1]), Layouts[a], Tail(values)) ELSE NoDecode

ParseAction(wire) == ParseValues(ExpandAlias(wire[1]), ReadValues(ExpandAlias(wire[1]), Tail(wire)))
=============================================================================
