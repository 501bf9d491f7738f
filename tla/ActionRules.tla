----------------------------- MODULE ActionRules -----------------------------
(***************************************************************************)
(* The validator every composed action passes through (protocol/           *)
(* validator.js and protocol/validator/): required fields, the rules of    *)
(* each field, the rules that tie fields together, legs.  The decoder runs *)
(* the same rules over what it read back.                                  *)
(*                                                                         *)
(* A rule yields the set of error codes it raises.  The code "GUARD"       *)
(* stands for a finding marked sdkGuard: the chain would take the action,  *)
(* the SDK does not compose it.  Messages and details are left out.        *)
(***************************************************************************)
EXTENDS ActionFormats

Err(code, bad) == IF bad THEN {code} ELSE {}
Invalid(bad) == Err("INVALID_FIELD_VALUE", bad)
Missing(bad) == Err("MISSING_REQUIRED_FIELD", bad)

NoVersion == -2             \* fields.VERSION is not given

-----------------------------------------------------------------------------
(* What the code can tell about a word.  Numbers are in thousandths;       *)
(* "huge" is above every ceiling, "fine" has nineteen fractional digits.   *)

Numbers == "-1" :> -1000 @@ "0" :> 0 @@ "0.123" :> 123 @@ "0.5" :> 500 @@ "1" :> 1000
           @@ " 1" :> 1000 @@ "fine" :> 1123 @@ "2" :> 2000 @@ "3" :> 3000
           @@ "0x1" :> 1000 @@ "1000" :> 1000000 @@ "1e3" :> 1000000 @@ "7200" :> 7200000 @@ "huge" :> 2000000000

IsNumeric(w) == w \in DOMAIN Numbers
Num(w) == Numbers[w]
IsPositive(w) == IsNumeric(w) /\ Num(w) > 0
IsInteger(w) == IsNumeric(w) /\ w \notin {"0.123", "0.5", "fine"}
IsDigits(w) == w \in {"0", "1", "2", "3", "1000", "7200", "huge"}           \* /^[0-9]+$/
IsPlainDecimal(w) == IsDigits(w) \/ w \in {"0.123", "0.5", "fine"}
FractionDigits(w) == CASE w = "0.5" -> 1 [] w = "0.123" -> 3 [] w = "fine" -> 19 [] OTHER -> 0
\* isValidAmountFormat and isValidFiatFormat, of two decimals and no sign
IsValidFiatFormat(w) == IsNumeric(w) /\ w # "-1" /\ FractionDigits(w) <= 2

\* isValidValue, isValidLockValue: parseInt of a numeric word
ParseInt(w) == IF w = "1e3" THEN 1 ELSE Num(w) \div 1000
IsValidValue(w, valid) == IsNumeric(w) /\ w # "-1" /\ ParseInt(w) \in valid
IsValidLockValue(w) == IsValidValue(w, {0, 1})

Length(w) == WordLength(w)
HasDelimiter(w) == w \in {PipedWord, SemiWord}
HasDot(w) == w \in {"x.y", "x.", "BTC.x", "0.5", "0.123", "fine"}
IsCaret(w) == w \in {"^1", "^2", "^01", "^x"}
CaretNumeric(w) == w \in {"^1", "^2", "^01"}
IsHex64(w) == w = "hex"
IsBase64(w) == w \in {"", "x", "hex", "long", "big", "giant", "BTC", "USD", "all", "json", "jsonab", "deep",
                      "0", "1", "2", "3", "1000", "7200", "huge"}
IsCoin(w) == w \in {"BTC"}
IsFiat(w) == w = "USD"
IsCryptoAddress(w) == w \in {"addr", "hex"}      \* without a coin: by length
IsListAddress(w) == w = "addr"                   \* with the network: by checksum and prefix
IsPadded(w) == w \in {" x", " 1"}
TickCharsOK(w) == ~HasDelimiter(w) /\ ~IsPadded(w) /\ w \notin {LoneWord, "a,b"}
IsBridgedCopy(w, coin) == w = "BTC.x" /\ coin # "BTC"

-----------------------------------------------------------------------------
(* tick_and_text.js                                                        *)

\* issueFormat: the ISSUE version these fields will be sent as
IssueFormat(fields, version) ==
    CASE version # NoVersion -> version
      [] \E f \in {"BRIDGE_CHAINS", "MIN_DEPTH", "LOCK_BRIDGE"} : Has(fields, f) -> 7
      [] \E f \in {"CONTROLLER", "ACTION_CLASS", "UNBIND", "COOLDOWN_BLOCKS"} : Has(fields, f) -> 6
      [] OTHER -> NoVersion

ValidateIssueTickRef(w, fields, version) ==
    Err("INVALID_TICK_ID", \/ ~CaretNumeric(w)
                           \/ IssueFormat(fields, version) \in {6, 7} /\ w = "^01")

ValidateTickName(w, fields, version) ==
    IF IsCaret(w) THEN ValidateIssueTickRef(w, fields, version)
    ELSE Err("INVALID_TICK_NAME", Length(w) > 250 \/ ~TickCharsOK(w) \/ w = "x.")

DELIMITER_EXEMPT_FIELDS ==
    {"COMMAND", "TICK", "GIVE_TICK", "GET_TICK", "DIVIDEND_TICK", "CALLBACK_TICK", "GATE_TICKER",
     "CONSTRUCTOR_PARAMS", "PARAMS", "NAME", "DESCRIPTION"}

ScanDelimiters(value) == Err("FORBIDDEN_CHARACTER", \E w \in Range(value) : HasDelimiter(w))

\* The guard left to the type rules
UncheckedDelimiters(f, value) == {}

CheckDelimiters(f, value) == IF f \in DELIMITER_EXEMPT_FIELDS THEN {} ELSE ScanDelimiters(value)

-----------------------------------------------------------------------------
(* field_rules_basic.js                                                    *)

TickFields == {"TICK", "GIVE_TICK", "GET_TICK", "DIVIDEND_TICK", "CALLBACK_TICK"}

TickRules(a, f, w, fields, version) ==
    IF f \notin TickFields THEN {}
    ELSE IF a = "ISSUE" /\ f = "TICK" THEN ValidateTickName(w, fields, version)
    ELSE IF IsCaret(w) THEN Err("INVALID_TICK_ID", ~CaretNumeric(w))
    ELSE ScanDelimiters(<<w>>)

\* listMetaFieldError; a leg's delimiters are left to the other rules (fullMap is FALSE there)
ListMetaRules(a, f, w, fields, fullMap) ==
    LET maxBytes == IF f = "NAME" THEN 64 ELSE 512
        malformed == \/ Length(w) > maxBytes
                     \/ ~Has(fields, "LIST_ACTION_INDEX") /\ w = "-"
                     \/ w = LoneWord \/ IsPadded(w)
    IN Invalid(/\ a = "LIST" /\ f \in {"NAME", "DESCRIPTION"}
               /\ IF HasDelimiter(w) THEN fullMap ELSE malformed)

DescriptionRules(a, f, w) ==
    (IF <<a, f>> \in {<<"FILE", "NAME">>, <<"ISSUE", "DESCRIPTION">>} THEN ScanDelimiters(<<w>>) ELSE {})
    \cup Invalid(f = "DESCRIPTION" /\ a # "LIST" /\ Length(w) >= 250)

LOCK_FIELDS ==
    {"LOCK_MAX_SUPPLY", "LOCK_MINT", "LOCK_MINT_SUPPLY", "LOCK_MAX_MINT", "LOCK_DESCRIPTION",
     "LOCK_SLEEP", "LOCK_CALLBACK", "LOCK_BRIDGE"}

SupplyRules(f, w, fields) ==
    Invalid(\/ f = "DECIMALS" /\ ~(IsInteger(w) /\ Num(w) \in 0..18000)
            \/ f = "MAX_SUPPLY" /\ (w = "huge" \/ w \in {"-1", "1e3"} \/ ~IsNumeric(w))
            \/ f = "MAX_SUPPLY" /\ Has(fields, "DECIMALS") /\ FractionDigits(w) > 18
            \/ f \in LOCK_FIELDS /\ ~IsValidLockValue(w))

MoneyRules(a, f, w) ==
    Invalid(\/ f = "FIAT_CODE" /\ ~IsFiat(w)
            \/ f = "FIAT" /\ a = "PRICE" /\ ~IsFiat(w)
            \/ f = "FIAT_AMOUNT" /\ ~IsValidFiatFormat(w)
            \/ f \in {"COIN", "GIVE_COIN", "GET_COIN", "COIN1", "COIN2"} /\ ~IsCoin(w))

AddressRefFields == {"DESTINATION", "TRANSFER", "TRANSFER_SUPPLY", "GET_ADDRESS", "ORACLE_ADDRESS",
                     "SLASH_DESTINATION"}

AddressRules(a, f, w) ==
    Err("INVALID_ADDRESS_ID", f \in AddressRefFields /\ IsCaret(w) /\ ~CaretNumeric(w))
    \cup Invalid(/\ f \in {"DESTINATION", "GET_ADDRESS", "TRANSFER", "TRANSFER_SUPPLY"}
                 /\ ~IsCaret(w) /\ ~IsCryptoAddress(w))
    \cup Invalid(f = "ENCRYPTION_METHOD" /\ ~IsValidValue(w, IF a = "FILE" THEN {1} ELSE 1..3))

BasicRules(a, f, w, fields, version, fullMap) ==
    TickRules(a, f, w, fields, version) \cup ListMetaRules(a, f, w, fields, fullMap)
    \cup DescriptionRules(a, f, w) \cup SupplyRules(f, w, fields) \cup MoneyRules(a, f, w)
    \cup AddressRules(a, f, w)

-----------------------------------------------------------------------------
(* field_rules_extended.js, field_rules_final.js                           *)

FileRules(a, f, w) ==
    Invalid(/\ a = "FILE"
            /\ \/ f = "KEY_HASH" /\ ~IsHex64(w)
               \/ f = "GATE_TICKER" /\ (HasDelimiter(w) \/ HasDot(w))
               \/ f = "GATE_MIN_AMOUNT" /\ ~(IsPlainDecimal(w) /\ Length(w) <= 40 /\ Num(w) > 0))

ChoiceRules(a, f, w) ==
    Invalid(\/ f \in {"PLAINTEXT_MESSAGE", "ENCRYPTED_MESSAGE", "ENCRYPTION_KEY"} /\ Length(w) > 1048576
            \/ f = "FEE_PREFERENCE" /\ ~IsValidValue(w, 1..3)
            \/ f = "DISPENSER_PREFERENCE" /\ ~IsValidValue(w, 1..2)
            \/ f = "TYPE" /\ a = "LIST" /\ ~IsValidValue(w, 1..3)
            \/ f = "EDIT" /\ ~IsValidValue(w, 1..2)
            \/ /\ f \in {"BALANCES", "OWNERSHIPS", "ORDERS", "SWAPS", "DISPENSERS",
                         "GIVE_OWNERSHIP", "GET_OWNERSHIP"}
               /\ ~IsValidValue(w, {0, 1}))

PositiveFields == {"AMOUNT", "GIVE_AMOUNT", "GET_AMOUNT", "GIVE_ESCROW", "CALLBACK_AMOUNT"}

ZERO_AMOUNT_CHAIN_VALID ==
    {"SEND", "MINT", "DESTROY", "DIVIDEND", "AIRDROP"} \X {"AMOUNT"}
    \cup {<<"ORDER", "GIVE_AMOUNT">>, <<"SWAP", "GIVE_AMOUNT">>, <<"SWAP", "GET_AMOUNT">>,
          <<"ISSUE", "CALLBACK_AMOUNT">>}

AmountRules(a, f, w, fields) ==
    LET fiatPriced == /\ a = "DISPENSER" /\ f = "GET_AMOUNT" /\ w = "0"
                      /\ Has(fields, "FIAT_CODE") \/ Has(fields, "ORACLE_ADDRESS")
        notPositive == f \in PositiveFields /\ ~fiatPriced /\ IsNumeric(w) /\ Num(w) <= 0
    IN Invalid(/\ f \in PositiveFields \cup {"MINT_SUPPLY", "MAX_MINT", "MINT_ADDRESS_MAX"}
               /\ ~IsNumeric(w))
       \cup (IF ~notPositive THEN {}
             ELSE IF w = "0" /\ <<a, f>> \in ZERO_AMOUNT_CHAIN_VALID THEN {"GUARD"}
             ELSE {"INVALID_FIELD_VALUE"})

FeeAndValueRules(a, f, w) ==
    Invalid(\/ f = "FEE" /\ a = "BROADCAST" /\ (~IsNumeric(w) \/ Length(w) > 11)
            \/ f = "FEE" /\ a = "PRICE" /\ ~(IsPlainDecimal(w) /\ FractionDigits(w) <= 18 /\ Num(w) <= 1000)
            \/ f = "BRIDGE_CHAINS" /\ w # "-" /\ ~IsCoin(w)
            \/ f = "MIN_DEPTH" /\ ~IsDigits(w)
            \/ f = "VALUE" /\ ~IsNumeric(w)
            \/ f = "VALUE" /\ a = "PRICE" /\ ~(IsPlainDecimal(w) /\ FractionDigits(w) <= 8 /\ Num(w) > 0))

-----------------------------------------------------------------------------
(* field_rules_protocol.js                                                 *)

IndexFields == {"BROADCAST_ACTION_INDEX", "DISPENSER_ACTION_INDEX", "ORDER_ACTION_INDEX",
                "SWAP_ACTION_INDEX", "LIST_ACTION_INDEX", "COIN1_ACTION_INDEX", "COIN2_ACTION_INDEX",
                "CONTRACT_ACTION_INDEX"}

BlockAndContractRules(f, w) ==
    Invalid(\/ f \in {"RESUME_BLOCK", "CALLBACK_BLOCK", "MINT_START_BLOCK", "MINT_STOP_BLOCK"}
                 \cup IndexFields /\ ~IsNumeric(w)
            \/ f = "GAS_LIMIT" /\ ~(IsInteger(w) /\ Num(w) > 0)
            \/ f = "QUANTITY" /\ ~IsPositive(w)
            \/ f \in {"DEPOSIT", "GAS_ESCROW"} /\ ~(IsNumeric(w) /\ Num(w) >= 0 /\ FractionDigits(w) <= 8)
            \/ f \in {"CALLBACK_CONTRACT", "CALLBACK_DELAY_BLOCKS", "CONTROLLER"} /\ ~IsDigits(w)
            \/ f = "CODE_HASH" /\ ~IsHex64(w)
            \/ f \in {"CODE_ENCODING", "CODE_PART"} /\ ~IsBase64(w))
    \cup Err("CODE_TOO_LARGE", f \in {"CODE_ENCODING", "CODE_PART"} /\ w = "giant")

StakeAndControlRules(a, f, w) ==
    Invalid(\/ f \in {"CHUNK_INDEX", "TOTAL_CHUNKS"} /\ ~(IsInteger(w) /\ Num(w) >= 0)
            \/ f \in {"SIGNING_PUBKEY", "NEW_SIGNING_PUBKEY"} /\ ~IsHex64(w)
            \/ f = "TARGET_CONTRACT_INDEX" /\ ~(IsDigits(w) /\ Num(w) > 0)
            \/ f = "ACTION_CLASS" /\ w # "all"
            \/ f = "UNBIND" /\ ~IsValidValue(w, {0, 1})
            \/ f = "COOLDOWN_BLOCKS" /\ IF a \in {"ISSUE", "ADDRESS"} THEN ~IsDigits(w) \/ w = "huge"
                                        ELSE ~(IsInteger(w) /\ Num(w) \in 1000..100000000))

ParamRules(f, value) ==
    Err("INVALID_PARAM_VALUE",
        f \in {"CONSTRUCTOR_PARAMS", "PARAMS"} /\ \E w \in Range(value) : HasDelimiter(w))

-----------------------------------------------------------------------------
(* consensus_field_rules.js                                                *)

WellFormedText(a, f, value) ==
    Invalid(/\ f # "COMMAND" /\ ~(a = "LIST" /\ f \in {"NAME", "DESCRIPTION"})
            /\ LoneWord \in Range(value))

TextLengths(a, f, w) ==
    Invalid(\/ f = "MEMO" /\ a # "PRICE" /\ Length(w) > (IF a = "VOTE" THEN 1048576 ELSE 250)
            \/ a = "BROADCAST" /\ f = "MESSAGE" /\ Length(w) > 250
            \/ a = "BROADCAST" /\ f = "VALUE" /\ Length(w) > 25
            \/ a = "FILE" /\ f \in {"NAME", "TITLE"} /\ Length(w) > 250
            \/ a = "FILE" /\ f = "TYPE" /\ Length(w) > 255)

TokenPrecisionFields ==
    {"SEND", "MINT", "DESTROY", "AIRDROP", "DIVIDEND", "XBRIDGE"} \X {"AMOUNT"}
    \cup {"ORDER", "SWAP", "DISPENSER"} \X {"GIVE_AMOUNT", "GET_AMOUNT"}
    \cup {<<"ISSUE", "CALLBACK_AMOUNT">>}

AmountPrecision(a, f, w, fields) ==
    LET issueAmount == a = "ISSUE" /\ f \in {"MAX_MINT", "MINT_SUPPLY", "MINT_ADDRESS_MAX",
                                             "MINT_START_BLOCK", "MINT_STOP_BLOCK", "CALLBACK_AMOUNT"}
    IN Invalid(\/ <<a, f>> \in TokenPrecisionFields /\ FractionDigits(w) > 18
               \/ issueAmount /\ w = "-1"
               \/ issueAmount /\ f # "CALLBACK_AMOUNT" /\ Has(fields, "DECIMALS") /\ FractionDigits(w) > 18)
       \cup Err("GUARD", a = "ISSUE" /\ f \in {"MINT_START_BLOCK", "MINT_STOP_BLOCK"} /\ FractionDigits(w) > 0)

\* canonical: the PRICE v1 gate is active on the validator's network
StakeAndPriceRules(a, f, w, fields, version, canonical) ==
    LET capability == \/ version \in {1, 2}
                      \/ version = NoVersion /\ ~Has(fields, "TARGET_CONTRACT_INDEX")
    IN Invalid(\/ a = "STAKE" /\ f = "AMOUNT" /\ capability /\ ~(IsPlainDecimal(w) /\ FractionDigits(w) <= 8)
               \/ f = "EXPIRATION" /\ ~IsInteger(w)
               \/ a = "ADDRESS" /\ f = "REQUIRE_MEMO" /\ ~(IsInteger(w) /\ Num(w) \in {0, 1000})
               \/ a = "PRICE" /\ f = "TICK" /\ Length(w) > 250
               \/ a = "PRICE" /\ f \in {"VALUE", "FEE"} /\ canonical
                  /\ (~IsPlainDecimal(w) \/ Length(w) > 40 \/ w = "huge"))

\* validateField: every rule of every file, in no order that matters
ValidateField(a, f, value, fields, version, fullMap, canonical) ==
    LET w == Word(value)
        Scalar == BasicRules(a, f, w, fields, version, fullMap) \cup FileRules(a, f, w)
                  \cup ChoiceRules(a, f, w) \cup AmountRules(a, f, w, fields) \cup FeeAndValueRules(a, f, w)
                  \cup BlockAndContractRules(f, w) \cup StakeAndControlRules(a, f, w)
                  \cup TextLengths(a, f, w) \cup AmountPrecision(a, f, w, fields)
                  \cup StakeAndPriceRules(a, f, w, fields, version, canonical)
    IN ParamRules(f, value) \cup WellFormedText(a, f, value)
       \cup (IF f \in RestBases THEN {} ELSE Scalar)
=============================================================================
