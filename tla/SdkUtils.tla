------------------------------ MODULE SdkUtils ------------------------------
(* Pure helpers of the SDK: log ranges (clients.ts), amounts, account addresses
   in bech32, hashes and block references, and JSON with tagged integers (utils.ts).  Each is an operator, and
   a behaviour applies one of them to one sample input.

   A decimal string is a pair of digit sequences, an account string its sequence
   of five-bit words (the alphabet is a bijection), a JSON value a record whose
   one field names its kind. *)
EXTENDS Integers, Sequences, SequencesExt, FiniteSets, TLC, Bitwise

CONSTANTS
    LogBlockRange,      \* toriumReadCapabilities.limits.logBlockRange
    MaxBlock,           \* bound on the block numbers of the samples
    Decimals,           \* toriumNativeDecimals
    MaxAmount,          \* toriumMaxUint256
    Addresses,          \* accounts: sequences of AddressBytes bytes
    AddressBytes,       \* 20 in the code
    HashDigits,         \* hexadecimal digits of a hash: 64 in the code
    Chains              \* toriumChains: the chain id of each environment

VARIABLE sample
utilsVars == sample

\* ----------------------------------------------------------- log ranges ---

\* The loop over start = from, from + span, ... while start <= to.
CreateToriumLogRanges(from, to) ==
    [i \in 1..((to - from) \div LogBlockRange + 1) |->
        LET start == from + (i - 1) * LogBlockRange
            end == start + LogBlockRange - 1
        IN  [fromBlock |-> start, toBlock |-> IF end < to THEN end ELSE to]]

\* -------------------------------------------------------------- amounts ---

DigitsOf(n) ==
    LET digits[k \in Nat] ==
            IF k < 10 THEN <<k>> ELSE Append(digits[k \div 10], k % 10)
    IN  digits[n]

ValueOf(digits) == FoldLeft(LAMBDA v, d : 10 * v + d, 0, digits)

Zeros(n) == [i \in 1..n |-> 0]

\* Trailing zeros of a fraction are not written.
Trimmed(digits) ==
    SubSeq(digits, 1, Cardinality({i \in 1..Len(digits) :
        \E j \in i..Len(digits) : digits[j] # 0}))

AssertUint(n) == n \in 0..MaxAmount

\* formatUnits: pad to at least Decimals digits, split, trim.
FormatToriumAmount(value) ==
    LET digits == DigitsOf(value)
        short == Decimals - Len(digits)
        padded == Zeros(IF short > 0 THEN short ELSE 0) \o digits
        whole == SubSeq(padded, 1, Len(padded) - Decimals)
    IN  [whole |-> IF whole = <<>> THEN <<0>> ELSE whole,
         fraction |-> Trimmed(SubSeq(padded, Len(padded) - Decimals + 1, Len(padded)))]

AmountCanonical(s) ==
    /\ s.whole # <<>>
    /\ Len(s.whole) > 1 => Head(s.whole) # 0
    /\ Len(s.fraction) <= Decimals

ParseToriumAmount(s) ==
    LET value == ValueOf(s.whole \o s.fraction \o Zeros(Decimals - Len(s.fraction)))
    IN  IF AmountCanonical(s) /\ AssertUint(value) THEN value ELSE -1

\* parseToriumBaseUnits and formatToriumBaseUnits: digits without a leading zero.
ParseToriumBaseUnits(digits) ==
    IF digits # <<>> /\ (Len(digits) > 1 => Head(digits) # 0) /\ AssertUint(ValueOf(digits))
    THEN ValueOf(digits) ELSE -1

FormatToriumBaseUnits(value) == DigitsOf(value)

\* -------------------------------------------------- references and data ---

\* A hexadecimal string: whether it starts with 0x, and its other characters.
HexDigitsLower == {"0", "a"}
HexDigitsUpper == {"A"}
LowerCase(chars) == [i \in DOMAIN chars |-> IF chars[i] = "A" THEN "a" ELSE chars[i]]
IsHex(s) == s.prefixed /\ Range(s.chars) \subseteq HexDigitsLower \cup HexDigitsUpper
Refused == [refused |-> TRUE]

IsToriumHash(s) == IsHex(s) /\ Len(s.chars) = HashDigits
NormalizeToriumHash(s) ==
    IF IsToriumHash(s) THEN [s EXCEPT !.chars = LowerCase(@)] ELSE Refused

IsToriumHexData(s) == IsHex(s) /\ Len(s.chars) % 2 = 0
NormalizeToriumHexData(s) ==
    IF IsToriumHexData(s) THEN [s EXCEPT !.chars = LowerCase(@)] ELSE Refused

BlockTags == {"earliest", "latest", "pending", "safe", "finalized"}

\* A reference is a number, a word or a hexadecimal string.
NormalizeToriumBlockReference(v) ==
    IF "number" \in DOMAIN v THEN IF AssertUint(v.number) THEN v ELSE Refused
    ELSE IF "word" \in DOMAIN v THEN IF v.word \in BlockTags THEN v ELSE Refused
    ELSE IF NormalizeToriumHash(v.hex) = Refused THEN Refused
    ELSE [hex |-> NormalizeToriumHash(v.hex)]

GetToriumChain(environment) == Chains[environment]

IsToriumChainId(id) == \E e \in DOMAIN Chains : GetToriumChain(e) = id

\* The environment whose chain definition getToriumChainById returns.
GetToriumChainById(id) ==
    IF IsToriumChainId(id) THEN CHOOSE e \in DOMAIN Chains : GetToriumChain(e) = id ELSE "none"

\* --------------------------------------------------------------- bech32 ---

Chunk(acc, shift, to) == (acc \div 2^shift) % 2^to

\* Regrouping of bits: the accumulator keeps the bits not yet put out; a value of
\* eight bits or less completes at most two groups of five or more.
Regroup(values, from, to) ==
    LET after[n \in 0..Len(values)] ==
            IF n = 0 THEN [acc |-> 0, bits |-> 0, out |-> <<>>]
            ELSE LET s == after[n - 1]
                     acc == (s.acc * 2^from + values[n]) % 2^(from + to - 1)
                     bits == s.bits + from
                     full == bits \div to
                 IN  [acc |-> acc, bits |-> bits - full * to,
                      out |-> s.out \o (IF full = 0 THEN <<>>
                                        ELSE IF full = 1 THEN <<Chunk(acc, bits - to, to)>>
                                        ELSE <<Chunk(acc, bits - to, to),
                                               Chunk(acc, bits - 2 * to, to)>>)]
    IN  after[Len(values)]

PaddingOf(s, to) == (s.acc * 2^(to - s.bits)) % 2^to

\* convertBits with and without padding; <<-1>> stands for invalid padding.
ConvertBitsPadded(values, from, to) ==
    LET s == Regroup(values, from, to)
    IN  IF s.bits > 0 THEN Append(s.out, PaddingOf(s, to)) ELSE s.out

ConvertBitsExact(values, from, to) ==
    LET s == Regroup(values, from, to)
    IN  IF s.bits >= from \/ PaddingOf(s, to) # 0 THEN <<-1>> ELSE s.out

\* A checksum is kept as its six groups of five bits, highest first.
Bech32Generator ==
    <<<<29, 22, 20, 21, 29, 18>>,
      <<19, 5, 1, 3, 19, 13>>,
      <<15, 10, 2, 6, 15, 26>>,
      <<30, 20, 4, 12, 30, 29>>,
      <<21, 1, 8, 24, 21, 19>>>>

XorWords(a, b) == [i \in 1..6 |-> a[i] ^^ b[i]]

\* expandBech32Hrp("torium").
ToriumHrp == <<3, 3, 3, 3, 3, 3, 0, 20, 15, 18, 9, 21, 13>>

\* One generator is added for each of the five bits shifted out.
FeedbackNone(top) == Zeros(6)

Feedback(top) ==
    LET sum[i \in 0..5] ==
            IF i = 0 THEN Zeros(6)
            ELSE IF (top \div 2^(i - 1)) % 2 = 1 THEN XorWords(sum[i - 1], Bech32Generator[i])
            ELSE sum[i - 1]
    IN  sum[5]

\* The loop of bech32Polymod from a checksum on, and the checksum the prefix of
\* every account leaves.
Bech32Polymod(start, values) ==
    LET sum[n \in 0..Len(values)] ==
            IF n = 0 THEN start
            ELSE LET before == sum[n - 1]
                 IN  XorWords(Append(Tail(before), values[n]), Feedback(Head(before)))
    IN  sum[Len(values)]

Unit == <<0, 0, 0, 0, 0, 1>>
AfterHrp == Bech32Polymod(Unit, ToriumHrp)

CreateChecksum(words) == XorWords(Bech32Polymod(AfterHrp, words \o Zeros(6)), Unit)

EncodeAccount(bytes) ==
    LET words == ConvertBitsPadded(bytes, 8, 5) IN words \o CreateChecksum(words)

\* decodeBech32Account; <<-1>> stands for a thrown error.
DecodeAccount(words) ==
    LET bytes == ConvertBitsExact(SubSeq(words, 1, Len(words) - 6), 5, 8)
    IN  IF Bech32Polymod(AfterHrp, words) # Unit \/ Len(bytes) # AddressBytes
        THEN <<-1>> ELSE bytes

IsToriumAccountAddress(words) == DecodeAccount(words) # <<-1>>

\* ----------------------------------------------------------------- JSON ---

BigIntTag == "$torium.bigint"

JsonLeaves == {[num |-> 1], [str |-> "5"], [str |-> "x"], [big |-> 5]}
JsonObjects(values) ==
    {[obj |-> f] : f \in UNION {[K -> values] : K \in SUBSET {"a", BigIntTag}}}
JsonArrays(values) == {[arr |-> s] : s \in {<<>>} \cup {<<v>> : v \in values}}
JsonDepth1 == JsonLeaves \cup JsonObjects(JsonLeaves) \cup JsonArrays(JsonLeaves)
JsonValues == JsonDepth1 \cup JsonObjects(JsonDepth1) \cup JsonArrays(JsonDepth1)

Is(v, kind) == kind \in DOMAIN v
JsonError == [error |-> TRUE]

\* JSON.stringify with the replacer: a bigint becomes an envelope, and an object
\* that carries the tag itself is refused, at any depth.
Envelope(n) == [obj |-> (BigIntTag :> [str |-> ToString(n)])]

RECURSIVE Stringified(_)
Stringified(v) ==
    IF Is(v, "big") THEN Envelope(v.big)
    ELSE IF Is(v, "obj") THEN [obj |-> [k \in DOMAIN v.obj |-> Stringified(v.obj[k])]]
    ELSE IF Is(v, "arr") THEN [arr |-> [i \in DOMAIN v.arr |-> Stringified(v.arr[i])]]
    ELSE v

RECURSIVE CarriesTag(_)
CarriesTag(v) ==
    \/ Is(v, "obj") /\ \/ BigIntTag \in DOMAIN v.obj
                       \/ \E k \in DOMAIN v.obj : CarriesTag(v.obj[k])
    \/ Is(v, "arr") /\ \E i \in DOMAIN v.arr : CarriesTag(v.arr[i])

StringifyToriumJson(v) == IF CarriesTag(v) THEN JsonError ELSE Stringified(v)

\* JSON.parse with the reviver, innermost values first: an object whose only key
\* is the tag, with a string for value, is a bigint or an error.
Revive(v) ==
    IF ~Is(v, "obj") THEN v
    ELSE IF DOMAIN v.obj # {BigIntTag} THEN v
    ELSE IF ~Is(v.obj[BigIntTag], "str") THEN v
    ELSE IF \E n \in 0..9 : ToString(n) = v.obj[BigIntTag].str
         THEN [big |-> CHOOSE n \in 0..9 : ToString(n) = v.obj[BigIntTag].str]
         ELSE JsonError

RECURSIVE ParseToriumJson(_)
ParseToriumJson(v) ==
    IF Is(v, "obj")
    THEN LET fields == [k \in DOMAIN v.obj |-> ParseToriumJson(v.obj[k])]
         IN  IF JsonError \in {fields[k] : k \in DOMAIN fields}
             THEN JsonError ELSE Revive([obj |-> fields])
    ELSE IF Is(v, "arr")
    THEN LET items == [i \in DOMAIN v.arr |-> ParseToriumJson(v.arr[i])]
         IN  IF JsonError \in {items[i] : i \in DOMAIN items}
             THEN JsonError ELSE [arr |-> items]
    ELSE v

\* -------------------------------------------------------------- samples ---

Digit == 0..9
AmountStrings ==
    [whole : {<<0>>, <<7>>, <<1, 0>>, <<0, 5>>},
     fraction : {<<>>} \cup [1..1 -> Digit] \cup [1..2 -> Digit] \cup {Zeros(Decimals + 1)}]

HexStrings ==
    [prefixed : BOOLEAN,
     chars : UNION {[1..n -> {"0", "a", "A", "g"}] : n \in 0..(HashDigits + 1)}]

References ==
    [number : {-1, 0, MaxAmount, MaxAmount + 1}] \cup [word : BlockTags \cup {"Latest", ""}]
        \cup [hex : HexStrings]

Apply ==
    /\ sample = <<"none">>
    /\ \/ \E from, to \in 0..MaxBlock : from <= to /\ sample' = <<"range", from, to>>
       \/ \E v \in 0..MaxAmount : sample' = <<"amount", v>>
       \/ \E s \in AmountStrings : sample' = <<"decimal", s>>
       \/ \E a \in Addresses : sample' = <<"account", a>>
       \/ \E a \in Addresses, v \in 1..31 :
            \E i \in 1..Len(EncodeAccount(a)) : sample' = <<"typo", a, i, v>>
       \/ \E v \in JsonValues : sample' = <<"json", v>>
       \/ \E s \in HexStrings : sample' = <<"hex", s>>
       \/ \E v \in References : sample' = <<"reference", v>>
       \/ \E id \in 0..MaxBlock : sample' = <<"chain", id>>

UtilsInit == sample = <<"none">>
UtilsNext == Apply

\* ----------------------------------------------------------- properties ---

\* createToriumLogRanges splits a range into queries the node accepts that
\* together ask for every block once: none is left out at a seam or asked twice.
LogRangesExact ==
    sample[1] = "range" =>
        LET ranges == CreateToriumLogRanges(sample[2], sample[3])
            blocks(r) == r.fromBlock..r.toBlock
        IN  /\ UNION {blocks(ranges[i]) : i \in DOMAIN ranges} = sample[2]..sample[3]
            /\ \A i \in DOMAIN ranges :
                /\ Cardinality(blocks(ranges[i])) \in 1..LogBlockRange
                /\ i > 1 => ranges[i].fromBlock = ranges[i - 1].toBlock + 1

\* formatToriumAmount and parseToriumAmount are inverse: an amount survives being
\* written and read, and a written amount that is accepted is written back as it
\* was, but for the trailing zeros of its fraction.
AmountRoundTrip ==
    /\ sample[1] = "amount" =>
        /\ ParseToriumAmount(FormatToriumAmount(sample[2])) = sample[2]
        /\ ParseToriumBaseUnits(FormatToriumBaseUnits(sample[2])) = sample[2]
    /\ sample[1] = "decimal" /\ ParseToriumBaseUnits(sample[2].whole) # -1 =>
        FormatToriumBaseUnits(ParseToriumBaseUnits(sample[2].whole)) = sample[2].whole
    /\ sample[1] = "decimal" =>
        LET value == ParseToriumAmount(sample[2])
        IN  value # -1 => FormatToriumAmount(value) =
                [whole |-> sample[2].whole, fraction |-> Trimmed(sample[2].fraction)]

\* An account survives the conversion to bech32 and back, and an address with any
\* one character changed is refused rather than taken for another account.
AccountRoundTrip ==
    /\ sample[1] = "account" => DecodeAccount(EncodeAccount(sample[2])) = sample[2]
    /\ sample[1] = "typo" =>
        LET words == EncodeAccount(sample[2])
        IN  ~IsToriumAccountAddress([words EXCEPT ![sample[3]] = (@ + sample[4]) % 32])

\* What stringifyToriumJson accepts, parseToriumJson restores: no object of the
\* caller is mistaken for an encoded bigint.
JsonRoundTrip ==
    sample[1] = "json" =>
        LET text == StringifyToriumJson(sample[2])
        IN  text # JsonError => ParseToriumJson(text) = sample[2]

\* Two spellings of one hash, of one piece of data or of one block have one normal
\* form, which is its own normal form: hashes that are compared as strings, as the
\* fingerprint and the runtime code hash are, are compared as values.  A block
\* reference is normal in one reading only, so that no hash is taken for a tag.
NormalFormsAreUnique ==
    /\ sample[1] = "hex" =>
        LET s == sample[2]
            shouted == [s EXCEPT !.chars = [i \in DOMAIN @ |-> IF @[i] = "a" THEN "A" ELSE @[i]]]
        IN  /\ NormalizeToriumHash(shouted) = NormalizeToriumHash(s)
            /\ NormalizeToriumHexData(shouted) = NormalizeToriumHexData(s)
            /\ IsToriumHash(s) => NormalizeToriumHash(NormalizeToriumHash(s)) = NormalizeToriumHash(s)
            /\ IsToriumHexData(s) =>
                NormalizeToriumHexData(NormalizeToriumHexData(s)) = NormalizeToriumHexData(s)
    /\ sample[1] = "reference" =>
        LET normal == NormalizeToriumBlockReference(sample[2])
        IN  normal # Refused => /\ NormalizeToriumBlockReference(normal) = normal
                                /\ DOMAIN normal = DOMAIN sample[2]
    /\ sample[1] = "chain" =>
        LET environment == GetToriumChainById(sample[2])
        IN  environment # "none" => GetToriumChain(environment) = sample[2]

\* The conversions of the SDK lose and invent nothing: amounts, accounts and JSON
\* come back as they were, references have one normal form, and the ranges of a log
\* query cover it exactly.
ConversionsAreExact ==
    /\ AmountRoundTrip /\ AccountRoundTrip /\ JsonRoundTrip
    /\ NormalFormsAreUnique /\ LogRangesExact
=============================================================================
