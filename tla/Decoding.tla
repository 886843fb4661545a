------------------------------ MODULE Decoding ------------------------------
(***************************************************************************)
(* What becomes of the payload of a message: the decoders, which make a    *)
(* list of values of it, and the derived functions, which make a value of  *)
(* some of these.  A value is a byte, written as two hexadecimal digits.   *)
(* A float is the word of its four bytes, the most significant first.      *)
(***************************************************************************)
EXTENDS Integers, Sequences, FiniteSets

-----------------------------------------------------------------------------
(* Decoders.  A payload is [kind, items]: an array or object with a value  *)
(* per key, pairs, hexadecimal digits, or a plain text.                    *)

Digits == 0 .. 15
Bytes == 0 .. 255

\* The digits of a key, and the order of texts, which is what sort() compares: "10" comes
\* before "2".
Text(key) ==
    LET text[n \in 0 .. key] == IF n < 10 THEN <<n>> ELSE Append(text[n \div 10], n % 10)
    IN text[key]
Precedes(s, t) ==
    \/ \E i \in DOMAIN s \cap DOMAIN t : s[i] < t[i] /\ \A h \in 1 .. i - 1 : s[h] = t[h]
    \/ Len(s) < Len(t) /\ \A h \in DOMAIN s : s[h] = t[h]
Before(j, k) == Precedes(Text(j), Text(k))

\* JSON: the values of an array, whose keys are "0", "1", ..., by the order of its keys.
SortedByKey(items) ==
    LET keys == 0 .. Len(items) - 1
        rank(k) == Cardinality({j \in keys : Before(j, k)})
    IN [i \in DOMAIN items |-> items[(CHOOSE k \in keys : rank(k) = i - 1) + 1]]

\* HEX: two digits are a byte; a digit that is left over gets a zero at its right.
HexChunks(digits) ==
    [i \in 1 .. (Len(digits) + 1) \div 2 |->
        16 * digits[2 * i - 1] + (IF 2 * i > Len(digits) THEN 0 ELSE digits[2 * i])]

\* maxReadingVariables, where 0 is none.
Limited(values, limit) ==
    IF limit > 0 /\ limit < Len(values) THEN SubSeq(values, 1, limit) ELSE values

\* The first decoder that can handle a payload decodes it, in the order JSON, KV, HEX;
\* what no decoder takes is one value, unlimited, and an empty payload none.
Decode(payload, limit) ==
    CASE payload.kind = "JSON" -> Limited(SortedByKey(payload.items), limit)
      [] payload.kind = "KV"   -> Limited(payload.items, limit)
      [] payload.kind = "HEX"  -> Limited(HexChunks(payload.items), limit)
      [] payload.kind = "text" -> payload.items

-----------------------------------------------------------------------------
(* derived-function-handlers.ts *)

BYTE_ORDERS == [ABCD |-> <<0, 1, 2, 3>>, BADC |-> <<1, 0, 3, 2>>,
                DCBA |-> <<3, 2, 1, 0>>, CDAB |-> <<2, 3, 0, 1>>]
Orders == DOMAIN BYTE_ORDERS
TwoByteOrders == {"AB", "BA"}
Bits == 0 .. 7

Words == [1 .. 4 -> Bytes]

\* Each byte of the input goes to where the order says.
FloatWord(bytes, order) ==
    [pos \in 1 .. 4 |-> bytes[CHOOSE i \in 1 .. 4 : BYTE_ORDERS[order][i] = pos - 1]]

\* The float of a word is a multiple of a quarter: its digits below that are zero.
Quarters(word) ==
    LET exponent == 2 * (word[1] % 128) + word[2] \div 128
        significand == 2 ^ 23 + 65536 * (word[2] % 128) + 256 * word[3] + word[4]
    IN \/ word = <<0, 0, 0, 0>>
       \/ /\ exponent \in 125 .. 254
          /\ exponent < 148 => significand % (2 ^ (148 - exponent)) = 0

\* toFixed(2) leaves a multiple of a quarter as it is; what it makes of another float
\* is left open.
FloatFromOrder(bytes, order) ==
    IF Quarters(FloatWord(bytes, order)) THEN {FloatWord(bytes, order)} ELSE Words

\* Mutant: the word is taken from its end.
FloatToOrderTurned(word, order) == [i \in 1 .. 4 |-> word[4 - BYTE_ORDERS[order][i]]]

\* Each byte of the output comes from where the order says; floatToBytes does the same.
FloatToOrder(word, order) == [i \in 1 .. 4 |-> word[BYTE_ORDERS[order][i] + 1]]

\* setUint8 takes Number(v): digits are read as decimals, and letters are no number.
NumberOf(byte) == LET tens == byte \div 16  ones == byte % 16
                  IN IF tens > 9 \/ ones > 9 THEN 0 ELSE 10 * tens + ones
BytesToFloat(bytes, order) == [i \in 1 .. 4 |-> NumberOf(bytes[BYTE_ORDERS[order][i] + 1])]

HexToBit(byte, bit) == (byte \div (2 ^ bit)) % 2

\* bin is a text of eight binary digits, the first of them bin[1].
BitToHex(bin, reverse) ==
    LET digit(i) == bin[IF reverse THEN 9 - i ELSE i]
    IN   128 * digit(1) + 64 * digit(2) + 32 * digit(3) + 16 * digit(4)
       + 8 * digit(5) + 4 * digit(6) + 2 * digit(7) + digit(8)

HexToDecimal2Bytes(bytes, order) ==
    IF order = "AB" THEN 256 * bytes[1] + bytes[2] ELSE 256 * bytes[2] + bytes[1]

\* (unsigned << 16) >> 16, on 32 bits.
HexToSignedDecimal2Bytes(bytes, order) ==
    LET unsigned == HexToDecimal2Bytes(bytes, order)
    IN IF unsigned < 2 ^ 15 THEN unsigned ELSE unsigned - 2 ^ 16

DecimalToHex2Bytes(num, order) ==
    LET A == num \div 256  B == num % 256
    IN IF order = "AB" THEN <<A, B>> ELSE <<B, A>>

-----------------------------------------------------------------------------
(* The functions a variable may name: [name, order or bit] *)

Ordered(name, orders) == [name : {name}, order : orders, bit : {0}]
Plain(name) == Ordered(name, {"-"})
HexToBits == [name : {"HEX_TO_BIT"}, order : {"-"}, bit : Bits]

\* function-registry.ts: {} for a function it does not know.
ParameterCount(f) ==
    CASE f.name = "bytesToFloat" -> IF f.order \in {"ABCD", "DCBA"} THEN {4} ELSE {}
      [] f.name \in {"float", "BYTE_TO_REAL"} -> {4}
      [] f.name = "HEX_TO_DECIMAL" -> IF f.order \in TwoByteOrders THEN {2} ELSE {1}
      [] f.name = "BYTE_SWAP" -> {2}
      [] f.name \in {"HEX_TO_BIT", "HEX_TO_INDEX", "floatTo", "DECIMAL_TO_HEX", "BYTE"} -> {1}
      [] OTHER -> {}

\* Those of them whose usage is READ.
ReadFunctions ==
    Ordered("float", Orders) \cup Ordered("bytesToFloat", {"ABCD", "DCBA"})
    \cup Ordered("HEX_TO_DECIMAL", TwoByteOrders \cup {"-"}) \cup HexToBits
    \cup Plain("BYTE_TO_REAL") \cup Plain("HEX_TO_INDEX")

\* The keys of DerivedFunctionHandlers, some of which have no parameter count.
DerivedFunctions ==
    (UNION {Ordered(name, Orders) : name \in {"float", "floatTo", "bytesToFloat", "floatToBytes"}})
    \cup (UNION {Ordered(name, TwoByteOrders) :
                   name \in {"HEX_TO_DECIMAL", "HEX_TO_SIGNED_DECIMAL", "DECIMAL_TO_HEX"}})
    \cup HexToBits \cup Plain("BYTE") \cup Plain("BYTE_SWAP")

\* A handler that gets a wrong number of values throws, BYTE does when a value is no
\* text of binary digits, and DECIMAL_TO_HEX when its number does not fit in two bytes.
Throws(f, inputs) ==
    CASE f.name \in {"float", "bytesToFloat"} -> Len(inputs) # 4
      [] f.name \in {"HEX_TO_DECIMAL", "HEX_TO_SIGNED_DECIMAL"} -> Len(inputs) # 2
      [] f.name \in {"floatTo", "floatToBytes"} -> Len(inputs) # 1
      [] f.name = "DECIMAL_TO_HEX" -> Len(inputs) # 1 \/ NumberOf(inputs[1]) \notin 0 .. 65535
      [] f.name = "HEX_TO_BIT" -> inputs = <<>>
      [] f.name \in {"BYTE", "BYTE_SWAP"} ->
            inputs = <<>> \/ inputs[1] \div 16 > 1 \/ inputs[1] % 16 > 1

-----------------------------------------------------------------------------
(* calculateReadingValue.  A variable is [fn, start, seq], fn being {} or  *)
(* {a function}.                                                           *)

\* Mutant: one value too few is enough.
EnoughButOne(start, count, values) == start + count <= Len(values) + 1

Enough(start, count, values) == start + count <= Len(values)

\* A place that slice is given: a negative one counts from the end.
Place(values, i) ==
    IF i >= 0 THEN (IF i < Len(values) THEN i ELSE Len(values))
    ELSE IF Len(values) + i > 0 THEN Len(values) + i ELSE 0
Slice(values, from, to) == SubSeq(values, Place(values, from) + 1, Place(values, to))

\* What a variable gets of the values of a message: "value", "skip" or "throw".
Calculate(variable, values, useFunction) ==
    IF useFunction /\ variable.fn # {}
    THEN LET f == CHOOSE g \in variable.fn : TRUE
             counts == {c \in ParameterCount(f) : Enough(variable.start, c, values)}
         IN IF counts = {} \/ f \notin DerivedFunctions THEN "skip"
            ELSE LET count == CHOOSE c \in counts : TRUE
                     inputs == Slice(values, variable.start, variable.start + count)
                 IN IF Throws(f, inputs) THEN "throw" ELSE "value"
    ELSE IF variable.seq \in 1 .. Len(values) THEN "value" ELSE "skip"

=============================================================================
