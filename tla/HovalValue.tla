------------------------------- MODULE HovalValue -------------------------------
(***************************************************************************)
(* Values on their way from and to the bytes of a Hoval message:           *)
(* HovalMessage decodes a body, HovalValue and write() encode one.         *)
(*                                                                         *)
(* A single precision number is [m, k] for m / 2^k, where m has at most 24 *)
(* bits: results are rounded to it half to even, as the processor does.    *)
(***************************************************************************)
EXTENDS HovalMessages

pow10 == [d \in 0..9 |-> 10 ^ d]

MIN(a, b) == IF a < b THEN a ELSE b
MAX(a, b) == IF a > b THEN a ELSE b

-------------------------------------------------------------------------------
(* Integers of the widths a single message can carry.                        *)

Integer == [U8  |-> [bytes |-> 1, least |-> 0,        greatest |-> 255],
            S8  |-> [bytes |-> 1, least |-> -(2^7),   greatest |-> 127],
            U16 |-> [bytes |-> 2, least |-> 0,        greatest |-> 65535],
            S16 |-> [bytes |-> 2, least |-> -(2^15),  greatest |-> 32767]]

\* (uint8_t)value and the like: the value with the same low bits.
cast(value, raw) ==
  Integer[raw].least + ((value - Integer[raw].least) % 2^(8 * Integer[raw].bytes))

bigEndian(body) == IF Len(body) = 1 THEN body[1] ELSE body[1] * 2^8 + body[2]

\* u8Value ... s16Value of HovalMessage: all bits set if the length is not right.
decoded(body, raw) ==
  IF Len(body) # Integer[raw].bytes THEN cast(2^(8 * Integer[raw].bytes) - 1, raw)
  ELSE cast(bigEndian(body), raw)

-------------------------------------------------------------------------------
(* Single precision.                                                         *)

roundHalfEven(a, b) ==
  LET q == a \div b
      r == a % b
  IN  IF 2 * r > b \/ (2 * r = b /\ q % 2 = 1) THEN q + 1 ELSE q

Abs(n)       == IF n < 0 THEN -n ELSE n
signed(n, x) == IF n < 0 THEN -x ELSE x

\* n / d in single precision.
quotient(n, d) ==
  IF n = 0 THEN [m |-> 0, k |-> 0]
  ELSE LET k == CHOOSE k \in 0..30 : Abs(n) * 2^k \in (d * 2^23) .. (d * 2^24 - 1)
       IN  [m |-> signed(n, roundHalfEven(Abs(n) * 2^k, d)), k |-> k]

\* f * factor in single precision, for f >= 0.
product(f, factor) ==
  LET exact == f.m * factor
      s     == CHOOSE s \in 0..7 : exact < 2^(24 + s) /\ (s = 0 \/ exact >= 2^(23 + s))
  IN  [m |-> roundHalfEven(exact, 2^s), k |-> f.k - s]

truncated(f) == f.m \div 2^f.k

\* round() of f * factor in double precision, which is exact: half away from zero.
rounded(f, factor) ==
  LET exact == Abs(f.m) * factor
  IN  signed(f.m, IF f.k = 0 THEN exact ELSE (exact + 2^(f.k - 1)) \div 2^f.k)

\* Variant: divides before it converts.
toFloatWhole(rawValue, decimals) == quotient(rawValue \div pow10[decimals], 1)

toFloat(rawValue, decimals) == quotient(rawValue, pow10[decimals])

floatValue(body, type) == toFloat(decoded(body, type.rawType), type.decimals)

-------------------------------------------------------------------------------
(* From a value to the bytes of a write request.                             *)

HovalValue(value, dataType) == [value |-> value, type |-> dataType]

\* The limit at UINT32_MAX or INT32_MAX is beyond what 16 bits and the decimals
\* of a type can reach.
scale(value, decimals) == value * pow10[decimals]

\* Variant: truncates.
scaleFloatTruncated(f, decimals) == truncated([m |-> f.m * pow10[decimals], k |-> f.k])

scaleFloat(f, decimals) == rounded(f, pow10[decimals])

\* u8Value, s8Value, u16Value, s16Value of HovalValue.
integerValue(v, raw, decimals) ==
  LET wide     == Integer[raw].bytes = 2
      unsigned == Integer[raw].least = 0
  IN  CASE v.type \in {"BOOL", "UINT8", "LIST"} \/ (wide /\ v.type = "UINT16") ->
             cast(scale(v.value, decimals), raw)
        [] v.type = "INT8" \/ (wide /\ v.type = "INT16") ->
             cast(scale(IF unsigned THEN MAX(0, v.value) ELSE v.value, decimals), raw)
        [] v.type = "FLOAT" ->
             MIN(MAX(scaleFloat(v.value, decimals), Integer[raw].least), Integer[raw].greatest)
        [] OTHER -> 0

\* Variant: no upper bound.
checkLowerBound(value, raw, minValue, maxValue) ==
  IF minValue # INT32_MIN /\ value < minValue THEN MAX(minValue, Integer[raw].least) ELSE value

checkBounds(value, raw, minValue, maxValue) ==
  LET least    == Integer[raw].least
      greatest == Integer[raw].greatest
  IN  IF minValue # INT32_MIN /\ value < minValue
      THEN IF minValue < least THEN least ELSE cast(minValue, raw)
      ELSE IF maxValue # INT32_MAX /\ value > maxValue
      THEN IF maxValue > greatest THEN greatest ELSE cast(maxValue, raw)
      ELSE value

\* Variant: the low byte is not masked.
bytesUnmasked(value, raw) ==
  IF Integer[raw].bytes = 1 THEN <<value % 2^8>> ELSE <<(value % 2^16) \div 2^8, value>>

bytes(value, raw) ==
  IF Integer[raw].bytes = 1 THEN <<value % 2^8>>
  ELSE <<(value % 2^16) \div 2^8, value % 2^8>>

\* The body write() queues; types that need a multi-part message have none.
written(type, v) ==
  bytes(checkBounds(integerValue(v, type.rawType, type.decimals), type.rawType,
                    type.minValue, type.maxValue), type.rawType)
===============================================================================
