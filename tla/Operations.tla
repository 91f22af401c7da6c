------------------------------ MODULE Operations ------------------------------
(***************************************************************************)
(* The operations of the interpreter on the values of its registers:       *)
(* interpreter/internal/operations.h, casts.h, the operands of             *)
(* interpreter.h.                                                          *)
(*                                                                         *)
(* A register holds 64 bits.  An operation of a narrower width reads the   *)
(* low bits of its operands, and leaves its result extended to 32 bits, by *)
(* the sign or by zeros after the C++ type it computed in: the upper half  *)
(* of the register is not read again, and is zero here.  The widths are    *)
(* parameters, so that TLC can take all operands of a small machine.       *)
(***************************************************************************)
EXTENDS Integers, Sequences, Bitwise

CONSTANTS
  Bits,            \* Bits[w]: the bits of the width w
  ShortBits,       \* the bits of an immediate inside an instruction, 12
  FloatOf,         \* FloatOf[w][p]: the value of the float with bits p
  FloatFrom(_, _), \* FloatFrom(w, h): the bits of the float nearest to h / 2
  FloatArith(_, _, _, _)  \* the bits of the result of an operation of the FPU

Widths == {"W8", "W16", "W32", "W64"}
Words == 0 .. 2 ^ Bits["W64"] - 1

ASSUME WidthsAssumption ==
  /\ Bits \in [Widths -> Nat \ {0}]
  /\ Bits["W8"] < Bits["W16"] /\ Bits["W16"] < Bits["W32"] /\ Bits["W32"] < Bits["W64"]
  /\ ShortBits \in 1 .. Bits["W64"]

\* A float is a number of halves, or not a number; Infinity is beyond every
\* integer.
Infinity == 2 ^ (Bits["W64"] + 8)

(***************************************************************************)
(* Reading and writing registers                                           *)
(***************************************************************************)
Unsigned(w, v) == v % 2 ^ Bits[w]

Signed(w, v) ==
  LET u == Unsigned(w, v) IN IF u < 2 ^ (Bits[w] - 1) THEN u ELSE u - 2 ^ Bits[w]

\* What a register holds for the number x of the width w.
Make(w, x) == x % 2 ^ Bits[IF w = "W64" THEN "W64" ELSE "W32"]

SMin(w) == -(2 ^ (Bits[w] - 1))
SMax(w) == 2 ^ (Bits[w] - 1) - 1
UMax(w) == 2 ^ Bits[w] - 1

SignExtend(v, n) ==
  IF n = 0 THEN 0
  ELSE LET u == v % 2 ^ n
       IN (IF u < 2 ^ (n - 1) THEN u ELSE u - 2 ^ n) % 2 ^ Bits["W64"]

\* An immediate of an instruction is a short signed value, or the index of
\* a literal.
DecodeImmediate(kind, value, literals) ==
  IF kind = "VALUE" THEN SignExtend(value, ShortBits) ELSE literals[value]

Abs(x) == IF x < 0 THEN -x ELSE x
Clamp(x, lo, hi) == IF x < lo THEN lo ELSE IF x > hi THEN hi ELSE x

\* C++ divides towards zero.
Quotient(a, b) == (IF (a < 0) = (b < 0) THEN 1 ELSE -1) * (Abs(a) \div Abs(b))
Remainder(a, b) == a - b * Quotient(a, b)

(***************************************************************************)
(* Arithmetic.  A result is [ok, v], or [exc, v] where it may throw.       *)
(***************************************************************************)
RECURSIVE PowWrapping(_, _, _)
PowWrapping(result, base, exp) ==
  IF exp = 0 THEN result
  ELSE PowWrapping(IF exp % 2 = 1 THEN Unsigned("W64", result * base) ELSE result,
                   Unsigned("W64", base * base), exp \div 2)

\* Common operations exist for two widths.
Arith(w, op, l, r) ==
  LET u == Unsigned(w, l)  v == Unsigned(w, r)
      s == Signed(w, l)    t == Signed(w, r)
      shift == r % Bits[w]
      Is(x) == [ok |-> TRUE, v |-> Unsigned(w, x)]
      Stop == [ok |-> FALSE, v |-> l]
  IN CASE op = "ADD" -> Is(u + v)
       [] op = "SUB" -> Is(u - v)
       [] op = "MUL" -> Is(u * v)
       [] op = "AND" -> Is(u & v)
       [] op = "OR"  -> Is(u | v)
       [] op = "XOR" -> Is(u ^^ v)
       [] op = "LSR" -> Is(u \div 2 ^ shift)
       [] op = "LSL" -> Is(u * 2 ^ shift)
       [] op = "ASR" -> Is(s \div 2 ^ shift)
       [] op = "POW" -> Is(PowWrapping(1, u, v))
       [] op = "UDIV" -> IF v = 0 THEN Stop ELSE Is(u \div v)
       [] op = "UREM" -> IF v = 0 THEN Stop ELSE Is(u % v)
       [] op = "SDIV" -> IF t = 0 THEN Stop
                         ELSE IF s = SMin(w) /\ t = -1 THEN Is(s)
                         ELSE Is(Quotient(s, t))
       [] op = "SREM" -> IF t = 0 THEN Stop
                         ELSE IF s = SMin(w) /\ t = -1 THEN Is(0)
                         ELSE Is(Remainder(s, t))

\* CPOW squares the base as long as bits of the exponent are left.
RECURSIVE CheckedPow(_, _, _, _)
CheckedPow(w, result, base, exp) ==
  LET fits(x) == x \in SMin(w) .. SMax(w)
      product == IF exp % 2 = 1 THEN result * base ELSE result
      Overflow == [exc |-> "PowOverflow", v |-> 0]
  IN IF exp = 0 THEN [exc |-> "Successful", v |-> Make(w, result)]
     ELSE IF ~fits(product) THEN Overflow
     ELSE IF exp \div 2 = 0 THEN [exc |-> "Successful", v |-> Make(w, product)]
     ELSE IF ~fits(base * base) THEN Overflow
     ELSE CheckedPow(w, product, base * base, exp \div 2)

CheckedArith(w, op, l, r) ==
  LET u == Unsigned(w, l)  v == Unsigned(w, r)
      s == Signed(w, l)    t == Signed(w, r)
      Throw(e) == [exc |-> e, v |-> l]
      Is(x) == [exc |-> "Successful", v |-> Make(w, x)]
      SignedIs(x, e) == IF x \in SMin(w) .. SMax(w) THEN Is(x) ELSE Throw(e)
      UnsignedIs(x, e) == IF x \in 0 .. UMax(w) THEN Is(x) ELSE Throw(e)
      Shift(x, overflow, negative) ==
        IF t >= Bits[w] THEN Throw(overflow) ELSE IF t < 0 THEN Throw(negative) ELSE x
  IN CASE op = "CADD" -> SignedIs(s + t, "AddOverflow")
       [] op = "CSUB" -> SignedIs(s - t, "SubOverflow")
       [] op = "CMUL" -> SignedIs(s * t, "MulOverflow")
       [] op = "CDIV" -> IF t = 0 THEN Throw("Arithmetic")
                         ELSE IF s = SMin(w) /\ t = -1 THEN Throw("DivOverflow")
                         ELSE Is(Quotient(s, t))
       [] op = "CUADD" -> UnsignedIs(u + v, "AddOverflow")
       [] op = "CUSUB" -> UnsignedIs(u - v, "SubOverflow")
       [] op = "CUMUL" -> UnsignedIs(u * v, "MulOverflow")
       [] op = "CPOW" -> CheckedPow(w, 1, s, v)
       [] op = "CLSL" -> Shift(Is(Unsigned(w, u * 2 ^ Abs(t))), "LshOverflow", "LshNegative")
       [] op = "CLSR" -> Shift(Is(u \div 2 ^ Abs(t)), "RshOverflow", "RshNegative")
       [] op = "CASR" -> Shift(Is(s \div 2 ^ Abs(t)), "AshOverflow", "AshNegative")

\* SPOW multiplies until the exponent is used up or the product has left the
\* range; then the factors that are left decide its sign.
RECURSIVE SatPow(_, _, _, _)
SatPow(w, acc, base, exp) ==
  LET inside == acc \in SMin(w) .. SMax(w)
      negative == (acc < 0) # (base < 0 /\ exp % 2 = 1)
  IN IF ~inside THEN (IF negative THEN SMin(w) ELSE SMax(w))
     ELSE IF exp = 0 THEN acc
     ELSE SatPow(w, acc * base, base, exp - 1)

SatArith(w, op, l, r) ==
  LET u == Unsigned(w, l)  v == Unsigned(w, r)
      s == Signed(w, l)    t == Signed(w, r)
      S(x) == Make(w, Clamp(x, SMin(w), SMax(w)))
      U(x) == Make(w, Clamp(x, 0, UMax(w)))
  IN CASE op = "SADD" -> S(s + t)
       [] op = "SSUB" -> S(s - t)
       [] op = "SMUL" -> S(s * t)
       [] op = "SDIV" -> IF t = -1 /\ s = SMin(w) THEN Make(w, SMax(w))
                         ELSE Make(w, Quotient(s, t))
       [] op = "SMOD" -> IF t = -1 /\ s = SMin(w) THEN 0 ELSE Make(w, Remainder(s, t))
       [] op = "SPOW" -> Make(w, CASE s = 0 -> IF v = 0 THEN 1 ELSE 0
                                   [] s = 1 -> 1
                                   [] s = -1 -> IF v % 2 = 1 THEN -1 ELSE 1
                                   [] OTHER -> SatPow(w, 1, s, v))
       [] op = "SLSL" -> S(s * 2 ^ Clamp(t, 0, Bits[w] - 1))
       [] op = "SASR" -> Make(w, s \div 2 ^ Clamp(t, 0, Bits[w] - 1))
       [] op = "SUADD" -> U(u + v)
       [] op = "SUSUB" -> U(u - v)
       [] op = "SUMUL" -> U(u * v)
       [] op = "SUDIV" -> Make(w, u \div v)
       [] op = "SUMOD" -> Make(w, u % v)
       [] op = "SULSL" -> U(u * 2 ^ Clamp(v, 0, Bits[w] - 1))
       [] op = "SULSR" -> Make(w, u \div 2 ^ Clamp(v, 0, Bits[w] - 1))

(***************************************************************************)
(* Comparisons                                                             *)
(***************************************************************************)
CompareInt(cc, w, l, r) ==
  LET u == Unsigned(w, l)  v == Unsigned(w, r)
  IN CASE cc \in {"EQ", "REQ"} -> u = v
       [] cc \in {"NE", "RNE"} -> u # v
       [] cc = "LT"  -> Signed(w, l) < Signed(w, r)
       [] cc = "GE"  -> Signed(w, l) >= Signed(w, r)
       [] cc = "ULT" -> u < v
       [] cc = "UGE" -> u >= v
       [] cc = "TESTZ"  -> u & v = 0
       [] cc = "TESTNZ" -> u & v # 0

\* A comparison with a NaN is false; its negation is a condition of its own.
CompareFloat(cc, w, l, r) ==
  LET x == FloatOf[w][Unsigned(w, l)]  y == FloatOf[w][Unsigned(w, r)]
      ordered == ~x.nan /\ ~y.nan
  IN CASE cc = "FEQ"  -> ordered /\ x.halves = y.halves
       [] cc = "FNE"  -> ~(ordered /\ x.halves = y.halves)
       [] cc = "FGE"  -> ordered /\ x.halves >= y.halves
       [] cc = "FNGE" -> ~(ordered /\ x.halves >= y.halves)
       [] cc = "FLT"  -> ordered /\ x.halves < y.halves
       [] cc = "FNLT" -> ~(ordered /\ x.halves < y.halves)

FloatConditions == {"FEQ", "FNE", "FGE", "FNGE", "FLT", "FNLT"}

Compare(cc, w, l, r) ==
  IF cc \in FloatConditions THEN CompareFloat(cc, w, l, r) ELSE CompareInt(cc, w, l, r)

(***************************************************************************)
(* Conversions                                                             *)
(***************************************************************************)
WidthOf == [I8 |-> "W8", U8 |-> "W8", I16 |-> "W16", U16 |-> "W16",
            I32 |-> "W32", U32 |-> "W32", I64 |-> "W64", U64 |-> "W64",
            F32 |-> "W32", F64 |-> "W64"]
SignedTypes == {"I8", "I16", "I32", "I64"}
FloatTypes == {"F32", "F64"}
IntTypes == DOMAIN WidthOf \ FloatTypes

Number(type, v) ==
  IF type \in SignedTypes THEN Signed(WidthOf[type], v) ELSE Unsigned(WidthOf[type], v)
MinOf(type) == IF type \in SignedTypes THEN SMin(WidthOf[type]) ELSE 0
MaxOf(type) == IF type \in SignedTypes THEN SMax(WidthOf[type]) ELSE UMax(WidthOf[type])

\* The pairs CastPrim supports.
CastTargets ==
  [I32 |-> {"I8", "U8", "I16", "U16", "I64", "F32", "F64"},
   U32 |-> {"I8", "U8", "I16", "U16", "I64", "F32", "F64"},
   I64 |-> {"I32", "F32", "F64"}, U64 |-> {"I32", "U32", "F32", "F64"},
   F32 |-> IntTypes \cup {"F64"}, F64 |-> IntTypes \cup {"F32"}]

\* An integer is read in the narrower of the two types and extended to 64 bits.
CastInt(to, from, v) ==
  LET narrow == IF Bits[WidthOf[from]] < Bits[WidthOf[to]] THEN from ELSE to
  IN Number(narrow, v) % 2 ^ Bits["W64"]

Truncated(halves) == Quotient(halves, 2)

\* The largest integer rounded up to a float, and the float itself let through.
CastFpToIntInclusive(to, w, x) ==
  LET top == FloatOf[w][FloatFrom(w, 2 * MaxOf(to))].halves
  IN (IF x.nan THEN 0
      ELSE IF x.halves > top THEN MaxOf(to)
      ELSE IF x.halves <= 2 * MinOf(to) THEN MinOf(to)
      ELSE Truncated(x.halves)) % 2 ^ Bits["W64"]

\* The bounds are compared as floats: the one nearest to the largest integer.
CastFpToInt(to, w, x) ==
  LET top == FloatOf[w][FloatFrom(w, 2 * MaxOf(to))].halves
  IN (IF x.nan THEN 0
      ELSE IF x.halves >= top THEN MaxOf(to)
      ELSE IF x.halves <= 2 * MinOf(to) THEN MinOf(to)
      ELSE Truncated(x.halves)) % 2 ^ Bits["W64"]

CastPrim(to, from, v) ==
  LET x == FloatOf[WidthOf[from]][Unsigned(WidthOf[from], v)]
  IN CASE from \in FloatTypes /\ to \in FloatTypes ->
            FloatArith("convert", WidthOf[to], v, v)
       [] from \in FloatTypes /\ to \in IntTypes -> CastFpToInt(to, WidthOf[from], x)
       [] from \in IntTypes /\ to \in FloatTypes ->
            FloatFrom(WidthOf[to], 2 * Number(from, v))
       [] from \in IntTypes /\ to \in IntTypes -> CastInt(to, from, v)

CheckedCastFromInt(to, x) ==
  IF x < MinOf(to) THEN [exc |-> "CastMin", v |-> 0]
  ELSE IF x > MaxOf(to) THEN [exc |-> "CastMax", v |-> 0]
  ELSE [exc |-> "Successful", v |-> x % 2 ^ Bits["W64"]]

\* The bounds are half-open: an upper bound that is a power of two is exact.
CheckedCastFromFp(to, x) ==
  LET truncated == Truncated(x.halves)
  IN IF x.nan \/ Abs(x.halves) >= Infinity THEN [exc |-> "CastInfOrNaN", v |-> 0]
     ELSE IF truncated < MinOf(to) THEN [exc |-> "CastMin", v |-> 0]
     ELSE IF truncated >= MaxOf(to) + 1 THEN [exc |-> "CastMax", v |-> 0]
     ELSE [exc |-> "Successful", v |-> truncated % 2 ^ Bits["W64"]]

CheckedCastPrim(to, from, v) ==
  IF from \in FloatTypes
  THEN CheckedCastFromFp(to, FloatOf[WidthOf[from]][Unsigned(WidthOf[from], v)])
  ELSE CheckedCastFromInt(to, Number(from, v))

BitFieldExtract(v, offset, size, sx) ==
  LET field == IF size > 0 THEN (v \div 2 ^ offset) % 2 ^ size ELSE 0
  IN IF sx THEN SignExtend(field, size) ELSE field
==============================================================================
