---------------------------- MODULE ExactOperations ----------------------------
(***************************************************************************)
(* What the arithmetic of Cangjie means, on numbers: an operation is the   *)
(* mathematical one, and a result outside the type wraps, is an exception, *)
(* or is the nearest value of the type.                                    *)
(***************************************************************************)
EXTENDS Operations

\* A power, as far as it tells more than that it is beyond every type.
Power[b \in Int, e \in Nat] ==
  IF e = 0 THEN 1
  ELSE LET p == Power[b, e - 1]
       IN IF Abs(p) <= Infinity THEN b * p ELSE IF b < 0 THEN -p ELSE p

PowerModulo[m \in Nat, b \in Int, e \in Nat] ==
  IF e = 0 THEN 1 % m ELSE (b * PowerModulo[m, b, e - 1]) % m

\* Bit by bit: the value whose bit k is f of the bits k.
BitOf(x, k) == (x \div 2 ^ k) % 2
EachBit(w, Op(_, _), u, v) ==
  LET sum[k \in 0 .. Bits[w]] ==
        IF k = 0 THEN 0
        ELSE sum[k - 1] + (IF Op(BitOf(u, k - 1), BitOf(v, k - 1)) THEN 2 ^ (k - 1) ELSE 0)
  IN sum[Bits[w]]

\* The quotient towards zero: the remainder has the sign of the dividend.
QuotientOf(a, b) ==
  CHOOSE q \in -Abs(a) .. Abs(a) :
    LET r == a - q * b IN Abs(r) < Abs(b) /\ (r = 0 \/ (r < 0) = (a < 0))

\* The number an operation stands for, on operands of its type.
Meaning(name, w, x, y) ==
  CASE name = "ADD" -> x + y
    [] name = "SUB" -> x - y
    [] name = "MUL" -> x * y
    [] name = "DIV" -> QuotientOf(x, y)
    [] name = "REM" -> x - y * QuotientOf(x, y)
    [] name = "POW" -> Power[x, y]
    [] name = "LSL" -> x * Power[2, y]
    [] name = "LSR" -> x \div Power[2, y]
    [] name = "ASR" -> x \div Power[2, y]
    [] name = "AND" -> EachBit(w, LAMBDA a, b : a = 1 /\ b = 1, x, y)
    [] name = "OR"  -> EachBit(w, LAMBDA a, b : a = 1 \/ b = 1, x, y)
    [] name = "XOR" -> EachBit(w, LAMBDA a, b : a # b, x, y)

Read(signed, w, v) == IF signed THEN Signed(w, v) ELSE Unsigned(w, v)
Fits(signed, w, x) ==
  x \in (IF signed THEN SMin(w) ELSE 0) .. (IF signed THEN SMax(w) ELSE UMax(w))

\* A result may be read at its width: its upper bits are not looked at.
Same(w, v, x) == Unsigned(w, v) = Unsigned(w, x)

WrappingNames ==
  [ADD |-> <<"ADD", FALSE>>, SUB |-> <<"SUB", FALSE>>, MUL |-> <<"MUL", FALSE>>,
   AND |-> <<"AND", FALSE>>, OR |-> <<"OR", FALSE>>, XOR |-> <<"XOR", FALSE>>,
   LSR |-> <<"LSR", FALSE>>, LSL |-> <<"LSL", FALSE>>, ASR |-> <<"ASR", TRUE>>,
   POW |-> <<"POW", FALSE>>, UDIV |-> <<"DIV", FALSE>>, UREM |-> <<"REM", FALSE>>,
   SDIV |-> <<"DIV", TRUE>>, SREM |-> <<"REM", TRUE>>]

\* Shifts take as many bits of the count as the width has.
WrappingIs(w, op, l, r, v) ==
  LET name == WrappingNames[op]
      x == Read(name[2], w, l)
      y == IF name[1] \in {"LSL", "LSR", "ASR"} THEN r % Bits[w] ELSE Read(name[2], w, r)
  IN Same(w, v, IF op = "POW" THEN PowerModulo[2 ^ Bits[w], x, y]
                ELSE Meaning(name[1], w, x, y))

CheckedNames ==
  [CADD |-> <<"ADD", TRUE, "AddOverflow">>, CSUB |-> <<"SUB", TRUE, "SubOverflow">>,
   CMUL |-> <<"MUL", TRUE, "MulOverflow">>, CDIV |-> <<"DIV", TRUE, "DivOverflow">>,
   CUADD |-> <<"ADD", FALSE, "AddOverflow">>, CUSUB |-> <<"SUB", FALSE, "SubOverflow">>,
   CUMUL |-> <<"MUL", FALSE, "MulOverflow">>, CPOW |-> <<"POW", TRUE, "PowOverflow">>]

\* The exception of an operation, or Successful.
CheckedException(w, op, l, r) ==
  LET name == CheckedNames[op]
      x == Read(name[2], w, l)
      y == Read(name[2] /\ op # "CPOW", w, r)
  IN IF op = "CDIV" /\ y = 0 THEN "Arithmetic"
     ELSE IF Fits(name[2], w, Meaning(name[1], w, x, y)) THEN "Successful" ELSE name[3]

CheckedIs(w, op, l, r, v) ==
  LET name == CheckedNames[op]
  IN Same(w, v, Meaning(name[1], w, Read(name[2], w, l), Read(name[2] /\ op # "CPOW", w, r)))

SaturatingNames ==
  [SADD |-> <<"ADD", TRUE>>, SSUB |-> <<"SUB", TRUE>>, SMUL |-> <<"MUL", TRUE>>,
   SDIV |-> <<"DIV", TRUE>>, SPOW |-> <<"POW", TRUE>>, SUADD |-> <<"ADD", FALSE>>,
   SUSUB |-> <<"SUB", FALSE>>, SUMUL |-> <<"MUL", FALSE>>, SUDIV |-> <<"DIV", FALSE>>,
   SUMOD |-> <<"REM", FALSE>>]

Nearest(signed, w, x) ==
  LET lo == IF signed THEN SMin(w) ELSE 0
      hi == IF signed THEN SMax(w) ELSE UMax(w)
  IN IF x < lo THEN lo ELSE IF x > hi THEN hi ELSE x

SaturatingIs(w, op, l, r, v) ==
  LET name == SaturatingNames[op]
      x == Read(name[2], w, l)
      y == Read(name[2] /\ op # "SPOW", w, r)
  IN Same(w, v, Nearest(name[2], w, Meaning(name[1], w, x, y)))

TowardsZero(halves) == IF halves < 0 THEN -((-halves) \div 2) ELSE halves \div 2

\* A conversion between integers keeps the value modulo the width of the
\* target; from a float it truncates, and saturates.
ConvertIs(to, from, l, v) ==
  IF to \in FloatTypes \/ (from \in FloatTypes
                          /\ FloatOf[WidthOf[from]][Unsigned(WidthOf[from], l)].nan)
  THEN TRUE
  ELSE LET number == IF from \in FloatTypes
                     THEN Nearest(to \in SignedTypes, WidthOf[to],
                            TowardsZero(FloatOf[WidthOf[from]][Unsigned(WidthOf[from], l)].halves))
                     ELSE Number(from, l)
       IN Same(WidthOf[to], v, number)

CheckedConvertException(to, from, l) ==
  LET float == FloatOf[WidthOf[from]][Unsigned(WidthOf[from], l)]
      number == IF from \in FloatTypes THEN TowardsZero(float.halves) ELSE Number(from, l)
  IN IF from \in FloatTypes /\ (float.nan \/ Abs(float.halves) >= Infinity)
     THEN "CastInfOrNaN"
     ELSE IF Fits(to \in SignedTypes, WidthOf[to], number) THEN "Successful"
     ELSE IF number < 0 THEN "CastMin" ELSE "CastMax"
================================================================================
