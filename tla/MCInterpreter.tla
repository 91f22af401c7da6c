----------------------------- MODULE MCInterpreter -----------------------------
(***************************************************************************)
(* A machine with bytes of one bit: words have 8 bits, and the "32-bit"    *)
(* values 4.  All operands of 32 bits and less are taken, and the ones at  *)
(* the bounds of 64 bits.  Memory has 128 bytes: the outgoing parameters   *)
(* at 8, the frame at 24, an object at 48, a static field at 72, an array  *)
(* at 84, and the space of the next object at 100.                         *)
(***************************************************************************)
EXTENDS Interpreter, TLC

MCBits == [W8 |-> 1, W16 |-> 2, W32 |-> 4, W64 |-> 8]

(***************************************************************************)
(* Floats: a sign, and the magnitudes of a table in halves.  The largest   *)
(* integers of the wide types lie between two floats and those of the      *)
(* narrow ones are floats, as in the real formats.                         *)
(***************************************************************************)
Magnitude32 == <<0, 1, 2, 6, 16, 32, Infinity>>
Magnitude(w, m) ==
  IF w = "W32" THEN Magnitude32[m + 1]
  ELSE LET e == m \div 16  f == m % 16
       IN IF e = 0 THEN f ELSE IF e = 7 THEN Infinity ELSE (16 + f) * 2 ^ (e - 1)
Half(w) == 2 ^ (Bits[w] - 1)
NaNFrom(w) == IF w = "W32" THEN 7 ELSE 113

MCFloatOf ==
  [w \in {"W32", "W64"} |-> [p \in 0 .. 2 ^ Bits[w] - 1 |->
     LET m == p % Half(w)
     IN IF m >= NaNFrom(w) THEN [nan |-> TRUE, halves |-> 0]
        ELSE [nan |-> FALSE, halves |-> (IF p >= Half(w) THEN -1 ELSE 1) * Magnitude(w, m)]]]

\* The nearest float: the mantissa is rounded, and may carry into the exponent.
Nearby(w, h) ==
  IF w = "W32" THEN CASE h <= 2 -> h [] h = 3 -> 2 [] h \in 4 .. 10 -> 3 [] h \in 11 .. 23 -> 4
                      [] h \in 24 .. 47 -> 5 [] OTHER -> 6
  ELSE IF h < 16 THEN h
  ELSE IF h >= 1008 THEN 112
  ELSE LET e == CHOOSE e \in 1 .. 6 : h \div 2 ^ (e - 1) \in 16 .. 31
       IN 16 * (e - 1) + (h + 2 ^ (e - 1) \div 2) \div 2 ^ (e - 1)
MCFloatFrom(w, h) == (IF h < 0 THEN Half(w) ELSE 0) + Nearby(w, Abs(h))
MCFloatArith(op, w, a, b) ==
  LET from == IF op # "convert" THEN w ELSE IF w = "W32" THEN "W64" ELSE "W32"
      x == FloatOf[from][Unsigned(from, a)]  y == FloatOf[from][Unsigned(from, b)]
  IN IF x.nan \/ y.nan THEN NaNFrom(w)
     ELSE FloatFrom(w, IF op = "FADD" THEN x.halves + y.halves ELSE x.halves)

(***************************************************************************)
(* Programs                                                                *)
(***************************************************************************)
I(op, fields) ==
  fields @@ [op |-> op, size |-> 2, next |-> {2}, writes |-> {}, spoils |-> {},
             passes |-> {}, throws |-> FALSE, ends |-> FALSE]
D(op, fields) == I(op, fields @@ [writes |-> {fields.d}])
Fallible(i) == [i EXCEPT !.throws = TRUE, !.ends = TRUE]
Finish == [op |-> "RET", size |-> 1, next |-> {}, writes |-> {}, spoils |-> {},
           passes |-> {}, throws |-> FALSE, ends |-> TRUE]

MCTypes ==
  LET T(ref, size, aligned, refs) ==
        [ref |-> ref, size |-> size, aligned |-> aligned, refs |-> refs, fields |-> <<0, 2>>,
         args |-> <<203, 202>>, element |-> 203, below |-> {201, 205}, dataMT |-> <<7, 9>>,
         virtual |-> (<<0, 0>> :> 251 @@ <<0, 1>> :> 120),
         interface |-> (<<202, 0>> :> 252), outer |-> (<<202, 0>> :> 205)]
  IN (201 :> T(FALSE, 12, 16, {2}) @@ 202 :> T(TRUE, 8, 8, {0}) @@ 203 :> T(FALSE, 2, 2, {})
      @@ 205 :> T(FALSE, 14, 16, {4}))

MCTrampolines == [direct |-> 250, sret |-> 252]

Pattern == [a \in 0 .. 127 |-> ((a * a + a \div 3) \div 2) % 2]
Header(m, at, ti) ==
  [a \in DOMAIN m |-> IF a \in BytesAt(at, 8) THEN (ti \div 2 ^ (a - at)) % 2 ELSE m[a]]
Mem(ti) == Header(Header(Pattern, 48, ti), 100, 201)

R(r1, r2, r3, r4) ==
  [r \in IRegs \cup FRegs |-> CASE r = "r1" -> r1 [] r = "r2" -> r2 [] r = "r3" -> r3
                                [] r = "r4" -> r4 [] OTHER -> 0]

P(code, registers, memory) ==
  [code |-> code, literals |-> (0 :> 72 @@ 1 :> 250 @@ 2 :> 1), frame |-> 24, bot |-> 8,
   handler |-> Lost, box |-> 100, arch |-> "x86_64", managed |-> {}, regs |-> registers,
   mem |-> memory]
One(i, registers, memory) == P((0 :> i) @@ (2 :> Finish), registers, memory)

\* Arithmetic: all operands, or those at the bounds.
Operands(w) ==
  IF w = "W64" THEN {0, 1, 2, 3, 7, 11, 85, 127, 128, 129, 254, 255} ELSE 0 .. 2 ^ Bits[w] - 1
Divisions == {"SDIV", "SMOD", "SUDIV", "SUMOD"}
SaturatingOps == DOMAIN Exact!SaturatingNames \cup {"SMOD", "SLSL", "SASR", "SULSL", "SULSR"}
CheckedOps == DOMAIN Exact!CheckedNames \cup {"CLSL", "CLSR", "CASR"}

\* One signed bit holds no 1: powers need a width of 2.
OfWidth(ops, w) == IF w = "W8" THEN ops \ {"CPOW", "SPOW"} ELSE ops

\* An operation is <<opcode, width or type, operation or type, left, right>>.
MCSum(s) ==
  One(Fallible(D(s[1], [d |-> "r3", x |-> "r1", y |-> "r2", from |-> "REG"]
                       @@ IF s[1] \in {"CONVERT", "CHECKED_CONVERT"}
                          THEN [to |-> s[2], fromType |-> s[3]] ELSE [w |-> s[2], f |-> s[3]])),
      R(s[4], s[5], 0, 0), <<>>)

Pairs(op, w, fs) == {op} \X {w} \X fs \X Operands(w) \X Operands(w)
From(type) == 0 .. 2 ^ Bits[WidthOf[type]] - 1
MCSums ==
  UNION ({Pairs("BIN", w, DOMAIN Exact!WrappingNames) : w \in {"W32", "W64"}}
         \cup {Pairs("CBIN", w, OfWidth(CheckedOps, w)) : w \in Widths}
         \cup {{s \in Pairs("SBIN", w, OfWidth(SaturatingOps, w)) : s[3] \notin Divisions \/ s[5] # 0} :
                 w \in Widths}
         \cup {{"CONVERT"} \X CastTargets[from] \X {from} \X From(from) \X {0} :
                 from \in DOMAIN CastTargets}
         \cup {{"CHECKED_CONVERT"} \X IntTypes \X {from} \X From(from) \X {0} :
                 from \in DOMAIN WidthOf})

Immediates ==
  {One(Fallible(D("CBIN", [w |-> "W32", f |-> "CADD", d |-> "r3", x |-> "r1", imm |-> y,
                           from |-> from])),
       R(l, 0, 0, 0), <<>>) : l \in 0 .. 15, y \in 0 .. 2, from \in {"VALUE", "WIDE", "LITERAL"}}
  \cup {One(D("FBIN", [w |-> w, f |-> "FADD", d |-> "f1", x |-> "f1", y |-> "f1"]),
            R(0, 0, 0, 0), <<>>) : w \in {"W32", "W64"}}
  \cup {One(D("SCC", [w |-> w, cc |-> cc, d |-> "r3", x |-> "r1", y |-> "r2", from |-> "REG"]),
            R(l, r, 0, 0), <<>>) :
          l \in 0 .. 7, r \in 0 .. 7, w \in {"W32", "W64"},
          cc \in {"EQ", "NE", "LT", "GE", "ULT", "UGE", "TESTZ", "TESTNZ"} \cup FloatConditions}
  \cup {One(D("BFX", [d |-> "r3", x |-> "r1", offset |-> o, bits |-> b, sx |-> sx]),
            R(181, 0, 0, 0), <<>>) : o \in 0 .. 4, b \in 0 .. 4, sx \in BOOLEAN}

\* Loads and stores: the place that is meant, and the ways to name it.
Ways ==
  {[at |-> "OBJ", arch |-> "x86_64", r1 |-> 48, r2 |-> 0, imm |-> o, place |-> 48 + o] :
     o \in {8, 10, 16}}
  \cup {[at |-> "REC", arch |-> "x86_64", r1 |-> 24, r2 |-> 0, imm |-> o, place |-> 24 + o] :
     o \in {0, 5}}
  \cup {[at |-> "FRAME", arch |-> "x86_64", r1 |-> 0, r2 |-> 0, imm |-> o, place |-> 24 + o] :
     o \in {-16, 0, 9}}
  \cup {[at |-> "ADDR", arch |-> arch, r1 |-> 0, r2 |-> 0, imm |-> 0, place |-> 72] :
     arch \in {"x86_64", "aarch64"}}
  \cup {[at |-> "DERIVED", arch |-> arch, r1 |-> base.at, r2 |-> base.derived, imm |-> o,
         place |-> base.place + o] :
     arch \in {"x86_64"}, o \in {0, 2},
     base \in {[at |-> 0, derived |-> 24, place |-> 24], [at |-> 48, derived |-> 56, place |-> 56],
               [at |-> 128, derived |-> 72, place |-> 72]}}
  \cup {[at |-> "DERIVED", arch |-> "aarch64", r1 |-> base.at, r2 |-> base.derived, imm |-> o,
         place |-> base.place + o] : o \in {0, 2},
     base \in {[at |-> 0, derived |-> 24, place |-> 24], [at |-> 48, derived |-> 56, place |-> 56],
               [at |-> 107, derived |-> 200, place |-> 72]}}
Elements(n) ==
  {[at |-> "ARR", arch |-> "x86_64", r1 |-> 84, r2 |-> k, imm |-> 0, place |-> 92 + k * n] :
     k \in 0 .. (8 \div n) - 1}

Managed(way, ref) == IF ref /\ (way.at = "ADDR" \/ (way.at \in {"OBJ", "ARR", "DERIVED"} /\ way.r1 # 0))
                     THEN {way.place} ELSE {}
Accesses ==
  UNION {{[One(IF op = "LOAD"
               THEN D("LOAD", [kind |-> k, at |-> way.at, base |-> "r1", derived |-> "r2",
                               idx |-> "r2", imm |-> way.imm, d |-> "r3", place |-> way.place,
                               bytes |-> SizeOf(width[k])])
               ELSE I("STORE", [kind |-> k, at |-> way.at, base |-> "r1", derived |-> "r2",
                                idx |-> "r2", imm |-> way.imm, src |-> "r3",
                                place |-> way.place, bytes |-> SizeOf(width[k])]),
               R(way.r1, way.r2, 181, 0), Mem(201))
            EXCEPT !.arch = way.arch, !.managed = Managed(way, k \in {"LD_REF", "ST_REF"})] :
           way \in Ways \cup Elements(SizeOf(width[k]))} :
         <<op, width, k>> \in {<<"LOAD", LoadWidth, x>> : x \in DOMAIN LoadWidth}
                              \cup {<<"STORE", StoreWidth, x>> : x \in DOMAIN StoreWidth}}
  \cup {[One(D("LEA", [at |-> way.at, base |-> "r1", derived |-> "r2", imm |-> way.imm,
                       d |-> "r3"]), R(way.r1, way.r2, 0, 0), Mem(201))
          EXCEPT !.arch = way.arch] : way \in Ways}

\* Records: every pair of places, and every way to copy.
Spots(arch) ==
  {[base |-> 0, derived |-> 24, at |-> 24], [base |-> 0, derived |-> 36, at |-> 36],
   [base |-> 48, derived |-> 56, at |-> 56], [base |-> 100, derived |-> 108, at |-> 108],
   IF arch = "x86_64" THEN [base |-> 128, derived |-> 72, at |-> 72]
   ELSE [base |-> 107, derived |-> 200, at |-> 72]}
Shared == {58, 74, 110}
Copy(op, arch, to, from, slot, reg) ==
  [One(I(op, [dst |-> "r1", dstSlot |-> to.at - 24, dstBase |-> "r2",
              src |-> "r3", srcSlot |-> from.at - 24, srcBase |-> "r4",
              slot |-> slot, from |-> IF reg THEN "REG" ELSE "IMM", ti |-> "acc", type |-> 201, place |-> to.at, origin |-> from.at,
              bytes |-> 12]),
       [R(to.derived, to.base, from.derived, from.base) EXCEPT !["acc"] = 201], Mem(201))
    EXCEPT !.arch = arch, !.managed = Shared]
InFrame(spot) == spot.at \in {24, 36}
Copies ==
  UNION {UNION {{Copy("COPY_DERIVED", arch, to, from, FALSE, reg) : reg \in BOOLEAN}
    \cup (IF InFrame(to) /\ to # from
          THEN {Copy("COPY_TO_LOCAL", arch, to, from, slot, reg) : slot, reg \in BOOLEAN} ELSE {})
    \cup (IF InFrame(from) /\ to # from
          THEN {Copy("COPY_FROM_LOCAL", arch, to, from, slot, reg) : slot, reg \in BOOLEAN} ELSE {})
    \cup (IF InFrame(from) /\ InFrame(to) /\ to # from
          THEN {Copy("COPY_LOCAL", arch, to, from, slot, reg) : slot, reg \in BOOLEAN} ELSE {}) :
    to \in Spots(arch), from \in Spots(arch)} : arch \in {"x86_64", "aarch64"}}

Field0 == [base |-> "r1", from |-> "IMM", type |-> 201, bytes |-> 12]
Fields ==
  {[One(i, R(48, 24, 100, 0), Mem(201)) EXCEPT !.managed = Shared] : i \in
    {I("READ_STRUCT_FIELD", Field0 @@ [offset |-> 8, src |-> "r2", place |-> 24, origin |-> 56]),
     I("WRITE_STRUCT_FIELD", Field0 @@ [offset |-> 8, src |-> "r2", place |-> 56, origin |-> 24]),
     I("UNBOX_T", Field0 @@ [offset |-> 12, place |-> 36, origin |-> 56]),
     I("ASSIGN_GENERIC", Field0 @@ [src |-> "r3", place |-> 56, origin |-> 108])}}

Stacks ==
  {One(i, R(181, 0, 0, 0), Mem(201)) : i \in
    {I("STK_PARAM", [from |-> "REG", src |-> "r1", offset |-> 8, place |-> 16, bytes |-> 8]),
     I("STK_PARAM", [from |-> "FRAME", srcSlot |-> 12, offset |-> 0, place |-> 8, origin |-> 36,
                     bytes |-> 8]),
     I("STRING_INIT", [offset |-> 0, string |-> [storage |-> 77, length |-> 5], place |-> 24,
                       bytes |-> 16]),
     I("STORE_FRAME_IMM", [kind |-> "ST_32", offset |-> 4, imm |-> 3, bits |-> 2, place |-> 28,
                           bytes |-> 4]),
     D("MOV", [d |-> "r2", from |-> "REG", src |-> "r1"]),
     D("MOV", [d |-> "r2", from |-> "IMM", imm |-> 13, bits |-> 4]),
     D("MOV", [d |-> "r2", from |-> "BOT", imm |-> 8])}}

Atomic(op, fields, w, ref) ==
  [One(I(op, fields @@ [base |-> "r1", offset |-> 10, w |-> w, ref |-> ref, place |-> 58,
                        bytes |-> SizeOf(w)]
             @@ (IF "d" \in DOMAIN fields THEN [writes |-> {"r3"}] ELSE <<>>)),
       R(48, 181, 0, 22), Mem(201)) EXCEPT !.managed = IF ref THEN {58} ELSE {}]
Atomics ==
  UNION {{Atomic("ATOMIC_LOAD", [d |-> "r3"], w, ref), Atomic("ATOMIC_STORE", [src |-> "r2"], w, ref),
          Atomic("ATOMIC_SWAP", [d |-> "r3", src |-> "r2"], w, ref),
          Atomic("CAS", [d |-> "r3", expected |-> "r2", new |-> "r4"], w, ref),
          Atomic("CAS", [d |-> "r3", expected |-> "r4", new |-> "r2"], w, ref)}
         \cup {Atomic("ATOMIC_FETCH", [d |-> "r3", src |-> "r2", f |-> f], w, ref) :
                 f \in {"ADD", "SUB", "AND", "OR", "XOR"}} :
         <<w, ref>> \in {<<"W8", FALSE>>, <<"W16", FALSE>>, <<"W32", FALSE>>, <<"W64", FALSE>>,
                         <<"W64", TRUE>>}}

\* Values of a generic type: r2 is their type.
Generics ==
  {[One(i, [R(48, ti, 100, 56) EXCEPT !["acc"] = 48], Mem(205)) EXCEPT !.managed = {}] :
    ti \in {201, 202, 203}, i \in
    {D("LOAD_GENERIC", [d |-> "r3", base |-> "r1", derived |-> "r4", ti |-> "r2"]),
     I("STORE_GENERIC", [derived |-> "r4", offset |-> 2, src |-> "r3", ti |-> "r2", place |-> 58,
                         bytes |-> 12]),
     I("INIT_NONE", [ti |-> "r2", place |-> 56, bytes |-> 1]),
     I("INIT_SOME", [ti |-> "r2", src |-> "r3", tagged |-> TRUE, place |-> 56, bytes |-> 14]),
     I("INIT_SOME", [ti |-> "r2", src |-> "r3", tagged |-> FALSE, place |-> 56, bytes |-> 14]),
     D("LEA_GENERIC", [d |-> "r3", base |-> "r1", ti |-> "r2", idx |-> 1]),
     D("OFFSET", [d |-> "r3", ti |-> "r2", idx |-> 1]),
     D("TYPE_ARG", [d |-> "r3", ti |-> "r2", idx |-> 0]),
     D("IOF", [d |-> "r3", x |-> "r1", from |-> "REG", ti |-> "r2"]),
     D("INDEX", [d |-> "r3", base |-> "r1", x |-> "r4", from |-> "REG", array |-> TRUE,
                 ti |-> "r2"]),
     D("LOAD_GENERIC_TI", [d |-> "r1", length |-> 1,
                           term |-> [args \in [{1} -> 0 .. 127] |-> 201]])}}
  \cup {One(I("INITCLOSURE", [sret |-> sret, place |-> 56, bytes |-> 16]), R(48, 0, 0, 0), Mem(205)) :
          sret \in BOOLEAN}

\* Control: a program with a handler at 5 and code after a jump at 3.
Flow(i, handler, registers) ==
  LET here == [i EXCEPT !.next = IF i.op \in {"BCC", "BRANCH_IS_REF", "JMP32"} THEN @ ELSE {3}]
      catch == [D("CATCH", [d |-> "r4"]) EXCEPT !.next = {7}, !.ends = TRUE]
  IN [P((0 :> [I("NOP", <<>>) EXCEPT !.size = 1, !.next = {1}]) @@ (1 :> here) @@ (3 :> Finish)
        @@ (4 :> Finish) @@ (5 :> catch) @@ (7 :> Finish), registers, Mem(201))
      EXCEPT !.handler = handler]
Call(op, fields) ==
  Fallible(I(op, fields @@ [writes |-> {"r1"} \cup Volatile, spoils |-> Volatile, slot |-> FALSE]))
Argument(slot, reg, at) == [slot |-> slot, reg |-> reg, at |-> at]
Controls ==
  {I("BCC", [cc |-> cc, w |-> "W32", x |-> "r1", y |-> "r2", from |-> "REG", far |-> far,
             delta |-> IF far = "VALUE" THEN 1 ELSE 2, next |-> {3, 4}]) :
     cc \in {"EQ", "LT"}, far \in {"VALUE", "LITERAL"}}
  \cup {I("BRANCH_IS_REF", [ti |-> "r3", far |-> "VALUE", delta |-> 1, next |-> {3, 4}]),
        I("JMP32", [far |-> "WIDE", delta |-> 1, next |-> {4}]), I("GC_POINT", <<>>), I("LOG", <<>>),
        Fallible(I("THROW", [x |-> "r1"])), Fallible(I("THROW", [x |-> "r4"])),
        [I("HALT", <<>>) EXCEPT !.ends = TRUE],
        Fallible(I("NULLCHECK", [x |-> "r1"])), Fallible(I("DIVCHECK", [x |-> "r1"])),
        Fallible(I("ARRAY_INDEX_CHECK", [x |-> "r1", y |-> "r2"])),
        Fallible(I("NEW", [thunk |-> "NewObject", from |-> "IMM", type |-> 201, writes |-> {"r1"}])),
        Fallible(I("NEW", [thunk |-> "NewObjectAcc", from |-> "REG", ti |-> "r3"])),
        Fallible(I("NEW", [thunk |-> "NewArray", from |-> "IMM", type |-> 203, writes |-> {"r1"}])),
        Fallible(I("SPAWN", [thunk |-> "SpawnFuture", from |-> "IMM", type |-> 0])),
        Fallible(I("SPAWN", [thunk |-> "Spawn", from |-> "IMM", type |-> 201])),
        Call("CALL", [thunk |-> "I2ICall", from |-> "IMM", literal |-> 0]),
        Call("CALL", [thunk |-> "I2NCall", from |-> "REG", target |-> "r2"])}
Receivers ==
  {Call("CALL_CLOSURE", [sret |-> sret, generic |-> generic]) : sret, generic \in BOOLEAN}
  \cup {Call("VIRTUAL_CALL", [sret |-> FALSE, edef |-> 0, vnum |-> k]) : k \in {0, 1}}
  \cup {Call("INTERFACE_CALL", [sret |-> FALSE, vnum |-> 0, from |-> "IMM", type |-> 202,
                                thisTi |-> this, outerTi |-> outer,
                                passes |-> IF outer = None \/ outer.slot THEN {} ELSE {"r2"}]) :
          this \in {None, Argument(FALSE, "r3", 0)},
          outer \in {None, Argument(FALSE, "r2", 0), Argument(TRUE, "", 8)}}
Flows ==
  {Flow(i, h, R(r1, 3, 201, 0)) : i \in Controls, h \in {Lost, 5}, r1 \in {0, 3, 48}}
  \cup {Flow(i, h, R(48, 48, 201, 0)) : i \in Receivers, h \in {Lost, 5}}

MCStarts ==
  Immediates \cup Accesses \cup Copies \cup Fields \cup Stacks \cup Atomics \cup Generics \cup Flows
================================================================================
