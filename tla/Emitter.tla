-------------------------------- MODULE Emitter --------------------------------
(***************************************************************************)
(* The emitter of run-time bytecode (cbc/emitter/emitter.cpp, symbols.cpp, *)
(* segment.cpp) and the reading of what it emits by the interpretation     *)
(* loop.                                                                   *)
(*                                                                         *)
(* A request is a call of the emitter: its operation, a variant (a width,  *)
(* a size, ...) and its arguments by name.  The emitter picks an encoding, *)
(* leaves a hole where a label or a literal is not known yet, and fills    *)
(* the holes when the code is built.  The loop reads the code back.        *)
(* The opcodes for floating-point registers (LOAD_OBJ_F, ...) share their  *)
(* handlers with the others and stand for them.  A 64-bit word is written  *)
(* as the signed number it holds.                                          *)
(***************************************************************************)
EXTENDS Encodings

CONSTANTS Programs    \* the sequences of requests; a label is bound by "Bind"

LIT_TABLE_SIZE == Radix ^ 3
IRZ == 0
ADD == 0
\* The kinds of a store: the four sizes, then ST_F32, ST_F64 and ST_REF.
StoreKinds == [ST_8 |-> 0, ST_16 |-> 1, ST_32 |-> 2, ST_64 |-> 3,
               ST_F32 |-> 4, ST_F64 |-> 5, ST_REF |-> 6]
BuiltinTypeInfo(t) == -1 - t
OutOfTable == -(2 ^ 20)

ASSUME ProgramsAssumption ==
  \A p \in Programs : \A i \in DOMAIN p : p[i].op \in STRING /\ p[i].v \in STRING

VARIABLES
  program, asked,     \* the requests, and how many of them have been made
  segment, fixups, labels,
  literals, built,    \* the code object
  cursor, heard       \* the reader, and what it has read: requests with positions

vars == <<program, asked, segment, fixups, labels, literals, built, cursor, heard>>

NoFixup == [kind |-> "None", label |-> 0, value |-> 0, v |-> "", cc |-> 0, left |-> 0, right |-> 0]
Piece(cells) == [cells |-> cells, fixup |-> NoFixup]

Size(kind) == CASE kind \in {"Literal", "Literal12"} -> 2
                [] kind = "Jmp" -> 5
                [] kind = "BrIfRef" -> 3
                [] kind = "Bcc" -> 4
                [] kind = "BccImm" -> 5

\* AddFixup leaves a hole of the announced size.
Hole(fixup) == [cells |-> [i \in 1..Size(fixup.kind) * Byte |-> <<0>>], fixup |-> fixup]
LiteralHole(value) == Hole([NoFixup EXCEPT !.kind = "Literal", !.value = value])
Literal12Hole(i4, value) ==
  Hole([NoFixup EXCEPT !.kind = "Literal12", !.value = value, !.cc = i4])
Command(opcode, format, values) == <<Piece(Encode(opcode, format, values))>>

--------------------------------------------------------------------------------
(* Operations with one encoding: the family of the opcode (with the variant *)
(* of the request), the format, and the argument each field takes.          *)

To(family, format, fields) == [family |-> family, format |-> format, fields |-> fields]
DLR == [imm |-> "op", r |-> "d", x |-> "l", y |-> "r"]

EmitBinary == [ Binary |-> To("BIN", "B3xrrr", DLR) ]
EmitWrapping ==
  [ Checked |-> To("CBIN", "B3xrrr", DLR), SatBinary |-> To("SBIN", "B3xrrr", DLR) ]

EmitFloat ==
  LET unary == [imm |-> "op", r |-> "d", x |-> "d", y |-> "s"]
  IN [ FBinary |-> To("FBIN", "B3xrrr", DLR), FUnary |-> To("FUN", "B3xrrr", unary),
       FMathUnary |-> To("FMATHUN", "B3xrrr", unary),
       Mov |-> To("MOV", "B2rr", [x |-> "d", y |-> "s"]),
       FMovI32 |-> To("FMOVI32", "B6xri32", [r |-> "d", imm32 |-> "imm"]),
       FMovI64 |-> To("FMOVI64", "B10xri64", [r |-> "d", imm64 |-> "imm"]) ]

EmitNew ==
  LET ti == [imm64 |-> "ti"]  tiReg == [x |-> "ti", y |-> "ti"]
  IN [ Nop |-> To("NOP", "B1", <<>>), Ret |-> To("RET", "B1", <<>>),
       NewObjGeneric |-> To("NEWOBJ_G", "B2rr", tiReg),
       NewObjGenericOnAcc |-> To("NEWOBJ_ACC_G", "B2rr", tiReg),
       NewObj |-> To("NEWOBJ", "B9i64", ti), NewArr |-> To("NEWARR", "B9i64", ti),
       NewArrGeneric |-> To("NEWARR_G", "B2rr", tiReg),
       InitClosure |-> To("INITCLOSURE", "B1", <<>>),
       Spawn |-> To("SPAWN", "B9i64", ti), SpawnFuture |-> To("SPAWN_FUTURE", "B1", <<>>) ]

Long(v) == [imm |-> "kind", r |-> v, x |-> "baseRef", y |-> "base", imm32 |-> "offset"]
EmitDerived ==
  [ LoadDerived |-> To("LOAD_LONG_DERIVED", "B7xrrri32", Long("dst")),
    StoreDerived |-> To("STORE_LONG_DERIVED", "B7xrrri32", Long("src")),
    LoadGeneric |-> To("LOAD_GENERIC", "B3rrrr",
                       [x1 |-> "dst", y1 |-> "baseRef", x2 |-> "base", y2 |-> "ti"]),
    LeaGeneric |-> To("LEA_GENERIC", "B7xrrri32",
                      [r |-> "dst", x |-> "base", y |-> "ti", imm32 |-> "ordinal"]),
    InitNone |-> To("INIT_NONE_GENERIC_OPT0", "InitOption", [ti |-> "ti"]),
    InitSome |-> To("INIT_SOME_GENERIC", "InitOption", [src |-> "src", ti |-> "ti"]) ]

EmitCopies ==
  LET dst == [dstBase |-> "dstBase", dst |-> "dst"]  src == [srcBase |-> "srcBase", src |-> "src"]
      ti == [ti |-> "ti"]  tiReg == [tiReg |-> "ti"]
  IN [ CopyDerived |-> To("COPY_DERIVED", "CopyDerived", dst @@ src @@ ti),
       CopyDerivedGeneric |-> To("COPY_DERIVED_GENERIC", "CopyDerivedGeneric", dst @@ src @@ tiReg),
       CopyLocal |-> To("COPY_LOCAL", "CopyLocal", [dst |-> "dst", src |-> "src", ti |-> "ti"]),
       CopyToLocal |-> To("COPY_TO_LOCAL", "CopyDerived", [dst |-> "dst"] @@ src @@ ti),
       CopyFromLocal |-> To("COPY_FROM_LOCAL", "CopyDerived", dst @@ [src |-> "src"] @@ ti),
       CopyLocalGeneric |-> To("COPY_LOCAL_GENERIC", "CopyLocalGeneric",
                               [x1 |-> "dst", y1 |-> "src", x2 |-> "ti"]),
       CopyToLocalGeneric |-> To("COPY_TO_LOCAL_GENERIC", "CopyLocalGeneric",
                                 [x1 |-> "dst", y1 |-> "srcBase", x2 |-> "src", y2 |-> "ti"]),
       CopyFromLocalGeneric |-> To("COPY_FROM_LOCAL_GENERIC", "CopyLocalGeneric",
                                   [x1 |-> "dstBase", y1 |-> "dst", x2 |-> "src", y2 |-> "ti"]) ]

EmitSlotCopies ==
  LET dst == [dstBase |-> "dstBase", dst |-> "dst"]  src == [srcBase |-> "srcBase", src |-> "src"]
      dstOffset == [dstOffset |-> "dstOffset"]  srcOffset == [srcOffset |-> "srcOffset"]
      ti == [ti |-> "ti"]  tiReg == [tiReg |-> "ti"]
      array == [x |-> "dst", y |-> "src"]
  IN [ CopyTypeSlot |-> To("COPY_TYPESLOT", "CopyTypeSlot", dstOffset @@ srcOffset @@ ti),
       CopyTypeSlotGeneric |-> To("COPY_TYPESLOT_GENERIC", "CopyTypeSlotGeneric",
                                  dstOffset @@ srcOffset @@ tiReg),
       CopyToTypeSlot |-> To("COPY_TO_TYPESLOT", "CopyToTypeSlot", dstOffset @@ src @@ ti),
       CopyToTypeSlotGeneric |-> To("COPY_TO_TYPESLOT_GENERIC", "CopyToTypeSlotGeneric",
                                    dstOffset @@ src @@ tiReg),
       CopyFromTypeSlot |-> To("COPY_FROM_TYPESLOT", "CopyFromTypeSlot", dst @@ srcOffset @@ ti),
       CopyFromTypeSlotGeneric |-> To("COPY_FROM_TYPESLOT_GENERIC", "CopyFromTypeSlotGeneric",
                                      dst @@ srcOffset @@ tiReg),
       LeaIndex |-> To("INDEX", "Index", array @@ [idx |-> "idx", cj |-> "cj"] @@ ti),
       LeaIndexGeneric |-> To("INDEX_GENERIC", "IndexGeneric", array @@ [idx |-> "idx"] @@ ti),
       LeaConstIndexGeneric |-> To("CONST_INDEX_GENERIC", "ConstIndexGeneric",
                                   array @@ [idx |-> "idx"] @@ tiReg) ]

EmitArrays ==
  [ LoadArray |-> To("LOAD_ARR", "B3xrrr", [imm |-> "kind", r |-> "dst", x |-> "base", y |-> "idx"]),
    StoreArray |-> To("STORE_ARR", "B3xrrr", [imm |-> "kind", r |-> "src", x |-> "base", y |-> "idx"]),
    TypeArg |-> To("TYPE_ARG", "B4xi12rr", [imm12 |-> "idx", x |-> "dst", y |-> "ti"]) ]

EmitConvert ==
  LET convert == [imm1 |-> "toType", imm2 |-> "fromType", x |-> "to", y |-> "from"]
  IN [ Convert |-> To("CONVERT", "B3xxrr", convert),
       CheckedConvert |-> To("CHECKED_CONVERT", "B3xxrr", convert),
       BFX |-> To("BFX", "BFX", [x |-> "dst", y |-> "src", offs |-> "offset", size |-> "size"]),
       GcPoint |-> To("GC_POINT", "B1", <<>>),
       CallClosure |-> To("CALL_CLOSURE", "B1", <<>>),
       CallClosureGeneric |-> To("CALL_CLOSURE_GENERIC", "B1", <<>>) ]

EmitCalls ==
  [ CallCFunc |-> To("CALL_CFUNC", "B3xri8", [imm |-> "vec", r |-> "src", imm8 |-> "slots"]),
    VirtualCall |-> To("VIRTUAL_CALL", "VirtualCall",
                       [vnum |-> "vnum", edef |-> "edef", sret |-> "sret"]),
    InterfaceCall |-> To("INTERFACE_CALL", "InterfaceCall",
                         [vnum |-> "num", ti |-> "ti", sret |-> "sret",
                          outer |-> "outer", this |-> "this"]),
    InterfaceCallGeneric |-> To("INTERFACE_CALL_GENERIC", "InterfaceCallGeneric",
                                [vnum |-> "num", sret |-> "sret",
                                 outer |-> "outer", this |-> "this"]),
    StringLit |-> To("STRING_INIT", "B13i64i32", [imm64 |-> "literal", imm32 |-> "offset"]) ]

EmitChecks ==
  LET reg(r) == [r |-> r]
  IN [ DivCheck |-> To("DIVCHECK", "B2xr", reg("r")),
       NullCheck |-> To("NULLCHECK", "B2xr", reg("r")),
       ArrayIndexCheck |-> To("ARRAY_INDEX_CHECK", "B2rr", [x |-> "length", y |-> "index"]),
       InstanceOf |-> To("IOF", "IOF", [x |-> "dst", y |-> "obj", imm64 |-> "ti"]),
       Throw |-> To("THROW", "B2xr", reg("r")), Catch |-> To("CATCH", "B2xr", reg("r")),
       LoadGenericTypeInfo |-> To("LOAD_GENERIC_TI", "B9i64", [imm64 |-> "term"]),
       NewBoxTI |-> To("NEWBOX2", "B9i64", [imm64 |-> "ti"]),
       UnboxT |-> To("UNBOX_T", "B6xri32", [r |-> "src", imm32 |-> "offset"]),
       Offset |-> To("OFFSET", "B6xri32", [imm |-> "dst", r |-> "ti", imm32 |-> "ordinal"]) ]

EmitFields ==
  LET atomic == [imm4 |-> "kind", imm12 |-> "offset", y |-> "obj"]
      triple == [r |-> "dst", y |-> "ti"]
  IN [ ReadStructField |-> To("READ_STRUCT_FIELD", "StructFieldOp",
                              [x |-> "dst", y |-> "base", offset |-> "offset", ti |-> "ti"]),
       WriteStructField |-> To("WRITE_STRUCT_FIELD", "StructFieldOp",
                               [x |-> "src", y |-> "base", offset |-> "offset", ti |-> "ti"]),
       AssignGeneric |-> To("ASSIGN_GENERIC", "B3xrrr", triple @@ [x |-> "src"]),
       InstanceOfGeneric |-> To("IOF_GENERIC", "B3xrrr", triple @@ [x |-> "obj"]),
       AtomicLoad |-> To("ATOMIC_LOAD", "B4xi12rr", atomic @@ [x |-> "dst"]),
       AtomicStore |-> To("ATOMIC_STORE", "B4xi12rr", atomic @@ [x |-> "src"]),
       CAS |-> To("CAS", "AtomicOp", [x1 |-> "dst", y1 |-> "obj", x2 |-> "expected",
                                      y2 |-> "newVal", offset |-> "offset"]),
       AtomicOp |-> To("ATOMIC", "AtomicOp",
                       [x1 |-> "dst", y1 |-> "obj", x2 |-> "src", offset |-> "offset"]) ]

EmitStackParams ==
  [ LogInstruction |-> To("LOG", "B9i64", [imm64 |-> "string"]),
    StackParam |-> To("STK_PARAM", "StackParam", [src |-> "src", dst |-> "dst"]),
    StackParamS16 |-> To("STK_PARAM_S16", "StackParamS16", [src |-> "src", dst |-> "dst"]),
    StackParamS32 |-> To("STK_PARAM_S32", "StackParamS32", [src |-> "src", dst |-> "dst"]),
    LeaStackParam |-> To("LEA_STACK_PARAM", "LeaStackParam", [dst |-> "dst", offset |-> "offset"]) ]

Emits ==
  EmitBinary @@ EmitWrapping @@ EmitFloat @@ EmitNew @@ EmitDerived @@ EmitCopies @@ EmitSlotCopies
    @@ EmitArrays @@ EmitConvert @@ EmitCalls @@ EmitChecks @@ EmitFields @@ EmitStackParams

EmitAs(op, v, a) ==
  LET e == Emits[op]
  IN Command(<<e.family, v>>, e.format, [f \in DOMAIN e.fields |-> a[e.fields[f]]])

--------------------------------------------------------------------------------
(* Operations whose encoding depends on their arguments *)

BinaryImm(v, a) ==
  IF IsNBitsSigned(a.imm, 3)
    THEN Command(<<"BINI_I", v>>, "B4xi12rr", [imm4 |-> a.op, imm12 |-> a.imm, x |-> a.d, y |-> a.l])
    ELSE <<Piece(OpcodeCells(<<"BINI_L", v>>)), Literal12Hole(a.op, a.imm),
           Piece(EncodeFields(EncodeRR, [x |-> a.d, y |-> a.l]))>>

\* Saturating and checked operations have no literal: the wide form holds
\* the whole immediate.
WideImm(short, wide, v, a) ==
  IF IsNBitsSigned(a.imm, 3)
    THEN Command(<<short, v>>, "B4xi12rr", [imm4 |-> a.op, imm12 |-> a.imm, x |-> a.d, y |-> a.l])
    ELSE Command(<<wide, v>>, "BinaryWide", [op |-> a.op, x |-> a.d, y |-> a.l, imm |-> a.imm])
SatBinaryImm(v, a) == WideImm("SBINIMM", "SBINIMM_W", v, a)
CheckedImm(v, a) == WideImm("CBINI_I", "CBINI_W", v, a)

MovImm(v, a) ==
  IF IsNBitsSigned(a.imm, 1)
    THEN Command(<<"MOVI", "">>, "B2xr", [imm |-> a.imm, r |-> a.d])
    ELSE BinaryImm(v, [op |-> ADD, d |-> a.d, l |-> IRZ, imm |-> a.imm])

SCCImm(v, a) ==
  IF IsNBitsSigned(a.imm, 3)
    THEN Command(<<"SCCI_I", v>>, "B4xi12rr", [imm4 |-> a.cc, imm12 |-> a.imm, x |-> a.d, y |-> a.l])
    ELSE <<Piece(OpcodeCells(<<"SCCI_L", v>>)), Literal12Hole(a.cc, a.imm),
           Piece(EncodeFields(EncodeRR, [x |-> a.d, y |-> a.l]))>>

SCC(v, a) == Command(<<"SCC", v>>, "B3xrrr", [imm |-> a.cc, r |-> a.d, x |-> a.l, y |-> a.r])

Branch(op, v, a) ==
  LET hole == [NoFixup EXCEPT !.kind = op, !.label = a.label, !.v = v]
  IN CASE op = "Bcc" -> <<Hole([hole EXCEPT !.cc = a.cc, !.left = a.l, !.right = a.r])>>
       [] op = "BccImm" -> <<Hole([hole EXCEPT !.cc = a.cc, !.left = a.l, !.right = a.imm])>>
       [] op = "BrIfRef" -> <<Hole([hole EXCEPT !.left = a.ti])>>
       [] op = "Jmp" -> <<Hole(hole)>>

Static(family, a, reg) ==
  Command(<<family, "">>, "B2xr", [imm |-> a.kind, r |-> reg]) \o <<LiteralHole(a.address)>>

StoreGeneric(a) ==
  LET size == IF a.offset = 0 THEN "0" ELSE IF a.offset < Radix ^ Byte - 1 THEN "1" ELSE "4"
  IN Command(<<"STORE_GENERIC", size>>,
             CASE size = "0" -> "StoreGeneric0" [] size = "1" -> "StoreGeneric1"
               [] OTHER -> "StoreGeneric4",
             [src |-> a.src, base |-> a.baseRef, derived |-> a.base, ti |-> a.ti,
              offset |-> a.offset])

LoadStore(family, a, reg, base) ==
  Command(<<family, "">>, "B4xi12rr", [imm4 |-> a.kind, imm12 |-> a.offset, x |-> reg, y |-> base])
LoadStoreLong(family, a, reg, baseRef, base) ==
  Command(<<family, "">>, "B7xrrri32",
          [imm |-> a.kind, r |-> reg, x |-> baseRef, y |-> base, imm32 |-> a.offset])

LoadObj(a) ==
  IF IsNBits(a.offset, 3) THEN LoadStore("LOAD_OBJ", a, a.dst, a.base)
                          ELSE LoadStoreLong("LOAD_LONG_DERIVED", a, a.dst, a.base, a.base)
StoreObj(a) ==
  IF IsNBits(a.offset, 3) THEN LoadStore("STORE_OBJ", a, a.src, a.base)
                          ELSE LoadStoreLong("STORE_LONG_DERIVED", a, a.src, a.base, a.base)
Rec(short, long, a, reg) ==
  IF IsNBits(a.offset, 3) THEN LoadStore(short, a, reg, a.base)
                          ELSE LoadStoreLong(long, a, reg, IRZ, a.base)
\* A mutant: the test of the offsets of records, which have no sign.
FrameAsRec(short, long, a, reg) ==
  IF IsNBits(a.offset, 3) THEN LoadStore(short, a, reg, IRZ)
                          ELSE LoadStoreLong(long, a, reg, IRZ, IRZ)
Frame(short, long, a, reg) ==
  IF IsNBitsSigned(a.offset, 3) THEN LoadStore(short, a, reg, IRZ)
                                ELSE LoadStoreLong(long, a, reg, IRZ, IRZ)

StoreFrameImm(a) ==
  LET K == StoreKinds
      stk == CASE a.stk \in {K.ST_REF, K.ST_F64} -> K.ST_64 [] a.stk = K.ST_F32 -> K.ST_32
               [] OTHER -> a.stk
      size == CASE IsNBitsSigned(a.imm, Byte) \/ stk = K.ST_8 -> "1"
                [] IsNBitsSigned(a.imm, 2 * Byte) \/ stk = K.ST_16 -> "2"
                [] IsNBitsSigned(a.imm, 4 * Byte) \/ stk = K.ST_32 -> "4"
                [] OTHER -> "8"
  IN Command(<<"STORE_FRAME_IMM", size>>,
             CASE size = "1" -> "StoreFrameImm1" [] size = "2" -> "StoreFrameImm2"
               [] size = "4" -> "StoreFrameImm4" [] OTHER -> "StoreFrameImm8",
             [stk |-> stk, imm |-> a.imm, offs |-> a.offset])

DirectCall(op, a) ==
  CASE op = "DirectCall2i" -> <<Piece(OpcodeCells(<<"DIRECT_CALL_2I", "">>)), Literal12Hole(0, a.target)>>
    [] op = "DirectCall2c" -> <<Piece(OpcodeCells(<<"DIRECT_CALL_2C", "">>)), Literal12Hole(0, a.target)>>
    [] op = "DirectCall2n" ->
         <<Piece(OpcodeCells(<<"DIRECT_CALL_2N", "">>)), Literal12Hole(a.vec, a.target),
           Piece(Cells(a.slots, Byte))>>

\* The sixteen first builtin types have a short form.
NewBox(a) ==
  IF a.t >= Radix THEN EmitAs("NewBoxTI", "", [ti |-> BuiltinTypeInfo(a.t)])
                  ELSE Command(<<"NEWBOX", "">>, "B2xr", [imm |-> a.t, r |-> IRZ])

Pieces(q) ==
  CASE q.op \in DOMAIN Emits -> EmitAs(q.op, q.v, q.a)
    [] q.op = "BinaryImm" -> BinaryImm(q.v, q.a)
    [] q.op = "SatBinaryImm" -> SatBinaryImm(q.v, q.a)
    [] q.op = "CheckedImm" -> CheckedImm(q.v, q.a)
    [] q.op = "MovImm" -> MovImm(q.v, q.a)
    [] q.op = "SCC" -> SCC(q.v, q.a)
    [] q.op = "SCCImm" -> SCCImm(q.v, q.a)
    [] q.op \in {"Bcc", "BccImm", "BrIfRef", "Jmp"} -> Branch(q.op, q.v, q.a)
    [] q.op = "LoadStatic" -> Static("LOAD_ADDR", q.a, q.a.dst)
    [] q.op = "StoreStatic" -> Static("STORE_ADDR", q.a, q.a.src)
    [] q.op = "StoreGeneric" -> StoreGeneric(q.a)
    [] q.op = "LoadObj" -> LoadObj(q.a)
    [] q.op = "StoreObj" -> StoreObj(q.a)
    [] q.op = "LoadRec" -> Rec("LOAD_REC", "LOAD_LONG_REC", q.a, q.a.dst)
    [] q.op = "StoreRec" -> Rec("STORE_REC", "STORE_LONG_REC", q.a, q.a.src)
    [] q.op = "LoadFrame" -> Frame("LOAD_FRAME", "LOAD_LONG_FRAME", q.a, q.a.dst)
    [] q.op = "StoreFrame" -> Frame("STORE_FRAME", "STORE_LONG_FRAME", q.a, q.a.src)
    [] q.op = "StoreFrameImm" -> StoreFrameImm(q.a)
    [] q.op \in {"DirectCall2i", "DirectCall2c", "DirectCall2n"} -> DirectCall(q.op, q.a)
    [] q.op = "NewBox" -> NewBox(q.a)

--------------------------------------------------------------------------------
(* The code object *)

\* A mutant: the distance from the start of the jump.
DistanceFromStart(f) == labels[f.label] - f.at
Distance(f) == labels[f.label] - f.at - Size(f.kind)

\* UseSymbol gives a literal the next index.
UseSymbol(table, value) == [table |-> Append(table, value), index |-> Len(table)]

\* An operand that fits 12 bits is written in place, another is a literal.
Operand(table, value) ==
  IF IsNBitsSigned(value, 3)
    THEN [table |-> table, index |-> value, how |-> "I"]
    ELSE UseSymbol(table, value) @@ [how |-> "L"]

\* How a hole is filled: the cells, and the literals afterwards.
Resolve(f, table) ==
  CASE f.kind = "Literal" ->
         LET s == UseSymbol(table, f.value)
         IN [cells |-> Cells(s.index, 2 * Byte), table |-> s.table]
    [] f.kind = "Literal12" ->
         LET s == UseSymbol(table, f.value)
         IN [cells |-> EncodeFields(EncodeXImm12, [imm4 |-> f.cc, imm12 |-> s.index]),
             table |-> s.table]
    [] f.kind = "Jmp" ->
         [cells |-> Encode(<<"JMP32", "">>, "B5i32", [imm32 |-> Distance(f)]), table |-> table]
    [] f.kind = "BrIfRef" ->
         [cells |-> Encode(<<"BRANCH_IS_REF", "">>, "B3xi12", [imm4 |-> f.left, imm12 |-> Distance(f)]),
          table |-> table]
    [] f.kind = "Bcc" ->
         LET to == Operand(table, Distance(f))
         IN [cells |-> Encode(<<IF to.how = "I" THEN "BCC_I" ELSE "BCC_L", f.v>>, "B4xi12rr",
                              [imm4 |-> f.cc, imm12 |-> to.index, x |-> f.left, y |-> f.right]),
             table |-> to.table]
    [] f.kind = "BccImm" ->
         LET to == Operand(table, Distance(f))
             right == Operand(to.table, f.right)
             family == CASE to.how = "I" /\ right.how = "I" -> "BCCI_I"
                         [] to.how = "I" /\ right.how = "L" -> "BCCL_I"
                         [] to.how = "L" /\ right.how = "I" -> "BCCI_L"
                         [] OTHER -> "BCCL_L"
         IN [cells |-> Encode(<<family, f.v>>, "B5xi12ri12",
                              [imm4 |-> f.cc, imm12 |-> to.index, left |-> f.left, right12 |-> right.index]),
             table |-> right.table]

\* A view of the segment overwrites it from a position on.
Overwrite(buffer, position, cells) ==
  [i \in DOMAIN buffer |->
     IF i - position * Byte \in DOMAIN cells THEN cells[i - position * Byte] ELSE buffer[i]]

FillHoles ==
  FoldLeft(LAMBDA code, f :
             LET r == Resolve(f, code.table)
             IN [segment |-> Overwrite(code.segment, f.at, r.cells), table |-> r.table],
           [segment |-> segment, table |-> <<>>], fixups)

--------------------------------------------------------------------------------
(* What the loop takes from an instruction: the operation, the format it   *)
(* decodes, and the field and the conversion of every argument.            *)

From(op, format, args) == [op |-> op, format |-> format, args |-> args]
Raw(f) == <<"raw", f>>
Signed4(f) == <<"signed4", f>>
Signed12(f) == <<"signed12", f>>
Signed32(f) == <<"signed32", f>>
Literal(f) == <<"literal", f>>
Jump12(f) == <<"jump12", f>>
JumpLiteral(f) == <<"jumpLiteral", f>>
Jump32(f) == <<"jump32", f>>
Builtin(f) == <<"builtin", f>>

ReadMoves ==
  [ LOG |-> From("LogInstruction", "B9i64", [string |-> Raw("imm64")]),
    RET |-> From("Ret", "B1", <<>>), NOP |-> From("Nop", "B1", <<>>),
    STK_PARAM |-> From("StackParam", "StackParam", [src |-> Raw("src"), dst |-> Raw("dst")]),
    STK_PARAM_S16 |-> From("StackParamS16", "StackParamS16", [src |-> Raw("src"), dst |-> Raw("dst")]),
    STK_PARAM_S32 |-> From("StackParamS32", "StackParamS32", [src |-> Raw("src"), dst |-> Raw("dst")]),
    LEA_STACK_PARAM |-> From("LeaStackParam", "LeaStackParam",
                             [dst |-> Raw("dst"), offset |-> Raw("offset")]),
    MOV |-> From("Mov", "B2rr", [d |-> Raw("x"), s |-> Raw("y")]),
    MOVI |-> From("MovImm", "B2xr", [d |-> Raw("r"), imm |-> Signed4("imm")]),
    GC_POINT |-> From("GcPoint", "B1", <<>>),
    FMOVI32 |-> From("FMovI32", "B6xri32", [d |-> Raw("r"), imm |-> Signed32("imm32")]),
    FMOVI64 |-> From("FMovI64", "B10xri64", [d |-> Raw("r"), imm |-> Raw("imm64")]) ]

ReadBranches ==
  LET bcc == [cc |-> Raw("imm4"), l |-> Raw("x"), r |-> Raw("y")]
      bcci == [cc |-> Raw("imm4"), l |-> Raw("left")]
      to == [label |-> Jump12("imm12")]  far == [label |-> JumpLiteral("imm12")]
      value == [imm |-> Signed12("right12")]  literal == [imm |-> Literal("right12")]
  IN [ BCC_I |-> From("Bcc", "B4xi12rr", bcc @@ to), BCC_L |-> From("Bcc", "B4xi12rr", bcc @@ far),
       BCCI_I |-> From("BccImm", "B5xi12ri12", bcci @@ value @@ to),
       BCCI_L |-> From("BccImm", "B5xi12ri12", bcci @@ value @@ far),
       BCCL_I |-> From("BccImm", "B5xi12ri12", bcci @@ literal @@ to),
       BCCL_L |-> From("BccImm", "B5xi12ri12", bcci @@ literal @@ far),
       BRANCH_IS_REF |-> From("BrIfRef", "B3xi12", [ti |-> Raw("imm4"), label |-> Jump12("imm12")]),
       JMP32 |-> From("Jmp", "B5i32", [label |-> Jump32("imm32")]) ]

ReadArithmetic ==
  LET dlr == [op |-> Raw("imm"), d |-> Raw("r"), l |-> Raw("x"), r |-> Raw("y")]
      dl == [op |-> Raw("imm4"), d |-> Raw("x"), l |-> Raw("y")]
      value == [imm |-> Signed12("imm12")]
      wide == [op |-> Raw("op"), d |-> Raw("x"), l |-> Raw("y"), imm |-> Raw("imm")]
      unary == [op |-> Raw("imm"), d |-> Raw("r"), s |-> Raw("y")]
  IN [ BIN |-> From("Binary", "B3xrrr", dlr),
       BINI_I |-> From("BinaryImm", "B4xi12rr", dl @@ value),
       BINI_L |-> From("BinaryImm", "B4xi12rr", dl @@ [imm |-> Literal("imm12")]),
       CBIN |-> From("Checked", "B3xrrr", dlr), SBIN |-> From("SatBinary", "B3xrrr", dlr),
       SBINIMM |-> From("SatBinaryImm", "B4xi12rr", dl @@ value),
       SBINIMM_W |-> From("SatBinaryImm", "BinaryWide", wide),
       CBINI_I |-> From("CheckedImm", "B4xi12rr", dl @@ value),
       CBINI_W |-> From("CheckedImm", "BinaryWide", wide),
       FBIN |-> From("FBinary", "B3xrrr", dlr), FUN |-> From("FUnary", "B3xrrr", unary),
       FMATHUN |-> From("FMathUnary", "B3xrrr", unary) ]

ReadNew ==
  LET ti == [ti |-> Raw("imm64")]  tiReg == [ti |-> Raw("x")]
      field == [base |-> Raw("y"), offset |-> Raw("offset"), ti |-> Raw("ti")]
  IN [ NEWOBJ_ACC_G |-> From("NewObjGenericOnAcc", "B2rr", tiReg),
       NEWOBJ_G |-> From("NewObjGeneric", "B2rr", tiReg),
       NEWOBJ |-> From("NewObj", "B9i64", ti),
       NEWBOX |-> From("NewBoxTI", "B2xr", [ti |-> Builtin("imm")]),
       NEWBOX2 |-> From("NewBoxTI", "B9i64", ti),
       UNBOX_T |-> From("UnboxT", "B6xri32", [src |-> Raw("r"), offset |-> Signed32("imm32")]),
       READ_STRUCT_FIELD |-> From("ReadStructField", "StructFieldOp", field @@ [dst |-> Raw("x")]),
       WRITE_STRUCT_FIELD |-> From("WriteStructField", "StructFieldOp", field @@ [src |-> Raw("x")]),
       INITCLOSURE |-> From("InitClosure", "B1", <<>>),
       SPAWN_FUTURE |-> From("SpawnFuture", "B1", <<>>), SPAWN |-> From("Spawn", "B9i64", ti),
       NEWARR |-> From("NewArr", "B9i64", ti), NEWARR_G |-> From("NewArrGeneric", "B2rr", tiReg) ]

ReadMemory ==
  LET access(v) == [kind |-> Raw("imm4"), offset |-> Raw("imm12")] @@ v
      dst == [dst |-> Raw("x"), base |-> Raw("y")]  src == [src |-> Raw("x"), base |-> Raw("y")]
      element == [kind |-> Raw("imm"), base |-> Raw("x"), idx |-> Raw("y")]
      address == [kind |-> Raw("imm"), address |-> Literal("imm16")]
  IN [ LOAD_ADDR |-> From("LoadStatic", "B4xri16", address @@ [dst |-> Raw("r")]),
       STORE_ADDR |-> From("StoreStatic", "B4xri16", address @@ [src |-> Raw("r")]),
       LOAD_OBJ |-> From("LoadObj", "B4xi12rr", access(dst)),
       STORE_OBJ |-> From("StoreObj", "B4xi12rr", access(src)),
       LOAD_ARR |-> From("LoadArray", "B3xrrr", element @@ [dst |-> Raw("r")]),
       STORE_ARR |-> From("StoreArray", "B3xrrr", element @@ [src |-> Raw("r")]),
       LOAD_REC |-> From("LoadRec", "B4xi12rr", access(dst)),
       STORE_REC |-> From("StoreRec", "B4xi12rr", access(src)) ]

ReadCopies ==
  LET to == [dstBase |-> Raw("dstBase"), dst |-> Raw("dst")]
      from == [srcBase |-> Raw("srcBase"), src |-> Raw("src")]
      ti == [ti |-> Raw("ti")]  tiReg == [ti |-> Raw("tiReg")]
  IN [ COPY_DERIVED |-> From("CopyDerived", "CopyDerived", to @@ from @@ ti),
       COPY_DERIVED_GENERIC |-> From("CopyDerivedGeneric", "CopyDerivedGeneric", to @@ from @@ tiReg),
       COPY_LOCAL |-> From("CopyLocal", "CopyLocal", [dst |-> Raw("dst"), src |-> Raw("src")] @@ ti),
       COPY_TO_LOCAL |-> From("CopyToLocal", "CopyDerived", [dst |-> Raw("dst")] @@ from @@ ti),
       COPY_FROM_LOCAL |-> From("CopyFromLocal", "CopyDerived", to @@ [src |-> Raw("src")] @@ ti),
       COPY_LOCAL_GENERIC |-> From("CopyLocalGeneric", "CopyLocalGeneric",
                                   [dst |-> Raw("x1"), src |-> Raw("y1"), ti |-> Raw("x2")]),
       COPY_TO_LOCAL_GENERIC |->
         From("CopyToLocalGeneric", "CopyLocalGeneric",
              [dst |-> Raw("x1"), srcBase |-> Raw("y1"), src |-> Raw("x2"), ti |-> Raw("y2")]),
       COPY_FROM_LOCAL_GENERIC |->
         From("CopyFromLocalGeneric", "CopyLocalGeneric",
              [dstBase |-> Raw("x1"), dst |-> Raw("y1"), src |-> Raw("x2"), ti |-> Raw("y2")]) ]

ReadSlotCopies ==
  LET to == [dstBase |-> Raw("dstBase"), dst |-> Raw("dst")]
      from == [srcBase |-> Raw("srcBase"), src |-> Raw("src")]
      dstOffset == [dstOffset |-> Signed32("dstOffset")]
      srcOffset == [srcOffset |-> Signed32("srcOffset")]
      ti == [ti |-> Raw("ti")]  tiReg == [ti |-> Raw("tiReg")]
      array == [dst |-> Raw("x"), src |-> Raw("y"), idx |-> Raw("idx")]
  IN [ COPY_TYPESLOT |-> From("CopyTypeSlot", "CopyTypeSlot", dstOffset @@ srcOffset @@ ti),
       COPY_TO_TYPESLOT |-> From("CopyToTypeSlot", "CopyToTypeSlot", dstOffset @@ from @@ ti),
       COPY_FROM_TYPESLOT |-> From("CopyFromTypeSlot", "CopyFromTypeSlot", to @@ srcOffset @@ ti),
       COPY_TYPESLOT_GENERIC |->
         From("CopyTypeSlotGeneric", "CopyTypeSlotGeneric", dstOffset @@ srcOffset @@ tiReg),
       COPY_TO_TYPESLOT_GENERIC |->
         From("CopyToTypeSlotGeneric", "CopyToTypeSlotGeneric", dstOffset @@ from @@ tiReg),
       COPY_FROM_TYPESLOT_GENERIC |->
         From("CopyFromTypeSlotGeneric", "CopyFromTypeSlotGeneric", to @@ srcOffset @@ tiReg),
       INDEX |-> From("LeaIndex", "Index", array @@ [cj |-> Raw("cj")] @@ ti),
       INDEX_GENERIC |-> From("LeaIndexGeneric", "IndexGeneric", array @@ ti),
       CONST_INDEX_GENERIC |-> From("LeaConstIndexGeneric", "ConstIndexGeneric", array @@ tiReg) ]

ReadFrames ==
  LET short == [kind |-> Raw("imm4"), offset |-> Signed12("imm12")]
      long == [kind |-> Raw("imm"), offset |-> Signed32("imm32")]
      rec == [kind |-> Raw("imm"), base |-> Raw("y"), offset |-> Raw("imm32")]
      derived == rec @@ [baseRef |-> Raw("x")]
      imm == [stk |-> Raw("stk"), imm |-> Raw("imm"), offset |-> Raw("offs")]
  IN [ LOAD_FRAME |-> From("LoadFrame", "B4xi12rr", short @@ [dst |-> Raw("x")]),
       STORE_FRAME |-> From("StoreFrame", "B4xi12rr", short @@ [src |-> Raw("x")]),
       LOAD_LONG_FRAME |-> From("LoadFrame", "B7xrrri32", long @@ [dst |-> Raw("r")]),
       STORE_LONG_FRAME |-> From("StoreFrame", "B7xrrri32", long @@ [src |-> Raw("r")]),
       STORE_FRAME_IMM |-> From("StoreFrameImm", "", imm),
       LOAD_LONG_REC |-> From("LoadRec", "B7xrrri32", rec @@ [dst |-> Raw("r")]),
       STORE_LONG_REC |-> From("StoreRec", "B7xrrri32", rec @@ [src |-> Raw("r")]),
       LOAD_LONG_DERIVED |-> From("LoadDerived", "B7xrrri32", derived @@ [dst |-> Raw("r")]),
       STORE_LONG_DERIVED |-> From("StoreDerived", "B7xrrri32", derived @@ [src |-> Raw("r")]) ]

ReadGeneric ==
  LET option == [ti |-> Raw("ti")]
      store == [src |-> Raw("src"), baseRef |-> Raw("base"), base |-> Raw("derived"), ti |-> Raw("ti")]
  IN [ LOAD_GENERIC |-> From("LoadGeneric", "B3rrrr",
                             [dst |-> Raw("x1"), baseRef |-> Raw("y1"), base |-> Raw("x2"), ti |-> Raw("y2")]),
       STORE_GENERIC |-> From("StoreGeneric", "", store),
       LEA_GENERIC |-> From("LeaGeneric", "B7xrrri32",
                            [dst |-> Raw("r"), base |-> Raw("x"), ti |-> Raw("y"), ordinal |-> Raw("imm32")]),
       INIT_NONE_GENERIC_OPT0 |-> From("InitNone", "InitOption", option),
       INIT_SOME_GENERIC |-> From("InitSome", "InitOption", option @@ [src |-> Raw("src")]) ]

ReadConvert ==
  LET convert == [toType |-> Raw("imm1"), fromType |-> Raw("imm2"), to |-> Raw("x"), from |-> Raw("y")]
      scci == [cc |-> Raw("imm4"), d |-> Raw("x"), l |-> Raw("y")]
  IN [ SCC |-> From("SCC", "B3xrrr", [cc |-> Raw("imm"), d |-> Raw("r"), l |-> Raw("x"), r |-> Raw("y")]),
       SCCI_I |-> From("SCCImm", "B4xi12rr", scci @@ [imm |-> Signed12("imm12")]),
       SCCI_L |-> From("SCCImm", "B4xi12rr", scci @@ [imm |-> Literal("imm12")]),
       OFFSET |-> From("Offset", "Offset", [dst |-> Raw("x"), ti |-> Raw("y"), ordinal |-> Raw("idx")]),
       TYPE_ARG |-> From("TypeArg", "B4xi12rr", [dst |-> Raw("x"), ti |-> Raw("y"), idx |-> Raw("imm12")]),
       CONVERT |-> From("Convert", "B3xxrr", convert),
       CHECKED_CONVERT |-> From("CheckedConvert", "B3xxrr", convert),
       BFX |-> From("BFX", "BFX", [dst |-> Raw("x"), src |-> Raw("y"),
                                   offset |-> Raw("offs"), size |-> Raw("size")]) ]

ReadCalls ==
  LET tis == [sret |-> Raw("sret"), outer |-> Raw("outer"), this |-> Raw("this")]
  IN [ DIRECT_CALL_2I |-> From("DirectCall2i", "B3xi12", [target |-> Literal("imm12")]),
       DIRECT_CALL_2C |-> From("DirectCall2c", "B3xi12", [target |-> Literal("imm12")]),
       DIRECT_CALL_2N |-> From("DirectCall2n", "B4xi12i8",
                               [target |-> Literal("imm12"), vec |-> Raw("imm4"), slots |-> Raw("imm8")]),
       CALL_CFUNC |-> From("CallCFunc", "B3xri8",
                           [src |-> Raw("r"), vec |-> Raw("imm"), slots |-> Raw("imm8")]),
       CALL_CLOSURE |-> From("CallClosure", "B1", <<>>),
       CALL_CLOSURE_GENERIC |-> From("CallClosureGeneric", "B1", <<>>),
       VIRTUAL_CALL |-> From("VirtualCall", "VirtualCall",
                             [vnum |-> Raw("vnum"), edef |-> Raw("edef"), sret |-> Raw("sret")]),
       INTERFACE_CALL |-> From("InterfaceCall", "InterfaceCall",
                               [num |-> Raw("vnum"), ti |-> Raw("ti")] @@ tis),
       INTERFACE_CALL_GENERIC |-> From("InterfaceCallGeneric", "InterfaceCallGeneric",
                                       [num |-> Raw("vnum")] @@ tis) ]

ReadChecks ==
  LET triple == [dst |-> Raw("r"), ti |-> Raw("y")]  reg == [r |-> Raw("r")]
  IN [ ASSIGN_GENERIC |-> From("AssignGeneric", "B3xrrr", triple @@ [src |-> Raw("x")]),
       IOF_GENERIC |-> From("InstanceOfGeneric", "B3xrrr", triple @@ [obj |-> Raw("x")]),
       STRING_INIT |-> From("StringLit", "B13i64i32", [literal |-> Raw("imm64"), offset |-> Signed32("imm32")]),
       NULLCHECK |-> From("NullCheck", "B2xr", reg), DIVCHECK |-> From("DivCheck", "B2xr", reg),
       ARRAY_INDEX_CHECK |-> From("ArrayIndexCheck", "B2rr", [length |-> Raw("x"), index |-> Raw("y")]),
       LOAD_GENERIC_TI |-> From("LoadGenericTypeInfo", "B9i64", [term |-> Raw("imm64")]),
       IOF |-> From("InstanceOf", "IOF", [dst |-> Raw("x"), obj |-> Raw("y"), ti |-> Raw("imm64")]),
       CATCH |-> From("Catch", "B2xr", reg), THROW |-> From("Throw", "B2xr", reg) ]

ReadAtomics ==
  LET rmw == [dst |-> Raw("x1"), obj |-> Raw("y1"), offset |-> Raw("offset")]
      plain == [kind |-> Raw("imm4"), offset |-> Raw("imm12"), obj |-> Raw("y")]
  IN [ ATOMIC |-> From("AtomicOp", "AtomicOp", rmw @@ [src |-> Raw("x2")]),
       CAS |-> From("CAS", "AtomicOp", rmw @@ [expected |-> Raw("x2"), newVal |-> Raw("y2")]),
       ATOMIC_LOAD |-> From("AtomicLoad", "B4xi12rr", plain @@ [dst |-> Raw("x")]),
       ATOMIC_STORE |-> From("AtomicStore", "B4xi12rr", plain @@ [src |-> Raw("x")]) ]

Reads ==
  ReadMoves @@ ReadBranches @@ ReadArithmetic @@ ReadNew @@ ReadMemory @@ ReadCopies
    @@ ReadSlotCopies @@ ReadFrames @@ ReadGeneric @@ ReadConvert @@ ReadCalls @@ ReadChecks
    @@ ReadAtomics

\* The handlers of stores of immediates and of generic values decode by size.
FormatOf(opcode) ==
  CASE opcode = <<"STORE_FRAME_IMM", "1">> -> "StoreFrameImm1"
    [] opcode = <<"STORE_FRAME_IMM", "2">> -> "StoreFrameImm2"
    [] opcode = <<"STORE_FRAME_IMM", "4">> -> "StoreFrameImm4"
    [] opcode = <<"STORE_FRAME_IMM", "8">> -> "StoreFrameImm8"
    [] opcode = <<"STORE_GENERIC", "0">> -> "StoreGeneric0"
    [] opcode = <<"STORE_GENERIC", "1">> -> "StoreGeneric1"
    [] opcode = <<"STORE_GENERIC", "4">> -> "StoreGeneric4"
    [] OTHER -> Reads[opcode[1]].format

LiteralAt(i) == IF i + 1 \in DOMAIN literals THEN literals[i + 1] ELSE OutOfTable

Argument(how, fields, next) ==
  CASE how[1] = "raw" -> fields[how[2]]
    [] how[1] = "signed4" -> Signed(fields[how[2]], 1)
    [] how[1] = "signed12" -> Signed(fields[how[2]], 3)
    [] how[1] = "signed32" -> Signed(fields[how[2]], 4 * Byte)
    [] how[1] = "literal" -> LiteralAt(fields[how[2]])
    [] how[1] = "builtin" -> BuiltinTypeInfo(fields[how[2]])
    [] how[1] = "jump12" -> next + Signed(fields[how[2]], 3)
    [] how[1] = "jumpLiteral" -> next + LiteralAt(fields[how[2]])
    [] how[1] = "jump32" -> next + Signed(fields[how[2]], 4 * Byte)

IsOpcode(cell) == Len(cell) = 2 /\ cell[1] \in DOMAIN Reads
ReadInstruction(at) ==
  LET opcode == segment[at * Byte + 1]
      format == FormatOf(opcode)
      fields == Decode(format, segment, at * Byte + 1)
      next == at + DecodedSize(format) \div Byte
      read == Reads[opcode[1]]
      offset == IF opcode = <<"STORE_GENERIC", "0">> THEN [offset |-> 0]
                ELSE IF opcode[1] = "STORE_GENERIC" THEN [offset |-> fields["offset"]] ELSE <<>>
  IN [q |-> [op |-> read.op, v |-> opcode[2],
             a |-> [n \in DOMAIN read.args |-> Argument(read.args[n], fields, next)] @@ offset],
      next |-> next]

--------------------------------------------------------------------------------
Init ==
  /\ program \in Programs /\ asked = 0
  /\ segment = <<>> /\ fixups = <<>> /\ labels = <<>>
  /\ literals = <<>> /\ built = FALSE
  /\ cursor = 0 /\ heard = <<>>

Pos == Len(segment) \div Byte
Unchanged == UNCHANGED <<program, literals, built, cursor, heard>>

Bind ==
  /\ asked < Len(program) /\ program[asked + 1].op = "Bind"
  /\ asked' = asked + 1
  /\ labels' = (program[asked + 1].a.label :> Pos) @@ labels
  /\ UNCHANGED <<segment, fixups>> /\ Unchanged

Emit ==
  /\ asked < Len(program) /\ program[asked + 1].op # "Bind"
  /\ asked' = asked + 1
  /\ LET all == FoldLeft(LAMBDA s, piece :
                           [segment |-> s.segment \o piece.cells,
                            fixups |-> IF piece.fixup = NoFixup THEN s.fixups
                                       ELSE Append(s.fixups, piece.fixup @@ [at |-> Len(s.segment) \div Byte])],
                         [segment |-> segment, fixups |-> fixups], Pieces(program[asked + 1]))
     IN segment' = all.segment /\ fixups' = all.fixups
  /\ UNCHANGED labels /\ Unchanged

Build ==
  /\ asked = Len(program) /\ ~built
  /\ built' = TRUE
  /\ segment' = FillHoles.segment /\ literals' = FillHoles.table
  /\ fixups' = <<>>
  /\ UNCHANGED <<program, asked, labels, cursor, heard>>

\* The loop decodes the instruction at the cursor; here it falls through to
\* the next one, and keeps where it would jump.
ReadNext ==
  /\ built /\ cursor < Pos /\ IsOpcode(segment[cursor * Byte + 1])
  /\ heard' = Append(heard, [q |-> ReadInstruction(cursor).q, at |-> cursor])
  /\ cursor' = ReadInstruction(cursor).next
  /\ UNCHANGED <<program, asked, segment, fixups, labels, literals, built>>

Next == Bind \/ Emit \/ Build \/ ReadNext

Spec == Init /\ [][Next]_vars
--------------------------------------------------------------------------------
(* What was asked for and what is done are compared by effect: an operation *)
(* has several encodings, and a store of an immediate keeps the low bytes.  *)

Without(a, names) == [n \in DOMAIN a \ names |-> a[n]]

KindNibbles(stk) ==
  LET K == StoreKinds
  IN CASE stk = K.ST_8 -> Byte [] stk = K.ST_16 -> 2 * Byte
       [] stk \in {K.ST_32, K.ST_F32} -> 4 * Byte [] OTHER -> 8 * Byte

StoredImm(a) == [bytes |-> KindNibbles(a.stk), offset |-> a.offset,
                 imm |-> Signed(a.imm % Radix ^ KindNibbles(a.stk), KindNibbles(a.stk))]

Effect(q) ==
  CASE q.op = "MovImm" -> [op |-> "Set", v |-> "", a |-> q.a]
    [] q.op = "BinaryImm" /\ q.a.op = ADD /\ q.a.l = IRZ ->
         [op |-> "Set", v |-> "", a |-> [d |-> q.a.d, imm |-> q.a.imm]]
    [] q.op = "LoadObj" -> [op |-> "LoadDerived", v |-> "", a |-> q.a @@ [baseRef |-> q.a.base]]
    [] q.op = "StoreObj" -> [op |-> "StoreDerived", v |-> "", a |-> q.a @@ [baseRef |-> q.a.base]]
    [] q.op = "StoreGeneric" -> [q EXCEPT !.v = ""]
    [] q.op = "StoreFrameImm" -> [q EXCEPT !.v = "", !.a = StoredImm(q.a)]
    [] q.op = "NewBox" -> [op |-> "NewBoxTI", v |-> "", a |-> [ti |-> BuiltinTypeInfo(q.a.t)]]
    [] OTHER -> [q EXCEPT !.a = Without(q.a, {"label"})]

Requested == SelectSeq(program, LAMBDA q : q.op # "Bind")
Stopped == built /\ ~(cursor < Pos /\ IsOpcode(segment[cursor * Byte + 1]))

\* The interpreter reads, one instruction after the other and to the end,
\* the operations the rewriter asked the emitter for, with every operand:
\* whichever encoding each took, and wherever its literals lie (emitter.cpp
\* 41-65, encoding_rt.cpp, isa_rt.h, interpretation_loop.cpp).
InterpreterReadsTheProgram ==
  /\ Len(heard) <= Len(Requested)
  /\ \A i \in DOMAIN heard : Effect(heard[i].q) = Effect(Requested[i])
  /\ Stopped => Len(heard) = Len(Requested) /\ cursor = Pos

\* The instructions asked for before a label is bound.
Before(label) ==
  LET bind == CHOOSE i \in DOMAIN program : program[i].op = "Bind" /\ program[i].a.label = label
  IN Len(SelectSeq(SubSeq(program, 1, bind), LAMBDA q : q.op # "Bind"))

\* A branch, short or through a literal, forwards or back, lands on the
\* instruction that was asked for right after its label was bound
\* (emitter.cpp 124-264, symbols.cpp 49-52, interpreter.h 520-540).
JumpsLand ==
  Stopped =>
    \A i \in DOMAIN heard : "label" \in DOMAIN Requested[i].a =>
      LET next == Before(Requested[i].a.label) + 1
      IN heard[i].q.a.label = IF next \in DOMAIN heard THEN heard[next].at ELSE cursor
================================================================================
