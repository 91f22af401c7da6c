------------------------------- MODULE Bytecode -------------------------------
(***************************************************************************)
(* The bytecode of a .cbc file as the parser reads it (cbc/isa_parser.cpp, *)
(* cbc/isa_opcodes.h, utils/lebencodings.cpp).                             *)
(*                                                                         *)
(* Bytes are pairs of cells of one nibble (module Encodings); the first    *)
(* register of a byte is in its high nibble.  Opcodes that differ in a     *)
(* width or a condition share their parser and stand for one opcode; the   *)
(* opcodes of the groups RegGroup and RegSymGroup are opcodes of their own *)
(* that leave the nibble of the group unused.                              *)
(***************************************************************************)
EXTENDS Encodings

U4U4(high, low) == <<[kind |-> "U4U4", names |-> <<high, low>>]>>
U4U4x2(a, b, c, d) == U4U4(a, b) \o U4U4(c, d)
Number(kind, name) == <<[kind |-> kind, names |-> <<name>>]>>
ULEB(name) == Number("ULEB", name)
SLEB(name) == Number("SLEB", name)
Imm == SLEB("imm")
Id == ULEB("id")
IdOf(a, b) == U4U4(a, b) \o Id

--------------------------------------------------------------------------------
(* The parsers of the opcodes *)

\* Branch offsets have 16 bits, or 32 after the wide prefix.
ParseBranches(wide) ==
  LET delta == Number(IF wide THEN "S32" ELSE "S16", "delta")
  IN [ Bcc |-> U4U4("l", "r") \o delta,
       BccGeneric |-> U4U4x2("cc", "l", "r", "low4") \o delta,
       BccImm |-> U4U4("cc", "l") \o Imm \o delta,
       Jump |-> delta ]

ParseMoves ==
  [ Nop |-> <<>>, Mov |-> U4U4("d", "s"), FMov |-> U4U4("d", "s"), MovRef |-> U4U4("d", "s"),
    FloatToInt |-> U4U4("d", "s"), IntToFloat |-> U4U4("d", "s"),
    MovImm |-> U4U4("d", "low4") \o Imm,
    MovBasePtr |-> U4U4("d", "local"),
    BFX |-> U4U4("d", "s") \o Number("U8", "byte1") \o Number("U8", "byte2") ]

ParseBinary ==
  [ BinarySpecialized |-> U4U4("l", "r"),
    Binary |-> U4U4x2("op", "d", "l", "r"), CBinary |-> U4U4x2("op", "d", "l", "r"),
    SBinary |-> U4U4x2("op", "d", "l", "r"),
    BinaryImm |-> U4U4x2("op", "d", "l", "low4") \o Imm,
    CBinaryImm |-> U4U4x2("op", "d", "l", "low4") \o Imm,
    SBinaryImm |-> U4U4x2("op", "d", "l", "low4") \o Imm,
    Convert |-> U4U4x2("toType", "fromType", "d", "s"),
    CheckedConvert |-> U4U4x2("toType", "fromType", "d", "s"),
    NewArr |-> IdOf("d", "len"), NewArrGeneric |-> U4U4x2("d", "len", "ti", "_"),
    FMovImm32 |-> U4U4("_", "d") \o Number("U32", "imm"),
    FMovImm64 |-> U4U4("_", "d") \o Number("U64", "imm"),
    GcPoint |-> <<>> ]

ParseFields ==
  [ Ld |-> IdOf("d", "base"), LdStatic |-> IdOf("d", "_"),
    LdTyped |-> U4U4("d", "_") \o ULEB("slot") \o Id,
    LdDerived |-> U4U4x2("d", "_", "baseRef", "derived") \o Id,
    LdGeneric |-> U4U4x2("d", "baseRef", "derived", "ti") \o Id,
    Lea |-> IdOf("d", "base"), LeaStatic |-> IdOf("d", "baseRef"),
    LeaGeneric |-> U4U4x2("d", "_", "base", "ti") \o Id,
    LeaBox |-> U4U4("d", "base"),
    St |-> IdOf("s", "base"), StStatic |-> IdOf("s", "_"),
    StTyped |-> U4U4("s", "_") \o ULEB("slot") \o Id,
    StDerived |-> U4U4x2("s", "_", "baseRef", "derived") \o Id,
    StGeneric |-> U4U4x2("s", "baseRef", "derived", "ti") \o Id,
    ZeroVal |-> U4U4("d", "ti"), FMathUnary |-> U4U4x2("op", "_", "d", "s"),
    LoadTailParam |-> U4U4x2("d", "base", "kind", "_") \o ULEB("imm") ]

ParseCopies ==
  [ Copy |-> U4U4x2("dBase", "d", "sBase", "s") \o Id,
    CopyGeneric |-> U4U4x2("dBase", "d", "sBase", "s") \o U4U4("ti", "_"),
    CopyLocal |-> IdOf("d", "s"),
    CopyToLocal |-> U4U4x2("_", "d", "sBase", "s") \o Id,
    CopyFromLocal |-> U4U4x2("dBase", "d", "_", "s") \o Id,
    CopyLocalGeneric |-> U4U4x2("d", "s", "ti", "_"),
    CopyToLocalGeneric |-> U4U4x2("d", "sBase", "s", "ti"),
    CopyFromLocalGeneric |-> U4U4x2("dBase", "d", "s", "ti"),
    CopyTypeSlot |-> ULEB("dSlot") \o ULEB("sSlot"),
    CopyToTypeSlot |-> ULEB("dSlot") \o U4U4("sBase", "s"),
    CopyFromTypeSlot |-> U4U4("dBase", "d") \o ULEB("sSlot"),
    CopyTypeSlotGeneric |-> ULEB("dSlot") \o ULEB("sSlot") \o U4U4("ti", "_"),
    CopyToTypeSlotGeneric |-> ULEB("dSlot") \o U4U4x2("sBase", "s", "ti", "_"),
    CopyFromTypeSlotGeneric |-> U4U4("dBase", "d") \o ULEB("sSlot") \o U4U4("ti", "_") ]

\* LoadStatic, StoreStatic and (ParseSlots) the typed slots take their register from
\* the low nibble.
ParseMemory ==
  [ LeaIndex |-> U4U4x2("d", "base", "idx", "_") \o Id,
    LeaIndexGeneric |-> U4U4x2("d", "base", "idx", "ti"),
    LeaConstIndexGeneric |-> U4U4x2("d", "base", "ti", "_") \o Imm,
    LoadRawMemory |-> U4U4x2("d", "base", "kind", "low4") \o Imm,
    StoreRawMemory |-> U4U4x2("s", "base", "kind", "low4") \o Imm,
    LoadStatic |-> U4U4("_", "d") \o Id, StoreStatic |-> U4U4("_", "s") \o Id,
    LoadStackRec |-> U4U4("d", "_") \o ULEB("slot"),
    LoadField |-> IdOf("base", "d"), StoreField |-> IdOf("base", "s"),
    PrepareRecord |-> Id,
    Scc |-> U4U4x2("cc", "d", "l", "r"), SccImm |-> U4U4x2("cc", "d", "l", "low4") \o Imm,
    InstanceOf |-> IdOf("d", "base"), LoadTypeInfoObj |-> U4U4("d", "base"),
    AssignGeneric |-> U4U4x2("d", "s", "ti", "_"),
    InstanceOfGeneric |-> U4U4x2("d", "base", "ti", "_") ]

\* RegGroup and RegSymGroup: the opcode within the group, a register, an index.
ParseGroups ==
  LET reg == U4U4("_", "d")  symbol == U4U4("_", "d") \o Id
  IN [ Ret |-> reg, FRet |-> reg, RetRef |-> reg, DivCheck |-> reg, NullCheck |-> reg,
       Catch |-> reg, Throw |-> reg,
       LoadTypeInfoSig |-> symbol, LoadTypeInfoGeneric |-> symbol, NewObj |-> symbol,
       NewObjGeneric |-> symbol, NewClosure |-> symbol, NewClosureGeneric |-> symbol,
       Spawn |-> symbol, SpawnFuture |-> symbol ]

ParseSlots ==
  [ InitString |-> ULEB("imm") \o ULEB("slot"),
    ArrayLength |-> U4U4("d", "base"), ArrayIndexCheck |-> U4U4("l", "r"),
    FloatOp |-> U4U4x2("op", "d", "l", "r"),
    LoadUntyped |-> U4U4("d", "kind") \o ULEB("slot"),
    StoreUntyped |-> U4U4("s", "kind") \o ULEB("slot"),
    StoreUntypedImm |-> ULEB("slot") \o Imm,
    LoadTyped |-> U4U4("_", "d") \o Number("U16", "slot") \o Id,
    StoreTyped |-> U4U4("_", "s") \o Number("U16", "slot") \o Id,
    StoreTypedImm |-> Number("U16", "slot") \o Id \o Imm,
    LoadArray |-> U4U4x2("d", "kind", "base", "idx"),
    StoreArray |-> U4U4x2("s", "kind", "base", "idx"),
    TypeArg |-> U4U4("ti", "d") \o ULEB("imm") ]

ParseGenerics ==
  [ BoxRec |-> U4U4("s", "d") \o Id, UnboxRec |-> U4U4("d", "s") \o Id,
    BoxGeneric |-> U4U4x2("s", "d", "ti", "_"), Box |-> U4U4("s", "d") \o Number("U8", "id"),
    BoxT |-> U4U4("_", "d") \o ULEB("slot"), BoxTGeneric |-> U4U4("ti", "d") \o ULEB("slot"),
    Unbox |-> U4U4("d", "s") \o Number("U8", "id"), UnboxT |-> U4U4("_", "s") \o ULEB("slot"),
    Offset |-> IdOf("d", "ti"), AddOffset |-> IdOf("d", "ti"),
    TagGeneric |-> U4U4x2("d", "s", "ti", "_") \o Id,
    PayloadGeneric |-> U4U4x2("d", "s", "ti", "optionTi") \o Id,
    NewNoneGeneric |-> U4U4x2("d", "ti", "optionTi", "_") \o Id,
    NewSomeGeneric |-> U4U4x2("d", "s", "ti", "optionTi") \o Id ]

ParseAtomics ==
  [ AtomicLoad |-> IdOf("d", "base"), AtomicStore |-> IdOf("s", "base"),
    CAS |-> U4U4x2("d", "base", "expected", "s") \o Id,
    AtomicOp |-> U4U4x2("d", "base", "s", "_") \o Id ]

ParseCalls ==
  LET args == Id \o <<[kind |-> "Args", names |-> <<"args">>]>>
  IN [ CallDirect |-> args, CallVirtual |-> args, CallInterf |-> args,
       CallInterfGeneric |-> Number("U16", "_") \o args,
       CallClosure |-> args, CallClosureGeneric |-> args,
       LeaCForeign |-> IdOf("d", "_"), CallCFunc |-> U4U4("d", "_") \o args ]

ISA_OPCODES(wide) ==
  ParseBranches(wide) @@ ParseMoves @@ ParseBinary @@ ParseFields @@ ParseCopies @@ ParseMemory
    @@ ParseGroups @@ ParseSlots @@ ParseGenerics @@ ParseAtomics @@ ParseCalls

--------------------------------------------------------------------------------
(* Numbers of a variable length: each byte holds a group of bits and, above *)
(* them, whether another byte follows.                                      *)

Group == Radix ^ Byte \div 2
SizeOfKind == [U4U4 |-> Byte, U8 |-> Byte, U16 |-> 2 * Byte, S16 |-> 2 * Byte,
               U32 |-> 4 * Byte, S32 |-> 4 * Byte, U64 |-> 8 * Byte]

Groups(value, n) ==
  FoldLeft(LAMBDA cells, i :
             cells \o Cells(((value \div Group ^ (i - 1)) % Group) + (IF i < n THEN Group ELSE 0), Byte),
           <<>>, [i \in 1..n |-> i])

EncodeULEB(value) ==
  Groups(value, CHOOSE n \in 1..8 : value < Group ^ n /\ (n = 1 \/ value >= Group ^ (n - 1)))

EncodeSLEB(value) ==
  LET fits(n) == value \in -(Group ^ n \div 2)..(Group ^ n \div 2 - 1)
  IN Groups(value, CHOOSE n \in 1..8 : fits(n) /\ \A m \in 1..n - 1 : ~fits(m))

ByteAt(buffer, cursor) == Unsigned(SubSeq(buffer, cursor, cursor + Byte - 1))

\* A number ends at the first byte without the mark, or with the buffer.
GroupsAt(buffer, cursor) ==
  LET last(n) == \/ ByteAt(buffer, cursor + (n - 1) * Byte) < Group
                 \/ cursor + n * Byte > Len(buffer)
  IN CHOOSE n \in 1..8 : last(n) /\ \A m \in 1..n - 1 : ~last(m)

DecodeULEB(buffer, cursor) ==
  FoldLeft(LAMBDA sum, i :
             sum + (ByteAt(buffer, cursor + (i - 1) * Byte) % Group) * Group ^ (i - 1),
           0, [i \in 1..GroupsAt(buffer, cursor) |-> i])

DecodeSLEB(buffer, cursor) ==
  LET n == GroupsAt(buffer, cursor)  value == DecodeULEB(buffer, cursor)
  IN IF value >= Group ^ n \div 2 THEN value - Group ^ n ELSE value

--------------------------------------------------------------------------------
(* The reader *)

MergeLowHi(low4, hi) == hi * Radix + low4

\* The arguments of a call are locations, each written as its number plus one;
\* a zero ends them.
ReadCallArgs(buffer, cursor) ==
  LET end == CHOOSE e \in cursor..Len(buffer) :
               /\ (e - cursor) % Byte = 0 /\ ByteAt(buffer, e) = 0
               /\ \A c \in cursor..e - 1 : (c - cursor) % Byte = 0 => ByteAt(buffer, c) # 0
  IN [cursor |-> end + Byte,
      number |-> Cardinality({c \in cursor..end - 1 :
                                (c - cursor) % Byte = 0 /\ ByteAt(buffer, c) < Group})]

\* One field: the values it gives and where the next one starts.
ReadField(field, buffer, cursor) ==
  LET name == field.names[1]
      fixed == Unsigned(SubSeq(buffer, cursor, cursor + SizeOfKind[field.kind] - 1))
      args == ReadCallArgs(buffer, cursor)
  IN CASE field.kind = "U4U4" ->
            [values |-> (field.names[2] :> buffer[cursor][1]) @@ (name :> buffer[cursor + 1][1]),
             cursor |-> cursor + Byte]
       [] field.kind \in {"U8", "U16", "U32", "U64"} ->
            [values |-> name :> fixed, cursor |-> cursor + SizeOfKind[field.kind]]
       [] field.kind \in {"S16", "S32"} ->
            [values |-> name :> Signed(fixed, SizeOfKind[field.kind]),
             cursor |-> cursor + SizeOfKind[field.kind]]
       [] field.kind = "ULEB" ->
            [values |-> name :> DecodeULEB(buffer, cursor),
             cursor |-> cursor + GroupsAt(buffer, cursor) * Byte]
       [] field.kind = "SLEB" ->
            [values |-> name :> DecodeSLEB(buffer, cursor),
             cursor |-> cursor + GroupsAt(buffer, cursor) * Byte]
       [] field.kind = "Args" -> [values |-> name :> args.number, cursor |-> args.cursor]

\* The switch of FloatOp gives each operation to the callback of its kind.
FloatOps == <<"FBinary", "FMov", "FUnary", "IntToFloat">>

\* The callback an opcode calls, and the arguments as the callback takes them.
\* BFX packs two flags with the offset and one with the size.
Callback(opcode, v) ==
  CASE opcode = "BinarySpecialized" -> [name |-> "Binary", a |-> v @@ [d |-> v.l, op |-> 0]]
    [] opcode = "BccGeneric" ->
         [name |-> "Bcc", a |-> [v EXCEPT !.delta = MergeLowHi(v.low4, v.delta)]]
    [] opcode \in {"BinaryImm", "CBinaryImm", "SBinaryImm", "SccImm", "MovImm",
                   "LoadRawMemory", "StoreRawMemory"} ->
         [name |-> opcode, a |-> [v EXCEPT !.imm = MergeLowHi(v.low4, v.imm)]]
    [] opcode = "BFX" ->
         [name |-> "BFX",
          a |-> v @@ [offset |-> v.byte1 % (Group \div 2), sx |-> v.byte2 \div Group,
                      size |-> v.byte2 % Group]]
    [] opcode = "FloatOp" -> [name |-> FloatOps[v.op + 1], a |-> v @@ [s |-> v.r]]
    [] opcode \in {"FMovImm32", "FMovImm64"} -> [name |-> "FMovImm", a |-> v]
    [] opcode = "BoxRec" -> [name |-> "Box", a |-> v]
    [] opcode = "UnboxRec" -> [name |-> "Unbox", a |-> v]
    [] OTHER -> [name |-> opcode, a |-> v]

\* One instruction: an opcode, perhaps after the prefix, and its fields.
ParseOne(buffer, cursor) ==
  LET wide == buffer[cursor] = <<"WidePrefix">>
      start == IF wide THEN cursor + Byte ELSE cursor
      opcode == buffer[start][1]
      read == FoldLeft(LAMBDA acc, field :
                         LET one == ReadField(field, buffer, acc.cursor)
                         IN [values |-> one.values @@ acc.values, cursor |-> one.cursor],
                       [values |-> "_" :> 0, cursor |-> start + Byte],
                       ISA_OPCODES(wide)[opcode])
  IN [callback |-> Callback(opcode, read.values), end |-> read.cursor]

--------------------------------------------------------------------------------
(* What the compiler writes: the same fields, a signed number split into its *)
(* lowest nibble and the rest where the parser merges them.                  *)

Written(field, values) ==
  LET value(name) == IF name \in DOMAIN values THEN values[name] ELSE 0
      name == field.names[1]
  IN CASE field.kind = "U4U4" -> <<<<value(field.names[2])>>, <<value(name)>>>>
       [] field.kind = "ULEB" -> EncodeULEB(value(name))
       [] field.kind = "SLEB" -> EncodeSLEB(value(name))
       [] field.kind = "Args" -> FoldLeft(LAMBDA cells, i : cells \o EncodeULEB(i), <<>>,
                                          [i \in 1..value(name) |-> i]) \o EncodeULEB(0)
       [] OTHER -> Cells(value(name), SizeOfKind[field.kind])

Assembled(opcode, wide, values) ==
  LET fields == ISA_OPCODES(wide)[opcode]
      split == \E i \in DOMAIN fields : "low4" \in ToSet(fields[i].names)
      number == IF "delta" \in DOMAIN values THEN "delta" ELSE "imm"
      merged == IF split
                THEN [values EXCEPT ![number] = values[number] \div Radix]
                       @@ [low4 |-> values[number] % Radix]
                ELSE values
  IN FoldLeft(LAMBDA cells, field : cells \o Written(field, merged),
              (IF wide THEN OpcodeCells(<<"WidePrefix">>) ELSE <<>>) \o OpcodeCells(<<opcode>>),
              fields)
================================================================================
