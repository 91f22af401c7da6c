------------------------------- MODULE Encodings -------------------------------
(***************************************************************************)
(* The formats of run-time bytecode, written twice by hand in the code:    *)
(* the encoder of cbc/emitter/encoding_rt.cpp and the decoders of          *)
(* cbc/isa_rt.h and cbc/isa.h.                                             *)
(*                                                                         *)
(* A nibble holds Radix values (16 in the code) and a byte two nibbles;    *)
(* the widths in bytes and nibbles are those of the code.  The buffer is a *)
(* sequence of cells of one nibble.  A cell is a tuple: <<value>>, or the  *)
(* name of an opcode in the first of its two cells.                        *)
(***************************************************************************)
EXTENDS Integers, Sequences, SequencesExt, TLC

CONSTANT Radix
ASSUME RadixAssumption == Radix \in {2, 4}

Nibble == 1
Byte == 2
SignBound(n) == Radix ^ n \div 2

Cells(value, n) == [i \in 1..n |-> <<(value \div Radix ^ (i - 1)) % Radix>>]

Unsigned(cells) ==
  FoldLeft(LAMBDA sum, i : sum + cells[i][1] * Radix ^ (i - 1), 0, [i \in 1..Len(cells) |-> i])

Signed(value, n) == IF value >= SignBound(n) THEN value - Radix ^ n ELSE value

IsNBits(value, n) == value \in 0..(Radix ^ n - 1)
IsNBitsSigned(value, n) == value \in -SignBound(n)..(SignBound(n) - 1)

OpcodeCells(opcode) == <<opcode, <<0>>>>

\* A format is the sequence of its fields after the opcode: a name, the
\* nibbles it takes and, for the decoder, whether it is read as signed.
Field(name, n) == <<<<name, n>>>>
Pair(low, high) == Field(low, Nibble) \o Field(high, Nibble)
Width(format) == FoldLeft(LAMBDA sum, f : sum + f[2], 0, format)

--------------------------------------------------------------------------------
(* The encoder *)

EncodeRR == Pair("x", "y")
EncodeXR == Pair("imm", "r")
EncodeXX == Pair("imm1", "imm2")
EncodeXImm12 == Field("imm4", Nibble) \o Field("imm12", 3)
EncodeRImm12 == Field("left", Nibble) \o Field("right12", 3)
EncodeW(name, bytes) == Field(name, bytes * Byte)

EncodeShort ==
  [ B1 |-> <<>>,
    B2rr |-> EncodeRR,
    B2xr |-> EncodeXR,
    B3xri8 |-> EncodeXR \o EncodeW("imm8", 1),
    B3xrrr |-> EncodeXR \o EncodeRR,
    B3xxrr |-> EncodeXX \o EncodeRR,
    B3xi12 |-> EncodeXImm12,
    B3rrrr |-> Pair("x1", "y1") \o Pair("x2", "y2"),
    InitOption |-> Pair("src", "ti"),
    B4xi12rr |-> EncodeXImm12 \o EncodeRR,
    BinaryWide |-> EncodeW("op", 1) \o EncodeRR \o EncodeW("imm", 8),
    BFX |-> EncodeRR \o EncodeW("offs", 1) \o EncodeW("size", 1),
    IOF |-> EncodeRR \o EncodeW("imm64", 8) ]

EncodeLong ==
  [ B5xi12ri12 |-> EncodeXImm12 \o EncodeRImm12,
    VirtualCall |-> EncodeW("vnum", 2) \o EncodeW("edef", 2) \o EncodeW("sret", 1),
    B5i32 |-> EncodeW("imm32", 4),
    B6xri32 |-> EncodeXR \o EncodeW("imm32", 4),
    B10xri64 |-> EncodeXR \o EncodeW("imm64", 8),
    B7xrrri32 |-> EncodeXR \o EncodeRR \o EncodeW("imm32", 4),
    B9i64 |-> EncodeW("imm64", 8),
    InterfaceCall |-> EncodeW("vnum", 2) \o EncodeW("ti", 8) \o EncodeW("sret", 1)
                        \o EncodeW("outer", 2) \o EncodeW("this", 2),
    InterfaceCallGeneric |-> EncodeW("vnum", 2) \o EncodeW("sret", 1)
                               \o EncodeW("outer", 2) \o EncodeW("this", 2),
    B13i64i32 |-> EncodeW("imm64", 8) \o EncodeW("imm32", 4),
    AtomicOp |-> Pair("x1", "y1") \o Pair("x2", "y2") \o EncodeW("offset", 2),
    StructFieldOp |-> EncodeRR \o EncodeW("offset", 1) \o EncodeW("ti", 8) ]

EncodeStores ==
  LET generic == Pair("src", "base") \o Pair("derived", "ti")
      imm(bytes) == EncodeW("stk", 1) \o EncodeW("imm", bytes) \o EncodeW("offs", 4)
  IN [ StoreGeneric0 |-> generic,
       StoreGeneric1 |-> generic \o EncodeW("offset", 1),
       StoreGeneric4 |-> generic \o EncodeW("offset", 4),
       StoreFrameImm1 |-> imm(1), StoreFrameImm2 |-> imm(2),
       StoreFrameImm4 |-> imm(4), StoreFrameImm8 |-> imm(8) ]

EncodeCopies ==
  LET dst == Pair("dstBase", "dst")  src == Pair("srcBase", "src")
      ti == EncodeW("ti", 8)  tiReg == Pair("tiReg", "pad")
      dstOffset == EncodeW("dstOffset", 4)  srcOffset == EncodeW("srcOffset", 4)
  IN [ CopyDerived |-> dst \o src \o ti,
       CopyDerivedGeneric |-> dst \o src \o tiReg,
       CopyLocal |-> Pair("dst", "src") \o ti,
       CopyLocalGeneric |-> Pair("x1", "y1") \o Pair("x2", "y2"),
       CopyTypeSlot |-> dstOffset \o srcOffset \o ti,
       CopyTypeSlotGeneric |-> dstOffset \o srcOffset \o tiReg,
       CopyToTypeSlot |-> dstOffset \o src \o ti,
       CopyToTypeSlotGeneric |-> dstOffset \o src \o tiReg,
       CopyFromTypeSlot |-> dst \o srcOffset \o ti,
       CopyFromTypeSlotGeneric |-> dst \o srcOffset \o tiReg,
       Index |-> EncodeRR \o Pair("cj", "idx") \o ti,
       IndexGeneric |-> EncodeRR \o Pair("idx", "ti"),
       ConstIndexGeneric |-> EncodeRR \o tiReg \o EncodeW("idx", 8) ]

\* The register of a parameter on the stack is put in the high nibble.
EncodeStackParams ==
  [ StackParam |-> Pair("pad", "src") \o EncodeW("dst", 2),
    StackParamS16 |-> EncodeW("src", 2) \o EncodeW("dst", 2),
    StackParamS32 |-> EncodeW("src", 4) \o EncodeW("dst", 2),
    LeaStackParam |-> Pair("pad", "dst") \o EncodeW("offset", 2) ]

EncodedFormats == EncodeShort @@ EncodeLong @@ EncodeStores @@ EncodeCopies @@ EncodeStackParams

\* The cells of the fields of an instruction; a field not given is zero.
EncodeFields(format, values) ==
  FoldLeft(LAMBDA cells, f :
             cells \o Cells(IF f[1] \in DOMAIN values THEN values[f[1]] ELSE 0, f[2]),
           <<>>, format)

Encode(opcode, format, values) ==
  OpcodeCells(opcode) \o EncodeFields(EncodedFormats[format], values)

--------------------------------------------------------------------------------
(* The decoders *)

Low(name) == <<name, Nibble, FALSE>>
DecodeRR == <<Low("x"), Low("y")>>
DecodeXR == <<Low("imm"), Low("r")>>
DecodeXX == <<Low("imm1"), Low("imm2")>>
DecodeXImm12 == <<Low("imm4"), <<"imm12", 3, FALSE>>>>
DecodeRImm12 == <<Low("left"), <<"right12", 3, FALSE>>>>
Read(name, bytes) == <<<<name, bytes * Byte, FALSE>>>>
ReadSigned(name, bytes) == <<<<name, bytes * Byte, TRUE>>>>

DecodeShort ==
  [ B1 |-> <<>>,
    B2rr |-> DecodeRR,
    B2xr |-> DecodeXR,
    B3xri8 |-> DecodeXR \o Read("imm8", 1),
    B4xri16 |-> DecodeXR \o Read("imm16", 2),
    B3xrrr |-> DecodeXR \o DecodeRR,
    B3xxrr |-> DecodeXX \o DecodeRR ]

DecodeMedium ==
  [ B3xi12 |-> DecodeXImm12,
    B4xi12i8 |-> DecodeXImm12 \o Read("imm8", 1),
    B3rrrr |-> <<Low("x1"), Low("y1"), Low("x2"), Low("y2")>>,
    InitOption |-> <<Low("src"), Low("ti")>>,
    B4xi12rr |-> DecodeXImm12 \o DecodeRR,
    BinaryWide |-> Read("op", 1) \o DecodeRR \o ReadSigned("imm", 8),
    BFX |-> DecodeRR \o Read("offs", 1) \o Read("size", 1) ]

DecodeStores ==
  LET generic == <<Low("src"), Low("base"), Low("derived"), Low("ti")>>
      imm(bytes) == Read("stk", 1) \o ReadSigned("imm", bytes) \o ReadSigned("offs", 4)
  IN [ IOF |-> DecodeRR \o ReadSigned("imm64", 8),
       StructFieldOp |-> DecodeRR \o Read("offset", 1) \o ReadSigned("ti", 8),
       StoreGeneric0 |-> generic,
       StoreGeneric1 |-> generic \o Read("offset", 1),
       StoreGeneric4 |-> generic \o Read("offset", 4),
       StoreFrameImm1 |-> imm(1), StoreFrameImm2 |-> imm(2),
       StoreFrameImm4 |-> imm(4), StoreFrameImm8 |-> imm(8) ]

DecodeCopies ==
  LET dst == <<Low("dstBase"), Low("dst")>>  src == <<Low("srcBase"), Low("src")>>
      tiReg == <<Low("tiReg"), Low("pad")>>  ti == ReadSigned("ti", 8)
  IN [ CopyDerived |-> dst \o src \o ti,
       CopyDerivedGeneric |-> dst \o src \o tiReg,
       CopyLocal |-> <<Low("dst"), Low("src")>> \o ti,
       CopyLocalGeneric |-> <<Low("x1"), Low("y1"), Low("x2"), Low("y2")>>,
       CopyTypeSlot |-> Read("dstOffset", 4) \o Read("srcOffset", 4) \o ti ]

DecodeSlotCopies ==
  LET dst == <<Low("dstBase"), Low("dst")>>  src == <<Low("srcBase"), Low("src")>>
      tiReg == <<Low("tiReg"), Low("pad")>>  ti == ReadSigned("ti", 8)
  IN [ CopyTypeSlotGeneric |-> Read("dstOffset", 4) \o Read("srcOffset", 4) \o tiReg,
       CopyToTypeSlot |-> Read("dstOffset", 4) \o src \o ti,
       CopyToTypeSlotGeneric |-> Read("dstOffset", 4) \o src \o tiReg,
       CopyFromTypeSlot |-> dst \o Read("srcOffset", 4) \o ti,
       CopyFromTypeSlotGeneric |-> dst \o Read("srcOffset", 4) \o tiReg ]

DecodeLong ==
  [ Index |-> DecodeRR \o <<Low("cj"), Low("idx")>> \o ReadSigned("ti", 8),
    IndexGeneric |-> DecodeRR \o <<Low("idx"), Low("ti")>>,
    ConstIndexGeneric |-> DecodeRR \o <<Low("tiReg"), Low("pad")>> \o ReadSigned("idx", 8),
    B5xi12ri12 |-> DecodeXImm12 \o DecodeRImm12,
    VirtualCall |-> Read("vnum", 2) \o Read("edef", 2) \o Read("sret", 1),
    AtomicOp |-> <<Low("x1"), Low("y1"), Low("x2"), Low("y2")>> \o Read("offset", 2),
    B5i32 |-> Read("imm32", 4),
    B6xri32 |-> DecodeXR \o Read("imm32", 4),
    Offset |-> DecodeRR \o Read("idx", 4) ]

DecodeCalls ==
  [ B9i64 |-> ReadSigned("imm64", 8),
    B7xrrri32 |-> DecodeXR \o DecodeRR \o Read("imm32", 4),
    B13i64i32 |-> ReadSigned("imm64", 8) \o Read("imm32", 4),
    B10xri64 |-> DecodeXR \o ReadSigned("imm64", 8),
    InterfaceCall |-> Read("vnum", 2) \o ReadSigned("ti", 8) \o Read("sret", 1)
                        \o Read("outer", 2) \o Read("this", 2),
    InterfaceCallGeneric |-> Read("vnum", 2) \o Read("sret", 1)
                               \o Read("outer", 2) \o Read("this", 2) ]

DecodeStackParams ==
  [ StackParam |-> <<Low("pad"), Low("src")>> \o Read("dst", 2),
    StackParamS16 |-> ReadSigned("src", 2) \o Read("dst", 2),
    StackParamS32 |-> ReadSigned("src", 4) \o Read("dst", 2),
    LeaStackParam |-> <<Low("pad"), Low("dst")>> \o Read("offset", 2) ]

DecodedFormats ==
  DecodeShort @@ DecodeMedium @@ DecodeStores @@ DecodeCopies @@ DecodeSlotCopies
    @@ DecodeLong @@ DecodeCalls @@ DecodeStackParams

\* The reader takes the fields one after the other from the cursor.
Decode(format, buffer, cursor) ==
  LET fields == DecodedFormats[format]
      start(i) == cursor + Byte + Width(SubSeq(fields, 1, i - 1))
      raw(i) == Unsigned(SubSeq(buffer, start(i), start(i) + fields[i][2] - 1))
      index(name) == CHOOSE i \in DOMAIN fields : fields[i][1] = name
  IN [name \in {fields[i][1] : i \in DOMAIN fields} |->
        LET i == index(name)
        IN IF fields[i][3] THEN Signed(raw(i), fields[i][2]) ELSE raw(i)]

DecodedSize(format) == Byte + Width(DecodedFormats[format])
================================================================================
