------------------------------- MODULE MCEmitter -------------------------------
(***************************************************************************)
(* The emitter on every operation with every register and immediates on    *)
(* both sides of each bound of an encoding, on pairs of operations that    *)
(* share the literal table, and on branches over code of many sizes.       *)
(* A nibble is one bit, so "12 bits" are three.                            *)
(***************************************************************************)
EXTENDS Emitter

R == {0, 1}
U8 == {0, 1, 3}
U16 == {0, 5, 15}
S32 == {-128, -5, -4, 0, 3, 4, 127}
P64 == {-32768, 6, 32767}
Imm64s == {-32768, -129, -128, -9, -8, -5, -4, -3, -2, -1, 0, 1, 2, 3, 4, 7, 8, 127, 128, 32767}
U32 == {0, 1, 2, 3, 4, 7, 8, 127}
Offset12 == {0, 1, 4, 7}

All(op, vs, args) == {<<[op |-> op, v |-> v, a |-> a]>> : v \in vs, a \in args}
One(op, args) == All(op, {""}, args)
None(op) == One(op, {<<>>})
W == {"32", "64"}

Three == [op : R, d : R, l : R, r : R]
Imm(imms) == [op : R, d : R, l : R, imm : imms]
Arithmetic ==
  UNION {All(op, W, Three) : op \in {"Binary", "Checked", "SatBinary", "FBinary"}}
    \union All("BinaryImm", W, Imm(Imm64s))
    \union UNION {All(op, {"64"}, Imm(Imm64s)) : op \in {"SatBinaryImm", "CheckedImm"}}
    \union UNION {All(op, {"32"}, Imm({-128, -5, -4, 3, 4, 255})) : op \in {"SatBinaryImm", "CheckedImm"}}
    \union UNION {All(op, W, [op : R, d : R, s : R]) : op \in {"FUnary", "FMathUnary"}}
    \union One("Mov", [d : R, s : R])
    \union All("MovImm", W, [d : R, imm : Imm64s])
    \union One("FMovI32", [d : R, imm : S32]) \union One("FMovI64", [d : R, imm : P64])
    \union All("SCC", W, [cc : R, d : R, l : R, r : R])
    \union All("SCCImm", W, [cc : R, d : R, l : R, imm : Imm64s])
    \union One("Convert", [toType : R, fromType : R, to : R, from : R])
    \union One("CheckedConvert", [toType : R, fromType : R, to : R, from : R])
    \union All("BFX", {"S", "Z"}, [dst : R, src : R, offset : U8, size : U8])

Plain ==
  UNION {None(op) : op \in {"Nop", "Ret", "SpawnFuture", "GcPoint",
                            "CallClosureGeneric"}}
    \union UNION {All(op, {"", "SRET"}, {<<>>}) : op \in {"InitClosure", "CallClosure"}}
Objects ==
  UNION {One(op, [ti : R]) : op \in {"NewObjGenericOnAcc", "NewArrGeneric", "InitNone"}}
    \union UNION {One(op, [ti : P64]) : op \in {"NewArr", "Spawn", "NewBoxTI"}}
    \union All("NewObjGeneric", {"", "PINNED"}, [ti : R])
    \union All("NewObj", {"", "PINNED"}, [ti : P64])
    \union All("InitSome", {"", "OPT0"}, [src : R, ti : R])
    \union One("NewBox", [t : 0..4])
    \union One("UnboxT", [src : R, offset : S32])
    \union One("Offset", [dst : R, ti : R, ordinal : U32])
    \union One("TypeArg", [dst : R, ti : R, idx : Offset12])
    \union One("ReadStructField", [dst : R, base : R, offset : U8, ti : P64])
    \union One("WriteStructField", [src : R, base : R, offset : U8, ti : P64])
    \union One("AssignGeneric", [dst : R, ti : R, src : R])
    \union One("InstanceOfGeneric", [dst : R, ti : R, obj : R])
    \union One("InstanceOf", [dst : R, obj : R, ti : P64])

Memory ==
  LET loaded == [kind : R, dst : R, base : R]  stored == [kind : R, src : R, base : R]
  IN {<<[op |-> op, v |-> "", a |-> a @@ [offset |-> o]]>> :
        op \in {"LoadObj", "LoadRec"}, a \in loaded, o \in U32}
       \union {<<[op |-> op, v |-> "", a |-> a @@ [offset |-> o]]>> :
                 op \in {"StoreObj", "StoreRec"}, a \in stored, o \in U32}
       \union One("LoadFrame", [kind : R, dst : R, offset : S32])
       \union One("StoreFrame", [kind : R, src : R, offset : S32])
       \union One("StoreFrameImm", [stk : 0..6, imm : Imm64s, offset : {-128, 0, 127}])
       \union One("LoadDerived", [kind : R, dst : R, baseRef : R, base : R, offset : U32])
       \union One("StoreDerived", [kind : R, src : R, baseRef : R, base : R, offset : U32])
       \union One("LoadArray", [kind : R, dst : R, base : R, idx : R])
       \union One("StoreArray", [kind : R, src : R, base : R, idx : R])
       \union One("LoadStatic", [kind : R, dst : R, address : P64])
       \union One("StoreStatic", [kind : R, src : R, address : P64])
       \union One("LoadGeneric", [dst : R, baseRef : R, base : R, ti : R])
       \union One("StoreGeneric", [src : R, baseRef : R, base : R, ti : R, offset : {0, 1, 2, 3, 4, 127}])
       \union One("LeaGeneric", [dst : R, base : R, ti : R, ordinal : U32])
       \union One("AtomicLoad", [kind : R, dst : R, obj : R, offset : Offset12])
       \union One("AtomicStore", [kind : R, src : R, obj : R, offset : Offset12])
       \union One("CAS", [dst : R, obj : R, expected : R, newVal : R, offset : U16])
       \union All("AtomicOp", {"ADD", "SWAP"}, [dst : R, obj : R, src : R, offset : U16])

Copies ==
  One("CopyDerived", [dstBase : R, dst : R, srcBase : R, src : R, ti : P64])
    \union One("CopyDerivedGeneric", [dstBase : R, dst : R, srcBase : R, src : R, ti : R])
    \union One("CopyLocal", [dst : R, src : R, ti : P64])
    \union One("CopyToLocal", [dst : R, srcBase : R, src : R, ti : P64])
    \union One("CopyFromLocal", [dstBase : R, dst : R, src : R, ti : P64])
    \union One("CopyLocalGeneric", [dst : R, src : R, ti : R])
    \union One("CopyToLocalGeneric", [dst : R, srcBase : R, src : R, ti : R])
    \union One("CopyFromLocalGeneric", [dstBase : R, dst : R, src : R, ti : R])
    \union One("CopyTypeSlot", [dstOffset : S32, srcOffset : S32, ti : P64])
    \union One("CopyTypeSlotGeneric", [dstOffset : S32, srcOffset : S32, ti : R])
    \union One("CopyToTypeSlot", [dstOffset : S32, srcBase : R, src : R, ti : P64])
    \union One("CopyToTypeSlotGeneric", [dstOffset : S32, srcBase : R, src : R, ti : R])
    \union One("CopyFromTypeSlot", [dstBase : R, dst : R, srcOffset : S32, ti : P64])
    \union One("CopyFromTypeSlotGeneric", [dstBase : R, dst : R, srcOffset : S32, ti : R])
    \union One("LeaIndex", [dst : R, src : R, idx : R, cj : R, ti : P64])
    \union One("LeaIndexGeneric", [dst : R, src : R, idx : R, ti : R])
    \union One("LeaConstIndexGeneric", [dst : R, src : R, idx : P64, ti : R])

Calls ==
  One("CallCFunc", [src : R, vec : R, slots : U8])
    \union One("VirtualCall", [vnum : U16, edef : U16, sret : U8])
    \union One("InterfaceCall", [num : U16, ti : P64, sret : U8, outer : U16, this : U16])
    \union One("InterfaceCallGeneric", [num : U16, sret : U8, outer : U16, this : U16])
    \union UNION {One(op, [target : P64]) : op \in {"DirectCall2i", "DirectCall2c"}}
    \union One("DirectCall2n", [target : P64, vec : R, slots : U8])
    \union One("StringLit", [literal : P64, offset : S32])
    \union UNION {One(op, [r : R]) : op \in {"DivCheck", "NullCheck", "Throw", "Catch"}}
    \union One("ArrayIndexCheck", [length : R, index : R])
    \union One("LoadGenericTypeInfo", [term : P64])
    \union One("LogInstruction", [string : P64])
    \union One("StackParam", [src : R, dst : U16]) \union One("LeaStackParam", [dst : R, offset : U16])
    \union One("StackParamS16", [src : {-8, 7}, dst : U16])
    \union One("StackParamS32", [src : S32, dst : U16])

Q(op, v, a) == <<[op |-> op, v |-> v, a |-> a]>>
Users ==
  {Q("BinaryImm", "32", [op |-> 1, d |-> 1, l |-> 0, imm |-> 8]),
   Q("SCCImm", "64", [cc |-> 1, d |-> 0, l |-> 1, imm |-> -5]),
   Q("LoadStatic", "", [kind |-> 0, dst |-> 1, address |-> 32767]),
   Q("DirectCall2i", "", [target |-> 6]),
   Q("DirectCall2n", "", [target |-> -7, vec |-> 1, slots |-> 2]),
   Q("MovImm", "64", [d |-> 1, imm |-> 4])}
Sharing == {p \o q \o r : p \in Users, q \in Users, r \in Users}

BindLabel(n) == Q("Bind", "", [label |-> n])
Branches(n) ==
  {Q("Bcc", "32", [cc |-> 1, l |-> 0, r |-> 1, label |-> n]),
   Q("BccImm", "64", [cc |-> 0, l |-> 1, imm |-> 3, label |-> n]),
   Q("BccImm", "32", [cc |-> 1, l |-> 0, imm |-> 4, label |-> n]),
   Q("Jmp", "", [label |-> n])}
Near(n) == {Q("BrIfRef", "", [ti |-> 1, label |-> n])}
Nops(n) == FoldLeft(LAMBDA s, i : s \o Q("Nop", "", <<>>), <<>>, [i \in 1..n |-> i])
Fillers == {Nops(n) : n \in 0..5} \union {Q("BFX", "S", [dst |-> 0, src |-> 1, offset |-> 1, size |-> 2]),
                                          Q("FMovI64", "", [d |-> 1, imm |-> 9]),
                                          Q("BinaryImm", "64", [op |-> 1, d |-> 1, l |-> 0, imm |-> 100])}
Jumps ==
  {b \o f \o BindLabel(1) \o g : b \in Branches(1), f \in Fillers, g \in {Nops(0), Nops(1)}}
    \union {BindLabel(1) \o f \o b : b \in Branches(1), f \in Fillers}
    \union {BindLabel(1) \o f \o b : b \in Near(1), f \in {Nops(0), Nops(1)}}
    \union {b \o f \o BindLabel(1) : b \in Near(1), f \in {Nops(0), Nops(1), Nops(3)}}
TwoJumps ==
  {BindLabel(1) \o b \o f \o c \o BindLabel(2) \o g :
     b \in Branches(2), c \in Branches(1), f \in Fillers, g \in {Nops(0), Nops(1)}}

MCPrograms ==
  Arithmetic \union Plain \union Objects \union Memory \union Copies \union Calls \union Sharing
    \union Jumps \union TwoJumps
================================================================================
