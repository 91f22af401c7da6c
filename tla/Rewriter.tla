-------------------------------- MODULE Rewriter --------------------------------
(***************************************************************************)
(* The rewriter of bytecode (cbc/isa_rewriter.cpp), with the index of      *)
(* offsets and the search for exception handlers that read what it leaves. *)
(*                                                                         *)
(* The rewriter walks over the bytecode of a method and emits run-time     *)
(* operations for every instruction; it binds a label at the start of each *)
(* instruction and a state point behind the operations that may collect or *)
(* throw.  The code is then run symbolically: a register holds a term, the *)
(* operations done so far are the effects, and at every instruction        *)
(* boundary the state is compared with what the instructions mean.         *)
(***************************************************************************)
EXTENDS Bytecode

CONSTANTS
  Programs,      \* methods: instructions, and the first and last+1 instruction of a try block
  Fields,        \* the fields that resolve: of a record or of an object, by index
  Types,         \* the types that resolve, by index: the kind of their values
  Methods,       \* the methods that resolve, by index: how they are called
  Steps          \* bounds the instructions a run executes

ASSUME MethodsAssumption ==
  \A id \in DOMAIN Methods : Methods[id].kind \in {"foreign", "compiled", "interpreted"}

\* The registers of the compiler are a nibble; the scratch register is beyond.
IRZ == 0
IR1 == 1
IR2 == 2
IR_ACC == 14
FReg(n) == 20 + n
NoReg == -1
ObjectHeaderSize == 8
GlobalBase == 100
LocalBase == 200

VARIABLES
  program, choice,               \* the method, and how its conditions turn out
  starts, bytes,                 \* its bytecode, and where each instruction starts in it
  cursor, rt, size, labels,      \* the reader, the operations, their size, the labels
  statePoints, failures,
  phase, src, pc, regs, effects, goal, executed, ran

vars == <<program, choice, starts, bytes, cursor, rt, size, labels, statePoints, failures,
          phase, src, pc, regs, effects, goal, executed, ran>>

\* A branch is written as the distance from its end to the instruction it names.
StartsOf(code) ==
  FoldLeft(LAMBDA at, i : Append(at, at[i.n] + Len(Assembled(i.opcode, i.wide, i.v))),
           <<1>>, [n \in DOMAIN code |-> [n |-> n] @@ code[n]])
BytesOf(code, at) ==
  LET values(n) == IF "delta" \in DOMAIN code[n].v
                   THEN [code[n].v EXCEPT !.delta = (at[code[n].to] - at[n + 1]) \div Byte]
                   ELSE code[n].v
  IN FoldLeft(LAMBDA cells, n : cells \o Assembled(code[n].opcode, code[n].wide, values(n)),
              <<>>, [n \in DOMAIN code |-> n])

--------------------------------------------------------------------------------
(* What the rewriter gives to the emitter *)

NoTarget == <<0, 0>>
Item(kind, op, d, u, x, to) == <<[kind |-> kind, op |-> op, d |-> d, u |-> u, x |-> x, to |-> to]>>

\* An operation that computes a register, and one that also acts on the heap,
\* on the thread or on another method.
Op(op, d, u, x) == Item("op", op, d, u, x, NoTarget)
Do(op, d, u, x) == Item("do", op, d, u, x, NoTarget)
Branch(op, u, x, to) == Item("branch", op, NoReg, u, x, to)
Bind(label) == Item("bind", "none", NoReg, <<>>, <<>>, label)
BindStatePoint == Item("state", "none", NoReg, <<>>, <<>>, NoTarget)

AdjustReg(expected, actual) ==
  IF expected # actual THEN Op("Mov", expected, <<actual>>, <<>>) ELSE <<>>
InstructionLabel(position) == <<position, 0>>

ExpandBranches(k, a, end) ==
  LET target == InstructionLabel(end + a.delta * Byte)
  IN CASE k = "Bcc" -> Branch("Bcc", <<a.l, a.r>>, <<>>, target)
       [] k = "BccImm" -> Branch("Bcc", <<a.l>>, <<a.imm>>, target)
       [] k = "Jump" -> Branch("Jmp", <<>>, <<>>, target)

ExpandMoves(k, a) ==
  CASE k \in {"Mov", "MovRef"} -> Op("Mov", a.d, <<a.s>>, <<>>)
    [] k = "FMov" -> Op("Mov", FReg(a.d), <<FReg(a.s)>>, <<>>)
    [] k = "FloatToInt" -> Op("Mov", a.d, <<FReg(a.s)>>, <<>>)
    [] k = "IntToFloat" -> Op("Mov", FReg(a.d), <<a.s>>, <<>>)
    [] k = "MovImm" -> Op("MovImm", a.d, <<>>, <<a.imm>>)
    [] k = "FMovImm" -> Op("MovImm", FReg(a.d), <<>>, <<a.imm>>)
    [] k = "MovBasePtr" ->
         Op("MovImm", a.d, <<>>, <<IF a.local # 0 THEN LocalBase ELSE GlobalBase>>)
    [] k = "BFX" -> Op(IF a.sx # 0 THEN "BFXS" ELSE "BFXZ", a.d, <<a.s>>, <<a.offset, a.size>>)
    [] k = "Nop" -> Do("Nop", NoReg, <<>>, <<>>)

ExpandBinary(k, a) ==
  CASE k \in {"Binary", "SBinary"} -> Op(k, a.d, <<a.l, a.r>>, <<a.op>>)
    [] k = "FBinary" -> Op(k, FReg(a.d), <<FReg(a.l), FReg(a.r)>>, <<a.op>>)
    [] k \in {"BinaryImm", "SBinaryImm"} -> Op(k, a.d, <<a.l>>, <<a.op, a.imm>>)
    [] k = "CBinary" -> Do(k, a.d, <<a.l, a.r>>, <<a.op>>) \o BindStatePoint
    [] k = "CBinaryImm" -> Do(k, a.d, <<a.l>>, <<a.op, a.imm>>) \o BindStatePoint
    [] k \in {"FUnary", "FMathUnary"} -> Op(k, FReg(a.d), <<FReg(a.s)>>, <<a.op>>)
    [] k = "Scc" -> Op("SCC", a.d, <<a.l, a.r>>, <<a.cc>>)
    [] k = "SccImm" -> Op("SCC", a.d, <<a.l>>, <<a.cc, a.imm>>)
    [] k = "Convert" -> Op(k, a.d, <<a.s>>, <<a.toType, a.fromType>>)
    [] k = "CheckedConvert" -> Do(k, a.d, <<a.s>>, <<a.toType, a.fromType>>)

\* NewObject: the object arrives in IR1.
NewObject(d, op, uses, id) ==
  Do(op, IR1, uses, <<id>>) \o BindStatePoint \o AdjustReg(d, IR1)
IsFuture(id) == Types[id] = "future"
NewObjectOf(id) == IF IsFuture(id) THEN "NewObjPinned" ELSE "NewObj"

ExpandNewArrays(k, a) ==
  CASE k = "NewArr" -> AdjustReg(IR2, a.len) \o NewObject(a.d, "NewArr", <<IR2>>, a.id)
    [] k = "NewArrGeneric" ->
         AdjustReg(IR2, a.len) \o Do("NewArrGeneric", IR1, <<IR2, a.ti>>, <<>>)
           \o BindStatePoint \o AdjustReg(a.d, IR1)
    [] k = "GcPoint" -> Do(k, NoReg, <<>>, <<>>) \o BindStatePoint
    [] k = "PrepareRecord" -> <<>>

ExpandNewObjects(k, a) ==
  CASE k = "NewObj" -> NewObject(a.d, NewObjectOf(a.id), <<>>, a.id)
    [] k = "NewObjGeneric" ->
         Do(NewObjectOf(a.id), IR1, <<a.d>>, <<>>) \o BindStatePoint
    [] k = "NewClosure" ->
         NewObject(IR1, "NewObj", <<>>, a.id) \o Do("InitClosure", NoReg, <<IR1>>, <<>>)
           \o AdjustReg(a.d, IR1)
    [] k = "NewClosureGeneric" ->
         Do("NewObj", IR1, <<a.d>>, <<>>) \o BindStatePoint
           \o Do("InitClosure", NoReg, <<IR1>>, <<>>)

ExpandSpawns(k, a) ==
  AdjustReg(IR_ACC, a.d) \o Do(k, NoReg, <<IR_ACC>>, IF k = "Spawn" THEN <<a.id>> ELSE <<>>)
    \o BindStatePoint

\* A field of a record is at its offset from the base, one of an object beyond the header.
OfRecord(id) == Fields[id] = "record"
Place(id, ofRecord, ofObject) == IF OfRecord(id) THEN ofRecord ELSE ofObject

ExpandFieldLoads(k, a) ==
  CASE k = "Ld" -> Op(Place(a.id, "LoadRec", "LoadObj"), a.d, <<a.base>>, <<a.id>>)
    [] k = "Lea" -> Op(Place(a.id, "LeaRec", "LeaObj"), a.d, <<a.base>>, <<a.id>>)
    [] k = "LdStatic" -> Op("LoadStatic", a.d, <<>>, <<a.id>>)
    [] k = "LdTyped" -> Op("LoadFrame", a.d, <<>>, <<a.slot, a.id>>)
    [] k = "LdDerived" -> Op("LoadDerived", a.d, <<a.baseRef, a.derived>>, <<a.id>>)
    [] k = "LdGeneric" -> Do("LoadGeneric", a.d, <<a.baseRef, a.derived, a.ti>>, <<>>)
    [] k = "LeaStatic" ->
         Op("LeaStatic", a.d, <<>>, <<a.id>>) \o Op("MovImm", a.baseRef, <<>>, <<GlobalBase>>)
    [] k = "LeaGeneric" ->
         Op("LeaGeneric", a.d, <<a.base, a.ti>>, <<a.id>>)
           \o (IF OfRecord(a.id) THEN <<>> ELSE Op("AddI", a.d, <<a.d>>, <<ObjectHeaderSize>>))

ExpandFieldStores(k, a) ==
  CASE k = "St" -> Do(Place(a.id, "StoreRec", "StoreObj"), NoReg, <<a.s, a.base>>, <<a.id>>)
    [] k = "StStatic" -> Do("StoreStatic", NoReg, <<a.s>>, <<a.id>>)
    [] k = "StTyped" -> Do("StoreFrame", NoReg, <<a.s>>, <<a.slot, a.id>>)
    [] k = "StDerived" -> Do("StoreDerived", NoReg, <<a.s, a.baseRef, a.derived>>, <<a.id>>)
    [] k = "StGeneric" -> Do("StoreGeneric", NoReg, <<a.s, a.baseRef, a.derived, a.ti>>, <<a.id>>)

\* The older forms: a static field, a field that is always read as one of an object.
ExpandMembers(k, a) ==
  CASE k = "LoadStatic" -> Op("LoadStatic", a.d, <<>>, <<a.id>>)
    [] k = "StoreStatic" -> Do("StoreStatic", NoReg, <<a.s>>, <<a.id>>)
    [] k = "LoadField" -> Op("LoadObj", a.d, <<a.base>>, <<a.id>>)
    [] k = "StoreField" -> Do(Place(a.id, "StoreRec", "StoreObj"), NoReg, <<a.s, a.base>>, <<a.id>>)

ExpandAtomics(k, a) ==
  CASE k = "AtomicLoad" -> Do(k, a.d, <<a.base>>, <<a.id>>)
    [] k = "AtomicStore" -> Do(k, NoReg, <<a.s, a.base>>, <<a.id>>)
    [] k = "CAS" -> Do(k, a.d, <<a.base, a.expected, a.s>>, <<a.id>>)
    [] k = "AtomicOp" -> Do(k, a.d, <<a.base, a.s>>, <<a.id>>)

ExpandRaw(k, a) ==
  CASE k = "LeaIndex" -> Op(k, a.d, <<a.base, a.idx>>, <<a.id>>)
    [] k = "LeaIndexGeneric" -> Op(k, a.d, <<a.base, a.idx, a.ti>>, <<>>)
    [] k = "LeaConstIndexGeneric" -> Op(k, a.d, <<a.base, a.ti>>, <<a.imm>>)
    [] k = "LoadStackRec" -> Op("LeaFrame", a.d, <<>>, <<a.slot>>)
    [] k = "LoadTailParam" -> Op("LoadRaw", a.d, <<a.base>>, <<a.kind, a.imm * 8>>)
    [] k = "LoadRawMemory" -> Op("LoadRaw", a.d, <<a.base>>, <<a.kind, a.imm>>)
    [] k = "StoreRawMemory" -> Do("StoreRaw", NoReg, <<a.s, a.base>>, <<a.kind, a.imm>>)

ExpandSlots(k, a) ==
  CASE k = "InitString" -> Do("StringLit", NoReg, <<>>, <<a.imm, a.slot>>)
    [] k = "ArrayLength" -> Op("LoadRaw", a.d, <<a.base>>, <<ObjectHeaderSize>>)
    [] k = "ArrayIndexCheck" -> Do(k, NoReg, <<a.l, a.r>>, <<>>) \o BindStatePoint
    [] k = "LoadUntyped" -> Op("LoadFrame", a.d, <<>>, <<a.kind, a.slot>>)
    [] k = "StoreUntyped" -> Do("StoreFrame", NoReg, <<a.s>>, <<a.kind, a.slot>>)
    [] k = "StoreUntypedImm" -> Do("StoreFrame", NoReg, <<>>, <<a.imm, a.slot>>)
    [] k = "LoadTyped" -> Op("LoadFrame", a.d, <<>>, <<a.slot, a.id>>)
    [] k = "StoreTyped" -> Do("StoreFrame", NoReg, <<a.s>>, <<a.slot, a.id>>)
    [] k = "StoreTypedImm" -> Do("StoreFrame", NoReg, <<>>, <<a.imm, a.slot, a.id>>)
    [] k = "LoadArray" -> Op(k, a.d, <<a.base, a.idx>>, <<a.kind>>)
    [] k = "StoreArray" -> Do(k, NoReg, <<a.s, a.base, a.idx>>, <<a.kind>>)
    [] k = "TypeArg" -> Op(k, a.d, <<a.ti>>, <<a.imm>>)

ExpandCopies(k, a) ==
  CASE k = "LeaBox" -> Op("LeaRaw", a.d, <<a.base>>, <<ObjectHeaderSize>>)
    [] k = "Copy" -> Do(k, NoReg, <<a.dBase, a.d, a.sBase, a.s>>, <<a.id>>)
    [] k = "CopyGeneric" -> Do(k, NoReg, <<a.dBase, a.d, a.sBase, a.s, a.ti>>, <<>>)
    [] k = "CopyLocal" -> Do(k, NoReg, <<a.d, a.s>>, <<a.id>>)
    [] k = "CopyToLocal" -> Do(k, NoReg, <<a.d, a.sBase, a.s>>, <<a.id>>)
    [] k = "CopyFromLocal" -> Do(k, NoReg, <<a.dBase, a.d, a.s>>, <<a.id>>)
    [] k = "CopyLocalGeneric" -> Do(k, NoReg, <<a.d, a.s, a.ti>>, <<>>)
    [] k = "CopyToLocalGeneric" -> Do(k, NoReg, <<a.d, a.sBase, a.s, a.ti>>, <<>>)
    [] k = "CopyFromLocalGeneric" -> Do(k, NoReg, <<a.dBase, a.d, a.s, a.ti>>, <<>>)
    [] k = "CopyTypeSlot" -> Do(k, NoReg, <<>>, <<a.dSlot, a.sSlot>>)
    [] k = "CopyToTypeSlot" -> Do(k, NoReg, <<a.sBase, a.s>>, <<a.dSlot>>)
    [] k = "CopyFromTypeSlot" -> Do(k, NoReg, <<a.dBase, a.d>>, <<a.sSlot>>)
    [] k = "CopyTypeSlotGeneric" -> Do(k, NoReg, <<a.ti>>, <<a.dSlot, a.sSlot>>)
    [] k = "CopyToTypeSlotGeneric" -> Do(k, NoReg, <<a.sBase, a.s, a.ti>>, <<a.dSlot>>)
    [] k = "CopyFromTypeSlotGeneric" -> Do(k, NoReg, <<a.dBase, a.d, a.ti>>, <<a.sSlot>>)

ExpandTypeInfos(k, a) ==
  CASE k = "LoadTypeInfoGeneric" ->
         Op("LoadGenericTypeInfo", IR1, <<>>, <<a.id>>) \o AdjustReg(a.d, IR1)
    [] k = "LoadTypeInfoSig" -> Op("MovImm", a.d, <<>>, <<a.id>>)
    [] k = "LoadTypeInfoObj" -> Op("LoadRaw", a.d, <<a.base>>, <<0>>)
    [] k = "InstanceOf" -> Op(k, a.d, <<a.base>>, <<a.id>>)
    [] k = "InstanceOfGeneric" -> Op("InstanceOf", a.d, <<a.base, a.ti>>, <<>>)
    [] k = "AssignGeneric" -> Do(k, NoReg, <<a.d, a.s, a.ti>>, <<>>)

ExpandOffsets(k, a) ==
  (IF k = "AddOffset"
   THEN Op("Offset", IR_ACC, <<a.ti>>, <<a.id>>) \o Op("Add", a.d, <<a.d, IR_ACC>>, <<>>)
   ELSE Op("Offset", a.d, <<a.ti>>, <<a.id>>))
    \o (IF OfRecord(a.id) THEN <<>> ELSE Op("AddI", a.d, <<a.d>>, <<ObjectHeaderSize>>))

\* Mutant: the path of a value runs on into that of a reference.
FallThrough(ti, start, ofValue, ofReference) ==
  LET refPath == <<start, 1>>
  IN Branch("BranchIfRef", <<ti>>, <<>>, refPath) \o ofValue \o Bind(refPath) \o ofReference

\* Code for a type argument that may be a reference: both shapes, and a branch.
IfRef(ti, start, ofValue, ofReference) ==
  LET refPath == <<start, 1>>  end == <<start, 2>>
  IN Branch("BranchIfRef", <<ti>>, <<>>, refPath)
       \o ofValue \o Branch("Jmp", <<>>, <<>>, end)
       \o Bind(refPath) \o ofReference \o Bind(end)

ExpandOptions(k, a, start) ==
  LET option0 == Types[a.id] = "option0"
      onAcc == Do("NewObjGenericOnAcc", IR_ACC, <<a.optionTi>>, <<>>) \o BindStatePoint
      null == Op("SCC", a.d, <<a.d, IRZ>>, <<IF option0 THEN 1 ELSE 0>>)
  IN CASE k = "TagGeneric" ->
            IfRef(a.ti, start,
                  Op("LoadTag", a.d, <<a.s>>, <<ObjectHeaderSize>>),
                  Op("LoadRef", a.d, <<a.s>>, <<ObjectHeaderSize>>) \o null)
       [] k = "PayloadGeneric" ->
            Op("LeaGeneric", IR_ACC, <<a.s, a.optionTi>>, <<1>>)
              \o Op("AddI", IR_ACC, <<IR_ACC>>, <<ObjectHeaderSize>>)
              \o Do("LoadGeneric", a.d, <<a.s, IR_ACC, a.ti>>, <<>>) \o BindStatePoint
       [] k = "NewNoneGeneric" ->
            onAcc \o (IF option0 THEN Do("InitNone", NoReg, <<IR_ACC, a.ti>>, <<>>) ELSE <<>>)
              \o Op("Mov", a.d, <<IR_ACC>>, <<>>)
       [] k = "NewSomeGeneric" ->
            onAcc \o Do("InitSome", NoReg, <<IR_ACC, a.s, a.ti>>, <<IF option0 THEN 1 ELSE 0>>)
              \o Op("Mov", a.d, <<IR_ACC>>, <<>>)

ZeroVal(a, start) ==
  IfRef(a.ti, start,
        Do("NewObjGenericOnAcc", IR_ACC, <<a.ti>>, <<>>) \o BindStatePoint
          \o AdjustReg(a.d, IR_ACC),
        Op("MovImm", a.d, <<>>, <<0>>))

\* Mutant: the place where a box is made is not bound.
UnboundBox(id) == Do("NewBox", IR_ACC, <<>>, <<id>>)

NewBox(id) == Do("NewBox", IR_ACC, <<>>, <<id>>) \o BindStatePoint

ExpandBoxes(k, a) ==
  CASE k = "Box" ->
         NewBox(a.id)
           \o (CASE Types[a.id] = "unit" -> <<>>
                 [] Types[a.id] = "record" ->
                      Do("WriteStructField", NoReg, <<a.s, IR_ACC>>, <<a.id>>)
                 [] OTHER -> Do("StoreObj", NoReg, <<a.s, IR_ACC>>, <<ObjectHeaderSize>>))
           \o AdjustReg(a.d, IR_ACC)
    [] k = "BoxGeneric" ->
         Do("NewObjGenericOnAcc", IR_ACC, <<a.ti>>, <<>>) \o BindStatePoint
           \o Do("StoreGeneric", NoReg, <<a.s, IR_ACC, IR_ACC, a.ti>>, <<ObjectHeaderSize>>)
           \o AdjustReg(a.d, IR_ACC)
    [] k = "BoxT" ->
         Do("NewBox", IR_ACC, <<>>, <<a.slot>>) \o BindStatePoint
           \o AdjustReg(a.d, IR_ACC) \o Op("LeaFrame", IR_ACC, <<>>, <<a.slot>>)
           \o Do("WriteStructField", NoReg, <<IR_ACC, a.d>>, <<a.slot>>)
    [] k = "BoxTGeneric" ->
         Op("LeaFrame", IR_ACC, <<>>, <<a.slot>>)
           \o Do("LoadGeneric", a.d, <<IRZ, IR_ACC, a.ti>>, <<>>) \o BindStatePoint
    [] k = "Unbox" ->
         (CASE Types[a.id] = "unit" -> AdjustReg(a.d, IRZ)
            [] Types[a.id] = "record" -> Do("ReadStructField", NoReg, <<a.d, a.s>>, <<a.id>>)
            [] OTHER -> Op("LoadObj", a.d, <<a.s>>, <<ObjectHeaderSize>>))
    [] k = "UnboxT" -> Do(k, NoReg, <<a.s>>, <<a.slot>>)

ExpandGroups(k, a) ==
  CASE k \in {"Ret", "RetRef"} -> AdjustReg(IR1, a.d) \o Do("Ret", NoReg, <<IR1>>, <<>>)
    [] k = "FRet" -> AdjustReg(FReg(0), FReg(a.d)) \o Do("Ret", NoReg, <<FReg(0)>>, <<>>)
    [] k \in {"DivCheck", "NullCheck"} -> Do(k, NoReg, <<a.d>>, <<>>) \o BindStatePoint
    [] k = "Catch" -> Do(k, a.d, <<>>, <<>>)
    [] k = "Throw" -> Do(k, NoReg, <<a.d>>, <<>>)

\* The arguments are put in place by parallel moves (module MoveResolver), none
\* when they already are.  A foreign function leaves a small structure in
\* registers, and the code behind the call spills them.
StageArgs(a) == IF a.args = 0 THEN <<>> ELSE Do("StageArgs", NoReg, <<>>, <<a.args>>)
FillSRetArea(method) ==
  IF method.sret THEN Do("StoreRaw", NoReg, <<IR1, IR_ACC>>, <<>>) ELSE <<>>

ExpandCalls(k, a) ==
  CASE k = "CallDirect" /\ Methods[a.id].kind = "foreign" ->
         StageArgs(a) \o Do("DirectCall2n", NoReg, <<>>, <<a.id>>) \o BindStatePoint
           \o FillSRetArea(Methods[a.id])
    [] k = "CallDirect" /\ Methods[a.id].kind = "compiled" ->
         StageArgs(a) \o Do("DirectCall2c", NoReg, <<>>, <<a.id>>) \o BindStatePoint
    [] k = "CallDirect" /\ Methods[a.id].kind = "interpreted" ->
         StageArgs(a) \o Do("DirectCall2i", NoReg, <<>>, <<a.id>>) \o BindStatePoint
    [] k = "CallCFunc" ->
         StageArgs(a) \o Do(k, NoReg, <<a.d>>, <<a.id>>)
           \o FillSRetArea(Methods[a.id]) \o BindStatePoint
    [] k = "LeaCForeign" -> Op("MovImm", a.d, <<>>, <<a.id>>)

ExpandMethodCalls(k, a) == StageArgs(a) \o Do(k, NoReg, <<>>, <<a.id>>) \o BindStatePoint
ExpandClosureCalls(k, a) == StageArgs(a) \o Do(k, NoReg, <<>>, <<>>) \o BindStatePoint

\* The callbacks by what they make of an instruction.
Expansion(k, a, start, end) ==
  CASE k \in {"Bcc", "BccImm", "Jump"} -> ExpandBranches(k, a, end)
    [] k \in DOMAIN ParseMoves \cup {"FMovImm"} -> ExpandMoves(k, a)
    [] k \in {"NewArr", "NewArrGeneric", "GcPoint", "PrepareRecord"} -> ExpandNewArrays(k, a)
    [] k \in {"NewObj", "NewObjGeneric", "NewClosure", "NewClosureGeneric"} ->
         ExpandNewObjects(k, a)
    [] k \in {"Spawn", "SpawnFuture"} -> ExpandSpawns(k, a)
    [] k \in (DOMAIN ParseBinary \ {"NewArr", "NewArrGeneric", "GcPoint"})
              \cup {"FBinary", "FUnary", "FMathUnary", "Scc", "SccImm"} -> ExpandBinary(k, a)
    [] k \in {"Ld", "Lea", "LdStatic", "LdTyped", "LdDerived", "LdGeneric", "LeaStatic",
              "LeaGeneric"} -> ExpandFieldLoads(k, a)
    [] k \in {"St", "StStatic", "StTyped", "StDerived", "StGeneric"} -> ExpandFieldStores(k, a)
    [] k \in {"LoadStatic", "StoreStatic", "LoadField", "StoreField"} -> ExpandMembers(k, a)
    [] k \in DOMAIN ParseAtomics -> ExpandAtomics(k, a)
    [] k \in DOMAIN ParseCopies \cup {"LeaBox"} -> ExpandCopies(k, a)
    [] k \in {"LoadTypeInfoGeneric", "LoadTypeInfoSig", "LoadTypeInfoObj", "InstanceOf",
              "InstanceOfGeneric", "AssignGeneric"} -> ExpandTypeInfos(k, a)
    [] k \in {"Offset", "AddOffset"} -> ExpandOffsets(k, a)
    [] k \in {"TagGeneric", "PayloadGeneric", "NewNoneGeneric", "NewSomeGeneric"} ->
         ExpandOptions(k, a, start)
    [] k = "ZeroVal" -> ZeroVal(a, start)
    [] k \in {"Box", "BoxGeneric", "BoxT", "BoxTGeneric", "Unbox", "UnboxT"} -> ExpandBoxes(k, a)
    [] k \in {"CallDirect", "CallCFunc", "LeaCForeign"} -> ExpandCalls(k, a)
    [] k \in {"CallVirtual", "CallInterf", "CallInterfGeneric"} -> ExpandMethodCalls(k, a)
    [] k \in {"CallClosure", "CallClosureGeneric"} -> ExpandClosureCalls(k, a)
    [] k \in {"Ret", "RetRef", "FRet", "DivCheck", "NullCheck", "Catch", "Throw"} ->
         ExpandGroups(k, a)
    [] k \in DOMAIN ParseSlots -> ExpandSlots(k, a)
    [] OTHER -> ExpandRaw(k, a)

--------------------------------------------------------------------------------
(* Rewriting *)

FieldCallbacks ==
  {"Ld", "Lea", "LoadField", "LdStatic", "LoadStatic", "LdTyped", "LoadTyped", "LdDerived",
   "LdGeneric", "LeaStatic", "LeaGeneric", "AtomicLoad", "St", "StoreField", "StStatic",
   "StoreStatic", "StTyped", "StoreTyped", "StoreTypedImm", "StDerived", "StGeneric",
   "AtomicStore", "CAS", "AtomicOp", "Offset", "AddOffset"}
MethodCallbacks == DOMAIN ParseCalls \ {"CallClosure", "CallClosureGeneric"}
TypeCallbacks ==
  {"NewObj", "NewArr", "NewObjGeneric", "NewClosure", "NewClosureGeneric", "Spawn", "Copy",
   "CopyLocal", "CopyToLocal", "CopyFromLocal", "LeaIndex", "LoadTypeInfoGeneric",
   "LoadTypeInfoSig", "InstanceOf", "TagGeneric", "PayloadGeneric", "NewNoneGeneric",
   "NewSomeGeneric", "Box", "Unbox", "CallClosure", "CallClosureGeneric"}

\* Whether the queries of the callback are answered, and a method of which the address
\* is taken has compiled code.
Resolves(k, a) ==
  /\ k \in FieldCallbacks => a.id \in DOMAIN Fields
  /\ k \in MethodCallbacks => a.id \in DOMAIN Methods
  /\ k = "LeaCForeign" /\ a.id \in DOMAIN Methods => Methods[a.id].kind # "interpreted"
  /\ k \in TypeCallbacks => a.id \in DOMAIN Types

\* A callback without an answer calls Fail; the one of NewClosureGeneric only returns.
Fails(k, a) == ~Resolves(k, a) /\ k # "NewClosureGeneric"

\* The operations of one byte; the others have operands.
SizeOf(op) ==
  IF op \in {"Ret", "GcPoint", "CallClosure", "CallClosureGeneric", "SpawnFuture",
             "InitClosure", "Nop"}
  THEN 1 ELSE 2

Bound(bound, label, position) ==
  [l \in DOMAIN bound \cup {label} |-> IF l = label THEN position ELSE bound[l]]

\* The emitter appends operations, and binds labels and state points where it stands.
Emit(emitted, item, originalPos) ==
  CASE item.kind = "bind" ->
         [emitted EXCEPT !.labels = Bound(emitted.labels, item.to, emitted.size)]
    [] item.kind = "state" ->
         [emitted EXCEPT !.points =
            emitted.points \cup {[pos |-> emitted.size, originalPos |-> originalPos]}]
    [] OTHER ->
         [emitted EXCEPT !.rt = Append(emitted.rt, [item |-> item, pos |-> emitted.size,
                                                    of |-> originalPos]),
                         !.size = emitted.size + SizeOf(item.op)]

EmitAll(emitted, items, originalPos) ==
  FoldLeft(LAMBDA acc, item : Emit(acc, item, originalPos), emitted, items)

\* ParseOne binds the label of the instruction, reads it and calls its callback.
\* The callback emits its operations, and says when it fails.
Rewrite(k, a, end) ==
  LET items == Bind(InstructionLabel(cursor))
                 \o (IF Resolves(k, a) THEN Expansion(k, a, cursor, end) ELSE <<>>)
      before == [rt |-> rt, size |-> size, labels |-> labels, points |-> statePoints]
      Keep(emitted) ==
        /\ rt' = emitted.rt /\ size' = emitted.size
        /\ labels' = emitted.labels /\ statePoints' = emitted.points
  IN /\ cursor' = end
     /\ Keep(EmitAll(before, items, end))
     /\ failures' = IF Fails(k, a) THEN failures \cup {cursor} ELSE failures

RewriteOne ==
  /\ phase = "rewriting" /\ cursor <= Len(bytes)
  /\ LET one == ParseOne(bytes, cursor)
     IN Rewrite(one.callback.name, one.callback.a, one.end)
  /\ UNCHANGED <<program, choice, starts, bytes, phase, src, pc, regs, effects, goal, executed, ran>>

--------------------------------------------------------------------------------
(* What the instructions mean: terms over the values before the instruction *)

Term(op, args, x) == <<op, args, x>>
Zero == Term("Zero", <<>>, <<>>)
Value(r) == IF r = IRZ THEN Zero ELSE regs[r]
Result(item) ==
  IF item.op = "Mov" THEN Value(item.u[1])
  ELSE Term(item.op, [j \in DOMAIN item.u |-> Value(item.u[j])], item.x)

Gives(d, term) == [d |-> d, value |-> term, effects |-> <<>>]
Makes(d, object, more) == [d |-> d, value |-> object, effects |-> <<object>> \o more]
Acts(term) == [d |-> NoReg, value |-> Zero, effects |-> <<term>>]
Headed(id, term) == IF OfRecord(id) THEN term ELSE Term("AddI", <<term>>, <<ObjectHeaderSize>>)
Stored(s, object) == Term("StoreObj", <<s, object>>, <<ObjectHeaderSize>>)

MeaningOfNew(k, a) ==
  LET object == CASE k \in {"NewObj", "NewClosure"} -> Term(NewObjectOf(a.id), <<>>, <<a.id>>)
                  [] k = "NewArr" -> Term("NewArr", <<Value(a.len)>>, <<a.id>>)
                  [] k = "NewArrGeneric" -> Term(k, <<Value(a.len), Value(a.ti)>>, <<>>)
                  [] k \in {"NewObjGeneric", "NewClosureGeneric"} ->
                       Term(NewObjectOf(a.id), <<Value(a.d)>>, <<>>)
      initialised == <<Term("InitClosure", <<object>>, <<>>)>>
  IN CASE k \in {"NewObj", "NewArr", "NewArrGeneric"} -> Makes(a.d, object, <<>>)
       [] k = "NewObjGeneric" -> Makes(IR1, object, <<>>)
       [] k = "NewClosure" -> Makes(a.d, object, initialised)
       [] k = "NewClosureGeneric" -> Makes(IR1, object, initialised)

MeaningOfOptions(k, a) ==
  LET option0 == Types[a.id] = "option0"
      object == Term("NewObjGenericOnAcc", <<Value(a.optionTi)>>, <<>>)
      field == Term("AddI", <<Term("LeaGeneric", <<Value(a.s), Value(a.optionTi)>>, <<1>>)>>,
                    <<ObjectHeaderSize>>)
      payload == Term("LoadGeneric", <<Value(a.s), field, Value(a.ti)>>, <<>>)
      null == Term("LoadRef", <<Value(a.s)>>, <<ObjectHeaderSize>>)
  IN CASE k = "TagGeneric" ->
            Gives(a.d, IF choice THEN Term("SCC", <<null, Zero>>, <<IF option0 THEN 1 ELSE 0>>)
                       ELSE Term("LoadTag", <<Value(a.s)>>, <<ObjectHeaderSize>>))
       [] k = "PayloadGeneric" -> Makes(a.d, payload, <<>>)
       [] k = "NewNoneGeneric" ->
            Makes(a.d, object,
                  IF option0 THEN <<Term("InitNone", <<object, Value(a.ti)>>, <<>>)>> ELSE <<>>)
       [] k = "NewSomeGeneric" ->
            Makes(a.d, object, <<Term("InitSome", <<object, Value(a.s), Value(a.ti)>>,
                                      <<IF option0 THEN 1 ELSE 0>>)>>)

MeaningOfBoxes(k, a) ==
  LET box == Term("NewBox", <<>>, <<IF k = "Box" THEN a.id ELSE a.slot>>)
      slot == Term("LeaFrame", <<>>, <<a.slot>>)
      generic == Term("NewObjGenericOnAcc", <<Value(a.ti)>>, <<>>)
  IN CASE k = "Box" /\ Types[a.id] = "unit" -> Makes(a.d, box, <<>>)
       [] k = "Box" /\ Types[a.id] = "record" ->
            Makes(a.d, box, <<Term("WriteStructField", <<Value(a.s), box>>, <<a.id>>)>>)
       [] k = "Box" -> Makes(a.d, box, <<Stored(Value(a.s), box)>>)
       [] k = "BoxT" -> Makes(a.d, box, <<Term("WriteStructField", <<slot, box>>, <<a.slot>>)>>)
       [] k = "BoxGeneric" ->
            Makes(a.d, generic, <<Term("StoreGeneric", <<Value(a.s), generic, generic, Value(a.ti)>>,
                                       <<ObjectHeaderSize>>)>>)
       [] k = "BoxTGeneric" -> Makes(a.d, Term("LoadGeneric", <<Zero, slot, Value(a.ti)>>, <<>>), <<>>)

MeaningOfPlaces(k, a) ==
  LET offset == Term("Offset", <<Value(a.ti)>>, <<a.id>>)
  IN CASE k = "LeaGeneric" ->
            Gives(a.d, Headed(a.id, Term(k, <<Value(a.base), Value(a.ti)>>, <<a.id>>)))
       [] k = "Offset" -> Gives(a.d, Headed(a.id, offset))
       [] k = "AddOffset" -> Gives(a.d, Headed(a.id, Term("Add", <<Value(a.d), offset>>, <<>>)))
       [] k = "ZeroVal" /\ choice -> Gives(a.d, Term("MovImm", <<>>, <<0>>))
       [] k = "ZeroVal" -> Makes(a.d, Term("NewObjGenericOnAcc", <<Value(a.ti)>>, <<>>), <<>>)
       [] k = "LoadTypeInfoGeneric" -> Gives(a.d, Term("LoadGenericTypeInfo", <<>>, <<a.id>>))
       [] k = "Spawn" -> Acts(Term(k, <<Value(a.d)>>, <<a.id>>))
       [] k = "SpawnFuture" -> Acts(Term(k, <<Value(a.d)>>, <<>>))
       [] k \in {"Ret", "RetRef"} -> Acts(Term("Ret", <<Value(a.d)>>, <<>>))
       [] k = "FRet" -> Acts(Term("Ret", <<Value(FReg(a.d))>>, <<>>))

News == {"NewObj", "NewArr", "NewArrGeneric", "NewObjGeneric", "NewClosure", "NewClosureGeneric"}
Options == {"TagGeneric", "PayloadGeneric", "NewNoneGeneric", "NewSomeGeneric"}
Boxes == {"Box", "BoxT", "BoxGeneric", "BoxTGeneric"}
Places == {"LeaGeneric", "Offset", "AddOffset", "ZeroVal", "LoadTypeInfoGeneric",
           "Spawn", "SpawnFuture", "Ret", "RetRef", "FRet"}

\* The other instructions are their operations, on the values before the instruction.
MeaningOfOperations(items) ==
  LET written == {i \in DOMAIN items : items[i].kind \in {"op", "do"} /\ items[i].d # NoReg}
      acts == SelectSeq(items, LAMBDA item : item.kind = "do")
  IN [writes |-> [d \in {items[i].d : i \in written} |->
                    Result(items[CHOOSE i \in written : items[i].d = d
                                   /\ \A j \in written : items[j].d = d => j <= i])],
      effects |-> [i \in DOMAIN acts |-> Result(acts[i])]]

Meaning(k, a) ==
  LET Composed(m) == [writes |-> m.d :> m.value, effects |-> m.effects]
  IN CASE k \in News -> Composed(MeaningOfNew(k, a))
       [] k \in Options -> Composed(MeaningOfOptions(k, a))
       [] k \in Boxes -> Composed(MeaningOfBoxes(k, a))
       [] k \in Places -> Composed(MeaningOfPlaces(k, a))
       [] OTHER -> MeaningOfOperations(Expansion(k, a, 0, 0))

\* Registers an instruction may leave with any value: an object is made in IR1, of a
\* length in IR2; a result leaves in IR1 or FR0.
Clobbers(k) ==
  CASE k \in {"NewArr", "NewArrGeneric"} -> {IR1, IR2, IR_ACC}
    [] k \in {"NewObj", "NewClosure", "LoadTypeInfoGeneric", "Ret", "RetRef"} -> {IR1, IR_ACC}
    [] k = "FRet" -> {FReg(0)}
    [] OTHER -> {IR_ACC}

--------------------------------------------------------------------------------
(* Running the code *)

Length == Len(program.code)
Instr(i) == program.code[i]
NoGoal == [regs |-> <<>>, written |-> {}, effects |-> <<>>, next |-> 0]

\* The instruction that comes after i; 0 when the method returns.
NextOf(i) ==
  CASE Instr(i).k \in {"Ret", "RetRef", "FRet", "Throw"} -> 0
    [] Instr(i).k = "Jump" \/ (Instr(i).k \in {"Bcc", "BccImm"} /\ choice) -> Instr(i).to
    [] OTHER -> i + 1

GivenTo(instruction) ==
  [name \in DOMAIN instruction.v \cup {"_"} |-> IF name = "_" THEN 0 ELSE instruction.v[name]]
Given(i) == GivenTo(Instr(i))
GoalOf(i) ==
  LET Goal(meaning) ==
        [regs |-> [r \in DOMAIN regs |->
                     IF r \in DOMAIN meaning.writes THEN meaning.writes[r] ELSE regs[r]],
         written |-> DOMAIN meaning.writes,
         effects |-> effects \o meaning.effects, next |-> NextOf(i)]
  IN IF Instr(i).k \in {"Bcc", "BccImm", "Jump"} THEN Goal([writes |-> <<>>, effects |-> <<>>])
     ELSE Goal(Meaning(Instr(i).k, Given(i)))

LabelOf(i) == labels[InstructionLabel(starts[i])]

\* All instructions are read: the end gets a label, and the code is built.
Finish ==
  /\ phase = "rewriting" /\ cursor > Len(bytes)
  /\ labels' = Bound(labels, InstructionLabel(cursor), size)
  /\ phase' = IF failures # {} THEN "failed" ELSE "built"
  /\ UNCHANGED <<program, choice, starts, bytes, cursor, rt, size, statePoints, failures,
                 src, pc, regs, effects, goal, executed, ran>>

\* The method is entered, or the next instruction is reached.
Arrived ==
  /\ phase = "running" /\ goal.next # 0
  /\ pc = LabelOf(goal.next)
  /\ executed \/ \A i \in DOMAIN rt : rt[i].of # starts[src + 1]

Enter ==
  /\ phase = "built"
  /\ phase' = "running" /\ src' = 1 /\ pc' = LabelOf(1) /\ executed' = FALSE
  /\ goal' = GoalOf(1)
  /\ UNCHANGED <<program, choice, starts, bytes, cursor, rt, size, labels, statePoints, failures,
                 regs, effects, ran>>

Arrive ==
  /\ Arrived /\ ran < Steps
  /\ IF goal.next > Length
     THEN phase' = "ended" /\ UNCHANGED <<src, goal, executed, ran>>
     ELSE /\ src' = goal.next /\ goal' = GoalOf(goal.next) /\ executed' = FALSE /\ ran' = ran + 1
          /\ UNCHANGED phase
  /\ UNCHANGED <<program, choice, starts, bytes, cursor, rt, size, labels,
                 statePoints, failures, pc, regs, effects>>

Stops(op) == op \in {"Ret", "Throw"}

Execute ==
  /\ phase = "running" /\ ~Arrived
  /\ \E i \in DOMAIN rt :
       /\ rt[i].pos = pc
       /\ LET item == rt[i].item  after == rt[i].pos + SizeOf(item.op)
          IN /\ regs' = IF item.d \in {NoReg, IRZ} THEN regs
                         ELSE [regs EXCEPT ![item.d] = Result(item)]
             /\ effects' = IF item.kind = "do" THEN Append(effects, Result(item)) ELSE effects
             /\ pc' = IF item.kind = "branch" /\ (item.op = "Jmp" \/ choice)
                      THEN labels[item.to] ELSE after
             /\ phase' = IF Stops(item.op) THEN "ended" ELSE phase
  /\ executed' = TRUE
  /\ UNCHANGED <<program, choice, starts, bytes, cursor, rt, size, labels,
                 statePoints, failures, src, goal, ran>>

Init ==
  /\ program \in Programs /\ choice \in BOOLEAN
  /\ starts = StartsOf(program.code) /\ bytes = BytesOf(program.code, starts)
  /\ cursor = 1 /\ rt = <<>> /\ size = 0 /\ labels = <<>> /\ statePoints = {} /\ failures = {}
  /\ phase = "rewriting" /\ src = 0 /\ pc = 0 /\ effects = <<>>
  /\ regs = [r \in 1..3 \cup {IR_ACC} \cup {FReg(n) : n \in 0..3} |->
              Term("Initially", <<>>, <<r>>)]
  /\ goal = NoGoal /\ executed = FALSE /\ ran = 1

Next == RewriteOne \/ Finish \/ Enter \/ Arrive \/ Execute

Spec == Init /\ [][Next]_vars

--------------------------------------------------------------------------------
(* What a handler of an exception is looked up with: the end of the operation *)
(* that throws, less one.                                                     *)

\* Mutant: the position is not put back into the operation.
ReturnPosition(operation) == operation.pos + SizeOf(operation.item.op)

ThrowPosition(operation) == operation.pos + SizeOf(operation.item.op) - 1

\* Both ends of the region are translated, and both belong to it.
HandledBy(region, position) ==
  LabelOf(region[1]) <= position /\ position <= LabelOf(region[2])

--------------------------------------------------------------------------------
(* Properties *)

\* Where one instruction ends and the next begins, and where the method returns, the
\* registers, the effects and the place are those the instructions call for, whatever
\* registers they share with each other and with the registers the rewriter uses itself
\* (AdjustReg, IR_ACC, the branches of IfRef).  Inside an instruction only its own
\* operations run.  (NewArrGeneric with its type in IR2 and NewClosureGeneric of a type
\* that does not resolve are left to the findings.)
InstructionsMeanTheSource ==
  /\ Arrived \/ phase = "ended" =>
       /\ effects = goal.effects
       /\ \A r \in DOMAIN regs \ (Clobbers(Instr(src).k) \ goal.written) :
            regs[r] = goal.regs[r]
  /\ phase = "running" /\ ~Arrived =>
       \E i \in DOMAIN rt : rt[i].pos = pc /\ rt[i].of = starts[src + 1]

\* The operations during which the collector may run or an exception may leave.
SafePoints ==
  {"CBinary", "CBinaryImm", "CheckedConvert", "NewObj", "NewObjPinned", "NewArr",
   "NewArrGeneric", "NewObjGenericOnAcc", "NewBox", "LoadGeneric", "Spawn", "SpawnFuture",
   "GcPoint", "ArrayIndexCheck", "DivCheck", "NullCheck", "Throw", "DirectCall2n",
   "DirectCall2c", "DirectCall2i", "CallVirtual", "CallInterf", "CallInterfGeneric",
   "CallClosure", "CallClosureGeneric", "CallCFunc"}

\* The instructions whose safe point has no state point: three never bind one, and
\* CallCFunc binds it behind the code that spills a structure.
WithoutStatePoint(i) ==
  \/ Instr(i).k \in {"LdGeneric", "CheckedConvert", "Throw"}
  \/ Instr(i).k = "CallCFunc" /\ Methods[Given(i).id].sret

\* Wherever the collector or an exception can meet the method, a state point ties the
\* position the frame shows (the end of the operation) to the end of the instruction in
\* the bytecode, under which the compiler wrote the live references, the stack pointers
\* and the line (BindStatePoint, CalculatePositionalGCInfo).
StatePointsFollow ==
  phase = "built" =>
    \A i \in 1..Length, j \in DOMAIN rt :
      rt[j].of = starts[i + 1] /\ rt[j].item.op \in SafePoints /\ ~WithoutStatePoint(i) =>
        [pos |-> rt[j].pos + SizeOf(rt[j].item.op), originalPos |-> starts[i + 1]] \in statePoints

\* engine_get_exception_handler finds the handler of a try block for the operations of
\* its instructions and for no others, though the block is given by bytecode positions,
\* an instruction may become many operations or none, and the end is inclusive.  The one
\* exception is an operation of a single byte right behind the block (see the findings).
TryBlocksFollow ==
  phase = "built" /\ program.region # NoTarget =>
    \A i \in 1..Length, j \in DOMAIN rt :
      rt[j].of = starts[i + 1] =>
        \/ HandledBy(program.region, ThrowPosition(rt[j]))
              = (i >= program.region[1] /\ i < program.region[2])
        \/ rt[j].pos = LabelOf(program.region[2]) /\ SizeOf(rt[j].item.op) = 1

\* cbc_file.h says of the ranges of try blocks: [start, end).
TryBlocksAreHalfOpen ==
  phase = "built" /\ program.region # NoTarget =>
    \A i \in 1..Length, j \in DOMAIN rt :
      rt[j].of = starts[i + 1] /\ rt[j].item.op \in SafePoints =>
        HandledBy(program.region, ThrowPosition(rt[j]))
          = (i >= program.region[1] /\ i < program.region[2])

--------------------------------------------------------------------------------
(* What the parser gives of the code the compiler wrote: the theorems rest on it *)

\* The calls the parser makes; FloatOp and the opcodes of one width have none.
Callbacks ==
  (DOMAIN ParseBranches(FALSE) \cup DOMAIN ParseMoves \cup DOMAIN ParseBinary
     \cup DOMAIN ParseFields \cup DOMAIN ParseCopies \cup DOMAIN ParseMemory
     \cup DOMAIN ParseGroups \cup DOMAIN ParseSlots \cup DOMAIN ParseGenerics
     \cup DOMAIN ParseAtomics \cup DOMAIN ParseCalls \cup {"FBinary", "FUnary", "FMovImm"})
    \ {"BinarySpecialized", "BccGeneric", "FloatOp", "FMovImm32", "FMovImm64", "BoxRec", "UnboxRec"}

\* The parser reads at the start of an instruction the callback the compiler meant,
\* with what it wrote, and stops where the next instruction starts.
IsReadBack(code, i) ==
  LET at == StartsOf(code)
      one == ParseOne(BytesOf(code, at), at[i])
  IN /\ at[i] < at[i + 1] /\ one.end = at[i + 1]
     /\ code[i].k \in Callbacks /\ one.callback.name = code[i].k
     /\ code[i].k \in MethodCallbacks => "id" \in DOMAIN GivenTo(code[i])
     /\ \A name \in DOMAIN GivenTo(code[i]) \ {"delta", "_"} :
          name \in DOMAIN one.callback.a /\ one.callback.a[name] = GivenTo(code[i])[name]

\* The instructions follow one another to the end, and a try block is of some of them.
ProgramsAreRead ==
  \A p \in Programs :
    LET n == Len(p.code)  at == StartsOf(p.code)  m == Len(BytesOf(p.code, at))
    IN /\ n \in Nat /\ m \in Nat /\ at \in [1..n + 1 -> Nat]
       /\ at[1] = 1 /\ at[n + 1] = m + 1
       /\ \A i \in 1..n : IsReadBack(p.code, i)
       /\ p.region # NoTarget => p.region[1] \in 1..n + 1 /\ p.region[2] \in 1..n + 1
================================================================================
