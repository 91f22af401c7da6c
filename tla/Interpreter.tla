------------------------------ MODULE Interpreter ------------------------------
(***************************************************************************)
(* The interpretation loop: interpreter/interpretation_loop.cpp, the       *)
(* operations on memory of interpreter/interpreter.h, the thunks of        *)
(* int_thunk.h, and the accesses to the runtime of                         *)
(* runtimesupport/impl/runtime.cpp.                                        *)
(*                                                                         *)
(* The loop runs the bytecode of one frame.  It may not call what switches *)
(* stacks: it returns a thunk, its C++ frame is gone, and assembly runs    *)
(* the thunk and enters the loop again at the position kept in reader0.    *)
(* Memory is one array of bytes: the frame, two objects, an array, a       *)
(* static field and the space for a new object.                            *)
(***************************************************************************)
EXTENDS Operations, FiniteSets

CONSTANTS
  IRegs,          \* the integer registers; "acc" is IR_ACC, "IRZ" reads as zero
  FRegs,          \* the floating-point registers
  Volatile,       \* what a call leaves undefined
  Types,          \* Types[t]: the type info at the address t
  HeaderSize,     \* bytes of the header of an object
  ArrayBody,      \* offset of the elements of an array
  Trampolines,    \* addresses of the trampolines of dynamic calls
  TrampolineCount,
  Starts,         \* the programs, with the registers and memory they start in
  Sums, Sum(_),   \* programs of one operation, by the operation and its operands
  Results         \* what a call may return

Byte == Bits["W8"]
WordBytes == Bits["W64"] \div Byte
GlobalFlag == 2 ^ (Bits["W64"] - 1)
Lost == -1        \* the position of a loop that has returned

\* A program: its code by position, its literals, its frame, its handler of
\* exceptions (or Lost), the space of the next object, and the words the
\* collector has to see accesses to.
ASSUME StartsAssumption ==
  \A s \in Starts :
    /\ DOMAIN s.code \subseteq Nat /\ 0 \in DOMAIN s.code
    /\ s.handler \in DOMAIN s.code \cup {Lost}
    /\ s.managed \subseteq Nat

VARIABLES
  program, regs, mem,
  reader,    \* the cursor of the loop
  reader0,   \* the position saved in the frame
  thunk,     \* what the loop has returned
  status,    \* "running", "thunk", "returned", "halted", "unwound"
  access     \* the bytes the last step accessed as plain memory, and the
             \*   references it accessed through the runtime

vars == <<program, regs, mem, reader, reader0, thunk, status, access>>

None == [op |-> "None", arg |-> 0]
NoAccess == [plain |-> {}, runtime |-> {}]

Instr == program.code[reader]
At(ops) == status = "running" /\ Instr.op \in ops
IReg(r) == IF r = "IRZ" THEN 0 ELSE regs[r]

(***************************************************************************)
(* How a handler ends                                                      *)
(***************************************************************************)
After == reader + Instr.size

Continue == reader' = After /\ UNCHANGED <<reader0, thunk, status, program>>

\* NEXT_COND goes to the handler of opcode 0, HALT.
Halt == status' = "halted" /\ UNCHANGED <<reader, reader0, thunk, program>>

\* A thunk that is saved before the cursor moves on runs its instruction again.
ReturnAgain(op, arg) ==
  /\ reader0' = reader
  /\ reader' = Lost
  /\ thunk' = [op |-> op, arg |-> arg]
  /\ status' = "thunk"
  /\ UNCHANGED program

Return(op, arg) ==
  /\ reader0' = After
  /\ reader' = Lost
  /\ thunk' = [op |-> op, arg |-> arg]
  /\ status' = "thunk"
  /\ UNCHANGED program

Put(r, v) == regs' = [regs EXCEPT ![r] = v]
NoMemory == UNCHANGED mem /\ access' = NoAccess

ContinueOrThrow(exc) ==
  IF exc = "Successful" THEN Continue ELSE Return("ThrowImplicit", exc)

(***************************************************************************)
(* Memory                                                                  *)
(***************************************************************************)
BytesAt(addr, n) == addr .. addr + n - 1

ReadMem(addr, n) ==
  LET sum[k \in 0 .. n] ==
        IF k = 0 THEN 0 ELSE sum[k - 1] + mem[addr + k - 1] * 2 ^ (Byte * (k - 1))
  IN sum[n]

Written(m, addr, n, v) ==
  [a \in DOMAIN m |->
     IF a \in BytesAt(addr, n) THEN (v \div 2 ^ (Byte * (a - addr))) % 2 ^ Byte ELSE m[a]]

Copied(dst, src, offsets) ==
  [a \in DOMAIN mem |-> IF a - dst \in offsets THEN mem[src + a - dst] ELSE mem[a]]

Shifted(addr, offsets) == {addr + o : o \in offsets}

LoadWidth ==
  [LD_U8 |-> "W8", LD_S8 |-> "W8", LD_U16 |-> "W16", LD_S16 |-> "W16", LD_32 |-> "W32",
   LD_S32TO64 |-> "W32", LD_F32 |-> "W32", LD_64 |-> "W64", LD_F64 |-> "W64",
   LD_REF |-> "W64"]
StoreWidth ==
  [ST_8 |-> "W8", ST_16 |-> "W16", ST_32 |-> "W32", ST_F32 |-> "W32", ST_64 |-> "W64",
   ST_F64 |-> "W64", ST_REF |-> "W64"]
SizeOf(w) == Bits[w] \div Byte

Loaded(ldk, v) ==
  IF ldk \in {"LD_S8", "LD_S16", "LD_S32TO64"}
  THEN Signed(LoadWidth[ldk], v) % 2 ^ Bits["W64"]
  ELSE v

\* Where a record is, from its base and derived pointer.  The base of a
\* global is marked on x86, the derived pointer on aarch64.
LocationKind(base, derived) ==
  IF program.arch = "x86_64" /\ base >= GlobalFlag THEN "GLOBAL"
  ELSE IF program.arch = "aarch64" /\ derived >= GlobalFlag THEN "GLOBAL"
  ELSE IF base = 0 THEN "LOCAL" ELSE "HEAP"

Unwrapped(derived) ==
  IF program.arch = "aarch64" THEN derived % GlobalFlag ELSE derived

DerivedPtrOfGlobal(addr) ==
  IF program.arch = "aarch64" THEN addr + GlobalFlag ELSE addr

\* The offset of an element is computed in 32 bits, for references in 64.
ElementOffset(ref, idx, size) ==
  IF ref THEN ArrayBody + idx * size
  ELSE Unsigned("W32", ArrayBody + Unsigned("W32", idx) * size)

\* The place an instruction accesses.
Place(i, n, ref) ==
  CASE i.at = "ADDR" -> [kind |-> "GLOBAL", addr |-> program.literals[i.imm]]
    [] i.at = "OBJ" -> [kind |-> "HEAP", addr |-> IReg(i.base) + i.imm]
    [] i.at = "ARR" -> [kind |-> "HEAP",
                        addr |-> IReg(i.base) + ElementOffset(ref, IReg(i.idx), n)]
    [] i.at = "REC" -> [kind |-> "LOCAL", addr |-> IReg(i.base) + i.imm]
    [] i.at = "FRAME" -> [kind |-> "LOCAL", addr |-> program.frame + i.imm]
    [] i.at = "DERIVED" ->
         LET kind == LocationKind(IReg(i.base), IReg(i.derived))
         IN [kind |-> kind,
             addr |-> (IF kind = "GLOBAL" THEN Unwrapped(IReg(i.derived))
                       ELSE IReg(i.derived)) + i.imm]

\* A static field taken for a part of the frame.
StaticsAsLocals(p) ==
  IF p.kind \in {"LOCAL", "GLOBAL"}
  THEN [plain |-> BytesAt(p.addr, WordBytes), runtime |-> {}]
  ELSE [plain |-> {}, runtime |-> {p.addr}]

\* References outside the stack are read and written by the runtime.
RefAccess(p) ==
  IF p.kind = "LOCAL"
  THEN [plain |-> BytesAt(p.addr, WordBytes), runtime |-> {}]
  ELSE [plain |-> {}, runtime |-> {p.addr}]

Load ==
  /\ At({"LOAD"})
  /\ LET n == SizeOf(LoadWidth[Instr.kind])
         ref == Instr.kind = "LD_REF"
         p == Place(Instr, n, ref)
     IN /\ Put(Instr.d, Loaded(Instr.kind, ReadMem(p.addr, n)))
        /\ access' = IF ref THEN RefAccess(p)
                     ELSE [plain |-> BytesAt(p.addr, n), runtime |-> {}]
  /\ UNCHANGED mem
  /\ Continue

Lea ==
  /\ At({"LEA"})
  /\ LET p == Place(Instr, 0, FALSE)
     IN Put(Instr.d, IF Instr.at = "ADDR" THEN DerivedPtrOfGlobal(p.addr) ELSE p.addr)
  /\ NoMemory /\ Continue

Store ==
  /\ At({"STORE"})
  /\ LET n == SizeOf(StoreWidth[Instr.kind])
         ref == Instr.kind = "ST_REF"
         p == Place(Instr, n, ref)
     IN /\ mem' = Written(mem, p.addr, n, IReg(Instr.src))
        /\ access' = IF ref THEN RefAccess(p)
                     ELSE [plain |-> BytesAt(p.addr, n), runtime |-> {}]
  /\ UNCHANGED regs
  /\ Continue

StoreFrameImm ==
  /\ At({"STORE_FRAME_IMM"})
  /\ LET n == SizeOf(StoreWidth[Instr.kind])
         addr == program.frame + Instr.offset
     IN /\ mem' = Written(mem, addr, n, SignExtend(Instr.imm, Instr.bits))
        /\ access' = [plain |-> BytesAt(addr, n), runtime |-> {}]
  /\ UNCHANGED regs
  /\ Continue

(***************************************************************************)
(* Moves and parameters of calls on the stack                              *)
(***************************************************************************)
StackParam ==
  /\ At({"STK_PARAM"})
  /\ LET dst == program.bot + Instr.offset
     IN /\ mem' = IF Instr.from = "REG" THEN Written(mem, dst, WordBytes, IReg(Instr.src))
                  ELSE Copied(dst, program.frame + Instr.srcSlot, BytesAt(0, WordBytes))
        /\ access' = [plain |-> BytesAt(dst, WordBytes), runtime |-> {}]
  /\ UNCHANGED regs
  /\ Continue

\* A move, or an address in the parameters: i.from is REG, IMM or BOT.
Move ==
  /\ At({"MOV"})
  /\ Put(Instr.d, CASE Instr.from = "REG" -> IReg(Instr.src)
                    [] Instr.from = "IMM" -> SignExtend(Instr.imm, Instr.bits)
                    [] Instr.from = "BOT" -> program.bot + Instr.imm)
  /\ NoMemory /\ Continue

\* The handler writes a string record: its storage, start and length.
StringInit ==
  /\ At({"STRING_INIT"})
  /\ LET dst == program.frame + Instr.offset
         half == SizeOf("W32")
         storage == Written(mem, dst, WordBytes, Instr.string.storage)
         started == Written(storage, dst + WordBytes, half, 0)
     IN /\ mem' = Written(started, dst + WordBytes + half, half, Instr.string.length)
        /\ access' = [plain |-> BytesAt(dst, 2 * WordBytes), runtime |-> {}]
  /\ UNCHANGED regs
  /\ Continue

(***************************************************************************)
(* Arithmetic, comparisons and branches                                    *)
(***************************************************************************)
\* The right operand: a register, a short immediate or a literal, or an
\* immediate of 64 bits.
Operand ==
  CASE Instr.from = "REG" -> IReg(Instr.y)
    [] Instr.from = "WIDE" -> Instr.imm
    [] OTHER -> DecodeImmediate(Instr.from, Instr.imm, program.literals)

Binary ==
  /\ At({"BIN"})
  /\ LET res == Arith(Instr.w, Instr.f, IReg(Instr.x), Operand)
     IN IF res.ok THEN Put(Instr.d, res.v) /\ Continue ELSE UNCHANGED regs /\ Halt
  /\ NoMemory

BinaryChecked ==
  /\ At({"CBIN"})
  /\ LET res == CheckedArith(Instr.w, Instr.f, IReg(Instr.x), Operand)
     IN /\ IF res.exc = "Successful" THEN Put(Instr.d, res.v) ELSE UNCHANGED regs
        /\ ContinueOrThrow(res.exc)
  /\ NoMemory

BinarySaturating ==
  /\ At({"SBIN"})
  /\ Put(Instr.d, SatArith(Instr.w, Instr.f, IReg(Instr.x), Operand))
  /\ NoMemory /\ Continue

\* An operation with one operand does not read Instr.x.
FloatOperation ==
  /\ At({"FBIN"})
  /\ Put(Instr.d, FloatArith(Instr.f, Instr.w, IReg(Instr.x), IReg(Instr.y)))
  /\ NoMemory /\ Continue

Holds == Compare(Instr.cc, Instr.w, IReg(Instr.x), Operand)

SetCondition ==
  /\ At({"SCC"})
  /\ Put(Instr.d, IF Holds THEN 1 ELSE 0)
  /\ NoMemory /\ Continue

\* A distance is a short immediate, a literal, or 32 bits of its own.
Jump(taken) ==
  LET delta == IF Instr.far = "WIDE" THEN Instr.delta
               ELSE Signed("W64", DecodeImmediate(Instr.far, Instr.delta, program.literals))
  IN /\ reader' = IF taken THEN After + delta ELSE After
     /\ UNCHANGED <<reader0, thunk, status, program, regs>>
     /\ NoMemory

Branch == At({"BCC"}) /\ Jump(Holds)
BranchIsRef == At({"BRANCH_IS_REF"}) /\ Jump(Types[IReg(Instr.ti)].ref)
Jmp == At({"JMP32"}) /\ Jump(TRUE)

Convert ==
  /\ At({"CONVERT"})
  /\ Put(Instr.d, CastPrim(Instr.to, Instr.fromType, IReg(Instr.x)))
  /\ NoMemory /\ Continue

CheckedConvert ==
  /\ At({"CHECKED_CONVERT"})
  /\ LET res == CheckedCastPrim(Instr.to, Instr.fromType, IReg(Instr.x))
     IN /\ IF res.exc = "Successful" THEN Put(Instr.d, res.v) ELSE UNCHANGED regs
        /\ ContinueOrThrow(res.exc)
  /\ NoMemory

BitField ==
  /\ At({"BFX"})
  /\ Put(Instr.d, BitFieldExtract(IReg(Instr.x), Instr.offset, Instr.bits, Instr.sx))
  /\ NoMemory /\ Continue

\* What the compiler puts before an access: the condition an instruction
\* checks, and the exception it throws.
Check ==
  /\ At({"NULLCHECK", "DIVCHECK", "ARRAY_INDEX_CHECK"})
  /\ ContinueOrThrow(
       CASE Instr.op = "NULLCHECK" /\ IReg(Instr.x) = 0 -> "NoneValue"
         [] Instr.op = "DIVCHECK" /\ IReg(Instr.x) = 0 -> "Arithmetic"
         [] Instr.op = "ARRAY_INDEX_CHECK" /\ IReg(Instr.y) >= IReg(Instr.x) ->
              "IndexOutOfBounds"
         [] OTHER -> "Successful")
  /\ UNCHANGED regs /\ NoMemory

(***************************************************************************)
(* Leaving the loop                                                        *)
(***************************************************************************)
Stop ==
  /\ At({"HALT"})
  /\ Halt /\ UNCHANGED regs /\ NoMemory

Ret ==
  /\ At({"RET"})
  /\ status' = "returned" /\ UNCHANGED <<reader, reader0, thunk, program, regs>>
  /\ NoMemory

Nop == At({"NOP", "LOG"}) /\ UNCHANGED regs /\ NoMemory /\ Continue

GcPoint ==
  /\ At({"GC_POINT"})
  /\ \/ Continue
     \/ Return("GcPoint", 0)
  /\ UNCHANGED regs /\ NoMemory

TypeInfoOf(i) == IF i.from = "REG" THEN IReg(i.ti) ELSE i.type

\* Objects, boxes, arrays and threads are made by a thunk; i.thunk is its
\* operation: NewObject, NewObjectPinned, NewObjectAcc, NewArray, Spawn or
\* SpawnFuture.
Allocate ==
  /\ At({"NEW", "SPAWN"})
  /\ Return(Instr.thunk, TypeInfoOf(Instr))
  /\ UNCHANGED regs /\ NoMemory

Throw ==
  /\ At({"THROW"})
  /\ IF IReg(Instr.x) = 0 THEN Halt ELSE Return("HandleException", IReg(Instr.x))
  /\ UNCHANGED regs /\ NoMemory

Catch ==
  /\ At({"CATCH"})
  /\ Put(Instr.d, IReg("acc"))
  /\ NoMemory
  /\ IF IReg("acc") # 0 THEN Continue ELSE Halt

(***************************************************************************)
(* Records: copies between the stack, objects and static fields            *)
(***************************************************************************)
DerivedPointer(base, derived) ==
  [kind |-> LocationKind(base, derived), addr |-> Unwrapped(derived)]

\* The bytes behind the last reference forgotten.
UpToLastReference(refs, offset, size) ==
  {o \in offset .. size - 1 :
     /\ \E r \in refs : o < r
     /\ \A r \in refs : o \notin BytesAt(r, WordBytes)}

\* CopyDerivedByRanges: the bytes between the references, in order.
RECURSIVE PrimBytes(_, _, _)
PrimBytes(refs, offset, size) ==
  IF refs = {} THEN offset .. size - 1
  ELSE LET ref == CHOOSE r \in refs : \A s \in refs : r <= s
       IN offset .. ref - 1 \cup PrimBytes(refs \ {ref}, ref + WordBytes, size)

RefBytes(refs) == UNION {BytesAt(r, WordBytes) : r \in refs}

CopyDerived ==
  /\ At({"COPY_DERIVED"})
  /\ LET dst == DerivedPointer(IReg(Instr.dstBase), IReg(Instr.dst))
         src == DerivedPointer(IReg(Instr.srcBase), IReg(Instr.src))
         type == Types[TypeInfoOf(Instr)]
         prims == PrimBytes(type.refs, 0, type.size)
         plain(p) == Shifted(p.addr, prims \cup (IF p.kind = "LOCAL" THEN RefBytes(type.refs)
                                                 ELSE {}))
         runtime(p) == IF p.kind = "LOCAL" THEN {} ELSE Shifted(p.addr, type.refs)
     IN IF dst.addr = src.addr THEN NoMemory
        ELSE /\ mem' = Copied(dst.addr, src.addr, prims \cup RefBytes(type.refs))
             /\ access' = [plain |-> plain(dst) \cup plain(src),
                           runtime |-> runtime(dst) \cup runtime(src)]
  /\ UNCHANGED regs
  /\ Continue

\* A record of the frame, in a register or in a slot for values of a type.
LocalRecord(i, reg, slot) == IF i.slot THEN program.frame + slot ELSE IReg(reg)

CopyLocal ==
  /\ At({"COPY_LOCAL"})
  /\ LET dst == LocalRecord(Instr, Instr.dst, Instr.dstSlot)
         src == LocalRecord(Instr, Instr.src, Instr.srcSlot)
         bytes == BytesAt(0, Types[TypeInfoOf(Instr)].size)
     IN /\ mem' = Copied(dst, src, bytes)
        /\ access' = [plain |-> Shifted(dst, bytes) \cup Shifted(src, bytes), runtime |-> {}]
  /\ UNCHANGED regs
  /\ Continue

\* The runtime copies a record of the heap or of a static field and sees its
\* references; a record of the stack is copied as memory.
CopyRecord(local, there, derived, dst, src) ==
  LET type == Types[TypeInfoOf(Instr)]
      bytes == BytesAt(0, type.size)
  IN /\ mem' = Copied(dst, src, bytes)
     /\ access' = IF there = "LOCAL"
                  THEN [plain |-> Shifted(dst, bytes) \cup Shifted(src, bytes), runtime |-> {}]
                  ELSE [plain |-> Shifted(local, bytes), runtime |-> Shifted(derived, type.refs)]

CopyToLocal ==
  /\ At({"COPY_TO_LOCAL"})
  /\ LET derived == IReg(Instr.src)
         kind == LocationKind(IReg(Instr.srcBase), derived)
         src == IF kind = "GLOBAL" THEN Unwrapped(derived) ELSE derived
         dst == LocalRecord(Instr, Instr.dst, Instr.dstSlot)
     IN CopyRecord(dst, kind, src, dst, src)
  /\ UNCHANGED regs
  /\ Continue

CopyFromLocal ==
  /\ At({"COPY_FROM_LOCAL"})
  /\ LET derived == IReg(Instr.dst)
         kind == LocationKind(IReg(Instr.dstBase), derived)
         dst == IF kind = "GLOBAL" THEN Unwrapped(derived) ELSE derived
         src == LocalRecord(Instr, Instr.src, Instr.srcSlot)
     IN CopyRecord(src, kind, dst, dst, src)
  /\ UNCHANGED regs
  /\ Continue

\* A field of an object that is a record: the base is the object.  UNBOX_T
\* takes the type from the object, and its first field.
StructField ==
  /\ At({"READ_STRUCT_FIELD", "WRITE_STRUCT_FIELD", "UNBOX_T", "ASSIGN_GENERIC"})
  /\ LET object == IReg(Instr.base)
         boxed == Instr.op = "UNBOX_T"
         type == Types[IF boxed THEN ReadMem(object, WordBytes) ELSE TypeInfoOf(Instr)]
         field == object + (IF Instr.op \in {"UNBOX_T", "ASSIGN_GENERIC"} THEN HeaderSize
                            ELSE Instr.offset)
         other == CASE boxed -> program.frame + Instr.offset
                    [] Instr.op = "ASSIGN_GENERIC" -> IReg(Instr.src) + HeaderSize
                    [] OTHER -> IReg(Instr.src)
         bytes == BytesAt(0, type.size)
         reads == Instr.op \in {"READ_STRUCT_FIELD", "UNBOX_T"}
     IN /\ mem' = IF reads THEN Copied(other, field, bytes) ELSE Copied(field, other, bytes)
        /\ access' = [plain |-> {}, runtime |-> Shifted(field, type.refs)]
  /\ UNCHANGED regs
  /\ Continue

(***************************************************************************)
(* Values of a generic type: a reference, or a record in a box             *)
(***************************************************************************)
LoadGeneric ==
  /\ At({"LOAD_GENERIC"})
  /\ LET field == IReg(Instr.derived)
         ti == IReg(Instr.ti)
     IN IF Types[ti].ref
        THEN /\ Put(Instr.d, ReadMem(field, WordBytes))
             /\ access' = [plain |-> {}, runtime |-> {field}]
             /\ Continue
        ELSE /\ Put("acc", field)
             /\ access' = NoAccess
             /\ Return("LoadGeneric", [d |-> Instr.d, base |-> Instr.base, ti |-> ti])
  /\ UNCHANGED mem

\* A reference is written, a record copied out of its box.
WriteValue(type, dst, object) ==
  IF type.ref
  THEN /\ mem' = Written(mem, dst, WordBytes, object)
       /\ access' = [plain |-> {}, runtime |-> {dst}]
  ELSE /\ mem' = Copied(dst, object + HeaderSize, BytesAt(0, type.size))
       /\ access' = [plain |-> {}, runtime |-> Shifted(dst, type.refs)]

StoreGeneric ==
  /\ At({"STORE_GENERIC"})
  /\ WriteValue(Types[IReg(Instr.ti)], IReg(Instr.derived) + Instr.offset, IReg(Instr.src))
  /\ UNCHANGED regs
  /\ Continue

FieldOffset(ti, ordinal, adjust) ==
  Types[ti].fields[ordinal + 1] + (IF adjust THEN WordBytes ELSE 0)

\* An option of a value that is no reference has a tag, then the value.  The
\* tag 1 is None of an enum that declares Some first, and Some of the other;
\* i.tagged tells the latter.
InitNone ==
  /\ At({"INIT_NONE"})
  /\ IF Types[IReg(Instr.ti)].ref THEN NoMemory
     ELSE /\ mem' = Written(mem, IReg("acc") + HeaderSize, 1, 1)
          /\ access' = [plain |-> {IReg("acc") + HeaderSize}, runtime |-> {}]
  /\ UNCHANGED regs
  /\ Continue

InitSome ==
  /\ At({"INIT_SOME"})
  /\ LET option == IReg("acc")
         type == Types[IReg(Instr.ti)]
         value == IF type.ref THEN option + HeaderSize
                  ELSE option + FieldOffset(ReadMem(option, WordBytes), 1, TRUE)
         object == IReg(Instr.src)
         tag == option + HeaderSize
     IN IF type.ref \/ ~Instr.tagged THEN WriteValue(type, value, object)
        ELSE /\ mem' = Written(Copied(value, object + HeaderSize, BytesAt(0, type.size)), tag, 1, 1)
             /\ access' = [plain |-> {tag}, runtime |-> Shifted(value, type.refs)]
  /\ UNCHANGED regs
  /\ Continue

InitClosure ==
  /\ At({"INITCLOSURE"})
  /\ LET closure == IReg("r1")
         generic == Written(mem, closure + WordBytes, WordBytes, Trampolines.sret)
         entry == IF Instr.sret THEN Trampolines.sret ELSE Trampolines.direct
     IN /\ mem' = Written(generic, closure + 2 * WordBytes, WordBytes, entry + 1)
        /\ access' = [plain |-> BytesAt(closure + WordBytes, 2 * WordBytes), runtime |-> {}]
  /\ UNCHANGED regs
  /\ Continue

\* What an instruction asks a type info: the offset of a field, an element's
\* place, an argument of the type, whether an object is an instance.
AskType ==
  /\ At({"LEA_GENERIC", "OFFSET", "TYPE_ARG", "IOF", "INDEX"})
  /\ Put(Instr.d,
         CASE Instr.op = "OFFSET" -> FieldOffset(IReg(Instr.ti), Instr.idx, FALSE)
           [] Instr.op = "LEA_GENERIC" ->
                IReg(Instr.base) + FieldOffset(IReg(Instr.ti), Instr.idx, FALSE)
           [] Instr.op = "TYPE_ARG" -> Types[IReg(Instr.ti)].args[Instr.idx + 1]
           [] Instr.op = "IOF" ->
                IF ReadMem(IReg(Instr.x), WordBytes) \in Types[TypeInfoOf(Instr)].below
                THEN 1 ELSE 0
           [] Instr.op = "INDEX" ->
                LET ti == TypeInfoOf(Instr)
                    element == IF Instr.from = "REG" THEN Types[ti].element ELSE ti
                    head == IF Instr.array THEN ArrayBody ELSE 0
                IN IReg(Instr.base) + head + IReg(Instr.x) * Types[element].aligned)
  /\ NoMemory /\ Continue

\* A type that depends on the arguments in r1, r2, ...: Instr.term[args] is
\* the type info the manager answers.
LoadGenericTi ==
  /\ At({"LOAD_GENERIC_TI"})
  /\ Put("r1", Instr.term[[k \in 1 .. Instr.length |-> IReg(<<"r1", "r2", "r3">>[k])]])
  /\ NoMemory /\ Continue

(***************************************************************************)
(* Atomic operations on a field of an object.  They read and return        *)
(* unsigned values.                                                        *)
(***************************************************************************)
Field == IReg(Instr.base) + Instr.offset
Touch == IF Instr.ref THEN [plain |-> {}, runtime |-> {Field}]
         ELSE [plain |-> BytesAt(Field, SizeOf(Instr.w)), runtime |-> {}]
OldValue == ReadMem(Field, SizeOf(Instr.w))

AtomicLoad ==
  /\ At({"ATOMIC_LOAD"})
  /\ Put(Instr.d, OldValue)
  /\ access' = Touch /\ UNCHANGED mem
  /\ Continue

AtomicStore ==
  /\ At({"ATOMIC_STORE"})
  /\ mem' = Written(mem, Field, SizeOf(Instr.w), IReg(Instr.src))
  /\ access' = Touch /\ UNCHANGED regs
  /\ Continue

\* fetch_add and so on; a swap is the operation that takes the operand.
AtomicFetch ==
  /\ At({"ATOMIC_FETCH", "ATOMIC_SWAP"})
  /\ LET operand == Unsigned(Instr.w, IReg(Instr.src))
         new == CASE Instr.op = "ATOMIC_SWAP" -> operand
                  [] Instr.f = "ADD" -> OldValue + operand
                  [] Instr.f = "SUB" -> OldValue - operand
                  [] Instr.f = "AND" -> OldValue & operand
                  [] Instr.f = "OR" -> OldValue | operand
                  [] Instr.f = "XOR" -> OldValue ^^ operand
     IN mem' = Written(mem, Field, SizeOf(Instr.w), new)
  /\ Put(Instr.d, OldValue)
  /\ access' = Touch
  /\ Continue

CompareAndSwap ==
  /\ At({"CAS"})
  /\ LET same == OldValue = Unsigned(Instr.w, IReg(Instr.expected))
     IN /\ mem' = IF same THEN Written(mem, Field, SizeOf(Instr.w), IReg(Instr.new)) ELSE mem
        /\ Put(Instr.d, IF same THEN 1 ELSE 0)
  /\ access' = Touch
  /\ Continue

(***************************************************************************)
(* Calls                                                                   *)
(***************************************************************************)
Direct ==
  /\ At({"CALL"})
  /\ Return(Instr.thunk, IF Instr.from = "REG" THEN IReg(Instr.target)
                         ELSE program.literals[Instr.literal])
  /\ UNCHANGED regs /\ NoMemory

\* The thunk of a dynamic call: a trampoline stands for the function of the
\* data table of the receiver's type with its index, and is passed over.
IsTrampoline(fn) == fn \in Trampolines.direct .. Trampolines.sret + TrampolineCount - 1
DynCall(fn, ti) ==
  IF IsTrampoline(fn)
  THEN [op |-> "I2ICall",
        arg |-> Types[ti].dataMT[((fn - Trampolines.direct) % TrampolineCount) + 1]]
  ELSE [op |-> "I2CCall", arg |-> fn]

\* On x86 the pointer to a result on the stack is the first argument.
Receiver(sret) == IReg(IF program.arch = "x86_64" /\ sret THEN "r2" ELSE "r1")

CallClosure ==
  /\ At({"CALL_CLOSURE"})
  /\ LET closure == Receiver(Instr.sret \/ Instr.generic)
         entry == ReadMem(closure + (IF Instr.generic THEN 1 ELSE 2) * WordBytes, WordBytes)
         call == DynCall(entry, ReadMem(closure, WordBytes))
     IN Return(call.op, call.arg)
  /\ UNCHANGED regs /\ NoMemory

VirtualCall ==
  /\ At({"VIRTUAL_CALL"})
  /\ LET ti == ReadMem(Receiver(Instr.sret), WordBytes)
         call == DynCall(Types[ti].virtual[<<Instr.edef, Instr.vnum>>], ti)
     IN Return(call.op, call.arg)
  /\ UNCHANGED regs /\ NoMemory

\* A type info among the arguments: a register, or a slot of the parameters
\* on the stack (i.slot).
CallTypeInfo(arg) ==
  IF arg.slot THEN ReadMem(program.bot + arg.at, WordBytes) ELSE IReg(arg.reg)

\* The type of a receiver that is no object is passed as an argument.  The
\* type that declares the method found is passed to the callee.
InterfaceCall ==
  /\ At({"INTERFACE_CALL"})
  /\ LET ti == IF Instr.thisTi = None THEN ReadMem(Receiver(Instr.sret), WordBytes)
               ELSE CallTypeInfo(Instr.thisTi)
         interf == IF Instr.from = "REG" THEN IReg("acc") ELSE Instr.type
         outer == Types[ti].outer[<<interf, Instr.vnum>>]
         call == DynCall(Types[ti].interface[<<interf, Instr.vnum>>], ti)
         passed == Instr.outerTi
     IN /\ IF passed = None \/ passed.slot THEN UNCHANGED regs ELSE Put(passed.reg, outer)
        /\ IF passed # None /\ passed.slot
           THEN /\ mem' = Written(mem, program.bot + passed.at, WordBytes, outer)
                /\ access' = [plain |-> BytesAt(program.bot + passed.at, WordBytes),
                              runtime |-> {}]
           ELSE NoMemory
        /\ Return(call.op, call.arg)

(***************************************************************************)
(* The assembly runs the thunk and enters the loop again: trampolines.S,   *)
(* perform_2i_call.  It allocates in the runtime, calls, or throws.        *)
(***************************************************************************)
Resume ==
  /\ reader' = reader0
  /\ status' = "running" /\ thunk' = None
  /\ UNCHANGED <<reader0, program>>

\* An exception resumes the frame at its handler, or leaves it.  What a
\* callee has spoiled stays so.
Unwind(exception, spoiled) ==
  /\ IF program.handler = Lost
     THEN status' = "unwound" /\ UNCHANGED <<reader, reader0, regs>>
     ELSE /\ status' = "running"
          /\ reader' = program.handler /\ UNCHANGED reader0
          /\ regs' = [r \in DOMAIN regs |-> IF r = "acc" THEN exception
                                           ELSE IF r \in spoiled THEN 0 ELSE regs[r]]
  /\ thunk' = None
  /\ UNCHANGED <<mem, program>> /\ access' = NoAccess

Thunk(ops) == status = "thunk" /\ thunk.op \in ops

NewObject ==
  /\ Thunk({"NewObject", "NewObjectPinned", "NewObjectAcc", "NewArray"})
  /\ mem' = Written(mem, program.box, WordBytes, thunk.arg)
  /\ Put(IF thunk.op = "NewObjectAcc" THEN "acc" ELSE "r1", program.box)
  /\ access' = NoAccess
  /\ Resume

\* The box goes to its register before the base is read.
ReadGeneric ==
  /\ Thunk({"LoadGeneric"})
  /\ LET boxed == [regs EXCEPT ![thunk.arg.d] = program.box]
         type == Types[thunk.arg.ti]
         field == boxed["acc"]
         object == Written(mem, program.box, WordBytes, thunk.arg.ti)
     IN /\ regs' = boxed
        /\ mem' = [a \in DOMAIN mem |->
                     IF a - program.box - HeaderSize \in BytesAt(0, type.size)
                     THEN object[field + a - program.box - HeaderSize] ELSE object[a]]
        /\ access' = [plain |-> {}, runtime |-> Shifted(field, type.refs)]
  /\ Resume

RunRuntime ==
  /\ Thunk({"GcPoint", "Spawn", "SpawnFuture"})
  /\ UNCHANGED <<regs, mem>> /\ access' = NoAccess
  /\ Resume

\* A call returns in r1 and leaves the volatile registers undefined.
RunCall ==
  /\ Thunk({"I2ICall", "I2CCall", "I2NCall"})
  /\ \E result \in Results :
       regs' = [r \in DOMAIN regs |-> IF r = "r1" THEN result
                                      ELSE IF r \in Volatile THEN 0 ELSE regs[r]]
  /\ UNCHANGED mem /\ access' = NoAccess
  /\ Resume

Fail ==
  \/ /\ Thunk({"HandleException", "ThrowImplicit"})
     /\ Unwind(IF thunk.op = "HandleException" THEN thunk.arg ELSE program.box, {})
  \/ Thunk({"SpawnFuture", "NewArray"}) /\ Unwind(program.box, {})
  \/ Thunk({"I2ICall", "I2CCall"}) /\ Unwind(program.box, Volatile)

(***************************************************************************)
(* The specification                                                       *)
(***************************************************************************)
Init ==
  /\ program \in Starts \/ \E sum \in Sums : program = Sum(sum)
  /\ regs = program.regs /\ mem = program.mem
  /\ reader = 0 /\ reader0 = 0
  /\ thunk = None /\ status = "running" /\ access = NoAccess

Data == Load \/ Lea \/ Store \/ StoreFrameImm \/ StackParam \/ Move \/ StringInit
        \/ CopyDerived \/ CopyLocal \/ CopyToLocal \/ CopyFromLocal \/ StructField
        \/ AtomicLoad \/ AtomicStore \/ AtomicFetch \/ CompareAndSwap

Computation == Binary \/ BinaryChecked \/ BinarySaturating \/ FloatOperation \/ SetCondition
               \/ Branch \/ BranchIsRef \/ Jmp \/ Convert \/ CheckedConvert \/ BitField \/ Check

Generic == LoadGeneric \/ StoreGeneric \/ InitNone \/ InitSome \/ InitClosure \/ AskType
           \/ LoadGenericTi

Leave == Stop \/ Ret \/ Nop \/ GcPoint \/ Allocate \/ Throw \/ Catch \/ Direct \/ CallClosure
         \/ VirtualCall \/ InterfaceCall

Outer == NewObject \/ ReadGeneric \/ RunRuntime \/ RunCall \/ Fail

Next == Data \/ Computation \/ Generic \/ Leave \/ Outer

Spec == Init /\ [][Next]_vars

(***************************************************************************)
(* Properties.  An instruction of a program under test names the memory it *)
(* is about: Instr.place, from where a copy comes (Instr.origin) and its   *)
(* bytes.                                                                  *)
(***************************************************************************)
Exact == INSTANCE ExactOperations

Running(ops) == status = "running" /\ Instr.op \in ops
Thrown == IF status' = "thunk" THEN thunk'.arg ELSE "Successful"

\* A result of the arithmetic is the number the operation stands for, or its
\* exception is due: operations.h, casts.h.
BinaryIsExact ==
  LET l == IReg(Instr.x)
      v == regs'[Instr.d]
  IN /\ Running({"BIN"}) /\ status' = "running" =>
          Exact!WrappingIs(Instr.w, Instr.f, l, Operand, v)
     /\ Running({"CBIN"}) /\ Instr.f \in DOMAIN Exact!CheckedNames =>
          /\ Thrown = Exact!CheckedException(Instr.w, Instr.f, l, Operand)
          /\ Thrown = "Successful" => Exact!CheckedIs(Instr.w, Instr.f, l, Operand, v)
     /\ Running({"SBIN"}) /\ Instr.f \in DOMAIN Exact!SaturatingNames =>
          Exact!SaturatingIs(Instr.w, Instr.f, l, Operand, v)

ConversionIsExact ==
  LET l == IReg(Instr.x)
      v == regs'[Instr.d]
  IN /\ Running({"CONVERT"}) => Exact!ConvertIs(Instr.to, Instr.fromType, l, v)
     /\ Running({"CHECKED_CONVERT"}) =>
          /\ Thrown = Exact!CheckedConvertException(Instr.to, Instr.fromType, l)
          /\ Thrown = "Successful" => Exact!ConvertIs(Instr.to, Instr.fromType, l, v)

ResultsAreExact == [][BinaryIsExact /\ ConversionIsExact]_vars

\* A load reads its place, wherever the base and derived pointer put it; a
\* store or a copy changes its place and nothing else, and a copied record
\* arrives whole: interpreter.h:345-416, 608-761.
Placed == status = "running" /\ "place" \in DOMAIN Instr
PlacesHold ==
  [][Placed =>
      LET n == Instr.bytes
          here == BytesAt(Instr.place, n)
      IN /\ Instr.op = "LOAD" =>
              /\ Unsigned("W64", regs'[Instr.d]) % 2 ^ (Byte * n) = ReadMem(Instr.place, n)
              /\ mem' = mem
         /\ Instr.op # "LOAD" => \A a \in DOMAIN mem \ here : mem'[a] = mem[a]
         /\ "origin" \in DOMAIN Instr =>
              \A o \in 0 .. n - 1 : mem'[Instr.place + o] = mem[Instr.origin + o]]_vars

\* The words the collector watches are accessed and changed by the runtime
\* alone, also as part of a record: an access as plain memory would pass by
\* the barriers of runtime.cpp:39-141.
ReferencesPassBarriers ==
  [][/\ access'.plain \cap RefBytes(program.managed) = {}
     /\ \A w \in program.managed :
          (\E a \in BytesAt(w, WordBytes) : mem'[a] # mem[a]) => w \in access'.runtime]_vars

\* The loop leaves in the middle of an instruction and enters again after it:
\* seen from the bytecode every instruction runs once.
Left == {p \in DOMAIN program.code : p + program.code[p].size = reader0}
Position ==
  IF status \notin {"thunk", "unwound"} THEN reader
  ELSE IF Left = {} THEN reader0 ELSE CHOOSE p \in Left : TRUE
Visible(r) == [x \in DOMAIN r \ {"acc"} |-> r[x]]
Sequence ==
  INSTANCE Sequencer WITH at <- Position, regs <- Visible(regs),
                          program <- [program EXCEPT !.regs = Visible(program.regs)],
                          left <- status \in {"returned", "halted", "unwound"}
InstructionsRunOnce == Sequence!Spec
=============================================================================
