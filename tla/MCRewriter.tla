------------------------------ MODULE MCRewriter ------------------------------
(***************************************************************************)
(* Instances of Rewriter: single instructions over every choice of         *)
(* registers and indexes, the bounds of every number, and short methods    *)
(* with branches and a try block.                                          *)
(***************************************************************************)
EXTENDS Rewriter

FieldsImpl == 0 :> "record" @@ 1 :> "object"
TypesImpl == 0 :> "unit" @@ 1 :> "record" @@ 2 :> "future" @@ 3 :> "option0" @@ 5 :> "option1"
MethodsImpl ==
  LET method(kind, sret) == [kind |-> kind, sret |-> sret]
  IN 0 :> method("foreign", TRUE) @@ 1 :> method("foreign", FALSE)
       @@ 2 :> method("compiled", FALSE) @@ 3 :> method("interpreted", FALSE)
Unknown == 9

\* An instruction of the compiler: what it writes, and what it means by it.
Meant(opcode, v) ==
  CASE opcode = "BinarySpecialized" -> [k |-> "Binary", v |-> v @@ [d |-> v.l, op |-> 0]]
    [] opcode = "BccGeneric" -> [k |-> "Bcc", v |-> v]
    [] opcode = "BFX" -> [k |-> "BFX", v |-> v @@ [offset |-> v.byte1 % 4, sx |-> v.byte2 \div 8,
                                                   size |-> v.byte2 % 8]]
    [] opcode = "FloatOp" -> [k |-> FloatOps[v.op + 1], v |-> v @@ [s |-> v.r]]
    [] opcode \in {"FMovImm32", "FMovImm64"} -> [k |-> "FMovImm", v |-> v]
    [] opcode \in {"BoxRec", "UnboxRec"} -> [k |-> IF opcode = "BoxRec" THEN "Box" ELSE "Unbox", v |-> v]
    [] OTHER -> [k |-> opcode, v |-> v]
Instruction(opcode, wide, v, to) == [opcode |-> opcode, wide |-> wide, to |-> to] @@ Meant(opcode, v)
Method(code, region) == [code |-> code, region |-> region]

\* The names of the fields an opcode has, and the values tried for each.
Names(opcode) == UNION {ToSet(ISA_OPCODES(FALSE)[opcode][i].names)
                          : i \in DOMAIN ISA_OPCODES(FALSE)[opcode]} \ {"_", "low4"}
Indexes(opcode) ==
  CASE opcode \in FieldCallbacks -> {0, 1, Unknown}
    [] opcode \in MethodCallbacks -> {0, 1, 2, 3, Unknown}
    [] opcode \in {"TagGeneric", "NewNoneGeneric", "NewSomeGeneric", "PayloadGeneric"} -> {3, 5, Unknown}
    [] opcode = "NewClosureGeneric" -> {1}
    [] opcode = "NewClosure" -> {1, 3}
    [] opcode \in {"Box", "Unbox", "BoxRec", "UnboxRec"} -> {0, 1, 3}
    [] OTHER -> {1, 2, Unknown}
Immediates == {-33, -32, -17, -16, -5, -4, -1, 0, 3, 4, 15, 16, 31, 32}

\* Instructions with one operation: distinct registers are enough.
Distinct == [d |-> 1, s |-> 2, l |-> 3, r |-> 2, base |-> 3, baseRef |-> 2, derived |-> 3, ti |-> 1,
             idx |-> 2, len |-> 3, dBase |-> 2, sBase |-> 3, expected |-> 1, optionTi |-> 3]
Registers == DOMAIN Distinct
SomeOf(opcode, name) ==
  CASE name \in Registers -> {Distinct[name]}
    [] name = "id" -> Indexes(opcode)
    [] name = "imm" ->
         IF opcode \in {"FMovImm32", "FMovImm64", "TypeArg", "InitString", "LoadTailParam"}
         THEN {0, 7, 8, 65} ELSE Immediates
    [] name \in {"slot", "dSlot", "sSlot"} -> {0, 7, 8, 63, 64}
    [] name = "args" -> {0, 9}
    [] name \in {"kind", "cc", "toType", "fromType", "local"} -> {0, 3}
    [] name = "op" -> IF opcode \in {"BinarySpecialized"} THEN {0} ELSE {0, 1}
    [] name \in {"byte1", "byte2"} -> {0, 15}
    [] name = "delta" -> {0}

Composite == (News \cup Options \cup Boxes \cup Places \cup {"LeaStatic", "Unbox", "BoxRec", "UnboxRec"})
               \ {"FRet"}

\* The combinations of values; where several operations share registers, every choice
\* of registers (but NewArrGeneric with its type in IR2).
Tried(opcode, name) ==
  IF name \in Registers /\ opcode \in Composite
  THEN IF opcode = "NewArrGeneric" /\ name = "ti" THEN {1, 3} ELSE 1..3
  ELSE SomeOf(opcode, name)
ValuesOf(opcode) ==
  FoldLeft(LAMBDA vs, name : {v @@ (name :> x) : v \in vs, x \in Tried(opcode, name)},
           {<<>>}, SetToSeq(Names(opcode)))

Alone == {Method(<<Instruction(opcode, FALSE, v, 0)>>, NoTarget)
            : <<opcode, v>> \in UNION {{opcode} \X ValuesOf(opcode)
                                        : opcode \in DOMAIN ISA_OPCODES(FALSE) \ DOMAIN ParseBranches(FALSE)}}

Move == Instruction("Mov", FALSE, [d |-> 1, s |-> 2], 0)
Nothing == Instruction("PrepareRecord", FALSE, [id |-> 1], 0)
Array == Instruction("NewArrGeneric", FALSE, [d |-> 3, len |-> 1, ti |-> 3], 0)
Closure == Instruction("CallClosureGeneric", FALSE, [id |-> 1, args |-> 0], 0)
Check == Instruction("NullCheck", FALSE, [d |-> 2], 0)
Return == Instruction("RetRef", FALSE, [d |-> 2], 0)
BranchesTo(to) ==
  {Instruction(b[1], b[2], b[3] @@ [delta |-> 0], to)
     : b \in {"Bcc"} \X BOOLEAN \X {[l |-> 1, r |-> 2]}
          \cup {"BccGeneric"} \X BOOLEAN \X {[l |-> 1, r |-> 2, cc |-> 3]}
          \cup {"BccImm"} \X BOOLEAN \X {[l |-> 2, imm |-> i, cc |-> 1] : i \in {-5, 3}}
          \cup {"Jump"} \X BOOLEAN \X {<<>>}}

Branching ==
  {Method([i \in 1..4 |-> IF i = 4 THEN Return ELSE IF i = at THEN branch ELSE fill[i]], NoTarget)
     : at \in 1..3, fill \in [1..3 -> {Move, Nothing, Array}], branch \in UNION {BranchesTo(to) : to \in 1..4}}

Trying ==
  {Method(code, <<first, last>>)
     : code \in [1..3 -> {Nothing, Array, Closure, Check}], first \in 1..3, last \in 2..4}

ProgramsImpl == Alone \cup Branching \cup {p \in Trying : p.region[1] < p.region[2]}

\* The hypothesis of the theorems holds of these programs.
ASSUME MCProgramsAreRead == ProgramsAreRead
================================================================================
