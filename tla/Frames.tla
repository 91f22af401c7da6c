-------------------------------- MODULE Frames --------------------------------
(***************************************************************************)
(* The frames of one fiber and the registers they share.                   *)
(*                                                                         *)
(* Interpreted methods compute in the registers of the ectype of their     *)
(* fiber.  A call keeps the non-volatile registers: the callee's prologue  *)
(* pushes those it uses into its frame and pops them on return and when it *)
(* is unwound.  The garbage collector and the expansion of the stack have  *)
(* to find the registers of every frame again, from the youngest frame to  *)
(* the oldest, in the ectype or where a younger frame has saved them.      *)
(*                                                                         *)
(* Modelled from arch_os/x86_64_linux/trampolines.S (prologue, epilogue,   *)
(* stack check, exception handling), runtimesupport/impl/gc_support.cpp,   *)
(* reg_table.cpp, stack_expansion.cpp, exception_handling.cpp, and the     *)
(* state points of cbc/isa_rewriter.cpp.  Compiled code and the runtime    *)
(* are external: a frame of theirs may collect, call back, return, throw.  *)
(***************************************************************************)
EXTENDS Naturals, Sequences

CONSTANTS
  IRegs, FRegs,    \* the registers of the ectype
  Volatile,        \* the registers a callee may overwrite
  Result, Acc,     \* IR1, IR_ACC
  Slots,           \* untyped slots of a frame
  RecSlot,         \* a reference inside a stack-allocated record of a frame
  Methods,         \* interpreted methods
  SavedIRegs,      \* SavedIRegs[m], SavedFRegs[m]: the non-volatile registers
  SavedFRegs,      \*   m uses, in the order of its NonVolatileRegs list
  Params,          \* Params[m]: what its parameter registers hold
  Checks,          \* the instructions of the program that may throw
  Computes,        \* bound: Computes[m][p]: the kinds m puts into place p
  MaxDepth, MaxCalls, MaxCollections, MaxGrowths   \* bounds

Native == {"compiled", "runtime", "thrower"}
Kinds == {"heap", "local", "address", "other", "junk"}
Regs == IRegs \cup FRegs
Words == Slots \cup {RecSlot}
Places == Regs \cup Words

Elements(s) == {s[k] : k \in DOMAIN s}
Injective(s) == \A j, k \in DOMAIN s : s[j] = s[k] => j = k

\* The non-volatile registers of a method, as the prologue pushes them.
SaveList(m) == SavedIRegs[m] \o SavedFRegs[m]

\* A floating-point register has no pointer, a record a reference.
Values(p) ==
  IF p \in FRegs THEN {"other"}
  ELSE IF p = RecSlot THEN {"heap"}
  ELSE {"heap", "local", "address", "other"}

ASSUME RegistersAssumption ==
  /\ IRegs \cap FRegs = {} /\ Regs \cap Words = {} /\ RecSlot \notin Slots
  /\ {Result, Acc} \subseteq IRegs /\ Result # Acc
  /\ Volatile \subseteq Regs /\ {Result, Acc} \subseteq Volatile

ASSUME MethodsAssumption ==
  /\ Methods \cap Native = {}
  /\ \A m \in Methods :
       /\ SavedIRegs[m] \in Seq(IRegs \ Volatile) /\ Injective(SavedIRegs[m])
       /\ SavedFRegs[m] \in Seq(FRegs \ Volatile) /\ Injective(SavedFRegs[m])
       /\ DOMAIN Params[m] \subseteq (IRegs \cap Volatile) \ {Acc}
       /\ DOMAIN Computes[m] \subseteq Volatile \cup Elements(SaveList(m)) \cup Words
       /\ Params[m] \in [DOMAIN Params[m] -> Kinds]
       /\ \A r \in DOMAIN Params[m] : Params[m][r] \in Values(r)
       /\ \A p \in DOMAIN Computes[m] : Computes[m][p] \subseteq Values(p)

ASSUME BoundsAssumption ==
  MaxDepth \in Nat /\ MaxCalls \in Nat /\ MaxCollections \in Nat /\ MaxGrowths \in Nat

\* What a word of memory or a register contains.  "heap" is a reference to an
\* object of the heap, "local" a reference to one on the stack, "address"
\* any other pointer into the stack.  "frame" and "place" say for which frame
\* and place it was made; "at" is the collection, or growth of the stack, that
\* last updated it.
Word == [kind : Kinds, frame : Nat, place : Places, at : Nat]
Zero == [kind |-> "other", frame |-> 0, place |-> RecSlot, at |-> 0]
Junk == [Zero EXCEPT !.kind = "junk"]

\* "holds": what the compiler knows of the places in use at the position of
\* the frame; the liveness and stack pointer information of the position is
\* read off it.  "info": the position has an entry in the tables.
IsFrame(f) ==
  /\ f.method \in Methods \cup Native /\ f.entered \in BOOLEAN /\ f.info \in BOOLEAN
  /\ \A k \in DOMAIN f.saved : f.saved[k] \in Word
  /\ \A p \in Words : f.words[p] \in Word
  /\ DOMAIN f.holds \subseteq Places /\ \A p \in DOMAIN f.holds : f.holds[p] \in Kinds
------------------------------------------------------------------------------
VARIABLES
  mode,          \* what the youngest frame is doing
  regs,          \* Ectype::iregs and fregs
  dump,          \* the integer registers while the stack is being expanded
  stack,         \* frames, the youngest last
  calls,         \* calls so far
  collections,   \* collections so far: every one moves all objects
  growths        \* expansions so far: every one moves the stack

vars == <<mode, regs, dump, stack, calls, collections, growths>>

Depth == Len(stack)
Top == stack[Depth]
Interpreted(f) == f.method \in Methods

Epoch(k) ==
  CASE k = "heap" -> collections
    [] k \in {"local", "address"} -> growths
    [] OTHER -> 0

\* A word of kind k made now, for place p of the frame at depth d.
Fresh(k, d, p) == [kind |-> k, frame |-> d, place |-> p, at |-> Epoch(k)]

NewFrame(m, holds) ==
  [method |-> m, entered |-> FALSE, saved |-> <<>>,
   words |-> [p \in Words |-> Junk], holds |-> holds, info |-> TRUE]

NativeFrame(n) == NewFrame(n, <<>>)

Init ==
  /\ mode = "run"
  /\ regs = [r \in Regs |-> Zero]
  /\ dump = [r \in IRegs |-> Zero]
  /\ stack = <<NativeFrame("compiled")>>
  /\ calls = 0 /\ collections = 0 /\ growths = 0

Only(holds, P) == [p \in DOMAIN holds \cap P |-> holds[p]]
With(holds, p, k) == [q \in DOMAIN holds \cup {p} |-> IF q = p THEN k ELSE holds[q]]

\* What survives a call: the places a callee preserves.
AcrossCall(holds) == Only(holds, Places \ Volatile)
------------------------------------------------------------------------------
(***************************************************************************)
(* Saving and restoring.                                                   *)
(***************************************************************************)

\* PUSH_REGS: the k-th word below the end of the area is the k-th register.
Pushed(m) == [k \in DOMAIN SaveList(m) |-> regs[SaveList(m)[k]]]

\* Mutant: the area is read from its other end.
PoppedBackwards(f) ==
  [r \in Regs |->
     IF r \in Elements(SaveList(f.method))
     THEN f.saved[Len(f.saved) + 1 -
                    (CHOOSE k \in DOMAIN SaveList(f.method) : SaveList(f.method)[k] = r)]
     ELSE regs[r]]

\* POP_REGS
Popped(f) ==
  [r \in Regs |->
     IF r \in Elements(SaveList(f.method))
     THEN f.saved[CHOOSE k \in DOMAIN SaveList(f.method) :
                    SaveList(f.method)[k] = r]
     ELSE regs[r]]

\* restore_all_iregs
Restored(d) == [r \in Regs |-> IF r \in IRegs THEN d[r] ELSE regs[r]]

Older == SubSeq(stack, 1, Depth - 1)
------------------------------------------------------------------------------
(***************************************************************************)
(* The walk over the frames: RegistersTable.  The table starts with the    *)
(* registers themselves and, after a frame was visited, has the registers  *)
(* that frame saved in the frame: for the frame at depth d a register is   *)
(* where the last visited of the younger frames that saved it put it.      *)
(***************************************************************************)

\* A frame is visited, and the table updated after it, when its position is
\* found; frames of compiled code are not shown to the engine.
VisitedFrame(f) == Interpreted(f) /\ f.entered /\ f.info

SavedHere(d, r) ==
  VisitedFrame(stack[d]) /\ r \in Elements(SavedIRegs[stack[d].method])

\* Mutant: a frame's own registers are entered before it is visited.
SaversAndItself(d, r) == {j \in d..Depth : SavedHere(j, r)}

Savers(d, r) == {j \in (d + 1)..Depth : SavedHere(j, r)}

\* Where place p of the frame at depth d is: <<area, depth, index>>.
Location(d, p) ==
  IF p \in Words THEN <<"frame", d, p>>
  ELSE IF Savers(d, p) = {} THEN <<"registers", 0, p>>
  ELSE LET j == CHOOSE j \in Savers(d, p) : \A i \in Savers(d, p) : j <= i
           list == SavedIRegs[stack[j].method]
       IN  <<"saved", j, CHOOSE k \in DOMAIN list : list[k] = p>>

References == {"heap", "local"}

\* VisitGCFrameRoots: the registers and slots of the position, and the
\* references in records, wherever the position is.
RootsOf(d) ==
  IF VisitedFrame(stack[d])
  THEN {p \in DOMAIN stack[d].holds : stack[d].holds[p] \in References}
         \cup {RecSlot}
  ELSE {}

Roots == UNION {{Location(d, p) : p \in RootsOf(d)} : d \in 1..Depth}

\* VisitFrameRootsForStackPtrs: the frame whose prologue met the end of the
\* stack is described by its parameters, the older ones by their positions.
StackRootsOf(d) ==
  IF d = Depth
  THEN {r \in DOMAIN Params[Top.method] :
          Params[Top.method][r] \in References \cup {"address"}}
  ELSE IF VisitedFrame(stack[d])
  THEN RootsOf(d) \cup
         {p \in DOMAIN stack[d].holds : stack[d].holds[p] = "address"}
  ELSE {}

StackRoots == UNION {{Location(d, p) : p \in StackRootsOf(d)} : d \in 1..Depth}

\* The visitors of the runtime update a word that points to what moves, of the
\* kinds K.  A word the last move has missed is lost: it stays stale.
Updated(w, K) ==
  IF w.kind \in K /\ w.at = Epoch(w.kind) THEN [w EXCEPT !.at = @ + 1] ELSE w

\* The frames and registers, after the words at the locations L were updated.
MovedFrames(L, K) ==
  [d \in DOMAIN stack |->
     [stack[d] EXCEPT
        !.saved = [k \in DOMAIN stack[d].saved |->
                     IF <<"saved", d, k>> \in L THEN Updated(stack[d].saved[k], K)
                     ELSE stack[d].saved[k]],
        !.words = [p \in Words |->
                     IF <<"frame", d, p>> \in L THEN Updated(stack[d].words[p], K)
                     ELSE stack[d].words[p]]]]

MovedRegisters(L, file, K) ==
  [r \in DOMAIN file |->
     IF <<"registers", 0, r>> \in L THEN Updated(file[r], K) ELSE file[r]]
------------------------------------------------------------------------------
(***************************************************************************)
(* An interpreted method computes.                                         *)
(***************************************************************************)

InterpretedTop == mode = "run" /\ Interpreted(Top)
NativeTop == mode = "run" /\ ~Interpreted(Top)

\* A value of kind k is put into place p.
Write(p, k) ==
  /\ InterpretedTop
  /\ p \in DOMAIN Computes[Top.method] /\ k \in Computes[Top.method][p]
  /\ p \notin DOMAIN Top.holds
  /\ regs' = IF p \in Regs THEN [regs EXCEPT ![p] = Fresh(k, Depth, p)] ELSE regs
  /\ stack' = [stack EXCEPT
                 ![Depth].words = IF p \in Words
                                  THEN [@ EXCEPT ![p] = Fresh(k, Depth, p)] ELSE @,
                 ![Depth].holds = With(@, p, k)]
  /\ UNCHANGED <<mode, dump, calls, collections, growths>>
------------------------------------------------------------------------------
(***************************************************************************)
(* Calls and returns.  Every call is a state point: what the caller keeps  *)
(* across it is in "holds", and its position has an entry in the tables.   *)
(***************************************************************************)

\* The caller's position, with or without an entry in the tables.
Leaving(holds, info) ==
  IF Interpreted(Top) THEN [stack EXCEPT ![Depth].holds = holds, ![Depth].info = info]
  ELSE stack

MayCall == Depth < MaxDepth /\ calls < MaxCalls

\* I2ICall and C2I: the arguments are put into the parameter registers.
CallInterpreted(m) ==
  /\ mode = "run" /\ Top.method \in Methods \cup {"compiled"}
  /\ MayCall
  /\ regs' = [r \in Regs |-> IF r \in DOMAIN Params[m]
                             THEN Fresh(Params[m][r], Depth + 1, r) ELSE regs[r]]
  /\ stack' = Append(Leaving(AcrossCall(Top.holds), TRUE), NewFrame(m, Params[m]))
  /\ calls' = calls + 1
  /\ mode' = "prologue"
  /\ UNCHANGED <<dump, collections, growths>>

\* I2CCall
CallCompiled ==
  /\ InterpretedTop /\ MayCall
  /\ stack' = Append(Leaving(AcrossCall(Top.holds), TRUE), NativeFrame("compiled"))
  /\ calls' = calls + 1
  /\ UNCHANGED <<mode, regs, dump, collections, growths>>

\* NewObject, GcPoint and the other services of the runtime keep every
\* register but the one of the result.
Thunk ==
  /\ InterpretedTop /\ MayCall
  /\ stack' = Append(Leaving(Top.holds, TRUE), NativeFrame("runtime"))
  /\ calls' = calls + 1
  /\ UNCHANGED <<mode, regs, dump, collections, growths>>

\* Whether the rewriter binds a state point to a checking instruction: it
\* does to a checked operation, a division, a null and an index check, and
\* does not to a checked conversion.
HasStatePoint(c) == c # "conversion"

\* ThrowImplicit: a check fails and the runtime makes the exception.
ThrowImplicit(c) ==
  /\ InterpretedTop /\ MayCall
  /\ stack' = Append(Leaving(AcrossCall(Top.holds), HasStatePoint(c)),
                     NativeFrame("thrower"))
  /\ calls' = calls + 1
  /\ UNCHANGED <<mode, regs, dump, collections, growths>>

\* The caller is the youngest frame again; register r has the result, if
\* there is one.
BackWith(r, k) == [Older EXCEPT ![Depth - 1].holds =
                     IF Interpreted(Older[Depth - 1]) THEN With(@, r, k) ELSE @]

\* A compiled function or a service of the runtime returns a new reference.
NativeReturn(r) ==
  /\ NativeTop /\ Depth > 1
  /\ r = Result \/ Top.method = "runtime"
  /\ Top.method # "thrower"
  /\ regs' = [regs EXCEPT ![r] = Fresh("heap", Depth - 1, r)]
  /\ stack' = BackWith(r, "heap")
  /\ UNCHANGED <<mode, dump, calls, collections, growths>>

\* The epilogue: POP_REGS, and the frame is left.
Return ==
  /\ InterpretedTop
  /\ IF Result \in DOMAIN Top.holds
     THEN /\ regs' = [Popped(Top) EXCEPT ![Result].frame = Depth - 1]
          /\ stack' = BackWith(Result, Top.holds[Result])
     ELSE /\ regs' = Popped(Top)
          /\ stack' = Older
  /\ UNCHANGED <<mode, dump, calls, collections, growths>>
------------------------------------------------------------------------------
(***************************************************************************)
(* The prologue checks the stack, then zeroes the frame and saves the      *)
(* registers.  At the end of the stack it dumps the integer registers,     *)
(* has the stack expanded, restores them and checks again.                 *)
(***************************************************************************)

\* Mutant: the frame is not zeroed.
EnterUnzeroed ==
  /\ mode = "prologue"
  /\ stack' = [stack EXCEPT ![Depth] = [@ EXCEPT !.entered = TRUE,
                                                 !.saved = Pushed(Top.method)]]
  /\ mode' = "run"
  /\ UNCHANGED <<regs, dump, calls, collections, growths>>

Enter ==
  /\ mode = "prologue"
  /\ stack' = [stack EXCEPT ![Depth] = [@ EXCEPT !.entered = TRUE,
                                                 !.saved = Pushed(Top.method),
                                                 !.words = [p \in Words |-> Zero]]]
  /\ mode' = "run"
  /\ UNCHANGED <<regs, dump, calls, collections, growths>>

\* .Lstack_overflow: the accumulator gets the address of the dump.
StackOverflow ==
  /\ mode = "prologue" /\ growths < MaxGrowths
  /\ regs' = [regs EXCEPT ![Acc] = Fresh("address", Depth, Acc)]
  /\ dump' = [r \in IRegs |-> regs'[r]]
  /\ mode' = "grow"
  /\ UNCHANGED <<stack, calls, collections, growths>>

NoDump == [r \in IRegs |-> Zero]

\* engine_stack_grow_stub moves the stack.  The table starts with the dump.
Grow ==
  /\ mode = "grow"
  /\ LET moved == MovedRegisters(StackRoots, dump, {"local", "address"})
     IN  regs' = Restored(moved)
  /\ stack' = MovedFrames(StackRoots, {"local", "address"})
  /\ growths' = growths + 1
  /\ dump' = NoDump
  /\ mode' = "prologue"
  /\ UNCHANGED <<calls, collections>>

\* The stack cannot grow: the stub throws into the frame.
GrowFails ==
  /\ mode = "grow"
  /\ mode' = "unwind"
  /\ UNCHANGED <<regs, dump, stack, calls, collections, growths>>
------------------------------------------------------------------------------
(***************************************************************************)
(* Collections.                                                            *)
(***************************************************************************)

\* The runtime may collect while the fiber is in compiled code or in the
\* runtime.
MayCollect == mode \in {"run", "throw"} /\ ~Interpreted(Top)

Collect ==
  /\ MayCollect /\ collections < MaxCollections
  /\ regs' = MovedRegisters(Roots, regs, {"heap"})
  /\ stack' = MovedFrames(Roots, {"heap"})
  /\ collections' = collections + 1
  /\ UNCHANGED <<mode, dump, calls, growths>>
------------------------------------------------------------------------------
(***************************************************************************)
(* Exceptions.                                                             *)
(***************************************************************************)

\* HandleException: an interpreted method throws.
Throw ==
  /\ InterpretedTop
  /\ stack' = Leaving(AcrossCall(Top.holds), TRUE)
  /\ mode' = "unwind"
  /\ UNCHANGED <<regs, dump, calls, collections, growths>>

\* Compiled code or the runtime throws; so does the thrower.
NativeThrow ==
  /\ NativeTop
  /\ mode' = "throw"
  /\ UNCHANGED <<regs, dump, stack, calls, collections, growths>>

\* .Lcatch_exception: the frame stays and has the exception in Acc.
Catch ==
  /\ mode = "unwind" /\ Top.entered
  /\ regs' = [regs EXCEPT ![Acc] = Fresh("heap", Depth, Acc)]
  /\ stack' = [stack EXCEPT ![Depth].holds = With(Only(@, Places \ Volatile), Acc, "heap")]
  /\ mode' = "run"
  /\ UNCHANGED <<dump, calls, collections, growths>>

\* After an interpreted frame its caller is looked at, or, behind a C2I
\* adapter, the runtime throws on: engine_throw_out_of_interpreter.
Rethrown == IF Interpreted(Older[Depth - 1]) THEN "unwind" ELSE "throw"

\* .Lunwind_top_frame: POP_REGS, and the frame is left.
Unwind ==
  /\ mode = "unwind" /\ Top.entered
  /\ regs' = Popped(Top)
  /\ stack' = Older
  /\ mode' = Rethrown
  /\ UNCHANGED <<dump, calls, collections, growths>>

\* Mutant: the frame is not cleared.
HandleSoeAgain ==
  /\ mode = "unwind" /\ ~Top.entered
  /\ regs' = Restored(dump)
  /\ UNCHANGED <<mode, dump, stack, calls, collections, growths>>

\* .Lhandle_soe: the frame has saved nothing, its caller's registers are in
\* the dump.
HandleSoe ==
  /\ mode = "unwind" /\ ~Top.entered
  /\ regs' = Restored(dump)
  /\ dump' = NoDump
  /\ stack' = Older
  /\ mode' = Rethrown
  /\ UNCHANGED <<calls, collections, growths>>

\* Compiled code catches; the fiber's first frame always does.
CompiledCatch ==
  /\ mode = "throw" /\ Top.method = "compiled"
  /\ mode' = "run"
  /\ UNCHANGED <<regs, dump, stack, calls, collections, growths>>

\* The runtime unwinds its frames and compiled ones to common_landing_pad.
CompiledUnwind ==
  /\ mode = "throw" /\ Depth > 1
  /\ stack' = Older
  /\ mode' = Rethrown
  /\ UNCHANGED <<regs, dump, calls, collections, growths>>
------------------------------------------------------------------------------
Unwinding == Catch \/ Unwind \/ HandleSoe \/ CompiledCatch \/ CompiledUnwind

Next ==
  \/ \E p \in Places, k \in Kinds : Write(p, k)
  \/ \E m \in Methods : CallInterpreted(m)
  \/ CallCompiled
  \/ Thunk
  \/ \E c \in Checks : ThrowImplicit(c)
  \/ \E r \in {Result, Acc} : NativeReturn(r)
  \/ Return
  \/ Enter
  \/ StackOverflow
  \/ Grow
  \/ GrowFails
  \/ Collect
  \/ Throw
  \/ NativeThrow
  \/ Unwinding

Spec == Init /\ [][Next]_vars

\* The interpreter goes on with an exception it handles, and so do the
\* runtime and compiled code.
FairSpec == Spec /\ WF_vars(Unwinding)
------------------------------------------------------------------------------
(***************************************************************************)
(* Properties.                                                             *)
(***************************************************************************)

Content(L) ==
  CASE L[1] = "registers" -> IF mode = "grow" THEN dump[L[3]] ELSE regs[L[3]]
    [] L[1] = "saved"     -> stack[L[2]].saved[L[3]]
    [] L[1] = "frame"     -> stack[L[2]].words[L[3]]

\* What the frame at depth d has in its place p is where the walk looks for it.
\* A record that was not written yet is zero.
Found(d, p, k) ==
  \/ Content(Location(d, p)) = Fresh(k, d, p)
  \/ p = RecSlot /\ Content(Location(d, p)) = Zero

KindIn(holds, p) == IF p \in DOMAIN holds THEN holds[p] ELSE "heap"

\* The variables have their types.  A handler is looked for in an interpreted
\* frame, as the comment on engine_handle_exception asks, and only a frame
\* that was entered has saved registers.
TypeOK ==
  /\ mode \in {"run", "prologue", "grow", "unwind", "throw"}
  /\ regs \in [Regs -> Word] /\ dump \in [IRegs -> Word]
  /\ stack # <<>> /\ \A d \in 1..Depth : IsFrame(stack[d])
  /\ collections \in 0..MaxCollections /\ growths \in 0..MaxGrowths
  /\ mode \in {"prologue", "grow", "unwind"} => Interpreted(Top)
  /\ mode = "throw" => ~Interpreted(Top)
  /\ \A d \in 1..Depth :
       Len(stack[d].saved) =
         IF stack[d].entered THEN Len(SaveList(stack[d].method)) ELSE 0

\* An interpreted method that goes on after calls, collections, expansions of
\* the stack and exceptions finds in every place it still uses what it put
\* there, updated by the last collection and the last expansion.
LocalsSurvive ==
  mode \in {"run", "prologue"} /\ Interpreted(Top) =>
    \A p \in DOMAIN Top.holds :
      (IF p \in Regs THEN regs[p] ELSE Top.words[p]) = Fresh(Top.holds[p], Depth, p)

\* The collector is shown the references of every frame, updated by the last
\* collection: never a word a younger frame has put into the register, the
\* word another frame saved, or one the last collection missed.
CollectorFindsReferences ==
  MayCollect =>
    \A d \in 1..Depth : \A p \in RootsOf(d) : Found(d, p, KindIn(stack[d].holds, p))

\* So is the runtime when it moves the stack, whose youngest frame has nothing
\* but its parameters, in the dump.
ExpansionFindsPointers ==
  mode = "grow" =>
    \A d \in 1..Depth : \A p \in StackRootsOf(d) :
      Found(d, p, IF d = Depth THEN Params[Top.method][p] ELSE KindIn(stack[d].holds, p))

\* An exception is handled after finitely many frames.
UnwindingEnds == mode \in {"unwind", "throw"} ~> mode = "run"

\* stack_expansion.cpp says that the information for the collector is required
\* at every state point: a frame below the runtime is at a position that has
\* it.
CollectionsFindInfo ==
  MayCollect => \A d \in 1..Depth : stack[d].entered => stack[d].info
==============================================================================
