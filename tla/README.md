# Verification of the CBC engine

The engine loads hot-fix bytecode (CBC files) into a running Cangjie process,
rewrites it into an internal form the first time a method is called, and
interprets it beside code that was compiled ahead of time. This directory has
TLA+ modules of the parts of the engine where order, sharing and failure
matter, configurations with which TLC checks them on small instances, and
proofs that TLAPS checks for every instance.

Paths below are relative to `src/src/` of the repository.

    tlc -workers 2 -config MCTypeInfos.cfg MCTypeInfos
    tlapm FunctionHandlesProofs.tla

## 1. The system

| part | state it keeps | operations | talks to |
|---|---|---|---|
| Function handles, lazy linking (`interpreter/function_handle.cpp`, `runtimesupport/impl/adapters.cpp`) | map from methods to handles, a lock for the map, per handle a bytecode pointer and a lock, the table of the helpers, the table of trampolines | acquire a handle, prepare its bytecode, set the helpers, export a trampoline | called by the prologue of every interpreted method (assembly), by the resolution of calls, by the start of the engine; calls the rewriter |
| Rewriter, move resolver (`cbc/isa_rewriter.cpp`, `cbc/move_resolver.cpp`) | local to one rewriting | translate instructions, place arguments, lay out the frame, write the tables of positions | queries resolution; hands code to the emitter |
| Emitter (`cbc/emitter/`) | segments, labels, symbols of one method | emit, bind, grow far jumps, flatten | rewriter |
| Parser (`cbc/isa_parser.cpp`) | none | decode fixed formats | rewriter |
| Frames, registers (`arch_os/x86_64_linux/trampolines.S`, `interpreter/ectype.h`) | the register file of a fiber, the frames on its stack | prologue, epilogue, calls both ways, thunks | runtime, compiled code |
| Collections, stack expansion, exceptions (`gc_support.cpp`, `reg_table.cpp`, `stack_expansion.cpp`, `exception_handling.cpp` in `runtimesupport/impl/`) | tables of the rewritten code, the dump of the registers | visit roots, update pointers, find a handler, unwind | callbacks of the runtime |
| Type infos (`engine/typeinfo_manager.cpp`, `runtimesupport/impl/typeinfo_factory.cpp`) | term to type info, type info to term, what is being made, one lock | acquire a type info, acquire a term | layouts, method tables, the runtime |
| Terms (`engine/terms.cpp`) | the table of interned terms; otherwise the arena of a session | resolve, substitute, match, globalize | everything that speaks of types |
| Method tables (`engine/method_table.cpp`) | cache of tables | build, merge, look up | terms, type infos, virtual calls |
| Field layouts and statics (`engine/field_layout.cpp`, `statics_manager.cpp`) | cache of layouts of one session; bundles of static fields, a lock | layout, size, alignment, reference offsets; locate, visit | type infos, collector |
| Resolution (`resolution/resolution.cpp`) | none but what it asks | fields, types, calls of every kind | all of the above |
| Start and patching (`entrypoint.cpp`, `engine/engine.cpp`, `cbc_loader.cpp`) | flags of the process, the engine instance | initialise, load files, patch initialisers, callbacks | the launcher and the runtime |
| Operations (`interpreter/interpreter.h`, `internal/operations.h`, `casts.h`) | registers | arithmetic with checks, shifts, conversions | loop |
| Call conventions (`cbc/abi.h`, `cbc/c_abi.cpp`) | none | place parameters | rewriter, C calls |

`PROJECT.json` lists these and the remaining parts (files and decoding, runtime
wrappers, spawned threads, the other platforms, options and logging, the
disassembler, tools and tests) with what is modelled of each.

**What is hard.** Threads of the program enter the engine at any call. The
bytecode of a handle is read without a lock by assembly and published under
one; the map of handles has another. The type info manager keeps one lock for a
whole recursive walk that comes back to types it has not finished; the runtime
presents types of its own in between. Interning takes its lock once per
subterm. A collection or an expansion of the stack may come at every call and
has to find each register of each frame, wherever a younger frame has saved it.
Linking fails per method and is retried; a type that fails is remembered for
ever. An exception leaves frames whose prologue has not finished. Nothing is
persisted and nothing crosses a network: there is no recovery from a crash and
no lost message to model.

**What makes each part correct.**

- *Function handles*: one handle per method; published bytecode is final; a
  frame runs the code of the called method or of the error helper; a trampoline
  belongs to one handle for ever; calls get through.
- *Move resolver*: what is emitted is the parallel assignment; a temporary is
  free when it is used; resolution ends.
- *Frames*: a method finds its registers and slots again after anything that
  may happen below it; the collector and the expansion are shown exactly the
  words that hold references and pointers.
- *Type infos*: one per type; never an unfinished one to a caller outside the
  walk; failures have a cause; both maps agree.
- *Terms*: one interned term per type, nothing in the table points into a
  session; a term remains the type it was asked for and is represented alike
  however it was made; matching inverts substitution.
- *Method tables*: a row of an ancestor stays the row of its override; an
  abstract row is filled when exactly one implementation is inherited; a
  conflict is reported exactly when two different ones are.
- *Field layouts, statics*: the words two references to fields reach are apart or
  one within the other; each reference is shown to the collector and no number is;
  building and visiting do not wait for each other in a circle.
- *Start*: no callback works on parts that are not initialised; an engine stays;
  the flag of a package is set only when every function of its patch is in place,
  and is left out only when its symbol is missing; the main file is loaded once.
- *Rewriter*: the operations an instruction becomes have its effect, whichever of
  its registers are one; a jump, an exception region and a table entry mean the
  instruction they meant before rewriting.
- *Emitter*: what the interpreter decodes is what was emitted.
- *Operations*: the mathematical result modulo the width, or the exception,
  exactly when the result does not fit.
- *Interpretation loop*: an access keeps to the bytes of its place, a reference in
  the heap or in a global passes a barrier, an instruction runs once and changes
  only the registers it names.

## 2. The modules

### FunctionHandles, and what it promises: LazyCode

`FunctionHandles` has the handles, the locks and the trampolines of
`function_handle.cpp`. A variable stands for each field of
`FunctionHandleManager::Impl` and of a handle; a thread has a program counter
and the locals of `AcquireTagged`, `Prepare`, `GetHelper` and
`FindAndPrepareHelpers`. A hit in the map is one critical section; a miss is
two steps with the lock held, so that others find it taken. The prologue in
`trampolines.S` reads the bytecode with no lock (`Enter`), and calls
`engine_prepare_bytecode` when it is null, whose second look is under the lock
of the handle. Rewriting resolves the references of a method one at a time,
acquiring handles under the lock of the handle that is being linked. Compiled,
abstract, broken and unlinked methods are constants. A failed `ASSERT` or
`FATAL` stops the process (`status`).

`LazyCode` says the same to a caller without handles: methods become linked, one
at a time and once, and a call runs linked code. `KeepsLazyCode` is the
refinement; the linked methods are those whose handle has bytecode.

### MoveResolver

`move_resolver.cpp`: assignments of registers, loads and parameter stores are
collected, the graph is shuffled pass by pass, a cycle is broken over a
temporary, loads from slots come last. The model executes what is emitted, so
that the result is compared with reading every source before the first
instruction. The reference definition is `Intended`.

### TypeInfos

`AcquireTypeInfo` and `AcquireTerm` of `typeinfo_manager.cpp`, with the stack of
recursive calls of `CreateTypeInfo` made explicit. `Needs` is the sequence of
requests a creation makes, in the order of `typeinfo_factory.cpp`, with the three
ways the code treats a refusal: give up, go on and fail at the end, leave a
null. `Kind` is the branch of `CreateTypeInfo`: laid out by the engine, with the
unfinished object registered at once; handed on to the runtime; made by the
runtime. The last steps, `HandleUUIDs` and the release of the lock, are
`Return`.

### Terms, on TermAlgebra

`TermAlgebra` has the sequential algorithms of `terms.cpp` as operators:
resolution over a stream of references (a failed attempt leaves the stream where
it stopped), substitution with and without the boxing of signatures, option
flags, and the stateful matcher with its shortcut for equal pointers. Pointers
are told apart by the field `at`. They are recursive functions, over references
(no type is part of itself, `PartsAssumption`) and over the terms nested to
`MaxDepth`; an action whose term would be deeper is not enabled. `Terms` puts them into sessions that run beside
each other and share the table. Globalizing replaces one subterm per critical
section, in the order of the recursion. The ghost part `is` of an entry is the
type that was asked for, computed by `Denoted`, `Instance` and
`SignatureInstance`, which know no streams, flags or pointers: such a structure is
a term without flags (`Bare`).

### Frames

One fiber: its register file, its frames, the dump made while the stack grows.
A word carries the frame and place it was made for and the collection or growth
that last updated it; a word a visitor misses stays stale for ever, and so
shows. `Location` is `RegistersTable`: a register of a frame is where the
nearest younger frame has saved it, or in the register file. Actions: the
prologue, the stack check with its expansion and its failure, the epilogue,
calls both ways, thunks, implicit throws, collections, and the unwinding of
interpreted and of compiled frames. Compiled code and the runtime are external:
a frame of theirs may collect, call back, return or throw.

### Operations, ExactOperations

`Operations` translates `internal/operations.h`, `casts.h` and the decoding of
operands: wrapping, checked and saturating arithmetic as the code computes it, in
the C++ types it uses, with its early tests for zero and the least value.
`ExactOperations` has what each means on numbers (`Exact`), with no widths in it.
Widths are constants; floats are a table from bit patterns to values, with
infinities and values that are not numbers, and the FPU is a parameter.

### Interpreter, and what it promises: Sequencer

`Interpreter` has the register file of a frame, its slots, an object, globals and
the heap as bytes, and one action per instruction or family of instructions of
`interpretation_loop.cpp`, with the thunks it returns to `trampolines.S` and the
way back. A byte of memory knows what was last put there (`Written`), so that an
access with another width or to a place of references shows. The runtime's
barriers (`RefAccess`) are recorded by kind. `Sequencer` is the abstract view: one
instruction after the other, each once, changing no register it does not name;
`InstructionsRunOnce` is the refinement.

### Encodings, Emitter

`Encodings` has the formats of `encoding_rt.cpp` and those `isa_rt.h` decodes, on
cells of a nibble whose radix is a constant. `Emitter` translates every operation
of `emitter.cpp` (`Emits` for those with one form, a definition of their own for
those that choose between forms), the segment, the holes and the table of
literals of `symbols.cpp`, and then reads the result as the loop does
(`ReadInstruction`). Emitting, binding, building and reading are its actions.

### Bytecode, Rewriter

`Bytecode` has the parsers of `isa_parser.cpp` as a table of formats, with the LEB
numbers. `Rewriter` parses a method, calls the method of `isa_rewriter.cpp` for each
instruction (the `Expand...` definitions), binds labels and state points, finishes
or fails as a whole, and then runs the operations on symbolic terms next to the
meaning of the source. The search of `exception_handling.cpp` reads the index of
offsets it left. The meaning of an instruction that becomes one operation is the
effect of that operation (`MeaningOfOperations`): for these the property is about
parsing and about the places of the operands, and that the operation is the right one
is compared with nothing.

### FieldLayouts, Statics

`FieldLayouts` has `field_layout.cpp` (`AddField` is one step of `Accumulator`) and
the part of `resolution.cpp` that walks references to fields through records
(`ResolveField`, `ResolveMulti`). `Statics` has two threads resolve references
while the first to ask builds the bundle of static fields under the lock of the
manager, asking for type infos, whose lock other threads also take, and a collector
that visits what is published. A record without a known size, or an element of an array
of such records, is unwrapped all the same, and the process ends (`NoSize`, `NoElement`).

### Hierarchies, MethodTables, VirtualCalls

`Hierarchies` has definitions, extensions and what the language promises
(`Promise`). `MethodTables` builds a table from the super, the interfaces, the
methods and the extensions, patching rows in place, and resolves conflicts as
`method_table.cpp` does. `VirtualCalls` links call sites and creates type infos in
any order, each from tables cached as `CachingMethodTableManager` caches them, and
compares what a call then reaches with the promise. Terms have one type variable
here; `TermAlgebra` has the general case.

### Startup

The scripts of `launcher.c` and `preload.c`, the calls they make into
`entrypoint.cpp`, step by step between accesses to shared flags and the guard, the
scan of the directory, which an error of `readdir` may end early, the loading and
building, the patching of compiled packages, and callbacks of collectors. A package
is patched one function at a time (`PatchFunction`), which is fatal when no
trampoline is left, and its flag is set last (`PatchFlag`); a package without the
symbol of the flag runs the functions of its patch all the same. The arguments of
`interpreter_bridge_init` could name another main file; the hosts in the repository
pass none, and the model has none. A store becomes visible to another thread
later (`BecomeVisible`); `StoresInOrder` says whether in program order.

### MC modules

Each `MC...` module only gives programs, a register file, a set of types or a
pool of terms to the module of the same name (`MCStatics` to `Statics`, and so on).

## 3. What the runs check

| run | bounds | states | question |
|---|---|---|---|
| `function_handles` | 2 threads, 5 CBC methods with both helpers, 2 compiled, 1 abstract, 1 trampoline, depth 2, 3 calls | 144 thousand | handles under every interleaving, `LazyCode`, `CallsProceed` |
| `move_resolver` | 5 integer and 3 float registers with both temporaries, a slot, a parameter slot, up to 4 moves | 1.04 million | parallel assignment, `Terminates` |
| `type_infos` | 2 threads, 12 types in every kind of cycle, one of them missing | 211 thousand | one type info per type, unfinished objects, causes of failures, `WalksEnd` |
| `terms` | 2 sessions, 2 terms at a time, 3 interned, a pool of 17 references | 158 thousand | interning, representation, matching |
| `frames` | 4 frames, 3 calls, 1 collection, 1 growth, 4 integer registers and a float register | 160 thousand | registers survive, roots are found, `UnwindingEnds` |
| `interpreter` | each instruction with each operand at a small width, and short programs | 91 thousand | exact results, places, barriers, `Sequencer` |
| `emitter` | each operation with its operands at each bound, literals, branches | 24 thousand | emitting and decoding are inverse, jumps land |
| `rewriter` | each instruction with each aliasing of its registers; methods of 3 or 4 instructions | 69 thousand | meaning, state points, try blocks |
| `statics` | 19 programs, 2 threads, 2 references, 1 visit | 77 thousand | fields apart, references visited, no circle of locks |
| `method_tables` | 7 programs over 26 definitions | 5 thousand | calls through tables, causes of refusals |
| `startup` | 16 worlds, 2 hosts, 2 collectors, at most 4 files, 5 packages | 9 thousand | engine, patches, main file, callbacks |

Why the bounds are enough:

- *Handles.* The races are between two threads, about one map lock, one handle
  lock and one table. Depth 2 has a method called while its caller is being
  linked; one trampoline makes the table overflow; three calls let a call of a
  broken method be repeated after both threads have run. The proofs of
  section 5 remove the bounds for all but `CallsProceed`.
- *Moves.* Four moves over four assignable integer registers make two cycles at
  once, or a cycle with a tail and a load. The proofs remove these bounds too,
  but for `Terminates`.
- *Type infos.* The types are chosen so that each branch of the walk meets an
  unfinished term of each kind, and a failure both before and after another type
  has got hold of the object. Class `Foo` is met again through an interface whose
  failure is tolerated, and through a field whose failure is not. The proofs of
  section 5 remove these bounds for all but `WalksEnd`.
- *Terms.* Three interned terms are a type with two arguments of its own; two
  sessions race for them. No term of the run is nested to `MaxDepth`. The proofs remove
  the bounds on sessions, terms and references; `MaxDepth` is any number there.
- *Frames.* Three interpreted frames over the first make a register saved by the
  youngest but one and not by the youngest; a second collection would find what
  the first left, and that the first has left all words updated is the invariant.
  The proofs remove these bounds for all but `UnwindingEnds`.
  The float register is saved and restored; no run computes in it.
- *Interpreter.* A byte has one bit and a register 8, the widths are 1, 2, 4 and 8
  bits, so every operation runs with all pairs of operands up to "32 bits" and with
  the bounds of "64 bits"; powers are left out at the width of one bit, where the
  code's test of the exponent has no room. An immediate has two bits. Floats have
  the few values around the bounds of the integers; a memory has 128 bytes.
- *Emitter.* A nibble is one bit, so the bounds of a "12-bit" immediate are -4 and
  3, those of a "32-bit" one -128 and 127, and a jump over nine operations is out
  of reach of the short form. Three operations with literals share and fill the
  table. Opcodes of loads of floats are folded into the integer forms, which have
  the same encoding.
- *Rewriter.* Four registers make all ways in which the operands of an
  instruction may be one. Each index resolves or not. Four instructions place a
  branch, its target, an instruction before and one between. Three have every try
  block. The size of an operation is one or two bytes, since only the difference
  between one and more shows at the end of a block. Atomic operations that fetch
  are folded into one.
- *Statics.* Each of 15 types of fields is put behind another and before a
  reference; arrays of records of known and of unknown size; objects of a derived and
  of a generic class. No class has a field of the name and type of one of its super's, of
  which the code takes the first it meets (`resolution.cpp:262`). That a walk through type
  infos never asks for the lock of the statics is part of the model, as it is of the code read
  here, and so is that a collection does not stop a thread that holds a lock. Two threads race for one
  bundle while others enter the manager of type infos without limit.
- *Method tables.* The programs are overriding, defaults, conflicts, abstract
  supers, a generic interface whose method exists for its argument and for a
  string, three extensions, and missing or incompatible types. Left out are two
  hierarchies: a diamond in which an abstract row remains although one
  implementation is inherited (`method_table.cpp:407`), and two extensions of one
  type of which the later one adds a super interface of the earlier one's, which
  conflict in one order only. Calls name the type that declares the method
  (`numbers_suffice` shows why).
- *Startup.* The worlds are the launcher and a preloading program, another host
  that initialises, links to the main file, damaged, unreadable and missing files
  and folders with a file's name, a directory that cannot be read to its end,
  missing or unbuildable intrinsics, no trampoline left. Stores are seen in program order. The early return of `PerformPatching` on `g_Patched` is never taken, since
  `interpreter_bridge_init` runs once.

Every property of a passing run has a mutant: a definition that models code is
changed as a plausible bug would change it and the property then fails under
the same configuration.

### Where the code and its own statements differ

`numbers_suffice` checks one statement of the repository's own that the code does
not keep: a method found in the table of a super type is "(I, 0)", but the
resolved call keeps the number and not the I.

Other such statements were met, and `PROJECT.json` lists them under `findings`
with the lines they quote. Six configurations that are not among the runs
reproduce them; TLC finds each property of theirs violated (`TermFindings.cfg` with
`-continue`, since the first violation would end it).

| configuration | module | property | what it shows |
|---|---|---|---|
| `HelperFailure.cfg` | `MCFunctionHandles` | `GetHelperNotNull` | when the error helper cannot be linked, the assertion of `GetHelper` fails before the message for that case is reached |
| `CircularTypes.cfg` | `MCTypeInfos` | `NulloptMeansUnresolvable` | a class that refers to itself through a function type is not found when the function type is asked for first |
| `SwappedBuiltins.cfg` | `MCTypeInfos` | `NoClash` | `interpreter_bridge_init` stores `Nothing` and `CString` under each other's index; correct terms then meet in a fatal error meant for incorrect ones |
| `CheckedConversion.cfg` | `MCFrames` | `CollectionsFindInfo` | an instruction that may throw has no state point: a collection while the exception is made skips its frame, and looks registers of older frames up in the wrong places |
| `TryBlocks.cfg` | `MCRewriter` | `TryBlocksAreHalfOpen` | an instruction of one byte right behind a try block is taken for one inside |
| `TermFindings.cfg` | `MCTerms` | `RecordFlagFits` | a tuple from a type info of the runtime is interned as a reference, one from a file as a record; the first decides |
| | | `ErrorsAreUndefined` | a type with an undefined argument resolves to a type, with an argument read from the next entry |
| | | `ExtensionVariablesBound` | an extension matches a generic type as its own methods see it without binding its variables |

With `StoresInOrder = FALSE` in `MCStartup.cfg`, `CallbacksFindTheEngine` fails: the
flag and the pointer to the engine are ordinary variables that callbacks read
without the guard, and one of the targets (`arch_os/aarch64_linux`) may show their stores
in another order.

The passing runs leave these cases out: `Terms` has no tuples or C pointers presented by the
runtime, no definition with a missing argument and no generic owners. It has
options over references made by substitution: they are references, as
`TermsAreRight` asks, but also keep the flag of a record (a finding without a
configuration, at `terms.cpp:1123`). `Frames` has no checked conversions, `TypeInfos` no
swapped entries, `FunctionHandles` no helper that cannot be linked, and
`StatePointsFollow` names the four instructions whose state point is missing or
late (`WithoutStatePoint`). `MatchInverts` speaks of closed types, not of those that share
generic parts, and the method tables have no diamond in which an abstract row stays. Five
hazards of `PROJECT.json` are therefore covered in part or not at all, as their notes say:
the assertion in `GetHelper`, the shortcut of the matcher, the order in which rows
are merged, frames without a state point, and the flag that is read without the guard.

Smaller observations, for which no statement of the repository was found to
differ: `NewClosureGeneric` returns without failing the rewriting when its type
does not resolve, so that the instruction is dropped (`isa_rewriter.cpp:1923`);
`NewArrGeneric` overwrites its type when that is in the register the length is
moved to; `BranchIsRef` has only a short form; the immediates of `AtomicLoad` and `AtomicStore` are checked by an
assertion of debug builds only; a field of a type variable is given an offset that is
"known"; the header of an object is counted twice for a field of a boxed record that
is reached through a reference.

## 4. Fairness

Liveness is stated only where the code gives it.

- `CallsProceed`: the engine's own steps of a thread are weakly fair, so a thread
  within a call of the engine is not descheduled for ever. Nothing makes guest
  code return or call. Weak fairness is enough, although a lock may be taken
  again and again, because the number of calls is bounded; this is a bound of the
  model.
- `WalksEnd`: `std::mutex` promises nothing to a waiting thread, so a request may
  wait for ever. A walk that has begun ends.
- `Terminates`: one thread, one loop.
- `UnwindingEnds`: the handling of an exception goes on; a handler may or may not
  be found in each frame, and the first frame of a fiber catches.

`CHECK_DEADLOCK FALSE` is set because the systems stop: no calls are left, the
moves are done, all types are known, the program has run, or the process has died
by assertion.
Mutual waiting would violate the liveness properties, and in `Statics`, where
none is stated, `NobodyWaitsInACircle`.

## 5. What is proved

`FunctionHandlesProofs` proves, for any sets of threads and methods, any program
and any bounds that satisfy the assumptions named in the module: `TypeCorrect`,
`OneHandle`, `FinalBytecode`, `FramesRun`, `TrampolinesKeep`, `HelpersAreReady`
and `Refinement`, the step simulation of `LazyCode`.

None of these is inductive alone. That a second handle is never built needs
that the thread between look-up and insertion has the map lock and that no other
thread is there. That bytecode is final needs that the thread between its look
at the pointer and the publication has the lock of that handle, that it is the
only such thread, and that the pointer is still null. That frames run their code
needs that literals and results refer to handles in the map. The inductive
invariant (`Invariant`) is the conjunction of types, what locals are allowed to
hold at each program counter, lock ownership, and facts about the shared state.
The argument has three parts: shared state only grows; the locks exclude; what a
thread holds in locals no other thread changes. The proof has a step for each
action and, below it, one for each conjunct the action can disturb.

`MoveResolverProofs` proves for any finite sets of registers, any slots, any
sources and any number of moves that the emitted sequence is the parallel
assignment (`MovesAreParallel`) and that temporaries are free when a cycle is
broken (`TemporariesAreFree`). A pending node reads either the value it read at
the start or the temporary that has it. The difficult step is the cycle: when a
pass emits nothing, each register that is not done is the source of another.
There are as many sources as registers, so each is read once and the blocked
registers are a union of cycles; a temporary, which nothing is assigned to,
cannot be on one. The counting uses the theorems on finite sets of the library.

`StaticsProofs` proves `NobodyWaits` for any number of threads, types and
requests: whoever holds the lock of the bundles and waits for that of the type
infos waits for a thread that needs nothing of the holder. The invariant says who
is between which steps when a lock is held (`LockInv`).

The other two theorems are about the places of static fields, for any threads, any
definitions with any static fields, and any classes. A slot is counted twice: when
`CreateBundle` goes through the fields, and when `GetLocation` goes through them again.
`SlotsInv` says that while a bundle is built the counts agree: a field has the slot that
is the number of fields of its kind before it, slots of one kind are used once, and none
is left out; `RecordsInv` that records lie behind each other at multiples of a word
and that the offsets remembered for the collector are those in the records
passed so far. It follows that the fields of a finished bundle are apart
(`ApartInBundle`), inside (`InsideBundle`), and shown to the collector (`VisitIsComplete`).
The invariant of the threads says that a bundle in use is a finished construction, that
its builder is alone, that a thread past `Locate` has the place of the field its
reference begins with, and that an answer is that place and, from there, what the layout of
the field's type says; that of the collector, which bundles it has seen. `CollectorSees` and `FieldsApart`
are projections.

What the layout of a single type says is computed by recursion over types and
is not proved. It is stated as four facts (the last section of `Statics`), which
are the hypotheses of these theorems: sizes are known or not, and only a record is longer
than a word (`SizesAreKnown`); the parts of a value, and of an object, are apart, within
it and aligned (`ValuesAreLaidOut`, `ObjectsAreLaidOut`); the offsets given to the
collector are those of the references (`OffsetsAreThoseOfReferences`). TLC evaluates the four
for the 24 types of `MCStatics` on every run (`MCLayoutsAreRight`). `ProgramsAssumption` says
that the owners of static fields and the classes of objects have names of their own.

`StartupProofs` proves for any hosts, collectors and worlds that an engine once
stored is never replaced (`EngineStays`), from the invariant that only the holder
of the guard is between the look at `g_Initialized` and the store of the engine,
and that the flag is unset until then (`GuardInv`). `CallbacksAreSafe` is proved
under the assumption that stores become visible in program order: what a collector
has seen is a prefix of what was stored, and in memory the flag comes after the
engine (`MemoryInv`, `VisibleInv`).

The files come next. `MainOnce`: the main file is loaded at most once, whatever
the directory holds and however links and options name it. A file that is refused
uses up no number, so that the list of files and the list of their contents go
together (`FilesInv`); the main file does not change after the options are read,
and until it is loaded itself no loaded file is it (`MainInv`). `PatchesWhole`:
`WalkInv` says how far `PerformPatching` has come: every package before that place has
the functions of its patch for good, and its flag if the symbol is there (`Done`); the one at
that place has the functions stored so far; and no package, at any time, has its flag
before its functions (`Whole`). Two facts about the
environment are hypotheses, since the code does not check them: the intrinsics are
not the main file (`IntrinsicsAreNotMain`; it is loaded once more if they are),
and no package is patched by two files (`PackagesArePatchedOnce`; the later one
would overwrite the function table of the earlier one). Both hold in the worlds of
`MCStartup`. `WorldsAssumption` says that a directory lists files that are there.

`TypeInfosProofs` proves, for any threads, any terms and whatever they need of each
other, that no caller is given an unfinished type info (`AnswersFinished`) and that
a failure has a cause (`FailuresCaused`). The invariant: only the holder of the lock
walks; the pending terms are those of the calls on the stack of its walk, and no
term is on it twice (`ChainInv`); each call but the last stands at the need that
made the next; what is ready is filled in. That the terms on the stack differ is
what makes a failure explicable: a request that finds its term pending with nothing
registered has come back to it, along the needs of the calls in between, and these
may include needs whose failure is tolerated. The first definition of `Circular` left those
out, and no instance then had such a path; the proof failed at this step, the
definition was corrected, and class `Foo` of `MCTypeInfos` now has one.

`OneTypeInfoPerTerm`, `WalksAreSettled` and `ClashesNever` need that builtin type
infos are stored under their own terms (`BuiltinsInPlace`). The code stores two
under each other's (`SwappedBuiltins.cfg`), so the theorems speak of the programs
that do not use these two, as the run does. With it each ready term is entered under
the UUID of its own type info or waits in the list of those to be entered
(`EnteredInv`), no UUID is entered twice, and what was answered stays what the table
holds (`HeldInv`).

`FramesProofs` proves for any registers, methods, programs and bounds on the stack
that a method finds again what it had (`LocalsKept`), and that a collection and a
growth find what the frames hold (`ReferencesFound`, `PointersFound`). The properties
speak of the youngest frame or of one moment; the invariant (`ContentsInv`) speaks of
every frame at all times: what a frame has put into a slot is there; what it has put
into a register is in the register file unless a younger frame saves that register,
and then it is in the first younger frame that does. Entering a frame makes it the last of
the keepers, leaving it puts back what it kept, and both agree with the walk of
`RegistersTable` (`Locations`). A walk of the runtime updates the words at the locations
of the places whose kind it is for, so a place keeps its value if its location is among
them, and a word of another kind is not touched wherever it is (`Moves`). `ModeInv` and `ShapeInv` say which frames have finished their prologue, and that a
caller holds no volatile register unless the call was a thunk, which keeps them; `DumpInv` that the dump made before a growth is still what the registers hold.
The hypothesis `EveryCheckHasAStatePoint` is that the program has no checked
conversion: these have no state point, the walk skips their frames, and the
property then fails (`CheckedConversion.cfg`). With the hypothesis the property of that configuration is proved as well
(`InfoFound`). `MethodsAssumption` asks what the rewriter gives: that a
method saves a register once, only nonvolatile ones, and computes in no others.

`RewriterProofs` proves for any program, whatever its fields, types and methods
resolve to and whatever registers its instructions share, that an operation that may allocate,
call or throw has the state point of its instruction right behind it (`PointsFollowCode`), and that a
try block covers the operations of its instructions and no others (`TryBlocksFollowCode`, with the
exception its property names). The first half is a table of cases: `ExpansionIsGood` goes through
every `Expand...` definition, for any arguments, and shows that what a callback emits is a list of
operations, bound labels of the instruction itself and state points, in which each safe point is followed at once by
a state point. The second half is induction along the list (`EmitAll`): positions grow by the sizes, a label is where the emitter
stood when it was bound, and each state point behind the operation before it. The inductive invariant (`CodeInv`) says
it of the code as far as it has been read: the cursor is at the start of an instruction; each earlier
instruction has its label; its operations lie between this label and the next one, in order; labels that
are bound are those of instructions read and those inside them. A lookup by offset (`Arrived`, `HandledBy`) then compares positions
of operations with positions of labels. The hypothesis `ProgramsAreRead` is what the parser gives of
code the compiler wrote: at the start of each instruction it reads the callback that was
meant, with the arguments that were written, and stops where the next instruction starts. It is about LEB
numbers and formats, and TLC evaluates it for every program of `MCRewriter`
(`MCProgramsAreRead`).

`TermsProofs` proves for any definitions, references and presented type infos, and any number of
sessions, that a type has one term in the table (`TypesAreOneTerm`) and that nothing in the table
belongs to a session (`TableOutlivesSessions`). The functions of `TermAlgebra` are
recursive over data. The proofs begin with the equations of these functions: for every
level of nesting there is one function that satisfies them (`LevelsExist` and the lemmas behind it), by an
induction stated with the set of the levels that have the property. Resolution is treated
alike, over the references in an order in which each comes behind its parts. What every
operation makes is a well-made term: each subterm is builtin and known by its
identifier, of the session, or interned. The inductive invariant (`Inductive`) says this of all
terms that sessions hold or globalize, and that the table has its own subterms and one entry for an identifier and
subterms. A walk keeps it because what it looks up has no local subterms left.

`TermsStayRight` is about what terms say. Resolution gives what the reference denotes,
substitution the instance, interning leaves the structure alone; and in each subterm the flags fit
(`Sound`): it is a reference when values of the type are, generic when it has variables. That
substitution keeps this needs that a variable is a reference and is replaced by one or boxed, and that an option
is decided by the first argument it depends on. The theorem has the hypothesis `FilesAgree`: files and runtime
do not contradict each other on a type. Its first part excludes a definition whose arguments are missing, its
last the tuples and C pointers of the runtime; `TermFindings.cfg` shows that without them the property
fails. TLC evaluates `FilesAgree` for the definitions and references of `MCTerms` (`MCFilesAgree`).
The inductive invariant is `InductiveRight`.

`MatchesAreInstances` is about the matcher, which binds variables on its way through two terms and stops
at the first difference. `MatchLeads` says what holds from any state of its vector: if it goes on to the end,
the variables it has bound are those of the pattern, each to a subterm, and whatever agrees with them makes the
term; and no binding that makes the term is missed. Of the terms this needs that the matched one
has no variable (`IsClosed`), so that the shortcut for equal pointers cannot skip one. What was bound is then substituted
as for `TermsStayRight`, and the result is not nested deeper than the term (`SubstitutedIsTerm`).
The theorem has a second hypothesis, `ExtensionsUseTheirVariables`: an extension uses all of its variables in the type
it extends, as the assertion in `BuildTable` expects of the language. TLC evaluates it along with `FilesAgree`.
`NilAssumption` is only there because the prover does not know of a literal that it is in `STRING`.

The types of the variables (`TypeOK`) of `FunctionHandles`, `MoveResolver`,
`TypeInfos` and `Frames` are proved and not among the properties of the runs. The
inductive invariants of `TypeInfos`, `Startup`, `Frames` and `Rewriter` were checked by TLC on the
instances of their runs (that of `TypeInfos` on seven of the terms) before they were proved.

**Only model-checked:** the four liveness properties (fairness and `ENABLED` are
beyond the prover); `FieldLayouts`, what the layout of a single type is;
`MethodTables` and `VirtualCalls`, and `Operations` and `Interpreter`, whose recursive operators (and
bits) the prover does not take; `Emitter`; and `InstructionsMeanTheSource` of `Rewriter`, where what
is to be shown is that each of the many sequences of operations computes what its instruction does.

## 6. Assumptions and what is left out

- The compiler's own information is right: what a frame holds at a position is
  what the bytecode's liveness says. Files are well formed, their terms not
  circular.
- A UUID of the runtime stands for one type; compiled code keeps the registers
  the calling convention names.
- There is no collection while the stack is being expanded or while a prologue
  links its method.
- Memory is sequentially consistent but in `Startup`. The bytecode pointer is an ordinary field,
  read without a lock: `FunctionHandles` shows that each order of the accesses is
  harmless, not that the compiler and the processor preserve the order of the
  stores behind the pointer.
- In `Frames`: derived pointers and their pairs, arguments on the stack, the
  search through try blocks, line numbers. `Params` of a method are what its
  parameter bitmap says.
- In `TypeInfos`: the contents of the structures, layouts and method tables.
- In `TermAlgebra`: hashes, fixed-size promises, the texts of failures. Local
  terms are values; sharing among local terms of one session does not show, since
  globalizing replaces subterms by equal ones.
- In `Startup`: reading of the options, unloading, error texts; in `Rewriter`: line
  tables, bitmaps of live registers; in `Operations`: what the FPU computes.
- Not modelled at all: the placement of parameters (`abi.h`, `c_abi.cpp`), the tables
  of files, wrappers around single services of the
  runtime, the scheduling of spawned threads, options, logging, containers, the
  disassembler, tools. The other platforms repeat the assembly in other
  registers.

## 7. Plan

*Done*: all modules above; proofs of `FunctionHandles`, `MoveResolver`, `TypeInfos`,
`Frames`, `Startup`, `Statics`, `Rewriter` and `Terms`.

1. `Emitter`: that what is decoded is what was emitted, encoding by encoding, for any
   radix.
2. `FieldLayouts`: that `AddField` keeps a new field behind the earlier ones, aligned
   to its alignment, for any sizes and powers of two.
3. `Abi`: places of parameters are disjoint, caller and callee agree, bitmaps name
   the places that hold pointers. With `Frames`, parameters on the stack.
