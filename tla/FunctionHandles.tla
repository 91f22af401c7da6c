--------------------------- MODULE FunctionHandles ---------------------------
(***************************************************************************)
(* Function handles: how a method of a CBC file gets its bytecode.         *)
(*                                                                         *)
(* Every method that can be called has one function handle (FUH), built by *)
(* FunctionHandleManager::AcquireTagged under the manager's lock.  The     *)
(* bytecode of a handle is produced on its first call: the call adapter    *)
(* (perform_2i_call, in assembly) reads fuh->bytecode without a lock and,  *)
(* when it is null, calls engine_prepare_bytecode, which rewrites the      *)
(* method under the handle's own lock and publishes the result.  A method  *)
(* that cannot be rewritten runs the helper ThrowSymbolResolutionError in  *)
(* its place; the adapter then replaces the handle in the frame.           *)
(*                                                                         *)
(* Sources: interpreter/function_handle.cpp, runtimesupport/impl/          *)
(* adapters.cpp, entrypoint.cpp (who calls), typeinfo_factory.cpp          *)
(* (GetTableMember), resolution/resolution.cpp (direct calls) and          *)
(* arch_os/x86_64_linux/trampolines.S.                                     *)
(***************************************************************************)
EXTENDS Naturals, Sequences

CONSTANTS
  Threads,
  Cbc,               \* methods with code in a CBC file
  Aot,               \* methods compiled ahead of time
  Abstract,          \* abstract methods: no handle of their own
  Refs,              \* Refs[m]: the methods the code of m refers to, in order
  Broken,            \* methods of Cbc with a symbol that does not resolve
  Unlinked,          \* methods of Aot whose linkage name is not found
  HelperMethod,      \* HelperMethod[h]: the method of $P$cbc-intrinsics
  Main,              \* the entry point of a program run by a launcher
  Initialisers,      \* the package initialisers of the patches, in file order
  TrampolineCount,   \* TRAMPOLINE_COUNT
  MaxDepth,          \* bound: interpreter frames of one thread
  MaxCalls,          \* bound: calls made, by all threads together
  None

Helper == {"ThrowAbstractMethodCallError", "ThrowSymbolResolutionError"}

Callable == Cbc \cup Aot
Methods == Callable \cup Abstract

ASSUME MethodsAssumption ==
  /\ Cbc \cap Aot = {} /\ Callable \cap Abstract = {}
  /\ Broken \subseteq Cbc /\ Unlinked \subseteq Aot
  /\ Main \in Callable /\ Initialisers \in Seq(Callable)
  /\ Refs \in [Cbc -> Seq(Methods)]
  /\ HelperMethod \in [Helper -> Cbc]

ASSUME BoundsAssumption ==
  TrampolineCount \in Nat /\ MaxDepth \in Nat /\ MaxCalls \in Nat

\* A handle is an object of its own: two threads that both built one for the
\* same method would hold different handles.
Fuh == [method : Callable, maker : Threads]

\* The result of one rewriting: ExecBytecodeInfo.  Its literals hold the
\* handles of the methods it calls.
Code == [owner : Fuh, by : Threads, literals : SUBSET Fuh]

\* What the frame of an interpreted method records: the handle in its FUH slot
\* and the code its reader and literals point into.  "called" is the handle
\* the call was made through.
Frame == [called : Fuh, fuh : Fuh, code : Code]

\* PreparationResult
Result == [success : BOOLEAN, fuh : Fuh, info : Code]

\* A call of AcquireTagged: the method, and what its caller goes on to do.
Request == [method : Callable, next : {"prepare", "trampoline", "rewrite"}]

ASSUME NoneAssumption ==
  None \notin Threads \cup Fuh \cup Code \cup Result \cup Request \cup Helper
------------------------------------------------------------------------------
VARIABLES
  status,        \* "up", or how the process died: "assert" or "fatal"
  fuhMap,        \* Impl::fuhMap
  mapLock,       \* owner of Impl::lock
  helpers,       \* Impl::helpers
  bytecode,      \* fuh->bytecode
  fuhLock,       \* owner of fuh->lock
  directFuhs,    \* engine_universal_direct_function_handles
  exported,      \* <<trampoline, handle>>: pointers handed out of the engine
  pc,            \* where a thread is
  job,           \* what it is there for: "launch" or "call"
  todo,          \* helpers a launch has still to prepare
  entries,       \* entry points a launch has still to hand out
  helping,       \* the helper being prepared
  request,       \* what AcquireTagged was called for, and where it returns to
  cur,           \* the handle being prepared, called or exported
  pending,       \* references the rewriting has still to resolve
  literals,      \* handles it has resolved
  result,        \* what Prepare returned
  stack,         \* interpreter frames, innermost last
  calls          \* calls made so far

launching == <<todo, entries, helping>>
rewriting == <<pending, literals, result>>
guest == <<stack, calls>>
shared == <<fuhMap, mapLock, helpers, bytecode, fuhLock, directFuhs, exported>>
vars == <<status, shared, pc, job, cur, launching, request, rewriting, guest>>

Labels ==
  {"out", "helpers", "acquire", "build", "trampoline", "enter", "prepare",
   "rewrite", "prepared", "setHelper"}

Init ==
  /\ status = "up"
  /\ fuhMap = [m \in Callable |-> None]
  /\ mapLock = None
  /\ helpers = [h \in Helper |-> None]
  /\ bytecode = [h \in Fuh |-> None]
  /\ fuhLock = [h \in Fuh |-> None]
  /\ directFuhs = <<>>
  /\ exported = {}
  /\ pc = [t \in Threads |-> "out"]
  /\ job = [t \in Threads |-> "idle"]
  /\ todo = [t \in Threads |-> {}]
  /\ entries = [t \in Threads |-> <<>>]
  /\ helping = [t \in Threads |-> None]
  /\ request = [t \in Threads |-> None]
  /\ cur = [t \in Threads |-> None]
  /\ pending = [t \in Threads |-> <<>>]
  /\ literals = [t \in Threads |-> {}]
  /\ result = [t \in Threads |-> None]
  /\ stack = [t \in Threads |-> <<>>]
  /\ calls = 0

At(t, label) == status = "up" /\ pc[t] = label
Goto(t, label) == pc' = [pc EXCEPT ![t] = label]

\* As Goto, and the handle the thread worked on is a local that dies.
Leave(t, label) == Goto(t, label) /\ cur' = [cur EXCEPT ![t] = None]

\* A failed ASSERT or a FATAL: the process is gone and nothing moves any more.
Die(how) == status' = how
------------------------------------------------------------------------------
(***************************************************************************)
(* AcquireTagged.  The manager's lock is held from the lookup to the       *)
(* insertion; a hit is one critical section, a miss takes two steps, so    *)
(* that another thread may come in between and find the lock taken.        *)
(***************************************************************************)

Acquire(t, m, next) ==
  /\ request' = [request EXCEPT ![t] = [method |-> m, next |-> next]]
  /\ Goto(t, "acquire")

\* AcquireTagged returns handle h to its caller.
Deliver(t, h) ==
  /\ Goto(t, request[t].next)
  /\ request' = [request EXCEPT ![t] = None]
  /\ IF request[t].next = "rewrite"
     THEN /\ literals' = [literals EXCEPT ![t] = @ \cup {h}]
          /\ pending' = [pending EXCEPT ![t] = Tail(@)]
          /\ UNCHANGED cur
     ELSE /\ cur' = [cur EXCEPT ![t] = h]
          /\ UNCHANGED <<literals, pending>>

\* Mutant: the lookup and the insertion are no longer one critical section.
MapUnguarded == TRUE

MapFree == mapLock = None

AcquireHit(t) ==
  /\ At(t, "acquire") /\ MapFree
  /\ fuhMap[request[t].method] # None
  /\ Deliver(t, fuhMap[request[t].method])
  /\ UNCHANGED <<status, shared, job, launching, result, guest>>

AcquireMiss(t) ==
  /\ At(t, "acquire") /\ MapFree
  /\ fuhMap[request[t].method] = None
  /\ mapLock' = t
  /\ Goto(t, "build")
  /\ UNCHANGED <<status, fuhMap, helpers, bytecode, fuhLock, directFuhs,
                 exported, job, cur, launching, request, rewriting, guest>>

\* newStaticFuh or newDynFuh, and the insertion.
Build(t) ==
  LET h == [method |-> request[t].method, maker |-> t]
  IN  /\ At(t, "build")
      /\ fuhMap' = [fuhMap EXCEPT ![h.method] = h]
      /\ mapLock' = None
      /\ Deliver(t, h)
      /\ UNCHANGED <<status, helpers, bytecode, fuhLock, directFuhs, exported,
                     job, launching, result, guest>>
------------------------------------------------------------------------------
(***************************************************************************)
(* Prepare.  fuh->lock is held from the check of fuh->bytecode to the      *)
(* return; the rewriting takes the manager's lock for each direct call and *)
(* each row of a method table it meets.                                    *)
(***************************************************************************)

\* Mutant: Prepare does not wait for another thread that is in it.
HandleUnguarded(t) == TRUE

HandleFree(t) == fuhLock[cur[t]] = None

\* Mutant: an exit of Prepare that forgets the lock.
KeepHandle(t) == UNCHANGED fuhLock

ReleaseHandle(t) == fuhLock' = [fuhLock EXCEPT ![cur[t]] = None]

\* Mutant: Rewrite ignores what it could not resolve.
ResolvesAnyway(t) == TRUE

\* Rewrite met no symbol that does not resolve.
Resolves(t) == cur[t].method \notin Broken

PrepareHit(t) ==
  /\ At(t, "prepare") /\ HandleFree(t)
  /\ bytecode[cur[t]] # None
  /\ result' = [result EXCEPT ![t] =
                  [success |-> TRUE, fuh |-> cur[t], info |-> bytecode[cur[t]]]]
  /\ Goto(t, "prepared")
  /\ UNCHANGED <<status, shared, job, cur, launching, request, pending,
                 literals, guest>>

PrepareMiss(t) ==
  /\ At(t, "prepare") /\ HandleFree(t)
  /\ bytecode[cur[t]] = None
  /\ fuhLock' = [fuhLock EXCEPT ![cur[t]] = t]
  /\ pending' = [pending EXCEPT ![t] = Refs[cur[t].method]]
  /\ literals' = [literals EXCEPT ![t] = {}]
  /\ Goto(t, "rewrite")
  /\ UNCHANGED <<status, fuhMap, mapLock, helpers, bytecode, directFuhs,
                 exported, job, cur, launching, request, result, guest>>

\* A reference to a method that can be called: its handle becomes a literal.
RewriteReference(t) ==
  /\ At(t, "rewrite") /\ pending[t] # <<>>
  /\ Head(pending[t]) \in Callable
  /\ Acquire(t, Head(pending[t]), "rewrite")
  /\ UNCHANGED <<status, shared, job, cur, launching, rewriting, guest>>

\* A row of a method table with an abstract method: GetHelper stands in.
RewriteAbstract(t) ==
  LET helper == helpers["ThrowAbstractMethodCallError"]
  IN  /\ At(t, "rewrite") /\ pending[t] # <<>>
      /\ Head(pending[t]) \in Abstract
      /\ pending' = [pending EXCEPT ![t] = Tail(@)]
      /\ IF helper = None
         THEN Die("assert") /\ UNCHANGED literals
         ELSE /\ literals' = [literals EXCEPT ![t] = @ \cup {helper}]
              /\ UNCHANGED status
      /\ UNCHANGED <<shared, pc, job, cur, launching, request, result, guest>>

\* Every instruction was rewritten: the code is published and the lock freed.
Publish(t) ==
  LET info == [owner |-> cur[t], by |-> t, literals |-> literals[t]]
  IN  /\ At(t, "rewrite") /\ pending[t] = <<>>
      /\ Resolves(t)
      /\ bytecode' = [bytecode EXCEPT ![cur[t]] = info]
      /\ ReleaseHandle(t)
      /\ result' = [result EXCEPT ![t] =
                      [success |-> TRUE, fuh |-> cur[t], info |-> info]]
      /\ literals' = [literals EXCEPT ![t] = {}]
      /\ Goto(t, "prepared")
      /\ UNCHANGED <<status, fuhMap, mapLock, helpers, directFuhs, exported,
                     job, cur, launching, request, pending, guest>>

\* Rewrite reported failures once the whole body was parsed: the code of the
\* error helper is returned instead.  Nothing is cached.
RewriteFails(t) ==
  LET helper == helpers["ThrowSymbolResolutionError"]
  IN  /\ At(t, "rewrite") /\ pending[t] = <<>>
      /\ ~Resolves(t)
      /\ IF helper = None
         THEN Die("assert") /\ UNCHANGED <<pc, fuhLock, literals, result>>
         ELSE /\ ReleaseHandle(t)
              /\ result' = [result EXCEPT ![t] =
                   [success |-> FALSE, fuh |-> helper, info |-> bytecode[helper]]]
              /\ literals' = [literals EXCEPT ![t] = {}]
              /\ Goto(t, "prepared")
              /\ UNCHANGED status
      /\ UNCHANGED <<fuhMap, mapLock, helpers, bytecode, directFuhs, exported,
                     job, cur, launching, request, pending, guest>>
------------------------------------------------------------------------------
(***************************************************************************)
(* Launch: FindAndPrepareHelpers, then AcquireTagged and                   *)
(* GetFunctionPtrForDirectCall for each entry point.  A launcher asks for  *)
(* main (engine_get_entrypoint_trampoline), PerformPatching for the        *)
(* package initialisers it writes into function tables of the runtime.     *)
(***************************************************************************)

\* Mutant: a launch that hands out its entry points at once.
NoHelpers == {}

LaunchHelpers == Helper

Launch(t) ==
  /\ At(t, "out") /\ job[t] = "idle"
  /\ job' = [job EXCEPT ![t] = "launch"]
  /\ todo' = [todo EXCEPT ![t] = LaunchHelpers]
  /\ \E es \in {<<Main>>, Initialisers} : entries' = [entries EXCEPT ![t] = es]
  /\ Goto(t, "helpers")
  /\ UNCHANGED <<status, shared, cur, helping, request, rewriting, guest>>

\* The helpers are met in the order of an unordered map.
NextHelper(t) ==
  /\ At(t, "helpers")
  /\ \E h \in todo[t] :
       /\ helping' = [helping EXCEPT ![t] = h]
       /\ Acquire(t, HelperMethod[h], "prepare")
  /\ UNCHANGED <<status, shared, job, cur, todo, entries, rewriting, guest>>

\* FindAndPrepareHelper: a helper that cannot be prepared is fatal.
HelperPrepared(t) ==
  /\ At(t, "prepared") /\ job[t] = "launch"
  /\ IF result[t].success
     THEN /\ result' = [result EXCEPT ![t] = None]
          /\ Goto(t, "setHelper")
          /\ UNCHANGED status
     ELSE Die("fatal") /\ UNCHANGED <<pc, result>>
  /\ UNCHANGED <<shared, job, cur, launching, request, pending, literals, guest>>

\* A plain store, under no lock of the manager.
SetHelper(t) ==
  /\ At(t, "setHelper")
  /\ helpers' = [helpers EXCEPT ![helping[t]] = cur[t]]
  /\ todo' = [todo EXCEPT ![t] = @ \ {helping[t]}]
  /\ helping' = [helping EXCEPT ![t] = None]
  /\ Leave(t, "helpers")
  /\ UNCHANGED <<status, fuhMap, mapLock, bytecode, fuhLock, directFuhs,
                 exported, job, entries, request, rewriting, guest>>

NextEntry(t) ==
  /\ At(t, "helpers") /\ todo[t] = {} /\ entries[t] # <<>>
  /\ Acquire(t, Head(entries[t]), "trampoline")
  /\ entries' = [entries EXCEPT ![t] = Tail(@)]
  /\ UNCHANGED <<status, shared, job, cur, todo, helping, rewriting, guest>>

Launched(t) ==
  /\ At(t, "helpers") /\ todo[t] = {} /\ entries[t] = <<>>
  /\ job' = [job EXCEPT ![t] = "call"]
  /\ Goto(t, "out")
  /\ UNCHANGED <<status, shared, cur, launching, request, rewriting, guest>>

\* Mutant: the search takes the first trampoline there is.
AnyTrampoline(h) == DOMAIN directFuhs

TrampolinesOf(h) == {i \in DOMAIN directFuhs : directFuhs[i] = h}

TrampolineLeft == Len(directFuhs) < TrampolineCount

\* GetFunctionPtrForDirectCall: a static handle holds the function itself, a
\* dynamic one gets the trampoline with its index, a new one if need be.  The
\* mutex of the table is held throughout, and the table only grows.
DirectCallTrampoline(t) ==
  LET used == TrampolinesOf(cur[t])
      export(i) == exported' = exported \cup {<<i, cur[t]>>}
  IN  /\ At(t, "trampoline")
      /\ \/ /\ cur[t].method \in Aot
            /\ Leave(t, "helpers")
            /\ UNCHANGED <<status, directFuhs, exported>>
         \/ /\ cur[t].method \in Cbc /\ used # {}
            /\ export(CHOOSE i \in used : TRUE)
            /\ Leave(t, "helpers")
            /\ UNCHANGED <<status, directFuhs>>
         \/ /\ cur[t].method \in Cbc /\ used = {} /\ TrampolineLeft
            /\ directFuhs' = Append(directFuhs, cur[t])
            /\ export(Len(directFuhs) + 1)
            /\ Leave(t, "helpers")
            /\ UNCHANGED status
         \/ /\ cur[t].method \in Cbc /\ used = {} /\ ~TrampolineLeft
            /\ Die("fatal")
            /\ UNCHANGED <<pc, cur, directFuhs, exported>>
      /\ UNCHANGED <<fuhMap, mapLock, helpers, bytecode, fuhLock, job,
                     launching, request, rewriting, guest>>
------------------------------------------------------------------------------
(***************************************************************************)
(* Calls.                                                                  *)
(***************************************************************************)

CanCall(t) ==
  /\ At(t, "out")
  /\ Len(stack[t]) < MaxDepth /\ calls < MaxCalls

StartCall(t, h) ==
  /\ cur' = [cur EXCEPT ![t] = h]
  /\ job' = [job EXCEPT ![t] = "call"]
  /\ calls' = calls + 1
  /\ Goto(t, "enter")
  /\ UNCHANGED <<status, shared, launching, request, rewriting, stack>>

\* Compiled code jumps through a trampoline it was given: the handle is read
\* from the table, by index and without the mutex.
CallTrampoline(t) ==
  /\ CanCall(t)
  /\ \E e \in exported : StartCall(t, directFuhs[e[1]])

\* DIRECT_CALL_2I: the handle is a literal of the running code.
CallInterpreted(t) ==
  /\ CanCall(t) /\ stack[t] # <<>>
  /\ \E h \in stack[t][Len(stack[t])].code.literals :
       h.method \in Cbc /\ StartCall(t, h)

\* DIRECT_CALL_2C: a compiled callee returns, or comes back by a trampoline;
\* one that was not found when its handle was built is a fatal stub.
CallUnlinked(t) ==
  /\ At(t, "out") /\ stack[t] # <<>>
  /\ \E h \in stack[t][Len(stack[t])].code.literals : h.method \in Unlinked
  /\ Die("fatal")
  /\ UNCHANGED <<shared, pc, job, cur, launching, request, rewriting, guest>>

Push(t, f) == stack' = [stack EXCEPT ![t] = Append(@, f)]

\* perform_2i_call finds the bytecode: no lock is taken.
EnterLinked(t) ==
  /\ At(t, "enter")
  /\ bytecode[cur[t]] # None
  /\ Push(t, [called |-> cur[t], fuh |-> cur[t], code |-> bytecode[cur[t]]])
  /\ Leave(t, "out")
  /\ UNCHANGED <<status, shared, job, launching, request, rewriting,
                 calls>>

EnterUnlinked(t) ==
  /\ At(t, "enter")
  /\ bytecode[cur[t]] = None
  /\ Goto(t, "prepare")
  /\ UNCHANGED <<status, shared, job, cur, launching, request, rewriting,
                 guest>>

\* Mutant: the FUH slot still names the method that could not be linked.
UnpatchedHandle(t) == cur[t]

FrameHandle(t) == IF result[t].success THEN cur[t] ELSE result[t].fuh

\* engine_prepare_bytecode returned: on failure the FUH slot of the frame is
\* patched with the handle of the helper.
EnterPrepared(t) ==
  /\ At(t, "prepared") /\ job[t] = "call"
  /\ Push(t, [called |-> cur[t],
              fuh |-> FrameHandle(t),
              code |-> result[t].info])
  /\ Leave(t, "out")
  /\ result' = [result EXCEPT ![t] = None]
  /\ UNCHANGED <<status, shared, job, launching, request, pending, literals,
                 calls>>

Return(t) ==
  /\ At(t, "out") /\ stack[t] # <<>>
  /\ stack' = [stack EXCEPT ![t] = SubSeq(@, 1, Len(@) - 1)]
  /\ UNCHANGED <<status, shared, pc, job, cur, launching, request, rewriting,
                 calls>>
------------------------------------------------------------------------------
\* The steps of the engine itself, from the start of a request to its end.
EngineStep(t) ==
  \/ AcquireHit(t) \/ AcquireMiss(t) \/ Build(t)
  \/ PrepareHit(t) \/ PrepareMiss(t)
  \/ RewriteReference(t) \/ RewriteAbstract(t) \/ Publish(t) \/ RewriteFails(t)
  \/ NextHelper(t) \/ HelperPrepared(t) \/ SetHelper(t)
  \/ NextEntry(t) \/ Launched(t) \/ DirectCallTrampoline(t)
  \/ EnterLinked(t) \/ EnterUnlinked(t) \/ EnterPrepared(t)

\* The steps the program and its launcher choose.
GuestStep(t) ==
  \/ Launch(t)
  \/ CallTrampoline(t) \/ CallInterpreted(t) \/ CallUnlinked(t) \/ Return(t)

Next == \E t \in Threads : EngineStep(t) \/ GuestStep(t)

\* A thread inside the engine is not descheduled for ever; nothing obliges the
\* program to call or to return.
Fairness == \A t \in Threads : WF_vars(EngineStep(t))

Spec == Init /\ [][Next]_vars
FairSpec == Spec /\ Fairness
------------------------------------------------------------------------------
(***************************************************************************)
(* Properties.                                                             *)
(***************************************************************************)

TypeOK ==
  /\ status \in {"up", "assert", "fatal"}
  /\ fuhMap \in [Callable -> Fuh \cup {None}]
  /\ mapLock \in Threads \cup {None}
  /\ helpers \in [Helper -> Fuh \cup {None}]
  /\ bytecode \in [Fuh -> Code \cup {None}]
  /\ fuhLock \in [Fuh -> Threads \cup {None}]
  /\ directFuhs \in Seq(Fuh) /\ Len(directFuhs) <= TrampolineCount
  /\ exported \subseteq (1 .. Len(directFuhs)) \X Fuh
  /\ pc \in [Threads -> Labels]
  /\ job \in [Threads -> {"idle", "launch", "call"}]
  /\ todo \in [Threads -> SUBSET Helper]
  /\ entries \in [Threads -> Seq(Callable)]
  /\ helping \in [Threads -> Helper \cup {None}]
  /\ request \in [Threads -> Request \cup {None}]
  /\ cur \in [Threads -> Fuh \cup {None}]
  /\ pending \in [Threads -> Seq(Methods)]
  /\ literals \in [Threads -> SUBSET Fuh]
  /\ result \in [Threads -> Result \cup {None}]
  /\ stack \in [Threads -> Seq(Frame)]
  /\ calls \in 0 .. MaxCalls

\* A handle is the one its method has in the map.
IsTheHandle(h) == fuhMap[h.method] = h

\* A method has one handle, however many threads ask for it at once: every
\* handle a thread, a literal, the helpers or the trampolines hold is the one
\* in fuhMap.  (A second one would be prepared a second time, and the frames
\* and literals of the two copies would not compare equal.)
OneHandlePerMethod ==
  /\ \A h \in Helper : helpers[h] # None => IsTheHandle(helpers[h])
  /\ \A i \in DOMAIN directFuhs : IsTheHandle(directFuhs[i])
  /\ \A t \in Threads :
       /\ cur[t] # None => IsTheHandle(cur[t])
       /\ \A h \in literals[t] : IsTheHandle(h)
       /\ \A i \in DOMAIN stack[t] :
            \A h \in stack[t][i].code.literals : IsTheHandle(h)

\* Published bytecode is never replaced or withdrawn: perform_2i_call loads
\* fuh->bytecode again after a stack expansion and must find the same code.
BytecodeIsFinal ==
  [][\A h \in Fuh : bytecode[h] # None => bytecode'[h] = bytecode[h]]_vars

\* The handle in a frame's FUH slot is the one whose code the frame runs (the
\* garbage collector and the unwinder decode the frame by it), and that code
\* is the called method's own, or the error helper's if it cannot be linked.
FramesRunTheirCode ==
  \A t \in Threads : \A i \in DOMAIN stack[t] :
    LET f == stack[t][i]
    IN  /\ f.code = bytecode[f.fuh]
        /\ \/ f.fuh = f.called
           \/ /\ f.called.method \in Broken
              /\ f.fuh = helpers["ThrowSymbolResolutionError"]

\* A pointer handed out for a handle dispatches to that handle for ever: no
\* trampoline is given to two handles.
TrampolinesKeepTheirHandle ==
  \A e \in exported : directFuhs[e[1]] = e[2]

\* No guest code starts before every helper is set and has its code, so that
\* a method that cannot be linked finds one to run instead.
HelpersReady ==
  \A t \in Threads :
    pc[t] = "enter" \/ stack[t] # <<>> =>
      \A h \in Helper : helpers[h] # None /\ bytecode[helpers[h]] # None

\* ASSERT(handle != nullptr) of GetHelper never fails.
GetHelperNotNull == status # "assert"

\* A call that reached the engine gets to run code, unless the process dies:
\* no thread waits for ever for a lock, whoever holds it.
CallsProceed ==
  \A t \in Threads : pc[t] = "enter" ~> (pc[t] = "out" \/ status # "up")

\* The handles keep the promise of LazyCode.
Lazy ==
  INSTANCE LazyCode WITH
    ErrorMethod <- HelperMethod["ThrowSymbolResolutionError"],
    linked <- {m \in Cbc : fuhMap[m] # None /\ bytecode[fuhMap[m]] # None},
    running <- [t \in Threads |->
                  [i \in DOMAIN stack[t] |-> stack[t][i].code.owner.method]]

KeepsLazyCode == Lazy!Spec
==============================================================================
