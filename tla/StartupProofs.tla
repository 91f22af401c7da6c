----------------------------- MODULE StartupProofs -----------------------------
(***************************************************************************)
(* The engine is built once, the callbacks of the collector that see the   *)
(* flag see the engine, the main file is loaded once, and patched packages *)
(* are patched whole, for every set of hosts, whatever their calls, the    *)
(* options, the files and the libraries are.                               *)
(*                                                                         *)
(* The argument: from the test of the flag to the two stores, and while it *)
(* patches, a host holds the guard.  The stores leave in the order of the  *)
(* program only where the machine keeps it, which the second theorem       *)
(* assumes.                                                                *)
(***************************************************************************)
EXTENDS Startup, SequenceTheorems, FiniteSetTheorems, WellFoundedInduction, TLAPS

Building == {"scan", "main", "intrinsics", "build"}
Holding == Building \cup {"files"}
Labels == Holding \cup {"idle", "options", "symbols", "builtins", "options again", "guard", "patch"}

\* The labels of the hosts.
LabelInv ==
  /\ DOMAIN pc = Hosts
  /\ \A h \in Hosts : {"call", "at", "file", "patches", "stored"} \subseteq DOMAIN pc[h] /\ pc[h].at \in Labels

\* Who builds holds the guard, and the flag was not set when it took it.
GuardInv ==
  \A h \in Hosts : /\ pc[h].at \in Holding <=> guard = h
                   /\ pc[h].at \in Building => ~memory.initialized

MemoryInv == /\ memory.initialized \in BOOLEAN /\ memory.engine.built \in BOOLEAN
             /\ memory.initialized <=> memory.engine.built

Flag == [cell |-> "initialized", value |-> TRUE]

\* What is on its way to the collectors: nothing before the flag is set, then the
\* engine before the flag.
VisibleInv ==
  /\ {"engine", "initialized"} = DOMAIN visible
  /\ visible.initialized \in BOOLEAN /\ visible.engine.built \in BOOLEAN
  /\ visible.initialized => visible.engine.built
  /\ ~memory.initialized => stores = <<>>
  /\ \/ stores = <<>>
     \/ \E engine : engine.built = TRUE /\ stores = <<[cell |-> "engine", value |-> engine], Flag>>
     \/ visible.engine.built /\ stores = <<Flag>>
  /\ DOMAIN visits = Collectors
  /\ \A c \in Collectors : visits[c] # "no engine" /\ (visits[c] = "visiting" => visible.engine.built)

HostInv == LabelInv /\ GuardInv /\ MemoryInv

\* What a host does for the package at the head of its list.
Patches(h) == SkipPatch(h) \/ PatchFunction(h) \/ PatchFlag(h)

\* Host h goes to a label, the others stay.
Moved(h, label) ==
  /\ LabelInv'
  /\ pc'[h].at = label
  /\ \A g \in Hosts \ {h} : pc'[g].at = pc[g].at

(***************************************************************************)
(* Hosts.                                                                  *)
(***************************************************************************)

LEMMA GotoMoves == ASSUME LabelInv, NEW h \in Hosts, NEW label \in Labels, Goto(h, label)
                   PROVE  Moved(h, label)
  BY DEF LabelInv, Moved, Goto

LEMMA LeaveMoves == ASSUME LabelInv, NEW h \in Hosts, Leave(h) PROVE Moved(h, "idle")
  BY DEF LabelInv, Moved, Leave, Idle, Labels

\* A move that takes the guard, keeps it, leaves it alone or gives it up.
LEMMA GuardMoves ==
  ASSUME HostInv, NEW h \in Hosts, NEW label \in Labels, Moved(h, label), memory' = memory,
         \/ /\ guard' = guard
            /\ pc[h].at \in Holding <=> label \in Holding
            /\ label \in Building => pc[h].at \in Building
         \/ guard = None /\ guard' = h /\ label \in Holding /\ (label \in Building => ~memory.initialized)
         \/ pc[h].at \in Holding /\ guard' = None /\ label \notin Holding
  PROVE  HostInv'
<1>1. MemoryInv'
  BY DEF HostInv, MemoryInv
<1>2. ASSUME NEW g \in Hosts
      PROVE  (pc'[g].at \in Holding <=> guard' = g) /\ (pc'[g].at \in Building => ~memory'.initialized)
  <2>1. CASE g = h
    BY <2>1, NoneIsNoHost DEF HostInv, GuardInv, Moved, Holding
  <2>2. CASE g # h
    BY <2>2, NoneIsNoHost DEF HostInv, GuardInv, Moved
  <2> QED
    BY <2>1, <2>2
<1> QED
  BY <1>1, <1>2 DEF HostInv, GuardInv, Moved

LEMMA Stays == ASSUME HostInv, UNCHANGED <<pc, guard, memory>> PROVE HostInv'
  BY DEF HostInv, LabelInv, GuardInv, MemoryInv

LEMMA InitHost == Init => HostInv
<1> SUFFICES ASSUME Init PROVE HostInv
  OBVIOUS
<1>1. LabelInv
  <2>1. pc = [h \in Hosts |-> Idle]
    BY DEF Init
  <2> QED
    BY <2>1 DEF LabelInv, Idle, Labels
<1>2. \A h \in Hosts : pc[h].at = "idle" /\ guard = None
  BY DEF Init, Idle
<1>3. memory.initialized = FALSE /\ memory.engine.built = FALSE
  BY DEF Init, NotBuilt
<1> QED
  BY <1>1, <1>2, <1>3, NoneIsNoHost DEF HostInv, GuardInv, MemoryInv, Holding, Building

(***************************************************************************)
(* Steps.                                                                  *)
(***************************************************************************)

\* Patching a package is a matter of the host that holds the guard.
LEMMA PatchesMove ==
  ASSUME LabelInv, NEW h \in Hosts, Patches(h)
  PROVE  /\ pc[h].at = "files" /\ pc[h].patches # <<>> /\ Moved(h, "files")
         /\ pc'[h].file = pc[h].file /\ \A g \in Hosts : g # h => pc'[g] = pc[g]
         /\ UNCHANGED <<world, script, main, guard, loader, memory, visible, stores, visits>>
         /\ flags' = flags \/ flags' = [flags EXCEPT !.stopped = TRUE]
<1>1. pc[h].at = "files" /\ pc[h].patches # <<>>
  BY DEF Patches, SkipPatch, PatchFunction, PatchFlag, Patching, Anywhere
<1>2. /\ UNCHANGED <<world, script, main, guard, loader, memory, visible, stores, visits>>
      /\ flags' = flags \/ flags' = [flags EXCEPT !.stopped = TRUE]
  BY DEF Patches, SkipPatch, PatchFunction, PatchFlag, SetFlag, Fatal
<1>3. \/ pc' = pc
      \/ pc' = [pc EXCEPT ![h].patches = Tail(@), ![h].stored = {}]
      \/ \E i : pc' = [pc EXCEPT ![h].stored = @ \cup {i}]
  BY DEF Patches, SkipPatch, PatchFunction, PatchFlag, SetFlag, NextPatch
<1>4. /\ LabelInv' /\ pc'[h].at = pc[h].at /\ pc'[h].file = pc[h].file
      /\ \A g \in Hosts : g # h => pc'[g] = pc[g]
  BY <1>3 DEF LabelInv
<1> QED
  BY <1>1, <1>2, <1>4 DEF Moved

LEMMA HostSteps ==
  ASSUME HostInv, NEW h \in Hosts,
         \/ Call(h) \/ InitEnvOpts(h) \/ BridgeInit(h) \/ FillBuiltinTypeInfos(h) \/ OptionsAgain(h)
         \/ TakeGuard(h) \/ ScanDirectory(h) \/ LoadMain(h) \/ LoadIntrinsics(h)
         \/ PerformPatching(h) \/ NextFile(h) \/ Patches(h) \/ GetEntrypointTrampoline(h)
  PROVE  HostInv' /\ memory' = memory
<1> USE DEF Holding, Building, Labels
<1> LabelInv
  BY DEF HostInv
<1>1. CASE Call(h)
  <2>1. pc[h].at = "idle" /\ UNCHANGED <<guard, memory>>
    BY <1>1 DEF Call, Anywhere
  <2>2. Moved(h, "options")
    <3>1. PICK call : pc' = [pc EXCEPT ![h] = [Idle EXCEPT !.call = call, !.at = "options"]]
      BY <1>1 DEF Call
    <3> QED
      BY <3>1 DEF LabelInv, Moved, Idle
  <2> QED
    BY <2>1, <2>2, GuardMoves
<1>2. CASE InitEnvOpts(h)
  <2>1. pc[h].at = "options" /\ UNCHANGED <<guard, memory>>
    BY <1>2 DEF InitEnvOpts, Anywhere
  <2>2. PICK label \in {"symbols", "guard"} : Moved(h, label)
    BY <1>2, GotoMoves DEF InitEnvOpts, AfterOptions
  <2> QED
    BY <2>1, <2>2, GuardMoves
<1>3. CASE BridgeInit(h)
  <2>1. pc[h].at = "symbols" /\ UNCHANGED <<guard, memory>>
    BY <1>3 DEF BridgeInit, At
  <2>2. PICK label \in {"options again", "builtins", "idle"} : Moved(h, label)
    BY <1>3, GotoMoves, LeaveMoves DEF BridgeInit
  <2> QED
    BY <2>1, <2>2, GuardMoves
<1>4. CASE FillBuiltinTypeInfos(h)
  <2>1. pc[h].at = "builtins" /\ UNCHANGED <<guard, memory>>
    BY <1>4 DEF FillBuiltinTypeInfos, At
  <2>2. Moved(h, "idle")
    BY <1>4, LeaveMoves DEF FillBuiltinTypeInfos
  <2> QED
    BY <2>1, <2>2, GuardMoves
<1>5. CASE OptionsAgain(h)
  <2>1. pc[h].at = "options again" /\ UNCHANGED <<guard, memory>>
    BY <1>5 DEF OptionsAgain, Anywhere
  <2>2. Moved(h, "guard")
    BY <1>5, GotoMoves DEF OptionsAgain
  <2> QED
    BY <2>1, <2>2, GuardMoves
<1>6. CASE TakeGuard(h)
  <2>1. pc[h].at = "guard" /\ guard = None /\ memory' = memory
    BY <1>6 DEF TakeGuard, Anywhere
  <2>2. CASE memory.initialized
    <3>1. PICK label \in {"patch", "idle"} : Moved(h, label)
      BY <1>6, <2>2, GotoMoves, LeaveMoves DEF TakeGuard, Initialized
    <3>2. guard' = guard
      BY <1>6, <2>2 DEF TakeGuard
    <3> QED
      BY <2>1, <3>1, <3>2, GuardMoves
  <2>3. CASE ~memory.initialized
    <3>1. Moved(h, "scan") /\ guard' = h
      BY <1>6, <2>3, GotoMoves DEF TakeGuard
    <3> QED
      BY <2>1, <2>3, <3>1, GuardMoves
  <2> QED
    BY <2>2, <2>3
<1>7. CASE ScanDirectory(h)
  <2>1. pc[h].at = "scan" /\ UNCHANGED <<guard, memory>>
    BY <1>7 DEF ScanDirectory, Anywhere
  <2>2. Moved(h, "main") \/ pc' = pc
    BY <1>7, GotoMoves DEF ScanDirectory
  <2> QED
    BY <2>1, <2>2, GuardMoves, Stays
<1>8. CASE LoadMain(h)
  <2>1. pc[h].at = "main" /\ UNCHANGED <<guard, memory>>
    BY <1>8 DEF LoadMain, Anywhere
  <2>2. Moved(h, "intrinsics")
    BY <1>8, GotoMoves DEF LoadMain
  <2> QED
    BY <2>1, <2>2, GuardMoves
<1>9. CASE LoadIntrinsics(h)
  <2>1. pc[h].at = "intrinsics" /\ UNCHANGED <<guard, memory>>
    BY <1>9 DEF LoadIntrinsics, Anywhere
  <2>2. Moved(h, "build") \/ pc' = pc
    BY <1>9, GotoMoves DEF LoadIntrinsics
  <2> QED
    BY <2>1, <2>2, GuardMoves, Stays
<1>10. CASE PerformPatching(h)
  <2>1. pc[h].at = "patch" /\ guard = None /\ memory' = memory
    BY <1>10 DEF PerformPatching, At
  <2>2. \/ Moved(h, "builtins") /\ guard' = guard
        \/ Moved(h, "files") /\ guard' = h
        \/ pc' = pc /\ guard' = guard
    BY <1>10, GotoMoves DEF PerformPatching
  <2> QED
    BY <2>1, <2>2, GuardMoves, Stays
<1>11. CASE NextFile(h)
  <2>1. pc[h].at = "files" /\ memory' = memory
    BY <1>11 DEF NextFile, Anywhere
  <2>2. \/ Moved(h, "files") /\ guard' = guard
        \/ Moved(h, "builtins") /\ guard' = None
    <3>1. CASE pc[h].file < Len(Files)
      <4>1. /\ guard' = guard
            /\ pc' = [pc EXCEPT ![h].file = @ + 1,
                               ![h].patches = FileOf(Files[pc[h].file + 1].path).patches]
        BY <1>11, <3>1 DEF NextFile
      <4> QED
        BY <2>1, <4>1 DEF LabelInv, Moved
    <3>2. CASE ~(pc[h].file < Len(Files))
      BY <1>11, <3>2, GotoMoves DEF NextFile
    <3> QED
      BY <3>1, <3>2
  <2> QED
    BY <2>1, <2>2, GuardMoves
<1>12. CASE Patches(h)
  BY <1>12, PatchesMove, GuardMoves
<1>13. CASE GetEntrypointTrampoline(h)
  <2>1. pc[h].at = "options" /\ UNCHANGED <<guard, memory>>
    BY <1>13 DEF GetEntrypointTrampoline, At
  <2>2. Moved(h, "idle") \/ pc' = pc
    BY <1>13, LeaveMoves DEF GetEntrypointTrampoline
  <2> QED
    BY <2>1, <2>2, GuardMoves, Stays
<1> QED
  BY <1>1, <1>2, <1>3, <1>4, <1>5, <1>6, <1>7, <1>8, <1>9, <1>10, <1>11, <1>12, <1>13

LEMMA BuildStep == ASSUME HostInv, NEW h \in Hosts, Build(h)
                   PROVE  /\ HostInv'
                          /\ ~memory.initialized /\ memory'.initialized = TRUE
<1> USE DEF Holding, Building, Labels
<1> LabelInv
  BY DEF HostInv
<1>1. pc[h].at = "build" /\ guard' = None /\ memory'.initialized = TRUE /\ memory'.engine.built = TRUE
  BY DEF Build, Anywhere, Built
<1>2. guard = h /\ ~memory.initialized
  BY <1>1 DEF HostInv, GuardInv
<1>3. PICK label \in {"patch", "idle"} : Moved(h, label)
  BY GotoMoves, LeaveMoves DEF Build, Initialized
<1>4. ASSUME NEW g \in Hosts PROVE pc'[g].at \notin Holding
  <2>1. CASE g = h
    BY <1>3, <2>1 DEF Moved
  <2>2. CASE g # h
    BY <1>2, <1>3, <2>2 DEF HostInv, GuardInv, Moved
  <2> QED
    BY <2>1, <2>2
<1>5. GuardInv'
  BY <1>1, <1>4, NoneIsNoHost DEF GuardInv
<1> QED
  BY <1>1, <1>2, <1>3, <1>5 DEF HostInv, MemoryInv, Moved

LEMMA OtherSteps ==
  ASSUME \/ BecomeVisible \/ UNCHANGED vars
         \/ \E c \in Collectors : Callback(c) \/ VisitGlobalRoots(c)
  PROVE  UNCHANGED <<pc, guard, memory>>
  BY DEF BecomeVisible, vars, Callback, VisitGlobalRoots

LEMMA NextHost ==
  ASSUME HostInv, [Next]_vars
  PROVE  HostInv' /\ (memory' = memory \/ ~memory.initialized)
<1>1. CASE \E h \in Hosts : Build(h)
  BY <1>1, BuildStep
<1>2. CASE BecomeVisible \/ UNCHANGED vars \/ \E c \in Collectors : Callback(c) \/ VisitGlobalRoots(c)
  BY <1>2, OtherSteps, Stays
<1> QED
  BY <1>1, <1>2, HostSteps DEF Next, Patches

\* However many hosts initialise and patch, the engine that one of them has built, and
\* that GetEngineInstance has handed out, is never replaced (entrypoint.cpp:67-113).
THEOREM EngineStays == Spec => EngineIsNeverReplaced
<1>1. HostInv /\ [Next]_vars => [memory.engine.built => memory'.engine = memory.engine]_vars
  BY NextHost DEF HostInv, MemoryInv
<1>2. HostInv /\ [Next]_vars => HostInv'
  BY NextHost
<1> QED
  BY InitHost, <1>1, <1>2, PTL DEF Spec, EngineIsNeverReplaced

(***************************************************************************)
(* Callbacks.                                                              *)
(***************************************************************************)

LEMMA VisibleStays ==
  ASSUME VisibleInv, UNCHANGED <<memory, visible, stores, visits>>
  PROVE  VisibleInv'
  BY DEF VisibleInv

LEMMA NextVisible ==
  ASSUME StoresInOrder = TRUE, HostInv, VisibleInv, [Next]_vars
  PROVE  VisibleInv'
<1>1. CASE \E h \in Hosts : Build(h)
  <2>1. PICK h \in Hosts : Build(h)
    BY <1>1
  <2>2. ~memory.initialized /\ memory'.initialized = TRUE
    BY <2>1, BuildStep
  <2>3. stores = <<>> /\ UNCHANGED <<visible, visits>>
    BY <2>1, <2>2 DEF Build, VisibleInv
  <2>4. stores' = <<[cell |-> "engine", value |-> Built], Flag>>
    BY <2>1, <2>3 DEF Build, StoresOfBuild, Flag
  <2>5. Built.built = TRUE
    BY DEF Built
  <2> QED
    BY <2>2, <2>3, <2>4, <2>5 DEF VisibleInv
<1>2. CASE BecomeVisible
  <2>1. PICK i \in DOMAIN stores :
          Earlier(i) = {} /\ visible' = [visible EXCEPT ![stores[i].cell] = stores[i].value] /\ stores' = RemoveAt(stores, i)
    BY <1>2 DEF BecomeVisible
  <2>2. UNCHANGED <<memory, visits>>
    BY <1>2 DEF BecomeVisible
  <2>3. CASE \E engine : engine.built = TRUE /\ stores = <<[cell |-> "engine", value |-> engine], Flag>>
    <3>1. PICK engine : engine.built = TRUE /\ stores = <<[cell |-> "engine", value |-> engine], Flag>>
      BY <2>3
    <3>2. i = 1
      <4>1. i \in {1, 2}
        BY <2>1, <3>1
      <4>2. i = 2 => 1 \in Earlier(i)
        BY DEF Earlier
      <4> QED
        BY <2>1, <4>1, <4>2
    <3>3. visible' = [x \in {"engine", "initialized"} |-> IF x = "engine" THEN engine ELSE visible[x]]
      BY <2>1, <3>1, <3>2 DEF VisibleInv, Flag
    <3>4. stores' = <<Flag>>
      <4>1. Len(stores) = 2 /\ stores[2] = Flag
        BY <3>1
      <4>2. stores' = SubSeq(stores, 1, 0) \o SubSeq(stores, 2, 2)
        BY <2>1, <3>2, <4>1 DEF RemoveAt
      <4>3. SubSeq(stores, 1, 0) = <<>>
        BY SubSeqEmpty
      <4>4. SubSeq(stores, 2, 2) = <<Flag>>
        <5>1. \A k \in 2..2 : stores[k] \in {Flag}
          BY <4>1
        <5>2. /\ SubSeq(stores, 2, 2) \in Seq({Flag}) /\ Len(SubSeq(stores, 2, 2)) = 1
              /\ SubSeq(stores, 2, 2)[1] = stores[2]
          BY <5>1, SubSeqProperties
        <5>3. <<Flag>> \in Seq({Flag}) /\ Len(<<Flag>>) = 1 /\ <<Flag>>[1] = Flag
          OBVIOUS
        <5> DEFINE rest == SubSeq(stores, 2, 2)
        <5>4. \A k \in 1..Len(rest) : rest[k] = <<Flag>>[k]
          BY <4>1, <5>2, <5>3
        <5> HIDE DEF rest
        <5> QED
          BY <5>2, <5>3, <5>4, SeqEqual DEF rest
      <4>5. <<Flag>> \in Seq({Flag})
        OBVIOUS
      <4> QED
        BY <4>2, <4>3, <4>4, <4>5, ConcatEmptySeq
    <3>5. memory.initialized
      BY <3>1 DEF VisibleInv, HostInv, MemoryInv
    <3> QED
      BY <2>2, <3>1, <3>3, <3>4, <3>5 DEF VisibleInv
  <2>4. CASE visible.engine.built /\ stores = <<Flag>>
    <3>1. i = 1
      BY <2>1, <2>4
    <3>2. visible' = [x \in {"engine", "initialized"} |-> IF x = "initialized" THEN TRUE ELSE visible[x]]
      BY <2>1, <2>4, <3>1 DEF VisibleInv, Flag
    <3>3. stores' = <<>>
      BY <2>1, <2>4, <3>1 DEF RemoveAt
    <3> QED
      BY <2>2, <2>4, <3>2, <3>3 DEF VisibleInv
  <2>5. stores # <<>>
    BY <2>1
  <2> QED
    BY <2>3, <2>4, <2>5 DEF VisibleInv
<1>3. CASE \E c \in Collectors : Callback(c) \/ VisitGlobalRoots(c)
  <2>1. PICK c \in Collectors : Callback(c) \/ VisitGlobalRoots(c)
    BY <1>3
  <2>2. UNCHANGED <<memory, visible, stores>>
    BY <2>1 DEF Callback, VisitGlobalRoots
  <2>3. visible.engine.built
    BY <2>1 DEF Callback, VisitGlobalRoots, VisibleInv
  <2>4. \E where \in {"idle", "visiting"} : visits' = [visits EXCEPT ![c] = where]
    BY <2>1, <2>3 DEF Callback, VisitGlobalRoots
  <2> QED
    BY <2>2, <2>3, <2>4 DEF VisibleInv
<1>4. CASE UNCHANGED vars
  BY <1>4, VisibleStays DEF vars
<1>5. ASSUME NEW h \in Hosts,
             \/ Call(h) \/ InitEnvOpts(h) \/ BridgeInit(h) \/ FillBuiltinTypeInfos(h) \/ OptionsAgain(h)
             \/ TakeGuard(h) \/ ScanDirectory(h) \/ LoadMain(h) \/ LoadIntrinsics(h)
             \/ PerformPatching(h) \/ NextFile(h) \/ Patches(h) \/ GetEntrypointTrampoline(h)
      PROVE  VisibleInv'
  <2>1. memory' = memory
    BY <1>5, HostSteps
  <2>2. UNCHANGED <<visible, stores, visits>>
    BY <1>5, PatchesMove
       DEF Call, InitEnvOpts, BridgeInit, FillBuiltinTypeInfos, OptionsAgain, TakeGuard, ScanDirectory,
           LoadMain, LoadIntrinsics, PerformPatching, NextFile, GetEntrypointTrampoline, HostInv
  <2> QED
    BY <2>1, <2>2, VisibleStays
<1> QED
  BY <1>1, <1>2, <1>3, <1>4, <1>5 DEF Next, Patches

LEMMA InitVisible == Init => VisibleInv
<1> SUFFICES ASSUME Init PROVE VisibleInv
  OBVIOUS
<1>1. visible = [engine |-> NotBuilt, initialized |-> FALSE] /\ stores = <<>>
  BY DEF Init
<1>2. visits = [c \in Collectors |-> "idle"]
  BY DEF Init
<1> QED
  BY <1>1, <1>2 DEF VisibleInv, NotBuilt

\* Where stores become visible in the order of the program, a callback of the collector
\* that reads g_Initialized without the guard, and finds it set, finds the engine
\* (entrypoint.cpp:230-284, engine.cpp:310-315).
THEOREM CallbacksAreSafe ==
  ASSUME StoresInOrder = TRUE
  PROVE  Spec => []CallbacksFindTheEngine
<1>1. HostInv /\ VisibleInv /\ [Next]_vars => (HostInv /\ VisibleInv)'
  BY NextHost, NextVisible
<1>2. VisibleInv => CallbacksFindTheEngine
  BY DEF VisibleInv, CallbacksFindTheEngine
<1> QED
  BY InitHost, InitVisible, <1>1, <1>2, PTL DEF Spec

(***************************************************************************)
(* The files.  The third argument: what the engine knows of the file at a  *)
(* place of its list is what that file says, because a file that is        *)
(* refused uses up no number; and the main file does not change once the   *)
(* options are read, which is before any file is.                          *)
(***************************************************************************)

LoadedFile == [id : Nat, path : DOMAIN Disk]

\* The list of files and the list of their contents go together.
Numbered(files, rafs) ==
  /\ files \in Seq(LoadedFile) /\ rafs \in Seq(DOMAIN Disk)
  /\ Len(files) = Len(rafs)
  /\ \A i \in 1..Len(files) : files[i].id = i - 1 /\ files[i].path = rafs[i]

Sound(loaded) ==
  /\ DOMAIN loaded = {"todo", "fileCounter", "files", "rafs"}
  /\ loaded.todo \subseteq DOMAIN Disk
  /\ Numbered(loaded.files, loaded.rafs)
  /\ loaded.fileCounter = Len(loaded.files)

FilesInv ==
  /\ world \in Worlds
  /\ Sound(loader)
  /\ Files \in Seq(LoadedFile)
  /\ DOMAIN memory.engine.deps = 1..Len(Files)
  /\ \A i \in 1..Len(Files) :
       Files[i].id = i - 1 /\ memory.engine.deps[i] = LibrariesOf(Files[i].path)
  /\ ~memory.initialized => Files = <<>>

FlagsInv ==
  /\ DOMAIN flags = {"options", "interface", "patched", "helpers", "builtins", "entry", "stopped"}
  /\ flags.options \in BOOLEAN /\ flags.patched \in BOOLEAN /\ flags.helpers \in BOOLEAN

NoMain(files) == \A i \in DOMAIN files : ~IsMain(files[i].path)
OneMain(files) ==
  \A i, j \in DOMAIN files : IsMain(files[i].path) /\ IsMain(files[j].path) => i = j

\* The options are read before the files, and the main file is loaded after the others.
MainInv ==
  /\ main \in {world.main, world.envMain}
  /\ memory.initialized => flags.options
  /\ \A h \in Hosts :
       /\ pc[h].at \notin {"idle", "options"} => flags.options
       /\ pc[h].at \in {"scan", "main"} => NoMain(loader.files)
       /\ pc[h].at \in {"intrinsics", "build"} => OneMain(loader.files)
  /\ OneMain(Files)
  /\ flags.entry # <<>> => flags.options
  /\ \A i \in DOMAIN flags.entry : IsMain(flags.entry[i].path)

\* The intrinsics are no program: neither the file that the launcher was given nor the
\* one that CBCOPT names.
IntrinsicsAreNotMain ==
  \A w \in Worlds : \A file \in {w.main, w.envMain} :
    file \in DOMAIN w.disk /\ w.intrinsics \in DOMAIN w.disk =>
      w.disk[file].inode # w.disk[w.intrinsics].inode

LEMMA LoadKeepsNumbers ==
  ASSUME NEW loaded, Sound(loaded), NEW path \in DOMAIN Disk
  PROVE  /\ Sound(Load(loaded, path))
         /\ Load(loaded, path).todo = loaded.todo
         /\ \/ Load(loaded, path).files = loaded.files
            \/ \E file \in LoadedFile : /\ file.path = path
                                        /\ Load(loaded, path).files = Append(loaded.files, file)
<1>1. CASE ~FileOf(path).valid
  BY <1>1 DEF Load
<1>2. CASE FileOf(path).valid
  <2> DEFINE file == [id |-> loaded.fileCounter, path |-> path]
             n == Len(loaded.files)
             files == Append(loaded.files, file)
             rafs == Append(loaded.rafs, path)
             r == Load(loaded, path)
  <2>1. loaded.files \in Seq(LoadedFile) /\ loaded.rafs \in Seq(DOMAIN Disk) /\ n \in Nat
        /\ Len(loaded.rafs) = n /\ loaded.fileCounter = n
    BY LenProperties DEF Sound, Numbered
  <2>2. file \in LoadedFile /\ file.id = n /\ file.path = path
    BY <2>1 DEF LoadedFile
  <2>3. r = [todo |-> loaded.todo, fileCounter |-> n + 1, files |-> files, rafs |-> rafs]
    BY <1>2, <2>1 DEF Load, Sound
  <2> HIDE DEF file, n, r
  <2>4. /\ files \in Seq(LoadedFile) /\ Len(files) = n + 1
        /\ \A i \in 1..(n + 1) : files[i] = IF i = n + 1 THEN file ELSE loaded.files[i]
    BY <2>1, <2>2, AppendProperties DEF n
  <2>5. /\ rafs \in Seq(DOMAIN Disk) /\ Len(rafs) = n + 1
        /\ \A i \in 1..(n + 1) : rafs[i] = IF i = n + 1 THEN path ELSE loaded.rafs[i]
    BY <2>1, AppendProperties
  <2>6. \A i \in 1..n : loaded.files[i].id = i - 1 /\ loaded.files[i].path = loaded.rafs[i]
    BY DEF Sound, Numbered, n
  <2>7. \A i \in 1..(n + 1) : files[i].id = i - 1 /\ files[i].path = rafs[i]
    <3> SUFFICES ASSUME NEW i \in 1..(n + 1) PROVE files[i].id = i - 1 /\ files[i].path = rafs[i]
      OBVIOUS
    <3>1. CASE i = n + 1
      BY <3>1, <2>1, <2>2, <2>4, <2>5
    <3>2. CASE i # n + 1
      <4>1. i \in 1..n /\ files[i] = loaded.files[i] /\ rafs[i] = loaded.rafs[i]
        BY <3>2, <2>1, <2>4, <2>5
      <4> QED
        BY <4>1, <2>6
    <3> QED
      BY <3>1, <3>2
  <2>8. Numbered(files, rafs)
    BY <2>4, <2>5, <2>7 DEF Numbered
  <2> HIDE DEF files, rafs
  <2>9. r.todo = loaded.todo /\ r.files = files /\ r.rafs = rafs /\ r.fileCounter = n + 1
        /\ DOMAIN r = {"todo", "fileCounter", "files", "rafs"}
    BY <2>3
  <2>10. Sound(r)
    BY <2>4, <2>8, <2>9 DEF Sound
  <2> QED
    BY <2>2, <2>9, <2>10 DEF r, files
<1> QED
  BY <1>1, <1>2

\* What an appended file does to the number of main files in a list.
LEMMA MainAppended ==
  ASSUME NEW files \in Seq(LoadedFile), NEW file \in LoadedFile
  PROVE  /\ NoMain(files) => OneMain(Append(files, file))
         /\ NoMain(files) /\ ~IsMain(file.path) => NoMain(Append(files, file))
         /\ OneMain(files) /\ ~IsMain(file.path) => OneMain(Append(files, file))
<1> DEFINE r == Append(files, file)
           n == Len(files)
<1>1. n \in Nat /\ DOMAIN files = 1..n
  BY LenProperties
<1>2. r \in Seq(LoadedFile) /\ Len(r) = n + 1
      /\ \A i \in 1..(n + 1) : r[i] = IF i = n + 1 THEN file ELSE files[i]
  BY AppendProperties
<1>3. DOMAIN r = 1..(n + 1)
  BY <1>2, LenProperties
<1> HIDE DEF r, n, LoadedFile, IsMain
<1>4. \A i \in DOMAIN r : (i = n + 1 /\ r[i] = file) \/ (i \in DOMAIN files /\ r[i] = files[i])
  <2> SUFFICES ASSUME NEW i \in 1..(n + 1)
               PROVE  (i = n + 1 /\ r[i] = file) \/ (i \in 1..n /\ r[i] = files[i])
    BY <1>1, <1>3
  <2> QED
    BY <1>1, <1>2
<1>5. NoMain(files) => OneMain(r)
  BY <1>4 DEF NoMain, OneMain
<1>6. NoMain(files) /\ ~IsMain(file.path) => NoMain(r)
  BY <1>4 DEF NoMain
<1>7. OneMain(files) /\ ~IsMain(file.path) => OneMain(r)
  BY <1>4 DEF OneMain
<1> QED
  BY <1>5, <1>6, <1>7 DEF r

LEMMA FilesStay ==
  ASSUME FilesInv, UNCHANGED <<world, loader, memory>>
  PROVE  FilesInv'
  BY DEF FilesInv, Sound, Numbered, LoadedFile, Files, LibrariesOf, FileOf, Disk

LEMMA NoElements == DOMAIN <<>> = {} /\ \A x : DOMAIN <<x>> = {1} /\ <<x>>[1] = x
  OBVIOUS

\* The first of some places in a list.
LEMMA MinOfPlaces ==
  ASSUME NEW S \in SUBSET Nat, S # {}
  PROVE  Min(S) \in S
<1> DEFINE Less == OpToRel(<, Nat)
<1>1. \A n, k \in Nat : k < n => <<k, n>> \in Less
  BY DEF OpToRel
<1>2. PICK n \in S : \A k \in S : <<k, n>> \notin Less
  BY NatLessThanWellFounded, WFMin
<1> HIDE DEF Less
<1>3. \A k \in S : n <= k
  <2>1. \A k \in S : k \in Nat /\ n \in Nat /\ ~(k < n)
    BY <1>1, <1>2
  <2> QED
    BY <2>1
<1> QED
  BY <1>3 DEF Min

\* Where a host may be before a step that reads or builds the list of files.
LEMMA FilesStep ==
  ASSUME HostInv, FilesInv, [Next]_vars
  PROVE  FilesInv'
<1> USE WorldsAssumption
<1> USE DEF Disk, Files
<1>1. ASSUME NEW h \in Hosts, TakeGuard(h), ~memory.initialized PROVE FilesInv'
  <2>1. loader' = [todo |-> world.directory, fileCounter |-> 0, files |-> <<>>, rafs |-> <<>>]
    BY <1>1 DEF TakeGuard, NothingLoaded
  <2>2. UNCHANGED <<world, memory>>
    BY <1>1 DEF TakeGuard
  <2>3. Numbered(<<>>, <<>>)
    BY EmptySeq DEF Numbered
  <2>4. Sound(loader')
    BY <2>1, <2>3 DEF Sound, FilesInv
  <2> QED
    BY <2>2, <2>4 DEF FilesInv, Sound, Numbered, LoadedFile, LibrariesOf, FileOf
<1>2. ASSUME NEW h \in Hosts, ScanDirectory(h) \/ LoadMain(h) \/ LoadIntrinsics(h) PROVE FilesInv'
  <2>1. UNCHANGED <<world, memory>>
    BY <1>2 DEF ScanDirectory, LoadMain, LoadIntrinsics
  <2>2. Sound(loader) /\ loader.todo \subseteq DOMAIN Disk
    BY DEF FilesInv, Sound
  <2>3. ASSUME NEW path \in loader.todo PROVE Sound([loader EXCEPT !.todo = @ \ {path}])
    BY <2>2 DEF Sound, Numbered
  <2>4. Sound(loader')
    <3>1. CASE ScanDirectory(h)
      <4>1. CASE loader' = loader
        BY <2>2, <4>1
      <4>2. CASE loader' # loader
        <5>1. PICK path \in loader.todo :
                loader' = IF Excluded(path) THEN [loader EXCEPT !.todo = @ \ {path}]
                          ELSE Load([loader EXCEPT !.todo = @ \ {path}], path)
          BY <3>1, <4>2 DEF ScanDirectory
        <5>2. path \in DOMAIN Disk
          BY <2>2
        <5> QED
          BY <2>3, <5>1, <5>2, LoadKeepsNumbers
      <4> QED
        BY <4>1, <4>2
    <3>2. CASE LoadMain(h)
      BY <2>2, <3>2, LoadKeepsNumbers DEF LoadMain
    <3>3. CASE LoadIntrinsics(h)
      BY <2>2, <3>3, LoadKeepsNumbers DEF LoadIntrinsics
    <3> QED
      BY <1>2, <3>1, <3>2, <3>3
  <2> QED
    BY <2>1, <2>4 DEF FilesInv, Sound, Numbered, LoadedFile, LibrariesOf, FileOf
<1>3. ASSUME NEW h \in Hosts, Build(h) PROVE FilesInv'
  <2>1. /\ memory'.engine.files = loader.files
        /\ memory'.engine.deps = [i \in DOMAIN loader.rafs |-> LibrariesOf(loader.rafs[i])]
        /\ memory'.initialized = TRUE
        /\ UNCHANGED <<world, loader>>
    BY <1>3 DEF Build, Built
  <2>2. /\ loader.files \in Seq(LoadedFile) /\ DOMAIN loader.rafs = 1..Len(loader.files)
        /\ \A i \in 1..Len(loader.files) :
             loader.files[i].id = i - 1 /\ loader.files[i].path = loader.rafs[i]
    BY LenProperties DEF FilesInv, Sound, Numbered
  <2>3. /\ DOMAIN memory'.engine.deps = 1..Len(loader.files)
        /\ \A i \in 1..Len(loader.files) :
             memory'.engine.deps[i] = LibrariesOf(loader.files[i].path)
    BY <2>1, <2>2
  <2>5. world \in Worlds /\ Sound(loader)
    BY DEF FilesInv
  <2>6. LoadedFile' = LoadedFile
    BY <2>1 DEF LoadedFile
  <2>7. Sound(loader)'
    <3>1. Disk' = Disk /\ loader' = loader
      BY <2>1 DEF Disk
    <3> QED
      BY <2>5, <2>6, <3>1 DEF Sound, Numbered
  <2> QED
    BY <2>1, <2>2, <2>3, <2>5, <2>6, <2>7 DEF FilesInv, LibrariesOf, FileOf
<1>4. CASE \E h \in Hosts : TakeGuard(h) /\ memory.initialized
  <2>1. UNCHANGED <<world, loader, memory>>
    BY <1>4 DEF TakeGuard
  <2> QED
    BY <2>1, FilesStay
<1>5. CASE \E h \in Hosts : \/ Call(h) \/ InitEnvOpts(h) \/ BridgeInit(h) \/ FillBuiltinTypeInfos(h)
                            \/ OptionsAgain(h) \/ PerformPatching(h) \/ NextFile(h) \/ Patches(h)
                            \/ GetEntrypointTrampoline(h)
  <2>1. UNCHANGED <<world, loader, memory>>
    BY <1>5, PatchesMove
       DEF Call, InitEnvOpts, BridgeInit, FillBuiltinTypeInfos, OptionsAgain, PerformPatching,
           NextFile, GetEntrypointTrampoline, HostInv
  <2> QED
    BY <2>1, FilesStay
<1>6. CASE BecomeVisible \/ UNCHANGED vars \/ \E c \in Collectors : Callback(c) \/ VisitGlobalRoots(c)
  <2>1. UNCHANGED <<world, loader, memory>>
    BY <1>6 DEF BecomeVisible, vars, Callback, VisitGlobalRoots
  <2> QED
    BY <2>1, FilesStay
<1> QED
  BY <1>1, <1>2, <1>3, <1>4, <1>5, <1>6 DEF Next, Patches

LEMMA FlagsStep ==
  ASSUME HostInv, FlagsInv, [Next]_vars
  PROVE  /\ FlagsInv'
         /\ flags.options => flags'.options
         /\ flags.helpers => flags'.helpers
<1> USE DEF FlagsInv
<1>1. ASSUME NEW h \in Hosts, InitEnvOpts(h) PROVE FlagsInv' /\ flags'.options = TRUE /\ flags'.helpers = flags.helpers
  BY <1>1 DEF InitEnvOpts
<1>2. ASSUME NEW h \in Hosts, BridgeInit(h) \/ FillBuiltinTypeInfos(h) \/ LoadIntrinsics(h) \/ NextFile(h)
      PROVE  FlagsInv' /\ flags'.options = flags.options /\ flags'.helpers = flags.helpers
  BY <1>2 DEF BridgeInit, FillBuiltinTypeInfos, LoadIntrinsics, NextFile, Fatal
<1>3. ASSUME NEW h \in Hosts, PerformPatching(h)
      PROVE  FlagsInv' /\ flags'.options = flags.options /\ (flags.helpers => flags'.helpers)
  BY <1>3 DEF PerformPatching, Fatal
<1>4. ASSUME NEW h \in Hosts, GetEntrypointTrampoline(h)
      PROVE  FlagsInv' /\ flags'.options = flags.options /\ (flags.helpers => flags'.helpers)
  <2>1. CASE flags' = [flags EXCEPT !.stopped = TRUE]
    BY <2>1
  <2>2. CASE flags' = [flags EXCEPT !.entry = FoundMain, !.helpers = @ \/ FoundMain # <<>>]
    BY <2>2
  <2> QED
    BY <2>1, <2>2, <1>4 DEF GetEntrypointTrampoline, Fatal
<1>5. ASSUME NEW h \in Hosts,
             \/ Call(h) \/ OptionsAgain(h) \/ TakeGuard(h) \/ ScanDirectory(h) \/ LoadMain(h) \/ Build(h)
      PROVE  flags' = flags
  BY <1>5 DEF Call, OptionsAgain, TakeGuard, ScanDirectory, LoadMain, Build
<1>6. ASSUME \/ BecomeVisible \/ UNCHANGED vars \/ \E c \in Collectors : Callback(c) \/ VisitGlobalRoots(c)
      PROVE  flags' = flags
  BY <1>6 DEF BecomeVisible, vars, Callback, VisitGlobalRoots
<1>7. ASSUME NEW h \in Hosts, Patches(h)
      PROVE  FlagsInv' /\ flags'.options = flags.options /\ flags'.helpers = flags.helpers
  BY <1>7, PatchesMove DEF HostInv
<1> QED
  BY <1>1, <1>2, <1>3, <1>4, <1>5, <1>6, <1>7 DEF Next, Patches

(***************************************************************************)
(* The main file.                                                          *)
(***************************************************************************)

\* A host only goes on, with the options read.
Calm(g) ==
  \/ pc'[g].at = pc[g].at
  \/ pc'[g].at \notin Building /\ (pc'[g].at \in {"idle", "options"} \/ flags.options)

LEMMA MainStays ==
  ASSUME MainInv, UNCHANGED <<world, main, loader, memory>>, flags'.entry = flags.entry,
         flags'.options = flags.options, \A g \in Hosts : Calm(g)
  PROVE  MainInv'
<1> USE DEF MainInv, IsMain, Disk, NoMain, OneMain, Building, Calm
<1>1. \A g \in Hosts :
        /\ pc'[g].at \notin {"idle", "options"} => flags.options
        /\ pc'[g].at \in {"scan", "main"} => NoMain(loader.files)
        /\ pc'[g].at \in {"intrinsics", "build"} => OneMain(loader.files)
  OBVIOUS
<1> QED
  BY <1>1 DEF Files

\* The label of a host before and after it moves.
LEMMA GotoGoes ==
  ASSUME LabelInv, NEW h \in Hosts, NEW label, Goto(h, label)
  PROVE  pc'[h].at = label /\ \A g \in Hosts : g # h => pc'[g] = pc[g]
  BY DEF LabelInv, Goto

LEMMA LeaveGoes ==
  ASSUME LabelInv, NEW h \in Hosts, Leave(h)
  PROVE  pc'[h].at = "idle" /\ \A g \in Hosts : g # h => pc'[g] = pc[g]
  BY DEF LabelInv, Leave, Idle

LEMMA CalmSteps ==
  ASSUME HostInv, FlagsInv, MainInv, NEW h \in Hosts,
         \/ Call(h) \/ BridgeInit(h) \/ FillBuiltinTypeInfos(h) \/ OptionsAgain(h)
         \/ (TakeGuard(h) /\ memory.initialized)
         \/ PerformPatching(h) \/ NextFile(h) \/ Patches(h)
  PROVE  MainInv'
<1> LabelInv
  BY DEF HostInv
<1> SUFFICES /\ UNCHANGED <<world, main, loader, memory>>
             /\ flags'.entry = flags.entry /\ flags'.options = flags.options
             /\ \A g \in Hosts : Calm(g)
  BY MainStays
<1>o. pc[h].at \notin {"idle", "options"} => flags.options
  BY DEF MainInv
<1> USE DEF FlagsInv, Building, Calm
<1>1. CASE Call(h)
  <2>1. PICK call : pc' = [pc EXCEPT ![h] = [Idle EXCEPT !.call = call, !.at = "options"]]
    BY <1>1 DEF Call
  <2>2. pc'[h].at = "options" /\ \A g \in Hosts : g # h => pc'[g] = pc[g]
    BY <2>1 DEF LabelInv, Idle
  <2> QED
    BY <1>1, <2>2 DEF Call
<1>2. CASE BridgeInit(h)
  <2>1. pc[h].at = "symbols"
    BY <1>2 DEF BridgeInit, At
  <2>2. /\ pc'[h].at \in {"options again", "builtins", "idle"}
        /\ \A g \in Hosts : g # h => pc'[g] = pc[g]
    BY <1>2, GotoGoes, LeaveGoes DEF BridgeInit
  <2> QED
    BY <1>2, <1>o, <2>1, <2>2 DEF BridgeInit
<1>3. CASE FillBuiltinTypeInfos(h)
  <2>1. pc'[h].at = "idle" /\ \A g \in Hosts : g # h => pc'[g] = pc[g]
    BY <1>3, LeaveGoes DEF FillBuiltinTypeInfos
  <2> QED
    BY <1>3, <2>1 DEF FillBuiltinTypeInfos
<1>4. CASE OptionsAgain(h)
  <2>1. pc[h].at = "options again"
    BY <1>4 DEF OptionsAgain, Anywhere
  <2>2. pc'[h].at = "guard" /\ \A g \in Hosts : g # h => pc'[g] = pc[g]
    BY <1>4, GotoGoes DEF OptionsAgain
  <2> QED
    BY <1>4, <1>o, <2>1, <2>2 DEF OptionsAgain
<1>5. CASE TakeGuard(h) /\ memory.initialized
  <2>1. pc[h].at = "guard"
    BY <1>5 DEF TakeGuard, Anywhere
  <2>2. pc'[h].at \in {"patch", "idle"} /\ \A g \in Hosts : g # h => pc'[g] = pc[g]
    BY <1>5, GotoGoes, LeaveGoes DEF TakeGuard, Initialized
  <2> QED
    BY <1>5, <1>o, <2>1, <2>2 DEF TakeGuard
<1>6. CASE PerformPatching(h)
  <2>1. pc[h].at = "patch"
    BY <1>6 DEF PerformPatching, At
  <2>2. pc' = pc \/ (/\ pc'[h].at \in {"builtins", "files"}
                     /\ \A g \in Hosts : g # h => pc'[g] = pc[g])
    BY <1>6, GotoGoes DEF PerformPatching
  <2>3. flags'.entry = flags.entry /\ flags'.options = flags.options
    BY <1>6 DEF PerformPatching, Fatal
  <2> QED
    BY <1>6, <1>o, <2>1, <2>2, <2>3 DEF PerformPatching
<1>7. CASE NextFile(h)
  <2>1. pc[h].at = "files"
    BY <1>7 DEF NextFile, Anywhere
  <2>2. pc'[h].at \in {"builtins", "files"} /\ \A g \in Hosts : g # h => pc'[g] = pc[g]
    <3>1. CASE pc[h].file < Len(Files)
      <4>1. pc' = [pc EXCEPT ![h].file = @ + 1,
                             ![h].patches = FileOf(Files[pc[h].file + 1].path).patches]
        BY <1>7, <3>1 DEF NextFile
      <4> QED
        BY <2>1, <4>1 DEF LabelInv
    <3>2. CASE ~(pc[h].file < Len(Files))
      BY <1>7, <3>2, GotoGoes DEF NextFile
    <3> QED
      BY <3>1, <3>2
  <2>3. flags'.entry = flags.entry /\ flags'.options = flags.options
    BY <1>7 DEF NextFile
  <2> QED
    BY <1>7, <1>o, <2>1, <2>2, <2>3 DEF NextFile
<1>8. CASE Patches(h)
  BY <1>8, PatchesMove DEF Moved
<1> QED
  BY <1>1, <1>2, <1>3, <1>4, <1>5, <1>6, <1>7, <1>8

\* The options are read: a host that is beyond them, a list of files and an entry
\* would show that they were read before.
LEMMA OptionsStep ==
  ASSUME HostInv, FlagsInv, FilesInv, MainInv, NEW h \in Hosts, InitEnvOpts(h)
  PROVE  MainInv'
<1>1. /\ flags' = [flags EXCEPT !.options = TRUE]
      /\ main' = IF ~flags.options /\ world.envMain # None THEN world.envMain ELSE main
      /\ pc[h].at = "options" /\ UNCHANGED <<world, loader, memory>>
  BY DEF InitEnvOpts, Anywhere
<1>2. flags'.options = TRUE /\ flags'.entry = flags.entry
  BY <1>1 DEF FlagsInv
<1>3. pc'[h].at \in {"symbols", "guard"} /\ \A g \in Hosts : g # h => pc'[g] = pc[g]
  BY GotoGoes DEF InitEnvOpts, AfterOptions, HostInv
<1>4. CASE flags.options
  BY <1>1, <1>2, <1>3, <1>4 DEF MainInv, IsMain, Disk, NoMain, OneMain, Files
<1>5. CASE ~flags.options
  <2>1. /\ ~memory.initialized /\ Files = <<>> /\ flags.entry = <<>>
        /\ \A g \in Hosts : pc[g].at \in {"idle", "options"}
    BY <1>5 DEF MainInv, FilesInv
  <2>2. DOMAIN Files' = {} /\ DOMAIN flags'.entry = {}
    BY <2>1, <1>1, <1>2 DEF Files
  <2>3. \A g \in Hosts : pc'[g].at \in {"idle", "options", "symbols", "guard"}
    BY <2>1, <1>3
  <2>4. main' \in {world.main, world.envMain}
    BY <1>1 DEF MainInv
  <2> QED
    BY <2>1, <2>2, <2>3, <2>4, <1>1, <1>2 DEF MainInv, OneMain
<1> QED
  BY <1>4, <1>5 DEF FlagsInv

\* While a host builds, no other does.
LEMMA OnlyBuilder ==
  ASSUME HostInv, NEW h \in Hosts, NEW g \in Hosts, g # h, pc[h].at \in Building \/ guard = None
  PROVE  pc[g].at \notin Building
  BY NoneIsNoHost DEF HostInv, GuardInv, Holding

LEMMA BuilderSteps ==
  ASSUME IntrinsicsAreNotMain, HostInv, FlagsInv, FilesInv, MainInv, NEW h \in Hosts,
         \/ (TakeGuard(h) /\ ~memory.initialized)
         \/ ScanDirectory(h) \/ LoadMain(h) \/ LoadIntrinsics(h) \/ Build(h)
  PROVE  MainInv'
<1> LabelInv
  BY DEF HostInv
<1>1. /\ UNCHANGED <<world, main>> /\ flags'.options = flags.options /\ flags'.entry = flags.entry
      /\ pc[h].at \in {"guard", "scan", "main", "intrinsics", "build"}
      /\ pc[h].at \in Building \/ guard = None
  BY DEF TakeGuard, ScanDirectory, LoadMain, LoadIntrinsics, Build, Anywhere, Fatal, Building, FlagsInv
<1>2. /\ flags.options
      /\ \A g \in Hosts : g # h => pc[g].at \notin Building
  BY <1>1, OnlyBuilder DEF MainInv
<1>3. Sound(loader) /\ loader.files \in Seq(LoadedFile) /\ DOMAIN loader = {"todo", "fileCounter", "files", "rafs"}
  BY DEF FilesInv, Sound, Numbered
\* What is left to show.
<1>4. ASSUME /\ \A g \in Hosts : g # h => pc'[g] = pc[g]
             /\ pc'[h].at \in {"scan", "main"} => NoMain(loader'.files)
             /\ pc'[h].at \in {"intrinsics", "build"} => OneMain(loader'.files)
             /\ OneMain(Files')
      PROVE  MainInv'
  <2>1. \A g \in Hosts :
          /\ pc'[g].at \in {"scan", "main"} => NoMain(loader'.files)
          /\ pc'[g].at \in {"intrinsics", "build"} => OneMain(loader'.files)
    BY <1>2, <1>4 DEF Building
  <2> QED
    BY <2>1, <1>1, <1>2, <1>4 DEF MainInv, NoMain, OneMain, IsMain, Disk
<1>5. CASE TakeGuard(h) /\ ~memory.initialized
  <2>1. pc'[h].at = "scan" /\ \A g \in Hosts : g # h => pc'[g] = pc[g]
    BY <1>5, GotoGoes DEF TakeGuard
  <2>2. loader'.files = <<>> /\ memory' = memory
    BY <1>5 DEF TakeGuard, NothingLoaded
  <2>3. NoMain(loader'.files) /\ OneMain(Files')
    BY <2>2 DEF NoMain, MainInv, Files
  <2> QED
    BY <1>4, <2>1, <2>3
<1>6. CASE ScanDirectory(h)
  <2>1. pc[h].at = "scan" /\ memory' = memory /\ NoMain(loader.files)
    BY <1>6 DEF ScanDirectory, Anywhere, MainInv
  <2>2. pc'[h].at \in {"scan", "main"} /\ \A g \in Hosts : g # h => pc'[g] = pc[g]
    BY <1>6, <2>1, GotoGoes DEF ScanDirectory
  <2>3. NoMain(loader'.files)
    <3>1. CASE loader' = loader
      BY <2>1, <3>1
    <3>2. CASE loader' # loader
      <4>1. PICK path \in loader.todo :
              loader' = IF Excluded(path) THEN [loader EXCEPT !.todo = @ \ {path}]
                        ELSE Load([loader EXCEPT !.todo = @ \ {path}], path)
        BY <1>6, <3>2 DEF ScanDirectory
      <4> DEFINE rest == [loader EXCEPT !.todo = @ \ {path}]
      <4>2. path \in DOMAIN Disk /\ rest.files = loader.files /\ Sound(rest)
        BY <1>3 DEF Sound, Numbered
      <4>3. CASE Excluded(path)
        <5>1. loader' = rest
          BY <4>1, <4>3
        <5> QED
          BY <2>1, <4>2, <5>1
      <4>4. CASE ~Excluded(path)
        <5>1. ~IsMain(path) /\ loader' = Load(rest, path)
          BY <4>1, <4>4 DEF Excluded
        <5> HIDE DEF rest
        <5>2. \/ loader'.files = loader.files
              \/ \E file \in LoadedFile : file.path = path /\ loader'.files = Append(loader.files, file)
          BY <4>2, <5>1, LoadKeepsNumbers
        <5> QED
          BY <1>3, <2>1, <5>1, <5>2, MainAppended
      <4> QED
        BY <4>3, <4>4
    <3> QED
      BY <3>1, <3>2
  <2>4. OneMain(Files')
    BY <2>1 DEF MainInv, Files
  <2> QED
    BY <1>4, <2>2, <2>3, <2>4
<1>7. CASE LoadMain(h)
  <2>1. pc[h].at = "main" /\ memory' = memory /\ NoMain(loader.files)
    BY <1>7 DEF LoadMain, Anywhere, MainInv
  <2>2. pc'[h].at = "intrinsics" /\ \A g \in Hosts : g # h => pc'[g] = pc[g]
    BY <1>7, GotoGoes DEF LoadMain
  <2>3. OneMain(loader.files)
    BY <2>1 DEF NoMain, OneMain
  <2>4. \/ loader'.files = loader.files
        \/ \E file \in LoadedFile : loader'.files = Append(loader.files, file)
    BY <1>3, <1>7, LoadKeepsNumbers DEF LoadMain
  <2>5. OneMain(loader'.files) /\ OneMain(Files')
    BY <1>3, <2>1, <2>3, <2>4, MainAppended DEF MainInv, Files
  <2> QED
    BY <1>4, <2>2, <2>5
<1>8. CASE LoadIntrinsics(h)
  <2>1. pc[h].at = "intrinsics" /\ memory' = memory /\ OneMain(loader.files)
    BY <1>8 DEF LoadIntrinsics, Anywhere, MainInv
  <2>2. /\ pc'[h].at \in {"intrinsics", "build"}
        /\ \A g \in Hosts : g # h => pc'[g] = pc[g]
    BY <1>8, <2>1, GotoGoes DEF LoadIntrinsics
  <2>3. world.intrinsics \in DOMAIN Disk => ~IsMain(world.intrinsics)
    BY DEF FilesInv, MainInv, IsMain, Disk, IntrinsicsAreNotMain
  <2>4. \/ loader'.files = loader.files
        \/ \E file \in LoadedFile : ~IsMain(file.path) /\ loader'.files = Append(loader.files, file)
    <3>1. CASE loader' = loader
      BY <3>1
    <3>2. CASE loader' = Load(loader, world.intrinsics) /\ world.intrinsics \in DOMAIN Disk
      BY <1>3, <2>3, <3>2, LoadKeepsNumbers
    <3> QED
      BY <1>8, <3>1, <3>2 DEF LoadIntrinsics
  <2>5. OneMain(loader'.files) /\ OneMain(Files')
    BY <1>3, <2>1, <2>4, MainAppended DEF MainInv, Files
  <2> QED
    BY <1>4, <2>2, <2>5
<1>9. CASE Build(h)
  <2>1. pc[h].at = "build" /\ OneMain(loader.files)
    BY <1>9 DEF Build, Anywhere, MainInv
  <2>2. pc'[h].at \in {"patch", "idle"} /\ \A g \in Hosts : g # h => pc'[g] = pc[g]
    BY <1>9, GotoGoes, LeaveGoes DEF Build, Initialized
  <2>3. Files' = loader.files
    BY <1>9 DEF Build, Built, Files
  <2> QED
    BY <1>4, <2>1, <2>2, <2>3
<1> QED
  BY <1>5, <1>6, <1>7, <1>8, <1>9

\* The entry is in the file that has the name of the main file.
LEMMA EntryStep ==
  ASSUME HostInv, FlagsInv, FilesInv, MainInv, NEW h \in Hosts, GetEntrypointTrampoline(h)
  PROVE  MainInv'
<1> LabelInv
  BY DEF HostInv
<1>1. pc[h].at = "options" /\ UNCHANGED <<world, main, loader, memory>>
  BY DEF GetEntrypointTrampoline, At
<1>2. CASE flags' = [flags EXCEPT !.stopped = TRUE] /\ pc' = pc
  <2>1. flags'.entry = flags.entry /\ flags'.options = flags.options
    BY <1>2 DEF FlagsInv
  <2> QED
    BY <2>1, <1>1, <1>2, MainStays DEF Calm
<1>3. CASE /\ flags' = [flags EXCEPT !.entry = FoundMain, !.helpers = @ \/ FoundMain # <<>>]
           /\ memory.initialized /\ Leave(h)
  <2>1. flags'.entry = FoundMain /\ flags'.options = flags.options /\ flags.options
    BY <1>3 DEF FlagsInv, MainInv
  <2>2. pc'[h].at = "idle" /\ \A g \in Hosts : g # h => pc'[g] = pc[g]
    BY <1>3, LeaveGoes
  <2>3. \A i \in DOMAIN FoundMain : IsMain(FoundMain[i].path)
    <3>1. \A i \in DOMAIN Files : Files[i].path \in DOMAIN Disk
      <4>1. Files \in Seq(LoadedFile)
        BY DEF FilesInv
      <4>2. \A i \in DOMAIN Files : Files[i] \in LoadedFile
        BY <4>1
      <4> QED
        BY <4>2 DEF LoadedFile
    <3>2. \A i \in Named : IsMain(Files[i].path)
      BY <3>1 DEF Named, IsMain
    <3>3. CASE Named = {}
      BY <3>3, NoElements DEF FoundMain
    <3>4. CASE Named # {}
      <4>1. Min(Named) \in Named
        <5>1. Named \subseteq Nat /\ Named # {}
          BY <3>4, LenProperties DEF Named, FilesInv
        <5> QED
          BY <5>1, MinOfPlaces
      <4> QED
        BY <3>2, <4>1, NoElements DEF FoundMain
    <3> QED
      BY <3>3, <3>4
  <2>4. \A g \in Hosts : pc'[g].at = pc[g].at \/ pc'[g].at = "idle"
    BY <2>2
  <2>5. UNCHANGED <<Named, Files>> /\ \A path : IsMain(path)' = IsMain(path)
    BY <1>1 DEF Named, Files, IsMain, Disk
  <2>6. /\ main' \in {world'.main, world'.envMain}
        /\ memory'.initialized => flags'.options
        /\ flags'.entry # <<>> => flags'.options
    BY <2>1, <1>1 DEF MainInv
  <2>7. \A g \in Hosts :
          /\ pc'[g].at \notin {"idle", "options"} => flags'.options
          /\ pc'[g].at \in {"scan", "main"} => NoMain(loader'.files)
          /\ pc'[g].at \in {"intrinsics", "build"} => OneMain(loader'.files)
    BY <2>1, <2>4, <1>1 DEF MainInv
  <2>8. \A i \in DOMAIN flags'.entry : IsMain(flags'.entry[i].path)
    BY <2>1, <2>3
  <2> QED
    BY <2>6, <2>7, <2>8, <1>1 DEF MainInv, NoMain, OneMain, IsMain, Disk, Files
<1> QED
  BY <1>2, <1>3 DEF GetEntrypointTrampoline, Fatal

LEMMA MainStep ==
  ASSUME IntrinsicsAreNotMain, HostInv, FlagsInv, FilesInv, MainInv, [Next]_vars
  PROVE  MainInv'
<1>1. CASE BecomeVisible \/ UNCHANGED vars \/ \E c \in Collectors : Callback(c) \/ VisitGlobalRoots(c)
  <2>1. UNCHANGED <<world, main, loader, memory, flags, pc>>
    BY <1>1 DEF BecomeVisible, vars, Callback, VisitGlobalRoots
  <2> QED
    BY <2>1, MainStays DEF Calm
<1> QED
  BY <1>1, CalmSteps, OptionsStep, BuilderSteps, EntryStep DEF Next, Patches

LEMMA InitFiles == Init => FilesInv /\ FlagsInv /\ MainInv
<1> SUFFICES ASSUME Init PROVE FilesInv /\ FlagsInv /\ MainInv
  OBVIOUS
<1>1. FilesInv
  <2>1. /\ loader.files = <<>> /\ loader.rafs = <<>> /\ loader.todo = {} /\ loader.fileCounter = 0
        /\ DOMAIN loader = {"todo", "fileCounter", "files", "rafs"}
    BY DEF Init, NothingLoaded
  <2>2. Files = <<>> /\ memory.engine.deps = <<>> /\ world \in Worlds
    BY DEF Init, Files, NotBuilt
  <2> QED
    BY <2>1, <2>2, EmptySeq DEF FilesInv, Sound, Numbered
<1>2. FlagsInv /\ flags.entry = <<>>
  BY DEF Init, FlagsInv
<1>3. MainInv
  <2>1. /\ memory.initialized = FALSE /\ Files = <<>> /\ DOMAIN <<>> = {}
        /\ \A h \in Hosts : pc[h].at = "idle"
        /\ main = world.main
    BY NoElements DEF Init, Files, NotBuilt, Idle
  <2> QED
    BY <2>1, <1>2 DEF MainInv, OneMain
<1> QED
  BY <1>1, <1>2, <1>3

FileInv == HostInv /\ FilesInv /\ FlagsInv /\ MainInv

LEMMA FileInvariant == IntrinsicsAreNotMain /\ Spec => []FileInv
<1> SUFFICES ASSUME IntrinsicsAreNotMain PROVE Spec => []FileInv
  OBVIOUS
<1>1. Init => FileInv
  BY InitHost, InitFiles DEF FileInv
<1>2. FileInv /\ [Next]_vars => FileInv'
  BY NextHost, FilesStep, FlagsStep, MainStep DEF FileInv
<1> QED
  BY <1>1, <1>2, PTL DEF Spec

\* Whatever the directory holds, under whatever names, and however many hosts start the
\* engine: the main file is loaded at most once, and the entry that the launcher runs is
\* in it (cbc_loader.cpp:41-118, engine.cpp).
THEOREM MainOnce == IntrinsicsAreNotMain /\ Spec => []MainIsLoadedOnce
<1>1. FileInv => MainIsLoadedOnce
  <2> SUFFICES ASSUME FileInv PROVE MainIsLoadedOnce
    OBVIOUS
  <2> DEFINE mains == {i \in DOMAIN Files : IsMain(Files[i].path)}
  <2>1. \A i, j \in mains : i = j
    BY DEF FileInv, MainInv, OneMain
  <2>2. Cardinality(mains) < 2
    <3>1. CASE mains = {}
      BY <3>1, FS_EmptySet
    <3>2. CASE mains # {}
      <4>1. PICK i \in mains : mains = {i}
        BY <2>1, <3>2
      <4> HIDE DEF mains
      <4>2. Cardinality({i}) = 1
        BY FS_Singleton
      <4> QED
        BY <4>1, <4>2
    <3> QED
      BY <3>1, <3>2
  <2> QED
    BY <2>2 DEF FileInv, MainInv, MainIsLoadedOnce
<1> QED
  BY <1>1, FileInvariant, PTL

(***************************************************************************)
(* The patches.                                                            *)
(***************************************************************************)

PatchesOf(path) == ToSet(FileOf(path).patches)

\* A package is patched by one patch of one file, which may have several names.
PackagesArePatchedOnce ==
  \A w \in Worlds : \A a, b \in DOMAIN w.disk :
    \A p \in ToSet(w.disk[a].patches), q \in ToSet(w.disk[b].patches) :
      p.package = q.package => p = q /\ w.disk[a] = w.disk[b]

\* The patch has been tried: its functions are in place, and its flag if there is one.
Done(path, patch) ==
  HasClass(patch) =>
    /\ InPlace(patch)
    /\ patch.flagIn \in ToSet(LibrariesOf(path)) => packages[patch.package].flag

\* A package that says it is patched is, by a patch that could be applied.
Whole(path, patch) ==
  patch.package \in world.packages /\ packages[patch.package].flag =>
    flags.helpers /\ patch.flagIn \in ToSet(LibrariesOf(path)) /\ InPlace(patch)

\* A host that patches is done with the files up to the one it is at, of which it still
\* has some patches to try, and with some functions of the first of these.
WalkInv(h) ==
  /\ pc[h].at \notin {"files", "builtins"} => pc[h].file = 0 /\ pc[h].patches = <<>> /\ pc[h].stored = {}
  /\ pc[h].at = "patch" => memory.initialized
  /\ pc[h].at = "files" =>
       /\ memory.initialized /\ flags.helpers
       /\ pc[h].file \in 0..Len(Files)
       /\ pc[h].file = 0 => pc[h].patches = <<>>
       /\ pc[h].file # 0 => pc[h].patches \in Seq(PatchesOf(Files[pc[h].file].path))
       /\ pc[h].patches = <<>> => pc[h].stored = {}
       /\ HasClass(Patch(h)) =>
            \A i \in Slots \cap pc[h].stored : packages[Patch(h).package].funcTable[i] = Patch(h).methods[i]
       /\ \A k \in 1..pc[h].file : \A patch \in PatchesOf(Files[k].path) :
            Done(Files[k].path, patch) \/ (k = pc[h].file /\ patch \in ToSet(pc[h].patches))

PackageShape ==
  /\ DOMAIN packages = world.packages
  /\ \A p \in world.packages :
       /\ DOMAIN packages[p] = {"funcTable", "flag"}
       /\ DOMAIN packages[p].funcTable = Slots /\ packages[p].flag \in BOOLEAN

PackageInv ==
  /\ PackageShape
  /\ \A path \in DOMAIN Disk : \A patch \in PatchesOf(path) : Whole(path, patch)
  /\ flags.patched => memory.initialized
  /\ flags.patched => \A k \in 1..Len(Files) : \A patch \in PatchesOf(Files[k].path) :
                        Done(Files[k].path, patch)

PatchInv == PackageInv /\ \A h \in Hosts : WalkInv(h)

\* A host that is not patching, and does not begin to.
Passes(g) ==
  \/ pc'[g] = pc[g]
  \/ /\ pc'[g].at # "files"
     /\ pc'[g].at = "patch" => memory'.initialized
     /\ pc'[g].at = "builtins" \/ (pc'[g].file = 0 /\ pc'[g].patches = <<>> /\ pc'[g].stored = {})

LEMMA PackagesStay ==
  ASSUME PackageInv, UNCHANGED <<world, packages>>, memory.initialized => memory' = memory,
         flags.helpers => flags'.helpers, flags'.patched = flags.patched
  PROVE  PackageInv'
<1> USE DEF PackageShape, Done, Whole, HasClass, InPlace, PatchesOf, LibrariesOf, FileOf, Disk, Files
<1>1. \A path \in DOMAIN Disk' : \A patch \in PatchesOf(path)' : Whole(path, patch)'
  BY DEF PackageInv
<1>2. flags'.patched => /\ memory'.initialized
                        /\ \A k \in 1..Len(Files') : \A patch \in ToSet(FileOf(Files[k].path).patches)' :
                             Done(Files[k].path, patch)'
  BY DEF PackageInv
<1> QED
  BY <1>1, <1>2 DEF PackageInv

LEMMA WalkStays ==
  ASSUME NEW g \in Hosts, WalkInv(g), UNCHANGED <<world, packages>>, memory.initialized => memory' = memory,
         flags.helpers => flags'.helpers, Passes(g)
  PROVE  WalkInv(g)'
<1>1. CASE pc'[g] = pc[g] /\ pc[g].at = "files"
  <2>1. memory.initialized /\ memory' = memory /\ flags.helpers /\ flags'.helpers
    BY <1>1 DEF WalkInv
  <2>2. UNCHANGED <<Files, Patch(g), HasClass(Patch(g))>>
    BY <1>1, <2>1 DEF Files, Patch, HasClass
  <2>3. /\ \A a : PatchesOf(a)' = PatchesOf(a)
        /\ \A a, b : Done(a, b)' = Done(a, b)
    BY DEF PatchesOf, Done, HasClass, InPlace, LibrariesOf, FileOf, Disk
  <2>4. \A k \in 1..pc'[g].file : \A patch \in PatchesOf(Files[k].path)' :
          Done(Files[k].path, patch)' \/ (k = pc'[g].file /\ patch \in ToSet(pc'[g].patches))
    BY <1>1, <2>2, <2>3 DEF WalkInv
  <2>5. pc'[g].file # 0 => pc'[g].patches \in Seq(PatchesOf(Files[pc[g].file].path)')
    BY <1>1, <2>1 DEF WalkInv, PatchesOf, FileOf, Disk, Files
  <2> QED
    BY <1>1, <2>1, <2>2, <2>4, <2>5 DEF WalkInv
<1>2. CASE pc'[g].at # "files"
  BY <1>2 DEF WalkInv, Passes
<1> QED
  BY <1>1, <1>2 DEF Passes

\* The place of a host in the files, before and after it goes to a label.
LEMMA GotoPasses ==
  ASSUME LabelInv, NEW h \in Hosts, WalkInv(h), NEW label, Goto(h, label),
         pc[h].at \notin {"files", "builtins"}, label # "files",
         label = "patch" => memory'.initialized
  PROVE  \A g \in Hosts : Passes(g)
<1>1. /\ pc'[h].at = label /\ pc'[h].file = 0 /\ pc'[h].patches = <<>> /\ pc'[h].stored = {}
      /\ \A g \in Hosts : g # h => pc'[g] = pc[g]
  BY DEF LabelInv, Goto, WalkInv
<1> QED
  BY <1>1 DEF Passes

LEMMA LeavePasses ==
  ASSUME LabelInv, NEW h \in Hosts, Leave(h)
  PROVE  \A g \in Hosts : Passes(g)
<1>1. /\ pc'[h].at = "idle" /\ pc'[h].file = 0 /\ pc'[h].patches = <<>> /\ pc'[h].stored = {}
      /\ \A g \in Hosts : g # h => pc'[g] = pc[g]
  BY DEF LabelInv, Leave, Idle
<1> QED
  BY <1>1 DEF Passes

LEMMA PassSteps ==
  ASSUME HostInv, FlagsInv, PatchInv, NEW h \in Hosts,
         \/ Call(h) \/ InitEnvOpts(h) \/ BridgeInit(h) \/ FillBuiltinTypeInfos(h) \/ OptionsAgain(h)
         \/ TakeGuard(h) \/ ScanDirectory(h) \/ LoadMain(h) \/ LoadIntrinsics(h) \/ Build(h)
         \/ GetEntrypointTrampoline(h)
  PROVE  /\ UNCHANGED <<world, packages>>
         /\ flags'.patched = flags.patched
         /\ \A g \in Hosts : Passes(g)
<1> LabelInv /\ WalkInv(h)
  BY DEF HostInv, PatchInv
<1>u. UNCHANGED <<world, packages>>
  BY DEF Call, InitEnvOpts, BridgeInit, FillBuiltinTypeInfos, OptionsAgain, TakeGuard, ScanDirectory,
         LoadMain, LoadIntrinsics, Build, GetEntrypointTrampoline
<1>f. flags'.patched = flags.patched
  BY DEF FlagsInv, Call, InitEnvOpts, BridgeInit, FillBuiltinTypeInfos, OptionsAgain, TakeGuard,
         ScanDirectory, LoadMain, LoadIntrinsics, Build, GetEntrypointTrampoline, Fatal
<1>p. SUFFICES \A g \in Hosts : Passes(g)
  BY <1>u, <1>f
<1>s. pc' = pc => \A g \in Hosts : Passes(g)
  BY DEF Passes
<1>1. CASE Call(h)
  <2>1. PICK call : pc' = [pc EXCEPT ![h] = [Idle EXCEPT !.call = call, !.at = "options"]]
    BY <1>1 DEF Call
  <2>2. /\ pc'[h].at = "options" /\ pc'[h].file = 0 /\ pc'[h].patches = <<>> /\ pc'[h].stored = {}
        /\ \A g \in Hosts : g # h => pc'[g] = pc[g]
    BY <2>1 DEF LabelInv, Idle
  <2> QED
    BY <2>2 DEF Passes
<1>2. CASE InitEnvOpts(h)
  BY <1>2, GotoPasses DEF InitEnvOpts, Anywhere, AfterOptions
<1>3. CASE BridgeInit(h)
  BY <1>3, GotoPasses, LeavePasses DEF BridgeInit, At
<1>4. CASE FillBuiltinTypeInfos(h)
  BY <1>4, LeavePasses DEF FillBuiltinTypeInfos
<1>5. CASE OptionsAgain(h)
  BY <1>5, GotoPasses DEF OptionsAgain, Anywhere
<1>6. CASE TakeGuard(h)
  <2>1. pc[h].at = "guard" /\ memory' = memory
    BY <1>6 DEF TakeGuard, Anywhere
  <2>2. CASE memory.initialized
    BY <1>6, <2>1, <2>2, GotoPasses, LeavePasses DEF TakeGuard, Initialized
  <2>3. CASE ~memory.initialized
    BY <1>6, <2>1, <2>3, GotoPasses DEF TakeGuard
  <2> QED
    BY <2>2, <2>3
<1>7. CASE ScanDirectory(h)
  BY <1>7, <1>s, GotoPasses DEF ScanDirectory, Anywhere
<1>8. CASE LoadMain(h)
  BY <1>8, GotoPasses DEF LoadMain, Anywhere
<1>9. CASE LoadIntrinsics(h)
  BY <1>9, <1>s, GotoPasses DEF LoadIntrinsics, Anywhere
<1>10. CASE Build(h)
  <2>1. pc[h].at = "build" /\ memory'.initialized = TRUE
    BY <1>10 DEF Build, Anywhere
  <2> QED
    BY <1>10, <2>1, GotoPasses, LeavePasses DEF Build, Initialized
<1>11. CASE GetEntrypointTrampoline(h)
  BY <1>11, <1>s, LeavePasses DEF GetEntrypointTrampoline
<1> QED
  BY <1>1, <1>2, <1>3, <1>4, <1>5, <1>6, <1>7, <1>8, <1>9, <1>10, <1>11

\* PerformPatching begins with the first file.
LEMMA PerformStep ==
  ASSUME HostInv, FlagsInv, PatchInv, NEW h \in Hosts, PerformPatching(h)
  PROVE  PatchInv'
<1> LabelInv /\ WalkInv(h)
  BY DEF HostInv, PatchInv
<1>1. /\ pc[h].at = "patch" /\ UNCHANGED <<world, memory, packages>>
      /\ pc[h].file = 0 /\ pc[h].patches = <<>> /\ pc[h].stored = {} /\ memory.initialized
  BY DEF PerformPatching, At, WalkInv
<1>2. flags'.patched = flags.patched /\ (flags.helpers => flags'.helpers)
  BY DEF PerformPatching, Fatal, FlagsInv
<1>3. PackageInv'
  BY <1>1, <1>2, PackagesStay DEF PatchInv
<1>4. \A g \in Hosts : g # h => WalkInv(g)'
  <2>1. \A g \in Hosts : g # h => pc'[g] = pc[g]
    BY GotoGoes DEF PerformPatching
  <2> QED
    BY <2>1, <1>1, <1>2, WalkStays DEF Passes, PatchInv
<1>5. WalkInv(h)'
  <2>1. CASE pc' = pc
    BY <2>1, <1>1, <1>2, WalkStays DEF Passes
  <2>2. CASE Goto(h, "builtins")
    BY <2>2, <1>1, <1>2, GotoPasses, WalkStays
  <2>3. CASE Goto(h, "files") /\ flags' = [flags EXCEPT !.helpers = TRUE]
    <3>1. /\ pc'[h].at = "files" /\ pc'[h].file = 0 /\ pc'[h].patches = <<>> /\ pc'[h].stored = {}
          /\ flags'.helpers
      BY <2>3, <1>1 DEF LabelInv, Goto, FlagsInv
    <3> QED
      BY <3>1, <1>1 DEF WalkInv
  <2> QED
    BY <2>1, <2>2, <2>3 DEF PerformPatching
<1> QED
  BY <1>3, <1>4, <1>5 DEF PatchInv

\* No other host patches meanwhile.
LEMMA OthersPass ==
  ASSUME HostInv, PatchInv, NEW h \in Hosts, pc[h].at = "files", UNCHANGED <<world, memory>>,
         \A g \in Hosts : g # h => pc'[g] = pc[g]
  PROVE  \A g \in Hosts : g # h => WalkInv(g)'
<1> SUFFICES ASSUME NEW g \in Hosts, g # h PROVE WalkInv(g)'
  OBVIOUS
<1>1. pc[g].at # "files" /\ pc'[g] = pc[g]
  BY DEF HostInv, GuardInv, Holding
<1> QED
  BY <1>1 DEF PatchInv, WalkInv

\* The next file, or the end of PerformPatching.
LEMMA NextFileStep ==
  ASSUME HostInv, FlagsInv, FilesInv, PatchInv, NEW h \in Hosts, NextFile(h)
  PROVE  PatchInv'
<1> LabelInv /\ WalkInv(h)
  BY DEF HostInv, PatchInv
<1> DEFINE k == pc[h].file
           n == Len(Files)
<1>1. /\ pc[h].at = "files" /\ pc[h].patches = <<>> /\ pc[h].stored = {} /\ UNCHANGED <<world, memory, packages>>
      /\ n \in Nat
  BY LenProperties DEF NextFile, Anywhere, FilesInv, WalkInv
<1>2. /\ memory.initialized /\ flags.helpers /\ k \in 0..n
      /\ \A i \in 1..k : \A patch \in PatchesOf(Files[i].path) : Done(Files[i].path, patch)
  BY <1>1, NoElements DEF WalkInv, ToSet
<1>3. CASE k < n
  <2> DEFINE path == Files[k + 1].path
  <2>1. flags' = flags /\ pc' = [pc EXCEPT ![h].file = k + 1, ![h].patches = FileOf(path).patches]
    BY <1>3 DEF NextFile
  <2>2. PackageInv'
    BY <2>1, <1>1, PackagesStay DEF PatchInv
  <2>3. /\ pc'[h].at = "files" /\ pc'[h].file = k + 1 /\ pc'[h].patches = FileOf(path).patches
        /\ pc'[h].stored = {}
        /\ \A g \in Hosts : g # h => pc'[g] = pc[g]
    BY <2>1, <1>1 DEF LabelInv
  <2>4. \A g \in Hosts : g # h => WalkInv(g)'
    BY <2>3, <1>1, OthersPass
  <2>5. path \in DOMAIN Disk /\ FileOf(path).patches \in Seq(PatchesOf(path))
    <3>1. k + 1 \in DOMAIN Files /\ Files \in Seq(LoadedFile)
      BY <1>1, <1>2, <1>3, LenProperties DEF FilesInv
    <3>2. path \in DOMAIN Disk
      <4>1. Files[k + 1] \in LoadedFile
        BY <3>1
      <4> QED
        BY <4>1 DEF LoadedFile
    <3> QED
      BY <3>2, WorldsAssumption DEF FilesInv, PatchesOf, FileOf, Disk
  <2>6. k + 1 \in 1..n /\ k + 1 # 0 /\ \A i \in 1..(k + 1) : i = k + 1 \/ i \in 1..k
    BY <1>1, <1>2, <1>3
  <2>7. UNCHANGED <<Files, Disk>> /\ \A a, b : Done(a, b)' = Done(a, b)
    BY <1>1 DEF Files, Disk, Done, HasClass, InPlace, LibrariesOf, FileOf
  <2>8. \A i \in 1..(k + 1) : \A patch \in PatchesOf(Files[i].path) :
          Done(Files[i].path, patch) \/ (i = k + 1 /\ patch \in ToSet(FileOf(path).patches))
    BY <1>2, <2>6 DEF PatchesOf
  <2>9. WalkInv(h)'
    <3>1. /\ pc'[h].at = "files" /\ pc'[h].file \in 1..n /\ pc'[h].file # 0
          /\ memory'.initialized /\ flags'.helpers
      BY <1>1, <1>2, <2>1, <2>3, <2>6
    <3>2. pc'[h].patches \in Seq(PatchesOf(Files[k + 1].path))
      BY <2>3, <2>5
    <3>3. ASSUME NEW i \in 1..pc'[h].file, NEW patch \in PatchesOf(Files[i].path)
          PROVE  \/ Done(Files[i].path, patch)'
                 \/ i = pc'[h].file /\ patch \in ToSet(pc'[h].patches)
      BY <2>3, <2>7, <2>8
    <3>4. k + 1 \in 0..n
      BY <2>6
    <3>5. \A i : i \notin Slots \cap pc'[h].stored
      BY <2>3
    <3> HIDE DEF k, path
    <3> QED
      BY <3>1, <3>2, <3>3, <3>4, <3>5, <1>1, <2>3 DEF WalkInv, PatchesOf, FileOf, Disk, Files
  <2> QED
    BY <2>2, <2>4, <2>9 DEF PatchInv
<1>4. CASE ~(k < n)
  <2>1. flags' = [flags EXCEPT !.patched = TRUE] /\ Goto(h, "builtins")
    BY <1>4 DEF NextFile
  <2>2. flags'.patched /\ flags'.helpers = flags.helpers
    BY <2>1 DEF FlagsInv
  <2>3. pc'[h].at = "builtins" /\ \A g \in Hosts : g # h => pc'[g] = pc[g]
    BY <2>1, GotoGoes
  <2>4. \A g \in Hosts : g # h => WalkInv(g)'
    BY <2>3, <1>1, OthersPass
  <2>5. WalkInv(h)'
    BY <2>3 DEF WalkInv
  <2>6. \A i \in 1..Len(Files) : \A patch \in PatchesOf(Files[i].path) : Done(Files[i].path, patch)
    <3>1. k = Len(Files)
      BY <1>1, <1>2, <1>4
    <3> QED
      BY <3>1, <1>2
  <2>7. PackageInv'
    <3>1. UNCHANGED <<Files, Disk>> /\ \A a : PatchesOf(a)' = PatchesOf(a)
      BY <1>1 DEF Files, Disk, PatchesOf, FileOf
    <3>2. \A a, b : Done(a, b)' = Done(a, b)
      BY <1>1 DEF Done, HasClass, InPlace, LibrariesOf, FileOf, Disk
    <3>3. \A a, b : Whole(a, b)' = Whole(a, b)
      BY <1>1, <2>2 DEF Whole, InPlace, LibrariesOf, FileOf, Disk
    <3>p. PackageShape'
      BY <1>1 DEF PatchInv, PackageInv, PackageShape
    <3>4. \A i \in 1..Len(Files') : \A patch \in PatchesOf(Files[i].path)' : Done(Files[i].path, patch)'
      BY <2>6, <3>1, <3>2
    <3>5. \A a \in DOMAIN Disk' : \A patch \in PatchesOf(a)' : Whole(a, patch)'
      BY <3>1, <3>3 DEF PatchInv, PackageInv
    <3> QED
      BY <1>1, <1>2, <2>2, <3>p, <3>4, <3>5 DEF PackageInv
  <2> QED
    BY <2>4, <2>5, <2>7 DEF PatchInv
<1> QED
  BY <1>3, <1>4

\* The place of a host that patches a package, and that no other patch is for it.
LEMMA PatchingPlace ==
  ASSUME PackagesArePatchedOnce, HostInv, FilesInv, PatchInv, NEW h \in Hosts, Patches(h),
         NEW path, path = Files[pc[h].file].path, NEW patch, patch = Patch(h)
  PROVE  /\ memory.initialized /\ flags.helpers /\ path \in DOMAIN Disk
         /\ pc[h].file \in 1..Len(Files) /\ Len(Files) \in Nat
         /\ patch \in PatchesOf(path) /\ Tail(pc[h].patches) \in Seq(PatchesOf(path))
         /\ \A q \in ToSet(pc[h].patches) : q = patch \/ q \in ToSet(Tail(pc[h].patches))
         /\ FindSymbol(Files[pc[h].file].id, patch.flagIn) <=> patch.flagIn \in ToSet(LibrariesOf(path))
         /\ \A a \in DOMAIN Disk : \A q \in PatchesOf(a) :
              q.package = patch.package => q = patch /\ LibrariesOf(a) = LibrariesOf(path)
<1> DEFINE list == pc[h].patches
<1>1. pc[h].at = "files" /\ list # <<>>
  BY PatchesMove DEF HostInv
<1>2. /\ memory.initialized /\ flags.helpers
      /\ pc[h].file \in 1..Len(Files) /\ Len(Files) \in Nat
      /\ list \in Seq(PatchesOf(path))
  BY <1>1, LenProperties DEF WalkInv, FilesInv, PatchInv
<1>3. path \in DOMAIN Disk
  <2>1. pc[h].file \in DOMAIN Files /\ Files \in Seq(LoadedFile)
    BY <1>2, LenProperties DEF FilesInv
  <2>2. Files[pc[h].file] \in LoadedFile
    BY <2>1
  <2> QED
    BY <2>2 DEF LoadedFile
<1>4. /\ patch \in PatchesOf(path) /\ Tail(list) \in Seq(PatchesOf(path))
      /\ \A q \in ToSet(list) : q = patch \/ q \in ToSet(Tail(list))
  <2>1. patch \in PatchesOf(path) /\ Tail(list) \in Seq(PatchesOf(path))
    BY <1>1, <1>2, HeadTailProperties DEF Patch
  <2>2. /\ Len(list) \in Nat /\ DOMAIN list = 1..Len(list)
        /\ patch = list[1] /\ Len(Tail(list)) = Len(list) - 1
        /\ \A i \in 1..Len(Tail(list)) : Tail(list)[i] = list[i + 1]
    BY <1>1, <1>2, HeadTailProperties, LenProperties DEF Patch
  <2>3. DOMAIN Tail(list) = 1..Len(Tail(list))
    BY <2>1, LenProperties
  <2>4. ASSUME NEW i \in DOMAIN list, i # 1
        PROVE  i - 1 \in DOMAIN Tail(list) /\ Tail(list)[i - 1] = list[i]
    BY <2>2, <2>3, <2>4
  <2>5. ASSUME NEW q \in ToSet(list) PROVE q = list[1] \/ q \in ToSet(Tail(list))
    <3>1. PICK i \in DOMAIN list : q = list[i]
      BY <2>5 DEF ToSet
    <3>2. i # 1 => list[i] \in ToSet(Tail(list))
      BY <2>4 DEF ToSet
    <3> QED
      BY <3>1, <3>2
  <2> QED
    BY <2>1, <2>2, <2>5
<1>5. FindSymbol(Files[pc[h].file].id, patch.flagIn) <=> patch.flagIn \in ToSet(LibrariesOf(path))
  BY <1>2 DEF FindSymbol, FilesInv
<1>6. ASSUME NEW a \in DOMAIN Disk, NEW q \in PatchesOf(a), q.package = patch.package
      PROVE  q = patch /\ LibrariesOf(a) = LibrariesOf(path)
  <2>1. world \in Worlds
    BY DEF FilesInv
  <2>2. q \in ToSet(world.disk[a].patches) /\ patch \in ToSet(world.disk[path].patches)
    BY <1>4 DEF PatchesOf, FileOf, Disk
  <2>3. q = patch /\ world.disk[a] = world.disk[path]
    BY <2>1, <2>2, <1>3, <1>6 DEF PackagesArePatchedOnce, Disk
  <2> QED
    BY <2>3 DEF LibrariesOf, FileOf, Disk
<1> QED
  BY <1>2, <1>3, <1>4, <1>5, <1>6

\* The packages get more functions and flags, and lose none.
Grows == \A a \in DOMAIN Disk : \A q \in PatchesOf(a) :
           /\ InPlace(q) => InPlace(q)'
           /\ HasClass(q) /\ packages[q.package].flag => packages'[q.package].flag

LEMMA PackagesGrow ==
  ASSUME HostInv, FilesInv, PatchInv, NEW h \in Hosts, pc[h].at = "files", UNCHANGED <<world, memory, flags>>,
         \A g \in Hosts : g # h => pc'[g] = pc[g],
         PackageShape', Grows, \A a \in DOMAIN Disk : \A q \in PatchesOf(a) : Whole(a, q)',
         WalkInv(h)'
  PROVE  PatchInv'
<1>1. UNCHANGED <<Files, flags>> /\ \A a : PatchesOf(a)' = PatchesOf(a)
  BY DEF Files, PatchesOf, FileOf, Disk
<1>2. ASSUME NEW a \in DOMAIN Disk, NEW q \in PatchesOf(a), Done(a, q) PROVE Done(a, q)'
  BY <1>2 DEF Grows, Done, HasClass, LibrariesOf, FileOf, Disk
<1>3. \A i \in 1..Len(Files) : Files[i].path \in DOMAIN Disk
  <2>1. \A i \in 1..Len(Files) : Files[i] \in LoadedFile
    BY LenProperties, ElementOfSeq DEF FilesInv
  <2> QED
    BY <2>1 DEF LoadedFile
<1>4. flags'.patched => \A i \in 1..Len(Files') : \A q \in PatchesOf(Files[i].path)' : Done(Files[i].path, q)'
  <2>1. flags.patched => \A i \in 1..Len(Files) : \A q \in PatchesOf(Files[i].path) : Done(Files[i].path, q)
    BY DEF PatchInv, PackageInv
  <2> QED
    BY <1>1, <1>2, <1>3, <2>1
<1>5. PackageInv'
  <2>1. \A a \in DOMAIN Disk' : \A q \in PatchesOf(a)' : Whole(a, q)'
    BY <1>1 DEF Disk
  <2>2. flags'.patched => memory'.initialized
    BY DEF PatchInv, PackageInv
  <2> QED
    BY <1>4, <2>1, <2>2 DEF PackageInv
<1>6. \A g \in Hosts : g # h => WalkInv(g)'
  BY OthersPass
<1> QED
  BY <1>5, <1>6 DEF PatchInv

\* A host goes to its next patch when it has tried this one.
LEMMA TailWalk ==
  ASSUME PackagesArePatchedOnce, HostInv, FilesInv, PatchInv, NEW h \in Hosts, Patches(h), NextPatch(h),
         UNCHANGED <<world, memory, flags>>, Grows,
         NEW path, path = Files[pc[h].file].path, NEW patch, patch = Patch(h), Done(path, patch)'
  PROVE  WalkInv(h)'
<1> DEFINE k == pc[h].file
           rest == Tail(pc[h].patches)
<1>1. /\ memory.initialized /\ flags.helpers /\ k \in 1..Len(Files) /\ Len(Files) \in Nat
      /\ rest \in Seq(PatchesOf(path)) /\ pc[h].at = "files"
      /\ \A q \in ToSet(pc[h].patches) : q = patch \/ q \in ToSet(rest)
  BY PatchingPlace, PatchesMove DEF HostInv
<1>2. pc'[h].at = "files" /\ pc'[h].file = k /\ pc'[h].patches = rest /\ pc'[h].stored = {}
  BY <1>1 DEF NextPatch, HostInv, LabelInv
<1>3. /\ Files' = Files /\ \A a : PatchesOf(a)' = PatchesOf(a)
      /\ k \in 0..Len(Files) /\ k # 0
  BY <1>1 DEF Files, PatchesOf, FileOf, Disk
<1>4. ASSUME NEW i \in 1..k, NEW q \in PatchesOf(Files[i].path)
      PROVE  Done(Files[i].path, q)' \/ (i = k /\ q \in ToSet(rest))
  <2>1. Done(Files[i].path, q) \/ (i = k /\ q \in ToSet(pc[h].patches))
    BY <1>1 DEF PatchInv, WalkInv
  <2>2. CASE Done(Files[i].path, q)
    <3>1. Files[i].path \in DOMAIN Disk
      <4>1. i \in 1..Len(Files)
        BY <1>1
      <4>2. Files[i] \in LoadedFile
        BY <4>1, LenProperties, ElementOfSeq DEF FilesInv
      <4> QED
        BY <4>2 DEF LoadedFile
    <3> QED
      BY <2>2, <3>1, <1>3 DEF Grows, Done, HasClass, LibrariesOf, FileOf, Disk
  <2>3. CASE i = k /\ q \in ToSet(pc[h].patches)
    <3>1. q = patch \/ q \in ToSet(rest)
      BY <2>3, <1>1
    <3>2. Files'[i].path = path
      BY <2>3, <1>3
    <3> QED
      BY <2>3, <3>1, <3>2
  <2> QED
    BY <2>1, <2>2, <2>3
<1>5. ASSUME NEW i \in 1..k, NEW q \in PatchesOf(Files[i].path)'
      PROVE  Done(Files[i].path, q)' \/ (i = k /\ q \in ToSet(rest))
  <2>1. q \in PatchesOf(Files[i].path)
    BY DEF PatchesOf, FileOf, Disk, Files
  <2> QED
    BY <1>4, <2>1
<1>6. pc'[h].patches \in Seq(PatchesOf(Files[pc[h].file].path)')
  BY <1>1, <1>2 DEF PatchesOf, FileOf, Disk, Files
<1>7. memory'.initialized /\ flags'.helpers /\ \A i : i \notin Slots \cap pc'[h].stored
  BY <1>1, <1>2
<1> HIDE DEF k, rest
<1> QED
  BY <1>2, <1>3, <1>5, <1>6, <1>7 DEF WalkInv

\* A patch that has no class to patch is tried in vain.
LEMMA SkipPatchStep ==
  ASSUME PackagesArePatchedOnce, HostInv, FilesInv, PatchInv, NEW h \in Hosts, SkipPatch(h)
  PROVE  PatchInv'
<1> Patches(h)
  BY DEF Patches
<1>1. UNCHANGED <<world, memory, flags, packages>> /\ NextPatch(h) /\ ~HasClass(Patch(h))
  BY DEF SkipPatch
<1>2. pc[h].at = "files" /\ \A g \in Hosts : g # h => pc'[g] = pc[g]
  BY PatchesMove DEF HostInv
<1>3. PackageShape'
  BY <1>1 DEF PatchInv, PackageInv, PackageShape
<1>4. Grows
  BY <1>1 DEF Grows, InPlace
<1>5. \A a \in DOMAIN Disk : \A q \in PatchesOf(a) : Whole(a, q)'
  BY <1>1 DEF PatchInv, PackageInv, Whole, InPlace, LibrariesOf, FileOf, Disk
<1>6. WalkInv(h)'
  <2>1. PICK path, patch : path = Files[pc[h].file].path /\ patch = Patch(h)
    OBVIOUS
  <2>2. Done(path, patch)'
    BY <1>1, <2>1 DEF Done, HasClass
  <2> QED
    BY <1>1, <1>4, <2>1, <2>2, TailWalk
<1> QED
  BY <1>1, <1>2, <1>3, <1>4, <1>5, <1>6, PackagesGrow

\* One function more, or the end.
LEMMA PatchFunctionStep ==
  ASSUME PackagesArePatchedOnce, HostInv, FlagsInv, FilesInv, PatchInv, NEW h \in Hosts, PatchFunction(h)
  PROVE  PatchInv'
<1> Patches(h)
  BY DEF Patches
<1>1. PICK path, patch : path = Files[pc[h].file].path /\ patch = Patch(h)
  OBVIOUS
<1>2. /\ pc[h].at = "files" /\ pc[h].patches # <<>> /\ UNCHANGED <<world, memory>> /\ HasClass(patch)
      /\ \A g \in Hosts : g # h => pc'[g] = pc[g]
  BY <1>1, PatchesMove DEF HostInv, PatchFunction
<1>3. CASE Fatal /\ UNCHANGED <<pc, packages>>
  <2>1. flags'.patched = flags.patched /\ flags'.helpers = flags.helpers
    BY <1>3 DEF Fatal, FlagsInv
  <2>2. PackageInv'
    BY <1>2, <1>3, <2>1, PackagesStay DEF PatchInv
  <2>3. \A g \in Hosts : WalkInv(g)'
    BY <1>2, <1>3, <2>1, WalkStays DEF PatchInv, Passes
  <2> QED
    BY <2>2, <2>3 DEF PatchInv
<1>4. ASSUME NEW i \in Unstored(h),
             packages' = [packages EXCEPT ![Patch(h).package].funcTable[i] = Patch(h).methods[i]],
             pc' = [pc EXCEPT ![h].stored = @ \cup {i}], flags' = flags
      PROVE  PatchInv'
  <2> DEFINE p == patch.package
  <2>1. i \in Slots /\ p \in world.packages /\ PackageShape
    BY <1>1, <1>2, <1>4 DEF Unstored, HasClass, PatchInv, PackageInv
  <2>2. /\ \A b \in world.packages : b # p => packages'[b] = packages[b]
        /\ packages'[p].flag = packages[p].flag
        /\ packages'[p].funcTable[i] = patch.methods[i]
        /\ \A j \in Slots : j # i => packages'[p].funcTable[j] = packages[p].funcTable[j]
    BY <1>1, <1>4, <2>1 DEF PackageShape
  <2>3. PackageShape'
    BY <1>1, <1>2, <1>4, <2>1 DEF PackageShape
  <2>4. ASSUME NEW a \in DOMAIN Disk, NEW q \in PatchesOf(a), q.package \in world.packages
        PROVE  (InPlace(q) => InPlace(q)') /\ packages'[q.package].flag = packages[q.package].flag
    <3>1. CASE q.package = p
      <4>1. q = patch
        BY <1>1, <2>4, <3>1, PatchingPlace
      <4> QED
        BY <2>2, <4>1 DEF InPlace
    <3>2. CASE q.package # p
      BY <2>2, <2>4, <3>2 DEF InPlace
    <3> QED
      BY <3>1, <3>2
  <2>5. ASSUME NEW a \in DOMAIN Disk, NEW q \in PatchesOf(a), q.package \notin world.packages
        PROVE  InPlace(q) => InPlace(q)'
    BY <1>1, <1>4, <2>1, <2>5 DEF InPlace
  <2>6. Grows
    BY <2>4, <2>5 DEF Grows, HasClass
  <2>7. \A a \in DOMAIN Disk : \A q \in PatchesOf(a) : Whole(a, q)'
    BY <1>2, <1>4, <2>4 DEF PatchInv, PackageInv, Whole, LibrariesOf, FileOf, Disk
  <2>8. WalkInv(h)'
    <3>1. /\ pc'[h].at = "files" /\ pc'[h].file = pc[h].file /\ pc'[h].patches = pc[h].patches
          /\ pc'[h].stored = pc[h].stored \cup {i}
      BY <1>2, <1>4 DEF HostInv, LabelInv
    <3>2. Files' = Files /\ \A a : PatchesOf(a)' = PatchesOf(a)
      BY <1>2 DEF Files, PatchesOf, FileOf, Disk
    <3>3. \A j \in Slots \cap pc'[h].stored : packages'[p].funcTable[j] = patch.methods[j]
      BY <1>1, <1>2, <2>2, <3>1 DEF PatchInv, WalkInv
    <3>4. ASSUME NEW l \in 1..pc[h].file, NEW q \in PatchesOf(Files[l].path)
          PROVE  Done(Files[l].path, q)' \/ (l = pc[h].file /\ q \in ToSet(pc[h].patches))
      <4>1. Files[l].path \in DOMAIN Disk
        <5>1. l \in 1..Len(Files)
          BY <1>1, PatchingPlace
        <5>2. Files[l] \in LoadedFile
          BY <5>1, LenProperties, ElementOfSeq DEF FilesInv
        <5> QED
          BY <5>2 DEF LoadedFile
      <4> QED
        BY <1>2, <2>6, <3>2, <4>1 DEF PatchInv, WalkInv, Grows, Done, HasClass, LibrariesOf, FileOf, Disk
    <3>5. Patch(h)' = patch /\ memory'.initialized /\ flags'.helpers
      BY <1>1, <1>2, <1>4, <3>1 DEF Patch, PatchInv, WalkInv
    <3>6. /\ pc[h].file \in 0..Len(Files) /\ pc[h].file # 0
          /\ pc[h].patches \in Seq(PatchesOf(Files[pc[h].file].path))
      BY <1>1, <1>2, PatchingPlace DEF PatchInv, WalkInv
    <3>7. \A l \in 1..pc'[h].file : \A q \in PatchesOf(Files[l].path)' :
            Done(Files[l].path, q)' \/ (l = pc'[h].file /\ q \in ToSet(pc'[h].patches))
      BY <3>1, <3>2, <3>4
    <3> QED
      BY <1>2, <3>1, <3>2, <3>3, <3>5, <3>6, <3>7 DEF WalkInv
  <2> QED
    BY <1>2, <1>4, <2>3, <2>6, <2>7, <2>8, PackagesGrow
<1> QED
  BY <1>3, <1>4 DEF PatchFunction

\* The flag, when every function is in place.
LEMMA PatchFlagStep ==
  ASSUME PackagesArePatchedOnce, HostInv, FilesInv, PatchInv, NEW h \in Hosts, PatchFlag(h)
  PROVE  PatchInv'
<1> Patches(h)
  BY DEF Patches
<1>1. PICK path, patch, found : /\ path = Files[pc[h].file].path /\ patch = Patch(h)
                                /\ found = FindSymbol(Files[pc[h].file].id, patch.flagIn)
  OBVIOUS
<1> DEFINE p == patch.package
<1>2. /\ pc[h].at = "files" /\ UNCHANGED <<world, memory, flags>> /\ HasClass(patch) /\ NextPatch(h)
      /\ packages' = [packages EXCEPT ![p].flag = @ \/ found]
      /\ \A g \in Hosts : g # h => pc'[g] = pc[g]
  BY <1>1, PatchesMove DEF HostInv, PatchFlag, SetFlag
<1>3. p \in world.packages /\ PackageShape /\ found \in BOOLEAN
  BY <1>1, <1>2 DEF HasClass, PatchInv, PackageInv, FindSymbol
<1>4. /\ \A b \in world.packages : b # p => packages'[b] = packages[b]
      /\ packages'[p].flag = (packages[p].flag \/ found)
      /\ packages'[p].funcTable = packages[p].funcTable
      /\ \A b : packages'[b].funcTable = packages[b].funcTable
  BY <1>2, <1>3 DEF PackageShape
<1>5. PackageShape'
  BY <1>2, <1>3 DEF PackageShape
<1>6. Grows
  BY <1>2, <1>3, <1>4 DEF Grows, InPlace, HasClass, PackageShape
<1>7. InPlace(patch)
  <2>1. \A i \in Slots : patch.methods[i] # None => i \in Slots \cap pc[h].stored
    BY <1>1 DEF PatchFlag, Unstored
  <2> QED
    BY <1>1, <1>2, <2>1 DEF PatchInv, WalkInv, InPlace
<1>8. found <=> patch.flagIn \in ToSet(LibrariesOf(path))
  BY <1>1, PatchingPlace
<1>9. ASSUME NEW a \in DOMAIN Disk, NEW q \in PatchesOf(a) PROVE Whole(a, q)'
  <2>1. CASE q.package = p
    <3>1. q = patch /\ LibrariesOf(a) = LibrariesOf(path)
      BY <1>1, <2>1, PatchingPlace
    <3>2. packages[p].flag => q.flagIn \in ToSet(LibrariesOf(a))
      BY <1>3, <2>1 DEF PatchInv, PackageInv, Whole
    <3>3. flags.helpers /\ flags' = flags
      BY <1>1, <1>2, PatchingPlace
    <3>4. InPlace(q)' /\ LibrariesOf(a)' = LibrariesOf(a)
      BY <1>2, <1>4, <1>7, <3>1 DEF InPlace, LibrariesOf, FileOf, Disk
    <3> QED
      BY <1>4, <1>8, <2>1, <3>1, <3>2, <3>3, <3>4 DEF Whole
  <2>2. CASE q.package # p
    <3>1. Whole(a, q)
      BY DEF PatchInv, PackageInv
    <3> QED
      BY <1>2, <1>4, <2>2, <3>1 DEF Whole, InPlace, LibrariesOf, FileOf, Disk
  <2> QED
    BY <2>1, <2>2
<1>10. Done(path, patch)'
  BY <1>2, <1>3, <1>4, <1>7, <1>8 DEF Done, HasClass, InPlace, LibrariesOf, FileOf, Disk
<1>11. WalkInv(h)'
  BY <1>1, <1>2, <1>6, <1>10, TailWalk
<1> QED
  BY <1>2, <1>5, <1>6, <1>9, <1>11, PackagesGrow

LEMMA PatchStep ==
  ASSUME PackagesArePatchedOnce, HostInv, FlagsInv, FilesInv, PatchInv, [Next]_vars
  PROVE  PatchInv'
<1>1. memory.initialized => memory' = memory
  BY NextHost
<1>2. flags.helpers => flags'.helpers
  BY FlagsStep
<1>3. ASSUME UNCHANGED <<world, packages>>, flags'.patched = flags.patched, \A g \in Hosts : Passes(g)
      PROVE  PatchInv'
  BY <1>1, <1>2, <1>3, PackagesStay, WalkStays DEF PatchInv
<1>4. CASE BecomeVisible \/ UNCHANGED vars \/ \E c \in Collectors : Callback(c) \/ VisitGlobalRoots(c)
  <2>1. UNCHANGED <<world, packages, flags, pc>>
    BY <1>4 DEF BecomeVisible, vars, Callback, VisitGlobalRoots
  <2> QED
    BY <2>1, <1>3 DEF Passes
<1> QED
  BY <1>3, <1>4, PassSteps, PerformStep, NextFileStep, SkipPatchStep, PatchFunctionStep, PatchFlagStep DEF Next

LEMMA InitPatch == Init => PatchInv
<1> SUFFICES ASSUME Init PROVE PatchInv
  OBVIOUS
<1>1. /\ PackageShape /\ flags.patched = FALSE
      /\ \A p \in world.packages : packages[p].flag = FALSE
  BY DEF Init, PackageShape
<1>2. \A h \in Hosts : pc[h].at = "idle" /\ pc[h].file = 0 /\ pc[h].patches = <<>> /\ pc[h].stored = {}
  BY DEF Init, Idle
<1> QED
  BY <1>1, <1>2 DEF PatchInv, PackageInv, Whole, WalkInv

\* However many hosts patch, function by function: a package whose flag is set runs the
\* functions of its patch, whose helpers are there, and after PerformPatching the
\* functions of all patches that could be applied are in place, and the flags that are set
\* are those that were found (entrypoint.cpp:115-228).
THEOREM PatchesWhole == PackagesArePatchedOnce /\ Spec => []PatchesAreWhole
<1> DEFINE Inv == HostInv /\ FilesInv /\ FlagsInv /\ PatchInv
<1> SUFFICES ASSUME PackagesArePatchedOnce PROVE Spec => []PatchesAreWhole
  OBVIOUS
<1>1. Init => Inv
  BY InitHost, InitFiles, InitPatch
<1>2. Inv /\ [Next]_vars => Inv'
  BY NextHost, FilesStep, FlagsStep, PatchStep
<1>3. Inv => PatchesAreWhole
  <2> SUFFICES ASSUME Inv, NEW path \in Loaded, NEW patch \in Applicable(path)
               PROVE  /\ packages[patch.package].flag => flags.helpers /\ InPlace(patch)
                      /\ flags.patched =>
                           /\ InPlace(patch)
                           /\ packages[patch.package].flag <=> patch.flagIn \in ToSet(LibrariesOf(path))
    BY DEF PatchesAreWhole
  <2>1. patch \in PatchesOf(path) /\ HasClass(patch) /\ patch.package \in world.packages
    BY DEF Applicable, PatchesOf, HasClass
  <2>2. PICK k \in 1..Len(Files) : path = Files[k].path
    BY LenProperties DEF Loaded, FilesInv
  <2>3. path \in DOMAIN Disk
    <3>1. Files[k] \in LoadedFile
      BY ElementOfSeq DEF FilesInv
    <3> QED
      BY <3>1, <2>2 DEF LoadedFile
  <2>4. Whole(path, patch)
    BY <2>1, <2>3 DEF PatchInv, PackageInv
  <2>5. flags.patched => Done(path, patch)
    BY <2>1, <2>2 DEF PatchInv, PackageInv
  <2>6. packages[patch.package].flag \in BOOLEAN
    BY <2>1 DEF PatchInv, PackageInv, PackageShape
  <2> QED
    BY <2>1, <2>4, <2>5, <2>6 DEF Whole, Done
<1> QED
  BY <1>1, <1>2, <1>3, PTL DEF Spec
================================================================================
