-------------------------------- MODULE Startup --------------------------------
(***************************************************************************)
(* The start of the engine: what the launcher and the preloaded library    *)
(* call, in which order (tools/launcher, include/cbc_engine.h), how        *)
(* entrypoint.cpp answers, the loading of files (cbc_loader.cpp,           *)
(* engine.cpp), the patching of compiled packages, and the callbacks that  *)
(* the collector makes in the meantime.                                    *)
(*                                                                         *)
(* The callbacks read g_Initialized without the guard that its writer      *)
(* holds, so what they read is what has become visible to them.            *)
(***************************************************************************)
EXTENDS Integers, FiniteSets, Sequences, SequencesExt

CONSTANTS
  Hosts,          \* the threads that call the engine's functions
  Collectors,     \* the threads of the runtime that make callbacks
  Worlds,         \* options, scripts of the hosts, files and libraries
  StoresInOrder   \* whether stores become visible in the order of the program

None == "none"

ASSUME NoneIsNoHost == None \notin Hosts

\* The directory lists files that are there, and a file lists its patches.
ASSUME WorldsAssumption ==
  \A w \in Worlds :
    /\ w.directory \subseteq DOMAIN w.disk
    /\ \A path \in DOMAIN w.disk : w.disk[path].patches \in Seq(ToSet(w.disk[path].patches))

VARIABLES
  world,
  pc,             \* host -> the call it is in, and where
  script,         \* host -> the calls that are left
  main,           \* g_mainCbc
  guard,          \* the holder of g_InitializationGuard
  flags,          \* g_OptionsInitialized, g_Patched, and whether bridge_init got that far
  loader,         \* the scan of the directory, the files loaded so far
  memory,         \* g_engineInstance and g_Initialized
  visible,        \* the same, as the collectors read them
  stores,         \* the stores that are not visible yet
  packages,       \* the compiled packages: funcTable and flag
  visits          \* collector -> where its callback is

vars == <<world, pc, script, main, guard, flags, loader, memory, visible, stores, packages, visits>>

Disk == world.disk
Slots == 0..1

\* stored: the slots of the package at the head of patches that are patched.
Idle == [call |-> None, at |-> "idle", file |-> 0, patches |-> <<>>, stored |-> {}]
NotBuilt == [built |-> FALSE, files |-> <<>>, rafs |-> <<>>, deps |-> <<>>, foreignLibs |-> <<>>]
NothingLoaded == [todo |-> {}, fileCounter |-> 0, files |-> <<>>, rafs |-> <<>>]

Init ==
  /\ world \in Worlds
  /\ pc = [h \in Hosts |-> Idle]
  /\ script = world.scripts
  /\ main = world.main
  /\ guard = None
  /\ flags = [options |-> FALSE, interface |-> FALSE, patched |-> FALSE, helpers |-> FALSE,
              builtins |-> FALSE, entry |-> <<>>, stopped |-> FALSE]
  /\ loader = NothingLoaded
  /\ memory = [engine |-> NotBuilt, initialized |-> FALSE]
  /\ visible = memory
  /\ stores = <<>>
  /\ packages = [p \in world.packages |-> [funcTable |-> [i \in Slots |-> "compiled"], flag |-> FALSE]]
  /\ visits = [c \in Collectors |-> "idle"]

--------------------------------------------------------------------------------
At(h, call, label) == ~flags.stopped /\ pc[h].call = call /\ pc[h].at = label
Anywhere(h, label) == ~flags.stopped /\ pc[h].at = label
Goto(h, label) == pc' = [pc EXCEPT ![h].at = label]
Leave(h) == pc' = [pc EXCEPT ![h] = Idle]
Files == memory.engine.files
FileOf(path) == Disk[path]

\* FATAL and std::terminate end the process.
Fatal == flags' = [flags EXCEPT !.stopped = TRUE]

Call(h) ==
  /\ Anywhere(h, "idle") /\ script[h] # <<>>
  /\ pc' = [pc EXCEPT ![h] = [Idle EXCEPT !.call = Head(script[h]), !.at = "options"]]
  /\ script' = [script EXCEPT ![h] = Tail(@)]
  /\ UNCHANGED <<world, main, guard, flags, loader, memory, visible, stores, packages, visits>>

--------------------------------------------------------------------------------
(* InitEnvOpts: CBCOPT may name another main file than the caller did.        *)

AfterOptions(call) == IF call = "bridge" THEN "symbols" ELSE "guard"

InitEnvOpts(h) ==
  /\ Anywhere(h, "options") /\ pc[h].call # "trampoline" /\ guard = None
  /\ flags' = [flags EXCEPT !.options = TRUE]
  /\ main' = IF ~flags.options /\ world.envMain # None THEN world.envMain ELSE main
  /\ Goto(h, AfterOptions(pc[h].call))
  /\ UNCHANGED <<world, script, guard, loader, memory, visible, stores, packages, visits>>

\* interpreter_bridge_init: the runtime's symbols, then its table of callbacks.  Its
\* arguments could name a main file as well; the launcher and the preloaded library
\* pass none (engine-common.c).
BridgeInit(h) ==
  /\ At(h, "bridge", "symbols")
  /\ IF world.symbolsFound
     THEN /\ flags' = [flags EXCEPT !.interface = TRUE]
          /\ Goto(h, IF main = None THEN "options again" ELSE "builtins")
          /\ UNCHANGED script
     ELSE \* the launcher exits, the preloaded library goes on without the engine
          /\ Leave(h)
          /\ script' = [script EXCEPT ![h] = <<>>]
          /\ UNCHANGED flags
  /\ UNCHANGED <<world, main, guard, loader, memory, visible, stores, packages, visits>>

FillBuiltinTypeInfos(h) ==
  /\ At(h, "bridge", "builtins")
  /\ flags' = [flags EXCEPT !.builtins = TRUE]
  /\ Leave(h)
  /\ UNCHANGED <<world, script, main, guard, loader, memory, visible, stores, packages, visits>>

--------------------------------------------------------------------------------
(* EnsureEngineInitialized.  PerformPatching calls it first, and its own call *)
(* of InitEnvOpts finds the options set.                                      *)

OptionsAgain(h) ==
  /\ Anywhere(h, "options again") /\ guard = None
  /\ Goto(h, "guard")
  /\ UNCHANGED <<world, script, main, guard, flags, loader, memory, visible, stores, packages, visits>>

\* PerformPatching goes on, the others return.
Initialized(h) == IF pc[h].call = "bridge" THEN Goto(h, "patch") ELSE Leave(h)

\* Mutant: the engine is built without a look at the flag.
GuardOnly(h) ==
  /\ Anywhere(h, "guard") /\ guard = None
  /\ Goto(h, "scan") /\ guard' = h
  /\ loader' = [NothingLoaded EXCEPT !.todo = world.directory]
  /\ UNCHANGED <<world, script, main, flags, memory, visible, stores, packages, visits>>

TakeGuard(h) ==
  /\ Anywhere(h, "guard") /\ guard = None
  /\ IF memory.initialized
     THEN Initialized(h) /\ UNCHANGED <<guard, loader>>
     ELSE /\ Goto(h, "scan") /\ guard' = h
          /\ loader' = [NothingLoaded EXCEPT !.todo = world.directory]
  /\ UNCHANGED <<world, script, main, flags, memory, visible, stores, packages, visits>>

\* Loader::Load: a file with a wrong magic number leaves no trace.
Load(loaded, path) ==
  IF ~FileOf(path).valid THEN loaded
  ELSE [loaded EXCEPT !.fileCounter = @ + 1,
                      !.files = Append(@, [id |-> loaded.fileCounter, path |-> path]),
                      !.rafs = Append(@, path)]

\* LoadCbcFilesFromDirectory: in the order of readdir, which may fail on the way; the
\* main file, under whatever name, is left for later.
IsMain(path) == main \in DOMAIN Disk /\ Disk[main].inode = Disk[path].inode

\* Mutant: only the name of the main file is left out.
ExcludedByName(path) == ~FileOf(path).regular \/ main = path \/ ~FileOf(path).opens

Excluded(path) == ~FileOf(path).regular \/ IsMain(path) \/ ~FileOf(path).opens

ScanDirectory(h) ==
  /\ Anywhere(h, "scan")
  /\ \/ \E path \in loader.todo :
          /\ loader' = IF Excluded(path) THEN [loader EXCEPT !.todo = @ \ {path}]
                       ELSE Load([loader EXCEPT !.todo = @ \ {path}], path)
          /\ UNCHANGED pc
     \/ (loader.todo = {} \/ ~world.readable) /\ Goto(h, "main") /\ UNCHANGED loader
  /\ UNCHANGED <<world, script, main, guard, flags, memory, visible, stores, packages, visits>>

LoadMain(h) ==
  /\ Anywhere(h, "main")
  /\ loader' = IF main \in DOMAIN Disk /\ FileOf(main).opens THEN Load(loader, main) ELSE loader
  /\ Goto(h, "intrinsics")
  /\ UNCHANGED <<world, script, main, guard, flags, memory, visible, stores, packages, visits>>

LoadIntrinsics(h) ==
  /\ Anywhere(h, "intrinsics")
  /\ \/ /\ world.intrinsics = None   \* the directory of the library is not known
        /\ Goto(h, "build") /\ UNCHANGED <<loader, flags>>
     \/ /\ world.intrinsics \in DOMAIN Disk /\ FileOf(world.intrinsics).opens
        /\ loader' = Load(loader, world.intrinsics) /\ Goto(h, "build") /\ UNCHANGED flags
     \/ /\ world.intrinsics # None
        /\ ~(world.intrinsics \in DOMAIN Disk /\ FileOf(world.intrinsics).opens)
        /\ Fatal /\ UNCHANGED <<loader, pc>>
  /\ UNCHANGED <<world, script, main, guard, memory, visible, stores, packages, visits>>

\* ReadDependencies: the libraries of a file, found through its place in the list.
LibrariesOf(path) == <<"executable">> \o FileOf(path).aotDeps
ForeignLibsOf(path) == <<"libc">> \o FileOf(path).foreignLibs

Built ==
  [built |-> TRUE, files |-> loader.files, rafs |-> loader.rafs,
   deps |-> [i \in DOMAIN loader.rafs |-> LibrariesOf(loader.rafs[i])],
   foreignLibs |-> [i \in DOMAIN loader.rafs |-> ForeignLibsOf(loader.rafs[i])]]

\* Mutant: the flag is set before the engine is there.
StoresReversed == <<[cell |-> "initialized", value |-> TRUE], [cell |-> "engine", value |-> Built]>>

StoresOfBuild == <<[cell |-> "engine", value |-> Built], [cell |-> "initialized", value |-> TRUE]>>

Build(h) ==
  /\ Anywhere(h, "build")
  /\ memory' = [engine |-> Built, initialized |-> TRUE]
  /\ stores' = stores \o StoresOfBuild
  /\ guard' = None
  /\ Initialized(h)
  /\ UNCHANGED <<world, script, main, flags, loader, visible, packages, visits>>

--------------------------------------------------------------------------------
(* PerformPatching.  The guard was given up after the initialisation.         *)

FindSymbol(id, symbolLib) == id + 1 \in DOMAIN memory.engine.deps /\ symbolLib \in ToSet(memory.engine.deps[id + 1])

\* FindAndPrepareHelpers: a helper that is missing or cannot be rewritten is fatal.
Helpers == {i \in DOMAIN Files : FileOf(Files[i].path).hasHelpers}
HelpersPrepared == Helpers # {} /\ FileOf(Files[Min(Helpers)].path).helpersRewrite

PerformPatching(h) ==
  /\ At(h, "bridge", "patch") /\ guard = None
  /\ IF flags.patched THEN Goto(h, "builtins") /\ UNCHANGED <<guard, flags>>
     ELSE IF ~HelpersPrepared THEN Fatal /\ UNCHANGED <<pc, guard>>
     ELSE /\ guard' = h /\ Goto(h, "files")
          /\ flags' = [flags EXCEPT !.helpers = TRUE]
  /\ UNCHANGED <<world, script, main, loader, memory, visible, stores, packages, visits>>

NextFile(h) ==
  /\ Anywhere(h, "files") /\ pc[h].patches = <<>>
  /\ IF pc[h].file < Len(Files)
     THEN /\ pc' = [pc EXCEPT ![h].file = @ + 1, ![h].patches = FileOf(Files[pc[h].file + 1].path).patches]
          /\ UNCHANGED <<guard, flags>>
     ELSE /\ Goto(h, "builtins") /\ guard' = None
          /\ flags' = [flags EXCEPT !.patched = TRUE]
  /\ UNCHANGED <<world, script, main, loader, memory, visible, stores, packages, visits>>

\* One package: the functions of its patch one by one, then its flag.
Patch(h) == Head(pc[h].patches)
Patching(h) == Anywhere(h, "files") /\ pc[h].patches # <<>>
HasClass(patch) == patch.package \in world.packages /\ patch.typeInfoFound
Unstored(h) == {i \in Slots : Patch(h).methods[i] # None} \ pc[h].stored
NextPatch(h) == pc' = [pc EXCEPT ![h].patches = Tail(@), ![h].stored = {}]

SkipPatch(h) ==
  /\ Patching(h) /\ ~HasClass(Patch(h))
  /\ NextPatch(h)
  /\ UNCHANGED <<world, script, main, guard, flags, loader, memory, visible, stores, packages, visits>>

\* A function that is called directly needs a trampoline: none left is fatal.
PatchFunction(h) ==
  /\ Patching(h) /\ HasClass(Patch(h))
  /\ \E i \in Unstored(h) :
       \/ /\ packages' = [packages EXCEPT ![Patch(h).package].funcTable[i] = Patch(h).methods[i]]
          /\ pc' = [pc EXCEPT ![h].stored = @ \cup {i}]
          /\ UNCHANGED flags
       \/ ~world.trampolines /\ Fatal /\ UNCHANGED <<pc, packages>>
  /\ UNCHANGED <<world, script, main, guard, loader, memory, visible, stores, visits>>

SetFlag(h) ==
  /\ LET found == FindSymbol(Files[pc[h].file].id, Patch(h).flagIn)
     IN packages' = [packages EXCEPT ![Patch(h).package].flag = @ \/ found]
  /\ NextPatch(h)
  /\ UNCHANGED <<world, script, main, guard, flags, loader, memory, visible, stores, visits>>

\* Mutant: the flag is set while functions are still to be patched.
FlagFirst(h) == Patching(h) /\ HasClass(Patch(h)) /\ SetFlag(h)

\* Where the library has no such symbol the package is left without its flag.
PatchFlag(h) == Patching(h) /\ HasClass(Patch(h)) /\ Unstored(h) = {} /\ SetFlag(h)

--------------------------------------------------------------------------------
(* engine_get_entrypoint_trampoline; the launcher exits without one.          *)

Named == {i \in DOMAIN Files : Files[i].path = main}
FoundMain ==
  IF Named # {} /\ FileOf(Files[Min(Named)].path).hasMain THEN <<Files[Min(Named)]>> ELSE <<>>

GetEntrypointTrampoline(h) ==
  /\ At(h, "trampoline", "options")
  /\ IF ~memory.initialized \/ (FoundMain # <<>> /\ ~HelpersPrepared) THEN Fatal /\ UNCHANGED <<pc, script>>
     ELSE /\ flags' = [flags EXCEPT !.entry = FoundMain, !.helpers = @ \/ FoundMain # <<>>]
          /\ script' = [script EXCEPT ![h] = IF FoundMain = <<>> THEN <<>> ELSE @]
          /\ Leave(h)
  /\ UNCHANGED <<world, main, guard, loader, memory, visible, stores, packages, visits>>

--------------------------------------------------------------------------------
(* The callbacks: a flag that is not seen yet makes them do nothing.          *)

Earlier(i) == {j \in 1..i - 1 : StoresInOrder \/ stores[j].cell = stores[i].cell}

BecomeVisible ==
  /\ \E i \in DOMAIN stores :
       /\ Earlier(i) = {}
       /\ visible' = [visible EXCEPT ![stores[i].cell] = stores[i].value]
       /\ stores' = RemoveAt(stores, i)
  /\ UNCHANGED <<world, pc, script, main, guard, flags, loader, memory, packages, visits>>

Callback(c) ==
  /\ flags.interface /\ ~flags.stopped /\ visits[c] = "idle" /\ visible.initialized
  /\ visits' = [visits EXCEPT ![c] = "visiting"]
  /\ UNCHANGED <<world, pc, script, main, guard, flags, loader, memory, visible, stores, packages>>

VisitGlobalRoots(c) ==
  /\ ~flags.stopped /\ visits[c] = "visiting"
  /\ visits' = [visits EXCEPT ![c] = IF visible.engine.built THEN "idle" ELSE "no engine"]
  /\ UNCHANGED <<world, pc, script, main, guard, flags, loader, memory, visible, stores, packages>>

Next ==
  \/ \E h \in Hosts :
       \/ Call(h) \/ InitEnvOpts(h) \/ BridgeInit(h) \/ FillBuiltinTypeInfos(h)
       \/ OptionsAgain(h) \/ TakeGuard(h) \/ ScanDirectory(h) \/ LoadMain(h) \/ LoadIntrinsics(h)
       \/ Build(h) \/ PerformPatching(h) \/ NextFile(h)
       \/ SkipPatch(h) \/ PatchFunction(h) \/ PatchFlag(h) \/ GetEntrypointTrampoline(h)
  \/ BecomeVisible
  \/ \E c \in Collectors : Callback(c) \/ VisitGlobalRoots(c)

Spec == Init /\ [][Next]_vars

--------------------------------------------------------------------------------
\* GetEngineInstance hands out a reference that is kept everywhere: whoever is
\* second to initialise the engine finds it there (entrypoint.cpp).
EngineIsNeverReplaced == [][memory.engine.built => memory'.engine = memory.engine]_vars

\* PerformPatching stores functions and flag of a package one by one, with failures in
\* between.  A package whose flag is set runs every function of its patch, whose helpers
\* exist, at whatever point of the walk another thread looks.  When the walk is through,
\* the functions of every patch that could be applied are in place, and the flags that
\* are set are those whose library has them, whatever else could not be loaded or
\* patched: a package whose flag is not found keeps its functions without it.
Loaded == {Files[i].path : i \in DOMAIN Files}
Applicable(path) == {patch \in ToSet(FileOf(path).patches) : HasClass(patch)}
InPlace(patch) ==
  \A i \in Slots : patch.methods[i] # None => packages[patch.package].funcTable[i] = patch.methods[i]
PatchesAreWhole ==
  \A path \in Loaded : \A patch \in Applicable(path) :
    LET flag == packages[patch.package].flag
    IN /\ flag => flags.helpers /\ InPlace(patch)
       /\ flags.patched => InPlace(patch) /\ (flag <=> patch.flagIn \in ToSet(LibrariesOf(path)))

\* However the main file is named, and wherever else the directory has it, its types
\* are loaded once, and the entry that the launcher runs is in it (cbc_loader.cpp,
\* engine.cpp).
MainIsLoadedOnce ==
  memory.initialized =>
    /\ Cardinality({i \in DOMAIN Files : IsMain(Files[i].path)}) < 2
    /\ \A i \in DOMAIN flags.entry : IsMain(flags.entry[i].path)

\* A callback of the collector that sees the flag sees the engine
\* (entrypoint.cpp, GetEngineInstance).
CallbacksFindTheEngine == \A c \in Collectors : visits[c] # "no engine"
================================================================================
