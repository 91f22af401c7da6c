------------------------ MODULE FunctionHandlesProofs ------------------------
(***************************************************************************)
(* The safety properties of FunctionHandles, proved for every program,     *)
(* every set of threads and every table size.                              *)
(*                                                                         *)
(* The argument: what is shared only grows (Grows: a handle in the map,    *)
(* published bytecode and a helper are never replaced), so what a thread   *)
(* knows of it stays true whatever the other threads do; the two locks     *)
(* are needed for exactly that, and for nothing else.                      *)
(***************************************************************************)
EXTENDS FunctionHandles, SequenceTheorems, TLAPS

(***************************************************************************)
(* The inductive invariant.                                                *)
(***************************************************************************)

\* The map and the published code are keyed by what they are about.
MapInv ==
  /\ \A m \in Callable : fuhMap[m] # None => fuhMap[m].method = m
  /\ \A h \in Fuh : bytecode[h] # None =>
       /\ IsTheHandle(h) /\ h.method \in Cbc \ Broken
       /\ bytecode[h].owner = h
       /\ \A g \in bytecode[h].literals : IsTheHandle(g)

\* A helper is the handle of its method, and is set only once it has code.
HelpersInv ==
  \A h \in Helper : helpers[h] # None =>
    /\ IsTheHandle(helpers[h]) /\ helpers[h].method = HelperMethod[h]
    /\ bytecode[helpers[h]] # None

AllHelpersSet == \A h \in Helper : helpers[h] # None

TrampolinesInv ==
  /\ \A i \in DOMAIN directFuhs :
       IsTheHandle(directFuhs[i]) /\ directFuhs[i].method \in Cbc
  /\ \A e \in exported : directFuhs[e[1]] = e[2]
  /\ exported # {} => AllHelpersSet

\* t waits in AcquireTagged, and goes on to do "next".
Awaits(t, next) == request[t] # None /\ request[t].next = next

\* t is inside Rewrite, perhaps waiting in AcquireTagged for a reference.
Rewriting(t) == pc[t] = "rewrite" \/ Awaits(t, "rewrite")

\* What each label says of the locals of the thread.
LocalInv(t) ==
  /\ request[t] # None <=> pc[t] \in {"acquire", "build"}
  /\ cur[t] # None => IsTheHandle(cur[t])
  /\ \A h \in literals[t] : IsTheHandle(h)
  /\ pc[t] = "trampoline" => cur[t] # None
  /\ pc[t] \in {"enter", "prepare", "prepared", "setHelper"} \/ Rewriting(t) =>
       cur[t] # None /\ cur[t].method \in Cbc
  /\ Awaits(t, "rewrite") => pending[t] # <<>>
  /\ pc[t] = "setHelper" => bytecode[cur[t]] # None

\* The handle a launch prepares is that of the helper it is at.
HelpingInv(t) ==
  /\ pc[t] = "setHelper" => job[t] = "launch"
  /\ Awaits(t, "prepare") =>
       /\ job[t] = "launch" /\ helping[t] # None
       /\ request[t].method = HelperMethod[helping[t]]
  /\ job[t] = "launch"
     /\ (pc[t] \in {"prepare", "prepared", "setHelper"} \/ Rewriting(t)) =>
       helping[t] # None /\ cur[t].method = HelperMethod[helping[t]]

\* Who holds which lock, and what nobody else may change meanwhile.
LockInv(t) ==
  /\ pc[t] = "build" => mapLock = t /\ fuhMap[request[t].method] = None
  /\ Rewriting(t) => fuhLock[cur[t]] = t /\ bytecode[cur[t]] = None

\* What Prepare returned.
ResultInv(t) ==
  pc[t] = "prepared" =>
    /\ result[t] # None
    /\ bytecode[result[t].fuh] = result[t].info
    /\ IF result[t].success
       THEN result[t].fuh = cur[t]
       ELSE /\ cur[t].method \in Broken
            /\ result[t].fuh = helpers["ThrowSymbolResolutionError"]

\* How far a launch is, and that calls come after one.
LaunchInv(t) ==
  /\ job[t] = "launch" => \A h \in Helper \ todo[t] : helpers[h] # None
  /\ pc[t] = "trampoline" \/ Awaits(t, "trampoline") =>
       job[t] = "launch" /\ todo[t] = {}
  /\ pc[t] = "helpers" => job[t] = "launch"
  /\ pc[t] = "enter" => job[t] = "call"
  /\ job[t] = "call" /\ pc[t] # "out" => AllHelpersSet
  /\ job[t] = "idle" => pc[t] = "out"
  /\ stack[t] # <<>> => AllHelpersSet

\* A frame runs the code of the handle in its FUH slot, which is that of the
\* called method or of the error helper.
FrameOK(f) ==
  /\ f.code = bytecode[f.fuh]
  /\ f.called.method \in Cbc
  /\ \/ f.fuh = f.called
     \/ /\ f.called.method \in Broken
        /\ f.fuh = helpers["ThrowSymbolResolutionError"]

FrameInv(t) == \A i \in DOMAIN stack[t] : FrameOK(stack[t][i])

ThreadInv(t) ==
  /\ LocalInv(t) /\ HelpingInv(t) /\ LockInv(t)
  /\ ResultInv(t) /\ LaunchInv(t) /\ FrameInv(t)

IInv ==
  /\ TypeOK
  /\ MapInv /\ HelpersInv /\ TrampolinesInv
  /\ \A t \in Threads : ThreadInv(t)

\* A step of thread t.
Step(t) == EngineStep(t) \/ GuestStep(t)
------------------------------------------------------------------------------
(***************************************************************************)
(* Types.                                                                  *)
(***************************************************************************)

\* What AcquireTagged hands to its caller has the types of the variables that
\* take it.
LEMMA DeliverType ==
  ASSUME TypeOK, NEW t \in Threads, LocalInv(t), pc[t] \in {"acquire", "build"},
         NEW h \in Fuh, Deliver(t, h)
  PROVE  /\ pc' \in [Threads -> Labels]
         /\ request' \in [Threads -> Request \cup {None}]
         /\ literals' \in [Threads -> SUBSET Fuh]
         /\ pending' \in [Threads -> Seq(Methods)]
         /\ cur' \in [Threads -> Fuh \cup {None}]
<1>1. request[t] \in Request
  BY DEF TypeOK, LocalInv
<1>2. request[t].next \in {"prepare", "trampoline", "rewrite"}
  BY <1>1 DEF Request
<1>3. pc' \in [Threads -> Labels]
  BY <1>2 DEF Deliver, Goto, TypeOK, Labels
<1>4. request' \in [Threads -> Request \cup {None}]
  BY DEF Deliver, TypeOK
<1>5. CASE request[t].next = "rewrite"
  <2>1. pending[t] \in Seq(Methods) /\ pending[t] # <<>>
    BY <1>1, <1>5, NoneAssumption DEF TypeOK, LocalInv, Awaits
  <2>2. Tail(pending[t]) \in Seq(Methods)
    BY <2>1
  <2>3. pending' \in [Threads -> Seq(Methods)]
    BY <1>5, <2>2 DEF Deliver, TypeOK
  <2>4. literals[t] \cup {h} \in SUBSET Fuh
    BY DEF TypeOK
  <2>5. literals' \in [Threads -> SUBSET Fuh]
    BY <1>5, <2>4 DEF Deliver, TypeOK
  <2> QED BY <1>3, <1>4, <1>5, <2>3, <2>5 DEF Deliver, TypeOK
<1>6. CASE request[t].next # "rewrite"
  <2>1. cur' \in [Threads -> Fuh \cup {None}]
    BY <1>6 DEF Deliver, TypeOK
  <2> QED BY <1>3, <1>4, <1>6, <2>1 DEF Deliver, TypeOK
<1> QED BY <1>5, <1>6

\* Every step leaves every variable in its type.
LEMMA TypeStep ==
  ASSUME IInv, NEW t \in Threads, Step(t)
  PROVE  TypeOK'
<1> TypeOK /\ LocalInv(t) /\ LockInv(t) /\ ResultInv(t) /\ HelpingInv(t)
  BY DEF IInv, ThreadInv
<1> USE DEF launching, rewriting, guest, shared
<1>cur. ASSUME pc[t] \in {"enter", "prepare", "prepared", "setHelper", "trampoline"}
               \/ Rewriting(t)
        PROVE  cur[t] \in Fuh /\ cur[t].method \in Callable
  <2>1. cur[t] \in Fuh
    BY <1>cur DEF TypeOK, LocalInv
  <2> QED BY <2>1 DEF Fuh
<1>prepared. ASSUME pc[t] = "prepared"
             PROVE  result[t] \in Result /\ result[t].fuh \in Fuh
                    /\ result[t].info \in Code
  <2>1. result[t] \in Result
    BY <1>prepared DEF TypeOK, ResultInv
  <2> QED BY <2>1 DEF Result
<1>request. ASSUME pc[t] \in {"acquire", "build"}
            PROVE  request[t].method \in Callable
  <2>1. request[t] \in Request
    BY <1>request DEF TypeOK, LocalInv
  <2> QED BY <2>1 DEF Request
<1>AcquireHit. CASE AcquireHit(t)
  <2>1. fuhMap[request[t].method] \in Fuh
    BY <1>AcquireHit, <1>request DEF AcquireHit, At, TypeOK
  <2>2. pc' \in [Threads -> Labels]
       /\ request' \in [Threads -> Request \cup {None}]
       /\ literals' \in [Threads -> SUBSET Fuh]
       /\ pending' \in [Threads -> Seq(Methods)]
       /\ cur' \in [Threads -> Fuh \cup {None}]
    BY <1>AcquireHit, <2>1, DeliverType DEF AcquireHit, At
  <2> QED BY <1>AcquireHit, <2>1, <2>2 DEF AcquireHit, TypeOK
<1>AcquireMiss. CASE AcquireMiss(t)
  <2>1. pc' \in [Threads -> Labels]
    BY <1>AcquireMiss DEF AcquireMiss, Goto, TypeOK, Labels
  <2> QED BY <1>AcquireMiss, <2>1 DEF AcquireMiss, TypeOK
<1>Build. CASE Build(t)
  <2>1. [method |-> request[t].method, maker |-> t] \in Fuh
    BY <1>Build, <1>request DEF Build, At, Fuh
  <2>2. pc' \in [Threads -> Labels]
       /\ request' \in [Threads -> Request \cup {None}]
       /\ literals' \in [Threads -> SUBSET Fuh]
       /\ pending' \in [Threads -> Seq(Methods)]
       /\ cur' \in [Threads -> Fuh \cup {None}]
    BY <1>Build, <2>1, DeliverType DEF Build, At
  <2>3. fuhMap' \in [Callable -> Fuh \cup {None}]
    BY <1>Build, <2>1 DEF Build, TypeOK
  <2> QED BY <1>Build, <2>1, <2>2, <2>3 DEF Build, TypeOK
<1>PrepareHit. CASE PrepareHit(t)
  <2>1. cur[t] \in Fuh /\ bytecode[cur[t]] \in Code
    BY <1>PrepareHit, <1>cur DEF PrepareHit, At, TypeOK
  <2>2. [success |-> TRUE, fuh |-> cur[t], info |-> bytecode[cur[t]]] \in Result
    BY <2>1 DEF Result
  <2>3. result' \in [Threads -> Result \cup {None}]
    BY <1>PrepareHit, <2>2 DEF PrepareHit, TypeOK
  <2>4. pc' \in [Threads -> Labels]
    BY <1>PrepareHit DEF PrepareHit, Goto, TypeOK, Labels
  <2> QED BY <1>PrepareHit, <2>1, <2>2, <2>3, <2>4 DEF PrepareHit, TypeOK
<1>PrepareMiss. CASE PrepareMiss(t)
  <2>1. cur[t] \in Fuh /\ cur[t].method \in Cbc
    BY <1>PrepareMiss, <1>cur DEF PrepareMiss, At, LocalInv
  <2>2. Refs[cur[t].method] \in Seq(Methods)
    BY <2>1, MethodsAssumption
  <2>3. fuhLock' \in [Fuh -> Threads \cup {None}]
    BY <1>PrepareMiss, <2>1 DEF PrepareMiss, TypeOK
  <2>4. pending' \in [Threads -> Seq(Methods)]
    BY <1>PrepareMiss, <2>2 DEF PrepareMiss, TypeOK
  <2>5. literals' \in [Threads -> SUBSET Fuh]
    BY <1>PrepareMiss DEF PrepareMiss, TypeOK
  <2>6. pc' \in [Threads -> Labels]
    BY <1>PrepareMiss DEF PrepareMiss, Goto, TypeOK, Labels
  <2> QED BY <1>PrepareMiss, <2>1, <2>2, <2>3, <2>4, <2>5, <2>6
             DEF PrepareMiss, TypeOK
<1>RewriteReference. CASE RewriteReference(t)
  <2>1. [method |-> Head(pending[t]), next |-> "rewrite"] \in Request
    BY <1>RewriteReference DEF RewriteReference, Request
  <2>2. request' \in [Threads -> Request \cup {None}]
    BY <1>RewriteReference, <2>1 DEF RewriteReference, Acquire, TypeOK
  <2>3. pc' \in [Threads -> Labels]
    BY <1>RewriteReference DEF RewriteReference, Acquire, Goto, TypeOK, Labels
  <2> QED BY <1>RewriteReference, <2>1, <2>2, <2>3 DEF RewriteReference, TypeOK
<1>RewriteAbstract. CASE RewriteAbstract(t)
  <2> DEFINE helper == helpers["ThrowAbstractMethodCallError"]
  <2>1. status' \in {"up", "assert", "fatal"}
    BY <1>RewriteAbstract DEF RewriteAbstract, Die, TypeOK
  <2>2. Tail(pending[t]) \in Seq(Methods)
    BY <1>RewriteAbstract DEF RewriteAbstract, TypeOK
  <2>3. pending' \in [Threads -> Seq(Methods)]
    BY <1>RewriteAbstract, <2>2 DEF RewriteAbstract, TypeOK
  <2>4. CASE helper = None
    BY <1>RewriteAbstract, <2>1, <2>3, <2>4 DEF RewriteAbstract, TypeOK
  <2>5. CASE helper # None
    <3>1. literals[t] \cup {helper} \in SUBSET Fuh
      BY <2>5 DEF TypeOK, Helper
    <3>2. literals' = [literals EXCEPT ![t] = @ \cup {helper}]
      BY <1>RewriteAbstract, <2>5 DEF RewriteAbstract
    <3> HIDE DEF helper
    <3>3. literals' \in [Threads -> SUBSET Fuh]
      BY <3>1, <3>2 DEF TypeOK
    <3> QED BY <1>RewriteAbstract, <2>1, <2>3, <3>3 DEF RewriteAbstract, TypeOK
  <2> QED BY <2>4, <2>5
<1>Publish. CASE Publish(t)
  <2>1. cur[t] \in Fuh /\ literals[t] \in SUBSET Fuh
    BY <1>Publish, <1>cur DEF Publish, At, Rewriting, TypeOK
  <2>2. [owner |-> cur[t], by |-> t, literals |-> literals[t]] \in Code
    BY <2>1 DEF Code
  <2>3. [success |-> TRUE, fuh |-> cur[t], info |-> [owner |-> cur[t], by |-> t, literals |-> literals[t]]]
         \in Result
    BY <2>1, <2>2 DEF Result
  <2>4. bytecode' \in [Fuh -> Code \cup {None}]
    BY <1>Publish, <2>1, <2>2 DEF Publish, TypeOK
  <2>5. fuhLock' \in [Fuh -> Threads \cup {None}]
    BY <1>Publish, <2>1 DEF ReleaseHandle, Resolves, Publish, TypeOK
  <2>6. result' \in [Threads -> Result \cup {None}]
    BY <1>Publish, <2>3 DEF Publish, TypeOK
  <2>7. literals' \in [Threads -> SUBSET Fuh]
    BY <1>Publish DEF Publish, TypeOK
  <2>8. pc' \in [Threads -> Labels]
    BY <1>Publish DEF Publish, Goto, TypeOK, Labels
  <2> QED BY <1>Publish, <2>1, <2>2, <2>3, <2>4, <2>5, <2>6, <2>7, <2>8
             DEF Publish, TypeOK
<1>RewriteFails. CASE RewriteFails(t)
  <2> DEFINE helper == helpers["ThrowSymbolResolutionError"]
  <2>1. status' \in {"up", "assert", "fatal"}
    BY <1>RewriteFails DEF RewriteFails, Die, TypeOK
  <2>2. CASE helper = None
    BY <1>RewriteFails, <2>1, <2>2 DEF RewriteFails, TypeOK
  <2>3. CASE helper # None
    <3>1. helper \in Fuh /\ bytecode[helper] \in Code
      BY <2>3 DEF TypeOK, IInv, HelpersInv, Helper
    <3>2. [success |-> FALSE, fuh |-> helper, info |-> bytecode[helper]] \in Result
      BY <3>1 DEF Result
    <3>3. fuhLock' \in [Fuh -> Threads \cup {None}]
      BY <1>RewriteFails, <2>3, <1>cur
         DEF ReleaseHandle, Resolves, RewriteFails, At, Rewriting, TypeOK
    <3>4. result' \in [Threads -> Result \cup {None}]
      BY <1>RewriteFails, <2>3, <3>2 DEF RewriteFails, TypeOK
    <3>5. literals' \in [Threads -> SUBSET Fuh]
      BY <1>RewriteFails, <2>3 DEF RewriteFails, TypeOK
    <3>6. pc' \in [Threads -> Labels]
      BY <1>RewriteFails, <2>3 DEF RewriteFails, Goto, TypeOK, Labels
    <3> QED BY <1>RewriteFails, <2>1, <3>3, <3>4, <3>5, <3>6 DEF RewriteFails, TypeOK
  <2> QED BY <2>2, <2>3
<1>Launch. CASE Launch(t)
  <2>1. Initialisers \in Seq(Callable) /\ <<Main>> \in Seq(Callable)
    BY MethodsAssumption
  <2>2. PICK es \in {<<Main>>, Initialisers} : entries' = [entries EXCEPT ![t] = es]
    BY <1>Launch DEF Launch
  <2>3. es \in Seq(Callable)
    BY <2>1, <2>2
  <2>4. entries' \in [Threads -> Seq(Callable)]
    BY <2>2, <2>3 DEF TypeOK
  <2>5. job' \in [Threads -> {"idle", "launch", "call"}]
    BY <1>Launch DEF Launch, TypeOK
  <2>6. todo' \in [Threads -> SUBSET Helper]
    BY <1>Launch DEF LaunchHelpers, Launch, TypeOK
  <2>7. pc' \in [Threads -> Labels]
    BY <1>Launch DEF Launch, Goto, TypeOK, Labels
  <2> QED BY <1>Launch, <2>1, <2>2, <2>3, <2>4, <2>5, <2>6, <2>7 DEF Launch, TypeOK
<1>NextHelper. CASE NextHelper(t)
  <2> PICK h \in todo[t] : /\ helping' = [helping EXCEPT ![t] = h]
                           /\ Acquire(t, HelperMethod[h], "prepare")
    BY <1>NextHelper DEF NextHelper
  <2>1. h \in Helper /\ HelperMethod[h] \in Callable
    BY MethodsAssumption DEF TypeOK, Callable
  <2>2. [method |-> HelperMethod[h], next |-> "prepare"] \in Request
    BY <2>1 DEF Request
  <2>3. request' \in [Threads -> Request \cup {None}]
    BY <2>2 DEF Acquire, TypeOK
  <2>4. helping' \in [Threads -> Helper \cup {None}]
    BY <2>1 DEF TypeOK
  <2>5. pc' \in [Threads -> Labels]
    BY DEF Acquire, Goto, TypeOK, Labels
  <2> QED BY <1>NextHelper, <2>3, <2>4, <2>5 DEF NextHelper, TypeOK
<1>HelperPrepared. CASE HelperPrepared(t)
  <2>1. status' \in {"up", "assert", "fatal"}
    BY <1>HelperPrepared DEF HelperPrepared, Die, TypeOK
  <2>2. result' \in [Threads -> Result \cup {None}]
    BY <1>HelperPrepared DEF HelperPrepared, TypeOK
  <2>3. pc' \in [Threads -> Labels]
    BY <1>HelperPrepared DEF HelperPrepared, Goto, TypeOK, Labels
  <2> QED BY <1>HelperPrepared, <2>1, <2>2, <2>3 DEF HelperPrepared, TypeOK
<1>SetHelper. CASE SetHelper(t)
  <2>1. cur[t] \in Fuh /\ helping[t] \in Helper
    BY <1>SetHelper, <1>cur DEF SetHelper, At, TypeOK, HelpingInv
  <2>2. helpers' \in [Helper -> Fuh \cup {None}]
    BY <1>SetHelper, <2>1 DEF SetHelper, TypeOK
  <2>3. todo' \in [Threads -> SUBSET Helper]
    BY <1>SetHelper DEF SetHelper, TypeOK
  <2>4. helping' \in [Threads -> Helper \cup {None}]
    BY <1>SetHelper DEF SetHelper, TypeOK
  <2>5. cur' \in [Threads -> Fuh \cup {None}]
    BY <1>SetHelper DEF SetHelper, Leave, TypeOK
  <2>6. pc' \in [Threads -> Labels]
    BY <1>SetHelper DEF SetHelper, Leave, Goto, TypeOK, Labels
  <2> QED BY <1>SetHelper, <2>1, <2>2, <2>3, <2>4, <2>5, <2>6 DEF SetHelper, TypeOK
<1>NextEntry. CASE NextEntry(t)
  <2>1. Head(entries[t]) \in Callable /\ Tail(entries[t]) \in Seq(Callable)
    BY <1>NextEntry DEF NextEntry, TypeOK
  <2>2. [method |-> Head(entries[t]), next |-> "trampoline"] \in Request
    BY <2>1 DEF Request
  <2>3. request' \in [Threads -> Request \cup {None}]
    BY <1>NextEntry, <2>2 DEF NextEntry, Acquire, TypeOK
  <2>4. entries' \in [Threads -> Seq(Callable)]
    BY <1>NextEntry, <2>1 DEF NextEntry, TypeOK
  <2>5. pc' \in [Threads -> Labels]
    BY <1>NextEntry DEF NextEntry, Acquire, Goto, TypeOK, Labels
  <2> QED BY <1>NextEntry, <2>1, <2>2, <2>3, <2>4, <2>5 DEF NextEntry, TypeOK
<1>Launched. CASE Launched(t)
  <2>1. job' \in [Threads -> {"idle", "launch", "call"}]
    BY <1>Launched DEF Launched, TypeOK
  <2>2. pc' \in [Threads -> Labels]
    BY <1>Launched DEF Launched, Goto, TypeOK, Labels
  <2> QED BY <1>Launched, <2>1, <2>2 DEF Launched, TypeOK
<1>DirectCallTrampoline. CASE DirectCallTrampoline(t)
  <2>1. cur[t] \in Fuh
    BY <1>DirectCallTrampoline, <1>cur DEF DirectCallTrampoline, At
  <2>2. status' \in {"up", "assert", "fatal"}
    BY <1>DirectCallTrampoline DEF DirectCallTrampoline, Die, TypeOK
  <2>3. pc' \in [Threads -> Labels]
    BY <1>DirectCallTrampoline DEF DirectCallTrampoline, Leave, Goto, TypeOK, Labels
  <2>4. cur' \in [Threads -> Fuh \cup {None}]
    BY <1>DirectCallTrampoline DEF DirectCallTrampoline, Leave, TypeOK
  <2>5. /\ directFuhs' \in Seq(Fuh) /\ Len(directFuhs') <= TrampolineCount
        /\ exported' \subseteq (1 .. Len(directFuhs')) \X Fuh
    <3> DEFINE used == {i \in DOMAIN directFuhs : directFuhs[i] = cur[t]}
    <3>1. CASE UNCHANGED <<directFuhs, exported>>
      BY <3>1 DEF TypeOK
    <3>2. CASE /\ used # {} /\ UNCHANGED directFuhs
               /\ exported' = exported \cup {<<CHOOSE i \in used : TRUE, cur[t]>>}
      <4>1. (CHOOSE i \in used : TRUE) \in 1 .. Len(directFuhs)
        BY <3>2 DEF TypeOK
      <4> QED BY <2>1, <3>2, <4>1 DEF TypeOK
    <3>3. CASE /\ Len(directFuhs) < TrampolineCount
               /\ directFuhs' = Append(directFuhs, cur[t])
               /\ exported' = exported \cup {<<Len(directFuhs) + 1, cur[t]>>}
      <4>1. directFuhs' \in Seq(Fuh) /\ Len(directFuhs') = Len(directFuhs) + 1
        BY <2>1, <3>3 DEF TypeOK
      <4>2. Len(directFuhs) \in Nat
        BY DEF TypeOK
      <4> QED BY <2>1, <3>3, <4>1, <4>2, BoundsAssumption DEF TypeOK
    <3> QED BY <1>DirectCallTrampoline, <3>1, <3>2, <3>3
               DEF TrampolinesOf, TrampolineLeft, DirectCallTrampoline
  <2> QED BY <1>DirectCallTrampoline, <2>2, <2>3, <2>4, <2>5
        DEF DirectCallTrampoline, TypeOK
<1>CallTrampoline. CASE CallTrampoline(t)
  <2> PICK e \in exported : StartCall(t, directFuhs[e[1]])
    BY <1>CallTrampoline DEF CallTrampoline
  <2>1. directFuhs[e[1]] \in Fuh
    BY DEF TypeOK
  <2>2. cur' \in [Threads -> Fuh \cup {None}]
    BY <2>1 DEF StartCall, TypeOK
  <2>3. job' \in [Threads -> {"idle", "launch", "call"}]
    BY DEF StartCall, TypeOK
  <2>4. calls' \in 0 .. MaxCalls
    BY <1>CallTrampoline, BoundsAssumption
       DEF CallTrampoline, CanCall, StartCall, TypeOK
  <2>5. pc' \in [Threads -> Labels]
    BY DEF StartCall, Goto, TypeOK, Labels
  <2> QED BY <2>2, <2>3, <2>4, <2>5 DEF StartCall, TypeOK
<1>CallInterpreted. CASE CallInterpreted(t)
  <2> PICK h \in stack[t][Len(stack[t])].code.literals : StartCall(t, h)
    BY <1>CallInterpreted DEF CallInterpreted
  <2>1. h \in Fuh
    <3>1. stack[t][Len(stack[t])] \in Frame
      BY <1>CallInterpreted DEF CallInterpreted, TypeOK
    <3> QED BY <3>1 DEF Frame, Code
  <2>2. cur' \in [Threads -> Fuh \cup {None}]
    BY <2>1 DEF StartCall, TypeOK
  <2>3. job' \in [Threads -> {"idle", "launch", "call"}]
    BY DEF StartCall, TypeOK
  <2>4. calls' \in 0 .. MaxCalls
    BY <1>CallInterpreted, BoundsAssumption
       DEF CallInterpreted, CanCall, StartCall, TypeOK
  <2>5. pc' \in [Threads -> Labels]
    BY DEF StartCall, Goto, TypeOK, Labels
  <2> QED BY <2>2, <2>3, <2>4, <2>5 DEF StartCall, TypeOK
<1>CallUnlinked. CASE CallUnlinked(t)
  <2>1. status' \in {"up", "assert", "fatal"}
    BY <1>CallUnlinked DEF CallUnlinked, Die, TypeOK
  <2> QED BY <1>CallUnlinked, <2>1 DEF CallUnlinked, TypeOK
<1>EnterLinked. CASE EnterLinked(t)
  <2>1. cur[t] \in Fuh /\ bytecode[cur[t]] \in Code
    BY <1>EnterLinked, <1>cur DEF EnterLinked, At, TypeOK
  <2>2. [called |-> cur[t], fuh |-> cur[t], code |-> bytecode[cur[t]]] \in Frame
    BY <2>1 DEF Frame
  <2>3. stack' \in [Threads -> Seq(Frame)]
    BY <1>EnterLinked, <2>2 DEF EnterLinked, Push, TypeOK
  <2>4. cur' \in [Threads -> Fuh \cup {None}]
    BY <1>EnterLinked DEF EnterLinked, Leave, TypeOK
  <2>5. pc' \in [Threads -> Labels]
    BY <1>EnterLinked DEF EnterLinked, Leave, Goto, TypeOK, Labels
  <2> QED BY <1>EnterLinked, <2>1, <2>2, <2>3, <2>4, <2>5 DEF EnterLinked, TypeOK
<1>EnterUnlinked. CASE EnterUnlinked(t)
  <2>1. pc' \in [Threads -> Labels]
    BY <1>EnterUnlinked DEF EnterUnlinked, Goto, TypeOK, Labels
  <2> QED BY <1>EnterUnlinked, <2>1 DEF EnterUnlinked, TypeOK
<1>EnterPrepared. CASE EnterPrepared(t)
  <2> DEFINE fuh == IF result[t].success THEN cur[t] ELSE result[t].fuh
  <2>1. cur[t] \in Fuh /\ fuh \in Fuh /\ result[t].info \in Code
    BY <1>EnterPrepared, <1>cur, <1>prepared DEF EnterPrepared, At
  <2>2. [called |-> cur[t], fuh |-> fuh, code |-> result[t].info] \in Frame
    BY <2>1 DEF Frame
  <2>3. stack' \in [Threads -> Seq(Frame)]
    BY <1>EnterPrepared, <2>2 DEF FrameHandle, EnterPrepared, Push, TypeOK
  <2>4. cur' \in [Threads -> Fuh \cup {None}]
    BY <1>EnterPrepared DEF EnterPrepared, Leave, TypeOK
  <2>5. result' \in [Threads -> Result \cup {None}]
    BY <1>EnterPrepared DEF EnterPrepared, TypeOK
  <2>6. pc' \in [Threads -> Labels]
    BY <1>EnterPrepared DEF EnterPrepared, Leave, Goto, TypeOK, Labels
  <2> QED BY <1>EnterPrepared, <2>3, <2>4, <2>5, <2>6 DEF EnterPrepared, TypeOK
<1>Return. CASE Return(t)
  <2>1. SubSeq(stack[t], 1, Len(stack[t]) - 1) \in Seq(Frame)
    BY <1>Return DEF Return, TypeOK
  <2>2. stack' \in [Threads -> Seq(Frame)]
    BY <1>Return, <2>1 DEF Return, TypeOK
  <2> QED BY <1>Return, <2>2 DEF Return, TypeOK
<1> QED BY <1>AcquireHit, <1>AcquireMiss, <1>Build, <1>PrepareHit,
     <1>PrepareMiss, <1>RewriteReference, <1>RewriteAbstract, <1>Publish,
     <1>RewriteFails, <1>NextHelper, <1>HelperPrepared, <1>SetHelper,
     <1>NextEntry, <1>Launched, <1>DirectCallTrampoline, <1>EnterLinked,
     <1>EnterUnlinked, <1>EnterPrepared, <1>Launch, <1>CallTrampoline,
     <1>CallInterpreted, <1>CallUnlinked, <1>Return
     DEF Step, EngineStep, GuestStep
------------------------------------------------------------------------------
(***************************************************************************)
(* What is shared only grows.                                              *)
(***************************************************************************)

Grows ==
  /\ \A m \in Callable : fuhMap[m] # None => fuhMap'[m] = fuhMap[m]
  /\ \A h \in Fuh : bytecode[h] # None => bytecode'[h] = bytecode[h]
  /\ \A h \in Helper : helpers[h] # None => helpers'[h] = helpers[h]

\* A step that is not one of the three writers leaves what is shared alone.
LEMMA OnlyThreeWrite ==
  ASSUME NEW t \in Threads, Step(t), ~Build(t), ~Publish(t), ~SetHelper(t)
  PROVE  UNCHANGED <<fuhMap, bytecode, helpers>>
<1> USE DEF shared
<1>1. CASE AcquireHit(t) \/ AcquireMiss(t) \/ PrepareHit(t) \/ PrepareMiss(t)
  BY <1>1 DEF AcquireHit, AcquireMiss, PrepareHit, PrepareMiss
<1>2. CASE RewriteReference(t) \/ RewriteAbstract(t) \/ RewriteFails(t)
  BY <1>2 DEF RewriteReference, RewriteAbstract, RewriteFails
<1>3. CASE NextHelper(t) \/ HelperPrepared(t) \/ NextEntry(t) \/ Launched(t)
  BY <1>3 DEF NextHelper, HelperPrepared, NextEntry, Launched
<1>4. CASE DirectCallTrampoline(t) \/ Launch(t)
  BY <1>4 DEF DirectCallTrampoline, Launch
<1>5. CASE EnterLinked(t) \/ EnterUnlinked(t) \/ EnterPrepared(t) \/ Return(t)
  BY <1>5 DEF EnterLinked, EnterUnlinked, EnterPrepared, Return
<1>6. CASE CallTrampoline(t) \/ CallInterpreted(t) \/ CallUnlinked(t)
  BY <1>6 DEF CallTrampoline, CallInterpreted, CallUnlinked, StartCall
<1> QED BY <1>1, <1>2, <1>3, <1>4, <1>5, <1>6 DEF Step, EngineStep, GuestStep

\* The map is written under its lock, bytecode under the lock of its handle,
\* and a helper is only ever replaced by itself.
LEMMA GrowsStep ==
  ASSUME IInv, NEW t \in Threads, Step(t)
  PROVE  Grows
<1> TypeOK /\ ThreadInv(t)
  BY DEF IInv
<1>1. CASE Build(t)
  <2>1. fuhMap[request[t].method] = None
    BY <1>1 DEF Build, At, ThreadInv, LockInv
  <2>2. \A m \in Callable : m # request[t].method => fuhMap'[m] = fuhMap[m]
    BY <1>1 DEF Build, TypeOK
  <2> QED BY <1>1, <2>1, <2>2 DEF Build, Grows
<1>2. CASE Publish(t)
  <2>1. bytecode[cur[t]] = None
    BY <1>2 DEF Publish, At, ThreadInv, LockInv, Rewriting
  <2>2. \A h \in Fuh : h # cur[t] => bytecode'[h] = bytecode[h]
    BY <1>2 DEF Publish, TypeOK
  <2> QED BY <1>2, <2>1, <2>2 DEF Publish, Grows
<1>3. CASE SetHelper(t)
  <2>1. /\ helping[t] \in Helper /\ cur[t] \in Fuh
        /\ cur[t].method = HelperMethod[helping[t]] /\ IsTheHandle(cur[t])
    BY <1>3 DEF SetHelper, At, ThreadInv, HelpingInv, LocalInv, TypeOK
  <2>2. helpers' = [helpers EXCEPT ![helping[t]] = cur[t]]
    BY <1>3 DEF SetHelper
  <2>3. helpers[helping[t]] # None => helpers[helping[t]] = cur[t]
    BY <2>1 DEF IInv, HelpersInv, IsTheHandle
  <2>4. \A h \in Helper : helpers[h] # None => helpers'[h] = helpers[h]
    BY <2>2, <2>3 DEF TypeOK
  <2> QED BY <1>3, <2>4 DEF SetHelper, Grows
<1>4. CASE ~Build(t) /\ ~Publish(t) /\ ~SetHelper(t)
  BY <1>4, OnlyThreeWrite DEF Grows
<1> QED BY <1>1, <1>2, <1>3, <1>4

\* What a thread knows of the shared state and does not lose.
LEMMA Stays ==
  ASSUME IInv, TypeOK', Grows
  PROVE  /\ \A h \in Fuh : IsTheHandle(h) => IsTheHandle(h)'
         /\ AllHelpersSet => AllHelpersSet'
         /\ \A h \in Helper : helpers[h] # None =>
              /\ helpers[h] \in Fuh /\ bytecode[helpers[h]] # None
              /\ helpers'[h] = helpers[h]
<1>1. ASSUME NEW h \in Fuh, IsTheHandle(h) PROVE IsTheHandle(h)'
  <2>1. h.method \in Callable /\ h # None
    BY NoneAssumption DEF Fuh
  <2> QED BY <1>1, <2>1 DEF IsTheHandle, Grows
<1>2. ASSUME NEW h \in Helper, helpers[h] # None
      PROVE  /\ helpers[h] \in Fuh /\ bytecode[helpers[h]] # None
             /\ helpers'[h] = helpers[h]
  BY <1>2 DEF IInv, TypeOK, HelpersInv, Grows
<1> QED BY <1>1, <1>2 DEF AllHelpersSet

LEMMA FrameStays ==
  ASSUME IInv, TypeOK', Grows, NEW f \in Frame, FrameOK(f)
  PROVE  FrameOK(f)'
<1>1. f.fuh \in Fuh /\ f.code \in Code /\ f.code # None /\ f.fuh # None
  BY NoneAssumption DEF Frame
<1>2. bytecode'[f.fuh] = bytecode[f.fuh]
  BY <1>1 DEF FrameOK, Grows
<1>3. "ThrowSymbolResolutionError" \in Helper
  BY DEF Helper
<1> QED BY <1>1, <1>2, <1>3, Stays DEF FrameOK

\* A stack of good frames, old ones and one that has become good.
LEMMA FramesStay ==
  ASSUME IInv, TypeOK', Grows, NEW u \in Threads, NEW f \in Frame, FrameOK(f),
         \A i \in DOMAIN stack'[u] :
           \/ i \in DOMAIN stack[u] /\ stack'[u][i] = stack[u][i]
           \/ stack'[u][i] = f
  PROVE  FrameInv(u)'
<1>1. \A i \in DOMAIN stack[u] : stack[u][i] \in Frame /\ FrameOK(stack[u][i])
  BY DEF IInv, TypeOK, ThreadInv, FrameInv
<1>2. \A g \in Frame : FrameOK(g) => FrameOK(g)'
  BY FrameStays
<1>3. \A i \in DOMAIN stack'[u] : stack'[u][i] \in Frame /\ FrameOK(stack'[u][i])
  BY <1>1
<1> SUFFICES ASSUME NEW i \in DOMAIN stack'[u]
             PROVE  FrameOK(stack[u][i])'
  BY DEF FrameInv
<1>4. PICK g \in Frame : g = stack'[u][i] /\ FrameOK(g)
  BY <1>3
<1>5. FrameOK(g)'
  BY <1>2, <1>4
<1> QED BY <1>4, <1>5 DEF FrameOK

LEMMA SameFrames ==
  ASSUME IInv, TypeOK', Grows, NEW u \in Threads, 
         \A i \in DOMAIN stack'[u] :
           i \in DOMAIN stack[u] /\ stack'[u][i] = stack[u][i]
  PROVE  FrameInv(u)'
<1>1. \A i \in DOMAIN stack[u] : stack[u][i] \in Frame /\ FrameOK(stack[u][i])
  BY DEF IInv, TypeOK, ThreadInv, FrameInv
<1> SUFFICES ASSUME NEW i \in DOMAIN stack'[u]
             PROVE  FrameOK(stack[u][i])'
  BY DEF FrameInv
<1> QED BY <1>1, FramesStay DEF FrameInv
------------------------------------------------------------------------------
(***************************************************************************)
(* A step of one thread and the invariant of another.                      *)
(***************************************************************************)

\* The locals of u.
Locals(u) ==
  <<pc[u], job[u], todo[u], helping[u], request[u], cur[u], pending[u],
    literals[u], result[u], stack[u]>>

\* What u holds a lock for stays as it is.
HeldStays(u) ==
  /\ mapLock = u => mapLock' = u /\ fuhMap' = fuhMap
  /\ \A h \in Fuh :
       fuhLock[h] = u => fuhLock'[h] = u /\ bytecode'[h] = bytecode[h]

\* A thread writes its own locals only.
LEMMA OwnLocals ==
  ASSUME TypeOK, NEW t \in Threads, Step(t), NEW u \in Threads, u # t
  PROVE  UNCHANGED Locals(u)
<1> USE DEF launching, rewriting, guest, Goto, Leave, Acquire, Deliver, TypeOK, Locals
<1>AcquireHit. CASE AcquireHit(t)
  BY <1>AcquireHit DEF AcquireHit
<1>AcquireMiss. CASE AcquireMiss(t)
  BY <1>AcquireMiss DEF AcquireMiss
<1>Build. CASE Build(t)
  BY <1>Build DEF Build
<1>PrepareHit. CASE PrepareHit(t)
  BY <1>PrepareHit DEF PrepareHit
<1>PrepareMiss. CASE PrepareMiss(t)
  BY <1>PrepareMiss DEF PrepareMiss
<1>RewriteReference. CASE RewriteReference(t)
  BY <1>RewriteReference DEF RewriteReference
<1>RewriteAbstract. CASE RewriteAbstract(t)
  BY <1>RewriteAbstract DEF RewriteAbstract
<1>Publish. CASE Publish(t)
  BY <1>Publish DEF Publish
<1>RewriteFails. CASE RewriteFails(t)
  BY <1>RewriteFails DEF RewriteFails
<1>NextHelper. CASE NextHelper(t)
  BY <1>NextHelper DEF NextHelper
<1>HelperPrepared. CASE HelperPrepared(t)
  BY <1>HelperPrepared DEF HelperPrepared
<1>SetHelper. CASE SetHelper(t)
  BY <1>SetHelper DEF SetHelper
<1>NextEntry. CASE NextEntry(t)
  BY <1>NextEntry DEF NextEntry
<1>Launched. CASE Launched(t)
  BY <1>Launched DEF Launched
<1>DirectCallTrampoline. CASE DirectCallTrampoline(t)
  BY <1>DirectCallTrampoline DEF DirectCallTrampoline
<1>EnterLinked. CASE EnterLinked(t)
  BY <1>EnterLinked DEF EnterLinked, Push
<1>EnterUnlinked. CASE EnterUnlinked(t)
  BY <1>EnterUnlinked DEF EnterUnlinked
<1>EnterPrepared. CASE EnterPrepared(t)
  BY <1>EnterPrepared DEF EnterPrepared, Push
<1>Launch. CASE Launch(t)
  BY <1>Launch DEF Launch
<1>CallTrampoline. CASE CallTrampoline(t)
  BY <1>CallTrampoline DEF CallTrampoline, StartCall
<1>CallInterpreted. CASE CallInterpreted(t)
  BY <1>CallInterpreted DEF CallInterpreted, StartCall
<1>CallUnlinked. CASE CallUnlinked(t)
  BY <1>CallUnlinked DEF CallUnlinked
<1>Return. CASE Return(t)
  BY <1>Return DEF Return
<1> QED BY <1>AcquireHit, <1>AcquireMiss, <1>Build, <1>PrepareHit,
     <1>PrepareMiss, <1>RewriteReference, <1>RewriteAbstract, <1>Publish,
     <1>RewriteFails, <1>NextHelper, <1>HelperPrepared, <1>SetHelper,
     <1>NextEntry, <1>Launched, <1>DirectCallTrampoline, <1>EnterLinked,
     <1>EnterUnlinked, <1>EnterPrepared, <1>Launch, <1>CallTrampoline,
     <1>CallInterpreted, <1>CallUnlinked, <1>Return
     DEF Step, EngineStep, GuestStep

\* A thread that changes what a lock protects holds that lock itself.
LEMMA LocksExclude ==
  ASSUME IInv, NEW t \in Threads, Step(t), NEW u \in Threads, u # t
  PROVE  HeldStays(u)
<1> TypeOK /\ LockInv(t) /\ LocalInv(t) /\ u # None
  BY NoneAssumption DEF IInv, ThreadInv
<1> USE DEF shared
<1>1. CASE AcquireMiss(t)
  BY <1>1 DEF MapFree, AcquireMiss, HeldStays
<1>2. CASE Build(t)
  <2>1. mapLock = t
    BY <1>2 DEF Build, At, LockInv
  <2> QED BY <1>2, <2>1 DEF Build, HeldStays
<1>3. CASE PrepareMiss(t)
  <2>1. fuhLock[cur[t]] = None
    BY <1>3 DEF HandleFree, PrepareMiss
  <2>2. \A h \in Fuh : h # cur[t] => fuhLock'[h] = fuhLock[h]
    BY <1>3 DEF PrepareMiss, TypeOK
  <2> QED BY <1>3, <2>1, <2>2 DEF PrepareMiss, HeldStays
<1>4. CASE Publish(t)
  <2>1. fuhLock[cur[t]] = t
    BY <1>4 DEF Publish, At, LockInv, Rewriting
  <2>2. \A h \in Fuh : h # cur[t] =>
          fuhLock'[h] = fuhLock[h] /\ bytecode'[h] = bytecode[h]
    BY <1>4 DEF ReleaseHandle, Resolves, Publish, TypeOK
  <2> QED BY <1>4, <2>1, <2>2 DEF Publish, HeldStays
<1>5. CASE RewriteFails(t)
  <2>1. fuhLock[cur[t]] = t
    BY <1>5 DEF RewriteFails, At, LockInv, Rewriting
  <2>2. \A h \in Fuh : h # cur[t] => fuhLock'[h] = fuhLock[h]
    BY <1>5 DEF ReleaseHandle, Resolves, RewriteFails, TypeOK
  <2> QED BY <1>5, <2>1, <2>2 DEF RewriteFails, HeldStays
<1>6. CASE AcquireHit(t) \/ PrepareHit(t) \/ RewriteReference(t) \/ RewriteAbstract(t)
  BY <1>6 DEF AcquireHit, PrepareHit, RewriteReference, RewriteAbstract, HeldStays
<1>7. CASE NextHelper(t) \/ HelperPrepared(t) \/ SetHelper(t) \/ NextEntry(t)
           \/ Launched(t) \/ DirectCallTrampoline(t) \/ Launch(t)
  BY <1>7 DEF NextHelper, HelperPrepared, SetHelper, NextEntry, Launched,
              DirectCallTrampoline, Launch, HeldStays
<1>8. CASE EnterLinked(t) \/ EnterUnlinked(t) \/ EnterPrepared(t) \/ Return(t)
           \/ CallTrampoline(t) \/ CallInterpreted(t) \/ CallUnlinked(t)
  BY <1>8 DEF EnterLinked, EnterUnlinked, EnterPrepared, Return, CallTrampoline,
              CallInterpreted, CallUnlinked, StartCall, HeldStays
<1> QED BY <1>1, <1>2, <1>3, <1>4, <1>5, <1>6, <1>7, <1>8
        DEF Step, EngineStep, GuestStep

\* A thread whose locals and locks are left alone keeps its invariant.
LEMMA UntouchedThread ==
  ASSUME IInv, TypeOK', Grows, NEW u \in Threads, UNCHANGED Locals(u), HeldStays(u)
  PROVE  ThreadInv(u)'
<1> TypeOK /\ ThreadInv(u)
  BY DEF IInv
<1> USE DEF Awaits, Rewriting
<1>1. /\ pc'[u] = pc[u] /\ job'[u] = job[u] /\ todo'[u] = todo[u]
      /\ helping'[u] = helping[u] /\ request'[u] = request[u]
      /\ cur'[u] = cur[u] /\ pending'[u] = pending[u]
      /\ literals'[u] = literals[u] /\ result'[u] = result[u]
      /\ stack'[u] = stack[u]
  BY DEF Locals
<1>2. cur[u] # None => cur[u] \in Fuh
  BY DEF TypeOK
<1>3. LocalInv(u)'
  <2>1. pc[u] = "setHelper" => bytecode'[cur[u]] # None
    BY <1>2 DEF ThreadInv, LocalInv, Grows
  <2>2. cur[u] # None => fuhMap'[cur[u].method] = cur[u]
    BY <1>2, Stays DEF ThreadInv, LocalInv, IsTheHandle
  <2>3. \A h \in literals[u] : IsTheHandle(h)'
    BY Stays DEF ThreadInv, LocalInv, TypeOK
  <2> QED BY <1>1, <2>1, <2>2, <2>3 DEF ThreadInv, LocalInv, IsTheHandle
<1>4. HelpingInv(u)'
  BY <1>1 DEF ThreadInv, HelpingInv
<1>5. LockInv(u)'
  <2>1. pc[u] = "build" => mapLock' = u /\ fuhMap'[request[u].method] = None
    BY DEF ThreadInv, LockInv, HeldStays
  <2>2. Rewriting(u) => fuhLock'[cur[u]] = u /\ bytecode'[cur[u]] = None
    BY <1>2 DEF ThreadInv, LocalInv, LockInv, HeldStays
  <2> QED BY <1>1, <2>1, <2>2 DEF LockInv
<1>6. ResultInv(u)'
  <2> SUFFICES ASSUME pc[u] = "prepared" PROVE ResultInv(u)'
    BY <1>1 DEF ResultInv
  <2>1. result[u] \in Result /\ result[u] # None
    BY DEF TypeOK, ThreadInv, ResultInv
  <2>2. result[u].fuh \in Fuh /\ result[u].info \in Code
    BY <2>1 DEF Result
  <2>3. bytecode'[result[u].fuh] = result[u].info
    BY <2>2, NoneAssumption DEF ThreadInv, ResultInv, Grows
  <2>4. "ThrowSymbolResolutionError" \in Helper /\ result[u].fuh # None
    BY <2>2, NoneAssumption DEF Helper
  <2> QED BY <1>1, <2>1, <2>3, <2>4 DEF ThreadInv, ResultInv, Grows
<1>7. LaunchInv(u)'
  <2>1. \A h \in Helper : helpers[h] # None => helpers'[h] # None
    BY DEF Grows
  <2>2. AllHelpersSet => AllHelpersSet'
    BY Stays
  <2> QED BY <1>1, <2>1, <2>2 DEF ThreadInv, LaunchInv
<1>8. FrameInv(u)'
  BY <1>1, SameFrames
<1> QED BY <1>3, <1>4, <1>5, <1>6, <1>7, <1>8 DEF ThreadInv
------------------------------------------------------------------------------
(***************************************************************************)
(* A step and the invariant of the thread that takes it.                   *)
(***************************************************************************)

\* AcquireTagged returned the handle in the map to its caller.
LEMMA Delivered ==
  ASSUME IInv, TypeOK', Grows, NEW t \in Threads, pc[t] \in {"acquire", "build"},
         NEW h \in Fuh, h.method = request[t].method, fuhMap'[h.method] = h,
         Deliver(t, h),
         UNCHANGED <<job, launching, result, stack, fuhLock, bytecode>>
  PROVE  ThreadInv(t)'
<1> TypeOK /\ ThreadInv(t) /\ None \notin Fuh
  BY NoneAssumption DEF IInv
<1> USE DEF launching, Awaits, Rewriting
<1>1. /\ request[t] \in Request /\ request[t] # None
      /\ request[t].next \in {"prepare", "trampoline", "rewrite"}
  BY DEF ThreadInv, LocalInv, TypeOK, Request
<1>2. /\ pc'[t] = request[t].next /\ request'[t] = None
      /\ job'[t] = job[t] /\ todo'[t] = todo[t] /\ helping'[t] = helping[t]
      /\ result'[t] = result[t] /\ stack'[t] = stack[t]
  BY DEF Deliver, Goto, TypeOK
<1>3. \A g \in literals[t] : g \in Fuh /\ fuhMap'[g.method] = g
  BY Stays DEF ThreadInv, LocalInv, IsTheHandle, TypeOK
<1>4. cur[t] # None => cur[t] \in Fuh /\ fuhMap'[cur[t].method] = cur[t]
  <2>1. cur[t] # None => cur[t] \in Fuh
    BY DEF TypeOK
  <2> QED BY <2>1, Stays DEF ThreadInv, LocalInv, IsTheHandle
<1>5. CASE request[t].next = "rewrite"
  <2>1. cur'[t] = cur[t] /\ literals'[t] = literals[t] \cup {h}
    BY <1>5 DEF Deliver, TypeOK
  <2>2. LocalInv(t)'
    BY <1>1, <1>2, <1>3, <1>4, <1>5, <2>1 DEF ThreadInv, LocalInv, IsTheHandle
  <2>3. HelpingInv(t)'
    BY <1>1, <1>2, <1>5, <2>1 DEF ThreadInv, HelpingInv
  <2>4. LockInv(t)'
    BY <1>1, <1>2, <1>5, <2>1 DEF ThreadInv, LockInv
  <2>5. LaunchInv(t)'
    BY <1>1, <1>2, <1>5, <2>1, Stays DEF ThreadInv, LaunchInv, LocalInv, Grows
  <2>6. ResultInv(t)' /\ FrameInv(t)'
    BY <1>1, <1>2, <1>5, SameFrames DEF ResultInv
  <2> QED BY <2>2, <2>3, <2>4, <2>5, <2>6 DEF ThreadInv
<1>6. CASE request[t].next # "rewrite"
  <2>1. cur'[t] = h /\ literals'[t] = literals[t] /\ pending'[t] = pending[t]
    BY <1>6 DEF Deliver, TypeOK
  <2>2. request[t].next = "prepare" =>
          /\ job[t] = "launch" /\ helping[t] # None
          /\ h.method = HelperMethod[helping[t]] /\ h.method \in Cbc
    BY <1>1, MethodsAssumption DEF ThreadInv, HelpingInv, TypeOK
  <2>3. LocalInv(t)'
    BY <1>1, <1>2, <1>3, <1>6, <2>1, <2>2 DEF LocalInv, IsTheHandle
  <2>4. HelpingInv(t)'
    BY <1>1, <1>2, <1>6, <2>1, <2>2 DEF HelpingInv
  <2>5. LockInv(t)'
    BY <1>1, <1>2, <1>6, <2>1 DEF LockInv
  <2>6. LaunchInv(t)'
    BY <1>1, <1>2, <1>6, <2>1, Stays DEF ThreadInv, LaunchInv, LocalInv, Grows
  <2>7. ResultInv(t)' /\ FrameInv(t)'
    BY <1>1, <1>2, <1>6, SameFrames DEF ResultInv
  <2> QED BY <2>3, <2>4, <2>5, <2>6, <2>7 DEF ThreadInv
<1> QED BY <1>5, <1>6

\* Every step of a thread keeps its own invariant.
LEMMA OwnStep ==
  ASSUME IInv, TypeOK', Grows, NEW t \in Threads, Step(t)
  PROVE  ThreadInv(t)'
<1> TypeOK /\ ThreadInv(t) /\ MapInv /\ HelpersInv /\ TrampolinesInv
  BY DEF IInv
<1> USE DEF launching, rewriting, guest, shared, Awaits, Rewriting, At
<1>cur. cur[t] # None =>
          cur[t] \in Fuh /\ cur[t].method \in Callable
          /\ fuhMap'[cur[t].method] = cur[t]
  <2>1. cur[t] # None => cur[t] \in Fuh
    BY DEF TypeOK
  <2> QED BY <2>1, Stays DEF Fuh, ThreadInv, LocalInv, IsTheHandle
<1>literals. \A h \in literals[t] : h \in Fuh /\ fuhMap'[h.method] = h
  BY Stays DEF ThreadInv, LocalInv, IsTheHandle, TypeOK
<1>request. request[t] # None =>
              /\ request[t] \in Request /\ request[t].method \in Callable
              /\ request[t].next \in {"prepare", "trampoline", "rewrite"}
  BY DEF TypeOK, Request
<1>helpers. \A h \in Helper : helpers[h] # None => helpers'[h] # None
  BY DEF Grows
<1>allSet. AllHelpersSet => AllHelpersSet'
  BY Stays
<1>distinct. None \notin Fuh /\ None \notin Request /\ None \notin Code
             /\ None \notin Result /\ None \notin Helper
  BY NoneAssumption
<1>AcquireMiss. CASE AcquireMiss(t)
  <2>locals. /\ pc'[t] = "build" /\ job'[t] = job[t] /\ todo'[t] = todo[t]
        /\ helping'[t] = helping[t] /\ request'[t] = request[t]
        /\ cur'[t] = cur[t] /\ pending'[t] = pending[t]
        /\ literals'[t] = literals[t] /\ result'[t] = result[t]
        /\ stack'[t] = stack[t]
    BY <1>AcquireMiss DEF AcquireMiss, Goto, TypeOK
  <2>LocalInv. LocalInv(t)'
    BY <1>AcquireMiss, <2>locals, <1>cur, <1>literals, <1>request, <1>distinct
       DEF AcquireMiss, Goto, ThreadInv, LocalInv, IsTheHandle
  <2>HelpingInv. HelpingInv(t)'
    BY <1>AcquireMiss, <2>locals, <1>request, <1>distinct
       DEF AcquireMiss, Goto, ThreadInv, HelpingInv, LocalInv
  <2>LockInv. LockInv(t)'
    BY <1>AcquireMiss, <2>locals, <1>cur, <1>request, <1>distinct
       DEF AcquireMiss, Goto, ThreadInv, LockInv, LocalInv
  <2>ResultInv. ResultInv(t)'
    BY <1>AcquireMiss, <2>locals, <1>distinct
       DEF AcquireMiss, Goto, ThreadInv, ResultInv, LocalInv
  <2>LaunchInv. LaunchInv(t)'
    BY <1>AcquireMiss, <2>locals, <1>allSet, <1>helpers, <1>distinct
       DEF AcquireMiss, Goto, ThreadInv, LaunchInv, LocalInv
  <2>FrameInv. FrameInv(t)'
    BY <2>locals, SameFrames
  <2> QED BY <2>LocalInv, <2>HelpingInv, <2>LockInv, <2>ResultInv, <2>LaunchInv,
           <2>FrameInv DEF ThreadInv
<1>PrepareHit. CASE PrepareHit(t)
  <2>locals. /\ pc'[t] = "prepared" /\ job'[t] = job[t] /\ todo'[t] = todo[t]
        /\ helping'[t] = helping[t] /\ request'[t] = request[t]
        /\ cur'[t] = cur[t] /\ pending'[t] = pending[t]
        /\ literals'[t] = literals[t]
        /\ result'[t] = [success |-> TRUE, fuh |-> cur[t], info |-> bytecode[cur[t]]]
        /\ stack'[t] = stack[t]
    BY <1>PrepareHit DEF PrepareHit, Goto, TypeOK
  <2>LocalInv. LocalInv(t)'
    BY <1>PrepareHit, <2>locals, <1>cur, <1>literals, <1>request, <1>distinct
       DEF PrepareHit, Goto, ThreadInv, LocalInv, IsTheHandle
  <2>HelpingInv. HelpingInv(t)'
    BY <1>PrepareHit, <2>locals, <1>request, <1>distinct
       DEF PrepareHit, Goto, ThreadInv, HelpingInv, LocalInv
  <2>LockInv. LockInv(t)'
    BY <1>PrepareHit, <2>locals, <1>cur, <1>request, <1>distinct
       DEF PrepareHit, Goto, ThreadInv, LockInv, LocalInv
  <2>ResultInv. ResultInv(t)'
    <3>1. cur[t] \in Fuh /\ bytecode[cur[t]] \in Code /\ UNCHANGED bytecode
      BY <1>PrepareHit, <1>cur DEF PrepareHit, ThreadInv, LocalInv, TypeOK
    <3>2. result'[t] \in Result
      BY <2>locals, <3>1 DEF Result
    <3>3. /\ result'[t].fuh = cur'[t] /\ result'[t].info = bytecode'[cur[t]]
          /\ result'[t].success = TRUE
      BY <2>locals, <3>1
    <3>4. cur'[t] = cur[t]
      BY <2>locals
    <3> QED BY <3>2, <3>3, <3>4, <1>distinct, Zenon DEF ResultInv
  <2>LaunchInv. LaunchInv(t)'
    BY <1>PrepareHit, <2>locals, <1>allSet, <1>helpers, <1>distinct
       DEF PrepareHit, Goto, ThreadInv, LaunchInv, LocalInv
  <2>FrameInv. FrameInv(t)'
    BY <2>locals, SameFrames
  <2> QED BY <2>LocalInv, <2>HelpingInv, <2>LockInv, <2>ResultInv, <2>LaunchInv,
           <2>FrameInv DEF ThreadInv
<1>PrepareMiss. CASE PrepareMiss(t)
  <2>1. cur[t] # None /\ fuhLock'[cur[t]] = t /\ UNCHANGED bytecode
    BY <1>PrepareMiss, <1>cur DEF PrepareMiss, ThreadInv, LocalInv, TypeOK
  <2>locals. /\ pc'[t] = "rewrite" /\ job'[t] = job[t] /\ todo'[t] = todo[t]
        /\ helping'[t] = helping[t] /\ request'[t] = request[t]
        /\ cur'[t] = cur[t] /\ pending'[t] = Refs[cur[t].method]
        /\ literals'[t] = {} /\ result'[t] = result[t]
        /\ stack'[t] = stack[t]
    BY <1>PrepareMiss DEF PrepareMiss, Goto, TypeOK
  <2>LocalInv. LocalInv(t)'
    BY <1>PrepareMiss, <2>locals, <1>cur, <1>literals, <1>request, <1>distinct
       DEF PrepareMiss, Goto, ThreadInv, LocalInv, IsTheHandle
  <2>HelpingInv. HelpingInv(t)'
    BY <1>PrepareMiss, <2>locals, <1>request, <1>distinct
       DEF PrepareMiss, Goto, ThreadInv, HelpingInv, LocalInv
  <2>LockInv. LockInv(t)'
    BY <1>PrepareMiss, <2>locals, <1>cur, <1>request, <1>distinct, <2>1
       DEF PrepareMiss, Goto, ThreadInv, LockInv, LocalInv
  <2>ResultInv. ResultInv(t)'
    BY <1>PrepareMiss, <2>locals, <1>distinct
       DEF PrepareMiss, Goto, ThreadInv, ResultInv, LocalInv
  <2>LaunchInv. LaunchInv(t)'
    BY <1>PrepareMiss, <2>locals, <1>allSet, <1>helpers, <1>distinct
       DEF PrepareMiss, Goto, ThreadInv, LaunchInv, LocalInv
  <2>FrameInv. FrameInv(t)'
    BY <2>locals, SameFrames
  <2> QED BY <2>LocalInv, <2>HelpingInv, <2>LockInv, <2>ResultInv, <2>LaunchInv,
           <2>FrameInv DEF ThreadInv
<1>RewriteReference. CASE RewriteReference(t)
  <2>1. [method |-> Head(pending[t]), next |-> "rewrite"] \in Request
    BY <1>RewriteReference DEF RewriteReference, Request
  <2>locals. /\ pc'[t] = "acquire" /\ job'[t] = job[t] /\ todo'[t] = todo[t]
        /\ helping'[t] = helping[t]
        /\ request'[t] = [method |-> Head(pending[t]), next |-> "rewrite"]
        /\ cur'[t] = cur[t] /\ pending'[t] = pending[t]
        /\ literals'[t] = literals[t] /\ result'[t] = result[t]
        /\ stack'[t] = stack[t]
    BY <1>RewriteReference DEF RewriteReference, Acquire, Goto, TypeOK
  <2>LocalInv. LocalInv(t)'
    BY <1>RewriteReference, <2>locals, <1>cur, <1>literals, <1>request,
       <1>distinct, <2>1
       DEF RewriteReference, Acquire, Goto, ThreadInv, LocalInv, IsTheHandle
  <2>HelpingInv. HelpingInv(t)'
    BY <1>RewriteReference, <2>locals, <1>request, <1>distinct, <2>1
       DEF RewriteReference, Acquire, Goto, ThreadInv, HelpingInv, LocalInv
  <2>LockInv. LockInv(t)'
    BY <1>RewriteReference, <2>locals, <1>cur, <1>request, <1>distinct, <2>1
       DEF RewriteReference, Acquire, Goto, ThreadInv, LockInv, LocalInv
  <2>ResultInv. ResultInv(t)'
    BY <1>RewriteReference, <2>locals, <1>distinct
       DEF RewriteReference, Acquire, Goto, ThreadInv, ResultInv, LocalInv
  <2>LaunchInv. LaunchInv(t)'
    BY <1>RewriteReference, <2>locals, <1>allSet, <1>helpers, <1>distinct, <2>1
       DEF RewriteReference, Acquire, Goto, ThreadInv, LaunchInv, LocalInv
  <2>FrameInv. FrameInv(t)'
    BY <2>locals, SameFrames
  <2> QED BY <2>LocalInv, <2>HelpingInv, <2>LockInv, <2>ResultInv, <2>LaunchInv,
           <2>FrameInv DEF ThreadInv
<1>Publish. CASE Publish(t)
  <2>1. bytecode'[cur[t]] = [owner |-> cur[t], by |-> t, literals |-> literals[t]]
    BY <1>Publish, <1>cur DEF Publish, ThreadInv, LocalInv, TypeOK
  <2>locals. /\ pc'[t] = "prepared" /\ job'[t] = job[t] /\ todo'[t] = todo[t]
        /\ helping'[t] = helping[t] /\ request'[t] = request[t]
        /\ cur'[t] = cur[t] /\ pending'[t] = pending[t]
        /\ literals'[t] = {}
        /\ result'[t] = [success |-> TRUE, fuh |-> cur[t],
             info |-> [owner |-> cur[t], by |-> t, literals |-> literals[t]]]
        /\ stack'[t] = stack[t]
    BY <1>Publish DEF Publish, Goto, TypeOK
  <2>LocalInv. LocalInv(t)'
    BY <1>Publish, <2>locals, <1>cur, <1>literals, <1>request, <1>distinct
       DEF Publish, Goto, ThreadInv, LocalInv, IsTheHandle
  <2>HelpingInv. HelpingInv(t)'
    BY <1>Publish, <2>locals, <1>request, <1>distinct
       DEF Publish, Goto, ThreadInv, HelpingInv, LocalInv
  <2>LockInv. LockInv(t)'
    BY <1>Publish, <2>locals, <1>cur, <1>request, <1>distinct
       DEF Publish, Goto, ThreadInv, LockInv, LocalInv
  <2>ResultInv. ResultInv(t)'
    <3>1. cur[t] \in Fuh
      BY <1>Publish, <1>cur DEF Publish, ThreadInv, LocalInv
    <3>2. result'[t] \in Result
      BY <2>locals, <3>1 DEF Result, Code, TypeOK
    <3>3. /\ result'[t].fuh = cur'[t] /\ result'[t].info = bytecode'[cur[t]]
          /\ result'[t].success = TRUE
      BY <2>locals, <2>1
    <3>4. cur'[t] = cur[t]
      BY <2>locals
    <3> QED BY <3>2, <3>3, <3>4, <1>distinct, Zenon DEF ResultInv
  <2>LaunchInv. LaunchInv(t)'
    BY <1>Publish, <2>locals, <1>allSet, <1>helpers, <1>distinct
       DEF Publish, Goto, ThreadInv, LaunchInv, LocalInv
  <2>FrameInv. FrameInv(t)'
    BY <2>locals, SameFrames
  <2> QED BY <2>LocalInv, <2>HelpingInv, <2>LockInv, <2>ResultInv, <2>LaunchInv,
           <2>FrameInv DEF ThreadInv
<1>Launch. CASE Launch(t)
  <2>locals. /\ pc'[t] = "helpers" /\ job'[t] = "launch" /\ todo'[t] = Helper
        /\ helping'[t] = helping[t] /\ request'[t] = request[t]
        /\ cur'[t] = cur[t] /\ pending'[t] = pending[t]
        /\ literals'[t] = literals[t] /\ result'[t] = result[t]
        /\ stack'[t] = stack[t]
    BY <1>Launch DEF LaunchHelpers, Launch, Goto, TypeOK
  <2>LocalInv. LocalInv(t)'
    BY <1>Launch, <2>locals, <1>cur, <1>literals, <1>request, <1>distinct
       DEF Launch, Goto, ThreadInv, LocalInv, IsTheHandle
  <2>HelpingInv. HelpingInv(t)'
    BY <1>Launch, <2>locals, <1>request, <1>distinct
       DEF Launch, Goto, ThreadInv, HelpingInv, LocalInv
  <2>LockInv. LockInv(t)'
    BY <1>Launch, <2>locals, <1>cur, <1>request, <1>distinct
       DEF Launch, Goto, ThreadInv, LockInv, LocalInv
  <2>ResultInv. ResultInv(t)'
    BY <1>Launch, <2>locals, <1>distinct
       DEF Launch, Goto, ThreadInv, ResultInv, LocalInv
  <2>LaunchInv. LaunchInv(t)'
    BY <1>Launch, <2>locals, <1>allSet, <1>helpers, <1>distinct
       DEF Launch, Goto, ThreadInv, LaunchInv, LocalInv
  <2>FrameInv. FrameInv(t)'
    BY <2>locals, SameFrames
  <2> QED BY <2>LocalInv, <2>HelpingInv, <2>LockInv, <2>ResultInv, <2>LaunchInv,
           <2>FrameInv DEF ThreadInv
<1>SetHelper. CASE SetHelper(t)
  <2>1. helping[t] \in Helper /\ helpers'[helping[t]] # None
    BY <1>SetHelper, <1>cur, <1>distinct
       DEF SetHelper, TypeOK, ThreadInv, LocalInv, HelpingInv
  <2>locals. /\ pc'[t] = "helpers" /\ job'[t] = job[t]
        /\ todo'[t] = todo[t] \ {helping[t]} /\ helping'[t] = None
        /\ request'[t] = request[t] /\ cur'[t] = None
        /\ pending'[t] = pending[t] /\ literals'[t] = literals[t]
        /\ result'[t] = result[t] /\ stack'[t] = stack[t]
    BY <1>SetHelper DEF SetHelper, Leave, Goto, TypeOK
  <2>LocalInv. LocalInv(t)'
    BY <1>SetHelper, <2>locals, <1>cur, <1>literals, <1>request, <1>distinct
       DEF SetHelper, Leave, Goto, ThreadInv, LocalInv, IsTheHandle
  <2>HelpingInv. HelpingInv(t)'
    BY <1>SetHelper, <2>locals, <1>request, <1>distinct
       DEF SetHelper, Leave, Goto, ThreadInv, HelpingInv, LocalInv
  <2>LockInv. LockInv(t)'
    BY <1>SetHelper, <2>locals, <1>cur, <1>request, <1>distinct
       DEF SetHelper, Leave, Goto, ThreadInv, LockInv, LocalInv
  <2>ResultInv. ResultInv(t)'
    BY <1>SetHelper, <2>locals, <1>distinct
       DEF SetHelper, Leave, Goto, ThreadInv, ResultInv, LocalInv
  <2>LaunchInv. LaunchInv(t)'
    BY <1>SetHelper, <2>locals, <1>allSet, <1>helpers, <1>distinct, <2>1
       DEF SetHelper, Leave, Goto, ThreadInv, LaunchInv, LocalInv, HelpingInv
  <2>FrameInv. FrameInv(t)'
    BY <2>locals, SameFrames
  <2> QED BY <2>LocalInv, <2>HelpingInv, <2>LockInv, <2>ResultInv, <2>LaunchInv,
           <2>FrameInv DEF ThreadInv
<1>NextEntry. CASE NextEntry(t)
  <2>1. [method |-> Head(entries[t]), next |-> "trampoline"] \in Request
    BY <1>NextEntry DEF NextEntry, TypeOK, Request
  <2>locals. /\ pc'[t] = "acquire" /\ job'[t] = job[t] /\ todo'[t] = todo[t]
        /\ helping'[t] = helping[t]
        /\ request'[t] = [method |-> Head(entries[t]), next |-> "trampoline"]
        /\ cur'[t] = cur[t] /\ pending'[t] = pending[t]
        /\ literals'[t] = literals[t] /\ result'[t] = result[t]
        /\ stack'[t] = stack[t]
    BY <1>NextEntry DEF NextEntry, Acquire, Goto, TypeOK
  <2>LocalInv. LocalInv(t)'
    BY <1>NextEntry, <2>locals, <1>cur, <1>literals, <1>request, <1>distinct, <2>1
       DEF NextEntry, Acquire, Goto, ThreadInv, LocalInv, IsTheHandle
  <2>HelpingInv. HelpingInv(t)'
    BY <1>NextEntry, <2>locals, <1>request, <1>distinct, <2>1
       DEF NextEntry, Acquire, Goto, ThreadInv, HelpingInv, LocalInv
  <2>LockInv. LockInv(t)'
    BY <1>NextEntry, <2>locals, <1>cur, <1>request, <1>distinct, <2>1
       DEF NextEntry, Acquire, Goto, ThreadInv, LockInv, LocalInv
  <2>ResultInv. ResultInv(t)'
    BY <1>NextEntry, <2>locals, <1>distinct
       DEF NextEntry, Acquire, Goto, ThreadInv, ResultInv, LocalInv
  <2>LaunchInv. LaunchInv(t)'
    BY <1>NextEntry, <2>locals, <1>allSet, <1>helpers, <1>distinct, <2>1
       DEF NextEntry, Acquire, Goto, ThreadInv, LaunchInv, LocalInv
  <2>FrameInv. FrameInv(t)'
    BY <2>locals, SameFrames
  <2> QED BY <2>LocalInv, <2>HelpingInv, <2>LockInv, <2>ResultInv, <2>LaunchInv,
           <2>FrameInv DEF ThreadInv
<1>Launched. CASE Launched(t)
  <2>1. AllHelpersSet
    BY <1>Launched DEF Launched, ThreadInv, LaunchInv, AllHelpersSet
  <2>locals. /\ pc'[t] = "out" /\ job'[t] = "call" /\ todo'[t] = todo[t]
        /\ helping'[t] = helping[t] /\ request'[t] = request[t]
        /\ cur'[t] = cur[t] /\ pending'[t] = pending[t]
        /\ literals'[t] = literals[t] /\ result'[t] = result[t]
        /\ stack'[t] = stack[t]
    BY <1>Launched DEF Launched, Goto, TypeOK
  <2>LocalInv. LocalInv(t)'
    BY <1>Launched, <2>locals, <1>cur, <1>literals, <1>request, <1>distinct
       DEF Launched, Goto, ThreadInv, LocalInv, IsTheHandle
  <2>HelpingInv. HelpingInv(t)'
    BY <1>Launched, <2>locals, <1>request, <1>distinct
       DEF Launched, Goto, ThreadInv, HelpingInv, LocalInv
  <2>LockInv. LockInv(t)'
    BY <1>Launched, <2>locals, <1>cur, <1>request, <1>distinct
       DEF Launched, Goto, ThreadInv, LockInv, LocalInv
  <2>ResultInv. ResultInv(t)'
    BY <1>Launched, <2>locals, <1>distinct
       DEF Launched, Goto, ThreadInv, ResultInv, LocalInv
  <2>LaunchInv. LaunchInv(t)'
    BY <1>Launched, <2>locals, <1>allSet, <1>helpers, <1>distinct, <2>1
       DEF Launched, Goto, ThreadInv, LaunchInv, LocalInv
  <2>FrameInv. FrameInv(t)'
    BY <2>locals, SameFrames
  <2> QED BY <2>LocalInv, <2>HelpingInv, <2>LockInv, <2>ResultInv, <2>LaunchInv,
           <2>FrameInv DEF ThreadInv
<1>EnterUnlinked. CASE EnterUnlinked(t)
  <2>locals. /\ pc'[t] = "prepare" /\ job'[t] = job[t] /\ todo'[t] = todo[t]
        /\ helping'[t] = helping[t] /\ request'[t] = request[t]
        /\ cur'[t] = cur[t] /\ pending'[t] = pending[t]
        /\ literals'[t] = literals[t] /\ result'[t] = result[t]
        /\ stack'[t] = stack[t]
    BY <1>EnterUnlinked DEF EnterUnlinked, Goto, LaunchInv, TypeOK
  <2>LocalInv. LocalInv(t)'
    BY <1>EnterUnlinked, <2>locals, <1>cur, <1>literals, <1>request, <1>distinct
       DEF EnterUnlinked, Goto, LaunchInv, ThreadInv, LocalInv, IsTheHandle
  <2>HelpingInv. HelpingInv(t)'
    BY <1>EnterUnlinked, <2>locals, <1>request, <1>distinct
       DEF EnterUnlinked, Goto, LaunchInv, ThreadInv, HelpingInv, LocalInv
  <2>LockInv. LockInv(t)'
    BY <1>EnterUnlinked, <2>locals, <1>cur, <1>request, <1>distinct
       DEF EnterUnlinked, Goto, LaunchInv, ThreadInv, LockInv, LocalInv
  <2>ResultInv. ResultInv(t)'
    BY <1>EnterUnlinked, <2>locals, <1>distinct
       DEF EnterUnlinked, Goto, LaunchInv, ThreadInv, ResultInv, LocalInv
  <2>LaunchInv. LaunchInv(t)'
    BY <1>EnterUnlinked, <2>locals, <1>allSet, <1>helpers, <1>distinct
       DEF EnterUnlinked, Goto, LaunchInv, ThreadInv, LaunchInv, LocalInv
  <2>FrameInv. FrameInv(t)'
    BY <2>locals, SameFrames
  <2> QED BY <2>LocalInv, <2>HelpingInv, <2>LockInv, <2>ResultInv, <2>LaunchInv,
           <2>FrameInv DEF ThreadInv
<1>CallUnlinked. CASE CallUnlinked(t)
  <2>locals. /\ pc'[t] = pc[t] /\ job'[t] = job[t] /\ todo'[t] = todo[t]
        /\ helping'[t] = helping[t] /\ request'[t] = request[t]
        /\ cur'[t] = cur[t] /\ pending'[t] = pending[t]
        /\ literals'[t] = literals[t] /\ result'[t] = result[t]
        /\ stack'[t] = stack[t]
    BY <1>CallUnlinked DEF CallUnlinked, TypeOK
  <2>LocalInv. LocalInv(t)'
    BY <1>CallUnlinked, <2>locals, <1>cur, <1>literals, <1>request, <1>distinct
       DEF CallUnlinked, ThreadInv, LocalInv, IsTheHandle
  <2>HelpingInv. HelpingInv(t)'
    BY <1>CallUnlinked, <2>locals, <1>request, <1>distinct
       DEF CallUnlinked, ThreadInv, HelpingInv, LocalInv
  <2>LockInv. LockInv(t)'
    BY <1>CallUnlinked, <2>locals, <1>cur, <1>request, <1>distinct
       DEF CallUnlinked, ThreadInv, LockInv, LocalInv
  <2>ResultInv. ResultInv(t)'
    BY <1>CallUnlinked, <2>locals, <1>distinct
       DEF CallUnlinked, ThreadInv, ResultInv, LocalInv
  <2>LaunchInv. LaunchInv(t)'
    BY <1>CallUnlinked, <2>locals, <1>allSet, <1>helpers, <1>distinct
       DEF CallUnlinked, ThreadInv, LaunchInv, LocalInv
  <2>FrameInv. FrameInv(t)'
    BY <2>locals, SameFrames
  <2> QED BY <2>LocalInv, <2>HelpingInv, <2>LockInv, <2>ResultInv, <2>LaunchInv,
           <2>FrameInv DEF ThreadInv
<1>Return. CASE Return(t)
  <2>locals. /\ pc'[t] = pc[t] /\ job'[t] = job[t] /\ todo'[t] = todo[t]
        /\ helping'[t] = helping[t] /\ request'[t] = request[t]
        /\ cur'[t] = cur[t] /\ pending'[t] = pending[t]
        /\ literals'[t] = literals[t] /\ result'[t] = result[t]
        /\ stack'[t] = SubSeq(stack[t], 1, Len(stack[t]) - 1)
    BY <1>Return DEF Return, TypeOK
  <2>LocalInv. LocalInv(t)'
    BY <1>Return, <2>locals, <1>cur, <1>literals, <1>request, <1>distinct
       DEF Return, ThreadInv, LocalInv, IsTheHandle
  <2>HelpingInv. HelpingInv(t)'
    BY <1>Return, <2>locals, <1>request, <1>distinct
       DEF Return, ThreadInv, HelpingInv, LocalInv
  <2>LockInv. LockInv(t)'
    BY <1>Return, <2>locals, <1>cur, <1>request, <1>distinct
       DEF Return, ThreadInv, LockInv, LocalInv
  <2>ResultInv. ResultInv(t)'
    BY <1>Return, <2>locals, <1>distinct DEF Return, ThreadInv, ResultInv, LocalInv
  <2>LaunchInv. LaunchInv(t)'
    BY <1>Return, <2>locals, <1>allSet, <1>helpers, <1>distinct
       DEF Return, ThreadInv, LaunchInv, LocalInv
  <2>FrameInv. FrameInv(t)'
    <3>1. stack[t] \in Seq(Frame) /\ stack[t] # <<>>
      BY <1>Return DEF Return, TypeOK
    <3>2. \A i \in DOMAIN stack'[t] :
            i \in DOMAIN stack[t] /\ stack'[t][i] = stack[t][i]
      BY <2>locals, <3>1, SubSeqProperties
    <3> QED BY <3>2, SameFrames
  <2> QED BY <2>LocalInv, <2>HelpingInv, <2>LockInv, <2>ResultInv, <2>LaunchInv,
           <2>FrameInv DEF ThreadInv
<1>EnterLinked. CASE EnterLinked(t)
  <2>locals. /\ pc'[t] = "out" /\ job'[t] = job[t] /\ todo'[t] = todo[t]
        /\ helping'[t] = helping[t] /\ request'[t] = request[t]
        /\ cur'[t] = None /\ pending'[t] = pending[t]
        /\ literals'[t] = literals[t] /\ result'[t] = result[t]
        /\ stack'[t] = Append(stack[t], [called |-> cur[t], fuh |-> cur[t], code |-> bytecode[cur[t]]])
    BY <1>EnterLinked DEF EnterLinked, Leave, Goto, Push, TypeOK
  <2>LocalInv. LocalInv(t)'
    BY <1>EnterLinked, <2>locals, <1>cur, <1>literals, <1>request, <1>distinct
       DEF EnterLinked, Leave, Goto, Push, ThreadInv, LocalInv, IsTheHandle
  <2>HelpingInv. HelpingInv(t)'
    BY <1>EnterLinked, <2>locals, <1>request, <1>distinct
       DEF EnterLinked, Leave, Goto, Push, ThreadInv, HelpingInv, LocalInv
  <2>LockInv. LockInv(t)'
    BY <1>EnterLinked, <2>locals, <1>cur, <1>request, <1>distinct
       DEF EnterLinked, Leave, Goto, Push, ThreadInv, LockInv, LocalInv
  <2>ResultInv. ResultInv(t)'
    BY <1>EnterLinked, <2>locals, <1>distinct
       DEF EnterLinked, Leave, Goto, Push, ThreadInv, ResultInv, LocalInv
  <2>LaunchInv. LaunchInv(t)'
    BY <1>EnterLinked, <2>locals, <1>allSet, <1>helpers, <1>distinct
       DEF EnterLinked, Leave, Goto, Push, ThreadInv, LaunchInv, LocalInv
  <2>FrameInv. FrameInv(t)'
    <3> DEFINE f == [called |-> cur[t], fuh |-> cur[t], code |-> bytecode[cur[t]]]
    <3>1. cur[t] \in Fuh /\ bytecode[cur[t]] \in Code /\ cur[t].method \in Cbc
      BY <1>EnterLinked, <1>cur DEF EnterLinked, ThreadInv, LocalInv, TypeOK
    <3>2. f \in Frame /\ FrameOK(f)
      BY <3>1 DEF Frame, FrameOK
    <3>3. stack'[t] = Append(stack[t], f) /\ stack[t] \in Seq(Frame)
      BY <2>locals DEF TypeOK
    <3> HIDE DEF f
    <3> QED BY <3>2, <3>3, FramesStay
  <2> QED BY <2>LocalInv, <2>HelpingInv, <2>LockInv, <2>ResultInv, <2>LaunchInv,
           <2>FrameInv DEF ThreadInv
<1>EnterPrepared. CASE EnterPrepared(t)
  <2>locals. /\ pc'[t] = "out" /\ job'[t] = job[t] /\ todo'[t] = todo[t]
        /\ helping'[t] = helping[t] /\ request'[t] = request[t]
        /\ cur'[t] = None /\ pending'[t] = pending[t]
        /\ literals'[t] = literals[t] /\ result'[t] = None
        /\ stack'[t] = Append(stack[t],
             [called |-> cur[t],
              fuh |-> IF result[t].success THEN cur[t] ELSE result[t].fuh,
              code |-> result[t].info])
    BY <1>EnterPrepared DEF FrameHandle, EnterPrepared, Leave, Goto, Push, TypeOK
  <2>LocalInv. LocalInv(t)'
    BY <1>EnterPrepared, <2>locals, <1>cur, <1>literals, <1>request, <1>distinct
       DEF EnterPrepared, Leave, Goto, Push, ThreadInv, LocalInv, IsTheHandle
  <2>HelpingInv. HelpingInv(t)'
    BY <1>EnterPrepared, <2>locals, <1>request, <1>distinct
       DEF EnterPrepared, Leave, Goto, Push, ThreadInv, HelpingInv, LocalInv
  <2>LockInv. LockInv(t)'
    BY <1>EnterPrepared, <2>locals, <1>cur, <1>request, <1>distinct
       DEF EnterPrepared, Leave, Goto, Push, ThreadInv, LockInv, LocalInv
  <2>ResultInv. ResultInv(t)'
    BY <1>EnterPrepared, <2>locals, <1>distinct
       DEF EnterPrepared, Leave, Goto, Push, ThreadInv, ResultInv, LocalInv
  <2>LaunchInv. LaunchInv(t)'
    BY <1>EnterPrepared, <2>locals, <1>allSet, <1>helpers, <1>distinct
       DEF EnterPrepared, Leave, Goto, Push, ThreadInv, LaunchInv, LocalInv
  <2>FrameInv. FrameInv(t)'
    <3> DEFINE f == [called |-> cur[t],
                     fuh |-> IF result[t].success THEN cur[t] ELSE result[t].fuh,
                     code |-> result[t].info]
    <3>1. /\ cur[t] \in Fuh /\ cur[t].method \in Cbc
          /\ result[t] \in Result /\ ResultInv(t) /\ pc[t] = "prepared"
      BY <1>EnterPrepared, <1>cur
         DEF EnterPrepared, ThreadInv, LocalInv, ResultInv, TypeOK
    <3>2. result[t].fuh \in Fuh /\ result[t].info \in Code
      BY <3>1 DEF Result
    <3>3. f \in Frame /\ FrameOK(f)
      BY <3>1, <3>2 DEF Frame, FrameOK, ResultInv
    <3>4. stack'[t] = Append(stack[t], f) /\ stack[t] \in Seq(Frame)
      BY <2>locals DEF TypeOK
    <3> HIDE DEF f
    <3> QED BY <3>3, <3>4, FramesStay
  <2> QED BY <2>LocalInv, <2>HelpingInv, <2>LockInv, <2>ResultInv, <2>LaunchInv,
           <2>FrameInv DEF ThreadInv
<1>AcquireHit. CASE AcquireHit(t)
  <2> DEFINE h == fuhMap[request[t].method]
  <2>1. request[t].method \in Callable
    BY <1>AcquireHit, <1>request DEF AcquireHit, ThreadInv, LocalInv
  <2>2. h \in Fuh /\ h.method = request[t].method
    BY <1>AcquireHit, <2>1 DEF AcquireHit, TypeOK, MapInv
  <2>3. fuhMap'[h.method] = h
    BY <1>AcquireHit, <2>2 DEF AcquireHit
  <2> HIDE DEF h
  <2> QED BY <1>AcquireHit, <2>2, <2>3, Delivered DEF AcquireHit, h
<1>Build. CASE Build(t)
  <2> DEFINE h == [method |-> request[t].method, maker |-> t]
  <2>1. request[t].method \in Callable
    BY <1>Build, <1>request DEF Build, ThreadInv, LocalInv
  <2>2. h \in Fuh /\ h.method = request[t].method
    BY <2>1 DEF Fuh
  <2>3. fuhMap'[h.method] = h
    BY <1>Build, <2>1 DEF Build, TypeOK
  <2>4. Deliver(t, h) /\ UNCHANGED <<job, launching, result, stack, fuhLock, bytecode>>
    BY <1>Build DEF Build
  <2> HIDE DEF h
  <2> QED BY <1>Build, <2>2, <2>3, <2>4, Delivered DEF Build
<1>RewriteAbstract. CASE RewriteAbstract(t)
  <2> DEFINE helper == helpers["ThrowAbstractMethodCallError"]
  <2>locals. /\ pc'[t] = pc[t] /\ job'[t] = job[t] /\ todo'[t] = todo[t]
             /\ helping'[t] = helping[t] /\ request'[t] = request[t]
             /\ cur'[t] = cur[t] /\ stack'[t] = stack[t] /\ pc[t] = "rewrite"
             /\ UNCHANGED <<fuhMap, bytecode, helpers, fuhLock>>
    BY <1>RewriteAbstract DEF RewriteAbstract
  <2>1. helper # None => helper \in Fuh /\ fuhMap[helper.method] = helper
    BY DEF HelpersInv, IsTheHandle, Helper, TypeOK
  <2>2. \A g \in literals'[t] : fuhMap'[g.method] = g
    <3>1. CASE helper = None
      BY <1>RewriteAbstract, <3>1, <1>literals DEF RewriteAbstract
    <3>2. CASE helper # None
      <4>1. literals'[t] = literals[t] \cup {helper}
        BY <1>RewriteAbstract, <3>2 DEF RewriteAbstract, TypeOK
      <4> QED BY <2>1, <2>locals, <3>2, <4>1, <1>literals
    <3> QED BY <3>1, <3>2
  <2>LocalInv. LocalInv(t)'
    BY <2>locals, <2>2, <1>cur, <1>request DEF ThreadInv, LocalInv, IsTheHandle
  <2>HelpingInv. HelpingInv(t)'
    BY <2>locals DEF ThreadInv, LocalInv, HelpingInv
  <2>LockInv. LockInv(t)'
    BY <2>locals DEF ThreadInv, LockInv
  <2>LaunchInv. LaunchInv(t)'
    BY <2>locals DEF ThreadInv, LaunchInv, AllHelpersSet
  <2>FrameInv. ResultInv(t)' /\ FrameInv(t)'
    BY <2>locals, SameFrames DEF ResultInv
  <2> QED BY <2>LocalInv, <2>HelpingInv, <2>LockInv, <2>LaunchInv, <2>FrameInv
        DEF ThreadInv
<1>RewriteFails. CASE RewriteFails(t)
  <2> DEFINE helper == helpers["ThrowSymbolResolutionError"]
  <2>1. CASE helper = None
    <3>1. UNCHANGED <<pc, job, todo, helping, request, cur, pending, literals,
                      result, stack, mapLock, fuhMap, fuhLock, bytecode>>
      BY <1>RewriteFails, <2>1 DEF RewriteFails
    <3>2. UNCHANGED Locals(t) /\ HeldStays(t)
      BY <3>1 DEF Locals, HeldStays
    <3> QED BY <3>2, UntouchedThread
  <2>2. CASE helper # None
    <3>locals. /\ pc'[t] = "prepared" /\ job'[t] = job[t] /\ todo'[t] = todo[t]
               /\ helping'[t] = helping[t] /\ request'[t] = request[t]
               /\ cur'[t] = cur[t] /\ stack'[t] = stack[t] /\ literals'[t] = {}
               /\ pc[t] = "rewrite" /\ cur[t].method \in Broken
               /\ UNCHANGED <<fuhMap, bytecode, helpers>>
               /\ result'[t] = [success |-> FALSE, fuh |-> helper,
                                info |-> bytecode[helper]]
      BY <1>RewriteFails, <2>2 DEF ReleaseHandle, Resolves, RewriteFails, Goto, TypeOK
    <3>1. helper \in Fuh /\ bytecode[helper] \in Code
      BY <2>2 DEF HelpersInv, Helper, TypeOK
    <3>LocalInv. LocalInv(t)'
      BY <3>locals, <1>cur, <1>request DEF ThreadInv, LocalInv, IsTheHandle
    <3>HelpingInv. HelpingInv(t)'
      BY <3>locals DEF ThreadInv, LocalInv, HelpingInv
    <3>LockInv. LockInv(t)'
      BY <3>locals DEF ThreadInv, LocalInv, LockInv
    <3>ResultInv. ResultInv(t)'
      <4>1. result'[t] \in Result
        BY <3>locals, <3>1 DEF Result
      <4>2. /\ result'[t].fuh = helper /\ result'[t].info = bytecode[helper]
            /\ result'[t].success = FALSE /\ helper = helpers'["ThrowSymbolResolutionError"]
            /\ bytecode' = bytecode
        BY <3>locals
      <4>3. cur'[t].method \in Broken
        BY <3>locals
      <4> HIDE DEF helper
      <4> QED BY <4>1, <4>2, <4>3, <1>distinct, Zenon DEF ResultInv
    <3>LaunchInv. LaunchInv(t)'
      BY <3>locals DEF ThreadInv, LocalInv, LaunchInv, AllHelpersSet
    <3>FrameInv. FrameInv(t)'
      BY <3>locals, SameFrames
    <3> QED BY <3>LocalInv, <3>HelpingInv, <3>LockInv, <3>ResultInv, <3>LaunchInv,
               <3>FrameInv DEF ThreadInv
  <2> QED BY <2>1, <2>2
<1>NextHelper. CASE NextHelper(t)
  <2> PICK h \in todo[t] : /\ helping' = [helping EXCEPT ![t] = h]
                           /\ Acquire(t, HelperMethod[h], "prepare")
    BY <1>NextHelper DEF NextHelper
  <2>1. h \in Helper /\ HelperMethod[h] \in Callable
    BY MethodsAssumption DEF TypeOK, Callable
  <2>2. [method |-> HelperMethod[h], next |-> "prepare"] \in Request
    BY <2>1 DEF Request
  <2>locals. /\ pc'[t] = "acquire" /\ job'[t] = job[t] /\ todo'[t] = todo[t]
             /\ helping'[t] = h /\ cur'[t] = cur[t] /\ pending'[t] = pending[t]
             /\ request'[t] = [method |-> HelperMethod[h], next |-> "prepare"]
             /\ literals'[t] = literals[t] /\ stack'[t] = stack[t]
             /\ pc[t] = "helpers" /\ job[t] = "launch"
    BY <1>NextHelper DEF NextHelper, Acquire, Goto, TypeOK, ThreadInv, LaunchInv
  <2>LocalInv. LocalInv(t)'
    BY <2>locals, <2>2, <1>cur, <1>literals, <1>distinct
       DEF ThreadInv, LocalInv, IsTheHandle
  <2>HelpingInv. HelpingInv(t)'
    BY <2>locals, <2>1, <2>2, <1>distinct DEF HelpingInv
  <2>LockInv. LockInv(t)'
    BY <2>locals, <2>2 DEF LockInv
  <2>LaunchInv. LaunchInv(t)'
    BY <2>locals, <1>helpers, <1>allSet DEF ThreadInv, LaunchInv
  <2>FrameInv. ResultInv(t)' /\ FrameInv(t)'
    BY <2>locals, SameFrames DEF ResultInv
  <2> QED BY <2>LocalInv, <2>HelpingInv, <2>LockInv, <2>LaunchInv, <2>FrameInv
        DEF ThreadInv
<1>HelperPrepared. CASE HelperPrepared(t)
  <2>1. CASE ~result[t].success
    <3>1. UNCHANGED <<pc, job, todo, helping, request, cur, pending, literals,
                      result, stack, mapLock, fuhMap, fuhLock, bytecode>>
      BY <1>HelperPrepared, <2>1 DEF HelperPrepared
    <3>2. UNCHANGED Locals(t) /\ HeldStays(t)
      BY <3>1 DEF Locals, HeldStays
    <3> QED BY <3>2, UntouchedThread
  <2>2. CASE result[t].success
    <3>locals. /\ pc'[t] = "setHelper" /\ job'[t] = job[t] /\ todo'[t] = todo[t]
               /\ helping'[t] = helping[t] /\ request'[t] = request[t]
               /\ cur'[t] = cur[t] /\ stack'[t] = stack[t]
               /\ literals'[t] = literals[t] /\ pc[t] = "prepared"
               /\ job[t] = "launch" /\ UNCHANGED <<fuhMap, bytecode, helpers>>
      BY <1>HelperPrepared, <2>2 DEF HelperPrepared, Goto, TypeOK
    <3>1. bytecode[cur[t]] # None
      <4>1. result[t] \in Result /\ bytecode[cur[t]] = result[t].info
        BY <2>2, <3>locals DEF ThreadInv, ResultInv, TypeOK
      <4> QED BY <4>1, <1>distinct DEF Result
    <3>LocalInv. LocalInv(t)'
      BY <3>locals, <3>1, <1>cur, <1>literals, <1>request
         DEF ThreadInv, LocalInv, IsTheHandle
    <3>HelpingInv. HelpingInv(t)'
      BY <3>locals DEF ThreadInv, LocalInv, HelpingInv
    <3>LockInv. LockInv(t)'
      BY <3>locals DEF ThreadInv, LocalInv, LockInv
    <3>LaunchInv. LaunchInv(t)'
      BY <3>locals DEF ThreadInv, LocalInv, LaunchInv, AllHelpersSet
    <3>FrameInv. ResultInv(t)' /\ FrameInv(t)'
      BY <3>locals, SameFrames DEF ResultInv
    <3> QED BY <3>LocalInv, <3>HelpingInv, <3>LockInv, <3>LaunchInv, <3>FrameInv
          DEF ThreadInv
  <2> QED BY <2>1, <2>2
<1>DirectCallTrampoline. CASE DirectCallTrampoline(t)
  <2>1. CASE UNCHANGED <<pc, cur>>
    <3>1. UNCHANGED Locals(t) /\ HeldStays(t)
      BY <1>DirectCallTrampoline, <2>1
         DEF DirectCallTrampoline, Locals, HeldStays
    <3> QED BY <3>1, UntouchedThread
  <2>2. CASE Leave(t, "helpers")
    <3>locals. /\ pc'[t] = "helpers" /\ job'[t] = job[t] /\ todo'[t] = todo[t]
               /\ request'[t] = request[t] /\ cur'[t] = None
               /\ stack'[t] = stack[t] /\ literals'[t] = literals[t]
               /\ pc[t] = "trampoline" /\ job[t] = "launch"
               /\ UNCHANGED <<fuhMap, bytecode, helpers>>
      BY <1>DirectCallTrampoline, <2>2
         DEF DirectCallTrampoline, Leave, Goto, TypeOK, ThreadInv, LaunchInv
    <3>LocalInv. LocalInv(t)'
      BY <3>locals, <1>literals, <1>request DEF ThreadInv, LocalInv, IsTheHandle
    <3>HelpingInv. HelpingInv(t)' /\ LockInv(t)'
      BY <3>locals DEF ThreadInv, LocalInv, HelpingInv, LockInv
    <3>LaunchInv. LaunchInv(t)'
      BY <3>locals DEF ThreadInv, LocalInv, LaunchInv, AllHelpersSet
    <3>FrameInv. ResultInv(t)' /\ FrameInv(t)'
      BY <3>locals, SameFrames DEF ResultInv
    <3> QED BY <3>LocalInv, <3>HelpingInv, <3>LaunchInv, <3>FrameInv DEF ThreadInv
  <2> QED BY <1>DirectCallTrampoline, <2>1, <2>2 DEF DirectCallTrampoline
<1>CallStarts. ASSUME NEW h \in Fuh, StartCall(t, h), IsTheHandle(h), h.method \in Cbc,
                      pc[t] = "out", AllHelpersSet
               PROVE  ThreadInv(t)'
  <2>locals. /\ pc'[t] = "enter" /\ job'[t] = "call" /\ todo'[t] = todo[t]
             /\ request'[t] = request[t] /\ cur'[t] = h
             /\ stack'[t] = stack[t] /\ literals'[t] = literals[t]
             /\ UNCHANGED <<fuhMap, bytecode, helpers>>
    BY <1>CallStarts DEF StartCall, Goto, TypeOK
  <2>LocalInv. LocalInv(t)'
    BY <2>locals, <1>CallStarts, <1>literals, <1>request, <1>distinct
       DEF ThreadInv, LocalInv, IsTheHandle
  <2>HelpingInv. HelpingInv(t)' /\ LockInv(t)'
    BY <2>locals, <1>CallStarts DEF ThreadInv, LocalInv, HelpingInv, LockInv
  <2>LaunchInv. LaunchInv(t)'
    BY <2>locals, <1>CallStarts DEF ThreadInv, LocalInv, LaunchInv, AllHelpersSet
  <2>FrameInv. ResultInv(t)' /\ FrameInv(t)'
    BY <2>locals, SameFrames DEF ResultInv
  <2> QED BY <2>LocalInv, <2>HelpingInv, <2>LaunchInv, <2>FrameInv DEF ThreadInv
<1>CallTrampoline. CASE CallTrampoline(t)
  <2> PICK e \in exported : StartCall(t, directFuhs[e[1]])
    BY <1>CallTrampoline DEF CallTrampoline
  <2>1. e[1] \in DOMAIN directFuhs /\ directFuhs[e[1]] \in Fuh
    BY DEF TypeOK
  <2> QED BY <1>CallTrampoline, <1>CallStarts, <2>1
        DEF CallTrampoline, CanCall, TrampolinesInv
<1>CallInterpreted. CASE CallInterpreted(t)
  <2> DEFINE f == stack[t][Len(stack[t])]
  <2> PICK h \in f.code.literals : h.method \in Cbc /\ StartCall(t, h)
    BY <1>CallInterpreted DEF CallInterpreted
  <2>1. Len(stack[t]) \in DOMAIN stack[t] /\ f \in Frame
    BY <1>CallInterpreted DEF CallInterpreted, TypeOK
  <2>2. f.fuh \in Fuh /\ f.code \in Code /\ f.code.literals \subseteq Fuh
    BY <2>1 DEF Frame, Code
  <2>3. f.code = bytecode[f.fuh]
    BY <2>1 DEF ThreadInv, FrameInv, FrameOK
  <2>4. IsTheHandle(h)
    BY <2>2, <2>3, <1>distinct DEF MapInv
  <2> QED BY <1>CallInterpreted, <1>CallStarts, <2>2, <2>4
        DEF CallInterpreted, CanCall, ThreadInv, LaunchInv
<1> QED BY <1>AcquireHit, <1>AcquireMiss, <1>Build, <1>PrepareHit,
     <1>PrepareMiss, <1>RewriteReference, <1>RewriteAbstract, <1>Publish,
     <1>RewriteFails, <1>NextHelper, <1>HelperPrepared, <1>SetHelper,
     <1>NextEntry, <1>Launched, <1>DirectCallTrampoline, <1>EnterLinked,
     <1>EnterUnlinked, <1>EnterPrepared, <1>Launch, <1>CallTrampoline,
     <1>CallInterpreted, <1>CallUnlinked, <1>Return
     DEF Step, EngineStep, GuestStep
------------------------------------------------------------------------------
(***************************************************************************)
(* A step and the invariant of what is shared.                             *)
(***************************************************************************)

LEMMA MapStep ==
  ASSUME IInv, TypeOK', Grows, NEW t \in Threads, Step(t)
  PROVE  MapInv'
<1> TypeOK /\ MapInv /\ ThreadInv(t) /\ None \notin Fuh
  BY NoneAssumption DEF IInv
<1>1. ASSUME NEW h \in Fuh, IsTheHandle(h) PROVE fuhMap'[h.method] = h
  BY <1>1, Stays DEF IsTheHandle
<1>2. ASSUME NEW h \in Fuh, bytecode[h] # None, bytecode'[h] = bytecode[h]
      PROVE  /\ fuhMap'[h.method] = h /\ h.method \in Cbc \ Broken
             /\ bytecode'[h].owner = h
             /\ \A g \in bytecode'[h].literals : fuhMap'[g.method] = g
  <2>1. bytecode[h].literals \subseteq Fuh
    BY <1>2 DEF TypeOK, Code
  <2> QED BY <1>1, <1>2, <2>1 DEF MapInv
<1>3. CASE Build(t)
  <2> DEFINE new == [method |-> request[t].method, maker |-> t]
  <2>1. \A m \in Callable : fuhMap'[m] = IF m = new.method THEN new ELSE fuhMap[m]
    BY <1>3 DEF Build, TypeOK
  <2>2. \A m \in Callable : fuhMap'[m] # None => fuhMap'[m].method = m
    BY <2>1 DEF MapInv
  <2>3. UNCHANGED bytecode
    BY <1>3 DEF Build
  <2> QED BY <1>2, <2>2, <2>3 DEF MapInv, IsTheHandle
<1>4. CASE Publish(t)
  <2> DEFINE info == [owner |-> cur[t], by |-> t, literals |-> literals[t]]
  <2>1. /\ cur[t] \in Fuh /\ cur[t].method \in Cbc \ Broken /\ IsTheHandle(cur[t])
        /\ \A g \in literals[t] : g \in Fuh /\ IsTheHandle(g)
    BY <1>4
       DEF ReleaseHandle, Resolves, Publish, At, ThreadInv, LocalInv, Rewriting,
           TypeOK
  <2>2. \A h \in Fuh : bytecode'[h] = IF h = cur[t] THEN info ELSE bytecode[h]
    BY <1>4, <2>1 DEF Publish, TypeOK
  <2>3. UNCHANGED fuhMap
    BY <1>4 DEF Publish
  <2>4. info.owner = cur[t] /\ info.literals = literals[t]
    OBVIOUS
  <2> HIDE DEF info
  <2>5. ASSUME NEW h \in Fuh, bytecode'[h] # None
        PROVE  /\ fuhMap'[h.method] = h /\ h.method \in Cbc \ Broken
               /\ bytecode'[h].owner = h
               /\ \A g \in bytecode'[h].literals : fuhMap'[g.method] = g
    <3>1. CASE h = cur[t]
      BY <3>1, <1>1, <2>1, <2>2, <2>4
    <3>2. CASE h # cur[t]
      BY <3>2, <1>2, <2>2, <2>5
    <3> QED BY <3>1, <3>2
  <2> QED BY <2>3, <2>5 DEF MapInv, IsTheHandle
<1>5. CASE UNCHANGED <<fuhMap, bytecode>>
  BY <1>5 DEF MapInv, IsTheHandle
<1>6. CASE SetHelper(t)
  BY <1>5, <1>6 DEF SetHelper
<1> QED BY <1>3, <1>4, <1>5, <1>6, OnlyThreeWrite

LEMMA HelpersStep ==
  ASSUME IInv, TypeOK', Grows, NEW t \in Threads, Step(t)
  PROVE  HelpersInv'
<1> TypeOK /\ HelpersInv /\ ThreadInv(t) /\ None \notin Fuh
  BY NoneAssumption DEF IInv
<1>1. ASSUME NEW g \in Fuh, IsTheHandle(g), bytecode[g] # None
      PROVE  fuhMap'[g.method] = g /\ bytecode'[g] # None
  BY <1>1, Stays DEF IsTheHandle, Grows
<1>2. ASSUME NEW h \in Helper, helpers'[h] = helpers[h], helpers[h] # None
      PROVE  /\ fuhMap'[helpers'[h].method] = helpers'[h]
             /\ helpers'[h].method = HelperMethod[h]
             /\ bytecode'[helpers'[h]] # None
  <2>1. /\ helpers[h] \in Fuh /\ IsTheHandle(helpers[h])
        /\ bytecode[helpers[h]] # None
        /\ helpers[h].method = HelperMethod[h]
    BY <1>2 DEF HelpersInv, TypeOK
  <2> QED BY <1>1, <1>2, <2>1
<1>3. CASE SetHelper(t)
  <2>1. /\ helping[t] \in Helper /\ cur[t] \in Fuh /\ IsTheHandle(cur[t])
        /\ cur[t].method = HelperMethod[helping[t]] /\ bytecode[cur[t]] # None
    BY <1>3 DEF SetHelper, At, ThreadInv, HelpingInv, LocalInv, TypeOK
  <2>2. \A h \in Helper : helpers'[h] = IF h = helping[t] THEN cur[t] ELSE helpers[h]
    BY <1>3 DEF SetHelper, TypeOK
  <2> QED BY <1>1, <1>2, <2>1, <2>2 DEF HelpersInv, IsTheHandle
<1>4. CASE UNCHANGED helpers
  BY <1>2, <1>4 DEF HelpersInv, IsTheHandle
<1>5. CASE Build(t) \/ Publish(t)
  BY <1>4, <1>5 DEF Build, Publish
<1> QED BY <1>3, <1>4, <1>5, OnlyThreeWrite

\* The table of trampolines grows by the handle that is exported.
LEMMA TrampolinesStep ==
  ASSUME IInv, TypeOK', Grows, NEW t \in Threads, Step(t)
  PROVE  TrampolinesInv'
<1> TypeOK /\ TrampolinesInv /\ ThreadInv(t) /\ None \notin Fuh
  BY NoneAssumption DEF IInv
<1>1. \A h \in Fuh : IsTheHandle(h) => fuhMap'[h.method] = h
  BY Stays DEF IsTheHandle
<1>2. AllHelpersSet => AllHelpersSet'
  BY Stays
<1>3. \A i \in DOMAIN directFuhs :
        /\ directFuhs[i] \in Fuh /\ fuhMap'[directFuhs[i].method] = directFuhs[i]
        /\ directFuhs[i].method \in Cbc
  BY <1>1 DEF TrampolinesInv, TypeOK
<1>4. \A e \in exported : e[1] \in DOMAIN directFuhs /\ directFuhs[e[1]] = e[2]
  <2>1. exported \subseteq (1 .. Len(directFuhs)) \X Fuh
    BY DEF TypeOK
  <2>2. DOMAIN directFuhs = 1 .. Len(directFuhs)
    BY DEF TypeOK
  <2> QED BY <2>1, <2>2 DEF TrampolinesInv
<1>5. CASE UNCHANGED <<directFuhs, exported>>
  BY <1>2, <1>3, <1>5 DEF TrampolinesInv, IsTheHandle
<1>6. CASE DirectCallTrampoline(t)
  <2> DEFINE used == {i \in DOMAIN directFuhs : directFuhs[i] = cur[t]}
  <2>1. /\ cur[t] \in Fuh /\ fuhMap'[cur[t].method] = cur[t] /\ AllHelpersSet
    BY <1>1, <1>6 DEF DirectCallTrampoline, At, ThreadInv, LocalInv, LaunchInv,
                      AllHelpersSet, TypeOK
  <2>2. CASE /\ used # {} /\ UNCHANGED directFuhs
             /\ exported' = exported \cup {<<CHOOSE i \in used : TRUE, cur[t]>>}
    <3> DEFINE i == CHOOSE i \in used : TRUE
    <3>1. i \in used
      BY <2>2
    <3>2. \A e \in exported' : e \in exported \/ e = <<i, cur[t]>>
      BY <2>2
    <3>3. directFuhs[i] = cur[t]
      BY <3>1
    <3> HIDE DEF i
    <3>4. \A e \in exported' : directFuhs'[e[1]] = e[2]
      BY <1>4, <2>2, <3>2, <3>3
    <3> QED BY <1>2, <1>3, <2>1, <2>2, <3>4 DEF TrampolinesInv, IsTheHandle
  <2>3. CASE /\ cur[t].method \in Cbc
             /\ directFuhs' = Append(directFuhs, cur[t])
             /\ exported' = exported \cup {<<Len(directFuhs) + 1, cur[t]>>}
    <3>1. /\ \A i \in DOMAIN directFuhs : directFuhs'[i] = directFuhs[i]
          /\ directFuhs'[Len(directFuhs) + 1] = cur[t]
          /\ \A i \in DOMAIN directFuhs' : i \in DOMAIN directFuhs \/ i = Len(directFuhs) + 1
      <4>1. directFuhs \in Seq(Fuh) /\ cur[t] \in Fuh
        BY <2>1 DEF TypeOK
      <4> QED BY <2>3, <4>1, AppendProperties
    <3>2. \A e \in exported' : directFuhs'[e[1]] = e[2]
      BY <1>4, <2>3, <3>1
    <3>3. ASSUME NEW i \in DOMAIN directFuhs'
          PROVE  fuhMap'[directFuhs'[i].method] = directFuhs'[i] /\ directFuhs'[i].method \in Cbc
      <4>1. CASE i \in DOMAIN directFuhs
        BY <1>3, <3>1, <4>1
      <4>2. CASE i = Len(directFuhs) + 1
        BY <2>1, <2>3, <3>1, <4>2
      <4> QED BY <3>1, <4>1, <4>2
    <3>4. AllHelpersSet'
      BY <1>2, <2>1
    <3> QED BY <3>2, <3>3, <3>4 DEF TrampolinesInv, IsTheHandle
  <2> QED BY <1>5, <1>6, <2>2, <2>3
             DEF TrampolinesOf, TrampolineLeft, DirectCallTrampoline
<1>7. ASSUME ~DirectCallTrampoline(t) PROVE UNCHANGED <<directFuhs, exported>>
  <2> USE DEF shared
  <2>1. CASE AcquireHit(t) \/ AcquireMiss(t) \/ Build(t) \/ PrepareHit(t)
             \/ PrepareMiss(t) \/ RewriteReference(t) \/ RewriteAbstract(t)
    BY <2>1 DEF AcquireHit, AcquireMiss, Build, PrepareHit, PrepareMiss,
                RewriteReference, RewriteAbstract
  <2>2. CASE Publish(t) \/ RewriteFails(t) \/ NextHelper(t) \/ HelperPrepared(t)
             \/ SetHelper(t) \/ NextEntry(t) \/ Launched(t) \/ Launch(t)
    BY <2>2 DEF Publish, RewriteFails, NextHelper, HelperPrepared, SetHelper,
                NextEntry, Launched, Launch
  <2>3. CASE EnterLinked(t) \/ EnterUnlinked(t) \/ EnterPrepared(t) \/ Return(t)
             \/ CallTrampoline(t) \/ CallInterpreted(t) \/ CallUnlinked(t)
    BY <2>3 DEF EnterLinked, EnterUnlinked, EnterPrepared, Return, CallTrampoline,
                CallInterpreted, CallUnlinked, StartCall
  <2> QED BY <1>7, <2>1, <2>2, <2>3 DEF Step, EngineStep, GuestStep
<1> QED BY <1>5, <1>6, <1>7
------------------------------------------------------------------------------
(***************************************************************************)
(* The theorems.                                                           *)
(***************************************************************************)

LEMMA InitIInv == Init => IInv
<1> SUFFICES ASSUME Init PROVE IInv
  OBVIOUS
<1> USE DEF Init
<1>1. TypeOK
  BY BoundsAssumption DEF TypeOK, Labels
<1>2. MapInv /\ HelpersInv /\ TrampolinesInv
  BY DEF MapInv, HelpersInv, TrampolinesInv
<1>3. ASSUME NEW t \in Threads PROVE ThreadInv(t)
  BY <1>3 DEF ThreadInv, LocalInv, HelpingInv, LockInv, ResultInv, LaunchInv,
              FrameInv, Awaits, Rewriting
<1> QED BY <1>1, <1>2, <1>3 DEF IInv

LEMMA StepIInv ==
  ASSUME IInv, [Next]_vars
  PROVE  IInv'
<1>1. CASE UNCHANGED vars
  BY <1>1 DEF vars, shared, launching, rewriting, guest, IInv, TypeOK, MapInv,
              HelpersInv, TrampolinesInv, AllHelpersSet, ThreadInv, LocalInv, HelpingInv,
              LockInv, ResultInv, LaunchInv, FrameInv, FrameOK, IsTheHandle,
              Awaits, Rewriting
<1>2. ASSUME NEW t \in Threads, Step(t) PROVE IInv'
  <2>1. TypeOK' /\ Grows
    BY <1>2, TypeStep, GrowsStep
  <2>2. MapInv' /\ HelpersInv' /\ TrampolinesInv'
    BY <1>2, <2>1, MapStep, HelpersStep, TrampolinesStep
  <2>3. ASSUME NEW u \in Threads PROVE ThreadInv(u)'
    <3>1. CASE u = t
      BY <1>2, <2>1, <3>1, OwnStep
    <3>2. CASE u # t
      <4>1. UNCHANGED Locals(u) /\ HeldStays(u)
        BY <1>2, <3>2, OwnLocals, LocksExclude DEF IInv
      <4> QED BY <2>1, <4>1, UntouchedThread
    <3> QED BY <3>1, <3>2
  <2> QED BY <2>1, <2>2, <2>3 DEF IInv
<1> QED BY <1>1, <1>2 DEF Next, Step

\* The inductive invariant holds of every behaviour: of every program, however
\* its threads interleave.
THEOREM Invariant == Spec => []IInv
<1> QED BY InitIInv, StepIInv, PTL DEF Spec

\* Every variable keeps its type.
THEOREM TypeCorrect == Spec => []TypeOK
<1>1. IInv => TypeOK
  BY DEF IInv
<1> QED BY <1>1, Invariant, PTL

\* A method never has two handles in use.
THEOREM OneHandle == Spec => []OneHandlePerMethod
<1>1. ASSUME IInv PROVE OneHandlePerMethod
  <2> USE <1>1
  <2>1. \A h \in Helper : helpers[h] # None => IsTheHandle(helpers[h])
    BY DEF IInv, HelpersInv
  <2>2. \A i \in DOMAIN directFuhs : IsTheHandle(directFuhs[i])
    BY DEF IInv, TrampolinesInv
  <2>3. ASSUME NEW t \in Threads
        PROVE  /\ cur[t] # None => IsTheHandle(cur[t])
               /\ \A h \in literals[t] : IsTheHandle(h)
    BY DEF IInv, ThreadInv, LocalInv
  <2>4. ASSUME NEW t \in Threads, NEW i \in DOMAIN stack[t],
               NEW h \in stack[t][i].code.literals
        PROVE  IsTheHandle(h)
    <3>1. stack[t][i] \in Frame /\ stack[t][i].code = bytecode[stack[t][i].fuh]
      BY DEF IInv, TypeOK, ThreadInv, FrameInv, FrameOK
    <3>2. stack[t][i].fuh \in Fuh /\ stack[t][i].code # None
      BY <3>1, NoneAssumption DEF Frame
    <3> QED BY <3>1, <3>2 DEF IInv, MapInv
  <2> QED BY <2>1, <2>2, <2>3, <2>4 DEF OneHandlePerMethod
<1> QED BY <1>1, Invariant, PTL

\* Bytecode, once published, is never replaced or withdrawn.
THEOREM FinalBytecode == Spec => BytecodeIsFinal
<1>1. ASSUME IInv, [Next]_vars
      PROVE  [\A h \in Fuh : bytecode[h] # None => bytecode'[h] = bytecode[h]]_vars
  <2>1. ASSUME NEW t \in Threads, Step(t)
        PROVE  \A h \in Fuh : bytecode[h] # None => bytecode'[h] = bytecode[h]
    BY <1>1, <2>1, GrowsStep DEF Grows
  <2> QED BY <1>1, <2>1 DEF Next, Step
<1> QED BY <1>1, Invariant, PTL DEF Spec, BytecodeIsFinal

\* The handle in a frame's FUH slot is the one whose code the frame runs.
THEOREM FramesRun == Spec => []FramesRunTheirCode
<1>1. IInv => FramesRunTheirCode
  BY DEF IInv, ThreadInv, FrameInv, FrameOK, FramesRunTheirCode
<1> QED BY <1>1, Invariant, PTL

\* An exported trampoline dispatches to its handle for ever.
THEOREM TrampolinesKeep == Spec => []TrampolinesKeepTheirHandle
<1>1. IInv => TrampolinesKeepTheirHandle
  BY DEF IInv, TrampolinesInv, TrampolinesKeepTheirHandle
<1> QED BY <1>1, Invariant, PTL

\* No interpreted code starts before the helpers have their code.
THEOREM HelpersAreReady == Spec => []HelpersReady
<1>1. ASSUME IInv PROVE HelpersReady
  <2> SUFFICES ASSUME NEW t \in Threads, pc[t] = "enter" \/ stack[t] # <<>>,
                      NEW h \in Helper
               PROVE  helpers[h] # None /\ bytecode[helpers[h]] # None
    BY DEF HelpersReady
  <2>1. AllHelpersSet
    BY <1>1 DEF IInv, ThreadInv, LaunchInv
  <2> QED BY <1>1, <2>1 DEF IInv, HelpersInv, AllHelpersSet
<1> QED BY <1>1, Invariant, PTL
------------------------------------------------------------------------------
(***************************************************************************)
(* The handles implement LazyCode.                                         *)
(***************************************************************************)

Linked == {m \in Cbc : fuhMap[m] # None /\ bytecode[fuhMap[m]] # None}

Running == [t \in Threads |->
              [i \in DOMAIN stack[t] |-> stack[t][i].code.owner.method]]

ErrorMethod == HelperMethod["ThrowSymbolResolutionError"]

\* Code exists for a method exactly when some handle has bytecode for it.
LEMMA LinkedByHandle ==
  ASSUME TypeOK, MapInv
  PROVE  Linked = {m \in Cbc : \E h \in Fuh : h.method = m /\ bytecode[h] # None}
<1>1. ASSUME NEW m \in Cbc, fuhMap[m] # None
      PROVE  fuhMap[m] \in Fuh /\ fuhMap[m].method = m
  BY <1>1 DEF TypeOK, MapInv, Callable
<1>2. ASSUME NEW h \in Fuh, bytecode[h] # None
      PROVE  h.method \in Cbc /\ fuhMap[h.method] = h /\ h # None
  BY <1>2, NoneAssumption DEF MapInv, IsTheHandle
<1> QED BY <1>1, <1>2 DEF Linked

\* Only publishing links a method.
LEMMA LinkedStep ==
  ASSUME IInv, TypeOK', MapInv', NEW t \in Threads, Step(t)
  PROVE  \/ UNCHANGED Linked
         \/ /\ Publish(t) /\ cur[t].method \in Cbc \ (Linked \cup Broken)
            /\ Linked' = Linked \cup {cur[t].method}
<1> TypeOK /\ MapInv /\ ThreadInv(t) /\ None \notin Fuh
  BY NoneAssumption DEF IInv
<1>next. Linked' = {m \in Cbc : \E h \in Fuh : h.method = m /\ bytecode'[h] # None}
  <2>1. ASSUME NEW m \in Cbc, fuhMap'[m] # None
        PROVE  fuhMap'[m] \in Fuh /\ fuhMap'[m].method = m
    BY <2>1 DEF TypeOK, MapInv, Callable
  <2>2. ASSUME NEW h \in Fuh, bytecode'[h] # None
        PROVE  h.method \in Cbc /\ fuhMap'[h.method] = h /\ h # None
    BY <2>2 DEF MapInv, IsTheHandle
  <2> QED BY <2>1, <2>2 DEF Linked
<1>1. CASE UNCHANGED bytecode
  BY <1>1, <1>next, LinkedByHandle
<1>2. CASE Publish(t)
  <2> DEFINE info == [owner |-> cur[t], by |-> t, literals |-> literals[t]]
  <2>1. /\ cur[t] \in Fuh /\ cur[t].method \in Cbc \ Broken
        /\ IsTheHandle(cur[t]) /\ bytecode[cur[t]] = None
    BY <1>2
       DEF ReleaseHandle, Resolves, Publish, At, ThreadInv, LocalInv, LockInv,
           Rewriting, TypeOK
  <2>2. \A h \in Fuh : bytecode'[h] = IF h = cur[t] THEN info ELSE bytecode[h]
    BY <1>2, <2>1 DEF Publish, TypeOK
  <2>3. info \in Code
    BY <2>1 DEF Code, TypeOK
  <2>4. info # None
    BY <2>3, NoneAssumption
  <2> HIDE DEF info
  <2>5. cur[t].method \notin Linked
    BY <2>1 DEF Linked, IsTheHandle
  <2>7. Linked' = Linked \cup {cur[t].method}
    BY <1>next, <2>1, <2>2, <2>4, LinkedByHandle
  <2> QED BY <1>2, <2>1, <2>5, <2>7
<1>3. CASE Build(t) \/ SetHelper(t)
  BY <1>1, <1>3 DEF Build, SetHelper
<1> QED BY <1>1, <1>2, <1>3, OnlyThreeWrite

\* A step either leaves what runs alone, or it is one of the three that push
\* or pop a frame.
LEMMA StackStep ==
  ASSUME NEW t \in Threads, Step(t), ~EnterLinked(t), ~EnterPrepared(t), ~Return(t)
  PROVE  UNCHANGED stack
<1> USE DEF guest
<1>1. CASE AcquireHit(t) \/ AcquireMiss(t) \/ Build(t) \/ PrepareHit(t)
           \/ PrepareMiss(t) \/ RewriteReference(t) \/ RewriteAbstract(t)
           \/ Publish(t)
  BY <1>1 DEF AcquireHit, AcquireMiss, Build, PrepareHit, PrepareMiss,
              RewriteReference, RewriteAbstract, Publish
<1>2. CASE RewriteFails(t) \/ NextHelper(t) \/ HelperPrepared(t)
           \/ SetHelper(t) \/ NextEntry(t) \/ Launched(t) \/ Launch(t)
           \/ DirectCallTrampoline(t)
  BY <1>2 DEF RewriteFails, NextHelper, HelperPrepared, SetHelper,
              NextEntry, Launched, Launch, DirectCallTrampoline
<1>3. CASE EnterUnlinked(t) \/ CallTrampoline(t) \/ CallInterpreted(t) \/ CallUnlinked(t)
  BY <1>3 DEF EnterUnlinked, CallTrampoline, CallInterpreted, CallUnlinked, StartCall
<1> QED BY <1>1, <1>2, <1>3 DEF Step, EngineStep, GuestStep

\* A frame pushed for handle c with code of handle g is a call of c's method.
LEMMA PushIsCall ==
  ASSUME IInv, NEW t \in Threads, NEW f \in Frame, FrameOK(f),
         stack' = [stack EXCEPT ![t] = Append(@, f)], UNCHANGED <<fuhMap, bytecode>>
  PROVE  Lazy!Next
<1> DEFINE m == f.called.method
           code == IF m \in Broken THEN ErrorMethod ELSE m
<1>1. TypeOK /\ MapInv /\ HelpersInv /\ None \notin Fuh /\ None \notin Code
  BY NoneAssumption DEF IInv
<1>2. f.fuh \in Fuh /\ f.code \in Code /\ f.called \in Fuh /\ m \in Cbc
      /\ bytecode[f.fuh] = f.code
  BY DEF Frame, FrameOK
<1>3. f.code.owner = f.fuh /\ f.fuh.method \in Cbc \ Broken /\ IsTheHandle(f.fuh)
  BY <1>1, <1>2 DEF MapInv
<1>4. f.fuh.method = code
  <2>1. CASE f.fuh = f.called
    BY <1>3, <2>1
  <2>2. CASE m \in Broken /\ f.fuh = helpers["ThrowSymbolResolutionError"]
    BY <1>1, <1>2, <2>2 DEF HelpersInv, Helper, ErrorMethod
  <2> QED BY <2>1, <2>2 DEF FrameOK
<1>5. code \in Linked
  BY <1>1, <1>2, <1>3, <1>4, LinkedByHandle DEF Linked
<1>6. Running' = [Running EXCEPT ![t] = Append(Running[t], code)]
  <2>1. stack \in [Threads -> Seq(Frame)] /\ f.code.owner.method = code
    BY <1>1, <1>3, <1>4 DEF TypeOK
  <2> HIDE DEF code
  <2>2. ASSUME NEW u \in Threads, u # t PROVE Running'[u] = Running[u]
    BY <2>1, <2>2 DEF Running
  <2>3. Running'[t] = Append(Running[t], code)
    <3> DEFINE old == stack[t]
               new == Append(old, f)
               Names(s) == [i \in DOMAIN s |-> s[i].code.owner.method]
    <3>1. old \in Seq(Frame) /\ stack'[t] = new
      BY <2>1
    <3>2. /\ DOMAIN new = 1 .. Len(old) + 1 /\ DOMAIN old = 1 .. Len(old)
          /\ new[Len(old) + 1] = f /\ \A i \in 1 .. Len(old) : new[i] = old[i]
          /\ Len(old) \in Nat
      BY <3>1, AppendProperties
    <3>3. Names(new) = [i \in 1 .. Len(old) + 1 |->
                          IF i = Len(old) + 1 THEN code ELSE Names(old)[i]]
      BY <2>1, <3>2
    <3>4. Names(old) \in Seq({g.code.owner.method : g \in Frame})
          /\ Len(Names(old)) = Len(old)
      BY <3>1, <3>2
    <3>5. Append(Names(old), code) = [i \in 1 .. Len(old) + 1 |->
                          IF i = Len(old) + 1 THEN code ELSE Names(old)[i]]
      BY SMTT(30), <3>2, <3>4
    <3>6. Running'[t] = Names(new) /\ Running[t] = Names(old)
      BY <3>1 DEF Running
    <3> HIDE DEF Names, new, old
    <3> QED BY <3>3, <3>5, <3>6
  <2> QED BY <2>2, <2>3 DEF Running
<1>7. Linked' = Linked
  BY DEF Linked
<1>8. Lazy!Call(t, m)
  BY <1>5, <1>6, <1>7 DEF Lazy!Call, Linked, Running, ErrorMethod
<1> QED BY <1>2, <1>8 DEF Lazy!Next

LEMMA ReturnIsReturn ==
  ASSUME TypeOK, NEW t \in Threads, Return(t)
  PROVE  Lazy!Return(t)
<1> DEFINE old == stack[t]
           new == SubSeq(old, 1, Len(old) - 1)
           Names(s) == [i \in DOMAIN s |-> s[i].code.owner.method]
<1>1. /\ old \in Seq(Frame) /\ old # <<>> /\ UNCHANGED <<fuhMap, bytecode>>
      /\ stack' = [stack EXCEPT ![t] = new] /\ stack \in [Threads -> Seq(Frame)]
  BY DEF Return, TypeOK, shared
<1>2. /\ DOMAIN old = 1 .. Len(old) /\ Len(old) \in Nat \ {0}
      /\ DOMAIN new = 1 .. Len(old) - 1
      /\ \A i \in 1 .. Len(old) - 1 : new[i] = old[i]
  BY <1>1, SubSeqProperties
<1> HIDE DEF new, old
<1>3. Names(new) = [i \in 1 .. Len(old) - 1 |-> Names(old)[i]]
  BY <1>2
<1>4. Names(old) \in Seq({g.code.owner.method : g \in Frame})
      /\ Len(Names(old)) = Len(old) /\ Names(old) # <<>>
  BY <1>1, <1>2
<1>5. SubSeq(Names(old), 1, Len(Names(old)) - 1) = [i \in 1 .. Len(old) - 1 |-> Names(old)[i]]
  BY <1>2, <1>4
<1>6. Running' = [Running EXCEPT ![t] = Names(new)] /\ Running[t] = Names(old)
  BY <1>1 DEF Running, old
<1> HIDE DEF Names
<1>7. /\ Running[t] # <<>> /\ Linked' = Linked
      /\ Running' = [Running EXCEPT ![t] = SubSeq(Running[t], 1, Len(Running[t]) - 1)]
  BY <1>1, <1>3, <1>4, <1>5, <1>6 DEF Linked
<1> QED BY <1>7 DEF Lazy!Return, Linked, Running

\* A step of a thread is a step of LazyCode or none at all.
LEMMA LazyStep ==
  ASSUME IInv, IInv', NEW t \in Threads, Step(t)
  PROVE  [Lazy!Next]_(Lazy!vars)
<1> TypeOK /\ ThreadInv(t) /\ TypeOK' /\ MapInv'
  BY DEF IInv
<1> USE DEF guest, shared
<1>1. CASE EnterLinked(t)
  <2> DEFINE f == [called |-> cur[t], fuh |-> cur[t], code |-> bytecode[cur[t]]]
  <2>1. cur[t] \in Fuh /\ bytecode[cur[t]] \in Code /\ cur[t].method \in Cbc
    BY <1>1 DEF EnterLinked, At, ThreadInv, LocalInv, TypeOK
  <2>2. f \in Frame /\ FrameOK(f)
    BY <2>1 DEF Frame, FrameOK
  <2>3. stack' = [stack EXCEPT ![t] = Append(stack[t], f)] /\ UNCHANGED <<fuhMap, bytecode>>
    BY <1>1 DEF EnterLinked, Push
  <2> HIDE DEF f
  <2> QED BY <2>2, <2>3, PushIsCall
<1>2. CASE EnterPrepared(t)
  <2> DEFINE f == [called |-> cur[t],
                   fuh |-> IF result[t].success THEN cur[t] ELSE result[t].fuh,
                   code |-> result[t].info]
  <2>1. /\ cur[t] \in Fuh /\ cur[t].method \in Cbc
        /\ result[t] \in Result /\ ResultInv(t) /\ pc[t] = "prepared"
    BY <1>2 DEF EnterPrepared, At, ThreadInv, LocalInv, ResultInv, TypeOK
  <2>2. result[t].fuh \in Fuh /\ result[t].info \in Code
    BY <2>1 DEF Result
  <2>3. f \in Frame /\ FrameOK(f)
    BY <2>1, <2>2 DEF Frame, FrameOK, ResultInv
  <2>4. stack' = [stack EXCEPT ![t] = Append(stack[t], f)] /\ UNCHANGED <<fuhMap, bytecode>>
    BY <1>2 DEF FrameHandle, EnterPrepared, Push
  <2> HIDE DEF f
  <2> QED BY <2>3, <2>4, PushIsCall
<1>3. CASE Return(t)
  BY <1>3, ReturnIsReturn DEF Lazy!Next
<1>4. CASE UNCHANGED stack
  <2>1. UNCHANGED Running
    BY <1>4 DEF Running
  <2>2. CASE UNCHANGED Linked
    BY <2>1, <2>2 DEF Lazy!vars, Linked, Running
  <2>3. ASSUME NEW m \in Cbc \ (Linked \cup Broken), Linked' = Linked \cup {m}
        PROVE  Lazy!Next
    <3>1. Lazy!Link(m)
      BY <2>1, <2>3 DEF Lazy!Link, Linked, Running
    <3> QED BY <2>3, <3>1 DEF Lazy!Next
  <2> QED BY <2>2, <2>3, LinkedStep
<1> QED BY <1>1, <1>2, <1>3, <1>4, StackStep

\* Function handles implement lazily linked code, for every program.
THEOREM Refinement == Spec => KeepsLazyCode
<1>1. Init => Lazy!Init
  <2> SUFFICES ASSUME Init PROVE Lazy!Init
    OBVIOUS
  <2>1. Linked = {}
    BY DEF Init, Linked, Callable
  <2>2. Running = [t \in Threads |-> <<>>]
    BY DEF Init, Running
  <2> QED BY <2>1, <2>2 DEF Lazy!Init, Linked, Running
<1>2. ASSUME IInv, IInv', [Next]_vars PROVE [Lazy!Next]_(Lazy!vars)
  <2>1. CASE UNCHANGED vars
    BY <2>1 DEF vars, shared, guest, Lazy!vars
  <2>2. ASSUME NEW t \in Threads, Step(t) PROVE [Lazy!Next]_(Lazy!vars)
    BY <1>2, <2>2, LazyStep
  <2> QED BY <1>2, <2>1, <2>2 DEF Next, Step
<1> QED BY <1>1, <1>2, Invariant, PTL DEF Spec, KeepsLazyCode, Lazy!Spec
==============================================================================
