-------------------------- MODULE MoveResolverProofs --------------------------
(***************************************************************************)
(* MoveResolver::Resolve is right for every set of registers, assignments  *)
(* and values: what it emits has the effect of all assignments at once.    *)
(*                                                                         *)
(* The argument: an assignment that is left still yields, from what the    *)
(* registers hold now, what it yielded at the start.  Writing a register   *)
(* nothing left reads keeps that; so does writing a temporary, because     *)
(* when no chain is left the sources of what is left are what is left,     *)
(* and the temporaries are not (a counting argument: lemma Stuck).         *)
(***************************************************************************)
EXTENDS MoveResolver, FiniteSetTheorems, WellFoundedInduction, TLAPS

\* What register r is to hold once the shuffle is over: a register that
\* receives from a slot waits.
Target(r) ==
  IF r \in DOMAIN moves /\ ~FromSlot(moves[r])
  THEN Read(Start, moves[r]) ELSE Start[r]

CollectInv ==
  phase = "collect" =>
    /\ regs = [r \in Regs |-> Start[r]]
    /\ nodes = [r \in Regs |-> Move(r)]

\* A pass that has emitted nothing has looked at every register it is past.
ScanInv == ~changed => scan = 0

LeftInv ==
  phase = "shuffle" =>
    /\ Temps \subseteq done
    /\ \A r \in Regs \ done :
         nodes[r].from \in Regs /\ Read(regs, nodes[r]) = Target(r)

DoneInv ==
  phase = "shuffle" => \A r \in done \ Temps : regs[r] = Target(r)

ShuffledInv == phase = "slots" => \A r \in Regs \ Temps : regs[r] = Target(r)

ParamsInv ==
  phase \in {"shuffle", "slots", "done"} =>
    \A p \in ParamsOf : params[p] = Read(Start, moves[p])

FinalInv == phase = "done" => \A r \in Regs \ Temps : regs[r] = Intended(r)

IInv ==
  TypeOK /\ CollectInv /\ ScanInv /\ LeftInv /\ DoneInv /\ ShuffledInv
         /\ ParamsInv /\ FinalInv
------------------------------------------------------------------------------
\* A register of a set, by its index: the lowest one exists.
LEMMA FirstIsLeast ==
  ASSUME NEW S, S \subseteq Nat, IsFiniteSet(S), S # {}
  PROVE  First(S) \in S /\ \A o \in S : First(S) <= o
<1> DEFINE Below(r) == {o \in S : o <= r}
           Cuts == {Below(r) : r \in S}
           Under == StrictSubsetOrdering(S)
<1>1. Cuts \subseteq FiniteSubsetsOf(S) /\ Cuts # {}
  <2>1. \A T \in SUBSET S : IsFiniteSet(T)
    BY FS_Subset
  <2> QED BY <2>1 DEF FiniteSubsetsOf
<1>2. IsWellFoundedOn(Under, FiniteSubsetsOf(S))
  BY FS_StrictSubsetOrderingWellFounded
<1>3. PICK c \in Cuts : \A d \in Cuts : <<d, c>> \notin Under
  <2> HIDE DEF Under, Cuts
  <2> QED BY <1>1, <1>2, WFMin
<1>4. PICK r \in S : c = Below(r)
  BY <1>3
<1>5. ASSUME NEW o \in S PROVE r <= o
  <2> SUFFICES ASSUME o < r PROVE FALSE
    BY <1>5
  <2>1. Below(o) \subseteq Below(r) /\ r \in Below(r) /\ r \notin Below(o)
    <3>1. r \in Nat /\ o \in Nat /\ \A q \in S : q \in Nat
      BY <1>5
    <3>2. \A q \in S : q <= o => q <= r
      <4> HIDE DEF Below, Cuts, Under
      <4> QED BY <3>1
    <3>3. r <= r /\ ~(r <= o)
      BY <3>1
    <3> QED BY <3>2, <3>3
  <2>2. Below(o) \subseteq c /\ Below(o) # c /\ Below(o) \in Cuts /\ c \subseteq S
    BY <1>4, <2>1
  <2>3. <<Below(o), c>> \in Under
    <3> HIDE DEF Below, Cuts
    <3> QED BY <2>2 DEF StrictSubsetOrdering
  <2> HIDE DEF Below, Cuts, Under
  <2> QED BY <1>3, <2>2, <2>3
<1> QED BY <1>5 DEF First

\* The registers that are left are finitely many, and one of them is the first.
LEMMA FirstLeft ==
  ASSUME NEW S, S \subseteq Regs, S # {}
  PROVE  First(S) \in S
<1>1. IsFiniteSet(S) /\ S \subseteq Nat
  BY FS_Subset, RegistersAssumption
<1> QED BY <1>1, FirstIsLeast

\* If every member of a finite set is the image of another one, the images are
\* the set itself.
LEMMA ImagesAreTheSet ==
  ASSUME NEW U, IsFiniteSet(U), NEW f \in [U -> Regs],
         \A r \in U : \E o \in U : f[o] = r
  PROVE  \A o \in U : f[o] \in U
<1> DEFINE T == {f[o] : o \in U}
<1>1. U \subseteq T
  OBVIOUS
<1>2. f \in Surjection(U, T)
  BY DEF Surjection
<1>3. IsFiniteSet(T) /\ Cardinality(T) <= Cardinality(U)
  <2> HIDE DEF T
  <2> QED BY <1>2, FS_Surjection
<1>4. U = T
  <2>1. U \in SUBSET T
    BY <1>1
  <2> HIDE DEF T
  <2>2. Cardinality(U) <= Cardinality(T) /\ (Cardinality(T) = Cardinality(U) => T = U)
    BY <1>3, <2>1, FS_Subset
  <2>3. Cardinality(U) \in Nat /\ Cardinality(T) \in Nat
    BY <1>3, FS_CardinalityType
  <2> QED BY <1>3, <2>2, <2>3
<1> QED BY <1>4

\* When the pass emits nothing, the registers that are left read each other.
LEMMA Stuck ==
  ASSUME TypeOK, ScanInv, LeftInv, Pass, ~changed
  PROVE  \A r \in Regs \ done : nodes[r].from \in Regs \ done
<1> DEFINE U == Regs \ done
           f == [r \in U |-> nodes[r].from]
<1>1. \A r \in U : \E o \in U : f[o] = r
  <2>1. \A r \in U : r >= scan
    BY RegistersAssumption DEF ScanInv, TypeOK
  <2> QED BY <2>1 DEF Pass, Ready, Needed
<1>2. f \in [U -> Regs]
  BY DEF LeftInv, Pass
<1>3. IsFiniteSet(U)
  BY RegistersAssumption, FS_Subset
<1>4. \A o \in U : f[o] \in U
  <2> HIDE DEF U, f
  <2> QED BY <1>1, <1>2, <1>3, ImagesAreTheSet
<1> QED BY <1>4
------------------------------------------------------------------------------
\* What a source yields is a value.
LEMMA ReadType ==
  ASSUME NEW rs \in [Regs -> Value], NEW s \in Source
  PROVE  Read(rs, s) \in Value
BY ValuesAssumption DEF Read, Source

\* Two register files that agree on what s reads yield the same for s.
LEMMA ReadSame ==
  ASSUME NEW rs, NEW qs, NEW s, s.from \in Regs => rs[s.from] = qs[s.from]
  PROVE  Read(rs, s) = Read(qs, s)
BY DEF Read

\* A slot keeps what it held before the call.
LEMMA ReadSlot ==
  ASSUME NEW rs, NEW s, FromSlot(s)
  PROVE  Read(rs, s) = Read(Start, s)
BY RegistersAssumption DEF Read, FromSlot

\* The temporaries are registers, and nobody's destination.
LEMMA TempsAreNoTargets == Temps \subseteq Regs /\ Temps \cap Targets = {}
BY RegistersAssumption DEF Temps, Targets, Regs

LEMMA TempForType == ASSUME NEW r PROVE TempFor(r) \in Temps
BY DEF TempFor, Temps

LEMMA MoveType == ASSUME NEW r \in Regs PROVE Move(r) \in Source
BY DEF Move, Source

\* An assignment's source is one.
LEMMA MovesType ==
  ASSUME TypeOK, NEW d \in DOMAIN moves
  PROVE  moves[d] \in Source /\ (~FromSlot(moves[d]) => moves[d].from \in Regs)
BY SourcesAssumption DEF TypeOK, Source, FromSlot

\* While the assignments are collected, every source yields what it will have
\* yielded before the call.
LEMMA ReadAtStart ==
  ASSUME regs = [r \in Regs |-> Start[r]], NEW s
  PROVE  Read(regs, s) = Read(Start, s)
BY ReadSame
------------------------------------------------------------------------------
\* Before the first instruction, nothing has happened.
LEMMA InitIInv == Init => IInv
<1> SUFFICES ASSUME Init PROVE IInv
  OBVIOUS
<1>1. TypeOK
  <2>1. DOMAIN moves \subseteq Targets /\ moves \in [DOMAIN moves -> Sources]
    BY DEF Init
  <2>2. nodes \in [Regs -> Source]
    BY MoveType DEF Init
  <2>3. regs \in [Regs -> Value] /\ params \in [Params -> Value]
    BY ValuesAssumption DEF Init
  <2> QED BY <2>1, <2>2, <2>3 DEF Init, TypeOK
<1> QED BY <1>1 DEF Init, IInv, CollectInv, ScanInv, LeftInv, DoneInv,
             ShuffledInv, ParamsInv, FinalInv

\* The parameter slots get what their sources hold.
LEMMA WrittenType ==
  ASSUME TypeOK, NEW ps \in SUBSET ParamsOf
  PROVE  Written(ps) \in [Params -> Value]
<1>1. \A p \in ps : p \in DOMAIN moves /\ moves[p] \in Source
  BY MovesType DEF ParamsOf
<1>2. \A p \in ps : Read(regs, moves[p]) \in Value
  BY <1>1, ReadType DEF TypeOK
<1> QED BY <1>2 DEF Written, TypeOK

LEMMA CollectStep == ASSUME IInv, Collect PROVE IInv'
<1> USE DEF IInv
<1>1. TypeOK'
  <2>1. nodes' \in [Regs -> Source]
    BY MovesType DEF Collect, TypeOK
  <2>2. params' \in [Params -> Value]
    BY WrittenType DEF Collect
  <2> QED BY <2>1, <2>2 DEF Collect, TypeOK
<1>2. \A s : Read(regs, s) = Read(Start, s)
  BY ReadAtStart DEF Collect, CollectInv
<1>3. Temps \subseteq done'
  BY TempsAreNoTargets DEF Collect, TypeOK, CollectInv
<1>4. LeftInv'
  <2> SUFFICES ASSUME NEW r \in Regs, r \notin done'
               PROVE  nodes'[r].from \in Regs /\ Read(regs', nodes'[r]) = Target(r)'
    BY <1>3 DEF LeftInv
  <2>1. r \in DOMAIN moves /\ ~FromSlot(moves[r]) /\ nodes'[r] = moves[r]
    BY DEF Collect, TypeOK, CollectInv
  <2> QED BY <1>2, <2>1, MovesType DEF Collect, Target
<1>5. DoneInv'
  <2> SUFFICES ASSUME NEW r \in done' \ Temps PROVE regs'[r] = Target(r)'
    BY DEF DoneInv
  <2>1. r \in Regs /\ nodes'[r] = Move(r) /\ regs'[r] = Start[r]
    BY DEF Collect, CollectInv
  <2>2. CASE r \in DOMAIN moves /\ ~FromSlot(moves[r])
    <3>1. moves[r] = Move(r)
      BY <2>1, <2>2 DEF Collect
    <3> QED BY <2>1, <2>2, <3>1 DEF Collect, Target, Read, Move
  <2>3. CASE ~(r \in DOMAIN moves /\ ~FromSlot(moves[r]))
    BY <2>1, <2>3 DEF Collect, Target
  <2> QED BY <2>2, <2>3
<1>6. ParamsInv'
  <2> SUFFICES ASSUME NEW p \in ParamsOf PROVE params'[p] = Read(Start, moves[p])
    BY DEF ParamsInv, ParamsOf, Collect
  <2> QED BY <1>2 DEF Collect, Written, ParamsOf
<1> QED BY <1>1, <1>4, <1>5, <1>6
        DEF Collect, CollectInv, ScanInv, ShuffledInv, FinalInv

LEMMA RefuseStep == ASSUME IInv, Refuse PROVE IInv'
<1> USE DEF IInv
<1>1. PICK ps \in SUBSET ParamsOf : params' = Written(ps)
  BY DEF Refuse
<1>2. TypeOK'
  BY <1>1, WrittenType DEF Refuse, TypeOK
<1> QED BY <1>2 DEF Refuse, CollectInv, ScanInv, LeftInv, DoneInv, ShuffledInv,
             ParamsInv, FinalInv

\* A register nothing left reads is written.
LEMMA AssignStep == ASSUME IInv, Assign PROVE IInv'
<1> DEFINE r == First(Ready)
<1> USE DEF IInv
<1>1. r \in Regs \ done /\ ~Needed(r)
  BY FirstLeft DEF Assign, Ready
<1> HIDE DEF r
<1>2. /\ regs' = [regs EXCEPT ![r] = Read(regs, nodes[r])]
      /\ done' = done \cup {r} /\ scan' = r + 1
      /\ phase = "shuffle" /\ changed' = TRUE
      /\ UNCHANGED <<moves, phase, nodes, params>>
  BY DEF Assign, Emitted, r
<1>3. Read(regs, nodes[r]) = Target(r) /\ r \notin Temps
  BY <1>1, <1>2 DEF LeftInv
<1>4. TypeOK'
  <2>1. Read(regs, nodes[r]) \in Value
    BY <1>1, ReadType DEF TypeOK
  <2>2. r \in Nat
    BY <1>1, RegistersAssumption
  <2> QED BY <1>1, <1>2, <2>1, <2>2 DEF TypeOK
<1>5. LeftInv'
  <2> SUFFICES ASSUME NEW o \in Regs \ done, o # r
               PROVE  /\ nodes[o].from \in Regs
                      /\ Read(regs', nodes[o]) = Target(o)
    BY <1>2 DEF LeftInv, Target
  <2>1. nodes[o].from \in Regs /\ Read(regs, nodes[o]) = Target(o)
    BY <1>2 DEF LeftInv
  <2>2. nodes[o].from # r
    BY <1>1 DEF Needed
  <2>3. regs'[nodes[o].from] = regs[nodes[o].from]
    BY <1>2, <2>1, <2>2 DEF TypeOK
  <2> QED BY <2>1, <2>3, ReadSame
<1>6. DoneInv'
  <2> SUFFICES ASSUME NEW o \in (done \cup {r}) \ Temps
               PROVE  regs'[o] = Target(o)
    BY <1>2 DEF DoneInv, Target
  <2>1. CASE o = r
    BY <1>1, <1>2, <1>3, <2>1 DEF TypeOK
  <2>2. CASE o # r
    BY <1>2, <2>2 DEF DoneInv, TypeOK
  <2> QED BY <2>1, <2>2
<1> QED BY <1>2, <1>4, <1>5, <1>6
        DEF CollectInv, ScanInv, ShuffledInv, ParamsInv, FinalInv, ParamsOf

LEMMA AgainStep == ASSUME IInv, Again PROVE IInv'
BY DEF IInv, Again, Pass, TypeOK, CollectInv, ScanInv, LeftInv, DoneInv,
       ShuffledInv, ParamsInv, FinalInv, Target, ParamsOf

\* One value goes to a temporary, which nothing left reads.
LEMMA BreakStep == ASSUME IInv, BreakCycle PROVE IInv'
<1> DEFINE r == First(Regs \ done)
           t == TempFor(r)
<1> USE DEF IInv
<1>1. r \in Regs \ done
  BY FirstLeft DEF BreakCycle, TypeOK
<1>2. t \in Temps /\ t \in Regs
  BY TempForType, TempsAreNoTargets
<1>3. nodes' = [nodes EXCEPT ![r] = Move(t)]
  BY DEF BreakCycle, Broken
<1>4. regs' = [regs EXCEPT ![t] = Read(regs, nodes[r])]
  BY DEF BreakCycle
<1> HIDE DEF r, t
<1>5. /\ phase = "shuffle" /\ scan' = 0
      /\ UNCHANGED <<moves, phase, done, changed, params>>
  BY DEF BreakCycle, Pass
<1>6. TypeOK'
  <2>1. Read(regs, nodes[r]) \in Value /\ Move(t) \in Source
    BY <1>1, <1>2, ReadType, MoveType DEF TypeOK
  <2> QED BY <1>1, <1>2, <1>3, <1>4, <1>5, <2>1 DEF TypeOK
<1>7. \A o \in Regs \ done : nodes[o].from \in Regs \ done
  BY Stuck DEF BreakCycle
<1>8. LeftInv'
  <2> SUFFICES ASSUME NEW o \in Regs \ done
               PROVE  /\ nodes'[o].from \in Regs
                      /\ Read(regs', nodes'[o]) = Target(o)
    BY <1>5 DEF LeftInv, Target
  <2>1. Read(regs, nodes[o]) = Target(o)
    BY <1>5 DEF LeftInv
  <2>2. CASE o = r
    <3>1. nodes'[o] = Move(t) /\ regs'[t] = Target(r)
      BY <1>1, <1>2, <1>3, <1>4, <2>1, <2>2 DEF TypeOK
    <3> QED BY <1>2, <2>2, <3>1 DEF Read, Move
  <2>3. CASE o # r
    <3>1. nodes'[o] = nodes[o]
      BY <1>3, <2>3 DEF TypeOK
    <3>2. nodes[o].from \in Regs /\ nodes[o].from # t
      BY <1>2, <1>5, <1>7 DEF LeftInv
    <3>3. regs'[nodes[o].from] = regs[nodes[o].from]
      BY <1>4, <3>2 DEF TypeOK
    <3> QED BY <2>1, <3>1, <3>2, <3>3, ReadSame
  <2> QED BY <2>2, <2>3
<1>9. DoneInv'
  BY <1>2, <1>4, <1>5 DEF DoneInv, Target, TypeOK
<1> QED BY <1>5, <1>6, <1>8, <1>9
        DEF CollectInv, ScanInv, ShuffledInv, ParamsInv, FinalInv, ParamsOf

LEMMA ShuffledStep == ASSUME IInv, Shuffled PROVE IInv'
<1> USE DEF IInv
<1>1. ShuffledInv'
  BY DEF Shuffled, Pass, ShuffledInv, DoneInv, Target
<1>2. ParamsInv'
  BY DEF Shuffled, Pass, ParamsInv, ParamsOf
<1> QED BY <1>1, <1>2 DEF Shuffled, TypeOK, CollectInv, ScanInv, LeftInv, DoneInv,
                          FinalInv

LEMMA LoadSlotsStep == ASSUME IInv, LoadSlots PROVE IInv'
<1> USE DEF IInv
<1>1. regs' \in [Regs -> Value]
  <2>1. \A r \in Regs : r \in DOMAIN moves => Read(regs, moves[r]) \in Value
    BY MovesType, ReadType DEF TypeOK
  <2> QED BY <2>1 DEF LoadSlots, TypeOK
<1>2. FinalInv'
  <2> SUFFICES ASSUME NEW r \in Regs \ Temps PROVE regs'[r] = Intended(r)
    BY DEF FinalInv, Intended, LoadSlots
  <2>1. CASE r \in DOMAIN moves /\ FromSlot(moves[r])
    BY <2>1, ReadSlot DEF LoadSlots, Intended
  <2>2. CASE ~(r \in DOMAIN moves /\ FromSlot(moves[r]))
    BY <2>2 DEF LoadSlots, Intended, ShuffledInv, Target
  <2> QED BY <2>1, <2>2
<1>3. ParamsInv'
  BY DEF LoadSlots, ParamsInv, ParamsOf
<1> QED BY <1>1, <1>2, <1>3 DEF LoadSlots, TypeOK, CollectInv, ScanInv, LeftInv,
                                DoneInv, ShuffledInv
------------------------------------------------------------------------------
\* The inductive invariant holds of every run.
THEOREM Invariant == Spec => []IInv
<1>1. ASSUME IInv, [Next]_vars PROVE IInv'
  <2>1. CASE UNCHANGED vars
    BY <1>1, <2>1 DEF vars, IInv, TypeOK, CollectInv, ScanInv, LeftInv, DoneInv,
                      ShuffledInv, ParamsInv, FinalInv, Target, Intended, ParamsOf
  <2> QED BY <1>1, <2>1, CollectStep, RefuseStep, AssignStep, AgainStep,
             BreakStep, ShuffledStep, LoadSlotsStep DEF Next
<1> QED BY <1>1, InitIInv, PTL DEF Spec

\* The registers keep their types, a node its source, whatever is assigned.
THEOREM TypeCorrect == Spec => []TypeOK
BY Invariant, PTL DEF IInv

\* Whatever the assignments, their sources and their cycles, what Resolve emits
\* has the effect of all of them at once.
THEOREM MovesAreParallel == Spec => []ParallelAssignment
<1>1. IInv => ParallelAssignment
  BY DEF IInv, FinalInv, ParamsInv, ParallelAssignment
<1> QED BY <1>1, Invariant, PTL

\* The assertions of cycleResolver hold: a temporary that is about to be written
\* carries nothing that is still needed.
THEOREM TemporariesAreFree == Spec => []TempsAreFree
<1>1. IInv => TempsAreFree
  BY Stuck DEF IInv, LeftInv, Pass, TempsAreFree
<1> QED BY <1>1, Invariant, PTL
==============================================================================
