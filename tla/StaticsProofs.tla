----------------------------- MODULE StaticsProofs -----------------------------
(***************************************************************************)
(* Static fields, for every set of threads and all programs: nobody waits  *)
(* in a circle, the collector sees exactly the references in static fields,*)
(* and answers to different references are places apart.                   *)
(*                                                                         *)
(* Waiting: whoever holds the mutex of the bundles is a thread that builds *)
(* or locates, or the collector on its visit.  Only the builder can wait,  *)
(* for the mutex of the type infos, and whoever holds that one needs       *)
(* nothing of this module.                                                 *)
(*                                                                         *)
(* Places: a slot is counted when the bundle is built and again when a     *)
(* field is located.  The invariant of the construction says that the n-th *)
(* field of a kind has slot n, that records lie behind each other, and that*)
(* the remembered offsets are those within the records; a bundle in use is *)
(* a complete construction, and an answer is the place of its first field  *)
(* and, from there, what the layout of the field's type says.  What the    *)
(* layout of a single type says is computed by recursion over types: here  *)
(* it is the hypothesis of the theorems (the last section of Statics).     *)
(***************************************************************************)
EXTENDS Statics, SequenceTheorems, FiniteSetTheorems, TLAPS

\* The labels, and who holds the mutex of the bundles.
LockInv ==
  /\ pc \in [Threads -> {"idle", "asked", "build", "locate", "path"}]
  /\ lock \in Threads \cup {Collector, Nobody}
  /\ "on" \in DOMAIN visit /\ visit.on \in BOOLEAN
  /\ visit.on <=> lock = Collector
  /\ \A th \in Threads : lock = th <=> pc[th] \in {"build", "locate"}

LEMMA InitLock == Init => LockInv
  BY ActorsDiffer DEF Init, LockInv, NoVisit

\* A thread that goes on without touching the mutex.
LEMMA MovesOn ==
  ASSUME LockInv, NEW th \in Threads, NEW place \in {"idle", "asked", "path"},
         pc[th] \in {"idle", "asked", "path"},
         pc' = [pc EXCEPT ![th] = place], UNCHANGED <<lock, visit>>
  PROVE  LockInv'
  BY DEF LockInv

LEMMA NextLock == LockInv /\ [Next]_vars => LockInv'
<1> SUFFICES ASSUME LockInv, [Next]_vars PROVE LockInv'
  OBVIOUS
<1> USE ActorsDiffer
<1>1. ASSUME NEW th \in Threads, AskStatic(th) \/ AskInstance(th) PROVE LockInv'
  <2>1. pc[th] = "idle" /\ \E place \in {"asked", "path"} : pc' = [pc EXCEPT ![th] = place]
    BY <1>1 DEF AskStatic, AskInstance, Go, Goto
  <2>2. UNCHANGED <<lock, visit>>
    BY <1>1 DEF AskStatic, AskInstance
  <2> QED
    BY <2>1, <2>2, MovesOn
<1>2. ASSUME NEW th \in Threads, Lock(th) PROVE LockInv'
  <2>1. PICK place \in {"build", "locate"} : pc' = [pc EXCEPT ![th] = place]
    BY <1>2 DEF Lock, Goto
  <2>2. lock = Nobody /\ lock' = th /\ visit' = visit
    BY <1>2 DEF Lock, MayLock
  <2> QED
    BY <2>1, <2>2 DEF LockInv
<1>3. ASSUME NEW th \in Threads, AddStatic(th) \/ NoSize(th) \/ NoElement(th) PROVE LockInv'
  <2>1. UNCHANGED <<pc, lock, visit>>
    BY <1>3 DEF AddStatic, NoSize, NoElement
  <2> QED
    BY <2>1 DEF LockInv
<1>4. ASSUME NEW th \in Threads, Publish(th) PROVE LockInv'
  <2>1. pc[th] = "build" /\ pc' = [pc EXCEPT ![th] = "locate"] /\ UNCHANGED <<lock, visit>>
    BY <1>4 DEF Publish, Go, Goto
  <2> QED
    BY <2>1 DEF LockInv
<1>5. ASSUME NEW th \in Threads, Locate(th) PROVE LockInv'
  <2>1. pc[th] = "locate" /\ pc' = [pc EXCEPT ![th] = "path"] /\ lock' = Nobody /\ visit' = visit
    BY <1>5 DEF Locate, Go, Goto
  <2>2. lock = th
    BY <2>1 DEF LockInv
  <2> QED
    BY <2>1, <2>2 DEF LockInv
<1>6. ASSUME NEW th \in Threads, Answer(th) PROVE LockInv'
  <2>1. pc[th] = "path" /\ pc' = [pc EXCEPT ![th] = "idle"] /\ UNCHANGED <<lock, visit>>
    BY <1>6 DEF Answer, Go, Goto
  <2> QED
    BY <2>1, MovesOn
<1>7. CASE Visit
  <2>1. CASE StartVisit
    <3>1. lock = Nobody /\ lock' = Collector /\ visit'.on = TRUE /\ "on" \in DOMAIN visit' /\ pc' = pc
      BY <2>1 DEF StartVisit, MayLock
    <3> QED
      BY <3>1 DEF LockInv
  <2>2. CASE VisitBundle
    <3>1. visit'.on = visit.on /\ "on" \in DOMAIN visit' /\ UNCHANGED <<lock, pc>>
      BY <2>2 DEF VisitBundle, LockInv
    <3> QED
      BY <3>1 DEF LockInv
  <2>3. CASE EndVisit
    <3>1. visit.on /\ visit'.on = FALSE /\ "on" \in DOMAIN visit' /\ lock' = Nobody /\ pc' = pc
      BY <2>3 DEF EndVisit, NoVisit
    <3> QED
      BY <3>1 DEF LockInv
  <2> QED
    BY <1>7, <2>1, <2>2, <2>3 DEF Visit
<1>8. CASE EnterInfos \/ LeaveInfos \/ UNCHANGED vars
  <2>1. UNCHANGED <<pc, lock, visit>>
    BY <1>8 DEF EnterInfos, LeaveInfos, vars
  <2> QED
    BY <2>1 DEF LockInv
<1> QED
  BY <1>1, <1>2, <1>3, <1>4, <1>5, <1>6, <1>7, <1>8 DEF Next, Proceed

LEMMA LockInvWaits == LockInv => NobodyWaitsInACircle
<1> SUFFICES ASSUME LockInv, ~aborted, ~visit.on, ~infoLock,
                    NEW busy \in Threads, pc[busy] # "idle"
             PROVE  \E th \in Threads :
                      \/ pc[th] = "asked" /\ MayLock
                      \/ pc[th] = "build" /\ \/ draft[th].next > Len(fields[request[th].owner])
                                             \/ MayAdd(fields[request[th].owner][draft[th].next])
                      \/ pc[th] = "locate"
                      \/ pc[th] = "path" /\ MayLayOut(at[th].type)
  BY DEF NobodyWaitsInACircle, InfosMayEnd
\* With the type infos free, building, locating and laying out go on.
<1>1. ASSUME NEW th \in Threads PROVE MayAdd(fields[request[th].owner][draft[th].next]) /\ MayLayOut(at[th].type)
  BY DEF MayAdd, MayLayOut
\* Who wants the mutex gets it, or its holder is a thread that goes on.
<1>2. CASE pc[busy] = "asked" /\ lock # Nobody
  <2>1. lock \in Threads
    BY <1>2 DEF LockInv
  <2>2. pc[lock] \in {"build", "locate"}
    BY <2>1 DEF LockInv
  <2> QED
    BY <1>1, <2>1, <2>2
<1>3. CASE pc[busy] = "asked" /\ lock = Nobody
  BY <1>3 DEF MayLock
<1>4. CASE pc[busy] \in {"build", "locate", "path"}
  BY <1>1, <1>4
<1> QED
  BY <1>2, <1>3, <1>4 DEF LockInv

\* As long as the program has not given up, threads that resolve references, the
\* collector and the users of type infos never all wait for each other
\* (statics_manager.cpp), however many they are and whatever the types.
THEOREM NobodyWaits == Spec => []NobodyWaitsInACircle
<1>1. Spec => []LockInv
  BY InitLock, NextLock, PTL DEF Spec
<1> QED
  BY <1>1, LockInvWaits, PTL
--------------------------------------------------------------------------------
(***************************************************************************)
(* The bundles.  A slot is counted when the bundle is built and again when *)
(* a field is looked up; the counts agree, and no slot is left out.        *)
(***************************************************************************)

SlotKinds == {"PRIMITIVE", "REFERENCE", "RECORD"}
KindOf(types, i) == ComputeSlotKind(types[i])

LEMMA KindsOfSlots == \A t : ComputeSlotKind(t) \in SlotKinds
  BY DEF ComputeSlotKind, SlotKinds

\* The fields of kind K among the first n.
Alike(types, K, n) == {j \in 1..n : KindOf(types, j) = K}

\* The slot of a field is the number of fields of its kind before it.
SlotOf(types, i) == Cardinality(Alike(types, KindOf(types, i), i - 1))

Draft == [next : Nat, refs : Nat, prims : Nat, size : Nat, records : Seq(Nat), references : SUBSET Nat]

Count(d, K) ==
  IF K = "PRIMITIVE" THEN d.prims ELSE IF K = "REFERENCE" THEN d.refs ELSE Len(d.records)

SlotsInv(d, types) ==
  /\ d.next \in 1..(Len(types) + 1)
  /\ \A K \in SlotKinds : Count(d, K) = Cardinality(Alike(types, K, d.next - 1))
  /\ \A i \in 1..(d.next - 1) : SlotOf(types, i) \in 0..(Count(d, KindOf(types, i)) - 1)
  /\ \A i, j \in 1..(d.next - 1) :
       i < j /\ KindOf(types, i) = KindOf(types, j) => SlotOf(types, i) < SlotOf(types, j)
  /\ \A K \in SlotKinds : \A k \in 0..(Count(d, K) - 1) :
       \E i \in 1..(d.next - 1) : KindOf(types, i) = K /\ SlotOf(types, i) = k

Records(d, types) == Alike(types, "RECORD", d.next - 1)
Start(d, types, i) == d.records[SlotOf(types, i) + 1]

\* The references within the record that is field i.
Inner(d, types, i) == {Start(d, types, i) + o : o \in FillRefOffsets[types[i]]}

\* Records lie behind each other, and the references in them are remembered.
RecordsInv(d, types) ==
  /\ d.size % Word = 0
  /\ \A i \in Records(d, types) :
       /\ Start(d, types, i) % Word = 0
       /\ GetFlatSize(types[i]) \in Nat
       /\ Start(d, types, i) + GetFlatSize(types[i]) <= d.size
  /\ \A i, j \in Records(d, types) :
       i < j => Start(d, types, i) + GetFlatSize(types[i]) <= Start(d, types, j)
  /\ d.references = UNION {Inner(d, types, i) : i \in Records(d, types)}

DraftInv(d, types) == d \in Draft /\ SlotsInv(d, types) /\ RecordsInv(d, types)

LEMMA Counted ==
  ASSUME NEW types, NEW K, NEW n \in Nat
  PROVE  /\ IsFiniteSet(Alike(types, K, n)) /\ Cardinality(Alike(types, K, n)) \in Nat
         /\ Alike(types, K, 0) = {}
         /\ KindOf(types, n + 1) # K => Alike(types, K, n + 1) = Alike(types, K, n)
         /\ KindOf(types, n + 1) = K =>
              Cardinality(Alike(types, K, n + 1)) = Cardinality(Alike(types, K, n)) + 1
<1>1. IsFiniteSet(Alike(types, K, n)) /\ Cardinality(Alike(types, K, n)) \in Nat
  <2>1. IsFiniteSet(1..n)
    BY FS_Interval
  <2>2. Alike(types, K, n) \subseteq 1..n
    BY DEF Alike
  <2>. QED
    BY <2>1, <2>2, FS_Subset, FS_CardinalityType
<1>2. Alike(types, K, 0) = {}
  BY DEF Alike
<1>3. ASSUME KindOf(types, n + 1) # K
      PROVE  Alike(types, K, n + 1) = Alike(types, K, n)
  BY <1>3 DEF Alike
<1>4. ASSUME KindOf(types, n + 1) = K
      PROVE  Cardinality(Alike(types, K, n + 1)) = Cardinality(Alike(types, K, n)) + 1
  <2>1. Alike(types, K, n + 1) = Alike(types, K, n) \cup {n + 1} /\ n + 1 \notin Alike(types, K, n)
    BY <1>4 DEF Alike
  <2>. QED
    BY <1>1, <2>1, FS_AddElement
<1>. QED
  BY <1>1, <1>2, <1>3, <1>4

LEMMA FieldToAdd ==
  ASSUME NEW types \in Seq(Types), NEW d, SlotsInv(d, types)
  PROVE  d.next \in 1..(Len(types) + 1) /\ d.next \in Nat \ {0} /\ d.next - 1 \in Nat
<1>1. d.next \in 1..(Len(types) + 1) /\ Len(types) \in Nat
  BY DEF SlotsInv
<1>. QED
  BY <1>1

LEMMA EmptyDraftInv ==
  ASSUME NEW types \in Seq(Types)
  PROVE  DraftInv(EmptyDraft, types)
<1> DEFINE e == EmptyDraft
<1>1. /\ e.next = 1 /\ e.refs = 0 /\ e.prims = 0 /\ e.size = 0 /\ e.records = <<>> /\ e.references = {}
      /\ e \in Draft
  BY DEF EmptyDraft, Draft
<1>. HIDE DEF e
<1>2. \A K : Alike(types, K, 0) = {}
  BY DEF Alike
<1>3. Cardinality({}) = 0
  BY FS_EmptySet
<1>4. SlotsInv(e, types)
  <2>1. e.next \in 1..(Len(types) + 1) /\ e.next - 1 = 0
    BY <1>1
  <2>2. \A K \in SlotKinds : Count(e, K) = 0 /\ 0..(Count(e, K) - 1) = {}
    BY <1>1 DEF Count
  <2>3. 1..(e.next - 1) = {}
    BY <1>1
  <2>4. \A K \in SlotKinds : Count(e, K) = Cardinality(Alike(types, K, e.next - 1))
    BY <1>2, <1>3, <2>1, <2>2
  <2>. QED
    BY <2>1, <2>2, <2>3, <2>4 DEF SlotsInv
<1>5. RecordsInv(e, types)
  <2>1. Records(e, types) = {}
    BY <1>1, <1>2 DEF Records
  <2>2. e.size % Word = 0
    BY <1>1 DEF Word
  <2>. QED
    BY <1>1, <2>1, <2>2 DEF RecordsInv
<1>. QED
  BY <1>1, <1>4, <1>5 DEF DraftInv, e

\* One more field: its slot is the first that is free.
LEMMA NextSlot ==
  ASSUME NEW types \in Seq(Types), NEW d \in Draft, NEW e \in Draft, SlotsInv(d, types),
         d.next <= Len(types), e.next = d.next + 1,
         \A K \in SlotKinds :
           Count(e, K) = IF K = KindOf(types, d.next) THEN Count(d, K) + 1 ELSE Count(d, K)
  PROVE  /\ SlotsInv(e, types)
         /\ SlotOf(types, d.next) = Count(d, KindOf(types, d.next))
<1> DEFINE n == d.next
           K0 == KindOf(types, n)
<1>1. n \in Nat \ {0} /\ n - 1 \in Nat /\ e.next - 1 = n /\ K0 \in SlotKinds
  <2>1. d.next \in Nat \ {0} /\ d.next - 1 \in Nat
    BY FieldToAdd
  <2>2. e.next - 1 = d.next
    BY <2>1
  <2>3. K0 \in SlotKinds
    BY KindsOfSlots DEF KindOf
  <2>. QED
    BY <2>1, <2>2, <2>3
<1>2. \A K \in SlotKinds : Count(d, K) \in Nat /\ Count(e, K) \in Nat
  BY DEF Count, Draft
<1>3. SlotOf(types, n) = Count(d, K0)
  BY <1>1 DEF SlotOf, SlotsInv
<1>4. ASSUME NEW K \in SlotKinds
      PROVE  Count(e, K) = Cardinality(Alike(types, K, n))
  <2>1. Count(d, K) = Cardinality(Alike(types, K, n - 1))
    BY DEF SlotsInv
  <2>2. (n - 1) + 1 = n
    BY <1>1
  <2>. QED
    BY <1>1, <2>1, <2>2, Counted
<1>5. \A i \in 1..n : SlotOf(types, i) \in 0..(Count(e, KindOf(types, i)) - 1)
  <2> SUFFICES ASSUME NEW i \in 1..n PROVE SlotOf(types, i) \in 0..(Count(e, KindOf(types, i)) - 1)
    OBVIOUS
  <2>1. CASE i = n
    BY <1>1, <1>2, <1>3, <2>1
  <2>2. CASE i # n
    <3>1. i \in 1..(d.next - 1) /\ KindOf(types, i) \in SlotKinds
      BY <1>1, <2>2, KindsOfSlots DEF KindOf
    <3>2. SlotOf(types, i) \in 0..(Count(d, KindOf(types, i)) - 1)
      BY <3>1 DEF SlotsInv
    <3>. QED
      BY <1>2, <3>1, <3>2
  <2>. QED
    BY <2>1, <2>2
<1>6. \A i, j \in 1..n :
        i < j /\ KindOf(types, i) = KindOf(types, j) => SlotOf(types, i) < SlotOf(types, j)
  <2> SUFFICES ASSUME NEW i \in 1..n, NEW j \in 1..n, i < j, KindOf(types, i) = KindOf(types, j)
               PROVE  SlotOf(types, i) < SlotOf(types, j)
    OBVIOUS
  <2>1. i \in 1..(d.next - 1) /\ KindOf(types, i) \in SlotKinds
    BY <1>1, KindsOfSlots DEF KindOf
  <2>2. CASE j = n
    <3>1. SlotOf(types, i) \in 0..(Count(d, K0) - 1)
      BY <2>1, <2>2 DEF SlotsInv
    <3>. QED
      BY <1>1, <1>2, <1>3, <2>2, <3>1
  <2>3. CASE j # n
    <3>1. j \in 1..(d.next - 1)
      BY <1>1, <2>3
    <3>. QED
      BY <2>1, <3>1 DEF SlotsInv
  <2>. QED
    BY <2>2, <2>3
<1>7. ASSUME NEW K \in SlotKinds, NEW k \in 0..(Count(e, K) - 1)
      PROVE  \E i \in 1..n : KindOf(types, i) = K /\ SlotOf(types, i) = k
  <2>1. CASE K = K0 /\ k = Count(d, K)
    BY <1>1, <1>3, <2>1
  <2>2. CASE ~(K = K0 /\ k = Count(d, K))
    <3>1. k \in 0..(Count(d, K) - 1)
      BY <1>2, <2>2
    <3>2. PICK i \in 1..(d.next - 1) : KindOf(types, i) = K /\ SlotOf(types, i) = k
      BY <3>1 DEF SlotsInv
    <3>. QED
      BY <1>1, <3>2
  <2>. QED
    BY <2>1, <2>2
<1>8. e.next \in 1..(Len(types) + 1)
  BY <1>1
<1>. QED
  BY <1>1, <1>3, <1>4, <1>5, <1>6, <1>7, <1>8 DEF SlotsInv

LEMMA RecordSlots ==
  ASSUME NEW types, NEW d \in Draft, SlotsInv(d, types), NEW i \in Records(d, types)
  PROVE  /\ i \in 1..(d.next - 1) /\ KindOf(types, i) = "RECORD"
         /\ SlotOf(types, i) \in Nat /\ SlotOf(types, i) + 1 \in 1..Len(d.records)
         /\ Start(d, types, i) \in Nat
<1>1. i \in 1..(d.next - 1) /\ KindOf(types, i) = "RECORD"
  BY DEF Records, Alike
<1>2. SlotOf(types, i) \in 0..(Count(d, "RECORD") - 1) /\ Count(d, "RECORD") = Len(d.records)
  BY <1>1 DEF SlotsInv, Count
<1>3. Len(d.records) \in Nat /\ d.records \in Seq(Nat)
  BY DEF Draft
<1>4. SlotOf(types, i) + 1 \in 1..Len(d.records) /\ SlotOf(types, i) \in Nat
  BY <1>2, <1>3
<1>. QED
  BY <1>1, <1>3, <1>4 DEF Start

\* A reference or a number takes a word.
LEMMA AddsWord ==
  ASSUME NEW types \in Seq(Types), NEW d, NEW e \in Draft, DraftInv(d, types),
         d.next <= Len(types), e.next = d.next + 1, KindOf(types, d.next) # "RECORD",
         e.size = d.size, e.records = d.records, e.references = d.references,
         \A K \in SlotKinds :
           Count(e, K) = IF K = KindOf(types, d.next) THEN Count(d, K) + 1 ELSE Count(d, K)
  PROVE  DraftInv(e, types)
<1>1. d \in Draft /\ SlotsInv(d, types) /\ RecordsInv(d, types)
  BY DEF DraftInv
<1>2. SlotsInv(e, types)
  BY <1>1, NextSlot
<1>3. Records(e, types) = Records(d, types)
  <2>1. d.next - 1 \in Nat /\ (d.next - 1) + 1 = d.next /\ e.next - 1 = d.next
    BY <1>1, FieldToAdd
  <2>. QED
    BY <2>1, Counted DEF Records
<1>4. \A i : Start(e, types, i) = Start(d, types, i)
  BY DEF Start
<1>. QED
  BY <1>1, <1>2, <1>3, <1>4 DEF DraftInv, RecordsInv, Inner

LEMMA WordAligned ==
  ASSUME NEW n \in Nat
  PROVE  AlignUp(n, Word) \in Nat /\ AlignUp(n, Word) >= n /\ AlignUp(n, Word) % Word = 0
<1>1. AlignUp(n, Word) = ((n + 7) \div 8) * 8
  BY DEF AlignUp, Word
<1>2. PICK q \in Nat : q = (n + 7) \div 8 /\ 8 * q <= n + 7 /\ n + 7 < 8 * q + 8
  BY SMT
<1>3. q * 8 \in Nat /\ q * 8 >= n
  BY <1>2
<1>4. (q * 8) % 8 = 0
  BY <1>2
<1>. QED
  BY <1>1, <1>2, <1>3, <1>4 DEF Word

WithRecord(d, type) ==
  [d EXCEPT !.next = @ + 1,
            !.records = Append(@, d.size),
            !.references = @ \cup {d.size + o : o \in FillRefOffsets[type]},
            !.size = @ + AlignUp(GetFlatSize(type), Word)]

LEMMA SumsAligned ==
  ASSUME NEW a \in Nat, NEW b \in Nat, a % 8 = 0, b % 8 = 0
  PROVE  (a + b) % 8 = 0
<1>1. PICK p \in Nat : a = 8 * p
  <2>1. a = 8 * (a \div 8) /\ a \div 8 \in Nat
    BY SMT
  <2>. QED
    BY <2>1
<1>2. PICK q \in Nat : b = 8 * q
  <2>1. b = 8 * (b \div 8) /\ b \div 8 \in Nat
    BY SMT
  <2>. QED
    BY <2>1
<1>3. a + b = 8 * (p + q)
  BY <1>1, <1>2
<1>4. \A r \in Nat : (8 * r) % 8 = 0
  OBVIOUS
<1>. QED
  BY <1>3, <1>4

\* A record begins where the last one ends.
LEMMA AddsRecord ==
  ASSUME NEW types \in Seq(Types), NEW d, NEW e, DraftInv(d, types),
         d.next <= Len(types), KindOf(types, d.next) = "RECORD",
         GetFlatSize(types[d.next]) \in Nat, FillRefOffsets[types[d.next]] \subseteq Nat,
         e = WithRecord(d, types[d.next])
  PROVE  DraftInv(e, types)
<1> DEFINE n == d.next
           size == GetFlatSize(types[n])
           inner == FillRefOffsets[types[n]]
<1>1. d \in Draft /\ SlotsInv(d, types) /\ RecordsInv(d, types)
  BY DEF DraftInv
<1>2. PICK up \in Nat : up = AlignUp(size, Word) /\ up >= size /\ up % 8 = 0
  BY WordAligned DEF Word
<1>3. /\ e.next = n + 1 /\ e.refs = d.refs /\ e.prims = d.prims
      /\ e.records = Append(d.records, d.size)
      /\ e.references = d.references \cup {d.size + o : o \in inner}
      /\ e.size = d.size + up
  BY <1>1, <1>2 DEF Draft, WithRecord
<1>4. /\ n \in Nat \ {0} /\ d.size \in Nat /\ d.size % 8 = 0
      /\ d.records \in Seq(Nat) /\ Len(d.records) \in Nat
  <2>1. d.size % 8 = 0
    BY <1>1 DEF RecordsInv, Word
  <2>. QED
    BY <1>1, <2>1, FieldToAdd DEF Draft
<1>5. e \in Draft
  <2>1. PICK all \in SUBSET Nat : all = d.references \cup {d.size + o : o \in inner}
    <3>1. \A o \in inner : d.size + o \in Nat
      BY <1>4
    <3>. QED
      BY <1>1, <3>1 DEF Draft
  <2>2. PICK records \in Seq(Nat) : records = Append(d.records, d.size)
    BY <1>4, AppendProperties
  <2>3. e = [d EXCEPT !.next = n + 1, !.records = records, !.references = all, !.size = d.size + up]
    BY <1>2, <2>1, <2>2 DEF WithRecord
  <2>4. n + 1 \in Nat /\ d.size + up \in Nat
    BY <1>4
  <2>. QED
    BY <1>1, <2>3, <2>4 DEF Draft
<1>. HIDE DEF size, inner, n
<1>6. /\ Len(e.records) = Len(d.records) + 1 /\ e.records[Len(d.records) + 1] = d.size
      /\ \A k \in 1..Len(d.records) : e.records[k] = d.records[k]
  BY <1>3, <1>4
<1>7. SlotsInv(e, types) /\ SlotOf(types, n) = Len(d.records)
  <2>1. \A K \in SlotKinds :
          Count(e, K) = IF K = KindOf(types, d.next) THEN Count(d, K) + 1 ELSE Count(d, K)
    BY <1>3, <1>6 DEF Count, SlotKinds, n
  <2>2. Count(d, KindOf(types, d.next)) = Len(d.records)
    BY DEF Count
  <2>. QED
    BY <1>1, <1>3, <1>5, <2>1, <2>2, NextSlot DEF n
<1>8. Records(e, types) = Records(d, types) \cup {n}
  <2>2. PICK m \in Nat \ {0} : m = n
    BY <1>4
  <2>3. e.next = m + 1 /\ KindOf(types, m) = "RECORD"
    BY <1>3, <2>2 DEF n
  <2>4. e.next - 1 = m /\ 1..m = (1..(m - 1)) \cup {m}
    BY <2>2, <2>3
  <2>1. e.next - 1 = n /\ 1..n = (1..(n - 1)) \cup {n} /\ KindOf(types, n) = "RECORD"
    BY <2>2, <2>3, <2>4
  <2>. QED
    BY <2>1 DEF Records, Alike, n
<1>9. Start(e, types, n) = d.size
  BY <1>6, <1>7 DEF Start
<1>10. \A i \in Records(d, types) : Start(e, types, i) = Start(d, types, i) /\ Start(d, types, i) \in Nat
  <2> SUFFICES ASSUME NEW i \in Records(d, types)
               PROVE  Start(e, types, i) = Start(d, types, i) /\ Start(d, types, i) \in Nat
    OBVIOUS
  <2>1. PICK k : k = SlotOf(types, i) + 1
    OBVIOUS
  <2>2. k \in 1..Len(d.records) /\ Start(d, types, i) \in Nat
    BY <1>1, <2>1, RecordSlots
  <2>3. e.records[k] = d.records[k]
    BY <1>6, <2>2
  <2>. QED
    BY <2>1, <2>2, <2>3 DEF Start
<1>11. RecordsInv(e, types)
  <2>1. e.size % 8 = 0
    <3>1. PICK before \in Nat : before = d.size /\ before % 8 = 0
      BY <1>4
    <3>2. (before + up) % 8 = 0
      BY <1>2, <3>1, SumsAligned
    <3>. QED
      BY <1>3, <3>1, <3>2
  <2>2. ASSUME NEW i \in Records(e, types)
        PROVE  /\ Start(e, types, i) % 8 = 0
               /\ GetFlatSize(types[i]) \in Nat
               /\ Start(e, types, i) + GetFlatSize(types[i]) <= e.size
    <3>1. CASE i = n
      BY <1>2, <1>3, <1>4, <1>9, <3>1 DEF size, n
    <3>2. CASE i # n
      <4>1. i \in Records(d, types)
        BY <1>8, <3>2
      <4>2. /\ Start(d, types, i) % 8 = 0
            /\ GetFlatSize(types[i]) \in Nat
            /\ Start(d, types, i) + GetFlatSize(types[i]) <= d.size
        BY <1>1, <4>1 DEF RecordsInv, Word
      <4>. QED
        BY <1>2, <1>3, <1>4, <1>10, <4>1, <4>2
    <3>. QED
      BY <3>1, <3>2
  <2>3. ASSUME NEW i \in Records(e, types), NEW j \in Records(e, types), i < j
        PROVE  Start(e, types, i) + GetFlatSize(types[i]) <= Start(e, types, j)
    <3>1. i \in Records(d, types)
      <4>1. \A k \in Records(d, types) : k < n /\ k \in Nat
        <5> SUFFICES ASSUME NEW k \in Records(d, types) PROVE k < n /\ k \in Nat
          OBVIOUS
        <5>1. k \in 1..(n - 1)
          BY <1>1, RecordSlots DEF n
        <5>. QED
          BY <1>4, <5>1
      <4>. QED
        BY <1>4, <1>8, <2>3, <4>1
    <3>2. CASE j = n
      BY <1>1, <1>9, <1>10, <3>1, <3>2 DEF RecordsInv
    <3>3. CASE j # n
      BY <1>1, <1>8, <1>10, <2>3, <3>1, <3>3 DEF RecordsInv
    <3>. QED
      BY <3>2, <3>3
  <2>4. e.references = UNION {Inner(e, types, i) : i \in Records(e, types)}
    <3>1. \A i \in Records(d, types) : Inner(e, types, i) = Inner(d, types, i)
      BY <1>10 DEF Inner
    <3>2. Inner(e, types, n) = {d.size + o : o \in inner}
      BY <1>9 DEF Inner, inner
    <3>3. d.references = UNION {Inner(d, types, i) : i \in Records(d, types)}
      BY <1>1 DEF RecordsInv
    <3>4. e.references = d.references \cup Inner(e, types, n)
      BY <1>3, <3>2
    <3>. QED
      BY <1>8, <3>1, <3>3, <3>4
  <2>. QED
    BY <2>1, <2>2, <2>3, <2>4 DEF RecordsInv, Word
<1>. QED
  BY <1>5, <1>7, <1>11 DEF DraftInv

\* What a bundle is built from.
Complete(d, types) == DraftInv(d, types) /\ d.next = Len(types) + 1

Extent(t) == IF ComputeSlotKind(t) = "RECORD" THEN GetFlatSize(t) ELSE Word

LEMMA Locations ==
  ASSUME NEW types \in Seq(Types), NEW d, NEW builder, Complete(d, types), NEW i \in 1..Len(types)
  PROVE  /\ SlotOf(types, i) \in 0..(Count(d, KindOf(types, i)) - 1)
         /\ KindOf(types, i) = "PRIMITIVE" =>
              GetLocation(Built(d, builder), types, i) = 8 * SlotOf(types, i)
         /\ KindOf(types, i) = "REFERENCE" =>
              GetLocation(Built(d, builder), types, i) = 8 * d.prims + 8 * SlotOf(types, i)
         /\ KindOf(types, i) = "RECORD" =>
              GetLocation(Built(d, builder), types, i) = 8 * (d.prims + d.refs) + Start(d, types, i)
<1> DEFINE b == Built(d, builder)
<1>1. d \in Draft /\ SlotsInv(d, types) /\ i \in 1..(d.next - 1)
  BY DEF Complete, DraftInv
<1>2. /\ d.prims \in Nat /\ d.refs \in Nat
      /\ b.primitives = 0 /\ b.refs = 8 * d.prims /\ b.records = 8 * (d.prims + d.refs)
      /\ b.recordOffsets = d.records
  BY <1>1 DEF Draft, Built, BeginOfRecords, Word
<1>3. SlotOf(types, i) \in 0..(Count(d, KindOf(types, i)) - 1) /\ Count(d, KindOf(types, i)) \in Nat
  BY <1>1 DEF SlotsInv, Draft, Count
<1>4. Cardinality({j \in 1..i - 1 : ComputeSlotKind(types[j]) = ComputeSlotKind(types[i])}) = SlotOf(types, i)
  BY DEF SlotOf, Alike, KindOf
<1>. HIDE DEF b
<1>5. CASE KindOf(types, i) = "PRIMITIVE"
  <2>1. GetLocation(b, types, i) = b.primitives + Word * SlotOf(types, i)
    BY <1>4, <1>5 DEF GetLocation, KindOf
  <2>. QED
    BY <1>2, <1>3, <1>5, <2>1 DEF Word, b
<1>6. CASE KindOf(types, i) = "REFERENCE"
  <2>1. GetLocation(b, types, i) = b.refs + Word * SlotOf(types, i)
    BY <1>4, <1>6 DEF GetLocation, KindOf
  <2>. QED
    BY <1>2, <1>3, <1>6, <2>1 DEF Word, b
<1>7. CASE KindOf(types, i) = "RECORD"
  <2>1. GetLocation(b, types, i) = b.records + b.recordOffsets[SlotOf(types, i) + 1]
    BY <1>4, <1>7 DEF GetLocation, KindOf
  <2>. QED
    BY <1>2, <1>3, <1>7, <2>1 DEF b, Start
<1>. QED
  BY <1>3, <1>5, <1>6, <1>7, KindsOfSlots DEF SlotKinds, KindOf

LEMMA WordsAligned == \A n \in Nat : (8 * n) % 8 = 0
  OBVIOUS

\* A field is inside the memory of its bundle.
LEMMA InsideBundle ==
  ASSUME SizesAreKnown, NEW types \in Seq(Types), NEW d, NEW builder, Complete(d, types),
         NEW i \in 1..Len(types)
  PROVE  LET loc == GetLocation(Built(d, builder), types, i)
         IN /\ loc \in Nat /\ loc % 8 = 0
            /\ Extent(types[i]) \in Nat /\ GetFlatSize(types[i]) <= Extent(types[i])
            /\ GetFlatSize(types[i]) \in Int
            /\ loc + Extent(types[i]) <= Built(d, builder).size
<1> DEFINE loc == GetLocation(Built(d, builder), types, i)
<1>1. d \in Draft /\ SlotsInv(d, types) /\ RecordsInv(d, types) /\ d.next - 1 = Len(types)
  BY DEF Complete, DraftInv
<1>2. /\ d.prims \in Nat /\ d.refs \in Nat /\ d.size \in Nat
      /\ Built(d, builder).size = 8 * (d.prims + d.refs) + d.size
  BY <1>1 DEF Draft, Built, BeginOfRecords, Word
<1>3. types[i] \in Types /\ GetFlatSize(types[i]) \in Nat \cup {Unknown}
  BY DEF SizesAreKnown
<1>4. KindOf(types, i) \in SlotKinds
  BY KindsOfSlots DEF KindOf
<1>. HIDE DEF loc
<1>5. CASE KindOf(types, i) \in {"PRIMITIVE", "REFERENCE"}
  <2>1. Extent(types[i]) = 8 /\ GetFlatSize(types[i]) <= 8
    BY <1>3, <1>5 DEF Extent, KindOf, SizesAreKnown, Word
  <2>2. PICK k \in Nat : loc = 8 * k /\ k < d.prims + d.refs
    <3>1. CASE KindOf(types, i) = "PRIMITIVE"
      BY <1>2, <3>1, Locations DEF loc, Count
    <3>2. CASE KindOf(types, i) = "REFERENCE"
      <4>1. PICK k, p, q : k = SlotOf(types, i) /\ p = d.prims /\ q = d.refs
        OBVIOUS
      <4>2. k \in 0..(q - 1) /\ loc = 8 * p + 8 * k
        BY <3>2, <4>1, Locations DEF loc, Count
      <4>3. p \in Nat /\ q \in Nat
        BY <1>2, <4>1
      <4>4. loc = 8 * (p + k) /\ p + k \in Nat /\ p + k < p + q
        BY <4>2, <4>3
      <4>. QED
        BY <4>1, <4>4
    <3>. QED
      BY <1>5, <3>1, <3>2
  <2>3. PICK words \in Nat, end \in Nat : words = d.prims + d.refs /\ end = d.size
    BY <1>2
  <2>4. loc + 8 <= Built(d, builder).size
    <3>1. Built(d, builder).size = 8 * words + end /\ loc = 8 * k /\ k < words
      BY <1>2, <2>2, <2>3
    <3>. QED
      BY <3>1
  <2>5. GetFlatSize(types[i]) \in Int
    BY <1>3 DEF Unknown
  <2>6. loc \in Nat /\ loc % 8 = 0
    BY <2>2, WordsAligned
  <2>. QED
    BY <2>1, <2>4, <2>5, <2>6 DEF loc
<1>6. CASE KindOf(types, i) = "RECORD"
  <2>1. i \in Records(d, types)
    BY <1>1, <1>6 DEF Records, Alike
  <2>2. /\ Start(d, types, i) \in Nat /\ Start(d, types, i) % 8 = 0
        /\ GetFlatSize(types[i]) \in Nat /\ Start(d, types, i) + GetFlatSize(types[i]) <= d.size
    BY <1>1, <2>1, RecordSlots DEF RecordsInv, Word
  <2>3. loc = 8 * (d.prims + d.refs) + Start(d, types, i)
    BY <1>6, Locations DEF loc
  <2>4. Extent(types[i]) = GetFlatSize(types[i])
    BY <1>6 DEF Extent, KindOf
  <2>6. PICK words \in Nat, start \in Nat, size \in Nat, end \in Nat :
          /\ words = d.prims + d.refs /\ start = Start(d, types, i)
          /\ size = GetFlatSize(types[i]) /\ end = d.size
    <3>1. d.prims + d.refs \in Nat
      BY <1>2
    <3>. QED
      BY <1>2, <2>2, <3>1
  <2>7. loc = 8 * words + start /\ start % 8 = 0 /\ Built(d, builder).size = 8 * words + end
    BY <1>2, <2>2, <2>3, <2>6
  <2>10. start + size <= end
    BY <2>2, <2>6
  <2>5. loc % 8 = 0
    <3>1. PICK base \in Nat : base = 8 * words /\ base % 8 = 0
      BY <2>6, WordsAligned
    <3>2. (base + start) % 8 = 0
      BY <2>7, <3>1, SumsAligned
    <3>. QED
      BY <2>7, <3>1, <3>2
  <2>8. loc \in Nat /\ loc + size <= Built(d, builder).size
    BY <2>7, <2>10
  <2>9. Extent(types[i]) = size /\ GetFlatSize(types[i]) = size
    BY <2>4, <2>6
  <2>. QED
    BY <2>5, <2>6, <2>8, <2>9 DEF loc
<1>. QED
  BY <1>4, <1>5, <1>6 DEF SlotKinds

\* Different fields are apart.
LEMMA ApartInBundle ==
  ASSUME SizesAreKnown, NEW types \in Seq(Types), NEW d, NEW builder, Complete(d, types),
         NEW i \in 1..Len(types), NEW j \in 1..Len(types), i # j
  PROVE  LET li == GetLocation(Built(d, builder), types, i)
             lj == GetLocation(Built(d, builder), types, j)
         IN li + Extent(types[i]) <= lj \/ lj + Extent(types[j]) <= li
<1>1. d \in Draft /\ SlotsInv(d, types) /\ RecordsInv(d, types) /\ d.next - 1 = Len(types)
  BY DEF Complete, DraftInv
<1>2. PICK p \in Nat, q \in Nat : p = d.prims /\ q = d.refs
  BY <1>1 DEF Draft
<1>3. \A n \in 1..Len(types) : KindOf(types, n) \in SlotKinds /\ n \in Nat
  BY KindsOfSlots DEF KindOf
<1> DEFINE Loc(n) == GetLocation(Built(d, builder), types, n)
           End(n) == Loc(n) + Extent(types[n])
<1>0. \A n : End(n) = Loc(n) + Extent(types[n])
  OBVIOUS
<1>. HIDE DEF End
<1>9. ASSUME NEW n \in 1..Len(types)
      PROVE  /\ SlotOf(types, n) \in 0..(Count(d, KindOf(types, n)) - 1)
             /\ KindOf(types, n) = "PRIMITIVE" => Loc(n) = 8 * SlotOf(types, n)
             /\ KindOf(types, n) = "REFERENCE" => Loc(n) = 8 * p + 8 * SlotOf(types, n)
             /\ KindOf(types, n) = "RECORD" => Loc(n) = 8 * (p + q) + Start(d, types, n)
  <2>1. /\ SlotOf(types, n) \in 0..(Count(d, KindOf(types, n)) - 1)
        /\ KindOf(types, n) = "PRIMITIVE" => Loc(n) = 8 * SlotOf(types, n)
        /\ KindOf(types, n) = "REFERENCE" => Loc(n) = 8 * d.prims + 8 * SlotOf(types, n)
        /\ KindOf(types, n) = "RECORD" => Loc(n) = 8 * (d.prims + d.refs) + Start(d, types, n)
    <3> HIDE DEF Loc
    <3>1. PICK loc : loc = Loc(n) /\ loc = GetLocation(Built(d, builder), types, n)
      BY DEF Loc
    <3>2. /\ SlotOf(types, n) \in 0..(Count(d, KindOf(types, n)) - 1)
          /\ KindOf(types, n) = "PRIMITIVE" => loc = 8 * SlotOf(types, n)
          /\ KindOf(types, n) = "REFERENCE" => loc = 8 * d.prims + 8 * SlotOf(types, n)
          /\ KindOf(types, n) = "RECORD" => loc = 8 * (d.prims + d.refs) + Start(d, types, n)
      BY <3>1, Locations
    <3>. QED
      BY <3>1, <3>2
  <2>. QED
    BY <1>2, <2>1
<1>. HIDE DEF Loc
\* Of one kind: the earlier field is before the later.
<1>4. ASSUME NEW m \in 1..Len(types), NEW n \in 1..Len(types), m < n, KindOf(types, m) = KindOf(types, n)
      PROVE  End(m) <= Loc(n)
  <2>1. /\ SlotOf(types, m) < SlotOf(types, n)
        /\ SlotOf(types, m) \in Nat /\ SlotOf(types, n) \in Nat
    BY <1>1, <1>4, <1>9 DEF SlotsInv
  <2>2. CASE KindOf(types, m) = "PRIMITIVE"
    <3>1. Loc(m) = 8 * SlotOf(types, m) /\ Loc(n) = 8 * SlotOf(types, n)
      BY <1>4, <2>2, <1>9
    <3>2. Extent(types[m]) = 8
      BY <2>2 DEF Extent, KindOf, Word
    <3>. QED
      BY <1>0, <2>1, <3>1, <3>2
  <2>3. CASE KindOf(types, m) = "REFERENCE"
    <3>1. /\ Loc(m) = 8 * p + 8 * SlotOf(types, m) /\ Loc(n) = 8 * p + 8 * SlotOf(types, n)
          /\ Extent(types[m]) = 8
      BY <1>4, <2>3, <1>9 DEF Extent, KindOf, Word
    <3>. QED
      BY <1>0, <2>1, <3>1
  <2>4. CASE KindOf(types, m) = "RECORD"
    <3>1. m \in Records(d, types) /\ n \in Records(d, types)
      BY <1>1, <1>4, <2>4 DEF Records, Alike
    <3>2. /\ Start(d, types, m) \in Nat /\ Start(d, types, n) \in Nat /\ GetFlatSize(types[m]) \in Nat
          /\ Start(d, types, m) + GetFlatSize(types[m]) <= Start(d, types, n)
      BY <1>1, <1>4, <3>1, RecordSlots DEF RecordsInv
    <3>3. /\ Loc(m) = 8 * (p + q) + Start(d, types, m)
          /\ Loc(n) = 8 * (p + q) + Start(d, types, n)
          /\ Extent(types[m]) = GetFlatSize(types[m])
      BY <1>4, <2>4, <1>9 DEF Extent, KindOf
    <3>. QED
      BY <1>0, <3>2, <3>3
  <2>. QED
    BY <1>3, <2>2, <2>3, <2>4 DEF SlotKinds
\* Numbers come before references, and references before records.
<1>5. ASSUME NEW m \in 1..Len(types)
      PROVE  /\ KindOf(types, m) = "PRIMITIVE" => End(m) <= 8 * p
             /\ KindOf(types, m) = "REFERENCE" =>
                  Loc(m) >= 8 * p /\ End(m) <= 8 * (p + q)
             /\ KindOf(types, m) = "RECORD" => Loc(m) >= 8 * (p + q)
  <2>1. CASE KindOf(types, m) = "PRIMITIVE"
    <3>1. SlotOf(types, m) \in 0..(p - 1) /\ Loc(m) = 8 * SlotOf(types, m) /\ Extent(types[m]) = 8
      BY <2>1, <1>2, <1>9 DEF Extent, KindOf, Word, Count
    <3>. QED
      BY <1>0, <2>1, <3>1
  <2>2. CASE KindOf(types, m) = "REFERENCE"
    <3>1. /\ SlotOf(types, m) \in 0..(q - 1)
          /\ Loc(m) = 8 * p + 8 * SlotOf(types, m)
      BY <2>2, <1>2, <1>9 DEF Count
    <3>2. Extent(types[m]) = 8
      BY <2>2 DEF Extent, KindOf, Word
    <3>3. Loc(m) >= 8 * p /\ End(m) <= 8 * (p + q)
      <4>1. PICK k \in 0..(q - 1) : k = SlotOf(types, m)
        BY <3>1
      <4>2. Loc(m) = 8 * p + 8 * k /\ End(m) = 8 * p + 8 * k + 8
        BY <1>0, <3>1, <3>2, <4>1
      <4>3. 8 * p + 8 * k >= 8 * p /\ 8 * p + 8 * k + 8 <= 8 * (p + q)
        OBVIOUS
      <4>. QED
        BY <4>2, <4>3
    <3>. QED
      BY <2>2, <3>3
  <2>3. CASE KindOf(types, m) = "RECORD"
    <3>1. m \in Records(d, types) /\ Loc(m) = 8 * (p + q) + Start(d, types, m)
      BY <1>1, <2>3, <1>9 DEF Records, Alike
    <3>2. Start(d, types, m) \in Nat
      BY <1>1, <3>1, RecordSlots
    <3>. QED
      BY <1>0, <1>2, <2>3, <3>1, <3>2
  <2>. QED
    BY <1>3, <2>1, <2>2, <2>3 DEF SlotKinds
<1>6. \A m \in 1..Len(types) : Loc(m) \in Nat /\ End(m) \in Nat
  <2> SUFFICES ASSUME NEW m \in 1..Len(types) PROVE Loc(m) \in Nat /\ End(m) \in Nat
    OBVIOUS
  <2>1. Loc(m) \in Nat /\ Extent(types[m]) \in Nat
    BY InsideBundle DEF Loc
  <2>. QED
    BY <1>0, <2>1
<1>7. CASE KindOf(types, i) = KindOf(types, j)
  <2>1. i < j \/ j < i
    BY <1>3
  <2>2. End(i) <= Loc(j) \/ End(j) <= Loc(i)
    BY <1>4, <1>7, <2>1
  <2>. QED
    BY <2>2 DEF Loc, End
<1>8. CASE KindOf(types, i) # KindOf(types, j)
  <2>1. PICK a \in Nat, b \in Nat : a = 8 * p /\ b = 8 * (p + q) /\ a <= b
    OBVIOUS
  <2>2. End(i) <= Loc(j) \/ End(j) <= Loc(i)
    BY <1>3, <1>5, <1>6, <1>8, <2>1 DEF SlotKinds
  <2>. QED
    BY <2>2 DEF Loc, End
<1>. QED
  BY <1>7, <1>8

\* The collector is shown the places of the references in all fields.
InField(b, types, i) ==
  IF KindOf(types, i) = "PRIMITIVE" THEN {}
  ELSE IF KindOf(types, i) = "REFERENCE" THEN {GetLocation(b, types, i)}
  ELSE {GetLocation(b, types, i) + o : o \in FillRefOffsets[types[i]]}

LEMMA VisitIsComplete ==
  ASSUME OffsetsAreThoseOfReferences,
         NEW types \in Seq(Types), NEW d, NEW builder, Complete(d, types)
  PROVE  VisitRefLocations(Built(d, builder)) =
           UNION {InField(Built(d, builder), types, i) : i \in 1..Len(types)}
<1> DEFINE b == Built(d, builder)
<1>1. d \in Draft /\ SlotsInv(d, types) /\ RecordsInv(d, types) /\ d.next - 1 = Len(types)
  BY DEF Complete, DraftInv
<1>2. d.prims \in Nat /\ d.refs \in Nat /\ d.references \subseteq Nat
  BY <1>1 DEF Draft
<1>3. VisitRefLocations(b) = {8 * d.prims + 8 * k : k \in 0..(d.refs - 1)}
                               \cup {8 * (d.prims + d.refs) + o : o \in d.references}
  BY <1>2 DEF VisitRefLocations, Built, BeginOfRecords, Word
<1>4. ASSUME NEW x \in VisitRefLocations(b)
      PROVE  \E i \in 1..Len(types) : x \in InField(b, types, i)
  <2>1. CASE x \in {8 * d.prims + 8 * k : k \in 0..(d.refs - 1)}
    <3>1. PICK k \in 0..(d.refs - 1) : x = 8 * d.prims + 8 * k
      BY <2>1
    <3>2. PICK i \in 1..Len(types) : KindOf(types, i) = "REFERENCE" /\ SlotOf(types, i) = k
      BY <1>1, <3>1 DEF SlotsInv, SlotKinds, Count
    <3>3. GetLocation(b, types, i) = x
      BY <3>1, <3>2, Locations
    <3>. QED
      BY <3>2, <3>3 DEF InField
  <2>2. CASE x \in {8 * (d.prims + d.refs) + o : o \in d.references}
    <3>1. PICK r \in d.references : x = 8 * (d.prims + d.refs) + r
      BY <2>2
    <3>2. PICK i \in Records(d, types) : r \in Inner(d, types, i)
      BY <1>1, <3>1 DEF RecordsInv
    <3>3. i \in 1..Len(types) /\ KindOf(types, i) = "RECORD" /\ Start(d, types, i) \in Nat
      BY <1>1, <3>2, RecordSlots
    <3>4. PICK o \in FillRefOffsets[types[i]] : r = Start(d, types, i) + o
      BY <3>2 DEF Inner
    <3>5. o \in Nat
      BY <3>3, <3>4 DEF OffsetsAreThoseOfReferences, KindOf
    <3>6. x = GetLocation(b, types, i) + o
      <4>0. PICK words \in Nat : words = d.prims + d.refs
        BY <1>2
      <4>1. PICK loc, start, base :
              loc = GetLocation(b, types, i) /\ start = Start(d, types, i) /\ base = 8 * words
        OBVIOUS
      <4>2. loc = base + start
        BY <3>3, <4>0, <4>1, Locations
      <4>3. x = base + (start + o)
        BY <3>1, <3>4, <4>0, <4>1
      <4>. QED
        <5>1. start \in Nat
          BY <3>3, <4>1
        <5>2. base \in Nat
          BY <4>0, <4>1
        <5>. QED
          BY <3>5, <4>1, <4>2, <4>3, <5>1, <5>2
    <3>. QED
      BY <3>3, <3>4, <3>6 DEF InField
  <2>. QED
    BY <1>3, <2>1, <2>2
<1>5. ASSUME NEW i \in 1..Len(types), NEW x \in InField(b, types, i)
      PROVE  x \in VisitRefLocations(b)
  <2>1. CASE KindOf(types, i) = "REFERENCE"
    <3>1. SlotOf(types, i) \in 0..(d.refs - 1) /\ x = 8 * d.prims + 8 * SlotOf(types, i)
      BY <2>1, Locations DEF InField, Count
    <3>. QED
      BY <1>3, <3>1
  <2>2. CASE KindOf(types, i) = "RECORD"
    <3>1. PICK o \in FillRefOffsets[types[i]] : x = GetLocation(b, types, i) + o
      BY <2>2 DEF InField
    <3>2. i \in Records(d, types)
      BY <1>1, <2>2 DEF Records, Alike
    <3>3. Start(d, types, i) \in Nat /\ o \in Nat
      BY <1>1, <2>2, <3>1, <3>2, RecordSlots DEF OffsetsAreThoseOfReferences, KindOf
    <3>4. Start(d, types, i) + o \in d.references
      BY <1>1, <3>1, <3>2 DEF RecordsInv, Inner
    <3>5. x = 8 * (d.prims + d.refs) + (Start(d, types, i) + o)
      BY <1>2, <2>2, <3>1, <3>3, Locations
    <3>. QED
      BY <1>3, <3>4, <3>5
  <2>3. CASE KindOf(types, i) = "PRIMITIVE"
    BY <2>3 DEF InField
  <2>. QED
    BY <2>1, <2>2, <2>3, KindsOfSlots DEF SlotKinds, KindOf
<1>. QED
  BY <1>4, <1>5

--------------------------------------------------------------------------------
(***************************************************************************)
(* The threads and the collector.  A bundle is built by one thread, since  *)
(* the mutex is held from the look-up to the publication, and does not     *)
(* change after that; the collector holds the mutex for its whole visit.   *)
(***************************************************************************)

Ref(r) == r = [owner |-> r.owner, path |-> r.path]

StaticRef(r) ==
  /\ Ref(r) /\ r.owner \in Owners
  /\ \E i \in DOMAIN fields[r.owner] : \E rest \in Leaves[fields[r.owner][i]] : r.path = <<i>> \o rest

ObjectRef(r) == Ref(r) /\ r.owner \in classes /\ r.path \in LeavesOfObject(r.owner)

\* The type and the place of the static field that a reference begins with.
FirstField(r) ==
  [type |-> fields[r.owner][r.path[1]],
   offset |-> GetLocation(bundles[r.owner], fields[r.owner], r.path[1])]

ProgramInv == fields \in [Owners -> Seq(Types)] /\ \E p \in Programs : classes = p.classes

BundlesInv ==
  /\ DOMAIN bundles \subseteq Owners
  /\ \A o \in DOMAIN bundles : \E d, builder :
       Complete(d, fields[o]) /\ bundles[o] = Built(d, builder)

ThreadInv(th) ==
  /\ pc[th] \in {"asked", "build", "locate"} => StaticRef(request[th])
  /\ pc[th] = "build" =>
       request[th].owner \notin DOMAIN bundles /\ DraftInv(draft[th], fields[request[th].owner])
  /\ pc[th] = "locate" => request[th].owner \in DOMAIN bundles
  /\ pc[th] = "path" =>
       \/ /\ StaticRef(request[th]) /\ request[th].owner \in DOMAIN bundles
          /\ at[th] = FirstField(request[th])
       \/ ObjectRef(request[th]) /\ at[th] = [type |-> request[th].owner, offset |-> 0]

\* The answer to reference r that begins at the place first and goes on along path.
IsAnswer(a, first, path) ==
  LET end == ResolveMulti(first.type, path)
  IN /\ a.type = end.type
     /\ a.offset = IF end.offset = Unknown THEN Unknown ELSE first.offset + end.offset

AnswerInv(a) ==
  \/ /\ StaticRef(a.ref) /\ a.ref.owner \in DOMAIN bundles
     /\ a.memory = bundles[a.ref.owner].memory
     /\ IsAnswer(a, FirstField(a.ref), Tail(a.ref.path))
  \/ /\ ObjectRef(a.ref) /\ a.memory = a.ref.owner
     /\ IsAnswer(a, [type |-> a.ref.owner, offset |-> 0], a.ref.path)

VisitInv ==
  /\ DOMAIN visit = {"left", "seen", "on"}
  /\ visit.on => /\ visit.left \subseteq DOMAIN bundles
                 /\ visit.seen = UNION {{o} \X VisitRefLocations(bundles[o])
                                          : o \in DOMAIN bundles \ visit.left}

IInv ==
  /\ LockInv /\ ProgramInv /\ BundlesInv /\ VisitInv
  /\ DOMAIN request = Threads /\ DOMAIN draft = Threads /\ DOMAIN at = Threads
  /\ \A th \in Threads : ThreadInv(th)
  /\ \A a \in answers : AnswerInv(a)

LEMMA InitInv == Init => IInv
<1> SUFFICES ASSUME Init PROVE IInv
  OBVIOUS
<1>1. LockInv
  BY InitLock
<1>2. ProgramInv
  BY ProgramsAssumption DEF Init, ProgramInv
<1>3. BundlesInv
  BY DEF Init, BundlesInv
<1>4. VisitInv
  BY DEF Init, VisitInv, NoVisit
<1>5. DOMAIN request = Threads /\ DOMAIN draft = Threads /\ DOMAIN at = Threads /\ answers = {}
  BY DEF Init
<1>6. \A th \in Threads : ThreadInv(th)
  BY DEF Init, ThreadInv
<1>. QED
  BY <1>1, <1>2, <1>3, <1>4, <1>5, <1>6 DEF IInv

\* The program stays, and bundles are only added.
Grows ==
  /\ UNCHANGED program
  /\ DOMAIN bundles \subseteq DOMAIN bundles'
  /\ \A o \in DOMAIN bundles : bundles'[o] = bundles[o]

LEMMA RefsStay ==
  ASSUME UNCHANGED program, NEW r
  PROVE  (StaticRef(r) <=> StaticRef(r)') /\ (ObjectRef(r) <=> ObjectRef(r)')
  BY DEF program, StaticRef, ObjectRef

LEMMA FirstFieldStays ==
  ASSUME Grows, NEW r, r.owner \in DOMAIN bundles
  PROVE  FirstField(r)' = FirstField(r)
  BY DEF Grows, program, FirstField

LEMMA AnswersStay ==
  ASSUME Grows, NEW a, AnswerInv(a)
  PROVE  AnswerInv(a)'
<1>1. CASE /\ StaticRef(a.ref) /\ a.ref.owner \in DOMAIN bundles
           /\ a.memory = bundles[a.ref.owner].memory
           /\ IsAnswer(a, FirstField(a.ref), Tail(a.ref.path))
  <2>1. FirstField(a.ref)' = FirstField(a.ref) /\ StaticRef(a.ref)'
    BY <1>1, FirstFieldStays, RefsStay DEF Grows
  <2>2. IsAnswer(a, FirstField(a.ref)', Tail(a.ref.path))
    BY <1>1, <2>1
  <2>3. IsAnswer(a, FirstField(a.ref), Tail(a.ref.path))'
    BY <2>2 DEF IsAnswer
  <2>4. a.ref.owner \in DOMAIN bundles' /\ a.memory = bundles'[a.ref.owner].memory
    BY <1>1 DEF Grows
  <2>. QED
    BY <2>1, <2>3, <2>4 DEF AnswerInv
<1>2. CASE /\ ObjectRef(a.ref) /\ a.memory = a.ref.owner
           /\ IsAnswer(a, [type |-> a.ref.owner, offset |-> 0], a.ref.path)
  <2>1. ObjectRef(a.ref)'
    BY <1>2, RefsStay DEF Grows
  <2>. QED
    BY <1>2, <2>1 DEF AnswerInv, IsAnswer
<1>. QED
  BY <1>1, <1>2 DEF AnswerInv

\* A thread that does nothing while bundles are added, none under its hands.
LEMMA ThreadsStay ==
  ASSUME Grows, NEW th, ThreadInv(th),
         pc'[th] = pc[th], request'[th] = request[th], draft'[th] = draft[th], at'[th] = at[th],
         pc[th] = "build" => DOMAIN bundles' = DOMAIN bundles
  PROVE  ThreadInv(th)'
<1>1. UNCHANGED <<fields, classes>> /\ DOMAIN bundles \subseteq DOMAIN bundles'
  BY DEF Grows, program
<1>2. \A r : (StaticRef(r) <=> StaticRef(r)') /\ (ObjectRef(r) <=> ObjectRef(r)')
  BY RefsStay DEF Grows
<1>3. PICK r : r = request[th]
  OBVIOUS
<1>4. pc[th] \in {"asked", "build", "locate"} => StaticRef(r)'
  BY <1>2, <1>3 DEF ThreadInv
<1>5. pc[th] = "build" => r.owner \notin DOMAIN bundles' /\ DraftInv(draft'[th], fields'[r.owner])
  BY <1>1, <1>3 DEF ThreadInv
<1>6. pc[th] = "locate" => r.owner \in DOMAIN bundles'
  BY <1>1, <1>3 DEF ThreadInv
<1>7. pc[th] = "path" =>
        \/ StaticRef(r)' /\ r.owner \in DOMAIN bundles' /\ at'[th] = FirstField(r)'
        \/ ObjectRef(r)' /\ at'[th] = [type |-> r.owner, offset |-> 0]
  BY <1>1, <1>2, <1>3, FirstFieldStays DEF ThreadInv
<1>8. request'[th] = r
  BY <1>3
<1>. QED
  BY <1>4, <1>5, <1>6, <1>7, <1>8 DEF ThreadInv, DraftInv, SlotsInv, RecordsInv

\* What the other threads keep.
Alone(th) ==
  /\ DOMAIN request' = Threads /\ DOMAIN draft' = Threads /\ DOMAIN at' = Threads
  /\ \A u \in Threads \ {th} :
       pc'[u] = pc[u] /\ request'[u] = request[u] /\ draft'[u] = draft[u] /\ at'[u] = at[u]

LEMMA OneMoves ==
  ASSUME IInv, LockInv', NEW th \in Threads, Alone(th), Grows, BundlesInv', VisitInv', ThreadInv(th)',
         DOMAIN bundles' = DOMAIN bundles \/ \A u \in Threads \ {th} : pc[u] # "build",
         \A a \in answers' \ answers : AnswerInv(a)'
  PROVE  IInv'
<1>1. ProgramInv'
  BY DEF IInv, ProgramInv, Grows, program
<1>2. ASSUME NEW u \in Threads \ {th} PROVE ThreadInv(u)'
  <2>1. ThreadInv(u)
    BY DEF IInv
  <2>2. /\ pc'[u] = pc[u] /\ request'[u] = request[u] /\ draft'[u] = draft[u] /\ at'[u] = at[u]
        /\ pc[u] = "build" => DOMAIN bundles' = DOMAIN bundles
    BY DEF Alone
  <2>. QED
    BY <2>1, <2>2, ThreadsStay
<1>3. ASSUME NEW u \in Threads PROVE ThreadInv(u)'
  <2>1. CASE u = th
    BY <2>1
  <2>2. CASE u # th
    BY <1>2, <2>2
  <2>. QED
    BY <2>1, <2>2
<1>4. ASSUME NEW a \in answers' PROVE AnswerInv(a)'
  <2>1. CASE a \in answers
    BY <2>1, AnswersStay DEF IInv
  <2>2. CASE a \notin answers
    BY <2>2
  <2>. QED
    BY <2>1, <2>2
<1>5. DOMAIN request' = Threads /\ DOMAIN draft' = Threads /\ DOMAIN at' = Threads
  BY DEF Alone
<1>6. \A u \in Threads : ThreadInv(u)'
  BY <1>3
<1>7. \A a \in answers' : AnswerInv(a)'
  BY <1>4
<1>. QED
  BY <1>1, <1>5, <1>6, <1>7 DEF IInv

\* A step that leaves the bundles alone.
LEMMA BundlesStay ==
  ASSUME UNCHANGED <<program, bundles>>
  PROVE  Grows /\ (BundlesInv => BundlesInv')
<1>1. Grows /\ UNCHANGED <<fields, bundles>>
  BY DEF Grows, program
<1>2. ASSUME BundlesInv, NEW o \in DOMAIN bundles'
      PROVE  \E d, builder : Complete(d, fields'[o]) /\ bundles'[o] = Built(d, builder)
  BY <1>1, <1>2 DEF BundlesInv
<1>3. ASSUME BundlesInv PROVE BundlesInv'
  <2>1. DOMAIN bundles' \subseteq Owners
    BY <1>1, <1>3 DEF BundlesInv
  <2>2. BundlesInv
    BY <1>3
  <2>3. \A o \in DOMAIN bundles' :
          \E d, builder : Complete(d, fields'[o]) /\ bundles'[o] = Built(d, builder)
    BY <1>2, <2>2
  <2>. QED
    BY <2>1, <2>3 DEF BundlesInv
<1>. QED
  BY <1>1, <1>3

LEMMA VisitStays ==
  ASSUME UNCHANGED <<bundles, visit>>, VisitInv
  PROVE  VisitInv'
  BY DEF VisitInv, VisitRefLocations

\* A thread moves and leaves bundles, answers and the visit alone.
LEMMA MovesAlone ==
  ASSUME IInv, LockInv', NEW th \in Threads, Alone(th), ThreadInv(th)',
         UNCHANGED <<program, bundles, visit, answers>>
  PROVE  IInv'
<1>1. BundlesInv' /\ Grows /\ VisitInv'
  BY BundlesStay, VisitStays DEF IInv
<1>2. answers' \ answers = {} /\ DOMAIN bundles' = DOMAIN bundles
  OBVIOUS
<1>. QED
  BY <1>1, <1>2, OneMoves

LEMMA AskStaticInv ==
  ASSUME IInv, LockInv', NEW th \in Threads, AskStatic(th)
  PROVE  IInv'
<1>1. PICK o \in Owners : \E i \in DOMAIN fields[o] : \E rest \in Leaves[fields[o][i]] :
        request' = [request EXCEPT ![th] = [owner |-> o, path |-> <<i>> \o rest]]
  BY DEF AskStatic
<1>2. PICK i \in DOMAIN fields[o] : \E rest \in Leaves[fields[o][i]] :
        request' = [request EXCEPT ![th] = [owner |-> o, path |-> <<i>> \o rest]]
  BY <1>1
<1>0. PICK rest \in Leaves[fields[o][i]] :
        request' = [request EXCEPT ![th] = [owner |-> o, path |-> <<i>> \o rest]]
  BY <1>2
<1>3. pc[th] = "idle" /\ pc' = [pc EXCEPT ![th] = "asked"]
  BY DEF AskStatic, Go, Goto
<1>4. UNCHANGED <<program, bundles, visit, answers>> /\ UNCHANGED <<draft, at>>
  BY DEF AskStatic
<1>5. PICK r : r = [owner |-> o, path |-> <<i>> \o rest]
  OBVIOUS
<1>6. StaticRef(r)
  BY <1>5 DEF StaticRef, Ref
<1>7. Alone(th) /\ request'[th] = r /\ pc'[th] = "asked"
  BY <1>0, <1>3, <1>4, <1>5 DEF Alone, IInv, LockInv
<1>8. ThreadInv(th)'
  <2>1. StaticRef(r)'
    BY <1>4, <1>6, RefsStay
  <2>. QED
    BY <1>7, <2>1 DEF ThreadInv
<1>. QED
  BY <1>4, <1>7, <1>8, MovesAlone

LEMMA AskInstanceInv ==
  ASSUME IInv, LockInv', NEW th \in Threads, AskInstance(th)
  PROVE  IInv'
<1>0. PICK t \in classes : \E path \in LeavesOfObject(t) :
        /\ request' = [request EXCEPT ![th] = [owner |-> t, path |-> path]]
        /\ at' = [at EXCEPT ![th] = [type |-> t, offset |-> 0]]
  BY DEF AskInstance
<1>1. PICK path \in LeavesOfObject(t) :
        /\ request' = [request EXCEPT ![th] = [owner |-> t, path |-> path]]
        /\ at' = [at EXCEPT ![th] = [type |-> t, offset |-> 0]]
  BY <1>0
<1>2. pc' = [pc EXCEPT ![th] = "path"] /\ UNCHANGED <<program, bundles, visit, answers>> /\ draft' = draft
  BY DEF AskInstance, Goto
<1>3. PICK r : r = [owner |-> t, path |-> path]
  OBVIOUS
<1>4. ObjectRef(r) /\ r.owner = t
  BY <1>3 DEF ObjectRef, Ref
<1>5. Alone(th) /\ request'[th] = r /\ pc'[th] = "path" /\ at'[th] = [type |-> r.owner, offset |-> 0]
  BY <1>1, <1>2, <1>3, <1>4 DEF Alone, IInv, LockInv
<1>6. ThreadInv(th)'
  <2>1. ObjectRef(r)'
    BY <1>2, <1>4, RefsStay
  <2>. QED
    BY <1>5, <2>1 DEF ThreadInv
<1>. QED
  BY <1>2, <1>5, <1>6, MovesAlone

LEMMA LockStepInv ==
  ASSUME IInv, LockInv', NEW th \in Threads, Lock(th)
  PROVE  IInv'
<1>1. PICK r : r = request[th]
  OBVIOUS
<1>2. /\ pc[th] = "asked"
      /\ pc' = [pc EXCEPT ![th] = IF r.owner \in DOMAIN bundles THEN "locate" ELSE "build"]
      /\ draft' = [draft EXCEPT ![th] = EmptyDraft]
  BY <1>1 DEF Lock, Go, Goto
<1>3. UNCHANGED <<program, bundles, visit, answers>> /\ UNCHANGED <<request, at>>
  BY DEF Lock
<1>4. /\ Alone(th) /\ request'[th] = r /\ draft'[th] = EmptyDraft
      /\ pc'[th] = IF r.owner \in DOMAIN bundles THEN "locate" ELSE "build"
  BY <1>1, <1>2, <1>3 DEF Alone, IInv, LockInv
<1>5. StaticRef(r)
  BY <1>1, <1>2 DEF IInv, ThreadInv
<1>6. DraftInv(EmptyDraft, fields[r.owner])
  <2>1. fields[r.owner] \in Seq(Types)
    BY <1>5 DEF IInv, ProgramInv, StaticRef
  <2>. QED
    BY <2>1, EmptyDraftInv
<1>7. ThreadInv(th)'
  <2>1. StaticRef(r)'
    BY <1>3, <1>5, RefsStay
  <2>2. pc'[th] = "build" => r.owner \notin DOMAIN bundles' /\ DraftInv(draft'[th], fields'[r.owner])
    BY <1>3, <1>4, <1>6 DEF program
  <2>3. pc'[th] = "locate" => r.owner \in DOMAIN bundles'
    BY <1>3, <1>4
  <2>4. pc'[th] # "path"
    BY <1>4
  <2>. QED
    BY <1>4, <2>1, <2>2, <2>3, <2>4 DEF ThreadInv, DraftInv, SlotsInv, RecordsInv
<1>. QED
  BY <1>3, <1>4, <1>7, MovesAlone

\* The bundle under construction after one more field.
Added(d, t) ==
  LET kind == ComputeSlotKind(t)
  IN CASE kind = "REFERENCE" -> [d EXCEPT !.next = @ + 1, !.refs = @ + 1]
       [] kind = "PRIMITIVE" -> [d EXCEPT !.next = @ + 1, !.prims = @ + 1]
       [] kind = "RECORD" -> WithRecord(d, t)

LEMMA AddedInv ==
  ASSUME SizesAreKnown, OffsetsAreThoseOfReferences,
         NEW types \in Seq(Types), NEW d, DraftInv(d, types), d.next <= Len(types),
         ComputeSlotKind(types[d.next]) # "RECORD" \/ GetFlatSize(types[d.next]) # Unknown
  PROVE  DraftInv(Added(d, types[d.next]), types)
<1>1. d \in Draft /\ d.next \in Nat \ {0} /\ Len(types) \in Nat
  BY FieldToAdd DEF DraftInv
<1>2. PICK t \in Types : t = types[d.next]
  BY <1>1
<1>3. KindOf(types, d.next) = ComputeSlotKind(t)
  BY <1>2 DEF KindOf
<1>4. CASE ComputeSlotKind(t) = "RECORD"
  <2>1. GetFlatSize(t) \in Nat /\ FillRefOffsets[t] \subseteq Nat
    BY <1>2, <1>4 DEF SizesAreKnown, OffsetsAreThoseOfReferences
  <2>2. Added(d, t) = WithRecord(d, t)
    BY <1>4 DEF Added
  <2>. QED
    BY <1>2, <1>3, <1>4, <2>1, <2>2, AddsRecord
<1>5. CASE ComputeSlotKind(t) = "REFERENCE"
  <2>1. PICK e : e = [d EXCEPT !.next = @ + 1, !.refs = @ + 1]
    OBVIOUS
  <2>0. PICK next \in Nat, count \in Nat : next = d.next + 1 /\ count = d.refs + 1
    BY <1>1 DEF Draft
  <2>5. e = [d EXCEPT !.next = next, !.refs = count]
    BY <2>0, <2>1
  <2>6. d \in Draft
    BY <1>1
  <2>2. /\ e \in Draft /\ e.next = d.next + 1 /\ e.refs = d.refs + 1 /\ e.prims = d.prims
        /\ e.size = d.size /\ e.records = d.records /\ e.references = d.references
    BY <2>0, <2>5, <2>6 DEF Draft
  <2>3. \A K \in SlotKinds :
          Count(e, K) = IF K = KindOf(types, d.next) THEN Count(d, K) + 1 ELSE Count(d, K)
    BY <1>3, <1>5, <2>2 DEF Count, SlotKinds
  <2>4. DraftInv(e, types)
    BY <1>3, <1>5, <2>2, <2>3, AddsWord
  <2>. QED
    BY <1>2, <1>5, <2>1, <2>4 DEF Added
<1>6. CASE ComputeSlotKind(t) = "PRIMITIVE"
  <2>1. PICK e : e = [d EXCEPT !.next = @ + 1, !.prims = @ + 1]
    OBVIOUS
  <2>0. PICK next \in Nat, count \in Nat : next = d.next + 1 /\ count = d.prims + 1
    BY <1>1 DEF Draft
  <2>5. e = [d EXCEPT !.next = next, !.prims = count]
    BY <2>0, <2>1
  <2>6. d \in Draft
    BY <1>1
  <2>2. /\ e \in Draft /\ e.next = d.next + 1 /\ e.prims = d.prims + 1 /\ e.refs = d.refs
        /\ e.size = d.size /\ e.records = d.records /\ e.references = d.references
    BY <2>0, <2>5, <2>6 DEF Draft
  <2>3. \A K \in SlotKinds :
          Count(e, K) = IF K = KindOf(types, d.next) THEN Count(d, K) + 1 ELSE Count(d, K)
    BY <1>3, <1>6, <2>2 DEF Count, SlotKinds
  <2>4. DraftInv(e, types)
    BY <1>3, <1>6, <2>2, <2>3, AddsWord
  <2>. QED
    BY <1>2, <1>6, <2>1, <2>4 DEF Added
<1>. QED
  BY <1>4, <1>5, <1>6, KindsOfSlots DEF SlotKinds

LEMMA AddStaticInv ==
  ASSUME SizesAreKnown, OffsetsAreThoseOfReferences,
         IInv, LockInv', NEW th \in Threads, AddStatic(th)
  PROVE  IInv'
<1>1. PICK r, d, types : r = request[th] /\ d = draft[th] /\ types = fields[r.owner]
  OBVIOUS
<1>2. /\ pc[th] = "build" /\ d.next <= Len(types)
      /\ ComputeSlotKind(types[d.next]) # "RECORD" \/ GetFlatSize(types[d.next]) # Unknown
  BY <1>1 DEF AddStatic, Go
<1>3. draft' = [draft EXCEPT ![th] = Added(d, types[d.next])]
  BY <1>1 DEF AddStatic, Added, WithRecord
<1>4. UNCHANGED <<program, bundles, visit, answers>> /\ UNCHANGED <<pc, request, at>>
  BY DEF AddStatic
<1>5. /\ StaticRef(r) /\ r.owner \notin DOMAIN bundles /\ DraftInv(d, types)
  BY <1>1, <1>2 DEF IInv, ThreadInv
<1>6. types \in Seq(Types)
  BY <1>1, <1>5 DEF IInv, ProgramInv, StaticRef
<1>7. DraftInv(Added(d, types[d.next]), types)
  BY <1>2, <1>5, <1>6, AddedInv
<1>8. /\ Alone(th) /\ request'[th] = r /\ pc'[th] = "build"
      /\ draft'[th] = Added(d, types[d.next])
  BY <1>1, <1>2, <1>3, <1>4 DEF Alone, IInv
<1>9. ThreadInv(th)'
  <2>1. StaticRef(r)' /\ fields' = fields /\ bundles' = bundles
    BY <1>4, <1>5, RefsStay DEF program
  <2>2. r.owner \notin DOMAIN bundles' /\ DraftInv(draft'[th], fields'[r.owner])
    BY <1>1, <1>5, <1>7, <1>8, <2>1
  <2>. QED
    BY <1>8, <2>1, <2>2 DEF ThreadInv, DraftInv, SlotsInv, RecordsInv
<1>. QED
  BY <1>4, <1>8, <1>9, MovesAlone

\* A thread that gives up, and steps of others.
LEMMA NothingMoves ==
  ASSUME IInv, LockInv', VisitInv', UNCHANGED <<program, bundles, pc, request, draft, at, answers>>
  PROVE  IInv'
<1>1. BundlesInv' /\ Grows
  BY BundlesStay DEF IInv
<1>2. ProgramInv'
  BY DEF IInv, ProgramInv, program
<1>3. ASSUME NEW u \in Threads PROVE ThreadInv(u)'
  BY <1>1, ThreadsStay DEF IInv
<1>4. ASSUME NEW a \in answers' PROVE AnswerInv(a)'
  BY <1>1, AnswersStay DEF IInv
<1>5. \A u \in Threads : ThreadInv(u)'
  BY <1>3
<1>6. \A a \in answers' : AnswerInv(a)'
  BY <1>4
<1>. QED
  BY <1>1, <1>2, <1>5, <1>6 DEF IInv

LEMMA PublishInv ==
  ASSUME IInv, LockInv', NEW th \in Threads, Publish(th)
  PROVE  IInv'
<1>1. PICK r, d, types : r = request[th] /\ d = draft[th] /\ types = fields[r.owner]
  OBVIOUS
<1>2. /\ pc[th] = "build" /\ d.next > Len(types)
      /\ pc' = [pc EXCEPT ![th] = "locate"]
      /\ bundles' = [o \in DOMAIN bundles \cup {r.owner} |->
                       IF o \in DOMAIN bundles THEN bundles[o] ELSE Built(d, th)]
  BY <1>1 DEF Publish, Go, Goto
<1>3. UNCHANGED <<program, visit, answers>> /\ UNCHANGED <<request, draft, at>>
  BY DEF Publish
<1>4. StaticRef(r) /\ r.owner \notin DOMAIN bundles /\ DraftInv(d, types)
  BY <1>1, <1>2 DEF IInv, ThreadInv
<1>5. types \in Seq(Types) /\ r.owner \in Owners
  BY <1>1, <1>4 DEF IInv, ProgramInv, StaticRef
<1>6. Complete(d, types)
  <2>1. d.next \in 1..(Len(types) + 1) /\ Len(types) \in Nat
    BY <1>4, <1>5 DEF DraftInv, SlotsInv
  <2>. QED
    BY <1>2, <1>4, <2>1 DEF Complete
<1>7. Grows /\ fields' = fields
  BY <1>2, <1>3 DEF Grows, program
<1>8. BundlesInv'
  <2>1. DOMAIN bundles' \subseteq Owners
    BY <1>2, <1>5 DEF IInv, BundlesInv
  <2>2. ASSUME NEW o \in DOMAIN bundles'
        PROVE  \E dd, builder : Complete(dd, fields'[o]) /\ bundles'[o] = Built(dd, builder)
    <3>1. CASE o \in DOMAIN bundles
      <4>1. bundles'[o] = bundles[o] /\ fields'[o] = fields[o]
        BY <1>7, <3>1 DEF Grows
      <4>2. \E dd, builder : Complete(dd, fields[o]) /\ bundles[o] = Built(dd, builder)
        BY <3>1 DEF IInv, BundlesInv
      <4>. QED
        BY <4>1, <4>2
    <3>2. CASE o \notin DOMAIN bundles
      <4>1. o = r.owner /\ bundles'[o] = Built(d, th) /\ fields'[o] = types
        BY <1>1, <1>2, <1>7, <3>2
      <4>. QED
        BY <1>6, <4>1
    <3>. QED
      BY <3>1, <3>2
  <2>3. \A o \in DOMAIN bundles' :
          \E dd, builder : Complete(dd, fields'[o]) /\ bundles'[o] = Built(dd, builder)
    BY <2>2
  <2>. QED
    BY <2>1, <2>3 DEF BundlesInv
<1>9. lock = th /\ ~visit.on /\ \A u \in Threads \ {th} : pc[u] # "build"
  BY <1>2, ActorsDiffer DEF IInv, LockInv
<1>10. VisitInv'
  BY <1>3, <1>9 DEF IInv, VisitInv
<1>11. Alone(th) /\ request'[th] = r /\ pc'[th] = "locate"
  BY <1>1, <1>2, <1>3 DEF Alone, IInv, LockInv
<1>12. ThreadInv(th)'
  <2>1. StaticRef(r)' /\ r.owner \in DOMAIN bundles'
    BY <1>2, <1>3, <1>4, RefsStay
  <2>. QED
    BY <1>11, <2>1 DEF ThreadInv
<1>13. answers' \ answers = {}
  BY <1>3
<1>. QED
  BY <1>7, <1>8, <1>9, <1>10, <1>11, <1>12, <1>13, OneMoves

LEMMA LocateInv ==
  ASSUME IInv, LockInv', NEW th \in Threads, Locate(th)
  PROVE  IInv'
<1>1. PICK r : r = request[th]
  OBVIOUS
<1>2. /\ pc[th] = "locate" /\ pc' = [pc EXCEPT ![th] = "path"]
      /\ at' = [at EXCEPT ![th] = FirstField(r)]
  BY <1>1 DEF Locate, Go, Goto, FirstField
<1>3. UNCHANGED <<program, bundles, visit, answers>> /\ UNCHANGED <<request, draft>>
  BY DEF Locate
<1>4. StaticRef(r) /\ r.owner \in DOMAIN bundles
  BY <1>1, <1>2 DEF IInv, ThreadInv
<1>5. Alone(th) /\ request'[th] = r /\ pc'[th] = "path" /\ at'[th] = FirstField(r)
  BY <1>1, <1>2, <1>3 DEF Alone, IInv, LockInv
<1>6. ThreadInv(th)'
  <2>1. StaticRef(r)' /\ r.owner \in DOMAIN bundles'
    BY <1>3, <1>4, RefsStay
  <2>2. at'[th] = FirstField(r)'
    BY <1>3, <1>4, <1>5, BundlesStay, FirstFieldStays
  <2>. QED
    BY <1>5, <2>1, <2>2 DEF ThreadInv
<1>. QED
  BY <1>3, <1>5, <1>6, MovesAlone

LEMMA AnswerStepInv ==
  ASSUME IInv, LockInv', NEW th \in Threads, Answer(th)
  PROVE  IInv'
<1>1. PICK r : r = request[th]
  OBVIOUS
<1>2. PICK path, first :
        path = (IF r.owner \in Owners THEN Tail(r.path) ELSE r.path) /\ first = at[th]
  OBVIOUS
<1> USE DEF PathOf
<1>3. PICK end : end = ResolveMulti(first.type, path)
  OBVIOUS
<1>4. PICK a : a = [ref |-> r, type |-> end.type,
                    offset |-> IF end.offset = Unknown THEN Unknown ELSE first.offset + end.offset,
                    memory |-> IF r.owner \in Owners THEN bundles[r.owner].memory ELSE r.owner]
  OBVIOUS
<1>5. answers' = answers \cup {a}
  BY <1>1, <1>2, <1>3, <1>4 DEF Answer
<1>6. pc[th] = "path" /\ pc' = [pc EXCEPT ![th] = "idle"]
  BY DEF Answer, Go, Goto
<1>7. /\ at' = [at EXCEPT ![th] = Nowhere] /\ request' = [request EXCEPT ![th] = NoRequest]
      /\ draft' = [draft EXCEPT ![th] = EmptyDraft]
      /\ UNCHANGED <<program, bundles, visit>>
  BY DEF Answer
<1>8. IsAnswer(a, first, path) /\ a.ref = r
      /\ a.memory = (IF r.owner \in Owners THEN bundles[r.owner].memory ELSE r.owner)
  BY <1>3, <1>4 DEF IsAnswer
<1>9. AnswerInv(a)
  <2>1. CASE StaticRef(r) /\ r.owner \in DOMAIN bundles /\ at[th] = FirstField(r)
    <3>1. r.owner \in Owners
      BY <1>2, <2>1 DEF StaticRef
    <3>. QED
      BY <1>2, <1>8, <2>1, <3>1 DEF AnswerInv
  <2>2. CASE ObjectRef(r) /\ at[th] = [type |-> r.owner, offset |-> 0]
    <3>1. r.owner \notin Owners
      <4>1. r.owner \in classes /\ \E p \in Programs : classes = p.classes
        BY <2>2 DEF ObjectRef, IInv, ProgramInv
      <4>2. \A p \in Programs : p.classes \subseteq Types \ Owners
        BY ProgramsAssumption
      <4>. QED
        BY <4>1, <4>2
    <3>. QED
      BY <1>2, <1>8, <2>2, <3>1 DEF AnswerInv
  <2>. QED
    BY <1>1, <1>6, <2>1, <2>2 DEF IInv, ThreadInv
<1>10. Alone(th) /\ pc'[th] = "idle"
  BY <1>6, <1>7 DEF Alone, IInv, LockInv
<1>11. ThreadInv(th)'
  BY <1>10 DEF ThreadInv
<1>12. Grows /\ BundlesInv' /\ VisitInv' /\ DOMAIN bundles' = DOMAIN bundles
  BY <1>7, BundlesStay, VisitStays DEF IInv
<1>13. \A b \in answers' \ answers : AnswerInv(b)'
  <2>1. AnswerInv(a)'
    BY <1>9, <1>12, AnswersStay
  <2>. QED
    BY <1>5, <2>1
<1>. QED
  BY <1>10, <1>11, <1>12, <1>13, OneMoves

LEMMA VisitStepInv ==
  ASSUME IInv, LockInv', Visit
  PROVE  IInv'
<1>1. UNCHANGED <<program, bundles, pc, request, draft, at, answers>>
  BY DEF Visit, StartVisit, VisitBundle, EndVisit
<1>2. CASE StartVisit
  <2>1. visit' = [left |-> DOMAIN bundles', seen |-> {}, on |-> TRUE]
    BY <1>1, <1>2 DEF StartVisit
  <2>2. VisitInv'
    BY <2>1 DEF VisitInv
  <2>. QED
    BY <1>1, <2>2, NothingMoves
<1>3. CASE VisitBundle
  <2>1. PICK o \in visit.left :
          visit' = [visit EXCEPT !.left = @ \ {o},
                                 !.seen = @ \cup ({o} \X VisitRefLocations(bundles[o]))]
    BY <1>3 DEF VisitBundle
  <2>2. visit.on /\ VisitInv
    BY <1>3 DEF VisitBundle, IInv
  <2>3. PICK left, seen : left = visit.left /\ seen = visit.seen
    OBVIOUS
  <2>4. /\ DOMAIN visit' = {"left", "seen", "on"} /\ visit'.left = left \ {o}
        /\ visit'.seen = seen \cup ({o} \X VisitRefLocations(bundles[o]))
    BY <2>1, <2>2, <2>3 DEF VisitInv
  <2>5. /\ left \subseteq DOMAIN bundles /\ o \in left
        /\ seen = UNION {{q} \X VisitRefLocations(bundles[q]) : q \in DOMAIN bundles \ left}
    BY <2>2, <2>3 DEF VisitInv
  <2>6. DOMAIN bundles \ (left \ {o}) = (DOMAIN bundles \ left) \cup {o}
    BY <2>5
  <2>7. visit'.seen = UNION {{q} \X VisitRefLocations(bundles[q]) : q \in DOMAIN bundles \ (left \ {o})}
    BY <2>4, <2>5, <2>6
  <2>8. bundles' = bundles
    BY <1>1
  <2>9. VisitInv'
    BY <2>4, <2>5, <2>7, <2>8 DEF VisitInv, VisitRefLocations
  <2>. QED
    BY <1>1, <2>9, NothingMoves
<1>4. CASE EndVisit
  <2>1. visit' = NoVisit
    BY <1>4 DEF EndVisit
  <2>2. VisitInv'
    BY <2>1 DEF VisitInv, NoVisit
  <2>. QED
    BY <1>1, <2>2, NothingMoves
<1>. QED
  BY <1>2, <1>3, <1>4 DEF Visit

LEMMA NextInv ==
  ASSUME SizesAreKnown, OffsetsAreThoseOfReferences, IInv, [Next]_vars
  PROVE  IInv'
<1>1. LockInv'
  BY NextLock DEF IInv
<1>2. ASSUME NEW th \in Threads, AskStatic(th) PROVE IInv'
  BY <1>1, <1>2, AskStaticInv
<1>3. ASSUME NEW th \in Threads, AskInstance(th) PROVE IInv'
  BY <1>1, <1>3, AskInstanceInv
<1>4. ASSUME NEW th \in Threads, Lock(th) PROVE IInv'
  BY <1>1, <1>4, LockStepInv
<1>5. ASSUME NEW th \in Threads, AddStatic(th) PROVE IInv'
  BY <1>1, <1>5, AddStaticInv
<1>6. ASSUME NEW th \in Threads, Publish(th) PROVE IInv'
  BY <1>1, <1>6, PublishInv
<1>7. ASSUME NEW th \in Threads, Locate(th) PROVE IInv'
  BY <1>1, <1>7, LocateInv
<1>8. ASSUME NEW th \in Threads, Answer(th) PROVE IInv'
  BY <1>1, <1>8, AnswerStepInv
<1>9. CASE Visit
  BY <1>1, <1>9, VisitStepInv
<1>10. CASE (\E th \in Threads : NoSize(th) \/ NoElement(th)) \/ EnterInfos \/ LeaveInfos \/ UNCHANGED vars
  <2>1. UNCHANGED <<program, bundles, pc, request, draft, at, answers, visit>>
    BY <1>10 DEF NoSize, NoElement, EnterInfos, LeaveInfos, vars
  <2>2. VisitInv'
    BY <2>1, VisitStays DEF IInv
  <2>. QED
    BY <1>1, <2>1, <2>2, NothingMoves
<1>. QED
  BY <1>2, <1>3, <1>4, <1>5, <1>6, <1>7, <1>8, <1>9, <1>10 DEF Next, Proceed

LEMMA Invariant ==
  ASSUME SizesAreKnown, OffsetsAreThoseOfReferences
  PROVE  Spec => []IInv
<1>1. Init => IInv
  BY InitInv
<1>2. IInv /\ [Next]_vars => IInv'
  BY NextInv
<1>. QED
  BY <1>1, <1>2, PTL DEF Spec

--------------------------------------------------------------------------------
\* What the collector is shown of one bundle.
LEMMA BundleIsSeen ==
  ASSUME SizesAreKnown, OffsetsAreThoseOfReferences, IInv, NEW o \in DOMAIN bundles
  PROVE  VisitRefLocations(bundles[o]) = ReferencesIn(o)
<1>1. PICK types : types = fields[o]
  OBVIOUS
<1>2. PICK d, builder : Complete(d, types) /\ bundles[o] = Built(d, builder)
  BY <1>1 DEF IInv, BundlesInv
<1>3. types \in Seq(Types) /\ DOMAIN types = 1..Len(types)
  BY <1>1 DEF IInv, BundlesInv, ProgramInv
<1>4. VisitRefLocations(bundles[o]) = UNION {InField(bundles[o], types, i) : i \in 1..Len(types)}
  BY <1>2, <1>3, VisitIsComplete
<1> DEFINE Held(i) == {GetLocation(bundles[o], types, i) + r : r \in References[types[i]]}
<1>5. ASSUME NEW i \in 1..Len(types)
      PROVE  InField(bundles[o], types, i) = Held(i)
  <2>1. GetLocation(bundles[o], types, i) \in Nat
    BY <1>2, <1>3, InsideBundle
  <2>2. types[i] \in Types
    BY <1>3
  <2>3. CASE ComputeSlotKind(types[i]) = "PRIMITIVE"
    <3>1. References[types[i]] = {}
      BY <2>2, <2>3 DEF OffsetsAreThoseOfReferences
    <3>. QED
      BY <2>3, <3>1 DEF InField, KindOf
  <2>4. CASE ComputeSlotKind(types[i]) = "REFERENCE"
    <3>1. References[types[i]] = {0}
      BY <2>2, <2>4 DEF OffsetsAreThoseOfReferences
    <3>2. Held(i) = {GetLocation(bundles[o], types, i)}
      BY <2>1, <3>1
    <3>. QED
      BY <2>4, <3>2 DEF InField, KindOf
  <2>5. CASE ComputeSlotKind(types[i]) = "RECORD"
    <3>1. References[types[i]] = FillRefOffsets[types[i]]
      BY <2>2, <2>5 DEF OffsetsAreThoseOfReferences
    <3>. QED
      BY <2>5, <3>1 DEF InField, KindOf
  <2>. QED
    BY <2>3, <2>4, <2>5, KindsOfSlots DEF SlotKinds
<1>6. ReferencesIn(o) = UNION {Held(i) : i \in 1..Len(types)}
  BY <1>1, <1>3 DEF ReferencesIn
<1>. QED
  BY <1>4, <1>5, <1>6

\* When the collector has gone through the bundles it has seen exactly the places
\* at which references to static fields find references (CreateBundle and
\* VisitRefLocations of statics_manager.cpp), for all threads and programs, if
\* the reference offsets of each single type are right.
THEOREM CollectorSees ==
  ASSUME SizesAreKnown, OffsetsAreThoseOfReferences
  PROVE  Spec => []CollectorSeesStatics
<1>1. IInv => CollectorSeesStatics
  <2> SUFFICES ASSUME IInv, visit.on, visit.left = {}
               PROVE  visit.seen = UNION {{o} \X ReferencesIn(o) : o \in DOMAIN bundles}
    BY DEF CollectorSeesStatics
  <2>1. visit.seen = UNION {{o} \X VisitRefLocations(bundles[o]) : o \in DOMAIN bundles}
    BY DEF IInv, VisitInv
  <2>2. \A o \in DOMAIN bundles : VisitRefLocations(bundles[o]) = ReferencesIn(o)
    BY BundleIsSeen
  <2>. QED
    BY <2>1, <2>2
<1>. QED
  BY <1>1, Invariant, PTL

--------------------------------------------------------------------------------
(***************************************************************************)
(* The answers.  The place of a static field's part is its place in the    *)
(* field's value, moved to where the field is in the bundle.               *)
(***************************************************************************)

\* The answer to a reference to the part rest of field i.
ToPart(a, i, rest) ==
  LET o == a.ref.owner
      end == ResolveMulti(fields[o][i], rest)
  IN /\ o \in DOMAIN bundles /\ i \in 1..Len(fields[o]) /\ fields[o][i] \in Types
     /\ a.ref = [owner |-> o, path |-> <<i>> \o rest]
     /\ a.ref.path[1] = i /\ Tail(a.ref.path) = rest
     /\ rest \in Placed(fields[o][i], Leaves[fields[o][i]])
     /\ a.memory = bundles[o].memory
     /\ a.type = end.type
     /\ a.offset = GetLocation(bundles[o], fields[o], i) + end.offset

LEMMA StaticAnswer ==
  ASSUME ValuesAreLaidOut, IInv, NEW a \in answers, a.offset # Unknown, a.ref.owner \in Owners
  PROVE  \E i, rest : ToPart(a, i, rest)
<1>1. PICK r, o, types : r = a.ref /\ o = r.owner /\ types = fields[o]
  OBVIOUS
<1>2. AnswerInv(a) /\ ~ObjectRef(r)
  <2>1. \E p \in Programs : classes = p.classes
    BY DEF IInv, ProgramInv
  <2>2. \A p \in Programs : p.classes \subseteq Types \ Owners
    BY ProgramsAssumption
  <2>3. r.owner \notin classes
    BY <1>1, <2>1, <2>2
  <2>. QED
    BY <2>3 DEF IInv, ObjectRef
<1>3. /\ StaticRef(r) /\ o \in DOMAIN bundles /\ a.memory = bundles[o].memory
      /\ IsAnswer(a, FirstField(r), Tail(r.path))
  BY <1>1, <1>2 DEF AnswerInv
<1>4. types \in Seq(Types) /\ DOMAIN types = 1..Len(types)
  BY <1>1, <1>3 DEF StaticRef, IInv, ProgramInv
<1>5. PICK i \in 1..Len(types) : \E rest \in Leaves[types[i]] : r.path = <<i>> \o rest
  BY <1>1, <1>3, <1>4 DEF StaticRef
<1>6. PICK rest \in Leaves[types[i]] : r.path = <<i>> \o rest
  BY <1>5
<1>7. types[i] \in Types
  BY <1>4
<1>8. rest \in Seq(Nat)
  BY <1>7 DEF ValuesAreLaidOut
<1>9. r.path[1] = i /\ Tail(r.path) = rest
  <2>1. i \in Nat
    OBVIOUS
  <2>2. <<i>> \in Seq(Nat) /\ Len(<<i>>) = 1
    BY <2>1
  <2>. QED
    BY <1>6, <1>8, <2>1, <2>2
<1>10. FirstField(r) = [type |-> types[i], offset |-> GetLocation(bundles[o], types, i)]
  BY <1>1, <1>9 DEF FirstField
<1>11. PICK end : end = ResolveMulti(types[i], rest)
  OBVIOUS
<1>12. /\ a.type = end.type
       /\ a.offset = IF end.offset = Unknown THEN Unknown
                     ELSE GetLocation(bundles[o], types, i) + end.offset
  <2>1. PICK loc, first : loc = GetLocation(bundles[o], types, i) /\ first = FirstField(r)
    OBVIOUS
  <2>2. first.type = types[i] /\ first.offset = loc
    BY <1>10, <2>1
  <2>3. IsAnswer(a, first, rest)
    BY <1>3, <1>9, <2>1
  <2>4. a.type = end.type /\ a.offset = IF end.offset = Unknown THEN Unknown ELSE loc + end.offset
    BY <1>11, <2>2, <2>3 DEF IsAnswer
  <2>. QED
    BY <2>1, <2>4
<1>13. end.offset # Unknown
  BY <1>12
<1>14. rest \in Placed(types[i], Leaves[types[i]])
  BY <1>11, <1>13 DEF Placed
<1>15. r = [owner |-> o, path |-> <<i>> \o rest]
  BY <1>1, <1>3, <1>6 DEF StaticRef, Ref
<1>. QED
  BY <1>1, <1>3, <1>7, <1>9, <1>11, <1>12, <1>13, <1>14, <1>15 DEF ToPart

ToFieldOf(a, t) ==
  LET end == ResolveMulti(t, a.ref.path)
  IN /\ a.ref = [owner |-> t, path |-> a.ref.path]
     /\ a.ref.path \in Placed(t, LeavesOfObject(t))
     /\ a.memory = t
     /\ a.type = end.type
     /\ a.offset = 0 + end.offset

LEMMA ObjectAnswer ==
  ASSUME IInv, NEW a \in answers, a.offset # Unknown, a.ref.owner \notin Owners
  PROVE  a.ref.owner \in classes /\ ToFieldOf(a, a.ref.owner)
<1>1. PICK r, t, path : r = a.ref /\ t = r.owner /\ path = r.path
  OBVIOUS
<1>2. AnswerInv(a) /\ ~StaticRef(r)
  BY <1>1 DEF IInv, StaticRef
<1>3. ObjectRef(r) /\ a.memory = t /\ IsAnswer(a, [type |-> t, offset |-> 0], path)
  BY <1>1, <1>2 DEF AnswerInv
<1>4. PICK end : end = ResolveMulti(t, path)
  OBVIOUS
<1>5. a.type = end.type /\ a.offset = IF end.offset = Unknown THEN Unknown ELSE 0 + end.offset
  BY <1>3, <1>4 DEF IsAnswer
<1>6. end.offset # Unknown
  BY <1>5
<1>7. path \in Placed(t, LeavesOfObject(t))
  BY <1>1, <1>3, <1>4, <1>6 DEF Placed, ObjectRef
<1>8. r = [owner |-> t, path |-> path]
  BY <1>1, <1>3 DEF ObjectRef, Ref
<1>. QED
  BY <1>1, <1>3, <1>4, <1>5, <1>6, <1>7, <1>8 DEF ToFieldOf, ObjectRef

\* What is aligned within a value stays aligned at a multiple of eight.
LEMMA StaysAligned ==
  ASSUME NEW loc \in Nat, loc % 8 = 0, NEW offset \in Nat, NEW alignment \in {1, 2, 4, 8},
         offset % alignment = 0
  PROVE  (loc + offset) % alignment = 0
<1>1. PICK p \in Nat : loc = 8 * p
  <2>1. loc = 8 * (loc \div 8) /\ loc \div 8 \in Nat
    BY SMT
  <2>. QED
    BY <2>1
<1>2. CASE alignment = 1
  BY <1>2
<1>3. CASE alignment = 2
  BY <1>1, <1>3
<1>4. CASE alignment = 4
  BY <1>1, <1>4
<1>5. CASE alignment = 8
  BY <1>1, <1>5
<1>. QED
  BY <1>2, <1>3, <1>4, <1>5

\* The answer to a part lies in its field, aligned, and apart from other parts.
LEMMA PartOfField ==
  ASSUME SizesAreKnown, ValuesAreLaidOut, IInv, NEW a, NEW i, NEW rest, ToPart(a, i, rest)
  PROVE  LET o == a.ref.owner
             t == fields[o][i]
             loc == GetLocation(bundles[o], fields[o], i)
         IN /\ loc \in Nat /\ GetFlatSize(t) \in Int
            /\ \A x \in Place(a) : x - loc \in PlaceIn(t, rest) /\ x \in loc..(loc + GetFlatSize(t) - 1)
            /\ PackedOn(t, rest) \/ GetFlatSize(a.type) = Unknown \/ a.offset % GetFlatAlignment(a.type) = 0
<1>1. PICK o, types, t : o = a.ref.owner /\ types = fields[o] /\ t = types[i]
  OBVIOUS
<1>2. PICK end : end = ResolveMulti(t, rest)
  OBVIOUS
<1>3. PICK loc : loc = GetLocation(bundles[o], types, i)
  OBVIOUS
<1>4. /\ o \in DOMAIN bundles /\ i \in 1..Len(types) /\ t \in Types
      /\ rest \in Placed(t, Leaves[t]) /\ a.type = end.type /\ a.offset = loc + end.offset
  BY <1>1, <1>2, <1>3 DEF ToPart
<1>5. LaidOut(t, Leaves[t], 0..(GetFlatSize(t) - 1))
  BY <1>4 DEF ValuesAreLaidOut
<1>6. /\ end.offset \in Nat /\ end.type \in Types
      /\ PlaceIn(t, rest) \subseteq 0..(GetFlatSize(t) - 1)
      /\ \/ PackedOn(t, rest) \/ GetFlatSize(end.type) = Unknown
         \/ GetFlatAlignment(end.type) \in {1, 2, 4, 8} /\ end.offset % GetFlatAlignment(end.type) = 0
  BY <1>2, <1>4, <1>5 DEF LaidOut
<1>7. loc \in Nat /\ loc % 8 = 0
  <2>1. PICK d, builder : Complete(d, types) /\ bundles[o] = Built(d, builder)
    BY <1>1, <1>4 DEF IInv, BundlesInv
  <2>2. types \in Seq(Types)
    BY <1>1, <1>4 DEF IInv, BundlesInv, ProgramInv
  <2>. QED
    BY <1>3, <1>4, <2>1, <2>2, InsideBundle
<1>8. PICK size \in Int, whole \in Int : size = GetFlatSize(end.type) /\ whole = GetFlatSize(t)
  BY <1>4, <1>6 DEF SizesAreKnown, Unknown
<1>9. PICK off \in Nat : off = end.offset
  BY <1>6
<1>10. PlaceIn(t, rest) = off..(off + size - 1)
  BY <1>2, <1>8, <1>9 DEF PlaceIn
<1>11. Place(a) = (loc + off)..(loc + off + size - 1)
  BY <1>4, <1>8, <1>9 DEF Place
<1>12. off..(off + size - 1) \subseteq 0..(whole - 1)
  BY <1>6, <1>8, <1>10
<1>13. ASSUME NEW x \in Place(a)
       PROVE  x - loc \in PlaceIn(t, rest) /\ x \in loc..(loc + whole - 1)
  <2>1. x \in (loc + off)..(loc + off + size - 1)
    BY <1>11
  <2>2. x \in Int /\ x - loc \in off..(off + size - 1)
    BY <1>7, <2>1
  <2>3. x - loc \in 0..(whole - 1)
    BY <1>12, <2>2
  <2>. QED
    BY <1>7, <1>10, <2>2, <2>3
<1>14. PackedOn(t, rest) \/ GetFlatSize(a.type) = Unknown \/ a.offset % GetFlatAlignment(a.type) = 0
  BY <1>4, <1>6, <1>7, StaysAligned
<1>. QED
  BY <1>1, <1>3, <1>7, <1>8, <1>13, <1>14

\* Answers to different parts of one owner's static fields are apart.
LEMMA StaticsAreApart ==
  ASSUME SizesAreKnown, ValuesAreLaidOut, IInv,
         NEW a \in answers, a.offset # Unknown, a.ref.owner \in Owners,
         NEW b \in answers, b.offset # Unknown, b.ref.owner = a.ref.owner, b.ref # a.ref
  PROVE  Place(a) \cap Place(b) = {} /\ a.memory = b.memory
<1>1. PICK o, types, bundle : o = a.ref.owner /\ types = fields[o] /\ bundle = bundles[o]
  OBVIOUS
<1>2. PICK i, rest : ToPart(a, i, rest)
  BY StaticAnswer
<1>3. PICK j, other : ToPart(b, j, other)
  BY StaticAnswer
<1>4. /\ o \in DOMAIN bundles /\ i \in 1..Len(types) /\ j \in 1..Len(types)
      /\ types[i] \in Types /\ a.memory = b.memory
      /\ rest \in Placed(types[i], Leaves[types[i]]) /\ other \in Placed(types[j], Leaves[types[j]])
  BY <1>1, <1>2, <1>3 DEF ToPart
<1>5. PICK li, lj, ti, tj : /\ li = GetLocation(bundle, types, i) /\ ti = types[i]
                            /\ lj = GetLocation(bundle, types, j) /\ tj = types[j]
  OBVIOUS
<1>6. /\ li \in Nat /\ GetFlatSize(ti) \in Int
      /\ \A x \in Place(a) : x - li \in PlaceIn(ti, rest) /\ x \in li..(li + GetFlatSize(ti) - 1)
  BY <1>1, <1>2, <1>5, PartOfField
<1>7. /\ lj \in Nat /\ GetFlatSize(tj) \in Int
      /\ \A x \in Place(b) : x - lj \in PlaceIn(tj, other) /\ x \in lj..(lj + GetFlatSize(tj) - 1)
  BY <1>1, <1>3, <1>5, PartOfField
<1>8. CASE i = j
  <2>1. rest # other
    BY <1>2, <1>3, <1>8 DEF ToPart
  <2>2. LaidOut(ti, Leaves[ti], 0..(GetFlatSize(ti) - 1))
    BY <1>4, <1>5 DEF ValuesAreLaidOut
  <2>3. PlaceIn(ti, rest) \cap PlaceIn(ti, other) = {}
    BY <1>4, <1>5, <1>8, <2>1, <2>2 DEF LaidOut
  <2>4. \A x : ~(x \in Place(a) /\ x \in Place(b))
    BY <1>5, <1>6, <1>7, <1>8, <2>3
  <2>. QED
    BY <1>4, <2>4
<1>9. CASE i # j
  <2>1. PICK d, builder : Complete(d, types) /\ bundle = Built(d, builder)
    BY <1>1, <1>4 DEF IInv, BundlesInv
  <2>2. types \in Seq(Types)
    BY <1>1, <1>4 DEF IInv, BundlesInv, ProgramInv
  <2>3. /\ Extent(ti) \in Nat /\ GetFlatSize(ti) <= Extent(ti)
        /\ Extent(tj) \in Nat /\ GetFlatSize(tj) <= Extent(tj)
    BY <1>4, <1>5, <2>1, <2>2, InsideBundle
  <2>4. li + Extent(ti) <= lj \/ lj + Extent(tj) <= li
    BY <1>4, <1>5, <1>9, <2>1, <2>2, ApartInBundle
  <2>5. \A x : ~(x \in Place(a) /\ x \in Place(b))
    <3>1. PICK ei \in Nat, ej \in Nat, si \in Int, sj \in Int :
            /\ ei = Extent(ti) /\ ej = Extent(tj) /\ si = GetFlatSize(ti) /\ sj = GetFlatSize(tj)
      BY <1>6, <1>7, <2>3
    <3>2. si <= ei /\ sj <= ej /\ (li + ei <= lj \/ lj + ej <= li)
      BY <2>3, <2>4, <3>1
    <3>3. li..(li + si - 1) \cap lj..(lj + sj - 1) = {}
      BY <1>6, <1>7, <3>1, <3>2
    <3>4. \A x : (x \in Place(a) => x \in li..(li + si - 1)) /\ (x \in Place(b) => x \in lj..(lj + sj - 1))
      BY <1>6, <1>7, <3>1
    <3>. QED
      BY <3>3, <3>4
  <2>. QED
    BY <1>4, <2>5
<1>. QED
  BY <1>8, <1>9

LEMMA StaticIsInside ==
  ASSUME SizesAreKnown, ValuesAreLaidOut, IInv,
         NEW a \in answers, a.offset # Unknown, a.ref.owner \in Owners
  PROVE  /\ a.memory = bundles[a.ref.owner].memory
         /\ Place(a) \subseteq 0..bundles[a.ref.owner].size - 1
         /\ OnPacked(a.ref) \/ GetFlatSize(a.type) = Unknown \/ a.offset % GetFlatAlignment(a.type) = 0
<1>1. PICK o, types, bundle : o = a.ref.owner /\ types = fields[o] /\ bundle = bundles[o]
  OBVIOUS
<1>2. PICK i, rest : ToPart(a, i, rest)
  BY StaticAnswer
<1>3. /\ o \in DOMAIN bundles /\ i \in 1..Len(types) /\ a.memory = bundle.memory
      /\ a.ref.path[1] = i /\ Tail(a.ref.path) = rest
  BY <1>1, <1>2 DEF ToPart
<1>4. PICK loc, t : loc = GetLocation(bundle, types, i) /\ t = types[i]
  OBVIOUS
<1>5. /\ loc \in Nat /\ GetFlatSize(t) \in Int
      /\ \A x \in Place(a) : x \in loc..(loc + GetFlatSize(t) - 1)
      /\ PackedOn(t, rest) \/ GetFlatSize(a.type) = Unknown \/ a.offset % GetFlatAlignment(a.type) = 0
  BY <1>1, <1>2, <1>4, PartOfField
<1>6. PICK d, builder : Complete(d, types) /\ bundle = Built(d, builder)
  BY <1>1, <1>3 DEF IInv, BundlesInv
<1>7. types \in Seq(Types)
  BY <1>1, <1>3 DEF IInv, BundlesInv, ProgramInv
<1>8. /\ Extent(t) \in Nat /\ GetFlatSize(t) <= Extent(t) /\ loc + Extent(t) <= bundle.size
  BY <1>3, <1>4, <1>6, <1>7, InsideBundle
<1>9. bundle.size \in Nat
  <2>1. d \in Draft
    BY <1>6 DEF Complete, DraftInv
  <2>. QED
    BY <1>6, <2>1 DEF Built, BeginOfRecords, Draft, Word
<1>10. Place(a) \subseteq 0..bundle.size - 1
  <2>1. PICK extent \in Nat, size \in Int, end \in Nat :
          extent = Extent(t) /\ size = GetFlatSize(t) /\ end = bundle.size
    BY <1>5, <1>8, <1>9
  <2>2. loc..(loc + size - 1) \subseteq 0..end - 1
    BY <1>5, <1>8, <2>1
  <2>. QED
    BY <1>5, <2>1, <2>2
<1>11. OnPacked(a.ref) = PackedOn(t, rest)
  BY <1>1, <1>3, <1>4 DEF OnPacked
<1>. QED
  BY <1>1, <1>3, <1>5, <1>10, <1>11

\* Answers about the fields of objects: what the layout of the class says.
LEMMA ObjectsAreApart ==
  ASSUME ObjectsAreLaidOut, IInv, NEW a \in answers, a.offset # Unknown, a.ref.owner \notin Owners
  PROVE  /\ \A x \in Place(a) : x >= ObjectHeaderSize
         /\ OnPacked(a.ref) \/ GetFlatSize(a.type) = Unknown \/ a.offset % GetFlatAlignment(a.type) = 0
         /\ \A b \in answers : b.ref # a.ref /\ b.ref.owner = a.ref.owner /\ b.offset # Unknown =>
              Place(a) \cap Place(b) = {} /\ a.memory = b.memory
<1>1. PICK t, path : t = a.ref.owner /\ path = a.ref.path
  OBVIOUS
<1>2. t \in classes /\ ToFieldOf(a, t)
  BY <1>1, ObjectAnswer
<1>3. LaidOut(t, LeavesOfObject(t), {x \in Nat : x >= ObjectHeaderSize})
  BY <1>2 DEF ObjectsAreLaidOut, IInv, ProgramInv
<1>4. ASSUME NEW b \in answers, ToFieldOf(b, t)
      PROVE  Place(b) = PlaceIn(t, b.ref.path) /\ b.ref.path \in Placed(t, LeavesOfObject(t))
  <2>1. PICK end : end = ResolveMulti(t, b.ref.path)
    OBVIOUS
  <2>2. b.type = end.type /\ b.offset = 0 + end.offset /\ b.ref.path \in Placed(t, LeavesOfObject(t))
    BY <1>4, <2>1 DEF ToFieldOf
  <2>3. end.offset \in Nat
    BY <1>3, <2>1, <2>2 DEF LaidOut
  <2>. QED
    BY <2>1, <2>2, <2>3 DEF Place, PlaceIn
<1>5. Place(a) = PlaceIn(t, path) /\ path \in Placed(t, LeavesOfObject(t))
  BY <1>1, <1>2, <1>4
<1>6. PICK end : end = ResolveMulti(t, path)
  OBVIOUS
<1>7. /\ end.offset \in Nat /\ PlaceIn(t, path) \subseteq {x \in Nat : x >= ObjectHeaderSize}
      /\ PackedOn(t, path) \/ GetFlatSize(end.type) = Unknown \/ end.offset % GetFlatAlignment(end.type) = 0
  BY <1>3, <1>5, <1>6 DEF LaidOut
<1>8. a.type = end.type /\ a.offset = end.offset
  BY <1>1, <1>2, <1>6, <1>7 DEF ToFieldOf
<1>9. OnPacked(a.ref) = PackedOn(t, path)
  BY <1>1 DEF OnPacked
<1>10. ASSUME NEW b \in answers, b.ref # a.ref, b.ref.owner = t, b.offset # Unknown
       PROVE  Place(a) \cap Place(b) = {} /\ a.memory = b.memory
  <2>1. ToFieldOf(b, t)
    BY <1>1, <1>10, ObjectAnswer
  <2>2. b.ref.path # path
    BY <1>1, <1>2, <1>10, <2>1 DEF ToFieldOf
  <2>3. PlaceIn(t, path) \cap PlaceIn(t, b.ref.path) = {}
    BY <1>3, <1>4, <1>5, <2>1, <2>2 DEF LaidOut
  <2>4. a.memory = b.memory
    BY <1>2, <2>1 DEF ToFieldOf
  <2>. QED
    BY <1>4, <1>5, <2>1, <2>3, <2>4
<1>. QED
  BY <1>1, <1>5, <1>7, <1>8, <1>9, <1>10

\* Answered references to different parts of one owner denote places that do not
\* overlap, in one memory, inside it and aligned (CreateBundle and GetLocation of
\* statics_manager.cpp, ResolveMultiFieldRef of resolution.cpp), for all threads
\* and programs, if the layout of each single type is right.
THEOREM FieldsApart ==
  ASSUME SizesAreKnown, ValuesAreLaidOut, ObjectsAreLaidOut, OffsetsAreThoseOfReferences
  PROVE  Spec => []FieldsAreApart
<1>1. IInv => FieldsAreApart
  <2> SUFFICES ASSUME IInv, NEW a \in answers, a.offset # Unknown
               PROVE  /\ a.ref.owner \in Owners =>
                           /\ a.memory = bundles[a.ref.owner].memory
                           /\ Place(a) \subseteq 0..bundles[a.ref.owner].size - 1
                      /\ a.ref.owner \in classes => \A x \in Place(a) : x >= ObjectHeaderSize
                      /\ \/ OnPacked(a.ref) \/ GetFlatSize(a.type) = Unknown
                         \/ a.offset % GetFlatAlignment(a.type) = 0
                      /\ \A b \in answers :
                           b.ref # a.ref /\ b.ref.owner = a.ref.owner /\ b.offset # Unknown =>
                             Place(a) \cap Place(b) = {} /\ a.memory = b.memory
    BY DEF FieldsAreApart
  <2>1. CASE a.ref.owner \in Owners
    <3>1. a.ref.owner \notin classes
      <4>1. \E p \in Programs : classes = p.classes
        BY DEF IInv, ProgramInv
      <4>2. \A p \in Programs : p.classes \subseteq Types \ Owners
        BY ProgramsAssumption
      <4>. QED
        BY <2>1, <4>1, <4>2
    <3>. QED
      BY <2>1, <3>1, StaticIsInside, StaticsAreApart
  <2>2. CASE a.ref.owner \notin Owners
    BY <2>2, ObjectsAreApart
  <2>. QED
    BY <2>1, <2>2
<1>. QED
  BY <1>1, Invariant, PTL

================================================================================
