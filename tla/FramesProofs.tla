----------------------------- MODULE FramesProofs -----------------------------
(***************************************************************************)
(* What a frame put into a register or a slot is found again by the frame, *)
(* by the collector and by the expansion of the stack, for any registers,  *)
(* methods and bounds on the stack, provided that every instruction that   *)
(* may throw has a state point.                                            *)
(*                                                                         *)
(* The argument: a place of a frame is a word of the frame or a register.  *)
(* What the frame put into a register is in the register file until a      *)
(* younger frame that uses the register saves it, and then in that frame,  *)
(* the first of the younger ones to do so; a later one saves what is in    *)
(* the register by then, which is of a younger frame.  Entering a frame    *)
(* adds a keeper at the end and leaving it puts the register back, so a    *)
(* step changes the place of a value of the older frames only together     *)
(* with the value.  A walk of the runtime updates the words at the         *)
(* locations of the places whose kind it is for, and no word of another.   *)
(***************************************************************************)
EXTENDS Frames, SequenceTheorems, WellFoundedInduction, TLAPS

USE DEF Regs, Words, Places, Depth
------------------------------------------------------------------------------
\* What a frame may hold: kinds in some of the places.
Holding == UNION {[P -> Kinds] : P \in SUBSET Places}

\* A frame as the types of its fields have it; WellFormed says how they agree.
Frame == [method : Methods \cup Native, entered : BOOLEAN, saved : Seq(Word),
          words : [Words -> Word], holds : Holding, info : BOOLEAN]

TypeInv ==
  /\ mode \in {"run", "prologue", "grow", "unwind", "throw"}
  /\ regs \in [Regs -> Word] /\ dump \in [IRegs -> Word]
  /\ stack \in Seq(Frame) /\ Depth > 0
  /\ collections \in 0..MaxCollections /\ growths \in 0..MaxGrowths

\* What a frame is by itself.
WellFormed(f) ==
  /\ ~Interpreted(f) => ~f.entered /\ DOMAIN f.holds = {}
  /\ Interpreted(f) /\ ~f.entered => f.holds = Params[f.method]
  /\ Len(f.saved) = IF f.entered THEN Len(SaveList(f.method)) ELSE 0
  /\ \A p \in DOMAIN f.holds : f.holds[p] \in Values(p)
  /\ f.info

\* Which frame is the youngest in each phase of a call, a growth or an exception.
ModeInv ==
  /\ mode \in {"prologue", "grow"} => Interpreted(Top) /\ ~Top.entered
  /\ mode = "unwind" => Interpreted(Top)
  /\ mode = "throw" => ~Interpreted(Top)
  /\ mode = "run" /\ Interpreted(Top) => Top.entered
  /\ mode = "grow" => growths < MaxGrowths

\* The stack: compiled code first, and a frame that has called holds no volatile
\* register, unless it has called a service of the runtime, which keeps them.
ShapeInv ==
  /\ stack[1].method = "compiled"
  /\ \A d \in 1..Depth : WellFormed(stack[d])
  /\ \A d \in 1..(Depth - 1) :
       /\ stack[d].method \notin {"runtime", "thrower"}
       /\ Interpreted(stack[d]) => stack[d].entered
       /\ \/ (Top.method = "runtime" /\ d = Depth - 1)
          \/ DOMAIN stack[d].holds \cap Volatile = {}

\* The prologue has dumped the registers, and what is unwound from it restores them.
DumpInv ==
  mode = "grow" \/ (mode = "unwind" /\ ~Top.entered) => \A r \in IRegs : dump[r] = regs[r]

\* Frame f has saved register r, at this index.
Keeps(f, r) == Interpreted(f) /\ f.entered /\ r \in Elements(SaveList(f.method))

Index(m, r) == CHOOSE k \in DOMAIN SaveList(m) : SaveList(m)[k] = r

\* What frame d put into its place p, as it is now.
Kept(d, p) == Fresh(stack[d].holds[p], d, p)

\* Frame j is the first of those younger than d to have saved register p.
FirstKeeper(d, j, p) ==
  Keeps(stack[j], p) /\ \A i \in (d + 1)..(j - 1) : ~Keeps(stack[i], p)

\* What frame d put into its place p is in the frame, in the register, or in
\* the first of the younger frames that saved the register.
InPlace(d, p) ==
  /\ p \in Words => stack[d].words[p] = Kept(d, p)
  /\ p \in Regs =>
       /\ (\A j \in (d + 1)..Depth : ~Keeps(stack[j], p)) => regs[p] = Kept(d, p)
       /\ \A j \in (d + 1)..Depth :
            FirstKeeper(d, j, p) => stack[j].saved[Index(stack[j].method, p)] = Kept(d, p)

\* A record that was not written yet is zero.
RecordIsZero(d) ==
  stack[d].entered /\ RecSlot \notin DOMAIN stack[d].holds => stack[d].words[RecSlot] = Zero

ContentsInv ==
  \A d \in 1..Depth :
    /\ \A p \in DOMAIN stack[d].holds : InPlace(d, p)
    /\ RecordIsZero(d)

IInv == TypeInv /\ ShapeInv /\ ModeInv /\ DumpInv /\ ContentsInv
------------------------------------------------------------------------------
LEMMA SaveLists ==
  ASSUME NEW m \in Methods
  PROVE  /\ SaveList(m) \in Seq(Regs \ Volatile)
         /\ Injective(SaveList(m))
         /\ \A r \in Elements(SaveList(m)) :
              /\ r \in Regs \ Volatile
              /\ Index(m, r) \in DOMAIN SaveList(m) /\ SaveList(m)[Index(m, r)] = r
              /\ \A k \in DOMAIN SaveList(m) : SaveList(m)[k] = r => k = Index(m, r)
<1> DEFINE I == SavedIRegs[m]
           F == SavedFRegs[m]
<1>1. I \in Seq(IRegs \ Volatile) /\ Injective(I) /\ F \in Seq(FRegs \ Volatile) /\ Injective(F)
  BY MethodsAssumption
<1>2. IRegs \cap FRegs = {}
  BY RegistersAssumption
<1>. HIDE DEF I, F
<1>3. I \o F \in Seq(Regs \ Volatile)
  BY <1>1
<1>4. Injective(I \o F)
  <2>1. DOMAIN (I \o F) = 1..(Len(I) + Len(F)) /\ DOMAIN I = 1..Len(I) /\ DOMAIN F = 1..Len(F)
    BY <1>1
  <2>2. \A k \in 1..Len(I) : (I \o F)[k] = I[k] /\ I[k] \in IRegs
    BY <1>1
  <2>3. \A k \in (Len(I) + 1)..(Len(I) + Len(F)) :
          /\ (I \o F)[k] = F[k - Len(I)] /\ F[k - Len(I)] \in FRegs
          /\ k - Len(I) \in 1..Len(F)
    BY <1>1
  <2>4. Len(I) \in Nat /\ Len(F) \in Nat
    BY <1>1
  <2>5. SUFFICES ASSUME NEW j \in 1..(Len(I) + Len(F)), NEW k \in 1..(Len(I) + Len(F)), (I \o F)[j] = (I \o F)[k]
                 PROVE  j = k
    BY <2>1 DEF Injective
  <2>6. CASE j <= Len(I) /\ k <= Len(I)
    BY <1>1, <2>1, <2>2, <2>4, <2>5, <2>6 DEF Injective
  <2>7. CASE j > Len(I) /\ k > Len(I)
    <3>1. /\ j - Len(I) \in DOMAIN F /\ k - Len(I) \in DOMAIN F
          /\ F[j - Len(I)] = F[k - Len(I)]
      BY <2>1, <2>3, <2>4, <2>5, <2>7
    <3>2. j - Len(I) = k - Len(I)
      BY <1>1, <3>1 DEF Injective
    <3>. QED
      BY <3>2, <2>4
  <2>8. CASE (j <= Len(I) /\ k > Len(I)) \/ (j > Len(I) /\ k <= Len(I))
    BY <1>2, <2>2, <2>3, <2>4, <2>5, <2>8
  <2>. QED
    BY <2>4, <2>6, <2>7, <2>8
<1>5. SaveList(m) = I \o F
  BY DEF I, F, SaveList
<1>6. ASSUME NEW r \in Elements(SaveList(m))
      PROVE  /\ r \in Regs \ Volatile
             /\ Index(m, r) \in DOMAIN SaveList(m) /\ SaveList(m)[Index(m, r)] = r
             /\ \A k \in DOMAIN SaveList(m) : SaveList(m)[k] = r => k = Index(m, r)
  <2>1. PICK k \in DOMAIN SaveList(m) : r = SaveList(m)[k]
    BY DEF Elements
  <2>2. Index(m, r) \in DOMAIN SaveList(m) /\ SaveList(m)[Index(m, r)] = r
    BY <2>1 DEF Index
  <2>3. r \in Regs \ Volatile
    BY <2>1, <1>3, <1>5
  <2>. QED
    BY <2>2, <2>3, <1>4, <1>5 DEF Injective
<1>. QED
  BY <1>3, <1>4, <1>5, <1>6

\* Where the walk looks for an integer register is where the prologue put it.
LEMMA SavedIntegers ==
  ASSUME NEW m \in Methods, NEW r \in IRegs
  PROVE  /\ r \in Elements(SaveList(m)) <=> r \in Elements(SavedIRegs[m])
         /\ r \in Elements(SavedIRegs[m]) =>
              (CHOOSE k \in DOMAIN SavedIRegs[m] : SavedIRegs[m][k] = r) = Index(m, r)
<1> DEFINE I == SavedIRegs[m]
           F == SavedFRegs[m]
           L == SaveList(m)
<1>1. I \in Seq(IRegs \ Volatile) /\ F \in Seq(FRegs \ Volatile)
  BY MethodsAssumption
<1>2. r \notin FRegs
  BY RegistersAssumption
<1>3. L = I \o F
  BY DEF SaveList
<1>4. \A s \in Elements(L) : Index(m, s) \in DOMAIN L /\ L[Index(m, s)] = s
                           /\ \A k \in DOMAIN L : L[k] = s => k = Index(m, s)
  BY SaveLists
<1>. HIDE DEF I, F, L
<1>5. /\ DOMAIN L = 1..(Len(I) + Len(F)) /\ DOMAIN I = 1..Len(I) /\ DOMAIN F = 1..Len(F)
      /\ \A k \in DOMAIN I : L[k] = I[k] /\ k \in DOMAIN L
      /\ \A k \in DOMAIN L \ DOMAIN I : L[k] \in FRegs
  <2>1. Len(I) \in Nat /\ Len(F) \in Nat
    BY <1>1
  <2>2. ASSUME NEW k \in 1..(Len(I) + Len(F)), k \notin 1..Len(I)
        PROVE  (I \o F)[k] \in FRegs
    <3>1. (I \o F)[k] = F[k - Len(I)] /\ k - Len(I) \in 1..Len(F)
      BY <1>1, <2>1, <2>2
    <3>. QED
      BY <3>1, <1>1
  <2>. QED
    BY <1>1, <1>3, <2>1, <2>2
<1>6. r \in Elements(L) <=> r \in Elements(I)
  BY <1>2, <1>5 DEF Elements
<1>7. ASSUME r \in Elements(I)
      PROVE  (CHOOSE k \in DOMAIN I : I[k] = r) = Index(m, r)
  <2>1. PICK k \in DOMAIN I : I[k] = r
    BY <1>7 DEF Elements
  <2>2. \A j \in DOMAIN I : I[j] = r => j = Index(m, r)
    BY <1>4, <1>5, <1>6, <1>7
  <2>. QED
    BY <2>1, <2>2
<1>. QED
  BY <1>6, <1>7 DEF I, L
------------------------------------------------------------------------------
\* Nothing happens to a place of frame d: the younger frames keep what they
\* have saved, and a frame that is new has saved nothing.
LEMMA Stays ==
  ASSUME TypeInv, NEW d \in 1..Depth, NEW p \in DOMAIN stack[d].holds, InPlace(d, p),
         Depth' = Depth \/ (Depth' = Depth + 1 /\ ~stack'[Depth + 1].entered),
         \A j \in (d + 1)..Depth : /\ stack'[j].method = stack[j].method
                                   /\ stack'[j].entered = stack[j].entered
                                   /\ stack'[j].saved = stack[j].saved,
         stack'[d].holds[p] = stack[d].holds[p],
         p \in Words => stack'[d].words[p] = stack[d].words[p],
         p \in Regs => regs'[p] = regs[p] \/ \E j \in (d + 1)..Depth : Keeps(stack[j], p),
         UNCHANGED <<collections, growths>>
  PROVE  InPlace(d, p)'
<1>1. Depth \in Nat /\ Depth' \in Nat
  BY DEF TypeInv
<1>2. Kept(d, p)' = Kept(d, p)
  BY DEF Kept, Fresh, Epoch
<1>3. \A j \in (d + 1)..Depth : Keeps(stack'[j], p) <=> Keeps(stack[j], p)
  BY DEF Keeps, Interpreted
<1>4. \A j \in (d + 1)..Depth' : Keeps(stack'[j], p) => j \in (d + 1)..Depth
  BY <1>1 DEF Keeps
<1>5. ASSUME p \in Regs, \A j \in (d + 1)..Depth' : ~Keeps(stack'[j], p)
      PROVE  regs'[p] = Kept(d, p)'
  <2>1. \A j \in (d + 1)..Depth : ~Keeps(stack[j], p)
    BY <1>1, <1>3, <1>5
  <2>. QED
    BY <1>2, <1>5, <2>1 DEF InPlace
<1>6. ASSUME p \in Regs, NEW j \in (d + 1)..Depth', FirstKeeper(d, j, p)'
      PROVE  stack'[j].saved[Index(stack'[j].method, p)] = Kept(d, p)'
  <2>1. j \in (d + 1)..Depth /\ Keeps(stack[j], p)
    BY <1>3, <1>4, <1>6 DEF FirstKeeper
  <2>2. \A i \in (d + 1)..(j - 1) : ~Keeps(stack[i], p)
    BY <1>1, <1>3, <1>6, <2>1 DEF FirstKeeper
  <2>. QED
    BY <1>2, <1>6, <2>1, <2>2 DEF InPlace, FirstKeeper
<1>7. p \in Words => stack'[d].words[p] = Kept(d, p)'
  BY <1>2 DEF InPlace
<1>. QED
  BY <1>5, <1>6, <1>7 DEF InPlace

\* The youngest frame is left: a register it has saved gets its word back.
LEMMA Pops ==
  ASSUME TypeInv, Depth' = Depth - 1,
         NEW d \in 1..(Depth - 1), NEW p \in DOMAIN stack[d].holds, InPlace(d, p),
         \A j \in (d + 1)..(Depth - 1) : 
              /\ stack'[j].method = stack[j].method
              /\ stack'[j].entered = stack[j].entered
              /\ stack'[j].saved = stack[j].saved,
         stack'[d].holds[p] = stack[d].holds[p],
         p \in Words => stack'[d].words[p] = stack[d].words[p],
         p \in Regs =>
           regs'[p] = IF Keeps(Top, p) THEN Top.saved[Index(Top.method, p)] ELSE regs[p],
         UNCHANGED <<collections, growths>>
  PROVE  InPlace(d, p)'
<1>1. Depth \in Nat /\ d \in Nat /\ d < Depth
  BY DEF TypeInv
<1>2. Kept(d, p)' = Kept(d, p)
  BY DEF Kept, Fresh, Epoch
<1>3. \A j \in (d + 1)..(Depth - 1) : Keeps(stack'[j], p) <=> Keeps(stack[j], p)
  BY DEF Keeps, Interpreted
<1>4. ASSUME p \in Regs, \A j \in (d + 1)..Depth' : ~Keeps(stack'[j], p)
      PROVE  regs'[p] = Kept(d, p)'
  <2>1. \A j \in (d + 1)..(Depth - 1) : ~Keeps(stack[j], p)
    BY <1>1, <1>3, <1>4
  <2>2. CASE Keeps(Top, p)
    <3>1. FirstKeeper(d, Depth, p)
      BY <2>1, <2>2 DEF FirstKeeper, Top
    <3>. QED
      BY <1>1, <1>2, <1>4, <2>2, <3>1 DEF InPlace, Top
  <2>3. CASE ~Keeps(Top, p)
    <3>1. \A j \in (d + 1)..Depth : ~Keeps(stack[j], p)
      BY <1>1, <2>1, <2>3 DEF Top
    <3>. QED
      BY <1>2, <1>4, <2>3, <3>1 DEF InPlace
  <2>. QED
    BY <2>2, <2>3
<1>5. ASSUME p \in Regs, NEW j \in (d + 1)..Depth', FirstKeeper(d, j, p)'
      PROVE  stack'[j].saved[Index(stack'[j].method, p)] = Kept(d, p)'
  <2>1. j \in (d + 1)..(Depth - 1) /\ j \in (d + 1)..Depth /\ Keeps(stack[j], p)
    BY <1>1, <1>3, <1>5 DEF FirstKeeper
  <2>2. \A i \in (d + 1)..(j - 1) : ~Keeps(stack[i], p)
    BY <1>1, <1>3, <1>5, <2>1 DEF FirstKeeper
  <2>3. stack'[j].saved = stack[j].saved /\ stack'[j].method = stack[j].method
    BY <2>1
  <2>. QED
    BY <1>2, <1>5, <2>1, <2>2, <2>3 DEF InPlace, FirstKeeper
<1>6. p \in Words => stack'[d].words[p] = Kept(d, p)'
  BY <1>2 DEF InPlace
<1>. QED
  BY <1>4, <1>5, <1>6 DEF InPlace
------------------------------------------------------------------------------
\* The walk looks where the frames have put it.
LEMMA Savings ==
  ASSUME TypeInv, ShapeInv, NEW j \in 1..Depth, NEW r \in IRegs
  PROVE  SavedHere(j, r) <=> Keeps(stack[j], r)
<1>1. stack[j].info
  BY DEF ShapeInv, WellFormed
<1>2. CASE Interpreted(stack[j])
  <2>1. r \in Elements(SaveList(stack[j].method)) <=> r \in Elements(SavedIRegs[stack[j].method])
    BY <1>2, SavedIntegers DEF Interpreted
  <2>. QED
    BY <1>1, <1>2, <2>1 DEF SavedHere, VisitedFrame, Keeps
<1>. QED
  BY <1>2 DEF SavedHere, VisitedFrame, Keeps

LEMMA Locations ==
  ASSUME TypeInv, ShapeInv, NEW d \in 1..Depth, NEW r \in IRegs
  PROVE  /\ (\A j \in (d + 1)..Depth : ~Keeps(stack[j], r)) => Location(d, r) = <<"registers", 0, r>>
         /\ \A j \in (d + 1)..Depth :
              FirstKeeper(d, j, r) => Location(d, r) = <<"saved", j, Index(stack[j].method, r)>>
<1>1. r \notin Words /\ Depth \in Nat
  BY RegistersAssumption DEF TypeInv
<1>2. Savers(d, r) = {j \in (d + 1)..Depth : Keeps(stack[j], r)}
  <2>1. \A j \in (d + 1)..Depth : j \in 1..Depth
    BY <1>1
  <2>. QED
    BY <2>1, Savings DEF Savers
<1>3. ASSUME \A j \in (d + 1)..Depth : ~Keeps(stack[j], r)
      PROVE  Location(d, r) = <<"registers", 0, r>>
  <2>1. Savers(d, r) = {}
    BY <1>2, <1>3
  <2>. QED
    BY <1>1, <2>1 DEF Location
<1>4. ASSUME NEW j \in (d + 1)..Depth, FirstKeeper(d, j, r)
      PROVE  Location(d, r) = <<"saved", j, Index(stack[j].method, r)>>
  <2>1. j \in Savers(d, r) /\ \A i \in Savers(d, r) : j <= i
    <3>1. j \in Savers(d, r)
      BY <1>2, <1>4 DEF FirstKeeper
    <3>2. ASSUME NEW i \in Savers(d, r), ~(j <= i)
          PROVE  FALSE
      <4>1. i \in (d + 1)..(j - 1) /\ Keeps(stack[i], r)
        BY <1>1, <1>2, <3>2
      <4>. QED
        BY <1>4, <4>1 DEF FirstKeeper
    <3>. QED
      BY <3>1, <3>2
  <2>2. j = CHOOSE i \in Savers(d, r) : \A k \in Savers(d, r) : i <= k
    <3>1. \A i \in Savers(d, r) : i \in Nat
      BY <1>1, <1>2
    <3>2. \A i \in Savers(d, r) : (\A k \in Savers(d, r) : i <= k) => i = j
      BY <2>1, <3>1
    <3>. QED
      BY <2>1, <3>2
  <2>3. stack[j].method \in Methods /\ r \in Elements(SavedIRegs[stack[j].method])
    <3>1. stack[j].method \in Methods /\ r \in Elements(SaveList(stack[j].method))
      BY <1>4 DEF FirstKeeper, Keeps, Interpreted
    <3>. QED
      BY <3>1, SavedIntegers
  <2>4. (CHOOSE k \in DOMAIN SavedIRegs[stack[j].method] : SavedIRegs[stack[j].method][k] = r)
          = Index(stack[j].method, r)
    BY <2>3, SavedIntegers
  <2>5. Savers(d, r) # {}
    BY <2>1
  <2>. QED
    BY <1>1, <2>2, <2>4, <2>5 DEF Location
<1>. QED
  BY <1>3, <1>4
------------------------------------------------------------------------------
\* One more collection, or one more growth of the stack, for the kinds K.
Counted(K) ==
  /\ K \subseteq {"heap", "local", "address"}
  /\ \A k \in Kinds : Epoch(k)' = IF k \in K THEN Epoch(k) + 1 ELSE Epoch(k)

LEMMA Updates ==
  ASSUME TypeInv, NEW K
  PROVE  /\ \A w \in Word : Updated(w, K) \in Word
         /\ Updated(Zero, K) = Zero \/ "other" \in K
<1>1. ASSUME NEW w \in Word
      PROVE  Updated(w, K) \in Word
  BY DEF Updated, Word
<1>2. Updated(Zero, K) = Zero \/ "other" \in K
  BY DEF Updated, Zero
<1>. QED
  BY <1>1, <1>2

\* The stack after its words at L were updated.
LEMMA MovedStack ==
  ASSUME TypeInv, NEW L, NEW K, stack' = MovedFrames(L, K)
  PROVE  /\ stack' \in Seq(Frame) /\ Depth' = Depth
         /\ \A d \in 1..Depth :
              /\ stack'[d].method = stack[d].method /\ stack'[d].entered = stack[d].entered
              /\ stack'[d].holds = stack[d].holds /\ stack'[d].info = stack[d].info
              /\ DOMAIN stack'[d].saved = DOMAIN stack[d].saved
              /\ Len(stack'[d].saved) = Len(stack[d].saved)
              /\ \A k \in DOMAIN stack[d].saved :
                   stack'[d].saved[k] = IF <<"saved", d, k>> \in L THEN Updated(stack[d].saved[k], K)
                                        ELSE stack[d].saved[k]
              /\ \A p \in Words :
                   stack'[d].words[p] = IF <<"frame", d, p>> \in L THEN Updated(stack[d].words[p], K)
                                        ELSE stack[d].words[p]
<1>1. stack \in Seq(Frame) /\ DOMAIN stack = 1..Depth /\ Depth \in Nat
  BY DEF TypeInv
<1>2. ASSUME NEW d \in 1..Depth
      PROVE  /\ stack'[d] \in Frame
             /\ stack'[d].method = stack[d].method /\ stack'[d].entered = stack[d].entered
             /\ stack'[d].holds = stack[d].holds /\ stack'[d].info = stack[d].info
             /\ DOMAIN stack'[d].saved = DOMAIN stack[d].saved
             /\ Len(stack'[d].saved) = Len(stack[d].saved)
             /\ \A k \in DOMAIN stack[d].saved :
                  stack'[d].saved[k] = IF <<"saved", d, k>> \in L THEN Updated(stack[d].saved[k], K)
                                       ELSE stack[d].saved[k]
             /\ \A p \in Words :
                  stack'[d].words[p] = IF <<"frame", d, p>> \in L THEN Updated(stack[d].words[p], K)
                                       ELSE stack[d].words[p]
  <2> DEFINE S == [k \in DOMAIN stack[d].saved |->
                     IF <<"saved", d, k>> \in L THEN Updated(stack[d].saved[k], K)
                     ELSE stack[d].saved[k]]
             W == [p \in Words |->
                     IF <<"frame", d, p>> \in L THEN Updated(stack[d].words[p], K)
                     ELSE stack[d].words[p]]
  <2>1. stack[d] \in Frame
    BY <1>1
  <2>2. stack'[d] = [stack[d] EXCEPT !.saved = S, !.words = W]
    BY <1>1 DEF MovedFrames
  <2>3. S \in Seq(Word) /\ Len(S) = Len(stack[d].saved)
    <3>1. stack[d].saved \in Seq(Word)
      BY <2>1 DEF Frame
    <3>2. S \in [1..Len(stack[d].saved) -> Word]
      <4>1. \A w \in Word : Updated(w, K) \in Word
        BY Updates
      <4>2. DOMAIN stack[d].saved = 1..Len(stack[d].saved)
        BY <3>1
      <4>3. \A k \in 1..Len(stack[d].saved) : stack[d].saved[k] \in Word
        BY <3>1
      <4>. QED
        BY <4>1, <4>2, <4>3
    <3>3. Len(stack[d].saved) \in Nat
      BY <3>1
    <3>. HIDE DEF S
    <3>. QED
      BY <3>2, <3>3
  <2>4. W \in [Words -> Word]
    BY <2>1, Updates DEF Frame
  <2>5. /\ \A k \in DOMAIN stack[d].saved :
             S[k] = IF <<"saved", d, k>> \in L THEN Updated(stack[d].saved[k], K)
                    ELSE stack[d].saved[k]
        /\ DOMAIN S = DOMAIN stack[d].saved
        /\ \A p \in Words :
             W[p] = IF <<"frame", d, p>> \in L THEN Updated(stack[d].words[p], K)
                    ELSE stack[d].words[p]
    OBVIOUS
  <2>. HIDE DEF S, W
  <2>6. stack'[d] \in Frame /\ stack'[d].saved = S /\ stack'[d].words = W
    BY <2>1, <2>2, <2>3, <2>4 DEF Frame
  <2>7. /\ stack'[d].method = stack[d].method /\ stack'[d].entered = stack[d].entered
        /\ stack'[d].holds = stack[d].holds /\ stack'[d].info = stack[d].info
    BY <2>1, <2>2 DEF Frame
  <2>. QED
    BY <2>3, <2>5, <2>6, <2>7
<1>3. stack' \in Seq(Frame) /\ Depth' = Depth
  <2>1. DOMAIN stack' = 1..Depth
    BY <1>1 DEF MovedFrames
  <2>2. stack' = [d \in 1..Depth |-> stack'[d]]
    BY <1>1, <2>1 DEF MovedFrames
  <2>3. stack' \in [1..Depth -> Frame]
    BY <1>2, <2>2
  <2>. QED
    BY <1>1, <2>3
<1>. QED
  BY <1>2, <1>3

\* A place whose word is updated when it has to be still has what was put
\* there, as it is after the move.
LEMMA Moves ==
  ASSUME TypeInv, ShapeInv, NEW d \in 1..Depth, NEW p \in DOMAIN stack[d].holds, InPlace(d, p),
         NEW L, NEW K, Counted(K), stack' = MovedFrames(L, K),
         p \in Regs =>
           \/ regs'[p] = IF <<"registers", 0, p>> \in L THEN Updated(regs[p], K) ELSE regs[p]
           \/ regs'[p] = regs[p] /\ stack[d].holds[p] \notin K,
         stack[d].holds[p] \in K => Location(d, p) \in L
  PROVE  InPlace(d, p)'
<1>1. Depth \in Nat /\ d \in Nat /\ stack[d] \in Frame
  BY DEF TypeInv
<1>2. PICK k \in Kinds : k = stack[d].holds[p] /\ k \in Values(p) /\ p \in Places
  BY <1>1 DEF ShapeInv, WellFormed, Frame, Holding
<1>3. /\ Depth' = Depth
      /\ \A j \in 1..Depth :
           /\ stack'[j].method = stack[j].method /\ stack'[j].entered = stack[j].entered
           /\ stack'[j].holds = stack[j].holds
           /\ \A i \in DOMAIN stack[j].saved :
                stack'[j].saved[i] = IF <<"saved", j, i>> \in L THEN Updated(stack[j].saved[i], K)
                                     ELSE stack[j].saved[i]
           /\ \A q \in Words :
                stack'[j].words[q] = IF <<"frame", j, q>> \in L THEN Updated(stack[j].words[q], K)
                                     ELSE stack[j].words[q]
  BY MovedStack
<1>4. \A j \in 1..Depth : Keeps(stack'[j], p) <=> Keeps(stack[j], p)
  BY <1>3 DEF Keeps, Interpreted
<1>5. Kept(d, p)' = IF k \in K THEN Updated(Kept(d, p), K) ELSE Kept(d, p)
  <2>1. Kept(d, p)' = [kind |-> k, frame |-> d, place |-> p, at |-> Epoch(k)']
    <3>1. stack'[d].holds = stack[d].holds
      BY <1>3
    <3>. QED
      BY <1>2, <3>1 DEF Kept, Fresh, Epoch
  <2>2. Epoch(k)' = IF k \in K THEN Epoch(k) + 1 ELSE Epoch(k)
    BY <1>2 DEF Counted
  <2>3. Updated(Fresh(k, d, p), K) =
          IF k \in K THEN [Fresh(k, d, p) EXCEPT !.at = @ + 1] ELSE Fresh(k, d, p)
    BY DEF Updated, Fresh
  <2>. QED
    BY <1>2, <2>1, <2>2, <2>3 DEF Kept, Fresh
<1>6. k \notin K => Updated(Kept(d, p), K) = Kept(d, p)
  <2>1. Updated(Fresh(k, d, p), K) =
          IF k \in K THEN [Fresh(k, d, p) EXCEPT !.at = @ + 1] ELSE Fresh(k, d, p)
    BY DEF Updated, Fresh
  <2>. QED
    BY <1>2, <2>1 DEF Kept
<1>7. ASSUME p \in Words
      PROVE  stack'[d].words[p] = Kept(d, p)'
  <2>1. k \in K => <<"frame", d, p>> \in L
    BY <1>2, <1>7 DEF Location
  <2>2. stack[d].words[p] = Kept(d, p)
    BY <1>7 DEF InPlace
  <2>3. stack'[d].words[p] = IF <<"frame", d, p>> \in L THEN Updated(stack[d].words[p], K)
                             ELSE stack[d].words[p]
    BY <1>3, <1>7
  <2>. QED
    BY <1>5, <1>6, <2>1, <2>2, <2>3
<1>8. ASSUME p \in Regs, k \in K
      PROVE  p \in IRegs
  BY <1>2, <1>8 DEF Values, Counted
<1>9. ASSUME p \in Regs, \A j \in (d + 1)..Depth : ~Keeps(stack[j], p)
      PROVE  regs'[p] = Kept(d, p)'
  <2>1. k \in K => <<"registers", 0, p>> \in L
    BY <1>8, <1>9, <1>2, Locations
  <2>2. regs[p] = Kept(d, p)
    BY <1>9 DEF InPlace
  <2>. QED
    BY <1>5, <1>6, <1>9, <2>1, <2>2, <1>2
<1>10. ASSUME p \in Regs, NEW j \in (d + 1)..Depth, FirstKeeper(d, j, p)
       PROVE  stack'[j].saved[Index(stack'[j].method, p)] = Kept(d, p)'
  <2> DEFINE i == Index(stack[j].method, p)
  <2>1. j \in 1..Depth
    BY <1>1
  <2>2. k \in K => <<"saved", j, i>> \in L
    BY <1>8, <1>10, <1>2, Locations
  <2>3. stack[j].saved[i] = Kept(d, p)
    BY <1>10 DEF InPlace
  <2>4. i \in DOMAIN stack[j].saved
    <3>1. stack[j].method \in Methods /\ stack[j].entered /\ p \in Elements(SaveList(stack[j].method))
      BY <1>10 DEF FirstKeeper, Keeps, Interpreted
    <3>2. i \in DOMAIN SaveList(stack[j].method) /\ SaveList(stack[j].method) \in Seq(Regs \ Volatile)
      BY <3>1, SaveLists
    <3>3. Len(stack[j].saved) = Len(SaveList(stack[j].method))
      BY <2>1, <3>1 DEF ShapeInv, WellFormed
    <3>4. stack[j].saved \in Seq(Word)
      <4>1. stack[j] \in Frame
        BY <2>1 DEF TypeInv
      <4>. QED
        BY <4>1 DEF Frame
    <3>. QED
      BY <3>2, <3>3, <3>4
  <2>5. stack'[j].saved[i] = IF <<"saved", j, i>> \in L THEN Updated(stack[j].saved[i], K)
                             ELSE stack[j].saved[i]
    BY <1>3, <2>1, <2>4
  <2>6. stack'[j].method = stack[j].method
    BY <1>3, <2>1
  <2>. HIDE DEF i
  <2>7. stack'[j].saved[i] = Kept(d, p)'
    BY <1>5, <1>6, <2>2, <2>3, <2>5
  <2>. QED
    BY <2>6, <2>7 DEF i
<1>11. \A j \in (d + 1)..Depth : FirstKeeper(d, j, p)' => FirstKeeper(d, j, p)
  <2>1. ASSUME NEW j \in (d + 1)..Depth, FirstKeeper(d, j, p)'
        PROVE  FirstKeeper(d, j, p)
    <3>1. \A i \in (d + 1)..(j - 1) : i \in 1..Depth
      BY <1>1
    <3>. QED
      BY <1>1, <1>4, <2>1, <3>1 DEF FirstKeeper
  <2>. QED
    BY <2>1
<1>12. \A j \in (d + 1)..Depth : j \in 1..Depth
  BY <1>1
<1>. QED
  BY <1>3, <1>4, <1>7, <1>9, <1>10, <1>11, <1>12 DEF InPlace
------------------------------------------------------------------------------
LEMMA NewFrames ==
  /\ \A m \in Methods : /\ NewFrame(m, Params[m]) \in Frame /\ WellFormed(NewFrame(m, Params[m]))
                        /\ DOMAIN Params[m] \subseteq (IRegs \cap Volatile) \ {Acc}
                        /\ \A p \in DOMAIN Params[m] : Params[m][p] \in Kinds
  /\ \A n \in Native : NativeFrame(n) \in Frame /\ WellFormed(NativeFrame(n))
<1>1. Junk \in Word /\ Zero \in Word
  BY DEF Junk, Zero, Word, Kinds
<1>2. ASSUME NEW m, NEW H \in Holding, m \in Methods \cup Native
      PROVE  /\ NewFrame(m, H) \in Frame
             /\ NewFrame(m, H).method = m /\ NewFrame(m, H).holds = H
             /\ ~NewFrame(m, H).entered /\ NewFrame(m, H).info /\ Len(NewFrame(m, H).saved) = 0
  BY <1>1, <1>2 DEF NewFrame, Frame
<1>3. ASSUME NEW m \in Methods
      PROVE  /\ NewFrame(m, Params[m]) \in Frame /\ WellFormed(NewFrame(m, Params[m]))
             /\ DOMAIN Params[m] \subseteq (IRegs \cap Volatile) \ {Acc}
             /\ \A p \in DOMAIN Params[m] : Params[m][p] \in Kinds
  <2>1. /\ DOMAIN Params[m] \subseteq (IRegs \cap Volatile) \ {Acc}
        /\ Params[m] \in [DOMAIN Params[m] -> Kinds]
        /\ \A p \in DOMAIN Params[m] : Params[m][p] \in Values(p)
    BY MethodsAssumption
  <2>2. Params[m] \in Holding
    <3>1. DOMAIN Params[m] \in SUBSET Places
      BY <2>1
    <3>. QED
      BY <2>1, <3>1 DEF Holding
  <2>. QED
    BY <1>2, <2>1, <2>2 DEF WellFormed, Interpreted
<1>4. ASSUME NEW n \in Native
      PROVE  NativeFrame(n) \in Frame /\ WellFormed(NativeFrame(n))
  <2>1. <<>> \in Holding /\ DOMAIN <<>> = {}
    <3>1. <<>> \in [{} -> Kinds] /\ DOMAIN <<>> = {}
      OBVIOUS
    <3>. QED
      BY <3>1 DEF Holding
  <2>2. n \notin Methods
    BY MethodsAssumption
  <2>. QED
    BY <1>2, <2>1, <2>2 DEF NativeFrame, WellFormed, Interpreted
<1>. QED
  BY <1>3, <1>4

\* The youngest frame is replaced.
LEMMA Replaces ==
  ASSUME TypeInv, NEW f \in Frame
  PROVE  /\ [stack EXCEPT ![Depth] = f] \in Seq(Frame)
         /\ Len([stack EXCEPT ![Depth] = f]) = Depth
         /\ [stack EXCEPT ![Depth] = f][Depth] = f
         /\ \A d \in 1..(Depth - 1) : [stack EXCEPT ![Depth] = f][d] = stack[d]
<1>1. stack \in Seq(Frame) /\ Depth \in 1..Depth /\ Depth \in Nat
  BY DEF TypeInv
<1>2. \A d \in 1..(Depth - 1) : d \in 1..Depth /\ d # Depth
  BY <1>1
<1>. QED
  BY <1>1, <1>2, ExceptSeq

\* What the youngest frame holds, and only that, changes.
LEMMA Leavings ==
  ASSUME TypeInv, NEW H \in Holding
  PROVE  /\ Leaving(H, TRUE) \in Seq(Frame) /\ Len(Leaving(H, TRUE)) = Depth
         /\ \A d \in 1..(Depth - 1) : Leaving(H, TRUE)[d] = stack[d]
         /\ ~Interpreted(Top) => Leaving(H, TRUE)[Depth] = Top
         /\ Interpreted(Top) =>
              /\ Leaving(H, TRUE)[Depth].holds = H /\ Leaving(H, TRUE)[Depth].info
         /\ Leaving(H, TRUE)[Depth].method = Top.method
         /\ Leaving(H, TRUE)[Depth].entered = Top.entered
         /\ Leaving(H, TRUE)[Depth].saved = Top.saved
         /\ Leaving(H, TRUE)[Depth].words = Top.words
<1>1. stack \in Seq(Frame) /\ Depth \in Nat /\ Depth > 0 /\ Depth \in DOMAIN stack /\ Top \in Frame
  BY DEF TypeInv, Top
<1>2. CASE ~Interpreted(Top)
  BY <1>1, <1>2 DEF Leaving, Top
<1>3. CASE Interpreted(Top)
  <2> DEFINE f == [Top EXCEPT !.holds = H, !.info = TRUE]
  <2>1. Leaving(H, TRUE) = [stack EXCEPT ![Depth] = f]
    BY <1>1, <1>3 DEF Leaving, Top
  <2>2. /\ f \in Frame /\ f.holds = H /\ f.info /\ f.method = Top.method
        /\ f.entered = Top.entered /\ f.saved = Top.saved /\ f.words = Top.words
    BY <1>1 DEF Frame
  <2>. HIDE DEF f
  <2>. QED
    <3>1. /\ [stack EXCEPT ![Depth] = f] \in Seq(Frame) /\ Len([stack EXCEPT ![Depth] = f]) = Depth
          /\ [stack EXCEPT ![Depth] = f][Depth] = f
          /\ \A d \in 1..(Depth - 1) : [stack EXCEPT ![Depth] = f][d] = stack[d]
      BY ONLY TypeInv, <2>2, Replaces
    <3>2. PICK N : N = [stack EXCEPT ![Depth] = f]
      OBVIOUS
    <3>3. /\ N \in Seq(Frame) /\ Len(N) = Depth /\ N[Depth] = f
          /\ \A d \in 1..(Depth - 1) : N[d] = stack[d]
      BY <3>1, <3>2
    <3>4. Leaving(H, TRUE) = N
      BY <2>1, <3>2
    <3>. QED
      BY <1>3, <2>2, <3>3, <3>4
<1>. QED
  BY <1>2, <1>3

\* What survives a call of what a frame holds.
Weaker(H, G) ==
  /\ DOMAIN H \subseteq DOMAIN G /\ \A p \in DOMAIN H : H[p] = G[p]
  /\ DOMAIN G \cap Words \subseteq DOMAIN H

LEMMA AcrossCalls ==
  ASSUME NEW G \in Holding
  PROVE  /\ AcrossCall(G) \in Holding /\ Weaker(AcrossCall(G), G)
         /\ DOMAIN AcrossCall(G) \cap Volatile = {}
         /\ DOMAIN AcrossCall(G) = DOMAIN G \ Volatile
<1>1. PICK P \in SUBSET Places : G \in [P -> Kinds]
  BY DEF Holding
<1>2. AcrossCall(G) = [p \in DOMAIN G \cap (Places \ Volatile) |-> G[p]]
  BY DEF AcrossCall, Only
<1>3. DOMAIN AcrossCall(G) = P \ Volatile
  BY <1>1, <1>2
<1>4. AcrossCall(G) \in [P \ Volatile -> Kinds]
  BY <1>1, <1>2, <1>3
<1>5. AcrossCall(G) \in Holding
  <2>1. P \ Volatile \in SUBSET Places
    BY <1>1
  <2>. QED
    BY <1>4, <2>1 DEF Holding
<1>6. Volatile \cap Words = {}
  BY RegistersAssumption
<1>. QED
  BY <1>1, <1>2, <1>3, <1>5, <1>6 DEF Weaker

\* A call: the youngest frame is left with what survives, and another frame,
\* which has saved nothing, is put above it.
Pushing(H, f) ==
  /\ (Interpreted(Top) /\ Top.entered) \/ Top.method = "compiled"
  /\ f \in Frame /\ WellFormed(f) /\ ~f.entered
  /\ H \in Holding
  /\ stack' = Append(Leaving(H, TRUE), f)
  /\ Interpreted(Top) =>
       /\ Weaker(H, Top.holds)
       /\ DOMAIN H \cap Volatile = {} \/ (f.method = "runtime" /\ regs' = regs)
  /\ \A p \in DOMAIN f.holds : p \in Regs /\ regs'[p] = Fresh(f.holds[p], Depth + 1, p)
  /\ regs' \in [Regs -> Word]
  /\ \A p \in Regs \ Volatile : regs'[p] = regs[p]
  /\ mode' = (IF Interpreted(f) THEN "prologue" ELSE "run")
  /\ UNCHANGED <<dump, collections, growths>>

LEMMA Pushes ==
  ASSUME IInv, NEW H, NEW f, Pushing(H, f)
  PROVE  IInv'
<1> DEFINE below == Leaving(H, TRUE)
<1>1. /\ TypeInv /\ ShapeInv /\ ContentsInv /\ Depth \in Nat /\ Depth > 0 /\ stack \in Seq(Frame)
      /\ WellFormed(Top)
  BY DEF IInv, TypeInv, ShapeInv, Top
<1>2. /\ below \in Seq(Frame) /\ Len(below) = Depth
      /\ \A d \in 1..(Depth - 1) : below[d] = stack[d]
      /\ ~Interpreted(Top) => below[Depth] = Top
      /\ Interpreted(Top) => below[Depth].holds = H /\ below[Depth].info
      /\ below[Depth].method = Top.method /\ below[Depth].entered = Top.entered
      /\ below[Depth].saved = Top.saved /\ below[Depth].words = Top.words
  BY <1>1, Leavings DEF Pushing
<1>. HIDE DEF below
<1>3. /\ stack' \in Seq(Frame) /\ Depth' = Depth + 1 /\ Top' = f
      /\ \A d \in 1..Depth : stack'[d] = below[d]
      /\ stack'[Depth + 1] = f
  <2>1. stack' = Append(below, f) /\ f \in Frame
    BY DEF below, Pushing
  <2>2. /\ stack' \in Seq(Frame) /\ Depth' = Depth + 1
        /\ \A d \in 1..Depth : stack'[d] = below[d]
        /\ stack'[Depth + 1] = f
    BY <1>2, <2>1, AppendProperties
  <2>. QED
    BY <2>2 DEF Top
<1>a. /\ (Interpreted(Top) /\ Top.entered) \/ Top.method = "compiled"
      /\ f \in Frame /\ WellFormed(f) /\ ~f.entered
      /\ Interpreted(Top) => Weaker(H, Top.holds)
  BY DEF Pushing
<1>b. Interpreted(Top) => DOMAIN H \cap Volatile = {} \/ (f.method = "runtime" /\ regs' = regs)
  BY DEF Pushing
<1>c. /\ \A p \in DOMAIN f.holds : p \in Regs /\ regs'[p] = Fresh(f.holds[p], Depth + 1, p)
      /\ \A p \in Regs \ Volatile : regs'[p] = regs[p]
  BY DEF Pushing
<1>e. UNCHANGED <<dump, collections, growths>>
  BY DEF Pushing
<1>4. /\ \A d \in 1..Depth : /\ stack'[d].method = stack[d].method /\ stack'[d].entered = stack[d].entered
                             /\ stack'[d].saved = stack[d].saved /\ stack'[d].words = stack[d].words
                             /\ Weaker(stack'[d].holds, stack[d].holds)
      /\ \A d \in 1..(Depth - 1) : stack'[d] = stack[d]
  <2>1. \A G : Weaker(G, G)
    BY DEF Weaker
  <2>2. \A d \in 1..(Depth - 1) : stack'[d] = stack[d]
    BY <1>1, <1>2, <1>3
  <2>3. /\ stack'[Depth].method = Top.method /\ stack'[Depth].entered = Top.entered
        /\ stack'[Depth].saved = Top.saved /\ stack'[Depth].words = Top.words
        /\ Weaker(stack'[Depth].holds, Top.holds)
    BY <1>1, <1>2, <1>3, <1>a, <2>1
  <2>4. \A d \in 1..Depth : d = Depth \/ d \in 1..(Depth - 1)
    BY <1>1
  <2>. QED
    BY <2>1, <2>2, <2>3, <2>4 DEF Top
<1>5. TypeInv'
  <2>1. mode' \in {"run", "prologue"} /\ regs' \in [Regs -> Word]
    BY DEF Pushing
  <2>. QED
    BY <1>1, <1>3, <1>e, <2>1 DEF TypeInv
<1>6. ASSUME NEW d \in 1..Depth
      PROVE  WellFormed(stack'[d])
  <2>1. CASE d # Depth \/ ~Interpreted(Top)
    BY <1>1, <1>2, <1>3, <1>4, <2>1 DEF ShapeInv, Top
  <2>2. CASE d = Depth /\ Interpreted(Top)
    <3>1. Interpreted(stack'[Depth]) /\ stack'[Depth].entered
      BY <1>1, <1>2, <1>3, <1>a, <2>2, MethodsAssumption DEF Interpreted, Native
    <3>2. stack'[Depth].info /\ Len(stack'[Depth].saved) = Len(SaveList(stack'[Depth].method))
      BY <1>1, <1>2, <1>3, <2>2, <3>1 DEF WellFormed
    <3>3. \A p \in DOMAIN stack'[Depth].holds : stack'[Depth].holds[p] \in Values(p)
      BY <1>1, <1>2, <1>3, <1>a, <2>2 DEF WellFormed, Weaker
    <3>. QED
      BY <2>2, <3>1, <3>2, <3>3 DEF WellFormed
  <2>. QED
    BY <2>1, <2>2
<1>7. ASSUME NEW d \in 1..Depth
      PROVE  /\ stack'[d].method \notin {"runtime", "thrower"}
             /\ Interpreted(stack'[d]) => stack'[d].entered
             /\ \/ (f.method = "runtime" /\ d = Depth /\ regs' = regs)
                \/ DOMAIN stack'[d].holds \cap Volatile = {}
  <2>1. Top.method \notin {"runtime", "thrower"}
    BY <1>a, MethodsAssumption DEF Interpreted, Native
  <2>2. CASE d # Depth
    BY <1>1, <1>4, <2>1, <2>2 DEF ShapeInv
  <2>3. CASE d = Depth
    <3>1. CASE Interpreted(Top)
      <4>1. stack'[Depth].entered
        BY <1>1, <1>2, <1>3, <1>a, <3>1, MethodsAssumption DEF Interpreted, Native
      <4>. QED
        BY <1>1, <1>2, <1>3, <1>b, <2>1, <2>3, <3>1, <4>1
    <3>2. CASE ~Interpreted(Top)
      BY <1>1, <1>2, <1>3, <2>1, <2>3, <3>2 DEF WellFormed
    <3>. QED
      BY <3>1, <3>2
  <2>. QED
    BY <2>2, <2>3
<1>8. ShapeInv'
  <2>1. stack'[1].method = "compiled"
    BY <1>1, <1>4 DEF ShapeInv
  <2>2. \A d \in 1..Depth' : WellFormed(stack'[d])
    <3>1. \A d \in 1..Depth' : d \in 1..Depth \/ d = Depth + 1
      BY <1>1, <1>3
    <3>. QED
      BY <1>3, <1>6, <1>a, <3>1
  <2>. QED
    BY <1>1, <1>3, <1>7, <2>1, <2>2 DEF ShapeInv
<1>9. ModeInv' /\ DumpInv'
  <2>1. mode' = (IF Interpreted(f) THEN "prologue" ELSE "run")
    BY DEF Pushing
  <2>. QED
    BY <1>3, <1>a, <2>1 DEF ModeInv, DumpInv
<1>10. ContentsInv'
  <2>1. ASSUME NEW d \in 1..Depth, NEW p \in DOMAIN stack'[d].holds
        PROVE  InPlace(d, p)'
    <3>1. p \in DOMAIN stack[d].holds /\ stack'[d].holds[p] = stack[d].holds[p]
      BY <1>4 DEF Weaker
    <3>2. InPlace(d, p)
      BY <1>1, <3>1 DEF ContentsInv
    <3>3. p \in Regs => regs'[p] = regs[p]
      BY <1>7, <1>c
    <3>4. \A j \in (d + 1)..Depth : j \in 1..Depth
      BY <1>1
    <3>. QED
      BY <1>1, <1>3, <1>4, <1>a, <1>e, <3>1, <3>2, <3>3, <3>4, Stays
  <2>2. ASSUME NEW d \in 1..Depth
        PROVE  RecordIsZero(d)'
    <3>1. RecSlot \in DOMAIN stack[d].holds => RecSlot \in DOMAIN stack'[d].holds
      BY <1>4 DEF Weaker
    <3>2. RecordIsZero(d)
      BY <1>1 DEF ContentsInv
    <3>. QED
      BY <1>4, <3>1, <3>2 DEF RecordIsZero
  <2>3. PICK n \in Nat : n = Depth + 1
    BY <1>1
  <2>4. ASSUME NEW p \in DOMAIN f.holds
        PROVE  InPlace(n, p)'
    <3>1. p \in Regs /\ p \notin Words /\ regs'[p] = Fresh(f.holds[p], n, p)
      BY <1>c, <2>3, RegistersAssumption
    <3>2. Kept(n, p)' = regs'[p]
      BY <1>3, <1>e, <2>3, <3>1 DEF Kept, Fresh, Epoch
    <3>3. (n + 1)..Depth' = {}
      BY <1>1, <1>3, <2>3
    <3>. QED
      BY <3>1, <3>2, <3>3 DEF InPlace
  <2>5. RecordIsZero(n)'
    BY <1>3, <1>a, <2>3 DEF RecordIsZero
  <2>6. \A d \in 1..Depth' : d \in 1..Depth \/ d = n
    BY <1>1, <1>3, <2>3
  <2>7. stack'[n] = f
    BY <1>3, <2>3
  <2>. QED
    BY <2>1, <2>2, <2>4, <2>5, <2>6, <2>7 DEF ContentsInv
<1>. QED
  BY <1>5, <1>8, <1>9, <1>10 DEF IInv

LEMMA FreshWords ==
  ASSUME TypeInv, NEW k \in Kinds, NEW d \in Nat, NEW p \in Places
  PROVE  Fresh(k, d, p) \in Word
<1>1. collections \in Nat /\ growths \in Nat
  BY BoundsAssumption DEF TypeInv
<1>2. Epoch(k) \in Nat
  BY <1>1 DEF Epoch
<1>. QED
  BY <1>2 DEF Fresh, Word

LEMMA TopFacts ==
  ASSUME IInv
  PROVE  /\ Depth \in Nat /\ Depth > 0 /\ Top \in Frame /\ WellFormed(Top)
         /\ Top.holds \in Holding /\ Top.method \in Methods \cup Native
         /\ Interpreted(Top) => Top.method \notin Native
<1>1. stack \in Seq(Frame) /\ Depth > 0 /\ ShapeInv
  BY DEF IInv, TypeInv
<1>2. Depth \in Nat /\ Depth \in 1..Depth
  BY <1>1
<1>3. Top \in Frame /\ WellFormed(Top)
  BY <1>1, <1>2 DEF Top, ShapeInv
<1>4. Top.holds \in Holding /\ Top.method \in Methods \cup Native
  BY <1>3 DEF Frame
<1>. QED
  BY <1>1, <1>2, <1>3, <1>4, MethodsAssumption DEF Interpreted

LEMMA CallInterpretedKeeps ==
  ASSUME IInv, NEW m \in Methods, CallInterpreted(m)
  PROVE  IInv'
<1> DEFINE H == AcrossCall(Top.holds)
           f == NewFrame(m, Params[m])
<1>1. Top.holds \in Holding
  BY TopFacts
<1>2. H \in Holding /\ Weaker(H, Top.holds) /\ DOMAIN H \cap Volatile = {}
  BY <1>1, AcrossCalls
<1>3. /\ f \in Frame /\ WellFormed(f) /\ ~f.entered /\ Interpreted(f) /\ f.holds = Params[m]
      /\ DOMAIN Params[m] \subseteq (IRegs \cap Volatile) \ {Acc}
      /\ \A p \in DOMAIN Params[m] : Params[m][p] \in Kinds
  BY NewFrames DEF NewFrame, Interpreted
<1>4. /\ mode = "run" /\ Top.method \in Methods \cup {"compiled"}
      /\ regs' = [r \in Regs |-> IF r \in DOMAIN Params[m]
                                 THEN Fresh(Params[m][r], Depth + 1, r) ELSE regs[r]]
      /\ mode' = "prologue" /\ UNCHANGED <<dump, collections, growths>>
  BY DEF CallInterpreted
<1>5. stack' = Append(Leaving(H, TRUE), f)
  BY DEF CallInterpreted
<1>. HIDE DEF H, f
<1>6. (Interpreted(Top) /\ Top.entered) \/ Top.method = "compiled"
  BY <1>4 DEF IInv, ModeInv, Interpreted
<1>7. regs' \in [Regs -> Word]
  <2>1. TypeInv /\ Depth + 1 \in Nat /\ regs \in [Regs -> Word]
    BY TopFacts DEF IInv, TypeInv
  <2>2. \A r \in DOMAIN Params[m] : Fresh(Params[m][r], Depth + 1, r) \in Word
    BY <1>3, <2>1, FreshWords
  <2>. QED
    BY <1>4, <2>1, <2>2
<1>8. /\ \A p \in DOMAIN Params[m] : p \in Regs /\ regs'[p] = Fresh(Params[m][p], Depth + 1, p)
      /\ \A p \in Regs \ Volatile : regs'[p] = regs[p]
  BY <1>3, <1>4
<1>9. Pushing(H, f)
  BY <1>2, <1>3, <1>4, <1>5, <1>6, <1>7, <1>8 DEF Pushing
<1>. QED
  BY <1>9, Pushes

\* A call of something native, which keeps every register.
LEMMA NativeCalls ==
  ASSUME IInv, NEW H \in Holding, NEW n \in Native, mode = "run", Interpreted(Top),
         Weaker(H, Top.holds), DOMAIN H \cap Volatile = {} \/ n = "runtime",
         stack' = Append(Leaving(H, TRUE), NativeFrame(n)),
         UNCHANGED <<mode, regs, dump, collections, growths>>
  PROVE  IInv'
<1> DEFINE f == NativeFrame(n)
<1>1. n \notin Methods
  BY MethodsAssumption
<1>2. /\ f \in Frame /\ WellFormed(f) /\ ~f.entered /\ ~Interpreted(f) /\ f.method = n
      /\ DOMAIN f.holds = {}
  BY <1>1, NewFrames DEF NativeFrame, NewFrame, Interpreted, WellFormed
<1>3. stack' = Append(Leaving(H, TRUE), f)
  OBVIOUS
<1>. HIDE DEF f
<1>4. Top.entered /\ regs \in [Regs -> Word]
  BY DEF IInv, ModeInv, TypeInv
<1>5. Pushing(H, f)
  BY <1>2, <1>3, <1>4 DEF Pushing
<1>. QED
  BY <1>5, Pushes

LEMMA CallCompiledKeeps ==
  ASSUME IInv, CallCompiled
  PROVE  IInv'
<1>1. Top.holds \in Holding
  BY TopFacts
<1>2. /\ AcrossCall(Top.holds) \in Holding /\ Weaker(AcrossCall(Top.holds), Top.holds)
      /\ DOMAIN AcrossCall(Top.holds) \cap Volatile = {}
  BY <1>1, AcrossCalls
<1>3. "compiled" \in Native
  BY DEF Native
<1>. QED
  BY <1>2, <1>3, NativeCalls DEF CallCompiled, InterpretedTop

LEMMA ThunkKeeps ==
  ASSUME IInv, Thunk
  PROVE  IInv'
<1>1. Top.holds \in Holding /\ Weaker(Top.holds, Top.holds)
  BY TopFacts DEF Weaker
<1>2. "runtime" \in Native
  BY DEF Native
<1>. QED
  BY <1>1, <1>2, NativeCalls DEF Thunk, InterpretedTop

LEMMA ThrowImplicitKeeps ==
  ASSUME IInv, NEW c \in Checks, HasStatePoint(c), ThrowImplicit(c)
  PROVE  IInv'
<1>1. Top.holds \in Holding
  BY TopFacts
<1>2. /\ AcrossCall(Top.holds) \in Holding /\ Weaker(AcrossCall(Top.holds), Top.holds)
      /\ DOMAIN AcrossCall(Top.holds) \cap Volatile = {}
  BY <1>1, AcrossCalls
<1>3. "thrower" \in Native
  BY DEF Native
<1>4. HasStatePoint(c) = TRUE
  BY DEF HasStatePoint
<1>. QED
  BY <1>2, <1>3, <1>4, NativeCalls DEF ThrowImplicit, InterpretedTop
------------------------------------------------------------------------------
\* The youngest frame is left; its caller may be given a result.
Caller == stack[Depth - 1]

Popping ==
  /\ Depth > 1 /\ Depth' = Depth - 1 /\ stack' \in Seq(Frame)
  /\ \A d \in 1..(Depth - 2) : stack'[d] = stack[d]
  /\ Top'.method = Caller.method /\ Top'.entered = Caller.entered /\ Top'.info
  /\ Top'.saved = Caller.saved /\ Top'.words = Caller.words
  /\ DOMAIN Caller.holds \subseteq DOMAIN Top'.holds
  /\ ~Interpreted(Caller) => DOMAIN Top'.holds = {}
  /\ \A p \in DOMAIN Top'.holds :
       \/ /\ p \in DOMAIN Caller.holds /\ Top'.holds[p] = Caller.holds[p]
          /\ p \in Volatile => regs'[p] = regs[p]
       \/ /\ p \in Volatile /\ Top'.holds[p] \in Values(p)
          /\ regs'[p] = Fresh(Top'.holds[p], Depth - 1, p)

\* A register of the youngest frame's callers gets its word back.
Restoring ==
  \A p \in Regs \ Volatile :
    regs'[p] = IF Keeps(Top, p) THEN Top.saved[Index(Top.method, p)] ELSE regs[p]

LEMMA Poppings ==
  ASSUME IInv, Popping, Restoring,
         regs' \in [Regs -> Word], dump' \in [IRegs -> Word],
         mode' \in {"run", IF Interpreted(Caller) THEN "unwind" ELSE "throw"},
         UNCHANGED <<collections, growths>>
  PROVE  IInv'
<1>1. /\ TypeInv /\ ShapeInv /\ ContentsInv /\ Depth \in Nat /\ Depth > 1
      /\ Depth - 1 \in 1..Depth /\ Depth' = Depth - 1
  BY DEF IInv, TypeInv, Popping
<1>2. /\ WellFormed(Caller) /\ Caller.method \notin {"runtime", "thrower"}
      /\ Interpreted(Caller) => Caller.entered
  BY <1>1 DEF ShapeInv, Caller
<1>3. /\ \A d \in 1..(Depth - 2) : stack'[d] = stack[d]
      /\ Top'.method = Caller.method /\ Top'.entered = Caller.entered /\ Top'.info
      /\ Top'.saved = Caller.saved /\ Top'.words = Caller.words
      /\ DOMAIN Caller.holds \subseteq DOMAIN Top'.holds
      /\ ~Interpreted(Caller) => DOMAIN Top'.holds = {}
  BY DEF Popping
<1>4. \A p \in DOMAIN Top'.holds :
        \/ /\ p \in DOMAIN Caller.holds /\ Top'.holds[p] = Caller.holds[p]
           /\ p \in Volatile => regs'[p] = regs[p]
        \/ /\ p \in Volatile /\ Top'.holds[p] \in Values(p)
           /\ regs'[p] = Fresh(Top'.holds[p], Depth - 1, p)
  BY DEF Popping
<1>5. TypeInv'
  <2>1. mode' \in {"run", "prologue", "grow", "unwind", "throw"}
    OBVIOUS
  <2>2. stack' \in Seq(Frame)
    BY DEF Popping
  <2>. QED
    BY <1>1, <2>1, <2>2 DEF TypeInv
<1>6. PICK n \in Nat : n = Depth - 1 /\ n > 0
  BY <1>1
<1>7. /\ Top' = stack'[n] /\ Caller = stack[n]
      /\ \A d \in 1..Depth' : d = n \/ d \in 1..(Depth - 2)
      /\ \A d \in 1..(Depth - 2) : d \in 1..Depth /\ d \in 1..(Depth - 1) /\ d # Depth - 1
  BY <1>1, <1>6 DEF Top, Caller
<1>8. Interpreted(Top') <=> Interpreted(Caller)
  BY <1>3 DEF Interpreted
<1>9. WellFormed(Top')
  <2>1. \A p \in DOMAIN Top'.holds : Top'.holds[p] \in Values(p)
    BY <1>2, <1>4 DEF WellFormed
  <2>2. ~Interpreted(Caller) => ~Caller.entered
    BY <1>2 DEF WellFormed
  <2>3. Len(Caller.saved) = IF Caller.entered THEN Len(SaveList(Caller.method)) ELSE 0
    BY <1>2 DEF WellFormed
  <2>. QED
    BY <1>2, <1>3, <1>8, <2>1, <2>2, <2>3 DEF WellFormed
<1>10. ShapeInv'
  <2>1. stack'[1].method = "compiled"
    <3>1. 1 \in 1..Depth' /\ stack[1].method = "compiled"
      BY <1>1 DEF ShapeInv
    <3>2. 1 = n \/ 1 \in 1..(Depth - 2)
      BY <1>7, <3>1
    <3>. QED
      BY <1>3, <1>7, <3>1, <3>2
  <2>2. \A d \in 1..Depth' : WellFormed(stack'[d])
    BY <1>1, <1>3, <1>7, <1>9 DEF ShapeInv
  <2>3. \A d \in 1..(Depth - 2) :
          /\ stack'[d].method \notin {"runtime", "thrower"}
          /\ Interpreted(stack'[d]) => stack'[d].entered
          /\ DOMAIN stack'[d].holds \cap Volatile = {}
    BY <1>1, <1>3, <1>7 DEF ShapeInv
  <2>4. Depth' - 1 = Depth - 2
    BY <1>1
  <2>. QED
    BY <2>1, <2>2, <2>3, <2>4 DEF ShapeInv
<1>11. ModeInv' /\ DumpInv'
  BY <1>2, <1>3, <1>8 DEF ModeInv, DumpInv
<1>12. Restoring
  OBVIOUS
<1>13. ASSUME NEW d \in 1..(Depth - 1), NEW p \in DOMAIN stack[d].holds,
              stack'[d].holds[p] = stack[d].holds[p],
              p \in Volatile => regs'[p] = regs[p]
       PROVE  InPlace(d, p)'
  <2>1. d \in 1..Depth /\ InPlace(d, p)
    BY <1>1 DEF ContentsInv
  <2>2. stack'[d].words = stack[d].words
    BY <1>1, <1>3, <1>6, <1>7
  <2>3. \A j \in (d + 1)..(Depth - 1) : /\ stack'[j].method = stack[j].method
                                        /\ stack'[j].entered = stack[j].entered
                                        /\ stack'[j].saved = stack[j].saved
    <3>1. \A j \in (d + 1)..(Depth - 1) : j = n \/ j \in 1..(Depth - 2)
      BY <1>1, <1>6
    <3>. QED
      BY <1>3, <1>7, <3>1
  <2>4. p \in Volatile => ~Keeps(Top, p)
    BY SaveLists DEF Keeps, Interpreted
  <2>5. p \in Regs =>
          regs'[p] = IF Keeps(Top, p) THEN Top.saved[Index(Top.method, p)] ELSE regs[p]
    BY <1>12, <1>13, <2>4 DEF Restoring
  <2>. QED
    BY <1>1, <1>13, <2>1, <2>2, <2>3, <2>5, Pops
<1>14. ASSUME NEW d \in 1..(Depth - 2), NEW p \in DOMAIN stack'[d].holds
       PROVE  InPlace(d, p)'
  <2>1. DOMAIN stack[d].holds \cap Volatile = {}
    BY <1>7, <1>1 DEF ShapeInv
  <2>. QED
    BY <1>3, <1>7, <1>13, <2>1
<1>15. ASSUME NEW p \in DOMAIN Top'.holds
       PROVE  InPlace(n, p)'
  <2>1. CASE /\ p \in DOMAIN Caller.holds /\ Top'.holds[p] = Caller.holds[p]
             /\ p \in Volatile => regs'[p] = regs[p]
    <3>1. n \in 1..(Depth - 1) /\ p \in DOMAIN stack[n].holds /\ stack'[n].holds[p] = stack[n].holds[p]
      BY <1>1, <1>6, <1>7, <2>1
    <3>. QED
      BY <1>13, <2>1, <3>1
  <2>2. CASE /\ p \in Volatile
             /\ regs'[p] = Fresh(Top'.holds[p], Depth - 1, p)
    <3>1. p \in Regs /\ p \notin Words
      BY <2>2, RegistersAssumption
    <3>2. Kept(n, p)' = regs'[p]
      BY <1>6, <1>7, <2>2 DEF Kept, Fresh, Epoch
    <3>3. (n + 1)..Depth' = {}
      BY <1>1, <1>6
    <3>. QED
      BY <3>1, <3>2, <3>3 DEF InPlace
  <2>. QED
    BY <1>4, <2>1, <2>2
<1>16. ASSUME NEW d \in 1..Depth'
       PROVE  RecordIsZero(d)'
  <2>1. d \in 1..Depth /\ RecordIsZero(d)
    BY <1>1 DEF ContentsInv
  <2>2. /\ stack'[d].entered = stack[d].entered /\ stack'[d].words = stack[d].words
        /\ DOMAIN stack[d].holds \subseteq DOMAIN stack'[d].holds
    BY <1>3, <1>7
  <2>. QED
    BY <2>1, <2>2 DEF RecordIsZero
<1>17. ContentsInv'
  BY <1>7, <1>14, <1>15, <1>16 DEF ContentsInv
<1>. QED
  BY <1>5, <1>10, <1>11, <1>17 DEF IInv

LEMMA Olders ==
  ASSUME IInv, Depth > 1
  PROVE  /\ Older \in Seq(Frame) /\ Len(Older) = Depth - 1
         /\ \A d \in 1..(Depth - 1) : Older[d] = stack[d]
         /\ Older[Depth - 1] = Caller /\ Caller \in Frame /\ Caller.info
         /\ Caller.holds \in Holding
         /\ ~Interpreted(Caller) => DOMAIN Caller.holds = {}
         /\ Top.method # "runtime" => DOMAIN Caller.holds \cap Volatile = {}
<1>1. stack \in Seq(Frame) /\ Depth \in Nat /\ DOMAIN stack = 1..Depth /\ ShapeInv
  BY DEF IInv, TypeInv
<1>2. \A i \in 1..(Depth - 1) : stack[i] \in Frame
  BY <1>1
<1>3. /\ Older \in Seq(Frame) /\ Len(Older) = Depth - 1
      /\ \A d \in 1..(Depth - 1) : Older[d] = stack[d]
  <2>1. 1 \in Int /\ Depth - 1 \in Int /\ 1 <= Depth - 1
    BY <1>1
  <2>2. /\ SubSeq(stack, 1, Depth - 1) \in Seq(Frame)
        /\ Len(SubSeq(stack, 1, Depth - 1)) = IF 1 <= Depth - 1 THEN (Depth - 1) - 1 + 1 ELSE 0
        /\ \A i \in 1..((Depth - 1) - 1 + 1) : SubSeq(stack, 1, Depth - 1)[i] = stack[1 + i - 1]
    BY <1>2, <2>1, SubSeqProperties
  <2>3. (Depth - 1) - 1 + 1 = Depth - 1 /\ \A i \in 1..(Depth - 1) : 1 + i - 1 = i
    BY <1>1
  <2>. QED
    BY <2>1, <2>2, <2>3 DEF Older
<1>4. Depth - 1 \in 1..(Depth - 1) /\ Depth - 1 \in 1..Depth
  BY <1>1
<1>5. Caller \in Frame /\ WellFormed(Caller)
  BY <1>1, <1>2, <1>4 DEF ShapeInv, Caller
<1>6. Top.method # "runtime" => DOMAIN Caller.holds \cap Volatile = {}
  BY <1>1, <1>4 DEF ShapeInv, Caller
<1>. QED
  BY <1>3, <1>4, <1>5, <1>6 DEF Caller, WellFormed, Frame

\* H holds what G holds, and k in r.
HoldsAlso(H, G, r, k) ==
  /\ H \in Holding
  /\ DOMAIN H = DOMAIN G \cup {r}
  /\ \A p \in DOMAIN H : H[p] = IF p = r THEN k ELSE G[p]

LEMMA Withs ==
  ASSUME NEW G \in Holding, NEW r \in Places, NEW k \in Kinds
  PROVE  HoldsAlso(With(G, r, k), G, r, k)
<1>1. PICK P \in SUBSET Places : G \in [P -> Kinds]
  BY DEF Holding
<1>2. With(G, r, k) \in [P \cup {r} -> Kinds] /\ DOMAIN With(G, r, k) = P \cup {r}
  BY <1>1 DEF With
<1>3. P \cup {r} \in SUBSET Places
  BY <1>1
<1>4. With(G, r, k) \in Holding
  BY <1>2, <1>3 DEF Holding
<1>5. \A p \in P \cup {r} : With(G, r, k)[p] = IF p = r THEN k ELSE G[p]
  BY <1>1 DEF With
<1>. QED
  BY <1>1, <1>2, <1>4, <1>5 DEF HoldsAlso

\* The youngest frame is left without a result.
LEMMA LeftWithout ==
  ASSUME IInv, Depth > 1, stack' = Older,
         \A p \in Volatile : regs'[p] = regs[p]
  PROVE  Popping
<1>1. /\ stack' \in Seq(Frame) /\ Depth' = Depth - 1 /\ Top' = Caller
      /\ \A d \in 1..(Depth - 1) : stack'[d] = stack[d]
      /\ Caller.info
      /\ ~Interpreted(Caller) => DOMAIN Caller.holds = {}
  BY Olders DEF Top
<1>2. \A d \in 1..(Depth - 2) : d \in 1..(Depth - 1)
  BY TopFacts
<1>3. \A d \in 1..(Depth - 2) : stack'[d] = stack[d]
  BY <1>1, <1>2
<1>4. \A p \in DOMAIN Top'.holds :
        /\ p \in DOMAIN Caller.holds /\ Top'.holds[p] = Caller.holds[p]
        /\ p \in Volatile => regs'[p] = regs[p]
  BY <1>1
<1>5. /\ Top'.method = Caller.method /\ Top'.entered = Caller.entered /\ Top'.info
      /\ Top'.saved = Caller.saved /\ Top'.words = Caller.words
      /\ DOMAIN Caller.holds \subseteq DOMAIN Top'.holds
      /\ ~Interpreted(Caller) => DOMAIN Top'.holds = {}
  BY <1>1
<1>. QED
  BY <1>1, <1>3, <1>4, <1>5 DEF Popping

\* The youngest frame is left with a result in register r.
LEMMA LeftWith ==
  ASSUME IInv, Depth > 1, NEW r \in {Result, Acc}, NEW k \in Kinds \ {"junk"},
         stack' = BackWith(r, k),
         regs'[r] = Fresh(k, Depth - 1, r),
         \A p \in Volatile \ {r} : regs'[p] = regs[p]
  PROVE  Popping
<1> DEFINE g == [Caller EXCEPT !.holds = IF Interpreted(Caller) THEN With(@, r, k) ELSE @]
<1>1. /\ Older \in Seq(Frame) /\ Len(Older) = Depth - 1
      /\ \A d \in 1..(Depth - 1) : Older[d] = stack[d]
      /\ Older[Depth - 1] = Caller /\ Caller \in Frame /\ Caller.info
      /\ Caller.holds \in Holding
      /\ ~Interpreted(Caller) => DOMAIN Caller.holds = {}
  BY Olders
<1>2. Depth \in Nat /\ Depth - 1 \in 1..(Depth - 1)
  BY TopFacts
<1>3. r \in Volatile /\ r \in IRegs /\ r \in Places /\ k \in Values(r)
  <2>1. r \in Volatile /\ r \in IRegs /\ r \in Places /\ r \notin FRegs /\ r # RecSlot
    BY RegistersAssumption
  <2>. QED
    BY <2>1 DEF Values, Kinds
<1>4. /\ With(Caller.holds, r, k) \in Holding
      /\ DOMAIN With(Caller.holds, r, k) = DOMAIN Caller.holds \cup {r}
      /\ \A p \in DOMAIN With(Caller.holds, r, k) :
           With(Caller.holds, r, k)[p] = IF p = r THEN k ELSE Caller.holds[p]
  <2>1. Caller.holds \in Holding /\ r \in Places /\ k \in Kinds
    BY <1>1, <1>3
  <2>2. PICK G \in Holding : G = Caller.holds
    BY <2>1
  <2>3. HoldsAlso(With(G, r, k), G, r, k)
    BY <2>1, Withs
  <2>4. HoldsAlso(With(Caller.holds, r, k), Caller.holds, r, k)
    BY <2>2, <2>3
  <2>. QED
    BY <2>4 DEF HoldsAlso
<1>5. /\ g \in Frame /\ g.method = Caller.method /\ g.entered = Caller.entered /\ g.info = Caller.info
      /\ g.saved = Caller.saved /\ g.words = Caller.words
      /\ g.holds = IF Interpreted(Caller) THEN With(Caller.holds, r, k) ELSE Caller.holds
  BY <1>1, <1>4 DEF Frame
<1>6. stack' = [Older EXCEPT ![Depth - 1] = g]
  BY <1>1, <1>2 DEF BackWith
<1>. HIDE DEF g
<1>7. /\ stack' \in Seq(Frame) /\ Depth' = Depth - 1
      /\ \A d \in 1..(Depth - 1) : stack'[d] = IF d = Depth - 1 THEN g ELSE Older[d]
  <2>1. Depth - 1 \in 1..Len(Older)
    BY <1>1, <1>2
  <2>. QED
    BY <1>1, <1>5, <1>6, <2>1, ExceptSeq
<1>8. Top' = g
  BY <1>2, <1>7 DEF Top
<1>9. \A d \in 1..(Depth - 2) : stack'[d] = stack[d]
  <2>1. \A d \in 1..(Depth - 2) : d \in 1..(Depth - 1) /\ d # Depth - 1
    BY <1>2
  <2>. QED
    BY <1>1, <1>7, <2>1
<1>10. ASSUME NEW p \in DOMAIN g.holds
       PROVE  \/ /\ p \in DOMAIN Caller.holds /\ g.holds[p] = Caller.holds[p]
                 /\ p \in Volatile => regs'[p] = regs[p]
              \/ /\ p \in Volatile /\ g.holds[p] \in Values(p)
                 /\ regs'[p] = Fresh(g.holds[p], Depth - 1, p)
  <2>1. Interpreted(Caller)
    BY <1>1, <1>5, <1>10
  <2>2. CASE p = r
    BY <1>3, <1>4, <1>5, <2>1, <2>2
  <2>3. CASE p # r
    BY <1>4, <1>5, <1>10, <2>1, <2>3
  <2>. QED
    BY <2>2, <2>3
<1>11. /\ DOMAIN Caller.holds \subseteq DOMAIN g.holds
       /\ ~Interpreted(Caller) => DOMAIN g.holds = {}
  BY <1>1, <1>4, <1>5
<1>. QED
  BY <1>1, <1>5, <1>7, <1>8, <1>9, <1>10, <1>11 DEF Popping

LEMMA PoppedRegisters ==
  ASSUME IInv, Interpreted(Top), Top.entered
  PROVE  /\ Popped(Top) \in [Regs -> Word]
         /\ \A p \in Regs \ Volatile :
              Popped(Top)[p] = IF Keeps(Top, p) THEN Top.saved[Index(Top.method, p)] ELSE regs[p]
         /\ \A p \in Volatile : Popped(Top)[p] = regs[p]
<1> DEFINE list == SaveList(Top.method)
<1>1. /\ regs \in [Regs -> Word] /\ Top.saved \in Seq(Word) /\ Len(Top.saved) = Len(list)
      /\ Top.method \in Methods
  BY TopFacts DEF IInv, TypeInv, Frame, WellFormed, Interpreted
<1>2. list \in Seq(Regs \ Volatile)
  BY <1>1, SaveLists
<1>3. \A r \in Elements(list) : r \in Regs \ Volatile /\ Index(Top.method, r) \in DOMAIN list
  BY <1>1, SaveLists
<1>4. \A p \in Regs : Popped(Top)[p] = IF p \in Elements(list)
                                       THEN Top.saved[Index(Top.method, p)] ELSE regs[p]
  BY <1>3 DEF Popped, Index
<1>5. \A r \in Elements(list) : Top.saved[Index(Top.method, r)] \in Word
  <2>1. DOMAIN list = 1..Len(Top.saved)
    BY <1>1, <1>2
  <2>. HIDE DEF list
  <2>. QED
    BY <1>1, <1>3, <2>1
<1>6. Popped(Top) \in [Regs -> Word]
  <2>1. DOMAIN Popped(Top) = Regs /\ Popped(Top) = [r \in Regs |-> Popped(Top)[r]]
    BY DEF Popped
  <2>2. \A r \in Regs : Popped(Top)[r] \in Word
    BY <1>1, <1>4, <1>5
  <2>. QED
    BY <2>1, <2>2
<1>7. Volatile \subseteq Regs
  BY RegistersAssumption
<1>. QED
  BY <1>3, <1>4, <1>6, <1>7 DEF Keeps

\* Only compiled code is at the bottom of the stack.
LEMMA InterpretedIsCalled ==
  ASSUME IInv, Interpreted(Top)
  PROVE  Depth > 1 /\ Top.method \notin {"runtime", "thrower"}
<1>1. Depth = 1 => Top.method = "compiled"
  BY DEF IInv, ShapeInv, Top
<1>2. Depth \in Nat /\ Depth > 0 /\ Top.method \notin Native
  BY TopFacts
<1>3. Top.method \notin {"compiled", "runtime", "thrower"}
  BY <1>2 DEF Native
<1>4. Depth # 1
  BY <1>1, <1>3
<1>5. Depth > 1
  <2>1. \A n \in Nat : n > 0 /\ n # 1 => n > 1
    OBVIOUS
  <2>. QED
    BY <1>2, <1>4, <2>1
<1>. QED
  BY <1>3, <1>5

LEMMA NativeReturnKeeps ==
  ASSUME IInv, NEW r \in {Result, Acc}, NativeReturn(r)
  PROVE  IInv'
<1>1. /\ Depth > 1 /\ ~Interpreted(Top) /\ mode = "run" /\ mode' = mode
      /\ regs' = [regs EXCEPT ![r] = Fresh("heap", Depth - 1, r)]
      /\ stack' = BackWith(r, "heap")
      /\ UNCHANGED <<dump, collections, growths>>
  BY DEF NativeReturn, NativeTop
<1>2. r \in Volatile /\ r \in Regs /\ Volatile \subseteq Regs /\ "heap" \in Kinds \ {"junk"}
  BY RegistersAssumption DEF Kinds
<1>3. TypeInv /\ Depth \in Nat /\ regs \in [Regs -> Word] /\ dump \in [IRegs -> Word]
  BY TopFacts DEF IInv, TypeInv
<1>4. Fresh("heap", Depth - 1, r) \in Word
  BY <1>1, <1>2, <1>3, FreshWords
<1>5. /\ regs' \in [Regs -> Word] /\ regs'[r] = Fresh("heap", Depth - 1, r)
      /\ \A p \in Regs \ {r} : regs'[p] = regs[p]
  BY <1>1, <1>2, <1>3, <1>4
<1>6. Popping
  BY <1>1, <1>2, <1>5, LeftWith
<1>7. Restoring
  BY <1>1, <1>2, <1>5 DEF Restoring, Keeps
<1>. QED
  BY <1>1, <1>3, <1>5, <1>6, <1>7, Poppings

LEMMA ReturnKeeps ==
  ASSUME IInv, Return
  PROVE  IInv'
<1>1. /\ Interpreted(Top) /\ mode = "run" /\ mode' = mode
      /\ UNCHANGED <<dump, collections, growths>>
  BY DEF Return, InterpretedTop
<1>2. Top.entered /\ Depth > 1 /\ Top.method # "runtime"
  BY <1>1, InterpretedIsCalled DEF IInv, ModeInv
<1>3. /\ Popped(Top) \in [Regs -> Word]
      /\ \A p \in Regs \ Volatile :
           Popped(Top)[p] = IF Keeps(Top, p) THEN Top.saved[Index(Top.method, p)] ELSE regs[p]
      /\ \A p \in Volatile : Popped(Top)[p] = regs[p]
  BY <1>1, <1>2, PoppedRegisters
<1>4. /\ TypeInv /\ Depth \in Nat /\ dump \in [IRegs -> Word] /\ Depth \in 1..Depth
      /\ Top.holds \in Holding /\ WellFormed(Top)
  BY TopFacts DEF IInv, TypeInv
<1>5. Result \in Volatile /\ Result \in Regs /\ Result \notin Words /\ Volatile \subseteq Regs
  BY RegistersAssumption
<1>6. CASE Result \notin DOMAIN Top.holds
  <2>1. regs' = Popped(Top) /\ stack' = Older
    BY <1>6 DEF Return
  <2>2. Popping
    BY <1>2, <1>3, <2>1, LeftWithout
  <2>3. Restoring
    BY <1>3, <2>1 DEF Restoring
  <2>. QED
    BY <1>1, <1>3, <1>4, <2>1, <2>2, <2>3, Poppings
<1>7. CASE Result \in DOMAIN Top.holds
  <2> DEFINE k == Top.holds[Result]
  <2>1. /\ regs' = [Popped(Top) EXCEPT ![Result].frame = Depth - 1]
        /\ stack' = BackWith(Result, k)
    BY <1>7 DEF Return
  <2>2. k \in Kinds \ {"junk"}
    <3>1. k \in Values(Result)
      BY <1>4, <1>7 DEF WellFormed
    <3>. QED
      BY <3>1 DEF Values, Kinds
  <2>3. Popped(Top)[Result] = Fresh(k, Depth, Result)
    <3>1. InPlace(Depth, Result)
      BY <1>4, <1>7 DEF IInv, ContentsInv, Top
    <3>2. (Depth + 1)..Depth = {}
      BY <1>4
    <3>3. regs[Result] = Kept(Depth, Result)
      BY <1>5, <3>1, <3>2 DEF InPlace
    <3>. QED
      BY <1>3, <1>5, <3>3 DEF Kept, Top
  <2>. HIDE DEF k
  <2>4. regs'[Result] = Fresh(k, Depth - 1, Result)
    BY <1>3, <1>5, <2>1, <2>3 DEF Fresh
  <2>5. Fresh(k, Depth - 1, Result) \in Word
    BY <1>2, <1>4, <1>5, <2>2, FreshWords
  <2>6. \A p \in Regs \ {Result} : regs'[p] = Popped(Top)[p]
    BY <1>3, <1>5, <2>1
  <2>7. regs' \in [Regs -> Word]
    BY <1>3, <1>5, <2>1, <2>4, <2>5, <2>6
  <2>8. Popping
    BY <1>2, <1>3, <1>5, <2>1, <2>2, <2>4, <2>6, LeftWith
  <2>9. Restoring
    BY <1>3, <1>5, <2>6 DEF Restoring
  <2>. QED
    BY <1>1, <1>4, <2>7, <2>8, <2>9, Poppings
<1>. QED
  BY <1>6, <1>7

LEMMA UnwindKeeps ==
  ASSUME IInv, Unwind
  PROVE  IInv'
<1>1. /\ mode = "unwind" /\ Top.entered /\ regs' = Popped(Top) /\ stack' = Older
      /\ mode' = Rethrown /\ UNCHANGED <<dump, collections, growths>>
  BY DEF Unwind
<1>2. Interpreted(Top) /\ dump \in [IRegs -> Word]
  BY <1>1 DEF IInv, ModeInv, TypeInv
<1>3. Depth > 1
  BY <1>2, InterpretedIsCalled
<1>4. /\ regs' \in [Regs -> Word]
      /\ \A p \in Regs \ Volatile :
           regs'[p] = IF Keeps(Top, p) THEN Top.saved[Index(Top.method, p)] ELSE regs[p]
      /\ \A p \in Volatile : regs'[p] = regs[p]
  BY <1>1, <1>2, PoppedRegisters
<1>5. Popping /\ Restoring
  BY <1>1, <1>3, <1>4, LeftWithout DEF Restoring
<1>6. mode' = IF Interpreted(Caller) THEN "unwind" ELSE "throw"
  BY <1>1, <1>3, Olders DEF Rethrown
<1>. QED
  BY <1>1, <1>2, <1>4, <1>5, <1>6, Poppings

\* A frame that has saved nothing is left.
LEMMA UnenteredLeft ==
  ASSUME IInv, ~Top.entered, Depth > 1, regs' = regs, dump' \in [IRegs -> Word], stack' = Older,
         mode' = Rethrown, UNCHANGED <<collections, growths>>
  PROVE  IInv'
<1>1. regs \in [Regs -> Word] /\ \A p \in Volatile : regs'[p] = regs[p]
  BY DEF IInv, TypeInv
<1>2. Popping /\ Restoring
  BY <1>1, LeftWithout DEF Restoring, Keeps
<1>3. mode' = IF Interpreted(Caller) THEN "unwind" ELSE "throw"
  BY Olders DEF Rethrown
<1>. QED
  BY <1>1, <1>2, <1>3, Poppings

LEMMA HandleSoeKeeps ==
  ASSUME IInv, HandleSoe
  PROVE  IInv'
<1>1. /\ mode = "unwind" /\ ~Top.entered /\ regs' = Restored(dump) /\ dump' = NoDump
      /\ stack' = Older /\ mode' = Rethrown /\ UNCHANGED <<collections, growths>>
  BY DEF HandleSoe
<1>2. /\ Interpreted(Top) /\ regs \in [Regs -> Word]
      /\ \A r \in IRegs : dump[r] = regs[r]
  BY <1>1 DEF IInv, ModeInv, TypeInv, DumpInv
<1>3. Depth > 1
  BY <1>2, InterpretedIsCalled
<1>4. regs' = regs
  BY <1>1, <1>2 DEF Restored
<1>5. dump' \in [IRegs -> Word]
  <2>1. Zero \in Word
    BY DEF Zero, Word, Kinds
  <2>. QED
    BY <1>1, <2>1 DEF NoDump
<1>. QED
  BY <1>1, <1>3, <1>4, <1>5, UnenteredLeft

LEMMA CompiledUnwindKeeps ==
  ASSUME IInv, CompiledUnwind
  PROVE  IInv'
<1>1. /\ mode = "throw" /\ Depth > 1 /\ stack' = Older /\ mode' = Rethrown
      /\ UNCHANGED <<regs, dump, collections, growths>>
  BY DEF CompiledUnwind
<1>2. ~Top.entered /\ dump \in [IRegs -> Word]
  BY <1>1, TopFacts DEF IInv, ModeInv, TypeInv, WellFormed
<1>. QED
  BY <1>1, <1>2, UnenteredLeft
------------------------------------------------------------------------------
\* Something happens in the youngest frame, an interpreted one.
Replacing(f) ==
  /\ f \in Frame /\ WellFormed(f) /\ f.method = Top.method
  /\ stack' = [stack EXCEPT ![Depth] = f]
  /\ UNCHANGED <<collections, growths>>

LEMMA Replacings ==
  ASSUME IInv, Interpreted(Top), NEW f, Replacing(f)
  PROVE  /\ stack' \in Seq(Frame) /\ Depth' = Depth /\ Depth \in Nat /\ Depth > 0
         /\ Top' = f /\ stack'[Depth] = f /\ Top = stack[Depth]
         /\ \A d \in 1..(Depth - 1) : /\ stack'[d] = stack[d]
                                      /\ DOMAIN stack[d].holds \cap Volatile = {}
         /\ ShapeInv'
<1>1. TypeInv /\ ShapeInv /\ f \in Frame /\ WellFormed(f) /\ f.method = Top.method
  BY DEF IInv, Replacing
<1>2. Depth \in Nat /\ Depth > 0 /\ Top.method # "runtime" /\ Top = stack[Depth]
  BY TopFacts, InterpretedIsCalled DEF Top
<1>3. /\ stack' \in Seq(Frame) /\ Depth' = Depth /\ stack'[Depth] = f
      /\ \A d \in 1..(Depth - 1) : stack'[d] = stack[d]
  BY <1>1, Replaces DEF Replacing
<1>4. Top' = f
  BY <1>3 DEF Top
<1>5. /\ \A d \in 1..Depth : d = Depth \/ d \in 1..(Depth - 1)
      /\ \A d \in 1..(Depth - 1) : d \in 1..Depth
  BY <1>2
<1>6. \A d \in 1..(Depth - 1) :
        /\ stack[d].method \notin {"runtime", "thrower"}
        /\ Interpreted(stack[d]) => stack[d].entered
        /\ DOMAIN stack[d].holds \cap Volatile = {}
  BY <1>1, <1>2 DEF ShapeInv
<1>7. stack'[1].method = "compiled"
  <2>1. 1 = Depth \/ 1 \in 1..(Depth - 1)
    <3>1. PICK n \in Nat : n = Depth
      BY <1>2
    <3>2. 1 = n \/ 1 \in 1..(n - 1)
      BY <1>2, <3>1
    <3>. QED
      BY <3>1, <3>2
  <2>2. stack[1].method = "compiled"
    BY <1>1 DEF ShapeInv
  <2>. QED
    BY <1>1, <1>2, <1>3, <2>1, <2>2
<1>8. \A d \in 1..Depth : WellFormed(stack'[d])
  BY <1>1, <1>3, <1>5 DEF ShapeInv
<1>9. ShapeInv'
  BY <1>3, <1>6, <1>7, <1>8 DEF ShapeInv
<1>. QED
  BY <1>2, <1>3, <1>4, <1>6, <1>9

LEMMA WriteKeeps ==
  ASSUME IInv, NEW p \in Places, NEW k \in Kinds, Write(p, k)
  PROVE  IInv'
<1> DEFINE w == Fresh(k, Depth, p)
           f == [Top EXCEPT !.words = IF p \in Words THEN [@ EXCEPT ![p] = w] ELSE @,
                            !.holds = With(@, p, k)]
<1>1. /\ mode = "run" /\ Interpreted(Top) /\ p \notin DOMAIN Top.holds
      /\ p \in DOMAIN Computes[Top.method] /\ k \in Computes[Top.method][p]
      /\ regs' = (IF p \in Regs THEN [regs EXCEPT ![p] = w] ELSE regs)
      /\ UNCHANGED <<mode, dump, collections, growths>>
  BY DEF Write, InterpretedTop
<1>2. /\ TypeInv /\ ShapeInv /\ ContentsInv /\ regs \in [Regs -> Word] /\ dump \in [IRegs -> Word]
      /\ Depth \in Nat /\ Depth > 0 /\ Top.entered
      /\ Top \in Frame /\ WellFormed(Top) /\ Top.holds \in Holding /\ Top.method \in Methods
  BY <1>1, TopFacts DEF IInv, TypeInv, ModeInv, Interpreted
<1>3. /\ With(Top.holds, p, k) \in Holding /\ DOMAIN With(Top.holds, p, k) = DOMAIN Top.holds \cup {p}
      /\ \A q \in DOMAIN With(Top.holds, p, k) :
           With(Top.holds, p, k)[q] = IF q = p THEN k ELSE Top.holds[q]
  <2>1. PICK G \in Holding : G = Top.holds
    BY <1>2
  <2>2. HoldsAlso(With(G, p, k), G, p, k)
    BY Withs
  <2>3. HoldsAlso(With(Top.holds, p, k), Top.holds, p, k)
    BY <2>1, <2>2
  <2>. QED
    BY <2>3 DEF HoldsAlso
<1>4. k \in Values(p) /\ (p \in Volatile \/ p \in Elements(SaveList(Top.method)) \/ p \in Words)
  BY <1>1, <1>2, MethodsAssumption
<1>5. w \in Word
  BY <1>2, FreshWords
<1>6. /\ f \in Frame /\ f.method = Top.method /\ f.entered = Top.entered /\ f.info = Top.info
      /\ f.saved = Top.saved /\ f.holds = With(Top.holds, p, k)
      /\ f.words = IF p \in Words THEN [Top.words EXCEPT ![p] = w] ELSE Top.words
      /\ Top.words \in [Words -> Word]
  BY <1>2, <1>3, <1>5 DEF Frame
<1>7. stack' = [stack EXCEPT ![Depth] = f]
  BY <1>2 DEF Write, TypeInv, Top
<1>. HIDE DEF f, w
<1>8. WellFormed(f)
  <2>1. \A q \in DOMAIN f.holds : f.holds[q] \in Values(q)
    BY <1>2, <1>3, <1>4, <1>6 DEF WellFormed
  <2>2. Interpreted(f) /\ f.entered
    BY <1>1, <1>2, <1>6 DEF Interpreted
  <2>. QED
    BY <1>2, <1>6, <2>1, <2>2 DEF WellFormed
<1>9. Replacing(f)
  BY <1>1, <1>6, <1>7, <1>8 DEF Replacing
<1>10. /\ stack' \in Seq(Frame) /\ Depth' = Depth
       /\ Top' = f /\ stack'[Depth] = f /\ Top = stack[Depth]
       /\ \A d \in 1..(Depth - 1) : /\ stack'[d] = stack[d]
                                    /\ DOMAIN stack[d].holds \cap Volatile = {}
       /\ ShapeInv'
  BY <1>1, <1>9, Replacings
<1>11. /\ regs' \in [Regs -> Word] /\ \A q \in Regs \ {p} : regs'[q] = regs[q]
       /\ p \in Regs => regs'[p] = w
  BY <1>1, <1>2, <1>5
<1>12. TypeInv'
  BY <1>1, <1>2, <1>10, <1>11 DEF TypeInv
<1>13. ModeInv' /\ DumpInv'
  <2>1. Interpreted(f) /\ f.entered
    BY <1>1, <1>2, <1>6 DEF Interpreted
  <2>. QED
    BY <1>1, <1>10, <2>1 DEF ModeInv, DumpInv
<1>14. Regs \cap Words = {}
  BY RegistersAssumption
<1>15. ASSUME NEW d \in 1..(Depth - 1), NEW q \in DOMAIN stack[d].holds
       PROVE  InPlace(d, q)'
  <2>1. d \in 1..Depth /\ InPlace(d, q)
    BY <1>2 DEF ContentsInv
  <2>2. \A j \in (d + 1)..Depth : /\ stack'[j].method = stack[j].method
                                  /\ stack'[j].entered = stack[j].entered
                                  /\ stack'[j].saved = stack[j].saved
    <3>1. \A j \in (d + 1)..Depth : j = Depth \/ j \in 1..(Depth - 1)
      BY <1>2
    <3>. QED
      BY <1>6, <1>10, <3>1
  <2>3. q \in Regs => regs'[q] = regs[q] \/ \E j \in (d + 1)..Depth : Keeps(stack[j], q)
    <3>1. CASE q # p
      BY <1>11, <3>1
    <3>2. CASE q = p /\ q \in Regs
      <4>1. q \in Elements(SaveList(Top.method))
        BY <1>4, <1>10, <1>14, <3>2
      <4>2. Keeps(stack[Depth], q)
        BY <1>1, <1>2, <1>10, <4>1 DEF Keeps
      <4>3. Depth \in (d + 1)..Depth
        BY <1>2
      <4>. QED
        BY <4>2, <4>3
    <3>. QED
      BY <3>1, <3>2
  <2>4. stack'[d].holds[q] = stack[d].holds[q] /\ stack'[d].words = stack[d].words
    BY <1>10
  <2>. QED
    BY <1>1, <1>2, <1>10, <2>1, <2>2, <2>3, <2>4, Stays
<1>16. ASSUME NEW q \in DOMAIN f.holds
       PROVE  InPlace(Depth, q)'
  <2>1. PICK n \in Nat : n = Depth
    BY <1>2
  <2>2. (n + 1)..Depth = {} /\ n \in 1..Depth
    BY <1>2, <2>1
  <2>3. CASE q = p
    <3>1. Kept(n, q)' = w
      BY <1>1, <1>3, <1>6, <1>10, <2>1, <2>3 DEF Kept, Fresh, Epoch, w
    <3>2. q \in Words => stack'[n].words[q] = w
      BY <1>6, <1>10, <2>1, <2>3
    <3>3. InPlace(n, q)'
      BY <1>10, <1>11, <2>2, <2>3, <3>1, <3>2 DEF InPlace
    <3>. QED
      BY <1>10, <2>1, <3>3
  <2>4. CASE q # p
    <3>1. q \in DOMAIN stack[n].holds /\ stack'[n].holds[q] = stack[n].holds[q]
      BY <1>3, <1>6, <1>10, <2>1, <2>4
    <3>2. InPlace(n, q)
      BY <1>2, <2>2, <3>1 DEF ContentsInv
    <3>3. q \in Words => stack'[n].words[q] = stack[n].words[q]
      BY <1>6, <1>10, <2>1, <2>4
    <3>4. q \in Regs => regs'[q] = regs[q]
      BY <1>11, <2>4
    <3>5. InPlace(n, q)'
      BY <1>1, <1>2, <1>10, <2>2, <3>1, <3>2, <3>3, <3>4, Stays
    <3>. QED
      BY <1>10, <2>1, <3>5
  <2>. QED
    BY <2>3, <2>4
<1>17. ASSUME NEW d \in 1..Depth
       PROVE  RecordIsZero(d)'
  <2>1. RecordIsZero(d)
    BY <1>2 DEF ContentsInv
  <2>2. CASE d \in 1..(Depth - 1)
    BY <1>10, <2>1, <2>2 DEF RecordIsZero
  <2>3. CASE d = Depth
    <3>1. f.words[RecSlot] = Top.words[RecSlot] \/ p = RecSlot
      BY <1>6
    <3>. QED
      BY <1>2, <1>3, <1>6, <1>10, <2>1, <2>3, <3>1 DEF RecordIsZero
  <2>. QED
    BY <1>2, <2>2, <2>3
<1>18. ContentsInv'
  <2>1. \A d \in 1..Depth : d = Depth \/ d \in 1..(Depth - 1)
    BY <1>2
  <2>2. PICK n \in Nat : n = Depth
    BY <1>2
  <2>3. \A q \in DOMAIN f.holds : InPlace(n, q)'
    BY <1>10, <1>16, <2>2
  <2>. QED
    BY <1>10, <1>15, <1>17, <2>1, <2>2, <2>3 DEF ContentsInv
<1>. QED
  BY <1>10, <1>12, <1>13, <1>18 DEF IInv

\* An exception reaches the youngest frame: what it holds changes, its words
\* and what it has saved do not.
LEMMA Handling ==
  ASSUME IInv, Interpreted(Top), Top.entered, NEW f, Replacing(f), f.entered,
         f.saved = Top.saved, f.words = Top.words,
         \A p \in Regs \ Volatile : regs'[p] = regs[p],
         \A p \in DOMAIN f.holds :
           \/ /\ p \in DOMAIN Top.holds /\ f.holds[p] = Top.holds[p]
              /\ p \in Regs => regs'[p] = regs[p]
           \/ p \in Volatile /\ regs'[p] = Fresh(f.holds[p], Depth, p),
         DOMAIN Top.holds \cap Words \subseteq DOMAIN f.holds
  PROVE  ContentsInv'
<1>1. /\ TypeInv /\ ContentsInv /\ Depth \in Nat /\ Depth > 0
      /\ UNCHANGED <<collections, growths>> /\ f.method = Top.method
  BY TopFacts DEF IInv, Replacing
<1>2. /\ Depth' = Depth /\ stack'[Depth] = f /\ Top = stack[Depth]
      /\ \A d \in 1..(Depth - 1) : /\ stack'[d] = stack[d]
                                   /\ DOMAIN stack[d].holds \cap Volatile = {}
  BY Replacings
<1>3. PICK n \in Nat : n = Depth
  BY <1>1
<1>4. \A d \in 1..Depth : d = n \/ d \in 1..(Depth - 1)
  BY <1>1, <1>3
<1>5. \A d \in 1..Depth : /\ stack'[d].method = stack[d].method
                          /\ stack'[d].entered = stack[d].entered
                          /\ stack'[d].saved = stack[d].saved
                          /\ stack'[d].words = stack[d].words
  <2>1. stack'[n].entered = stack[n].entered
    BY <1>2, <1>3
  <2>. QED
    BY <1>1, <1>2, <1>3, <1>4, <2>1
<1>6. ASSUME NEW d \in 1..Depth, NEW q \in DOMAIN stack[d].holds,
             stack'[d].holds[q] = stack[d].holds[q], q \in Regs => regs'[q] = regs[q]
      PROVE  InPlace(d, q)'
  <2>1. InPlace(d, q)
    BY <1>1 DEF ContentsInv
  <2>2. \A j \in (d + 1)..Depth : /\ stack'[j].method = stack[j].method
                                  /\ stack'[j].entered = stack[j].entered
                                  /\ stack'[j].saved = stack[j].saved
    BY <1>1, <1>5
  <2>. QED
    BY <1>1, <1>2, <1>5, <1>6, <2>1, <2>2, Stays
<1>7. ASSUME NEW d \in 1..(Depth - 1), NEW q \in DOMAIN stack'[d].holds
      PROVE  InPlace(d, q)'
  BY <1>1, <1>2, <1>6
<1>8. ASSUME NEW q \in DOMAIN f.holds
      PROVE  InPlace(n, q)'
  <2>1. CASE /\ q \in DOMAIN Top.holds /\ f.holds[q] = Top.holds[q]
             /\ q \in Regs => regs'[q] = regs[q]
    BY <1>1, <1>2, <1>3, <1>6, <2>1
  <2>2. CASE q \in Volatile /\ regs'[q] = Fresh(f.holds[q], Depth, q)
    <3>1. q \in Regs /\ q \notin Words
      BY <2>2, RegistersAssumption
    <3>2. Kept(n, q)' = regs'[q]
      BY <1>1, <1>2, <1>3, <2>2 DEF Kept, Fresh, Epoch
    <3>3. (n + 1)..Depth' = {}
      BY <1>2, <1>3
    <3>. QED
      BY <3>1, <3>2, <3>3 DEF InPlace
  <2>. QED
    BY <2>1, <2>2
<1>9. ASSUME NEW d \in 1..Depth
      PROVE  RecordIsZero(d)'
  <2>1. RecordIsZero(d)
    BY <1>1 DEF ContentsInv
  <2>2. RecSlot \in DOMAIN stack[d].holds => RecSlot \in DOMAIN stack'[d].holds
    BY <1>2, <1>3, <1>4
  <2>. QED
    BY <1>5, <2>1, <2>2 DEF RecordIsZero
<1>. QED
  BY <1>2, <1>3, <1>4, <1>7, <1>8, <1>9 DEF ContentsInv

LEMMA ThrowKeeps ==
  ASSUME IInv, Throw
  PROVE  IInv'
<1> DEFINE H == AcrossCall(Top.holds)
           f == [Top EXCEPT !.holds = H, !.info = TRUE]
<1>1. /\ mode = "run" /\ Interpreted(Top) /\ mode' = "unwind"
      /\ UNCHANGED <<regs, dump, collections, growths>>
  BY DEF Throw, InterpretedTop
<1>2. /\ TypeInv /\ Depth > 0 /\ Depth \in Nat /\ Top.entered
      /\ Top \in Frame /\ WellFormed(Top) /\ Top.holds \in Holding
  BY <1>1, TopFacts DEF IInv, ModeInv
<1>3. /\ H \in Holding /\ Weaker(H, Top.holds)
      /\ DOMAIN H = DOMAIN Top.holds \ Volatile
  BY <1>2, AcrossCalls
<1>4. /\ f \in Frame /\ f.method = Top.method /\ f.entered = Top.entered /\ f.info
      /\ f.saved = Top.saved /\ f.holds = H /\ f.words = Top.words
  BY <1>2, <1>3 DEF Frame
<1>5. stack' = [stack EXCEPT ![Depth] = f]
  BY <1>1, <1>2 DEF Throw, Leaving, TypeInv, Top
<1>. HIDE DEF H, f
<1>6. Interpreted(f) /\ f.entered
  BY <1>1, <1>2, <1>4 DEF Interpreted
<1>7. WellFormed(f)
  <2>1. \A q \in DOMAIN f.holds : f.holds[q] \in Values(q)
    BY <1>2, <1>3, <1>4 DEF WellFormed, Weaker
  <2>. QED
    BY <1>2, <1>4, <1>6, <2>1 DEF WellFormed
<1>8. Replacing(f)
  BY <1>1, <1>4, <1>5, <1>7 DEF Replacing
<1>9. stack' \in Seq(Frame) /\ Depth' = Depth /\ Top' = f /\ ShapeInv'
  BY <1>1, <1>8, Replacings
<1>10. TypeInv' /\ ModeInv' /\ DumpInv'
  BY <1>1, <1>2, <1>6, <1>9 DEF TypeInv, ModeInv, DumpInv
<1>11. ContentsInv'
  <2>1. \A q \in DOMAIN f.holds : q \in DOMAIN Top.holds /\ f.holds[q] = Top.holds[q]
    BY <1>3, <1>4 DEF Weaker
  <2>2. DOMAIN Top.holds \cap Words \subseteq DOMAIN f.holds
    BY <1>3, <1>4 DEF Weaker
  <2>. QED
    BY <1>1, <1>2, <1>4, <1>6, <1>8, <2>1, <2>2, Handling
<1>. QED
  BY <1>9, <1>10, <1>11 DEF IInv

LEMMA CatchKeeps ==
  ASSUME IInv, Catch
  PROVE  IInv'
<1> DEFINE G == AcrossCall(Top.holds)
           H == With(G, Acc, "heap")
           f == [Top EXCEPT !.holds = H]
           w == Fresh("heap", Depth, Acc)
<1>1. /\ mode = "unwind" /\ Top.entered /\ mode' = "run"
      /\ regs' = [regs EXCEPT ![Acc] = w] /\ UNCHANGED <<dump, collections, growths>>
  BY DEF Catch
<1>2. /\ TypeInv /\ Depth > 0 /\ Depth \in Nat /\ Interpreted(Top)
      /\ Top \in Frame /\ WellFormed(Top) /\ Top.holds \in Holding
      /\ regs \in [Regs -> Word] /\ dump \in [IRegs -> Word]
  BY <1>1, TopFacts DEF IInv, ModeInv, TypeInv
<1>3. G \in Holding /\ Weaker(G, Top.holds) /\ DOMAIN G = DOMAIN Top.holds \ Volatile
  BY <1>2, AcrossCalls
<1>4. /\ Acc \in Volatile /\ Acc \in Regs /\ Acc \notin Words
      /\ "heap" \in Values(Acc) /\ "heap" \in Kinds
  <2>1. Acc \in Volatile /\ Acc \in IRegs /\ Acc \notin FRegs /\ Acc \notin Words
    BY RegistersAssumption
  <2>. QED
    BY <2>1 DEF Values, Kinds
<1>5. w \in Word
  BY <1>2, <1>4, FreshWords
<1>. HIDE DEF G
<1>6. /\ H \in Holding /\ DOMAIN H = DOMAIN G \cup {Acc}
      /\ \A q \in DOMAIN H : H[q] = IF q = Acc THEN "heap" ELSE G[q]
  <2>1. PICK K \in Holding : K = G
    BY <1>3
  <2>2. Acc \in Places /\ "heap" \in Kinds
    BY <1>4
  <2>3. HoldsAlso(With(K, Acc, "heap"), K, Acc, "heap")
    BY <2>2, Withs
  <2>4. HoldsAlso(H, G, Acc, "heap")
    BY <2>1, <2>3 DEF H
  <2>. QED
    BY <2>4 DEF HoldsAlso
<1>. HIDE DEF H
<1>7. /\ f \in Frame /\ f.method = Top.method /\ f.entered = Top.entered /\ f.info = Top.info
      /\ f.saved = Top.saved /\ f.holds = H /\ f.words = Top.words
  BY <1>2, <1>6 DEF Frame
<1>8. stack' = [stack EXCEPT ![Depth] = f]
  <2>1. stack' = [stack EXCEPT ![Depth].holds = With(AcrossCall(@), Acc, "heap")]
    BY DEF Catch, AcrossCall
  <2>. QED
    BY <1>2, <2>1 DEF TypeInv, Top, H, G
<1>. HIDE DEF f, w
<1>9. Interpreted(f) /\ f.entered
  BY <1>1, <1>2, <1>7 DEF Interpreted
<1>10. WellFormed(f)
  <2>1. \A q \in DOMAIN f.holds : f.holds[q] \in Values(q)
    BY <1>2, <1>3, <1>4, <1>6, <1>7 DEF WellFormed, Weaker
  <2>. QED
    BY <1>1, <1>2, <1>7, <1>9, <2>1 DEF WellFormed
<1>11. Replacing(f)
  BY <1>1, <1>7, <1>8, <1>10 DEF Replacing
<1>12. stack' \in Seq(Frame) /\ Depth' = Depth /\ Top' = f /\ ShapeInv'
  BY <1>2, <1>11, Replacings
<1>13. /\ regs' \in [Regs -> Word] /\ regs'[Acc] = w
       /\ \A q \in Regs \ {Acc} : regs'[q] = regs[q]
  BY <1>1, <1>2, <1>4, <1>5
<1>14. TypeInv' /\ ModeInv' /\ DumpInv'
  BY <1>1, <1>2, <1>9, <1>12, <1>13 DEF TypeInv, ModeInv, DumpInv
<1>15. ContentsInv'
  <2>1. ASSUME NEW q \in DOMAIN f.holds
        PROVE  \/ /\ q \in DOMAIN Top.holds /\ f.holds[q] = Top.holds[q]
                  /\ q \in Regs => regs'[q] = regs[q]
               \/ q \in Volatile /\ regs'[q] = Fresh(f.holds[q], Depth, q)
    <3>1. CASE q = Acc
      BY <1>4, <1>6, <1>7, <1>13, <3>1 DEF w
    <3>2. CASE q # Acc
      BY <1>3, <1>6, <1>7, <1>13, <3>2 DEF Weaker
    <3>. QED
      BY <3>1, <3>2
  <2>2. DOMAIN Top.holds \cap Words \subseteq DOMAIN f.holds
    BY <1>3, <1>6, <1>7 DEF Weaker
  <2>3. \A q \in Regs \ Volatile : regs'[q] = regs[q]
    BY <1>4, <1>13
  <2>. QED
    BY <1>1, <1>2, <1>7, <1>9, <1>11, <2>1, <2>2, <2>3, Handling
<1>. QED
  BY <1>12, <1>14, <1>15 DEF IInv
------------------------------------------------------------------------------
\* The prologue.
LEMMA EnterKeeps ==
  ASSUME IInv, Enter
  PROVE  IInv'
<1> DEFINE W == [p \in Words |-> Zero]
           m == Top.method
           f == [Top EXCEPT !.entered = TRUE, !.saved = Pushed(m), !.words = W]
<1>1. /\ mode = "prologue" /\ mode' = "run" /\ UNCHANGED <<regs, dump, collections, growths>>
  BY DEF Enter
<1>2. /\ TypeInv /\ ContentsInv /\ Depth > 0 /\ Depth \in Nat /\ Interpreted(Top) /\ ~Top.entered
      /\ Top \in Frame /\ WellFormed(Top) /\ Top.holds \in Holding /\ m \in Methods
      /\ regs \in [Regs -> Word]
  BY <1>1, TopFacts DEF IInv, ModeInv, TypeInv, Interpreted
<1>3. /\ Top.holds = Params[m] /\ DOMAIN Top.holds \subseteq IRegs
  BY <1>2, NewFrames DEF WellFormed
<1>4. /\ SaveList(m) \in Seq(Regs \ Volatile)
      /\ \A r \in Elements(SaveList(m)) :
           Index(m, r) \in DOMAIN SaveList(m) /\ SaveList(m)[Index(m, r)] = r
  BY <1>2, SaveLists
<1>5. /\ Pushed(m) \in Seq(Word) /\ Len(Pushed(m)) = Len(SaveList(m))
      /\ \A k \in DOMAIN SaveList(m) : Pushed(m)[k] = regs[SaveList(m)[k]]
  <2>1. Len(SaveList(m)) \in Nat /\ DOMAIN SaveList(m) = 1..Len(SaveList(m))
    BY <1>4
  <2>2. \A k \in 1..Len(SaveList(m)) : regs[SaveList(m)[k]] \in Word
    BY <1>2, <1>4
  <2>3. Pushed(m) \in [1..Len(SaveList(m)) -> Word]
    BY <2>1, <2>2 DEF Pushed
  <2>4. \A k \in DOMAIN SaveList(m) : Pushed(m)[k] = regs[SaveList(m)[k]]
    BY DEF Pushed
  <2>. QED
    BY <2>1, <2>3, <2>4
<1>6. W \in [Words -> Word] /\ W[RecSlot] = Zero
  <2>1. Zero \in Word
    BY DEF Zero, Word, Kinds
  <2>. QED
    BY <2>1
<1>7. stack' = [stack EXCEPT ![Depth] = f]
  BY <1>2 DEF Enter, TypeInv, Top
<1>. HIDE DEF W, m
<1>8. /\ f \in Frame /\ f.method = m /\ f.entered /\ f.info = Top.info
      /\ f.saved = Pushed(m) /\ f.holds = Top.holds /\ f.words = W
  <2>1. Top.method = m
    BY DEF m
  <2>. QED
    BY <1>2, <1>5, <1>6, <2>1 DEF Frame
<1>. HIDE DEF f
<1>9. Top.method = m /\ Interpreted(f) /\ Interpreted(Top)
  BY <1>2, <1>8 DEF m, Interpreted
<1>10. WellFormed(f)
  BY <1>2, <1>5, <1>8, <1>9 DEF WellFormed
<1>11. Replacing(f)
  BY <1>1, <1>7, <1>8, <1>9, <1>10 DEF Replacing
<1>12. /\ stack' \in Seq(Frame) /\ Depth' = Depth /\ Top' = f /\ stack'[Depth] = f
       /\ Top = stack[Depth] /\ ShapeInv'
       /\ \A d \in 1..(Depth - 1) : /\ stack'[d] = stack[d]
                                    /\ DOMAIN stack[d].holds \cap Volatile = {}
  BY <1>2, <1>11, Replacings
<1>13. TypeInv' /\ ModeInv' /\ DumpInv'
  BY <1>1, <1>2, <1>8, <1>12 DEF TypeInv, ModeInv, DumpInv
<1>14. PICK n \in Nat : n = Depth
  BY <1>2
<1>15. \A d \in 1..Depth : /\ d = n \/ d \in 1..(Depth - 1)
                           /\ stack'[d].holds = stack[d].holds
  BY <1>2, <1>8, <1>12, <1>14
<1>16. \A d \in 1..Depth, p \in Places : Kept(d, p)' = Kept(d, p)
  BY <1>1, <1>15 DEF Kept, Fresh, Epoch
<1>17. ASSUME NEW d \in 1..(Depth - 1), NEW p \in DOMAIN stack[d].holds
       PROVE  InPlace(d, p)'
  <2>1. d \in 1..Depth /\ InPlace(d, p) /\ p \in Places
    <3>1. d \in 1..Depth /\ stack[d] \in Frame
      BY <1>2 DEF TypeInv
    <3>. QED
      BY <1>2, <3>1 DEF ContentsInv, Frame, Holding
  <2>2. Kept(d, p)' = Kept(d, p)
    BY <1>16, <2>1
  <2>3. \A j \in (d + 1)..(Depth - 1) : j \in 1..(Depth - 1) /\ stack'[j] = stack[j]
    BY <1>12
  <2>4. ~Keeps(stack[Depth], p)
    BY <1>2, <1>12 DEF Keeps
  <2>5. p \in Words => stack'[d].words[p] = Kept(d, p)'
    BY <1>12, <2>1, <2>2 DEF InPlace
  <2>6. ASSUME p \in Regs, \A j \in (d + 1)..Depth : ~Keeps(stack'[j], p)
        PROVE  regs'[p] = Kept(d, p)'
    <3>1. ASSUME NEW j \in (d + 1)..Depth
          PROVE  ~Keeps(stack[j], p)
      <4>1. j = Depth \/ j \in (d + 1)..(Depth - 1)
        BY <1>14
      <4>2. CASE j \in (d + 1)..(Depth - 1)
        BY <2>3, <2>6, <4>2
      <4>. QED
        BY <2>4, <4>1, <4>2
    <3>. QED
      BY <1>1, <2>1, <2>2, <2>6, <3>1 DEF InPlace
  <2>7. ASSUME p \in Regs, NEW j \in (d + 1)..Depth, FirstKeeper(d, j, p)'
        PROVE  stack'[j].saved[Index(stack'[j].method, p)] = Kept(d, p)'
    <3>1. Keeps(stack'[j], p) /\ \A i \in (d + 1)..(j - 1) : ~Keeps(stack'[i], p)
      BY <2>7 DEF FirstKeeper
    <3>2. \A i \in (d + 1)..(j - 1) : i \in (d + 1)..(Depth - 1)
      BY <1>2
    <3>3. \A i \in (d + 1)..(j - 1) : ~Keeps(stack[i], p)
      BY <2>3, <3>1, <3>2
    <3>4. CASE j # Depth
      <4>1. stack'[j] = stack[j]
        BY <1>2, <2>3, <3>4
      <4>2. FirstKeeper(d, j, p)
        BY <3>1, <3>3, <4>1 DEF FirstKeeper
      <4>. QED
        BY <2>1, <2>2, <2>7, <4>1, <4>2 DEF InPlace
    <3>5. CASE j = Depth
      <4>1. p \in Elements(SaveList(m)) /\ stack'[j] = f
        BY <1>8, <1>12, <3>1, <3>5 DEF Keeps
      <4>2. stack'[j].saved[Index(m, p)] = regs[p]
        BY <1>4, <1>5, <1>8, <4>1
      <4>3. \A i \in (d + 1)..Depth : ~Keeps(stack[i], p)
        BY <1>2, <2>4, <3>3, <3>5
      <4>4. regs[p] = Kept(d, p)
        BY <2>1, <2>7, <4>3 DEF InPlace
      <4>. QED
        BY <1>8, <2>2, <4>1, <4>2, <4>4
    <3>. QED
      BY <3>4, <3>5
  <2>. QED
    BY <1>12, <2>5, <2>6, <2>7 DEF InPlace
<1>18. ASSUME NEW p \in DOMAIN f.holds
       PROVE  InPlace(n, p)'
  <2>1. p \in IRegs /\ p \in Regs /\ p \notin Words /\ p \in DOMAIN stack[n].holds
    BY <1>3, <1>8, <1>12, <1>14, RegistersAssumption
  <2>2. n \in 1..Depth /\ (n + 1)..Depth = {}
    BY <1>2, <1>14
  <2>3. InPlace(n, p)
    BY <1>2, <2>1, <2>2 DEF ContentsInv
  <2>4. Kept(n, p)' = Kept(n, p)
    BY <1>16, <2>1, <2>2
  <2>. QED
    BY <1>1, <1>12, <2>1, <2>2, <2>3, <2>4 DEF InPlace
<1>19. ASSUME NEW d \in 1..Depth
       PROVE  RecordIsZero(d)'
  <2>1. RecordIsZero(d)
    BY <1>2 DEF ContentsInv
  <2>2. CASE d = n
    BY <1>6, <1>8, <1>12, <1>14, <2>2 DEF RecordIsZero
  <2>3. CASE d # n
    BY <1>12, <1>15, <2>1, <2>3 DEF RecordIsZero
  <2>. QED
    BY <2>2, <2>3
<1>20. ContentsInv'
  BY <1>12, <1>14, <1>15, <1>17, <1>18, <1>19 DEF ContentsInv
<1>. QED
  BY <1>12, <1>13, <1>20 DEF IInv
------------------------------------------------------------------------------
\* Nothing happens to the frames.
LEMMA Idles ==
  ASSUME IInv, UNCHANGED <<stack, collections, growths>>,
         \A d \in 1..Depth : \A p \in DOMAIN stack[d].holds \cap Regs : regs'[p] = regs[p]
  PROVE  ShapeInv' /\ ContentsInv' /\ Top' = Top /\ Depth' = Depth
<1>1. Top' = Top /\ Depth' = Depth /\ Depth \in Nat /\ ShapeInv /\ ContentsInv /\ TypeInv
  BY TopFacts DEF Top, IInv
<1>2. ShapeInv'
  BY <1>1 DEF ShapeInv
<1>3. ASSUME NEW d \in 1..Depth
      PROVE  (\A p \in DOMAIN stack'[d].holds : InPlace(d, p)') /\ RecordIsZero(d)'
  <2>1. RecordIsZero(d)'
    BY <1>1 DEF ContentsInv, RecordIsZero
  <2>2. ASSUME NEW p \in DOMAIN stack[d].holds
        PROVE  InPlace(d, p)'
    <3>1. InPlace(d, p)
      BY <1>1 DEF ContentsInv
    <3>2. p \in Regs => regs'[p] = regs[p]
      OBVIOUS
    <3>. QED
      BY <1>1, <3>1, <3>2, Stays
  <2>. QED
    BY <2>1, <2>2
<1>. QED
  BY <1>1, <1>2, <1>3 DEF ContentsInv

LEMMA StackOverflowKeeps ==
  ASSUME IInv, StackOverflow
  PROVE  IInv'
<1> DEFINE w == Fresh("address", Depth, Acc)
<1>1. /\ mode = "prologue" /\ growths < MaxGrowths /\ mode' = "grow"
      /\ regs' = [regs EXCEPT ![Acc] = w]
      /\ dump' = [r \in IRegs |-> regs'[r]]
      /\ UNCHANGED <<stack, collections, growths>>
  BY DEF StackOverflow
<1>2. /\ TypeInv /\ ShapeInv /\ Depth \in Nat /\ Depth > 0 /\ Interpreted(Top) /\ ~Top.entered
      /\ regs \in [Regs -> Word] /\ WellFormed(Top) /\ Top.method \in Methods
      /\ Top.method # "runtime" /\ Top = stack[Depth]
  BY <1>1, TopFacts, InterpretedIsCalled DEF IInv, TypeInv, ModeInv, Interpreted, Top
<1>3. Acc \in IRegs /\ Acc \in Volatile /\ "address" \in Kinds
  BY RegistersAssumption DEF Kinds
<1>4. w \in Word
  BY <1>2, <1>3, FreshWords
<1>. HIDE DEF w
<1>5. /\ regs' \in [Regs -> Word] /\ dump' \in [IRegs -> Word]
      /\ \A r \in IRegs : dump'[r] = regs'[r]
      /\ \A r \in Regs \ {Acc} : regs'[r] = regs[r]
  BY <1>1, <1>2, <1>3, <1>4
<1>6. ASSUME NEW d \in 1..Depth, NEW p \in DOMAIN stack[d].holds \cap Regs
      PROVE  regs'[p] = regs[p]
  <2>1. CASE d # Depth
    <3>1. DOMAIN stack[d].holds \cap Volatile = {}
      BY <1>2, <2>1 DEF ShapeInv
    <3>. QED
      BY <1>3, <1>5, <3>1
  <2>2. CASE d = Depth
    <3>1. DOMAIN Top.holds \subseteq (IRegs \cap Volatile) \ {Acc}
      BY <1>2, NewFrames DEF WellFormed
    <3>. QED
      BY <1>2, <1>5, <2>2, <3>1
  <2>. QED
    BY <2>1, <2>2
<1>7. ShapeInv' /\ ContentsInv' /\ Top' = Top /\ Depth' = Depth
  BY <1>1, <1>6, Idles
<1>8. TypeInv' /\ ModeInv' /\ DumpInv'
  BY <1>1, <1>2, <1>5, <1>7 DEF TypeInv, ModeInv, DumpInv, Interpreted
<1>. QED
  BY <1>7, <1>8 DEF IInv

\* The growth of the stack fails, native code throws or catches, or nothing
\* happens at all.
LEMMA ModeChanges ==
  ASSUME IInv, UNCHANGED <<regs, dump, stack, collections, growths>>,
         GrowFails \/ NativeThrow \/ CompiledCatch \/ mode' = mode
  PROVE  IInv'
<1>1. ShapeInv' /\ ContentsInv' /\ Top' = Top /\ Depth' = Depth
  BY Idles
<1>2. TypeInv'
  BY DEF IInv, TypeInv, GrowFails, NativeThrow, CompiledCatch
<1>3. ModeInv' /\ DumpInv'
  <2>1. ModeInv /\ DumpInv /\ UNCHANGED <<regs, dump, growths>>
    BY DEF IInv
  <2>2. CASE GrowFails
    BY <1>1, <2>1, <2>2 DEF GrowFails, ModeInv, DumpInv, Interpreted
  <2>3. CASE NativeThrow
    BY <1>1, <2>1, <2>3 DEF NativeThrow, NativeTop, ModeInv, DumpInv, Interpreted
  <2>4. CASE CompiledCatch
    <3>1. ~Interpreted(Top)
      BY <2>4, MethodsAssumption DEF CompiledCatch, Interpreted, Native
    <3>. QED
      BY <1>1, <2>1, <2>4, <3>1 DEF CompiledCatch, ModeInv, DumpInv, Interpreted
  <2>5. CASE mode' = mode
    BY <1>1, <2>1, <2>5 DEF ModeInv, DumpInv, Interpreted
  <2>. QED
    BY <2>2, <2>3, <2>4, <2>5
<1>. QED
  BY <1>1, <1>2, <1>3 DEF IInv
------------------------------------------------------------------------------
\* Objects or the stack move.
LEMMA MovedShape ==
  ASSUME IInv, NEW L, NEW K, Counted(K), stack' = MovedFrames(L, K)
  PROVE  /\ stack' \in Seq(Frame) /\ Depth' = Depth /\ ShapeInv'
         /\ Top'.method = Top.method /\ Top'.entered = Top.entered
         /\ \A d \in 1..Depth : RecordIsZero(d)'
<1>1. /\ TypeInv /\ ShapeInv /\ ContentsInv /\ Depth \in Nat /\ Depth \in 1..Depth
      /\ 1 \in 1..Depth
  BY TopFacts DEF IInv
<1>2. /\ stack' \in Seq(Frame) /\ Depth' = Depth
      /\ \A d \in 1..Depth :
           /\ stack'[d].method = stack[d].method /\ stack'[d].entered = stack[d].entered
           /\ stack'[d].holds = stack[d].holds /\ stack'[d].info = stack[d].info
           /\ Len(stack'[d].saved) = Len(stack[d].saved)
           /\ \A p \in Words :
                stack'[d].words[p] = IF <<"frame", d, p>> \in L THEN Updated(stack[d].words[p], K)
                                     ELSE stack[d].words[p]
  BY <1>1, MovedStack
<1>3. Top'.method = Top.method /\ Top'.entered = Top.entered
  BY <1>1, <1>2 DEF Top
<1>4. \A d \in 1..Depth : WellFormed(stack'[d])
  BY <1>1, <1>2 DEF ShapeInv, WellFormed, Interpreted
<1>5. ShapeInv'
  <2>1. stack'[1].method = "compiled"
    BY <1>1, <1>2 DEF ShapeInv
  <2>2. \A d \in 1..(Depth - 1) : d \in 1..Depth
    BY <1>1
  <2>3. \A d \in 1..(Depth - 1) :
          /\ stack'[d].method \notin {"runtime", "thrower"}
          /\ Interpreted(stack'[d]) => stack'[d].entered
          /\ \/ (Top'.method = "runtime" /\ d = Depth - 1)
             \/ DOMAIN stack'[d].holds \cap Volatile = {}
    BY <1>1, <1>2, <1>3, <2>2 DEF ShapeInv, Interpreted
  <2>. QED
    BY <1>2, <1>4, <2>1, <2>3 DEF ShapeInv
<1>6. ASSUME NEW d \in 1..Depth
      PROVE  RecordIsZero(d)'
  <2>1. RecordIsZero(d)
    BY <1>1 DEF ContentsInv
  <2>2. Updated(Zero, K) = Zero
    BY <1>1, Updates DEF Counted
  <2>3. /\ stack'[d].entered = stack[d].entered
        /\ stack'[d].holds = stack[d].holds
        /\ stack'[d].words[RecSlot] \in {stack[d].words[RecSlot], Updated(stack[d].words[RecSlot], K)}
    <3>1. RecSlot \in Words
      BY DEF Words
    <3>. QED
      BY <1>2, <3>1
  <2>4. CASE stack[d].words[RecSlot] = Zero
    BY <2>2, <2>3, <2>4 DEF RecordIsZero
  <2>5. CASE stack[d].words[RecSlot] # Zero
    BY <2>1, <2>3, <2>5 DEF RecordIsZero
  <2>. QED
    BY <2>4, <2>5
<1>. QED
  BY <1>2, <1>3, <1>5, <1>6

\* The words of a frame that uses them are found: it was entered, or is the
\* one in whose prologue the stack grows.
LEMMA HeldPlaces ==
  ASSUME IInv, NEW d \in 1..Depth, NEW p \in DOMAIN stack[d].holds
  PROVE  /\ d \in Nat /\ p \in Places /\ stack[d].holds[p] \in Kinds \cap Values(p)
         /\ VisitedFrame(stack[d]) \/ (d = Depth /\ ~Top.entered /\ Interpreted(Top)
                                         /\ Top.holds = Params[Top.method])
<1>1. /\ stack \in Seq(Frame) /\ ShapeInv /\ Depth \in Nat
  BY DEF IInv, TypeInv
<1>2. stack[d] \in Frame /\ WellFormed(stack[d])
  BY <1>1 DEF ShapeInv
<1>3. p \in Places /\ stack[d].holds[p] \in Kinds \cap Values(p)
  BY <1>2 DEF Frame, Holding, WellFormed
<1>4. Interpreted(stack[d]) /\ stack[d].info
  BY <1>2 DEF WellFormed
<1>5. stack[d].entered \/ d = Depth
  BY <1>1, <1>4 DEF ShapeInv
<1>6. ~stack[d].entered => stack[d].holds = Params[stack[d].method]
  BY <1>2, <1>4 DEF WellFormed
<1>. QED
  BY <1>3, <1>4, <1>5, <1>6 DEF VisitedFrame, Top

LEMMA CollectKeeps ==
  ASSUME IInv, Collect
  PROVE  IInv'
<1> DEFINE K == {"heap"}
<1>1. /\ mode \in {"run", "throw"} /\ ~Interpreted(Top) /\ collections < MaxCollections
      /\ regs' = MovedRegisters(Roots, regs, K) /\ stack' = MovedFrames(Roots, K)
      /\ collections' = collections + 1 /\ UNCHANGED <<mode, dump, growths>>
  BY DEF Collect, MayCollect
<1>2. /\ TypeInv /\ ShapeInv /\ ContentsInv /\ Depth \in Nat /\ regs \in [Regs -> Word]
      /\ collections \in 0..MaxCollections /\ MaxCollections \in Nat
  BY TopFacts, BoundsAssumption DEF IInv, TypeInv
<1>3. Counted(K)
  <2>1. \A k \in Kinds : Epoch(k)' = IF k \in K THEN Epoch(k) + 1 ELSE Epoch(k)
    BY <1>1 DEF Kinds, Epoch
  <2>. QED
    BY <2>1 DEF Counted
<1>4. /\ stack' \in Seq(Frame) /\ Depth' = Depth /\ ShapeInv'
      /\ Top'.method = Top.method /\ Top'.entered = Top.entered
      /\ \A d \in 1..Depth : RecordIsZero(d)'
  BY <1>1, <1>3, MovedShape
<1>5. \A r \in Regs :
        regs'[r] = IF <<"registers", 0, r>> \in Roots THEN Updated(regs[r], K) ELSE regs[r]
  BY <1>1, <1>2 DEF MovedRegisters
<1>6. regs' \in [Regs -> Word]
  <2>1. \A w \in Word : Updated(w, K) \in Word
    BY <1>2, Updates
  <2>. QED
    BY <1>1, <1>2, <2>1 DEF MovedRegisters
<1>7. TypeInv' /\ ModeInv' /\ DumpInv'
  BY <1>1, <1>2, <1>4, <1>6 DEF IInv, TypeInv, ModeInv, DumpInv, Interpreted
<1>8. ASSUME NEW d \in 1..Depth, NEW p \in DOMAIN stack[d].holds
      PROVE  InPlace(d, p)'
  <2>1. InPlace(d, p)
    BY <1>2 DEF ContentsInv
  <2>2. stack[d].holds[p] \in K => Location(d, p) \in Roots
    <3>1. VisitedFrame(stack[d])
      BY <1>1, HeldPlaces
    <3>2. stack[d].holds[p] \in K => p \in RootsOf(d)
      BY <3>1 DEF RootsOf, References
    <3>. QED
      BY <3>2 DEF Roots
  <2>. QED
    BY <1>1, <1>2, <1>3, <1>5, <2>1, <2>2, Moves
<1>9. ContentsInv'
  <2>1. \A d \in 1..Depth : stack'[d].holds = stack[d].holds
    BY <1>1, <1>2, MovedStack
  <2>. QED
    BY <1>4, <1>8, <2>1 DEF ContentsInv
<1>. QED
  BY <1>4, <1>7, <1>9 DEF IInv

LEMMA GrowKeeps ==
  ASSUME IInv, Grow
  PROVE  IInv'
<1> DEFINE K == {"local", "address"}
<1>1. /\ mode = "grow" /\ mode' = "prologue" /\ dump' = NoDump
      /\ regs' = Restored(MovedRegisters(StackRoots, dump, K))
      /\ stack' = MovedFrames(StackRoots, K)
      /\ growths' = growths + 1 /\ UNCHANGED collections
  BY DEF Grow
<1>2. /\ TypeInv /\ ShapeInv /\ ContentsInv /\ Depth \in Nat /\ regs \in [Regs -> Word]
      /\ dump \in [IRegs -> Word] /\ \A r \in IRegs : dump[r] = regs[r]
      /\ growths \in 0..MaxGrowths /\ growths < MaxGrowths /\ MaxGrowths \in Nat
      /\ Interpreted(Top) /\ ~Top.entered /\ Top = stack[Depth]
  BY <1>1, TopFacts, BoundsAssumption DEF IInv, TypeInv, ModeInv, DumpInv, Top
<1>3. Counted(K)
  <2>1. \A k \in Kinds : Epoch(k)' = IF k \in K THEN Epoch(k) + 1 ELSE Epoch(k)
    BY <1>1 DEF Kinds, Epoch
  <2>. QED
    BY <2>1 DEF Counted
<1>4. /\ stack' \in Seq(Frame) /\ Depth' = Depth /\ ShapeInv'
      /\ Top'.method = Top.method /\ Top'.entered = Top.entered
      /\ \A d \in 1..Depth : RecordIsZero(d)'
  BY <1>1, <1>3, MovedShape
<1>5. /\ \A r \in IRegs :
           regs'[r] = IF <<"registers", 0, r>> \in StackRoots THEN Updated(regs[r], K) ELSE regs[r]
      /\ \A r \in Regs \ IRegs : regs'[r] = regs[r]
  BY <1>1, <1>2 DEF MovedRegisters, Restored
<1>6. regs' \in [Regs -> Word]
  <2>1. \A w \in Word : Updated(w, K) \in Word
    BY <1>2, Updates
  <2>2. \A r \in Regs : regs'[r] \in Word
    BY <1>2, <1>5, <2>1
  <2>3. regs' = [r \in Regs |-> regs'[r]]
    BY <1>1 DEF Restored
  <2>. QED
    BY <2>2, <2>3
<1>7. dump' \in [IRegs -> Word]
  <2>1. Zero \in Word
    BY DEF Zero, Word, Kinds
  <2>. QED
    BY <1>1, <2>1 DEF NoDump
<1>8. TypeInv' /\ ModeInv' /\ DumpInv'
  BY <1>1, <1>2, <1>4, <1>6, <1>7 DEF TypeInv, ModeInv, DumpInv, Interpreted
<1>9. ASSUME NEW d \in 1..Depth, NEW p \in DOMAIN stack[d].holds
      PROVE  InPlace(d, p)'
  <2>1. InPlace(d, p)
    BY <1>2 DEF ContentsInv
  <2>2. stack[d].holds[p] \in K => Location(d, p) \in StackRoots
    <3>1. stack[d].holds[p] \in K => p \in StackRootsOf(d)
      <4>1. CASE d = Depth
        BY <1>2, <4>1, HeldPlaces DEF StackRootsOf, References, VisitedFrame
      <4>2. CASE d # Depth
        BY <4>2, HeldPlaces DEF StackRootsOf, RootsOf, References
      <4>. QED
        BY <4>1, <4>2
    <3>. QED
      BY <3>1 DEF StackRoots
  <2>3. p \in Regs \ IRegs => stack[d].holds[p] \notin K
    BY HeldPlaces DEF Values
  <2>. QED
    BY <1>1, <1>2, <1>3, <1>5, <2>1, <2>2, <2>3, Moves
<1>10. ContentsInv'
  <2>1. \A d \in 1..Depth : stack'[d].holds = stack[d].holds
    BY <1>1, <1>2, MovedStack
  <2>. QED
    BY <1>4, <1>9, <2>1 DEF ContentsInv
<1>. QED
  BY <1>4, <1>8, <1>10 DEF IInv
------------------------------------------------------------------------------
(***************************************************************************)
(* The invariant.  It needs every check of the program to have a state     *)
(* point, which the checked conversions have not.                          *)
(***************************************************************************)
EveryCheckHasAStatePoint == \A c \in Checks : HasStatePoint(c)

LEMMA InitInv == Init => IInv
<1> SUFFICES ASSUME Init
             PROVE  IInv
  OBVIOUS
<1> DEFINE f == NativeFrame("compiled")
<1>1. /\ mode = "run" /\ regs = [r \in Regs |-> Zero] /\ dump = [r \in IRegs |-> Zero]
      /\ stack = <<f>> /\ collections = 0 /\ growths = 0
  BY DEF Init
<1>2. "compiled" \in Native /\ "compiled" \notin Methods
  BY MethodsAssumption DEF Native
<1>3. f \in Frame /\ WellFormed(f) /\ f.method = "compiled"
  BY <1>2, NewFrames DEF NativeFrame, NewFrame
<1>. HIDE DEF f
<1>4. ~Interpreted(f) /\ ~f.entered /\ DOMAIN f.holds = {}
  BY <1>2, <1>3 DEF Interpreted, WellFormed
<1>5. stack \in Seq(Frame) /\ Depth = 1 /\ stack[1] = f /\ Top = f
  BY <1>1, <1>3 DEF Top
<1>6. Zero \in Word
  BY DEF Zero, Word, Kinds
<1>7. TypeInv
  BY <1>1, <1>5, <1>6, BoundsAssumption DEF TypeInv
<1>8. \A d \in 1..Depth : d = 1
  BY <1>5
<1>9. ShapeInv
  BY <1>3, <1>5, <1>8 DEF ShapeInv
<1>10. ModeInv /\ DumpInv
  BY <1>1, <1>4, <1>5 DEF ModeInv, DumpInv
<1>11. ContentsInv
  BY <1>4, <1>5, <1>8 DEF ContentsInv, RecordIsZero
<1>. QED
  BY <1>7, <1>9, <1>10, <1>11 DEF IInv

LEMMA NextInv ==
  ASSUME EveryCheckHasAStatePoint, IInv, [Next]_vars
  PROVE  IInv'
<1>1. ASSUME NEW p \in Places, NEW k \in Kinds, Write(p, k)
      PROVE  IInv'
  BY <1>1, WriteKeeps
<1>2. ASSUME NEW m \in Methods, CallInterpreted(m)
      PROVE  IInv'
  BY <1>2, CallInterpretedKeeps
<1>3. CASE CallCompiled
  BY <1>3, CallCompiledKeeps
<1>4. CASE Thunk
  BY <1>4, ThunkKeeps
<1>5. ASSUME NEW c \in Checks, ThrowImplicit(c)
      PROVE  IInv'
  BY <1>5, ThrowImplicitKeeps DEF EveryCheckHasAStatePoint
<1>6. ASSUME NEW r \in {Result, Acc}, NativeReturn(r)
      PROVE  IInv'
  BY <1>6, NativeReturnKeeps
<1>7. CASE Return
  BY <1>7, ReturnKeeps
<1>8. CASE Enter
  BY <1>8, EnterKeeps
<1>9. CASE StackOverflow
  BY <1>9, StackOverflowKeeps
<1>10. CASE Grow
  BY <1>10, GrowKeeps
<1>11. CASE GrowFails \/ NativeThrow \/ CompiledCatch
  BY <1>11, ModeChanges DEF GrowFails, NativeThrow, CompiledCatch
<1>12. CASE Collect
  BY <1>12, CollectKeeps
<1>13. CASE Throw
  BY <1>13, ThrowKeeps
<1>14. CASE Catch
  BY <1>14, CatchKeeps
<1>15. CASE Unwind
  BY <1>15, UnwindKeeps
<1>16. CASE HandleSoe
  BY <1>16, HandleSoeKeeps
<1>17. CASE CompiledUnwind
  BY <1>17, CompiledUnwindKeeps
<1>18. CASE UNCHANGED vars
  BY <1>18, ModeChanges DEF vars
<1>. QED
  BY <1>1, <1>2, <1>3, <1>4, <1>5, <1>6, <1>7, <1>8, <1>9, <1>10, <1>11, <1>12, <1>13, <1>14,
     <1>15, <1>16, <1>17, <1>18 DEF Next, Unwinding

\* What a frame put into a place is in the frame, in the register, or where the
\* first of the younger frames that used the register has saved it.
THEOREM Invariant == EveryCheckHasAStatePoint /\ Spec => []IInv
<1> SUFFICES ASSUME EveryCheckHasAStatePoint PROVE Spec => []IInv
  OBVIOUS
<1>1. IInv /\ [Next]_vars => IInv'
  BY NextInv
<1>. QED
  BY <1>1, InitInv, PTL DEF Spec

\* The registers, the dump and the frames have their types, and a frame has
\* saved as many registers as its method uses, once it was entered.
THEOREM TypeCorrect == EveryCheckHasAStatePoint /\ Spec => []TypeOK
<1>1. IInv => TypeOK
  <2> SUFFICES ASSUME IInv PROVE TypeOK
    OBVIOUS
  <2>1. TypeInv /\ ShapeInv /\ ModeInv /\ stack # <<>>
    BY DEF IInv, TypeInv
  <2>2. ASSUME NEW d \in 1..Depth
        PROVE  /\ IsFrame(stack[d])
               /\ Len(stack[d].saved) =
                    IF stack[d].entered THEN Len(SaveList(stack[d].method)) ELSE 0
    <3>1. stack[d] \in Frame /\ WellFormed(stack[d])
      BY <2>1 DEF TypeInv, ShapeInv
    <3>2. /\ stack[d].saved \in Seq(Word) /\ stack[d].words \in [Words -> Word]
          /\ stack[d].holds \in Holding /\ stack[d].method \in Methods \cup Native
          /\ stack[d].entered \in BOOLEAN /\ stack[d].info \in BOOLEAN
      BY <3>1 DEF Frame
    <3>3. \A k \in DOMAIN stack[d].saved : stack[d].saved[k] \in Word
      BY <3>2
    <3>4. /\ DOMAIN stack[d].holds \subseteq Places
          /\ \A p \in DOMAIN stack[d].holds : stack[d].holds[p] \in Kinds
      BY <3>2 DEF Holding
    <3>. QED
      BY <3>1, <3>2, <3>3, <3>4 DEF IsFrame, WellFormed
  <2>. QED
    BY <2>1, <2>2 DEF TypeOK, TypeInv, ModeInv
<1>. QED
  BY <1>1, Invariant, PTL

\* An interpreted method that goes on after calls, collections, growths of the
\* stack and exceptions finds in its registers and its frame what it put there.
THEOREM LocalsKept == EveryCheckHasAStatePoint /\ Spec => []LocalsSurvive
<1>1. IInv => LocalsSurvive
  <2> SUFFICES ASSUME IInv, NEW p \in DOMAIN Top.holds
               PROVE  (IF p \in Regs THEN regs[p] ELSE Top.words[p]) = Fresh(Top.holds[p], Depth, p)
    BY DEF LocalsSurvive
  <2>1. Depth \in Nat /\ Depth \in 1..Depth /\ (Depth + 1)..Depth = {}
    BY TopFacts
  <2>2. InPlace(Depth, p) /\ p \in Places
    BY <2>1, HeldPlaces DEF IInv, ContentsInv, Top
  <2>. QED
    BY <2>1, <2>2 DEF InPlace, Kept, Top
<1>. QED
  BY <1>1, Invariant, PTL

LEMMA FirstKeepers ==
  ASSUME Depth \in Nat, NEW d \in Nat, NEW r,
         \E j \in (d + 1)..Depth : Keeps(stack[j], r)
  PROVE  \E j \in (d + 1)..Depth : FirstKeeper(d, j, r)
<1> DEFINE S == {j \in (d + 1)..Depth : Keeps(stack[j], r)}
           Less == OpToRel(<, Nat)
<1>1. \A n, k \in Nat : k < n => <<k, n>> \in Less
  BY DEF OpToRel
<1>2. S \in SUBSET Nat /\ S # {}
  OBVIOUS
<1>3. PICK n \in S : \A k \in S : <<k, n>> \notin Less
  <2>. HIDE DEF S
  <2>. QED
    BY <1>2, NatLessThanWellFounded, WFMin
<1>. HIDE DEF Less
<1>4. \A i \in (d + 1)..(n - 1) : i \in (d + 1)..Depth /\ i \in Nat /\ i < n /\ n \in Nat
  BY <1>3
<1>5. \A i \in (d + 1)..(n - 1) : ~Keeps(stack[i], r)
  BY <1>1, <1>3, <1>4
<1>. QED
  BY <1>3, <1>5 DEF FirstKeeper

\* The walk finds what is put into a place.
LEMMA PlacesAreFound ==
  ASSUME IInv, NEW d \in 1..Depth, NEW p \in DOMAIN stack[d].holds, p \notin FRegs
  PROVE  Content(Location(d, p)) = Fresh(stack[d].holds[p], d, p)
<1>1. TypeInv /\ ShapeInv /\ DumpInv /\ InPlace(d, p) /\ p \in Places /\ d \in Nat /\ Depth \in Nat
  BY TopFacts, HeldPlaces DEF IInv, ContentsInv
<1>2. CASE p \in Words
  BY <1>1, <1>2 DEF InPlace, Kept, Location, Content
<1>3. CASE p \in IRegs /\ \A j \in (d + 1)..Depth : ~Keeps(stack[j], p)
  <2>1. Location(d, p) = <<"registers", 0, p>>
    BY <1>1, <1>3, Locations
  <2>2. regs[p] = Kept(d, p)
    BY <1>1, <1>3 DEF InPlace
  <2>3. mode = "grow" => dump[p] = regs[p]
    BY <1>1, <1>3 DEF DumpInv
  <2>. QED
    BY <2>1, <2>2, <2>3 DEF Content, Kept
<1>4. CASE p \in IRegs /\ \E j \in (d + 1)..Depth : Keeps(stack[j], p)
  <2>1. PICK j \in (d + 1)..Depth : FirstKeeper(d, j, p)
    BY <1>1, <1>4, FirstKeepers
  <2>2. Location(d, p) = <<"saved", j, Index(stack[j].method, p)>>
    BY <1>1, <1>4, <2>1, Locations
  <2>3. stack[j].saved[Index(stack[j].method, p)] = Kept(d, p)
    BY <1>1, <1>4, <2>1 DEF InPlace
  <2>. QED
    BY <2>2, <2>3 DEF Content, Kept
<1>. QED
  BY <1>1, <1>2, <1>3, <1>4

\* The references of a frame that is visited are found.
LEMMA RootsAreFound ==
  ASSUME IInv, NEW d \in 1..Depth, NEW p \in RootsOf(d)
  PROVE  Found(d, p, KindIn(stack[d].holds, p))
<1>1. VisitedFrame(stack[d]) /\ (p \in DOMAIN stack[d].holds \/ p = RecSlot)
  BY DEF RootsOf
<1>2. CASE p \in DOMAIN stack[d].holds
  <2>1. p \notin FRegs
    <3>1. p = RecSlot \/ stack[d].holds[p] \in References
      BY <1>1 DEF RootsOf
    <3>2. RecSlot \notin FRegs
      BY RegistersAssumption
    <3>3. stack[d].holds[p] \in Values(p)
      BY <1>2, HeldPlaces
    <3>. QED
      BY <3>1, <3>2, <3>3 DEF Values, References
  <2>. QED
    BY <1>2, <2>1, PlacesAreFound DEF Found, KindIn
<1>3. CASE p \notin DOMAIN stack[d].holds
  <2>1. p = RecSlot /\ RecordIsZero(d)
    BY <1>1, <1>3 DEF IInv, ContentsInv
  <2>2. Location(d, p) = <<"frame", d, p>>
    BY <2>1 DEF Location
  <2>3. stack[d].words[RecSlot] = Zero
    BY <1>1, <1>3, <2>1 DEF RecordIsZero, VisitedFrame
  <2>. QED
    BY <2>1, <2>2, <2>3 DEF Found, Content
<1>. QED
  BY <1>2, <1>3

\* The collector is shown the references of every frame, where they are.
THEOREM ReferencesFound == EveryCheckHasAStatePoint /\ Spec => []CollectorFindsReferences
<1>1. IInv => CollectorFindsReferences
  BY RootsAreFound DEF CollectorFindsReferences
<1>. QED
  BY <1>1, Invariant, PTL

\* So is the runtime when it moves the stack.
THEOREM PointersFound == EveryCheckHasAStatePoint /\ Spec => []ExpansionFindsPointers
<1>1. IInv => ExpansionFindsPointers
  <2> SUFFICES ASSUME IInv, mode = "grow", NEW d \in 1..Depth, NEW p \in StackRootsOf(d)
               PROVE  Found(d, p, IF d = Depth THEN Params[Top.method][p]
                                  ELSE KindIn(stack[d].holds, p))
    BY DEF ExpansionFindsPointers
  <2>1. CASE d = Depth
    <3>1. Interpreted(Top) /\ ~Top.entered /\ WellFormed(Top) /\ Top.method \in Methods
      BY TopFacts DEF IInv, ModeInv, Interpreted
    <3>2. Top = stack[d] /\ Top.holds = Params[Top.method] /\ p \in DOMAIN Top.holds
      BY <2>1, <3>1 DEF StackRootsOf, WellFormed, Top
    <3>3. p \notin FRegs
      BY <3>1, <3>2, NewFrames, RegistersAssumption
    <3>. QED
      BY <2>1, <3>2, <3>3, PlacesAreFound DEF Found
  <2>2. CASE d # Depth /\ p \in RootsOf(d)
    BY <2>2, RootsAreFound
  <2>3. CASE d # Depth /\ p \notin RootsOf(d)
    <3>1. p \in DOMAIN stack[d].holds /\ stack[d].holds[p] = "address"
      BY <2>3 DEF StackRootsOf
    <3>2. p \notin FRegs
      BY <3>1, HeldPlaces DEF Values
    <3>. QED
      BY <2>3, <3>1, <3>2, PlacesAreFound DEF Found, KindIn
  <2>. QED
    BY <2>1, <2>2, <2>3
<1>. QED
  BY <1>1, Invariant, PTL

\* Wherever a collection may happen, every frame below is at a position that
\* has its information, as stack_expansion.cpp requires of every state point.
THEOREM InfoFound == EveryCheckHasAStatePoint /\ Spec => []CollectionsFindInfo
<1>1. IInv => CollectionsFindInfo
  BY DEF IInv, ShapeInv, WellFormed, CollectionsFindInfo
<1>. QED
  BY <1>1, Invariant, PTL
==============================================================================
