----------------------------- MODULE RewriterProofs -----------------------------
(***************************************************************************)
(* Theorems about the rewriter: behind every operation that may collect or *)
(* throw there is a state point, and a try block holds the operations of   *)
(* its instructions.                                                       *)
(***************************************************************************)
EXTENDS Rewriter, SequenceTheorems, WellFoundedInduction, TLAPS

--------------------------------------------------------------------------------
(* Induction, and what emitting one item after the other comes to *)

\* Induction over the numbers, with the set of those that have the property.
LEMMA Induction ==
  ASSUME NEW S, 0 \in S, \A n \in Nat : n \in S => n + 1 \in S
  PROVE  Nat \subseteq S
<1> SUFFICES ASSUME Nat \ S # {} PROVE FALSE
  OBVIOUS
<1> DEFINE R == OpToRel(<, Nat)
           T == Nat \ S
<1>1. IsWellFoundedOn(R, Nat)
  BY NatLessThanWellFounded
<1>2. PICK x \in T : \A y \in T : ~ (<<y, x>> \in R)
  BY <1>1, WFMin
<1>3. x # 0
  OBVIOUS
<1>4. x - 1 \in Nat /\ x - 1 < x
  BY <1>3
<1>5. <<x - 1, x>> \in R
  BY <1>4 DEF OpToRel
<1>6. x - 1 \in S
  <2> HIDE DEF R
  <2> QED BY <1>2, <1>4, <1>5
<1> HIDE DEF R
<1> QED
  BY <1>3, <1>4, <1>6

\* The greatest of the first n positive numbers, and of a set of them that has the last.
LEMMA GreatestIsLast ==
  ASSUME NEW n \in Nat, NEW s \in SUBSET (1..n + 1), n + 1 \in s
  PROVE  Max(s) = n + 1
<1>1. \A y \in s : n + 1 >= y
  OBVIOUS
<1>2. \A x \in s : (\A y \in s : x >= y) => x = n + 1
  OBVIOUS
<1> QED
  BY <1>1, <1>2 DEF Max

\* What Folds computes for every set of positions.
IsFoldOver(H, domain, emitted, items, originalPos) ==
  H = [s \in SUBSET domain |->
         IF s = {} THEN emitted ELSE Emit(H[s \ {Max(s)}], items[Max(s)], originalPos)]

LEMMA FoldExists ==
  ASSUME NEW emitted, NEW items, NEW originalPos
  PROVE  \A n \in Nat : \E H : IsFoldOver(H, 1..n, emitted, items, originalPos)
<1> DEFINE S == {n \in Nat : \E H : IsFoldOver(H, 1..n, emitted, items, originalPos)}
<1>1. 0 \in S
  <2> DEFINE H0 == [s \in SUBSET (1..0) |-> emitted]
  <2>1. \A s \in SUBSET (1..0) : s = {}
    OBVIOUS
  <2>2. H0 = [s \in SUBSET (1..0) |->
                IF s = {} THEN emitted ELSE Emit(H0[s \ {Max(s)}], items[Max(s)], originalPos)]
    BY <2>1
  <2> HIDE DEF H0
  <2>3. IsFoldOver(H0, 1..0, emitted, items, originalPos)
    BY <2>2 DEF IsFoldOver
  <2> QED
    BY <2>3
<1>2. ASSUME NEW n \in Nat, n \in S
      PROVE  n + 1 \in S
  <2>1. PICK H : IsFoldOver(H, 1..n, emitted, items, originalPos)
    BY <1>2
  <2> DEFINE H1 == [s \in SUBSET (1..n + 1) |->
                      IF n + 1 \in s THEN Emit(H[s \ {n + 1}], items[n + 1], originalPos) ELSE H[s]]
             Next1(s) == IF s = {} THEN emitted
                         ELSE Emit(H1[s \ {Max(s)}], items[Max(s)], originalPos)
  <2>2. ASSUME NEW s \in SUBSET (1..n + 1), n + 1 \in s
        PROVE  H1[s] = Next1(s)
    <3>1. Max(s) = n + 1
      BY <2>2, GreatestIsLast
    <3>2. /\ s \ {n + 1} \in SUBSET (1..n + 1)
          /\ n + 1 \notin s \ {n + 1}
          /\ s # {}
      BY <2>2
    <3>3. H1[s \ {n + 1}] = H[s \ {n + 1}]
      BY <3>2
    <3> QED
      BY <2>2, <3>1, <3>2, <3>3
  <2>3. ASSUME NEW s \in SUBSET (1..n + 1), n + 1 \notin s
        PROVE  H1[s] = Next1(s)
    <3>1. s \in SUBSET (1..n)
      BY <2>3
    <3>2. H[s] = IF s = {} THEN emitted ELSE Emit(H[s \ {Max(s)}], items[Max(s)], originalPos)
      BY <2>1, <3>1 DEF IsFoldOver
    <3>3. /\ s \ {Max(s)} \in SUBSET (1..n + 1)
          /\ n + 1 \notin s \ {Max(s)}
      BY <2>3
    <3>4. H1[s \ {Max(s)}] = H[s \ {Max(s)}]
      BY <3>3
    <3>5. H1[s] = H[s]
      BY <2>3
    <3> QED
      BY <3>2, <3>4, <3>5
  <2>4. H1 = [s \in SUBSET (1..n + 1) |-> H1[s]]
    OBVIOUS
  <2>5. H1 = [s \in SUBSET (1..n + 1) |-> Next1(s)]
    <3> HIDE DEF H1, Next1
    <3> QED BY <2>2, <2>3, <2>4
  <2>6. IsFoldOver(H1, 1..n + 1, emitted, items, originalPos)
    <3> HIDE DEF H1
    <3> QED BY <2>5 DEF IsFoldOver
  <2> QED
    BY <2>6
<1> HIDE DEF S
<1>3. Nat \subseteq S
  BY <1>1, <1>2, Induction
<1> QED
  BY <1>3 DEF S

\* The items are emitted one after the other.
Emits(G, emitted, items, originalPos) ==
  /\ G[0] = emitted
  /\ \A i \in 1..Len(items) : G[i] = Emit(G[i - 1], items[i], originalPos)
  /\ EmitAll(emitted, items, originalPos) = G[Len(items)]

LEMMA EmittingInTurn ==
  ASSUME NEW S, NEW items \in Seq(S), NEW emitted, NEW originalPos
  PROVE  \E G : Emits(G, emitted, items, originalPos)
<1> DEFINE n == Len(items)
           Is(H) == H = [s \in SUBSET DOMAIN items |->
                           IF s = {} THEN emitted
                           ELSE Emit(H[s \ {Max(s)}], items[Max(s)], originalPos)]
           F == CHOOSE H : Is(H)
<1>1. n \in Nat /\ DOMAIN items = 1..n
  OBVIOUS
<1>2. EmitAll(emitted, items, originalPos) = F[DOMAIN items]
  BY DEF EmitAll, FoldLeft, MapThenFoldSet
<1>3. IsFoldOver(F, 1..n, emitted, items, originalPos)
  <2>1. \E H : IsFoldOver(H, 1..n, emitted, items, originalPos)
    BY <1>1, FoldExists
  <2>2. \A H : Is(H) <=> IsFoldOver(H, 1..n, emitted, items, originalPos)
    BY <1>1 DEF IsFoldOver
  <2> HIDE DEF Is
  <2> QED BY <2>1, <2>2
<1> HIDE DEF F
<1> DEFINE G == [i \in 0..n |-> F[1..i]]
<1>4. G[0] = emitted
  <2>1. F[{}] = emitted
    BY <1>3 DEF IsFoldOver
  <2>2. 1..0 = {}
    OBVIOUS
  <2> QED BY <1>1, <2>1, <2>2
<1>5. ASSUME NEW i \in 1..n
      PROVE  G[i] = Emit(G[i - 1], items[i], originalPos)
  <2> HIDE DEF n
  <2>1. /\ i - 1 \in Nat /\ (i - 1) + 1 = i /\ i - 1 \in 0..n /\ i \in 0..n
        /\ 1..i \in SUBSET (1..n) /\ i \in 1..i
        /\ 1..i \in SUBSET (1..(i - 1) + 1)
    BY <1>1
  <2>4. (1..i) \ {i} = 1..i - 1
    BY <1>1
  <2>2. Max(1..i) = i
    BY <2>1, GreatestIsLast
  <2>3. F[1..i] = Emit(F[(1..i) \ {Max(1..i)}], items[Max(1..i)], originalPos)
    BY <1>3, <2>1 DEF IsFoldOver
  <2> QED
    BY <2>1, <2>2, <2>3, <2>4
<1>6. EmitAll(emitted, items, originalPos) = G[n]
  BY <1>1, <1>2
<1> HIDE DEF G
<1>7. Emits(G, emitted, items, originalPos)
  BY <1>4, <1>5, <1>6 DEF Emits
<1> QED
  BY <1>7

--------------------------------------------------------------------------------
(* What a callback gives to the emitter *)

IsSeq(items) == \E S : items \in Seq(S)

\* The labels a callback binds are its own, beside that of the instruction.
BindsOwnLabels(items) ==
  \A i \in DOMAIN items : items[i].kind = "bind" => items[i].to[2] # 0

\* An operation that may collect or throw has its state point right behind it.
IsSafePoint(item) == item.kind \notin {"bind", "state"} /\ item.op \in SafePoints
PointsFollow(items) ==
  \A i \in DOMAIN items :
    IsSafePoint(items[i]) => i + 1 \in DOMAIN items /\ items[i + 1].kind = "state"

Proper(items) == IsSeq(items) /\ BindsOwnLabels(items)
Good(items) == Proper(items) /\ PointsFollow(items)

LEMMA JoinedSeq ==
  ASSUME NEW s, NEW t, IsSeq(s), IsSeq(t)
  PROVE  /\ IsSeq(s \o t)
         /\ Len(s) \in Nat /\ Len(t) \in Nat /\ Len(s \o t) = Len(s) + Len(t)
         /\ DOMAIN s = 1..Len(s) /\ DOMAIN t = 1..Len(t) /\ DOMAIN (s \o t) = 1..Len(s) + Len(t)
         /\ \A i \in 1..Len(s) : (s \o t)[i] = s[i]
         /\ \A i \in 1..Len(t) : (s \o t)[Len(s) + i] = t[i]
<1>1. PICK S : s \in Seq(S)
  BY DEF IsSeq
<1>2. PICK T : t \in Seq(T)
  BY DEF IsSeq
<1> DEFINE U == S \cup T
<1>3. s \in Seq(U) /\ t \in Seq(U)
  BY <1>1, <1>2
<1> HIDE DEF U
<1>4. s \o t \in Seq(U)
  BY <1>3
<1>5. IsSeq(s \o t)
  BY <1>4 DEF IsSeq
<1> QED
  BY <1>3, <1>5

LEMMA JoinedProper ==
  ASSUME NEW s, NEW t, Proper(s), Proper(t)
  PROVE  Proper(s \o t)
<1>1. IsSeq(s) /\ IsSeq(t)
  BY DEF Proper
<1>2. ASSUME NEW i \in DOMAIN (s \o t), (s \o t)[i].kind = "bind"
      PROVE  (s \o t)[i].to[2] # 0
  <2>1. CASE i \in 1..Len(s)
    <3>1. (s \o t)[i] = s[i] /\ i \in DOMAIN s
      BY <1>1, <2>1, JoinedSeq
    <3> QED BY <1>2, <3>1 DEF Proper, BindsOwnLabels
  <2>2. CASE i \notin 1..Len(s)
    <3>1. PICK j \in 1..Len(t) : i = Len(s) + j
      <4>1. /\ Len(s) \in Nat /\ Len(t) \in Nat /\ i \in 1..Len(s) + Len(t)
        BY <1>1, JoinedSeq
      <4>2. i - Len(s) \in 1..Len(t) /\ i = Len(s) + (i - Len(s))
        BY <2>2, <4>1
      <4> QED BY <4>2
    <3>2. (s \o t)[i] = t[j] /\ j \in DOMAIN t
      BY <1>1, <3>1, JoinedSeq
    <3> QED BY <1>2, <3>2 DEF Proper, BindsOwnLabels
  <2> QED
    BY <2>1, <2>2
<1> QED
  BY <1>1, <1>2, JoinedSeq DEF Proper, BindsOwnLabels

LEMMA JoinedGood ==
  ASSUME NEW s, NEW t, Good(s), Good(t)
  PROVE  Good(s \o t)
<1>1. IsSeq(s) /\ IsSeq(t)
  BY DEF Good, Proper
<1>2. /\ Len(s) \in Nat /\ Len(t) \in Nat
      /\ DOMAIN s = 1..Len(s) /\ DOMAIN t = 1..Len(t) /\ DOMAIN (s \o t) = 1..Len(s) + Len(t)
      /\ \A i \in 1..Len(s) : (s \o t)[i] = s[i]
      /\ \A i \in 1..Len(t) : (s \o t)[Len(s) + i] = t[i]
  BY <1>1, JoinedSeq
<1>3. ASSUME NEW i \in DOMAIN (s \o t), IsSafePoint((s \o t)[i])
      PROVE  i + 1 \in DOMAIN (s \o t) /\ (s \o t)[i + 1].kind = "state"
  <2>1. CASE i \in 1..Len(s)
    <3>1. i + 1 \in 1..Len(s) /\ s[i + 1].kind = "state"
      BY <1>2, <1>3, <2>1 DEF Good, PointsFollow
    <3> QED BY <1>2, <3>1
  <2>2. CASE i \notin 1..Len(s)
    <3>1. PICK j \in 1..Len(t) : i = Len(s) + j
      <4>1. i - Len(s) \in 1..Len(t) /\ i = Len(s) + (i - Len(s))
        BY <1>2, <2>2
      <4> QED BY <4>1
    <3>2. (s \o t)[i] = t[j]
      BY <1>2, <3>1
    <3>3. j + 1 \in 1..Len(t) /\ t[j + 1].kind = "state"
      BY <1>2, <1>3, <3>2 DEF Good, PointsFollow
    <3>4. i + 1 = Len(s) + (j + 1) /\ i + 1 \in 1..Len(s) + Len(t)
      BY <1>2, <3>1, <3>3
    <3> QED BY <1>2, <3>3, <3>4
  <2> QED
    BY <2>1, <2>2
<1>4. Proper(s \o t)
  BY JoinedProper DEF Good
<1> QED
  BY <1>3, <1>4 DEF Good, PointsFollow

LEMMA OneItem ==
  ASSUME NEW kind, NEW op, NEW d, NEW u, NEW x, NEW to
  PROVE  /\ IsSeq(Item(kind, op, d, u, x, to))
         /\ Len(Item(kind, op, d, u, x, to)) = 1 /\ DOMAIN Item(kind, op, d, u, x, to) = {1}
         /\ Item(kind, op, d, u, x, to)[1].kind = kind
         /\ Item(kind, op, d, u, x, to)[1].op = op /\ Item(kind, op, d, u, x, to)[1].to = to
<1> DEFINE r == [kind |-> kind, op |-> op, d |-> d, u |-> u, x |-> x, to |-> to]
           items == <<r>>
<1>1. Item(kind, op, d, u, x, to) = items
  BY DEF Item
<1>2. items \in Seq({r}) /\ Len(items) = 1 /\ DOMAIN items = {1} /\ items[1] = r
  OBVIOUS
<1>3. r.kind = kind /\ r.op = op /\ r.to = to
  OBVIOUS
<1> HIDE DEF items
<1>4. IsSeq(items)
  BY <1>2 DEF IsSeq
<1> QED
  BY <1>1, <1>2, <1>3, <1>4

LEMMA NothingIsGood == Good(<<>>)
<1>1. <<>> \in Seq({}) /\ DOMAIN <<>> = {}
  OBVIOUS
<1> QED
  BY <1>1 DEF Good, Proper, IsSeq, BindsOwnLabels, PointsFollow

LEMMA ItemIsProper ==
  ASSUME NEW kind, NEW op, NEW d, NEW u, NEW x, NEW to, kind = "bind" => to[2] # 0
  PROVE  Proper(Item(kind, op, d, u, x, to))
<1> DEFINE items == Item(kind, op, d, u, x, to)
<1>1. IsSeq(items) /\ DOMAIN items = {1} /\ items[1].kind = kind /\ items[1].to = to
  BY OneItem
<1> HIDE DEF items
<1>2. Proper(items)
  BY <1>1 DEF Proper, BindsOwnLabels
<1> QED
  BY <1>2 DEF items

LEMMA ItemIsGood ==
  ASSUME NEW kind, NEW op, NEW d, NEW u, NEW x, NEW to, kind = "bind" => to[2] # 0,
         kind \in {"bind", "state"} \/ op \notin SafePoints
  PROVE  Good(Item(kind, op, d, u, x, to))
<1> DEFINE items == Item(kind, op, d, u, x, to)
<1>1. DOMAIN items = {1} /\ items[1].kind = kind /\ items[1].op = op
  BY OneItem
<1>2. Proper(items)
  BY ItemIsProper
<1> HIDE DEF items
<1>3. Good(items)
  BY <1>1, <1>2 DEF Good, PointsFollow, IsSafePoint
<1> QED
  BY <1>3 DEF items

\* An operation and the state point behind it.
LEMMA PointIsGood ==
  ASSUME NEW op, NEW d, NEW u, NEW x
  PROVE  Good(Do(op, d, u, x) \o BindStatePoint)
<1> DEFINE one == Do(op, d, u, x)
           both == one \o BindStatePoint
<1>1. Proper(one) /\ Proper(BindStatePoint)
  BY ItemIsProper DEF Do, BindStatePoint
<1>2. IsSeq(one) /\ Len(one) = 1
  BY OneItem DEF Do
<1>3. IsSeq(BindStatePoint) /\ Len(BindStatePoint) = 1 /\ BindStatePoint[1].kind = "state"
  <2>1. IsSeq(BindStatePoint) /\ Len(BindStatePoint) = 1
    BY OneItem DEF BindStatePoint
  <2>2. BindStatePoint[1].kind = "state"
    BY OneItem DEF BindStatePoint
  <2> QED
    BY <2>1, <2>2
<1> HIDE DEF one
<1>4. Proper(both)
  BY <1>1, JoinedProper
<1> HIDE DEF both
<1>5. DOMAIN both = 1..Len(one) + Len(BindStatePoint)
  <2> HIDE DEF BindStatePoint
  <2>1. \A s, t : IsSeq(s) /\ IsSeq(t) => DOMAIN (s \o t) = 1..Len(s) + Len(t)
    BY JoinedSeq
  <2>2. DOMAIN (one \o BindStatePoint) = 1..Len(one) + Len(BindStatePoint)
    BY <1>2, <1>3, <2>1
  <2> QED
    BY <2>2 DEF both
<1>6. \A i \in 1..Len(BindStatePoint) : both[Len(one) + i] = BindStatePoint[i]
  <2>1. \A s, t : IsSeq(s) /\ IsSeq(t) =>
          \A i \in 1..Len(t) : (s \o t)[Len(s) + i] = t[i]
    BY JoinedSeq
  <2>2. \A i \in 1..Len(BindStatePoint) :
          (one \o BindStatePoint)[Len(one) + i] = BindStatePoint[i]
    BY <1>2, <1>3, <2>1
  <2> QED
    BY <2>2 DEF both
<1>8. both[2].kind = "state" /\ DOMAIN both = {1, 2}
  BY <1>2, <1>3, <1>5, <1>6
<1> HIDE DEF both
<1>7. Good(both)
  BY <1>4, <1>8 DEF Good, PointsFollow, IsSafePoint
<1> QED
  BY <1>7 DEF both, one

\* The same behind other operations.
LEMMA AppendedPointIsGood ==
  ASSUME NEW s, Good(s), NEW op, NEW d, NEW u, NEW x
  PROVE  Good(s \o Do(op, d, u, x) \o BindStatePoint)
<1> DEFINE one == Do(op, d, u, x)
<1>1. PICK S : s \in Seq(S)
  BY DEF Good, Proper, IsSeq
<1>2. IsSeq(one) /\ IsSeq(BindStatePoint)
  BY OneItem DEF Do, BindStatePoint
<1>3. PICK T : one \in Seq(T)
  BY <1>2 DEF IsSeq
<1>4. PICK V : BindStatePoint \in Seq(V)
  BY <1>2 DEF IsSeq
<1> HIDE DEF one
<1> DEFINE U == S \cup T \cup V
<1>5. s \in Seq(U) /\ one \in Seq(U) /\ BindStatePoint \in Seq(U)
  BY <1>1, <1>3, <1>4
<1> HIDE DEF U
<1>6. (s \o one) \o BindStatePoint = s \o (one \o BindStatePoint)
  BY <1>5
<1>7. Good(one \o BindStatePoint)
  BY PointIsGood DEF one
<1>8. Good(s \o (one \o BindStatePoint))
  BY <1>7, JoinedGood
<1> QED
  BY <1>6, <1>8 DEF one

\* The pieces the callbacks are written with.
GoodPieces ==
  /\ Good(<<>>) /\ Good(BindStatePoint)
  /\ \A s, t : Good(s) /\ Good(t) => Good(s \o t)
  /\ \A op, d, u, x : op \notin SafePoints => Good(Op(op, d, u, x)) /\ Good(Do(op, d, u, x))
  /\ \A op, u, x, to : op \notin SafePoints => Good(Branch(op, u, x, to))
  /\ \A expected, actual : Good(AdjustReg(expected, actual))
  /\ \A op, d, u, x : Good(Do(op, d, u, x) \o BindStatePoint)
  /\ \A s, op, d, u, x : Good(s) => Good(s \o Do(op, d, u, x) \o BindStatePoint)
  /\ \A start, n : n # 0 => Good(Bind(<<start, n>>))

LEMMA PiecesAreGood == GoodPieces
<1>1. Good(<<>>) /\ Good(BindStatePoint)
  BY NothingIsGood, ItemIsGood DEF BindStatePoint
<1>2. \A op, d, u, x : op \notin SafePoints => Good(Op(op, d, u, x)) /\ Good(Do(op, d, u, x))
  BY ItemIsGood DEF Op, Do
<1>3. \A op, u, x, to : op \notin SafePoints => Good(Branch(op, u, x, to))
  BY ItemIsGood DEF Branch
<1>4. \A expected, actual : Good(AdjustReg(expected, actual))
  BY <1>1, <1>2 DEF AdjustReg, SafePoints
<1>5. \A start, n : n # 0 => Good(Bind(<<start, n>>))
  BY ItemIsGood DEF Bind
<1>6. \A op, d, u, x : Good(Do(op, d, u, x) \o BindStatePoint)
  BY PointIsGood
<1>7. \A s, op, d, u, x : Good(s) => Good(s \o Do(op, d, u, x) \o BindStatePoint)
  BY AppendedPointIsGood
<1>8. \A s, t : Good(s) /\ Good(t) => Good(s \o t)
  BY JoinedGood
<1> QED
  BY <1>1, <1>2, <1>3, <1>4, <1>5, <1>6, <1>7, <1>8 DEF GoodPieces

--------------------------------------------------------------------------------
(* The operations of the callbacks *)

LEMMA BranchesAreGood ==
  ASSUME NEW k \in {"Bcc", "BccImm", "Jump"}, NEW a, NEW end
  PROVE  Good(ExpandBranches(k, a, end))
BY PiecesAreGood DEF GoodPieces, ExpandBranches, SafePoints

LEMMA MovesAreGood ==
  ASSUME NEW k \in DOMAIN ParseMoves \cup {"FMovImm"}, NEW a
  PROVE  Good(ExpandMoves(k, a))
<1>1. DOMAIN ParseMoves = {"Nop", "Mov", "FMov", "MovRef", "FloatToInt", "IntToFloat", "MovImm",
                           "MovBasePtr", "BFX"}
  BY DEF ParseMoves
<1> QED
  BY <1>1, PiecesAreGood DEF GoodPieces, ExpandMoves, SafePoints

LEMMA NewArraysAreGood ==
  ASSUME NEW k \in {"NewArr", "NewArrGeneric", "GcPoint", "PrepareRecord"}, NEW a
  PROVE  Good(ExpandNewArrays(k, a))
BY PiecesAreGood DEF GoodPieces, ExpandNewArrays, SafePoints, NewObject

LEMMA NewObjectsAreGood ==
  ASSUME NEW k \in {"NewObj", "NewObjGeneric", "NewClosure", "NewClosureGeneric"}, NEW a
  PROVE  Good(ExpandNewObjects(k, a))
BY PiecesAreGood DEF GoodPieces, ExpandNewObjects, SafePoints, NewObject, NewObjectOf

LEMMA SpawnsAreGood ==
  ASSUME NEW k \in {"Spawn", "SpawnFuture"}, NEW a
  PROVE  Good(ExpandSpawns(k, a))
BY PiecesAreGood DEF GoodPieces, ExpandSpawns, SafePoints

LEMMA FieldStoresAreGood ==
  ASSUME NEW k \in {"St", "StStatic", "StTyped", "StDerived", "StGeneric"}, NEW a
  PROVE  Good(ExpandFieldStores(k, a))
BY PiecesAreGood DEF GoodPieces, ExpandFieldStores, SafePoints, Place

LEMMA MembersAreGood ==
  ASSUME NEW k \in {"LoadStatic", "StoreStatic", "LoadField", "StoreField"}, NEW a
  PROVE  Good(ExpandMembers(k, a))
BY PiecesAreGood DEF GoodPieces, ExpandMembers, SafePoints, Place

LEMMA AtomicsAreGood ==
  ASSUME NEW k \in DOMAIN ParseAtomics, NEW a
  PROVE  Good(ExpandAtomics(k, a))
<1>1. DOMAIN ParseAtomics = {"AtomicLoad", "AtomicStore", "CAS", "AtomicOp"}
  BY DEF ParseAtomics
<1> QED
  BY <1>1, PiecesAreGood DEF GoodPieces, ExpandAtomics, SafePoints

LEMMA CopiesAreGood ==
  ASSUME NEW k \in DOMAIN ParseCopies \cup {"LeaBox"}, NEW a
  PROVE  Good(ExpandCopies(k, a))
<1>1. DOMAIN ParseCopies = {"Copy", "CopyGeneric", "CopyLocal", "CopyToLocal", "CopyFromLocal",
                            "CopyLocalGeneric", "CopyToLocalGeneric", "CopyFromLocalGeneric",
                            "CopyTypeSlot", "CopyToTypeSlot", "CopyFromTypeSlot",
                            "CopyTypeSlotGeneric", "CopyToTypeSlotGeneric",
                            "CopyFromTypeSlotGeneric"}
  BY DEF ParseCopies
<1> QED
  BY <1>1, PiecesAreGood DEF GoodPieces, ExpandCopies, SafePoints

LEMMA TypeInfosAreGood ==
  ASSUME NEW k \in {"LoadTypeInfoGeneric", "LoadTypeInfoSig", "LoadTypeInfoObj", "InstanceOf",
                  "InstanceOfGeneric", "AssignGeneric"}, NEW a
  PROVE  Good(ExpandTypeInfos(k, a))
BY PiecesAreGood DEF GoodPieces, ExpandTypeInfos, SafePoints

LEMMA OffsetsAreGood ==
  ASSUME NEW k \in {"Offset", "AddOffset"}, NEW a
  PROVE  Good(ExpandOffsets(k, a))
BY PiecesAreGood DEF GoodPieces, ExpandOffsets, SafePoints

LEMMA MethodCallsAreGood ==
  ASSUME NEW k \in {"CallVirtual", "CallInterf", "CallInterfGeneric"}, NEW a
  PROVE  Good(ExpandMethodCalls(k, a))
BY PiecesAreGood DEF GoodPieces, ExpandMethodCalls, SafePoints, StageArgs

LEMMA ClosureCallsAreGood ==
  ASSUME NEW k \in {"CallClosure", "CallClosureGeneric"}, NEW a
  PROVE  Good(ExpandClosureCalls(k, a))
BY PiecesAreGood DEF GoodPieces, ExpandClosureCalls, SafePoints, StageArgs

LEMMA RawAreGood ==
  ASSUME NEW k \in {"LeaIndex", "LeaIndexGeneric", "LeaConstIndexGeneric", "LoadRawMemory",
                  "StoreRawMemory", "LoadStackRec", "LoadTailParam"}, NEW a
  PROVE  Good(ExpandRaw(k, a))
BY PiecesAreGood DEF GoodPieces, ExpandRaw, SafePoints

LEMMA SlotsAreGood ==
  ASSUME NEW k \in DOMAIN ParseSlots \ {"FloatOp"}, NEW a
  PROVE  Good(ExpandSlots(k, a))
<1>1. DOMAIN ParseSlots = {"InitString", "ArrayLength", "ArrayIndexCheck", "FloatOp",
                           "LoadUntyped", "StoreUntyped", "StoreUntypedImm", "LoadTyped",
                           "StoreTyped", "StoreTypedImm", "LoadArray", "StoreArray", "TypeArg"}
  BY DEF ParseSlots
<1> QED
  BY <1>1, PiecesAreGood DEF GoodPieces, ExpandSlots, SafePoints

LEMMA FieldLoadsAreGood ==
  ASSUME NEW k \in {"Ld", "Lea", "LdStatic", "LdTyped", "LdDerived", "LeaStatic", "LeaGeneric"}, NEW a
  PROVE  Good(ExpandFieldLoads(k, a))
BY PiecesAreGood DEF GoodPieces, ExpandFieldLoads, Place, SafePoints

Binaries ==
  (DOMAIN ParseBinary \ {"NewArr", "NewArrGeneric", "GcPoint", "BinarySpecialized", "FMovImm32",
                         "FMovImm64", "CheckedConvert"})
    \cup {"FBinary", "FUnary", "FMathUnary", "Scc", "SccImm"}

LEMMA BinaryIsGood ==
  ASSUME NEW k \in Binaries, NEW a
  PROVE  Good(ExpandBinary(k, a))
<1>1. DOMAIN ParseBinary = {"BinarySpecialized", "Binary", "CBinary", "SBinary", "BinaryImm", "CBinaryImm",
                            "SBinaryImm", "Convert", "CheckedConvert", "NewArr", "NewArrGeneric",
                            "FMovImm32", "FMovImm64", "GcPoint"}
  BY DEF ParseBinary
<1> QED
  BY <1>1, PiecesAreGood DEF GoodPieces, Binaries, ExpandBinary, SafePoints

LEMMA GroupsAreGood ==
  ASSUME NEW k \in {"Ret", "RetRef", "FRet", "DivCheck", "NullCheck", "Catch"}, NEW a
  PROVE  Good(ExpandGroups(k, a))
BY PiecesAreGood DEF GoodPieces, ExpandGroups, SafePoints

LEMMA IfRefIsGood ==
  ASSUME NEW ti, NEW start, NEW ofValue, Good(ofValue), NEW ofReference, Good(ofReference)
  PROVE  Good(IfRef(ti, start, ofValue, ofReference))
BY PiecesAreGood DEF GoodPieces, IfRef, SafePoints

LEMMA ZeroValIsGood ==
  ASSUME NEW a, NEW start
  PROVE  Good(ZeroVal(a, start))
<1>1. Good(Do("NewObjGenericOnAcc", IR_ACC, <<a.ti>>, <<>>) \o BindStatePoint \o AdjustReg(a.d, IR_ACC))
  BY PiecesAreGood DEF GoodPieces
<1>2. Good(Op("MovImm", a.d, <<>>, <<0>>))
  BY PiecesAreGood DEF GoodPieces, SafePoints
<1> QED
  BY <1>1, <1>2, IfRefIsGood DEF ZeroVal

LEMMA OptionsAreGood ==
  ASSUME NEW k \in {"TagGeneric", "PayloadGeneric", "NewNoneGeneric", "NewSomeGeneric"},
         NEW a, NEW start
  PROVE  Good(ExpandOptions(k, a, start))
<1>1. CASE k = "TagGeneric"
  <2>1. Good(Op("LoadTag", a.d, <<a.s>>, <<ObjectHeaderSize>>))
    BY PiecesAreGood DEF GoodPieces, SafePoints
  <2>2. \A x : Good(Op("LoadRef", a.d, <<a.s>>, <<ObjectHeaderSize>>) \o Op("SCC", a.d, <<a.d, IRZ>>, x))
    BY PiecesAreGood DEF GoodPieces, SafePoints
  <2> QED
    BY <1>1, <2>1, <2>2, IfRefIsGood DEF ExpandOptions
<1>2. CASE k \in {"PayloadGeneric", "NewNoneGeneric", "NewSomeGeneric"}
  BY <1>2, PiecesAreGood DEF GoodPieces, ExpandOptions, SafePoints
<1> QED
  BY <1>1, <1>2

LEMMA BoxesAreGood ==
  ASSUME NEW k \in {"Box", "BoxGeneric", "BoxT", "BoxTGeneric", "Unbox", "UnboxT"}, NEW a
  PROVE  Good(ExpandBoxes(k, a))
<1>1. CASE k = "Box"
  <2>1. \A id : Good(NewBox(id))
    BY PiecesAreGood DEF GoodPieces, NewBox
  <2> QED
    BY <1>1, <2>1, PiecesAreGood DEF GoodPieces, ExpandBoxes, SafePoints
<1>2. CASE k \in {"BoxGeneric", "BoxT", "BoxTGeneric", "Unbox", "UnboxT"}
  BY <1>2, PiecesAreGood DEF GoodPieces, ExpandBoxes, SafePoints
<1> QED
  BY <1>1, <1>2

\* A call of a foreign function binds its point in time unless it spills a structure.
LEMMA CallsAreGood ==
  ASSUME NEW k \in {"CallDirect", "CallCFunc", "LeaCForeign"}, NEW a, a.id \in DOMAIN Methods,
         k # "CallCFunc" \/ ~Methods[a.id].sret
  PROVE  Good(ExpandCalls(k, a))
<1>1. Good(StageArgs(a))
  BY PiecesAreGood DEF GoodPieces, StageArgs, SafePoints
<1>2. \A m : Good(FillSRetArea(m))
  BY PiecesAreGood DEF GoodPieces, FillSRetArea, SafePoints
<1>3. CASE k = "CallDirect"
  BY <1>1, <1>2, <1>3, MethodsAssumption, PiecesAreGood DEF GoodPieces, ExpandCalls
<1>4. CASE k = "LeaCForeign"
  BY <1>4, PiecesAreGood DEF GoodPieces, ExpandCalls, SafePoints
<1>5. CASE k = "CallCFunc"
  <2> DEFINE call == StageArgs(a) \o Do(k, NoReg, <<a.d>>, <<a.id>>)
  <2>1. Proper(StageArgs(a)) /\ Proper(Do(k, NoReg, <<a.d>>, <<a.id>>))
    BY <1>1, ItemIsProper DEF Good, Do
  <2>2. IsSeq(call)
    BY <2>1, JoinedProper DEF Proper
  <2>3. ExpandCalls(k, a) = call \o <<>> \o BindStatePoint
    BY <1>5 DEF ExpandCalls, FillSRetArea
  <2>4. call \o <<>> = call
    <3>1. PICK S : call \in Seq(S)
      BY <2>2 DEF IsSeq
    <3> HIDE DEF call
    <3> QED BY <3>1
  <2>5. Good(call \o BindStatePoint)
    BY <1>1, PiecesAreGood DEF GoodPieces
  <2> QED
    BY <2>3, <2>4, <2>5
<1> QED
  BY <1>3, <1>4, <1>5

\* The callbacks, in the groups the rewriter takes them.
BranchCallbacks == {"Bcc", "BccImm", "Jump"}
ArrayCallbacks == {"NewArr", "NewArrGeneric", "GcPoint", "PrepareRecord"}
NewCallbacks == {"NewObj", "NewObjGeneric", "NewClosure", "NewClosureGeneric"}
SpawnCallbacks == {"Spawn", "SpawnFuture"}
LoadCallbacks == {"Ld", "Lea", "LdStatic", "LdTyped", "LdDerived", "LeaStatic", "LeaGeneric"}
StoreCallbacks == {"St", "StStatic", "StTyped", "StDerived", "StGeneric"}
MemberCallbacks == {"LoadStatic", "StoreStatic", "LoadField", "StoreField"}
TypeInfoCallbacks ==
  {"LoadTypeInfoGeneric", "LoadTypeInfoSig", "LoadTypeInfoObj", "InstanceOf", "InstanceOfGeneric",
   "AssignGeneric"}
OptionCallbacks == {"TagGeneric", "PayloadGeneric", "NewNoneGeneric", "NewSomeGeneric"}
BoxCallbacks == {"Box", "BoxGeneric", "BoxT", "BoxTGeneric", "Unbox", "UnboxT"}
DirectCallbacks == {"CallDirect", "CallCFunc", "LeaCForeign"}
VirtualCallbacks == {"CallVirtual", "CallInterf", "CallInterfGeneric"}
ClosureCallbacks == {"CallClosure", "CallClosureGeneric"}
GroupCallbacks == {"Ret", "RetRef", "FRet", "DivCheck", "NullCheck", "Catch"}
RawCallbacks ==
  {"LeaIndex", "LeaIndexGeneric", "LeaConstIndexGeneric", "LoadRawMemory", "StoreRawMemory",
   "LoadStackRec", "LoadTailParam"}
SlotCallbacks == DOMAIN ParseSlots \ {"FloatOp"}

\* The names of the opcodes the parser knows.
KnownOpcodes ==
  /\ DOMAIN ParseBranches(FALSE) = {"Bcc", "BccGeneric", "BccImm", "Jump"}
  /\ DOMAIN ParseMoves = {"Nop", "Mov", "FMov", "MovRef", "FloatToInt", "IntToFloat", "MovImm",
                          "MovBasePtr", "BFX"}
  /\ DOMAIN ParseBinary = {"BinarySpecialized", "Binary", "CBinary", "SBinary", "BinaryImm",
                           "CBinaryImm", "SBinaryImm", "Convert", "CheckedConvert", "NewArr",
                           "NewArrGeneric", "FMovImm32", "FMovImm64", "GcPoint"}
  /\ DOMAIN ParseFields = {"Ld", "LdStatic", "LdTyped", "LdDerived", "LdGeneric", "Lea",
                           "LeaStatic", "LeaGeneric", "LeaBox", "St", "StStatic", "StTyped",
                           "StDerived", "StGeneric", "ZeroVal", "FMathUnary", "LoadTailParam"}
  /\ DOMAIN ParseCopies = {"Copy", "CopyGeneric", "CopyLocal", "CopyToLocal", "CopyFromLocal",
                           "CopyLocalGeneric", "CopyToLocalGeneric", "CopyFromLocalGeneric",
                           "CopyTypeSlot", "CopyToTypeSlot", "CopyFromTypeSlot",
                           "CopyTypeSlotGeneric", "CopyToTypeSlotGeneric",
                           "CopyFromTypeSlotGeneric"}
  /\ DOMAIN ParseMemory = {"LeaIndex", "LeaIndexGeneric", "LeaConstIndexGeneric",
                           "LoadRawMemory", "StoreRawMemory", "LoadStatic", "StoreStatic",
                           "LoadStackRec", "LoadField", "StoreField", "PrepareRecord", "Scc",
                           "SccImm", "InstanceOf", "LoadTypeInfoObj", "AssignGeneric",
                           "InstanceOfGeneric"}
  /\ DOMAIN ParseGroups = {"Ret", "FRet", "RetRef", "DivCheck", "NullCheck", "Catch", "Throw",
                           "LoadTypeInfoSig", "LoadTypeInfoGeneric", "NewObj", "NewObjGeneric",
                           "NewClosure", "NewClosureGeneric", "Spawn", "SpawnFuture"}
  /\ DOMAIN ParseSlots = {"InitString", "ArrayLength", "ArrayIndexCheck", "FloatOp",
                          "LoadUntyped", "StoreUntyped", "StoreUntypedImm", "LoadTyped",
                          "StoreTyped", "StoreTypedImm", "LoadArray", "StoreArray", "TypeArg"}
  /\ DOMAIN ParseGenerics = {"BoxRec", "UnboxRec", "BoxGeneric", "Box", "BoxT", "BoxTGeneric",
                             "Unbox", "UnboxT", "Offset", "AddOffset", "TagGeneric",
                             "PayloadGeneric", "NewNoneGeneric", "NewSomeGeneric"}
  /\ DOMAIN ParseAtomics = {"AtomicLoad", "AtomicStore", "CAS", "AtomicOp"}
  /\ DOMAIN ParseCalls = {"CallDirect", "CallVirtual", "CallInterf",
                          "CallInterfGeneric", "CallClosure", "CallClosureGeneric",
                          "LeaCForeign", "CallCFunc"}

LEMMA OpcodesAreKnown == KnownOpcodes
<1>1. DOMAIN ParseBranches(FALSE) = {"Bcc", "BccGeneric", "BccImm", "Jump"}
  BY DEF ParseBranches
<1>2. DOMAIN ParseMoves = {"Nop", "Mov", "FMov", "MovRef", "FloatToInt", "IntToFloat",
                           "MovImm", "MovBasePtr", "BFX"}
  BY DEF ParseMoves
<1>3. DOMAIN ParseBinary = {"BinarySpecialized", "Binary", "CBinary", "SBinary", "BinaryImm",
                            "CBinaryImm", "SBinaryImm", "Convert", "CheckedConvert", "NewArr",
                            "NewArrGeneric", "FMovImm32", "FMovImm64", "GcPoint"}
  BY DEF ParseBinary
<1>4. DOMAIN ParseFields = {"Ld", "LdStatic", "LdTyped", "LdDerived", "LdGeneric", "Lea",
                            "LeaStatic", "LeaGeneric", "LeaBox", "St", "StStatic", "StTyped",
                            "StDerived", "StGeneric", "ZeroVal", "FMathUnary", "LoadTailParam"}
  BY DEF ParseFields
<1>5. DOMAIN ParseCopies = {"Copy", "CopyGeneric", "CopyLocal", "CopyToLocal", "CopyFromLocal",
                            "CopyLocalGeneric", "CopyToLocalGeneric", "CopyFromLocalGeneric",
                            "CopyTypeSlot", "CopyToTypeSlot", "CopyFromTypeSlot",
                            "CopyTypeSlotGeneric", "CopyToTypeSlotGeneric",
                            "CopyFromTypeSlotGeneric"}
  BY DEF ParseCopies
<1>6. DOMAIN ParseMemory = {"LeaIndex", "LeaIndexGeneric", "LeaConstIndexGeneric",
                            "LoadRawMemory", "StoreRawMemory", "LoadStatic", "StoreStatic",
                            "LoadStackRec", "LoadField", "StoreField", "PrepareRecord", "Scc",
                            "SccImm", "InstanceOf", "LoadTypeInfoObj", "AssignGeneric",
                            "InstanceOfGeneric"}
  BY DEF ParseMemory
<1>7. DOMAIN ParseGroups = {"Ret", "FRet", "RetRef", "DivCheck", "NullCheck", "Catch", "Throw",
                            "LoadTypeInfoSig", "LoadTypeInfoGeneric", "NewObj",
                            "NewObjGeneric", "NewClosure", "NewClosureGeneric", "Spawn",
                            "SpawnFuture"}
  BY DEF ParseGroups
<1>8. DOMAIN ParseSlots = {"InitString", "ArrayLength", "ArrayIndexCheck", "FloatOp",
                           "LoadUntyped", "StoreUntyped", "StoreUntypedImm", "LoadTyped",
                           "StoreTyped", "StoreTypedImm", "LoadArray", "StoreArray", "TypeArg"}
  BY DEF ParseSlots
<1>9. DOMAIN ParseGenerics = {"BoxRec", "UnboxRec", "BoxGeneric", "Box", "BoxT", "BoxTGeneric",
                              "Unbox", "UnboxT", "Offset", "AddOffset", "TagGeneric",
                              "PayloadGeneric", "NewNoneGeneric", "NewSomeGeneric"}
  BY DEF ParseGenerics
<1>10. DOMAIN ParseAtomics = {"AtomicLoad", "AtomicStore", "CAS", "AtomicOp"}
  BY DEF ParseAtomics
<1>11. DOMAIN ParseCalls = {"CallDirect", "CallVirtual", "CallInterf",
                            "CallInterfGeneric", "CallClosure", "CallClosureGeneric",
                            "LeaCForeign", "CallCFunc"}
  BY DEF ParseCalls
<1> QED
  BY <1>1, <1>2, <1>3, <1>4, <1>5, <1>6, <1>7, <1>8, <1>9, <1>10, <1>11 DEF KnownOpcodes

LEMMA CallbacksAreGrouped ==
  ASSUME NEW k \in Callbacks
  PROVE  \/ k \in BranchCallbacks \/ k \in DOMAIN ParseMoves \cup {"FMovImm"}
         \/ k \in ArrayCallbacks \/ k \in NewCallbacks \/ k \in SpawnCallbacks \/ k \in Binaries
         \/ k \in LoadCallbacks \/ k \in StoreCallbacks \/ k \in MemberCallbacks
         \/ k \in DOMAIN ParseAtomics \/ k \in DOMAIN ParseCopies \cup {"LeaBox"}
         \/ k \in TypeInfoCallbacks \/ k \in {"Offset", "AddOffset"} \/ k \in OptionCallbacks
         \/ k = "ZeroVal" \/ k \in BoxCallbacks \/ k \in DirectCallbacks \/ k \in VirtualCallbacks
         \/ k \in ClosureCallbacks \/ k \in GroupCallbacks \/ k \in SlotCallbacks
         \/ k \in RawCallbacks \/ k \in {"LdGeneric", "CheckedConvert", "Throw"}
<1>1. \/ k \in {"FBinary", "FUnary", "FMovImm"}
      \/ k \in DOMAIN ParseBranches(FALSE) \/ k \in DOMAIN ParseMoves \/ k \in DOMAIN ParseBinary
      \/ k \in DOMAIN ParseFields \/ k \in DOMAIN ParseCopies \/ k \in DOMAIN ParseMemory
      \/ k \in DOMAIN ParseGroups \/ k \in DOMAIN ParseSlots \/ k \in DOMAIN ParseGenerics
      \/ k \in DOMAIN ParseAtomics \/ k \in DOMAIN ParseCalls
  BY DEF Callbacks
<1>2. k \notin {"BinarySpecialized", "BccGeneric", "FloatOp", "FMovImm32", "FMovImm64", "BoxRec", "UnboxRec"}
  BY DEF Callbacks
<1>3. CASE k \in {"FBinary", "FUnary", "FMovImm"}
  BY <1>3 DEF Binaries
<1>4. CASE k \in DOMAIN ParseBranches(FALSE) \/ k \in DOMAIN ParseMoves \/ k \in DOMAIN ParseAtomics
  BY <1>2, <1>4, OpcodesAreKnown DEF KnownOpcodes, BranchCallbacks
<1>5. CASE k \in DOMAIN ParseBinary
  BY <1>2, <1>5, OpcodesAreKnown DEF KnownOpcodes, Binaries, ArrayCallbacks
<1>6. CASE k \in DOMAIN ParseFields \/ k \in DOMAIN ParseCopies
  BY <1>2, <1>6, OpcodesAreKnown DEF KnownOpcodes, LoadCallbacks, StoreCallbacks, Binaries, RawCallbacks
<1>7. CASE k \in DOMAIN ParseMemory
  BY <1>2, <1>7, OpcodesAreKnown
  DEF KnownOpcodes, MemberCallbacks, ArrayCallbacks, Binaries, RawCallbacks, TypeInfoCallbacks
<1>8. CASE k \in DOMAIN ParseGroups
  BY <1>2, <1>8, OpcodesAreKnown
  DEF KnownOpcodes, GroupCallbacks, TypeInfoCallbacks, NewCallbacks, SpawnCallbacks
<1>9. CASE k \in DOMAIN ParseSlots \/ k \in DOMAIN ParseGenerics
  BY <1>2, <1>9, OpcodesAreKnown DEF KnownOpcodes, SlotCallbacks, BoxCallbacks, OptionCallbacks
<1>10. CASE k \in DOMAIN ParseCalls
  BY <1>2, <1>10, OpcodesAreKnown DEF KnownOpcodes, DirectCallbacks, VirtualCallbacks, ClosureCallbacks
<1> QED
  BY <1>1, <1>3, <1>4, <1>5, <1>6, <1>7, <1>8, <1>9, <1>10

\* The callbacks with a safe point that no state point follows (WithoutStatePoint).
Unpointed(k, a) ==
  \/ k \in {"LdGeneric", "CheckedConvert", "Throw"}
  \/ k = "CallCFunc" /\ Methods[a.id].sret

\* These, too, bind no label that is not theirs.
LEMMA UnpointedAreProper ==
  ASSUME NEW k, NEW a, NEW start, NEW end, Unpointed(k, a)
  PROVE  Proper(Expansion(k, a, start, end))
<1>1. CASE k = "LdGeneric"
  <2>1. Expansion(k, a, start, end) = ExpandFieldLoads(k, a)
    BY <1>1, OpcodesAreKnown DEF Expansion, KnownOpcodes
  <2> QED BY <1>1, <2>1, ItemIsProper DEF ExpandFieldLoads, Do
<1>2. CASE k = "CheckedConvert"
  <2>1. Expansion(k, a, start, end) = ExpandBinary(k, a)
    BY <1>2, OpcodesAreKnown DEF Expansion, KnownOpcodes
  <2> QED BY <1>2, <2>1, ItemIsProper DEF ExpandBinary, Do
<1>3. CASE k = "Throw"
  <2>1. Expansion(k, a, start, end) = ExpandGroups(k, a)
    BY <1>3, OpcodesAreKnown DEF Expansion, KnownOpcodes
  <2> QED BY <1>3, <2>1, ItemIsProper DEF ExpandGroups, Do
<1>4. CASE k = "CallCFunc"
  <2>1. Expansion(k, a, start, end) = ExpandCalls(k, a)
    BY <1>4, OpcodesAreKnown DEF Expansion, KnownOpcodes
  <2>2. \A op, d, u, x : Proper(Do(op, d, u, x))
    BY ItemIsProper DEF Do
  <2>3. Proper(BindStatePoint) /\ Proper(<<>>)
    BY ItemIsProper, NothingIsGood DEF BindStatePoint, Good
  <2>4. \A s, t : Proper(s) /\ Proper(t) => Proper(s \o t)
    BY JoinedProper
  <2>5. Proper(StageArgs(a)) /\ \A m : Proper(FillSRetArea(m))
    BY <2>2, <2>3 DEF StageArgs, FillSRetArea
  <2> QED BY <1>4, <2>1, <2>2, <2>3, <2>4, <2>5 DEF ExpandCalls
<1> QED
  BY <1>1, <1>2, <1>3, <1>4 DEF Unpointed

\* Whatever the callback: its labels are its own, and where it may collect or throw
\* a state point follows.
LEMMA ExpansionIsGood ==
  ASSUME NEW k \in Callbacks, NEW a, NEW start, NEW end, Resolves(k, a)
  PROVE  /\ Proper(Expansion(k, a, start, end))
         /\ ~Unpointed(k, a) => Good(Expansion(k, a, start, end))
<1> SUFFICES ASSUME ~Unpointed(k, a)
             PROVE  Good(Expansion(k, a, start, end))
  BY UnpointedAreProper DEF Good
<1>1. CASE k \in BranchCallbacks
  <2>1. Expansion(k, a, start, end) = ExpandBranches(k, a, end)
    BY <1>1, OpcodesAreKnown DEF Expansion, KnownOpcodes, BranchCallbacks
  <2>2. Good(ExpandBranches(k, a, end))
    BY <1>1, BranchesAreGood DEF BranchCallbacks
  <2> QED BY <2>1, <2>2
<1>2. CASE k \in DOMAIN ParseMoves \cup {"FMovImm"}
  <2>1. Expansion(k, a, start, end) = ExpandMoves(k, a)
    BY <1>2, OpcodesAreKnown DEF Expansion, KnownOpcodes
  <2>2. Good(ExpandMoves(k, a))
    BY <1>2, MovesAreGood
  <2> QED BY <2>1, <2>2
<1>3. CASE k \in ArrayCallbacks
  <2>1. Expansion(k, a, start, end) = ExpandNewArrays(k, a)
    BY <1>3, OpcodesAreKnown DEF Expansion, KnownOpcodes, ArrayCallbacks
  <2>2. Good(ExpandNewArrays(k, a))
    BY <1>3, NewArraysAreGood DEF ArrayCallbacks
  <2> QED BY <2>1, <2>2
<1>4. CASE k \in NewCallbacks
  <2>1. Expansion(k, a, start, end) = ExpandNewObjects(k, a)
    BY <1>4, OpcodesAreKnown DEF Expansion, KnownOpcodes, NewCallbacks
  <2>2. Good(ExpandNewObjects(k, a))
    BY <1>4, NewObjectsAreGood DEF NewCallbacks
  <2> QED BY <2>1, <2>2
<1>5. CASE k \in SpawnCallbacks
  <2>1. Expansion(k, a, start, end) = ExpandSpawns(k, a)
    BY <1>5, OpcodesAreKnown DEF Expansion, KnownOpcodes, SpawnCallbacks
  <2>2. Good(ExpandSpawns(k, a))
    BY <1>5, SpawnsAreGood DEF SpawnCallbacks
  <2> QED BY <2>1, <2>2
<1>6. CASE k \in Binaries
  <2>1. Expansion(k, a, start, end) = ExpandBinary(k, a)
    BY <1>6, OpcodesAreKnown DEF Expansion, KnownOpcodes, Binaries
  <2>2. Good(ExpandBinary(k, a))
    BY <1>6, BinaryIsGood
  <2> QED BY <2>1, <2>2
<1>7. CASE k \in LoadCallbacks
  <2>1. Expansion(k, a, start, end) = ExpandFieldLoads(k, a)
    BY <1>7, OpcodesAreKnown DEF Expansion, KnownOpcodes, LoadCallbacks
  <2>2. Good(ExpandFieldLoads(k, a))
    BY <1>7, FieldLoadsAreGood DEF LoadCallbacks
  <2> QED BY <2>1, <2>2
<1>8. CASE k \in StoreCallbacks
  <2>1. Expansion(k, a, start, end) = ExpandFieldStores(k, a)
    BY <1>8, OpcodesAreKnown DEF Expansion, KnownOpcodes, StoreCallbacks
  <2>2. Good(ExpandFieldStores(k, a))
    BY <1>8, FieldStoresAreGood DEF StoreCallbacks
  <2> QED BY <2>1, <2>2
<1>9. CASE k \in MemberCallbacks
  <2>1. Expansion(k, a, start, end) = ExpandMembers(k, a)
    BY <1>9, OpcodesAreKnown DEF Expansion, KnownOpcodes, MemberCallbacks
  <2>2. Good(ExpandMembers(k, a))
    BY <1>9, MembersAreGood DEF MemberCallbacks
  <2> QED BY <2>1, <2>2
<1>10. CASE k \in DOMAIN ParseAtomics
  <2>1. Expansion(k, a, start, end) = ExpandAtomics(k, a)
    BY <1>10, OpcodesAreKnown DEF Expansion, KnownOpcodes
  <2>2. Good(ExpandAtomics(k, a))
    BY <1>10, AtomicsAreGood
  <2> QED BY <2>1, <2>2
<1>11. CASE k \in DOMAIN ParseCopies \cup {"LeaBox"}
  <2>1. Expansion(k, a, start, end) = ExpandCopies(k, a)
    BY <1>11, OpcodesAreKnown DEF Expansion, KnownOpcodes
  <2>2. Good(ExpandCopies(k, a))
    BY <1>11, CopiesAreGood
  <2> QED BY <2>1, <2>2
<1>12. CASE k \in TypeInfoCallbacks
  <2>1. Expansion(k, a, start, end) = ExpandTypeInfos(k, a)
    BY <1>12, OpcodesAreKnown DEF Expansion, KnownOpcodes, TypeInfoCallbacks
  <2>2. Good(ExpandTypeInfos(k, a))
    BY <1>12, TypeInfosAreGood DEF TypeInfoCallbacks
  <2> QED BY <2>1, <2>2
<1>13. CASE k \in {"Offset", "AddOffset"}
  <2>1. Expansion(k, a, start, end) = ExpandOffsets(k, a)
    BY <1>13, OpcodesAreKnown DEF Expansion, KnownOpcodes
  <2>2. Good(ExpandOffsets(k, a))
    BY <1>13, OffsetsAreGood
  <2> QED BY <2>1, <2>2
<1>14. CASE k \in OptionCallbacks
  <2>1. Expansion(k, a, start, end) = ExpandOptions(k, a, start)
    BY <1>14, OpcodesAreKnown DEF Expansion, KnownOpcodes, OptionCallbacks
  <2>2. Good(ExpandOptions(k, a, start))
    BY <1>14, OptionsAreGood DEF OptionCallbacks
  <2> QED BY <2>1, <2>2
<1>15. CASE k \in {"ZeroVal"}
  <2>1. Expansion(k, a, start, end) = ZeroVal(a, start)
    BY <1>15, OpcodesAreKnown DEF Expansion, KnownOpcodes
  <2>2. Good(ZeroVal(a, start))
    BY <1>15, ZeroValIsGood
  <2> QED BY <2>1, <2>2
<1>16. CASE k \in BoxCallbacks
  <2>1. Expansion(k, a, start, end) = ExpandBoxes(k, a)
    BY <1>16, OpcodesAreKnown DEF Expansion, KnownOpcodes, BoxCallbacks
  <2>2. Good(ExpandBoxes(k, a))
    BY <1>16, BoxesAreGood DEF BoxCallbacks
  <2> QED BY <2>1, <2>2
<1>17. CASE k \in VirtualCallbacks
  <2>1. Expansion(k, a, start, end) = ExpandMethodCalls(k, a)
    BY <1>17, OpcodesAreKnown DEF Expansion, KnownOpcodes, VirtualCallbacks
  <2>2. Good(ExpandMethodCalls(k, a))
    BY <1>17, MethodCallsAreGood DEF VirtualCallbacks
  <2> QED BY <2>1, <2>2
<1>18. CASE k \in ClosureCallbacks
  <2>1. Expansion(k, a, start, end) = ExpandClosureCalls(k, a)
    BY <1>18, OpcodesAreKnown DEF Expansion, KnownOpcodes, ClosureCallbacks
  <2>2. Good(ExpandClosureCalls(k, a))
    BY <1>18, ClosureCallsAreGood DEF ClosureCallbacks
  <2> QED BY <2>1, <2>2
<1>19. CASE k \in GroupCallbacks
  <2>1. Expansion(k, a, start, end) = ExpandGroups(k, a)
    BY <1>19, OpcodesAreKnown DEF Expansion, KnownOpcodes, GroupCallbacks
  <2>2. Good(ExpandGroups(k, a))
    BY <1>19, GroupsAreGood DEF GroupCallbacks
  <2> QED BY <2>1, <2>2
<1>20. CASE k \in SlotCallbacks
  <2>1. Expansion(k, a, start, end) = ExpandSlots(k, a)
    BY <1>20, OpcodesAreKnown DEF Expansion, KnownOpcodes, SlotCallbacks
  <2>2. Good(ExpandSlots(k, a))
    BY <1>20, SlotsAreGood DEF SlotCallbacks
  <2> QED BY <2>1, <2>2
<1>21. CASE k \in RawCallbacks
  <2>1. Expansion(k, a, start, end) = ExpandRaw(k, a)
    BY <1>21, OpcodesAreKnown DEF Expansion, KnownOpcodes, RawCallbacks
  <2>2. Good(ExpandRaw(k, a))
    BY <1>21, RawAreGood DEF RawCallbacks
  <2> QED BY <2>1, <2>2
<1>22. CASE k \in DirectCallbacks
  <2>1. Expansion(k, a, start, end) = ExpandCalls(k, a)
    BY <1>22, OpcodesAreKnown DEF Expansion, KnownOpcodes, DirectCallbacks
  <2>2. a.id \in DOMAIN Methods
    <3>1. k \in MethodCallbacks /\ k \notin FieldCallbacks
      BY <1>22, OpcodesAreKnown DEF KnownOpcodes, DirectCallbacks, FieldCallbacks, MethodCallbacks
    <3> QED BY <3>1 DEF Resolves
  <2>3. k # "CallCFunc" \/ ~Methods[a.id].sret
    BY DEF Unpointed
  <2>4. Good(ExpandCalls(k, a))
    BY <1>22, <2>2, <2>3, CallsAreGood DEF DirectCallbacks
  <2> QED BY <2>1, <2>4
<1> QED
  BY CallbacksAreGrouped, <1>1, <1>2, <1>3, <1>4, <1>5, <1>6, <1>7, <1>8, <1>9, <1>10,
     <1>11, <1>12, <1>13, <1>14, <1>15, <1>16, <1>17, <1>18, <1>19, <1>20, <1>21, <1>22
     DEF Unpointed

--------------------------------------------------------------------------------
(* What is emitted for one instruction *)

IsCode(e) ==
  /\ e = [rt |-> e.rt, size |-> e.size, labels |-> e.labels, points |-> e.points]
  /\ IsSeq(e.rt) /\ e.size \in Nat

End(operation) == operation.pos + SizeOf(operation.item.op)
PointOf(operation, originalPos) == [pos |-> End(operation), originalPos |-> originalPos]

\* The code that was there stays; the operations that come after lie behind it.
Keeps(before, e) ==
  /\ DOMAIN before.rt \subseteq DOMAIN e.rt
  /\ \A j \in DOMAIN before.rt : e.rt[j] = before.rt[j]
  /\ before.size <= e.size /\ before.points \subseteq e.points
KeepsLabels(before, e) ==
  \A label : label[2] = 0 =>
    /\ label \in DOMAIN e.labels <=> label \in DOMAIN before.labels
    /\ label \in DOMAIN before.labels => e.labels[label] = before.labels[label]
Appends(before, e, originalPos) ==
  \A j \in DOMAIN e.rt \ DOMAIN before.rt :
    /\ e.rt[j].of = originalPos /\ e.rt[j].pos \in Nat
    /\ before.size <= e.rt[j].pos /\ End(e.rt[j]) <= e.size
Follows(before, e, originalPos) ==
  IsCode(e) /\ Keeps(before, e) /\ KeepsLabels(before, e) /\ Appends(before, e, originalPos)

\* Every safe point among the operations that came after has its state point, or every
\* one but the last.
AllPointed(before, e, originalPos) ==
  \A j \in DOMAIN e.rt \ DOMAIN before.rt :
    e.rt[j].item.op \in SafePoints => PointOf(e.rt[j], originalPos) \in e.points
PointedButLast(before, e, originalPos) ==
  \A j \in DOMAIN e.rt \ DOMAIN before.rt :
    e.rt[j].item.op \in SafePoints =>
      PointOf(e.rt[j], originalPos) \in e.points \/ End(e.rt[j]) = e.size

LEMMA SizesArePositive == \A op : SizeOf(op) \in {1, 2}
BY DEF SizeOf

\* The three things Emit does.
LEMMA EmitBinds ==
  ASSUME NEW e, IsCode(e), NEW item, NEW originalPos, item.kind = "bind"
  PROVE  LET f == Emit(e, item, originalPos)
         IN /\ IsCode(f) /\ f.rt = e.rt /\ f.size = e.size /\ f.points = e.points
            /\ f.labels = Bound(e.labels, item.to, e.size)
BY DEF Emit, IsCode

LEMMA EmitMarks ==
  ASSUME NEW e, IsCode(e), NEW item, NEW originalPos, item.kind = "state"
  PROVE  LET f == Emit(e, item, originalPos)
         IN /\ IsCode(f) /\ f.rt = e.rt /\ f.size = e.size /\ f.labels = e.labels
            /\ f.points = e.points \cup {[pos |-> e.size, originalPos |-> originalPos]}
BY DEF Emit, IsCode

LEMMA EmitAppends ==
  ASSUME NEW e, IsCode(e), NEW item, NEW originalPos, item.kind \notin {"bind", "state"}
  PROVE  LET f == Emit(e, item, originalPos)
         IN /\ IsCode(f) /\ f.labels = e.labels /\ f.points = e.points
            /\ f.rt = Append(e.rt, [item |-> item, pos |-> e.size, of |-> originalPos])
            /\ f.size = e.size + SizeOf(item.op)
<1> DEFINE one == [item |-> item, pos |-> e.size, of |-> originalPos]
           more == Append(e.rt, one)
           longer == e.size + SizeOf(item.op)
           f == [e EXCEPT !.rt = more, !.size = longer]
           g == [e EXCEPT !.rt = more]
<1>1. Emit(e, item, originalPos) = f
  BY DEF Emit
<1>2. IsSeq(more)
  <2>1. PICK S : e.rt \in Seq(S)
    BY DEF IsCode, IsSeq
  <2> HIDE DEF one
  <2>2. e.rt \in Seq(S \cup {one})
    BY <2>1
  <2>3. more \in Seq(S \cup {one})
    BY <2>2
  <2> QED BY <2>3 DEF IsSeq
<1>3. longer \in Nat
  BY SizesArePositive DEF IsCode
<1>4. /\ more = Append(e.rt, [item |-> item, pos |-> e.size, of |-> originalPos])
      /\ longer = e.size + SizeOf(item.op)
  OBVIOUS
<1> HIDE DEF more, longer
<1>5. f.rt = more /\ f.size = longer /\ f.labels = e.labels /\ f.points = e.points
  BY DEF IsCode
<1>6. f = [rt |-> f.rt, size |-> f.size, labels |-> f.labels, points |-> f.points]
  <2>1. g = [rt |-> g.rt, size |-> g.size, labels |-> g.labels, points |-> g.points]
    BY DEF IsCode
  <2> HIDE DEF g
  <2> DEFINE h == [g EXCEPT !.size = longer]
  <2>2. h = [rt |-> h.rt, size |-> h.size, labels |-> h.labels, points |-> h.points]
    BY <2>1
  <2> QED BY <2>2 DEF g
<1> HIDE DEF f
<1>7. IsCode(f)
  BY <1>2, <1>3, <1>5, <1>6 DEF IsCode
<1> QED
  BY <1>1, <1>4, <1>5, <1>7

LEMMA LongerCode ==
  ASSUME NEW s, IsSeq(s), NEW one
  PROVE  /\ DOMAIN s \subseteq Nat
         /\ DOMAIN Append(s, one) = DOMAIN s \cup {Len(s) + 1} /\ Len(s) + 1 \notin DOMAIN s
         /\ \A j \in DOMAIN s : Append(s, one)[j] = s[j]
         /\ Append(s, one)[Len(s) + 1] = one
<1>1. PICK S : s \in Seq(S)
  BY DEF IsSeq
<1>2. s \in Seq(S \cup {one})
  BY <1>1
<1> QED
  BY <1>2

\* Whatever is emitted, the code before it stays.
LEMMA EmitFollows ==
  ASSUME NEW before, NEW e, NEW originalPos, before.size \in Nat,
         Follows(before, e, originalPos),
         NEW item, item.kind = "bind" => item.to[2] # 0
  PROVE  Follows(before, Emit(e, item, originalPos), originalPos)
<1> DEFINE f == Emit(e, item, originalPos)
<1> SUFFICES Follows(before, f, originalPos)
  OBVIOUS
<1>0. IsCode(e)
  BY DEF Follows
<1>1. CASE item.kind = "bind"
  <2>1. IsCode(f) /\ f.rt = e.rt /\ f.size = e.size /\ f.points = e.points
        /\ f.labels = Bound(e.labels, item.to, e.size)
    BY <1>0, <1>1, EmitBinds
  <2> HIDE DEF f
  <2>2. KeepsLabels(before, f)
    BY <1>1, <2>1 DEF Follows, KeepsLabels, Bound
  <2> QED
    BY <2>1, <2>2 DEF Follows, Keeps, Appends
<1>2. CASE item.kind = "state"
  <2>1. IsCode(f) /\ f.rt = e.rt /\ f.size = e.size /\ f.labels = e.labels
        /\ e.points \subseteq f.points
    BY <1>0, <1>2, EmitMarks
  <2> HIDE DEF f
  <2> QED
    BY <2>1 DEF Follows, Keeps, KeepsLabels, Appends
<1>3. CASE item.kind \notin {"bind", "state"}
  <2> DEFINE one == [item |-> item, pos |-> e.size, of |-> originalPos]
  <2>1. /\ IsCode(f) /\ f.labels = e.labels /\ f.points = e.points
        /\ f.rt = Append(e.rt, one) /\ f.size = e.size + SizeOf(item.op)
    BY <1>0, <1>3, EmitAppends
  <2>2. one.item = item /\ one.pos = e.size /\ one.of = originalPos
    OBVIOUS
  <2>3. e.size \in Nat /\ IsSeq(e.rt) /\ SizeOf(item.op) \in {1, 2}
    BY <1>0, SizesArePositive DEF IsCode
  <2> HIDE DEF f, one
  <2>4. /\ DOMAIN f.rt = DOMAIN e.rt \cup {Len(e.rt) + 1}
        /\ \A j \in DOMAIN e.rt : f.rt[j] = e.rt[j]
        /\ f.rt[Len(e.rt) + 1] = one
    BY <2>1, <2>3, LongerCode
  <2>5. Keeps(before, f)
    BY <2>1, <2>3, <2>4 DEF Follows, Keeps
  <2>6. Appends(before, f, originalPos)
    <3> SUFFICES ASSUME NEW j \in DOMAIN f.rt \ DOMAIN before.rt
                 PROVE  /\ f.rt[j].of = originalPos /\ f.rt[j].pos \in Nat
                        /\ before.size <= f.rt[j].pos /\ End(f.rt[j]) <= f.size
      BY DEF Appends
    <3>1. CASE j \in DOMAIN e.rt
      <4>1. /\ f.rt[j].of = originalPos /\ f.rt[j].pos \in Nat
            /\ before.size <= f.rt[j].pos /\ End(f.rt[j]) <= e.size
        BY <2>4, <3>1 DEF Follows, Appends
      <4>2. End(f.rt[j]) \in Nat
        BY <4>1, SizesArePositive DEF End
      <4> QED BY <2>1, <2>3, <4>1, <4>2
    <3>2. CASE j \notin DOMAIN e.rt
      <4>1. f.rt[j] = one
        BY <2>4, <3>2
      <4> QED BY <2>1, <2>2, <2>3, <4>1 DEF Follows, Keeps, End
    <3> QED BY <3>1, <3>2
  <2>7. KeepsLabels(before, f)
    BY <2>1 DEF Follows, KeepsLabels
  <2> QED
    BY <2>1, <2>5, <2>6, <2>7 DEF Follows
<1> QED
  BY <1>1, <1>2, <1>3

\* A state point serves the operation right before it.
LEMMA EmitPoints ==
  ASSUME NEW before, NEW e, NEW originalPos, NEW item, IsCode(e),
         AllPointed(before, e, originalPos)
           \/ (PointedButLast(before, e, originalPos) /\ item.kind = "state")
  PROVE  /\ ~IsSafePoint(item) => AllPointed(before, Emit(e, item, originalPos), originalPos)
         /\ PointedButLast(before, Emit(e, item, originalPos), originalPos)
<1> DEFINE f == Emit(e, item, originalPos)
<1>1. CASE item.kind = "bind"
  <2>1. f.rt = e.rt /\ f.size = e.size /\ f.points = e.points
    BY <1>1, EmitBinds
  <2> HIDE DEF f
  <2>2. AllPointed(before, f, originalPos)
    BY <1>1, <2>1 DEF AllPointed
  <2> QED
    BY <2>2 DEF AllPointed, PointedButLast, f
<1>2. CASE item.kind = "state"
  <2>1. /\ f.rt = e.rt /\ f.size = e.size
        /\ f.points = e.points \cup {[pos |-> e.size, originalPos |-> originalPos]}
    BY <1>2, EmitMarks
  <2> HIDE DEF f
  <2>2. AllPointed(before, f, originalPos)
    BY <2>1 DEF AllPointed, PointedButLast, PointOf
  <2> QED
    BY <2>2 DEF AllPointed, PointedButLast, f
<1>3. CASE item.kind \notin {"bind", "state"}
  <2> DEFINE one == [item |-> item, pos |-> e.size, of |-> originalPos]
  <2>1. /\ f.points = e.points
        /\ f.rt = Append(e.rt, one) /\ f.size = e.size + SizeOf(item.op)
    BY <1>3, EmitAppends
  <2>2. one.item = item /\ one.pos = e.size /\ IsSeq(e.rt)
    BY DEF IsCode
  <2> HIDE DEF f, one
  <2>4. /\ DOMAIN f.rt = DOMAIN e.rt \cup {Len(e.rt) + 1}
        /\ \A j \in DOMAIN e.rt : f.rt[j] = e.rt[j]
        /\ f.rt[Len(e.rt) + 1] = one
    BY <2>1, <2>2, LongerCode
  <2>5. AllPointed(before, e, originalPos)
    BY <1>3
  <2>6. ~IsSafePoint(item) => AllPointed(before, f, originalPos)
    BY <1>3, <2>1, <2>2, <2>4, <2>5 DEF AllPointed, IsSafePoint
  <2>7. PointedButLast(before, f, originalPos)
    BY <1>3, <2>1, <2>2, <2>4, <2>5 DEF AllPointed, PointedButLast, End
  <2> QED
    BY <2>6, <2>7 DEF f
<1> QED
  BY <1>1, <1>2, <1>3

\* What one instruction adds: its label, at the place the code had reached, and its
\* operations from there on.
Rewritten(before, e, start, originalPos) ==
  /\ IsCode(e) /\ Keeps(before, e) /\ Appends(before, e, originalPos)
  /\ <<start, 0>> \in DOMAIN e.labels /\ e.labels[<<start, 0>>] = before.size
  /\ \A label : label[2] = 0 /\ label # <<start, 0>> =>
       /\ label \in DOMAIN e.labels <=> label \in DOMAIN before.labels
       /\ label \in DOMAIN before.labels => e.labels[label] = before.labels[label]

LEMMA InstructionEmitted ==
  ASSUME NEW before, IsCode(before), NEW exp, Proper(exp), NEW start, NEW originalPos
  PROVE  LET e == EmitAll(before, Bind(InstructionLabel(start)) \o exp, originalPos)
         IN /\ Rewritten(before, e, start, originalPos)
            /\ Good(exp) => AllPointed(before, e, originalPos)
<1> DEFINE items == Bind(InstructionLabel(start)) \o exp
           label == <<start, 0>>
           n == Len(exp)
<1>1. /\ IsSeq(items) /\ n \in Nat /\ Len(items) = n + 1 /\ DOMAIN exp = 1..n
      /\ items[1].kind = "bind" /\ items[1].to = label
      /\ \A i \in 1..n : items[i + 1] = exp[i]
  <2> DEFINE s == Bind(InstructionLabel(start))
  <2>1. IsSeq(s) /\ Len(s) = 1 /\ s[1].kind = "bind"
    BY OneItem DEF Bind
  <2>2. s[1].to = label
    BY OneItem DEF Bind, InstructionLabel
  <2>3. IsSeq(exp)
    BY DEF Proper
  <2> HIDE DEF s, label
  <2>4. IsSeq(s \o exp)
    BY <2>1, <2>3, JoinedSeq
  <2>5. /\ n \in Nat /\ Len(s \o exp) = Len(s) + n
        /\ DOMAIN s = 1..Len(s) /\ DOMAIN exp = 1..n
    BY <2>1, <2>3, JoinedSeq
  <2>6. \A i \in 1..Len(s) : (s \o exp)[i] = s[i]
    BY <2>1, <2>3, JoinedSeq
  <2>7. \A i \in 1..n : (s \o exp)[Len(s) + i] = exp[i]
    <3>1. \A t, u : IsSeq(t) /\ IsSeq(u) => \A i \in 1..Len(u) : (t \o u)[Len(t) + i] = u[i]
      BY JoinedSeq
    <3> QED BY <2>1, <2>3, <3>1
  <2>8. Len(s \o exp) = n + 1 /\ (s \o exp)[1] = s[1]
    BY <2>1, <2>5, <2>6
  <2>9. \A i \in 1..n : (s \o exp)[i + 1] = exp[i]
    BY <2>1, <2>5, <2>7
  <2> QED BY <2>1, <2>2, <2>4, <2>5, <2>8, <2>9 DEF s
<1> HIDE DEF items
<1>2. PICK G : Emits(G, before, items, originalPos)
  <2>1. PICK S : items \in Seq(S)
    BY <1>1 DEF IsSeq
  <2> QED BY <2>1, EmittingInTurn
<1> DEFINE bound == Emit(before, items[1], originalPos)
<1>3. IsCode(bound) /\ bound.rt = before.rt /\ bound.size = before.size
      /\ bound.points = before.points /\ bound.labels = Bound(before.labels, label, before.size)
  BY <1>1, EmitBinds
<1>4. G[1] = bound /\ \A i \in 1..n : G[i + 1] = Emit(G[i], exp[i], originalPos)
  BY <1>1, <1>2 DEF Emits
<1>5. EmitAll(before, items, originalPos) = G[n + 1]
  BY <1>1, <1>2 DEF Emits
<1> HIDE DEF bound, label, n
<1>6. Follows(bound, G[n + 1], originalPos)
  <2> DEFINE S == {i \in Nat : i <= n => Follows(bound, G[i + 1], originalPos)}
  <2>1. 0 \in S
    <3>1. Follows(bound, bound, originalPos)
      BY <1>3 DEF Follows, Keeps, KeepsLabels, Appends, IsCode
    <3> QED BY <1>4, <3>1
  <2>2. ASSUME NEW i \in Nat, i \in S, i + 1 <= n
        PROVE  Follows(bound, G[(i + 1) + 1], originalPos)
    <3>1. Follows(bound, G[i + 1], originalPos)
      BY <1>1, <2>2
    <3>2. i + 1 \in 1..n /\ G[(i + 1) + 1] = Emit(G[i + 1], exp[i + 1], originalPos)
      BY <1>1, <1>4, <2>2
    <3>3. exp[i + 1].kind = "bind" => exp[i + 1].to[2] # 0
      BY <1>1, <3>2 DEF Proper, BindsOwnLabels
    <3>4. bound.size \in Nat
      BY <1>3 DEF IsCode
    <3>5. Follows(bound, Emit(G[i + 1], exp[i + 1], originalPos), originalPos)
      BY <3>1, <3>3, <3>4, EmitFollows
    <3> QED BY <3>2, <3>5
  <2>3. \A i \in Nat : i \in S => i + 1 \in S
    BY <2>2
  <2>4. n \in S
    <3> HIDE DEF S
    <3> QED BY <1>1, <2>1, <2>3, Induction
  <2> QED BY <1>1, <2>4
<1>7. Rewritten(before, G[n + 1], start, originalPos)
  <2> DEFINE e == G[n + 1]
  <2> HIDE DEF e
  <2>1. Follows(bound, e, originalPos)
    BY <1>6 DEF e
  <2>2. IsCode(e) /\ Keeps(before, e) /\ Appends(before, e, originalPos)
    BY <1>3, <2>1 DEF Follows, Keeps, Appends
  <2>3. label[2] = 0 /\ DOMAIN bound.labels = DOMAIN before.labels \cup {label}
        /\ bound.labels[label] = before.size
        /\ \A l \in DOMAIN before.labels : l # label => bound.labels[l] = before.labels[l]
    BY <1>3 DEF Bound, label
  <2>4. label \in DOMAIN e.labels /\ e.labels[label] = before.size
    BY <2>1, <2>3 DEF Follows, KeepsLabels
  <2>5. \A l : l[2] = 0 /\ l # label =>
          /\ l \in DOMAIN e.labels <=> l \in DOMAIN before.labels
          /\ l \in DOMAIN before.labels => e.labels[l] = before.labels[l]
    BY <2>1, <2>3 DEF Follows, KeepsLabels
  <2>6. Rewritten(before, e, start, originalPos)
    BY <2>2, <2>4, <2>5 DEF Rewritten, label
  <2> QED BY <2>6 DEF e
<1>8. ASSUME Good(exp)
      PROVE  AllPointed(before, G[n + 1], originalPos)
  <2> DEFINE Settled(i) ==
               /\ PointedButLast(bound, G[i + 1], originalPos)
               /\ i = 0 \/ ~IsSafePoint(exp[i]) => AllPointed(bound, G[i + 1], originalPos)
             S == {i \in Nat : i <= n => IsCode(G[i + 1]) /\ Settled(i)}
  <2>1. 0 \in S
    <3>1. AllPointed(bound, bound, originalPos) /\ PointedButLast(bound, bound, originalPos)
      BY DEF AllPointed, PointedButLast
    <3> QED BY <1>3, <1>4, <3>1
  <2>2. ASSUME NEW i \in Nat, i \in S, i + 1 <= n
        PROVE  IsCode(G[(i + 1) + 1]) /\ Settled(i + 1)
    <3>1. IsCode(G[i + 1]) /\ Settled(i) /\ i + 1 \in 1..n
      BY <1>1, <2>2
    <3>2. G[(i + 1) + 1] = Emit(G[i + 1], exp[i + 1], originalPos)
      BY <1>4, <3>1
    <3>3. AllPointed(bound, G[i + 1], originalPos)
            \/ (PointedButLast(bound, G[i + 1], originalPos) /\ exp[i + 1].kind = "state")
      <4>1. CASE i = 0 \/ ~IsSafePoint(exp[i])
        BY <3>1, <4>1
      <4>2. CASE i # 0 /\ IsSafePoint(exp[i])
        <5>1. i \in 1..n
          BY <1>1, <3>1, <4>2
        <5> QED BY <1>1, <1>8, <3>1, <4>2, <5>1 DEF Good, PointsFollow
      <4> QED BY <4>1, <4>2
    <3>4. IsCode(Emit(G[i + 1], exp[i + 1], originalPos))
      <4>1. exp[i + 1].kind = "bind" \/ exp[i + 1].kind = "state"
              \/ exp[i + 1].kind \notin {"bind", "state"}
        OBVIOUS
      <4> QED BY <3>1, <4>1, EmitBinds, EmitMarks, EmitAppends
    <3>5. LET f == Emit(G[i + 1], exp[i + 1], originalPos)
          IN /\ ~IsSafePoint(exp[i + 1]) => AllPointed(bound, f, originalPos)
             /\ PointedButLast(bound, f, originalPos)
      BY <3>1, <3>3, EmitPoints
    <3>6. i + 1 # 0
      OBVIOUS
    <3> QED BY <3>2, <3>4, <3>5, <3>6
  <2>3. \A i \in Nat : i \in S => i + 1 \in S
    BY <2>2
  <2>4. n \in S
    <3> HIDE DEF S
    <3> QED BY <1>1, <2>1, <2>3, Induction
  <2>5. Settled(n)
    BY <1>1, <2>4
  <2>6. n = 0 \/ ~IsSafePoint(exp[n])
    <3>1. n # 0 => n \in DOMAIN exp /\ n + 1 \notin DOMAIN exp
      BY <1>1
    <3> QED BY <1>8, <3>1 DEF Good, PointsFollow
  <2>7. AllPointed(bound, G[n + 1], originalPos)
    BY <2>5, <2>6
  <2> QED BY <1>3, <2>7 DEF AllPointed
<1> QED
  BY <1>5, <1>7, <1>8 DEF items, n

--------------------------------------------------------------------------------
(* The code of a method *)

\* The starts of the instructions follow one another.
LEMMA StartsIncrease ==
  ASSUME NEW n \in Nat, NEW at \in [1..n + 1 -> Nat], \A i \in 1..n : at[i] < at[i + 1]
  PROVE  \A i, j \in 1..n + 1 : i < j => at[i] < at[j]
<1> DEFINE S == {d \in Nat : \A i \in 1..n + 1 : i + d + 1 \in 1..n + 1 => at[i] < at[i + d + 1]}
<1>1. 0 \in S
  OBVIOUS
<1>2. ASSUME NEW d \in Nat, d \in S, NEW i \in 1..n + 1, i + (d + 1) + 1 \in 1..n + 1
      PROVE  at[i] < at[i + (d + 1) + 1]
  <2>1. i + d + 1 \in 1..n /\ at[i] < at[i + d + 1]
    BY <1>2
  <2>2. at[i + d + 1] < at[(i + d + 1) + 1]
    BY <2>1
  <2>3. (i + d + 1) + 1 = i + (d + 1) + 1
    OBVIOUS
  <2>4. at[i] \in Nat /\ at[i + d + 1] \in Nat /\ at[i + (d + 1) + 1] \in Nat
    BY <1>2, <2>1
  <2> QED BY <2>1, <2>2, <2>3, <2>4
<1>3. \A d \in Nat : d \in S => d + 1 \in S
  BY <1>2
<1>4. Nat \subseteq S
  <2> HIDE DEF S
  <2> QED BY <1>1, <1>3, Induction
<1> SUFFICES ASSUME NEW i \in 1..n + 1, NEW j \in 1..n + 1, i < j
             PROVE  at[i] < at[j]
  OBVIOUS
<1>5. j - i - 1 \in Nat /\ i + (j - i - 1) + 1 = j
  OBVIOUS
<1> QED
  BY <1>4, <1>5

\* An instruction without a state point behind its safe point.
NoPoint(instruction) ==
  \/ instruction.k \in {"LdGeneric", "CheckedConvert", "Throw"}
  \/ instruction.k = "CallCFunc" /\ Methods[GivenTo(instruction).id].sret

\* How a program is read: the instructions follow one another to its end, and each is
\* read as the callback it is meant as.
Starts(code, at, read) ==
  /\ Len(code) \in Nat /\ Len(read) \in Nat /\ at \in [1..Len(code) + 1 -> Nat]
  /\ at[1] = 1 /\ at[Len(code) + 1] = Len(read) + 1
  /\ \A i, j \in 1..Len(code) + 1 : i < j => at[i] < at[j]
IsReadAs(instruction, one, end) ==
  /\ one.end = end /\ one.callback.name = instruction.k /\ instruction.k \in Callbacks
  /\ Unpointed(instruction.k, one.callback.a) => NoPoint(instruction)
IsRead(code, at, read) ==
  /\ Starts(code, at, read)
  /\ \A i \in 1..Len(code) : IsReadAs(code[i], ParseOne(read, at[i]), at[i + 1])

LEMMA ProgramIsRead ==
  ASSUME ProgramsAreRead, NEW p \in Programs
  PROVE  IsRead(p.code, StartsOf(p.code), BytesOf(p.code, StartsOf(p.code)))
<1> DEFINE n == Len(p.code)
           at == StartsOf(p.code)
           read == BytesOf(p.code, at)
<1>1. /\ n \in Nat /\ Len(read) \in Nat /\ at \in [1..n + 1 -> Nat]
      /\ at[1] = 1 /\ at[n + 1] = Len(read) + 1
      /\ \A i \in 1..n : IsReadBack(p.code, i)
  BY DEF ProgramsAreRead
<1>2. ASSUME NEW i \in 1..n
      PROVE  at[i] < at[i + 1] /\ IsReadAs(p.code[i], ParseOne(read, at[i]), at[i + 1])
  <2> DEFINE one == ParseOne(read, at[i])
             given == GivenTo(p.code[i])
             k == p.code[i].k
  <2>1. /\ at[i] < at[i + 1] /\ one.end = at[i + 1]
        /\ k \in Callbacks /\ one.callback.name = k
        /\ k \in MethodCallbacks => "id" \in DOMAIN given
        /\ \A name \in DOMAIN given \ {"delta", "_"} :
             name \in DOMAIN one.callback.a /\ one.callback.a[name] = given[name]
    BY <1>1 DEF IsReadBack
  <2>2. "CallCFunc" \in MethodCallbacks
    BY OpcodesAreKnown DEF KnownOpcodes, MethodCallbacks
  <2> HIDE DEF one, given
  <2>3. Unpointed(k, one.callback.a) => NoPoint(p.code[i])
    <3>1. CASE k = "CallCFunc"
      <4>1. one.callback.a["id"] = given["id"]
        BY <2>1, <2>2, <3>1
      <4>2. one.callback.a.id = GivenTo(p.code[i]).id
        BY <4>1 DEF given
      <4> QED BY <3>1, <4>2 DEF Unpointed, NoPoint
    <3>2. CASE k # "CallCFunc"
      BY <3>2 DEF Unpointed, NoPoint
    <3> QED BY <3>1, <3>2
  <2> QED
    BY <2>1, <2>3 DEF IsReadAs, one
<1> HIDE DEF n, at, read
<1>3. \A i, j \in 1..n + 1 : i < j => at[i] < at[j]
  BY <1>1, <1>2, StartsIncrease
<1>4. Starts(p.code, at, read)
  BY <1>1, <1>3 DEF Starts, n
<1>5. IsRead(p.code, at, read)
  BY <1>2, <1>4 DEF IsRead, n
<1> QED
  BY <1>5 DEF at, read

\* Where an instruction starts in the code: the instructions before next have been
\* rewritten, the others start where the code ends so far.
PlaceOf(at, e, next, m) == IF m < next THEN e.labels[<<at[m], 0>>] ELSE e.size

\* The operations of an instruction lie between its label and the next one, and its
\* safe points have their state points.
Labelled(code, at, e, next) ==
  /\ \A m \in 1..Len(code) + 1 :
       /\ m < next => <<at[m], 0>> \in DOMAIN e.labels
       /\ PlaceOf(at, e, next, m) \in Nat /\ PlaceOf(at, e, next, m) <= e.size
  /\ \A l, m \in 1..Len(code) + 1 : l <= m => PlaceOf(at, e, next, l) <= PlaceOf(at, e, next, m)
Placed(code, at, e, next) ==
  \A j \in DOMAIN e.rt :
    \E m \in 1..Len(code) :
      /\ m < next /\ e.rt[j].of = at[m + 1] /\ e.rt[j].pos \in Nat
      /\ PlaceOf(at, e, next, m) <= e.rt[j].pos /\ End(e.rt[j]) <= PlaceOf(at, e, next, m + 1)
PointsPlaced(code, at, e) ==
  \A m \in 1..Len(code), j \in DOMAIN e.rt :
    e.rt[j].of = at[m + 1] /\ e.rt[j].item.op \in SafePoints /\ ~NoPoint(code[m]) =>
      PointOf(e.rt[j], at[m + 1]) \in e.points
CodeFollows(code, at, e, next) ==
  IsCode(e) /\ Labelled(code, at, e, next) /\ Placed(code, at, e, next) /\ PointsPlaced(code, at, e)

LEMMA NothingFollows ==
  ASSUME NEW code, NEW at, Len(code) \in Nat
  PROVE  CodeFollows(code, at, [rt |-> <<>>, size |-> 0, labels |-> <<>>, points |-> {}], 1)
<1> DEFINE e == [rt |-> <<>>, size |-> 0, labels |-> <<>>, points |-> {}]
<1>1. /\ e = [rt |-> e.rt, size |-> e.size, labels |-> e.labels, points |-> e.points]
      /\ e.rt = <<>> /\ e.size = 0
  OBVIOUS
<1>2. <<>> \in Seq({}) /\ DOMAIN <<>> = {}
  OBVIOUS
<1> HIDE DEF e
<1>3. IsCode(e)
  BY <1>1, <1>2 DEF IsCode, IsSeq
<1>4. Labelled(code, at, e, 1)
  BY <1>1 DEF Labelled, PlaceOf
<1>5. Placed(code, at, e, 1) /\ PointsPlaced(code, at, e)
  BY <1>1, <1>2 DEF Placed, PointsPlaced
<1>6. CodeFollows(code, at, e, 1)
  BY <1>3, <1>4, <1>5 DEF CodeFollows
<1> QED
  BY <1>6 DEF e

\* One more instruction is rewritten.
LEMMA InstructionFollows ==
  ASSUME NEW code, NEW at, NEW read, Starts(code, at, read),
         NEW e, NEW next \in 1..Len(code), CodeFollows(code, at, e, next),
         NEW f, Rewritten(e, f, at[next], at[next + 1]),
         ~NoPoint(code[next]) => AllPointed(e, f, at[next + 1])
  PROVE  CodeFollows(code, at, f, next + 1)
<1> DEFINE n == Len(code)
           before(m) == PlaceOf(at, e, next, m)
           after(m) == PlaceOf(at, f, next + 1, m)
<1>1. /\ n \in Nat /\ next \in 1..n /\ next + 1 \in 1..n + 1
      /\ \A i, j \in 1..n + 1 : i < j => at[i] < at[j]
      /\ \A i \in 1..n + 1 : at[i] \in Nat
  BY DEF Starts
<1>2. IsCode(e) /\ IsCode(f) /\ e.size \in Nat /\ f.size \in Nat /\ e.size <= f.size
  BY DEF CodeFollows, Rewritten, IsCode, Keeps
<1>3. \A i, j \in 1..n + 1 : at[i] = at[j] => i = j
  BY <1>1
<1>4. /\ \A m \in 1..n + 1 : m < next => <<at[m], 0>> \in DOMAIN e.labels
      /\ \A m \in 1..n + 1 : before(m) \in Nat /\ before(m) <= e.size
      /\ \A l, m \in 1..n + 1 : l <= m => before(l) <= before(m)
  BY DEF CodeFollows, Labelled
<1>5. before(next) = e.size /\ after(next) = e.size /\ after(next + 1) = f.size
  BY <1>1 DEF PlaceOf, Rewritten
<1>6. ASSUME NEW m \in 1..n + 1, m < next
      PROVE  <<at[m], 0>> \in DOMAIN f.labels /\ after(m) = before(m)
  <2>1. at[m] # at[next]
    BY <1>1, <1>3, <1>6
  <2>2. <<at[m], 0>>[2] = 0 /\ <<at[m], 0>> # <<at[next], 0>>
    BY <2>1
  <2>3. <<at[m], 0>> \in DOMAIN e.labels
    BY <1>4, <1>6
  <2>4. <<at[m], 0>> \in DOMAIN f.labels /\ f.labels[<<at[m], 0>>] = e.labels[<<at[m], 0>>]
    BY <2>2, <2>3 DEF Rewritten
  <2>5. m < next + 1
    BY <1>1, <1>6
  <2> QED BY <1>6, <2>4, <2>5 DEF PlaceOf
<1>7. ASSUME NEW m \in 1..n + 1, m > next
      PROVE  after(m) = f.size
  BY <1>1, <1>7 DEF PlaceOf
<1> HIDE DEF before, after
<1>8. ASSUME NEW m \in 1..n + 1
      PROVE  after(m) \in Nat /\ after(m) <= f.size
  <2>1. CASE m < next
    <3>1. after(m) = before(m) /\ before(m) \in Nat /\ before(m) <= e.size
      BY <1>4, <1>6, <2>1
    <3> QED BY <1>2, <3>1
  <2>2. CASE m >= next
    BY <1>1, <1>2, <1>5, <1>7, <2>2
  <2> QED BY <1>1, <2>1, <2>2
<1>9. ASSUME NEW l \in 1..n + 1, NEW m \in 1..n + 1, l <= m
      PROVE  after(l) <= after(m)
  <2>1. CASE m < next
    <3>1. l < next /\ before(l) <= before(m)
      BY <1>1, <1>4, <1>9, <2>1
    <3> QED BY <1>6, <2>1, <3>1
  <2>2. CASE m = next
    <3>1. CASE l < next
      BY <1>4, <1>5, <1>6, <2>2, <3>1
    <3>2. CASE l = next
      BY <1>2, <1>5, <2>2, <3>2
    <3> QED BY <1>1, <1>9, <2>2, <3>1, <3>2
  <2>3. CASE m > next
    BY <1>7, <1>8, <2>3
  <2> QED BY <1>1, <2>1, <2>2, <2>3
<1>10. Labelled(code, at, f, next + 1)
  <2>1. <<at[next], 0>> \in DOMAIN f.labels
    BY DEF Rewritten
  <2>2. \A m \in 1..n + 1 : m < next + 1 => <<at[m], 0>> \in DOMAIN f.labels
    BY <1>1, <1>6, <2>1
  <2> QED BY <1>8, <1>9, <2>2 DEF Labelled, n, after
<1>11. ASSUME NEW j \in DOMAIN e.rt
       PROVE  /\ j \in DOMAIN f.rt /\ f.rt[j] = e.rt[j]
              /\ \E m \in 1..n :
                   /\ m < next /\ e.rt[j].of = at[m + 1] /\ e.rt[j].pos \in Nat
                   /\ before(m) <= e.rt[j].pos /\ End(e.rt[j]) <= before(m + 1)
  BY DEF CodeFollows, Placed, Rewritten, Keeps, n, before
<1>12. ASSUME NEW j \in DOMAIN f.rt
       PROVE  \E m \in 1..n :
                /\ m < next + 1 /\ f.rt[j].of = at[m + 1] /\ f.rt[j].pos \in Nat
                /\ after(m) <= f.rt[j].pos /\ End(f.rt[j]) <= after(m + 1)
  <2>1. CASE j \in DOMAIN e.rt
    <3>1. PICK m \in 1..n :
            /\ m < next /\ e.rt[j].of = at[m + 1] /\ e.rt[j].pos \in Nat
            /\ before(m) <= e.rt[j].pos /\ End(e.rt[j]) <= before(m + 1)
      BY <1>11, <2>1
    <3>2. m \in 1..n + 1 /\ m + 1 \in 1..n + 1 /\ m < next + 1 /\ m + 1 <= next
      BY <1>1, <3>1
    <3>3. after(m) = before(m)
      BY <1>6, <3>1, <3>2
    <3>4. after(m + 1) = before(m + 1)
      <4>1. CASE m + 1 < next
        BY <1>6, <3>2, <4>1
      <4>2. CASE m + 1 = next
        BY <1>5, <4>2
      <4> QED BY <3>2, <4>1, <4>2, <1>1
    <3>5. f.rt[j] = e.rt[j]
      BY <1>11, <2>1
    <3> QED BY <3>1, <3>2, <3>3, <3>4, <3>5
  <2>2. CASE j \notin DOMAIN e.rt
    <3>1. /\ f.rt[j].of = at[next + 1] /\ f.rt[j].pos \in Nat
          /\ e.size <= f.rt[j].pos /\ End(f.rt[j]) <= f.size
      BY <2>2 DEF Rewritten, Appends
    <3>2. next < next + 1
      BY <1>1
    <3> QED BY <1>1, <1>5, <3>1, <3>2
  <2> QED BY <2>1, <2>2
<1>13. Placed(code, at, f, next + 1)
  BY <1>12 DEF Placed, n, after
<1>14. ASSUME NEW m \in 1..n, NEW j \in DOMAIN f.rt, f.rt[j].of = at[m + 1],
              f.rt[j].item.op \in SafePoints, ~NoPoint(code[m])
       PROVE  PointOf(f.rt[j], at[m + 1]) \in f.points
  <2>1. CASE j \in DOMAIN e.rt
    <3>1. PointOf(e.rt[j], at[m + 1]) \in e.points
      BY <1>11, <1>14, <2>1 DEF CodeFollows, PointsPlaced, n
    <3> QED BY <1>11, <2>1, <3>1 DEF Rewritten, Keeps
  <2>2. CASE j \notin DOMAIN e.rt
    <3>1. f.rt[j].of = at[next + 1]
      BY <2>2 DEF Rewritten, Appends
    <3>2. m = next
      <4>1. m + 1 \in 1..n + 1 /\ m \in Nat /\ next \in Nat
        BY <1>1
      <4>2. m + 1 = next + 1
        BY <1>1, <1>3, <1>14, <3>1, <4>1
      <4> QED BY <4>1, <4>2
    <3> QED BY <1>14, <2>2, <3>2 DEF AllPointed
  <2> QED BY <2>1, <2>2
<1>15. PointsPlaced(code, at, f)
  BY <1>14 DEF PointsPlaced, n
<1> QED
  BY <1>2, <1>10, <1>13, <1>15 DEF CodeFollows

\* All instructions are rewritten, and the end gets its label.
LEMMA EndFollows ==
  ASSUME NEW code, NEW at, NEW read, Starts(code, at, read),
         NEW e, CodeFollows(code, at, e, Len(code) + 1),
         NEW f, IsCode(f), f.rt = e.rt, f.size = e.size, f.points = e.points,
         f.labels = Bound(e.labels, <<at[Len(code) + 1], 0>>, e.size)
  PROVE  CodeFollows(code, at, f, Len(code) + 2)
<1> DEFINE n == Len(code)
           before(m) == PlaceOf(at, e, n + 1, m)
           after(m) == PlaceOf(at, f, n + 2, m)
<1>1. /\ n \in Nat /\ n + 1 \in 1..n + 1
      /\ \A m \in 1..n + 1 : m < n + 1 => at[m] < at[n + 1] /\ at[m] \in Nat /\ at[n + 1] \in Nat
  BY DEF Starts
<1>2. ASSUME NEW m \in 1..n + 1
      PROVE  <<at[m], 0>> \in DOMAIN f.labels /\ after(m) = before(m)
  <2>1. CASE m = n + 1
    BY <1>1, <2>1 DEF Bound, PlaceOf
  <2>2. CASE m < n + 1
    <3>1. at[m] # at[n + 1]
      BY <1>1, <2>2
    <3>2. <<at[m], 0>> # <<at[n + 1], 0>> /\ <<at[m], 0>> \in DOMAIN e.labels
      BY <2>2, <3>1 DEF CodeFollows, Labelled
    <3> QED BY <1>1, <2>2, <3>2 DEF Bound, PlaceOf
  <2> QED BY <1>1, <2>1, <2>2
<1>3. /\ \A m \in 1..n + 1 : before(m) \in Nat /\ before(m) <= e.size
      /\ \A l, m \in 1..n + 1 : l <= m => before(l) <= before(m)
  BY DEF CodeFollows, Labelled
<1>4. \A j \in DOMAIN e.rt :
        \E m \in 1..n :
          /\ m < n + 1 /\ e.rt[j].of = at[m + 1] /\ e.rt[j].pos \in Nat
          /\ before(m) <= e.rt[j].pos /\ End(e.rt[j]) <= before(m + 1)
  BY DEF CodeFollows, Placed
<1> HIDE DEF before, after
<1>5. Labelled(code, at, f, n + 2)
  <2>1. \A m \in 1..n + 1 :
          /\ m < n + 2 => <<at[m], 0>> \in DOMAIN f.labels
          /\ after(m) \in Nat /\ after(m) <= f.size
    BY <1>2, <1>3
  <2>2. \A l, m \in 1..n + 1 : l <= m => after(l) <= after(m)
    BY <1>2, <1>3
  <2> QED BY <2>1, <2>2 DEF Labelled, after, n
<1>6. Placed(code, at, f, n + 2)
  <2>1. \A m \in 1..n : m < n + 2 /\ m \in 1..n + 1 /\ m + 1 \in 1..n + 1
    BY <1>1
  <2>2. \A j \in DOMAIN f.rt :
          \E m \in 1..n :
            /\ m < n + 2 /\ f.rt[j].of = at[m + 1] /\ f.rt[j].pos \in Nat
            /\ after(m) <= f.rt[j].pos /\ End(f.rt[j]) <= after(m + 1)
    BY <1>2, <1>4, <2>1
  <2> QED BY <2>2 DEF Placed, after, n
<1>7. PointsPlaced(code, at, f)
  BY DEF CodeFollows, PointsPlaced
<1> QED
  BY <1>5, <1>6, <1>7 DEF CodeFollows

--------------------------------------------------------------------------------
(* The invariant of rewriting *)

Code == [rt |-> rt, size |-> size, labels |-> labels, points |-> statePoints]

\* The rewriter stands at the start of an instruction, and what it has emitted follows
\* the instructions before it.
CodeInv ==
  /\ program \in Programs
  /\ starts = StartsOf(program.code) /\ bytes = BytesOf(program.code, starts)
  /\ phase = "rewriting" =>
       \E next \in 1..Length + 1 :
         cursor = starts[next] /\ CodeFollows(program.code, starts, Code, next)
  /\ phase = "built" => CodeFollows(program.code, starts, Code, Length + 2)

LEMMA CodeParts ==
  /\ Code = [rt |-> Code.rt, size |-> Code.size, labels |-> Code.labels, points |-> Code.points]
  /\ Code.rt = rt /\ Code.size = size /\ Code.labels = labels /\ Code.points = statePoints
BY DEF Code

LEMMA InitEstablishesCode ==
  ASSUME ProgramsAreRead, Init
  PROVE  CodeInv
<1>1. IsRead(program.code, starts, bytes)
  BY ProgramIsRead DEF Init
<1>2. Length \in Nat /\ starts[1] = 1 /\ 1 \in 1..Length + 1
  BY <1>1 DEF IsRead, Starts, Length
<1>3. Code = [rt |-> <<>>, size |-> 0, labels |-> <<>>, points |-> {}]
  BY DEF Code, Init
<1>4. CodeFollows(program.code, starts, Code, 1)
  BY <1>2, <1>3, NothingFollows DEF Length
<1>5. cursor = starts[1] /\ phase = "rewriting"
  BY <1>2 DEF Init
<1>6. \E next \in 1..Length + 1 :
        cursor = starts[next] /\ CodeFollows(program.code, starts, Code, next)
  BY <1>2, <1>4, <1>5
<1>7. program \in Programs /\ starts = StartsOf(program.code) /\ bytes = BytesOf(program.code, starts)
  BY DEF Init
<1> QED
  BY <1>5, <1>6, <1>7 DEF CodeInv

LEMMA RewriteOnePreservesCode ==
  ASSUME ProgramsAreRead, CodeInv, RewriteOne
  PROVE  CodeInv'
<1> DEFINE one == ParseOne(bytes, cursor)
           k == one.callback.name
           a == one.callback.a
           exp == IF Resolves(k, a) THEN Expansion(k, a, cursor, one.end) ELSE <<>>
           e == EmitAll(Code, Bind(InstructionLabel(cursor)) \o exp, one.end)
<1>1. /\ program' = program /\ starts' = starts /\ bytes' = bytes /\ phase' = phase
      /\ phase = "rewriting" /\ cursor <= Len(bytes)
  BY DEF RewriteOne
<1>2. Rewrite(k, a, one.end)
  BY DEF RewriteOne
<1>3. cursor' = one.end /\ rt' = e.rt /\ size' = e.size /\ labels' = e.labels /\ statePoints' = e.points
  BY <1>2 DEF Rewrite, Code
<1>4. IsRead(program.code, starts, bytes)
  BY ProgramIsRead DEF CodeInv
<1>5. PICK next \in 1..Length + 1 :
        cursor = starts[next] /\ CodeFollows(program.code, starts, Code, next)
  BY <1>1 DEF CodeInv
<1>6. Starts(program.code, starts, bytes) /\ Length = Len(program.code) /\ Length \in Nat
  BY <1>4 DEF IsRead, Starts, Length
<1>7. next \in 1..Length
  <2>1. starts[Length + 1] = Len(bytes) + 1 /\ starts[next] \in Nat /\ starts[Length + 1] \in Nat
    BY <1>5, <1>6 DEF Starts
  <2>2. Len(bytes) \in Nat
    BY <1>6 DEF Starts
  <2>3. next # Length + 1
    BY <1>1, <1>5, <2>1, <2>2
  <2> QED BY <1>5, <1>6, <2>3
<1>8. IsReadAs(program.code[next], one, starts[next + 1])
  BY <1>4, <1>5, <1>6, <1>7 DEF IsRead
<1>9. /\ one.end = starts[next + 1] /\ k = program.code[next].k /\ k \in Callbacks
      /\ Unpointed(k, a) => NoPoint(program.code[next])
  BY <1>8 DEF IsReadAs
<1> HIDE DEF one, k, a
<1>10. Proper(exp) /\ (~Unpointed(k, a) => Good(exp))
  <2>1. CASE Resolves(k, a)
    BY <1>9, <2>1, ExpansionIsGood
  <2>2. CASE ~Resolves(k, a)
    BY <2>2, NothingIsGood DEF Good
  <2> QED BY <2>1, <2>2
<1> HIDE DEF exp
<1>11. IsCode(Code)
  BY <1>5 DEF CodeFollows
<1>12. Rewritten(Code, e, starts[next], starts[next + 1])
       /\ (Good(exp) => AllPointed(Code, e, starts[next + 1]))
  BY <1>5, <1>9, <1>10, <1>11, InstructionEmitted
<1> HIDE DEF e
<1>13. Code' = e
  <2>1. e = [rt |-> e.rt, size |-> e.size, labels |-> e.labels, points |-> e.points]
    BY <1>12 DEF Rewritten, IsCode
  <2> QED BY <1>3, <2>1 DEF Code
<1>14. CodeFollows(program.code, starts, Code', next + 1)
  BY <1>5, <1>6, <1>7, <1>9, <1>10, <1>12, <1>13, InstructionFollows
<1>15. /\ next + 1 \in 1..Length + 1 /\ cursor' = starts[next + 1]
  BY <1>3, <1>6, <1>7, <1>9
<1>16. Length' = Length
  BY <1>1 DEF Length
<1>17. (\E m \in 1..Length + 1 :
          cursor = starts[m] /\ CodeFollows(program.code, starts, Code, m))'
  BY <1>1, <1>14, <1>15, <1>16
<1>18. phase' # "built"
  BY <1>1
<1> QED
  BY <1>1, <1>17, <1>18 DEF CodeInv

LEMMA FinishPreservesCode ==
  ASSUME ProgramsAreRead, CodeInv, Finish
  PROVE  CodeInv'
<1>1. /\ program' = program /\ starts' = starts /\ bytes' = bytes
      /\ phase = "rewriting" /\ phase' \in {"built", "failed"} /\ cursor > Len(bytes)
      /\ rt' = rt /\ size' = size /\ statePoints' = statePoints
      /\ labels' = Bound(labels, <<cursor, 0>>, size)
  BY DEF Finish, InstructionLabel
<1>2. IsRead(program.code, starts, bytes)
  BY ProgramIsRead DEF CodeInv
<1>3. PICK next \in 1..Length + 1 :
        cursor = starts[next] /\ CodeFollows(program.code, starts, Code, next)
  BY <1>1 DEF CodeInv
<1>4. /\ Starts(program.code, starts, bytes) /\ Length = Len(program.code) /\ Length \in Nat
      /\ Length' = Length
  BY <1>1, <1>2 DEF IsRead, Starts, Length
<1>5. next = Length + 1
  <2>0. next \in 1..Length + 1 /\ Length + 1 \in 1..Length + 1
    BY <1>3, <1>4
  <2>1. /\ starts[Length + 1] = Len(bytes) + 1 /\ starts[next] \in Nat /\ starts[Length + 1] \in Nat
        /\ next < Length + 1 => starts[next] < starts[Length + 1]
    BY <1>4, <2>0 DEF Starts
  <2>2. Len(bytes) \in Nat
    BY <1>4 DEF Starts
  <2>3. ~(next < Length + 1)
    BY <1>1, <1>3, <2>1, <2>2
  <2> QED BY <1>3, <1>4, <2>3
<1>6. IsCode(Code')
  BY <1>1, <1>3, CodeParts DEF CodeFollows, IsCode, Code
<1>7. CodeFollows(program.code, starts, Code', Length + 2)
  <2>1. /\ Code'.rt = Code.rt /\ Code'.size = Code.size /\ Code'.points = Code.points
        /\ Code'.labels = Bound(Code.labels, <<starts[Length + 1], 0>>, Code.size)
    BY <1>1, <1>3, <1>5 DEF Code
  <2> QED BY <1>3, <1>4, <1>5, <1>6, <2>1, EndFollows
<1>8. phase' # "rewriting"
  BY <1>1
<1> QED
  BY <1>1, <1>4, <1>7, <1>8 DEF CodeInv

\* Once the code is built, nothing changes it, and nothing builds it again.
LEMMA RunningPreservesCode ==
  ASSUME CodeInv, Enter \/ Arrive \/ Execute \/ UNCHANGED vars
  PROVE  CodeInv'
<1>1. /\ program' = program /\ starts' = starts /\ bytes' = bytes /\ cursor' = cursor
      /\ rt' = rt /\ size' = size /\ labels' = labels /\ statePoints' = statePoints
  BY DEF Enter, Arrive, Execute, vars
<1>2. phase' = phase \/ phase' \in {"running", "ended"}
  <2>1. CASE Enter
    BY <2>1 DEF Enter
  <2>2. CASE Arrive
    BY <2>2 DEF Arrive
  <2>3. CASE Execute
    BY <2>3 DEF Execute
  <2>4. CASE UNCHANGED vars
    BY <2>4 DEF vars
  <2> QED BY <2>1, <2>2, <2>3, <2>4
<1>3. Code' = Code /\ Length' = Length
  BY <1>1 DEF Code, Length
<1> QED
  BY <1>1, <1>2, <1>3 DEF CodeInv

\* At every step of the rewriter, what it has emitted follows the instructions it has
\* read: the operations of each lie between its label and the next one.
THEOREM CodeIsInvariant ==
  ASSUME ProgramsAreRead
  PROVE  Spec => []CodeInv
<1>1. Init => CodeInv
  BY InitEstablishesCode
<1>2. CodeInv /\ [Next]_vars => CodeInv'
  BY RewriteOnePreservesCode, FinishPreservesCode, RunningPreservesCode DEF Next
<1> QED
  BY <1>1, <1>2, PTL DEF Spec

\* Behind every operation during which the collector may run or an exception may leave,
\* the code of a method has the state point of its instruction (BindStatePoint): for
\* every method, every way its fields, types and methods resolve, and every choice of
\* registers.
THEOREM PointsFollowCode ==
  ASSUME ProgramsAreRead
  PROVE  Spec => []StatePointsFollow
<1>1. CodeInv => StatePointsFollow
  <2> SUFFICES ASSUME CodeInv, phase = "built", NEW i \in 1..Length, NEW j \in DOMAIN rt,
                      rt[j].of = starts[i + 1], rt[j].item.op \in SafePoints, ~WithoutStatePoint(i)
               PROVE  [pos |-> rt[j].pos + SizeOf(rt[j].item.op), originalPos |-> starts[i + 1]]
                        \in statePoints
    BY DEF StatePointsFollow
  <2>1. PointsPlaced(program.code, starts, Code)
    BY DEF CodeInv, CodeFollows
  <2>2. ~NoPoint(program.code[i])
    BY DEF WithoutStatePoint, NoPoint, Instr, Given
  <2> QED
    BY <2>1, <2>2, CodeParts DEF PointsPlaced, PointOf, End, Length
<1> QED
  BY <1>1, CodeIsInvariant, PTL

\* A try block finds its handler for the operations of its instructions and, but for an
\* operation of a single byte right behind it, for no others
\* (engine_get_exception_handler): for every method and every block of its instructions.
THEOREM TryBlocksFollowCode ==
  ASSUME ProgramsAreRead
  PROVE  Spec => []TryBlocksFollow
<1>1. CodeInv => TryBlocksFollow
  <2> DEFINE first == program.region[1]
             last == program.region[2]
  <2> SUFFICES ASSUME CodeInv, phase = "built", program.region # NoTarget,
                      NEW i \in 1..Length, NEW j \in DOMAIN rt, rt[j].of = starts[i + 1]
               PROVE  \/ HandledBy(program.region, ThrowPosition(rt[j])) = (i >= first /\ i < last)
                      \/ rt[j].pos = LabelOf(last) /\ SizeOf(rt[j].item.op) = 1
    BY DEF TryBlocksFollow
  <2>1. Starts(program.code, starts, bytes) /\ Length = Len(program.code) /\ Length \in Nat
    BY ProgramIsRead DEF CodeInv, IsRead, Starts, Length
  <2>2. first \in 1..Length + 1 /\ last \in 1..Length + 1
    BY DEF ProgramsAreRead, CodeInv, Length
  <2>3. /\ Labelled(program.code, starts, Code, Length + 2)
        /\ Placed(program.code, starts, Code, Length + 2)
    BY DEF CodeInv, CodeFollows
  <2>4. \A m \in 1..Length + 1 : PlaceOf(starts, Code, Length + 2, m) = LabelOf(m)
    BY <2>1, CodeParts DEF PlaceOf, LabelOf, InstructionLabel
  <2>5. /\ \A m \in 1..Length + 1 : LabelOf(m) \in Nat
        /\ \A l, m \in 1..Length + 1 : l <= m => LabelOf(l) <= LabelOf(m)
    BY <2>1, <2>3, <2>4 DEF Labelled
  <2>6. PICK m \in 1..Length :
          /\ rt[j].of = starts[m + 1] /\ rt[j].pos \in Nat
          /\ PlaceOf(starts, Code, Length + 2, m) <= rt[j].pos
          /\ End(rt[j]) <= PlaceOf(starts, Code, Length + 2, m + 1)
    BY <2>1, <2>3, CodeParts DEF Placed
  <2>7. m = i
    <3>1. i + 1 \in 1..Length + 1 /\ m + 1 \in 1..Length + 1
      BY <2>1
    <3>2. starts[i + 1] = starts[m + 1]
      BY <2>6
    <3>3. i + 1 = m + 1
      BY <2>1, <3>1, <3>2 DEF Starts
    <3> QED BY <3>1, <3>3
  <2>8. /\ rt[j].pos \in Nat /\ SizeOf(rt[j].item.op) \in {1, 2}
        /\ LabelOf(i) <= rt[j].pos /\ rt[j].pos + SizeOf(rt[j].item.op) <= LabelOf(i + 1)
    BY <2>1, <2>4, <2>6, <2>7, SizesArePositive DEF End
  <2> DEFINE position == ThrowPosition(rt[j])
  <2> HIDE DEF first, last
  <2>9. i \in 1..Length + 1 /\ i + 1 \in 1..Length + 1
    BY <2>1
  <2>10. /\ first <= i => LabelOf(first) <= LabelOf(i)
         /\ i < first => LabelOf(i + 1) <= LabelOf(first)
         /\ i < last => LabelOf(i + 1) <= LabelOf(last)
         /\ last <= i => LabelOf(last) <= LabelOf(i)
    <3>1. /\ i < first => i + 1 <= first
          /\ i < last => i + 1 <= last
      BY <2>1, <2>2
    <3> QED BY <2>2, <2>5, <2>9, <3>1
  <2>11. CASE first <= i /\ i < last
    <3>1. LabelOf(first) <= position /\ position <= LabelOf(last)
      BY <2>2, <2>5, <2>8, <2>9, <2>10, <2>11 DEF ThrowPosition
    <3> QED BY <2>11, <3>1 DEF HandledBy, first, last
  <2>12. CASE i < first
    <3>1. ~(LabelOf(first) <= position)
      BY <2>2, <2>5, <2>8, <2>9, <2>10, <2>12 DEF ThrowPosition
    <3> QED BY <2>1, <2>2, <2>12, <3>1 DEF HandledBy, first, last
  <2>13. CASE last <= i
    <3>1. position <= LabelOf(last) => rt[j].pos = LabelOf(last) /\ SizeOf(rt[j].item.op) = 1
      BY <2>2, <2>5, <2>8, <2>9, <2>10, <2>13 DEF ThrowPosition
    <3> QED BY <2>1, <2>2, <2>13, <3>1 DEF HandledBy, first, last
  <2> QED
    BY <2>1, <2>2, <2>11, <2>12, <2>13
<1> QED
  BY <1>1, CodeIsInvariant, PTL
================================================================================
