------------------------------- MODULE TermsProofs -------------------------------
(***************************************************************************)
(* Theorems about terms: in the table of interned ones there is one for a  *)
(* type and nothing of a session's, whatever terms the sessions make and   *)
(* however their walks interleave; and a term stays the type that was      *)
(* asked for, with the flags of that type, when the files and the runtime  *)
(* agree on the types; and the matcher finds the extensions of which a     *)
(* type is an instance, and no others.                                     *)
(***************************************************************************)
EXTENDS Terms, NaturalsInduction, WellFoundedInduction, FiniteSetTheorems, TLAPS

--------------------------------------------------------------------------------
(* Induction *)

\* Induction up to a bound, with the set of the numbers that have the property.
LEMMA Induction ==
  ASSUME NEW m \in Nat, NEW S, 0 \in S,
         \A n \in 0..m : n \in S /\ n + 1 \in 0..m => n + 1 \in S
  PROVE  0..m \subseteq S
<1> SUFFICES ASSUME (0..m) \ S # {} PROVE FALSE
  OBVIOUS
<1> DEFINE R == OpToRel(<, Nat)
           T == (0..m) \ S
<1>1. IsWellFoundedOn(R, Nat)
  BY NatLessThanWellFounded
<1>2. PICK x \in T : \A y \in T : ~ (<<y, x>> \in R)
  <2>1. T \subseteq Nat /\ T # {}
    OBVIOUS
  <2> HIDE DEF R, T
  <2> QED BY <1>1, <2>1, WFMin
<1>3. x # 0
  OBVIOUS
<1>4. x - 1 \in 0..m /\ (x - 1) + 1 = x /\ x - 1 < x /\ x \in 0..m
  <2> HIDE DEF R
  <2>1. x \in 0..m
    OBVIOUS
  <2> HIDE DEF T
  <2> QED BY <1>3, <2>1
<1>5. <<x - 1, x>> \in R
  BY <1>4 DEF OpToRel
<1>6. x - 1 \in S
  <2> HIDE DEF R
  <2> QED BY <1>2, <1>4, <1>5
<1> HIDE DEF R
<1> QED
  BY <1>3, <1>4, <1>6

\* The terms of the next level.
Over(S) == [id : Ids, subs : Seq(S), flags : SUBSET Flag, at : Places]

LEMMA LevelsExist ==
  \A m \in Nat : \E f : f = [n \in 0..m |-> IF n = 0 THEN {} ELSE Over(f[n - 1])]
<1> SUFFICES ASSUME NEW k \in Nat
             PROVE  \E f : f = [n \in 0..k |-> IF n = 0 THEN {} ELSE Over(f[n - 1])]
  OBVIOUS
<1> DEFINE S == {m \in 0..k : \E f : f = [n \in 0..m |-> IF n = 0 THEN {} ELSE Over(f[n - 1])]}
<1>1. 0 \in S
  <2> DEFINE f == [n \in 0..0 |-> {}]
  <2>1. f = [n \in 0..0 |-> IF n = 0 THEN {} ELSE Over(f[n - 1])]
    <3>1. \A n \in 0..0 : n = 0
      OBVIOUS
    <3>2. \A n \in 0..0 : f[n] = IF n = 0 THEN {} ELSE Over(f[n - 1])
      BY <3>1
    <3>3. f = [n \in 0..0 |-> f[n]]
      OBVIOUS
    <3> HIDE DEF f
    <3> QED BY <3>2, <3>3
  <2> HIDE DEF f
  <2> QED BY <2>1
<1>2. ASSUME NEW m \in 0..k, m \in S, m + 1 \in 0..k
      PROVE  m + 1 \in S
  <2>1. PICK f : f = [n \in 0..m |-> IF n = 0 THEN {} ELSE Over(f[n - 1])]
    BY <1>2
  <2> DEFINE g == [n \in 0..m + 1 |-> IF n = m + 1 THEN Over(f[m]) ELSE f[n]]
  <2>2. ASSUME NEW n \in 0..m + 1
        PROVE  g[n] = IF n = 0 THEN {} ELSE Over(g[n - 1])
    <3>1. CASE n = m + 1
      <4>1. n # 0 /\ n - 1 \in 0..m + 1 /\ n - 1 # m + 1 /\ n - 1 = m
        BY <3>1
      <4>2. g[n - 1] = f[m]
        BY <4>1
      <4> QED BY <3>1, <4>1, <4>2
    <3>2. CASE n # m + 1
      <4>1. n \in 0..m /\ (n # 0 => n - 1 \in 0..m + 1 /\ n - 1 # m + 1)
        BY <3>2
      <4>2. f[n] = IF n = 0 THEN {} ELSE Over(f[n - 1])
        BY <2>1, <4>1
      <4>3. g[n] = f[n] /\ (n # 0 => g[n - 1] = f[n - 1])
        BY <3>2, <4>1
      <4> HIDE DEF g
      <4> QED BY <4>2, <4>3
    <3> QED BY <3>1, <3>2
  <2>3. g = [n \in 0..m + 1 |-> IF n = 0 THEN {} ELSE Over(g[n - 1])]
    <3>1. g = [n \in 0..m + 1 |-> g[n]]
      OBVIOUS
    <3> HIDE DEF g
    <3> QED BY <2>2, <3>1
  <2> HIDE DEF g
  <2> QED BY <1>2, <2>3
<1> HIDE DEF S
<1>3. k \in S
  BY <1>1, <1>2, Induction
<1> QED
  BY <1>3 DEF S

\* A level is made over the one below.
LEMMA Levels ==
  /\ TermTo[0] = {}
  /\ \A n \in 0..MaxDepth : n + 1 \in 0..MaxDepth => TermTo[n + 1] = Over(TermTo[n])
  /\ Term = TermTo[MaxDepth]
<1> DEFINE Is(f) == f = [n \in 0..MaxDepth |-> IF n = 0 THEN {} ELSE Over(f[n - 1])]
<1>1. Is(TermTo)
  <2>1. \E f : Is(f)
    BY LevelsExist, MaxDepthAssumption
  <2>2. TermTo = CHOOSE f : Is(f)
    BY DEF TermTo, Over
  <2> HIDE DEF Is
  <2> QED BY <2>1, <2>2
<1>2. TermTo[0] = {}
  BY <1>1, MaxDepthAssumption
<1>3. ASSUME NEW n \in 0..MaxDepth, n + 1 \in 0..MaxDepth
      PROVE  TermTo[n + 1] = Over(TermTo[n])
  <2>1. n + 1 # 0 /\ (n + 1) - 1 = n
    BY MaxDepthAssumption
  <2>2. TermTo[n + 1] = IF n + 1 = 0 THEN {} ELSE Over(TermTo[(n + 1) - 1])
    BY <1>1, <1>3
  <2> QED BY <2>1, <2>2
<1> QED
  BY <1>2, <1>3 DEF Term

\* Levels grow.
LEMMA LevelsGrow ==
  \A n \in 0..MaxDepth : n + 1 \in 0..MaxDepth => TermTo[n] \subseteq TermTo[n + 1]
<1> DEFINE S == {n \in 0..MaxDepth : n + 1 \in 0..MaxDepth => TermTo[n] \subseteq TermTo[n + 1]}
<1>1. 0 \in S
  BY Levels, MaxDepthAssumption
<1>2. ASSUME NEW n \in 0..MaxDepth, n \in S, n + 1 \in 0..MaxDepth
      PROVE  n + 1 \in S
  <2> SUFFICES ASSUME (n + 1) + 1 \in 0..MaxDepth PROVE TermTo[n + 1] \subseteq TermTo[(n + 1) + 1]
    BY <1>2
  <2>1. TermTo[n] \subseteq TermTo[n + 1]
    BY <1>2
  <2>2. TermTo[n + 1] = Over(TermTo[n]) /\ TermTo[(n + 1) + 1] = Over(TermTo[n + 1])
    BY <1>2, Levels
  <2>3. Seq(TermTo[n]) \subseteq Seq(TermTo[n + 1])
    BY <2>1
  <2>4. \A A, B : Seq(A) \subseteq Seq(B) => Over(A) \subseteq Over(B)
    BY DEF Over
  <2> QED BY <2>2, <2>3, <2>4
<1> HIDE DEF S
<1>3. 0..MaxDepth \subseteq S
  BY <1>1, <1>2, Induction, MaxDepthAssumption
<1> QED
  BY <1>3 DEF S

LEMMA LevelsAreTerms == \A n \in 0..MaxDepth : TermTo[n] \subseteq Term
<1> DEFINE S == {m \in 0..MaxDepth : TermTo[MaxDepth - m] \subseteq Term}
<1>1. 0 \in S
  <2>1. MaxDepth - 0 = MaxDepth /\ 0 \in 0..MaxDepth
    BY MaxDepthAssumption
  <2> QED BY <2>1, Levels
<1>2. ASSUME NEW m \in 0..MaxDepth, m \in S, m + 1 \in 0..MaxDepth
      PROVE  m + 1 \in S
  <2> DEFINE n == MaxDepth - (m + 1)
  <2>1. n \in 0..MaxDepth /\ n + 1 \in 0..MaxDepth /\ n + 1 = MaxDepth - m
    BY <1>2, MaxDepthAssumption
  <2> QED BY <1>2, <2>1, LevelsGrow
<1> HIDE DEF S
<1>3. 0..MaxDepth \subseteq S
  BY <1>1, <1>2, Induction, MaxDepthAssumption
<1> SUFFICES ASSUME NEW n \in 0..MaxDepth PROVE TermTo[n] \subseteq Term
  OBVIOUS
<1>4. MaxDepth - n \in S /\ MaxDepth - (MaxDepth - n) = n
  BY <1>3, MaxDepthAssumption
<1> QED
  BY <1>4 DEF S

\* The subterms of a term are a level below it.
LEMMA LevelParts ==
  ASSUME NEW n \in 0..MaxDepth, n + 1 \in 0..MaxDepth,
         NEW t \in TermTo[n + 1], NEW i \in DOMAIN t.subs
  PROVE  t.subs[i] \in TermTo[n] /\ t.subs[i] \in TermTo[n + 1]
<1>1. t \in Over(TermTo[n])
  BY Levels
<1>2. t.subs[i] \in TermTo[n]
  BY <1>1 DEF Over
<1> QED
  BY <1>2, LevelsGrow

\* What a term consists of.
LEMMA TermParts ==
  ASSUME NEW t \in Term
  PROVE  /\ t \in Over(Term)
         /\ \A i \in DOMAIN t.subs : t.subs[i] \in Term
<1>1. MaxDepth # 0
  BY Levels
<1>2. MaxDepth - 1 \in 0..MaxDepth /\ (MaxDepth - 1) + 1 = MaxDepth /\ MaxDepth \in 0..MaxDepth
  BY <1>1, MaxDepthAssumption
<1>3. t \in Over(TermTo[MaxDepth - 1])
  BY <1>2, Levels
<1>4. TermTo[MaxDepth - 1] \subseteq Term
  BY <1>2, LevelsAreTerms
<1>5. Seq(TermTo[MaxDepth - 1]) \subseteq Seq(Term)
  BY <1>4
<1>6. t \in Over(Term)
  BY <1>3, <1>5 DEF Over
<1> QED
  BY <1>6 DEF Over

\* Induction over terms, with the set of those that have the property.
LEMMA TermInduction ==
  ASSUME NEW S,
         \A t \in Term : (\A i \in DOMAIN t.subs : t.subs[i] \in S) => t \in S
  PROVE  Term \subseteq S
<1> DEFINE N == {n \in 0..MaxDepth : TermTo[n] \subseteq S}
<1>1. 0 \in N
  BY Levels, MaxDepthAssumption
<1>2. ASSUME NEW n \in 0..MaxDepth, n \in N, n + 1 \in 0..MaxDepth
      PROVE  n + 1 \in N
  <2> SUFFICES ASSUME NEW t \in TermTo[n + 1] PROVE t \in S
    BY <1>2
  <2>1. t \in Over(TermTo[n]) /\ t \in Term
    BY <1>2, Levels, LevelsAreTerms
  <2>2. \A i \in DOMAIN t.subs : t.subs[i] \in TermTo[n]
    BY <2>1 DEF Over
  <2> QED BY <1>2, <2>1, <2>2
<1> HIDE DEF N
<1>3. MaxDepth \in N
  BY <1>1, <1>2, Induction, MaxDepthAssumption
<1> QED
  BY <1>3, Levels DEF N

--------------------------------------------------------------------------------
(* The equations of the recursive functions.  Each is shown to exist level by *)
(* level; "f" stands for the function in the recursive calls.                 *)

\* The structure of a term, given those of its subterms.
StructureBy(f, t) ==
  Bare(t.id, [i \in DOMAIN t.subs |-> f[t.subs[i]]])

LEMMA StructureByExists ==
  \E f : f = [t \in Term |-> StructureBy(f, t)]
<1> DEFINE Is(f, n) == f = [t \in TermTo[n] |-> StructureBy(f, t)]
           N == {n \in 0..MaxDepth : \E f : Is(f, n)}
<1>1. \A f, g : \A t \in Term :
        (\A i \in DOMAIN t.subs : f[t.subs[i]] = g[t.subs[i]])
          => StructureBy(f, t) = StructureBy(g, t)
  <2> SUFFICES ASSUME NEW f, NEW g, NEW t \in Term,
                      \A i \in DOMAIN t.subs : f[t.subs[i]] = g[t.subs[i]]
               PROVE  StructureBy(f, t) = StructureBy(g, t)
    OBVIOUS
  <2>1. [i \in DOMAIN t.subs |-> f[t.subs[i]]] = [i \in DOMAIN t.subs |-> g[t.subs[i]]]
    OBVIOUS
  <2> QED BY <2>1 DEF StructureBy
<1>2. 0 \in N
  <2> DEFINE f == [t \in {} |-> t]
  <2>1. f = [t \in TermTo[0] |-> StructureBy(f, t)]
    BY Levels
  <2> HIDE DEF f
  <2> QED BY <2>1, MaxDepthAssumption
<1>3. ASSUME NEW n \in 0..MaxDepth, n \in N, n + 1 \in 0..MaxDepth
      PROVE  n + 1 \in N
  <2>1. PICK f : Is(f, n)
    BY <1>3
  <2> DEFINE g == [t \in TermTo[n + 1] |-> StructureBy(f, t)]
  <2>2. \A t \in TermTo[n + 1] : \A i \in DOMAIN t.subs :
          t.subs[i] \in TermTo[n] /\ t.subs[i] \in TermTo[n + 1]
    BY <1>3, LevelParts
  <2>3. \A t \in TermTo[n] : f[t] = StructureBy(f, t)
    BY <2>1
  <2>4. \A t \in TermTo[n + 1] : \A i \in DOMAIN t.subs : f[t.subs[i]] = g[t.subs[i]]
    BY <2>2, <2>3
  <2>5. \A t \in TermTo[n + 1] : StructureBy(f, t) = StructureBy(g, t)
    <3> HIDE DEF g
    <3> QED BY <1>1, <1>3, <2>4, LevelsAreTerms
  <2>6. g = [t \in TermTo[n + 1] |-> StructureBy(g, t)]
    <3>1. \A h : (\A t \in TermTo[n + 1] : StructureBy(f, t) = StructureBy(h, t))
                   => g = [t \in TermTo[n + 1] |-> StructureBy(h, t)]
      OBVIOUS
    <3> HIDE DEF g
    <3> QED BY <2>5, <3>1
  <2> HIDE DEF g
  <2> QED BY <1>3, <2>6
<1> HIDE DEF N
<1>4. MaxDepth \in N
  BY <1>2, <1>3, Induction, MaxDepthAssumption
<1> QED
  BY <1>4, Levels DEF N

\* A structure is made of those of the subterms.
LEMMA Structures ==
  \A t \in Term : StructureOf[t] = StructureBy(StructureOf, t)
<1> DEFINE Is(f) == f = [t \in Term |-> StructureBy(f, t)]
<1>1. \E f : Is(f)
  BY StructureByExists
<1>2. StructureOf = CHOOSE f : Is(f)
  BY DEF StructureOf, StructureBy
<1>3. Is(StructureOf)
  <2> HIDE DEF Is
  <2> QED BY <1>1, <1>2
<1> QED
  BY <1>3

\* The subterms of a term, given those of its own.
SubtermsBy(f, t) ==
  {t} \cup UNION {f[t.subs[i]] : i \in DOMAIN t.subs}

LEMMA SubtermsByExists ==
  \E f : f = [t \in Term |-> SubtermsBy(f, t)]
<1> DEFINE Is(f, n) == f = [t \in TermTo[n] |-> SubtermsBy(f, t)]
           N == {n \in 0..MaxDepth : \E f : Is(f, n)}
<1>1. \A f, g : \A t \in Term :
        (\A i \in DOMAIN t.subs : f[t.subs[i]] = g[t.subs[i]])
          => SubtermsBy(f, t) = SubtermsBy(g, t)
  <2> SUFFICES ASSUME NEW f, NEW g, NEW t \in Term,
                      \A i \in DOMAIN t.subs : f[t.subs[i]] = g[t.subs[i]]
               PROVE  SubtermsBy(f, t) = SubtermsBy(g, t)
    OBVIOUS
  <2>1. {f[t.subs[i]] : i \in DOMAIN t.subs} = {g[t.subs[i]] : i \in DOMAIN t.subs}
    OBVIOUS
  <2> QED BY <2>1 DEF SubtermsBy
<1>2. 0 \in N
  <2> DEFINE f == [t \in {} |-> t]
  <2>1. f = [t \in TermTo[0] |-> SubtermsBy(f, t)]
    BY Levels
  <2> HIDE DEF f
  <2> QED BY <2>1, MaxDepthAssumption
<1>3. ASSUME NEW n \in 0..MaxDepth, n \in N, n + 1 \in 0..MaxDepth
      PROVE  n + 1 \in N
  <2>1. PICK f : Is(f, n)
    BY <1>3
  <2> DEFINE g == [t \in TermTo[n + 1] |-> SubtermsBy(f, t)]
  <2>2. \A t \in TermTo[n + 1] : \A i \in DOMAIN t.subs :
          t.subs[i] \in TermTo[n] /\ t.subs[i] \in TermTo[n + 1]
    BY <1>3, LevelParts
  <2>3. \A t \in TermTo[n] : f[t] = SubtermsBy(f, t)
    BY <2>1
  <2>4. \A t \in TermTo[n + 1] : \A i \in DOMAIN t.subs : f[t.subs[i]] = g[t.subs[i]]
    BY <2>2, <2>3
  <2>5. \A t \in TermTo[n + 1] : SubtermsBy(f, t) = SubtermsBy(g, t)
    <3> HIDE DEF g
    <3> QED BY <1>1, <1>3, <2>4, LevelsAreTerms
  <2>6. g = [t \in TermTo[n + 1] |-> SubtermsBy(g, t)]
    <3>1. \A h : (\A t \in TermTo[n + 1] : SubtermsBy(f, t) = SubtermsBy(h, t))
                   => g = [t \in TermTo[n + 1] |-> SubtermsBy(h, t)]
      OBVIOUS
    <3> HIDE DEF g
    <3> QED BY <2>5, <3>1
  <2> HIDE DEF g
  <2> QED BY <1>3, <2>6
<1> HIDE DEF N
<1>4. MaxDepth \in N
  BY <1>2, <1>3, Induction, MaxDepthAssumption
<1> QED
  BY <1>4, Levels DEF N

\* The subterms of a term are the term and the subterms of its own.
LEMMA SubtermsOfParts ==
  \A t \in Term : Subterms[t] = SubtermsBy(Subterms, t)
<1> DEFINE Is(f) == f = [t \in Term |-> SubtermsBy(f, t)]
<1>1. \E f : Is(f)
  BY SubtermsByExists
<1>2. Subterms = CHOOSE f : Is(f)
  BY DEF Subterms, SubtermsBy
<1>3. Is(Subterms)
  <2> HIDE DEF Is
  <2> QED BY <1>1, <1>2
<1> QED
  BY <1>3

\* There is a leftmost of the local subterms.
LEMMA LeftmostIsOne ==
  \A t \in Term : LocalSubterms(t) # {} => Leftmost(t) \in LocalSubterms(t)
<1> SUFFICES ASSUME NEW t \in Term, LocalSubterms(t) # {}
             PROVE  Leftmost(t) \in LocalSubterms(t)
  OBVIOUS
<1> DEFINE L == LocalSubterms(t)
<1>1. L \subseteq Nat
  <2>1. t.subs \in Seq(Term)
    BY TermParts DEF Over
  <2> QED BY <2>1 DEF LocalSubterms
<1>2. PICK i \in L : \A j \in L : ~ (<<j, i>> \in OpToRel(<, Nat))
  <2> HIDE DEF L
  <2>1. IsWellFoundedOn(OpToRel(<, Nat), Nat)
    BY NatLessThanWellFounded
  <2>2. L # {}
    BY DEF L
  <2> QED BY <1>1, <2>1, <2>2, WFMin
<1>3. \A j \in L : ~ (j < i)
  BY <1>1, <1>2 DEF OpToRel
<1>4. \A j \in L : i <= j
  <2> HIDE DEF L
  <2> QED BY <1>1, <1>3
<1> QED
  BY <1>4 DEF Leftmost, Min

\* The innermost term, given that of the leftmost local subterm.
InnermostBy(f, t) ==
  IF LocalSubterms(t) = {} THEN t ELSE f[t.subs[Leftmost(t)]]

LEMMA InnermostByExists ==
  \E f : f = [t \in Term |-> InnermostBy(f, t)]
<1> DEFINE Is(f, n) == f = [t \in TermTo[n] |-> InnermostBy(f, t)]
           N == {n \in 0..MaxDepth : \E f : Is(f, n)}
<1>1. \A f, g : \A t \in Term :
        (\A i \in DOMAIN t.subs : f[t.subs[i]] = g[t.subs[i]])
          => InnermostBy(f, t) = InnermostBy(g, t)
  BY LeftmostIsOne DEF InnermostBy, LocalSubterms
<1>2. 0 \in N
  <2> DEFINE f == [t \in {} |-> t]
  <2>1. f = [t \in TermTo[0] |-> InnermostBy(f, t)]
    BY Levels
  <2> HIDE DEF f
  <2> QED BY <2>1, MaxDepthAssumption
<1>3. ASSUME NEW n \in 0..MaxDepth, n \in N, n + 1 \in 0..MaxDepth
      PROVE  n + 1 \in N
  <2>1. PICK f : Is(f, n)
    BY <1>3
  <2> DEFINE g == [t \in TermTo[n + 1] |-> InnermostBy(f, t)]
  <2>2. \A t \in TermTo[n + 1] : \A i \in DOMAIN t.subs :
          t.subs[i] \in TermTo[n] /\ t.subs[i] \in TermTo[n + 1]
    BY <1>3, LevelParts
  <2>3. \A t \in TermTo[n] : f[t] = InnermostBy(f, t)
    BY <2>1
  <2>4. \A t \in TermTo[n + 1] : \A i \in DOMAIN t.subs : f[t.subs[i]] = g[t.subs[i]]
    BY <2>2, <2>3
  <2>5. \A t \in TermTo[n + 1] : InnermostBy(f, t) = InnermostBy(g, t)
    <3> HIDE DEF g
    <3> QED BY <1>1, <1>3, <2>4, LevelsAreTerms
  <2>6. g = [t \in TermTo[n + 1] |-> InnermostBy(g, t)]
    <3>1. \A h : (\A t \in TermTo[n + 1] : InnermostBy(f, t) = InnermostBy(h, t))
                   => g = [t \in TermTo[n + 1] |-> InnermostBy(h, t)]
      OBVIOUS
    <3> HIDE DEF g
    <3> QED BY <2>5, <3>1
  <2> HIDE DEF g
  <2> QED BY <1>3, <2>6
<1> HIDE DEF N
<1>4. MaxDepth \in N
  BY <1>2, <1>3, Induction, MaxDepthAssumption
<1> QED
  BY <1>4, Levels DEF N

\* The innermost term is that of the leftmost local subterm.
LEMMA Innermosts ==
  \A t \in Term : InnermostOf[t] = InnermostBy(InnermostOf, t)
<1> DEFINE Is(f) == f = [t \in Term |-> InnermostBy(f, t)]
<1>1. \E f : Is(f)
  BY InnermostByExists
<1>2. InnermostOf = CHOOSE f : Is(f)
  BY DEF InnermostOf, InnermostBy
<1>3. Is(InnermostOf)
  <2> HIDE DEF Is
  <2> QED BY <1>1, <1>2
<1> QED
  BY <1>3

\* A term with the innermost one replaced, given this of the leftmost local subterm.
PutBy(f, t, g) ==
  IF LocalSubterms(t) = {} THEN g
  ELSE [t EXCEPT !.subs[Leftmost(t)] = f[t.subs[Leftmost(t)]]]

LEMMA PutByExists ==
  ASSUME NEW g
  PROVE  \E f : f = [t \in Term |-> PutBy(f, t, g)]
<1> DEFINE Is(f, n) == f = [t \in TermTo[n] |-> PutBy(f, t, g)]
           N == {n \in 0..MaxDepth : \E f : Is(f, n)}
<1>1. \A f, h : \A t \in Term :
        (\A i \in DOMAIN t.subs : f[t.subs[i]] = h[t.subs[i]])
          => PutBy(f, t, g) = PutBy(h, t, g)
  <2> SUFFICES ASSUME NEW f, NEW h, NEW t \in Term,
                      \A i \in DOMAIN t.subs : f[t.subs[i]] = h[t.subs[i]]
               PROVE  PutBy(f, t, g) = PutBy(h, t, g)
    OBVIOUS
  <2>1. LocalSubterms(t) # {} => f[t.subs[Leftmost(t)]] = h[t.subs[Leftmost(t)]]
    BY LeftmostIsOne DEF LocalSubterms
  <2> QED BY <2>1 DEF PutBy
<1>2. 0 \in N
  <2> DEFINE f == [t \in {} |-> t]
  <2>1. f = [t \in TermTo[0] |-> PutBy(f, t, g)]
    BY Levels
  <2> HIDE DEF f
  <2> QED BY <2>1, MaxDepthAssumption
<1>3. ASSUME NEW n \in 0..MaxDepth, n \in N, n + 1 \in 0..MaxDepth
      PROVE  n + 1 \in N
  <2>1. PICK f : Is(f, n)
    BY <1>3
  <2> DEFINE k == [t \in TermTo[n + 1] |-> PutBy(f, t, g)]
  <2>2. \A t \in TermTo[n + 1] : \A i \in DOMAIN t.subs :
          t.subs[i] \in TermTo[n] /\ t.subs[i] \in TermTo[n + 1]
    BY <1>3, LevelParts
  <2>3. \A t \in TermTo[n] : f[t] = PutBy(f, t, g)
    BY <2>1
  <2>4. \A t \in TermTo[n + 1] : \A i \in DOMAIN t.subs : f[t.subs[i]] = k[t.subs[i]]
    BY <2>2, <2>3
  <2>5. \A t \in TermTo[n + 1] : PutBy(f, t, g) = PutBy(k, t, g)
    <3> HIDE DEF k
    <3> QED BY <1>1, <1>3, <2>4, LevelsAreTerms
  <2>6. k = [t \in TermTo[n + 1] |-> PutBy(k, t, g)]
    <3>1. \A h : (\A t \in TermTo[n + 1] : PutBy(f, t, g) = PutBy(h, t, g))
                   => k = [t \in TermTo[n + 1] |-> PutBy(h, t, g)]
      OBVIOUS
    <3> HIDE DEF k
    <3> QED BY <2>5, <3>1
  <2> HIDE DEF k
  <2> QED BY <1>3, <2>6
<1> HIDE DEF N
<1>4. MaxDepth \in N
  BY <1>2, <1>3, Induction, MaxDepthAssumption
<1> QED
  BY <1>4, Levels DEF N

\* The innermost term is replaced within the leftmost local subterm.
LEMMA Puts ==
  ASSUME NEW g
  PROVE  \A t \in Term :
           PutInnermost(t, g) =
             IF LocalSubterms(t) = {} THEN g
             ELSE [t EXCEPT !.subs[Leftmost(t)] = PutInnermost(t.subs[Leftmost(t)], g)]
<1> DEFINE Is(f) == f = [t \in Term |-> PutBy(f, t, g)]
           F == CHOOSE f : Is(f)
<1>1. \E f : Is(f)
  BY PutByExists
<1>2. \A t : PutInnermost(t, g) = F[t]
  BY DEF PutInnermost, PutBy
<1>3. Is(F)
  <2> HIDE DEF Is
  <2> QED BY <1>1
<1>4. \A t \in Term : F[t] = PutBy(F, t, g)
  <2> HIDE DEF F
  <2> QED BY <1>3
<1> HIDE DEF F
<1> QED
  BY <1>2, <1>4 DEF PutBy

\* Substitution in a term, given what it does to the subterms one level deeper.
SubstituteBy(f, t, d, args, boxes) ==
  IF ~IsGeneric(t) \/ t.id.kind = "FUNC_TYPE_VAR" THEN t
  ELSE IF t.id.kind = "CLASS_TYPE_VAR"
  THEN SubstituteClassTv(args[t.id.num + 1], boxes, d)
  ELSE LET subs == [i \in DOMAIN t.subs |-> f[<<t.subs[i], d + 1>>]]
       IN  Local(t.id, subs, FlagsAfter(t, subs))

SubstitutesIn(f, args, boxes) ==
  f = [at \in Term \X Nat |-> SubstituteBy(f, at[1], at[2], args, boxes)]

LEMMA SubstituteByExists ==
  ASSUME NEW args, NEW boxes
  PROVE  \E f : SubstitutesIn(f, args, boxes)
<1> DEFINE Is(f, n) ==
             f = [at \in TermTo[n] \X Nat |-> SubstituteBy(f, at[1], at[2], args, boxes)]
           N == {n \in 0..MaxDepth : \E f : Is(f, n)}
<1>1. \A f, g : \A t \in Term, d \in Nat :
        (\A i \in DOMAIN t.subs : f[<<t.subs[i], d + 1>>] = g[<<t.subs[i], d + 1>>])
          => SubstituteBy(f, t, d, args, boxes) = SubstituteBy(g, t, d, args, boxes)
  <2> SUFFICES ASSUME NEW f, NEW g, NEW t \in Term, NEW d \in Nat,
                      \A i \in DOMAIN t.subs :
                        f[<<t.subs[i], d + 1>>] = g[<<t.subs[i], d + 1>>]
               PROVE  SubstituteBy(f, t, d, args, boxes) = SubstituteBy(g, t, d, args, boxes)
    OBVIOUS
  <2>1. [i \in DOMAIN t.subs |-> f[<<t.subs[i], d + 1>>]]
          = [i \in DOMAIN t.subs |-> g[<<t.subs[i], d + 1>>]]
    OBVIOUS
  <2> QED BY <2>1 DEF SubstituteBy
<1>2. 0 \in N
  <2> DEFINE f == [at \in {} \X Nat |-> at]
  <2>1. TermTo[0] \X Nat = {} /\ {} \X Nat = {}
    BY Levels
  <2>2. f = [at \in TermTo[0] \X Nat |-> SubstituteBy(f, at[1], at[2], args, boxes)]
    BY <2>1
  <2> HIDE DEF f
  <2> QED BY <2>2, MaxDepthAssumption
<1>3. ASSUME NEW n \in 0..MaxDepth, n \in N, n + 1 \in 0..MaxDepth
      PROVE  n + 1 \in N
  <2>1. PICK f : Is(f, n)
    BY <1>3
  <2> DEFINE g == [at \in TermTo[n + 1] \X Nat |-> SubstituteBy(f, at[1], at[2], args, boxes)]
  <2>2. \A t \in TermTo[n + 1] : \A i \in DOMAIN t.subs :
          t.subs[i] \in TermTo[n] /\ t.subs[i] \in TermTo[n + 1]
    BY <1>3, LevelParts
  <2>3. \A t \in TermTo[n], d \in Nat : f[<<t, d>>] = SubstituteBy(f, t, d, args, boxes)
    BY <2>1
  <2>4. \A t \in TermTo[n + 1], d \in Nat : g[<<t, d>>] = SubstituteBy(f, t, d, args, boxes)
    OBVIOUS
  <2>5. \A t \in TermTo[n + 1], d \in Nat : \A i \in DOMAIN t.subs :
          f[<<t.subs[i], d + 1>>] = g[<<t.subs[i], d + 1>>]
    <3> HIDE DEF g
    <3>1. \A d \in Nat : d + 1 \in Nat
      OBVIOUS
    <3> QED BY <2>2, <2>3, <2>4, <3>1
  <2>6. \A at \in TermTo[n + 1] \X Nat :
          SubstituteBy(f, at[1], at[2], args, boxes) = SubstituteBy(g, at[1], at[2], args, boxes)
    <3> HIDE DEF g
    <3>1. \A at \in TermTo[n + 1] \X Nat : at[1] \in TermTo[n + 1] /\ at[2] \in Nat
      OBVIOUS
    <3> QED BY <1>1, <1>3, <2>5, <3>1, LevelsAreTerms
  <2>7. g = [at \in TermTo[n + 1] \X Nat |-> SubstituteBy(g, at[1], at[2], args, boxes)]
    <3>1. \A h : (\A at \in TermTo[n + 1] \X Nat :
                    SubstituteBy(f, at[1], at[2], args, boxes)
                      = SubstituteBy(h, at[1], at[2], args, boxes))
                   => g = [at \in TermTo[n + 1] \X Nat |->
                             SubstituteBy(h, at[1], at[2], args, boxes)]
      OBVIOUS
    <3> HIDE DEF g
    <3> QED BY <2>6, <3>1
  <2> HIDE DEF g
  <2> QED BY <1>3, <2>7
<1> HIDE DEF N
<1>4. MaxDepth \in N
  BY <1>2, <1>3, Induction, MaxDepthAssumption
<1> QED
  BY <1>4, Levels DEF N, SubstitutesIn

\* A term is substituted in by substituting in its subterms.
LEMMA Substitutions ==
  ASSUME NEW args, NEW boxes
  PROVE  \A t \in Term, d \in Nat :
           Substitution(args, boxes)[<<t, d>>]
             = SubstituteBy(Substitution(args, boxes), t, d, args, boxes)
<1> DEFINE F == CHOOSE f : SubstitutesIn(f, args, boxes)
<1>1. \E f : SubstitutesIn(f, args, boxes)
  BY SubstituteByExists
<1>2. Substitution(args, boxes) = F
  BY DEF Substitution, SubstituteBy, SubstitutesIn
<1>3. SubstitutesIn(F, args, boxes)
  BY <1>1
<1>4. \A t \in Term, d \in Nat : F[<<t, d>>] = SubstituteBy(F, t, d, args, boxes)
  <2> HIDE DEF F
  <2>1. \A t \in Term, d \in Nat : <<t, d>> \in Term \X Nat /\ <<t, d>>[1] = t /\ <<t, d>>[2] = d
    OBVIOUS
  <2> QED BY <1>3, <2>1 DEF SubstitutesIn
<1> HIDE DEF F
<1> QED
  BY <1>2, <1>4

--------------------------------------------------------------------------------
(* Resolution.  No type is part of itself, so the references can be resolved  *)
(* one after another, each when those it is made of are.                      *)

\* The term of a reference, given those of the references it is made of.
ResolveBy(f, ref) ==
  IF ref \in Primitives THEN Predefined(ref)
  ELSE ResolveEntry([part \in Parts(ref) |-> f[part]], ref)

ResolvesAll(f, R) == f = [ref \in R |-> ResolveBy(f, ref)]

LEMMA PartsAreRefs == \A ref \in Refs : Parts(ref) \subseteq Refs
<1> SUFFICES ASSUME NEW ref \in DOMAIN Pool PROVE Parts(ref) \subseteq Refs
  BY DEF Parts, Refs
<1> DEFINE e == Pool[ref]
           s == e.subs \o e.after
<1>1. e.subs \in Seq(Refs) /\ e.after \in Seq(Refs)
  BY PoolAssumption
<1>2. s \in Seq(Refs)
  BY <1>1
<1>3. {s[i] : i \in 1..Len(s)} \subseteq Refs
  <2> HIDE DEF s
  <2> QED BY <1>2
<1>4. e.name \in Names /\ Defs[e.name].enum = "OPTION" => Defs[e.name].enumType \in Refs
  BY DefsAssumption
<1>5. ref \notin Primitives
  BY PoolAssumption
<1> QED
  BY <1>3, <1>4, <1>5 DEF Parts

LEMMA ResolvesByOneMore ==
  ASSUME NEW R \in SUBSET Refs, NEW f, ResolvesAll(f, R),
         \A r \in R : Parts(r) \subseteq R,
         NEW ref \in Refs, ref \notin R, Parts(ref) \subseteq R
  PROVE  \E g : ResolvesAll(g, R \cup {ref})
<1> DEFINE g == [r \in R \cup {ref} |-> ResolveBy(f, r)]
<1>1. \A r \in R : f[r] = ResolveBy(f, r)
  BY DEF ResolvesAll
<1>2. \A r \in R : g[r] = f[r]
  BY <1>1
<1>3. \A r \in R \cup {ref} : Parts(r) \subseteq R
  OBVIOUS
<1>4. \A r \in R \cup {ref} : ResolveBy(f, r) = ResolveBy(g, r)
  <2> SUFFICES ASSUME NEW r \in R \cup {ref} PROVE ResolveBy(f, r) = ResolveBy(g, r)
    OBVIOUS
  <2> HIDE DEF g
  <2>1. [part \in Parts(r) |-> f[part]] = [part \in Parts(r) |-> g[part]]
    BY <1>2, <1>3
  <2> QED BY <2>1 DEF ResolveBy
<1>5. g = [r \in R \cup {ref} |-> ResolveBy(g, r)]
  <2>1. \A h : (\A r \in R \cup {ref} : ResolveBy(f, r) = ResolveBy(h, r))
                 => g = [r \in R \cup {ref} |-> ResolveBy(h, r)]
    OBVIOUS
  <2> HIDE DEF g
  <2> QED BY <1>4, <2>1
<1> HIDE DEF g
<1> QED
  BY <1>5 DEF ResolvesAll

LEMMA ResolveByExists == \E f : ResolvesAll(f, Refs)
<1> DEFINE Solved == {R \in SUBSET Refs : /\ \A r \in R : Parts(r) \subseteq R
                                          /\ \E f : ResolvesAll(f, R)}
           m == Cardinality(Refs)
           N == {n \in 0..m : \E R \in Solved : n <= Cardinality(R)}
<1>1. IsFiniteSet(Refs) /\ m \in Nat
  BY PartsAssumption, FS_CardinalityType
<1>2. 0 \in N
  <2> DEFINE f == [r \in {} |-> r]
  <2>1. ResolvesAll(f, {})
    BY DEF ResolvesAll
  <2>2. {} \in Solved
    <3> HIDE DEF f
    <3> QED BY <2>1
  <2>3. Cardinality({}) = 0
    BY FS_EmptySet
  <2> HIDE DEF Solved, m
  <2> QED BY <1>1, <2>2, <2>3
<1>3. ASSUME NEW n \in 0..m, n \in N, n + 1 \in 0..m
      PROVE  n + 1 \in N
  <2>1. PICK R \in Solved : n <= Cardinality(R)
    BY <1>3
  <2>2. R \in SUBSET Refs /\ IsFiniteSet(R) /\ Cardinality(R) \in Nat
    BY <1>1, <2>1, FS_Subset, FS_CardinalityType
  <2>3. CASE n + 1 <= Cardinality(R)
    <3> HIDE DEF Solved, m
    <3> QED BY <1>3, <2>1, <2>3
  <2>4. CASE Cardinality(R) = n
    <3>1. Refs \ R # {}
      <4> SUFFICES ASSUME R = Refs PROVE FALSE
        BY <2>2
      <4> QED BY <1>1, <1>3, <2>4
    <3>2. PICK ref \in Refs \ R : Parts(ref) \cap (Refs \ R) = {}
      BY <3>1, PartsAssumption
    <3>3. Parts(ref) \subseteq R
      BY <3>2, PartsAreRefs
    <3>4. PICK f : ResolvesAll(f, R)
      BY <2>1
    <3>5. \E g : ResolvesAll(g, R \cup {ref})
      <4>1. \A r \in R : Parts(r) \subseteq R
        BY <2>1
      <4> QED BY <2>2, <3>2, <3>3, <3>4, <4>1, ResolvesByOneMore
    <3>6. R \cup {ref} \in Solved
      BY <2>1, <3>2, <3>3, <3>5
    <3>7. Cardinality(R \cup {ref}) = n + 1
      BY <2>2, <2>4, <3>2, FS_AddElement
    <3> HIDE DEF Solved, m
    <3> QED BY <1>3, <3>6, <3>7
  <2> HIDE DEF Solved, m, N
  <2>5. n + 1 <= Cardinality(R) \/ Cardinality(R) = n
    BY <2>1, <2>2, <1>1
  <2> QED BY <2>3, <2>4, <2>5
<1>4. m \in N
  <2> HIDE DEF N, m
  <2> QED BY <1>1, <1>2, <1>3, Induction
<1>5. PICK R \in Solved : m <= Cardinality(R)
  <2> HIDE DEF Solved, m
  <2> QED BY <1>4
<1>6. R = Refs
  <2>1. R \in SUBSET Refs
    OBVIOUS
  <2>2. /\ IsFiniteSet(R) /\ Cardinality(R) <= m
        /\ m = Cardinality(R) => Refs = R
    BY <1>1, <2>1, FS_Subset
  <2>3. Cardinality(R) \in Nat
    BY <2>2, FS_CardinalityType
  <2> HIDE DEF m, Solved
  <2> QED BY <1>1, <1>5, <2>2, <2>3
<1> QED
  BY <1>6

\* A reference is resolved from what it is made of.
LEMMA Resolutions ==
  \A ref \in Refs : Resolve[ref] = ResolveBy(Resolve, ref)
<1>1. \E f : ResolvesAll(f, Refs)
  BY ResolveByExists
<1>2. Resolve = CHOOSE f : ResolvesAll(f, Refs)
  BY DEF Resolve, ResolvesAll, ResolveBy
<1>3. ResolvesAll(Resolve, Refs)
  BY <1>1, <1>2
<1> QED
  BY <1>3 DEF ResolvesAll

--------------------------------------------------------------------------------
(* What terms are made of.  A builtin term has no subterms and is known by    *)
(* its identifier; every other term is in the arena of a session, or one of   *)
(* the set S of interned ones.                                                *)

MadeKinds == {"TYPE", "AOT_TYPE", "UNDEFINED"} \cup EnumTags \cup PlainTags

IsBuiltin(t) ==
  \/ \E kind \in Primitives \cup {"I64"} : t = Predefined(kind)
  \/ \E kind \in VarTags, num \in Nat : t = TypeVariable(kind, num)

IsMade(t) == IsLocal(t) /\ t.id.kind \in MadeKinds

WellMade(t, S) ==
  /\ t \in Term
  /\ \A u \in Subterms[t] : IsBuiltin(u) \/ IsMade(u) \/ u \in S

LEMMA Builtins ==
  ASSUME NEW t, IsBuiltin(t)
  PROVE  /\ t.subs = <<>> /\ t.at = <<"builtin", 0>> /\ ~IsLocal(t)
         /\ t.id.kind \notin MadeKinds
         /\ IsGeneric(t) => t.id.kind \in VarTags
<1>1. ASSUME NEW kind \in Primitives \cup {"I64"}, t = Predefined(kind)
      PROVE  /\ t.subs = <<>> /\ t.at = <<"builtin", 0>> /\ ~IsLocal(t)
             /\ t.id.kind \notin MadeKinds
             /\ IsGeneric(t) => t.id.kind \in VarTags
  <2>1. t.subs = <<>> /\ t.at = <<"builtin", 0>> /\ t.id.kind = kind
    BY <1>1 DEF Predefined, Builtin, TagId, Id
  <2>2. ~IsLocal(t)
    BY <2>1 DEF IsLocal
  <2>3. kind \notin MadeKinds
    BY PrimitivesAssumption DEF MadeKinds, EnumTags, PlainTags
  <2>4. ~IsGeneric(t)
    BY <1>1 DEF Predefined, Builtin, IsGeneric
  <2> QED BY <2>1, <2>2, <2>3, <2>4
<1>2. ASSUME NEW kind \in VarTags, NEW num \in Nat, t = TypeVariable(kind, num)
      PROVE  /\ t.subs = <<>> /\ t.at = <<"builtin", 0>> /\ ~IsLocal(t)
             /\ t.id.kind \notin MadeKinds
             /\ IsGeneric(t) => t.id.kind \in VarTags
  <2>1. t.subs = <<>> /\ t.at = <<"builtin", 0>> /\ t.id.kind = kind
    BY <1>2 DEF TypeVariable, Builtin, Id
  <2>2. ~IsLocal(t)
    BY <2>1 DEF IsLocal
  <2>3. kind \notin MadeKinds
    BY DEF MadeKinds, EnumTags, PlainTags, VarTags
  <2> QED BY <2>1, <2>2, <2>3
<1> QED
  BY <1>1, <1>2 DEF IsBuiltin

\* A builtin term is known by its identifier.
LEMMA BuiltinsById ==
  ASSUME NEW s, NEW t, IsBuiltin(s), IsBuiltin(t), s.id = t.id
  PROVE  s = t
<1>1. \A k \in Primitives \cup {"I64"} : Predefined(k).id.kind = k
  BY DEF Predefined, Builtin, TagId, Id
<1>2. \A k \in VarTags, n \in Nat :
        TypeVariable(k, n).id.kind = k /\ TypeVariable(k, n).id.num = n
  BY DEF TypeVariable, Builtin, Id
<1>3. \A k \in Primitives \cup {"I64"} : k \notin VarTags
  BY PrimitivesAssumption DEF VarTags
<1>4. ASSUME NEW k \in Primitives \cup {"I64"}, s = Predefined(k)
      PROVE  s = t
  <2>1. s.id.kind = k
    BY <1>1, <1>4
  <2>2. \A l \in VarTags, m \in Nat : t # TypeVariable(l, m)
    BY <1>2, <1>3, <2>1
  <2>3. PICK l \in Primitives \cup {"I64"} : t = Predefined(l)
    BY <2>2 DEF IsBuiltin
  <2> QED BY <1>1, <1>4, <2>1, <2>3
<1>5. ASSUME NEW k \in VarTags, NEW n \in Nat, s = TypeVariable(k, n)
      PROVE  s = t
  <2>1. s.id.kind = k /\ s.id.num = n
    BY <1>2, <1>5
  <2>2. \A l \in Primitives \cup {"I64"} : t # Predefined(l)
    BY <1>1, <1>3, <2>1
  <2>3. PICK l \in VarTags, m \in Nat : t = TypeVariable(l, m)
    BY <2>2 DEF IsBuiltin
  <2> QED BY <1>2, <1>5, <2>1, <2>3
<1> QED
  BY <1>4, <1>5 DEF IsBuiltin

\* A term is well made when it is and its subterms are.
LEMMA WellMadeByParts ==
  ASSUME NEW S, NEW t \in Term
  PROVE  WellMade(t, S) <=>
           /\ IsBuiltin(t) \/ IsMade(t) \/ t \in S
           /\ \A i \in DOMAIN t.subs : WellMade(t.subs[i], S)
<1>1. Subterms[t] = {t} \cup UNION {Subterms[t.subs[i]] : i \in DOMAIN t.subs}
  BY SubtermsOfParts DEF SubtermsBy
<1>2. \A i \in DOMAIN t.subs : t.subs[i] \in Term
  BY TermParts
<1> QED
  BY <1>1, <1>2 DEF WellMade

LEMMA WellMadeWithMore ==
  ASSUME NEW S, NEW T, S \subseteq T, NEW t, WellMade(t, S)
  PROVE  WellMade(t, T)
BY DEF WellMade

--------------------------------------------------------------------------------
(* Resolution makes well made terms. *)

\* The bytes an entry is read from decode to what its term is made of.
LEMMA StreamsArePartial ==
  \A ref \in DOMAIN Pool :
    /\ Stream(Pool[ref]) \in Seq(Refs)
    /\ Len(Stream(Pool[ref])) = Len(Pool[ref].subs) + Len(Pool[ref].after)
    /\ Len(Pool[ref].subs) \in Nat /\ Len(Pool[ref].after) \in Nat
    /\ Len(Pool[ref].subs) <= Len(Stream(Pool[ref]))
    /\ \A i \in 1..Len(Stream(Pool[ref])) : Stream(Pool[ref])[i] \in Parts(ref)
    /\ \A i \in 1..Len(Pool[ref].subs) : Stream(Pool[ref])[i] \in Parts(ref)
<1> SUFFICES ASSUME NEW ref \in DOMAIN Pool
             PROVE  /\ Stream(Pool[ref]) \in Seq(Refs)
                    /\ Len(Stream(Pool[ref])) = Len(Pool[ref].subs) + Len(Pool[ref].after)
                    /\ Len(Pool[ref].subs) \in Nat /\ Len(Pool[ref].after) \in Nat
                    /\ Len(Pool[ref].subs) <= Len(Stream(Pool[ref]))
                    /\ \A i \in 1..Len(Stream(Pool[ref])) : Stream(Pool[ref])[i] \in Parts(ref)
                    /\ \A i \in 1..Len(Pool[ref].subs) : Stream(Pool[ref])[i] \in Parts(ref)
  OBVIOUS
<1>1. Pool[ref].subs \in Seq(Refs) /\ Pool[ref].after \in Seq(Refs) /\ ref \notin Primitives
  BY PoolAssumption
<1>2. /\ Stream(Pool[ref]) \in Seq(Refs)
      /\ Len(Stream(Pool[ref])) = Len(Pool[ref].subs) + Len(Pool[ref].after)
      /\ Len(Pool[ref].subs) \in Nat /\ Len(Pool[ref].after) \in Nat
  BY <1>1 DEF Stream
<1>3. \A i \in 1..Len(Stream(Pool[ref])) : Stream(Pool[ref])[i] \in Parts(ref)
  BY <1>1 DEF Stream, Parts
<1>4. \A a, b \in Nat : \A c : c = a + b => a <= c /\ \A i \in 1..a : i \in 1..c
  OBVIOUS
<1> DEFINE a == Len(Pool[ref].subs)
           b == Len(Pool[ref].after)
           c == Len(Stream(Pool[ref]))
<1>5. a \in Nat /\ b \in Nat /\ c = a + b
  BY <1>2
<1>6. a <= c /\ \A i \in 1..a : i \in 1..c
  <2> HIDE DEF a, b, c
  <2> QED BY <1>4, <1>5
<1> QED
  BY <1>2, <1>3, <1>6

\* The rest is what follows the last reference, or the first undefined one.
LEMMA RestOfRead ==
  ASSUME NEW of, NEW n \in Nat, NEW stream
  PROVE  \E k \in 0..n : ReadSubTerms(of, stream, n).rest
                           = SubSeq(stream, k + 1, Len(stream))
<1> DEFINE undefined == {i \in 1..n : IsUndefined(of[stream[i]])}
<1>1. CASE undefined = {}
  BY <1>1 DEF ReadSubTerms
<1>2. CASE undefined # {}
  <2>1. undefined \subseteq Nat
    OBVIOUS
  <2>2. PICK i \in undefined : \A j \in undefined : ~ (<<j, i>> \in OpToRel(<, Nat))
    <3>1. IsWellFoundedOn(OpToRel(<, Nat), Nat)
      BY NatLessThanWellFounded
    <3> HIDE DEF undefined
    <3> QED BY <1>2, <2>1, <3>1, WFMin
  <2>3. \A j \in undefined : i <= j
    <3>1. \A j \in undefined : ~ (j < i)
      BY <2>1, <2>2 DEF OpToRel
    <3> HIDE DEF undefined
    <3> QED BY <2>1, <3>1
  <2>4. Min(undefined) \in undefined
    BY <2>3 DEF Min
  <2>5. Min(undefined) \in 0..n
    BY <2>4
  <2>6. /\ ~ReadSubTerms(of, stream, n).ok
        /\ ReadSubTerms(of, stream, n).rest
             = SubSeq(stream, Min(undefined) + 1, Len(stream))
    BY <1>2 DEF ReadSubTerms
  <2> HIDE DEF undefined
  <2> QED BY <2>5, <2>6
<1> QED
  BY <1>1, <1>2

\* Made of the terms that "of" has of the parts of a reference.
MadeOf(t, of, ref) ==
  /\ IsMade(t)
  /\ \A i \in DOMAIN t.subs : \E part \in Parts(ref) : t.subs[i] = of[part]

LEMMA UndefinedIsMade ==
  ASSUME NEW of, NEW ref PROVE MadeOf(Undefined(ref), of, ref)
<1>1. IsMade(Undefined(ref))
  BY DEF Undefined, Local, Id, IsMade, IsLocal, MadeKinds
<1>2. Undefined(ref).subs = <<>>
  BY DEF Undefined, Local
<1> QED
  BY <1>1, <1>2 DEF MadeOf

\* The parts may be read from any stretch of the bytes.
LEMMA ReadIsMade ==
  ASSUME NEW of, NEW ref \in DOMAIN Pool, NEW n \in Nat, NEW stream \in Seq(Refs),
         n <= Len(stream), \A i \in 1..n : stream[i] \in Parts(ref),
         NEW id, id.kind \in MadeKinds, NEW flags
  PROVE  MadeOf(Read(ref, id, flags, ReadSubTerms(of, stream, n)), of, ref)
<1> DEFINE r == ReadSubTerms(of, stream, n)
<1>1. r.ok => r.subs = [i \in 1..n |-> of[stream[i]]]
  BY DEF ReadSubTerms
<1>2. CASE r.ok
  <2>1. Read(ref, id, flags, r) = Local(id, r.subs, flags)
    BY <1>2 DEF Read
  <2>2. DOMAIN r.subs = 1..n /\ \A i \in 1..n : r.subs[i] = of[stream[i]]
    <3> HIDE DEF r
    <3> QED BY <1>1, <1>2
  <2>3. IsMade(Local(id, r.subs, flags)) /\ Local(id, r.subs, flags).subs = r.subs
    BY DEF Local, IsMade, IsLocal
  <2>4. \A i \in DOMAIN r.subs : \E part \in Parts(ref) : r.subs[i] = of[part]
    <3> HIDE DEF r
    <3> QED BY <2>2
  <2> QED BY <2>1, <2>3, <2>4 DEF MadeOf
<1>3. CASE ~r.ok
  BY <1>3, UndefinedIsMade DEF Read
<1> QED
  BY <1>2, <1>3

LEMMA TypeDefIsMade ==
  ASSUME NEW of, NEW ref \in DOMAIN Pool, NEW reference, NEW flags
  PROVE  MadeOf(ResolveTypeDefTerm(of, ref, reference, flags).term, of, ref)
<1> DEFINE e == Pool[ref]
           r == ReadSubTerms(of, Stream(e), Len(e.subs))
           id == Id("TYPE", e.name, 0)
<1>1. \/ ResolveTypeDefTerm(of, ref, reference, flags).term = Undefined(ref)
      \/ ResolveTypeDefTerm(of, ref, reference, flags).term
           = Read(ref, id, Represented(reference) \cup flags, r)
  BY DEF ResolveTypeDefTerm
<1>2. id.kind \in MadeKinds
  BY DEF Id, MadeKinds
<1>3. \A f : MadeOf(Read(ref, id, f, r), of, ref)
  <2>1. Len(e.subs) <= Len(Stream(e)) /\ \A i \in 1..Len(e.subs) : Stream(e)[i] \in Parts(ref)
    BY StreamsArePartial
  <2> HIDE DEF id
  <2> QED BY <1>2, <2>1, StreamsArePartial, ReadIsMade
<1> QED
  BY <1>1, <1>3, UndefinedIsMade

\* Where the attempt at a definition leaves the bytes, there is enough to read.
LEMMA RestIsEnough ==
  ASSUME NEW of, NEW ref \in DOMAIN Pool, NEW reference, NEW flags,
         Pool[ref].tag \in AotTags
  PROVE  LET rest == ResolveTypeDefTerm(of, ref, reference, flags).rest
         IN  /\ rest \in Seq(Refs) /\ Len(Pool[ref].subs) <= Len(rest)
             /\ \A i \in 1..Len(Pool[ref].subs) : rest[i] \in Parts(ref)
<1> DEFINE e == Pool[ref]
           s == Stream(e)
           n == Len(e.subs)
           rest == ResolveTypeDefTerm(of, ref, reference, flags).rest
<1>1. /\ s \in Seq(Refs) /\ n \in Nat /\ Len(e.after) \in Nat /\ Len(s) = n + Len(e.after)
      /\ \A i \in 1..Len(s) : s[i] \in Parts(ref)
  BY StreamsArePartial
<1>2. CASE rest = s
  <2> HIDE DEF s, n
  <2>1. /\ rest \in Seq(Refs) /\ n <= Len(rest)
        /\ \A i \in 1..n : rest[i] \in Parts(ref)
    <3> HIDE DEF rest
    <3> QED BY <1>1, <1>2
  <2> QED BY <2>1 DEF n
<1>3. CASE rest # s
  <2>1. e.name \in Names /\ rest = ReadSubTerms(of, s, n).rest
    BY <1>3 DEF ResolveTypeDefTerm
  <2>2. Len(e.after) >= n
    BY <2>1, PoolAssumption
  <2>3. PICK k \in 0..n : rest = SubSeq(s, k + 1, Len(s))
    <3> HIDE DEF n, s, rest
    <3> QED BY <1>1, <2>1, RestOfRead
  <2>4. /\ rest \in Seq(Refs) /\ n <= Len(rest)
        /\ \A i \in 1..n : rest[i] \in Parts(ref)
    <3> HIDE DEF n, s, rest, e
    <3>1. k + 1 \in 1..Len(s) + 1 /\ Len(s) - k >= n /\ k \in Nat
      BY <1>1, <2>2
    <3>2. rest \in Seq(Refs) /\ Len(rest) = Len(s) - k
      BY <1>1, <2>3, <3>1
    <3>3. \A i \in 1..Len(s) - k : rest[i] = s[k + i] /\ k + i \in 1..Len(s)
      BY <1>1, <2>3, <3>1
    <3> QED BY <1>1, <3>1, <3>2, <3>3
  <2> QED BY <2>4
<1> QED
  BY <1>2, <1>3

LEMMA AotTypeIsMade ==
  ASSUME NEW of, NEW ref \in DOMAIN Pool, NEW reference, Pool[ref].tag \in AotTags
  PROVE  MadeOf(ResolveAotType(of, ref, reference), of, ref)
<1> DEFINE e == Pool[ref]
           def == ResolveTypeDefTerm(of, ref, reference, {"aot"})
           id == Id("AOT_TYPE", e.name, 0)
           r == ReadSubTerms(of, def.rest, Len(e.subs))
<1>1. \/ ResolveAotType(of, ref, reference) = def.term
      \/ ResolveAotType(of, ref, reference) = Read(ref, id, Represented(reference), r)
  BY DEF ResolveAotType
<1>2. MadeOf(def.term, of, ref)
  BY TypeDefIsMade
<1>3. MadeOf(Read(ref, id, Represented(reference), r), of, ref)
  <2>1. id.kind \in MadeKinds
    BY DEF Id, MadeKinds
  <2>2. \A rr, flags :
          LET rest == ResolveTypeDefTerm(of, ref, rr, flags).rest
          IN  /\ rest \in Seq(Refs) /\ Len(Pool[ref].subs) <= Len(rest)
              /\ \A i \in 1..Len(Pool[ref].subs) : rest[i] \in Parts(ref)
    BY RestIsEnough
  <2>3. /\ def.rest \in Seq(Refs) /\ Len(e.subs) <= Len(def.rest)
        /\ \A i \in 1..Len(e.subs) : def.rest[i] \in Parts(ref)
    BY <2>2
  <2>4. Len(e.subs) \in Nat
    BY StreamsArePartial
  <2> HIDE DEF def, id
  <2> QED BY <2>1, <2>3, <2>4, ReadIsMade
<1> QED
  BY <1>1, <1>2, <1>3

LEMMA EnumIsMade ==
  ASSUME NEW of, NEW ref \in DOMAIN Pool, Pool[ref].tag \in EnumTags
  PROVE  MadeOf(ResolveEnumTerm(of, ref), of, ref)
<1> DEFINE e == Pool[ref]
           r == ReadSubTerms(of, Stream(e), Len(e.subs))
           id == Id(e.tag, e.name, 0)
           flags == EnumFlags(of, e.tag, e.name, r.subs)
<1>1. \/ ResolveEnumTerm(of, ref) = Undefined(ref)
      \/ r.ok /\ ResolveEnumTerm(of, ref) = Local(id, r.subs, flags)
  BY DEF ResolveEnumTerm
<1>2. r.ok => Local(id, r.subs, flags) = Read(ref, id, flags, r)
  BY DEF Read
<1>3. MadeOf(Read(ref, id, flags, r), of, ref)
  <2>1. id.kind \in MadeKinds
    BY DEF Id, MadeKinds
  <2>2. Len(e.subs) <= Len(Stream(e)) /\ \A i \in 1..Len(e.subs) : Stream(e)[i] \in Parts(ref)
    BY StreamsArePartial
  <2> HIDE DEF id, flags
  <2> QED BY <2>1, <2>2, StreamsArePartial, ReadIsMade
<1> HIDE DEF r, id, flags
<1> QED
  BY <1>1, <1>2, <1>3, UndefinedIsMade

LEMMA EntryIsMade ==
  ASSUME NEW of, NEW ref \in DOMAIN Pool
  PROVE  IsBuiltin(ResolveEntry(of, ref)) \/ MadeOf(ResolveEntry(of, ref), of, ref)
<1> DEFINE e == Pool[ref]
<1>1. CASE e.tag \in DefTags
  <2>1. ResolveEntry(of, ref) = ResolveTypeDefTerm(of, ref, e.tag = "REF", {}).term
    BY <1>1 DEF ResolveEntry, DefTags, AotTags, EnumTags, VarTags, PlainTags
  <2> QED BY <2>1, TypeDefIsMade
<1>2. CASE e.tag \in AotTags
  <2>1. ResolveEntry(of, ref) = ResolveAotType(of, ref, e.tag = "AOT_REF")
    BY <1>2 DEF ResolveEntry, DefTags, AotTags, EnumTags, VarTags, PlainTags
  <2> QED BY <1>2, <2>1, AotTypeIsMade
<1>3. CASE e.tag \in EnumTags
  <2>1. ResolveEntry(of, ref) = ResolveEnumTerm(of, ref)
    BY <1>3 DEF ResolveEntry, DefTags, AotTags, EnumTags, VarTags, PlainTags
  <2> QED BY <1>3, <2>1, EnumIsMade
<1>4. CASE e.tag \in VarTags
  <2>1. ResolveEntry(of, ref) = TypeVariable(e.tag, e.num)
    BY <1>4 DEF ResolveEntry, DefTags, AotTags, EnumTags, VarTags, PlainTags
  <2> QED BY <1>4, <2>1, PoolAssumption DEF IsBuiltin
<1>5. CASE e.tag \in PlainTags
  <2> DEFINE id == Id(e.tag, NoName, e.num)
  <2>1. ResolveEntry(of, ref)
          = Read(ref, id, PlainFlags(e.tag), ReadSubTerms(of, Stream(e), Len(e.subs)))
    BY <1>5 DEF ResolveEntry, DefTags, AotTags, EnumTags, VarTags, PlainTags
  <2>2. id.kind \in MadeKinds
    BY <1>5 DEF Id, MadeKinds
  <2>3. Len(e.subs) <= Len(Stream(e)) /\ \A i \in 1..Len(e.subs) : Stream(e)[i] \in Parts(ref)
    BY StreamsArePartial
  <2> HIDE DEF id
  <2> QED BY <2>1, <2>2, <2>3, StreamsArePartial, ReadIsMade
<1> QED
  BY <1>1, <1>2, <1>3, <1>4, <1>5, PoolAssumption

\* A reference that resolves to a term resolves to one that is well made.
LEMMA ResolvedIsWellMade ==
  ASSUME NEW ref \in Refs, Resolve[ref] \in Term
  PROVE  WellMade(Resolve[ref], {})
<1> DEFINE Bad == {r \in Refs : Resolve[r] \in Term /\ ~WellMade(Resolve[r], {})}
<1> SUFFICES ASSUME Bad # {} PROVE FALSE
  OBVIOUS
<1>1. PICK r \in Bad : Parts(r) \cap Bad = {}
  <2> Bad \in SUBSET Refs
    OBVIOUS
  <2> HIDE DEF Bad
  <2> QED BY PartsAssumption
<1> DEFINE t == Resolve[r]
<1>2. r \in Refs /\ t \in Term /\ ~WellMade(t, {})
  OBVIOUS
<1>3. t = ResolveBy(Resolve, r)
  BY Resolutions
<1>4. ASSUME IsBuiltin(t) PROVE FALSE
  <2>1. DOMAIN t.subs = {}
    BY <1>4, Builtins
  <2> QED BY <1>2, <1>4, <2>1, WellMadeByParts
<1>5. CASE r \in Primitives
  <2>1. IsBuiltin(t)
    BY <1>3, <1>5 DEF ResolveBy, IsBuiltin
  <2> QED BY <1>4, <2>1
<1>6. CASE r \notin Primitives
  <2> DEFINE of == [part \in Parts(r) |-> Resolve[part]]
  <2>1. r \in DOMAIN Pool /\ t = ResolveEntry(of, r)
    BY <1>2, <1>3, <1>6 DEF ResolveBy, Refs
  <2>2. MadeOf(t, of, r)
    <3> HIDE DEF of, t
    <3> QED BY <1>4, <2>1, EntryIsMade
  <2>3. \A part \in Parts(r) : Resolve[part] \in Term => WellMade(Resolve[part], {})
    BY <1>1, PartsAreRefs
  <2>4. \A i \in DOMAIN t.subs : WellMade(t.subs[i], {})
    <3> SUFFICES ASSUME NEW i \in DOMAIN t.subs PROVE WellMade(t.subs[i], {})
      OBVIOUS
    <3>1. PICK part \in Parts(r) : t.subs[i] = of[part]
      BY <2>2 DEF MadeOf
    <3>2. t.subs[i] \in Term
      BY <1>2, TermParts
    <3> QED BY <2>3, <3>1, <3>2
  <2>5. IsMade(t)
    BY <2>2 DEF MadeOf
  <2> HIDE DEF t
  <2> QED BY <1>2, <2>4, <2>5, WellMadeByParts
<1> QED
  BY <1>5, <1>6

--------------------------------------------------------------------------------
(* Substitution makes well made terms of well made ones. *)

\* Interned terms are not of a builtin kind.
Interned(S) ==
  \A g \in S : g \in Term /\ g.id.kind \in MadeKinds /\ g.at[1] = "global"

\* The arguments are well made, and there is one for every variable.
Suits(t, args, S) ==
  \A u \in Subterms[t] :
    u.id.kind = "CLASS_TYPE_VAR" => WellMade(args[u.id.num + 1], S)

LEMMA SubstitutedIsWellMade ==
  ASSUME NEW S, Interned(S), NEW args, NEW boxes
  PROVE  \A t \in Term : WellMade(t, S) /\ Suits(t, args, S) =>
           \A d \in Nat : LET u == Substitution(args, boxes)[<<t, d>>]
                          IN  u \in Term => WellMade(u, S)
<1> DEFINE sub(t, d) == Substitution(args, boxes)[<<t, d>>]
           Good == {t \in Term : WellMade(t, S) /\ Suits(t, args, S) =>
                      \A d \in Nat : sub(t, d) \in Term => WellMade(sub(t, d), S)}
<1>1. ASSUME NEW t \in Term, \A i \in DOMAIN t.subs : t.subs[i] \in Good
      PROVE  t \in Good
  <2> SUFFICES ASSUME WellMade(t, S), Suits(t, args, S), NEW d \in Nat, sub(t, d) \in Term
               PROVE  WellMade(sub(t, d), S)
    OBVIOUS
  <2>1. sub(t, d) = SubstituteBy(Substitution(args, boxes), t, d, args, boxes)
    BY Substitutions
  <2>2. /\ IsBuiltin(t) \/ IsMade(t) \/ t \in S
        /\ \A i \in DOMAIN t.subs : WellMade(t.subs[i], S)
    BY WellMadeByParts
  <2>3. Subterms[t] = {t} \cup UNION {Subterms[t.subs[i]] : i \in DOMAIN t.subs}
    BY SubtermsOfParts DEF SubtermsBy
  <2>4. CASE sub(t, d) = t
    <3> HIDE DEF sub
    <3> QED BY <2>4
  <2>5. CASE t.id.kind = "CLASS_TYPE_VAR" /\ IsGeneric(t)
    <3> DEFINE a == args[t.id.num + 1]
    <3>1. WellMade(a, S)
      BY <2>3, <2>5 DEF Suits
    <3>2. sub(t, d) = a \/ sub(t, d) = Local(TagId("BOX"), <<a>>, {"ref"})
      BY <2>1, <2>5 DEF SubstituteBy, SubstituteClassTv
    <3>3. ASSUME sub(t, d) = Local(TagId("BOX"), <<a>>, {"ref"})
          PROVE  WellMade(sub(t, d), S)
      <4>1. sub(t, d).subs = <<a>> /\ IsMade(sub(t, d))
        <5> HIDE DEF sub, a
        <5>1. sub(t, d).subs = <<a>>
          BY <3>3 DEF Local
        <5>2. \A kind : TagId(kind).kind = kind
          BY DEF TagId, Id
        <5>3. sub(t, d).id = TagId("BOX") /\ sub(t, d).at = <<"local", 0>>
          BY <3>3 DEF Local
        <5> QED BY <5>1, <5>2, <5>3 DEF IsMade, IsLocal, MadeKinds, PlainTags
      <4> HIDE DEF sub, a
      <4>2. \A i \in DOMAIN sub(t, d).subs : sub(t, d).subs[i] = a
        BY <4>1
      <4> QED BY <3>1, <4>1, <4>2, WellMadeByParts
    <3> HIDE DEF sub, a
    <3> QED BY <3>1, <3>2, <3>3
  <2>6. CASE IsGeneric(t) /\ t.id.kind \notin VarTags
    <3> DEFINE subs == [i \in DOMAIN t.subs |-> sub(t.subs[i], d + 1)]
    <3>1. sub(t, d) = Local(t.id, subs, FlagsAfter(t, subs))
      BY <2>1, <2>6 DEF SubstituteBy, VarTags
    <3>2. sub(t, d).subs = subs /\ IsLocal(sub(t, d)) /\ sub(t, d).id = t.id
      <4> HIDE DEF sub, subs
      <4> QED BY <3>1 DEF Local, IsLocal
    <3>3. t.id.kind \in MadeKinds
      BY <2>2, <2>6, Builtins DEF IsMade, Interned
    <3>4. ASSUME NEW i \in DOMAIN t.subs
          PROVE  WellMade(sub(t.subs[i], d + 1), S)
      <4>1. Suits(t.subs[i], args, S)
        BY <2>3 DEF Suits
      <4>2. sub(t.subs[i], d + 1) \in Term
        <5>1. sub(t, d).subs[i] \in Term
          <6> HIDE DEF sub
          <6> QED BY <3>2, TermParts
        <5> HIDE DEF sub
        <5> QED BY <3>2, <5>1
      <4>3. t.subs[i] \in Good /\ d + 1 \in Nat /\ WellMade(t.subs[i], S)
        BY <1>1, <2>2
      <4> HIDE DEF sub
      <4> QED BY <4>1, <4>2, <4>3
    <3> HIDE DEF sub
    <3>5. \A i \in DOMAIN sub(t, d).subs : WellMade(sub(t, d).subs[i], S)
      BY <3>2, <3>4
    <3>6. IsMade(sub(t, d))
      BY <3>2, <3>3 DEF IsMade
    <3> QED BY <3>5, <3>6, WellMadeByParts
  <2>7. \/ ~IsGeneric(t) \/ t.id.kind = "FUNC_TYPE_VAR"
        \/ t.id.kind = "CLASS_TYPE_VAR" /\ IsGeneric(t)
        \/ IsGeneric(t) /\ t.id.kind \notin VarTags
    BY DEF VarTags
  <2>8. ~IsGeneric(t) \/ t.id.kind = "FUNC_TYPE_VAR" => sub(t, d) = t
    BY <2>1 DEF SubstituteBy
  <2> QED BY <2>4, <2>5, <2>6, <2>7, <2>8
<1> HIDE DEF Good
<1>2. Term \subseteq Good
  BY <1>1, TermInduction
<1> QED
  BY <1>2 DEF Good

--------------------------------------------------------------------------------
(* The term that a critical section looks up, and what replaces it. *)

\* What is not in an arena has nothing in one.
LEMMA NothingLocalInside ==
  ASSUME NEW S, Interned(S), \A g \in S : \A i \in DOMAIN g.subs : ~IsLocal(g.subs[i]),
         NEW t \in Term, WellMade(t, S), ~IsLocal(t)
  PROVE  LocalSubterms(t) = {}
<1>1. IsBuiltin(t) \/ t \in S
  BY WellMadeByParts DEF IsMade
<1>2. CASE IsBuiltin(t)
  <2>1. DOMAIN t.subs = {}
    BY <1>2, Builtins
  <2> QED BY <2>1 DEF LocalSubterms
<1>3. CASE t \in S
  BY <1>3 DEF LocalSubterms
<1> QED
  BY <1>1, <1>2, <1>3

\* It is a well made term without local subterms, local if the whole is.
LEMMA InnermostIsWellMade ==
  ASSUME NEW S
  PROVE  \A t \in Term : WellMade(t, S) =>
           /\ WellMade(Innermost(t), S)
           /\ LocalSubterms(Innermost(t)) = {}
           /\ IsLocal(t) => IsLocal(Innermost(t))
<1> DEFINE Good == {t \in Term : WellMade(t, S) =>
                      /\ WellMade(Innermost(t), S)
                      /\ LocalSubterms(Innermost(t)) = {}
                      /\ IsLocal(t) => IsLocal(Innermost(t))}
<1>1. ASSUME NEW t \in Term, \A i \in DOMAIN t.subs : t.subs[i] \in Good
      PROVE  t \in Good
  <2> SUFFICES ASSUME WellMade(t, S)
               PROVE  /\ WellMade(Innermost(t), S)
                      /\ LocalSubterms(Innermost(t)) = {}
                      /\ IsLocal(t) => IsLocal(Innermost(t))
    OBVIOUS
  <2>1. CASE LocalSubterms(t) = {}
    <3>1. Innermost(t) = t
      BY <2>1, Innermosts DEF Innermost, InnermostBy
    <3> QED BY <2>1, <3>1
  <2>2. CASE LocalSubterms(t) # {}
    <3> DEFINE s == t.subs[Leftmost(t)]
    <3>1. Leftmost(t) \in DOMAIN t.subs /\ IsLocal(s)
      BY <2>2, LeftmostIsOne DEF LocalSubterms
    <3>2. Innermost(t) = Innermost(s)
      BY <2>2, Innermosts DEF Innermost, InnermostBy
    <3>3. WellMade(s, S) /\ s \in Good
      BY <1>1, <3>1, WellMadeByParts
    <3> HIDE DEF s
    <3> QED BY <3>1, <3>2, <3>3
  <2> QED BY <2>1, <2>2
<1> HIDE DEF Good
<1>2. Term \subseteq Good
  BY <1>1, TermInduction
<1> QED
  BY <1>2 DEF Good

\* A term of the same subterms is of the same level.
LEMMA PutIsTerm ==
  ASSUME NEW g \in Term
  PROVE  \A t \in Term : g.subs = Innermost(t).subs => PutInnermost(t, g) \in Term
<1> DEFINE N == {n \in 0..MaxDepth :
                   \A t \in TermTo[n] :
                     g.subs = Innermost(t).subs => PutInnermost(t, g) \in TermTo[n]}
<1>1. 0 \in N
  BY Levels, MaxDepthAssumption
<1>2. ASSUME NEW n \in 0..MaxDepth, n \in N, n + 1 \in 0..MaxDepth
      PROVE  n + 1 \in N
  <2> SUFFICES ASSUME NEW t \in TermTo[n + 1], g.subs = Innermost(t).subs
               PROVE  PutInnermost(t, g) \in TermTo[n + 1]
    BY <1>2
  <2>1. t \in Over(TermTo[n]) /\ TermTo[n + 1] = Over(TermTo[n]) /\ t \in Term
    BY <1>2, Levels, LevelsAreTerms
  <2>2. g \in Over(Term)
    BY TermParts
  <2>3. CASE LocalSubterms(t) = {}
    <3>1. PutInnermost(t, g) = g
      BY <2>1, <2>3, Puts
    <3>2. g.subs = t.subs
      BY <2>1, <2>3, Innermosts DEF Innermost, InnermostBy
    <3>3. g \in Over(TermTo[n])
      BY <2>1, <2>2, <3>2 DEF Over
    <3> QED BY <2>1, <3>1, <3>3
  <2>4. CASE LocalSubterms(t) # {}
    <3> DEFINE k == Leftmost(t)
               s == PutInnermost(t.subs[k], g)
    <3>1. k \in DOMAIN t.subs
      BY <2>1, <2>4, LeftmostIsOne DEF LocalSubterms
    <3>2. Innermost(t) = Innermost(t.subs[k])
      BY <2>1, <2>4, Innermosts DEF Innermost, InnermostBy
    <3>3. t.subs[k] \in TermTo[n]
      BY <1>2, <3>1, LevelParts
    <3>4. s \in TermTo[n]
      BY <1>2, <3>2, <3>3
    <3>5. PutInnermost(t, g) = [t EXCEPT !.subs[k] = s]
      BY <2>1, <2>4, Puts
    <3>6. [t EXCEPT !.subs[k] = s] \in Over(TermTo[n])
      <4> DEFINE u == [t.subs EXCEPT ![k] = s]
      <4> HIDE DEF s, k
      <4>1. t.subs \in Seq(TermTo[n])
        BY <2>1 DEF Over
      <4>2. u \in Seq(TermTo[n])
        BY <3>1, <3>4, <4>1
      <4>3. [t EXCEPT !.subs[k] = s] = [t EXCEPT !.subs = u]
        BY <2>1 DEF Over
      <4> HIDE DEF u
      <4>4. [t EXCEPT !.subs = u] \in Over(TermTo[n])
        BY <2>1, <4>2 DEF Over
      <4> QED BY <4>3, <4>4
    <3> QED BY <2>1, <3>5, <3>6
  <2> QED BY <2>3, <2>4
<1> HIDE DEF N
<1>3. MaxDepth \in N
  BY <1>1, <1>2, Induction, MaxDepthAssumption
<1> QED
  BY <1>3, Levels DEF N

\* Replacing keeps a term well made, over the table with the new term.
LEMMA PutIsWellMade ==
  ASSUME NEW S, Interned(S), \A g \in S : \A i \in DOMAIN g.subs : ~IsLocal(g.subs[i]),
         NEW T, S \subseteq T, NEW g \in Term, WellMade(g, T)
  PROVE  \A t \in Term : WellMade(t, S) /\ g.subs = Innermost(t).subs =>
           WellMade(PutInnermost(t, g), T)
<1> DEFINE Good == {t \in Term : WellMade(t, S) /\ g.subs = Innermost(t).subs =>
                      WellMade(PutInnermost(t, g), T)}
<1>1. ASSUME NEW t \in Term, \A i \in DOMAIN t.subs : t.subs[i] \in Good
      PROVE  t \in Good
  <2> SUFFICES ASSUME WellMade(t, S), g.subs = Innermost(t).subs
               PROVE  WellMade(PutInnermost(t, g), T)
    OBVIOUS
  <2>1. CASE LocalSubterms(t) = {}
    <3>1. PutInnermost(t, g) = g
      BY <2>1, Puts
    <3> QED BY <3>1
  <2>2. CASE LocalSubterms(t) # {}
    <3> DEFINE k == Leftmost(t)
               s == PutInnermost(t.subs[k], g)
               p == PutInnermost(t, g)
    <3>1. k \in DOMAIN t.subs
      BY <2>2, LeftmostIsOne DEF LocalSubterms
    <3>2. Innermost(t) = Innermost(t.subs[k])
      BY <2>2, Innermosts DEF Innermost, InnermostBy
    <3>3. \A i \in DOMAIN t.subs : WellMade(t.subs[i], S) /\ WellMade(t.subs[i], T)
      BY WellMadeByParts, WellMadeWithMore
    <3>4. WellMade(s, T)
      BY <1>1, <3>1, <3>2, <3>3
    <3>5. p = [t EXCEPT !.subs[k] = s]
      BY <2>2, Puts
    <3>6. p \in Term
      BY PutIsTerm
    <3>7. t \in Over(Term)
      BY TermParts
    <3>8. /\ p.id = t.id /\ p.at = t.at
          /\ DOMAIN p.subs = DOMAIN t.subs
          /\ \A i \in DOMAIN t.subs : p.subs[i] = IF i = k THEN s ELSE t.subs[i]
      <4> HIDE DEF p, s, k
      <4> QED BY <3>1, <3>5, <3>7 DEF Over
    <3>9. IsMade(p)
      <4>1. IsLocal(t)
        BY <2>2, NothingLocalInside
      <4>2. IsMade(t)
        BY <4>1, WellMadeByParts, Builtins DEF Interned, IsLocal, IsMade
      <4> HIDE DEF p
      <4> QED BY <3>8, <4>2 DEF IsMade, IsLocal
    <3>10. ASSUME NEW i \in DOMAIN p.subs PROVE WellMade(p.subs[i], T)
      <4> HIDE DEF p, s, k
      <4>1. i \in DOMAIN t.subs /\ (p.subs[i] = s \/ p.subs[i] = t.subs[i])
        BY <3>8
      <4> QED BY <3>3, <3>4, <4>1
    <3>11. WellMade(p, T)
      <4> HIDE DEF p
      <4> QED BY <3>6, <3>9, <3>10, WellMadeByParts
    <3> QED BY <3>11
  <2> QED BY <2>1, <2>2
<1> HIDE DEF Good
<1>2. Term \subseteq Good
  BY <1>1, TermInduction
<1> QED
  BY <1>2 DEF Good

--------------------------------------------------------------------------------
(* The inductive invariant *)

\* The table: its terms are made of builtin terms and of its own, and no two
\* have the same identifier and the same subterms.
Table(S) ==
  /\ IsFiniteSet(S)
  /\ Interned(S)
  /\ \A g \in S : \A i \in DOMAIN g.subs : IsBuiltin(g.subs[i]) \/ g.subs[i] \in S
  /\ \A g, h \in S : g.id = h.id /\ g.subs = h.subs => g = h

HeldOver(e, S) == e = Entry(e.term, e.is) /\ WellMade(e.term, S)
WalkedOver(e, S) == HeldOver(e, S) /\ IsLocal(e.term)

Inductive ==
  /\ Table(interned)
  /\ DOMAIN held = Threads /\ DOMAIN walk = Threads
  /\ \A th \in Threads : \A e \in held[th] : HeldOver(e, interned)
  /\ \A th \in Threads : walk[th] # None => WalkedOver(walk[th], interned)

LEMMA GlobalIsNotLocal ==
  ASSUME NEW g, g.at[1] = "global" PROVE ~IsLocal(g) /\ ~IsBuiltin(g)
<1>1. ~IsLocal(g)
  BY DEF IsLocal
<1>2. ASSUME IsBuiltin(g) PROVE FALSE
  <2>1. g.at = <<"builtin", 0>>
    BY <1>2, Builtins
  <2> QED BY <2>1
<1> QED
  BY <1>1, <1>2

LEMMA TableHasNothingLocal ==
  ASSUME NEW S, Table(S)
  PROVE  \A g \in S : ~IsLocal(g) /\ \A i \in DOMAIN g.subs : ~IsLocal(g.subs[i])
<1>1. \A g \in S : ~IsLocal(g)
  BY GlobalIsNotLocal DEF Table, Interned
<1>2. \A t : IsBuiltin(t) => ~IsLocal(t)
  BY Builtins
<1> QED
  BY <1>1, <1>2 DEF Table

LEMMA SubtermsAreTerms ==
  \A t \in Term : t \in Subterms[t] /\ Subterms[t] \subseteq Term
<1> DEFINE Good == {t \in Term : Subterms[t] \subseteq Term}
<1>1. ASSUME NEW t \in Term, \A i \in DOMAIN t.subs : t.subs[i] \in Good
      PROVE  t \in Good
  BY <1>1, SubtermsOfParts DEF SubtermsBy
<1>2. \A t \in Term : t \in Subterms[t]
  BY SubtermsOfParts DEF SubtermsBy
<1> HIDE DEF Good
<1>3. Term \subseteq Good
  BY <1>1, TermInduction
<1> QED
  BY <1>2, <1>3 DEF Good

\* Everything inside an interned term is builtin or interned.
LEMMA InternedAllTheWay ==
  ASSUME NEW S, Table(S)
  PROVE  \A g \in S : \A u \in Subterms[g] : IsBuiltin(u) \/ u \in S
<1> DEFINE Good == {t \in Term : IsBuiltin(t) \/ t \in S =>
                      \A u \in Subterms[t] : IsBuiltin(u) \/ u \in S}
<1>1. ASSUME NEW t \in Term, \A i \in DOMAIN t.subs : t.subs[i] \in Good
      PROVE  t \in Good
  <2> SUFFICES ASSUME IsBuiltin(t) \/ t \in S, NEW u \in Subterms[t]
               PROVE  IsBuiltin(u) \/ u \in S
    OBVIOUS
  <2>1. Subterms[t] = {t} \cup UNION {Subterms[t.subs[i]] : i \in DOMAIN t.subs}
    BY SubtermsOfParts DEF SubtermsBy
  <2>2. IsBuiltin(t) => DOMAIN t.subs = {}
    <3>1. IsBuiltin(t) => t.subs = <<>>
      BY Builtins
    <3> QED BY <3>1
  <2>3. \A i \in DOMAIN t.subs : IsBuiltin(t.subs[i]) \/ t.subs[i] \in S
    BY <2>2 DEF Table
  <2> QED BY <1>1, <2>1, <2>3
<1> HIDE DEF Good
<1>2. Term \subseteq Good
  BY <1>1, TermInduction
<1> QED
  BY <1>2 DEF Good, Table, Interned

LEMMA InternedIsWellMade ==
  ASSUME NEW S, Table(S)
  PROVE  \A g \in S : WellMade(g, S)
BY InternedAllTheWay DEF WellMade, Table, Interned

\* Equal structures in the table are one term.
LEMMA OneByStructure ==
  ASSUME NEW S, Table(S)
  PROVE  \A g, h \in S : StructureOf[g] = StructureOf[h] => g = h
<1> DEFINE In(t) == IsBuiltin(t) \/ t \in S
           Good == {t \in Term : \A h \in Term :
                      In(t) /\ In(h) /\ StructureOf[t] = StructureOf[h] => t = h}
<1>1. ASSUME NEW t \in Term, \A i \in DOMAIN t.subs : t.subs[i] \in Good
      PROVE  t \in Good
  <2> SUFFICES ASSUME NEW h \in Term, In(t), In(h), StructureOf[t] = StructureOf[h]
               PROVE  t = h
    OBVIOUS
  <2>1. /\ t.id = h.id /\ DOMAIN t.subs = DOMAIN h.subs
        /\ \A i \in DOMAIN t.subs : StructureOf[t.subs[i]] = StructureOf[h.subs[i]]
    <3> DEFINE ts == [i \in DOMAIN t.subs |-> StructureOf[t.subs[i]]]
               hs == [i \in DOMAIN h.subs |-> StructureOf[h.subs[i]]]
    <3>1. Bare(t.id, ts) = Bare(h.id, hs)
      BY Structures DEF StructureBy
    <3>2. t.id = h.id /\ ts = hs
      <4> HIDE DEF ts, hs
      <4> QED BY <3>1 DEF Bare
    <3>3. DOMAIN ts = DOMAIN t.subs /\ DOMAIN hs = DOMAIN h.subs
      OBVIOUS
    <3>4. \A i \in DOMAIN t.subs : ts[i] = StructureOf[t.subs[i]]
      OBVIOUS
    <3>5. \A i \in DOMAIN h.subs : hs[i] = StructureOf[h.subs[i]]
      OBVIOUS
    <3> HIDE DEF ts, hs
    <3> QED BY <3>2, <3>3, <3>4, <3>5
  <2>2. \A u : IsBuiltin(u) => u.id.kind \notin MadeKinds
    BY Builtins
  <2>3. \A u \in S : u.id.kind \in MadeKinds
    BY DEF Table, Interned
  <2>4. CASE IsBuiltin(t)
    <3>1. IsBuiltin(h)
      BY <2>1, <2>2, <2>3, <2>4
    <3> QED BY <2>1, <2>4, <3>1, BuiltinsById
  <2>5. CASE t \in S
    <3>1. h \in S
      BY <2>1, <2>2, <2>3, <2>5
    <3>2. ASSUME NEW i \in DOMAIN t.subs PROVE t.subs[i] = h.subs[i]
      <4>1. In(t.subs[i]) /\ In(h.subs[i])
        BY <2>1, <2>5, <3>1 DEF Table
      <4>2. h.subs[i] \in Term
        BY <2>1, TermParts
      <4> HIDE DEF In
      <4> QED BY <1>1, <2>1, <4>1, <4>2
    <3>3. t.subs \in Seq(Term) /\ h.subs \in Seq(Term)
      BY TermParts DEF Over
    <3>4. t.subs = h.subs
      BY <2>1, <3>2, <3>3
    <3> QED BY <2>1, <2>5, <3>1, <3>4 DEF Table
  <2> QED BY <2>4, <2>5
<1> HIDE DEF Good
<1>2. Term \subseteq Good
  BY <1>1, TermInduction
<1> QED
  BY <1>2 DEF Good, Table, Interned

LEMMA InductiveInit == Init => Inductive
<1> SUFFICES ASSUME Init PROVE Inductive
  OBVIOUS
<1>1. IsFiniteSet({})
  BY FS_EmptySet
<1> QED
  BY <1>1 DEF Init, Inductive, Table, Interned

--------------------------------------------------------------------------------
(* The steps *)

LEMMA ResolvedIsHeld ==
  ASSUME NEW R, R \subseteq Asked \cup Members \cup Signatures, NEW e \in Resolved(R), NEW S
  PROVE  HeldOver(e, S)
<1>1. PICK ref \in R : e = Entry(Resolve[ref], Denoted[ref])
  BY DEF Resolved
<1>2. ref \in Refs /\ Resolve[ref] \in Term
  BY BoundsAssumption
<1>3. WellMade(Resolve[ref], S)
  <2>1. WellMade(Resolve[ref], {})
    BY <1>2, ResolvedIsWellMade
  <2> QED BY <2>1, WellMadeWithMore
<1> QED
  BY <1>1, <1>3 DEF HeldOver, Entry

\* A session gets a well made term.
LEMMA HoldKeeps ==
  ASSUME Inductive, NEW th \in Threads, NEW t, NEW s,
         Hold(th, Entry(t, s)), t \in Term => WellMade(t, interned),
         UNCHANGED <<walk, interned>>
  PROVE  Inductive'
<1> DEFINE e == Entry(t, s)
<1>1. e.term \in Term /\ held' = [held EXCEPT ![th] = @ \cup {e}]
  BY DEF Hold
<1>2. e.term = t /\ e = Entry(e.term, e.is)
  BY DEF Entry
<1>3. HeldOver(e, interned)
  <2> HIDE DEF e
  <2> QED BY <1>1, <1>2 DEF HeldOver
<1> HIDE DEF e
<1>4. /\ DOMAIN held' = Threads
      /\ \A o \in Threads : \A f \in held'[o] : f \in held[o] \/ f = e
  BY <1>1 DEF Inductive
<1> QED
  BY <1>3, <1>4 DEF Inductive

LEMMA SubstitutedKeeps ==
  ASSUME Inductive, NEW th \in Threads, NEW o \in held[th], NEW e, HeldOver(e, interned),
         Substitutable(e, o), NEW boxes, NEW s,
         Hold(th, Entry(Substitute(e.term, o.term.subs, boxes), s)),
         UNCHANGED <<walk, interned>>
  PROVE  Inductive'
<1> DEFINE args == o.term.subs
           u == Substitute(e.term, args, boxes)
<1>1. WellMade(e.term, interned) /\ WellMade(o.term, interned)
  BY DEF Inductive, HeldOver
<1>2. e.term \in Term /\ o.term \in Term
  BY <1>1 DEF WellMade
<1>3. args \in Seq(Term)
  BY <1>2, TermParts DEF Over
<1>4. Suits(e.term, args, interned)
  <2> SUFFICES ASSUME NEW t \in Subterms[e.term], t.id.kind = "CLASS_TYPE_VAR"
               PROVE  WellMade(args[t.id.num + 1], interned)
    BY DEF Suits
  <2>1. t.id.num < Len(args)
    BY DEF Substitutable
  <2>2. t \in Over(Term)
    BY <1>2, SubtermsAreTerms, TermParts
  <2>3. t.id.num \in Nat
    BY <2>2 DEF Over, Ids
  <2>4. t.id.num + 1 \in DOMAIN args
    <3> HIDE DEF args
    <3> QED BY <1>3, <2>1, <2>3
  <2> QED BY <1>1, <1>2, <2>4, WellMadeByParts
<1>5. u \in Term => WellMade(u, interned)
  <2>1. Interned(interned)
    BY DEF Inductive, Table
  <2>2. u = Substitution(args, boxes)[<<e.term, 0>>]
    BY DEF Substitute
  <2>3. \A d \in Nat : Substitution(args, boxes)[<<e.term, d>>] \in Term
                         => WellMade(Substitution(args, boxes)[<<e.term, d>>], interned)
    <3> HIDE DEF args
    <3> QED BY <1>1, <1>2, <1>4, <2>1, SubstitutedIsWellMade
  <2> HIDE DEF u, args
  <2> QED BY <2>2, <2>3
<1> QED
  BY <1>5, HoldKeeps

LEMMA PresentKeeps ==
  ASSUME Inductive, NEW th \in Threads, NEW p \in Presented, NEW subs \in Arguments,
         Present(th, p, subs)
  PROVE  Inductive'
<1> DEFINE id == Id(KindOf([tag |-> p.kind, name |-> p.name]), p.name, p.num)
           t == Local(id, subs, PresentedFlags(p, subs))
           e == Entry(t, Structure(t))
<1>1. /\ t \in Term
      /\ walk' = [walk EXCEPT ![th] = e]
      /\ UNCHANGED <<held, interned>>
  BY DEF Present
<1>2. id.kind \in MadeKinds
  <2>1. p.kind \in AotTags \cup EnumTags \cup PlainTags
    BY BoundsAssumption
  <2>2. id.kind = KindOf([tag |-> p.kind, name |-> p.name])
    BY DEF Id
  <2>3. \/ id.kind = "TYPE" \/ id.kind = "AOT_TYPE"
        \/ p.kind \notin AotTags /\ id.kind = p.kind
    BY <2>2 DEF KindOf
  <2> HIDE DEF id
  <2> QED BY <2>1, <2>3 DEF MadeKinds
<1>3. t.subs = subs /\ IsLocal(t) /\ t.id = id
  BY DEF Local, IsLocal
<1>4. IsMade(t)
  <2> HIDE DEF t, id
  <2> QED BY <1>2, <1>3 DEF IsMade
<1>5. ASSUME NEW i \in DOMAIN t.subs PROVE WellMade(t.subs[i], interned)
  <2>1. PICK n \in 0..2 : subs \in [1..n -> Closed]
    BY DEF Arguments
  <2>2. t.subs[i] \in Closed
    <3> HIDE DEF t
    <3> QED BY <1>3, <1>5, <2>1
  <2>3. t.subs[i] \in Term
    <3> HIDE DEF t
    <3> QED BY <1>1, <1>5, TermParts
  <2>4. CASE t.subs[i] \in interned
    <3> HIDE DEF t
    <3> QED BY <2>4, InternedIsWellMade DEF Inductive
  <2>5. CASE t.subs[i] = Predefined("I64")
    <3> HIDE DEF t
    <3>1. IsBuiltin(t.subs[i])
      BY <2>5 DEF IsBuiltin
    <3>2. DOMAIN t.subs[i].subs = {}
      <4>1. t.subs[i].subs = <<>>
        BY <3>1, Builtins
      <4> QED BY <4>1
    <3> QED BY <2>3, <3>1, <3>2, WellMadeByParts
  <2> QED BY <2>2, <2>4, <2>5 DEF Closed
<1>6. WellMade(t, interned)
  <2> HIDE DEF t
  <2> QED BY <1>1, <1>4, <1>5, WellMadeByParts
<1>7. WalkedOver(e, interned)
  <2>1. e.term = t /\ e = Entry(e.term, e.is)
    BY DEF Entry
  <2> HIDE DEF t, e
  <2> QED BY <1>3, <1>6, <2>1 DEF WalkedOver, HeldOver
<1> HIDE DEF e
<1>8. /\ DOMAIN walk' = Threads
      /\ \A o \in Threads : walk'[o] = e \/ walk'[o] = walk[o]
  BY <1>1 DEF Inductive
<1>9. \A o \in Threads : walk'[o] # None => WalkedOver(walk'[o], interned)
  BY <1>7, <1>8 DEF Inductive
<1> QED
  BY <1>1, <1>8, <1>9 DEF Inductive

LEMMA GlobalizeKeeps ==
  ASSUME Inductive, NEW th \in Threads, NEW e \in held[th], Globalize(th, e)
  PROVE  Inductive'
<1>1. /\ walk' = [walk EXCEPT ![th] = e]
      /\ held' = [held EXCEPT ![th] = @ \ {e}]
      /\ interned' = interned /\ IsLocal(e.term)
  BY DEF Globalize
<1>2. WalkedOver(e, interned)
  BY <1>1 DEF Inductive, WalkedOver
<1>3. /\ DOMAIN walk' = Threads /\ DOMAIN held' = Threads
      /\ \A o \in Threads : held'[o] \subseteq held[o]
      /\ \A o \in Threads : walk'[o] = e \/ walk'[o] = walk[o]
  BY <1>1 DEF Inductive
<1>4. \A o \in Threads : walk'[o] # None => WalkedOver(walk'[o], interned)
  BY <1>2, <1>3 DEF Inductive
<1> QED
  BY <1>1, <1>3, <1>4 DEF Inductive

\* What a critical section puts in place of t, given the table S.
LEMMA InternedTerm ==
  ASSUME NEW S, Table(S), NEW t \in Term, WellMade(t, S), IsLocal(t),
         LocalSubterms(t) = {}, NEW g,
         \/ g \in S /\ g.id = t.id /\ g.subs = t.subs
         \/ /\ \A h \in S : ~ (h.id = t.id /\ h.subs = t.subs)
            /\ \E n \in Nat : g = [t EXCEPT !.at = <<"global", n>>]
  PROVE  /\ g \in Term /\ g.id = t.id /\ g.subs = t.subs
         /\ Table(S \cup {g}) /\ WellMade(g, S \cup {g})
<1>1. CASE g \in S /\ g.id = t.id /\ g.subs = t.subs
  <2>1. S \cup {g} = S
    BY <1>1
  <2> QED BY <1>1, <2>1, InternedIsWellMade DEF Table, Interned
<1>2. CASE /\ \A h \in S : ~ (h.id = t.id /\ h.subs = t.subs)
           /\ \E n \in Nat : g = [t EXCEPT !.at = <<"global", n>>]
  <2>1. PICK n \in Nat : g = [t EXCEPT !.at = <<"global", n>>]
    BY <1>2
  <2>2. t \in Over(Term)
    BY TermParts
  <2>3. /\ g.id = t.id /\ g.subs = t.subs /\ g.flags = t.flags
        /\ g.at = <<"global", n>>
    BY <2>1, <2>2 DEF Over
  <2>4. g \in Term
    <3>1. MaxDepth # 0
      BY Levels
    <3>2. MaxDepth - 1 \in 0..MaxDepth /\ (MaxDepth - 1) + 1 = MaxDepth /\ MaxDepth \in 0..MaxDepth
      BY <3>1, MaxDepthAssumption
    <3>3. Term = Over(TermTo[MaxDepth - 1])
      BY <3>2, Levels
    <3>4. t \in Over(TermTo[MaxDepth - 1])
      BY <3>3
    <3>5. <<"global", n>> \in Places
      BY DEF Places
    <3>6. g \in Over(TermTo[MaxDepth - 1])
      BY <2>1, <3>4, <3>5 DEF Over
    <3> QED BY <3>3, <3>6
  <2>5. IsMade(t)
    BY WellMadeByParts, TableHasNothingLocal, Builtins
  <2>6. g.at[1] = "global"
    BY <2>3
  <2>7. ASSUME NEW i \in DOMAIN g.subs
        PROVE  IsBuiltin(g.subs[i]) \/ g.subs[i] \in S
    <3>1. i \in DOMAIN t.subs /\ g.subs[i] = t.subs[i]
      BY <2>3
    <3>2. ~IsLocal(t.subs[i])
      BY <3>1 DEF LocalSubterms
    <3>3. t.subs[i] \in Term /\ WellMade(t.subs[i], S)
      BY <3>1, TermParts, WellMadeByParts
    <3> QED BY <3>1, <3>2, <3>3, WellMadeByParts DEF IsMade
  <2>8. Table(S \cup {g})
    <3>1. IsFiniteSet(S \cup {g})
      BY FS_AddElement DEF Table
    <3>2. Interned(S \cup {g})
      BY <2>3, <2>4, <2>5, <2>6 DEF Table, Interned, IsMade
    <3>3. \A h \in S \cup {g} : \A i \in DOMAIN h.subs :
            IsBuiltin(h.subs[i]) \/ h.subs[i] \in S \cup {g}
      BY <2>7 DEF Table
    <3>4. \A h, k \in S \cup {g} : h.id = k.id /\ h.subs = k.subs => h = k
      BY <1>2, <2>3 DEF Table
    <3> QED BY <3>1, <3>2, <3>3, <3>4 DEF Table
  <2>9. WellMade(g, S \cup {g})
    BY <2>8, InternedIsWellMade
  <2> QED BY <2>3, <2>4, <2>8, <2>9
<1> QED
  BY <1>1, <1>2

LEMMA InternKeeps ==
  ASSUME Inductive, NEW th \in Threads, Intern(th)
  PROVE  Inductive'
<1> DEFINE w == walk[th]
           t == Innermost(w.term)
           g == IF Cached(t) # {} THEN CHOOSE c \in Cached(t) : TRUE ELSE Evacuated(t)
           put == PutInnermost(w.term, g)
           now == [w EXCEPT !.term = put]
           S == interned \cup {g}
<1>1. /\ w # None /\ interned' = S
      /\ IF IsLocal(now.term)
         THEN walk' = [walk EXCEPT ![th] = now] /\ UNCHANGED held
         ELSE /\ walk' = [walk EXCEPT ![th] = None]
              /\ held' = [held EXCEPT ![th] = @ \cup {now}]
  BY DEF Intern, Idle
<1>2. Table(interned) /\ WalkedOver(w, interned)
  BY <1>1 DEF Inductive
<1>3. WellMade(w.term, interned) /\ w.term \in Term /\ IsLocal(w.term) /\ w = Entry(w.term, w.is)
  BY <1>2 DEF WalkedOver, HeldOver, WellMade
<1>4. WellMade(t, interned) /\ t \in Term /\ IsLocal(t) /\ LocalSubterms(t) = {}
  <2>1. WellMade(t, interned) /\ IsLocal(t) /\ LocalSubterms(t) = {}
    BY <1>3, InnermostIsWellMade
  <2> HIDE DEF t
  <2> QED BY <2>1 DEF WellMade
<1>5. \/ g \in interned /\ g.id = t.id /\ g.subs = t.subs
      \/ /\ \A h \in interned : ~ (h.id = t.id /\ h.subs = t.subs)
         /\ \E n \in Nat : g = [t EXCEPT !.at = <<"global", n>>]
  <2> HIDE DEF t
  <2>1. CASE Cached(t) # {}
    <3>1. g \in Cached(t)
      BY <2>1
    <3> HIDE DEF g
    <3> QED BY <3>1 DEF Cached
  <2>2. CASE Cached(t) = {}
    <3> DEFINE same == {h \in interned : SameStructure(h, t)}
    <3>1. Cardinality(same) \in Nat
      <4>1. IsFiniteSet(same)
        BY <1>2, FS_Subset DEF Table
      <4> QED BY <4>1, FS_CardinalityType
    <3>2. g = [t EXCEPT !.at = <<"global", Cardinality(same)>>]
      BY <2>2 DEF Evacuated
    <3>3. \A h \in interned : ~ (h.id = t.id /\ h.subs = t.subs)
      BY <2>2 DEF Cached
    <3> HIDE DEF g, same
    <3> QED BY <3>1, <3>2, <3>3
  <2> QED BY <2>1, <2>2
<1>6. /\ g \in Term /\ g.id = t.id /\ g.subs = t.subs
      /\ Table(S) /\ WellMade(g, S)
  <2> HIDE DEF t, g
  <2> QED BY <1>2, <1>4, <1>5, InternedTerm
<1>7. WellMade(put, S)
  <2>1. Interned(interned) /\ \A h \in interned : \A i \in DOMAIN h.subs : ~IsLocal(h.subs[i])
    BY <1>2, TableHasNothingLocal DEF Table
  <2>2. g.subs = Innermost(w.term).subs
    BY <1>6
  <2> HIDE DEF g
  <2>3. \A x \in Term : WellMade(x, interned) /\ g.subs = Innermost(x).subs
                          => WellMade(PutInnermost(x, g), S)
    BY <1>6, <2>1, PutIsWellMade
  <2> QED BY <1>3, <2>2, <2>3
<1>8. now = Entry(put, w.is) /\ HeldOver(now, S) /\ now.term = put
  <2> HIDE DEF put
  <2>1. now = Entry(put, w.is)
    BY <1>3 DEF Entry
  <2>2. now.term = put /\ now.is = w.is
    <3> HIDE DEF now
    <3> QED BY <2>1 DEF Entry
  <2> HIDE DEF now, S
  <2> QED BY <1>7, <2>1, <2>2 DEF HeldOver
<1> HIDE DEF g, put, now, t
<1>9. \A e : (HeldOver(e, interned) => HeldOver(e, S))
             /\ (WalkedOver(e, interned) => WalkedOver(e, S))
  BY WellMadeWithMore DEF HeldOver, WalkedOver
<1> HIDE DEF S
<1>10. CASE IsLocal(now.term)
  <2>1. WalkedOver(now, S)
    BY <1>8, <1>10 DEF WalkedOver
  <2>2. /\ DOMAIN walk' = Threads /\ held' = held
        /\ \A o \in Threads : walk'[o] = now \/ walk'[o] = walk[o]
    BY <1>1, <1>10 DEF Inductive
  <2>3. \A o \in Threads : walk'[o] # None => WalkedOver(walk'[o], S)
    BY <1>9, <2>1, <2>2 DEF Inductive
  <2>4. \A o \in Threads : \A e \in held'[o] : HeldOver(e, S)
    BY <1>9, <2>2 DEF Inductive
  <2> QED BY <1>1, <1>6, <2>2, <2>3, <2>4 DEF Inductive
<1>11. CASE ~IsLocal(now.term)
  <2>1. /\ DOMAIN walk' = Threads /\ DOMAIN held' = Threads
        /\ \A o \in Threads : walk'[o] = None \/ walk'[o] = walk[o]
        /\ \A o \in Threads : \A e \in held'[o] : e \in held[o] \/ e = now
    BY <1>1, <1>11 DEF Inductive
  <2>2. \A o \in Threads : walk'[o] # None => WalkedOver(walk'[o], S)
    BY <1>9, <2>1 DEF Inductive
  <2>3. \A o \in Threads : \A e \in held'[o] : HeldOver(e, S)
    BY <1>8, <1>9, <2>1 DEF Inductive
  <2> QED BY <1>1, <1>6, <2>1, <2>2, <2>3 DEF Inductive
<1> QED
  BY <1>10, <1>11

LEMMA InductiveNext == Inductive /\ [Next]_vars => Inductive'
<1> SUFFICES ASSUME Inductive, [Next]_vars PROVE Inductive'
  OBVIOUS
<1>1. CASE UNCHANGED vars
  BY <1>1 DEF vars, Inductive
<1>2. ASSUME NEW th \in Threads, NEW e \in ResolvedAsked, ResolveTerm(th, e)
      PROVE  Inductive'
  <2>1. HeldOver(e, interned)
    BY <1>2, ResolvedIsHeld DEF ResolvedAsked
  <2>2. e = Entry(e.term, e.is) /\ WellMade(e.term, interned)
    BY <2>1 DEF HeldOver
  <2>3. Hold(th, Entry(e.term, e.is)) /\ UNCHANGED <<walk, interned>>
    BY <1>2, <2>2 DEF ResolveTerm
  <2> QED BY <2>2, <2>3, HoldKeeps
<1>3. ASSUME NEW th \in Threads, NEW o \in held[th], NEW e \in held[th] \cup ResolvedMembers,
             SubstituteTerm(th, e, o)
      PROVE  Inductive'
  <2>1. HeldOver(e, interned)
    BY <1>3, ResolvedIsHeld DEF ResolvedMembers, Inductive
  <2> QED BY <1>3, <2>1, SubstitutedKeeps DEF SubstituteTerm
<1>4. ASSUME NEW th \in Threads, NEW o \in held[th], NEW e \in ResolvedSignatures,
             SubstituteSignature(th, e, o)
      PROVE  Inductive'
  <2>1. HeldOver(e, interned)
    BY <1>4, ResolvedIsHeld DEF ResolvedSignatures
  <2> QED BY <1>4, <2>1, SubstitutedKeeps DEF SubstituteSignature
<1>5. ASSUME NEW th \in Threads, NEW p \in Presented, NEW subs \in Arguments,
             Present(th, p, subs)
      PROVE  Inductive'
  BY <1>5, PresentKeeps
<1>6. ASSUME NEW th \in Threads, NEW e \in held[th], Globalize(th, e)
      PROVE  Inductive'
  BY <1>6, GlobalizeKeeps
<1>7. ASSUME NEW th \in Threads, Intern(th)
      PROVE  Inductive'
  BY <1>7, InternKeeps
<1>8. ASSUME NEW th \in Threads, EndSession(th)
      PROVE  Inductive'
  <2>1. /\ walk' = walk /\ interned' = interned /\ DOMAIN held' = Threads
        /\ \A o \in Threads : held'[o] \subseteq held[o]
    BY <1>8 DEF EndSession, Inductive
  <2> QED BY <2>1 DEF Inductive
<1> QED
  BY <1>1, <1>2, <1>3, <1>4, <1>5, <1>6, <1>7, <1>8 DEF Next

\* The table is made of builtin terms and its own, one for an identifier and
\* subterms, and what sessions hold and globalize is made of such terms and of
\* their own.
THEOREM TermsAreWellMade == Spec => []Inductive
<1> QED
  BY InductiveInit, InductiveNext, PTL DEF Spec

\* Equal types are one pointer in the table, however the sessions of different
\* threads globalize (TermManager::Globalize).
THEOREM TypesAreOneTerm == Spec => []OneTermPerType
<1>1. Inductive => OneTermPerType
  BY OneByStructure DEF Inductive, OneTermPerType, SameStructure, Structure
<1> QED
  BY <1>1, TermsAreWellMade, PTL

\* Nothing in the table is in the arena of a session, which ends
\* (TermManager::Globalize evacuates the subterms first).
THEOREM TableOutlivesSessions == Spec => []NoDangling
<1>1. Inductive => NoDangling
  <2> SUFFICES ASSUME Inductive, NEW g \in interned, NEW t \in Subterms[g]
               PROVE  ~IsLocal(t) /\ (t.at[1] = "global" => t \in interned)
    BY DEF NoDangling
  <2>1. Table(interned)
    BY DEF Inductive
  <2>2. IsBuiltin(t) \/ t \in interned
    BY <2>1, InternedAllTheWay
  <2>3. CASE IsBuiltin(t)
    BY <2>3, Builtins, GlobalIsNotLocal
  <2>4. CASE t \in interned
    BY <2>1, <2>4, TableHasNothingLocal
  <2> QED BY <2>2, <2>3, <2>4
<1> QED
  BY <1>1, TermsAreWellMade, PTL

--------------------------------------------------------------------------------
(* Structures: what a term, a reference and an instance say *)

\* A structure is a term without flags.
LEMMA StructuresAreTerms ==
  \A t \in Term : StructureOf[t] \in Term
<1> DEFINE N == {n \in 0..MaxDepth : \A t \in TermTo[n] : StructureOf[t] \in TermTo[n]}
<1>1. 0 \in N
  BY Levels, MaxDepthAssumption
<1>2. ASSUME NEW n \in 0..MaxDepth, n \in N, n + 1 \in 0..MaxDepth
      PROVE  n + 1 \in N
  <2> SUFFICES ASSUME NEW t \in TermTo[n + 1] PROVE StructureOf[t] \in TermTo[n + 1]
    BY <1>2
  <2>1. t \in Over(TermTo[n]) /\ TermTo[n + 1] = Over(TermTo[n]) /\ t \in Term
    BY <1>2, Levels, LevelsAreTerms
  <2> DEFINE subs == [i \in DOMAIN t.subs |-> StructureOf[t.subs[i]]]
  <2>2. StructureOf[t] = Bare(t.id, subs)
    BY <2>1, Structures DEF StructureBy
  <2>3. t.subs \in Seq(TermTo[n]) /\ t.id \in Ids
    BY <2>1 DEF Over
  <2>4. subs \in Seq(TermTo[n])
    <3>1. \A i \in DOMAIN t.subs : StructureOf[t.subs[i]] \in TermTo[n]
      BY <1>2, <2>3
    <3>2. DOMAIN t.subs = 1..Len(t.subs) /\ Len(t.subs) \in Nat
      BY <2>3
    <3> QED BY <3>1, <3>2
  <2>5. <<"local", 0>> \in Places /\ {} \in SUBSET Flag
    BY DEF Places
  <2> HIDE DEF subs
  <2>6. Bare(t.id, subs) \in Over(TermTo[n])
    BY <2>3, <2>4, <2>5 DEF Bare, Over
  <2> QED BY <2>1, <2>2, <2>6
<1> HIDE DEF N
<1>3. MaxDepth \in N
  BY <1>1, <1>2, Induction, MaxDepthAssumption
<1> QED
  BY <1>3, Levels DEF N

\* Its identifier and its subterms' structures, as facts of their own.
LEMMA StructureParts ==
  ASSUME NEW t \in Term
  PROVE  /\ StructureOf[t].id = t.id
         /\ DOMAIN StructureOf[t].subs = DOMAIN t.subs
         /\ \A i \in DOMAIN t.subs : StructureOf[t].subs[i] = StructureOf[t.subs[i]]
         /\ StructureOf[t] = Bare(t.id, [i \in DOMAIN t.subs |-> StructureOf[t.subs[i]]])
<1>1. StructureOf[t] = Bare(t.id, [i \in DOMAIN t.subs |-> StructureOf[t.subs[i]]])
  BY Structures DEF StructureBy
<1>2. /\ StructureOf[t].id = t.id
      /\ StructureOf[t].subs = [i \in DOMAIN t.subs |-> StructureOf[t.subs[i]]]
  BY <1>1 DEF Bare
<1> QED
  BY <1>1, <1>2

\* An instance, given those of the subterms.
InstanceBy(f, s, args) ==
  IF s.id.kind = "CLASS_TYPE_VAR" THEN args[s.id.num + 1]
  ELSE Bare(s.id, [i \in DOMAIN s.subs |-> f[s.subs[i]]])

InstancesAll(f, args) == f = [s \in Term |-> InstanceBy(f, s, args)]

LEMMA InstanceByExists ==
  ASSUME NEW args
  PROVE  \E f : InstancesAll(f, args)
<1> DEFINE Is(f, n) == f = [t \in TermTo[n] |-> InstanceBy(f, t, args)]
           N == {n \in 0..MaxDepth : \E f : Is(f, n)}
<1>1. \A f, h : \A t \in Term :
        (\A i \in DOMAIN t.subs : f[t.subs[i]] = h[t.subs[i]])
          => InstanceBy(f, t, args) = InstanceBy(h, t, args)
  <2> SUFFICES ASSUME NEW f, NEW h, NEW t \in Term,
                      \A i \in DOMAIN t.subs : f[t.subs[i]] = h[t.subs[i]]
               PROVE  InstanceBy(f, t, args) = InstanceBy(h, t, args)
    OBVIOUS
  <2>1. [i \in DOMAIN t.subs |-> f[t.subs[i]]] = [i \in DOMAIN t.subs |-> h[t.subs[i]]]
    OBVIOUS
  <2> QED BY <2>1 DEF InstanceBy
<1>2. 0 \in N
  <2> DEFINE f == [t \in {} |-> t]
  <2>1. f = [t \in TermTo[0] |-> InstanceBy(f, t, args)]
    BY Levels
  <2> HIDE DEF f
  <2> QED BY <2>1, MaxDepthAssumption
<1>3. ASSUME NEW n \in 0..MaxDepth, n \in N, n + 1 \in 0..MaxDepth
      PROVE  n + 1 \in N
  <2>1. PICK f : Is(f, n)
    BY <1>3
  <2> DEFINE g == [t \in TermTo[n + 1] |-> InstanceBy(f, t, args)]
  <2>2. \A t \in TermTo[n + 1] : \A i \in DOMAIN t.subs :
          t.subs[i] \in TermTo[n] /\ t.subs[i] \in TermTo[n + 1]
    BY <1>3, LevelParts
  <2>3. \A t \in TermTo[n] : f[t] = InstanceBy(f, t, args)
    BY <2>1
  <2>4. \A t \in TermTo[n + 1] : \A i \in DOMAIN t.subs : f[t.subs[i]] = g[t.subs[i]]
    BY <2>2, <2>3
  <2>5. \A t \in TermTo[n + 1] : InstanceBy(f, t, args) = InstanceBy(g, t, args)
    <3> HIDE DEF g
    <3> QED BY <1>1, <1>3, <2>4, LevelsAreTerms
  <2>6. g = [t \in TermTo[n + 1] |-> InstanceBy(g, t, args)]
    <3>1. \A h : (\A t \in TermTo[n + 1] : InstanceBy(f, t, args) = InstanceBy(h, t, args))
                   => g = [t \in TermTo[n + 1] |-> InstanceBy(h, t, args)]
      OBVIOUS
    <3> HIDE DEF g
    <3> QED BY <2>5, <3>1
  <2> HIDE DEF g
  <2> QED BY <1>3, <2>6
<1> HIDE DEF N
<1>4. MaxDepth \in N
  BY <1>2, <1>3, Induction, MaxDepthAssumption
<1> QED
  BY <1>4, Levels DEF N, InstancesAll

\* An instance is made of those of the subterms.
LEMMA Instances ==
  ASSUME NEW args
  PROVE  \A s \in Term :
           Instance(s, args) =
             IF s.id.kind = "CLASS_TYPE_VAR" THEN args[s.id.num + 1]
             ELSE Bare(s.id, [i \in DOMAIN s.subs |-> Instance(s.subs[i], args)])
<1> DEFINE F == CHOOSE f : InstancesAll(f, args)
<1>1. \E f : InstancesAll(f, args)
  BY InstanceByExists
<1>2. \A s : Instance(s, args) = F[s]
  BY DEF Instance, InstanceBy, InstancesAll
<1>3. InstancesAll(F, args)
  BY <1>1
<1>4. \A s \in Term : F[s] = InstanceBy(F, s, args)
  <2> HIDE DEF F
  <2> QED BY <1>3 DEF InstancesAll
<1> HIDE DEF F
<1> QED
  BY <1>2, <1>4 DEF InstanceBy

\* The subterms of an entry are among what it is made of.
LEMMA PartsOfEntry ==
  ASSUME NEW ref \in DOMAIN Pool
  PROVE  /\ Pool[ref].subs \in Seq(Refs) /\ DOMAIN Pool[ref].subs = 1..Len(Pool[ref].subs)
         /\ Len(Pool[ref].subs) \in Nat
         /\ \A i \in DOMAIN Pool[ref].subs :
              /\ Stream(Pool[ref])[i] = Pool[ref].subs[i]
              /\ Pool[ref].subs[i] \in Parts(ref) /\ Pool[ref].subs[i] \in Refs
<1>1. Pool[ref].subs \in Seq(Refs) /\ Pool[ref].after \in Seq(Refs)
  BY PoolAssumption
<1>2. DOMAIN Pool[ref].subs = 1..Len(Pool[ref].subs) /\ Len(Pool[ref].subs) \in Nat
  BY <1>1
<1>3. \A i \in DOMAIN Pool[ref].subs : Stream(Pool[ref])[i] = Pool[ref].subs[i]
  <2>1. \A s, t \in Seq(Refs) : \A i \in 1..Len(s) : (s \o t)[i] = s[i]
    OBVIOUS
  <2> QED BY <1>1, <1>2, <2>1 DEF Stream
<1>4. \A i \in 1..Len(Pool[ref].subs) : Stream(Pool[ref])[i] \in Parts(ref)
  BY StreamsArePartial
<1>5. \A i \in DOMAIN Pool[ref].subs : Pool[ref].subs[i] \in Refs
  BY <1>1, <1>2
<1> QED
  BY <1>1, <1>2, <1>3, <1>4, <1>5

\* What a reference stands for, given those of the references it is made of.
DenotedBy(f, ref) ==
  IF ref \in Primitives THEN Plain(TagId(ref))
  ELSE LET e == Pool[ref]
           subs == [i \in DOMAIN e.subs |-> f[e.subs[i]]]
       IN  IF /\ FitsDefinition(e)
              /\ \A i \in DOMAIN subs : subs[i].id.kind # "UNDEFINED"
           THEN Bare(Id(KindOf(e), e.name, e.num), subs)
           ELSE UndefinedAs(ref)

DenotesAll(f, R) == f = [ref \in R |-> DenotedBy(f, ref)]

LEMMA DenotesByOneMore ==
  ASSUME NEW R \in SUBSET Refs, NEW f, DenotesAll(f, R),
         \A r \in R : Parts(r) \subseteq R,
         NEW ref \in Refs, ref \notin R, Parts(ref) \subseteq R
  PROVE  \E g : DenotesAll(g, R \cup {ref})
<1> DEFINE g == [r \in R \cup {ref} |-> DenotedBy(f, r)]
<1>1. \A r \in R : f[r] = DenotedBy(f, r)
  BY DEF DenotesAll
<1>2. \A r \in R : g[r] = f[r]
  BY <1>1
<1>3. \A r \in R \cup {ref} : Parts(r) \subseteq R
  OBVIOUS
<1>4. \A r \in R \cup {ref} : DenotedBy(f, r) = DenotedBy(g, r)
  <2> SUFFICES ASSUME NEW r \in R \cup {ref} PROVE DenotedBy(f, r) = DenotedBy(g, r)
    OBVIOUS
  <2> HIDE DEF g
  <2>1. CASE r \in Primitives
    BY <2>1 DEF DenotedBy
  <2>2. CASE r \notin Primitives
    <3>1. r \in DOMAIN Pool
      BY <2>2 DEF Refs
    <3>2. \A i \in DOMAIN Pool[r].subs : Pool[r].subs[i] \in Parts(r)
      BY <3>1, PartsOfEntry
    <3>3. [i \in DOMAIN Pool[r].subs |-> f[Pool[r].subs[i]]]
            = [i \in DOMAIN Pool[r].subs |-> g[Pool[r].subs[i]]]
      BY <1>2, <1>3, <3>2
    <3> QED BY <2>2, <3>3 DEF DenotedBy
  <2> QED BY <2>1, <2>2
<1>5. g = [r \in R \cup {ref} |-> DenotedBy(g, r)]
  <2>1. \A h : (\A r \in R \cup {ref} : DenotedBy(f, r) = DenotedBy(h, r))
                 => g = [r \in R \cup {ref} |-> DenotedBy(h, r)]
    OBVIOUS
  <2> HIDE DEF g
  <2> QED BY <1>4, <2>1
<1> HIDE DEF g
<1> QED
  BY <1>5 DEF DenotesAll

LEMMA DenotedByExists == \E f : DenotesAll(f, Refs)
<1> DEFINE Solved == {R \in SUBSET Refs : /\ \A r \in R : Parts(r) \subseteq R
                                          /\ \E f : DenotesAll(f, R)}
           m == Cardinality(Refs)
           N == {n \in 0..m : \E R \in Solved : n <= Cardinality(R)}
<1>1. IsFiniteSet(Refs) /\ m \in Nat
  BY PartsAssumption, FS_CardinalityType
<1>2. 0 \in N
  <2> DEFINE f == [r \in {} |-> r]
  <2>1. DenotesAll(f, {})
    BY DEF DenotesAll
  <2>2. {} \in Solved
    <3> HIDE DEF f
    <3> QED BY <2>1
  <2>3. Cardinality({}) = 0
    BY FS_EmptySet
  <2> HIDE DEF Solved, m
  <2> QED BY <1>1, <2>2, <2>3
<1>3. ASSUME NEW n \in 0..m, n \in N, n + 1 \in 0..m
      PROVE  n + 1 \in N
  <2>1. PICK R \in Solved : n <= Cardinality(R)
    BY <1>3
  <2>2. R \in SUBSET Refs /\ IsFiniteSet(R) /\ Cardinality(R) \in Nat
    BY <1>1, <2>1, FS_Subset, FS_CardinalityType
  <2>3. CASE n + 1 <= Cardinality(R)
    <3> HIDE DEF Solved, m
    <3> QED BY <1>3, <2>1, <2>3
  <2>4. CASE Cardinality(R) = n
    <3>1. Refs \ R # {}
      <4> SUFFICES ASSUME R = Refs PROVE FALSE
        BY <2>2
      <4> QED BY <1>1, <1>3, <2>4
    <3>2. PICK ref \in Refs \ R : Parts(ref) \cap (Refs \ R) = {}
      BY <3>1, PartsAssumption
    <3>3. Parts(ref) \subseteq R
      BY <3>2, PartsAreRefs
    <3>4. PICK f : DenotesAll(f, R)
      BY <2>1
    <3>5. \E g : DenotesAll(g, R \cup {ref})
      <4>1. \A r \in R : Parts(r) \subseteq R
        BY <2>1
      <4> QED BY <2>2, <3>2, <3>3, <3>4, <4>1, DenotesByOneMore
    <3>6. R \cup {ref} \in Solved
      BY <2>1, <3>2, <3>3, <3>5
    <3>7. Cardinality(R \cup {ref}) = n + 1
      BY <2>2, <2>4, <3>2, FS_AddElement
    <3> HIDE DEF Solved, m
    <3> QED BY <1>3, <3>6, <3>7
  <2> HIDE DEF Solved, m, N
  <2>5. n + 1 <= Cardinality(R) \/ Cardinality(R) = n
    BY <2>1, <2>2, <1>1
  <2> QED BY <2>3, <2>4, <2>5
<1>4. m \in N
  <2> HIDE DEF N, m
  <2> QED BY <1>1, <1>2, <1>3, Induction
<1>5. PICK R \in Solved : m <= Cardinality(R)
  <2> HIDE DEF Solved, m
  <2> QED BY <1>4
<1>6. R = Refs
  <2>1. R \in SUBSET Refs
    OBVIOUS
  <2>2. /\ IsFiniteSet(R) /\ Cardinality(R) <= m
        /\ m = Cardinality(R) => Refs = R
    BY <1>1, <2>1, FS_Subset
  <2>3. Cardinality(R) \in Nat
    BY <2>2, FS_CardinalityType
  <2> HIDE DEF m, Solved
  <2> QED BY <1>1, <1>5, <2>2, <2>3
<1> QED
  BY <1>6


\* A reference stands for what the references it is made of stand for.
LEMMA Denotations ==
  \A ref \in Refs : Denoted[ref] = DenotedBy(Denoted, ref)
<1>1. \E f : DenotesAll(f, Refs)
  BY DenotedByExists
<1>2. Denoted = CHOOSE f : DenotesAll(f, Refs)
  BY DEF Denoted, DenotesAll, DenotedBy
<1>3. DenotesAll(Denoted, Refs)
  BY <1>1, <1>2
<1> QED
  BY <1>3 DEF DenotesAll

--------------------------------------------------------------------------------
(* What the term of an entry is.  "FilesAgree" keeps out that a type of       *)
(* compiled code is read twice.                                               *)

SubsOf(ref) == [i \in DOMAIN Pool[ref].subs |-> Resolve[Pool[ref].subs[i]]]
PartsResolved(ref) == [part \in Parts(ref) |-> Resolve[part]]

IsDefined(ref) ==
  /\ FitsDefinition(Pool[ref])
  /\ \A i \in DOMAIN Pool[ref].subs : ~IsUndefined(Resolve[Pool[ref].subs[i]])

FlagsFit(e, subs, flags) ==
  /\ "gen" \notin flags
  /\ e.tag \in DefTags => ("ref" \in flags <=> e.tag = "REF")
  /\ e.tag \in AotTags => ("ref" \in flags <=> e.tag = "AOT_REF")
  /\ e.tag = "OPTION" =>
       ("ref" \in flags <=> "ref" \in OptionFlags(Resolve[Defs[e.name].enumType], subs))
  /\ e.tag \in EnumTags /\ e.tag # "OPTION" => "ref" \notin flags
  /\ e.tag \in PlainTags =>
       ("ref" \in flags <=> e.tag \in {"FUNCTIONAL", "NULLABLE", "CANGJIE_ARRAY", "BOX"})

IsEntry(ref, t) ==
  LET e == Pool[ref]
  IN  /\ e.tag \in VarTags => t = TypeVariable(e.tag, e.num)
      /\ e.tag \notin VarTags /\ IsDefined(ref) =>
           \E flags : /\ FlagsFit(e, SubsOf(ref), flags)
                      /\ t = Local(Id(KindOf(e), e.name, e.num), SubsOf(ref), flags)
      /\ e.tag \notin VarTags /\ ~IsDefined(ref) => t = Undefined(ref)

LEMMA ReadOfEntry ==
  ASSUME NEW ref \in DOMAIN Pool
  PROVE  LET r == ReadSubTerms(PartsResolved(ref), Stream(Pool[ref]), Len(Pool[ref].subs))
             all == \A i \in DOMAIN Pool[ref].subs : ~IsUndefined(Resolve[Pool[ref].subs[i]])
         IN  (all => r.ok /\ r.subs = SubsOf(ref)) /\ (~all => ~r.ok)
<1> DEFINE of == PartsResolved(ref)
           s == Stream(Pool[ref])
           n == Len(Pool[ref].subs)
           r == ReadSubTerms(of, s, n)
           undefined == {i \in 1..n : IsUndefined(of[s[i]])}
<1>1. /\ DOMAIN Pool[ref].subs = 1..n /\ n \in Nat
      /\ \A i \in DOMAIN Pool[ref].subs :
           s[i] = Pool[ref].subs[i] /\ Pool[ref].subs[i] \in Parts(ref)
  BY PartsOfEntry
<1>2. \A i \in 1..n : of[s[i]] = Resolve[Pool[ref].subs[i]]
  BY <1>1 DEF PartsResolved
<1>3. undefined = {} => r.ok /\ r.subs = [i \in 1..n |-> of[s[i]]]
  BY DEF ReadSubTerms
<1>4. undefined # {} => ~r.ok
  BY DEF ReadSubTerms
<1>5. [i \in 1..n |-> of[s[i]]] = SubsOf(ref)
  <2> HIDE DEF of, s, n
  <2> QED BY <1>1, <1>2 DEF SubsOf
<1>6. (\A i \in DOMAIN Pool[ref].subs : ~IsUndefined(Resolve[Pool[ref].subs[i]]))
        <=> undefined = {}
  <2> HIDE DEF of, s, n
  <2> QED BY <1>1, <1>2
<1> HIDE DEF of, s, n, r, undefined
<1>7. ((\A i \in DOMAIN Pool[ref].subs : ~IsUndefined(Resolve[Pool[ref].subs[i]]))
         => r.ok /\ r.subs = SubsOf(ref))
      /\ (~(\A i \in DOMAIN Pool[ref].subs : ~IsUndefined(Resolve[Pool[ref].subs[i]]))
         => ~r.ok)
  BY <1>3, <1>4, <1>5, <1>6
<1> QED
  BY <1>7 DEF r, of, s, n

\* The read, as what is made of it.
LEMMA ReadIsEntry ==
  ASSUME NEW ref \in DOMAIN Pool, NEW id, NEW flags
  PROVE  LET t == Read(ref, id, flags,
                       ReadSubTerms(PartsResolved(ref), Stream(Pool[ref]),
                                    Len(Pool[ref].subs)))
             all == \A i \in DOMAIN Pool[ref].subs : ~IsUndefined(Resolve[Pool[ref].subs[i]])
         IN  (all => t = Local(id, SubsOf(ref), flags)) /\ (~all => t = Undefined(ref))
BY ReadOfEntry DEF Read

LEMMA UndefinedIsUndefined ==
  ASSUME NEW ref, NEW id, NEW subs, NEW flags
  PROVE  /\ IsUndefined(Undefined(ref))
         /\ id.kind # "UNDEFINED" => ~IsUndefined(Local(id, subs, flags))
BY DEF IsUndefined, Undefined, Local, Id

LEMMA DefIsEntry ==
  ASSUME NEW ref \in DOMAIN Pool, Pool[ref].tag \in DefTags
  PROVE  IsEntry(ref, ResolveTypeDefTerm(PartsResolved(ref), ref, Pool[ref].tag = "REF", {}).term)
<1> DEFINE e == Pool[ref]
           all == \A i \in DOMAIN e.subs : ~IsUndefined(Resolve[e.subs[i]])
           reference == e.tag = "REF"
           fits == e.name \in Names /\ Defs[e.name].record # reference
                     /\ Defs[e.name].arity = Len(e.subs)
           flags == Represented(reference) \cup {}
           r == ReadSubTerms(PartsResolved(ref), Stream(e), Len(e.subs))
           t == ResolveTypeDefTerm(PartsResolved(ref), ref, reference, {}).term
<1>1. t = IF fits THEN Read(ref, Id("TYPE", e.name, 0), flags, r) ELSE Undefined(ref)
  BY DEF ResolveTypeDefTerm
<1>2. \A id, f : (all => Read(ref, id, f, r) = Local(id, SubsOf(ref), f))
                   /\ (~all => Read(ref, id, f, r) = Undefined(ref))
  BY ReadIsEntry
<1>3. fits <=> FitsDefinition(e)
  <2>1. FitsDefinition(e) <=> /\ e.name \in Names /\ Defs[e.name].arity = Len(e.subs)
                              /\ Defs[e.name].record = (e.tag = "REC")
    BY DEF FitsDefinition, DefTags, EnumTags
  <2>2. e.name \in Names => Defs[e.name].record \in BOOLEAN
    BY DefsAssumption
  <2>3. (e.tag = "REF") # (e.tag = "REC")
    BY DEF DefTags
  <2>4. e.name \in Names => (Defs[e.name].record # reference
                               <=> Defs[e.name].record = (e.tag = "REC"))
    BY <2>2, <2>3
  <2> QED BY <2>1, <2>4
<1>4. Id(KindOf(e), e.name, e.num) = Id("TYPE", e.name, 0)
  <2>1. e.num = 0
    BY PoolAssumption DEF DefTags, VarTags, PlainTags
  <2> QED BY <2>1 DEF KindOf
<1>5. FlagsFit(e, SubsOf(ref), flags)
  BY DEF FlagsFit, Represented, DefTags, AotTags, EnumTags, PlainTags
<1>6. e.tag \notin VarTags
  BY DEF DefTags, VarTags
<1>7. IsDefined(ref) <=> fits /\ all
  BY <1>3 DEF IsDefined
<1>8. IsDefined(ref) => t = Local(Id(KindOf(e), e.name, e.num), SubsOf(ref), flags)
  BY <1>1, <1>2, <1>4, <1>7
<1>9. ~IsDefined(ref) => t = Undefined(ref)
  BY <1>1, <1>2, <1>7
<1> HIDE DEF t, flags
<1>10. IsEntry(ref, t)
  BY <1>5, <1>6, <1>8, <1>9 DEF IsEntry
<1> QED
  BY <1>10 DEF t

LEMMA AotIsEntry ==
  ASSUME FilesAgree, NEW ref \in DOMAIN Pool, Pool[ref].tag \in AotTags
  PROVE  IsEntry(ref, ResolveAotType(PartsResolved(ref), ref, Pool[ref].tag = "AOT_REF"))
<1> DEFINE e == Pool[ref]
           of == PartsResolved(ref)
           all == \A i \in DOMAIN e.subs : ~IsUndefined(Resolve[e.subs[i]])
           reference == e.tag = "AOT_REF"
           def == ResolveTypeDefTerm(of, ref, reference, {"aot"})
           t == ResolveAotType(of, ref, reference)
           r == ReadSubTerms(of, Stream(e), Len(e.subs))
<1>1. e.num = 0 /\ e.tag \notin VarTags /\ FitsDefinition(e)
  BY PoolAssumption DEF AotTags, DefTags, EnumTags, VarTags, PlainTags, FitsDefinition
<1>2. \A id, f : (all => Read(ref, id, f, r) = Local(id, SubsOf(ref), f))
                   /\ (~all => Read(ref, id, f, r) = Undefined(ref))
  BY ReadIsEntry
<1>3. IsDefined(ref) <=> all
  BY <1>1 DEF IsDefined
<1>4. CASE e.name \in Names
  <2> DEFINE flags == Represented(reference) \cup {"aot"}
  <2>1. all
    BY <1>4 DEF FilesAgree
  <2>2. Defs[e.name].record # reference /\ Defs[e.name].arity = Len(e.subs)
    <3>1. Defs[e.name].record = (e.tag = "AOT_REC") /\ Defs[e.name].arity = Len(e.subs)
      BY <1>4, PoolAssumption
    <3>2. (e.tag = "AOT_REF") # (e.tag = "AOT_REC")
      BY DEF AotTags
    <3> QED BY <3>1, <3>2
  <2>3. def.term = Read(ref, Id("TYPE", e.name, 0), flags, r)
    BY <1>4, <2>2 DEF ResolveTypeDefTerm
  <2>4. def.term = Local(Id("TYPE", e.name, 0), SubsOf(ref), flags)
    BY <1>2, <2>1, <2>3
  <2>5. ~IsUndefined(def.term)
    <3>1. Id("TYPE", e.name, 0).kind # "UNDEFINED"
      BY DEF Id
    <3> HIDE DEF def
    <3> QED BY <2>4, <3>1, UndefinedIsUndefined
  <2>6. t = def.term
    BY <2>5 DEF ResolveAotType
  <2>7. Id(KindOf(e), e.name, e.num) = Id("TYPE", e.name, 0)
    BY <1>1, <1>4 DEF KindOf
  <2>8. FlagsFit(e, SubsOf(ref), flags)
    BY DEF FlagsFit, Represented, DefTags, AotTags, EnumTags, PlainTags
  <2>9. t = Local(Id(KindOf(e), e.name, e.num), SubsOf(ref), flags)
    BY <2>4, <2>6, <2>7
  <2> HIDE DEF t, flags
  <2>10. IsEntry(ref, t)
    BY <1>1, <1>3, <2>1, <2>8, <2>9 DEF IsEntry
  <2> QED BY <2>10 DEF t
<1>5. CASE e.name \notin Names
  <2> DEFINE flags == Represented(reference)
             id == Id("AOT_TYPE", e.name, 0)
  <2>1. def.term = Undefined(ref) /\ def.rest = Stream(e)
    BY <1>5 DEF ResolveTypeDefTerm
  <2>2. IsUndefined(def.term)
    <3> HIDE DEF def
    <3> QED BY <2>1, UndefinedIsUndefined
  <2>3. t = Read(ref, id, flags, r)
    BY <2>1, <2>2 DEF ResolveAotType
  <2>4. Id(KindOf(e), e.name, e.num) = id
    BY <1>1, <1>5 DEF KindOf, AotTags, DefTags
  <2>5. FlagsFit(e, SubsOf(ref), flags)
    BY DEF FlagsFit, Represented, DefTags, AotTags, EnumTags, PlainTags
  <2> HIDE DEF t, flags, id, r
  <2>6. IsEntry(ref, t)
    BY <1>1, <1>2, <1>3, <2>3, <2>4, <2>5 DEF IsEntry
  <2> QED BY <2>6 DEF t
<1> QED
  BY <1>4, <1>5

LEMMA EnumIsEntry ==
  ASSUME NEW ref \in DOMAIN Pool, Pool[ref].tag \in EnumTags
  PROVE  IsEntry(ref, ResolveEnumTerm(PartsResolved(ref), ref))
<1> DEFINE e == Pool[ref]
           of == PartsResolved(ref)
           all == \A i \in DOMAIN e.subs : ~IsUndefined(Resolve[e.subs[i]])
           fits == e.name \in Names /\ Defs[e.name].enum = e.tag
                     /\ Defs[e.name].arity = Len(e.subs)
           r == ReadSubTerms(of, Stream(e), Len(e.subs))
           flags == EnumFlags(of, e.tag, e.name, r.subs)
           t == ResolveEnumTerm(of, ref)
<1>1. e.num = 0 /\ e.tag \notin VarTags
  BY PoolAssumption DEF AotTags, DefTags, EnumTags, VarTags, PlainTags
<1>2. (all => r.ok /\ r.subs = SubsOf(ref)) /\ (~all => ~r.ok)
  BY ReadOfEntry
<1>3. IsDefined(ref) <=> fits /\ all
  <2>1. FitsDefinition(e) <=> fits
    BY DEF FitsDefinition, EnumTags, DefTags
  <2> QED BY <2>1 DEF IsDefined
<1>4. t = IF fits /\ r.ok THEN Local(Id(e.tag, e.name, 0), r.subs, flags) ELSE Undefined(ref)
  BY DEF ResolveEnumTerm
<1>5. Id(KindOf(e), e.name, e.num) = Id(e.tag, e.name, 0)
  BY <1>1 DEF KindOf, EnumTags, AotTags, DefTags
<1>6. ASSUME fits /\ all
      PROVE  FlagsFit(e, SubsOf(ref), flags)
  <2>1. r.subs = SubsOf(ref)
    BY <1>2, <1>6
  <2>2. CASE e.tag = "OPTION"
    <3> DEFINE type == Defs[e.name].enumType
    <3>1. type \in Parts(ref)
      BY <1>6, <2>2, PoolAssumption DEF Parts
    <3>2. of[type] = Resolve[type]
      BY <3>1 DEF PartsResolved
    <3>3. flags = OptionFlags(Resolve[type], SubsOf(ref))
      <4>1. flags = OptionFlags(of[type], r.subs)
        BY <2>2 DEF EnumFlags
      <4> HIDE DEF of, r, flags
      <4> QED BY <2>1, <3>2, <4>1
    <3>4. "gen" \notin OptionFlags(Resolve[type], SubsOf(ref))
      BY DEF OptionFlags, Represented
    <3> HIDE DEF flags
    <3> QED BY <2>2, <3>3, <3>4 DEF FlagsFit, DefTags, AotTags, EnumTags, PlainTags
  <2>3. CASE e.tag # "OPTION"
    <3>1. flags \in {{"rec"}, {}}
      BY <2>3 DEF EnumFlags, EnumTags
    <3>2. "gen" \notin flags /\ "ref" \notin flags
      <4> HIDE DEF flags
      <4> QED BY <3>1
    <3> HIDE DEF flags
    <3> QED BY <2>3, <3>2 DEF FlagsFit, DefTags, AotTags, EnumTags, PlainTags
  <2> QED BY <2>2, <2>3
<1> HIDE DEF t, flags, r
<1>7. IsEntry(ref, t)
  BY <1>1, <1>2, <1>3, <1>4, <1>5, <1>6 DEF IsEntry
<1> QED
  BY <1>7 DEF t

LEMMA PlainIsEntry ==
  ASSUME NEW ref \in DOMAIN Pool, Pool[ref].tag \in PlainTags
  PROVE  IsEntry(ref, Read(ref, Id(Pool[ref].tag, NoName, Pool[ref].num),
                           PlainFlags(Pool[ref].tag),
                           ReadSubTerms(PartsResolved(ref), Stream(Pool[ref]),
                                        Len(Pool[ref].subs))))
<1> DEFINE e == Pool[ref]
           all == \A i \in DOMAIN e.subs : ~IsUndefined(Resolve[e.subs[i]])
           r == ReadSubTerms(PartsResolved(ref), Stream(e), Len(e.subs))
           id == Id(e.tag, NoName, e.num)
           flags == PlainFlags(e.tag)
           t == Read(ref, id, flags, r)
<1>1. e.name = NoName /\ e.tag \notin VarTags /\ FitsDefinition(e)
  BY PoolAssumption DEF AotTags, DefTags, EnumTags, VarTags, PlainTags, FitsDefinition
<1>2. (all => t = Local(id, SubsOf(ref), flags)) /\ (~all => t = Undefined(ref))
  BY ReadIsEntry
<1>3. IsDefined(ref) <=> all
  BY <1>1 DEF IsDefined
<1>4. Id(KindOf(e), e.name, e.num) = id
  BY <1>1 DEF KindOf, PlainTags, AotTags, DefTags
<1>5. FlagsFit(e, SubsOf(ref), flags)
  <2>1. e.tag \notin DefTags \cup AotTags \cup EnumTags
    BY DEF DefTags, AotTags, EnumTags, PlainTags
  <2>2. CASE e.tag \in {"FUNCTIONAL", "NULLABLE", "CANGJIE_ARRAY", "BOX"}
    <3>1. flags = {"ref"}
      BY <2>2 DEF PlainFlags
    <3> HIDE DEF flags
    <3> QED BY <2>1, <2>2, <3>1 DEF FlagsFit, EnumTags
  <2>3. CASE e.tag \in {"VARRAY", "TUPLE", "PACKED_TUPLE_HACK"}
    <3>1. flags = {"rec"}
      BY <2>3 DEF PlainFlags
    <3> HIDE DEF flags
    <3> QED BY <2>1, <2>3, <3>1 DEF FlagsFit, EnumTags
  <2>4. CASE e.tag = "C_POINTER"
    <3>1. flags = {}
      BY <2>4 DEF PlainFlags
    <3> HIDE DEF flags
    <3> QED BY <2>1, <2>4, <3>1 DEF FlagsFit, EnumTags
  <2> QED BY <2>2, <2>3, <2>4 DEF PlainTags
<1> HIDE DEF t, flags, id
<1>6. IsEntry(ref, t)
  BY <1>1, <1>2, <1>3, <1>4, <1>5 DEF IsEntry
<1> QED
  BY <1>6 DEF t, flags, id

LEMMA EntriesAre ==
  ASSUME FilesAgree, NEW ref \in DOMAIN Pool
  PROVE  IsEntry(ref, Resolve[ref])
<1> DEFINE e == Pool[ref]
           of == PartsResolved(ref)
<1>1. Resolve[ref] = ResolveEntry(of, ref)
  BY Resolutions, PoolAssumption DEF ResolveBy, PartsResolved, Refs
<1>2. CASE e.tag \in DefTags
  <2>1. ResolveEntry(of, ref) = ResolveTypeDefTerm(of, ref, e.tag = "REF", {}).term
    BY <1>2 DEF ResolveEntry, DefTags, AotTags, EnumTags, VarTags, PlainTags
  <2> QED BY <1>1, <1>2, <2>1, DefIsEntry
<1>3. CASE e.tag \in AotTags
  <2>1. ResolveEntry(of, ref) = ResolveAotType(of, ref, e.tag = "AOT_REF")
    BY <1>3 DEF ResolveEntry, DefTags, AotTags, EnumTags, VarTags, PlainTags
  <2> QED BY <1>1, <1>3, <2>1, AotIsEntry
<1>4. CASE e.tag \in EnumTags
  <2>1. ResolveEntry(of, ref) = ResolveEnumTerm(of, ref)
    BY <1>4 DEF ResolveEntry, DefTags, AotTags, EnumTags, VarTags, PlainTags
  <2> QED BY <1>1, <1>4, <2>1, EnumIsEntry
<1>5. CASE e.tag \in VarTags
  <2>1. ResolveEntry(of, ref) = TypeVariable(e.tag, e.num)
    BY <1>5 DEF ResolveEntry, DefTags, AotTags, EnumTags, VarTags, PlainTags
  <2> QED BY <1>1, <1>5, <2>1 DEF IsEntry
<1>6. CASE e.tag \in PlainTags
  <2>1. ResolveEntry(of, ref)
          = Read(ref, Id(e.tag, NoName, e.num), PlainFlags(e.tag),
                 ReadSubTerms(of, Stream(e), Len(e.subs)))
    BY <1>6 DEF ResolveEntry, DefTags, AotTags, EnumTags, VarTags, PlainTags
  <2> QED BY <1>1, <1>6, <2>1, PlainIsEntry
<1> QED
  BY <1>2, <1>3, <1>4, <1>5, <1>6, PoolAssumption

--------------------------------------------------------------------------------
(* Resolution gives the type that the reference stands for. *)

LEMMA LocalIs ==
  ASSUME NEW id, NEW subs, NEW flags
  PROVE  LET t == Local(id, subs, flags)
         IN  /\ t.id = id /\ t.subs = subs /\ t.at = <<"local", 0>>
             /\ t.flags = flags \cup GenericFlag(subs)
BY DEF Local

LEMMA BareIs ==
  ASSUME NEW id, NEW subs
  PROVE  Bare(id, subs).id = id /\ Bare(id, subs).subs = subs
BY DEF Bare

LEMMA DenotedOfEntry ==
  ASSUME NEW ref \in DOMAIN Pool
  PROVE  LET e == Pool[ref]
             all == \A i \in DOMAIN e.subs : Denoted[e.subs[i]].id.kind # "UNDEFINED"
         IN  /\ FitsDefinition(e) /\ all =>
                  Denoted[ref] = Bare(Id(KindOf(e), e.name, e.num),
                                      [i \in DOMAIN e.subs |-> Denoted[e.subs[i]]])
             /\ ~(FitsDefinition(e) /\ all) => Denoted[ref] = UndefinedAs(ref)
<1> DEFINE e == Pool[ref]
           subs == [i \in DOMAIN e.subs |-> Denoted[e.subs[i]]]
<1>1. ref \in Refs /\ ref \notin Primitives
  BY PoolAssumption DEF Refs
<1>2. Denoted[ref] =
        IF FitsDefinition(e) /\ \A i \in DOMAIN subs : subs[i].id.kind # "UNDEFINED"
        THEN Bare(Id(KindOf(e), e.name, e.num), subs) ELSE UndefinedAs(ref)
  BY <1>1, Denotations DEF DenotedBy
<1> QED
  BY <1>2

\* A reference resolves to a term with the identifier it stands for.
LEMMA IdsAgree ==
  ASSUME FilesAgree
  PROVE  \A ref \in Refs : Resolve[ref].id = Denoted[ref].id
<1> DEFINE Bad == {r \in Refs : Resolve[r].id # Denoted[r].id}
<1> SUFFICES ASSUME Bad # {} PROVE FALSE
  OBVIOUS
<1>1. PICK r \in Bad : Parts(r) \cap Bad = {}
  <2> Bad \in SUBSET Refs
    OBVIOUS
  <2> HIDE DEF Bad
  <2> QED BY PartsAssumption
<1>2. r \in Refs /\ Resolve[r].id # Denoted[r].id
  OBVIOUS
<1>3. CASE r \in Primitives
  <2>1. Resolve[r] = Predefined(r) /\ Denoted[r] = Plain(TagId(r))
    BY <1>2, <1>3, Resolutions, Denotations DEF ResolveBy, DenotedBy
  <2>2. Resolve[r].id = TagId(r) /\ Denoted[r].id = TagId(r)
    BY <2>1 DEF Predefined, Builtin, Plain, Bare
  <2> QED BY <1>2, <2>2
<1>4. CASE r \notin Primitives
  <2> DEFINE e == Pool[r]
             id == Id(KindOf(e), e.name, e.num)
             all == \A i \in DOMAIN e.subs : Denoted[e.subs[i]].id.kind # "UNDEFINED"
  <2>1. r \in DOMAIN Pool
    BY <1>2, <1>4 DEF Refs
  <2>2. IsEntry(r, Resolve[r])
    BY <2>1, EntriesAre
  <2>3. \A i \in DOMAIN e.subs : Resolve[e.subs[i]].id = Denoted[e.subs[i]].id
    BY <1>1, <2>1, PartsOfEntry
  <2>4. /\ FitsDefinition(e) /\ all => Denoted[r].id = id
        /\ ~(FitsDefinition(e) /\ all) => Denoted[r].id = Id("UNDEFINED", r, 0)
    <3> DEFINE subs == [i \in DOMAIN e.subs |-> Denoted[e.subs[i]]]
    <3>1. /\ FitsDefinition(e) /\ all => Denoted[r] = Bare(id, subs)
          /\ ~(FitsDefinition(e) /\ all) => Denoted[r] = Bare(Id("UNDEFINED", r, 0), <<>>)
      BY <2>1, DenotedOfEntry DEF UndefinedAs, Plain
    <3> HIDE DEF e, all, subs, id
    <3> QED BY <3>1, BareIs
  <2>5. CASE e.tag \in VarTags
    <3>1. DOMAIN e.subs = {} /\ e.name = NoName
      BY <2>1, <2>5, PoolAssumption
    <3>2. FitsDefinition(e) /\ KindOf(e) = e.tag
      BY <2>5 DEF FitsDefinition, KindOf, VarTags, DefTags, AotTags, EnumTags
    <3>3. Resolve[r].id = Id(e.tag, NoName, e.num)
      BY <2>2, <2>5 DEF IsEntry, TypeVariable, Builtin
    <3> QED BY <1>2, <2>4, <3>1, <3>2, <3>3
  <2>6. CASE e.tag \notin VarTags
    <3>1. IsDefined(r) <=> FitsDefinition(e) /\ all
      BY <2>3 DEF IsDefined, IsUndefined
    <3>2. IsDefined(r) => Resolve[r].id = id
      <4>1. IsDefined(r) => \E flags : Resolve[r] = Local(id, SubsOf(r), flags)
        BY <2>2, <2>6 DEF IsEntry
      <4> HIDE DEF id
      <4> QED BY <4>1, LocalIs
    <3>3. ~IsDefined(r) => Resolve[r].id = Id("UNDEFINED", r, 0)
      <4>1. ~IsDefined(r) => Resolve[r] = Local(Id("UNDEFINED", r, 0), <<>>, {})
        BY <2>2, <2>6 DEF IsEntry, Undefined
      <4> QED BY <4>1, LocalIs
    <3> QED BY <1>2, <2>4, <3>1, <3>2, <3>3
  <2> QED BY <2>5, <2>6
<1> QED
  BY <1>3, <1>4

\* What it stands for, by the terms it is made of.
LEMMA DenotedIs ==
  ASSUME FilesAgree, NEW ref \in DOMAIN Pool
  PROVE  LET e == Pool[ref]
         IN  /\ IsDefined(ref) =>
                  Denoted[ref] = Bare(Id(KindOf(e), e.name, e.num),
                                      [i \in DOMAIN e.subs |-> Denoted[e.subs[i]]])
             /\ ~IsDefined(ref) => Denoted[ref] = UndefinedAs(ref)
<1>1. \A i \in DOMAIN Pool[ref].subs :
        Resolve[Pool[ref].subs[i]].id = Denoted[Pool[ref].subs[i]].id
  BY IdsAgree, PartsOfEntry
<1> QED
  BY <1>1, DenotedOfEntry DEF IsDefined, IsUndefined

LEMMA BuiltinStructure ==
  ASSUME NEW t \in Term, IsBuiltin(t)
  PROVE  StructureOf[t] = Bare(t.id, <<>>)
<1>1. t.subs = <<>>
  BY Builtins
<1>2. [i \in DOMAIN t.subs |-> StructureOf[t.subs[i]]] = <<>>
  BY <1>1
<1> QED
  BY <1>2, StructureParts

\* A reference that resolves to a term resolves to one of the structure it stands for.
LEMMA StructuresAgree ==
  ASSUME FilesAgree
  PROVE  \A ref \in Refs : Resolve[ref] \in Term => StructureOf[Resolve[ref]] = Denoted[ref]
<1> DEFINE Bad == {r \in Refs : Resolve[r] \in Term /\ StructureOf[Resolve[r]] # Denoted[r]}
<1> SUFFICES ASSUME Bad # {} PROVE FALSE
  OBVIOUS
<1>1. PICK r \in Bad : Parts(r) \cap Bad = {}
  <2> Bad \in SUBSET Refs
    OBVIOUS
  <2> HIDE DEF Bad
  <2> QED BY PartsAssumption
<1> DEFINE t == Resolve[r]
<1>2. r \in Refs /\ t \in Term /\ StructureOf[t] # Denoted[r]
  OBVIOUS
<1>3. CASE r \in Primitives
  <2>1. t = Predefined(r) /\ Denoted[r] = Plain(TagId(r))
    BY <1>2, <1>3, Resolutions, Denotations DEF ResolveBy, DenotedBy
  <2>2. IsBuiltin(t) /\ t.id = TagId(r)
    <3>1. IsBuiltin(Predefined(r)) /\ Predefined(r).id = TagId(r)
      BY <1>3 DEF IsBuiltin, Predefined, Builtin
    <3> HIDE DEF t
    <3> QED BY <2>1, <3>1
  <2> QED BY <1>2, <2>1, <2>2, BuiltinStructure DEF Plain
<1>4. CASE r \notin Primitives
  <2> DEFINE e == Pool[r]
             id == Id(KindOf(e), e.name, e.num)
             ds == [i \in DOMAIN e.subs |-> Denoted[e.subs[i]]]
  <2>1. r \in DOMAIN Pool
    BY <1>2, <1>4 DEF Refs
  <2>2. IsEntry(r, t)
    BY <2>1, EntriesAre
  <2>3. /\ IsDefined(r) => Denoted[r] = Bare(id, ds)
        /\ ~IsDefined(r) => Denoted[r] = UndefinedAs(r)
    BY <2>1, DenotedIs
  <2>4. CASE e.tag \in VarTags
    <3>1. DOMAIN e.subs = {} /\ e.name = NoName /\ e.num \in Nat
      BY <2>1, <2>4, PoolAssumption
    <3>2. FitsDefinition(e) /\ KindOf(e) = e.tag
      BY <2>4 DEF FitsDefinition, KindOf, VarTags, DefTags, AotTags, EnumTags
    <3>3. t = TypeVariable(e.tag, e.num)
      BY <2>2, <2>4 DEF IsEntry
    <3>4. IsBuiltin(t) /\ t.id = id
      <4>1. IsBuiltin(TypeVariable(e.tag, e.num))
        BY <2>4, <3>1 DEF IsBuiltin
      <4>2. TypeVariable(e.tag, e.num).id = Id(e.tag, NoName, e.num)
        BY DEF TypeVariable, Builtin
      <4> HIDE DEF t
      <4> QED BY <3>1, <3>2, <3>3, <4>1, <4>2
    <3>5. IsDefined(r) /\ ds = <<>>
      BY <3>1, <3>2 DEF IsDefined
    <3> HIDE DEF t, id, ds
    <3> QED BY <1>2, <2>3, <3>4, <3>5, BuiltinStructure
  <2>5. CASE e.tag \notin VarTags /\ IsDefined(r)
    <3>1. t.id = id /\ t.subs = SubsOf(r)
      <4>1. \E flags : t = Local(id, SubsOf(r), flags)
        BY <2>2, <2>5 DEF IsEntry
      <4> HIDE DEF id, t
      <4> QED BY <4>1, LocalIs
    <3>2. DOMAIN t.subs = DOMAIN e.subs
          /\ \A i \in DOMAIN e.subs : t.subs[i] = Resolve[e.subs[i]]
      <4> HIDE DEF t
      <4> QED BY <3>1 DEF SubsOf
    <3>3. \A i \in DOMAIN e.subs : StructureOf[t.subs[i]] = Denoted[e.subs[i]]
      <4> SUFFICES ASSUME NEW i \in DOMAIN e.subs PROVE StructureOf[t.subs[i]] = Denoted[e.subs[i]]
        OBVIOUS
      <4>1. e.subs[i] \in Parts(r) /\ e.subs[i] \in Refs
        BY <2>1, PartsOfEntry
      <4>2. t.subs[i] \in Term
        BY <1>2, <3>2, TermParts
      <4>3. Resolve[e.subs[i]] \in Term
        <5> HIDE DEF t
        <5> QED BY <3>2, <4>2
      <4>4. StructureOf[Resolve[e.subs[i]]] = Denoted[e.subs[i]]
        BY <1>1, <4>1, <4>3
      <4> HIDE DEF t
      <4> QED BY <3>2, <4>4
    <3>4. [i \in DOMAIN t.subs |-> StructureOf[t.subs[i]]] = ds
      <4> HIDE DEF t
      <4> QED BY <3>2, <3>3
    <3> HIDE DEF t, id, ds
    <3> QED BY <1>2, <2>3, <2>5, <3>1, <3>4, StructureParts
  <2>6. CASE e.tag \notin VarTags /\ ~IsDefined(r)
    <3>1. t = Undefined(r)
      BY <2>2, <2>6 DEF IsEntry
    <3>2. t.id = Id("UNDEFINED", r, 0) /\ t.subs = <<>>
      BY <3>1 DEF Undefined, Local
    <3> HIDE DEF t
    <3>3. [i \in DOMAIN t.subs |-> StructureOf[t.subs[i]]] = <<>>
      BY <3>2
    <3> QED BY <1>2, <2>3, <2>6, <3>2, <3>3, StructureParts DEF UndefinedAs, Plain
  <2> QED BY <2>4, <2>5, <2>6
<1> QED
  BY <1>3, <1>4

--------------------------------------------------------------------------------
(* What the flags of a term say. *)

\* A variable has no subterms, an option is one of a definition; the flags fit
\* what the term says.
Sound(t) ==
  /\ t.id.kind \in VarTags => DOMAIN t.subs = {}
  /\ t.id.kind = "OPTION" =>
       /\ t.id.name \in Names /\ Defs[t.id.name].enum = "OPTION"
       /\ Defs[t.id.name].arity = Len(t.subs)
  /\ IsReference(t) <=> HoldsReferences(StructureOf[t])
  /\ IsGeneric(t) <=> \/ t.id.kind \in VarTags
                      \/ \E i \in DOMAIN t.subs : IsGeneric(t.subs[i])

Right(t) == t \in Term /\ \A u \in Subterms[t] : Sound(u)

LEMMA RightByParts ==
  ASSUME NEW t \in Term
  PROVE  Right(t) <=> Sound(t) /\ \A i \in DOMAIN t.subs : Right(t.subs[i])
<1>1. Subterms[t] = {t} \cup UNION {Subterms[t.subs[i]] : i \in DOMAIN t.subs}
  BY SubtermsOfParts DEF SubtermsBy
<1>2. \A i \in DOMAIN t.subs : t.subs[i] \in Term
  BY TermParts
<1> QED
  BY <1>1, <1>2 DEF Right

\* A reference other than to an option resolves to a term that is a reference
\* when the values of the type are.
LEMMA ReferencesAgree ==
  ASSUME FilesAgree, NEW ref \in Refs, NEW t, t = Resolve[ref], NEW s, s.id = t.id,
         s.id.kind # "OPTION"
  PROVE  IsReference(t) <=> IsPlainReference(s)
<1> DEFINE k == s.id.kind
<1>1. CASE ref \in Primitives
  <2>1. t = Predefined(ref)
    BY <1>1, Resolutions DEF ResolveBy
  <2>2. t.id.kind = ref /\ ~IsReference(t)
    <3>1. Predefined(ref).id.kind = ref /\ "ref" \notin Predefined(ref).flags
      BY DEF Predefined, Builtin, TagId, Id
    <3> QED BY <2>1, <3>1 DEF IsReference
  <2>3. ref \notin {"TYPE", "AOT_TYPE", "FUNCTIONAL", "NULLABLE", "CANGJIE_ARRAY", "BOX"} \cup VarTags
    BY <1>1, PrimitivesAssumption DEF PlainTags
  <2>4. ~IsPlainReference(s)
    BY <2>2, <2>3 DEF IsPlainReference
  <2> QED BY <2>2, <2>4
<1>2. CASE ref \notin Primitives
  <2> DEFINE e == Pool[ref]
             id == Id(KindOf(e), e.name, e.num)
  <2>1. ref \in DOMAIN Pool
    BY <1>2 DEF Refs
  <2>2. IsEntry(ref, t)
    BY <2>1, EntriesAre
  <2>3. CASE e.tag \in VarTags
    <3>1. t = TypeVariable(e.tag, e.num)
      BY <2>2, <2>3 DEF IsEntry
    <3>2. TypeVariable(e.tag, e.num).id.kind = e.tag
          /\ "ref" \in TypeVariable(e.tag, e.num).flags
      BY DEF TypeVariable, Builtin, Id
    <3>3. IsReference(t) /\ s.id.kind \in VarTags
      BY <2>3, <3>1, <3>2 DEF IsReference
    <3> QED BY <3>3 DEF IsPlainReference
  <2>4. CASE e.tag \notin VarTags /\ ~IsDefined(ref)
    <3>1. t = Local(Id("UNDEFINED", ref, 0), <<>>, {})
      BY <2>2, <2>4 DEF IsEntry, Undefined
    <3>2. t.id = Id("UNDEFINED", ref, 0) /\ t.flags = {} \cup GenericFlag(<<>>)
      BY <3>1 DEF Local
    <3>3. "ref" \notin t.flags
      BY <3>2 DEF GenericFlag
    <3>4. s.id.kind = "UNDEFINED"
      BY <3>2 DEF Id
    <3> QED BY <3>3, <3>4 DEF IsReference, IsPlainReference, VarTags
  <2>5. CASE e.tag \notin VarTags /\ IsDefined(ref)
    <3>1. PICK flags : FlagsFit(e, SubsOf(ref), flags) /\ t = Local(id, SubsOf(ref), flags)
      BY <2>2, <2>5 DEF IsEntry
    <3>2. t.id = id /\ t.flags = flags \cup GenericFlag(SubsOf(ref))
      BY <3>1, LocalIs
    <3>3. IsReference(t) <=> "ref" \in flags
      BY <3>2 DEF IsReference, GenericFlag
    <3>4. k = KindOf(e) /\ s.id.name = e.name
      BY <3>2 DEF Id
    <3>5. FitsDefinition(e)
      BY <2>5 DEF IsDefined
    <3>6. CASE e.tag \in DefTags
      <4>1. k = "TYPE" /\ e.name \in Names /\ Defs[e.name].record = (e.tag = "REC")
        BY <3>4, <3>5, <3>6 DEF KindOf, FitsDefinition
      <4>2. "ref" \in flags <=> e.tag = "REF"
        BY <3>1, <3>6 DEF FlagsFit
      <4>3. e.tag = "REF" <=> ~(e.tag = "REC")
        BY <3>6 DEF DefTags
      <4>4. IsPlainReference(s) <=> ~Defs[e.name].record
        BY <3>4, <4>1 DEF IsPlainReference, VarTags
      <4> QED BY <3>3, <4>1, <4>2, <4>3, <4>4
    <3>7. CASE e.tag \in AotTags /\ e.name \in Names
      <4>1. k = "TYPE" /\ Defs[e.name].record = (e.tag = "AOT_REC")
        BY <2>1, <3>4, <3>7, PoolAssumption DEF KindOf
      <4>2. "ref" \in flags <=> e.tag = "AOT_REF"
        BY <3>1, <3>7 DEF FlagsFit
      <4>3. e.tag = "AOT_REF" <=> ~(e.tag = "AOT_REC")
        BY <3>7 DEF AotTags
      <4>4. IsPlainReference(s) <=> ~Defs[e.name].record
        BY <3>4, <4>1 DEF IsPlainReference, VarTags
      <4> QED BY <3>3, <4>1, <4>2, <4>3, <4>4
    <3>8. CASE e.tag \in AotTags /\ e.name \notin Names
      <4>1. k = "AOT_TYPE"
        BY <3>4, <3>8 DEF KindOf, AotTags, DefTags
      <4>2. "ref" \in flags <=> e.tag = "AOT_REF"
        BY <3>1, <3>8 DEF FlagsFit
      <4>3. IsPlainReference(s)
              <=> \E r \in DOMAIN Pool : Pool[r].name = e.name /\ Pool[r].tag = "AOT_REF"
        BY <3>4, <4>1 DEF IsPlainReference, VarTags
      <4>4. ASSUME NEW r \in DOMAIN Pool, Pool[r].name = e.name, Pool[r].tag = "AOT_REF"
            PROVE  e.tag = "AOT_REF"
        <5>1. {Pool[r].tag, Pool[ref].tag} \subseteq AotTags
          BY <3>8, <4>4 DEF AotTags
        <5> QED BY <2>1, <4>4, <5>1 DEF FilesAgree
      <4> QED BY <2>1, <3>3, <4>2, <4>3, <4>4
    <3>9. CASE e.tag \in EnumTags
      <4>1. k = e.tag
        BY <3>4, <3>9 DEF KindOf, EnumTags, DefTags, AotTags
      <4>2. "ref" \notin flags
        BY <3>1, <3>9, <4>1 DEF FlagsFit
      <4>3. ~IsPlainReference(s)
        BY <3>9, <4>1 DEF IsPlainReference, VarTags, EnumTags
      <4> QED BY <3>3, <4>2, <4>3
    <3>10. CASE e.tag \in PlainTags
      <4>1. k = e.tag
        BY <3>4, <3>10 DEF KindOf, PlainTags, DefTags, AotTags
      <4>2. "ref" \in flags <=> e.tag \in {"FUNCTIONAL", "NULLABLE", "CANGJIE_ARRAY", "BOX"}
        BY <3>1, <3>10 DEF FlagsFit
      <4>3. IsPlainReference(s)
              <=> e.tag \in {"FUNCTIONAL", "NULLABLE", "CANGJIE_ARRAY", "BOX"}
        BY <3>10, <4>1 DEF IsPlainReference, VarTags, PlainTags
      <4> QED BY <3>3, <4>2, <4>3
    <3> QED BY <2>1, <2>5, <3>6, <3>7, <3>8, <3>9, <3>10, PoolAssumption
  <2> QED BY <2>3, <2>4, <2>5
<1> QED
  BY <1>1, <1>2

\* How an option is represented: OptionFlags looks at what its values are made
\* of, a variable of the definition or a type of its own.
IsNullable(kind) == kind \in {"TYPE", "AOT_TYPE", "FUNCTIONAL"}

LEMMA VariablesOfEntries ==
  ASSUME FilesAgree, NEW ref \in Refs, Resolve[ref].id.kind = "CLASS_TYPE_VAR"
  PROVE  /\ ref \in DOMAIN Pool /\ Pool[ref].tag = "CLASS_TYPE_VAR"
         /\ Resolve[ref].id.num = Pool[ref].num
<1>1. ref \notin Primitives
  <2>1. ref \in Primitives => Resolve[ref] = Predefined(ref)
    BY Resolutions DEF ResolveBy
  <2>2. Predefined(ref).id.kind = ref
    BY DEF Predefined, Builtin, TagId, Id
  <2>3. "CLASS_TYPE_VAR" \notin Primitives
    BY PrimitivesAssumption DEF VarTags
  <2> QED BY <2>1, <2>2, <2>3
<1>2. ref \in DOMAIN Pool
  BY <1>1 DEF Refs
<1>3. IsEntry(ref, Resolve[ref])
  BY <1>2, EntriesAre
<1> DEFINE e == Pool[ref]
<1>4. CASE e.tag \in VarTags
  <2>1. Resolve[ref] = TypeVariable(e.tag, e.num)
    BY <1>3, <1>4 DEF IsEntry
  <2>2. /\ TypeVariable(e.tag, e.num).id.kind = e.tag
        /\ TypeVariable(e.tag, e.num).id.num = e.num
    BY DEF TypeVariable, Builtin, Id
  <2> QED BY <1>2, <2>1, <2>2
<1>5. CASE e.tag \notin VarTags
  <2>1. Resolve[ref].id \in {Id(KindOf(e), e.name, e.num), Id("UNDEFINED", ref, 0)}
    <3>1. IsDefined(ref) => \E flags : Resolve[ref] = Local(Id(KindOf(e), e.name, e.num), SubsOf(ref), flags)
      BY <1>3, <1>5 DEF IsEntry
    <3>2. ~IsDefined(ref) => Resolve[ref] = Local(Id("UNDEFINED", ref, 0), <<>>, {})
      BY <1>3, <1>5 DEF IsEntry, Undefined
    <3>3. \A id, subs, flags : Local(id, subs, flags).id = id
      BY DEF Local
    <3> QED BY <3>1, <3>2, <3>3
  <2>2. Resolve[ref].id.kind \in {KindOf(e), "UNDEFINED"}
    BY <2>1 DEF Id
  <2>3. KindOf(e) \in {"TYPE", "AOT_TYPE", e.tag}
    BY DEF KindOf
  <2> QED BY <1>5, <2>2, <2>3 DEF VarTags
<1> QED
  BY <1>4, <1>5

\* The variable that an option is an option of is one of its definition.
LEMMA VariableOfOption ==
  ASSUME FilesAgree, NEW name \in Names, Defs[name].enum = "OPTION",
         NEW subs \in Seq(Term), Defs[name].arity = Len(subs),
         Resolve[Defs[name].enumType].id.kind = "CLASS_TYPE_VAR"
  PROVE  Resolve[Defs[name].enumType].id.num + 1 \in DOMAIN subs
<1> DEFINE ref == Defs[name].enumType
<1>1. ref \in Refs
  BY DefsAssumption
<1>2. /\ ref \in DOMAIN Pool /\ Pool[ref].tag = "CLASS_TYPE_VAR"
      /\ Resolve[ref].id.num = Pool[ref].num
  BY <1>1, VariablesOfEntries
<1>3. Pool[ref].num < Len(subs) /\ Pool[ref].num \in Nat
  BY <1>2, DefsAssumption, PoolAssumption
<1>4. \A q \in Seq(Term) : \A n \in Nat : n < Len(q) => n + 1 \in DOMAIN q
  OBVIOUS
<1>5. Pool[ref].num + 1 \in DOMAIN subs
  <2> HIDE DEF ref
  <2> QED BY <1>3, <1>4
<1> QED
  BY <1>2, <1>5

LEMMA OptionIsRight ==
  ASSUME FilesAgree, NEW t \in Term, t.id.kind = "OPTION",
         t.id.name \in Names, Defs[t.id.name].enum = "OPTION",
         Defs[t.id.name].arity = Len(t.subs),
         \A i \in DOMAIN t.subs : Right(t.subs[i])
  PROVE  "ref" \in OptionFlags(Resolve[Defs[t.id.name].enumType], t.subs)
           <=> HoldsReferences(StructureOf[t])
<1> DEFINE ref == Defs[t.id.name].enumType
           T == Resolve[ref]
           s == StructureOf[t]
           u == Instance(Denoted[ref], s.subs)
<1>1. ref \in Refs /\ T \in Term
  BY DefsAssumption, BoundsAssumption
<1>2. Denoted[ref] = StructureOf[T] /\ StructureOf[T] \in Term /\ StructureOf[T].id = T.id
  BY <1>1, StructuresAgree, StructuresAreTerms, StructureParts
<1>3. /\ s.id = t.id /\ DOMAIN s.subs = DOMAIN t.subs
      /\ \A i \in DOMAIN t.subs : s.subs[i] = StructureOf[t.subs[i]]
  BY StructureParts
<1>4. HoldsReferences(s) <=> IsNullable(u.id.kind) /\ IsPlainReference(u)
  BY <1>3 DEF HoldsReferences, IsNullable
<1>5. CASE T.id.kind = "CLASS_TYPE_VAR"
  <2> DEFINE k == T.id.num + 1
             a == t.subs[k]
  <2>1. k \in DOMAIN t.subs
    <3>1. t.subs \in Seq(Term)
      BY TermParts DEF Over
    <3> HIDE DEF T
    <3> QED BY <1>5, <3>1, VariableOfOption DEF T
  <2>2. u = StructureOf[a]
    <3>1. u = s.subs[k]
      <4> HIDE DEF T, s, ref
      <4> QED BY <1>2, <1>5, Instances
    <3> HIDE DEF u
    <3> QED BY <1>3, <2>1, <3>1
  <2>3. a \in Term /\ Sound(a)
    <3>1. Right(a)
      BY <2>1
    <3>2. a \in Term
      BY <3>1 DEF Right
    <3> HIDE DEF a
    <3> QED BY <3>1, <3>2, RightByParts
  <2>4. u.id = a.id
    <3> HIDE DEF u, a
    <3> QED BY <2>2, <2>3, StructureParts
  <2>5. IsNullable(a.id.kind) => (IsReference(a) <=> IsPlainReference(u))
    <3>1. IsReference(a) <=> HoldsReferences(u)
      <4> HIDE DEF u, a
      <4> QED BY <2>2, <2>3 DEF Sound
    <3>2. IsNullable(a.id.kind) => u.id.kind # "OPTION"
      BY <2>4 DEF IsNullable
    <3> HIDE DEF u, a
    <3> QED BY <3>1, <3>2 DEF HoldsReferences
  <2>6. "ref" \in OptionFlags(T, t.subs) <=> IsNullable(a.id.kind) /\ IsReference(a)
    BY <1>5 DEF OptionFlags, Represented, IsNullable
  <2> HIDE DEF u, a, s, T
  <2>7. "ref" \in OptionFlags(T, t.subs) <=> HoldsReferences(s)
    BY <1>4, <2>4, <2>5, <2>6
  <2> QED BY <2>7 DEF T, s
<1>6. CASE T.id.kind # "CLASS_TYPE_VAR"
  <2>1. u.id = T.id
    <3>1. u = Bare(T.id, [i \in DOMAIN StructureOf[T].subs |->
                            Instance(StructureOf[T].subs[i], s.subs)])
      <4> HIDE DEF T, s, ref
      <4> QED BY <1>2, <1>6, Instances
    <3> HIDE DEF u, T
    <3> QED BY <3>1, BareIs
  <2>2. T.id.kind # "OPTION" => (IsReference(T) <=> IsPlainReference(u))
    <3> HIDE DEF u
    <3> QED BY <1>1, <2>1, ReferencesAgree
  <2>3. "ref" \in OptionFlags(T, t.subs) <=> IsNullable(T.id.kind) /\ IsReference(T)
    BY <1>6 DEF OptionFlags, Represented, IsNullable
  <2>4. IsNullable(T.id.kind) => T.id.kind # "OPTION"
    BY DEF IsNullable
  <2> HIDE DEF u, s, T
  <2>5. "ref" \in OptionFlags(T, t.subs) <=> HoldsReferences(s)
    BY <1>4, <2>1, <2>2, <2>3, <2>4
  <2> QED BY <2>5 DEF T, s
<1> QED
  BY <1>5, <1>6

\* The flag "gen" of a term that is made.
LEMMA LocalIsGeneric ==
  ASSUME NEW id, NEW subs, NEW flags, "gen" \notin flags
  PROVE  /\ IsGeneric(Local(id, subs, flags)) <=> \E i \in DOMAIN subs : IsGeneric(subs[i])
         /\ IsReference(Local(id, subs, flags)) <=> "ref" \in flags
BY DEF Local, GenericFlag, IsGeneric, IsReference

\* A term that is made of right ones is right when its representation is.
LEMMA MadeIsRight ==
  ASSUME NEW t \in Term, NEW flags, t = Local(t.id, t.subs, flags), "gen" \notin flags,
         t.id.kind \notin VarTags,
         t.id.kind = "OPTION" =>
           /\ t.id.name \in Names /\ Defs[t.id.name].enum = "OPTION"
           /\ Defs[t.id.name].arity = Len(t.subs),
         "ref" \in flags <=> HoldsReferences(StructureOf[t]),
         \A i \in DOMAIN t.subs : Right(t.subs[i])
  PROVE  Right(t)
<1> DEFINE u == Local(t.id, t.subs, flags)
<1>1. /\ IsGeneric(u) <=> \E i \in DOMAIN t.subs : IsGeneric(t.subs[i])
      /\ IsReference(u) <=> "ref" \in flags
  BY LocalIsGeneric
<1>2. /\ IsGeneric(t) <=> \E i \in DOMAIN t.subs : IsGeneric(t.subs[i])
      /\ IsReference(t) <=> "ref" \in flags
  <2>1. t = u
    OBVIOUS
  <2> HIDE DEF u
  <2> QED BY <1>1, <2>1
<1>3. Sound(t)
  BY <1>2 DEF Sound
<1> QED
  BY <1>3, RightByParts

\* So is a builtin one.
LEMMA BuiltinIsRight ==
  ASSUME NEW t \in Term, IsBuiltin(t)
  PROVE  Right(t)
<1>1. t.subs = <<>> /\ DOMAIN t.subs = {}
  <2>1. t.subs = <<>>
    BY Builtins
  <2> QED BY <2>1
<1> DEFINE s == StructureOf[t]
<1>2. s.id = t.id
  BY StructureParts
<1>3. ASSUME NEW kind \in Primitives \cup {"I64"}, t = Predefined(kind)
      PROVE  Sound(t)
  <2>1. t.id.kind = kind /\ ~IsReference(t) /\ ~IsGeneric(t)
    BY <1>3 DEF Predefined, Builtin, TagId, Id, IsReference, IsGeneric
  <2>2. kind \notin {"OPTION", "TYPE", "AOT_TYPE", "FUNCTIONAL", "NULLABLE", "CANGJIE_ARRAY", "BOX"}
                      \cup VarTags
    BY PrimitivesAssumption DEF PlainTags, VarTags, EnumTags
  <2>3. ~HoldsReferences(s)
    <3> HIDE DEF s
    <3>1. s.id.kind = kind
      BY <1>2, <2>1
    <3> QED BY <2>2, <3>1 DEF HoldsReferences, IsPlainReference
  <2> QED BY <1>1, <2>1, <2>2, <2>3 DEF Sound
<1>4. ASSUME NEW kind \in VarTags, NEW num \in Nat, t = TypeVariable(kind, num)
      PROVE  Sound(t)
  <2>1. t.id.kind = kind /\ IsReference(t) /\ IsGeneric(t)
    BY <1>4 DEF TypeVariable, Builtin, Id, IsReference, IsGeneric
  <2>2. kind # "OPTION"
    BY DEF VarTags
  <2>3. HoldsReferences(s)
    <3> HIDE DEF s
    <3>1. s.id.kind = kind
      BY <1>2, <2>1
    <3> QED BY <2>2, <3>1 DEF HoldsReferences, IsPlainReference
  <2> QED BY <1>1, <2>1, <2>2, <2>3 DEF Sound
<1>5. Sound(t)
  BY <1>3, <1>4 DEF IsBuiltin
<1> QED
  BY <1>1, <1>5, RightByParts

LEMMA ResolvedIsRight ==
  ASSUME FilesAgree
  PROVE  \A ref \in Refs : Resolve[ref] \in Term => Right(Resolve[ref])
<1> DEFINE Bad == {r \in Refs : Resolve[r] \in Term /\ ~Right(Resolve[r])}
<1> SUFFICES ASSUME Bad # {} PROVE FALSE
  OBVIOUS
<1>1. PICK r \in Bad : Parts(r) \cap Bad = {}
  <2> Bad \in SUBSET Refs
    OBVIOUS
  <2> HIDE DEF Bad
  <2> QED BY PartsAssumption
<1>2. PICK t : t = Resolve[r]
  OBVIOUS
<1>3. r \in Refs /\ t \in Term /\ ~Right(t)
  BY <1>2
<1>4. ASSUME NEW part \in Parts(r), Resolve[part] \in Term
      PROVE  Right(Resolve[part])
  BY <1>1, <1>3, <1>4, PartsAreRefs
<1> HIDE DEF Bad
<1>5. CASE r \in Primitives
  <2>1. t = Predefined(r)
    BY <1>2, <1>3, <1>5, Resolutions DEF ResolveBy
  <2>2. IsBuiltin(t)
    BY <1>5, <2>1 DEF IsBuiltin
  <2> QED BY <1>3, <2>2, BuiltinIsRight
<1>6. CASE r \notin Primitives
  <2> DEFINE e == Pool[r]
             id == Id(KindOf(e), e.name, e.num)
  <2>1. r \in DOMAIN Pool
    BY <1>3, <1>6 DEF Refs
  <2>2. IsEntry(r, t)
    BY <1>2, <2>1, EntriesAre
  <2>3. CASE e.tag \in VarTags
    <3>1. t = TypeVariable(e.tag, e.num) /\ e.num \in Nat
      BY <2>1, <2>2, <2>3, PoolAssumption DEF IsEntry
    <3>2. IsBuiltin(t)
      BY <2>3, <3>1 DEF IsBuiltin
    <3> QED BY <1>3, <3>2, BuiltinIsRight
  <2>4. CASE e.tag \notin VarTags /\ ~IsDefined(r)
    <3>1. t = Local(Id("UNDEFINED", r, 0), <<>>, {})
      BY <2>2, <2>4 DEF IsEntry, Undefined
    <3>2. t.id = Id("UNDEFINED", r, 0) /\ t.subs = <<>>
      BY <3>1 DEF Local
    <3>3. t.id.kind = "UNDEFINED" /\ StructureOf[t].id = t.id /\ DOMAIN t.subs = {}
      <4>1. t.id.kind = "UNDEFINED"
        BY <3>2 DEF Id
      <4>2. StructureOf[t].id = t.id
        BY <1>3, StructureParts
      <4>3. DOMAIN t.subs = {}
        BY <3>2
      <4> QED BY <4>1, <4>2, <4>3
    <3>4. ~HoldsReferences(StructureOf[t])
      BY <3>3 DEF HoldsReferences, IsPlainReference, VarTags
    <3>5. t = Local(t.id, t.subs, {})
      BY <3>1, <3>2
    <3>6. t.id.kind \notin VarTags /\ t.id.kind # "OPTION"
      BY <3>3 DEF VarTags
    <3>7. Right(t)
      BY <1>3, <3>3, <3>4, <3>5, <3>6, MadeIsRight
    <3> QED BY <1>3, <3>7
  <2>5. CASE e.tag \notin VarTags /\ IsDefined(r)
    <3>1. PICK flags : FlagsFit(e, SubsOf(r), flags) /\ t = Local(id, SubsOf(r), flags)
      BY <2>2, <2>5 DEF IsEntry
    <3>2. t.id = id /\ t.subs = SubsOf(r)
      <4> HIDE DEF id
      <4> QED BY <3>1, LocalIs
    <3>3. "gen" \notin flags /\ t = Local(t.id, t.subs, flags)
      BY <3>1, <3>2 DEF FlagsFit
    <3>4. t.id.kind = KindOf(e) /\ t.id.name = e.name
      BY <3>2 DEF Id
    <3>5. /\ e.tag \in DefTags \cup AotTags => KindOf(e) \in {"TYPE", "AOT_TYPE"}
          /\ e.tag \notin DefTags \cup AotTags => KindOf(e) = e.tag
      BY DEF KindOf, DefTags, AotTags
    <3>6. t.id.kind \notin VarTags /\ (t.id.kind = "OPTION" <=> e.tag = "OPTION")
      BY <2>5, <3>4, <3>5 DEF VarTags, DefTags, AotTags
    <3>7. ASSUME NEW i \in DOMAIN t.subs PROVE Right(t.subs[i])
      <4>1. i \in DOMAIN e.subs /\ t.subs[i] = Resolve[e.subs[i]]
        BY <3>2 DEF SubsOf
      <4>2. t.subs[i] \in Term
        BY <1>3, TermParts
      <4>3. e.subs[i] \in Parts(r)
        BY <2>1, <4>1, PartsOfEntry
      <4> QED BY <1>4, <4>1, <4>2, <4>3
    <3>8. Len(t.subs) = Len(e.subs)
      <4>1. e.subs \in Seq(Refs)
        BY <2>1, PoolAssumption
      <4>2. DOMAIN e.subs = 1..Len(e.subs) /\ Len(e.subs) \in Nat
        BY <4>1
      <4> QED BY <3>2, <4>2 DEF SubsOf
    <3>9. e.tag = "OPTION" =>
            /\ e.name \in Names /\ Defs[e.name].enum = "OPTION"
            /\ Defs[e.name].arity = Len(e.subs)
      BY <2>5 DEF IsDefined, FitsDefinition, EnumTags
    <3>10. t.id.kind = "OPTION" =>
             /\ t.id.name \in Names /\ Defs[t.id.name].enum = "OPTION"
             /\ Defs[t.id.name].arity = Len(t.subs)
      BY <3>4, <3>6, <3>8, <3>9
    <3>11. "ref" \in flags <=> HoldsReferences(StructureOf[t])
      <4>1. CASE e.tag = "OPTION"
        <5>1. "ref" \in OptionFlags(Resolve[Defs[e.name].enumType], SubsOf(r))
                <=> "ref" \in flags
          BY <3>1, <4>1 DEF FlagsFit
        <5>2. "ref" \in OptionFlags(Resolve[Defs[t.id.name].enumType], t.subs)
                <=> HoldsReferences(StructureOf[t])
          BY <1>3, <3>6, <3>7, <3>10, <4>1, OptionIsRight
        <5> QED BY <3>2, <3>4, <5>1, <5>2
      <4>2. CASE e.tag # "OPTION"
        <5>1. StructureOf[t].id = t.id
          BY <1>3, StructureParts
        <5>2. IsReference(t) <=> IsPlainReference(StructureOf[t])
          BY <1>2, <1>3, <3>6, <4>2, <5>1, ReferencesAgree
        <5>3. IsReference(t) <=> "ref" \in flags
          BY <3>3, LocalIsGeneric
        <5> QED BY <3>6, <4>2, <5>1, <5>2, <5>3 DEF HoldsReferences
      <4> QED BY <4>1, <4>2
    <3> HIDE DEF id
    <3>12. Right(t)
      BY <1>3, <3>3, <3>6, <3>7, <3>10, <3>11, MadeIsRight
    <3> QED BY <1>3, <3>12
  <2> QED BY <2>3, <2>4, <2>5
<1> QED
  BY <1>5, <1>6

--------------------------------------------------------------------------------
(* Substitution makes the instance, and its flags fit. *)

\* Without variables there is nothing to put in.
LEMMA ClosedStays ==
  ASSUME NEW structs
  PROVE  \A t \in Term : Right(t) /\ ~IsGeneric(t) =>
           Instance(StructureOf[t], structs) = StructureOf[t]
<1> DEFINE Good == {t \in Term : Right(t) /\ ~IsGeneric(t) =>
                      Instance(StructureOf[t], structs) = StructureOf[t]}
<1>1. ASSUME NEW t \in Term, \A i \in DOMAIN t.subs : t.subs[i] \in Good
      PROVE  t \in Good
  <2> SUFFICES ASSUME Right(t), ~IsGeneric(t)
               PROVE  Instance(StructureOf[t], structs) = StructureOf[t]
    OBVIOUS
  <2> DEFINE s == StructureOf[t]
  <2>1. Sound(t) /\ \A i \in DOMAIN t.subs : Right(t.subs[i])
    BY RightByParts
  <2>2. t.id.kind # "CLASS_TYPE_VAR" /\ \A i \in DOMAIN t.subs : ~IsGeneric(t.subs[i])
    BY <2>1 DEF Sound, VarTags
  <2>3. \A i \in DOMAIN t.subs : Instance(StructureOf[t.subs[i]], structs) = StructureOf[t.subs[i]]
    BY <1>1, <2>1, <2>2
  <2>4. /\ s.id = t.id /\ DOMAIN s.subs = DOMAIN t.subs
        /\ \A i \in DOMAIN t.subs : s.subs[i] = StructureOf[t.subs[i]]
        /\ s = Bare(t.id, [i \in DOMAIN t.subs |-> StructureOf[t.subs[i]]])
    BY StructureParts
  <2>5. s \in Term
    BY StructuresAreTerms
  <2> HIDE DEF s, Good
  <2>6. [i \in DOMAIN s.subs |-> Instance(s.subs[i], structs)]
          = [i \in DOMAIN t.subs |-> StructureOf[t.subs[i]]]
    BY <2>3, <2>4
  <2>7. Instance(s, structs) = s
    BY <2>2, <2>4, <2>5, <2>6, Instances
  <2> QED BY <2>7 DEF s
<1> HIDE DEF Good
<1>2. Term \subseteq Good
  BY <1>1, TermInduction
<1> QED
  BY <1>2 DEF Good

\* The instance of a term that is not a variable is made of those of its subterms.
LEMMA InstanceOfStructure ==
  ASSUME NEW structs, NEW t \in Term, t.id.kind # "CLASS_TYPE_VAR"
  PROVE  Instance(StructureOf[t], structs)
           = Bare(t.id, [i \in DOMAIN t.subs |-> Instance(StructureOf[t.subs[i]], structs)])
<1> DEFINE s == StructureOf[t]
<1>1. /\ s.id = t.id /\ DOMAIN s.subs = DOMAIN t.subs
      /\ \A i \in DOMAIN t.subs : s.subs[i] = StructureOf[t.subs[i]]
  BY StructureParts
<1>2. s \in Term
  BY StructuresAreTerms
<1> HIDE DEF s
<1>3. [i \in DOMAIN s.subs |-> Instance(s.subs[i], structs)]
        = [i \in DOMAIN t.subs |-> Instance(StructureOf[t.subs[i]], structs)]
  BY <1>1
<1>4. Instance(s, structs)
        = Bare(s.id, [i \in DOMAIN s.subs |-> Instance(s.subs[i], structs)])
  BY <1>1, <1>2, Instances
<1>5. Instance(s, structs)
        = Bare(t.id, [i \in DOMAIN t.subs |-> Instance(StructureOf[t.subs[i]], structs)])
  BY <1>1, <1>3, <1>4
<1> QED
  BY <1>5 DEF s

\* Other than of an option, the representation is known from the identifier.
LEMMA SameRepresentation ==
  ASSUME NEW t, NEW u, Right(t), Right(u), t.id = u.id, t.id.kind # "OPTION"
  PROVE  IsReference(t) <=> IsReference(u)
<1>1. t \in Term /\ u \in Term
  BY DEF Right
<1>2. Sound(t) /\ Sound(u)
  BY <1>1, RightByParts
<1>3. StructureOf[t].id = t.id /\ StructureOf[u].id = u.id
  BY <1>1, StructureParts
<1>4. HoldsReferences(StructureOf[t]) <=> HoldsReferences(StructureOf[u])
  BY <1>3 DEF HoldsReferences, IsPlainReference
<1> QED
  BY <1>2, <1>4 DEF Sound

\* An option that is nullable stays so when its variables are replaced.
LEMMA NullableStays ==
  ASSUME FilesAgree, NEW name \in Names, Defs[name].enum = "OPTION",
         NEW olds \in Seq(Term), Defs[name].arity = Len(olds), NEW news,
         \A i \in DOMAIN olds :
           /\ Right(olds[i]) /\ Right(news[i])
           /\ olds[i].id.kind # "CLASS_TYPE_VAR" => news[i].id = olds[i].id,
         "ref" \in OptionFlags(Resolve[Defs[name].enumType], olds)
  PROVE  "ref" \in OptionFlags(Resolve[Defs[name].enumType], news)
<1>1. PICK T : T = Resolve[Defs[name].enumType]
  OBVIOUS
<1>2. "ref" \in OptionFlags(T, olds)
  BY <1>1
<1>3. CASE T.id.kind = "CLASS_TYPE_VAR"
  <2>1. PICK k \in DOMAIN olds : k = T.id.num + 1
    BY <1>1, <1>3, VariableOfOption
  <2>2. \A subs : "ref" \in OptionFlags(T, subs)
                    <=> IsNullable(subs[k].id.kind) /\ IsReference(subs[k])
    BY <1>3, <2>1 DEF OptionFlags, Represented, IsNullable
  <2>3. IsNullable(olds[k].id.kind) /\ IsReference(olds[k])
    BY <1>2, <2>2
  <2>4. olds[k].id.kind # "CLASS_TYPE_VAR" /\ olds[k].id.kind # "OPTION"
    BY <2>3 DEF IsNullable
  <2>5. news[k].id = olds[k].id /\ Right(olds[k]) /\ Right(news[k])
    BY <2>1, <2>4
  <2>6. IsReference(news[k])
    BY <2>3, <2>4, <2>5, SameRepresentation
  <2>7. "ref" \in OptionFlags(T, news)
    BY <2>2, <2>3, <2>5, <2>6
  <2> QED BY <1>1, <2>7
<1>4. CASE T.id.kind # "CLASS_TYPE_VAR"
  <2>1. OptionFlags(T, olds) = OptionFlags(T, news)
    BY <1>4 DEF OptionFlags
  <2> QED BY <1>1, <1>2, <2>1
<1> QED
  BY <1>3, <1>4

\* The arguments are right, and have the structures that are put in.
Fits(t, args, structs) ==
  \A v \in Subterms[t] : v.id.kind = "CLASS_TYPE_VAR" =>
    /\ Right(args[v.id.num + 1])
    /\ StructureOf[args[v.id.num + 1]] = structs[v.id.num + 1]

\* The term at this depth is not put in a box.
Unboxed(t, d, boxes) ==
  boxes => d >= 2 \/ (d = 1 /\ t.id.kind # "CLASS_TYPE_VAR")

IsInstanceOf(u, t, structs) ==
  /\ Right(u) /\ StructureOf[u] = Instance(StructureOf[t], structs)
  /\ t.id.kind # "CLASS_TYPE_VAR" => u.id = t.id

\* The subterms are replaced by instances of them.
PartsReplaced(subs, t, structs) ==
  /\ DOMAIN subs = DOMAIN t.subs
  /\ \A i \in DOMAIN t.subs : IsInstanceOf(subs[i], t.subs[i], structs)

\* A term whose subterms were replaced by instances of them is an instance of it.
LEMMA RebuiltIsRight ==
  ASSUME FilesAgree, NEW structs, NEW t \in Term, Right(t),
         t.id.kind \notin VarTags, NEW subs, PartsReplaced(subs, t, structs),
         NEW u \in Term, u = Local(t.id, subs, FlagsAfter(t, subs))
  PROVE  IsInstanceOf(u, t, structs)
<1>0. /\ DOMAIN subs = DOMAIN t.subs
      /\ \A i \in DOMAIN t.subs :
           /\ Right(subs[i])
           /\ StructureOf[subs[i]] = Instance(StructureOf[t.subs[i]], structs)
           /\ t.subs[i].id.kind # "CLASS_TYPE_VAR" => subs[i].id = t.subs[i].id
  BY DEF PartsReplaced, IsInstanceOf
<1>1. u.id = t.id /\ u.subs = subs
  BY DEF Local
<1>2. StructureOf[u]
        = Bare(t.id, [i \in DOMAIN t.subs |-> Instance(StructureOf[t.subs[i]], structs)])
  <2>1. [i \in DOMAIN u.subs |-> StructureOf[u.subs[i]]]
          = [i \in DOMAIN t.subs |-> Instance(StructureOf[t.subs[i]], structs)]
    BY <1>0, <1>1
  <2> QED BY <1>1, <2>1, StructureParts
<1>3. Sound(t) /\ \A i \in DOMAIN t.subs : Right(t.subs[i])
  BY RightByParts
<1>4. t.subs \in Seq(Term) /\ subs \in Seq(Term)
  BY <1>1, TermParts DEF Over
<1>5. Len(subs) = Len(t.subs)
  BY <1>0, <1>4
<1>6. StructureOf[u].id = StructureOf[t].id /\ StructureOf[t].id = t.id
  BY <1>1, StructureParts
<1> DEFINE option == OptionFlags(Resolve[Defs[t.id.name].enumType], subs)
           flags == FlagsAfter(t, subs)
<1>7. "gen" \notin flags
  <2>1. "gen" \notin option
    BY DEF OptionFlags, Represented
  <2> HIDE DEF option
  <2> QED BY <2>1 DEF FlagsAfter, option
<1>8. "ref" \in flags <=> HoldsReferences(StructureOf[u])
  <2>1. CASE t.id.kind # "OPTION"
    <3>1. "ref" \in flags <=> "ref" \in t.flags
      BY <2>1 DEF FlagsAfter
    <3>2. HoldsReferences(StructureOf[u]) <=> HoldsReferences(StructureOf[t])
      BY <1>6, <2>1 DEF HoldsReferences, IsPlainReference
    <3> QED BY <1>3, <3>1, <3>2 DEF Sound, IsReference
  <2>2. CASE t.id.kind = "OPTION"
    <3>1. /\ t.id.name \in Names /\ Defs[t.id.name].enum = "OPTION"
          /\ Defs[t.id.name].arity = Len(t.subs)
      BY <1>3, <2>2 DEF Sound
    <3>2. "ref" \in flags <=> "ref" \in t.flags \/ "ref" \in option
      BY <2>2 DEF FlagsAfter
    <3>3. "ref" \in option <=> HoldsReferences(StructureOf[u])
      <4>1. \A i \in DOMAIN u.subs : Right(u.subs[i])
        BY <1>0, <1>1
      <4> HIDE DEF option
      <4>2. "ref" \in OptionFlags(Resolve[Defs[u.id.name].enumType], u.subs)
              <=> HoldsReferences(StructureOf[u])
        BY <1>1, <1>5, <2>2, <3>1, <4>1, OptionIsRight
      <4> QED BY <1>1, <4>2 DEF option
    <3>4. "ref" \in t.flags => "ref" \in option
      <4> SUFFICES ASSUME "ref" \in t.flags PROVE "ref" \in option
        OBVIOUS
      <4> HIDE DEF option
      <4>1. "ref" \in OptionFlags(Resolve[Defs[t.id.name].enumType], t.subs)
        BY <1>3, <2>2, <3>1, OptionIsRight DEF Sound, IsReference
      <4>2. \A i \in DOMAIN t.subs :
              /\ Right(t.subs[i]) /\ Right(subs[i])
              /\ t.subs[i].id.kind # "CLASS_TYPE_VAR" => subs[i].id = t.subs[i].id
        BY <1>0, <1>3
      <4> QED BY <1>4, <3>1, <4>1, <4>2, NullableStays DEF option
    <3> HIDE DEF option, flags
    <3> QED BY <3>2, <3>3, <3>4
  <2> QED BY <2>1, <2>2
<1>9. u.id.kind = "OPTION" =>
        /\ u.id.name \in Names /\ Defs[u.id.name].enum = "OPTION"
        /\ Defs[u.id.name].arity = Len(u.subs)
  BY <1>1, <1>3, <1>5 DEF Sound
<1>10. u = Local(u.id, u.subs, flags) /\ u.id.kind \notin VarTags
  BY <1>1
<1>11. \A i \in DOMAIN u.subs : Right(u.subs[i])
  BY <1>0, <1>1
<1> HIDE DEF flags
<1>12. Right(u)
  BY <1>7, <1>8, <1>9, <1>10, <1>11, MadeIsRight
<1>13. Instance(StructureOf[t], structs)
        = Bare(t.id, [i \in DOMAIN t.subs |-> Instance(StructureOf[t.subs[i]], structs)])
  BY InstanceOfStructure DEF VarTags
<1> QED
  BY <1>1, <1>2, <1>12, <1>13 DEF IsInstanceOf

LEMMA SubstitutedIsRight ==
  ASSUME FilesAgree, NEW args, NEW structs, NEW boxes
  PROVE  \A t \in Term : Right(t) /\ Fits(t, args, structs) =>
           \A d \in Nat : LET u == Substitution(args, boxes)[<<t, d>>]
                          IN  u \in Term /\ Unboxed(t, d, boxes) => IsInstanceOf(u, t, structs)
<1> DEFINE sub(t, d) == Substitution(args, boxes)[<<t, d>>]
           Good == {t \in Term : Right(t) /\ Fits(t, args, structs) =>
                      \A d \in Nat : sub(t, d) \in Term /\ Unboxed(t, d, boxes)
                                       => IsInstanceOf(sub(t, d), t, structs)}
<1>1. ASSUME NEW t \in Term, \A i \in DOMAIN t.subs : t.subs[i] \in Good
      PROVE  t \in Good
  <2> SUFFICES ASSUME Right(t), Fits(t, args, structs), NEW d \in Nat,
                      sub(t, d) \in Term, Unboxed(t, d, boxes)
               PROVE  IsInstanceOf(sub(t, d), t, structs)
    OBVIOUS
  <2>1. PICK u : u = sub(t, d)
    OBVIOUS
  <2>2. u = SubstituteBy(Substitution(args, boxes), t, d, args, boxes)
    BY <2>1, Substitutions
  <2>3. Sound(t) /\ \A i \in DOMAIN t.subs : Right(t.subs[i])
    BY RightByParts
  <2>4. Subterms[t] = {t} \cup UNION {Subterms[t.subs[i]] : i \in DOMAIN t.subs}
    BY SubtermsOfParts DEF SubtermsBy
  <2>5. u \in Term
    BY <2>1
  <2>6. CASE ~IsGeneric(t)
    <3>1. u = t
      BY <2>2, <2>6 DEF SubstituteBy
    <3>2. Instance(StructureOf[t], structs) = StructureOf[t]
      BY <2>6, ClosedStays
    <3>3. IsInstanceOf(u, t, structs)
      BY <3>1, <3>2 DEF IsInstanceOf
    <3> QED BY <2>1, <3>3
  <2>7. CASE t.id.kind = "FUNC_TYPE_VAR"
    <3>1. u = t
      BY <2>2, <2>7 DEF SubstituteBy
    <3>2. DOMAIN t.subs = {}
      BY <2>3, <2>7 DEF Sound, VarTags
    <3>3. Instance(StructureOf[t], structs)
            = Bare(t.id, [i \in DOMAIN t.subs |-> Instance(StructureOf[t.subs[i]], structs)])
      BY <2>7, InstanceOfStructure
    <3>4. StructureOf[t] = Bare(t.id, [i \in DOMAIN t.subs |-> StructureOf[t.subs[i]]])
      BY StructureParts
    <3>5. [i \in DOMAIN t.subs |-> Instance(StructureOf[t.subs[i]], structs)]
            = [i \in DOMAIN t.subs |-> StructureOf[t.subs[i]]]
      BY <3>2
    <3>6. IsInstanceOf(u, t, structs)
      BY <3>1, <3>3, <3>4, <3>5 DEF IsInstanceOf
    <3> QED BY <2>1, <3>6
  <2>8. CASE IsGeneric(t) /\ t.id.kind = "CLASS_TYPE_VAR"
    <3> DEFINE k == t.id.num + 1
    <3>1. u = SubstituteClassTv(args[k], boxes, d)
      BY <2>2, <2>8 DEF SubstituteBy
    <3>2. boxes => d # 1
      BY <2>8 DEF Unboxed
    <3>3. u = args[k]
      BY <3>1, <3>2 DEF SubstituteClassTv
    <3>4. Right(args[k]) /\ StructureOf[args[k]] = structs[k]
      BY <2>4, <2>8 DEF Fits
    <3>5. Instance(StructureOf[t], structs) = structs[k]
      <4>1. StructureOf[t] \in Term /\ StructureOf[t].id = t.id
        BY StructuresAreTerms, StructureParts
      <4> QED BY <2>8, <4>1, Instances
    <3>6. IsInstanceOf(u, t, structs)
      BY <2>8, <3>3, <3>4, <3>5 DEF IsInstanceOf
    <3> QED BY <2>1, <3>6
  <2>9. CASE IsGeneric(t) /\ t.id.kind \notin VarTags
    <3> DEFINE subs == [i \in DOMAIN t.subs |-> sub(t.subs[i], d + 1)]
    <3>1. u = Local(t.id, subs, FlagsAfter(t, subs))
      BY <2>2, <2>9 DEF SubstituteBy, VarTags
    <3>2. ASSUME NEW i \in DOMAIN t.subs
          PROVE  IsInstanceOf(subs[i], t.subs[i], structs)
      <4>1. Fits(t.subs[i], args, structs)
        BY <2>4 DEF Fits
      <4>2. u.subs = subs
        <5> HIDE DEF subs
        <5> QED BY <3>1 DEF Local
      <4>3. subs[i] \in Term
        <5>1. u.subs[i] \in Term
          <6>1. i \in DOMAIN u.subs
            BY <4>2
          <6> QED BY <2>5, <6>1, TermParts
        <5> HIDE DEF subs
        <5> QED BY <4>2, <5>1
      <4>4. Unboxed(t.subs[i], d + 1, boxes)
        <5>1. boxes => d >= 1
          BY DEF Unboxed
        <5>2. boxes => d + 1 >= 2
          BY <5>1
        <5> QED BY <5>2 DEF Unboxed
      <4>5. t.subs[i] \in Good /\ d + 1 \in Nat /\ Right(t.subs[i])
        BY <1>1, <2>3
      <4>6. subs[i] = sub(t.subs[i], d + 1)
        OBVIOUS
      <4> HIDE DEF subs, sub
      <4>7. sub(t.subs[i], d + 1) \in Term
        BY <4>3, <4>6
      <4>8. IsInstanceOf(sub(t.subs[i], d + 1), t.subs[i], structs)
        BY <4>1, <4>4, <4>5, <4>7
      <4> QED BY <4>6, <4>8
    <3>3. DOMAIN subs = DOMAIN t.subs
      OBVIOUS
    <3> HIDE DEF subs
    <3>4. PartsReplaced(subs, t, structs)
      BY <3>2, <3>3 DEF PartsReplaced
    <3> HIDE DEF Good, sub
    <3>5. IsInstanceOf(u, t, structs)
      BY <2>5, <2>9, <3>1, <3>4, RebuiltIsRight
    <3> QED BY <2>1, <3>5
  <2> QED BY <2>6, <2>7, <2>8, <2>9 DEF VarTags
<1> HIDE DEF Good
<1>2. Term \subseteq Good
  BY <1>1, TermInduction
<1> QED
  BY <1>2 DEF Good

LEMMA LocalParts ==
  \A id, subs, flags, u : u = Local(id, subs, flags) => u.id = id /\ u.subs = subs
BY DEF Local

LEMMA BoxParts ==
  ASSUME NEW a, NEW u, u = Local(TagId("BOX"), <<a>>, {"ref"})
  PROVE  /\ u.id = TagId("BOX") /\ u.id.kind = "BOX"
         /\ u.subs = <<a>> /\ DOMAIN u.subs = {1} /\ u.subs[1] = a
<1>1. PICK id, subs, flags : id = TagId("BOX") /\ subs = <<a>> /\ flags = {"ref"}
  OBVIOUS
<1>2. u = Local(id, subs, flags)
  BY <1>1
<1>3. u.id = id /\ u.subs = subs
  BY <1>2, LocalParts
<1>4. id.kind = "BOX"
  BY <1>1 DEF TagId, Id
<1>5. DOMAIN subs = {1} /\ subs[1] = a
  <2>1. DOMAIN <<a>> = 1..1 /\ 1..1 = {1} /\ <<a>>[1] = a
    OBVIOUS
  <2> QED BY <1>1, <2>1
<1> QED
  BY <1>1, <1>3, <1>4, <1>5

\* In a signature, variables are boxed.
Boxing == TRUE

\* What a variable of a signature is replaced by.
LEMMA BoxedIsRight ==
  ASSUME NEW a, Right(a), NEW u \in Term, u = SubstituteClassTv(a, Boxing, 1)
  PROVE  Right(u) /\ StructureOf[u] = BoxedAs(StructureOf[a])
<1>1. a \in Term /\ Sound(a)
  <2>1. a \in Term
    BY DEF Right
  <2> QED BY <2>1, RightByParts
<1>2. CASE IsReference(a)
  <2>1. u = a
    BY <1>2 DEF SubstituteClassTv, Boxing
  <2>2. BoxedAs(StructureOf[a]) = StructureOf[a]
    BY <1>1, <1>2 DEF Sound, BoxedAs
  <2> QED BY <2>1, <2>2
<1>3. CASE ~IsReference(a)
  <2>1. u = Local(TagId("BOX"), <<a>>, {"ref"})
    BY <1>3 DEF SubstituteClassTv, Boxing
  <2>2. /\ u.id = TagId("BOX") /\ u.id.kind = "BOX"
        /\ u.subs = <<a>> /\ DOMAIN u.subs = {1} /\ u.subs[1] = a
    BY <2>1, BoxParts
  <2>4. BoxedAs(StructureOf[a]) = Bare(TagId("BOX"), <<StructureOf[a]>>)
    BY <1>1, <1>3 DEF Sound, BoxedAs
  <2>5. StructureOf[u] = Bare(TagId("BOX"), <<StructureOf[a]>>)
    <3>1. [i \in DOMAIN u.subs |-> StructureOf[u.subs[i]]] = <<StructureOf[a]>>
      <4>1. PICK b : b = StructureOf[a]
        OBVIOUS
      <4>2. <<b>> = [i \in {1} |-> b]
        OBVIOUS
      <4>3. [i \in DOMAIN u.subs |-> StructureOf[u.subs[i]]] = [i \in {1} |-> b]
        BY <2>2, <4>1
      <4> QED BY <4>1, <4>2, <4>3
    <3> QED BY <2>2, <3>1, StructureParts
  <2>6. HoldsReferences(StructureOf[u])
    <3>1. StructureOf[u].id.kind = "BOX"
      BY <2>2, StructureParts
    <3> QED BY <3>1 DEF HoldsReferences, IsPlainReference
  <2>7. u = Local(u.id, u.subs, {"ref"}) /\ "gen" \notin {"ref"}
    BY <2>1, <2>2
  <2>8. \A i \in DOMAIN u.subs : Right(u.subs[i])
    BY <2>2
  <2>9. u.id.kind \notin VarTags /\ u.id.kind # "OPTION"
    BY <2>2 DEF VarTags
  <2>10. Right(u)
    BY <2>6, <2>7, <2>8, <2>9, MadeIsRight
  <2> QED BY <2>4, <2>5, <2>10
<1> QED
  BY <1>2, <1>3

\* The signature of a method in the context of a type.
LEMMA SignatureIsRight ==
  ASSUME FilesAgree, NEW args, NEW structs,
         NEW t \in Term, Right(t), IsGeneric(t), t.id.kind = "FUNCTIONAL",
         Fits(t, args, structs),
         NEW u \in Term, u = Substitution(args, Boxing)[<<t, 0>>]
  PROVE  Right(u) /\ StructureOf[u] = SignatureInstance(StructureOf[t], structs)
<1> DEFINE sub(v) == Substitution(args, Boxing)[<<v, 1>>]
           subs == [i \in DOMAIN t.subs |-> sub(t.subs[i])]
           flags == FlagsAfter(t, subs)
           s == StructureOf[t]
           put(i) == IF s.subs[i].id.kind = "CLASS_TYPE_VAR"
                     THEN BoxedAs(Instance(s.subs[i], structs))
                     ELSE Instance(s.subs[i], structs)
<1>1. u = Local(t.id, subs, flags)
  <2>1. u = SubstituteBy(Substitution(args, Boxing), t, 0, args, Boxing)
    BY Substitutions
  <2>2. 0 + 1 = 1
    OBVIOUS
  <2> QED BY <2>1, <2>2 DEF SubstituteBy
<1>2. u.id = t.id /\ u.subs = subs /\ DOMAIN subs = DOMAIN t.subs
  <2>1. DOMAIN subs = DOMAIN t.subs
    OBVIOUS
  <2> HIDE DEF flags, subs, put, s
  <2>2. u.id = t.id /\ u.subs = subs
    BY <1>1, LocalParts
  <2> QED BY <2>1, <2>2
<1>3. Sound(t) /\ \A i \in DOMAIN t.subs : Right(t.subs[i])
  BY RightByParts
<1>4. Subterms[t] = {t} \cup UNION {Subterms[t.subs[i]] : i \in DOMAIN t.subs}
  BY SubtermsOfParts DEF SubtermsBy
<1>5. /\ s.id = t.id /\ DOMAIN s.subs = DOMAIN t.subs
      /\ \A i \in DOMAIN t.subs : s.subs[i] = StructureOf[t.subs[i]]
  BY StructureParts
<1>6. ASSUME NEW i \in DOMAIN t.subs
      PROVE  Right(subs[i]) /\ StructureOf[subs[i]] = put(i)
  <2>1. PICK v : v = t.subs[i]
    OBVIOUS
  <2>2. PICK w : w = subs[i]
    OBVIOUS
  <2>3. v \in Term /\ Right(v) /\ Fits(v, args, structs)
    BY <1>3, <1>4, <2>1, TermParts DEF Fits
  <2>4. w \in Term
    <3>1. i \in DOMAIN u.subs /\ u.subs[i] = w
      BY <1>2, <2>2
    <3> QED BY <3>1, TermParts
  <2>5. w = Substitution(args, Boxing)[<<v, 1>>]
    BY <2>1, <2>2
  <2>6. s.subs[i] = StructureOf[v] /\ StructureOf[v].id = v.id /\ StructureOf[v] \in Term
    BY <1>5, <2>1, <2>3, StructureParts, StructuresAreTerms
  <2>7. CASE v.id.kind = "CLASS_TYPE_VAR"
    <3> DEFINE a == args[v.id.num + 1]
    <3>1. Right(a) /\ StructureOf[a] = structs[v.id.num + 1]
      <4>1. v \in Subterms[v]
        BY <2>3, SubtermsAreTerms
      <4> QED BY <2>3, <2>7, <4>1 DEF Fits
    <3>2. IsGeneric(v)
      BY <2>3, <2>7, RightByParts DEF Sound, VarTags
    <3>3. w = SubstituteClassTv(a, Boxing, 1)
      <4>1. w = SubstituteBy(Substitution(args, Boxing), v, 1, args, Boxing)
        BY <2>3, <2>5, Substitutions
      <4> QED BY <2>7, <3>2, <4>1 DEF SubstituteBy
    <3>4. Instance(StructureOf[v], structs) = StructureOf[a]
      BY <2>6, <2>7, <3>1, Instances
    <3> HIDE DEF a
    <3>5. Right(w) /\ StructureOf[w] = BoxedAs(StructureOf[a])
      BY <2>4, <3>1, <3>3, BoxedIsRight
    <3>6. put(i) = BoxedAs(StructureOf[a])
      BY <2>6, <2>7, <3>4
    <3> HIDE DEF s, subs
    <3> QED BY <2>2, <3>5, <3>6
  <2>8. CASE v.id.kind # "CLASS_TYPE_VAR"
    <3>1. Unboxed(v, 1, Boxing)
      BY <2>8 DEF Unboxed, Boxing
    <3>2. IsInstanceOf(w, v, structs)
      BY <2>3, <2>4, <2>5, <3>1, SubstitutedIsRight
    <3>3. Right(w) /\ StructureOf[w] = Instance(StructureOf[v], structs)
      BY <3>2 DEF IsInstanceOf
    <3>4. put(i) = Instance(StructureOf[v], structs)
      BY <2>6, <2>8
    <3> HIDE DEF s, subs
    <3> QED BY <2>2, <3>3, <3>4
  <2> QED BY <2>7, <2>8
<1> HIDE DEF subs
<1>7. StructureOf[u] = SignatureInstance(s, structs)
  <2>1. [i \in DOMAIN u.subs |-> StructureOf[u.subs[i]]] = [i \in DOMAIN s.subs |-> put(i)]
    <3> HIDE DEF put, s
    <3> QED BY <1>2, <1>5, <1>6
  <2>2. StructureOf[u] = Bare(t.id, [i \in DOMAIN s.subs |-> put(i)])
    <3> HIDE DEF put, s
    <3> QED BY <1>2, <2>1, StructureParts
  <2>3. SignatureInstance(s, structs) = Bare(s.id, [i \in DOMAIN s.subs |-> put(i)])
    BY DEF SignatureInstance
  <2> HIDE DEF put, s
  <2> QED BY <1>5, <2>2, <2>3
<1>8. "gen" \notin flags /\ ("ref" \in flags <=> "ref" \in t.flags)
  BY DEF FlagsAfter
<1>9. "ref" \in flags <=> HoldsReferences(StructureOf[u])
  <2>1. StructureOf[u].id = s.id
    BY <1>2, <1>5, StructureParts
  <2>2. HoldsReferences(StructureOf[u]) <=> HoldsReferences(s)
    <3> HIDE DEF s
    <3>1. s.id.kind # "OPTION"
      BY <1>5
    <3> QED BY <2>1, <3>1 DEF HoldsReferences, IsPlainReference
  <2> HIDE DEF flags
  <2> QED BY <1>3, <1>8, <2>2 DEF Sound, IsReference
<1>10. u = Local(u.id, u.subs, flags) /\ u.id.kind \notin VarTags /\ u.id.kind # "OPTION"
  BY <1>1, <1>2 DEF VarTags
<1>11. \A i \in DOMAIN u.subs : Right(u.subs[i])
  BY <1>2, <1>6
<1>12. Right(u)
  <2> HIDE DEF flags
  <2> QED BY <1>8, <1>9, <1>10, <1>11, MadeIsRight
<1> QED
  BY <1>7, <1>12 DEF s

--------------------------------------------------------------------------------
(* Interning does not change what a term says. *)

\* Being generic is known from the structure.
LEMMA GenericByStructure ==
  \A t, u \in Term : Right(t) /\ Right(u) /\ StructureOf[t] = StructureOf[u] =>
    (IsGeneric(t) <=> IsGeneric(u))
<1> DEFINE Good == {t \in Term : \A u \in Term :
                      Right(t) /\ Right(u) /\ StructureOf[t] = StructureOf[u] =>
                        (IsGeneric(t) <=> IsGeneric(u))}
<1>1. ASSUME NEW t \in Term, \A i \in DOMAIN t.subs : t.subs[i] \in Good
      PROVE  t \in Good
  <2> SUFFICES ASSUME NEW u \in Term, Right(t), Right(u), StructureOf[t] = StructureOf[u]
               PROVE  IsGeneric(t) <=> IsGeneric(u)
    OBVIOUS
  <2>1. /\ Sound(t) /\ \A i \in DOMAIN t.subs : Right(t.subs[i])
        /\ Sound(u) /\ \A i \in DOMAIN u.subs : Right(u.subs[i])
    BY RightByParts
  <2>2. /\ t.id = u.id /\ DOMAIN t.subs = DOMAIN u.subs
        /\ \A i \in DOMAIN t.subs : StructureOf[t.subs[i]] = StructureOf[u.subs[i]]
    <3>1. /\ StructureOf[t].id = t.id /\ StructureOf[u].id = u.id
          /\ DOMAIN StructureOf[t].subs = DOMAIN t.subs
          /\ DOMAIN StructureOf[u].subs = DOMAIN u.subs
          /\ \A i \in DOMAIN t.subs : StructureOf[t].subs[i] = StructureOf[t.subs[i]]
          /\ \A i \in DOMAIN u.subs : StructureOf[u].subs[i] = StructureOf[u.subs[i]]
      BY StructureParts
    <3> QED BY <3>1
  <2>3. \A i \in DOMAIN t.subs : IsGeneric(t.subs[i]) <=> IsGeneric(u.subs[i])
    BY <1>1, <2>1, <2>2, TermParts
  <2> QED BY <2>1, <2>2, <2>3 DEF Sound
<1> HIDE DEF Good
<1>2. Term \subseteq Good
  BY <1>1, TermInduction
<1> QED
  BY <1>2 DEF Good

\* A term is generic when it has variables.
LEMMA GenericHasVariables ==
  \A t \in Term : Right(t) =>
    (IsGeneric(t) <=> \E u \in Subterms[t] : u.id.kind \in VarTags)
<1> DEFINE Good == {t \in Term : Right(t) =>
                      (IsGeneric(t) <=> \E u \in Subterms[t] : u.id.kind \in VarTags)}
<1>1. ASSUME NEW t \in Term, \A i \in DOMAIN t.subs : t.subs[i] \in Good
      PROVE  t \in Good
  <2> SUFFICES ASSUME Right(t)
               PROVE  IsGeneric(t) <=> \E u \in Subterms[t] : u.id.kind \in VarTags
    OBVIOUS
  <2>1. Sound(t) /\ \A i \in DOMAIN t.subs : Right(t.subs[i])
    BY RightByParts
  <2>2. Subterms[t] = {t} \cup UNION {Subterms[t.subs[i]] : i \in DOMAIN t.subs}
    BY SubtermsOfParts DEF SubtermsBy
  <2>3. \A i \in DOMAIN t.subs :
          IsGeneric(t.subs[i]) <=> \E u \in Subterms[t.subs[i]] : u.id.kind \in VarTags
    BY <1>1, <2>1
  <2>4. (\E u \in Subterms[t] : u.id.kind \in VarTags)
          <=> \/ t.id.kind \in VarTags
              \/ \E i \in DOMAIN t.subs : \E u \in Subterms[t.subs[i]] : u.id.kind \in VarTags
    BY <2>2
  <2> QED BY <2>1, <2>3, <2>4 DEF Sound
<1> HIDE DEF Good
<1>2. Term \subseteq Good
  BY <1>1, TermInduction
<1> QED
  BY <1>2 DEF Good

\* The table's term for a term, and the copy that is put into it.
LEMMA CopyIsRight ==
  ASSUME NEW t \in Term, Right(t), NEW g \in Term, g.id = t.id, g.subs = t.subs,
         g.flags = t.flags \/ Right(g)
  PROVE  Right(g) /\ StructureOf[g] = StructureOf[t]
<1>1. StructureOf[g] = StructureOf[t]
  BY StructureParts
<1>2. CASE g.flags = t.flags
  <2>1. Sound(t) /\ \A i \in DOMAIN t.subs : Right(t.subs[i])
    BY RightByParts
  <2>2. (IsReference(g) <=> IsReference(t)) /\ (IsGeneric(g) <=> IsGeneric(t))
    BY <1>2 DEF IsReference, IsGeneric
  <2>3. Sound(g)
    BY <1>1, <2>1, <2>2 DEF Sound
  <2> QED BY <1>1, <2>1, <2>3, RightByParts
<1> QED
  BY <1>1, <1>2

LEMMA PutIsRight ==
  ASSUME NEW g \in Term, Right(g)
  PROVE  \A t \in Term :
           Right(t) /\ g.subs = Innermost(t).subs /\ StructureOf[g] = StructureOf[Innermost(t)] =>
             Right(PutInnermost(t, g)) /\ StructureOf[PutInnermost(t, g)] = StructureOf[t]
<1> DEFINE Good == {t \in Term :
           Right(t) /\ g.subs = Innermost(t).subs /\ StructureOf[g] = StructureOf[Innermost(t)] =>
             Right(PutInnermost(t, g)) /\ StructureOf[PutInnermost(t, g)] = StructureOf[t]}
<1>1. ASSUME NEW t \in Term, \A i \in DOMAIN t.subs : t.subs[i] \in Good
      PROVE  t \in Good
  <2> SUFFICES ASSUME Right(t), g.subs = Innermost(t).subs,
                      StructureOf[g] = StructureOf[Innermost(t)]
               PROVE  Right(PutInnermost(t, g))
                        /\ StructureOf[PutInnermost(t, g)] = StructureOf[t]
    OBVIOUS
  <2>1. CASE LocalSubterms(t) = {}
    <3>1. PutInnermost(t, g) = g
      BY <2>1, Puts
    <3>2. Innermost(t) = t
      BY <2>1, Innermosts DEF Innermost, InnermostBy
    <3> QED BY <3>1, <3>2
  <2>2. CASE LocalSubterms(t) # {}
    <3>1. PICK k \in DOMAIN t.subs : k = Leftmost(t)
      BY <2>2, LeftmostIsOne DEF LocalSubterms
    <3>2. PICK p : p = PutInnermost(t, g)
      OBVIOUS
    <3>3. PICK s : s = PutInnermost(t.subs[k], g)
      OBVIOUS
    <3>4. Innermost(t) = Innermost(t.subs[k])
      BY <2>2, <3>1, Innermosts DEF Innermost, InnermostBy
    <3>5. Sound(t) /\ \A i \in DOMAIN t.subs : Right(t.subs[i]) /\ t.subs[i] \in Term
      BY RightByParts, TermParts
    <3>6. Right(s) /\ StructureOf[s] = StructureOf[t.subs[k]]
      BY <1>1, <3>1, <3>3, <3>4, <3>5
    <3>7. p = [t EXCEPT !.subs[k] = s]
      BY <2>2, <3>1, <3>2, <3>3, Puts
    <3>8. p \in Term
      BY <3>2, PutIsTerm
    <3>9. t \in Over(Term)
      BY TermParts
    <3>10. /\ p.id = t.id /\ p.flags = t.flags
           /\ DOMAIN p.subs = DOMAIN t.subs
           /\ \A i \in DOMAIN t.subs : p.subs[i] = IF i = k THEN s ELSE t.subs[i]
      BY <3>7, <3>9 DEF Over
    <3>11. Len(p.subs) = Len(t.subs)
      <4>1. p.subs \in Seq(Term) /\ t.subs \in Seq(Term)
        BY <3>8, TermParts DEF Over
      <4> QED BY <3>10, <4>1
    <3>12. s \in Term
      BY <3>6 DEF Right
    <3>13. StructureOf[p] = StructureOf[t]
      <4>1. [i \in DOMAIN p.subs |-> StructureOf[p.subs[i]]]
              = [i \in DOMAIN t.subs |-> StructureOf[t.subs[i]]]
        BY <3>6, <3>10
      <4>2. StructureOf[p] = Bare(p.id, [i \in DOMAIN p.subs |-> StructureOf[p.subs[i]]])
        BY <3>8, StructureParts
      <4>3. StructureOf[t] = Bare(t.id, [i \in DOMAIN t.subs |-> StructureOf[t.subs[i]]])
        BY StructureParts
      <4> QED BY <3>10, <4>1, <4>2, <4>3
    <3>14. \A i \in DOMAIN t.subs : IsGeneric(p.subs[i]) <=> IsGeneric(t.subs[i])
      <4>1. IsGeneric(s) <=> IsGeneric(t.subs[k])
        BY <3>5, <3>6, <3>12, GenericByStructure
      <4> QED BY <3>10, <4>1
    <3>15. (IsReference(p) <=> IsReference(t)) /\ (IsGeneric(p) <=> IsGeneric(t))
      BY <3>10 DEF IsReference, IsGeneric
    <3>16. Sound(p)
      BY <3>5, <3>10, <3>11, <3>13, <3>14, <3>15 DEF Sound
    <3>17. \A i \in DOMAIN p.subs : Right(p.subs[i])
      BY <3>5, <3>6, <3>10
    <3>18. Right(p)
      BY <3>8, <3>16, <3>17, RightByParts
    <3> QED BY <3>2, <3>13, <3>18
  <2> QED BY <2>1, <2>2
<1> HIDE DEF Good
<1>2. Term \subseteq Good
  BY <1>1, TermInduction
<1> QED
  BY <1>2 DEF Good

--------------------------------------------------------------------------------
(* Whatever the sessions do, their terms stay right. *)

RightEntry(e) == Right(e.term) /\ StructureOf[e.term] = e.is

InductiveRight ==
  /\ Inductive
  /\ \A g \in interned : Right(g)
  /\ \A th \in Threads : \A e \in held[th] : RightEntry(e)
  /\ \A th \in Threads : walk[th] # None => RightEntry(walk[th])

\* A session gets a right term, and nothing else changes.
LEMMA HoldKeepsRight ==
  ASSUME InductiveRight, NEW th \in Threads, NEW t, NEW s, Hold(th, Entry(t, s)),
         t \in Term => Right(t) /\ StructureOf[t] = s,
         UNCHANGED <<walk, interned>>, Inductive'
  PROVE  InductiveRight'
<1> DEFINE e == Entry(t, s)
<1>1. e.term \in Term /\ held' = [held EXCEPT ![th] = @ \cup {e}]
  BY DEF Hold
<1>2. e.term = t /\ e.is = s
  BY DEF Entry
<1> HIDE DEF e
<1>3. RightEntry(e)
  BY <1>1, <1>2 DEF RightEntry
<1>4. \A o \in Threads : \A f \in held'[o] : f \in held[o] \/ f = e
  BY <1>1 DEF InductiveRight, Inductive
<1> QED
  BY <1>3, <1>4 DEF InductiveRight

\* The arguments of a type are right, and have the structures of its own.
LEMMA ArgumentsFit ==
  ASSUME NEW t \in Term, NEW o, Right(o.term), StructureOf[o.term] = o.is,
         \A v \in Subterms[t] : v.id.kind = "CLASS_TYPE_VAR" => v.id.num < Len(o.term.subs)
  PROVE  Fits(t, o.term.subs, o.is.subs)
<1>1. o.term \in Term
  BY DEF Right
<1>2. o.term.subs \in Seq(Term)
  BY <1>1, TermParts DEF Over
<1>3. ASSUME NEW v \in Subterms[t], v.id.kind = "CLASS_TYPE_VAR"
      PROVE  v.id.num + 1 \in DOMAIN o.term.subs
  <2>1. v.id.num < Len(o.term.subs)
    BY <1>3
  <2>2. v \in Over(Term)
    BY SubtermsAreTerms, TermParts
  <2>3. v.id.num \in Nat
    BY <2>2 DEF Over, Ids
  <2>4. \A q \in Seq(Term) : \A n \in Nat : n < Len(q) => n + 1 \in DOMAIN q
    OBVIOUS
  <2> QED BY <1>2, <2>1, <2>3, <2>4
<1>4. \A i \in DOMAIN o.term.subs :
        Right(o.term.subs[i]) /\ StructureOf[o.term.subs[i]] = o.is.subs[i]
  <2>1. \A i \in DOMAIN o.term.subs : Right(o.term.subs[i])
    BY <1>1, RightByParts
  <2>2. \A i \in DOMAIN o.term.subs :
          StructureOf[o.term].subs[i] = StructureOf[o.term.subs[i]]
    BY <1>1, StructureParts
  <2> QED BY <2>1, <2>2
<1> QED
  BY <1>3, <1>4 DEF Fits

LEMMA ResolvedIsRightEntry ==
  ASSUME FilesAgree, NEW R, R \subseteq Asked \cup Members \cup Signatures, NEW e \in Resolved(R)
  PROVE  RightEntry(e)
<1>1. PICK ref \in R : e = Entry(Resolve[ref], Denoted[ref])
  BY DEF Resolved
<1>2. ref \in Refs /\ Resolve[ref] \in Term
  BY BoundsAssumption
<1>3. Right(Resolve[ref]) /\ StructureOf[Resolve[ref]] = Denoted[ref]
  BY <1>2, ResolvedIsRight, StructuresAgree
<1> QED
  BY <1>1, <1>3 DEF RightEntry, Entry

\* The signatures are those of methods.
LEMMA ResolvedSignature ==
  ASSUME FilesAgree, NEW e \in ResolvedSignatures, ~IsUndefined(e.term)
  PROVE  e.term.id.kind = "FUNCTIONAL"
<1>1. PICK ref \in Signatures : e = Entry(Resolve[ref], Denoted[ref])
  BY DEF ResolvedSignatures, Resolved
<1>2. e.term = Resolve[ref]
  BY <1>1 DEF Entry
<1>3. ref \in DOMAIN Pool /\ Pool[ref].tag = "FUNCTIONAL"
  BY BoundsAssumption
<1>4. IsEntry(ref, e.term)
  BY <1>2, <1>3, EntriesAre
<1>5. CASE ~IsDefined(ref)
  <2>1. e.term = Undefined(ref)
    BY <1>3, <1>4, <1>5 DEF IsEntry, VarTags
  <2> QED BY <2>1, UndefinedIsUndefined
<1>6. CASE IsDefined(ref)
  <2>1. PICK id : id = Id(KindOf(Pool[ref]), Pool[ref].name, Pool[ref].num)
    OBVIOUS
  <2>2. \E flags : e.term = Local(id, SubsOf(ref), flags)
    BY <1>3, <1>4, <1>6, <2>1 DEF IsEntry, VarTags
  <2>3. e.term.id = id
    BY <2>2, LocalParts
  <2>4. KindOf(Pool[ref]) = "FUNCTIONAL"
    BY <1>3 DEF KindOf, DefTags, AotTags
  <2> QED BY <2>1, <2>3, <2>4 DEF Id
<1> QED
  BY <1>5, <1>6

LEMMA SubstituteTermKeepsRight ==
  ASSUME FilesAgree, InductiveRight, NEW th \in Threads, NEW o \in held[th], NEW e,
         RightEntry(e), SubstituteTerm(th, e, o), Inductive'
  PROVE  InductiveRight'
<1> DEFINE u == Substitute(e.term, o.term.subs, FALSE)
           s == Instance(e.is, o.is.subs)
<1>1. Substitutable(e, o) /\ Hold(th, Entry(u, s)) /\ UNCHANGED <<walk, interned>>
  BY DEF SubstituteTerm
<1>2. RightEntry(o)
  BY DEF InductiveRight
<1>3. e.term \in Term /\ Right(e.term) /\ StructureOf[e.term] = e.is
  BY DEF RightEntry, Right
<1>4. Fits(e.term, o.term.subs, o.is.subs)
  BY <1>1, <1>2, <1>3, ArgumentsFit DEF RightEntry, Substitutable
<1>5. u \in Term => Right(u) /\ StructureOf[u] = s
  <2>1. PICK boxes : boxes = FALSE
    OBVIOUS
  <2>2. u = Substitution(o.term.subs, boxes)[<<e.term, 0>>]
    BY <2>1 DEF Substitute
  <2>3. Unboxed(e.term, 0, boxes) /\ 0 \in Nat
    BY <2>1 DEF Unboxed
  <2> HIDE DEF u
  <2>4. u \in Term => IsInstanceOf(u, e.term, o.is.subs)
    BY <1>3, <1>4, <2>2, <2>3, SubstitutedIsRight
  <2> QED BY <1>3, <2>4 DEF IsInstanceOf
<1> HIDE DEF u, s
<1> QED
  BY <1>1, <1>5, HoldKeepsRight

LEMMA SubstituteSignatureKeepsRight ==
  ASSUME FilesAgree, InductiveRight, NEW th \in Threads, NEW o \in held[th],
         NEW e \in ResolvedSignatures, SubstituteSignature(th, e, o), Inductive'
  PROVE  InductiveRight'
<1> DEFINE u == Substitute(e.term, o.term.subs, TRUE)
           s == SignatureInstance(e.is, o.is.subs)
<1>1. Substitutable(e, o) /\ Hold(th, Entry(u, s)) /\ UNCHANGED <<walk, interned>>
  BY DEF SubstituteSignature
<1>2. RightEntry(o) /\ RightEntry(e)
  BY ResolvedIsRightEntry DEF InductiveRight, ResolvedSignatures
<1>3. e.term \in Term /\ Right(e.term) /\ StructureOf[e.term] = e.is
  BY <1>2 DEF RightEntry, Right
<1>4. Fits(e.term, o.term.subs, o.is.subs)
  BY <1>1, <1>2, <1>3, ArgumentsFit DEF RightEntry, Substitutable
<1>5. IsGeneric(e.term) /\ e.term.id.kind = "FUNCTIONAL"
  BY <1>1, ResolvedSignature DEF Substitutable
<1>6. u \in Term => Right(u) /\ StructureOf[u] = s
  <2>1. PICK w : w = u
    OBVIOUS
  <2>2. w = Substitution(o.term.subs, Boxing)[<<e.term, 0>>]
    BY <2>1 DEF Substitute, Boxing
  <2> HIDE DEF u, s
  <2>3. ASSUME w \in Term
        PROVE  Right(w) /\ StructureOf[w] = SignatureInstance(StructureOf[e.term], o.is.subs)
    BY <1>3, <1>4, <1>5, <2>2, <2>3, SignatureIsRight
  <2> QED BY <1>3, <2>1, <2>3 DEF s
<1> HIDE DEF u, s
<1> QED
  BY <1>1, <1>6, HoldKeepsRight

LEMMA EnumFlagsAre ==
  \A of, tag, name, subs :
    /\ tag = "OPTION" => EnumFlags(of, tag, name, subs) = OptionFlags(of[Defs[name].enumType], subs)
    /\ tag \in EnumTags /\ tag # "OPTION" =>
         "gen" \notin EnumFlags(of, tag, name, subs) /\ "ref" \notin EnumFlags(of, tag, name, subs)
BY DEF EnumFlags, EnumTags

LEMMA PresentedEnumFlags ==
  \A p, subs : p.kind \in EnumTags =>
    PresentedFlags(p, subs) = EnumFlags(Resolve, p.kind, p.name, subs)
BY DEF PresentedFlags, EnumTags, AotTags

\* The runtime presents what is represented as FilesAgree says.
LEMMA PresentedIsRight ==
  ASSUME FilesAgree, NEW p \in Presented, NEW subs, p.arity = Len(subs),
         NEW t \in Term, NEW kind, kind = KindOf([tag |-> p.kind, name |-> p.name]),
         t = Local(Id(kind, p.name, p.num), subs, PresentedFlags(p, subs)),
         \A i \in DOMAIN subs : Right(subs[i])
  PROVE  Right(t)
<1> DEFINE id == Id(kind, p.name, p.num)
           flags == PresentedFlags(p, subs)
           s == StructureOf[t]
<1>1. t.id = id /\ t.subs = subs /\ t = Local(t.id, t.subs, flags)
  <2> HIDE DEF id, flags
  <2>1. t.id = id /\ t.subs = subs
    BY LocalParts DEF id, flags
  <2> QED BY <2>1 DEF id, flags
<1>2. t.id.kind = kind /\ t.id.name = p.name
  BY <1>1 DEF Id
<1>3. s.id = t.id
  BY StructureParts
<1>4. p.kind \in AotTags \cup EnumTags \cup PlainTags
  BY BoundsAssumption
<1>5. /\ p.kind \in AotTags => kind = IF p.name \in Names THEN "TYPE" ELSE "AOT_TYPE"
      /\ p.kind \notin AotTags => kind = p.kind
  BY <1>4 DEF KindOf, AotTags, DefTags, EnumTags, PlainTags
<1>6. kind \notin VarTags /\ (kind = "OPTION" <=> p.kind = "OPTION")
  BY <1>4, <1>5 DEF VarTags, AotTags, EnumTags, PlainTags
<1>7. p.kind = "OPTION" =>
        /\ t.id.name \in Names /\ Defs[t.id.name].enum = "OPTION"
        /\ Defs[t.id.name].arity = Len(t.subs)
  BY <1>1, <1>2, BoundsAssumption DEF EnumTags
<1>8. "gen" \notin flags /\ ("ref" \in flags <=> HoldsReferences(s))
  <2>1. CASE p.kind = "OPTION"
    <3>1. flags = OptionFlags(Resolve[Defs[p.name].enumType], subs)
      <4>1. flags = EnumFlags(Resolve, p.kind, p.name, subs)
        BY <2>1, PresentedEnumFlags DEF EnumTags
      <4> HIDE DEF flags
      <4> QED BY <2>1, <4>1, EnumFlagsAre
    <3>2. \A i \in DOMAIN t.subs : Right(t.subs[i])
      BY <1>1
    <3>3. "ref" \in OptionFlags(Resolve[Defs[t.id.name].enumType], t.subs) <=> HoldsReferences(s)
      BY <1>2, <1>6, <1>7, <2>1, <3>2, OptionIsRight
    <3>4. "gen" \notin OptionFlags(Resolve[Defs[p.name].enumType], subs)
      BY DEF OptionFlags, Represented
    <3> HIDE DEF flags, s
    <3> QED BY <1>1, <1>2, <3>1, <3>3, <3>4
  <2>2. CASE p.kind \in EnumTags /\ p.kind # "OPTION"
    <3>1. flags = EnumFlags(Resolve, p.kind, p.name, subs)
      BY <2>2, PresentedEnumFlags
    <3>2. "gen" \notin flags /\ "ref" \notin flags
      <4> HIDE DEF flags
      <4> QED BY <2>2, <3>1, EnumFlagsAre
    <3>3. ~HoldsReferences(s)
      <4> HIDE DEF s, flags
      <4>1. s.id.kind = p.kind
        BY <1>2, <1>3, <1>5, <2>2 DEF EnumTags, AotTags
      <4> QED BY <2>2, <4>1 DEF HoldsReferences, IsPlainReference, EnumTags, VarTags
    <3> QED BY <3>2, <3>3
  <2>3. CASE p.kind \in AotTags
    <3>1. flags = Represented(p.kind = "AOT_REF") \cup (IF p.name \in Names THEN {"aot"} ELSE {})
      BY <2>3 DEF PresentedFlags, EnumTags, AotTags
    <3>2. "gen" \notin flags /\ ("ref" \in flags <=> p.kind = "AOT_REF")
      <4> HIDE DEF flags
      <4> QED BY <3>1 DEF Represented
    <3>3. HoldsReferences(s) <=> IsPlainReference(s)
      <4> HIDE DEF s, flags
      <4> QED BY <1>2, <1>3, <1>6, <2>3 DEF HoldsReferences, AotTags
    <3>4. CASE p.name \in Names
      <4>1. IsPlainReference(s) <=> ~Defs[p.name].record
        <5> HIDE DEF s, flags
        <5> QED BY <1>2, <1>3, <1>5, <2>3, <3>4 DEF IsPlainReference, VarTags
      <4>2. Defs[p.name].record = (p.kind = "AOT_REC")
        BY <2>3, <3>4 DEF FilesAgree
      <4>3. p.kind = "AOT_REF" <=> ~(p.kind = "AOT_REC")
        BY <2>3 DEF AotTags
      <4> HIDE DEF s, flags
      <4> QED BY <3>2, <3>3, <4>1, <4>2, <4>3
    <3>5. CASE p.name \notin Names
      <4>1. IsPlainReference(s)
              <=> \E r \in DOMAIN Pool : Pool[r].name = p.name /\ Pool[r].tag = "AOT_REF"
        <5> HIDE DEF s, flags
        <5> QED BY <1>2, <1>3, <1>5, <2>3, <3>5 DEF IsPlainReference, VarTags
      <4>2. PICK q \in DOMAIN Pool : Pool[q].name = p.name /\ Pool[q].tag = p.kind
        BY <2>3, <3>5 DEF FilesAgree
      <4>3. ASSUME NEW r \in DOMAIN Pool, Pool[r].name = p.name, Pool[r].tag = "AOT_REF"
            PROVE  p.kind = "AOT_REF"
        <5>1. {Pool[r].tag, Pool[q].tag} \subseteq AotTags
          BY <2>3, <4>2, <4>3 DEF AotTags
        <5> QED BY <4>2, <4>3, <5>1 DEF FilesAgree
      <4> HIDE DEF s, flags
      <4> QED BY <3>2, <3>3, <4>1, <4>2, <4>3
    <3> QED BY <3>4, <3>5
  <2>4. CASE p.kind \in PlainTags
    <3>1. flags = Represented(p.kind # "VARRAY")
      BY <2>4 DEF PresentedFlags, EnumTags, AotTags, PlainTags
    <3>2. "gen" \notin flags /\ ("ref" \in flags <=> p.kind # "VARRAY")
      <4> HIDE DEF flags
      <4> QED BY <3>1 DEF Represented
    <3>3. p.kind \in {"FUNCTIONAL", "NULLABLE", "CANGJIE_ARRAY", "BOX", "VARRAY"}
      BY <2>4 DEF FilesAgree, PlainTags
    <3>4. s.id.kind = p.kind
      <4> HIDE DEF s, flags
      <4> QED BY <1>2, <1>3, <1>5, <2>4 DEF AotTags, PlainTags
    <3>5. HoldsReferences(s) <=> p.kind # "VARRAY"
      <4> HIDE DEF s, flags
      <4> QED BY <3>3, <3>4 DEF HoldsReferences, IsPlainReference, VarTags
    <3> HIDE DEF s, flags
    <3> QED BY <3>2, <3>5
  <2> QED BY <1>4, <2>1, <2>2, <2>3, <2>4
<1>9. \A i \in DOMAIN t.subs : Right(t.subs[i])
  BY <1>1
<1> HIDE DEF flags, s, id
<1> QED
  BY <1>1, <1>2, <1>6, <1>7, <1>8, <1>9, MadeIsRight DEF s

LEMMA PresentKeepsRight ==
  ASSUME FilesAgree, InductiveRight, NEW th \in Threads, NEW p \in Presented,
         NEW subs \in Arguments, Present(th, p, subs), Inductive'
  PROVE  InductiveRight'
<1> DEFINE kind == KindOf([tag |-> p.kind, name |-> p.name])
           t == Local(Id(kind, p.name, p.num), subs, PresentedFlags(p, subs))
           e == Entry(t, StructureOf[t])
<1>1. /\ t \in Term /\ Len(subs) = p.arity
      /\ walk' = [walk EXCEPT ![th] = e]
      /\ UNCHANGED <<held, interned>>
  BY DEF Present, Structure
<1>2. t.subs = subs
  BY DEF Local
<1>3. ASSUME NEW i \in DOMAIN subs PROVE Right(subs[i])
  <2>1. PICK n \in 0..2 : subs \in [1..n -> Closed]
    BY DEF Arguments
  <2>2. subs[i] \in Closed
    BY <2>1
  <2>3. subs[i] \in Term
    <3> HIDE DEF t
    <3> QED BY <1>1, <1>2, TermParts
  <2>4. CASE subs[i] \in interned
    BY <2>4 DEF InductiveRight
  <2>5. CASE subs[i] = Predefined("I64")
    <3>1. IsBuiltin(subs[i])
      BY <2>5 DEF IsBuiltin
    <3> QED BY <2>3, <3>1, BuiltinIsRight
  <2> QED BY <2>2, <2>4, <2>5 DEF Closed
<1>4. PICK u : u = t
  OBVIOUS
<1>5. u \in Term /\ p.arity = Len(subs)
  BY <1>1, <1>4
<1>6. Right(u)
  <2>1. PICK k : k = kind
    OBVIOUS
  <2>2. u = Local(Id(k, p.name, p.num), subs, PresentedFlags(p, subs))
    BY <1>4, <2>1
  <2> HIDE DEF t, e
  <2> QED BY <1>3, <1>5, <2>1, <2>2, PresentedIsRight
<1>7. RightEntry(e)
  <2>1. e.term = u /\ e.is = StructureOf[u]
    BY <1>4 DEF Entry
  <2> HIDE DEF e, t
  <2> QED BY <1>6, <2>1 DEF RightEntry
<1> HIDE DEF e
<1>8. \A o \in Threads : walk'[o] = e \/ walk'[o] = walk[o]
  BY <1>1 DEF InductiveRight, Inductive
<1> HIDE DEF t
<1> QED
  BY <1>1, <1>7, <1>8 DEF InductiveRight

LEMMA GlobalizeKeepsRight ==
  ASSUME InductiveRight, NEW th \in Threads, NEW e \in held[th], Globalize(th, e), Inductive'
  PROVE  InductiveRight'
<1>1. /\ walk' = [walk EXCEPT ![th] = e]
      /\ held' = [held EXCEPT ![th] = @ \ {e}]
      /\ interned' = interned
  BY DEF Globalize
<1>2. /\ \A o \in Threads : held'[o] \subseteq held[o]
      /\ \A o \in Threads : walk'[o] = e \/ walk'[o] = walk[o]
  BY <1>1 DEF InductiveRight, Inductive
<1> QED
  BY <1>1, <1>2 DEF InductiveRight

LEMMA SubtermsAreRight ==
  \A t \in Term : Right(t) => \A u \in Subterms[t] : Right(u)
<1> DEFINE Good == {t \in Term : Right(t) => \A u \in Subterms[t] : Right(u)}
<1>1. ASSUME NEW t \in Term, \A i \in DOMAIN t.subs : t.subs[i] \in Good
      PROVE  t \in Good
  BY <1>1, RightByParts, SubtermsOfParts DEF SubtermsBy
<1> HIDE DEF Good
<1>2. Term \subseteq Good
  BY <1>1, TermInduction
<1> QED
  BY <1>2 DEF Good

LEMMA InnermostIsSubterm ==
  \A t \in Term : Innermost(t) \in Subterms[t]
<1> DEFINE Good == {t \in Term : Innermost(t) \in Subterms[t]}
<1>1. ASSUME NEW t \in Term, \A i \in DOMAIN t.subs : t.subs[i] \in Good
      PROVE  t \in Good
  <2>1. Subterms[t] = {t} \cup UNION {Subterms[t.subs[i]] : i \in DOMAIN t.subs}
    BY SubtermsOfParts DEF SubtermsBy
  <2>2. CASE LocalSubterms(t) = {}
    BY <2>1, <2>2, Innermosts DEF Innermost, InnermostBy
  <2>3. CASE LocalSubterms(t) # {}
    <3>1. Leftmost(t) \in DOMAIN t.subs
      BY <2>3, LeftmostIsOne DEF LocalSubterms
    <3>2. Innermost(t) = Innermost(t.subs[Leftmost(t)])
      BY <2>3, Innermosts DEF Innermost, InnermostBy
    <3> QED BY <1>1, <2>1, <3>1, <3>2
  <2> QED BY <2>2, <2>3
<1> HIDE DEF Good
<1>2. Term \subseteq Good
  BY <1>1, TermInduction
<1> QED
  BY <1>2 DEF Good

LEMMA InternKeepsRight ==
  ASSUME InductiveRight, NEW th \in Threads, Intern(th), Inductive'
  PROVE  InductiveRight'
<1> DEFINE w == walk[th]
           t == Innermost(w.term)
           g == IF Cached(t) # {} THEN CHOOSE c \in Cached(t) : TRUE ELSE Evacuated(t)
           put == PutInnermost(w.term, g)
           now == [w EXCEPT !.term = put]
           S == interned \cup {g}
<1>1. /\ w # None /\ interned' = S
      /\ IF IsLocal(now.term)
         THEN walk' = [walk EXCEPT ![th] = now] /\ UNCHANGED held
         ELSE /\ walk' = [walk EXCEPT ![th] = None]
              /\ held' = [held EXCEPT ![th] = @ \cup {now}]
  BY DEF Intern, Idle
<1>2. Table(interned) /\ WalkedOver(w, interned) /\ RightEntry(w)
  BY <1>1 DEF InductiveRight, Inductive
<1>3. WellMade(w.term, interned) /\ w.term \in Term /\ w = Entry(w.term, w.is)
  BY <1>2 DEF WalkedOver, HeldOver, WellMade
<1>4. Right(w.term) /\ StructureOf[w.term] = w.is
  BY <1>2 DEF RightEntry
<1>5. t \in Term /\ Right(t)
  <2>1. WellMade(t, interned)
    BY <1>2, <1>3, InnermostIsWellMade DEF WalkedOver
  <2>2. t \in Term
    <3> HIDE DEF t
    <3> QED BY <2>1 DEF WellMade
  <2>3. t \in Subterms[w.term]
    BY <1>3, InnermostIsSubterm
  <2>4. Right(t)
    <3> HIDE DEF t
    <3> QED BY <1>3, <1>4, <2>2, <2>3, SubtermsAreRight
  <2> QED BY <2>2, <2>4
<1>6. /\ g.id = t.id /\ g.subs = t.subs
      /\ g \in interned \/ g.flags = t.flags
  <2> HIDE DEF t
  <2>1. CASE Cached(t) # {}
    <3>1. g \in Cached(t)
      BY <2>1
    <3> HIDE DEF g
    <3> QED BY <3>1 DEF Cached
  <2>2. CASE Cached(t) = {}
    <3>1. \E n : g = [t EXCEPT !.at = n]
      BY <2>2 DEF Evacuated
    <3>2. t \in Over(Term)
      BY <1>5, TermParts
    <3> HIDE DEF g
    <3> QED BY <3>1, <3>2 DEF Over
  <2> QED BY <2>1, <2>2
<1>7. g \in Term
  <2>1. g \in S
    OBVIOUS
  <2> HIDE DEF g, S
  <2> QED BY <1>1, <2>1 DEF Inductive, Table, Interned
<1>8. Right(g) /\ StructureOf[g] = StructureOf[t]
  <2>1. g.flags = t.flags \/ Right(g)
    <3> HIDE DEF g, t
    <3> QED BY <1>6 DEF InductiveRight
  <2> HIDE DEF g, t
  <2> QED BY <1>5, <1>6, <1>7, <2>1, CopyIsRight
<1>9. Right(put) /\ StructureOf[put] = w.is
  <2>1. g.subs = Innermost(w.term).subs /\ StructureOf[g] = StructureOf[Innermost(w.term)]
    BY <1>6, <1>8
  <2> HIDE DEF g, t
  <2>2. Right(PutInnermost(w.term, g))
          /\ StructureOf[PutInnermost(w.term, g)] = StructureOf[w.term]
    BY <1>3, <1>4, <1>7, <1>8, <2>1, PutIsRight
  <2> QED BY <1>4, <2>2
<1>10. RightEntry(now)
  <2> HIDE DEF put
  <2>1. now = Entry(put, w.is)
    BY <1>3 DEF Entry
  <2>2. now.term = put /\ now.is = w.is
    <3> HIDE DEF now
    <3> QED BY <2>1 DEF Entry
  <2> HIDE DEF now
  <2> QED BY <1>9, <2>2 DEF RightEntry
<1>11. \A h \in interned' : Right(h)
  <2> HIDE DEF g
  <2> QED BY <1>1, <1>8 DEF InductiveRight
<1> HIDE DEF g, put, now, t, S
<1>12. CASE IsLocal(now.term)
  <2>1. held' = held /\ \A o \in Threads : walk'[o] = now \/ walk'[o] = walk[o]
    BY <1>1, <1>12 DEF InductiveRight, Inductive
  <2>2. \A o \in Threads : walk'[o] # None => RightEntry(walk'[o])
    BY <1>10, <2>1 DEF InductiveRight
  <2> QED BY <1>11, <2>1, <2>2 DEF InductiveRight
<1>13. CASE ~IsLocal(now.term)
  <2>1. /\ \A o \in Threads : walk'[o] = None \/ walk'[o] = walk[o]
        /\ \A o \in Threads : \A e \in held'[o] : e \in held[o] \/ e = now
    BY <1>1, <1>13 DEF InductiveRight, Inductive
  <2>2. \A o \in Threads : walk'[o] # None => RightEntry(walk'[o])
    BY <2>1 DEF InductiveRight
  <2>3. \A o \in Threads : \A e \in held'[o] : RightEntry(e)
    BY <1>10, <2>1 DEF InductiveRight
  <2> QED BY <1>11, <2>2, <2>3 DEF InductiveRight
<1> QED
  BY <1>12, <1>13

LEMMA InductiveRightNext == FilesAgree /\ InductiveRight /\ [Next]_vars => InductiveRight'
<1> SUFFICES ASSUME FilesAgree, InductiveRight, [Next]_vars PROVE InductiveRight'
  OBVIOUS
<1>0. Inductive'
  BY InductiveNext DEF InductiveRight
<1>1. CASE UNCHANGED vars
  BY <1>0, <1>1 DEF vars, InductiveRight
<1>2. ASSUME NEW th \in Threads, NEW e \in ResolvedAsked, ResolveTerm(th, e)
      PROVE  InductiveRight'
  <2>1. RightEntry(e)
    BY ResolvedIsRightEntry DEF ResolvedAsked
  <2>2. e = Entry(e.term, e.is)
    BY DEF ResolvedAsked, Resolved, Entry
  <2>3. Hold(th, Entry(e.term, e.is)) /\ UNCHANGED <<walk, interned>>
    BY <1>2, <2>2 DEF ResolveTerm
  <2> QED BY <1>0, <2>1, <2>3, HoldKeepsRight DEF RightEntry
<1>3. ASSUME NEW th \in Threads, NEW o \in held[th], NEW e \in held[th] \cup ResolvedMembers,
             SubstituteTerm(th, e, o)
      PROVE  InductiveRight'
  <2>1. RightEntry(e)
    BY ResolvedIsRightEntry DEF ResolvedMembers, InductiveRight
  <2> QED BY <1>0, <1>3, <2>1, SubstituteTermKeepsRight
<1>4. ASSUME NEW th \in Threads, NEW o \in held[th], NEW e \in ResolvedSignatures,
             SubstituteSignature(th, e, o)
      PROVE  InductiveRight'
  BY <1>0, <1>4, SubstituteSignatureKeepsRight
<1>5. ASSUME NEW th \in Threads, NEW p \in Presented, NEW subs \in Arguments,
             Present(th, p, subs)
      PROVE  InductiveRight'
  BY <1>0, <1>5, PresentKeepsRight
<1>6. ASSUME NEW th \in Threads, NEW e \in held[th], Globalize(th, e)
      PROVE  InductiveRight'
  BY <1>0, <1>6, GlobalizeKeepsRight
<1>7. ASSUME NEW th \in Threads, Intern(th)
      PROVE  InductiveRight'
  BY <1>0, <1>7, InternKeepsRight
<1>8. ASSUME NEW th \in Threads, EndSession(th)
      PROVE  InductiveRight'
  <2>1. /\ walk' = walk /\ interned' = interned
        /\ \A o \in Threads : held'[o] \subseteq held[o]
    BY <1>8 DEF EndSession, InductiveRight, Inductive
  <2> QED BY <1>0, <2>1 DEF InductiveRight
<1> QED
  BY <1>1, <1>2, <1>3, <1>4, <1>5, <1>6, <1>7, <1>8 DEF Next

LEMMA InductiveRightInit == Init => InductiveRight
BY InductiveInit DEF Init, InductiveRight

LEMMA RightEntriesAreRight == InductiveRight => TermsAreRight
<1> SUFFICES ASSUME InductiveRight, NEW e \in Working
             PROVE  /\ Structure(e.term) = e.is
                    /\ \A t \in Subterms[e.term] :
                         /\ IsReference(t) <=> HoldsReferences(Structure(t))
                         /\ IsGeneric(t) <=> \E u \in Subterms[t] : u.id.kind \in VarTags
  BY DEF TermsAreRight
<1>1. RightEntry(e)
  BY DEF Working, InductiveRight
<1>2. e.term \in Term /\ Right(e.term) /\ StructureOf[e.term] = e.is
  BY <1>1 DEF RightEntry, Right
<1>3. ASSUME NEW t \in Subterms[e.term]
      PROVE  /\ IsReference(t) <=> HoldsReferences(Structure(t))
             /\ IsGeneric(t) <=> \E u \in Subterms[t] : u.id.kind \in VarTags
  <2>1. t \in Term /\ Right(t)
    BY <1>2, SubtermsAreTerms, SubtermsAreRight
  <2>2. Sound(t)
    BY <2>1, RightByParts
  <2> QED BY <2>1, <2>2, GenericHasVariables DEF Sound, Structure
<1> QED
  BY <1>2, <1>3 DEF Structure

\* When the files and the runtime agree on the types (FilesAgree), then through
\* any sequence of resolutions, substitutions and globalizations of any threads
\* a term stays the type that was asked for, and its flags say how the values of
\* the type are represented and whether it has type variables.
THEOREM TermsStayRight == FilesAgree => (Spec => []TermsAreRight)
<1> SUFFICES ASSUME FilesAgree PROVE Spec => []TermsAreRight
  OBVIOUS
<1>1. Init => InductiveRight
  BY InductiveRightInit
<1>2. InductiveRight /\ [Next]_vars => InductiveRight'
  BY InductiveRightNext
<1>3. InductiveRight => TermsAreRight
  BY RightEntriesAreRight
<1> QED
  BY <1>1, <1>2, <1>3, PTL DEF Spec

--------------------------------------------------------------------------------
(* Matching.  First the equation of the matcher. *)

\* The subterms before the i-th were compared.
UpToBy(u, f, m, p, t, i) ==
  IF i = 0 THEN m
  ELSE IF u[i - 1].ok THEN f[<<u[i - 1], p.subs[i], t.subs[i]>>]
  ELSE u[i - 1]

ComparesAll(u, f, m, p, t, k) == u = [i \in 0..k |-> UpToBy(u, f, m, p, t, i)]

LEMMA UpToByExists ==
  ASSUME NEW f, NEW m, NEW p, NEW t, NEW k \in Nat
  PROVE  \E u : ComparesAll(u, f, m, p, t, k)
<1> DEFINE S == {j \in 0..k : \E u : ComparesAll(u, f, m, p, t, j)}
<1>1. 0 \in S
  <2> DEFINE u == [i \in 0..0 |-> m]
  <2>1. \A i \in 0..0 : u[i] = UpToBy(u, f, m, p, t, i)
    BY DEF UpToBy
  <2>2. \A h : (\A i \in 0..0 : u[i] = UpToBy(h, f, m, p, t, i))
                 => u = [i \in 0..0 |-> UpToBy(h, f, m, p, t, i)]
    OBVIOUS
  <2> HIDE DEF u
  <2>3. ComparesAll(u, f, m, p, t, 0)
    BY <2>1, <2>2 DEF ComparesAll
  <2> QED BY <2>3
<1>2. ASSUME NEW j \in 0..k, j \in S, j + 1 \in 0..k
      PROVE  j + 1 \in S
  <2>1. PICK u : ComparesAll(u, f, m, p, t, j)
    BY <1>2
  <2> DEFINE v == [i \in 0..j + 1 |-> IF i = j + 1 THEN UpToBy(u, f, m, p, t, i) ELSE u[i]]
  <2>2. \A i \in 0..j : u[i] = UpToBy(u, f, m, p, t, i)
    BY <2>1 DEF ComparesAll
  <2>3. ASSUME NEW i \in 0..j + 1
        PROVE  v[i] = UpToBy(v, f, m, p, t, i)
    <3>1. v[i] = UpToBy(u, f, m, p, t, i)
      BY <2>2
    <3>2. i # 0 => i - 1 \in 0..j + 1 /\ i - 1 # j + 1
      OBVIOUS
    <3>3. i # 0 => v[i - 1] = u[i - 1]
      BY <3>2
    <3> HIDE DEF v
    <3> QED BY <3>1, <3>3 DEF UpToBy
  <2>4. \A h : (\A i \in 0..j + 1 : v[i] = UpToBy(h, f, m, p, t, i))
                 => v = [i \in 0..j + 1 |-> UpToBy(h, f, m, p, t, i)]
    OBVIOUS
  <2> HIDE DEF v
  <2>5. ComparesAll(v, f, m, p, t, j + 1)
    BY <2>3, <2>4 DEF ComparesAll
  <2> QED BY <1>2, <2>5
<1> HIDE DEF S
<1>3. k \in S
  BY <1>1, <1>2, Induction
<1> QED
  BY <1>3 DEF S

UpTo(f, m, p, t) == CHOOSE u : ComparesAll(u, f, m, p, t, Len(p.subs))

Compares(u, f, m, p, t) ==
  /\ u[0] = m
  /\ \A i \in 0..Len(p.subs) : i + 1 \in 0..Len(p.subs) =>
       u[i + 1] = IF u[i].ok THEN f[<<u[i], p.subs[i + 1], t.subs[i + 1]>>] ELSE u[i]

LEMMA UpTos ==
  ASSUME NEW f, NEW m, NEW p \in Term, NEW t
  PROVE  /\ MatchSubterms(f, m, p, t) = UpTo(f, m, p, t)[Len(p.subs)]
         /\ Len(p.subs) \in Nat
         /\ Compares(UpTo(f, m, p, t), f, m, p, t)
<1> DEFINE k == Len(p.subs)
<1>1. k \in Nat
  BY TermParts DEF Over
<1>2. MatchSubterms(f, m, p, t) = UpTo(f, m, p, t)[k]
  BY DEF MatchSubterms, UpTo, ComparesAll, UpToBy
<1>3. \E u : ComparesAll(u, f, m, p, t, k)
  BY <1>1, UpToByExists
<1>4. PICK u : u = UpTo(f, m, p, t)
  OBVIOUS
<1>5. ComparesAll(u, f, m, p, t, k)
  BY <1>3, <1>4 DEF UpTo
<1>6. \A i \in 0..k : u[i] = UpToBy(u, f, m, p, t, i)
  BY <1>5 DEF ComparesAll
<1> HIDE DEF k
<1>7. u[0] = m
  <2>1. 0 \in 0..k
    BY <1>1
  <2>2. u[0] = UpToBy(u, f, m, p, t, 0)
    BY <1>6, <2>1
  <2> QED BY <2>2 DEF UpToBy
<1>8. ASSUME NEW i \in 0..k, i + 1 \in 0..k
      PROVE  u[i + 1] = IF u[i].ok THEN f[<<u[i], p.subs[i + 1], t.subs[i + 1]>>] ELSE u[i]
  <2>1. i + 1 # 0 /\ (i + 1) - 1 = i
    BY <1>1
  <2>2. u[i + 1] = UpToBy(u, f, m, p, t, i + 1)
    BY <1>6, <1>8
  <2> QED BY <2>1, <2>2 DEF UpToBy
<1> QED
  BY <1>1, <1>2, <1>4, <1>7, <1>8 DEF k, Compares

LEMMA NilIsTerm == Term # {} => Nil \in Term
<1> SUFFICES ASSUME Term # {} PROVE Nil \in Term
  OBVIOUS
<1>1. MaxDepth # 0
  BY Levels
<1>2. MaxDepth - 1 \in 0..MaxDepth /\ (MaxDepth - 1) + 1 = MaxDepth /\ MaxDepth \in 0..MaxDepth
  BY <1>1, MaxDepthAssumption
<1>3. Term = Over(TermTo[MaxDepth - 1])
  BY <1>2, Levels
<1>4. <<>> \in Seq(TermTo[MaxDepth - 1]) /\ TagId("NIL") \in Ids /\ {} \in SUBSET Flag
      /\ <<"builtin", 0>> \in Places
  <2>1. <<"builtin", 0>> \in Places
    BY DEF Places
  <2> QED BY <2>1, NilAssumption
<1>5. Nil = [id |-> TagId("NIL"), subs |-> <<>>, flags |-> {}, at |-> <<"builtin", 0>>]
  BY DEF Nil, Predefined, Builtin
<1> QED
  BY <1>3, <1>4, <1>5 DEF Over

\* The vector has room for the variable, and what it had.
LEMMA ResizedIs ==
  ASSUME NEW row \in Seq(Term), NEW k \in Nat, k # 0, Nil \in Term
  PROVE  LET r == Resized(row, k)
         IN  /\ r \in Seq(Term) /\ Len(r) = (IF k > Len(row) THEN k ELSE Len(row))
             /\ DOMAIN r = 1..Len(r) /\ Len(r) \in Nat
             /\ \A i \in 1..Len(r) : r[i] = (IF i \in 1..Len(row) THEN row[i] ELSE Nil)
<1> DEFINE l == IF k > Len(row) THEN k ELSE Len(row)
           r == Resized(row, k)
<1>1. Len(row) \in Nat /\ DOMAIN row = 1..Len(row) /\ \A i \in 1..Len(row) : row[i] \in Term
  OBVIOUS
<1>2. l \in Nat
  BY <1>1
<1>3. r = [i \in 1..l |-> IF i <= Len(row) THEN row[i] ELSE Nil]
  BY DEF Resized
<1>4. \A i \in 1..l : i <= Len(row) <=> i \in 1..Len(row)
  BY <1>1, <1>2
<1> HIDE DEF l, r
<1>5. \A i \in 1..l : r[i] = (IF i \in 1..Len(row) THEN row[i] ELSE Nil)
  BY <1>3, <1>4
<1>6. \A i \in 1..l : r[i] \in Term
  BY <1>1, <1>5
<1>7. r \in [1..l -> Term]
  BY <1>3, <1>6
<1>8. r \in Seq(Term) /\ Len(r) = l
  BY <1>2, <1>7
<1> QED
  BY <1>2, <1>3, <1>5, <1>8 DEF l, r

LEMMA PutIsMatch ==
  ASSUME NEW m \in Matches, NEW k \in Nat, k # 0, NEW t \in Term
  PROVE  PutVariable(m, k, t) \in Matches
<1>1. Nil \in Term
  BY NilIsTerm
<1>2. m.vars \in Seq(Term) /\ m.ok \in BOOLEAN /\ m.errors \in BOOLEAN
  BY DEF Matches
<1>3. PICK row : row = Resized(m.vars, k)
  OBVIOUS
<1>4. row \in Seq(Term)
  BY <1>1, <1>2, <1>3, ResizedIs
<1>5. [row EXCEPT ![k] = t] \in Seq(Term)
  <2>1. row \in [1..Len(row) -> Term] /\ Len(row) \in Nat
    BY <1>4
  <2>2. [row EXCEPT ![k] = t] \in [1..Len(row) -> Term]
    BY <2>1
  <2> QED BY <2>1, <2>2
<1>6. PutVariable(m, k, t) \in
        {[m EXCEPT !.vars = row], [m EXCEPT !.vars = [row EXCEPT ![k] = t]],
         [m EXCEPT !.vars = row, !.errors = TRUE]}
  BY <1>3 DEF PutVariable
<1>7. \A v \in Seq(Term) :
        [m EXCEPT !.vars = v] \in Matches /\ [m EXCEPT !.vars = v, !.errors = TRUE] \in Matches
  BY DEF Matches
<1> QED
  BY <1>4, <1>5, <1>6, <1>7

PrefixBy(f, m, p, t) ==
  IF SamePointer(p, t) THEN m
  ELSE IF p.id.kind = "CLASS_TYPE_VAR" THEN PutVariable(m, p.id.num + 1, t)
  ELSE IF p.id # t.id \/ Len(p.subs) # Len(t.subs) THEN [m EXCEPT !.ok = FALSE]
  ELSE MatchSubterms(f, m, p, t)

MatchesIn(f, P) ==
  \A m \in Matches, p \in P, t \in Term : f[<<m, p, t>>] \in Matches

PartsOf(p) == {p.subs[i] : i \in DOMAIN p.subs}

\* While subterms are compared there is a match so far.
LEMMA UpTosAreMatches ==
  ASSUME NEW f, NEW m \in Matches, NEW p \in Term, NEW t \in Term,
         Len(p.subs) = Len(t.subs), MatchesIn(f, PartsOf(p))
  PROVE  \A i \in 0..Len(p.subs) : UpTo(f, m, p, t)[i] \in Matches
<1> DEFINE k == Len(p.subs)
           u == UpTo(f, m, p, t)
           S == {i \in 0..k : u[i] \in Matches}
<1>1. /\ k \in Nat /\ u[0] = m
      /\ \A i \in 0..k : i + 1 \in 0..k =>
           u[i + 1] = IF u[i].ok THEN f[<<u[i], p.subs[i + 1], t.subs[i + 1]>>] ELSE u[i]
  <2>1. k \in Nat /\ Compares(u, f, m, p, t)
    BY UpTos
  <2> HIDE DEF u
  <2> QED BY <2>1 DEF Compares
<1>2. \A i \in 1..k : p.subs[i] \in PartsOf(p) /\ t.subs[i] \in Term
  <2>1. p.subs \in Seq(Term) /\ t.subs \in Seq(Term)
    BY TermParts DEF Over
  <2>2. DOMAIN p.subs = 1..k /\ DOMAIN t.subs = 1..k
    BY <2>1
  <2> QED BY <2>1, <2>2 DEF PartsOf
<1> HIDE DEF u, k
<1>3. 0 \in S
  BY <1>1
<1>4. ASSUME NEW i \in 0..k, i \in S, i + 1 \in 0..k
      PROVE  i + 1 \in S
  <2>1. i + 1 \in 1..k
    BY <1>1, <1>4
  <2>2. f[<<u[i], p.subs[i + 1], t.subs[i + 1]>>] \in Matches
    BY <1>2, <1>4, <2>1 DEF MatchesIn
  <2> QED BY <1>1, <1>4, <2>2
<1> HIDE DEF S
<1>5. 0..k \subseteq S
  BY <1>1, <1>3, <1>4, Induction
<1> QED
  BY <1>5 DEF S, u, k

LEMMA PrefixByIsMatch ==
  ASSUME NEW f, NEW m \in Matches, NEW p \in Term, NEW t \in Term, MatchesIn(f, PartsOf(p))
  PROVE  PrefixBy(f, m, p, t) \in Matches
<1>1. p.id.num + 1 \in Nat /\ p.id.num + 1 # 0
  <2>1. p.id \in Ids
    BY TermParts DEF Over
  <2>2. p.id.num \in Nat
    BY <2>1 DEF Ids
  <2> QED BY <2>2
<1>2. p.id.kind = "CLASS_TYPE_VAR" => PutVariable(m, p.id.num + 1, t) \in Matches
  BY <1>1, PutIsMatch
<1>3. [m EXCEPT !.ok = FALSE] \in Matches
  BY DEF Matches
<1>4. ASSUME Len(p.subs) = Len(t.subs)
      PROVE  MatchSubterms(f, m, p, t) \in Matches
  <2>1. Len(p.subs) \in 0..Len(p.subs) /\ MatchSubterms(f, m, p, t) = UpTo(f, m, p, t)[Len(p.subs)]
    BY UpTos
  <2> QED BY <1>4, <2>1, UpTosAreMatches
<1> QED
  BY <1>2, <1>3, <1>4 DEF PrefixBy

LEMMA PrefixByAgrees ==
  ASSUME NEW f, NEW g, NEW m \in Matches, NEW p \in Term, NEW t \in Term,
         MatchesIn(f, PartsOf(p)),
         \A x \in Matches, q \in PartsOf(p), u \in Term : f[<<x, q, u>>] = g[<<x, q, u>>]
  PROVE  PrefixBy(f, m, p, t) = PrefixBy(g, m, p, t)
<1> SUFFICES ASSUME Len(p.subs) = Len(t.subs)
             PROVE  MatchSubterms(f, m, p, t) = MatchSubterms(g, m, p, t)
  BY DEF PrefixBy
<1> DEFINE k == Len(p.subs)
           u == UpTo(f, m, p, t)
           v == UpTo(g, m, p, t)
           S == {i \in 0..k : u[i] = v[i]}
<1>1. /\ k \in Nat /\ u[0] = m /\ v[0] = m
      /\ \A i \in 0..k : i + 1 \in 0..k =>
           /\ u[i + 1] = IF u[i].ok THEN f[<<u[i], p.subs[i + 1], t.subs[i + 1]>>] ELSE u[i]
           /\ v[i + 1] = IF v[i].ok THEN g[<<v[i], p.subs[i + 1], t.subs[i + 1]>>] ELSE v[i]
      /\ MatchSubterms(f, m, p, t) = u[k] /\ MatchSubterms(g, m, p, t) = v[k]
  <2>1. k \in Nat /\ Compares(u, f, m, p, t) /\ MatchSubterms(f, m, p, t) = u[k]
    BY UpTos
  <2>2. Compares(v, g, m, p, t) /\ MatchSubterms(g, m, p, t) = v[k]
    BY UpTos
  <2> HIDE DEF u, v
  <2> QED BY <2>1, <2>2 DEF Compares
<1>2. \A i \in 1..k : p.subs[i] \in PartsOf(p) /\ t.subs[i] \in Term
  <2>1. p.subs \in Seq(Term) /\ t.subs \in Seq(Term)
    BY TermParts DEF Over
  <2>2. DOMAIN p.subs = 1..k /\ DOMAIN t.subs = 1..k
    BY <2>1
  <2> QED BY <2>1, <2>2 DEF PartsOf
<1>3. \A i \in 0..k : u[i] \in Matches
  BY UpTosAreMatches
<1> HIDE DEF u, v, k
<1>4. 0 \in S
  BY <1>1
<1>5. ASSUME NEW i \in 0..k, i \in S, i + 1 \in 0..k
      PROVE  i + 1 \in S
  <2>1. i + 1 \in 1..k
    BY <1>1, <1>5
  <2>2. f[<<u[i], p.subs[i + 1], t.subs[i + 1]>>] = g[<<u[i], p.subs[i + 1], t.subs[i + 1]>>]
    BY <1>2, <1>3, <2>1
  <2> QED BY <1>1, <1>5, <2>2
<1> HIDE DEF S
<1>6. k \in S
  <2>1. 0..k \subseteq S
    BY <1>1, <1>4, <1>5, Induction
  <2> QED BY <1>1, <2>1
<1> QED
  BY <1>1, <1>6 DEF S

PrefixesIn(f, P) ==
  f = [at \in Matches \X P \X Term |-> PrefixBy(f, at[1], at[2], at[3])]

LEMMA PrefixesAt ==
  ASSUME NEW f, NEW P, PrefixesIn(f, P)
  PROVE  \A m \in Matches, p \in P, t \in Term : f[<<m, p, t>>] = PrefixBy(f, m, p, t)
<1> SUFFICES ASSUME NEW m \in Matches, NEW p \in P, NEW t \in Term
             PROVE  f[<<m, p, t>>] = PrefixBy(f, m, p, t)
  OBVIOUS
<1>1. PICK at : at = <<m, p, t>>
  OBVIOUS
<1>2. at \in Matches \X P \X Term /\ at[1] = m /\ at[2] = p /\ at[3] = t
  BY <1>1
<1>3. f[at] = PrefixBy(f, at[1], at[2], at[3])
  BY <1>2 DEF PrefixesIn
<1> QED
  BY <1>1, <1>2, <1>3

LEMMA PartsBelow ==
  ASSUME NEW n \in 0..MaxDepth, n + 1 \in 0..MaxDepth, NEW p \in TermTo[n + 1]
  PROVE  PartsOf(p) \subseteq TermTo[n]
BY LevelParts DEF PartsOf

LEMMA PrefixByExists ==
  \E f : PrefixesIn(f, Term) /\ MatchesIn(f, Term)
<1> DEFINE N == {n \in 0..MaxDepth :
                   \E f : PrefixesIn(f, TermTo[n]) /\ MatchesIn(f, TermTo[n])}
<1>1. 0 \in N
  <2> DEFINE f == [at \in {} |-> at]
  <2>1. Matches \X TermTo[0] \X Term = {} /\ TermTo[0] = {}
    BY Levels
  <2>2. \A h : [at \in Matches \X TermTo[0] \X Term |-> PrefixBy(h, at[1], at[2], at[3])] = f
    BY <2>1
  <2> HIDE DEF f
  <2>3. PrefixesIn(f, TermTo[0]) /\ MatchesIn(f, TermTo[0])
    BY <2>1, <2>2 DEF PrefixesIn, MatchesIn
  <2> QED BY <2>3, MaxDepthAssumption
<1>2. ASSUME NEW n \in 0..MaxDepth, n \in N, n + 1 \in 0..MaxDepth
      PROVE  n + 1 \in N
  <2>1. PICK f : PrefixesIn(f, TermTo[n]) /\ MatchesIn(f, TermTo[n])
    BY <1>2
  <2> DEFINE P == TermTo[n + 1]
             g == [at \in Matches \X P \X Term |-> PrefixBy(f, at[1], at[2], at[3])]
  <2>2. \A m \in Matches, p \in P, t \in Term : g[<<m, p, t>>] = PrefixBy(f, m, p, t)
    <3> SUFFICES ASSUME NEW m \in Matches, NEW p \in P, NEW t \in Term
                 PROVE  g[<<m, p, t>>] = PrefixBy(f, m, p, t)
      OBVIOUS
    <3>1. PICK at : at = <<m, p, t>>
      OBVIOUS
    <3>2. at \in Matches \X P \X Term /\ at[1] = m /\ at[2] = p /\ at[3] = t
      BY <3>1
    <3> HIDE DEF P
    <3>3. g[at] = PrefixBy(f, at[1], at[2], at[3])
      BY <3>2
    <3> HIDE DEF g
    <3> QED BY <3>1, <3>2, <3>3
  <2>3. P \subseteq Term /\ TermTo[n] \subseteq P /\ \A p \in P : PartsOf(p) \subseteq TermTo[n]
    BY <1>2, PartsBelow, LevelsAreTerms, LevelsGrow
  <2>4. \A p \in P : MatchesIn(f, PartsOf(p))
    <3> HIDE DEF P
    <3> QED BY <2>1, <2>3 DEF MatchesIn
  <2>5. MatchesIn(g, P)
    <3> HIDE DEF g, P
    <3>1. \A m \in Matches, p \in P, t \in Term : PrefixBy(f, m, p, t) \in Matches
      BY <2>3, <2>4, PrefixByIsMatch
    <3> QED BY <2>2, <3>1 DEF MatchesIn
  <2>6. \A m \in Matches, p \in TermTo[n], t \in Term : f[<<m, p, t>>] = g[<<m, p, t>>]
    <3>1. \A m \in Matches, p \in TermTo[n], t \in Term : f[<<m, p, t>>] = PrefixBy(f, m, p, t)
      BY <2>1, PrefixesAt
    <3> HIDE DEF g, P
    <3> QED BY <2>2, <2>3, <3>1
  <2>7. \A m \in Matches, p \in P, t \in Term : PrefixBy(f, m, p, t) = PrefixBy(g, m, p, t)
    <3> SUFFICES ASSUME NEW m \in Matches, NEW p \in P, NEW t \in Term
                 PROVE  PrefixBy(f, m, p, t) = PrefixBy(g, m, p, t)
      OBVIOUS
    <3> HIDE DEF g, P
    <3>1. p \in Term /\ MatchesIn(f, PartsOf(p)) /\ PartsOf(p) \subseteq TermTo[n]
      BY <2>3, <2>4
    <3>2. \A x \in Matches, q \in PartsOf(p), u \in Term : f[<<x, q, u>>] = g[<<x, q, u>>]
      BY <2>6, <3>1
    <3> QED BY <3>1, <3>2, PrefixByAgrees
  <2>8. PrefixesIn(g, P)
    <3>1. \A h : (\A at \in Matches \X P \X Term :
                    PrefixBy(f, at[1], at[2], at[3]) = PrefixBy(h, at[1], at[2], at[3]))
                   => g = [at \in Matches \X P \X Term |-> PrefixBy(h, at[1], at[2], at[3])]
      OBVIOUS
    <3> HIDE DEF g, P
    <3>2. \A at \in Matches \X P \X Term :
            PrefixBy(f, at[1], at[2], at[3]) = PrefixBy(g, at[1], at[2], at[3])
      <4>1. \A at \in Matches \X P \X Term : at[1] \in Matches /\ at[2] \in P /\ at[3] \in Term
        OBVIOUS
      <4> QED BY <2>7, <4>1
    <3>3. g = [at \in Matches \X P \X Term |-> PrefixBy(g, at[1], at[2], at[3])]
      BY <3>1, <3>2
    <3> QED BY <3>3 DEF PrefixesIn
  <2> HIDE DEF g
  <2> QED BY <1>2, <2>5, <2>8
<1> HIDE DEF N
<1>3. MaxDepth \in N
  <2>1. 0..MaxDepth \subseteq N
    BY <1>1, <1>2, Induction, MaxDepthAssumption
  <2> QED BY <2>1, MaxDepthAssumption
<1> QED
  BY <1>3, Levels DEF N

\* A term is matched by matching its subterms.
LEMMA Prefixes ==
  /\ \A m \in Matches, p \in Term, t \in Term :
       IsPrefix[<<m, p, t>>] = PrefixBy(IsPrefix, m, p, t)
  /\ MatchesIn(IsPrefix, Term)
<1> DEFINE F == CHOOSE f : PrefixesIn(f, Term)
<1>1. \E f : PrefixesIn(f, Term)
  BY PrefixByExists
<1>2. IsPrefix = F
  BY DEF IsPrefix, PrefixesIn, PrefixBy
<1>3. PrefixesIn(IsPrefix, Term)
  <2>1. PrefixesIn(F, Term)
    BY <1>1
  <2> HIDE DEF F
  <2> QED BY <1>2, <2>1
<1>4. \A m \in Matches, p \in Term, t \in Term :
        IsPrefix[<<m, p, t>>] = PrefixBy(IsPrefix, m, p, t)
  BY <1>3, PrefixesAt
<1> DEFINE Good == {p \in Term : MatchesIn(IsPrefix, {p})}
<1>5. ASSUME NEW p \in Term, \A i \in DOMAIN p.subs : p.subs[i] \in Good
      PROVE  p \in Good
  <2>1. MatchesIn(IsPrefix, PartsOf(p))
    BY <1>5 DEF MatchesIn, PartsOf
  <2>2. \A m \in Matches, t \in Term : PrefixBy(IsPrefix, m, p, t) \in Matches
    BY <2>1, PrefixByIsMatch
  <2> QED BY <1>4, <2>2 DEF MatchesIn
<1> HIDE DEF Good
<1>6. Term \subseteq Good
  BY <1>5, TermInduction
<1>7. MatchesIn(IsPrefix, Term)
  BY <1>6 DEF Good, MatchesIn
<1> QED
  BY <1>4, <1>7

--------------------------------------------------------------------------------
(* What a match says of the terms. *)

LEMMA VariablesByParts ==
  ASSUME NEW p \in Term
  PROVE  VariablesOf(p) = (IF p.id.kind = "CLASS_TYPE_VAR" THEN {p.id.num + 1} ELSE {})
                            \cup UNION {VariablesOf(p.subs[i]) : i \in DOMAIN p.subs}
<1>1. Subterms[p] = {p} \cup UNION {Subterms[p.subs[i]] : i \in DOMAIN p.subs}
  BY SubtermsOfParts DEF SubtermsBy
<1> QED
  BY <1>1 DEF VariablesOf

\* A term without variables, that is not taken for an unbound one.
IsClosed(t) == \A u \in Subterms[t] : u.id.kind \notin {"CLASS_TYPE_VAR", "NIL"}

LEMMA ClosedByParts ==
  ASSUME NEW t \in Term, IsClosed(t)
  PROVE  /\ t.id.kind \notin {"CLASS_TYPE_VAR", "NIL"}
         /\ \A i \in DOMAIN t.subs : IsClosed(t.subs[i])
<1>1. Subterms[t] = {t} \cup UNION {Subterms[t.subs[i]] : i \in DOMAIN t.subs}
  BY SubtermsOfParts DEF SubtermsBy
<1> QED
  BY <1>1 DEF IsClosed

LEMMA InstanceOfClosed ==
  ASSUME NEW w
  PROVE  \A t \in Term : IsClosed(t) => Instance(StructureOf[t], w) = StructureOf[t]
<1> DEFINE Good == {t \in Term : IsClosed(t) => Instance(StructureOf[t], w) = StructureOf[t]}
<1>1. ASSUME NEW t \in Term, \A i \in DOMAIN t.subs : t.subs[i] \in Good
      PROVE  t \in Good
  <2> SUFFICES ASSUME IsClosed(t) PROVE Instance(StructureOf[t], w) = StructureOf[t]
    OBVIOUS
  <2>1. t.id.kind # "CLASS_TYPE_VAR" /\ \A i \in DOMAIN t.subs : IsClosed(t.subs[i])
    BY ClosedByParts
  <2>2. [i \in DOMAIN t.subs |-> Instance(StructureOf[t.subs[i]], w)]
          = [i \in DOMAIN t.subs |-> StructureOf[t.subs[i]]]
    BY <1>1, <2>1
  <2> HIDE DEF Good
  <2>3. StructureOf[t] = Bare(t.id, [i \in DOMAIN t.subs |-> StructureOf[t.subs[i]]])
    BY StructureParts
  <2>4. Instance(StructureOf[t], w)
          = Bare(t.id, [i \in DOMAIN t.subs |-> Instance(StructureOf[t.subs[i]], w)])
    BY <2>1, InstanceOfStructure
  <2> QED BY <2>2, <2>3, <2>4
<1> HIDE DEF Good
<1>2. Term \subseteq Good
  BY <1>1, TermInduction
<1> QED
  BY <1>2 DEF Good

Matched(m) == m.ok /\ ~m.errors
Bound(m) == {k \in DOMAIN m.vars : m.vars[k] # Nil}
Agrees(w, m) == \A k \in Bound(m) : w[k] = StructureOf[m.vars[k]]
Solves(w, pairs) == \A j \in pairs : Instance(j[1], w) = j[2]

\* From m the matcher has come to r: if there is a match, then the variables vs
\* were bound to some of the terms ts, and whatever agrees with them solves the
\* pairs; and what agrees with m and solves the pairs is not missed.
Leads(m, r, vs, ts, pairs) ==
  /\ Matched(r) =>
       /\ Matched(m)
       /\ \A k \in Bound(m) : r.vars[k] = m.vars[k]
       /\ Bound(r) = Bound(m) \cup vs
       /\ \A l \in Nat : Len(m.vars) <= l /\ vs \subseteq 1..l => Len(r.vars) <= l
       /\ \A k \in Bound(r) \ Bound(m) : r.vars[k] \in ts
       /\ \A w : Agrees(w, r) => Solves(w, pairs)
  /\ \A w : Matched(m) /\ Agrees(w, m) /\ Solves(w, pairs) => Matched(r) /\ Agrees(w, r)

LEMMA LeadsOn ==
  ASSUME NEW m, NEW r, NEW q, NEW vs, NEW ts, NEW pairs, NEW us, NEW ss, NEW others,
         Leads(m, r, vs, ts, pairs), Leads(r, q, us, ss, others)
  PROVE  Leads(m, q, vs \cup us, ts \cup ss, pairs \cup others)
<1>1. ASSUME Matched(q)
      PROVE  /\ Matched(m)
             /\ \A k \in Bound(m) : q.vars[k] = m.vars[k]
             /\ Bound(q) = Bound(m) \cup (vs \cup us)
             /\ \A l \in Nat : Len(m.vars) <= l /\ (vs \cup us) \subseteq 1..l => Len(q.vars) <= l
             /\ \A k \in Bound(q) \ Bound(m) : q.vars[k] \in ts \cup ss
             /\ \A w : Agrees(w, q) => Solves(w, pairs \cup others)
  <2>1. /\ Matched(r)
        /\ \A k \in Bound(r) : q.vars[k] = r.vars[k]
        /\ Bound(q) = Bound(r) \cup us
        /\ \A l \in Nat : Len(r.vars) <= l /\ us \subseteq 1..l => Len(q.vars) <= l
        /\ \A k \in Bound(q) \ Bound(r) : q.vars[k] \in ss
        /\ \A w : Agrees(w, q) => Solves(w, others)
    BY <1>1 DEF Leads
  <2>2. /\ Matched(m)
        /\ \A k \in Bound(m) : r.vars[k] = m.vars[k]
        /\ Bound(r) = Bound(m) \cup vs
        /\ \A l \in Nat : Len(m.vars) <= l /\ vs \subseteq 1..l => Len(r.vars) <= l
        /\ \A k \in Bound(r) \ Bound(m) : r.vars[k] \in ts
        /\ \A w : Agrees(w, r) => Solves(w, pairs)
    BY <2>1 DEF Leads
  <2>3. \A k \in Bound(m) : q.vars[k] = m.vars[k]
    BY <2>1, <2>2
  <2>4. \A l \in Nat : Len(m.vars) <= l /\ (vs \cup us) \subseteq 1..l => Len(q.vars) <= l
    BY <2>1, <2>2
  <2>5. ASSUME NEW k \in Bound(q) \ Bound(m)
        PROVE  q.vars[k] \in ts \cup ss
    BY <2>1, <2>2
  <2>6. ASSUME NEW w, Agrees(w, q)
        PROVE  Solves(w, pairs \cup others)
    <3>1. Agrees(w, r)
      BY <2>1, <2>6 DEF Agrees
    <3> QED BY <2>1, <2>2, <2>6, <3>1 DEF Solves
  <2> QED BY <2>1, <2>2, <2>3, <2>4, <2>5, <2>6
<1>2. ASSUME NEW w, Matched(m), Agrees(w, m), Solves(w, pairs \cup others)
      PROVE  Matched(q) /\ Agrees(w, q)
  <2>1. Solves(w, pairs) /\ Solves(w, others)
    BY <1>2 DEF Solves
  <2>2. Matched(r) /\ Agrees(w, r)
    BY <1>2, <2>1 DEF Leads
  <2> QED BY <2>1, <2>2 DEF Leads
<1> QED
  BY <1>1, <1>2 DEF Leads

\* Where two terms differ the matcher stops.
LEMMA LeadsNowhere ==
  ASSUME NEW m, NEW r, NEW vs, NEW ts, NEW pairs, NEW us, NEW ss, NEW others,
         Leads(m, r, vs, ts, pairs), ~r.ok
  PROVE  Leads(m, r, us, ss, pairs \cup others)
<1>1. ~Matched(r)
  BY DEF Matched
<1>2. \A w : Solves(w, pairs \cup others) => Solves(w, pairs)
  BY DEF Solves
<1> QED
  BY <1>1, <1>2 DEF Leads

LEMMA LeadsAlike ==
  ASSUME NEW m, NEW r, NEW vs, NEW ts, NEW pairs, NEW ss, NEW others,
         Leads(m, r, vs, ts, pairs), ts \subseteq ss,
         \A w : Solves(w, pairs) <=> Solves(w, others)
  PROVE  Leads(m, r, vs, ss, others)
BY DEF Leads

\* Nothing compared yet.
LEMMA LeadsToItself ==
  ASSUME NEW m, NEW ts
  PROVE  Leads(m, m, {}, ts, {})
BY DEF Leads, Solves

\* A variable is bound to the term, or has been to one that is the same type.
LEMMA PutLeads ==
  ASSUME NEW m \in Matches, NEW k \in Nat, k # 0, NEW t \in Term, t.id.kind # "NIL",
         NEW s, \A w : Instance(s, w) = w[k]
  PROVE  Leads(m, PutVariable(m, k, t), {k}, {t}, {<<s, StructureOf[t]>>})
<1>1. Nil \in Term
  BY NilIsTerm
<1>2. m.vars \in Seq(Term) /\ m = [ok |-> m.ok, vars |-> m.vars, errors |-> m.errors]
      /\ m.ok \in BOOLEAN /\ m.errors \in BOOLEAN
  BY DEF Matches
<1>3. PICK row : row = Resized(m.vars, k)
  OBVIOUS
<1>4. /\ row \in Seq(Term) /\ Len(row) = (IF k > Len(m.vars) THEN k ELSE Len(m.vars))
      /\ DOMAIN row = 1..Len(row) /\ Len(row) \in Nat
      /\ \A i \in 1..Len(row) : row[i] = (IF i \in 1..Len(m.vars) THEN m.vars[i] ELSE Nil)
  BY <1>1, <1>2, <1>3, ResizedIs
<1>5. DOMAIN m.vars = 1..Len(m.vars) /\ Len(m.vars) \in Nat
  BY <1>2
<1>6. k \in DOMAIN row /\ DOMAIN m.vars \subseteq DOMAIN row
  BY <1>4, <1>5
<1>7. \A i \in DOMAIN row : row[i] # Nil <=> i \in Bound(m)
  BY <1>4, <1>5 DEF Bound
<1>8. \A i \in Bound(m) : i \in DOMAIN row /\ row[i] = m.vars[i]
  BY <1>4, <1>5, <1>6 DEF Bound
<1>9. StructureOf[Nil] # StructureOf[t]
  <2>1. StructureOf[Nil].id = Nil.id /\ StructureOf[t].id = t.id
    BY <1>1, StructureParts
  <2>2. Nil.id.kind = "NIL"
    BY DEF Nil, Predefined, Builtin, TagId, Id
  <2> QED BY <2>1, <2>2
<1>10. PICK r : r = PutVariable(m, k, t)
  OBVIOUS
<1>11. \A l \in Nat : Len(m.vars) <= l /\ {k} \subseteq 1..l => Len(row) <= l
  BY <1>4, <1>5
<1>12. \A w : Solves(w, {<<s, StructureOf[t]>>}) <=> w[k] = StructureOf[t]
  <2> SUFFICES ASSUME NEW w
               PROVE  Solves(w, {<<s, StructureOf[t]>>}) <=> w[k] = StructureOf[t]
    OBVIOUS
  <2>1. PICK j : j = <<s, StructureOf[t]>>
    OBVIOUS
  <2>2. j[1] = s /\ j[2] = StructureOf[t]
    BY <2>1
  <2>3. Solves(w, {j}) <=> Instance(s, w) = StructureOf[t]
    BY <2>2 DEF Solves
  <2> QED BY <2>1, <2>3
<1>13. CASE StructureOf[row[k]] = StructureOf[t]
  <2>1. r = [m EXCEPT !.vars = row]
    BY <1>3, <1>10, <1>13 DEF PutVariable, SameStructure, Structure
  <2>2. r.vars = row /\ r.ok = m.ok /\ r.errors = m.errors
    BY <1>2, <2>1
  <2>3. k \in Bound(m)
    BY <1>6, <1>7, <1>9, <1>13
  <2>4. Bound(r) = Bound(m)
    BY <1>7, <1>8, <2>2 DEF Bound
  <2>5. \A w : Agrees(w, r) <=> Agrees(w, m)
    BY <1>8, <2>2, <2>4 DEF Agrees
  <2>6. \A w : Agrees(w, r) => w[k] = StructureOf[t]
    BY <1>13, <2>2, <2>3, <2>4 DEF Agrees
  <2>7. Matched(r) <=> Matched(m)
    BY <2>2 DEF Matched
  <2>8. Leads(m, r, {k}, {t}, {<<s, StructureOf[t]>>})
    <3>1. Bound(r) = Bound(m) \cup {k}
      BY <2>3, <2>4
    <3>2. \A i \in Bound(m) : r.vars[i] = m.vars[i]
      BY <1>8, <2>2
    <3>3. \A l \in Nat : Len(m.vars) <= l /\ {k} \subseteq 1..l => Len(r.vars) <= l
      BY <1>11, <2>2
    <3>4. \A i \in Bound(r) \ Bound(m) : r.vars[i] \in {t}
      BY <2>4
    <3>5. \A w : Agrees(w, r) => Solves(w, {<<s, StructureOf[t]>>})
      BY <1>12, <2>6
    <3> QED BY <2>5, <2>7, <3>1, <3>2, <3>3, <3>4, <3>5 DEF Leads
  <2> QED BY <1>10, <2>8
<1>14. CASE StructureOf[row[k]] # StructureOf[t] /\ row[k] = Nil
  <2>1. r = [m EXCEPT !.vars = [row EXCEPT ![k] = t]]
    BY <1>3, <1>10, <1>14 DEF PutVariable, SameStructure, Structure
  <2>2. r.vars = [row EXCEPT ![k] = t] /\ r.ok = m.ok /\ r.errors = m.errors
    BY <1>2, <2>1
  <2>3. /\ DOMAIN r.vars = DOMAIN row /\ r.vars[k] = t
        /\ \A i \in DOMAIN row : i # k => r.vars[i] = row[i]
    BY <1>6, <2>2
  <2>4. k \notin Bound(m)
    BY <1>6, <1>7, <1>14
  <2>5. t # Nil
    BY <1>9
  <2>6. Bound(r) = Bound(m) \cup {k}
    BY <1>6, <1>7, <1>8, <2>3, <2>5 DEF Bound
  <2>7. \A i \in Bound(m) : r.vars[i] = m.vars[i]
    BY <1>8, <2>3, <2>4
  <2>8. \A w : Agrees(w, r) <=> Agrees(w, m) /\ w[k] = StructureOf[t]
    BY <2>3, <2>6, <2>7 DEF Agrees
  <2>9. Matched(r) <=> Matched(m)
    BY <2>2 DEF Matched
  <2>10. Len(r.vars) = Len(row)
    <3>1. r.vars \in Seq(Term) /\ DOMAIN r.vars = 1..Len(r.vars) /\ Len(r.vars) \in Nat
      <4>1. r \in Matches
        BY <1>10, PutIsMatch
      <4>2. r.vars \in Seq(Term)
        BY <4>1 DEF Matches
      <4> QED BY <4>2
    <3> QED BY <1>4, <2>3, <3>1
  <2>11. Leads(m, r, {k}, {t}, {<<s, StructureOf[t]>>})
    <3>1. \A l \in Nat : Len(m.vars) <= l /\ {k} \subseteq 1..l => Len(r.vars) <= l
      BY <1>11, <2>10
    <3>2. \A i \in Bound(r) \ Bound(m) : r.vars[i] \in {t}
      BY <2>3, <2>6
    <3> QED BY <1>12, <2>6, <2>7, <2>8, <2>9, <3>1, <3>2 DEF Leads
  <2> QED BY <1>10, <2>11
<1>15. CASE StructureOf[row[k]] # StructureOf[t] /\ row[k] # Nil
  <2>1. r = [m EXCEPT !.vars = row, !.errors = TRUE]
    BY <1>3, <1>10, <1>15 DEF PutVariable, SameStructure, Structure
  <2>2. r.errors
    BY <1>2, <2>1
  <2>3. ~Matched(r)
    BY <2>2 DEF Matched
  <2>4. k \in Bound(m) /\ row[k] = m.vars[k]
    BY <1>6, <1>7, <1>8, <1>15
  <2>5. \A w : Agrees(w, m) => w[k] # StructureOf[t]
    BY <1>15, <2>4 DEF Agrees
  <2>6. Leads(m, r, {k}, {t}, {<<s, StructureOf[t]>>})
    BY <1>12, <2>3, <2>5 DEF Leads
  <2> QED BY <1>10, <2>6
<1> QED
  BY <1>13, <1>14, <1>15

\* What matching the subterm with this number says.
PartLeads(f, p, t, i) ==
  \A m \in Matches :
    Leads(m, f[<<m, p.subs[i], t.subs[i]>>], VariablesOf(p.subs[i]), Subterms[t.subs[i]],
          {<<StructureOf[p.subs[i]], StructureOf[t.subs[i]]>>})

PairsTo(p, t, i) == {<<StructureOf[p.subs[j]], StructureOf[t.subs[j]]>> : j \in 1..i}

LEMMA SubtermsLead ==
  ASSUME NEW f, NEW m \in Matches, NEW p \in Term, NEW t \in Term,
         Len(p.subs) = Len(t.subs), MatchesIn(f, PartsOf(p)),
         \A i \in 1..Len(p.subs) : PartLeads(f, p, t, i)
  PROVE  Leads(m, MatchSubterms(f, m, p, t),
               UNION {VariablesOf(p.subs[i]) : i \in DOMAIN p.subs},
               UNION {Subterms[t.subs[i]] : i \in DOMAIN t.subs},
               PairsTo(p, t, Len(p.subs)))
<1> DEFINE k == Len(p.subs)
           u == UpTo(f, m, p, t)
           vs(i) == UNION {VariablesOf(p.subs[j]) : j \in 1..i}
           ts(i) == UNION {Subterms[t.subs[j]] : j \in 1..i}
           S == {i \in 0..k : Leads(m, u[i], vs(i), ts(i), PairsTo(p, t, i))}
<1>1. /\ k \in Nat /\ u[0] = m /\ MatchSubterms(f, m, p, t) = u[k]
      /\ \A i \in 0..k : i + 1 \in 0..k =>
           u[i + 1] = IF u[i].ok THEN f[<<u[i], p.subs[i + 1], t.subs[i + 1]>>] ELSE u[i]
  <2>1. k \in Nat /\ Compares(u, f, m, p, t) /\ MatchSubterms(f, m, p, t) = u[k]
    BY UpTos
  <2> HIDE DEF u
  <2> QED BY <2>1 DEF Compares
<1>2. \A i \in 0..k : u[i] \in Matches
  BY UpTosAreMatches
<1> HIDE DEF u
<1>3. 0 \in S
  <2>1. vs(0) = {} /\ ts(0) = {} /\ PairsTo(p, t, 0) = {}
    BY DEF PairsTo
  <2> HIDE DEF k, vs, ts
  <2>2. Leads(m, u[0], vs(0), ts(0), PairsTo(p, t, 0))
    BY <1>1, <2>1, LeadsToItself
  <2> QED BY <1>1, <2>2
<1>4. ASSUME NEW i \in 0..k, i \in S, i + 1 \in 0..k
      PROVE  i + 1 \in S
  <2> DEFINE q == p.subs[i + 1]
             s == t.subs[i + 1]
  <2>1. i + 1 \in 1..k /\ 1..(i + 1) = (1..i) \cup {i + 1}
    BY <1>1, <1>4
  <2>2. vs(i + 1) = vs(i) \cup VariablesOf(q)
    BY <2>1
  <2>3. ts(i + 1) = ts(i) \cup Subterms[s]
    BY <2>1
  <2>4. PairsTo(p, t, i + 1) = PairsTo(p, t, i) \cup {<<StructureOf[q], StructureOf[s]>>}
    BY <2>1 DEF PairsTo
  <2>5. Leads(m, u[i], vs(i), ts(i), PairsTo(p, t, i))
    BY <1>4
  <2> HIDE DEF k, vs, ts, S
  <2>6. CASE u[i].ok
    <3>1. u[i + 1] = f[<<u[i], q, s>>]
      BY <1>1, <1>4, <2>6
    <3>2. Leads(u[i], u[i + 1], VariablesOf(q), Subterms[s], {<<StructureOf[q], StructureOf[s]>>})
      BY <1>2, <2>1, <3>1 DEF PartLeads, k
    <3> HIDE DEF q, s
    <3>3. Leads(m, u[i + 1], vs(i) \cup VariablesOf(q), ts(i) \cup Subterms[s],
                PairsTo(p, t, i) \cup {<<StructureOf[q], StructureOf[s]>>})
      BY <2>5, <3>2, LeadsOn
    <3>4. Leads(m, u[i + 1], vs(i + 1), ts(i + 1), PairsTo(p, t, i + 1))
      BY <2>2, <2>3, <2>4, <3>3
    <3> QED BY <1>4, <3>4 DEF S
  <2>7. CASE ~u[i].ok
    <3>1. u[i + 1] = u[i]
      BY <1>1, <1>4, <2>7
    <3> HIDE DEF q, s
    <3>2. Leads(m, u[i], vs(i + 1), ts(i + 1),
                PairsTo(p, t, i) \cup {<<StructureOf[q], StructureOf[s]>>})
      BY <2>5, <2>7, LeadsNowhere
    <3>3. Leads(m, u[i + 1], vs(i + 1), ts(i + 1), PairsTo(p, t, i + 1))
      BY <2>4, <3>1, <3>2
    <3> QED BY <1>4, <3>3 DEF S
  <2> QED BY <2>6, <2>7
<1>5. k \in S
  <2> HIDE DEF S, k
  <2>1. 0..k \subseteq S
    BY <1>1, <1>3, <1>4, Induction
  <2> QED BY <1>1, <2>1
<1>6. DOMAIN p.subs = 1..k /\ DOMAIN t.subs = 1..k
  <2>1. p.subs \in Seq(Term) /\ t.subs \in Seq(Term)
    BY TermParts DEF Over
  <2> QED BY <2>1
<1> QED
  BY <1>1, <1>5, <1>6

\* The pairs of the subterms are solved when that of the terms is.
LEMMA PairsOfParts ==
  ASSUME NEW p \in Term, NEW t \in Term, p.id = t.id, p.id.kind # "CLASS_TYPE_VAR",
         Len(p.subs) = Len(t.subs), NEW w
  PROVE  Solves(w, PairsTo(p, t, Len(p.subs))) <=> Instance(StructureOf[p], w) = StructureOf[t]
<1> DEFINE ps == [i \in DOMAIN p.subs |-> Instance(StructureOf[p.subs[i]], w)]
           ts == [i \in DOMAIN t.subs |-> StructureOf[t.subs[i]]]
<1>1. DOMAIN p.subs = 1..Len(p.subs) /\ DOMAIN t.subs = 1..Len(p.subs)
  <2>1. p.subs \in Seq(Term) /\ t.subs \in Seq(Term)
    BY TermParts DEF Over
  <2> QED BY <2>1
<1>2. Instance(StructureOf[p], w) = Bare(p.id, ps)
  BY InstanceOfStructure
<1>3. StructureOf[t] = Bare(t.id, ts)
  BY StructureParts
<1>4. Solves(w, PairsTo(p, t, Len(p.subs)))
        <=> \A i \in 1..Len(p.subs) : Instance(StructureOf[p.subs[i]], w) = StructureOf[t.subs[i]]
  <2> DEFINE pair(i) == <<StructureOf[p.subs[i]], StructureOf[t.subs[i]]>>
  <2>1. PairsTo(p, t, Len(p.subs)) = {pair(i) : i \in 1..Len(p.subs)}
    BY DEF PairsTo
  <2>2. \A i : pair(i)[1] = StructureOf[p.subs[i]] /\ pair(i)[2] = StructureOf[t.subs[i]]
    OBVIOUS
  <2> HIDE DEF pair
  <2>3. Solves(w, PairsTo(p, t, Len(p.subs)))
          <=> \A i \in 1..Len(p.subs) : Instance(pair(i)[1], w) = pair(i)[2]
    BY <2>1 DEF Solves
  <2> QED BY <2>2, <2>3
<1>5. ps = ts <=> \A i \in 1..Len(p.subs) :
                    Instance(StructureOf[p.subs[i]], w) = StructureOf[t.subs[i]]
  <2>1. DOMAIN ps = 1..Len(p.subs) /\ DOMAIN ts = 1..Len(p.subs)
    BY <1>1
  <2>2. \A i \in 1..Len(p.subs) :
          ps[i] = Instance(StructureOf[p.subs[i]], w) /\ ts[i] = StructureOf[t.subs[i]]
    BY <1>1
  <2>3. (\A i \in 1..Len(p.subs) : ps[i] = ts[i]) => ps = ts
    <3>1. ps = [i \in 1..Len(p.subs) |-> ps[i]] /\ ts = [i \in 1..Len(p.subs) |-> ts[i]]
      BY <1>1
    <3> HIDE DEF ps, ts
    <3> QED BY <3>1
  <2> HIDE DEF ps, ts
  <2> QED BY <2>2, <2>3
<1>6. \A id, x, y : Bare(id, x) = Bare(id, y) <=> x = y
  <2>1. \A id, x : Bare(id, x).subs = x
    BY DEF Bare
  <2> QED BY <2>1
<1> HIDE DEF ps, ts
<1>7. Instance(StructureOf[p], w) = StructureOf[t] <=> ps = ts
  BY <1>2, <1>3, <1>6
<1> QED
  BY <1>4, <1>5, <1>7

\* A pattern that differs from the term at the top has no instance that is it.
LEMMA DifferentAtTop ==
  ASSUME NEW p \in Term, NEW t \in Term, p.id.kind # "CLASS_TYPE_VAR",
         p.id # t.id \/ Len(p.subs) # Len(t.subs), NEW w
  PROVE  Instance(StructureOf[p], w) # StructureOf[t]
<1> DEFINE ps == [i \in DOMAIN p.subs |-> Instance(StructureOf[p.subs[i]], w)]
           ts == [i \in DOMAIN t.subs |-> StructureOf[t.subs[i]]]
<1> SUFFICES ASSUME Instance(StructureOf[p], w) = StructureOf[t] PROVE FALSE
  OBVIOUS
<1>1. Instance(StructureOf[p], w) = Bare(p.id, ps)
  BY InstanceOfStructure
<1>2. StructureOf[t] = Bare(t.id, ts)
  BY StructureParts
<1>3. \A id, x : Bare(id, x).subs = x /\ Bare(id, x).id = id
  BY DEF Bare
<1>4. DOMAIN ps = DOMAIN p.subs /\ DOMAIN ts = DOMAIN t.subs
  OBVIOUS
<1> HIDE DEF ps, ts
<1>5. p.id = t.id /\ ps = ts
  <2>1. Bare(p.id, ps) = Bare(t.id, ts)
    BY <1>1, <1>2
  <2>2. PICK x : x = Bare(p.id, ps)
    OBVIOUS
  <2>3. x.id = p.id /\ x.subs = ps /\ x.id = t.id /\ x.subs = ts
    BY <1>3, <2>1, <2>2
  <2> QED BY <2>3
<1>6. DOMAIN p.subs = DOMAIN t.subs
  BY <1>4, <1>5
<1>7. p.subs \in Seq(Term) /\ t.subs \in Seq(Term)
  BY TermParts DEF Over
<1>8. Len(p.subs) = Len(t.subs)
  <2>1. DOMAIN p.subs = 1..Len(p.subs) /\ DOMAIN t.subs = 1..Len(t.subs)
        /\ Len(p.subs) \in Nat /\ Len(t.subs) \in Nat
    BY <1>7
  <2>2. 1..Len(p.subs) = 1..Len(t.subs)
    BY <1>6, <2>1
  <2>3. \A a, b \in Nat : 1..a = 1..b => a = b
    <3> SUFFICES ASSUME NEW a \in Nat, NEW b \in Nat, 1..a = 1..b, a < b PROVE FALSE
      OBVIOUS
    <3>1. b \in 1..b /\ b \notin 1..a
      OBVIOUS
    <3> QED BY <3>1
  <2> QED BY <2>1, <2>2, <2>3
<1> QED
  BY <1>5, <1>8

\* What matching a term says.
LEMMA MatchLeads ==
  \A p \in Term : Right(p) =>
    \A t \in Term, m \in Matches : IsClosed(t) =>
      Leads(m, IsPrefix[<<m, p, t>>], VariablesOf(p), Subterms[t],
            {<<StructureOf[p], StructureOf[t]>>})
<1> DEFINE Good == {p \in Term : Right(p) =>
                      \A t \in Term, m \in Matches : IsClosed(t) =>
                        Leads(m, IsPrefix[<<m, p, t>>], VariablesOf(p), Subterms[t],
                              {<<StructureOf[p], StructureOf[t]>>})}
<1>1. ASSUME NEW p \in Term, \A i \in DOMAIN p.subs : p.subs[i] \in Good
      PROVE  p \in Good
  <2> SUFFICES ASSUME Right(p), NEW t \in Term, NEW m \in Matches, IsClosed(t)
               PROVE  Leads(m, IsPrefix[<<m, p, t>>], VariablesOf(p), Subterms[t],
                            {<<StructureOf[p], StructureOf[t]>>})
    OBVIOUS
  <2> DEFINE pairs == {<<StructureOf[p], StructureOf[t]>>}
  <2>1. PICK r : r = IsPrefix[<<m, p, t>>]
    OBVIOUS
  <2>2. r = PrefixBy(IsPrefix, m, p, t)
    BY <2>1, Prefixes
  <2>3. Sound(p) /\ \A i \in DOMAIN p.subs : Right(p.subs[i])
    BY RightByParts
  <2>4. /\ t.id.kind \notin {"CLASS_TYPE_VAR", "NIL"}
        /\ \A i \in DOMAIN t.subs : IsClosed(t.subs[i])
    BY ClosedByParts
  <2>5. Subterms[t] = {t} \cup UNION {Subterms[t.subs[i]] : i \in DOMAIN t.subs}
    BY SubtermsOfParts DEF SubtermsBy
  <2>6. VariablesOf(p) = (IF p.id.kind = "CLASS_TYPE_VAR" THEN {p.id.num + 1} ELSE {})
                           \cup UNION {VariablesOf(p.subs[i]) : i \in DOMAIN p.subs}
    BY VariablesByParts
  <2>7. \A w : Solves(w, pairs) <=> Instance(StructureOf[p], w) = StructureOf[t]
    <3> SUFFICES ASSUME NEW w
                 PROVE  Solves(w, pairs) <=> Instance(StructureOf[p], w) = StructureOf[t]
      OBVIOUS
    <3>1. PICK j : j = <<StructureOf[p], StructureOf[t]>>
      OBVIOUS
    <3>2. j[1] = StructureOf[p] /\ j[2] = StructureOf[t] /\ pairs = {j}
      BY <3>1
    <3> HIDE DEF pairs
    <3> QED BY <3>2 DEF Solves
  <2> HIDE DEF pairs
  <2>8. CASE SamePointer(p, t)
    <3>1. p = t
      BY <2>8 DEF SamePointer
    <3>2. r = m
      BY <2>2, <2>8 DEF PrefixBy
    <3>3. VariablesOf(p) = {}
      BY <3>1 DEF IsClosed, VariablesOf
    <3>4. \A w : Solves(w, pairs)
      BY <2>7, <3>1, InstanceOfClosed
    <3>5. Leads(m, m, {}, Subterms[t], {})
      BY LeadsToItself
    <3>6. Leads(m, m, {}, Subterms[t], pairs)
      <4>1. \A w : Solves(w, {}) <=> Solves(w, pairs)
        BY <3>4 DEF Solves
      <4> QED BY <3>5, <4>1, LeadsAlike
    <3> QED BY <2>1, <3>2, <3>3, <3>6 DEF pairs
  <2>9. CASE ~SamePointer(p, t) /\ p.id.kind = "CLASS_TYPE_VAR"
    <3> DEFINE k == p.id.num + 1
    <3>1. k \in Nat /\ k # 0
      <4>1. p.id \in Ids
        BY TermParts DEF Over
      <4>2. p.id.num \in Nat
        BY <4>1 DEF Ids
      <4> QED BY <4>2
    <3>2. r = PutVariable(m, k, t)
      BY <2>2, <2>9 DEF PrefixBy
    <3>3. \A w : Instance(StructureOf[p], w) = w[k]
      <4>1. StructureOf[p] \in Term /\ StructureOf[p].id = p.id
        BY StructuresAreTerms, StructureParts
      <4> QED BY <2>9, <4>1, Instances
    <3>4. VariablesOf(p) = {k}
      <4>1. DOMAIN p.subs = {}
        BY <2>3, <2>9 DEF Sound, VarTags
      <4> QED BY <2>6, <2>9, <4>1
    <3> HIDE DEF k
    <3>5. Leads(m, r, {k}, {t}, pairs)
      BY <2>4, <3>1, <3>2, <3>3, PutLeads DEF pairs
    <3>6. Leads(m, r, {k}, Subterms[t], pairs)
      BY <2>5, <3>5, LeadsAlike
    <3> QED BY <2>1, <3>4, <3>6 DEF pairs
  <2>10. CASE /\ ~SamePointer(p, t) /\ p.id.kind # "CLASS_TYPE_VAR"
              /\ p.id # t.id \/ Len(p.subs) # Len(t.subs)
    <3>1. r = [m EXCEPT !.ok = FALSE]
      BY <2>2, <2>10 DEF PrefixBy
    <3>2. ~Matched(r)
      <4>1. m = [ok |-> m.ok, vars |-> m.vars, errors |-> m.errors]
        BY DEF Matches
      <4>2. ~r.ok
        BY <3>1, <4>1
      <4> QED BY <4>2 DEF Matched
    <3>3. \A w : ~Solves(w, pairs)
      BY <2>7, <2>10, DifferentAtTop
    <3>4. Leads(m, r, VariablesOf(p), Subterms[t], pairs)
      BY <3>2, <3>3 DEF Leads
    <3> QED BY <2>1, <3>4 DEF pairs
  <2>11. CASE /\ ~SamePointer(p, t) /\ p.id.kind # "CLASS_TYPE_VAR"
              /\ p.id = t.id /\ Len(p.subs) = Len(t.subs)
    <3>1. r = MatchSubterms(IsPrefix, m, p, t)
      BY <2>2, <2>11 DEF PrefixBy
    <3>2. DOMAIN p.subs = 1..Len(p.subs) /\ DOMAIN t.subs = 1..Len(p.subs)
          /\ \A i \in 1..Len(p.subs) : p.subs[i] \in Term /\ t.subs[i] \in Term
      <4>1. p.subs \in Seq(Term) /\ t.subs \in Seq(Term)
        BY TermParts DEF Over
      <4> QED BY <2>11, <4>1
    <3>3. MatchesIn(IsPrefix, PartsOf(p))
      BY <3>2, Prefixes DEF MatchesIn, PartsOf
    <3>4. \A i \in 1..Len(p.subs) : PartLeads(IsPrefix, p, t, i)
      <4> SUFFICES ASSUME NEW i \in 1..Len(p.subs), NEW n \in Matches
                   PROVE  Leads(n, IsPrefix[<<n, p.subs[i], t.subs[i]>>],
                                VariablesOf(p.subs[i]), Subterms[t.subs[i]],
                                {<<StructureOf[p.subs[i]], StructureOf[t.subs[i]]>>})
        BY DEF PartLeads
      <4>1. p.subs[i] \in Good /\ Right(p.subs[i]) /\ IsClosed(t.subs[i]) /\ t.subs[i] \in Term
        BY <1>1, <2>3, <2>4, <3>2
      <4> QED BY <4>1
    <3> HIDE DEF Good
    <3>5. Leads(m, r, UNION {VariablesOf(p.subs[i]) : i \in DOMAIN p.subs},
                UNION {Subterms[t.subs[i]] : i \in DOMAIN t.subs},
                PairsTo(p, t, Len(p.subs)))
      BY <2>11, <3>1, <3>3, <3>4, SubtermsLead
    <3>6. Leads(m, r, VariablesOf(p), UNION {Subterms[t.subs[i]] : i \in DOMAIN t.subs},
                PairsTo(p, t, Len(p.subs)))
      <4>1. VariablesOf(p) = UNION {VariablesOf(p.subs[i]) : i \in DOMAIN p.subs}
        BY <2>6, <2>11
      <4> QED BY <3>5, <4>1
    <3>7. \A w : Solves(w, PairsTo(p, t, Len(p.subs))) <=> Solves(w, pairs)
      BY <2>7, <2>11, PairsOfParts
    <3>8. Leads(m, r, VariablesOf(p), Subterms[t], pairs)
      BY <2>5, <3>6, <3>7, LeadsAlike
    <3> QED BY <2>1, <3>8 DEF pairs
  <2> QED BY <2>8, <2>9, <2>10, <2>11
<1> HIDE DEF Good
<1>2. Term \subseteq Good
  BY <1>1, TermInduction
<1> QED
  BY <1>2 DEF Good

--------------------------------------------------------------------------------
(* Substitution and matching undo each other. *)

\* Terms of the same structure are nested alike.
LEMMA NestedAlike ==
  \A n \in 0..MaxDepth : \A t \in TermTo[n], u \in Term :
    StructureOf[t] = StructureOf[u] => u \in TermTo[n]
<1> DEFINE N == {n \in 0..MaxDepth : \A t \in TermTo[n], u \in Term :
                   StructureOf[t] = StructureOf[u] => u \in TermTo[n]}
<1>1. 0 \in N
  BY Levels, MaxDepthAssumption
<1>2. ASSUME NEW n \in 0..MaxDepth, n \in N, n + 1 \in 0..MaxDepth
      PROVE  n + 1 \in N
  <2> SUFFICES ASSUME NEW t \in TermTo[n + 1], NEW u \in Term, StructureOf[t] = StructureOf[u]
               PROVE  u \in TermTo[n + 1]
    BY <1>2
  <2>1. t \in Term
    BY <1>2, LevelsAreTerms
  <2>2. /\ DOMAIN StructureOf[t].subs = DOMAIN t.subs
        /\ DOMAIN StructureOf[u].subs = DOMAIN u.subs
        /\ \A i \in DOMAIN t.subs : StructureOf[t].subs[i] = StructureOf[t.subs[i]]
        /\ \A i \in DOMAIN u.subs : StructureOf[u].subs[i] = StructureOf[u.subs[i]]
    BY <2>1, StructureParts
  <2>3. \A i \in DOMAIN u.subs : u.subs[i] \in TermTo[n]
    <3> SUFFICES ASSUME NEW i \in DOMAIN u.subs PROVE u.subs[i] \in TermTo[n]
      OBVIOUS
    <3>1. i \in DOMAIN t.subs /\ StructureOf[t.subs[i]] = StructureOf[u.subs[i]]
      BY <2>2
    <3>2. t.subs[i] \in TermTo[n] /\ u.subs[i] \in Term
      BY <1>2, <3>1, LevelParts, TermParts
    <3> QED BY <1>2, <3>1, <3>2
  <2>4. u \in Over(Term)
    BY TermParts
  <2>5. u.subs \in Seq(TermTo[n])
    <3>1. u.subs \in Seq(Term)
      BY <2>4 DEF Over
    <3> QED BY <2>3, <3>1
  <2>6. u \in Over(TermTo[n])
    BY <2>4, <2>5 DEF Over
  <2> QED BY <1>2, <2>6, Levels
<1> HIDE DEF N
<1>3. 0..MaxDepth \subseteq N
  BY <1>1, <1>2, Induction, MaxDepthAssumption
<1> QED
  BY <1>3 DEF N

\* What the matcher bound gives a term nested like the matched one.
LEMMA SubstitutedIsTerm ==
  ASSUME NEW args, NEW structs
  PROVE  \A p \in Term : Right(p) /\ Fits(p, args, structs) =>
           \A d \in Nat, n \in 0..MaxDepth : \A t \in TermTo[n] :
             Instance(StructureOf[p], structs) = StructureOf[t] =>
               Substitution(args, FALSE)[<<p, d>>] \in TermTo[n]
<1> DEFINE sub(p, d) == Substitution(args, FALSE)[<<p, d>>]
           Good == {p \in Term : Right(p) /\ Fits(p, args, structs) =>
                      \A d \in Nat, n \in 0..MaxDepth : \A t \in TermTo[n] :
                        Instance(StructureOf[p], structs) = StructureOf[t] => sub(p, d) \in TermTo[n]}
<1>1. ASSUME NEW p \in Term, \A i \in DOMAIN p.subs : p.subs[i] \in Good
      PROVE  p \in Good
  <2> SUFFICES ASSUME Right(p), Fits(p, args, structs), NEW d \in Nat, NEW n \in 0..MaxDepth,
                      NEW t \in TermTo[n], Instance(StructureOf[p], structs) = StructureOf[t]
               PROVE  sub(p, d) \in TermTo[n]
    OBVIOUS
  <2>1. PICK u : u = sub(p, d)
    OBVIOUS
  <2>2. u = SubstituteBy(Substitution(args, FALSE), p, d, args, FALSE)
    BY <2>1, Substitutions
  <2>3. Sound(p) /\ \A i \in DOMAIN p.subs : Right(p.subs[i])
    BY RightByParts
  <2>4. Subterms[p] = {p} \cup UNION {Subterms[p.subs[i]] : i \in DOMAIN p.subs}
    BY SubtermsOfParts DEF SubtermsBy
  <2>5. t \in Term
    BY LevelsAreTerms
  <2>6. CASE u \in Term /\ StructureOf[u] = StructureOf[t]
    BY <2>1, <2>6, NestedAlike
  <2>7. CASE ~IsGeneric(p)
    <3>1. u = p
      BY <2>2, <2>7 DEF SubstituteBy
    <3>2. Instance(StructureOf[p], structs) = StructureOf[p]
      BY <2>7, ClosedStays
    <3> QED BY <2>6, <3>1, <3>2
  <2>8. CASE p.id.kind = "FUNC_TYPE_VAR"
    <3>1. u = p
      BY <2>2, <2>8 DEF SubstituteBy
    <3>2. DOMAIN p.subs = {}
      BY <2>3, <2>8 DEF Sound, VarTags
    <3>3. Instance(StructureOf[p], structs)
            = Bare(p.id, [i \in DOMAIN p.subs |-> Instance(StructureOf[p.subs[i]], structs)])
      BY <2>8, InstanceOfStructure
    <3>4. StructureOf[p] = Bare(p.id, [i \in DOMAIN p.subs |-> StructureOf[p.subs[i]]])
      BY StructureParts
    <3>5. [i \in DOMAIN p.subs |-> Instance(StructureOf[p.subs[i]], structs)]
            = [i \in DOMAIN p.subs |-> StructureOf[p.subs[i]]]
      BY <3>2
    <3> QED BY <2>6, <3>1, <3>3, <3>4, <3>5
  <2>9. CASE IsGeneric(p) /\ p.id.kind = "CLASS_TYPE_VAR"
    <3> DEFINE k == p.id.num + 1
    <3>1. u = args[k]
      BY <2>2, <2>9 DEF SubstituteBy, SubstituteClassTv
    <3>2. Right(args[k]) /\ StructureOf[args[k]] = structs[k]
      BY <2>4, <2>9 DEF Fits
    <3>3. Instance(StructureOf[p], structs) = structs[k]
      <4>1. StructureOf[p] \in Term /\ StructureOf[p].id = p.id
        BY StructuresAreTerms, StructureParts
      <4> QED BY <2>9, <4>1, Instances
    <3>4. u \in Term
      BY <3>1, <3>2 DEF Right
    <3> QED BY <2>6, <3>1, <3>2, <3>3, <3>4
  <2>10. CASE IsGeneric(p) /\ p.id.kind \notin VarTags
    <3> DEFINE subs == [i \in DOMAIN p.subs |-> sub(p.subs[i], d + 1)]
    <3>1. u = Local(p.id, subs, FlagsAfter(p, subs))
      BY <2>2, <2>10 DEF SubstituteBy, VarTags
    <3>2. n # 0
      BY Levels
    <3>3. n - 1 \in 0..MaxDepth /\ (n - 1) + 1 = n /\ TermTo[n] = Over(TermTo[n - 1])
      BY <3>2, Levels, MaxDepthAssumption
    <3>4. Len(p.subs) = Len(t.subs)
      BY <2>5, <2>10, DifferentAtTop DEF VarTags
    <3>5. DOMAIN p.subs = 1..Len(p.subs) /\ DOMAIN t.subs = 1..Len(p.subs) /\ Len(p.subs) \in Nat
      <4>1. p.subs \in Seq(Term) /\ t.subs \in Seq(Term)
        BY <2>5, TermParts DEF Over
      <4> QED BY <3>4, <4>1
    <3>6. \A i \in DOMAIN p.subs : Instance(StructureOf[p.subs[i]], structs) = StructureOf[t.subs[i]]
      <4>1. p.id = t.id /\ p.id.kind # "CLASS_TYPE_VAR"
        BY <2>5, <2>10, DifferentAtTop DEF VarTags
      <4>2. Solves(structs, PairsTo(p, t, Len(p.subs)))
        BY <2>5, <3>4, <4>1, PairsOfParts
      <4> SUFFICES ASSUME NEW i \in 1..Len(p.subs)
                   PROVE  Instance(StructureOf[p.subs[i]], structs) = StructureOf[t.subs[i]]
        BY <3>5
      <4>3. PICK j : j = <<StructureOf[p.subs[i]], StructureOf[t.subs[i]]>>
        OBVIOUS
      <4>4. j \in PairsTo(p, t, Len(p.subs))
        BY <4>3 DEF PairsTo
      <4>5. j[1] = StructureOf[p.subs[i]] /\ j[2] = StructureOf[t.subs[i]]
        BY <4>3
      <4> QED BY <4>2, <4>4, <4>5 DEF Solves
    <3>7. \A i \in DOMAIN p.subs : sub(p.subs[i], d + 1) \in TermTo[n - 1]
      <4> SUFFICES ASSUME NEW i \in DOMAIN p.subs PROVE sub(p.subs[i], d + 1) \in TermTo[n - 1]
        OBVIOUS
      <4>1. Fits(p.subs[i], args, structs) /\ Right(p.subs[i])
        BY <2>3, <2>4 DEF Fits
      <4>2. t.subs[i] \in TermTo[n - 1]
        BY <3>3, <3>5, LevelParts
      <4>3. d + 1 \in Nat
        OBVIOUS
      <4>4. p.subs[i] \in Good
        BY <1>1
      <4>5. Instance(StructureOf[p.subs[i]], structs) = StructureOf[t.subs[i]]
        BY <3>6
      <4> QED BY <3>3, <4>1, <4>2, <4>3, <4>4, <4>5
    <3>8. subs \in Seq(TermTo[n - 1])
      <4> HIDE DEF sub
      <4>1. subs \in [1..Len(p.subs) -> TermTo[n - 1]]
        BY <3>5, <3>7
      <4> HIDE DEF subs
      <4> QED BY <3>5, <4>1
    <3> HIDE DEF sub, subs
    <3>9. p.id \in Ids /\ p.flags \subseteq Flag
      BY TermParts DEF Over
    <3>10. FlagsAfter(p, subs) \subseteq Flag
      BY <3>9 DEF FlagsAfter, OptionFlags, Represented, Flag
    <3>11. GenericFlag(subs) \subseteq Flag /\ <<"local", 0>> \in Places
      BY DEF GenericFlag, Flag, Places
    <3>12. u \in Over(TermTo[n - 1])
      BY <3>1, <3>8, <3>9, <3>10, <3>11 DEF Local, Over
    <3> QED BY <2>1, <3>3, <3>12
  <2>11. \/ ~IsGeneric(p) \/ p.id.kind = "FUNC_TYPE_VAR"
         \/ IsGeneric(p) /\ p.id.kind = "CLASS_TYPE_VAR"
         \/ IsGeneric(p) /\ p.id.kind \notin VarTags
    BY DEF VarTags
  <2> QED BY <2>7, <2>8, <2>9, <2>10, <2>11
<1> HIDE DEF Good
<1>2. Term \subseteq Good
  BY <1>1, TermInduction
<1> QED
  BY <1>2 DEF Good

\* The structures of the subterms are inside that of the term.
LEMMA StructuresInside ==
  \A t \in Term : \A u \in Subterms[t] : StructureOf[u] \in Subterms[StructureOf[t]]
<1> DEFINE Good == {t \in Term : \A u \in Subterms[t] :
                      StructureOf[u] \in Subterms[StructureOf[t]]}
<1>1. ASSUME NEW t \in Term, \A i \in DOMAIN t.subs : t.subs[i] \in Good
      PROVE  t \in Good
  <2> SUFFICES ASSUME NEW u \in Subterms[t] PROVE StructureOf[u] \in Subterms[StructureOf[t]]
    OBVIOUS
  <2>1. PICK s : s = StructureOf[t]
    OBVIOUS
  <2>2. /\ DOMAIN s.subs = DOMAIN t.subs
        /\ \A i \in DOMAIN t.subs : s.subs[i] = StructureOf[t.subs[i]]
    BY <2>1, StructureParts
  <2>3. s \in Term
    BY <2>1, StructuresAreTerms
  <2>4. Subterms[s] = {s} \cup UNION {Subterms[s.subs[i]] : i \in DOMAIN s.subs}
    BY <2>3, SubtermsOfParts DEF SubtermsBy
  <2>5. Subterms[t] = {t} \cup UNION {Subterms[t.subs[i]] : i \in DOMAIN t.subs}
    BY SubtermsOfParts DEF SubtermsBy
  <2>6. CASE u = t
    BY <2>1, <2>4, <2>6
  <2>7. CASE \E i \in DOMAIN t.subs : u \in Subterms[t.subs[i]]
    <3>1. PICK i \in DOMAIN t.subs : u \in Subterms[t.subs[i]]
      BY <2>7
    <3>2. StructureOf[u] \in Subterms[StructureOf[t.subs[i]]]
      BY <1>1, <3>1
    <3>3. StructureOf[u] \in Subterms[s]
      BY <2>2, <2>4, <3>2
    <3> QED BY <2>1, <3>3
  <2> QED BY <2>5, <2>6, <2>7
<1> HIDE DEF Good
<1>2. Term \subseteq Good
  BY <1>1, TermInduction
<1> QED
  BY <1>2 DEF Good

\* A closed term that a session works with has no variables in it.
LEMMA WellMadeIsClosed ==
  ASSUME NEW S, Interned(S), NEW t, WellMade(t, S), Right(t), ~IsGeneric(t)
  PROVE  IsClosed(t)
<1> SUFFICES ASSUME NEW u \in Subterms[t] PROVE u.id.kind \notin {"CLASS_TYPE_VAR", "NIL"}
  BY DEF IsClosed
<1>1. u.id.kind \notin VarTags
  BY GenericHasVariables DEF Right
<1>2. IsBuiltin(u) \/ IsMade(u) \/ u \in S
  BY DEF WellMade
<1>3. "NIL" \notin MadeKinds
  BY DEF MadeKinds, EnumTags, PlainTags
<1>4. IsMade(u) \/ u \in S => u.id.kind # "NIL"
  BY <1>3 DEF IsMade, Interned
<1>5. IsBuiltin(u) => u.id.kind # "NIL"
  <2>1. ASSUME NEW kind \in Primitives \cup {"I64"}, u = Predefined(kind)
        PROVE  u.id.kind # "NIL"
    <3>1. kind # "NIL"
      BY PrimitivesAssumption
    <3> QED BY <2>1, <3>1 DEF Predefined, Builtin, TagId, Id
  <2>2. ASSUME NEW kind \in VarTags, NEW num \in Nat, u = TypeVariable(kind, num)
        PROVE  u.id.kind # "NIL"
    BY <2>2 DEF TypeVariable, Builtin, Id, VarTags
  <2> QED BY <2>1, <2>2 DEF IsBuiltin
<1> QED
  BY <1>1, <1>2, <1>4, <1>5 DEF VarTags

--------------------------------------------------------------------------------
(* What the sessions work with is matched as the extensions ask. *)

\* The matcher finds exactly the closed terms that are instances of a term whose
\* variables are 1..n, and binds its variables to subterms that make the term.
LEMMA MatchesOfRight ==
  ASSUME FilesAgree, NEW p \in Term, Right(p), NEW t \in Term, Right(t), IsClosed(t),
         NEW n \in Nat, VariablesOf(p) = 1..n
  PROVE  /\ CompleteMatch(p, t) <=>
              \E v \in Values(n, StructureOf[t]) : Instance(StructureOf[p], v) = StructureOf[t]
         /\ CompleteMatch(p, t) =>
              /\ Len(Match(p, t).vars) = n
              /\ SameStructure(Substitute(p, Match(p, t).vars, FALSE), t)
<1> DEFINE pair == <<StructureOf[p], StructureOf[t]>>
<1>1. PICK r : r = Match(p, t)
  OBVIOUS
<1>2. /\ NoMatch \in Matches /\ Matched(NoMatch) /\ Bound(NoMatch) = {}
      /\ Len(NoMatch.vars) = 0
  BY DEF NoMatch, Matches, Matched, Bound
<1>3. r \in Matches
  BY <1>1, <1>2, Prefixes DEF Match, MatchesIn
<1>4. r.vars \in Seq(Term)
  BY <1>3 DEF Matches
<1>5. CompleteMatch(p, t) <=> Matched(r)
  BY <1>1 DEF CompleteMatch, Matched
<1>6. Leads(NoMatch, r, 1..n, Subterms[t], {pair})
  <2>1. Leads(NoMatch, IsPrefix[<<NoMatch, p, t>>], VariablesOf(p), Subterms[t], {pair})
    BY <1>2, MatchLeads
  <2> QED BY <1>1, <2>1 DEF Match
<1>7. \A w : Solves(w, {pair}) <=> Instance(StructureOf[p], w) = StructureOf[t]
  BY DEF Solves
<1> HIDE DEF pair
\* Every instance is matched.
<1>8. ASSUME NEW v \in Values(n, StructureOf[t]),
             Instance(StructureOf[p], v) = StructureOf[t]
      PROVE  Matched(r)
  <2>1. Agrees(v, NoMatch)
    BY <1>2 DEF Agrees
  <2>2. Solves(v, {pair})
    BY <1>7, <1>8
  <2> QED BY <1>2, <1>6, <2>1, <2>2 DEF Leads
\* What a match bound.
<1>9. ASSUME Matched(r)
      PROVE  /\ Len(r.vars) = n
             /\ \A k \in 1..n : r.vars[k] \in Subterms[t]
             /\ \A w : Agrees(w, r) => Instance(StructureOf[p], w) = StructureOf[t]
  <2>1. /\ Bound(r) = Bound(NoMatch) \cup 1..n
        /\ \A l \in Nat : Len(NoMatch.vars) <= l /\ 1..n \subseteq 1..l => Len(r.vars) <= l
        /\ \A k \in Bound(r) \ Bound(NoMatch) : r.vars[k] \in Subterms[t]
        /\ \A w : Agrees(w, r) => Solves(w, {pair})
    BY <1>6, <1>9 DEF Leads
  <2>2. Bound(r) = 1..n
    BY <1>2, <2>1
  <2>3. 1..n \subseteq 1..Len(r.vars)
    BY <1>4, <2>2 DEF Bound
  <2>4. Len(r.vars) \in Nat
    BY <1>4
  <2>5. Len(r.vars) <= n
    BY <1>2, <2>1
  <2>6. n <= Len(r.vars)
    <3>1. CASE n = 0
      BY <2>4, <3>1
    <3>2. CASE n # 0
      <4>1. n \in 1..n
        BY <3>2
      <4>2. n \in 1..Len(r.vars)
        BY <2>3, <4>1
      <4> QED BY <2>4, <4>2
    <3> QED BY <3>1, <3>2
  <2>7. \A k \in 1..n : r.vars[k] \in Subterms[t]
    BY <1>2, <2>1, <2>2
  <2>8. Len(r.vars) = n
    BY <2>4, <2>5, <2>6
  <2>9. \A w : Agrees(w, r) => Instance(StructureOf[p], w) = StructureOf[t]
    BY <1>7, <2>1
  <2> QED BY <2>7, <2>8, <2>9
<1>10. ASSUME Matched(r), NEW w, w = [k \in 1..n |-> StructureOf[r.vars[k]]]
       PROVE  w \in Values(n, StructureOf[t]) /\ Instance(StructureOf[p], w) = StructureOf[t]
  <2>1. \A k \in 1..n : StructureOf[r.vars[k]] \in Subterms[StructureOf[t]]
    BY <1>9, <1>10, StructuresInside
  <2>2. w \in Values(n, StructureOf[t])
    BY <1>10, <2>1 DEF Values
  <2>3. DOMAIN r.vars = 1..n
    BY <1>4, <1>9, <1>10
  <2>4. Agrees(w, r)
    BY <1>10, <2>3 DEF Agrees, Bound
  <2> QED BY <1>9, <1>10, <2>2, <2>4
\* What it bound makes the term.
<1>11. ASSUME Matched(r)
       PROVE  SameStructure(Substitute(p, r.vars, FALSE), t)
  <2>1. PICK w : w = [k \in 1..n |-> StructureOf[r.vars[k]]]
    OBVIOUS
  <2>2. Instance(StructureOf[p], w) = StructureOf[t]
    BY <1>10, <1>11, <2>1
  <2>3. \A k \in 1..n : Right(r.vars[k])
    BY <1>9, <1>11, SubtermsAreRight
  <2>4. Fits(p, r.vars, w)
    <3>1. ASSUME NEW x \in Subterms[p], x.id.kind = "CLASS_TYPE_VAR"
          PROVE  x.id.num + 1 \in 1..n
      BY <3>1 DEF VariablesOf
    <3> QED BY <2>1, <2>3, <3>1 DEF Fits
  <2>5. PICK u : u = Substitution(r.vars, FALSE)[<<p, 0>>]
    OBVIOUS
  <2>6. u \in Term
    <3>1. MaxDepth \in 0..MaxDepth /\ t \in TermTo[MaxDepth]
      BY Levels, MaxDepthAssumption
    <3>2. u \in TermTo[MaxDepth]
      BY <2>2, <2>4, <2>5, <3>1, SubstitutedIsTerm
    <3> QED BY <3>2, Levels
  <2>7. IsInstanceOf(u, p, w)
    <3>1. Unboxed(p, 0, FALSE)
      BY DEF Unboxed
    <3> QED BY <2>4, <2>5, <2>6, <3>1, SubstitutedIsRight
  <2>8. StructureOf[u] = StructureOf[t]
    BY <2>2, <2>7 DEF IsInstanceOf
  <2> QED BY <2>5, <2>8 DEF Substitute, SameStructure, Structure
<1>12. ASSUME Matched(r)
       PROVE  \E v \in Values(n, StructureOf[t]) : Instance(StructureOf[p], v) = StructureOf[t]
  <2>1. PICK w : w = [k \in 1..n |-> StructureOf[r.vars[k]]]
    OBVIOUS
  <2> QED BY <1>10, <1>12, <2>1
<1> QED
  BY <1>1, <1>5, <1>8, <1>9, <1>11, <1>12

LEMMA RightEntriesMatch ==
  FilesAgree /\ ExtensionsUseTheirVariables /\ InductiveRight => MatchInverts
<1> SUFFICES ASSUME FilesAgree, ExtensionsUseTheirVariables, InductiveRight,
                    NEW e \in Working, NEW ref \in DOMAIN Extended, ~IsGeneric(e.term)
             PROVE  LET p == Extension[ref]
                        s == Structure(e.term)
                    IN  /\ CompleteMatch(p, e.term) <=>
                             \E v \in Values(Extended[ref], s) : Instance(Structure(p), v) = s
                        /\ CompleteMatch(p, e.term) =>
                             /\ Len(Match(p, e.term).vars) = Extended[ref]
                             /\ SameStructure(Substitute(p, Match(p, e.term).vars, FALSE), e.term)
  BY DEF MatchInverts
<1>1. /\ Extension[ref] = Resolve[ref] /\ Resolve[ref] \in Term /\ ref \in Refs
      /\ Extended[ref] \in Nat
  BY BoundsAssumption DEF Extension
<1>2. Right(Resolve[ref])
  BY <1>1, ResolvedIsRight
<1>3. VariablesOf(Resolve[ref]) = 1..Extended[ref]
  BY <1>1 DEF ExtensionsUseTheirVariables
<1>4. RightEntry(e) /\ HeldOver(e, interned) /\ Interned(interned)
  BY DEF Working, InductiveRight, Inductive, WalkedOver, Table
<1>5. Right(e.term) /\ e.term \in Term
  BY <1>4 DEF RightEntry, Right
<1>6. IsClosed(e.term)
  BY <1>4, <1>5, WellMadeIsClosed DEF HeldOver
<1> QED
  BY <1>1, <1>2, <1>3, <1>5, <1>6, MatchesOfRight DEF Structure

\* When the files and the runtime agree on the types (FilesAgree) and every
\* extension uses its variables in the type it extends, then TermMatcher finds an
\* extension to apply to a closed type of any session exactly when the type is
\* an instance of what it extends, and the terms it binds make the type.
THEOREM MatchesAreInstances ==
  FilesAgree /\ ExtensionsUseTheirVariables => (Spec => []MatchInverts)
<1> SUFFICES ASSUME FilesAgree, ExtensionsUseTheirVariables PROVE Spec => []MatchInverts
  OBVIOUS
<1>1. Init => InductiveRight
  BY InductiveRightInit
<1>2. InductiveRight /\ [Next]_vars => InductiveRight'
  BY InductiveRightNext
<1>3. InductiveRight => MatchInverts
  BY RightEntriesMatch
<1> QED
  BY <1>1, <1>2, <1>3, PTL DEF Spec
================================================================================
