---------------------------- MODULE TypeInfosProofs ----------------------------
(***************************************************************************)
(* The safety properties of TypeInfos, for every set of terms, whatever    *)
(* they refer to, and every number of threads.                             *)
(*                                                                         *)
(* The argument: one thread walks at a time.  The pending terms are those  *)
(* on the stack of its walk, each once, and each stands at the need that   *)
(* put the next one there; so a request that finds a term pending has come *)
(* back to it.  A type info that is ready has been filled in.              *)
(***************************************************************************)
EXTENDS TypeInfos, SequenceTheorems, TLAPS

HasCause(t) == t \in Unresolvable \cup Circular

\* One thread walks, or is about to return what its walk made.
LockInv ==
  /\ \A th \in Threads : creating[th] # <<>> \/ result[th] # None => lock = th
  /\ \A th \in Threads : creating[th] = <<>> \/ result[th] = None

\* A call of CreateTypeInfo: its term is pending, what it still asks for is
\* what its term needs, and it fails for a cause.
CreationInv(c, states) ==
  /\ states[c.term] = [is |-> "pending", ti |-> Partial(c.term)]
  /\ \A k \in DOMAIN c.todo : \E m \in DOMAIN Needs[c.term] : c.todo[k] = Needs[c.term][m]
  /\ c.failed => HasCause(c.term)

\* A stack of calls: every call but the last is at the need that made the next,
\* and no term is met twice.
ChainInv(s) ==
  \A i, j \in DOMAIN s : i < j =>
    /\ s[i].todo # <<>>
    /\ j = i + 1 => Head(s[i].todo).term = s[j].term
    /\ s[i].term # s[j].term
    /\ s[j].term \in Reached(AllNeedsOf(s[i].term))

StackInv(th) ==
  /\ \A i \in DOMAIN creating[th] : CreationInv(creating[th][i], storage)
  /\ ChainInv(creating[th])

PendingInv ==
  \A t \in Terms : storage[t].is = "pending" =>
    \E th \in Threads : \E i \in DOMAIN creating[th] : creating[th][i].term = t

TableInv ==
  \A t \in Terms :
    /\ storage[t].is = "ready" => contents[storage[t].ti] # Unfilled
    /\ storage[t].is = "failed" => HasCause(t)
    /\ uuidMap[t] # None => storage[uuidMap[t]].is = "ready"

FreshInv == \A p \in fresh : storage[p[1]].is = "ready"

ResultInv ==
  \A th \in Threads : result[th] # None /\ result[th][2] # None =>
    contents[result[th][2]] # Unfilled

IInv ==
  /\ TypeOK
  /\ LockInv
  /\ \A th \in Threads : StackInv(th)
  /\ PendingInv /\ TableInv /\ FreshInv /\ ResultInv
  /\ AnswersAreFinished
------------------------------------------------------------------------------
(***************************************************************************)
(* What Met and Reached close over.                                        *)
(***************************************************************************)

LEMMA NeedsAreTerms ==
  ASSUME NEW t \in Terms
  PROVE  NeedsOf(t) \subseteq AllNeedsOf(t) /\ AllNeedsOf(t) \subseteq Terms
<1>1. Needs[t] \in Seq(Need)
  BY TermsAssumption
<1>2. DOMAIN Needs[t] = 1..Len(Needs[t])
  BY <1>1, LenProperties
<1>3. \A i \in DOMAIN Needs[t] : Needs[t][i] \in Need
  BY <1>1, <1>2, ElementOfSeq
<1>4. \A i \in DOMAIN Needs[t] : Needs[t][i].term \in Terms
  BY <1>3 DEF Need
<1> QED
  BY <1>4 DEF NeedsOf, AllNeedsOf

LEMMA MetItself ==
  ASSUME NEW t \in Terms
  PROVE  t \in Met({t})
  BY DEF Met

\* What a term needs is met by the walk of that term.
LEMMA MetNeeds ==
  ASSUME NEW t \in Terms, NEW u \in NeedsOf(t)
  PROVE  Met({u}) \subseteq Met({t})
  BY DEF Met, ClosedSets

LEMMA ReachedNeeds ==
  ASSUME NEW t \in Terms, NEW u \in AllNeedsOf(t)
  PROVE  u \in Reached(AllNeedsOf(t))
  BY NeedsAreTerms DEF Reached

LEMMA ReachedOn ==
  ASSUME NEW S \in SUBSET Terms, NEW t \in Reached(S), NEW u \in AllNeedsOf(t)
  PROVE  u \in Reached(S)
<1>1. t \in Terms
  BY DEF Reached
<1> QED
  BY <1>1, NeedsAreTerms DEF Reached, AllClosedSets

\* A failure has the cause of the need that failed, ...
LEMMA CauseSpreads ==
  ASSUME NEW t \in Terms, NEW u \in NeedsOf(t), HasCause(u)
  PROVE  HasCause(t)
  BY MetNeeds DEF HasCause, Unresolvable, Circular

\* ... the missing definition, ...
LEMMA CauseIsMissing ==
  ASSUME NEW t \in Terms, t \in Missing
  PROVE  HasCause(t)
  BY MetItself DEF HasCause, Unresolvable

\* ... or the circle that leads back to a term made by the runtime.
LEMMA CauseIsCircle ==
  ASSUME NEW t \in Terms, NEW q \in NeedsOf(t),
         Kind[q] = "query", q \in Reached(AllNeedsOf(q))
  PROVE  HasCause(t)
<1>1. q \in Terms
  BY NeedsAreTerms
<1>2. q \in Met({t})
  BY <1>1, MetItself, MetNeeds
<1> QED
  BY <1>2 DEF HasCause, Circular
------------------------------------------------------------------------------
(***************************************************************************)
(* The stack of calls.                                                     *)
(***************************************************************************)

LEMMA NoCalls == DOMAIN <<>> = {}
  OBVIOUS

LEMMA StackTop ==
  ASSUME NEW s \in Seq(Creation), s # <<>>
  PROVE  /\ Len(s) \in Nat \ {0}
         /\ DOMAIN s = 1..Len(s)
         /\ \A i \in 1..Len(s) : s[i] \in Creation
         /\ s[Len(s)] \in Creation
  BY EmptySeq, LenProperties, ElementOfSeq

LEMMA StackRest ==
  ASSUME NEW s \in Seq(Creation), s # <<>>
  PROVE  /\ SubSeq(s, 1, Len(s) - 1) \in Seq(Creation)
         /\ Len(SubSeq(s, 1, Len(s) - 1)) = Len(s) - 1
         /\ DOMAIN SubSeq(s, 1, Len(s) - 1) = 1..(Len(s) - 1)
         /\ \A i \in 1..(Len(s) - 1) : SubSeq(s, 1, Len(s) - 1)[i] = s[i]
<1>1. Len(s) \in Nat \ {0} /\ \A i \in 1..Len(s) : s[i] \in Creation
  BY StackTop
<1>2. /\ SubSeq(s, 1, Len(s) - 1) \in Seq(Creation)
      /\ Len(SubSeq(s, 1, Len(s) - 1)) = IF 1 <= Len(s) - 1 THEN Len(s) - 1 - 1 + 1 ELSE 0
      /\ \A i \in 1..(Len(s) - 1 - 1 + 1) : SubSeq(s, 1, Len(s) - 1)[i] = s[1 + i - 1]
  BY <1>1, SubSeqProperties
<1>3. Len(SubSeq(s, 1, Len(s) - 1)) = Len(s) - 1
  <2> DEFINE n == Len(s)
             r == SubSeq(s, 1, n - 1)
  <2>1. n \in Nat \ {0} /\ Len(r) = IF 1 <= n - 1 THEN n - 1 - 1 + 1 ELSE 0
    BY <1>1, <1>2
  <2> HIDE DEF n, r
  <2>2. Len(r) = n - 1
    BY <2>1
  <2> QED
    BY <2>2 DEF n, r
<1>4. \A i \in 1..(Len(s) - 1) : SubSeq(s, 1, Len(s) - 1)[i] = s[i]
  BY <1>1, <1>2
<1> QED
  BY <1>2, <1>3, <1>4, LenProperties

\* The last call is replaced.
LEMMA StackReplaced ==
  ASSUME NEW s \in Seq(Creation), s # <<>>, NEW c \in Creation, NEW r,
         r = Append(SubSeq(s, 1, Len(s) - 1), c)
  PROVE  /\ r \in Seq(Creation)
         /\ DOMAIN r = 1..Len(s) /\ r # <<>>
         /\ \A i \in 1..Len(s) : r[i] = IF i = Len(s) THEN c ELSE s[i]
<1>1. Len(s) \in Nat \ {0}
  BY StackTop
<1>2. /\ SubSeq(s, 1, Len(s) - 1) \in Seq(Creation)
      /\ Len(SubSeq(s, 1, Len(s) - 1)) = Len(s) - 1
      /\ \A i \in 1..(Len(s) - 1) : SubSeq(s, 1, Len(s) - 1)[i] = s[i]
  BY StackRest
<1> HIDE DEF Creation
<1>3. r \in Seq(Creation) /\ Len(r) = Len(s)
  BY <1>1, <1>2, AppendProperties
<1>4. \A i \in 1..Len(s) : r[i] = IF i = Len(s) THEN c ELSE s[i]
  BY <1>1, <1>2, AppendProperties
<1> QED
  BY <1>1, <1>3, <1>4, LenProperties, EmptySeq

\* A call is added.
LEMMA StackPushed ==
  ASSUME NEW s \in Seq(Creation), NEW c \in Creation, NEW r, r = Append(s, c)
  PROVE  /\ r \in Seq(Creation)
         /\ DOMAIN r = 1..(Len(s) + 1) /\ r # <<>>
         /\ \A i \in 1..(Len(s) + 1) : r[i] = IF i = Len(s) + 1 THEN c ELSE s[i]
  BY AppendProperties, LenProperties
------------------------------------------------------------------------------
(***************************************************************************)
(* One call of CreateTypeInfo.                                             *)
(***************************************************************************)

LEMMA CreateType ==
  ASSUME NEW t \in Terms
  PROVE  Create(t) \in Creation
  BY TermsAssumption DEF Create, Creation

LEMMA PartialType ==
  ASSUME NEW t \in Terms
  PROVE  Partial(t) \in TypeInfo \cup {None}
  BY DEF Partial, Engines, TypeInfo

LEMMA StateOf ==
  ASSUME TypeOK, NEW t \in Terms
  PROVE  /\ storage[t].is \in {"new", "failed", "pending", "ready"}
         /\ storage[t].ti \in TypeInfo \cup {None}
         /\ storage[t].is = "ready" => storage[t].ti \in TypeInfo
         /\ storage[t].is \in {"new", "failed"} => storage[t].ti = None
  BY DEF TypeOK, State

LEMMA NeedAtHead ==
  ASSUME NEW c \in Creation, c.todo # <<>>
  PROVE  /\ Head(c.todo) \in Need
         /\ Head(c.todo) = c.todo[1] /\ 1 \in DOMAIN c.todo
         /\ Tail(c.todo) \in Seq(Need)
         /\ \A k \in DOMAIN Tail(c.todo) :
              k + 1 \in DOMAIN c.todo /\ Tail(c.todo)[k] = c.todo[k + 1]
<1>1. c.todo \in Seq(Need)
  BY DEF Creation
<1>2. Head(c.todo) \in Need /\ Tail(c.todo) \in Seq(Need)
  BY <1>1, HeadTailProperties
<1>3. Len(c.todo) \in Nat \ {0} /\ DOMAIN c.todo = 1..Len(c.todo)
  BY <1>1, EmptySeq, LenProperties
<1>4. /\ Len(Tail(c.todo)) = Len(c.todo) - 1
      /\ \A k \in 1..Len(Tail(c.todo)) : Tail(c.todo)[k] = c.todo[k + 1]
  BY <1>1, HeadTailProperties
<1>5. DOMAIN Tail(c.todo) = 1..Len(Tail(c.todo))
  BY <1>2, LenProperties
<1>6. Head(c.todo) = c.todo[1]
  BY <1>1
<1> QED
  BY <1>2, <1>3, <1>4, <1>5, <1>6

\* The answer goes to the same term, takes a need off, and fails the call only
\* where the need asks for it.
LEMMA AnsweredCall ==
  ASSUME NEW c \in Creation, c.todo # <<>>, NEW ti \in TypeInfo \cup {None}
  PROVE  /\ Answered(c, ti) \in Creation
         /\ Answered(c, ti).term = c.term
         /\ \A k \in DOMAIN Answered(c, ti).todo :
              \E m \in DOMAIN c.todo : Answered(c, ti).todo[k] = c.todo[m]
         /\ Answered(c, ti).failed =>
              c.failed \/ (ti = None /\ Head(c.todo).mode # "may")
<1> DEFINE call == Answered(c, ti)
<1> HIDE DEF call
<1>h. /\ Tail(c.todo) \in Seq(Need)
      /\ \A k \in DOMAIN Tail(c.todo) : \E m \in DOMAIN c.todo : Tail(c.todo)[k] = c.todo[m]
  BY NeedAtHead
<1>c. /\ c.term \in Terms /\ c.todo \in Seq(Need) /\ c.got \in SUBSET TypeInfo
      /\ c.failed \in BOOLEAN /\ DOMAIN c = {"term", "todo", "got", "failed"}
  BY DEF Creation
<1>1. Head(c.todo).mode \in Modes
  BY NeedAtHead DEF Need
<1>2. CASE ti # None
  <2>1. Answered(c, ti) = [c EXCEPT !.todo = Tail(@), !.got = @ \cup {ti}]
    BY <1>2 DEF Answered
  <2>2. call = [term |-> c.term, todo |-> Tail(c.todo), got |-> c.got \cup {ti},
                failed |-> c.failed]
    BY <2>1 DEF call, Creation
  <2> QED
    BY <1>2, <1>h, <1>c, <2>2 DEF Creation, call
<1>3. CASE ti = None /\ Head(c.todo).mode = "must"
  <2>1. Answered(c, ti) = [c EXCEPT !.todo = <<>>, !.failed = TRUE]
    BY <1>3 DEF Answered
  <2>2. <<>> \in Seq(Need) /\ DOMAIN <<>> = {}
    BY EmptySeq
  <2>3. call = [term |-> c.term, todo |-> <<>>, got |-> c.got, failed |-> TRUE]
    BY <2>1 DEF call, Creation
  <2> QED
    BY <1>3, <1>c, <2>2, <2>3 DEF Creation, call
<1>4. CASE ti = None /\ Head(c.todo).mode = "all"
  <2>1. Answered(c, ti) = [c EXCEPT !.todo = Tail(@), !.failed = TRUE]
    BY <1>4 DEF Answered
  <2>2. call = [term |-> c.term, todo |-> Tail(c.todo), got |-> c.got, failed |-> TRUE]
    BY <2>1 DEF call, Creation
  <2> QED
    BY <1>4, <1>h, <1>c, <2>2 DEF Creation, call
<1>5. CASE ti = None /\ Head(c.todo).mode = "may"
  <2>1. Answered(c, ti) = [c EXCEPT !.todo = Tail(@)]
    BY <1>5 DEF Answered
  <2>2. call = [term |-> c.term, todo |-> Tail(c.todo), got |-> c.got,
                failed |-> c.failed]
    BY <2>1 DEF call, Creation
  <2> QED
    BY <1>5, <1>h, <1>c, <2>2 DEF Creation, call
<1> QED
  BY <1>1, <1>2, <1>3, <1>4, <1>5 DEF Modes

LEMMA MadeType ==
  ASSUME NEW c \in Creation
  PROVE  Made(c) \in TypeInfo \cup {None}
<1>1. c.term \in Terms /\ Builtin[c.term] \in Terms
  BY TermsAssumption DEF Creation
<1> QED
  BY <1>1 DEF Made, Engines, Runtimes, TypeInfo

\* What the head of the list asks for is a need of the term.
LEMMA HeadIsNeed ==
  ASSUME NEW c \in Creation, c.todo # <<>>, CreationInv(c, storage)
  PROVE  /\ Head(c.todo).term \in Terms
         /\ Head(c.todo).term \in AllNeedsOf(c.term)
         /\ Head(c.todo).mode # "may" => Head(c.todo).term \in NeedsOf(c.term)
<1>1. PICK m \in DOMAIN Needs[c.term] : Head(c.todo) = Needs[c.term][m]
  BY NeedAtHead DEF CreationInv
<1>2. Head(c.todo) \in Need
  BY NeedAtHead
<1> QED
  BY <1>1, <1>2 DEF Need, NeedsOf, AllNeedsOf
------------------------------------------------------------------------------
(***************************************************************************)
(* The invariant is preserved, action by action.                           *)
(***************************************************************************)

LEMMA InfosAreNotUnfilled ==
  ASSUME NEW S \in SUBSET TypeInfo
  PROVE  S # Unfilled
  BY NoneAssumption DEF Unfilled

\* While th has the mutex, or nobody has it, the other threads do nothing.
LEMMA OthersWait ==
  ASSUME LockInv, NEW th \in Threads, lock \in {th, None}, NEW o \in Threads, o # th
  PROVE  creating[o] = <<>> /\ result[o] = None
  BY NoneAssumption DEF LockInv

LEMMA NobodyWalks ==
  ASSUME IInv, lock = None
  PROVE  /\ \A th \in Threads : creating[th] = <<>> /\ result[th] = None
         /\ \A t \in Terms : storage[t].is # "pending"
<1>1. \A th \in Threads : creating[th] = <<>> /\ result[th] = None
  BY NoneAssumption DEF IInv, LockInv
<1>2. \A th \in Threads : DOMAIN creating[th] = {}
  BY <1>1, NoCalls
<1> QED
  BY <1>1, <1>2 DEF IInv, PendingInv

LEMMA InitInv == Init => IInv
<1> SUFFICES ASSUME Init PROVE IInv
  OBVIOUS
<1> USE NoneAssumption
<1>1. TypeOK
  <2>1. [is |-> "new", ti |-> None] \in State
    BY DEF State
  <2>2. <<>> \in Seq(Creation)
    BY EmptySeq
  <2>3. storage \in [Terms -> State] /\ creating \in [Threads -> Seq(Creation)]
    BY <2>1, <2>2 DEF Init
  <2>4. uuidMap \in [Terms -> Terms \cup {None}]
    BY DEF Init
  <2>6. result \in [Threads -> Answer \cup {None}]
    BY DEF Init
  <2>5. contents \in [TypeInfo -> {Unfilled} \cup SUBSET TypeInfo]
    BY DEF Init
  <2> QED
    BY <2>3, <2>4, <2>5, <2>6 DEF Init, TypeOK
<1>2. \A th \in Threads : creating[th] = <<>> /\ DOMAIN creating[th] = {}
  BY NoCalls DEF Init
<1>3. LockInv /\ \A th \in Threads : StackInv(th)
  BY <1>2 DEF Init, LockInv, StackInv, ChainInv
<1>4. PendingInv /\ TableInv /\ FreshInv /\ ResultInv /\ AnswersAreFinished
  BY DEF Init, PendingInv, TableInv, FreshInv, ResultInv, AnswersAreFinished
<1> QED
  BY <1>1, <1>3, <1>4 DEF IInv

LEMMA AskKnownStep ==
  ASSUME IInv, NEW th \in Threads, NEW t \in Terms, AskKnown(th, t)
  PROVE  IInv'
<1>1. /\ lock = None /\ storage[t].is # "new"
      /\ answers' = answers \cup {<<t, storage[t].ti>>}
      /\ UNCHANGED <<status, lock, storage, fresh, uuidMap, contents, creating, result>>
  BY DEF AskKnown, LockFree, Known, table
<1>2. storage[t].ti \in TypeInfo \cup {None}
      /\ (storage[t].ti # None => contents[storage[t].ti] # Unfilled)
  BY <1>1, NobodyWalks, StateOf DEF IInv, TableInv
<1>3. TypeOK'
  BY <1>1, <1>2 DEF IInv, TypeOK, Answer
<1>4. AnswersAreFinished'
  BY <1>1, <1>2 DEF IInv, AnswersAreFinished
<1>5. /\ LockInv' /\ PendingInv' /\ TableInv' /\ FreshInv' /\ ResultInv'
      /\ \A o \in Threads : StackInv(o)'
  BY <1>1 DEF IInv, LockInv, StackInv, CreationInv, ChainInv, PendingInv, TableInv,
              FreshInv, ResultInv
<1> QED
  BY <1>3, <1>4, <1>5 DEF IInv

\* A term that was not in the table is pending now.
LEMMA Pended ==
  ASSUME IInv, NEW t \in Terms, ~Known(t), Pend(t), UNCHANGED <<fresh, uuidMap, contents>>
  PROVE  /\ storage' \in [Terms -> State]
         /\ storage'[t] = [is |-> "pending", ti |-> Partial(t)]
         /\ \A u \in Terms : u # t => storage'[u] = storage[u]
         /\ TableInv' /\ FreshInv'
<1>1. [is |-> "pending", ti |-> Partial(t)] \in State
  BY PartialType DEF State
<1>2. storage' \in [Terms -> State]
  BY <1>1 DEF IInv, TypeOK, Pend
<1>3. storage'[t] = [is |-> "pending", ti |-> Partial(t)]
      /\ \A u \in Terms : u # t => storage'[u] = storage[u]
  BY DEF IInv, TypeOK, Pend
<1>4. TableInv'
  <2>1. storage[t].is = "new"
    BY DEF Known
  <2>2. \A u \in Terms : uuidMap[u] \in Terms \cup {None}
    BY DEF IInv, TypeOK
  <2>3. \A u \in Terms : storage'[u].is \in {"ready", "failed"} => storage'[u] = storage[u]
    BY <1>3
  <2>4. \A u \in Terms : storage[u].is = "ready" => storage'[u].is = "ready"
    BY <1>3, <2>1
  <2> QED
    BY <2>2, <2>3, <2>4 DEF IInv, TableInv
<1>5. FreshInv'
  <2>1. \A p \in fresh : p[1] \in Terms
    BY DEF IInv, TypeOK
  <2> QED
    BY <1>3, <2>1 DEF IInv, FreshInv, Known
<1> QED
  BY <1>2, <1>3, <1>4, <1>5

LEMMA AskNewStep ==
  ASSUME IInv, NEW th \in Threads, NEW t \in Terms, AskNew(th, t)
  PROVE  IInv'
<1>1. /\ lock = None /\ ~Known(t) /\ lock' = th /\ Pend(t)
      /\ creating' = [creating EXCEPT ![th] = <<Create(t)>>]
      /\ UNCHANGED <<status, fresh, uuidMap, contents, result, answers>>
  BY DEF AskNew, LockFree
<1>2. /\ \A o \in Threads : creating[o] = <<>> /\ result[o] = None
      /\ \A u \in Terms : storage[u].is # "pending"
  BY <1>1, NobodyWalks
<1>3. /\ storage' \in [Terms -> State]
      /\ storage'[t] = [is |-> "pending", ti |-> Partial(t)]
      /\ \A u \in Terms : u # t => storage'[u] = storage[u]
      /\ TableInv' /\ FreshInv'
  BY <1>1, Pended
<1>4. /\ creating'[th] = <<Create(t)>>
      /\ \A o \in Threads : o # th => creating'[o] = <<>>
  BY <1>1, <1>2 DEF IInv, TypeOK
<1>5. DOMAIN creating'[th] = {1} /\ creating'[th][1] = Create(t) /\ creating'[th] # <<>>
  BY <1>4
<1>6. TypeOK'
  <2>1. <<Create(t)>> \in Seq(Creation)
    BY CreateType
  <2> QED
    BY <1>1, <1>3, <2>1 DEF IInv, TypeOK
<1>7. LockInv'
  BY <1>1, <1>2, <1>4 DEF LockInv
<1>8. \A o \in Threads : StackInv(o)'
  <2>1. CreationInv(Create(t), storage')
    BY <1>3 DEF CreationInv, Create
  <2> QED
    BY <1>4, <1>5, <2>1 DEF StackInv, ChainInv
<1>9. PendingInv'
  BY <1>2, <1>3, <1>5 DEF PendingInv, Create
<1>10. ResultInv' /\ AnswersAreFinished'
  BY <1>1 DEF IInv, ResultInv, AnswersAreFinished
<1> QED
  BY <1>3, <1>6, <1>7, <1>8, <1>9, <1>10 DEF IInv

\* A request of a walk finds its term in the table.
LEMMA NeedKnownStep ==
  ASSUME IInv, NEW th \in Threads, NeedKnown(th)
  PROVE  IInv'
<1> DEFINE s == creating[th]
           n == Len(s)
           t == Head(s[n].todo).term
           c == Answered(s[n], storage[t].ti)
           r == creating'[th]
<1>1. /\ s # <<>> /\ s[n].todo # <<>> /\ storage[t].is # "new"
      /\ creating' = [creating EXCEPT ![th] = Append(SubSeq(s, 1, n - 1), c)]
      /\ UNCHANGED <<status, lock, storage, fresh, uuidMap, contents, result, answers>>
  BY DEF NeedKnown, Walking, Top, Rest, Known, table
<1>2. s \in Seq(Creation) /\ lock = th
  BY <1>1 DEF IInv, TypeOK, LockInv
<1>3. n \in Nat \ {0} /\ DOMAIN s = 1..n /\ \A i \in 1..n : s[i] \in Creation
  BY <1>1, <1>2, StackTop
<1>4. \A i \in 1..n : CreationInv(s[i], storage)
  BY <1>3 DEF IInv, StackInv
<1>5. ChainInv(s)
  BY DEF IInv, StackInv
<1>6. s[n] \in Creation /\ CreationInv(s[n], storage)
  BY <1>3, <1>4
<1>7. t \in Terms /\ t \in AllNeedsOf(s[n].term)
      /\ (Head(s[n].todo).mode # "may" => t \in NeedsOf(s[n].term))
  BY <1>1, <1>6, HeadIsNeed
<1>8. storage[t].ti \in TypeInfo \cup {None}
  BY <1>7, StateOf DEF IInv
<1>9. /\ c \in Creation
      /\ c.term = s[n].term
      /\ \A k \in DOMAIN c.todo : \E m \in DOMAIN s[n].todo : c.todo[k] = s[n].todo[m]
      /\ c.failed => s[n].failed \/ (storage[t].ti = None /\ Head(s[n].todo).mode # "may")
  BY <1>1, <1>6, <1>8, AnsweredCall
<1>10. /\ \A o \in Threads : o # th => creating'[o] = creating[o]
       /\ r = Append(SubSeq(s, 1, n - 1), c)
  BY <1>1 DEF IInv, TypeOK
<1>d. s = creating[th] /\ n = Len(s) /\ r = creating'[th] /\ t = Head(s[n].todo).term
  OBVIOUS
<1> HIDE DEF s, n, t, c, r
<1>11. /\ r \in Seq(Creation) /\ DOMAIN r = 1..n /\ r # <<>>
       /\ \A i \in 1..n : r[i] = IF i = n THEN c ELSE s[i]
  BY <1>1, <1>2, <1>9, <1>10, <1>d, StackReplaced
<1>12. s[n].term \in Terms
  BY <1>6 DEF Creation
\* The walk fails here for a cause.
<1>13. storage[t].ti = None /\ t \in NeedsOf(s[n].term) => HasCause(s[n].term)
  <2> SUFFICES ASSUME storage[t].ti = None, t \in NeedsOf(s[n].term)
               PROVE  HasCause(s[n].term)
    OBVIOUS
  <2>1. CASE storage[t].is = "failed"
    <3>1. HasCause(t)
      BY <2>1, <1>7 DEF IInv, TableInv
    <3> QED
      BY <3>1, <1>12, CauseSpreads
  <2>2. CASE storage[t].is = "pending"
    <3>0. PICK o \in Threads : \E i \in DOMAIN creating[o] : creating[o][i].term = t
      BY <2>2, <1>7 DEF IInv, PendingInv
    <3>1. PICK i \in DOMAIN creating[o] : creating[o][i].term = t
      BY <3>0
    <3>2. o = th /\ i \in 1..n /\ s[i].term = t
      BY <3>1, <1>2, <1>3, <1>d, OthersWait, NoCalls DEF IInv
    <3>3. Partial(t) = None /\ Kind[t] \in Kinds
      <4>1. CreationInv(s[i], storage)
        BY <3>2, <1>4
      <4>2. storage[t].ti = Partial(t)
        BY <4>1, <3>2 DEF CreationInv
      <4> QED
        BY <4>2, <1>7, TermsAssumption
    <3>4. s[i].todo # <<>> /\ s[i] \in Creation /\ CreationInv(s[i], storage)
      BY <3>2, <1>1, <1>3, <1>4, <1>5 DEF ChainInv
    <3>5. \E m \in DOMAIN Needs[t] : TRUE
      BY <3>2, <3>4, NeedAtHead DEF CreationInv
    <3>6. Kind[t] # "builtin"
      BY <3>5, <1>7, NoCalls, TermsAssumption
    <3>7. Kind[t] = "query"
      <4>1. Engines(t) # None
        BY <1>7, NoneAssumption DEF Engines, TypeInfo
      <4> QED
        BY <4>1, <3>3, <3>6 DEF Kinds, Partial
    <3>8. t \in Reached(AllNeedsOf(t))
      <4>1. CASE i = n
        BY <4>1, <3>2, <1>7, ReachedNeeds
      <4>2. CASE i # n
        <5>1. s[n].term \in Reached(AllNeedsOf(t))
          BY <4>2, <3>2, <1>3, <1>5 DEF ChainInv
        <5> QED
          BY <5>1, <1>7, NeedsAreTerms, ReachedOn
      <4> QED
        BY <4>1, <4>2
    <3> QED
      BY <3>7, <3>8, <1>12, CauseIsCircle
  <2> QED
    BY <2>1, <2>2, <1>1, <1>7, <1>d, StateOf, NoneAssumption DEF IInv
<1>14. CreationInv(c, storage')
  <2>1. c.failed => HasCause(c.term)
    BY <1>6, <1>7, <1>9, <1>13 DEF CreationInv
  <2>2. \A k \in DOMAIN c.todo : \E m \in DOMAIN Needs[c.term] : c.todo[k] = Needs[c.term][m]
    BY <1>6, <1>9 DEF CreationInv
  <2>3. storage'[c.term] = [is |-> "pending", ti |-> Partial(c.term)]
    BY <1>1, <1>6, <1>9 DEF CreationInv
  <2> QED
    BY <2>1, <2>2, <2>3 DEF CreationInv
<1>15. \A i \in DOMAIN r : CreationInv(r[i], storage')
  BY <1>1, <1>4, <1>11, <1>14 DEF CreationInv
<1>16. ChainInv(r)
  BY <1>3, <1>5, <1>9, <1>11 DEF ChainInv
<1>17. TypeOK'
  <2>1. creating' \in [Threads -> Seq(Creation)]
    BY <1>1, <1>11, <1>d DEF IInv, TypeOK
  <2> QED
    BY <2>1, <1>1 DEF IInv, TypeOK
<1>18. LockInv'
  BY <1>1, <1>2, <1>10, <1>d DEF IInv, LockInv
<1>19. \A o \in Threads : StackInv(o)'
  <2>1. StackInv(th)'
    BY <1>15, <1>16, <1>d DEF StackInv
  <2>2. \A o \in Threads : o # th => StackInv(o)'
    BY <1>1, <1>10 DEF IInv, StackInv, CreationInv
  <2> QED
    BY <2>1, <2>2
<1>20. PendingInv'
  <2>1. \A i \in DOMAIN s : i \in DOMAIN r /\ r[i].term = s[i].term
    BY <1>3, <1>9, <1>11
  <2>2. \A o \in Threads : \A i \in DOMAIN creating[o] :
          i \in DOMAIN creating'[o] /\ creating'[o][i].term = creating[o][i].term
    BY <2>1, <1>10, <1>d
  <2>3. ASSUME NEW u \in Terms, storage'[u].is = "pending"
        PROVE  \E o \in Threads : \E i \in DOMAIN creating'[o] : creating'[o][i].term = u
    <3>1. PICK o \in Threads : \E i \in DOMAIN creating[o] : creating[o][i].term = u
      BY <2>3, <1>1 DEF IInv, PendingInv
    <3> QED
      BY <3>1, <2>2
  <2> QED
    BY <2>3 DEF PendingInv
<1>21. TableInv' /\ FreshInv' /\ ResultInv' /\ AnswersAreFinished'
  BY <1>1 DEF IInv, TableInv, FreshInv, ResultInv, AnswersAreFinished
<1> QED
  BY <1>17, <1>18, <1>19, <1>20, <1>21 DEF IInv

\* A request of a walk begins to make its term.
LEMMA NeedNewStep ==
  ASSUME IInv, NEW th \in Threads, NeedNew(th)
  PROVE  IInv'
<1> DEFINE s == creating[th]
           n == Len(s)
           t == Head(s[n].todo).term
           r == creating'[th]
<1>1. /\ s # <<>> /\ s[n].todo # <<>> /\ ~Known(t) /\ Pend(t)
      /\ creating' = [creating EXCEPT ![th] = Append(s, Create(t))]
      /\ UNCHANGED <<status, lock, fresh, uuidMap, contents, result, answers>>
  BY DEF NeedNew, Walking, Top, IInv, TypeOK
<1>2. s \in Seq(Creation) /\ lock = th
  BY <1>1 DEF IInv, TypeOK, LockInv
<1>3. n \in Nat \ {0} /\ DOMAIN s = 1..n /\ \A i \in 1..n : s[i] \in Creation
  BY <1>1, <1>2, StackTop
<1>4. \A i \in 1..n : CreationInv(s[i], storage) /\ s[i].term \in Terms
  BY <1>3 DEF IInv, StackInv, Creation
<1>5. ChainInv(s)
  BY DEF IInv, StackInv
<1>6. t \in Terms /\ t \in AllNeedsOf(s[n].term)
  BY <1>1, <1>3, <1>4, HeadIsNeed
<1>7. /\ storage' \in [Terms -> State]
      /\ storage'[t] = [is |-> "pending", ti |-> Partial(t)]
      /\ \A u \in Terms : u # t => storage'[u] = storage[u]
      /\ TableInv' /\ FreshInv'
  BY <1>1, <1>6, Pended
<1>8. /\ \A o \in Threads : o # th => creating'[o] = creating[o]
      /\ r = Append(s, Create(t))
  BY <1>1 DEF IInv, TypeOK
<1>9. storage[t].is = "new"
  BY <1>1 DEF Known
<1>d. /\ s = creating[th] /\ n = Len(s) /\ r = creating'[th]
      /\ t = Head(s[n].todo).term
  OBVIOUS
<1> HIDE DEF s, n, t, r
<1>10. Create(t) \in Creation /\ Create(t).term = t
  BY <1>6, CreateType DEF Create
<1>11. /\ r \in Seq(Creation) /\ DOMAIN r = 1..(n + 1) /\ r # <<>>
       /\ \A i \in 1..(n + 1) : r[i] = IF i = n + 1 THEN Create(t) ELSE s[i]
  BY <1>2, <1>8, <1>10, <1>d, StackPushed
<1>12. \A i \in 1..n : s[i].term # t
  <2> SUFFICES ASSUME NEW i \in 1..n, s[i].term = t
               PROVE  FALSE
    OBVIOUS
  <2>1. storage[t] = [is |-> "pending", ti |-> Partial(t)]
    BY <1>4 DEF CreationInv
  <2>2. storage[t].is = "pending"
    BY <2>1
  <2> QED
    BY <2>2, <1>9
<1>13. StackInv(th)'
  <2>1. CreationInv(Create(t), storage')
    BY <1>7 DEF CreationInv, Create
  <2>2. \A i \in 1..n : CreationInv(s[i], storage')
    BY <1>4, <1>7, <1>12 DEF CreationInv
  <2>3. \A i \in 1..n : t \in Reached(AllNeedsOf(s[i].term))
    <3> SUFFICES ASSUME NEW i \in 1..n PROVE t \in Reached(AllNeedsOf(s[i].term))
      OBVIOUS
    <3>1. CASE i = n
      BY <3>1, <1>4, <1>6, ReachedNeeds
    <3>2. CASE i # n
      <4>1. s[n].term \in Reached(AllNeedsOf(s[i].term))
        BY <3>2, <1>3, <1>5 DEF ChainInv
      <4> QED
        BY <4>1, <1>4, <1>6, NeedsAreTerms, ReachedOn
    <3> QED
      BY <3>1, <3>2
  <2>4. \A i \in 1..n : s[i].todo # <<>>
    BY <1>1, <1>3, <1>5, <1>d DEF ChainInv
  <2>5. ChainInv(r)
    <3> SUFFICES ASSUME NEW i \in 1..(n + 1), NEW j \in 1..(n + 1), i < j
                 PROVE  /\ r[i].todo # <<>>
                        /\ j = i + 1 => Head(r[i].todo).term = r[j].term
                        /\ r[i].term # r[j].term
                        /\ r[j].term \in Reached(AllNeedsOf(r[i].term))
      BY <1>11 DEF ChainInv
    <3>1. i \in 1..n /\ r[i] = s[i]
      BY <1>3, <1>11
    <3>2. CASE j = n + 1
      BY <3>1, <3>2, <2>3, <2>4, <1>3, <1>10, <1>11, <1>12, <1>d
    <3>3. CASE j # n + 1
      <4>1. j \in 1..n /\ r[j] = s[j]
        BY <3>3, <1>3, <1>11
      <4> QED
        BY <3>1, <4>1, <1>3, <1>5 DEF ChainInv
    <3> QED
      BY <3>2, <3>3
  <2>6. \A i \in 1..(n + 1) : CreationInv(r[i], storage')
    BY <2>1, <2>2, <1>3, <1>11
  <2> QED
    BY <2>5, <2>6, <1>11, <1>d DEF StackInv
<1>14. \A o \in Threads : StackInv(o)'
  <2>1. ASSUME NEW o \in Threads, o # th PROVE StackInv(o)'
    <3>1. creating'[o] = <<>>
      BY <2>1, <1>2, <1>8, OthersWait DEF IInv
    <3> QED
      BY <3>1, NoCalls DEF StackInv, ChainInv
  <2> QED
    BY <1>13, <2>1
<1>15. TypeOK'
  <2>1. creating' \in [Threads -> Seq(Creation)]
    BY <1>1, <1>8, <1>11, <1>d DEF IInv, TypeOK
  <2> QED
    BY <2>1, <1>1, <1>7 DEF IInv, TypeOK
<1>16. LockInv'
  BY <1>1, <1>2, <1>8, <1>d DEF IInv, LockInv
<1>17. PendingInv'
  <2>1. ASSUME NEW u \in Terms, storage'[u].is = "pending"
        PROVE  \E o \in Threads : \E i \in DOMAIN creating'[o] : creating'[o][i].term = u
    <3>1. CASE u = t
      <4>1. n + 1 \in DOMAIN r /\ r[n + 1].term = t
        BY <1>3, <1>10, <1>11
      <4> QED
        BY <3>1, <4>1, <1>d
    <3>2. CASE u # t
      <4>1. storage[u].is = "pending"
        BY <2>1, <3>2, <1>7
      <4>2. PICK o \in Threads : \E i \in DOMAIN creating[o] : creating[o][i].term = u
        BY <4>1 DEF IInv, PendingInv
      <4>3. o = th
        BY <4>2, <1>2, OthersWait, NoCalls DEF IInv
      <4>4. PICK i \in DOMAIN s : s[i].term = u
        BY <4>2, <4>3, <1>d
      <4>5. i \in DOMAIN r /\ r[i].term = u
        BY <4>4, <1>3, <1>11
      <4> QED
        BY <4>5, <1>d
    <3> QED
      BY <3>1, <3>2
  <2> QED
    BY <2>1 DEF PendingInv
<1>18. ResultInv' /\ AnswersAreFinished'
  BY <1>1 DEF IInv, ResultInv, AnswersAreFinished
<1> QED
  BY <1>7, <1>14, <1>15, <1>16, <1>17, <1>18 DEF IInv

\* A creation ends: its outcome is stored, and handed down or to the caller.
LEMMA FinishStep ==
  ASSUME IInv, NEW th \in Threads, Finish(th)
  PROVE  IInv'
<1> DEFINE s == creating[th]
           n == Len(s)
           c == s[n]
           ti == Made(c)
           below == SubSeq(s, 1, n - 1)
           a == Answered(below[Len(below)], ti)
           r == creating'[th]
<1>1. /\ s # <<>> /\ c.todo = <<>>
      /\ IF ti = None
         THEN /\ storage' = [storage EXCEPT ![c.term] = [is |-> "failed", ti |-> None]]
              /\ UNCHANGED <<fresh, contents>>
         ELSE /\ storage' = [storage EXCEPT ![c.term] = [is |-> "ready", ti |-> ti]]
              /\ fresh' = fresh \cup {<<c.term, ti>>}
              /\ contents' = [contents EXCEPT ![ti] = c.got]
      /\ UNCHANGED <<status, lock, uuidMap, answers>>
  BY DEF Finish, Top, Failure
<1>2. /\ below = <<>> => /\ creating' = [creating EXCEPT ![th] = <<>>]
                         /\ result' = [result EXCEPT ![th] = <<c.term, ti>>]
      /\ below # <<>> =>
           /\ creating' = [creating EXCEPT ![th] = [below EXCEPT ![Len(below)] = a]]
           /\ result' = result
  BY DEF Finish, Top, Rest
<1>3. /\ storage \in [Terms -> State] /\ contents \in [TypeInfo -> {Unfilled} \cup SUBSET TypeInfo]
      /\ fresh \subseteq Terms \X TypeInfo /\ creating \in [Threads -> Seq(Creation)]
      /\ result \in [Threads -> Answer \cup {None}]
      /\ \A u \in Terms : uuidMap[u] \in Terms \cup {None}
  BY DEF IInv, TypeOK
<1>4. s \in Seq(Creation) /\ lock = th /\ result[th] = None
  BY <1>1, <1>3 DEF IInv, LockInv
<1>5. n \in Nat \ {0} /\ DOMAIN s = 1..n /\ \A i \in 1..n : s[i] \in Creation
  BY <1>1, <1>4, StackTop
<1>6. \A i \in 1..n : CreationInv(s[i], storage) /\ s[i].term \in Terms
  BY <1>5 DEF IInv, StackInv, Creation
<1>7. ChainInv(s)
  BY DEF IInv, StackInv
<1>8. /\ below \in Seq(Creation) /\ Len(below) = n - 1
      /\ \A i \in 1..(n - 1) : below[i] = s[i]
  BY <1>1, <1>4, StackRest
<1>9. /\ c \in Creation /\ c.term \in Terms /\ c.got \in SUBSET TypeInfo
      /\ CreationInv(c, storage) /\ ti \in TypeInfo \cup {None}
  BY <1>5, <1>6, MadeType DEF Creation
<1>10. storage[c.term].is = "pending"
  <2>1. storage[c.term] = [is |-> "pending", ti |-> Partial(c.term)]
    BY <1>9 DEF CreationInv
  <2> QED
    BY <2>1
<1>11. ti = None => HasCause(c.term)
  <2>1. Engines(c.term) # None /\ Runtimes(c.term) # None /\ Runtimes(Builtin[c.term]) # None
    BY <1>9, NoneAssumption, TermsAssumption DEF Engines, Runtimes, TypeInfo
  <2>2. ti = None => c.failed \/ c.term \in Missing
    BY <2>1 DEF Made
  <2> QED
    BY <2>2, <1>9, CauseIsMissing DEF CreationInv
<1>12. \A o \in Threads : o # th => creating[o] = <<>> /\ result[o] = None
  BY <1>4, OthersWait DEF IInv
<1>13. /\ \A o \in Threads : o # th => creating'[o] = creating[o]
       /\ r = IF below = <<>> THEN <<>> ELSE [below EXCEPT ![Len(below)] = a]
       /\ \A o \in Threads : o # th => result'[o] = result[o]
       /\ result'[th] = IF below = <<>> THEN <<c.term, ti>> ELSE None
  BY <1>2, <1>3, <1>4
<1>d. s = creating[th] /\ n = Len(s) /\ r = creating'[th] /\ c = s[n]
  OBVIOUS
<1>da. below # <<>> => a = Answered(below[Len(below)], ti)
  OBVIOUS
<1> HIDE DEF s, n, c, ti, below, a, r
\* The table.
<1>14. /\ storage'[c.term] = IF ti = None THEN [is |-> "failed", ti |-> None]
                                          ELSE [is |-> "ready", ti |-> ti]
       /\ \A u \in Terms : u # c.term => storage'[u] = storage[u]
  BY <1>1, <1>3, <1>9
<1>15. storage' \in [Terms -> State]
  <2>1. [is |-> "failed", ti |-> None] \in State
    BY DEF State
  <2>2. ti # None => [is |-> "ready", ti |-> ti] \in State
    BY <1>9 DEF State
  <2> QED
    BY <2>1, <2>2, <1>1, <1>3
<1>16. /\ contents' \in [TypeInfo -> {Unfilled} \cup SUBSET TypeInfo]
       /\ \A i \in TypeInfo : contents[i] # Unfilled => contents'[i] # Unfilled
       /\ ti # None => contents'[ti] # Unfilled
  BY <1>1, <1>3, <1>9, InfosAreNotUnfilled
<1>17. storage'[c.term].is = (IF ti = None THEN "failed" ELSE "ready")
       /\ storage'[c.term].ti = ti
  <2>1. CASE ti = None
    BY <2>1, <1>14
  <2>2. CASE ti # None
    BY <2>2, <1>14
  <2> QED
    BY <2>1, <2>2
<1>18. TableInv'
  <2> SUFFICES ASSUME NEW u \in Terms
               PROVE  /\ storage'[u].is = "ready" => contents'[storage'[u].ti] # Unfilled
                      /\ storage'[u].is = "failed" => HasCause(u)
                      /\ uuidMap[u] # None => storage'[uuidMap[u]].is = "ready"
    BY <1>1 DEF TableInv
  <2>0. uuidMap[u] # None => storage'[uuidMap[u]].is = "ready"
    <3>1. uuidMap[u] # None => uuidMap[u] # c.term /\ uuidMap[u] \in Terms
      BY <1>3, <1>10 DEF IInv, TableInv
    <3> QED
      BY <3>1, <1>14 DEF IInv, TableInv
  <2>1. CASE u = c.term
    BY <2>0, <2>1, <1>9, <1>11, <1>16, <1>17
  <2>2. CASE u # c.term
    <3>1. storage'[u] = storage[u] /\ (storage[u].is = "ready" => storage[u].ti \in TypeInfo)
      BY <2>2, <1>14, StateOf DEF IInv
    <3>2. contents[storage[u].ti] # Unfilled \/ storage[u].is # "ready"
      BY DEF IInv, TableInv
    <3> QED
      BY <2>0, <3>1, <3>2, <1>16 DEF IInv, TableInv
  <2> QED
    BY <2>1, <2>2
<1>19. FreshInv'
  <2> SUFFICES ASSUME NEW p \in fresh' PROVE storage'[p[1]].is = "ready"
    BY DEF FreshInv
  <2>1. CASE p \in fresh
    <3>1. p[1] \in Terms /\ storage[p[1]].is = "ready"
      BY <2>1, <1>3 DEF IInv, FreshInv
    <3> QED
      BY <3>1, <1>10, <1>14
  <2>2. CASE p \notin fresh
    BY <2>2, <1>1, <1>17
  <2> QED
    BY <2>1, <2>2
\* The stack.
<1>20. ASSUME below = <<>>
       PROVE  /\ \A o \in Threads : StackInv(o)'
              /\ LockInv' /\ PendingInv' /\ ResultInv'
              /\ creating' \in [Threads -> Seq(Creation)]
              /\ result' \in [Threads -> Answer \cup {None}]
  <2>1. n = 1 /\ r = <<>>
    BY <1>20, <1>5, <1>8, <1>13
  <2>2. \A o \in Threads : creating'[o] = <<>>
    BY <2>1, <1>12, <1>13, <1>d
  <2>3. \A o \in Threads : StackInv(o)'
    BY <2>2, NoCalls DEF StackInv, ChainInv
  <2>4. PendingInv'
    <3> SUFFICES ASSUME NEW u \in Terms, storage'[u].is = "pending" PROVE FALSE
      BY DEF PendingInv
    <3>1. u # c.term
      BY <1>17
    <3>2. storage[u].is = "pending"
      BY <3>1, <1>14
    <3>3. PICK o \in Threads : \E i \in DOMAIN creating[o] : creating[o][i].term = u
      BY <3>2 DEF IInv, PendingInv
    <3>4. o = th
      BY <3>3, <1>12, NoCalls
    <3>5. PICK i \in DOMAIN s : s[i].term = u
      BY <3>3, <3>4, <1>d
    <3> QED
      BY <3>5, <3>1, <2>1, <1>5, <1>d
  <2>5. result'[th] = <<c.term, ti>> /\ ti # None => contents'[result'[th][2]] # Unfilled
    BY <1>16
  <2>6. ResultInv'
    BY <2>5, <1>12, <1>13, <1>20 DEF ResultInv
  <2>7. LockInv'
    BY <2>2, <1>1, <1>4, <1>12, <1>13 DEF LockInv
  <2>8. creating' \in [Threads -> Seq(Creation)] /\ result' \in [Threads -> Answer \cup {None}]
    <3>1. <<>> \in Seq(Creation) /\ <<c.term, ti>> \in Answer
      BY <1>9, EmptySeq DEF Answer
    <3> QED
      BY <3>1, <1>2, <1>3, <1>20
  <2> QED
    BY <2>3, <2>4, <2>6, <2>7, <2>8
<1>21. ASSUME below # <<>>
       PROVE  /\ \A o \in Threads : StackInv(o)'
              /\ LockInv' /\ PendingInv' /\ ResultInv'
              /\ creating' \in [Threads -> Seq(Creation)]
              /\ result' \in [Threads -> Answer \cup {None}]
  <2>1. Len(below) = n - 1 /\ n - 1 \in 1..n /\ n # 1 /\ n \in 1..n
    BY <1>21, <1>5, <1>8, EmptySeq
  <2>2. below[Len(below)] = s[n - 1]
    BY <2>1, <1>8
  <2>3. /\ s[n - 1] \in Creation /\ s[n - 1].term \in Terms /\ CreationInv(s[n - 1], storage)
        /\ s[n - 1].todo # <<>> /\ Head(s[n - 1].todo).term = c.term
    <3>1. s[n - 1].todo # <<>> /\ Head(s[n - 1].todo).term = s[n].term
      BY <2>1, <1>5, <1>7 DEF ChainInv
    <3> QED
      BY <3>1, <2>1, <1>5, <1>6, <1>d
  <2>4. /\ a \in Creation
        /\ a.term = s[n - 1].term
        /\ \A k \in DOMAIN a.todo : \E m \in DOMAIN s[n - 1].todo : a.todo[k] = s[n - 1].todo[m]
        /\ a.failed => s[n - 1].failed \/ (ti = None /\ Head(s[n - 1].todo).mode # "may")
    BY <2>2, <2>3, <1>9, <1>21, <1>da, AnsweredCall
  <2>5. /\ r \in Seq(Creation) /\ DOMAIN r = 1..(n - 1) /\ r # <<>>
        /\ \A i \in 1..(n - 1) : r[i] = IF i = n - 1 THEN a ELSE s[i]
    <3>1. r = [below EXCEPT ![Len(below)] = a]
      BY <1>13, <1>21
    <3>2. below \in Seq(Creation) /\ Len(below) \in 1..Len(below)
      BY <2>1, <1>5, <1>8
    <3>3. r \in Seq(Creation) /\ Len(r) = Len(below)
      BY <3>1, <3>2, <2>4, ExceptSeq
    <3>4. DOMAIN r = 1..(n - 1) /\ DOMAIN below = 1..(n - 1)
      BY <3>2, <3>3, <2>1, LenProperties
    <3>5. \A i \in 1..(n - 1) : r[i] = IF i = n - 1 THEN a ELSE s[i]
      BY <3>1, <3>4, <2>1, <1>8
    <3> QED
      BY <3>3, <3>4, <3>5, <2>1, EmptySeq
  <2>6. \A i \in 1..(n - 1) : s[i].term # c.term
    <3> SUFFICES ASSUME NEW i \in 1..(n - 1) PROVE s[i].term # s[n].term
      BY <1>d
    <3>1. i \in DOMAIN s /\ n \in DOMAIN s /\ i < n
      BY <1>5
    <3> QED
      BY <3>1, <1>7 DEF ChainInv
  <2>7. a.failed => HasCause(a.term)
    <3>1. Head(s[n - 1].todo).mode # "may" => c.term \in NeedsOf(s[n - 1].term)
      BY <2>3, HeadIsNeed
    <3>2. ti = None /\ Head(s[n - 1].todo).mode # "may" => HasCause(s[n - 1].term)
      BY <3>1, <2>3, <1>11, CauseSpreads
    <3> QED
      BY <3>2, <2>3, <2>4 DEF CreationInv
  <2>8. CreationInv(a, storage')
    <3>1. storage'[a.term] = [is |-> "pending", ti |-> Partial(a.term)]
      BY <2>1, <2>3, <2>4, <2>6, <1>14 DEF CreationInv
    <3>2. \A k \in DOMAIN a.todo : \E m \in DOMAIN Needs[a.term] : a.todo[k] = Needs[a.term][m]
      BY <2>3, <2>4 DEF CreationInv
    <3> QED
      BY <3>1, <3>2, <2>7 DEF CreationInv
  <2>9. \A i \in 1..(n - 1) : CreationInv(s[i], storage')
    BY <2>6, <1>5, <1>6, <1>14 DEF CreationInv
  <2>10. \A i \in DOMAIN r : CreationInv(r[i], storage')
    BY <2>5, <2>8, <2>9
  <2>11. ChainInv(r)
    <3>1. \A i \in DOMAIN r : r[i].term = s[i].term /\ (i # n - 1 => r[i] = s[i])
      BY <2>4, <2>5
    <3> SUFFICES ASSUME NEW i \in 1..(n - 1), NEW j \in 1..(n - 1), i < j
                 PROVE  /\ r[i].todo # <<>>
                        /\ j = i + 1 => Head(r[i].todo).term = r[j].term
                        /\ r[i].term # r[j].term
                        /\ r[j].term \in Reached(AllNeedsOf(r[i].term))
      BY <2>5 DEF ChainInv
    <3>2. i # n - 1 /\ i \in 1..n /\ j \in 1..n
      BY <1>5
    <3>3. r[i] = s[i] /\ r[j].term = s[j].term
      BY <3>1, <3>2, <2>5
    <3> QED
      BY <3>2, <3>3, <1>5, <1>7 DEF ChainInv
  <2>12. \A o \in Threads : StackInv(o)'
    <3>1. StackInv(th)'
      BY <2>10, <2>11, <1>d DEF StackInv
    <3>2. \A o \in Threads : o # th => StackInv(o)'
      <4>1. \A o \in Threads : o # th => creating'[o] = <<>>
        BY <1>12, <1>13
      <4> QED
        BY <4>1, NoCalls DEF StackInv, ChainInv
    <3> QED
      BY <3>1, <3>2
  <2>13. PendingInv'
    <3> SUFFICES ASSUME NEW u \in Terms, storage'[u].is = "pending"
                 PROVE  \E o \in Threads : \E i \in DOMAIN creating'[o] : creating'[o][i].term = u
      BY DEF PendingInv
    <3>1. u # c.term
      BY <1>17
    <3>2. storage[u].is = "pending"
      BY <3>1, <1>14
    <3>3. PICK o \in Threads : \E i \in DOMAIN creating[o] : creating[o][i].term = u
      BY <3>2 DEF IInv, PendingInv
    <3>4. o = th
      BY <3>3, <1>12, NoCalls
    <3>5. PICK i \in DOMAIN s : s[i].term = u
      BY <3>3, <3>4, <1>d
    <3>6. i \in 1..(n - 1)
      BY <3>1, <3>5, <1>5, <1>d
    <3>7. i \in DOMAIN r /\ r[i].term = u
      BY <3>5, <3>6, <2>4, <2>5
    <3> QED
      BY <3>7, <1>d
  <2>14. ResultInv' /\ result' = result
    <3>1. result' = result
      BY <1>2, <1>21
    <3>2. \A o \in Threads : result[o] = None
      BY <1>4, <1>12
    <3> QED
      BY <3>1, <3>2 DEF ResultInv
  <2>15. LockInv'
    BY <2>5, <2>14, <1>1, <1>4, <1>12, <1>13, <1>d DEF LockInv
  <2>16. creating' \in [Threads -> Seq(Creation)]
    BY <2>5, <1>2, <1>3, <1>21, <1>d
  <2> QED
    BY <2>12, <2>13, <2>14, <2>15, <2>16, <1>3
<1>22. TypeOK'
  <2>1. fresh' \subseteq Terms \X TypeInfo
    BY <1>1, <1>3, <1>9
  <2>2. creating' \in [Threads -> Seq(Creation)] /\ result' \in [Threads -> Answer \cup {None}]
    BY <1>20, <1>21
  <2> QED
    BY <2>1, <2>2, <1>1, <1>15, <1>16 DEF IInv, TypeOK
<1>23. AnswersAreFinished'
  <2>1. \A x \in answers : x[2] \in TypeInfo \cup {None}
    BY DEF IInv, TypeOK, Answer
  <2> QED
    BY <2>1, <1>1, <1>16 DEF IInv, AnswersAreFinished
<1> QED
  BY <1>18, <1>19, <1>20, <1>21, <1>22, <1>23 DEF IInv

\* The outermost call returns: the UUIDs are entered, or the engine gives up.
LEMMA ReturnStep ==
  ASSUME IInv, NEW th \in Threads, Return(th)
  PROVE  IInv'
<1>1. /\ result[th] # None
      /\ Clash => UNCHANGED <<lock, fresh, uuidMap, result, answers>> /\ status' = "fatal"
      /\ ~Clash => /\ uuidMap' = EnterFresh /\ fresh' = {} /\ lock' = None
                   /\ answers' = answers \cup {result[th]}
                   /\ result' = [result EXCEPT ![th] = None]
                   /\ status' = status
      /\ UNCHANGED <<storage, contents, creating>>
  BY DEF Return, Unlock
<1>2. \A o \in Threads : StackInv(o)'
  BY <1>1 DEF IInv, StackInv, CreationInv
<1>3. PendingInv'
  BY <1>1 DEF IInv, PendingInv
<1>4. CASE Clash
  <2>1. UNCHANGED <<lock, storage, fresh, uuidMap, contents, creating, result, answers>>
    BY <1>1, <1>4
  <2>2. TypeOK'
    BY <2>1, <1>1, <1>4 DEF IInv, TypeOK
  <2>3. LockInv' /\ TableInv' /\ FreshInv' /\ ResultInv' /\ AnswersAreFinished'
    BY <2>1 DEF IInv, LockInv, TableInv, FreshInv, ResultInv, AnswersAreFinished
  <2> QED
    BY <2>2, <2>3, <1>2, <1>3 DEF IInv
<1>5. CASE ~Clash
  <2>1. lock = th /\ creating[th] = <<>> /\ result[th] \in Answer
    BY <1>1 DEF IInv, LockInv, TypeOK
  <2>2. \A o \in Threads : o # th => creating[o] = <<>> /\ result[o] = None
    BY <2>1, OthersWait DEF IInv
  <2>3. /\ fresh \subseteq Terms \X TypeInfo
        /\ \A u \in Terms : uuidMap[u] \in Terms \cup {None}
        /\ \A o \in Threads : result'[o] = None
    BY <2>2, <1>1, <1>5 DEF IInv, TypeOK
  <2>4. ASSUME NEW u \in Terms
        PROVE  /\ uuidMap'[u] \in Terms \cup {None}
               /\ uuidMap'[u] # None => storage[uuidMap'[u]].is = "ready"
    <3>1. CASE \E p \in fresh : p[2].of = u
      <4>1. PICK p \in fresh : uuidMap'[u] = p[1]
        BY <3>1, <1>1, <1>5 DEF EnterFresh
      <4> QED
        BY <4>1, <2>3 DEF IInv, FreshInv
    <3>2. CASE ~\E p \in fresh : p[2].of = u
      <4>1. uuidMap'[u] = uuidMap[u]
        BY <3>2, <1>1, <1>5 DEF EnterFresh
      <4> QED
        BY <4>1, <2>3 DEF IInv, TableInv
    <3> QED
      BY <3>1, <3>2
  <2>5. TypeOK'
    <3>1. uuidMap' \in [Terms -> Terms \cup {None}]
      BY <2>4, <1>1, <1>5 DEF EnterFresh
    <3>2. result' \in [Threads -> Answer \cup {None}] /\ answers' \subseteq Answer
      BY <2>1, <1>1, <1>5 DEF IInv, TypeOK
    <3> QED
      BY <3>1, <3>2, <1>1, <1>5 DEF IInv, TypeOK
  <2>6. LockInv'
    BY <2>1, <2>2, <2>3, <1>1 DEF LockInv
  <2>7. TableInv' /\ FreshInv' /\ ResultInv'
    BY <2>3, <2>4, <1>1, <1>5 DEF IInv, TableInv, FreshInv, ResultInv
  <2>8. AnswersAreFinished'
    BY <1>1, <1>5 DEF IInv, ResultInv, AnswersAreFinished
  <2> QED
    BY <2>5, <2>6, <2>7, <2>8, <1>2, <1>3 DEF IInv
<1> QED
  BY <1>4, <1>5

\* A type info the runtime presents is entered with its parts.
LEMMA AcquireTermStep ==
  ASSUME IInv, NEW t \in Native, AcquireTerm(t)
  PROVE  IInv'
<1> DEFINE new == UnknownParts(t)
           At(p) == IF p \in new THEN p ELSE uuidMap[p]
<1>1. /\ lock = None /\ new \subseteq Native
      /\ uuidMap' = [u \in Terms |-> IF u \in new THEN u ELSE uuidMap[u]]
      /\ storage' = [u \in Terms |-> IF u \in new THEN [is |-> "ready", ti |-> Runtimes(u)]
                                     ELSE storage[u]]
      /\ contents' = [i \in TypeInfo |->
           IF i.by = "runtime" /\ i.of \in new /\ contents[i] = Unfilled
           THEN {storage'[At(p)].ti : p \in Parts[i.of] \ {i.of}}
           ELSE contents[i]]
      /\ UNCHANGED <<status, lock, fresh, creating, result, answers>>
  BY DEF AcquireTerm, LockFree
<1>2. /\ \A th \in Threads : creating[th] = <<>> /\ result[th] = None
      /\ \A u \in Terms : storage[u].is # "pending"
  BY <1>1, NobodyWalks
<1>3. /\ t \in Terms /\ Parts[t] \subseteq Terms /\ new \subseteq Terms
      /\ \A p \in Parts[t] : p \in new \/ uuidMap[p] # None
      /\ \A q \in new : Parts[q] \subseteq Parts[t]
  BY <1>1, TermsAssumption DEF UnknownParts
<1>4. /\ \A u \in Terms : uuidMap[u] \in Terms \cup {None}
      /\ \A u \in Terms : uuidMap[u] # None => storage[uuidMap[u]].is = "ready"
      /\ storage \in [Terms -> State]
      /\ contents \in [TypeInfo -> {Unfilled} \cup SUBSET TypeInfo]
      /\ fresh \subseteq Terms \X TypeInfo
  BY DEF IInv, TypeOK, TableInv
<1>d. new = UnknownParts(t) /\ \A p : At(p) = IF p \in new THEN p ELSE uuidMap[p]
  OBVIOUS
<1> HIDE DEF new, At
<1>5. \A u \in Terms :
        /\ u \in new => storage'[u].is = "ready" /\ storage'[u].ti = Runtimes(u)
        /\ u \notin new => storage'[u] = storage[u]
  BY <1>1
<1>6. \A u \in Terms : Runtimes(u) \in TypeInfo
  BY DEF Runtimes, TypeInfo
<1>7. \A u \in Terms : storage[u].is = "ready" \/ u \in new =>
        storage'[u].is = "ready" /\ storage'[u].ti \in TypeInfo
  BY <1>5, <1>6, StateOf DEF IInv
<1>8. \A p \in Parts[t] : At(p) \in Terms /\ storage'[At(p)].ti \in TypeInfo
  BY <1>d, <1>3, <1>4, <1>7
<1>9. \A i \in TypeInfo :
        /\ contents'[i] = IF i.by = "runtime" /\ i.of \in new /\ contents[i] = Unfilled
                          THEN {storage'[At(p)].ti : p \in Parts[i.of] \ {i.of}}
                          ELSE contents[i]
        /\ i.of \in new => {storage'[At(p)].ti : p \in Parts[i.of] \ {i.of}} \in SUBSET TypeInfo
  <2>1. \A q \in new : {storage'[At(p)].ti : p \in Parts[q] \ {q}} \in SUBSET TypeInfo
    BY <1>3, <1>8
  <2> QED
    BY <2>1, <1>1
<1>10. contents' \in [TypeInfo -> {Unfilled} \cup SUBSET TypeInfo]
  <2>1. \A i \in TypeInfo : contents'[i] \in {Unfilled} \cup SUBSET TypeInfo
    BY <1>4, <1>9
  <2>2. DOMAIN contents' = TypeInfo /\ contents' = [i \in TypeInfo |-> contents'[i]]
    BY <1>1
  <2> QED
    BY <2>1, <2>2
<1>11. \A i \in TypeInfo :
         /\ contents[i] # Unfilled => contents'[i] # Unfilled
         /\ i.by = "runtime" /\ i.of \in new => contents'[i] # Unfilled
  BY <1>9, InfosAreNotUnfilled
<1>12. TypeOK'
  <2>1. storage' \in [Terms -> State]
    <3>1. \A u \in Terms : [is |-> "ready", ti |-> Runtimes(u)] \in State
      BY <1>6 DEF State
    <3> QED
      BY <3>1, <1>1, <1>4
  <2>2. uuidMap' \in [Terms -> Terms \cup {None}]
    BY <1>1, <1>4
  <2> QED
    BY <2>1, <2>2, <1>1, <1>10 DEF IInv, TypeOK
<1>13. TableInv'
  <2> SUFFICES ASSUME NEW u \in Terms
               PROVE  /\ storage'[u].is = "ready" => contents'[storage'[u].ti] # Unfilled
                      /\ storage'[u].is = "failed" => HasCause(u)
                      /\ uuidMap'[u] # None => storage'[uuidMap'[u]].is = "ready"
    BY DEF TableInv
  <2>1. uuidMap'[u] # None => storage'[uuidMap'[u]].is = "ready"
    BY <1>1, <1>3, <1>4, <1>7
  <2>2. CASE u \in new
    <3>1. Runtimes(u).by = "runtime" /\ Runtimes(u).of = u
      BY DEF Runtimes
    <3> QED
      BY <2>1, <2>2, <3>1, <1>5, <1>6, <1>11
  <2>3. CASE u \notin new
    <3>1. storage'[u] = storage[u] /\ (storage[u].is = "ready" => storage[u].ti \in TypeInfo)
      BY <2>3, <1>5, StateOf DEF IInv
    <3>2. /\ storage[u].is = "ready" => contents[storage[u].ti] # Unfilled
          /\ storage[u].is = "failed" => HasCause(u)
      BY DEF IInv, TableInv
    <3> QED
      BY <2>1, <3>1, <3>2, <1>11
  <2> QED
    BY <2>2, <2>3
<1>14. FreshInv'
  BY <1>1, <1>4, <1>7 DEF IInv, FreshInv
<1>15. LockInv' /\ ResultInv' /\ \A o \in Threads : StackInv(o)'
  BY <1>1, <1>2, NoCalls DEF LockInv, ResultInv, StackInv, ChainInv
<1>16. PendingInv'
  <2>1. \A u \in Terms : storage'[u].is # "pending"
    BY <1>2, <1>5
  <2> QED
    BY <2>1 DEF PendingInv
<1>17. AnswersAreFinished'
  <2>1. \A x \in answers : x[2] \in TypeInfo \cup {None}
    BY DEF IInv, TypeOK, Answer
  <2> QED
    BY <2>1, <1>1, <1>11 DEF IInv, AnswersAreFinished
<1> QED
  BY <1>12, <1>13, <1>14, <1>15, <1>16, <1>17 DEF IInv

LEMMA NextInv == IInv /\ [Next]_vars => IInv'
<1> SUFFICES ASSUME IInv, [Next]_vars PROVE IInv'
  OBVIOUS
<1>1. ASSUME NEW th \in Threads, EngineStep(th) PROVE IInv'
  BY <1>1, NeedKnownStep, NeedNewStep, FinishStep, ReturnStep DEF EngineStep
<1>2. CASE UNCHANGED vars
  <2>1. UNCHANGED <<status, lock, storage, fresh, uuidMap, contents, creating, result, answers>>
    BY <1>2 DEF vars, table
  <2>2. TypeOK'
    BY <2>1 DEF IInv, TypeOK
  <2>3. LockInv' /\ \A th \in Threads : StackInv(th)'
    BY <2>1 DEF IInv, LockInv, StackInv, CreationInv
  <2>4. PendingInv' /\ TableInv' /\ FreshInv' /\ ResultInv' /\ AnswersAreFinished'
    BY <2>1 DEF IInv, PendingInv, TableInv, FreshInv, ResultInv, AnswersAreFinished
  <2> QED
    BY <2>2, <2>3, <2>4 DEF IInv
<1> QED
  BY <1>1, <1>2, AskKnownStep, AskNewStep, AcquireTermStep DEF Next
------------------------------------------------------------------------------
(***************************************************************************)
(* The theorems that hold whatever type infos the runtime has built in.    *)
(***************************************************************************)

\* The inductive invariant: one thread walks, the pending terms are on its
\* stack, what is ready has been filled in, what failed has a cause.
THEOREM Invariant == Spec => []IInv
  BY InitInv, NextInv, PTL DEF Spec

\* The state of the table, of the walks and of the answers has its type.
THEOREM TypeCorrect == Spec => []TypeOK
<1>1. IInv => TypeOK
  BY DEF IInv
<1> QED
  BY <1>1, Invariant, PTL

\* No caller of AcquireTypeInfo is handed the unfinished object of a walk.
THEOREM AnswersFinished == Spec => []AnswersAreFinished
<1>1. IInv => AnswersAreFinished
  BY DEF IInv
<1> QED
  BY <1>1, Invariant, PTL

\* A term fails only if its walk meets a definition that is not there, or comes
\* back to a term of which nothing is registered: what was asked for before,
\* by whom and in which order, does not matter.
THEOREM FailuresCaused == Spec => []FailuresHaveACause
<1>1. IInv => FailuresHaveACause
  BY DEF IInv, TableInv, HasCause, FailuresHaveACause
<1> QED
  BY <1>1, Invariant, PTL
------------------------------------------------------------------------------
(***************************************************************************)
(* What needs the builtin type infos to be stored where they are looked    *)
(* up.  Then a type info is of the term it is made for, its UUID leads     *)
(* back to the term, and no term is entered twice.                         *)
(***************************************************************************)

BuiltinsInPlace == \A t \in Terms : Kind[t] = "builtin" => Builtin[t] = t

Holds(states, t, ti) == states[t].is = "ready" /\ states[t].ti = ti

\* A ready term is entered under its own UUID, or is going to be.
EnteredInv ==
  \A t \in Terms : storage[t].is = "ready" =>
    /\ storage[t].ti.of = t
    /\ uuidMap[t] = t \/ <<t, storage[t].ti>> \in fresh

UUIDInv ==
  /\ \A p \in fresh : Holds(storage, p[1], p[2]) /\ uuidMap[p[1]] = None
  /\ \A t \in Terms : uuidMap[t] # None => uuidMap[t] = t /\ storage[t].is = "ready"
  /\ lock = None => fresh = {}

\* What was answered, or is about to be, is what the table holds.
HeldInv ==
  /\ \A th \in Threads : result[th] # None /\ result[th][2] # None =>
       Holds(storage, result[th][1], result[th][2])
  /\ \A a \in answers : a[2] # None => Holds(storage, a[1], a[2])

InPlaceInv == status = "up" /\ EnteredInv /\ UUIDInv /\ HeldInv

\* The table grows, and nothing is entered.
LEMMA TableGrows ==
  ASSUME IInv, InPlaceInv, UNCHANGED <<status, fresh, uuidMap, answers, result>>,
         \A t \in Terms : /\ storage[t].is = "ready" => storage'[t] = storage[t]
                          /\ storage'[t].is = "ready" => storage'[t] = storage[t],
         lock' = lock \/ (lock = None /\ lock' # None)
  PROVE  InPlaceInv'
<1>1. /\ \A p \in fresh : p[1] \in Terms
      /\ \A a \in answers : a[1] \in Terms
      /\ \A th \in Threads : result[th] # None => result[th][1] \in Terms
  BY DEF IInv, TypeOK, Answer
<1>2. \A t \in Terms : \A ti : Holds(storage, t, ti) => Holds(storage', t, ti)
  BY DEF Holds
<1>3. EnteredInv'
  BY DEF InPlaceInv, EnteredInv
<1>4. UUIDInv'
  BY <1>1, <1>2 DEF InPlaceInv, UUIDInv
<1>5. HeldInv'
  BY <1>1, <1>2 DEF InPlaceInv, HeldInv
<1> QED
  BY <1>3, <1>4, <1>5 DEF InPlaceInv

LEMMA InPlaceInit == Init => InPlaceInv
  BY NoneAssumption DEF Init, InPlaceInv, EnteredInv, UUIDInv, HeldInv

LEMMA InPlacePend ==
  ASSUME IInv, InPlaceInv, NEW t \in Terms, ~Known(t), Pend(t),
         UNCHANGED <<status, fresh, uuidMap, contents, answers, result>>,
         lock' = lock \/ (lock = None /\ lock' # None)
  PROVE  InPlaceInv'
<1>1. /\ storage'[t] = [is |-> "pending", ti |-> Partial(t)]
      /\ \A u \in Terms : u # t => storage'[u] = storage[u]
  BY Pended
<1>2. storage'[t].is = "pending" /\ storage[t].is = "new"
  BY <1>1 DEF Known
<1> QED
  BY <1>1, <1>2, TableGrows

LEMMA InPlaceAsk ==
  ASSUME IInv, InPlaceInv, NEW th \in Threads, NEW t \in Terms,
         AskKnown(th, t) \/ AskNew(th, t)
  PROVE  InPlaceInv'
<1>1. CASE AskKnown(th, t)
  <2>1. /\ lock = None
        /\ answers' = answers \cup {<<t, storage[t].ti>>}
        /\ UNCHANGED <<status, lock, storage, fresh, uuidMap, result>>
    BY <1>1 DEF AskKnown, LockFree, table
  <2>2. storage[t].ti # None => Holds(storage, t, storage[t].ti)
    BY <2>1, NobodyWalks, StateOf DEF IInv, Holds
  <2> QED
    BY <2>1, <2>2 DEF InPlaceInv, EnteredInv, UUIDInv, HeldInv, Holds
<1>2. CASE AskNew(th, t)
  <2>1. lock = None /\ lock' # None
    BY <1>2, NoneAssumption DEF AskNew, LockFree
  <2> QED
    BY <2>1, <1>2, InPlacePend DEF AskNew
<1> QED
  BY <1>1, <1>2

LEMMA InPlaceNeed ==
  ASSUME IInv, InPlaceInv, NEW th \in Threads, NeedKnown(th) \/ NeedNew(th)
  PROVE  InPlaceInv'
<1>1. CASE NeedKnown(th)
  <2>1. UNCHANGED <<status, lock, storage, fresh, uuidMap, result, answers>>
    BY <1>1 DEF NeedKnown, table
  <2> QED
    BY <2>1 DEF InPlaceInv, EnteredInv, UUIDInv, HeldInv, Holds
<1>2. CASE NeedNew(th)
  <2> DEFINE s == creating[th]
             t == Head(s[Len(s)].todo).term
  <2>1. /\ s # <<>> /\ s[Len(s)].todo # <<>> /\ ~Known(t) /\ Pend(t)
        /\ UNCHANGED <<status, lock, fresh, uuidMap, contents, result, answers>>
    BY <1>2 DEF NeedNew, Walking, Top
  <2>2. s \in Seq(Creation)
    BY DEF IInv, TypeOK
  <2>3. s[Len(s)] \in Creation /\ CreationInv(s[Len(s)], storage)
    BY <2>1, <2>2, StackTop DEF IInv, StackInv
  <2>4. t \in Terms
    BY <2>1, <2>3, HeadIsNeed
  <2> HIDE DEF t
  <2> QED
    BY <2>1, <2>4, InPlacePend
<1> QED
  BY <1>1, <1>2

\* The type info that was made is of the term it was made for.
LEMMA InPlaceFinish ==
  ASSUME BuiltinsInPlace, IInv, InPlaceInv, NEW th \in Threads, Finish(th)
  PROVE  InPlaceInv'
<1> DEFINE s == creating[th]
           c == s[Len(s)]
           u == c.term
           ti == Made(c)
<1>1. /\ s # <<>>
      /\ IF ti = None
         THEN /\ storage' = [storage EXCEPT ![u] = [is |-> "failed", ti |-> None]]
              /\ fresh' = fresh
         ELSE /\ storage' = [storage EXCEPT ![u] = [is |-> "ready", ti |-> ti]]
              /\ fresh' = fresh \cup {<<u, ti>>}
      /\ result' = result \/ result' = [result EXCEPT ![th] = <<u, ti>>]
      /\ UNCHANGED <<status, lock, uuidMap, answers>>
  BY DEF Finish, Top, Failure
<1>2. s \in Seq(Creation) /\ lock = th /\ lock # None
  BY <1>1, NoneAssumption DEF IInv, TypeOK, LockInv
<1>3. c \in Creation /\ CreationInv(c, storage)
  BY <1>1, <1>2, StackTop DEF IInv, StackInv
<1>4. u \in Terms /\ ti \in TypeInfo \cup {None}
  BY <1>3, MadeType DEF Creation
<1>5. ti # None => ti.of = u
  <2>1. Engines(u).of = u /\ Runtimes(u).of = u
        /\ (Kind[u] = "builtin" => Runtimes(Builtin[u]).of = u)
    BY <1>4 DEF Engines, Runtimes, BuiltinsInPlace
  <2> QED
    BY <2>1 DEF Made
<1>6. storage[u].is = "pending"
  <2>1. storage[u] = [is |-> "pending", ti |-> Partial(u)]
    BY <1>3 DEF CreationInv
  <2> QED
    BY <2>1
<1>7. /\ storage \in [Terms -> State] /\ fresh \subseteq Terms \X TypeInfo
      /\ answers \subseteq Answer /\ result \in [Threads -> Answer \cup {None}]
      /\ \A x \in Terms : uuidMap[x] \in Terms \cup {None}
  BY DEF IInv, TypeOK
<1> HIDE DEF s, c, u, ti
<1>8. /\ \A x \in Terms : x # u => storage'[x] = storage[x]
      /\ storage'[u] = IF ti = None THEN [is |-> "failed", ti |-> None]
                                    ELSE [is |-> "ready", ti |-> ti]
  BY <1>1, <1>4, <1>7
<1>9. storage'[u].is = (IF ti = None THEN "failed" ELSE "ready") /\ storage'[u].ti = ti
  <2>1. CASE ti = None
    BY <2>1, <1>8
  <2>2. CASE ti # None
    BY <2>2, <1>8
  <2> QED
    BY <2>1, <2>2
<1>10. uuidMap[u] = None
  BY <1>4, <1>6 DEF InPlaceInv, UUIDInv
<1>11. \A x \in Terms : \A i : Holds(storage, x, i) => Holds(storage', x, i)
  BY <1>6, <1>8 DEF Holds
<1>12. ti # None => Holds(storage', u, ti) /\ <<u, ti>> \in fresh'
  BY <1>1, <1>9 DEF Holds
<1>13. EnteredInv'
  <2> SUFFICES ASSUME NEW x \in Terms, storage'[x].is = "ready"
               PROVE  /\ storage'[x].ti.of = x
                      /\ uuidMap[x] = x \/ <<x, storage'[x].ti>> \in fresh'
    BY <1>1 DEF EnteredInv
  <2>1. CASE x = u
    BY <2>1, <1>5, <1>9, <1>12
  <2>2. CASE x # u
    <3>1. storage'[x] = storage[x] /\ fresh \subseteq fresh'
      BY <2>2, <1>1, <1>8
    <3> QED
      BY <3>1 DEF InPlaceInv, EnteredInv
  <2> QED
    BY <2>1, <2>2
<1>14. UUIDInv'
  <2>1. \A p \in fresh' : Holds(storage', p[1], p[2]) /\ uuidMap[p[1]] = None
    <3> SUFFICES ASSUME NEW p \in fresh' PROVE Holds(storage', p[1], p[2]) /\ uuidMap[p[1]] = None
      OBVIOUS
    <3>1. CASE p \in fresh
      BY <3>1, <1>7, <1>11 DEF InPlaceInv, UUIDInv
    <3>2. CASE p \notin fresh
      <4>1. ti # None /\ p[1] = u /\ p[2] = ti
        BY <3>2, <1>1
      <4> QED
        BY <4>1, <1>10, <1>12
    <3> QED
      BY <3>1, <3>2
  <2>2. \A x \in Terms : uuidMap[x] # None => uuidMap[x] = x /\ storage'[x].is = "ready"
    BY <1>8, <1>10 DEF InPlaceInv, UUIDInv
  <2> QED
    BY <2>1, <2>2, <1>1, <1>2 DEF UUIDInv
<1>15. HeldInv'
  <2>1. \A a \in answers : a[2] # None => Holds(storage', a[1], a[2])
    BY <1>7, <1>11 DEF InPlaceInv, HeldInv, Answer
  <2>2. ASSUME NEW o \in Threads, result'[o] # None, result'[o][2] # None
        PROVE  Holds(storage', result'[o][1], result'[o][2])
    <3>1. CASE result'[o] = result[o]
      <4>1. Holds(storage, result[o][1], result[o][2]) /\ result[o][1] \in Terms
        BY <2>2, <3>1, <1>7 DEF InPlaceInv, HeldInv, Answer
      <4>2. Holds(storage', result[o][1], result[o][2])
        BY <4>1, <3>1, <1>11 DEF Holds
      <4> QED
        BY <3>1, <4>2
    <3>2. CASE result'[o] = <<u, ti>>
      <4>1. ti # None /\ result'[o][1] = u /\ result'[o][2] = ti
        BY <2>2, <3>2
      <4> QED
        BY <4>1, <1>9 DEF Holds
    <3> QED
      BY <3>1, <3>2, <1>1, <1>7
  <2> QED
    BY <2>1, <2>2, <1>1 DEF HeldInv, Holds
<1> QED
  BY <1>1, <1>13, <1>14, <1>15 DEF InPlaceInv

\* No UUID has a term already.
LEMMA NoneClash ==
  ASSUME IInv, InPlaceInv
  PROVE  /\ ~Clash
         /\ \A p \in fresh : p \in Terms \X TypeInfo /\ p[2].of = p[1]
<1>1. fresh \subseteq Terms \X TypeInfo
  BY DEF IInv, TypeOK
<1>2. \A p \in fresh : p[2].of = p[1] /\ storage[p[1]].ti = p[2] /\ uuidMap[p[1]] = None
  BY <1>1 DEF InPlaceInv, EnteredInv, UUIDInv, Holds
<1>3. \A p, q \in fresh : q[2].of = p[2].of => q = p
  <2>1. \A p, q \in fresh : p[1] = q[1] /\ p[2] = q[2] => q = p
    BY <1>1
  <2> QED
    BY <2>1, <1>2
<1> QED
  BY <1>1, <1>2, <1>3 DEF Clash

LEMMA InPlaceReturn ==
  ASSUME IInv, InPlaceInv, NEW th \in Threads, Return(th)
  PROVE  InPlaceInv'
<1>1. /\ result[th] # None
      /\ uuidMap' = EnterFresh /\ fresh' = {} /\ lock' = None
      /\ answers' = answers \cup {result[th]}
      /\ result' = [result EXCEPT ![th] = None]
      /\ UNCHANGED <<status, storage>>
  BY NoneClash DEF Return, Unlock
<1>2. result \in [Threads -> Answer \cup {None}] /\ uuidMap \in [Terms -> Terms \cup {None}]
  BY DEF IInv, TypeOK
\* Every fresh term is entered under its own UUID, and no other entry changes.
<1>3. ASSUME NEW t \in Terms
      PROVE  uuidMap'[t] = IF \E p \in fresh : p[1] = t THEN t ELSE uuidMap[t]
  <2>1. \A p \in fresh : p[2].of = p[1]
    BY NoneClash
  <2>2. CASE \E p \in fresh : p[1] = t
    <3>1. \E p \in fresh : p[2].of = t
      BY <2>1, <2>2
    <3>2. PICK p \in fresh : p[2].of = t /\ uuidMap'[t] = p[1]
      BY <3>1, <1>1 DEF EnterFresh
    <3> QED
      BY <3>2, <2>1, <2>2
  <2>3. CASE ~\E p \in fresh : p[1] = t
    BY <2>1, <2>3, <1>1 DEF EnterFresh
  <2> QED
    BY <2>2, <2>3
<1>4. ASSUME NEW t \in Terms, storage[t].is = "ready"
      PROVE  storage[t].ti.of = t /\ uuidMap'[t] = t
  <2>1. uuidMap[t] = t \/ <<t, storage[t].ti>> \in fresh
    BY <1>4 DEF InPlaceInv, EnteredInv
  <2>2. <<t, storage[t].ti>> \in fresh => \E p \in fresh : p[1] = t
    OBVIOUS
  <2> QED
    BY <2>1, <2>2, <1>3, <1>4 DEF InPlaceInv, EnteredInv
<1>5. ASSUME NEW t \in Terms, uuidMap'[t] # None
      PROVE  uuidMap'[t] = t /\ storage[t].is = "ready"
  BY <1>3, <1>5 DEF InPlaceInv, UUIDInv, Holds
<1>6. EnteredInv'
  BY <1>1, <1>4 DEF EnteredInv
<1>7. UUIDInv'
  BY <1>1, <1>5 DEF UUIDInv
<1>8. HeldInv'
  <2>1. \A o \in Threads : o # th => result'[o] = result[o]
    BY <1>1, <1>2
  <2>2. result'[th] = None
    BY <1>1, <1>2
  <2> QED
    BY <2>1, <2>2, <1>1 DEF InPlaceInv, HeldInv, Holds
<1> QED
  BY <1>1, <1>6, <1>7, <1>8 DEF InPlaceInv

\* What AcquireTerm enters was not ready.
LEMMA InPlaceAcquireTerm ==
  ASSUME IInv, InPlaceInv, NEW t \in Native, AcquireTerm(t)
  PROVE  InPlaceInv'
<1> DEFINE new == UnknownParts(t)
<1>1. /\ lock = None
      /\ uuidMap' = [u \in Terms |-> IF u \in new THEN u ELSE uuidMap[u]]
      /\ storage' = [u \in Terms |-> IF u \in new THEN [is |-> "ready", ti |-> Runtimes(u)]
                                     ELSE storage[u]]
      /\ UNCHANGED <<status, lock, fresh, creating, result, answers>>
  BY DEF AcquireTerm, LockFree
<1>2. /\ \A u \in new : uuidMap[u] = None
      /\ new \subseteq Terms
  BY TermsAssumption DEF UnknownParts
<1> HIDE DEF new
<1>3. fresh = {}
  BY <1>1 DEF InPlaceInv, UUIDInv
<1>4. \A u \in Terms : storage[u].is = "ready" => u \notin new
  BY <1>2, <1>3, NoneAssumption DEF InPlaceInv, EnteredInv
<1>5. \A u \in Terms : /\ u \in new => storage'[u].is = "ready" /\ storage'[u].ti = Runtimes(u)
                       /\ u \notin new => storage'[u] = storage[u]
                       /\ Runtimes(u).of = u
  BY <1>1 DEF Runtimes
<1>6. \A u \in Terms : \A i : Holds(storage, u, i) => Holds(storage', u, i)
  BY <1>4, <1>5 DEF Holds
<1>7. EnteredInv'
  BY <1>1, <1>3, <1>5 DEF InPlaceInv, EnteredInv
<1>8. UUIDInv'
  BY <1>1, <1>2, <1>3, <1>5 DEF InPlaceInv, UUIDInv
<1>9. HeldInv'
  <2>1. /\ \A a \in answers : a[1] \in Terms
        /\ \A th \in Threads : result[th] # None => result[th][1] \in Terms
    BY DEF IInv, TypeOK, Answer
  <2> QED
    BY <2>1, <1>1, <1>6 DEF InPlaceInv, HeldInv
<1> QED
  BY <1>1, <1>7, <1>8, <1>9 DEF InPlaceInv

LEMMA InPlaceNext ==
  ASSUME BuiltinsInPlace, IInv, InPlaceInv, [Next]_vars
  PROVE  InPlaceInv'
<1>1. ASSUME NEW th \in Threads, EngineStep(th) PROVE InPlaceInv'
  BY <1>1, InPlaceNeed, InPlaceFinish, InPlaceReturn DEF EngineStep
<1>2. CASE UNCHANGED vars
  BY <1>2 DEF vars, table, InPlaceInv, EnteredInv, UUIDInv, HeldInv, Holds
<1> QED
  BY <1>1, <1>2, InPlaceAsk, InPlaceAcquireTerm DEF Next
------------------------------------------------------------------------------
\* Type infos are stored under the term they are of, and answered from there.
THEOREM InPlace == BuiltinsInPlace /\ Spec => [](IInv /\ InPlaceInv)
<1> SUFFICES ASSUME BuiltinsInPlace PROVE Spec => [](IInv /\ InPlaceInv)
  OBVIOUS
<1>1. Init => IInv /\ InPlaceInv
  BY InitInv, InPlaceInit
<1>2. IInv /\ InPlaceInv /\ [Next]_vars => (IInv /\ InPlaceInv)'
  BY NextInv, InPlaceNext
<1> QED
  BY <1>1, <1>2, PTL DEF Spec

\* A term has one type info for as long as the program runs, whoever asks for it
\* and however often.
THEOREM OneTypeInfoPerTerm == BuiltinsInPlace /\ Spec => []OneTypeInfo
<1>1. IInv /\ InPlaceInv => OneTypeInfo
  BY DEF InPlaceInv, HeldInv, Holds, OneTypeInfo
<1> QED
  BY <1>1, InPlace, PTL

\* Between two requests nothing is left of a walk: no pending term, no UUID that
\* is not entered, no unfinished type info that a request could still be given.
THEOREM WalksAreSettled == BuiltinsInPlace /\ Spec => []WalksSettle
<1>1. IInv /\ InPlaceInv => WalksSettle
  <2> SUFFICES ASSUME IInv, InPlaceInv, lock = None PROVE WalksSettle
    BY DEF WalksSettle
  <2>1. fresh = {} /\ \A t \in Terms : storage[t].is # "pending"
    BY NobodyWalks DEF InPlaceInv, UUIDInv
  <2>2. MapsAgree
    BY <2>1 DEF InPlaceInv, EnteredInv, UUIDInv, MapsAgree
  <2>3. OnlyDroppedAreUnfinished
    <3> SUFFICES ASSUME NEW j \in TypeInfo, contents[j] = Unfilled PROVE storage[j.of].ti # j
      BY InfosAreNotUnfilled DEF IInv, TypeOK, OnlyDroppedAreUnfinished
    <3>1. j.of \in Terms /\ j # None
      BY NoneAssumption DEF TypeInfo
    <3> QED
      BY <3>1, <2>1, StateOf DEF IInv, TableInv
  <2> QED
    BY <2>1, <2>2, <2>3 DEF WalksSettle
<1> QED
  BY <1>1, InPlace, PTL

\* HandleUUIDs never meets a UUID that has a term already: the engine does not
\* give up for that.
THEOREM ClashesNever == BuiltinsInPlace /\ Spec => []NoClash
<1>1. InPlaceInv => NoClash
  BY DEF InPlaceInv, NoClash
<1> QED
  BY <1>1, InPlace, PTL
==============================================================================
