------------------------------ MODULE TypeInfos ------------------------------
(***************************************************************************)
(* The table of type infos: what AcquireTypeInfo and AcquireTerm answer.   *)
(*                                                                         *)
(* A type info is made on the first request for its term, by a recursive   *)
(* walk over the terms it refers to (super type, declaring types of its    *)
(* methods, fields, type arguments).  A term being made is Pending in the  *)
(* table; if the engine lays the type info out itself, the unfinished      *)
(* object is registered at once, so that the walk may come back to it, and *)
(* if the runtime makes it there is nothing to come back to.  One mutex is *)
(* held from the outermost request to its return.                          *)
(*                                                                         *)
(* Sources: engine/typeinfo_manager.cpp and                                *)
(* runtimesupport/impl/typeinfo_factory.cpp.  The walk of one term is the  *)
(* sequence Needs; layouts, names and method tables are left out.          *)
(***************************************************************************)
EXTENDS Naturals, Sequences

CONSTANTS
  Threads,
  Terms,       \* ground terms without BOX
  Kind,        \* Kind[t]: which branch of CreateTypeInfo makes it
  Needs,       \* Needs[t]: the terms its creation asks for, in order
  Missing,     \* terms whose own definition or template is not found
  Builtin,     \* Builtin[t]: whose type info builtinTypeInfos holds for t
  Native,      \* terms of which the runtime may present a type info
  Parts,       \* Parts[t]: the subterms of a native term, itself included
  None

\* "dyn":     laid out by CreateTypeInfoDyn
\* "handed":  Future<T> and AOT types without arguments: CreateTypeInfoDyn
\*            registers an object, then leaves the type to the runtime
\* "query":   AOT_TYPE and FUNCTIONAL, made by the runtime
\* "builtin": an entry of builtinTypeInfos
Kinds == {"dyn", "handed", "query", "builtin"}

\* What a failed request does to the walk that made it: "must" ends it (super
\* type, fields), "all" fails it at its end (QuerySubterms), "may" leaves a
\* null behind (prepareExtDef).
Modes == {"must", "all", "may"}

Need == [term : Terms, mode : Modes]

ASSUME TermsAssumption ==
  /\ Kind \in [Terms -> Kinds]
  /\ Needs \in [Terms -> Seq(Need)]
  /\ Missing \subseteq Terms
  /\ \A t \in Terms : Kind[t] = "builtin" => Needs[t] = <<>>
  /\ Builtin \in [Terms -> Terms]
  /\ Native \subseteq Terms
  /\ Parts \in [Native -> SUBSET Terms]
  /\ \A t \in Native : t \in Parts[t]
  /\ \A t \in Native : \A p \in Parts[t] \cap Native : Parts[p] \subseteq Parts[t]

\* A type info object: what type it is of, and whose memory it is.
TypeInfo == [of : Terms, by : {"engine", "runtime"}]

Engines(t) == [of |-> t, by |-> "engine"]
Runtimes(t) == [of |-> t, by |-> "runtime"]

\* A request as its caller sees it: the term, and the type info or nullopt.
Answer == Terms \X (TypeInfo \cup {None})

ASSUME NoneAssumption == None \notin Threads \cup Terms \cup TypeInfo \cup Answer

\* What an object points to before it is filled in.
Unfilled == {None}

\* ResolutionState, and "new" for a term that is not in the table.
State == [is : {"new", "failed"}, ti : {None}]
         \cup [is : {"pending"}, ti : TypeInfo \cup {None}]
         \cup [is : {"ready"}, ti : TypeInfo]

\* A call of CreateTypeInfo: what is left of the walk, the type infos it was
\* given, and whether it is going to fail.
Creation ==
  [term : Terms, todo : Seq(Need), got : SUBSET TypeInfo, failed : BOOLEAN]
------------------------------------------------------------------------------
VARIABLES
  status,      \* "up", or "fatal"
  lock,        \* owner of the mutex
  storage,     \* BasicTypeInfoManager::storage
  fresh,       \* typesWithoutUUID
  uuidMap,     \* uuidMap, by the type the UUID was given to
  contents,    \* contents[i]: the type infos that i points to, or Unfilled
  creating,    \* creating[th]: calls of CreateTypeInfo, innermost last
  result,      \* result[th]: what the outermost call is about to return
  answers      \* <<term, type info>>: all that was ever returned to a caller

table == <<storage, fresh, uuidMap, contents>>
vars == <<status, lock, table, creating, result, answers>>

Init ==
  /\ status = "up"
  /\ lock = None
  /\ storage = [t \in Terms |-> [is |-> "new", ti |-> None]]
  /\ fresh = {}
  /\ uuidMap = [t \in Terms |-> None]
  /\ contents = [i \in TypeInfo |-> Unfilled]
  /\ creating = [th \in Threads |-> <<>>]
  /\ result = [th \in Threads |-> None]
  /\ answers = {}

Known(t) == storage[t].is # "new"

\* Mutant: two threads may be in the table at once.
LockIgnored == TRUE

LockFree == lock = None

\* Mutant: RegisterPartial is not called.
Unregistered(t) == None

\* The object RegisterPartial stores for the recursive requests.
Partial(t) == IF Kind[t] \in {"dyn", "handed"} THEN Engines(t) ELSE None

Create(t) == [term |-> t, todo |-> Needs[t], got |-> {}, failed |-> FALSE]

Pend(t) ==
  storage' = [storage EXCEPT ![t] = [is |-> "pending", ti |-> Partial(t)]]
------------------------------------------------------------------------------
\* AcquireTypeInfo from outside, of a term in the table.
AskKnown(th, t) ==
  /\ status = "up" /\ LockFree /\ Known(t)
  /\ answers' = answers \cup {<<t, storage[t].ti>>}
  /\ UNCHANGED <<status, lock, table, creating, result>>

AskNew(th, t) ==
  /\ status = "up" /\ LockFree /\ ~Known(t)
  /\ lock' = th
  /\ Pend(t)
  /\ creating' = [creating EXCEPT ![th] = <<Create(t)>>]
  /\ UNCHANGED <<status, fresh, uuidMap, contents, result, answers>>

Top(th) == creating[th][Len(creating[th])]
Rest(th) == SubSeq(creating[th], 1, Len(creating[th]) - 1)
Walking(th) == status = "up" /\ creating[th] # <<>> /\ Top(th).todo # <<>>

\* Creation c is answered the request at the head of its walk.
Answered(c, ti) ==
  IF ti # None
  THEN [c EXCEPT !.todo = Tail(@), !.got = @ \cup {ti}]
  ELSE CASE Head(c.todo).mode = "must" ->
              [c EXCEPT !.todo = <<>>, !.failed = TRUE]
         [] Head(c.todo).mode = "all" ->
              [c EXCEPT !.todo = Tail(@), !.failed = TRUE]
         [] Head(c.todo).mode = "may" -> [c EXCEPT !.todo = Tail(@)]

\* A recursive request finds its term in the table: a finished type info, a
\* failure, or the unfinished object of a term that is being made.
NeedKnown(th) ==
  /\ Walking(th)
  /\ LET t == Head(Top(th).todo).term
     IN  /\ Known(t)
         /\ creating' = [creating EXCEPT ![th] =
              Append(Rest(th), Answered(Top(th), storage[t].ti))]
  /\ UNCHANGED <<status, lock, table, result, answers>>

NeedNew(th) ==
  /\ Walking(th)
  /\ LET t == Head(Top(th).todo).term
     IN  /\ ~Known(t)
         /\ Pend(t)
         /\ creating' = [creating EXCEPT ![th] = Append(@, Create(t))]
  /\ UNCHANGED <<status, lock, fresh, uuidMap, contents, result, answers>>

\* The type info CreateTypeInfo returns, None for nullopt.
Made(c) ==
  IF c.failed \/ c.term \in Missing THEN None
  ELSE CASE Kind[c.term] = "dyn" -> Engines(c.term)
         [] Kind[c.term] = "builtin" -> Runtimes(Builtin[c.term])
         [] OTHER -> Runtimes(c.term)

Failure(c) == [is |-> "failed", ti |-> None]

\* CreateTypeInfo returns: AcquireTypeInfo stores the outcome, and hands it to
\* the walk that asked or to the outermost call.
Finish(th) ==
  /\ status = "up" /\ creating[th] # <<>> /\ Top(th).todo = <<>>
  /\ LET c == Top(th)
         ti == Made(c)
         below == Rest(th)
     IN  /\ IF ti = None
            THEN /\ storage' = [storage EXCEPT ![c.term] = Failure(c)]
                 /\ UNCHANGED <<fresh, contents>>
            ELSE /\ storage' = [storage EXCEPT ![c.term] =
                                  [is |-> "ready", ti |-> ti]]
                 /\ fresh' = fresh \cup {<<c.term, ti>>}
                 /\ contents' = [contents EXCEPT ![ti] = c.got]
         /\ IF below = <<>>
            THEN /\ creating' = [creating EXCEPT ![th] = <<>>]
                 /\ result' = [result EXCEPT ![th] = <<c.term, ti>>]
            ELSE /\ creating' = [creating EXCEPT ![th] =
                      [below EXCEPT ![Len(below)] = Answered(@, ti)]]
                 /\ UNCHANGED result
  /\ UNCHANGED <<status, lock, uuidMap, answers>>

\* HandleUUIDs meets a UUID that has a term already.
Clash ==
  \E p \in fresh :
    \/ uuidMap[p[2].of] # None
    \/ \E q \in fresh \ {p} : q[2].of = p[2].of

\* Mutant: the type infos made on the way are not entered.
EnterNone == uuidMap

EnterFresh ==
  [u \in Terms |-> IF \E p \in fresh : p[2].of = u
                   THEN (CHOOSE p \in fresh : p[2].of = u)[1]
                   ELSE uuidMap[u]]

\* Mutant: the return that keeps the mutex.
KeepLock == UNCHANGED lock

Unlock == lock' = None

\* The outermost call: HandleUUIDs, the end of the guard, the return.
Return(th) ==
  /\ status = "up" /\ result[th] # None
  /\ IF Clash
     THEN /\ status' = "fatal"
          /\ UNCHANGED <<lock, fresh, uuidMap, result, answers>>
     ELSE /\ uuidMap' = EnterFresh
          /\ fresh' = {}
          /\ answers' = answers \cup {result[th]}
          /\ result' = [result EXCEPT ![th] = None]
          /\ Unlock
          /\ UNCHANGED status
  /\ UNCHANGED <<storage, contents, creating>>

\* Mutant: the outermost AcquireTerm does not look for the UUID first.
PartsAndItself(t) == {p \in Parts[t] : uuidMap[p] = None} \cup {t}

UnknownParts(t) == {p \in Parts[t] : uuidMap[p] = None}

\* AcquireTerm of a type info the runtime presents (a type argument of a
\* generic call, LoadTypeInfo): the term is reconstructed, and those of the
\* type arguments before it.  Types of a CBC file must be known.
AcquireTerm(t) ==
  LET new == UnknownParts(t)
  IN  /\ status = "up" /\ LockFree
      /\ new # {} /\ new \subseteq Native
      /\ uuidMap' = [u \in Terms |-> IF u \in new THEN u ELSE uuidMap[u]]
      /\ storage' = [u \in Terms |-> IF u \in new
                       THEN [is |-> "ready", ti |-> Runtimes(u)]
                       ELSE storage[u]]
      /\ contents' = [i \in TypeInfo |->
           IF i.by = "runtime" /\ i.of \in new /\ contents[i] = Unfilled
           THEN {storage'[IF p \in new THEN p ELSE uuidMap[p]].ti :
                   p \in Parts[i.of] \ {i.of}}
           ELSE contents[i]]
      /\ UNCHANGED <<status, lock, fresh, creating, result, answers>>
------------------------------------------------------------------------------
EngineStep(th) == NeedKnown(th) \/ NeedNew(th) \/ Finish(th) \/ Return(th)

Next ==
  \/ \E th \in Threads, t \in Terms : AskKnown(th, t) \/ AskNew(th, t)
  \/ \E th \in Threads : EngineStep(th)
  \/ \E t \in Native : AcquireTerm(t)

\* A thread that walks the terms is not descheduled for ever.
Fairness == \A th \in Threads : WF_vars(EngineStep(th))

Spec == Init /\ [][Next]_vars
FairSpec == Spec /\ Fairness
------------------------------------------------------------------------------
(***************************************************************************)
(* Properties.                                                             *)
(***************************************************************************)

TypeOK ==
  /\ status \in {"up", "fatal"}
  /\ lock \in Threads \cup {None}
  /\ storage \in [Terms -> State]
  /\ fresh \subseteq Terms \X TypeInfo
  /\ uuidMap \in [Terms -> Terms \cup {None}]
  /\ contents \in [TypeInfo -> {Unfilled} \cup SUBSET TypeInfo]
  /\ creating \in [Threads -> Seq(Creation)]
  /\ result \in [Threads -> Answer \cup {None}]
  /\ answers \subseteq Answer

\* A term has one type info for as long as the program runs: the addresses
\* written into rewritten code at different times are the same.
OneTypeInfo ==
  \A a, b \in answers :
    a[1] = b[1] /\ a[2] # None /\ b[2] # None => a[2] = b[2]

\* No caller is ever handed the unfinished object of a walk, its own or that
\* of another thread.
AnswersAreFinished ==
  \A a \in answers : a[2] # None => contents[a[2]] # Unfilled

\* A finished type info points to a type info that was never filled in only
\* if that object was dropped after the pointer was taken: its own creation
\* failed later, or the runtime made the type after all.
OnlyDroppedAreUnfinished ==
  \A i \in TypeInfo :
    contents[i] # Unfilled => \A j \in contents[i] :
      contents[j] = Unfilled => storage[j.of].ti # j

\* Between two requests the two maps agree: the UUID of a term's type info
\* leads back to that term, so that AcquireTerm answers it.
MapsAgree ==
  \A t \in Terms :
    /\ storage[t].is = "ready" => uuidMap[storage[t].ti.of] = t
    /\ uuidMap[t] # None =>
         storage[uuidMap[t]].is = "ready" /\ storage[uuidMap[t]].ti.of = t

\* Every walk settles all it met: between two requests of AcquireTypeInfo no term
\* is Pending (a later request would be told nullopt, or be given the unfinished
\* object, as if it came from inside the walk), the two maps agree, and what is
\* still unfinished is out of reach of new requests.
WalksSettle ==
  lock = None /\ status = "up" =>
    /\ \A t \in Terms : storage[t].is # "pending"
    /\ fresh = {}
    /\ MapsAgree
    /\ OnlyDroppedAreUnfinished

\* The needs whose failure fails the walk.
NeedsOf(t) == {Needs[t][i].term : i \in {k \in DOMAIN Needs[t] :
                                            Needs[t][k].mode # "may"}}

ClosedSets == {S \in SUBSET Terms : \A t \in S : NeedsOf(t) \subseteq S}

\* The terms met by a walk from S that does not give up.
Met(S) == {t \in Terms : \A C \in ClosedSets : S \subseteq C => t \in C}

\* Terms whose walk meets a definition that is not there ...
Unresolvable == {t \in Terms : Met({t}) \cap Missing # {}}

\* The terms met by a walk from S that never gives up.
AllNeedsOf(t) == {Needs[t][i].term : i \in DOMAIN Needs[t]}

AllClosedSets == {S \in SUBSET Terms : \A t \in S : AllNeedsOf(t) \subseteq S}

Reached(S) == {t \in Terms : \A C \in AllClosedSets : S \subseteq C => t \in C}

\* ... or comes back to a term of which nothing is registered, which the walk may
\* have left by a need that may fail.
Circular ==
  {t \in Terms : \E q \in Met({t}) : Kind[q] = "query" /\ q \in Reached(AllNeedsOf(q))}

\* A term fails for no other reason, whatever was asked for before it.
FailuresHaveACause ==
  \A t \in Terms : storage[t].is = "failed" => t \in Unresolvable \cup Circular

\* nullopt stands for a resolution error.
NulloptMeansUnresolvable ==
  \A a \in answers : a[2] = None => a[1] \in Unresolvable

\* HandleUUIDs never meets a UUID that has a term: all terms are
\* reconstructed correctly.
NoClash == status = "up"

\* Every walk comes to its end and frees the mutex, however the terms refer to
\* each other.
WalksEnd ==
  \A th \in Threads : lock = th ~> (lock = None \/ status = "fatal")
==============================================================================
