-------------------------------- MODULE Statics --------------------------------
(***************************************************************************)
(* The static fields of types (engine/statics_manager.cpp): threads resolve*)
(* references to fields, the first of them builds the memory of the type's *)
(* static fields, and the collector visits the references in it.           *)
(*                                                                         *)
(* One mutex guards the bundles.  It is held while a bundle is built, which*)
(* takes the mutex of the type infos for records of the runtime's types.   *)
(***************************************************************************)
EXTENDS FieldLayouts

CONSTANTS
  Owners,        \* type definitions with static fields
  Programs,      \* the types of the static fields of each, and the classes objects have
  Threads,       \* threads that resolve references
  Collector,     \* the thread that visits the roots
  MaxAsked,      \* references resolved at most
  MaxVisits      \* visits at most

Nobody == "nobody"

ASSUME ActorsDiffer == Collector \notin Threads /\ Nobody \notin Threads \cup {Collector}

\* Types and their owners have names of their own.
ASSUME ProgramsAssumption ==
  \A p \in Programs : p.statics \in [Owners -> Seq(Types)] /\ p.classes \subseteq Types \ Owners

VARIABLES
  fields,        \* owner -> the types of its static fields, in order
  classes,       \* types of objects that references to instance fields start from
  bundles,       \* owner -> its bundle, once published
  lock,          \* who holds the mutex of the bundles
  infoLock,      \* whether another thread is inside the manager of type infos
  pc,            \* thread -> where it is
  request,       \* thread -> the reference it resolves
  draft,         \* thread -> the bundle it builds
  at,            \* thread -> the type and the place of the first field
  answers,       \* the references resolved and the places they denote
  visit,         \* the collector's visit: bundles left, places seen
  visits,        \* visits begun
  aborted        \* an empty optional was unwrapped

program == <<fields, classes>>
vars == <<program, bundles, lock, infoLock, pc, request, draft, at, answers, visit, visits, aborted>>

NoRequest == [owner |-> Nobody, path |-> <<>>]
Nowhere == [type |-> Nobody, offset |-> Unknown]
NoVisit == [left |-> {}, seen |-> {}, on |-> FALSE]
EmptyDraft == [next |-> 1, refs |-> 0, prims |-> 0, size |-> 0, records |-> <<>>, references |-> {}]

ComputeSlotKind(t) ==
  IF IsReference(t) THEN "REFERENCE" ELSE IF IsRecord(t) THEN "RECORD" ELSE "PRIMITIVE"

--------------------------------------------------------------------------------
(* A bundle: primitives, then references, then records, in one piece of memory *)

\* Mutant: the records begin where the references do.
BehindPrimitives(d) == d.prims * Word

BeginOfRecords(d) == (d.prims + d.refs) * Word

Built(d, builder) ==
  [memory |-> builder, primitives |-> 0, refs |-> d.prims * Word, records |-> BeginOfRecords(d),
   refCount |-> d.refs, recordOffsets |-> d.records, referenceOffsets |-> d.references,
   size |-> BeginOfRecords(d) + d.size]

\* The place of a static field: its slot is counted again over the definition.
GetLocation(bundle, types, i) ==
  LET kind == ComputeSlotKind(types[i])
      index == Cardinality({j \in 1..i - 1 : ComputeSlotKind(types[j]) = kind})
  IN CASE kind = "REFERENCE" -> bundle.refs + Word * index
       [] kind = "PRIMITIVE" -> bundle.primitives + Word * index
       [] kind = "RECORD" -> bundle.records + bundle.recordOffsets[index + 1]

\* Mutant: references within records are left out.
VisitFields(bundle) == {bundle.refs + Word * i : i \in 0..bundle.refCount - 1}

VisitRefLocations(bundle) ==
  {bundle.refs + Word * i : i \in 0..bundle.refCount - 1}
    \cup {bundle.records + offset : offset \in bundle.referenceOffsets}

\* A layout asks for a type info when a value of the runtime's types is in it.
Asks[t \in Types] ==
  \/ Kind(t) = "AOT_TYPE"
  \/ Describe[t].super \in Types /\ Asks[Describe[t].super]
  \/ \E i \in DOMAIN Describe[t].parts :
       ~IsReference(Describe[t].parts[i]) /\ Asks[Describe[t].parts[i]]

AsksTypeInfo == [t \in Types |-> Asks[t]]

--------------------------------------------------------------------------------
Init ==
  /\ \E p \in Programs : fields = p.statics /\ classes = p.classes
  /\ bundles = [o \in {} |-> EmptyDraft]
  /\ lock = Nobody
  /\ infoLock = FALSE
  /\ pc = [th \in Threads |-> "idle"]
  /\ request = [th \in Threads |-> NoRequest]
  /\ draft = [th \in Threads |-> EmptyDraft]
  /\ at = [th \in Threads |-> Nowhere]
  /\ answers = {}
  /\ visit = NoVisit
  /\ visits = 0
  /\ aborted = FALSE

Goto(th, place) == pc' = [pc EXCEPT ![th] = place]
Go(th, from) == ~aborted /\ pc[th] = from
Asked == Cardinality(answers) + Cardinality({th \in Threads : pc[th] # "idle"})

(* What the steps that may wait wait for *)

MayLock == lock = Nobody
MayLayOut(t) == AsksTypeInfo[t] => ~infoLock
MayAdd(t) == ComputeSlotKind(t) = "RECORD" => MayLayOut(t)

\* Mutant: a type info asks for a static field before it is finished.
InfosNeedStatics == infoLock /\ lock = Nobody

InfosMayEnd == infoLock

\* What may follow the type on a path: the parts of the value.
Parts(t) ==
  IF Kind(t) = "VARRAY" THEN 1..Describe[t].num
  ELSE IF Kind(t) \in {"TYPE", "TUPLE", "PACKED_TUPLE"} THEN DOMAIN Layout[t].fields ELSE {}

\* The paths from a value to values that have no named parts.
LeavesOf[t \in Types] ==
  IF Kind(t) \in {"TYPE", "TUPLE", "PACKED_TUPLE", "VARRAY"} /\ ~IsReference(t) /\ Parts(t) # {}
  THEN UNION {{<<i>> \o rest : rest \in LeavesOf[PartOf(t, i)]} : i \in Parts(t)}
  ELSE {<<>>}

Leaves == [t \in Types |-> LeavesOf[t]]

LeavesOfObject(t) == UNION {{<<i>> \o rest : rest \in Leaves[PartOf(t, i)]} : i \in Parts(t)}

\* A reference to a static field, and on to a part of its value.
AskStatic(th) ==
  /\ Go(th, "idle") /\ Asked < MaxAsked
  /\ \E o \in Owners : \E i \in DOMAIN fields[o] : \E rest \in Leaves[fields[o][i]] :
       LET ref == [owner |-> o, path |-> <<i>> \o rest]
       IN /\ \A a \in answers : a.ref # ref
          /\ request' = [request EXCEPT ![th] = ref]
  /\ Goto(th, "asked")
  /\ UNCHANGED <<program, bundles, lock, infoLock, draft, at, answers, visit, visits, aborted>>

\* A reference to a field of an object.
AskInstance(th) ==
  /\ Go(th, "idle") /\ Asked < MaxAsked
  /\ \E t \in classes : \E path \in LeavesOfObject(t) :
       LET ref == [owner |-> t, path |-> path]
       IN /\ \A a \in answers : a.ref # ref
          /\ request' = [request EXCEPT ![th] = ref]
          /\ at' = [at EXCEPT ![th] = [type |-> t, offset |-> 0]]
  /\ Goto(th, "path")
  /\ UNCHANGED <<program, bundles, lock, infoLock, draft, answers, visit, visits, aborted>>

\* StaticsManager::GetLocation takes the lock and looks the bundle up.
Lock(th) ==
  /\ Go(th, "asked") /\ MayLock
  /\ lock' = th
  /\ Goto(th, IF request[th].owner \in DOMAIN bundles THEN "locate" ELSE "build")
  /\ draft' = [draft EXCEPT ![th] = EmptyDraft]
  /\ UNCHANGED <<program, bundles, infoLock, request, at, answers, visit, visits, aborted>>

\* CreateBundle, one field: a slot is counted or a record is placed.
AddStatic(th) ==
  /\ Go(th, "build")
  /\ LET d == draft[th]
         types == fields[request[th].owner]
         t == types[d.next]
         kind == ComputeSlotKind(t)
         size == GetFlatSize(t)
     IN /\ d.next <= Len(types)
        /\ MayAdd(t)
        /\ kind # "RECORD" \/ size # Unknown
        /\ draft' = [draft EXCEPT ![th] =
             CASE kind = "REFERENCE" -> [d EXCEPT !.next = @ + 1, !.refs = @ + 1]
               [] kind = "PRIMITIVE" -> [d EXCEPT !.next = @ + 1, !.prims = @ + 1]
               [] kind = "RECORD" ->
                    [d EXCEPT !.next = @ + 1,
                              !.records = Append(@, d.size),
                              !.references = @ \cup {d.size + o : o \in FillRefOffsets[t]},
                              !.size = @ + AlignUp(size, Word)]]
  /\ UNCHANGED <<program, bundles, lock, infoLock, pc, request, at, answers, visit, visits, aborted>>

\* The size of the record is not known and is unwrapped all the same.
NoSize(th) ==
  /\ Go(th, "build")
  /\ LET types == fields[request[th].owner]
         next == draft[th].next
     IN next <= Len(types) /\ ComputeSlotKind(types[next]) = "RECORD"
          /\ GetFlatSize(types[next]) = Unknown
  /\ aborted' = TRUE
  /\ UNCHANGED <<program, bundles, lock, infoLock, pc, request, draft, at, answers, visit, visits>>

Publish(th) ==
  /\ Go(th, "build") /\ draft[th].next > Len(fields[request[th].owner])
  /\ bundles' = [o \in DOMAIN bundles \cup {request[th].owner} |->
                   IF o \in DOMAIN bundles THEN bundles[o] ELSE Built(draft[th], th)]
  /\ Goto(th, "locate")
  /\ UNCHANGED <<program, lock, infoLock, request, draft, at, answers, visit, visits, aborted>>

Locate(th) ==
  /\ Go(th, "locate")
  /\ LET owner == request[th].owner  i == request[th].path[1]
     IN at' = [at EXCEPT ![th] =
                 [type |-> fields[owner][i],
                  offset |-> GetLocation(bundles[owner], fields[owner], i)]]
  /\ lock' = Nobody
  /\ Goto(th, "path")
  /\ UNCHANGED <<program, bundles, infoLock, request, draft, answers, visit, visits, aborted>>

\* The fields on the path after the static one, or those of an object.
PathOf(ref) == IF ref.owner \in Owners THEN Tail(ref.path) ELSE ref.path

\* ResolveMultiFieldRef unwraps each field on the path: the one of an array whose
\* elements have no known size is not there.
NoElement(th) ==
  /\ Go(th, "path")
  /\ MayLayOut(at[th].type) /\ ~IsResolved(at[th].type, PathOf(request[th]))
  /\ aborted' = TRUE
  /\ UNCHANGED <<program, bundles, lock, infoLock, pc, request, draft, at, answers, visit, visits>>

\* The fields after the first add their offsets; one of them may have none.
Answer(th) ==
  /\ Go(th, "path")
  /\ MayLayOut(at[th].type) /\ IsResolved(at[th].type, PathOf(request[th]))
  /\ LET ref == request[th]
         static == ref.owner \in Owners
         end == ResolveMulti(at[th].type, PathOf(ref))
     IN answers' = answers \cup
          {[ref |-> ref, type |-> end.type,
            offset |-> IF end.offset = Unknown THEN Unknown ELSE at[th].offset + end.offset,
            memory |-> IF static THEN bundles[ref.owner].memory ELSE ref.owner]}
  /\ at' = [at EXCEPT ![th] = Nowhere]
  /\ request' = [request EXCEPT ![th] = NoRequest]
  /\ draft' = [draft EXCEPT ![th] = EmptyDraft]
  /\ Goto(th, "idle")
  /\ UNCHANGED <<program, bundles, lock, infoLock, visit, visits, aborted>>

--------------------------------------------------------------------------------
(* The collector, and other threads in the manager of type infos *)

\* StaticsManager::VisitRefLocations, under the lock.
StartVisit ==
  /\ ~aborted /\ MayLock /\ ~visit.on /\ visits < MaxVisits
  /\ lock' = Collector
  /\ visit' = [left |-> DOMAIN bundles, seen |-> {}, on |-> TRUE]
  /\ visits' = visits + 1
  /\ UNCHANGED <<program, bundles, infoLock, pc, request, draft, at, answers, aborted>>

VisitBundle ==
  /\ ~aborted /\ visit.on
  /\ \E o \in visit.left :
       visit' = [visit EXCEPT !.left = @ \ {o},
                              !.seen = @ \cup ({o} \X VisitRefLocations(bundles[o]))]
  /\ UNCHANGED <<program, bundles, lock, infoLock, pc, request, draft, at, answers, visits, aborted>>

EndVisit ==
  /\ ~aborted /\ visit.on /\ visit.left = {}
  /\ visit' = NoVisit
  /\ lock' = Nobody
  /\ UNCHANGED <<program, bundles, infoLock, pc, request, draft, at, answers, visits, aborted>>

EnterInfos ==
  /\ ~aborted /\ ~infoLock
  /\ infoLock' = TRUE
  /\ UNCHANGED <<program, bundles, lock, pc, request, draft, at, answers, visit, visits, aborted>>

LeaveInfos ==
  /\ ~aborted /\ InfosMayEnd
  /\ infoLock' = FALSE
  /\ UNCHANGED <<program, bundles, lock, pc, request, draft, at, answers, visit, visits, aborted>>

Proceed(th) ==
  \/ Lock(th) \/ AddStatic(th) \/ NoSize(th) \/ Publish(th) \/ Locate(th)
  \/ NoElement(th) \/ Answer(th)
Visit == StartVisit \/ VisitBundle \/ EndVisit

Next ==
  \/ \E th \in Threads : AskStatic(th) \/ AskInstance(th) \/ Proceed(th)
  \/ Visit \/ EnterInfos \/ LeaveInfos

Spec == Init /\ [][Next]_vars

--------------------------------------------------------------------------------
(* Properties *)

\* The size of a leaf, and the alignment its accesses may count on.
Place(a) == a.offset..(a.offset + GetFlatSize(a.type) - 1)

PackedOn(t, path) ==
  \E n \in DOMAIN path : Kind(TypeAt(t, SubSeq(path, 1, n - 1))) = "PACKED_TUPLE"

OnPacked(ref) ==
  IF ref.owner \in Owners THEN PackedOn(fields[ref.owner][ref.path[1]], Tail(ref.path))
  ELSE PackedOn(ref.owner, ref.path)

\* Answered references to different parts of one owner denote places that do
\* not overlap, in one memory, inside it, and aligned as their types demand
\* except in packed tuples: a store to one field never changes another, for
\* static fields resolved by different threads and for the fields a class has
\* from its super.
FieldsAreApart ==
  \A a \in answers : a.offset # Unknown =>
    /\ a.ref.owner \in Owners =>
         a.memory = bundles[a.ref.owner].memory /\ Place(a) \subseteq 0..bundles[a.ref.owner].size - 1
    /\ a.ref.owner \in classes => \A x \in Place(a) : x >= ObjectHeaderSize
    /\ OnPacked(a.ref) \/ GetFlatSize(a.type) = Unknown \/ a.offset % GetFlatAlignment(a.type) = 0
    /\ \A b \in answers : b.ref # a.ref /\ b.ref.owner = a.ref.owner /\ b.offset # Unknown =>
         Place(a) \cap Place(b) = {} /\ a.memory = b.memory

\* Where a value holds references: at the leaves that are references, in the
\* value of an option, and where the runtime says for its own types.
ReferencesWithin[t \in Types] ==
  LET OfLeaf(leaf) ==
        CASE IsReference(leaf) -> {0}
          [] Kind(leaf) = "OPTION" -> LET some == Layout[leaf].fields[2]
                                      IN {some.offset + o : o \in ReferencesWithin[some.type]}
          [] Kind(leaf) = "AOT_TYPE" -> Describe[leaf].info.references
          [] OTHER -> {}
      Of(end) == {end.offset + o : o \in OfLeaf(end.type)}
  IN IF Leaves[t] = {<<>>} THEN OfLeaf(t) ELSE UNION {Of(ResolveMulti(t, path)) : path \in Leaves[t]}

References == [t \in Types |-> ReferencesWithin[t]]

ReferencesIn(o) ==
  UNION {{GetLocation(bundles[o], fields[o], i) + r : r \in References[fields[o][i]]}
           : i \in DOMAIN fields[o]}

\* When the collector has gone through the bundles it has seen exactly the
\* places at which references to static fields find references: none is
\* missed, and no number is taken for a reference.
CollectorSeesStatics ==
  visit.on /\ visit.left = {} =>
    visit.seen = UNION {{o} \X ReferencesIn(o) : o \in DOMAIN bundles}

\* As long as the program has not given up, somebody who has begun something
\* can go on: threads, the collector and the users of type infos do not wait
\* for each other in a circle, although one mutex is taken under another.
NobodyWaitsInACircle ==
  ~aborted /\ (visit.on \/ infoLock \/ \E th \in Threads : pc[th] # "idle") =>
    \/ visit.on \/ InfosMayEnd
    \/ \E th \in Threads :
         \/ pc[th] = "asked" /\ MayLock
         \/ pc[th] = "build" /\ \/ draft[th].next > Len(fields[request[th].owner])
                                \/ MayAdd(fields[request[th].owner][draft[th].next])
         \/ pc[th] = "locate"
         \/ pc[th] = "path" /\ MayLayOut(at[th].type)

--------------------------------------------------------------------------------
(* What the layout of a type by itself is: the properties above rest on it *)

\* Only a record may be of unknown size, or longer than a word.
SizesAreKnown ==
  \A t \in Types :
    /\ GetFlatSize(t) \in Nat \cup {Unknown}
    /\ ComputeSlotKind(t) # "RECORD" => GetFlatSize(t) <= Word

PlaceIn(t, path) ==
  LET end == ResolveMulti(t, path) IN end.offset..(end.offset + GetFlatSize(end.type) - 1)

Placed(t, paths) == {path \in paths : ResolveMulti(t, path).offset # Unknown}

\* Parts that have a place are apart, within, and aligned but for packed tuples.
LaidOut(t, paths, within) ==
  \A path \in Placed(t, paths) :
    LET end == ResolveMulti(t, path)
    IN /\ path \in Seq(Nat) /\ end.offset \in Nat /\ end.type \in Types
       /\ PlaceIn(t, path) \subseteq within
       /\ \/ PackedOn(t, path) \/ GetFlatSize(end.type) = Unknown
          \/ GetFlatAlignment(end.type) \in {1, 2, 4, 8} /\ end.offset % GetFlatAlignment(end.type) = 0
       /\ \A other \in Placed(t, paths) \ {path} : PlaceIn(t, path) \cap PlaceIn(t, other) = {}

ValuesAreLaidOut ==
  \A t \in Types : Leaves[t] \subseteq Seq(Nat) /\ LaidOut(t, Leaves[t], 0..(GetFlatSize(t) - 1))

ObjectsAreLaidOut ==
  \A p \in Programs : \A t \in p.classes :
    LaidOut(t, LeavesOfObject(t), {x \in Nat : x >= ObjectHeaderSize})

\* The offsets that the collector is given for a record are those of its references.
OffsetsAreThoseOfReferences ==
  \A t \in Types :
    /\ ComputeSlotKind(t) = "REFERENCE" => References[t] = {0}
    /\ ComputeSlotKind(t) = "PRIMITIVE" => References[t] = {}
    /\ ComputeSlotKind(t) = "RECORD" => References[t] = FillRefOffsets[t] /\ FillRefOffsets[t] \subseteq Nat

================================================================================
