---------------------------------- MODULE Terms ----------------------------------
(***************************************************************************)
(* Sessions that make terms, and the table that interns them.              *)
(*                                                                         *)
(* Every thread works in a session of its own: it resolves references,     *)
(* substitutes, and makes terms of type infos the runtime presents, all in *)
(* its arena.  A term that has to outlive the session is globalized, its   *)
(* subterms first: each is looked up in the table, or copied into it, in a *)
(* critical section of its own.  From then on equal terms are one pointer, *)
(* which is what type infos and method tables are looked up by.            *)
(*                                                                         *)
(* Sources: engine/terms.cpp (TermManager), ReconstructTerm in             *)
(* runtimesupport/impl/typeinfo_factory.cpp.                               *)
(***************************************************************************)
EXTENDS TermAlgebra

CONSTANTS
  Threads,
  Asked,         \* bound: references that are resolved
  Members,       \* bound: references that are resolved in the context of a type
  Signatures,    \* bound: signatures of methods
  Presented,     \* bound: what the runtime presents type infos of
  Extended,      \* Extended[ref]: the arity of the extension of type ref
  MaxHeld,       \* bound: terms of the sessions together
  MaxInterned,   \* bound: terms of the table
  None

ASSUME BoundsAssumption ==
  /\ Asked \cup Members \cup Signatures \cup DOMAIN Extended \subseteq Refs
  /\ \A p \in Presented :
       /\ p.kind \in AotTags \cup EnumTags \cup PlainTags
       /\ p.name \in STRING /\ p.num \in Nat
       /\ p.kind \in EnumTags =>
            /\ p.name \in Names
            /\ Defs[p.name].enum = p.kind /\ Defs[p.name].arity = p.arity
  /\ \A ref \in Signatures : ref \in DOMAIN Pool /\ Pool[ref].tag = "FUNCTIONAL"
  /\ MaxHeld \in Nat /\ MaxInterned \in Nat
  /\ \A ref \in Asked \cup Members \cup Signatures \cup DOMAIN Extended :
       Resolve[ref] \in Term
  /\ \A ref \in DOMAIN Extended : Extended[ref] \in Nat
  /\ \A name \in Names :
       Defs[name].enum = "OPTION" => Resolve[Defs[name].enumType] \in Term

VARIABLES
  held,       \* held[th]: the terms of the session of th, see Entry
  walk,       \* walk[th]: the entry th is globalizing, or None
  interned    \* TermManager::cache

vars == <<held, walk, interned>>

Init ==
  /\ held = [th \in Threads |-> {}]
  /\ walk = [th \in Threads |-> None]
  /\ interned = {}

\* A term, and the structure it was asked for.  The second part is not in the
\* code.
Entry(t, s) == [term |-> t, is |-> s]
------------------------------------------------------------------------------
(***************************************************************************)
(* What a reference and a substitution stand for, without streams, flags   *)
(* and pointers.                                                           *)
(***************************************************************************)

Plain(id) == Bare(id, <<>>)
UndefinedAs(ref) == Plain(Id("UNDEFINED", ref, 0))

FitsDefinition(e) ==
  /\ e.tag \in DefTags \cup EnumTags =>
       e.name \in Names /\ Defs[e.name].arity = Len(e.subs)
  /\ e.tag \in DefTags => Defs[e.name].record = (e.tag = "REC")
  /\ e.tag \in EnumTags => Defs[e.name].enum = e.tag

KindOf(e) ==
  IF e.tag \in DefTags \/ (e.tag \in AotTags /\ e.name \in Names) THEN "TYPE"
  ELSE IF e.tag \in AotTags THEN "AOT_TYPE" ELSE e.tag

Denoted[ref \in Refs] ==
  IF ref \in Primitives THEN Plain(TagId(ref))
  ELSE LET e == Pool[ref]
           subs == [i \in DOMAIN e.subs |-> Denoted[e.subs[i]]]
       IN  IF /\ FitsDefinition(e)
              /\ \A i \in DOMAIN subs : subs[i].id.kind # "UNDEFINED"
           THEN Bare(Id(KindOf(e), e.name, e.num), subs)
           ELSE UndefinedAs(ref)

Instance(s, args) ==
  LET instance[u \in Term] ==
        IF u.id.kind = "CLASS_TYPE_VAR" THEN args[u.id.num + 1]
        ELSE Bare(u.id, [i \in DOMAIN u.subs |-> instance[u.subs[i]]])
  IN  instance[s]

\* Whether the values of the type s are references, as CheckIsRecord and the tags
\* say of every kind; for an option it is up to what it is an option of.
IsPlainReference(s) ==
  \/ s.id.kind = "TYPE" /\ ~Defs[s.id.name].record
  \/ /\ s.id.kind = "AOT_TYPE"
     /\ \E ref \in DOMAIN Pool : Pool[ref].name = s.id.name /\ Pool[ref].tag = "AOT_REF"
  \/ s.id.kind \in {"FUNCTIONAL", "NULLABLE", "CANGJIE_ARRAY", "BOX"} \cup VarTags

HoldsReferences(s) ==
  IF s.id.kind # "OPTION" THEN IsPlainReference(s)
  ELSE LET u == Instance(Denoted[Defs[s.id.name].enumType], s.subs)
       IN  u.id.kind \in {"TYPE", "AOT_TYPE", "FUNCTIONAL"} /\ IsPlainReference(u)

\* A method's signature: arguments that are variables are boxed.
BoxedAs(s) ==
  IF HoldsReferences(s) THEN s ELSE Bare(TagId("BOX"), <<s>>)

SignatureInstance(s, args) ==
  Bare(s.id, [i \in DOMAIN s.subs |->
                IF s.subs[i].id.kind = "CLASS_TYPE_VAR"
                THEN BoxedAs(Instance(s.subs[i], args))
                ELSE Instance(s.subs[i], args)])
------------------------------------------------------------------------------
(***************************************************************************)
(* A session makes terms.                                                  *)
(***************************************************************************)

Idle(th) == walk[th] = None
Working == UNION {held[th] \cup ({walk[th]} \ {None}) : th \in Threads}

Room ==
  Cardinality({at \in Threads \X Working : at[2] \in held[at[1]] \/ at[2] = walk[at[1]]})
    < MaxHeld

Hold(th, e) == Room /\ e.term \in Term /\ held' = [held EXCEPT ![th] = @ \cup {e}]

Resolved(R) == {Entry(Resolve[ref], Denoted[ref]) : ref \in R}

ResolveTerm(th, e) ==
  /\ Idle(th)
  /\ Hold(th, e)
  /\ UNCHANGED <<walk, interned>>

Subterms[t \in Term] == {t} \cup UNION {Subterms[t.subs[i]] : i \in DOMAIN t.subs}

\* The variables of e are given the arguments of the type o.
Substitutable(e, o) ==
  /\ ~IsUndefined(e.term) /\ IsGeneric(e.term)
  /\ \A t \in Subterms[e.term] :
       t.id.kind = "CLASS_TYPE_VAR" => t.id.num < Len(o.term.subs)

\* A field, a super type or an interface is resolved and put into the context
\* of o; LoadTypeInfo does so with a term it is given.
SubstituteTerm(th, e, o) ==
  /\ Idle(th) /\ Substitutable(e, o)
  /\ Hold(th, Entry(Substitute(e.term, o.term.subs, FALSE),
                    Instance(e.is, o.is.subs)))
  /\ UNCHANGED <<walk, interned>>

\* So is the signature of a method, whose own arguments are boxed.
SubstituteSignature(th, e, o) ==
  /\ Idle(th) /\ Substitutable(e, o)
  /\ Hold(th, Entry(Substitute(e.term, o.term.subs, TRUE),
                    SignatureInstance(e.is, o.is.subs)))
  /\ UNCHANGED <<walk, interned>>

\* The flags ReconstructTerm gives to a term of a kind: every kind but VARRAY
\* is a reference, except that structs are AOT records and enums are looked up.
PresentedFlags(p, subs) ==
  CASE p.kind \in EnumTags -> EnumFlags(Resolve, p.kind, p.name, subs)
    [] p.kind \in AotTags ->
         Represented(p.kind = "AOT_REF") \cup
         (IF p.name \in Names THEN {"aot"} ELSE {})
    [] OTHER -> Represented(p.kind # "VARRAY")

\* ReconstructTerm: the terms of the arguments are interned or builtin.
Present(th, p, subs) ==
  LET id == Id(KindOf([tag |-> p.kind, name |-> p.name]), p.name, p.num)
      t == Local(id, subs, PresentedFlags(p, subs))
  IN  /\ Idle(th) /\ Room /\ t \in Term
      /\ Len(subs) = p.arity
      /\ walk' = [walk EXCEPT ![th] = Entry(t, Structure(t))]
      /\ UNCHANGED <<held, interned>>

EndSession(th) ==
  /\ Idle(th) /\ held[th] # {}
  /\ held' = [held EXCEPT ![th] = {}]
  /\ UNCHANGED <<walk, interned>>
------------------------------------------------------------------------------
(***************************************************************************)
(* Globalize.  The walk is kept as the term with the subterms that were    *)
(* globalized already put in place, as the code puts them.                 *)
(***************************************************************************)

Globalize(th, e) ==
  /\ Idle(th) /\ IsLocal(e.term) /\ ~IsUndefined(e.term)
  /\ walk' = [walk EXCEPT ![th] = e]
  /\ held' = [held EXCEPT ![th] = @ \ {e}]
  /\ UNCHANGED interned

LocalSubterms(t) == {i \in DOMAIN t.subs : IsLocal(t.subs[i])}
Leftmost(t) == Min(LocalSubterms(t))

\* Mutant: the term is looked up before its subterms are globalized.
Outermost(t) == t

\* The first term whose subterms are all globalized.
InnermostOf[t \in Term] ==
  IF LocalSubterms(t) = {} THEN t ELSE InnermostOf[t.subs[Leftmost(t)]]
Innermost(t) == InnermostOf[t]

\* That term is replaced.
PutInnermost(t, g) ==
  LET put[u \in Term] ==
        IF LocalSubterms(u) = {} THEN g
        ELSE [u EXCEPT !.subs[Leftmost(u)] = put[u.subs[Leftmost(u)]]]
  IN  put[t]

\* Mutant: the flags take part in the comparison.
CachedWithFlags(t) ==
  {g \in interned : g.id = t.id /\ g.subs = t.subs /\ g.flags = t.flags}

\* TermManager::Comparator: the same identifier and the same pointers.
Cached(t) == {g \in interned : g.id = t.id /\ g.subs = t.subs}

\* The copy that is put into the table, at an address of its own.
Evacuated(t) ==
  [t EXCEPT !.at = <<"global", Cardinality({g \in interned : SameStructure(g, t)})>>]

\* One critical section.
Intern(th) ==
  /\ ~Idle(th)
  /\ LET t == Innermost(walk[th].term)
         g == IF Cached(t) # {} THEN CHOOSE c \in Cached(t) : TRUE ELSE Evacuated(t)
         now == [walk[th] EXCEPT !.term = PutInnermost(@, g)]
     IN  /\ Cached(t) # {} \/ Cardinality(interned) < MaxInterned
         /\ interned' = interned \cup {g}
         /\ IF IsLocal(now.term)
            THEN walk' = [walk EXCEPT ![th] = now] /\ UNCHANGED held
            ELSE /\ walk' = [walk EXCEPT ![th] = None]
                 /\ held' = [held EXCEPT ![th] = @ \cup {now}]
------------------------------------------------------------------------------
\* What the terms of type arguments may be.
Closed == {g \in interned : ~IsGeneric(g)} \cup {Predefined("I64")}
Arguments == UNION {[1..n -> Closed] : n \in 0..2}

\* What the file has, each resolved once.
ResolvedAsked == Resolved(Asked)
ResolvedMembers == Resolved(Members)
ResolvedSignatures == Resolved(Signatures)

Next ==
  \E th \in Threads :
    \/ \E e \in ResolvedAsked : ResolveTerm(th, e)
    \/ \E o \in held[th], e \in held[th] \cup ResolvedMembers :
         SubstituteTerm(th, e, o)
    \/ \E o \in held[th], e \in ResolvedSignatures : SubstituteSignature(th, e, o)
    \/ \E p \in Presented, subs \in Arguments : Present(th, p, subs)
    \/ \E e \in held[th] : Globalize(th, e)
    \/ Intern(th)
    \/ EndSession(th)

Spec == Init /\ [][Next]_vars
------------------------------------------------------------------------------
(***************************************************************************)
(* Properties.                                                             *)
(***************************************************************************)

AllTerms == interned \cup UNION {Subterms[e.term] : e \in Working}

\* Equal types are one pointer in the table: type infos, method tables and
\* type tests of rewritten code compare pointers.
OneTermPerType == \A g, h \in interned : SameStructure(g, h) => g = h

\* Nothing in the table is in the arena of a session, which ends.
NoDangling ==
  \A g \in interned : \A t \in Subterms[g] :
    ~IsLocal(t) /\ (t.at[1] = "global" => t \in interned)

\* Through any sequence of resolutions, substitutions and globalizations a
\* term stays the type that was asked for, is a reference exactly when the
\* values of that type are, and is generic exactly when it has type variables.
TermsAreRight ==
  \A e \in Working :
    /\ Structure(e.term) = e.is
    /\ \A t \in Subterms[e.term] :
         /\ IsReference(t) <=> HoldsReferences(Structure(t))
         /\ IsGeneric(t) <=> \E u \in Subterms[t] : u.id.kind \in VarTags

\* What the files and the runtime say of types does not contradict: the
\* arguments of a type of compiled code that has a definition have theirs, all
\* files and the runtime agree which of the others are records, and the runtime
\* presents no tuples and C pointers (see TermFindings for the first and last).
FilesAgree ==
  /\ \A ref \in DOMAIN Pool :
       Pool[ref].tag \in AotTags /\ Pool[ref].name \in Names =>
         \A i \in DOMAIN Pool[ref].subs : ~IsUndefined(Resolve[Pool[ref].subs[i]])
  /\ \A q, r \in DOMAIN Pool :
       {Pool[q].tag, Pool[r].tag} \subseteq AotTags /\ Pool[q].name = Pool[r].name =>
         Pool[q].tag = Pool[r].tag
  /\ \A p \in Presented :
       /\ p.kind \notin {"TUPLE", "PACKED_TUPLE_HACK", "C_POINTER"}
       /\ p.kind \in AotTags =>
            IF p.name \in Names THEN Defs[p.name].record = (p.kind = "AOT_REC")
            ELSE \E ref \in DOMAIN Pool :
                   Pool[ref].name = p.name /\ Pool[ref].tag = p.kind

Values(n, s) == [1..n -> Subterms[s]]

Extension == [ref \in DOMAIN Extended |-> Resolve[ref]]

VariablesOf(t) ==
  {u.id.num + 1 : u \in {v \in Subterms[t] : v.id.kind = "CLASS_TYPE_VAR"}}

\* All variables of an extension occur in the type it extends: the language
\* asks for it (BuildTable relies on that).
ExtensionsUseTheirVariables ==
  \A ref \in DOMAIN Extended : VariablesOf(Extension[ref]) = 1..Extended[ref]

\* An extension of a type applies to a closed type exactly when the type is an
\* instance of it, and the terms that the matcher binds to the variables make
\* the one from the other.
MatchInverts ==
  \A e \in Working : \A ref \in DOMAIN Extended :
    LET p == Extension[ref]
        s == Structure(e.term)
    IN  ~IsGeneric(e.term) =>
          /\ CompleteMatch(p, e.term) <=>
               \E v \in Values(Extended[ref], s) : Instance(Structure(p), v) = s
          /\ CompleteMatch(p, e.term) =>
               /\ Len(Match(p, e.term).vars) = Extended[ref]
               /\ SameStructure(Substitute(p, Match(p, e.term).vars, FALSE), e.term)

\* Term::IsRecord asserts that the flag agrees with the kind.
CheckIsRecord(t) ==
  \/ t.id.kind \in {"UNIT", "TUPLE", "PACKED_TUPLE_HACK", "UNION_ENUM", "VARRAY"}
  \/ t.id.kind \in {"TYPE", "OPTION", "AOT_TYPE"} /\ ~IsReference(t)

RecordFlagFits == \A t \in AllTerms : CheckIsRecord(t) = ("rec" \in t.flags)

\* Resolve says that a resolution error gives an UNDEFINED term.
ErrorsAreUndefined ==
  \A e \in Working : e.is.id.kind = "UNDEFINED" => IsUndefined(e.term)

\* BuildTable asserts that a match binds all variables of the extension.
ExtensionVariablesBound ==
  \A e \in Working : \A ref \in DOMAIN Extended :
    CompleteMatch(Resolve[ref], e.term) =>
      Len(Match(Resolve[ref], e.term).vars) = Extended[ref]
==============================================================================
