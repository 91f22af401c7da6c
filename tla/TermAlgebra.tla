------------------------------ MODULE TermAlgebra ------------------------------
(***************************************************************************)
(* Terms: types as the engine computes with them.                          *)
(*                                                                         *)
(* A term is read from the pool of a CBC file, has other terms put in      *)
(* place of its type variables, and is matched against the type that an    *)
(* extension extends.  The flags of a term say how its values are          *)
(* represented; they are computed once, when the term is made.             *)
(*                                                                         *)
(* Source: engine/terms.cpp and .h.  All of this is sequential; interning, *)
(* which is not, is in module Terms.  Left out: hashes, fixed-size         *)
(* promises (FST), the texts of failures.  Recursion over terms is by      *)
(* recursive functions, whose domain are the terms nested to a bound.      *)
(***************************************************************************)
EXTENDS Integers, Sequences, FiniteSets, FiniteSetsExt

CONSTANTS
  Primitives,   \* references below FIRST_NON_PRIMITIVE: their kinds
  Pool,         \* Pool[ref]: the entry of the pool of terms
  Defs,         \* Defs[name]: the type definition that FindType finds
  MaxDepth      \* bound: how deep terms are nested

DefTags == {"REC", "REF"}
AotTags == {"AOT_REC", "AOT_REF"}
EnumTags == {"OPTION", "UNION_ENUM", "PRIMITIVE_ENUM"}
VarTags == {"CLASS_TYPE_VAR", "FUNC_TYPE_VAR"}
PlainTags ==
  {"FUNCTIONAL", "NULLABLE", "CANGJIE_ARRAY", "BOX", "VARRAY", "TUPLE",
   "PACKED_TUPLE_HACK", "C_POINTER"}

NoName == ""

Refs == Primitives \cup DOMAIN Pool
Names == DOMAIN Defs

\* "name" and "num" are what the tag needs besides the subterms; "after" is
\* what the bytes behind the last subterm decode to, as far as they are read.
\* A file the compiler wrote says of a type found among the definitions what
\* its definition says.
ASSUME PoolAssumption ==
  \A ref \in DOMAIN Pool :
    LET e == Pool[ref]
    IN  /\ ref \in STRING /\ ref \notin Primitives
        /\ e.tag \in DefTags \cup AotTags \cup EnumTags \cup VarTags \cup PlainTags
        /\ e.name \in STRING /\ e.num \in Nat
        /\ e.tag \in VarTags \cup PlainTags => e.name = NoName
        /\ e.tag \notin VarTags \cup PlainTags => e.num = 0
        /\ e.subs \in Seq(Refs) /\ e.after \in Seq(Refs)
        /\ e.tag \in VarTags => e.subs = <<>>
        /\ e.tag \in AotTags /\ e.name \in Names =>
             /\ Defs[e.name].record = (e.tag = "AOT_REC")
             /\ Defs[e.name].arity = Len(e.subs)
             /\ Len(e.after) >= Len(e.subs)

ASSUME DefsAssumption ==
  \A name \in Names :
    /\ Defs[name].record \in BOOLEAN /\ Defs[name].arity \in Nat
    /\ Defs[name].enum \in {"NOT_ENUM"} \cup EnumTags
    /\ Defs[name].enum = "OPTION" =>
         LET type == Defs[name].enumType
         IN  /\ type \in Refs
             /\ type \in DOMAIN Pool /\ Pool[type].tag = "CLASS_TYPE_VAR" =>
                  Pool[type].num < Defs[name].arity

\* The kinds of the primitives are theirs alone.
ASSUME PrimitivesAssumption ==
  /\ Primitives \subseteq STRING
  /\ Primitives \cap (AotTags \cup EnumTags \cup VarTags \cup PlainTags
                       \cup {"TYPE", "AOT_TYPE", "UNDEFINED", "NIL"}) = {}

\* What the term of an entry is made of: its subterms, and what an option is an option of.
Parts(ref) ==
  IF ref \in Primitives THEN {}
  ELSE LET e == Pool[ref]
       IN  {(e.subs \o e.after)[i] : i \in 1..Len(e.subs \o e.after)} \cup
             (IF e.tag = "OPTION" /\ e.name \in Names /\ Defs[e.name].enum = "OPTION"
              THEN {Defs[e.name].enumType} ELSE {})

\* No type is part of itself: of any references, one is made of none of them.
ASSUME PartsAssumption ==
  /\ IsFiniteSet(Refs)
  /\ \A R \in SUBSET Refs : R # {} => \E ref \in R : Parts(ref) \cap R = {}

ASSUME MaxDepthAssumption == MaxDepth \in Nat

Flag == {"ref", "rec", "gen", "aot"}

Id(kind, name, num) == [kind |-> kind, name |-> name, num |-> num]
TagId(kind) == Id(kind, NoName, 0)
Ids == [kind : STRING, name : STRING, num : Nat]

\* The provers do not know of a string that it is one.
ASSUME NilAssumption == TagId("NIL") \in Ids
------------------------------------------------------------------------------
(***************************************************************************)
(* Terms.  "at" tells pointers to the same structure apart: an object of a *)
(* session, one of the builtin terms, or an interned one.                  *)
(***************************************************************************)

Places == {<<"local", 0>>, <<"builtin", 0>>} \cup {"global"} \X Nat

TermTo[n \in 0..MaxDepth] ==
  IF n = 0 THEN {}
  ELSE [id : Ids, subs : Seq(TermTo[n - 1]), flags : SUBSET Flag, at : Places]
Term == TermTo[MaxDepth]

IsGeneric(t) == "gen" \in t.flags
IsReference(t) == "ref" \in t.flags
IsLocal(t) == t.at = <<"local", 0>>
IsUndefined(t) == t.id.kind = "UNDEFINED"

GenericFlag(subs) == IF \E i \in DOMAIN subs : IsGeneric(subs[i]) THEN {"gen"} ELSE {}

Local(id, subs, flags) ==
  [id |-> id, subs |-> subs, flags |-> flags \cup GenericFlag(subs),
   at |-> <<"local", 0>>]

Builtin(id, flags) ==
  [id |-> id, subs |-> <<>>, flags |-> flags, at |-> <<"builtin", 0>>]

Predefined(kind) == Builtin(TagId(kind), IF kind = "UNIT" THEN {"rec"} ELSE {})
TypeVariable(kind, num) == Builtin(Id(kind, NoName, num), {"ref", "gen"})
Undefined(ref) == Local(Id("UNDEFINED", ref, 0), <<>>, {})

\* isReference = r, isRecord = !r
Represented(r) == IF r THEN {"ref"} ELSE {"rec"}

PlainFlags(tag) ==
  CASE tag \in {"FUNCTIONAL", "NULLABLE", "CANGJIE_ARRAY", "BOX"} -> {"ref"}
    [] tag \in {"VARRAY", "TUPLE", "PACKED_TUPLE_HACK"} -> {"rec"}
    [] tag = "C_POINTER" -> {}

\* What a term says, without its representation: a term without flags.
Bare(id, subs) == [id |-> id, subs |-> subs, flags |-> {}, at |-> <<"local", 0>>]

StructureOf[t \in Term] ==
  Bare(t.id, [i \in DOMAIN t.subs |-> StructureOf[t.subs[i]]])
Structure(t) == StructureOf[t]

SameStructure(s, t) == Structure(s) = Structure(t)
SamePointer(s, t) == ~IsLocal(s) /\ s = t
------------------------------------------------------------------------------
(***************************************************************************)
(* Resolution.  "of" has the terms of the references an entry is made of.  *)
(***************************************************************************)

\* ReadSubTerms: n references of the stream; it stops behind the first one
\* that is undefined.
ReadSubTerms(of, stream, n) ==
  LET undefined == {i \in 1..n : IsUndefined(of[stream[i]])}
  IN  IF undefined = {}
      THEN [ok |-> TRUE, subs |-> [i \in 1..n |-> of[stream[i]]],
            rest |-> SubSeq(stream, n + 1, Len(stream))]
      ELSE [ok |-> FALSE, subs |-> <<>>,
            rest |-> SubSeq(stream, Min(undefined) + 1, Len(stream))]

\* The term of what was read, or the error.
Read(ref, id, flags, r) ==
  IF r.ok THEN Local(id, r.subs, flags) ELSE Undefined(ref)

Stream(e) == e.subs \o e.after

\* ResolveTypeDefTerm, and where it leaves the stream.
ResolveTypeDefTerm(of, ref, reference, flags) ==
  LET e == Pool[ref]
      fits == /\ e.name \in Names
              /\ Defs[e.name].record # reference
              /\ Defs[e.name].arity = Len(e.subs)
      r == ReadSubTerms(of, Stream(e), Len(e.subs))
  IN  IF ~fits THEN [term |-> Undefined(ref), rest |-> Stream(e)]
      ELSE [rest |-> r.rest,
            term |-> Read(ref, Id("TYPE", e.name, 0),
                          Represented(reference) \cup flags, r)]

\* A type of compiled code may have a definition after all.
ResolveAotType(of, ref, reference) ==
  LET e == Pool[ref]
      def == ResolveTypeDefTerm(of, ref, reference, {"aot"})
  IN  IF ~IsUndefined(def.term) THEN def.term
      ELSE Read(ref, Id("AOT_TYPE", e.name, 0), Represented(reference),
                ReadSubTerms(of, def.rest, Len(e.subs)))

\* OptionFlags: an option over a class, or over a function, is nullable.  An option
\* over an option is not, so what is put into the inner one does not matter.
OptionFlags(type, subs) ==
  LET u == IF type.id.kind = "CLASS_TYPE_VAR" THEN subs[type.id.num + 1] ELSE type
  IN  Represented(u.id.kind \in {"TYPE", "AOT_TYPE", "FUNCTIONAL"} /\ IsReference(u))

EnumFlags(of, tag, name, subs) ==
  CASE tag = "OPTION" -> OptionFlags(of[Defs[name].enumType], subs)
    [] tag = "UNION_ENUM" -> {"rec"}
    [] tag = "PRIMITIVE_ENUM" -> {}

ResolveEnumTerm(of, ref) ==
  LET e == Pool[ref]
      fits == /\ e.name \in Names
              /\ Defs[e.name].enum = e.tag
              /\ Defs[e.name].arity = Len(e.subs)
      r == ReadSubTerms(of, Stream(e), Len(e.subs))
  IN  IF fits /\ r.ok
      THEN Local(Id(e.tag, e.name, 0), r.subs, EnumFlags(of, e.tag, e.name, r.subs))
      ELSE Undefined(ref)

\* TermResolver::Resolve
ResolveEntry(of, ref) ==
  LET e == Pool[ref]
  IN  CASE e.tag \in DefTags -> ResolveTypeDefTerm(of, ref, e.tag = "REF", {}).term
        [] e.tag \in AotTags -> ResolveAotType(of, ref, e.tag = "AOT_REF")
        [] e.tag \in EnumTags -> ResolveEnumTerm(of, ref)
        [] e.tag \in VarTags -> TypeVariable(e.tag, e.num)
        [] e.tag \in PlainTags ->
             Read(ref, Id(e.tag, NoName, e.num), PlainFlags(e.tag),
                  ReadSubTerms(of, Stream(e), Len(e.subs)))

Resolve[ref \in Refs] ==
  IF ref \in Primitives THEN Predefined(ref)
  ELSE ResolveEntry([part \in Parts(ref) |-> Resolve[part]], ref)
------------------------------------------------------------------------------
(***************************************************************************)
(* Substitution.  ClassSubstitution puts args[k] in place of variable k-1; *)
(* MethodSignatureSubstitution ("boxes") wraps it when it is an argument   *)
(* of the signature itself and not a reference.                            *)
(***************************************************************************)

\* Mutant: type variables inside the arguments are boxed too.
SubstituteAnyTv(t, boxes, depth) ==
  IF boxes /\ ~IsReference(t) THEN Local(TagId("BOX"), <<t>>, {"ref"}) ELSE t

SubstituteClassTv(t, boxes, depth) ==
  IF boxes /\ depth = 1 /\ ~IsReference(t)
  THEN Local(TagId("BOX"), <<t>>, {"ref"}) ELSE t

\* The flags of a generic term after its subterms were replaced.
FlagsAfter(t, subs) ==
  (t.flags \ {"gen"}) \cup
    (IF t.id.kind = "OPTION" THEN OptionFlags(Resolve[Defs[t.id.name].enumType], subs)
     ELSE {})

Substitution(args, boxes) ==
  LET substitute[at \in Term \X Nat] ==
        LET t == at[1]  depth == at[2]
        IN  IF ~IsGeneric(t) \/ t.id.kind = "FUNC_TYPE_VAR" THEN t
            ELSE IF t.id.kind = "CLASS_TYPE_VAR"
            THEN SubstituteClassTv(args[t.id.num + 1], boxes, depth)
            ELSE LET subs == [i \in DOMAIN t.subs |-> substitute[<<t.subs[i], depth + 1>>]]
                 IN  Local(t.id, subs, FlagsAfter(t, subs))
  IN  substitute

Substitute(t, args, boxes) == Substitution(args, boxes)[<<t, 0>>]
------------------------------------------------------------------------------
(***************************************************************************)
(* Matching: TermMatcher.                                                  *)
(***************************************************************************)

Nil == Predefined("NIL")
NoMatch == [ok |-> TRUE, vars |-> <<>>, errors |-> FALSE]

\* vars.Resize: the vector has room for variable k-1.
Resized(vars, k) ==
  [i \in 1..(IF k > Len(vars) THEN k ELSE Len(vars)) |->
     IF i <= Len(vars) THEN vars[i] ELSE Nil]

\* Mutant: the first binding wins.
PutFirst(m, k, t) ==
  LET vars == Resized(m.vars, k)
  IN  [m EXCEPT !.vars = IF vars[k] = Nil THEN [vars EXCEPT ![k] = t] ELSE vars]

\* _PutVariable: a variable matches one term only.
PutVariable(m, k, t) ==
  LET vars == Resized(m.vars, k)
  IN  IF SameStructure(vars[k], t) THEN [m EXCEPT !.vars = vars]
      ELSE IF vars[k] = Nil THEN [m EXCEPT !.vars = [vars EXCEPT ![k] = t]]
      ELSE [m EXCEPT !.vars = vars, !.errors = TRUE]

Matches == [ok : BOOLEAN, vars : Seq(Term), errors : BOOLEAN]

\* The subterms are compared in turn, until two differ.
MatchSubterms(isPrefix, m, p, t) ==
  LET upTo[i \in 0..Len(p.subs)] ==
        IF i = 0 THEN m
        ELSE IF upTo[i - 1].ok THEN isPrefix[<<upTo[i - 1], p.subs[i], t.subs[i]>>]
        ELSE upTo[i - 1]
  IN  upTo[Len(p.subs)]

\* CompareTermData with CheckForTypeVar.
IsPrefix[at \in Matches \X Term \X Term] ==
  LET m == at[1]  p == at[2]  t == at[3]
  IN  IF SamePointer(p, t) THEN m
      ELSE IF p.id.kind = "CLASS_TYPE_VAR" THEN PutVariable(m, p.id.num + 1, t)
      ELSE IF p.id # t.id \/ Len(p.subs) # Len(t.subs) THEN [m EXCEPT !.ok = FALSE]
      ELSE MatchSubterms(IsPrefix, m, p, t)

Match(p, t) == IsPrefix[<<NoMatch, p, t>>]
CompleteMatch(p, t) == Match(p, t).ok /\ ~Match(p, t).errors
==============================================================================
