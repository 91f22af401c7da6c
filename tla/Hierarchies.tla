------------------------------ MODULE Hierarchies ------------------------------
(***************************************************************************)
(* The type definitions of the loaded files, and what their hierarchy      *)
(* promises of a method: which definition of it an object of a type runs.  *)
(*                                                                         *)
(* A term is a definition and the argument of its one class type variable, *)
(* "-" when it has none.  A method names its owner, so two methods of the  *)
(* same reference in two types differ.                                     *)
(***************************************************************************)
EXTENDS Integers, FiniteSets, Sequences, SequencesExt

CONSTANTS
  Definitions,   \* name -> kind, super, interfaces, methods
  Extensions,    \* in the order of the files: of, interfaces, methods
  Terms,         \* the ground terms over Definitions
  Boxed,         \* the arguments as parameters of a method: values are boxed
  References     \* names of methods with signatures

Nil == [def |-> "NIL", arg |-> "-"]
Undefined == [def |-> "UNDEFINED", arg |-> "-"]

DefinitionOf(t) == Definitions[t.def]

\* ClassSubstitution: the variable of the owner.
Instance(t, owner) == [t EXCEPT !.arg = IF @ = "T" THEN owner.arg ELSE @]

\* MethodSignatureSubstitution: put(T) of an owner of i8 is not its put(i8).
Ref(method, context) ==
  [name |-> method.name,
   signature |-> IF method.signature = "T" THEN Boxed[context.arg] ELSE method.signature]

\* TermMatcher: an extension of a term with a variable extends every instance.
Extends(ext, t) == ext.of.def = t.def /\ ext.of.arg \in {"T", t.arg}
ExtensionsOf(t) == SelectSeq(Extensions, LAMBDA ext : Extends(ext, t))
ContextOf(ext, t) == [def |-> "GENERIC_CONTEXT", arg |-> IF ext.of.arg = "T" THEN t.arg ELSE "-"]

--------------------------------------------------------------------------------
(* What the hierarchy promises.  These definitions know nothing of tables. *)

Concrete(candidates) == {c \in candidates : ~c.method.abstract}
Preferred(candidates) == IF Concrete(candidates) = {} THEN candidates ELSE Concrete(candidates)

Declared(methods, context, ref) ==
  {[method |-> m, context |-> context] : m \in {n \in ToSet(methods) : Ref(n, context) = ref}}

Interfaces(t) ==
  {Instance(i, t) : i \in ToSet(DefinitionOf(t).interfaces)}
    \cup UNION {{Instance(i, ContextOf(ext, t)) : i \in ToSet(ext.interfaces)} : ext \in ToSet(ExtensionsOf(t))}
Super(t) == IF DefinitionOf(t).kind = "CLASS" THEN Instance(DefinitionOf(t).super, t) ELSE Nil

\* A type's own definition, then those of its extensions, then the one its super
\* runs, then the defaults of its interfaces.
Promised[t \in Terms] ==
  [ref \in References |->
     LET own == Declared(DefinitionOf(t).methods, t, ref)
         added == UNION {Declared(ext.methods, ContextOf(ext, t), ref) : ext \in ToSet(ExtensionsOf(t))}
         inherited == IF Super(t) \in Terms THEN Promised[Super(t)][ref] ELSE {}
         defaults == UNION {Promised[i][ref] : i \in Interfaces(t) \cap Terms}
     IN CASE own # {} -> own
          [] own = {} /\ added # {} -> added
          [] OTHER -> IF Concrete(inherited) # {} THEN Concrete(inherited)
                      ELSE Preferred(inherited \cup defaults)]

\* A hierarchy is refused when a type it needs is, or when it leaves two bodies
\* for one method.
Accepted[t \in Terms] ==
  /\ Super(t) = Nil \/ (Super(t) \in Terms /\ Accepted[Super(t)])
  /\ \A i \in Interfaces(t) : i \in Terms /\ Accepted[i]
  /\ \A ref \in References : Cardinality({c.method : c \in Concrete(Promised[t][ref])}) < 2

Promise == [t \in Terms |-> Promised[t]]
IsAccepted == [t \in Terms |-> Accepted[t]]

Above[t \in Terms] ==
  {t} \cup UNION {Above[s] : s \in (Interfaces(t) \cup {Super(t)}) \cap Terms}
================================================================================
