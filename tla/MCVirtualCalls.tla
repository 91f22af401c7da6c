---------------------------- MODULE MCVirtualCalls -----------------------------
(***************************************************************************)
(* Hierarchies of up to four classes: overriding, defaults and their       *)
(* conflicts, abstract classes, generic classes and interfaces, extensions *)
(* of all instances and of one, and missing types.                         *)
(***************************************************************************)
EXTENDS VirtualCalls

T(def) == [def |-> def, arg |-> "-"]
G(def, arg) == [def |-> def, arg |-> arg]

Method(owner, name, signature) ==
  [owner |-> owner, name |-> name, signature |-> signature, abstract |-> FALSE, abi |-> "plain"]
Body(owner, name) == Method(owner, name, "-")
Abstract(m) == [m EXCEPT !.abstract = TRUE]

Interface(interfaces, methods) ==
  [kind |-> "INTERFACE", super |-> Nil, interfaces |-> interfaces, methods |-> methods]
Class(super, interfaces, methods) ==
  [kind |-> "CLASS", super |-> super, interfaces |-> interfaces, methods |-> methods]
Struct(interfaces, methods) == [Class(Nil, interfaces, methods) EXCEPT !.kind = "STRUCT"]

MCDefinitions ==
  [\* interfaces
   I |-> Interface(<<>>, <<Abstract(Body("I", "foo"))>>),
   J |-> Interface(<<T("I")>>, <<Abstract(Body("J", "qux"))>>),
   P |-> Interface(<<>>, <<Body("P", "foo"), Body("P", "pig")>>),
   Q |-> Interface(<<T("P")>>, <<Body("Q", "qux"), Body("Q", "foo")>>),
   R |-> Interface(<<>>, <<Body("R", "foo")>>),
   W |-> Interface(<<T("P"), T("R")>>, <<Body("W", "foo")>>),
   M |-> Interface(<<T("P"), T("R")>>, <<>>),
   N |-> Interface(<<T("I")>>, <<Body("N", "foo")>>),
   put |-> Interface(<<>>, <<Abstract(Method("put", "put", "T"))>>),
   show |-> Interface(<<>>, <<Abstract(Body("show", "show")), Body("show", "name")>>),
   \* overriding and new methods
   S |-> Class(Nil, <<T("I")>>, <<Body("S", "foo"), Body("S", "bar")>>),
   D |-> Class(T("S"), <<>>, <<Body("D", "foo"), Body("D", "baz")>>),
   E |-> Class(T("D"), <<T("J")>>, <<Body("E", "qux"), Body("E", "bar")>>),
   F |-> Class(T("E"), <<T("P")>>, <<[Body("F", "new") EXCEPT !.abi = "sret"]>>),
   \* defaults
   A |-> Class(Nil, <<T("Q")>>, <<Body("A", "bar")>>),
   B |-> Class(T("A"), <<T("I"), T("P")>>, <<Body("B", "pig")>>),
   K |-> Class(Nil, <<T("I")>>, <<Abstract(Body("K", "bar"))>>),
   L |-> Class(T("K"), <<T("R"), T("J")>>, <<Body("L", "qux")>>),
   V |-> Class(T("L"), <<>>, <<Body("V", "bar"), Body("V", "foo")>>),
   \* conflicts of defaults
   X |-> Class(Nil, <<T("P"), T("R")>>, <<>>),
   Y |-> Class(Nil, <<T("P"), T("R")>>, <<Body("Y", "foo")>>),
   Z |-> Class(T("X"), <<>>, <<Body("Z", "foo")>>),
   O |-> Class(T("Y"), <<T("W")>>, <<>>),
   C |-> Class(Nil, <<T("M")>>, <<Body("C", "foo")>>),
   \* missing types
   U |-> Class(T("D"), <<T("I"), Undefined, T("P")>>, <<>>),
   H |-> Class(T("U"), <<T("R")>>, <<Body("H", "foo")>>),
   \* generic types and extensions
   Box |-> Class(Nil, <<G("put", "T")>>, <<Method("Box", "put", "T"), Body("Box", "get")>>),
   Ints |-> Class(G("Box", "i8"), <<G("put", "string")>>,
                  <<Method("Ints", "put", "string"), Method("Ints", "put", "boxed i8"),
                    Method("Ints", "put", "i8"), Body("Ints", "new")>>),
   Pair |-> Struct(<<>>, <<Body("Pair", "get")>>)]

MCExtensions ==
  <<[of |-> G("Box", "T"), interfaces |-> <<T("show")>>,
     methods |-> <<Body("extBox", "show"), Method("extBox", "put", "T")>>],
    [of |-> G("Box", "i8"), interfaces |-> <<T("P"), T("show")>>,
     methods |-> <<Body("extInts", "name"), Body("extInts", "pig")>>],
    [of |-> T("Pair"), interfaces |-> <<G("put", "i8"), T("Q")>>,
     methods |-> <<Method("extPair", "put", "boxed i8"), Body("extPair", "foo")>>]>>

MCTerms ==
  {T(d) : d \in DOMAIN MCDefinitions \ {"put", "Box"}}
    \cup {G(d, a) : d \in {"put", "Box"}, a \in {"i8", "string"}}
MCBoxed == [i8 |-> "boxed i8", string |-> "string"]

MCReferences ==
  {[name |-> n, signature |-> "-"] :
      n \in {"foo", "bar", "baz", "qux", "pig", "new", "get", "show", "name"}}
    \cup {[name |-> "put", signature |-> s] : s \in {"i8", "boxed i8", "string"}}

R(name) == [name |-> name, signature |-> "-"]
RP(s) == [name |-> "put", signature |-> s]
V_(type, ref) == [kind |-> "virtual", type |-> type, ref |-> ref, abi |-> "plain"]
I_(type, ref) == [kind |-> "interface", type |-> type, ref |-> ref, abi |-> "plain"]

MCPrograms ==
  {[sites |-> {V_(T("S"), R("bar")), V_(T("D"), R("baz")), I_(T("I"), R("foo")), I_(T("J"), R("qux")),
               I_(T("P"), R("pig")), V_(T("F"), R("bar")), V_(T("F"), R("new"))},
    objects |-> {T("S"), T("D"), T("E"), T("F")}],
   [sites |-> {I_(T("P"), R("foo")), I_(T("Q"), R("qux")), V_(T("A"), R("bar")), V_(T("B"), R("pig")),
               I_(T("I"), R("foo")), V_(T("B"), R("new"))},
    objects |-> {T("A"), T("B")}],
   [sites |-> {V_(T("K"), R("bar")), I_(T("I"), R("foo")), I_(T("R"), R("foo")), I_(T("J"), R("qux")),
               V_(T("V"), R("bar"))},
    objects |-> {T("L"), T("V")}],
   [sites |-> {I_(T("P"), R("foo")), I_(T("R"), R("foo")), V_(T("Y"), R("foo")), V_(T("Z"), R("foo")),
               I_(T("W"), R("foo"))},
    objects |-> {T("X"), T("Y"), T("Z"), T("O"), T("C")}],
   [sites |-> {V_(T("U"), R("bar")), V_(T("H"), R("foo")), I_(T("I"), R("foo")), V_(T("D"), R("baz"))},
    objects |-> {T("H"), T("U"), T("D")}],
   [sites |-> {I_(G("put", "i8"), RP("boxed i8")), I_(G("put", "string"), RP("string")),
               V_(T("Ints"), RP("i8")), V_(G("Box", "i8"), R("get")), I_(T("show"), R("show")),
               I_(T("show"), R("name")), I_(G("put", "i8"), RP("i8"))},
    objects |-> {T("Ints"), G("Box", "i8"), G("Box", "string")}],
   [sites |-> {V_(T("Pair"), R("get")), I_(T("Q"), R("foo")), I_(T("P"), R("foo")), I_(G("put", "i8"), RP("boxed i8"))},
    objects |-> {T("Pair")}]}
================================================================================
