----------------------------- MODULE MCTypeInfos -----------------------------
(***************************************************************************)
(* Type definitions that refer to each other in every way the walk treats  *)
(* differently:                                                            *)
(*                                                                         *)
(*   class Foo <: I<(Foo) -> Unit> { g: Future<Foo> }                      *)
(*   class Bar    with a method declared by Lost, which is not found       *)
(*   class Node { l: ArrayList<Node>; x: Lost }                            *)
(*   class Tree { o: Option<Tree> }                                        *)
(*                                                                         *)
(* and the two entries of builtinTypeInfos that interpreter_bridge_init    *)
(* stores under each other's index, in a run of their own.                 *)
(***************************************************************************)
EXTENDS TypeInfos

Must(t) == [term |-> t, mode |-> "must"]
All(t) == [term |-> t, mode |-> "all"]
May(t) == [term |-> t, mode |-> "may"]

MCTerms ==
  {"Object", "Unit", "Foo", "IFoo", "FooToUnit", "FutureFoo", "Tree", "OptionTree",
   "Bar", "Lost", "Node", "ListNode"}

Swapped == {"Nothing", "CString"}

MCKind ==
  [t \in Terms |->
     CASE t \in {"Object", "FutureFoo"} -> "handed"
       [] t \in {"Unit", "Nothing", "CString"} -> "builtin"
       [] t = "FooToUnit" -> "query"
       [] OTHER -> "dyn"]

MCNeeds ==
  [t \in Terms |->
     CASE t = "Foo" -> <<Must("Object"), May("IFoo"), Must("FutureFoo")>>
       [] t = "IFoo" -> <<All("FooToUnit")>>
       [] t = "FooToUnit" -> <<All("Foo"), All("Unit")>>
       [] t = "FutureFoo" -> <<All("Foo")>>
       [] t = "Tree" -> <<Must("Object"), Must("OptionTree")>>
       [] t = "OptionTree" -> <<All("Tree")>>
       [] t = "Bar" -> <<Must("Object"), May("Lost")>>
       [] t = "Node" -> <<Must("ListNode"), Must("Lost")>>
       [] t = "ListNode" -> <<Must("Object"), All("Node")>>
       [] OTHER -> <<>>]

MCBuiltin ==
  [t \in Terms |-> CASE t = "Nothing" -> "CString"
                     [] t = "CString" -> "Nothing"
                     [] OTHER -> t]

MCNative ==
  Terms \cap
    {"Object", "Unit", "Nothing", "CString", "FutureFoo", "OptionTree"}

MCParts ==
  [t \in MCNative |-> CASE t = "FutureFoo" -> {t, "Foo"}
                        [] t = "OptionTree" -> {t, "Tree"}
                        [] OTHER -> {t}]
==============================================================================
