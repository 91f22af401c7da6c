-------------------------------- MODULE MCTerms --------------------------------
(***************************************************************************)
(* The pool of a file with                                                 *)
(*                                                                         *)
(*   class Pair<T, U>   struct Rec   enum Option<T>   enum Either<T>       *)
(*   extend Pair<T, T>, extend Pair<T, Rec>                                *)
(*   func m(x: T, y: Pair<T, U>): Unit                                     *)
(*                                                                         *)
(* The file takes Old and New<T> for classes of compiled code; a patch has *)
(* brought a definition of New<T>.                                         *)
(***************************************************************************)
EXTENDS Terms, TLC

E(tag, name, num, subs) ==
  [tag |-> tag, name |-> name, num |-> num, subs |-> subs, after |-> <<>>]
D(record, arity, enum) ==
  [record |-> record, arity |-> arity, enum |-> enum, enumType |-> "T"]

MCPrimitives == {"UNIT", "I64"}

MCDefs ==
  [n \in {"Pair", "Rec", "New", "Option", "Either"} |->
     CASE n = "Pair" -> D(FALSE, 2, "NOT_ENUM")
       [] n = "Rec" -> D(TRUE, 0, "NOT_ENUM")
       [] n = "New" -> D(FALSE, 1, "NOT_ENUM")
       [] n = "Option" -> D(TRUE, 1, "OPTION")
       [] n = "Either" -> D(TRUE, 1, "UNION_ENUM")]

MCPool ==
  [T |-> E("CLASS_TYPE_VAR", "", 0, <<>>),
   U |-> E("CLASS_TYPE_VAR", "", 1, <<>>),
   Rec |-> E("REC", "Rec", 0, <<>>),
   RecAsClass |-> E("REF", "Rec", 0, <<>>),
   PairRecI64 |-> E("REF", "Pair", 0, <<"Rec", "I64">>),
   PairNewRec |-> E("REF", "Pair", 0, <<"NewI64", "Rec">>),
   NewI64 |-> [E("AOT_REF", "New", 0, <<"I64">>) EXCEPT !.after = <<"I64">>],
   Old |-> E("AOT_REF", "Old", 0, <<>>),
   PairOldOld |-> E("REF", "Pair", 0, <<"Old", "Old">>),
   PairTU |-> E("REF", "Pair", 0, <<"T", "U">>),
   PairTT |-> E("REF", "Pair", 0, <<"T", "T">>),
   PairTRec |-> E("REF", "Pair", 0, <<"T", "Rec">>),
   TupleTU |-> E("TUPLE", "", 0, <<"T", "U">>),
   OptionT |-> E("OPTION", "Option", 0, <<"T">>),
   OptionNew |-> E("OPTION", "Option", 0, <<"NewI64">>),
   EitherT |-> E("UNION_ENUM", "Either", 0, <<"T">>),
   Method |-> E("FUNCTIONAL", "", 0, <<"T", "PairTU", "UNIT">>)]

MCAsked == {"RecAsClass", "PairRecI64", "PairNewRec", "PairOldOld", "OptionNew"}
MCMembers == {"TupleTU", "PairTT", "OptionT", "EitherT"}
MCExtended == [ref \in {"PairTT", "PairTRec"} |-> 1]
P(kind, name, num, arity) ==
  [kind |-> kind, name |-> name, num |-> num, arity |-> arity]

MCPresented == {P("VARRAY", "", 8, 1), P("AOT_REF", "New", 0, 1)}

\* The hypotheses of TermsStayRight and MatchesAreInstances.
ASSUME MCFilesAgree ==
  /\ Pool = MCPool /\ Presented = MCPresented => FilesAgree
  /\ ExtensionsUseTheirVariables

\* The runtime presents the type info of a tuple.
TuplePresented == {P("TUPLE", "", 0, 2)}

\* A type whose argument has no definition; in the file the next entry is a
\* function type, and its tag, read as a reference, is that of I64.
LostPool ==
  MCPool @@ [Lost |-> E("REC", "Lost", 0, <<>>),
             NewLost |-> [E("AOT_REF", "New", 0, <<"Lost">>) EXCEPT !.after = <<"I64">>]]

\* The extension of a generic class, as seen from the methods of the class.
GenericExtended == [ref \in {"PairTU"} |-> 2]
================================================================================
