------------------------------ MODULE MCStatics --------------------------------
(***************************************************************************)
(* Two threads resolve fields of programs that hold each kind of type, the *)
(* collector visits the roots in between.                                  *)
(***************************************************************************)
EXTENDS Statics

\* Of each type: its kind, CLASS for a definition whose values are references, and its parts.
MCRows ==
  [i8 |-> <<"I8", <<>>>>,
   i32 |-> <<"I32", <<>>>>,
   i64 |-> <<"I64", <<>>>>,
   bool |-> <<"BOOLEAN", <<>>>>,
   unit |-> <<"UNIT", <<>>>>,
   ptr |-> <<"C_POINTER", <<>>>>,
   var |-> <<"CLASS_TYPE_VAR", <<>>>>,
   native |-> <<"AOT_TYPE", <<>>>>,
   pair |-> <<"TUPLE", <<"i8", "string">>>>,
   packed |-> <<"PACKED_TUPLE", <<"i8", "i32", "string">>>>,
   wrapped |-> <<"TUPLE", <<"i8", "native">>>>,
   maybe |-> <<"OPTION", <<"bool", "pair">>>>,
   enum |-> <<"UNION_ENUM", <<"i8", "i32">>>>,
   colour |-> <<"PRIMITIVE_ENUM", <<"i32">>>>,
   row |-> <<"VARRAY", <<"pair">>>>,
   bytes |-> <<"VARRAY", <<"i8">>>>,
   vars |-> <<"VARRAY", <<"var">>>>,
   record |-> <<"TYPE", <<"i32", "pair", "i8">>>>,
   broken |-> <<"TYPE", <<"i8">>>>,
   string |-> <<"CLASS", <<>>>>,
   base |-> <<"CLASS", <<"i32", "i8">>>>,
   derived |-> <<"CLASS", <<"i8", "record", "string">>>>,
   generic |-> <<"CLASS", <<"i8", "var", "i64">>>>,
   holder |-> <<"CLASS", <<"i64", "vars">>>>]

MCTypes == DOMAIN MCRows

\* The supers and the lengths that matter, and the information on the type of the runtime.
MCDescribe ==
  [t \in MCTypes |->
     LET kind == MCRows[t][1]
         parts == MCRows[t][2]
     IN [kind |-> IF kind = "CLASS" THEN "TYPE" ELSE kind,
         reference |-> kind = "CLASS",
         parts |-> parts,
         names |-> [i \in DOMAIN parts |-> i],
         super |-> IF t = "broken" THEN "UNDEFINED"
                   ELSE IF t \in {"derived", "generic", "holder"} THEN "base" ELSE "NIL",
         num |-> IF t = "bytes" THEN 3 ELSE 2,
         info |-> [size |-> 12, alignment |-> 4, references |-> {0}]]]

MCFieldTypes ==
  <<"i8", "pair", "string", "maybe", "i64", "packed", "ptr", "row", "wrapped", "colour", "bytes", "enum", "record",
    "unit", "broken">>

\* Each type behind another one and before a reference; two types with static
\* fields; and objects of two classes.
MCStaticPrograms ==
  {[statics |-> [first |-> <<MCFieldTypes[i], MCFieldTypes[(i % Len(MCFieldTypes)) + 1], "string">>,
                 second |-> <<>>],
    classes |-> {}] : i \in DOMAIN MCFieldTypes}

MCPrograms ==
  MCStaticPrograms
    \cup {[statics |-> [first |-> <<"string", "maybe">>, second |-> <<"record", "native">>], classes |-> {}]}
    \cup {[statics |-> [first |-> <<>>, second |-> <<>>], classes |-> {c}] : c \in {"derived", "generic", "holder"}}

\* The hypotheses of the theorems hold of these types and programs.
ASSUME MCLayoutsAreRight ==
  SizesAreKnown /\ ValuesAreLaidOut /\ ObjectsAreLaidOut /\ OffsetsAreThoseOfReferences

================================================================================
