-------------------------- MODULE MCFunctionHandles --------------------------
(***************************************************************************)
(* A program with every kind of method: an entry point that calls a method *)
(* of the same file, one that cannot be linked and a table with an         *)
(* abstract row; a callee that calls a compiled function that was not      *)
(* found; a compiled entry point; the two helpers.                         *)
(***************************************************************************)
EXTENDS FunctionHandles

MCCbc == {"main", "callee", "broken", "throwAbstract", "throwSymbol"}
MCAot == {"stub", "compiled"}
MCAbstract == {"abstract"}
MCRefs ==
  [m \in MCCbc |->
     CASE m = "main" -> <<"abstract", "callee", "broken">>
       [] m = "callee" -> <<"stub">>
       [] OTHER -> <<>>]
MCHelperMethod ==
  [h \in {"ThrowAbstractMethodCallError", "ThrowSymbolResolutionError"} |->
     IF h = "ThrowAbstractMethodCallError" THEN "throwAbstract"
                                           ELSE "throwSymbol"]
MCInitialisers == <<"compiled", "broken">>
==============================================================================
