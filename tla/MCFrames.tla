------------------------------- MODULE MCFrames -------------------------------
(***************************************************************************)
(* Two interpreted methods.  "outer" uses both non-volatile integer        *)
(* registers and a floating-point one, "inner" only the second integer     *)
(* register: a frame of "inner" leaves the first one in the ectype for its *)
(* caller's caller.  "inner" is given a reference to a stack object.       *)
(***************************************************************************)
EXTENDS Frames

MCMethods == {"outer", "inner"}

MCSavedIRegs == [outer |-> <<"r8", "r9">>, inner |-> <<"r9">>]
MCSavedFRegs == [outer |-> <<"f8">>, inner |-> <<>>]
MCParams == [outer |-> <<>>, inner |-> [r \in {"r1"} |-> "local"]]

MCComputes ==
  [outer |-> [p \in {"r8", "r9", "slot"} |->
                CASE p = "r8" -> {"heap"}
                  [] p = "r9" -> {"address"}
                  [] p = "slot" -> {"heap"}],
   inner |-> [p \in {"r9", "record"} |->
                IF p = "r9" THEN {"local"} ELSE {"heap"}]]
==============================================================================
