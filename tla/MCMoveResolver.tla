--------------------------- MODULE MCMoveResolver ---------------------------
(***************************************************************************)
(* Four integer registers and a temporary (two cycles, or one of up to     *)
(* four), two of floating point and a temporary, one slot of each kind.    *)
(* Every location starts with a value of its own; a value read from memory *)
(* remembers the address it was read through.                              *)
(***************************************************************************)
EXTENDS MoveResolver

MCLocations == (0 .. 7) \cup {10, 20}
MCStart == [l \in MCLocations |-> <<"at", l>>]
MCValue ==
  {<<"at", l>> : l \in MCLocations} \cup {<<"load", l>> : l \in MCLocations}
    \cup {<<"garbage", 0>>}
MCDeref ==
  [v \in MCValue |->
     IF v[1] = "at" THEN <<"load", v[2]>> ELSE <<"garbage", 0>>]
MCSources ==
  [from : MCLocations \ {7, 20}, load : {FALSE}]
    \cup [from : {0, 10}, load : {TRUE}]
=============================================================================
