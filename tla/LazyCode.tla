------------------------------ MODULE LazyCode ------------------------------
(***************************************************************************)
(* What function handles promise to the code that calls them, without the  *)
(* handles, locks and trampolines that keep the promise:                   *)
(*                                                                         *)
(*   - the bytecode of a method is linked at most once and never replaced; *)
(*   - a call runs the code of the method that was called, or, when that   *)
(*     method cannot be linked, the code of the one method that raises the *)
(*     symbol resolution error;                                            *)
(*   - no thread ever runs code that is not linked.                        *)
(***************************************************************************)
EXTENDS Naturals, Sequences

CONSTANTS
  Threads,       \* threads that run managed code
  Cbc,           \* methods whose code the engine provides
  Broken,        \* those of them with a symbol that does not resolve
  ErrorMethod    \* the method that raises the symbol resolution error

VARIABLES
  linked,        \* the methods with linked code
  running        \* running[t]: the methods thread t is in, innermost last

vars == <<linked, running>>

Init ==
  /\ linked = {}
  /\ running = [t \in Threads |-> <<>>]

\* The code of m appears, for every thread at once.
Link(m) ==
  /\ m \notin linked \cup Broken
  /\ linked' = linked \cup {m}
  /\ UNCHANGED running

\* A call of m by t starts to run code that is linked.
Call(t, m) ==
  LET code == IF m \in Broken THEN ErrorMethod ELSE m
  IN  /\ code \in linked
      /\ running' = [running EXCEPT ![t] = Append(@, code)]
      /\ UNCHANGED linked

\* The innermost method of t returns to its caller.
Return(t) ==
  /\ running[t] # <<>>
  /\ running' = [running EXCEPT ![t] = SubSeq(@, 1, Len(@) - 1)]
  /\ UNCHANGED linked

Next ==
  \/ \E m \in Cbc : Link(m)
  \/ \E t \in Threads, m \in Cbc : Call(t, m)
  \/ \E t \in Threads : Return(t)

Spec == Init /\ [][Next]_vars
=============================================================================
