------------------------------- MODULE Sequencer -------------------------------
(***************************************************************************)
(* What a frame of bytecode promises its code: the instructions run one    *)
(* after the other, each once and to its end, and an instruction changes   *)
(* no register but those it names.  The accumulator belongs to the engine. *)
(***************************************************************************)
EXTENDS Integers

VARIABLES program, at, regs, left

vars == <<program, at, regs, left>>

Init == at = 0 /\ regs = program.regs /\ left = FALSE

\* Each instruction names where it may continue and what it may change.
Run ==
  /\ ~left
  /\ at' \in program.code[at].next
  /\ \A r \in DOMAIN regs \ program.code[at].writes : regs'[r] = regs[r]
  /\ DOMAIN regs' = DOMAIN regs
  /\ UNCHANGED <<program, left>>

\* A call puts arguments in place before it is made.
Prepare ==
  /\ ~left
  /\ \A r \in DOMAIN regs \ program.code[at].passes : regs'[r] = regs[r]
  /\ DOMAIN regs' = DOMAIN regs
  /\ UNCHANGED <<program, at, left>>

\* Only an instruction that can fail enters the handler, and it has then
\* changed nothing but what a call leaves undefined.
Handle ==
  /\ ~left /\ program.code[at].throws
  /\ at' = program.handler
  /\ \A r \in DOMAIN regs \ program.code[at].spoils : regs'[r] = regs[r]
  /\ DOMAIN regs' = DOMAIN regs
  /\ UNCHANGED <<program, left>>

Leave == ~left /\ left' = TRUE /\ program.code[at].ends /\ UNCHANGED <<program, at, regs>>

Next == Prepare \/ Run \/ Handle \/ Leave

Spec == Init /\ [][Next]_vars
================================================================================
