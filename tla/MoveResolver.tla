----------------------------- MODULE MoveResolver -----------------------------
(***************************************************************************)
(* Parallel moves: how the arguments of a call reach their locations.      *)
(*                                                                         *)
(* The rewriter collects, for every call, assignments of argument values   *)
(* to the registers and stack slots of the calling convention; all of them *)
(* read the state before the call.  MoveResolver::Resolve emits them one   *)
(* after the other.  It writes a register once nothing left to do reads    *)
(* it, and breaks a cycle by staging one value in a temporary register.    *)
(*                                                                         *)
(* The model executes what Resolve emits: "regs" and "params" are what the *)
(* emitted instructions would have written so far.                         *)
(*                                                                         *)
(* Source: cbc/move_resolver.cpp and .h; the emitter is                    *)
(* RewriterMoveEmitter in cbc/isa_rewriter.cpp.                            *)
(***************************************************************************)
EXTENDS Integers, FiniteSets

CONSTANTS
  IRegs, FRegs,      \* registers, by their index: Location::IReg, ::FReg
  ITemp, FTemp,      \* iRegTemp, fRegTemp: never a destination, by the ABI
  Slots,             \* untyped slots of the frame: only read
  Params,            \* slots of the outgoing parameters: only written
  Value,             \* what a location may hold
  Start,             \* Start[l]: what location l holds before the call
  Deref,             \* Deref[v]: the memory v points to
  Sources,           \* bound: the sources assignments are drawn from
  MaxMoves           \* bound: assignments of one call

Regs == IRegs \cup FRegs
Temps == {ITemp, FTemp}
Targets == (Regs \ Temps) \cup Params

\* Assignment, AssignmentInfo: what is read, and whether it is an address.
Source == [from : Regs \cup Slots, load : BOOLEAN]

ASSUME RegistersAssumption ==
  /\ Regs \subseteq Nat /\ IsFiniteSet(Regs)
  /\ IRegs \cap FRegs = {} /\ ITemp \in IRegs /\ FTemp \in FRegs
  /\ Regs \cap (Slots \cup Params) = {}

ASSUME ValuesAssumption ==
  Start \in [Regs \cup Slots \cup Params -> Value] /\ Deref \in [Value -> Value]

\* AddLoadFromAddr asserts that an address is in an IREG or a SLOT.
ASSUME SourcesAssumption ==
  /\ Sources \subseteq Source /\ MaxMoves \in Nat
  /\ \A s \in Sources : s.load => s.from \notin FRegs
------------------------------------------------------------------------------
VARIABLES
  moves,      \* assignments: moves[dst] is what dst is to receive
  phase,      \* "collect", "shuffle", "slots", and "done" or "refused"
  nodes,      \* nodes[r]: what r still has to receive; itself if nothing
  done,       \* registers whose state is DONE
  scan,       \* how far the pass over the registers is
  changed,    \* whether the pass has emitted anything
  regs,       \* what the registers hold
  params      \* what the parameter slots hold

vars == <<moves, phase, nodes, done, scan, changed, regs, params>>

Move(r) == [from |-> r, load |-> FALSE]

\* What source s yields when the registers hold rs.
Read(rs, s) ==
  LET v == IF s.from \in Regs THEN rs[s.from] ELSE Start[s.from]
  IN  IF s.load THEN Deref[v] ELSE v

FromSlot(s) == s.from \in Slots

\* Pack(dst, src, MOVE) of two registers of different kinds is not a case.
KindsMix(d) ==
  LET s == moves[d].from
  IN  ~moves[d].load /\ ((d \in IRegs /\ s \in FRegs) \/ (d \in FRegs /\ s \in IRegs))

\* Each destination has at most one assignment; AddMove drops a register moved
\* to itself.
Init ==
  /\ \E D \in SUBSET Targets :
       Cardinality(D) <= MaxMoves /\ moves \in [D -> Sources]
  /\ \A d \in DOMAIN moves : moves[d] # Move(d)
  /\ phase = "collect"
  /\ nodes = [r \in Regs |-> Move(r)]
  /\ done = {}
  /\ scan = 0
  /\ changed = FALSE
  /\ regs = [r \in Regs |-> Start[r]]
  /\ params = [p \in Params |-> Start[p]]
------------------------------------------------------------------------------
\* Parameter slots are written at once: nothing reads them back.
ParamsOf == DOMAIN moves \cap Params

Written(ps) ==
  [p \in Params |-> IF p \in ps THEN Read(regs, moves[p]) ELSE params[p]]

\* The loop over the assignments: parameter slots are emitted, registers that
\* receive from a register become nodes, those that receive from a slot wait.
Collect ==
  /\ phase = "collect" /\ \A d \in DOMAIN moves : ~KindsMix(d)
  /\ params' = Written(ParamsOf)
  /\ nodes' = [r \in Regs |->
       IF r \in DOMAIN moves /\ ~FromSlot(moves[r]) THEN moves[r] ELSE nodes[r]]
  /\ done' = {r \in Regs : nodes'[r] = Move(r)}
  /\ phase' = "shuffle"
  /\ UNCHANGED <<moves, scan, changed, regs>>

\* An assignment that mixes kinds ends it, after those that came before.
Refuse ==
  /\ phase = "collect" /\ \E d \in DOMAIN moves : KindsMix(d)
  /\ \E ps \in SUBSET ParamsOf : params' = Written(ps)
  /\ phase' = "refused"
  /\ UNCHANGED <<moves, nodes, done, scan, changed, regs>>

\* Mutant: a node that reads its own destination hides the others that do.
NeededByOneOther(r) ==
  \E o \in Regs \ done : o # r /\ nodes[o].from = r /\ nodes[r].from # r

\* A node that is left, other than r's own, reads r.
Needed(r) == \E o \in Regs \ done : o # r /\ nodes[o].from = r

First(S) == CHOOSE r \in S : \A o \in S : r <= o

\* Where the pass finds something to emit.
Ready == {r \in Regs \ done : r >= scan /\ ~Needed(r)}

Pass == phase = "shuffle" /\ Ready = {}

Emitted == TRUE

Assign ==
  /\ phase = "shuffle" /\ Ready # {}
  /\ LET r == First(Ready)
     IN  /\ regs' = [regs EXCEPT ![r] = Read(regs, nodes[r])]
         /\ done' = done \cup {r}
         /\ scan' = r + 1
  /\ changed' = Emitted
  /\ UNCHANGED <<moves, phase, nodes, params>>

\* The pass emitted something: another one.
Again ==
  /\ Pass /\ changed
  /\ scan' = 0 /\ changed' = FALSE
  /\ UNCHANGED <<moves, phase, nodes, done, regs, params>>

TempFor(r) == IF r \in IRegs THEN ITemp ELSE FTemp

\* Mutant: the node still reads what it read before the cycle was broken.
NoBreak(r) == nodes[r]

Broken(r) == Move(TempFor(r))

\* Nothing but cycles is left: one value goes to the temporary.
BreakCycle ==
  /\ Pass /\ ~changed /\ Regs # done
  /\ LET r == First(Regs \ done)
     IN  /\ regs' = [regs EXCEPT ![TempFor(r)] = Read(regs, nodes[r])]
         /\ nodes' = [nodes EXCEPT ![r] = Broken(r)]
  /\ scan' = 0
  /\ UNCHANGED <<moves, phase, done, changed, params>>

Shuffled ==
  /\ Pass /\ ~changed /\ Regs = done
  /\ phase' = "slots"
  /\ UNCHANGED <<moves, nodes, done, scan, changed, regs, params>>

\* The last loop: registers receive from slots, by value or through an address.
LoadSlots ==
  /\ phase = "slots"
  /\ regs' = [r \in Regs |->
       IF r \in DOMAIN moves /\ FromSlot(moves[r])
       THEN Read(regs, moves[r]) ELSE regs[r]]
  /\ phase' = "done"
  /\ UNCHANGED <<moves, nodes, done, scan, changed, params>>

Next ==
  Collect \/ Refuse \/ Assign \/ Again \/ BreakCycle \/ Shuffled \/ LoadSlots

Spec == Init /\ [][Next]_vars

\* Resolve runs to its end.
FairSpec == Spec /\ WF_vars(Next)
------------------------------------------------------------------------------
TypeOK ==
  /\ DOMAIN moves \subseteq Targets /\ moves \in [DOMAIN moves -> Sources]
  /\ phase \in {"collect", "shuffle", "slots", "done", "refused"}
  /\ nodes \in [Regs -> Source]
  /\ done \in SUBSET Regs
  /\ scan \in Nat
  /\ changed \in BOOLEAN
  /\ regs \in [Regs -> Value]
  /\ params \in [Params -> Value]

\* What register r is to hold before the call: the source's value as it was at
\* the start, its own where nothing is assigned to it.
Intended(r) == IF r \in DOMAIN moves THEN Read(Start, moves[r]) ELSE Start[r]

\* The emitted sequence has the effect of all assignments at once: every
\* destination holds what its source held before the first instruction, and no
\* register but the temporaries is touched besides.
ParallelAssignment ==
  phase = "done" =>
    /\ \A r \in Regs \ Temps : regs[r] = Intended(r)
    /\ \A p \in ParamsOf : params[p] = Read(Start, moves[p])

\* The assertions of cycleResolver: when a cycle is to be broken, both
\* temporaries are DONE and no assignment that is left reads one.
TempsAreFree ==
  Pass /\ ~changed =>
    /\ Temps \subseteq done
    /\ \A r \in Regs \ done : nodes[r].from \notin Temps

\* Resolve ends, however many cycles there are and however they are entered.
Terminates == <>(phase \in {"done", "refused"})
==============================================================================
