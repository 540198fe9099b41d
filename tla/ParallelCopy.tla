---------------------------- MODULE ParallelCopy ----------------------------
(***************************************************************************)
(* resolve_parallel_copy: the copies that a jump makes into the phis of    *)
(* its target, or a call into the argument registers, happen at once; the  *)
(* machine moves that stand for them happen one after the other.  The code *)
(* walks the graph source -> destinations depth first, emits a move after  *)
(* everything that reads its destination, and breaks a cycle with a fresh  *)
(* virtual register.                                                       *)
(*                                                                         *)
(* The recursion visit_fn is a stack of frames; the roots come in the      *)
(* order of a HashMap, so in any order, and so do the destinations of one  *)
(* source, whose order is that of the phis or arguments.                   *)
(***************************************************************************)
EXTENDS Integers, Sequences, FiniteSets, SequencesExt

CONSTANT NumRegs   \* the registers in use are 1..NumRegs; fresh ones follow

NumRegsAssumption == NumRegs \in Nat

Regs == 1..NumRegs
None == 0

VARIABLES
  move,     \* the copies: destination |-> source
  roots,    \* sources visit_fn has not been called on from the outer loop
  stack,    \* frames of visit_fn: node, destinations left, the one in hand
  visited,
  nextVreg, \* machine_function.new_vreg()
  first, middle, last   \* the moves emitted so far

vars == <<move, roots, stack, visited, nextVreg, first, middle, last>>

Dests(src) == {d \in DOMAIN move : move[d] = src /\ d # src}
Sources    == {move[d] : d \in {e \in DOMAIN move : move[e] # e}}
Move(d, s) == [dst |-> d, src |-> s]

\* A destination is a phi or an argument register: it is written once.
Init ==
  /\ move \in UNION {[D -> Regs] : D \in SUBSET Regs}
  /\ roots = Sources
  /\ stack = <<>>
  /\ visited = {}
  /\ nextVreg = NumRegs + 1
  /\ first = <<>> /\ middle = <<>> /\ last = <<>>

Visiting == {stack[k].node : k \in DOMAIN stack}
Top      == stack[Len(stack)]
Below    == SubSeq(stack, 1, Len(stack) - 1)
Entered(node) == [node |-> node, left |-> Dests(node), at |-> None]

\* The outer loop calls visit_fn, which returns at once on a visited node.
VisitRoot(node) ==
  /\ stack = <<>> /\ node \in roots
  /\ roots' = roots \ {node}
  /\ stack' = IF node \in visited THEN <<>> ELSE <<Entered(node)>>
  /\ visited' = visited \cup {node}
  /\ UNCHANGED <<move, nextVreg, first, middle, last>>

\* The recursive call on the next destination.
Descend(d) ==
  /\ stack # <<>> /\ Top.at = None /\ d \in Top.left
  /\ LET caller == Append(Below, [Top EXCEPT !.left = @ \ {d}, !.at = d]) IN
     stack' = IF d \in visited THEN caller ELSE Append(caller, Entered(d))
  /\ visited' = visited \cup {d}
  /\ UNCHANGED <<move, roots, nextVreg, first, middle, last>>

\* Back from that call: a destination still being visited closes a cycle.
EmitMove ==
  /\ stack # <<>> /\ Top.at # None
  /\ IF Top.at \in Visiting
     THEN /\ first' = Append(first, Move(nextVreg, Top.node))
          /\ last' = Append(last, Move(Top.at, nextVreg))
          /\ nextVreg' = nextVreg + 1
          /\ UNCHANGED middle
     ELSE /\ middle' = Append(middle, Move(Top.at, Top.node))
          /\ UNCHANGED <<first, last, nextVreg>>
  /\ stack' = Append(Below, [Top EXCEPT !.at = None])
  /\ UNCHANGED <<move, roots, visited>>

Leave ==
  /\ stack # <<>> /\ Top.at = None /\ Top.left = {}
  /\ stack' = Below
  /\ UNCHANGED <<move, roots, visited, nextVreg, first, middle, last>>

Done == roots = {} /\ stack = <<>>

Next == \/ \E r \in Regs : VisitRoot(r) \/ Descend(r)
        \/ EmitMove
        \/ Leave
        \/ Done /\ UNCHANGED vars

Spec == Init /\ [][Next]_vars

\* Mutant of Out: the temporaries are written back before they are filled.
OutSwapped == last \o middle \o first

Out == first \o middle \o last

-----------------------------------------------------------------------------
Moves == [dst : Nat, src : Nat]

\* The emitted moves name registers that exist, fresh ones above all others.
TypeOK ==
  /\ \E D \in SUBSET Regs : move \in [D -> Regs]
  /\ roots \subseteq Regs /\ visited \subseteq Regs
  /\ stack \in Seq([node : Regs, left : SUBSET Regs, at : Regs \cup {None}])
  /\ nextVreg \in Nat /\ nextVreg > NumRegs
  /\ first \in Seq(Moves) /\ middle \in Seq(Moves) /\ last \in Seq(Moves)

\* What the registers hold after the moves, run in order, each register
\* starting with a value of its own.
After(moves) ==
  LET file[k \in 0..Len(moves)] ==
        IF k = 0 THEN [r \in 1..(nextVreg - 1) |-> r]
        ELSE [file[k - 1] EXCEPT ![moves[k].dst] = file[k - 1][moves[k].src]]
  IN  file[Len(moves)]

\* Run one after the other, the emitted moves do what the copies do at once,
\* and leave every other register alone, whatever the order of the HashMap.
ParallelAssignment ==
  Done => \A r \in Regs :
            After(Out)[r] = IF r \in DOMAIN move THEN move[r] ELSE r

\* A move is emitted only when every other copy that still needs the old value
\* of its destination has been: the argument why the depth-first order works.
ReadBeforeOverwritten ==
  \A k \in DOMAIN middle : \A d \in Dests(middle[k].dst) :
    \/ \E j \in 1..(k - 1) : middle[j] = Move(d, middle[k].dst)
    \/ \E j \in DOMAIN first : /\ first[j].src = middle[k].dst
                               /\ last[j] = Move(d, first[j].dst)

\* A cycle of copies: a smallest set of registers whose sources are in it,
\* that is not a register copied to itself.
LeadsBack(C) == C # {} /\ \A q \in C : move[q] \in C
Cycles == {C \in SUBSET DOMAIN move :
             /\ LeadsBack(C) /\ \E q \in C : move[q] # q
             /\ \A B \in SUBSET C : LeadsBack(B) => B = C}

\* Fresh registers are only spent on cycles, one on each: they are virtual
\* registers the allocator has to find room for on every edge of the CFG.
OneTempPerCycle == Done => nextVreg - 1 - NumRegs = Cardinality(Cycles)
=============================================================================
