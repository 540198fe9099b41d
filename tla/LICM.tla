--------------------------------- MODULE LICM ---------------------------------
(***************************************************************************)
(* Loop-invariant code motion: for every back edge a loop, the blocks from *)
(* which its latch is reached without the header, and the instructions in  *)
(* them whose operands are computed outside move to the end of the         *)
(* immediate dominator of the header.                                      *)
(*                                                                         *)
(* The tree is the true one here: what the built tree is, DomTree says.    *)
(* In it the dominator of a header is outside the loop, but for a loop of  *)
(* one block: the walk back from the latch starts at the header then and   *)
(* takes in all that comes before it.  A preheader is asked for, every     *)
(* predecessor of the header is taken to be inside, none is made, and the  *)
(* loop is left as it is.                                                  *)
(***************************************************************************)
EXTENDS IRProgram

CONSTANT Programs   \* the functions to consider

VARIABLES
  source,   \* the function before the pass
  prog,     \* the function
  loops,    \* the loops not yet taken
  loop,     \* the loop in hand, or NoLoop
  pass      \* "collect", "hoist", "done"

vars == <<source, prog, loops, loop, pass>>

NoLoop == [header |-> 0, blocks |-> {}, into |-> 0]

Init ==
  /\ source \in Programs
  /\ prog = source
  /\ loops = {} /\ loop = NoLoop
  /\ pass = "collect"

-----------------------------------------------------------------------------
\* build_licm_loop_latches
Latches == {e \in ReachedBlocks(prog) \X Blocks(prog) : e[2] \in Succs(prog, e[1]) /\ Dominates(prog, e[2], e[1])}

\* collect_loops: backwards from the latch, and never back into the header.
LoopBlocks(latch, header) ==
  LET back(S) == S \cup UNION {Preds(prog, b) \ {header} : b \in S}
      after[n \in 0..Cardinality(Blocks(prog))] == IF n = 0 THEN {latch} ELSE back(after[n - 1])
  IN  after[Cardinality(Blocks(prog))] \cup {header}

Idom(b) ==
  CHOOSE a \in ReachedBlocks(prog) \ {b} :
    /\ Dominates(prog, a, b)
    /\ \A c \in ReachedBlocks(prog) \ {b} : Dominates(prog, c, b) => Dominates(prog, c, a)

\* find_insertion_block
InsertionBlock(header, blocks) == IF Idom(header) \notin blocks THEN Idom(header) ELSE header

Collect ==
  /\ pass = "collect"
  /\ loops' = {LET blocks == LoopBlocks(e[1], e[2])
               IN  [header |-> e[2], blocks |-> blocks, into |-> InsertionBlock(e[2], blocks)] : e \in Latches}
  /\ pass' = "hoist"
  /\ UNCHANGED <<source, prog, loop>>

\* Mutant of TakeLoop: the loop is not taken off the list.
TakeLoopPeek(l) ==
  /\ pass = "hoist" /\ loop = NoLoop /\ l \in loops
  /\ loop' = l
  /\ UNCHANGED <<source, prog, loops, pass>>

TakeLoop(l) ==
  /\ pass = "hoist" /\ loop = NoLoop /\ l \in loops
  /\ loop' = l /\ loops' = loops \ {l}
  /\ UNCHANGED <<source, prog, pass>>

-----------------------------------------------------------------------------
\* is_value_invariant
ValueInvariant(v) == IsInst(v) => HomeOf(prog, v[2]) \notin loop.blocks

InLoop == UNION {Range(prog.block[b].insts) : b \in loop.blocks}

\* Mutant of LoadSafe: calls are taken to leave memory alone.
LoadSafeFromCalls(ptr) ==
  \A i \in InLoop : prog.inst[i].op = "store" => ~MayAlias(prog, prog.inst[i].args[2], ptr)

\* is_load_safe_to_hoist
LoadSafe(ptr) ==
  \A i \in InLoop :
    /\ prog.inst[i].op # "call"
    /\ prog.inst[i].op = "store" => ~MayAlias(prog, prog.inst[i].args[2], ptr)

\* is_loop_invariant
Invariant(i) ==
  LET inst == prog.inst[i] IN
  /\ IsPure(inst) \/ inst.op \in {"gep", "load"}
  /\ \A k \in DOMAIN inst.args : ValueInvariant(inst.args[k])
  /\ inst.op = "load" => LoadSafe(inst.args[1])

\* One instruction found invariant, in any order.
Hoist(i) ==
  /\ pass = "hoist" /\ loop.into # loop.header /\ i \in InLoop /\ Invariant(i)
  /\ LET out == Erased(prog, i) IN prog' = [out EXCEPT !.block[loop.into].insts = Append(@, i)]
  /\ UNCHANGED <<source, loops, loop, pass>>

\* A loop with nowhere to move to, for which try_create_preheader finds no
\* predecessor of the header outside, or a sweep that changed nothing.
LeaveLoop ==
  /\ loop # NoLoop
  /\ loop.into = loop.header \/ ~\E i \in InLoop : Invariant(i)
  /\ loop' = NoLoop
  /\ UNCHANGED <<source, prog, loops, pass>>

Finish ==
  /\ pass = "hoist" /\ loop = NoLoop /\ loops = {}
  /\ pass' = "done"
  /\ UNCHANGED <<source, prog, loops, loop>>

Done == pass = "done" /\ UNCHANGED vars

Next ==
  \/ Collect
  \/ \E l \in loops : TakeLoop(l)
  \/ \E i \in InLoop : Hoist(i)
  \/ LeaveLoop
  \/ Finish
  \/ Done

\* One thread runs the pass.
Spec == Init /\ [][Next]_vars /\ WF_vars(Next)

-----------------------------------------------------------------------------
\* A loop has its header, which no block of it is left without, and moves its
\* instructions out of it; or it moves none, and every predecessor of its header
\* is in it.
TypeOK ==
  /\ pass \in {"collect", "hoist", "done"}
  /\ \A l \in loops \cup ({loop} \ {NoLoop}) :
       /\ l.header \in l.blocks
       /\ IF l.into = l.header
          THEN Preds(prog, l.header) \subseteq l.blocks
          ELSE /\ l.into \in Blocks(prog) \ l.blocks
               /\ \A b \in l.blocks : Dominates(prog, l.header, b)
               /\ \A b \in l.blocks \ {l.header} : Preds(prog, b) \subseteq l.blocks

\* An instruction that moved still finds its operands computed, and those that
\* stayed behind find its result, after every single move.
StaysWellFormed == WellFormed(source) => WellFormed(prog)

\* Calls and the return show what they showed, and the same memory: a load that
\* moved reads what it read in every round of the loop.
EffectsKept == pass = "done" => SameEffects(source, prog, 12)

\* An instruction moves only outwards, so the sweeps come to an end.
Ends == <>(pass = "done")
=============================================================================
