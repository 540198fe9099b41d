-------------------------------- MODULE ADCE --------------------------------
(***************************************************************************)
(* Aggressive dead code elimination (src/src/ir/opt/dce.rs, from line      *)
(* 115): an instruction lives when something observable needs it, through  *)
(* operands, through the edges of a phi, or because it stands where only   *)
(* some branches lead (the dominance frontier of the reversed graph).      *)
(* Everything else is erased, and a branch that is erased becomes a jump   *)
(* to the nearest post-dominator.  Both trees are built by DomTree.        *)
(*                                                                         *)
(* Abstraction: a block has at most one effect (a store or a call), one    *)
(* branch and one phi; the condition of a branch and what an effect stores *)
(* are that phi of some block, or nothing that can die.                    *)
(*                                                                         *)
(* Afterwards source and result run together, and must show the same.      *)
(***************************************************************************)
EXTENDS Integers, Sequences, FiniteSets, Functions

CONSTANTS
  Blocks, Entry,
  Fake,     \* CFGNode::Fake
  Graphs,   \* the functions considered: successors of each block
  None      \* no operand, no phi

FakeAssumption == Fake \notin Blocks /\ Entry \in Blocks

Nodes == Blocks \cup {Fake}

VARIABLES
  succs, preds, stack, order, dfsParent, sdom, idom, linked, bucket, todo,  \* DomTree
  phase,      \* "start", "forward", "backward", "mark", "sweep", "run"
  graph,      \* the successors of each block of the function
  latches,    \* latch_insts
  reachable,  \* front_reachable
  tree,       \* reverse_dom_tree.idom
  frontier,   \* reverse_dom_frontiers
  effects,    \* the blocks with a store or a call
  phiBlock,   \* the block of the phi, or None
  phiUsers,   \* the effects and branches that use the phi
  live,       \* live_insts
  next,       \* the successors after the dead instructions are removed
  at, from,   \* run of the source: block, and the block it came from
  target, via,\* run of the result
  walked, jumped  \* what each has passed since they last met

tree_locals == <<succs, preds, stack, order, dfsParent, sdom, idom, linked, bucket, todo>>
analysis    == <<latches, reachable, tree, frontier>>
function    == <<graph, effects, phiBlock, phiUsers>>
run         == <<at, from, target, via, walked, jumped>>
vars        == <<tree_locals, phase, analysis, function, live, next, run>>

Forward  == INSTANCE DomTree WITH Graphs <- {}
Backward == INSTANCE DomTree WITH Entry <- Fake, Graphs <- {}

Term(b)   == [kind |-> "term", block |-> b]
Effect(b) == [kind |-> "effect", block |-> b]
Phi(b)    == [kind |-> "phi", block |-> b]

PredsOf(g) == [n \in DOMAIN g |-> {p \in DOMAIN g : n \in g[p]}]
Ends       == {b \in Blocks : graph[b] = {}}

Outside    == [n \in Nodes |-> {}]
Idle       == [n \in Nodes |-> n]

\* What the blocks of S lead to in g.
Closure(g, S) ==
  LET reach[n \in Nat] == IF n = 0 THEN S ELSE reach[n - 1] \cup UNION {g[b] : b \in reach[n - 1]}
  IN  reach[Cardinality(Nodes)]

\* No path from the entry to b avoids a.
TrulyDominates(a, b) ==
  a = Entry \/ b \notin Closure([n \in Blocks |-> graph[n] \ {a}], {Entry})

Init ==
  /\ graph \in Graphs
  /\ phase = "start"
  /\ succs = Outside /\ preds = Outside /\ stack = <<>> /\ order = <<>>
  /\ dfsParent = Idle /\ sdom = Idle /\ idom = Idle /\ linked = Idle
  /\ bucket = Outside /\ todo = 0
  /\ latches = {} /\ reachable = {} /\ tree = <<>> /\ frontier = <<>>
  /\ effects = {} /\ phiBlock = None /\ phiUsers = {} /\ live = {} /\ next = <<>>
  /\ at = Entry /\ from = Entry /\ target = Entry /\ via = Entry
  /\ walked = <<>> /\ jumped = <<>>

\* A call of build_dom_tree.
StartTree(g, p, root) ==
  /\ succs' = g /\ preds' = p
  /\ stack' = <<[block |-> root, left |-> g[root]]>>
  /\ order' = <<root>>
  /\ dfsParent' = Idle /\ sdom' = Idle /\ idom' = Idle /\ linked' = Idle
  /\ bucket' = Outside
  /\ todo' = -1

StartForward ==
  /\ phase = "start"
  /\ LET g == [n \in Nodes |-> IF n = Fake THEN {} ELSE graph[n]]
     IN  StartTree(g, PredsOf(g), Entry)
  /\ phase' = "forward"
  /\ UNCHANGED <<analysis, function, live, next, run>>

BuildForward ==
  /\ phase = "forward" /\ ~Forward!Fixed /\ Forward!Next
  /\ UNCHANGED <<phase, analysis, function, live, next, run>>

\* build_loop_latches: the sources of edges to a block that dominates them.
Latches == {n \in Blocks : \E s \in graph[n] : Forward!Dominates(s, n)}

\* reverse, and the exits added for the blocks that reach no end: these get
\* an edge from the new root, but the root is not entered among their
\* predecessors.
ReversedSuccs ==
  LET back     == PredsOf(graph)
      deadEnds == Forward!Reached \ Closure(back, Ends)
  IN  [n \in Nodes |-> IF n = Fake THEN Ends \cup deadEnds ELSE back[n]]
ReversedPreds ==
  [n \in Nodes |-> IF n = Fake THEN {} ELSE graph[n] \cup (IF n \in Ends THEN {Fake} ELSE {})]

StartBackward ==
  /\ phase = "forward" /\ Forward!Fixed
  /\ latches' = Latches
  /\ reachable' = Forward!Reached
  /\ StartTree(ReversedSuccs, ReversedPreds, Fake)
  /\ phase' = "backward"
  /\ UNCHANGED <<tree, frontier, function, live, next, run>>

BuildBackward ==
  /\ phase = "backward" /\ ~Backward!Fixed /\ Backward!Next
  /\ UNCHANGED <<phase, analysis, function, live, next, run>>

\* The reversed tree and frontier are there.  What the blocks hold has played
\* no part so far and is chosen here: at most one use of the phi, in a place
\* its block dominates.
BackwardDone ==
  /\ phase = "backward" /\ Backward!Fixed
  /\ tree' = [n \in Backward!Reached |-> idom[n]]
  /\ frontier' = [n \in Backward!Reached |-> Backward!Frontier(n)]
  /\ effects' \in SUBSET Blocks
  /\ phiBlock' \in {b \in Blocks : Cardinality(PredsOf(graph)[b]) >= 2} \cup {None}
  /\ phiUsers' \in IF phiBlock' = None THEN {{}}
                   ELSE {{}} \cup {{u} : u \in {Effect(b) : b \in {e \in effects' : TrulyDominates(phiBlock', e)}}
                                       \cup {Term(b) : b \in {e \in Blocks : /\ Cardinality(graph[e]) = 2
                                                                           /\ TrulyDominates(phiBlock', e)}}}
  /\ succs' = Outside /\ preds' = Outside /\ stack' = <<>> /\ order' = <<>>
  /\ dfsParent' = Idle /\ sdom' = Idle /\ idom' = Idle /\ linked' = Idle
  /\ bucket' = Outside /\ todo' = 0
  /\ phase' = "mark"
  /\ UNCHANGED <<graph, latches, reachable, live, next, run>>

-----------------------------------------------------------------------------

\* inst_is_always_live_aggressively, and the latches.
AlwaysLive ==
  {Effect(b) : b \in effects \cap reachable} \cup {Term(b) : b \in (Ends \cap reachable) \cup latches}

\* Mutant of Needs: the edges of a phi are not kept.
NeedsNoEdges(i) ==
  (IF i \in phiUsers THEN {Phi(phiBlock)} ELSE {})
  \cup (IF i.block \in DOMAIN frontier THEN {Term(f) : f \in frontier[i.block]} ELSE {})

\* What one turn of the marking loop adds for a live instruction.
Needs(i) ==
  (IF i \in phiUsers THEN {Phi(phiBlock)} ELSE {})
  \cup (IF i.kind = "phi" THEN {Term(p) : p \in PredsOf(graph)[i.block]} ELSE {})
  \cup (IF i.block \in DOMAIN frontier THEN {Term(f) : f \in frontier[i.block]} ELSE {})

\* The marking loop, whose work list may be taken in any order.
Mark ==
  /\ phase = "mark"
  /\ LET all == {Term(b) : b \in Blocks} \cup {Effect(b) : b \in effects}
                \cup (IF phiBlock = None THEN {} ELSE {Phi(phiBlock)})
         marked[n \in Nat] ==
           IF n = 0 THEN AlwaysLive
           ELSE marked[n - 1] \cup UNION {Needs(i) : i \in marked[n - 1]}
     IN  live' = marked[Cardinality(all)]
  /\ phase' = "sweep"
  /\ UNCHANGED <<tree_locals, analysis, function, next, run>>

\* Mutant of Retargeted: one level too high in the tree.
RetargetedTooFar(b) == {IF tree[tree[b]] = Fake THEN tree[b] ELSE tree[tree[b]]}

Retargeted(b) == {tree[b]}

\* remove_dead_instructions.
Sweep ==
  /\ phase = "sweep"
  /\ next' = [b \in Blocks |-> IF Term(b) \in live THEN graph[b] ELSE Retargeted(b)]
  /\ phase' = "run"
  /\ UNCHANGED <<tree_locals, analysis, function, live, run>>

-----------------------------------------------------------------------------
(* Source and result run together.  Each walks alone through the blocks    *)
(* where nothing is to be seen, and they wait for each other where         *)
(* something is.                                                           *)

\* A store, a call, a return, a live phi, or a decision something hangs on.
Marked == effects \cup Ends
          \cup {b \in Blocks : Phi(b) \in live \/ (Term(b) \in live /\ Cardinality(graph[b]) = 2)}

\* The source, whose dead branches may go either way.
SourceWalks(s) ==
  /\ phase = "run" /\ at \notin Marked /\ s \in graph[at]
  /\ IsInjective(walked)
  /\ at' = s /\ from' = at /\ walked' = Append(walked, at)
  /\ UNCHANGED <<tree_locals, phase, analysis, function, live, next, target, via, jumped>>

ResultWalks(s) ==
  /\ phase = "run" /\ at \in Marked /\ target \notin Marked /\ s \in next[target]
  /\ IsInjective(jumped)
  /\ target' = s /\ via' = target /\ jumped' = Append(jumped, target)
  /\ UNCHANGED <<tree_locals, phase, analysis, function, live, next, at, from, walked>>

\* Both are where something is to be seen, and leave.  A live branch goes the
\* same way in both.
Met == at \in Marked /\ target \in Marked
Leave(s, t) ==
  /\ phase = "run" /\ Met /\ at = target
  /\ s \in graph[at] /\ t \in next[at]
  /\ Term(at) \in live => s = t
  /\ at' = s /\ from' = at /\ walked' = <<>>
  /\ target' = t /\ via' = at /\ jumped' = <<>>
  /\ UNCHANGED <<tree_locals, phase, analysis, function, live, next>>

Return == /\ phase = "run" /\ Met /\ graph[at] = {}
          /\ UNCHANGED vars

Next == \/ StartForward \/ BuildForward
        \/ StartBackward \/ BuildBackward \/ BackwardDone
        \/ Mark
        \/ Sweep
        \/ \E s \in Blocks : SourceWalks(s) \/ ResultWalks(s)
        \/ \E s, t \in Blocks : Leave(s, t)
        \/ Return

Spec == Init /\ [][Next]_vars

-----------------------------------------------------------------------------
\* What replaces a dead branch is a block: the nearest post-dominator of a block
\* whose branch died is never the added root, and unwrapping it does not panic.
JumpHasTarget ==
  phase = "run" => \A b \in reachable : next[b] \subseteq Blocks

\* The analyses are over the blocks, live instructions stand in them, and so do
\* the jumps that are put in.
TypeOK ==
  /\ reachable \subseteq Blocks /\ latches \subseteq Blocks
  /\ \A i \in live : i.block \in reachable
  /\ JumpHasTarget

\* The next store, call, return or decision of the result is the one the source
\* comes to as well: none is lost, invented or reordered, though branches are
\* replaced by jumps to a post-dominator of a tree that may be wrong.
EffectsKept == phase = "run" /\ Met => at = target

\* Neither goes around without anything to be seen: no loop, which might not end,
\* has lost its decision, and the new jumps form none.
LoopsKept == IsInjective(walked) /\ IsInjective(jumped)

\* Where a live phi is reached, the result comes over the edge the source came
\* over, so the phi has an incoming for it and the same value.
PhiEdgeKept == phase = "run" /\ Met /\ Phi(at) \in live => via = from
=============================================================================
