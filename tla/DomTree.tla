------------------------------- MODULE DomTree -------------------------------
(***************************************************************************)
(* The dominator tree every global pass of the optimizer works on: the     *)
(* depth-first numbering of ControlFlowGraph, build_dom_tree, the          *)
(* dominance frontier, and what `dominates` answers.                       *)
(*                                                                         *)
(* Successors are kept in a HashSet, so the walk may take them in any      *)
(* order.  The disjoint set is modelled without its path compression,      *)
(* which does not change the root `find` returns, and without `best`,      *)
(* which is written but never decides anything.                            *)
(***************************************************************************)
EXTENDS Integers, Sequences, FiniteSets, Functions

CONSTANTS
  Nodes,   \* the blocks of a function (and Fake, when the graph is reversed)
  Entry,
  Graphs   \* the control flow graphs to consider: successor functions

EntryAssumption == Entry \in Nodes /\ IsFiniteSet(Nodes)
\* The entry of a function is made for its allocas and is never branched to;
\* Fake, the entry of a reversed graph, has no predecessor either.
GraphsAssumption ==
  \A g \in Graphs : g \in [Nodes -> SUBSET (Nodes \ {Entry})]

VARIABLES
  succs, preds,   \* ControlFlowGraph
  stack,      \* frames of dfs_visit: block and successors left
  order,      \* dfs_order
  dfsParent,
  sdom, idom, \* maps over the reachable nodes, completed by the identity
  linked,     \* disjoint_set
  bucket,
  todo        \* position in dfs_order of the node build_dom_tree works on next

cfg  == <<succs, preds>>
vars == <<cfg, stack, order, dfsParent, sdom, idom, linked, bucket, todo>>

Reached   == Range(order)
Dfn(n)    == CHOOSE k \in DOMAIN order : order[k] = n
Identity  == [n \in Nodes |-> n]

Walked    == stack = <<>>   \* build_dfn has returned
TreeBuilt == Walked /\ todo = 1
Fixed     == todo = 0

Init ==
  /\ succs \in Graphs
  /\ preds = [n \in Nodes |-> {p \in Nodes : n \in succs[p]}]
  /\ stack = <<[block |-> Entry, left |-> succs[Entry]]>>
  /\ order = <<Entry>>
  /\ dfsParent = Identity
  /\ sdom = Identity /\ idom = Identity /\ linked = Identity
  /\ bucket = [n \in Nodes |-> {}]
  /\ todo = -1

-----------------------------------------------------------------------------
(* build_dfn *)

Top == stack[Len(stack)]

\* All but the last of some calls.
Front(calls) == SubSeq(calls, 1, Len(calls) - 1)

Visit(s) ==
  /\ ~Walked /\ s \in Top.left
  /\ LET caller == Append(Front(stack), [Top EXCEPT !.left = @ \ {s}]) IN
     IF s \in Reached
     THEN stack' = caller /\ UNCHANGED <<order, dfsParent>>
     ELSE /\ stack' = Append(caller, [block |-> s, left |-> succs[s]])
          /\ order' = Append(order, s)
          /\ dfsParent' = [dfsParent EXCEPT ![s] = Top.block]
  /\ UNCHANGED <<cfg, sdom, idom, linked, bucket, todo>>

\* Mutant of Leave: the reverse loop starts one node too low.
LeaveShort ==
  /\ ~Walked /\ Top.left = {}
  /\ stack' = Front(stack)
  /\ todo' = IF Len(stack) > 1 THEN todo ELSE IF Len(order) = 1 THEN 1 ELSE Len(order) - 1
  /\ UNCHANGED <<cfg, order, dfsParent, sdom, idom, linked, bucket>>

Leave ==
  /\ ~Walked /\ Top.left = {}
  /\ stack' = Front(stack)
  /\ todo' = IF Len(stack) = 1 THEN Len(order) ELSE todo
  /\ UNCHANGED <<cfg, order, dfsParent, sdom, idom, linked, bucket>>

-----------------------------------------------------------------------------
(* build_dom_tree *)

\* find: the root of v in the disjoint set.
Find(link, v) ==
  LET root[n \in Nodes] == IF link[n] = n THEN n ELSE root[link[n]]
  IN  root[v]

\* One iteration of the loop in reverse depth-first order.
ProcessNode ==
  /\ Walked /\ todo > 1
  /\ LET node   == order[todo]
         parent == dfsParent[node]
         better == {c \in {Find(linked, p) : p \in preds[node] \cap Reached} :
                      Dfn(sdom[c]) < Dfn(sdom[node])}
         semi   == IF better = {} THEN sdom[node]
                   ELSE CHOOSE c \in better :
                          \A d \in better : Dfn(sdom[c]) <= Dfn(sdom[d])
         filled == [bucket EXCEPT ![semi] = @ \cup {node}]
     IN
     /\ sdom' = [sdom EXCEPT ![node] = semi]
     /\ linked' = [linked EXCEPT ![node] = parent]
     /\ idom' = [v \in Nodes |->
                   IF v \notin filled[parent] THEN idom[v]
                   ELSE LET w == Find(linked', v) IN
                        IF sdom'[w] = sdom'[v] THEN sdom'[v] ELSE w]
     /\ bucket' = [filled EXCEPT ![parent] = {}]
     /\ todo' = todo - 1
  /\ UNCHANGED <<cfg, stack, order, dfsParent>>

\* Mutant of Resolved: the comparison is the wrong way round.
ResolvedInverted ==
  LET after[k \in 1..Len(order)] ==
        IF k = 1 THEN idom
        ELSE LET m == after[k - 1]
                 n == order[k]
             IN  IF m[n] = sdom[n] THEN [m EXCEPT ![n] = m[m[n]]] ELSE m
  IN  after[Len(order)]

\* What the last loop, over the blocks in depth-first order, makes of the idoms
\* that were left to a later lookup.
Resolved ==
  LET after[k \in 1..Len(order)] ==
        IF k = 1 THEN idom
        ELSE LET m == after[k - 1]
                 n == order[k]
             IN  IF m[n] # sdom[n] THEN [m EXCEPT ![n] = m[m[n]]] ELSE m
  IN  after[Len(order)]

Fixup ==
  /\ TreeBuilt
  /\ idom' = Resolved
  /\ todo' = 0
  /\ UNCHANGED <<cfg, stack, order, dfsParent, sdom, linked, bucket>>

Next == \/ \E s \in Nodes : Visit(s)
        \/ Leave
        \/ ProcessNode
        \/ Fixup
        \/ Fixed /\ UNCHANGED vars

Spec == Init /\ [][Next]_vars

-----------------------------------------------------------------------------
(* What the passes ask. *)

\* The walk of `dominates` and of the frontier up the tree: b and the nodes
\* above it, the root included.
Above(b) ==
  LET up[n \in 0..Cardinality(Nodes)] ==
        IF n = 0 THEN {b} ELSE up[n - 1] \cup {idom[x] : x \in up[n - 1]}
  IN  up[Cardinality(Nodes)]

Dominates(a, b) == a = Entry \/ a \in Above(b)

\* The way the runner climbs from p: up to stop, which it does not enter, or, when
\* it does not meet stop, up to the root and that included.
Climb(p, stop) ==
  LET up == Above(p) IN IF stop \in up THEN up \ Above(stop) ELSE up

\* Mutant of Frontier: a join of two predecessors is overlooked.
FrontierOfThree(a) ==
  {b \in Reached : /\ Cardinality(preds[b]) > 2
                   /\ \E p \in preds[b] \cap Reached : a \in Climb(p, idom[b])}

\* build_dom_frontier: from each predecessor of a join the runner climbs to
\* the idom of the join.
Frontier(a) ==
  {b \in Reached : /\ Cardinality(preds[b]) >= 2
                   /\ \E p \in preds[b] \cap Reached : a \in Climb(p, idom[b])}

-----------------------------------------------------------------------------
\* The numbering and the maps stay over the blocks of the function.
TypeOK ==
  /\ succs \in Graphs
  /\ stack \in Seq([block : Nodes, left : SUBSET Nodes])
  /\ IsInjective(order) /\ Reached \subseteq Nodes
  /\ {dfsParent, sdom, idom, linked} \subseteq [Nodes -> Nodes]
  /\ bucket \in [Nodes -> SUBSET Nodes]
  /\ todo \in -1..Cardinality(Nodes)

\* a dominates b when b cannot be reached without passing a: b is outside
\* every set that holds the entry and is closed under edges that avoid a.
Bypassing(a) ==
  {S \in SUBSET (Nodes \ {a}) : Entry \in S /\ \A n \in S : succs[n] \ {a} \subseteq S}
TrulyDominates(a, b) == a = Entry \/ \E S \in Bypassing(a) : b \notin S

\* Every node the entry reaches hangs in the tree below it, no other does, and
\* the way up from it ends: `dominates` and the renaming of mem2reg, which walk
\* the tree, neither panic nor loop.
TreeSpans ==
  Fixed => /\ \A n \in Reached : Entry \in Above(n) /\ Above(n) \subseteq Reached
           /\ \A n \in Reached \ {Entry} : n \notin Above(idom[n])
           /\ \A n \in Nodes : n \in Reached <=>
                \A S \in SUBSET Nodes :
                  (Entry \in S /\ \A m \in S : succs[m] \subseteq S) => n \in S

\* A block that really dominates another is above it in the tree: no pass
\* misses an opportunity, and the frontier of a node is not too large.
NoDominanceLost ==
  Fixed => \A a, b \in Reached : TrulyDominates(a, b) => Dominates(a, b)

\* The runners collect the frontier of the definition, with respect to the tree
\* that was built: b is in the frontier of a when a dominates a predecessor of
\* b but not b, or is b.  mem2reg places its phis there.  They collect more
\* only for blocks that the tree hangs in a wrong place.
FrontierExact ==
  Fixed => \A a \in Reached :
    LET defined == {b \in Reached : /\ \E p \in preds[b] \cap Reached : a \in Above(p)
                                     /\ ~(a \in Above(b) /\ a # b)}
    IN  /\ defined \subseteq Frontier(a)
        /\ \A b \in Frontier(a) \ defined : ~TrulyDominates(idom[b], b)

\* A block above another in the tree really dominates it: what global value
\* numbering, code motion and mem2reg rely on when they reuse a value there.
DominanceSound ==
  Fixed => \A a, b \in Reached : Dominates(a, b) => TrulyDominates(a, b)
=============================================================================
