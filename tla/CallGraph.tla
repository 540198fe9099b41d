----------------------------- MODULE CallGraph -----------------------------
(***************************************************************************)
(* The order in which function_inline.rs processes the functions: the call *)
(* graph, its strongly connected components by two depth-first walks, and  *)
(* a topological order of the components.  A walk follows hash sets, so    *)
(* the next callee is any that is left; so is the next start of the first  *)
(* walk and the next component of the sort.                                *)
(***************************************************************************)
EXTENDS Naturals, Sequences, FiniteSets, SequencesExt

CONSTANTS
  Functions,  \* the functions
  Graphs,     \* the call graphs to consider
  Orders      \* the orders in which the keys of a hash map may come

VARIABLES
  calls,     \* f -> the functions f calls
  phase,     \* "forward", "backward", "sort", "done"
  starts,    \* the functions the walk in hand still starts from, in the second walk in order
  visited, stack,   \* of a walk: a stack of <<function, what is left to follow>>
  trees,     \* the functions each start of the walk in hand reached, as they were left
  sccs,      \* the components
  degrees, ready, order  \* of the sort

vars == <<calls, phase, starts, visited, stack, trees, sccs, degrees, ready, order>>

Init ==
  /\ calls \in Graphs
  /\ phase = "forward"
  /\ starts \in Orders
  /\ visited = {} /\ stack = <<>> /\ trees = <<>>
  /\ sccs = <<>> /\ degrees = <<>> /\ ready = {} /\ order = <<>>

\* build_call_graph: succs and preds.
Callers(f) == {g \in Functions : f \in calls[g]}
Edges(f)   == IF phase = "forward" THEN calls[f] ELSE Callers(f)
Walking    == phase \in {"forward", "backward"}
Top        == Last(stack)

-----------------------------------------------------------------------------
\* dfs: a start that no earlier one reached opens a tree.
Start ==
  /\ Walking /\ stack = <<>> /\ starts # <<>>
  /\ starts' = Tail(starts)
  /\ IF Head(starts) \in visited
     THEN UNCHANGED <<visited, stack, trees>>
     ELSE /\ visited' = visited \cup {Head(starts)}
          /\ stack' = <<[of |-> Head(starts), left |-> Edges(Head(starts))]>>
          /\ trees' = Append(trees, <<>>)
  /\ UNCHANGED <<calls, phase, sccs, degrees, ready, order>>

\* Follow one edge of the function on top of the stack.
Follow(g) ==
  /\ Walking /\ stack # <<>> /\ g \in Top.left
  /\ LET taken == Append(Front(stack), [Top EXCEPT !.left = @ \ {g}])
     IN  stack' = IF g \in visited THEN taken ELSE Append(taken, [of |-> g, left |-> Edges(g)])
  /\ visited' = visited \cup {g}
  /\ UNCHANGED <<calls, phase, starts, trees, sccs, degrees, ready, order>>

\* All edges followed: the function is noted behind what it reached.
Leave ==
  /\ Walking /\ stack # <<>> /\ Top.left = {}
  /\ trees' = [trees EXCEPT ![Len(trees)] = Append(@, Top.of)]
  /\ stack' = Front(stack)
  /\ UNCHANGED <<calls, phase, starts, visited, sccs, degrees, ready, order>>

\* build_scc: the second walk goes backwards, from the last noted first.
TurnBack ==
  /\ phase = "forward" /\ stack = <<>> /\ starts = <<>>
  /\ phase' = "backward"
  /\ starts' = Reverse(FlattenSeq(trees))
  /\ visited' = {} /\ trees' = <<>>
  /\ UNCHANGED <<calls, stack, sccs, degrees, ready, order>>

Ids        == DOMAIN sccs
SccOf(f)   == CHOOSE i \in Ids : f \in sccs[i]
\* Mutant of SccCallees: a component calls itself.
SccCalleesSelf(i) == {SccOf(g) : g \in UNION {calls[f] : f \in sccs[i]}}
SccCallees(i) == {SccOf(g) : g \in UNION {calls[f] : f \in sccs[i]}} \ {i}
SccCallers(i) == {j \in Ids : i \in SccCallees(j)}

\* Each tree of the second walk is a component.
CollectSccs ==
  /\ phase = "backward" /\ stack = <<>> /\ starts = <<>>
  /\ phase' = "degrees"
  /\ sccs' = [i \in DOMAIN trees |-> Range(trees[i])]
  /\ UNCHANGED <<calls, starts, visited, stack, trees, degrees, ready, order>>

\* topological_sort
CountDegrees ==
  /\ phase = "degrees"
  /\ phase' = "sort"
  /\ degrees' = [i \in Ids |-> Cardinality(SccCallers(i))]
  /\ ready' = {i \in Ids : SccCallers(i) = {}}
  /\ UNCHANGED <<calls, starts, visited, stack, trees, sccs, order>>

Take(i) ==
  /\ phase = "sort" /\ i \in ready
  /\ order' = Append(order, i)
  /\ degrees' = [j \in Ids |-> IF j \in SccCallees(i) THEN degrees[j] - 1 ELSE degrees[j]]
  /\ ready' = (ready \ {i}) \cup {j \in SccCallees(i) : degrees[j] = 1}
  /\ UNCHANGED <<calls, phase, starts, visited, stack, trees, sccs>>

Sorted ==
  /\ phase = "sort" /\ ready = {}
  /\ phase' = "done"
  /\ UNCHANGED <<calls, starts, visited, stack, trees, sccs, degrees, ready, order>>

Done == phase = "done" /\ UNCHANGED vars

Next ==
  \/ Start
  \/ \E g \in Functions : Follow(g)
  \/ Leave
  \/ TurnBack
  \/ CollectSccs
  \/ CountDegrees
  \/ \E i \in Ids : Take(i)
  \/ Sorted
  \/ Done

Spec == Init /\ [][Next]_vars /\ WF_vars(Next)

-----------------------------------------------------------------------------
\* The stack is a path of the walk, and every function visited is on it or in
\* one tree.
TypeOK ==
  /\ phase \in {"forward", "backward", "degrees", "sort", "done"}
  /\ \A n \in 2..Len(stack) : stack[n].of \in Edges(stack[n - 1].of)
  /\ LET left == FlattenSeq(trees) \o [n \in DOMAIN stack |-> stack[n].of]
     IN  Range(left) = visited /\ Len(left) = Cardinality(visited)

Reached(f) ==
  LET after[n \in 0..Cardinality(Functions)] ==
        IF n = 0 THEN {f} ELSE after[n - 1] \cup UNION {calls[g] : g \in after[n - 1]}
  IN  after[Cardinality(Functions)]

\* Two functions are in one component exactly when each can come to call the
\* other: no function is inlined into itself, and none is spared for nothing.
SccsExact ==
  phase \in {"degrees", "sort", "done"} =>
    /\ UNION Range(sccs) = Functions
    /\ \A f, g \in Functions : SccOf(f) = SccOf(g) <=> (f \in Reached(g) /\ g \in Reached(f))

\* The order has each component once, callers before callees: read backwards,
\* what is inlined is finished before it is inlined.
CalleesFirst ==
  phase = "done" =>
    /\ Range(order) = Ids /\ IsInjective(order)
    /\ \A m, n \in DOMAIN order : order[n] \in SccCallees(order[m]) => m < n

\* A component is ready when, and only when, all its callers are placed.
ReadyExact ==
  phase = "sort" => ready = {i \in Ids : SccCallers(i) \subseteq Range(order)} \ Range(order)

\* The sort ends with every component placed: there is no cycle between them.
Ends == <>(phase = "done" /\ Len(order) = Len(sccs))
=============================================================================
