------------------------------- MODULE Mem2Reg -------------------------------
(***************************************************************************)
(* SSA construction (src/src/ir/opt/mem2reg.rs): the loads and stores of   *)
(* one alloca are replaced by values, with phis on the iterated dominance  *)
(* frontier of its stores and renaming along the dominator tree DomTree    *)
(* builds.  Allocas do not disturb each other (each has a stack of its     *)
(* own), so one is followed.  Afterwards any path of the function is run,  *)
(* and the values the loads became are compared with the variable.         *)
(*                                                                         *)
(* Abstraction of data.  A store writes a fresh value of its own, computed *)
(* just before it, or (a "keep") the value a "define" has computed, here   *)
(* or in a dominating block: it is computed anew each time the definition  *)
(* is passed.  A value is right where it is the one the variable holds     *)
(* now; the run keeps the set of values that are.                          *)
(***************************************************************************)
EXTENDS Integers, Sequences, FiniteSets, SequencesExt

CONSTANTS
  Nodes, Entry, Graphs,  \* as in DomTree
  Bodies,                \* the accesses of the alloca in one block
  Undef                  \* add_undef_const

\* Undef is not the result of an instruction.
UndefAssumption == Undef \notin Nodes \X Nat

VARIABLES
  succs, preds, stack, order, dfsParent, sdom, idom, linked, bucket, todo,  \* DomTree
  phase,     \* "tree", "place", "rename", "run"
  tree,      \* dom_tree.idom
  frontier,  \* dom_frontiers
  body,      \* "load", "store", "define" and "keep" in the order of each block
  phis,      \* phi_mappings: the blocks with a phi for the alloca
  path,      \* frames of mem2reg_rename_stage: block, children left, pushed_count
  values,    \* stacks[alloca]
  renamed,   \* what each load was replaced by
  incoming,  \* the incomings of the phis: <<phi block, predecessor, value>>
  at,        \* run: block and position
  written,   \* run: the variable has been stored to
  current    \* run: the values that equal the variable

locals == <<preds, stack, order, dfsParent, sdom, idom, linked, bucket, todo>>
code   == <<tree, frontier, body, phis>>
walk   == <<path, values, renamed, incoming>>
run    == <<at, written, current>>
vars   == <<succs, locals, phase, code, walk, run>>

Tree == INSTANCE DomTree

Reached        == DOMAIN tree
PhiAt(b)       == <<b, 0>>
StoreAt(b, k)  == <<b, k>>
Shared         == <<Entry, 0>>   \* what "define" computes
Accesses(f, o) == UNION {{<<b, k>> : k \in {j \in DOMAIN f[b] : f[b][j] = o}} : b \in DOMAIN f}
Positions(o)   == Accesses(body, o)
Children(b)    == {c \in Reached : tree[c] = b /\ c # b}

\* The function is in SSA form: one definition of the shared value, and no
\* path to a use that avoids it.
DefinedBeforeKept(f) ==
  LET defs == Accesses(f, "define")
      uses == Accesses(f, "keep")
  IN  /\ Cardinality(defs) = (IF uses = {} THEN 0 ELSE 1)
      /\ \A u \in uses, d \in defs :
           IF u[1] = d[1] THEN d[2] < u[2] ELSE Tree!TrulyDominates(d[1], u[1])

Init ==
  /\ Tree!Init
  /\ phase = "tree"
  /\ tree = <<>> /\ frontier = <<>> /\ body = <<>> /\ phis = {}
  /\ path = <<>> /\ values = <<>> /\ renamed = {} /\ incoming = {}
  /\ at = <<Entry, 1>> /\ written = FALSE /\ current = {}

\* build_dom_tree and build_dom_frontier, and the end of their locals.  The
\* accesses of each block have played no part so far and are chosen here; blocks
\* the entry does not reach have none.
BuildTree ==
  /\ phase = "tree"
  /\ ~Tree!Fixed /\ Tree!Next
  /\ UNCHANGED <<phase, code, walk, run>>

TreeDone ==
  /\ phase = "tree" /\ Tree!Fixed
  /\ tree' = [n \in Tree!Reached |-> idom[n]]
  /\ frontier' = [n \in Tree!Reached |-> Tree!Frontier(n)]
  /\ body' \in {f \in [Nodes -> Bodies] :
                 /\ \A n \in Nodes \ Tree!Reached : f[n] = <<>>
                 /\ DefinedBeforeKept(f)}
  /\ preds' = [n \in Nodes |-> {}]
  /\ stack' = <<>> /\ order' = <<>> /\ todo' = 0
  /\ dfsParent' = Tree!Identity /\ sdom' = Tree!Identity /\ idom' = Tree!Identity
  /\ linked' = Tree!Identity /\ bucket' = [n \in Nodes |-> {}]
  /\ phase' = "place"
  /\ UNCHANGED <<succs, phis, walk, run>>

DefBlocks == {p[1] : p \in Positions("store") \cup Positions("keep")}

\* Mutant of PhiBlocks: blocks that got a phi are not worked on.
PhiBlocksOnce(defs) == UNION {frontier[b] : b \in defs}

\* The blocks the work list of the placement gives a phi: the frontier of the
\* defining blocks and of the blocks that got a phi.
PhiBlocks(defs) ==
  LET reach[n \in 0..Cardinality(Nodes)] ==
        IF n = 0 THEN defs
        ELSE reach[n - 1] \cup UNION {frontier[b] : b \in reach[n - 1]}
  IN  UNION {frontier[b] : b \in reach[Cardinality(Nodes)]}

PlacePhis ==
  /\ phase = "place"
  /\ phis' = PhiBlocks(DefBlocks)
  /\ phase' = "rename"
  /\ UNCHANGED <<succs, locals, tree, frontier, body, walk, run>>

-----------------------------------------------------------------------------
(* mem2reg_rename_stage *)

Top(s) == IF s = <<>> THEN Undef ELSE Last(s)

\* The scan of a block's accesses: loads take the top, stores push.
Scan(b, start) ==
  LET after[k \in 0..Len(body[b])] ==
        IF k = 0 THEN [values |-> start, loads |-> {}]
        ELSE LET acc == after[k - 1] IN
             CASE body[b][k] = "load"   -> [acc EXCEPT !.loads = @ \cup {<<<<b, k>>, Top(acc.values)>>}]
               [] body[b][k] = "store"  -> [acc EXCEPT !.values = Append(@, StoreAt(b, k))]
               [] body[b][k] = "keep"   -> [acc EXCEPT !.values = Append(@, Shared)]
               [] body[b][k] = "define" -> acc
  IN  after[Len(body[b])]

\* Mutant of PhisAfter: the children in the tree are taken for the successors.
PhisAfterInTree(b) == Children(b) \cap phis

\* The successors of b whose phi gets an incoming from it.
PhisAfter(b) == succs[b] \cap phis

\* The call for b, up to the loop over the children.
Enter(b) ==
  /\ phase = "rename"
  /\ \/ path = <<>> /\ b = Entry
     \/ path # <<>> /\ b \in Last(path).left
  /\ LET scanned == Scan(b, values \o (IF b \in phis THEN <<PhiAt(b)>> ELSE <<>>))
         caller  == IF path = <<>> THEN <<>>
                    ELSE Append(Front(path), [Last(path) EXCEPT !.left = @ \ {b}])
     IN  /\ values' = scanned.values
         /\ renamed' = renamed \cup scanned.loads
         /\ incoming' = incoming \cup {<<s, b, Top(scanned.values)>> : s \in PhisAfter(b)}
         /\ path' = Append(caller, [block |-> b, left |-> Children(b),
                                    pushed |-> Len(scanned.values) - Len(values)])
  /\ UNCHANGED <<succs, locals, phase, code, run>>

\* The end of the call.
Leave ==
  /\ phase = "rename" /\ path # <<>> /\ Last(path).left = {}
  /\ values' = SubSeq(values, 1, Len(values) - Last(path).pushed)
  /\ path' = Front(path)
  /\ phase' = IF Len(path) = 1 THEN "run" ELSE phase
  /\ UNCHANGED <<succs, locals, code, renamed, incoming, run>>

-----------------------------------------------------------------------------
(* A run of the function. *)

Block == at[1]
Here  == at[2]

RunAccess(o) ==
  /\ phase = "run" /\ Here \in DOMAIN body[Block] /\ body[Block][Here] = o
  /\ at' = <<Block, Here + 1>>
  /\ UNCHANGED <<succs, locals, phase, code, walk>>

RunLoad == RunAccess("load") /\ UNCHANGED <<written, current>>

RunStore ==
  /\ RunAccess("store")
  /\ written' = TRUE
  /\ current' = {StoreAt(Block, Here)}

RunDefine ==
  /\ RunAccess("define")
  /\ current' = current \ {Shared}
  /\ UNCHANGED written

\* If the variable does not hold the shared value yet, no other value is it.
RunKeep ==
  /\ RunAccess("keep")
  /\ written' = TRUE
  /\ current' = IF Shared \in current THEN current ELSE {Shared}

\* A branch to s, whose phi takes the value of this edge.
RunBranch(s) ==
  /\ phase = "run" /\ Here \notin DOMAIN body[Block] /\ s \in succs[Block]
  /\ current' = IF \E v \in current : <<s, Block, v>> \in incoming
                THEN current \cup {PhiAt(s)} ELSE current \ {PhiAt(s)}
  /\ at' = <<s, 1>>
  /\ UNCHANGED <<succs, locals, phase, code, walk, written>>

RunReturn ==
  /\ phase = "run" /\ Here \notin DOMAIN body[Block] /\ succs[Block] = {}
  /\ UNCHANGED vars

Next == \/ BuildTree
        \/ TreeDone
        \/ PlacePhis
        \/ \E b \in Nodes : Enter(b)
        \/ Leave
        \/ RunLoad
        \/ RunStore
        \/ RunDefine
        \/ RunKeep
        \/ \E s \in Nodes : RunBranch(s)
        \/ RunReturn

Spec == Init /\ [][Next]_vars

-----------------------------------------------------------------------------
\* Phis and values belong to blocks of the tree, and once renaming is done
\* every load has been replaced, each by one value: the assertion that the
\* alloca has no uses left.
TypeOK ==
  /\ phis \subseteq Reached \ {Entry}
  /\ \A r \in renamed : r[1] \in Positions("load")
  /\ phase = "run" => /\ {r[1] : r \in renamed} = Positions("load")
                      /\ Cardinality(renamed) = Cardinality(Positions("load"))
                      /\ values = <<>> /\ path = <<>>

\* On every path, what a load was replaced by is the value the variable holds
\* there, if it was stored to at all.
LoadsReadLastStore ==
  phase = "run" /\ Here \in DOMAIN body[Block] /\ body[Block][Here] = "load" /\ written
    => \E v \in current : <<at, v>> \in renamed

\* A phi has one incoming for each predecessor that is reached and no other;
\* lowering puts the copies of a phi on the edges of its incomings.
IncomingsMatchEdges ==
  phase = "run" =>
    \A f \in phis : \A p \in Nodes :
      Cardinality({i \in incoming : i[1] = f /\ i[2] = p})
        = IF p \in Reached /\ f \in succs[p] THEN 1 ELSE 0
=============================================================================
