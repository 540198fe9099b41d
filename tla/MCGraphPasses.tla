---------------------------- MODULE MCGraphPasses ----------------------------
(* What is computed on the control flow graph of a function: the dominator   *)
(* tree and its frontiers, and the two passes built on them, mem2reg and     *)
(* adce, on every graph of a few blocks.  `pass` says which one a behaviour  *)
(* is of.                                                                    *)
EXTENDS Naturals, Sequences, FiniteSets, TLC

CONSTANTS Vertices, Entry, Fake, None, Undef

VARIABLES
  pass,
  succs, preds, stack, order, dfsParent, sdom, idom, linked, bucket, todo,
  phase, tree, frontier, body, phis, path, values, renamed, incoming, at,
  written, current, step, graph, latches, reachable, postTree, postFrontier,
  effects, phiBlock, phiUsers, live, next, block, from, target, via, walked,
  jumped

treeVars == <<succs, preds, stack, order, dfsParent, sdom, idom, linked,
  bucket, todo>>
memVars == <<phase, tree, frontier, body, phis, path, values, renamed,
  incoming, at, written, current>>
adceVars == <<step, graph, latches, reachable, postTree, postFrontier,
  effects, phiBlock, phiUsers, live, next, block, from, target, via, walked,
  jumped>>
allVars == <<pass, treeVars, memVars, adceVars>>

-----------------------------------------------------------------------------
\* Every graph on Vertices in which the entry is not a target, and those with at
\* most two successors to a block.
AllGraphs == [Vertices -> SUBSET (Vertices \ {Entry})]
Branching == {g \in AllGraphs : \A n \in Vertices : Cardinality(g[n]) <= 2}

Bodies == {<<>>, <<"load">>, <<"store">>, <<"load", "store">>,
           <<"define">>, <<"keep">>, <<"define", "keep">>}

LeadsTo(g, S) ==
  LET reach[n \in Nat] == IF n = 0 THEN S ELSE reach[n - 1] \cup UNION {g[b] : b \in reach[n - 1]}
  IN  reach[Cardinality(Vertices)]
Back(g) == [n \in Vertices |-> {p \in Vertices : n \in g[p]}]

\* Structured source has one way into a loop: without the edges to a block
\* every path to their source passes, no cycle is left.
Reducible(g) ==
  LET dom(a, b) == a = Entry \/ b \notin LeadsTo([n \in Vertices |-> g[n] \ {a}], {Entry})
      fwd == [n \in Vertices |-> {s \in g[n] : ~dom(s, n)}]
  IN  \A n \in Vertices : n \notin LeadsTo(fwd, fwd[n])

\* Functions as cfg_simplify leaves them, every block reached, and those that can
\* always still return.
Simplified == {g \in Branching : LeadsTo(g, {Entry}) = Vertices /\ Reducible(g)}
MayReturn  == {g \in Simplified : LeadsTo(Back(g), {b \in Vertices : g[b] = {}}) = Vertices}

Symmetry == Permutations(Vertices \ {Entry})

-----------------------------------------------------------------------------
Tree == INSTANCE DomTree WITH Nodes <- Vertices, Graphs <- AllGraphs
Mem  == INSTANCE Mem2Reg WITH Nodes <- Vertices, Graphs <- Branching
Dead == INSTANCE ADCE WITH
          Blocks <- Vertices, Graphs <- MayReturn, phase <- step, tree <- postTree,
          frontier <- postFrontier, at <- block

ASSUME PassesAssumption ==
  Tree!EntryAssumption /\ Tree!GraphsAssumption /\ Mem!UndefAssumption /\ Dead!FakeAssumption

NoMem ==
  /\ phase = <<>> /\ tree = <<>> /\ frontier = <<>> /\ body = <<>>
  /\ phis = <<>> /\ path = <<>> /\ values = <<>> /\ renamed = <<>>
  /\ incoming = <<>> /\ at = <<>> /\ written = <<>> /\ current = <<>>
NoDead ==
  /\ step = <<>> /\ graph = <<>> /\ latches = <<>> /\ reachable = <<>>
  /\ postTree = <<>> /\ postFrontier = <<>> /\ effects = <<>>
  /\ phiBlock = <<>> /\ phiUsers = <<>> /\ live = <<>> /\ next = <<>>
  /\ block = <<>> /\ from = <<>> /\ target = <<>> /\ via = <<>>
  /\ walked = <<>> /\ jumped = <<>>

PassInit ==
  \/ pass = "tree"    /\ Tree!Init /\ NoMem /\ NoDead
  \/ pass = "mem2reg" /\ Mem!Init  /\ NoDead
  \/ pass = "adce"    /\ Dead!Init /\ NoMem

PassNext ==
  \/ pass = "tree"    /\ Tree!Next /\ UNCHANGED <<pass, memVars, adceVars>>
  \/ pass = "mem2reg" /\ Mem!Next  /\ UNCHANGED <<pass, adceVars>>
  \/ pass = "adce"    /\ Dead!Next /\ UNCHANGED <<pass, memVars>>

PassSpec == PassInit /\ [][PassNext]_allVars

-----------------------------------------------------------------------------
\* The tree of the algorithm spans the blocks the entry reaches and misses no
\* dominance (build_dom_tree).
TreeSpans       == pass = "tree" => Tree!TypeOK /\ Tree!TreeSpans
NoDominanceLost == pass = "tree" => Tree!NoDominanceLost

\* The frontiers are those of the tree that was built, and larger only for a block
\* that hangs in a wrong place (build_dom_frontier).
FrontierExact   == pass = "tree" => Tree!FrontierExact

\* A block above another in the tree really dominates it: what global value
\* numbering, code motion and mem2reg rely on when they reuse a value there.
DominanceSound  == pass = "tree" => Tree!DominanceSound

\* Each load is replaced by the value stored last on the path taken (mem2reg).
LoadsReadLastStore  == pass = "mem2reg" => Mem!TypeOK /\ Mem!LoadsReadLastStore

\* The phis of mem2reg have one incoming for each edge into their block.
IncomingsMatchEdges == pass = "mem2reg" => Mem!IncomingsMatchEdges

\* Dead code elimination loses, invents and reorders nothing that can be seen,
\* and no loop that may not end (adce).
EffectsKept == pass = "adce" => Dead!TypeOK /\ Dead!EffectsKept /\ Dead!LoopsKept

\* A live phi is entered over the same edge before and after (adce).
PhiEdgeKept == pass = "adce" => Dead!PhiEdgeKept

\* A branch that died becomes a jump to a block of the function (adce).
JumpHasTarget == pass = "adce" => Dead!JumpHasTarget
=============================================================================
