----------------------------- MODULE PhiLowering -----------------------------
(***************************************************************************)
(* Lowering of branches into blocks with phis.  Every phi has a virtual    *)
(* register that whoever comes to its block writes: a jump copies before   *)
(* it leaves, an edge of a conditional branch gets a block of its own that *)
(* copies and goes on, appended behind all others.  The copies of an edge  *)
(* are made at once here; ParallelCopy has how they become moves.          *)
(*                                                                         *)
(* When all blocks are lowered the code runs beside its source, with any   *)
(* outcome of the conditions.                                              *)
(***************************************************************************)
EXTENDS Integers, Sequences, FiniteSets, SequencesExt

CONSTANTS NumNodes,    \* basic blocks, the first one the entry
          NumPhis

NumNodesAssumption == NumNodes \in Nat \ {0} /\ NumPhis \in Nat

Nodes == 1..NumNodes
Phis  == 1..NumPhis
Undef == "undef"

VARIABLES
  flow,      \* the function: successors, homes of the phis and incomings
  output,   \* machine_function.blocks
  lowered,   \* how many blocks lower_block has done
  ssaAt, ssa,  \* a run of the source: block and values of the phis
  place, held  \* a run of the code: block and registers of the phis

vars == <<flow, output, lowered, ssaAt, ssa, place, held>>

-----------------------------------------------------------------------------
(* The functions: a block ends in a return, a jump, or a conditional       *)
(* branch, whose sides may be one block; every block is reached, and what  *)
(* comes in is a constant or a phi that is computed on every way there.    *)
Ends == {<<>>} \cup {<<b>> : b \in 2..NumNodes} \cup ((2..NumNodes) \X (2..NumNodes))
ReachedWithout(ends, d) ==
  LET after[n \in 0..NumNodes] ==
        IF n = 0 THEN {1} \ {d}
        ELSE after[n - 1] \cup ((UNION {ToSet(ends[b]) : b \in after[n - 1]}) \ {d})
  IN after[NumNodes]
Literal(c) == <<"const", c>>
PhiValue(p) == <<"phi", p>>
Preds(ends, b) == {a \in Nodes : b \in ToSet(ends[a])}
Available(ends, home, a) ==
  {Literal(0), Literal(1)} \cup {PhiValue(p) : p \in {q \in Phis : a \notin ReachedWithout(ends, home[q])}}
Incomings(ends, home) ==    \* of all phis: one for each block that comes before
  LET possible == [a \in Nodes |-> Available(ends, home, a)]
      OfPhi(p) == LET from == Preds(ends, home[p])
                  IN {f \in [from -> UNION {possible[a] : a \in from}] : \A a \in from : f[a] \in possible[a]}
      firstFew[n \in 0..NumPhis] ==
        IF n = 0 THEN {<<>>} ELSE {Append(f, g) : f \in firstFew[n - 1], g \in OfPhi(n)}
  IN firstFew[NumPhis]

Value(env, v) == IF v[1] = "const" THEN v[2] ELSE env[v[2]]
PhisOf(b) == {p \in Phis : flow.home[p] = b}

Init ==
  /\ \E ends \in [Nodes -> Ends], home \in [Phis -> 2..NumNodes] :
       /\ ReachedWithout(ends, 0) = Nodes
       /\ \E incoming \in Incomings(ends, home) :
            flow = [ends |-> ends, home |-> home, incoming |-> incoming]
  /\ output = [b \in Nodes |-> [copies |-> <<>>, to |-> <<>>]]    \* initialize_blocks
  /\ lowered = 0
  /\ ssaAt = 1 /\ ssa = [p \in Phis |-> Undef]
  /\ place = 1 /\ held = [p \in Phis |-> Undef]

(* The copies of an edge: the phis of the target and what comes in.        *)
Copies(a, b) == [p \in PhisOf(b) |-> flow.incoming[p][a]]

\* Mutant of Edge: what has phis already has a transit block.
EdgeShared(blocks, a, b) ==
  LET same == {k \in NumNodes + 1..Len(blocks) : blocks[k].to = <<b>>}
  IN IF PhisOf(b) = {} THEN <<blocks, b>>
     ELSE IF same # {} THEN <<blocks, CHOOSE k \in same : TRUE>>
     ELSE <<Append(blocks, [copies |-> Copies(a, b), to |-> <<b>>]), Len(blocks) + 1>>

\* add_transit_block: the blocks and where the branch goes.
Edge(blocks, a, b) ==
  IF PhisOf(b) = {} THEN <<blocks, b>>
  ELSE <<Append(blocks, [copies |-> Copies(a, b), to |-> <<b>>]), Len(blocks) + 1>>

LowerBlock ==
  /\ lowered < NumNodes
  /\ LET b   == lowered + 1
         to  == flow.ends[b]
         yes == Edge(output, b, to[1])
         no  == Edge(yes[1], b, to[2])
     IN output' = CASE to = <<>> -> output
                     [] Len(to) = 1 -> [output EXCEPT ![b] = [copies |-> Copies(b, to[1]), to |-> to]]
                     [] Len(to) = 2 -> [no[1] EXCEPT ![b].to = <<yes[2], no[2]>>]
  /\ lowered' = lowered + 1
  /\ UNCHANGED <<flow, ssaAt, ssa, place, held>>

-----------------------------------------------------------------------------
(* Running both.  The source takes an edge when the code leaves one of its *)
(* blocks; a transit block is passed by the code alone.                    *)
Copied(env, copies) == [p \in Phis |-> IF p \in DOMAIN copies THEN Value(env, copies[p]) ELSE env[p]]

Leave(k) ==
  /\ lowered = NumNodes /\ place = ssaAt /\ k \in DOMAIN flow.ends[ssaAt]
  /\ ssaAt' = flow.ends[ssaAt][k]
  /\ ssa' = Copied(ssa, Copies(ssaAt, flow.ends[ssaAt][k]))
  /\ held' = Copied(held, output[place].copies)
  /\ place' = output[place].to[k]
  /\ UNCHANGED <<flow, output, lowered>>

Transit ==
  /\ place \notin Nodes
  /\ held' = Copied(held, output[place].copies)
  /\ place' = output[place].to[1]
  /\ UNCHANGED <<flow, output, lowered, ssaAt, ssa>>

Finish == lowered = NumNodes /\ place = ssaAt /\ flow.ends[ssaAt] = <<>> /\ UNCHANGED vars

Next == LowerBlock \/ (\E k \in 1..2 : Leave(k)) \/ Transit \/ Finish

Spec == Init /\ [][Next]_vars

-----------------------------------------------------------------------------
\* In a block of the source the code stands in the same block, and every phi
\* that was ever computed is in its register: no copy is made on the way to
\* another block, and none is missing.
PhisArrive == place \in Nodes => place = ssaAt /\ held = ssa
=============================================================================
