------------------------------ MODULE MCIRCore ------------------------------
(* IRCore in two shapes: three instructions that use one another in one     *)
(* block, or two instructions in and out of two blocks, of which an          *)
(* argument may be an operand.                                               *)
EXTENDS IRCore

VARIABLE shape

\* Keys are interchangeable, and so are blocks.
Symmetry == Permutations(Insts) \cup Permutations(Blocks)

Users ==
  /\ Cardinality(liveBlocks') <= 1
  /\ Cardinality(Loose') <= 1
  /\ \A i \in live' : \A s \in Slots : ops'[i][s] \notin Outer
InBlocks == Cardinality(live') <= Cardinality(Insts) - 1

MCInit == Init /\ shape \in {"users", "blocks"}
MCNext ==
  /\ Next
  /\ UNCHANGED shape
  /\ \/ shape = "users" /\ Users
     \/ shape = "blocks" /\ InBlocks
MCSpec == MCInit /\ [][MCNext]_<<vars, shape>>
=============================================================================
