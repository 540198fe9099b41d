----------------------------- MODULE BranchRelax -----------------------------
(***************************************************************************)
(* The last two passes over the blocks of one machine function: branches   *)
(* whose target is out of the range of the instruction are led over a      *)
(* springboard block, then a jump to the block that comes next is dropped. *)
(*                                                                         *)
(* A block is `code` words of straight-line instructions, then at most one *)
(* conditional branch, then a jump or a return: the only shape lower_block *)
(* emits.  Sizes and offsets are in instruction words.                     *)
(***************************************************************************)
EXTENDS Integers, Sequences, FiniteSets, SequencesExt

CONSTANTS
  NumBlocks,     \* blocks before relaxation, transit blocks included
  CodeSizes,     \* sizes of the straight-line part of a block
  Lo, Hi         \* branch_offset_range

ASSUME BlocksAssumption == NumBlocks \in Nat \ {0}
ASSUME RangeAssumption ==
  /\ CodeSizes \subseteq Nat
  /\ Lo \in Int /\ Hi \in Int /\ Lo <= 0 /\ Hi >= 2

None   == -1   \* no conditional branch
Return == -2   \* the block ends in ret
Falls  == -3   \* the jump was dropped: control runs into the next block

VARIABLES
  source,   \* the blocks as lowering left them
  blocks,   \* machine_function.blocks, in layout order
  pc        \* "relax", then "fallthrough", then "done"

vars == <<source, blocks, pc>>

Ids     == 0..(NumBlocks - 1)
Lowered == [code : CodeSizes, branch : Ids \cup {None}, exit : Ids \cup {Return}]
WithId(k, b) == [id |-> k - 1, code |-> b.code, branch |-> b.branch, exit |-> b.exit]

\* A conditional branch is followed by the jump to its other target.
WellLowered(b) == b.branch # None => b.exit # Return

Init ==
  /\ source \in [1..NumBlocks -> {b \in Lowered : WellLowered(b)}]
  /\ blocks = [k \in 1..NumBlocks |-> WithId(k, source[k])]
  /\ pc = "relax"

-----------------------------------------------------------------------------
Branches(b) == b.branch # None
Size(b) == b.code + (IF Branches(b) THEN 1 ELSE 0) + (IF b.exit = Falls THEN 0 ELSE 1)

\* compute_block_offsets, by position in the layout.
Offsets(bs) ==
  LET at[k \in 1..Len(bs)] == IF k = 1 THEN 0 ELSE at[k - 1] + Size(bs[k - 1])
  IN  at

Position(bs, id) == CHOOSE k \in DOMAIN bs : bs[k].id = id

\* The distance from the branch of block k to its target.
Distance(bs, k) ==
  Offsets(bs)[Position(bs, bs[k].branch)] - (Offsets(bs)[k] + bs[k].code)

OutOfRange(bs, k) == Branches(bs[k]) /\ Distance(bs, k) \notin Lo..Hi

Springboard(id, target) ==
  [id |-> id, code |-> 0, branch |-> None, exit |-> target]

\* Mutants of RelaxBranch: the springboard is named after the position of the
\* block it serves; it is put at the end of the function.
RelaxBranchReusedId(k) ==
  /\ pc = "relax"
  /\ OutOfRange(blocks, k)
  /\ \A j \in 1..(k - 1) : ~OutOfRange(blocks, j)
  /\ blocks' = InsertAt([blocks EXCEPT ![k].branch = k], k + 1,
                        Springboard(k, blocks[k].branch))
  /\ UNCHANGED <<source, pc>>

RelaxBranchAtEnd(k) ==
  /\ pc = "relax"
  /\ OutOfRange(blocks, k)
  /\ \A j \in 1..(k - 1) : ~OutOfRange(blocks, j)
  /\ LET new == Len(blocks) IN
     blocks' = Append([blocks EXCEPT ![k].branch = new],
                      Springboard(new, blocks[k].branch))
  /\ UNCHANGED <<source, pc>>

\* One round of the loop in relax_branches: the first branch out of range is
\* retargeted to a new block, inserted right behind its own.
RelaxBranch(k) ==
  /\ pc = "relax"
  /\ OutOfRange(blocks, k)
  /\ \A j \in 1..(k - 1) : ~OutOfRange(blocks, j)
  /\ LET new == Len(blocks) IN
     blocks' = InsertAt([blocks EXCEPT ![k].branch = new], k + 1,
                        Springboard(new, blocks[k].branch))
  /\ UNCHANGED <<source, pc>>

\* Mutant of RelaxDone: one round is taken to be enough.
RelaxDoneOnce ==
  /\ pc = "relax"
  /\ Len(blocks) > NumBlocks \/ \A k \in DOMAIN blocks : ~OutOfRange(blocks, k)
  /\ pc' = "fallthrough"
  /\ UNCHANGED <<source, blocks>>

\* A round that changes nothing ends the loop.
RelaxDone ==
  /\ pc = "relax"
  /\ \A k \in DOMAIN blocks : ~OutOfRange(blocks, k)
  /\ pc' = "fallthrough"
  /\ UNCHANGED <<source, blocks>>

\* Mutant of OptimizeFallthroughs: the next block is taken to be the one with
\* the next id.
OptimizeFallthroughsById ==
  /\ pc = "fallthrough"
  /\ blocks' = [k \in DOMAIN blocks |->
                  IF k < Len(blocks) /\ blocks[k].exit = blocks[k].id + 1
                  THEN [blocks[k] EXCEPT !.exit = Falls] ELSE blocks[k]]
  /\ pc' = "done"
  /\ UNCHANGED source

\* optimize_fallthroughs pops a last jump to the next block in the layout.
OptimizeFallthroughs ==
  /\ pc = "fallthrough"
  /\ blocks' = [k \in DOMAIN blocks |->
                  IF k < Len(blocks) /\ blocks[k].exit = blocks[k + 1].id
                  THEN [blocks[k] EXCEPT !.exit = Falls] ELSE blocks[k]]
  /\ pc' = "done"
  /\ UNCHANGED source

\* LowerOptions can switch that pass off.
SkipFallthroughs ==
  /\ pc = "fallthrough"
  /\ pc' = "done"
  /\ UNCHANGED <<source, blocks>>

Finished == pc = "done" /\ UNCHANGED vars

Next == \/ \E k \in DOMAIN blocks : RelaxBranch(k)
        \/ RelaxDone
        \/ OptimizeFallthroughs
        \/ SkipFallthroughs
        \/ Finished

Spec == Init /\ [][Next]_vars

-----------------------------------------------------------------------------
Block == [id : Nat, code : Nat, branch : Nat \cup {None},
          exit : Nat \cup {Return, Falls}]

\* Blocks, targets and the pass being run stay well typed.
TypeOK ==
  /\ source \in [1..NumBlocks -> Lowered]
  /\ blocks \in Seq(Block)
  /\ pc \in {"relax", "fallthrough", "done"}

\* A springboard is named BlockId(blocks.len()): block ids stay a permutation
\* of the positions although every insertion moves blocks, so a label is
\* emitted once and no branch lands on a label of another block.
IdsArePositions ==
  /\ \A k, l \in DOMAIN blocks : blocks[k].id = blocks[l].id => k = l
  /\ \A k \in DOMAIN blocks : blocks[k].id < Len(blocks)

\* Where control really goes from a label or past the end of block k.
ExitOf(k) == IF blocks[k].exit = Falls THEN blocks[k + 1].id ELSE blocks[k].exit
Through(id) == IF id < NumBlocks THEN id ELSE ExitOf(Position(blocks, id))

\* Whatever was inserted and dropped, each block branches to, and otherwise
\* goes on at, the blocks lowering meant; springboards are entered only by the
\* branch they were made for, never by running into them.
FlowPreserved ==
  \A k \in DOMAIN blocks : blocks[k].id < NumBlocks =>
    LET b == source[blocks[k].id + 1] IN
    /\ Branches(b) <=> Branches(blocks[k])
    /\ Branches(b) => Through(blocks[k].branch) = b.branch
    /\ ExitOf(k) = b.exit

\* Every branch the assembler sees is in range, also after the layout has
\* changed once more by dropping jumps.
AllInRange == pc = "done" => \A k \in DOMAIN blocks : ~OutOfRange(blocks, k)

\* A branch needs at most one springboard: one that has been retargeted never
\* goes out of range again, however many blocks later rounds push in between.
\* It bounds the rounds of the loop, which has no other reason to end.
OneSpringboardPerBranch ==
  Len(blocks) - NumBlocks <= Cardinality({k \in DOMAIN source : Branches(source[k])})
=============================================================================
