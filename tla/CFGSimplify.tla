----------------------------- MODULE CFGSimplify -----------------------------
(***************************************************************************)
(* What follows the constant propagation: cfg_simplify erases the blocks   *)
(* no longer reached and the phi incomings of edges that are gone, and     *)
(* merges a block into the only block that jumps to it; and what comes     *)
(* before it: merge_return, which leaves a function one return.            *)
(***************************************************************************)
EXTENDS SCCP

VARIABLES
  phis,        \* the phis useless_phi_elimination has yet to look at
  work,        \* work_list of block_merge
  mergeable    \* blocks with one predecessor, found before the first merge

all == <<vars, phis, work, mergeable>>

\* The keys of what merge_return adds.
NewBlock == 7
NewPhi   == 17

-----------------------------------------------------------------------------
Returns(P) == {b \in Blocks(P) : P.block[b].term.to = <<>>}

\* opt_merge_return: the returns become jumps to one block with a phi.
MergeReturn ==
  /\ pass = "returns"
  /\ IF Cardinality(Returns(prog)) <= 1 THEN UNCHANGED prog
     ELSE LET rets == SetToSeq(Returns(prog))
              phi  == Phi(rets, [k \in DOMAIN rets |-> prog.block[rets[k]].term.on])
          IN  prog' = [prog EXCEPT
                !.block = [b \in Blocks(prog) |-> IF b \in Returns(prog) THEN [@[b] EXCEPT !.term = Jump(NewBlock)] ELSE @[b]]
                          @@ (NewBlock :> [insts |-> <<NewPhi>>, term |-> Ret(Res(NewPhi))]),
                !.inst = @ @@ (NewPhi :> phi)]
  /\ value' = [i \in DOMAIN prog'.inst |-> Unknown]
  /\ pass' = "blocks"
  /\ UNCHANGED <<source, cfgWork, instWork, visited, todo, phis, work, mergeable>>

-----------------------------------------------------------------------------
WithoutBlocks(P, B) == [P EXCEPT !.block = [b \in DOMAIN @ \ B |-> @[b]]]

AllPhis(P) == SetToSeq(UNION {PhisOf(P, b) : b \in Blocks(P)})

\* One phi of useless_phi_elimination: incomings that are no edges go, and a
\* phi left with one value is that value.
Tidied(P, i) ==
  LET phi  == P.inst[i]
      preds == Preds(P, HomeOf(P, i))
      kept == SelectSeq([k \in DOMAIN phi.from |-> k], LAMBDA k : phi.from[k] \in preds)
      now  == Phi([n \in DOMAIN kept |-> phi.from[kept[n]]], [n \in DOMAIN kept |-> phi.args[kept[n]]])
      p    == [P EXCEPT !.inst[i] = now]
  IN  IF Len(kept) = 1 THEN Erased(Replaced(p, Res(i), now.args[1]), i) ELSE p

TidyPhi ==
  /\ phis # <<>>
  /\ prog' = Tidied(prog, Head(phis))
  /\ phis' = Tail(phis)
  /\ UNCHANGED <<source, sccpVars, pass, work, mergeable>>

\* dead_block_elimination: the blocks are erased, then the phis tidied.
EraseDeadBlocks ==
  /\ pass \in {"blocks", "insts"} /\ Propagated
  /\ prog' = WithoutBlocks(prog, Blocks(prog) \ ReachedBlocks(prog))
  /\ phis' = AllPhis(prog')
  /\ pass' = "erased"
  /\ UNCHANGED <<source, sccpVars, work, mergeable>>

\* The start of block_merge.
FindMergeable ==
  /\ pass = "erased" /\ phis = <<>>
  /\ work' = Blocks(prog)
  /\ mergeable' = {b \in Blocks(prog) : Cardinality(Preds(prog, b)) = 1}
  /\ pass' = "merge"
  /\ UNCHANGED <<source, prog, sccpVars, phis>>

\* The phis of other blocks follow the edges of the block merged away.
Renamed(P, from, to) ==
  [P EXCEPT !.inst = [i \in DOMAIN @ |-> [@[i] EXCEPT !.from = [k \in DOMAIN @ |-> Subst(@[k], from, to)]]]]

OnlySucc(b)   == prog.block[b].term.to[1]
CanMerge(b)   == b \in Blocks(prog) /\ Len(prog.block[b].term.to) = 1 /\ OnlySucc(b) \in mergeable

\* One turn of block_merge: the block that jumps takes over the instructions
\* and the terminator of the block it jumps to, and is looked at again.
MergeBlock(b) ==
  /\ pass = "merge" /\ b \in work
  /\ IF CanMerge(b)
     THEN LET s == OnlySucc(b) IN
          /\ prog' = Renamed(WithoutBlocks(
               [prog EXCEPT !.block[b] = [insts |-> @.insts \o prog.block[s].insts, term |-> prog.block[s].term]], {s}),
               s, b)
          /\ UNCHANGED work
     ELSE work' = work \ {b} /\ UNCHANGED prog
  /\ UNCHANGED <<source, sccpVars, pass, phis, mergeable>>

MergesDone ==
  /\ pass = "merge" /\ work = {}
  /\ phis' = AllPhis(prog)
  /\ pass' = "merged"
  /\ UNCHANGED <<source, prog, sccpVars, work, mergeable>>

AllDone ==
  /\ pass = "merged" /\ phis = <<>>
  /\ pass' = "done"
  /\ UNCHANGED <<source, prog, sccpVars, phis, work, mergeable>>

Done == pass = "done" /\ UNCHANGED all

-----------------------------------------------------------------------------
StartWithReturns ==
  /\ source \in Programs
  /\ prog = source
  /\ value = [i \in DOMAIN source.inst |-> Unknown]
  /\ cfgWork = {source.entry}
  /\ instWork = {} /\ visited = {} /\ todo = <<>>
  /\ pass = "returns"
  /\ phis = <<>> /\ work = {} /\ mergeable = {}

Next ==
  \/ MergeReturn
  \/ Propagate /\ UNCHANGED <<phis, work, mergeable>>
  \/ EraseDeadBlocks
  \/ TidyPhi
  \/ FindMergeable
  \/ \E b \in work : MergeBlock(b)
  \/ MergesDone
  \/ AllDone
  \/ Done

\* One thread runs the passes one after the other; nothing else can run.
Spec == StartWithReturns /\ [][Next]_all /\ WF_all(Next)

-----------------------------------------------------------------------------
\* The assertion of block_merge: a block with one predecessor has no phi left.
MergedHasNoPhi ==
  pass = "merge" => \A b \in work : CanMerge(b) => PhisOf(prog, OnlySucc(b)) = {}

\* After the pass every phi has one value for each edge into its block, every
\* operand is defined where it is read, and what was shown is still shown.
CleanAndKept == pass = "done" => WellFormed(prog) /\ SameEffects(source, prog, 8)

\* No block is left that could still be merged, no phi with one incoming.
FullyMerged ==
  pass = "done" =>
    \A b \in Blocks(prog) :
      /\ Cardinality(Succs(prog, b)) = 1 /\ ~Conditional(prog.block[b].term)
           => \E p \in Blocks(prog) \ {b} : Succs(prog, b) \subseteq Succs(prog, p)
      /\ \A i \in PhisOf(prog, b) : Len(prog.inst[i].from) >= 2

\* The propagation and the merging come to an end.
Ends == <>(pass = "done")
=============================================================================
