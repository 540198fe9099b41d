------------------------------- MODULE IRCore -------------------------------
(***************************************************************************)
(* The mutable SSA graph of one IR function, as kept by ModuleCore: blocks *)
(* that own phis, plain instructions and at most one terminator, operands  *)
(* that name values and blocks, and, redundantly, the use lists from which *)
(* every optimization pass answers "who uses this value" and "who names    *)
(* this block".  One action per mutator of ModuleCore; the clients are the *)
(* passes, which may call the mutators in any order that respects their    *)
(* assertions.                                                             *)
(*                                                                         *)
(* Abstractions.  Opcodes, types and names are dropped: an instruction is  *)
(* a phi, a terminator or anything else, and an operand slot a number (the *)
(* i-th incoming of a phi owns slot i for its value and for its block).  A *)
(* use list is a Vec searched by (user, slot), so only how often it holds  *)
(* a (user, slot) matters: it is a count.  A slot-map key is never handed  *)
(* out twice; the model does reuse the name of a freed instruction or      *)
(* block, which is sound while NoDanglingOperand holds.  All fresh Undef   *)
(* constants are one value.                                                *)
(***************************************************************************)
EXTENDS Integers, Sequences, FiniteSets, SequencesExt

CONSTANTS
  Insts,     \* instruction keys of the function's slot map
  Blocks,    \* block keys
  Outer,     \* arguments, globals and constants: values no mutator frees
  Undef,     \* the Undef constants erase_inst_from_parent_forcely makes
  None,      \* no parent, no operand, no terminator
  MaxSlots,  \* bound on operand slots, hence on the incomings of a phi
  MaxFresh,  \* bound on value operands a fresh instruction is born with
  MaxLoose   \* bound on instructions in no block: a pass holds one or two

Slots  == 1..MaxSlots

ASSUME BoundsAssumption == /\ MaxSlots \in Nat /\ MaxSlots >= 2
                           /\ MaxFresh \in Slots /\ MaxLoose \in Nat

ASSUME DistinctKeys ==
  /\ Insts \cap Outer = {}
  /\ Undef \notin Insts \cup Outer
  /\ None \notin Insts \cup Outer \cup Blocks \cup {Undef}

Values == Insts \cup Outer \cup {Undef}
Kinds  == {"phi", "plain", "term"}

VARIABLES
  live,       \* instruction keys present in the slot map
  kind,       \* InstKind, up to the three classes the mutators distinguish
  parent,     \* InstData.parent
  ops,        \* value operand in each slot, or None
  bops,       \* block operand in each slot, or None
  idx,        \* the idx counter of a phi: its next incoming slot
  uses,       \* how often (user, slot) is in the use list of each value
  blockUses,  \* the same for blocks
  liveBlocks, \* block keys present in the slot map
  phis, insts, term   \* BlockData

vars == <<live, kind, parent, ops, bops, idx, uses, blockUses, liveBlocks,
          phis, insts, term>>
defs   == <<live, kind, idx>>             \* what an instruction is
places == <<parent, phis, insts, term>>   \* where it stands

-----------------------------------------------------------------------------
(* Use-list bookkeeping. U is uses or blockUses, o the operands of i. *)

NoOperands == [s \in Slots |-> None]
NoUses     == [j \in Insts |-> [s \in Slots |-> 0]]

\* register_inst_use: one push for every operand.
Registered(U, i, o) ==
  [x \in DOMAIN U |-> [j \in Insts |-> [s \in Slots |->
     IF j = i /\ o[s] = x THEN U[x][j][s] + 1 ELSE U[x][j][s]]]]

\* Mutant of Unregistered: the entry is taken to be there.
UnregisteredBlindly(U, i, o) ==
  [x \in DOMAIN U |-> [j \in Insts |-> [s \in Slots |->
     IF j = i /\ o[s] = x THEN U[x][j][s] - 1 ELSE U[x][j][s]]]]

\* unregister_inst_use: the first matching entry of every operand, if any.
Unregistered(U, i, o) ==
  [x \in DOMAIN U |-> [j \in Insts |-> [s \in Slots |->
     IF j = i /\ o[s] = x /\ U[x][j][s] > 0 THEN U[x][j][s] - 1
                                            ELSE U[x][j][s]]]]

\* Mutant of Transferred: the list of old is not emptied.
TransferredAndKept(U, old, new) ==
  [x \in DOMAIN U |->
     IF x = new
     THEN [j \in Insts |-> [s \in Slots |->
             IF U[old][j][s] > 0 THEN U[new][j][s] + 1 ELSE U[new][j][s]]]
     ELSE U[x]]

\* replace_all_uses_with and replace_all_block_uses_with: every (user, slot) in
\* the list of old is taken out of it and pushed onto the list of new.
Transferred(U, old, new) ==
  [x \in DOMAIN U |->
     IF x = old THEN NoUses
     ELSE IF x = new
          THEN [j \in Insts |-> [s \in Slots |->
                  IF U[old][j][s] > 0 THEN U[new][j][s] + 1
                                      ELSE U[new][j][s]]]
          ELSE U[x]]

\* Mutant of Rewritten: only the first use by each instruction is rewritten.
RewrittenOnce(O, U, old, new) ==
  [j \in Insts |-> [s \in Slots |->
     IF U[old][j][s] > 0 /\ \A r \in 1..(s - 1) : U[old][j][r] = 0
     THEN new ELSE O[j][s]]]

\* The operands after every registered use of old is rewritten to new.
Rewritten(O, U, old, new) ==
  [j \in Insts |-> [s \in Slots |->
     IF U[old][j][s] > 0 THEN new ELSE O[j][s]]]

Unused(U, x) == \A j \in Insts, s \in Slots : U[x][j][s] = 0

Attached(i) == i \in live /\ parent[i] # None

\* Indexing a slot map with a key it does not hold panics, so an instruction
\* can be registered only while everything it names still exists.
OperandsExist(o, bo) ==
  \A s \in Slots : /\ o[s] \in live \cup Outer \cup {Undef, None}
                   /\ bo[s] \in liveBlocks \cup {None}

Loose == {i \in live : parent[i] = None}

IndexIn(s, i) == CHOOSE p \in DOMAIN s : s[p] = i
Without(s, i) == RemoveAt(s, IndexIn(s, i))

-----------------------------------------------------------------------------
Init ==
  /\ live = {}
  /\ kind = [i \in Insts |-> "plain"]
  /\ parent = [i \in Insts |-> None]
  /\ ops = [i \in Insts |-> NoOperands]
  /\ bops = [i \in Insts |-> NoOperands]
  /\ idx = [i \in Insts |-> 1]
  /\ uses = [v \in Values |-> NoUses]
  /\ blockUses = [b \in Blocks |-> NoUses]
  /\ liveBlocks = {}
  /\ phis = [b \in Blocks |-> <<>>]
  /\ insts = [b \in Blocks |-> <<>>]
  /\ term = [b \in Blocks |-> None]

\* Operands a fresh instruction of kind k may carry: plain instructions name
\* no block; a terminator is `ret` or a branch on a value or a jump; a phi has
\* a value and a block in each of its first incoming slots.
ShapeOK(k, o, bo, n) ==
  CASE k = "plain" -> (\A s \in Slots : bo[s] = None) /\ n = 1
    [] k = "phi"   -> /\ \A s \in Slots : s < n <=> o[s] # None
                      /\ \A s \in Slots : s < n <=> bo[s] # None
    [] OTHER       -> /\ \A s \in Slots : s > 1 => o[s] = None
                      /\ \A s \in Slots : s > 2 => bo[s] = None
                      /\ bo[2] # None => bo[1] # None /\ o[1] # None
                      /\ bo[1] # None /\ bo[2] = None => o[1] = None
                      /\ n = 1

NewInst(i, k, o, bo, n) ==
  /\ i \notin live
  /\ Cardinality(Loose) < MaxLoose
  /\ ShapeOK(k, o, bo, n)
  /\ live' = live \cup {i}
  /\ kind' = [kind EXCEPT ![i] = k]
  /\ idx' = [idx EXCEPT ![i] = n]
  /\ ops' = [ops EXCEPT ![i] = o]
  /\ bops' = [bops EXCEPT ![i] = bo]
  /\ parent' = [parent EXCEPT ![i] = None]
  /\ UNCHANGED <<uses, blockUses, liveBlocks, phis, insts, term>>

AppendBlock(b) ==
  /\ b \notin liveBlocks
  /\ liveBlocks' = liveBlocks \cup {b}
  /\ phis' = [phis EXCEPT ![b] = <<>>]
  /\ insts' = [insts EXCEPT ![b] = <<>>]
  /\ term' = [term EXCEPT ![b] = None]
  /\ blockUses' = [blockUses EXCEPT ![b] = NoUses]
  /\ UNCHANGED <<defs, parent, ops, bops, uses>>

-----------------------------------------------------------------------------
(* Attaching. Every insertion sets the parent and registers the operands. *)

CanInsert(b, i) ==
  /\ b \in liveBlocks
  /\ i \in live
  /\ parent[i] = None
  /\ OperandsExist(ops[i], bops[i])

Attach(b, i) ==
  /\ CanInsert(b, i)
  /\ parent' = [parent EXCEPT ![i] = b]
  /\ uses' = Registered(uses, i, ops[i])
  /\ blockUses' = Registered(blockUses, i, bops[i])
  /\ UNCHANGED <<defs, ops, bops, liveBlocks>>

AppendInst(b, i) ==
  /\ kind[i] = "plain"
  /\ Attach(b, i)
  /\ insts' = [insts EXCEPT ![b] = Append(@, i)]
  /\ UNCHANGED <<phis, term>>

PushFrontInst(b, i) ==
  /\ kind[i] = "plain"
  /\ Attach(b, i)
  /\ insts' = [insts EXCEPT ![b] = InsertAt(@, 1, i)]
  /\ UNCHANGED <<phis, term>>

AppendPhi(b, i) ==
  /\ kind[i] = "phi"
  /\ Attach(b, i)
  /\ phis' = [phis EXCEPT ![b] = Append(@, i)]
  /\ UNCHANGED <<insts, term>>

\* Mutant of SetTerminator: an earlier terminator is not asserted away.
SetTerminatorAgain(b, i) ==
  /\ kind[i] = "term"
  /\ Attach(b, i)
  /\ term' = [term EXCEPT ![b] = i]
  /\ UNCHANGED <<phis, insts>>

SetTerminator(b, i) ==
  /\ kind[i] = "term"
  /\ term[b] = None
  /\ Attach(b, i)
  /\ term' = [term EXCEPT ![b] = i]
  /\ UNCHANGED <<phis, insts>>

\* insert_before and, with d = 1, insert_after: next to a phi only a phi, next
\* to a plain instruction or before the terminator only a plain one.
InsertAround(anchor, i, d) ==
  /\ Attached(anchor)
  /\ LET b == parent[anchor] IN
     /\ Attach(b, i)
     /\ \/ /\ kind[anchor] = "phi" /\ kind[i] = "phi"
           /\ phis' = [phis EXCEPT ![b] =
                         InsertAt(@, IndexIn(@, anchor) + d, i)]
           /\ UNCHANGED <<insts, term>>
        \/ /\ kind[anchor] = "plain" /\ kind[i] = "plain"
           /\ insts' = [insts EXCEPT ![b] =
                          InsertAt(@, IndexIn(@, anchor) + d, i)]
           /\ UNCHANGED <<phis, term>>
        \/ /\ kind[anchor] = "term" /\ kind[i] = "plain" /\ d = 0
           /\ insts' = [insts EXCEPT ![b] = Append(@, i)]
           /\ UNCHANGED <<phis, term>>

-----------------------------------------------------------------------------
(* Detaching and erasing. *)

\* Taking i out of the list of its parent that locate_inst finds it in.
Unplaced(i) ==
  LET b == parent[i] IN
  /\ phis' = IF kind[i] = "phi"
             THEN [phis EXCEPT ![b] = Without(@, i)] ELSE phis
  /\ insts' = IF kind[i] = "plain"
              THEN [insts EXCEPT ![b] = Without(@, i)] ELSE insts
  /\ term' = IF kind[i] = "term" THEN [term EXCEPT ![b] = None] ELSE term

\* Mutant of DetachInst: only the value operands are unregistered.
DetachInstValuesOnly(i) ==
  /\ Attached(i)
  /\ Cardinality(Loose) < MaxLoose
  /\ uses' = Unregistered(uses, i, ops[i])
  /\ Unplaced(i)
  /\ parent' = [parent EXCEPT ![i] = None]
  /\ UNCHANGED <<defs, ops, bops, blockUses, liveBlocks>>

DetachInst(i) ==
  /\ Attached(i)
  /\ Cardinality(Loose) < MaxLoose
  /\ uses' = Unregistered(uses, i, ops[i])
  /\ blockUses' = Unregistered(blockUses, i, bops[i])
  /\ Unplaced(i)
  /\ parent' = [parent EXCEPT ![i] = None]
  /\ UNCHANGED <<defs, ops, bops, liveBlocks>>

\* The slot-map entries of D go, and with them the use lists stored there.
Freed(U, i) == [U EXCEPT ![i] = NoUses]

Dropped(D, O, B) ==
  /\ live' = live \ D
  /\ kind' = [i \in Insts |-> IF i \in D THEN "plain" ELSE kind[i]]
  /\ idx' = [i \in Insts |-> IF i \in D THEN 1 ELSE idx[i]]
  /\ ops' = [i \in Insts |-> IF i \in D THEN NoOperands ELSE O[i]]
  /\ bops' = [i \in Insts |-> IF i \in D THEN NoOperands ELSE B[i]]

\* Mutant of EraseInstFromParent: the assertion that i has no uses is gone.
EraseInstFromParentInUse(i) ==
  /\ Attached(i)
  /\ uses' = Freed(Unregistered(uses, i, ops[i]), i)
  /\ blockUses' = Unregistered(blockUses, i, bops[i])
  /\ Unplaced(i)
  /\ parent' = [parent EXCEPT ![i] = None]
  /\ Dropped({i}, ops, bops)
  /\ UNCHANGED liveBlocks

EraseInstFromParent(i) ==
  /\ Attached(i)
  /\ Unused(uses, i)
  /\ uses' = Freed(Unregistered(uses, i, ops[i]), i)
  /\ blockUses' = Unregistered(blockUses, i, bops[i])
  /\ Unplaced(i)
  /\ parent' = [parent EXCEPT ![i] = None]
  /\ Dropped({i}, ops, bops)
  /\ UNCHANGED liveBlocks

\* Uses are first redirected to fresh Undef constants, i's own among them.
EraseInstFromParentForcely(i) ==
  /\ Attached(i)
  /\ LET U == Transferred(uses, i, Undef)
         O == Rewritten(ops, uses, i, Undef)
     IN /\ Dropped({i}, O, bops)
        /\ uses' = Freed(Unregistered(U, i, O[i]), i)
  /\ blockUses' = Unregistered(blockUses, i, bops[i])
  /\ Unplaced(i)
  /\ parent' = [parent EXCEPT ![i] = None]
  /\ UNCHANGED liveBlocks

\* overwrite_inst as its three callers (sccp, dce, merge_return) use it: a
\* terminator gives way to a fresh unconditional jump.  replace_inst puts new
\* in old's place without registering the operands of new.
OverwriteInst(old, new) ==
  /\ Attached(old) /\ kind[old] = "term" /\ Unused(uses, old)
  /\ new \in live /\ kind[new] = "term" /\ parent[new] = None
  /\ \A s \in Slots : ops[new][s] = None
  /\ bops[new][1] \in liveBlocks /\ \A s \in Slots \ {1} : bops[new][s] = None
  /\ term' = [term EXCEPT ![parent[old]] = new]
  /\ parent' = [parent EXCEPT ![new] = parent[old], ![old] = None]
  /\ uses' = Freed(Unregistered(uses, old, ops[old]), old)
  /\ blockUses' = Unregistered(blockUses, old, bops[old])
  /\ Dropped({old}, ops, bops)
  /\ UNCHANGED <<liveBlocks, phis, insts>>

\* erase_blocks_from_parent on the blocks Bs.  The callers pass blocks that no
\* terminator outside Bs names (unreachable ones, or ones just merged away);
\* a registered terminator use that survives the erasing panics.
EraseBlocks(Bs) ==
  LET D == {i \in live : parent[i] \in Bs}
      InD(j, s) == ops[j][s] \in D /\ uses[ops[j][s]][j][s] > 0
      Drops(j, s) == j \notin D /\ kind[j] = "phi"
                     /\ \E b \in Bs : blockUses[b][j][s] > 0
  IN
  /\ Bs # {} /\ Bs \subseteq liveBlocks
  /\ \A j \in live \ D : Attached(j) /\ kind[j] = "term" =>
       \A s \in Slots : bops[j][s] \notin Bs
  /\ \A b \in Bs, j \in live \ D, s \in Slots :
       blockUses[b][j][s] > 0 => kind[j] = "phi"
  /\ Dropped(D, [j \in Insts |-> [s \in Slots |->
                   IF Drops(j, s) THEN None
                   ELSE IF InD(j, s) THEN Undef ELSE ops[j][s]]],
                [j \in Insts |-> [s \in Slots |->
                   IF Drops(j, s) THEN None ELSE bops[j][s]]])
  /\ uses' = [v \in Values |-> [j \in Insts |-> [s \in Slots |->
                IF j \in D \/ v \in D \/ Drops(j, s) THEN 0
                ELSE IF v = Undef /\ InD(j, s) THEN uses[v][j][s] + 1
                ELSE uses[v][j][s]]]]
  /\ blockUses' = [b \in Blocks |-> [j \in Insts |-> [s \in Slots |->
                     IF j \in D \/ b \in Bs \/ Drops(j, s) THEN 0
                     ELSE blockUses[b][j][s]]]]
  /\ liveBlocks' = liveBlocks \ Bs
  /\ parent' = [i \in Insts |-> IF i \in D THEN None ELSE parent[i]]
  /\ phis' = [b \in Blocks |-> IF b \in Bs THEN <<>> ELSE phis[b]]
  /\ insts' = [b \in Blocks |-> IF b \in Bs THEN <<>> ELSE insts[b]]
  /\ term' = [b \in Blocks |-> IF b \in Bs THEN None ELSE term[b]]

-----------------------------------------------------------------------------
(* Rewriting operands. *)

ReplaceAllUsesWith(old, new) ==
  /\ old \in live /\ new \in live \cup Outer \cup {Undef} /\ old # new
  /\ ops' = Rewritten(ops, uses, old, new)
  /\ uses' = Transferred(uses, old, new)
  /\ UNCHANGED <<defs, places, bops, blockUses, liveBlocks>>

ReplaceAllBlockUsesWith(old, new) ==
  /\ old \in liveBlocks /\ new \in liveBlocks /\ old # new
  /\ bops' = Rewritten(bops, blockUses, old, new)
  /\ blockUses' = Transferred(blockUses, old, new)
  /\ UNCHANGED <<defs, places, ops, uses, liveBlocks>>

\* Called on the phi users of a block that is being split.
ReplaceBlockOperand(i, s, new) ==
  /\ Attached(i) /\ kind[i] = "phi" /\ bops[i][s] # None
  /\ new \in liveBlocks
  /\ bops' = [bops EXCEPT ![i][s] = new]
  /\ LET unused == [blockUses EXCEPT ![bops[i][s]][i][s] = 0]
     IN  blockUses' = [unused EXCEPT ![new][i][s] = @ + 1]
  /\ UNCHANGED <<defs, places, ops, uses, liveBlocks>>

PhiAddIncoming(i, b, v) ==
  /\ Attached(i) /\ kind[i] = "phi"
  /\ idx[i] \in Slots   \* bound
  /\ b \in liveBlocks /\ v \in live \cup Outer \cup {Undef}
  /\ ops' = [ops EXCEPT ![i][idx[i]] = v]
  /\ bops' = [bops EXCEPT ![i][idx[i]] = b]
  /\ uses' = [uses EXCEPT ![v][i][idx[i]] = @ + 1]
  /\ blockUses' = [blockUses EXCEPT ![b][i][idx[i]] = @ + 1]
  /\ idx' = [idx EXCEPT ![i] = @ + 1]
  /\ UNCHANGED <<places, live, kind, liveBlocks>>

PhiRemoveIncomingFrom(i, s) ==
  /\ Attached(i) /\ kind[i] = "phi" /\ bops[i][s] # None
  /\ ops' = [ops EXCEPT ![i][s] = None]
  /\ bops' = [bops EXCEPT ![i][s] = None]
  /\ uses' = [uses EXCEPT ![ops[i][s]][i][s] = 0]
  /\ blockUses' = [blockUses EXCEPT ![bops[i][s]][i][s] = 0]
  /\ UNCHANGED <<defs, places, liveBlocks>>

-----------------------------------------------------------------------------
Operands == [Slots -> Values \cup {None}]
BlockOperands == [Slots -> Blocks \cup {None}]
FreshOperands == {o \in Operands : \A s \in Slots : s > MaxFresh => o[s] = None}

Next ==
  \/ \E i \in Insts \ live, k \in Kinds, n \in 1..(MaxSlots + 1),
        o \in FreshOperands, bo \in BlockOperands :
       OperandsExist(o, bo) /\ NewInst(i, k, o, bo, n)
  \/ \E b \in Blocks : AppendBlock(b)
  \/ \E b \in Blocks, i \in Insts :
       \/ AppendInst(b, i)
       \/ PushFrontInst(b, i)
       \/ AppendPhi(b, i)
       \/ SetTerminator(b, i)
  \/ \E anchor, i \in Insts, d \in {0, 1} : InsertAround(anchor, i, d)
  \/ \E i \in Insts :
       \/ DetachInst(i)
       \/ EraseInstFromParent(i)
       \/ EraseInstFromParentForcely(i)
  \/ \E old, new \in Insts : OverwriteInst(old, new)
  \/ \E Bs \in SUBSET Blocks : EraseBlocks(Bs)
  \/ \E old \in Insts, new \in Values : ReplaceAllUsesWith(old, new)
  \/ \E old, new \in Blocks : ReplaceAllBlockUsesWith(old, new)
  \/ \E i \in Insts, s \in Slots, b \in Blocks : ReplaceBlockOperand(i, s, b)
  \/ \E i \in Insts, b \in Blocks, v \in Values : PhiAddIncoming(i, b, v)
  \/ \E i \in Insts, s \in Slots : PhiRemoveIncomingFrom(i, s)

Spec == Init /\ [][Next]_vars

-----------------------------------------------------------------------------
\* What the fields of ModuleCore hold: the graph and the block lists.
GraphTypeOK ==
  /\ live \subseteq Insts
  /\ kind \in [Insts -> Kinds]
  /\ parent \in [Insts -> Blocks \cup {None}]
  /\ ops \in [Insts -> Operands]
  /\ bops \in [Insts -> BlockOperands]
  /\ idx \in [Insts -> 1..(MaxSlots + 1)]
  /\ uses \in [Values -> [Insts -> [Slots -> Nat]]]
  /\ blockUses \in [Blocks -> [Insts -> [Slots -> Nat]]]
  /\ liveBlocks \subseteq Blocks

ListTypeOK ==
  /\ phis \in [Blocks -> Seq(Insts)]
  /\ insts \in [Blocks -> Seq(Insts)]
  /\ term \in [Blocks -> Insts \cup {None}]

\* Every field of InstData, BlockData and the use lists stays well typed.
TypeOK == GraphTypeOK /\ ListTypeOK

\* The use list of a value holds each operand occurrence of an attached
\* instruction exactly once and nothing else: a missing entry makes
\* replace_all_uses_with skip a use and lets erase_inst_from_parent free a
\* value that is still read; a stale or double one keeps dead code alive.
ValueUsesExact ==
  \A v \in Values, j \in Insts, s \in Slots :
    uses[v][j][s] = IF Attached(j) /\ ops[j][s] = v THEN 1 ELSE 0

\* The same for blocks, but only one way for terminators: the jump that
\* overwrite_inst puts in is not in the use list of its target until it is
\* detached and set again.  Phi incomings, which erase_blocks_from_parent and
\* split_block_at look up there, are exact.
BlockUsesSound ==
  \A b \in Blocks, j \in Insts, s \in Slots :
    LET named == IF Attached(j) /\ bops[j][s] = b THEN 1 ELSE 0 IN
    /\ blockUses[b][j][s] <= named
    /\ kind[j] = "phi" => blockUses[b][j][s] = named

\* Only phis and terminators name blocks, the incomings of a phi come in
\* pairs, and its counter is past all of them: otherwise phi_add_incoming
\* overwrites an incoming whose uses stay behind.
OperandShape ==
  \A j \in live :
    /\ kind[j] = "plain" => bops[j] = NoOperands
    /\ kind[j] = "phi" =>
         /\ \A s \in Slots : ops[j][s] = None <=> bops[j][s] = None
         /\ \A s \in idx[j]..MaxSlots : ops[j][s] = None

\* No attached instruction stands in, or names, a block or a value that has
\* been freed: following such a key is a slot-map panic in a later pass.
NoDanglingOperand ==
  \A j \in Insts : Attached(j) => /\ parent[j] \in liveBlocks
                                  /\ OperandsExist(ops[j], bops[j])

Members(k, b) == {i \in live : kind[i] = k /\ parent[i] = b}

\* An instruction stands exactly once in the list of its parent that fits its
\* class and nowhere else, so locate_inst always finds it.
PlacesExact ==
  \A b \in Blocks :
    /\ IsInjective(phis[b]) /\ ToSet(phis[b]) = Members("phi", b)
    /\ IsInjective(insts[b]) /\ ToSet(insts[b]) = Members("plain", b)
    /\ {term[b]} \ {None} = Members("term", b)

\* A value is replaced everywhere or nowhere: once a step redirects one operand
\* that read v, no attached instruction reads v.  gvn, algebraic, mem2reg and
\* inlining erase v right after replace_all_uses_with and rely on it.
ReplacementIsTotal ==
  [][\A v \in Insts :
       (\E j \in Insts, s \in Slots : /\ Attached(j) /\ Attached(j)'
                                      /\ ops[j][s] = v
                                      /\ ops'[j][s] \notin {v, None})
         => \A j \in Insts : Attached(j)' => v \notin Range(ops'[j])]_vars
=============================================================================
