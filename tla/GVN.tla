--------------------------------- MODULE GVN ---------------------------------
(***************************************************************************)
(* Value numbering: an instruction that computes what an earlier one has   *)
(* computed is replaced by it.  Within a block for local_gvn; for          *)
(* global_gvn also from the blocks above it in the dominator tree, whose   *)
(* table each block inherits.                                              *)
(*                                                                         *)
(* The tree is the true one here: what the built tree is, DomTree says.    *)
(* Sibling blocks are taken in any order, the code takes one before the    *)
(* other.                                                                  *)
(***************************************************************************)
EXTENDS IRProgram

CONSTANT Programs   \* the functions to consider

VARIABLES
  source,   \* the function before the pass
  prog,     \* the function
  scope,    \* "local" or "global"
  tables,   \* the tables of the blocks walked: value_table, as a set of pairs
  block,    \* the block being walked, or None
  todo,     \* its instructions not yet looked at
  removed,  \* to_remove
  done

vars == <<source, prog, scope, tables, block, todo, removed, done>>

None == 0

Idom(P, b) ==
  CHOOSE a \in ReachedBlocks(P) \ {b} :
    Dominates(P, a, b) /\ \A c \in ReachedBlocks(P) \ {b} : Dominates(P, c, b) => Dominates(P, c, a)

-----------------------------------------------------------------------------
Rank(v) == CASE v[1] = "const" -> 0 [] v[1] = "arg" -> 1 [] v[1] = "root" -> 2 [] v[1] = "inst" -> 3
\* cmp_canon: a fixed order of operands, constants first.
Before(v, w) == IF v[1] = w[1] THEN v[2] <= w[2] ELSE Rank(v) < Rank(w)

Commutes(op) == op \in {"and", "xor"}

Keyed(i) == IsPure(i) \/ i.op = "gep"

\* ExprKey: the operation and its operands, in a fixed order if they commute.
Key(i) ==
  <<i.op, IF Commutes(i.op) /\ ~Before(i.args[1], i.args[2]) THEN Reverse(i.args) ELSE i.args>>

Init ==
  /\ source \in Programs
  /\ prog = source
  /\ scope \in {"local", "global"}
  /\ tables = <<>>
  /\ block = None /\ todo = <<>> /\ removed = <<>>
  /\ done = FALSE

Walked == DOMAIN tables

\* The table a block starts with.
Inherited(b) == IF scope = "local" \/ b = prog.entry THEN {} ELSE tables[Idom(prog, b)]

Ready(b) ==
  /\ b \notin Walked
  /\ (scope = "global" /\ b # prog.entry) => (b \in ReachedBlocks(prog) /\ Idom(prog, b) \in Walked)

EnterBlock(b) ==
  /\ block = None /\ Ready(b)
  /\ block' = b
  /\ todo' = SelectSeq(prog.block[b].insts, LAMBDA i : ~IsPhi(prog.inst[i]))
  /\ tables' = (b :> Inherited(b)) @@ tables
  /\ UNCHANGED <<source, prog, scope, removed, done>>

\* The body of the loop over the instructions of a block.
VisitInst ==
  /\ block # None /\ todo # <<>>
  /\ LET i    == Head(todo)
         key  == Key(prog.inst[i])
         seen == {e \in tables[block] : e[1] = key}
     IN  IF ~Keyed(prog.inst[i]) THEN UNCHANGED <<prog, tables, removed>>
         ELSE IF seen # {}
         THEN /\ prog' = Replaced(prog, Res(i), Res((CHOOSE e \in seen : TRUE)[2]))
              /\ removed' = Append(removed, i)
              /\ UNCHANGED tables
         ELSE /\ tables' = [tables EXCEPT ![block] = @ \cup {<<key, i>>}]
              /\ UNCHANGED <<prog, removed>>
  /\ todo' = Tail(todo)
  /\ UNCHANGED <<source, scope, block, done>>

LeaveBlock ==
  /\ block # None /\ todo = <<>>
  /\ block' = None
  /\ UNCHANGED <<source, prog, scope, tables, todo, removed, done>>

AllWalked == block = None /\ ~\E b \in Blocks(prog) : Ready(b)

\* The instructions replaced are erased, those without uses at least.
EraseReplaced ==
  /\ AllWalked /\ removed # <<>>
  /\ LET i == Head(removed) IN prog' = IF Unused(prog, i) THEN Erased(prog, i) ELSE prog
  /\ removed' = Tail(removed)
  /\ UNCHANGED <<source, scope, tables, block, todo, done>>

Finish ==
  /\ AllWalked /\ removed = <<>> /\ ~done
  /\ done' = TRUE
  /\ UNCHANGED <<source, prog, scope, tables, block, todo, removed>>

Done == done /\ UNCHANGED vars

Next ==
  \/ \E b \in Blocks(prog) : EnterBlock(b)
  \/ VisitInst
  \/ LeaveBlock
  \/ EraseReplaced
  \/ Finish
  \/ Done

Spec == Init /\ [][Next]_vars

-----------------------------------------------------------------------------
\* The tables hold one instruction for a key, of a block on the way to theirs.
TypeOK ==
  /\ block \in Blocks(prog) \cup {None}
  /\ \A b \in Walked : \A e, f \in tables[b] : e[1] = f[1] => e = f
  /\ \A b \in Walked : \A e \in tables[b] : e[2] \in Placed(prog)

\* Every operand is defined on every path to where it is read, at every step:
\* no value of a block that need not have run is reused.
StaysWellFormed == WellFormed(source) => WellFormed(prog)

\* What the function shows is what it showed before: equal keys are equal values.
EffectsKept == done => SameEffects(source, prog, 8)

Where(P, i) == HomeOf(P, i)
Earlier(P, i, j) ==
  LET a == Where(P, i)
      b == Where(P, j)
  IN  IF a = b THEN LET s == P.block[a].insts IN
                    \E m, n \in DOMAIN s : m < n /\ s[m] = i /\ s[n] = j
      ELSE scope = "global" /\ Dominates(P, a, b)

\* In one sweep nothing is missed: of two instructions that compute the same
\* from the same operands neither is left where the other is already known,
\* also when the operands became the same only by a replacement in this sweep.
NothingRepeated ==
  done => \A i, j \in {k \in Placed(prog) : Keyed(prog.inst[k])} :
    LET same(x, y) == x.op = y.op /\ (x.args = y.args \/ (x.op \in {"and", "xor"} /\ x.args = Reverse(y.args))) IN
    i # j /\ same(prog.inst[i], prog.inst[j]) => ~Earlier(prog, i, j)
=============================================================================
