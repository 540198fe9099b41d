------------------------------ MODULE IRProgram ------------------------------
(***************************************************************************)
(* One function of the IR as the passes over whole functions see it: a     *)
(* block has phis, instructions and a terminator, values are named by the  *)
(* instruction that computes them.  Values are single bits, so that every  *)
(* value can be a condition and two operations tell all operands apart.    *)
(* Memory is a few cells under two roots, and an address is a number.      *)
(* What a function shows is the operand of each call and of the return,    *)
(* and the memory it leaves there.                                         *)
(***************************************************************************)
EXTENDS Integers, Sequences, FiniteSets, SequencesExt, Functions

\* Operands.
Arg      == <<"arg", 0>>
Const(c) == <<"const", c>>
Res(i)   == <<"inst", i>>
Root(a)  == <<"root", a>>    \* an alloca, a global or a pointer argument: the address of its first cell
IsConst(v) == v[1] = "const"
IsInst(v)  == v[1] = "inst"

\* Instructions.  A call may return either bit, the same each time it is
\* reached in one run, and writes it to every cell: the run says which.
Pure(op, l, r) == [op |-> op, args |-> <<l, r>>, from |-> <<>>]
Call(v)        == [op |-> "call", args |-> <<v>>, from |-> <<>>]
Invoke(f, v)   == [op |-> "invoke", args |-> <<v>>, from |-> <<f>>]   \* a call of function f
Load(p)        == [op |-> "load", args |-> <<p>>, from |-> <<>>]
Store(v, p)    == [op |-> "store", args |-> <<v, p>>, from |-> <<>>]
Gep(p, v)      == [op |-> "gep", args |-> <<p, v>>, from |-> <<>>]
Phi(blocks, vs) == [op |-> "phi", args |-> vs, from |-> blocks]
IsPhi(i)   == i.op = "phi"
IsPure(i)  == i.op \in {"and", "xor", "ult"}
NoValue     == <<"none", 0>>    \* what a function without a result returns
Apply(op, l, r) ==
  CASE op = "and" -> l * r
    [] op = "xor" -> (l + r) % 2
    [] op = "ult" -> IF l < r THEN 1 ELSE 0
    [] op = "gep" -> l + r

\* The cells: two under the first root, one under the second.
Cells == {20, 21, 30}

\* Terminators: the successors taken when the condition is 1 and when it is 0.
Jump(b)         == [to |-> <<b>>, on |-> Const(1)]
Branch(v, t, e) == [to |-> <<t, e>>, on |-> v]
Ret(v)          == [to |-> <<>>, on |-> v]
Conditional(t)  == Len(t.to) = 2

\* A function: its blocks, each a sequence of instructions, phis first, and a
\* terminator; and its instructions.
Blocks(P)   == DOMAIN P.block
Succs(P, b) == Range(P.block[b].term.to)
Preds(P, b) == {p \in Blocks(P) : b \in Succs(P, p)}
Placed(P)   == UNION {Range(P.block[b].insts) : b \in Blocks(P)}
HomeOf(P, i) == CHOOSE b \in Blocks(P) : i \in Range(P.block[b].insts)
PhisOf(P, b) == {i \in Range(P.block[b].insts) : IsPhi(P.inst[i])}

ReachedBlocks(P) ==
  LET step(S) == S \cup UNION {Succs(P, b) : b \in S}
      after[n \in 0..Cardinality(Blocks(P))] == IF n = 0 THEN {P.entry} ELSE step(after[n - 1])
  IN  after[Cardinality(Blocks(P))]

\* Users of a value: instructions, and blocks whose terminator names it.
Users(P, v)     == {i \in Placed(P) : v \in Range(P.inst[i].args)}
TermUsers(P, v) == {b \in Blocks(P) : P.block[b].term.on = v}
Unused(P, i)    == Users(P, Res(i)) = {} /\ TermUsers(P, Res(i)) = {}

Subst(v, old, new) == IF v = old THEN new ELSE v

\* The value itself: comparing it makes TLC compute the functions in it once.
Computed(P) == CHOOSE q \in {P} : q = q

\* replace_all_uses_with
Replaced(P, old, new) == Computed(
  [P EXCEPT !.inst = [i \in DOMAIN @ |-> [@[i] EXCEPT !.args = [k \in DOMAIN @ |-> Subst(@[k], old, new)]]],
            !.block = [b \in DOMAIN @ |-> [@[b] EXCEPT !.term.on = Subst(@, old, new)]]])

\* erase_inst_from_parent
Erased(P, i) ==
  [P EXCEPT !.block[HomeOf(P, i)].insts = SelectSeq(@, LAMBDA j : j # i)]

-----------------------------------------------------------------------------
(* What local_memory and licm know of pointers.                            *)

IsGep(P, v) == IsInst(v) /\ P.inst[v[2]].op = "gep"

\* ptr_path: the root of a pointer and the indices on the way from it.
PtrPath(P, ptr) ==
  LET path[n \in 0..Cardinality(DOMAIN P.inst)] ==
        IF n = 0 THEN <<ptr, <<>>>>
        ELSE LET last == path[n - 1][1] IN
             IF IsGep(P, last)
             THEN <<P.inst[last[2]].args[1], <<P.inst[last[2]].args[2]>> \o path[n - 1][2]>>
             ELSE path[n - 1]
  IN  path[Cardinality(DOMAIN P.inst)]

\* ptr_may_alias: two roots are distinct, pointer arguments too (that borrows keep
\* them apart is taken on trust, as roots_known_distinct does), and so are two
\* constant indices at the first place where the paths differ.
MayAlias(P, p, q) ==
  LET a == PtrPath(P, p)
      b == PtrPath(P, q)
      n == IF Len(a[2]) < Len(b[2]) THEN Len(a[2]) ELSE Len(b[2])
      differ == {k \in 1..n : a[2][k] # b[2][k]}
      first  == CHOOSE k \in differ : \A j \in differ : k <= j
  IN  p = q \/ (IF a[1] # b[1] THEN a[1][1] # "root" \/ b[1][1] # "root"
                ELSE differ = {} \/ ~(IsConst(a[2][first]) /\ IsConst(b[2][first])))

-----------------------------------------------------------------------------
(* A run: the values computed so far, by instruction, the memory, what was *)
(* shown, the blocks entered and how it ended.  It stops at the return,    *)
(* after `fuel` blocks, or where it is stuck: an operand not yet computed, *)
(* or a phi without a value for the edge taken.  A function that is called *)
(* is one of P.with and runs on the caller's memory.                       *)
Stuck == 9
Cut   == 8
Going == 7

Operand(v, env, in) ==
  CASE v[1] = "arg" -> in.arg
    [] v[1] \in {"const", "root"} -> v[2]
    [] v[1] = "inst" -> IF v[2] \in DOMAIN env THEN env[v[2]] ELSE Stuck
    [] v[1] = "none" -> 0
    [] v[1] = "undef" -> Stuck

PhiValue(i, prev, env, in) ==
  IF \E k \in DOMAIN i.from : i.from[k] = prev
  THEN Operand(i.args[CHOOSE k \in DOMAIN i.from : i.from[k] = prev], env, in)
  ELSE Stuck

Dump(mem) == [k \in 1..3 |-> mem[<<20, 21, 30>>[k]]]

\* One instruction that calls no function of the program.
Stepped(run, k, i, in) ==
  LET x == Operand(i.args[1], run.env, in)
      y == Operand(i.args[Len(i.args)], run.env, in)
      v == IF Stuck \in {x, y} THEN Stuck
           ELSE CASE i.op = "call" -> in.answer
                  [] i.op = "load" -> run.mem[x]
                  [] i.op = "store" -> x
                  [] OTHER -> Apply(i.op, x, y)
  IN  [run EXCEPT
        !.env = (k :> v) @@ @,
        !.mem = IF v = Stuck THEN @
                ELSE IF i.op = "store" THEN (y :> x) @@ @
                ELSE IF i.op = "call" THEN [a \in Cells |-> in.answer] ELSE @,
        !.shown = IF i.op = "call" THEN Append(@, x) \o Dump(run.mem) ELSE @]

RECURSIVE RunFrom(_, _, _, _, _, _)
RECURSIVE RunBlock(_, _, _, _)

\* A call of function f: the caller gets its result, or ends where it ends.
Called(P, k, i, run, in) ==
  LET x == Operand(i.args[1], run.env, in)
      callee == ("with" :> P.with) @@ P.with[i.from[1]]
      after  == RunFrom(callee, callee.entry, 0, [run EXCEPT !.env = <<>>], [in EXCEPT !.arg = x], 6)
  IN  IF after.ret \in {Cut, Stuck} THEN after
      ELSE [after EXCEPT !.env = (k :> after.ret) @@ run.env, !.entered = run.entered, !.ret = Going]

RunBlock(P, todo, run, in) ==
  IF todo = <<>> \/ run.ret # Going THEN run
  ELSE LET i == P.inst[Head(todo)] IN
       RunBlock(P, Tail(todo),
                IF i.op = "invoke" THEN Called(P, Head(todo), i, run, in) ELSE Stepped(run, Head(todo), i, in), in)

RunFrom(P, b, prev, run, in, fuel) ==
  LET here  == P.block[b].insts
      phis  == SelectSeq(here, LAMBDA i : IsPhi(P.inst[i]))
      rest  == SelectSeq(here, LAMBDA i : ~IsPhi(P.inst[i]))
      \* the phis of a block take their values at once
      start == [run EXCEPT !.env = [i \in Range(phis) |-> PhiValue(P.inst[i], prev, @, in)] @@ @,
                           !.entered = @ \cup {b}]
      now   == RunBlock(P, rest, start, in)
      term  == P.block[b].term
      on    == Operand(term.on, now.env, in)
  IN  IF fuel = 0 THEN [now EXCEPT !.ret = Cut]
      ELSE IF now.ret # Going THEN now
      ELSE IF on = Stuck \/ term.to = <<>> THEN [now EXCEPT !.ret = on]
      ELSE RunFrom(P, IF on = 1 THEN term.to[1] ELSE term.to[Len(term.to)], b, now, in, fuel - 1)

Inputs == [arg : {0, 1}, answer : {0, 1}]

\* Before the run the cells hold the argument; a run that returns shows the
\* result and the memory, another one how it ended.
Run(P, in, fuel) ==
  LET run == RunFrom(P, P.entry, 0,
               [env |-> <<>>, mem |-> [a \in Cells |-> in.arg], shown |-> <<>>, entered |-> {}, ret |-> Going],
               in, fuel)
  IN  [run EXCEPT !.shown = Append(@, run.ret) \o (IF run.ret \in {Cut, Stuck} THEN <<>> ELSE Dump(run.mem))]

\* Two functions show the same, as far as both runs get.
SameStart(s, t) ==
  LET n == IF Len(s) < Len(t) THEN Len(s) ELSE Len(t)
      cut(q) == IF q # <<>> /\ Last(q) = Cut THEN Front(q) ELSE q
      a == cut(s)
      b == cut(t)
  IN  IF a = s /\ b = t THEN s = t
      ELSE IF a = s THEN IsPrefix(b, s)
      ELSE IF b = t THEN IsPrefix(a, t)
      ELSE IsPrefix(a, b) \/ IsPrefix(b, a)

SameEffects(P, Q, fuel) ==
  \A in \in Inputs : SameStart(Run(P, in, fuel).shown, Run(Q, in, fuel).shown)

\* Every operand is computed on every path to it: the definition is earlier in
\* the block, or every path from the entry to the block goes through its block.
Dominates(P, a, b) ==
  LET reach(S) == S \cup UNION {Succs(P, x) \ {a} : x \in S}
      after[n \in 0..Cardinality(Blocks(P))] ==
        IF n = 0 THEN {P.entry} \ {a} ELSE reach(after[n - 1])
  IN  b \notin after[Cardinality(Blocks(P))]

DefinedAt(P, v, b, at) ==
  ~IsInst(v) \/
  /\ v[2] \in Placed(P)
  /\ LET h == HomeOf(P, v[2]) IN
     IF h = b THEN \E k \in 1..(at - 1) : P.block[b].insts[k] = v[2] ELSE Dominates(P, h, b)

\* Where a function is well formed a phi has one value for each edge into its
\* block, in a block the entry reaches.
WellFormed(P) ==
  \A b \in ReachedBlocks(P) :
    /\ \A k \in DOMAIN P.block[b].insts :
         LET i == P.inst[P.block[b].insts[k]] IN
         IF IsPhi(i)
         THEN /\ Range(i.from) = Preds(P, b) /\ IsInjective(i.from)
              /\ \A n \in DOMAIN i.from : i.from[n] \in ReachedBlocks(P) =>
                   DefinedAt(P, i.args[n], i.from[n], Len(P.block[i.from[n]].insts) + 1)
         ELSE \A n \in DOMAIN i.args : DefinedAt(P, i.args[n], b, k)
    /\ DefinedAt(P, P.block[b].term.on, b, Len(P.block[b].insts) + 1)
=============================================================================
