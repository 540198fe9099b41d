---------------------------- MODULE MCScalarPasses ----------------------------
(* The passes of opt_all that look at instructions, each on families of      *)
(* small functions: value numbering, local memory, code motion, constant     *)
(* propagation with the simplification of the graph, and inlining with the   *)
(* order in which functions are taken.  `opt` says which one a behaviour is  *)
(* of; opt_all calls them one after the other on what the last one left.     *)
EXTENDS IRProgram

CONSTANTS Functions, Budget

VARIABLES
  opt,
  source, prog, scope, tables, block, todo, removed, done, blocks, pass,
  seen, lastStore, lastLoad, loops, loop, value, cfgWork, instWork, visited,
  phis, work, mergeable, funcs, at, found, calls, copy, callees, phase,
  starts, entered, stack, trees, sccs, degrees, ready, order

allVars == <<opt, source, prog, scope, tables, block, todo, removed, done,
  blocks, pass, seen, lastStore, lastLoad, loops, loop, value, cfgWork,
  instWork, visited, phis, work, mergeable, funcs, at, found, calls, copy,
  callees, phase, starts, entered, stack, trees, sccs, degrees, ready, order>>

Block(insts, term) == [insts |-> insts, term |-> term]

-----------------------------------------------------------------------------
(* Value numbering: a choice whose arms and join repeat what was computed    *)
(* before, and a loop whose body does.                                       *)
Exprs(a, b) == {Pure("and", a, b), Pure("and", b, a), Pure("ult", a, b), Pure("ult", b, a)}

RepeatedInArms ==
  {[entry |-> 1,
    block |-> 1 :> Block(<<10, 11, 19>>, Branch(Arg, 2, 3))
           @@ 2 :> Block(<<12, 13>>, Jump(4))
           @@ 3 :> Block(<<14>>, Jump(4))
           @@ 4 :> Block(<<15, 16, 17, 18>>, Ret(Res(18))),
    inst  |-> 10 :> Call(Arg)
           @@ 11 :> i @@ 12 :> j @@ 13 :> Pure("xor", Res(12), c)
           @@ 14 :> Pure("xor", Res(11), c)
           @@ 15 :> Phi(<<2, 3>>, <<Res(13), q>>)
           @@ 16 :> k @@ 17 :> Pure("and", Res(16), Res(15))
           @@ 18 :> Pure("xor", Res(17), Res(19))
           @@ 19 :> l] :
     i \in Exprs(Res(10), Arg), j \in Exprs(Res(10), Arg), k \in Exprs(Res(10), Arg),
     c \in {Const(1), Res(11)}, q \in {Res(14), Const(0)},
     l \in {Pure("xor", Res(11), Const(1)), Pure("xor", Const(1), Res(11))}}

RepeatedInLoops ==
  {[entry |-> 1,
    block |-> 1 :> Block(<<11>>, Jump(2))
           @@ 2 :> Block(<<12, 13>>, Branch(Res(12), 3, 4))
           @@ 3 :> Block(<<14, 15, 16, 17>>, Jump(2))
           @@ 4 :> Block(<<18>>, Ret(Res(18))),
    inst  |-> 11 :> i
           @@ 12 :> Phi(<<1, 3>>, <<Res(11), n>>)
           @@ 13 :> Pure("xor", Res(12), Const(1))
           @@ 14 :> Load(Root(20)) @@ 15 :> Store(Res(13), Root(20))
           @@ 16 :> Load(Root(20)) @@ 17 :> j
           @@ 18 :> k] :
     i \in Exprs(Const(1), Arg), j \in Exprs(Res(14), Res(16)) \cup {Pure("xor", Res(12), Const(1))},
     k \in Exprs(Const(1), Arg) \cup {Pure("xor", Res(12), Const(1))},
     n \in {Res(13), Res(17)}}

-----------------------------------------------------------------------------
(* Local memory: two blocks in a row; the first computes three addresses,    *)
(* under one root by a constant and by the argument, and under another.      *)
Pointers == {Res(11), Res(12), Root(30)}
Access(v, P) == {Load(p) : p \in P} \cup {Store(v, p) : p \in P \ {Root(30)}}

Geps == {<<Gep(Root(20), Const(0)), Gep(Root(20), Arg)>>, <<Gep(Root(20), Const(0)), Gep(Root(20), Const(1))>>,
         <<Gep(Root(20), Arg), Gep(Root(20), Arg)>>}

\* What was loaded there, for the return.
Loaded(k, i) == IF i.op = "load" THEN Res(k) ELSE Const(0)

Accesses ==
  {[entry |-> 1,
    block |-> 1 :> Block(<<11, 13, 12, 14, 15, 16>>, Jump(2))
           @@ 2 :> Block(<<17, 18, 19, 20, 21>>, Ret(Res(20))),
    inst  |-> 11 :> g[1] @@ 12 :> g[2]
           @@ 13 :> a @@ 14 :> b @@ 15 :> c @@ 16 :> d
           @@ 17 :> Load(Res(11)) @@ 18 :> Pure("xor", Res(17), Loaded(13, a))
           @@ 19 :> Pure("xor", Res(18), Loaded(14, b))
           @@ 20 :> Pure("xor", Res(19), Loaded(15, c))
           @@ 21 :> e] :
     g \in Geps, a \in Access(Const(1), {Res(11), Root(30)}), b \in Access(Const(0), Pointers),
     c \in Access(Const(1), Pointers) \cup {Call(Arg)},
     d \in Access(Arg, Pointers), e \in {Call(Res(18))}}

-----------------------------------------------------------------------------
(* Code motion: a loop entered from two sides, two nested loops, a loop of   *)
(* one block inside another, and a loop continued from two places.           *)
\* 1 -> 2, 3 -> 4 <-> 5, 4 -> 6
Entered ==
  {[entry |-> 1,
    block |-> 1 :> Block(<<11>>, Branch(Arg, 2, 3))
           @@ 2 :> Block(<<>>, Jump(4)) @@ 3 :> Block(<<>>, Jump(4))
           @@ 4 :> Block(<<12, 13>>, Branch(Res(13), 5, 6))
           @@ 5 :> Block(<<14, 15, 16, 17>>, Jump(4))
           @@ 6 :> Block(<<18>>, Ret(Res(18))),
    inst  |-> 11 :> Pure("xor", Arg, Const(1))
           @@ 12 :> Phi(<<2, 3, 5>>, <<Const(0), z, Res(16)>>)
           @@ 13 :> Pure("ult", Res(12), c)
           @@ 14 :> Gep(Root(20), x) @@ 15 :> Load(p)
           @@ 16 :> Pure("xor", Res(15), y) @@ 17 :> e
           @@ 18 :> Pure("xor", Res(12), Const(1))] :
     c \in {Const(1), Res(11)}, x \in {Arg, Res(11), Res(12), Const(0)},
     p \in {Res(14), Root(30)}, z \in {Const(0), Res(11)}, y \in {Res(12), Res(11)},
     e \in {Call(Res(15)), Store(Res(12), Root(30)), Store(Res(11), Root(20)), Store(Const(1), Res(14))}}

\* 1 -> 2 -> 3 <-> 4, 3 -> 5 -> 2, 2 -> 6
Nested ==
  {[entry |-> 1,
    block |-> 1 :> Block(<<11>>, Jump(2))
           @@ 2 :> Block(<<12, 13>>, Branch(Res(12), 3, 6))
           @@ 3 :> Block(<<14, 15>>, Branch(Res(14), 4, 5))
           @@ 4 :> Block(<<16, 17, 18, 19>>, Jump(3))
           @@ 5 :> Block(<<20, 21>>, Jump(2))
           @@ 6 :> Block(<<>>, Ret(Res(12))),
    inst  |-> 11 :> Load(Root(20))
           @@ 12 :> Phi(<<1, 5>>, <<Arg, Res(20)>>) @@ 13 :> d
           @@ 14 :> Phi(<<2, 4>>, <<Const(1), Res(19)>>) @@ 15 :> Pure("and", Res(13), a)
           @@ 16 :> Pure("xor", Res(12), Const(1)) @@ 17 :> Gep(Root(20), Res(16))
           @@ 18 :> Load(Res(17)) @@ 19 :> Pure("and", Res(15), b)
           @@ 20 :> Pure("and", Res(14), Res(13)) @@ 21 :> e] :
     d \in {Pure("xor", Res(11), Const(1)), Load(Root(30)), Pure("and", Res(12), Res(11))},
     a \in {Res(14), Res(12)}, b \in {Res(18), Res(14)},
     e \in {Store(Res(14), Root(30)), Call(Res(13)), Store(Const(1), Root(20))}}

\* 1 -> 2 -> 3 -> 3, 4, 4 -> 2, 5: the inner loop is a block of its own
OneBlock ==
  {[entry |-> 1,
    block |-> 1 :> Block(<<11>>, Jump(2))
           @@ 2 :> Block(<<12>>, Jump(3))
           @@ 3 :> Block(<<13, 14, 15, 16>>, Branch(Res(15), 3, 4))
           @@ 4 :> Block(<<17>>, Branch(Res(17), 2, 5))
           @@ 5 :> Block(<<>>, Ret(Res(13))),
    inst  |-> 11 :> Pure("xor", Arg, Const(1))
           @@ 12 :> Phi(<<1, 4>>, <<Arg, Const(0)>>)
           @@ 13 :> Phi(<<2, 3>>, <<Const(0), Res(15)>>)
           @@ 14 :> d @@ 15 :> Pure("xor", Res(13), Const(1)) @@ 16 :> e
           @@ 17 :> Pure("and", Res(12), Res(13))] :
     d \in {Load(Root(20)), Pure("and", Res(11), Arg), Pure("xor", Res(12), Const(1)), Gep(Root(20), Res(11))},
     e \in {Call(Res(11)), Store(Res(13), Root(20)), Store(Res(12), Root(30))}}

\* 1 -> 2 -> 3 -> 4, 5 -> 2, 2 -> 6: two back edges into one header
Continued ==
  {[entry |-> 1,
    block |-> 1 :> Block(<<11>>, Jump(2))
           @@ 2 :> Block(<<12, 17, 18>>, Branch(Res(12), 3, 6))
           @@ 3 :> Block(<<13>>, Branch(c, 4, 5))
           @@ 4 :> Block(<<14>>, Jump(2))
           @@ 5 :> Block(<<15, 16>>, Jump(2))
           @@ 6 :> Block(<<>>, Ret(Res(18))),
    inst  |-> 11 :> Pure("xor", Arg, Const(1))
           @@ 12 :> Phi(<<1, 4, 5>>, <<Const(1), n, Const(0)>>)
           @@ 17 :> Phi(<<1, 4, 5>>, <<Const(1), Const(0), Const(1)>>)
           @@ 18 :> Phi(<<1, 4, 5>>, <<Arg, Res(13), Res(16)>>)
           @@ 13 :> Pure("ult", Res(11), Arg)
           @@ 14 :> e @@ 15 :> Load(Root(20)) @@ 16 :> Pure("and", Res(15), x)] :
     c \in {Res(17), Res(13)}, n \in {Const(1), Res(13)}, x \in {Arg, Const(1), Res(13)},
     e \in {Pure("xor", Res(11), Res(13)), Store(Arg, Root(30)), Store(Const(0), Root(20))}}

StoresToLoaded(P) == P.inst[14] = Store(Const(0), Root(20))

-----------------------------------------------------------------------------
(* Constants: a choice whose join chooses again between two returns, and a   *)
(* loop with a call in its body.                                             *)
Ops  == {"and", "xor"}

ChoosingTwice ==
  {[entry |-> 1,
    block |-> 1 :> Block(<<11>>, Branch(c, 2, 3))
           @@ 2 :> Block(<<12>>, Jump(4))
           @@ 3 :> Block(<<13>>, Jump(4))
           @@ 4 :> Block(<<14, 15>>, Branch(d, 5, 6))
           @@ 5 :> Block(<<>>, Ret(Res(15)))
           @@ 6 :> Block(<<>>, Ret(r)),
    inst  |-> 11 :> Pure(op, Const(1), x)
           @@ 12 :> Pure("xor", Res(11), y)
           @@ 13 :> Call(Res(11))
           @@ 14 :> Phi(<<2, 3>>, <<p, q>>)
           @@ 15 :> Pure("and", Res(14), z)] :
     op \in Ops, x \in {Const(1), Arg}, y \in {Const(1)},
     c \in {Arg, Const(0), Res(11)}, d \in {Res(14), Res(15)},
     p \in {Res(12), Const(1)}, q \in {Res(13), Const(1)}, z \in {Res(11)},
     r \in {Const(0), Res(14)}}

ChoosingLoops ==
  {[entry |-> 1,
    block |-> 1 :> Block(<<11>>, Jump(2))
           @@ 2 :> Block(<<12, 13>>, Branch(c, 3, 4))
           @@ 3 :> Block(<<14, 15>>, t)
           @@ 4 :> Block(<<16>>, Ret(r)),
    inst  |-> 11 :> Pure(op, x, Const(0))
           @@ 12 :> Phi(IF t = Jump(4) THEN <<1>> ELSE <<1, 3>>, IF t = Jump(4) THEN <<p>> ELSE <<p, q>>)
           @@ 13 :> Pure("xor", Res(12), y)
           @@ 14 :> Call(z)
           @@ 15 :> Pure("and", Res(12), Res(14))
           @@ 16 :> Phi(IF t = Jump(2) THEN <<2>> ELSE <<2, 3>>, IF t = Jump(2) THEN <<Res(13)>> ELSE <<Res(13), Res(14)>>)] :
     op \in {"and"}, x \in {Arg}, y \in {Const(1), Res(11)},
     c \in {Res(11), Res(12), Res(13)}, p \in {Const(0), Res(11)},
     q \in {Const(0), Res(15)}, z \in {Const(1), Res(12)},
     r \in {Res(12), Res(16)}, t \in {Jump(2), Jump(4), Branch(Res(14), 2, 4)}}

-----------------------------------------------------------------------------
(* Inlining: a callee with a branch, a loop or a call, or one that never     *)
(* returns, and a caller that calls it once or twice, in a loop or under a   *)
(* branch.                                                                   *)
AFunction(o, bs, is) == [entry |-> 1, order |-> o, block |-> bs, inst |-> is]
BlockOrders(n) == {o \in [1..n -> 1..n] : o[1] = 1 /\ IsInjective(o)}

\* 1 -> 2, 3 -> 4: the result joins two arms.
TwoArms ==
  {AFunction(<<1, 2, 3, 4>>,
            1 :> Block(<<11>>, Branch(Res(11), 2, 3))
            @@ 2 :> Block(<<12>>, Jump(4)) @@ 3 :> Block(<<>>, Jump(4))
            @@ 4 :> Block(<<13>>, Ret(r)),
            11 :> Pure("xor", Arg, Const(1)) @@ 12 :> i
            @@ 13 :> Phi(<<2, 3>>, <<v, Arg>>)) :
     i \in {Call(Res(11)), Store(Arg, Root(20)), Load(Root(20))},
     v \in {Res(11), Const(1)}, r \in {Res(13), NoValue}}

\* 1 -> 2 <-> 3, 2 -> 4: phis name what is computed later, as far as the order
\* of the blocks goes.
Looping ==
  {AFunction(o,
            1 :> Block(<<>>, Jump(2))
            @@ 2 :> Block(<<11, 12>>, Branch(Res(12), 3, 4))
            @@ 3 :> Block(<<13>>, Jump(2))
            @@ 4 :> Block(<<14>>, Ret(r)),
            11 :> Phi(<<1, 3>>, <<Arg, Res(13)>>)
            @@ 12 :> Phi(<<1, 3>>, <<Const(1), Res(11)>>)
            @@ 13 :> i @@ 14 :> Pure("xor", Res(11), Res(12))) :
     o \in BlockOrders(4), i \in {Pure("and", Res(11), Const(0)), Pure("xor", Res(12), Res(11))},
     r \in {Res(14), NoValue, Const(0)}}

\* It calls itself.
Recursive ==
  {AFunction(<<1, 2, 3>>,
            1 :> Block(<<>>, Branch(Arg, 2, 3)) @@ 2 :> Block(<<11>>, Jump(3)) @@ 3 :> Block(<<12>>, Ret(Res(12))),
            11 :> Invoke(1, Const(0)) @@ 12 :> Phi(<<1, 2>>, <<v, Res(11)>>)) :
     v \in {Arg, Const(1)}}

Callers ==
  \* one call after the other, in a block that branches
  {AFunction(<<1, 2, 3>>,
            1 :> Block(<<11, 12, 13>>, Branch(Res(t), 2, 3))
            @@ 2 :> Block(<<14>>, Jump(3))
            @@ 3 :> Block(<<15, 16>>, Ret(Res(15))),
            11 :> Pure("xor", Arg, Const(1)) @@ 12 :> Invoke(1, Res(11)) @@ 13 :> Invoke(1, a)
            @@ 14 :> Call(Res(12)) @@ 15 :> Phi(<<1, 2>>, <<Res(13), Res(14)>>)
            @@ 16 :> Store(Res(15), Root(30))) :
     a \in {Res(12), Arg}, t \in {11, 13}}
  \cup \* a call in a loop of one block
  {AFunction(<<1, 2, 3>>,
            1 :> Block(<<>>, Jump(2))
            @@ 2 :> Block(<<11, 12, 13>>, Branch(Res(13), 3, 2))
            @@ 3 :> Block(<<>>, Ret(Res(12))),
            11 :> Phi(<<1, 2>>, <<Arg, Res(12)>>) @@ 12 :> Invoke(1, Res(11))
            @@ 13 :> Pure("ult", a, Res(12))) :
     a \in {Res(11), Const(0)}}

\* 1 -> 2 <-> 2: it never returns.
Endless ==
  {AFunction(<<1, 2>>, 1 :> Block(<<11>>, Jump(2)) @@ 2 :> Block(<<12>>, Jump(2)),
            11 :> Store(Arg, Root(20)) @@ 12 :> i) :
     i \in {Call(Arg), Load(Root(20))}}

\* A result that nobody computes is used by nobody.
Fits(callee, caller) == (\A b \in Blocks(callee) : callee.block[b].term.to = <<>> => callee.block[b].term = Ret(NoValue)) =>
  \A k \in DOMAIN caller.inst : caller.inst[k].op = "invoke" => Unused(caller, k)

Quiet ==
  AFunction(<<1, 2>>, 1 :> Block(<<11, 12>>, Jump(2)) @@ 2 :> Block(<<13>>, Ret(Arg)),
           11 :> Invoke(1, Arg) @@ 12 :> Store(Arg, Root(21)) @@ 13 :> Invoke(1, Const(1)))

\* The call in one arm, its result unused.
Guarded ==
  AFunction(<<1, 2, 3>>,
           1 :> Block(<<11>>, Branch(Arg, 2, 3)) @@ 2 :> Block(<<12>>, Jump(3)) @@ 3 :> Block(<<13, 14>>, Ret(Res(13))),
           11 :> Pure("xor", Arg, Const(1)) @@ 12 :> Invoke(1, Arg)
           @@ 13 :> Phi(<<1, 2>>, <<Const(1), Res(11)>>) @@ 14 :> Store(Res(13), Root(30)))

\* The order in which the blocks of a function first stand: every value is
\* computed in an earlier block than the one that returns it.
ReturnsLate(f) ==
  \A b \in Blocks(f) : LET t == f.block[b].term IN
    (t.to = <<>> /\ IsInst(t.on)) =>
      \E m, n \in DOMAIN f.order : m <= n /\ f.order[n] = b /\ f.order[m] = HomeOf(f, t.on[2])

Pairs == {<<f, g>> : f \in {h \in TwoArms \cup Looping \cup Recursive \cup Endless : ReturnsLate(h)}, g \in Callers \cup {Quiet, Guarded}}
Fitting == {p \in Pairs : Fits(p[1], p[2])}

\* Three functions: the second calls the first before it branches and returns
\* the result after it, the third calls the second.
Chain ==
  {<<f,
     AFunction(<<1, 2, 3>>,
              1 :> Block(<<11>>, Branch(Arg, 2, 3))
              @@ 2 :> Block(<<12>>, Jump(3)) @@ 3 :> Block(<<>>, Ret(Res(11))),
              11 :> Invoke(1, Arg) @@ 12 :> Store(Arg, Root(20))),
     AFunction(<<1>>, 1 :> Block(<<11, 12>>, Ret(Const(0))),
              11 :> Invoke(2, Const(1)) @@ 12 :> Call(Res(11)))>> :
     f \in TwoArms}


-----------------------------------------------------------------------------
(* Call graphs: of four functions with at most two callees each and five in  *)
(* all, calls of oneself included.  They are closed under renaming, so one   *)
(* order of the keys stands for all.                                         *)
CallGraphs == {g \in [Functions -> {S \in SUBSET Functions : Cardinality(S) <= 2}] :
                 FoldFunction(LAMBDA S, n : n + Cardinality(S), 0, g) <= 5}
InTurn     == {SetToSortSeq(Functions, <)}

-----------------------------------------------------------------------------
Numbering == INSTANCE GVN WITH Programs <- RepeatedInArms \cup RepeatedInLoops
Memory    == INSTANCE LocalMemory WITH Programs <- Accesses
Motion    == INSTANCE LICM WITH
               Programs <- Entered \cup Nested \cup OneBlock \cup {P \in Continued : ~StoresToLoaded(P)}
Simplify  == INSTANCE CFGSimplify WITH Programs <- ChoosingTwice \cup ChoosingLoops
Inliner   == INSTANCE Inline WITH Programs <- Fitting
Ordering  == INSTANCE CallGraph WITH
               Graphs <- CallGraphs, Orders <- InTurn, calls <- callees, visited <- entered

WithoutNumbering ==
  /\ blocks = <<>> /\ pass = <<>> /\ seen = <<>> /\ lastStore = <<>>
  /\ lastLoad = <<>> /\ loops = <<>> /\ loop = <<>> /\ value = <<>>
  /\ cfgWork = <<>> /\ instWork = <<>> /\ visited = <<>> /\ phis = <<>>
  /\ work = <<>> /\ mergeable = <<>> /\ funcs = <<>> /\ at = <<>>
  /\ found = <<>> /\ calls = <<>> /\ copy = <<>> /\ callees = <<>>
  /\ phase = <<>> /\ starts = <<>> /\ entered = <<>> /\ stack = <<>>
  /\ trees = <<>> /\ sccs = <<>> /\ degrees = <<>> /\ ready = <<>>
  /\ order = <<>>
WithoutMemory ==
  /\ scope = <<>> /\ tables = <<>> /\ done = <<>> /\ loops = <<>>
  /\ loop = <<>> /\ value = <<>> /\ cfgWork = <<>> /\ instWork = <<>>
  /\ visited = <<>> /\ phis = <<>> /\ work = <<>> /\ mergeable = <<>>
  /\ funcs = <<>> /\ at = <<>> /\ found = <<>> /\ calls = <<>> /\ copy = <<>>
  /\ callees = <<>> /\ phase = <<>> /\ starts = <<>> /\ entered = <<>>
  /\ stack = <<>> /\ trees = <<>> /\ sccs = <<>> /\ degrees = <<>>
  /\ ready = <<>> /\ order = <<>>
WithoutMotion ==
  /\ scope = <<>> /\ tables = <<>> /\ block = <<>> /\ todo = <<>>
  /\ removed = <<>> /\ done = <<>> /\ blocks = <<>> /\ seen = <<>>
  /\ lastStore = <<>> /\ lastLoad = <<>> /\ value = <<>> /\ cfgWork = <<>>
  /\ instWork = <<>> /\ visited = <<>> /\ phis = <<>> /\ work = <<>>
  /\ mergeable = <<>> /\ funcs = <<>> /\ at = <<>> /\ found = <<>>
  /\ calls = <<>> /\ copy = <<>> /\ callees = <<>> /\ phase = <<>>
  /\ starts = <<>> /\ entered = <<>> /\ stack = <<>> /\ trees = <<>>
  /\ sccs = <<>> /\ degrees = <<>> /\ ready = <<>> /\ order = <<>>
WithoutSimplify ==
  /\ scope = <<>> /\ tables = <<>> /\ block = <<>> /\ removed = <<>>
  /\ done = <<>> /\ blocks = <<>> /\ seen = <<>> /\ lastStore = <<>>
  /\ lastLoad = <<>> /\ loops = <<>> /\ loop = <<>> /\ funcs = <<>>
  /\ at = <<>> /\ found = <<>> /\ calls = <<>> /\ copy = <<>>
  /\ callees = <<>> /\ phase = <<>> /\ starts = <<>> /\ entered = <<>>
  /\ stack = <<>> /\ trees = <<>> /\ sccs = <<>> /\ degrees = <<>>
  /\ ready = <<>> /\ order = <<>>
WithoutInliner ==
  /\ prog = <<>> /\ scope = <<>> /\ tables = <<>> /\ block = <<>>
  /\ todo = <<>> /\ removed = <<>> /\ done = <<>> /\ blocks = <<>>
  /\ pass = <<>> /\ seen = <<>> /\ lastStore = <<>> /\ lastLoad = <<>>
  /\ loops = <<>> /\ loop = <<>> /\ value = <<>> /\ cfgWork = <<>>
  /\ instWork = <<>> /\ visited = <<>> /\ phis = <<>> /\ work = <<>>
  /\ mergeable = <<>> /\ callees = <<>> /\ phase = <<>> /\ starts = <<>>
  /\ entered = <<>> /\ stack = <<>> /\ trees = <<>> /\ sccs = <<>>
  /\ degrees = <<>> /\ ready = <<>> /\ order = <<>>
WithoutCallers ==
  /\ source = <<>> /\ prog = <<>> /\ scope = <<>> /\ tables = <<>>
  /\ block = <<>> /\ todo = <<>> /\ removed = <<>> /\ done = <<>>
  /\ blocks = <<>> /\ pass = <<>> /\ seen = <<>> /\ lastStore = <<>>
  /\ lastLoad = <<>> /\ loops = <<>> /\ loop = <<>> /\ value = <<>>
  /\ cfgWork = <<>> /\ instWork = <<>> /\ visited = <<>> /\ phis = <<>>
  /\ work = <<>> /\ mergeable = <<>> /\ funcs = <<>> /\ at = <<>>
  /\ found = <<>> /\ calls = <<>> /\ copy = <<>>

OptInit ==
  \/ opt = "gvn" /\ Numbering!Init /\ WithoutNumbering
  \/ opt = "memory" /\ Memory!Init /\ WithoutMemory
  \/ opt = "licm" /\ Motion!Init /\ WithoutMotion
  \/ opt = "simplify" /\ Simplify!StartWithReturns /\ WithoutSimplify
  \/ opt = "inline" /\ Inliner!Init /\ WithoutInliner
  \/ opt = "callgraph" /\ Ordering!Init /\ WithoutCallers

OptNext ==
  \/ /\ opt = "gvn" /\ Numbering!Next
     /\ UNCHANGED <<opt, blocks, pass, seen, lastStore, lastLoad, loops, loop, value, cfgWork,
                      instWork, visited, phis, work, mergeable, funcs, at, found, calls, copy,
                      callees, phase, starts, entered, stack, trees, sccs, degrees, ready, order>>
  \/ /\ opt = "memory" /\ Memory!Next
     /\ UNCHANGED <<opt, scope, tables, done, loops, loop, value, cfgWork, instWork, visited,
                      phis, work, mergeable, funcs, at, found, calls, copy, callees, phase,
                      starts, entered, stack, trees, sccs, degrees, ready, order>>
  \/ /\ opt = "licm" /\ Motion!Next
     /\ UNCHANGED <<opt, scope, tables, block, todo, removed, done, blocks, seen, lastStore,
                      lastLoad, value, cfgWork, instWork, visited, phis, work, mergeable, funcs,
                      at, found, calls, copy, callees, phase, starts, entered, stack, trees,
                      sccs, degrees, ready, order>>
  \/ /\ opt = "simplify" /\ Simplify!Next
     /\ UNCHANGED <<opt, scope, tables, block, removed, done, blocks, seen, lastStore, lastLoad,
                      loops, loop, funcs, at, found, calls, copy, callees, phase, starts,
                      entered, stack, trees, sccs, degrees, ready, order>>
  \/ /\ opt = "inline" /\ Inliner!Next
     /\ UNCHANGED <<opt, prog, scope, tables, block, todo, removed, done, blocks, pass, seen,
                      lastStore, lastLoad, loops, loop, value, cfgWork, instWork, visited, phis,
                      work, mergeable, callees, phase, starts, entered, stack, trees, sccs,
                      degrees, ready, order>>
  \/ /\ opt = "callgraph" /\ Ordering!Next
     /\ UNCHANGED <<opt, source, prog, scope, tables, block, todo, removed, done, blocks, pass,
                      seen, lastStore, lastLoad, loops, loop, value, cfgWork, instWork, visited,
                      phis, work, mergeable, funcs, at, found, calls, copy>>

\* One thread runs the passes; nothing else can run.
MaySpin == opt \in {"licm", "simplify", "inline", "callgraph"} /\ OptNext
OptSpec == OptInit /\ [][OptNext]_allVars /\ WF_allVars(MaySpin)

\* The same of one pass, on the functions the others leave out.
ContinuedMotion == INSTANCE LICM WITH Programs <- {P \in Continued : StoresToLoaded(P)}
ContinueSpec    == /\ opt = "licm" /\ ContinuedMotion!Init /\ WithoutMotion
                   /\ [][OptNext]_allVars
ChainInliner    == INSTANCE Inline WITH Programs <- Chain
ChainSpec       == /\ opt = "inline" /\ ChainInliner!Init /\ WithoutInliner
                   /\ [][OptNext]_allVars

-----------------------------------------------------------------------------
\* Between two steps of a pass every operand is computed on every path to
\* where it is read and phis match the edges into their block; a call is erased
\* when nothing uses it, and a block is merged when it has no phi (assertions of
\* erase_inst_from_parent and block_merge).
StaysWellFormed ==
  /\ opt = "gvn"      => Numbering!TypeOK /\ Numbering!StaysWellFormed
  /\ opt = "memory"   => Memory!TypeOK /\ Memory!StaysWellFormed
  /\ opt = "licm"     => Motion!TypeOK /\ Motion!StaysWellFormed
  /\ opt = "simplify" => Simplify!TypeOK /\ Simplify!MergedHasNoPhi
  /\ opt = "inline"   => Inliner!TypeOK /\ Inliner!StaysWellFormed /\ Inliner!ErasedUnused /\ Inliner!NoPlaceholderLeft

\* A function shows the same calls, memory and result after a pass as before it.
EffectsKept ==
  /\ opt = "gvn"      => Numbering!EffectsKept
  /\ opt = "memory"   => Memory!MemoryKept
  /\ opt = "licm"     => Motion!EffectsKept
  /\ opt = "simplify" => Simplify!EffectsKept /\ Simplify!CleanAndKept
  /\ opt = "inline"   => Inliner!EffectsKept

\* Constant propagation has visited whatever runs, and knows what is computed
\* there: as overdefined, or as the one constant it is in every round of a loop.
RunsAreVisited == opt = "simplify" => Simplify!RunsAreVisited

\* A pass leaves nothing behind that it is there to remove.
NothingLeft ==
  /\ opt = "gvn"      => Numbering!NothingRepeated
  /\ opt = "memory"   => Memory!NothingReloaded
  /\ opt = "simplify" => Simplify!FullyMerged

\* Components of the call graph are found exactly and placed callers first:
\* read backwards, a function is finished before it is inlined, and a component
\* waits for its callers and for nothing else (function_inline).
CalleesFirst ==
  opt = "callgraph" =>
    /\ Ordering!TypeOK
    /\ Ordering!SccsExact /\ Ordering!ReadyExact /\ Ordering!CalleesFirst

\* Code motion, propagation, inlining and the ordering come to an end.
Ends ==
  <>(\/ opt \in {"gvn", "memory"}
     \/ opt \in {"licm", "simplify"} /\ pass = "done"
     \/ opt = "inline" /\ Inliner!AllDone
     \/ opt = "callgraph" /\ phase = "done" /\ Len(order) = Len(sccs))

\* No placeholder of the inlining outlives the copying of its function.
NoPlaceholderLeft == opt = "inline" => Inliner!NoPlaceholderLeft
=============================================================================
