------------------------------- MODULE IRGen -------------------------------
(***************************************************************************)
(* The generator that writes the code of an analyzed function body, one    *)
(* expression at a time at the end of the current block, and what that     *)
(* code does when it runs.                                                 *)
(*                                                                         *)
(* Code is a sequence of blocks, each its instructions <<op, to, args>>    *)
(* and the terminators written to it; a value is a constant, the address   *)
(* of an alloca, or what an instruction put into a temporary.  The         *)
(* function is an ordinary one whose result is returned as a value: main   *)
(* (its bare return gives 0, and exit returns from it) and a result stored *)
(* behind an sret pointer are left out.                                    *)
(***************************************************************************)
EXTENDS Analyzer

CONSTANT MaxSteps     \* blocks a run of the code may enter
LOCAL INSTANCE SequencesExt

(* A container: a value at hand, a value of some type behind a pointer, or *)
(* no value.                                                               *)
None == [at |-> "none", v |-> Unit, ty |-> VoidTy]
Raw(v) == [at |-> "raw", v |-> v, ty |-> Number]
PtrTo(p, ty) == [at |-> "ptr", v |-> p, ty |-> ty]
Slot(k) == <<"s", k, TRUE, 0>>
NonVoid(box) == IF box.v = Unit THEN None ELSE box

(* The generator: the code, the block it writes to, the temporaries and    *)
(* allocas it used, and where the variables in scope are kept.             *)
NewBlock == [insts |-> <<>>, term |-> <<>>]
Builder == [code |-> <<NewBlock>>, cur |-> 1, temps |-> 0, slots |-> 0, env |-> <<>>]
Emit(st, op, to, args) == [st EXCEPT !.code[st.cur].insts = Append(@, <<op, to, args>>)]
End(st, term) == [st EXCEPT !.code[st.cur].term = Append(@, term)]
\* Mutant of EndUnless.
EndAlways(stop, st, term) == End(st, term)
EndUnless(stop, st, term) == IF stop = "not" THEN End(st, term) ELSE st
Locate(st, b) == [st EXCEPT !.cur = b]
Blocks(st, n) == [st EXCEPT !.code = @ \o [i \in 1..n |-> NewBlock]]
Top(st) == Len(st.code)
Alloca(st) == [st EXCEPT !.slots = @ + 1]
LastSlot(st) == Slot(st.slots)

\* Every helper gives the new state of the builder and a value or a container.
Pair(st, v) == [st |-> st, v |-> v]
Build(st, op, args) ==
  LET t == <<"t", st.temps + 1>> IN Pair(Emit([st EXCEPT !.temps = @ + 1], op, t, args), t)
RawOf(st, box) == IF box.at = "ptr" THEN Build(st, "load", <<box.v>>) ELSE Pair(st, box.v)
PtrOf(st, box) ==
  IF box.at = "ptr" THEN Pair(st, box.v)
  ELSE LET a == Alloca(st) IN Pair(Emit(a, "store", LastSlot(a), <<box.v>>), LastSlot(a))
Presented(st, box) ==    \* a pair stays where it is
  IF box.at = "ptr" /\ box.ty = PairTy THEN Pair(st, box)
  ELSE LET r == RawOf(st, box) IN Pair(r.st, Raw(r.v))
StoreTo(st, dest, box) ==
  IF box.at = "ptr" THEN Emit(st, "copy", dest, <<box.v, box.ty>>) ELSE Emit(st, "store", dest, <<box.v>>)

RECURSIVE PresentAll(_, _, _)
PresentAll(st, boxes, vals) ==
  IF boxes = <<>> THEN Pair(st, vals)
  ELSE LET r == Presented(st, Head(boxes)) IN PresentAll(r.st, Tail(boxes), Append(vals, r.v.v))

(* What visiting an expression leaves: its value, what the table of values *)
(* holds for its node, and what is found there for a branch that ends in   *)
(* it. They differ for blocks, which have no entry of their own.           *)
Res(st, v, entry) == [st |-> st, v |-> v, entry |-> entry, branch |-> entry]
Nothing(st) == Res(st, None, None)
Same(st, box) == Res(st, box, box)
Need(r, F(_)) == IF r.v = None THEN Nothing(r.st) ELSE F(r)

\* Assigning to it twice does nothing more than assigning once.
RECURSIVE Pure(_)
Pure(e) == CASE e[1] \in {"var", "hole", "int", "bool"} -> TRUE
             [] e[1] \in {"deref", "not", "paren", "field"} -> Pure(e[2])
             [] e[1] = "addr" -> Pure(e[3])
             [] e[1] \in {"add", "eq", "and", "or", "tup"} -> Pure(e[2]) /\ Pure(e[3])
             [] e[1] = "unit" -> TRUE
             [] OTHER -> FALSE

\* A variable bound to a temporary takes its place, any other is copied.
Bind(st, x, p, ty) == [st EXCEPT !.env = (x :> [at |-> p, ty |-> ty]) @@ @]
\* Mutant of Bound.
BoundInPlace(st, x, box, ty, temp) == LET p == PtrOf(st, box) IN Bind(p.st, x, p.v, ty)
Bound(st, x, box, ty, temp) ==
  LET p == PtrOf(st, box)
      a == Alloca(st)
  IN IF temp THEN Bind(p.st, x, p.v, ty)
     ELSE Bind(StoreTo(a, LastSlot(a), box), x, LastSlot(a), ty)

\* The i-th number of the pair at p; and the pair that references lead to.
Part(st, p, i) == Build(st, "gep", <<p, Num(i)>>)
RECURSIVE Deref(_, _, _)
Deref(st, box, ty) ==
  LET raw == RawOf(st, box)
      inner == Build(raw.st, "load", <<raw.v>>)
  IN CASE ty[1] # "ref" -> Pair(st, box)
       [] ty[3][1] # "ref" -> Pair(raw.st, PtrTo(raw.v, ty[3]))
       [] OTHER -> Deref(inner.st, PtrTo(inner.v, ty[3]), ty[3])

Phi(st, ins, box) == LET r == Build(st, "phi", ins) IN Same(r.st, [box EXCEPT !.v = r.v])
NoCycle == [again |-> 0, next |-> 0, into |-> Unit]

RECURSIVE Gen(_, _, _), GenAll(_, _, _, _), GenStmts(_, _, _, _, _), Destruct(_, _, _, _), If(_, _, _),
          Logic(_, _, _), Assign(_, _, _), AssignOp(_, _, _), While(_, _, _), Loop(_, _, _), Ret(_, _, _)

GenAll(es, cycle, st, boxes) ==
  IF es = <<>> THEN Pair(st, boxes)
  ELSE LET r == Gen(Head(es), cycle, st)
       IN IF r.v = None THEN Pair(r.st, <<>>) ELSE GenAll(Tail(es), cycle, r.st, Append(boxes, r.v))

(* Assigning to an expression: it is visited for where it is. The value of *)
(* the pair says whether there was a place.                                *)
Destruct(left, cycle, st, box) ==
  LET val == Presented(st, box)
      place == Gen(left, cycle, val.st)
      p == PtrOf(place.st, place.v)
  IN CASE left[1] \in {"hole", "unit"} -> Pair(val.st, TRUE)
       [] left[1] = "paren" -> Destruct(left[2], cycle, val.st, val.v)
       [] left[1] = "tup" ->
            LET one == Part(val.st, val.v.v, 1)
                first == Destruct(left[2], cycle, one.st, PtrTo(one.v, Number))
                two == Part(first.st, val.v.v, 2)
            IN IF first.v THEN Destruct(left[3], cycle, two.st, PtrTo(two.v, Number)) ELSE first
       [] OTHER -> IF place.v = None THEN Pair(place.st, FALSE) ELSE Pair(StoreTo(p.st, p.v, val.v), TRUE)

(* Statements, up to the first that control does not come out of. The      *)
(* value is that of the last that has one.                                 *)
GenStmts(stmts, cycle, st, v, branch) ==
  IF stmts = <<>> THEN [st |-> st, v |-> v, entry |-> None, branch |-> branch]
  ELSE LET s == Head(stmts)
           r == IF s[1] = "empty" THEN Nothing(st) ELSE Gen(SubsOf(s)[1], cycle, st)
           after == IF s[1] = "let" /\ r.v # None
                    THEN Bound(r.st, s[2], r.v, TypeOf(s[4], st.env), IsValue(s[4]))
                    ELSE r.st
           isExpr == s[1] = "expr"
       IN IF Interrupt(s) # "not" THEN Nothing(after)
          ELSE GenStmts(Tail(stmts), cycle, after, IF isExpr /\ r.v # None THEN r.v ELSE v,
                        IF isExpr /\ r.entry # None THEN r.entry ELSE branch)

Logic(e, cycle, st) ==
  LET After(l) ==
        LET raw == RawOf(l.st, l.v)
            cur == raw.st.cur
            two == Blocks(raw.st, 2)
            right == Top(raw.st) + 1
            next == right + 1
            split == EndUnless(Interrupt(e[2]), two,
                               IF e[1] = "and" THEN <<"cond", raw.v, right, next>> ELSE <<"cond", raw.v, next, right>>)
            Join(r) ==
              LET raw2 == RawOf(r.st, r.v)
                  done == EndUnless(Interrupt(e[3]), raw2.st, <<"br", next>>)
              IN Phi(Locate(done, next), <<<<raw.v, cur>>, <<raw2.v, raw2.st.cur>>>>, Raw(raw.v))
        IN Need(Gen(e[3], cycle, Locate(split, right)), Join)
  IN Need(Gen(e[2], cycle, st), After)

Assign(e, cycle, st) ==
  LET After(r) ==
        LET skip == r.branch.at = "raw" /\ r.v = r.branch /\ Pure(e[2])
            first == Destruct(e[2], cycle, r.st, r.v)
        IN Nothing(IF first.v /\ r.branch # None /\ ~skip
                   THEN Destruct(e[2], cycle, first.st, r.branch).st ELSE first.st)
  IN Need(Gen(e[3], cycle, st), After)

AssignOp(e, cycle, st) ==
  LET Right(l) ==
        LET Add(r) == LET a == RawOf(r.st, l.v)
                          b == RawOf(a.st, r.v)
                          sum == Build(b.st, "add", <<a.v, b.v>>)
                          p == PtrOf(sum.st, l.v)
                      IN Nothing(StoreTo(p.st, p.v, Raw(sum.v)))
        IN Need(Gen(e[3], cycle, l.st), Add)
  IN Need(Gen(e[2], cycle, st), Right)

\* The branches of an if: the taken one is written first, the condition is
\* ended behind it; where they join, a phi has the values of those that have one.
Incoming(r, at) == <<IF r.v = None THEN None ELSE NonVoid(at.v), at.st.cur>>
IfJoined(e, next, taken, else) ==
  LET at == Presented(else.st, else.v)
      joined == Locate(EndUnless(Interrupt(e[4]), at.st, <<"br", next>>), next)
      out == IF Interrupt(e) # "not" THEN End(joined, <<"unreachable">>) ELSE joined
      HasValue(in) == in[1] # None
      phi == SelectSeq(<<taken, Incoming(else, at)>>, HasValue)
  IN IF phi = <<>> THEN Nothing(out)
     ELSE Phi(out, [i \in DOMAIN phi |-> <<phi[i][1].v, phi[i][2]>>], phi[1][1])
IfTaken(e, cycle, cond, body) ==
  LET took == Presented(body.st, body.v)
      other == Top(took.st) + 1
      Split(n) ==    \* n blocks follow, the last of them behind the if
        LET ended == EndUnless(Interrupt(e[3]), Blocks(took.st, n), <<"br", other + n - 1>>)
        IN Locate(EndUnless(Interrupt(e[2]), Locate(ended, cond.st.cur),
                            <<"cond", cond.v, Top(cond.st) + 1, other>>), other)
  IN IF e[4] = Absent THEN Nothing(Split(1))
     ELSE IfJoined(e, other + 1, Incoming(body, took), Gen(e[4], cycle, Split(2)))
If(e, cycle, st) ==
  LET After(c) ==
        LET cond == RawOf(c.st, c.v)
        IN IfTaken(e, cycle, cond, Gen(e[3], cycle, Locate(Blocks(cond.st, 1), Top(cond.st) + 1)))
  IN Need(Gen(e[2], cycle, st), After)

\* debug_assert!(body_value.is_none()): where it fails, the code is not reached.
NoBodyValue(body) == IF body.v = None THEN body.st ELSE End(body.st, <<"unreachable">>)

While(e, cycle, st) ==
  LET cond == Top(st) + 1
      next == cond + 2
      start == Locate(End(Blocks(st, 3), <<"br", cond>>), cond)
      Body(c) ==
        LET raw == RawOf(c.st, c.v)
            split == EndUnless(Interrupt(e[2]), raw.st, <<"cond", raw.v, cond + 1, next>>)
            body == Gen(e[3], [again |-> cond, next |-> next, into |-> Unit], Locate(split, cond + 1))
        IN Nothing(Locate(EndUnless(Interrupt(e[3]), NoBodyValue(body), <<"br", cond>>), next))
  IN Need(Gen(e[2], cycle, start), Body)

\* What breaks out of a loop with a value goes through an alloca of its
\* first-class type, which for a pair is that of a pointer.
Loop(e, cycle, st) ==
  LET again == Top(st) + 1
      next == again + 1
      gives == Gives(e, st.env)
      two == IF gives THEN Alloca(Blocks(st, 2)) ELSE Blocks(st, 2)
      into == IF gives THEN LastSlot(two) ELSE Unit
      body == Gen(e[2], [again |-> again, next |-> next, into |-> into], Locate(End(two, <<"br", again>>), again))
      out == Locate(EndUnless(Interrupt(e[2]), body.st, <<"br", again>>), next)
      val == Build(out, "load", <<into>>)
  IN IF gives THEN Same(val.st, Raw(val.v))
     ELSE Nothing(IF Interrupt(e) # "not" THEN End(out, <<"unreachable">>) ELSE out)

Break(e, cycle, st) ==
  LET r == IF e[2] = Absent THEN Nothing(st) ELSE Gen(e[2], cycle, st)
      stored == IF r.v # None /\ cycle.into # Unit THEN StoreTo(r.st, cycle.into, r.v) ELSE r.st
  IN Nothing(EndUnless(Merged(SubsOf(e)), stored, <<"br", cycle.next>>))

Ret(e, cycle, st) ==
  LET Value(r) == LET raw == RawOf(r.st, r.v) IN Nothing(End(raw.st, <<"ret", raw.v>>))
  IN IF e[2] = Absent THEN Nothing(End(st, <<"ret", Unit>>)) ELSE Need(Gen(e[2], cycle, st), Value)

Gen(e, cycle, st) ==
  LET k == e[1]
      Sub(i, F(_)) == Need(Gen(e[i], cycle, st), F)
      Two(F(_, _, _)) ==   \* the left is loaded before the right is visited
        LET Left(l) == LET a == RawOf(l.st, l.v)
                           Right(r) == LET b == RawOf(r.st, r.v) IN F(b.st, a.v, b.v)
                       IN Need(Gen(e[3], cycle, a.st), Right)
        IN Sub(2, Left)
  IN CASE k = "int" -> Same(st, Raw(Num(e[2])))
       [] k = "bool" -> Same(st, Raw(Truth(e[2])))
       [] k \in {"unit", "hole"} -> Nothing(st)
       [] k = "var" -> Same(st, PtrTo(st.env[e[2]].at, st.env[e[2]].ty))
       [] k = "paren" -> LET r == Gen(e[2], cycle, st) IN Res(r.st, r.v, r.branch)
       [] k = "deref" -> LET F(r) == LET raw == RawOf(r.st, r.v) IN Same(raw.st, PtrTo(raw.v, TypeOf(e, st.env))) IN Sub(2, F)
       [] k = "not" -> LET F(r) == LET raw == RawOf(r.st, r.v)
                                       t == Build(raw.st, "not", <<raw.v>>)
                                   IN Same(t.st, Raw(t.v))
                       IN Sub(2, F)
       [] k = "addr" ->   \* one address for the table and one for the value
            LET F(r) == LET own == IF r.branch = None THEN Pair(r.st, Unit) ELSE PtrOf(r.st, r.branch)
                            p == PtrOf(own.st, r.v)
                        IN Res(p.st, Raw(p.v), IF r.branch = None THEN None ELSE Raw(own.v))
            IN Sub(3, F)
       [] k \in {"add", "eq"} -> LET F(s, a, b) == LET t == Build(s, k, <<a, b>>) IN Same(t.st, Raw(t.v)) IN Two(F)
       [] k = "tup" ->
            LET a == Alloca(st)
                p == LastSlot(a)
                Kept(i, r) == LET g == Part(r.st, p, i) IN StoreTo(g.st, g.v, r.v)
                Second(r) == Same(Kept(2, r), PtrTo(p, PairTy))
                First(r) == Need(Gen(e[3], cycle, Kept(1, r)), Second)
            IN Need(Gen(e[2], cycle, a), First)
       [] k = "field" -> LET F(r) == LET d == Deref(r.st, r.v, TypeOf(e[2], st.env))
                                         g == Part(d.st, d.v.v, e[3])
                                     IN Same(g.st, PtrTo(g.v, Number))
                         IN Sub(2, F)
       [] k \in {"and", "or"} -> Logic(e, cycle, st)
       [] k = "assign" -> Assign(e, cycle, st)
       [] k = "addassign" -> AssignOp(e, cycle, st)
       [] k = "call" ->
            LET args == GenAll(e[3], cycle, st, <<>>)
                vals == PresentAll(args.st, args.v, <<>>)
                r == Build(vals.st, "call", <<e[2], vals.v>>)
            IN IF Len(args.v) # Len(e[3]) THEN Nothing(args.st)
               ELSE IF e[2] = "ask" THEN Same(r.st, Raw(r.v)) ELSE Same(r.st, Raw(Unit))
       [] k = "block" -> LET r == GenStmts(e[2], cycle, st, None, None) IN [r EXCEPT !.st.env = st.env]
       [] k = "if" -> If(e, cycle, st)
       [] k = "while" -> While(e, cycle, st)
       [] k = "loop" -> Loop(e, cycle, st)
       [] k = "break" -> Break(e, cycle, st)
       [] k = "continue" -> Nothing(End(st, <<"br", cycle.again>>))
       [] k = "ret" -> Ret(e, cycle, st)

\* A function: its argument is copied, the value of its body returned.
Param == <<"t", 0>>
Returned(body, r) ==
  LET raw == RawOf(r.st, r.v)
  IN IF r.v # None THEN End(raw.st, <<"ret", raw.v>>)
     ELSE EndUnless(Interrupt(body), r.st, <<"ret", Unit>>)
Generated(body) == Returned(body, Gen(body, NoCycle, Bound(Builder, "p", Raw(Param), Number, FALSE))).code

-----------------------------------------------------------------------------
(* Running the code. It is stuck where it has no way on: a block with no   *)
(* end or two, one that says it is not reached, a phi that does not know   *)
(* where control came from, a load of what was never stored.               *)
Val(m, v) == IF v[1] = "t" THEN m.regs[v[2]] ELSE v
SetReg(m, t, v) == [m EXCEPT !.regs = (t[2] :> v) @@ @]
IsAddress(v) == v[1] = "s"
\* Memory holds a number or an address in every place <<slot, part>>; part 0
\* is where the first part is.
Cell(p) == <<p[2], IF p[4] = 0 THEN 1 ELSE p[4]>>
Kept(m, p, v) == IF IsAddress(p) THEN [m EXCEPT !.mem = (Cell(p) :> v) @@ @] ELSE Leave(m, "stuck")
Loaded(m, p) == IsAddress(p) /\ Cell(p) \in DOMAIN m.mem
Copied(m, to, from, ty) ==
  LET Second(n) == Kept(n, [to EXCEPT ![4] = 2], n.mem[<<from[2], 2>>])
      first == Kept(m, to, m.mem[Cell(from)])
  IN IF ~Loaded(m, from) THEN Leave(m, "stuck") ELSE IF ty = PairTy THEN Then(first, Second) ELSE first

Do(i, from, m) ==
  LET op == i[1]
      a == [n \in DOMAIN i[3] |-> IF op \in {"phi", "call"} THEN Unit ELSE Val(m, i[3][n])]
      ins == {n \in DOMAIN i[3] : op = "phi" /\ i[3][n][2] = from}
      to == Val(m, i[2])
  IN CASE op = "load" -> IF Loaded(m, a[1]) THEN SetReg(m, i[2], m.mem[Cell(a[1])]) ELSE Leave(m, "stuck")
       [] op = "gep" -> IF IsAddress(a[1]) THEN SetReg(m, i[2], [a[1] EXCEPT ![4] = a[2][2]]) ELSE Leave(m, "stuck")
       [] op = "store" -> Kept(m, to, a[1])
       [] op = "copy" -> Copied(m, to, a[1], a[2])
       [] op = "add" -> SetReg(m, i[2], Num(a[1][2] + a[2][2]))
       [] op = "eq" -> SetReg(m, i[2], Truth(a[1] = a[2]))
       [] op = "not" -> SetReg(m, i[2], Truth(a[1] = Truth(FALSE)))
       [] op = "phi" -> IF ins = {} THEN Leave(m, "stuck")
                        ELSE SetReg(m, i[2], Val(m, i[3][CHOOSE n \in ins : TRUE][1]))
       [] op = "call" -> LET vals == [n \in DOMAIN i[3][2] |-> Val(m, i[3][2][n])]
                             F(n) == SetReg(n, i[2], n.val)
                         IN Then(Called(m, i[3][1], vals), F)

RECURSIVE DoAll(_, _, _), Enter(_, _, _, _)
DoAll(insts, from, m) == IF insts = <<>> \/ m.goes # "on" THEN m ELSE DoAll(Tail(insts), from, Do(Head(insts), from, m))
Enter(code, b, from, m0) ==
  LET m == DoAll(code[b].insts, from, [m0 EXCEPT !.rounds = @ - 1])
      t == code[b].term[1]
  IN IF m0.rounds = 0 THEN Leave(m0, "cut")
     ELSE IF m.goes # "on" THEN m
     ELSE IF Len(code[b].term) # 1 THEN Leave(m, "stuck")
     ELSE CASE t[1] = "br" -> Enter(code, t[2], b, m)
            [] t[1] = "cond" -> Enter(code, IF Val(m, t[2]) = Truth(TRUE) THEN t[3] ELSE t[4], b, m)
            [] t[1] = "ret" -> Leave(Give(m, Val(m, t[2])), "return")
            [] t[1] = "unreachable" -> Leave(m, "stuck")

Behaviour(code, arg, script) ==
  Outcome(Enter(code, 1, 0, [Fresh(script) EXCEPT !.rounds = MaxSteps]
                            @@ [regs |-> (0 :> Num(arg))]))

(* The blocks control can come to, from the first.                         *)
Nexts(code, b) == UNION {LET t == code[b].term[i]
                         IN CASE t[1] = "br" -> {t[2]} [] t[1] = "cond" -> {t[3], t[4]} [] OTHER -> {}
                         : i \in DOMAIN code[b].term}
RECURSIVE Reached(_, _)
Reached(code, S) == LET more == S \cup UNION {Nexts(code, b) : b \in S}
                    IN IF more = S THEN S ELSE Reached(code, more)
=============================================================================
