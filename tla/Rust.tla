-------------------------------- MODULE Rust --------------------------------
(***************************************************************************)
(* A small part of the language the compiler reads, and what a program of  *)
(* it means in Rust: the reference the generated code is compared with.    *)
(* Nothing here is the compiler's.                                         *)
(*                                                                         *)
(* An expression is a tuple that begins with its kind:                     *)
(*   <<"int", n>>  <<"bool", b>>  <<"unit">>  <<"var", x>>  <<"paren", e>> *)
(*   <<"not", e>>  <<"addr", mutbl, e>>  <<"deref", e>>                    *)
(*   <<"add", l, r>>  <<"eq", l, r>>  <<"and", l, r>>  <<"or", l, r>>      *)
(*   <<"assign", l, r>>  <<"addassign", l, r>>  <<"call", f, args>>        *)
(*   <<"block", stmts>>  <<"if", c, block, else>>  <<"while", c, block>>   *)
(*   <<"loop", block>>  <<"break", e>>  <<"continue">>  <<"ret", e>>       *)
(*   <<"tup", l, r>>  <<"field", e, i>>, pairs of numbers, i is 1 or 2     *)
(*   <<"hole">>, which is the _ that stands to the left of an assignment   *)
(* where else and e of break and ret may be <<"none">>, and a statement is *)
(*   <<"let", x, mutbl, e>>  <<"expr", e>>  <<"semi", e>>  <<"empty">>     *)
(* The functions are ask() -> bool, which reads the next of a script, and  *)
(* put and put2, which write one or two numbers.                           *)
(***************************************************************************)
EXTENDS Naturals, Sequences, TLC

CONSTANTS MaxRounds,   \* turns of loops until a run is cut off
          MaxEvents    \* what a run may read and write

Absent == <<"none">>
Num(n) == <<"c", n>>
\* The address of a cell, or of a number in the pair there, and whether one may write to it.
At(k, mutbl, i) == <<"s", k, mutbl, i>>
TwoOf(a, b) == <<"pair", a, b>>
Unit == <<"void", 0>>
Truth(b) == Num(IF b THEN 1 ELSE 0)

(* A run: what is in memory, what is left to be read, what was seen, how   *)
(* it goes on, and the value of what was evaluated last.                   *)
Fresh(script) == [mem |-> <<>>, script |-> script, trace |-> <<>>, rounds |-> MaxRounds,
                  goes |-> "on", val |-> Unit]
Then(m, F(_)) == IF m.goes = "on" THEN F(m) ELSE m
Give(m, v) == [m EXCEPT !.val = v]
Leave(m, how) == [m EXCEPT !.goes = how]
New(m, v, mutbl) == [m EXCEPT !.mem = Append(@, v), !.val = At(Len(m.mem) + 1, mutbl, 0)]
Reborrow(m, mutbl) == [m EXCEPT !.val[3] = mutbl /\ @]
Held(m, p) == IF p[4] = 0 THEN m.mem[p[2]] ELSE m.mem[p[2]][p[4] + 1]
RECURSIVE Followed(_, _)
Followed(m, p) == IF Held(m, p)[1] = "s" THEN Followed(m, Held(m, p)) ELSE p   \* through references
Written(m, p, v) ==
  IF ~p[3] THEN Leave(m, "immutable")
  ELSE Give(IF p[4] = 0 THEN [m EXCEPT !.mem[p[2]] = v] ELSE [m EXCEPT !.mem[p[2]][p[4] + 1] = v], Unit)
Seen(m, event) == IF Len(m.trace) = MaxEvents THEN Leave(m, "cut") ELSE [m EXCEPT !.trace = Append(@, event)]

Called(m, f, vals) ==
  IF f # "ask" THEN Give(Seen(m, <<f, vals>>), Unit)
  ELSE IF m.script = <<>> THEN Leave(m, "cut")
  ELSE Seen([m EXCEPT !.script = Tail(@), !.val = Truth(Head(m.script))], <<f, Head(m.script)>>)

RECURSIVE Bare(_)
Bare(e) == IF e[1] = "paren" THEN Bare(e[2]) ELSE e

RECURSIVE Eval(_, _, _), Place(_, _, _), Assigned(_, _, _, _), EvalAll(_, _, _, _), EvalStmts(_, _, _), Turn(_, _, _)

\* The address of a place, or of a temporary for the value of anything else.
Place(e, env, m) ==
  CASE e[1] = "var" -> Give(m, env[e[2]])
    [] e[1] = "deref" -> Eval(e[2], env, m)
    [] e[1] = "paren" -> Place(e[2], env, m)
    [] e[1] = "field" -> LET Part(n) == Give(n, [Followed(n, n.val) EXCEPT ![4] = e[3]])
                         IN Then(Place(e[2], env, m), Part)
    [] OTHER -> LET After(n) == New(n, n.val, TRUE) IN Then(Eval(e, env, m), After)

\* Assigning: the parts of a pair one after another.
Assigned(e, v, env, m) ==
  LET Store(n) == Written(n, n.val, v)
      Second(n) == Assigned(e[3], v[3], env, n)
  IN CASE e[1] \in {"hole", "unit"} -> Give(m, Unit)
       [] e[1] = "paren" -> Assigned(e[2], v, env, m)
       [] e[1] = "tup" -> Then(Assigned(e[2], v[2], env, m), Second)
       [] OTHER -> Then(Place(e, env, m), Store)

EvalAll(es, env, m, vals) ==
  IF es = <<>> THEN <<m, vals>>
  ELSE LET n == Eval(Head(es), env, m)
       IN IF n.goes = "on" THEN EvalAll(Tail(es), env, n, Append(vals, n.val)) ELSE <<n, vals>>

\* The value of a block is that of an expression it ends with.
EvalStmts(stmts, env, m) ==
  IF stmts = <<>> THEN Give(m, Unit)
  ELSE LET s == Head(stmts)
           more == Tail(stmts)
           Go(n) == EvalStmts(more, env, n)
       IN CASE s[1] = "empty" -> Go(m)
            [] s[1] = "let" ->
                 LET Bind(n) == LET k == New(n, n.val, s[3]) IN EvalStmts(more, (s[2] :> k.val) @@ env, k)
                 IN Then(Eval(s[4], env, m), Bind)
            [] s[1] = "expr" /\ more = <<>> -> Eval(s[2], env, m)
            [] OTHER -> Then(Eval(s[2], env, m), Go)

\* A turn of a loop: a while has a condition, a loop has none.
Turn(e, env, m) ==
  LET again(n) == Turn(e, env, n)
      Around(n) == IF n.goes = "break" THEN Leave(n, "on")
                   ELSE IF n.goes \in {"on", "continue"} THEN again(Leave(n, "on")) ELSE n
      Body(n) == Around(EvalStmts(e[Len(e)][2], env, n))
      Test(n) == IF n.val = Truth(TRUE) THEN Body(n) ELSE Give(n, Unit)
  IN IF m.rounds = 0 THEN Leave(m, "cut")
     ELSE LET n == [m EXCEPT !.rounds = @ - 1]
          IN IF e[1] = "while" THEN Then(Eval(e[2], env, n), Test) ELSE Body(n)

Eval(e, env, m) ==
  LET k == e[1]
      Sub(i, F(_)) == Then(Eval(e[i], env, m), F)
      Two(F(_, _)) == LET l == Eval(e[2], env, m)
                          Right(n) == F(n, l.val)
                          Both(n) == Then(Eval(e[3], env, n), Right)
                      IN Then(l, Both)
  IN CASE k = "int" -> Give(m, Num(e[2]))
       [] k = "bool" -> Give(m, Truth(e[2]))
       [] k = "unit" -> Give(m, Unit)
       [] k = "paren" -> Eval(e[2], env, m)
       [] k \in {"var", "deref", "field"} -> LET Load(n) == Give(n, Held(n, n.val)) IN Then(Place(e, env, m), Load)
       [] k = "addr" -> LET F(n) == Reborrow(n, e[2]) IN Then(Place(e[3], env, m), F)
       [] k = "not" -> LET F(n) == Give(n, Truth(n.val = Truth(FALSE))) IN Sub(2, F)
       [] k = "tup" -> LET F(n, v) == Give(n, TwoOf(v, n.val)) IN Two(F)
       [] k = "add" -> LET F(n, v) == Give(n, Num(v[2] + n.val[2])) IN Two(F)
       [] k = "eq" -> LET F(n, v) == Give(n, Truth(v = n.val)) IN Two(F)
       [] k \in {"and", "or"} ->
            LET F(n) == IF n.val = Truth(k = "or") THEN n ELSE Eval(e[3], env, n) IN Sub(2, F)
       [] k \in {"assign", "addassign"} ->   \* the right side first
            LET r == Eval(e[3], env, m)
                Assign(n) == Assigned(e[2], n.val, env, n)
                Sum(n) == Written(n, n.val, Num(Held(n, n.val)[2] + r.val[2]))
                Add(n) == Then(Place(e[2], env, n), Sum)
            IN IF k = "assign" THEN Then(r, Assign) ELSE Then(r, Add)
       [] k = "call" -> LET all == EvalAll(e[3], env, m, <<>>)
                            F(n) == Called(n, e[2], all[2])
                        IN Then(all[1], F)
       [] k = "block" -> EvalStmts(e[2], env, m)
       [] k = "if" -> LET F(n) == IF n.val = Truth(TRUE) THEN Eval(e[3], env, n)
                                  ELSE IF e[4] = Absent THEN Give(n, Unit) ELSE Eval(e[4], env, n)
                      IN Sub(2, F)
       [] k \in {"while", "loop"} -> Turn(e, env, m)
       [] k = "continue" -> Leave(m, "continue")
       [] k \in {"break", "ret"} ->
            LET how == IF k = "ret" THEN "return" ELSE k
                F(n) == Leave(n, how)
            IN IF e[2] = Absent THEN Leave(Give(m, Unit), how) ELSE Sub(2, F)

\* What the outside sees of a run.
Outcome(m) == [trace |-> m.trace, goes |-> m.goes, val |-> IF m.goes = "return" THEN m.val ELSE Unit]

(* A function of one number.                                               *)
Started(body, arg, script) ==
  LET start == New(Fresh(script), Num(arg), FALSE) IN Eval(body, [x \in {"p"} |-> start.val], start)
Meaning(body, arg, script) ==
  LET end == Started(body, arg, script) IN Outcome(IF end.goes = "on" THEN Leave(end, "return") ELSE end)
=============================================================================
