----------------------------- MODULE MCCompiler -----------------------------
(***************************************************************************)
(* Function bodies made of every combination of a few statements and       *)
(* expressions around one idea: what leaves a loop, where a value comes    *)
(* from, which condition decides, and what is stored where.                *)
(***************************************************************************)
EXTENDS Compiler
LOCAL INSTANCE SequencesExt

CONSTANT MaxAnswers

One == <<"int", 1>>
P == <<"var", "p">>
X == <<"var", "x">>
Y == <<"var", "y">>
Ask == <<"call", "ask", <<>>>>
Put(e) == <<"call", "put", <<e>>>>
Put2(l, r) == <<"call", "put2", <<l, r>>>>
Semi(e) == <<"semi", e>>
Expr(e) == <<"expr", e>>
Let(x, mutbl, e) == <<"let", x, mutbl, e>>
Block(stmts) == <<"block", stmts>>

RECURSIVE Within(_)
Within(e) == {e} \cup UNION {Within(SubsOf(e)[i]) : i \in DOMAIN SubsOf(e)}
UsesRef(e) == \E s \in Within(e) : s = <<"deref", Y>>
MCScripts == [1..MaxAnswers -> BOOLEAN]

(* Loops: two statements inside, the first may be an if.                   *)
Leaves == {<<"break", Absent>>, <<"continue">>, <<"ret", One>>}
Small == {Put(One)} \cup Leaves
Arms == {Block(<<>>)} \cup {Block(<<Semi(s)>>) : s \in Small} \cup {Block(<<Semi(Put(One)), Semi(s)>>) : s \in Leaves}
Ifs == {<<"if", Ask, t, f>> : t \in Arms, f \in Arms \cup {Absent}}
Inner == {Block(<<Expr(i)>> \o more) : i \in Ifs, more \in {<<>>} \cup {<<Semi(s)>> : s \in Small}}
Loops == {<<"loop", b>> : b \in Inner} \cup {<<"while", Ask, b>> : b \in Inner}
LoopBodies == {Block(<<Expr(l), Semi(Put(P)), Expr(<<"int", 2>>)>>) : l \in Loops}


(* Functions without a value.                                              *)
Quiet == {Block(<<>>), Block(<<Expr(Put(One))>>), Block(<<Semi(<<"ret", Absent>>)>>), Block(<<Semi(<<"ret", Put(P)>>)>>)}
UnitBodies ==
  {Block(<<Expr(<<"if", Ask, t, f>>)>> \o more) : t \in Quiet, f \in Quiet \cup {Absent},
     more \in {<<>>, <<Semi(Put(P))>>, <<<<"empty">>, Expr(<<"while", Ask, Block(<<Semi(Put(P))>>)>>)>>, <<Semi(<<"ret", Absent>>)>>,
             <<Semi(<<"assign", <<"unit">>, Put(P)>>), Semi(Put(One))>>, <<Expr(<<"while", Ask, Block(<<Expr(Put(P))>>)>>)>>}}

(* Values: where they come from, and that what is left on the way does not *)
(* reach the rest.                                                         *)
Ret3 == <<"ret", <<"int", 3>>>>
Say(e) == Block(<<Semi(Put(<<"int", 4>>)), Expr(e)>>)     \* a block with an effect
Conds0 == {Ask, <<"bool", TRUE>>, <<"not", Ask>>}
V0 == {One, P, Ret3}
V1 == V0 \cup {Say(v) : v \in V0} \cup {<<"paren", v>> : v \in V0}
      \cup {<<"if", c, Say(v), Block(<<Expr(w)>>)>> : c \in {Ask}, v \in V0, w \in V0}
      \cup {<<"loop", Block(<<Expr(<<"if", Ask, Block(<<Semi(<<"break", v>>)>>), Absent>>), Semi(s)>>)>>
             : v \in {One, P, Say(P)}, s \in {Put(One), <<"continue">>}}
      \cup {<<"add", v, w>> : v \in V0, w \in V0}
Conds1 == Conds0 \cup {Say(Ask)} \cup {<<"eq", v, w>> : v \in {One, P, Ret3}, w \in {One, P, Ret3}}
Conds2 == Conds1 \cup {<<op, c, d>> : op \in {"and", "or"}, c \in Conds1, d \in Conds1}
          \cup {<<"if", Ask, Block(<<Expr(c)>>), Block(<<Expr(d)>>)>> : c \in Conds1, d \in Conds1}
Uses(v) == {Block(<<Expr(v)>>), Block(<<Let("x", FALSE, v), Semi(Put(X)), Expr(X)>>),
            Block(<<Semi(Put(v)), Expr(P)>>), Block(<<Semi(v), Expr(One)>>)}
ValueBodies ==
  UNION {Uses(v) : v \in V1}
  \cup {Block(<<Semi(Put2(v, w)), Expr(P)>>) : v \in V1, w \in V1}
  \cup {Block(<<Expr(<<"add", v, w>>)>>) : v \in V1, w \in V1}
CondBodies ==
  UNION {{Block(<<Expr(<<"if", c, Say(One), Say(P)>>)>>),
          Block(<<Expr(<<"if", c, Block(<<Semi(Ret3)>>), Absent>>), Semi(Put(One)), Expr(P)>>),
          Block(<<Expr(<<"while", c, Block(<<Semi(Put(P))>>)>>), Expr(P)>>)} : c \in Conds2}

(* Places: a variable, and another that is bound to it, to a copy of it or *)
(* to a reference to it; what is assigned; and what is seen of both.       *)
Places == {X, <<"paren", X>>, <<"deref", Y>>, <<"deref", <<"addr", TRUE, X>>>>, <<"hole">>,
           <<"deref", Say(<<"addr", TRUE, X>>)>>}
Rights == {One, X, Say(X), <<"add", X, One>>, Block(<<Semi(<<"assign", X, <<"int", 5>>>>), Expr(One)>>), Ret3}
Writes == {<<op, l, r>> : op \in {"assign", "addassign"}, l \in Places, r \in Rights}
          \cup {Put2(X, r) : r \in Rights} \cup {Put(<<"add", X, r>>) : r \in Rights}
Binds == {<<m, v>> : m \in {TRUE, FALSE}, v \in {One, P, X, Block(<<Expr(X)>>), Say(X), <<"add", X, One>>}}
Refs == {<<m, v>> : m \in {TRUE, FALSE},
         v \in {<<"addr", m2, w>> : m2 \in {TRUE, FALSE}, w \in {X, One, Block(<<Expr(X)>>), <<"paren", X>>}}}
PlaceBodies ==
  {Block(<<Let("x", mut, One), Let("y", b[1], b[2]), Semi(w), Semi(Put2(X, Y)), Expr(X)>>)
   : mut \in {TRUE, FALSE}, b \in Binds, w \in {v \in Writes : ~UsesRef(v)} \cup {<<"assign", Y, One>>, <<"addassign", Y, X>>}}
  \cup {Block(<<Let("x", mut, One), Let("y", b[1], b[2]), Semi(w), Semi(Put2(X, <<"deref", Y>>)), Expr(X)>>)
   : mut \in {TRUE, FALSE}, b \in Refs, w \in Writes}

(* Pairs: made, copied, taken apart, assigned to, by whole and by part.    *)
T == <<"var", "t">>
First(e) == <<"field", e, 1>>
Second(e) == <<"field", e, 2>>
PairOf(v, w) == <<"tup", v, w>>
Pairs0 == {PairOf(One, P), PairOf(P, Say(One)), T, PairOf(Second(T), First(T))}
Pairs1 == Pairs0 \cup {Block(<<Expr(q)>>) : q \in Pairs0} \cup {Say(q) : q \in {T, PairOf(P, P)}}
          \cup {<<"if", Ask, Block(<<Expr(q)>>), Block(<<Expr(r)>>)>> : q \in {T, PairOf(P, P)}, r \in {PairOf(P, One), T, Ret3}}
          \cup {<<"loop", Block(<<Semi(<<"break", q>>)>>)>> : q \in {T, PairOf(P, One)}}
          \cup {<<"paren", T>>, PairOf(Say(One), Ret3), PairOf(Ret3, One)}
Assigns == {<<"assign", l, q>> : l \in {T, Y, PairOf(First(T), Second(T)), PairOf(Second(T), First(T)),
                                       PairOf(<<"hole">>, First(Y)), <<"paren", PairOf(First(Y), <<"hole">>)>>}, q \in Pairs1}
           \cup {<<op, f, v>> : op \in {"assign", "addassign"}, f \in {First(T), Second(Y)}, v \in {One, First(Y), <<"add", Second(T), P>>}}
RefPairs == {<<"addr", m, w>> : m \in {TRUE, FALSE}, w \in {T, Block(<<Expr(T)>>), PairOf(One, P)}}
            \cup {<<"addr", FALSE, <<"addr", m, T>>>> : m \in {TRUE, FALSE}}
SeenPair(w) == Semi(Put2(First(w), Second(w)))
PairBodies ==
  {Block(<<Let("t", mut, PairOf(One, P)), Let("y", b, q), Semi(w), SeenPair(T), SeenPair(Y), Expr(One)>>)
   : mut \in {TRUE, FALSE}, b \in {TRUE, FALSE}, q \in Pairs1, w \in Assigns}
  \cup {Block(<<Let("t", TRUE, PairOf(One, P)), Let("y", FALSE, r), SeenPair(Y), Expr(First(Y))>>) : r \in RefPairs}
  \cup {Block(<<Let("t", mut, PairOf(One, P)), Let("y", FALSE, r), Semi(<<op, Second(Y), v>>), SeenPair(T), SeenPair(Y), Expr(First(Y))>>)
        : mut \in {TRUE, FALSE}, r \in RefPairs, op \in {"assign", "addassign"}, v \in {One, First(T)}}

(* Shapes the generated code gets wrong, each in a run of its own; the     *)
(* other bodies are free of them.                                          *)
RECURSIVE NamesPlace(_)
NamesPlace(e) == Bare(e)[1] \in {"var", "deref", "field"} \/ (Bare(e)[1] = "block" /\ NamesPlace(TailOf(Bare(e)[2])))
Changes(e) == \E s \in Within(e) : s[1] \in {"assign", "addassign"}
BreakThenReturn(e) == e[1] = "loop" /\ Breaks(e[2]) # {} /\ Interrupt(e[2]) = "return"
LazyReturn(e) == e[1] \in {"and", "or"} /\ Interrupt(e[3]) # "not"
RECURSIVE Shares(_)
Shares(v) == CASE v[1] = "paren" -> Shares(v[2])
               [] v[1] = "block" -> NamesPlace(TailOf(v[2])) \/ Shares(TailOf(v[2]))
               [] v[1] = "if" -> TailOf(v[3][2]) = T \/ (v[4] # Absent /\ TailOf(v[4][2]) = T)
               [] OTHER -> FALSE
SharedBlock(e) == e[1] \in {"let", "addr"} /\ Shares(e[Len(e)])
OwnParts(e) == e[1] = "assign" /\ Bare(e[2])[1] = "tup" /\ (NamesPlace(e[3]) \/ Shares(e[3]))
PairFromLoop(e) == e[1] = "loop" /\ \E b \in Breaks(e[2]) : b = T \/ b[1] = "tup"
TwoRefs(e) == e[1] = "addr" /\ e[3][1] = "addr"
AssignedTwice(e) == e[1] = "assign" /\ ~Pure(e[2])
LateArgument(e) == e[1] = "call" /\ \E i, j \in DOMAIN e[3] : i < j /\ NamesPlace(e[3][i]) /\ Changes(e[3][j])
WhileValue(e) == e[1] = "while" /\ Bare(TailOf(e[3][2]))[1] = "call"
LeftFirst(e) == e[1] = "addassign" /\ ~Pure(e[2])
Wrong(e) ==
  BreakThenReturn(e) \/ LazyReturn(e) \/ SharedBlock(e) \/ OwnParts(e) \/ PairFromLoop(e) \/ TwoRefs(e) \/ AssignedTwice(e) \/ LateArgument(e) \/ LeftFirst(e) \/ WhileValue(e)
Spared(b) == \A e \in Within(b) : ~Wrong(e)

Domain(S) == Start({b \in S : Spared(b)})
MCInit == \/ Domain(LoopBodies) \/ Domain(ValueBodies) \/ Domain(CondBodies)
          \/ Domain(PlaceBodies) \/ Domain(PairBodies) \/ Domain(UnitBodies)
MCNext == Analyze \/ Generate \/ Run
MCSpec == MCInit /\ [][MCNext]_cvars

\* Variables and references bound to the value of a block that names a place.
OtherwiseSpared(b) == \A e \in Within(b) : Wrong(e) => SharedBlock(e)
SharedInit == Start({b \in PlaceBodies : ~Spared(b) /\ OtherwiseSpared(b)})
SharedSpec == SharedInit /\ [][MCNext]_cvars
=============================================================================
