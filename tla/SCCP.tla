-------------------------------- MODULE SCCP --------------------------------
(***************************************************************************)
(* Sparse conditional constant propagation: two worklists, of blocks found *)
(* to be reached and of users of values that changed.  Constants are       *)
(* written into the program as soon as they are found, and a branch on a   *)
(* constant becomes a jump at once.                                        *)
(*                                                                         *)
(* The worklists are sets here: they are walked in any order.              *)
(***************************************************************************)
EXTENDS IRProgram

CONSTANT Programs   \* the functions to consider

VARIABLES
  source,    \* the function before the pass
  prog,      \* the function
  value,     \* value_states
  cfgWork,   \* cfg_work_list: blocks
  instWork,  \* inst_work_list: instructions, and blocks for their terminators
  visited,   \* visited_block
  todo,      \* what is left of the block being walked, or the user being visited
  pass       \* which loop runs: "blocks", "insts", then "done"

sccpVars == <<value, cfgWork, instWork, visited, todo>>
vars     == <<source, prog, sccpVars, pass>>

\* ValueState: Unknown, a constant, Overdefined, in this order.
Unknown     == -1
Overdefined == 5
IsConstant(x) == x \in {0, 1}
Rank(x) == IF x = Unknown THEN 0 ELSE IF IsConstant(x) THEN 1 ELSE 2

\* Where the assertion of apply_value_state_change fails: no value state.
Stopped == 6

Init ==
  /\ source \in Programs
  /\ prog = source
  /\ value = [i \in DOMAIN source.inst |-> Unknown]
  /\ cfgWork = {source.entry}
  /\ instWork = {} /\ visited = {} /\ todo = <<>>
  /\ pass = "blocks"

-----------------------------------------------------------------------------
\* Mutant of Merge: what is not known yet takes the other's state, as in the
\* usual lattice.
MergeMeet(x, y, both) ==
  IF x = Unknown THEN y
  ELSE IF y = Unknown THEN x
  ELSE IF IsConstant(x) /\ IsConstant(y) THEN both
  ELSE Overdefined

\* ValueState::merge, where `both` is what two constants give.
Merge(x, y, both) ==
  IF x = Unknown /\ y = Unknown THEN Unknown
  ELSE IF IsConstant(x) /\ IsConstant(y) THEN both
  ELSE Overdefined

\* get_value_state.  A root is an alloca, an argument or a global that may change;
\* the address of a constant global, which is read as its initializer, is left out.
StateOf(s, v) ==
  CASE v[1] = "const" -> v[2]
    [] v[1] \in {"arg", "root"} -> Overdefined
    [] v[1] = "inst"  -> s.value[v[2]]

\* apply_value_state_change, on the state s of the pass: states only rise.
Change(s, i, new) ==
  IF s.value[i] = new THEN s
  ELSE LET p == IF IsConstant(new) THEN Replaced(s.prog, Res(i), Const(new)) ELSE s.prog
       IN  [s EXCEPT !.prog = p,
                     !.value[i] = IF Rank(@) < Rank(new) THEN new ELSE Stopped,
                     !.instWork = @ \cup {<<"inst", u>> : u \in Users(p, Res(i))}
                                    \cup {<<"term", b>> : b \in TermUsers(p, Res(i))}]

VisitPhi(s, i) ==
  LET phi   == s.prog.inst[i]
      known == SelectSeq([k \in DOMAIN phi.from |-> k], LAMBDA k : phi.from[k] \in s.visited)
  IN  Change(s, i, FoldLeft(LAMBDA acc, k : LET x == StateOf(s, phi.args[k]) IN
                                            Merge(acc, x, IF acc = x THEN x ELSE Overdefined), Unknown, known))

VisitNormal(s, i) ==
  LET inst == s.prog.inst[i]
      l == StateOf(s, inst.args[1])
      r == StateOf(s, inst.args[Len(inst.args)])
  IN  Change(s, i, IF IsPure(inst) THEN Merge(l, r, Apply(inst.op, l, r))
                   ELSE Overdefined)

\* visit_term: the successors that may be taken are reached.
VisitTerm(s, b) ==
  LET t  == s.prog.block[b].term
      on == StateOf(s, t.on)
  IN  IF t.to = <<>> \/ (Conditional(t) /\ on = Unknown) THEN s
      ELSE IF Conditional(t) /\ IsConstant(on)
      THEN LET target == IF on # 0 THEN t.to[1] ELSE t.to[2] IN
           [s EXCEPT !.cfgWork = @ \cup {target}, !.prog.block[b].term = Jump(target)]
      ELSE [s EXCEPT !.cfgWork = @ \cup Range(t.to)]

VisitInst(s, i) == IF IsPhi(s.prog.inst[i]) THEN VisitPhi(s, i) ELSE VisitNormal(s, i)

Visited(s, u) == IF u[1] = "term" THEN VisitTerm(s, u[2]) ELSE VisitInst(s, u[2])

\* One instruction, or one terminator.
VisitNext ==
  /\ todo # <<>>
  /\ LET now == [prog |-> prog, value |-> value, cfgWork |-> cfgWork, instWork |-> instWork, visited |-> visited]
         s   == Visited(now, Head(todo))
     IN  /\ prog' = s.prog /\ value' = s.value
         /\ cfgWork' = s.cfgWork /\ instWork' = s.instWork
  /\ todo' = Tail(todo)
  /\ UNCHANGED <<source, visited, pass>>

\* A block is walked the first time it comes off the list.
VisitBlock(b) ==
  /\ pass = "blocks" /\ todo = <<>> /\ b \in cfgWork
  /\ cfgWork' = cfgWork \ {b}
  /\ visited' = visited \cup {b}
  /\ LET here == prog.block[b].insts IN
     todo' = IF b \in visited THEN <<>>
             ELSE Append([k \in DOMAIN here |-> <<"inst", here[k]>>], <<"term", b>>)
  /\ UNCHANGED <<source, prog, value, instWork, pass>>

BlocksDone ==
  /\ pass = "blocks" /\ todo = <<>> /\ cfgWork = {} /\ instWork # {}
  /\ pass' = "insts"
  /\ UNCHANGED <<source, prog, sccpVars>>

VisitUser(u) ==
  /\ pass = "insts" /\ todo = <<>> /\ u \in instWork
  /\ instWork' = instWork \ {u}
  /\ todo' = <<u>>
  /\ UNCHANGED <<source, prog, value, cfgWork, visited, pass>>

InstsDone ==
  /\ pass = "insts" /\ todo = <<>> /\ instWork = {} /\ cfgWork # {}
  /\ pass' = "blocks"
  /\ UNCHANGED <<source, prog, sccpVars>>

Propagated == cfgWork = {} /\ instWork = {} /\ todo = <<>>

Propagate ==
  \/ VisitNext
  \/ \E b \in cfgWork : VisitBlock(b)
  \/ \E u \in instWork : VisitUser(u)
  \/ BlocksDone
  \/ InstsDone

-----------------------------------------------------------------------------
\* The lists name blocks of the function and its instructions, and every value
\* is unknown, a bit or overdefined, and only rises in this order.
TypeOK ==
  /\ \A i \in DOMAIN prog.inst : value[i] \in {Unknown, 0, 1, Overdefined}
  /\ pass \in {"blocks", "insts"} => cfgWork \cup visited \subseteq Blocks(prog)
  /\ \A u \in instWork : u[1] \in {"inst", "term"}

\* Every block a run of the source enters has been visited, so what is left
\* unvisited may be erased; and what a run computes there, in every round of a
\* loop, is known to the pass: as overdefined, or as the constant it is.
RunsAreVisited ==
  (Propagated /\ pass \in {"blocks", "insts"}) =>
    \A in \in Inputs, n \in 0..8 :
      LET run == Run(source, in, n) IN
      /\ run.entered \subseteq visited
      /\ \A i \in DOMAIN run.env : run.env[i] # Stuck => value[i] \in {run.env[i], Overdefined}

\* The function shows what it showed before, for every input.
EffectsKept == (Propagated /\ pass \in {"blocks", "insts"}) => SameEffects(source, prog, 8)
=============================================================================
