------------------------------ MODULE Analyzer ------------------------------
(***************************************************************************)
(* What the semantic analyzer decides about the expressions of a function  *)
(* body besides their types: whether control leaves one before it has a    *)
(* value (its interrupt), whether it may stand to the left of an           *)
(* assignment or behind &mut (its assignee), whether it gives a value the  *)
(* generator has to keep, and whether the body is accepted.                *)
(*                                                                         *)
(* The programs are those of Rust.tla and are well typed as they are made; *)
(* the unification of their types is TypeSolver's.                         *)
(***************************************************************************)
EXTENDS Rust

-----------------------------------------------------------------------------
(* The interrupt of an expression: "not", "loop" (the body of a loop is    *)
(* left) or "return".                                                      *)
Plus(a, b) == IF a = "not" THEN b ELSE a
Either(a, b) == IF "not" \in {a, b} THEN "not" ELSE IF "loop" \in {a, b} THEN "loop" ELSE "return"
OutOfCycle(a) == IF a = "return" THEN a ELSE "not"

\* What an expression or a statement is made of, in the order of evaluation the analyzer knows.
SubsOf(e) ==
  CASE e[1] \in {"paren", "not", "deref", "field", "loop", "expr", "semi"} -> <<e[2]>>
    [] e[1] \in {"break", "ret"} -> IF e[2] = Absent THEN <<>> ELSE <<e[2]>>
    [] e[1] = "addr" -> <<e[3]>>
    [] e[1] = "let" -> <<e[4]>>
    [] e[1] \in {"add", "eq", "and", "or", "tup", "assign", "addassign", "while"} -> <<e[2], e[3]>>
    [] e[1] = "call" -> e[3]
    [] e[1] = "block" -> e[2]
    [] e[1] = "if" -> IF e[4] = Absent THEN <<e[2], e[3]>> ELSE <<e[2], e[3], e[4]>>
    [] OTHER -> <<>>

\* The operands of the breaks that leave a loop with this body.
RECURSIVE Breaks(_)
Breaks(e) ==
  LET subs == SubsOf(e)
      inner == IF e[1] = "loop" THEN {} ELSE IF e[1] = "while" THEN {1} ELSE DOMAIN subs
  IN UNION {Breaks(subs[i]) : i \in inner} \cup (IF e[1] = "break" THEN {e[2]} ELSE {})

RECURSIVE Interrupt(_), Merged(_)
Merged(es) == IF es = <<>> THEN "not" ELSE Plus(Interrupt(Head(es)), Merged(Tail(es)))
Interrupt(e) ==
  CASE e[1] = "if" ->
         Plus(Interrupt(e[2]), IF e[4] = Absent THEN "not" ELSE Either(Interrupt(e[3]), Interrupt(e[4])))
    [] e[1] = "while" -> Interrupt(e[2])
    [] e[1] = "loop" -> IF Breaks(e[2]) # {} THEN OutOfCycle(Interrupt(e[2])) ELSE "return"
    [] e[1] \in {"break", "continue"} -> Plus(Merged(SubsOf(e)), "loop")
    [] e[1] = "ret" -> Plus(Merged(SubsOf(e)), "return")
    [] OTHER -> Merged(SubsOf(e))

-----------------------------------------------------------------------------
(* The value of a block is that of its last statement if it is an          *)
(* expression; statements that declare are looked through.                 *)
RECURSIVE TailOf(_)
TailOf(stmts) ==
  IF stmts = <<>> THEN Absent
  ELSE LET s == stmts[Len(stmts)]
       IN CASE s[1] = "let" -> TailOf(SubSeq(stmts, 1, Len(stmts) - 1))
            [] s[1] = "expr" -> s[2]
            [] OTHER -> Absent

(* Types, as far as the rest depends on them, and what is known of the     *)
(* variables in scope. A variable of a loop that a break gives is a        *)
(* number.                                                                 *)
Number == <<"number">>
PairTy == <<"pair">>
VoidTy == <<"unit">>
NeverTy == <<"never">>
RefTo(mutbl, ty) == <<"ref", mutbl, ty>>
Var(mutbl, ty) == [mutbl |-> mutbl, ty |-> ty]
RECURSIVE Target(_)
Target(ty) == IF ty[1] = "ref" THEN Target(ty[3]) ELSE ty    \* auto_deref
Common(tys) == IF tys \subseteq {NeverTy} THEN NeverTy ELSE CHOOSE ty \in tys : ty # NeverTy

RECURSIVE TypeOf(_, _), Known(_, _)
Known(stmts, env) ==   \* the scope behind these statements
  IF stmts = <<>> THEN env
  ELSE LET s == Head(stmts)
       IN Known(Tail(stmts), IF s[1] = "let" THEN (s[2] :> Var(s[3], TypeOf(s[4], env))) @@ env ELSE env)
TypeOf(e, env) ==
  CASE e[1] \in {"int", "bool", "not", "add", "eq", "and", "or", "field"} -> Number
    [] e[1] = "var" -> IF e[2] \in DOMAIN env THEN env[e[2]].ty ELSE Number
    [] e[1] = "tup" -> PairTy
    [] e[1] = "paren" -> TypeOf(e[2], env)
    [] e[1] = "addr" -> RefTo(e[2], TypeOf(e[3], env))
    [] e[1] = "deref" -> TypeOf(e[2], env)[3]
    [] e[1] = "call" -> IF e[2] = "ask" THEN Number ELSE VoidTy
    [] e[1] = "block" -> IF TailOf(e[2]) # Absent THEN TypeOf(TailOf(e[2]), Known(e[2], env))
                         ELSE IF Interrupt(e) = "not" THEN VoidTy ELSE NeverTy
    [] e[1] = "if" -> IF e[4] = Absent THEN VoidTy ELSE Common({TypeOf(e[3], env), TypeOf(e[4], env)})
    [] e[1] = "loop" -> Common({IF b = Absent THEN VoidTy ELSE TypeOf(b, env) : b \in Breaks(e[2])})
    [] e[1] \in {"break", "continue", "ret"} -> NeverTy
    [] OTHER -> VoidTy
Gives(e, env) == TypeOf(e, env) \notin {VoidTy, NeverTy}

\* Places are "mut" or "fixed", an "only" can be nothing but assigned to.
MergePlaces(a, b) ==
  CASE "error" \in {a, b} \/ {a, b} \in {{"only", "fixed"}, {"only", "value"}} -> "error"
    [] "value" \in {a, b} -> "value"
    [] "only" \in {a, b} -> "only"
    [] OTHER -> IF "fixed" \in {a, b} THEN "fixed" ELSE "mut"
ThroughRef(ty) == LET fixed == ~ty[2] IN IF fixed THEN "fixed" ELSE "mut"
RECURSIVE ThroughRefs(_)
ThroughRefs(ty) == IF ty[1] # "ref" THEN "mut" ELSE MergePlaces(ThroughRef(ty), ThroughRefs(ty[3]))

RECURSIVE Assignee(_, _)
Assignee(e, env) ==
  CASE e[1] = "var" -> IF env[e[2]].mutbl THEN "mut" ELSE "fixed"
    [] e[1] = "deref" -> ThroughRef(TypeOf(e[2], env))
    [] e[1] = "field" -> LET ty == TypeOf(e[2], env)
                         IN IF ty[1] = "ref" THEN ThroughRefs(ty)
                            ELSE IF Assignee(e[2], env) = "fixed" THEN "fixed" ELSE "mut"
    [] e[1] = "paren" -> Assignee(e[2], env)
    [] e[1] = "tup" -> MergePlaces(Assignee(e[2], env), Assignee(e[3], env))
    [] e[1] = "unit" -> "mut"
    [] e[1] = "hole" -> "only"
    [] OTHER -> "value"
\* A value has no place of its own: a let may take it over.
RECURSIVE IsValue(_)
IsValue(e) == CASE e[1] = "paren" -> IsValue(e[2])
                [] e[1] = "tup" -> IsValue(e[2]) \/ IsValue(e[3])
                [] OTHER -> e[1] \notin {"var", "deref", "field", "unit", "hole"}

-----------------------------------------------------------------------------
(* The body is visited in a scope and inside a "loop", a "while" or        *)
(* neither; every early return of the visitor with an error is a conjunct. *)
Assignable(left, env) == Assignee(left, env) \in {"mut", "only"}
\* Mutant of Borrowable.
BorrowableAll(mutbl, e, env) == TRUE
Borrowable(mutbl, e, env) == Assignee(e, env) # "fixed" \/ ~mutbl
NeedsValue(e) == IF e[1] \in {"assign", "paren", "tup"} THEN {} ELSE DOMAIN SubsOf(e)
MayBreak(operand, cycle) == cycle = "loop" \/ (cycle = "while" /\ operand = Absent)

RECURSIVE Accepts(_, _, _), AcceptsAll(_, _, _)
AcceptsAll(es, env, cycle) ==   \* one behind the other; a let declares for those behind it
  es # <<>> => Accepts(Head(es), env, cycle) /\ AcceptsAll(Tail(es), Known(<<Head(es)>>, env), cycle)
Accepts(e, env, cycle) ==
  LET subs == SubsOf(e)
  IN /\ CASE e[1] = "loop" -> Accepts(e[2], env, "loop")
          [] e[1] = "while" -> Accepts(e[2], env, cycle) /\ Accepts(e[3], env, "while")
          [] e[1] = "block" -> AcceptsAll(subs, env, cycle)
          [] OTHER -> \A i \in DOMAIN subs : Accepts(subs[i], env, cycle)
     /\ e[1] # "block" => \A i \in NeedsValue(e) : Assignee(subs[i], env) # "only"
     /\ e[1] = "tup" => Assignee(e, env) # "error"
     /\ e[1] = "assign" => Assignable(e[2], env) /\ Assignee(e[3], env) # "only"
     /\ e[1] = "addassign" => Assignee(e[2], env) = "mut"
     /\ e[1] = "addr" => Borrowable(e[2], e[3], env)
     /\ e[1] = "break" => MayBreak(e[2], cycle)
     /\ e[1] = "continue" => cycle # "none"

\* A function of one parameter p.
Accepted(body) == Accepts(body, [x \in {"p"} |-> Var(FALSE, Number)], "none")
=============================================================================
