------------------------------- MODULE Parser -------------------------------
(***************************************************************************)
(* The recursive-descent parser of src/ast.  An iterator over the tokens   *)
(* carries the next node id too; eat works on a copy and gives it back     *)
(* only when it succeeds, so that a failed alternative leaves neither a    *)
(* position nor an id behind.  Crate::eat takes one item after another.    *)
(***************************************************************************)
EXTENDS Grammar

VARIABLES toks,      \* TokenBuffer
          iter,      \* TokenIter: position and next id
          items,     \* what Crate::eat has collected
          status     \* "eating", "done" or "error"
vars == <<toks, iter, items, status>>

Leaf(k) == [k |-> k, id |-> 0, p |-> <<>>]
List(s) == [k |-> "list", id |-> 0, p |-> s]
Wrap(k, id, parts) == [k |-> k, id |-> id, p |-> parts]

-----------------------------------------------------------------------------
(* TokenIter and the results of a rule. *)
Peek(i) == IF i.pos <= Len(toks) THEN toks[i.pos] ELSE "EOF"
Advance(i) == [i EXCEPT !.pos = @ + 1]
AssignId(i) == [i EXCEPT !.id = @ + 1]
UpdatePosOnly(i, new) == [i EXCEPT !.pos = new.pos]          \* a mutant
Update(i, new) == [i EXCEPT !.pos = new.pos, !.id = new.id]

Ok(i, out) == [ok |-> TRUE, it |-> i, out |-> out]
Err(i) == [ok |-> FALSE, it |-> i, out |-> <<>>]
Nothing(i) == Ok(i, <<Leaf("none")>>)

(* A path of one segment without arguments. *)
IsIdent(path) == path.p[1].k = "none" /\ path.p[2].p[2].k = "none" /\ path.p[3].p = <<>>
IdentOf(path) == path.p[2].p[1].k
IsSelf(pat) == pat.k = "PathPat" /\ IsIdent(pat.p[1]) /\ IdentOf(pat.p[1]) = "self"
SelfPat(pat, mode, other) ==
  Wrap("Pat", pat.id, <<Wrap("IdentPat", 0, mode \o <<Leaf("self"), other>>)>>)

(* Pat::to_self_pat_ty: the pattern and type of a self parameter. *)
SelfParam(pat, i) ==
  LET kind == pat.p[1]
      plain == <<Leaf("none"), Leaf("none")>>
      implicit == Wrap("Ty", i.id, <<Leaf("ImplicitSelf")>>)
  IN CASE IsSelf(kind) -> Ok(AssignId(i), <<SelfPat(pat, plain, Leaf("none")), implicit>>)
       [] kind.k = "RefPat" /\ IsSelf(kind.p[2].p[1]) ->
            Ok(AssignId(AssignId(i)),
               <<SelfPat(pat, plain, Leaf("none")),
                 Wrap("Ty", i.id + 1, <<Wrap("RefTy", 0, <<kind.p[1], implicit>>)>>)>>)
       [] kind.k = "IdentPat" /\ kind.p[3].k = "self" ->
            Ok(AssignId(i), <<SelfPat(pat, SubSeq(kind.p, 1, 2), kind.p[4]), implicit>>)
       [] OTHER -> Err(i)

(* Expression statements before the last must be blocks. *)
SemisUnasked(stmts) == TRUE                                  \* a mutant
NoItems(stmts) == SelectSeq(stmts, LAMBDA s : s.p[1].k # "Item")
SemisComplete(stmts) ==
  LET some == NoItems(stmts)
  IN \A n \in 1..Len(some) - 1 :
       LET s == some[n].p[1]
       IN s.k = "ExprStmt" /\ s.p[2].k = "none" => s.p[1].p[1].k \in BlockKinds

(* What the rules do with their parts after reading them. *)
Built(name, r) ==
  LET o == r.out
  IN CASE name = "Pat" ->
            IF o[3].p = <<>> THEN Ok(r.it, <<o[2]>>)
            ELSE Ok(AssignId(r.it), <<Wrap("Pat", r.it.id, <<Wrap("OrPat", 0, <<o[2]>> \o o[3].p)>>)>>)
       [] name = "PatField" ->
            LET kind == o[1].p[1]
                named == kind.k = "PathPat" /\ IsIdent(kind.p[1])
            IN CASE named /\ o[2].k # "none" -> Ok(r.it, <<Leaf(IdentOf(kind.p[1])), o[2]>>)
                 [] named /\ o[2].k = "none" -> Ok(r.it, <<Leaf("shorthand"), o[1]>>)
                 [] kind.k = "IdentPat" /\ o[2].k = "none" -> Ok(r.it, <<Leaf("shorthand"), o[1]>>)
                 [] OTHER -> Err(r.it)
       [] name = "Block" -> IF SemisComplete(o[1].p) THEN r ELSE Err(r.it)
       [] name = "MatchArm" ->
            IF o[2].k = "," \/ o[1].p[3].p[1].k \in BlockKinds \/ Peek(r.it) = "}"
            THEN Ok(r.it, <<o[1]>>) ELSE Err(r.it)
       [] name = "Param" -> IF o[2].k = "none" THEN Err(r.it) ELSE r
       [] name = "SelfParam" -> IF o[2].k = "none" THEN SelfParam(o[1], r.it) ELSE r
       [] name = "ImplHead" ->
            CASE o[2].k = "none" -> Ok(r.it, <<o[2], o[1]>>)
              [] o[2].k # "none" /\ o[1].p[1].k = "PathTy" -> Ok(r.it, <<o[1].p[1].p[1], o[2]>>)
              [] OTHER -> Err(r.it)
       [] name = "TraitObjectTy" ->
            IF o[1].p[1].k = "none" /\ o[1].p[2].p[2].p = <<>> THEN Err(r.it) ELSE r

-----------------------------------------------------------------------------
RECURSIVE Eat(_, _), Run(_, _), RunAll(_, _, _, _), RunFirst(_, _, _), RunUntil(_, _, _),
          RunEach(_, _, _), RunCommas(_, _, _, _), Followed(_, _, _, _)

(* Eatable::eat *)
Eat(name, i) ==
  LET r == Run(Rules[name], i)
  IN IF r.ok THEN Ok(Update(i, r.it), r.out) ELSE Err(i)

RunAll(of, n, i, out) ==
  IF n > Len(of) THEN Ok(i, out)
  ELSE LET r == Run(of[n], i) IN IF r.ok THEN RunAll(of, n + 1, r.it, out \o r.out) ELSE r

(* kind_check!: the first rule that succeeds *)
RunFirst(names, n, i) ==
  IF n > Len(names) THEN Err(i)
  ELSE LET r == Eat(names[n], i) IN IF r.ok THEN r ELSE RunFirst(names, n + 1, r.it)

(* loop_until!, loop_while! and the lists with commas *)
RunUntil(t, i, out) ==
  IF Peek(i) = t.close THEN Ok(Advance(i), <<List(out)>>)
  ELSE LET r == Run(t.body, i)
       IN IF Peek(i) = "EOF" THEN Err(i) ELSE IF r.ok THEN RunUntil(t, r.it, out \o r.out) ELSE r

RunEach(t, i, out) ==
  CASE Peek(i) = "EOF" -> Err(i)
    [] Peek(i) = t.t -> LET r == Run(t.body, Advance(i))
                        IN IF r.ok THEN RunEach(t, r.it, out \o r.out) ELSE r
    [] OTHER -> Ok(i, <<List(out)>>)

RunCommas(t, i, out, forced) ==
  IF Peek(i) = t.close
  THEN Ok(Advance(i), <<List(out)>> \o (IF t.force THEN <<Leaf(forced)>> ELSE <<>>))
  ELSE LET r == Run(IF out = <<>> THEN t.first ELSE t.body, i)
       IN CASE ~r.ok -> r
            [] r.ok /\ Peek(r.it) = "," -> RunCommas(t, Advance(r.it), out \o r.out, ",")
            [] r.ok /\ Peek(r.it) = t.close -> RunCommas(t, r.it, out \o r.out, forced)
            [] OTHER -> Err(r.it)

(* An operator or a postfix behind an operand. *)
Follower(t, block, i) ==
  LET method == Eat("MethodCallHelper", i)
      field == Eat("FieldHelper", i)
      tok == Peek(i)
      found(kind, r) == IF r.ok THEN [kind |-> kind, ok |-> TRUE, it |-> r.it, out |-> r.out]
                        ELSE [kind |-> "error", ok |-> FALSE, it |-> r.it, out |-> <<>>]
      behind(kind, first, body) ==
        LET r == Run(body, Advance(i)) IN found(kind, [r EXCEPT !.out = first \o @])
      none == [kind |-> "none", ok |-> TRUE, it |-> i, out |-> <<>>]
  IN IF method.ok THEN found("MethodCall", method)
     ELSE IF field.ok THEN found("Field", field)
     ELSE IF block THEN none
     ELSE CASE tok = "EOF" -> found("error", Err(i))
            [] tok = "(" -> found("Call", Eat("CallHelper", i))
            [] tok = "[" -> found("Index", Eat("IndexHelper", i))
            [] tok = "as" /\ CastPriority >= t.min -> behind("Cast", <<>>, Rule("Ty"))
            [] tok \in BinOps /\ Priority(tok) >= t.min ->
                 behind("Binary", <<Leaf(tok)>>, ExprTerm(Priority(tok) + 1, t.struct, FALSE))
            [] tok \in {"..", "..="} /\ RangePriority >= t.min ->
                 behind("Range", <<Leaf(tok)>>, Maybe(ExprTerm(RangePriority + 1, TRUE, FALSE)))
            [] tok = "=" /\ AssignPriority >= t.min ->
                 behind("Assign", <<>>, ExprTerm(AssignPriority + 1, TRUE, FALSE))
            [] tok \in AssignOps /\ AssignPriority >= t.min ->
                 behind("AssignOp", <<Leaf(tok)>>, ExprTerm(AssignPriority + 1, TRUE, FALSE))
            [] OTHER -> none

Followed(t, block, e, i) ==
  LET f == Follower(t, block, i)
  IN CASE ~f.ok -> Err(f.it)
       [] f.kind = "none" -> Ok(AssignId(i), <<Wrap("Expr", i.id, <<e>>)>>)
       [] OTHER -> Followed(t, block, Wrap(f.kind, 0, <<Wrap("Expr", f.it.id, <<e>>)>> \o f.out),
                            AssignId(f.it))

(* Expr::eat_with_config *)
RunExpr(t, i) ==
  LET r == RunFirst((IF t.struct THEN <<"StructExpr">> ELSE <<>>) \o PrimaryKinds, 1, i)
  IN IF r.ok THEN Followed(t, t.stmt /\ r.out[1].k \in BlockKinds, r.out[1], r.it) ELSE r

Run(t, i) ==
  CASE t.op = "tok" -> IF Peek(i) = t.t THEN Ok(Advance(i), <<>>) ELSE Err(i)
    [] t.op = "peek" -> IF Peek(i) = t.t THEN Ok(i, <<>>) ELSE Err(i)
    [] t.op = "take" -> IF Peek(i) \in t.of THEN Ok(Advance(i), <<Leaf(Peek(i))>>) ELSE Err(Advance(i))
    [] t.op = "give" -> Ok(i, <<Leaf(t.leaf)>>)
    [] t.op = "all" -> RunAll(t.of, 1, i, <<>>)
    [] t.op = "first" -> RunFirst(t.of, 1, i)
    [] t.op = "rule" -> Eat(t.name, i)
    [] t.op = "raw" -> Run(Rules[t.name], i)
    [] t.op = "node" ->
         LET r == Run(t.body, i)
         IN CASE ~r.ok -> r
              [] r.ok /\ t.id -> Ok(AssignId(r.it), <<Wrap(t.k, r.it.id, r.out)>>)
              [] OTHER -> Ok(r.it, <<Wrap(t.k, 0, r.out)>>)
    [] t.op = "if" -> CASE Peek(i) = "EOF" -> Err(i)
                        [] Peek(i) = t.t -> Run(t.body, Advance(i))
                        [] OTHER -> Run(t.other, i)
    [] t.op = "ifpeek" -> CASE Peek(i) = "EOF" -> Err(i)
                            [] Peek(i) = t.t -> Run(t.body, i)
                            [] OTHER -> Run(t.other, i)
    [] t.op = "unless" -> CASE Peek(i) = "EOF" -> Err(i)
                            [] Peek(i) \in t.of -> Nothing(i)
                            [] OTHER -> Run(t.body, i)
    [] t.op = "attempt" ->
         LET r == Run(t.body, Advance(i))
         IN CASE Peek(i) = "EOF" -> Err(i)
              [] Peek(i) = t.t /\ r.ok -> Ok(Update(i, r.it), r.out)
              [] OTHER -> Nothing(i)
    [] t.op = "maybe" -> LET r == Run(t.body, i) IN IF r.ok THEN r ELSE Nothing(i)
    [] t.op = "until" -> RunUntil(t, i, <<>>)
    [] t.op = "each" -> RunEach(t, i, <<>>)
    [] t.op = "commas" -> RunCommas(t, i, <<>>, "none")
    [] t.op = "build" -> LET r == Run(t.body, i) IN IF r.ok THEN Built(t.name, r) ELSE r
    [] t.op = "expr" -> RunExpr(t, i)

-----------------------------------------------------------------------------
(* Crate::eat; ids start at one, zero is the root's. *)
Start(input) ==
  /\ toks = input
  /\ iter = [pos |-> 1, id |-> 1]
  /\ items = <<>>
  /\ status = "eating"

EatItem ==
  /\ status = "eating" /\ iter.pos <= Len(toks)
  /\ LET r == Eat("Item", iter)
     IN IF r.ok THEN /\ iter' = r.it
                     /\ items' = items \o r.out
                     /\ UNCHANGED status
        ELSE /\ status' = "error"
             /\ UNCHANGED <<iter, items>>
  /\ UNCHANGED toks

Finish ==
  /\ status = "eating" /\ iter.pos > Len(toks)
  /\ status' = "done"
  /\ items' = <<Wrap("Crate", iter.id, items)>>
  /\ iter' = AssignId(iter)
  /\ UNCHANGED toks

Next == EatItem \/ Finish
=============================================================================
