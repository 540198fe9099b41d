------------------------------- MODULE Syntax -------------------------------
(***************************************************************************)
(* What a syntax tree says, independently of how it is parsed: the tokens  *)
(* it stands for (Yield), and which trees the grammar has (WellFormed).    *)
(* Operators have levels and no operand may be extended: an expression     *)
(* never stops before a token it could have taken.                         *)
(***************************************************************************)
EXTENDS Integers, Sequences
LOCAL INSTANCE SequencesExt

Absent(n) == n.k = "none"
KindOf(n) == n.p[1].k          \* of a Ty, a Pat, an Expr or a Stmt

-----------------------------------------------------------------------------
(* The tokens of a tree; a list is written with commas where its rule has  *)
(* them.                                                                   *)
RECURSIVE Yield(_), Strip(_), Ids(_), Level(_), Takes(_, _), WellFormed(_)

Joined(list, sep) ==
  FlattenSeq([j \in 1..Len(list.p) |-> (IF j > 1 THEN sep ELSE <<>>) \o Yield(list.p[j])])

(* A self parameter is written without its type. *)
YieldParam(pat, ty) ==
  LET ref == ty.p[1]
  IN CASE ref.k = "ImplicitSelf" -> Yield(pat)
       [] ref.k = "RefTy" /\ KindOf(ref.p[2]) = "ImplicitSelf" ->
            <<"&">> \o Yield(ref.p[1]) \o Yield(pat)
       [] OTHER -> Yield(pat) \o <<":">> \o Yield(ty)

Yield(n) ==
  LET p == n.p
      Y(j) == Yield(p[j])
      All == FlattenSeq([j \in 1..Len(p) |-> Y(j)])
      Items(j) == Joined(p[j], <<>>)
      Commas(j) == Joined(p[j], <<",">>)
      Led(t, j) == IF Absent(p[j]) THEN <<>> ELSE <<t>> \o Y(j)
      Forced(j) == IF p[j].k = "," /\ Len(p[1].p) = 1 THEN <<",">> ELSE <<>>
  IN CASE n.k \in {"none", "unit", "ImplicitSelf"} -> <<>>
       [] n.k \in {"InferTy", "WildPat", "Underscore"} -> <<"_">>
       [] n.k = "EmptyStmt" -> <<";">>
       [] n.k = "Continue" -> <<"continue">>
       [] n.k = "Path" -> Y(1) \o Y(2) \o FlattenSeq([j \in 1..Len(p[3].p) |-> <<"::">> \o Yield(p[3].p[j])])
       [] n.k = "Segment" -> Y(1) \o (IF Absent(p[2]) THEN <<>> ELSE <<"<">> \o Commas(2) \o <<">">>)
       [] n.k = "Bounds" -> Y(1) \o FlattenSeq([j \in 1..Len(p[2].p) |-> <<"+">> \o Yield(p[2].p[j])])
       [] n.k \in {"ArrayTy", "Repeat"} -> <<"[">> \o Y(1) \o <<";">> \o Y(2) \o <<"]">>
       [] n.k = "SliceTy" -> <<"[">> \o Y(1) \o <<"]">>
       [] n.k \in {"RefTy", "RefPat", "AddrOf"} -> <<"&">> \o All
       [] n.k \in {"TupTy", "Tup"} -> <<"(">> \o Commas(1) \o Forced(2) \o <<")">>
       [] n.k = "ImplTraitTy" -> <<"impl">> \o All
       [] n.k = "IdentPat" -> Y(1) \o Y(2) \o Y(3)
       [] n.k = "OrPat" -> Joined(n, <<"|">>)
       [] n.k \in {"StructPat", "Struct"} -> Y(1) \o <<"{">> \o Commas(2) \o <<"}">>
       [] n.k \in {"PatField", "ExprField"} ->
            IF p[1].k = "shorthand" THEN Y(2)
            ELSE IF KindOf(p[2]) = "shorthand" THEN Y(1)
            ELSE Y(1) \o <<":">> \o Y(2)
       [] n.k = "Rest" -> <<"..">> \o All
       [] n.k = "TuplePat" -> <<"(">> \o Commas(1) \o <<")">>
       [] n.k \in {"SlicePat", "Array"} -> <<"[">> \o Commas(1) \o <<"]">>
       [] n.k = "Call" -> Y(1) \o <<"(">> \o Commas(2) \o <<")">>
       [] n.k = "MethodCall" -> Y(1) \o <<".">> \o Y(2) \o <<"(">> \o Commas(3) \o <<")">>
       [] n.k = "Field" -> Y(1) \o <<".">> \o Y(2)
       [] n.k = "Index" -> Y(1) \o <<"[">> \o Y(2) \o <<"]">>
       [] n.k = "Cast" -> Y(1) \o <<"as">> \o Y(2)
       [] n.k = "Assign" -> Y(1) \o <<"=">> \o Y(2)
       [] n.k = "Let" -> <<"let">> \o Y(1) \o <<"=">> \o Y(2)
       [] n.k = "Block" -> <<"{">> \o Items(1) \o <<"}">>
       [] n.k = "If" -> <<"if", "(">> \o Y(1) \o <<")">> \o Y(2) \o Led("else", 3)
       [] n.k = "While" -> <<"while", "(">> \o Y(1) \o <<")">> \o Y(2)
       [] n.k = "Loop" -> <<"loop">> \o Y(1)
       [] n.k = "ForLoop" -> <<"for">> \o Y(1) \o <<"in">> \o Y(2) \o Y(3)
       [] n.k = "Match" -> <<"match">> \o Y(1) \o <<"{">> \o Commas(2) \o <<"}">>
       [] n.k = "Arm" -> Y(1) \o Led("if", 2) \o <<"=>">> \o Y(3)
       [] n.k = "Break" -> <<"break">> \o Y(1)
       [] n.k = "Ret" -> <<"return">> \o Y(1)
       [] n.k = "ConstBlock" -> <<"const">> \o Y(1)
       [] n.k = "LocalStmt" -> <<"let">> \o Y(1) \o Led(":", 2) \o Led("=", 3) \o <<";">>
       [] n.k = "Param" -> YieldParam(p[1], p[2])
       [] n.k = "Fn" -> <<"fn">> \o Y(1) \o <<"(">> \o Commas(2) \o <<")">> \o Led("->", 3)
                        \o (IF Absent(p[4]) THEN <<";">> ELSE Y(4))
       [] n.k = "Const" -> <<"const">> \o Y(1) \o <<":">> \o Y(2) \o Led("=", 3) \o <<";">>
       [] n.k = "Enum" -> <<"enum">> \o Y(1) \o <<"{">> \o Commas(2) \o <<"}">>
       [] n.k = "Variant" -> Y(1) \o Y(2) \o Led("=", 3)
       [] n.k = "Fields" -> <<"{">> \o Commas(1) \o <<"}">>
       [] n.k = "Tuple" -> <<"(">> \o Commas(1) \o <<")">>
       [] n.k = "FieldDef" -> IF Len(p) = 1 THEN Y(1) ELSE Y(1) \o <<":">> \o Y(2)
       [] n.k = "StructItem" -> <<"struct">> \o All \o (IF p[2].k = "Fields" THEN <<>> ELSE <<";">>)
       [] n.k = "Impl" -> <<"impl">> \o Y(1) \o (IF Absent(p[1]) THEN <<>> ELSE <<"for">>) \o Y(2)
                          \o <<"{">> \o Items(3) \o <<"}">>
       [] n.k = "Mod" -> <<"mod">> \o Y(1)
                         \o (IF Absent(p[2]) THEN <<";">> ELSE <<"{">> \o Items(2) \o <<"}">>)
       [] n.k = "Trait" -> <<"trait">> \o Y(1) \o Led(":", 2) \o <<"{">> \o Items(3) \o <<"}">>
       [] n.k \in {"Ty", "PathTy", "TraitObjectTy", "Pat", "PathPat", "RangePat", "LitPat", "Expr", "Lit",
                   "Unary", "AnonConst", "PathExpr", "Binary", "Range", "AssignOp", "Stmt", "ExprStmt",
                   "Item", "AssocItem", "Crate"} -> All
       [] OTHER -> <<n.k>>

(* The tree without its ids, and its ids. *)
Strip(n) == [k |-> n.k, id |-> 0, p |-> [j \in 1..Len(n.p) |-> Strip(n.p[j])]]
Ids(n) == (IF n.id = 0 THEN <<>> ELSE <<n.id>>) \o FlattenSeq([j \in 1..Len(n.p) |-> Ids(n.p[j])])

-----------------------------------------------------------------------------
(* Levels of operators, from the loosest. *)
LevelOf == [
  assign |-> 1, range |-> 2, cast |-> 12, unary |-> 13, postfix |-> 14]
BinaryLevel(op) ==
  CASE op = "||" -> 3 [] op = "&&" -> 4 [] op \in {"==", "!=", "<", ">", "<=", ">="} -> 5
    [] op = "|" -> 6 [] op = "^" -> 7 [] op = "&" -> 8 [] op \in {"<<", ">>"} -> 9
    [] op \in {"+", "-"} -> 10 [] op \in {"*", "/", "%"} -> 11
OwnLevel(e) ==                 \* e is the kind of an expression
  CASE e.k = "Binary" -> BinaryLevel(e.p[2].k)
    [] e.k \in {"Assign", "AssignOp"} -> LevelOf.assign
    [] e.k = "Range" -> LevelOf.range
    [] e.k = "Cast" -> LevelOf.cast
    [] e.k \in {"Unary", "AddrOf"} -> LevelOf.unary
    [] OTHER -> LevelOf.postfix

Infix == {"Binary", "Range", "Assign", "AssignOp"}
Postfix == {"MethodCall", "Field", "Call", "Index"}
RightOf(e) == e.p[Len(e.p)]
LeftFirst == Infix \cup Postfix \cup {"Cast"}
OpOf(e) == CASE e.k \in {"Binary", "Range", "AssignOp"} -> e.p[2].k
             [] e.k = "Assign" -> "="
             [] e.k = "Cast" -> "as"
             [] e.k \in {"MethodCall", "Field"} -> "."
             [] e.k = "Call" -> "("
             [] e.k = "Index" -> "["

(* The loosest operator on the way to the leftmost operand. *)
Least(a, b) == IF a < b THEN a ELSE b
Level(x) == LET e == x.p[1]
            IN IF e.k \in LeftFirst THEN Least(OwnLevel(e), Level(e.p[1])) ELSE OwnLevel(e)

(* Would the end of x have taken an operator o of this level for itself? *)
Begins == {"-", "*", "&", "&&", "(", "["}      \* operators an operand can begin with
Takes(x, o) ==
  LET e == x.p[1]
  IN CASE e.k \in Infix /\ ~Absent(RightOf(e)) -> o.level > OwnLevel(e) \/ Takes(RightOf(e), o)
       [] e.k \in {"Unary", "AddrOf"} -> o.level = LevelOf.postfix \/ Takes(RightOf(e), o)
       [] e.k = "Let" -> TRUE
       [] e.k \in {"Break", "Ret", "Range"} /\ Absent(RightOf(e)) -> o.op \in Begins
       [] e.k \in {"Break", "Ret"} /\ ~Absent(RightOf(e)) -> TRUE
       [] OTHER -> FALSE

(* A statement that begins with a block goes on with a field or method only. *)
RECURSIVE BlockFirst(_), OnlyFields(_), Structless(_)
BlockKindNames == {"Block", "ConstBlock", "Loop", "ForLoop", "While", "If", "Match"}
BlockFirst(x) == LET e == x.p[1]
                 IN IF e.k \in LeftFirst THEN BlockFirst(e.p[1]) ELSE e.k \in BlockKindNames
OnlyFields(x) == LET e == x.p[1]
                 IN \/ e.k \in BlockKindNames
                    \/ e.k \in {"MethodCall", "Field"} /\ OnlyFields(e.p[1])
(* No struct literal where a block may follow. *)
Structless(x) == LET e == x.p[1]
                 IN /\ e.k # "Struct"
                    /\ e.k \in LeftFirst => Structless(e.p[1])
                    /\ e.k = "Binary" => Structless(e.p[3])

StatementsSeparated(stmts) ==
  /\ \A j \in 1..Len(stmts) - 1 :
       KindOf(stmts[j]) = "ExprStmt" /\ Absent(stmts[j].p[1].p[2]) => KindOf(stmts[j + 1]) # "EmptyStmt"
  /\ LET some == SelectSeq(stmts, LAMBDA s : KindOf(s) # "Item")
     IN \A j \in 1..Len(some) - 1 :
          KindOf(some[j]) = "ExprStmt" /\ Absent(some[j].p[1].p[2])
            => KindOf(some[j].p[1].p[1]) \in BlockKindNames

WellFormed(n) ==
  /\ CASE n.k = "Expr" /\ n.p[1].k \in LeftFirst ->
            LET e == n.p[1] IN ~Takes(e.p[1], [op |-> OpOf(e), level |-> OwnLevel(e)])
       [] n.k \in Infix -> ~Absent(RightOf(n)) => Level(RightOf(n)) > OwnLevel(n)
       [] n.k \in {"Unary", "AddrOf"} -> Level(RightOf(n)) >= LevelOf.unary
       [] n.k = "Call" -> KindOf(n.p[1]) # "Field"
       [] n.k \in {"If", "Match"} -> Structless(n.p[1])
       [] n.k = "Let" -> Structless(n.p[2])
       [] n.k = "Block" -> StatementsSeparated(n.p[1].p)
       [] n.k = "ExprStmt" -> BlockFirst(n.p[1]) => OnlyFields(n.p[1])
       [] n.k = "RefPat" -> /\ KindOf(n.p[2]) \notin {"RangePat", "OrPat"}
                            /\ Absent(n.p[1]) => Yield(n.p[2])[1] # "mut"
       [] n.k = "TraitObjectTy" -> ~Absent(n.p[1])
       [] OTHER -> TRUE
  /\ \A j \in 1..Len(n.p) : WellFormed(n.p[j])
=============================================================================
