------------------------------- MODULE Grammar -------------------------------
(***************************************************************************)
(* What each eat_impl of src/ast asks for, as data: a rule is a term that  *)
(* the parser of module Parser runs over the tokens.  The terms are the    *)
(* macros of src/ast.rs and the few forms the rules write by hand.  A      *)
(* token stands for its TokenType; identifiers and literals keep a lexeme, *)
(* which is what the tree holds of them.  Positions and texts of errors    *)
(* are left out.                                                           *)
(***************************************************************************)
EXTENDS Integers, Sequences

CONSTANTS Names,     \* lexemes of identifiers
          Literals   \* lexemes of literals, "true" and "false" among them

NamesAndLiterals == Names \cap Literals = {}

(* Terms.  Each yields a sequence of nodes. *)
Tok(t) == [op |-> "tok", t |-> t]                      \* match_keyword!
PeekTok(t) == [op |-> "peek", t |-> t]                 \* peek_keyword!
Take(of) == [op |-> "take", of |-> of]                 \* next()?.try_into()?
Give(leaf) == [op |-> "give", leaf |-> leaf]           \* nothing to read
All(of) == [op |-> "all", of |-> of]                   \* one after the other
First(of) == [op |-> "first", of |-> of]               \* kind_check!
Rule(name) == [op |-> "rule", name |-> name]           \* X::eat, which restores
Raw(name) == [op |-> "raw", name |-> name]             \* X::eat_impl, which does not
Node(k, body) == [op |-> "node", k |-> k, body |-> body, id |-> FALSE]
Ided(k, body) == [op |-> "node", k |-> k, body |-> body, id |-> TRUE]
If(t, body, other) == [op |-> "if", t |-> t, body |-> body, other |-> other]
IfPeek(t, body, other) == [op |-> "ifpeek", t |-> t, body |-> body, other |-> other]
Unless(of, body) == [op |-> "unless", of |-> of, body |-> body]
Attempt(t, body) == [op |-> "attempt", t |-> t, body |-> body]
Maybe(body) == [op |-> "maybe", body |-> body]         \* eat(iter).ok()
Until(close, body) == [op |-> "until", close |-> close, body |-> body]
Each(t, body) == [op |-> "each", t |-> t, body |-> body]
CommasFrom(close, first, body, force) ==               \* loop_until! with skip_keyword_or_break!
  [op |-> "commas", close |-> close, first |-> first, body |-> body, force |-> force]
Build(name, body) == [op |-> "build", name |-> name, body |-> body]
ExprTerm(min, struct, stmt) == [op |-> "expr", min |-> min, struct |-> struct, stmt |-> stmt]

None == Give("none")
Opt(t, body) == If(t, body, None)
Flag(t) == If(t, Give(t), None)
Commas(close, body) == CommasFrom(close, body, body, FALSE)
Ident == Take(Names \cup {"self", "Self"})

(* Priorities of ast/expr.rs. *)
AssignPriority == 1
RangePriority == 5
CastPriority == 500
UnaryPriority == 1000000
(* A mutant: bitwise operators loosest, as in C. *)
PriorityOfC(op) ==
  CASE op = "||" -> 10
    [] op = "&&" -> 20
    [] op = "|" -> 22
    [] op = "^" -> 24
    [] op = "&" -> 26
    [] op \in {"==", "!=", "<", ">", "<=", ">="} -> 30
    [] op \in {"<<", ">>"} -> 70
    [] op \in {"+", "-"} -> 80
    [] op \in {"*", "/", "%"} -> 90
Priority(op) ==
  CASE op = "||" -> 10
    [] op = "&&" -> 20
    [] op \in {"==", "!=", "<", ">", "<=", ">="} -> 30
    [] op = "|" -> 40
    [] op = "^" -> 50
    [] op = "&" -> 60
    [] op \in {"<<", ">>"} -> 70
    [] op \in {"+", "-"} -> 80
    [] op \in {"*", "/", "%"} -> 90
BinOps == {"||", "&&", "==", "!=", "<", ">", "<=", ">=", "|", "^", "&", "<<", ">>",
           "+", "-", "*", "/", "%"}
AssignOps == {"+=", "-=", "*=", "/=", "%=", "^=", "&=", "|=", "<<=", ">>="}

(* Paths and generics. *)
Path == Node("Path", All(<<Flag("::"), Rule("PathSegment"), Each("::", Rule("PathSegment"))>>))
PathSegment == Node("Segment", All(<<Ident, Attempt("<", Commas(">", Rule("Ty")))>>))
GenericBounds == Node("Bounds", All(<<Rule("Path"), Each("+", Rule("Path"))>>))

(* Types. *)
Ty == Ided("Ty", First(<<"PathTy", "ArrayTy", "SliceTy", "RefTy", "TupTy", "TraitObjectTy",
                         "ImplTraitTy", "InferTy">>))
PathTy == Node("PathTy", Rule("Path"))
ArrayTy == Node("ArrayTy", All(<<Tok("["), Rule("Ty"), Tok(";"), Rule("AnonConst"), Tok("]")>>))
SliceTy == Node("SliceTy", All(<<Tok("["), Rule("Ty"), Tok("]")>>))
MutTy == All(<<Flag("mut"), Rule("Ty")>>)
RefTy == If("&&", Node("RefTy", All(<<None, Ided("Ty", Node("RefTy", MutTy))>>)),
            All(<<Tok("&"), Node("RefTy", MutTy)>>))
TupTy == Node("TupTy", All(<<Tok("("), CommasFrom(")", Rule("Ty"), Rule("Ty"), TRUE)>>))
TraitObjectTy == Build("TraitObjectTy", Node("TraitObjectTy", All(<<Flag("dyn"), Rule("GenericBounds")>>)))
ImplTraitTy == Node("ImplTraitTy", All(<<Tok("impl"), Rule("GenericBounds")>>))
InferTy == Node("InferTy", Tok("_"))

(* Patterns.  A path comes before an identifier, so that IdentPat is only  *)
(* reached behind ref or mut; its "@" is looked at and never taken.        *)
Pat == Build("Pat", All(<<Flag("|"), Raw("PatNoAlt"), Each("|", Raw("PatNoAlt"))>>))
PatNoAlt == Ided("Pat", First(<<"StructPat", "RangePat", "PathPat", "IdentPat", "RefPat", "TuplePat",
                                "SlicePat", "LitPat", "RestPat", "WildPat">>))
PatNoRange == Ided("Pat", First(<<"StructPat", "PathPat", "IdentPat", "RefPat", "TuplePat",
                                  "SlicePat", "LitPat", "RestPat", "WildPat">>))
BindingMode == All(<<Flag("ref"), Flag("mut")>>)
IdentPat == Node("IdentPat", All(<<BindingMode, Ident, IfPeek("@", Raw("PatNoAlt"), None)>>))
PathPat == Node("PathPat", Rule("Path"))
RefPat == Node("RefPat", All(<<Tok("&"), Flag("mut"), Raw("PatNoRange")>>))
StructPat ==
  Node("StructPat", All(<<Rule("Path"), Tok("{"),
       Commas("}", If("..", Node("Rest", PeekTok("}")), Rule("PatField")))>>))
PatField == Ided("PatField", Build("PatField", All(<<Rule("Pat"), Opt(":", Rule("Pat"))>>)))
TuplePat == Node("TuplePat", All(<<Tok("("), Commas(")", Rule("Pat"))>>))
SlicePat == Node("SlicePat", All(<<Tok("["), Commas("]", Rule("Pat"))>>))
LitBound == LET lit == Ided("Expr", Rule("LitExpr"))
            IN If("-", Ided("Expr", Node("Unary", All(<<Give("-"), lit>>))), lit)
PathBound == Ided("Expr", Node("PathExpr", Rule("Path")))
RangePat == LET bound == Maybe(First(<<"LitBound", "PathBound">>))
            IN Node("RangePat", All(<<bound, Take({"..", "..="}), bound>>))
LitPat == Node("LitPat", Rule("LitBound"))
RestPat == Node("RestPat", Tok(".."))
WildPat == Node("WildPat", Tok("_"))

(* Expressions without the operators that follow them. *)
Expr == ExprTerm(0, TRUE, FALSE)
ExprNoStruct == ExprTerm(0, FALSE, FALSE)
Operand == ExprTerm(UnaryPriority + 1, TRUE, FALSE)
PrimaryKinds == <<"PathExpr", "ArrayExpr", "RepeatExpr", "UnaryExpr", "LitExpr", "LetExpr", "BlockExpr",
                  "IfExpr", "MatchExpr", "WhileExpr", "ForLoopExpr", "LoopExpr", "BreakExpr",
                  "ContinueExpr", "AddrOfExpr", "TupExpr", "ConstBlockExpr", "UnderscoreExpr", "RetExpr">>
BlockKinds == {"Block", "ConstBlock", "Loop", "ForLoop", "While", "If", "Match"}
LitExpr == Node("Lit", Take(Literals))
UnaryExpr == Node("Unary", All(<<Take({"*", "!", "-"}), Operand>>))
LetExpr == Node("Let", All(<<Tok("let"), Rule("Pat"), Tok("="), ExprNoStruct>>))
ArrayExpr == Node("Array", All(<<Tok("["), Commas("]", Rule("Expr"))>>))
AnonConst == Ided("AnonConst", Rule("Expr"))
RepeatExpr == Node("Repeat", All(<<Tok("["), Rule("Expr"), Tok(";"), Rule("AnonConst"), Tok("]")>>))
BlockExpr == Ided("Block", Build("Block", All(<<Tok("{"), Until("}", Rule("Stmt"))>>)))
PathExpr == Node("PathExpr", Rule("Path"))
TupExpr == Node("Tup", All(<<Tok("("), CommasFrom(")", Rule("Expr"), Rule("Expr"), TRUE)>>))
CallHelper == All(<<Tok("("), Commas(")", Rule("Expr"))>>)
IndexHelper == All(<<Tok("["), Rule("Expr"), Tok("]")>>)
FieldHelper == All(<<Tok("."), Ident>>)
MethodCallHelper == All(<<Tok("."), Rule("PathSegment"), Rule("CallHelper")>>)
IfExpr ==
  Node("If", All(<<Tok("if"), Tok("("), ExprNoStruct, Tok(")"), Rule("BlockExpr"),
       Opt("else", Ided("Expr", First(<<"IfExpr", "BlockExpr">>)))>>))
MatchExpr == Node("Match", All(<<Tok("match"), ExprNoStruct, Tok("{"),
                  Until("}", Build("MatchArm", All(<<Rule("Arm"), Flag(",")>>)))>>))
Arm == Ided("Arm", All(<<Rule("Pat"), Opt("if", Rule("Expr")), Tok("=>"), Rule("Expr")>>))
ForLoopExpr == Node("ForLoop", All(<<Tok("for"), Rule("Pat"), Tok("in"), Rule("Expr"), Rule("BlockExpr")>>))
LoopExpr == Node("Loop", All(<<Tok("loop"), Rule("BlockExpr")>>))
WhileExpr == Node("While", All(<<Tok("while"), Tok("("), Rule("Expr"), Tok(")"), Rule("BlockExpr")>>))
StructExpr ==
  Node("Struct", All(<<Rule("Path"), Tok("{"),
       Commas("}", If("..", Node("Rest", All(<<Unless({",", "}"}, Rule("Expr")), PeekTok("}")>>)),
                      Rule("ExprField")))>>))
ExprField == Ided("ExprField", All(<<Ident, If(":", Rule("Expr"), Ided("Expr", Give("shorthand")))>>))
BreakExpr == Node("Break", All(<<Tok("break"), Maybe(Rule("Expr"))>>))
ContinueExpr == Node("Continue", Tok("continue"))
RetExpr == Node("Ret", All(<<Tok("return"), Maybe(Rule("Expr"))>>))
AddrOfExpr == LET inner == Node("AddrOf", All(<<Flag("mut"), Operand>>))
              IN If("&&", Node("AddrOf", All(<<None, Ided("Expr", inner)>>)), All(<<Tok("&"), inner>>))
ConstBlockExpr == Node("ConstBlock", All(<<Tok("const"), Ided("AnonConst", Ided("Expr", Rule("BlockExpr")))>>))
UnderscoreExpr == Node("Underscore", Tok("_"))

(* Statements. *)
Stmt == Ided("Stmt", First(<<"LocalStmt", "Item", "ExprStmt", "EmptyStmt">>))
LocalStmt == Ided("LocalStmt", All(<<Tok("let"), Raw("PatNoAlt"), Opt(":", Rule("Ty")),
                                     Opt("=", Rule("Expr")), Tok(";")>>))
ExprStmt == Node("ExprStmt", All(<<ExprTerm(0, TRUE, TRUE), Flag(";")>>))
EmptyStmt == Node("EmptyStmt", Tok(";"))

(* Items. *)
Item == Ided("Item", First(<<"ConstItem", "FnItem", "EnumItem", "StructItem", "ImplItem", "ModItem",
                             "TraitItem">>))
AssocItem == Ided("AssocItem", First(<<"ConstItem", "FnItem">>))
Param(built) == Ided("Param", Build(built, All(<<Raw("PatNoAlt"), Opt(":", Rule("Ty"))>>)))
FnDecl == All(<<Tok("("), CommasFrom(")", Param("SelfParam"), Param("Param"), FALSE),
                Opt("->", Rule("Ty"))>>)
FnItem == Node("Fn", All(<<Tok("fn"), Ident, Rule("FnDecl"), If(";", None, Rule("BlockExpr"))>>))
ConstItem == Node("Const", All(<<Tok("const"), Ident, Tok(":"), Rule("Ty"), Opt("=", Rule("Expr")), Tok(";")>>))
EnumItem == Node("Enum", All(<<Tok("enum"), Ident, Tok("{"), Commas("}", Rule("Variant"))>>))
Variant == Ided("Variant", All(<<Ident, Rule("VariantData"), Opt("=", Rule("AnonConst"))>>))
NamedField == Ided("FieldDef", All(<<Ident, Tok(":"), Rule("Ty")>>))
TupleField == Ided("FieldDef", Rule("Ty"))
VariantData == If("{", Node("Fields", Commas("}", NamedField)),
                  If("(", Node("Tuple", Commas(")", TupleField)), Give("unit")))
StructItem == Node("StructItem", All(<<Tok("struct"), Ident,
                   IfPeek("{", Rule("VariantData"), All(<<Rule("VariantData"), Tok(";")>>))>>))
ImplItem == Node("Impl", All(<<Tok("impl"), Build("ImplHead", All(<<Rule("Ty"), Opt("for", Rule("Ty"))>>)),
                               Tok("{"), Until("}", Rule("AssocItem"))>>))
ModItem == Node("Mod", All(<<Tok("mod"), Ident, If("{", Until("}", Rule("Item")), All(<<Tok(";"), None>>))>>))
TraitItem == Node("Trait", All(<<Tok("trait"), Ident, Opt(":", Rule("GenericBounds")),
                                 Tok("{"), Until("}", Rule("AssocItem"))>>))

(* The rules by name. *)
Rules == [
  Path |-> Path, PathSegment |-> PathSegment, GenericBounds |-> GenericBounds, Ty |-> Ty,
  PathTy |-> PathTy, ArrayTy |-> ArrayTy, SliceTy |-> SliceTy, RefTy |-> RefTy, TupTy |-> TupTy,
  TraitObjectTy |-> TraitObjectTy, ImplTraitTy |-> ImplTraitTy, InferTy |-> InferTy, Pat |-> Pat,
  PatNoAlt |-> PatNoAlt, PatNoRange |-> PatNoRange, IdentPat |-> IdentPat, PathPat |-> PathPat,
  RefPat |-> RefPat, StructPat |-> StructPat, PatField |-> PatField, TuplePat |-> TuplePat,
  SlicePat |-> SlicePat, LitBound |-> LitBound, PathBound |-> PathBound, RangePat |-> RangePat,
  LitPat |-> LitPat, RestPat |-> RestPat, WildPat |-> WildPat, Expr |-> Expr, LitExpr |-> LitExpr,
  UnaryExpr |-> UnaryExpr, LetExpr |-> LetExpr, ArrayExpr |-> ArrayExpr, AnonConst |-> AnonConst,
  RepeatExpr |-> RepeatExpr, BlockExpr |-> BlockExpr, PathExpr |-> PathExpr, TupExpr |-> TupExpr,
  CallHelper |-> CallHelper, IndexHelper |-> IndexHelper, FieldHelper |-> FieldHelper,
  MethodCallHelper |-> MethodCallHelper, IfExpr |-> IfExpr, MatchExpr |-> MatchExpr, Arm |-> Arm,
  ForLoopExpr |-> ForLoopExpr, LoopExpr |-> LoopExpr, WhileExpr |-> WhileExpr, StructExpr |-> StructExpr,
  ExprField |-> ExprField, BreakExpr |-> BreakExpr, ContinueExpr |-> ContinueExpr, RetExpr |-> RetExpr,
  AddrOfExpr |-> AddrOfExpr, ConstBlockExpr |-> ConstBlockExpr, UnderscoreExpr |-> UnderscoreExpr,
  Stmt |-> Stmt, LocalStmt |-> LocalStmt, ExprStmt |-> ExprStmt, EmptyStmt |-> EmptyStmt, Item |-> Item,
  AssocItem |-> AssocItem, FnDecl |-> FnDecl, FnItem |-> FnItem, ConstItem |-> ConstItem,
  EnumItem |-> EnumItem, Variant |-> Variant, VariantData |-> VariantData, StructItem |-> StructItem,
  ImplItem |-> ImplItem, ModItem |-> ModItem, TraitItem |-> TraitItem]
=============================================================================
