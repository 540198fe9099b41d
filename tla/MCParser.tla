------------------------------ MODULE MCParser ------------------------------
(***************************************************************************)
(* The parser on two kinds of input: what a well-formed tree of a small    *)
(* domain is written as, which has to be read back as that tree, and every *)
(* short sequence over the tokens of one topic, most of them nonsense.     *)
(***************************************************************************)
EXTENDS Parser, Syntax, FiniteSets
LOCAL INSTANCE SequencesExt

CONSTANTS MaxTokens    \* of a sequence of arbitrary tokens

ASSUME NamesAndLiterals
ASSUME MaxTokens \in Nat

VARIABLE written       \* the tree the input was written from, or none

L(k) == Leaf(k)
N(k, parts) == Wrap(k, 0, parts)
Sets(k, parts) == {N(k, ps) : ps \in parts}
Lists(S, max) == {List(s) : s \in UNION {[1..len -> S] : len \in 0..max}}

(* The smallest path, type, pattern and expression. *)
PathOf(name) == N("Path", <<L("none"), N("Segment", <<L(name), L("none")>>), List(<<>>)>>)
TyOf(name) == N("Ty", <<N("PathTy", <<PathOf(name)>>)>>)
PatOf(name) == N("Pat", <<N("PathPat", <<PathOf(name)>>)>>)
Var(name) == N("Expr", <<N("PathExpr", <<PathOf(name)>>)>>)
X == Var("a")
T == TyOf("a")
P == PatOf("a")
None0 == L("none")
Exprs(kinds) == Sets("Expr", {<<k>> : k \in kinds})
Good(S) == {n \in S : WellFormed(n)}

(* Expressions: every operator over every two operands of one operator. *)
BinOpsUsed == {"||", "&&", "==", "|", "^", "&", "<<", "+", "-", "*"}
Infixes(left, right) ==
  Sets("Binary", {<<l, L(op), r>> : l \in left, op \in BinOpsUsed, r \in right})
  \cup Sets("Range", {<<l, L(".."), r>> : l \in left, r \in right \cup {None0}})
  \cup Sets("Assign", {<<l, r>> : l \in left, r \in right})
  \cup Sets("AssignOp", {<<l, L("+="), r>> : l \in left, r \in right})
Affixes(S) ==
  UNION {{N("Unary", <<L("-"), x>>), N("AddrOf", <<L("mut"), x>>), N("Cast", <<x, T>>),
          N("Field", <<x, L("a")>>), N("Call", <<x, List(<<x>>)>>), N("Index", <<x, x>>),
          N("MethodCall", <<x, N("Segment", <<L("a"), None0>>), List(<<>>)>>),
          N("Tup", <<List(<<x>>), None0>>), N("Tup", <<List(<<x>>), L(",")>>),
          N("Array", <<List(<<x, x>>)>>), N("Repeat", <<x, N("AnonConst", <<x>>)>>),
          N("Break", <<x>>), N("Break", <<None0>>)} : x \in S}
E1 == Good(Exprs(Infixes({X}, {X}) \cup Affixes({X}))) \cup {X}
E2 == Infixes(E1, E1) \cup Affixes(E1)

ConstOf(ty, e) == N("Item", <<N("Const", <<L("a"), ty, e>>)>>)
BlockOf(stmts) == N("Block", <<List(stmts)>>)
FnOf(params, block) == N("Item", <<N("Fn", <<L("a"), List(params), None0, block>>)>>)
Main(block) == FnOf(<<>>, block)

(* Blocks and statements: every two of a few, with and without what ends   *)
(* them.                                                                   *)
Empty == BlockOf(<<>>)
Blocks1 == {BlockOf(<<>>), BlockOf(<<N("Stmt", <<N("ExprStmt", <<X, None0>>)>>)>>)}
Shorthand == N("ExprField", <<L("a"), N("Expr", <<L("shorthand")>>)>>)
WithBlock ==
  Exprs(Blocks1 \cup {N("If", <<X, Empty, e>>) : e \in {None0} \cup Exprs({Empty, N("If", <<X, Empty, None0>>)})}
        \cup {N("While", <<X, Empty>>), N("Loop", <<Empty>>),
              N("ForLoop", <<P, N("Expr", <<N("Lit", <<L("1")>>)>>), Empty>>),
              N("ConstBlock", <<N("AnonConst", <<N("Expr", <<Empty>>)>>)>>),
              N("If", <<N("Expr", <<N("Let", <<P, X>>)>>), Empty, None0>>)}
        \cup {N("Match", <<X, List(arms)>>) :
               arms \in {<<>>, <<N("Arm", <<P, None0, X>>), N("Arm", <<P, X, N("Expr", <<Empty>>)>>)>>}})
Structs == Exprs({N("Struct", <<PathOf("a"), List(fs)>>) :
                   fs \in {<<>>, <<Shorthand>>, <<N("ExprField", <<L("a"), X>>), N("Rest", <<X>>)>>,
                           <<Shorthand, N("Rest", <<None0>>)>>}})
OfBlock == WithBlock \cup Structs
           \cup Exprs(UNION {{N("Field", <<x, L("a")>>), N("Binary", <<x, L("-"), X>>), N("Call", <<x, List(<<>>)>>),
                              N("Ret", <<x>>)} : x \in WithBlock \cup {X}} \cup {N("Continue", <<>>), N("Underscore", <<>>)})
Stmts == Good(Sets("Stmt", {<<N("ExprStmt", <<x, semi>>)>> : x \in OfBlock, semi \in {None0, L(";")}}
                           \cup {<<N("EmptyStmt", <<>>)>>, <<ConstOf(T, X)>>}
                           \cup {<<N("LocalStmt", <<P, ty, x>>)>> : ty \in {None0, T}, x \in {None0, X}}))
StmtsFew == {s \in Stmts : s.p[1].k # "ExprStmt" \/ s.p[1].p[1].p[1] \in {X.p[1], Empty}
                                \/ s.p[1].p[1].p[1].k \in {"Match", "Field"}}

(* Patterns, behind the arms of a match. *)
Pats(kinds) == Sets("Pat", {<<k>> : k \in kinds})
Literal == N("Expr", <<N("Lit", <<L("1")>>)>>)
Bounds == {None0, X, Literal, N("Expr", <<N("Unary", <<L("-"), Literal>>)>>)}
Ranges(S) == Sets("RangePat", {<<b, L(op), c>> : b \in S, op \in {"..", "..="}, c \in S})
P1 == {P} \cup Pats({N("WildPat", <<>>), N("LitPat", <<Literal>>), N("OrPat", <<P, P>>)}
        \cup Sets("IdentPat", {<<r, m, L("a"), None0>> : r \in {None0, L("ref")}, m \in {None0, L("mut")}}
                              \ {<<None0, None0, L("a"), None0>>})
        \cup Ranges(Bounds))
PFew == P1 \ Pats(Ranges(Bounds) \ Ranges({None0, Literal}))
NoAlt(S) == {x \in S : KindOf(x) # "OrPat"}
P2 == Good(Pats(Sets("RefPat", {<<m, x>> : m \in {None0, L("mut")}, x \in P1})
        \cup Sets("OrPat", {<<x, y, P>> : x \in NoAlt(PFew), y \in NoAlt(PFew)})
        \cup UNION {Sets(k, {<<l>> : l \in Lists(PFew, 2)}) : k \in {"TuplePat", "SlicePat"}}
        \cup Sets("StructPat", {<<PathOf("a"), List(fs)>> :
              fs \in {<<N("PatField", <<L("a"), x>>), N("PatField", <<L("shorthand"), P>>), N("Rest", <<>>)>> : x \in P1}})))
ArmOf(pat) == N("Stmt", <<N("ExprStmt", <<N("Expr", <<N("Match", <<X, List(<<N("Arm", <<pat, None0, X>>)>>)>>)>>), None0>>)>>)
(* Types, and the items with what they hold. *)
Tys(kinds) == Sets("Ty", {<<k>> : k \in kinds})
Two == N("Bounds", <<PathOf("a"), List(<<PathOf("b")>>)>>)
TyForms(S) ==
  UNION {{N("ArrayTy", <<t, N("AnonConst", <<X>>)>>), N("SliceTy", <<t>>), N("RefTy", <<None0, t>>), N("RefTy", <<L("mut"), t>>),
          N("TupTy", <<List(<<t>>), None0>>), N("TupTy", <<List(<<t>>), L(",")>>), N("TupTy", <<List(<<t, T>>), L(",")>>),
          N("PathTy", <<N("Path", <<L("::"), N("Segment", <<L("a"), List(<<t, T>>)>>),
                                    List(<<N("Segment", <<L("b"), None0>>)>>)>>)>>)} : t \in S}
T1 == Tys(TyForms({T}) \cup {N("InferTy", <<>>), N("ImplTraitTy", <<Two>>), N("TraitObjectTy", <<L("dyn"), Two>>)}) \cup {T}
T2 == Tys(TyForms(T1))
SelfTys == {TyOf("Self"), N("Ty", <<L("ImplicitSelf")>>)}
           \cup Tys({N("RefTy", <<m, N("Ty", <<L("ImplicitSelf")>>)>>) : m \in {None0, L("mut")}})
SelfName(mut) == N("Pat", <<N("IdentPat", <<None0, mut, L("self"), None0>>)>>)
Params == {<<N("Param", <<SelfName(None0), ty>>)>> : ty \in SelfTys \ {TyOf("Self")}}
          \cup {<<N("Param", <<SelfName(L("mut")), ty>>), N("Param", <<P, T>>)>> :
                 ty \in {TyOf("Self"), N("Ty", <<L("ImplicitSelf")>>)}}
          \cup {<<>>, <<N("Param", <<P, T>>), N("Param", <<P, T>>)>>}
Fns == {N("Fn", <<L("a"), List(ps), r, b>>) : ps \in Params, r \in {None0, T}, b \in {None0, Empty}}
Consts == Sets("Const", {<<L("a"), T, e>> : e \in {None0, X}})
Data == {L("unit")} \cup Sets("Tuple", {<<l>> : l \in Lists({N("FieldDef", <<T>>)}, 2)})
        \cup Sets("Fields", {<<l>> : l \in Lists({N("FieldDef", <<L("a"), T>>)}, 2)})
Variants == Sets("Variant", {<<L("a"), d, v>> : d \in Data, v \in {None0, N("AnonConst", <<X>>)}})
Assoc == Sets("AssocItem", {<<k>> : k \in Fns \cup Consts})
Simple == Fns \cup Consts \cup Sets("StructItem", {<<L("a"), d>> : d \in Data})
Items == Simple \cup Sets("Enum", {<<L("a"), l>> : l \in Lists(Variants, 2)})
         \cup Sets("Impl", {<<t, ty, l>> : t \in {None0, PathOf("a")}, ty \in {T}, l \in Lists(Assoc, 1)})
         \cup Sets("Trait", {<<L("a"), b, l>> : b \in {None0, Two}, l \in Lists(Assoc, 1)})
         \cup Sets("Mod", {<<L("a"), m>> : m \in {None0} \cup Lists(Sets("Item", {<<k>> : k \in Simple}), 1)})

(* A tree to be read back, and the arbitrary sequences of each topic. *)
Reads(t) == written = t /\ WellFormed(t) /\ Start(Yield(t))
Reading ==
  \/ \E k \in E2 : Reads(ConstOf(T, N("Expr", <<k>>)))
  \/ \E s \in Stmts, t \in StmtsFew : Reads(Main(BlockOf(<<s, t>>)))
  \/ \E p \in P1 \cup P2 : Reads(Main(BlockOf(<<ArmOf(p)>>)))
  \/ \E t \in T2 : Reads(ConstOf(t, X))
  \/ \E k \in Items : Reads(N("Item", <<k>>))

Around(before, S, after) ==
  \E len \in 0..MaxTokens : \E s \in [1..len -> S] : written = None0 /\ Start(before \o s \o after)
InConst(S) == Around(<<"const", "a", ":", "a", "=">>, S, <<";">>)
InFn(S) == Around(<<"fn", "a", "(", ")", "{">>, S, <<"}">>)
Nonsense ==
  \/ InConst({"a", "+", "-", "(", ")"}) \/ InConst({"a", "..", "=", "==", "."})
  \/ InConst({"a", "as", "[", "]", "&&"}) \/ InConst({"a", "break", "(", ")", "-"})
  \/ InFn({"a", ";", "{", "}", "-"}) \/ InFn({"if", "(", "a", ")", "{", "}"})
  \/ Around(<<"fn", "a", "(", ")", "{", "match", "a", "{">>, {"a", "|", "..", "=>", ",", "-"}, <<"}", "}">>)
  \/ Around(<<"const", "a", ":">>, {"a", "&&", "[", "]", "<", ">"}, <<";">>)
  \/ Around(<<"fn", "a", "(">>, {"self", "&", "mut", ":", "a"}, <<")", ";">>)
  \/ Around(<<"mod", "a", ";">>, {"struct", "mod", "a", "{", "}", ";"}, <<>>)

MCInit == Reading \/ Nonsense
MCNext == Next /\ UNCHANGED written
MCSpec == MCInit /\ [][MCNext]_<<vars, written>>

(* Comparisons as arguments, which look like a path with generics. *)
Comparisons == Exprs({N("Binary", <<x, L(op), y>>) : x \in {X, Var("b")}, op \in {"<", ">"}, y \in {X, Var("b")}})
GenericInit ==
  \E x \in Comparisons, y \in Comparisons :
    /\ written = ConstOf(T, N("Expr", <<N("Call", <<X, List(<<x, y>>)>>)>>))
    /\ Start(Yield(written))
GenericSpec == GenericInit /\ [][MCNext]_<<vars, written>>

-----------------------------------------------------------------------------
(* What a tree is written as is read back as that tree: the priorities and *)
(* the order of the alternatives in src/ast agree with the levels of the   *)
(* grammar, and no rule takes a token that belongs to its context.         *)
ParsesBack ==
  ~Absent(written) /\ status # "eating" =>
    status = "done" /\ [j \in 1..Len(items[1].p) |-> Strip(items[1].p[j])] = <<written>>

(* An accepted input is the writing of the tree that was built, except for *)
(* commas before a closing bracket or behind a block and the bar that may  *)
(* open a pattern, and the tree is one the grammar has: no alternative     *)
(* that failed after reading leaves its tokens out or its part in.         *)
Closers == {")", "]", "}", ">"}
Optional(s, j) ==
  \/ s[j] = "," /\ (s[j + 1] \in Closers \/ s[j - 1] = "}")
  \/ s[j] = "|" /\ s[j - 1] \in {"(", "[", "{", ",", "let", "}"}
Normal(s) ==
  FlattenSeq([j \in 1..Len(s) |->
    IF j \in 2..Len(s) - 1 /\ Optional(s, j) THEN <<>> ELSE IF s[j] = "&&" THEN <<"&", "&">> ELSE <<s[j]>>])
NothingLost ==
  status = "done" => WellFormed(items[1]) /\ Normal(Yield(items[1])) = Normal(toks)

(* The side tables of the analyzer are keyed by node id: no two nodes of   *)
(* the tree share one, whatever was read twice on the way, and every id is *)
(* below the next one and none is the root's zero.                         *)
IdsDistinct ==
  status = "done" =>
    LET ids == Ids(items[1])
    IN Cardinality(ToSet(ids)) = Len(ids) /\ ToSet(ids) \subseteq 1..iter.id - 1
=============================================================================
