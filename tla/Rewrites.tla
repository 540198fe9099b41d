------------------------------ MODULE Rewrites ------------------------------
(***************************************************************************)
(* The two passes that rewrite single instructions: the algebraic          *)
(* simplification, a worklist that replaces an instruction by a simpler    *)
(* value and looks at that value's users again, and the strength reduction,*)
(* one sweep that turns multiplications and divisions by powers of two     *)
(* into shifts and masks.                                                  *)
(*                                                                         *)
(* The function is a row of SSA instructions without loops, its arguments  *)
(* and constants the leaves; a phi takes its first or its second incoming  *)
(* with the path control came along.  A constant is a number and where it  *)
(* was made: two of the same number are two values to the code.  Null and  *)
(* undefined constants are not among them: nothing makes the first, and    *)
(* what mem2reg and the inlining leave of the second is theirs.            *)
(***************************************************************************)
EXTENDS CoreInt, Sequences, FiniteSets, Functions

CONSTANTS
  Bits,        \* the width of the arguments and of the constants
  Consts,      \* the constants that occur, as numbers
  ArgValues,   \* the values an argument is given
  FirstOps, SecondOps   \* what the two instructions may do

ASSUME BitsAssumption == Bits \in Widths \ {1} /\ Consts \subseteq Nat /\ ArgValues \subseteq Nat

Casts == {"trunc", "zext", "sext"}
Insts == 1..2
Args  == {"x", "y"}

Arg(a)   == [of |-> "arg",   is |-> a, int |-> None]
Lit(c)   == [of |-> "const", is |-> "source", int |-> c]
Again(c) == [of |-> "const", is |-> "again", int |-> c]   \* the same number written once more
Made(c)  == [of |-> "const", is |-> "pass", int |-> c]    \* a constant the passes add
Global(c) == [of |-> "global", is |-> "", int |-> c]      \* the address of a constant item
Res(i)   == [of |-> IF i = 1 THEN "first" ELSE "second", is |-> "", int |-> None]
NoResult == [of |-> "none", is |-> "", int |-> None]
IsConst(v) == v.of = "const"
Gone     == [op |-> "gone", ty |-> 0, ops |-> <<>>]

VARIABLES
  source,   \* the two instructions irgen and the earlier passes left
  insts,    \* the instructions now
  result,   \* what the function returns
  work,     \* the worklist of the simplification; what the sweep has left
  pass,     \* "algebraic", then "strength", then "done"
  reduced   \* the signed divisions the strength reduction rewrote

vars == <<source, insts, result, work, pass, reduced>>

-----------------------------------------------------------------------------
Leaves == {Arg(a) : a \in Args} \cup {Lit(New(c, Bits)) : c \in Consts}
Others == {Again(v.int) : v \in {w \in Leaves : IsConst(w)}}
Bools  == {Lit(New(b, 1)) : b \in {0, 1}}

TypeOf(code, v) ==
  CASE v.of = "arg"    -> Bits
    [] v.of \in {"const", "global"} -> v.int.bits
    [] v.of = "first"  -> code[1].ty
    [] v.of = "second" -> code[2].ty

Binaries(ops, L, R) == {[op |-> o, ty |-> Bits, ops |-> <<l, r>>] : o \in ops \cap BinaryOps, l \in L, r \in R}
Compares(ops, L, R) == {[op |-> o, ty |-> 1, ops |-> <<l, r>>] : o \in ops \cap Predicates, l \in L, r \in R}
Chosen(ops, L, R)   == IF "phi" \in ops THEN {[op |-> "phi", ty |-> Bits, ops |-> <<l, r>>] : l \in L, r \in R} ELSE {}
Selects(ops, C, L, R) ==
  IF "select" \in ops THEN {[op |-> "select", ty |-> Bits, ops |-> <<c, l, r>>] : c \in C, l \in L, r \in R} ELSE {}
Loads(ops)          == {[op |-> "load", ty |-> Bits, ops |-> <<Global(New(c, Bits))>>] : c \in IF "load" \in ops THEN Consts ELSE {}}
Converted(ops, L, w) ==
  {[op |-> o, ty |-> t, ops |-> <<l>>] :
     o \in ops \cap Casts, l \in L, t \in Widths}
WellCast(i, w) ==
  /\ i.op = "trunc" => i.ty < w
  /\ i.op \in {"zext", "sext"} => i.ty > w

First == Binaries(FirstOps, Leaves, Leaves) \cup Compares(FirstOps, Leaves, Leaves)
           \cup Chosen(FirstOps, Leaves, Leaves \cup Others) \cup Selects(FirstOps, Bools, Leaves, Leaves \cup Others)
           \cup Loads(FirstOps)
           \cup {i \in Converted(FirstOps, Leaves, Bits) : WellCast(i, Bits)}

\* The second instruction has the first for an operand.
Second(i) ==
  LET r == {Res(1)} IN
  IF i.ty = Bits
  THEN Binaries(SecondOps, r, Leaves \cup r) \cup Binaries(SecondOps, Leaves, r)
         \cup Compares(SecondOps, r, Leaves \cup r) \cup Chosen(SecondOps, r, r \cup Leaves \cup Others)
  ELSE IF i.ty = 1
  THEN Selects(SecondOps, r, Leaves, Leaves) \cup {c \in Converted(SecondOps, r, 1) : WellCast(c, 1)}
  ELSE {c \in Converted(SecondOps, r, i.ty) : WellCast(c, i.ty)}

Init ==
  /\ \E i \in First : \E j \in Second(i) : source = <<i, j>>
  /\ insts = source
  /\ result = Res(2)
  /\ work = Insts
  /\ pass = "algebraic"
  /\ reduced = {}

-----------------------------------------------------------------------------
(* What an instruction computes: None where it has no value, a division by *)
(* zero or a shift by the width or more.                                   *)
Matter(i, v, path) ==
  CASE i.op = "phi"    -> {path}
    [] i.op = "select" -> IF v[1] = None THEN {1} ELSE {1, IF v[1].value # 0 THEN 2 ELSE 3}
    [] OTHER           -> DOMAIN v

Apply(i, v, path) ==
  IF \E k \in Matter(i, v, path) : v[k] = None THEN None
  ELSE CASE i.op \in BinaryOps  -> FoldBinary(i.op, v[1], v[2])
         [] i.op \in Predicates -> New(IF FoldICmp(i.op, v[1], v[2]) THEN 1 ELSE 0, 1)
         [] i.op = "select"     -> IF v[1].value # 0 THEN v[2] ELSE v[3]
         [] i.op = "phi"        -> v[path]
         [] i.op = "load"       -> v[1]
         [] i.op = "trunc"      -> TruncTo(v[1], i.ty)
         [] i.op = "zext"       -> ZeroExtend(v[1], i.ty)
         [] i.op = "sext"       -> SignExtend(v[1], i.ty)

Leaf(v, env) == IF v.of = "arg" THEN New(env[v.is], Bits) ELSE v.int

Value(code, v, env, path) ==
  LET one == IF code[1] = Gone THEN None
             ELSE Apply(code[1], [k \in DOMAIN code[1].ops |-> Leaf(code[1].ops[k], env)], path)
      At(o) == IF o.of = "first" THEN one ELSE Leaf(o, env)
      two == IF code[2] = Gone THEN None
             ELSE Apply(code[2], [k \in DOMAIN code[2].ops |-> At(code[2].ops[k])], path)
  IN  IF v.of = "second" THEN two ELSE At(v)

-----------------------------------------------------------------------------
IsInt(v, n)  == IsConst(v) /\ v.int.value = n
AllOnes(v, w) == IsConst(v) /\ v.int.value % 2^w = Mask(w)
Zero(w)      == Made(New(0, w))
Truth(b, w)  == Made(New(IF b THEN 1 ELSE 0, w))
Folded(r)    == IF r = None THEN NoResult ELSE Made(r)
FirstOf(pairs) ==   \* the result of the first test that holds
  IF \E k \in DOMAIN pairs : pairs[k][1]
  THEN pairs[CHOOSE k \in DOMAIN pairs : pairs[k][1] /\ \A j \in 1..(k - 1) : ~pairs[j][1]][2]
  ELSE NoResult

\* Mutant of Identity: 0 - x is taken for x.
IdentityCommutes(op, l, r, w) ==
  CASE op \in {"add", "sub", "or", "xor"} ->
         FirstOf(<< <<IsInt(r, 0), l>>, <<IsInt(l, 0), r>> >>)
    [] OTHER -> NoResult

Identity(op, l, r, w) ==
  CASE op = "add" -> FirstOf(<< <<IsInt(r, 0), l>>, <<IsInt(l, 0), r>> >>)
    [] op = "sub" -> FirstOf(<< <<IsInt(r, 0), l>>, <<l = r, Zero(w)>> >>)
    [] op = "mul" -> FirstOf(<< <<IsInt(r, 1), l>>, <<IsInt(l, 1), r>>,
                                <<IsInt(r, 0) \/ IsInt(l, 0), Zero(w)>> >>)
    [] op \in {"udiv", "sdiv"} -> FirstOf(<< <<IsInt(r, 1), l>>, <<IsInt(l, 0), Zero(w)>> >>)
    [] op \in {"urem", "srem"} -> FirstOf(<< <<IsInt(r, 1) \/ IsInt(l, 0), Zero(w)>> >>)
    [] op = "and" -> FirstOf(<< <<IsInt(r, 0) \/ IsInt(l, 0), Zero(w)>>,
                                <<AllOnes(r, w), l>>, <<AllOnes(l, w), r>>, <<l = r, l>> >>)
    [] op = "or"  -> FirstOf(<< <<IsInt(r, 0), l>>, <<IsInt(l, 0), r>>,
                                <<AllOnes(r, w) \/ AllOnes(l, w), Made(New(Mask(w), w))>>, <<l = r, l>> >>)
    [] op = "xor" -> FirstOf(<< <<IsInt(r, 0), l>>, <<IsInt(l, 0), r>>, <<l = r, Zero(w)>> >>)
    [] op \in {"shl", "lshr", "ashr"} -> FirstOf(<< <<IsInt(r, 0), l>>, <<IsInt(l, 0), Zero(w)>> >>)

\* Two constants are folded, and nothing else is tried when the fold fails.
SimplifyBinary(i) ==
  LET l == i.ops[1]
      r == i.ops[2]
  IN  IF IsConst(l) /\ IsConst(r) THEN Folded(FoldBinary(i.op, l.int, r.int))
      ELSE Identity(i.op, l, r, i.ty)

SimplifyICmp(i) ==
  LET l == i.ops[1]
      r == i.ops[2]
  IN  IF IsConst(l) /\ IsConst(r) THEN Truth(FoldICmp(i.op, l.int, r.int), i.ty)
      ELSE IF l = r THEN Truth(i.op \in {"eq", "uge", "ule", "sge", "sle"}, i.ty)
      ELSE NoResult

SimplifySelect(i) ==
  IF i.ops[2] = i.ops[3] THEN i.ops[2]
  ELSE IF IsConst(i.ops[1]) THEN (IF i.ops[1].int.value # 0 THEN i.ops[2] ELSE i.ops[3])
  ELSE NoResult

SimplifyPhi(i) == IF i.ops[1] = i.ops[2] THEN i.ops[1] ELSE NoResult

\* try_fold_const_global_load
SimplifyLoad(i) == Made(i.ops[1].int)

SimplifyCast(i) ==
  LET v == i.ops[1] IN
  IF ~IsConst(v) THEN NoResult
  ELSE CASE i.op = "trunc" -> IF v.int.bits <= i.ty THEN v ELSE Made(TruncTo(v.int, i.ty))
         [] i.op = "zext"  -> IF v.int.bits >= i.ty THEN v ELSE Made(ZeroExtend(v.int, i.ty))
         [] i.op = "sext"  -> IF v.int.bits >= i.ty THEN v ELSE Made(SignExtend(v.int, i.ty))

Simplified(i) ==
  CASE i.op \in BinaryOps  -> SimplifyBinary(i)
    [] i.op \in Predicates -> SimplifyICmp(i)
    [] i.op = "select"     -> SimplifySelect(i)
    [] i.op = "phi"        -> SimplifyPhi(i)
    [] i.op = "load"       -> SimplifyLoad(i)
    [] i.op \in Casts      -> SimplifyCast(i)

-----------------------------------------------------------------------------
Subst(v, old, new) == IF v = old THEN new ELSE v
UsersOf(code, v)   == {i \in Insts : v \in Range(code[i].ops)}

\* Mutant of Replace: the value's users are not looked at again.
ReplaceOnce(n, v) ==
  LET code == [i \in Insts |-> [insts[i] EXCEPT !.ops = [k \in DOMAIN @ |-> Subst(@[k], Res(n), v)]]]
  IN  /\ insts' = [code EXCEPT ![n] = Gone]
      /\ result' = Subst(result, Res(n), v)
      /\ work' = work \ {n}

Replace(n, v) ==
  LET code == [i \in Insts |-> [insts[i] EXCEPT !.ops = [k \in DOMAIN @ |-> Subst(@[k], Res(n), v)]]]
  IN  /\ insts' = [code EXCEPT ![n] = Gone]
      /\ result' = Subst(result, Res(n), v)
      /\ work' = (work \ {n}) \cup UsersOf(code, v)

\* Mutant of Simplify: an instruction that stays is not taken off the worklist.
SimplifyPeek(n) ==
  /\ pass = "algebraic" /\ n \in work
  /\ IF insts[n] = Gone \/ Simplified(insts[n]) = NoResult
     THEN UNCHANGED <<work, insts, result>>
     ELSE Replace(n, Simplified(insts[n]))
  /\ UNCHANGED <<source, pass, reduced>>

\* One turn of the worklist; an instruction already erased is skipped.
Simplify(n) ==
  /\ pass = "algebraic" /\ n \in work
  /\ IF insts[n] = Gone \/ Simplified(insts[n]) = NoResult
     THEN work' = work \ {n} /\ UNCHANGED <<insts, result>>
     ELSE Replace(n, Simplified(insts[n]))
  /\ UNCHANGED <<source, pass, reduced>>

SimplifyDone ==
  /\ pass = "algebraic" /\ work = {}
  /\ pass' = "strength" /\ work' = Insts
  /\ UNCHANGED <<source, insts, result, reduced>>

-----------------------------------------------------------------------------
\* is_value_nonneg of an instruction, from the same of its operands.
NonNegBinary(op, l, r) ==
  CASE op = "and"                     -> l \/ r
    [] op \in {"or", "xor"}           -> l /\ r
    [] op \in {"lshr", "udiv", "urem"} -> TRUE
    [] op \in {"shl", "ashr", "sdiv"} -> l /\ r
    [] op \in {"add", "mul", "sub"}   -> FALSE
    [] op = "srem"                    -> l

NonNegInst(i, N(_)) ==
  CASE i.op \in BinaryOps                  -> NonNegBinary(i.op, N(i.ops[1]), N(i.ops[2]))
    [] i.op \in {"zext"} \cup Predicates   -> TRUE
    [] i.op = "phi"                        -> N(i.ops[1]) /\ N(i.ops[2])
    [] i.op = "select"                     -> N(i.ops[2]) /\ N(i.ops[3])
    [] OTHER                               -> FALSE

NonNegLeaf(v) == IsConst(v) /\ ~SignSet(v.int)
NonNeg(code, v) ==
  IF v.of = "first" THEN NonNegInst(code[1], NonNegLeaf) ELSE NonNegLeaf(v)

\* A power of two that is positive at this width; all of them at the word's.
PowerOfTwo(v, w) ==
  IsConst(v) /\ \E s \in 0..(w - 1) : v.int.value = 2^s /\ (s < w - 1 \/ w = WordBits)

Log(n) == CHOOSE s \in 0..WordBits : 2^s = n

Reduce(code, i) ==
  LET n == i.ops[2].int.value
      shift(op) == [i EXCEPT !.op = op,    !.ops[2] = Made(New(Log(n), i.ty))]
      mask      == [i EXCEPT !.op = "and", !.ops[2] = Made(New(n - 1, i.ty))]
      positive  == NonNeg(code, i.ops[1])
  IN  CASE i.op = "mul"               -> shift("shl")
        [] i.op = "udiv"              -> shift("lshr")
        [] i.op = "urem"              -> mask
        [] i.op = "sdiv" /\ positive  -> shift("lshr")
        [] i.op = "srem" /\ positive  -> mask
        [] OTHER                      -> i

Sweep(n) ==
  /\ pass = "strength" /\ n \in work
  /\ \A m \in work : n <= m
  /\ LET i == insts[n]
         j == IF i.op \in BinaryOps /\ PowerOfTwo(i.ops[2], i.ty) THEN Reduce(insts, i) ELSE i
     IN  /\ insts' = [insts EXCEPT ![n] = j]
         /\ reduced' = IF i.op \in {"sdiv", "srem"} /\ j # i THEN reduced \cup {n} ELSE reduced
  /\ work' = work \ {n}
  /\ pass' = IF work' = {} THEN "done" ELSE pass
  /\ UNCHANGED <<source, result>>

Done == pass = "done" /\ UNCHANGED vars

Next == (\E n \in Insts : Simplify(n) \/ Sweep(n)) \/ SimplifyDone \/ Done

\* The passes are loops of one thread: they go on while there is work.
Spec == Init /\ [][Next]_vars /\ WF_vars(Next)

-----------------------------------------------------------------------------
Envs  == [Args -> ArgValues]
Paths == IF \E n \in Insts : source[n].op = "phi" THEN 1..2 ELSE {1}

\* The instructions stay well typed: what replaces a value has its type, so
\* that no fold meets operands of two widths (the assertion of CoreInt).
TypeOK ==
  /\ work \subseteq Insts /\ reduced \subseteq Insts
  /\ pass \in {"algebraic", "strength", "done"}
  /\ insts[1] = Gone => Res(1) \notin Range(insts[2].ops) \cup {result}
  /\ TypeOf(source, result) = source[2].ty
  /\ \A n \in Insts : insts[n].op \in BinaryOps =>
       \A k \in 1..2 : TypeOf(source, insts[n].ops[k]) = insts[n].ty

\* Where a signed division was reduced, its dividend is never negative.
DividendsArePositive ==
  \A n \in reduced, env \in Envs, path \in Paths :
    LET v == Value(insts, insts[n].ops[1], env, path) IN v # None => AsI64(v) >= 0

\* Whatever the arguments and the path, the function returns what it returned
\* before the passes, wherever that was defined.  A signed division whose
\* dividend was wrongly taken for nonnegative is the other property's matter.
ResultKept ==
  pass = "done" /\ DividendsArePositive =>
    \A env \in Envs, path \in Paths :
      LET before == Value(source, Res(2), env, path) IN
      before # None => Value(insts, result, env, path) = before

\* When the worklist runs empty no live instruction can be simplified: a
\* replacement looks again at whatever it may have made simpler.
NothingLeft ==
  pass = "algebraic" /\ work = {} =>
    \A n \in Insts : insts[n] # Gone => Simplified(insts[n]) = NoResult

=============================================================================
