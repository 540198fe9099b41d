------------------------------- MODULE CoreInt -------------------------------
(***************************************************************************)
(* Fixed-width integers as the optimiser folds them: a value is kept in an *)
(* unsigned machine word, masked to its own width after every operation.   *)
(* The word has WordBits bits (64 in the code), so that a small word still *)
(* has values of one bit, of fewer bits than the word, and of all of them. *)
(* An operation that yields no value, Option::None in the code, is None.   *)
(***************************************************************************)
EXTENDS Integers, Bitwise

CONSTANT WordBits

ASSUME WordAssumption == WordBits \in Nat /\ WordBits >= 2

None   == [value |-> -1, bits |-> 0]
Widths == 1..WordBits

Mask(w)   == 2^w - 1

New(v, w) == [value |-> v % 2^w, bits |-> w]
CoreInts  == UNION {[value : 0..Mask(w), bits : {w}] : w \in Widths}

\* Reading a word as i64, and the bits a wrapping cast to u64 leaves.
WordSigned(v)    == IF v >= 2^(WordBits - 1) THEN v - 2^WordBits ELSE v
FromSigned(n, w) == New(n % 2^WordBits, w)

SignSet(x) == (x.value & 2^(x.bits - 1)) # 0
Extended(x) == IF SignSet(x) THEN x.value | (Mask(WordBits) - Mask(x.bits)) ELSE x.value

AsI64Raw(x) == WordSigned(IF x.bits = WordBits THEN x.value ELSE Extended(x))
AsI64(x)    == IF x.bits = 1 THEN x.value ELSE AsI64Raw(x)

-----------------------------------------------------------------------------
TruncTo(x, w)    == New(x.value, w)
ZeroExtend(x, w) == New(x.value, w)

\* Mutant of SignExtend: the sign bit is looked for one place too high.
SignExtendHigh(x, w) ==
  IF w = x.bits THEN x
  ELSE New(IF (x.value & 2^x.bits) # 0 THEN x.value | (Mask(WordBits) - Mask(x.bits))
                                       ELSE x.value, w)
SignExtend(x, w) == IF w = x.bits THEN x ELSE New(Extended(x), w)

-----------------------------------------------------------------------------
\* Rust's division rounds towards zero; the remainder has the dividend's sign.
Magnitude(n) == IF n < 0 THEN -n ELSE n
TowardsZero(n, d) ==
  LET q == Magnitude(n) \div Magnitude(d) IN IF (n < 0) # (d < 0) THEN -q ELSE q
Remainder(n, d) == n - d * TowardsZero(n, d)

\* i64::checked_div fails on zero and where the quotient leaves the word.
MinWord == -(2^(WordBits - 1))
NoQuotient(n, d) == d = 0 \/ (n = MinWord /\ d = -1)

WrappingAdd(x, y) == New(x.value + y.value, x.bits)
WrappingSub(x, y) == New(x.value - y.value, x.bits)
WrappingMul(x, y) == New(x.value * y.value, x.bits)

CheckedUDiv(x, y) ==
  IF y.value = 0 THEN None ELSE New(x.value \div y.value, x.bits)
CheckedSDiv(x, y) ==
  IF NoQuotient(AsI64(x), AsI64(y)) THEN None
  ELSE FromSigned(TowardsZero(AsI64(x), AsI64(y)), x.bits)
CheckedURem(x, y) ==
  IF y.value = 0 THEN None ELSE New(x.value % y.value, x.bits)
CheckedSRem(x, y) ==
  IF NoQuotient(AsI64(x), AsI64(y)) THEN None
  ELSE FromSigned(Remainder(AsI64(x), AsI64(y)), x.bits)

CheckedShl(x, y) ==
  IF y.value >= x.bits THEN None ELSE New(x.value * 2^y.value, x.bits)
CheckedLShr(x, y) ==
  IF y.value >= x.bits THEN None ELSE New(x.value \div 2^y.value, x.bits)
CheckedAShr(x, y) ==
  IF y.value >= x.bits THEN None ELSE FromSigned(AsI64(x) \div 2^y.value, x.bits)

BitAnd(x, y) == New(x.value & y.value, x.bits)
BitOr(x, y)  == New(x.value | y.value, x.bits)
BitXor(x, y) == New(x.value ^^ y.value, x.bits)

-----------------------------------------------------------------------------
BinaryOps == {"add", "sub", "mul", "udiv", "sdiv", "urem", "srem",
              "shl", "lshr", "ashr", "and", "or", "xor"}
Predicates == {"eq", "ne", "ugt", "uge", "ult", "ule", "sgt", "sge", "slt", "sle"}

\* fold_binary_const, the same in sccp and in the algebraic simplification.
FoldBinary(op, x, y) ==
  CASE op = "add"  -> WrappingAdd(x, y)
    [] op = "sub"  -> WrappingSub(x, y)
    [] op = "mul"  -> WrappingMul(x, y)
    [] op = "udiv" -> CheckedUDiv(x, y)
    [] op = "sdiv" -> CheckedSDiv(x, y)
    [] op = "urem" -> CheckedURem(x, y)
    [] op = "srem" -> CheckedSRem(x, y)
    [] op = "shl"  -> CheckedShl(x, y)
    [] op = "lshr" -> CheckedLShr(x, y)
    [] op = "ashr" -> CheckedAShr(x, y)
    [] op = "and"  -> BitAnd(x, y)
    [] op = "or"   -> BitOr(x, y)
    [] op = "xor"  -> BitXor(x, y)

FoldICmp(p, x, y) ==
  CASE p = "eq"  -> x.value = y.value
    [] p = "ne"  -> x.value # y.value
    [] p = "ugt" -> x.value > y.value
    [] p = "uge" -> x.value >= y.value
    [] p = "ult" -> x.value < y.value
    [] p = "ule" -> x.value <= y.value
    [] p = "sgt" -> AsI64(x) > AsI64(y)
    [] p = "sge" -> AsI64(x) >= AsI64(y)
    [] p = "slt" -> AsI64(x) < AsI64(y)
    [] p = "sle" -> AsI64(x) <= AsI64(y)
=============================================================================
