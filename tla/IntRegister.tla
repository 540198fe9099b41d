----------------------------- MODULE IntRegister -----------------------------
(***************************************************************************)
(* One register that goes through a chain of CoreInt operations, beside    *)
(* the integer it should stand for: the value of a register of that width  *)
(* in the two's complement arithmetic the generated code computes with.    *)
(***************************************************************************)
EXTENDS CoreInt

VARIABLES
  x,       \* the CoreInt the optimiser holds
  exact,   \* the integer it stands for, in 0..2^bits-1
  asked    \* the last comparison: what the fold said and what is true

vars == <<x, exact, asked>>

Init ==
  /\ x \in CoreInts
  /\ exact = x.value
  /\ asked = [said |-> TRUE, holds |-> TRUE]

-----------------------------------------------------------------------------
(* The reference: integers, read as signed where the operation is.  A bit  *)
(* of width one is a truth value, and 1 when it is read as a number.       *)
Signed(n, w) == IF w > 1 /\ n >= 2^(w - 1) THEN n - 2^w ELSE n

Bit(n, i) == (n \div 2^i) % 2
FromBits(w, B(_)) ==
  LET upTo[i \in 0..w] == IF i = 0 THEN 0 ELSE upTo[i - 1] + 2^(i - 1) * B(i - 1)
  IN  upTo[w]

\* The quotient of signed division: the one q whose remainder is smaller than
\* the divisor and does not change the dividend's sign.
SignedQuotient(n, d) ==
  LET a == IF n < 0 THEN -n ELSE n
      b == IF d < 0 THEN -d ELSE d
      q == CHOOSE k \in 0..a : k * b <= a /\ a < (k + 1) * b
  IN  IF (n < 0 /\ d > 0) \/ (n > 0 /\ d < 0) THEN -q ELSE q

\* Division by zero and a shift by the width or more have no value.
Defined(op, m, w) ==
  /\ op \in {"udiv", "sdiv", "urem", "srem"} => m # 0
  /\ op \in {"shl", "lshr", "ashr"} => m < w

Reference(op, n, m, w) ==
  LET s == Signed(n, w)
      t == Signed(m, w)
      result ==
        CASE op = "add"  -> n + m
          [] op = "sub"  -> n - m
          [] op = "mul"  -> n * m
          [] op = "udiv" -> n \div m
          [] op = "urem" -> n % m
          [] op = "sdiv" -> SignedQuotient(s, t)
          [] op = "srem" -> s - t * SignedQuotient(s, t)
          [] op = "shl"  -> n * 2^m
          [] op = "lshr" -> n \div 2^m
          [] op = "ashr" -> s \div 2^m
          [] op = "and"  -> LET B(i) == Bit(n, i) * Bit(m, i) IN FromBits(w, B)
          [] op = "or"   -> LET B(i) == IF Bit(n, i) + Bit(m, i) > 0 THEN 1 ELSE 0 IN FromBits(w, B)
          [] op = "xor"  -> LET B(i) == (Bit(n, i) + Bit(m, i)) % 2 IN FromBits(w, B)
  IN  result % 2^w

Compares(p, n, m, w) ==
  LET s == Signed(n, w)
      t == Signed(m, w)
  IN  CASE p = "eq"  -> n = m
        [] p = "ne"  -> n # m
        [] p = "ugt" -> n > m
        [] p = "uge" -> ~(n < m)
        [] p = "ult" -> n < m
        [] p = "ule" -> ~(n > m)
        [] p = "sgt" -> s > t
        [] p = "sge" -> ~(s < t)
        [] p = "slt" -> s < t
        [] p = "sle" -> ~(s > t)

-----------------------------------------------------------------------------
Apply(op, y) ==
  LET r == FoldBinary(op, x, y) IN
  /\ r # None
  /\ x' = r
  /\ exact' = Reference(op, exact, y.value, x.bits)
  /\ UNCHANGED asked

Compare(p, y) ==
  /\ asked' = [said |-> FoldICmp(p, x, y), holds |-> Compares(p, exact, y.value, x.bits)]
  /\ UNCHANGED <<x, exact>>

Trunc(w) ==
  /\ w <= x.bits
  /\ x' = TruncTo(x, w)
  /\ exact' = exact % 2^w
  /\ UNCHANGED asked

Zext(w) ==
  /\ w >= x.bits
  /\ x' = ZeroExtend(x, w)
  /\ UNCHANGED <<exact, asked>>

\* sext of a bit gives all ones: only as_i64 reads a bit as unsigned.
Sext(w) ==
  /\ w >= x.bits
  /\ x' = SignExtend(x, w)
  /\ exact' = (IF exact >= 2^(x.bits - 1) THEN exact - 2^x.bits ELSE exact) % 2^w
  /\ UNCHANGED asked

Next ==
  \/ \E y \in CoreInts : /\ y.bits = x.bits
                         /\ \/ \E op \in BinaryOps : Apply(op, y)
                            \/ \E p \in Predicates : Compare(p, y)
  \/ \E w \in Widths : Trunc(w) \/ Zext(w) \/ Sext(w)

Spec == Init /\ [][Next]_vars

-----------------------------------------------------------------------------
\* The register always fits its width and no bit is set above it, which
\* is what lets equality of words be equality of values.
TypeOK == x \in CoreInts

\* Whatever is folded, truncated and extended in whatever order, the value
\* held is the one the machine would have computed.
FoldsAreExact == x.value = exact

\* A folded comparison says what is true of the values compared.
ComparisonsAreTrue == asked.said = asked.holds

\* A fold fails exactly where the operation has no value, except that
\* the smallest number of the full word divided by -1 is left to run time.
FailsWhereUndefined ==
  \A op \in BinaryOps, v \in 0..Mask(x.bits) :
    LET y == New(v, x.bits) IN
    (FoldBinary(op, x, y) = None) <=>
      \/ ~Defined(op, v, x.bits)
      \/ /\ op \in {"sdiv", "srem"} /\ x.bits = WordBits
         /\ AsI64(x) = MinWord /\ AsI64(y) = -1
=============================================================================
