-------------------------- MODULE FrameLayoutProofs --------------------------
(***************************************************************************)
(* Stack frames of any number of slots, with any sizes and alignments of   *)
(* which one divides the other: what the layout keeps apart and what the   *)
(* prologue and the epilogue save and restore.                             *)
(***************************************************************************)
EXTENDS FrameLayout, SequenceLemmas, FiniteSetTheorems

-----------------------------------------------------------------------------
\* Division, for the alignments.
LEMMA DivMod == ASSUME NEW n \in Nat, NEW a \in Nat \ {0}
  PROVE n \div a \in Nat /\ n % a \in 0..(a-1) /\ n = a * (n \div a) + (n % a)
OBVIOUS

LEMMA MultipleMod == ASSUME NEW q \in Nat, NEW a \in Nat \ {0}
  PROVE (q * a) % a = 0
<1>1. PICK p \in Nat : p = q * a
  <2>1. q * a \in Nat
    OBVIOUS
  <2> QED BY <2>1
<1>2. PICK x \in Nat : x = p \div a
  <2>1. p \div a \in Nat
    BY <1>1, DivMod
  <2> QED BY <2>1
<1>3. PICK r \in Nat : r = p % a
  <2>1. p % a \in 0..(a-1)
    BY <1>1, DivMod
  <2> QED BY <2>1
<1>4. r < a /\ p = a * x + r
  <2>1. p % a \in 0..(a-1) /\ p = a * (p \div a) + (p % a)
    BY <1>1, DivMod
  <2> QED BY <2>1, <1>2, <1>3
<1>5. r = a * (q - x)
  BY <1>1, <1>4
<1>6. CASE q - x >= 1
  <2>1. a * (q - x) >= a
    BY <1>6
  <2> QED BY <1>4, <1>5, <2>1
<1>7. CASE q - x <= -1
  <2>1. a * (q - x) <= -a
    BY <1>7
  <2> QED BY <1>4, <1>5, <2>1
<1>8. CASE q = x
  <2>1. r = 0
    BY <1>8, <1>5
  <2> QED BY <1>1, <1>3, <2>1
<1> QED BY <1>6, <1>7, <1>8

\* Rounding up: u32::next_multiple_of.
LEMMA NextMultiple == ASSUME NEW n \in Nat, NEW a \in Nat \ {0}, NEW m, m = NextMultipleOf(n, a)
  PROVE m \in Nat /\ m >= n /\ m % a = 0
<1>0. n + a - 1 \in Nat
  OBVIOUS
<1> DEFINE q == (n + a - 1) \div a
<1>1. q \in Nat /\ (n + a - 1) % a \in 0..(a-1) /\ n + a - 1 = a * q + ((n + a - 1) % a)
  BY <1>0, DivMod
<1>2. m = q * a
  BY DEF NextMultipleOf
<1> HIDE DEF q
<1>3. m \in Nat /\ m % a = 0
  BY <1>1, <1>2, MultipleMod
<1>4. a * q = q * a
  BY <1>1
<1> QED BY <1>1, <1>2, <1>3, <1>4

\* Being a multiple is transitive.
LEMMA Divides == ASSUME NEW n \in Nat, NEW a \in Nat \ {0}, NEW b \in Nat \ {0}, n % a = 0, a % b = 0
  PROVE n % b = 0
<1>1. PICK x \in Nat, y \in Nat : n = a * x /\ a = b * y
  <2>1. n = a * (n \div a) /\ n \div a \in Nat
    BY DivMod
  <2>2. a = b * (a \div b) /\ a \div b \in Nat
    BY DivMod
  <2> QED BY <2>1, <2>2
<1>2. n = (y * x) * b
  BY <1>1
<1>3. y * x \in Nat
  BY <1>1
<1> QED BY <1>2, <1>3, MultipleMod

\* Of two alignments the greater is a multiple of both.
LEMMA MaxDivides ==
  ASSUME NEW a \in Nat \ {0}, NEW b \in Nat \ {0}, a % b = 0 \/ b % a = 0,
         NEW m, m = MaxOf(a, b)
  PROVE  m \in {a, b} /\ m >= a /\ m >= b /\ m % a = 0 /\ m % b = 0
<1>1. \A x \in Nat \ {0} : x % x = 0
  <2> TAKE x \in Nat \ {0}
  <2>1. (1 * x) % x = 0
    BY MultipleMod
  <2> QED BY <2>1
<1>2. \A x, y \in Nat \ {0} : x < y => x % y = x
  <2> TAKE x, y \in Nat \ {0}
  <2> QED OBVIOUS
<1> QED BY <1>1, <1>2 DEF MaxOf

-----------------------------------------------------------------------------
\* A finite set of registers can be listed in order, by induction on its size.
LEMMA OrderExists ==
  ASSUME NEW S, S \subseteq Nat, IsFiniteSet(S)
  PROVE  \E s \in [1..Cardinality(S) -> S] : \A i, j \in DOMAIN s : i < j => s[i] < s[j]
<1> DEFINE Sorted(s) == \A i, j \in DOMAIN s : i < j => s[i] < s[j]
           Has(n) == \A T \in SUBSET Nat : IsFiniteSet(T) /\ Cardinality(T) = n =>
                       \E s \in [1..n -> T] : Sorted(s)
           N == {n \in Nat : Has(n)}
<1>1. 0 \in N
  <2> SUFFICES ASSUME NEW T \in SUBSET Nat PROVE \E s \in [1..0 -> T] : Sorted(s)
    OBVIOUS
  <2>1. <<>> \in [1..0 -> T] /\ Sorted(<<>>)
    OBVIOUS
  <2> QED BY <2>1
<1>2. ASSUME NEW n \in Nat, n \in N PROVE n + 1 \in N
  <2> SUFFICES ASSUME NEW T \in SUBSET Nat, IsFiniteSet(T), Cardinality(T) = n + 1
               PROVE  \E s \in [1..(n + 1) -> T] : Sorted(s)
    OBVIOUS
  <2>1. T # {}
    BY FS_EmptySet
  <2>2. PICK m \in T : \A x \in T : m <= x
    BY <2>1, LeastElement
  <2>3. IsFiniteSet(T \ {m}) /\ Cardinality(T \ {m}) = n
    <3>1. IsFiniteSet(T \ {m}) /\ Cardinality(T \ {m}) = Cardinality(T) - 1
      <4> HIDE DEF N
      <4> QED BY FS_RemoveElement
    <3> QED BY <3>1
  <2>4. PICK s \in [1..n -> T \ {m}] : Sorted(s)
    <3>1. T \ {m} \in SUBSET Nat
      OBVIOUS
    <3>2. Has(n)
      BY <1>2
    <3> QED BY <2>3, <3>1, <3>2
  <2> DEFINE t == [k \in 1..(n + 1) |-> IF k = 1 THEN m ELSE s[k - 1]]
  <2>5. \A k \in 1..(n + 1) : k # 1 => k - 1 \in 1..n /\ t[k] = s[k - 1] /\ t[k] \in T \ {m}
    OBVIOUS
  <2>6. t[1] = m /\ DOMAIN t = 1..(n + 1) /\ t \in [1..(n + 1) -> T]
    BY <2>5
  <2>7. ASSUME NEW i \in 1..(n + 1), NEW j \in 1..(n + 1), i < j PROVE t[i] < t[j]
    <3>1. j # 1 /\ t[j] = s[j - 1] /\ t[j] \in T \ {m} /\ j - 1 \in 1..n
      BY <2>5, <2>7
    <3>2. CASE i = 1
      <4>1. t[i] = m /\ m \in Nat /\ t[j] \in Nat /\ m <= t[j] /\ t[j] # m
        <5> HIDE DEF t
        <5> QED BY <2>2, <2>6, <3>1, <3>2
      <4> HIDE DEF t
      <4> QED BY <4>1
    <3>3. CASE i # 1
      <4>1. i - 1 \in 1..n /\ t[i] = s[i - 1] /\ i - 1 < j - 1
        BY <2>5, <2>7, <3>3
      <4>2. DOMAIN s = 1..n
        OBVIOUS
      <4> HIDE DEF t
      <4> QED BY <2>4, <3>1, <4>1, <4>2
    <3> QED BY <3>2, <3>3
  <2> HIDE DEF t
  <2>8. Sorted(t)
    BY <2>6, <2>7
  <2> QED BY <2>6, <2>8
<1>3. Cardinality(S) \in N
  <2>1. Cardinality(S) \in Nat
    BY FS_CardinalityType
  <2> HIDE DEF N
  <2> QED BY <1>1, <1>2, <2>1, InductionOnSet
<1> QED BY <1>3

\* The listing has every register once.
LEMMA InOrderOnce ==
  ASSUME NEW S, S \subseteq Nat, IsFiniteSet(S)
  PROVE  /\ Cardinality(S) \in Nat
         /\ InOrder(S) \in [1..Cardinality(S) -> S]
         /\ \A i, j \in 1..Cardinality(S) : InOrder(S)[i] = InOrder(S)[j] => i = j
         /\ \A r \in S : \E k \in 1..Cardinality(S) : InOrder(S)[k] = r
<1>1. PICK n \in Nat : n = Cardinality(S)
  BY FS_CardinalityType
<1>2. PICK s : s = InOrder(S)
  OBVIOUS
<1>3. s \in [1..n -> S] /\ \A i, j \in DOMAIN s : i < j => s[i] < s[j]
  BY OrderExists, <1>1, <1>2 DEF InOrder
<1>4. DOMAIN s = 1..n
  BY <1>3
<1>5. \A i, j \in 1..n : s[i] = s[j] => i = j
  <2> TAKE i, j \in 1..n
  <2>1. s[i] \in Nat /\ s[j] \in Nat
    BY <1>3
  <2>2. (i < j => s[i] < s[j]) /\ (j < i => s[j] < s[i])
    BY <1>3, <1>4
  <2> QED BY <2>1, <2>2
<1>6. s \in Injection(1..n, S)
  BY <1>3, <1>5 DEF Injection, IsInjective
<1>7. IsFiniteSet(1..n) /\ Cardinality(1..n) = n
  BY FS_Interval
<1>8. s \in Surjection(1..n, S)
  BY <1>1, <1>6, <1>7, FS_Injection
<1>9. \A r \in S : \E k \in 1..n : s[k] = r
  BY <1>8 DEF Surjection
<1> QED BY <1>1, <1>2, <1>3, <1>5, <1>9

-----------------------------------------------------------------------------
\* The offset at which slot k is put when `free` is the end of the one before.
Placed(ss, k, free) == IF k > Len(ss) THEN free ELSE NextMultipleOf(free, ss[k].align)

\* What the running offset is at each slot: its recursive function exists, by
\* induction on the number of slots.
LEMMA OffsetsSteps ==
  ASSUME NEW ss, Len(ss) \in Nat, NEW start, NEW f, f = Offsets(ss, start)
  PROVE  /\ f[1] = Placed(ss, 1, start)
         /\ \A k \in 1..Len(ss) : f[k + 1] = Placed(ss, k + 1, f[k] + ss[k].size)
<1> DEFINE Body(x, k) ==
             LET free == IF k = 1 THEN start ELSE x + ss[k - 1].size
             IN  IF k > Len(ss) THEN free ELSE NextMultipleOf(free, ss[k].align)
           Runs(u, m) == u = [k \in 1..m |-> Body(u[k - 1], k)]
           M == {m \in Nat : \E u : Runs(u, m)}
           at == CHOOSE u : Runs(u, Len(ss) + 1)
<1>0. \A x, y : Body(x, 1) = Body(y, 1)
  OBVIOUS
<1> HIDE DEF Body
<1>1. 0 \in M
  <2>1. Runs(<<>>, 0)
    OBVIOUS
  <2> QED BY <2>1
<1>2. ASSUME NEW m \in Nat, m \in M PROVE m + 1 \in M
  <2>1. PICK g : Runs(g, m)
    BY <1>2
  <2> DEFINE h == [k \in 1..(m + 1) |-> Body(g[k - 1], k)]
  <2>2. \A k \in 1..m : h[k] = g[k]
    BY <2>1
  <2>3. \A k \in 1..(m + 1) : k # 1 => k - 1 \in 1..m
    OBVIOUS
  <2>4. \A k \in 1..(m + 1) : Body(g[k - 1], k) = Body(h[k - 1], k)
    <3> TAKE k \in 1..(m + 1)
    <3> HIDE DEF h
    <3>1. CASE k = 1
      BY <1>0, <3>1
    <3>2. CASE k # 1
      BY <2>2, <2>3, <3>2
    <3> QED BY <3>1, <3>2
  <2>5. Runs(h, m + 1)
    BY <2>4
  <2>6. \E u : Runs(u, m + 1)
    <3> HIDE DEF h, Runs
    <3> QED BY <2>5
  <2> HIDE DEF Runs
  <2> QED BY <2>6
<1>3. Len(ss) + 1 \in M
  <2> HIDE DEF M
  <2>1. Len(ss) + 1 \in Nat
    OBVIOUS
  <2> QED BY <1>1, <1>2, <2>1, InductionOnSet
<1> HIDE DEF Runs
<1>4. \E u : Runs(u, Len(ss) + 1)
  BY <1>3
<1>5. Runs(at, Len(ss) + 1)
  BY <1>4, Zenon
<1> USE DEF Runs
<1>6. Offsets(ss, start) = at
  BY DEF Offsets, Body
<1> HIDE DEF at
<1>7. \A k \in 1..(Len(ss) + 1) : at[k] = Body(at[k - 1], k)
  BY <1>5
<1>8. \A k \in 1..Len(ss) : k + 1 \in 1..(Len(ss) + 1) /\ (k + 1) - 1 = k /\ k + 1 # 1
  OBVIOUS
<1>9. 1 \in 1..(Len(ss) + 1)
  OBVIOUS
<1>10. \A x, k : k # 1 => Body(x, k) = Placed(ss, k, x + ss[k - 1].size)
  BY DEF Body, Placed
<1>11. \A x : Body(x, 1) = Placed(ss, 1, start)
  BY DEF Body, Placed
<1>12. at[1] = Placed(ss, 1, start)
  BY <1>7, <1>9, <1>11
<1>13. ASSUME NEW k \in 1..Len(ss) PROVE at[k + 1] = Placed(ss, k + 1, at[k] + ss[k].size)
  <2>1. at[k + 1] = Body(at[(k + 1) - 1], k + 1)
    BY <1>7, <1>8
  <2>2. at[k + 1] = Body(at[k], k + 1)
    BY <1>8, <2>1
  <2>3. PICK l : l = k + 1 /\ l - 1 = k /\ l # 1
    BY <1>8
  <2>4. Body(at[k], l) = Placed(ss, l, at[k] + ss[l - 1].size)
    BY <1>10, <2>3
  <2> QED BY <2>2, <2>3, <2>4
<1> QED BY <1>6, <1>12, <1>13

\* Offsets are aligned and no slot reaches into the next one.
LEMMA OffsetsApart ==
  ASSUME NEW ss \in Seq([size : Nat, align : Nat \ {0}]), NEW n, n = Len(ss), NEW start \in Nat,
         NEW at, at = Offsets(ss, start)
  PROVE  /\ \A k \in 1..(n + 1) : at[k] \in Nat /\ start <= at[k]
         /\ \A k \in 1..n : at[k] % ss[k].align = 0
         /\ \A k \in 1..n, l \in 1..(n + 1) : k < l => at[k] + ss[k].size <= at[l]
<1>0. n \in Nat /\ \A k \in 1..n : ss[k].size \in Nat /\ ss[k].align \in Nat \ {0}
  <2>1. n \in Nat /\ \A k \in 1..n : ss[k] \in [size : Nat, align : Nat \ {0}]
    BY LenProperties
  <2> QED BY <2>1
<1>1. /\ at[1] = Placed(ss, 1, start)
      /\ \A k \in 1..n : at[k + 1] = Placed(ss, k + 1, at[k] + ss[k].size)
  <2>1. Len(ss) \in Nat
    BY <1>0
  <2> QED BY <2>1, OffsetsSteps, SMTT(30)
<1>2. ASSUME NEW k \in 1..(n + 1), NEW free \in Nat, NEW x, x = Placed(ss, k, free)
      PROVE  x \in Nat /\ free <= x /\ (k <= n => x % ss[k].align = 0)
  <2>1. x = IF k > n THEN free ELSE NextMultipleOf(free, ss[k].align)
    BY <1>2 DEF Placed
  <2>2. CASE k > n
    BY <1>0, <2>1, <2>2
  <2>3. CASE k <= n
    <3>1. PICK a \in Nat \ {0} : a = ss[k].align
      BY <1>0, <2>3
    <3>2. x = NextMultipleOf(free, a)
      BY <1>0, <2>1, <2>3, <3>1
    <3> QED BY <3>1, <3>2, <2>3, NextMultiple
  <2> QED BY <1>0, <2>2, <2>3
<1>3. at[1] \in Nat /\ start <= at[1]
  <2>1. 1 \in 1..(n + 1)
    BY <1>0
  <2> QED BY <1>1, <1>2, <2>1
<1>4. ASSUME NEW k \in 1..n, at[k] \in Nat
      PROVE  at[k + 1] \in Nat /\ at[k] + ss[k].size <= at[k + 1] /\ at[k] <= at[k + 1]
  <2>1. k + 1 \in 1..(n + 1)
    BY <1>0
  <2>2. PICK b \in Nat : b = ss[k].size
    BY <1>0
  <2>3. PICK free \in Nat : free = at[k] + b
    BY <1>4
  <2>4. at[k + 1] = Placed(ss, k + 1, free)
    BY <1>1, <2>2, <2>3
  <2>5. at[k + 1] \in Nat /\ free <= at[k + 1]
    BY <1>2, <2>1, <2>4
  <2> QED BY <1>4, <2>2, <2>3, <2>5, SMTT(30)
<1> USE <1>0
<1> DEFINE Apart(m) == /\ \A k \in 1..(m + 1) : at[k] \in Nat /\ start <= at[k]
                       /\ \A k \in 1..m, l \in 1..(m + 1) : k < l => at[k] + ss[k].size <= at[l]
           M == {m \in Nat : m > n \/ Apart(m)}
<1>5. 0 \in M
  <2>1. \A k \in 1..(0 + 1) : k = 1
    OBVIOUS
  <2> QED BY <1>3, <2>1
<1>6. ASSUME NEW m \in Nat, m \in M PROVE m + 1 \in M
  <2>1. CASE m + 1 > n
    BY <2>1
  <2>2. CASE m + 1 <= n
    <3>1. Apart(m)
      BY <1>6, <2>2
    <3>2. m + 1 \in 1..n /\ m + 1 \in 1..(m + 1) /\ at[m + 1] \in Nat /\ start <= at[m + 1]
      BY <2>2, <3>1
    <3>3. PICK p : p = m + 1
      OBVIOUS
    <3>4. at[p + 1] \in Nat /\ at[p] + ss[p].size <= at[p + 1] /\ at[p] <= at[p + 1]
      BY <1>4, <3>2, <3>3
    <3>5. \A k \in 1..(p + 1) : k \in 1..p \/ k = p + 1
      BY <3>2, <3>3
    <3>6. \A k \in 1..(p + 1) : at[k] \in Nat /\ start <= at[k]
      BY <3>1, <3>2, <3>3, <3>4, <3>5
    <3>7. ASSUME NEW k \in 1..p, NEW l \in 1..(p + 1), k < l
          PROVE  at[k] + ss[k].size <= at[l]
      <4>1. CASE l \in 1..p
        <5>1. k \in 1..m
          BY <3>3, <3>7, <4>1
        <5> QED BY <3>1, <3>3, <3>7, <4>1, <5>1
      <4>2. CASE l = p + 1 /\ k \in 1..m
        <5>1. at[k] + ss[k].size <= at[p]
          <6>1. k \in 1..m /\ p \in 1..(m + 1) /\ k < p
            BY <3>3, <4>2
          <6> QED BY <3>1, <6>1
        <5>2. k \in 1..n /\ ss[k].size \in Nat /\ at[k] \in Nat /\ at[p] \in Nat
          BY <2>2, <3>2, <3>3, <3>1, <4>2
        <5> QED BY <3>4, <4>2, <5>1, <5>2
      <4>3. CASE l = p + 1 /\ k = p
        BY <3>4, <4>3
      <4>4. k \in 1..m \/ k = p
        BY <3>3
      <4> QED BY <3>5, <4>1, <4>2, <4>3, <4>4
    <3>8. Apart(p)
      BY <3>6, <3>7
    <3> HIDE DEF Apart
    <3> QED BY <3>3, <3>8
  <2> QED BY <2>1, <2>2
<1>7. Apart(n)
  <2>1. n \in M
    <3> HIDE DEF M
    <3> QED BY <1>5, <1>6, InductionOnSet
  <2> HIDE DEF Apart
  <2> QED BY <2>1
<1>8. \A k \in 1..n : at[k] % ss[k].align = 0
  <2> TAKE k \in 1..n
  <2>1. k \in 1..(n + 1) /\ k <= n
    OBVIOUS
  <2>2. CASE k = 1
    BY <1>1, <1>2, <2>1, <2>2, ZenonT(40)
  <2>3. CASE k # 1
    <3>1. PICK l \in 1..n : k = l + 1
      <4>1. k - 1 \in 1..n /\ k = (k - 1) + 1
        BY <2>3
      <4> QED BY <4>1
    <3>2. PICK free \in Nat : free = at[l] + ss[l].size
      <4>1. at[l] \in Nat /\ ss[l].size \in Nat
        BY <1>7
      <4> QED BY <4>1
    <3>3. at[k] = Placed(ss, k, free)
      BY <1>1, <3>1, <3>2
    <3> QED BY <1>2, <2>1, <3>3
  <2> QED BY <2>2, <2>3
<1> QED BY <1>7, <1>8

-----------------------------------------------------------------------------
\* The inductive invariant.  Its first part types the frame; its second says
\* what the layout promises; the third says, for each phase of the run, what is
\* already saved or restored and what the rest of the prologue or epilogue will
\* still do: the properties speak of the end of the run and of the body only.
Slot == [size : Nat, align : Aligns]
Instr == [op : {"adjust", "store", "load"}, by : Int, reg : Int, slot : Nat]

\* The registers the prologue saves, and the slot each is saved in.
Saved == written \cup (IF calls THEN {Ra} ELSE {})
Home(r) == IF r = Ra THEN layout.raSlot ELSE layout.saved[r]

TypeInv ==
  /\ slots \in Seq(Slot) /\ maxAlign \in Aligns
  /\ \A k \in 1..Len(slots) : slots[k].align <= maxAlign
  /\ outgoing \in Nat /\ written \subseteq CalleeSaved /\ calls \in BOOLEAN
  /\ stored \subseteq 1..Len(slots)
  /\ phase \in {"lower", "logue", "enter", "body", "leave", "returned"}
  /\ phase = "lower" => layout = NoLayout
  /\ phase \in {"lower", "logue"} => stored = {}

LaidOut ==
  /\ layout.frameSize \in Nat
  /\ layout.frameSize % FrameAlign = 0 /\ layout.frameSize % maxAlign = 0
  /\ outgoing <= layout.frameSize
  /\ DOMAIN layout.offsets = 1..Len(slots)
  /\ \A k \in 1..Len(slots) :
       /\ layout.offsets[k] \in Nat /\ outgoing <= layout.offsets[k]
       /\ layout.offsets[k] + slots[k].size <= layout.frameSize
       /\ layout.offsets[k] % slots[k].align = 0
  /\ \A k, l \in 1..Len(slots) : k < l => layout.offsets[k] + slots[k].size <= layout.offsets[l]
  /\ DOMAIN layout.saved = written
  /\ IF calls THEN layout.raSlot \in 1..Len(slots) ELSE layout.raSlot = 0
  /\ \A r \in Saved : Home(r) \in 1..Len(slots) /\ slots[Home(r)].size = WordSize
  /\ \A r, q \in Saved : Home(r) = Home(q) => r = q

\* The bytes of slot k while the frame is set up, and that all hold v.
Bytes(k) == Area(layout.offsets[k], slots[k].size)
Holds(k, v) == \A o \in Bytes(k) : memory[o] = v

Entering ==
  /\ stored = {} /\ \A r \in Regs : file[r] = r
  /\ \/ sp = layout.frameSize /\ todo = Prologue
     \/ /\ sp = 0 /\ todo \in Seq(Instr)
        /\ \A k \in 1..Len(todo) : \E r \in Saved : todo[k] = Store(r, Home(r))
        /\ \A r \in Saved : \/ Holds(Home(r), r)
                            \/ \E k \in 1..Len(todo) : todo[k] = Store(r, Home(r))

Leaving ==
  \/ todo = <<>> /\ sp = layout.frameSize /\ \A r \in Regs : file[r] = r
  \/ /\ sp = 0 /\ todo \in Seq(Instr) /\ Len(todo) >= 1
     /\ todo[Len(todo)] = Adjust(layout.frameSize)
     /\ \A k \in 1..(Len(todo) - 1) : \E r \in Saved : todo[k] = Load(r, Home(r))
     /\ \A r \in Saved : \/ file[r] = r
                         \/ \E k \in 1..(Len(todo) - 1) : todo[k] = Load(r, Home(r))

Running ==
  /\ DOMAIN memory = 0..(layout.frameSize + WordSize - 1)
  /\ \A o \in Area(layout.frameSize, WordSize) : memory[o] = Argument
  /\ file = [r \in Regs |-> file[r]]
  /\ \A r \in Regs \ Saved : file[r] = r

RunInv ==
  /\ phase \in {"enter", "body", "leave", "returned"} => Running
  /\ phase = "enter" => Entering
  /\ phase \in {"body", "leave"} => \A r \in Saved : Holds(Home(r), r)
  /\ phase = "body" => /\ sp = 0
                       /\ \A k \in stored : Holds(k, Value(k)) /\ \A r \in Saved : Home(r) # k
  /\ phase = "leave" => Leaving
  /\ phase = "returned" => sp = layout.frameSize /\ \A r \in Regs : file[r] = r

FrameInv == TypeInv /\ (phase # "lower" => LaidOut) /\ RunInv

-----------------------------------------------------------------------------
LEMMA AlignFacts ==
  ASSUME LayoutAssumption
  PROVE  /\ Aligns \subseteq Nat \ {0} /\ FrameAlign \in Aligns /\ WordSize \in Aligns
         /\ 1 \in Aligns /\ Shapes \subseteq Slot
BY DEF LayoutAssumption, Aligns, Slot

\* compute_frame_layout: the slots are apart, aligned and above the outgoing
\* arguments, and every saved register has one of its own.
LEMMA LayoutStep ==
  ASSUME LayoutAssumption, TypeInv, ComputeFrameLayout
  PROVE  TypeInv' /\ LaidOut'
<1> DEFINE word  == [size |-> WordSize, align |-> WordSize]
           order == InOrder(written)
           base  == Len(slots) + (IF calls THEN 1 ELSE 0)
           fresh == [k \in 1..(base - Len(slots) + Len(order)) |-> word]
           at    == Offsets(slots \o fresh, OutgoingEnd(outgoing))
           align == IF fresh = <<>> THEN maxAlign ELSE MaxOf(maxAlign, WordSize)
<1>1. /\ slots' = slots \o fresh /\ maxAlign' = align
      /\ layout' = [frameSize |-> NextMultipleOf(at[base + Len(order) + 1], MaxOf(align, FrameAlign)),
                     offsets |-> [k \in 1..(base + Len(order)) |-> at[k]],
                     saved |-> [r \in written |-> base + (CHOOSE k \in DOMAIN order : order[k] = r)],
                     raSlot |-> IF calls THEN base ELSE 0]
      /\ phase = "lower" /\ phase' = "logue"
      /\ outgoing' = outgoing /\ written' = written /\ calls' = calls /\ stored' = stored
  BY DEF ComputeFrameLayout, run
<1>2. PICK n \in Nat : n = Len(slots)
  BY LenProperties DEF TypeInv
<1>3. PICK c \in Nat : /\ c = Cardinality(written) /\ order \in [1..c -> written]
                       /\ \A i, j \in 1..c : order[i] = order[j] => i = j
                       /\ \A r \in written : \E k \in 1..c : order[k] = r
  <2>1. written \subseteq Nat /\ IsFiniteSet(written)
    BY FS_Subset DEF TypeInv, LayoutAssumption
  <2> HIDE DEF order
  <2> QED BY <2>1, InOrderOnce DEF order
<1>4. Len(order) = c /\ DOMAIN order = 1..c
  <2> HIDE DEF order
  <2> QED BY <1>3
<1>5. PICK b \in Nat : b = base /\ b = n + (IF calls THEN 1 ELSE 0)
  BY <1>2 DEF TypeInv
<1>6. PICK m \in Nat : m = b + c
  OBVIOUS
<1>7. PICK d \in Nat : d = m - n /\ d = base - Len(slots) + Len(order)
  <2> HIDE DEF order
  <2> QED BY <1>2, <1>4, <1>5, <1>6
<1>8. fresh = [k \in 1..d |-> word]
  <2> HIDE DEF order, base
  <2> QED BY <1>7
<1>81. PICK w : w = word
  OBVIOUS
<1>82. PICK fr : fr = fresh /\ fr = [k \in 1..d |-> w]
  BY <1>8, <1>81
<1>83. PICK al : al = align /\ al = IF fr = <<>> THEN maxAlign ELSE MaxOf(maxAlign, WordSize)
  BY <1>82
<1> HIDE DEF fresh, base, order, align
<1>9. PICK ss : ss = slots \o fresh
  OBVIOUS
<1>10. /\ ss \in Seq(Slot) /\ Len(ss) = m
       /\ \A k \in 1..n : ss[k] = slots[k]
       /\ \A k \in 1..m : k > n => ss[k] = word
       /\ al \in Aligns
       /\ \A k \in 1..m : ss[k].align <= al
  <2>1. /\ w \in Slot /\ w.align = WordSize /\ WordSize \in Nat \ {0}
        /\ maxAlign \in Nat \ {0} /\ maxAlign \in Aligns /\ WordSize \in Aligns
    BY <1>81, AlignFacts DEF Slot, TypeInv, LayoutAssumption
  <2>2. fr \in Seq(Slot) /\ Len(fr) = d /\ \A k \in 1..d : fr[k] = w
    BY <1>82, <2>1
  <2>3. slots \in Seq(Slot)
    BY DEF TypeInv
  <2>4. ss = slots \o fr
    BY <1>82, <1>9
  <2>5. /\ ss \in Seq(Slot) /\ Len(ss) = n + d
        /\ \A k \in 1..n : ss[k] = slots[k]
        /\ \A k \in 1..d : ss[n + k] = fr[k]
    <3>1. fr \in Seq(Slot)
      BY <2>2
    <3>2. /\ ss \in Seq(Slot) /\ Len(ss) = Len(slots) + Len(fr)
          /\ \A k \in 1..Len(slots) : ss[k] = slots[k]
          /\ \A k \in 1..Len(fr) : ss[Len(slots) + k] = fr[k]
      BY <2>3, <2>4, <3>1, ConcatAt
    <3> QED BY <1>2, <2>2, <3>2
  <2>6. n + d = m
    BY <1>7
  <2>7. ASSUME NEW k \in 1..m, k > n PROVE ss[k] = w /\ d # 0
    <3>1. k - n \in 1..d /\ n + (k - n) = k
      BY <2>6, <2>7
    <3>2. ss[k] = fr[k - n]
      BY <2>5, <3>1
    <3> QED BY <2>2, <3>1, <3>2
  <2>8. al \in Aligns /\ maxAlign <= al /\ (d # 0 => WordSize <= al)
    <3>1. d = 0 <=> fr = <<>>
      BY <2>2
    <3> QED BY <1>83, <2>1, <3>1 DEF MaxOf
  <2>9. ASSUME NEW k \in 1..m PROVE ss[k].align <= al
    <3>1. CASE k <= n
      <4>1. k \in 1..n /\ ss[k] = slots[k] /\ slots[k] \in Slot /\ slots[k].align <= maxAlign
        BY <1>2, <2>3, <2>5, <3>1 DEF TypeInv
      <4>2. slots[k].align \in Nat /\ maxAlign \in Nat /\ al \in Nat
        BY <2>1, <2>8, <4>1, AlignFacts DEF Slot
      <4>3. \A x, y, z \in Nat : x <= y /\ y <= z => x <= z
        OBVIOUS
      <4> QED BY <2>8, <4>1, <4>2, <4>3, Zenon
    <3>2. CASE k > n
      BY <2>1, <2>7, <2>8, <3>2
    <3> QED BY <3>1, <3>2
  <2>10. \A k \in 1..m : k > n => ss[k] = word
    BY <1>81, <2>7
  <2> QED BY <2>5, <2>6, <2>8, <2>9, <2>10
<1>11. \A k \in 1..m : ss[k].size \in Nat /\ ss[k].align \in Nat \ {0}
  <2>1. \A k \in 1..m : ss[k] \in Slot
    BY <1>10
  <2> QED BY <2>1, AlignFacts DEF Slot
<1>12. PICK start \in Nat : start = OutgoingEnd(outgoing) /\ outgoing <= start
  <2>1. outgoing \in Nat /\ WordSize \in Nat \ {0}
    BY DEF TypeInv, LayoutAssumption
  <2> QED BY <2>1, NextMultiple DEF OutgoingEnd
<1>13. at = Offsets(ss, start)
  BY <1>9, <1>12
<1>14. PICK f : f = at /\ f = Offsets(ss, start)
  BY <1>13
<1> HIDE DEF at
<1>15. /\ \A k \in 1..(m + 1) : f[k] \in Nat /\ start <= f[k]
       /\ \A k \in 1..m : f[k] % ss[k].align = 0
       /\ \A k \in 1..m, l \in 1..(m + 1) : k < l => f[k] + ss[k].size <= f[l]
  <2>1. m = Len(ss) /\ ss \in Seq([size : Nat, align : Nat \ {0}])
    <3>1. Slot \subseteq [size : Nat, align : Nat \ {0}]
      BY AlignFacts DEF Slot
    <3>2. \A S, T : S \subseteq T => Seq(S) \subseteq Seq(T)
      OBVIOUS
    <3>3. ss \in Seq([size : Nat, align : Nat \ {0}])
      BY <1>10, <3>1, <3>2, Zenon
    <3> QED BY <1>10, <3>3, Zenon
  <2>2. f = Offsets(ss, start)
    BY <1>14
  <2> QED BY <2>1, <2>2, OffsetsApart
<1>16. al \in Nat \ {0} /\ al = align /\ al \in Aligns
  BY <1>10, <1>83, AlignFacts
<1>17. PICK g \in Nat \ {0} : g = MaxOf(al, FrameAlign) /\ g % al = 0 /\ g % FrameAlign = 0
  <2>1. FrameAlign \in Nat \ {0} /\ (al % FrameAlign = 0 \/ FrameAlign % al = 0)
    BY <1>16, AlignFacts DEF LayoutAssumption
  <2>2. PICK x : x = MaxOf(al, FrameAlign)
    OBVIOUS
  <2>3. x \in {al, FrameAlign} /\ x % al = 0 /\ x % FrameAlign = 0
    BY <1>16, <2>1, <2>2, MaxDivides
  <2> QED BY <1>16, <2>1, <2>2, <2>3
<1>18. PICK fs \in Nat : /\ fs = NextMultipleOf(f[m + 1], g) /\ fs >= f[m + 1]
                         /\ fs % al = 0 /\ fs % FrameAlign = 0
  <2>1. f[m + 1] \in Nat
    BY <1>15
  <2>2. PICK x : x = NextMultipleOf(f[m + 1], g)
    OBVIOUS
  <2>3. x \in Nat /\ x >= f[m + 1] /\ x % g = 0
    BY <2>1, <2>2, NextMultiple
  <2>4. x % al = 0 /\ x % FrameAlign = 0
    <3>1. FrameAlign \in Nat \ {0} /\ al \in Nat \ {0}
      BY <1>16 DEF LayoutAssumption
    <3>2. g % al = 0 /\ g % FrameAlign = 0
      BY <1>17
    <3> QED BY <3>1, <3>2, <2>3, Divides
  <2> QED BY <2>2, <2>3, <2>4
<1>19. /\ slots' = ss /\ maxAlign' = al /\ Len(slots') = m
       /\ layout'.frameSize = fs
       /\ layout'.offsets = [k \in 1..m |-> f[k]]
       /\ layout'.saved = [r \in written |-> b + (CHOOSE k \in 1..c : order[k] = r)]
       /\ layout'.raSlot = IF calls THEN b ELSE 0
  <2>1. base + Len(order) = m /\ base + Len(order) + 1 = m + 1
    BY <1>4, <1>5, <1>6
  <2> QED BY <1>1, <1>4, <1>5, <1>9, <1>10, <1>14, <1>16, <1>17, <1>18, <2>1
<1>20. TypeInv'
  <2>1. \A k \in 1..m : ss[k].align <= al
    BY <1>10, <1>16
  <2>2. stored = {}
    BY <1>1 DEF TypeInv
  <2> QED BY <1>1, <1>10, <1>16, <1>19, <2>1, <2>2 DEF TypeInv
<1>21. layout'.frameSize \in Nat /\ layout'.frameSize % FrameAlign = 0 /\ layout'.frameSize % maxAlign' = 0
  BY <1>18, <1>19
<1>22. start <= f[m + 1] /\ f[m + 1] \in Nat /\ outgoing \in Nat
  BY <1>15 DEF TypeInv
<1>23. outgoing' <= layout'.frameSize
  BY <1>1, <1>12, <1>18, <1>19, <1>22
<1>24. ASSUME NEW k \in 1..m
       PROVE  /\ layout'.offsets[k] = f[k] /\ f[k] \in Nat /\ outgoing <= f[k]
              /\ f[k] + ss[k].size <= fs /\ f[k] % ss[k].align = 0
  <2>1. f[k] \in Nat /\ start <= f[k] /\ f[k] + ss[k].size <= f[m + 1] /\ f[k] % ss[k].align = 0
    BY <1>15
  <2>2. PICK z \in Nat : z = ss[k].size
    BY <1>11
  <2> QED BY <1>12, <1>18, <1>19, <1>22, <2>1, <2>2, SMTT(30)
<1>25. \A k, l \in 1..m : k < l => f[k] + ss[k].size <= f[l]
  BY <1>15
<1>26. ASSUME NEW r \in written
       PROVE  \E k \in 1..c : layout'.saved[r] = b + k /\ order[k] = r
  BY <1>3, <1>19
<1>27. \A r \in written : r # Ra
  BY DEF TypeInv, LayoutAssumption, Ra
<1>28. Saved' = Saved
  BY <1>1 DEF Saved
<1>29. ASSUME NEW r \in Saved
       PROVE  /\ Home(r)' \in 1..m /\ Home(r)' > n
              /\ r = Ra => Home(r)' = b /\ calls
              /\ r # Ra => r \in written /\ Home(r)' = layout'.saved[r] /\ Home(r)' > b
  <2>1. CASE r = Ra
    <3>1. calls
      BY <1>27, <2>1 DEF Saved
    <3>2. b = n + 1 /\ Home(r)' = b
      BY <1>5, <1>19, <2>1, <3>1 DEF Home
    <3> QED BY <1>6, <2>1, <3>1, <3>2
  <2>2. CASE r # Ra
    <3>1. r \in written /\ Home(r)' = layout'.saved[r]
      BY <2>2 DEF Saved, Home
    <3>2. PICK k \in 1..c : layout'.saved[r] = b + k
      BY <1>26, <3>1
    <3> QED BY <1>5, <1>6, <2>2, <3>1, <3>2
  <2> QED BY <2>1, <2>2
<1>30. ASSUME NEW r \in Saved, NEW q \in Saved, Home(r)' = Home(q)' PROVE r = q
  <2>1. CASE r = Ra \/ q = Ra
    BY <1>29, <1>30, <2>1
  <2>2. CASE r # Ra /\ q # Ra
    <3>1. r \in written /\ q \in written /\ layout'.saved[r] = layout'.saved[q]
      BY <1>29, <1>30, <2>2
    <3>2. PICK k \in 1..c : layout'.saved[r] = b + k /\ order[k] = r
      BY <1>26, <3>1
    <3>3. PICK l \in 1..c : layout'.saved[q] = b + l /\ order[l] = q
      BY <1>26, <3>1
    <3>4. b + k = b + l
      BY <3>1, <3>2, <3>3
    <3>5. k = l
      BY <3>4
    <3> QED BY <3>2, <3>3, <3>5
  <2> QED BY <2>1, <2>2
<1>31. \A r \in Saved : ss[Home(r)'].size = WordSize
  BY <1>10, <1>29
<1>32. IF calls' THEN layout'.raSlot \in 1..Len(slots') ELSE layout'.raSlot = 0
  BY <1>1, <1>5, <1>6, <1>19
<1>33. DOMAIN layout'.offsets = 1..m /\ DOMAIN layout'.saved = written
  BY <1>19
<1>34. LaidOut'
  <2>1. \A k \in 1..Len(slots') :
          /\ layout'.offsets[k] \in Nat /\ outgoing' <= layout'.offsets[k]
          /\ layout'.offsets[k] + slots'[k].size <= layout'.frameSize
          /\ layout'.offsets[k] % slots'[k].align = 0
    BY <1>1, <1>19, <1>24
  <2>2. \A k, l \in 1..Len(slots') : k < l => layout'.offsets[k] + slots'[k].size <= layout'.offsets[l]
    BY <1>19, <1>24, <1>25
  <2>3. \A r \in Saved' : Home(r)' \in 1..Len(slots') /\ slots'[Home(r)'].size = WordSize
    BY <1>19, <1>28, <1>29, <1>31
  <2>4. \A r, q \in Saved' : Home(r)' = Home(q)' => r = q
    BY <1>28, <1>30
  <2>5. DOMAIN layout'.offsets = 1..Len(slots') /\ DOMAIN layout'.saved = written'
    BY <1>1, <1>19, <1>33
  <2> QED BY <1>21, <1>23, <1>32, <2>1, <2>2, <2>3, <2>4, <2>5 DEF LaidOut
<1> QED BY <1>20, <1>34

-----------------------------------------------------------------------------
\* The prologue moves sp once and then stores each saved register to its slot;
\* the epilogue loads them all and moves sp back last.
LEMMA PrologueIs ==
  ASSUME LayoutAssumption, TypeInv, LaidOut, NEW p, p = Prologue
  PROVE  /\ p \in Seq(Instr) /\ Len(p) >= 1
         /\ p[1] = Adjust(-layout.frameSize)
         /\ \A k \in 2..Len(p) : \E r \in Saved : p[k] = Store(r, Home(r))
         /\ \A r \in Saved : \E k \in 2..Len(p) : p[k] = Store(r, Home(r))
<1>1. PICK n \in Nat : n = Cardinality(written) /\ InOrder(written) \in [1..n -> written]
        /\ \A r \in written : \E k \in 1..n : InOrder(written)[k] = r
  <2>1. written \subseteq Nat /\ IsFiniteSet(written)
    BY FS_Subset DEF TypeInv, LayoutAssumption
  <2> QED BY <2>1, InOrderOnce
<1>2. PICK order : order = InOrder(written)
  OBVIOUS
<1>3. order \in [1..n -> written] /\ DOMAIN order = 1..n
      /\ \A r \in written : \E k \in 1..n : order[k] = r
  BY <1>1, <1>2
<1>4. \A r \in written : r \in Int /\ r # Ra /\ r \in Saved /\ Home(r) = layout.saved[r]
  BY DEF TypeInv, LayoutAssumption, Ra, Saved, Home
<1>5. \A r \in Saved : Home(r) \in Nat /\ r \in Int /\ (r # Ra => r \in written)
  BY <1>4 DEF LaidOut, Saved, Ra
<1>6. PICK a \in Seq(Instr) : a = <<Adjust(-layout.frameSize)>> /\ Len(a) = 1 /\ a[1] = Adjust(-layout.frameSize)
  <2>1. -layout.frameSize \in Int
    BY DEF LaidOut
  <2>2. Adjust(-layout.frameSize) \in Instr
    BY <2>1 DEF Adjust, Instr, Sp
  <2>3. \A x \in Instr : <<x>> \in Seq(Instr) /\ Len(<<x>>) = 1 /\ <<x>>[1] = x
    OBVIOUS
  <2> QED BY <2>2, <2>3
<1>7. \A r \in Saved : Store(r, Home(r)) \in Instr
  BY <1>5 DEF Store, Instr
<1>8. PICK b \in Seq(Instr) :
        /\ b = IF layout.raSlot = 0 THEN <<>> ELSE <<Store(Ra, layout.raSlot)>>
        /\ \A k \in 1..Len(b) : Ra \in Saved /\ b[k] = Store(Ra, Home(Ra))
        /\ Ra \in Saved => Len(b) = 1
  <2>1. CASE calls
    <3>1. Ra \in Saved /\ layout.raSlot # 0 /\ layout.raSlot = Home(Ra)
      BY <2>1, LenProperties DEF Saved, LaidOut, Home, TypeInv
    <3>2. Store(Ra, Home(Ra)) \in Instr
      BY <1>7, <3>1
    <3>3. \A x \in Instr : <<x>> \in Seq(Instr) /\ Len(<<x>>) = 1 /\ \A k \in 1..Len(<<x>>) : <<x>>[k] = x
      OBVIOUS
    <3> QED BY <3>1, <3>2, <3>3
  <2>2. CASE ~calls
    <3>1. Ra \notin Saved /\ layout.raSlot = 0
      BY <2>2, <1>4 DEF Saved, LaidOut
    <3>2. PICK b : b = <<>> /\ b \in Seq(Instr) /\ Len(b) = 0
      <4>1. <<>> \in Seq(Instr)
        OBVIOUS
      <4>2. Len(<<>>) = 0
        OBVIOUS
      <4> QED BY <4>1, <4>2, Zenon
    <3>3. b = IF layout.raSlot = 0 THEN <<>> ELSE <<Store(Ra, layout.raSlot)>>
      BY <3>1, <3>2
    <3>4. \A k \in 1..Len(b) : FALSE
      BY <3>2
    <3> QED BY <3>1, <3>2, <3>3, <3>4, Zenon
  <2> QED BY <2>1, <2>2
<1>9. PICK c : c = [k \in DOMAIN order |-> Store(order[k], layout.saved[order[k]])]
  OBVIOUS
<1>10. c \in Seq(Instr) /\ Len(c) = n /\ \A k \in 1..n : order[k] \in written /\ c[k] = Store(order[k], Home(order[k]))
  <2>1. \A k \in 1..n : order[k] \in written /\ Store(order[k], layout.saved[order[k]]) = Store(order[k], Home(order[k]))
                       /\ Store(order[k], Home(order[k])) \in Instr
    BY <1>3, <1>4, <1>7
  <2> QED BY <1>3, <1>9, <2>1
<1>11. p = (a \o b) \o c
  BY <1>2, <1>6, <1>8, <1>9 DEF Prologue
<1>12. PICK q : q = a \o b
  OBVIOUS
<1>13. /\ q \in Seq(Instr) /\ Len(q) = Len(a) + Len(b)
       /\ \A k \in 1..Len(a) : q[k] = a[k]
       /\ \A k \in 1..Len(b) : q[Len(a) + k] = b[k]
  BY <1>12, ConcatAt
<1>14. p = q \o c
  BY <1>11, <1>12
<1>15. /\ p \in Seq(Instr) /\ Len(p) = Len(q) + Len(c)
       /\ \A k \in 1..Len(q) : p[k] = q[k]
       /\ \A k \in 1..Len(c) : p[Len(q) + k] = c[k]
  <2>1. c \in Seq(Instr) /\ q \in Seq(Instr)
    BY <1>10, <1>13
  <2> QED BY <1>14, <2>1, ConcatAt
<1>16. PICK m \in Nat : m = Len(b)
  BY LenProperties
<1>17. /\ Len(q) = 1 + m /\ Len(p) = 1 + m + n /\ p[1] = a[1]
       /\ \A k \in 1..m : p[1 + k] = b[k]
       /\ \A k \in 1..n : p[1 + m + k] = c[k]
  BY <1>6, <1>10, <1>13, <1>15, <1>16
<1>18. ASSUME NEW k \in 2..Len(p) PROVE \E r \in Saved : p[k] = Store(r, Home(r))
  <2>1. CASE k <= 1 + m
    <3>1. k - 1 \in 1..m /\ 1 + (k - 1) = k
      BY <2>1
    <3> QED BY <1>8, <1>16, <1>17, <3>1
  <2>2. CASE k > 1 + m
    <3>1. k - (1 + m) \in 1..n /\ 1 + m + (k - (1 + m)) = k
      BY <1>17, <2>2
    <3>2. PICK j \in 1..n : 1 + m + j = k
      BY <3>1
    <3>3. p[k] = c[j] /\ c[j] = Store(order[j], Home(order[j])) /\ order[j] \in Saved
      BY <1>4, <1>10, <1>17, <3>2
    <3> QED BY <3>3
  <2> QED BY <1>17, <2>1, <2>2
<1>19. ASSUME NEW r \in Saved PROVE \E k \in 2..Len(p) : p[k] = Store(r, Home(r))
  <2>1. CASE r = Ra
    <3>1. m = 1 /\ 1 \in 1..m /\ b[1] = Store(Ra, Home(Ra))
      BY <1>8, <1>16, <2>1
    <3>2. 2 \in 2..Len(p) /\ p[2] = b[1]
      <4>1. p[1 + 1] = b[1]
        BY <1>17, <3>1
      <4> QED BY <1>17, <3>1, <4>1
    <3> QED BY <2>1, <3>1, <3>2
  <2>2. CASE r # Ra
    <3>1. PICK k \in 1..n : order[k] = r
      BY <1>3, <1>5, <2>2
    <3>2. 1 + m + k \in 2..Len(p) /\ p[1 + m + k] = Store(r, Home(r))
      BY <1>10, <1>17, <3>1
    <3> QED BY <3>2
  <2> QED BY <2>1, <2>2
<1> QED BY <1>6, <1>15, <1>17, <1>18, <1>19

LEMMA EpilogueIs ==
  ASSUME LayoutAssumption, TypeInv, LaidOut, NEW e, e = Epilogue
  PROVE  /\ e \in Seq(Instr) /\ Len(e) >= 1
         /\ e[Len(e)] = Adjust(layout.frameSize)
         /\ \A k \in 1..(Len(e) - 1) : \E r \in Saved : e[k] = Load(r, Home(r))
         /\ \A r \in Saved : \E k \in 1..(Len(e) - 1) : e[k] = Load(r, Home(r))
<1>1. PICK p : p = Prologue
  OBVIOUS
<1>2. /\ p \in Seq(Instr) /\ Len(p) >= 1
      /\ p[1] = Adjust(-layout.frameSize)
      /\ \A k \in 2..Len(p) : \E r \in Saved : p[k] = Store(r, Home(r))
      /\ \A r \in Saved : \E k \in 2..Len(p) : p[k] = Store(r, Home(r))
  BY <1>1, PrologueIs
<1>3. PICK n \in Nat : n = Len(p) /\ n >= 1 /\ DOMAIN p = 1..n
  BY <1>2, LenProperties
<1>4. \A k \in 1..n : Reverse(p)[k] = p[(n - k) + 1]
  BY <1>3 DEF Reverse
<1> DEFINE Back(i) == IF i.op = "adjust" THEN Adjust(layout.frameSize) ELSE Load(i.reg, i.slot)
<1>5. e = [k \in 1..n |-> Back(Reverse(p)[k])]
  BY <1>1, <1>3 DEF Epilogue
<1>6. \A k \in 1..n : e[k] = Back(p[(n - k) + 1])
  BY <1>4, <1>5
<1>7. Back(p[1]) = Adjust(layout.frameSize)
  BY <1>2 DEF Adjust
<1>8. \A r : Back(Store(r, Home(r))) = Load(r, Home(r))
  BY DEF Store
<1>9. \A i \in Instr : Back(i) \in Instr
  <2> TAKE i \in Instr
  <2>1. Adjust(layout.frameSize) \in Instr
    BY DEF Adjust, Instr, LaidOut, Sp
  <2>2. Load(i.reg, i.slot) \in Instr
    BY DEF Load, Instr
  <2> QED BY <2>1, <2>2
<1> HIDE DEF Back
<1>10. \A k \in 1..n : (n - k) + 1 \in 1..n /\ p[(n - k) + 1] \in Instr
  <2>1. \A k \in 1..n : (n - k) + 1 \in 1..n
    OBVIOUS
  <2>2. \A k \in 1..n : p[k] \in Instr
    BY <1>2, <1>3
  <2> QED BY <2>1, <2>2
<1>11. e \in Seq(Instr) /\ Len(e) = n
  <2>1. \A k \in 1..n : e[k] \in Instr
    BY <1>6, <1>9, <1>10
  <2> QED BY <1>5, <2>1
<1>12. e[n] = Adjust(layout.frameSize)
  <2>1. n \in 1..n /\ (n - n) + 1 = 1
    BY <1>3
  <2> QED BY <1>6, <1>7, <2>1
<1>13. ASSUME NEW k \in 1..(n - 1) PROVE \E r \in Saved : e[k] = Load(r, Home(r))
  <2>1. k \in 1..n /\ (n - k) + 1 \in 2..n
    OBVIOUS
  <2>2. PICK r \in Saved : p[(n - k) + 1] = Store(r, Home(r))
    BY <1>2, <1>3, <2>1
  <2> QED BY <1>6, <1>8, <2>1, <2>2
<1>14. ASSUME NEW r \in Saved PROVE \E k \in 1..(n - 1) : e[k] = Load(r, Home(r))
  <2>1. PICK l \in 2..n : p[l] = Store(r, Home(r))
    BY <1>2, <1>3
  <2>2. PICK k \in 1..(n - 1) : (n - k) + 1 = l /\ k \in 1..n
    <3>1. (n + 1) - l \in 1..(n - 1) /\ (n - ((n + 1) - l)) + 1 = l /\ (n + 1) - l \in 1..n
      OBVIOUS
    <3> QED BY <3>1
  <2>3. e[k] = Back(p[l])
    BY <1>6, <2>2
  <2> QED BY <1>8, <2>1, <2>3
<1> QED BY <1>3, <1>11, <1>12, <1>13, <1>14

-----------------------------------------------------------------------------
\* Where the bytes of slots, arguments and the caller's frame are.
LEMMA BytesApart ==
  ASSUME LayoutAssumption, TypeInv, LaidOut
  PROVE  /\ \A k, l \in 1..Len(slots) : k # l => Bytes(k) \cap Bytes(l) = {}
         /\ \A k \in 1..Len(slots) : /\ Bytes(k) \subseteq 0..(layout.frameSize + WordSize - 1)
                                     /\ Bytes(k) \cap Area(layout.frameSize, WordSize) = {}
                                     /\ Bytes(k) \cap Area(0, outgoing) = {}
         /\ Area(layout.frameSize, WordSize) \subseteq 0..(layout.frameSize + WordSize - 1)
         /\ Area(0, outgoing) \cap Area(layout.frameSize, WordSize) = {}
         /\ \A r \in Saved : Bytes(Home(r)) # {}
<1>1. PICK fs \in Nat : fs = layout.frameSize
  BY DEF LaidOut
<1>2. PICK w \in Nat : w = WordSize /\ w >= 1
  BY DEF LayoutAssumption
<1>3. PICK og \in Nat : og = outgoing /\ og <= fs
  BY <1>1 DEF TypeInv, LaidOut
<1>4. ASSUME NEW k \in 1..Len(slots)
      PROVE  \E x \in Nat, z \in Nat : /\ x = layout.offsets[k] /\ z = slots[k].size
                                       /\ Bytes(k) = x..(x + z - 1) /\ og <= x /\ x + z <= fs
  <2>1. slots[k] \in Slot
    BY DEF TypeInv
  <2>2. layout.offsets[k] \in Nat /\ slots[k].size \in Nat
    BY <2>1 DEF LaidOut, Slot
  <2>3. PICK x \in Nat, z \in Nat : x = layout.offsets[k] /\ z = slots[k].size
    BY <2>2
  <2>4. og <= x /\ x + z <= fs
    BY <1>1, <1>3, <2>3 DEF LaidOut
  <2>5. Bytes(k) = x..(x + z - 1)
    BY <2>3 DEF Bytes, Area
  <2> QED BY <2>3, <2>4, <2>5
<1>5. ASSUME NEW k \in 1..Len(slots), NEW l \in 1..Len(slots), k < l
      PROVE  Bytes(k) \cap Bytes(l) = {}
  <2>1. PICK x \in Nat, z \in Nat : x = layout.offsets[k] /\ z = slots[k].size /\ Bytes(k) = x..(x + z - 1)
    BY <1>4
  <2>2. PICK y \in Nat, v \in Nat : y = layout.offsets[l] /\ Bytes(l) = y..(y + v - 1)
    BY <1>4
  <2>3. x + z <= y
    BY <1>5, <2>1, <2>2 DEF LaidOut
  <2>4. (x..(x + z - 1)) \cap (y..(y + v - 1)) = {}
    <3> SUFFICES ASSUME NEW o \in x..(x + z - 1), o \in y..(y + v - 1) PROVE FALSE
      OBVIOUS
    <3>1. o \in Int /\ o <= x + z - 1 /\ y <= o
      OBVIOUS
    <3> QED BY <2>3, <3>1
  <2> QED BY <2>1, <2>2, <2>4
<1>6. ASSUME NEW k \in 1..Len(slots), NEW l \in 1..Len(slots), k # l
      PROVE  Bytes(k) \cap Bytes(l) = {}
  <2>1. k < l \/ l < k
    BY <1>6
  <2> QED BY <1>5, <2>1
<1>7. Area(layout.frameSize, WordSize) = fs..(fs + w - 1) /\ Area(0, outgoing) = 0..(og - 1)
  BY <1>1, <1>2, <1>3 DEF Area
<1>8. ASSUME NEW k \in 1..Len(slots)
      PROVE  /\ Bytes(k) \subseteq 0..(fs + w - 1)
             /\ Bytes(k) \cap (fs..(fs + w - 1)) = {}
             /\ Bytes(k) \cap (0..(og - 1)) = {}
  <2>1. PICK x \in Nat, z \in Nat : Bytes(k) = x..(x + z - 1) /\ og <= x /\ x + z <= fs
    BY <1>4
  <2> QED BY <1>2, <2>1
<1>9. ASSUME NEW r \in Saved PROVE Bytes(Home(r)) # {}
  <2>1. PICK h \in 1..Len(slots) : h = Home(r) /\ slots[h].size = w
    BY <1>2 DEF LaidOut
  <2>2. PICK x \in Nat : Bytes(h) = x..(x + w - 1)
    BY <1>4, <2>1
  <2>3. x \in Bytes(h)
    BY <1>2, <2>2
  <2> QED BY <2>1, <2>3
<1> QED
  <2>1. fs..(fs + w - 1) \subseteq 0..(fs + w - 1) /\ (0..(og - 1)) \cap (fs..(fs + w - 1)) = {}
    BY <1>3
  <2> QED BY <1>1, <1>2, <1>6, <1>7, <1>8, <1>9, <2>1

\* What a step of the run leaves alone.
LEMMA FrameKept ==
  ASSUME UNCHANGED <<frame, layout>>
  PROVE  /\ Saved' = Saved /\ \A r : Home(r)' = Home(r)
         /\ \A k : Bytes(k)' = Bytes(k)
         /\ LaidOut' = LaidOut
<1>1. /\ slots' = slots /\ maxAlign' = maxAlign /\ outgoing' = outgoing
      /\ written' = written /\ calls' = calls /\ layout' = layout
  BY DEF frame
<1>2. Saved' = Saved /\ \A r : Home(r)' = Home(r)
  BY <1>1 DEF Saved, Home
<1>3. \A k : Bytes(k)' = Bytes(k)
  BY <1>1 DEF Bytes, Area
<1>4. LaidOut' = LaidOut
  BY <1>1, <1>2 DEF LaidOut
<1> QED BY <1>2, <1>3, <1>4

-----------------------------------------------------------------------------
LEMMA FrameInit == LayoutAssumption /\ Init => FrameInv
<1> SUFFICES ASSUME LayoutAssumption, Init PROVE FrameInv
  OBVIOUS
<1>1. phase = "lower" /\ slots = <<>> /\ slots \in Seq(Slot) /\ Len(slots) = 0
  BY DEF Init
<1>2. TypeInv
  <2>1. \A k \in 1..Len(slots) : FALSE
    BY <1>1
  <2>2. /\ maxAlign = 1 /\ outgoing = 0 /\ written = {} /\ calls = FALSE
        /\ layout = NoLayout /\ stored = {}
    BY DEF Init
  <2>3. maxAlign \in Aligns
    BY <2>2, AlignFacts
  <2> QED BY <1>1, <2>1, <2>2, <2>3 DEF TypeInv
<1> QED BY <1>1, <1>2 DEF FrameInv, RunInv

\* Before the layout nothing of the run is there.
LEMMA LowerStep ==
  ASSUME LayoutAssumption, FrameInv,
         \/ \E s \in Shapes : NewStackSlot(s)
         \/ \E n \in 0..MaxOutgoing : LowerCall(n)
         \/ \E r \in CalleeSaved : AssignCalleeSaved(r)
  PROVE  FrameInv'
<1>1. TypeInv
  BY DEF FrameInv
<1>2. phase = "lower"
  BY DEF NewStackSlot, LowerCall, AssignCalleeSaved
<1>3. stored = {} /\ layout = NoLayout
  BY <1>1, <1>2 DEF TypeInv
<1>4. ASSUME NEW s \in Shapes, NewStackSlot(s) PROVE FrameInv'
  <2>1. /\ slots' = Append(slots, s) /\ maxAlign' = MaxOf(maxAlign, s.align)
        /\ outgoing' = outgoing /\ written' = written /\ calls' = calls
        /\ layout' = layout /\ phase' = phase /\ stored' = stored
    BY <1>4 DEF NewStackSlot, run
  <2>2. s \in Slot /\ s.align \in Aligns /\ s.align \in Nat \ {0} /\ maxAlign \in Nat \ {0}
    BY <1>1, AlignFacts DEF Slot, TypeInv
  <2>3. slots' \in Seq(Slot) /\ Len(slots') = Len(slots) + 1 /\ slots'[Len(slots) + 1] = s
        /\ \A k \in 1..Len(slots) : slots'[k] = slots[k]
    BY <1>1, <2>1, <2>2 DEF TypeInv
  <2>4. maxAlign' \in Aligns /\ maxAlign <= maxAlign' /\ s.align <= maxAlign' /\ maxAlign' \in Nat
    BY <1>1, <2>1, <2>2 DEF MaxOf, TypeInv
  <2>5. ASSUME NEW k \in 1..Len(slots') PROVE slots'[k].align <= maxAlign'
    <3>1. k \in 1..Len(slots) \/ k = Len(slots) + 1
      BY <1>1, <2>3, LenProperties DEF TypeInv
    <3>2. ASSUME k \in 1..Len(slots) PROVE slots'[k].align <= maxAlign'
      <4>1. slots'[k] = slots[k] /\ slots[k] \in Slot /\ slots[k].align <= maxAlign
        BY <1>1, <2>3, <3>2 DEF TypeInv
      <4>2. slots[k].align \in Nat
        BY <4>1, AlignFacts DEF Slot
      <4>3. \A x, y, z \in Nat : x <= y /\ y <= z => x <= z
        OBVIOUS
      <4> QED BY <2>2, <2>4, <4>1, <4>2, <4>3, Zenon
    <3> QED BY <2>3, <2>4, <3>1, <3>2
  <2>6. TypeInv'
    BY <1>1, <1>2, <1>3, <2>1, <2>3, <2>4, <2>5 DEF TypeInv
  <2> QED BY <1>2, <2>1, <2>6 DEF FrameInv, RunInv
<1>5. ASSUME NEW n \in 0..MaxOutgoing, LowerCall(n) PROVE FrameInv'
  <2>1. /\ outgoing' = MaxOf(outgoing, n * WordSize) /\ calls' = TRUE
        /\ slots' = slots /\ maxAlign' = maxAlign /\ written' = written
        /\ layout' = layout /\ phase' = phase /\ stored' = stored
    BY <1>5 DEF LowerCall, run
  <2>2. n * WordSize \in Nat
    <3>1. n \in Nat /\ WordSize \in Nat
      BY DEF LayoutAssumption
    <3> QED BY <3>1
  <2>3. outgoing' \in Nat
    BY <1>1, <2>1, <2>2 DEF MaxOf, TypeInv
  <2>4. TypeInv'
    BY <1>1, <2>1, <2>3 DEF TypeInv
  <2> QED BY <1>2, <2>1, <2>4 DEF FrameInv, RunInv
<1>6. ASSUME NEW r \in CalleeSaved, AssignCalleeSaved(r) PROVE FrameInv'
  <2>1. /\ written' = written \cup {r}
        /\ slots' = slots /\ maxAlign' = maxAlign /\ outgoing' = outgoing /\ calls' = calls
        /\ layout' = layout /\ phase' = phase /\ stored' = stored
    BY <1>6 DEF AssignCalleeSaved, run
  <2>2. TypeInv'
    BY <1>1, <2>1 DEF TypeInv
  <2> QED BY <1>2, <2>1, <2>2 DEF FrameInv, RunInv
<1> QED BY <1>4, <1>5, <1>6

LEMMA ComputeStep ==
  ASSUME LayoutAssumption, FrameInv, ComputeFrameLayout
  PROVE  FrameInv'
<1>1. phase' = "logue"
  BY DEF ComputeFrameLayout
<1>2. TypeInv' /\ LaidOut'
  BY LayoutStep DEF FrameInv
<1> QED BY <1>1, <1>2 DEF FrameInv, RunInv

\* The types of the frame stay when only the run goes on.
LEMMA TypeKept ==
  ASSUME TypeInv, UNCHANGED <<frame, layout>>, stored' \subseteq 1..Len(slots),
         phase # "lower", phase' \in {"enter", "body", "leave", "returned"}
  PROVE  TypeInv'
BY DEF TypeInv, frame

LEMMA InsertStep ==
  ASSUME LayoutAssumption, FrameInv, InsertLogue
  PROVE  FrameInv'
<1>1. TypeInv /\ LaidOut /\ phase = "logue" /\ phase' = "enter"
  BY DEF FrameInv, InsertLogue
<1>2. /\ todo' = Prologue /\ sp' = layout.frameSize /\ file' = [r \in Regs |-> r]
      /\ memory' = [o \in 0..(layout.frameSize + WordSize - 1) |->
                      IF o < layout.frameSize THEN Unset ELSE Argument]
      /\ stored' = stored /\ stored = {}
  BY <1>1 DEF InsertLogue, TypeInv
<1>3. UNCHANGED <<frame, layout>>
  BY DEF InsertLogue
<1>4. TypeInv'
  BY <1>1, <1>2, <1>3, TypeKept
<1>5. Saved' = Saved /\ LaidOut' = LaidOut /\ layout' = layout
  BY <1>3, FrameKept
<1>6. Prologue' = Prologue
  BY <1>3 DEF Prologue, frame
<1>7. Regs' = Regs
  OBVIOUS
<1>8. Entering'
  <2>1. \A r \in Regs : file'[r] = r
    BY <1>2
  <2> QED BY <1>2, <1>5, <1>6, <2>1 DEF Entering
<1>9. Running'
  <2>1. DOMAIN memory' = 0..(layout.frameSize + WordSize - 1)
    BY <1>2
  <2>2. ASSUME NEW o \in Area(layout.frameSize, WordSize) PROVE memory'[o] = Argument
    <3>1. PICK fs \in Nat : fs = layout.frameSize
      BY <1>1 DEF LaidOut
    <3>2. o \in 0..(fs + WordSize - 1) /\ ~(o < fs)
      BY <2>2, <3>1 DEF Area, LayoutAssumption
    <3> QED BY <1>2, <3>1, <3>2
  <2>3. file' = [r \in Regs |-> file'[r]] /\ \A r \in Regs : file'[r] = r
    BY <1>2
  <2> QED BY <1>5, <2>1, <2>2, <2>3 DEF Running, Area
<1> QED BY <1>1, <1>4, <1>5, <1>8, <1>9 DEF FrameInv, RunInv

\* A store to one slot leaves the bytes of the others alone.
LEMMA StoreKeeps ==
  ASSUME LayoutAssumption, TypeInv, LaidOut, Running,
         NEW k \in 1..Len(slots), NEW v, memory' = Filled(Bytes(k), v)
  PROVE  /\ DOMAIN memory' = DOMAIN memory
         /\ \A o \in Area(layout.frameSize, WordSize) : memory'[o] = memory[o]
         /\ \A o \in Bytes(k) : memory'[o] = v
         /\ \A l \in 1..Len(slots) : l # k => \A o \in Bytes(l) : memory'[o] = memory[o]
<1>1. memory' = [o \in DOMAIN memory |-> IF o \in Bytes(k) THEN v ELSE memory[o]]
  BY DEF Filled
<1>2. DOMAIN memory = 0..(layout.frameSize + WordSize - 1)
  BY DEF Running
<1>3. /\ \A l \in 1..Len(slots) : l # k => Bytes(k) \cap Bytes(l) = {}
      /\ \A l \in 1..Len(slots) : Bytes(l) \subseteq DOMAIN memory
      /\ Bytes(k) \cap Area(layout.frameSize, WordSize) = {}
      /\ Area(layout.frameSize, WordSize) \subseteq DOMAIN memory
  BY <1>2, BytesApart
<1> QED BY <1>1, <1>3

\* The slot area an instruction uses, with sp at the bottom of the frame.
LEMMA AreaIsBytes ==
  ASSUME LaidOut, sp = 0, NEW k \in 1..Len(slots)
  PROVE  SlotArea(k) = Bytes(k)
<1>1. PICK x \in Nat : x = layout.offsets[k]
  BY DEF LaidOut
<1>2. sp + layout.offsets[k] = layout.offsets[k]
  BY <1>1
<1> QED BY <1>2 DEF SlotArea, Bytes

LEMMA EnterStep ==
  ASSUME LayoutAssumption, FrameInv, Logue, phase = "enter"
  PROVE  FrameInv'
<1>1. TypeInv /\ LaidOut /\ Running /\ Entering
  BY DEF FrameInv, RunInv
<1>2. /\ UNCHANGED <<frame, layout>> /\ phase' = phase /\ stored' = stored
      /\ todo # <<>> /\ todo' = Tail(todo)
  BY DEF Logue
<1>3. /\ Saved' = Saved /\ \A r : Home(r)' = Home(r)
      /\ \A k : Bytes(k)' = Bytes(k)
      /\ LaidOut' /\ layout' = layout
  BY <1>1, <1>2, FrameKept
<1>4. TypeInv'
  <2>1. stored' \subseteq 1..Len(slots)
    BY <1>1, <1>2 DEF TypeInv
  <2> QED BY <1>1, <1>2, <2>1, TypeKept
<1>5. stored = {} /\ \A r \in Regs : file[r] = r
  BY <1>1 DEF Entering
<1>6. CASE sp = layout.frameSize /\ todo = Prologue
  <2>1. PICK p : p = Prologue
    OBVIOUS
  <2>2. /\ p \in Seq(Instr) /\ Len(p) >= 1
        /\ p[1] = Adjust(-layout.frameSize)
        /\ \A k \in 2..Len(p) : \E r \in Saved : p[k] = Store(r, Home(r))
        /\ \A r \in Saved : \E k \in 2..Len(p) : p[k] = Store(r, Home(r))
    BY <1>1, <2>1, PrologueIs
  <2>3. PICK n \in Nat : n = Len(p) /\ n >= 1
    BY <2>2, LenProperties
  <2>4. PICK t : t = Tail(p)
    OBVIOUS
  <2>5. t \in Seq(Instr) /\ Len(t) = n - 1 /\ \A k \in 1..(n - 1) : t[k] = p[k + 1]
    BY <2>2, <2>3, <2>4
  <2>6. Head(todo) = Adjust(-layout.frameSize)
    BY <1>6, <2>1, <2>2, <2>3
  <2>7. sp' = sp + (-layout.frameSize) /\ file' = file /\ memory' = memory
    BY <2>6 DEF Logue, Adjust
  <2>8. sp' = 0
    BY <1>1, <1>6, <2>7 DEF LaidOut
  <2>9. todo' = t
    BY <1>2, <1>6, <2>1, <2>4
  <2>10. ASSUME NEW k \in 1..(n - 1) PROVE \E r \in Saved : t[k] = Store(r, Home(r))
    <3>1. k + 1 \in 2..n
      OBVIOUS
    <3> QED BY <2>2, <2>3, <2>5, <3>1
  <2>11. ASSUME NEW r \in Saved PROVE \E k \in 1..(n - 1) : t[k] = Store(r, Home(r))
    <3>1. PICK k \in 2..n : p[k] = Store(r, Home(r))
      BY <2>2, <2>3
    <3>2. k - 1 \in 1..(n - 1) /\ (k - 1) + 1 = k
      OBVIOUS
    <3> QED BY <2>5, <3>1, <3>2
  <2>12. Entering'
    <3>1. stored' = {} /\ \A r \in Regs : file'[r] = r
      BY <1>2, <1>5, <2>7
    <3>2. \A k \in 1..Len(todo') : \E r \in Saved' : todo'[k] = Store(r, Home(r)')
      BY <1>3, <2>5, <2>9, <2>10
    <3>3. \A r \in Saved' : \E k \in 1..Len(todo') : todo'[k] = Store(r, Home(r)')
      BY <1>3, <2>5, <2>9, <2>11
    <3> QED BY <2>5, <2>8, <2>9, <3>1, <3>2, <3>3 DEF Entering
  <2>13. Running'
    BY <1>1, <1>3, <2>7 DEF Running
  <2> QED BY <1>2, <1>3, <1>4, <2>12, <2>13 DEF FrameInv, RunInv
<1>7. CASE /\ sp = 0 /\ todo \in Seq(Instr)
           /\ \A k \in 1..Len(todo) : \E r \in Saved : todo[k] = Store(r, Home(r))
           /\ \A r \in Saved : \/ Holds(Home(r), r)
                               \/ \E k \in 1..Len(todo) : todo[k] = Store(r, Home(r))
  <2>1. PICK n \in Nat : n = Len(todo) /\ n >= 1
    BY <1>2, <1>7, LenProperties
  <2>2. PICK q \in Saved : todo[1] = Store(q, Home(q))
    BY <1>7, <2>1
  <2>3. Head(todo) = Store(q, Home(q))
    BY <1>7, <2>1, <2>2
  <2>4. q \in Regs /\ file[q] = q
    BY <1>1, <1>5 DEF Saved, Regs, TypeInv
  <2>5. PICK h \in 1..Len(slots) : h = Home(q)
    BY <1>1 DEF LaidOut
  <2>6. memory' = Filled(SlotArea(h), q) /\ sp' = sp /\ file' = file
    BY <2>3, <2>4, <2>5 DEF Logue, Store
  <2>7. memory' = Filled(Bytes(h), q)
    BY <1>1, <1>7, <2>5, <2>6, AreaIsBytes
  <2>8. /\ DOMAIN memory' = DOMAIN memory
        /\ \A o \in Area(layout.frameSize, WordSize) : memory'[o] = memory[o]
        /\ \A o \in Bytes(h) : memory'[o] = q
        /\ \A l \in 1..Len(slots) : l # h => \A o \in Bytes(l) : memory'[o] = memory[o]
    BY <1>1, <2>7, StoreKeeps
  <2>9. PICK t : t = Tail(todo)
    OBVIOUS
  <2>10. t \in Seq(Instr) /\ Len(t) = n - 1 /\ \A k \in 1..(n - 1) : t[k] = todo[k + 1]
    BY <1>7, <2>1, <2>9
  <2>11. todo' = t
    BY <1>2, <2>9
  <2>12. ASSUME NEW k \in 1..(n - 1) PROVE \E r \in Saved : t[k] = Store(r, Home(r))
    <3>1. k + 1 \in 1..n
      OBVIOUS
    <3> QED BY <1>7, <2>1, <2>10, <3>1
  <2>13. ASSUME NEW r \in Saved, ~ \E k \in 1..(n - 1) : t[k] = Store(r, Home(r))
         PROVE  \A o \in Bytes(Home(r)) : memory'[o] = r
    <3>1. CASE r = q
      BY <2>5, <2>8, <3>1
    <3>2. CASE r # q
      <4>1. Home(r) # h /\ Home(r) \in 1..Len(slots)
        BY <1>1, <2>5, <3>2 DEF LaidOut
      <4>2. Holds(Home(r), r)
        <5>1. SUFFICES ASSUME NEW k \in 1..n, todo[k] = Store(r, Home(r)) PROVE FALSE
          BY <1>7, <2>1
        <5>2. k # 1
          BY <2>2, <3>2, <5>1 DEF Store
        <5>3. k - 1 \in 1..(n - 1) /\ (k - 1) + 1 = k
          BY <5>2
        <5> QED BY <2>10, <2>13, <5>1, <5>3
      <4> QED BY <2>8, <4>1, <4>2 DEF Holds
    <3> QED BY <3>1, <3>2
  <2>14. Entering'
    <3>1. stored' = {} /\ \A r \in Regs : file'[r] = r
      BY <1>2, <1>5, <2>6
    <3>2. \A k \in 1..Len(todo') : \E r \in Saved' : todo'[k] = Store(r, Home(r)')
      BY <1>3, <2>10, <2>11, <2>12
    <3>3. ASSUME NEW r \in Saved'
          PROVE  Holds(Home(r), r)' \/ \E k \in 1..Len(todo') : todo'[k] = Store(r, Home(r)')
      <4>1. r \in Saved /\ Home(r)' = Home(r) /\ Bytes(Home(r))' = Bytes(Home(r))
        BY <1>3
      <4>2. Holds(Home(r), r)' \/ \E k \in 1..(n - 1) : t[k] = Store(r, Home(r))
        BY <2>13, <4>1 DEF Holds
      <4> QED BY <2>10, <2>11, <4>1, <4>2
    <3> QED BY <1>7, <2>6, <2>10, <2>11, <3>1, <3>2, <3>3 DEF Entering
  <2>15. Running'
    BY <1>1, <1>3, <2>6, <2>8 DEF Running
  <2> QED BY <1>2, <1>3, <1>4, <2>14, <2>15 DEF FrameInv, RunInv
<1> QED BY <1>1, <1>6, <1>7 DEF Entering

\* A load brings back what the bytes of a saved register's slot hold.
LEMMA LoadFinds ==
  ASSUME LayoutAssumption, TypeInv, LaidOut, Running, NEW q \in Saved, Holds(Home(q), q)
  PROVE  Loaded(Bytes(Home(q))) = q
<1>1. PICK a : a = Bytes(Home(q))
  OBVIOUS
<1>2. a # {} /\ a \subseteq DOMAIN memory
  <2>1. Home(q) \in 1..Len(slots)
    BY DEF LaidOut
  <2>2. DOMAIN memory = 0..(layout.frameSize + WordSize - 1)
    BY DEF Running
  <2> QED BY <1>1, <2>1, <2>2, BytesApart
<1>3. \A o \in a : memory[o] = q
  BY <1>1 DEF Holds
<1>4. (CHOOSE o \in a : TRUE) \in a
  BY <1>2
<1>5. Loaded(a) = memory[CHOOSE o \in a : TRUE]
  BY <1>2, <1>3 DEF Loaded
<1> QED BY <1>1, <1>3, <1>4, <1>5

LEMMA LeaveStep ==
  ASSUME LayoutAssumption, FrameInv, Logue, phase = "leave"
  PROVE  FrameInv'
<1>1. TypeInv /\ LaidOut /\ Running /\ Leaving /\ \A r \in Saved : Holds(Home(r), r)
  BY DEF FrameInv, RunInv
<1>2. /\ UNCHANGED <<frame, layout>> /\ phase' = phase /\ stored' = stored
      /\ todo # <<>> /\ todo' = Tail(todo)
  BY DEF Logue
<1>3. /\ Saved' = Saved /\ \A r : Home(r)' = Home(r)
      /\ \A k : Bytes(k)' = Bytes(k)
      /\ LaidOut' /\ layout' = layout
  BY <1>1, <1>2, FrameKept
<1>4. TypeInv'
  <2>1. stored' \subseteq 1..Len(slots)
    BY <1>1, <1>2 DEF TypeInv
  <2> QED BY <1>1, <1>2, <2>1, TypeKept
<1>5. /\ sp = 0 /\ todo \in Seq(Instr) /\ Len(todo) >= 1
      /\ todo[Len(todo)] = Adjust(layout.frameSize)
      /\ \A k \in 1..(Len(todo) - 1) : \E r \in Saved : todo[k] = Load(r, Home(r))
      /\ \A r \in Saved : \/ file[r] = r
                          \/ \E k \in 1..(Len(todo) - 1) : todo[k] = Load(r, Home(r))
  BY <1>1, <1>2 DEF Leaving
<1>6. PICK n \in Nat : n = Len(todo) /\ n >= 1
  BY <1>5, LenProperties
<1>7. PICK t : t = Tail(todo)
  OBVIOUS
<1>8. t \in Seq(Instr) /\ Len(t) = n - 1 /\ \A k \in 1..(n - 1) : t[k] = todo[k + 1]
  BY <1>5, <1>6, <1>7
<1>9. todo' = t
  BY <1>2, <1>7
<1>10. Head(todo) = todo[1]
  BY <1>5, <1>6
<1>11. /\ \A r \in Saved : r \in Regs
       /\ file = [r \in Regs |-> file[r]] /\ \A r \in Regs \ Saved : file[r] = r
  BY <1>1 DEF Saved, Regs, TypeInv, Running
<1>12. CASE n = 1
  <2>1. Head(todo) = Adjust(layout.frameSize)
    BY <1>5, <1>6, <1>10, <1>12
  <2>2. sp' = sp + layout.frameSize /\ file' = file /\ memory' = memory
    BY <2>1 DEF Logue, Adjust
  <2>3. sp' = layout.frameSize
    BY <1>1, <1>5, <2>2 DEF LaidOut
  <2>4. todo' = <<>>
    BY <1>8, <1>9, <1>12
  <2>5. ASSUME NEW r \in Regs PROVE file[r] = r
    <3>1. CASE r \in Saved
      <4>1. \A k \in 1..(Len(todo) - 1) : FALSE
        BY <1>6, <1>12
      <4> QED BY <1>5, <3>1, <4>1
    <3> QED BY <1>11, <3>1
  <2>6. Leaving'
    BY <1>3, <2>2, <2>3, <2>4, <2>5 DEF Leaving
  <2>7. Running'
    BY <1>1, <1>3, <2>2 DEF Running
  <2>8. ASSUME NEW r \in Saved PROVE Holds(Home(r), r)'
    BY <1>1, <1>3, <2>2 DEF Holds
  <2> QED BY <1>2, <1>3, <1>4, <2>6, <2>7, <2>8 DEF FrameInv, RunInv
<1>13. CASE n > 1
  <2>1. PICK q \in Saved : todo[1] = Load(q, Home(q))
    <3>1. 1 \in 1..(n - 1)
      BY <1>13
    <3> QED BY <1>5, <1>6, <3>1
  <2>2. Head(todo) = Load(q, Home(q))
    BY <1>10, <2>1
  <2>3. sp' = sp /\ memory' = memory /\ file' = [file EXCEPT ![q] = Loaded(SlotArea(Home(q)))]
    BY <2>2 DEF Logue, Load
  <2>4. Home(q) \in 1..Len(slots)
    BY <1>1 DEF LaidOut
  <2>5. SlotArea(Home(q)) = Bytes(Home(q))
    BY <1>1, <1>5, <2>4, AreaIsBytes
  <2>6. Loaded(Bytes(Home(q))) = q
    BY <1>1, LoadFinds
  <2>7. file' = [file EXCEPT ![q] = q]
    BY <2>3, <2>5, <2>6
  <2>8. file' = [r \in Regs |-> IF r = q THEN q ELSE file[r]]
    BY <1>11, <2>7
  <2>9. file' = [r \in Regs |-> file'[r]] /\ \A r \in Regs : file'[r] = IF r = q THEN q ELSE file[r]
    BY <2>8
  <2>10. Running'
    <3>1. \A r \in Regs \ Saved : file'[r] = r
      BY <1>11, <2>9
    <3> QED BY <1>1, <1>3, <2>3, <2>9, <3>1 DEF Running
  <2>11. t[n - 1] = Adjust(layout.frameSize) /\ n - 1 >= 1
    <3>1. n - 1 \in 1..(n - 1) /\ (n - 1) + 1 = n
      BY <1>13
    <3> QED BY <1>5, <1>6, <1>8, <3>1
  <2>12. ASSUME NEW k \in 1..((n - 1) - 1) PROVE \E r \in Saved : t[k] = Load(r, Home(r))
    <3>1. k \in 1..(n - 1) /\ k + 1 \in 1..(n - 1)
      OBVIOUS
    <3> QED BY <1>5, <1>6, <1>8, <3>1
  <2>13. ASSUME NEW r \in Saved, file'[r] # r
         PROVE  \E k \in 1..((n - 1) - 1) : t[k] = Load(r, Home(r))
    <3>1. r # q /\ file'[r] = file[r]
      BY <1>11, <2>9, <2>13
    <3>2. PICK k \in 1..(n - 1) : todo[k] = Load(r, Home(r))
      BY <1>5, <1>6, <2>13, <3>1
    <3>3. k # 1
      BY <2>1, <3>1, <3>2 DEF Load
    <3>4. k - 1 \in 1..((n - 1) - 1) /\ k - 1 \in 1..(n - 1) /\ (k - 1) + 1 = k
      BY <3>3
    <3> QED BY <1>8, <3>2, <3>4
  <2>14. Leaving'
    <3>1. Len(todo') = n - 1
      BY <1>8, <1>9
    <3>2. \A k \in 1..(Len(todo') - 1) : \E r \in Saved' : todo'[k] = Load(r, Home(r)')
      BY <1>3, <1>9, <3>1, <2>12
    <3>3. \A r \in Saved' : \/ file'[r] = r
                            \/ \E k \in 1..(Len(todo') - 1) : todo'[k] = Load(r, Home(r)')
      BY <1>3, <1>9, <3>1, <2>13
    <3>4. sp' = 0 /\ todo' \in Seq(Instr) /\ Len(todo') >= 1 /\ todo'[Len(todo')] = Adjust(layout'.frameSize)
      BY <1>3, <1>5, <1>8, <1>9, <2>3, <2>11, <3>1
    <3> QED BY <3>2, <3>3, <3>4 DEF Leaving, Adjust
  <2>15. ASSUME NEW r \in Saved PROVE Holds(Home(r), r)'
    BY <1>1, <1>3, <2>3 DEF Holds
  <2> QED BY <1>2, <1>3, <1>4, <2>10, <2>14, <2>15 DEF FrameInv, RunInv
<1> QED BY <1>6, <1>12, <1>13

LEMMA EnteredStep ==
  ASSUME LayoutAssumption, FrameInv, Entered
  PROVE  FrameInv'
<1>1. /\ TypeInv /\ LaidOut /\ Running /\ Entering
      /\ phase = "enter" /\ phase' = "body" /\ todo = <<>>
  BY DEF FrameInv, RunInv, Entered
<1>2. UNCHANGED <<frame, layout, run>>
  BY DEF Entered
<1>3. sp' = sp /\ file' = file /\ memory' = memory /\ stored' = stored
  BY <1>2 DEF run
<1>4. /\ Saved' = Saved /\ \A r : Home(r)' = Home(r)
      /\ \A k : Bytes(k)' = Bytes(k)
      /\ LaidOut' /\ layout' = layout
  BY <1>1, <1>2, FrameKept
<1>5. TypeInv'
  <2>1. stored' \subseteq 1..Len(slots)
    BY <1>1, <1>3 DEF TypeInv
  <2> QED BY <1>1, <1>2, <2>1, TypeKept
<1>6. ~(todo = Prologue)
  <2>1. PICK p : p = Prologue
    OBVIOUS
  <2>2. p \in Seq(Instr) /\ Len(p) >= 1
    BY <1>1, <2>1, PrologueIs
  <2>3. p # <<>>
    BY <2>2
  <2> QED BY <1>1, <2>1, <2>3
<1>7. sp = 0 /\ stored = {} /\ \A r \in Saved : Holds(Home(r), r)
  <2>1. \A k \in 1..Len(todo) : FALSE
    BY <1>1
  <2> QED BY <1>1, <1>6, <2>1 DEF Entering
<1>8. \A r \in Saved : Holds(Home(r), r)'
  BY <1>3, <1>4, <1>7 DEF Holds
<1>9. Running'
  BY <1>1, <1>3, <1>4 DEF Running
<1> QED BY <1>1, <1>3, <1>4, <1>5, <1>7, <1>8, <1>9 DEF FrameInv, RunInv

LEMMA WriteStep ==
  ASSUME LayoutAssumption, FrameInv, NEW k \in DOMAIN slots, WriteSlot(k)
  PROVE  FrameInv'
<1>1. /\ TypeInv /\ LaidOut /\ Running /\ phase = "body" /\ phase' = "body" /\ sp = 0
      /\ \A r \in Saved : Holds(Home(r), r)
      /\ \A l \in stored : Holds(l, Value(l)) /\ \A r \in Saved : Home(r) # l
  BY DEF FrameInv, RunInv, WriteSlot
<1>2. /\ UNCHANGED <<frame, layout>> /\ sp' = sp /\ file' = file
      /\ memory' = Filled(SlotArea(k), Value(k)) /\ stored' = stored \cup {k}
      /\ k \notin Range(layout.saved) \cup {layout.raSlot}
  BY DEF WriteSlot
<1>3. /\ Saved' = Saved /\ \A r : Home(r)' = Home(r)
      /\ \A l : Bytes(l)' = Bytes(l)
      /\ LaidOut' /\ layout' = layout
  BY <1>1, <1>2, FrameKept
<1>4. k \in 1..Len(slots)
  BY <1>1 DEF TypeInv
<1>5. TypeInv'
  <2>1. stored' \subseteq 1..Len(slots)
    BY <1>1, <1>2, <1>4 DEF TypeInv
  <2> QED BY <1>1, <1>2, <2>1, TypeKept
<1>6. /\ DOMAIN memory' = DOMAIN memory
      /\ \A o \in Area(layout.frameSize, WordSize) : memory'[o] = memory[o]
      /\ \A o \in Bytes(k) : memory'[o] = Value(k)
      /\ \A l \in 1..Len(slots) : l # k => \A o \in Bytes(l) : memory'[o] = memory[o]
  <2>1. SlotArea(k) = Bytes(k)
    BY <1>1, <1>4, AreaIsBytes
  <2>2. PICK v : v = Value(k)
    OBVIOUS
  <2>3. memory' = Filled(Bytes(k), v)
    BY <1>2, <2>1, <2>2
  <2> QED BY <1>1, <1>4, <2>2, <2>3, StoreKeeps
<1>7. ASSUME NEW r \in Saved PROVE Home(r) # k /\ Home(r) \in 1..Len(slots)
  <2>1. CASE r = Ra
    BY <1>1, <1>2, <2>1 DEF Home, LaidOut
  <2>2. CASE r # Ra
    <3>1. r \in DOMAIN layout.saved /\ Home(r) = layout.saved[r]
      BY <1>1, <2>2 DEF Home, LaidOut, Saved
    <3>2. layout.saved[r] \in Range(layout.saved)
      BY <3>1 DEF Range
    <3> QED BY <1>1, <1>2, <3>1, <3>2 DEF LaidOut
  <2> QED BY <2>1, <2>2
<1>8. ASSUME NEW r \in Saved PROVE Holds(Home(r), r)'
  BY <1>1, <1>3, <1>6, <1>7 DEF Holds
<1>9. ASSUME NEW l \in stored' PROVE Holds(l, Value(l))' /\ \A r \in Saved' : Home(r)' # l
  <2>1. CASE l = k
    BY <1>3, <1>6, <1>7, <2>1 DEF Holds, Value
  <2>2. CASE l # k
    <3>1. l \in stored /\ l \in 1..Len(slots)
      BY <1>1, <1>2, <2>2 DEF TypeInv
    <3> QED BY <1>1, <1>3, <1>6, <2>2, <3>1 DEF Holds, Value
  <2> QED BY <2>1, <2>2
<1>10. Running'
  BY <1>1, <1>2, <1>3, <1>6 DEF Running
<1> QED BY <1>1, <1>2, <1>3, <1>5, <1>8, <1>9, <1>10 DEF FrameInv, RunInv

LEMMA CallStep ==
  ASSUME LayoutAssumption, FrameInv, Call
  PROVE  FrameInv'
<1>1. /\ TypeInv /\ LaidOut /\ Running /\ phase = "body" /\ phase' = "body" /\ sp = 0
      /\ \A r \in Saved : Holds(Home(r), r)
      /\ \A l \in stored : Holds(l, Value(l)) /\ \A r \in Saved : Home(r) # l
      /\ calls
  BY DEF FrameInv, RunInv, Call
<1>2. /\ UNCHANGED <<frame, layout>> /\ sp' = sp /\ stored' = stored
      /\ memory' = Filled(Area(sp, outgoing), Value(0))
      /\ file' = [file EXCEPT ![Ra] = Clobber]
  BY DEF Call
<1>3. /\ Saved' = Saved /\ \A r : Home(r)' = Home(r)
      /\ \A l : Bytes(l)' = Bytes(l)
      /\ LaidOut' /\ layout' = layout
  BY <1>1, <1>2, FrameKept
<1>4. TypeInv'
  <2>1. stored' \subseteq 1..Len(slots)
    BY <1>1, <1>2 DEF TypeInv
  <2> QED BY <1>1, <1>2, <2>1, TypeKept
<1>5. memory' = [o \in DOMAIN memory |-> IF o \in Area(0, outgoing) THEN Value(0) ELSE memory[o]]
  BY <1>1, <1>2 DEF Filled
<1>6. DOMAIN memory = 0..(layout.frameSize + WordSize - 1)
  BY <1>1 DEF Running
<1>7. /\ DOMAIN memory' = DOMAIN memory
      /\ \A o \in Area(layout.frameSize, WordSize) : memory'[o] = memory[o]
      /\ \A l \in 1..Len(slots) : \A o \in Bytes(l) : memory'[o] = memory[o]
  <2>1. /\ \A l \in 1..Len(slots) : /\ Bytes(l) \subseteq DOMAIN memory
                                    /\ Bytes(l) \cap Area(0, outgoing) = {}
        /\ Area(layout.frameSize, WordSize) \subseteq DOMAIN memory
        /\ Area(0, outgoing) \cap Area(layout.frameSize, WordSize) = {}
    BY <1>1, <1>6, BytesApart
  <2> QED BY <1>5, <2>1
<1>8. Running'
  <2>1. Ra \in Saved
    BY <1>1 DEF Saved
  <2>2. file' = [r \in Regs |-> IF r = Ra THEN Clobber ELSE file[r]]
    BY <1>1, <1>2 DEF Running
  <2>3. file' = [r \in Regs |-> file'[r]] /\ \A r \in Regs : r # Ra => file'[r] = file[r]
    BY <2>2
  <2> QED BY <1>1, <1>3, <1>7, <2>1, <2>3 DEF Running
<1>9. \A r \in Saved : Holds(Home(r), r)'
  <2>1. \A r \in Saved : Home(r) \in 1..Len(slots)
    BY <1>1 DEF LaidOut
  <2> QED BY <1>1, <1>3, <1>7, <2>1 DEF Holds
<1>10. \A l \in stored' : Holds(l, Value(l))' /\ \A r \in Saved' : Home(r)' # l
  <2>1. \A l \in stored : l \in 1..Len(slots)
    BY <1>1 DEF TypeInv
  <2> QED BY <1>1, <1>2, <1>3, <1>7, <2>1 DEF Holds, Value
<1> QED BY <1>1, <1>2, <1>3, <1>4, <1>8, <1>9, <1>10 DEF FrameInv, RunInv

LEMMA ClobberStep ==
  ASSUME LayoutAssumption, FrameInv, NEW r \in CalleeSaved, WriteCalleeSaved(r)
  PROVE  FrameInv'
<1>1. /\ TypeInv /\ LaidOut /\ Running /\ phase = "body" /\ phase' = "body" /\ sp = 0
      /\ \A q \in Saved : Holds(Home(q), q)
      /\ \A l \in stored : Holds(l, Value(l)) /\ \A q \in Saved : Home(q) # l
      /\ r \in written
  BY DEF FrameInv, RunInv, WriteCalleeSaved
<1>2. /\ UNCHANGED <<frame, layout>> /\ sp' = sp /\ stored' = stored /\ memory' = memory
      /\ file' = [file EXCEPT ![r] = Clobber]
  BY DEF WriteCalleeSaved
<1>3. /\ Saved' = Saved /\ \A q : Home(q)' = Home(q)
      /\ \A l : Bytes(l)' = Bytes(l)
      /\ LaidOut' /\ layout' = layout
  BY <1>1, <1>2, FrameKept
<1>4. TypeInv'
  <2>1. stored' \subseteq 1..Len(slots)
    BY <1>1, <1>2 DEF TypeInv
  <2> QED BY <1>1, <1>2, <2>1, TypeKept
<1>5. Running'
  <2>1. r \in Saved
    BY <1>1 DEF Saved
  <2>2. file' = [q \in Regs |-> IF q = r THEN Clobber ELSE file[q]]
    BY <1>1, <1>2 DEF Running
  <2>3. file' = [q \in Regs |-> file'[q]] /\ \A q \in Regs : q # r => file'[q] = file[q]
    BY <2>2
  <2> QED BY <1>1, <1>2, <1>3, <2>1, <2>3 DEF Running
<1>6. \A q \in Saved : Holds(Home(q), q)'
  BY <1>1, <1>2, <1>3 DEF Holds
<1>7. \A l \in stored' : Holds(l, Value(l))' /\ \A q \in Saved' : Home(q)' # l
  BY <1>1, <1>2, <1>3 DEF Holds, Value
<1> QED BY <1>1, <1>2, <1>3, <1>4, <1>5, <1>6, <1>7 DEF FrameInv, RunInv

LEMMA LastSteps ==
  ASSUME LayoutAssumption, FrameInv, Leave \/ Returned
  PROVE  FrameInv'
<1>1. CASE Leave
  <2>1. /\ TypeInv /\ LaidOut /\ Running /\ phase = "body" /\ phase' = "leave" /\ sp = 0
        /\ \A r \in Saved : Holds(Home(r), r)
    BY <1>1 DEF FrameInv, RunInv, Leave
  <2>2. /\ UNCHANGED <<frame, layout>> /\ sp' = sp /\ stored' = stored
        /\ memory' = memory /\ file' = file /\ todo' = Epilogue
    BY <1>1 DEF Leave
  <2>3. /\ Saved' = Saved /\ \A r : Home(r)' = Home(r)
        /\ \A l : Bytes(l)' = Bytes(l)
        /\ LaidOut' /\ layout' = layout
    BY <2>1, <2>2, FrameKept
  <2>4. TypeInv'
    <3>1. stored' \subseteq 1..Len(slots)
      BY <2>1, <2>2 DEF TypeInv
    <3> QED BY <2>1, <2>2, <3>1, TypeKept
  <2>5. PICK e : e = Epilogue
    OBVIOUS
  <2>6. /\ e \in Seq(Instr) /\ Len(e) >= 1
        /\ e[Len(e)] = Adjust(layout.frameSize)
        /\ \A k \in 1..(Len(e) - 1) : \E r \in Saved : e[k] = Load(r, Home(r))
        /\ \A r \in Saved : \E k \in 1..(Len(e) - 1) : e[k] = Load(r, Home(r))
    BY <2>1, <2>5, EpilogueIs
  <2>7. todo' = e
    BY <2>2, <2>5
  <2>8. Leaving'
    <3>1. sp' = 0 /\ todo' \in Seq(Instr) /\ Len(todo') >= 1 /\ todo'[Len(todo')] = Adjust(layout'.frameSize)
      BY <2>1, <2>2, <2>3, <2>6, <2>7
    <3>2. \A k \in 1..(Len(todo') - 1) : \E r \in Saved' : todo'[k] = Load(r, Home(r)')
      BY <2>3, <2>6, <2>7
    <3>3. \A r \in Saved' : \E k \in 1..(Len(todo') - 1) : todo'[k] = Load(r, Home(r)')
      BY <2>3, <2>6, <2>7
    <3> QED BY <3>1, <3>2, <3>3 DEF Leaving, Adjust
  <2>9. Running'
    BY <2>1, <2>2, <2>3 DEF Running
  <2>10. \A r \in Saved : Holds(Home(r), r)'
    BY <2>1, <2>2, <2>3 DEF Holds
  <2> QED BY <2>1, <2>3, <2>4, <2>8, <2>9, <2>10 DEF FrameInv, RunInv
<1>2. CASE Returned
  <2>1. TypeInv /\ LaidOut /\ Running /\ Leaving /\ phase = "leave" /\ phase' = "returned" /\ todo = <<>>
    BY <1>2 DEF FrameInv, RunInv, Returned
  <2>2. UNCHANGED <<frame, layout>> /\ sp' = sp /\ file' = file /\ memory' = memory /\ stored' = stored
    BY <1>2 DEF Returned, run
  <2>3. /\ Saved' = Saved /\ LaidOut' /\ layout' = layout
    BY <2>1, <2>2, FrameKept
  <2>4. TypeInv'
    <3>1. stored' \subseteq 1..Len(slots)
      BY <2>1, <2>2 DEF TypeInv
    <3> QED BY <2>1, <2>2, <3>1, TypeKept
  <2>5. sp = layout.frameSize /\ \A r \in Regs : file[r] = r
    <3>1. ~(Len(todo) >= 1)
      BY <2>1
    <3> QED BY <2>1, <3>1 DEF Leaving
  <2>6. Running'
    BY <2>1, <2>2, <2>3 DEF Running
  <2> QED BY <2>1, <2>2, <2>3, <2>4, <2>5, <2>6 DEF FrameInv, RunInv
<1> QED BY <1>1, <1>2

\* One step of the whole keeps the invariant.
LEMMA FrameStep ==
  ASSUME LayoutAssumption, FrameInv, [Next]_vars
  PROVE  FrameInv'
<1>1. CASE UNCHANGED vars
  <2>1. UNCHANGED <<frame, layout, phase, run>>
    BY <1>1 DEF vars
  <2>2. todo' = todo /\ sp' = sp /\ file' = file /\ memory' = memory /\ stored' = stored /\ phase' = phase
    BY <2>1 DEF run
  <2>3. /\ Saved' = Saved /\ \A r : Home(r)' = Home(r)
        /\ \A l : Bytes(l)' = Bytes(l)
        /\ LaidOut' = LaidOut /\ layout' = layout
    BY <2>1, FrameKept
  <2>4. TypeInv'
    BY <2>1, <2>2 DEF FrameInv, TypeInv, frame
  <2>5. Prologue' = Prologue
    BY <2>1 DEF Prologue, frame
  <2>6. \A k, v : Holds(k, v)' = Holds(k, v)
    BY <2>2, <2>3 DEF Holds
  <2>7. Entering' = Entering
    BY <2>2, <2>3, <2>5, <2>6 DEF Entering
  <2>8. Leaving' = Leaving
    BY <2>2, <2>3 DEF Leaving
  <2>9. Running' = Running
    BY <2>2, <2>3 DEF Running
  <2>10. RunInv'
    BY <2>2, <2>3, <2>6, <2>7, <2>8, <2>9 DEF FrameInv, RunInv, Value
  <2> QED BY <2>2, <2>3, <2>4, <2>10 DEF FrameInv
<1>2. CASE Stopped
  BY <1>1, <1>2 DEF Stopped
<1>3. CASE Logue
  BY <1>3, EnterStep, LeaveStep DEF Logue
<1>4. CASE Next
  <2>1. CASE \/ \E s \in Shapes : NewStackSlot(s)
             \/ \E n \in 0..MaxOutgoing : LowerCall(n)
             \/ \E r \in CalleeSaved : AssignCalleeSaved(r)
    BY <2>1, LowerStep
  <2>2. CASE \E r \in CalleeSaved : WriteCalleeSaved(r)
    BY <2>2, ClobberStep
  <2>3. CASE \E k \in DOMAIN slots : WriteSlot(k)
    BY <2>3, WriteStep
  <2>4. CASE ComputeFrameLayout
    BY <2>4, ComputeStep
  <2>5. CASE InsertLogue
    BY <2>5, InsertStep
  <2>6. CASE Entered
    BY <2>6, EnteredStep
  <2>7. CASE Call
    BY <2>7, CallStep
  <2>8. CASE Leave \/ Returned
    BY <2>8, LastSteps
  <2> QED BY <1>2, <1>3, <1>4, <2>1, <2>2, <2>3, <2>4, <2>5, <2>6, <2>7, <2>8 DEF Next
<1> QED BY <1>1, <1>4

LEMMA FrameInvImplies ==
  ASSUME LayoutAssumption, FrameInv
  PROVE  TypeOK /\ EntryRestored /\ SlotsKeepValues /\ IncomingArgumentsKept
<1>1. TypeInv /\ RunInv /\ (phase # "lower" => LaidOut)
  BY DEF FrameInv
<1>2. TypeOK
  <2>1. \A k \in DOMAIN slots : slots[k].size \in Nat /\ slots[k].align <= maxAlign
    <3>1. \A k \in DOMAIN slots : k \in 1..Len(slots) /\ slots[k] \in Slot
      BY <1>1 DEF TypeInv
    <3> QED BY <1>1, <3>1 DEF TypeInv, Slot
  <2>2. written \subseteq CalleeSaved /\ stored \subseteq DOMAIN slots
    BY <1>1 DEF TypeInv
  <2>3. CASE phase = "lower"
    <3>1. layout.offsets = <<>> /\ layout.frameSize = 0
      BY <1>1, <2>3 DEF TypeInv, NoLayout
    <3>2. 0 % FrameAlign = 0
      BY DEF LayoutAssumption
    <3>3. \A k \in DOMAIN layout.offsets : FALSE
      BY <3>1
    <3> QED BY <2>1, <2>2, <2>3, <3>1, <3>2, <3>3 DEF TypeOK
  <2>4. CASE phase # "lower"
    <3>1. \A k \in DOMAIN layout.offsets : layout.offsets[k] % slots[k].align = 0
      BY <1>1, <2>4 DEF LaidOut
    <3>2. layout.frameSize % FrameAlign = 0 /\ layout.frameSize % maxAlign = 0
      BY <1>1, <2>4 DEF LaidOut
    <3> QED BY <2>1, <2>2, <3>1, <3>2 DEF TypeOK
  <2> QED BY <2>3, <2>4
<1>3. EntryRestored
  BY <1>1 DEF RunInv, Running, EntryRestored
<1>4. SlotsKeepValues
  <2> SUFFICES ASSUME phase = "body", NEW k \in stored, NEW o \in SlotArea(k)
               PROVE  o \in DOMAIN memory /\ memory[o] = Value(k)
    BY DEF SlotsKeepValues
  <2>1. k \in 1..Len(slots) /\ sp = 0 /\ LaidOut /\ Holds(k, Value(k)) /\ Running
    BY <1>1 DEF TypeInv, RunInv
  <2>2. o \in Bytes(k)
    BY <2>1, AreaIsBytes
  <2>3. Bytes(k) \subseteq DOMAIN memory
    <3>1. DOMAIN memory = 0..(layout.frameSize + WordSize - 1)
      BY <2>1 DEF Running
    <3> QED BY <1>1, <2>1, <3>1, BytesApart
  <2> QED BY <2>1, <2>2, <2>3 DEF Holds
<1>5. IncomingArgumentsKept
  BY <1>1 DEF RunInv, Running, IncomingArgumentsKept
<1> QED BY <1>2, <1>3, <1>4, <1>5

\* For every set of slots, number of outgoing arguments and set of saved
\* registers: frames are aligned, a slot keeps what the body stored in it, the
\* caller's arguments are never overwritten, and at the return sp, ra and the
\* callee-saved registers are what they were (compute_frame_layout, insert_logue).
THEOREM FrameIsSafe ==
  ASSUME LayoutAssumption
  PROVE  Spec => [](TypeOK /\ EntryRestored /\ SlotsKeepValues /\ IncomingArgumentsKept)
<1>1. Init => FrameInv
  BY FrameInit
<1>2. FrameInv /\ [Next]_vars => FrameInv'
  BY FrameStep
<1>3. FrameInv => TypeOK /\ EntryRestored /\ SlotsKeepValues /\ IncomingArgumentsKept
  BY FrameInvImplies
<1> QED BY <1>1, <1>2, <1>3, PTL DEF Spec
=============================================================================
