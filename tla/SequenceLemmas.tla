--------------------------- MODULE SequenceLemmas ---------------------------
(* What InsertAt and RemoveAt of SequencesExt return, for the Vec::insert and *)
(* Vec::remove calls of the compiler, and induction over natural numbers for *)
(* sets of them: an inductive claim is stated as membership in a set.        *)
EXTENDS Integers, Sequences, SequencesExt, SequenceTheorems, NaturalsInduction,
        WellFoundedInduction, TLAPS

-----------------------------------------------------------------------------
\* A set of natural numbers that is not empty has a least element.
LEMMA LeastElement ==
  ASSUME NEW S \in SUBSET Nat, S # {}
  PROVE  \E n \in S : \A m \in S : n <= m
<1> DEFINE R == OpToRel(<, Nat)
<1>1. IsWellFoundedOn(R, Nat)
  BY NatLessThanWellFounded
<1>2. \A x, y \in Nat : (<<y, x>> \in R) <=> y < x
  BY DEF OpToRel
<1> HIDE DEF R
<1>3. PICK x \in S : \A y \in S : ~ (<<y, x>> \in R)
  BY <1>1, WFMin, S # {}, S \subseteq Nat
<1>4. ASSUME NEW m \in S PROVE x <= m
  <2>1. ~(<<m, x>> \in R) /\ m \in Nat /\ x \in Nat
    BY <1>3
  <2>2. ~(m < x)
    BY <1>2, <2>1, Zenon
  <2> QED BY <2>1, <2>2
<1> QED BY <1>4

\* A set that holds 0 and with every number the next one holds all of them.
LEMMA InductionOnSet ==
  ASSUME NEW S, 0 \in S, \A n \in Nat : n \in S => n + 1 \in S
  PROVE  Nat \subseteq S
<1> DEFINE T == Nat \ S
<1> SUFFICES ASSUME T # {} PROVE FALSE
  OBVIOUS
<1>1. PICK n \in T : \A m \in T : n <= m
  <2>1. T \in SUBSET Nat
    OBVIOUS
  <2> HIDE DEF T
  <2> QED BY <2>1, LeastElement
<1>2. n - 1 \in Nat /\ n - 1 \in S
  BY <1>1
<1> QED BY <1>1, <1>2

\* The recursive function that adds up a sequence exists.
LEMMA PrefixSumsExist ==
  ASSUME NEW n \in Nat, NEW s \in [1..n -> Nat]
  PROVE  \E g : g = [k \in 1..n |-> IF k = 1 THEN 0 ELSE g[k - 1] + s[k - 1]]
<1> DEFINE Sums(g, m) == g = [k \in 1..m |-> IF k = 1 THEN 0 ELSE g[k - 1] + s[k - 1]]
           S == {m \in Nat : m > n \/ \E g : Sums(g, m)}
<1>1. 0 \in S
  <2>1. Sums(<<>>, 0)
    OBVIOUS
  <2> QED BY <2>1
<1>2. ASSUME NEW m \in Nat, m \in S PROVE m + 1 \in S
  <2>1. CASE m + 1 > n
    BY <2>1
  <2>2. CASE m + 1 <= n
    <3>1. PICK g : Sums(g, m)
      BY <1>2, <2>2
    <3> DEFINE h == [k \in 1..(m + 1) |-> IF k = 1 THEN 0 ELSE g[k - 1] + s[k - 1]]
    <3>2. \A k \in 1..m : h[k] = g[k]
      BY <3>1
    <3>3. Sums(h, m + 1)
      BY <3>1, <3>2
    <3>4. \E f : Sums(f, m + 1)
      <4> HIDE DEF h, Sums
      <4> QED BY <3>3
    <3> HIDE DEF Sums
    <3> QED BY <3>4
  <2> QED BY <2>1, <2>2
<1>3. n \in S
  <2> HIDE DEF S
  <2> QED BY <1>1, <1>2, InductionOnSet
<1> HIDE DEF Sums
<1>4. \E g : Sums(g, n)
  BY <1>3
<1> QED BY <1>4 DEF Sums
\* A sequence and one element more.
LEMMA AppendAt ==
  ASSUME NEW S, NEW s \in Seq(S), NEW e \in S, NEW c, c = Append(s, e)
  PROVE  /\ c \in Seq(S) /\ Len(c) = Len(s) + 1
         /\ c[Len(s) + 1] = e
         /\ \A k \in 1..Len(s) : c[k] = s[k]
<1>1. Len(s) \in Nat
  OBVIOUS
<1>2. Append(s, e) \in Seq(S) /\ Len(Append(s, e)) = Len(s) + 1
  OBVIOUS
<1>3. Append(s, e)[Len(s) + 1] = e
  OBVIOUS
<1>4. \A k \in 1..Len(s) : Append(s, e)[k] = s[k]
  OBVIOUS
<1> QED BY <1>2, <1>3, <1>4

\* A sequence is one over any set that holds its elements.
LEMMA SeqOver ==
  ASSUME NEW S, NEW s \in Seq(S), NEW T, \A k \in 1..Len(s) : s[k] \in T
  PROVE  s \in Seq(T)
OBVIOUS

-----------------------------------------------------------------------------
\* A concatenation, element by element.
LEMMA ConcatAt ==
  ASSUME NEW S, NEW a \in Seq(S), NEW z \in Seq(S), NEW c, c = a \o z
  PROVE  /\ c \in Seq(S)
         /\ Len(c) = Len(a) + Len(z)
         /\ \A k \in 1..Len(a) : c[k] = a[k]
         /\ \A k \in 1..Len(z) : c[Len(a) + k] = z[k]
<1>1. Len(a) \in Nat /\ Len(z) \in Nat
  BY LenProperties
<1>2. /\ c \in Seq(S)
      /\ Len(c) = Len(a) + Len(z)
      /\ \A k \in 1..(Len(a) + Len(z)) :
           c[k] = IF k <= Len(a) THEN a[k] ELSE z[k - Len(a)]
  BY ConcatProperties
<1>3. ASSUME NEW k \in 1..Len(a) PROVE c[k] = a[k]
  BY <1>1, <1>2
<1>4. ASSUME NEW k \in 1..Len(z) PROVE c[Len(a) + k] = z[k]
  <2>1. /\ Len(a) + k \in 1..(Len(a) + Len(z))
        /\ ~(Len(a) + k <= Len(a))
        /\ Len(a) + k - Len(a) = k
    BY <1>1
  <2> QED BY <1>2, <2>1
<1> QED
  BY <1>2, <1>3, <1>4

\* The two halves of a list.
LEMMA SplitAt ==
  ASSUME NEW S, NEW s \in Seq(S), NEW p \in 1..(Len(s) + 1),
         NEW a, a = SubSeq(s, 1, p - 1), NEW z, z = SubSeq(s, p, Len(s))
  PROVE  /\ a \in Seq(S) /\ Len(a) = p - 1
         /\ \A k \in 1..(p - 1) : a[k] = s[k]
         /\ z \in Seq(S) /\ Len(z) = Len(s) - p + 1
         /\ \A k \in 1..(Len(s) - p + 1) : z[k] = s[p + k - 1]
<1>1. /\ Len(s) \in Nat /\ p \in Int
      /\ \A k \in 1..Len(s) : s[k] \in S
  BY LenProperties
<1>2. /\ a \in Seq(S)
      /\ Len(a) = IF 1 <= p - 1 THEN p - 1 - 1 + 1 ELSE 0
      /\ \A k \in 1..(p - 1 - 1 + 1) : a[k] = s[1 + k - 1]
  BY <1>1, SubSeqProperties
<1>3. /\ z \in Seq(S)
      /\ Len(z) = IF p <= Len(s) THEN Len(s) - p + 1 ELSE 0
      /\ \A k \in 1..(Len(s) - p + 1) : z[k] = s[p + k - 1]
  BY <1>1, SubSeqProperties
<1>4. ASSUME NEW k \in 1..(p - 1) PROVE a[k] = s[k]
  <2>1. k \in 1..(p - 1 - 1 + 1) /\ 1 + k - 1 = k
    BY <1>1
  <2> QED BY <1>2, <2>1
<1> QED
  BY <1>1, <1>2, <1>3, <1>4

\* Vec::insert shifts the tail by one and changes nothing else.
LEMMA InsertAtProperties ==
  ASSUME NEW S, NEW s \in Seq(S), NEW p \in 1..(Len(s) + 1), NEW e \in S,
         NEW t, t = InsertAt(s, p, e)
  PROVE  /\ t \in Seq(S)
         /\ Len(t) = Len(s) + 1
         /\ \A k \in 1..(p - 1) : t[k] = s[k]
         /\ t[p] = e
         /\ \A k \in p..Len(s) : t[k + 1] = s[k]
<1> DEFINE a == SubSeq(s, 1, p - 1)
           z == SubSeq(s, p, Len(s))
           q == <<e>>
           b == a \o q
<1>0. Len(s) \in Nat /\ p \in Int
  BY LenProperties
<1>1. /\ a \in Seq(S) /\ Len(a) = p - 1
      /\ \A k \in 1..(p - 1) : a[k] = s[k]
      /\ z \in Seq(S) /\ Len(z) = Len(s) - p + 1
      /\ \A k \in 1..(Len(s) - p + 1) : z[k] = s[p + k - 1]
  BY SplitAt
<1>2. q \in Seq(S) /\ Len(q) = 1 /\ q[1] = e
  OBVIOUS
<1>3. t = b \o z
  BY DEF InsertAt
<1>4. b = a \o q
  OBVIOUS
<1> HIDE DEF a, z, q, b
<1>5. /\ b \in Seq(S) /\ Len(b) = p
      /\ \A k \in 1..(p - 1) : b[k] = s[k]
      /\ b[p] = e
  <2>1. /\ b \in Seq(S) /\ Len(b) = Len(a) + Len(q)
        /\ \A k \in 1..Len(a) : b[k] = a[k]
        /\ \A k \in 1..Len(q) : b[Len(a) + k] = q[k]
    <3>1. a \in Seq(S) /\ q \in Seq(S)
      BY <1>1, <1>2
    <3> QED BY <3>1, <1>4, ConcatAt
  <2>2. b[p] = e
    BY <1>0, <1>1, <1>2, <2>1
  <2> QED BY <1>0, <1>1, <1>2, <2>1, <2>2
<1>6. /\ t \in Seq(S) /\ Len(t) = Len(b) + Len(z)
      /\ \A k \in 1..Len(b) : t[k] = b[k]
      /\ \A k \in 1..Len(z) : t[Len(b) + k] = z[k]
  BY <1>1, <1>3, <1>5, ConcatAt
<1>7. ASSUME NEW k \in p..Len(s) PROVE t[k + 1] = s[k]
  <2>1. /\ k - p + 1 \in 1..Len(z) /\ p + (k - p + 1) = k + 1
        /\ p + (k - p + 1) - 1 = k
    BY <1>0, <1>1
  <2>2. t[k + 1] = z[k - p + 1]
    BY <1>5, <1>6, <2>1
  <2>3. z[k - p + 1] = s[k]
    BY <1>1, <2>1
  <2> QED BY <2>2, <2>3
<1> QED
  BY <1>0, <1>1, <1>5, <1>6, <1>7

\* Vec::remove closes the gap and changes nothing else.
LEMMA RemoveAtProperties ==
  ASSUME NEW S, NEW s \in Seq(S), NEW p \in 1..Len(s),
         NEW t, t = RemoveAt(s, p)
  PROVE  /\ t \in Seq(S)
         /\ Len(t) = Len(s) - 1
         /\ \A k \in 1..(p - 1) : t[k] = s[k]
         /\ \A k \in p..(Len(s) - 1) : t[k] = s[k + 1]
<1> DEFINE a == SubSeq(s, 1, p - 1)
           z == SubSeq(s, p + 1, Len(s))
<1>0. Len(s) \in Nat /\ p \in Int /\ p + 1 \in 1..(Len(s) + 1) /\ p \in 1..(Len(s) + 1)
  BY LenProperties
<1>1. /\ a \in Seq(S) /\ Len(a) = p - 1
      /\ \A k \in 1..(p - 1) : a[k] = s[k]
  BY <1>0, SplitAt
<1>2. /\ z \in Seq(S) /\ Len(z) = Len(s) - (p + 1) + 1
      /\ \A k \in 1..(Len(s) - (p + 1) + 1) : z[k] = s[(p + 1) + k - 1]
  BY <1>0, SplitAt
<1>3. t = a \o z
  BY DEF RemoveAt
<1> HIDE DEF a, z
<1>4. /\ t \in Seq(S) /\ Len(t) = Len(a) + Len(z)
      /\ \A k \in 1..Len(a) : t[k] = a[k]
      /\ \A k \in 1..Len(z) : t[Len(a) + k] = z[k]
  <2>1. a \in Seq(S) /\ z \in Seq(S)
    BY <1>1, <1>2
  <2> QED BY <2>1, <1>3, ConcatAt
<1>5. ASSUME NEW k \in p..(Len(s) - 1) PROVE t[k] = s[k + 1]
  <2>1. /\ k - p + 1 \in 1..Len(z) /\ (p - 1) + (k - p + 1) = k
        /\ (p + 1) + (k - p + 1) - 1 = k + 1
    BY <1>0, <1>2
  <2>2. t[k] = z[k - p + 1]
    BY <1>1, <1>4, <2>1
  <2>3. z[k - p + 1] = s[k + 1]
    BY <1>2, <2>1
  <2> QED BY <2>2, <2>3
<1> QED
  BY <1>0, <1>1, <1>2, <1>4, <1>5

\* Inserting a new element into a list without repetitions.
LEMMA InsertNew ==
  ASSUME NEW S, NEW s \in Seq(S), NEW p \in 1..(Len(s) + 1), NEW e \in S,
         IsInjective(s), e \notin ToSet(s), NEW t, t = InsertAt(s, p, e)
  PROVE  /\ t \in Seq(S)
         /\ IsInjective(t)
         /\ ToSet(t) = ToSet(s) \cup {e}
<1>1. /\ t \in Seq(S) /\ Len(t) = Len(s) + 1
      /\ \A k \in 1..(p - 1) : t[k] = s[k]
      /\ t[p] = e
      /\ \A k \in p..Len(s) : t[k + 1] = s[k]
  BY InsertAtProperties
<1>2. /\ Len(s) \in Nat /\ p \in Int
      /\ DOMAIN s = 1..Len(s) /\ DOMAIN t = 1..(Len(s) + 1)
  BY <1>1, LenProperties
<1> DEFINE old(k) == IF k < p THEN k ELSE k - 1
<1>3. ASSUME NEW k \in DOMAIN t, k # p
      PROVE  old(k) \in DOMAIN s /\ t[k] = s[old(k)]
  <2>1. CASE k < p
    BY <1>1, <1>2, <2>1
  <2>2. CASE k > p
    <3>1. k - 1 \in p..Len(s) /\ (k - 1) + 1 = k
      BY <1>2, <2>2
    <3>2. t[k] = s[k - 1] /\ k - 1 \in DOMAIN s
      BY <1>1, <1>2, <3>1
    <3> QED BY <1>2, <2>2, <3>2
  <2> QED BY <1>2, <1>3, <2>1, <2>2
<1>4. \A k \in DOMAIN s : s[k] # e
  BY DEF ToSet
<1>5. ASSUME NEW k \in DOMAIN t, NEW l \in DOMAIN t, t[k] = t[l]
      PROVE  k = l
  <2>1. CASE k = p \/ l = p
    BY <1>1, <1>3, <1>4, <1>5, <2>1
  <2>2. CASE k # p /\ l # p
    <3>1. old(k) = old(l)
      <4> HIDE DEF old
      <4> QED BY <1>3, <1>5, <2>2 DEF IsInjective
    <3> QED BY <1>2, <2>2, <3>1
  <2> QED BY <2>1, <2>2
<1>6. ASSUME NEW k \in DOMAIN s PROVE s[k] \in ToSet(t)
  <2>1. CASE k < p
    <3>1. k \in DOMAIN t /\ t[k] = s[k]
      BY <1>1, <1>2, <2>1
    <3> QED BY <3>1 DEF ToSet
  <2>2. CASE k >= p
    <3>1. k + 1 \in DOMAIN t /\ t[k + 1] = s[k]
      BY <1>1, <1>2, <2>2
    <3> QED BY <3>1 DEF ToSet
  <2> QED BY <1>2, <2>1, <2>2
<1>7. e \in ToSet(t)
  BY <1>1, <1>2 DEF ToSet
<1>8. ASSUME NEW k \in DOMAIN t PROVE t[k] \in ToSet(s) \cup {e}
  <2> HIDE DEF old
  <2> QED BY <1>1, <1>3 DEF ToSet
<1> HIDE DEF old
<1>9. ToSet(t) = ToSet(s) \cup {e}
  <2>1. ToSet(t) \subseteq ToSet(s) \cup {e}
    BY <1>8 DEF ToSet
  <2>2. ToSet(s) \subseteq ToSet(t)
    BY <1>6 DEF ToSet
  <2> QED BY <1>7, <2>1, <2>2
<1>10. IsInjective(t)
  BY <1>5 DEF IsInjective
<1> QED
  BY <1>1, <1>9, <1>10

\* Pushing a new element onto such a list.
LEMMA AppendNew ==
  ASSUME NEW S, NEW s \in Seq(S), NEW e \in S, IsInjective(s), e \notin ToSet(s)
  PROVE  /\ Append(s, e) \in Seq(S)
         /\ IsInjective(Append(s, e))
         /\ ToSet(Append(s, e)) = ToSet(s) \cup {e}
<1> DEFINE t == Append(s, e)
<1>1. /\ t \in Seq(S) /\ Len(t) = Len(s) + 1
      /\ \A k \in 1..Len(s) : t[k] = s[k]
      /\ t[Len(s) + 1] = e
  OBVIOUS
<1> HIDE DEF t
<1>2. /\ Len(s) \in Nat
      /\ DOMAIN s = 1..Len(s) /\ DOMAIN t = 1..(Len(s) + 1)
  BY <1>1, LenProperties
<1>3. \A k \in DOMAIN s : s[k] # e
  BY DEF ToSet
<1>4. IsInjective(t)
  <2> SUFFICES ASSUME NEW k \in DOMAIN t, NEW l \in DOMAIN t, t[k] = t[l]
               PROVE  k = l
    BY DEF IsInjective
  <2>1. CASE k \in DOMAIN s /\ l \in DOMAIN s
    BY <1>1, <1>2, <2>1 DEF IsInjective
  <2>2. CASE k = Len(s) + 1 \/ l = Len(s) + 1
    BY <1>1, <1>2, <1>3, <2>2
  <2> QED BY <1>2, <2>1, <2>2
<1>5. ToSet(t) \subseteq ToSet(s) \cup {e}
  BY <1>1, <1>2 DEF ToSet
<1>6. ToSet(s) \cup {e} \subseteq ToSet(t)
  BY <1>1, <1>2 DEF ToSet
<1> QED
  BY <1>1, <1>4, <1>5, <1>6 DEF t


\* Removing one element from a list without repetitions.
LEMMA RemoveOne ==
  ASSUME NEW S, NEW s \in Seq(S), NEW p \in 1..Len(s), IsInjective(s),
         NEW t, t = RemoveAt(s, p)
  PROVE  /\ t \in Seq(S)
         /\ IsInjective(t)
         /\ ToSet(t) = ToSet(s) \ {s[p]}
<1>1. /\ t \in Seq(S) /\ Len(t) = Len(s) - 1
      /\ \A k \in 1..(p - 1) : t[k] = s[k]
      /\ \A k \in p..(Len(s) - 1) : t[k] = s[k + 1]
  BY RemoveAtProperties
<1>2. /\ Len(s) \in Nat /\ p \in Int
      /\ DOMAIN s = 1..Len(s) /\ DOMAIN t = 1..(Len(s) - 1)
  BY <1>1, LenProperties
<1> DEFINE old(k) == IF k < p THEN k ELSE k + 1
<1>3. ASSUME NEW k \in DOMAIN t
      PROVE  old(k) \in DOMAIN s /\ old(k) # p /\ t[k] = s[old(k)]
  BY <1>1, <1>2
<1>4. ASSUME NEW k \in DOMAIN t, NEW l \in DOMAIN t, t[k] = t[l]
      PROVE  k = l
  <2>1. old(k) = old(l)
    <3> HIDE DEF old
    <3> QED BY <1>3, <1>4 DEF IsInjective
  <2> QED BY <1>2, <2>1
<1>5. ASSUME NEW k \in DOMAIN t PROVE t[k] \in ToSet(s) \ {s[p]}
  <2> HIDE DEF old
  <2>1. p \in DOMAIN s
    BY <1>2
  <2> QED BY <1>3, <2>1 DEF ToSet, IsInjective
<1>6. ASSUME NEW k \in DOMAIN s, k # p PROVE s[k] \in ToSet(t)
  <2>1. CASE k < p
    <3>1. k \in DOMAIN t /\ t[k] = s[k]
      BY <1>1, <1>2, <2>1
    <3> QED BY <3>1 DEF ToSet
  <2>2. CASE k > p
    <3>1. k - 1 \in DOMAIN t /\ k - 1 \in p..(Len(s) - 1) /\ (k - 1) + 1 = k
      BY <1>2, <2>2
    <3>2. t[k - 1] = s[k]
      BY <1>1, <3>1
    <3> QED BY <3>1, <3>2 DEF ToSet
  <2> QED BY <1>2, <1>6, <2>1, <2>2
<1> HIDE DEF old
<1>7. ToSet(t) = ToSet(s) \ {s[p]}
  <2>1. ToSet(t) \subseteq ToSet(s) \ {s[p]}
    BY <1>5 DEF ToSet
  <2>2. ToSet(s) \ {s[p]} \subseteq ToSet(t)
    BY <1>6 DEF ToSet
  <2> QED BY <2>1, <2>2
<1>8. IsInjective(t)
  BY <1>4 DEF IsInjective
<1> QED
  BY <1>1, <1>7, <1>8
=============================================================================
