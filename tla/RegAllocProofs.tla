---------------------------- MODULE RegAllocProofs ----------------------------
(* The theorems of register allocation, for any number of registers, any     *)
(* program and any number of rounds of spilling.                             *)
EXTENDS RegAlloc, SequenceLemmas, FiniteSetTheorems

-----------------------------------------------------------------------------
\* The iteration of a monotone operator on the subsets of 1..N from the empty
\* set on has reached its fixed point after N steps.
LEMMA FixpointWithin ==
  ASSUME NEW N \in Nat, NEW g \in [SUBSET (1..N) -> SUBSET (1..N)],
         \A A, B \in SUBSET (1..N) : A \subseteq B => g[A] \subseteq g[B],
         NEW s, s[0] = {}, \A n \in 0..(N - 1) : s[n + 1] = g[s[n]]
  PROVE  g[s[N]] = s[N]
<1> DEFINE Reached(n) == /\ s[n] \in SUBSET (1..N)
                         /\ s[n] \subseteq g[s[n]]
                         /\ g[s[n]] = s[n] \/ Cardinality(g[s[n]]) >= n + 1
           S == {n \in Nat : n > N \/ Reached(n)}
<1>1. IsFiniteSet(1..N) /\ Cardinality(1..N) = N
  BY FS_Interval
<1>2. ASSUME NEW A \in SUBSET (1..N) PROVE IsFiniteSet(A) /\ Cardinality(A) \in 0..N
  BY <1>1, FS_Subset, FS_CardinalityType
<1>3. ASSUME NEW A \in SUBSET (1..N), NEW B \in SUBSET (1..N), A \subseteq B, A # B
      PROVE  Cardinality(B) >= Cardinality(A) + 1
  <2>1. Cardinality(A) =< Cardinality(B) /\ Cardinality(A) # Cardinality(B)
    BY <1>2, <1>3, FS_Subset
  <2> QED BY <2>1, <1>2
<1>4. 0 \in S
  <2>1. {} \in SUBSET (1..N) /\ g[{}] \in SUBSET (1..N) /\ {} \subseteq g[{}]
    OBVIOUS
  <2>2. g[{}] = {} \/ Cardinality(g[{}]) >= 1
    BY <2>1, <1>3, FS_EmptySet
  <2>3. s[0] \in SUBSET (1..N) /\ s[0] \subseteq g[s[0]]
    BY <2>1
  <2>4. g[s[0]] = s[0] \/ Cardinality(g[s[0]]) >= 0 + 1
    BY <2>2
  <2> QED BY <2>3, <2>4
<1>5. ASSUME NEW n \in Nat, n \in S PROVE n + 1 \in S
  <2> SUFFICES ASSUME n + 1 =< N PROVE Reached(n + 1)
    OBVIOUS
  <2>1. Reached(n) /\ s[n + 1] = g[s[n]]
    BY <1>5
  <2>2. PICK A \in SUBSET (1..N) : A = s[n]
    BY <2>1
  <2>3. PICK B \in SUBSET (1..N) : B = g[A] /\ B = s[n + 1]
    BY <2>1, <2>2
  <2>4. A \subseteq B /\ (B = A \/ Cardinality(B) >= n + 1)
    BY <2>1, <2>2, <2>3
  <2>5. B \subseteq g[B] /\ g[B] \in SUBSET (1..N)
    BY <2>3, <2>4
  <2>6. g[B] = B \/ Cardinality(g[B]) >= n + 2
    <3>1. CASE B = A
      BY <3>1, <2>3
    <3>2. CASE B # A
      BY <3>2, <2>4, <2>5, <1>3, <1>2
    <3> QED BY <3>1, <3>2
  <2> QED BY <2>3, <2>5, <2>6
<1>6. N \in S
  <2> HIDE DEF S
  <2> QED BY <1>4, <1>5, InductionOnSet
<1>7. Reached(N)
  BY <1>6
<1>8. g[s[N]] \in SUBSET (1..N)
  BY <1>7
<1> QED BY <1>7, <1>8, <1>2

\* The members of a finite set are numbered from 0 on by how many of them have
\* a smaller key.
LEMMA RankIsBijection ==
  ASSUME NEW S, IsFiniteSet(S), NEW key \in [S -> Int],
         \A v, w \in S : key[v] = key[w] => v = w,
         NEW rank, rank = [v \in S |-> Cardinality({w \in S : key[w] < key[v]})]
  PROVE  /\ Cardinality(S) \in Nat
         /\ \A v \in S : rank[v] \in 0..(Cardinality(S) - 1)
         /\ \A v, w \in S : rank[v] = rank[w] => v = w
         /\ \A j \in 0..(Cardinality(S) - 1) : \E v \in S : rank[v] = j
<1> DEFINE n == Cardinality(S)
           Below(v) == {w \in S : key[w] < key[v]}
<1>1. n \in Nat
  BY FS_CardinalityType
<1>2. ASSUME NEW v \in S PROVE IsFiniteSet(Below(v)) /\ Cardinality(Below(v)) \in 0..(n - 1)
  <2>1. Below(v) \in SUBSET S /\ v \notin Below(v)
    OBVIOUS
  <2> HIDE DEF Below
  <2>2. /\ IsFiniteSet(Below(v)) /\ Cardinality(Below(v)) =< n
        /\ Cardinality(Below(v)) # n
    BY <2>1, FS_Subset
  <2>3. Cardinality(Below(v)) \in Nat
    BY <2>2, FS_CardinalityType
  <2> HIDE DEF n
  <2> QED BY <1>1, <2>2, <2>3
<1>3. ASSUME NEW v \in S, NEW w \in S, key[v] < key[w]
      PROVE  Cardinality(Below(v)) # Cardinality(Below(w))
  <2>1. Below(v) \in SUBSET Below(w) /\ Below(v) # Below(w)
    <3>1. v \in Below(w) /\ v \notin Below(v)
      BY <1>3
    <3>2. \A x \in S : key[x] \in Int
      OBVIOUS
    <3>3. Below(v) \in SUBSET Below(w)
      BY <1>3, <3>2
    <3> QED BY <3>1, <3>3
  <2> HIDE DEF Below
  <2> QED BY <2>1, <1>2, FS_Subset
<1>4. \A v \in S : rank[v] = Cardinality(Below(v))
  OBVIOUS
<1>5. \A v \in S : rank[v] \in 0..(n - 1)
  BY <1>4, <1>2
<1>6. ASSUME NEW v \in S, NEW w \in S, rank[v] = rank[w] PROVE v = w
  <2>1. Cardinality(Below(v)) = Cardinality(Below(w))
    BY <1>4, <1>6
  <2> HIDE DEF Below
  <2>2. ~(key[v] < key[w]) /\ ~(key[w] < key[v])
    BY <1>3, <2>1
  <2>3. key[v] \in Int /\ key[w] \in Int
    OBVIOUS
  <2> QED BY <2>2, <2>3
<1>7. \A j \in 0..(n - 1) : \E v \in S : rank[v] = j
  <2> DEFINE T == 0..(n - 1)
  <2>1. IsFiniteSet(T) /\ Cardinality(T) = n
    <3> HIDE DEF n
    <3> QED BY <1>1, FS_Interval
  <2>2. rank \in [S -> T]
    BY <1>5
  <2> HIDE DEF T
  <2>3. rank \in Injection(S, T)
    BY <2>2, <1>6 DEF Injection, IsInjective
  <2>4. rank \in Surjection(S, T)
    BY <2>1, <2>3, FS_Injection
  <2> QED BY <2>4 DEF Surjection, T
<1> HIDE DEF n
<1> QED BY <1>1, <1>5, <1>6, <1>7 DEF n

-----------------------------------------------------------------------------
\* Machine code as allocation sees it: the registers of a function whose vregs
\* are below n, its instructions, and what holds of each: reads are in U, spill
\* slots are among the first t, and a source instruction has kept its clobbers
\* and the number of its reads.
Regs(n) == Phys \cup 1..(n - 1)
Instr == [op : {"inst", "load", "save"}, uses : Seq(Int), def : Int, clob : SUBSET Phys,
          slot : Int, jump : Int, orig : Int]
InstrOK(p, x, U, n, t) ==
  /\ x.orig \in DOMAIN p
  /\ x.def \in {None} \cup Regs(n)
  /\ \A j \in 1..Len(x.uses) : x.uses[j] \in U
  /\ x.jump \in {None} \cup DOMAIN p
  /\ x.jump # None => x.def = None
  /\ x.op = "inst" => x.clob = p[x.orig].clob /\ Len(x.uses) = Len(p[x.orig].uses)
  /\ x.op # "inst" => x.clob = {} /\ x.jump = None /\ x.slot \in 1..t /\ x.def # None
  /\ x.op = "load" => x.uses = <<>>
  /\ x.op = "save" => Len(x.uses) = 1 /\ x.uses[1] # x.def
CodeOK(p, c, U, n, t) ==
  /\ c \in Seq(Instr)
  /\ \A k \in DOMAIN c : InstrOK(p, c[k], U, n, t)
  /\ \A i \in DOMAIN p : \E k \in DOMAIN c : c[k].orig = i

\* The successors of an instruction, of any code.
StartIn(c, i) == CHOOSE k \in DOMAIN c : c[k].orig = i /\ \A m \in 1..(k - 1) : c[m].orig # i
SuccsIn(c, k) == {m \in DOMAIN c : m = k + 1 \/ (c[k].jump # None /\ m = StartIn(c, c[k].jump))}

LEMMA SuccsOfCode == \A k : Succs(k) = SuccsIn(code, k)
BY DEF Succs, SuccsIn, Start, StartIn

\* Liveness is a solution of its equations: what is read is live before, and
\* so is what is live before a successor and not written.
LivenessOK(in) ==
  \A k \in DOMAIN code :
    /\ UseRegs(code[k]) \subseteq in[k]
    /\ \A m \in Succs(k) : in[m] \ DefRegs(code[k]) \subseteq in[k]

LEMMA LivenessSolved ==
  ASSUME code \in Seq(Instr)
  PROVE  /\ LivenessOK(LiveIn)
         /\ \A k \in DOMAIN code : \A m \in Succs(k) : LiveIn[m] \subseteq LiveAfter[k]
<1> DEFINE N == Len(code)
           After(in, k) == UNION {in[m] : m \in Succs(k)}
           Next0(in) == [k \in DOMAIN code |->
                          UseRegs(code[k]) \cup (After(in, k) \ DefRegs(code[k]))]
           None0 == [k \in DOMAIN code |-> {}]
           P(in, n) == in = [j \in 0..n |-> IF j = 0 THEN None0 ELSE Next0(in[j - 1])]
<1>1. N \in Nat /\ DOMAIN code = 1..N
  OBVIOUS
<1>2. \E in : P(in, N)
  <2> DEFINE S == {n \in Nat : \E in : P(in, n)}
  <2> HIDE DEF Next0, None0
  <2>1. 0 \in S
    <3>1. P([j \in 0..0 |-> None0], 0)
      OBVIOUS
    <3> HIDE DEF P
    <3> QED BY <3>1
  <2>2. ASSUME NEW n \in Nat, n \in S PROVE n + 1 \in S
    <3>1. PICK f : P(f, n)
      BY <2>2
    <3> DEFINE h == [j \in 0..(n + 1) |-> IF j = 0 THEN None0 ELSE Next0(f[j - 1])]
    <3>2. \A j \in 0..n : h[j] = f[j]
      BY <3>1
    <3>3. P(h, n + 1)
      BY <3>1, <3>2
    <3> HIDE DEF h, P
    <3> QED BY <3>3
  <2> HIDE DEF S
  <2>3. N \in S
    BY <2>1, <2>2, <1>1, InductionOnSet
  <2> QED BY <2>3 DEF S
<1> DEFINE in == CHOOSE f : P(f, N)
<1>3. P(in, N)
  <2> HIDE DEF P
  <2> QED BY <1>2
<1>4. LiveIn = in[N]
  BY DEF LiveIn
<1>5. in[0] = None0 /\ \A n \in 0..(N - 1) : in[n + 1] = Next0(in[n])
  <2> HIDE DEF in, Next0, None0
  <2>1. \A j \in 0..N : in[j] = IF j = 0 THEN None0 ELSE Next0(in[j - 1])
    BY <1>3
  <2>2. ASSUME NEW n \in 0..(N - 1) PROVE in[n + 1] = Next0(in[n])
    <3>1. n + 1 \in 0..N /\ n + 1 # 0 /\ (n + 1) - 1 = n
      BY <1>1
    <3>2. in[n + 1] = Next0(in[(n + 1) - 1])
      BY <2>1, <3>1
    <3> QED BY <3>1, <3>2
  <2> QED BY <1>1, <2>1, <2>2
<1> HIDE DEF in
<1>6. ASSUME NEW r
      PROVE  \A k \in 1..N : (\/ r \in UseRegs(code[k])
                              \/ r \notin DefRegs(code[k]) /\ \E m \in Succs(k) : r \in in[N][m])
                             => r \in in[N][k]
  <2> DEFINE g == [A \in SUBSET (1..N) |->
                     {k \in 1..N : \/ r \in UseRegs(code[k])
                                   \/ r \notin DefRegs(code[k]) /\ \E m \in Succs(k) : m \in A}]
             s == [n \in 0..N |-> {k \in 1..N : r \in in[n][k]}]
  <2>1. g \in [SUBSET (1..N) -> SUBSET (1..N)]
    OBVIOUS
  <2>2. \A A, B \in SUBSET (1..N) : A \subseteq B => g[A] \subseteq g[B]
    OBVIOUS
  <2>3. s[0] = {}
    BY <1>1, <1>5
  <2>4. ASSUME NEW n \in 0..(N - 1) PROVE s[n + 1] = g[s[n]]
    <3>1. n \in 0..N /\ n + 1 \in 0..N /\ s[n] \in SUBSET (1..N)
      BY <1>1
    <3>2. \A k \in 1..N : Succs(k) \subseteq 1..N
      BY <1>1 DEF Succs
    <3>3. \A k \in 1..N : r \in in[n + 1][k] <=>
                            \/ r \in UseRegs(code[k])
                            \/ r \notin DefRegs(code[k]) /\ \E m \in Succs(k) : r \in in[n][m]
      <4>1. PICK b : b = in[n]
        OBVIOUS
      <4>2. in[n + 1] = Next0(b)
        <5> HIDE DEF Next0, None0
        <5> QED BY <1>5, <4>1
      <4>4. \A k \in 1..N : r \in After(b, k) <=> \E m \in Succs(k) : r \in b[m]
        OBVIOUS
      <4> HIDE DEF After
      <4>3. \A k \in 1..N : in[n + 1][k] = UseRegs(code[k]) \cup (After(b, k) \ DefRegs(code[k]))
        BY <1>1, <4>2
      <4>5. ASSUME NEW k \in 1..N
            PROVE  r \in in[n + 1][k] <=>
                     \/ r \in UseRegs(code[k])
                     \/ r \notin DefRegs(code[k]) /\ \E m \in Succs(k) : r \in b[m]
        BY <4>3, <4>4
      <4> QED BY <4>1, <4>5
    <3>4. \A k \in 1..N : k \in s[n + 1] <=> k \in g[s[n]]
      BY <3>1, <3>2, <3>3
    <3>5. s[n + 1] \in SUBSET (1..N) /\ g[s[n]] \in SUBSET (1..N)
      BY <3>1, <2>1
    <3> HIDE DEF s, g
    <3> QED BY <3>4, <3>5
  <2>5. g[s[N]] = s[N]
    <3> HIDE DEF s, g
    <3> QED BY <1>1, <2>1, <2>2, <2>3, <2>4, FixpointWithin
  <2>6. \A k \in 1..N : Succs(k) \subseteq 1..N
    BY <1>1 DEF Succs
  <2>7. N \in 0..N /\ s[N] \in SUBSET (1..N)
    BY <1>1
  <2>8. \A k \in 1..N : k \in g[s[N]] => r \in in[N][k]
    <3>1. \A k \in s[N] : r \in in[N][k]
      BY <1>1
    <3> HIDE DEF s, g
    <3> QED BY <2>5, <3>1
  <2> QED BY <2>6, <2>7, <2>8
<1>7. LivenessOK(LiveIn)
  <2> SUFFICES ASSUME NEW k \in 1..N
               PROVE  /\ UseRegs(code[k]) \subseteq LiveIn[k]
                      /\ \A m \in Succs(k) : LiveIn[m] \ DefRegs(code[k]) \subseteq LiveIn[k]
    BY <1>1 DEF LivenessOK
  <2> QED BY <1>4, <1>6
<1>8. \A k \in DOMAIN code : \A m \in Succs(k) : LiveIn[m] \subseteq LiveAfter[k]
  BY DEF LiveAfter
<1> QED BY <1>7, <1>8

-----------------------------------------------------------------------------
\* The first place of a member of a sequence.
LEMMA IndexOfFirst ==
  ASSUME NEW s \in Seq(Int), NEW e \in ToSet(s)
  PROVE  IndexFirst(s, e) \in 1..Len(s) /\ s[IndexFirst(s, e)] = e
<1> DEFINE S == {j \in 1..Len(s) : s[j] = e}
<1>1. DOMAIN s = 1..Len(s) /\ Len(s) \in Nat
  OBVIOUS
<1>2. S \in SUBSET Nat /\ S # {}
  BY <1>1 DEF ToSet
<1>3. PICK j \in S : \A m \in S : j =< m
  <2> HIDE DEF S
  <2> QED BY <1>2, LeastElement
<1>4. j \in DOMAIN s /\ s[j] = e /\ \A m \in 1..(j - 1) : s[m] # e
  BY <1>1, <1>3
<1> QED BY <1>1, <1>4 DEF IndexFirst

\* A concatenation of three sequences, element by element.
LEMMA ThreeParts ==
  ASSUME NEW S, NEW A \in Seq(S), NEW B \in Seq(S), NEW C \in Seq(S),
         NEW c, c = (A \o B) \o C
  PROVE  /\ c \in Seq(S)
         /\ Len(c) = Len(A) + Len(B) + Len(C)
         /\ \A i \in 1..Len(A) : c[i] = A[i]
         /\ \A j \in 1..Len(B) : c[Len(A) + j] = B[j]
         /\ \A j \in 1..Len(C) : c[Len(A) + Len(B) + j] = C[j]
<1>1. PICK d : d = A \o B
  OBVIOUS
<1>2. /\ d \in Seq(S) /\ Len(d) = Len(A) + Len(B)
      /\ \A k \in 1..Len(A) : d[k] = A[k]
      /\ \A k \in 1..Len(B) : d[Len(A) + k] = B[k]
  BY <1>1, ConcatAt
<1>3. /\ c \in Seq(S) /\ Len(c) = Len(d) + Len(C)
      /\ \A k \in 1..Len(d) : c[k] = d[k]
      /\ \A k \in 1..Len(C) : c[Len(d) + k] = C[k]
  <2>1. c = d \o C
    BY <1>1
  <2>2. d \in Seq(S)
    BY <1>2
  <2> QED BY <2>1, <2>2, ConcatAt
<1>4. PICK x, y, z \in Nat : x = Len(A) /\ y = Len(B) /\ z = Len(C)
  BY LenProperties
<1>5. \A i \in 1..x : i \in 1..(x + y)
  OBVIOUS
<1>6. \A j \in 1..y : x + j \in 1..(x + y)
  OBVIOUS
<1>7. \A i \in 1..x : c[i] = A[i]
  BY <1>2, <1>3, <1>4, <1>5
<1>8. \A j \in 1..y : c[x + j] = B[j]
  BY <1>2, <1>3, <1>4, <1>6
<1> QED BY <1>2, <1>3, <1>4, <1>7, <1>8

\* The spilled vregs that an instruction reads, and the fresh vregs they are
\* reloaded into: as many, one for each, numbered from n on.
SpillReads(x) == UseRegs(x) \cap spilled
TempOf(x, n) == [v \in SpillReads(x) |->
                   n + Cardinality({w \in SpillReads(x) : IndexFirst(x.uses, w) < IndexFirst(x.uses, v)})]
TempsOK(x, n) ==
  /\ IsFiniteSet(SpillReads(x)) /\ Cardinality(SpillReads(x)) \in Nat
  /\ \A v \in SpillReads(x) : TempOf(x, n)[v] \in n..(n + Cardinality(SpillReads(x)) - 1)
  /\ \A v, w \in SpillReads(x) : TempOf(x, n)[v] = TempOf(x, n)[w] => v = w
  /\ \A j \in 1..Cardinality(SpillReads(x)) : \E v \in SpillReads(x) : TempOf(x, n)[v] = n + j - 1

LEMMA TempsAreFresh ==
  ASSUME NEW x \in Instr, NEW n \in Nat
  PROVE  TempsOK(x, n)
<1> DEFINE S == SpillReads(x)
           c == Cardinality(S)
           key == [v \in S |-> IndexFirst(x.uses, v)]
           rank == [v \in S |-> Cardinality({w \in S : key[w] < key[v]})]
<1>1. x.uses \in Seq(Int)
  BY DEF Instr
<1>2. S \subseteq ToSet(x.uses)
  BY DEF SpillReads, UseRegs
<1>3. \A v \in S : key[v] \in 1..Len(x.uses) /\ x.uses[key[v]] = v
  BY <1>1, <1>2, IndexOfFirst
<1>4. Len(x.uses) \in Nat
  BY <1>1
<1>5. IsFiniteSet(S)
  <2>1. key \in Injection(S, 1..Len(x.uses))
    BY <1>3 DEF Injection, IsInjective
  <2>2. IsFiniteSet(1..Len(x.uses))
    BY <1>4, FS_Interval
  <2> HIDE DEF S, key
  <2> QED BY <2>1, <2>2, FS_Injection
<1>6. key \in [S -> Int] /\ \A v, w \in S : key[v] = key[w] => v = w
  BY <1>3, <1>4
<1>7. /\ c \in Nat
      /\ \A v \in S : rank[v] \in 0..(c - 1)
      /\ \A v, w \in S : rank[v] = rank[w] => v = w
      /\ \A j \in 0..(c - 1) : \E v \in S : rank[v] = j
  <2>1. rank = [v \in S |-> Cardinality({w \in S : key[w] < key[v]})]
    OBVIOUS
  <2>2. c = Cardinality(S)
    OBVIOUS
  <2> HIDE DEF S, key, rank, c
  <2> QED BY ONLY <1>5, <1>6, <2>1, <2>2, RankIsBijection
<1>8. \A v \in S : TempOf(x, n)[v] = n + rank[v]
  <2>1. \A v \in S : {w \in S : key[w] < key[v]}
                     = {w \in S : IndexFirst(x.uses, w) < IndexFirst(x.uses, v)}
    OBVIOUS
  <2> QED BY <2>1 DEF TempOf
<1> HIDE DEF S, c, key, rank
<1>9. /\ \A v \in S : TempOf(x, n)[v] \in n..(n + c - 1)
      /\ \A v, w \in S : TempOf(x, n)[v] = TempOf(x, n)[w] => v = w
  BY <1>7, <1>8
<1>10. ASSUME NEW j \in 1..c PROVE \E v \in S : TempOf(x, n)[v] = n + j - 1
  <2>1. j - 1 \in 0..(c - 1)
    BY <1>7
  <2>2. PICK v \in S : rank[v] = j - 1
    BY <2>1, <1>7
  <2> QED BY <2>2, <1>8, <1>7
<1> QED BY <1>5, <1>7, <1>9, <1>10 DEF S, c, TempsOK

\* What the spilling of one instruction adds to the code: its reloads, itself
\* and the save of what it writes.
Reloads(x) == Cardinality(SpillReads(x))
Rewritten(x, n) == RewriteVreg(x, TempOf(x, n),
                               IF x.def \in spilled THEN [q \in {x.def} |-> n + Reloads(x)] ELSE <<>>)
Block(a, x, slotOf, r) ==
  LET m   == Reloads(x)
      b   == Len(a.code)
      out == a.next + m
  IN  /\ r.code \in Seq(Instr)
      /\ \A i \in 1..b : r.code[i] = a.code[i]
      /\ \A j \in 1..m : \E v \in SpillReads(x) :
           /\ TempOf(x, a.next)[v] = a.next + j - 1
           /\ r.code[b + j] = LoadSlot(a.next + j - 1, slotOf[v], x.orig)
      /\ r.code[b + m + 1] = Rewritten(x, a.next)
      /\ IF x.def \in spilled
         THEN /\ Len(r.code) = b + m + 2 /\ r.next = out + 2
              /\ r.code[b + m + 2] = SaveSlot(out, slotOf[x.def], out + 1, x.orig)
         ELSE Len(r.code) = b + m + 1 /\ r.next = out

LEMMA SpillInstIsBlock ==
  ASSUME NEW a, a.code \in Seq(Instr), a.next \in Nat, NEW x \in Instr,
         NEW slotOf, \A v \in spilled : slotOf[v] \in Int
  PROVE  Block(a, x, slotOf, SpillInst(a, x, slotOf))
<1> DEFINE S == SpillReads(x)
           n == a.next
           m == Cardinality(S)
           ins == TempOf(x, n)
           out == n + m
           pick(j) == CHOOSE u \in S : ins[u] = n + j - 1
           loads == [j \in 1..m |-> LoadSlot(ins[pick(j)], slotOf[pick(j)], x.orig)]
           y(d) == RewriteVreg(x, ins, d)
           save == SaveSlot(out, slotOf[x.def], out + 1, x.orig)
           r == SpillInst(a, x, slotOf)
<1>1. TempsOK(x, n)
  BY TempsAreFresh
<1>2. m \in Nat
  BY <1>1 DEF TempsOK
<1>3. \A j \in 1..m : pick(j) \in S /\ ins[pick(j)] = n + j - 1
  BY <1>1 DEF TempsOK
<1>4. r = IF x.def \in spilled
          THEN [code |-> a.code \o loads \o <<y([q \in {x.def} |-> out]), save>>, next |-> out + 2]
          ELSE [code |-> a.code \o loads \o <<y(<<>>)>>, next |-> out]
  BY DEF SpillInst, SpillReads, TempOf
<1>5. loads \in Seq(Instr) /\ Len(loads) = m
  <2>1. \A v \in S : v \in spilled /\ ins[v] \in Int
    <3>1. \A v \in S : ins[v] \in n..(n + m - 1)
      BY <1>1 DEF TempsOK
    <3>2. S \subseteq spilled
      BY DEF SpillReads
    <3> HIDE DEF S, ins, m
    <3> QED BY <1>2, <3>1, <3>2
  <2>2. x.orig \in Int
    BY DEF Instr
  <2>3. ASSUME NEW j \in 1..m PROVE LoadSlot(ins[pick(j)], slotOf[pick(j)], x.orig) \in Instr
    <3>1. PICK v : v = pick(j) /\ v \in S
      BY <1>3
    <3>2. PICK d \in Int, l \in Int : d = ins[v] /\ l = slotOf[v]
      BY <2>1, <3>1
    <3> HIDE DEF pick, ins
    <3>3. LoadSlot(d, l, x.orig) \in Instr
      BY <2>2 DEF LoadSlot, Instr, None, Phys
    <3> QED BY <3>1, <3>2, <3>3
  <2> HIDE DEF pick, ins, m
  <2> QED BY <1>2, <2>3
<1>6. \A d : (\A v \in DOMAIN d : d[v] \in Int) => y(d) \in Instr
  <2> TAKE d
  <2> SUFFICES ASSUME \A v \in DOMAIN d : d[v] \in Int PROVE y(d) \in Instr
    OBVIOUS
  <2>1. DOMAIN ins = S /\ \A v \in S : ins[v] \in Int
    <3>1. DOMAIN ins = S
      BY DEF TempOf
    <3>2. \A v \in S : ins[v] \in n..(n + m - 1)
      BY <1>1 DEF TempsOK
    <3> HIDE DEF S, ins, m
    <3> QED BY <1>2, <3>1, <3>2
  <2> HIDE DEF ins, S
  <2>2. x.uses \in Seq(Int) /\ x.def \in Int
    BY DEF Instr
  <2>3. [j \in DOMAIN x.uses |-> Replaced(ins, x.uses[j])] \in Seq(Int)
    <3>1. PICK us \in Seq(Int) : us = x.uses
      BY <2>2
    <3>2. Len(us) \in Nat /\ DOMAIN us = 1..Len(us) /\ \A j \in 1..Len(us) : us[j] \in Int
      OBVIOUS
    <3>3. \A j \in 1..Len(us) : Replaced(ins, us[j]) \in Int
      BY <2>1, <3>2 DEF Replaced
    <3> QED BY <3>1, <3>2, <3>3
  <2>4. Replaced(d, x.def) \in Int
    BY <2>2 DEF Replaced
  <2> QED BY <2>3, <2>4 DEF RewriteVreg, Instr
<1>7. ASSUME NEW us \in Seq(Instr)
      PROVE  /\ (a.code \o loads) \o us \in Seq(Instr)
             /\ Len((a.code \o loads) \o us) = Len(a.code) + m + Len(us)
             /\ \A i \in 1..Len(a.code) : ((a.code \o loads) \o us)[i] = a.code[i]
             /\ \A j \in 1..m : ((a.code \o loads) \o us)[Len(a.code) + j] = loads[j]
             /\ \A j \in 1..Len(us) : ((a.code \o loads) \o us)[Len(a.code) + m + j] = us[j]
  <2> HIDE DEF loads, m
  <2>1. PICK A \in Seq(Instr) : A = a.code
    OBVIOUS
  <2>4. PICK B \in Seq(Instr) : B = loads /\ Len(B) = m
    BY <1>5
  <2>2. PICK c : c = (A \o B) \o us
    OBVIOUS
  <2>3. /\ c \in Seq(Instr)
        /\ Len(c) = Len(A) + Len(B) + Len(us)
        /\ \A i \in 1..Len(A) : c[i] = A[i]
        /\ \A j \in 1..Len(B) : c[Len(A) + j] = B[j]
        /\ \A j \in 1..Len(us) : c[Len(A) + Len(B) + j] = us[j]
    BY <2>2, ThreeParts
  <2> QED BY <2>1, <2>2, <2>3, <2>4
<1>8. \A j \in 1..m : \E v \in S : /\ ins[v] = n + j - 1
                                   /\ loads[j] = LoadSlot(n + j - 1, slotOf[v], x.orig)
  <2> TAKE j \in 1..m
  <2>1. PICK v \in S : v = pick(j) /\ ins[v] = n + j - 1
    BY <1>3
  <2>2. loads[j] = LoadSlot(ins[v], slotOf[v], x.orig)
    BY <2>1
  <2> QED BY <2>1, <2>2
<1>9. CASE x.def \in spilled
  <2>1. y([q \in {x.def} |-> out]) \in Instr
    <3>1. PICK d : d = [q \in {x.def} |-> out]
      OBVIOUS
    <3>2. out \in Int
      <4> HIDE DEF m
      <4> QED BY <1>2
    <3>3. \A v \in DOMAIN d : d[v] \in Int
      BY <3>1, <3>2
    <3> HIDE DEF y, out
    <3> QED BY <1>6, <3>1, <3>3
  <2>2. save \in Instr
    <3>1. PICK l \in Int : l = slotOf[x.def]
      BY <1>9
    <3>2. PICK o \in Int : o = out
      <4> HIDE DEF m
      <4> QED BY <1>2
    <3>3. x.orig \in Int
      BY DEF Instr
    <3>4. SaveSlot(o, l, o + 1, x.orig) \in Instr
      BY <3>3 DEF SaveSlot, Instr, None, Phys
    <3> HIDE DEF out
    <3> QED BY <3>1, <3>2, <3>4
  <2> HIDE DEF y, save, loads, ins, m, S, r
  <2>3. PICK us : us = <<y([q \in {x.def} |-> out]), save>>
    OBVIOUS
  <2>4. us \in Seq(Instr) /\ Len(us) = 2 /\ us[1] = y([q \in {x.def} |-> out]) /\ us[2] = save
    BY <2>1, <2>2, <2>3
  <2>5. r = [code |-> (a.code \o loads) \o us, next |-> out + 2]
    BY <1>4, <1>9, <2>3 DEF r
  <2>6. r.code = (a.code \o loads) \o us /\ r.next = out + 2
    BY <2>5
  <2>7. PICK b \in Nat : b = Len(a.code)
    BY LenProperties
  <2>8. /\ r.code \in Seq(Instr)
        /\ Len(r.code) = b + m + 2
        /\ \A i \in 1..b : r.code[i] = a.code[i]
        /\ \A j \in 1..m : r.code[b + j] = loads[j]
        /\ r.code[b + m + 1] = us[1] /\ r.code[b + m + 2] = us[2]
    <3>1. 1 \in 1..Len(us) /\ 2 \in 1..Len(us)
      BY <2>4
    <3>2. PICK c : c = (a.code \o loads) \o us
      OBVIOUS
    <3>3. /\ c \in Seq(Instr)
          /\ Len(c) = b + m + Len(us)
          /\ \A i \in 1..b : c[i] = a.code[i]
          /\ \A j \in 1..m : c[b + j] = loads[j]
          /\ \A j \in 1..Len(us) : c[b + m + j] = us[j]
      BY <1>7, <2>4, <2>7, <3>2
    <3> QED BY <2>4, <2>6, <3>1, <3>2, <3>3
  <2>9. \A j \in 1..m : \E v \in S :
          /\ TempOf(x, a.next)[v] = a.next + j - 1
          /\ r.code[b + j] = LoadSlot(a.next + j - 1, slotOf[v], x.orig)
    BY <1>8, <2>8 DEF ins
  <2> QED BY <1>9, <2>4, <2>6, <2>7, <2>8, <2>9 DEF Block, Reloads, Rewritten, y, save, ins, m, S, r, out
<1>10. CASE x.def \notin spilled
  <2>1. y(<<>>) \in Instr
    <3> HIDE DEF y
    <3> QED BY <1>6
  <2> HIDE DEF y, loads, ins, m, S, r
  <2>3. PICK us : us = <<y(<<>>)>>
    OBVIOUS
  <2>4. us \in Seq(Instr) /\ Len(us) = 1 /\ us[1] = y(<<>>)
    BY <2>1, <2>3
  <2>5. r = [code |-> (a.code \o loads) \o us, next |-> out]
    BY <1>4, <1>10, <2>3 DEF r
  <2>6. r.code = (a.code \o loads) \o us /\ r.next = out
    BY <2>5
  <2>7. PICK b \in Nat : b = Len(a.code)
    BY LenProperties
  <2>8. /\ r.code \in Seq(Instr)
        /\ Len(r.code) = b + m + 1
        /\ \A i \in 1..b : r.code[i] = a.code[i]
        /\ \A j \in 1..m : r.code[b + j] = loads[j]
        /\ r.code[b + m + 1] = us[1]
    <3>1. 1 \in 1..Len(us)
      BY <2>4
    <3>2. PICK c : c = (a.code \o loads) \o us
      OBVIOUS
    <3>3. /\ c \in Seq(Instr)
          /\ Len(c) = b + m + Len(us)
          /\ \A i \in 1..b : c[i] = a.code[i]
          /\ \A j \in 1..m : c[b + j] = loads[j]
          /\ \A j \in 1..Len(us) : c[b + m + j] = us[j]
      BY <1>7, <2>4, <2>7, <3>2
    <3> QED BY <2>4, <2>6, <3>1, <3>2, <3>3
  <2>9. \A j \in 1..m : \E v \in S :
          /\ TempOf(x, a.next)[v] = a.next + j - 1
          /\ r.code[b + j] = LoadSlot(a.next + j - 1, slotOf[v], x.orig)
    <3> TAKE j \in 1..m
    <3>1. PICK v \in S : ins[v] = n + j - 1 /\ loads[j] = LoadSlot(n + j - 1, slotOf[v], x.orig)
      BY <1>8
    <3>2. r.code[b + j] = loads[j]
      BY <2>8
    <3>3. TempOf(x, a.next)[v] = a.next + j - 1
      BY <3>1 DEF ins
    <3> QED BY <3>1, <3>2, <3>3
  <2> QED BY <1>10, <2>4, <2>6, <2>7, <2>8, <2>9 DEF Block, Reloads, Rewritten, y, ins, m, S, r, out
<1> HIDE DEF r
<1> QED BY <1>9, <1>10 DEF r

-----------------------------------------------------------------------------
\* The code with its spilled vregs in slots: instruction k stands at places
\* L[k - 1] + 1 to L[k], after its reloads and before the save of its result,
\* and nx[k - 1] is its first fresh vreg.
Expanded(c, c2, slotOf, L, nx) ==
  /\ c2 \in Seq(Instr) /\ Len(c2) = L[Len(c)]
  /\ L \in [0..Len(c) -> Nat] /\ L[0] = 0
  /\ nx \in [0..Len(c) -> Nat]
  /\ \A k \in 1..Len(c) :
       /\ Reloads(c[k]) \in Nat
       /\ \A j \in 1..Reloads(c[k]) : \E v \in SpillReads(c[k]) :
            /\ TempOf(c[k], nx[k - 1])[v] = nx[k - 1] + j - 1
            /\ c2[L[k - 1] + j] = LoadSlot(nx[k - 1] + j - 1, slotOf[v], c[k].orig)
       /\ c2[L[k - 1] + Reloads(c[k]) + 1] = Rewritten(c[k], nx[k - 1])
       /\ IF c[k].def \in spilled
          THEN /\ L[k] = L[k - 1] + Reloads(c[k]) + 2 /\ nx[k] = nx[k - 1] + Reloads(c[k]) + 2
               /\ c2[L[k - 1] + Reloads(c[k]) + 2]
                    = SaveSlot(nx[k - 1] + Reloads(c[k]), slotOf[c[k].def],
                               nx[k - 1] + Reloads(c[k]) + 1, c[k].orig)
          ELSE L[k] = L[k - 1] + Reloads(c[k]) + 1 /\ nx[k] = nx[k - 1] + Reloads(c[k])

SpillRun(c, n, slotOf, f) ==
  f = [k \in 0..Len(c) |-> IF k = 0 THEN [code |-> <<>>, next |-> n]
                           ELSE SpillInst(f[k - 1], c[k], slotOf)]

LEMMA SpillingExpands ==
  ASSUME NEW c \in Seq(Instr), NEW n \in Nat,
         NEW slotOf, \A v \in spilled : slotOf[v] \in Int,
         NEW f, SpillRun(c, n, slotOf, f)
  PROVE  \E L, nx : /\ Expanded(c, f[Len(c)].code, slotOf, L, nx)
                    /\ nx[0] = n /\ nx[Len(c)] = f[Len(c)].next
<1> DEFINE N == Len(c)
           Good(k) == f[k].code \in Seq(Instr) /\ f[k].next \in Nat
           S == {k \in Nat : k =< N => Good(k)}
<1>1. N \in Nat /\ \A k \in 1..N : c[k] \in Instr
  BY ElementOfSeq, LenProperties
<1>2. \A k \in 0..N : f[k] = IF k = 0 THEN [code |-> <<>>, next |-> n]
                            ELSE SpillInst(f[k - 1], c[k], slotOf)
  BY DEF SpillRun
<1>3. f[0] = [code |-> <<>>, next |-> n]
  BY <1>1, <1>2
<1>4. ASSUME NEW k \in 1..N PROVE f[k] = SpillInst(f[k - 1], c[k], slotOf)
  BY <1>1, <1>2
<1>5. \A x \in Instr : Reloads(x) \in Nat
  BY TempsAreFresh DEF TempsOK, Reloads
<1>6. ASSUME NEW k \in 1..N, Good(k - 1) PROVE Block(f[k - 1], c[k], slotOf, f[k])
  BY <1>1, <1>4, <1>6, SpillInstIsBlock
<1>7. 0 \in S
  <2>1. f[0].code = <<>> /\ f[0].next = n
    BY <1>3
  <2>2. Good(0)
    BY <2>1, EmptySeq
  <2> QED BY <2>2
<1>8. ASSUME NEW k \in Nat, k \in S PROVE k + 1 \in S
  <2> SUFFICES ASSUME k + 1 =< N PROVE Good(k + 1)
    OBVIOUS
  <2>1. k + 1 \in 1..N /\ (k + 1) - 1 = k /\ Good(k)
    BY <1>1, <1>8
  <2>2. Block(f[k], c[k + 1], slotOf, f[k + 1])
    BY <1>6, <2>1
  <2>3. PICK m \in Nat : m = Reloads(c[k + 1])
    BY <1>1, <1>5, <2>1
  <2>4. PICK q \in Nat : q = f[k].next
    BY <2>1
  <2>5. f[k + 1].next = q + m + 2 \/ f[k + 1].next = q + m
    BY <2>2, <2>3, <2>4, ZenonT(40) DEF Block
  <2>6. f[k + 1].code \in Seq(Instr)
    BY <2>2 DEF Block
  <2> QED BY <2>5, <2>6
<1>9. \A k \in 0..N : Good(k)
  <2>1. Nat \subseteq S
    <3> HIDE DEF S
    <3> QED BY <1>7, <1>8, InductionOnSet
  <2> QED BY <1>1, <2>1
<1> DEFINE L == [k \in 0..N |-> Len(f[k].code)]
           nx == [k \in 0..N |-> f[k].next]
<1>10. /\ L \in [0..N -> Nat] /\ nx \in [0..N -> Nat]
       /\ \A k \in 0..N : L[k] = Len(f[k].code) /\ nx[k] = f[k].next
  BY <1>9, LenProperties
<1>11. L[0] = 0
  BY <1>3, <1>10, <1>1
<1> HIDE DEF Good, S, L, nx
<1>12. ASSUME NEW k \in 1..N
       PROVE  /\ k - 1 \in 0..N /\ k \in 0..N
              /\ Block(f[k - 1], c[k], slotOf, f[k])
              /\ L[k - 1] \in Nat /\ L[k] \in Nat
  <2>1. k - 1 \in 0..N /\ k \in 0..N
    BY <1>1
  <2> QED BY <1>6, <1>9, <1>10, <2>1
\* What stands in the code after k instructions stays.
<1>13. \A k \in 0..N : \A i \in 1..L[k] : f[N].code[i] = f[k].code[i]
  <2> DEFINE Stays(k, j) == L[k] =< L[j] /\ \A i \in 1..L[k] : f[j].code[i] = f[k].code[i]
  <2> SUFFICES ASSUME NEW k \in 0..N PROVE \A i \in 1..L[k] : f[N].code[i] = f[k].code[i]
    OBVIOUS
  <2> DEFINE T == {j \in Nat : k =< j /\ j =< N => Stays(k, j)}
  <2> HIDE DEF Stays
  <2>1. 0 \in T
    <3>1. k =< 0 => k = 0
      BY <1>1
    <3>2. L[k] \in Nat
      BY <1>10
    <3> QED BY <3>1, <3>2 DEF Stays
  <2>2. ASSUME NEW j \in Nat, j \in T PROVE j + 1 \in T
    <3> SUFFICES ASSUME k =< j + 1, j + 1 =< N PROVE Stays(k, j + 1)
      OBVIOUS
    <3>1. CASE k = j + 1
      <4>1. L[k] \in Nat
        BY <1>10
      <4> QED BY <3>1, <4>1 DEF Stays
    <3>2. CASE k =< j
      <4>1. j + 1 \in 1..N /\ (j + 1) - 1 = j /\ Stays(k, j)
        BY <1>1, <2>2, <3>2
      <4>10. /\ L[k] =< L[j] /\ \A i \in 1..L[k] : f[j].code[i] = f[k].code[i]
        BY <4>1 DEF Stays
      <4>2. Block(f[j], c[j + 1], slotOf, f[j + 1]) /\ L[j] \in Nat /\ L[j + 1] \in Nat
        BY <1>12, <4>1
      <4>3. j \in 0..N /\ j + 1 \in 0..N
        BY <1>1, <4>1
      <4>4. PICK m \in Nat, b \in Nat : m = Reloads(c[j + 1]) /\ b = Len(f[j].code)
        BY <1>1, <1>5, <1>10, <4>1, <4>2, <4>3
      <4>9. /\ \A i \in 1..b : f[j + 1].code[i] = f[j].code[i]
            /\ Len(f[j + 1].code) = b + m + 2 \/ Len(f[j + 1].code) = b + m + 1
        BY <4>2, <4>4, ZenonT(40) DEF Block
      <4>5. L[j] =< L[j + 1] /\ \A i \in 1..L[j] : f[j + 1].code[i] = f[j].code[i]
        <5>1. L[j] = b /\ L[j + 1] = Len(f[j + 1].code)
          BY <1>10, <4>3, <4>4
        <5>2. L[j + 1] = b + m + 2 \/ L[j + 1] = b + m + 1
          BY <4>9, <5>1
        <5>3. L[j] =< L[j + 1]
          <6>1. b =< b + m + 2 /\ b =< b + m + 1
            BY <4>4
          <6> QED BY <5>1, <5>2, <6>1
        <5>4. \A i \in 1..L[j] : f[j + 1].code[i] = f[j].code[i]
          BY <4>9, <5>1
        <5> QED BY <5>3, <5>4
      <4>6. L[k] \in Nat
        BY <1>10
      <4>7. L[k] =< L[j + 1]
        BY <4>10, <4>2, <4>5, <4>6
      <4>8. \A i \in 1..L[k] : i \in 1..L[j]
        BY <4>10, <4>2, <4>6
      <4> QED BY <4>10, <4>5, <4>7, <4>8 DEF Stays
    <3>3. k = j + 1 \/ k =< j
      BY <1>1
    <3> QED BY <3>1, <3>2, <3>3
  <2>3. N \in T
    <3> HIDE DEF T
    <3> QED BY <1>1, <2>1, <2>2, InductionOnSet
  <2> QED BY <2>3, <1>1 DEF Stays
<1>14. ASSUME NEW k \in 1..N
       PROVE  /\ Reloads(c[k]) \in Nat
              /\ \A j \in 1..Reloads(c[k]) : \E v \in SpillReads(c[k]) :
                   /\ TempOf(c[k], nx[k - 1])[v] = nx[k - 1] + j - 1
                   /\ f[N].code[L[k - 1] + j] = LoadSlot(nx[k - 1] + j - 1, slotOf[v], c[k].orig)
              /\ f[N].code[L[k - 1] + Reloads(c[k]) + 1] = Rewritten(c[k], nx[k - 1])
              /\ IF c[k].def \in spilled
                 THEN /\ L[k] = L[k - 1] + Reloads(c[k]) + 2
                      /\ nx[k] = nx[k - 1] + Reloads(c[k]) + 2
                      /\ f[N].code[L[k - 1] + Reloads(c[k]) + 2]
                           = SaveSlot(nx[k - 1] + Reloads(c[k]), slotOf[c[k].def],
                                      nx[k - 1] + Reloads(c[k]) + 1, c[k].orig)
                 ELSE L[k] = L[k - 1] + Reloads(c[k]) + 1 /\ nx[k] = nx[k - 1] + Reloads(c[k])
  <2>1. PICK m \in Nat, b \in Nat, l \in Nat :
          m = Reloads(c[k]) /\ b = L[k - 1] /\ l = L[k]
    BY <1>1, <1>5, <1>12
  <2>2. /\ L[k - 1] = Len(f[k - 1].code) /\ nx[k - 1] = f[k - 1].next
        /\ L[k] = Len(f[k].code) /\ nx[k] = f[k].next
    BY <1>10, <1>12
  <2>3. \A i \in 1..l : f[N].code[i] = f[k].code[i]
    BY <1>12, <1>13, <2>1
  <2>4. Block(f[k - 1], c[k], slotOf, f[k])
    BY <1>12
  <2>5. IF c[k].def \in spilled
        THEN /\ l = b + m + 2 /\ nx[k] = nx[k - 1] + m + 2
             /\ f[k].code[b + m + 2] = SaveSlot(nx[k - 1] + m, slotOf[c[k].def],
                                                nx[k - 1] + m + 1, c[k].orig)
        ELSE l = b + m + 1 /\ nx[k] = nx[k - 1] + m
    BY <2>1, <2>2, <2>4, ZenonT(40) DEF Block
  <2>6. f[k].code[b + m + 1] = Rewritten(c[k], nx[k - 1])
    BY <2>1, <2>2, <2>4, ZenonT(40) DEF Block
  <2>7. \A j \in 1..m : \E v \in SpillReads(c[k]) :
          /\ TempOf(c[k], nx[k - 1])[v] = nx[k - 1] + j - 1
          /\ f[k].code[b + j] = LoadSlot(nx[k - 1] + j - 1, slotOf[v], c[k].orig)
    BY <2>1, <2>2, <2>4, ZenonT(40) DEF Block
  <2>8. /\ b + m + 1 \in 1..l /\ \A j \in 1..m : b + j \in 1..l
        /\ c[k].def \in spilled => b + m + 2 \in 1..l
    BY <2>5
  <2>9. /\ f[N].code[b + m + 1] = Rewritten(c[k], nx[k - 1])
        /\ c[k].def \in spilled =>
             f[N].code[b + m + 2] = SaveSlot(nx[k - 1] + m, slotOf[c[k].def],
                                             nx[k - 1] + m + 1, c[k].orig)
    BY <2>3, <2>5, <2>6, <2>8
  <2>10. \A j \in 1..m : \E v \in SpillReads(c[k]) :
          /\ TempOf(c[k], nx[k - 1])[v] = nx[k - 1] + j - 1
          /\ f[N].code[b + j] = LoadSlot(nx[k - 1] + j - 1, slotOf[v], c[k].orig)
    BY <2>3, <2>7, <2>8
  <2> QED BY <2>1, <2>5, <2>9, <2>10
<1>15. Expanded(c, f[N].code, slotOf, L, nx)
  <2>1. f[N].code \in Seq(Instr) /\ Len(f[N].code) = L[N]
    BY <1>1, <1>9, <1>10 DEF Good
  <2> QED BY <1>10, <1>11, <1>14, <2>1 DEF Expanded
<1>16. nx[0] = n /\ nx[N] = f[N].next
  BY <1>1, <1>3, <1>10
<1> QED BY <1>15, <1>16

\* Each spilled vreg has a slot of its own, above the first t.
SlotOf(t) == [v \in spilled |-> t + Cardinality({w \in spilled : w =< v})]
SlotsOK(t) ==
  /\ Cardinality(spilled) \in Nat
  /\ \A v \in spilled : SlotOf(t)[v] \in (t + 1)..(t + Cardinality(spilled))
  /\ \A v, w \in spilled : SlotOf(t)[v] = SlotOf(t)[w] => v = w

LEMMA SlotsAreFresh ==
  ASSUME NEW t \in Nat, IsFiniteSet(spilled), spilled \subseteq Int
  PROVE  SlotsOK(t)
<1> DEFINE key == [v \in spilled |-> v]
           c == Cardinality(spilled)
           rank == [v \in spilled |-> Cardinality({w \in spilled : key[w] < key[v]})]
<1>1. key \in [spilled -> Int] /\ \A v, w \in spilled : key[v] = key[w] => v = w
  OBVIOUS
<1>2. /\ c \in Nat
      /\ \A v \in spilled : rank[v] \in 0..(c - 1)
      /\ \A v, w \in spilled : rank[v] = rank[w] => v = w
  <2>1. rank = [v \in spilled |-> Cardinality({w \in spilled : key[w] < key[v]})]
    OBVIOUS
  <2>2. PICK S : S = spilled
    OBVIOUS
  <2>3. /\ IsFiniteSet(S) /\ key \in [S -> Int]
        /\ \A v, w \in S : key[v] = key[w] => v = w
        /\ rank = [v \in S |-> Cardinality({w \in S : key[w] < key[v]})]
    <3> HIDE DEF key, rank
    <3> QED BY <1>1, <2>1, <2>2
  <2> HIDE DEF key, rank
  <2>4. /\ Cardinality(S) \in Nat
        /\ \A v \in S : rank[v] \in 0..(Cardinality(S) - 1)
        /\ \A v, w \in S : rank[v] = rank[w] => v = w
    BY <2>3, RankIsBijection
  <2> QED BY <2>2, <2>4
<1>3. ASSUME NEW v \in spilled PROVE SlotOf(t)[v] = t + rank[v] + 1
  <2> DEFINE Below == {w \in spilled : w < v}
             UpTo == {w \in spilled : w =< v}
  <2>1. UpTo = Below \cup {v}
    <3>1. \A w \in spilled : w =< v <=> w < v \/ w = v
      OBVIOUS
    <3> QED BY <3>1
  <2>2. rank[v] = Cardinality(Below)
    <3>1. {w \in spilled : key[w] < key[v]} = Below
      OBVIOUS
    <3> QED BY <3>1
  <2>3. IsFiniteSet(Below) /\ v \notin Below
    <3>1. Below \in SUBSET spilled
      OBVIOUS
    <3> QED BY <3>1, FS_Subset
  <2>4. SlotOf(t)[v] = t + Cardinality(UpTo)
    BY DEF SlotOf
  <2>5. rank[v] \in Nat
    BY <1>2
  <2> HIDE DEF Below, UpTo, rank
  <2>6. Cardinality(UpTo) = rank[v] + 1
    BY <2>1, <2>2, <2>3, FS_AddElement
  <2> QED BY <2>4, <2>5, <2>6
<1> HIDE DEF rank, c
<1>4. \A v \in spilled : SlotOf(t)[v] \in (t + 1)..(t + c)
  BY <1>2, <1>3
<1>5. \A v, w \in spilled : SlotOf(t)[v] = SlotOf(t)[w] => v = w
  BY <1>2, <1>3
<1> QED BY <1>2, <1>4, <1>5 DEF c, SlotsOK

\* spill_vreg is that expansion of the code.
LEMMA SpillVregsExpands ==
  ASSUME SpillVregs, code \in Seq(Instr), nextVreg \in Nat, numSlots \in Nat,
         IsFiniteSet(spilled), spilled \subseteq Int
  PROVE  \E L, nx : /\ Expanded(code, code', SlotOf(numSlots), L, nx)
                    /\ nx[0] = nextVreg /\ nx[Len(code)] = nextVreg'
<1> DEFINE N == Len(code)
           slotOf == SlotOf(numSlots)
           first == [code |-> <<>>, next |-> nextVreg]
           P(f, n) == f = [k \in 0..n |-> IF k = 0 THEN first
                                          ELSE SpillInst(f[k - 1], code[k], slotOf)]
           after == CHOOSE f : P(f, N)
<1>1. N \in Nat
  BY LenProperties
<1>2. \E f : P(f, N)
  <2> DEFINE S == {n \in Nat : \E f : P(f, n)}
  <2> HIDE DEF first, slotOf
  <2>1. 0 \in S
    <3>1. P([j \in 0..0 |-> first], 0)
      OBVIOUS
    <3> HIDE DEF P
    <3> QED BY <3>1
  <2>2. ASSUME NEW n \in Nat, n \in S PROVE n + 1 \in S
    <3>1. PICK f : P(f, n)
      BY <2>2
    <3> DEFINE h == [k \in 0..(n + 1) |-> IF k = 0 THEN first
                                          ELSE SpillInst(f[k - 1], code[k], slotOf)]
    <3>2. \A j \in 0..n : h[j] = f[j]
      BY <3>1
    <3>3. P(h, n + 1)
      BY <3>1, <3>2
    <3> HIDE DEF h, P
    <3> QED BY <3>3
  <2> HIDE DEF S
  <2>3. N \in S
    BY <2>1, <2>2, <1>1, InductionOnSet
  <2> QED BY <2>3 DEF S
<1>3. P(after, N)
  <2> HIDE DEF P
  <2> QED BY <1>2
<1>4. code' = after[N].code /\ nextVreg' = after[N].next
  BY DEF SpillVregs, SlotOf
<1>5. \A v \in spilled : slotOf[v] \in Int
  BY SlotsAreFresh DEF SlotsOK
<1>6. PICK f : f = after
  OBVIOUS
<1>7. SpillRun(code, nextVreg, slotOf, f)
  <2> HIDE DEF after
  <2> QED BY <1>3, <1>6 DEF SpillRun
<1> HIDE DEF after, slotOf
<1>8. \E L, nx : /\ Expanded(code, f[Len(code)].code, slotOf, L, nx)
                 /\ nx[0] = nextVreg /\ nx[Len(code)] = f[Len(code)].next
  BY <1>5, <1>7, SpillingExpands
<1> QED BY <1>4, <1>6, <1>8 DEF slotOf

\* Every place of the expanded code belongs to one instruction of the code.
LEMMA PlacesOfExpanded ==
  ASSUME NEW c \in Seq(Instr), NEW c2, NEW slotOf, NEW L, NEW nx,
         Expanded(c, c2, slotOf, L, nx)
  PROVE  /\ \A k \in 1..Len(c) : /\ L[k - 1] \in Nat /\ L[k] \in Nat
                                 /\ L[k - 1] < L[k] /\ L[k] =< Len(c2)
                                 /\ nx[k - 1] \in Nat /\ nx[k] \in Nat
                                 /\ nx[0] =< nx[k - 1] /\ nx[k] =< nx[Len(c)]
         /\ \A q \in 1..Len(c2) : \E k \in 1..Len(c) : L[k - 1] < q /\ q =< L[k]
         /\ \A j, k \in 1..Len(c) : j < k => L[j] =< L[k - 1]
<1> DEFINE N == Len(c)
<1>1. N \in Nat /\ \A k \in 1..N : k - 1 \in 0..N /\ k \in 0..N
  BY LenProperties
<1>2. \A k \in 0..N : L[k] \in Nat /\ nx[k] \in Nat
  BY <1>1 DEF Expanded
<1>3. ASSUME NEW k \in 1..N PROVE L[k - 1] < L[k] /\ nx[k - 1] =< nx[k]
  <2>1. PICK m \in Nat, a \in Nat, b \in Nat, u \in Nat, w \in Nat :
          m = Reloads(c[k]) /\ a = L[k - 1] /\ b = L[k] /\ u = nx[k - 1] /\ w = nx[k]
    BY <1>1, <1>2 DEF Expanded
  <2>2. \/ b = a + m + 2 /\ w = u + m + 2
        \/ b = a + m + 1 /\ w = u + m
    BY <2>1 DEF Expanded
  <2>3. a < b /\ u =< w
    BY ONLY <2>2, m \in Nat, a \in Nat, b \in Nat, u \in Nat, w \in Nat
  <2> QED BY <2>1, <2>3
<1>4. \A j, k \in 0..N : j =< k => L[j] =< L[k] /\ nx[j] =< nx[k]
  <2> SUFFICES ASSUME NEW j \in 0..N
               PROVE  \A k \in 0..N : j =< k => L[j] =< L[k] /\ nx[j] =< nx[k]
    OBVIOUS
  <2> DEFINE S == {k \in Nat : j =< k /\ k =< N => L[j] =< L[k] /\ nx[j] =< nx[k]}
  <2>1. 0 \in S
    BY <1>1, <1>2
  <2>2. ASSUME NEW k \in Nat, k \in S PROVE k + 1 \in S
    <3> SUFFICES ASSUME j =< k + 1, k + 1 =< N
                 PROVE  L[j] =< L[k + 1] /\ nx[j] =< nx[k + 1]
      OBVIOUS
    <3>1. /\ L[j] \in Nat /\ L[k] \in Nat /\ L[k + 1] \in Nat
          /\ nx[j] \in Nat /\ nx[k] \in Nat /\ nx[k + 1] \in Nat
      BY <1>1, <1>2
    <3>2. CASE j = k + 1
      BY <3>1, <3>2
    <3>3. CASE j =< k
      <4>1. k + 1 \in 1..N /\ (k + 1) - 1 = k
        BY <1>1
      <4>2. L[k] < L[k + 1] /\ nx[k] =< nx[k + 1]
        BY <1>3, <4>1
      <4>3. L[j] =< L[k] /\ nx[j] =< nx[k]
        BY <1>1, <2>2, <3>3
      <4> QED BY <3>1, <4>2, <4>3
    <3> QED BY <1>1, <3>2, <3>3
  <2> HIDE DEF S
  <2>3. Nat \subseteq S
    BY <2>1, <2>2, InductionOnSet
  <2> QED BY <1>1, <2>3 DEF S
<1>5. L[0] = 0 /\ Len(c2) = L[N]
  BY DEF Expanded
<1>6. ASSUME NEW q \in 1..Len(c2) PROVE \E k \in 1..N : L[k - 1] < q /\ q =< L[k]
  <2> DEFINE S == {k \in Nat : k =< N /\ q =< L[k]}
  <2>1. S \in SUBSET Nat /\ S # {}
    BY <1>1, <1>2, <1>5
  <2> HIDE DEF S
  <2>2. PICK k \in S : \A j \in S : k =< j
    BY <2>1, LeastElement
  <2>3. k \in 0..N /\ q =< L[k] /\ k # 0
    BY <1>1, <1>5, <2>2 DEF S
  <2>4. k - 1 \in 0..N /\ k - 1 \notin S /\ L[k - 1] \in Nat
    BY <1>1, <1>2, <2>2, <2>3 DEF S
  <2>5. L[k - 1] < q
    BY <2>3, <2>4 DEF S
  <2> QED BY <2>3, <2>5
<1>7. \A j, k \in 1..N : j < k => L[j] =< L[k - 1]
  BY <1>1, <1>4
<1>8. \A k \in 1..N : /\ L[k] =< Len(c2)
                      /\ nx[0] =< nx[k - 1] /\ nx[k] =< nx[N]
  BY <1>1, <1>4, <1>5
<1>9. \A k \in 1..N : /\ L[k - 1] \in Nat /\ L[k] \in Nat /\ L[k - 1] < L[k]
                      /\ nx[k - 1] \in Nat /\ nx[k] \in Nat
  BY <1>1, <1>2, <1>3
<1> QED BY <1>6, <1>7, <1>8, <1>9

\* The first instruction that stands for a source instruction.
LEMMA StartOf ==
  ASSUME NEW c \in Seq(Instr), NEW i, \E k \in DOMAIN c : c[k].orig = i
  PROVE  /\ StartIn(c, i) \in 1..Len(c) /\ c[StartIn(c, i)].orig = i
         /\ \A m \in 1..(StartIn(c, i) - 1) : c[m].orig # i
<1> DEFINE S == {k \in 1..Len(c) : c[k].orig = i}
<1>1. DOMAIN c = 1..Len(c) /\ Len(c) \in Nat
  OBVIOUS
<1>2. S \in SUBSET Nat /\ S # {}
  BY <1>1
<1>3. PICK j \in S : \A m \in S : j =< m
  <2> HIDE DEF S
  <2> QED BY <1>2, LeastElement
<1>4. j \in DOMAIN c /\ c[j].orig = i /\ \A m \in 1..(j - 1) : c[m].orig # i
  BY <1>1, <1>3
<1> QED BY <1>1, <1>4 DEF StartIn

LEMMA StartIsUnique ==
  ASSUME NEW c \in Seq(Instr), NEW i, NEW k \in 1..Len(c), c[k].orig = i,
         \A m \in 1..(k - 1) : c[m].orig # i
  PROVE  StartIn(c, i) = k
<1>1. DOMAIN c = 1..Len(c)
  OBVIOUS
<1>2. PICK s \in 1..Len(c) : /\ s = StartIn(c, i) /\ c[s].orig = i
                             /\ \A m \in 1..(s - 1) : c[m].orig # i
  BY <1>1, StartOf
<1>3. s \in Nat /\ k \in Nat /\ ~(s < k) /\ ~(k < s)
  BY <1>2
<1> QED BY <1>2, <1>3

\* The instructions of the expanded code, by the instruction and the offset.
LEMMA InstructionsOfExpanded ==
  ASSUME NEW p, NEW U, NEW n, NEW t, NEW c, CodeOK(p, c, U, n, t), NEW c2, NEW slotOf, NEW L, NEW nx,
         Expanded(c, c2, slotOf, L, nx), None \notin spilled, NEW k \in 1..Len(c)
  PROVE  /\ \A j \in 1..Reloads(c[k]) :
              /\ L[k - 1] + j < L[k]
              /\ c2[L[k - 1] + j].op = "load" /\ c2[L[k - 1] + j].jump = None
              /\ c2[L[k - 1] + j].orig = c[k].orig
         /\ L[k - 1] + Reloads(c[k]) + 1 =< L[k]
         /\ c2[L[k - 1] + Reloads(c[k]) + 1].op = c[k].op
         /\ c2[L[k - 1] + Reloads(c[k]) + 1].jump = c[k].jump
         /\ c2[L[k - 1] + Reloads(c[k]) + 1].orig = c[k].orig
         /\ c[k].def \in spilled => /\ L[k] = L[k - 1] + Reloads(c[k]) + 2
                                    /\ c[k].jump = None
                                    /\ c2[L[k]].op = "save" /\ c2[L[k]].jump = None
                                    /\ c2[L[k]].orig = c[k].orig
         /\ c[k].def \notin spilled => L[k] = L[k - 1] + Reloads(c[k]) + 1
<1> DEFINE m == Reloads(c[k])
           b == L[k - 1]
<1>1. m \in Nat /\ b \in Nat /\ L[k] \in Nat /\ Len(c) \in Nat /\ c \in Seq(Instr)
  <2>1. c \in Seq(Instr) /\ m \in Nat
    BY DEF CodeOK, Expanded
  <2> QED BY <2>1, PlacesOfExpanded, LenProperties
<1>2. c[k] \in Instr
  BY <1>1
<1>3. \A j \in 1..m : c2[b + j].op = "load" /\ c2[b + j].jump = None /\ c2[b + j].orig = c[k].orig
  <2> TAKE j \in 1..m
  <2>1. PICK d, l : c2[b + j] = LoadSlot(d, l, c[k].orig)
    BY DEF Expanded
  <2> QED BY <2>1 DEF LoadSlot
<1>4. /\ c2[b + m + 1].op = c[k].op /\ c2[b + m + 1].jump = c[k].jump
      /\ c2[b + m + 1].orig = c[k].orig
  <2>1. c2[b + m + 1] = Rewritten(c[k], nx[k - 1])
    BY DEF Expanded
  <2> QED BY <1>2, <2>1 DEF Rewritten, RewriteVreg, Instr
<1>5. ASSUME c[k].def \in spilled
      PROVE  /\ L[k] = b + m + 2 /\ c[k].jump = None
             /\ c2[L[k]].op = "save" /\ c2[L[k]].jump = None /\ c2[L[k]].orig = c[k].orig
  <2>1. L[k] = b + m + 2
    BY <1>5 DEF Expanded
  <2>2. PICK d, l, e : c2[b + m + 2] = SaveSlot(d, l, e, c[k].orig)
    BY <1>5 DEF Expanded
  <2>3. c[k].def # None /\ k \in DOMAIN c
    BY <1>1, <1>5
  <2>4. c[k].jump = None
    BY <2>3 DEF CodeOK, InstrOK
  <2>5. /\ c2[L[k]].op = "save" /\ c2[L[k]].jump = None /\ c2[L[k]].orig = c[k].orig
    BY <2>1, <2>2 DEF SaveSlot
  <2> QED BY <2>1, <2>4, <2>5
<1>6. c[k].def \notin spilled => L[k] = b + m + 1
  BY DEF Expanded
<1>7. b + m + 1 =< L[k] /\ \A j \in 1..m : b + j < L[k]
  <2>1. L[k] = b + m + 2 \/ L[k] = b + m + 1
    BY <1>5, <1>6
  <2> QED BY <1>1, <2>1
<1> QED BY <1>3, <1>4, <1>5, <1>6, <1>7

LEMMA OriginsOfExpanded ==
  ASSUME NEW p, NEW U, NEW n, NEW t, NEW c, CodeOK(p, c, U, n, t), NEW c2, NEW slotOf, NEW L, NEW nx,
         Expanded(c, c2, slotOf, L, nx), None \notin spilled, NEW k \in 1..Len(c),
         NEW e \in Nat, L[k - 1] < e, e =< L[k]
  PROVE  c2[e].orig = c[k].orig
<1>1. c \in Seq(Instr) /\ Reloads(c[k]) \in Nat
  BY DEF CodeOK, Expanded
<1>2. L[k - 1] \in Nat /\ L[k] \in Nat
  BY <1>1, PlacesOfExpanded
<1>3. PICK r \in Nat, a \in Nat, l \in Nat : r = Reloads(c[k]) /\ a = L[k - 1] /\ l = L[k]
  BY <1>1, <1>2
<1>4. /\ \A i \in 1..r : c2[a + i].orig = c[k].orig
      /\ c2[a + r + 1].orig = c[k].orig
      /\ c[k].def \in spilled => l = a + r + 2 /\ c2[l].orig = c[k].orig
      /\ c[k].def \notin spilled => l = a + r + 1
  BY <1>3, InstructionsOfExpanded
<1>5. PICK i \in Nat : e = a + i
  <2>1. e - a \in Nat /\ e = a + (e - a)
    BY <1>3
  <2> QED BY <2>1
<1>6. i # 0 /\ a + i =< l
  BY <1>3, <1>5
<1>7. CASE c[k].def \in spilled
  <2>1. i \in 1..r \/ i = r + 1 \/ e = l
    BY <1>4, <1>5, <1>6, <1>7
  <2>2. i = r + 1 => e = a + r + 1
    BY <1>5
  <2> QED BY <1>4, <1>5, <1>7, <2>1, <2>2
<1>8. CASE c[k].def \notin spilled
  <2>1. i \in 1..r \/ i = r + 1
    BY <1>4, <1>5, <1>6, <1>8
  <2>2. i = r + 1 => e = a + r + 1
    BY <1>5
  <2> QED BY <1>4, <1>5, <2>1, <2>2
<1> QED BY <1>7, <1>8

LEMMA StartOfExpanded ==
  ASSUME NEW p, NEW U, NEW n, NEW t, NEW c, CodeOK(p, c, U, n, t), NEW c2, NEW slotOf, NEW L, NEW nx,
         Expanded(c, c2, slotOf, L, nx), None \notin spilled, NEW g \in DOMAIN p
  PROVE  /\ StartIn(c, g) \in 1..Len(c)
         /\ StartIn(c2, g) = L[StartIn(c, g) - 1] + 1
<1>1. /\ c \in Seq(Instr) /\ c2 \in Seq(Instr)
      /\ \E i \in DOMAIN c : c[i].orig = g
  BY DEF CodeOK, Expanded
<1>2. PICK h \in 1..Len(c) : /\ h = StartIn(c, g) /\ c[h].orig = g
                             /\ \A i \in 1..(h - 1) : c[i].orig # g
  <2>1. /\ StartIn(c, g) \in 1..Len(c) /\ c[StartIn(c, g)].orig = g
        /\ \A i \in 1..(StartIn(c, g) - 1) : c[i].orig # g
    BY <1>1, StartOf
  <2> QED BY <2>1
<1>3. /\ \A j \in 1..Len(c) : L[j - 1] \in Nat /\ L[j] \in Nat /\ L[j - 1] < L[j] /\ L[j] =< Len(c2)
      /\ \A e \in 1..Len(c2) : \E j \in 1..Len(c) : L[j - 1] < e /\ e =< L[j]
      /\ \A i, j \in 1..Len(c) : i < j => L[i] =< L[j - 1]
  BY <1>1, PlacesOfExpanded
<1>4. Len(c2) \in Nat /\ Len(c) \in Nat
  BY <1>1, LenProperties
<1>5. PICK a \in Nat, l \in Nat : a = L[h - 1] /\ l = L[h] /\ a < l /\ l =< Len(c2)
  BY <1>3
<1>6. c2[a + 1].orig = g
  <2>1. a + 1 \in Nat /\ a < a + 1 /\ a + 1 =< l
    BY <1>5
  <2> QED BY <1>2, <1>5, <2>1, OriginsOfExpanded
<1>7. ASSUME NEW e \in 1..a PROVE c2[e].orig # g
  <2>1. e \in 1..Len(c2) /\ e \in Nat
    BY <1>4, <1>5
  <2>2. PICK j \in 1..Len(c) : L[j - 1] < e /\ e =< L[j]
    BY <1>3, <2>1
  <2>3. c2[e].orig = c[j].orig
    BY <2>1, <2>2, OriginsOfExpanded
  <2>4. PICK x \in Nat : x = L[j - 1] /\ x < e
    BY <1>3, <2>2
  <2>5. ~(h < j) /\ h # j
    <3>1. h < j => l =< x
      BY <1>3, <1>5, <2>4
    <3>2. h = j => a = x
      BY <1>5, <2>4
    <3> QED BY <1>5, <2>4, <3>1, <3>2
  <2>6. j \in 1..(h - 1)
    <3>1. h \in Nat /\ j \in Nat /\ j >= 1
      BY <1>4
    <3> QED BY <2>5, <3>1
  <2> QED BY <1>2, <2>3, <2>6
<1>8. PICK w \in 1..Len(c2) : w = a + 1
  BY <1>4, <1>5
<1>9. \A e \in 1..(w - 1) : c2[e].orig # g
  BY <1>5, <1>7, <1>8
<1>10. c2[w].orig = g
  BY <1>6, <1>8
<1>11. StartIn(c2, g) = w
  BY <1>1, <1>9, <1>10, StartIsUnique
<1> QED BY <1>2, <1>5, <1>8, <1>11

LEMMA SuccessorsOfExpanded ==
  ASSUME NEW p, NEW U, NEW n, NEW t, NEW c, CodeOK(p, c, U, n, t), NEW c2, NEW slotOf, NEW L, NEW nx,
         Expanded(c, c2, slotOf, L, nx), None \notin spilled,
         NEW k \in 1..Len(c), NEW q, L[k - 1] < q, q =< L[k], q \in Nat, NEW s \in SuccsIn(c2, q)
  PROVE  \/ q < L[k] /\ s = q + 1
         \/ q = L[k] /\ \E j \in SuccsIn(c, k) : s = L[j - 1] + 1
<1>1. c \in Seq(Instr) /\ c2 \in Seq(Instr) /\ Reloads(c[k]) \in Nat /\ Len(c2) = L[Len(c)]
  BY DEF CodeOK, Expanded
<1>2. DOMAIN c = 1..Len(c) /\ DOMAIN c2 = 1..Len(c2)
  BY <1>1
<1>3. L[k - 1] \in Nat /\ L[k] \in Nat /\ L[k - 1] < L[k] /\ L[k] =< Len(c2)
  BY <1>1, PlacesOfExpanded
<1>4. PICK N \in Nat, r \in Nat, a \in Nat, l \in Nat :
        N = Len(c) /\ r = Reloads(c[k]) /\ a = L[k - 1] /\ l = L[k]
  BY <1>1, <1>3, LenProperties
<1>5. CASE s = q + 1
  <2>1. CASE q < L[k]
    BY <1>5, <2>1
  <2>2. CASE q = L[k]
    <3>1. s \in 1..Len(c2) /\ s = l + 1
      BY <1>2, <1>4, <1>5, <2>2 DEF SuccsIn
    <3>2. k # N
      BY <1>1, <1>4, <3>1
    <3>3. k + 1 \in 1..N /\ (k + 1) - 1 = k
      <4>1. k \in 1..N
        BY <1>4
      <4> QED BY <3>2, <4>1
    <3>4. k + 1 \in SuccsIn(c, k)
      BY <1>2, <1>4, <3>3 DEF SuccsIn
    <3> QED BY <1>4, <2>2, <3>1, <3>3, <3>4
  <2> QED BY <1>3, <2>1, <2>2
<1>6. CASE s # q + 1
  <2>1. c2[q].jump # None /\ s = StartIn(c2, c2[q].jump)
    BY <1>6 DEF SuccsIn
  <2>2. /\ \A j \in 1..r : c2[a + j].jump = None
        /\ a + r + 1 =< l /\ c2[a + r + 1].jump = c[k].jump
        /\ c[k].def \in spilled => l = a + r + 2 /\ c2[l].jump = None /\ c[k].jump = None
        /\ c[k].def \notin spilled => l = a + r + 1
    <3>1. /\ \A j \in 1..Reloads(c[k]) : c2[L[k - 1] + j].jump = None
          /\ L[k - 1] + Reloads(c[k]) + 1 =< L[k]
          /\ c2[L[k - 1] + Reloads(c[k]) + 1].jump = c[k].jump
          /\ c[k].def \in spilled => /\ L[k] = L[k - 1] + Reloads(c[k]) + 2
                                     /\ c2[L[k]].jump = None /\ c[k].jump = None
          /\ c[k].def \notin spilled => L[k] = L[k - 1] + Reloads(c[k]) + 1
      BY InstructionsOfExpanded
    <3> QED BY <1>4, <3>1
  <2>3. PICK i \in Nat : q = a + i
    <3>1. q - a \in Nat /\ q = a + (q - a)
      BY <1>4
    <3> QED BY <3>1
  <2>4. i # 0 /\ a + i =< l
    BY <1>4, <2>3
  <2>5. i \notin 1..r
    BY <2>1, <2>2, <2>3
  <2>6. i > r
    BY <2>4, <2>5
  <2>7. i = r + 1
    <3>1. CASE c[k].def \in spilled
      <4>1. q # l
        BY <2>1, <2>2, <3>1
      <4> QED BY <2>2, <2>3, <2>4, <2>6, <3>1, <4>1
    <3>2. CASE c[k].def \notin spilled
      BY <2>2, <2>4, <2>6, <3>2
    <3> QED BY <3>1, <3>2
  <2>8. q = a + r + 1
    BY <2>3, <2>7
  <2>9. c2[q].jump = c[k].jump
    BY <2>2, <2>8
  <2>10. c[k].def \notin spilled
    BY <2>1, <2>2, <2>9
  <2>11. q = L[k]
    BY <1>4, <2>2, <2>8, <2>10
  <2>12. c[k].jump \in DOMAIN p
    BY <1>2, <2>1, <2>9 DEF CodeOK, InstrOK
  <2>13. PICK g \in DOMAIN p : g = c[k].jump
    BY <2>12
  <2>14. StartIn(c, g) \in 1..Len(c) /\ StartIn(c2, g) = L[StartIn(c, g) - 1] + 1
    BY StartOfExpanded
  <2>15. StartIn(c, g) \in SuccsIn(c, k)
    BY <1>2, <2>1, <2>9, <2>13, <2>14 DEF SuccsIn
  <2> QED BY <2>1, <2>9, <2>11, <2>13, <2>14, <2>15
<1> QED BY <1>5, <1>6

-----------------------------------------------------------------------------
\* What the registers and slots hold, on any path: R[k][r] are the registers of
\* the source function whose values r holds before instruction k, M[k][l] those
\* whose values slot l holds.  Carries says that an instruction makes the second
\* claims true when the first are.
Src(p) == Phys \cup Vregs(p)
Carries(p, x, r1, m1, r2, m2) ==
  /\ x.op = "inst" =>
       /\ \A r \in DOMAIN r2 : \A s \in r2[r] :
            \/ r \in DefRegs(x) /\ s \in DefRegs(p[x.orig])
            \/ r \notin DefRegs(x) /\ s \notin DefRegs(p[x.orig]) /\ s \in r1[r]
       /\ \A l \in DOMAIN m2 : \A s \in m2[l] : s \notin DefRegs(p[x.orig]) /\ s \in m1[l]
  /\ x.op = "load" =>
       /\ \A r \in DOMAIN r2 : \A s \in r2[r] : IF r = x.def THEN s \in m1[x.slot] ELSE s \in r1[r]
       /\ \A l \in DOMAIN m2 : \A s \in m2[l] : s \in m1[l]
  /\ x.op = "save" =>
       /\ \A r \in DOMAIN r2 : \A s \in r2[r] : r # x.def /\ s \in r1[r]
       /\ \A l \in DOMAIN m2 : \A s \in m2[l] : IF l = x.slot THEN s \in r1[x.uses[1]] ELSE s \in m1[l]
Reads(p, x, r1) ==
  x.op = "inst" => \A j \in 1..Len(x.uses) : p[x.orig].uses[j] \in r1[x.uses[j]]
Claims(p, c, n, t, R, M) ==
  /\ R \in [DOMAIN c -> [Regs(n) -> SUBSET Src(p)]]
  /\ M \in [DOMAIN c -> [1..t -> SUBSET Src(p)]]
  /\ \A k \in DOMAIN c : Reads(p, c[k], R[k])
  /\ \A k \in DOMAIN c : \A m \in SuccsIn(c, k) : Carries(p, c[k], R[k], M[k], R[m], M[m])

\* An instruction whose spilled vregs are replaced.
LEMMA RewrittenParts ==
  ASSUME NEW x \in Instr, NEW n, NEW y, y = Rewritten(x, n)
  PROVE  /\ y.op = x.op /\ y.clob = x.clob /\ y.slot = x.slot /\ y.jump = x.jump /\ y.orig = x.orig
         /\ y.def = IF x.def \in spilled THEN n + Reloads(x) ELSE x.def
         /\ DOMAIN y.uses = 1..Len(x.uses) /\ Len(y.uses) = Len(x.uses)
         /\ \A j \in 1..Len(x.uses) :
              y.uses[j] = IF x.uses[j] \in spilled THEN TempOf(x, n)[x.uses[j]] ELSE x.uses[j]
<1> DEFINE tmp == TempOf(x, n)
           dm == IF x.def \in spilled THEN [q \in {x.def} |-> n + Reloads(x)] ELSE <<>>
<1>1. y = RewriteVreg(x, tmp, dm)
  BY DEF Rewritten
<1>2. DOMAIN tmp = SpillReads(x)
  BY DEF TempOf
<1>3. x.uses \in Seq(Int) /\ DOMAIN x.uses = 1..Len(x.uses) /\ Len(x.uses) \in Nat
  BY DEF Instr
<1>4. Replaced(dm, x.def) = IF x.def \in spilled THEN n + Reloads(x) ELSE x.def
  <2>1. CASE x.def \in spilled
    BY <2>1 DEF Replaced
  <2>2. CASE x.def \notin spilled
    BY <2>2 DEF Replaced
  <2> QED BY <2>1, <2>2
<1> HIDE DEF tmp, dm
<1>5. ASSUME NEW j \in 1..Len(x.uses)
      PROVE  Replaced(tmp, x.uses[j]) = IF x.uses[j] \in spilled THEN tmp[x.uses[j]] ELSE x.uses[j]
  <2>1. x.uses[j] \in UseRegs(x)
    BY <1>3 DEF UseRegs, ToSet
  <2> QED BY <1>2, <2>1 DEF Replaced, SpillReads
<1>6. /\ y.op = x.op /\ y.clob = x.clob /\ y.slot = x.slot /\ y.jump = x.jump /\ y.orig = x.orig
      /\ y.def = Replaced(dm, x.def)
      /\ y.uses = [j \in 1..Len(x.uses) |-> Replaced(tmp, x.uses[j])]
  BY <1>1, <1>3 DEF RewriteVreg, Instr
<1>7. DOMAIN y.uses = 1..Len(x.uses) /\ Len(y.uses) = Len(x.uses)
  BY <1>3, <1>6
<1> QED BY <1>4, <1>5, <1>6, <1>7 DEF tmp

LEMMA RegistersApart ==
  ASSUME NumRegs \in Nat, NEW n \in Nat, spilled \subseteq 1..(n - 1)
  PROVE  /\ None \notin Regs(n) /\ spilled \subseteq Regs(n) /\ spilled \cap Phys = {}
         /\ \A o \in Nat : o >= n => o \notin Regs(n)
         /\ \A r \in Phys : r \in Int /\ r < 0
         /\ \A v \in spilled : v \in Int /\ v > 0 /\ v < n
<1>1. \A r \in Phys : r \in Int /\ r < 0
  BY DEF Phys
<1>2. \A r \in 1..(n - 1) : r \in Int /\ r > 0 /\ r < n
  OBVIOUS
<1>3. None \notin Regs(n)
  BY <1>1, <1>2 DEF Regs, None
<1>4. spilled \subseteq Regs(n) /\ spilled \cap Phys = {}
  BY <1>1, <1>2 DEF Regs
<1>5. ASSUME NEW o \in Nat, o >= n PROVE o \notin Regs(n)
  BY <1>1, <1>2, <1>5 DEF Regs
<1> QED BY <1>1, <1>2, <1>3, <1>4, <1>5

\* The registers q and slots w hold what r and m do, with the spilled vregs in
\* their slots and those that x reads in their temporaries; they hold no more
\* than that, the result of x in its temporary.
HoldBefore(x, nn, n, t, r, m, q, w) ==
  /\ \A e \in Regs(n) \ spilled : \A s \in r[e] : s \in q[e]
  /\ \A v \in SpillReads(x) : \A s \in r[v] : s \in q[TempOf(x, nn)[v]]
  /\ \A l \in 1..t : \A s \in m[l] : s \in w[l]
  /\ \A v \in spilled : \A s \in r[v] : s \in w[SlotOf(t)[v]]
HoldAfter(x, nn, n, t, r, m, q, w) ==
  /\ \A e \in DOMAIN q : \A s \in q[e] :
       \/ e \in Regs(n) \ spilled /\ s \in r[e]
       \/ x.def \in spilled /\ e = nn + Reloads(x) /\ s \in r[x.def]
  /\ \A l \in DOMAIN w : \A s \in w[l] :
       \/ l \in 1..t /\ s \in m[l]
       \/ \E v \in spilled : v # x.def /\ l = SlotOf(t)[v] /\ s \in r[v]

\* Such an instruction carries what it carried, where the spilled vregs it reads
\* are in their temporaries and all spilled vregs are in their slots before it.
LEMMA RewrittenCarries ==
  ASSUME NumRegs \in Nat,
         NEW p, NEW n \in Nat, NEW t \in Nat, NEW U, NEW x \in Instr, InstrOK(p, x, U, n, t),
         spilled \subseteq 1..(n - 1), NEW nn \in Nat, n =< nn,
         \A v \in spilled : SlotOf(t)[v] \notin 1..t,
         NEW r1, NEW m1, NEW r2, NEW m2, NEW q1, NEW w1, NEW q2, NEW w2,
         Carries(p, x, r1, m1, r2, m2), DOMAIN r2 = Regs(n), DOMAIN m2 = 1..t,
         x.op = "save" => x.uses[1] \in Regs(n),
         HoldBefore(x, nn, n, t, r1, m1, q1, w1), HoldAfter(x, nn, n, t, r2, m2, q2, w2),
         NEW y, y = Rewritten(x, nn)
  PROVE  Carries(p, y, q1, w1, q2, w2)
<1>1. /\ y.op = x.op /\ y.clob = x.clob /\ y.slot = x.slot /\ y.jump = x.jump /\ y.orig = x.orig
      /\ y.def = IF x.def \in spilled THEN nn + Reloads(x) ELSE x.def
      /\ \A j \in 1..Len(x.uses) :
              y.uses[j] = IF x.uses[j] \in spilled THEN TempOf(x, nn)[x.uses[j]] ELSE x.uses[j]
  BY RewrittenParts
<1>2. TempsOK(x, nn)
  BY TempsAreFresh
<1>3. PICK o \in Nat : o = nn + Reloads(x) /\ o >= n
  BY <1>2 DEF TempsOK, Reloads
<1>4. o \notin Regs(n) /\ spilled \subseteq Regs(n) /\ None \notin Regs(n) /\ spilled \cap Phys = {}
  BY <1>3, RegistersApart
<1>5. x.clob \subseteq Phys /\ Phys \subseteq Regs(n)
  BY DEF Instr, Regs
<1>6. /\ \A r \in Regs(n) \ spilled : \A s \in r1[r] : s \in q1[r]
      /\ \A v \in SpillReads(x) : \A s \in r1[v] : s \in q1[TempOf(x, nn)[v]]
      /\ \A l \in 1..t : \A s \in m1[l] : s \in w1[l]
      /\ \A v \in spilled : \A s \in r1[v] : s \in w1[SlotOf(t)[v]]
  BY DEF HoldBefore
<1>7. /\ \A r \in DOMAIN q2 : \A s \in q2[r] :
           \/ r \in Regs(n) \ spilled /\ s \in r2[r]
           \/ x.def \in spilled /\ r = nn + Reloads(x) /\ s \in r2[x.def]
      /\ \A l \in DOMAIN w2 : \A s \in w2[l] :
           \/ l \in 1..t /\ s \in m2[l]
           \/ \E v \in spilled : v # x.def /\ l = SlotOf(t)[v] /\ s \in r2[v]
  BY DEF HoldAfter
<1>8. CASE x.op = "inst"
  <2>1. /\ \A r \in Regs(n) : \A s \in r2[r] :
            \/ r \in DefRegs(x) /\ s \in DefRegs(p[x.orig])
            \/ r \notin DefRegs(x) /\ s \notin DefRegs(p[x.orig]) /\ s \in r1[r]
        /\ \A l \in 1..t : \A s \in m2[l] : s \notin DefRegs(p[x.orig]) /\ s \in m1[l]
    BY <1>8 DEF Carries
  <2>2. \A r \in Regs(n) \ spilled : r \in DefRegs(y) <=> r \in DefRegs(x)
    BY <1>1, <1>3, <1>4 DEF DefRegs
  <2>3. x.def \in spilled => x.def \in DefRegs(x) /\ o \in DefRegs(y)
    <3>1. x.def \in spilled => x.def \in Int /\ x.def > 0 /\ x.def < n
      BY RegistersApart
    <3>2. x.def \in spilled => x.def # 0 /\ o # 0 /\ y.def = o
      BY <1>1, <1>3, <3>1
    <3> QED BY <3>2 DEF DefRegs, None
  <2>4. \A v \in spilled : v # x.def => v \notin DefRegs(x)
    BY <1>4, <1>5 DEF DefRegs
  <2>5. ASSUME NEW r \in DOMAIN q2, NEW s \in q2[r]
        PROVE  \/ r \in DefRegs(y) /\ s \in DefRegs(p[x.orig])
               \/ r \notin DefRegs(y) /\ s \notin DefRegs(p[x.orig]) /\ s \in q1[r]
    <3>1. CASE r \in Regs(n) \ spilled /\ s \in r2[r]
      BY <1>6, <1>7, <2>1, <2>2, <3>1
    <3>2. CASE x.def \in spilled /\ r = o /\ s \in r2[x.def]
      BY <1>4, <1>6, <2>1, <2>3, <3>2
    <3> QED BY <1>3, <1>7, <3>1, <3>2
  <2>6. ASSUME NEW l \in DOMAIN w2, NEW s \in w2[l]
        PROVE  s \notin DefRegs(p[x.orig]) /\ s \in w1[l]
    <3>1. CASE l \in 1..t /\ s \in m2[l]
      BY <1>6, <2>1, <3>1
    <3>2. ASSUME NEW v \in spilled, v # x.def, l = SlotOf(t)[v], s \in r2[v]
          PROVE  s \notin DefRegs(p[x.orig]) /\ s \in w1[l]
      BY <1>4, <1>6, <2>1, <2>4, <3>2
    <3> QED BY <1>3, <1>7, <3>1, <3>2
  <2> QED BY <1>1, <1>8, <2>5, <2>6 DEF Carries
<1>9. CASE x.op = "load"
  <2>1. /\ \A r \in Regs(n) : \A s \in r2[r] : IF r = x.def THEN s \in m1[x.slot] ELSE s \in r1[r]
        /\ \A l \in 1..t : \A s \in m2[l] : s \in m1[l]
    BY <1>9 DEF Carries
  <2>2. x.slot \in 1..t /\ \A r \in Regs(n) \ spilled : r = y.def <=> r = x.def
    BY <1>1, <1>3, <1>4, <1>9 DEF InstrOK
  <2>3. ASSUME NEW r \in DOMAIN q2, NEW s \in q2[r]
        PROVE  IF r = y.def THEN s \in w1[x.slot] ELSE s \in q1[r]
    <3>1. CASE r \in Regs(n) \ spilled /\ s \in r2[r]
      BY <1>6, <1>7, <2>1, <2>2, <3>1
    <3>2. CASE x.def \in spilled /\ r = o /\ s \in r2[x.def]
      BY <1>1, <1>3, <1>4, <1>6, <2>1, <2>2, <3>2
    <3> QED BY <1>3, <1>7, <3>1, <3>2
  <2>4. ASSUME NEW l \in DOMAIN w2, NEW s \in w2[l] PROVE s \in w1[l]
    <3>1. CASE l \in 1..t /\ s \in m2[l]
      BY <1>6, <2>1, <3>1
    <3>2. ASSUME NEW v \in spilled, v # x.def, l = SlotOf(t)[v], s \in r2[v] PROVE s \in w1[l]
      BY <1>4, <1>6, <2>1, <3>2
    <3> QED BY <1>3, <1>7, <3>1, <3>2
  <2> QED BY <1>1, <1>9, <2>3, <2>4 DEF Carries
<1>10. CASE x.op = "save"
  <2>1. /\ \A r \in Regs(n) : \A s \in r2[r] : r # x.def /\ s \in r1[r]
        /\ \A l \in 1..t : \A s \in m2[l] : IF l = x.slot THEN s \in r1[x.uses[1]] ELSE s \in m1[l]
    BY <1>10 DEF Carries
  <2>2. x.slot \in 1..t /\ 1 \in 1..Len(x.uses) /\ x.uses[1] \in Regs(n)
    BY <1>10 DEF InstrOK
  <2>3. \A s \in r1[x.uses[1]] : s \in q1[y.uses[1]]
    <3>1. CASE x.uses[1] \in spilled
      <4>1. x.uses[1] \in SpillReads(x)
        BY <2>2, <3>1 DEF SpillReads, UseRegs, ToSet, Instr
      <4> QED BY <1>1, <1>6, <2>2, <3>1, <4>1
    <3>2. CASE x.uses[1] \notin spilled
      BY <1>1, <1>6, <2>2, <3>2
    <3> QED BY <1>3, <1>7, <3>1, <3>2
  <2>4. ASSUME NEW r \in DOMAIN q2, NEW s \in q2[r] PROVE r # y.def /\ s \in q1[r]
    <3>1. CASE r \in Regs(n) \ spilled /\ s \in r2[r]
      <4>1. r # x.def /\ s \in r1[r] /\ r # o
        BY <1>4, <1>6, <2>1, <3>1
      <4>2. y.def = o \/ y.def = x.def
        BY <1>1, <1>3
      <4> QED BY <1>6, <3>1, <4>1, <4>2
    <3>2. ~(x.def \in spilled /\ s \in r2[x.def])
      BY <1>4, <1>6, <2>1
    <3> QED BY <1>3, <1>7, <3>1, <3>2
  <2>5. ASSUME NEW l \in DOMAIN w2, NEW s \in w2[l]
        PROVE  IF l = x.slot THEN s \in q1[y.uses[1]] ELSE s \in w1[l]
    <3>1. CASE l \in 1..t /\ s \in m2[l]
      BY <1>6, <2>1, <2>3, <3>1
    <3>2. ASSUME NEW v \in spilled, v # x.def, l = SlotOf(t)[v], s \in r2[v]
          PROVE  l # x.slot /\ s \in w1[l]
      BY <1>4, <1>6, <2>1, <2>2, <3>2
    <3> QED BY <1>3, <1>7, <3>1, <3>2
  <2> QED BY <1>1, <1>10, <2>4, <2>5 DEF Carries
<1>11. x.op \in {"inst", "load", "save"}
  BY DEF Instr
<1> QED BY <1>8, <1>9, <1>10, <1>11

\* What is held inside the block of an instruction k: before the instruction, what
\* R[k] and M[k] say, with the spilled vregs in their slots and those reloaded by
\* now in their temporaries; before the save of its result, what R[k + 1] and
\* M[k + 1] say, with the result in its temporary.
HeldReg(c, n, nx, R, k, i, r, s) ==
  IF i =< Reloads(c[k]) + 1
  THEN \/ r \in Regs(n) \ spilled /\ s \in R[k][r]
       \/ \E v \in SpillReads(c[k]) : /\ r = TempOf(c[k], nx[k - 1])[v]
                                      /\ r < nx[k - 1] + i - 1 /\ s \in R[k][v]
  ELSE /\ k < Len(c)
       /\ \/ r \in Regs(n) \ spilled /\ s \in R[k + 1][r]
          \/ r = nx[k - 1] + Reloads(c[k]) /\ s \in R[k + 1][c[k].def]
HeldSlot(c, t, R, M, k, i, l, s) ==
  IF i =< Reloads(c[k]) + 1
  THEN \/ l \in 1..t /\ s \in M[k][l]
       \/ \E v \in spilled : l = SlotOf(t)[v] /\ s \in R[k][v]
  ELSE /\ k < Len(c)
       /\ \/ l \in 1..t /\ s \in M[k + 1][l]
          \/ \E v \in spilled : v # c[k].def /\ l = SlotOf(t)[v] /\ s \in R[k + 1][v]
RegsAt(p, c, n, n2, nx, R, k, i) ==
  [r \in Regs(n2) |-> {s \in Src(p) : HeldReg(c, n, nx, R, k, i, r, s)}]
SlotsAt(p, c, t, t2, R, M, k, i) ==
  [l \in 1..t2 |-> {s \in Src(p) : HeldSlot(c, t, R, M, k, i, l, s)}]

\* A spilling of the code c, and the counters and registers it gives out.
Spilling(p, U, n, t, c, c2, L, nx, n2, t2, R, M) ==
  /\ NumRegs \in Nat /\ n \in Nat /\ t \in Nat /\ spilled \subseteq 1..(n - 1)
  /\ U \subseteq Regs(n) /\ CodeOK(p, c, U, n, t) /\ Claims(p, c, n, t, R, M)
  /\ Expanded(c, c2, SlotOf(t), L, nx) /\ nx[0] = n /\ n2 = nx[Len(c)]
  /\ t2 = t + Cardinality(spilled)

LEMMA SpillNumbers ==
  ASSUME NEW p, NEW U, NEW n, NEW t, NEW c, NEW c2, NEW L, NEW nx, NEW n2, NEW t2, NEW R, NEW M,
         Spilling(p, U, n, t, c, c2, L, nx, n2, t2, R, M)
  PROVE  /\ NumRegs \in Nat /\ n \in Nat /\ t \in Nat /\ spilled \subseteq 1..(n - 1)
         /\ SlotsOK(t) /\ t2 \in Nat /\ t =< t2 /\ n2 \in Nat /\ n =< n2
         /\ Regs(n) \subseteq Regs(n2) /\ 1..t \subseteq 1..t2
         /\ \A v \in spilled : SlotOf(t)[v] \in 1..t2 /\ SlotOf(t)[v] \notin 1..t
         /\ \A k \in 1..Len(c) :
              /\ c[k] \in Instr /\ InstrOK(p, c[k], U, n, t)
              /\ Reloads(c[k]) \in Nat /\ nx[k - 1] \in Nat /\ n =< nx[k - 1]
              /\ nx[k - 1] + Reloads(c[k]) =< n2
              /\ TempsOK(c[k], nx[k - 1])
              /\ \A v \in SpillReads(c[k]) : TempOf(c[k], nx[k - 1])[v] \in n..(n2 - 1)
              /\ c[k].def \in spilled => nx[k - 1] + Reloads(c[k]) + 2 =< n2
<1>0. /\ NumRegs \in Nat /\ n \in Nat /\ t \in Nat /\ spilled \subseteq 1..(n - 1)
      /\ CodeOK(p, c, U, n, t) /\ Expanded(c, c2, SlotOf(t), L, nx) /\ nx[0] = n
      /\ n2 = nx[Len(c)] /\ t2 = t + Cardinality(spilled)
  BY DEF Spilling
<1>1. c \in Seq(Instr) /\ DOMAIN c = 1..Len(c) /\ Len(c) \in Nat
  BY <1>0 DEF CodeOK
<1>2. SlotsOK(t)
  <2>1. IsFiniteSet(1..(n - 1)) /\ spilled \subseteq Int
    BY <1>0, FS_Interval
  <2>2. IsFiniteSet(spilled)
    <3>1. spilled \in SUBSET (1..(n - 1))
      BY <1>0
    <3> QED BY <2>1, <3>1, FS_Subset
  <2>3. spilled \subseteq Int
    BY <1>0
  <2> QED BY <1>0, <2>2, <2>3, SlotsAreFresh
<1>3. t2 \in Nat /\ t =< t2 /\ 1..t \subseteq 1..t2
  BY <1>0, <1>2 DEF SlotsOK
<1>4. \A v \in spilled : SlotOf(t)[v] \in 1..t2 /\ SlotOf(t)[v] \notin 1..t
  BY <1>0, <1>2 DEF SlotsOK
<1>5. n2 \in Nat /\ n =< n2
  <2>1. Len(c) \in 0..Len(c) /\ nx[Len(c)] \in Nat
    BY <1>0, <1>1 DEF Expanded
  <2>2. CASE Len(c) = 0
    BY <1>0, <2>1, <2>2
  <2>3. CASE Len(c) # 0
    <3>1. 1 \in 1..Len(c) /\ nx[0] =< nx[1 - 1] /\ nx[1] =< nx[Len(c)]
      BY <1>0, <1>1, <2>3, PlacesOfExpanded
    <3>2. Reloads(c[1]) \in Nat /\ (nx[1] = nx[1 - 1] + Reloads(c[1]) + 2 \/ nx[1] = nx[1 - 1] + Reloads(c[1]))
      BY <1>0, <3>1 DEF Expanded
    <3>3. nx[1 - 1] = n /\ nx[1] \in Nat
      <4>1. 1 - 1 = 0 /\ 1 \in 0..Len(c)
        BY <1>1, <3>1
      <4>2. nx \in [0..Len(c) -> Nat]
        BY <1>0 DEF Expanded
      <4> QED BY <1>0, <4>1, <4>2
    <3> QED BY <1>0, <2>1, <3>1, <3>2, <3>3
  <2> QED BY <2>2, <2>3
<1>6. ASSUME NEW k \in 1..Len(c)
      PROVE  /\ c[k] \in Instr /\ InstrOK(p, c[k], U, n, t)
             /\ Reloads(c[k]) \in Nat /\ nx[k - 1] \in Nat /\ n =< nx[k - 1]
             /\ nx[k - 1] + Reloads(c[k]) =< n2
             /\ TempsOK(c[k], nx[k - 1])
             /\ \A v \in SpillReads(c[k]) : TempOf(c[k], nx[k - 1])[v] \in n..(n2 - 1)
             /\ c[k].def \in spilled => nx[k - 1] + Reloads(c[k]) + 2 =< n2
  <2>1. c[k] \in Instr /\ InstrOK(p, c[k], U, n, t) /\ Reloads(c[k]) \in Nat
    <3>1. c[k] \in Instr /\ k \in DOMAIN c
      BY <1>1
    <3>2. InstrOK(p, c[k], U, n, t)
      BY <1>0, <3>1 DEF CodeOK
    <3>3. Reloads(c[k]) \in Nat
      BY <1>0 DEF Expanded
    <3> QED BY <3>1, <3>2, <3>3
  <2>2. nx[k - 1] \in Nat /\ nx[k] \in Nat /\ n =< nx[k - 1] /\ nx[k] =< n2
    BY <1>0, <1>1, PlacesOfExpanded
  <2>3. IF c[k].def \in spilled THEN nx[k] = nx[k - 1] + Reloads(c[k]) + 2
        ELSE nx[k] = nx[k - 1] + Reloads(c[k])
    BY <1>0 DEF Expanded
  <2>4. PICK a \in Nat, m \in Nat : a = nx[k - 1] /\ m = Reloads(c[k])
    BY <2>1, <2>2
  <2>5. a + m =< n2 /\ (c[k].def \in spilled => a + m + 2 =< n2)
    BY <1>5, <2>2, <2>3, <2>4
  <2>6. TempsOK(c[k], a)
    BY <2>1, TempsAreFresh
  <2>7. ASSUME NEW v \in SpillReads(c[k]) PROVE TempOf(c[k], a)[v] \in n..(n2 - 1)
    <3>1. TempOf(c[k], a)[v] \in a..(a + m - 1)
      BY <2>4, <2>6 DEF TempsOK, Reloads
    <3>2. PICK e \in Int : e = TempOf(c[k], a)[v]
      BY <3>1
    <3>3. n =< a /\ a =< e /\ e =< a + m - 1 /\ a + m =< n2
      BY <1>0, <2>2, <2>4, <2>5, <3>1, <3>2
    <3>4. e \in n..(n2 - 1)
      BY <1>0, <1>5, <3>3
    <3> QED BY <3>2, <3>4
  <2> QED BY <1>0, <2>1, <2>2, <2>4, <2>5, <2>6, <2>7
<1>7. Regs(n) \subseteq Regs(n2)
  BY <1>0, <1>5 DEF Regs
<1> QED BY <1>0, <1>2, <1>3, <1>4, <1>5, <1>6, <1>7

HeldAt(n, t, c, nx, R, M, k, i, q, w) ==
  /\ \A r \in Regs(n) \ spilled : \A s \in R[k][r] : s \in q[r]
  /\ \A v \in SpillReads(c[k]) : TempOf(c[k], nx[k - 1])[v] < nx[k - 1] + i - 1
       => \A s \in R[k][v] : s \in q[TempOf(c[k], nx[k - 1])[v]]
  /\ \A l \in 1..t : \A s \in M[k][l] : s \in w[l]
  /\ \A v \in spilled : \A s \in R[k][v] : s \in w[SlotOf(t)[v]]
  /\ \A r \in DOMAIN q : \A s \in q[r] :
       \/ r \in Regs(n) \ spilled /\ s \in R[k][r]
       \/ \E v \in SpillReads(c[k]) : /\ r = TempOf(c[k], nx[k - 1])[v]
                                      /\ r < nx[k - 1] + i - 1 /\ s \in R[k][v]
  /\ \A l \in DOMAIN w : \A s \in w[l] :
       \/ l \in 1..t /\ s \in M[k][l]
       \/ \E v \in spilled : l = SlotOf(t)[v] /\ s \in R[k][v]

LEMMA HeldBefore ==
  ASSUME NEW p, NEW U, NEW n, NEW t, NEW c, NEW c2, NEW L, NEW nx, NEW n2, NEW t2, NEW R, NEW M,
         Spilling(p, U, n, t, c, c2, L, nx, n2, t2, R, M),
         NEW k \in 1..Len(c), NEW i \in Nat, i =< Reloads(c[k]) + 1,
         NEW q, q = RegsAt(p, c, n, n2, nx, R, k, i), NEW w, w = SlotsAt(p, c, t, t2, R, M, k, i)
  PROVE  HeldAt(n, t, c, nx, R, M, k, i, q, w)
<1>1. /\ Regs(n) \subseteq Regs(n2) /\ 1..t \subseteq 1..t2
      /\ \A v \in spilled : SlotOf(t)[v] \in 1..t2
      /\ \A v \in SpillReads(c[k]) : TempOf(c[k], nx[k - 1])[v] \in n..(n2 - 1)
  BY SpillNumbers
<1>2. n \in Nat /\ spilled \subseteq Regs(n)
  BY RegistersApart DEF Spilling
<1>3. \A v \in SpillReads(c[k]) : TempOf(c[k], nx[k - 1])[v] \in Regs(n2) /\ v \in Regs(n)
  <2>1. NumRegs \in Nat /\ spilled \subseteq 1..(n - 1)
    BY DEF Spilling
  <2>2. \A e \in n..(n2 - 1) : e \in 1..(n2 - 1) \/ e = 0
    BY <1>2
  <2>3. ASSUME NEW v \in SpillReads(c[k]) PROVE n > 0
    <3>1. v \in spilled
      BY DEF SpillReads
    <3>2. v \in Int /\ v > 0 /\ v < n
      BY <1>2, <2>1, <3>1, RegistersApart
    <3> QED BY <1>2, <3>2
  <2>4. ASSUME NEW v \in SpillReads(c[k]) PROVE TempOf(c[k], nx[k - 1])[v] \in 1..(n2 - 1)
    <3>1. PICK e \in n..(n2 - 1) : e = TempOf(c[k], nx[k - 1])[v]
      BY <1>1
    <3> QED BY <1>2, <2>2, <2>3, <3>1
  <2> QED BY <1>2, <2>4 DEF SpillReads, Regs
<1>4. /\ \A r \in Regs(n) : \A s \in R[k][r] : s \in Src(p)
      /\ \A l \in 1..t : \A s \in M[k][l] : s \in Src(p)
  <2>1. k \in DOMAIN c
    BY DEF Spilling, CodeOK
  <2> QED BY <2>1 DEF Spilling, Claims
<1>5. /\ DOMAIN q = Regs(n2)
      /\ \A r \in Regs(n2), s \in Src(p) : s \in q[r] <=> HeldReg(c, n, nx, R, k, i, r, s)
      /\ \A r \in Regs(n2) : \A s \in q[r] : s \in Src(p)
  BY DEF RegsAt
<1>6. /\ DOMAIN w = 1..t2
      /\ \A l \in 1..t2, s \in Src(p) : s \in w[l] <=> HeldSlot(c, t, R, M, k, i, l, s)
      /\ \A l \in 1..t2 : \A s \in w[l] : s \in Src(p)
  BY DEF SlotsAt
<1>7. \A r, s : HeldReg(c, n, nx, R, k, i, r, s)
        <=> \/ r \in Regs(n) \ spilled /\ s \in R[k][r]
            \/ \E v \in SpillReads(c[k]) : /\ r = TempOf(c[k], nx[k - 1])[v]
                                           /\ r < nx[k - 1] + i - 1 /\ s \in R[k][v]
  BY DEF HeldReg
<1>8. \A l, s : HeldSlot(c, t, R, M, k, i, l, s)
        <=> \/ l \in 1..t /\ s \in M[k][l]
            \/ \E v \in spilled : l = SlotOf(t)[v] /\ s \in R[k][v]
  BY DEF HeldSlot
<1>9. \A r \in Regs(n) \ spilled : \A s \in R[k][r] : s \in q[r]
  BY <1>1, <1>4, <1>5, <1>7
<1>10. ASSUME NEW v \in SpillReads(c[k]), TempOf(c[k], nx[k - 1])[v] < nx[k - 1] + i - 1
       PROVE  \A s \in R[k][v] : s \in q[TempOf(c[k], nx[k - 1])[v]]
  BY <1>3, <1>4, <1>5, <1>7, <1>10
<1>11. \A l \in 1..t : \A s \in M[k][l] : s \in w[l]
  BY <1>1, <1>4, <1>6, <1>8
<1>12. \A v \in spilled : \A s \in R[k][v] : s \in w[SlotOf(t)[v]]
  BY <1>1, <1>2, <1>4, <1>6, <1>8
<1>13. \A r \in DOMAIN q : \A s \in q[r] :
              \/ r \in Regs(n) \ spilled /\ s \in R[k][r]
              \/ \E v \in SpillReads(c[k]) : /\ r = TempOf(c[k], nx[k - 1])[v]
                                             /\ r < nx[k - 1] + i - 1 /\ s \in R[k][v]
  BY <1>5, <1>7
<1>14. \A l \in DOMAIN w : \A s \in w[l] :
              \/ l \in 1..t /\ s \in M[k][l]
              \/ \E v \in spilled : l = SlotOf(t)[v] /\ s \in R[k][v]
  BY <1>6, <1>8
<1> QED BY <1>9, <1>10, <1>11, <1>12, <1>13, <1>14 DEF HeldAt

HoldResult(n, t, r, m, d, o, q, w) ==
  /\ \A e \in Regs(n) \ spilled : \A s \in r[e] : s \in q[e]
  /\ \A s \in r[d] : s \in q[o]
  /\ \A l \in 1..t : \A s \in m[l] : s \in w[l]
  /\ \A v \in spilled : v # d => \A s \in r[v] : s \in w[SlotOf(t)[v]]

LEMMA HeldAfter ==
  ASSUME NEW p, NEW U, NEW n, NEW t, NEW c, NEW c2, NEW L, NEW nx, NEW n2, NEW t2, NEW R, NEW M,
         Spilling(p, U, n, t, c, c2, L, nx, n2, t2, R, M),
         NEW k \in 1..Len(c), c[k].def \in spilled, NEW i \in Nat, i = Reloads(c[k]) + 2,
         NEW q, q = RegsAt(p, c, n, n2, nx, R, k, i), NEW w, w = SlotsAt(p, c, t, t2, R, M, k, i)
  PROVE  /\ k < Len(c) => HoldResult(n, t, R[k + 1], M[k + 1], c[k].def,
                                     nx[k - 1] + Reloads(c[k]), q, w)
         /\ \A r \in DOMAIN q : \A s \in q[r] :
              /\ k < Len(c)
              /\ \/ r \in Regs(n) \ spilled /\ s \in R[k + 1][r]
                 \/ r = nx[k - 1] + Reloads(c[k]) /\ s \in R[k + 1][c[k].def]
         /\ \A l \in DOMAIN w : \A s \in w[l] :
              /\ k < Len(c)
              /\ \/ l \in 1..t /\ s \in M[k + 1][l]
                 \/ \E v \in spilled : v # c[k].def /\ l = SlotOf(t)[v] /\ s \in R[k + 1][v]
<1>1. /\ Regs(n) \subseteq Regs(n2) /\ 1..t \subseteq 1..t2 /\ n =< n2 /\ n2 \in Nat
      /\ \A v \in spilled : SlotOf(t)[v] \in 1..t2
      /\ nx[k - 1] \in Nat /\ Reloads(c[k]) \in Nat /\ n =< nx[k - 1]
      /\ nx[k - 1] + Reloads(c[k]) + 2 =< n2
  BY SpillNumbers
<1>2. n \in Nat /\ spilled \subseteq Regs(n) /\ n > 0
  <2>1. n \in Nat /\ spilled \subseteq Regs(n)
    BY RegistersApart DEF Spilling
  <2>2. c[k].def \in Int /\ c[k].def > 0 /\ c[k].def < n
    BY <2>1, RegistersApart DEF Spilling
  <2> QED BY <2>1, <2>2
<1>3. nx[k - 1] + Reloads(c[k]) \in Regs(n2)
  BY <1>1, <1>2 DEF Regs
<1>4. k < Len(c) => /\ \A r \in Regs(n) : \A s \in R[k + 1][r] : s \in Src(p)
                    /\ \A l \in 1..t : \A s \in M[k + 1][l] : s \in Src(p)
  <2>1. DOMAIN c = 1..Len(c) /\ Len(c) \in Nat
    BY DEF Spilling, CodeOK
  <2>2. k < Len(c) => k + 1 \in DOMAIN c
    BY <2>1
  <2> QED BY <2>2 DEF Spilling, Claims
<1>5. /\ DOMAIN q = Regs(n2)
      /\ \A r \in Regs(n2), s \in Src(p) : s \in q[r] <=> HeldReg(c, n, nx, R, k, i, r, s)
      /\ \A r \in Regs(n2) : \A s \in q[r] : s \in Src(p)
  BY DEF RegsAt
<1>6. /\ DOMAIN w = 1..t2
      /\ \A l \in 1..t2, s \in Src(p) : s \in w[l] <=> HeldSlot(c, t, R, M, k, i, l, s)
      /\ \A l \in 1..t2 : \A s \in w[l] : s \in Src(p)
  BY DEF SlotsAt
<1>7. ~(i =< Reloads(c[k]) + 1)
  BY <1>1
<1>8. \A r, s : HeldReg(c, n, nx, R, k, i, r, s)
        <=> /\ k < Len(c)
            /\ \/ r \in Regs(n) \ spilled /\ s \in R[k + 1][r]
               \/ r = nx[k - 1] + Reloads(c[k]) /\ s \in R[k + 1][c[k].def]
  BY <1>7 DEF HeldReg
<1>9. \A l, s : HeldSlot(c, t, R, M, k, i, l, s)
        <=> /\ k < Len(c)
            /\ \/ l \in 1..t /\ s \in M[k + 1][l]
               \/ \E v \in spilled : v # c[k].def /\ l = SlotOf(t)[v] /\ s \in R[k + 1][v]
  BY <1>7 DEF HeldSlot
<1>10. ASSUME k < Len(c)
       PROVE  /\ \A r \in Regs(n) \ spilled : \A s \in R[k + 1][r] : s \in q[r]
              /\ \A s \in R[k + 1][c[k].def] : s \in q[nx[k - 1] + Reloads(c[k])]
  BY <1>1, <1>2, <1>3, <1>4, <1>5, <1>8, <1>10
<1>11. ASSUME k < Len(c)
       PROVE  /\ \A l \in 1..t : \A s \in M[k + 1][l] : s \in w[l]
              /\ \A v \in spilled : v # c[k].def => \A s \in R[k + 1][v] : s \in w[SlotOf(t)[v]]
  BY <1>1, <1>2, <1>4, <1>6, <1>9, <1>11
<1>14. k < Len(c) => HoldResult(n, t, R[k + 1], M[k + 1], c[k].def,
                                nx[k - 1] + Reloads(c[k]), q, w)
  BY <1>10, <1>11 DEF HoldResult
<1>12. \A r \in DOMAIN q : \A s \in q[r] : HeldReg(c, n, nx, R, k, i, r, s)
  BY <1>5
<1>13. \A l \in DOMAIN w : \A s \in w[l] : HeldSlot(c, t, R, M, k, i, l, s)
  BY <1>6
<1> QED BY <1>8, <1>9, <1>12, <1>13, <1>14

\* Each instruction of a block carries what is held before it: a reload, ...
LEMMA ReloadCarries ==
  ASSUME NEW p, NEW U, NEW n, NEW t, NEW c, NEW c2, NEW L, NEW nx, NEW n2, NEW t2, NEW R, NEW M,
         Spilling(p, U, n, t, c, c2, L, nx, n2, t2, R, M),
         NEW k \in 1..Len(c), NEW i \in 1..Reloads(c[k]),
         NEW q1, q1 = RegsAt(p, c, n, n2, nx, R, k, i), NEW w1, w1 = SlotsAt(p, c, t, t2, R, M, k, i),
         NEW q2, q2 = RegsAt(p, c, n, n2, nx, R, k, i + 1),
         NEW w2, w2 = SlotsAt(p, c, t, t2, R, M, k, i + 1)
  PROVE  Carries(p, c2[L[k - 1] + i], q1, w1, q2, w2)
<1>1. /\ nx[k - 1] \in Nat /\ Reloads(c[k]) \in Nat /\ n =< nx[k - 1] /\ TempsOK(c[k], nx[k - 1])
      /\ n \in Nat
  BY SpillNumbers
<1>2. PICK v \in SpillReads(c[k]) :
        /\ TempOf(c[k], nx[k - 1])[v] = nx[k - 1] + i - 1
        /\ c2[L[k - 1] + i] = LoadSlot(nx[k - 1] + i - 1, SlotOf(t)[v], c[k].orig)
  BY DEF Spilling, Expanded
<1>3. PICK a \in Nat, T \in {TempOf(c[k], nx[k - 1])} :
           a = nx[k - 1] /\ T = TempOf(c[k], nx[k - 1])
  BY <1>1
<1>4. PICK d \in Nat : d = a + i - 1 /\ d >= n
  BY <1>1, <1>3
<1>5. \A e \in SpillReads(c[k]) : T[e] \in Int /\ (T[e] < a + (i + 1) - 1 => T[e] < a + i - 1 \/ T[e] = d)
  <2>1. \A e \in SpillReads(c[k]) : T[e] \in Int
    BY <1>1, <1>3 DEF TempsOK
  <2> QED BY <1>4, <2>1
<1>6. d \notin Regs(n)
  BY <1>1, <1>4, RegistersApart DEF Spilling
<1>7. i \in Nat /\ i =< Reloads(c[k]) + 1 /\ i + 1 \in Nat /\ i + 1 =< Reloads(c[k]) + 1
  BY <1>1
<1>8. /\ \A r \in Regs(n) \ spilled : \A s \in R[k][r] : s \in q1[r]
      /\ \A e \in SpillReads(c[k]) : T[e] < a + i - 1 => \A s \in R[k][e] : s \in q1[T[e]]
      /\ \A l \in 1..t : \A s \in M[k][l] : s \in w1[l]
      /\ \A e \in spilled : \A s \in R[k][e] : s \in w1[SlotOf(t)[e]]
  <2>1. HeldAt(n, t, c, nx, R, M, k, i, q1, w1)
    BY <1>7, HeldBefore
  <2> QED BY <1>3, <2>1 DEF HeldAt
<1>9. /\ \A r \in DOMAIN q2 : \A s \in q2[r] :
              \/ r \in Regs(n) \ spilled /\ s \in R[k][r]
              \/ \E e \in SpillReads(c[k]) : r = T[e] /\ r < a + (i + 1) - 1 /\ s \in R[k][e]
      /\ \A l \in DOMAIN w2 : \A s \in w2[l] :
              \/ l \in 1..t /\ s \in M[k][l]
              \/ \E e \in spilled : l = SlotOf(t)[e] /\ s \in R[k][e]
  <2>1. HeldAt(n, t, c, nx, R, M, k, i + 1, q2, w2)
    BY <1>7, HeldBefore
  <2> QED BY <1>3, <2>1 DEF HeldAt
<1>10. ASSUME NEW r \in DOMAIN q2, NEW s \in q2[r]
       PROVE  IF r = d THEN s \in w1[SlotOf(t)[v]] ELSE s \in q1[r]
  <2>1. CASE r \in Regs(n) \ spilled /\ s \in R[k][r]
    BY <1>6, <1>8, <2>1
  <2>2. ASSUME NEW e \in SpillReads(c[k]), r = T[e], r < a + (i + 1) - 1, s \in R[k][e]
        PROVE  IF r = d THEN s \in w1[SlotOf(t)[v]] ELSE s \in q1[r]
    <3>1. CASE T[e] = d
      <4>1. e = v
        BY <1>1, <1>2, <1>3, <1>4, <3>1 DEF TempsOK
      <4> QED BY <1>8, <2>2, <3>1, <4>1 DEF SpillReads
    <3>2. CASE T[e] # d
      BY <1>5, <1>8, <2>2, <3>2
    <3> QED BY <3>1, <3>2
  <2> QED BY <1>9, <2>1, <2>2
<1>11. \A l \in DOMAIN w2 : \A s \in w2[l] : s \in w1[l]
  BY <1>8, <1>9
<1>12. PICK y : y = c2[L[k - 1] + i] /\ y.op = "load" /\ y.def = d /\ y.slot = SlotOf(t)[v]
  BY <1>2, <1>3, <1>4 DEF LoadSlot
<1> QED BY <1>10, <1>11, <1>12 DEF Carries

\* ... the instruction itself, ...
LEMMA BodyCarries ==
  ASSUME NEW p, NEW U, NEW n, NEW t, NEW c, NEW c2, NEW L, NEW nx, NEW n2, NEW t2, NEW R, NEW M,
         Spilling(p, U, n, t, c, c2, L, nx, n2, t2, R, M),
         NEW k \in 1..Len(c), NEW i \in Nat, i = Reloads(c[k]) + 1, NEW j \in SuccsIn(c, k),
         NEW q1, q1 = RegsAt(p, c, n, n2, nx, R, k, i), NEW w1, w1 = SlotsAt(p, c, t, t2, R, M, k, i),
         NEW q2, NEW w2,
         \/ /\ c[k].def \notin spilled
            /\ q2 = RegsAt(p, c, n, n2, nx, R, j, 1) /\ w2 = SlotsAt(p, c, t, t2, R, M, j, 1)
         \/ /\ c[k].def \in spilled /\ j = k + 1
            /\ q2 = RegsAt(p, c, n, n2, nx, R, k, i + 1)
            /\ w2 = SlotsAt(p, c, t, t2, R, M, k, i + 1)
  PROVE  Carries(p, c2[L[k - 1] + i], q1, w1, q2, w2)
<1>1. /\ nx[k - 1] \in Nat /\ Reloads(c[k]) \in Nat /\ n =< nx[k - 1] /\ TempsOK(c[k], nx[k - 1])
      /\ c[k] \in Instr /\ InstrOK(p, c[k], U, n, t)
  BY SpillNumbers
<1>2. /\ NumRegs \in Nat /\ n \in Nat /\ t \in Nat /\ spilled \subseteq 1..(n - 1)
      /\ \A v \in spilled : SlotOf(t)[v] \notin 1..t
  BY SpillNumbers
<1>3. c2[L[k - 1] + i] = Rewritten(c[k], nx[k - 1])
  <2>1. i = Reloads(c[k]) + 1 /\ c2[L[k - 1] + Reloads(c[k]) + 1] = Rewritten(c[k], nx[k - 1])
    BY DEF Spilling, Expanded
  <2>2. L[k - 1] \in Nat
    BY PlacesOfExpanded DEF Spilling, CodeOK
  <2> QED BY <1>1, <2>1, <2>2
<1>4. DOMAIN c = 1..Len(c) /\ j \in 1..Len(c) /\ Len(c) \in Nat
  BY DEF SuccsIn, Spilling, CodeOK
<1>5. /\ Carries(p, c[k], R[k], M[k], R[j], M[j])
      /\ DOMAIN R[j] = Regs(n) /\ DOMAIN M[j] = 1..t
  <2>1. R[j] \in [Regs(n) -> SUBSET Src(p)] /\ M[j] \in [1..t -> SUBSET Src(p)]
    BY <1>4 DEF Spilling, Claims
  <2>2. Carries(p, c[k], R[k], M[k], R[j], M[j])
    BY <1>4 DEF Spilling, Claims
  <2> QED BY <2>1, <2>2
<1>6. c[k].op = "save" => c[k].uses[1] \in Regs(n)
  <2>1. c[k].op = "save" => 1 \in 1..Len(c[k].uses)
    BY <1>1 DEF InstrOK
  <2>2. \A e \in 1..Len(c[k].uses) : c[k].uses[e] \in U
    BY <1>1 DEF InstrOK
  <2> QED BY <2>1, <2>2 DEF Spilling
<1>7. PICK x, a, T, S : x = c[k] /\ a = nx[k - 1] /\ T = TempOf(c[k], nx[k - 1]) /\ S = SlotOf(t)
  BY Zenon
<1>8. i =< Reloads(c[k]) + 1
  BY <1>1
<1>9. /\ \A r \in Regs(n) \ spilled : \A s \in R[k][r] : s \in q1[r]
      /\ \A v \in SpillReads(x) : T[v] < a + i - 1 => \A s \in R[k][v] : s \in q1[T[v]]
      /\ \A l \in 1..t : \A s \in M[k][l] : s \in w1[l]
      /\ \A v \in spilled : \A s \in R[k][v] : s \in w1[S[v]]
  <2>1. /\ \A r \in Regs(n) \ spilled : \A s \in R[k][r] : s \in q1[r]
        /\ \A v \in SpillReads(c[k]) : TempOf(c[k], nx[k - 1])[v] < nx[k - 1] + i - 1
              => \A s \in R[k][v] : s \in q1[TempOf(c[k], nx[k - 1])[v]]
        /\ \A l \in 1..t : \A s \in M[k][l] : s \in w1[l]
        /\ \A v \in spilled : \A s \in R[k][v] : s \in w1[SlotOf(t)[v]]
    <3>1. HeldAt(n, t, c, nx, R, M, k, i, q1, w1)
      BY <1>8, HeldBefore
    <3> QED BY <3>1 DEF HeldAt
  <2> QED BY <1>7, <2>1
<1>10. \A v \in SpillReads(x) : \A s \in R[k][v] : s \in q1[T[v]]
  <2>1. \A v \in SpillReads(x) : T[v] \in a..(a + Reloads(x) - 1)
    BY <1>1, <1>7 DEF TempsOK, Reloads
  <2>2. \A v \in SpillReads(x) : T[v] < a + i - 1
    BY <1>1, <1>7, <2>1
  <2> QED BY <1>9, <2>2
<1>11. /\ \A r \in DOMAIN q2 : \A s \in q2[r] :
            \/ r \in Regs(n) \ spilled /\ s \in R[j][r]
            \/ x.def \in spilled /\ r = a + Reloads(x) /\ s \in R[j][x.def]
       /\ \A l \in DOMAIN w2 : \A s \in w2[l] :
            \/ l \in 1..t /\ s \in M[j][l]
            \/ \E v \in spilled : v # x.def /\ l = S[v] /\ s \in R[j][v]
  <2>1. CASE x.def \notin spilled
    <3>1. q2 = RegsAt(p, c, n, n2, nx, R, j, 1) /\ w2 = SlotsAt(p, c, t, t2, R, M, j, 1)
      BY <1>7, <2>1
    <3>2. 1 =< Reloads(c[j]) + 1 /\ nx[j - 1] \in Nat /\ TempsOK(c[j], nx[j - 1])
      <4>1. Reloads(c[j]) \in Nat /\ nx[j - 1] \in Nat /\ TempsOK(c[j], nx[j - 1])
        BY <1>4, SpillNumbers
      <4> QED BY <4>1
    <3>3. /\ \A r \in DOMAIN q2 : \A s \in q2[r] :
              \/ r \in Regs(n) \ spilled /\ s \in R[j][r]
              \/ \E v \in SpillReads(c[j]) : /\ r = TempOf(c[j], nx[j - 1])[v]
                                             /\ r < nx[j - 1] + 1 - 1 /\ s \in R[j][v]
          /\ \A l \in DOMAIN w2 : \A s \in w2[l] :
              \/ l \in 1..t /\ s \in M[j][l]
              \/ \E v \in spilled : l = S[v] /\ s \in R[j][v]
      <4>1. PICK g \in 1..Len(c), e \in Nat : g = j /\ e = 1
        BY <1>4
      <4>2. /\ q2 = RegsAt(p, c, n, n2, nx, R, g, e) /\ w2 = SlotsAt(p, c, t, t2, R, M, g, e)
            /\ e =< Reloads(c[g]) + 1
        BY <3>1, <3>2, <4>1
      <4>3. /\ \A r \in DOMAIN q2 : \A s \in q2[r] :
                \/ r \in Regs(n) \ spilled /\ s \in R[g][r]
                \/ \E v \in SpillReads(c[g]) : /\ r = TempOf(c[g], nx[g - 1])[v]
                                               /\ r < nx[g - 1] + e - 1 /\ s \in R[g][v]
            /\ \A l \in DOMAIN w2 : \A s \in w2[l] :
                \/ l \in 1..t /\ s \in M[g][l]
                \/ \E v \in spilled : l = SlotOf(t)[v] /\ s \in R[g][v]
        <5>1. HeldAt(n, t, c, nx, R, M, g, e, q2, w2)
          BY <4>2, HeldBefore
        <5> QED BY <5>1 DEF HeldAt
      <4> QED BY <1>7, <4>1, <4>3
    <3>4. \A v \in SpillReads(c[j]) : ~(TempOf(c[j], nx[j - 1])[v] < nx[j - 1] + 1 - 1)
      <4>1. \A v \in SpillReads(c[j]) :
              TempOf(c[j], nx[j - 1])[v] \in nx[j - 1]..(nx[j - 1] + Cardinality(SpillReads(c[j])) - 1)
        BY <3>2 DEF TempsOK
      <4> QED BY <3>2, <4>1
    <3> QED BY <2>1, <3>3, <3>4
  <2>2. CASE x.def \in spilled
    <3>1. /\ j = k + 1 /\ q2 = RegsAt(p, c, n, n2, nx, R, k, i + 1)
          /\ w2 = SlotsAt(p, c, t, t2, R, M, k, i + 1)
      BY <1>7, <2>2
    <3>2. i + 1 \in Nat /\ i + 1 = Reloads(c[k]) + 2
      BY <1>1
    <3> QED BY <1>7, <2>2, <3>1, <3>2, HeldAfter
  <2> QED BY <2>1, <2>2
<1>12. PICK y : y = c2[L[k - 1] + i] /\ y = Rewritten(x, a)
  BY <1>3, <1>7
<1>13. PICK r1, m1, r2, m2 : r1 = R[k] /\ m1 = M[k] /\ r2 = R[j] /\ m2 = M[j]
  OBVIOUS
<1>14. HoldBefore(x, a, n, t, r1, m1, q1, w1)
  BY <1>7, <1>9, <1>10, <1>13 DEF HoldBefore
<1>15. HoldAfter(x, a, n, t, r2, m2, q2, w2)
  BY <1>7, <1>11, <1>13 DEF HoldAfter
<1>16. Carries(p, y, q1, w1, q2, w2)
  <2>1. /\ x \in Instr /\ InstrOK(p, x, U, n, t) /\ n =< a /\ a \in Nat
        /\ \A v \in spilled : SlotOf(t)[v] \notin 1..t
        /\ Carries(p, x, r1, m1, r2, m2) /\ DOMAIN r2 = Regs(n) /\ DOMAIN m2 = 1..t
        /\ x.op = "save" => x.uses[1] \in Regs(n)
    BY <1>1, <1>2, <1>5, <1>6, <1>7, <1>13
  <2> QED BY <1>2, <1>12, <1>14, <1>15, <2>1, RewrittenCarries
<1> QED BY <1>12, <1>16

\* ... and the save of its result.
LEMMA SaveCarries ==
  ASSUME NEW p, NEW U, NEW n, NEW t, NEW c, NEW c2, NEW L, NEW nx, NEW n2, NEW t2, NEW R, NEW M,
         Spilling(p, U, n, t, c, c2, L, nx, n2, t2, R, M),
         NEW k \in 1..Len(c), c[k].def \in spilled, NEW i \in Nat, i = Reloads(c[k]) + 2,
         NEW j \in 1..Len(c), j = k + 1, NEW e \in Nat, e = 1,
         NEW q1, q1 = RegsAt(p, c, n, n2, nx, R, k, i), NEW w1, w1 = SlotsAt(p, c, t, t2, R, M, k, i),
         NEW q2, q2 = RegsAt(p, c, n, n2, nx, R, j, e), NEW w2, w2 = SlotsAt(p, c, t, t2, R, M, j, e)
  PROVE  Carries(p, c2[L[k - 1] + i], q1, w1, q2, w2)
<1>1. /\ nx[k - 1] \in Nat /\ Reloads(c[k]) \in Nat /\ n =< nx[k - 1] /\ n \in Nat
      /\ nx[j - 1] \in Nat /\ TempsOK(c[j], nx[j - 1]) /\ Reloads(c[j]) \in Nat
  BY SpillNumbers
<1>2. SlotsOK(t) /\ \A v \in spilled : SlotOf(t)[v] \notin 1..t
  BY SpillNumbers
<1>3. PICK o \in Nat : o = nx[k - 1] + Reloads(c[k]) /\ o >= n
  BY <1>1
<1>4. PICK d : d = c[k].def
  OBVIOUS
<1>5. c2[L[k - 1] + i] = SaveSlot(o, SlotOf(t)[d], o + 1, c[k].orig)
  <2>1. c2[L[k - 1] + Reloads(c[k]) + 2]
          = SaveSlot(nx[k - 1] + Reloads(c[k]), SlotOf(t)[c[k].def], nx[k - 1] + Reloads(c[k]) + 1, c[k].orig)
    BY DEF Spilling, Expanded
  <2>2. L[k - 1] \in Nat
    BY PlacesOfExpanded DEF Spilling, CodeOK
  <2>3. L[k - 1] + i = L[k - 1] + Reloads(c[k]) + 2
    <3>1. PICK b \in Nat, m \in Nat : b = L[k - 1] /\ m = Reloads(c[k]) /\ i = m + 2
      BY <1>1, <2>2
    <3>2. b + (m + 2) = b + m + 2
      OBVIOUS
    <3> QED BY <3>1, <3>2
  <2> QED BY <1>3, <1>4, <2>1, <2>3
<1>6. PICK y : /\ y = c2[L[k - 1] + i] /\ y.op = "save" /\ y.def = o + 1 /\ y.uses[1] = o
               /\ y.slot = SlotOf(t)[d]
  BY <1>5 DEF SaveSlot
<1>7. k < Len(c)
  BY DEF Spilling, CodeOK
<1>8. o + 1 \notin Regs(n)
  <2>1. NumRegs \in Nat /\ spilled \subseteq 1..(n - 1) /\ o + 1 \in Nat /\ o + 1 >= n
    <3>1. NumRegs \in Nat /\ spilled \subseteq 1..(n - 1)
      BY DEF Spilling
    <3>2. o + 1 \in Nat /\ o + 1 >= n
      BY <1>1, <1>3
    <3> QED BY <3>1, <3>2
  <2> QED BY <1>1, <2>1, RegistersApart
<1>9. /\ \A r \in Regs(n) \ spilled : \A s \in R[j][r] : s \in q1[r]
      /\ \A s \in R[j][d] : s \in q1[o]
      /\ \A l \in 1..t : \A s \in M[j][l] : s \in w1[l]
      /\ \A v \in spilled : v # d => \A s \in R[j][v] : s \in w1[SlotOf(t)[v]]
  <2>1. HoldResult(n, t, R[k + 1], M[k + 1], c[k].def, nx[k - 1] + Reloads(c[k]), q1, w1)
    BY <1>7, HeldAfter
  <2>2. HoldResult(n, t, R[j], M[j], d, o, q1, w1)
    BY <1>3, <1>4, <2>1
  <2> QED BY <2>2 DEF HoldResult
<1>10. /\ \A r \in DOMAIN q2 : \A s \in q2[r] :
            \/ r \in Regs(n) \ spilled /\ s \in R[j][r]
            \/ \E v \in SpillReads(c[j]) : /\ r = TempOf(c[j], nx[j - 1])[v]
                                           /\ r < nx[j - 1] + e - 1 /\ s \in R[j][v]
       /\ \A l \in DOMAIN w2 : \A s \in w2[l] :
            \/ l \in 1..t /\ s \in M[j][l]
            \/ \E v \in spilled : l = SlotOf(t)[v] /\ s \in R[j][v]
  <2>1. e =< Reloads(c[j]) + 1
    BY <1>1
  <2>2. HeldAt(n, t, c, nx, R, M, j, e, q2, w2)
    BY <2>1, HeldBefore
  <2> QED BY <2>2 DEF HeldAt
<1>11. \A v \in SpillReads(c[j]) : ~(TempOf(c[j], nx[j - 1])[v] < nx[j - 1] + e - 1)
  <2>1. \A v \in SpillReads(c[j]) :
          TempOf(c[j], nx[j - 1])[v] \in nx[j - 1]..(nx[j - 1] + Cardinality(SpillReads(c[j])) - 1)
    BY <1>1 DEF TempsOK
  <2> QED BY <1>1, <2>1
<1>12. \A r \in DOMAIN q2 : \A s \in q2[r] : r # o + 1 /\ s \in q1[r]
  BY <1>8, <1>9, <1>10, <1>11
<1>13. \A l \in DOMAIN w2 : \A s \in w2[l] :
         IF l = SlotOf(t)[d] THEN s \in q1[o] ELSE s \in w1[l]
  <2> TAKE l \in DOMAIN w2
  <2> TAKE s \in w2[l]
  <2>1. CASE l \in 1..t /\ s \in M[j][l]
    BY <1>2, <1>4, <1>9, <2>1
  <2>2. ASSUME NEW v \in spilled, l = SlotOf(t)[v], s \in R[j][v]
        PROVE  IF l = SlotOf(t)[d] THEN s \in q1[o] ELSE s \in w1[l]
    <3>1. CASE v = d
      BY <1>9, <2>2, <3>1
    <3>2. CASE v # d
      <4>1. l # SlotOf(t)[d]
        BY <1>2, <1>4, <2>2, <3>2 DEF SlotsOK
      <4> QED BY <1>9, <2>2, <3>2, <4>1
    <3> QED BY <3>1, <3>2
  <2> QED BY <1>10, <2>1, <2>2
<1> QED BY <1>6, <1>12, <1>13 DEF Carries

\* Nothing is held before the save of the last instruction: there is no path on.
LEMMA LastCarries ==
  ASSUME NEW p, NEW U, NEW n, NEW t, NEW c, NEW c2, NEW L, NEW nx, NEW n2, NEW t2, NEW R, NEW M,
         Spilling(p, U, n, t, c, c2, L, nx, n2, t2, R, M),
         NEW k \in 1..Len(c), c[k].def \in spilled, k = Len(c), NEW i \in Nat, i = Reloads(c[k]) + 2,
         NEW y, NEW q1, NEW w1,
         NEW q2, q2 = RegsAt(p, c, n, n2, nx, R, k, i), NEW w2, w2 = SlotsAt(p, c, t, t2, R, M, k, i)
  PROVE  Carries(p, y, q1, w1, q2, w2)
<1>1. /\ \A r \in DOMAIN q2 : \A s \in q2[r] : k < Len(c)
      /\ \A l \in DOMAIN w2 : \A s \in w2[l] : k < Len(c)
  BY HeldAfter
<1>2. ~(k < Len(c))
  OBVIOUS
<1> QED BY <1>1, <1>2 DEF Carries

\* The instruction still reads the values it read.
LEMMA BodyReads ==
  ASSUME NEW p, NEW U, NEW n, NEW t, NEW c, NEW c2, NEW L, NEW nx, NEW n2, NEW t2, NEW R, NEW M,
         Spilling(p, U, n, t, c, c2, L, nx, n2, t2, R, M),
         NEW k \in 1..Len(c), NEW i \in Nat, i = Reloads(c[k]) + 1,
         NEW q1, q1 = RegsAt(p, c, n, n2, nx, R, k, i)
  PROVE  Reads(p, c2[L[k - 1] + i], q1)
<1>1. /\ nx[k - 1] \in Nat /\ Reloads(c[k]) \in Nat /\ n =< nx[k - 1] /\ TempsOK(c[k], nx[k - 1])
      /\ c[k] \in Instr /\ InstrOK(p, c[k], U, n, t)
  BY SpillNumbers
<1>2. PICK x, T, a, y : /\ x = c[k] /\ a = nx[k - 1] /\ T = TempOf(c[k], nx[k - 1])
                        /\ y = c2[L[k - 1] + i]
  BY Zenon
<1>3. y = Rewritten(x, a)
  <2>1. i = Reloads(c[k]) + 1 /\ c2[L[k - 1] + Reloads(c[k]) + 1] = Rewritten(c[k], nx[k - 1])
    BY DEF Spilling, Expanded
  <2>2. L[k - 1] \in Nat
    BY PlacesOfExpanded DEF Spilling, CodeOK
  <2> QED BY <1>1, <1>2, <2>1, <2>2
<1>4. /\ y.op = x.op /\ y.orig = x.orig /\ Len(y.uses) = Len(x.uses)
      /\ \A j \in 1..Len(x.uses) : y.uses[j] = IF x.uses[j] \in spilled THEN T[x.uses[j]] ELSE x.uses[j]
  BY <1>1, <1>2, <1>3, RewrittenParts
<1>5. Reads(p, x, R[k])
  BY <1>2 DEF Spilling, Claims, CodeOK
<1>6. PICK w : w = SlotsAt(p, c, t, t2, R, M, k, i)
  OBVIOUS
<1>7. /\ \A r \in Regs(n) \ spilled : \A s \in R[k][r] : s \in q1[r]
      /\ \A v \in SpillReads(x) : T[v] < a + i - 1 => \A s \in R[k][v] : s \in q1[T[v]]
  <2>1. /\ \A r \in Regs(n) \ spilled : \A s \in R[k][r] : s \in q1[r]
        /\ \A v \in SpillReads(c[k]) : TempOf(c[k], nx[k - 1])[v] < nx[k - 1] + i - 1
              => \A s \in R[k][v] : s \in q1[TempOf(c[k], nx[k - 1])[v]]
    <3>1. i =< Reloads(c[k]) + 1
      BY <1>1
    <3>2. HeldAt(n, t, c, nx, R, M, k, i, q1, w)
      BY <1>6, <3>1, HeldBefore
    <3> QED BY <3>2 DEF HeldAt
  <2> QED BY <1>2, <2>1
<1>8. \A v \in SpillReads(x) : T[v] < a + i - 1
  <2>1. \A v \in SpillReads(x) : T[v] \in a..(a + Reloads(x) - 1)
    BY <1>1, <1>2 DEF TempsOK, Reloads
  <2> QED BY <1>1, <1>2, <2>1
<1>9. ASSUME x.op = "inst", NEW j \in 1..Len(x.uses)
      PROVE  p[x.orig].uses[j] \in q1[y.uses[j]]
  <2>1. p[x.orig].uses[j] \in R[k][x.uses[j]]
    BY <1>5, <1>9 DEF Reads
  <2>2. x.uses[j] \in Regs(n)
    BY <1>1, <1>2 DEF Spilling, InstrOK
  <2>3. CASE x.uses[j] \in spilled
    <3>1. x.uses[j] \in SpillReads(x)
      BY <1>1, <1>2, <2>3 DEF SpillReads, UseRegs, ToSet, Instr
    <3> QED BY <1>4, <1>7, <1>8, <2>1, <2>3, <3>1
  <2>4. CASE x.uses[j] \notin spilled
    BY <1>4, <1>7, <2>1, <2>2, <2>4
  <2> QED BY <2>3, <2>4
<1> QED BY <1>2, <1>4, <1>9 DEF Reads

\* So the claims can be made of the rewritten code.
LEMMA SpillClaims ==
  ASSUME NEW p, NEW U, NEW n, NEW t, NEW c, NEW c2, NEW L, NEW nx, NEW n2, NEW t2, NEW R, NEW M,
         Spilling(p, U, n, t, c, c2, L, nx, n2, t2, R, M)
  PROVE  \E R2, M2 : Claims(p, c2, n2, t2, R2, M2)
<1> DEFINE N == Len(c)
           In(k, q) == L[k - 1] < q /\ q =< L[k]
           at(q) == CHOOSE k \in 1..N : In(k, q)
           Q(k, i) == RegsAt(p, c, n, n2, nx, R, k, i)
           W(k, i) == SlotsAt(p, c, t, t2, R, M, k, i)
           R2 == [q \in 1..Len(c2) |-> Q(at(q), q - L[at(q) - 1])]
           M2 == [q \in 1..Len(c2) |-> W(at(q), q - L[at(q) - 1])]
<1>1. /\ c \in Seq(Instr) /\ N \in Nat /\ c2 \in Seq(Instr) /\ DOMAIN c2 = 1..Len(c2)
      /\ Expanded(c, c2, SlotOf(t), L, nx) /\ CodeOK(p, c, U, n, t)
  BY DEF Spilling, CodeOK, Expanded
<1>2. None \notin spilled
  BY SpillNumbers, RegistersApart
<1>3. /\ \A k \in 1..N : L[k - 1] \in Nat /\ L[k] \in Nat /\ L[k - 1] < L[k] /\ L[k] =< Len(c2)
      /\ \A q \in 1..Len(c2) : \E k \in 1..N : In(k, q)
      /\ \A j, k \in 1..N : j < k => L[j] =< L[k - 1]
  BY <1>1, PlacesOfExpanded
<1>4. ASSUME NEW k \in 1..N, NEW q \in Nat, In(k, q)
      PROVE  q \in 1..Len(c2) /\ R2[q] = Q(k, q - L[k - 1]) /\ M2[q] = W(k, q - L[k - 1])
  <2>1. q \in 1..Len(c2)
    BY <1>3, <1>4
  <2>2. PICK j : j = at(q)
    OBVIOUS
  <2>3. j \in 1..N /\ In(j, q)
    BY <1>4, <2>2
  <2>4. PICK a \in Nat, b \in Nat, d \in Nat, e \in Nat :
          a = L[j - 1] /\ b = L[j] /\ d = L[k - 1] /\ e = L[k]
    BY <1>3, <2>3
  <2>5. ~(j < k) /\ ~(k < j)
    <3>1. j < k => b =< d
      BY <1>3, <2>3, <2>4
    <3>2. k < j => e =< a
      BY <1>3, <2>3, <2>4
    <3> QED BY <1>4, <2>3, <2>4, <3>1, <3>2
  <2>6. j = k
    BY <2>3, <2>5
  <2> HIDE DEF Q, W, at
  <2> QED BY <2>1, <2>2, <2>6
<1> HIDE DEF R2, M2, at
<1>5. ASSUME NEW q \in 1..Len(c2)
      PROVE  \E k \in 1..N, i \in Nat : /\ In(k, q) /\ i > 0 /\ q = L[k - 1] + i /\ q - L[k - 1] = i
                                        /\ R2[q] = Q(k, i) /\ M2[q] = W(k, i)
  <2>1. PICK k \in 1..N : In(k, q)
    BY <1>3
  <2>2. PICK a \in Nat : a = L[k - 1]
    BY <1>3
  <2>3. q - a \in Nat /\ q - a > 0 /\ q = a + (q - a)
    BY <2>1, <2>2
  <2>4. PICK i \in Nat : i = q - a /\ i > 0 /\ q = a + i
    BY <2>3
  <2>5. R2[q] = Q(k, q - L[k - 1]) /\ M2[q] = W(k, q - L[k - 1])
    BY <1>4, <2>1
  <2> HIDE DEF Q, W
  <2> QED BY <2>1, <2>2, <2>4, <2>5
<1> HIDE DEF Q, W
<1>6. ASSUME NEW k \in 1..N, NEW i \in Nat, i > 0, L[k - 1] + i =< L[k]
      PROVE  /\ Reloads(c[k]) \in Nat
             /\ \/ i \in 1..Reloads(c[k]) /\ c2[L[k - 1] + i].op = "load" /\ L[k - 1] + i < L[k]
                \/ i = Reloads(c[k]) + 1 /\ (c[k].def \notin spilled <=> L[k - 1] + i = L[k])
                \/ /\ i = Reloads(c[k]) + 2 /\ c[k].def \in spilled /\ c[k].jump = None
                   /\ c2[L[k - 1] + i].op = "save" /\ L[k - 1] + i = L[k]
  <2>1. PICK m \in Nat, a \in Nat, b \in Nat : m = Reloads(c[k]) /\ a = L[k - 1] /\ b = L[k]
    BY <1>1, <1>3 DEF Expanded
  <2>2. /\ \A j \in 1..m : c2[a + j].op = "load" /\ a + j < b
        /\ c[k].def \in spilled => /\ b = a + m + 2 /\ c[k].jump = None
                                   /\ c2[b].op = "save"
        /\ c[k].def \notin spilled => b = a + m + 1
    <3>1. /\ \A j \in 1..Reloads(c[k]) : L[k - 1] + j < L[k] /\ c2[L[k - 1] + j].op = "load"
          /\ c[k].def \in spilled => /\ L[k] = L[k - 1] + Reloads(c[k]) + 2
                                     /\ c[k].jump = None /\ c2[L[k]].op = "save"
          /\ c[k].def \notin spilled => L[k] = L[k - 1] + Reloads(c[k]) + 1
      BY <1>1, <1>2, InstructionsOfExpanded
    <3> QED BY <2>1, <3>1
  <2>3. a + i =< b
    BY <1>6, <2>1
  <2>4. CASE c[k].def \in spilled
    <3>1. i \in 1..m \/ i = m + 1 \/ i = m + 2
      <4>1. i =< m + 2 /\ i # 0
        BY <1>6, <2>2, <2>3, <2>4
      <4> QED BY <4>1
    <3>2. i = m + 2 => a + i = b
      BY <2>2, <2>4
    <3>3. i = m + 1 => a + i # b
      BY <2>2, <2>4
    <3> QED BY <2>1, <2>2, <2>4, <3>1, <3>2, <3>3
  <2>5. CASE c[k].def \notin spilled
    <3>1. i \in 1..m \/ i = m + 1
      BY <1>6, <2>2, <2>3, <2>5
    <3>2. i = m + 1 => a + i = b
      BY <2>2, <2>5
    <3> QED BY <2>1, <2>2, <2>5, <3>1, <3>2
  <2> QED BY <2>4, <2>5
<1>7. /\ R2 \in [DOMAIN c2 -> [Regs(n2) -> SUBSET Src(p)]]
      /\ M2 \in [DOMAIN c2 -> [1..t2 -> SUBSET Src(p)]]
  <2>1. \A k, i : Q(k, i) \in [Regs(n2) -> SUBSET Src(p)]
    BY DEF Q, RegsAt
  <2>2. \A k, i : W(k, i) \in [1..t2 -> SUBSET Src(p)]
    BY DEF W, SlotsAt
  <2> QED BY <1>1, <2>1, <2>2 DEF R2, M2
<1>8. ASSUME NEW q \in 1..Len(c2) PROVE Reads(p, c2[q], R2[q])
  <2>1. PICK k \in 1..N, i \in Nat : /\ In(k, q) /\ i > 0 /\ q = L[k - 1] + i
                                     /\ R2[q] = Q(k, i) /\ M2[q] = W(k, i)
    BY <1>5
  <2>2. \/ c2[q].op # "inst"
        \/ i = Reloads(c[k]) + 1
    BY <1>6, <2>1
  <2>3. CASE i = Reloads(c[k]) + 1
    BY <2>1, <2>3, BodyReads DEF Q
  <2> QED BY <2>2, <2>3 DEF Reads
<1>9. ASSUME NEW q \in 1..Len(c2), NEW s \in SuccsIn(c2, q)
      PROVE  Carries(p, c2[q], R2[q], M2[q], R2[s], M2[s])
  <2>1. PICK k \in 1..N, i \in Nat : /\ In(k, q) /\ i > 0 /\ q = L[k - 1] + i /\ q - L[k - 1] = i
                                     /\ R2[q] = Q(k, i) /\ M2[q] = W(k, i)
    BY <1>5
  <2>2. q \in Nat /\ s \in 1..Len(c2) /\ s \in Nat
    BY <1>1 DEF SuccsIn
  <2>3. \/ q < L[k] /\ s = q + 1
        \/ q = L[k] /\ \E j \in SuccsIn(c, k) : s = L[j - 1] + 1
    BY <1>1, <1>2, <2>1, <2>2, SuccessorsOfExpanded
  <2>4. PICK a \in Nat, b \in Nat, m \in Nat : a = L[k - 1] /\ b = L[k] /\ m = Reloads(c[k])
    BY <1>1, <1>3 DEF Expanded
  <2>5. \/ i \in 1..m /\ q < b
        \/ i = m + 1 /\ (c[k].def \notin spilled <=> q = b)
        \/ i = m + 2 /\ c[k].def \in spilled /\ c[k].jump = None /\ q = b
    BY <1>6, <2>1, <2>4
  <2>6. CASE q < b
    <3>1. s = q + 1 /\ In(k, s) /\ s - L[k - 1] = i + 1
      <4>1. s = q + 1 /\ s \in Nat /\ a < q /\ q < b /\ q = a + i
        BY <2>1, <2>2, <2>3, <2>4, <2>6
      <4>2. s = q + 1 /\ a < s /\ s =< b /\ s - a = i + 1
        BY <4>1
      <4> QED BY <2>4, <4>2
    <3>2. R2[s] = Q(k, i + 1) /\ M2[s] = W(k, i + 1)
      BY <1>4, <2>2, <3>1
    <3>3. CASE i \in 1..m
      BY <2>1, <2>4, <3>2, <3>3, ReloadCarries DEF Q, W
    <3>4. CASE i = m + 1
      <4>1. c[k].def \in spilled
        <5>1. q # b /\ i \notin 1..m
          BY <2>2, <2>4, <2>6, <3>4
        <5> QED BY <2>5, <5>1
      <4>2. CASE k = N
        <5>1. i + 1 \in Nat /\ i + 1 = Reloads(c[k]) + 2
          BY <2>4, <3>4
        <5> QED BY <3>2, <4>1, <4>2, <5>1, LastCarries DEF Q, W
      <4>3. CASE k # N
        <5>1. PICK j : j = k + 1
          OBVIOUS
        <5>2. j \in SuccsIn(c, k)
          BY <1>1, <4>3, <5>1 DEF SuccsIn
        <5>3. PICK q1, w1, q2, w2 : q1 = R2[q] /\ w1 = M2[q] /\ q2 = R2[s] /\ w2 = M2[s]
          OBVIOUS
        <5>4. /\ q1 = RegsAt(p, c, n, n2, nx, R, k, i) /\ w1 = SlotsAt(p, c, t, t2, R, M, k, i)
              /\ q2 = RegsAt(p, c, n, n2, nx, R, k, i + 1)
              /\ w2 = SlotsAt(p, c, t, t2, R, M, k, i + 1)
              /\ i = Reloads(c[k]) + 1 /\ c[k].def \in spilled /\ j = k + 1
          BY <2>1, <2>4, <3>2, <3>4, <4>1, <5>1, <5>3 DEF Q, W
        <5>5. Carries(p, c2[L[k - 1] + i], q1, w1, q2, w2)
          BY <5>2, <5>4, BodyCarries
        <5> QED BY <2>1, <5>3, <5>5
      <4> QED BY <4>2, <4>3
    <3> QED BY <2>4, <2>5, <2>6, <3>3, <3>4
  <2>7. CASE q = b
    <3>1. PICK j \in SuccsIn(c, k) : s = L[j - 1] + 1
      BY <2>3, <2>4, <2>7
    <3>2. j \in 1..N
      BY <1>1, <3>1 DEF SuccsIn
    <3>3. In(j, s) /\ s - L[j - 1] = 1
      <4>1. PICK d \in Nat, e \in Nat : d = L[j - 1] /\ e = L[j] /\ d < e
        BY <1>3, <3>2
      <4> QED BY <3>1, <4>1
    <3>4. R2[s] = Q(j, 1) /\ M2[s] = W(j, 1)
      BY <1>4, <2>2, <3>2, <3>3
    <3>5. CASE i = m + 1
      <4>1. c[k].def \notin spilled
        BY <2>4, <2>5, <2>7, <3>5
      <4>2. PICK q1, w1, q2, w2 : q1 = R2[q] /\ w1 = M2[q] /\ q2 = R2[s] /\ w2 = M2[s]
        OBVIOUS
      <4>3. /\ q1 = RegsAt(p, c, n, n2, nx, R, k, i) /\ w1 = SlotsAt(p, c, t, t2, R, M, k, i)
            /\ q2 = RegsAt(p, c, n, n2, nx, R, j, 1) /\ w2 = SlotsAt(p, c, t, t2, R, M, j, 1)
            /\ i = Reloads(c[k]) + 1 /\ c[k].def \notin spilled
        BY <2>1, <2>4, <3>4, <3>5, <4>1, <4>2 DEF Q, W
      <4>4. Carries(p, c2[L[k - 1] + i], q1, w1, q2, w2)
        BY <3>1, <4>3, BodyCarries
      <4> QED BY <2>1, <4>2, <4>4
    <3>6. CASE i = m + 2
      <4>1. c[k].def \in spilled /\ c[k].jump = None
        BY <2>4, <2>5, <2>7, <3>6
      <4>2. j = k + 1
        BY <3>1, <4>1 DEF SuccsIn
      <4>3. PICK e \in Nat : e = 1
        OBVIOUS
      <4>4. PICK q1, w1, q2, w2 : q1 = R2[q] /\ w1 = M2[q] /\ q2 = R2[s] /\ w2 = M2[s]
        OBVIOUS
      <4>5. /\ q1 = RegsAt(p, c, n, n2, nx, R, k, i) /\ w1 = SlotsAt(p, c, t, t2, R, M, k, i)
            /\ q2 = RegsAt(p, c, n, n2, nx, R, j, e) /\ w2 = SlotsAt(p, c, t, t2, R, M, j, e)
            /\ i = Reloads(c[k]) + 2
        BY <2>1, <2>4, <3>4, <3>6, <4>3, <4>4 DEF Q, W
      <4>6. Carries(p, c2[L[k - 1] + i], q1, w1, q2, w2)
        BY <3>2, <4>1, <4>2, <4>3, <4>5, SaveCarries
      <4> QED BY <2>1, <4>4, <4>6
    <3> QED BY <2>4, <2>5, <2>7, <3>5, <3>6
  <2>8. q < b \/ q = b
    BY <2>1, <2>4
  <2> QED BY <2>6, <2>7, <2>8
<1>10. Claims(p, c2, n2, t2, R2, M2)
  BY <1>1, <1>7, <1>8, <1>9 DEF Claims
<1> QED BY <1>10

\* The rewritten code is well formed: it reads only registers that it writes.
LEMMA SpillCode ==
  ASSUME NEW p, NEW U, NEW n, NEW t, NEW c, NEW c2, NEW L, NEW nx, NEW n2, NEW t2, NEW R, NEW M,
         Spilling(p, U, n, t, c, c2, L, nx, n2, t2, R, M), U = Phys \cup Vregs(c)
  PROVE  CodeOK(p, c2, Phys \cup Vregs(c2), n2, t2)
<1> DEFINE N == Len(c)
           U2 == Phys \cup Vregs(c2)
           B(k, m, a, b, f) ==
             /\ m = Reloads(c[k]) /\ a = L[k - 1] /\ b = L[k] /\ f = nx[k - 1] /\ n =< f /\ f + m =< n2
             /\ TempsOK(c[k], f) /\ c[k] \in Instr /\ InstrOK(p, c[k], U, n, t)
             /\ \A j \in 1..m : /\ a + j \in 1..Len(c2)
                                /\ \E v \in SpillReads(c[k]) :
                                     /\ TempOf(c[k], f)[v] = f + j - 1
                                     /\ c2[a + j] = LoadSlot(f + j - 1, SlotOf(t)[v], c[k].orig)
             /\ a + m + 1 \in 1..Len(c2) /\ c2[a + m + 1] = Rewritten(c[k], f)
             /\ c[k].def \in spilled =>
                  /\ b = a + m + 2 /\ b \in 1..Len(c2) /\ f + m + 2 =< n2
                  /\ c2[b] = SaveSlot(f + m, SlotOf(t)[c[k].def], f + m + 1, c[k].orig)
             /\ c[k].def \notin spilled => b = a + m + 1
<1>1. /\ c \in Seq(Instr) /\ N \in Nat /\ DOMAIN c = 1..N
      /\ c2 \in Seq(Instr) /\ DOMAIN c2 = 1..Len(c2)
      /\ Expanded(c, c2, SlotOf(t), L, nx) /\ CodeOK(p, c, U, n, t) /\ U \subseteq Regs(n)
  <2>1. /\ Expanded(c, c2, SlotOf(t), L, nx) /\ CodeOK(p, c, U, n, t) /\ U \subseteq Regs(n)
    BY DEF Spilling
  <2>2. c \in Seq(Instr) /\ c2 \in Seq(Instr)
    BY <2>1 DEF CodeOK, Expanded
  <2> QED BY <2>1, <2>2, LenProperties
<1>2. /\ NumRegs \in Nat /\ n \in Nat /\ t \in Nat /\ spilled \subseteq 1..(n - 1)
      /\ n2 \in Nat /\ n =< n2 /\ Regs(n) \subseteq Regs(n2) /\ t2 \in Nat /\ 1..t \subseteq 1..t2
      /\ \A v \in spilled : SlotOf(t)[v] \in 1..t2
  BY SpillNumbers
<1>3. /\ None \notin spilled /\ None \notin Regs(n) /\ None \notin Regs(n2)
      /\ \A v \in spilled : v \in Int /\ v > 0 /\ v < n /\ v \notin Phys
      /\ \A e \in Nat : e >= n => e \notin Regs(n)
      /\ \A e \in Phys : e \in Int /\ e < 0
  <2>1. spilled \subseteq 1..(n2 - 1)
    BY <1>2
  <2>2. None \notin Regs(n2)
    BY <1>2, <2>1, RegistersApart
  <2> QED BY <1>2, <2>2, RegistersApart
<1>4. \A k \in 1..N : L[k - 1] \in Nat /\ L[k] \in Nat /\ L[k - 1] < L[k] /\ L[k] =< Len(c2)
  BY <1>1, PlacesOfExpanded
<1>5. ASSUME NEW e \in 1..Len(c2), c2[e].def # None, c2[e].def \notin Phys PROVE c2[e].def \in U2
  BY <1>1, <1>5 DEF Vregs
\* The parts of the block of k, its own fresh registers being in U2.
<1>6. ASSUME NEW k \in 1..N
      PROVE  \E m, a, b, f \in Nat : B(k, m, a, b, f)
  <2>1. /\ c[k] \in Instr /\ InstrOK(p, c[k], U, n, t)
        /\ Reloads(c[k]) \in Nat /\ nx[k - 1] \in Nat /\ n =< nx[k - 1]
        /\ nx[k - 1] + Reloads(c[k]) =< n2 /\ TempsOK(c[k], nx[k - 1])
        /\ c[k].def \in spilled => nx[k - 1] + Reloads(c[k]) + 2 =< n2
    <3>1. c[k] \in Instr /\ InstrOK(p, c[k], U, n, t)
      BY SpillNumbers
    <3>2. /\ Reloads(c[k]) \in Nat /\ nx[k - 1] \in Nat /\ n =< nx[k - 1]
          /\ nx[k - 1] + Reloads(c[k]) =< n2 /\ TempsOK(c[k], nx[k - 1])
          /\ c[k].def \in spilled => nx[k - 1] + Reloads(c[k]) + 2 =< n2
      BY SpillNumbers
    <3> QED BY <3>1, <3>2
  <2>2. PICK m \in Nat, a \in Nat, b \in Nat, f \in Nat, z \in Nat :
          m = Reloads(c[k]) /\ a = L[k - 1] /\ b = L[k] /\ f = nx[k - 1] /\ z = Len(c2) /\ b =< z
    BY <1>1, <1>4, <2>1, LenProperties
  <2>3. /\ \A j \in 1..m : \E v \in SpillReads(c[k]) :
             /\ TempOf(c[k], f)[v] = f + j - 1
             /\ c2[a + j] = LoadSlot(f + j - 1, SlotOf(t)[v], c[k].orig)
        /\ c2[a + m + 1] = Rewritten(c[k], f)
        /\ c[k].def \in spilled =>
             /\ b = a + m + 2
             /\ c2[a + m + 2] = SaveSlot(f + m, SlotOf(t)[c[k].def], f + m + 1, c[k].orig)
        /\ c[k].def \notin spilled => b = a + m + 1
    BY <1>1, <2>2 DEF Expanded
  <2>4. b >= a + m + 1
    BY <2>3
  <2>5. a + m + 1 \in 1..z
    BY <2>2, <2>4
  <2>6. ASSUME NEW j \in 1..m PROVE a + j \in 1..z
    BY <2>5
  <2>7. b \in 1..z
    BY <2>2, <2>4
  <2>8. ASSUME c[k].def \in spilled
        PROVE  /\ b = a + m + 2 /\ b \in 1..Len(c2) /\ f + m + 2 =< n2
               /\ c2[b] = SaveSlot(f + m, SlotOf(t)[c[k].def], f + m + 1, c[k].orig)
    BY <2>1, <2>2, <2>3, <2>7, <2>8
  <2>9. /\ n =< f /\ f + m =< n2 /\ TempsOK(c[k], f) /\ c[k] \in Instr /\ InstrOK(p, c[k], U, n, t)
        /\ a + m + 1 \in 1..Len(c2) /\ c2[a + m + 1] = Rewritten(c[k], f)
        /\ c[k].def \notin spilled => b = a + m + 1
    BY <2>1, <2>2, <2>3, <2>5
  <2>10. B(k, m, a, b, f)
    BY <2>2, <2>3, <2>6, <2>8, <2>9
  <2> HIDE DEF B
  <2> QED BY <2>10
<1> HIDE DEF B
<1>7. ASSUME NEW k \in 1..N, NEW m \in Nat, NEW a \in Nat, NEW b \in Nat, NEW f \in Nat, B(k, m, a, b, f),
             NEW j \in 1..m
      PROVE  InstrOK(p, c2[a + j], U2, n2, t2) /\ c2[a + j].def = f + j - 1 /\ f + j - 1 \in U2
  <2>1. /\ a + j \in 1..Len(c2) /\ n =< f /\ f + m =< n2 /\ c[k].orig \in DOMAIN p
        /\ \E v \in SpillReads(c[k]) : c2[a + j] = LoadSlot(f + j - 1, SlotOf(t)[v], c[k].orig)
    BY <1>7 DEF B, InstrOK
  <2>2. PICK v \in SpillReads(c[k]) : c2[a + j] = LoadSlot(f + j - 1, SlotOf(t)[v], c[k].orig)
    BY <2>1
  <2>3. v \in spilled
    BY DEF SpillReads
  <2>4. PICK d \in Nat : d = f + j - 1 /\ d > 0 /\ d >= n /\ d \in 1..(n2 - 1)
    <3>1. n > 0
      BY <1>2, <1>3, <2>3
    <3> QED BY <1>2, <2>1, <3>1
  <2>5. PICK y, l : /\ y = c2[a + j] /\ l = SlotOf(t)[v] /\ y = LoadSlot(d, l, c[k].orig)
    BY <2>2, <2>4
  <2>6. /\ y.op = "load" /\ y.uses = <<>> /\ y.def = d /\ y.clob = {} /\ y.slot = l /\ y.jump = None
        /\ y.orig = c[k].orig
    BY <2>5 DEF LoadSlot
  <2>7. d \in Regs(n2) /\ d # None /\ l \in 1..t2 /\ d \notin Phys
    BY <1>2, <1>3, <2>3, <2>4, <2>5 DEF Regs, None
  <2>8. InstrOK(p, y, U2, n2, t2)
    BY <2>1, <2>6, <2>7 DEF InstrOK
  <2>9. d \in U2
    BY <1>5, <2>1, <2>5, <2>6, <2>7
  <2> QED BY <2>4, <2>5, <2>6, <2>8, <2>9
<1>8. ASSUME NEW k \in 1..N, NEW m \in Nat, NEW a \in Nat, NEW b \in Nat, NEW f \in Nat, B(k, m, a, b, f),
             c[k].def # None, c[k].def \notin Phys
      PROVE  (IF c[k].def \in spilled THEN f + m ELSE c[k].def) \in U2
  <2>1. /\ a + m + 1 \in 1..Len(c2) /\ c2[a + m + 1] = Rewritten(c[k], f) /\ c[k] \in Instr
        /\ m = Reloads(c[k]) /\ n =< f
    BY <1>8 DEF B
  <2>2. PICK y : y = c2[a + m + 1] /\ y.def = IF c[k].def \in spilled THEN f + m ELSE c[k].def
    BY <2>1, RewrittenParts
  <2>3. c[k].def \in spilled => f + m # None /\ f + m \notin Phys
    <3>1. c[k].def \in spilled => n > 0
      BY <1>2, <1>3
    <3>2. n \in Nat /\ n =< f
      BY <1>2, <2>1
    <3>3. n > 0 => f + m > 0 /\ f + m \in Int
      BY ONLY <3>2, f \in Nat, m \in Nat
    <3> QED BY <1>3, <3>1, <3>3 DEF None
  <2>4. y.def # None /\ y.def \notin Phys
    BY <1>8, <2>2, <2>3
  <2> QED BY <1>5, <2>1, <2>2, <2>4
<1>9. ASSUME NEW u \in U, u \notin spilled PROVE u \in U2
  <2>1. CASE u \in Phys
    BY <2>1
  <2>2. CASE u \notin Phys
    <3>1. PICK k \in 1..N : c[k].def = u /\ u # None
      BY <1>1, <1>9, <2>2 DEF Vregs
    <3> QED BY <1>6, <1>8, <1>9, <2>2, <3>1
  <2> QED BY <2>1, <2>2
<1>10. ASSUME NEW k \in 1..N, NEW m \in Nat, NEW a \in Nat, NEW b \in Nat, NEW f \in Nat, B(k, m, a, b, f)
       PROVE  InstrOK(p, c2[a + m + 1], U2, n2, t2) /\ c2[a + m + 1].orig = c[k].orig
  <2>1. /\ a + m + 1 \in 1..Len(c2) /\ c2[a + m + 1] = Rewritten(c[k], f) /\ c[k] \in Instr
        /\ m = Reloads(c[k]) /\ n =< f /\ InstrOK(p, c[k], U, n, t) /\ TempsOK(c[k], f) /\ f + m =< n2
        /\ c[k].def \in spilled => f + m + 2 =< n2
    BY <1>10 DEF B
  <2>2. PICK x, y, T : x = c[k] /\ y = c2[a + m + 1] /\ T = TempOf(c[k], f)
    BY Zenon
  <2>3. /\ y.op = x.op /\ y.clob = x.clob /\ y.slot = x.slot /\ y.jump = x.jump /\ y.orig = x.orig
        /\ y.def = IF x.def \in spilled THEN f + m ELSE x.def
        /\ Len(y.uses) = Len(x.uses)
        /\ \A j \in 1..Len(x.uses) : y.uses[j] = IF x.uses[j] \in spilled THEN T[x.uses[j]] ELSE x.uses[j]
    <3>1. x \in Instr /\ y = Rewritten(x, f) /\ m = Reloads(x) /\ T = TempOf(x, f)
      BY <2>1, <2>2
    <3> QED BY <3>1, RewrittenParts
  <2>4. InstrOK(p, x, U, n, t) /\ x \in Instr /\ y \in Instr /\ x.uses \in Seq(Int) /\ y.uses \in Seq(Int)
    <3>1. InstrOK(p, x, U, n, t) /\ x \in Instr
      BY <2>1, <2>2
    <3>2. y \in Instr
      BY <1>1, <2>1, <2>2
    <3> QED BY <3>1, <3>2 DEF Instr
  <2>5. \A v \in SpillReads(x) : \E j \in 1..m : T[v] = f + j - 1
    <3> TAKE v \in SpillReads(x)
    <3>1. PICK e \in Int : e = T[v] /\ f =< e /\ e =< f + m - 1
      <4>1. x = c[k] /\ T = TempOf(x, f) /\ TempsOK(x, f) /\ m = Cardinality(SpillReads(x))
        BY <2>1, <2>2 DEF Reloads
      <4>2. T[v] \in f..(f + m - 1)
        BY <4>1 DEF TempsOK
      <4> QED BY <4>2
    <3>2. e - f + 1 \in 1..m /\ e = f + (e - f + 1) - 1
      BY <3>1
    <3> QED BY <3>1, <3>2
  <2>6. ASSUME NEW j \in 1..Len(x.uses) PROVE y.uses[j] \in U2
    <3>1. CASE x.uses[j] \in spilled
      <4>1. x.uses[j] \in SpillReads(x)
        BY <2>4, <3>1 DEF SpillReads, UseRegs, ToSet
      <4>2. PICK i \in 1..m : T[x.uses[j]] = f + i - 1
        BY <2>5, <4>1
      <4>3. f + i - 1 \in U2
        BY <1>7, <1>10
      <4> QED BY <2>3, <3>1, <4>2, <4>3
    <3>2. CASE x.uses[j] \notin spilled
      <4>1. x.uses[j] \in U
        BY <2>4 DEF InstrOK
      <4> QED BY <1>9, <2>3, <3>2, <4>1
    <3> QED BY <3>1, <3>2
  <2>7. x.def \in {None} \cup Regs(n) /\ (x.def \in spilled => f + m \in Regs(n2) /\ f + m # None)
    <3>1. x.def \in {None} \cup Regs(n)
      BY <2>4 DEF InstrOK
    <3>2. x.def \in spilled => f + m \in 1..(n2 - 1)
      <4>1. ASSUME x.def \in spilled PROVE f + m >= 1 /\ f + m =< n2 - 1
        <5>1. PICK e \in Int : e > 0 /\ e < n
          BY <1>3, <4>1
        <5>2. f + m + 2 =< n2 /\ n =< f
          BY <2>1, <2>2, <4>1
        <5>3. n \in Nat /\ n2 \in Nat
          BY <1>2
        <5> QED BY <5>1, <5>2, <5>3
      <4> QED BY <1>2, <4>1
    <3> QED BY <1>3, <3>1, <3>2 DEF Regs
  <2>8. y.def \in {None} \cup Regs(n2) /\ (x.def # None => y.def # None) /\ (x.def = None => y.def = None)
    BY <1>2, <1>3, <2>3, <2>7
  <2>9. x.op = "save" => Len(y.uses) = 1 /\ y.uses[1] # y.def
    <3> SUFFICES ASSUME x.op = "save" PROVE Len(y.uses) = 1 /\ y.uses[1] # y.def
      OBVIOUS
    <3>1. /\ Len(x.uses) = 1 /\ x.uses[1] # x.def /\ x.uses[1] \in U /\ x.def \in Regs(n)
      BY <2>4, <2>7 DEF InstrOK
    <3>2. y.uses[1] = IF x.uses[1] \in spilled THEN T[x.uses[1]] ELSE x.uses[1]
      BY <2>3, <3>1
    <3>3. \A e \in Nat : e >= f => e \notin Regs(n)
      <4>1. \A e \in Nat : e >= f => e >= n
        BY <1>2, <2>1
      <4> QED BY <1>3, <4>1
    <3>4. f + m \notin Regs(n)
      BY <3>3
    <3>5. CASE x.uses[1] \in spilled
      <4>1. x.uses[1] \in SpillReads(x)
        BY <2>4, <3>1, <3>5 DEF SpillReads, UseRegs, ToSet
      <4>2. PICK i \in 1..m : T[x.uses[1]] = f + i - 1
        BY <2>5, <4>1
      <4>3. f + i - 1 # f + m /\ f + i - 1 \in Nat /\ f + i - 1 >= f
        OBVIOUS
      <4>4. y.uses[1] = f + i - 1
        BY <3>2, <3>5, <4>2
      <4> QED BY <2>3, <3>1, <3>3, <4>3, <4>4
    <3>6. CASE x.uses[1] \notin spilled
      BY <1>1, <2>3, <3>1, <3>2, <3>4, <3>6
    <3> QED BY <2>3, <3>1, <3>5, <3>6
  <2>10. x.op = "load" => y.uses = <<>>
    <3> SUFFICES ASSUME x.op = "load" PROVE y.uses = <<>>
      OBVIOUS
    <3>1. Len(y.uses) = 0
      BY <2>3, <2>4 DEF InstrOK
    <3> QED BY <2>4, <3>1, EmptySeq
  <2>11. y.slot \in 1..t => y.slot \in 1..t2
    BY <1>2
  <2>12. InstrOK(p, y, U2, n2, t2)
    <3>1. /\ y.orig \in DOMAIN p /\ y.def \in {None} \cup Regs(n2)
          /\ \A j \in 1..Len(y.uses) : y.uses[j] \in U2
      BY <2>3, <2>4, <2>6, <2>8 DEF InstrOK
    <3>2. y.jump \in {None} \cup DOMAIN p /\ (y.jump # None => y.def = None)
      BY <2>3, <2>4, <2>8 DEF InstrOK
    <3>3. y.op = "inst" => y.clob = p[y.orig].clob /\ Len(y.uses) = Len(p[y.orig].uses)
      BY <2>3, <2>4 DEF InstrOK
    <3>4. y.op # "inst" => y.clob = {} /\ y.jump = None /\ y.slot \in 1..t2 /\ y.def # None
      <4>1. x.op # "inst" => x.clob = {} /\ x.jump = None /\ x.slot \in 1..t /\ x.def # None
        BY <2>4 DEF InstrOK
      <4> QED BY <2>3, <2>8, <2>11, <4>1
    <3>5. (y.op = "load" => y.uses = <<>>) /\ (y.op = "save" => Len(y.uses) = 1 /\ y.uses[1] # y.def)
      <4>1. y.op = x.op
        BY <2>3
      <4> QED BY <2>9, <2>10, <4>1
    <3> QED BY <3>1, <3>2, <3>3, <3>4, <3>5 DEF InstrOK
  <2> QED BY <2>2, <2>3, <2>12
<1>11. ASSUME NEW k \in 1..N, NEW m \in Nat, NEW a \in Nat, NEW b \in Nat, NEW f \in Nat, B(k, m, a, b, f),
              c[k].def \in spilled
       PROVE  InstrOK(p, c2[b], U2, n2, t2)
  <2>1. /\ n =< f /\ c[k].orig \in DOMAIN p /\ f + m + 2 =< n2
        /\ c2[b] = SaveSlot(f + m, SlotOf(t)[c[k].def], f + m + 1, c[k].orig)
    BY <1>11 DEF B, InstrOK
  <2>2. PICK o, y, l : /\ o \in Nat /\ o = f + m /\ y = c2[b] /\ l = SlotOf(t)[c[k].def]
                       /\ y = SaveSlot(o, l, o + 1, c[k].orig)
    BY <2>1
  <2>3. /\ y.op = "save" /\ y.uses = <<o>> /\ y.def = o + 1 /\ y.clob = {} /\ y.slot = l /\ y.jump = None
        /\ y.orig = c[k].orig /\ o \in Nat
    BY <2>2 DEF SaveSlot
  <2>4. o \in U2
    <3>1. c[k].def # None /\ c[k].def \notin Phys
      BY <1>3, <1>11
    <3> QED BY <1>8, <1>11, <2>2, <3>1
  <2>5. o + 1 \in Regs(n2) /\ o + 1 # None /\ l \in 1..t2
    <3>1. o + 1 \in 1..(n2 - 1)
      <4>1. o + 2 =< n2 /\ n2 \in Nat /\ o \in Nat
        BY <1>2, <2>1, <2>2
      <4> QED BY <4>1
    <3>2. o + 1 \in Regs(n2) /\ o + 1 # None
      BY <3>1 DEF Regs, None
    <3>3. l \in 1..t2
      BY <1>2, <1>11, <2>2
    <3> QED BY <3>2, <3>3
  <2>6. Len(y.uses) = 1 /\ y.uses[1] = o /\ o # o + 1
    <3>1. o \in Nat => o # o + 1
      OBVIOUS
    <3> QED BY <2>3, <3>1
  <2>7. \A j \in 1..Len(y.uses) : y.uses[j] \in U2
    BY <2>4, <2>6
  <2>8. c[k].orig \in DOMAIN p /\ y.def \in {None} \cup Regs(n2) /\ y.def # None /\ y.slot \in 1..t2
    BY <2>1, <2>3, <2>5
  <2>9. Len(y.uses) = 1 /\ y.uses[1] # y.def
    BY <2>3, <2>6
  <2>10. InstrOK(p, y, U2, n2, t2)
    BY ONLY <2>3, <2>7, <2>8, <2>9 DEF InstrOK
  <2> QED BY <2>2, <2>10
<1>12. ASSUME NEW q \in 1..Len(c2) PROVE InstrOK(p, c2[q], U2, n2, t2)
  <2>1. PICK k \in 1..N : L[k - 1] < q /\ q =< L[k]
    BY <1>1, PlacesOfExpanded
  <2>2. PICK m \in Nat, a \in Nat, b \in Nat, f \in Nat : B(k, m, a, b, f)
    BY <1>6
  <2>3. a = L[k - 1] /\ b = L[k] /\ a < q /\ q =< b
    BY <2>1, <2>2 DEF B
  <2>4. c[k].def \notin spilled => b = a + m + 1
    BY <2>2 DEF B
  <2>5. PICK i \in Nat : q = a + i /\ i > 0
    <3>1. q - a \in Nat /\ q = a + (q - a) /\ q - a > 0
      BY <2>3
    <3> QED BY <3>1
  <2>6. CASE i \in 1..m
    BY <1>7, <2>2, <2>5, <2>6
  <2>7. CASE i = m + 1
    <3>1. q = a + m + 1
      BY <2>5, <2>7
    <3> QED BY <1>10, <2>2, <3>1
  <2>8. CASE i \notin 1..m /\ i # m + 1
    <3>1. a + i =< b
      BY <2>3, <2>5
    <3>2. i > m + 1
      BY <2>5, <2>8
    <3>3. c[k].def \in spilled
      BY <2>4, <3>1, <3>2
    <3>4. b = a + m + 2
      BY <2>2, <3>3 DEF B
    <3>5. q = b
      BY <2>5, <3>1, <3>2, <3>4
    <3> QED BY <1>11, <2>2, <3>3, <3>5
  <2> QED BY <2>6, <2>7, <2>8
<1>13. ASSUME NEW i \in DOMAIN p PROVE \E q \in DOMAIN c2 : c2[q].orig = i
  <2>1. PICK k \in 1..N : c[k].orig = i
    BY <1>1 DEF CodeOK
  <2>2. PICK m \in Nat, a \in Nat, b \in Nat, f \in Nat : B(k, m, a, b, f)
    BY <1>6
  <2>3. a + m + 1 \in 1..Len(c2)
    BY <2>2 DEF B
  <2>4. c2[a + m + 1].orig = c[k].orig
    BY <1>10, <2>2
  <2> QED BY <1>1, <2>1, <2>3, <2>4
<1> QED BY <1>1, <1>12, <1>13 DEF CodeOK

-----------------------------------------------------------------------------
\* At the start a register holds its own value and nothing else is claimed.
LEMMA StartClaims ==
  ASSUME NumRegs \in Nat, NEW p, WellFormed(p),
         NEW c, c = [k \in DOMAIN p |-> [p[k] EXCEPT !.orig = k]],
         NEW n, n = 1 + Cardinality(Vregs(p))
  PROVE  /\ n \in Nat /\ CodeOK(p, c, Phys \cup Vregs(c), n, 0)
         /\ \E R, M : Claims(p, c, n, 0, R, M)
<1> DEFINE V == Vregs(p)
           N == Len(p)
           F == [op : {"inst"}, uses : Seq(V \cup Phys), def : Int, clob : SUBSET Phys,
                 slot : {None}, jump : {None} \cup DOMAIN p, orig : {None}]
           R == [k \in DOMAIN c |-> [r \in Regs(n) |-> {r}]]
           M == [k \in DOMAIN c |-> [l \in 1..0 |-> {}]]
<1>1. p \in Seq(F) /\ V = 1..Cardinality(V) /\ \A k \in DOMAIN p : p[k].jump # None => p[k].def = None
  BY DEF WellFormed
<1>2. N \in Nat /\ DOMAIN p = 1..N /\ \A k \in 1..N : p[k] \in F
  <2> HIDE DEF F
  <2> QED BY <1>1, LenProperties
<1>3. IsFiniteSet(V) /\ Cardinality(V) \in Nat
  <2> DEFINE I == {p[k].def : k \in DOMAIN p}
  <2>1. IsFiniteSet(1..N)
    BY <1>2, FS_Interval
  <2>2. IsFiniteSet(I)
    <3> DEFINE g == [k \in 1..N |-> p[k].def]
    <3>1. g \in Surjection(1..N, I)
      BY <1>2 DEF Surjection
    <3> HIDE DEF I, g
    <3> QED BY <2>1, <3>1, FS_Surjection
  <2>3. V \in SUBSET I
    BY DEF Vregs
  <2> HIDE DEF I, V
  <2>4. IsFiniteSet(V)
    BY <2>2, <2>3, FS_Subset
  <2> QED BY <2>4, FS_CardinalityType
<1>4. n \in Nat /\ Regs(n) = Phys \cup V
  <2>1. PICK v \in Nat : v = Cardinality(V)
    BY <1>3
  <2>2. (1 + v) - 1 = v
    OBVIOUS
  <2> HIDE DEF V
  <2> QED BY <1>1, <2>1, <2>2 DEF Regs, V
<1>5. Src(p) = Regs(n)
  BY <1>4 DEF Src
<1>6. \A k \in 1..N : /\ c[k].op = "inst" /\ c[k].uses = p[k].uses /\ c[k].def = p[k].def
                      /\ c[k].clob = p[k].clob /\ c[k].slot = None /\ c[k].jump = p[k].jump
                      /\ c[k].orig = k /\ c[k] \in Instr
  <2> TAKE k \in 1..N
  <2>1. /\ p[k] \in F /\ c[k] = [p[k] EXCEPT !.orig = k]
    BY <1>2
  <2>2. V \subseteq Int /\ Phys \subseteq Int
    <3>1. V \subseteq Int
      <4>1. PICK v \in Nat : v = Cardinality(V)
        BY <1>3
      <4>2. 1..v \subseteq Int
        OBVIOUS
      <4> HIDE DEF V
      <4> QED BY <1>1, <4>1, <4>2
    <3>2. Phys \subseteq Int
      BY DEF Phys
    <3> QED BY <3>1, <3>2
  <2>3. p[k].uses \in Seq(Int)
    <3>1. p[k].uses \in Seq(V \cup Phys) /\ V \cup Phys \subseteq Int
      BY <2>1, <2>2
    <3> HIDE DEF V
    <3> QED BY <3>1
  <2>4. k \in Int /\ DOMAIN p \subseteq Int
    BY <1>2
  <2> HIDE DEF V
  <2>5. PICK f : f \in F /\ f = p[k]
    BY <2>1
  <2>6. c[k] = [f EXCEPT !.orig = k]
    BY <2>1, <2>5
  <2>7. c[k] = [op |-> f.op, uses |-> f.uses, def |-> f.def, clob |-> f.clob, slot |-> f.slot,
                jump |-> f.jump, orig |-> k]
    BY <2>5, <2>6
  <2>8. /\ f.op = "inst" /\ f.uses \in Seq(Int) /\ f.def \in Int /\ f.clob \in SUBSET Phys
        /\ f.slot = None /\ f.jump \in Int /\ k \in Int
    BY <2>3, <2>4, <2>5 DEF None
  <2> HIDE DEF F
  <2>9. c[k] \in Instr
    <3>1. /\ f.op \in {"inst", "load", "save"} /\ f.uses \in Seq(Int) /\ f.def \in Int
          /\ f.clob \in SUBSET Phys /\ f.slot \in Int /\ f.jump \in Int /\ k \in Int
      BY <2>8 DEF None
    <3> QED BY ONLY <2>7, <3>1 DEF Instr
  <2> QED BY <2>5, <2>7, <2>8, <2>9
<1>7. DOMAIN c = 1..N /\ c \in Seq(Instr) /\ Len(c) = N
  BY <1>2, <1>6
<1>8. Vregs(c) = V
  <2>1. {c[k].def : k \in DOMAIN c} = {p[k].def : k \in DOMAIN p}
    BY <1>2, <1>6, <1>7
  <2> QED BY <2>1 DEF Vregs
<1>9. ASSUME NEW k \in 1..N
      PROVE  /\ c[k].def \in {None} \cup Regs(n) /\ \A j \in 1..Len(c[k].uses) : c[k].uses[j] \in Phys \cup V
             /\ c[k].jump \in {None} \cup DOMAIN p /\ (c[k].jump # None => c[k].def = None)
  <2>1. p[k].def \in {None} \cup Phys \cup V
    BY <1>2 DEF Vregs
  <2>2. p[k].uses \in Seq(V \cup Phys) /\ p[k].jump \in {None} \cup DOMAIN p
    BY <1>2
  <2>3. p[k].jump # None => p[k].def = None
    BY <1>1, <1>2
  <2> HIDE DEF V
  <2>4. \A j \in 1..Len(p[k].uses) : p[k].uses[j] \in Phys \cup V
    BY <2>2
  <2> QED BY <1>4, <1>6, <2>1, <2>2, <2>3, <2>4 DEF V
<1>10. CodeOK(p, c, Phys \cup Vregs(c), n, 0)
  <2>1. ASSUME NEW k \in DOMAIN c PROVE InstrOK(p, c[k], Phys \cup V, n, 0)
    <3>1. k \in 1..N
      BY <1>7
    <3> HIDE DEF V, F
    <3> QED BY <1>2, <1>6, <1>9, <3>1 DEF InstrOK
  <2>2. \A i \in DOMAIN p : \E k \in DOMAIN c : c[k].orig = i
    BY <1>2, <1>6, <1>7
  <2> HIDE DEF V
  <2> QED BY <1>7, <1>8, <2>1, <2>2 DEF CodeOK
<1>11. /\ R \in [DOMAIN c -> [Regs(n) -> SUBSET Src(p)]]
       /\ M \in [DOMAIN c -> [1..0 -> SUBSET Src(p)]]
  BY <1>5
<1>12. ASSUME NEW k \in DOMAIN c PROVE Reads(p, c[k], R[k])
  <2>1. k \in 1..N /\ c[k].uses = p[k].uses /\ c[k].orig = k
    BY <1>6, <1>7, <1>12
  <2>2. \A j \in 1..Len(c[k].uses) : c[k].uses[j] \in Regs(n)
    BY <1>4, <1>9, <2>1
  <2> HIDE DEF V, F
  <2> QED BY <2>1, <2>2 DEF Reads
<1>13. ASSUME NEW k \in DOMAIN c, NEW m \in SuccsIn(c, k) PROVE Carries(p, c[k], R[k], M[k], R[m], M[m])
  <2>1. /\ k \in 1..N /\ m \in DOMAIN c /\ c[k].op = "inst" /\ c[k].orig = k
        /\ DefRegs(c[k]) = DefRegs(p[k])
    BY <1>6, <1>7, <1>13 DEF SuccsIn, DefRegs
  <2> HIDE DEF V, F
  <2>2. DOMAIN R[m] = Regs(n) /\ \A r \in Regs(n) : R[k][r] = {r} /\ R[m][r] = {r}
    BY <2>1
  <2>3. DOMAIN M[m] = 1..0 /\ 1..0 = {}
    BY <2>1
  <2> HIDE DEF R, M
  <2>4. \A r \in DOMAIN R[m] : \A s \in R[m][r] : s = r /\ s \in R[k][r]
    BY <2>2
  <2>5. \A l \in DOMAIN M[m] : FALSE
    BY <2>3
  <2>6. c[k].op # "load" /\ c[k].op # "save"
    BY <2>1
  <2> QED BY <2>1, <2>4, <2>5, <2>6 DEF Carries
<1>14. Claims(p, c, n, 0, R, M)
  <2> HIDE DEF R, M
  <2> QED BY <1>11, <1>12, <1>13 DEF Claims
<1> HIDE DEF R, M
<1> QED BY <1>4, <1>10, <1>14

-----------------------------------------------------------------------------
\* The interference graph keeps apart what is written and what is live then; a
\* colouring gives different registers to what the graph keeps apart.
LivenessOn(c, in) ==
  \A k \in DOMAIN c : /\ UseRegs(c[k]) \subseteq in[k]
                      /\ \A m \in SuccsIn(c, k) : in[m] \ DefRegs(c[k]) \subseteq in[k]
Apart(d, x) == /\ d > 0 /\ x > 0 /\ d # x => {d, x} \in edges
               /\ d > 0 /\ x < 0 => <<d, x>> \in forbidden
               /\ d < 0 /\ x > 0 => <<x, d>> \in forbidden
GraphOK(c, in) ==
  /\ LivenessOn(c, in)
  /\ \A k \in DOMAIN c : \A m \in SuccsIn(c, k) : \A d \in DefRegs(c[k]), x \in in[m] : Apart(d, x)
  /\ \A k \in DOMAIN c : c[k].op = "save" => Apart(c[k].def, c[k].uses[1])
ColouringOK ==
  /\ \A v \in DOMAIN assigned : assigned[v] \in Phys /\ <<v, assigned[v]>> \notin forbidden
  /\ \A v, w \in DOMAIN assigned : {v, w} \in edges /\ v # w => assigned[v] # assigned[w]

LEMMA ColoursDiffer ==
  ASSUME NumRegs \in Nat, ColouringOK, NEW n \in Nat, DOMAIN assigned \subseteq 1..(n - 1),
         NEW d, NEW x, d \in Phys \cup DOMAIN assigned, x \in Phys \cup DOMAIN assigned,
         d # x, Apart(d, x)
  PROVE  Replaced(assigned, d) # Replaced(assigned, x)
<1>1. /\ \A r \in Phys : r \in Int /\ r < 0 /\ r \notin DOMAIN assigned
      /\ \A v \in DOMAIN assigned : v \in Int /\ v > 0
  BY DEF Phys
<1>2. CASE d \in Phys /\ x \in Phys
  BY <1>1, <1>2 DEF Replaced
<1>3. CASE d \in Phys /\ x \in DOMAIN assigned
  BY <1>1, <1>3 DEF Replaced, ColouringOK, Apart
<1>4. CASE d \in DOMAIN assigned /\ x \in Phys
  BY <1>1, <1>4 DEF Replaced, ColouringOK, Apart
<1>5. CASE d \in DOMAIN assigned /\ x \in DOMAIN assigned
  BY <1>1, <1>5 DEF Replaced, ColouringOK, Apart
<1> QED BY <1>2, <1>3, <1>4, <1>5

\* An instruction with the registers of its vregs.
LEMMA ColouredParts ==
  ASSUME NEW x \in Instr, NEW y, y = RewriteVreg(x, assigned, assigned)
  PROVE  /\ y.op = x.op /\ y.clob = x.clob /\ y.slot = x.slot /\ y.jump = x.jump /\ y.orig = x.orig
         /\ y.def = Replaced(assigned, x.def)
         /\ y.uses = [j \in 1..Len(x.uses) |-> Replaced(assigned, x.uses[j])]
         /\ Len(y.uses) = Len(x.uses)
         /\ \A j \in 1..Len(x.uses) : y.uses[j] = Replaced(assigned, x.uses[j])
<1>1. x.uses \in Seq(Int) /\ DOMAIN x.uses = 1..Len(x.uses) /\ Len(x.uses) \in Nat
  BY DEF Instr
<1>2. /\ y.op = x.op /\ y.clob = x.clob /\ y.slot = x.slot /\ y.jump = x.jump /\ y.orig = x.orig
      /\ y.def = Replaced(assigned, x.def)
      /\ y.uses = [j \in 1..Len(x.uses) |-> Replaced(assigned, x.uses[j])]
  BY <1>1 DEF RewriteVreg, Instr
<1> QED BY <1>1, <1>2

\* The colouring of a whole function.
Colouring(p, c, n, t, in, c2) ==
  /\ NumRegs \in Nat /\ n \in Nat /\ t \in Nat /\ CodeOK(p, c, Phys \cup Vregs(c), n, t)
  /\ GraphOK(c, in) /\ ColouringOK /\ DOMAIN assigned = Vregs(c)
  /\ c2 = [k \in DOMAIN c |-> RewriteVreg(c[k], assigned, assigned)]

InstrsOf(p, c, n, t, c2) ==
  /\ DOMAIN c = 1..Len(c) /\ Len(c) \in Nat /\ DOMAIN c2 = DOMAIN c /\ Len(c2) = Len(c)
  /\ \A k \in DOMAIN c : /\ c[k] \in Instr /\ InstrOK(p, c[k], Phys \cup Vregs(c), n, t)
                         /\ c2[k] = RewriteVreg(c[k], assigned, assigned)

LEMMA ColouringNumbers ==
  ASSUME NEW p, NEW c, NEW n, NEW t, NEW in, NEW c2, Colouring(p, c, n, t, in, c2)
  PROVE  /\ NumRegs \in Nat /\ n \in Nat /\ Vregs(c) \subseteq 1..(n - 1) /\ Regs(1) = Phys
         /\ Phys \subseteq Regs(n) /\ Vregs(c) \subseteq Regs(n) /\ None \notin Phys
         /\ Replaced(assigned, None) = None
         /\ \A r \in Phys : r \in Int /\ r < 0 /\ Replaced(assigned, r) = r
         /\ \A v \in Vregs(c) : Replaced(assigned, v) \in Phys
         /\ \A r : Replaced(assigned, r) \in Phys => r \in Phys \cup Vregs(c)
         /\ InstrsOf(p, c, n, t, c2)
<1>1. /\ NumRegs \in Nat /\ n \in Nat /\ CodeOK(p, c, Phys \cup Vregs(c), n, t)
      /\ ColouringOK /\ DOMAIN assigned = Vregs(c)
      /\ c2 = [k \in DOMAIN c |-> RewriteVreg(c[k], assigned, assigned)]
  BY DEF Colouring
<1>2. DOMAIN c = 1..Len(c) /\ Len(c) \in Nat /\ c \in Seq(Instr)
  BY <1>1, LenProperties DEF CodeOK
<1>3. \A k \in DOMAIN c : c[k] \in Instr /\ InstrOK(p, c[k], Phys \cup Vregs(c), n, t)
  <2>1. \A k \in DOMAIN c : InstrOK(p, c[k], Phys \cup Vregs(c), n, t)
    BY <1>1 DEF CodeOK
  <2>2. \A k \in DOMAIN c : c[k] \in Instr
    BY <1>2
  <2> QED BY <2>1, <2>2
<1>4. Vregs(c) \subseteq 1..(n - 1)
  BY <1>3 DEF Vregs, InstrOK, Regs
<1>5. \A r \in Phys : r \in Int /\ r < 0
  BY <1>1 DEF Phys
<1>6. Regs(1) = Phys
  BY DEF Regs
<1>7. /\ None \notin Phys /\ None \notin Vregs(c) /\ \A r \in Phys : r \notin Vregs(c)
  BY <1>5 DEF None, Vregs
<1>8. DOMAIN c2 = DOMAIN c /\ Len(c2) = Len(c)
  BY <1>1, <1>2
<1>9. /\ Replaced(assigned, None) = None
      /\ \A r \in Phys : Replaced(assigned, r) = r
      /\ \A v \in Vregs(c) : Replaced(assigned, v) \in Phys
      /\ \A r : Replaced(assigned, r) \in Phys => r \in Phys \cup Vregs(c)
  BY <1>1, <1>7 DEF Replaced, ColouringOK
<1>10. Phys \subseteq Regs(n) /\ Vregs(c) \subseteq Regs(n)
  BY <1>4 DEF Regs
<1>11. \A k \in DOMAIN c : c2[k] = RewriteVreg(c[k], assigned, assigned)
  BY <1>1
<1>12. InstrsOf(p, c, n, t, c2)
  BY <1>2, <1>3, <1>8, <1>11 DEF InstrsOf
<1> QED BY <1>1, <1>4, <1>5, <1>6, <1>7, <1>9, <1>10, <1>12

LEMMA ColouredCode ==
  ASSUME NEW p, NEW c, NEW n, NEW t, NEW in, NEW c2, Colouring(p, c, n, t, in, c2)
  PROVE  CodeOK(p, c2, Phys, 1, t)
<1> DEFINE A(r) == Replaced(assigned, r)
<1>1. /\ NumRegs \in Nat /\ n \in Nat /\ Vregs(c) \subseteq 1..(n - 1) /\ Regs(1) = Phys
      /\ None \notin Phys /\ A(None) = None
      /\ \A r \in Phys : r \in Int /\ r < 0 /\ A(r) = r
      /\ \A v \in Vregs(c) : A(v) \in Phys
      /\ DOMAIN c = 1..Len(c) /\ Len(c) \in Nat /\ DOMAIN c2 = DOMAIN c /\ Len(c2) = Len(c)
      /\ \A k \in DOMAIN c : /\ c[k] \in Instr /\ InstrOK(p, c[k], Phys \cup Vregs(c), n, t)
                             /\ c2[k] = RewriteVreg(c[k], assigned, assigned)
  <2>1. /\ NumRegs \in Nat /\ n \in Nat /\ Vregs(c) \subseteq 1..(n - 1) /\ Regs(1) = Phys
        /\ None \notin Phys /\ Replaced(assigned, None) = None
        /\ \A r \in Phys : r \in Int /\ r < 0 /\ Replaced(assigned, r) = r
        /\ \A v \in Vregs(c) : Replaced(assigned, v) \in Phys
    BY ColouringNumbers
  <2>2. InstrsOf(p, c, n, t, c2)
    BY ColouringNumbers
  <2> QED BY <2>1, <2>2 DEF InstrsOf
<1>2. /\ ColouringOK /\ DOMAIN assigned = Vregs(c) /\ GraphOK(c, in) /\ CodeOK(p, c, Phys \cup Vregs(c), n, t)
      /\ c2 = [k \in DOMAIN c |-> RewriteVreg(c[k], assigned, assigned)]
  BY DEF Colouring
<1>3. ASSUME NEW k \in DOMAIN c PROVE c2[k] \in Instr /\ InstrOK(p, c2[k], Phys, 1, t) /\ c2[k].orig = c[k].orig
  <2>1. PICK x, y : x = c[k] /\ y = c2[k]
    OBVIOUS
  <2>2. x \in Instr /\ InstrOK(p, x, Phys \cup Vregs(c), n, t) /\ y = RewriteVreg(x, assigned, assigned)
    BY <1>1, <2>1
  <2>3. /\ y.op = x.op /\ y.clob = x.clob /\ y.slot = x.slot /\ y.jump = x.jump /\ y.orig = x.orig
        /\ y.def = A(x.def) /\ y.uses = [j \in 1..Len(x.uses) |-> A(x.uses[j])]
        /\ Len(y.uses) = Len(x.uses) /\ \A j \in 1..Len(x.uses) : y.uses[j] = A(x.uses[j])
    BY <2>2, ColouredParts
  <2>4. x.def # None => x.def \in Phys \cup Vregs(c)
    <3>1. k \in DOMAIN c /\ x.def \in {c[i].def : i \in DOMAIN c}
      BY <2>1
    <3> QED BY <3>1 DEF Vregs
  <2>5. y.def \in {None} \cup Phys /\ (x.def # None => y.def # None) /\ (x.def = None => y.def = None)
    BY <1>1, <2>3, <2>4
  <2>6. \A j \in 1..Len(x.uses) : x.uses[j] \in Phys \cup Vregs(c) /\ y.uses[j] \in Phys
    <3>1. \A j \in 1..Len(x.uses) : x.uses[j] \in Phys \cup Vregs(c)
      BY <2>2 DEF InstrOK
    <3> QED BY <1>1, <2>3, <3>1
  <2>7. x.op = "save" => Len(y.uses) = 1 /\ y.uses[1] # y.def
    <3> SUFFICES ASSUME x.op = "save" PROVE Len(y.uses) = 1 /\ y.uses[1] # y.def
      OBVIOUS
    <3>1. Len(x.uses) = 1 /\ x.uses[1] # x.def /\ x.def # None /\ x.uses[1] \in Phys \cup Vregs(c)
      BY <2>2 DEF InstrOK
    <3>2. Apart(x.def, x.uses[1])
      BY <1>2, <2>1 DEF GraphOK
    <3>3. PICK d, u : d = x.def /\ u = x.uses[1]
      OBVIOUS
    <3>4. A(d) # A(u)
      BY <1>1, <1>2, <2>4, <3>1, <3>2, <3>3, ColoursDiffer
    <3> QED BY <2>3, <3>1, <3>3, <3>4
  <2>8. x.op = "load" => y.uses = <<>>
    <3> SUFFICES ASSUME x.op = "load" PROVE y.uses = <<>>
      OBVIOUS
    <3>1. Len(x.uses) = 0
      BY <2>2 DEF InstrOK
    <3>2. y.uses = [j \in 1..0 |-> A(x.uses[j])]
      BY <2>3, <3>1
    <3> HIDE DEF A
    <3> QED BY <3>2
  <2>9. /\ x.op \in {"inst", "load", "save"} /\ x.clob \in SUBSET Phys /\ x.slot \in Int /\ x.jump \in Int
        /\ x.orig \in Int /\ Len(x.uses) \in Nat
    BY <2>2 DEF Instr
  <2>10. y.uses \in Seq(Int) /\ y.def \in Int
    <3>1. \A j \in 1..Len(x.uses) : A(x.uses[j]) \in Int
      BY <1>1, <2>3, <2>6
    <3>2. y.uses \in [1..Len(x.uses) -> Int]
      BY <2>3, <3>1
    <3>3. y.uses \in Seq(Int)
      BY <2>9, <3>2
    <3> QED BY <1>1, <2>5, <3>3 DEF None
  <2>11. y \in Instr
    <3>1. y = [op |-> x.op, uses |-> y.uses, def |-> y.def, clob |-> x.clob, slot |-> x.slot,
               jump |-> x.jump, orig |-> x.orig]
      BY <2>2, <2>3 DEF RewriteVreg, Instr
    <3> QED BY ONLY <2>9, <2>10, <3>1 DEF Instr
  <2>12. InstrOK(p, y, Phys, 1, t)
    <3>1. y.def \in {None} \cup Regs(1)
      BY <1>1, <2>5
    <3>2. \A j \in 1..Len(y.uses) : y.uses[j] \in Phys
      BY <2>3, <2>6
    <3>3. /\ x.orig \in DOMAIN p /\ x.jump \in {None} \cup DOMAIN p /\ (x.jump # None => x.def = None)
          /\ x.op = "inst" => x.clob = p[x.orig].clob /\ Len(x.uses) = Len(p[x.orig].uses)
          /\ x.op # "inst" => x.clob = {} /\ x.jump = None /\ x.slot \in 1..t /\ x.def # None
      BY <2>2 DEF InstrOK
    <3> QED BY <2>3, <2>5, <2>7, <2>8, <3>1, <3>2, <3>3 DEF InstrOK
  <2> QED BY <2>1, <2>3, <2>11, <2>12
<1>4. c2 \in Seq(Instr)
  BY <1>1, <1>2, <1>3
<1>5. \A i \in DOMAIN p : \E k \in DOMAIN c2 : c2[k].orig = i
  BY <1>1, <1>2, <1>3 DEF CodeOK
<1> QED BY <1>1, <1>3, <1>4, <1>5 DEF CodeOK

\* The first instruction of each source instruction stays where it was.
LEMMA ColouredSuccs ==
  ASSUME NEW p, NEW c, NEW n, NEW t, NEW in, NEW c2, Colouring(p, c, n, t, in, c2),
         NEW k \in DOMAIN c, NEW m \in SuccsIn(c2, k)
  PROVE  m \in SuccsIn(c, k)
<1>1. InstrsOf(p, c, n, t, c2)
  BY ColouringNumbers
<1>2. DOMAIN c2 = DOMAIN c /\ \A i \in DOMAIN c : c2[i].jump = c[i].jump /\ c2[i].orig = c[i].orig
  <2>1. ASSUME NEW i \in DOMAIN c PROVE c2[i].jump = c[i].jump /\ c2[i].orig = c[i].orig
    <3>1. c[i] \in Instr /\ c2[i] = RewriteVreg(c[i], assigned, assigned)
      BY <1>1 DEF InstrsOf
    <3> QED BY <3>1, ColouredParts
  <2> QED BY <1>1, <2>1 DEF InstrsOf
<1>3. CodeOK(p, c2, Phys, 1, t) /\ CodeOK(p, c, Phys \cup Vregs(c), n, t)
  BY ColouredCode DEF Colouring
<1>4. ASSUME NEW g \in DOMAIN p PROVE StartIn(c2, g) = StartIn(c, g)
  <2>1. c \in Seq(Instr) /\ c2 \in Seq(Instr) /\ DOMAIN c = 1..Len(c) /\ DOMAIN c2 = 1..Len(c2)
    BY <1>3 DEF CodeOK
  <2>2. PICK s \in 1..Len(c) : /\ s = StartIn(c, g) /\ c[s].orig = g
                               /\ \A i \in 1..(s - 1) : c[i].orig # g
    <3>1. \E i \in DOMAIN c : c[i].orig = g
      BY <1>3 DEF CodeOK
    <3> QED BY <2>1, <3>1, StartOf
  <2>3. s \in 1..Len(c2) /\ c2[s].orig = g
    BY <1>2, <2>1, <2>2
  <2>4. \A i \in 1..(s - 1) : i \in DOMAIN c
    BY <2>1, <2>2
  <2>5. \A i \in 1..(s - 1) : c2[i].orig # g
    BY <1>2, <2>2, <2>4
  <2> QED BY <2>1, <2>2, <2>3, <2>5, StartIsUnique
<1>5. c[k].jump # None => c[k].jump \in DOMAIN p
  BY <1>1 DEF InstrsOf, InstrOK
<1> QED BY <1>2, <1>4, <1>5 DEF SuccsIn

\* The same, in one name.
ColouredAs(x, y) ==
  /\ y.op = x.op /\ y.clob = x.clob /\ y.slot = x.slot /\ y.jump = x.jump /\ y.orig = x.orig
  /\ y.def = Replaced(assigned, x.def) /\ Len(y.uses) = Len(x.uses)
  /\ \A j \in 1..Len(x.uses) : y.uses[j] = Replaced(assigned, x.uses[j])

LEMMA ColouredInstr ==
  ASSUME NEW x \in Instr, NEW y, y = RewriteVreg(x, assigned, assigned)
  PROVE  ColouredAs(x, y)
BY ColouredParts DEF ColouredAs

\* The coloured instruction carries, in the registers of live vregs, what the
\* instruction carried.
LEMMA ColouredCarries ==
  ASSUME NEW p, NEW c, NEW n, NEW t, NEW in, NEW c2, Colouring(p, c, n, t, in, c2),
         NEW k \in DOMAIN c, NEW m \in SuccsIn(c, k),
         NEW r1, NEW m1, NEW r2, NEW m2, NEW q1, NEW q2, NEW x, x = c[k], NEW y, y = c2[k],
         Carries(p, x, r1, m1, r2, m2), DOMAIN r2 = Regs(n),
         \A r \in Regs(n) : r \in in[k] /\ Replaced(assigned, r) \in Phys
             => \A s \in r1[r] : s \in q1[Replaced(assigned, r)],
         DOMAIN q2 = Phys,
         \A a \in Phys : \A s \in q2[a] :
            \E r \in Regs(n) : r \in in[m] /\ Replaced(assigned, r) = a /\ s \in r2[r]
  PROVE  Carries(p, y, q1, m1, q2, m2)
<1> DEFINE A(r) == Replaced(assigned, r)
<1>1. /\ NumRegs \in Nat /\ n \in Nat /\ Vregs(c) \subseteq 1..(n - 1) /\ Phys \subseteq Regs(n)
      /\ Vregs(c) \subseteq Regs(n) /\ None \notin Phys /\ A(None) = None
      /\ \A r \in Phys : A(r) = r
      /\ \A v \in Vregs(c) : A(v) \in Phys
      /\ \A r : A(r) \in Phys => r \in Phys \cup Vregs(c)
  BY ColouringNumbers
<1>2. /\ ColouringOK /\ DOMAIN assigned = Vregs(c) /\ GraphOK(c, in) /\ InstrsOf(p, c, n, t, c2)
  BY ColouringNumbers DEF Colouring
<1>3. /\ x \in Instr /\ InstrOK(p, x, Phys \cup Vregs(c), n, t) /\ y = RewriteVreg(x, assigned, assigned)
  BY <1>2 DEF InstrsOf
<1>4. /\ y.op = x.op /\ y.clob = x.clob /\ y.slot = x.slot /\ y.jump = x.jump /\ y.orig = x.orig
      /\ y.def = A(x.def) /\ Len(y.uses) = Len(x.uses)
      /\ \A j \in 1..Len(x.uses) : y.uses[j] = A(x.uses[j])
  <2>1. /\ y.op = x.op /\ y.clob = x.clob /\ y.slot = x.slot /\ y.jump = x.jump /\ y.orig = x.orig
        /\ y.def = Replaced(assigned, x.def) /\ Len(y.uses) = Len(x.uses)
        /\ \A j \in 1..Len(x.uses) : y.uses[j] = Replaced(assigned, x.uses[j])
    <3>1. ColouredAs(x, y)
      BY <1>3, ColouredInstr
    <3> QED BY <3>1 DEF ColouredAs
  <2> QED BY <2>1
<1>5. /\ \A r \in in[m] : r \notin DefRegs(x) => r \in in[k]
      /\ \A d \in DefRegs(x), r \in in[m] : Apart(d, r)
      /\ \A u \in UseRegs(x) : u \in in[k]
  BY <1>2 DEF GraphOK, LivenessOn
<1>6. ASSUME NEW d \in DefRegs(x), NEW r \in in[m], A(d) \in Phys, A(r) \in Phys, d # r
      PROVE  A(d) # A(r)
  <2>1. d \in Phys \cup DOMAIN assigned /\ r \in Phys \cup DOMAIN assigned /\ Apart(d, r)
    BY <1>1, <1>2, <1>5, <1>6
  <2> QED BY <1>1, <1>2, <1>6, <2>1, ColoursDiffer
<1>7. x.def # None => x.def \in DefRegs(x)
  BY DEF DefRegs
<1>8. x.clob \subseteq Phys /\ x.clob \subseteq DefRegs(x) /\ x.op \in {"inst", "load", "save"}
  BY <1>1, <1>3 DEF DefRegs, Instr
<1> HIDE DEF A
<1>9. \A a \in Phys : \A s \in q2[a] : \E r \in Regs(n) : r \in in[m] /\ A(r) = a /\ s \in r2[r]
  BY DEF A
<1>10. ASSUME NEW r \in in[m], r \in Regs(n), r \notin DefRegs(x), A(r) \in Phys
       PROVE  (\A s \in r1[r] : s \in q1[A(r)]) /\ A(r) \notin DefRegs(y)
  <2>1. \A s \in r1[r] : s \in q1[A(r)]
    BY <1>5, <1>10 DEF A
  <2>2. A(r) # y.def
    BY <1>1, <1>4, <1>6, <1>7, <1>10
  <2>3. A(r) \notin x.clob
    BY <1>1, <1>6, <1>8, <1>10
  <2> QED BY <1>4, <2>1, <2>2, <2>3 DEF DefRegs
<1>11. ASSUME NEW r \in DefRegs(x), A(r) \in Phys PROVE A(r) \in DefRegs(y)
  <2>1. r = x.def \/ r \in x.clob
    BY DEF DefRegs
  <2> QED BY <1>1, <1>4, <1>8, <1>11, <2>1 DEF DefRegs
<1>12. CASE x.op = "inst"
  <2>1. /\ \A r \in Regs(n) : \A s \in r2[r] :
            \/ r \in DefRegs(x) /\ s \in DefRegs(p[x.orig])
            \/ r \notin DefRegs(x) /\ s \notin DefRegs(p[x.orig]) /\ s \in r1[r]
        /\ \A l \in DOMAIN m2 : \A s \in m2[l] : s \notin DefRegs(p[x.orig]) /\ s \in m1[l]
    BY <1>12 DEF Carries
  <2>2. ASSUME NEW a \in Phys, NEW s \in q2[a]
        PROVE  \/ a \in DefRegs(y) /\ s \in DefRegs(p[x.orig])
               \/ a \notin DefRegs(y) /\ s \notin DefRegs(p[x.orig]) /\ s \in q1[a]
    <3>1. PICK r \in Regs(n) : r \in in[m] /\ A(r) = a /\ s \in r2[r]
      BY <1>9
    <3> QED BY <1>10, <1>11, <2>1, <3>1
  <2> QED BY <1>4, <1>12, <2>1, <2>2 DEF Carries
<1>13. CASE x.op = "load"
  <2>1. /\ \A r \in Regs(n) : \A s \in r2[r] : IF r = x.def THEN s \in m1[x.slot] ELSE s \in r1[r]
        /\ \A l \in DOMAIN m2 : \A s \in m2[l] : s \in m1[l]
    BY <1>13 DEF Carries
  <2>2. DefRegs(x) \subseteq {x.def} /\ x.def # None /\ y.clob = {} /\ y.def \in DefRegs(y)
    <3>1. x.clob = {} /\ x.def # None /\ (x.def \in Phys \/ x.def \in Vregs(c))
      BY <1>3, <1>13, <1>2 DEF InstrOK, Regs, Vregs, InstrsOf
    <3> QED BY <1>1, <1>4, <3>1 DEF DefRegs
  <2>3. ASSUME NEW a \in Phys, NEW s \in q2[a] PROVE IF a = y.def THEN s \in m1[x.slot] ELSE s \in q1[a]
    <3>1. PICK r \in Regs(n) : r \in in[m] /\ A(r) = a /\ s \in r2[r]
      BY <1>9
    <3>2. CASE r = x.def
      BY <1>4, <2>1, <3>1, <3>2
    <3>3. CASE r # x.def
      <4>1. r \notin DefRegs(x) /\ s \in r1[r]
        BY <2>1, <2>2, <3>1, <3>3
      <4>2. s \in q1[a] /\ a \notin DefRegs(y)
        BY <1>10, <3>1, <4>1
      <4> QED BY <2>2, <4>2
    <3> QED BY <3>2, <3>3
  <2> QED BY <1>4, <1>13, <2>1, <2>3 DEF Carries
<1>14. CASE x.op = "save"
  <2>1. /\ \A r \in Regs(n) : \A s \in r2[r] : r # x.def /\ s \in r1[r]
        /\ \A l \in DOMAIN m2 : \A s \in m2[l] : IF l = x.slot THEN s \in r1[x.uses[1]] ELSE s \in m1[l]
    BY <1>14 DEF Carries
  <2>2. DefRegs(x) \subseteq {x.def} /\ x.def # None /\ y.def \in DefRegs(y)
    <3>1. x.clob = {} /\ x.def # None /\ (x.def \in Phys \/ x.def \in Vregs(c))
      BY <1>3, <1>14, <1>2 DEF InstrOK, Regs, Vregs, InstrsOf
    <3> QED BY <1>1, <1>4, <3>1 DEF DefRegs
  <2>3. ASSUME NEW a \in Phys, NEW s \in q2[a] PROVE a # y.def /\ s \in q1[a]
    <3>1. PICK r \in Regs(n) : r \in in[m] /\ A(r) = a /\ s \in r2[r]
      BY <1>9
    <3>2. r \notin DefRegs(x) /\ s \in r1[r]
      BY <2>1, <2>2, <3>1
    <3>3. s \in q1[a] /\ a \notin DefRegs(y)
      BY <1>10, <3>1, <3>2
    <3> QED BY <2>2, <3>3
  <2>4. \A s \in r1[x.uses[1]] : s \in q1[y.uses[1]]
    <3>1. Len(x.uses) = 1 /\ x.uses[1] \in Phys \cup Vregs(c) /\ y.uses[1] = A(x.uses[1])
      BY <1>3, <1>4, <1>14 DEF InstrOK
    <3>2. x.uses[1] \in UseRegs(x)
      BY <1>3, <3>1 DEF UseRegs, ToSet, Instr
    <3>3. x.uses[1] \in Regs(n) /\ A(x.uses[1]) \in Phys /\ x.uses[1] \in in[k]
      BY <1>1, <1>5, <3>1, <3>2
    <3> QED BY <3>1, <3>3 DEF A
  <2> QED BY <1>4, <1>14, <2>1, <2>3, <2>4 DEF Carries
<1> QED BY <1>8, <1>12, <1>13, <1>14

\* A colouring keeps the claims, those on the vregs that are live.
LEMMA ColouredClaims ==
  ASSUME NEW p, NEW c, NEW n, NEW t, NEW in, NEW c2, Colouring(p, c, n, t, in, c2),
         NEW R, NEW M, Claims(p, c, n, t, R, M)
  PROVE  \E R2, M2 : Claims(p, c2, 1, t, R2, M2)
<1> DEFINE A(r) == Replaced(assigned, r)
           R2 == [k \in DOMAIN c2 |-> [a \in Phys |->
                    {s \in Src(p) : \E r \in Regs(n) : r \in in[k] /\ A(r) = a /\ s \in R[k][r]}]]
<1>1. /\ Regs(1) = Phys /\ Phys \subseteq Regs(n) /\ Vregs(c) \subseteq Regs(n)
      /\ \A r \in Phys : A(r) = r
      /\ \A v \in Vregs(c) : A(v) \in Phys
  BY ColouringNumbers
<1>2. InstrsOf(p, c, n, t, c2) /\ GraphOK(c, in)
  BY ColouringNumbers DEF Colouring
<1>3. DOMAIN c2 = DOMAIN c
  BY <1>2 DEF InstrsOf
<1>4. /\ R \in [DOMAIN c -> [Regs(n) -> SUBSET Src(p)]]
      /\ M \in [DOMAIN c -> [1..t -> SUBSET Src(p)]]
      /\ \A k \in DOMAIN c : Reads(p, c[k], R[k])
      /\ \A k \in DOMAIN c : \A m \in SuccsIn(c, k) : Carries(p, c[k], R[k], M[k], R[m], M[m])
  BY DEF Claims
<1>5. /\ R2 \in [DOMAIN c2 -> [Regs(1) -> SUBSET Src(p)]]
      /\ M \in [DOMAIN c2 -> [1..t -> SUBSET Src(p)]]
  BY <1>1, <1>3, <1>4
<1>6. ASSUME NEW k \in DOMAIN c
      PROVE  /\ DOMAIN R2[k] = Phys
             /\ \A r \in Regs(n) : r \in in[k] /\ A(r) \in Phys => \A s \in R[k][r] : s \in R2[k][A(r)]
             /\ \A a \in Phys : \A s \in R2[k][a] :
                   \E r \in Regs(n) : r \in in[k] /\ A(r) = a /\ s \in R[k][r]
  <2>1. R[k] \in [Regs(n) -> SUBSET Src(p)]
    BY <1>4
  <2>2. R2[k] = [a \in Phys |-> {s \in Src(p) : \E r \in Regs(n) : r \in in[k] /\ A(r) = a /\ s \in R[k][r]}]
    BY <1>3
  <2> HIDE DEF R2, A
  <2> QED BY <2>1, <2>2
<1>7. ASSUME NEW k \in DOMAIN c PROVE Reads(p, c2[k], R2[k])
  <2>1. PICK x, y : x = c[k] /\ y = c2[k]
    OBVIOUS
  <2>2. x \in Instr /\ InstrOK(p, x, Phys \cup Vregs(c), n, t) /\ y = RewriteVreg(x, assigned, assigned)
    BY <1>2, <2>1 DEF InstrsOf
  <2>3. ColouredAs(x, y)
    BY <2>2, ColouredInstr
  <2>4. ASSUME NEW j \in 1..Len(x.uses)
        PROVE  /\ x.uses[j] \in Regs(n) /\ x.uses[j] \in in[k] /\ A(x.uses[j]) \in Phys
               /\ y.uses[j] = A(x.uses[j])
    <3>1. x.uses[j] \in Phys \cup Vregs(c)
      BY <2>2 DEF InstrOK
    <3>2. x.uses[j] \in UseRegs(x)
      BY <2>2 DEF UseRegs, ToSet, Instr
    <3>3. x.uses[j] \in in[k]
      BY <1>2, <2>1, <3>2 DEF GraphOK, LivenessOn
    <3>4. y.uses[j] = A(x.uses[j])
      BY <2>3 DEF ColouredAs
    <3> QED BY <1>1, <3>1, <3>3, <3>4
  <2>5. Reads(p, x, R[k]) /\ y.op = x.op /\ y.orig = x.orig /\ Len(y.uses) = Len(x.uses)
    BY <1>4, <2>1, <2>3 DEF ColouredAs
  <2> HIDE DEF R2, A
  <2>6. \A j \in 1..Len(x.uses) : \A s \in R[k][x.uses[j]] : s \in R2[k][y.uses[j]]
    BY <1>6, <2>4
  <2> QED BY <2>1, <2>5, <2>6 DEF Reads
<1>8. ASSUME NEW k \in DOMAIN c, NEW m \in SuccsIn(c2, k)
      PROVE  Carries(p, c2[k], R2[k], M[k], R2[m], M[m])
  <2>1. m \in SuccsIn(c, k)
    BY <1>8, ColouredSuccs
  <2>2. m \in DOMAIN c
    BY <2>1 DEF SuccsIn
  <2>3. PICK x, y, r1, m1, r2, m2, q1, q2 :
           /\ x = c[k] /\ y = c2[k] /\ r1 = R[k] /\ m1 = M[k] /\ r2 = R[m] /\ m2 = M[m]
           /\ q1 = R2[k] /\ q2 = R2[m]
    BY Zenon
  <2>4. Carries(p, x, r1, m1, r2, m2) /\ DOMAIN r2 = Regs(n)
    <3>1. Carries(p, c[k], R[k], M[k], R[m], M[m]) /\ DOMAIN R[m] = Regs(n)
      BY <1>4, <2>1, <2>2
    <3> QED BY <2>3, <3>1
  <2>5. \A r \in Regs(n) : r \in in[k] /\ Replaced(assigned, r) \in Phys
             => \A s \in r1[r] : s \in q1[Replaced(assigned, r)]
    <3> HIDE DEF R2
    <3> QED BY <1>6, <2>3
  <2>6. /\ DOMAIN q2 = Phys
        /\ \A a \in Phys : \A s \in q2[a] :
            \E r \in Regs(n) : r \in in[m] /\ Replaced(assigned, r) = a /\ s \in r2[r]
    <3> HIDE DEF R2
    <3> QED BY <1>6, <2>2, <2>3
  <2>7. Carries(p, y, q1, m1, q2, m2)
    <3> HIDE DEF A, R2
    <3> QED BY <2>1, <2>3, <2>4, <2>5, <2>6, ColouredCarries
  <2> QED BY <2>3, <2>7
<1>9. Claims(p, c2, 1, t, R2, M)
  <2> HIDE DEF R2
  <2> QED BY <1>3, <1>5, <1>7, <1>8 DEF Claims
<1> HIDE DEF R2
<1> QED BY <1>9

-----------------------------------------------------------------------------
\* Whatever is written while another register is live clashes with it, and so
\* does the scratch of a save with what is saved.
LEMMA LiveClashes ==
  ASSUME code \in Seq(Instr), NEW k \in DOMAIN code
  PROVE  /\ \A m \in Succs(k) : \A d \in DefRegs(code[k]), x \in LiveIn[m] : <<d, x>> \in Clashes
         /\ code[k].op = "save" => <<code[k].def, code[k].uses[1]>> \in Clashes
<1> DEFINE Of(i) == {<<d, x>> : d \in DefRegs(code[i]), x \in LiveAfter[i]} \cup Conflicts(code[i])
<1>1. Clashes = UNION {Of(i) : i \in DOMAIN code}
  BY DEF Clashes
<1>2. \A e \in Of(k) : e \in Clashes
  <2> HIDE DEF Of
  <2> QED BY <1>1
<1>3. ASSUME NEW m \in Succs(k), NEW d \in DefRegs(code[k]), NEW x \in LiveIn[m]
      PROVE  <<d, x>> \in Clashes
  <2>1. x \in LiveAfter[k]
    BY LivenessSolved
  <2>2. <<d, x>> \in Of(k)
    BY <2>1
  <2> QED BY <1>2, <2>2
<1>4. code[k].op = "save" => <<code[k].def, code[k].uses[1]>> \in Of(k)
  BY DEF Conflicts
<1> QED BY <1>2, <1>3, <1>4

\* The graph that build makes keeps all clashes apart.
LEMMA GraphIsBuilt ==
  ASSUME code \in Seq(Instr), Build
  PROVE  \E in : GraphOK(code, in)'
<1>1. PICK in : in = LiveIn
  OBVIOUS
<1>2. PICK C : C = Clashes
  OBVIOUS
<1>3. /\ edges' = {{c[1], c[2]} : c \in {e \in C : e[1] > 0 /\ e[2] > 0 /\ e[1] # e[2]}}
      /\ forbidden' = {c \in C : c[1] > 0 /\ c[2] < 0}
                      \cup {<<c[2], c[1]>> : c \in {e \in C : e[1] < 0 /\ e[2] > 0}}
      /\ code' = code
  BY <1>2 DEF Build
<1>4. ASSUME NEW d, NEW x, <<d, x>> \in C PROVE Apart(d, x)'
  <2>1. PICK e : e = <<d, x>> /\ e \in C /\ e[1] = d /\ e[2] = x
    BY <1>4
  <2>2. d > 0 /\ x > 0 /\ d # x => {d, x} \in edges'
    BY <1>3, <2>1
  <2>3. d > 0 /\ x < 0 => <<d, x>> \in forbidden'
    BY <1>3, <2>1
  <2>4. d < 0 /\ x > 0 => <<x, d>> \in forbidden'
    BY <1>3, <2>1
  <2> QED BY <2>2, <2>3, <2>4 DEF Apart
<1>5. LivenessOn(code, in)
  BY <1>1, LivenessSolved, SuccsOfCode DEF LivenessOn, LivenessOK
<1>6. LivenessOn(code, in)'
  BY <1>3, <1>5 DEF LivenessOn, UseRegs, DefRegs, SuccsIn, StartIn
<1>7. \A k \in DOMAIN code : \A m \in SuccsIn(code, k) : \A d \in DefRegs(code[k]), x \in in[m] : Apart(d, x)'
  BY <1>1, <1>2, <1>4, LiveClashes, SuccsOfCode
<1>8. \A k \in DOMAIN code : code[k].op = "save" => Apart(code[k].def, code[k].uses[1])'
  BY <1>2, <1>3, <1>4, LiveClashes
<1>9. GraphOK(code, in)'
  BY <1>3, <1>6, <1>7, <1>8 DEF GraphOK, DefRegs, SuccsIn, StartIn
<1> QED BY <1>9

-----------------------------------------------------------------------------
\* The stack of simplify and what has been coloured of it: the vregs are those
\* not simplified, those on the stack, each once, and those that have been
\* coloured or spilled; of the vregs that were not on the stack before it, one
\* pushed with a low degree has fewer neighbours than available registers.
Pushed(i) == {stack[j] : j \in 1..i}
LowPushed(i) == Cardinality(Neighbours(stack[i]) \cap (VirtualDefs \ Pushed(i - 1)))
                   < Cardinality(AvailableRegs(stack[i]))
ColourInv ==
  /\ stack \in Seq(Int)
  /\ VirtualDefs = degrees \cup Pushed(Len(stack)) \cup DOMAIN assigned \cup spilled
  /\ \A i \in 1..Len(stack) : stack[i] \notin degrees \cup DOMAIN assigned \cup spilled
  /\ \A i, j \in 1..Len(stack) : stack[i] = stack[j] => i = j
  /\ \A i \in 1..Len(stack) : stack[i] \notin pushedHigh => LowPushed(i)
  /\ ColouringOK
  /\ spilled \subseteq pushedHigh /\ pushedHigh \subseteq VirtualDefs

\* A vreg with fewer neighbours than available registers has a free one.
LEMMA ColourIsFree ==
  ASSUME NEW v, NEW D, IsFiniteSet(D), Neighbours(v) \cap DOMAIN assigned \subseteq D,
         Cardinality(D) < Cardinality(AvailableRegs(v))
  PROVE  Free(v) # {}
<1> DEFINE S == Neighbours(v) \cap DOMAIN assigned
           T == {assigned[w] : w \in S}
           A == AvailableRegs(v)
<1> SUFFICES ASSUME Free(v) = {} PROVE FALSE
  OBVIOUS
<1>1. A \in SUBSET T
  BY DEF Free
<1> HIDE DEF A
<1>2. IsFiniteSet(S) /\ Cardinality(S) =< Cardinality(D)
  <2>1. S \in SUBSET D
    OBVIOUS
  <2> HIDE DEF S
  <2> QED BY <2>1, FS_Subset
<1>3. IsFiniteSet(T) /\ Cardinality(T) =< Cardinality(S)
  <2>1. [w \in S |-> assigned[w]] \in Surjection(S, T)
    BY DEF Surjection
  <2> HIDE DEF S, T
  <2> QED BY <1>2, <2>1, FS_Surjection
<1> HIDE DEF S, T
<1>4. IsFiniteSet(A) /\ Cardinality(A) =< Cardinality(T)
  BY <1>1, <1>3, FS_Subset
<1>5. /\ Cardinality(D) \in Nat /\ Cardinality(S) \in Nat /\ Cardinality(T) \in Nat
      /\ Cardinality(A) \in Nat
  BY <1>2, <1>3, <1>4, FS_CardinalityType
<1> QED BY <1>2, <1>3, <1>4, <1>5 DEF A

\* A push of simplify.
LEMMA PushKeepsColours ==
  ASSUME ColourInv, NEW v \in degrees, VirtualDefs \subseteq Int, spilled = {}, assigned = <<>>,
         Push(v), (pushedHigh' = pushedHigh /\ LowDegree(v)) \/ pushedHigh' = pushedHigh \cup {v}
  PROVE  ColourInv' /\ assigned' = <<>> /\ spilled' = {}
<1>1. /\ degrees' = degrees \ {v} /\ stack' = Append(stack, v) /\ code' = code /\ edges' = edges
      /\ forbidden' = forbidden /\ assigned' = assigned /\ spilled' = spilled
  BY DEF Push, graph
<1>2. /\ stack \in Seq(Int) /\ VirtualDefs = degrees \cup Pushed(Len(stack))
      /\ \A i \in 1..Len(stack) : stack[i] \notin degrees
      /\ \A i, j \in 1..Len(stack) : stack[i] = stack[j] => i = j
      /\ \A i \in 1..Len(stack) : stack[i] \notin pushedHigh => LowPushed(i)
      /\ ColouringOK /\ pushedHigh \subseteq VirtualDefs
  <2>1. DOMAIN assigned = {}
    OBVIOUS
  <2> QED BY <2>1 DEF ColourInv
<1>3. PICK N \in Nat : N = Len(stack)
  BY <1>2
<1>4. v \in VirtualDefs /\ v \in Int
  BY <1>2
<1>5. PICK z : z = stack'
  OBVIOUS
<1>6. z \in Seq(Int) /\ Len(z) = N + 1 /\ z[N + 1] = v /\ \A i \in 1..N : z[i] = stack[i]
  BY <1>1, <1>2, <1>3, <1>4, <1>5, AppendAt
<1>7. /\ VirtualDefs' = VirtualDefs /\ \A u : Neighbours(u)' = Neighbours(u)
      /\ \A u : AvailableRegs(u)' = AvailableRegs(u)
  BY <1>1 DEF VirtualDefs, Vregs, Neighbours, AvailableRegs
<1>8. \A i \in 1..(N + 1) : i \in 1..N \/ i = N + 1
  OBVIOUS
<1>9. (stack \in Seq(Int))' /\ Len(stack)' = N + 1
  BY <1>5, <1>6
<1>10. (VirtualDefs = degrees \cup Pushed(Len(stack)) \cup DOMAIN assigned \cup spilled)'
  <2>1. {z[j] : j \in 1..(N + 1)} = {stack[j] : j \in 1..N} \cup {v}
    <3>1. 1..(N + 1) = 1..N \cup {N + 1}
      OBVIOUS
    <3> QED BY <1>6, <3>1
  <2>2. Pushed(Len(stack))' = Pushed(Len(stack)) \cup {v}
    BY <1>3, <1>5, <1>6, <2>1 DEF Pushed
  <2> QED BY <1>1, <1>2, <1>7, <2>2
<1>11. (\A i \in 1..Len(stack) : stack[i] \notin degrees \cup DOMAIN assigned \cup spilled)'
  <2>1. DOMAIN assigned = {}
    OBVIOUS
  <2>2. \A i \in 1..(N + 1) : z[i] \notin degrees \ {v}
    BY <1>2, <1>3, <1>6, <1>8
  <2> QED BY <1>1, <1>5, <1>6, <2>1, <2>2
<1>12. (\A i, j \in 1..Len(stack) : stack[i] = stack[j] => i = j)'
  <2>1. \A i \in 1..N : z[i] # v
    BY <1>2, <1>3, <1>6
  <2>2. \A i, j \in 1..(N + 1) : z[i] = z[j] => i = j
    BY <1>2, <1>3, <1>6, <1>8, <2>1
  <2> QED BY <1>5, <1>6, <2>2
<1>13. (\A i \in 1..Len(stack) : stack[i] \notin pushedHigh => LowPushed(i))'
  <2>1. \A i \in 1..(N + 1) : Pushed(i - 1)' = Pushed(i - 1)
    <3>1. \A i \in 1..(N + 1) : \A j \in 1..(i - 1) : z[j] = stack[j]
      BY <1>6
    <3> QED BY <1>5, <3>1 DEF Pushed
  <2>2. ASSUME NEW i \in 1..N, z[i] \notin pushedHigh' PROVE LowPushed(i)'
    <3>1. LowPushed(i)
      BY <1>2, <1>3, <1>6, <2>2
    <3>2. /\ stack'[i] = stack[i] /\ Pushed(i - 1)' = Pushed(i - 1)
      BY <1>5, <1>6, <2>1
    <3> QED BY <1>7, <3>1, <3>2 DEF LowPushed
  <2>3. v \notin pushedHigh' => LowPushed(N + 1)'
    <3> SUFFICES ASSUME v \notin pushedHigh' PROVE LowPushed(N + 1)'
      OBVIOUS
    <3>1. LowDegree(v)
      OBVIOUS
    <3>2. degrees = VirtualDefs \ Pushed(N)
      BY <1>2, <1>3 DEF Pushed
    <3>3. Pushed((N + 1) - 1)' = Pushed(N) /\ stack'[N + 1] = v
      <4>1. (N + 1) - 1 = N /\ N + 1 \in 1..(N + 1)
        OBVIOUS
      <4> QED BY <1>5, <1>6, <2>1, <4>1
    <3>4. Neighbours(v) \cap (VirtualDefs \ Pushed(N)) = Neighbours(v) \cap degrees
      BY <3>2
    <3> QED BY <1>7, <3>1, <3>3, <3>4 DEF LowPushed, LowDegree, Degree
  <2> QED BY <1>5, <1>6, <1>8, <2>2, <2>3
<1>14. ColouringOK'
  BY <1>1, <1>2 DEF ColouringOK, Phys
<1>15. (spilled \subseteq pushedHigh /\ pushedHigh \subseteq VirtualDefs)'
  BY <1>1, <1>2, <1>4, <1>7
<1> QED BY <1>1, <1>9, <1>10, <1>11, <1>12, <1>13, <1>14, <1>15 DEF ColourInv

\* A turn of the loop over the stack.
LEMMA ColourKeepsColours ==
  ASSUME ColourInv, degrees = {}, IsFiniteSet(VirtualDefs), NEW r, Colour(r)
  PROVE  ColourInv' /\ degrees' = {}
<1> DEFINE v == Last(stack)
<1>1. /\ stack # <<>> /\ stack' = Front(stack) /\ degrees' = degrees /\ code' = code /\ edges' = edges
      /\ forbidden' = forbidden /\ pushedHigh' = pushedHigh
  BY DEF Colour, graph
<1>2. /\ stack \in Seq(Int) /\ VirtualDefs = Pushed(Len(stack)) \cup DOMAIN assigned \cup spilled
      /\ \A i \in 1..Len(stack) : stack[i] \notin DOMAIN assigned \cup spilled
      /\ \A i, j \in 1..Len(stack) : stack[i] = stack[j] => i = j
      /\ \A i \in 1..Len(stack) : stack[i] \notin pushedHigh => LowPushed(i)
      /\ ColouringOK /\ spilled \subseteq pushedHigh /\ pushedHigh \subseteq VirtualDefs
  <2>1. VirtualDefs = degrees \cup Pushed(Len(stack)) \cup DOMAIN assigned \cup spilled
    BY DEF ColourInv
  <2>2. \A i \in 1..Len(stack) : stack[i] \notin degrees \cup DOMAIN assigned \cup spilled
    BY DEF ColourInv
  <2>3. VirtualDefs = Pushed(Len(stack)) \cup DOMAIN assigned \cup spilled
    BY <2>1
  <2>4. \A i \in 1..Len(stack) : stack[i] \notin DOMAIN assigned \cup spilled
    BY <2>2, Zenon
  <2> QED BY <2>3, <2>4 DEF ColourInv
<1>3. PICK N \in Nat : N + 1 = Len(stack)
  <2>1. Len(stack) \in Nat /\ Len(stack) # 0
    BY <1>1, <1>2, EmptySeq
  <2>2. Len(stack) - 1 \in Nat /\ (Len(stack) - 1) + 1 = Len(stack)
    BY <2>1
  <2> QED BY <2>2
<1>4. PICK z : z = stack'
  OBVIOUS
<1>5. z \in Seq(Int) /\ Len(z) = N /\ \A i \in 1..N : z[i] = stack[i]
  <2>1. z = SubSeq(stack, 1, (N + 1) - 1) /\ N + 1 \in 1..(Len(stack) + 1)
    BY <1>1, <1>3, <1>4 DEF Front
  <2>2. (N + 1) - 1 = N
    OBVIOUS
  <2>3. z \in Seq(Int) /\ Len(z) = (N + 1) - 1 /\ \A k \in 1..((N + 1) - 1) : z[k] = stack[k]
    BY <1>2, <2>1, SplitAt
  <2> QED BY <2>2, <2>3
<1>6. v = stack[N + 1] /\ v \in VirtualDefs /\ \A i \in 1..N : stack[i] # v
  <2>1. v = stack[N + 1]
    BY <1>3 DEF Last
  <2>2. N + 1 \in 1..(N + 1) /\ \A i \in 1..N : i \in 1..(N + 1) /\ i # N + 1
    OBVIOUS
  <2> HIDE DEF v
  <2> QED BY <1>2, <1>3, <2>1, <2>2 DEF Pushed
<1>7. /\ VirtualDefs' = VirtualDefs /\ \A u : Neighbours(u)' = Neighbours(u)
      /\ \A u : AvailableRegs(u)' = AvailableRegs(u)
  BY <1>1 DEF VirtualDefs, Vregs, Neighbours, AvailableRegs
<1> HIDE DEF v
<1>8. \/ /\ r \in Free(v)
         /\ assigned' = [w \in DOMAIN assigned \cup {v} |-> IF w = v THEN r ELSE assigned[w]]
         /\ spilled' = spilled
      \/ Free(v) = {} /\ spilled' = spilled \cup {v} /\ assigned' = assigned
  BY DEF Colour, v
<1>9. DOMAIN assigned' \cup spilled' = DOMAIN assigned \cup spilled \cup {v}
  BY <1>8
<1>10. (stack \in Seq(Int))' /\ Len(stack)' = N
  BY <1>4, <1>5
<1>11. (VirtualDefs = degrees \cup Pushed(Len(stack)) \cup DOMAIN assigned \cup spilled)'
  <2>1. {stack[j] : j \in 1..(N + 1)} = {z[j] : j \in 1..N} \cup {v}
    <3>1. 1..(N + 1) = 1..N \cup {N + 1}
      OBVIOUS
    <3> QED BY <1>5, <1>6, <3>1
  <2>2. Pushed(Len(stack)) = Pushed(Len(stack))' \cup {v}
    BY <1>3, <1>4, <1>5, <2>1 DEF Pushed
  <2> QED BY <1>1, <1>2, <1>7, <1>9, <2>2
<1>12. (\A i \in 1..Len(stack) : stack[i] \notin degrees \cup DOMAIN assigned \cup spilled)'
  <2>1. \A i \in 1..N : i \in 1..(N + 1)
    OBVIOUS
  <2>2. \A i \in 1..N : z[i] \notin DOMAIN assigned \cup spilled \cup {v}
    BY <1>2, <1>3, <1>5, <1>6, <2>1
  <2> QED BY <1>1, <1>4, <1>5, <1>9, <2>2
<1>13. (\A i, j \in 1..Len(stack) : stack[i] = stack[j] => i = j)'
  <2>1. \A i \in 1..N : i \in 1..(N + 1)
    OBVIOUS
  <2>2. \A i, j \in 1..N : z[i] = z[j] => i = j
    BY <1>2, <1>3, <1>5, <2>1
  <2> QED BY <1>4, <1>5, <2>2
<1>14. (\A i \in 1..Len(stack) : stack[i] \notin pushedHigh => LowPushed(i))'
  <2>1. \A i \in 1..N : Pushed(i - 1)' = Pushed(i - 1)
    <3>1. \A i \in 1..N : \A j \in 1..(i - 1) : z[j] = stack[j]
      BY <1>5
    <3> QED BY <1>4, <3>1 DEF Pushed
  <2>2. ASSUME NEW i \in 1..N, z[i] \notin pushedHigh' PROVE LowPushed(i)'
    <3>1. i \in 1..(N + 1)
      OBVIOUS
    <3>2. LowPushed(i)
      BY <1>1, <1>2, <1>3, <1>5, <2>2, <3>1
    <3>3. stack'[i] = stack[i] /\ Pushed(i - 1)' = Pushed(i - 1)
      BY <1>4, <1>5, <2>1
    <3> QED BY <1>7, <3>2, <3>3 DEF LowPushed
  <2> QED BY <1>4, <1>5, <2>2
<1>15. ColouringOK'
  <2>1. CASE assigned' = assigned
    BY <1>1, <1>2, <2>1 DEF ColouringOK, Phys
  <2>2. CASE /\ r \in Free(v)
             /\ assigned' = [w \in DOMAIN assigned \cup {v} |-> IF w = v THEN r ELSE assigned[w]]
    <3>1. r \in Phys /\ <<v, r>> \notin forbidden
      BY <2>2 DEF Free, AvailableRegs
    <3>2. ASSUME NEW w \in DOMAIN assigned, {v, w} \in edges, v # w PROVE assigned[w] # r
      <4>1. w \in Neighbours(v)
        BY <1>2, <3>2 DEF Neighbours
      <4> QED BY <2>2, <4>1 DEF Free
    <3>3. \A w \in DOMAIN assigned : {w, v} = {v, w}
      OBVIOUS
    <3>4. PICK g : g = assigned'
      OBVIOUS
    <3>5. /\ DOMAIN g = DOMAIN assigned \cup {v} /\ g[v] = r
          /\ \A w \in DOMAIN assigned : w # v => g[w] = assigned[w]
      BY <2>2, <3>4
    <3>6. \A w \in DOMAIN g : g[w] \in Phys /\ <<w, g[w]>> \notin forbidden
      BY <1>2, <3>1, <3>5 DEF ColouringOK
    <3>7. \A u, w \in DOMAIN g : {u, w} \in edges /\ u # w => g[u] # g[w]
      <4> TAKE u, w \in DOMAIN g
      <4> HAVE {u, w} \in edges /\ u # w
      <4>1. CASE u = v
        BY <3>2, <3>5, <4>1
      <4>2. CASE w = v
        BY <3>2, <3>3, <3>5, <4>2
      <4>3. CASE u # v /\ w # v
        BY <1>2, <3>5, <4>3 DEF ColouringOK
      <4> QED BY <4>1, <4>2, <4>3
    <3> QED BY <1>1, <3>4, <3>6, <3>7 DEF ColouringOK, Phys
  <2> QED BY <1>8, <2>1, <2>2
<1>16. (spilled \subseteq pushedHigh /\ pushedHigh \subseteq VirtualDefs)'
  <2>1. Free(v) = {} => v \in pushedHigh
    <3> SUFFICES ASSUME v \notin pushedHigh PROVE Free(v) # {}
      OBVIOUS
    <3> DEFINE D == Neighbours(v) \cap (VirtualDefs \ Pushed(N))
    <3>1. Cardinality(D) < Cardinality(AvailableRegs(v))
      <4>1. N + 1 \in 1..(N + 1) /\ (N + 1) - 1 = N
        OBVIOUS
      <4>2. LowPushed(N + 1)
        BY <1>2, <1>3, <1>6, <4>1
      <4> QED BY <1>6, <4>1, <4>2 DEF LowPushed
    <3>2. IsFiniteSet(D)
      <4>1. D \in SUBSET VirtualDefs
        OBVIOUS
      <4> HIDE DEF D
      <4> QED BY <4>1, FS_Subset
    <3>3. \A i \in 1..N : i \in 1..(N + 1)
      OBVIOUS
    <3>4. \A w \in DOMAIN assigned : w \in VirtualDefs /\ w \notin Pushed(N)
      BY <1>2, <1>3, <3>3 DEF Pushed
    <3>5. Neighbours(v) \cap DOMAIN assigned \subseteq D
      BY <3>4
    <3> HIDE DEF D
    <3> QED BY <3>1, <3>2, <3>5, ColourIsFree
  <2> QED BY <1>1, <1>2, <1>7, <1>8, <2>1
<1> QED BY <1>1, <1>10, <1>11, <1>12, <1>13, <1>14, <1>15, <1>16 DEF ColourInv

-----------------------------------------------------------------------------
\* The two runs side by side: what the claims say of the next instruction is
\* true of the registers, the slots and the source registers.
Holds(r1, m1) == /\ \A r \in DOMAIN r1 : \A s \in r1[r] : regs[r] = env[s]
                 /\ \A l \in DOMAIN m1 : \A s \in m1[l] : memory[l] = env[s]
RunTypes ==
  /\ regs \in [Phys -> Data \cup {Address}] /\ memory \in [1..numSlots -> Data \cup {Address}]
  /\ Src(prog) \subseteq DOMAIN env
RunInv ==
  /\ CodeOK(prog, code, Phys, 1, numSlots) /\ RunTypes
  /\ \E R, M : /\ Claims(prog, code, 1, numSlots, R, M)
               /\ pc \in DOMAIN code => Holds(R[pc], M[pc])

\* What the run needs of the instruction at pc and of one that may follow it.
LEMMA RunNumbers ==
  ASSUME NumRegs \in Nat, RunInv, NEW R, NEW M, Claims(prog, code, 1, numSlots, R, M),
         pc \in DOMAIN code
  PROVE  /\ Regs(1) = Phys /\ None \notin Phys /\ None \notin Src(prog)
         /\ InstrOK(prog, code[pc], Phys, 1, numSlots) /\ code[pc] \in Instr
         /\ R[pc] \in [Phys -> SUBSET Src(prog)] /\ M[pc] \in [1..numSlots -> SUBSET Src(prog)]
         /\ \A m \in Succs(pc) : /\ m \in DOMAIN code
                                 /\ R[m] \in [Phys -> SUBSET Src(prog)]
                                 /\ M[m] \in [1..numSlots -> SUBSET Src(prog)]
                                 /\ Carries(prog, code[pc], R[pc], M[pc], R[m], M[m])
<1>1. Regs(1) = Phys
  BY DEF Regs
<1>2. None \notin Phys /\ None \notin Src(prog)
  BY DEF Phys, None, Src, Vregs
<1>3. InstrOK(prog, code[pc], Phys, 1, numSlots) /\ code[pc] \in Instr
  BY DEF RunInv, CodeOK
<1>4. /\ R \in [DOMAIN code -> [Regs(1) -> SUBSET Src(prog)]]
      /\ M \in [DOMAIN code -> [1..numSlots -> SUBSET Src(prog)]]
  BY DEF Claims
<1>5. \A m \in SuccsIn(code, pc) : Carries(prog, code[pc], R[pc], M[pc], R[m], M[m])
  BY DEF Claims
<1>6. \A m \in Succs(pc) : m \in DOMAIN code
  BY DEF Succs
<1> QED BY <1>1, <1>2, <1>3, <1>4, <1>5, <1>6, SuccsOfCode

\* A step to an instruction whose claims hold keeps the run's invariant.
LEMMA RunStep ==
  ASSUME RunInv, UNCHANGED <<prog, code, numSlots>>, RunTypes',
         NEW R, NEW M, Claims(prog, code, 1, numSlots, R, M),
         (pc \in DOMAIN code => Holds(R[pc], M[pc]))'
  PROVE  RunInv'
<1>1. CodeOK(prog, code, Phys, 1, numSlots)'
  BY DEF RunInv
<1>2. Claims(prog, code, 1, numSlots, R, M)'
  OBVIOUS
<1> QED BY <1>1, <1>2 DEF RunInv

LEMMA ExecKeepsRun ==
  ASSUME NumRegs \in Nat, RunInv, NEW b \in Data, NEW next, Exec(b, next)
  PROVE  RunInv'
<1>1. PICK R, M : Claims(prog, code, 1, numSlots, R, M) /\ (pc \in DOMAIN code => Holds(R[pc], M[pc]))
  BY DEF RunInv
<1>2. /\ pc \in DOMAIN code /\ UNCHANGED <<prog, code, numSlots, memory>> /\ pc' = next
      /\ next \in Succs(pc) \/ next = Len(code) + 1
  BY DEF Exec
<1>3. PICK x, p : x = code[pc] /\ p = prog
  OBVIOUS
<1>4. /\ x.op = "inst"
      /\ env' = [r \in DOMAIN env |-> IF r \in {p[x.orig].def} \cup x.clob THEN b ELSE env[r]]
      /\ regs' = [r \in DOMAIN regs |-> IF r \in {x.def} \cup x.clob THEN b ELSE regs[r]]
  BY <1>3 DEF Exec
<1>5. RunTypes /\ code \in Seq(Instr)
  BY DEF RunInv, CodeOK
<1>6. RunTypes'
  BY <1>2, <1>4, <1>5 DEF RunTypes, Src, Vregs, Phys
<1>7. ASSUME next \in DOMAIN code PROVE Holds(R[next], M[next])'
  <2>1. next \in Succs(pc)
    <3>1. DOMAIN code = 1..Len(code) /\ Len(code) \in Nat
      BY <1>5
    <3> QED BY <1>2, <1>7, <3>1
  <2>2. PICK r1, m1, r2, m2 : r1 = R[pc] /\ m1 = M[pc] /\ r2 = R[next] /\ m2 = M[next]
    BY Zenon
  <2>3. /\ None \notin Phys /\ None \notin Src(p) /\ InstrOK(p, x, Phys, 1, numSlots)
        /\ r1 \in [Phys -> SUBSET Src(p)] /\ m1 \in [1..numSlots -> SUBSET Src(p)]
        /\ r2 \in [Phys -> SUBSET Src(p)] /\ m2 \in [1..numSlots -> SUBSET Src(p)]
        /\ Carries(p, x, r1, m1, r2, m2)
    BY <1>1, <1>2, <1>3, <2>1, <2>2, RunNumbers
  <2>4. /\ \A r \in Phys : \A s \in r1[r] : regs[r] = env[s]
        /\ \A l \in 1..numSlots : \A s \in m1[l] : memory[l] = env[s]
    BY <1>1, <1>2, <2>2, <2>3 DEF Holds
  <2>5. /\ \A r \in Phys : \A s \in r2[r] :
             \/ r \in DefRegs(x) /\ s \in DefRegs(p[x.orig])
             \/ r \notin DefRegs(x) /\ s \notin DefRegs(p[x.orig]) /\ s \in r1[r]
        /\ \A l \in 1..numSlots : \A s \in m2[l] : s \notin DefRegs(p[x.orig]) /\ s \in m1[l]
    BY <1>4, <2>3 DEF Carries
  <2>6. x.clob = p[x.orig].clob
    BY <1>4, <2>3 DEF InstrOK
  <2>7. \A s \in Src(p) : env'[s] = IF s \in DefRegs(p[x.orig]) THEN b ELSE env[s]
    BY <1>3, <1>4, <1>5, <2>3, <2>6 DEF DefRegs, RunTypes
  <2>8. \A r \in Phys : regs'[r] = IF r \in DefRegs(x) THEN b ELSE regs[r]
    BY <1>4, <1>5, <2>3 DEF DefRegs, RunTypes
  <2>9. /\ \A r \in Phys : \A s \in r2[r] : s \in Src(p)
        /\ \A l \in 1..numSlots : \A s \in m2[l] : s \in Src(p)
    BY <2>3
  <2>10. \A r \in Phys : \A s \in r2[r] : regs'[r] = env'[s]
    BY <2>4, <2>5, <2>7, <2>8, <2>9
  <2>11. \A l \in 1..numSlots : \A s \in m2[l] : memory'[l] = env'[s]
    BY <1>2, <2>4, <2>5, <2>7, <2>9
  <2> QED BY <2>2, <2>3, <2>10, <2>11 DEF Holds
<1>8. (pc \in DOMAIN code => Holds(R[pc], M[pc]))'
  BY <1>2, <1>7
<1> QED BY <1>1, <1>2, <1>6, <1>8, RunStep

LEMMA ExecLoadKeepsRun ==
  ASSUME NumRegs \in Nat, RunInv, ExecLoad
  PROVE  RunInv'
<1>1. PICK R, M : Claims(prog, code, 1, numSlots, R, M) /\ (pc \in DOMAIN code => Holds(R[pc], M[pc]))
  BY DEF RunInv
<1>2. pc \in DOMAIN code /\ UNCHANGED <<prog, code, numSlots, memory, env>> /\ pc' = pc + 1
  BY DEF ExecLoad
<1>3. PICK x, p : x = code[pc] /\ p = prog
  OBVIOUS
<1>4. x.op = "load" /\ regs' = [regs EXCEPT ![x.def] = memory[x.slot]]
  BY <1>3 DEF ExecLoad
<1>5. RunTypes
  BY DEF RunInv
<1>6. None \notin Phys /\ InstrOK(p, x, Phys, 1, numSlots) /\ Regs(1) = Phys
  BY <1>1, <1>2, <1>3, RunNumbers
<1>7. x.def \in Phys /\ x.slot \in 1..numSlots
  BY <1>4, <1>6 DEF InstrOK
<1>8. RunTypes'
  BY <1>2, <1>4, <1>5, <1>7 DEF RunTypes, Src, Vregs, Phys
<1>9. ASSUME NEW nx, nx = pc + 1, nx \in DOMAIN code PROVE Holds(R[nx], M[nx])'
  <2>1. nx \in Succs(pc)
    BY <1>9 DEF Succs
  <2>2. PICK r1, m1, r2, m2 : r1 = R[pc] /\ m1 = M[pc] /\ r2 = R[nx] /\ m2 = M[nx]
    BY Zenon
  <2>3. /\ r1 \in [Phys -> SUBSET Src(p)] /\ m1 \in [1..numSlots -> SUBSET Src(p)]
        /\ r2 \in [Phys -> SUBSET Src(p)] /\ m2 \in [1..numSlots -> SUBSET Src(p)]
        /\ Carries(p, x, r1, m1, r2, m2)
    BY <1>1, <1>2, <1>3, <2>1, <2>2, RunNumbers
  <2>4. /\ \A r \in Phys : \A s \in r1[r] : regs[r] = env[s]
        /\ \A l \in 1..numSlots : \A s \in m1[l] : memory[l] = env[s]
    BY <1>1, <1>2, <2>2, <2>3 DEF Holds
  <2>5. /\ \A r \in Phys : \A s \in r2[r] : IF r = x.def THEN s \in m1[x.slot] ELSE s \in r1[r]
        /\ \A l \in 1..numSlots : \A s \in m2[l] : s \in m1[l]
    BY <1>4, <2>3 DEF Carries
  <2>6. \A r \in Phys : regs'[r] = IF r = x.def THEN memory[x.slot] ELSE regs[r]
    BY <1>4, <1>5 DEF RunTypes
  <2>7. \A r \in Phys : \A s \in r2[r] : regs'[r] = env'[s]
    BY <1>2, <1>7, <2>4, <2>5, <2>6
  <2>8. \A l \in 1..numSlots : \A s \in m2[l] : memory'[l] = env'[s]
    BY <1>2, <2>4, <2>5
  <2> QED BY <2>2, <2>3, <2>7, <2>8 DEF Holds
<1>10. (pc \in DOMAIN code => Holds(R[pc], M[pc]))'
  BY <1>2, <1>9
<1> QED BY <1>1, <1>2, <1>8, <1>10, RunStep

LEMMA ExecSaveKeepsRun ==
  ASSUME NumRegs \in Nat, RunInv, NEW far \in BOOLEAN, ExecSave(far)
  PROVE  RunInv'
<1>1. PICK R, M : Claims(prog, code, 1, numSlots, R, M) /\ (pc \in DOMAIN code => Holds(R[pc], M[pc]))
  BY DEF RunInv
<1>2. pc \in DOMAIN code /\ UNCHANGED <<prog, code, numSlots, env>> /\ pc' = pc + 1
  BY DEF ExecSave
<1>3. PICK x, p : x = code[pc] /\ p = prog
  OBVIOUS
<1>4. /\ x.op = "save" /\ regs' = (IF far THEN [regs EXCEPT ![x.def] = Address] ELSE regs)
      /\ memory' = [memory EXCEPT ![x.slot] = regs'[x.uses[1]]]
  BY <1>3 DEF ExecSave
<1>5. RunTypes
  BY DEF RunInv
<1>6. None \notin Phys /\ InstrOK(p, x, Phys, 1, numSlots) /\ Regs(1) = Phys /\ x \in Instr
  BY <1>1, <1>2, <1>3, RunNumbers
<1>7. x.def \in Phys /\ x.slot \in 1..numSlots /\ x.uses[1] \in Phys /\ x.uses[1] # x.def
  BY <1>4, <1>6 DEF InstrOK
<1>8. /\ \A r \in Phys : r # x.def => regs'[r] = regs[r]
      /\ regs' \in [Phys -> Data \cup {Address}]
  BY <1>4, <1>5 DEF RunTypes
<1>9. regs'[x.uses[1]] = regs[x.uses[1]] /\ regs[x.uses[1]] \in Data \cup {Address}
  BY <1>5, <1>7, <1>8 DEF RunTypes
<1>10. RunTypes'
  <2>1. PICK d \in Data \cup {Address} : d = regs'[x.uses[1]]
    BY <1>9
  <2>2. memory' \in [1..numSlots -> Data \cup {Address}]
    BY <1>4, <1>5, <2>1 DEF RunTypes
  <2>3. (Src(prog) \subseteq DOMAIN env)'
    BY <1>2, <1>5 DEF RunTypes, Src, Vregs
  <2> QED BY <1>2, <1>8, <2>2, <2>3 DEF RunTypes, Phys
<1>11. ASSUME NEW nx, nx = pc + 1, nx \in DOMAIN code PROVE Holds(R[nx], M[nx])'
  <2>1. nx \in Succs(pc)
    BY <1>11 DEF Succs
  <2>2. PICK r1, m1, r2, m2 : r1 = R[pc] /\ m1 = M[pc] /\ r2 = R[nx] /\ m2 = M[nx]
    BY Zenon
  <2>3. /\ r1 \in [Phys -> SUBSET Src(p)] /\ m1 \in [1..numSlots -> SUBSET Src(p)]
        /\ r2 \in [Phys -> SUBSET Src(p)] /\ m2 \in [1..numSlots -> SUBSET Src(p)]
        /\ Carries(p, x, r1, m1, r2, m2)
    BY <1>1, <1>2, <1>3, <2>1, <2>2, RunNumbers
  <2>4. /\ \A r \in Phys : \A s \in r1[r] : regs[r] = env[s]
        /\ \A l \in 1..numSlots : \A s \in m1[l] : memory[l] = env[s]
    BY <1>1, <1>2, <2>2, <2>3 DEF Holds
  <2>5. /\ \A r \in Phys : \A s \in r2[r] : r # x.def /\ s \in r1[r]
        /\ \A l \in 1..numSlots : \A s \in m2[l] : IF l = x.slot THEN s \in r1[x.uses[1]] ELSE s \in m1[l]
    BY <1>4, <2>3 DEF Carries
  <2>6. \A l \in 1..numSlots : memory'[l] = IF l = x.slot THEN regs[x.uses[1]] ELSE memory[l]
    BY <1>4, <1>5, <1>9 DEF RunTypes
  <2>7. \A r \in Phys : \A s \in r2[r] : regs'[r] = env'[s]
    BY <1>2, <1>8, <2>4, <2>5
  <2>8. \A l \in 1..numSlots : \A s \in m2[l] : memory'[l] = env'[s]
    BY <1>2, <1>7, <2>4, <2>5, <2>6
  <2> QED BY <2>2, <2>3, <2>7, <2>8 DEF Holds
<1>12. (pc \in DOMAIN code => Holds(R[pc], M[pc]))'
  BY <1>2, <1>11
<1> QED BY <1>1, <1>2, <1>10, <1>12, RunStep

-----------------------------------------------------------------------------
\* The inductive invariant of allocation, phase by phase.
Allocating ==
  /\ nextVreg \in Nat /\ numSlots \in Nat
  /\ CodeOK(prog, code, Phys \cup Vregs(code), nextVreg, numSlots)
  /\ \E R, M : Claims(prog, code, nextVreg, numSlots, R, M)
Cleared == degrees = {} /\ stack = <<>> /\ assigned = <<>> /\ spilled = {} /\ pushedHigh = {}
HasGraph == \E in : GraphOK(code, in)
AllocInv ==
  /\ phase \in {"build", "simplify", "colour", "run"}
  /\ assigned \in [DOMAIN assigned -> Phys]
  /\ phase # "run" => Allocating
  /\ phase = "build" => Cleared
  /\ phase = "simplify" => ColourInv /\ HasGraph /\ assigned = <<>> /\ spilled = {}
  /\ phase = "colour" => ColourInv /\ HasGraph /\ degrees = {}
  /\ phase = "run" => RunInv /\ spilled = {}

\* The vregs of the code are below the counter.
LEMMA VregsBelow ==
  ASSUME NEW p, NEW c, NEW U, NEW n \in Nat, NEW t, CodeOK(p, c, U, n, t)
  PROVE  c \in Seq(Instr) /\ Vregs(c) \subseteq 1..(n - 1) /\ Vregs(c) \subseteq Int /\ IsFiniteSet(Vregs(c))
<1>1. c \in Seq(Instr) /\ \A k \in DOMAIN c : InstrOK(p, c[k], U, n, t)
  BY DEF CodeOK
<1>2. Vregs(c) \subseteq 1..(n - 1)
  BY <1>1 DEF Vregs, InstrOK, Regs
<1>3. IsFiniteSet(1..(n - 1))
  <2>1. n - 1 \in Int
    OBVIOUS
  <2> QED BY <2>1, FS_Interval
<1>4. Vregs(c) \in SUBSET (1..(n - 1))
  BY <1>2
<1>5. IsFiniteSet(Vregs(c))
  BY <1>3, <1>4, FS_Subset
<1>6. 1..(n - 1) \subseteq Int
  OBVIOUS
<1> QED BY <1>1, <1>2, <1>5, <1>6

LEMMA AllocInit ==
  ASSUME RegsAssumption, Init
  PROVE  AllocInv
<1>1. NumRegs \in Nat /\ WellFormed(prog)
  BY DEF RegsAssumption, Init
<1>2. /\ code = [k \in DOMAIN prog |-> [prog[k] EXCEPT !.orig = k]]
      /\ nextVreg = 1 + Cardinality(Vregs(prog)) /\ numSlots = 0 /\ phase = "build" /\ Cleared
  BY DEF Init, Cleared
<1>3. Allocating
  <2>1. PICK p, c, n : p = prog /\ c = code /\ n = nextVreg
    BY Zenon
  <2>2. /\ WellFormed(p) /\ c = [k \in DOMAIN p |-> [p[k] EXCEPT !.orig = k]]
        /\ n = 1 + Cardinality(Vregs(p))
    BY <1>1, <1>2, <2>1
  <2>3. /\ n \in Nat /\ CodeOK(p, c, Phys \cup Vregs(c), n, 0)
        /\ \E R, M : Claims(p, c, n, 0, R, M)
    BY <1>1, <2>2, StartClaims
  <2> QED BY <1>2, <2>1, <2>3 DEF Allocating
<1>4. assigned \in [DOMAIN assigned -> Phys]
  BY <1>2 DEF Cleared
<1> QED BY <1>2, <1>3, <1>4 DEF AllocInv

\* A step that leaves the code and the numbers of vregs and slots alone.
LEMMA AllocatingKept ==
  ASSUME Allocating, UNCHANGED <<prog, code, nextVreg, numSlots>>
  PROVE  Allocating'
BY DEF Allocating, Vregs

LEMMA GraphKept ==
  ASSUME HasGraph, UNCHANGED <<code, edges, forbidden>>
  PROVE  HasGraph'
<1>1. PICK in : GraphOK(code, in)
  BY DEF HasGraph
<1>2. \A d, x : Apart(d, x)' <=> Apart(d, x)
  BY DEF Apart
<1>3. /\ LivenessOn(code, in)
      /\ \A k \in DOMAIN code : \A m \in SuccsIn(code, k) : \A d \in DefRegs(code[k]), x \in in[m] : Apart(d, x)'
      /\ \A k \in DOMAIN code : code[k].op = "save" => Apart(code[k].def, code[k].uses[1])'
  <2>1. \A k \in DOMAIN code : code[k].op = "save" => Apart(code[k].def, code[k].uses[1])
    BY <1>1 DEF GraphOK
  <2>2. ASSUME NEW k \in DOMAIN code, code[k].op = "save"
        PROVE  Apart(code[k].def, code[k].uses[1])'
    <3>1. PICK d, x : d = code[k].def /\ x = code[k].uses[1]
      BY Zenon
    <3>2. Apart(d, x)'
      BY <1>2, <2>1, <2>2, <3>1
    <3> QED BY <3>1, <3>2 DEF Apart
  <2> QED BY <1>1, <1>2, <2>2 DEF GraphOK
<1>4. LivenessOn(code, in)'
  BY <1>3 DEF LivenessOn, UseRegs, DefRegs, SuccsIn, StartIn
<1>5. GraphOK(code, in)'
  BY <1>3, <1>4 DEF GraphOK, DefRegs, SuccsIn, StartIn
<1> QED BY <1>5 DEF HasGraph

LEMMA ColourKept ==
  ASSUME ColourInv, UNCHANGED <<code, edges, forbidden, degrees, stack, assigned, spilled, pushedHigh>>
  PROVE  ColourInv'
<1>1. /\ VirtualDefs' = VirtualDefs /\ \A u : Neighbours(u)' = Neighbours(u)
      /\ \A u : AvailableRegs(u)' = AvailableRegs(u) /\ \A i : Pushed(i)' = Pushed(i)
  BY DEF VirtualDefs, Vregs, Neighbours, AvailableRegs, Pushed
<1>2. \A i : LowPushed(i)' <=> LowPushed(i)
  BY <1>1 DEF LowPushed
<1>3. ColouringOK' <=> ColouringOK
  BY DEF ColouringOK, Phys
<1> QED BY <1>1, <1>2, <1>3 DEF ColourInv

LEMMA BuildStep ==
  ASSUME AllocInv, Build
  PROVE  AllocInv'
<1>1. /\ phase = "build" /\ phase' = "simplify" /\ degrees' = VirtualDefs
      /\ UNCHANGED <<prog, code, nextVreg, numSlots, stack, assigned, spilled, pushedHigh>>
  BY DEF Build
<1>2. Allocating /\ Cleared
  BY <1>1 DEF AllocInv
<1>3. Allocating'
  BY <1>1, <1>2, AllocatingKept
<1>4. HasGraph'
  <2>1. code \in Seq(Instr)
    BY <1>2, VregsBelow DEF Allocating
  <2> QED BY <2>1, GraphIsBuilt DEF HasGraph
<1>5. stack' = <<>> /\ assigned' = <<>> /\ spilled' = {} /\ pushedHigh' = {} /\ VirtualDefs' = VirtualDefs
  BY <1>1, <1>2 DEF Cleared, VirtualDefs, Vregs
<1>6. ColourInv'
  <2>1. DOMAIN assigned' = {} /\ Len(stack') = 0 /\ stack' \in Seq(Int)
    BY <1>5
  <2>2. Pushed(Len(stack))' = {}
    BY <2>1 DEF Pushed
  <2>3. ColouringOK'
    BY <2>1 DEF ColouringOK
  <2>4. \A i \in 1..Len(stack') : FALSE
    BY <2>1
  <2> QED BY <1>1, <1>5, <2>1, <2>2, <2>3, <2>4 DEF ColourInv
<1>7. (assigned \in [DOMAIN assigned -> Phys])'
  BY <1>5 DEF Phys
<1> QED BY <1>1, <1>3, <1>4, <1>5, <1>6, <1>7 DEF AllocInv

LEMMA PushStep ==
  ASSUME AllocInv, NEW v \in degrees, SimplifyLow(v) \/ SelectSpillCandidate(v)
  PROVE  AllocInv'
<1>1. /\ phase = "simplify" /\ Push(v)
      /\ (pushedHigh' = pushedHigh /\ LowDegree(v)) \/ pushedHigh' = pushedHigh \cup {v}
  BY DEF SimplifyLow, SelectSpillCandidate
<1>2. UNCHANGED <<prog, code, phase, nextVreg, numSlots, edges, forbidden, assigned>>
  BY <1>1 DEF Push, graph
<1>3. Allocating /\ ColourInv /\ HasGraph /\ assigned = <<>> /\ spilled = {}
  BY <1>1 DEF AllocInv
<1>4. VirtualDefs \subseteq Int
  BY <1>3, VregsBelow DEF Allocating, VirtualDefs
<1>5. ColourInv' /\ assigned' = <<>> /\ spilled' = {}
  BY <1>1, <1>3, <1>4, PushKeepsColours
<1>6. Allocating' /\ HasGraph'
  BY <1>2, <1>3, AllocatingKept, GraphKept
<1>7. (assigned \in [DOMAIN assigned -> Phys])'
  BY <1>2 DEF AllocInv, Phys
<1> QED BY <1>1, <1>2, <1>5, <1>6, <1>7 DEF AllocInv

LEMMA SimplifiedStep ==
  ASSUME AllocInv, Simplified
  PROVE  AllocInv'
<1>1. /\ phase = "simplify" /\ phase' = "colour" /\ degrees = {}
      /\ UNCHANGED <<prog, code, nextVreg, numSlots, edges, forbidden, degrees, stack, assigned, spilled,
                     pushedHigh>>
  BY DEF Simplified, graph, colours
<1>2. Allocating /\ ColourInv /\ HasGraph
  BY <1>1 DEF AllocInv
<1>3. Allocating' /\ HasGraph'
  BY <1>1, <1>2, AllocatingKept, GraphKept
<1>4. ColourInv'
  BY <1>1, <1>2, ColourKept
<1>5. (assigned \in [DOMAIN assigned -> Phys])'
  BY <1>1 DEF AllocInv, Phys
<1> QED BY <1>1, <1>3, <1>4, <1>5 DEF AllocInv

LEMMA ColourStep ==
  ASSUME AllocInv, NEW r, Colour(r)
  PROVE  AllocInv'
<1>1. /\ phase = "colour"
      /\ UNCHANGED <<prog, code, phase, nextVreg, numSlots, edges, forbidden>>
  BY DEF Colour, graph
<1>2. Allocating /\ ColourInv /\ HasGraph /\ degrees = {} /\ assigned \in [DOMAIN assigned -> Phys]
  BY <1>1 DEF AllocInv
<1>3. IsFiniteSet(VirtualDefs)
  BY <1>2, VregsBelow DEF Allocating, VirtualDefs
<1>4. ColourInv' /\ degrees' = {}
  BY <1>2, <1>3, ColourKeepsColours
<1>5. Allocating' /\ HasGraph'
  BY <1>1, <1>2, AllocatingKept, GraphKept
<1>6. (assigned \in [DOMAIN assigned -> Phys])'
  <2>1. \/ assigned' = assigned
        \/ /\ r \in Free(Last(stack))
           /\ assigned' = [w \in DOMAIN assigned \cup {Last(stack)} |->
                             IF w = Last(stack) THEN r ELSE assigned[w]]
    BY DEF Colour
  <2>2. \A v : Free(v) \subseteq Phys
    BY DEF Free, AvailableRegs
  <2> QED BY <1>2, <2>1, <2>2 DEF Phys
<1> QED BY <1>1, <1>4, <1>5, <1>6 DEF AllocInv

LEMMA SpillStep ==
  ASSUME NumRegs \in Nat, AllocInv, SpillVregs
  PROVE  AllocInv'
<1>1. /\ phase = "colour" /\ phase' = "build" /\ prog' = prog /\ numSlots' = numSlots + Cardinality(spilled)
      /\ Cleared'
  BY DEF SpillVregs, Forget, Cleared
<1>2. Allocating /\ spilled \subseteq VirtualDefs
  BY <1>1 DEF AllocInv, ColourInv
<1>3. PICK p, c, n, t : p = prog /\ c = code /\ n = nextVreg /\ t = numSlots
  BY Zenon
<1>4. n \in Nat /\ t \in Nat /\ CodeOK(p, c, Phys \cup Vregs(c), n, t)
  BY <1>2, <1>3 DEF Allocating
<1>5. /\ c \in Seq(Instr) /\ Vregs(c) \subseteq 1..(n - 1)
      /\ spilled \subseteq 1..(n - 1) /\ spilled \subseteq Int /\ IsFiniteSet(spilled)
  <2>1. /\ c \in Seq(Instr) /\ Vregs(c) \subseteq 1..(n - 1) /\ Vregs(c) \subseteq Int
        /\ IsFiniteSet(Vregs(c))
    BY <1>4, VregsBelow
  <2>2. spilled \in SUBSET Vregs(c)
    BY <1>2, <1>3 DEF VirtualDefs
  <2>3. IsFiniteSet(spilled)
    BY <2>1, <2>2, FS_Subset
  <2> QED BY <2>1, <2>2, <2>3
<1>6. PICK R, M : Claims(p, c, n, t, R, M)
  BY <1>2, <1>3 DEF Allocating
<1>7. PICK c2, n2, t2 : c2 = code' /\ n2 = nextVreg' /\ t2 = numSlots'
  BY Zenon
<1>8. PICK L, nx : Expanded(c, c2, SlotOf(t), L, nx) /\ nx[0] = n /\ nx[Len(c)] = n2
  <2>1. code \in Seq(Instr) /\ nextVreg \in Nat /\ numSlots \in Nat
    BY <1>3, <1>4, <1>5
  <2>2. \E L, nx : /\ Expanded(code, code', SlotOf(numSlots), L, nx)
                   /\ nx[0] = nextVreg /\ nx[Len(code)] = nextVreg'
    BY <1>5, <2>1, SpillVregsExpands
  <2> QED BY <1>3, <1>7, <2>2
<1>9. Spilling(p, Phys \cup Vregs(c), n, t, c, c2, L, nx, n2, t2, R, M)
  <2>1. Phys \cup Vregs(c) \subseteq Regs(n)
    BY <1>5 DEF Regs
  <2>2. t2 = t + Cardinality(spilled)
    BY <1>1, <1>3, <1>7
  <2> QED BY <1>4, <1>5, <1>6, <1>8, <2>1, <2>2 DEF Spilling
<1>10. n2 \in Nat /\ t2 \in Nat
  BY <1>9, SpillNumbers
<1>11. CodeOK(p, c2, Phys \cup Vregs(c2), n2, t2)
  <2>1. PICK U : U = Phys \cup Vregs(c)
    OBVIOUS
  <2>2. Spilling(p, U, n, t, c, c2, L, nx, n2, t2, R, M)
    BY <1>9, <2>1
  <2> QED BY <2>1, <2>2, SpillCode
<1>12. \E R2, M2 : Claims(p, c2, n2, t2, R2, M2)
  BY <1>9, SpillClaims
<1>13. Allocating'
  <2>1. /\ prog' = p /\ code' = c2 /\ nextVreg' = n2 /\ numSlots' = t2
    BY <1>1, <1>3, <1>7
  <2> QED BY <1>10, <1>11, <1>12, <2>1 DEF Allocating
<1>14. (assigned \in [DOMAIN assigned -> Phys])'
  BY <1>1 DEF Cleared
<1> QED BY <1>1, <1>13, <1>14 DEF AllocInv

LEMMA RewriteStep ==
  ASSUME NumRegs \in Nat, AllocInv, RewriteAssigned
  PROVE  AllocInv'
<1>1. /\ phase = "colour" /\ stack = <<>> /\ spilled = {} /\ phase' = "run" /\ pc' = 1
      /\ UNCHANGED <<prog, numSlots, assigned, spilled>>
      /\ code' = [k \in DOMAIN code |-> RewriteVreg(code[k], assigned, assigned)]
      /\ env' = [r \in Phys \cup {prog[k].def : k \in DOMAIN prog} |-> 0]
      /\ regs' = [r \in Phys |-> 0] /\ memory' = [s \in 1..numSlots |-> 0]
  BY DEF RewriteAssigned, colours
<1>2. /\ Allocating /\ ColourInv /\ HasGraph /\ degrees = {}
      /\ assigned \in [DOMAIN assigned -> Phys]
  BY <1>1 DEF AllocInv
<1>3. PICK p, c, n, t, c2 : p = prog /\ c = code /\ n = nextVreg /\ t = numSlots /\ c2 = code'
  BY Zenon
<1>4. n \in Nat /\ t \in Nat /\ CodeOK(p, c, Phys \cup Vregs(c), n, t)
  BY <1>2, <1>3 DEF Allocating
<1>5. PICK R, M : Claims(p, c, n, t, R, M)
  BY <1>2, <1>3 DEF Allocating
<1>6. PICK in : GraphOK(c, in)
  BY <1>2, <1>3 DEF HasGraph
<1>7. DOMAIN assigned = Vregs(c) /\ ColouringOK
  <2>1. Len(stack) = 0
    BY <1>1
  <2>2. Pushed(Len(stack)) = {}
    BY <2>1 DEF Pushed
  <2> QED BY <1>1, <1>2, <1>3, <2>2 DEF ColourInv, VirtualDefs
<1>8. Colouring(p, c, n, t, in, c2)
  BY <1>1, <1>3, <1>4, <1>6, <1>7 DEF Colouring
<1>9. CodeOK(p, c2, Phys, 1, t)
  BY <1>8, ColouredCode
<1>10. PICK R2, M2 : Claims(p, c2, 1, t, R2, M2)
  BY <1>5, <1>8, ColouredClaims
<1>11. prog' = p /\ code' = c2 /\ numSlots' = t
  BY <1>1, <1>3
<1>12. Src(p) \subseteq DOMAIN env' /\ \A s \in Src(p) : env'[s] = 0
  BY <1>1, <1>3 DEF Src, Vregs
<1>13. RunTypes'
  <2>1. 0 \in Data
    BY DEF Data
  <2>2. regs' \in [Phys -> Data \cup {Address}]
    BY <1>1, <2>1
  <2>3. memory' \in [1..t -> Data \cup {Address}]
    BY <1>1, <1>3, <2>1
  <2> QED BY <1>11, <1>12, <2>2, <2>3 DEF RunTypes, Phys, Data, Address
<1>14. ASSUME NEW k \in DOMAIN c2 PROVE Holds(R2[k], M2[k])'
  <2>1. R2[k] \in [Phys -> SUBSET Src(p)] /\ M2[k] \in [1..t -> SUBSET Src(p)]
    <3>1. Regs(1) = Phys
      BY DEF Regs
    <3> QED BY <1>10, <3>1 DEF Claims
  <2>2. PICK r2, m2 : r2 = R2[k] /\ m2 = M2[k]
    BY Zenon
  <2>3. \A r \in Phys : \A s \in r2[r] : regs'[r] = env'[s]
    BY <1>1, <1>12, <2>1, <2>2
  <2>4. \A l \in 1..t : \A s \in m2[l] : memory'[l] = env'[s]
    BY <1>1, <1>3, <1>12, <2>1, <2>2
  <2>5. Holds(r2, m2)'
    BY <2>1, <2>2, <2>3, <2>4 DEF Holds
  <2> QED BY <2>2, <2>5
<1>15. RunInv'
  <2>1. pc' \in DOMAIN c2 => Holds(R2[1], M2[1])'
    BY <1>1, <1>14
  <2>2. (CodeOK(prog, code, Phys, 1, numSlots))'
    BY <1>9, <1>11
  <2>3. (Claims(prog, code, 1, numSlots, R2, M2))'
    BY <1>10, <1>11
  <2>4. (pc \in DOMAIN code => Holds(R2[pc], M2[pc]))'
    BY <1>1, <1>11, <2>1
  <2> QED BY <1>13, <2>2, <2>3, <2>4 DEF RunInv
<1>16. (assigned \in [DOMAIN assigned -> Phys])'
  BY <1>1, <1>2 DEF Phys
<1> QED BY <1>1, <1>15, <1>16 DEF AllocInv

LEMMA RunKeepsAlloc ==
  ASSUME NumRegs \in Nat, AllocInv, ExecLoad \/ (\E far \in BOOLEAN : ExecSave(far))
                                    \/ \E b \in Data, next \in 1..(Len(code) + 1) : Exec(b, next)
  PROVE  AllocInv'
<1>1. phase = "run" /\ UNCHANGED <<phase, assigned, spilled>>
  BY DEF ExecLoad, ExecSave, Exec, colours
<1>2. RunInv /\ spilled = {} /\ assigned \in [DOMAIN assigned -> Phys]
  BY <1>1 DEF AllocInv
<1>3. RunInv'
  BY <1>2, ExecLoadKeepsRun, ExecSaveKeepsRun, ExecKeepsRun
<1>4. (assigned \in [DOMAIN assigned -> Phys])'
  BY <1>1, <1>2 DEF Phys
<1> QED BY <1>1, <1>2, <1>3, <1>4 DEF AllocInv

LEMMA AllocKept ==
  ASSUME AllocInv, UNCHANGED vars
  PROVE  AllocInv'
<1>1. /\ UNCHANGED <<prog, code, phase, nextVreg, numSlots, edges, forbidden>>
      /\ UNCHANGED <<degrees, stack, assigned, spilled, pushedHigh>>
      /\ UNCHANGED <<pc, env, regs, memory>>
  BY DEF vars, graph, colours, machine
<1>2. /\ (phase \in {"build", "simplify", "colour", "run"})'
      /\ (assigned \in [DOMAIN assigned -> Phys])'
  BY <1>1 DEF AllocInv, Phys
<1>3. phase # "run" => Allocating'
  BY <1>1, AllocatingKept DEF AllocInv
<1>4. phase = "build" => Cleared'
  BY <1>1 DEF AllocInv, Cleared
<1>5. ColourInv => ColourInv'
  BY <1>1, ColourKept
<1>6. HasGraph => HasGraph'
  BY <1>1, GraphKept
<1>7. RunInv => RunInv'
  <2> SUFFICES ASSUME RunInv PROVE RunInv'
    OBVIOUS
  <2>1. PICK R, M : Claims(prog, code, 1, numSlots, R, M) /\ (pc \in DOMAIN code => Holds(R[pc], M[pc]))
    BY DEF RunInv
  <2>2. RunTypes'
    BY <1>1 DEF RunInv, RunTypes, Src, Vregs, Phys
  <2>3. PICK i, r, m : i = pc /\ r = R[i] /\ m = M[i]
    BY Zenon
  <2>4. Holds(r, m)' <=> Holds(r, m)
    BY <1>1 DEF Holds
  <2>5. (pc \in DOMAIN code => Holds(R[pc], M[pc]))'
    BY <1>1, <2>1, <2>3, <2>4
  <2> QED BY <1>1, <2>1, <2>2, <2>5, RunStep
<1> QED BY <1>1, <1>2, <1>3, <1>4, <1>5, <1>6, <1>7 DEF AllocInv

LEMMA AllocStep ==
  ASSUME RegsAssumption, AllocInv, [Next]_vars
  PROVE  AllocInv'
<1>1. NumRegs \in Nat
  BY DEF RegsAssumption
<1>2. CASE Build
  BY <1>2, BuildStep
<1>3. CASE \E v \in degrees : SimplifyLow(v) \/ SelectSpillCandidate(v)
  BY <1>3, PushStep
<1>4. CASE Simplified
  BY <1>4, SimplifiedStep
<1>5. CASE \E r \in Phys : Colour(r)
  BY <1>5, ColourStep
<1>6. CASE SpillVregs
  BY <1>1, <1>6, SpillStep
<1>7. CASE RewriteAssigned
  BY <1>1, <1>7, RewriteStep
<1>8. CASE ExecLoad \/ (\E far \in BOOLEAN : ExecSave(far))
           \/ \E b \in Data, next \in 1..(Len(code) + 1) : Exec(b, next)
  BY <1>1, <1>8, RunKeepsAlloc
<1>9. CASE Finished \/ UNCHANGED vars
  <2>1. UNCHANGED vars
    BY <1>9 DEF Finished
  <2> QED BY <2>1, AllocKept
<1> QED BY <1>2, <1>3, <1>4, <1>5, <1>6, <1>7, <1>8, <1>9 DEF Next

LEMMA AllocInvImplies ==
  ASSUME RegsAssumption, AllocInv
  PROVE  TypeOK /\ ValuesPreserved /\ OnlyCandidatesSpill
<1>1. NumRegs \in Nat
  BY DEF RegsAssumption
<1>2. ASSUME NEW x \in Instr, NEW U, NEW n, NEW t, InstrOK(prog, x, U, n, t), U \subseteq Regs(n)
      PROVE  (UseRegs(x) \cup DefRegs(x)) \ Phys \subseteq 1..(n - 1)
  <2>1. UseRegs(x) \subseteq U
    BY <1>2 DEF UseRegs, ToSet, InstrOK, Instr
  <2>2. DefRegs(x) \subseteq Regs(n)
    BY <1>2 DEF DefRegs, InstrOK, Instr, Regs
  <2> QED BY <1>2, <2>1, <2>2 DEF Regs
<1>3. \A k \in DOMAIN code :
        (UseRegs(code[k]) \cup DefRegs(code[k])) \ Phys
           \subseteq (IF phase = "run" THEN {} ELSE 1..(nextVreg - 1))
  <2> SUFFICES ASSUME NEW k \in DOMAIN code
               PROVE  (UseRegs(code[k]) \cup DefRegs(code[k])) \ Phys
                        \subseteq (IF phase = "run" THEN {} ELSE 1..(nextVreg - 1))
    OBVIOUS
  <2>1. CASE phase = "run"
    <3>1. CodeOK(prog, code, Phys, 1, numSlots)
      BY <2>1 DEF AllocInv, RunInv
    <3>2. code[k] \in Instr /\ InstrOK(prog, code[k], Phys, 1, numSlots) /\ Phys \subseteq Regs(1)
      BY <3>1 DEF CodeOK, Regs
    <3>3. 1..(1 - 1) = {}
      OBVIOUS
    <3> QED BY <1>2, <2>1, <3>2, <3>3
  <2>2. CASE phase # "run"
    <3>1. Allocating
      BY <2>2 DEF AllocInv
    <3>2. Vregs(code) \subseteq 1..(nextVreg - 1)
      BY <3>1, VregsBelow DEF Allocating
    <3>3. /\ code[k] \in Instr /\ InstrOK(prog, code[k], Phys \cup Vregs(code), nextVreg, numSlots)
          /\ Phys \cup Vregs(code) \subseteq Regs(nextVreg)
      <4>1. CodeOK(prog, code, Phys \cup Vregs(code), nextVreg, numSlots) /\ code \in Seq(Instr)
        BY <3>1 DEF Allocating, CodeOK
      <4>2. InstrOK(prog, code[k], Phys \cup Vregs(code), nextVreg, numSlots)
        BY <4>1 DEF CodeOK
      <4>3. code[k] \in Instr
        BY <4>1
      <4> QED BY <3>2, <4>2, <4>3 DEF Regs
    <3> QED BY <1>2, <2>2, <3>3
  <2> QED BY <2>1, <2>2
<1>4. phase # "run" => degrees \cup spilled \cup pushedHigh \subseteq VirtualDefs
  <2>1. ColourInv => degrees \cup spilled \cup pushedHigh \subseteq VirtualDefs
    BY DEF ColourInv
  <2>2. Cleared => degrees \cup spilled \cup pushedHigh \subseteq VirtualDefs
    BY DEF Cleared
  <2> QED BY <2>1, <2>2 DEF AllocInv
<1>5. TypeOK
  BY <1>3, <1>4 DEF TypeOK, AllocInv, RunInv, RunTypes
<1>6. ValuesPreserved
  <2> SUFFICES ASSUME phase = "run", pc \in DOMAIN code, code[pc].op = "inst",
                      NEW j \in DOMAIN code[pc].uses
               PROVE  regs[code[pc].uses[j]] = env[prog[code[pc].orig].uses[j]]
    BY DEF ValuesPreserved
  <2>1. RunInv
    BY DEF AllocInv
  <2>2. PICK R, M : Claims(prog, code, 1, numSlots, R, M) /\ Holds(R[pc], M[pc])
    BY <2>1 DEF RunInv
  <2>3. /\ R[pc] \in [Phys -> SUBSET Src(prog)] /\ code[pc] \in Instr
        /\ InstrOK(prog, code[pc], Phys, 1, numSlots)
    BY <1>1, <2>1, <2>2, RunNumbers
  <2>4. Reads(prog, code[pc], R[pc])
    BY <2>2 DEF Claims
  <2>5. j \in 1..Len(code[pc].uses)
    BY <2>3 DEF Instr
  <2>6. code[pc].uses[j] \in Phys /\ prog[code[pc].orig].uses[j] \in R[pc][code[pc].uses[j]]
    BY <2>3, <2>4, <2>5 DEF Reads, InstrOK
  <2> QED BY <2>2, <2>3, <2>6 DEF Holds
<1>7. OnlyCandidatesSpill
  BY DEF OnlyCandidatesSpill, AllocInv, Cleared, ColourInv
<1> QED BY <1>5, <1>6, <1>7

\* However long the function is, however many registers there are and however
\* often vregs are spilled and the code rewritten: the allocated function reads
\* the values that the lowered function reads, registers stay typed, and only
\* vregs that select_spill_candidate pushed are spilled (register_allocation).
THEOREM AllocationIsSafe ==
  ASSUME RegsAssumption
  PROVE  Spec => [](TypeOK /\ ValuesPreserved /\ OnlyCandidatesSpill)
<1>1. Init => AllocInv
  BY AllocInit
<1>2. AllocInv /\ [Next]_vars => AllocInv'
  BY AllocStep
<1>3. AllocInv => TypeOK /\ ValuesPreserved /\ OnlyCandidatesSpill
  BY AllocInvImplies
<1> QED BY <1>1, <1>2, <1>3, PTL DEF Spec
===============================================================================
