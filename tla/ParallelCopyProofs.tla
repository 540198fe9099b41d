------------------------- MODULE ParallelCopyProofs -------------------------
(***************************************************************************)
(* For any set of copies and any order of the HashMap, the moves that      *)
(* resolve_parallel_copy emits do what the copies do at once, with one     *)
(* fresh register for each cycle.  The invariant says which copies have    *)
(* been emitted, by where the walk is: those of a node that was left, and  *)
(* of a node being visited those it has come back from.                    *)
(***************************************************************************)
EXTENDS ParallelCopy, SequenceLemmas, FiniteSetTheorems

Frames == [node : Regs, left : SUBSET Regs, at : Regs \cup {None}]

\* The copies emitted, by their destinations.
Mid     == {middle[k].dst : k \in DOMAIN middle}
Lst     == {last[j].dst : j \in DOMAIN last}
Emitted == Mid \cup Lst
Real    == {d \in DOMAIN move : move[d] # d}

\* The stack is a path of the copies; a frame has a destination in hand or
\* left, and every frame but the top has in hand the node above it.
StackInv ==
  /\ \A i \in 1..Len(stack) :
       /\ stack[i].node \in visited
       /\ stack[i].left \subseteq Dests(stack[i].node)
       /\ stack[i].at # None => /\ stack[i].at \in Dests(stack[i].node) \ stack[i].left
                                /\ stack[i].at \in visited
       /\ i < Len(stack) => stack[i].at = stack[i + 1].node
  /\ \A i, j \in 1..Len(stack) : stack[i].node = stack[j].node => i = j

\* A copy is emitted when its source was visited and waits for it no more.
Waiting(d) == \E i \in 1..Len(stack) : stack[i].node = move[d] /\ (d \in stack[i].left \/ d = stack[i].at)

ListInv ==
  /\ \A k \in 1..Len(middle) : middle[k].dst \in Real /\ middle[k].src = move[middle[k].dst]
  /\ Len(first) = Len(last) /\ nextVreg = NumRegs + 1 + Len(last)
  /\ \A j \in 1..Len(last) :
       /\ last[j].dst \in Real /\ last[j].src = NumRegs + j
       /\ first[j].dst = NumRegs + j /\ first[j].src = move[last[j].dst]
  /\ \A k, l \in 1..Len(middle) : middle[k].dst = middle[l].dst => k = l
  /\ \A k, l \in 1..Len(last) : last[k].dst = last[l].dst => k = l
  /\ Mid \cap Lst = {}

EmitInv == \A d \in Real : d \in Emitted <=> move[d] \in visited /\ ~Waiting(d)

\* A destination that was copied to by a plain move was left; the others are
\* roots, which a cycle led back to.
LeftInv ==
  /\ Mid \cap Visiting = {} /\ Emitted \subseteq visited
  /\ \A j \in 1..Len(last) : last[j].dst \in Visiting => last[j].dst = stack[1].node
  /\ Sources \subseteq roots \cup visited

\* Every fresh register is spent on a cycle, no two on one, and one on each
\* that was visited and left.
CycleInv ==
  /\ \A j \in 1..Len(last) : \E C \in Cycles : last[j].dst \in C
  /\ \A C \in Cycles : \A j, l \in 1..Len(last) : last[j].dst \in C /\ last[l].dst \in C => j = l
  /\ \A C \in Cycles : C \cap visited # {} /\ C \cap Visiting = {} => C \cap Lst # {}

CopyInv == TypeOK /\ StackInv /\ ListInv /\ EmitInv /\ LeftInv /\ ReadBeforeOverwritten /\ CycleInv

-----------------------------------------------------------------------------
\* What the type invariant says, in the terms used below.
LEMMA Types ==
  ASSUME TypeOK, NumRegsAssumption
  PROVE  /\ NumRegs \in Nat /\ 0 \notin Regs /\ DOMAIN move \subseteq Regs
         /\ \A q \in DOMAIN move : move[q] \in Regs
         /\ stack \in Seq(Frames) /\ Len(stack) \in Nat
         /\ \A i \in 1..Len(stack) : stack[i] \in Frames
         /\ first \in Seq(Moves) /\ middle \in Seq(Moves) /\ last \in Seq(Moves)
         /\ Len(first) \in Nat /\ Len(middle) \in Nat /\ Len(last) \in Nat
         /\ \A s : Dests(s) \subseteq Regs /\ Dests(s) \subseteq Real
         /\ \A s : \A d \in Real : d \in Dests(s) <=> move[d] = s
         /\ Regs \subseteq Nat /\ Real \subseteq Regs
<1>1. /\ NumRegs \in Nat /\ 0 \notin Regs /\ DOMAIN move \subseteq Regs
      /\ \A q \in DOMAIN move : move[q] \in Regs
      /\ stack \in Seq(Frames)
      /\ first \in Seq(Moves) /\ middle \in Seq(Moves) /\ last \in Seq(Moves)
      /\ Regs \subseteq Nat
  BY DEF TypeOK, NumRegsAssumption, Regs, Frames
<1>2. /\ Len(stack) \in Nat /\ \A i \in 1..Len(stack) : stack[i] \in Frames
      /\ Len(first) \in Nat /\ Len(middle) \in Nat /\ Len(last) \in Nat
  BY <1>1
<1>3. /\ \A s : Dests(s) \subseteq Regs /\ Dests(s) \subseteq Real
      /\ \A s : \A d \in Real : d \in Dests(s) <=> move[d] = s
      /\ Real \subseteq Regs
  BY <1>1 DEF Dests, Real
<1> QED BY <1>1, <1>2, <1>3

\* The frames below the top, and the stack with another top.
LEMMA TopShape ==
  ASSUME TypeOK, stack # <<>>
  PROVE  /\ Len(stack) \in Nat /\ Len(stack) >= 1
         /\ Top = stack[Len(stack)] /\ Top \in Frames
         /\ Below \in Seq(Frames) /\ Len(Below) = Len(stack) - 1
         /\ \A i \in 1..(Len(stack) - 1) : Below[i] = stack[i]
         /\ \A f \in Frames :
              /\ Append(Below, f) \in Seq(Frames)
              /\ Len(Append(Below, f)) = Len(stack)
              /\ Append(Below, f)[Len(stack)] = f
              /\ \A i \in 1..(Len(stack) - 1) : Append(Below, f)[i] = stack[i]
<1>1. stack \in Seq(Frames)
  BY DEF TypeOK, Frames
<1>2. Len(stack) \in Nat /\ Len(stack) >= 1
  BY <1>1, stack # <<>>
<1>3. Top = stack[Len(stack)] /\ Top \in Frames
  BY <1>1, <1>2 DEF Top
<1>4. /\ Below \in Seq(Frames) /\ Len(Below) = Len(stack) - 1
      /\ \A i \in 1..(Len(stack) - 1) : Below[i] = stack[i]
  <2>1. Len(stack) \in 1..(Len(stack) + 1)
    BY <1>2
  <2>2. Below = SubSeq(stack, 1, Len(stack) - 1)
    BY DEF Below
  <2>3. PICK z : z = SubSeq(stack, Len(stack), Len(stack))
    OBVIOUS
  <2> QED BY <1>1, <2>1, <2>2, <2>3, SplitAt
<1>5. ASSUME NEW f \in Frames
      PROVE  /\ Append(Below, f) \in Seq(Frames)
             /\ Len(Append(Below, f)) = Len(stack)
             /\ Append(Below, f)[Len(stack)] = f
             /\ \A i \in 1..(Len(stack) - 1) : Append(Below, f)[i] = stack[i]
  <2> HIDE DEF Below
  <2> QED BY <1>2, <1>4
<1> QED BY <1>2, <1>3, <1>4, <1>5

LEMMA EnteredShape ==
  ASSUME TypeOK, NumRegsAssumption, NEW node \in Regs, NEW f, f = Entered(node)
  PROVE  f \in Frames /\ f.node = node /\ f.left = Dests(node) /\ f.at = None
<1>1. Dests(node) \subseteq Regs
  BY Types
<1> QED BY <1>1 DEF Entered, Frames, None

-----------------------------------------------------------------------------
\* Two cycles that share a register are one.
LEMMA CyclesApart ==
  ASSUME NEW B \in Cycles, NEW C \in Cycles, NEW x \in B \cap C
  PROVE  B = C
<1>1. LeadsBack(B) /\ LeadsBack(C)
  BY DEF Cycles
<1>2. LeadsBack(B \cap C)
  BY <1>1 DEF LeadsBack
<1>3. B \cap C \in SUBSET B /\ B \cap C \in SUBSET C
  OBVIOUS
<1>4. B \cap C = B /\ B \cap C = C
  BY <1>2, <1>3 DEF Cycles
<1> QED BY <1>4

\* Every register of a cycle is copied to another one of it.
LEMMA CycleGoesOn ==
  ASSUME NEW C \in Cycles, NEW t \in C
  PROVE  \E d \in C : d \in Dests(t)
<1>1. LeadsBack(C) /\ C \subseteq DOMAIN move /\ (\E q \in C : move[q] # q)
      /\ \A B \in SUBSET C : LeadsBack(B) => B = C
  BY DEF Cycles
<1>2. move[t] # t
  <2> SUFFICES ASSUME move[t] = t PROVE FALSE
    OBVIOUS
  <2>1. LeadsBack({t})
    BY DEF LeadsBack
  <2>2. {t} = C
    BY <2>1, <1>1
  <2> QED BY <2>2, <1>1
<1>3. PICK d \in C : move[d] = t
  <2> SUFFICES ASSUME \A d \in C : move[d] # t PROVE FALSE
    OBVIOUS
  <2>1. move[t] \in C \ {t}
    BY <1>1, <1>2 DEF LeadsBack
  <2>2. LeadsBack(C \ {t})
    BY <2>1, <1>1 DEF LeadsBack
  <2>3. C \ {t} = C
    BY <2>2, <1>1
  <2> QED BY <2>3
<1>4. d # t
  BY <1>2, <1>3
<1> QED BY <1>1, <1>3, <1>4 DEF Dests

-----------------------------------------------------------------------------
LEMMA CopyInit ==
  ASSUME NumRegsAssumption, Init
  PROVE  CopyInv
<1>1. /\ stack = <<>> /\ visited = {} /\ first = <<>> /\ middle = <<>> /\ last = <<>>
      /\ nextVreg = NumRegs + 1 /\ roots = Sources /\ NumRegs \in Nat
      /\ \E D \in SUBSET Regs : move \in [D -> Regs]
  BY DEF Init, NumRegsAssumption
<1>2. Len(stack) = 0 /\ Len(first) = 0 /\ Len(middle) = 0 /\ Len(last) = 0
      /\ DOMAIN middle = {} /\ DOMAIN last = {} /\ DOMAIN stack = {}
  BY <1>1
<1>3. TypeOK
  <2>1. Sources \subseteq Regs
    BY <1>1 DEF Sources
  <2> QED BY <1>1, <2>1 DEF TypeOK
<1>4. Mid = {} /\ Lst = {} /\ Visiting = {}
  BY <1>2 DEF Mid, Lst, Visiting
<1>5. StackInv /\ ListInv
  BY <1>1, <1>2, <1>4 DEF StackInv, ListInv
<1>6. EmitInv /\ LeftInv /\ CycleInv
  BY <1>1, <1>2, <1>4 DEF EmitInv, LeftInv, CycleInv, Emitted
<1>7. ReadBeforeOverwritten
  BY <1>2 DEF ReadBeforeOverwritten
<1> QED BY <1>3, <1>5, <1>6, <1>7 DEF CopyInv

-----------------------------------------------------------------------------
\* What the walk does while it emits nothing leaves the lists alone.
LEMMA ListsKept ==
  ASSUME CopyInv, UNCHANGED <<move, nextVreg, first, middle, last>>
  PROVE  /\ ListInv' /\ ReadBeforeOverwritten'
         /\ Mid' = Mid /\ Lst' = Lst /\ Emitted' = Emitted /\ Real' = Real
         /\ Cycles' = Cycles /\ Sources' = Sources /\ \A s : Dests(s)' = Dests(s)
         /\ Len(last') = Len(last) /\ \A j : last'[j] = last[j]
<1>1. /\ Mid' = Mid /\ Lst' = Lst /\ Real' = Real
      /\ Cycles' = Cycles /\ Sources' = Sources /\ \A s : Dests(s)' = Dests(s)
  BY DEF Mid, Lst, Real, Cycles, LeadsBack, Sources, Dests
<1>2. Emitted' = Emitted
  BY <1>1 DEF Emitted
<1>3. ListInv'
  BY <1>1 DEF CopyInv, ListInv
<1>4. ReadBeforeOverwritten'
  BY <1>1 DEF CopyInv, ReadBeforeOverwritten, Move
<1> QED BY <1>1, <1>2, <1>3, <1>4

LEMMA VisitRootKeeps ==
  ASSUME NumRegsAssumption, CopyInv, NEW node \in Regs, VisitRoot(node)
  PROVE  CopyInv'
<1>1. /\ UNCHANGED <<move, nextVreg, first, middle, last>>
      /\ stack = <<>> /\ Len(stack) = 0 /\ DOMAIN stack = {} /\ node \in roots
      /\ roots' = roots \ {node} /\ visited' = visited \cup {node}
      /\ stack' = IF node \in visited THEN <<>> ELSE <<Entered(node)>>
      /\ TypeOK
  BY DEF VisitRoot, CopyInv
<1>2. /\ ListInv' /\ ReadBeforeOverwritten'
      /\ Mid' = Mid /\ Lst' = Lst /\ Emitted' = Emitted /\ Real' = Real
      /\ Cycles' = Cycles /\ Sources' = Sources /\ \A s : Dests(s)' = Dests(s)
      /\ Len(last') = Len(last) /\ \A j : last'[j] = last[j]
  BY <1>1, ListsKept
<1>3. Visiting = {}
  BY <1>1 DEF Visiting
<1>4. CASE node \in visited
  <2>1. stack' = stack /\ visited' = visited
    BY <1>1, <1>4
  <2>2. TypeOK'
    BY <1>1, <2>1 DEF TypeOK, Moves, Regs
  <2>3. StackInv'
    BY <1>2, <2>1 DEF CopyInv, StackInv
  <2>4. Visiting' = Visiting /\ \A d : Waiting(d)' <=> Waiting(d)
    BY <1>1, <2>1 DEF Visiting, Waiting
  <2>5. EmitInv'
    BY <1>1, <1>2, <2>1, <2>4 DEF CopyInv, EmitInv
  <2>6. LeftInv'
    BY <1>1, <1>2, <2>1, <2>4, <1>4 DEF CopyInv, LeftInv
  <2>7. CycleInv'
    BY <1>1, <1>2, <2>1, <2>4 DEF CopyInv, CycleInv
  <2> QED BY <1>2, <2>2, <2>3, <2>5, <2>6, <2>7 DEF CopyInv
<1>5. CASE node \notin visited
  <2>1. PICK f : f = Entered(node)
    OBVIOUS
  <2>2. f \in Frames /\ f.node = node /\ f.left = Dests(node) /\ f.at = None
    BY <1>1, <2>1, EnteredShape
  <2>3. stack' = <<f>>
    BY <1>1, <1>5, <2>1
  <2>4. /\ stack' \in Seq(Frames) /\ Len(stack') = 1 /\ stack'[1] = f /\ DOMAIN stack' = {1}
        /\ 1..Len(stack') = {1}
    BY <2>2, <2>3
  <2>5. TypeOK'
    BY <1>1, <2>4 DEF TypeOK, Moves, Regs, Frames
  <2>6. StackInv'
    BY <1>1, <1>2, <2>2, <2>4 DEF StackInv
  <2>7. Visiting' = {node}
    BY <2>2, <2>4 DEF Visiting
  <2>8. ASSUME NEW d \in Real PROVE Waiting(d)' <=> move[d] = node
    <3>1. Waiting(d)' <=> node = move[d] /\ (d \in Dests(node) \/ d = None)
      BY <1>1, <2>2, <2>4 DEF Waiting
    <3> QED BY <3>1, <1>1, Types
  <2>9. EmitInv'
    <3> SUFFICES ASSUME NEW d \in Real
                 PROVE  d \in Emitted <=> move[d] \in visited \cup {node} /\ ~(move[d] = node)
      BY <1>1, <1>2, <2>8 DEF EmitInv
    <3>1. ~Waiting(d)
      BY <1>1 DEF Waiting
    <3>2. d \in Emitted <=> move[d] \in visited
      BY <3>1 DEF CopyInv, EmitInv
    <3> QED BY <3>2, <1>5
  <2>10. LeftInv'
    <3>1. \A j \in 1..Len(last) : last[j].dst \in Emitted
      BY DEF Emitted, Lst
    <3>2. Emitted \subseteq visited
      BY DEF CopyInv, LeftInv
    <3>3. Mid \cap {node} = {}
      BY <3>2, <1>5 DEF Emitted
    <3>4. Sources \subseteq roots' \cup visited'
      BY <1>1 DEF CopyInv, LeftInv
    <3>5. \A j \in 1..Len(last) : last[j].dst \notin {node}
      BY <3>1, <3>2, <1>5
    <3>6. Emitted \subseteq visited'
      BY <3>2, <1>1
    <3> QED BY <3>3, <3>4, <3>5, <3>6, <1>2, <2>7 DEF LeftInv
  <2>11. CycleInv'
    <3>1. \A C \in Cycles : C \cap visited' # {} /\ C \cap Visiting' = {} => C \cap Lst # {}
      BY <1>1, <1>3, <2>7 DEF CopyInv, CycleInv
    <3> QED BY <1>2, <3>1 DEF CopyInv, CycleInv
  <2> QED BY <1>2, <2>5, <2>6, <2>9, <2>10, <2>11 DEF CopyInv
<1> QED BY <1>4, <1>5

-----------------------------------------------------------------------------
LEMMA DescendKeeps ==
  ASSUME NumRegsAssumption, CopyInv, NEW d \in Regs, Descend(d)
  PROVE  CopyInv'
<1> DEFINE n == Len(stack)
<1>1. PICK f, e : f = [Top EXCEPT !.left = @ \ {d}, !.at = d] /\ e = Entered(d)
  OBVIOUS
<1>2. /\ UNCHANGED <<move, roots, nextVreg, first, middle, last>>
      /\ stack # <<>> /\ Top.at = None /\ d \in Top.left
      /\ stack' = IF d \in visited THEN Append(Below, f) ELSE Append(Append(Below, f), e)
      /\ visited' = visited \cup {d}
      /\ TypeOK
  BY <1>1 DEF Descend, CopyInv
<1>3. /\ ListInv' /\ ReadBeforeOverwritten'
      /\ Mid' = Mid /\ Lst' = Lst /\ Emitted' = Emitted /\ Real' = Real
      /\ Cycles' = Cycles /\ Sources' = Sources /\ \A s : Dests(s)' = Dests(s)
      /\ Len(last') = Len(last) /\ \A j : last'[j] = last[j]
  BY <1>2, ListsKept
<1>4. /\ n \in Nat /\ n >= 1 /\ Top = stack[n] /\ Top \in Frames
  BY <1>2, TopShape
<1>5. /\ f \in Frames /\ f.node = Top.node /\ f.left = Top.left \ {d} /\ f.at = d
  BY <1>1, <1>4 DEF Frames
<1>6. e \in Frames /\ e.node = d /\ e.left = Dests(d) /\ e.at = None /\ d # None
  <2>1. d # None
    BY DEF Regs, None
  <2> QED BY <1>1, <1>2, <2>1, EnteredShape
<1>7. /\ stack' \in Seq(Frames)
      /\ stack'[n] = f /\ \A i \in 1..(n - 1) : stack'[i] = stack[i]
      /\ Len(stack') = IF d \in visited THEN n ELSE n + 1
      /\ d \notin visited => stack'[n + 1] = e
  <2>1. PICK t : t = Append(Below, f)
    OBVIOUS
  <2>2. t \in Seq(Frames) /\ Len(t) = n /\ t[n] = f /\ \A i \in 1..(n - 1) : t[i] = stack[i]
    BY <1>2, <1>5, <2>1, TopShape
  <2>3. CASE d \in visited
    BY <1>2, <2>1, <2>2, <2>3
  <2>4. CASE d \notin visited
    <3>1. stack' = Append(t, e)
      BY <1>2, <2>1, <2>4
    <3> QED BY <3>1, <2>2, <2>4, <1>4, <1>6
  <2> QED BY <2>3, <2>4
<1>8. /\ d \in Real /\ move[d] = Top.node /\ Top.node \in visited /\ d \in Dests(Top.node)
      /\ Top.left \subseteq Dests(Top.node)
  <2>1. n \in 1..Len(stack)
    BY <1>4
  <2>2. d \in Dests(Top.node) /\ Top.node \in visited /\ Top.left \subseteq Dests(Top.node)
    BY <1>2, <1>4, <2>1 DEF CopyInv, StackInv
  <2> QED BY <2>2, <1>2, Types
<1> DEFINE m == Len(stack')
<1>9. m \in Nat /\ (m = n \/ (m = n + 1 /\ d \notin visited)) /\ (m = n => d \in visited)
  BY <1>4, <1>7
<1>10. TypeOK'
  <2>1. visited' \subseteq Regs
    BY <1>2 DEF TypeOK
  <2> QED BY <1>2, <1>7, <2>1 DEF TypeOK, Moves, Regs, Frames
<1> HIDE DEF n, m
\* Every frame of the new stack is an old one, the top with d in hand, or new.
<1>11. ASSUME NEW i \in 1..m
       PROVE  \/ i < n /\ i \in 1..Len(stack) /\ stack'[i] = stack[i] /\ i # n
              \/ i = n /\ stack'[i] = f
              \/ i = n + 1 /\ i = m /\ stack'[i] = e /\ d \notin visited
  BY <1>4, <1>7, <1>9 DEF n
<1>12. n \in 1..Len(stack) /\ n \in 1..m
  BY <1>4, <1>9 DEF n
<1>13. StackInv'
  <2>1. ASSUME NEW i \in 1..m
        PROVE  /\ stack'[i].node \in visited'
               /\ stack'[i].left \subseteq Dests(stack'[i].node)
               /\ stack'[i].at # None => /\ stack'[i].at \in Dests(stack'[i].node) \ stack'[i].left
                                         /\ stack'[i].at \in visited'
               /\ i < m => stack'[i].at = stack'[i + 1].node
    <3>1. CASE i < n /\ i \in 1..Len(stack) /\ stack'[i] = stack[i]
      <4>1. i < Len(stack) /\ stack[i].at = stack[i + 1].node
        BY <3>1 DEF n, CopyInv, StackInv
      <4>2. stack'[i + 1].node = stack[i + 1].node
        <5>1. CASE i + 1 = n
          BY <5>1, <1>4, <1>5, <1>7
        <5>2. CASE i + 1 # n
          <6>1. i + 1 \in 1..(n - 1)
            BY <3>1, <5>2, <1>4
          <6> QED BY <6>1, <1>7
        <5> QED BY <5>1, <5>2
      <4> QED BY <3>1, <4>1, <4>2, <1>2 DEF CopyInv, StackInv
    <3>2. CASE i = n /\ stack'[i] = f
      <4>1. i < m => i + 1 = n + 1 /\ d \notin visited
        BY <3>2, <1>4, <1>9
      <4> QED BY <3>2, <4>1, <1>2, <1>5, <1>6, <1>7, <1>8
    <3>3. CASE i = n + 1 /\ i = m /\ stack'[i] = e /\ d \notin visited
      <4>1. ~(i < m)
        BY <3>3, <1>9, <1>4
      <4>2. d \in visited'
        BY <1>2
      <4> QED BY <3>3, <4>1, <4>2, <1>6
    <3> QED BY <1>11, <3>1, <3>2, <3>3
  <2>2. ASSUME NEW i \in 1..m, NEW j \in 1..m, stack'[i].node = stack'[j].node
        PROVE  i = j
    <3>1. \A k \in 1..m : k # n + 1 => k \in 1..Len(stack) /\ stack'[k].node = stack[k].node
      BY <1>4, <1>5, <1>11, <1>12
    <3>2. \A k \in 1..m : k # n + 1 => stack'[k].node \in visited
      BY <3>1 DEF CopyInv, StackInv
    <3>3. \A k \in 1..m : k = n + 1 => stack'[k].node \notin visited
      BY <1>4, <1>6, <1>11
    <3>4. CASE i # n + 1 /\ j # n + 1
      BY <2>2, <3>1, <3>4 DEF CopyInv, StackInv
    <3> QED BY <2>2, <3>2, <3>3, <3>4
  <2>3. \A s : Dests(s)' = Dests(s)
    BY <1>3
  <2> QED BY <2>1, <2>2, <2>3 DEF StackInv, m
<1>14. ASSUME NEW x \in Real
       PROVE  Waiting(x)' <=> Waiting(x) \/ (d \notin visited /\ move[x] = d)
  <2>1. x # None /\ (x \in Dests(d) <=> move[x] = d)
    BY <1>2, Types DEF None
  <2>2. ASSUME Waiting(x)' PROVE Waiting(x) \/ (d \notin visited /\ move[x] = d)
    <3>1. PICK i \in 1..m : stack'[i].node = move[x] /\ (x \in stack'[i].left \/ x = stack'[i].at)
      BY <2>2, <1>2 DEF Waiting, m
    <3>2. CASE i < n /\ i \in 1..Len(stack) /\ stack'[i] = stack[i]
      BY <3>1, <3>2 DEF Waiting
    <3>3. CASE i = n /\ stack'[i] = f
      BY <3>1, <3>3, <1>2, <1>4, <1>5, <1>12 DEF Waiting
    <3>4. CASE i = n + 1 /\ i = m /\ stack'[i] = e /\ d \notin visited
      BY <3>1, <3>4, <1>6, <2>1
    <3> QED BY <1>11, <3>2, <3>3, <3>4
  <2>3. ASSUME Waiting(x) PROVE Waiting(x)'
    <3>1. PICK i \in 1..Len(stack) : stack[i].node = move[x] /\ (x \in stack[i].left \/ x = stack[i].at)
      BY <2>3 DEF Waiting
    <3>2. i \in 1..m
      BY <1>4, <1>9 DEF n
    <3>3. stack'[i].node = move[x] /\ (x \in stack'[i].left \/ x = stack'[i].at)
      <4>1. CASE i = n
        BY <4>1, <3>1, <1>2, <1>4, <1>5, <1>7, <2>1
      <4>2. CASE i # n
        <5>1. stack'[i] = stack[i]
          BY <4>2, <1>4, <1>7 DEF n
        <5> QED BY <5>1, <3>1
      <4> QED BY <4>1, <4>2
    <3> QED BY <3>2, <3>3, <1>2 DEF Waiting, m
  <2>4. ASSUME d \notin visited, move[x] = d PROVE Waiting(x)'
    <3>1. m = n + 1 /\ m \in 1..m /\ stack'[m] = e
      BY <2>4, <1>4, <1>7, <1>9
    <3> QED BY <3>1, <2>1, <2>4, <1>2, <1>6 DEF Waiting, m
  <2> QED BY <2>2, <2>3, <2>4
<1>15. EmitInv'
  <2> SUFFICES ASSUME NEW x \in Real
               PROVE  x \in Emitted <=> move[x] \in visited' /\ ~Waiting(x)'
    BY <1>2, <1>3 DEF EmitInv
  <2>1. x \in Emitted <=> move[x] \in visited /\ ~Waiting(x)
    BY DEF CopyInv, EmitInv
  <2> QED BY <2>1, <1>2, <1>14
<1>16. Visiting' = IF d \in visited THEN Visiting ELSE Visiting \cup {d}
  <2>1. DOMAIN stack' = 1..m /\ DOMAIN stack = 1..Len(stack)
    BY <1>2, <1>7, Types DEF m
  <2>2. \A k \in 1..Len(stack) : k \in 1..m /\ stack'[k].node = stack[k].node
    BY <1>4, <1>5, <1>7, <1>9 DEF n
  <2>3. \A k \in 1..m : k \in 1..Len(stack) \/ (stack'[k].node = d /\ d \notin visited)
    BY <1>6, <1>11, <1>12
  <2>4. d \notin visited => m \in 1..m /\ stack'[m].node = d
    BY <1>4, <1>6, <1>7, <1>9
  <2>5. Visiting = {stack[k].node : k \in 1..Len(stack)} /\ Visiting' = {stack'[k].node : k \in 1..m}
    BY <2>1 DEF Visiting
  <2>6. Visiting \subseteq Visiting'
    BY <2>2, <2>5
  <2>7. Visiting' \subseteq Visiting \cup {d}
    BY <2>2, <2>3, <2>5
  <2>8. d \in visited => Visiting' \subseteq Visiting
    BY <2>2, <2>3, <2>5
  <2>9. d \notin visited => d \in Visiting'
    BY <2>4, <2>5
  <2> QED BY <2>6, <2>7, <2>8, <2>9
<1>17. LeftInv'
  <2>1. Emitted \subseteq visited /\ Mid \cap Visiting = {} /\ Sources \subseteq roots \cup visited
        /\ \A j \in 1..Len(last) : last[j].dst \in Visiting => last[j].dst = stack[1].node
    BY DEF CopyInv, LeftInv
  <2>2. stack'[1].node = stack[1].node
    BY <1>4, <1>5, <1>7
  <2>3. \A j \in 1..Len(last) : last[j].dst \in Emitted
    BY <1>2, Types DEF Emitted, Lst
  <2>4. \A j \in 1..Len(last) : last[j].dst \in Visiting' => last[j].dst = stack'[1].node
    BY <2>1, <2>2, <2>3, <1>16
  <2>5. Mid \cap Visiting' = {} /\ Emitted \subseteq visited' /\ Sources \subseteq roots' \cup visited'
    BY <2>1, <1>2, <1>16 DEF Emitted
  <2> QED BY <2>4, <2>5, <1>3 DEF LeftInv
<1>18. CycleInv'
  <2>1. \A C \in Cycles : C \cap visited' # {} /\ C \cap Visiting' = {} => C \cap Lst # {}
    BY <1>2, <1>16 DEF CopyInv, CycleInv
  <2> QED BY <1>3, <2>1 DEF CopyInv, CycleInv
<1> QED BY <1>3, <1>10, <1>13, <1>15, <1>17, <1>18 DEF CopyInv

-----------------------------------------------------------------------------
LEMMA LeaveKeeps ==
  ASSUME NumRegsAssumption, CopyInv, Leave
  PROVE  CopyInv'
<1> DEFINE n == Len(stack)
<1>1. /\ UNCHANGED <<move, roots, visited, nextVreg, first, middle, last>>
      /\ stack # <<>> /\ Top.at = None /\ Top.left = {} /\ stack' = Below /\ TypeOK
  BY DEF Leave, CopyInv
<1>2. /\ ListInv' /\ ReadBeforeOverwritten'
      /\ Mid' = Mid /\ Lst' = Lst /\ Emitted' = Emitted /\ Real' = Real
      /\ Cycles' = Cycles /\ Sources' = Sources /\ \A s : Dests(s)' = Dests(s)
      /\ Len(last') = Len(last) /\ \A j : last'[j] = last[j]
  BY <1>1, ListsKept
<1>3. /\ n \in Nat /\ n >= 1 /\ Top = stack[n] /\ Top \in Frames
      /\ stack' \in Seq(Frames) /\ Len(stack') = n - 1
      /\ \A i \in 1..(n - 1) : stack'[i] = stack[i]
  BY <1>1, TopShape
<1> DEFINE t == stack[n].node
<1>4. /\ \A i \in 1..n : stack[i].node \in visited
      /\ \A i \in 1..(n - 1) : stack[i].at = stack[i + 1].node /\ stack[i].at # None
      /\ \A i, j \in 1..n : stack[i].node = stack[j].node => i = j
  <2>1. ASSUME NEW i \in 1..(n - 1) PROVE stack[i].at = stack[i + 1].node /\ stack[i].at # None
    <3>1. i \in 1..n /\ i < n /\ i + 1 \in 1..n
      BY <1>3
    <3>2. stack[i].at = stack[i + 1].node
      BY <3>1 DEF CopyInv, StackInv
    <3>3. stack[i + 1] \in Frames
      BY <1>1, <3>1, Types
    <3>4. stack[i + 1].node \in Regs
      BY <3>3 DEF Frames
    <3> QED BY <1>1, <3>2, <3>4, Types DEF None
  <2> QED BY <2>1 DEF CopyInv, StackInv
<1>5. TypeOK'
  BY <1>1, <1>3 DEF TypeOK, Moves, Regs, Frames
<1>6. StackInv'
  <2>1. \A i \in 1..(n - 1) : i \in 1..n /\ (i < n - 1 => i + 1 \in 1..(n - 1))
    BY <1>3
  <2>2. ASSUME NEW i \in 1..(n - 1)
        PROVE  /\ stack'[i].node \in visited'
               /\ stack'[i].left \subseteq Dests(stack'[i].node)
               /\ stack'[i].at # None => /\ stack'[i].at \in Dests(stack'[i].node) \ stack'[i].left
                                         /\ stack'[i].at \in visited'
               /\ i < n - 1 => stack'[i].at = stack'[i + 1].node
    BY <1>1, <1>3, <1>4, <2>1 DEF CopyInv, StackInv
  <2>3. \A i, j \in 1..(n - 1) : stack'[i].node = stack'[j].node => i = j
    BY <1>3, <1>4, <2>1
  <2> HIDE DEF n
  <2> QED BY <1>2, <1>3, <2>2, <2>3 DEF StackInv
<1>7. ASSUME NEW x \in Real PROVE Waiting(x)' <=> Waiting(x)
  <2>1. x # None
    BY <1>1, Types DEF None
  <2>2. \A i \in 1..n : i \in 1..(n - 1) \/ i = n
    BY <1>3
  <2>3. \A i \in 1..(n - 1) : i \in 1..n
    BY <1>3
  <2>4. Waiting(x)' <=> \E i \in 1..(n - 1) : stack'[i].node = move[x] /\ (x \in stack'[i].left \/ x = stack'[i].at)
    BY <1>1, <1>3 DEF Waiting
  <2>5. Waiting(x) <=> \E i \in 1..(n - 1) : stack[i].node = move[x] /\ (x \in stack[i].left \/ x = stack[i].at)
    BY <1>1, <1>3, <2>1, <2>2, <2>3 DEF Waiting
  <2> QED BY <2>4, <2>5, <1>3
<1>8. EmitInv'
  BY <1>1, <1>2, <1>7 DEF CopyInv, EmitInv
<1>9. Visiting' = Visiting \ {t}
  <2>1. DOMAIN stack' = 1..(n - 1) /\ DOMAIN stack = 1..n
    BY <1>1, <1>3, Types
  <2>2. Visiting = {stack[k].node : k \in 1..n} /\ Visiting' = {stack[k].node : k \in 1..(n - 1)}
    <3>1. Visiting' = {stack'[k].node : k \in 1..(n - 1)}
      BY <2>1 DEF Visiting
    <3> QED BY <3>1, <2>1, <1>3 DEF Visiting
  <2>3. n \in 1..n /\ \A k \in 1..(n - 1) : k \in 1..n /\ k # n
    BY <1>3
  <2>4. \A k \in 1..n : k = n \/ k \in 1..(n - 1)
    BY <1>3
  <2>5. \A k \in 1..(n - 1) : stack[k].node # t
    BY <2>3, <1>4
  <2>6. Visiting' \subseteq Visiting \ {t}
    BY <2>2, <2>3, <2>5
  <2>7. Visiting \ {t} \subseteq Visiting'
    BY <2>2, <2>4
  <2> QED BY <2>6, <2>7
<1>10. LeftInv'
  <2>1. Emitted \subseteq visited /\ Mid \cap Visiting = {} /\ Sources \subseteq roots \cup visited
        /\ \A j \in 1..Len(last) : last[j].dst \in Visiting => last[j].dst = stack[1].node
    BY DEF CopyInv, LeftInv
  <2>2. stack'[1] = stack[1] \/ n = 1
    BY <1>3
  <2>3. n = 1 => Visiting' = {}
    <3> SUFFICES ASSUME n = 1 PROVE Visiting' = {}
      OBVIOUS
    <3>1. DOMAIN stack' = {}
      BY <1>3
    <3> QED BY <3>1 DEF Visiting
  <2>4. \A j \in 1..Len(last) : last[j].dst \in Visiting' => last[j].dst = stack'[1].node
    BY <2>1, <2>2, <2>3, <1>9
  <2> QED BY <2>1, <2>4, <1>1, <1>2, <1>9 DEF LeftInv
<1>11. CycleInv'
  <2> SUFFICES ASSUME NEW C \in Cycles, C \cap visited # {}, C \cap Visiting' = {}, C \cap Lst = {}
               PROVE  FALSE
    BY <1>1, <1>2 DEF CopyInv, CycleInv
  <2>1. t \in C
    BY <1>9 DEF CopyInv, CycleInv
  <2>2. LeadsBack(C) /\ C \subseteq DOMAIN move /\ \A B \in SUBSET C : LeadsBack(B) => B = C
    BY DEF Cycles
  \* The top is the root: the frame below it would be of the same cycle.
  <2>3. n = 1
    <3> SUFFICES ASSUME n # 1 PROVE FALSE
      OBVIOUS
    <3>1. n - 1 \in 1..(n - 1) /\ (n - 1) + 1 = n /\ n - 1 \in 1..n /\ n - 1 # n
      BY <1>3, SMTT(30)
    <3>2. stack[n - 1].at = t /\ t \in Dests(stack[n - 1].node)
      BY <1>4, <3>1 DEF CopyInv, StackInv
    <3>3. move[t] = stack[n - 1].node
      BY <3>2 DEF Dests
    <3>4. stack[n - 1].node \in C
      BY <2>1, <2>2, <3>3, SMTT(30) DEF LeadsBack
    <3>5. stack[n - 1].node \in Visiting
      <4>1. DOMAIN stack = 1..n
        BY <1>1, <1>3, Types
      <4> QED BY <3>1, <4>1 DEF Visiting
    <3>6. stack[n - 1].node # t
      BY <1>3, <1>4, <3>1
    <3> QED BY <1>9, <3>4, <3>5, <3>6
  \* All copies of the root were emitted, one of them along the cycle.
  <2>4. PICK d \in C : d \in Dests(t)
    BY <2>1, CycleGoesOn
  <2>5. d \in Emitted
    <3>1. d \in Real /\ move[d] = t /\ d # None
      <4>1. d \in Real /\ move[d] = t
        BY <2>4 DEF Dests, Real
      <4> QED BY <1>1, <4>1, Types DEF None
    <3>2. ~Waiting(d)
      <4>1. \A i \in 1..Len(stack) : i = n
        BY <2>3
      <4>2. stack[n].left = {} /\ stack[n].at = None
        BY <1>1, <1>3
      <4> QED BY <3>1, <4>1, <4>2 DEF Waiting
    <3>3. t \in visited
      BY <1>3, <1>4
    <3> QED BY <3>1, <3>2, <3>3 DEF CopyInv, EmitInv
  \* What of the cycle was not emitted leads back to itself, so that it is
  \* all of the cycle or nothing; but the root was not.
  <2> DEFINE E == {q \in C : q \notin Emitted}
  <2>6. t \in E
    <3>1. n \in DOMAIN stack
      BY <1>1, <1>3, Types
    <3>2. t \in Visiting
      BY <3>1 DEF Visiting
    <3>3. t \notin Mid
      BY <3>2 DEF CopyInv, LeftInv
    <3> QED BY <2>1, <3>3 DEF Emitted
  <2>7. LeadsBack(E)
    <3>1. ASSUME NEW q \in E, move[q] \notin E PROVE FALSE
      <4>1. move[q] \in C /\ move[q] \in Emitted /\ q \in DOMAIN move
        BY <2>2, <3>1 DEF LeadsBack
      <4>2. move[q] \in Mid
        BY <4>1 DEF Emitted
      <4>3. PICK k \in DOMAIN middle : middle[k].dst = move[q]
        BY <4>2 DEF Mid
      <4>4. move[q] # q
        BY <4>1
      <4>5. q \in Dests(middle[k].dst)
        BY <4>1, <4>3, <4>4 DEF Dests
      <4>6. CASE \E j \in 1..(k - 1) : middle[j] = Move(q, middle[k].dst)
        <5>1. PICK j \in 1..(k - 1) : middle[j] = Move(q, middle[k].dst)
          BY <4>6
        <5>2. j \in DOMAIN middle
          BY <1>1, Types
        <5>3. middle[j].dst = q
          BY <5>1 DEF Move
        <5> QED BY <5>2, <5>3 DEF Mid, Emitted
      <4>7. CASE \E j \in DOMAIN first : first[j].src = middle[k].dst /\ last[j] = Move(q, first[j].dst)
        <5>1. PICK j \in DOMAIN first : last[j] = Move(q, first[j].dst)
          BY <4>7
        <5>2. j \in DOMAIN last
          BY <1>1, Types DEF CopyInv, ListInv
        <5>3. last[j].dst = q
          BY <5>1 DEF Move
        <5> QED BY <5>2, <5>3 DEF Lst, Emitted
      <4> QED BY <4>5, <4>6, <4>7 DEF CopyInv, ReadBeforeOverwritten
    <3> QED BY <3>1, <2>6 DEF LeadsBack
  <2>8. E = C
    BY <2>2, <2>7
  <2> QED BY <2>4, <2>5, <2>8
<1> QED BY <1>2, <1>5, <1>6, <1>8, <1>10, <1>11 DEF CopyInv

-----------------------------------------------------------------------------
\* A destination in hand that is being visited is the root, and the nodes on
\* the stack are a cycle.
LEMMA BackAtRoot ==
  ASSUME NumRegsAssumption, CopyInv, stack # <<>>, Top.at # None, Top.at \in Visiting
  PROVE  Top.at = stack[1].node /\ Visiting \in Cycles
<1> DEFINE n == Len(stack)
           a == Top.at
<1>1. TypeOK
  BY DEF CopyInv
<1>2. n \in Nat /\ n >= 1 /\ Top = stack[n] /\ Top \in Frames /\ DOMAIN stack = 1..n
      /\ n \in 1..n /\ 1 \in 1..n
  BY <1>1, TopShape, Types
<1>3. /\ \A i \in 1..n : stack[i].node \in Regs
      /\ \A i \in 1..(n - 1) : move[stack[i + 1].node] = stack[i].node /\ stack[i + 1].node \in Real
                               /\ stack[i + 1].node \in DOMAIN move
      /\ \A i, j \in 1..n : stack[i].node = stack[j].node => i = j
      /\ move[a] = stack[n].node /\ a \in Real /\ a \in DOMAIN move
  <2>1. \A i \in 1..n : stack[i].node \in Regs
    BY <1>1, Types DEF Frames
  <2>2. ASSUME NEW i \in 1..(n - 1)
        PROVE  move[stack[i + 1].node] = stack[i].node /\ stack[i + 1].node \in Real
               /\ stack[i + 1].node \in DOMAIN move
    <3>1. i \in 1..n /\ i < n /\ i + 1 \in 1..n
      BY <1>2
    <3>2. stack[i].at = stack[i + 1].node
      BY <3>1 DEF CopyInv, StackInv
    <3>3. stack[i + 1].node # None
      BY <1>1, <2>1, <3>1, Types DEF None
    <3>4. stack[i + 1].node \in Dests(stack[i].node)
      BY <3>1, <3>2, <3>3 DEF CopyInv, StackInv
    <3> QED BY <3>4 DEF Dests, Real
  <2>3. a \in Dests(stack[n].node)
    BY <1>2 DEF CopyInv, StackInv
  <2>4. move[a] = stack[n].node /\ a \in Real /\ a \in DOMAIN move
    BY <2>3 DEF Dests, Real
  <2> QED BY <2>1, <2>2, <2>4 DEF CopyInv, StackInv
<1>4. a = stack[1].node
  <2>1. PICK i \in 1..n : a = stack[i].node
    BY <1>2 DEF Visiting
  <2>2. CASE i = 1
    BY <2>1, <2>2
  <2>3. CASE i # 1
    <3>1. i - 1 \in 1..(n - 1) /\ (i - 1) + 1 = i /\ i - 1 \in 1..n /\ i - 1 # n
      BY <1>2, <2>3
    <3>2. move[a] = stack[i - 1].node
      BY <1>3, <2>1, <3>1
    <3> QED BY <1>2, <1>3, <3>1, <3>2
  <2> QED BY <2>2, <2>3
<1> HIDE DEF n, a
<1>5. Visiting = {stack[i].node : i \in 1..n}
  BY <1>2 DEF Visiting
<1>6. \A i \in 1..n : stack[i].node \in DOMAIN move
  <2> SUFFICES ASSUME NEW i \in 1..n PROVE stack[i].node \in DOMAIN move
    OBVIOUS
  <2>1. CASE i = 1
    BY <2>1, <1>3, <1>4
  <2>2. CASE i # 1
    <3>1. i - 1 \in 1..(n - 1) /\ (i - 1) + 1 = i
      BY <1>2, <2>2
    <3> QED BY <1>3, <3>1
  <2> QED BY <2>1, <2>2
<1>7. \A i \in 1..n : move[stack[i].node] \in Visiting
  <2> SUFFICES ASSUME NEW i \in 1..n PROVE move[stack[i].node] \in Visiting
    OBVIOUS
  <2>1. CASE i = 1
    BY <2>1, <1>2, <1>3, <1>4, <1>5
  <2>2. CASE i # 1
    <3>1. i - 1 \in 1..(n - 1) /\ (i - 1) + 1 = i /\ i - 1 \in 1..n
      BY <1>2, <2>2
    <3>2. move[stack[i].node] = stack[i - 1].node
      BY <1>3, <3>1
    <3> QED BY <1>5, <3>1, <3>2
  <2> QED BY <2>1, <2>2
<1>8. LeadsBack(Visiting) /\ Visiting \subseteq DOMAIN move
  <2>1. stack[1].node \in Visiting
    BY <1>2, <1>5
  <2> QED BY <1>5, <1>6, <1>7, <2>1 DEF LeadsBack
<1>9. \E q \in Visiting : move[q] # q
  <2>1. a \in Visiting /\ move[a] # a
    BY <1>2, <1>3, <1>4, <1>5 DEF Real
  <2> QED BY <2>1
<1>10. ASSUME NEW B \in SUBSET Visiting, LeadsBack(B) PROVE B = Visiting
  \* Going down the stack from a node of B one stays in B.
  <2>1. ASSUME NEW i \in 1..n, stack[i].node \in B
        PROVE  \A k \in 1..i : stack[k].node \in B
    <3> DEFINE S == {k \in Nat : k < i => stack[i - k].node \in B}
    <3>1. 0 \in S
      BY <1>2, <2>1
    <3>2. ASSUME NEW k \in Nat, k \in S PROVE k + 1 \in S
      <4> SUFFICES ASSUME k + 1 < i PROVE stack[i - (k + 1)].node \in B
        OBVIOUS
      <4>1. /\ i - (k + 1) \in 1..(n - 1) /\ (i - (k + 1)) + 1 = i - k /\ k < i
        BY <1>2
      <4>2. stack[i - k].node \in B
        BY <3>2, <4>1
      <4>3. move[stack[i - k].node] = stack[i - (k + 1)].node
        BY <1>3, <4>1
      <4> QED BY <1>10, <4>2, <4>3 DEF LeadsBack
    <3> HIDE DEF S
    <3>3. Nat \subseteq S
      BY <3>1, <3>2, InductionOnSet
    <3>4. ASSUME NEW k \in 1..i PROVE stack[k].node \in B
      <4>1. i - k \in Nat /\ i - k < i /\ i - (i - k) = k
        BY <1>2
      <4>2. i - k \in S
        BY <3>3, <4>1
      <4> QED BY <4>1, <4>2 DEF S
    <3> QED BY <3>4
  <2>2. PICK b \in B : b \in Visiting
    BY <1>10 DEF LeadsBack
  <2>3. PICK i \in 1..n : stack[i].node = b
    BY <2>2, <1>5
  <2>4. stack[1].node \in B
    <3>1. 1 \in 1..i
      BY <1>2
    <3> QED BY <2>1, <2>3, <3>1
  <2>5. stack[n].node \in B
    BY <1>3, <1>4, <1>10, <2>4 DEF LeadsBack
  <2>6. \A k \in 1..n : stack[k].node \in B
    BY <1>2, <2>1, <2>5
  <2> QED BY <1>5, <2>6
<1>11. Visiting \in Cycles
  BY <1>8, <1>9, <1>10 DEF Cycles
<1> QED BY <1>4, <1>11 DEF a

-----------------------------------------------------------------------------
\* Both ways to emit a move: the top has nothing in hand any more.
LEMMA EmitShape ==
  ASSUME NumRegsAssumption, CopyInv, EmitMove
  PROVE  /\ UNCHANGED <<move, roots, visited>> /\ TypeOK
         /\ stack # <<>> /\ Top.at \in Real /\ Top.at \in Regs /\ Top.at \in visited
         /\ move[Top.at] = Top.node /\ Top.node \in Regs /\ Top.node \in visited
         /\ Top.at \notin Emitted
         /\ Len(stack) \in Nat /\ Len(stack) >= 1
         /\ stack' \in Seq(Frames) /\ StackInv' /\ Visiting' = Visiting
         /\ stack'[1].node = stack[1].node
         /\ \A x \in Real : Waiting(x)' <=> Waiting(x) /\ x # Top.at
         /\ Real' = Real /\ Cycles' = Cycles /\ Sources' = Sources /\ \A s : Dests(s)' = Dests(s)
<1> DEFINE n == Len(stack)
           a == Top.at
<1>1. PICK f : f = [Top EXCEPT !.at = None]
  OBVIOUS
<1>2. /\ UNCHANGED <<move, roots, visited>> /\ TypeOK
      /\ stack # <<>> /\ a # None /\ stack' = Append(Below, f)
  BY <1>1 DEF EmitMove, CopyInv
<1>3. n \in Nat /\ n >= 1 /\ Top = stack[n] /\ Top \in Frames /\ n \in 1..n
  BY <1>2, TopShape
<1>4. f \in Frames /\ f.node = Top.node /\ f.left = Top.left /\ f.at = None
  BY <1>1, <1>3 DEF Frames, None
<1>5. /\ stack' \in Seq(Frames) /\ Len(stack') = n /\ stack'[n] = f
      /\ \A i \in 1..(n - 1) : stack'[i] = stack[i]
  BY <1>2, <1>4, TopShape
<1>6. a \in Dests(Top.node) /\ a \notin Top.left /\ a \in visited /\ Top.node \in visited
  BY <1>2, <1>3 DEF CopyInv, StackInv
<1>7. a \in Real /\ a \in Regs /\ move[a] = Top.node /\ Top.node \in Regs
  <2>1. a \in Real /\ move[a] = Top.node
    BY <1>6 DEF Dests, Real
  <2> QED BY <1>2, <1>3, <2>1, Types DEF Frames
<1>8. Real' = Real /\ Cycles' = Cycles /\ Sources' = Sources /\ \A s : Dests(s)' = Dests(s)
  BY <1>2 DEF Real, Cycles, LeadsBack, Sources, Dests
<1>9. \A i \in 1..n : /\ stack'[i].node = stack[i].node /\ stack'[i].left = stack[i].left
                      /\ IF i = n THEN stack'[i].at = None ELSE stack'[i].at = stack[i].at
  <2> SUFFICES ASSUME NEW i \in 1..n
               PROVE  /\ stack'[i].node = stack[i].node /\ stack'[i].left = stack[i].left
                      /\ IF i = n THEN stack'[i].at = None ELSE stack'[i].at = stack[i].at
    OBVIOUS
  <2>1. CASE i = n
    BY <2>1, <1>3, <1>4, <1>5
  <2>2. CASE i # n
    <3>1. stack'[i] = stack[i]
      BY <2>2, <1>3, <1>5
    <3> QED BY <2>2, <3>1
  <2> QED BY <2>1, <2>2
<1> HIDE DEF n
<1>10. StackInv'
  <2>1. \A i, j \in 1..n : stack'[i].node = stack'[j].node => i = j
    BY <1>9 DEF CopyInv, StackInv, n
  <2>2. ASSUME NEW i \in 1..n
        PROVE  /\ stack'[i].node \in visited'
               /\ stack'[i].left \subseteq Dests(stack'[i].node)
               /\ stack'[i].at # None => /\ stack'[i].at \in Dests(stack'[i].node) \ stack'[i].left
                                         /\ stack'[i].at \in visited'
               /\ i < n => stack'[i].at = stack'[i + 1].node
    <3>1. i < n => i + 1 \in 1..n
      BY <1>3
    <3>2. i < n => i # n
      BY <1>3
    <3> QED BY <1>2, <1>9, <3>1, <3>2 DEF CopyInv, StackInv, n
  <2> QED BY <1>5, <1>8, <2>1, <2>2 DEF StackInv
<1>11. Visiting' = Visiting
  <2>1. DOMAIN stack' = 1..n /\ DOMAIN stack = 1..n
    BY <1>2, <1>5, Types DEF n
  <2> QED BY <2>1, <1>9 DEF Visiting
<1>12. stack'[1].node = stack[1].node
  BY <1>3, <1>9
<1>13. ASSUME NEW x \in Real PROVE Waiting(x)' <=> Waiting(x) /\ x # a
  <2>1. x # None
    BY <1>2, Types DEF None
  <2>2. ASSUME Waiting(x)' PROVE Waiting(x) /\ x # a
    <3>1. PICK i \in 1..n : stack'[i].node = move[x] /\ (x \in stack'[i].left \/ x = stack'[i].at)
      BY <2>2, <1>2, <1>5 DEF Waiting
    <3>2. Waiting(x)
      BY <3>1, <2>1, <1>9 DEF Waiting, n
    <3>3. x # a
      <4> SUFFICES ASSUME x = a PROVE FALSE
        OBVIOUS
      <4>1. stack[i].node = stack[n].node
        BY <1>3, <1>7, <1>9, <3>1
      <4>2. i = n
        BY <1>3, <4>1 DEF CopyInv, StackInv, n
      <4> QED BY <1>3, <1>6, <1>9, <2>1, <3>1, <4>2
    <3> QED BY <3>2, <3>3
  <2>3. ASSUME Waiting(x), x # a PROVE Waiting(x)'
    <3>1. PICK i \in 1..n : stack[i].node = move[x] /\ (x \in stack[i].left \/ x = stack[i].at)
      BY <2>3 DEF Waiting, n
    <3>2. stack'[i].node = move[x] /\ (x \in stack'[i].left \/ x = stack'[i].at)
      BY <3>1, <2>3, <1>3, <1>9
    <3> QED BY <3>2, <1>2, <1>5 DEF Waiting
  <2> QED BY <2>2, <2>3
<1>14. a \notin Emitted
  <2>1. Waiting(a)
    BY <1>3, <1>7 DEF Waiting, n
  <2> QED BY <2>1, <1>7 DEF CopyInv, EmitInv
<1> QED BY <1>2, <1>3, <1>5, <1>6, <1>7, <1>8, <1>10, <1>11, <1>12, <1>13, <1>14 DEF n

\* A plain move: its destination was visited and left.
LEMMA EmitPlainKeeps ==
  ASSUME NumRegsAssumption, CopyInv, EmitMove, Top.at \notin Visiting
  PROVE  CopyInv'
<1>1. PICK a, t, m : a = Top.at /\ t = Top.node /\ m = Move(a, t)
  OBVIOUS
<1>2. /\ UNCHANGED <<move, roots, visited>> /\ TypeOK
      /\ a \in Real /\ a \in Regs /\ a \in visited /\ move[a] = t /\ t \in Regs /\ a \notin Emitted
      /\ stack' \in Seq(Frames) /\ StackInv' /\ Visiting' = Visiting
      /\ stack'[1].node = stack[1].node
      /\ \A x \in Real : Waiting(x)' <=> Waiting(x) /\ x # a
      /\ Real' = Real /\ Cycles' = Cycles /\ Sources' = Sources /\ \A s : Dests(s)' = Dests(s)
  BY <1>1, EmitShape
<1>3. /\ middle' = Append(middle, m) /\ UNCHANGED <<first, last, nextVreg>>
      /\ a \notin Visiting
  BY <1>1 DEF EmitMove
<1>4. m \in Moves /\ m.dst = a /\ m.src = t
  <2>1. a \in Nat /\ t \in Nat
    BY <1>2 DEF Regs
  <2> QED BY <1>1, <2>1 DEF Move, Moves
<1> DEFINE k0 == Len(middle) + 1
<1>5. /\ middle' \in Seq(Moves) /\ Len(middle) \in Nat /\ Len(middle') = k0 /\ middle'[k0] = m
      /\ \A k \in 1..Len(middle) : middle'[k] = middle[k]
      /\ DOMAIN middle = 1..Len(middle) /\ DOMAIN middle' = 1..k0
  <2>1. middle \in Seq(Moves)
    BY <1>2, Types
  <2> QED BY <2>1, <1>3, <1>4
<1>6. \A k \in 1..k0 : k = k0 \/ k \in 1..Len(middle)
  BY <1>5
<1>7. \A k \in 1..Len(middle) : k \in 1..k0 /\ k # k0
  BY <1>5
<1>8. TypeOK'
  BY <1>2, <1>3, <1>5 DEF TypeOK, Moves, Regs, Frames
<1>9. Mid' = Mid \cup {a} /\ Lst' = Lst /\ Emitted' = Emitted \cup {a} /\ a \notin Mid /\ a \notin Lst
  <2>1. Mid = {middle[k].dst : k \in 1..Len(middle)} /\ Mid' = {middle'[k].dst : k \in 1..k0}
    BY <1>5 DEF Mid
  <2>2. k0 \in 1..k0
    BY <1>5
  <2>3. Mid' \subseteq Mid \cup {a}
    BY <1>4, <1>5, <1>6, <2>1
  <2>4. Mid \subseteq Mid'
    BY <1>5, <1>7, <2>1
  <2>5. a \in Mid'
    BY <1>4, <1>5, <2>1, <2>2
  <2>6. Lst' = Lst
    BY <1>3 DEF Lst
  <2> QED BY <1>2, <2>3, <2>4, <2>5, <2>6 DEF Emitted
<1>10. ListInv'
  <2>1. \A k \in 1..k0 : middle'[k].dst \in Real /\ middle'[k].src = move[middle'[k].dst]
    BY <1>2, <1>4, <1>5, <1>6 DEF CopyInv, ListInv
  <2>2. \A k \in 1..Len(middle) : middle[k].dst # a
    BY <1>5, <1>9 DEF Mid
  <2>3. \A k, l \in 1..k0 : middle'[k].dst = middle'[l].dst => k = l
    BY <1>4, <1>5, <1>6, <2>2 DEF CopyInv, ListInv
  <2>4. Mid' \cap Lst' = {}
    BY <1>9 DEF CopyInv, ListInv
  <2> HIDE DEF k0
  <2> QED BY <1>2, <1>3, <1>5, <2>1, <2>3, <2>4 DEF CopyInv, ListInv
<1>11. EmitInv'
  <2> SUFFICES ASSUME NEW x \in Real
               PROVE  x \in Emitted \cup {a} <=> move[x] \in visited /\ ~(Waiting(x) /\ x # a)
    BY <1>2, <1>9 DEF EmitInv
  <2>1. x \in Emitted <=> move[x] \in visited /\ ~Waiting(x)
    BY DEF CopyInv, EmitInv
  <2>2. t \in visited
    BY <1>1, EmitShape
  <2> QED BY <2>1, <2>2, <1>2
<1>12. LeftInv'
  <2>1. Emitted' \subseteq visited' /\ Mid' \cap Visiting' = {}
    BY <1>2, <1>3, <1>9 DEF CopyInv, LeftInv
  <2> QED BY <1>2, <1>3, <2>1 DEF CopyInv, LeftInv
<1>13. ReadBeforeOverwritten'
  <2> SUFFICES ASSUME NEW k \in 1..k0, NEW d \in Dests(middle'[k].dst)
               PROVE  \/ \E j \in 1..(k - 1) : middle'[j] = Move(d, middle'[k].dst)
                      \/ \E j \in DOMAIN first : /\ first[j].src = middle'[k].dst
                                                 /\ last[j] = Move(d, first[j].dst)
    <3>1. /\ \A r, d : Move(d, r)' = Move(d, r)
          /\ first' = first /\ last' = last /\ DOMAIN middle' = 1..k0
          /\ \A r : Dests(r)' = Dests(r)
      BY <1>2, <1>3, <1>5 DEF Move
    <3> HIDE DEF k0
    <3> QED BY <3>1 DEF ReadBeforeOverwritten
  <2>1. CASE k \in 1..Len(middle)
    <3>1. middle'[k] = middle[k] /\ \A j \in 1..(k - 1) : middle'[j] = middle[j]
      BY <1>5, <2>1
    <3>2. k \in DOMAIN middle /\ d \in Dests(middle[k].dst)
      BY <1>5, <2>1, <3>1
    <3>3. \/ \E j \in 1..(k - 1) : middle[j] = Move(d, middle[k].dst)
          \/ \E j \in DOMAIN first : /\ first[j].src = middle[k].dst
                                     /\ last[j] = Move(d, first[j].dst)
      BY <3>2 DEF CopyInv, ReadBeforeOverwritten
    <3> QED BY <3>1, <3>3
  <2>2. CASE k = k0
    <3>1. middle'[k].dst = a /\ k - 1 = Len(middle)
      BY <1>4, <1>5, <2>2
    <3>2. d \in Real /\ move[d] = a
      BY <3>1 DEF Dests, Real
    <3>3. ~Waiting(d)
      <4>1. DOMAIN stack = 1..Len(stack)
        BY <1>2, Types
      <4> QED BY <1>3, <3>2, <4>1 DEF Waiting, Visiting
    <3>4. d \in Emitted
      BY <1>2, <3>2, <3>3 DEF CopyInv, EmitInv
    <3>5. CASE d \in Mid
      <4>1. PICK j \in 1..Len(middle) : middle[j].dst = d
        BY <1>5, <3>5 DEF Mid
      <4>2. middle[j].src = a
        BY <3>2, <4>1 DEF CopyInv, ListInv
      <4>3. middle[j] \in Moves
        BY <1>2, <4>1, Types
      <4>4. middle[j] = Move(d, a)
        BY <4>1, <4>2, <4>3 DEF Move, Moves
      <4>5. middle'[j] = Move(d, middle'[k].dst) /\ j \in 1..(k - 1)
        BY <1>5, <3>1, <4>1, <4>4
      <4> QED BY <4>5
    <3>6. CASE d \in Lst
      <4>1. PICK j \in 1..Len(last) : last[j].dst = d
        BY <1>2, <3>6, Types DEF Lst
      <4>2. last[j].src = first[j].dst /\ first[j].src = a /\ j \in DOMAIN first
        <5>1. last[j].src = NumRegs + j /\ first[j].dst = NumRegs + j /\ first[j].src = a
              /\ Len(first) = Len(last)
          BY <3>2, <4>1 DEF CopyInv, ListInv
        <5>2. DOMAIN first = 1..Len(first)
          BY <1>2, Types
        <5> QED BY <4>1, <5>1, <5>2
      <4>3. last[j] \in Moves
        BY <1>2, <4>1, Types
      <4>4. last[j] = Move(d, first[j].dst)
        BY <4>1, <4>2, <4>3 DEF Move, Moves
      <4> QED BY <3>1, <4>2, <4>4
    <3> QED BY <3>4, <3>5, <3>6 DEF Emitted
  <2> QED BY <1>6, <2>1, <2>2
<1>14. CycleInv'
  BY <1>2, <1>3, <1>9 DEF CopyInv, CycleInv
<1> QED BY <1>2, <1>8, <1>10, <1>11, <1>12, <1>13, <1>14 DEF CopyInv

\* A move over a fresh register: the walk is back at the root of a cycle.
LEMMA EmitCycleKeeps ==
  ASSUME NumRegsAssumption, CopyInv, EmitMove, Top.at \in Visiting
  PROVE  CopyInv'
<1>1. PICK a, t, v : a = Top.at /\ t = Top.node /\ v = nextVreg
  OBVIOUS
<1>2. PICK f, l : f = Move(v, t) /\ l = Move(a, v)
  OBVIOUS
<1>3. /\ UNCHANGED <<move, roots, visited>> /\ TypeOK
      /\ a \in Real /\ a \in Regs /\ a \in visited /\ move[a] = t /\ t \in Regs /\ a \notin Emitted
      /\ stack' \in Seq(Frames) /\ StackInv' /\ Visiting' = Visiting
      /\ stack'[1].node = stack[1].node
      /\ \A x \in Real : Waiting(x)' <=> Waiting(x) /\ x # a
      /\ Real' = Real /\ Cycles' = Cycles /\ Sources' = Sources /\ \A s : Dests(s)' = Dests(s)
  BY <1>1, EmitShape
<1>4. /\ first' = Append(first, f) /\ last' = Append(last, l) /\ nextVreg' = v + 1
      /\ UNCHANGED middle /\ stack # <<>> /\ Top.at # None
  BY <1>1, <1>2 DEF EmitMove
<1>5. /\ a = stack[1].node /\ Visiting \in Cycles /\ a \in Visiting
  BY <1>1, <1>4, BackAtRoot
<1> DEFINE m == Len(last)
<1>6. m \in Nat /\ Len(first) = m /\ v = NumRegs + 1 + m /\ NumRegs \in Nat /\ v \in Nat
      /\ first \in Seq(Moves) /\ last \in Seq(Moves)
  <2>1. m \in Nat /\ NumRegs \in Nat /\ first \in Seq(Moves) /\ last \in Seq(Moves)
    BY <1>3, Types
  <2>2. Len(first) = m /\ v = NumRegs + 1 + m
    BY <1>1 DEF CopyInv, ListInv
  <2> QED BY <2>1, <2>2
<1>7. f \in Moves /\ f.dst = v /\ f.src = t /\ l \in Moves /\ l.dst = a /\ l.src = v
  <2>1. a \in Nat /\ t \in Nat
    BY <1>3 DEF Regs
  <2> QED BY <1>2, <1>6, <2>1 DEF Move, Moves
<1>8. /\ first' \in Seq(Moves) /\ Len(first') = m + 1 /\ first'[m + 1] = f
      /\ last' \in Seq(Moves) /\ Len(last') = m + 1 /\ last'[m + 1] = l
      /\ \A j \in 1..m : first'[j] = first[j] /\ last'[j] = last[j]
      /\ DOMAIN last = 1..m /\ DOMAIN last' = 1..(m + 1) /\ DOMAIN first' = 1..(m + 1)
      /\ DOMAIN first = 1..m
  BY <1>4, <1>6, <1>7
<1>9. \A j \in 1..(m + 1) : j = m + 1 \/ j \in 1..m
  BY <1>6
<1>10. \A j \in 1..m : j \in 1..(m + 1) /\ j # m + 1
  BY <1>6
<1>11. TypeOK'
  <2>1. nextVreg' \in Nat /\ nextVreg' > NumRegs
    BY <1>4, <1>6
  <2> QED BY <1>3, <1>4, <1>8, <2>1 DEF TypeOK, Moves, Regs, Frames
<1>12. Lst' = Lst \cup {a} /\ Mid' = Mid /\ Emitted' = Emitted \cup {a} /\ a \notin Mid /\ a \notin Lst
  <2>1. Lst = {last[j].dst : j \in 1..m} /\ Lst' = {last'[j].dst : j \in 1..(m + 1)}
    BY <1>8 DEF Lst
  <2>2. m + 1 \in 1..(m + 1)
    BY <1>6
  <2>3. Lst' \subseteq Lst \cup {a}
    BY <1>7, <1>8, <1>9, <2>1
  <2>4. Lst \subseteq Lst'
    BY <1>8, <1>10, <2>1
  <2>5. a \in Lst'
    BY <1>7, <1>8, <2>1, <2>2
  <2>6. Mid' = Mid
    BY <1>4 DEF Mid
  <2> QED BY <1>3, <2>3, <2>4, <2>5, <2>6 DEF Emitted
<1>13. \A j \in 1..m : last[j].dst # a /\ last[j].dst \in Lst
  BY <1>8, <1>12 DEF Lst
<1>14. ListInv'
  <2>1. ASSUME NEW j \in 1..(m + 1)
        PROVE  /\ last'[j].dst \in Real /\ last'[j].src = NumRegs + j
               /\ first'[j].dst = NumRegs + j /\ first'[j].src = move[last'[j].dst]
    <3>1. CASE j = m + 1
      <4>1. v = NumRegs + j
        BY <3>1, <1>6
      <4> HIDE DEF m
      <4> QED BY <3>1, <4>1, <1>3, <1>7, <1>8
    <3>2. CASE j \in 1..m
      BY <3>2, <1>8 DEF CopyInv, ListInv
    <3> QED BY <1>9, <3>1, <3>2
  <2>2. \A j, k \in 1..(m + 1) : last'[j].dst = last'[k].dst => j = k
    BY <1>7, <1>8, <1>9, <1>13 DEF CopyInv, ListInv
  <2>3. Mid' \cap Lst' = {}
    BY <1>12 DEF CopyInv, ListInv
  <2>4. nextVreg' = NumRegs + 1 + (m + 1)
    BY <1>4, <1>6
  <2> HIDE DEF m
  <2> QED BY <1>3, <1>4, <1>8, <2>1, <2>2, <2>3, <2>4 DEF CopyInv, ListInv
<1>15. EmitInv'
  <2> SUFFICES ASSUME NEW x \in Real
               PROVE  x \in Emitted \cup {a} <=> move[x] \in visited /\ ~(Waiting(x) /\ x # a)
    BY <1>3, <1>12 DEF EmitInv
  <2>1. x \in Emitted <=> move[x] \in visited /\ ~Waiting(x)
    BY DEF CopyInv, EmitInv
  <2>2. t \in visited
    BY <1>1, EmitShape
  <2> QED BY <2>1, <2>2, <1>3
<1>16. LeftInv'
  <2>1. Emitted' \subseteq visited' /\ Mid' \cap Visiting' = {} /\ Sources' \subseteq roots' \cup visited'
    BY <1>3, <1>12 DEF CopyInv, LeftInv
  <2>2. \A j \in 1..(m + 1) : last'[j].dst \in Visiting' => last'[j].dst = stack'[1].node
    BY <1>3, <1>5, <1>7, <1>8, <1>9 DEF CopyInv, LeftInv
  <2> HIDE DEF m
  <2> QED BY <1>8, <2>1, <2>2 DEF LeftInv
<1>17. ReadBeforeOverwritten'
  <2> SUFFICES ASSUME NEW k \in DOMAIN middle, NEW d \in Dests(middle[k].dst)
               PROVE  \/ \E j \in 1..(k - 1) : middle[j] = Move(d, middle[k].dst)
                      \/ \E j \in DOMAIN first' : /\ first'[j].src = middle[k].dst
                                                  /\ last'[j] = Move(d, first'[j].dst)
    <3>1. middle' = middle /\ \A k : Dests(middle[k].dst)' = Dests(middle[k].dst)
      BY <1>3, <1>4 DEF Dests
    <3> QED BY <3>1 DEF ReadBeforeOverwritten, Move
  <2>1. \/ \E j \in 1..(k - 1) : middle[j] = Move(d, middle[k].dst)
        \/ \E j \in DOMAIN first : /\ first[j].src = middle[k].dst
                                   /\ last[j] = Move(d, first[j].dst)
    BY DEF CopyInv, ReadBeforeOverwritten
  <2>2. \A j \in DOMAIN first : j \in DOMAIN first' /\ first'[j] = first[j] /\ last'[j] = last[j]
    BY <1>8, <1>10
  <2> QED BY <2>1, <2>2
<1>18. CycleInv'
  <2>1. \A j \in 1..(m + 1) : \E C \in Cycles : last'[j].dst \in C
    BY <1>5, <1>7, <1>8, <1>9 DEF CopyInv, CycleInv
  <2>2. ASSUME NEW C \in Cycles, NEW j \in 1..m, last[j].dst \in C, a \in C PROVE FALSE
    <3>1. C = Visiting
      BY <1>5, <2>2, CyclesApart
    <3>2. last[j].dst = stack[1].node
      BY <2>2, <3>1 DEF CopyInv, LeftInv
    <3> QED BY <1>5, <1>13, <3>2
  <2>3. \A C \in Cycles : \A j, k \in 1..(m + 1) : last'[j].dst \in C /\ last'[k].dst \in C => j = k
    BY <1>7, <1>8, <1>9, <2>2 DEF CopyInv, CycleInv
  <2>4. \A C \in Cycles : C \cap visited # {} /\ C \cap Visiting = {} => C \cap Lst' # {}
    BY <1>12 DEF CopyInv, CycleInv
  <2> HIDE DEF m
  <2> QED BY <1>3, <1>8, <2>1, <2>3, <2>4 DEF CycleInv
<1> QED BY <1>3, <1>11, <1>14, <1>15, <1>16, <1>17, <1>18 DEF CopyInv

-----------------------------------------------------------------------------
LEMMA CopyStep ==
  ASSUME NumRegsAssumption, CopyInv, [Next]_vars
  PROVE  CopyInv'
<1>1. CASE UNCHANGED vars
  <2>1. UNCHANGED <<move, roots, stack, visited, nextVreg, first, middle, last>>
    BY <1>1 DEF vars
  <2>2. /\ ListInv' /\ ReadBeforeOverwritten'
        /\ Mid' = Mid /\ Lst' = Lst /\ Emitted' = Emitted /\ Real' = Real
        /\ Cycles' = Cycles /\ Sources' = Sources /\ \A s : Dests(s)' = Dests(s)
        /\ Len(last') = Len(last) /\ \A j : last'[j] = last[j]
    BY <2>1, ListsKept
  <2>3. Visiting' = Visiting /\ \A d : Waiting(d)' <=> Waiting(d)
    BY <2>1 DEF Visiting, Waiting
  <2>4. TypeOK'
    BY <2>1 DEF CopyInv, TypeOK, Moves, Regs
  <2>5. StackInv'
    BY <2>1, <2>2 DEF CopyInv, StackInv
  <2>6. EmitInv' /\ LeftInv' /\ CycleInv'
    BY <2>1, <2>2, <2>3 DEF CopyInv, EmitInv, LeftInv, CycleInv
  <2> QED BY <2>2, <2>4, <2>5, <2>6 DEF CopyInv
<1>2. ASSUME NEW r \in Regs, VisitRoot(r) PROVE CopyInv'
  BY <1>2, VisitRootKeeps
<1>3. ASSUME NEW r \in Regs, Descend(r) PROVE CopyInv'
  BY <1>3, DescendKeeps
<1>4. CASE EmitMove
  BY <1>4, EmitPlainKeeps, EmitCycleKeeps
<1>5. CASE Leave
  BY <1>5, LeaveKeeps
<1> QED BY <1>1, <1>2, <1>3, <1>4, <1>5 DEF Next

-----------------------------------------------------------------------------
\* When the walk is over every copy that is not of a register to itself was
\* emitted.
LEMMA AllEmitted ==
  ASSUME NumRegsAssumption, CopyInv, Done
  PROVE  Emitted = Real
<1>1. stack = <<>> /\ roots = {} /\ Len(stack) = 0
  BY DEF Done
<1>2. ASSUME NEW d \in Real PROVE d \in Emitted
  <2>1. move[d] \in Sources
    BY DEF Sources, Real
  <2>2. move[d] \in visited
    BY <1>1, <2>1 DEF CopyInv, LeftInv
  <2>3. ~Waiting(d)
    BY <1>1 DEF Waiting
  <2> QED BY <2>2, <2>3 DEF CopyInv, EmitInv
<1>3. Emitted \subseteq Real
  <2>1. DOMAIN middle = 1..Len(middle) /\ DOMAIN last = 1..Len(last)
    BY Types DEF CopyInv
  <2> QED BY <2>1 DEF Emitted, Mid, Lst, CopyInv, ListInv
<1> QED BY <1>2, <1>3

LEMMA TempsAreCycles ==
  ASSUME NumRegsAssumption, CopyInv
  PROVE  OneTempPerCycle
<1> SUFFICES ASSUME Done PROVE nextVreg - 1 - NumRegs = Cardinality(Cycles)
  BY DEF OneTempPerCycle
<1> DEFINE m == Len(last)
           g == [j \in 1..m |-> CHOOSE C \in Cycles : last[j].dst \in C]
<1>1. stack = <<>> /\ roots = {} /\ Visiting = {}
  BY DEF Done, Visiting
<1>2. m \in Nat /\ NumRegs \in Nat /\ nextVreg = NumRegs + 1 + m /\ DOMAIN last = 1..m
  BY Types DEF CopyInv, ListInv
<1>3. \A j \in 1..m : g[j] \in Cycles /\ last[j].dst \in g[j]
  BY DEF CopyInv, CycleInv
<1>4. \A j, k \in 1..m : g[j] = g[k] => j = k
  BY <1>3 DEF CopyInv, CycleInv
<1>5. ASSUME NEW C \in Cycles PROVE \E j \in 1..m : g[j] = C
  <2>1. PICK t \in C : TRUE
    BY DEF Cycles, LeadsBack
  <2>2. PICK d \in C : d \in Dests(t)
    BY CycleGoesOn
  <2>3. t \in Sources
    BY <2>2 DEF Dests, Sources
  <2>4. t \in visited
    BY <1>1, <2>3 DEF CopyInv, LeftInv
  <2>5. C \cap Lst # {}
    BY <1>1, <2>4 DEF CopyInv, CycleInv
  <2>6. PICK j \in 1..m : last[j].dst \in C
    BY <1>2, <2>5 DEF Lst
  <2> HIDE DEF g, m
  <2>7. g[j] = C
    BY <1>3, <2>6, CyclesApart
  <2> QED BY <2>7
<1>6. g \in Bijection(1..m, Cycles)
  <2>1. g \in [1..m -> Cycles]
    BY <1>3
  <2> HIDE DEF g
  <2>2. g \in Injection(1..m, Cycles)
    BY <1>4, <2>1 DEF Injection, IsInjective
  <2>3. g \in Surjection(1..m, Cycles)
    BY <1>5, <2>1 DEF Surjection
  <2> QED BY <2>2, <2>3 DEF Bijection
<1>7. Cardinality(1..m) = m /\ IsFiniteSet(1..m)
  <2> HIDE DEF m
  <2>1. 1 \in Int /\ m \in Int
    BY <1>2
  <2>2. IsFiniteSet(1..m) /\ Cardinality(1..m) = IF 1 > m THEN 0 ELSE m - 1 + 1
    BY <2>1, FS_Interval
  <2> QED BY <1>2, <2>2
<1>8. Cardinality(Cycles) = m
  BY <1>6, <1>7, FS_Bijection DEF ExistsBijection
<1> QED BY <1>2, <1>8

-----------------------------------------------------------------------------
\* What After computes, move by move: its recursive function exists, by
\* induction on the number of moves.
LEMMA AfterSteps ==
  ASSUME NEW moves, Len(moves) \in Nat
  PROVE  \E f : /\ After(moves) = f[Len(moves)]
                /\ f[0] = [r \in 1..(nextVreg - 1) |-> r]
                /\ \A k \in 1..Len(moves) :
                     f[k] = [f[k - 1] EXCEPT ![moves[k].dst] = f[k - 1][moves[k].src]]
<1> DEFINE start == [r \in 1..(nextVreg - 1) |-> r]
           Then(regs, k) == [regs EXCEPT ![moves[k].dst] = regs[moves[k].src]]
           Runs(f, m) == f = [k \in 0..m |-> IF k = 0 THEN start ELSE Then(f[k - 1], k)]
           S == {m \in Nat : \E f : Runs(f, m)}
           file == CHOOSE f : Runs(f, Len(moves))
<1> HIDE DEF start, Then
<1>1. 0 \in S
  <2> DEFINE f == [k \in 0..0 |-> start]
  <2>1. Runs(f, 0)
    OBVIOUS
  <2> QED BY <2>1
<1>2. ASSUME NEW m \in Nat, m \in S PROVE m + 1 \in S
  <2>1. PICK g : Runs(g, m)
    BY <1>2
  <2> DEFINE h == [k \in 0..(m + 1) |-> IF k = 0 THEN start ELSE Then(g[k - 1], k)]
  <2>2. \A k \in 0..m : h[k] = g[k]
    BY <2>1
  <2>3. \A k \in 0..(m + 1) : k # 0 => k - 1 \in 0..m
    OBVIOUS
  <2>4. Runs(h, m + 1)
    BY <2>2, <2>3
  <2>5. \E f : Runs(f, m + 1)
    <3> HIDE DEF h, Runs
    <3> QED BY <2>4
  <2> HIDE DEF Runs
  <2> QED BY <2>5
<1>3. Len(moves) \in S
  <2> HIDE DEF S
  <2> QED BY <1>1, <1>2, InductionOnSet
<1> HIDE DEF Runs
<1>4. \E f : Runs(f, Len(moves))
  BY <1>3
<1>5. Runs(file, Len(moves))
  BY <1>4, Zenon
<1> USE DEF Runs
<1>6. After(moves) = file[Len(moves)]
  BY DEF After, start, Then
<1> HIDE DEF file
<1>7. file[0] = start /\ \A k \in 1..Len(moves) : file[k] = Then(file[k - 1], k)
  <2>1. PICK n \in Nat : n = Len(moves)
    OBVIOUS
  <2>2. 0 \in 0..n /\ \A k \in 1..n : k \in 0..n /\ k # 0
    OBVIOUS
  <2> QED BY <1>5, <2>1, <2>2
<1> QED BY <1>6, <1>7 DEF start, Then

-----------------------------------------------------------------------------
\* The moves in the order they are run: a fresh register takes the source of
\* the copy that closes a cycle; a plain move reads its source, that no move
\* before it wrote; and at last the fresh registers are copied on.
LEMMA OutMoves ==
  ASSUME NumRegsAssumption, CopyInv, NEW out, out = Out, NEW m, m = Len(last)
  PROVE  /\ m \in Nat /\ Len(out) \in Nat /\ Len(out) >= m
         /\ {out[h].dst : h \in 1..Len(out)} \cap Regs = Emitted
         /\ \A h \in 1..Len(out) :
              IF h <= m
              THEN out[h].dst = NumRegs + h /\ out[h].src = move[last[h].dst] /\ out[h].src \in Regs
              ELSE /\ out[h].dst \in Real
                   /\ \/ /\ out[h].src = move[out[h].dst] /\ out[h].src \in Regs
                         /\ \A i \in 1..(h - 1) : out[i].dst # out[h].src
                      \/ \E j \in 1..m : out[h].src = NumRegs + j /\ move[out[h].dst] = move[last[j].dst]
<1> DEFINE q == Len(middle)
           fm == first \o middle
<1>1. /\ m \in Nat /\ q \in Nat /\ Len(first) = m /\ NumRegs \in Nat
      /\ first \in Seq(Moves) /\ middle \in Seq(Moves) /\ last \in Seq(Moves)
      /\ Real \subseteq Regs /\ \A x \in Real : move[x] \in Regs
      /\ Regs = 1..NumRegs
      /\ DOMAIN middle = 1..q /\ DOMAIN last = 1..m /\ DOMAIN first = 1..m
  <2>1. Len(first) = m
    BY DEF CopyInv, ListInv
  <2>2. \A x \in Real : move[x] \in Regs
    BY Types DEF CopyInv, Real
  <2> QED BY <2>1, <2>2, Types DEF CopyInv, Regs
<1>2. /\ \A k \in 1..q : middle[k].dst \in Real /\ middle[k].src = move[middle[k].dst]
      /\ \A j \in 1..m : /\ last[j].dst \in Real /\ last[j].src = NumRegs + j
                         /\ first[j].dst = NumRegs + j /\ first[j].src = move[last[j].dst]
      /\ \A k, l \in 1..q : middle[k].dst = middle[l].dst => k = l
      /\ \A k \in 1..q, j \in 1..m : middle[k].dst # last[j].dst
  <2>1. \A k \in 1..q, j \in 1..m : middle[k].dst # last[j].dst
    <3> SUFFICES ASSUME NEW k \in 1..q, NEW j \in 1..m, middle[k].dst = last[j].dst PROVE FALSE
      OBVIOUS
    <3>1. middle[k].dst \in Mid /\ last[j].dst \in Lst
      BY <1>1 DEF Mid, Lst
    <3> QED BY <3>1 DEF CopyInv, ListInv
  <2> QED BY <1>1, <2>1 DEF CopyInv, ListInv
<1>3. /\ fm \in Seq(Moves) /\ Len(fm) = m + q
      /\ \A k \in 1..m : fm[k] = first[k]
      /\ \A k \in 1..q : fm[m + k] = middle[k]
  <2>1. PICK c : c = first \o middle
    OBVIOUS
  <2>2. /\ c \in Seq(Moves) /\ Len(c) = Len(first) + Len(middle)
        /\ \A k \in 1..Len(first) : c[k] = first[k]
        /\ \A k \in 1..Len(middle) : c[Len(first) + k] = middle[k]
    <3>1. first \in Seq(Moves) /\ middle \in Seq(Moves)
      BY <1>1
    <3> QED BY <3>1, <2>1, ConcatAt
  <2> QED BY <1>1, <2>1, <2>2
<1>4. /\ Len(out) = m + q + m
      /\ \A k \in 1..(m + q) : out[k] = fm[k]
      /\ \A k \in 1..m : out[m + q + k] = last[k]
  <2>1. out = fm \o last
    BY DEF Out
  <2> HIDE DEF fm, q
  <2>2. /\ Len(out) = Len(fm) + Len(last)
        /\ \A k \in 1..Len(fm) : out[k] = fm[k]
        /\ \A k \in 1..Len(last) : out[Len(fm) + k] = last[k]
    <3>1. fm \in Seq(Moves) /\ last \in Seq(Moves)
      BY <1>1, <1>3
    <3> QED BY <3>1, <2>1, ConcatAt
  <2> QED BY <1>1, <1>3, <2>2
<1> HIDE DEF fm, q
<1>0. (\A k \in 1..m : k \in 1..(m + q)) /\ (\A k \in 1..q : m + k \in 1..(m + q))
  BY <1>1
<1>5. /\ \A k \in 1..m : out[k] = first[k]
      /\ \A k \in 1..q : out[m + k] = middle[k]
      /\ \A k \in 1..m : out[m + q + k] = last[k]
  BY <1>0, <1>3, <1>4
<1>6. \A h \in 1..Len(out) : \/ h \in 1..m
                             \/ h > m /\ h - m \in 1..q /\ h = m + (h - m)
                             \/ h > m + q /\ h - (m + q) \in 1..m /\ h = m + q + (h - (m + q))
  BY <1>1, <1>4
<1>7. ASSUME NEW h \in 1..Len(out)
      PROVE  IF h <= m
             THEN out[h].dst = NumRegs + h /\ out[h].src = move[last[h].dst] /\ out[h].src \in Regs
             ELSE /\ out[h].dst \in Real
                  /\ \/ /\ out[h].src = move[out[h].dst] /\ out[h].src \in Regs
                        /\ \A i \in 1..(h - 1) : out[i].dst # out[h].src
                     \/ \E j \in 1..m : out[h].src = NumRegs + j /\ move[out[h].dst] = move[last[j].dst]
  <2>1. CASE h \in 1..m
    <3>1. h <= m /\ out[h] = first[h]
      BY <1>1, <1>5, <2>1
    <3>2. last[h].dst \in Real /\ out[h].dst = NumRegs + h /\ out[h].src = move[last[h].dst]
      BY <1>2, <2>1, <3>1
    <3>3. out[h].src \in Regs
      <4>1. move[last[h].dst] \in Regs
        BY <1>1, <3>2
      <4> QED BY <3>2, <4>1
    <3> QED BY <3>1, <3>2, <3>3
  <2>2. CASE h > m /\ h - m \in 1..q
    <3>1. PICK k \in 1..q : k = h - m /\ h = m + k
      BY <1>1, <2>2
    <3>2. out[h] = middle[k] /\ ~(h <= m)
      BY <1>1, <1>5, <2>2, <3>1
    <3>3. /\ out[h].dst \in Real /\ out[h].src = move[out[h].dst] /\ out[h].src \in Regs
      <4>1. out[h].dst \in Real /\ out[h].src = move[out[h].dst]
        BY <1>2, <3>2
      <4>2. move[out[h].dst] \in Regs
        BY <1>1, <4>1
      <4> QED BY <4>1, <4>2
    <3>4. ASSUME NEW i \in 1..(h - 1), out[i].dst = out[h].src PROVE FALSE
      <4>1. CASE i \in 1..m
        <5>1. out[i].dst = NumRegs + i /\ i \in Nat /\ i >= 1
          <6>1. out[i] = first[i] /\ first[i].dst = NumRegs + i
            BY <1>2, <1>5, <4>1
          <6> QED BY <1>1, <4>1, <6>1
        <5>2. out[i].dst \in 1..NumRegs
          BY <1>1, <3>3, <3>4
        <5> QED BY <1>1, <5>1, <5>2
      <4>2. CASE i \notin 1..m
        <5>1. PICK l \in 1..q : l = i - m /\ i = m + l /\ l < k
          BY <1>1, <3>1, <4>2
        <5>2. middle[l].dst = out[h].src
          BY <1>5, <3>4, <5>1
        <5>3. middle[k].dst \in Dests(middle[l].dst)
          BY <1>2, <3>2, <3>3, <5>2 DEF Dests, Real
        <5>4. CASE \E j \in 1..(l - 1) : middle[j] = Move(middle[k].dst, middle[l].dst)
          <6>1. PICK j \in 1..(l - 1) : middle[j] = Move(middle[k].dst, middle[l].dst)
            BY <5>4
          <6>2. middle[j].dst = middle[k].dst /\ j \in 1..q /\ j # k
            BY <1>1, <5>1, <6>1 DEF Move
          <6> QED BY <1>2, <6>2
        <5>5. CASE \E j \in DOMAIN first : /\ first[j].src = middle[l].dst
                                           /\ last[j] = Move(middle[k].dst, first[j].dst)
          <6>1. PICK j \in 1..m : last[j] = Move(middle[k].dst, first[j].dst)
            BY <1>1, <5>5
          <6>2. last[j].dst = middle[k].dst
            BY <6>1 DEF Move
          <6> QED BY <1>2, <6>2
        <5> QED BY <1>1, <5>3, <5>4, <5>5 DEF CopyInv, ReadBeforeOverwritten
      <4> QED BY <4>1, <4>2
    <3> QED BY <3>2, <3>3, <3>4
  <2>3. CASE h > m + q /\ h - (m + q) \in 1..m
    <3>1. PICK j \in 1..m : j = h - (m + q) /\ h = m + q + j
      <4>1. h - (m + q) \in 1..m /\ h = m + q + (h - (m + q))
        BY <1>1, <2>3
      <4> QED BY <4>1
    <3>2. out[h] = last[j] /\ ~(h <= m)
      BY <1>1, <1>5, <2>3, <3>1
    <3>3. out[h].dst \in Real /\ out[h].src = NumRegs + j /\ move[out[h].dst] = move[last[j].dst]
      BY <1>2, <3>2
    <3> QED BY <3>2, <3>3
  <2> QED BY <1>6, <2>1, <2>2, <2>3
<1>8. {out[h].dst : h \in 1..Len(out)} \cap Regs = Emitted
  <2>1. ASSUME NEW h \in 1..Len(out), out[h].dst \in Regs PROVE out[h].dst \in Emitted
    <3>1. CASE h \in 1..m
      <4>1. out[h].dst = NumRegs + h
        BY <1>2, <1>5, <3>1
      <4> QED BY <1>1, <2>1, <3>1, <4>1
    <3>2. CASE h > m /\ h - m \in 1..q
      <4>1. PICK k \in 1..q : out[h] = middle[k]
        <5>1. h - m \in 1..q /\ h = m + (h - m)
          BY <1>1, <3>2
        <5> QED BY <1>5, <5>1
      <4> QED BY <1>1, <4>1 DEF Emitted, Mid
    <3>3. CASE h > m + q /\ h - (m + q) \in 1..m
      <4>1. PICK j \in 1..m : out[h] = last[j]
        <5>1. h - (m + q) \in 1..m /\ h = m + q + (h - (m + q))
          BY <1>1, <3>3
        <5> QED BY <1>5, <5>1
      <4> QED BY <1>1, <4>1 DEF Emitted, Lst
    <3> QED BY <1>6, <3>1, <3>2, <3>3
  <2>2. ASSUME NEW d \in Mid PROVE \E h \in 1..Len(out) : out[h].dst = d
    <3>1. PICK k \in 1..q : middle[k].dst = d
      BY <1>1 DEF Mid
    <3>2. m + k \in 1..Len(out) /\ out[m + k].dst = d
      BY <1>1, <1>4, <1>5, <3>1
    <3> QED BY <3>2
  <2>3. ASSUME NEW d \in Lst PROVE \E h \in 1..Len(out) : out[h].dst = d
    <3>1. PICK j \in 1..m : last[j].dst = d
      BY <1>1 DEF Lst
    <3>2. m + q + j \in 1..Len(out) /\ out[m + q + j].dst = d
      BY <1>1, <1>4, <1>5, <3>1
    <3> QED BY <3>2
  <2>4. Emitted \subseteq Regs
    <3>1. \A d \in Mid : d \in Real
      BY <1>1, <1>2 DEF Mid
    <3>2. \A d \in Lst : d \in Real
      BY <1>1, <1>2 DEF Lst
    <3> QED BY <1>1, <3>1, <3>2 DEF Emitted
  <2> QED BY <2>1, <2>2, <2>3, <2>4 DEF Emitted
<1> QED BY <1>1, <1>4, <1>7, <1>8

LEMMA CopiesAtOnce ==
  ASSUME NumRegsAssumption, CopyInv
  PROVE  ParallelAssignment
<1> SUFFICES ASSUME Done, NEW r0 \in Regs
             PROVE  After(Out)[r0] = IF r0 \in DOMAIN move THEN move[r0] ELSE r0
  BY DEF ParallelAssignment
<1>1. PICK out, m : out = Out /\ m = Len(last)
  OBVIOUS
<1> DEFINE Wrote(r, k) == \E h \in 1..k : out[h].dst = r
           n == Len(out)
<1>2. /\ m \in Nat /\ n \in Nat /\ n >= m
      /\ {out[h].dst : h \in 1..n} \cap Regs = Emitted
      /\ \A h \in 1..n :
           IF h <= m
           THEN out[h].dst = NumRegs + h /\ out[h].src = move[last[h].dst] /\ out[h].src \in Regs
           ELSE /\ out[h].dst \in Real
                /\ \/ /\ out[h].src = move[out[h].dst] /\ out[h].src \in Regs
                      /\ \A i \in 1..(h - 1) : out[i].dst # out[h].src
                   \/ \E j \in 1..m : out[h].src = NumRegs + j /\ move[out[h].dst] = move[last[j].dst]
  BY <1>1, OutMoves
<1>3. PICK f : /\ After(out) = f[n]
               /\ f[0] = [r \in 1..(nextVreg - 1) |-> r]
               /\ \A k \in 1..n : f[k] = [f[k - 1] EXCEPT ![out[k].dst] = f[k - 1][out[k].src]]
  BY <1>2, AfterSteps
<1>4. /\ NumRegs \in Nat /\ Regs = 1..NumRegs /\ nextVreg - 1 = NumRegs + m
      /\ Real \subseteq Regs
  <2>1. nextVreg = NumRegs + 1 + m
    BY <1>1 DEF CopyInv, ListInv
  <2>2. NumRegs \in Nat /\ Regs = 1..NumRegs /\ Real \subseteq Regs
    BY Types DEF CopyInv, Regs
  <2> QED BY <1>2, <2>1, <2>2
<1> DEFINE Held(k) == /\ DOMAIN f[k] = 1..(NumRegs + m)
                      /\ \A r \in Regs : f[k][r] = IF Wrote(r, k) THEN move[r] ELSE r
                      /\ \A j \in 1..m : j <= k => f[k][NumRegs + j] = move[last[j].dst]
           S == {k \in Nat : k <= n => Held(k)}
<1> HIDE DEF n
<1>5. 0 \in S
  <2>1. f[0] = [r \in 1..(NumRegs + m) |-> r]
    BY <1>3, <1>4
  <2>2. \A r \in Regs : r \in 1..(NumRegs + m) /\ ~Wrote(r, 0)
    BY <1>2, <1>4
  <2>3. \A j \in 1..m : ~(j <= 0)
    BY <1>2
  <2> HIDE DEF Wrote
  <2>4. Held(0)
    BY <2>1, <2>2, <2>3
  <2> QED BY <2>4
<1>6. ASSUME NEW k \in Nat, k \in S PROVE k + 1 \in S
  <2> SUFFICES ASSUME k + 1 <= n PROVE Held(k + 1)
    OBVIOUS
  <2>1. k + 1 \in 1..n /\ Held(k) /\ (k + 1) - 1 = k
    BY <1>2, <1>6
  <2>2. PICK d, s : d = out[k + 1].dst /\ s = out[k + 1].src
    OBVIOUS
  <2>3. f[k + 1] = [f[k] EXCEPT ![d] = f[k][s]]
    BY <1>3, <2>1, <2>2
  <2>4. \A r : Wrote(r, k + 1) <=> Wrote(r, k) \/ r = d
    <3>1. \A h \in 1..(k + 1) : h = k + 1 \/ h \in 1..k
      OBVIOUS
    <3>2. \A h \in 1..k : h \in 1..(k + 1)
      OBVIOUS
    <3>3. k + 1 \in 1..(k + 1)
      OBVIOUS
    <3> QED BY <2>2, <3>1, <3>2, <3>3
  \* Before the plain moves no register in use was written.
  <2>5. CASE k + 1 <= m
    <3>1. d = NumRegs + (k + 1) /\ s = move[last[k + 1].dst] /\ s \in Regs
      BY <1>2, <2>1, <2>2, <2>5
    <3>2. ~Wrote(s, k)
      <4> SUFFICES ASSUME NEW h \in 1..k, out[h].dst = s PROVE FALSE
        OBVIOUS
      <4>1. h \in 1..n /\ h <= m /\ h \in Nat
        BY <1>2, <2>1, <2>5
      <4>2. out[h].dst = NumRegs + h
        BY <1>2, <4>1
      <4> QED BY <1>4, <3>1, <4>1, <4>2
    <3>3. f[k][s] = s
      BY <2>1, <3>1, <3>2
    <3>4. d \in 1..(NumRegs + m) /\ d \notin Regs
      BY <1>2, <1>4, <2>5, <3>1
    <3>5. \A r \in Regs : r \in 1..(NumRegs + m) /\ r # d
      BY <1>2, <1>4, <3>4
    <3>6. \A j \in 1..m : NumRegs + j \in 1..(NumRegs + m) /\ (NumRegs + j = d => j = k + 1)
                          /\ (j <= k + 1 => j <= k \/ j = k + 1)
      BY <1>2, <1>4, <3>1
    <3> HIDE DEF Wrote
    <3>7. \A r \in Regs : f[k + 1][r] = IF Wrote(r, k + 1) THEN move[r] ELSE r
      BY <2>1, <2>3, <2>4, <3>5
    <3>8. \A j \in 1..m : j <= k + 1 => f[k + 1][NumRegs + j] = move[last[j].dst]
      BY <2>1, <2>3, <3>1, <3>3, <3>4, <3>6
    <3> QED BY <2>1, <2>3, <3>7, <3>8
  <2>6. CASE ~(k + 1 <= m)
    <3>1. d \in Real /\ d \in Regs
      BY <1>2, <1>4, <2>1, <2>2, <2>6
    <3>2. f[k][s] = move[d]
      <4>1. CASE /\ s = move[d] /\ s \in Regs
                 /\ \A i \in 1..((k + 1) - 1) : out[i].dst # s
        <5>1. ~Wrote(s, k)
          BY <2>1, <4>1
        <5> QED BY <2>1, <4>1, <5>1
      <4>2. CASE \E j \in 1..m : s = NumRegs + j /\ move[d] = move[last[j].dst]
        <5>1. PICK j \in 1..m : s = NumRegs + j /\ move[d] = move[last[j].dst]
          BY <4>2
        <5>2. j <= k
          BY <1>2, <2>6
        <5> QED BY <2>1, <5>1, <5>2
      <4> QED BY <1>2, <2>1, <2>2, <2>6, <4>1, <4>2
    <3>3. \A r \in Regs : r \in 1..(NumRegs + m)
      BY <1>2, <1>4
    <3>4. \A j \in 1..m : NumRegs + j \in 1..(NumRegs + m) /\ NumRegs + j # d /\ j <= k
      BY <1>2, <1>4, <2>6, <3>1
    <3> HIDE DEF Wrote
    <3>5. \A r \in Regs : f[k + 1][r] = IF Wrote(r, k + 1) THEN move[r] ELSE r
      BY <2>1, <2>3, <2>4, <3>1, <3>2, <3>3
    <3>6. \A j \in 1..m : j <= k + 1 => f[k + 1][NumRegs + j] = move[last[j].dst]
      BY <2>1, <2>3, <3>4
    <3> QED BY <2>1, <2>3, <3>5, <3>6
  <2> QED BY <2>5, <2>6
<1>7. Held(n)
  <2>1. n \in S
    <3> HIDE DEF S
    <3> QED BY <1>2, <1>5, <1>6, InductionOnSet
  <2> QED BY <1>2, <2>1
<1>8. Wrote(r0, n) <=> r0 \in Real
  BY <1>2, AllEmitted
<1>9. After(Out)[r0] = IF Wrote(r0, n) THEN move[r0] ELSE r0
  BY <1>1, <1>3, <1>7
<1> QED BY <1>8, <1>9 DEF Real

-----------------------------------------------------------------------------
\* The invariant of the walk.
THEOREM CopyInvariant ==
  ASSUME NumRegsAssumption
  PROVE  Spec => []CopyInv
<1>1. Init => CopyInv
  BY CopyInit
<1>2. CopyInv /\ [Next]_vars => CopyInv'
  BY CopyStep
<1> QED BY <1>1, <1>2, PTL DEF Spec

\* What the invariant promises: the moves do what the copies do at once, each
\* read comes before its register is overwritten, and every fresh register is
\* there for a cycle of its own.
LEMMA CopyInvImplies ==
  ASSUME NumRegsAssumption, CopyInv
  PROVE  TypeOK /\ ParallelAssignment /\ ReadBeforeOverwritten /\ OneTempPerCycle
BY CopiesAtOnce, TempsAreCycles DEF CopyInv

\* Run one after the other, the emitted moves do what the copies do at once,
\* for any number of registers and any order the HashMap gives them in
\* (resolve_parallel_copy).
THEOREM MovesAreParallel ==
  ASSUME NumRegsAssumption
  PROVE  Spec => []ParallelAssignment
<1>1. CopyInv => ParallelAssignment
  BY CopiesAtOnce
<1> QED BY <1>1, CopyInvariant, PTL
=============================================================================
