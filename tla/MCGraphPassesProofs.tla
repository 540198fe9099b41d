------------------------- MODULE MCGraphPassesProofs -------------------------
(***************************************************************************)
(* The dominator tree build_dom_tree makes, for any finite set of blocks   *)
(* and any graph on them, the renaming of mem2reg along it, and what loads *)
(* are replaced by.                                                        *)
(***************************************************************************)
EXTENDS MCGraphPasses, SequenceLemmas, FiniteSetTheorems

\* a is n or above n in the depth-first tree: it is in every set that holds n
\* and with a block its dfs parent.
UpClosed(up, S) == \A n \in S : up[n] \in S
OnWayUp(up, a, n) == \A S \in SUBSET Vertices : n \in S /\ UpClosed(up, S) => a \in S
Anc(a, n) == OnWayUp(dfsParent, a, n)

Positions == 1..Len(order)
Found     == {order[i] : i \in Positions}

Shapes ==
  /\ succs \in [Vertices -> SUBSET (Vertices \ {Entry})]
  /\ preds = [n \in Vertices |-> {p \in Vertices : n \in succs[p]}]
  /\ stack \in Seq([block : Vertices, left : SUBSET Vertices])
  /\ order \in Seq(Vertices)
  /\ dfsParent \in [Vertices -> Vertices]
  /\ sdom \in [Vertices -> Vertices]
  /\ idom \in [Vertices -> Vertices]
  /\ linked \in [Vertices -> Vertices]
  /\ bucket \in [Vertices -> SUBSET Vertices]
  /\ todo \in -1..Len(order)

\* dfs_order lists a block once, behind its parent; an edge leads back or to a
\* block below, and what lies below a block was numbered in one stretch.
Numbered ==
  /\ Len(order) >= 1 /\ order[1] = Entry
  /\ \A i, j \in Positions : order[i] = order[j] => i = j
  /\ dfsParent[Entry] = Entry
  /\ \A n \in Vertices \ Found : dfsParent[n] = n
  /\ \A j \in Positions : j > 1 =>
       \E i \in Positions : /\ i < j /\ order[i] = dfsParent[order[j]]
                            /\ order[j] \in succs[order[i]]
  /\ \A i, j \in Positions :
       i < j /\ order[j] \in succs[order[i]] => Anc(order[i], order[j])
  /\ \A i, k, j \in Positions :
       i <= k /\ k <= j /\ Anc(order[i], order[j]) => Anc(order[i], order[k])

\* The frames of dfs_visit are the way up from the block it is at; what was
\* numbered behind a block of a frame is below it.
Visiting ==
  /\ \A f \in 1..Len(stack) :
       /\ stack[f].block \in Found
       /\ stack[f].left \subseteq succs[stack[f].block]
       /\ succs[stack[f].block] \ stack[f].left \subseteq Found
       /\ dfsParent[stack[f].block] = IF f = 1 THEN Entry ELSE stack[f - 1].block
       /\ \A i, j \in Positions :
            order[i] = stack[f].block /\ i <= j => Anc(order[i], order[j])
  /\ stack # <<>> => stack[1].block = Entry
  /\ \A n \in Found : (\A f \in 1..Len(stack) : stack[f].block # n) => succs[n] \subseteq Found

\* What build_dom_tree has made of the blocks behind position t: d is the
\* nearest block above p that stands in front of position k.
Nearest(d, p, k) ==
  /\ Anc(d, p)
  /\ \A i \in Positions : i < k /\ Anc(order[i], p) => Anc(order[i], d)
Semi(k, d) ==
  /\ \E i \in Positions : i < k /\ order[i] = d
  /\ \E p \in Found : order[k] \in succs[p] /\ Nearest(d, p, k)

\* A block waits in the bucket of its semidominator as long as the child of
\* that one above it has not been worked on.
Built(t) ==
  /\ stack = <<>>
  /\ \A k \in Positions :
       /\ linked[order[k]] = IF k > t THEN dfsParent[order[k]] ELSE order[k]
       /\ k <= t => sdom[order[k]] = order[k]
       /\ k > t  => Semi(k, sdom[order[k]])
       /\ k > t  => \/ order[k] \in bucket[sdom[order[k]]]
                    \/ idom[order[k]] = sdom[order[k]]
  /\ idom[Entry] = Entry
  /\ \A n \in Vertices \ Found : linked[n] = n
  /\ \A x \in Vertices : \A v \in bucket[x] :
       /\ \E k \in Positions : k > t /\ v = order[k] /\ sdom[v] = x
       /\ \E j \in Positions : 1 < j /\ j <= t /\ dfsParent[order[j]] = x /\ Anc(order[j], v)

TreeInv ==
  /\ Shapes
  /\ Numbered
  /\ Visiting
  /\ stack # <<>> => /\ todo = -1
                     /\ sdom = Tree!Identity /\ idom = Tree!Identity /\ linked = Tree!Identity
                     /\ bucket = [n \in Vertices |-> {}]
  /\ stack = <<>> => /\ todo >= 0
                     /\ Built(IF todo = 0 THEN 1 ELSE todo)

-----------------------------------------------------------------------------
LEMMA WayUp ==
  ASSUME NEW up \in [Vertices -> Vertices], NEW n \in Vertices
  PROVE  /\ OnWayUp(up, n, n)
         /\ \A a : OnWayUp(up, a, n) => a \in Vertices
         /\ \A a : OnWayUp(up, a, up[n]) => OnWayUp(up, a, n)
         /\ \A a : OnWayUp(up, a, n) /\ a # n => OnWayUp(up, a, up[n])
         /\ \A a, b : OnWayUp(up, a, b) /\ OnWayUp(up, b, n) => OnWayUp(up, a, n)
<1>1. OnWayUp(up, n, n)
  BY DEF OnWayUp
<1>2. \A a : OnWayUp(up, a, n) => a \in Vertices
  <2>1. Vertices \in SUBSET Vertices /\ UpClosed(up, Vertices)
    BY DEF UpClosed
  <2> QED BY <2>1 DEF OnWayUp
<1>3. \A a : OnWayUp(up, a, up[n]) => OnWayUp(up, a, n)
  BY DEF OnWayUp, UpClosed
<1>4. ASSUME NEW a, OnWayUp(up, a, n), a # n
      PROVE  OnWayUp(up, a, up[n])
  <2> SUFFICES ASSUME NEW S \in SUBSET Vertices, up[n] \in S, UpClosed(up, S)
               PROVE  a \in S
    BY DEF OnWayUp
  <2>1. S \cup {n} \in SUBSET Vertices /\ UpClosed(up, S \cup {n})
    BY DEF UpClosed
  <2>2. a \in S \cup {n}
    BY <1>4, <2>1 DEF OnWayUp
  <2> QED BY <1>4, <2>2
<1>5. \A a, b : OnWayUp(up, a, b) /\ OnWayUp(up, b, n) => OnWayUp(up, a, n)
  BY DEF OnWayUp
<1> QED BY <1>1, <1>2, <1>3, <1>4, <1>5

\* On the way up from n to a block d above it lies a child of d.
LEMMA ChildOnWay ==
  ASSUME NEW up \in [Vertices -> Vertices], NEW n \in Vertices, NEW d \in Vertices,
         OnWayUp(up, d, n), d # n
  PROVE  \E c \in Vertices : c # d /\ up[c] = d /\ OnWayUp(up, c, n)
<1> SUFFICES ASSUME \A c \in Vertices : c # d /\ up[c] = d => ~OnWayUp(up, c, n)
             PROVE  FALSE
  OBVIOUS
<1> DEFINE S == {m \in Vertices : OnWayUp(up, m, n) /\ m # d}
<1>1. n \in S
  BY WayUp
<1>2. ASSUME NEW m \in S PROVE up[m] \in S
  <2>1. OnWayUp(up, up[m], m)
    BY WayUp
  <2>2. OnWayUp(up, up[m], n)
    BY <2>1, WayUp
  <2> QED BY <2>2
<1>3. UpClosed(up, S)
  BY <1>2 DEF UpClosed
<1>4. d \in S
  BY <1>1, <1>3 DEF OnWayUp
<1> QED BY <1>4

\* The way up is kept where parents are: only s, on no way up, gets another.
LEMMA WayUpKept ==
  ASSUME NEW up \in [Vertices -> Vertices], NEW s \in Vertices, NEW q \in Vertices,
         NEW n \in Vertices, n # s,
         \A m \in Vertices \ {s} : up[m] # s
  PROVE  \A a : OnWayUp([up EXCEPT ![s] = q], a, n) <=> OnWayUp(up, a, n)
<1> DEFINE new == [up EXCEPT ![s] = q]
<1>1. new \in [Vertices -> Vertices] /\ \A m \in Vertices \ {s} : new[m] = up[m]
  OBVIOUS
<1>2. ASSUME NEW S \in SUBSET Vertices, n \in S
      PROVE  /\ S \ {s} \in SUBSET Vertices /\ n \in S \ {s}
             /\ UpClosed(up, S) => UpClosed(new, S \ {s})
             /\ UpClosed(new, S) => UpClosed(up, S \ {s})
  BY <1>1, <1>2 DEF UpClosed
<1> HIDE DEF new
<1>3. \A a : OnWayUp(new, a, n) => OnWayUp(up, a, n)
  BY <1>2 DEF OnWayUp
<1>4. \A a : OnWayUp(up, a, n) => OnWayUp(new, a, n)
  BY <1>2 DEF OnWayUp
<1>5. \A a : OnWayUp(new, a, n) <=> OnWayUp(up, a, n)
  BY <1>3, <1>4
<1> QED BY <1>5 DEF new

\* What is on the way up from a block was numbered before it or is the block.
LEMMA WayUpNumbered ==
  ASSUME Shapes, Numbered, NEW j \in Positions, NEW a, Anc(a, order[j])
  PROVE  \E i \in Positions : i <= j /\ a = order[i]
<1> DEFINE S == {order[i] : i \in 1..j}
<1>1. /\ j \in Nat /\ 1 <= j /\ j <= Len(order) /\ Len(order) \in Nat
      /\ \A i \in Positions : order[i] \in Vertices
  BY DEF Shapes, Positions
<1>2. S \in SUBSET Vertices /\ order[j] \in S
  BY <1>1 DEF Positions
<1>3. ASSUME NEW i \in 1..j PROVE dfsParent[order[i]] \in S
  <2>1. CASE i = 1
    <3>1. order[1] = Entry /\ dfsParent[Entry] = Entry
      BY DEF Numbered
    <3> QED BY <1>1, <2>1, <3>1
  <2>2. CASE i > 1
    <3>1. PICK k \in Positions : k < i /\ order[k] = dfsParent[order[i]]
      BY <1>1, <2>2 DEF Numbered, Positions
    <3> QED BY <1>1, <3>1 DEF Positions
  <2> QED BY <1>1, <2>1, <2>2
<1>4. UpClosed(dfsParent, S)
  BY <1>3 DEF UpClosed
<1>5. a \in S
  BY <1>2, <1>4 DEF Anc, OnWayUp
<1> QED BY <1>1, <1>5 DEF Positions

-----------------------------------------------------------------------------
\* build_dfn.
Frame == [block : Vertices, left : SUBSET Vertices]

LEMMA TreeInit == Tree!Init => TreeInv
<1> SUFFICES ASSUME Tree!Init PROVE TreeInv
  OBVIOUS
<1>1. Entry \in Vertices /\ succs \in [Vertices -> SUBSET (Vertices \ {Entry})]
  BY PassesAssumption DEF Tree!EntryAssumption, Tree!Init, AllGraphs
<1>2. /\ order = <<Entry>> /\ Len(order) = 1 /\ order[1] = Entry /\ order \in Seq(Vertices)
      /\ Positions = {1} /\ Found = {Entry}
  BY <1>1 DEF Tree!Init, Positions, Found
<1>3. /\ stack = <<[block |-> Entry, left |-> succs[Entry]]>> /\ Len(stack) = 1
      /\ stack[1].block = Entry /\ stack[1].left = succs[Entry] /\ stack # <<>>
      /\ stack \in Seq(Frame)
  BY <1>1 DEF Tree!Init, Frame
<1>4. Tree!Identity \in [Vertices -> Vertices] /\ \A n \in Vertices : Tree!Identity[n] = n
  BY DEF Tree!Identity
<1>5. /\ dfsParent = Tree!Identity /\ sdom = Tree!Identity /\ idom = Tree!Identity
      /\ linked = Tree!Identity /\ bucket = [n \in Vertices |-> {}] /\ todo = -1
      /\ preds = [n \in Vertices |-> {p \in Vertices : n \in succs[p]}]
  BY DEF Tree!Init
<1>6. Shapes
  BY <1>1, <1>2, <1>3, <1>4, <1>5 DEF Shapes, Frame
<1>7. Anc(Entry, Entry)
  BY DEF Anc, OnWayUp
<1>8. Numbered
  BY <1>1, <1>2, <1>4, <1>5, <1>7 DEF Numbered
<1>9. Visiting
  BY <1>1, <1>2, <1>3, <1>4, <1>5, <1>7 DEF Visiting
<1> QED BY <1>3, <1>5, <1>6, <1>8, <1>9 DEF TreeInv

LEMMA FrontOf ==
  ASSUME NEW S, NEW q \in Seq(S), q # <<>>
  PROVE  /\ Tree!Front(q) \in Seq(S) /\ Len(Tree!Front(q)) = Len(q) - 1
         /\ \A f \in 1..(Len(q) - 1) : Tree!Front(q)[f] = q[f]
<1> DEFINE front == Tree!Front(q)
           n == Len(q)
<1>1. front = SubSeq(q, 1, n - 1) /\ 1 \in Int /\ n - 1 \in Int /\ n \in Nat /\ n >= 1
  BY DEF Tree!Front
<1>2. \A i \in 1..(n - 1) : q[i] \in S
  OBVIOUS
<1> HIDE DEF front, n
<1>3. /\ front \in Seq(S)
      /\ Len(front) = IF 1 <= n - 1 THEN n - 1 - 1 + 1 ELSE 0
      /\ \A i \in 1..(n - 1 - 1 + 1) : front[i] = q[1 + i - 1]
  BY <1>1, <1>2, SubSeqProperties
<1>4. n - 1 - 1 + 1 = n - 1 /\ \A i \in 1..(n - 1) : 1 + i - 1 = i
  BY <1>1
<1>5. front \in Seq(S) /\ Len(front) = n - 1 /\ \A f \in 1..(n - 1) : front[f] = q[f]
  BY <1>1, <1>3, <1>4
<1> QED BY <1>5 DEF front, n

\* The frames after Visit has taken s out of what is left at the top.
LEMMA CallerFrames ==
  ASSUME stack \in Seq(Frame), stack # <<>>, NEW s
  PROVE  \E c \in Seq(Frame) :
           /\ c = Append(Tree!Front(stack), [Tree!Top EXCEPT !.left = @ \ {s}])
           /\ Len(c) = Len(stack)
           /\ \A f \in 1..Len(stack) :
                /\ c[f].block = stack[f].block
                /\ c[f].left = IF f = Len(stack) THEN stack[f].left \ {s} ELSE stack[f].left
<1> DEFINE n == Len(stack)
           front == Tree!Front(stack)
           last == [Tree!Top EXCEPT !.left = @ \ {s}]
           c == Append(front, last)
<1>1. n \in Nat /\ n >= 1 /\ n \in DOMAIN stack /\ stack[n] \in Frame
  OBVIOUS
<1>2. front \in Seq(Frame) /\ Len(front) = n - 1 /\ \A f \in 1..(n - 1) : front[f] = stack[f]
  BY FrontOf
<1>3. /\ last \in Frame /\ last.block = stack[n].block /\ last.left = stack[n].left \ {s}
  BY <1>1 DEF Tree!Top, Frame
<1> HIDE DEF front, last, n
<1>4. /\ c \in Seq(Frame) /\ Len(c) = n
      /\ \A f \in 1..(n - 1) : c[f] = front[f]
      /\ c[n] = last
  BY <1>1, <1>2, <1>3
<1>5. \A f \in 1..n : f \in 1..(n - 1) \/ f = n
  BY <1>1
<1> HIDE DEF c
<1>6. \A f \in 1..n : /\ c[f].block = stack[f].block
                      /\ c[f].left = IF f = n THEN stack[f].left \ {s} ELSE stack[f].left
  <2> TAKE f \in 1..n
  <2>1. CASE f \in 1..(n - 1)
    BY <1>1, <1>2, <1>4, <2>1
  <2>2. CASE f = n
    BY <1>3, <1>4, <2>2
  <2> QED BY <1>5, <2>1, <2>2
<1> QED BY <1>4, <1>6 DEF c, front, last, n

\* A numbering to which nothing is added stays one.
LEMMA NumberedKept ==
  ASSUME Numbered, UNCHANGED <<succs, order, dfsParent>>
  PROVE  /\ Numbered' /\ Positions' = Positions /\ Found' = Found
         /\ \A a, n : Anc(a, n)' <=> Anc(a, n)
<1>1. Positions' = Positions /\ Found' = Found
  BY DEF Positions, Found
<1>2. \A a, n : Anc(a, n)' <=> Anc(a, n)
  BY DEF Anc, OnWayUp, UpClosed
<1> QED BY <1>1, <1>2 DEF Numbered

LEMMA VisitAgain ==
  ASSUME TreeInv, NEW s \in Vertices, Tree!Visit(s), s \in Found
  PROVE  TreeInv'
<1>1. /\ stack # <<>> /\ stack \in Seq(Frame) /\ s \in stack[Len(stack)].left
      /\ order \in Seq(Vertices)
  BY DEF Tree!Visit, Tree!Walked, Tree!Top, TreeInv, Shapes, Frame
<1>2. PICK c \in Seq(Frame) :
         /\ c = Append(Tree!Front(stack), [Tree!Top EXCEPT !.left = @ \ {s}])
         /\ Len(c) = Len(stack)
         /\ \A f \in 1..Len(stack) :
              /\ c[f].block = stack[f].block
              /\ c[f].left = IF f = Len(stack) THEN stack[f].left \ {s} ELSE stack[f].left
  BY <1>1, CallerFrames
<1>3. s \in Tree!Reached
  BY <1>1 DEF Tree!Reached, Tree!Range, Found, Positions
<1>4. /\ stack' = c
      /\ UNCHANGED <<succs, preds, order, dfsParent, sdom, idom, linked, bucket, todo>>
  BY <1>2, <1>3 DEF Tree!Visit, Tree!cfg
<1>5. /\ Numbered' /\ Positions' = Positions /\ Found' = Found
      /\ \A a, n : Anc(a, n)' <=> Anc(a, n)
  BY <1>4, NumberedKept DEF TreeInv
<1>6. Shapes'
  BY <1>4 DEF TreeInv, Shapes, Frame
<1>7. stack' # <<>> /\ Len(stack) \in Nat /\ Len(stack) >= 1
  BY <1>1, <1>2, <1>4
<1>8. Visiting'
  <2>1. ASSUME NEW f \in 1..Len(stack)
        PROVE  /\ stack'[f].block \in Found
               /\ stack'[f].left \subseteq succs[stack'[f].block]
               /\ succs[stack'[f].block] \ stack'[f].left \subseteq Found
               /\ dfsParent[stack'[f].block] = IF f = 1 THEN Entry ELSE stack'[f - 1].block
               /\ \A i, j \in Positions :
                    order[i] = stack'[f].block /\ i <= j => Anc(order[i], order[j])
    <3>1. /\ stack[f].block \in Found
          /\ stack[f].left \subseteq succs[stack[f].block]
          /\ succs[stack[f].block] \ stack[f].left \subseteq Found
          /\ dfsParent[stack[f].block] = IF f = 1 THEN Entry ELSE stack[f - 1].block
          /\ \A i, j \in Positions :
               order[i] = stack[f].block /\ i <= j => Anc(order[i], order[j])
      BY DEF TreeInv, Visiting
    <3>2. f # 1 => f - 1 \in 1..Len(stack)
      BY <1>7
    <3>3. f # 1 => stack'[f - 1].block = stack[f - 1].block
      BY <1>2, <1>4, <3>2
    <3>4. /\ stack'[f].block = stack[f].block
          /\ stack'[f].left \subseteq stack[f].left /\ stack[f].left \subseteq stack'[f].left \cup {s}
      BY <1>2, <1>4
    <3> QED BY <3>1, <3>3, <3>4
  <2>2. stack'[1].block = Entry
    <3>1. stack[1].block = Entry
      BY <1>1 DEF TreeInv, Visiting
    <3>2. 1 \in 1..Len(stack)
      BY <1>7
    <3> QED BY <1>2, <1>4, <3>1, <3>2
  <2>3. ASSUME NEW n \in Found, \A f \in 1..Len(stack) : stack'[f].block # n
        PROVE  succs[n] \subseteq Found
    <3>1. \A f \in 1..Len(stack) : stack[f].block # n
      BY <1>2, <1>4, <2>3
    <3> QED BY <3>1 DEF TreeInv, Visiting
  <2>4. Len(stack') = Len(stack)
    BY <1>2, <1>4
  <2> QED BY <1>4, <1>5, <2>1, <2>2, <2>3, <2>4 DEF Visiting
<1>9. /\ todo' = -1 /\ sdom' = Tree!Identity /\ idom' = Tree!Identity /\ linked' = Tree!Identity
      /\ bucket' = [n \in Vertices |-> {}]
  BY <1>1, <1>4 DEF TreeInv
<1> QED BY <1>5, <1>6, <1>7, <1>8, <1>9 DEF TreeInv, Tree!Identity

LEMMA VisitNew ==
  ASSUME TreeInv, NEW s \in Vertices, Tree!Visit(s), s \notin Found
  PROVE  TreeInv'
<1> DEFINE n == Len(order)
           m == Len(stack)
<1>1. /\ stack # <<>> /\ stack \in Seq(Frame) /\ s \in stack[m].left
      /\ order \in Seq(Vertices) /\ dfsParent \in [Vertices -> Vertices]
      /\ succs \in [Vertices -> SUBSET (Vertices \ {Entry})]
      /\ Shapes /\ Numbered /\ Visiting
  BY DEF Tree!Visit, Tree!Walked, Tree!Top, TreeInv, Shapes, Frame
<1>2. n \in Nat /\ m \in Nat /\ m >= 1 /\ m \in 1..m /\ n >= 1
  BY <1>1 DEF Numbered
<1>0. PICK b : b = stack[m].block
  OBVIOUS
<1>3. PICK c \in Seq(Frame) :
         /\ c = Append(Tree!Front(stack), [Tree!Top EXCEPT !.left = @ \ {s}])
         /\ Len(c) = m
         /\ \A f \in 1..m :
              /\ c[f].block = stack[f].block
              /\ c[f].left = IF f = m THEN stack[f].left \ {s} ELSE stack[f].left
  BY <1>1, CallerFrames
<1>4. s \notin Tree!Reached
  BY DEF Tree!Reached, Tree!Range, Found, Positions
<1>5. /\ stack' = Append(c, [block |-> s, left |-> succs[s]])
      /\ order' = Append(order, s)
      /\ dfsParent' = [dfsParent EXCEPT ![s] = b]
      /\ UNCHANGED <<succs, preds, sdom, idom, linked, bucket, todo>>
  BY <1>0, <1>3, <1>4 DEF Tree!Visit, Tree!cfg, Tree!Top
<1>6. /\ Len(order') = n + 1 /\ order' \in Seq(Vertices) /\ order'[n + 1] = s
      /\ \A i \in 1..n : order'[i] = order[i]
      /\ Positions = 1..n /\ Positions' = 1..(n + 1)
  BY <1>1, <1>2, <1>5 DEF Positions
<1>7. \A i \in Positions' : i \in Positions \/ i = n + 1
  BY <1>2, <1>6
<1>8. Found' = Found \cup {s} /\ Found \subseteq Vertices
  <2>1. Found' = {order'[i] : i \in Positions'}
    BY DEF Found
  <2>2. \A i \in Positions : i \in Positions' /\ order[i] \in Vertices
    BY <1>1, <1>2, <1>6
  <2>3. n + 1 \in Positions'
    BY <1>2, <1>6
  <2> QED BY <1>6, <1>7, <2>1, <2>2, <2>3 DEF Found
<1>9. [block |-> s, left |-> succs[s]] \in Frame
  BY <1>1 DEF Frame
<1>10. /\ stack' \in Seq(Frame) /\ Len(stack') = m + 1
       /\ stack'[m + 1].block = s /\ stack'[m + 1].left = succs[s]
       /\ \A f \in 1..m : stack'[f] = c[f]
  BY <1>2, <1>3, <1>5, <1>9
<1>11. /\ \A f \in 1..m : stack'[f].block = stack[f].block
       /\ \A f \in 1..m : /\ stack'[f].left \subseteq stack[f].left
                          /\ stack[f].left \subseteq stack'[f].left \cup {s}
  BY <1>3, <1>10
<1>12. b \in Found /\ Entry \in Found /\ s # Entry /\ s # b /\ b \in Vertices
  <2>1. b \in Found
    BY <1>0, <1>1, <1>2 DEF Visiting
  <2>2. Entry \in Found
    BY <1>1, <1>2, <1>6 DEF Numbered, Found
  <2> QED BY <1>8, <2>1, <2>2
<1>13. \A q \in Vertices \ {s} : dfsParent[q] # s
  <2> TAKE q \in Vertices \ {s}
  <2>1. CASE q \in Found
    <3>1. PICK j \in Positions : q = order[j]
      BY <2>1 DEF Found
    <3>2. CASE j = 1
      BY <1>1, <1>12, <3>1, <3>2 DEF Numbered
    <3>3. CASE j > 1
      BY <1>1, <3>1, <3>3 DEF Numbered, Found
    <3> QED BY <1>6, <3>2, <3>3
  <2>2. CASE q \notin Found
    BY <1>1, <2>2 DEF Numbered
  <2> QED BY <2>1, <2>2
\* The ways up from the blocks that were there, and the one from s.
<1>14. \A a, q : q \in Found => (OnWayUp(dfsParent', a, q) <=> Anc(a, q))
  <2> TAKE a, q
  <2> HAVE q \in Found
  <2>1. q \in Vertices /\ q # s
    BY <1>8
  <2>2. OnWayUp([dfsParent EXCEPT ![s] = b], a, q) <=> OnWayUp(dfsParent, a, q)
    BY <1>1, <1>12, <1>13, <2>1, WayUpKept
  <2> QED BY <1>5, <2>2 DEF Anc
<1>15. dfsParent' \in [Vertices -> Vertices] /\ dfsParent'[s] = b
       /\ \A q \in Vertices \ {s} : dfsParent'[q] = dfsParent[q]
  BY <1>1, <1>5, <1>12
<1>16. \A a : Anc(a, b) => OnWayUp(dfsParent', a, s)
  <2> TAKE a
  <2> HAVE Anc(a, b)
  <2>1. OnWayUp(dfsParent', a, b)
    BY <1>12, <1>14
  <2> QED BY <1>15, <2>1, WayUp
<1>17. \A a : OnWayUp(dfsParent', a, s) /\ a # s => Anc(a, b)
  <2> TAKE a
  <2> HAVE OnWayUp(dfsParent', a, s) /\ a # s
  <2>1. OnWayUp(dfsParent', a, b)
    BY <1>15, WayUp
  <2> QED BY <1>12, <1>14, <2>1
<1>18. OnWayUp(dfsParent', s, s)
  BY <1>15, WayUp
\* The blocks of the frames are the way up from b.
<1>19. \A a : Anc(a, b) => \E f \in 1..m : a = stack[f].block
  <2> DEFINE S == {stack[f].block : f \in 1..m}
  <2>1. S \in SUBSET Vertices /\ b \in S
    BY <1>0, <1>1, <1>2, <1>8 DEF Visiting
  <2>2. ASSUME NEW f \in 1..m PROVE dfsParent[stack[f].block] \in S
    <3>1. dfsParent[stack[f].block] = IF f = 1 THEN Entry ELSE stack[f - 1].block
      BY <1>1 DEF Visiting
    <3>2. stack[1].block = Entry /\ 1 \in 1..m
      BY <1>1, <1>2 DEF Visiting
    <3>3. f # 1 => f - 1 \in 1..m
      BY <1>2
    <3> QED BY <3>1, <3>2, <3>3
  <2>3. UpClosed(dfsParent, S)
    BY <2>2 DEF UpClosed
  <2>4. ASSUME NEW a, Anc(a, b) PROVE a \in S
    BY <2>1, <2>3, <2>4 DEF Anc, OnWayUp
  <2> QED BY <2>4
<1>20. \A f \in 1..m : Anc(stack[f].block, b)
  <2> DEFINE T == {d \in Nat : d < m => Anc(stack[m - d].block, b)}
  <2>1. 0 \in T
    <3>1. Anc(b, b)
      BY <1>1, <1>12, WayUp DEF Anc
    <3> QED BY <1>0, <1>2, <3>1
  <2>2. ASSUME NEW d \in Nat, d \in T PROVE d + 1 \in T
    <3> SUFFICES ASSUME d + 1 < m PROVE Anc(stack[m - (d + 1)].block, b)
      OBVIOUS
    <3>1. m - d \in 1..m /\ m - d # 1 /\ m - (d + 1) = m - d - 1
      BY <1>2
    <3>2. Anc(stack[m - d].block, b)
      <4>1. d < m
        <5> HIDE DEF T
        <5> QED BY <1>2, SMTT(30)
      <4> QED BY <2>2, <4>1
    <3>3. /\ dfsParent[stack[m - d].block] = stack[m - d - 1].block
          /\ stack[m - d].block \in Vertices
      BY <1>1, <1>8, <3>1 DEF Visiting
    <3>4. OnWayUp(dfsParent, dfsParent[stack[m - d].block], stack[m - d].block)
      BY <1>1, <3>3, WayUp
    <3>5. OnWayUp(dfsParent, dfsParent[stack[m - d].block], b)
      BY <1>1, <1>12, <3>2, <3>4, WayUp DEF Anc
    <3> QED BY <3>1, <3>3, <3>5 DEF Anc
  <2> HIDE DEF T
  <2>3. Nat \subseteq T
    BY <2>1, <2>2, InductionOnSet
  <2> TAKE f \in 1..m
  <2>4. m - f \in Nat /\ m - f < m /\ m - (m - f) = f
    BY <1>2
  <2>5. m - f \in T
    BY <2>3, <2>4
  <2> QED BY <2>4, <2>5 DEF T
<1>21. ASSUME NEW f \in 1..m, NEW i \in Positions, NEW j \in Positions,
              order[i] = stack[f].block, i <= j
       PROVE  Anc(order[i], order[j])
  BY <1>1, <1>21 DEF Visiting
<1>22. \A i \in Positions : order[i] \in Found /\ order'[i] = order[i] /\ i \in Positions'
  BY <1>2, <1>6 DEF Found
<1>23. n + 1 \in Positions' /\ (\A i \in Positions : ~(n + 1 <= i) /\ i \in Nat /\ i < n + 1)
  BY <1>2, <1>6
<1>24. Shapes'
  BY <1>1, <1>2, <1>5, <1>6, <1>10, <1>15 DEF Shapes, Frame
<1>25. Numbered'
  <2>1. Len(order') >= 1 /\ order'[1] = Entry
    <3>1. order[1] = Entry /\ 1 \in 1..n
      BY <1>1, <1>2 DEF Numbered
    <3> QED BY <1>2, <1>6, <3>1
  <2>2. ASSUME NEW i \in Positions', NEW j \in Positions', order'[i] = order'[j]
        PROVE  i = j
    <3>1. \A k \in Positions : order'[k] # s
      BY <1>22
    <3>2. \A k, l \in Positions : order[k] = order[l] => k = l
      BY <1>1 DEF Numbered
    <3> QED BY <1>6, <1>7, <1>22, <2>2, <3>1, <3>2
  <2>3. dfsParent'[Entry] = Entry
    BY <1>1, <1>8, <1>12, <1>15 DEF Numbered
  <2>4. ASSUME NEW q \in Vertices \ Found' PROVE dfsParent'[q] = q
    BY <1>1, <1>8, <1>15 DEF Numbered
  <2>5. ASSUME NEW j \in Positions', j > 1
        PROVE  \E i \in Positions' : /\ i < j /\ order'[i] = dfsParent'[order'[j]]
                                     /\ order'[j] \in succs[order'[i]]
    <3>1. CASE j \in Positions
      <4>1. PICK i \in Positions : /\ i < j /\ order[i] = dfsParent[order[j]]
                                   /\ order[j] \in succs[order[i]]
        BY <1>1, <2>5, <3>1 DEF Numbered
      <4>2. dfsParent'[order[j]] = dfsParent[order[j]]
        BY <1>8, <1>15, <1>22, <3>1
      <4> QED BY <1>22, <3>1, <4>1, <4>2
    <3>2. CASE j = n + 1
      <4>1. PICK i \in Positions : order[i] = b
        BY <1>12 DEF Found
      <4>2. s \in succs[b]
        BY <1>0, <1>1, <1>2 DEF Visiting
      <4> QED BY <1>6, <1>15, <1>22, <1>23, <3>2, <4>1, <4>2
    <3> QED BY <1>7, <3>1, <3>2
  <2>6. ASSUME NEW i \in Positions', NEW j \in Positions', i < j, order'[j] \in succs[order'[i]]
        PROVE  OnWayUp(dfsParent', order'[i], order'[j])
    <3>1. i \in Positions
      BY <1>7, <1>23, <2>6
    <3>2. CASE j \in Positions
      <4>1. Anc(order[i], order[j])
        BY <1>1, <1>22, <2>6, <3>1, <3>2 DEF Numbered
      <4>3. PICK x : x = order[i]
        OBVIOUS
      <4>4. PICK y : y = order[j]
        OBVIOUS
      <4>5. OnWayUp(dfsParent', x, y)
        BY <1>14, <1>22, <3>2, <4>1, <4>3, <4>4
      <4> QED BY <1>22, <3>1, <3>2, <4>3, <4>4, <4>5
    <3>3. CASE j = n + 1
      <4>1. s \in succs[order[i]] /\ order'[j] = s /\ order'[i] = order[i]
        BY <1>6, <1>22, <2>6, <3>1, <3>3
      <4>2. PICK x : x = order[i]
        OBVIOUS
      <4>3. PICK f \in 1..m : stack[f].block = x
        BY <1>1, <1>22, <3>1, <4>1, <4>2 DEF Visiting
      <4>4. Anc(x, b)
        BY <1>20, <4>3
      <4>5. OnWayUp(dfsParent', x, s)
        BY <1>16, <4>4
      <4> QED BY <4>1, <4>2, <4>5
    <3> QED BY <1>7, <3>2, <3>3
  <2>7. ASSUME NEW i \in Positions', NEW k \in Positions', NEW j \in Positions',
               i <= k, k <= j, OnWayUp(dfsParent', order'[i], order'[j])
        PROVE  OnWayUp(dfsParent', order'[i], order'[k])
    <3>1. PICK x : x = order'[i]
      OBVIOUS
    <3>2. PICK y : y = order'[j]
      OBVIOUS
    <3>3. PICK z : z = order'[k]
      OBVIOUS
    <3>4. OnWayUp(dfsParent', x, y)
      BY <2>7, <3>1, <3>2
    <3> SUFFICES OnWayUp(dfsParent', x, z)
      BY <3>1, <3>3
    <3>5. CASE k = n + 1
      <4>1. j = n + 1
        BY <1>7, <1>23, <2>7, <3>5
      <4> QED BY <3>2, <3>3, <3>4, <3>5, <4>1
    <3>6. CASE k \in Positions
      <4>1. i \in Positions
        BY <1>7, <1>23, <2>7, <3>6
      <4>2. x = order[i] /\ z = order[k] /\ z \in Found /\ x # s
        BY <1>22, <3>1, <3>3, <3>6, <4>1
      <4>3. CASE j \in Positions
        <5>1. y = order[j] /\ y \in Found
          BY <1>22, <3>2, <4>3
        <5>2. Anc(x, y)
          BY <1>14, <3>4, <5>1
        <5>3. Anc(x, z)
          BY <1>1, <2>7, <3>6, <4>1, <4>2, <4>3, <5>1, <5>2 DEF Numbered
        <5> QED BY <1>14, <4>2, <5>3
      <4>4. CASE j = n + 1
        <5>1. y = s
          BY <1>6, <3>2, <4>4
        <5>2. Anc(x, b)
          BY <1>17, <3>4, <4>2, <5>1
        <5>3. PICK f \in 1..m : x = stack[f].block
          BY <1>19, <5>2
        <5>4. Anc(x, z)
          BY <1>21, <2>7, <3>6, <4>1, <4>2, <5>3
        <5> QED BY <1>14, <4>2, <5>4
      <4> QED BY <1>7, <4>3, <4>4
    <3> QED BY <1>7, <3>5, <3>6
  <2> QED BY <1>5, <2>1, <2>2, <2>3, <2>4, <2>5, <2>6, <2>7 DEF Numbered, Anc
<1>26. Visiting'
  <2>1. ASSUME NEW f \in 1..(m + 1)
        PROVE  /\ stack'[f].block \in Found'
               /\ stack'[f].left \subseteq succs[stack'[f].block]
               /\ succs[stack'[f].block] \ stack'[f].left \subseteq Found'
               /\ dfsParent'[stack'[f].block] = IF f = 1 THEN Entry ELSE stack'[f - 1].block
    <3>1. CASE f \in 1..m
      <4>1. /\ stack[f].block \in Found
            /\ stack[f].left \subseteq succs[stack[f].block]
            /\ succs[stack[f].block] \ stack[f].left \subseteq Found
            /\ dfsParent[stack[f].block] = IF f = 1 THEN Entry ELSE stack[f - 1].block
        BY <1>1, <3>1 DEF Visiting
      <4>2. f # 1 => f - 1 \in 1..m
        BY <1>2, <3>1
      <4>3. f # 1 => stack'[f - 1].block = stack[f - 1].block
        BY <1>11, <4>2
      <4>4. dfsParent'[stack[f].block] = dfsParent[stack[f].block]
        BY <1>8, <1>15, <4>1
      <4> QED BY <1>8, <1>11, <3>1, <4>1, <4>3, <4>4
    <3>2. CASE f = m + 1
      <4>1. stack'[m].block = b /\ f # 1 /\ f - 1 = m
        BY <1>0, <1>2, <1>11, <3>2
      <4> QED BY <1>8, <1>10, <1>15, <3>2, <4>1
    <3> QED BY <1>2, <3>1, <3>2
  <2>2. ASSUME NEW f \in 1..(m + 1), NEW i \in Positions', NEW j \in Positions',
               order'[i] = stack'[f].block, i <= j
        PROVE  OnWayUp(dfsParent', order'[i], order'[j])
    <3>1. PICK x : x = order'[i]
      OBVIOUS
    <3>2. PICK y : y = order'[j]
      OBVIOUS
    <3> SUFFICES OnWayUp(dfsParent', x, y)
      BY <3>1, <3>2
    <3>3. CASE f \in 1..m
      <4>1. x = stack[f].block /\ x \in Found
        BY <1>1, <1>11, <2>2, <3>1, <3>3 DEF Visiting
      <4>2. i \in Positions /\ x = order[i]
        BY <1>6, <1>7, <1>22, <3>1, <4>1
      <4>3. CASE j \in Positions
        <5>1. y = order[j] /\ y \in Found
          BY <1>22, <3>2, <4>3
        <5>2. Anc(x, y)
          BY <1>21, <2>2, <3>3, <4>1, <4>2, <4>3, <5>1
        <5> QED BY <1>14, <5>1, <5>2
      <4>4. CASE j = n + 1
        <5>1. y = s
          BY <1>6, <3>2, <4>4
        <5>2. Anc(x, b)
          BY <1>20, <3>3, <4>1
        <5> QED BY <1>16, <5>1, <5>2
      <4> QED BY <1>7, <4>3, <4>4
    <3>4. CASE f = m + 1
      <4>1. x = s
        BY <1>10, <2>2, <3>1, <3>4
      <4>2. i = n + 1
        BY <1>7, <1>22, <3>1, <4>1
      <4>3. j = n + 1
        BY <1>7, <1>23, <2>2, <4>2
      <4> QED BY <1>6, <1>18, <3>2, <4>1, <4>3
    <3> QED BY <1>2, <3>3, <3>4
  <2>3. stack'[1].block = Entry
    <3>1. stack[1].block = Entry /\ 1 \in 1..m
      BY <1>1, <1>2 DEF Visiting
    <3> QED BY <1>11, <3>1
  <2>4. ASSUME NEW q \in Found', \A f \in 1..(m + 1) : stack'[f].block # q
        PROVE  succs[q] \subseteq Found'
    <3>1. q # s /\ q \in Found
      BY <1>2, <1>8, <1>10, <2>4
    <3>2. \A f \in 1..m : stack[f].block # q
      BY <1>2, <1>11, <2>4
    <3> QED BY <1>1, <1>8, <3>1, <3>2 DEF Visiting
  <2> QED BY <1>5, <1>10, <2>1, <2>2, <2>3, <2>4, ZenonT(40) DEF Visiting, Anc
<1>27. stack' # <<>>
  BY <1>2, <1>10
<1>28. /\ todo' = -1 /\ sdom' = Tree!Identity /\ idom' = Tree!Identity /\ linked' = Tree!Identity
       /\ bucket' = [q \in Vertices |-> {}]
  BY <1>1, <1>5 DEF TreeInv
<1> QED BY <1>24, <1>25, <1>26, <1>27, <1>28 DEF TreeInv, Tree!Identity

LEMMA LeaveStep ==
  ASSUME TreeInv, Tree!Leave
  PROVE  TreeInv'
<1> DEFINE m == Len(stack)
<1>1. /\ stack # <<>> /\ stack \in Seq(Frame) /\ stack[m].left = {}
      /\ Shapes /\ Numbered /\ Visiting
      /\ stack' = Tree!Front(stack)
      /\ todo' = IF m = 1 THEN Len(order) ELSE todo
      /\ UNCHANGED <<succs, preds, order, dfsParent, sdom, idom, linked, bucket>>
  BY DEF Tree!Leave, Tree!Walked, Tree!Top, Tree!cfg, TreeInv, Shapes, Frame
<1>2. m \in Nat /\ m >= 1 /\ m \in 1..m /\ Len(order) \in Nat /\ Len(order) >= 1
  BY <1>1 DEF Numbered, Shapes
<1>3. /\ stack' \in Seq(Frame) /\ Len(stack') = m - 1
      /\ \A f \in 1..(m - 1) : stack'[f] = stack[f]
  BY <1>1, FrontOf
<1>4. \A f \in 1..(m - 1) : f \in 1..m
  BY <1>2
<1>5. /\ Numbered' /\ Positions' = Positions /\ Found' = Found
      /\ \A a, n : Anc(a, n)' <=> Anc(a, n)
  BY <1>1, NumberedKept
<1>6. /\ sdom = Tree!Identity /\ idom = Tree!Identity /\ linked = Tree!Identity
      /\ bucket = [n \in Vertices |-> {}] /\ todo = -1
  BY <1>1 DEF TreeInv
<1>7. Shapes'
  BY <1>1, <1>2, <1>3, <1>6 DEF Shapes, Frame
<1>8. Visiting'
  <2>1. ASSUME NEW f \in 1..(m - 1)
        PROVE  /\ stack'[f].block \in Found
               /\ stack'[f].left \subseteq succs[stack'[f].block]
               /\ succs[stack'[f].block] \ stack'[f].left \subseteq Found
               /\ dfsParent[stack'[f].block] = IF f = 1 THEN Entry ELSE stack'[f - 1].block
               /\ \A i, j \in Positions :
                    order[i] = stack'[f].block /\ i <= j => Anc(order[i], order[j])
    <3>1. f # 1 => f - 1 \in 1..(m - 1)
      BY <1>2
    <3>2. f # 1 => stack'[f - 1].block = stack[f - 1].block
      BY <1>3, <3>1
    <3> QED BY <1>1, <1>3, <1>4, <3>2 DEF Visiting
  <2>2. stack' # <<>> => stack'[1].block = Entry
    <3>1. stack' # <<>> => 1 \in 1..(m - 1)
      BY <1>2, <1>3
    <3>2. stack[1].block = Entry
      BY <1>1 DEF Visiting
    <3> QED BY <1>3, <3>1, <3>2
  <2>3. ASSUME NEW n \in Found, \A f \in 1..(m - 1) : stack'[f].block # n
        PROVE  succs[n] \subseteq Found
    <3>1. CASE n = stack[m].block
      BY <1>1, <1>2, <3>1 DEF Visiting
    <3>2. CASE n # stack[m].block
      <4>1. \A f \in 1..m : f \in 1..(m - 1) \/ f = m
        BY <1>2
      <4>2. \A f \in 1..m : stack[f].block # n
        BY <1>3, <2>3, <3>2, <4>1
      <4> QED BY <1>1, <4>2 DEF Visiting
    <3> QED BY <3>1, <3>2
  <2> QED BY <1>1, <1>3, <1>5, <2>1, <2>2, <2>3 DEF Visiting
<1>9. CASE stack' # <<>>
  <2>1. m # 1
    BY <1>2, <1>3, <1>9
  <2> QED BY <1>1, <1>5, <1>6, <1>7, <1>8, <1>9, <2>1 DEF TreeInv, Tree!Identity
<1>10. CASE stack' = <<>>
  <2>1. m = 1 /\ todo' = Len(order) /\ todo' # 0 /\ todo' >= 0
    BY <1>1, <1>2, <1>3, <1>10
  <2>2. Positions = 1..Len(order) /\ \A k \in Positions : ~(k > Len(order)) /\ k <= Len(order)
    BY <1>2 DEF Positions
  <2>3. \A k \in Positions : order[k] \in Vertices
    BY <1>1, <2>2 DEF Shapes
  <2>4. \A n \in Vertices : Tree!Identity[n] = n
    BY DEF Tree!Identity
  <2>5. Entry \in Vertices
    BY PassesAssumption DEF Tree!EntryAssumption
  <2>6. Built(Len(order))'
    BY <1>1, <1>5, <1>6, <1>10, <2>2, <2>3, <2>4, <2>5 DEF Built
  <2>7. Built(IF todo = 0 THEN 1 ELSE todo)'
    BY <2>1, <2>6, <1>1 DEF Built
  <2> QED BY <1>5, <1>7, <1>8, <1>10, <2>1, <2>7 DEF TreeInv
<1> QED BY <1>9, <1>10

-----------------------------------------------------------------------------
\* find.  The disjoint set holds the depth-first tree behind position t: a
\* block in front of it is a root.
LinkedAt(link, t) ==
  /\ link \in [Vertices -> Vertices]
  /\ \A k \in Positions : link[order[k]] = IF k > t THEN dfsParent[order[k]] ELSE order[k]
  /\ \A n \in Vertices \ Found : link[n] = n

LEMMA FindStep ==
  ASSUME Shapes, Numbered, NEW t \in Nat, t >= 1, NEW link, LinkedAt(link, t)
  PROVE  \A v \in Vertices :
           Tree!Find(link, v) = IF link[v] = v THEN v ELSE Tree!Find(link, link[v])
<1> DEFINE L == Len(order)
           Behind(k) == {order[i] : i \in {j \in Positions : j > k}}
           To(f, k) == \A n \in Vertices \ Behind(k) : f[n] = IF link[n] = n THEN n ELSE f[link[n]]
           P(f) == f = [n \in Vertices |-> IF link[n] = n THEN n ELSE f[link[n]]]
           S == {k \in Nat : k <= L => \E f \in [Vertices -> Vertices] : To(f, k)}
<1>1. /\ L \in Nat /\ Positions = 1..L /\ \A k \in Positions : order[k] \in Vertices
      /\ link \in [Vertices -> Vertices]
      /\ \A i, j \in Positions : order[i] = order[j] => i = j
  BY DEF Positions, Shapes, Numbered, LinkedAt
<1>2. ASSUME NEW n \in Vertices, link[n] # n
      PROVE  \E k, i \in Positions : i < k /\ n = order[k] /\ link[n] = order[i]
  <2>1. PICK k \in Positions : n = order[k]
    BY <1>2 DEF LinkedAt, Found
  <2>2. k > 1 /\ link[n] = dfsParent[n]
    BY <1>1, <1>2, <2>1 DEF LinkedAt
  <2>3. PICK i \in Positions : i < k /\ order[i] = dfsParent[order[k]]
    BY <2>1, <2>2 DEF Numbered
  <2> QED BY <2>1, <2>2, <2>3
<1>3. 0 \in S
  <2> DEFINE f == [n \in Vertices |-> n]
  <2>1. f \in [Vertices -> Vertices]
    OBVIOUS
  <2>2. ASSUME NEW n \in Vertices \ Behind(0) PROVE link[n] = n
    <3>1. ASSUME NEW k \in Positions, n = order[k] PROVE FALSE
      BY <1>1, <2>2, <3>1
    <3> QED BY <1>2, <3>1
  <2>3. To(f, 0)
    BY <2>2
  <2> HIDE DEF f, To
  <2> QED BY <2>1, <2>3
<1>4. ASSUME NEW k \in Nat, k \in S PROVE k + 1 \in S
  <2> SUFFICES ASSUME k + 1 <= L PROVE \E f \in [Vertices -> Vertices] : To(f, k + 1)
    OBVIOUS
  <2>1. PICK f \in [Vertices -> Vertices] : To(f, k)
    BY <1>1, <1>4
  <2> DEFINE x == order[k + 1]
             h == [n \in Vertices |->
                     IF n # x THEN f[n] ELSE IF link[x] = x THEN x ELSE f[link[x]]]
  <2>2. k + 1 \in Positions /\ x \in Vertices
    BY <1>1
  <2>3. h \in [Vertices -> Vertices]
    BY <1>1, <2>2
  <2>4. ASSUME NEW n \in Vertices \ Behind(k + 1)
        PROVE  h[n] = IF link[n] = n THEN n ELSE h[link[n]]
    <3>1. CASE link[n] = n
      <4>1. CASE n = x
        BY <3>1, <4>1
      <4>2. CASE n # x
        <5>1. n \notin Behind(k)
          <6>1. \A j \in Positions : j > k => j > k + 1 \/ j = k + 1
            BY <1>1
          <6> QED BY <2>4, <4>2, <6>1
        <5> QED BY <2>1, <3>1, <4>2, <5>1
      <4> QED BY <4>1, <4>2
    <3>2. CASE link[n] # n
      <4>1. PICK j, i \in Positions : i < j /\ n = order[j] /\ link[n] = order[i]
        BY <1>2, <3>2
      <4>2. j <= k + 1
        BY <1>1, <2>4, <4>1
      <4>3. link[n] # x /\ link[n] \in Vertices
        BY <1>1, <2>2, <4>1, <4>2
      <4>4. CASE n = x
        BY <3>2, <4>3, <4>4
      <4>5. CASE n # x
        <5>1. j <= k
          BY <1>1, <4>1, <4>2, <4>5
        <5>2. n \notin Behind(k)
          BY <1>1, <4>1, <5>1
        <5> QED BY <2>1, <3>2, <4>3, <4>5, <5>2
      <4> QED BY <4>4, <4>5
    <3> QED BY <3>1, <3>2
  <2>5. To(h, k + 1)
    <3> HIDE DEF h
    <3> QED BY <2>4
  <2> HIDE DEF h, To
  <2> QED BY <2>3, <2>5
<1>5. L \in S
  <2> HIDE DEF S
  <2> QED BY <1>1, <1>3, <1>4, InductionOnSet
<1>6. PICK f \in [Vertices -> Vertices] : To(f, L)
  <2> HIDE DEF To
  <2> QED BY <1>1, <1>5
<1>7. Behind(L) = {}
  BY <1>1
<1>8. P(f)
  BY <1>6, <1>7
<1>9. \E g : P(g)
  <2> HIDE DEF P
  <2> QED BY <1>8
<1>10. P(CHOOSE g : P(g))
  <2> HIDE DEF P
  <2> QED BY <1>9, Zenon
<1> DEFINE root == CHOOSE g : P(g)
<1>11. \A v \in Vertices : root[v] = IF link[v] = v THEN v ELSE root[link[v]]
  <2> HIDE DEF root
  <2>1. P(root)
    BY <1>10 DEF root
  <2> QED BY <2>1
<1>12. \A v : Tree!Find(link, v) = root[v]
  BY DEF Tree!Find
<1> HIDE DEF root
<1> QED BY <1>11, <1>12

\* The root of a block is the nearest above it that was numbered up to t.
LEMMA FindRoot ==
  ASSUME Shapes, Numbered, NEW t \in Nat, t >= 1, NEW link, LinkedAt(link, t), NEW p \in Found
  PROVE  /\ \E i \in Positions : i <= t /\ order[i] = Tree!Find(link, p)
         /\ Anc(Tree!Find(link, p), p)
         /\ \A i \in Positions :
              i <= t /\ Anc(order[i], p) => Anc(order[i], Tree!Find(link, p))
<1> DEFINE Root(n) == Tree!Find(link, n)
           Right(n) ==
             /\ \E i \in Positions : i <= t /\ order[i] = Root(n)
             /\ Anc(Root(n), n)
             /\ \A i \in Positions : i <= t /\ Anc(order[i], n) => Anc(order[i], Root(n))
           S == {m \in Nat : \A k \in Positions : k <= m => Right(order[k])}
<1>1. /\ Positions = 1..Len(order) /\ Len(order) \in Nat
      /\ \A k \in Positions : order[k] \in Vertices
      /\ \A i, j \in Positions : order[i] = order[j] => i = j
      /\ dfsParent \in [Vertices -> Vertices]
  BY DEF Positions, Shapes, Numbered
<1>2. \A v \in Vertices : Root(v) = IF link[v] = v THEN v ELSE Root(link[v])
  BY FindStep
<1> HIDE DEF Root
<1>3. ASSUME NEW k \in Positions, k <= t PROVE Right(order[k])
  <2>1. Root(order[k]) = order[k]
    BY <1>1, <1>2, <1>3 DEF LinkedAt
  <2>2. Anc(order[k], order[k])
    BY <1>1, WayUp DEF Anc
  <2> QED BY <1>3, <2>1, <2>2
<1>4. ASSUME NEW k \in Positions, k > t,
             \A i \in Positions : i < k => Right(order[i])
      PROVE  Right(order[k])
  <2>1. k > 1
    BY <1>1, <1>4
  <2>2. PICK i \in Positions : i < k /\ order[i] = dfsParent[order[k]]
    BY <2>1 DEF Numbered
  <2>3. order[i] # order[k]
    BY <1>1, <2>2
  <2>4. Root(order[k]) = Root(order[i])
    BY <1>1, <1>2, <1>4, <2>2, <2>3 DEF LinkedAt
  <2>5. Right(order[i])
    BY <1>4, <2>2
  <2>6. order[k] \in Vertices /\ order[i] = dfsParent[order[k]]
    BY <1>1, <2>2
  <2>7. Anc(Root(order[k]), order[k])
    BY <1>1, <2>4, <2>5, <2>6, WayUp DEF Anc
  <2>8. ASSUME NEW j \in Positions, j <= t, Anc(order[j], order[k])
        PROVE  Anc(order[j], Root(order[k]))
    <3>1. order[j] # order[k]
      BY <1>1, <1>4, <2>8
    <3>2. Anc(order[j], order[i])
      BY <1>1, <2>6, <2>8, <3>1, WayUp DEF Anc
    <3> QED BY <2>4, <2>5, <2>8, <3>2
  <2> QED BY <2>4, <2>5, <2>7, <2>8
<1> HIDE DEF Right
<1>5. 0 \in S
  BY <1>1
<1>6. ASSUME NEW m \in Nat, m \in S PROVE m + 1 \in S
  <2> SUFFICES ASSUME NEW k \in Positions, k <= m + 1 PROVE Right(order[k])
    OBVIOUS
  <2>1. CASE k <= t
    BY <1>3, <2>1
  <2>2. CASE k > t
    <3>1. \A i \in Positions : i < k => i <= m
      BY <1>1
    <3>2. \A i \in Positions : i < k => Right(order[i])
      BY <1>6, <3>1
    <3> QED BY <1>4, <2>2, <3>2
  <2> QED BY <1>1, <2>1, <2>2
<1>7. PICK k \in Positions : p = order[k]
  BY DEF Found
<1>8. k \in S
  <2> HIDE DEF S
  <2> QED BY <1>1, <1>5, <1>6, InductionOnSet
<1>9. Right(p)
  BY <1>1, <1>7, <1>8
<1> QED BY <1>9 DEF Right, Root

-----------------------------------------------------------------------------
\* build_dom_tree, in reverse depth-first order.
LEMMA DfnAt ==
  ASSUME Shapes, Numbered, NEW k \in Positions
  PROVE  Tree!Dfn(order[k]) = k
<1>1. /\ DOMAIN order = Positions
      /\ \A i, j \in Positions : order[i] = order[j] => i = j
  BY DEF Shapes, Numbered, Positions
<1> QED BY <1>1 DEF Tree!Dfn

\* What is above a block was numbered before it.
LEMMA AboveIsBefore ==
  ASSUME Shapes, Numbered, NEW i \in Positions, NEW j \in Positions, Anc(order[i], order[j])
  PROVE  i <= j
<1>1. PICK k \in Positions : k <= j /\ order[i] = order[k]
  BY WayUpNumbered
<1> QED BY <1>1 DEF Numbered

LEMMA SemiAbove ==
  ASSUME Shapes, Numbered, NEW k \in Positions, NEW d, Semi(k, d)
  PROVE  Anc(d, order[k]) /\ d # order[k] /\ d \in Vertices
<1>1. PICK i \in Positions : i < k /\ order[i] = d
  BY DEF Semi
<1>2. PICK p \in Found : order[k] \in succs[p] /\ Nearest(d, p, k)
  BY DEF Semi
<1>3. PICK j \in Positions : p = order[j]
  BY <1>2 DEF Found
<1>4. /\ Positions \subseteq Nat /\ \A h \in Positions : order[h] \in Vertices
      /\ dfsParent \in [Vertices -> Vertices]
  BY DEF Positions, Shapes
<1>5. d # order[k] /\ d \in Vertices
  BY <1>1, <1>4 DEF Numbered
<1>6. Anc(d, order[j])
  BY <1>2, <1>3 DEF Nearest
<1>7. CASE j < k
  <2>1. Anc(order[j], order[k])
    BY <1>2, <1>3, <1>7 DEF Numbered
  <2>2. OnWayUp(dfsParent, d, order[j]) /\ OnWayUp(dfsParent, order[j], order[k])
    BY <1>6, <2>1 DEF Anc
  <2> QED BY <1>4, <1>5, <2>2, WayUp DEF Anc
<1>8. CASE j = k
  BY <1>5, <1>6, <1>8
<1>9. CASE k < j
  <2>1. i <= k /\ k <= j
    BY <1>1, <1>4, <1>9
  <2> QED BY <1>1, <1>5, <1>6, <2>1 DEF Numbered
<1> QED BY <1>4, <1>7, <1>8, <1>9

\* The candidate the loop takes for the semidominator of a node.
LEMMA SemiFound ==
  ASSUME TreeInv, stack = <<>>, todo > 1, NEW node, node = order[todo],
         NEW better, better = {c \in {Tree!Find(linked, p) : p \in preds[node] \cap Tree!Reached} :
                                 Tree!Dfn(sdom[c]) < Tree!Dfn(sdom[node])}
  PROVE  /\ LinkedAt(linked, todo)
         /\ \E c \in better : \A d \in better : Tree!Dfn(sdom[c]) <= Tree!Dfn(sdom[d])
         /\ \A c \in better : Semi(todo, c)
<1>1. /\ Shapes /\ Numbered /\ Built(todo) /\ todo \in Positions /\ todo \in Nat /\ todo >= 1
      /\ todo # 0
  BY DEF TreeInv, Shapes, Positions
<1>2. LinkedAt(linked, todo)
  BY <1>1 DEF LinkedAt, Built, Shapes
<1>3. Tree!Reached = Found
  BY DEF Tree!Reached, Tree!Range, Found, Positions, TreeInv, Shapes
<1>4. /\ Positions \subseteq Nat /\ \A k \in Positions : order[k] \in Vertices
      /\ preds[node] = {p \in Vertices : node \in succs[p]} /\ node \in Vertices
  BY <1>1 DEF Positions, Shapes
<1>5. \A k \in Positions : k <= todo => sdom[order[k]] = order[k] /\ Tree!Dfn(sdom[order[k]]) = k
  BY <1>1, DfnAt DEF Built
<1>6. Tree!Dfn(sdom[node]) = todo
  BY <1>1, <1>4, <1>5
<1>7. ASSUME NEW p \in preds[node] \cap Found
      PROVE  /\ \E i \in Positions : i <= todo /\ order[i] = Tree!Find(linked, p)
             /\ Tree!Find(linked, p) \in better => Semi(todo, Tree!Find(linked, p))
  <2>1. /\ \E i \in Positions : i <= todo /\ order[i] = Tree!Find(linked, p)
        /\ Anc(Tree!Find(linked, p), p)
        /\ \A i \in Positions :
             i <= todo /\ Anc(order[i], p) => Anc(order[i], Tree!Find(linked, p))
    BY <1>1, <1>2, FindRoot
  <2>2. PICK i \in Positions : i <= todo /\ order[i] = Tree!Find(linked, p)
    BY <2>1
  <2>3. ASSUME Tree!Find(linked, p) \in better PROVE Semi(todo, Tree!Find(linked, p))
    <3>1. Tree!Dfn(sdom[order[i]]) < todo
      BY <1>6, <2>2, <2>3
    <3>2. i < todo
      BY <1>5, <2>2, <3>1
    <3>3. \A h \in Positions : h < todo => h <= todo
      BY <1>1, <1>4
    <3>4. order[todo] \in succs[p] /\ Nearest(Tree!Find(linked, p), p, todo)
      BY <1>4, <1>7, <2>1, <3>3 DEF Nearest
    <3> QED BY <1>7, <2>2, <3>2, <3>4 DEF Semi
  <2> QED BY <2>2, <2>3
<1>8. \A c \in better : Semi(todo, c)
  BY <1>3, <1>7
<1>9. \E c \in better : \A d \in better : Tree!Dfn(sdom[c]) <= Tree!Dfn(sdom[d])
  <2> DEFINE N == {Tree!Dfn(sdom[c]) : c \in better}
  <2>1. ASSUME NEW c \in better PROVE Tree!Dfn(sdom[c]) \in Nat
    <3>1. PICK i \in Positions : i <= todo /\ order[i] = c
      BY <1>3, <1>7
    <3> QED BY <1>4, <1>5, <3>1
  <2>2. N \in SUBSET Nat
    BY <2>1
  <2>3. N # {}
    <3>1. PICK i \in Positions : /\ i < todo /\ order[i] = dfsParent[order[todo]]
                                 /\ order[todo] \in succs[order[i]]
      BY <1>1 DEF Numbered
    <3>2. i <= todo /\ ~(i > todo)
      BY <1>1, <1>4, <3>1
    <3>3. linked[order[i]] = order[i]
      BY <1>1, <3>2 DEF Built
    <3>4. Tree!Find(linked, order[i]) = order[i]
      BY <1>1, <1>2, <1>4, <3>3, FindStep
    <3>5. order[i] \in preds[node] \cap Found
      BY <1>4, <3>1 DEF Found
    <3>6. order[i] \in better
      BY <1>3, <1>5, <1>6, <3>1, <3>2, <3>4, <3>5
    <3> QED BY <3>6
  <2>4. \E n \in N : \A m \in N : n <= m
    <3> HIDE DEF N
    <3> QED BY <2>2, <2>3, LeastElement
  <2> QED BY <2>4
<1> QED BY <1>2, <1>8, <1>9

LEMMA ProcessStep ==
  ASSUME TreeInv, Tree!ProcessNode
  PROVE  TreeInv'
<1>0. PICK t : t = todo
  OBVIOUS
<1> DEFINE node == order[todo]
           parent == dfsParent[node]
           better == {c \in {Tree!Find(linked, p) : p \in preds[node] \cap Tree!Reached} :
                        Tree!Dfn(sdom[c]) < Tree!Dfn(sdom[node])}
<1>1. /\ t = todo /\ stack = <<>> /\ t > 1 /\ t \in Nat /\ t \in Positions /\ t # 0 /\ t - 1 # 0 /\ t - 1 >= 1
      /\ t - 1 \in Nat
      /\ Shapes /\ Numbered /\ Visiting /\ Built(t)
      /\ UNCHANGED <<succs, preds, stack, order, dfsParent>>
  <2>1. /\ stack = <<>> /\ todo > 1 /\ Shapes /\ Numbered /\ Visiting
        /\ UNCHANGED <<succs, preds, stack, order, dfsParent>>
    BY DEF Tree!ProcessNode, Tree!Walked, Tree!cfg, TreeInv
  <2>2. todo \in -1..Len(order) /\ Len(order) \in Nat
    BY <2>1 DEF Shapes
  <2>3. /\ t > 1 /\ t \in Nat /\ t \in Positions /\ t # 0 /\ t - 1 # 0 /\ t - 1 >= 1
        /\ t - 1 \in Nat
    BY <1>0, <2>1, <2>2 DEF Positions
  <2>4. Built(t)
    BY <1>0, <2>1, <2>3 DEF TreeInv
  <2> QED BY <1>0, <2>1, <2>3, <2>4
<1>2. /\ LinkedAt(linked, todo)
      /\ \E c \in better : \A d \in better : Tree!Dfn(sdom[c]) <= Tree!Dfn(sdom[d])
      /\ \A c \in better : Semi(todo, c)
  BY <1>1, SemiFound
<1>3. PICK semi : semi = CHOOSE c \in better :
                           \A d \in better : Tree!Dfn(sdom[c]) <= Tree!Dfn(sdom[d])
  OBVIOUS
<1>4. PICK filled : filled = [bucket EXCEPT ![semi] = @ \cup {node}]
  OBVIOUS
<1>5. better # {}
  BY <1>2
<1>6. /\ sdom' = [sdom EXCEPT ![node] = semi]
      /\ linked' = [linked EXCEPT ![node] = parent]
      /\ idom' = [v \in Vertices |->
                    IF v \notin filled[parent] THEN idom[v]
                    ELSE IF sdom'[Tree!Find(linked', v)] = sdom'[v] THEN sdom'[v]
                         ELSE Tree!Find(linked', v)]
      /\ bucket' = [filled EXCEPT ![parent] = {}]
      /\ todo' = todo - 1
  BY <1>3, <1>4, <1>5 DEF Tree!ProcessNode
<1>7. semi \in better
  <2> HIDE DEF better
  <2> QED BY <1>2, <1>3
<1>8. Semi(t, semi)
  BY <1>1, <1>2, <1>7
<1> HIDE DEF better
<1>9. /\ Positions = 1..Len(order) /\ Positions \subseteq Nat /\ Len(order) \in Nat
      /\ \A k \in Positions : order[k] \in Vertices /\ order[k] \in Found
      /\ \A i, j \in Positions : order[i] = order[j] => i = j
      /\ dfsParent \in [Vertices -> Vertices] /\ sdom \in [Vertices -> Vertices]
      /\ idom \in [Vertices -> Vertices] /\ linked \in [Vertices -> Vertices]
      /\ bucket \in [Vertices -> SUBSET Vertices]
      /\ node \in Vertices /\ parent \in Vertices
  <2>1. /\ Positions = 1..Len(order) /\ Positions \subseteq Nat /\ Len(order) \in Nat
        /\ \A k \in Positions : order[k] \in Vertices
    BY <1>1 DEF Positions, Shapes
  <2>2. \A k \in Positions : order[k] \in Found
    BY DEF Found
  <2>3. \A i, j \in Positions : order[i] = order[j] => i = j
    BY <1>1 DEF Numbered
  <2>4. /\ dfsParent \in [Vertices -> Vertices] /\ sdom \in [Vertices -> Vertices]
        /\ idom \in [Vertices -> Vertices] /\ linked \in [Vertices -> Vertices]
        /\ bucket \in [Vertices -> SUBSET Vertices]
    BY <1>1 DEF Shapes
  <2>5. node \in Vertices /\ parent \in Vertices
    BY <1>1, <2>1, <2>4
  <2> QED BY <2>1, <2>2, <2>3, <2>4, <2>5
<1>10. PICK i0 \in Positions : i0 < t /\ order[i0] = parent
  BY <1>1 DEF Numbered
<1>11. Anc(semi, node) /\ semi # node /\ semi \in Vertices
  BY <1>1, <1>8, SemiAbove
<1>12. LinkedAt(linked', t - 1)
  <2>1. linked' \in [Vertices -> Vertices]
    BY <1>6, <1>9
  <2>2. ASSUME NEW k \in Positions
        PROVE  linked'[order[k]] = IF k > t - 1 THEN dfsParent[order[k]] ELSE order[k]
    <3>1. CASE k = t
      BY <1>1, <1>6, <1>9, <3>1
    <3>2. CASE k # t
      <4>1. order[k] # node /\ linked'[order[k]] = linked[order[k]]
        BY <1>1, <1>6, <1>9, <3>2
      <4>2. (k > t - 1) <=> (k > t)
        BY <1>1, <1>9, <3>2
      <4> QED BY <1>1, <1>2, <4>1, <4>2 DEF LinkedAt
    <3> QED BY <3>1, <3>2
  <2>3. ASSUME NEW n \in Vertices \ Found PROVE linked'[n] = n
    BY <1>1, <1>2, <1>6, <1>9 DEF LinkedAt
  <2> QED BY <2>1, <2>2, <2>3 DEF LinkedAt
<1>13. Anc(parent, node) /\ Anc(node, node) /\ \A a : Anc(a, node) /\ a # node => Anc(a, parent)
  BY <1>9, WayUp DEF Anc
<1>14. \A v \in filled[parent] : \E k \in Positions :
          k >= t /\ v = order[k] /\ Anc(node, v) /\ sdom'[v] = parent
  <2> TAKE v \in filled[parent]
  <2>1. CASE v = node /\ semi = parent
    BY <1>1, <1>6, <1>9, <1>13, <2>1
  <2>2. CASE v \in bucket[parent]
    <3>1. PICK k \in Positions : k > t /\ v = order[k] /\ sdom[v] = parent
      BY <1>1, <1>9, <2>2 DEF Built
    <3>2. PICK j \in Positions : 1 < j /\ j <= t /\ dfsParent[order[j]] = parent /\ Anc(order[j], v)
      BY <1>1, <1>9, <2>2 DEF Built
    <3>3. v # node /\ sdom'[v] = parent /\ k >= t
      BY <1>1, <1>6, <1>9, <3>1
    <3>4. j = t
      <4> SUFFICES ASSUME j # t PROVE FALSE
        OBVIOUS
      <4>1. j <= t /\ t <= k /\ Anc(order[j], order[k])
        BY <1>1, <1>9, <3>1, <3>2
      <4>2. Anc(order[j], node)
        BY <1>1, <4>1 DEF Numbered
      <4>3. Anc(order[j], order[i0])
        BY <1>1, <1>9, <1>10, <1>13, <4>2
      <4>4. j <= i0
        BY <1>1, <4>3, AboveIsBefore
      <4>5. PICK h \in Positions : h < j /\ order[h] = dfsParent[order[j]]
        BY <1>1, <3>2 DEF Numbered
      <4>6. h = i0
        BY <1>9, <1>10, <3>2, <4>5
      <4> QED BY <1>9, <4>4, <4>5, <4>6
    <3> QED BY <1>1, <3>1, <3>2, <3>3, <3>4
  <2> QED BY <1>4, <1>9, <1>11, <2>1, <2>2
<1>15. \A v \in filled[parent] : v \in Vertices /\ idom'[v] = parent /\ sdom'[v] = parent
  <2> TAKE v \in filled[parent]
  <2>1. PICK k \in Positions : k >= t /\ v = order[k] /\ Anc(node, v) /\ sdom'[v] = parent
    BY <1>14
  <2>2. PICK w : w = Tree!Find(linked', v)
    OBVIOUS
  <2>3. v \in Found /\ v \in Vertices
    BY <1>9, <2>1
  <2>4. /\ \E i \in Positions : i <= t - 1 /\ order[i] = w
        /\ Anc(w, v)
        /\ \A i \in Positions : i <= t - 1 /\ Anc(order[i], v) => Anc(order[i], w)
    BY <1>1, <1>12, <2>2, <2>3, FindRoot
  <2>5. PICK i \in Positions : i <= t - 1 /\ order[i] = w
    BY <2>4
  <2>6. Anc(parent, v)
    BY <1>9, <1>13, <2>1, <2>3, WayUp DEF Anc
  <2>7. Anc(order[i0], order[i])
    BY <1>1, <1>9, <1>10, <2>4, <2>5, <2>6
  <2>8. i <= t /\ t <= k /\ Anc(order[i], order[k]) /\ w # node
    BY <1>1, <1>9, <2>1, <2>4, <2>5
  <2>9. Anc(w, node)
    BY <1>1, <2>5, <2>8 DEF Numbered
  <2>10. Anc(order[i], order[i0])
    BY <1>10, <1>13, <2>5, <2>8, <2>9
  <2>11. i0 <= i
    BY <1>1, <2>7, AboveIsBefore
  <2>12. i <= i0
    BY <1>1, <2>10, AboveIsBefore
  <2>13. w = parent
    BY <1>9, <1>10, <2>5, <2>11, <2>12
  <2> QED BY <1>6, <2>1, <2>2, <2>3, <2>13
<1>16. \A v \in Vertices : v \notin filled[parent] => idom'[v] = idom[v]
  BY <1>6
<1>17. idom' \in [Vertices -> Vertices]
  <2>1. \A v \in Vertices : idom'[v] \in Vertices
    BY <1>9, <1>15, <1>16
  <2>2. idom' = [v \in Vertices |-> idom'[v]]
    BY <1>6
  <2> HIDE <1>6
  <2> QED BY <2>1, <2>2
<1>18. filled \in [Vertices -> SUBSET Vertices]
       /\ \A x \in Vertices : filled[x] = IF x = semi THEN bucket[x] \cup {node} ELSE bucket[x]
  BY <1>4, <1>9, <1>11
<1>19. bucket' \in [Vertices -> SUBSET Vertices]
       /\ \A x \in Vertices : bucket'[x] = IF x = parent THEN {} ELSE filled[x]
  BY <1>6, <1>9, <1>18
<1>20. sdom' \in [Vertices -> Vertices] /\ sdom'[node] = semi
       /\ \A v \in Vertices : v # node => sdom'[v] = sdom[v]
  BY <1>6, <1>9, <1>11
<1>21. /\ Numbered' /\ Positions' = Positions /\ Found' = Found
       /\ \A a, n : Anc(a, n)' <=> Anc(a, n)
  BY <1>1, NumberedKept
<1>22. Shapes'
  <2>1. t - 1 \in -1..Len(order)
    BY <1>1, <1>9
  <2>2. linked' \in [Vertices -> Vertices]
    BY <1>12 DEF LinkedAt
  <2>3. todo' \in -1..Len(order')
    BY <1>1, <1>6, <2>1
  <2> QED BY <1>1, <1>17, <1>19, <1>20, <2>2, <2>3 DEF Shapes
<1>23. Visiting'
  BY <1>1, <1>21 DEF Visiting
<1>24. \A k \in Positions : k <= t - 1 => sdom'[order[k]] = order[k]
  <2> TAKE k \in Positions
  <2> HAVE k <= t - 1
  <2>1. k <= t /\ order[k] # node
    BY <1>1, <1>9
  <2> QED BY <1>1, <1>9, <1>20, <2>1 DEF Built
<1>25. \A k \in Positions : k > t - 1 => Semi(k, sdom'[order[k]])
  <2> TAKE k \in Positions
  <2> HAVE k > t - 1
  <2>1. CASE k = t
    BY <1>1, <1>8, <1>20, <2>1
  <2>2. CASE k # t
    <3>1. k > t /\ order[k] # node
      BY <1>1, <1>9, <2>2
    <3> QED BY <1>1, <1>9, <1>20, <3>1 DEF Built
  <2> QED BY <2>1, <2>2
<1>26. \A k \in Positions : k > t - 1 => \/ order[k] \in bucket'[sdom'[order[k]]]
                                          \/ idom'[order[k]] = sdom'[order[k]]
  <2> TAKE k \in Positions
  <2> HAVE k > t - 1
  <2>1. CASE order[k] \in filled[parent]
    BY <1>15, <2>1
  <2>2. CASE order[k] \notin filled[parent]
    <3>1. CASE k = t
      <4>1. node \in filled[semi] /\ sdom'[order[k]] = semi /\ semi # parent
        BY <1>1, <1>11, <1>18, <1>20, <2>2, <3>1
      <4> QED BY <1>1, <1>11, <1>19, <1>20, <3>1, <4>1
    <3>2. CASE k # t
      <4>1. k > t /\ order[k] # node /\ order[k] \in Vertices
        BY <1>1, <1>9, <3>2
      <4>2. PICK x \in Vertices : x = sdom[order[k]]
        BY <1>9, <4>1
      <4>3. sdom'[order[k]] = x /\ idom'[order[k]] = idom[order[k]]
        BY <1>16, <1>20, <2>2, <4>1, <4>2
      <4>4. order[k] \in bucket[x] \/ idom[order[k]] = x
        BY <1>1, <4>1, <4>2 DEF Built
      <4>5. order[k] \in bucket[x] => order[k] \in filled[x]
        BY <1>18, <4>2
      <4>6. order[k] \in filled[x] => order[k] \in bucket'[x]
        BY <1>19, <2>2, <4>2
      <4> QED BY <4>3, <4>4, <4>5, <4>6
    <3> QED BY <3>1, <3>2
  <2> QED BY <2>1, <2>2
<1>27. idom'[Entry] = Entry
  <2>1. Entry = order[1] /\ 1 \in Positions /\ Entry \in Vertices
    BY <1>1, <1>9 DEF Numbered
  <2>2. Entry \notin filled[parent]
    <3> SUFFICES ASSUME Entry \in filled[parent] PROVE FALSE
      OBVIOUS
    <3>1. PICK k \in Positions : k >= t /\ Entry = order[k]
      BY <1>14
    <3>2. k = 1
      BY <1>9, <2>1, <3>1
    <3> QED BY <1>1, <3>1, <3>2
  <2> QED BY <1>1, <1>16, <2>1, <2>2 DEF Built
<1>28. ASSUME NEW x \in Vertices, NEW v \in bucket'[x]
       PROVE  /\ \E k \in Positions : k > t - 1 /\ v = order[k] /\ sdom'[v] = x
              /\ \E j \in Positions : /\ 1 < j /\ j <= t - 1 /\ dfsParent[order[j]] = x
                                      /\ Anc(order[j], v)
  <2>1. x # parent /\ v \in filled[x]
    BY <1>19, <1>28
  <2>2. CASE v \in bucket[x]
    <3>1. PICK k \in Positions : k > t /\ v = order[k] /\ sdom[v] = x
      BY <1>1, <2>2 DEF Built
    <3>2. PICK j \in Positions : 1 < j /\ j <= t /\ dfsParent[order[j]] = x /\ Anc(order[j], v)
      BY <1>1, <2>2 DEF Built
    <3>3. v # node /\ sdom'[v] = x /\ k > t - 1
      BY <1>1, <1>9, <1>20, <3>1
    <3>4. j # t
      BY <1>1, <2>1, <3>2
    <3>5. j <= t - 1
      BY <1>1, <1>9, <3>2, <3>4
    <3> QED BY <3>1, <3>2, <3>3, <3>5
  <2>3. CASE v \notin bucket[x]
    <3>1. v = node /\ x = semi
      BY <1>18, <2>1, <2>3
    <3>2. PICK c \in Vertices : c # semi /\ dfsParent[c] = semi /\ OnWayUp(dfsParent, c, node)
      BY <1>9, <1>11, ChildOnWay DEF Anc
    <3>3. Anc(c, order[t])
      BY <1>1, <3>2 DEF Anc
    <3>4. PICK j \in Positions : j <= t /\ c = order[j]
      BY <1>1, <3>3, WayUpNumbered
    <3>5. j # t
      BY <1>1, <2>1, <3>1, <3>2, <3>4
    <3>6. j # 1
      BY <1>1, <3>2, <3>4 DEF Numbered
    <3>7. 1 < j /\ j <= t - 1 /\ t > t - 1
      BY <1>1, <1>9, <3>4, <3>5, <3>6
    <3> QED BY <1>1, <1>20, <3>1, <3>2, <3>3, <3>4, <3>7
  <2> QED BY <2>2, <2>3
<1>29. Built(IF todo = 0 THEN 1 ELSE todo)'
  <2>1. \A n \in Vertices \ Found' : linked'[n] = n
    BY <1>12, <1>21 DEF LinkedAt
  <2>2. \A k \in Positions' :
          linked'[order'[k]] = IF k > t - 1 THEN dfsParent'[order'[k]] ELSE order'[k]
    BY <1>1, <1>12, <1>21 DEF LinkedAt
  <2>3. \A k \in Positions' : k > t - 1 => Semi(k, sdom[order[k]])'
    BY <1>1, <1>21, <1>25 DEF Semi, Nearest
  <2>4. /\ \A k \in Positions' : k <= t - 1 => sdom'[order'[k]] = order'[k]
        /\ \A k \in Positions' : k > t - 1 => \/ order'[k] \in bucket'[sdom'[order'[k]]]
                                            \/ idom'[order'[k]] = sdom'[order'[k]]
    BY <1>1, <1>21, <1>24, <1>26
  <2>5. \A x \in Vertices : \A v \in bucket'[x] :
          /\ \E k \in Positions' : k > t - 1 /\ v = order'[k] /\ sdom'[v] = x
          /\ \E j \in Positions' : /\ 1 < j /\ j <= t - 1 /\ dfsParent'[order'[j]] = x
                                   /\ OnWayUp(dfsParent', order'[j], v)
    BY <1>1, <1>21, <1>28 DEF Anc
  <2>6. stack' = <<>> /\ idom'[Entry] = Entry
    BY <1>1, <1>27
  <2>7. (IF todo' = 0 THEN 1 ELSE todo') = t - 1
    BY <1>1, <1>6
  <2> QED BY <2>1, <2>2, <2>3, <2>4, <2>5, <2>6, <2>7 DEF Built, Anc
<1>30. todo' >= 0 /\ stack' = <<>>
  BY <1>1, <1>6
<1> QED BY <1>21, <1>22, <1>23, <1>29, <1>30 DEF TreeInv

\* The last loop finds every idom resolved: a lookup that would have been left
\* to it always found the parent.
LEMMA FixupStep ==
  ASSUME TreeInv, Tree!Fixup
  PROVE  TreeInv'
<1> DEFINE L == Len(order)
           P(after) ==
             after = [k \in 1..L |->
                        IF k = 1 THEN idom
                        ELSE IF after[k - 1][order[k]] # sdom[order[k]]
                             THEN [after[k - 1] EXCEPT ![order[k]] =
                                     after[k - 1][after[k - 1][order[k]]]]
                             ELSE after[k - 1]]
           same == [k \in 1..L |-> idom]
<1>1. /\ stack = <<>> /\ todo = 1 /\ Shapes /\ Numbered /\ Visiting /\ Built(1)
      /\ idom' = Tree!Resolved /\ todo' = 0
      /\ UNCHANGED <<succs, preds, stack, order, dfsParent, sdom, linked, bucket>>
  BY DEF Tree!Fixup, Tree!TreeBuilt, Tree!Walked, Tree!cfg, TreeInv
<1>2. /\ L \in Nat /\ L >= 1 /\ Positions = 1..L /\ idom \in [Vertices -> Vertices]
      /\ \A k \in Positions : order[k] \in Vertices
      /\ bucket \in [Vertices -> SUBSET Vertices] /\ sdom \in [Vertices -> Vertices]
  BY <1>1 DEF Shapes, Numbered, Positions
<1>3. \A x \in Vertices : bucket[x] = {}
  BY <1>1, <1>2 DEF Built
<1>4. \A k \in Positions : k > 1 => idom[order[k]] = sdom[order[k]]
  BY <1>1, <1>2, <1>3 DEF Built
<1>5. P(same)
  <2>1. ASSUME NEW k \in 1..L
        PROVE  same[k] = IF k = 1 THEN idom
                         ELSE IF same[k - 1][order[k]] # sdom[order[k]]
                              THEN [same[k - 1] EXCEPT ![order[k]] =
                                      same[k - 1][same[k - 1][order[k]]]]
                              ELSE same[k - 1]
    <3>1. CASE k = 1
      BY <3>1
    <3>2. CASE k # 1
      <4>1. k > 1 /\ k - 1 \in 1..L /\ k \in Positions
        BY <1>2, <3>2
      <4>2. same[k - 1] = idom /\ same[k] = idom
        BY <4>1
      <4> HIDE DEF same
      <4> QED BY <1>4, <3>2, <4>1, <4>2
    <3> QED BY <3>1, <3>2
  <2>2. same = [k \in 1..L |-> same[k]]
    OBVIOUS
  <2> HIDE DEF same
  <2> QED BY <2>1, <2>2
<1>6. \E after : P(after)
  <2> HIDE DEF P
  <2> QED BY <1>5
<1>7. P(CHOOSE after : P(after))
  <2> HIDE DEF P
  <2> QED BY <1>6, Zenon
<1> DEFINE chosen == CHOOSE after : P(after)
<1>8. Tree!Resolved = chosen[L]
  BY Zenon DEF Tree!Resolved
<1>9. P(chosen)
  BY <1>7, Zenon
<1> HIDE DEF chosen
<1> DEFINE S == {k \in Nat : k \in 1..L => chosen[k] = idom}
<1>10. 0 \in S
  OBVIOUS
<1>11. ASSUME NEW k \in Nat, k \in S PROVE k + 1 \in S
  <2> SUFFICES ASSUME k + 1 \in 1..L PROVE chosen[k + 1] = idom
    OBVIOUS
  <2>1. CASE k = 0
    BY <1>9, <2>1
  <2>2. CASE k # 0
    <3>1. k \in 1..L /\ k + 1 # 1 /\ k + 1 - 1 = k /\ k + 1 \in Positions /\ k + 1 > 1
      BY <1>2, <2>2
    <3>2. chosen[k] = idom
      BY <1>11, <3>1
    <3>3. idom[order[k + 1]] = sdom[order[k + 1]]
      BY <1>4, <3>1
    <3>4. PICK h \in 1..L : h = k + 1
      BY Zenon
    <3>5. chosen[h] = IF chosen[h - 1][order[h]] # sdom[order[h]]
                      THEN [chosen[h - 1] EXCEPT ![order[h]] = chosen[h - 1][chosen[h - 1][order[h]]]]
                      ELSE chosen[h - 1]
      BY <1>9, <3>1, <3>4, Zenon
    <3>6. h - 1 = k
      BY <3>1, <3>4
    <3> QED BY <3>2, <3>3, <3>4, <3>5, <3>6
  <2> QED BY <2>1, <2>2
<1>12. L \in S
  <2> HIDE DEF S
  <2> QED BY <1>2, <1>10, <1>11, InductionOnSet
<1>13. idom' = idom
  BY <1>1, <1>2, <1>8, <1>12
<1>14. /\ Numbered' /\ Positions' = Positions /\ Found' = Found
       /\ \A a, n : Anc(a, n)' <=> Anc(a, n)
  BY <1>1, NumberedKept
<1>15. Shapes' /\ Visiting'
  BY <1>1, <1>2, <1>13, <1>14 DEF Shapes, Visiting
<1>16. Built(1)'
  BY <1>1, <1>13, <1>14 DEF Built, Semi, Nearest
<1>17. Built(IF todo = 0 THEN 1 ELSE todo)'
  BY <1>1, <1>16 DEF Built
<1> QED BY <1>1, <1>14, <1>15, <1>17 DEF TreeInv

LEMMA TreeStep ==
  ASSUME TreeInv, Tree!Next \/ UNCHANGED treeVars
  PROVE  TreeInv'
<1>1. CASE \E s \in Vertices : Tree!Visit(s)
  <2>1. PICK s \in Vertices : Tree!Visit(s)
    BY <1>1
  <2> QED BY <2>1, VisitAgain, VisitNew
<1>2. CASE Tree!Leave
  BY <1>2, LeaveStep
<1>3. CASE Tree!ProcessNode
  BY <1>3, ProcessStep
<1>4. CASE Tree!Fixup
  BY <1>4, FixupStep
<1>5. CASE UNCHANGED treeVars
  <2>1. UNCHANGED <<succs, preds, stack, order, dfsParent, sdom, idom, linked, bucket, todo>>
    BY <1>5 DEF treeVars
  <2>2. /\ Numbered' /\ Positions' = Positions /\ Found' = Found
        /\ \A a, n : Anc(a, n)' <=> Anc(a, n)
    BY <2>1, NumberedKept DEF TreeInv
  <2>3. Shapes' /\ Visiting'
    BY <2>1, <2>2 DEF TreeInv, Shapes, Visiting
  <2>4. stack = <<>> => Built(IF todo = 0 THEN 1 ELSE todo)'
    BY <2>1, <2>2 DEF TreeInv, Built, Semi, Nearest
  <2> QED BY <2>1, <2>2, <2>3, <2>4 DEF TreeInv, Tree!Identity
<1>6. Tree!Fixed /\ UNCHANGED Tree!vars => UNCHANGED treeVars
  BY DEF Tree!vars, Tree!cfg, treeVars
<1> QED BY <1>1, <1>2, <1>3, <1>4, <1>5, <1>6 DEF Tree!Next

-----------------------------------------------------------------------------
\* The tree, once every idom is fixed.
LEMMA Settled ==
  ASSUME TreeInv, Tree!Fixed
  PROVE  /\ Shapes /\ Numbered
         /\ \A k \in Positions : k > 1 =>
              /\ Semi(k, idom[order[k]])
              /\ \E i \in Positions : i < k /\ order[i] = idom[order[k]]
         /\ idom[Entry] = Entry
         /\ \A n \in Found : succs[n] \subseteq Found
         /\ Tree!Reached = Found
<1>1. todo = 0 /\ stack = <<>> /\ Built(1) /\ Shapes /\ Numbered /\ Visiting
  BY DEF TreeInv, Tree!Fixed
<1>2. \A k \in Positions : order[k] \in Vertices
  BY <1>1 DEF Positions, Shapes
<1>3. sdom \in [Vertices -> Vertices] /\ Positions \subseteq Nat
  BY <1>1 DEF Shapes, Positions
<1>4. \A k \in Positions : k > 1 => idom[order[k]] = sdom[order[k]]
  <2> SUFFICES ASSUME NEW k \in Positions, k > 1, order[k] \in bucket[sdom[order[k]]]
               PROVE  FALSE
    BY <1>1 DEF Built
  <2>1. PICK j \in Positions : 1 < j /\ j <= 1
    BY <1>1, <1>2, <1>3 DEF Built
  <2> QED BY <1>3, <2>1
<1>5. ASSUME NEW k \in Positions, k > 1
      PROVE  /\ Semi(k, idom[order[k]])
             /\ \E i \in Positions : i < k /\ order[i] = idom[order[k]]
  <2>1. Semi(k, idom[order[k]])
    BY <1>1, <1>4, <1>5 DEF Built
  <2> QED BY <2>1 DEF Semi
<1>6. \A n \in Found : succs[n] \subseteq Found
  <2>1. \A n \in Found : \A f \in 1..Len(stack) : stack[f].block # n
    BY <1>1
  <2> QED BY <1>1, <2>1 DEF Visiting
<1>7. Tree!Reached = Found
  <2>1. order \in Seq(Vertices)
    BY <1>1 DEF Shapes
  <2> QED BY <2>1 DEF Tree!Reached, Tree!Range, Found, Positions
<1> QED BY <1>1, <1>5, <1>6, <1>7 DEF Built

\* A numbering has no more positions than there are blocks.
LEMMA NoMorePositions ==
  ASSUME Shapes, Numbered
  PROVE  Cardinality(Vertices) \in Nat /\ Len(order) <= Cardinality(Vertices)
<1>1. IsFiniteSet(Vertices)
  BY PassesAssumption DEF Tree!EntryAssumption, Tree!IsFiniteSet, IsFiniteSet
<1>2. Cardinality(Vertices) \in Nat
  BY <1>1, FS_CardinalityType
<1>3. Len(order) \in Nat /\ Len(order) \in Int /\ 1 \in Int /\ Len(order) >= 1
  BY DEF Shapes, Numbered
<1>4. order \in Injection(1..Len(order), Vertices)
  <2>1. order \in [1..Len(order) -> Vertices]
    BY DEF Shapes
  <2> QED BY <2>1 DEF Numbered, Positions, Injection, IsInjective
<1>5. Cardinality(1..Len(order)) <= Cardinality(Vertices)
  BY <1>1, <1>4, FS_Injection
<1>6. Cardinality(1..Len(order)) = Len(order)
  <2>1. Cardinality(1..Len(order)) = IF 1 > Len(order) THEN 0 ELSE Len(order) - 1 + 1
    BY <1>3, FS_Interval
  <2> QED BY <1>3, <2>1
<1> QED BY <1>2, <1>5, <1>6

\* The walk of `dominates` takes in what is on the way up the dominator tree:
\* it has as many steps as the function has blocks, and each step leads to a
\* block numbered before.
LEMMA AboveIsWayUp ==
  ASSUME TreeInv, Tree!Fixed, NEW b \in Found
  PROVE  \A a : a \in Tree!Above(b) <=> OnWayUp(idom, a, b)
<1> DEFINE C == Cardinality(Vertices)
           P(up, m) == up = [n \in 0..m |-> IF n = 0 THEN {b}
                                            ELSE up[n - 1] \cup {idom[x] : x \in up[n - 1]}]
           E == {m \in Nat : \E up : P(up, m)}
<1>1. /\ Shapes /\ Numbered
      /\ \A k \in Positions : k > 1 => \E i \in Positions : i < k /\ order[i] = idom[order[k]]
      /\ idom[Entry] = Entry
  BY Settled
<1>2. /\ C \in Nat /\ Len(order) <= C /\ Len(order) \in Nat /\ Positions = 1..Len(order)
      /\ \A k \in Positions : order[k] \in Vertices
      /\ \A i, j \in Positions : order[i] = order[j] => i = j
      /\ order[1] = Entry /\ idom \in [Vertices -> Vertices]
  BY <1>1, NoMorePositions DEF Shapes, Numbered, Positions
<1> HIDE DEF C
<1>3. 0 \in E
  <2>1. P([n \in 0..0 |-> {b}], 0)
    OBVIOUS
  <2> HIDE DEF P
  <2> QED BY <2>1
<1>4. ASSUME NEW m \in Nat, m \in E PROVE m + 1 \in E
  <2>1. PICK up : P(up, m)
    BY <1>4
  <2> DEFINE h == [n \in 0..(m + 1) |-> IF n = 0 THEN {b}
                                        ELSE up[n - 1] \cup {idom[x] : x \in up[n - 1]}]
  <2>2. \A n \in 0..m : h[n] = up[n]
    <3>1. \A n \in 0..m : up[n] = IF n = 0 THEN {b} ELSE up[n - 1] \cup {idom[x] : x \in up[n - 1]}
      BY <2>1
    <3>2. \A n \in 0..m : n \in 0..(m + 1)
      OBVIOUS
    <3> QED BY <3>1, <3>2
  <2>3. P(h, m + 1)
    <3>1. \A n \in 0..(m + 1) : n # 0 => n - 1 \in 0..m
      OBVIOUS
    <3>2. \A n \in 0..(m + 1) : n # 0 => h[n - 1] = up[n - 1]
      BY <2>2, <3>1
    <3>3. \A n \in 0..(m + 1) :
            h[n] = IF n = 0 THEN {b} ELSE up[n - 1] \cup {idom[x] : x \in up[n - 1]}
      OBVIOUS
    <3>4. \A n \in 0..(m + 1) :
            h[n] = IF n = 0 THEN {b} ELSE h[n - 1] \cup {idom[x] : x \in h[n - 1]}
      <4> HIDE DEF h
      <4> QED BY <3>2, <3>3
    <3>5. h = [n \in 0..(m + 1) |-> h[n]]
      OBVIOUS
    <3> HIDE DEF h
    <3> QED BY <3>4, <3>5
  <2> HIDE DEF h, P
  <2> QED BY <2>3
<1>5. C \in E
  <2> HIDE DEF E
  <2> QED BY <1>2, <1>3, <1>4, InductionOnSet
<1>6. P(CHOOSE up : P(up, C), C)
  <2>1. \E up : P(up, C)
    BY <1>5
  <2> HIDE DEF P
  <2> QED BY <2>1, Zenon
<1> DEFINE up == CHOOSE f : P(f, C)
<1>7. Tree!Above(b) = up[C]
  BY DEF Tree!Above, C, Tree!Cardinality, Cardinality
<1>8. /\ up[0] = {b}
      /\ \A n \in 0..C : n # 0 => up[n] = up[n - 1] \cup {idom[x] : x \in up[n - 1]}
  <2>1. P(up, C)
    BY <1>6
  <2> HIDE DEF up
  <2>2. \A n \in 0..C : up[n] = IF n = 0 THEN {b} ELSE up[n - 1] \cup {idom[x] : x \in up[n - 1]}
    BY <2>1
  <2>3. 0 \in 0..C
    BY <1>2
  <2> HIDE DEF P
  <2> QED BY <2>2, <2>3
<1> HIDE DEF up, P, E
<1>9. \A n \in Nat : n + 1 <= C => up[n + 1] = up[n] \cup {idom[x] : x \in up[n]}
  <2> TAKE n \in Nat
  <2> HAVE n + 1 <= C
  <2>1. PICK k \in 0..C : k = n + 1
    BY <1>2
  <2>2. k # 0 /\ k - 1 = n
    BY <2>1
  <2> QED BY <1>8, <2>1, <2>2
<1>10. PICK top \in Positions : b = order[top]
  BY DEF Found
\* Every walk stays in a set that holds b and is closed.
<1>11. ASSUME NEW T, b \in T, \A x \in T : idom[x] \in T PROVE up[C] \subseteq T
  <2> DEFINE S == {n \in Nat : n <= C => up[n] \subseteq T}
  <2>1. 0 \in S
    BY <1>8, <1>11
  <2>2. ASSUME NEW n \in Nat, n \in S PROVE n + 1 \in S
    <3> SUFFICES ASSUME n + 1 <= C PROVE up[n + 1] \subseteq T
      OBVIOUS
    <3>1. up[n] \subseteq T
      BY <1>2, <2>2
    <3> QED BY <1>9, <1>11, <3>1
  <2> HIDE DEF S
  <2>3. C \in S
    BY <1>2, <2>1, <2>2, InductionOnSet
  <2> QED BY <1>2, <2>3 DEF S
\* After n steps, what still leads on is n positions in front of b.
<1> DEFINE Far(x, n) == \E i \in Positions : x = order[i] /\ i + n <= top
           S == {n \in Nat : n <= C => /\ b \in up[n]
                                       /\ \A x \in up[n] : x \in Found
                                       /\ \A x \in up[n] : idom[x] \in up[n] \/ Far(x, n)}
<1>12. 0 \in S
  <2>1. top + 0 <= top
    BY <1>2
  <2> QED BY <1>8, <1>10, <2>1
<1>13. ASSUME NEW n \in Nat, n \in S PROVE n + 1 \in S
  <2> SUFFICES ASSUME n + 1 <= C
               PROVE  /\ b \in up[n + 1]
                      /\ \A x \in up[n + 1] : x \in Found
                      /\ \A x \in up[n + 1] : idom[x] \in up[n + 1] \/ Far(x, n + 1)
    OBVIOUS
  <2>1. /\ b \in up[n]
        /\ \A x \in up[n] : x \in Found
        /\ \A x \in up[n] : idom[x] \in up[n] \/ Far(x, n)
    BY <1>2, <1>13
  <2>2. up[n + 1] = up[n] \cup {idom[x] : x \in up[n]}
    BY <1>9
  <2>3. \A x \in Found : idom[x] \in Found
    <3> TAKE x \in Found
    <3>1. PICK k \in Positions : x = order[k]
      BY DEF Found
    <3>2. CASE k = 1
      BY <1>1, <1>2, <3>1, <3>2
    <3>3. CASE k # 1
      <4>1. k > 1
        BY <1>2, <3>3
      <4> QED BY <1>1, <3>1, <4>1 DEF Found
    <3> QED BY <3>2, <3>3
  <2>4. ASSUME NEW x \in up[n + 1], x \notin up[n] PROVE Far(x, n + 1)
    <3>1. PICK y \in up[n] : x = idom[y]
      BY <2>2, <2>4
    <3>2. PICK j \in Positions : y = order[j] /\ j + n <= top
      BY <2>1, <2>4, <3>1
    <3>3. j # 1
      BY <1>1, <1>2, <2>4, <3>1, <3>2
    <3>4. PICK i \in Positions : i < j /\ order[i] = idom[order[j]]
      <4>1. j > 1
        BY <1>2, <3>3
      <4> QED BY <1>1, <4>1
    <3>5. i + (n + 1) <= top
      BY <1>2, <3>2, <3>4
    <3> QED BY <3>1, <3>2, <3>4, <3>5
  <2> HIDE DEF Far
  <2> QED BY <2>1, <2>2, <2>3, <2>4
<1>14. C \in S
  <2> HIDE DEF S
  <2> QED BY <1>2, <1>12, <1>13, InductionOnSet
<1>15. /\ b \in up[C] /\ up[C] \subseteq Found
       /\ \A x \in up[C] : idom[x] \in up[C]
  <2>1. \A x : ~Far(x, C)
    BY <1>2, <1>10
  <2> HIDE DEF Far
  <2> QED BY <1>2, <1>14, <2>1
<1>16. up[C] \in SUBSET Vertices
  <2>1. Found \subseteq Vertices
    BY <1>2 DEF Found
  <2> QED BY <1>15, <2>1
<1>17. \A a : OnWayUp(idom, a, b) => a \in up[C]
  BY <1>15, <1>16 DEF OnWayUp, UpClosed
<1>18. \A a : a \in up[C] => OnWayUp(idom, a, b)
  BY <1>11 DEF OnWayUp, UpClosed
<1> QED BY <1>7, <1>17, <1>18

LEMMA TreeInvTypes == TreeInv => Tree!TypeOK
<1> SUFFICES ASSUME TreeInv PROVE Tree!TypeOK
  OBVIOUS
<1>1. Shapes /\ Numbered
  BY DEF TreeInv
<1>2. /\ Cardinality(Vertices) \in Nat /\ Len(order) <= Cardinality(Vertices)
      /\ Tree!Cardinality(Vertices) = Cardinality(Vertices)
  BY <1>1, NoMorePositions DEF Tree!Cardinality, Cardinality
<1>3. order \in Seq(Vertices) /\ Len(order) \in Nat
  BY <1>1 DEF Shapes
<1>4. todo \in -1..Tree!Cardinality(Vertices)
  <2>1. todo \in -1..Len(order)
    BY <1>1 DEF Shapes
  <2> QED BY <1>2, <1>3, <2>1
<1>5. Tree!IsInjective(order)
  <2>1. \A i, j \in 1..Len(order) : order[i] = order[j] => i = j
    BY <1>1 DEF Numbered, Positions
  <2> QED BY <1>3, <2>1 DEF Tree!IsInjective
<1>6. Tree!Reached \subseteq Vertices
  BY <1>3 DEF Tree!Reached, Tree!Range
<1>7. /\ succs \in AllGraphs /\ stack \in Seq([block : Vertices, left : SUBSET Vertices])
      /\ {dfsParent, sdom, idom, linked} \subseteq [Vertices -> Vertices]
      /\ bucket \in [Vertices -> SUBSET Vertices]
  BY <1>1 DEF Shapes, AllGraphs
<1> QED BY <1>4, <1>5, <1>6, <1>7 DEF Tree!TypeOK

\* The dominator tree leads up to the entry, never leaves the numbered blocks
\* and never back to the block it was followed from.
LEMMA WayToEntry ==
  ASSUME TreeInv, Tree!Fixed, NEW b \in Found
  PROVE  /\ OnWayUp(idom, Entry, b)
         /\ \A a : OnWayUp(idom, a, b) => a \in Found
         /\ b # Entry => ~OnWayUp(idom, b, idom[b])
         /\ idom[b] \in Found
         /\ \A a : OnWayUp(idom, a, idom[b]) => OnWayUp(idom, a, b)
         /\ \A a : OnWayUp(idom, a, b) /\ a # b => OnWayUp(idom, a, idom[b])
         /\ OnWayUp(idom, b, b)
<1>1. /\ Shapes /\ Numbered /\ Found \subseteq Vertices
      /\ \A k \in Positions : k > 1 => \E i \in Positions : i < k /\ order[i] = idom[order[k]]
      /\ idom[Entry] = Entry /\ order[1] = Entry
      /\ Positions = 1..Len(order) /\ Len(order) \in Nat /\ idom \in [Vertices -> Vertices]
  <2>1. /\ Shapes /\ Numbered /\ idom[Entry] = Entry
        /\ \A k \in Positions : k > 1 => \E i \in Positions : i < k /\ order[i] = idom[order[k]]
    BY Settled
  <2>2. /\ order \in Seq(Vertices) /\ idom \in [Vertices -> Vertices] /\ order[1] = Entry
        /\ Len(order) \in Nat
    BY <2>1 DEF Shapes, Numbered
  <2>3. Found \subseteq Vertices /\ Positions = 1..Len(order)
    BY <2>2 DEF Found, Positions
  <2> QED BY <2>1, <2>2, <2>3
<1>2. PICK top \in Positions : b = order[top]
  BY DEF Found
<1>3. ASSUME NEW k \in Positions
      PROVE  \E i \in Positions : i <= k /\ order[i] = idom[order[k]] /\ (k > 1 => i < k)
  <2>1. CASE k = 1
    BY <1>1, <2>1
  <2>2. CASE k # 1
    <3>1. k > 1
      BY <1>1, <2>2
    <3>2. PICK i \in Positions : i < k /\ order[i] = idom[order[k]]
      BY <1>1, <3>1
    <3> QED BY <1>1, <3>1, <3>2
  <2> QED BY <2>1, <2>2
<1>4. OnWayUp(idom, Entry, b)
  <2> SUFFICES ASSUME NEW S \in SUBSET Vertices, b \in S, UpClosed(idom, S)
               PROVE  Entry \in S
    BY DEF OnWayUp
  <2> DEFINE N == {k \in Positions : order[k] \in S}
  <2>1. PICK k \in N : \A m \in N : k <= m
    <3>1. N # {} /\ N \in SUBSET Nat
      BY <1>1, <1>2
    <3> HIDE DEF N
    <3> QED BY <3>1, LeastElement
  <2>2. PICK i \in Positions : order[i] = idom[order[k]] /\ (k > 1 => i < k)
    BY <1>3
  <2>3. i \in N
    BY <2>2 DEF UpClosed
  <2>4. k = 1
    BY <1>1, <2>1, <2>2, <2>3
  <2> QED BY <1>1, <2>4
<1>5. UpClosed(idom, Found) /\ idom[b] \in Found
  BY <1>2, <1>3 DEF UpClosed, Found
<1>6. \A a : OnWayUp(idom, a, b) => a \in Found
  BY <1>1, <1>5 DEF OnWayUp
<1>7. b # Entry => ~OnWayUp(idom, b, idom[b])
  <2> SUFFICES ASSUME b # Entry PROVE ~OnWayUp(idom, b, idom[b])
    OBVIOUS
  <2> DEFINE S == {order[i] : i \in {h \in Positions : h < top}}
  <2>1. top > 1
    BY <1>1, <1>2
  <2>2. idom[b] \in S
    BY <1>2, <1>3, <2>1
  <2>3. S \in SUBSET Vertices
    BY <1>1 DEF Found
  <2>4. UpClosed(idom, S)
    <3>1. ASSUME NEW k \in Positions, k < top PROVE idom[order[k]] \in S
      <4>1. PICK i \in Positions : i <= k /\ order[i] = idom[order[k]]
        BY <1>3
      <4>2. i < top
        BY <1>1, <3>1, <4>1
      <4> QED BY <4>1, <4>2
    <3> QED BY <3>1 DEF UpClosed
  <2>5. b \notin S
    BY <1>1, <1>2 DEF Numbered
  <2> HIDE DEF S
  <2> QED BY <2>2, <2>3, <2>4, <2>5 DEF OnWayUp
<1>8. b \in Vertices
  BY <1>1
<1>9. /\ \A a : OnWayUp(idom, a, idom[b]) => OnWayUp(idom, a, b)
      /\ \A a : OnWayUp(idom, a, b) /\ a # b => OnWayUp(idom, a, idom[b])
      /\ OnWayUp(idom, b, b)
  BY <1>1, <1>8, WayUp
<1> QED BY <1>4, <1>5, <1>6, <1>7, <1>9

LEMMA TreeInvSpans == TreeInv => Tree!TreeSpans
<1> SUFFICES ASSUME TreeInv, Tree!Fixed PROVE Tree!TreeSpans
  BY DEF Tree!TreeSpans
<1> SUFFICES /\ \A n \in Found : Entry \in Tree!Above(n) /\ Tree!Above(n) \subseteq Found
             /\ \A n \in Found \ {Entry} : n \notin Tree!Above(idom[n])
             /\ \A n \in Vertices : n \in Found <=>
                  \A S \in SUBSET Vertices :
                    (Entry \in S /\ \A m \in S : succs[m] \subseteq S) => n \in S
  <2>1. Tree!Reached = Found
    BY Settled
  <2> QED BY <2>1 DEF Tree!TreeSpans
<1>1. /\ Shapes /\ Numbered /\ Found \subseteq Vertices
      /\ \A n \in Found : succs[n] \subseteq Found
      /\ order[1] = Entry /\ 1 \in Positions /\ Positions \subseteq Nat
  <2>1. Shapes /\ Numbered /\ \A n \in Found : succs[n] \subseteq Found
    BY Settled
  <2>2. order \in Seq(Vertices) /\ order[1] = Entry /\ Len(order) \in Nat /\ Len(order) >= 1
    BY <2>1 DEF Shapes, Numbered
  <2>3. Found \subseteq Vertices /\ 1 \in Positions /\ Positions \subseteq Nat
    BY <2>2 DEF Found, Positions
  <2> QED BY <2>1, <2>2, <2>3
<1>2. ASSUME NEW n \in Found
      PROVE  Entry \in Tree!Above(n) /\ Tree!Above(n) \subseteq Found
  <2>1. \A a : a \in Tree!Above(n) <=> OnWayUp(idom, a, n)
    BY AboveIsWayUp
  <2> QED BY <2>1, WayToEntry
<1>3. ASSUME NEW n \in Found \ {Entry}
      PROVE  n \notin Tree!Above(idom[n])
  <2>1. idom[n] \in Found /\ ~OnWayUp(idom, n, idom[n])
    BY WayToEntry
  <2> QED BY <2>1, AboveIsWayUp
<1>4. ASSUME NEW S \in SUBSET Vertices, Entry \in S, \A m \in S : succs[m] \subseteq S
      PROVE  Found \subseteq S
  <2> DEFINE N == {k \in Positions : order[k] \notin S}
  <2> SUFFICES ASSUME N # {} PROVE FALSE
    BY DEF Found
  <2>1. PICK k \in N : \A m \in N : k <= m
    <3>1. N \in SUBSET Nat
      BY <1>1
    <3> HIDE DEF N
    <3> QED BY <3>1, LeastElement
  <2>2. k # 1 /\ k \in Positions
    BY <1>1, <1>4
  <2>3. k > 1
    BY <1>1, <2>2 DEF Positions
  <2>4. PICK i \in Positions : i < k /\ order[k] \in succs[order[i]]
    BY <1>1, <2>2, <2>3 DEF Numbered
  <2>5. i \notin N
    BY <1>1, <2>1, <2>2, <2>4
  <2> QED BY <1>4, <2>1, <2>4, <2>5
<1>5. Entry \in Found /\ Found \in SUBSET Vertices
  BY <1>1 DEF Found
<1> QED BY <1>1, <1>2, <1>3, <1>4, <1>5

\* In the depth-first tree, and so in the dominator tree, a block that cannot
\* be bypassed is above every block it cuts off.
LEMMA TreeInvDominance == TreeInv => Tree!NoDominanceLost
<1> SUFFICES ASSUME TreeInv, Tree!Fixed PROVE Tree!NoDominanceLost
  BY DEF Tree!NoDominanceLost
<1> SUFFICES ASSUME NEW a \in Found, NEW b \in Found,
                    Tree!TrulyDominates(a, b), a # Entry
             PROVE  a \in Tree!Above(b)
  <2>1. Tree!Reached = Found
    BY Settled
  <2> QED BY <2>1 DEF Tree!NoDominanceLost, Tree!Dominates
<1>1. /\ Shapes /\ Numbered
      /\ \A k \in Positions : k > 1 => Semi(k, idom[order[k]])
  BY Settled
<1>2. /\ Positions = 1..Len(order) /\ Positions \subseteq Nat /\ Len(order) \in Nat
      /\ \A k \in Positions : order[k] \in Vertices /\ order[k] \in Found
      /\ order[1] = Entry /\ dfsParent \in [Vertices -> Vertices]
  BY <1>1 DEF Shapes, Numbered, Positions, Found
<1>3. PICK S \in SUBSET (Vertices \ {a}) :
        Entry \in S /\ (\A n \in S : succs[n] \ {a} \subseteq S) /\ b \notin S
  BY DEF Tree!TrulyDominates, Tree!Bypassing
<1>4. a \notin S
  BY <1>3
<1>5. PICK ka \in Positions : a = order[ka]
  BY DEF Found
<1>6. ASSUME NEW k \in Positions, order[k] \notin S PROVE Anc(a, order[k])
  <2> DEFINE N == {m \in Positions : order[m] \notin S /\ ~Anc(a, order[m])}
  <2> SUFFICES ASSUME N # {} PROVE FALSE
    BY <1>6
  <2>1. PICK m \in N : \A h \in N : m <= h
    <3>1. N \in SUBSET Nat
      BY <1>2
    <3> HIDE DEF N
    <3> QED BY <3>1, LeastElement
  <2>2. m \in Positions /\ m > 1
    BY <1>2, <1>3, <2>1
  <2>3. PICK i \in Positions : /\ i < m /\ order[i] = dfsParent[order[m]]
                               /\ order[m] \in succs[order[i]]
    BY <1>1, <2>2 DEF Numbered
  <2>4. order[m] # a
    <3>1. OnWayUp(dfsParent, order[m], order[m])
      BY <1>2, <2>2, WayUp
    <3> QED BY <2>1, <3>1 DEF Anc
  <2>5. order[i] \notin S
    BY <1>3, <2>1, <2>3, <2>4
  <2>6. i \notin N
    BY <1>2, <2>1, <2>2, <2>3
  <2>7. Anc(a, dfsParent[order[m]])
    BY <2>3, <2>5, <2>6
  <2>8. OnWayUp(dfsParent, a, order[m])
    BY <1>2, <2>2, <2>7, WayUp DEF Anc
  <2> QED BY <2>1, <2>8 DEF Anc
\* From a block below a that S holds, the tree stays in S.
<1>7. ASSUME NEW d \in Vertices, d \in S, Anc(a, d), NEW k \in Positions, Anc(d, order[k])
      PROVE  order[k] \in S
  <2> DEFINE N == {m \in Positions : order[m] \notin S /\ Anc(d, order[m])}
  <2> SUFFICES ASSUME N # {} PROVE FALSE
    BY <1>7
  <2>1. PICK m \in N : \A h \in N : m <= h
    <3>1. N \in SUBSET Nat
      BY <1>2
    <3> HIDE DEF N
    <3> QED BY <3>1, LeastElement
  <2>2. m \in Positions /\ order[m] \notin S /\ Anc(d, order[m]) /\ order[m] # d
        /\ order[m] \in Vertices
    BY <1>2, <1>7, <2>1
  <2>3. order[m] # a
    <3> SUFFICES ASSUME order[m] = a PROVE FALSE
      OBVIOUS
    <3>1. PICK kd \in Positions : kd <= m /\ d = order[kd]
      BY <1>1, <2>2, WayUpNumbered
    <3>2. ka <= kd
      BY <1>1, <1>5, <1>7, <3>1, AboveIsBefore
    <3>3. m = ka
      BY <1>1, <1>5, <2>2 DEF Numbered
    <3>4. kd = ka
      BY <1>2, <3>1, <3>2, <3>3
    <3> QED BY <1>4, <1>5, <1>7, <3>1, <3>4
  <2>4. Anc(d, dfsParent[order[m]])
    BY <1>2, <2>2, WayUp DEF Anc
  <2>5. m > 1
    BY <1>2, <1>3, <2>2
  <2>6. PICK i \in Positions : /\ i < m /\ order[i] = dfsParent[order[m]]
                               /\ order[m] \in succs[order[i]]
    BY <1>1, <2>2, <2>5 DEF Numbered
  <2>7. i \notin N
    BY <1>2, <2>1, <2>2, <2>6
  <2>8. order[i] \in S
    BY <2>4, <2>6, <2>7
  <2> QED BY <1>3, <2>2, <2>3, <2>6, <2>8
<1>8. ASSUME NEW k \in Positions, order[k] \notin S PROVE OnWayUp(idom, a, order[k])
  <2> DEFINE N == {m \in Positions : order[m] \notin S /\ ~OnWayUp(idom, a, order[m])}
  <2> SUFFICES ASSUME N # {} PROVE FALSE
    BY <1>8
  <2>1. PICK m \in N : \A h \in N : m <= h
    <3>1. N \in SUBSET Nat
      BY <1>2
    <3> HIDE DEF N
    <3> QED BY <3>1, LeastElement
  <2>2. m \in Positions /\ m > 1 /\ order[m] \in Vertices /\ order[m] \in Found
    BY <1>2, <1>3, <2>1
  <2>3. PICK d : d = idom[order[m]]
    OBVIOUS
  <2>4. Semi(m, d)
    BY <1>1, <2>2, <2>3
  <2>5. PICK i \in Positions : i < m /\ order[i] = d
    BY <2>4 DEF Semi
  <2>6. PICK p \in Found : order[m] \in succs[p] /\ Nearest(d, p, m)
    BY <2>4 DEF Semi
  <2>7. Anc(d, order[m]) /\ d # order[m] /\ d \in Vertices
    BY <1>1, <2>2, <2>4, SemiAbove
  <2>8. order[m] # a
    BY <2>1, <2>2, WayToEntry
  <2>9. p \notin S
    BY <1>3, <2>1, <2>6, <2>8
  <2>10. Anc(a, p) /\ Anc(a, order[m])
    <3>1. PICK j \in Positions : p = order[j]
      BY DEF Found
    <3> QED BY <1>6, <2>1, <2>2, <2>9, <3>1
  <2>11. ka < m
    <3>1. ka <= m
      BY <1>1, <1>5, <2>2, <2>10, AboveIsBefore
    <3> QED BY <1>2, <1>5, <2>2, <2>8, <3>1
  <2>12. Anc(a, d)
    BY <1>5, <2>6, <2>10, <2>11 DEF Nearest
  <2>13. d \notin S
    BY <1>7, <2>1, <2>2, <2>7, <2>12
  <2>14. i \notin N
    BY <1>2, <2>1, <2>2, <2>5
  <2>15. OnWayUp(idom, a, d)
    BY <2>5, <2>13, <2>14
  <2> QED BY <2>1, <2>2, <2>3, <2>15, WayToEntry
<1>9. OnWayUp(idom, a, b)
  <2>1. PICK k \in Positions : b = order[k]
    BY DEF Found
  <2> QED BY <1>3, <1>8, <2>1
<1> QED BY <1>9, AboveIsWayUp

LEMMA AtMostOne ==
  ASSUME NEW S, IsFiniteSet(S), ~(Cardinality(S) >= 2), NEW x \in S, NEW y \in S
  PROVE  x = y
<1> SUFFICES ASSUME x # y PROVE FALSE
  OBVIOUS
<1>1. IsFiniteSet({x}) /\ Cardinality({x}) = 1
  BY FS_Singleton
<1>2. Cardinality({x} \cup {y}) = 2
  BY <1>1, FS_AddElement
<1>3. {x} \cup {y} \in SUBSET S
  OBVIOUS
<1>4. Cardinality({x} \cup {y}) <= Cardinality(S)
  BY <1>3, FS_Subset
<1>5. Cardinality(S) \in Nat
  BY FS_CardinalityType
<1> QED BY <1>2, <1>4, <1>5

\* A block that one block leads to has that one as its idom: build_dom_frontier
\* may leave it out.
LEMMA OneWayIn ==
  ASSUME TreeInv, Tree!Fixed, NEW b \in Found, b # Entry,
         NEW p \in Found, \A q \in Vertices : b \in succs[q] => q = p
  PROVE  idom[b] = p
<1>1. /\ Shapes /\ Numbered
      /\ \A k \in Positions : k > 1 => Semi(k, idom[order[k]])
  BY Settled
<1>2. /\ Positions = 1..Len(order) /\ Positions \subseteq Nat /\ Len(order) \in Nat
      /\ \A k \in Positions : order[k] \in Vertices
      /\ order[1] = Entry
  BY <1>1 DEF Shapes, Numbered, Positions
<1>3. PICK k \in Positions : b = order[k]
  BY DEF Found
<1>4. k > 1
  BY <1>2, <1>3
<1>5. PICK i \in Positions : i < k /\ order[k] \in succs[order[i]]
  BY <1>1, <1>4 DEF Numbered
<1>6. order[i] = p
  BY <1>2, <1>3, <1>5
<1>7. Semi(k, idom[b])
  BY <1>1, <1>3, <1>4
<1>8. PICK h \in Positions : h < k /\ order[h] = idom[b]
  BY <1>7 DEF Semi
<1>9. PICK q \in Found : order[k] \in succs[q] /\ Nearest(idom[b], q, k)
  BY <1>7 DEF Semi
<1>10. q = p
  <2>1. q \in Vertices
    BY <1>2, <1>9 DEF Found
  <2> QED BY <1>3, <1>9, <2>1
<1>11. Anc(order[h], order[i])
  BY <1>6, <1>8, <1>9, <1>10 DEF Nearest
<1>12. Anc(order[i], order[i])
  BY <1>1, <1>2, WayUp DEF Anc, Shapes
<1>13. Anc(order[i], order[h])
  BY <1>5, <1>6, <1>8, <1>9, <1>10, <1>12 DEF Nearest
<1>14. h <= i /\ i <= h
  BY <1>1, <1>11, <1>13, AboveIsBefore
<1>15. h = i
  BY <1>2, <1>14
<1> QED BY <1>6, <1>8, <1>15

LEMMA TreeInvFrontier == TreeInv => Tree!FrontierExact
<1> SUFFICES ASSUME TreeInv, Tree!Fixed PROVE Tree!FrontierExact
  BY DEF Tree!FrontierExact
<1>1. /\ Shapes /\ Numbered /\ Tree!Reached = Found
  BY Settled
<1>2. /\ \A b \in Vertices : preds[b] = {p \in Vertices : b \in succs[p]}
      /\ succs \in [Vertices -> SUBSET (Vertices \ {Entry})]
      /\ IsFiniteSet(Vertices)
  <2>1. IsFiniteSet(Vertices)
    BY PassesAssumption DEF Tree!EntryAssumption, Tree!IsFiniteSet, IsFiniteSet
  <2> QED BY <1>1, <2>1 DEF Shapes
<1>3. Found \subseteq Vertices
  BY <1>1 DEF Shapes, Found, Positions
<1>4. ASSUME NEW a \in Found, NEW b \in Found, NEW p \in preds[b] \cap Found, a \in Tree!Above(p)
      PROVE  (Tree!Cardinality(preds[b]) >= 2 /\ a \notin Tree!Above(idom[b]))
               <=> ~(a \in Tree!Above(b) /\ a # b)
  <2>1. b # Entry /\ b \in succs[p] /\ p \in Vertices /\ b \in Vertices
    BY <1>2, <1>3, <1>4
  <2>2. idom[b] \in Found /\ ~OnWayUp(idom, b, idom[b])
        /\ (\A x : OnWayUp(idom, x, idom[b]) => OnWayUp(idom, x, b))
        /\ (\A x : OnWayUp(idom, x, b) /\ x # b => OnWayUp(idom, x, idom[b]))
    BY <2>1, WayToEntry
  <2>3. /\ \A x : x \in Tree!Above(b) <=> OnWayUp(idom, x, b)
        /\ \A x : x \in Tree!Above(idom[b]) <=> OnWayUp(idom, x, idom[b])
    BY <2>2, AboveIsWayUp
  <2>4. a \in Tree!Above(idom[b]) <=> a \in Tree!Above(b) /\ a # b
    BY <2>2, <2>3
  <2>5. ASSUME ~(Tree!Cardinality(preds[b]) >= 2) PROVE a \in Tree!Above(idom[b])
    <3>1. IsFiniteSet(preds[b])
      <4>1. preds[b] \in SUBSET Vertices
        BY <1>2, <2>1
      <4> QED BY <1>2, <4>1, FS_Subset
    <3>2. ~(Cardinality(preds[b]) >= 2)
      BY <2>5 DEF Tree!Cardinality, Cardinality
    <3>3. \A q \in preds[b] : q = p
      BY <1>4, <3>1, <3>2, AtMostOne
    <3>4. \A q \in Vertices : b \in succs[q] => q = p
      BY <1>2, <2>1, <3>3
    <3>5. idom[b] = p
      BY <1>4, <2>1, <3>4, OneWayIn
    <3> QED BY <1>4, <3>5
  <2> QED BY <2>4, <2>5
<1> DEFINE defined(a) == {b \in Found : /\ \E p \in preds[b] \cap Found : a \in Tree!Above(p)
                                        /\ ~(a \in Tree!Above(b) /\ a # b)}
<1>5. \A a : Tree!Frontier(a) =
        {b \in Found : /\ Tree!Cardinality(preds[b]) >= 2
                       /\ \E p \in preds[b] \cap Found : a \in Tree!Climb(p, idom[b])}
  BY <1>1 DEF Tree!Frontier
<1>6. ASSUME NEW a \in Found, NEW b \in defined(a) PROVE b \in Tree!Frontier(a)
  <2>1. PICK p \in preds[b] \cap Found : a \in Tree!Above(p) /\ b \in Found
    OBVIOUS
  <2>2. Tree!Cardinality(preds[b]) >= 2 /\ a \notin Tree!Above(idom[b])
    BY <1>4, <2>1
  <2>3. a \in Tree!Climb(p, idom[b])
    BY <2>1, <2>2 DEF Tree!Climb
  <2> QED BY <1>5, <2>1, <2>2, <2>3
<1>7. ASSUME NEW a \in Found, NEW b \in Tree!Frontier(a), b \notin defined(a)
      PROVE  ~Tree!TrulyDominates(idom[b], b)
  <2>1. PICK p \in preds[b] \cap Found : /\ Tree!Cardinality(preds[b]) >= 2 /\ b \in Found
                                          /\ a \in Tree!Climb(p, idom[b])
    BY <1>5
  <2>2. a \in Tree!Above(p)
    BY <2>1 DEF Tree!Climb
  <2>3. idom[b] \notin Tree!Above(p)
    <3> SUFFICES ASSUME idom[b] \in Tree!Above(p) PROVE FALSE
      OBVIOUS
    <3>1. a \notin Tree!Above(idom[b])
      BY <2>1 DEF Tree!Climb
    <3> QED BY <1>4, <1>7, <2>1, <2>2, <3>1
  <2>4. b # Entry /\ b \in succs[p] /\ p \in Vertices /\ b \in Vertices
    BY <1>2, <1>3, <2>1
  <2>5. idom[b] \in Found /\ idom[b] # b
    <3>1. idom[b] \in Found /\ ~OnWayUp(idom, b, idom[b])
      BY <2>1, <2>4, WayToEntry
    <3>2. idom \in [Vertices -> Vertices]
      BY <1>1 DEF Shapes
    <3>3. OnWayUp(idom, idom[b], idom[b])
      BY <1>3, <3>1, <3>2, WayUp
    <3> QED BY <3>1, <3>3
  <2>6. idom[b] # Entry
    BY <1>1, <2>1, <2>3, TreeInvSpans DEF Tree!TreeSpans
  <2>7. ~Tree!Dominates(idom[b], p)
    BY <2>3, <2>6 DEF Tree!Dominates
  <2>8. ~Tree!TrulyDominates(idom[b], p)
    BY <1>1, <2>1, <2>5, <2>7, TreeInvDominance DEF Tree!NoDominanceLost
  <2>9. ASSUME NEW S \in Tree!Bypassing(idom[b]) PROVE b \in S
    <3>1. p \in S
      BY <2>8, <2>9 DEF Tree!TrulyDominates
    <3> QED BY <2>4, <2>5, <3>1 DEF Tree!Bypassing
  <2> QED BY <2>6, <2>9 DEF Tree!TrulyDominates
<1> HIDE DEF defined
<1>8. \A a \in Found : /\ defined(a) \subseteq Tree!Frontier(a)
                       /\ \A b \in Tree!Frontier(a) \ defined(a) : ~Tree!TrulyDominates(idom[b], b)
  BY <1>6, <1>7
<1> USE DEF defined
<1> QED BY <1>1, <1>8 DEF Tree!FrontierExact

-----------------------------------------------------------------------------
\* The tree keeps its invariant, and the two passes never become the third.
TreePassInv == pass = "tree" => TreeInv

LEMMA TreePassInvariant == PassSpec => []TreePassInv
<1>1. PassInit => TreePassInv
  BY TreeInit DEF PassInit, TreePassInv
<1>2. TreePassInv /\ [PassNext]_allVars => TreePassInv'
  <2> SUFFICES ASSUME TreePassInv, [PassNext]_allVars, pass' = "tree" PROVE TreeInv'
    BY DEF TreePassInv
  <2>1. pass = "tree" /\ (Tree!Next \/ UNCHANGED treeVars)
    BY DEF PassNext, allVars
  <2> QED BY <2>1, TreeStep DEF TreePassInv
<1> QED BY <1>1, <1>2, PTL DEF PassSpec

\* For any finite set of blocks and any graph on them, whichever order the walk
\* takes the successors in: the dominator tree hangs together below the entry,
\* over exactly the blocks the entry reaches, and no way up it returns
\* (build_dfn, build_dom_tree).
THEOREM TreeIsSpanning == PassSpec => []TreeSpans
<1>1. TreePassInv => TreeSpans
  BY TreeInvTypes, TreeInvSpans DEF TreePassInv, TreeSpans
<1> QED BY <1>1, TreePassInvariant, PTL

\* No dominance is lost: a block that cannot be bypassed on the way to another
\* is above it in the tree (build_dom_tree, dominates).
THEOREM DominanceIsFound == PassSpec => []NoDominanceLost
<1>1. TreePassInv => NoDominanceLost
  BY TreeInvDominance DEF TreePassInv, NoDominanceLost
<1> QED BY <1>1, TreePassInvariant, PTL

\* The runners of the frontier collect what its definition says of the tree that
\* was built: a block with one predecessor may be left out, because that
\* predecessor is its idom.  They collect more only for a block whose idom does not
\* dominate it: the runner from some predecessor misses it (build_dom_frontier).
THEOREM FrontiersAreExact == PassSpec => []FrontierExact
<1>1. TreePassInv => FrontierExact
  BY TreeInvFrontier DEF TreePassInv, FrontierExact
<1> QED BY <1>1, TreePassInvariant, PTL

-----------------------------------------------------------------------------
\* mem2reg.  The tree it works on is the one above, on fewer graphs.
LEMMA SameTree ==
  /\ Mem!Tree!Init => Tree!Init
  /\ Mem!Tree!Next => Tree!Next
  /\ Mem!Tree!Fixed <=> Tree!Fixed
  /\ Mem!Tree!Reached = Tree!Reached
<1>1. Mem!Tree!Init => Tree!Init
  BY DEF Mem!Tree!Init, Tree!Init, Branching, Mem!Tree!Identity, Tree!Identity
<1>2. Mem!Tree!Reached = Tree!Reached
  BY DEF Mem!Tree!Reached, Tree!Reached, Mem!Tree!Range, Tree!Range
<1>3. Mem!Tree!Fixed <=> Tree!Fixed
  BY DEF Mem!Tree!Fixed, Tree!Fixed
<1>4. ASSUME NEW s \in Vertices, Mem!Tree!Visit(s) PROVE Tree!Visit(s)
  BY <1>2, <1>4 DEF Mem!Tree!Visit, Tree!Visit, Mem!Tree!Walked, Tree!Walked, Mem!Tree!Top, Tree!Top,
     Mem!Tree!Front, Tree!Front, Mem!Tree!cfg, Tree!cfg
<1>5. Mem!Tree!Leave => Tree!Leave
  BY DEF Mem!Tree!Leave, Tree!Leave, Mem!Tree!Walked, Tree!Walked, Mem!Tree!Top, Tree!Top,
     Mem!Tree!Front, Tree!Front, Mem!Tree!cfg, Tree!cfg
<1>6. Mem!Tree!ProcessNode => Tree!ProcessNode
  <2>1. \A link, v : Mem!Tree!Find(link, v) = Tree!Find(link, v)
    BY DEF Mem!Tree!Find, Tree!Find
  <2>2. \A n : Mem!Tree!Dfn(n) = Tree!Dfn(n)
    BY DEF Mem!Tree!Dfn, Tree!Dfn
  <2> QED BY <1>2 DEF Mem!Tree!ProcessNode, Tree!ProcessNode, Mem!Tree!Walked, Tree!Walked,
     Mem!Tree!cfg, Tree!cfg, Mem!Tree!Find, Tree!Find, Mem!Tree!Dfn, Tree!Dfn,
     Mem!Tree!Reached, Tree!Reached, Mem!Tree!Range, Tree!Range
<1>7. Mem!Tree!Fixup => Tree!Fixup
  <2>1. Mem!Tree!Resolved = Tree!Resolved
    BY DEF Mem!Tree!Resolved, Tree!Resolved
  <2> QED BY <2>1 DEF Mem!Tree!Fixup, Tree!Fixup, Mem!Tree!TreeBuilt, Tree!TreeBuilt,
     Mem!Tree!Walked, Tree!Walked, Mem!Tree!cfg, Tree!cfg
<1>8. UNCHANGED Mem!Tree!vars => UNCHANGED Tree!vars
  BY DEF Mem!Tree!vars, Tree!vars, Mem!Tree!cfg, Tree!cfg
<1>9. Mem!Tree!Next => Tree!Next
  BY <1>3, <1>4, <1>5, <1>6, <1>7, <1>8 DEF Mem!Tree!Next, Tree!Next
<1> QED BY <1>1, <1>2, <1>3, <1>9

\* Two trees that agree below the root have the same ways up.
LEMMA WaySame ==
  ASSUME NEW R \in SUBSET Vertices, NEW up, NEW new,
         \A n \in R : new[n] = up[n] /\ up[n] \in R, NEW b \in R
  PROVE  \A a : OnWayUp(new, a, b) <=> OnWayUp(up, a, b)
<1>1. ASSUME NEW S \in SUBSET Vertices, b \in S
      PROVE  /\ S \cap R \in SUBSET Vertices /\ b \in S \cap R
             /\ UpClosed(up, S) => UpClosed(new, S \cap R)
             /\ UpClosed(new, S) => UpClosed(up, S \cap R)
  BY <1>1 DEF UpClosed
<1>2. \A a : OnWayUp(new, a, b) => OnWayUp(up, a, b)
  BY <1>1 DEF OnWayUp
<1>3. \A a : OnWayUp(up, a, b) => OnWayUp(new, a, b)
  BY <1>1 DEF OnWayUp
<1> QED BY <1>2, <1>3

\* What is above one block is on one path.
LEMMA WayIsLinear ==
  ASSUME NEW up \in [Vertices -> Vertices], NEW n \in Vertices, NEW d \in Vertices, NEW a,
         OnWayUp(up, a, n), OnWayUp(up, d, n)
  PROVE  OnWayUp(up, a, d) \/ OnWayUp(up, d, a)
<1> DEFINE S == {m \in Vertices : OnWayUp(up, d, m) \/ OnWayUp(up, m, d)}
<1>1. ASSUME NEW m \in Vertices, OnWayUp(up, d, m) PROVE up[m] \in S
  <2>1. CASE m = d
    <3>1. OnWayUp(up, up[d], up[d])
      BY WayUp
    <3>2. OnWayUp(up, up[d], d)
      BY <3>1, WayUp
    <3> QED BY <2>1, <3>2
  <2>2. CASE m # d
    <3>1. OnWayUp(up, d, up[m])
      BY <1>1, <2>2, WayUp
    <3> QED BY <3>1
  <2> QED BY <2>1, <2>2
<1>2. ASSUME NEW m \in Vertices, OnWayUp(up, m, d) PROVE up[m] \in S
  <2>1. OnWayUp(up, up[m], up[m])
    BY WayUp
  <2>2. OnWayUp(up, up[m], m)
    BY <2>1, WayUp
  <2>3. OnWayUp(up, up[m], d)
    BY <1>2, <2>2, WayUp
  <2> QED BY <2>3
<1>3. S \in SUBSET Vertices /\ n \in S /\ UpClosed(up, S)
  BY <1>1, <1>2 DEF UpClosed
<1>4. a \in S
  BY <1>3 DEF OnWayUp
<1> QED BY <1>4

\* The dominator tree mem2reg keeps, completed over the blocks not reached.
Up == [n \in Vertices |-> IF n \in DOMAIN tree THEN tree[n] ELSE n]

TreeKept ==
  /\ Entry \in DOMAIN tree /\ DOMAIN tree \subseteq Vertices /\ tree[Entry] = Entry
  /\ \A n \in DOMAIN tree : tree[n] \in DOMAIN tree /\ OnWayUp(Up, Entry, n)
  /\ \A n \in DOMAIN tree \ {Entry} : ~OnWayUp(Up, n, tree[n])

\* The calls of mem2reg_rename_stage: each is for a child of the block of its
\* caller, and what a call has left are children.
Calls(P) == [block : DOMAIN tree, left : SUBSET DOMAIN tree, pushed : P]
Renaming ==
  /\ \E P : path \in Seq(Calls(P))
  /\ \A f \in 1..Len(path) : path[f].left \subseteq Mem!Children(path[f].block)
  /\ \A f \in 1..Len(path) :
       f > 1 => path[f].block \in Mem!Children(path[f - 1].block) \ path[f - 1].left

\* The blocks whose call is still to come.
ToCome == {b \in DOMAIN tree :
             /\ phase # "run"
             /\ path = <<>> \/ \E f \in 1..Len(path) : \E c \in path[f].left : OnWayUp(Up, c, b)}

From(f, p) == {i \in incoming : i[1] = f /\ i[2] = p}

\* A phi has an incoming from each block whose call has begun, and from no other.
Incomings ==
  \A f \in phis, p \in Vertices :
    IF p \in DOMAIN tree \ ToCome /\ f \in succs[p] THEN \E x : From(f, p) = {x}
                                                   ELSE From(f, p) = {}

MemInv ==
  /\ phase = "tree" => TreeInv
  /\ phase # "tree" => TreeKept
  /\ phase \in {"tree", "place"} => path = <<>> /\ incoming = {}
  /\ phase = "rename" => Renaming
  /\ phase \in {"rename", "run"} => Incomings

\* The end of the construction of the tree.
LEMMA TreeDoneStep ==
  ASSUME MemInv, Mem!TreeDone
  PROVE  MemInv'
<1>1. /\ TreeInv /\ Tree!Fixed /\ path = <<>> /\ incoming = {} /\ phase' = "place"
      /\ tree' = [n \in Tree!Reached |-> idom[n]] /\ UNCHANGED <<path, incoming>>
  BY SameTree DEF Mem!TreeDone, MemInv, Mem!walk
<1>2. Tree!Reached = Found /\ idom[Entry] = Entry /\ Shapes /\ Numbered
  BY <1>1, Settled
<1>3. /\ DOMAIN tree' = Found /\ \A n \in Found : tree'[n] = idom[n] /\ idom[n] \in Found
  BY <1>1, <1>2, WayToEntry
<1>4. Entry \in Found /\ Found \subseteq Vertices /\ idom \in [Vertices -> Vertices]
  <2>1. order[1] = Entry /\ 1 \in Positions /\ order \in Seq(Vertices)
    BY <1>2 DEF Shapes, Numbered, Positions
  <2> QED BY <1>2, <2>1 DEF Found, Positions, Shapes
<1>5. PICK new : new = Up'
  OBVIOUS
<1>6. \A n \in Found : new[n] = idom[n] /\ idom[n] \in Found
  BY <1>3, <1>4, <1>5 DEF Up
<1>7. ASSUME NEW n \in Found
      PROVE  /\ OnWayUp(new, Entry, n)
             /\ n # Entry => ~OnWayUp(new, n, idom[n])
  <2>1. idom[n] \in Found
    BY <1>3
  <2>2. /\ \A a : OnWayUp(new, a, n) <=> OnWayUp(idom, a, n)
        /\ \A a : OnWayUp(new, a, idom[n]) <=> OnWayUp(idom, a, idom[n])
    BY <1>4, <1>6, <2>1, WaySame
  <2> QED BY <1>1, <2>2, WayToEntry
<1>8. TreeKept'
  BY <1>2, <1>3, <1>4, <1>5, <1>7 DEF TreeKept
<1> QED BY <1>1, <1>8 DEF MemInv

\* What Children(d) hangs below d, and two of them have nothing below in common.
LEMMA ChildFacts ==
  ASSUME TreeKept, NEW d \in DOMAIN tree, NEW c \in Mem!Children(d)
  PROVE  /\ Up \in [Vertices -> Vertices]
         /\ c \in DOMAIN tree /\ c \in Vertices /\ d \in Vertices
         /\ c # d /\ c # Entry /\ Up[c] = d
         /\ OnWayUp(Up, c, c) /\ OnWayUp(Up, d, c) /\ ~OnWayUp(Up, c, d)
<1>1. Up \in [Vertices -> Vertices]
  BY DEF TreeKept, Up
<1>2. c \in DOMAIN tree /\ tree[c] = d /\ c # d /\ DOMAIN tree \subseteq Vertices
  BY DEF Mem!Children, Mem!Reached, TreeKept
<1>3. Up[c] = d
  BY <1>2 DEF Up
<1>4. c # Entry /\ ~OnWayUp(Up, c, d)
  BY <1>2 DEF TreeKept
<1>5. OnWayUp(Up, c, c) /\ OnWayUp(Up, d, d) /\ (OnWayUp(Up, d, d) => OnWayUp(Up, d, c))
  BY <1>1, <1>2, <1>3, WayUp
<1> QED BY <1>1, <1>2, <1>3, <1>4, <1>5

LEMMA SiblingsApart ==
  ASSUME TreeKept, NEW d \in DOMAIN tree, NEW c \in Mem!Children(d), NEW e \in Mem!Children(d),
         c # e, NEW x \in Vertices, OnWayUp(Up, c, x)
  PROVE  ~OnWayUp(Up, e, x)
<1> SUFFICES ASSUME OnWayUp(Up, e, x) PROVE FALSE
  OBVIOUS
<1>1. /\ Up \in [Vertices -> Vertices] /\ c \in Vertices /\ e \in Vertices
      /\ Up[c] = d /\ Up[e] = d
      /\ ~OnWayUp(Up, c, d) /\ ~OnWayUp(Up, e, d)
  BY ChildFacts
<1>2. OnWayUp(Up, c, e) \/ OnWayUp(Up, e, c)
  BY <1>1, WayIsLinear
<1>3. /\ OnWayUp(Up, c, e) /\ c # e => OnWayUp(Up, c, Up[e])
      /\ OnWayUp(Up, e, c) /\ e # c => OnWayUp(Up, e, Up[c])
  BY <1>1, WayUp
<1> QED BY <1>1, <1>2, <1>3

\* Below a block are the block and what is below its children.
LEMMA BelowIsChildren ==
  ASSUME TreeKept, NEW b \in DOMAIN tree, NEW x \in DOMAIN tree
  PROVE  (\E c \in Mem!Children(b) : OnWayUp(Up, c, x)) <=> OnWayUp(Up, b, x) /\ x # b
<1>1. Up \in [Vertices -> Vertices] /\ b \in Vertices /\ x \in Vertices
  BY DEF TreeKept, Up
<1>2. ASSUME NEW c \in Mem!Children(b), OnWayUp(Up, c, x)
      PROVE  OnWayUp(Up, b, x) /\ x # b
  <2>1. OnWayUp(Up, b, c) /\ ~OnWayUp(Up, c, b)
    BY ChildFacts
  <2> QED BY <1>1, <1>2, <2>1, WayUp
<1>3. ASSUME OnWayUp(Up, b, x), x # b
      PROVE  \E c \in Mem!Children(b) : OnWayUp(Up, c, x)
  <2>1. PICK c \in Vertices : c # b /\ Up[c] = b /\ OnWayUp(Up, c, x)
    BY <1>1, <1>3, ChildOnWay
  <2>2. c \in DOMAIN tree
    <3>1. DOMAIN tree \in SUBSET Vertices /\ UpClosed(Up, DOMAIN tree)
      BY DEF TreeKept, UpClosed, Up
    <3> QED BY <2>1, <3>1 DEF OnWayUp
  <2>3. c \in Mem!Children(b)
    BY <2>1, <2>2 DEF Up, Mem!Children, Mem!Reached
  <2> QED BY <2>1, <2>3
<1> QED BY <1>2, <1>3

LEMMA CallFacts ==
  ASSUME NEW P, path \in Seq(Calls(P)), NEW f \in 1..Len(path)
  PROVE  /\ path[f] \in Calls(P)
         /\ path[f].block \in DOMAIN tree /\ path[f].left \subseteq DOMAIN tree
<1>1. path[f] \in Calls(P)
  OBVIOUS
<1> QED BY <1>1 DEF Calls

\* The blocks of the calls are on one way up.
LEMMA CallsAreWay ==
  ASSUME TreeKept, Renaming, NEW f \in 1..Len(path)
  PROVE  OnWayUp(Up, path[f].block, path[Len(path)].block)
<1> DEFINE n == Len(path)
           S == {k \in Nat : k < n => OnWayUp(Up, path[n - k].block, path[n].block)}
<1>1. PICK P : path \in Seq(Calls(P))
  BY DEF Renaming
<1>2. /\ n \in Nat /\ \A g \in 1..n : path[g].block \in DOMAIN tree
      /\ Up \in [Vertices -> Vertices] /\ DOMAIN tree \subseteq Vertices
  <2>1. n \in Nat
    BY <1>1
  <2>2. Up \in [Vertices -> Vertices] /\ DOMAIN tree \subseteq Vertices
    BY DEF TreeKept, Up
  <2> QED BY <1>1, <2>1, <2>2, CallFacts
<1>3. 0 \in S
  <2>1. n \in 1..n => OnWayUp(Up, path[n].block, path[n].block)
    BY <1>2, WayUp
  <2>2. n - 0 = n /\ (0 < n => n \in 1..n)
    BY <1>2
  <2> QED BY <2>1, <2>2
<1>4. ASSUME NEW k \in Nat, k \in S PROVE k + 1 \in S
  <2> SUFFICES ASSUME k + 1 < n PROVE OnWayUp(Up, path[n - (k + 1)].block, path[n].block)
    OBVIOUS
  <2>1. /\ n - k \in 1..n /\ n - k > 1 /\ n - (k + 1) = (n - k) - 1 /\ (n - k) - 1 \in 1..n
        /\ k < n /\ n \in 1..n
    BY <1>2
  <2>2. OnWayUp(Up, path[n - k].block, path[n].block)
    BY <1>4, <2>1
  <2>3. path[n - k].block \in Mem!Children(path[(n - k) - 1].block)
    BY <2>1 DEF Renaming
  <2>4. OnWayUp(Up, path[(n - k) - 1].block, path[n - k].block)
    BY <1>2, <2>1, <2>3, ChildFacts
  <2>5. path[n].block \in Vertices /\ path[n - k].block \in Vertices
    BY <1>2, <2>1
  <2> QED BY <1>2, <2>1, <2>2, <2>4, <2>5, WayUp
<1> HIDE DEF S
<1>5. Nat \subseteq S
  BY <1>3, <1>4, InductionOnSet
<1>6. n - f \in Nat /\ n - f < n /\ n - (n - f) = f
  BY <1>2
<1> QED BY <1>5, <1>6 DEF S

\* What Enter does to the frames and to the incomings.
LEMMA EnterFacts ==
  ASSUME NEW b \in Vertices, Mem!Enter(b)
  PROVE  /\ phase = "rename" /\ UNCHANGED <<succs, tree, phis, phase>>
         /\ IF path = <<>> THEN b = Entry ELSE b \in path[Len(path)].left
         /\ \E v : incoming' = incoming \cup {<<s, b, v>> : s \in succs[b] \cap phis}
         /\ \E q : path' = Append(IF path = <<>> THEN <<>>
                                  ELSE Append(Tree!Front(path), [path[Len(path)] EXCEPT !.left = @ \ {b}]),
                                  [block |-> b, left |-> Mem!Children(b), pushed |-> q])
<1>1. Mem!Last(path) = path[Len(path)] /\ Mem!Front(path) = Tree!Front(path)
  BY DEF Mem!Last, Mem!Front, Tree!Front
<1>2. Mem!PhisAfter(b) = succs[b] \cap phis
  BY DEF Mem!PhisAfter
<1>3. phase = "rename" /\ UNCHANGED <<succs, tree, phis, phase>>
  BY DEF Mem!Enter, Mem!code
<1>4. IF path = <<>> THEN b = Entry ELSE b \in path[Len(path)].left
  BY <1>1 DEF Mem!Enter
<1>5. \E v : incoming' = incoming \cup {<<s, b, v>> : s \in succs[b] \cap phis}
  BY <1>2 DEF Mem!Enter
<1>6. \E q : path' = Append(IF path = <<>> THEN <<>>
                            ELSE Append(Tree!Front(path), [path[Len(path)] EXCEPT !.left = @ \ {b}]),
                            [block |-> b, left |-> Mem!Children(b), pushed |-> q])
  BY <1>1 DEF Mem!Enter
<1> QED BY <1>3, <1>4, <1>5, <1>6

\* The frames after Enter.
LEMMA EnterFrames ==
  ASSUME NEW P, path \in Seq(Calls(P)), NEW b \in DOMAIN tree, NEW q,
         Mem!Children(b) \in SUBSET DOMAIN tree,
         path' = Append(IF path = <<>> THEN <<>>
                        ELSE Append(Tree!Front(path), [path[Len(path)] EXCEPT !.left = @ \ {b}]),
                        [block |-> b, left |-> Mem!Children(b), pushed |-> q])
  PROVE  /\ path' \in Seq(Calls(P \cup {q})) /\ Len(path') = Len(path) + 1
         /\ \A f \in 1..Len(path) :
              /\ path'[f].block = path[f].block
              /\ path'[f].left = IF f = Len(path) THEN path[f].left \ {b} ELSE path[f].left
              /\ path'[f].pushed = path[f].pushed
         /\ path'[Len(path) + 1].block = b
         /\ path'[Len(path) + 1].left = Mem!Children(b)
         /\ path'[Len(path) + 1].pushed = q
<1> DEFINE n == Len(path)
           All == Calls(P \cup {q})
           call == [block |-> b, left |-> Mem!Children(b), pushed |-> q]
           front == Tree!Front(path)
           last == [path[n] EXCEPT !.left = @ \ {b}]
<1>1. n \in Nat /\ path \in Seq(All) /\ \A f \in 1..n : path[f] \in Calls(P) /\ path[f] \in All
  <2>1. Calls(P) \subseteq All
    BY DEF Calls
  <2>2. \A f \in 1..n : path[f] \in Calls(P)
    BY CallFacts
  <2> HIDE DEF All
  <2>3. \A f \in 1..n : path[f] \in All
    BY <2>1, <2>2
  <2>4. path \in Seq(All)
    BY <2>3, SeqOver
  <2> QED BY <2>2, <2>3, <2>4
<1>2. call \in All /\ call.block = b /\ call.left = Mem!Children(b) /\ call.pushed = q
  BY DEF Calls
<1>3. CASE path = <<>>
  <2>1. path' = <<call>> /\ n = 0
    BY <1>3
  <2> HIDE DEF call, All
  <2>2. path' \in Seq(All) /\ Len(path') = 1 /\ path'[1] = call
    BY <1>2, <2>1
  <2> QED BY <1>2, <2>1, <2>2 DEF All
<1>4. CASE path # <<>>
  <2>1. n >= 1 /\ path[n] \in Calls(P)
    BY <1>1, <1>4
  <2>2. /\ last \in All /\ last.block = path[n].block /\ last.left = path[n].left \ {b}
        /\ last.pushed = path[n].pushed
    BY <2>1 DEF Calls
  <2>3. front \in Seq(All) /\ Len(front) = n - 1 /\ \A f \in 1..(n - 1) : front[f] = path[f]
    BY <1>1, <1>4, FrontOf
  <2>4. path' = Append(Append(front, last), call)
    BY <1>4
  <2> HIDE DEF call, All, front, last, n
  <2>5. PICK c : c = Append(front, last)
    OBVIOUS
  <2>6. /\ c \in Seq(All) /\ Len(c) = n /\ c[n] = last
        /\ \A f \in 1..(n - 1) : c[f] = front[f]
    <3>1. /\ c \in Seq(All) /\ Len(c) = Len(front) + 1 /\ c[Len(front) + 1] = last
          /\ \A f \in 1..Len(front) : c[f] = front[f]
      BY <2>2, <2>3, <2>5, AppendAt
    <3>2. Len(front) = n - 1 /\ Len(front) + 1 = n
      BY <1>1, <2>3
    <3> QED BY <3>1, <3>2
  <2>7. /\ path' \in Seq(All) /\ Len(path') = n + 1 /\ path'[n + 1] = call
        /\ \A f \in 1..n : path'[f] = c[f]
    <3>1. PICK p : p = Append(c, call)
      OBVIOUS
    <3>2. path' = p
      BY <2>4, <2>5, <3>1
    <3>3. c \in Seq(All) /\ call \in All
      BY <1>2, <2>6
    <3>4. /\ p \in Seq(All) /\ Len(p) = Len(c) + 1 /\ p[Len(c) + 1] = call
          /\ \A f \in 1..Len(c) : p[f] = c[f]
      BY <3>1, <3>3, AppendAt
    <3> QED BY <2>6, <3>2, <3>4
  <2>8. \A f \in 1..n : f \in 1..(n - 1) \/ f = n
    BY <1>1
  <2>9. ASSUME NEW f \in 1..n
        PROVE  /\ path'[f].block = path[f].block
               /\ path'[f].left = IF f = n THEN path[f].left \ {b} ELSE path[f].left
               /\ path'[f].pushed = path[f].pushed
    <3>1. CASE f \in 1..(n - 1)
      <4>1. path'[f] = path[f] /\ f # n
        BY <1>1, <2>3, <2>6, <2>7, <3>1
      <4> QED BY <4>1
    <3>2. CASE f = n
      BY <2>2, <2>6, <2>7, <3>2
    <3> QED BY <2>8, <3>1, <3>2
  <2> QED BY <1>2, <2>7, <2>9 DEF All, n
<1> QED BY <1>3, <1>4

\* Enter begins the call of one block that was to come, and of no other.
LEMMA EnterToCome ==
  ASSUME TreeKept, Renaming, NEW b \in Vertices, Mem!Enter(b)
  PROVE  /\ Renaming' /\ TreeKept'
         /\ b \in ToCome /\ ToCome' = ToCome \ {b}
<1> DEFINE n == Len(path)
<1>1. /\ phase = "rename" /\ phase' = "rename" /\ tree' = tree
      /\ IF path = <<>> THEN b = Entry ELSE b \in path[n].left
  BY EnterFacts
<1>2. Up' = Up /\ TreeKept' /\ \A d : Mem!Children(d)' = Mem!Children(d)
  BY <1>1 DEF Up, TreeKept, Mem!Children, Mem!Reached, OnWayUp, UpClosed
<1>3. PICK P : path \in Seq(Calls(P))
  BY DEF Renaming
<1>4. /\ n \in Nat /\ (path # <<>> => n \in 1..n)
      /\ \A f \in 1..n : /\ path[f].block \in DOMAIN tree /\ path[f].block \in Vertices
                         /\ path[f].left \subseteq Mem!Children(path[f].block)
      /\ Up \in [Vertices -> Vertices] /\ DOMAIN tree \subseteq Vertices /\ Entry \in DOMAIN tree
  <2>1. n \in Nat /\ (path # <<>> => n \in 1..n)
    BY <1>3
  <2>2. DOMAIN tree \subseteq Vertices /\ Entry \in DOMAIN tree /\ Up \in [Vertices -> Vertices]
    BY DEF TreeKept, Up
  <2>3. \A f \in 1..n : path[f].block \in DOMAIN tree /\ path[f].block \in Vertices
    BY <1>3, <2>2, CallFacts
  <2>4. \A f \in 1..n : path[f].left \subseteq Mem!Children(path[f].block)
    BY DEF Renaming
  <2> QED BY <2>1, <2>2, <2>3, <2>4
<1>5. b \in DOMAIN tree /\ Mem!Children(b) \in SUBSET DOMAIN tree
  BY <1>1, <1>4 DEF Mem!Children, Mem!Reached
<1>6. PICK q : path' = Append(IF path = <<>> THEN <<>>
                              ELSE Append(Tree!Front(path), [path[Len(path)] EXCEPT !.left = @ \ {b}]),
                              [block |-> b, left |-> Mem!Children(b), pushed |-> q])
  BY EnterFacts
<1>7. /\ path' \in Seq(Calls(P \cup {q})) /\ Len(path') = n + 1
      /\ \A f \in 1..n :
           /\ path'[f].block = path[f].block
           /\ path'[f].left = IF f = n THEN path[f].left \ {b} ELSE path[f].left
      /\ path'[n + 1].block = b
      /\ path'[n + 1].left = Mem!Children(b)
  <2>1. /\ path' \in Seq(Calls(P \cup {q})) /\ Len(path') = Len(path) + 1
        /\ \A f \in 1..Len(path) :
             /\ path'[f].block = path[f].block
             /\ path'[f].left = IF f = Len(path) THEN path[f].left \ {b} ELSE path[f].left
             /\ path'[f].pushed = path[f].pushed
        /\ path'[Len(path) + 1].block = b
        /\ path'[Len(path) + 1].left = Mem!Children(b)
        /\ path'[Len(path) + 1].pushed = q
    BY <1>3, <1>5, <1>6, EnterFrames
  <2> QED BY <2>1
<1>8. \A f \in 1..(n + 1) : f \in 1..n \/ f = n + 1
  BY <1>4
<1>9. Renaming'
  <2>1. \E Q : path' \in Seq(Calls(Q)')
    BY <1>1, <1>7 DEF Calls
  <2>2. ASSUME NEW f \in 1..(n + 1)
        PROVE  path'[f].left \subseteq Mem!Children(path'[f].block)
    BY <1>4, <1>7, <1>8
  <2>3. ASSUME NEW f \in 1..(n + 1), f > 1
        PROVE  path'[f].block \in Mem!Children(path'[f - 1].block) \ path'[f - 1].left
    <3>1. f - 1 \in 1..n
      BY <1>4, <2>3
    <3>2. CASE f \in 1..n
      <4>1. path[f].block \in Mem!Children(path[f - 1].block) \ path[f - 1].left
        BY <2>3, <3>2 DEF Renaming
      <4>2. /\ path'[f].block = path[f].block /\ path'[f - 1].block = path[f - 1].block
            /\ path'[f - 1].left \subseteq path[f - 1].left
        BY <1>7, <3>1, <3>2
      <4> QED BY <4>1, <4>2
    <3>3. CASE f = n + 1
      <4>1. f - 1 = n /\ n \in 1..n /\ path # <<>>
        BY <1>4, <3>1, <3>3
      <4>2. /\ path'[f].block = b /\ path'[n].block = path[n].block
            /\ path'[n].left = path[n].left \ {b}
        BY <1>7, <3>3, <4>1
      <4>3. b \in Mem!Children(path[n].block)
        BY <1>1, <1>4, <4>1
      <4> QED BY <4>1, <4>2, <4>3
    <3> QED BY <1>8, <3>2, <3>3
  <2> QED BY <1>2, <1>7, <2>1, <2>2, <2>3 DEF Renaming
<1>10. ToCome' = {x \in DOMAIN tree :
          \/ \E f \in 1..n : \E c \in path'[f].left : OnWayUp(Up, c, x)
          \/ \E c \in Mem!Children(b) : OnWayUp(Up, c, x)}
  <2>1. path' # <<>> /\ phase' # "run"
    BY <1>1, <1>4, <1>7
  <2>2. \A x : (\E f \in 1..(n + 1) : \E c \in path'[f].left : OnWayUp(Up, c, x))
               <=> \/ \E f \in 1..n : \E c \in path'[f].left : OnWayUp(Up, c, x)
                   \/ \E c \in path'[n + 1].left : OnWayUp(Up, c, x)
    BY <1>4, <1>8
  <2>3. ToCome' = {x \in DOMAIN tree :
                     \E f \in 1..(n + 1) : \E c \in path'[f].left : OnWayUp(Up, c, x)}
    BY <1>1, <1>2, <1>7, <2>1 DEF ToCome, OnWayUp, UpClosed
  <2> QED BY <1>7, <2>2, <2>3
<1>11. OnWayUp(Up, b, b)
  BY <1>4, <1>5, WayUp
<1>12. b \in ToCome
  <2>1. CASE path = <<>>
    BY <1>1, <1>5, <2>1 DEF ToCome
  <2>2. CASE path # <<>>
    BY <1>1, <1>4, <1>5, <1>11, <2>2 DEF ToCome
  <2> QED BY <2>1, <2>2
<1>13. ASSUME NEW x \in DOMAIN tree PROVE x \in ToCome' <=> x \in ToCome /\ x # b
  <2>1. (\E c \in Mem!Children(b) : OnWayUp(Up, c, x)) <=> OnWayUp(Up, b, x) /\ x # b
    BY <1>5, BelowIsChildren
  <2>2. CASE path = <<>>
    <3>1. OnWayUp(Up, b, x) /\ n = 0
      BY <1>1, <2>2 DEF TreeKept
    <3>2. x \in ToCome
      BY <1>1, <2>2 DEF ToCome
    <3>3. x \in ToCome' <=> \E c \in Mem!Children(b) : OnWayUp(Up, c, x)
      BY <1>10, <3>1
    <3> QED BY <2>1, <3>1, <3>2, <3>3
  <2>3. CASE path # <<>>
    <3>1. x \in ToCome <=> \E f \in 1..n : \E c \in path[f].left : OnWayUp(Up, c, x)
      BY <1>1, <2>3 DEF ToCome
    <3>2. ASSUME NEW f \in 1..n, NEW c \in path'[f].left
          PROVE  c \in path[f].left /\ ~OnWayUp(Up, c, b)
      <4>1. c \in path[f].left /\ (f = n => c # b) /\ c \in Mem!Children(path[f].block)
            /\ c \in Vertices
        <5>1. c \in path[f].left /\ (f = n => c # b) /\ c \in Mem!Children(path[f].block)
          BY <1>4, <1>7, <3>2
        <5> QED BY <1>4, <5>1, ChildFacts
      <4>2. b \in Mem!Children(path[n].block)
        BY <1>1, <1>4, <2>3
      <4>3. CASE f = n
        BY <1>4, <1>11, <4>1, <4>2, <4>3, SiblingsApart
      <4>4. CASE f # n
        <5>1. f + 1 \in 1..n /\ f + 1 > 1 /\ (f + 1) - 1 = f
          BY <1>4, <4>4
        <5>2. PICK e : e = path[f + 1].block
          OBVIOUS
        <5>3. e \in Mem!Children(path[f].block) \ path[f].left
          BY <5>1, <5>2 DEF Renaming
        <5>4. OnWayUp(Up, e, path[n].block)
          BY <5>1, <5>2, CallsAreWay
        <5>5. OnWayUp(Up, path[n].block, b)
          BY <1>4, <2>3, <4>2, ChildFacts
        <5>6. OnWayUp(Up, e, b)
          BY <1>4, <1>5, <5>4, <5>5, WayUp
        <5>7. e # c /\ path[f].block \in DOMAIN tree /\ b \in Vertices
          BY <1>4, <4>1, <5>3
        <5> QED BY <4>1, <5>3, <5>6, <5>7, SiblingsApart
      <4> QED BY <4>1, <4>3, <4>4
    <3>3. ASSUME x \in ToCome' PROVE x \in ToCome /\ x # b
      <4>1. CASE \E f \in 1..n : \E c \in path'[f].left : OnWayUp(Up, c, x)
        BY <3>1, <3>2, <4>1
      <4>2. CASE \E c \in Mem!Children(b) : OnWayUp(Up, c, x)
        BY <1>1, <1>4, <2>1, <2>3, <3>1, <4>2
      <4> QED BY <1>10, <3>3, <4>1, <4>2
    <3>4. ASSUME x \in ToCome, x # b PROVE x \in ToCome'
      <4>1. PICK f \in 1..n : \E c \in path[f].left : OnWayUp(Up, c, x)
        BY <3>1, <3>4
      <4>2. PICK c \in path[f].left : OnWayUp(Up, c, x)
        BY <4>1
      <4>3. CASE c \in path'[f].left
        BY <1>10, <4>2, <4>3
      <4>4. CASE c \notin path'[f].left
        <5>1. c = b
          BY <1>7, <4>2, <4>4
        <5> QED BY <1>10, <2>1, <3>4, <4>2, <5>1
      <4> QED BY <4>3, <4>4
    <3> QED BY <3>3, <3>4
  <2> QED BY <2>2, <2>3
<1>14. ToCome' \subseteq DOMAIN tree /\ ToCome \subseteq DOMAIN tree
  BY <1>10 DEF ToCome
<1>15. ToCome' = ToCome \ {b}
  <2>1. \A x : x \in ToCome' <=> x \in ToCome \ {b}
    BY <1>13, <1>14
  <2> QED BY <2>1
<1> QED BY <1>2, <1>9, <1>12, <1>15

LEMMA EnterStep ==
  ASSUME MemInv, NEW b \in Vertices, Mem!Enter(b)
  PROVE  MemInv'
<1>1. /\ phase = "rename" /\ phase' = "rename"
      /\ succs' = succs /\ tree' = tree /\ phis' = phis
  BY EnterFacts
<1>2. TreeKept /\ Renaming /\ Incomings
  BY <1>1 DEF MemInv
<1>3. Renaming' /\ TreeKept' /\ b \in ToCome /\ ToCome' = ToCome \ {b}
  BY <1>2, EnterToCome
<1>4. PICK v : incoming' = incoming \cup {<<s, b, v>> : s \in succs[b] \cap phis}
  BY EnterFacts
<1>5. ASSUME NEW f \in phis, NEW p \in Vertices
      PROVE  From(f, p)' = From(f, p) \cup (IF p = b /\ f \in succs[b] THEN {<<f, b, v>>} ELSE {})
  BY <1>4 DEF From
<1>6. b \in DOMAIN tree
  BY <1>3 DEF ToCome
<1>7. ASSUME NEW f \in phis, NEW p \in Vertices
      PROVE  IF p \in DOMAIN tree \ ToCome' /\ f \in succs[p] THEN \E x : From(f, p)' = {x}
                                                             ELSE From(f, p)' = {}
  <2>1. CASE p = b
    <3>1. From(f, p) = {}
      BY <1>2, <1>3, <2>1 DEF Incomings
    <3>2. CASE f \in succs[b]
      <4>1. From(f, p)' = {<<f, b, v>>}
        BY <1>5, <2>1, <3>1, <3>2
      <4>2. p \in DOMAIN tree \ ToCome' /\ f \in succs[p]
        BY <1>3, <1>6, <2>1, <3>2
      <4> QED BY <4>1, <4>2
    <3>3. CASE f \notin succs[b]
      BY <1>5, <2>1, <3>1, <3>3
    <3> QED BY <3>2, <3>3
  <2>2. CASE p # b
    <3>1. From(f, p)' = From(f, p)
      BY <1>5, <2>2
    <3> QED BY <1>2, <1>3, <2>2, <3>1 DEF Incomings
  <2> QED BY <2>1, <2>2
<1>8. Incomings'
  BY <1>1, <1>7 DEF Incomings
<1> QED BY <1>1, <1>3, <1>8 DEF MemInv

\* The end of a call changes nothing of what is still to come, also when it is
\* the last.
LEMMA LeaveToCome ==
  ASSUME TreeKept, Renaming, Mem!Leave
  PROVE  /\ Renaming' /\ TreeKept' /\ ToCome' = ToCome
         /\ phase = "rename" /\ phase' = IF Len(path) = 1 THEN "run" ELSE "rename"
         /\ UNCHANGED <<succs, tree, phis, incoming>>
         /\ Len(path) \in Nat /\ Len(path) >= 1 /\ Len(path') = Len(path) - 1
         /\ \A f \in 1..(Len(path) - 1) : path'[f] = path[f]
<1> DEFINE n == Len(path)
<1>1. /\ phase = "rename" /\ path # <<>> /\ path[n].left = {}
      /\ path' = Tree!Front(path)
      /\ phase' = IF n = 1 THEN "run" ELSE "rename"
      /\ UNCHANGED <<succs, tree, phis, incoming>>
  <2>1. Mem!Last(path) = path[Len(path)] /\ Mem!Front(path) = Tree!Front(path)
    BY DEF Mem!Last, Mem!Front, Tree!Front
  <2> QED BY <2>1 DEF Mem!Leave, Mem!code
<1>3. PICK P : path \in Seq(Calls(P))
  BY DEF Renaming
<1>4. /\ path' \in Seq(Calls(P)) /\ Len(path') = n - 1
      /\ \A f \in 1..(n - 1) : path'[f] = path[f]
  BY <1>1, <1>3, FrontOf
<1>5. n \in Nat /\ n >= 1 /\ \A f \in 1..n : f \in 1..(n - 1) \/ f = n
  BY <1>1, <1>3
<1>6. Up' = Up /\ TreeKept' /\ \A d : Mem!Children(d)' = Mem!Children(d)
  BY <1>1 DEF Up, TreeKept, Mem!Children, Mem!Reached, OnWayUp, UpClosed
<1>7. ToCome = {x \in DOMAIN tree :
                  \E f \in 1..(n - 1) : \E c \in path[f].left : OnWayUp(Up, c, x)}
  <2>1. \A x : (\E f \in 1..n : \E c \in path[f].left : OnWayUp(Up, c, x))
               <=> \E f \in 1..(n - 1) : \E c \in path[f].left : OnWayUp(Up, c, x)
    BY <1>1, <1>5
  <2> QED BY <1>1, <2>1 DEF ToCome
<1>8. ToCome' = ToCome
  <2>1. CASE n = 1
    <3>1. ToCome' = {}
      BY <1>1, <2>1 DEF ToCome
    <3>2. 1..(n - 1) = {}
      BY <2>1
    <3> QED BY <1>7, <3>1, <3>2
  <2>2. CASE n # 1
    <3>1. path' # <<>> /\ phase' # "run"
      BY <1>1, <1>4, <1>5, <2>2
    <3>2. ToCome' = {x \in DOMAIN tree :
                       \E f \in 1..(n - 1) : \E c \in path'[f].left : OnWayUp(Up, c, x)}
      BY <1>1, <1>4, <1>6, <3>1 DEF ToCome, OnWayUp, UpClosed
    <3>3. \A x : (\E f \in 1..(n - 1) : \E c \in path'[f].left : OnWayUp(Up, c, x))
                 <=> \E f \in 1..(n - 1) : \E c \in path[f].left : OnWayUp(Up, c, x)
      BY <1>4
    <3> QED BY <1>7, <3>2, <3>3
  <2> QED BY <2>1, <2>2
<1>9. Renaming'
  <2>1. \E Q : path' \in Seq(Calls(Q)')
    BY <1>1, <1>4 DEF Calls
  <2>2. \A f \in 1..(n - 1) : path'[f].left \subseteq Mem!Children(path'[f].block)
    BY <1>4, <1>5 DEF Renaming
  <2>3. ASSUME NEW f \in 1..(n - 1), f > 1
        PROVE  path'[f].block \in Mem!Children(path'[f - 1].block) \ path'[f - 1].left
    <3>1. f - 1 \in 1..(n - 1) /\ f \in 1..n
      BY <1>5, <2>3
    <3>2. path[f].block \in Mem!Children(path[f - 1].block) \ path[f - 1].left
      BY <2>3, <3>1 DEF Renaming
    <3> QED BY <1>4, <3>1, <3>2
  <2> QED BY <1>4, <1>6, <2>1, <2>2, <2>3 DEF Renaming
<1> QED BY <1>1, <1>4, <1>5, <1>6, <1>8, <1>9

LEMMA RenameLeaveStep ==
  ASSUME MemInv, Mem!Leave
  PROVE  MemInv'
<1>1. TreeKept /\ Renaming /\ Incomings
  BY DEF MemInv, Mem!Leave
<1>2. /\ Renaming' /\ TreeKept' /\ ToCome' = ToCome
      /\ phase' \in {"rename", "run"} /\ UNCHANGED <<succs, tree, phis, incoming>>
  BY <1>1, LeaveToCome
<1>3. Incomings'
  <2>1. \A f, p : From(f, p)' = From(f, p)
    BY <1>2 DEF From
  <2> QED BY <1>1, <1>2, <2>1 DEF Incomings
<1> QED BY <1>2, <1>3 DEF MemInv

LEMMA PlacePhisStep ==
  ASSUME MemInv, Mem!PlacePhis
  PROVE  MemInv'
<1>1. /\ TreeKept /\ path = <<>> /\ incoming = {}
      /\ phase' = "rename" /\ tree' = tree /\ path' = <<>> /\ incoming' = {}
  BY DEF MemInv, Mem!PlacePhis, Mem!walk
<1>2. TreeKept'
  BY <1>1 DEF Up, TreeKept, OnWayUp, UpClosed
<1>3. Renaming'
  <2>1. <<>> \in Seq(Calls({})')
    OBVIOUS
  <2> QED BY <1>1, <2>1 DEF Renaming
<1>4. ToCome' = DOMAIN tree'
  BY <1>1 DEF ToCome
<1>5. \A f, p : From(f, p)' = {}
  BY <1>1 DEF From
<1>6. Incomings'
  BY <1>4, <1>5 DEF Incomings
<1> QED BY <1>1, <1>2, <1>3, <1>6 DEF MemInv

\* A run of the function leaves the phis alone.
LEMMA RunKeeps ==
  ASSUME MemInv, phase # "tree", UNCHANGED <<succs, phase, tree, phis, path, incoming>>
  PROVE  MemInv'
<1>1. /\ Up' = Up /\ ToCome' = ToCome /\ \A d : Mem!Children(d)' = Mem!Children(d)
      /\ \A P : Calls(P)' = Calls(P) /\ \A f, p : From(f, p)' = From(f, p)
      /\ \A a, n : OnWayUp(Up, a, n)' <=> OnWayUp(Up, a, n)
  BY DEF Up, ToCome, Mem!Children, Mem!Reached, Calls, From, OnWayUp, UpClosed
<1>2. TreeKept' <=> TreeKept
  BY <1>1 DEF TreeKept
<1>3. Renaming' <=> Renaming
  BY <1>1 DEF Renaming
<1>4. Incomings' <=> Incomings
  <2>1. \A f, p :
          (IF p \in DOMAIN tree' \ ToCome' /\ f \in succs'[p] THEN \E x : From(f, p)' = {x}
                                                              ELSE From(f, p)' = {})
          <=> (IF p \in DOMAIN tree \ ToCome /\ f \in succs[p] THEN \E x : From(f, p) = {x}
                                                             ELSE From(f, p) = {})
    BY <1>1
  <2> QED BY <2>1 DEF Incomings
<1> QED BY <1>2, <1>3, <1>4 DEF MemInv

LEMMA MemStep ==
  ASSUME MemInv, Mem!Next \/ UNCHANGED <<treeVars, memVars>>
  PROVE  MemInv'
<1>1. CASE Mem!BuildTree
  <2>1. /\ TreeInv /\ Tree!Next /\ phase = "tree" /\ phase' = "tree"
        /\ path = <<>> /\ incoming = {} /\ path' = path /\ incoming' = incoming
    BY <1>1, SameTree DEF Mem!BuildTree, MemInv, Mem!walk
  <2>2. TreeInv'
    BY <2>1, TreeStep
  <2> QED BY <2>1, <2>2 DEF MemInv
<1>2. CASE Mem!TreeDone
  BY <1>2, TreeDoneStep
<1>3. CASE Mem!PlacePhis
  BY <1>3, PlacePhisStep
<1>4. CASE \E b \in Vertices : Mem!Enter(b)
  BY <1>4, EnterStep
<1>5. CASE Mem!Leave
  BY <1>5, RenameLeaveStep
<1>6. CASE \E o : Mem!RunAccess(o)
  BY <1>6, RunKeeps DEF Mem!RunAccess, Mem!code, Mem!walk
<1>7. CASE \E s \in Vertices : Mem!RunBranch(s)
  BY <1>7, RunKeeps DEF Mem!RunBranch, Mem!code, Mem!walk
<1>8. CASE Mem!RunReturn
  BY <1>8, RunKeeps DEF Mem!RunReturn, Mem!vars, Mem!code, Mem!walk
<1>9. CASE UNCHANGED <<treeVars, memVars>>
  <2>1. phase = "tree" => TreeInv'
    BY <1>9, TreeStep DEF MemInv, treeVars
  <2>2. CASE phase = "tree"
    BY <1>9, <2>1, <2>2 DEF MemInv, memVars
  <2>3. CASE phase # "tree"
    BY <1>9, <2>3, RunKeeps DEF treeVars, memVars
  <2> QED BY <2>2, <2>3
<1> QED BY <1>1, <1>2, <1>3, <1>4, <1>5, <1>6, <1>7, <1>8, <1>9
     DEF Mem!Next, Mem!RunLoad, Mem!RunStore, Mem!RunDefine, Mem!RunKeep

MemPassInv == pass = "mem2reg" => MemInv

LEMMA MemPassInvariant == PassSpec => []MemPassInv
<1>1. PassInit => MemPassInv
  <2> SUFFICES ASSUME PassInit, pass = "mem2reg" PROVE MemInv
    BY DEF MemPassInv
  <2>1. Mem!Init
    BY DEF PassInit
  <2>2. TreeInv
    BY <2>1, SameTree, TreeInit DEF Mem!Init
  <2> QED BY <2>1, <2>2 DEF Mem!Init, MemInv
<1>2. MemPassInv /\ [PassNext]_allVars => MemPassInv'
  <2> SUFFICES ASSUME MemPassInv, [PassNext]_allVars, pass' = "mem2reg" PROVE MemInv'
    BY DEF MemPassInv
  <2>1. pass = "mem2reg" /\ (Mem!Next \/ UNCHANGED <<treeVars, memVars>>)
    BY DEF PassNext, allVars
  <2> QED BY <2>1, MemStep DEF MemPassInv
<1> QED BY <1>1, <1>2, PTL DEF PassSpec

\* For any finite set of blocks, any graph on them and any placement of the
\* accesses: once the renaming is done, a phi has exactly one incoming from each
\* predecessor the entry reaches and none from elsewhere (mem2reg_rename_stage).
THEOREM IncomingsAreExact == PassSpec => []IncomingsMatchEdges
<1>1. MemPassInv => IncomingsMatchEdges
  <2> SUFFICES ASSUME pass = "mem2reg", MemInv, phase = "run", NEW f \in phis, NEW p \in Vertices
               PROVE  Mem!Cardinality({i \in incoming : i[1] = f /\ i[2] = p})
                        = IF p \in Mem!Reached /\ f \in succs[p] THEN 1 ELSE 0
    BY DEF MemPassInv, IncomingsMatchEdges, Mem!IncomingsMatchEdges
  <2>1. ToCome = {} /\ Incomings
    BY DEF MemInv, ToCome
  <2>2. IF p \in Mem!Reached /\ f \in succs[p] THEN \E x : From(f, p) = {x} ELSE From(f, p) = {}
    BY <2>1 DEF Incomings, Mem!Reached
  <2>3. Mem!Cardinality(From(f, p)) = Cardinality(From(f, p))
    BY DEF Mem!Cardinality, Cardinality
  <2>4. \A x : Cardinality({x}) = 1
    BY FS_Singleton
  <2>5. Cardinality({}) = 0
    BY FS_EmptySet
  <2>6. Cardinality(From(f, p)) = IF p \in Mem!Reached /\ f \in succs[p] THEN 1 ELSE 0
    BY <2>2, <2>4, <2>5
  <2> QED BY <2>3, <2>6 DEF From
<1> QED BY <1>1, MemPassInvariant, PTL

-----------------------------------------------------------------------------
\* What the loads are replaced by.  A set that only grows and is over a finite set
\* has stopped growing after as many steps as that has members.
LEMMA GrowthStops ==
  ASSUME NEW T, IsFiniteSet(T), NEW g \in [SUBSET T -> SUBSET T],
         \A A \in SUBSET T : A \subseteq g[A],
         NEW s, s[0] \in SUBSET T, \A n \in 0..(Cardinality(T) - 1) : s[n + 1] = g[s[n]]
  PROVE  s[Cardinality(T)] \in SUBSET T /\ g[s[Cardinality(T)]] = s[Cardinality(T)]
<1> DEFINE N == Cardinality(T)
           Grown(n) == /\ s[n] \in SUBSET T
                       /\ g[s[n]] = s[n] \/ Cardinality(g[s[n]]) >= n + 1
           S == {n \in Nat : n > N \/ Grown(n)}
<1>1. N \in Nat
  BY FS_CardinalityType
<1> HIDE DEF N
<1>2. ASSUME NEW A \in SUBSET T PROVE IsFiniteSet(A) /\ Cardinality(A) \in 0..N
  <2>1. IsFiniteSet(A) /\ Cardinality(A) =< Cardinality(T)
    BY FS_Subset
  <2>2. Cardinality(A) \in Nat
    BY <2>1, FS_CardinalityType
  <2> QED BY <1>1, <2>1, <2>2 DEF N
<1>3. ASSUME NEW A \in SUBSET T, NEW B \in SUBSET T, A \subseteq B, A # B
      PROVE  Cardinality(B) >= Cardinality(A) + 1
  <2>1. Cardinality(A) =< Cardinality(B) /\ Cardinality(A) # Cardinality(B)
    BY <1>2, <1>3, FS_Subset
  <2> QED BY <2>1, <1>2
<1>10. ASSUME NEW A \in SUBSET T PROVE g[A] \in SUBSET T /\ A \subseteq g[A]
  OBVIOUS
<1>11. ASSUME NEW A \in SUBSET T PROVE g[A] = A \/ Cardinality(g[A]) >= 0 + 1
  <2>1. g[A] \in SUBSET T /\ A \subseteq g[A]
    BY <1>10
  <2>2. CASE g[A] # A
    <3>1. Cardinality(g[A]) >= Cardinality(A) + 1 /\ Cardinality(A) \in 0..N /\ Cardinality(g[A]) \in 0..N
      BY <1>2, <1>3, <2>1, <2>2
    <3> QED BY <1>1, <3>1
  <2> QED BY <2>2
<1>4. 0 \in S
  <2>1. g[s[0]] = s[0] \/ Cardinality(g[s[0]]) >= 0 + 1
    BY <1>11
  <2> QED BY <2>1
<1>5. ASSUME NEW n \in Nat, n \in S PROVE n + 1 \in S
  <2> HIDE DEF Grown
  <2> SUFFICES ASSUME n + 1 =< N PROVE Grown(n + 1)
    BY <1>1
  <2> USE DEF Grown
  <2>1. Grown(n) /\ s[n + 1] = g[s[n]]
    <3> HIDE DEF Grown
    <3>1. n \in 0..(N - 1)
      BY <1>1
    <3> QED BY <1>1, <1>5, <3>1 DEF N
  <2>2. PICK A \in SUBSET T : A = s[n]
    BY <2>1
  <2>3. PICK B \in SUBSET T : B = g[A] /\ B = s[n + 1]
    BY <2>1, <2>2
  <2>4. A \subseteq B /\ (B = A \/ Cardinality(B) >= n + 1)
    BY <2>1, <2>2, <2>3
  <2>5. B \subseteq g[B] /\ g[B] \in SUBSET T
    OBVIOUS
  <2>6. g[B] = B \/ Cardinality(g[B]) >= (n + 1) + 1
    <3>1. CASE B = A
      BY <3>1, <2>3
    <3>2. CASE B # A /\ g[B] # B
      <4>1. Cardinality(g[B]) >= Cardinality(B) + 1 /\ Cardinality(B) \in 0..N /\ Cardinality(g[B]) \in 0..N
        BY <1>2, <1>3, <2>5, <3>2
      <4>2. Cardinality(B) >= n + 1
        BY <2>4, <3>2
      <4> QED BY <1>1, <4>1, <4>2
    <3> QED BY <3>1, <3>2
  <2> QED BY <2>3, <2>6
<1>6. N \in S
  <2> HIDE DEF S
  <2> QED BY <1>1, <1>4, <1>5, InductionOnSet
<1>7. s[N] \in SUBSET T /\ (g[s[N]] = s[N] \/ Cardinality(g[s[N]]) >= N + 1)
  BY <1>1, <1>6
<1>8. g[s[N]] \in SUBSET T
  BY <1>7
<1>9. Cardinality(g[s[N]]) \in 0..N
  BY <1>2, <1>8
<1> QED BY <1>1, <1>7, <1>9 DEF N

\* The accesses that push on the value stack, and what they push.
Ops == {"load", "store", "define", "keep"}
Pairs == Vertices \X Nat
Pushes(b, k) == body[b][k] \in {"store", "keep"}
Pushed(b, k) == IF body[b][k] = "store" THEN Mem!StoreAt(b, k) ELSE Mem!Shared

LEMMA TopIs ==
  ASSUME NEW S, NEW s \in Seq(S)
  PROVE  Mem!Top(s) = IF Len(s) = 0 THEN Undef ELSE s[Len(s)]
<1>1. s = <<>> <=> Len(s) = 0
  OBVIOUS
<1> QED BY <1>1 DEF Mem!Top, Mem!Last

\* The scan of a block: W[k] is on top after k accesses, a load takes what is on
\* top before it, and what was on the stack stays.
ScanIs(b, start, W) ==
  LET scanned == Mem!Scan(b, start) IN
  /\ W[0] = Mem!Top(start)
  /\ \A k \in 1..Len(body[b]) : W[k] = IF Pushes(b, k) THEN Pushed(b, k) ELSE W[k - 1]
  /\ scanned.loads = {<<<<b, k>>, W[k - 1]>> : k \in {j \in 1..Len(body[b]) : body[b][j] = "load"}}
  /\ scanned.values \in Seq(Pairs) /\ Len(scanned.values) >= Len(start)
  /\ \A i \in 1..Len(start) : scanned.values[i] = start[i]
  /\ Mem!Top(scanned.values) = W[Len(body[b])]

LEMMA AccFields ==
  ASSUME NEW v, NEW l, NEW r, r = [values |-> v, loads |-> l]
  PROVE  /\ r.values = v /\ r.loads = l /\ r = [values |-> r.values, loads |-> r.loads]
         /\ \A w : [r EXCEPT !.values = w] = [values |-> w, loads |-> l]
         /\ \A w : [r EXCEPT !.loads = w] = [values |-> v, loads |-> w]
OBVIOUS

\* One turn of the scan, and what it does.
TurnOf(b, k, vals, loads, new) ==
  /\ body[b][k] = "load" => new = [values |-> vals, loads |-> loads \cup {<<<<b, k>>, Mem!Top(vals)>>}]
  /\ body[b][k] = "store" => new = [values |-> Append(vals, Mem!StoreAt(b, k)), loads |-> loads]
  /\ body[b][k] = "keep" => new = [values |-> Append(vals, Mem!Shared), loads |-> loads]
  /\ body[b][k] = "define" => new = [values |-> vals, loads |-> loads]
TurnIs(b, k, vals, loads, new) ==
  /\ new = [values |-> new.values, loads |-> new.loads]
  /\ new.values \in Seq(Pairs) /\ Len(new.values) >= Len(vals)
  /\ \A i \in 1..Len(vals) : new.values[i] = vals[i]
  /\ new.loads = IF body[b][k] = "load" THEN loads \cup {<<<<b, k>>, Mem!Top(vals)>>} ELSE loads
  /\ Mem!Top(new.values) = IF Pushes(b, k) THEN Pushed(b, k) ELSE Mem!Top(vals)

LEMMA ScanTurn ==
  ASSUME NEW b \in Vertices, NEW k \in Nat, k >= 1, body[b][k] \in Ops,
         NEW vals \in Seq(Pairs), NEW loads, NEW new, TurnOf(b, k, vals, loads, new)
  PROVE  TurnIs(b, k, vals, loads, new)
<1>1. Mem!StoreAt(b, k) \in Pairs /\ Mem!Shared \in Pairs
  BY PassesAssumption DEF Mem!StoreAt, Mem!Shared, Pairs, Tree!EntryAssumption
<1>2. ASSUME NEW e \in Pairs, new = [values |-> Append(vals, e), loads |-> loads]
      PROVE  /\ new = [values |-> new.values, loads |-> new.loads]
             /\ new.values \in Seq(Pairs) /\ Len(new.values) >= Len(vals)
             /\ \A i \in 1..Len(vals) : new.values[i] = vals[i]
             /\ new.loads = loads
             /\ Mem!Top(new.values) = e
  <2>1. PICK c : c = Append(vals, e)
    OBVIOUS
  <2> HIDE DEF Pairs
  <2>2. /\ c \in Seq(Pairs) /\ Len(c) = Len(vals) + 1 /\ c[Len(vals) + 1] = e
        /\ \A i \in 1..Len(vals) : c[i] = vals[i]
    BY <2>1, AppendAt
  <2>3. Len(vals) \in Nat
    OBVIOUS
  <2>4. Mem!Top(c) = e
    BY <2>2, <2>3, TopIs
  <2>5. new = [values |-> c, loads |-> loads]
    BY <1>2, <2>1
  <2>6. new.values = c /\ new.loads = loads /\ new = [values |-> new.values, loads |-> new.loads]
    BY <2>5, AccFields
  <2> QED BY <2>2, <2>3, <2>4, <2>6
<1>3. CASE body[b][k] = "store"
  <2>1. new = [values |-> Append(vals, Mem!StoreAt(b, k)), loads |-> loads]
    BY <1>3 DEF TurnOf
  <2>2. Pushes(b, k) /\ Pushed(b, k) = Mem!StoreAt(b, k) /\ body[b][k] # "load"
    BY <1>3 DEF Pushes, Pushed
  <2> QED BY <1>1, <1>2, <2>1, <2>2 DEF TurnIs
<1>4. CASE body[b][k] = "keep"
  <2>1. new = [values |-> Append(vals, Mem!Shared), loads |-> loads]
    BY <1>4 DEF TurnOf
  <2>2. Pushes(b, k) /\ Pushed(b, k) = Mem!Shared /\ body[b][k] # "load"
    BY <1>4 DEF Pushes, Pushed
  <2> QED BY <1>1, <1>2, <2>1, <2>2 DEF TurnIs
<1>5. CASE body[b][k] = "load"
  <2>1. new = [values |-> vals, loads |-> loads \cup {<<<<b, k>>, Mem!Top(vals)>>}]
    BY <1>5 DEF TurnOf
  <2>2. /\ new.values = vals /\ new.loads = loads \cup {<<<<b, k>>, Mem!Top(vals)>>}
        /\ new = [values |-> new.values, loads |-> new.loads]
    BY <2>1, AccFields
  <2>3. ~Pushes(b, k) /\ Len(vals) \in Nat
    BY <1>5 DEF Pushes
  <2> QED BY <1>5, <2>2, <2>3 DEF TurnIs
<1>6. CASE body[b][k] = "define"
  <2>1. new = [values |-> vals, loads |-> loads]
    BY <1>6 DEF TurnOf
  <2>2. new.values = vals /\ new.loads = loads /\ new = [values |-> new.values, loads |-> new.loads]
    BY <2>1, AccFields
  <2>3. ~Pushes(b, k) /\ body[b][k] # "load" /\ Len(vals) \in Nat
    BY <1>6 DEF Pushes
  <2> QED BY <2>2, <2>3 DEF TurnIs
<1> QED BY <1>3, <1>4, <1>5, <1>6 DEF Ops

LEMMA ScanFacts ==
  ASSUME NEW b \in Vertices, body[b] \in Seq(Ops), NEW start \in Seq(Pairs)
  PROVE  \E W : ScanIs(b, start, W)
<1> DEFINE N == Len(body[b])
           Zero == [values |-> start, loads |-> {}]
           Next0(k, acc) ==
             CASE body[b][k] = "load"   -> [acc EXCEPT !.loads = @ \cup {<<<<b, k>>, Mem!Top(acc.values)>>}]
               [] body[b][k] = "store"  -> [acc EXCEPT !.values = Append(@, Mem!StoreAt(b, k))]
               [] body[b][k] = "keep"   -> [acc EXCEPT !.values = Append(@, Mem!Shared)]
               [] body[b][k] = "define" -> acc
           P(f, n) == f = [k \in 0..n |-> IF k = 0 THEN Zero ELSE Next0(k, f[k - 1])]
           E == {n \in Nat : \E f : P(f, n)}
<1>1. N \in Nat /\ \A k \in 1..N : body[b][k] \in Ops
  OBVIOUS
<1> HIDE DEF Next0, Zero
<1>2. 0 \in E
  <2>1. P([k \in 0..0 |-> Zero], 0)
    OBVIOUS
  <2> HIDE DEF P
  <2> QED BY <2>1
<1>3. ASSUME NEW n \in Nat, n \in E PROVE n + 1 \in E
  <2>1. PICK f : P(f, n)
    BY <1>3
  <2> DEFINE h == [k \in 0..(n + 1) |-> IF k = 0 THEN Zero ELSE Next0(k, f[k - 1])]
  <2>2. \A k \in 0..n : h[k] = f[k]
    BY <2>1
  <2>3. P(h, n + 1)
    BY <2>1, <2>2
  <2> HIDE DEF h, P
  <2> QED BY <2>3
<1>4. N \in E
  <2> HIDE DEF E
  <2> QED BY <1>1, <1>2, <1>3, InductionOnSet
<1> DEFINE after == CHOOSE f : P(f, N)
<1>5. P(after, N)
  <2>1. \E f : P(f, N)
    BY <1>4
  <2> HIDE DEF P
  <2> QED BY <2>1, Zenon
<1>6. Mem!Scan(b, start) = after[N]
  BY DEF Mem!Scan, Next0, Zero
<1> HIDE DEF after
<1>7. after[0] = Zero /\ \A k \in 1..N : after[k] = Next0(k, after[k - 1])
  <2>1. \A k \in 0..N : after[k] = IF k = 0 THEN Zero ELSE Next0(k, after[k - 1])
    BY <1>5
  <2>2. \A k \in 1..N : k \in 0..N /\ k # 0
    BY <1>1
  <2>3. 0 \in 0..N
    BY <1>1
  <2> HIDE DEF P
  <2> QED BY <2>1, <2>2, <2>3
<1> HIDE DEF P, E
<1> DEFINE W == [k \in 0..N |-> Mem!Top(after[k].values)]
           Loads(n) == {<<<<b, k>>, W[k - 1]>> : k \in {j \in 1..n : body[b][j] = "load"}}
           Good(n) == /\ after[n] = [values |-> after[n].values, loads |-> after[n].loads]
                      /\ after[n].values \in Seq(Pairs) /\ Len(after[n].values) >= Len(start)
                      /\ \A i \in 1..Len(start) : after[n].values[i] = start[i]
                      /\ after[n].loads = Loads(n)
           S == {n \in Nat : n > N \/ Good(n)}
<1>8. 0 \in S
  <2>1. PICK a : a = after[0]
    OBVIOUS
  <2>2. a.values = start /\ a.loads = {} /\ a = [values |-> a.values, loads |-> a.loads]
    <3>1. a = [values |-> start, loads |-> {}]
      BY <1>7, <2>1 DEF Zero
    <3> QED BY <3>1, AccFields
  <2>3. Loads(0) = {} /\ Len(start) \in Nat
    OBVIOUS
  <2> HIDE DEF Loads
  <2>4. Good(0)
    BY <2>1, <2>2, <2>3
  <2> QED BY <2>4
<1>9. ASSUME NEW n \in Nat, n + 1 <= N, Good(n)
      PROVE  /\ Good(n + 1)
             /\ W[n + 1] = IF Pushes(b, n + 1) THEN Pushed(b, n + 1) ELSE W[n]
  <2>1. PICK k \in 1..N : k = n + 1 /\ k - 1 = n /\ k >= 1 /\ k \in Nat
    BY <1>1, <1>9
  <2>2. PICK vals, loads : vals = after[n].values /\ loads = after[n].loads
    OBVIOUS
  <2>3. PICK new : new = after[k]
    OBVIOUS
  <2>4. new = Next0(k, [values |-> vals, loads |-> loads])
    BY <1>7, <1>9, <2>1, <2>2, <2>3
  <2>5. vals \in Seq(Pairs) /\ Len(vals) >= Len(start) /\ \A i \in 1..Len(start) : vals[i] = start[i]
    BY <1>9, <2>2
  <2>6. body[b][k] \in Ops
    BY <1>1, <2>1
  <2>7. TurnIs(b, k, vals, loads, new)
    <3>1. PICK acc : acc = [values |-> vals, loads |-> loads]
      OBVIOUS
    <3>2. /\ acc.values = vals /\ acc.loads = loads
          /\ \A w : [acc EXCEPT !.values = w] = [values |-> w, loads |-> loads]
          /\ \A w : [acc EXCEPT !.loads = w] = [values |-> vals, loads |-> w]
      BY <3>1, AccFields
    <3>3. new = Next0(k, acc)
      BY <2>4, <3>1
    <3>4. body[b][k] = "load" => new = [values |-> vals, loads |-> loads \cup {<<<<b, k>>, Mem!Top(vals)>>}]
      BY <3>2, <3>3 DEF Next0
    <3>5. body[b][k] = "store" => new = [values |-> Append(vals, Mem!StoreAt(b, k)), loads |-> loads]
      BY <3>2, <3>3 DEF Next0
    <3>6. body[b][k] = "keep" => new = [values |-> Append(vals, Mem!Shared), loads |-> loads]
      BY <3>2, <3>3 DEF Next0
    <3>7. body[b][k] = "define" => new = [values |-> vals, loads |-> loads]
      BY <3>1, <3>3 DEF Next0
    <3>8. TurnOf(b, k, vals, loads, new)
      BY <3>4, <3>5, <3>6, <3>7 DEF TurnOf
    <3> HIDE DEF Good, W, Loads, S
    <3> QED BY <2>1, <2>5, <2>6, <3>8, ScanTurn
  <2>11. /\ new = [values |-> new.values, loads |-> new.loads]
         /\ new.values \in Seq(Pairs) /\ Len(new.values) >= Len(vals)
         /\ \A i \in 1..Len(vals) : new.values[i] = vals[i]
         /\ new.loads = IF body[b][k] = "load" THEN loads \cup {<<<<b, k>>, Mem!Top(vals)>>} ELSE loads
         /\ Mem!Top(new.values) = IF Pushes(b, k) THEN Pushed(b, k) ELSE Mem!Top(vals)
    BY <2>7 DEF TurnIs
  <2>8. W[n] = Mem!Top(vals) /\ W[k] = Mem!Top(new.values)
    BY <1>1, <2>1, <2>2, <2>3
  <2> HIDE DEF W
  <2>9. new.loads = Loads(k)
    <3>1. \A j : j \in 1..k <=> j \in 1..n \/ j = k
      BY <2>1
    <3>2. loads = Loads(n)
      BY <1>9, <2>2
    <3>3. Loads(k) = Loads(n) \cup (IF body[b][k] = "load" THEN {<<<<b, k>>, W[k - 1]>>} ELSE {})
      BY <3>1
    <3> QED BY <2>1, <2>11, <2>8, <3>2, <3>3
  <2>10. Len(new.values) >= Len(start) /\ \A i \in 1..Len(start) : new.values[i] = start[i]
    <3>1. Len(start) \in Nat /\ Len(vals) \in Nat /\ Len(new.values) \in Nat
      BY <2>5, <2>11
    <3> QED BY <2>5, <2>11, <3>1
  <2> HIDE DEF Loads
  <2> QED BY <2>1, <2>3, <2>11, <2>8, <2>9, <2>10
<1>10. ASSUME NEW n \in Nat, n \in S PROVE n + 1 \in S
  <2> HIDE DEF Good
  <2> SUFFICES ASSUME n + 1 <= N PROVE Good(n + 1)
    OBVIOUS
  <2>1. Good(n)
    BY <1>1, <1>10
  <2> QED BY <1>9, <2>1
<1>11. \A n \in 0..N : Good(n)
  <2> HIDE DEF Good
  <2>1. 0 \in S /\ \A n \in Nat : n \in S => n + 1 \in S
    BY <1>8, <1>10
  <2> HIDE DEF S
  <2>2. Nat \subseteq S
    BY <2>1, InductionOnSet
  <2> QED BY <1>1, <2>2 DEF S
<1>12. \A k \in 1..N : W[k] = IF Pushes(b, k) THEN Pushed(b, k) ELSE W[k - 1]
  <2> TAKE k \in 1..N
  <2>1. k - 1 \in Nat /\ k - 1 \in 0..N /\ (k - 1) + 1 = k /\ (k - 1) + 1 <= N
    BY <1>1
  <2> HIDE DEF Good, W
  <2> QED BY <1>9, <1>11, <2>1
<1>13. W[0] = Mem!Top(start) /\ W[N] = Mem!Top(after[N].values)
  BY <1>1, <1>7 DEF Zero
<1>14. Good(N)
  <2> HIDE DEF Good
  <2> QED BY <1>1, <1>11
<1> HIDE DEF W
<1>15. ScanIs(b, start, W)
  BY <1>6, <1>12, <1>13, <1>14 DEF ScanIs
<1> QED BY <1>15

-----------------------------------------------------------------------------
\* What the placement, the renaming and the run rely on once the tree is built:
\* from a block p that leads to s the runner reaches every block above p that is
\* not above s too, and all of them if it misses the idom of s.
FrontOK ==
  \A p \in DOMAIN tree : \A s \in succs[p] : \A x \in DOMAIN tree :
    /\ OnWayUp(Up, x, p)
    /\ OnWayUp(Up, tree[s], p) => ~OnWayUp(Up, x, tree[s])
    => s \in frontier[x]
DefOK ==
  \A d \in Mem!Positions("define"), u \in Mem!Positions("keep") :
    IF u[1] = d[1] THEN d[2] < u[2] ELSE OnWayUp(Up, d[1], u[1])
Kept ==
  /\ succs \in [Vertices -> SUBSET (Vertices \ {Entry})]
  /\ \A n \in DOMAIN tree : succs[n] \subseteq DOMAIN tree
  /\ frontier \in [DOMAIN tree -> SUBSET (DOMAIN tree \ {Entry})]
  /\ FrontOK
  /\ body \in [Vertices -> Bodies]
  /\ \A n \in Vertices \ DOMAIN tree : body[n] = <<>>
  /\ DefOK

LEMMA FrontierHolds ==
  ASSUME TreeInv, Tree!Fixed, NEW p \in Found, NEW s \in succs[p], NEW x \in Found,
         OnWayUp(idom, x, p), OnWayUp(idom, idom[s], p) => ~OnWayUp(idom, x, idom[s]),
         s \in Found, s # Entry
  PROVE  s \in Tree!Frontier(x)
<1>1. Shapes /\ Numbered /\ Tree!Reached = Found
  BY Settled
<1>2. /\ \A b \in Vertices : preds[b] = {q \in Vertices : b \in succs[q]}
      /\ IsFiniteSet(Vertices) /\ Found \subseteq Vertices
  <2>1. IsFiniteSet(Vertices)
    BY PassesAssumption DEF Tree!EntryAssumption, Tree!IsFiniteSet, IsFiniteSet
  <2>2. Found \subseteq Vertices
    BY <1>1 DEF Shapes, Found, Positions
  <2> QED BY <1>1, <2>1, <2>2 DEF Shapes
<1>3. p \in preds[s] \cap Found /\ idom[s] \in Found
  BY <1>2, WayToEntry
<1>4. /\ \A a : a \in Tree!Above(p) <=> OnWayUp(idom, a, p)
      /\ \A a : a \in Tree!Above(idom[s]) <=> OnWayUp(idom, a, idom[s])
  BY <1>3, AboveIsWayUp
<1>5. x \in Tree!Climb(p, idom[s])
  BY <1>4 DEF Tree!Climb
<1>6. Tree!Cardinality(preds[s]) >= 2
  <2> SUFFICES ASSUME ~(Tree!Cardinality(preds[s]) >= 2) PROVE FALSE
    OBVIOUS
  <2>1. IsFiniteSet(preds[s])
    <3>1. preds[s] \in SUBSET Vertices
      BY <1>2
    <3> QED BY <1>2, <3>1, FS_Subset
  <2>2. ~(Cardinality(preds[s]) >= 2)
    BY DEF Tree!Cardinality, Cardinality
  <2>3. \A q \in preds[s] : q = p
    BY <1>3, <2>1, <2>2, AtMostOne
  <2>4. \A q \in Vertices : s \in succs[q] => q = p
    BY <1>2, <2>3
  <2>5. idom[s] = p
    BY <2>4, OneWayIn
  <2>6. OnWayUp(idom, p, p)
    BY WayToEntry
  <2> QED BY <2>5, <2>6
<1> QED BY <1>1, <1>3, <1>5, <1>6 DEF Tree!Frontier

\* Frontiers and true dominance are those of the one tree.
LEMMA SameFrontier ==
  /\ \A a : Mem!Tree!Frontier(a) = Tree!Frontier(a)
  /\ \A a, b : Mem!Tree!TrulyDominates(a, b) <=> Tree!TrulyDominates(a, b)
<1>1. Mem!Tree!Reached = Tree!Reached
  BY SameTree
<1>2. \A S : Mem!Tree!Cardinality(S) = Tree!Cardinality(S)
  BY DEF Mem!Tree!Cardinality, Tree!Cardinality
<1>3. \A b : Mem!Tree!Above(b) = Tree!Above(b)
  BY DEF Mem!Tree!Above, Tree!Above, Mem!Tree!Cardinality, Tree!Cardinality
<1>4. \A p, stop : Mem!Tree!Climb(p, stop) = Tree!Climb(p, stop)
  BY <1>3 DEF Mem!Tree!Climb, Tree!Climb
<1>5. ASSUME NEW a PROVE Mem!Tree!Frontier(a) = Tree!Frontier(a)
  BY <1>1, <1>2, <1>4 DEF Mem!Tree!Frontier, Tree!Frontier
<1>6. \A a, b : Mem!Tree!TrulyDominates(a, b) <=> Tree!TrulyDominates(a, b)
  BY DEF Mem!Tree!TrulyDominates, Tree!TrulyDominates, Mem!Tree!Bypassing, Tree!Bypassing
<1> QED BY <1>5, <1>6

LEMMA AccessIs ==
  ASSUME NEW f \in [Vertices -> Bodies], NEW o, NEW u
  PROVE  u \in Mem!Accesses(f, o) <=>
           \E b \in Vertices : \E k \in DOMAIN f[b] : u = <<b, k>> /\ f[b][k] = o
BY DEF Mem!Accesses

LEMMA BodiesAre ==
  /\ \A c \in Bodies : c \in Seq(Ops) /\ Len(c) \in 0..2 /\ DOMAIN c = 1..Len(c)
  /\ <<>> \in Bodies /\ DOMAIN <<>> = {}
<1>1. \A c \in Bodies : c \in Seq(Ops) /\ Len(c) \in 0..2
  <2>1. ASSUME NEW a \in Ops, NEW z \in Ops
        PROVE  /\ <<>> \in Seq(Ops) /\ Len(<<>>) = 0
               /\ <<a>> \in Seq(Ops) /\ Len(<<a>>) = 1
               /\ <<a, z>> \in Seq(Ops) /\ Len(<<a, z>>) = 2
    OBVIOUS
  <2>2. {"load", "store", "define", "keep"} \subseteq Ops /\ \A n \in {0, 1, 2} : n \in 0..2
    BY DEF Ops
  <2>3. \A c \in Bodies : c = <<>> \/ (\E a \in Ops : c = <<a>>) \/ (\E a, z \in Ops : c = <<a, z>>)
    BY <2>2 DEF Bodies
  <2> QED BY <2>1, <2>2, <2>3
<1>2. \A c \in Seq(Ops) : DOMAIN c = 1..Len(c)
  OBVIOUS
<1>3. <<>> \in Bodies /\ DOMAIN <<>> = {}
  BY DEF Bodies
<1> QED BY <1>1, <1>2, <1>3

LEMMA KeptAtTreeDone ==
  ASSUME MemInv, Mem!TreeDone
  PROVE  Kept'
<1>1. /\ TreeInv /\ Tree!Fixed /\ succs' = succs
      /\ tree' = [n \in Tree!Reached |-> idom[n]]
      /\ frontier' = [n \in Tree!Reached |-> Tree!Frontier(n)]
      /\ body' \in [Vertices -> Bodies] /\ \A n \in Vertices \ Tree!Reached : body'[n] = <<>>
      /\ Mem!DefinedBeforeKept(body')
  BY SameTree, SameFrontier DEF Mem!TreeDone, MemInv
<1>2. Tree!Reached = Found /\ idom[Entry] = Entry /\ Shapes /\ Numbered
  BY <1>1, Settled
<1>3. /\ DOMAIN tree' = Found /\ \A n \in Found : tree'[n] = idom[n] /\ idom[n] \in Found
  BY <1>1, <1>2, WayToEntry
<1>4. Entry \in Found /\ Found \subseteq Vertices /\ idom \in [Vertices -> Vertices]
  <2>1. order[1] = Entry /\ 1 \in Positions /\ order \in Seq(Vertices)
    BY <1>2 DEF Shapes, Numbered, Positions
  <2> QED BY <1>2, <2>1 DEF Found, Positions, Shapes
<1>5. PICK new : new = Up'
  OBVIOUS
<1>6. \A n \in Found : new[n] = idom[n] /\ idom[n] \in Found
  BY <1>3, <1>4, <1>5 DEF Up
<1>7. \A n \in Found : \A a : OnWayUp(new, a, n) <=> OnWayUp(idom, a, n)
  BY <1>4, <1>6, WaySame
<1>8. succs \in [Vertices -> SUBSET (Vertices \ {Entry})] /\ preds = [n \in Vertices |-> {p \in Vertices : n \in succs[p]}]
  BY <1>2 DEF Shapes
<1>9. \A n \in Found : succs[n] \subseteq Found
  <2>1. stack = <<>>
    BY <1>1 DEF TreeInv, Tree!Fixed
  <2>2. \A f \in 1..Len(stack) : FALSE
    BY <2>1
  <2> QED BY <1>1, <2>2 DEF TreeInv, Visiting
<1>10. \A x \in Found : frontier'[x] = Tree!Frontier(x) /\ Tree!Frontier(x) \subseteq Found \ {Entry}
  <2>1. preds[Entry] = {}
    BY <1>4, <1>8
  <2> QED BY <1>1, <1>2, <2>1 DEF Tree!Frontier
<1>11. frontier' \in [DOMAIN tree' -> SUBSET (DOMAIN tree' \ {Entry})]
  BY <1>1, <1>2, <1>3, <1>10
<1>12. ASSUME NEW p \in Found, NEW s \in succs[p], NEW x \in Found,
              OnWayUp(new, x, p), OnWayUp(new, idom[s], p) => ~OnWayUp(new, x, idom[s])
       PROVE  s \in Tree!Frontier(x)
  <2>1. s \in Found /\ s # Entry /\ idom[s] \in Found
    BY <1>3, <1>4, <1>8, <1>9
  <2>2. /\ OnWayUp(new, x, p) <=> OnWayUp(idom, x, p)
        /\ OnWayUp(new, idom[s], p) <=> OnWayUp(idom, idom[s], p)
        /\ OnWayUp(new, x, idom[s]) <=> OnWayUp(idom, x, idom[s])
    BY <1>7, <2>1
  <2> QED BY <1>1, <1>12, <2>1, <2>2, FrontierHolds
<1>13. FrontOK'
  <2>1. ASSUME NEW p \in Found, NEW s \in succs[p], NEW x \in Found,
               OnWayUp(new, x, p), OnWayUp(new, tree'[s], p) => ~OnWayUp(new, x, tree'[s])
        PROVE  s \in frontier'[x]
    <3>1. tree'[s] = idom[s]
      BY <1>3, <1>9
    <3> QED BY <1>10, <1>12, <2>1, <3>1
  <2>2. \A a, n : OnWayUp(Up, a, n)' <=> OnWayUp(new, a, n)
    BY <1>5 DEF OnWayUp, UpClosed
  <2> QED BY <1>1, <1>3, <2>1, <2>2 DEF FrontOK
<1>14. PICK f : f = body'
  OBVIOUS
<1>15. ASSUME NEW o, NEW u \in Mem!Accesses(f, o) PROVE u[1] \in Found
  <2>1. PICK b \in Vertices : \E k \in DOMAIN f[b] : u = <<b, k>> /\ f[b][k] = o
    BY <1>1, <1>14, <1>15, AccessIs
  <2>2. f[b] # <<>>
    BY <2>1, BodiesAre
  <2>3. b \in Found
    BY <1>1, <1>2, <1>14, <2>2
  <2> QED BY <2>1, <2>3
<1>16. ASSUME NEW d \in Mem!Accesses(f, "define"), NEW u \in Mem!Accesses(f, "keep")
       PROVE  IF u[1] = d[1] THEN d[2] < u[2] ELSE OnWayUp(new, d[1], u[1])
  <2>1. IF u[1] = d[1] THEN d[2] < u[2] ELSE Mem!Tree!TrulyDominates(d[1], u[1])
    BY <1>1, <1>14 DEF Mem!DefinedBeforeKept
  <2>2. d[1] \in Found /\ u[1] \in Found
    BY <1>15
  <2>3. CASE u[1] # d[1]
    <3>1. Tree!TrulyDominates(d[1], u[1])
      BY <2>1, <2>3, SameFrontier
    <3>2. Tree!Dominates(d[1], u[1])
      BY <1>1, <1>2, <2>2, <3>1, TreeInvDominance DEF Tree!NoDominanceLost
    <3>3. OnWayUp(idom, d[1], u[1])
      <4>1. CASE d[1] = Entry
        BY <1>1, <2>2, <4>1, WayToEntry
      <4>2. CASE d[1] \in Tree!Above(u[1])
        BY <1>1, <2>2, <4>2, AboveIsWayUp
      <4> QED BY <3>2, <4>1, <4>2 DEF Tree!Dominates
    <3> QED BY <1>7, <2>2, <2>3, <3>3
  <2> QED BY <2>1, <2>3
<1>17. DefOK'
  <2>1. \A a, n : OnWayUp(Up, a, n)' <=> OnWayUp(new, a, n)
    BY <1>5 DEF OnWayUp, UpClosed
  <2>2. \A o : Mem!Positions(o)' = Mem!Accesses(f, o)
    BY <1>14 DEF Mem!Positions, Mem!Accesses
  <2> QED BY <1>16, <2>1, <2>2 DEF DefOK
<1> QED BY <1>1, <1>2, <1>3, <1>8, <1>9, <1>11, <1>13, <1>17 DEF Kept

-----------------------------------------------------------------------------
\* The phis are closed under the frontier, and the entry has none.
Placed ==
  /\ phis \subseteq DOMAIN tree \ {Entry}
  /\ \A x \in Mem!DefBlocks \cup phis : frontier[x] \subseteq phis

LEMMA DefBlocksAre ==
  ASSUME TreeKept, Kept
  PROVE  /\ Mem!DefBlocks \subseteq DOMAIN tree
         /\ \A b \in Vertices : \A k \in 1..Len(body[b]) : Pushes(b, k) => b \in Mem!DefBlocks
<1>1. body \in [Vertices -> Bodies]
  BY DEF Kept
<1>2. \A o, u : u \in Mem!Positions(o) <=>
                  \E b \in Vertices : \E k \in DOMAIN body[b] : u = <<b, k>> /\ body[b][k] = o
  BY <1>1, AccessIs DEF Mem!Positions
<1>3. ASSUME NEW p \in Mem!Positions("store") \cup Mem!Positions("keep") PROVE p[1] \in DOMAIN tree
  <2>1. PICK b \in Vertices : \E k \in DOMAIN body[b] : p = <<b, k>>
    BY <1>2
  <2>2. body[b] # <<>>
    BY <2>1, BodiesAre
  <2> QED BY <2>1, <2>2 DEF Kept
<1>4. ASSUME NEW b \in Vertices, NEW k \in 1..Len(body[b]), Pushes(b, k)
      PROVE  b \in Mem!DefBlocks
  <2>1. k \in DOMAIN body[b]
    BY <1>1, BodiesAre
  <2>2. <<b, k>> \in Mem!Positions("store") \cup Mem!Positions("keep")
    BY <1>2, <1>4, <2>1 DEF Pushes
  <2>3. <<b, k>>[1] = b
    OBVIOUS
  <2> QED BY <2>2, <2>3 DEF Mem!DefBlocks
<1> QED BY <1>3, <1>4 DEF Mem!DefBlocks

LEMMA PlacedAtPlacePhis ==
  ASSUME TreeKept, Kept, NEW phi, phi = Mem!PhiBlocks(Mem!DefBlocks)
  PROVE  /\ phi \subseteq DOMAIN tree \ {Entry}
         /\ \A x \in Mem!DefBlocks \cup phi : frontier[x] \subseteq phi
<1> DEFINE T == DOMAIN tree
           C == Cardinality(Vertices)
           Step(A) == A \cup UNION {frontier[b] : b \in A}
           P(f, n) == f = [k \in 0..n |-> IF k = 0 THEN Mem!DefBlocks ELSE Step(f[k - 1])]
           E == {n \in Nat : \E f : P(f, n)}
<1>1. /\ IsFiniteSet(Vertices) /\ C \in Nat
  <2>1. IsFiniteSet(Vertices)
    BY PassesAssumption DEF Tree!EntryAssumption, Tree!IsFiniteSet, IsFiniteSet
  <2> QED BY <2>1, FS_CardinalityType
<1>2. /\ T \subseteq Vertices /\ Mem!DefBlocks \subseteq T
      /\ \A x \in T : frontier[x] \subseteq T \ {Entry}
  BY DefBlocksAre DEF TreeKept, Kept
<1> HIDE DEF Step
<1>3. 0 \in E
  <2>1. P([k \in 0..0 |-> Mem!DefBlocks], 0)
    OBVIOUS
  <2> HIDE DEF P
  <2> QED BY <2>1
<1>4. ASSUME NEW n \in Nat, n \in E PROVE n + 1 \in E
  <2>1. PICK f : P(f, n)
    BY <1>4
  <2> DEFINE h == [k \in 0..(n + 1) |-> IF k = 0 THEN Mem!DefBlocks ELSE Step(f[k - 1])]
  <2>2. \A k \in 0..n : h[k] = f[k]
    BY <2>1
  <2>3. P(h, n + 1)
    BY <2>1, <2>2
  <2> HIDE DEF h, P
  <2> QED BY <2>3
<1>5. C \in E
  <2> HIDE DEF E, C
  <2> QED BY <1>1, <1>3, <1>4, InductionOnSet
<1> DEFINE reach == CHOOSE f : P(f, C)
<1>6. P(reach, C)
  <2>1. \E f : P(f, C)
    BY <1>5
  <2> HIDE DEF P
  <2> QED BY <2>1, Zenon
<1>7. phi = UNION {frontier[b] : b \in reach[C]}
  BY DEF Mem!PhiBlocks, Step, Mem!Cardinality, Cardinality
<1> HIDE DEF reach
<1>8. reach[0] = Mem!DefBlocks /\ \A n \in 0..(C - 1) : reach[n + 1] = Step(reach[n])
  <2> HIDE DEF C
  <2>1. \A k \in 0..C : reach[k] = IF k = 0 THEN Mem!DefBlocks ELSE Step(reach[k - 1])
    BY <1>6
  <2>2. 0 \in 0..C /\ \A n \in 0..(C - 1) : n + 1 \in 0..C /\ n + 1 # 0 /\ (n + 1) - 1 = n
    BY <1>1
  <2> HIDE DEF P
  <2> QED BY <2>1, <2>2
<1> HIDE DEF P, E
<1>9. PICK g : g = [A \in SUBSET Vertices |-> A \cup UNION {frontier[b] : b \in A \cap T}]
  OBVIOUS
<1>10. g \in [SUBSET Vertices -> SUBSET Vertices] /\ \A A \in SUBSET Vertices : A \subseteq g[A]
  BY <1>2, <1>9
<1>11. \A A \in SUBSET T : Step(A) = g[A] /\ g[A] \in SUBSET T
  <2>1. \A A \in SUBSET T : A \cap T = A /\ A \in SUBSET Vertices
    BY <1>2
  <2> QED BY <1>2, <1>9, <2>1 DEF Step
<1> DEFINE S == {n \in Nat : n <= C => reach[n] \in SUBSET T}
<1>12. \A n \in 0..C : reach[n] \in SUBSET T
  <2> HIDE DEF C
  <2>1. 0 \in S
    BY <1>2, <1>8
  <2>2. ASSUME NEW n \in Nat, n \in S PROVE n + 1 \in S
    <3> SUFFICES ASSUME n + 1 <= C PROVE reach[n + 1] \in SUBSET T
      OBVIOUS
    <3>1. reach[n] \in SUBSET T /\ reach[n + 1] = Step(reach[n])
      BY <1>1, <1>8, <2>2
    <3> QED BY <1>11, <3>1
  <2> HIDE DEF S
  <2>3. Nat \subseteq S
    BY <2>1, <2>2, InductionOnSet
  <2> QED BY <1>1, <2>3 DEF S
<1>13. \A n \in 0..(C - 1) : reach[n + 1] = g[reach[n]]
  <2> TAKE n \in 0..(C - 1)
  <2> HIDE DEF C
  <2>1. n \in 0..C
    BY <1>1
  <2> QED BY <1>8, <1>11, <1>12, <2>1
<1>14. g[reach[C]] = reach[C]
  <2>1. reach[0] \in SUBSET Vertices
    BY <1>2, <1>8
  <2> QED BY <1>1, <1>10, <1>13, <2>1, GrowthStops
<1>15. reach[C] \in SUBSET T /\ Step(reach[C]) = reach[C]
  <2> HIDE DEF C
  <2>1. C \in 0..C
    BY <1>1
  <2> QED BY <1>11, <1>12, <1>14, <2>1
<1>16. phi \subseteq reach[C]
  BY <1>7, <1>15 DEF Step
<1>17. Mem!DefBlocks \subseteq reach[C]
  <2> DEFINE R == {n \in Nat : n <= C => Mem!DefBlocks \subseteq reach[n]}
  <2> HIDE DEF C
  <2>1. 0 \in R
    BY <1>8
  <2>2. ASSUME NEW n \in Nat, n \in R PROVE n + 1 \in R
    <3> SUFFICES ASSUME n + 1 <= C PROVE Mem!DefBlocks \subseteq reach[n + 1]
      OBVIOUS
    <3>1. Mem!DefBlocks \subseteq reach[n] /\ reach[n + 1] = Step(reach[n])
      BY <1>1, <1>8, <2>2
    <3> QED BY <3>1 DEF Step
  <2> HIDE DEF R
  <2>3. Nat \subseteq R
    BY <2>1, <2>2, InductionOnSet
  <2> QED BY <1>1, <2>3 DEF R
<1>18. \A x \in Mem!DefBlocks \cup phi : frontier[x] \subseteq phi
  BY <1>7, <1>16, <1>17
<1>19. phi \subseteq T \ {Entry}
  BY <1>2, <1>7, <1>15
<1> QED BY <1>18, <1>19

-----------------------------------------------------------------------------
\* V[b][k] is on top of the value stack in the call for b after k accesses; in
\* the beginning it is the phi of b or what the call for its parent left.
Begun == DOMAIN tree \ ToCome
Out(V, b) == V[b][Len(body[b])]
Carried(V) ==
  \A b \in Begun :
    /\ V[b][0] = IF b \in phis THEN Mem!PhiAt(b) ELSE IF b = Entry THEN Undef ELSE Out(V, tree[b])
    /\ \A k \in 1..Len(body[b]) : V[b][k] = IF Pushes(b, k) THEN Pushed(b, k) ELSE V[b][k - 1]

\* A load was replaced by what was on top, and a phi takes what was left there.
Replaced(V) ==
  renamed = {<<p, V[p[1]][p[2] - 1]>> : p \in {q \in Mem!Positions("load") : q[1] \in Begun}}
Merged(V) ==
  \A b \in Begun : \A s \in succs[b] \cap phis : <<s, b, Out(V, b)>> \in incoming

\* cut[f] is how high the value stack is when the call of frame f turns to its
\* children: what is on top there is what the call left.
TopOf(k) == IF k = 0 THEN Undef ELSE values[k]
StackedBy(V, cut) ==
  /\ \A f \in 0..Len(path) : cut[f] \in Nat
  /\ \A f, g \in 0..Len(path) : f <= g => cut[f] <= cut[g]
  /\ cut[0] = 0 /\ cut[Len(path)] = Len(values)
  /\ \A f \in 1..Len(path) : /\ path[f].pushed = cut[f] - cut[f - 1]
                             /\ TopOf(cut[f]) = Out(V, path[f].block)
Stacked(V) ==
  /\ values \in Seq(Pairs)
  /\ \A f \in 1..Len(path) : path[f].block \in Begun
  /\ \E cut : StackedBy(V, cut)

RenameInv(V) == Carried(V) /\ Replaced(V) /\ Merged(V) /\ Stacked(V)

LEMMA EnterScan ==
  ASSUME NEW b \in Vertices, Mem!Enter(b)
  PROVE  \E start, scanned :
           /\ start = values \o (IF b \in phis THEN <<Mem!PhiAt(b)>> ELSE <<>>)
           /\ scanned = Mem!Scan(b, start)
           /\ values' = scanned.values
           /\ renamed' = renamed \cup scanned.loads
           /\ incoming' = incoming \cup {<<s, b, Mem!Top(scanned.values)>> : s \in succs[b] \cap phis}
           /\ path' = Append(IF path = <<>> THEN <<>>
                             ELSE Append(Tree!Front(path), [path[Len(path)] EXCEPT !.left = @ \ {b}]),
                             [block |-> b, left |-> Mem!Children(b),
                              pushed |-> Len(scanned.values) - Len(values)])
<1>1. Mem!Last(path) = path[Len(path)] /\ Mem!Front(path) = Tree!Front(path)
  BY DEF Mem!Last, Mem!Front, Tree!Front
<1>2. Mem!PhisAfter(b) = succs[b] \cap phis
  BY DEF Mem!PhisAfter
<1>3. PICK start : start = values \o (IF b \in phis THEN <<Mem!PhiAt(b)>> ELSE <<>>)
  OBVIOUS
<1>4. PICK scanned : scanned = Mem!Scan(b, start)
  OBVIOUS
<1>5. /\ values' = scanned.values
      /\ renamed' = renamed \cup scanned.loads
      /\ incoming' = incoming \cup {<<s, b, Mem!Top(scanned.values)>> : s \in Mem!PhisAfter(b)}
      /\ path' = Append(IF path = <<>> THEN <<>>
                        ELSE Append(Mem!Front(path), [Mem!Last(path) EXCEPT !.left = @ \ {b}]),
                        [block |-> b, left |-> Mem!Children(b),
                         pushed |-> Len(scanned.values) - Len(values)])
  BY <1>3, <1>4 DEF Mem!Enter
<1> QED BY <1>1, <1>2, <1>3, <1>4, <1>5

\* The parent of a block whose call has begun has begun before.
LEMMA BegunUp ==
  ASSUME TreeKept, NEW x \in Begun
  PROVE  tree[x] \in Begun /\ Up[x] = tree[x] /\ x \in Vertices
<1>1. /\ x \in DOMAIN tree /\ tree[x] \in DOMAIN tree /\ DOMAIN tree \subseteq Vertices
      /\ Up \in [Vertices -> Vertices] /\ Up[x] = tree[x]
  BY DEF Begun, TreeKept, Up
<1>2. ASSUME tree[x] \in ToCome PROVE x \in ToCome
  <2>1. \A c : OnWayUp(Up, c, tree[x]) => OnWayUp(Up, c, x)
    BY <1>1, WayUp
  <2> QED BY <1>1, <1>2, <2>1 DEF ToCome
<1> QED BY <1>1, <1>2 DEF Begun

LEMMA StartIs ==
  ASSUME values \in Seq(Pairs), NEW b \in Vertices, NEW start,
         start = values \o (IF b \in phis THEN <<Mem!PhiAt(b)>> ELSE <<>>)
  PROVE  /\ start \in Seq(Pairs) /\ Len(start) >= Len(values)
         /\ \A i \in 1..Len(values) : start[i] = values[i]
         /\ Mem!Top(start) = IF b \in phis THEN Mem!PhiAt(b) ELSE Mem!Top(values)
<1>1. Len(values) \in Nat
  OBVIOUS
<1>2. CASE b \in phis
  <2>1. PICK e : e = Mem!PhiAt(b)
    OBVIOUS
  <2>2. e \in Pairs
    BY <2>1 DEF Mem!PhiAt, Pairs
  <2>3. start = Append(values, e)
    BY <1>2, <2>1, <2>2
  <2>4. /\ start \in Seq(Pairs) /\ Len(start) = Len(values) + 1 /\ start[Len(values) + 1] = e
        /\ \A i \in 1..Len(values) : start[i] = values[i]
    BY <2>2, <2>3, AppendAt
  <2>5. Mem!Top(start) = e
    <3>1. Mem!Top(start) = IF Len(start) = 0 THEN Undef ELSE start[Len(start)]
      BY <2>4, TopIs
    <3>2. Len(start) # 0 /\ start[Len(start)] = e
      BY <1>1, <2>4
    <3> QED BY <3>1, <3>2
  <2> QED BY <1>1, <1>2, <2>1, <2>4, <2>5
<1>3. CASE b \notin phis
  <2>1. start = values
    BY <1>3
  <2> QED BY <1>1, <1>3, <2>1
<1> QED BY <1>2, <1>3

LEMMA EnterValues ==
  ASSUME TreeKept, Renaming, Kept, Placed, NEW b \in Vertices, Mem!Enter(b),
         NEW V, RenameInv(V)
  PROVE  \E W : RenameInv(W)'
<1> DEFINE n == Len(path)
<1>1. /\ phase = "rename" /\ UNCHANGED <<succs, tree, phis, phase, body>>
      /\ IF path = <<>> THEN b = Entry ELSE b \in path[n].left
  BY EnterFacts DEF Mem!Enter, Mem!code
<1>2. b \in ToCome /\ ToCome' = ToCome \ {b} /\ ToCome \subseteq DOMAIN tree
  BY EnterToCome DEF ToCome
<1>3. Begun' = Begun \cup {b} /\ b \notin Begun /\ b \in DOMAIN tree
  BY <1>1, <1>2 DEF Begun
<1>4. Carried(V) /\ Replaced(V) /\ Merged(V) /\ Stacked(V)
  BY DEF RenameInv
<1>5. PICK start, scanned :
           /\ start = values \o (IF b \in phis THEN <<Mem!PhiAt(b)>> ELSE <<>>)
           /\ scanned = Mem!Scan(b, start)
           /\ values' = scanned.values
           /\ renamed' = renamed \cup scanned.loads
           /\ incoming' = incoming \cup {<<s, b, Mem!Top(scanned.values)>> : s \in succs[b] \cap phis}
           /\ path' = Append(IF path = <<>> THEN <<>>
                             ELSE Append(Tree!Front(path), [path[Len(path)] EXCEPT !.left = @ \ {b}]),
                             [block |-> b, left |-> Mem!Children(b),
                              pushed |-> Len(scanned.values) - Len(values)])
  BY EnterScan
<1>6. /\ start \in Seq(Pairs) /\ Len(start) >= Len(values)
      /\ \A i \in 1..Len(values) : start[i] = values[i]
      /\ Mem!Top(start) = IF b \in phis THEN Mem!PhiAt(b) ELSE Mem!Top(values)
  BY <1>4, <1>5, StartIs DEF Stacked
<1>7. \A x \in Vertices : body[x] \in Seq(Ops) /\ Len(body[x]) \in Nat /\ DOMAIN body[x] = 1..Len(body[x])
  BY BodiesAre DEF Kept
<1>8. PICK w : ScanIs(b, start, w)
  BY <1>6, <1>7, ScanFacts
<1>9. /\ w[0] = Mem!Top(start)
      /\ \A k \in 1..Len(body[b]) : w[k] = IF Pushes(b, k) THEN Pushed(b, k) ELSE w[k - 1]
      /\ scanned.loads = {<<<<b, k>>, w[k - 1]>> : k \in {j \in 1..Len(body[b]) : body[b][j] = "load"}}
      /\ values' \in Seq(Pairs) /\ Len(values') >= Len(start)
      /\ \A i \in 1..Len(start) : values'[i] = start[i]
      /\ Mem!Top(values') = w[Len(body[b])]
  BY <1>5, <1>8 DEF ScanIs
<1>10. PICK W : W = [x \in Vertices |-> IF x = b THEN w ELSE V[x]]
  OBVIOUS
<1>11. Begun \subseteq Vertices /\ W[b] = w /\ \A x \in Begun : W[x] = V[x] /\ x # b
  BY <1>3, <1>10 DEF Begun, TreeKept
<1>12. PICK cut : StackedBy(V, cut)
  BY <1>4 DEF Stacked
<1>13. PICK P : path \in Seq(Calls(P))
  BY DEF Renaming
<1>14. n \in Nat /\ (path = <<>> <=> n = 0) /\ (path # <<>> => n \in 1..n)
  BY <1>13
<1>15. Len(values) \in Nat /\ Len(values') \in Nat /\ Len(values') >= Len(values)
       /\ \A i \in 1..Len(values) : values'[i] = values[i]
  <2>1. Len(values) \in Nat /\ Len(start) \in Nat /\ Len(values') \in Nat
    BY <1>4, <1>6, <1>9 DEF Stacked
  <2> QED BY <1>6, <1>9, <2>1
<1>16. /\ b = Entry => Mem!Top(values) = Undef
       /\ b # Entry => tree[b] \in Begun /\ Mem!Top(values) = Out(V, tree[b])
  <2>1. Mem!Top(values) = TopOf(Len(values))
    BY <1>4, TopIs DEF Stacked, TopOf
  <2>2. CASE path = <<>>
    <3>1. Len(values) = 0 /\ b = Entry
      BY <1>1, <1>12, <1>14, <2>2 DEF StackedBy
    <3> QED BY <2>1, <3>1 DEF TopOf
  <2>3. CASE path # <<>>
    <3>1. b \in Mem!Children(path[n].block) /\ path[n].block \in Begun /\ path[n].block \in DOMAIN tree
      BY <1>1, <1>4, <1>14, <2>3 DEF Renaming, Stacked, Begun
    <3>2. b # Entry
      BY <3>1, ChildFacts
    <3>3. tree[b] = path[n].block
      BY <3>1 DEF Mem!Children
    <3>4. TopOf(Len(values)) = Out(V, path[n].block)
      BY <1>12, <1>14, <2>3 DEF StackedBy
    <3> QED BY <2>1, <3>1, <3>2, <3>3, <3>4
  <2> QED BY <2>2, <2>3
<1>17. /\ \A x, k : (Pushes(x, k)' <=> Pushes(x, k)) /\ Pushed(x, k)' = Pushed(x, k)
       /\ \A x : Out(W, x)' = W[x][Len(body[x])]
       /\ Mem!Positions("load")' = Mem!Positions("load")
  BY <1>1 DEF Pushes, Pushed, Out, Mem!Positions, Mem!Accesses
<1>18. Carried(W)'
  <2>1. ASSUME NEW x \in Begun \cup {b}
        PROVE  /\ W[x][0] = IF x \in phis THEN Mem!PhiAt(x)
                            ELSE IF x = Entry THEN Undef ELSE W[tree[x]][Len(body[tree[x]])]
               /\ \A k \in 1..Len(body[x]) : W[x][k] = IF Pushes(x, k) THEN Pushed(x, k) ELSE W[x][k - 1]
    <3>1. CASE x = b
      <4>1. b # Entry => W[tree[b]] = V[tree[b]]
        BY <1>11, <1>16
      <4>2. W[x][0] = IF x \in phis THEN Mem!PhiAt(x)
                      ELSE IF x = Entry THEN Undef ELSE W[tree[x]][Len(body[tree[x]])]
        BY <1>6, <1>9, <1>11, <1>16, <3>1, <4>1 DEF Out
      <4> QED BY <1>9, <1>11, <3>1, <4>2
    <3>2. CASE x \in Begun
      <4>1. tree[x] \in Begun
        BY <3>2, BegunUp
      <4>2. W[x] = V[x] /\ W[tree[x]] = V[tree[x]]
        BY <1>11, <3>2, <4>1
      <4> QED BY <1>4, <3>2, <4>2 DEF Carried, Out
    <3> QED BY <3>1, <3>2
  <2> QED BY <1>1, <1>3, <1>17, <2>1 DEF Carried
<1>19. Replaced(W)'
  <2> DEFINE old == {q \in Mem!Positions("load") : q[1] \in Begun}
             new == {q \in Mem!Positions("load") : q[1] \in Begun \cup {b}}
             mine == {j \in 1..Len(body[b]) : body[b][j] = "load"}
  <2>1. renamed = {<<p, V[p[1]][p[2] - 1]>> : p \in old}
    BY <1>4 DEF Replaced
  <2>2. \A p \in old : W[p[1]] = V[p[1]]
    BY <1>11
  <2>3. renamed = {<<p, W[p[1]][p[2] - 1]>> : p \in old}
    BY <2>1, <2>2
  <2>4. \A p : p \in new <=> p \in old \/ \E k \in mine : p = <<b, k>>
    <3>1. \A p : p \in Mem!Positions("load") <=>
                   \E x \in Vertices : \E k \in DOMAIN body[x] : p = <<x, k>> /\ body[x][k] = "load"
      BY AccessIs DEF Mem!Positions, Kept
    <3>2. ASSUME NEW p \in new, p \notin old PROVE \E k \in mine : p = <<b, k>>
      BY <1>7, <3>1, <3>2
    <3>3. ASSUME NEW k \in mine PROVE <<b, k>> \in new
      BY <1>7, <3>1
    <3> QED BY <3>2, <3>3
  <2>5. scanned.loads = {<<<<b, k>>, W[b][k - 1]>> : k \in mine}
    BY <1>9, <1>11
  <2>6. renamed' = {<<p, W[p[1]][p[2] - 1]>> : p \in new}
    <3>1. \A k \in mine : <<b, k>>[1] = b /\ <<b, k>>[2] = k
      OBVIOUS
    <3> HIDE DEF old, new, mine
    <3>2. ASSUME NEW r PROVE r \in renamed' <=> \E p \in new : r = <<p, W[p[1]][p[2] - 1]>>
      <4>1. r \in renamed' <=> \/ \E p \in old : r = <<p, W[p[1]][p[2] - 1]>>
                               \/ \E k \in mine : r = <<<<b, k>>, W[b][k - 1]>>
        BY <1>5, <2>3, <2>5
      <4> QED BY <2>4, <3>1, <4>1
    <3> QED BY <3>2
  <2> QED BY <1>3, <1>17, <2>6 DEF Replaced
<1>20. Merged(W)'
  <2>1. ASSUME NEW x \in Begun \cup {b}, NEW s \in succs[x] \cap phis
        PROVE  <<s, x, W[x][Len(body[x])]>> \in incoming'
    <3>1. CASE x = b
      BY <1>5, <1>9, <1>11, <2>1, <3>1
    <3>2. CASE x \in Begun
      BY <1>4, <1>5, <1>11, <2>1, <3>2 DEF Merged, Out
    <3> QED BY <3>1, <3>2
  <2> QED BY <1>1, <1>3, <1>17, <2>1 DEF Merged
<1>21. PICK q : q = Len(values') - Len(values)
  OBVIOUS
<1>22. /\ Len(path') = n + 1
       /\ \A f \in 1..n : path'[f].block = path[f].block /\ path'[f].pushed = path[f].pushed
       /\ path'[n + 1].block = b /\ path'[n + 1].pushed = q
  <2>1. path' = Append(IF path = <<>> THEN <<>>
                       ELSE Append(Tree!Front(path), [path[Len(path)] EXCEPT !.left = @ \ {b}]),
                       [block |-> b, left |-> Mem!Children(b), pushed |-> q])
    BY <1>5, <1>21
  <2>2. Mem!Children(b) \in SUBSET DOMAIN tree
    BY DEF Mem!Children, Mem!Reached
  <2> QED BY <1>3, <1>13, <2>1, <2>2, EnterFrames
<1>23. PICK cut2 : cut2 = [f \in 0..(n + 1) |-> IF f = n + 1 THEN Len(values') ELSE cut[f]]
  OBVIOUS
<1>24. /\ \A f \in 0..n : cut[f] \in Nat /\ cut[f] <= Len(values)
       /\ \A f, g \in 0..n : f <= g => cut[f] <= cut[g]
       /\ cut[0] = 0 /\ cut[n] = Len(values)
       /\ \A f \in 1..n : path[f].pushed = cut[f] - cut[f - 1] /\ TopOf(cut[f]) = Out(V, path[f].block)
  <2>1. \A f \in 0..n : f <= n /\ n \in 0..n
    BY <1>14
  <2> QED BY <1>12, <2>1 DEF StackedBy
<1>25. /\ \A f \in 0..n : cut2[f] = cut[f]
       /\ cut2[n + 1] = Len(values')
       /\ \A f \in 0..(n + 1) : f \in 0..n \/ f = n + 1
       /\ \A f \in 1..(n + 1) : f \in 1..n \/ f = n + 1
       /\ \A f \in 1..n : f - 1 \in 0..n /\ f \in 0..n
       /\ (n + 1) - 1 = n /\ n \in 0..n /\ 0 \in 0..n /\ ~(n + 1 \in 0..n)
       /\ \A g \in 0..n : ~(n + 1 <= g)
  BY <1>14, <1>23
<1>26. \A f \in 0..n : TopOf(cut[f])' = TopOf(cut[f])
  <2> TAKE f \in 0..n
  <2>1. cut[f] = 0 \/ cut[f] \in 1..Len(values)
    BY <1>15, <1>24
  <2> QED BY <1>15, <2>1 DEF TopOf
<1>30. PICK h : h = Len(values')
  OBVIOUS
<1>27. TopOf(h)' = w[Len(body[b])]
  <2>1. Mem!Top(values') = IF h = 0 THEN Undef ELSE values'[h]
    BY <1>9, <1>30, TopIs
  <2> QED BY <1>9, <2>1 DEF TopOf
<1>28. StackedBy(W, cut2)'
  <2>1. \A f \in 0..(n + 1) : cut2[f] \in Nat
    BY <1>15, <1>24, <1>25
  <2>2. \A f, g \in 0..(n + 1) : f <= g => cut2[f] <= cut2[g]
    <3> SUFFICES ASSUME NEW f \in 0..(n + 1), NEW g \in 0..(n + 1), f <= g PROVE cut2[f] <= cut2[g]
      OBVIOUS
    <3>1. CASE f \in 0..n /\ g \in 0..n
      BY <1>24, <1>25, <3>1
    <3>2. CASE f \in 0..n /\ g = n + 1
      BY <1>15, <1>24, <1>25, <3>2
    <3>3. CASE f = n + 1 /\ g = n + 1
      BY <1>15, <1>25, <3>3
    <3> QED BY <1>25, <3>1, <3>2, <3>3
  <2>3. ASSUME NEW f \in 1..(n + 1)
        PROVE  /\ path'[f].pushed = cut2[f] - cut2[f - 1]
               /\ TopOf(cut2[f])' = W[path'[f].block][Len(body[path'[f].block])]
    <3>1. CASE f \in 1..n
      <4>1. cut2[f] = cut[f] /\ cut2[f - 1] = cut[f - 1] /\ TopOf(cut2[f])' = TopOf(cut[f])
        BY <1>25, <1>26, <3>1
      <4>2. path[f].block \in Begun
        BY <1>4, <3>1 DEF Stacked
      <4> QED BY <1>11, <1>22, <1>24, <3>1, <4>1, <4>2 DEF Out
    <3>2. CASE f = n + 1
      <4>1. cut2[f] = h /\ cut2[f - 1] = Len(values)
        BY <1>24, <1>25, <1>30, <3>2
      <4>2. path'[f].block = b /\ path'[f].pushed = q
        BY <1>22, <3>2
      <4> QED BY <1>11, <1>21, <1>27, <1>30, <4>1, <4>2
    <3> QED BY <1>25, <3>1, <3>2
  <2>4. cut2[0] = 0 /\ cut2[n + 1] = Len(values')
    BY <1>24, <1>25
  <2> QED BY <1>17, <1>22, <2>1, <2>2, <2>3, <2>4 DEF StackedBy
<1>29. Stacked(W)'
  <2>1. \A f \in 1..(n + 1) : path'[f].block \in Begun \cup {b}
    BY <1>4, <1>22, <1>25 DEF Stacked
  <2> QED BY <1>3, <1>9, <1>22, <1>28, <2>1 DEF Stacked
<1> QED BY <1>18, <1>19, <1>20, <1>29 DEF RenameInv

\* The end of a call takes off the value stack what the call pushed.
LEMMA LeaveValues ==
  ASSUME TreeKept, Renaming, Mem!Leave, NEW V, RenameInv(V)
  PROVE  RenameInv(V)'
<1> DEFINE n == Len(path)
<1>1. /\ ToCome' = ToCome /\ UNCHANGED <<succs, tree, phis, incoming>>
      /\ n \in Nat /\ n >= 1 /\ Len(path') = n - 1 /\ \A f \in 1..(n - 1) : path'[f] = path[f]
  BY LeaveToCome
<1>2. /\ body' = body /\ renamed' = renamed
      /\ values' = SubSeq(values, 1, Len(values) - path[n].pushed)
  <2>1. Mem!Last(path) = path[Len(path)]
    BY DEF Mem!Last
  <2> QED BY <2>1 DEF Mem!Leave, Mem!code
<1>3. Carried(V) /\ Replaced(V) /\ Merged(V) /\ Stacked(V)
  BY DEF RenameInv
<1>4. Begun' = Begun
  BY <1>1 DEF Begun
<1>5. /\ \A x, k : (Pushes(x, k)' <=> Pushes(x, k)) /\ Pushed(x, k)' = Pushed(x, k)
      /\ \A x : Out(V, x)' = V[x][Len(body[x])] /\ Out(V, x) = V[x][Len(body[x])]
      /\ Mem!Positions("load")' = Mem!Positions("load")
  BY <1>2 DEF Pushes, Pushed, Out, Mem!Positions, Mem!Accesses
<1>6. Carried(V)'
  BY <1>1, <1>2, <1>3, <1>4, <1>5 DEF Carried
<1>7. Replaced(V)'
  BY <1>2, <1>3, <1>4, <1>5 DEF Replaced
<1>8. Merged(V)'
  BY <1>1, <1>3, <1>4, <1>5 DEF Merged
<1>9. PICK cut : StackedBy(V, cut)
  BY <1>3 DEF Stacked
<1>10. /\ \A f \in 0..n : cut[f] \in Nat
       /\ \A f, g \in 0..n : f <= g => cut[f] <= cut[g]
       /\ cut[0] = 0 /\ cut[n] = Len(values)
       /\ \A f \in 1..n : path[f].pushed = cut[f] - cut[f - 1] /\ TopOf(cut[f]) = Out(V, path[f].block)
  BY <1>9 DEF StackedBy
<1>11. /\ n - 1 \in 0..n /\ n \in 0..n /\ n \in 1..n /\ 0 \in 0..n
       /\ \A f \in 0..(n - 1) : f \in 0..n /\ f <= n - 1
       /\ \A f \in 1..(n - 1) : f \in 1..n /\ f \in 0..(n - 1)
       /\ n - 1 <= n /\ n - 1 \in Nat
  BY <1>1
<1>12. PICK h : h = cut[n - 1]
  OBVIOUS
<1>13. /\ h \in Nat /\ h <= Len(values) /\ Len(values) \in Nat
       /\ Len(values) - path[n].pushed = h
  <2>1. /\ h \in Nat /\ cut[n] \in Nat /\ h <= cut[n] /\ cut[n] = Len(values)
        /\ path[n].pushed = cut[n] - h
    BY <1>10, <1>11, <1>12
  <2> QED BY <2>1
<1>14. /\ values' \in Seq(Pairs) /\ Len(values') = h
       /\ \A i \in 1..h : values'[i] = values[i]
  <2>1. values' = SubSeq(values, 1, h)
    BY <1>2, <1>13
  <2>2. values \in Seq(Pairs) /\ \A i \in 1..h : values[i] \in Pairs
    BY <1>3, <1>13 DEF Stacked
  <2>3. 1 \in Int /\ h \in Int
    BY <1>13
  <2> HIDE DEF Pairs
  <2>4. /\ values' \in Seq(Pairs)
        /\ Len(values') = IF 1 <= h THEN h - 1 + 1 ELSE 0
        /\ \A i \in 1..(h - 1 + 1) : values'[i] = values[1 + i - 1]
    BY <2>1, <2>2, <2>3, SubSeqProperties
  <2>5. h - 1 + 1 = h /\ (~(1 <= h) => h = 0) /\ \A i \in 1..h : 1 + i - 1 = i
    BY <1>13
  <2> QED BY <2>4, <2>5
<1>15. \A f \in 0..(n - 1) : TopOf(cut[f])' = TopOf(cut[f])
  <2> TAKE f \in 0..(n - 1)
  <2>1. cut[f] \in Nat /\ cut[f] <= h
    BY <1>10, <1>11, <1>12
  <2>2. cut[f] = 0 \/ cut[f] \in 1..h
    BY <1>13, <2>1
  <2> QED BY <1>14, <2>2 DEF TopOf
<1>16. StackedBy(V, cut)'
  <2>1. \A f \in 1..(n - 1) : path'[f] = path[f] /\ f \in 0..(n - 1) /\ f \in 1..n
    BY <1>1, <1>11
  <2>2. \A f \in 1..(n - 1) : /\ path'[f].pushed = cut[f] - cut[f - 1]
                              /\ TopOf(cut[f])' = V[path'[f].block][Len(body[path'[f].block])]
    BY <1>5, <1>10, <1>15, <2>1
  <2>3. cut[n - 1] = Len(values')
    BY <1>12, <1>14
  <2>4. PICK k : k = n - 1
    OBVIOUS
  <2>5. /\ \A f \in 0..k : cut[f] \in Nat
        /\ \A f, g \in 0..k : f <= g => cut[f] <= cut[g]
        /\ cut[0] = 0 /\ cut[k] = Len(values') /\ Len(path') = k
        /\ \A f \in 1..k : /\ path'[f].pushed = cut[f] - cut[f - 1]
                           /\ TopOf(cut[f])' = V[path'[f].block][Len(body[path'[f].block])]
    BY <1>1, <1>10, <1>11, <2>2, <2>3, <2>4
  <2>6. \A x : Out(V, x)' = V[x][Len(body[x])]
    BY <1>5
  <2> QED BY <2>5, <2>6 DEF StackedBy
<1>17. Stacked(V)'
  <2>1. \A f \in 1..(n - 1) : path'[f].block \in Begun
    BY <1>1, <1>3, <1>11 DEF Stacked
  <2> QED BY <1>1, <1>4, <1>14, <1>16, <2>1 DEF Stacked
<1> QED BY <1>6, <1>7, <1>8, <1>17 DEF RenameInv

-----------------------------------------------------------------------------
\* The run.  What is on top in a block came from above or was pushed there.
LEMMA TopInBlock ==
  ASSUME Kept, NEW V, Carried(V), NEW b \in Begun, b \in Vertices, NEW k \in 0..Len(body[b])
  PROVE  V[b][k] = V[b][0] \/ \E j \in 1..k : Pushes(b, j) /\ V[b][k] = Pushed(b, j)
<1> DEFINE N == Len(body[b])
           Good(m) == V[b][m] = V[b][0] \/ \E j \in 1..m : Pushes(b, j) /\ V[b][m] = Pushed(b, j)
           S == {m \in Nat : m <= N => Good(m)}
<1>1. N \in Nat
  BY BodiesAre DEF Kept
<1>2. 0 \in S
  OBVIOUS
<1>3. ASSUME NEW m \in Nat, m \in S PROVE m + 1 \in S
  <2> HIDE DEF Good
  <2> SUFFICES ASSUME m + 1 <= N PROVE Good(m + 1)
    BY <1>1
  <2>1. Good(m)
    BY <1>1, <1>3
  <2>2. PICK k2 : k2 = m + 1
    OBVIOUS
  <2>3. k2 \in 1..N /\ k2 - 1 = m /\ k2 \in 1..k2 /\ \A j \in 1..m : j \in 1..k2
    BY <1>1, <2>2
  <2>4. V[b][k2] = IF Pushes(b, k2) THEN Pushed(b, k2) ELSE V[b][m]
    BY <2>3 DEF Carried
  <2>5. Good(k2)
    BY <2>1, <2>3, <2>4 DEF Good
  <2> QED BY <2>2, <2>5
<1> HIDE DEF Good
<1>4. Nat \subseteq S
  <2> HIDE DEF S
  <2> QED BY <1>2, <1>3, InductionOnSet
<1>5. Good(k)
  BY <1>1, <1>4
<1> QED BY <1>5 DEF Good

LEMMA WaysEnd ==
  ASSUME TreeKept, NEW a \in DOMAIN tree, NEW b \in DOMAIN tree,
         OnWayUp(Up, a, b), OnWayUp(Up, b, a)
  PROVE  a = b
<1> SUFFICES ASSUME a # b PROVE FALSE
  OBVIOUS
<1>1. /\ Up \in [Vertices -> Vertices] /\ a \in Vertices /\ b \in Vertices /\ Entry \in Vertices
      /\ Up[b] = tree[b] /\ Up[Entry] = Entry
  BY DEF TreeKept, Up
<1>2. b # Entry
  <2> SUFFICES ASSUME b = Entry PROVE FALSE
    OBVIOUS
  <2>1. UpClosed(Up, {Entry}) /\ {Entry} \in SUBSET Vertices
    BY <1>1 DEF UpClosed
  <2> QED BY <2>1 DEF OnWayUp
<1>3. OnWayUp(Up, a, tree[b])
  BY <1>1, WayUp
<1>4. OnWayUp(Up, b, tree[b])
  <2>1. tree[b] \in Vertices
    BY DEF TreeKept
  <2> QED BY <1>1, <1>3, <2>1, WayUp
<1> QED BY <1>2, <1>4 DEF TreeKept

\* What is on top at the start of a block, if anything, is a phi, or was pushed
\* in a block above.
LEMMA Origin ==
  ASSUME TreeKept, Kept, NEW V, Carried(V), Begun = DOMAIN tree, phis \subseteq DOMAIN tree \ {Entry},
         NEW b \in DOMAIN tree, V[b][0] # Undef
  PROVE  \/ \E m \in phis : V[b][0] = Mem!PhiAt(m)
         \/ \E m \in DOMAIN tree : \E j \in 1..Len(body[m]) :
              OnWayUp(Up, m, b) /\ m # b /\ Pushes(m, j) /\ V[b][0] = Pushed(m, j)
<1> DEFINE x == V[b][0]
           S == {m \in DOMAIN tree : OnWayUp(Up, m, b) /\ V[m][0] = x}
<1> SUFFICES ASSUME ~\E m \in phis : x = Mem!PhiAt(m),
                    ~\E m \in DOMAIN tree : \E j \in 1..Len(body[m]) :
                       OnWayUp(Up, m, b) /\ m # b /\ Pushes(m, j) /\ x = Pushed(m, j)
             PROVE  FALSE
  OBVIOUS
<1>1. /\ Up \in [Vertices -> Vertices] /\ DOMAIN tree \subseteq Vertices
      /\ Entry \in DOMAIN tree /\ tree[Entry] = Entry
      /\ \A m \in DOMAIN tree : /\ Up[m] = tree[m] /\ tree[m] \in DOMAIN tree
                                /\ OnWayUp(Up, Entry, m)
      /\ \A m \in DOMAIN tree \ {Entry} : ~OnWayUp(Up, m, tree[m])
  BY DEF TreeKept, Up
<1>2. b \in S
  BY <1>1, WayUp
<1>3. ASSUME NEW m \in S PROVE tree[m] \in S
  <2>1. CASE m = Entry
    BY <1>1, <1>3, <2>1
  <2>2. CASE m # Entry
    <3>1. m \notin phis
      <4>1. V[m][0] = IF m \in phis THEN Mem!PhiAt(m) ELSE IF m = Entry THEN Undef ELSE Out(V, tree[m])
        BY DEF Carried
      <4> QED BY <1>3, <4>1
    <3>2. V[tree[m]][Len(body[tree[m]])] = x
      BY <1>3, <2>2, <3>1 DEF Carried, Out
    <3>3. /\ OnWayUp(Up, tree[m], b) /\ tree[m] # b /\ tree[m] \in Begun /\ tree[m] \in Vertices
      <4>1. OnWayUp(Up, tree[m], tree[m]) /\ tree[m] \in Vertices /\ m \in Vertices /\ b \in Vertices
        BY <1>1, <1>3, WayUp
      <4>2. OnWayUp(Up, tree[m], m)
        BY <1>1, <1>3, <4>1, WayUp
      <4>3. OnWayUp(Up, tree[m], b)
        BY <1>1, <1>3, <4>1, <4>2, WayUp
      <4>4. tree[m] # b
        BY <1>1, <1>3, <2>2
      <4> QED BY <1>1, <1>3, <4>1, <4>3, <4>4
    <3>4. PICK c : c = tree[m]
      OBVIOUS
    <3>5. c \in Begun /\ c \in Vertices /\ Len(body[c]) \in 0..Len(body[c])
      <4>1. Len(body[c]) \in Nat
        BY <3>3, <3>4, BodiesAre DEF Kept
      <4> QED BY <3>3, <3>4, <4>1
    <3>6. \/ V[c][Len(body[c])] = V[c][0]
          \/ \E j \in 1..Len(body[c]) : Pushes(c, j) /\ V[c][Len(body[c])] = Pushed(c, j)
      BY <3>5, TopInBlock
    <3>7. V[c][0] = x
      BY <3>2, <3>3, <3>4, <3>6
    <3> QED BY <1>1, <1>3, <3>3, <3>4, <3>7
  <2> QED BY <2>1, <2>2
<1>4. S \in SUBSET Vertices /\ UpClosed(Up, S)
  BY <1>1, <1>3 DEF UpClosed
<1>5. Entry \in S
  BY <1>1, <1>2, <1>4 DEF OnWayUp
<1>6. V[Entry][0] = Undef
  BY <1>1 DEF Carried
<1> QED BY <1>5, <1>6

\* Over an edge to a block without a phi, what is on top at its start is what
\* was on top at the end of the block the edge is from, or nothing was there.
LEMMA EdgeWithoutPhi ==
  ASSUME TreeKept, Kept, Placed, NEW V, Carried(V), Begun = DOMAIN tree,
         NEW b \in DOMAIN tree, NEW s \in succs[b], s \notin phis
  PROVE  V[s][0] = Out(V, b) \/ Out(V, b) = Undef
<1> DEFINE d == tree[s]
<1>1. /\ Up \in [Vertices -> Vertices] /\ DOMAIN tree \subseteq Vertices
      /\ Entry \in DOMAIN tree /\ tree[Entry] = Entry
      /\ \A m \in DOMAIN tree : /\ Up[m] = tree[m] /\ tree[m] \in DOMAIN tree
                                /\ OnWayUp(Up, Entry, m)
      /\ \A m \in DOMAIN tree \ {Entry} : ~OnWayUp(Up, m, tree[m])
  BY DEF TreeKept, Up
<1>2. s \in DOMAIN tree /\ s # Entry /\ d \in DOMAIN tree /\ b \in Vertices /\ d \in Vertices
  BY <1>1 DEF Kept
<1>3. V[s][0] = Out(V, d)
  BY <1>2 DEF Carried
<1>4. ASSUME NEW x \in DOMAIN tree, s \in frontier[x]
      PROVE  Out(V, x) = IF x = Entry THEN Undef ELSE Out(V, tree[x])
  <2>1. x \notin Mem!DefBlocks /\ x \notin phis
    BY <1>4 DEF Placed
  <2>2. x \in Vertices /\ \A k \in 1..Len(body[x]) : ~Pushes(x, k)
    BY <1>1, <2>1, DefBlocksAre
  <2>3. Len(body[x]) \in 0..Len(body[x])
    <3>1. Len(body[x]) \in Nat
      BY <2>2, BodiesAre DEF Kept
    <3> QED BY <3>1
  <2>4. Out(V, x) = V[x][0]
    BY <2>2, <2>3, TopInBlock DEF Out
  <2> QED BY <2>1, <2>4 DEF Carried
<1>5. \A x \in DOMAIN tree : /\ OnWayUp(Up, x, b)
                             /\ OnWayUp(Up, d, b) => ~OnWayUp(Up, x, d)
                             => s \in frontier[x]
  BY DEF Kept, FrontOK
\* On the way up from b.
<1>6. \A m \in DOMAIN tree : OnWayUp(Up, m, b) => OnWayUp(Up, tree[m], b)
  <2> SUFFICES ASSUME NEW m \in DOMAIN tree, OnWayUp(Up, m, b) PROVE OnWayUp(Up, tree[m], b)
    OBVIOUS
  <2>1. tree[m] \in Vertices /\ m \in Vertices
    BY <1>1
  <2>2. OnWayUp(Up, tree[m], m)
    BY <1>1, <2>1, WayUp
  <2> QED BY <1>1, <1>2, <2>1, <2>2, WayUp
<1>7. OnWayUp(Up, b, b)
  BY <1>1, <1>2, WayUp
<1>8. CASE OnWayUp(Up, d, b)
  <2> DEFINE S == {m \in DOMAIN tree : OnWayUp(Up, m, b) /\ (OnWayUp(Up, d, m) => Out(V, m) = Out(V, b))}
  <2>1. b \in S
    BY <1>7
  <2>2. ASSUME NEW m \in S PROVE tree[m] \in S
    <3>1. m \in DOMAIN tree /\ OnWayUp(Up, m, b) /\ tree[m] \in DOMAIN tree /\ OnWayUp(Up, tree[m], b)
      BY <1>1, <1>6, <2>2
    <3>2. CASE m = Entry
      BY <1>1, <2>2, <3>2
    <3>3. CASE m # Entry
      <4> SUFFICES ASSUME OnWayUp(Up, d, tree[m]) PROVE Out(V, tree[m]) = Out(V, b)
        BY <3>1
      <4>1. OnWayUp(Up, d, m) /\ d # m
        <5>1. OnWayUp(Up, d, m)
          BY <1>1, <3>1, WayUp
        <5> QED BY <1>1, <3>1, <3>3, <5>1
      <4>2. ~OnWayUp(Up, m, d)
        BY <1>2, <3>1, <4>1, WaysEnd
      <4>3. s \in frontier[m]
        BY <1>5, <3>1, <4>2
      <4>4. Out(V, m) = Out(V, tree[m])
        BY <1>4, <3>1, <3>3, <4>3
      <4> QED BY <2>2, <4>1, <4>4
    <3> QED BY <3>2, <3>3
  <2>3. S \in SUBSET Vertices /\ UpClosed(Up, S)
    BY <1>1, <2>2 DEF UpClosed
  <2>4. d \in S
    BY <1>8, <2>1, <2>3 DEF OnWayUp
  <2>5. OnWayUp(Up, d, d)
    BY <1>1, <1>2, WayUp
  <2> QED BY <1>3, <2>4, <2>5
<1>9. CASE ~OnWayUp(Up, d, b)
  <2> DEFINE S == {m \in DOMAIN tree : OnWayUp(Up, m, b) /\ Out(V, m) = Out(V, b)}
  <2>1. b \in S
    BY <1>7
  <2>2. \A m \in S : s \in frontier[m]
    BY <1>5, <1>9
  <2>3. ASSUME NEW m \in S PROVE tree[m] \in S
    <3>1. m \in DOMAIN tree /\ OnWayUp(Up, m, b) /\ tree[m] \in DOMAIN tree /\ OnWayUp(Up, tree[m], b)
      BY <1>1, <1>6, <2>3
    <3>2. CASE m = Entry
      BY <1>1, <2>3, <3>2
    <3>3. CASE m # Entry
      <4>1. Out(V, m) = Out(V, tree[m])
        BY <1>4, <2>2, <3>1, <3>3
      <4> QED BY <2>3, <3>1, <4>1
    <3> QED BY <3>2, <3>3
  <2>4. S \in SUBSET Vertices /\ UpClosed(Up, S)
    BY <1>1, <2>3 DEF UpClosed
  <2>5. Entry \in S
    BY <1>1, <2>1, <2>4 DEF OnWayUp
  <2>6. Out(V, Entry) = Undef
    BY <1>1, <1>4, <2>2, <2>5
  <2> QED BY <2>5, <2>6
<1> QED BY <1>8, <1>9

\* No keep comes before the definition: where the shared value is computed it is
\* not on top.
LEMMA NotShared ==
  ASSUME TreeKept, Kept, Placed, NEW V, Carried(V), Begun = DOMAIN tree,
         NEW b \in DOMAIN tree, NEW k \in 1..Len(body[b]), body[b][k] = "define"
  PROVE  V[b][k - 1] # Mem!Shared
<1> SUFFICES ASSUME V[b][k - 1] = Mem!Shared PROVE FALSE
  OBVIOUS
<1>1. DOMAIN tree \subseteq Vertices /\ Entry \in Vertices /\ Mem!Shared = <<Entry, 0>>
  BY DEF TreeKept, Mem!Shared
<1>2. \A x \in DOMAIN tree : Len(body[x]) \in Nat /\ DOMAIN body[x] = 1..Len(body[x])
  BY <1>1, BodiesAre DEF Kept
<1>3. ASSUME NEW m \in DOMAIN tree, NEW j \in 1..Len(body[m]), Pushes(m, j), Pushed(m, j) = Mem!Shared
      PROVE  IF m = b THEN k < j ELSE OnWayUp(Up, b, m)
  <2>1. body[m][j] = "keep"
    <3>1. j # 0 /\ <<m, j>> # <<Entry, 0>>
      BY <1>2
    <3> QED BY <1>1, <1>3, <3>1 DEF Pushes, Pushed, Mem!StoreAt
  <2>2. \A o, u : u \in Mem!Positions(o) <=>
                    \E x \in Vertices : \E i \in DOMAIN body[x] : u = <<x, i>> /\ body[x][i] = o
    BY AccessIs DEF Mem!Positions, Kept
  <2>3. <<b, k>> \in Mem!Positions("define") /\ <<m, j>> \in Mem!Positions("keep")
    BY <1>1, <1>2, <2>1, <2>2
  <2> QED BY <2>3 DEF DefOK, Kept
<1>4. k - 1 \in 0..Len(body[b]) /\ \A j \in 1..(k - 1) : j \in 1..Len(body[b]) /\ ~(k < j)
  BY <1>2
<1>5. V[b][0] = Mem!Shared
  <2>1. V[b][k - 1] = V[b][0] \/ \E j \in 1..(k - 1) : Pushes(b, j) /\ V[b][k - 1] = Pushed(b, j)
    <3>1. PICK l : l = k - 1
      OBVIOUS
    <3>2. l \in 0..Len(body[b]) /\ b \in Begun /\ b \in Vertices
      BY <1>1, <1>4, <3>1
    <3>3. V[b][l] = V[b][0] \/ \E j \in 1..l : Pushes(b, j) /\ V[b][l] = Pushed(b, j)
      BY <3>2, TopInBlock
    <3> QED BY <3>1, <3>3
  <2> QED BY <1>3, <1>4, <2>1
<1>6. V[b][0] # Undef
  BY <1>1, <1>5, PassesAssumption DEF Mem!UndefAssumption
<1>7. phis \subseteq DOMAIN tree \ {Entry}
  BY DEF Placed
<1>8. \/ \E m \in phis : V[b][0] = Mem!PhiAt(m)
      \/ \E m \in DOMAIN tree : \E j \in 1..Len(body[m]) :
           OnWayUp(Up, m, b) /\ m # b /\ Pushes(m, j) /\ V[b][0] = Pushed(m, j)
  BY <1>6, <1>7, Origin
<1>9. ASSUME NEW m \in phis, V[b][0] = Mem!PhiAt(m) PROVE FALSE
  BY <1>1, <1>5, <1>7, <1>9 DEF Mem!PhiAt
<1>10. ASSUME NEW m \in DOMAIN tree, NEW j \in 1..Len(body[m]),
              OnWayUp(Up, m, b), m # b, Pushes(m, j), V[b][0] = Pushed(m, j)
       PROVE  FALSE
  <2>1. OnWayUp(Up, b, m)
    BY <1>3, <1>5, <1>10
  <2> QED BY <1>10, <2>1, WaysEnd
<1> QED BY <1>8, <1>9, <1>10

\* A block without a phi does not start with a phi of its own on top.
LEMMA NotItsPhi ==
  ASSUME TreeKept, Kept, Placed, NEW V, Carried(V), Begun = DOMAIN tree,
         NEW s \in DOMAIN tree \ {Entry}, s \notin phis
  PROVE  V[s][0] # Mem!PhiAt(s)
<1> SUFFICES ASSUME V[s][0] = Mem!PhiAt(s) PROVE FALSE
  OBVIOUS
<1>1. DOMAIN tree \subseteq Vertices /\ Mem!PhiAt(s) = <<s, 0>> /\ Mem!Shared = <<Entry, 0>>
  BY DEF TreeKept, Mem!PhiAt, Mem!Shared
<1>2. V[s][0] # Undef
  BY <1>1, PassesAssumption DEF Mem!UndefAssumption
<1>3. phis \subseteq DOMAIN tree \ {Entry} /\ s \in DOMAIN tree
  BY DEF Placed
<1>4. \/ \E m \in phis : V[s][0] = Mem!PhiAt(m)
      \/ \E m \in DOMAIN tree : \E j \in 1..Len(body[m]) :
           OnWayUp(Up, m, s) /\ m # s /\ Pushes(m, j) /\ V[s][0] = Pushed(m, j)
  BY <1>2, <1>3, Origin
<1>5. ASSUME NEW m \in phis, V[s][0] = Mem!PhiAt(m) PROVE FALSE
  BY <1>1, <1>5 DEF Mem!PhiAt
<1>6. ASSUME NEW m \in DOMAIN tree, NEW j \in 1..Len(body[m]), V[s][0] = Pushed(m, j) PROVE FALSE
  <2>1. j # 0
    BY <1>1, BodiesAre DEF Kept
  <2> QED BY <1>1, <1>6, <2>1 DEF Pushed, Mem!StoreAt
<1> QED BY <1>4, <1>5, <1>6

\* Where the run is, what is on top in the calls is a value the variable holds,
\* once it has been stored to.
RunOK(V) ==
  /\ current \subseteq Pairs
  /\ \E b \in DOMAIN tree : \E k \in 1..(Len(body[b]) + 1) :
       at = <<b, k>> /\ (written => V[b][k - 1] \in current)

LEMMA AccessRun ==
  ASSUME TreeKept, Kept, Placed, NEW V, RenameInv(V), Begun = DOMAIN tree, RunOK(V),
         Mem!RunLoad \/ Mem!RunStore \/ Mem!RunDefine \/ Mem!RunKeep
  PROVE  RunOK(V)'
<1>1. PICK b \in DOMAIN tree : \E k \in 1..(Len(body[b]) + 1) :
             at = <<b, k>> /\ (written => V[b][k - 1] \in current)
  BY DEF RunOK
<1>2. PICK k \in 1..(Len(body[b]) + 1) : at = <<b, k>> /\ (written => V[b][k - 1] \in current)
  BY <1>1
<1>3. Mem!Block = b /\ Mem!Here = k
  BY <1>2 DEF Mem!Block, Mem!Here
<1>4. /\ body' = body /\ tree' = tree /\ at' = <<b, k + 1>> /\ k \in DOMAIN body[b]
      /\ \/ body[b][k] = "load" /\ written' = written /\ current' = current
         \/ body[b][k] = "store" /\ written' = TRUE /\ current' = {Mem!StoreAt(b, k)}
         \/ body[b][k] = "define" /\ current' = current \ {Mem!Shared} /\ written' = written
         \/ /\ body[b][k] = "keep" /\ written' = TRUE
            /\ current' = IF Mem!Shared \in current THEN current ELSE {Mem!Shared}
  <2>1. ASSUME NEW o, Mem!RunAccess(o)
        PROVE  body' = body /\ tree' = tree /\ at' = <<b, k + 1>> /\ k \in DOMAIN body[b] /\ body[b][k] = o
    BY <1>3, <2>1 DEF Mem!RunAccess, Mem!code
  <2>2. CASE Mem!RunLoad
    BY <2>1, <2>2 DEF Mem!RunLoad
  <2>3. CASE Mem!RunStore
    BY <1>3, <2>1, <2>3 DEF Mem!RunStore
  <2>4. CASE Mem!RunDefine
    BY <2>1, <2>4 DEF Mem!RunDefine
  <2>5. CASE Mem!RunKeep
    BY <2>1, <2>5 DEF Mem!RunKeep
  <2> QED BY <2>2, <2>3, <2>4, <2>5
<1>5. /\ b \in Vertices /\ Entry \in Vertices /\ Len(body[b]) \in Nat /\ k \in 1..Len(body[b])
      /\ k \in Nat /\ k + 1 \in 1..(Len(body[b]) + 1) /\ (k + 1) - 1 = k
  <2>1. b \in Vertices /\ Entry \in Vertices
    BY DEF TreeKept
  <2>2. Len(body[b]) \in Nat /\ DOMAIN body[b] = 1..Len(body[b])
    BY <2>1, BodiesAre DEF Kept
  <2> QED BY <1>4, <2>1, <2>2
<1>6. V[b][k] = IF Pushes(b, k) THEN Pushed(b, k) ELSE V[b][k - 1]
  BY <1>5 DEF RenameInv, Carried
<1>7. Carried(V) /\ current \subseteq Pairs /\ Mem!StoreAt(b, k) \in Pairs /\ Mem!Shared \in Pairs
  BY <1>5 DEF RenameInv, RunOK, Mem!StoreAt, Mem!Shared, Pairs
<1>8. current' \subseteq Pairs /\ (written' => V[b][k] \in current')
  <2>1. CASE body[b][k] = "load"
    BY <1>2, <1>4, <1>6, <1>7, <2>1 DEF Pushes
  <2>2. CASE body[b][k] = "store"
    BY <1>4, <1>6, <1>7, <2>2 DEF Pushes, Pushed
  <2>3. CASE body[b][k] = "define"
    <3>1. V[b][k - 1] # Mem!Shared
      BY <1>5, <1>7, <2>3, NotShared
    <3>2. V[b][k] = V[b][k - 1] /\ current' = current \ {Mem!Shared} /\ written' = written
      BY <1>4, <1>6, <2>3 DEF Pushes
    <3> QED BY <1>2, <1>7, <3>1, <3>2
  <2>4. CASE body[b][k] = "keep"
    BY <1>4, <1>6, <1>7, <2>4 DEF Pushes, Pushed
  <2> QED BY <1>4, <2>1, <2>2, <2>3, <2>4
<1>9. PICK l : l = k + 1
  OBVIOUS
<1>10. l \in 1..(Len(body'[b]) + 1) /\ l - 1 = k /\ at' = <<b, l>> /\ b \in DOMAIN tree'
  BY <1>4, <1>5, <1>9
<1> QED BY <1>8, <1>10 DEF RunOK

LEMMA BranchRun ==
  ASSUME TreeKept, Kept, Placed, NEW V, RenameInv(V), Begun = DOMAIN tree, RunOK(V),
         NEW s \in Vertices, Mem!RunBranch(s)
  PROVE  RunOK(V)'
<1>1. PICK b \in DOMAIN tree : \E k \in 1..(Len(body[b]) + 1) :
             at = <<b, k>> /\ (written => V[b][k - 1] \in current)
  BY DEF RunOK
<1>2. PICK k \in 1..(Len(body[b]) + 1) : at = <<b, k>> /\ (written => V[b][k - 1] \in current)
  BY <1>1
<1>3. Mem!Block = b /\ Mem!Here = k
  BY <1>2 DEF Mem!Block, Mem!Here
<1>4. /\ body' = body /\ tree' = tree /\ at' = <<s, 1>> /\ written' = written
      /\ k \notin DOMAIN body[b] /\ s \in succs[b]
      /\ current' = IF \E v \in current : <<s, b, v>> \in incoming
                    THEN current \cup {Mem!PhiAt(s)} ELSE current \ {Mem!PhiAt(s)}
  BY <1>3 DEF Mem!RunBranch, Mem!code
<1>5. /\ s \in DOMAIN tree \ {Entry} /\ b \in Vertices
      /\ Len(body[b]) \in Nat /\ k - 1 = Len(body[b]) /\ Len(body[s]) \in Nat
  <2>1. s \in DOMAIN tree \ {Entry} /\ b \in Vertices
    BY <1>4 DEF Kept, TreeKept
  <2>2. Len(body[b]) \in Nat /\ DOMAIN body[b] = 1..Len(body[b]) /\ Len(body[s]) \in Nat
    BY <2>1, BodiesAre DEF Kept
  <2> QED BY <1>4, <2>1, <2>2
<1>6. Carried(V) /\ Merged(V) /\ current \subseteq Pairs /\ Mem!PhiAt(s) \in Pairs
  BY DEF RenameInv, RunOK, Mem!PhiAt, Pairs
<1>7. written => Out(V, b) \in current
  BY <1>2, <1>5 DEF Out
<1>8. ASSUME written PROVE V[s][0] \in current'
  <2>1. CASE s \in phis
    <3>1. <<s, b, Out(V, b)>> \in incoming
      BY <1>4, <1>6, <2>1 DEF Merged
    <3>2. V[s][0] = Mem!PhiAt(s)
      BY <1>5, <1>6, <2>1 DEF Carried
    <3> QED BY <1>4, <1>7, <1>8, <3>1, <3>2
  <2>2. CASE s \notin phis
    <3>1. V[s][0] = Out(V, b) \/ Out(V, b) = Undef
      BY <1>4, <1>6, <2>2, EdgeWithoutPhi
    <3>2. Undef \notin Pairs
      BY PassesAssumption DEF Mem!UndefAssumption, Pairs
    <3>3. V[s][0] \in current
      BY <1>6, <1>7, <1>8, <3>1, <3>2
    <3>4. V[s][0] # Mem!PhiAt(s)
      BY <1>5, <1>6, <2>2, NotItsPhi
    <3> QED BY <1>4, <3>3, <3>4
  <2> QED BY <2>1, <2>2
<1>9. current' \subseteq Pairs
  BY <1>4, <1>6
<1>10. 1 \in 1..(Len(body'[s]) + 1) /\ 1 - 1 = 0 /\ s \in DOMAIN tree'
  BY <1>4, <1>5
<1> QED BY <1>4, <1>8, <1>9, <1>10 DEF RunOK

LoadInv ==
  /\ phase \in {"tree", "place", "rename", "run"}
  /\ phase # "tree" => Kept
  /\ phase \in {"tree", "place"} => phis = {} /\ renamed = {} /\ values = <<>>
  /\ phase # "run" => at = <<Entry, 1>> /\ written = FALSE /\ current = {}
  /\ phase = "run" => path = <<>>
  /\ phase \in {"rename", "run"} => Placed /\ \E V : RenameInv(V) /\ (phase = "run" => RunOK(V))

LEMMA CodeKept ==
  ASSUME UNCHANGED <<succs, tree, frontier, body>>
  PROVE  /\ Kept' <=> Kept
         /\ phis' = phis => (Placed' <=> Placed)
         /\ Mem!DefBlocks' = Mem!DefBlocks
<1>1. /\ \A a, n : OnWayUp(Up, a, n)' <=> OnWayUp(Up, a, n)
      /\ \A o : Mem!Positions(o)' = Mem!Positions(o)
  BY DEF Up, OnWayUp, UpClosed, Mem!Positions, Mem!Accesses
<1>2. FrontOK' <=> FrontOK
  BY <1>1 DEF FrontOK
<1>3. DefOK' <=> DefOK
  BY <1>1 DEF DefOK
<1>4. Mem!DefBlocks' = Mem!DefBlocks
  BY <1>1 DEF Mem!DefBlocks
<1> QED BY <1>2, <1>3, <1>4 DEF Kept, Placed

LEMMA WalkKept ==
  ASSUME UNCHANGED <<succs, phase, tree, body, phis, path, values, renamed, incoming>>
  PROVE  \A V : RenameInv(V)' <=> RenameInv(V)
<1>1. /\ Begun' = Begun /\ Mem!Positions("load")' = Mem!Positions("load")
      /\ \A x, k : (Pushes(x, k)' <=> Pushes(x, k)) /\ Pushed(x, k)' = Pushed(x, k)
      /\ \A k : TopOf(k)' = TopOf(k)
      /\ \A V, x : Out(V, x)' = Out(V, x)
  BY DEF Begun, ToCome, Up, OnWayUp, UpClosed, Mem!Positions, Mem!Accesses, Pushes, Pushed, TopOf, Out
<1> TAKE V
<1>2. Carried(V)' <=> Carried(V)
  BY <1>1 DEF Carried
<1>3. Replaced(V)' <=> Replaced(V)
  BY <1>1 DEF Replaced
<1>4. Merged(V)' <=> Merged(V)
  BY <1>1 DEF Merged
<1>5. \A cut : StackedBy(V, cut)' <=> StackedBy(V, cut)
  BY <1>1 DEF StackedBy
<1>6. Stacked(V)' <=> Stacked(V)
  BY <1>1, <1>5 DEF Stacked
<1> QED BY <1>2, <1>3, <1>4, <1>6 DEF RenameInv

LEMMA PlaceLoads ==
  ASSUME MemInv, LoadInv, Mem!PlacePhis
  PROVE  LoadInv'
<1>1. /\ phase = "place" /\ phase' = "rename" /\ phis' = Mem!PhiBlocks(Mem!DefBlocks)
      /\ UNCHANGED <<succs, tree, frontier, body, path, values, renamed, incoming, at, written, current>>
  BY DEF Mem!PlacePhis, Mem!walk, Mem!run
<1>2. /\ TreeKept /\ Kept /\ path = <<>> /\ renamed = {} /\ values = <<>>
      /\ at = <<Entry, 1>> /\ written = FALSE /\ current = {}
  BY <1>1 DEF MemInv, LoadInv
<1>3. Kept' /\ Mem!DefBlocks' = Mem!DefBlocks
  BY <1>1, <1>2, CodeKept
<1>4. Placed'
  <2>1. PICK phi : phi = phis'
    OBVIOUS
  <2>2. phi \subseteq DOMAIN tree \ {Entry} /\ \A x \in Mem!DefBlocks \cup phi : frontier[x] \subseteq phi
    BY <1>1, <1>2, <2>1, PlacedAtPlacePhis
  <2> QED BY <1>1, <1>3, <2>1, <2>2 DEF Placed
<1>5. Begun' = {}
  BY <1>1, <1>2 DEF Begun, ToCome
<1>6. PICK V : V = <<>>
  OBVIOUS
<1>7. Carried(V)' /\ Merged(V)'
  BY <1>5 DEF Carried, Merged
<1>8. Replaced(V)'
  BY <1>1, <1>2, <1>5 DEF Replaced
<1>9. Stacked(V)'
  <2>1. path' = <<>> /\ values' = <<>> /\ Len(path') = 0 /\ Len(values') = 0 /\ values' \in Seq(Pairs)
    BY <1>1, <1>2
  <2>2. PICK cut : cut = [f \in 0..0 |-> 0]
    OBVIOUS
  <2>3. 0..0 = {0} /\ 1..0 = {} /\ cut[0] = 0
    BY <2>2
  <2>4. StackedBy(V, cut)'
    BY <2>1, <2>3 DEF StackedBy
  <2> QED BY <2>1, <2>3, <2>4 DEF Stacked
<1>10. RenameInv(V)'
  BY <1>7, <1>8, <1>9 DEF RenameInv
<1> QED BY <1>1, <1>2, <1>3, <1>4, <1>10 DEF LoadInv

LEMMA EnterLoads ==
  ASSUME MemInv, LoadInv, NEW b \in Vertices, Mem!Enter(b)
  PROVE  LoadInv'
<1>1. /\ phase = "rename" /\ phase' = "rename"
      /\ UNCHANGED <<succs, tree, frontier, body, phis, at, written, current>>
  BY DEF Mem!Enter, Mem!code, Mem!run
<1>2. /\ TreeKept /\ Renaming /\ Kept /\ Placed
      /\ at = <<Entry, 1>> /\ written = FALSE /\ current = {}
  BY <1>1 DEF MemInv, LoadInv
<1>3. PICK V : RenameInv(V)
  BY <1>1 DEF LoadInv
<1>4. \E W : RenameInv(W)'
  BY <1>2, <1>3, EnterValues
<1>5. Kept' /\ Placed'
  BY <1>1, <1>2, CodeKept
<1> QED BY <1>1, <1>2, <1>4, <1>5 DEF LoadInv

LEMMA LeaveLoads ==
  ASSUME MemInv, LoadInv, Mem!Leave
  PROVE  LoadInv'
<1>1. /\ phase = "rename" /\ phase' = IF Len(path) = 1 THEN "run" ELSE "rename"
      /\ path' = Tree!Front(path)
      /\ UNCHANGED <<succs, tree, frontier, body, phis, at, written, current>>
  <2>1. Mem!Front(path) = Tree!Front(path)
    BY DEF Mem!Front, Tree!Front
  <2> QED BY <2>1 DEF Mem!Leave, Mem!code, Mem!run
<1>2. /\ TreeKept /\ Renaming /\ Kept /\ Placed
      /\ at = <<Entry, 1>> /\ written = FALSE /\ current = {}
  BY <1>1 DEF MemInv, LoadInv
<1>3. PICK V : RenameInv(V)
  BY <1>1 DEF LoadInv
<1>4. RenameInv(V)'
  BY <1>2, <1>3, LeaveValues
<1>5. Kept' /\ Placed'
  BY <1>1, <1>2, CodeKept
<1>6. phase' = "run" => path' = <<>>
  <2>1. PICK P : path \in Seq(Calls(P))
    BY <1>2 DEF Renaming
  <2>2. Len(path') = Len(path) - 1
    BY <1>2, LeaveToCome
  <2>3. path' \in Seq(Calls(P))
    <3>1. path # <<>>
      BY DEF Mem!Leave
    <3> QED BY <1>1, <2>1, <3>1, FrontOf
  <2>4. phase' = "run" => Len(path') = 0
    BY <1>1, <2>2
  <2> QED BY <2>3, <2>4
<1>7. RunOK(V)'
  <2>1. Entry \in DOMAIN tree /\ Entry \in Vertices
    BY <1>2 DEF TreeKept
  <2>2. 1 \in 1..(Len(body[Entry]) + 1)
    <3>1. Len(body[Entry]) \in Nat
      BY <1>2, <2>1, BodiesAre DEF Kept
    <3> QED BY <3>1
  <2>3. Entry \in DOMAIN tree' /\ 1 \in 1..(Len(body'[Entry]) + 1) /\ at' = <<Entry, 1>> /\ ~written' /\ current' = {}
    BY <1>1, <1>2, <2>1, <2>2
  <2> QED BY <2>3 DEF RunOK
<1>8. phase' \in {"rename", "run"}
  BY <1>1
<1> QED BY <1>1, <1>2, <1>4, <1>5, <1>6, <1>7, <1>8 DEF LoadInv

\* What a run keeps.
LEMMA RunLoads ==
  ASSUME MemInv, LoadInv,
         \/ Mem!RunLoad \/ Mem!RunStore \/ Mem!RunDefine \/ Mem!RunKeep
         \/ \E s \in Vertices : Mem!RunBranch(s)
  PROVE  LoadInv'
<1>1. phase = "run" /\ UNCHANGED <<succs, phase, tree, frontier, body, phis, path, values, renamed, incoming>>
  <2>1. ASSUME NEW o, Mem!RunAccess(o)
        PROVE  phase = "run" /\ UNCHANGED <<succs, phase, tree, frontier, body, phis, path, values, renamed, incoming>>
    BY <2>1 DEF Mem!RunAccess, Mem!code, Mem!walk
  <2>2. ASSUME NEW s, Mem!RunBranch(s)
        PROVE  phase = "run" /\ UNCHANGED <<succs, phase, tree, frontier, body, phis, path, values, renamed, incoming>>
    BY <2>2 DEF Mem!RunBranch, Mem!code, Mem!walk
  <2> QED BY <2>1, <2>2 DEF Mem!RunLoad, Mem!RunStore, Mem!RunDefine, Mem!RunKeep
<1>2. TreeKept /\ Kept /\ Placed /\ path = <<>> /\ Begun = DOMAIN tree
  BY <1>1 DEF MemInv, LoadInv, Begun, ToCome
<1>3. PICK V : RenameInv(V) /\ RunOK(V)
  BY <1>1 DEF LoadInv
<1>4. RunOK(V)'
  BY <1>2, <1>3, AccessRun, BranchRun
<1>5. Kept' /\ Placed'
  BY <1>1, <1>2, CodeKept
<1>6. RenameInv(V)'
  BY <1>1, <1>3, WalkKept
<1> QED BY <1>1, <1>2, <1>4, <1>5, <1>6 DEF LoadInv

LEMMA LoadsUnchanged ==
  ASSUME LoadInv, UNCHANGED <<phase, path, tree, frontier, body, phis, values, renamed, incoming, at, written, current>>,
         phase # "tree" => succs' = succs
  PROVE  LoadInv'
<1>1. CASE phase = "tree"
  BY <1>1 DEF LoadInv
<1>2. CASE phase # "tree"
  <2>1. (Kept' <=> Kept) /\ (Placed' <=> Placed) /\ \A V : RenameInv(V)' <=> RenameInv(V)
    BY <1>2, CodeKept, WalkKept
  <2>2. \A V : RunOK(V)' <=> RunOK(V)
    BY DEF RunOK
  <2> QED BY <2>1, <2>2 DEF LoadInv
<1> QED BY <1>1, <1>2

LEMMA LoadStep ==
  ASSUME MemInv, LoadInv, Mem!Next \/ UNCHANGED <<treeVars, memVars>>
  PROVE  LoadInv'
<1>1. CASE Mem!BuildTree
  BY <1>1, LoadsUnchanged DEF Mem!BuildTree, Mem!code, Mem!walk, Mem!run
<1>2. CASE Mem!TreeDone
  <2>1. Kept'
    BY <1>2, KeptAtTreeDone
  <2>2. /\ phase = "tree" /\ phase' = "place"
        /\ UNCHANGED <<phis, renamed, values, at, written, current>>
    BY <1>2 DEF Mem!TreeDone, Mem!walk, Mem!run
  <2> QED BY <2>1, <2>2 DEF LoadInv
<1>3. CASE Mem!PlacePhis
  BY <1>3, PlaceLoads
<1>4. CASE \E b \in Vertices : Mem!Enter(b)
  BY <1>4, EnterLoads
<1>5. CASE Mem!Leave
  BY <1>5, LeaveLoads
<1>6. CASE \/ Mem!RunLoad \/ Mem!RunStore \/ Mem!RunDefine \/ Mem!RunKeep
           \/ \E s \in Vertices : Mem!RunBranch(s)
  BY <1>6, RunLoads
<1>7. CASE Mem!RunReturn
  BY <1>7, LoadsUnchanged DEF Mem!RunReturn, Mem!vars, Mem!code, Mem!walk, Mem!run
<1>8. CASE UNCHANGED <<treeVars, memVars>>
  BY <1>8, LoadsUnchanged DEF treeVars, memVars
<1> QED BY <1>1, <1>2, <1>3, <1>4, <1>5, <1>6, <1>7, <1>8 DEF Mem!Next

-----------------------------------------------------------------------------
\* At the run each load has been replaced once, by what was on top before it.
LEMMA LoadInvTypes ==
  ASSUME MemInv, LoadInv, phase \in {"rename", "run"}
  PROVE  Mem!TypeOK
<1>1. PICK V : RenameInv(V)
  BY DEF LoadInv
<1>2. Placed /\ Kept /\ TreeKept
  BY DEF LoadInv, MemInv
<1>3. renamed = {<<p, V[p[1]][p[2] - 1]>> : p \in {q \in Mem!Positions("load") : q[1] \in Begun}}
  BY <1>1 DEF RenameInv, Replaced
<1>4. phis \subseteq Mem!Reached \ {Entry} /\ \A r \in renamed : r[1] \in Mem!Positions("load")
  BY <1>2, <1>3 DEF Placed, Mem!Reached
<1> DEFINE L == Mem!Positions("load")
<1>5. ASSUME phase = "run"
      PROVE  /\ {r[1] : r \in renamed} = L
             /\ Mem!Cardinality(renamed) = Mem!Cardinality(L)
             /\ values = <<>> /\ path = <<>>
  <2>1. path = <<>> /\ Begun = DOMAIN tree
    BY <1>5 DEF LoadInv, Begun, ToCome
  <2>2. \A p : p \in L <=> \E b \in Vertices : \E k \in DOMAIN body[b] : p = <<b, k>> /\ body[b][k] = "load"
    BY <1>2, AccessIs DEF Mem!Positions, Kept
  <2>3. \A p \in L : p[1] \in DOMAIN tree /\ p \in Vertices \X (1..2)
    <3>1. ASSUME NEW p \in L PROVE p[1] \in DOMAIN tree /\ p \in Vertices \X (1..2)
      <4>1. PICK b \in Vertices : \E k \in DOMAIN body[b] : p = <<b, k>>
        BY <2>2
      <4>2. PICK k \in DOMAIN body[b] : p = <<b, k>>
        BY <4>1
      <4>3. body[b] \in Bodies /\ body[b] # <<>>
        BY <1>2, <4>2, BodiesAre DEF Kept
      <4>4. b \in DOMAIN tree
        BY <1>2, <4>3 DEF Kept
      <4>5. k \in 1..2
        <5>1. Len(body[b]) \in 0..2 /\ k \in 1..Len(body[b])
          BY <4>3, BodiesAre
        <5> QED BY <5>1
      <4> QED BY <4>1, <4>2, <4>4, <4>5
    <3> QED BY <3>1
  <2> HIDE DEF L
  <2>4. {q \in L : q[1] \in Begun} = L
    BY <2>1, <2>3
  <2>5. renamed = {<<p, V[p[1]][p[2] - 1]>> : p \in L}
    BY <1>3, <2>4 DEF L
  <2>6. {r[1] : r \in renamed} = L
    <3>1. ASSUME NEW r \in renamed PROVE r[1] \in L
      BY <2>5
    <3>2. ASSUME NEW p \in L PROVE \E r \in renamed : p = r[1]
      <4>1. PICK r : r = <<p, V[p[1]][p[2] - 1]>>
        OBVIOUS
      <4>2. r \in renamed
        BY <2>5, <4>1
      <4>3. r[1] = p
        BY <4>1
      <4> QED BY <4>2, <4>3
    <3> QED BY <3>1, <3>2
  <2>7. IsFiniteSet(L)
    <3>1. IsFiniteSet(Vertices)
      BY PassesAssumption DEF Tree!EntryAssumption, Tree!IsFiniteSet, IsFiniteSet
    <3>2. IsFiniteSet(1..2)
      <4>1. 1 \in Int /\ 2 \in Int
        OBVIOUS
      <4> QED BY <4>1, FS_Interval
    <3>3. IsFiniteSet(Vertices \X (1..2))
      BY <3>1, <3>2, FS_Product
    <3>4. L \subseteq Vertices \X (1..2)
      BY <2>3
    <3> QED BY <3>3, <3>4, FS_Subset
  <2>8. Cardinality(renamed) = Cardinality(L)
    <3>1. PICK f : f = [p \in L |-> <<p, V[p[1]][p[2] - 1]>>]
      OBVIOUS
    <3>2. f \in [L -> renamed] /\ \A r \in renamed : \E p \in L : f[p] = r
      BY <2>5, <3>1
    <3>3. \A p, q \in L : f[p] = f[q] => p = q
      BY <3>1
    <3>4. f \in Bijection(L, renamed)
      BY <3>2, <3>3 DEF Bijection, Injection, Surjection, IsInjective
    <3>5. ExistsBijection(L, renamed)
      BY <3>4 DEF ExistsBijection
    <3> QED BY <2>7, <3>5, FS_Bijection
  <2>9. Mem!Cardinality(renamed) = Mem!Cardinality(L)
    BY <2>8 DEF Mem!Cardinality, Cardinality
  <2>10. values = <<>>
    <3>1. PICK cut : StackedBy(V, cut)
      BY <1>1 DEF RenameInv, Stacked
    <3>2. Len(path) = 0 /\ values \in Seq(Pairs)
      BY <1>1, <2>1 DEF RenameInv, Stacked
    <3>3. Len(values) = 0
      BY <3>1, <3>2 DEF StackedBy
    <3> QED BY <3>2, <3>3
  <2> QED BY <2>1, <2>6, <2>9, <2>10
<1> QED BY <1>4, <1>5 DEF Mem!TypeOK

LEMMA LoadInvReads ==
  ASSUME MemInv, LoadInv
  PROVE  Mem!LoadsReadLastStore
<1> SUFFICES ASSUME phase = "run", Mem!Here \in DOMAIN body[Mem!Block],
                    body[Mem!Block][Mem!Here] = "load", written
             PROVE  \E v \in current : <<at, v>> \in renamed
  BY DEF Mem!LoadsReadLastStore
<1>1. PICK V : RenameInv(V) /\ RunOK(V)
  BY DEF LoadInv
<1>2. PICK b \in DOMAIN tree : \E k \in 1..(Len(body[b]) + 1) :
             at = <<b, k>> /\ (written => V[b][k - 1] \in current)
  BY <1>1 DEF RunOK
<1>3. PICK k : at = <<b, k>> /\ V[b][k - 1] \in current
  BY <1>2
<1>4. Mem!Block = b /\ Mem!Here = k /\ at[1] = b /\ at[2] = k
  BY <1>3 DEF Mem!Block, Mem!Here
<1>5. Begun = DOMAIN tree /\ b \in Vertices /\ Kept
  BY DEF Begun, ToCome, LoadInv, MemInv, TreeKept
<1>6. at \in Mem!Positions("load")
  <2>1. \A p : p \in Mem!Positions("load") <=>
                 \E x \in Vertices : \E i \in DOMAIN body[x] : p = <<x, i>> /\ body[x][i] = "load"
    BY <1>5, AccessIs DEF Mem!Positions, Kept
  <2> QED BY <1>3, <1>4, <1>5, <2>1
<1>7. <<at, V[at[1]][at[2] - 1]>> \in renamed
  BY <1>1, <1>4, <1>5, <1>6 DEF RenameInv, Replaced
<1> QED BY <1>3, <1>4, <1>7

LoadPassInv == pass = "mem2reg" => LoadInv

LEMMA LoadPassInvariant == PassSpec => []LoadPassInv
<1>1. PassInit => LoadPassInv
  <2> SUFFICES ASSUME PassInit, pass = "mem2reg" PROVE LoadInv
    BY DEF LoadPassInv
  <2>1. Mem!Init
    BY DEF PassInit
  <2> QED BY <2>1 DEF Mem!Init, LoadInv
<1>2. MemPassInv /\ LoadPassInv /\ [PassNext]_allVars => LoadPassInv'
  <2> SUFFICES ASSUME MemPassInv, LoadPassInv, [PassNext]_allVars, pass' = "mem2reg" PROVE LoadInv'
    BY DEF LoadPassInv
  <2>1. pass = "mem2reg" /\ (Mem!Next \/ UNCHANGED <<treeVars, memVars>>)
    BY DEF PassNext, allVars
  <2> QED BY <2>1, LoadStep DEF MemPassInv, LoadPassInv
<1> QED BY <1>1, <1>2, MemPassInvariant, PTL DEF PassSpec

\* For any finite set of blocks, any graph on them and any placement of the
\* accesses in SSA form: on every path, a load is replaced by the value the
\* variable holds there, once it has been stored to, and every load is replaced
\* by one value (mem2reg).
THEOREM LoadsAreReplaced == PassSpec => []LoadsReadLastStore
<1>1. MemPassInv /\ LoadPassInv => LoadsReadLastStore
  <2> SUFFICES ASSUME pass = "mem2reg", MemInv, LoadInv
               PROVE  Mem!TypeOK /\ Mem!LoadsReadLastStore
    BY DEF MemPassInv, LoadPassInv, LoadsReadLastStore
  <2>1. CASE phase \in {"rename", "run"}
    BY <2>1, LoadInvTypes, LoadInvReads
  <2>2. CASE phase \in {"tree", "place"}
    BY <2>2, LoadInvReads DEF LoadInv, Mem!TypeOK
  <2> QED BY <2>1, <2>2 DEF LoadInv
<1> QED BY <1>1, MemPassInvariant, LoadPassInvariant, PTL
=============================================================================
