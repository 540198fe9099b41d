-------------------------- MODULE PhiLoweringProofs --------------------------
(***************************************************************************)
(* For functions of any number of blocks and phis: whichever way the       *)
(* lowered code comes to a block, the phis are in their registers.  The    *)
(* invariant says what each lowered block and each transit block is for.   *)
(***************************************************************************)
EXTENDS PhiLowering, SequenceLemmas

\* What a block may copy, and the blocks of the lowered function.
CopiesOfEdges == {<<>>} \cup {Copies(a, b) : a \in Nodes, b \in Nodes}
Machine       == [copies : CopiesOfEdges, to : Seq(Nat)]
Unlowered     == [copies |-> <<>>, to |-> <<>>]

\* The k-th way out of block b: straight to a block without phis, or over a
\* block that makes the copies of this edge and of no other.
WayOut(b, k) ==
  LET t == output[b].to[k]
      s == flow.ends[b][k]
  IN  \/ t = s /\ PhisOf(s) = {}
      \/ /\ t \in (NumNodes + 1)..Len(output)
         /\ output[t] = [copies |-> Copies(b, s), to |-> <<s>>]

LoweredRight(b) ==
  LET to == flow.ends[b]
  IN  /\ Len(to) = 1 => output[b] = [copies |-> Copies(b, to[1]), to |-> to]
      /\ Len(to) = 2 => output[b].copies = <<>> /\ WayOut(b, 1) /\ WayOut(b, 2)

FlowOK == flow.ends \in [Nodes -> Ends]
CodeOK == /\ lowered \in 0..NumNodes
          /\ output \in Seq(Machine) /\ Len(output) >= NumNodes
          /\ \A b \in Nodes : IF b <= lowered THEN LoweredRight(b) ELSE output[b] = Unlowered
RunOK  == /\ ssaAt \in Nodes /\ ssa = [p \in Phis |-> ssa[p]]
          /\ \/ place = ssaAt /\ held = ssa
             \/ /\ lowered = NumNodes /\ place \in (NumNodes + 1)..Len(output)
                /\ output[place].to = <<ssaAt>>
                /\ Copied(held, output[place].copies) = ssa
          /\ lowered < NumNodes => place = ssaAt

PhiInv == FlowOK /\ CodeOK /\ RunOK

-----------------------------------------------------------------------------
LEMMA PhiInit ==
  ASSUME NumNodesAssumption, Init
  PROVE  PhiInv
<1>1. /\ NumNodes \in Nat /\ 1 \in Nodes
      /\ flow.ends \in [Nodes -> Ends] /\ lowered = 0
      /\ output = [b \in Nodes |-> Unlowered]
      /\ ssaAt = 1 /\ place = 1 /\ ssa = [p \in Phis |-> Undef] /\ held = ssa
  BY DEF NumNodesAssumption, Init, Nodes, Unlowered
<1>2. Unlowered \in Machine
  BY DEF Unlowered, Machine, CopiesOfEdges
<1>3. output \in Seq(Machine) /\ Len(output) = NumNodes
  BY <1>1, <1>2 DEF Nodes
<1>4. CodeOK
  BY <1>1, <1>3 DEF CodeOK, Nodes
<1> QED BY <1>1, <1>4 DEF PhiInv, FlowOK, RunOK

\* The ways a block of the source ends.
LEMMA EndsCases ==
  ASSUME NEW to \in Ends, NumNodesAssumption
  PROVE  \/ to = <<>> /\ Len(to) = 0
         \/ Len(to) = 1 /\ to = <<to[1]>> /\ to[1] \in Nodes /\ DOMAIN to = {1}
         \/ Len(to) = 2 /\ to = <<to[1], to[2]>> /\ to[1] \in Nodes /\ to[2] \in Nodes
            /\ DOMAIN to = {1, 2}
<1>0. 2..NumNodes \subseteq Nodes /\ NumNodes \in Nat
  BY DEF Nodes, NumNodesAssumption
<1>1. CASE to = <<>>
  BY <1>1
<1>2. ASSUME NEW b \in 2..NumNodes, to = <<b>>
      PROVE  Len(to) = 1 /\ to = <<to[1]>> /\ to[1] \in Nodes /\ DOMAIN to = {1}
  BY <1>0, <1>2
<1>3. ASSUME NEW b \in 2..NumNodes, NEW c \in 2..NumNodes, to = <<b, c>>
      PROVE  /\ Len(to) = 2 /\ to = <<to[1], to[2]>> /\ to[1] \in Nodes /\ to[2] \in Nodes
             /\ DOMAIN to = {1, 2}
  BY <1>0, <1>3
<1> QED BY <1>1, <1>2, <1>3 DEF Ends

LEMMA CopiesAreOfEdges ==
  ASSUME NEW a \in Nodes, NEW b \in Nodes
  PROVE  Copies(a, b) \in CopiesOfEdges
BY DEF CopiesOfEdges

\* What Edge is to return: the blocks, one more of them if the target has phis.
EdgeRight(bs, a, b, r) ==
  /\ r[1] \in Seq(Machine) /\ Len(r[1]) >= Len(bs)
  /\ \A k \in 1..Len(bs) : r[1][k] = bs[k]
  /\ r[2] \in Nat
  /\ \/ r[2] = b /\ PhisOf(b) = {}
     \/ /\ r[2] \in (NumNodes + 1)..Len(r[1])
        /\ r[1][r[2]] = [copies |-> Copies(a, b), to |-> <<b>>]

LEMMA EdgeShape ==
  ASSUME FlowOK, NumNodesAssumption, NEW bs \in Seq(Machine), Len(bs) >= NumNodes,
         NEW a \in Nodes, NEW b \in Nodes, NEW r, r = Edge(bs, a, b)
  PROVE  EdgeRight(bs, a, b, r)
<1> SUFFICES /\ r[1] \in Seq(Machine) /\ Len(r[1]) >= Len(bs)
             /\ \A k \in 1..Len(bs) : r[1][k] = bs[k]
             /\ r[2] \in Nat
             /\ \/ r[2] = b /\ PhisOf(b) = {}
                \/ /\ r[2] \in (NumNodes + 1)..Len(r[1])
                   /\ r[1][r[2]] = [copies |-> Copies(a, b), to |-> <<b>>]
  BY DEF EdgeRight
<1> DEFINE new == [copies |-> Copies(a, b), to |-> <<b>>]
<1>1. b \in Nat /\ NumNodes \in Nat /\ Len(bs) \in Nat
  BY DEF Nodes, NumNodesAssumption
<1>2. new \in Machine
  <2>1. Copies(a, b) \in CopiesOfEdges
    BY CopiesAreOfEdges
  <2>2. <<b>> \in Seq(Nat)
    BY <1>1
  <2> QED BY <2>1, <2>2 DEF Machine
<1>3. CASE PhisOf(b) = {}
  BY <1>1, <1>3 DEF Edge
<1>4. CASE PhisOf(b) # {}
  <2> HIDE DEF new
  <2>1. r[1] = Append(bs, new) /\ r[2] = Len(bs) + 1
    BY <1>4 DEF Edge, new
  <2>2. /\ Append(bs, new) \in Seq(Machine) /\ Len(Append(bs, new)) = Len(bs) + 1
        /\ \A k \in 1..Len(bs) : Append(bs, new)[k] = bs[k]
        /\ Append(bs, new)[Len(bs) + 1] = new
    BY <1>1, <1>2
  <2> QED BY <1>1, <2>1, <2>2 DEF new
<1> QED BY <1>3, <1>4

-----------------------------------------------------------------------------
\* What is right about the blocks lowered so far stays so while others are
\* appended and block b is written.
LEMMA OthersStay ==
  ASSUME PhiInv, NumNodesAssumption, flow' = flow, NEW b \in Nodes, b = lowered + 1,
         lowered' = lowered + 1,
         output' \in Seq(Machine), Len(output') >= Len(output),
         \A k \in 1..Len(output) : k # b => output'[k] = output[k],
         LoweredRight(b)'
  PROVE  CodeOK'
<1>1. /\ NumNodes \in Nat /\ lowered \in Nat /\ lowered < NumNodes /\ b \in Nat
      /\ Len(output) \in Nat /\ Len(output') \in Nat /\ Len(output) >= NumNodes
      /\ flow.ends \in [Nodes -> Ends]
  BY DEF PhiInv, CodeOK, FlowOK, Nodes, NumNodesAssumption
<1>2. \A p, q : Copies(p, q)' = Copies(p, q) /\ PhisOf(q)' = PhisOf(q)
  BY DEF Copies, PhisOf
<1>3. (CopiesOfEdges)' = CopiesOfEdges
  BY <1>2 DEF CopiesOfEdges
<1>4. Machine' = Machine
  BY <1>3 DEF Machine
<1>5. ASSUME NEW c \in Nodes, c < b PROVE LoweredRight(c)'
  <2>1. c <= lowered /\ c \in 1..Len(output) /\ c # b
    BY <1>1, <1>5 DEF Nodes
  <2>2. LoweredRight(c) /\ output'[c] = output[c]
    BY <2>1 DEF PhiInv, CodeOK
  <2>3. ASSUME NEW k, WayOut(c, k) PROVE WayOut(c, k)'
    <3>1. CASE output[c].to[k] = flow.ends[c][k] /\ PhisOf(flow.ends[c][k]) = {}
      BY <3>1, <2>2, <1>2 DEF WayOut
    <3>2. CASE /\ output[c].to[k] \in (NumNodes + 1)..Len(output)
               /\ output[output[c].to[k]] =
                    [copies |-> Copies(c, flow.ends[c][k]), to |-> <<flow.ends[c][k]>>]
      <4> DEFINE t == output[c].to[k]
      <4>1. t \in 1..Len(output) /\ t # b /\ t \in (NumNodes + 1)..Len(output')
        BY <1>1, <3>2 DEF Nodes
      <4>2. output'[t] = output[t]
        BY <4>1
      <4> QED BY <4>1, <4>2, <3>2, <2>2, <1>2 DEF WayOut
    <3> QED BY <2>3, <3>1, <3>2 DEF WayOut
  <2> QED BY <2>2, <2>3, <1>2 DEF LoweredRight
<1>6. ASSUME NEW c \in Nodes, c > b PROVE output'[c] = Unlowered
  <2>1. c \in 1..Len(output) /\ c # b /\ ~(c <= lowered)
    BY <1>1, <1>6 DEF Nodes
  <2> QED BY <2>1 DEF PhiInv, CodeOK
<1>7. ASSUME NEW c \in Nodes
      PROVE  IF c <= lowered' THEN LoweredRight(c)' ELSE output'[c] = Unlowered
  <2>1. c \in Nat
    BY DEF Nodes
  <2>2. CASE c < b
    BY <2>2, <1>5, <1>1, <2>1
  <2>3. CASE c = b
    BY <2>3, <1>1
  <2>4. CASE c > b
    BY <2>4, <1>6, <1>1, <2>1
  <2> QED BY <2>1, <2>2, <2>3, <2>4, <1>1
<1>8. Unlowered' = Unlowered /\ Nodes' = Nodes
  BY DEF Unlowered, Nodes
<1>9. lowered' \in 0..NumNodes /\ Len(output') >= NumNodes
  BY <1>1
<1> QED BY <1>4, <1>7, <1>8, <1>9 DEF CodeOK

\* The run of both waits while blocks are lowered.
LEMMA KeptRun ==
  ASSUME PhiInv, NumNodesAssumption, lowered < NumNodes,
         UNCHANGED <<flow, ssaAt, ssa, place, held>>, CodeOK'
  PROVE  PhiInv'
<1>1. place = ssaAt /\ held = ssa
  <2>1. lowered # NumNodes
    BY DEF PhiInv, CodeOK, NumNodesAssumption
  <2> QED BY <2>1 DEF PhiInv, RunOK
<1>2. FlowOK'
  BY DEF PhiInv, FlowOK, Nodes, Ends
<1>3. RunOK'
  BY <1>1 DEF PhiInv, RunOK, Phis, Nodes
<1> QED BY <1>2, <1>3 DEF PhiInv

\* Nothing is said of what does not change.
LEMMA CodeKept ==
  ASSUME PhiInv, UNCHANGED <<flow, output, lowered>>
  PROVE  FlowOK' /\ CodeOK'
<1>1. \A p, q : Copies(p, q)' = Copies(p, q) /\ PhisOf(q)' = PhisOf(q)
  BY DEF Copies, PhisOf
<1>2. Machine' = Machine /\ Nodes' = Nodes /\ Ends' = Ends /\ Unlowered' = Unlowered
  <2>1. (CopiesOfEdges)' = CopiesOfEdges
    BY <1>1 DEF CopiesOfEdges
  <2> QED BY <2>1 DEF Machine, Nodes, Ends, Unlowered
<1>3. \A b \in Nodes : \A k : WayOut(b, k) => WayOut(b, k)'
  BY <1>1 DEF WayOut
<1>4. \A b \in Nodes : LoweredRight(b) => LoweredRight(b)'
  BY <1>1, <1>3 DEF LoweredRight
<1> QED BY <1>2, <1>4 DEF PhiInv, CodeOK, FlowOK

LEMMA LowerBlockKeeps ==
  ASSUME PhiInv, NumNodesAssumption, LowerBlock
  PROVE  PhiInv'
<1> SUFFICES ASSUME NEW b, b = lowered + 1, NEW to, to = flow.ends[b]
             PROVE  PhiInv'
  OBVIOUS
<1> DEFINE yes == Edge(output, b, to[1])
           no  == Edge(yes[1], b, to[2])
<1>1. /\ NumNodes \in Nat /\ lowered \in Nat /\ lowered < NumNodes /\ b \in Nodes
      /\ output \in Seq(Machine) /\ Len(output) \in Nat /\ Len(output) >= NumNodes
      /\ flow.ends \in [Nodes -> Ends] /\ FlowOK
  <2>0. NumNodes \in Nat /\ lowered \in 0..NumNodes /\ lowered < NumNodes
    <3>1. NumNodes \in Nat
      BY DEF NumNodesAssumption
    <3>2. lowered \in 0..NumNodes
      BY ZenonT(40) DEF PhiInv, CodeOK
    <3>3. lowered < NumNodes
      BY ZenonT(40) DEF LowerBlock
    <3> QED BY <3>1, <3>2, <3>3
  <2>1. output \in Seq(Machine) /\ Len(output) >= NumNodes /\ FlowOK
    BY DEF PhiInv, CodeOK
  <2>2. b \in Nodes
    BY <2>0 DEF Nodes
  <2>3. Len(output) \in Nat
    BY <2>1
  <2>4. flow.ends \in [Nodes -> Ends]
    BY <2>1 DEF FlowOK
  <2>5. lowered \in Nat
    BY <2>0
  <2> QED BY <2>0, <2>1, <2>2, <2>3, <2>4, <2>5
<1>2. /\ flow' = flow /\ lowered' = b /\ UNCHANGED <<ssaAt, ssa, place, held>>
      /\ output' = CASE to = <<>> -> output
                     [] Len(to) = 1 -> [output EXCEPT ![b] = [copies |-> Copies(b, to[1]), to |-> to]]
                     [] Len(to) = 2 -> [no[1] EXCEPT ![b].to = <<yes[2], no[2]>>]
  BY ZenonT(40) DEF LowerBlock
<1>3. to \in Ends
  BY <1>1
<1>4. b \in 1..Len(output) /\ output[b] = Unlowered /\ b \in Nat
  BY <1>1 DEF PhiInv, CodeOK, Nodes
<1>5. \A p, q : Copies(p, q)' = Copies(p, q) /\ PhisOf(q)' = PhisOf(q)
  BY <1>2 DEF Copies, PhisOf
<1> HIDE DEF yes, no
<1>6. CASE to = <<>> /\ Len(to) = 0
  <2>1. output' = output
    BY <1>2, <1>6
  <2>2. LoweredRight(b)'
    BY <1>2, <1>6 DEF LoweredRight
  <2>3. CodeOK'
    <3>1. /\ Len(output') >= Len(output) /\ flow' = flow /\ output' \in Seq(Machine)
          /\ \A k \in 1..Len(output) : k # b => output'[k] = output[k]
      <4>1. flow' = flow
        BY <1>2
      <4> QED BY <2>1, <1>1, <4>1
    <3> QED BY <1>1, <1>2, <2>2, <3>1, OthersStay
  <2> QED BY <1>1, <1>2, <2>3, KeptRun
<1>7. CASE Len(to) = 1 /\ to = <<to[1]>> /\ to[1] \in Nodes
  <2> DEFINE new == [copies |-> Copies(b, to[1]), to |-> to]
  <2>1. output' = [output EXCEPT ![b] = new]
    <3>1. to # <<>> /\ Len(to) # 2
      BY <1>7
    <3> QED BY <1>2, <1>7, <3>1
  <2>2. new \in Machine
    <3>1. to \in Seq(Nat)
      <4>1. to[1] \in Nat
        BY <1>7 DEF Nodes
      <4>2. <<to[1]>> \in Seq(Nat)
        BY <4>1
      <4> QED BY <1>7, <4>2
    <3>2. Copies(b, to[1]) \in CopiesOfEdges
      BY <1>1, <1>7, CopiesAreOfEdges
    <3> QED BY <3>1, <3>2 DEF Machine
  <2> HIDE DEF new
  <2>3. /\ output' \in Seq(Machine) /\ Len(output') = Len(output) /\ output'[b] = new
        /\ \A k \in 1..Len(output) : k # b => output'[k] = output[k]
    BY <2>1, <2>2, <1>1, <1>4
  <2>4. LoweredRight(b)'
    <3>1. output'[b] = [copies |-> Copies(b, to[1])', to |-> to]
      BY <2>3, <1>5 DEF new
    <3>2. flow'.ends[b] = to
      BY <1>2
    <3>3. output'[b] = [copies |-> Copies(b, flow.ends[b][1])', to |-> flow'.ends[b]]
      BY <3>1, <3>2, <1>2
    <3> QED BY <3>3, <3>2, <1>2, <1>5, <1>7 DEF LoweredRight
  <2>5. CodeOK'
    <3>1. Len(output') >= Len(output) /\ flow' = flow
      BY <2>3, <1>1, <1>2
    <3> QED BY <1>1, <1>2, <2>3, <2>4, <3>1, OthersStay
  <2> QED BY <1>1, <1>2, <2>5, KeptRun
<1>8. CASE Len(to) = 2 /\ to[1] \in Nodes /\ to[2] \in Nodes
  <2>1. /\ yes[1] \in Seq(Machine) /\ Len(yes[1]) >= Len(output)
        /\ \A k \in 1..Len(output) : yes[1][k] = output[k]
        /\ yes[2] \in Nat
        /\ \/ yes[2] = to[1] /\ PhisOf(to[1]) = {}
           \/ /\ yes[2] \in (NumNodes + 1)..Len(yes[1])
              /\ yes[1][yes[2]] = [copies |-> Copies(b, to[1]), to |-> <<to[1]>>]
    <3>1. /\ FlowOK /\ output \in Seq(Machine) /\ Len(output) >= NumNodes
          /\ b \in Nodes /\ to[1] \in Nodes /\ yes = Edge(output, b, to[1])
      BY <1>1, <1>8 DEF yes
    <3>2. EdgeRight(output, b, to[1], yes)
      BY <3>1, EdgeShape
    <3> HIDE DEF yes
    <3> QED BY <3>2 DEF EdgeRight
  <2>2. /\ no[1] \in Seq(Machine) /\ Len(no[1]) >= Len(yes[1])
        /\ \A k \in 1..Len(yes[1]) : no[1][k] = yes[1][k]
        /\ no[2] \in Nat
        /\ \/ no[2] = to[2] /\ PhisOf(to[2]) = {}
           \/ /\ no[2] \in (NumNodes + 1)..Len(no[1])
              /\ no[1][no[2]] = [copies |-> Copies(b, to[2]), to |-> <<to[2]>>]
    <3>1. Len(yes[1]) \in Nat /\ Len(yes[1]) >= NumNodes
      BY <2>1, <1>1
    <3>2. /\ FlowOK /\ yes[1] \in Seq(Machine) /\ b \in Nodes /\ to[2] \in Nodes
          /\ no = Edge(yes[1], b, to[2])
      BY <1>1, <1>8, <2>1 DEF no
    <3>3. EdgeRight(yes[1], b, to[2], no)
      BY <3>1, <3>2, EdgeShape
    <3> HIDE DEF yes, no
    <3> QED BY <3>3 DEF EdgeRight
  <2>3. output' = [no[1] EXCEPT ![b].to = <<yes[2], no[2]>>]
    <3>1. to # <<>> /\ Len(to) # 1
      BY <1>8
    <3> QED BY <1>2, <1>8, <3>1
  <2>4. /\ Len(yes[1]) \in Nat /\ Len(no[1]) \in Nat /\ Len(no[1]) >= Len(output)
        /\ b \in 1..Len(no[1]) /\ no[1][b] = Unlowered /\ no[1][b] \in Machine
        /\ \A k \in 1..Len(output) : no[1][k] = output[k]
    BY <2>1, <2>2, <1>1, <1>4, SMTT(30)
  <2> DEFINE bs   == no[1]
             ways == <<yes[2], no[2]>>
             new  == [bs[b] EXCEPT !.to = ways]
  <2>5. /\ ways \in Seq(Nat) /\ ways[1] = yes[2] /\ ways[2] = no[2]
    BY <2>1, <2>2
  <2> HIDE DEF ways
  <2>6. new \in Machine /\ new.to = ways /\ new.copies = <<>>
    <3>1. bs[b] \in Machine /\ bs[b].copies = <<>>
      BY <2>4 DEF Unlowered
    <3> HIDE DEF bs
    <3> QED BY <3>1, <2>5 DEF Machine
  <2>7. output' = [bs EXCEPT ![b] = new]
    BY <2>3 DEF ways
  <2>8. bs \in Seq(Machine) /\ Len(bs) \in Nat /\ b \in 1..Len(bs)
    BY <2>2, <2>4
  <2> HIDE DEF new, bs
  <2>9. /\ output' \in Seq(Machine) /\ Len(output') = Len(bs) /\ output'[b] = new
        /\ \A k \in 1..Len(bs) : k # b => output'[k] = bs[k]
    BY <2>6, <2>7, <2>8
  <2>10. /\ Len(output') >= Len(output)
         /\ \A k \in 1..Len(output) : k # b => output'[k] = output[k]
    BY <2>9, <2>4, <1>1 DEF bs
  <2>11. flow'.ends[b] = to /\ output'[b].to[1] = yes[2] /\ output'[b].to[2] = no[2]
         /\ output'[b].copies = <<>>
    BY <1>2, <2>5, <2>6, <2>9 
  <2>12. WayOut(b, 1)'
    <3>1. CASE yes[2] = to[1] /\ PhisOf(to[1]) = {}
      BY <3>1, <2>11, <1>2, <1>5 DEF WayOut
    <3>2. CASE /\ yes[2] \in (NumNodes + 1)..Len(yes[1])
               /\ yes[1][yes[2]] = [copies |-> Copies(b, to[1]), to |-> <<to[1]>>]
      <4>1. yes[2] \in (NumNodes + 1)..Len(output') /\ yes[2] # b /\ yes[2] \in 1..Len(yes[1])
            /\ yes[2] \in 1..Len(bs)
        BY <3>2, <2>1, <2>2, <2>4, <2>9, <1>1 DEF bs, Nodes
      <4>2. output'[yes[2]] = [copies |-> Copies(b, to[1]), to |-> <<to[1]>>]
        BY <4>1, <3>2, <2>9, <2>2 DEF bs
      <4> QED BY <4>1, <4>2, <2>11, <1>2, <1>5 DEF WayOut
    <3> QED BY <2>1, <3>1, <3>2
  <2>13. WayOut(b, 2)'
    <3>1. CASE no[2] = to[2] /\ PhisOf(to[2]) = {}
      BY <3>1, <2>11, <1>2, <1>5 DEF WayOut
    <3>2. CASE /\ no[2] \in (NumNodes + 1)..Len(no[1])
               /\ no[1][no[2]] = [copies |-> Copies(b, to[2]), to |-> <<to[2]>>]
      <4>1. no[2] \in (NumNodes + 1)..Len(output') /\ no[2] # b /\ no[2] \in 1..Len(bs)
        BY <3>2, <2>2, <2>4, <2>9, <1>1 DEF bs, Nodes
      <4>2. output'[no[2]] = [copies |-> Copies(b, to[2]), to |-> <<to[2]>>]
        BY <4>1, <3>2, <2>9 DEF bs
      <4> QED BY <4>1, <4>2, <2>11, <1>2, <1>5 DEF WayOut
    <3> QED BY <2>2, <3>1, <3>2
  <2>14. LoweredRight(b)'
    <3>1. Len(flow'.ends[b]) = 2
      BY <2>11, <1>8
    <3> QED BY <3>1, <2>11, <2>12, <2>13, <1>2 DEF LoweredRight
  <2>15. output' \in Seq(Machine)
    BY <2>9
  <2>16. CodeOK'
    BY <1>1, <1>2, <2>10, <2>14, <2>15, OthersStay
  <2> QED BY <1>1, <1>2, <2>16, KeptRun
<1> QED BY <1>3, <1>6, <1>7, <1>8, EndsCases

-----------------------------------------------------------------------------
\* Copies keep an environment a function of the phis.
LEMMA CopiedIsEnv ==
  ASSUME NEW e, NEW c
  PROVE  LET g == Copied(e, c) IN g = [p \in Phis |-> g[p]]
BY DEF Copied

\* A jump over an edge without phis copies nothing.
LEMMA NothingCopied ==
  ASSUME NEW e, e = [p \in Phis |-> e[p]], NEW c, DOMAIN c = {}
  PROVE  Copied(e, c) = e
<1>1. \A p \in Phis : p \notin DOMAIN c
  OBVIOUS
<1> QED BY <1>1 DEF Copied

LEMMA LeaveKeeps ==
  ASSUME PhiInv, NumNodesAssumption, NEW k, Leave(k)
  PROVE  PhiInv'
<1> DEFINE b == ssaAt
           to == flow.ends[b]
           s  == to[k]
<1>1. /\ UNCHANGED <<flow, output, lowered>>
      /\ lowered = NumNodes /\ place = b /\ k \in DOMAIN to
      /\ ssaAt' = s /\ ssa' = Copied(ssa, Copies(b, s))
      /\ held' = Copied(held, output[b].copies) /\ place' = output[b].to[k]
  BY DEF Leave
<1>2. /\ b \in Nodes /\ NumNodes \in Nat /\ to \in Ends /\ FlowOK
      /\ Len(output) \in Nat /\ output \in Seq(Machine) /\ ssa = [p \in Phis |-> ssa[p]]
  BY DEF PhiInv, RunOK, FlowOK, CodeOK, NumNodesAssumption
<1>3. place = ssaAt /\ held = ssa
  <2>1. ~(b \in (NumNodes + 1)..Len(output))
    BY <1>2 DEF Nodes
  <2> QED BY <1>1, <2>1 DEF PhiInv, RunOK
<1>4. LoweredRight(b)
  BY <1>1, <1>2 DEF PhiInv, CodeOK, Nodes
<1> HIDE DEF b, to, s
<1>5. FlowOK' /\ CodeOK'
  BY <1>1, CodeKept
<1>6. ssa' = [p \in Phis |-> ssa'[p]]
  <2> DEFINE g == Copied(ssa, Copies(b, s))
  <2>1. g = [p \in Phis |-> g[p]]
    BY CopiedIsEnv
  <2> HIDE DEF g
  <2>2. ssa' = g
    BY <1>1 DEF g
  <2> QED BY <2>1, <2>2
<1>7. s \in Nodes /\ (Len(to) = 1 \/ Len(to) = 2) /\ (Len(to) = 1 => k = 1 /\ to = <<to[1]>>)
      /\ (Len(to) = 2 => k = 1 \/ k = 2)
  BY <1>1, <1>2, EndsCases DEF s
<1>8. CASE Len(to) = 1
  <2>1. output[b] = [copies |-> Copies(b, s), to |-> to]
    BY <1>8, <1>7, <1>4 DEF LoweredRight, to, s
  <2>2. place' = s /\ held' = ssa'
    BY <2>1, <1>1, <1>3, <1>7, <1>8 DEF s
  <2> QED BY <2>2, <1>1, <1>5, <1>6, <1>7 DEF PhiInv, RunOK, Phis, Nodes
<1>9. CASE Len(to) = 2
  <2>1. output[b].copies = <<>> /\ WayOut(b, k)
    BY <1>9, <1>7, <1>4 DEF LoweredRight, to
  <2>2. held' = ssa
    BY <2>1, <1>1, <1>2, <1>3, NothingCopied
  <2>3. CASE place' = s /\ PhisOf(s) = {}
    <3>1. DOMAIN Copies(b, s) = {}
      BY <2>3 DEF Copies
    <3>2. ssa' = ssa
      BY <3>1, <1>1, <1>2, NothingCopied
    <3> QED BY <2>2, <2>3, <3>2, <1>1, <1>5, <1>6, <1>7 DEF PhiInv, RunOK, Phis, Nodes
  <2>4. CASE /\ place' \in (NumNodes + 1)..Len(output)
             /\ output[place'] = [copies |-> Copies(b, s), to |-> <<s>>]
    <3>1. output[place'].to = <<s>> /\ output[place'].copies = Copies(b, s)
      BY <2>4
    <3>2. Copied(ssa, output[place'].copies) = ssa'
      BY <3>1, <1>1
    <3>3. Copied(held, output[place].copies)' = Copied(held', output[place'].copies)
      BY <1>1 DEF Copied, Value
    <3>4. Copied(held, output[place].copies)' = ssa'
      BY <3>2, <3>3, <2>2
    <3>5. output'[place'].to = <<ssaAt'>>
      BY <3>1, <1>1
    <3>6. RunOK'
      <4>1. ssaAt' \in Nodes' /\ (ssa = [p \in Phis |-> ssa[p]])'
        BY <1>1, <1>6, <1>7 DEF Phis, Nodes
      <4>2. lowered' = NumNodes /\ place' \in (NumNodes + 1)..Len(output')
        BY <1>1, <2>4
      <4>3. ~(lowered' < NumNodes)
        BY <4>2, <1>2
      <4> QED BY <3>4, <3>5, <4>1, <4>2, <4>3 DEF RunOK
    <3> QED BY <1>5, <3>6 DEF PhiInv
  <2> QED BY <2>1, <2>3, <2>4, <1>1 DEF WayOut, s, to
<1> QED BY <1>7, <1>8, <1>9

LEMMA TransitKeeps ==
  ASSUME PhiInv, NumNodesAssumption, Transit
  PROVE  PhiInv'
<1>1. /\ UNCHANGED <<flow, output, lowered, ssaAt, ssa>>
      /\ held' = Copied(held, output[place].copies) /\ place' = output[place].to[1]
      /\ place # ssaAt
  BY DEF Transit, PhiInv, RunOK
<1>2. output[place].to = <<ssaAt>> /\ Copied(held, output[place].copies) = ssa
  BY <1>1 DEF PhiInv, RunOK
<1>3. place' = ssaAt' /\ held' = ssa'
  BY <1>1, <1>2
<1>4. FlowOK' /\ CodeOK'
  BY <1>1, CodeKept
<1> QED BY <1>1, <1>3, <1>4 DEF PhiInv, RunOK, Phis, Nodes

-----------------------------------------------------------------------------
LEMMA PhiStep ==
  ASSUME NumNodesAssumption, PhiInv, [Next]_vars
  PROVE  PhiInv'
<1>1. CASE LowerBlock
  BY <1>1, LowerBlockKeeps
<1>2. ASSUME NEW k \in 1..2, Leave(k) PROVE PhiInv'
  BY <1>2, LeaveKeeps
<1>3. CASE Transit
  BY <1>3, TransitKeeps
<1>4. CASE Finish \/ UNCHANGED vars
  <2>1. UNCHANGED <<flow, output, lowered, ssaAt, ssa, place, held>>
    BY <1>4 DEF Finish, vars
  <2>2. FlowOK' /\ CodeOK'
    BY <2>1, CodeKept
  <2>3. RunOK'
    <3>1. Copied(held, output[place].copies)' = Copied(held, output[place].copies)
      BY <2>1 DEF Copied, Value
    <3> QED BY <2>1, <3>1 DEF PhiInv, RunOK, Phis, Nodes
  <2> QED BY <2>2, <2>3 DEF PhiInv
<1> QED BY <1>1, <1>2, <1>3, <1>4 DEF Next

\* The invariant says what PhisArrive promises.
LEMMA PhiInvImplies ==
  ASSUME NumNodesAssumption, PhiInv
  PROVE  PhisArrive
BY DEF PhiInv, RunOK, PhisArrive, Nodes, NumNodesAssumption, CodeOK

\* However many blocks and phis there are, whichever branches are taken
\* (lower_instruction on jumps and conditional branches, add_transit_block).
THEOREM PhisAlwaysArrive ==
  ASSUME NumNodesAssumption
  PROVE  Spec => []PhisArrive
<1>1. Init => PhiInv
  BY PhiInit
<1>2. PhiInv /\ [Next]_vars => PhiInv'
  BY PhiStep
<1>3. PhiInv => PhisArrive
  BY PhiInvImplies
<1> QED BY <1>1, <1>2, <1>3, PTL DEF Spec
=============================================================================
