--------------------------- MODULE MCBackEndProofs ---------------------------
(* The theorems of the stages of lowering, for the composition that is model- *)
(* checked: a behaviour of it is one of a single stage, whose invariant is    *)
(* proved in the module of that stage.  Relaxation, whose variables are those *)
(* of the composition itself, is proved about in the last part.               *)
EXTENDS MCBackEnd, SequenceLemmas, FiniteSetTheorems, TLAPS

EdgeProofs == INSTANCE PhiLoweringProofs
CopyProofs == INSTANCE ParallelCopyProofs WITH NumRegs <- CopyRegs
FrameProofs == INSTANCE FrameLayoutProofs
AllocProofs == INSTANCE RegAllocProofs WITH
                 NumRegs <- PhysRegs, Programs <- Functions, phase <- step, nextVreg <- vregs,
                 stack <- simplified, pc <- at, memory <- cells

-----------------------------------------------------------------------------
\* Lowering of branches: the instance that is checked and the one the proofs
\* are about have the same definitions.
LEMMA SameEdges ==
  /\ Edges!Init => EdgeProofs!Init
  /\ Edges!Next => EdgeProofs!Next
  /\ EdgeProofs!PhisArrive => Edges!PhisArrive
<1> USE DEF Edges!Nodes, EdgeProofs!Nodes, Edges!Phis, EdgeProofs!Phis
<1>1. Edges!Ends = EdgeProofs!Ends
  BY DEF Edges!Ends, EdgeProofs!Ends
<1>2. \A ends, d : Edges!ReachedWithout(ends, d) = EdgeProofs!ReachedWithout(ends, d)
  BY DEF Edges!ReachedWithout, EdgeProofs!ReachedWithout, Edges!ToSet, EdgeProofs!ToSet
<1>3. \A ends, home : Edges!Incomings(ends, home) = EdgeProofs!Incomings(ends, home)
  BY DEF Edges!Incomings, EdgeProofs!Incomings, Edges!Available, EdgeProofs!Available,
     Edges!Preds, EdgeProofs!Preds, Edges!Literal, EdgeProofs!Literal,
     Edges!PhiValue, EdgeProofs!PhiValue, Edges!ToSet, EdgeProofs!ToSet,
     Edges!ReachedWithout, EdgeProofs!ReachedWithout
<1>4. Edges!Init => EdgeProofs!Init
  BY <1>1, <1>2, <1>3 DEF Edges!Init, EdgeProofs!Init, Edges!Undef, EdgeProofs!Undef
<1>5. \A a, b : Edges!Copies(a, b) = EdgeProofs!Copies(a, b)
  BY DEF Edges!Copies, EdgeProofs!Copies, Edges!PhisOf, EdgeProofs!PhisOf
<1>6. \A bs, a, b : Edges!Edge(bs, a, b) = EdgeProofs!Edge(bs, a, b)
  BY <1>5 DEF Edges!Edge, EdgeProofs!Edge, Edges!PhisOf, EdgeProofs!PhisOf
<1>7. \A e, c : Edges!Copied(e, c) = EdgeProofs!Copied(e, c)
  BY DEF Edges!Copied, EdgeProofs!Copied, Edges!Value, EdgeProofs!Value
<1>8. Edges!LowerBlock => EdgeProofs!LowerBlock
  BY <1>5, <1>6 DEF Edges!LowerBlock, EdgeProofs!LowerBlock
<1>9. \A k \in 1..2 : Edges!Leave(k) => EdgeProofs!Leave(k)
  BY <1>5, <1>7 DEF Edges!Leave, EdgeProofs!Leave
<1>10. Edges!Transit => EdgeProofs!Transit
  BY <1>7 DEF Edges!Transit, EdgeProofs!Transit
<1>11. Edges!Finish => EdgeProofs!Finish
  BY DEF Edges!Finish, EdgeProofs!Finish, Edges!vars, EdgeProofs!vars
<1>12. Edges!Next => EdgeProofs!Next
  BY <1>8, <1>9, <1>10, <1>11 DEF Edges!Next, EdgeProofs!Next
<1>13. EdgeProofs!PhisArrive => Edges!PhisArrive
  BY DEF Edges!PhisArrive, EdgeProofs!PhisArrive
<1> QED BY <1>4, <1>12, <1>13

LEMMA SameCopies ==
  /\ Copies!Init => CopyProofs!Init
  /\ Copies!Next => CopyProofs!Next
  /\ CopyProofs!TypeOK => Copies!TypeOK
  /\ CopyProofs!ParallelAssignment => Copies!ParallelAssignment
  /\ CopyProofs!ReadBeforeOverwritten => Copies!ReadBeforeOverwritten
  /\ CopyProofs!OneTempPerCycle => Copies!OneTempPerCycle
<1> USE DEF Copies!Regs, CopyProofs!Regs, Copies!None, CopyProofs!None
<1>1. Copies!Init => CopyProofs!Init
  BY DEF Copies!Init, CopyProofs!Init, Copies!Sources, CopyProofs!Sources
<1>2. /\ \A s : Copies!Dests(s) = CopyProofs!Dests(s)
      /\ \A d, s : Copies!Move(d, s) = CopyProofs!Move(d, s)
      /\ Copies!Done = CopyProofs!Done
  BY DEF Copies!Dests, CopyProofs!Dests, Copies!Move, CopyProofs!Move, Copies!Done, CopyProofs!Done
<1>3. \A n : Copies!Entered(n) = CopyProofs!Entered(n)
  BY <1>2 DEF Copies!Entered, CopyProofs!Entered
<1>4. /\ Copies!Top = CopyProofs!Top /\ Copies!Below = CopyProofs!Below
      /\ Copies!Visiting = CopyProofs!Visiting
  BY DEF Copies!Top, CopyProofs!Top, Copies!Below, CopyProofs!Below,
         Copies!Visiting, CopyProofs!Visiting
<1>5. \A r \in Copies!Regs : Copies!VisitRoot(r) => CopyProofs!VisitRoot(r)
  BY <1>3 DEF Copies!VisitRoot, CopyProofs!VisitRoot
<1>6. \A r \in Copies!Regs : Copies!Descend(r) => CopyProofs!Descend(r)
  BY <1>3, <1>4 DEF Copies!Descend, CopyProofs!Descend
<1>7. Copies!EmitMove => CopyProofs!EmitMove
  BY <1>2, <1>4 DEF Copies!EmitMove, CopyProofs!EmitMove
<1>8. Copies!Leave => CopyProofs!Leave
  BY <1>4 DEF Copies!Leave, CopyProofs!Leave
<1>9. Copies!Next => CopyProofs!Next
  BY <1>2, <1>5, <1>6, <1>7, <1>8 DEF Copies!Next, CopyProofs!Next, Copies!vars, CopyProofs!vars
<1>10. CopyProofs!TypeOK => Copies!TypeOK
  BY DEF Copies!TypeOK, CopyProofs!TypeOK, Copies!Moves, CopyProofs!Moves
<1>11. CopyProofs!ParallelAssignment => Copies!ParallelAssignment
  <2>1. Copies!Out = CopyProofs!Out
    BY DEF Copies!Out, CopyProofs!Out
  <2>2. Copies!After(Copies!Out) = CopyProofs!After(CopyProofs!Out)
    BY <2>1 DEF Copies!After, CopyProofs!After
  <2> QED BY <1>2, <2>2 DEF Copies!ParallelAssignment, CopyProofs!ParallelAssignment
<1>12. CopyProofs!ReadBeforeOverwritten => Copies!ReadBeforeOverwritten
  BY <1>2 DEF Copies!ReadBeforeOverwritten, CopyProofs!ReadBeforeOverwritten
<1>13. CopyProofs!OneTempPerCycle => Copies!OneTempPerCycle
  <2>1. Copies!Cycles = CopyProofs!Cycles
    BY DEF Copies!Cycles, CopyProofs!Cycles, Copies!LeadsBack, CopyProofs!LeadsBack
  <2>2. Copies!Cardinality(Copies!Cycles) = CopyProofs!Cardinality(CopyProofs!Cycles)
    BY <2>1 DEF Copies!Cardinality, CopyProofs!Cardinality
  <2> QED BY <1>2, <2>2 DEF Copies!OneTempPerCycle, CopyProofs!OneTempPerCycle
<1> QED BY <1>1, <1>9, <1>10, <1>11, <1>12, <1>13

LEMMA SameFrame ==
  /\ Frame!LayoutAssumption => FrameProofs!LayoutAssumption
  /\ Frame!Init => FrameProofs!Init
  /\ Frame!Next => FrameProofs!Next
  /\ FrameProofs!TypeOK => Frame!TypeOK
  /\ FrameProofs!EntryRestored => Frame!EntryRestored
  /\ FrameProofs!SlotsKeepValues => Frame!SlotsKeepValues
  /\ FrameProofs!IncomingArgumentsKept => Frame!IncomingArgumentsKept
<1>1. Frame!Aligns = FrameProofs!Aligns
  BY DEF Frame!Aligns, FrameProofs!Aligns
<1>2. Frame!LayoutAssumption => FrameProofs!LayoutAssumption
  BY <1>1 DEF Frame!LayoutAssumption, FrameProofs!LayoutAssumption,
     Frame!IsFiniteSet, FrameProofs!IsFiniteSet
<1>3. Frame!NoLayout = FrameProofs!NoLayout
  BY DEF Frame!NoLayout, FrameProofs!NoLayout
<1>4. Frame!Init => FrameProofs!Init
  BY <1>3 DEF Frame!Init, FrameProofs!Init
<1>5. /\ Frame!Regs = FrameProofs!Regs /\ Frame!Ra = FrameProofs!Ra
      /\ Frame!Unset = FrameProofs!Unset /\ Frame!Clobber = FrameProofs!Clobber
      /\ Frame!Argument = FrameProofs!Argument
  BY DEF Frame!Regs, FrameProofs!Regs, Frame!Ra, FrameProofs!Ra,
     Frame!Unset, FrameProofs!Unset, Frame!Clobber, FrameProofs!Clobber,
     Frame!Argument, FrameProofs!Argument
<1>6. /\ \A a, b : Frame!MaxOf(a, b) = FrameProofs!MaxOf(a, b)
      /\ \A k : Frame!Value(k) = FrameProofs!Value(k)
      /\ \A a, b : Frame!NextMultipleOf(a, b) = FrameProofs!NextMultipleOf(a, b)
      /\ \A a, b : Frame!Area(a, b) = FrameProofs!Area(a, b)
  BY DEF Frame!MaxOf, FrameProofs!MaxOf, Frame!Value, FrameProofs!Value,
     Frame!NextMultipleOf, FrameProofs!NextMultipleOf, Frame!Area, FrameProofs!Area
<1> USE DEF Frame!run, FrameProofs!run, Frame!frame, FrameProofs!frame
<1>7. \A s : Frame!NewStackSlot(s) => FrameProofs!NewStackSlot(s)
  BY <1>5, <1>6 DEF Frame!NewStackSlot, FrameProofs!NewStackSlot
<1>8. \A n : Frame!LowerCall(n) => FrameProofs!LowerCall(n)
  BY <1>5, <1>6 DEF Frame!LowerCall, FrameProofs!LowerCall
<1>9. \A r : Frame!AssignCalleeSaved(r) => FrameProofs!AssignCalleeSaved(r)
  BY <1>5 DEF Frame!AssignCalleeSaved, FrameProofs!AssignCalleeSaved
<1>10. \A r : Frame!WriteCalleeSaved(r) => FrameProofs!WriteCalleeSaved(r)
  BY <1>5 DEF Frame!WriteCalleeSaved, FrameProofs!WriteCalleeSaved
<1>11. Frame!InOrder(written) = FrameProofs!InOrder(written)
  BY DEF Frame!InOrder, FrameProofs!InOrder, Frame!Cardinality, FrameProofs!Cardinality
<1>12. \A ss, start : Frame!Offsets(ss, start) = FrameProofs!Offsets(ss, start)
  BY DEF Frame!Offsets, FrameProofs!Offsets, Frame!NextMultipleOf, FrameProofs!NextMultipleOf
<1>13. \A n : Frame!OutgoingEnd(n) = FrameProofs!OutgoingEnd(n)
  BY <1>6, SMTT(30) DEF Frame!OutgoingEnd, FrameProofs!OutgoingEnd
<1>14. Frame!ComputeFrameLayout => FrameProofs!ComputeFrameLayout
  BY DEF Frame!ComputeFrameLayout, FrameProofs!ComputeFrameLayout,
     Frame!MaxOf, FrameProofs!MaxOf, Frame!NextMultipleOf, FrameProofs!NextMultipleOf,
     Frame!Offsets, FrameProofs!Offsets, Frame!OutgoingEnd, FrameProofs!OutgoingEnd,
     Frame!InOrder, FrameProofs!InOrder, Frame!Cardinality, FrameProofs!Cardinality
<1>15. /\ \A n : Frame!Adjust(n) = FrameProofs!Adjust(n)
       /\ \A r, k : Frame!Store(r, k) = FrameProofs!Store(r, k)
       /\ \A r, k : Frame!Load(r, k) = FrameProofs!Load(r, k)
  BY DEF Frame!Adjust, FrameProofs!Adjust, Frame!Store, FrameProofs!Store,
     Frame!Load, FrameProofs!Load, Frame!Sp, FrameProofs!Sp
<1>16. Frame!Prologue = FrameProofs!Prologue
  BY <1>5, <1>11, <1>15 DEF Frame!Prologue, FrameProofs!Prologue
<1>17. Frame!Epilogue = FrameProofs!Epilogue
  BY <1>15, <1>16 DEF Frame!Epilogue, FrameProofs!Epilogue, Frame!Reverse, FrameProofs!Reverse
<1>18. Frame!InsertLogue => FrameProofs!InsertLogue
  BY <1>5, <1>16 DEF Frame!InsertLogue, FrameProofs!InsertLogue
<1>19. /\ \A k : Frame!SlotArea(k) = FrameProofs!SlotArea(k)
       /\ \A a, v : Frame!Filled(a, v) = FrameProofs!Filled(a, v)
       /\ \A a : Frame!Loaded(a) = FrameProofs!Loaded(a)
  BY <1>5, <1>6 DEF Frame!SlotArea, FrameProofs!SlotArea, Frame!Filled, FrameProofs!Filled,
     Frame!Loaded, FrameProofs!Loaded
<1>20. Frame!Logue => FrameProofs!Logue
  BY <1>5, <1>19 DEF Frame!Logue, FrameProofs!Logue
<1>21. Frame!Entered => FrameProofs!Entered
  BY <1>5 DEF Frame!Entered, FrameProofs!Entered
<1>22. \A k : Frame!WriteSlot(k) => FrameProofs!WriteSlot(k)
  BY <1>5, <1>6, <1>19 DEF Frame!WriteSlot, FrameProofs!WriteSlot, Frame!Range, FrameProofs!Range
<1>23. Frame!Call => FrameProofs!Call
  BY <1>5, <1>6, <1>19 DEF Frame!Call, FrameProofs!Call
<1>24. Frame!Leave => FrameProofs!Leave
  BY <1>5, <1>17 DEF Frame!Leave, FrameProofs!Leave
<1>25. Frame!Returned => FrameProofs!Returned
  BY <1>5 DEF Frame!Returned, FrameProofs!Returned
<1>26. Frame!Stopped => FrameProofs!Stopped
  BY <1>5 DEF Frame!Stopped, FrameProofs!Stopped, Frame!vars, FrameProofs!vars
<1>27. Frame!Next => FrameProofs!Next
  BY <1>7, <1>8, <1>9, <1>10, <1>14, <1>18, <1>20, <1>21, <1>22, <1>23, <1>24, <1>25, <1>26
     DEF Frame!Next, FrameProofs!Next
<1>28. FrameProofs!TypeOK => Frame!TypeOK
  BY DEF FrameProofs!TypeOK, Frame!TypeOK
<1>29. FrameProofs!EntryRestored => Frame!EntryRestored
  BY <1>5 DEF FrameProofs!EntryRestored, Frame!EntryRestored
<1>30. FrameProofs!SlotsKeepValues => Frame!SlotsKeepValues
  BY <1>6, <1>19 DEF FrameProofs!SlotsKeepValues, Frame!SlotsKeepValues
<1>31. FrameProofs!IncomingArgumentsKept => Frame!IncomingArgumentsKept
  BY <1>5, <1>6 DEF FrameProofs!IncomingArgumentsKept, Frame!IncomingArgumentsKept
<1> QED BY <1>2, <1>4, <1>27, <1>28, <1>29, <1>30, <1>31

LEMMA SameAlloc ==
  /\ Alloc!RegsAssumption => AllocProofs!RegsAssumption
  /\ Alloc!Init => AllocProofs!Init
  /\ Alloc!Next => AllocProofs!Next
  /\ AllocProofs!TypeOK => Alloc!TypeOK
  /\ AllocProofs!ValuesPreserved => Alloc!ValuesPreserved
  /\ AllocProofs!OnlyCandidatesSpill => Alloc!OnlyCandidatesSpill
<1>1. /\ Alloc!None = AllocProofs!None /\ Alloc!Phys = AllocProofs!Phys /\ Alloc!Data = AllocProofs!Data
      /\ Alloc!Address = AllocProofs!Address /\ \A S : Alloc!Cardinality(S) = AllocProofs!Cardinality(S)
      /\ \A s : Alloc!ToSet(s) = AllocProofs!ToSet(s)
  BY DEF Alloc!None, AllocProofs!None, Alloc!Phys, AllocProofs!Phys, Alloc!Data, AllocProofs!Data,
     Alloc!Address, AllocProofs!Address, Alloc!Cardinality, AllocProofs!Cardinality,
     Alloc!ToSet, AllocProofs!ToSet
<1>2. \A p : Alloc!Vregs(p) = AllocProofs!Vregs(p)
  BY <1>1 DEF Alloc!Vregs, AllocProofs!Vregs
<1>3. \A p : Alloc!WellFormed(p) = AllocProofs!WellFormed(p)
  BY <1>1, <1>2 DEF Alloc!WellFormed, AllocProofs!WellFormed
<1>4. Alloc!RegsAssumption => AllocProofs!RegsAssumption
  BY <1>3 DEF Alloc!RegsAssumption, AllocProofs!RegsAssumption
<1>5. Alloc!Init => AllocProofs!Init
  BY <1>1, <1>2 DEF Alloc!Init, AllocProofs!Init
<1>6. /\ \A x : Alloc!DefRegs(x) = AllocProofs!DefRegs(x) /\ Alloc!UseRegs(x) = AllocProofs!UseRegs(x)
      /\ \A x : Alloc!Conflicts(x) = AllocProofs!Conflicts(x)
      /\ \A i : Alloc!Start(i) = AllocProofs!Start(i)
  BY <1>1 DEF Alloc!DefRegs, AllocProofs!DefRegs, Alloc!UseRegs, AllocProofs!UseRegs,
     Alloc!Conflicts, AllocProofs!Conflicts, Alloc!Start, AllocProofs!Start
<1>7. \A k : Alloc!Succs(k) = AllocProofs!Succs(k)
  BY <1>1, <1>6 DEF Alloc!Succs, AllocProofs!Succs
<1>8. Alloc!LiveIn = AllocProofs!LiveIn
  BY <1>6, <1>7, Zenon DEF Alloc!LiveIn, AllocProofs!LiveIn
<1>9. Alloc!LiveAfter = AllocProofs!LiveAfter
  BY <1>7, <1>8 DEF Alloc!LiveAfter, AllocProofs!LiveAfter
<1>10. Alloc!Clashes = AllocProofs!Clashes
  BY <1>6, <1>9 DEF Alloc!Clashes, AllocProofs!Clashes
<1>11. Alloc!VirtualDefs = AllocProofs!VirtualDefs
  BY <1>2 DEF Alloc!VirtualDefs, AllocProofs!VirtualDefs
<1> USE DEF Alloc!graph, AllocProofs!graph, Alloc!colours, AllocProofs!colours,
            Alloc!machine, AllocProofs!machine
<1>12. Alloc!Build => AllocProofs!Build
  BY <1>10, <1>11 DEF Alloc!Build, AllocProofs!Build
<1>13. /\ \A v : Alloc!Neighbours(v) = AllocProofs!Neighbours(v)
       /\ \A v : Alloc!AvailableRegs(v) = AllocProofs!AvailableRegs(v)
  BY <1>1, <1>11 DEF Alloc!Neighbours, AllocProofs!Neighbours, Alloc!AvailableRegs, AllocProofs!AvailableRegs
<1>14. /\ \A v : Alloc!Degree(v) = AllocProofs!Degree(v)
  BY <1>1, <1>13 DEF Alloc!Degree, AllocProofs!Degree
<1>15. /\ \A v : Alloc!LowDegree(v) = AllocProofs!LowDegree(v)
       /\ \A v, w : Alloc!Before(v, w) = AllocProofs!Before(v, w)
  BY <1>1, <1>13, <1>14 DEF Alloc!LowDegree, AllocProofs!LowDegree, Alloc!Before, AllocProofs!Before
<1>16. \A v : /\ Alloc!SimplifyLow(v) => AllocProofs!SimplifyLow(v)
              /\ Alloc!SelectSpillCandidate(v) => AllocProofs!SelectSpillCandidate(v)
  BY <1>15 DEF Alloc!SimplifyLow, AllocProofs!SimplifyLow, Alloc!SelectSpillCandidate,
     AllocProofs!SelectSpillCandidate, Alloc!Push, AllocProofs!Push
<1>17. Alloc!Simplified => AllocProofs!Simplified
  BY DEF Alloc!Simplified, AllocProofs!Simplified
<1>18. \A v : Alloc!Free(v) = AllocProofs!Free(v)
  BY <1>13 DEF Alloc!Free, AllocProofs!Free
<1>19. \A r : Alloc!Colour(r) => AllocProofs!Colour(r)
  BY <1>18 DEF Alloc!Colour, AllocProofs!Colour, Alloc!Last, AllocProofs!Last,
     Alloc!Front, AllocProofs!Front
<1>20. \A m, r : Alloc!Replaced(m, r) = AllocProofs!Replaced(m, r)
  BY DEF Alloc!Replaced, AllocProofs!Replaced
<1>21. \A x, u, d : Alloc!RewriteVreg(x, u, d) = AllocProofs!RewriteVreg(x, u, d)
  <2> SUFFICES ASSUME NEW x, NEW u, NEW d
               PROVE  Alloc!RewriteVreg(x, u, d) = AllocProofs!RewriteVreg(x, u, d)
    OBVIOUS
  <2>1. [j \in DOMAIN x.uses |-> Alloc!Replaced(u, x.uses[j])]
          = [j \in DOMAIN x.uses |-> AllocProofs!Replaced(u, x.uses[j])]
    BY <1>20
  <2> QED BY <1>20, <2>1, Zenon DEF Alloc!RewriteVreg, AllocProofs!RewriteVreg
<1>22. /\ \A d, s, i : Alloc!LoadSlot(d, s, i) = AllocProofs!LoadSlot(d, s, i)
       /\ \A r, s, t, i : Alloc!SaveSlot(r, s, t, i) = AllocProofs!SaveSlot(r, s, t, i)
       /\ \A s, e : Alloc!IndexFirst(s, e) = AllocProofs!IndexFirst(s, e)
  BY <1>1 DEF Alloc!LoadSlot, AllocProofs!LoadSlot, Alloc!SaveSlot, AllocProofs!SaveSlot,
     Alloc!IndexFirst, AllocProofs!IndexFirst
<1>23. \A acc, x, slotOf : Alloc!SpillInst(acc, x, slotOf) = AllocProofs!SpillInst(acc, x, slotOf)
  <2> SUFFICES ASSUME NEW acc, NEW x, NEW slotOf
               PROVE  Alloc!SpillInst(acc, x, slotOf) = AllocProofs!SpillInst(acc, x, slotOf)
    OBVIOUS
  <2> DEFINE readsA == Alloc!UseRegs(x) \cap spilled
               insA   == [v \in readsA |->
                             acc.next + Alloc!Cardinality({w \in readsA :
                                          Alloc!IndexFirst(x.uses, w) < Alloc!IndexFirst(x.uses, v)})]
               loadsA == [j \in 1..Alloc!Cardinality(readsA) |->
                             LET v == CHOOSE u \in readsA : insA[u] = acc.next + j - 1
                             IN  Alloc!LoadSlot(insA[v], slotOf[v], x.orig)]
               outA   == acc.next + Alloc!Cardinality(readsA)
               bothA  == [code |-> acc.code \o loadsA
                             \o <<Alloc!RewriteVreg(x, insA, [r \in {x.def} |-> outA]),
                                  Alloc!SaveSlot(outA, slotOf[x.def], outA + 1, x.orig)>>,
                           next |-> outA + 2]
               oneA   == [code |-> acc.code \o loadsA \o <<Alloc!RewriteVreg(x, insA, <<>>)>>,
                           next |-> outA]
  <2> DEFINE readsP == AllocProofs!UseRegs(x) \cap spilled
               insP   == [v \in readsP |->
                             acc.next + AllocProofs!Cardinality({w \in readsP :
                                          AllocProofs!IndexFirst(x.uses, w) < AllocProofs!IndexFirst(x.uses, v)})]
               loadsP == [j \in 1..AllocProofs!Cardinality(readsP) |->
                             LET v == CHOOSE u \in readsP : insP[u] = acc.next + j - 1
                             IN  AllocProofs!LoadSlot(insP[v], slotOf[v], x.orig)]
               outP   == acc.next + AllocProofs!Cardinality(readsP)
               bothP  == [code |-> acc.code \o loadsP
                             \o <<AllocProofs!RewriteVreg(x, insP, [r \in {x.def} |-> outP]),
                                  AllocProofs!SaveSlot(outP, slotOf[x.def], outP + 1, x.orig)>>,
                           next |-> outP + 2]
               oneP   == [code |-> acc.code \o loadsP \o <<AllocProofs!RewriteVreg(x, insP, <<>>)>>,
                           next |-> outP]
  <2>1. /\ Alloc!SpillInst(acc, x, slotOf) = IF x.def \in spilled THEN bothA ELSE oneA
        /\ AllocProofs!SpillInst(acc, x, slotOf) = IF x.def \in spilled THEN bothP ELSE oneP
    BY DEF Alloc!SpillInst, AllocProofs!SpillInst
  <2>2. readsA = readsP
    BY <1>6
  <2> HIDE DEF readsA, readsP
  <2>3. insA = insP
    <3>1. \A v : {w \in readsA : Alloc!IndexFirst(x.uses, w) < Alloc!IndexFirst(x.uses, v)}
                = {w \in readsP : AllocProofs!IndexFirst(x.uses, w) < AllocProofs!IndexFirst(x.uses, v)}
      BY <1>22, <2>2
    <3> QED BY <1>1, <2>2, <3>1
  <2> HIDE DEF insA, insP
  <2>4. outA = outP
    BY <1>1, <2>2
  <2>5. loadsA = loadsP
    <3>1. \A j : (CHOOSE u \in readsA : insA[u] = acc.next + j - 1)
                = (CHOOSE u \in readsP : insP[u] = acc.next + j - 1)
      BY <2>2, <2>3
    <3> QED BY <1>1, <1>22, <2>2, <2>3, <3>1
  <2> HIDE DEF loadsA, loadsP, outA, outP
  <2>6. bothA = bothP /\ oneA = oneP
    BY <1>21, <1>22, <2>3, <2>4, <2>5
  <2> QED BY <2>1, <2>6
<1>24. Alloc!SpillVregs => AllocProofs!SpillVregs
  BY <1>1, <1>23 DEF Alloc!SpillVregs, AllocProofs!SpillVregs, Alloc!Forget, AllocProofs!Forget
<1>25. Alloc!RewriteAssigned => AllocProofs!RewriteAssigned
  BY <1>1, <1>21 DEF Alloc!RewriteAssigned, AllocProofs!RewriteAssigned
<1>26. \A b, n : Alloc!Exec(b, n) => AllocProofs!Exec(b, n)
  BY <1>7 DEF Alloc!Exec, AllocProofs!Exec
<1>27. Alloc!ExecLoad => AllocProofs!ExecLoad
  BY DEF Alloc!ExecLoad, AllocProofs!ExecLoad
<1>28. \A far : Alloc!ExecSave(far) => AllocProofs!ExecSave(far)
  BY <1>1 DEF Alloc!ExecSave, AllocProofs!ExecSave
<1>29. Alloc!Finished => AllocProofs!Finished
  BY DEF Alloc!Finished, AllocProofs!Finished, Alloc!vars, AllocProofs!vars
<1>30. Alloc!Next => AllocProofs!Next
  BY <1>1, <1>12, <1>16, <1>17, <1>19, <1>24, <1>25, <1>26, <1>27, <1>28, <1>29
     DEF Alloc!Next, AllocProofs!Next
<1>31. AllocProofs!TypeOK => Alloc!TypeOK
  BY <1>1, <1>6, <1>11 DEF Alloc!TypeOK, AllocProofs!TypeOK
<1>32. AllocProofs!ValuesPreserved => Alloc!ValuesPreserved
  BY DEF Alloc!ValuesPreserved, AllocProofs!ValuesPreserved
<1>33. AllocProofs!OnlyCandidatesSpill => Alloc!OnlyCandidatesSpill
  BY DEF Alloc!OnlyCandidatesSpill, AllocProofs!OnlyCandidatesSpill
<1> QED BY <1>4, <1>5, <1>30, <1>31, <1>32, <1>33

-----------------------------------------------------------------------------
\* One step of the composition is a step of its stage or none.
PhiStagesInv ==
  /\ stage = "edges"  => EdgeProofs!PhiInv
  /\ stage = "copies" => CopyProofs!CopyInv

FrameStagesInv == stage = "frame" => FrameProofs!FrameInv

LEMMA PhiStagesStep ==
  ASSUME PhiStagesInv, [StageNext]_allVars
  PROVE  PhiStagesInv'
<1>1. EdgeProofs!NumNodesAssumption /\ CopyProofs!NumRegsAssumption
  BY StagesAssumption DEF Edges!NumNodesAssumption, Copies!NumRegsAssumption,
     EdgeProofs!NumNodesAssumption, CopyProofs!NumRegsAssumption
<1>2. stage' = stage
  BY DEF StageNext, allVars
<1>3. ASSUME stage = "edges" PROVE EdgeProofs!PhiInv'
  <2>1. Edges!Next \/ UNCHANGED edgeVars
    BY <1>3 DEF StageNext, allVars
  <2>2. [EdgeProofs!Next]_(EdgeProofs!vars)
    BY <2>1, SameEdges DEF edgeVars, EdgeProofs!vars
  <2> QED BY <1>1, <1>3, <2>2, EdgeProofs!PhiStep DEF PhiStagesInv
<1>4. ASSUME stage = "copies" PROVE CopyProofs!CopyInv'
  <2>1. Copies!Next \/ UNCHANGED copyVars
    BY <1>4 DEF StageNext, allVars
  <2>2. [CopyProofs!Next]_(CopyProofs!vars)
    BY <2>1, SameCopies DEF copyVars, CopyProofs!vars
  <2> QED BY <1>1, <1>4, <2>2, CopyProofs!CopyStep DEF PhiStagesInv
<1> QED BY <1>2, <1>3, <1>4 DEF PhiStagesInv

\* Whichever way the lowered function takes to a block it finds the phis in
\* their registers, and the moves that stand for the copies of an edge do what
\* they do at once: for any number of blocks, phis and registers
\* (lower_instruction, add_transit_block, resolve_parallel_copy).
THEOREM PhisAreKept == StageSpec => []PhisKeepValues
<1>1. EdgeProofs!NumNodesAssumption /\ CopyProofs!NumRegsAssumption
  BY StagesAssumption DEF Edges!NumNodesAssumption, Copies!NumRegsAssumption,
     EdgeProofs!NumNodesAssumption, CopyProofs!NumRegsAssumption
<1>2. StageInit => PhiStagesInv
  <2>1. Edges!Init => EdgeProofs!PhiInv
    BY <1>1, SameEdges, EdgeProofs!PhiInit
  <2>2. Copies!Init => CopyProofs!CopyInv
    BY <1>1, SameCopies, CopyProofs!CopyInit
  <2> QED BY <2>1, <2>2 DEF StageInit, PhiStagesInv
<1>3. PhiStagesInv /\ [StageNext]_allVars => PhiStagesInv'
  BY PhiStagesStep
<1>4. PhiStagesInv => PhisKeepValues
  <2>1. EdgeProofs!PhiInv => Edges!PhisArrive
    BY <1>1, SameEdges, EdgeProofs!PhiInvImplies
  <2>2. CopyProofs!CopyInv => /\ Copies!TypeOK /\ Copies!ParallelAssignment
                              /\ Copies!ReadBeforeOverwritten /\ Copies!OneTempPerCycle
    BY <1>1, SameCopies, CopyProofs!CopyInvImplies
  <2> QED BY <2>1, <2>2 DEF PhiStagesInv, PhisKeepValues
<1> QED BY <1>2, <1>3, <1>4, PTL DEF StageSpec

\* Frames keep apart what is the caller's, what was saved and what the body
\* stores, and the return restores what the prologue saved: for any slots,
\* alignments and registers (compute_frame_layout, insert_logue).
THEOREM FrameIsKept == StageSpec => []FrameKeepsValues
<1>1. FrameProofs!LayoutAssumption
  BY StagesAssumption, SameFrame
<1>2. StageInit => FrameStagesInv
  <2>1. Frame!Init => FrameProofs!FrameInv
    BY <1>1, SameFrame, FrameProofs!FrameInit
  <2> QED BY <2>1 DEF StageInit, FrameStagesInv
<1>3. FrameStagesInv /\ [StageNext]_allVars => FrameStagesInv'
  <2> SUFFICES ASSUME FrameStagesInv, [StageNext]_allVars, stage = "frame"
               PROVE  FrameProofs!FrameInv'
    BY DEF FrameStagesInv, StageNext, allVars
  <2>1. Frame!Next \/ UNCHANGED frameVars
    BY DEF StageNext, allVars
  <2>2. [FrameProofs!Next]_(FrameProofs!vars)
    BY <2>1, SameFrame DEF frameVars, FrameProofs!vars, FrameProofs!frame, FrameProofs!run
  <2> QED BY <1>1, <2>2, FrameProofs!FrameStep DEF FrameStagesInv
<1>4. FrameStagesInv => FrameKeepsValues
  <2>1. FrameProofs!FrameInv => /\ Frame!TypeOK /\ Frame!EntryRestored
                                /\ Frame!SlotsKeepValues /\ Frame!IncomingArgumentsKept
    BY <1>1, SameFrame, FrameProofs!FrameInvImplies
  <2> QED BY <2>1 DEF FrameStagesInv, FrameKeepsValues
<1> QED BY <1>2, <1>3, <1>4, PTL DEF StageSpec

\* An allocated function reads from its registers and spill slots the values
\* that the lowered function reads from its vregs, whichever way it runs and
\* however often vregs were spilled, and only vregs pushed with a high degree
\* are spilled: for any functions, registers and rounds (register_allocation).
THEOREM AllocationIsKept == StageSpec => []AllocationKeepsValues
<1> DEFINE Inv == stage = "alloc" => AllocProofs!AllocInv
<1>1. AllocProofs!RegsAssumption
  BY StagesAssumption, SameAlloc
<1>2. StageInit => Inv
  <2>1. Alloc!Init => AllocProofs!AllocInv
    BY <1>1, SameAlloc, AllocProofs!AllocInit
  <2> QED BY <2>1 DEF StageInit
<1>3. Inv /\ [StageNext]_allVars => Inv'
  <2> SUFFICES ASSUME Inv, [StageNext]_allVars, stage = "alloc"
               PROVE  AllocProofs!AllocInv'
    BY DEF StageNext, allVars
  <2>1. Alloc!Next \/ UNCHANGED allocVars
    BY DEF StageNext, allVars
  <2>2. [AllocProofs!Next]_(AllocProofs!vars)
    BY <2>1, SameAlloc DEF allocVars, AllocProofs!vars, AllocProofs!graph, AllocProofs!colours,
       AllocProofs!machine
  <2> QED BY <1>1, <2>2, AllocProofs!AllocStep
<1>4. Inv => AllocationKeepsValues
  <2>1. AllocProofs!AllocInv => /\ Alloc!TypeOK /\ Alloc!ValuesPreserved /\ Alloc!OnlyCandidatesSpill
    BY <1>1, SameAlloc, AllocProofs!AllocInvImplies
  <2> QED BY <2>1 DEF AllocationKeepsValues
<1> HIDE DEF Inv
<1> QED BY <1>2, <1>3, <1>4, PTL DEF StageSpec

-----------------------------------------------------------------------------
\* The inductive invariant of relaxation.  That every id is below the length is what makes
\* BlockId(blocks.len()) fresh; targets are known so that records stay typed.
IInv == TypeOK /\ IdsArePositions /\ NumBlocks <= Len(blocks)

LEMMA InitInv == Init => IInv
<1> SUFFICES ASSUME Init PROVE IInv
  OBVIOUS
<1>1. /\ source \in [1..NumBlocks -> Lowered] /\ pc = "relax"
      /\ blocks = [k \in 1..NumBlocks |-> WithId(k, source[k])]
  BY DEF Init
<1>2. \A k \in 1..NumBlocks : WithId(k, source[k]) \in Block
  <2> SUFFICES ASSUME NEW k \in 1..NumBlocks PROVE WithId(k, source[k]) \in Block
    OBVIOUS
  <2>1. /\ source[k].code \in CodeSizes /\ source[k].branch \in Ids \cup {None}
        /\ source[k].exit \in Ids \cup {Return}
    BY <1>1 DEF Lowered
  <2>2. k - 1 \in Nat /\ Ids \subseteq Nat
    BY BlocksAssumption DEF Ids
  <2>3. source[k].code \in Nat
    BY <2>1, RangeAssumption
  <2> QED BY <2>1, <2>2, <2>3 DEF WithId, Block
<1>3. blocks \in Seq(Block) /\ Len(blocks) = NumBlocks /\ DOMAIN blocks = 1..NumBlocks
  BY <1>1, <1>2, BlocksAssumption
<1>4. \A k \in DOMAIN blocks : blocks[k].id = k - 1
  BY <1>1, <1>3 DEF WithId
<1>5. IdsArePositions
  BY <1>3, <1>4, BlocksAssumption DEF IdsArePositions
<1> QED
  BY <1>1, <1>3, <1>5, BlocksAssumption DEF IInv, TypeOK

\* What a round of relax_branches does to the layout: blocks behind the branch
\* move up by one, the new block has the fresh id and the old target.
LEMMA RelaxShape ==
  ASSUME IInv, NEW k \in DOMAIN blocks, RelaxBranch(k)
  PROVE  /\ k \in 1..Len(blocks) /\ pc' = pc /\ source' = source
         /\ blocks[k].branch \in Nat
         /\ blocks' \in Seq(Block) /\ Len(blocks') = Len(blocks) + 1
         /\ \A j \in 1..k : /\ blocks'[j].id = blocks[j].id /\ blocks'[j].code = blocks[j].code
                            /\ blocks'[j].exit = blocks[j].exit
                            /\ blocks'[j].branch = IF j = k THEN Len(blocks) ELSE blocks[j].branch
         /\ blocks'[k + 1] = Springboard(Len(blocks), blocks[k].branch)
         /\ \A j \in (k + 1)..Len(blocks) : blocks'[j + 1] = blocks[j]
<1> DEFINE new  == Len(blocks)
           retargeted == [blocks EXCEPT ![k].branch = new]
           added == Springboard(new, blocks[k].branch)
<1>1. /\ blocks \in Seq(Block) /\ source \in [1..NumBlocks -> Lowered]
      /\ Len(blocks) \in Nat /\ NumBlocks <= Len(blocks) /\ DOMAIN blocks = 1..Len(blocks)
  BY DEF IInv, TypeOK
<1>2. /\ blocks' = InsertAt(retargeted, k + 1, added) /\ pc' = pc /\ source' = source
      /\ blocks[k].branch \in Nat
  <2>1. blocks[k] \in Block /\ blocks[k].branch # None
    BY <1>1 DEF RelaxBranch, OutOfRange, Branches
  <2>2. blocks[k].branch \in Nat
    BY <2>1 DEF Block
  <2> QED BY <2>2 DEF RelaxBranch
<1>3. added \in Block /\ added.id = Len(blocks)
  BY <1>1, <1>2 DEF Springboard, Block
<1>4. /\ retargeted \in Seq(Block) /\ Len(retargeted) = Len(blocks)
      /\ \A j \in 1..Len(blocks) :
           /\ j # k => retargeted[j] = blocks[j]
           /\ retargeted[j].id = blocks[j].id /\ retargeted[j].code = blocks[j].code
           /\ retargeted[j].exit = blocks[j].exit
           /\ retargeted[j].branch = IF j = k THEN new ELSE blocks[j].branch
  <2>1. blocks[k] \in Block /\ new \in Nat
    BY <1>1
  <2> HIDE DEF new
  <2>2. [blocks[k] EXCEPT !.branch = new] \in Block
    BY <2>1 DEF Block
  <2>3. /\ Len(retargeted) = Len(blocks) /\ DOMAIN retargeted = 1..Len(blocks)
        /\ \A j \in 1..Len(blocks) :
             retargeted[j] = IF j = k THEN [blocks[k] EXCEPT !.branch = new] ELSE blocks[j]
    BY <1>1
  <2>4. \A j \in 1..Len(blocks) : retargeted[j] \in Block
    BY <1>1, <2>2, <2>3
  <2>5. retargeted \in Seq(Block)
    BY <1>1, <2>2
  <2>6. LET b == [blocks[k] EXCEPT !.branch = new]
        IN  /\ b.id = blocks[k].id /\ b.code = blocks[k].code
            /\ b.exit = blocks[k].exit /\ b.branch = new
    BY <2>1 DEF Block
  <2> QED BY <2>3, <2>5, <2>6
<1>5. k + 1 \in 1..(Len(retargeted) + 1) /\ k \in Nat
  BY <1>1, <1>4
<1> HIDE DEF new, retargeted, added
<1>6. /\ blocks' \in Seq(Block) /\ Len(blocks') = Len(blocks) + 1
      /\ \A j \in 1..k : blocks'[j] = retargeted[j]
      /\ blocks'[k + 1] = added
      /\ \A j \in (k + 1)..Len(blocks) : blocks'[j + 1] = retargeted[j]
  <2>1. /\ blocks' \in Seq(Block) /\ Len(blocks') = Len(retargeted) + 1
        /\ \A j \in 1..((k + 1) - 1) : blocks'[j] = retargeted[j]
        /\ blocks'[k + 1] = added
        /\ \A j \in (k + 1)..Len(retargeted) : blocks'[j + 1] = retargeted[j]
    <3>1. retargeted \in Seq(Block) /\ added \in Block
          /\ blocks' = InsertAt(retargeted, k + 1, added)
      BY <1>2, <1>3, <1>4
    <3> QED BY <1>5, <3>1, InsertAtProperties
  <2> QED BY <1>4, <1>5, <2>1
<1> QED BY <1>1, <1>2, <1>4, <1>5, <1>6 DEF new, added

\* Inserting a springboard with a fresh id keeps all ids distinct.
LEMMA RelaxInv ==
  ASSUME IInv, NEW k \in DOMAIN blocks, RelaxBranch(k)
  PROVE  IInv'
<1>1. /\ blocks \in Seq(Block) /\ source \in [1..NumBlocks -> Lowered]
      /\ Len(blocks) \in Nat /\ NumBlocks <= Len(blocks) /\ DOMAIN blocks = 1..Len(blocks)
      /\ \A j, l \in DOMAIN blocks : blocks[j].id = blocks[l].id => j = l
      /\ \A j \in DOMAIN blocks : blocks[j].id < Len(blocks)
  BY DEF IInv, TypeOK, IdsArePositions
<1>2. /\ k \in 1..Len(blocks) /\ pc' = pc /\ source' = source
      /\ blocks' \in Seq(Block) /\ Len(blocks') = Len(blocks) + 1
      /\ \A j \in 1..k : blocks'[j].id = blocks[j].id
      /\ blocks'[k + 1].id = Len(blocks)
      /\ \A j \in (k + 1)..Len(blocks) : blocks'[j + 1] = blocks[j]
  <2>1. blocks'[k + 1] = Springboard(Len(blocks), blocks[k].branch)
    BY RelaxShape
  <2>2. blocks'[k + 1].id = Len(blocks)
    BY <2>1 DEF Springboard
  <2> QED BY <2>2, RelaxShape
<1> DEFINE old(j) == IF j <= k THEN j ELSE j - 1
<1>7. ASSUME NEW j \in DOMAIN blocks', j # k + 1
      PROVE  old(j) \in DOMAIN blocks /\ blocks'[j].id = blocks[old(j)].id
  <2>1. DOMAIN blocks' = 1..(Len(blocks) + 1)
    BY <1>2
  <2>2. CASE j <= k
    BY <1>1, <1>2, <2>1, <2>2
  <2>3. CASE j > k + 1
    <3>1. j - 1 \in (k + 1)..Len(blocks) /\ (j - 1) + 1 = j /\ j - 1 \in 1..Len(blocks)
      BY <1>1, <1>2, <2>1, <2>3
    <3>2. blocks'[j] = blocks[j - 1]
      BY <1>2, <3>1
    <3> QED BY <1>1, <1>2, <2>3, <3>1, <3>2
  <2> QED BY <1>2, <1>7, <2>1, <2>2, <2>3
<1>8. ASSUME NEW j \in DOMAIN blocks', NEW l \in DOMAIN blocks',
             blocks'[j].id = blocks'[l].id
      PROVE  j = l
  <2>1. CASE j = k + 1 /\ l = k + 1
    BY <2>1
  <2>2. CASE j = k + 1 /\ l # k + 1
    <3>1. blocks[old(l)].id < Len(blocks) /\ blocks'[l].id = blocks[old(l)].id
      BY <1>1, <1>7, <2>2
    <3> QED BY <1>1, <1>2, <1>8, <2>2, <3>1
  <2>3. CASE j # k + 1 /\ l = k + 1
    <3>1. blocks[old(j)].id < Len(blocks) /\ blocks'[j].id = blocks[old(j)].id
      BY <1>1, <1>7, <2>3
    <3> QED BY <1>1, <1>2, <1>8, <2>3, <3>1
  <2>4. CASE j # k + 1 /\ l # k + 1
    <3>1. old(j) = old(l)
      <4> HIDE DEF old
      <4> QED BY <1>1, <1>7, <1>8, <2>4
    <3>2. j \in Int /\ l \in Int
      BY <1>2
    <3> QED BY <1>2, <2>4, <3>1, <3>2
  <2> QED BY <2>1, <2>2, <2>3, <2>4
<1>9. ASSUME NEW j \in DOMAIN blocks' PROVE blocks'[j].id < Len(blocks')
  <2>1. CASE j = k + 1
    BY <1>1, <1>2, <2>1
  <2>2. CASE j # k + 1
    <3> HIDE DEF old
    <3>1. blocks'[j].id = blocks[old(j)].id /\ old(j) \in DOMAIN blocks
      BY <1>7, <2>2
    <3>2. blocks[old(j)].id < Len(blocks) /\ blocks[old(j)].id \in Nat
      <4>1. blocks[old(j)] \in Block /\ blocks[old(j)].id < Len(blocks)
        BY <1>1, <3>1
      <4> QED BY <4>1 DEF Block
    <3> QED BY <1>1, <1>2, <3>1, <3>2
  <2> QED BY <2>1, <2>2
<1>10. IdsArePositions'
  BY <1>8, <1>9 DEF IdsArePositions
<1>11. TypeOK'
  BY <1>1, <1>2 DEF TypeOK, IInv
<1> QED
  BY <1>1, <1>2, <1>10, <1>11, BlocksAssumption DEF IInv

LEMMA FallthroughInv ==
  ASSUME IInv, OptimizeFallthroughs
  PROVE  IInv'
<1>1. /\ blocks \in Seq(Block) /\ source \in [1..NumBlocks -> Lowered]
      /\ Len(blocks) \in Nat /\ DOMAIN blocks = 1..Len(blocks)
      /\ IdsArePositions /\ NumBlocks <= Len(blocks)
  BY DEF IInv, TypeOK
<1> DEFINE popped(k) == IF k < Len(blocks) /\ blocks[k].exit = blocks[k + 1].id
                        THEN [blocks[k] EXCEPT !.exit = Falls] ELSE blocks[k]
<1>2. \A k \in DOMAIN blocks : popped(k) \in Block /\ popped(k).id = blocks[k].id
  <2> SUFFICES ASSUME NEW k \in DOMAIN blocks
               PROVE  popped(k) \in Block /\ popped(k).id = blocks[k].id
    OBVIOUS
  <2>1. blocks[k] \in Block
    BY <1>1
  <2>2. /\ [blocks[k] EXCEPT !.exit = Falls] \in Block
        /\ [blocks[k] EXCEPT !.exit = Falls].id = blocks[k].id
    BY <2>1 DEF Block
  <2> QED BY <2>1, <2>2
<1>3. blocks' = [k \in DOMAIN blocks |-> popped(k)] /\ pc' = "done" /\ source' = source
  BY DEF OptimizeFallthroughs
<1> HIDE DEF popped
<1>4. /\ blocks' \in Seq(Block) /\ Len(blocks') = Len(blocks)
      /\ DOMAIN blocks' = DOMAIN blocks
      /\ \A k \in DOMAIN blocks : blocks'[k].id = blocks[k].id
  BY <1>1, <1>2, <1>3
<1>5. IdsArePositions'
  BY <1>1, <1>4 DEF IdsArePositions
<1> QED
  BY <1>1, <1>3, <1>4, <1>5 DEF IInv, TypeOK

THEOREM IdsInvariant == Spec => []IInv
<1>1. IInv /\ [Next]_vars => IInv'
  <2> SUFFICES ASSUME IInv, [Next]_vars PROVE IInv'
    OBVIOUS
  <2>1. ASSUME NEW k \in DOMAIN blocks, RelaxBranch(k) PROVE IInv'
    BY <2>1, RelaxInv
  <2>2. CASE RelaxDone \/ SkipFallthroughs
    BY <2>2 DEF RelaxDone, SkipFallthroughs, IInv, TypeOK, IdsArePositions
  <2>3. CASE OptimizeFallthroughs
    BY <2>3, FallthroughInv
  <2>4. CASE Finished \/ UNCHANGED vars
    BY <2>4 DEF Finished, vars, IInv, TypeOK, IdsArePositions
  <2> QED BY <2>1, <2>2, <2>3, <2>4 DEF Next
<1> QED
  BY <1>1, InitInv, PTL DEF Spec

\* Block ids are unique and dense in every reachable layout.
THEOREM BlockIdsUnique == Spec => []IdsArePositions
<1>1. IInv => IdsArePositions
  BY DEF IInv
<1> QED
  BY <1>1, IdsInvariant, PTL

\* Every block and pass state stays well typed.
THEOREM RelaxTypeCorrect == Spec => []TypeOK
<1>1. IInv => TypeOK
  BY DEF IInv
<1> QED
  BY <1>1, IdsInvariant, PTL

-----------------------------------------------------------------------------
(* Offsets are sums of sizes: compute_block_offsets does what its recursion  *)
(* says, and the offsets of shorter blocks are closer to each other.         *)

LEMMA SizeType ==
  ASSUME NEW b \in Block
  PROVE  Size(b) \in Nat
<1>1. b.code \in Nat
  BY DEF Block
<1> QED BY <1>1 DEF Size

LEMMA OffsetsStep ==
  ASSUME NEW bs \in Seq(Block), NEW off, off = Offsets(bs)
  PROVE  off = [k \in 1..Len(bs) |-> IF k = 1 THEN 0 ELSE off[k - 1] + Size(bs[k - 1])]
<1> DEFINE sizes == [k \in 1..Len(bs) |-> Size(bs[k])]
           Sums(g) == g = [k \in 1..Len(bs) |-> IF k = 1 THEN 0 ELSE g[k - 1] + Size(bs[k - 1])]
<1>1. sizes \in [1..Len(bs) -> Nat] /\ Len(bs) \in Nat
  <2>1. \A k \in 1..Len(bs) : bs[k] \in Block
    OBVIOUS
  <2> QED BY <2>1, SizeType
<1>2. PICK g : g = [k \in 1..Len(bs) |-> IF k = 1 THEN 0 ELSE g[k - 1] + sizes[k - 1]]
  <2> HIDE DEF sizes
  <2> QED BY <1>1, PrefixSumsExist
<1>3. Sums(g)
  <2>1. \A k \in 1..Len(bs) : k = 1 \/ sizes[k - 1] = Size(bs[k - 1])
    BY <1>1
  <2> HIDE DEF sizes
  <2> QED BY <1>2, <2>1
<1> HIDE DEF Sums
<1>4. Sums(CHOOSE f : Sums(f))
  BY <1>3, Zenon
<1> QED BY <1>4 DEF Offsets, Sums

LEMMA OffsetsType ==
  ASSUME NEW bs \in Seq(Block)
  PROVE  \A k \in 1..Len(bs) : Offsets(bs)[k] \in Nat
<1> DEFINE off == Offsets(bs)
           S  == {n \in Nat : \A k \in 1..Len(bs) : k <= n => off[k] \in Nat}
<1>1. off = [k \in 1..Len(bs) |-> IF k = 1 THEN 0 ELSE off[k - 1] + Size(bs[k - 1])]
  BY OffsetsStep
<1> HIDE DEF off
<1>2. 0 \in S
  OBVIOUS
<1>3. ASSUME NEW n \in Nat, n \in S PROVE n + 1 \in S
  <2> SUFFICES ASSUME NEW k \in 1..Len(bs), k = n + 1 PROVE off[k] \in Nat
    BY <1>3
  <2>1. CASE k = 1
    BY <1>1, <2>1
  <2>2. CASE k # 1
    <3>1. k - 1 \in 1..Len(bs) /\ k - 1 <= n
      BY <2>2
    <3>2. Size(bs[k - 1]) \in Nat
      BY <3>1, SizeType
    <3> QED BY <1>1, <1>3, <2>2, <3>1, <3>2
  <2> QED BY <2>1, <2>2
<1>4. Len(bs) \in S
  <2> HIDE DEF S
  <2> QED BY <1>2, <1>3, InductionOnSet
<1> QED BY <1>4 DEF off

LEMMA OffsetsNext ==
  ASSUME NEW bs \in Seq(Block), NEW k \in 1..Len(bs), k < Len(bs)
  PROVE  Offsets(bs)[k + 1] = Offsets(bs)[k] + Size(bs[k])
<1> DEFINE off == Offsets(bs)
<1>1. off = [j \in 1..Len(bs) |-> IF j = 1 THEN 0 ELSE off[j - 1] + Size(bs[j - 1])]
  BY OffsetsStep
<1>2. k + 1 \in 1..Len(bs) /\ k + 1 # 1 /\ (k + 1) - 1 = k
  OBVIOUS
<1> HIDE DEF off
<1>3. off[k + 1] = off[k] + Size(bs[k])
  BY <1>1, <1>2
<1> QED BY <1>3 DEF off

LEMMA OffsetsShrink ==
  ASSUME NEW bs \in Seq(Block), NEW cs \in Seq(Block), Len(cs) = Len(bs),
         \A k \in 1..Len(bs) : Size(cs[k]) <= Size(bs[k])
  PROVE  \A i, j \in 1..Len(bs) : i <= j =>
           /\ 0 <= Offsets(cs)[j] - Offsets(cs)[i]
           /\ Offsets(cs)[j] - Offsets(cs)[i] <= Offsets(bs)[j] - Offsets(bs)[i]
<1> DEFINE x == Offsets(bs)
           y == Offsets(cs)
           S == {d \in Nat : \A i \in 1..Len(bs) : i + d <= Len(bs) =>
                   0 <= y[i + d] - y[i] /\ y[i + d] - y[i] <= x[i + d] - x[i]}
<1>1. \A k \in 1..Len(bs) : x[k] \in Nat /\ y[k] \in Nat
  BY OffsetsType
<1>2. \A k \in 1..Len(bs) : Size(bs[k]) \in Nat /\ Size(cs[k]) \in Nat
  <2>1. \A k \in 1..Len(bs) : bs[k] \in Block /\ cs[k] \in Block
    OBVIOUS
  <2> QED BY <2>1, SizeType
<1>3. \A k \in 1..Len(bs) : k < Len(bs) =>
        x[k + 1] = x[k] + Size(bs[k]) /\ y[k + 1] = y[k] + Size(cs[k])
  BY OffsetsNext
<1> HIDE DEF x, y
<1>4. 0 \in S
  BY <1>1
<1>5. ASSUME NEW d \in Nat, d \in S PROVE d + 1 \in S
  <2> SUFFICES ASSUME NEW i \in 1..Len(bs), i + (d + 1) <= Len(bs)
               PROVE  /\ 0 <= y[i + (d + 1)] - y[i]
                      /\ y[i + (d + 1)] - y[i] <= x[i + (d + 1)] - x[i]
    OBVIOUS
  <2> DEFINE k == i + d
  <2>1. k \in 1..Len(bs) /\ k < Len(bs) /\ i + (d + 1) = k + 1 /\ k + 1 \in 1..Len(bs)
    OBVIOUS
  <2>2. 0 <= y[k] - y[i] /\ y[k] - y[i] <= x[k] - x[i]
    BY <1>5, <2>1
  <2>3. x[k + 1] = x[k] + Size(bs[k]) /\ y[k + 1] = y[k] + Size(cs[k])
    BY <1>3, <2>1
  <2> HIDE DEF k
  <2>4. /\ x[k] \in Nat /\ y[k] \in Nat /\ x[i] \in Nat /\ y[i] \in Nat
        /\ Size(bs[k]) \in Nat /\ Size(cs[k]) \in Nat /\ Size(cs[k]) <= Size(bs[k])
    BY <1>1, <1>2, <2>1
  <2>5. PICK a, b, p, q, s, t \in Nat :
          a = x[k] /\ b = y[k] /\ p = x[i] /\ q = y[i] /\ s = Size(bs[k]) /\ t = Size(cs[k])
    BY <2>4
  <2>6. 0 <= b - q /\ b - q <= a - p /\ t <= s
    BY <2>2, <2>4, <2>5
  <2>7. 0 <= (b + t) - q /\ (b + t) - q <= (a + s) - p
    BY <2>6
  <2>8. x[i + (d + 1)] = a + s /\ y[i + (d + 1)] = b + t
    BY <2>1, <2>3, <2>5
  <2> QED BY <2>5, <2>7, <2>8
<1>6. Nat \subseteq S
  <2> HIDE DEF S
  <2> QED BY <1>4, <1>5, InductionOnSet
<1>7. ASSUME NEW i \in 1..Len(bs), NEW j \in 1..Len(bs), i <= j
      PROVE  0 <= y[j] - y[i] /\ y[j] - y[i] <= x[j] - x[i]
  <2>1. j - i \in Nat /\ i + (j - i) = j /\ i + (j - i) <= Len(bs)
    BY <1>7
  <2> QED BY <1>6, <2>1
<1> QED BY <1>7 DEF x, y

-----------------------------------------------------------------------------
(* Where control goes.  A block of the source still goes where it was meant  *)
(* to, by its jump or by falling into the next block; its branch is the one  *)
(* of the source, or leads to the springboard right behind it.  From there   *)
(* it is two words to the springboard, so no branch is led twice.            *)

Meant(k) == source[blocks[k].id + 1]

Goes(k, e) == \/ blocks[k].exit = e
              \/ blocks[k].exit = Falls /\ k < Len(blocks) /\ blocks[k + 1].id = e

Led(k) == /\ k < Len(blocks) /\ blocks[k + 1].id >= NumBlocks
          /\ blocks[k].branch = blocks[k + 1].id
          /\ Goes(k + 1, Meant(k).branch)

FlowInv ==
  /\ \A k \in 1..Len(blocks) :
       IF blocks[k].id < NumBlocks
       THEN /\ Branches(blocks[k]) <=> Branches(Meant(k))
            /\ Goes(k, Meant(k).exit)
            /\ blocks[k].branch = Meant(k).branch \/ Led(k)
       ELSE ~Branches(blocks[k])
  /\ pc # "done" => \A k \in 1..Len(blocks) : blocks[k].exit # Falls

\* Every id is used, so that a branch has somewhere to go.
Covered == \A i \in 0..(Len(blocks) - 1) : \E k \in 1..Len(blocks) : blocks[k].id = i

\* After the last round no branch is out of range.
RangeInv == pc # "relax" => \A k \in 1..Len(blocks) : ~OutOfRange(blocks, k)

\* The blocks whose branch is led over a springboard, one for each insertion.
LedBlocks == {i \in 1..NumBlocks :
                \E k \in 1..Len(blocks) : blocks[k].id = i - 1 /\ blocks[k].branch >= NumBlocks}

CountInv == /\ IsFiniteSet(LedBlocks) /\ Len(blocks) - NumBlocks = Cardinality(LedBlocks)
            /\ LedBlocks \subseteq {k \in DOMAIN source : Branches(source[k])}

LayoutInv == IInv /\ FlowInv /\ Covered /\ RangeInv /\ CountInv

LEMMA Facts ==
  ASSUME IInv
  PROVE  /\ blocks \in Seq(Block) /\ Len(blocks) \in Nat /\ NumBlocks <= Len(blocks)
         /\ DOMAIN blocks = 1..Len(blocks) /\ NumBlocks \in Nat
         /\ \A k \in 1..Len(blocks) :
              /\ blocks[k] \in Block
              /\ blocks[k].id \in Nat /\ blocks[k].id < Len(blocks)
              /\ blocks[k].code \in Nat /\ blocks[k].branch \in Nat \cup {None}
              /\ blocks[k].exit \in Nat \cup {Return, Falls}
         /\ \A j, k \in 1..Len(blocks) : blocks[j].id = blocks[k].id => j = k
         /\ \A k \in 1..Len(blocks) : blocks[k].id < NumBlocks =>
              /\ Meant(k).branch \in Ids \cup {None} /\ Meant(k).exit \in Ids \cup {Return}
              /\ blocks[k].id + 1 \in 1..NumBlocks
<1>1. /\ blocks \in Seq(Block) /\ Len(blocks) \in Nat /\ NumBlocks <= Len(blocks)
      /\ DOMAIN blocks = 1..Len(blocks) /\ NumBlocks \in Nat
      /\ source \in [1..NumBlocks -> Lowered]
      /\ \A k \in 1..Len(blocks) : blocks[k] \in Block /\ blocks[k].id < Len(blocks)
      /\ \A j, k \in 1..Len(blocks) : blocks[j].id = blocks[k].id => j = k
  BY BlocksAssumption DEF IInv, TypeOK, IdsArePositions
<1>2. ASSUME NEW k \in 1..Len(blocks)
      PROVE  /\ blocks[k].id \in Nat
             /\ blocks[k].code \in Nat /\ blocks[k].branch \in Nat \cup {None}
             /\ blocks[k].exit \in Nat \cup {Return, Falls}
  BY <1>1 DEF Block
<1>3. ASSUME NEW k \in 1..Len(blocks), blocks[k].id < NumBlocks
      PROVE  /\ Meant(k).branch \in Ids \cup {None} /\ Meant(k).exit \in Ids \cup {Return}
             /\ blocks[k].id + 1 \in 1..NumBlocks
  <2>1. blocks[k].id + 1 \in 1..NumBlocks
    BY <1>1, <1>2, <1>3
  <2>2. Meant(k) \in Lowered
    BY <1>1, <2>1 DEF Meant
  <2> QED BY <2>1, <2>2 DEF Lowered
<1> QED BY <1>1, <1>2, <1>3

\* The position of an id is where that id stands.
LEMMA PositionIs ==
  ASSUME IInv, NEW k \in 1..Len(blocks)
  PROVE  Position(blocks, blocks[k].id) = k
<1>1. \E j \in DOMAIN blocks : blocks[j].id = blocks[k].id
  BY Facts
<1>2. \A j \in DOMAIN blocks : blocks[j].id = blocks[k].id => j = k
  BY Facts
<1>3. LET p == CHOOSE j \in DOMAIN blocks : blocks[j].id = blocks[k].id
      IN  p \in DOMAIN blocks /\ blocks[p].id = blocks[k].id
  BY <1>1
<1> QED BY <1>2, <1>3 DEF Position

\* The same after a step.
LEMMA PositionAfter ==
  ASSUME IInv', NEW k \in 1..Len(blocks')
  PROVE  Position(blocks', blocks'[k].id) = k
<1>1. /\ DOMAIN blocks' = 1..Len(blocks')
      /\ \A i, j \in DOMAIN blocks' : blocks'[i].id = blocks'[j].id => i = j
  BY DEF IInv, TypeOK, IdsArePositions
<1>2. LET p == CHOOSE j \in DOMAIN blocks' : blocks'[j].id = blocks'[k].id
      IN  p \in DOMAIN blocks' /\ blocks'[p].id = blocks'[k].id
  BY <1>1
<1> QED BY <1>1, <1>2 DEF Position

\* A branch that is led is in range: the springboard is two words away.
LEMMA LedInRange ==
  ASSUME IInv, NEW k \in 1..Len(blocks), Led(k), Branches(blocks[k]), blocks[k].exit # Falls
  PROVE  ~OutOfRange(blocks, k)
<1>1. k < Len(blocks) /\ k + 1 \in 1..Len(blocks) /\ blocks[k].branch = blocks[k + 1].id
  BY Facts DEF Led
<1>2. Position(blocks, blocks[k].branch) = k + 1
  BY <1>1, PositionIs
<1>3. Offsets(blocks)[k + 1] = Offsets(blocks)[k] + Size(blocks[k])
  BY <1>1, Facts, OffsetsNext
<1>4. Size(blocks[k]) = blocks[k].code + 2 /\ blocks[k].code \in Nat
  BY Facts DEF Size
<1>5. Offsets(blocks)[k] \in Nat
  BY Facts, OffsetsType
<1>6. Distance(blocks, k) = 2
  BY <1>2, <1>3, <1>4, <1>5 DEF Distance
<1> QED BY <1>6, RangeAssumption DEF OutOfRange

LEMMA InitLayout == Init => LayoutInv
<1> SUFFICES ASSUME Init PROVE LayoutInv
  OBVIOUS
<1>1. /\ source \in [1..NumBlocks -> Lowered] /\ pc = "relax" /\ IInv
      /\ blocks = [k \in 1..NumBlocks |-> WithId(k, source[k])]
      /\ NumBlocks \in Nat
  BY InitInv, BlocksAssumption DEF Init
<1>2. Len(blocks) = NumBlocks
  BY <1>1
<1>3. ASSUME NEW k \in 1..NumBlocks
      PROVE  /\ blocks[k].id = k - 1 /\ blocks[k].branch = source[k].branch
             /\ blocks[k].exit = source[k].exit
             /\ source[k].branch \in Ids \cup {None} /\ source[k].exit \in Ids \cup {Return}
  <2>1. source[k] \in Lowered
    BY <1>1
  <2> QED BY <1>1, <2>1 DEF WithId, Lowered
<1>4. Covered
  <2> SUFFICES ASSUME NEW i \in 0..(NumBlocks - 1)
               PROVE  \E k \in 1..NumBlocks : blocks[k].id = i
    BY <1>2 DEF Covered
  <2>1. i + 1 \in 1..NumBlocks /\ (i + 1) - 1 = i
    BY <1>1
  <2> QED BY <1>3, <2>1
<1>5. FlowInv
  <2> SUFFICES ASSUME NEW k \in 1..NumBlocks
               PROVE  /\ blocks[k].id < NumBlocks
                      /\ Branches(blocks[k]) <=> Branches(Meant(k))
                      /\ Goes(k, Meant(k).exit)
                      /\ blocks[k].branch = Meant(k).branch
                      /\ blocks[k].exit # Falls
    BY <1>2 DEF FlowInv
  <2>1. blocks[k].id + 1 = k /\ blocks[k].id < NumBlocks
    BY <1>1, <1>3
  <2>2. source[k].exit # Falls
    BY <1>3 DEF Ids, Return, Falls
  <2> QED BY <1>3, <2>1, <2>2 DEF Meant, Branches, Goes
<1>6. RangeInv
  BY <1>1 DEF RangeInv
<1>7. LedBlocks = {}
  <2>1. \A k \in 1..NumBlocks : ~(blocks[k].branch >= NumBlocks)
    BY <1>1, <1>3 DEF Ids, None
  <2> QED BY <1>2, <2>1 DEF LedBlocks
<1>8. CountInv
  BY <1>1, <1>2, <1>7, FS_EmptySet DEF CountInv
<1> QED BY <1>1, <1>4, <1>5, <1>6, <1>8 DEF LayoutInv

\* A branch out of range is one of the source, not yet led.
LEMMA FirstTime ==
  ASSUME IInv, FlowInv, pc = "relax", NEW k \in 1..Len(blocks), OutOfRange(blocks, k)
  PROVE  /\ blocks[k].id < NumBlocks /\ Branches(Meant(k))
         /\ blocks[k].branch = Meant(k).branch /\ blocks[k].branch \in Ids
<1>1. Branches(blocks[k]) /\ blocks[k].exit # Falls
  BY DEF OutOfRange, FlowInv
<1>2. blocks[k].id < NumBlocks
  BY <1>1 DEF FlowInv
<1>3. ~Led(k)
  BY <1>1, LedInRange
<1>4. blocks[k].branch = Meant(k).branch /\ Branches(Meant(k))
  BY <1>1, <1>2, <1>3 DEF FlowInv
<1> QED BY <1>2, <1>4, Facts DEF Branches

LEMMA RelaxFlow ==
  ASSUME LayoutInv, NEW k \in DOMAIN blocks, RelaxBranch(k)
  PROVE  FlowInv' /\ Covered'
<1> DEFINE n == Len(blocks)
           add == Springboard(n, blocks[k].branch)
<1>1. /\ IInv /\ FlowInv /\ Covered /\ pc = "relax" /\ n \in Nat /\ k \in 1..n
      /\ NumBlocks \in Nat /\ NumBlocks <= n
  BY Facts DEF LayoutInv, RelaxBranch
<1>2. /\ pc' = pc /\ source' = source /\ Len(blocks') = n + 1
      /\ \A j \in 1..k : /\ blocks'[j].id = blocks[j].id
                         /\ blocks'[j].exit = blocks[j].exit
                         /\ blocks'[j].branch = IF j = k THEN n ELSE blocks[j].branch
      /\ blocks'[k + 1] = add
      /\ \A j \in (k + 1)..n : blocks'[j + 1] = blocks[j]
  BY <1>1, RelaxShape
<1>3. /\ blocks[k].id < NumBlocks /\ Branches(Meant(k))
      /\ blocks[k].branch = Meant(k).branch /\ blocks[k].branch \in Ids
  BY <1>1, FirstTime DEF RelaxBranch
<1>4. add.id = n /\ add.branch = None /\ add.exit = Meant(k).branch /\ add.exit # Falls
  BY <1>3 DEF Springboard, Ids, Falls
<1> HIDE DEF n, add
<1> DEFINE new(j) == IF j <= k THEN j ELSE j + 1
<1>5. ASSUME NEW j \in 1..n
      PROVE  /\ new(j) \in 1..(n + 1) /\ blocks'[new(j)].id = blocks[j].id
             /\ blocks'[new(j)].exit = blocks[j].exit
             /\ j # k => blocks'[new(j)].branch = blocks[j].branch
  BY <1>1, <1>2
<1>6. ASSUME NEW l \in 1..(n + 1), l # k + 1
      PROVE  \E j \in 1..n : l = new(j)
  <2>1. CASE l <= k
    <3>1. l \in 1..n /\ l = new(l)
      BY <1>1, <2>1
    <3> QED BY <3>1
  <2>2. CASE l > k + 1
    <3>1. l - 1 \in 1..n /\ l = new(l - 1)
      BY <1>1, <2>2
    <3> QED BY <3>1
  <2> QED BY <1>1, <1>6, <2>1, <2>2
<1>7. ASSUME NEW j \in 1..n, blocks[j].id < NumBlocks
      PROVE  Meant(new(j))' = Meant(j)
  BY <1>2, <1>5 DEF Meant
\* No block falls through yet, so where a block goes is its jump.
<1>8. ASSUME NEW j \in 1..n, NEW e, Goes(j, e)
      PROVE  blocks[j].exit = e /\ blocks'[new(j)].exit = e
  <2>1. blocks[j].exit # Falls
    BY <1>1 DEF FlowInv, n
  <2> QED BY <1>5, <1>8, <2>1 DEF Goes
<1>9. ASSUME NEW j \in 1..n, blocks[j].id < NumBlocks, j # k, Led(j)
      PROVE  Led(new(j))'
  <2>1. j < n /\ j + 1 \in 1..n /\ blocks[j + 1].id >= NumBlocks /\ blocks[j].branch = blocks[j + 1].id
        /\ Goes(j + 1, Meant(j).branch)
    BY <1>1, <1>9 DEF Led, n
  <2>2. new(j + 1) = new(j) + 1 /\ new(j) < n + 1
    BY <1>1, <1>9, <2>1
  <2>3. /\ blocks'[new(j) + 1].id = blocks[j + 1].id
        /\ blocks'[new(j)].branch = blocks[j].branch
    BY <1>5, <1>9, <2>1, <2>2
  <2>4. blocks'[new(j) + 1].exit = Meant(new(j))'.branch
    <3>1. blocks'[new(j + 1)].exit = Meant(j).branch
      BY <1>8, <2>1
    <3> QED BY <1>7, <1>9, <2>2, <3>1
  <2> QED BY <1>2, <2>1, <2>2, <2>3, <2>4 DEF Led, Goes
\* The branch that is led: its springboard stands right behind it.
<1>10. Led(k)' /\ Meant(k)' = Meant(k) /\ Branches(blocks'[k]) /\ Goes(k, Meant(k).exit)'
  <2>1. new(k) = k /\ Meant(k)' = Meant(k)
    BY <1>1, <1>3, <1>7
  <2>2. blocks'[k].exit = Meant(k).exit
    BY <1>1, <1>3, <1>8, <2>1 DEF FlowInv, n
  <2>3. blocks'[k].branch = n /\ blocks'[k + 1].id = n /\ blocks'[k + 1].exit = Meant(k).branch
    BY <1>1, <1>2, <1>4
  <2>4. Led(k)'
    BY <1>1, <1>2, <2>1, <2>3 DEF Led, Goes
  <2> QED BY <1>1, <2>1, <2>2, <2>3, <2>4 DEF Goes, Branches, None
<1>11. ASSUME NEW j \in 1..n, j # k, blocks[j].id < NumBlocks
       PROVE  /\ Branches(blocks'[new(j)]) <=> Branches(Meant(new(j))')
              /\ Goes(new(j), Meant(new(j)).exit)'
              /\ blocks'[new(j)].branch = Meant(new(j))'.branch \/ Led(new(j))'
  <2>1. /\ Branches(blocks[j]) <=> Branches(Meant(j))
        /\ Goes(j, Meant(j).exit)
        /\ blocks[j].branch = Meant(j).branch \/ Led(j)
    BY <1>1, <1>11 DEF FlowInv, n
  <2>2. Meant(new(j))' = Meant(j) /\ blocks'[new(j)].branch = blocks[j].branch
    BY <1>5, <1>7, <1>11
  <2>3. blocks'[new(j)].exit = Meant(j).exit
    BY <1>8, <2>1
  <2> QED BY <1>9, <1>11, <2>1, <2>2, <2>3 DEF Goes, Branches
<1>12. FlowInv'
  <2> SUFFICES ASSUME NEW l \in 1..(n + 1)
               PROVE  /\ IF blocks'[l].id < NumBlocks
                         THEN /\ Branches(blocks'[l]) <=> Branches(Meant(l)')
                              /\ Goes(l, Meant(l).exit)'
                              /\ blocks'[l].branch = Meant(l)'.branch \/ Led(l)'
                         ELSE ~Branches(blocks'[l])
                      /\ blocks'[l].exit # Falls
    BY <1>2 DEF FlowInv
  <2>1. CASE l = k + 1
    BY <1>1, <1>2, <1>4, <2>1 DEF Branches
  <2>2. CASE l = k
    <3>1. new(k) = k /\ blocks'[k].id = blocks[k].id /\ blocks'[k].exit = blocks[k].exit
      BY <1>1, <1>2
    <3>2. blocks[k].exit # Falls
      BY <1>1 DEF FlowInv, n
    <3> QED BY <1>3, <1>10, <2>2, <3>1, <3>2
  <2>3. CASE l # k /\ l # k + 1
    <3>1. PICK j \in 1..n : l = new(j)
      BY <1>6, <2>3
    <3>2. j # k
      BY <1>1, <2>3, <3>1
    <3> HIDE DEF new
    <3>3. /\ blocks'[l].id = blocks[j].id /\ blocks'[l].exit = blocks[j].exit
          /\ blocks'[l].branch = blocks[j].branch
      BY <1>5, <3>1, <3>2
    <3>4. blocks[j].exit # Falls
      BY <1>1 DEF FlowInv, n
    <3>5. CASE blocks[j].id < NumBlocks
      BY <1>11, <3>1, <3>2, <3>3, <3>4, <3>5
    <3>6. CASE ~(blocks[j].id < NumBlocks)
      <4>1. ~Branches(blocks[j])
        BY <1>1, <3>6 DEF FlowInv, n
      <4> QED BY <3>3, <3>4, <3>6, <4>1 DEF Branches
    <3> QED BY <3>5, <3>6
  <2> QED BY <2>1, <2>2, <2>3
<1>13. Covered'
  <2> SUFFICES ASSUME NEW i \in 0..n PROVE \E l \in 1..(n + 1) : blocks'[l].id = i
    BY <1>1, <1>2 DEF Covered
  <2>1. CASE i = n
    BY <1>1, <1>2, <1>4, <2>1
  <2>2. CASE i # n
    <3>1. PICK j \in 1..n : blocks[j].id = i
      BY <1>1, <2>2 DEF Covered, n
    <3> HIDE DEF new
    <3> QED BY <1>5, <3>1
  <2> QED BY <2>1, <2>2
<1> QED BY <1>12, <1>13

\* Each insertion leads one more branch of the source.
LEMMA RelaxCount ==
  ASSUME LayoutInv, NEW k \in DOMAIN blocks, RelaxBranch(k)
  PROVE  CountInv'
<1> DEFINE n == Len(blocks)
           m == blocks[k].id + 1
<1>1. /\ IInv /\ FlowInv /\ CountInv /\ pc = "relax" /\ n \in Nat /\ k \in 1..n
      /\ NumBlocks \in Nat /\ NumBlocks <= n
  BY Facts DEF LayoutInv, RelaxBranch
<1>2. /\ source' = source /\ Len(blocks') = n + 1
      /\ \A j \in 1..k : /\ blocks'[j].id = blocks[j].id
                         /\ blocks'[j].branch = IF j = k THEN n ELSE blocks[j].branch
      /\ blocks'[k + 1].id = n
      /\ \A j \in (k + 1)..n : blocks'[j + 1] = blocks[j]
  <2>1. blocks'[k + 1] = Springboard(n, blocks[k].branch)
    BY <1>1, RelaxShape
  <2>2. blocks'[k + 1].id = n
    BY <2>1 DEF Springboard
  <2> QED BY <1>1, <2>2, RelaxShape
<1>3. /\ blocks[k].id < NumBlocks /\ Branches(Meant(k)) /\ blocks[k].id \in Nat
      /\ blocks[k].branch < NumBlocks /\ blocks[k].branch \in Nat
  BY <1>1, FirstTime, Facts DEF RelaxBranch, Ids
<1>4. \A j \in 1..n : blocks[j].id = blocks[k].id => j = k
  BY <1>1, Facts
<1>5. m \notin LedBlocks /\ m \in 1..NumBlocks /\ m - 1 = blocks[k].id
  <2>1. m - 1 = blocks[k].id /\ m \in 1..NumBlocks
    BY <1>1, <1>3
  <2>2. ~(blocks[k].branch >= NumBlocks)
    BY <1>1, <1>3 DEF Branches, Ids
  <2>3. \A j \in 1..n : blocks[j].id = m - 1 => ~(blocks[j].branch >= NumBlocks)
    BY <1>4, <2>1, <2>2
  <2> HIDE DEF m
  <2> QED BY <2>1, <2>3 DEF LedBlocks
<1>6. LedBlocks' = LedBlocks \cup {m}
  <2>1. ASSUME NEW i \in LedBlocks PROVE i \in LedBlocks'
    <3>1. PICK j \in 1..n : blocks[j].id = i - 1 /\ blocks[j].branch >= NumBlocks
      BY DEF LedBlocks
    <3>2. j # k
      BY <1>3, <3>1, <1>1, Facts DEF None
    <3>3. \E l \in 1..(n + 1) : blocks'[l].id = i - 1 /\ blocks'[l].branch >= NumBlocks
      <4>1. CASE j <= k
        <5>1. j \in 1..k /\ j # k /\ j \in 1..(n + 1)
          BY <1>1, <3>2, <4>1
        <5>2. blocks'[j].id = blocks[j].id /\ blocks'[j].branch = blocks[j].branch
          BY <1>2, <5>1
        <5> QED BY <3>1, <5>1, <5>2
      <4>2. CASE j > k
        <5>1. j + 1 \in 1..(n + 1) /\ blocks'[j + 1] = blocks[j]
          BY <1>1, <1>2, <4>2
        <5> QED BY <3>1, <5>1
      <4> QED BY <1>1, <4>1, <4>2
    <3> QED BY <1>2, <3>3 DEF LedBlocks
  <2>2. m \in LedBlocks'
    <3>1. k \in 1..(n + 1) /\ blocks'[k].id = m - 1 /\ blocks'[k].branch >= NumBlocks
      BY <1>1, <1>2, <1>5
    <3> QED BY <1>2, <1>5, <3>1 DEF LedBlocks
  <2>3. ASSUME NEW i \in LedBlocks', i # m PROVE i \in LedBlocks
    <3>1. i \in 1..NumBlocks
      BY DEF LedBlocks
    <3>2. PICK l \in 1..(n + 1) : blocks'[l].id = i - 1 /\ blocks'[l].branch >= NumBlocks
      BY <1>2 DEF LedBlocks
    <3>3. l # k + 1 /\ l # k
      BY <1>1, <1>2, <1>5, <2>3, <3>1, <3>2
    <3>4. \E j \in 1..n : blocks[j].id = i - 1 /\ blocks[j].branch >= NumBlocks
      <4>1. CASE l < k
        <5>1. l \in 1..k /\ l # k /\ l \in 1..n
          BY <1>1, <4>1
        <5>2. blocks'[l].id = blocks[l].id /\ blocks'[l].branch = blocks[l].branch
          BY <1>2, <5>1
        <5> QED BY <3>2, <5>1, <5>2
      <4>2. CASE l > k + 1
        <5>1. l - 1 \in (k + 1)..n /\ (l - 1) + 1 = l /\ l - 1 \in 1..n
          BY <1>1, <4>2
        <5>2. blocks'[l] = blocks[l - 1]
          BY <1>2, <5>1
        <5> QED BY <3>2, <5>1, <5>2
      <4> QED BY <1>1, <3>3, <4>1, <4>2
    <3> QED BY <3>1, <3>4 DEF LedBlocks
  <2> QED BY <2>1, <2>2, <2>3
<1>7. /\ IsFiniteSet(LedBlocks) /\ n - NumBlocks = Cardinality(LedBlocks)
      /\ LedBlocks \subseteq {j \in DOMAIN source : Branches(source[j])}
  BY <1>1 DEF CountInv
<1>8. IsFiniteSet(LedBlocks') /\ Cardinality(LedBlocks') = Cardinality(LedBlocks) + 1
  BY <1>5, <1>6, <1>7, FS_AddElement
<1>9. m \in {j \in DOMAIN source : Branches(source[j])}
  <2>1. DOMAIN source = 1..NumBlocks
    BY <1>1 DEF IInv, TypeOK
  <2> QED BY <1>3, <1>5, <2>1 DEF Meant
<1>10. Len(blocks') - NumBlocks = Cardinality(LedBlocks')
  BY <1>1, <1>2, <1>7, <1>8
<1> HIDE DEF m
<1>11. LedBlocks' \subseteq {j \in DOMAIN source : Branches(source[j])}'
  BY <1>2, <1>6, <1>7, <1>9
<1> QED BY <1>8, <1>10, <1>11 DEF CountInv

\* A distance that shrinks and keeps its sign stays within the range.
LEMMA ForwardStays ==
  ASSUME NEW xt \in Nat, NEW xk \in Nat, NEW yt \in Nat, NEW yk \in Nat, NEW z \in Nat, NEW s \in Nat,
         NEW lo \in Int, NEW hi \in Int, lo <= 0,
         yt - yk <= xt - xk, yk + s <= z, 0 <= yt - z, xt - (xk + s) \in lo..hi
  PROVE  yt - (yk + s) \in lo..hi
OBVIOUS

LEMMA BackwardStays ==
  ASSUME NEW xt \in Nat, NEW xk \in Nat, NEW yt \in Nat, NEW yk \in Nat, NEW s \in Nat,
         NEW lo \in Int, NEW hi \in Int, 0 <= hi,
         yk - yt <= xk - xt, 0 <= yk - yt, xt - (xk + s) \in lo..hi
  PROVE  yt - (yk + s) \in lo..hi
OBVIOUS

\* Dropping jumps brings every branch closer to its target.
LEMMA FallthroughRange ==
  ASSUME LayoutInv, OptimizeFallthroughs
  PROVE  RangeInv'
<1> DEFINE n == Len(blocks)
<1>1. /\ IInv /\ IInv' /\ FlowInv /\ RangeInv /\ Covered /\ pc = "fallthrough"
      /\ n \in Nat
  BY FallthroughInv, Facts DEF LayoutInv, OptimizeFallthroughs
<1>2. /\ blocks \in Seq(Block) /\ blocks' \in Seq(Block) /\ Len(blocks') = n
      /\ DOMAIN blocks = 1..n /\ DOMAIN blocks' = 1..n
      /\ \A k \in 1..n : blocks[k] \in Block
  <2>1. /\ blocks \in Seq(Block) /\ blocks' \in Seq(Block) /\ DOMAIN blocks' = DOMAIN blocks
    BY <1>1 DEF IInv, TypeOK, OptimizeFallthroughs
  <2> QED BY <2>1
<1>3. ASSUME NEW k \in 1..n
      PROVE  /\ blocks'[k].id = blocks[k].id /\ blocks'[k].code = blocks[k].code
             /\ blocks'[k].branch = blocks[k].branch
             /\ Size(blocks'[k]) <= Size(blocks[k])
             /\ Size(blocks'[k]) >= blocks[k].code + (IF Branches(blocks[k]) THEN 1 ELSE 0)
  <2>1. blocks[k] \in Block /\ blocks[k].code \in Nat
    BY <1>2 DEF Block
  <2>2. blocks'[k] = IF k < n /\ blocks[k].exit = blocks[k + 1].id
                     THEN [blocks[k] EXCEPT !.exit = Falls] ELSE blocks[k]
    BY <1>2 DEF OptimizeFallthroughs
  <2>3. LET b == [blocks[k] EXCEPT !.exit = Falls]
        IN  b.id = blocks[k].id /\ b.code = blocks[k].code
            /\ b.branch = blocks[k].branch /\ b.exit = Falls
    BY <2>1 DEF Block
  <2>4. CASE blocks'[k] = blocks[k]
    BY <2>1, <2>4 DEF Size
  <2>5. CASE blocks'[k] = [blocks[k] EXCEPT !.exit = Falls]
    BY <2>1, <2>3, <2>5 DEF Size, Branches
  <2> QED BY <2>2, <2>4, <2>5
<1>4. \A i, j \in 1..n : i <= j =>
        /\ 0 <= Offsets(blocks')[j] - Offsets(blocks')[i]
        /\ Offsets(blocks')[j] - Offsets(blocks')[i] <= Offsets(blocks)[j] - Offsets(blocks)[i]
  BY <1>2, <1>3, OffsetsShrink
<1>5. \A k \in 1..n : Offsets(blocks)[k] \in Nat /\ Offsets(blocks')[k] \in Nat
  BY <1>2, OffsetsType
<1>6. ASSUME NEW k \in 1..n, Branches(blocks[k])
      PROVE  Distance(blocks', k) \in Lo..Hi
  <2>1. blocks[k].branch \in 0..(n - 1)
    <3>1. /\ blocks[k].branch = Meant(k).branch \/ Led(k)
          /\ blocks[k].id < NumBlocks
      BY <1>1, <1>6 DEF FlowInv
    <3>2. NumBlocks <= n /\ NumBlocks \in Nat /\ Meant(k).branch \in Ids \cup {None}
      BY <1>1, <3>1, Facts
    <3>3. CASE Led(k)
      <4>1. k + 1 \in 1..n /\ blocks[k].branch = blocks[k + 1].id
        BY <1>1, <3>3 DEF Led
      <4> QED BY <1>1, <4>1, Facts
    <3> QED BY <1>1, <1>6, <3>1, <3>2, <3>3 DEF Ids, Branches
  <2>2. PICK t \in 1..n : blocks[t].id = blocks[k].branch
    BY <1>1, <2>1 DEF Covered
  <2>3. Position(blocks, blocks[k].branch) = t
    BY <1>1, <2>2, PositionIs
  <2>4. Position(blocks', blocks'[k].branch) = t
    <3>1. Position(blocks', blocks'[t].id) = t
      BY <1>1, <1>2, PositionAfter
    <3> QED BY <1>3, <2>2, <3>1
  <2>5. Distance(blocks, k) \in Lo..Hi
    BY <1>1, <1>6 DEF RangeInv, OutOfRange
  <2>6. blocks[k].code \in Nat
    BY <1>2 DEF Block
  <2> DEFINE x == Offsets(blocks)
             y == Offsets(blocks')
  <2>7. /\ Distance(blocks, k) = x[t] - (x[k] + blocks[k].code)
        /\ Distance(blocks', k) = y[t] - (y[k] + blocks[k].code)
    BY <1>3, <2>3, <2>4 DEF Distance
  <2>8. x[t] \in Nat /\ x[k] \in Nat /\ y[t] \in Nat /\ y[k] \in Nat
    BY <1>5
  \* A branch forward: the target is behind the block of the branch.
  <2>9. CASE t > k
    <3>1. y[t] - y[k] <= x[t] - x[k] /\ k + 1 <= t /\ k + 1 \in 1..n /\ k < n
      BY <1>4, <2>9
    <3>2. y[k + 1] = y[k] + Size(blocks'[k]) /\ 0 <= y[t] - y[k + 1] /\ y[k + 1] \in Nat
      BY <1>2, <1>4, <1>5, <3>1, OffsetsNext
    <3>3. Size(blocks'[k]) >= blocks[k].code /\ Size(blocks'[k]) \in Nat
      <4>1. blocks'[k] \in Block
        BY <1>2
      <4> QED BY <1>3, <1>6, <2>6, <4>1, SizeType
    <3> HIDE DEF x, y
    <3>4. PICK xt, xk, yt, yk, z, s :
             /\ xt \in Nat /\ xk \in Nat /\ yt \in Nat /\ yk \in Nat /\ z \in Nat /\ s \in Nat
             /\ xt = x[t] /\ xk = x[k] /\ yt = y[t] /\ yk = y[k] /\ z = y[k + 1] /\ s = blocks[k].code
      BY <2>6, <2>8, <3>2
    <3>5. /\ Distance(blocks, k) = xt - (xk + s) /\ Distance(blocks', k) = yt - (yk + s)
          /\ yt - yk <= xt - xk /\ yk + s <= z /\ 0 <= yt - z
      <4>1. z = yk + Size(blocks'[k]) /\ Size(blocks'[k]) >= s /\ Size(blocks'[k]) \in Nat
        BY <3>2, <3>3, <3>4
      <4>2. yk + s <= z
        BY <3>4, <4>1
      <4> QED BY <2>7, <3>1, <3>2, <3>4, <4>2
    <3>6. xt - (xk + s) \in Lo..Hi
      BY <2>5, <3>5
    <3>7. Lo \in Int /\ Hi \in Int /\ Lo <= 0
      BY RangeAssumption
    <3>8. yt - (yk + s) \in Lo..Hi
      BY ONLY <3>4, <3>5, <3>6, <3>7, ForwardStays
    <3> QED BY <3>5, <3>8
  <2>10. CASE t <= k
    <3>1. y[k] - y[t] <= x[k] - x[t] /\ 0 <= y[k] - y[t]
      BY <1>4, <2>10
    <3> HIDE DEF x, y
    <3>2. PICK xt, xk, yt, yk, s :
             /\ xt \in Nat /\ xk \in Nat /\ yt \in Nat /\ yk \in Nat /\ s \in Nat
             /\ xt = x[t] /\ xk = x[k] /\ yt = y[t] /\ yk = y[k] /\ s = blocks[k].code
      BY <2>6, <2>8
    <3>3. /\ Distance(blocks, k) = xt - (xk + s) /\ Distance(blocks', k) = yt - (yk + s)
          /\ yk - yt <= xk - xt /\ 0 <= yk - yt
      BY <2>7, <3>1, <3>2
    <3>4. xt - (xk + s) \in Lo..Hi
      BY <2>5, <3>3
    <3>5. Lo \in Int /\ Hi \in Int /\ 0 <= Hi
      BY RangeAssumption
    <3>6. yt - (yk + s) \in Lo..Hi
      BY ONLY <3>2, <3>3, <3>4, <3>5, BackwardStays
    <3> QED BY <3>3, <3>6
  <2> QED BY <2>9, <2>10
<1>7. \A k \in 1..n : ~OutOfRange(blocks', k)
  BY <1>3, <1>6 DEF OutOfRange, Branches
<1> QED BY <1>2, <1>7 DEF RangeInv

\* A dropped jump went to the next block, which is where control then falls.
LEMMA FallthroughFlow ==
  ASSUME LayoutInv, OptimizeFallthroughs
  PROVE  FlowInv' /\ Covered' /\ CountInv'
<1> DEFINE n == Len(blocks)
<1>1. /\ IInv /\ FlowInv /\ Covered /\ CountInv /\ pc = "fallthrough" /\ pc' = "done"
      /\ n \in Nat /\ source' = source /\ Len(blocks') = n
      /\ \A k \in 1..n : blocks[k].exit # Falls
  <2>1. IInv /\ IInv' /\ FlowInv /\ pc = "fallthrough" /\ n \in Nat
    BY FallthroughInv, Facts DEF LayoutInv, OptimizeFallthroughs
  <2>2. Len(blocks') = n
    BY <2>1 DEF IInv, TypeOK, OptimizeFallthroughs
  <2>3. \A k \in 1..n : blocks[k].exit # Falls
    BY <2>1 DEF FlowInv
  <2> QED BY <2>1, <2>2, <2>3 DEF LayoutInv, OptimizeFallthroughs
<1>2. ASSUME NEW k \in 1..n
      PROVE  /\ blocks'[k].id = blocks[k].id /\ blocks'[k].branch = blocks[k].branch
             /\ \/ blocks'[k].exit = blocks[k].exit
                \/ blocks'[k].exit = Falls /\ k < n /\ blocks[k + 1].id = blocks[k].exit
  <2>1. blocks[k] \in Block
    BY <1>1, Facts
  <2>2. blocks'[k] = IF k < n /\ blocks[k].exit = blocks[k + 1].id
                     THEN [blocks[k] EXCEPT !.exit = Falls] ELSE blocks[k]
    BY <1>1, Facts DEF OptimizeFallthroughs
  <2>3. LET b == [blocks[k] EXCEPT !.exit = Falls]
        IN  b.id = blocks[k].id /\ b.branch = blocks[k].branch /\ b.exit = Falls
    BY <2>1 DEF Block
  <2> QED BY <2>2, <2>3
<1>3. ASSUME NEW k \in 1..n, NEW e, Goes(k, e)
      PROVE  \/ blocks'[k].exit = e
             \/ blocks'[k].exit = Falls /\ k < n /\ blocks'[k + 1].id = e
  <2>1. blocks[k].exit = e
    BY <1>1, <1>3 DEF Goes
  <2>2. k < n => k + 1 \in 1..n
    BY <1>1
  <2> QED BY <1>2, <2>1, <2>2
<1>4. \A k \in 1..n : Meant(k)' = Meant(k)
  BY <1>1, <1>2 DEF Meant
<1>5. ASSUME NEW k \in 1..n, Led(k)
      PROVE  Led(k)'
  <2>1. k < n /\ k + 1 \in 1..n /\ blocks[k + 1].id >= NumBlocks /\ blocks[k].branch = blocks[k + 1].id
    BY <1>1, <1>5 DEF Led
  <2>2. \/ blocks'[k + 1].exit = Meant(k).branch
        \/ blocks'[k + 1].exit = Falls /\ k + 1 < n /\ blocks'[(k + 1) + 1].id = Meant(k).branch
    <3>1. Goes(k + 1, Meant(k).branch)
      BY <1>5 DEF Led
    <3> QED BY <1>3, <2>1, <3>1
  <2> QED BY <1>1, <1>2, <1>4, <2>1, <2>2 DEF Led, Goes
<1>6. FlowInv'
  <2> SUFFICES ASSUME NEW k \in 1..n
               PROVE  IF blocks'[k].id < NumBlocks
                      THEN /\ Branches(blocks'[k]) <=> Branches(Meant(k)')
                           /\ Goes(k, Meant(k).exit)'
                           /\ blocks'[k].branch = Meant(k)'.branch \/ Led(k)'
                      ELSE ~Branches(blocks'[k])
    BY <1>1 DEF FlowInv
  <2>1. CASE blocks[k].id < NumBlocks
    <3>1. /\ Branches(blocks[k]) <=> Branches(Meant(k))
          /\ Goes(k, Meant(k).exit)
          /\ blocks[k].branch = Meant(k).branch \/ Led(k)
      BY <1>1, <2>1 DEF FlowInv
    <3>2. Goes(k, Meant(k).exit)'
      BY <1>1, <1>3, <1>4, <3>1 DEF Goes
    <3> QED BY <1>2, <1>4, <1>5, <2>1, <3>1, <3>2 DEF Branches
  <2>2. CASE ~(blocks[k].id < NumBlocks)
    <3>1. ~Branches(blocks[k])
      BY <1>1, <2>2 DEF FlowInv
    <3> QED BY <1>2, <2>2, <3>1 DEF Branches
  <2> QED BY <2>1, <2>2
<1>7. Covered'
  <2> SUFFICES ASSUME NEW i \in 0..(n - 1) PROVE \E k \in 1..n : blocks'[k].id = i
    BY <1>1 DEF Covered
  <2>1. PICK k \in 1..n : blocks[k].id = i
    BY <1>1 DEF Covered
  <2> QED BY <1>2, <2>1
<1>8. LedBlocks' = LedBlocks
  BY <1>1, <1>2 DEF LedBlocks
<1> QED BY <1>1, <1>6, <1>7, <1>8 DEF CountInv

\* Every reachable state, with what the branches were led over.
THEOREM RelaxInvariant == Spec => []LayoutInv
<1>1. LayoutInv /\ [Next]_vars => LayoutInv'
  <2> SUFFICES ASSUME LayoutInv, [Next]_vars PROVE LayoutInv'
    OBVIOUS
  <2>1. ASSUME NEW k \in DOMAIN blocks, RelaxBranch(k) PROVE LayoutInv'
    <3>1. IInv' /\ FlowInv' /\ Covered' /\ CountInv'
      BY <2>1, RelaxInv, RelaxFlow, RelaxCount DEF LayoutInv
    <3>2. RangeInv'
      BY <2>1 DEF RangeInv, RelaxBranch
    <3> QED BY <3>1, <3>2 DEF LayoutInv
  <2>2. CASE RelaxDone
    <3>1. UNCHANGED <<source, blocks>> /\ pc = "relax" /\ pc' = "fallthrough"
      BY <2>2 DEF RelaxDone
    <3>2. IInv'
      BY <3>1 DEF LayoutInv, IInv, TypeOK, IdsArePositions
    <3>3. FlowInv' /\ Covered' /\ CountInv'
      BY <3>1 DEF LayoutInv, FlowInv, Covered, CountInv, LedBlocks, Meant, Goes, Led
    <3>4. RangeInv'
      <4>1. \A k \in 1..Len(blocks) : ~OutOfRange(blocks, k)
        BY <2>2, Facts DEF RelaxDone, LayoutInv
      <4>2. blocks' = blocks
        BY <3>1
      <4> HIDE DEF OutOfRange
      <4> QED BY <4>1, <4>2 DEF RangeInv
    <3> QED BY <3>2, <3>3, <3>4 DEF LayoutInv
  <2>3. CASE OptimizeFallthroughs
    <3>1. IInv'
      BY <2>3, FallthroughInv DEF LayoutInv
    <3> QED BY <2>3, <3>1, FallthroughFlow, FallthroughRange DEF LayoutInv
  <2>4. CASE SkipFallthroughs
    <3>1. UNCHANGED <<source, blocks>> /\ pc = "fallthrough" /\ pc' = "done"
      BY <2>4 DEF SkipFallthroughs
    <3>2. IInv'
      BY <3>1 DEF LayoutInv, IInv, TypeOK, IdsArePositions
    <3>3. FlowInv' /\ Covered' /\ CountInv'
      BY <3>1 DEF LayoutInv, FlowInv, Covered, CountInv, LedBlocks, Meant, Goes, Led
    <3>4. RangeInv'
      BY <3>1 DEF LayoutInv, RangeInv
    <3> QED BY <3>2, <3>3, <3>4 DEF LayoutInv
  <2>5. CASE Finished \/ UNCHANGED vars
    <3>1. UNCHANGED <<source, blocks, pc>>
      BY <2>5 DEF Finished, vars
    <3>2. IInv'
      BY <3>1 DEF LayoutInv, IInv, TypeOK, IdsArePositions
    <3>3. FlowInv' /\ Covered' /\ CountInv'
      BY <3>1 DEF LayoutInv, FlowInv, Covered, CountInv, LedBlocks, Meant, Goes, Led
    <3>4. RangeInv'
      BY <3>1 DEF LayoutInv, RangeInv
    <3> QED BY <3>2, <3>3, <3>4 DEF LayoutInv
  <2> QED BY <2>1, <2>2, <2>3, <2>4, <2>5 DEF Next
<1> QED
  BY <1>1, InitLayout, PTL DEF Spec

-----------------------------------------------------------------------------
\* Each block branches to, and otherwise goes on at, the blocks lowering meant.
LEMMA FlowFollows == LayoutInv => FlowPreserved
<1> SUFFICES ASSUME LayoutInv, NEW k \in DOMAIN blocks, blocks[k].id < NumBlocks
             PROVE  /\ Branches(Meant(k)) <=> Branches(blocks[k])
                    /\ Branches(Meant(k)) => Through(blocks[k].branch) = Meant(k).branch
                    /\ ExitOf(k) = Meant(k).exit
  BY DEF FlowPreserved, Meant
<1>1. IInv /\ k \in 1..Len(blocks) /\ Len(blocks) \in Nat /\ NumBlocks \in Nat
  BY Facts DEF LayoutInv
<1>2. /\ Branches(blocks[k]) <=> Branches(Meant(k))
      /\ Goes(k, Meant(k).exit)
      /\ blocks[k].branch = Meant(k).branch \/ Led(k)
  BY <1>1 DEF LayoutInv, FlowInv
<1>3. Meant(k).branch \in Ids \cup {None} /\ Meant(k).exit \in Ids \cup {Return}
  BY <1>1, Facts
<1>4. ExitOf(k) = Meant(k).exit
  BY <1>2, <1>3 DEF ExitOf, Goes, Ids, Return, Falls
<1>5. ASSUME Branches(Meant(k)) PROVE Through(blocks[k].branch) = Meant(k).branch
  <2>1. Meant(k).branch \in Ids
    BY <1>3, <1>5 DEF Branches
  <2>2. CASE blocks[k].branch = Meant(k).branch
    BY <1>1, <2>1, <2>2 DEF Through, Ids
  <2>3. CASE Led(k)
    <3>1. k + 1 \in 1..Len(blocks) /\ blocks[k].branch = blocks[k + 1].id
          /\ blocks[k + 1].id >= NumBlocks /\ Goes(k + 1, Meant(k).branch)
      BY <1>1, <2>3 DEF Led
    <3>2. Position(blocks, blocks[k].branch) = k + 1 /\ ~(blocks[k].branch < NumBlocks)
      BY <1>1, <3>1, PositionIs, Facts
    <3>3. ExitOf(k + 1) = Meant(k).branch
      BY <2>1, <3>1 DEF ExitOf, Goes, Ids, Falls
    <3> QED BY <3>2, <3>3 DEF Through
  <2> QED BY <1>2, <2>2, <2>3
<1> QED BY <1>2, <1>4, <1>5

\* For every function and every range, relaxation and the dropping of jumps
\* leave control where lowering sent it (relax_branches, optimize_fallthroughs).
THEOREM FlowIsPreserved == Spec => []FlowPreserved
  BY RelaxInvariant, FlowFollows, PTL

\* No branch of the finished layout is out of range.
THEOREM BranchesReach == Spec => []AllInRange
<1>1. LayoutInv => AllInRange
  BY Facts DEF LayoutInv, RangeInv, AllInRange
<1> QED BY <1>1, RelaxInvariant, PTL

\* The loop of relax_branches inserts at most one springboard for each branch.
THEOREM SpringboardsBounded == Spec => []OneSpringboardPerBranch
<1>1. LayoutInv => OneSpringboardPerBranch
  <2> SUFFICES ASSUME LayoutInv PROVE OneSpringboardPerBranch
    OBVIOUS
  <2> DEFINE all == {k \in DOMAIN source : Branches(source[k])}
  <2>1. /\ LedBlocks \subseteq all /\ Len(blocks) - NumBlocks = Cardinality(LedBlocks)
        /\ source \in [1..NumBlocks -> Lowered] /\ NumBlocks \in Nat
    BY Facts DEF LayoutInv, CountInv, IInv, TypeOK
  <2>2. IsFiniteSet(1..NumBlocks) /\ all \subseteq 1..NumBlocks
    BY <2>1, FS_Interval
  <2> HIDE DEF all
  <2>3. IsFiniteSet(all)
    BY <2>2, FS_Subset
  <2>4. Cardinality(LedBlocks) <= Cardinality(all)
    BY <2>1, <2>3, FS_Subset
  <2> QED BY <2>1, <2>4 DEF OneSpringboardPerBranch, all
<1> QED BY <1>1, RelaxInvariant, PTL
=============================================================================
