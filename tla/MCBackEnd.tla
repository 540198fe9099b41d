------------------------------ MODULE MCBackEnd ------------------------------
(* The stages of lowering after instruction selection, each on all its small *)
(* inputs: branches into phis, their copies, register allocation, the stack frame, and *)
(* branch relaxation.  `stage` says which one a behaviour is of; lowering    *)
(* runs them one after the other and they share no state but the function.   *)
EXTENDS BranchRelax

CONSTANTS
  NumNodes, NumPhis,                                 \* PhiLowering
  CopyRegs,                                          \* ParallelCopy!NumRegs
  PhysRegs, MaxRounds, MaxLen, NumVregs,             \* RegAlloc
  WordSize, FrameAlign, CalleeSaved, MaxOutgoing, MaxBodySlots  \* FrameLayout

VARIABLES
  stage,
  flow, output, lowered, ssaAt, ssa, place, held,
  move, roots, stack, visited, nextVreg, first, middle, last,
  prog, code, step, round, vregs, numSlots, edges, forbidden, degrees, simplified,
  assigned, spilled, pushedHigh, at, env, regs, cells,
  slots, maxAlign, outgoing, written, calls, layout, phase, todo, sp, file, memory, stored

edgeVars  == <<flow, output, lowered, ssaAt, ssa, place, held>>
copyVars  == <<move, roots, stack, visited, nextVreg, first, middle, last>>
allocVars == <<prog, code, step, round, vregs, numSlots, edges, forbidden, degrees, simplified,
               assigned, spilled, pushedHigh, at, env, regs, cells>>
frameVars == <<slots, maxAlign, outgoing, written, calls, layout, phase, todo, sp, file, memory, stored>>
allVars   == <<stage, vars, edgeVars, copyVars, allocVars, frameVars>>

-----------------------------------------------------------------------------
MCLo == -4

\* Slots of a byte, an unaligned triple, a word and an aligned pair of words.
Shapes == {[size |-> 1, align |-> 1], [size |-> 3, align |-> 1],
           [size |-> 2, align |-> 2], [size |-> 4, align |-> 4]}

(* Every function of MaxLen instructions and one that ends it, over         *)
(* NumVregs vregs, that defines what it reads, with calls through register  *)
(* -1, which they clobber; and a function with two paths that meet.         *)
Line(us, d, cs, j) ==
  [op |-> "inst", uses |-> us, def |-> d, clob |-> cs, slot |-> 0, jump |-> j, orig |-> 0]
Defined(p) == {p[k].def : k \in DOMAIN p} \ (-PhysRegs..0)
Reads(p)   == {SetToSortSeq(S, <) : S \in {T \in SUBSET Defined(p) : Cardinality(T) < 3}}
Writes(p)  == {0} \cup 1..(IF Cardinality(Defined(p)) < NumVregs
                             THEN Cardinality(Defined(p)) + 1 ELSE NumVregs)
Plain(p)   == {Line(us, d, {}, 0) : us \in Reads(p), d \in Writes(p)} \ {Line(<<>>, 0, {}, 0)}
CallsOf    == {Line(us, 0, {-1}, 0) : us \in {<<>>, <<-1>>}}
Moves(p)   == {Line(<<v>>, -1, {}, 0) : v \in Defined(p)}
              \cup {Line(<<-1>>, d, {}, 0) : d \in Writes(p) \ {0}}

Straight[n \in 0..MaxLen] ==
  IF n = 0 THEN {<<>>}
  ELSE UNION {{Append(p, x) : x \in Plain(p) \cup CallsOf \cup Moves(p)} : p \in Straight[n - 1]}

\* The last instruction reads something, and may jump back to the second.
Ended(p) == {Append(p, Line(us, 0, {}, j)) : us \in Reads(p) \ {<<>>}, j \in {0, 2}}

\* A vreg written on two paths that meet, as phis are lowered, with a call
\* on one of them.
Joined == << Line(<<>>, 1, {}, 0), Line(<<>>, 2, {}, 0), Line(<<1>>, 3, {}, 0),
             Line(<<1>>, 0, {}, 7), Line(<<-1>>, 0, {-1}, 0), Line(<<2>>, 3, {}, 0),
             Line(<<2, 3>>, 1, {}, 0), Line(<<1, 2>>, 0, {}, 0) >>

Functions == (UNION {Ended(p) : p \in Straight[MaxLen]}) \cup {Joined}

-----------------------------------------------------------------------------
Edges  == INSTANCE PhiLowering
Copies == INSTANCE ParallelCopy WITH NumRegs <- CopyRegs
Alloc  == INSTANCE RegAlloc WITH
            NumRegs <- PhysRegs, Programs <- Functions, phase <- step, nextVreg <- vregs,
            stack <- simplified, pc <- at, memory <- cells
Frame  == INSTANCE FrameLayout

ASSUME StagesAssumption ==
  Edges!NumNodesAssumption /\ Copies!NumRegsAssumption /\ Alloc!RegsAssumption /\ Frame!LayoutAssumption

NoEdges ==
  /\ flow = <<>> /\ output = <<>> /\ lowered = <<>> /\ ssaAt = <<>> /\ ssa = <<>>
  /\ place = <<>> /\ held = <<>>
NoCopies ==
  /\ move = <<>> /\ roots = <<>> /\ stack = <<>> /\ visited = <<>>
  /\ nextVreg = <<>> /\ first = <<>> /\ middle = <<>> /\ last = <<>>
NoAlloc ==
  /\ prog = <<>> /\ code = <<>> /\ step = <<>> /\ round = <<>> /\ vregs = <<>>
  /\ numSlots = <<>> /\ edges = <<>> /\ forbidden = <<>> /\ degrees = <<>>
  /\ simplified = <<>> /\ assigned = <<>> /\ spilled = <<>>
  /\ pushedHigh = <<>> /\ at = <<>> /\ env = <<>> /\ regs = <<>>
  /\ cells = <<>>
NoFrame ==
  /\ slots = <<>> /\ maxAlign = <<>> /\ outgoing = <<>> /\ written = <<>>
  /\ calls = <<>> /\ layout = <<>> /\ phase = <<>> /\ todo = <<>> /\ sp = <<>>
  /\ file = <<>> /\ memory = <<>> /\ stored = <<>>
NoRelax ==
  /\ source = <<>> /\ blocks = <<>> /\ pc = "done"

StageInit ==
  \/ stage = "edges"  /\ Edges!Init  /\ NoCopies /\ NoAlloc /\ NoFrame /\ NoRelax
  \/ stage = "copies" /\ Copies!Init /\ NoEdges /\ NoAlloc /\ NoFrame /\ NoRelax
  \/ stage = "alloc"  /\ Alloc!Init  /\ NoEdges /\ NoCopies /\ NoFrame /\ NoRelax
  \/ stage = "frame"  /\ Frame!Init  /\ NoEdges /\ NoCopies /\ NoAlloc /\ NoRelax
  \/ stage = "relax"  /\ Init        /\ NoEdges /\ NoCopies /\ NoAlloc /\ NoFrame

StageNext ==
  \/ stage = "edges"  /\ Edges!Next  /\ UNCHANGED <<stage, copyVars, allocVars, frameVars, vars>>
  \/ stage = "copies" /\ Copies!Next /\ UNCHANGED <<stage, edgeVars, allocVars, frameVars, vars>>
  \/ stage = "alloc"  /\ Alloc!Next  /\ UNCHANGED <<stage, edgeVars, copyVars, frameVars, vars>>
  \/ stage = "frame"  /\ Frame!Next  /\ UNCHANGED <<stage, edgeVars, copyVars, allocVars, vars>>
  \/ stage = "relax"  /\ Next        /\ UNCHANGED <<stage, edgeVars, copyVars, allocVars, frameVars>>

StageSpec == StageInit /\ [][StageNext]_allVars

-----------------------------------------------------------------------------
\* The lowered function comes to every block with each phi in its register,
\* whichever way it takes (the branches of lower_instruction), when the copies
\* of an edge are made at once; and the moves emitted for them, run one after
\* the other, do that, each read before it is overwritten, with one fresh
\* register for each cycle of copies (resolve_parallel_copy).
PhisKeepValues ==
  /\ stage = "edges"  => Edges!PhisArrive
  /\ stage = "copies" => /\ Copies!TypeOK
                         /\ Copies!ParallelAssignment
                         /\ Copies!ReadBeforeOverwritten
                         /\ Copies!OneTempPerCycle

\* The allocated function reads from its registers and spill slots what the
\* lowered function reads from its vregs, and only vregs that were pushed with
\* a high degree are spilled (register_allocation).
AllocationKeepsValues ==
  stage = "alloc" => /\ Alloc!TypeOK
                     /\ Alloc!ValuesPreserved
                     /\ Alloc!OnlyCandidatesSpill

\* From entry to return the frame keeps apart what is the caller's, what was
\* saved and what the body stores in each slot (compute_frame_layout, insert_logue).
FrameKeepsValues ==
  stage = "frame" => /\ Frame!TypeOK
                     /\ Frame!EntryRestored
                     /\ Frame!SlotsKeepValues
                     /\ Frame!IncomingArgumentsKept
=============================================================================
