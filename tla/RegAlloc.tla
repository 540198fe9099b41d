------------------------------- MODULE RegAlloc -------------------------------
(***************************************************************************)
(* Register allocation of one machine function                            *)
(* (src/src/mir/lower/regalloc.rs).  A round computes liveness, builds the *)
(* interference graph, simplifies it to a stack and colours the stack in   *)
(* reverse; vregs left without a register are spilled to stack slots and   *)
(* the round is repeated on the rewritten code.  Afterwards the model runs *)
(* the source code and the allocated code side by side, one instruction a  *)
(* step, so that what allocation must preserve can be stated on values.    *)
(*                                                                         *)
(* Two choices are left open that the code makes by weights: which vreg is *)
(* pushed when every degree is too high, and which free register is taken. *)
(***************************************************************************)
EXTENDS Integers, FiniteSets, SequencesExt

CONSTANTS
    NumRegs,     \* the allocatable physical registers are -NumRegs..-1
    Programs,    \* the machine functions considered, each a sequence of Lowered
    MaxRounds    \* bound: at most this many rounds of spilling are followed

None     == 0
Phys     == -NumRegs .. -1
Data     == {0, 1}      \* what an instruction may compute
Address  == 2           \* what a far stack access leaves in its scratch register
IndexFirst(s, e) == CHOOSE j \in DOMAIN s : s[j] = e /\ \A m \in 1..(j - 1) : s[m] # e

(* An instruction: the registers it reads and the one it writes, the       *)
(* physical ones a call clobbers, the slot of a spill, the target of a     *)
(* jump, and which source instruction it stands for; source instructions   *)
(* have op "inst" and no slot.                                             *)
LoadSlot(d, s, i) == [op |-> "load", uses |-> <<>>, def |-> d, clob |-> {}, slot |-> s,
                      jump |-> None, orig |-> i]
SaveSlot(r, s, rt, i) == [op |-> "save", uses |-> <<r>>, def |-> rt, clob |-> {}, slot |-> s,
                          jump |-> None, orig |-> i]

(* What lowering hands over: every vreg that is read is written somewhere,  *)
(* since an undefined operand is the zero register, and a branch writes    *)
(* none.  The vregs in use are named 1, 2, and so on.                      *)
Vregs(p) == {p[k].def : k \in DOMAIN p} \ ({None} \cup Phys)
WellFormed(p) ==
    /\ p \in Seq([op : {"inst"}, uses : Seq(Vregs(p) \cup Phys), def : Int, clob : SUBSET Phys,
                  slot : {None}, jump : {None} \cup DOMAIN p, orig : {None}])
    /\ Vregs(p) = 1..Cardinality(Vregs(p))
    /\ \A k \in DOMAIN p : p[k].jump # None => p[k].def = None

RegsAssumption == /\ NumRegs \in Nat \ {0}
                  /\ \A p \in Programs : WellFormed(p)

VARIABLES
    prog,       \* the function as lowered
    code,       \* the function being allocated
    phase,      \* "build", "simplify", "colour", "run"
    round,      \* rounds of spilling done
    nextVreg,   \* machine_function.vreg_counter
    numSlots,   \* spill slots created
    edges,      \* InterferenceGraph::edges, a set of unordered pairs
    forbidden,  \* InterferenceGraph::forbidden_phys
    degrees,    \* the vregs not simplified yet
    stack,      \* the simplified vregs, in order
    assigned,   \* assigned_regs
    spilled,    \* spill_candidates
    pushedHigh, \* history: the vregs that select_spill_candidate pushed
    pc,         \* run: the next instruction of code
    env,        \* run: the registers of the source function
    regs,       \* run: the physical registers
    memory      \* run: the spill slots

graph  == <<edges, forbidden>>
colours == <<degrees, stack, assigned, spilled, pushedHigh>>
machine == <<pc, env, regs, memory>>
vars   == <<prog, code, phase, round, nextVreg, numSlots, graph, colours, machine>>

DefRegs(x) == ({x.def} \cup x.clob) \ {None}
UseRegs(x) == ToSet(x.uses)
Start(i)   == CHOOSE k \in DOMAIN code : /\ code[k].orig = i
                                         /\ \A m \in 1..(k - 1) : code[m].orig # i
Succs(k)   == {m \in DOMAIN code : m = k + 1 \/ (code[k].jump # None /\ m = Start(code[k].jump))}

(* liveness_analysis: the least solution of the backward equations,        *)
(* reached within one step per instruction.                                *)
LiveIn ==
    LET in[n \in 0..Len(code)] ==
            IF n = 0 THEN [k \in DOMAIN code |-> {}]
            ELSE LET before == in[n - 1]
                 IN  [k \in DOMAIN code |-> UseRegs(code[k])
                        \cup ((UNION {before[m] : m \in Succs(k)}) \ DefRegs(code[k]))]
    IN  in[Len(code)]

(* compute_live_after.                                                     *)
LiveAfter ==
    LET in == LiveIn
    IN  [k \in DOMAIN code |-> UNION {in[m] : m \in Succs(k)}]

(* def_conflict_regs: the address scratch of a save is written before the  *)
(* saved register is read.                                                 *)
Conflicts(x) == IF x.op = "save" THEN {<<x.def, x.uses[1]>>} ELSE {}

VirtualDefs == Vregs(code)

Init ==
    /\ prog \in Programs
    /\ code = [k \in DOMAIN prog |-> [prog[k] EXCEPT !.orig = k]]
    /\ phase = "build"
    /\ round = 0
    /\ nextVreg = 1 + Cardinality(Vregs(prog))
    /\ numSlots = 0
    /\ edges = {} /\ forbidden = {}
    /\ degrees = {} /\ stack = <<>> /\ assigned = <<>> /\ spilled = {} /\ pushedHigh = {}
    /\ pc = 1 /\ env = <<>> /\ regs = <<>> /\ memory = <<>>

(* Mutant of Clashes: the registers a call clobbers are forgotten.         *)
ClashesOfResults ==
    LET live == LiveAfter
    IN  UNION {{<<code[k].def, x>> : x \in live[k]} \cup Conflicts(code[k]) : k \in DOMAIN code}

(* InterferenceGraph::build: a register written while another is live.     *)
Clashes ==
    LET live == LiveAfter
    IN  UNION {{<<d, x>> : d \in DefRegs(code[k]), x \in live[k]} \cup Conflicts(code[k])
               : k \in DOMAIN code}

Build ==
    /\ phase = "build"
    /\ LET clashes == Clashes
       IN  /\ edges' = {{c[1], c[2]} : c \in {e \in clashes : e[1] > 0 /\ e[2] > 0 /\ e[1] # e[2]}}
           /\ forbidden' = {c \in clashes : c[1] > 0 /\ c[2] < 0}
                           \cup {<<c[2], c[1]>> : c \in {e \in clashes : e[1] < 0 /\ e[2] > 0}}
    /\ degrees' = VirtualDefs
    /\ phase' = "simplify"
    /\ UNCHANGED <<prog, code, round, nextVreg, numSlots, stack, assigned, spilled, pushedHigh, machine>>

Neighbours(v)    == {w \in VirtualDefs : w # v /\ {v, w} \in edges}
AvailableRegs(v) == {r \in Phys : <<v, r>> \notin forbidden}
Degree(v)        == Cardinality(Neighbours(v) \cap degrees)

LowDegree(v) == Degree(v) < Cardinality(AvailableRegs(v))

(* The key by which simplify picks among the vregs of low degree.          *)
Before(v, w) ==
    LET dv == Degree(v)
        dw == Degree(w)
        kv == Cardinality(AvailableRegs(v))
        kw == Cardinality(AvailableRegs(w))
    IN  \/ dv < dw
        \/ dv = dw /\ kv < kw
        \/ dv = dw /\ kv = kw /\ v =< w

Push(v) ==
    /\ degrees' = degrees \ {v}
    /\ stack' = Append(stack, v)
    /\ UNCHANGED <<prog, code, phase, round, nextVreg, numSlots, graph, assigned, spilled, machine>>

SimplifyLow(v) ==
    /\ phase = "simplify" /\ v \in degrees
    /\ LowDegree(v)
    /\ \A w \in degrees : LowDegree(w) => Before(v, w)
    /\ Push(v)
    /\ UNCHANGED pushedHigh

(* select_spill_candidate, any choice of it.                               *)
SelectSpillCandidate(v) ==
    /\ phase = "simplify" /\ v \in degrees
    /\ \A w \in degrees : ~LowDegree(w)
    /\ Push(v)
    /\ pushedHigh' = pushedHigh \cup {v}

Simplified ==
    /\ phase = "simplify" /\ degrees = {}
    /\ phase' = "colour"
    /\ UNCHANGED <<prog, code, round, nextVreg, numSlots, graph, colours, machine>>

Free(v) == {r \in AvailableRegs(v) :
                \A w \in Neighbours(v) \cap DOMAIN assigned : assigned[w] # r}

(* One turn of the loop of compute_spill over the reversed stack.          *)
Colour(r) ==
    /\ phase = "colour" /\ stack # <<>>
    /\ LET v == Last(stack)
       IN  \/ /\ r \in Free(v)
              /\ assigned' = [w \in DOMAIN assigned \cup {v} |->
                                IF w = v THEN r ELSE assigned[w]]
              /\ UNCHANGED spilled
           \/ /\ Free(v) = {}
              /\ spilled' = spilled \cup {v}
              /\ UNCHANGED assigned
    /\ stack' = Front(stack)
    /\ UNCHANGED <<prog, code, phase, round, nextVreg, numSlots, graph, degrees, pushedHigh, machine>>

Replaced(map, r) == IF r \in DOMAIN map THEN map[r] ELSE r
RewriteVreg(x, useMap, defMap) ==
    [x EXCEPT !.uses = [j \in DOMAIN x.uses |-> Replaced(useMap, x.uses[j])],
              !.def = Replaced(defMap, x.def)]

(* The locals of compute_spill end with its round.                         *)
Forget == /\ edges' = {} /\ forbidden' = {}
          /\ degrees' = {} /\ stack' = <<>> /\ assigned' = <<>> /\ spilled' = {} /\ pushedHigh' = {}

(* Spilling one instruction: a reload into a fresh vreg before it for each *)
(* spilled vreg it reads, a save after it if it writes one.                *)
SpillInst(acc, x, slotOf) ==
    LET reads  == UseRegs(x) \cap spilled
        n      == acc.next
        ins    == [v \in reads |-> n + Cardinality({w \in reads : IndexFirst(x.uses, w)
                                                                < IndexFirst(x.uses, v)})]
        out    == n + Cardinality(reads)
        loads  == [j \in 1..Cardinality(reads) |->
                     LET v == CHOOSE u \in reads : ins[u] = n + j - 1
                     IN  LoadSlot(ins[v], slotOf[v], x.orig)]
        writes == x.def \in spilled
    IN  IF writes
        THEN [code |-> acc.code \o loads
                       \o <<RewriteVreg(x, ins, [r \in {x.def} |-> out]),
                            SaveSlot(out, slotOf[x.def], out + 1, x.orig)>>,
              next |-> out + 2]
        ELSE [code |-> acc.code \o loads \o <<RewriteVreg(x, ins, <<>>)>>, next |-> out]

SpillVregs ==
    /\ phase = "colour" /\ stack = <<>> /\ spilled # {}
    /\ round < MaxRounds
    /\ LET slotOf == [v \in spilled |-> numSlots + Cardinality({w \in spilled : w =< v})]
           after[k \in 0..Len(code)] ==
               IF k = 0 THEN [code |-> <<>>, next |-> nextVreg]
               ELSE SpillInst(after[k - 1], code[k], slotOf)
       IN  /\ code' = after[Len(code)].code
           /\ nextVreg' = after[Len(code)].next
    /\ numSlots' = numSlots + Cardinality(spilled)
    /\ round' = round + 1
    /\ phase' = "build"
    /\ Forget
    /\ UNCHANGED <<prog, machine>>

(* The last part of register_allocation; the run starts from cleared state. *)
RewriteAssigned ==
    /\ phase = "colour" /\ stack = <<>> /\ spilled = {}
    /\ code' = [k \in DOMAIN code |-> RewriteVreg(code[k], assigned, assigned)]
    /\ phase' = "run"
    /\ pc' = 1
    /\ env' = [r \in Phys \cup {prog[k].def : k \in DOMAIN prog} |-> 0]
    /\ regs' = [r \in Phys |-> 0]
    /\ memory' = [s \in 1..numSlots |-> 0]
    /\ UNCHANGED <<prog, round, nextVreg, numSlots, graph, colours>>

(* One instruction of the source function and its allocated form, which    *)
(* computes and clobbers with the same result.                             *)
Exec(b, next) ==
    /\ phase = "run" /\ pc \in DOMAIN code
    /\ next \in Succs(pc) \/ (next = Len(code) + 1 /\ pc = Len(code))
    /\ LET x == code[pc]
           written(file, d) == [r \in DOMAIN file |->
                                  IF r \in {d} \cup x.clob THEN b ELSE file[r]]
       IN  /\ x.op = "inst"
           /\ env' = written(env, prog[x.orig].def)
           /\ regs' = written(regs, x.def)
    /\ pc' = next
    /\ UNCHANGED <<prog, code, phase, round, nextVreg, numSlots, graph, colours, memory>>

ExecLoad ==
    /\ phase = "run" /\ pc \in DOMAIN code /\ code[pc].op = "load"
    /\ regs' = [regs EXCEPT ![code[pc].def] = memory[code[pc].slot]]
    /\ pc' = pc + 1
    /\ UNCHANGED <<prog, code, phase, round, nextVreg, numSlots, graph, colours, env, memory>>

(* expand_pseudo of SaveStack: a slot out of the immediate's range is      *)
(* addressed through the scratch register.                                 *)
ExecSave(far) ==
    /\ phase = "run" /\ pc \in DOMAIN code /\ code[pc].op = "save"
    /\ regs' = IF far THEN [regs EXCEPT ![code[pc].def] = Address] ELSE regs
    /\ memory' = [memory EXCEPT ![code[pc].slot] = regs'[code[pc].uses[1]]]
    /\ pc' = pc + 1
    /\ UNCHANGED <<prog, code, phase, round, nextVreg, numSlots, graph, colours, env>>

Finished ==
    /\ \/ phase = "run" /\ pc \notin DOMAIN code
       \/ phase = "colour" /\ stack = <<>> /\ spilled # {} /\ round = MaxRounds
    /\ UNCHANGED vars

Next == \/ Build
        \/ \E v \in degrees : SimplifyLow(v) \/ SelectSpillCandidate(v)
        \/ Simplified
        \/ \E r \in Phys : Colour(r)
        \/ SpillVregs
        \/ RewriteAssigned
        \/ \E b \in Data, next \in 1..(Len(code) + 1) : Exec(b, next)
        \/ ExecLoad
        \/ \E far \in BOOLEAN : ExecSave(far)
        \/ Finished

Spec == Init /\ [][Next]_vars

-------------------------------------------------------------------------------
(* Every register of the code is a vreg the counter has given out or, when *)
(* the function runs, a physical register.                                 *)
TypeOK ==
    /\ \A k \in DOMAIN code :
         (UseRegs(code[k]) \cup DefRegs(code[k])) \ Phys
            \subseteq (IF phase = "run" THEN {} ELSE 1..(nextVreg - 1))
    /\ phase # "run" => degrees \cup spilled \cup pushedHigh \subseteq VirtualDefs
    /\ assigned \in [DOMAIN assigned -> Phys]
    /\ phase = "run" => /\ regs \in [Phys -> Data \cup {Address}]
                        /\ memory \in [1..numSlots -> Data \cup {Address}]

(* Whatever path is taken, an instruction of the allocated function reads  *)
(* from its physical registers the values the source instruction reads     *)
(* from its vregs: no interfering vreg, call clobber, reload or address    *)
(* scratch has come between (register_allocation as a whole).              *)
ValuesPreserved ==
    phase = "run" /\ pc \in DOMAIN code /\ code[pc].op = "inst" =>
        \A j \in DOMAIN code[pc].uses :
            regs[code[pc].uses[j]] = env[prog[code[pc].orig].uses[j]]

(* A vreg removed by simplify while its degree was below the number of its *)
(* available registers always gets a register: only vregs that             *)
(* select_spill_candidate pushed can be spilled.                           *)
OnlyCandidatesSpill == spilled \subseteq pushedHigh
===============================================================================
