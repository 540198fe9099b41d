----------------------------- MODULE LocalMemory -----------------------------
(***************************************************************************)
(* local_memory, block by block: equal address computations become one,    *)
(* then loads are answered from the last store to or load from the same    *)
(* pointer, and a store is deleted when the next one overwrites it.        *)
(*                                                                         *)
(* All values in memory have one type.  The code compares the type of a    *)
(* known value with the one noted for it, which are the same; the type the *)
(* load asks for is not compared.                                          *)
(***************************************************************************)
EXTENDS IRProgram

CONSTANT Programs   \* the functions to consider

VARIABLES
  source,     \* the function before the pass
  prog,       \* the function
  blocks,     \* the blocks not yet taken
  block,      \* the block in hand, or None
  pass,       \* "geps", "memory"
  todo,       \* its instructions not yet looked at
  seen,       \* local_common_gep: the addresses computed, by key
  lastStore,  \* last_store: pointer |-> the store and the value
  lastLoad,   \* last_load: pointer |-> the value known to be there
  removed     \* to_remove

known == <<seen, lastStore, lastLoad>>
vars  == <<source, prog, blocks, block, pass, todo, known, removed>>

None == 0

Init ==
  /\ source \in Programs
  /\ prog = source
  /\ blocks = Blocks(source) /\ block = None /\ pass = "geps"
  /\ todo = <<>> /\ removed = <<>>
  /\ seen = <<>> /\ lastStore = <<>> /\ lastLoad = <<>>

Nonphis(b) == SelectSeq(prog.block[b].insts, LAMBDA i : ~IsPhi(prog.inst[i]))

TakeBlock(b) ==
  /\ block = None /\ removed = <<>>
  /\ block' = b /\ blocks' = blocks \ {b}
  /\ pass' = "geps" /\ todo' = Nonphis(b)
  /\ UNCHANGED <<source, prog, known, removed>>

\* The body of local_common_gep.
VisitGep ==
  /\ block # None /\ pass = "geps" /\ todo # <<>>
  /\ LET i   == Head(todo)
         key == prog.inst[i].args
     IN  IF prog.inst[i].op # "gep" THEN UNCHANGED <<prog, seen, removed>>
         ELSE IF key \in DOMAIN seen
         THEN /\ prog' = Replaced(prog, Res(i), Res(seen[key]))
              /\ removed' = Append(removed, i)
              /\ UNCHANGED seen
         ELSE seen' = (key :> i) @@ seen /\ UNCHANGED <<prog, removed>>
  /\ todo' = Tail(todo)
  /\ UNCHANGED <<source, blocks, block, pass, lastStore, lastLoad>>

\* The erasures at the end of each half.
EraseReplaced ==
  /\ todo = <<>> /\ removed # <<>>
  /\ LET i == Head(removed)
     IN  prog' = IF i \in Placed(prog) /\ Unused(prog, i) THEN Erased(prog, i) ELSE prog
  /\ removed' = Tail(removed)
  /\ UNCHANGED <<source, blocks, block, pass, todo, known>>

StartMemory ==
  /\ block # None /\ pass = "geps" /\ todo = <<>> /\ removed = <<>>
  /\ pass' = "memory" /\ todo' = Nonphis(block)
  /\ UNCHANGED <<source, prog, blocks, block, known, removed>>

\* kill_aliasing_stores, kill_aliasing_loads.
Spared(table, ptr) ==
  Restrict(table, {p \in DOMAIN table : p = ptr \/ ~MayAlias(prog, p, ptr)})

\* A load whose value is known is replaced; any other keeps the stores it may
\* read and is remembered.
VisitLoad(i, ptr) ==
  IF ptr \in DOMAIN lastStore \/ ptr \in DOMAIN lastLoad
  THEN /\ prog' = Replaced(prog, Res(i), IF ptr \in DOMAIN lastStore THEN lastStore[ptr].value ELSE lastLoad[ptr])
       /\ removed' = Append(removed, i)
       /\ UNCHANGED <<lastStore, lastLoad>>
  ELSE /\ lastStore' = Spared(lastStore, ptr)
       /\ lastLoad' = (ptr :> Res(i)) @@ lastLoad
       /\ UNCHANGED <<prog, removed>>

\* Mutant of VisitStore: the value stored is not remembered for loads.
VisitStoreForgets(i, value, ptr) ==
  /\ removed' = IF ptr \in DOMAIN lastStore THEN Append(removed, lastStore[ptr].store) ELSE removed
  /\ lastStore' = (ptr :> [store |-> i, value |-> value]) @@ Spared(lastStore, ptr)
  /\ lastLoad' = Restrict(Spared(lastLoad, ptr), DOMAIN Spared(lastLoad, ptr) \ {ptr})
  /\ UNCHANGED prog

VisitStore(i, value, ptr) ==
  /\ removed' = IF ptr \in DOMAIN lastStore THEN Append(removed, lastStore[ptr].store) ELSE removed
  /\ lastStore' = (ptr :> [store |-> i, value |-> value]) @@ Spared(lastStore, ptr)
  /\ lastLoad' = (ptr :> value) @@ Spared(lastLoad, ptr)
  /\ UNCHANGED prog

\* The body of local_forward_memory.
VisitMemory ==
  /\ block # None /\ pass = "memory" /\ todo # <<>>
  /\ LET i    == Head(todo)
         inst == prog.inst[i]
     IN  CASE inst.op = "load"  -> VisitLoad(i, inst.args[1])
           [] inst.op = "store" -> VisitStore(i, inst.args[1], inst.args[2])
           [] inst.op = "call"  -> lastStore' = <<>> /\ lastLoad' = <<>> /\ UNCHANGED <<prog, removed>>
           [] OTHER -> UNCHANGED <<prog, removed, lastStore, lastLoad>>
  /\ todo' = Tail(todo)
  /\ UNCHANGED <<source, blocks, block, pass, seen>>

LeaveBlock ==
  /\ block # None /\ pass = "memory" /\ todo = <<>> /\ removed = <<>>
  /\ block' = None
  /\ seen' = <<>> /\ lastStore' = <<>> /\ lastLoad' = <<>>
  /\ UNCHANGED <<source, prog, blocks, pass, todo, removed>>

Finished == blocks = {} /\ block = None
Done == Finished /\ UNCHANGED vars

Next ==
  \/ \E b \in blocks : TakeBlock(b)
  \/ VisitGep
  \/ StartMemory
  \/ VisitMemory
  \/ EraseReplaced
  \/ LeaveBlock
  \/ Done

Spec == Init /\ [][Next]_vars

-----------------------------------------------------------------------------
\* The tables speak of stores and values of the block in hand that still stand.
TypeOK ==
  /\ block \in Blocks(source) \cup {None} /\ pass \in {"geps", "memory"}
  /\ block = None => lastStore = <<>> /\ lastLoad = <<>>
  /\ \A p \in DOMAIN lastStore : lastStore[p].store \in Range(prog.block[block].insts)

\* Calls and the return find the memory they found before, and the same
\* operands: no load is answered with a value that was overwritten, and no
\* store is deleted that is still read, through this pointer or another.
MemoryKept == Finished => SameEffects(source, prog, 6)

\* Every operand is defined where it is read, also while loads and address
\* computations are replaced but not yet erased.
StaysWellFormed == WellFormed(source) => WellFormed(prog)

\* Within a block no load is left behind a store to the same pointer or a load
\* from it with nothing in between that could change the cell.
NothingReloaded ==
  Finished => \A b \in Blocks(prog) : \A m, n \in DOMAIN prog.block[b].insts :
    LET at(k) == prog.inst[prog.block[b].insts[k]]
        ptr   == at(n).args[1]
        cell == (at(m).op = "load" /\ at(m).args[1] = ptr) \/ (at(m).op = "store" /\ at(m).args[2] = ptr)
    IN  m < n /\ at(n).op = "load" /\ cell =>
          \E k \in (m + 1)..(n - 1) :
            at(k).op = "call" \/ (at(k).op = "store" /\ MayAlias(prog, at(k).args[2], ptr))
=============================================================================
