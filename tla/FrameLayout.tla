----------------------------- MODULE FrameLayout -----------------------------
(***************************************************************************)
(* The stack frame of a machine function: the slots lowering asks for      *)
(* (mir.rs), the offsets compute_frame_layout gives them                   *)
(* (mir/lower/layout.rs) and the prologue and epilogue insert_logue wraps  *)
(* around the body (mir/lower/logue.rs).  The function is then run on a    *)
(* memory of bytes: offset 0 is the lowest byte of the frame and the       *)
(* caller's frame, with the incoming stack arguments, starts right above.  *)
(***************************************************************************)
EXTENDS Integers, FiniteSets, SequencesExt

CONSTANTS
    WordSize,     \* T::WORD_SIZE
    FrameAlign,   \* T::FRAME_ALIGN
    CalleeSaved,  \* T::is_callee_saved, registers as numbers in their order
    Shapes,       \* the [size, align] an alloca or a spill may ask for
    MaxOutgoing,  \* bound: words of outgoing stack arguments
    MaxBodySlots  \* bound: slots asked for by lowering and spilling

\* Alignments are powers of two: of two of them one divides the other.
Aligns == {1, WordSize, FrameAlign} \cup {s.align : s \in Shapes}

LayoutAssumption ==
    /\ WordSize \in Nat \ {0} /\ FrameAlign \in Nat \ {0}
    /\ Shapes \subseteq [size : Nat, align : Nat \ {0}]
    /\ \A a, b \in Aligns : a % b = 0 \/ b % a = 0
    /\ CalleeSaved \subseteq Nat \ {0} /\ IsFiniteSet(CalleeSaved)
    /\ MaxOutgoing \in Nat

Ra   == 0              \* the return address register
Sp   == -1
Regs == CalleeSaved \cup {Ra}
Unset    == -2         \* a byte no one has written
Clobber  == -3         \* a register the body has written
Argument == -4         \* a byte of the caller's outgoing arguments
Value(k) == -4 - k     \* a byte the body has written to slot k; k = 0, an outgoing argument

VARIABLES
    slots,        \* frame_info.stack_slots, StackSlotId + 1 is the index
    maxAlign,     \* frame_info.max_align
    outgoing,     \* frame_info.max_outgoing_arg_size
    written,      \* the callee-saved registers some instruction defines
    calls,        \* some instruction is a call
    layout,       \* frame_layout
    phase,        \* "lower", "logue", "enter", "body", "leave", "returned"
    todo,         \* the rest of the prologue or the epilogue
    sp,           \* run: the stack pointer, on entry layout.frameSize
    file,         \* run: the saved registers
    memory,       \* run: the bytes of the frame and the caller's first word
    stored        \* history: the slots the body has written

frame == <<slots, maxAlign, outgoing, written, calls>>
run   == <<todo, sp, file, memory, stored>>
vars  == <<frame, layout, phase, run>>

NextMultipleOf(n, a) == ((n + a - 1) \div a) * a
MaxOf(a, b) == IF a >= b THEN a ELSE b
NoLayout == [frameSize |-> 0, offsets |-> <<>>, saved |-> <<>>, raSlot |-> 0]

Init ==
    /\ slots = <<>> /\ maxAlign = 1 /\ outgoing = 0 /\ written = {} /\ calls = FALSE
    /\ layout = NoLayout
    /\ phase = "lower"
    /\ todo = <<>> /\ sp = 0 /\ file = <<>> /\ memory = <<>> /\ stored = {}

NewStackSlot(shape) ==
    /\ phase = "lower" /\ Len(slots) < MaxBodySlots
    /\ slots' = Append(slots, shape)
    /\ maxAlign' = MaxOf(maxAlign, shape.align)
    /\ UNCHANGED <<outgoing, written, calls, layout, phase, run>>

(* A call with n words of stack arguments: record_outgoing_arg.            *)
LowerCall(n) ==
    /\ phase = "lower"
    /\ outgoing' = MaxOf(outgoing, n * WordSize)
    /\ calls' = TRUE
    /\ UNCHANGED <<slots, maxAlign, written, layout, phase, run>>

(* Register allocation has put a result in the callee-saved register r.    *)
AssignCalleeSaved(r) ==
    /\ phase = "lower"
    /\ written' = written \cup {r}
    /\ UNCHANGED <<slots, maxAlign, outgoing, calls, layout, phase, run>>

(* The end of the outgoing argument area, below every slot.                *)
OutgoingEnd(n) == NextMultipleOf(n, WordSize)

(* The running offset of compute_frame_layout before slot k.               *)
Offsets(ss, start) ==
    LET at[k \in 1..(Len(ss) + 1)] ==
            LET free == IF k = 1 THEN start ELSE at[k - 1] + ss[k - 1].size
            IN  IF k > Len(ss) THEN free ELSE NextMultipleOf(free, ss[k].align)
    IN  at

\* The written registers in their order.
InOrder(S) ==
    CHOOSE s \in [1..Cardinality(S) -> S] : \A i, j \in DOMAIN s : i < j => s[i] < s[j]

(* New slots for the return address and the saved registers, then the      *)
(* offset of every slot and the size of the frame.                         *)
ComputeFrameLayout ==
    /\ phase = "lower"
    /\ LET word  == [size |-> WordSize, align |-> WordSize]
           order == InOrder(written)
           base  == Len(slots) + (IF calls THEN 1 ELSE 0)
           fresh == [k \in 1..(base - Len(slots) + Len(order)) |-> word]
           at    == Offsets(slots \o fresh, OutgoingEnd(outgoing))
           align == IF fresh = <<>> THEN maxAlign ELSE MaxOf(maxAlign, WordSize)
       IN  /\ slots' = slots \o fresh
           /\ maxAlign' = align
           /\ layout' = [frameSize |-> NextMultipleOf(at[base + Len(order) + 1],
                                                     MaxOf(align, FrameAlign)),
                         offsets |-> [k \in 1..(base + Len(order)) |-> at[k]],
                         saved |-> [r \in written |->
                                      base + (CHOOSE k \in DOMAIN order : order[k] = r)],
                         raSlot |-> IF calls THEN base ELSE 0]
    /\ phase' = "logue"
    /\ UNCHANGED <<outgoing, written, calls, run>>

Adjust(n)     == [op |-> "adjust", by |-> n, reg |-> Sp, slot |-> 0]
Store(r, k)   == [op |-> "store", by |-> 0, reg |-> r, slot |-> k]
Load(r, k)    == [op |-> "load", by |-> 0, reg |-> r, slot |-> k]

Prologue ==
    LET order == InOrder(written)
    IN  <<Adjust(-layout.frameSize)>>
        \o (IF layout.raSlot = 0 THEN <<>> ELSE <<Store(Ra, layout.raSlot)>>)
        \o [k \in DOMAIN order |-> Store(order[k], layout.saved[order[k]])]

(* Mutant of Epilogue: the functions are not reversed.                     *)
EpilogueInOrder ==
    [k \in DOMAIN Prologue |->
        LET i == Prologue[k]
        IN  IF i.op = "adjust" THEN Adjust(layout.frameSize) ELSE Load(i.reg, i.slot)]

Epilogue ==
    [k \in DOMAIN Prologue |->
        LET i == Reverse(Prologue)[k]
        IN  IF i.op = "adjust" THEN Adjust(layout.frameSize) ELSE Load(i.reg, i.slot)]

(* insert_logue; the function is then entered.                             *)
InsertLogue ==
    /\ phase = "logue"
    /\ phase' = "enter"
    /\ todo' = Prologue
    /\ sp' = layout.frameSize
    /\ file' = [r \in Regs |-> r]
    /\ memory' = [o \in 0..(layout.frameSize + WordSize - 1) |->
                    IF o < layout.frameSize THEN Unset ELSE Argument]
    /\ UNCHANGED <<frame, layout, stored>>

Area(base, size) == base .. (base + size - 1)
SlotArea(k)      == Area(sp + layout.offsets[k], slots[k].size)
Filled(area, v)  == [o \in DOMAIN memory |-> IF o \in area THEN v ELSE memory[o]]
Loaded(area)     == IF area \subseteq DOMAIN memory /\ \A o, p \in area : memory[o] = memory[p]
                    THEN memory[CHOOSE o \in area : TRUE] ELSE Unset

(* One instruction of the prologue or the epilogue.                        *)
Logue ==
    /\ phase \in {"enter", "leave"} /\ todo # <<>>
    /\ LET i == Head(todo)
       IN  \/ /\ i.op = "adjust"
              /\ sp' = sp + i.by
              /\ UNCHANGED <<file, memory>>
           \/ /\ i.op = "store"
              /\ memory' = Filled(SlotArea(i.slot), file[i.reg])
              /\ UNCHANGED <<sp, file>>
           \/ /\ i.op = "load"
              /\ file' = [file EXCEPT ![i.reg] = Loaded(SlotArea(i.slot))]
              /\ UNCHANGED <<sp, memory>>
    /\ todo' = Tail(todo)
    /\ UNCHANGED <<frame, layout, phase, stored>>

Entered ==
    /\ phase = "enter" /\ todo = <<>>
    /\ phase' = "body"
    /\ UNCHANGED <<frame, layout, run>>

(* The body stores through the address of a slot it asked for.             *)
WriteSlot(k) ==
    /\ phase = "body" /\ k \notin Range(layout.saved) \cup {layout.raSlot}
    /\ memory' = Filled(SlotArea(k), Value(k))
    /\ stored' = stored \cup {k}
    /\ UNCHANGED <<frame, layout, phase, todo, sp, file>>

(* A call: the outgoing arguments at the bottom of the frame, then ra.     *)
Call ==
    /\ phase = "body" /\ calls
    /\ memory' = Filled(Area(sp, outgoing), Value(0))
    /\ file' = [file EXCEPT ![Ra] = Clobber]
    /\ UNCHANGED <<frame, layout, phase, todo, sp, stored>>

WriteCalleeSaved(r) ==
    /\ phase = "body" /\ r \in written
    /\ file' = [file EXCEPT ![r] = Clobber]
    /\ UNCHANGED <<frame, layout, phase, todo, sp, memory, stored>>

Leave ==
    /\ phase = "body"
    /\ phase' = "leave"
    /\ todo' = Epilogue
    /\ UNCHANGED <<frame, layout, sp, file, memory, stored>>

Returned ==
    /\ phase = "leave" /\ todo = <<>>
    /\ phase' = "returned"
    /\ UNCHANGED <<frame, layout, run>>

Stopped == phase = "returned" /\ UNCHANGED vars

Next == \/ \E s \in Shapes : NewStackSlot(s)
        \/ \E n \in 0..MaxOutgoing : LowerCall(n)
        \/ \E r \in CalleeSaved : AssignCalleeSaved(r) \/ WriteCalleeSaved(r)
        \/ ComputeFrameLayout
        \/ InsertLogue
        \/ Logue
        \/ Entered
        \/ \E k \in DOMAIN slots : WriteSlot(k)
        \/ Call
        \/ Leave
        \/ Returned
        \/ Stopped

Spec == Init /\ [][Next]_vars

-------------------------------------------------------------------------------
(* Slots carry a shape and the greatest alignment is kept; the frame holds *)
(* whole alignment units and every offset is a multiple of its alignment.  *)
TypeOK ==
    /\ \A k \in DOMAIN slots : slots[k].size \in Nat /\ slots[k].align =< maxAlign
    /\ written \subseteq CalleeSaved /\ stored \subseteq DOMAIN slots
    /\ \A k \in DOMAIN layout.offsets : layout.offsets[k] % slots[k].align = 0
    /\ layout.frameSize % FrameAlign = 0
    /\ phase # "lower" => layout.frameSize % maxAlign = 0

(* When the function returns, the stack pointer, the return address and    *)
(* every callee-saved register hold what they held on entry, whatever the  *)
(* body wrote to its slots, its outgoing arguments and its registers.      *)
EntryRestored ==
    phase = "returned" => sp = layout.frameSize /\ file = [r \in Regs |-> r]

(* A slot keeps what the body stored in it until the body stores there     *)
(* again: other slots, saved registers and outgoing arguments are apart.   *)
SlotsKeepValues ==
    phase = "body" => \A k \in stored : \A o \in SlotArea(k) :
                          o \in DOMAIN memory /\ memory[o] = Value(k)

(* The incoming stack arguments, read at incoming_arg_offset = frame_size, *)
(* stay what the caller stored.                                            *)
IncomingArgumentsKept ==
    phase \in {"body", "leave", "returned"} =>
        \A o \in Area(layout.frameSize, WordSize) : memory[o] = Argument
===============================================================================
