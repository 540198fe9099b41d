------------------------------- MODULE Inline -------------------------------
(***************************************************************************)
(* function_inline.rs, the part after the call graph (module CallGraph):   *)
(* the functions stand in the order they are processed in, each after the  *)
(* ones it may inline.  The good calls of a function are found first and   *)
(* then inlined one after the other: the block is split at the call, the   *)
(* callee's blocks are appended in their order and its instructions copied *)
(* one by one.  An operand that is copied later is an undef constant of    *)
(* its own until then.  The passes that tidy a function afterwards are in  *)
(* CFGSimplify, SCCP and ADCE; they keep the order of the blocks.          *)
(***************************************************************************)
EXTENDS IRProgram

CONSTANTS
  Programs,  \* the sequences of functions to consider
  Budget     \* the size an inlined function may have: 30 in the code

VARIABLES
  source, funcs,   \* the functions before the pass and now
  at,              \* the function being processed
  found,           \* the calls of that function have been looked for
  calls,           \* the calls still to inline there
  copy             \* the call in hand and how far its callee is copied, or Idle

vars == <<source, funcs, at, found, calls, copy>>

Idle == [call |-> 0]

Init ==
  /\ source \in Programs
  /\ funcs = source
  /\ at = 1 /\ found = FALSE /\ calls = <<>> /\ copy = Idle

-----------------------------------------------------------------------------
IsInvoke(i) == i.op = "invoke"
InOrder(f)  == FlattenSeq([k \in DOMAIN f.order |-> f.block[f.order[k]].insts])

\* analyze_inlinability: what is left of the budget, the phis not counted.
Cost(i)  == IF i.op \in {"call", "invoke"} THEN 10 ELSE IF IsPhi(i) THEN 0 ELSE 1
Score(f) == Budget + 1 - FoldLeft(LAMBDA n, k : n + Cost(f.inst[k]), 0, InOrder(f))

\* The calls worth it, found before the first is inlined; a function that may
\* call the caller back is in its component and is never inlined.
FindCalls ==
  /\ at <= Len(funcs) /\ ~found
  /\ LET f == funcs[at]
         good(k) == IsInvoke(f.inst[k]) /\ f.inst[k].from[1] < at /\ Score(funcs[f.inst[k].from[1]]) > 0
     IN  calls' = SelectSeq(InOrder(f), good)
  /\ found' = TRUE
  /\ UNCHANGED <<source, funcs, at, copy>>

Fresh(S) == CHOOSE n \in 1..(Cardinality(S) + 100) : n \notin S /\ \A m \in S : m < n

\* split_block_at: the call and what follows it move to a new last block.
Split(f, k, rest) ==
  LET b == HomeOf(f, k)
      p == CHOOSE n \in DOMAIN f.block[b].insts : f.block[b].insts[n] = k
      moved(i) == IF IsPhi(i) THEN [i EXCEPT !.from = [n \in DOMAIN @ |-> Subst(@[n], b, rest)]] ELSE i
  IN  [f EXCEPT !.block = (rest :> [@[b] EXCEPT !.insts = SubSeq(@, p, Len(@))])
                          @@ [@ EXCEPT ![b] = [insts |-> SubSeq(@.insts, 1, p - 1), term |-> Jump(rest)]],
                !.inst  = [i \in DOMAIN @ |-> moved(@[i])],
                !.order = Append(@, rest)]

Terminator == 0

\* A block with its terminator, as one sequence of things to copy.
ToCopy(f, b) == [n \in DOMAIN f.block[b].insts |-> <<b, f.block[b].insts[n]>>] \o <<<<b, Terminator>>>>

StartCall ==
  /\ copy = Idle /\ calls # <<>>
  /\ LET f      == funcs[at]
         k      == calls[1]
         callee == funcs[f.inst[k].from[1]]
         rest   == Fresh(DOMAIN f.block)
         split  == Split(f, k, rest)
         new    == [n \in DOMAIN callee.order |-> rest + n]
     IN  /\ funcs' = [funcs EXCEPT ![at] =
              [split EXCEPT !.block = [b \in Range(new) |-> [insts |-> <<>>, term |-> Ret(NoValue)]] @@ @,
                            !.order = @ \o new]]
         /\ copy' = [call   |-> k, rest |-> rest,
                     before |-> HomeOf(f, k),
                     blocks |-> [b \in Range(callee.order) |->
                                   new[CHOOSE n \in DOMAIN new : callee.order[n] = b]],
                     insts  |-> <<>>, rets |-> <<>>, undefs |-> 0,
                     todo   |-> FlattenSeq([n \in DOMAIN callee.order |-> ToCopy(callee, callee.order[n])])]
  /\ UNCHANGED <<source, at, found, calls>>

Callee == funcs[funcs[at].inst[copy.call].from[1]]

\* get_value_mapping for all operands of one instruction: each value that is
\* not copied yet gets a placeholder, the same for all its uses.
Placeholders(vs) ==
  LET missing == SetToSeq({v[2] : v \in {w \in Range(vs) : IsInst(w) /\ w[2] \notin DOMAIN copy.insts}})
  IN  [i \in Range(missing) |-> <<"undef", copy.undefs + CHOOSE n \in DOMAIN missing : missing[n] = i>>]

\* get_value_mapping
Mapping(v, known) ==
  CASE v[1] = "arg"  -> funcs[at].inst[copy.call].args[1]
    [] v[1] = "inst" -> known[v[2]]
    [] OTHER -> v

\* copy_inst_fn for a phi or an ordinary instruction.
CopyInst ==
  /\ copy # Idle /\ copy.todo # <<>> /\ Head(copy.todo)[2] # Terminator
  /\ LET old   == Head(copy.todo)[2]
         i     == Callee.inst[old]
         known == Placeholders(i.args) @@ copy.insts
         new   == Fresh(DOMAIN funcs[at].inst)
         home  == copy.blocks[Head(copy.todo)[1]]
         clone == [i EXCEPT !.args = [n \in DOMAIN @ |-> Mapping(@[n], known)],
                            !.from = IF IsPhi(i) THEN [n \in DOMAIN @ |-> copy.blocks[@[n]]] ELSE @]
         put   == [funcs[at] EXCEPT !.inst = (new :> clone) @@ @, !.block[home].insts = Append(@, new)]
     IN  /\ funcs' = [funcs EXCEPT ![at] =
              IF old \in DOMAIN known THEN Replaced(put, known[old], Res(new)) ELSE put]
         /\ copy' = [copy EXCEPT !.insts = (old :> Res(new)) @@ known, !.undefs = @ + Len(i.args),
                                 !.todo = Tail(@)]
  /\ UNCHANGED <<source, at, found, calls>>

\* copy_inst_fn for a terminator: a return becomes a jump behind the call, and
\* its value is kept for the phi there, as it is mapped now.
CopyTerm ==
  /\ copy # Idle /\ copy.todo # <<>> /\ Head(copy.todo)[2] = Terminator
  /\ LET b     == Head(copy.todo)[1]
         t     == Callee.block[b].term
         known == Placeholders(<<t.on>>) @@ copy.insts
         on    == Mapping(t.on, known)
     IN  /\ funcs' = [funcs EXCEPT ![at].block[copy.blocks[b]].term =
              IF t.to = <<>> THEN Jump(copy.rest) ELSE [to |-> [n \in DOMAIN t.to |-> copy.blocks[t.to[n]]], on |-> on]]
         /\ copy' = [copy EXCEPT !.insts = known, !.undefs = @ + 1, !.todo = Tail(@),
                                 !.rets = IF t.to = <<>> /\ on # NoValue THEN Append(@, <<copy.blocks[b], on>>) ELSE @]
  /\ UNCHANGED <<source, at, found, calls>>

\* The block that was split goes on in the copied entry.
Entered(f) == [f EXCEPT !.block[copy.before].term = Jump(copy.blocks[Callee.entry])]

\* Mutant of Joined: the phi is there, and the call is still used.
JoinedUnread(f) ==
  LET phi   == Fresh(DOMAIN f.inst)
      rets  == copy.rets
  IN  IF rets = <<>> THEN f
      ELSE [f EXCEPT !.inst = (phi :> Phi([n \in DOMAIN rets |-> rets[n][1]], [n \in DOMAIN rets |-> rets[n][2]])) @@ @,
                     !.block[copy.rest].insts = <<phi>> \o @]

\* The results meet in a phi in front of what followed the call.
Joined(f) ==
  LET phi   == Fresh(DOMAIN f.inst)
      rets  == copy.rets
      added == [f EXCEPT !.inst = (phi :> Phi([n \in DOMAIN rets |-> rets[n][1]], [n \in DOMAIN rets |-> rets[n][2]])) @@ @,
                         !.block[copy.rest].insts = <<phi>> \o @]
  IN  IF rets = <<>> THEN f ELSE Replaced(added, Res(copy.call), Res(phi))

FinishCall ==
  /\ copy # Idle /\ copy.todo = <<>>
  /\ funcs' = [funcs EXCEPT ![at] = Erased(Joined(Entered(funcs[at])), copy.call)]
  /\ calls' = Tail(calls)
  /\ copy' = Idle
  /\ UNCHANGED <<source, at, found>>

FunctionDone ==
  /\ found /\ copy = Idle /\ calls = <<>>
  /\ found' = FALSE /\ at' = at + 1
  /\ UNCHANGED <<source, funcs, calls, copy>>

AllDone == at > Len(funcs)
Done == AllDone /\ UNCHANGED vars

Next ==
  \/ FindCalls
  \/ StartCall
  \/ CopyInst
  \/ CopyTerm
  \/ FinishCall
  \/ FunctionDone
  \/ Done

Spec == Init /\ [][Next]_vars /\ WF_vars(Next)

-----------------------------------------------------------------------------
\* Between two calls the order names each block once, and each instruction
\* stands in one place.
TypeOK ==
  copy = Idle => \A n \in DOMAIN funcs :
    LET f == funcs[n] IN
    /\ Range(f.order) = DOMAIN f.block /\ IsInjective(f.order)
    /\ Placed(f) \subseteq DOMAIN f.inst /\ IsInjective(InOrder(f))
    /\ \A b \in Blocks(f) : Succs(f, b) \subseteq Blocks(f)

\* The call is erased only when nothing uses it (the assertion of
\* erase_inst_from_parent): its uses went to the phi, or it had none.
ErasedUnused ==
  (copy # Idle /\ copy.todo = <<>>) => Unused(Joined(Entered(funcs[at])), copy.call)

\* Inlining keeps definitions above their uses and phis matched with edges.
StaysWellFormed ==
  copy = Idle => \A n \in DOMAIN funcs : WellFormed(source[n]) => WellFormed(funcs[n])

\* No placeholder outlives the copying of its function.
NoPlaceholderLeft ==
  copy = Idle => \A n \in DOMAIN funcs : \A i \in Placed(funcs[n]) :
    \A v \in Range(funcs[n].inst[i].args) : v[1] # "undef"

\* A function shows the same as before, with the functions it called and with
\* the ones it calls now.
Linked(fs, n) == ("with" :> fs) @@ fs[n]
EffectsKept ==
  AllDone => \A n \in DOMAIN funcs : SameEffects(Linked(source, n), Linked(funcs, n), 12)

\* Inlining ends, whatever calls what.
Ends == <>(AllDone)
=============================================================================
