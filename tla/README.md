# A verification development for c0mpiler

c0mpiler (`src/README.md`) compiles a subset of Rust to RV32IM or RV64I assembly.
A source text is parsed and analysed, turned into an SSA intermediate representation
(IR), optimised by a pipeline of passes, lowered to machine code over virtual
registers, allocated, laid out on the stack, relaxed and printed. This directory holds
TLA+ models of the parts whose correctness is hardest to see from tests, the TLC
configurations that check them on small instances, and theorems about them checked by TLAPS.

The compiler is sequential. What makes it hard is not threads but *order* and
*redundancy*: hash maps and hash sets are walked in an order that differs from run to
run, the IR keeps every edge twice (operand and use list), passes edit what they are
walking, and what comes out must behave like what went in on every path. Each model
leaves open what the code leaves open (hash order, heuristics, the order in which passes
call the core) and lets TLC or TLAPS quantify over it. Most properties are of one form: run
what a pass was given and what it left, and compare what can be seen.

## 1. Inventory

All paths are below `src/src/`.

| Component | State | Operations | Interacts with | Hard behaviour | Correct when |
|---|---|---|---|---|---|
| Lexer, parser `lexer.rs`, `ast/` | cursor over tokens with the next node id | recursive descent, alternatives on copies of the cursor | analyzer keys its tables by node id | priorities, lookahead, alternatives given up halfway | the tree read is the tree written; ids are distinct |
| Type solver `semantics/type_solver.rs` | union-find table of types, downgrade flag | `eq`, `unify_values`, `eq_with_type`, downgrade of `&mut` | analyzer asks at every expression | inference by order of the questions, types that hold themselves | joined is exactly what must be; refused is what cannot be |
| Semantic analyzer `semantics/` | scopes, results per node | tree walk in stages | solver, scopes; IR generation trusts its results | interrupts of control flow, mutability through references | what is accepted is safe and has code |
| Scopes, constant evaluation | scope tree, evaluated constants | look up, evaluate | analyzer | shadowing, arithmetic by type | compile-time = run-time arithmetic |
| IR generation `irgen/`, `ir/destructor.rs`, `ir/core_builder.rs` | current block, values per node, loop targets | one rule per expression | analyzer, IR core | values as addresses or as they are, blocks that end early | the code does what the body means |
| IR core `ir/core.rs`, `ir/core_inst.rs` | slot maps of instructions and blocks, operands, use lists, phi slot counters | create, place, detach, erase (2 ways), erase blocks, overwrite, replace uses (value, block, one operand), add/remove phi edge | every pass and the IR generator edit it; lowering reads it | redundant lists edited while walked, self-uses, repeated operands, erasing what refers to itself | use lists say exactly what operands say; nothing dangles; each instruction stands in one place |
| CFG and dominators `ir/cfg.rs` | successor/predecessor sets, DFS numbers, tree, frontier | DFS, semidominators with path compression, frontier, `dominates`, reversal, block splitting | mem2reg, adce, gvn, licm | hash-order DFS, union-find with path compression | the tree is the dominator tree for every order |
| mem2reg | phi map, renaming stack | place phis, rename, erase allocas | core, CFG | iterated frontier, undefined values | loads read the last store on every path |
| sccp | lattice, two work lists, executable edges | visit phi, instruction, terminator; rewrite eagerly | core | order of the work lists, rewriting during analysis | what runs was visited; a constant is constant on every executable path |
| dce, adce | live sets | mark, sweep, retarget branches | core, CFG reversed | endless loops, phi edges as uses | what is observable stays |
| CFG simplification, merge_return | predecessor counts | fold branches, merge blocks, erase unreached | core | candidates computed before edits | paths and phis preserved |
| GVN (local, global) | expression tables | walk tree, replace | core, CFG | trusts the dominator tree | a reused value is available |
| local_memory | last store and load per pointer | forward, delete stores | core, attributes | aliasing, calls | loads read what memory holds |
| licm | loops | hoist | core, CFG | loops that share a header | same values, same effects |
| function_inline | call graph, block and value maps | order, copy body, patch placeholders | core, all scalar passes | values used before they are copied | call = body |
| algebraic, strength, scalar_memcpy, sroa | work list | rewrite one instruction | core, CoreInt | widths and signs | identity on every width |
| CoreInt `ir/core_int.rs` | value and width | fixed-width arithmetic | folding passes | extremes, shifts | equals arithmetic modulo 2^w |
| Type layout `ir/layout.rs` | cache | size, align, offsets | IR generation, lowering | padding | fields disjoint and aligned |
| Lowering `mir/lower.rs` | vreg counter, block and value maps | one rule per IR instruction, phi edges | core, targets | constants by width, critical edges | machine code = IR |
| Parallel copies `mir/lower.rs:185` | move graph | order moves, break cycles | lowering of phi edges and call arguments | cycles, chains, fan-out, hash order | the moves have the effect of the simultaneous assignment |
| Register allocation `mir/lower/regalloc.rs` | liveness, interference graph, simplify stack, colours, spills | build, simplify, colour, spill, rewrite | targets, frame slots | clobbers, address scratch, repeated rounds | every instruction reads the values its source reads |
| Frame `mir/lower/layout.rs`, `mir/lower/logue.rs` | slots, offsets, frame size | new slot, layout, prologue and epilogue | allocation, lowering of calls | alignment, order of restore | caller's state restored, slots disjoint |
| Branch relaxation `mir/lower/branch_relax.rs`, `mir/opt/fallthrough.rs` | blocks, ids, sizes | insert springboard, drop jumps | last steps before printing | insertion moves everything; ids and positions part | every branch reaches, control flow unchanged |
| Targets `mir/rv32im.rs`, `mir/rv64i.rs` | none (tables) | def/use sets, sizes, stack pseudos, printing | all machine passes | conflict of address scratch | tables agree with the ISA |
| Driver, utilities, runtime, scripts | none | I/O | all | none | stops at the first error |

The hazards, each at the line where it bites and with the properties aimed at it, are
listed in `PROJECT.json`.

## 2. Modules

| Module | Models | Run |
|---|---|---|
| `Grammar`, `Parser`, `Syntax` | the rules of `ast/` as data, the machine that runs them over tokens, and what trees mean | `front_end`, `parser_generics` |
| `TypeSolver` | the union-find table and the recursion of `eq` | `front_end` |
| `Rust`, `Analyzer`, `IRGen`, `Compiler` | what a body means; what the analyzer decides; the code the generator writes and its execution; the three beside each other | `front_end`, `compiler_shared` |
| `IRCore` | the mutable SSA graph and every editing call on it | `ircore` |
| `DomTree`, `Mem2Reg`, `ADCE` | DFS, dominator tree, frontier; SSA construction; aggressive dead code removal | `graph_passes`, `graph_passes_sound`, `graph_passes_hang` |
| `IRProgram` | a function of the IR as the scalar passes see it, and its runs | used by the next row |
| `GVN`, `LocalMemory`, `LICM`, `SCCP`, `CFGSimplify`, `Inline`, `CallGraph` | the scalar passes and inlining | `scalar_passes`, `scalar_passes_continue`, `scalar_passes_chain` |
| `CoreInt`, `IntRegister`, `Rewrites` | fixed-width integers; a register folded beside the integer it stands for; algebraic and strength rewrites | `arithmetic` |
| `PhiLowering`, `ParallelCopy`, `RegAlloc`, `FrameLayout`, `BranchRelax` | branches into blocks with phis, and the stages behind instruction selection | `back_end` |
| `IRCoreProofs`, `MCGraphPassesProofs`, `PhiLoweringProofs`, `ParallelCopyProofs`, `RegAllocProofs`, `FrameLayoutProofs` | theorems about the module of that name | `tlapm` |
| `MCGraphFindings` | the functions on which two properties of `MCGraphPasses` fail | `graph_passes_sound`, `graph_passes_hang` |
| `MCBackEndProofs` | the theorems of the stages of lowering, for their composition in `MCBackEnd`; those about relaxation | `tlapm` |
| `SequenceLemmas` | what inserting, removing and appending do to a list; induction over sets of numbers | `tlapm` |

The modules of one run share a state space: `MCFrontEnd`, `MCGraphPasses`,
`MCScalarPasses`, `MCArithmetic` and `MCBackEnd` declare the variables of all their parts
and one more (`part`, `pass`, `opt`, `stage`) that says which part a behaviour is of;
the variables of the others stand still. A property reads "of this part, ...", and the
type invariant of a part is a conjunct of its first property. `MCParser`, `MCTypeSolver`, `MCCompiler`
and `MCIRCore` give one part its inputs. The parts are the phases of one compiler, called one
after the other, and hand over nothing but the function; what each may be handed is in its domain.

### Grammar, Parser, Syntax

`Grammar` holds what each `eat_impl` asks for as a term built from the macros of `ast.rs` (keyword,
peek, prefix, first of several, until, while, commas) and the few forms written by hand.
`Parser!Run` runs a term on a cursor, a position and the next node id; `Eat` gives the copy back
only on success, as `Eatable::eat` does. Expressions are read with a priority, with the
restrictions of conditions, and with the followers of an operand tried in the code's order.
`Next` is the loop of `Crate::eat_impl`, one item a step. `Syntax` knows nothing of parsing: it
says which tokens a tree is written as (`Yield`) and which trees the language has
(`WellFormed`, by levels of operators and what an expression would take for itself).

`ParsesBack`: what a well-formed tree is written as is read back as that tree. `NothingLost`:
an accepted sequence of tokens is the writing of the tree that was built from it, so no alternative
given up leaves a token out or a part in. `IdsDistinct`: no two nodes share an id, on which
every table of the analyzer is keyed.

### TypeSolver

State: `root` and `value` are the table by what its classes are, `work` the recursion of `eq` as a
stack, `downgrade` the flag of the solver, `outcome`, and `asked`. A step takes one pair off
the stack: never types, one key, the downgrade of `&mut` to `&`, `Self` of a trait, and the
join of two classes, whose inner types go on the stack as they were before it. An error ends the run
and leaves the table joined, as the code does.

`MembersFit`: however many joins a type took part in, the value of its class is one it could become.
`ClosureExact`: when no question is pending, two keys are joined exactly when the smallest
equivalence that holds the questions and is closed under taking types apart joins them.
`RefusalsExplained`: a refused question has two types in one class of that equivalence that
no type fits, with one exception the model names (`Mixed`, see the findings). `Answers`: every question is
answered, although there is no occurs check and a type may hold itself.

### Rust, Analyzer, IRGen, Compiler

`Rust` is the reference: an evaluator with a store, for bodies of integers, booleans, pairs,
references, lets, assignments, calls, `if`, `while`, `loop`, `break`, `continue`, `return`. What is
seen of a run is the calls of `put` and `put2` with their arguments and the result; `ask` is a
boolean from outside. `Analyzer` has the interrupts (`Interrupt`), places (`Assignee`), types as far as
these depend on them, and acceptance; `IRGen` writes blocks of instructions the way `irgen/` does, with
values that are at hand or behind a pointer, and executes them; where a debug assertion of the generator
fails (`NoBodyValue`) the code says that it is not reached. The function is an ordinary one with its result
returned as a value. `Compiler` is `main`: analyze, generate, run.

`SameBehaviour`: the code of an accepted body shows what the body means, whatever is asked.
`BlocksEnd`: every block that can be reached has one terminator and its phis one value for
each way in. `AcceptedIsSafe`: no accepted body writes to what was declared immutable, directly or through
references, and no break or continue leaves a function. Shapes for which the code is known to be wrong
are predicates of `MCCompiler` (`Wrong`) and left out of the passing run; each was seen to violate
`SameBehaviour` or `BlocksEnd` alone, and is listed under the findings.

### IRCore

State: `live`, `kind`, `parent`, `ops`, `bops`, `idx` are `InstData`; `uses` and
`blockUses` the use lists; `phis`, `insts`, `term` are `BlockData`. A use list is a
vector searched by (user, slot), so it is modelled as a count per (user, slot): a double
registration or a missing removal is visible. The i-th incoming of a phi owns slot i for
value and block. One action per public mutator; a client (a pass) may call them in any
order that meets the assertions the code states. Names of freed keys are reused in the
model, where a slot map would hand out a new version; this is sound as long as nothing
dangles, which is the property checked.

Properties: `ValueUsesExact` (use list = operands, with multiplicity), `BlockUsesSound`
(no listed block use is false), `NoDanglingOperand`, `PlacesExact` (parent and lists agree,
each instruction once), and the action property `ReplacementIsTotal` (after
`replace_all_uses_with` the old value has no use and the new one has them all).

Why block use lists are only *sound*: `overwrite_inst` moves value uses but never
registers the blocks a new terminator names (`ir/core.rs:844`), so after sccp, dce or
merge_return rewrote a terminator an edge is missing from the list of its target. That is
what the code does, the model does it too, and completeness is deliberately not claimed.

### DomTree

The DFS is one action per visited block and any successor may be taken next, because
`cfg.rs` walks a `HashSet`. `ProcessNode` is one turn of the loop in reverse order
(semidominator, link, bucket), `Fixup` the last loop, which goes over the blocks in the order of
the walk and resolves each idom through those before it (`Resolved`). Path compression is left
out: it does not change which root `find` returns. `TreeSpans`, `NoDominanceLost` (every true dominance is in the
tree) and `FrontierExact` hold on all graphs of four blocks, and by theorem on all graphs. The
latter says that a block is in every frontier the tree puts it in, and in others only if the tree hangs
it in a wrong place: the runner of a predecessor (`Climb`) then does not meet the idom it looks for and
climbs on to the root, which it includes. `DominanceSound` (the tree claims only true dominances) does not; see the findings.

### Mem2Reg

Instantiates `DomTree` over its own variables: `BuildTree` is a step of that module, so
promotion works with exactly the trees the code may build, wrong ones included.
`TreeDone` keeps tree and frontier, drops the rest, and chooses the accesses: loads,
stores of a fresh value, and stores of a value computed elsewhere (*define* and *keep*), so
that two stores may store the same value and a phi may merge equal ones. `PlacePhis` is
the work list as the closure it computes; `Enter` and `Leave` are the two halves of a call
of `mem2reg_rename_stage`, with its recursion stack, the value stack and the count of
pushes, children in any order. Then a path of the function is run; `current` holds the values
that equal the variable at that moment. `LoadsReadLastStore` says that what a load was
replaced by is one of them, `IncomingsMatchEdges` that each phi has one incoming for each
reached predecessor; the type invariant holds the code's own assertion that the alloca has
no uses left. One alloca is followed, as each has a stack of its own.

That these hold is not obvious, because `DominanceSound`
does not: where the tree puts a block under the wrong parent, the frontier computed from
that same tree gives the block a phi, so the renaming never carries a wrong value there. The proof
(section 5) shows where this comes from: the runner that misses the idom climbs to the root and
leaves the join in the frontier of every block it passes. The
unsound tree harms passes that use `dominates` alone, not this one.

### ADCE

`Forward` and `Backward` instantiate `DomTree` over the same variables, one after the
other, as the code builds its two trees. `StartBackward` is `reverse` and the exits added for
blocks that reach no end: they enter the successors of the added root only, which the
model keeps because `preds` is a variable of `DomTree`. `BackwardDone` chooses what the
function holds: any set of blocks with an effect, at most one phi at a join and one use of it.
`Mark` is the least fixpoint of `Needs` (operands, phi edges, reversed frontier),
`Sweep` replaces dead branches. Then source and result walk, each alone through blocks
where nothing can be seen, and meet where something is: `EffectsKept` says that they
meet at the same block and that neither goes around unseen for ever, `PhiEdgeKept` that a
live phi is entered over the same edge in both. The source's dead branches may go either way.
These hold on every structured function that can always still return; where a block
reaches no end `JumpHasTarget` is violated (see the findings).

### The scalar passes

`IRProgram` is a function of blocks, phis, instructions and terminators over one-bit values, a
memory of a few cells under two roots, and its runs: a run shows the operand of each call and of the
return, and the memory left. Each pass keeps its own state beside a program it edits:

- `GVN`: the tables of expressions, inherited down the (true) dominator tree, siblings in any order;
  the canonical order of commuting operands; erasure at the end. Local and global scope.
- `LocalMemory`: equal address computations, the last store and load of each pointer, what a call or
  an aliasing store forgets, stores deleted when overwritten. All values in memory have one type, so a load
  of another type from the same pointer is not covered; pointer arguments are roots like any other,
  distinct as `roots_known_distinct_local` takes them to be.
- `LICM`: a loop for each back edge, the insertion block, alias questions, hoisting with the blocks
  of a loop in any order. For a loop of one block the walk back from the latch goes past the header to all
  that comes before it; `try_create_preheader` is asked (only then, with a right tree), finds no predecessor
  outside and makes nothing, and the loop stays as it is (`LeaveLoop`).
- `SCCP` with `CFGSimplify`: `merge_return`, both work lists in any order, constants written and
  branches folded at once, states that only rise (the code's assertion, in `TypeOK`); then dead blocks,
  phis, and merging with candidates found before the first merge.
- `CallGraph`, `Inline`: components by two walks over hash sets, a topological order; then splitting,
  copying with placeholders for operands not yet copied, and joining results.

`EffectsKept`: every run of the result shows what the same run of the source shows.
`StaysWellFormed`: between any two steps operands are computed on every path to where they are read, phis match
edges, and the assertions of the code on erasing and merging hold. `NothingLeft`: the pass leaves
nothing it is there to remove, in any order of its lists. `RunsAreVisited`: every block a run enters was
visited by sccp, and every value a run computes there, in each round of a loop, sccp has as overdefined or as
exactly this constant. `CalleesFirst`: components are exact and a function is
finished before it is inlined. `Ends`: licm, sccp, inlining and the ordering come to an end.

### CoreInt, IntRegister, Rewrites

`CoreInt` has every operation of `ir/core_int.rs` on a word of `WordBits` bits, 64 in the
code: a value is an unsigned word masked to its width. `IntRegister` folds one register through any sequence
of them beside the integer in two's complement: `FoldsAreExact` says that they agree, that comparisons
are true, and that a fold fails exactly where there is no value. `Rewrites` is the work list
of `algebraic.rs` and the sweep of `strength.rs` over two dependent instructions of every kind:
`ResultsKept` (for all arguments), `NothingSimpler` (nothing the pass knows is left, whatever order the list
was in), `RewritesEnd`. A constant is a number and where it was made, since the code compares identities: a phi
or select over the same number written twice is not simplified. Loads of constant items are folded. Null
constants, which nothing makes, undefined ones, which mem2reg leaves where nothing was stored, and with them the
`PtrToInt` arm and the widths `as_int_const` reads them at are left out. Dividends are those for which
the analysis of signs is right (see the findings), so nothing is shown of the others.

### PhiLowering

`LowerBlock` is the branch arm of `lower_instruction`: a jump into a block with phis copies before
it leaves, and each side of a conditional branch that leads to phis gets a transit block of
its own, appended behind all blocks. Then the code runs beside its source over any path: the source takes an
edge when the code leaves one of its blocks, a transit block is passed by the code alone. `PhisArrive`:
in a block of the source the code is in the same block, with every phi in its register, so
neither the sides of one branch, nor two branches into one block, nor a loop whose phis feed each
other mix up their copies. Here the copies of an edge are made at once; that they may be is what
`ParallelCopy` shows, and `PhisKeepValues` is the two together.

### ParallelCopy

`resolve_parallel_copy` as a traversal that emits one move per step, with the order of
the registers it starts from left open. The result is run on a register file: the moves
together have the effect of the simultaneous assignment, each register is read before it is
overwritten (at every moment, not only at the end), and each cycle takes one temporary. `After` runs
a list of moves; `Cycles` are the smallest sets of registers closed under taking the source of a copy.

### RegAlloc

One round is `Build`, `SimplifyLow`/`SelectSpillCandidate`, `Colour`, and either
`SpillVregs` (a new round) or `RewriteAssigned`. Then source code and allocated code run
side by side, one instruction a step, along any path the branches allow, with results
chosen nondeterministically, calls clobbering, and reloads and saves on spill slots, each save
near (one instruction) or far (address built in a scratch register).
`AllocationKeepsValues` says that what an allocated instruction reads is what its source reads,
and that a vreg simplified below its own number of usable registers is never spilled. Left open: which
vreg is pushed when every degree is too high (weights in the code) and which free register is taken. Both
widen the behaviours, so what holds here holds for the weights of the code; termination does depend on them and
is not claimed: the temporaries of a spill are ordinary vregs of low cost, and nothing in
`regalloc.rs:374` keeps the same one from being chosen in every round.

### FrameLayout

`NewStackSlot`, `LowerCall` and `AssignCalleeSaved` build what lowering and allocation
leave in `frame_info`; `ComputeFrameLayout` and `InsertLogue` are the two passes; then the function
runs on a memory of bytes with the caller's frame above it. `FrameKeepsValues` is about that run: the
state on entry is restored, a slot keeps what was written to it, incoming arguments survive, and
offsets and frame size are aligned. Alignment is relative to the stack
pointer, which is assumed aligned on entry to the largest alignment in use. `LayoutAssumption` asks that
of two alignments one divides the other: `ir/layout.rs` only ever takes 1, 2, 4 and 8, the size of a
pointer and the largest of these, and the frame's own is 16. `InOrder` lists the saved registers
upwards, in the order `compute_frame_layout` sorts them.

### BranchRelax

One action per restart of the loop in `relax_branches` and one for
`optimize_fallthroughs`. Instruction bodies are their sizes. `FlowPreserved` compares,
block by block, where control goes with where it went in the source;
`AllInRange` that every conditional branch reaches, also after jumps were dropped;
`OneSpringboardPerBranch` that the loop ends: each source branch needs at most one.
`IdsArePositions` is what makes `num_blocks` a fresh id although a springboard is
inserted in the middle. Jumps have no limit, here as in the code.

## 3. Runs and bounds

| Run | Bounds | Why enough |
|---|---|---|
| `front_end` | trees of two operators deep, two statements, two patterns or types deep, one item; every sequence of up to 5 tokens of ten topics; four types of which two hold the others, and two questions; some 3600 bodies around loops, values, conditions, places and pairs, four answers | every pair of operators in every position; every alternative that shares a prefix with another; a type that holds itself, a chain of references, a downgrade inside a pair; a value from each kind of expression into each kind of use |
| `parser_generics` | two comparisons as arguments of a call | two are needed for `<` and `>` to pair |
| `compiler_shared` | bodies with two variables, one bound to the value of a block | one block around a variable is enough |
| `ircore` | 3 instructions in one block, or 2 instructions, 2 blocks and an argument; 2 slots | a phi, its user and a terminator; a user with both operands equal; self-use; blocks that refer to each other erased together or one at a time |
| `graph_passes` | every graph on 4 blocks with every DFS order; at most two accesses a block; one phi and one use of it | crossing, back and forward edges, irreducible loops; a loop with an arm, two joins in a row; short-circuit diamonds for which the tree is wrong |
| `graph_passes_sound`, `graph_passes_hang` | acyclic graphs, and functions with an endless arm, on 4 blocks | the smallest counterexamples have 4 blocks |
| `scalar_passes` | families of functions of 4 to 6 blocks or of 4 memory accesses, with every choice of operators and operands in their holes; a loop of one block inside another; callees with a branch, a loop, a call or no return, called once or twice; every call graph of 4 functions with 5 calls | a repeated expression above, beside and below; two loops around each other; a constant found on one way in; a value returned before it is copied |
| `scalar_passes_continue`, `scalar_passes_chain` | two back edges to one header; three functions inlined in a chain | the shapes the passing run leaves out |
| `arithmetic` | words of 4 bits and every width in them; rewrites at 3 bits, two instructions | sign bit, all ones, least value, shift by the width, a width below and at the word's |
| `back_end` | every function of 3 blocks with 2 phis; copies of 4 registers; 2 registers, 3 vregs, 3 instructions and an end, one round of spilling; frames of 3 slots, sizes 1-4, alignments 1-4, 2 saved registers, 2 outgoing words; 3 blocks, sizes 0, 1, 2, 4, branches from -4 to 3 | both sides of a branch into one block, a loop that swaps its phis or feeds one from the other; two cycles at once, fan-out; three live values on two registers, a call across one, a loop, a join written on two paths; padding on both sides of a slot; a springboard that pushes a second branch out of range |

`PROJECT.json` names, for every property, a mutant: a plausible slip in the modelled code, defined
in the module beside the original, under which TLC finds the property violated.

Deadlock is checked where a run has no natural end and switched off where it has: a compiler stops.

### Fairness

The compiler is one thread, and its loops go on while there is work, so weak fairness of
the steps of a loop is what its scheduling gives. It is assumed for three things: the step of the
solver (`Answers`), the rewriting (`RewritesEnd`) and the steps of licm, sccp, inlining and the call
graph (`Ends`). Which element of a list or set is taken next is never assumed fair. Everything
else is safety; termination of relaxation is a bound (`OneSpringboardPerBranch`).

## 4. Findings

Where the code and its own words disagree. The first six are shown by a run of their own; the
others were met while modelling, and the passing runs take inputs without them.

| Source | What | Shown by |
|---|---|---|
| `ir/cfg.rs:157` | `find` returns the root of the union-find tree where the semidominator method needs the label `best`, which is maintained and never used. On 1→{2,3}, 2→{3,4}, 3→4 walked 1,2,4,3 the tree says 2 dominates 4. Value numbering, adce's latches and licm trust it. | `graph_passes_sound` |
| `ir/opt/dce.rs:93` | entry→{b1,b2}, b1 returns, b2→b3, b3→b3: the jump of b2 is neither a latch nor in a frontier, its post-dominator is the added root, and unwrapping that into a block panics. | `graph_passes_hang` |
| `ir/opt/licm.rs:82` | One loop for each back edge: with a `continue`, a load is hoisted out of one although the body of the other stores to its address. | `scalar_passes_continue` |
| `ir/opt/function_inline.rs:319` | The values of the returns are mapped while later instructions are still to be copied: a placeholder that is replaced later stays in the phi behind the call. | `scalar_passes_chain` |
| `ast/generic.rs:41` | `f(a < b, c > d)` is a syntax error: `a<b, c>` is read as a path with arguments. | `parser_generics` |
| `irgen/visitor.rs:381` | `let y = &mut {x};` and `let mut y = {x};` share the memory of `x`: the value of a block is taken for a temporary. | `compiler_shared` |
| `irgen.rs:489` | The last round of `opt_all` runs adce right after sccp: a branch folded there leaves a block the entry does not reach, and `dominates` panics (`ADCE!LatchesAnswered`). | |
| `ir/opt/function_inline.rs:357` | A callee that never returns leaves the uses of the call where they are, and erasing the call panics (`Inline!ErasedUnused`). | |
| `ir/opt/strength.rs:190` | A dividend from an unsigned division, a right shift by 0 or a left shift is taken for positive, and its signed division becomes a shift (`Rewrites!DividendsArePositive`). | |
| `irgen/visitor.rs:1190` | An assignment visits a left side with effects twice (`MCCompiler!AssignedTwice`). | |
| `semantics/analyzer.rs:1796` | `loop { if c { break; } return 1; }` is judged to return, and what follows is dropped; `c && return` leaves a block without a terminator (`BreakThenReturn`, `LazyReturn`). | |
| `semantics/type_solver.rs:91` | An unsuffixed integer and a negative one are joined in one order of the question and refused in the other. | |
| `irgen/visitor.rs:504`, `:1211` | Arguments that are places are read after all arguments were visited, and a compound assignment reads a left side with effects first (`LateArgument`, `LeftFirst`). | |
| `ir/destructor.rs:33` | `(t.1, t.0) = t` reads `t` while it writes it (`OwnParts`). | |
| `irgen/visitor.rs:1056`, `irgen/value.rs:276` | `loop { break (1, 2) }` gives its pair memory for a pointer; `(&&t).0` loads once too often (`PairFromLoop`, `TwoRefs`). | |
| `irgen/visitor.rs:1039` | A `while` whose body ends in a call of a function without a result and no semicolon breaks a debug assertion (`WhileValue`). | |
| `ir/opt/sccp.rs:402` | The address of a constant array is read as its initializer, for which there is no case: a phi over two of them stops the compiler. | |
| `irgen/expr.rs:218` | `return ();` and `return {}` leave a block without a terminator. | |
| `semantics/const_eval.rs:329` | The remainder of unsigned constants is computed with `wrapping_div`. | |
| `ast/` | `x @ p` and `&&x` patterns, trait objects without `dyn` and rest patterns cannot be read; the escaped end of a string is cut (`utils/string.rs:45`); a repeat expression or a field behind a method call is read twice at every level, which is exponential in the depth. | |

## 5. Proofs

`IRCoreProofs` proves, for every set of instructions, blocks, outer values and every
number of slots, each property the run `ircore` checks. The assumptions are
`BoundsAssumption` and `DistinctKeys` (keys of different kinds are different). The
inductive invariant `IInv` is the conjunction of `GraphInv` and `ListInv`. `GraphInv` is
types, shape of operands, exact value uses, sound block uses and no dangling operand; they
need each other: erasing an instruction is safe only because its use list is exact, the
list stays exact only because phi slots above the counter are empty. `ListInv` is the
placement: lists are injective, hold exactly the attached instructions of their kind, and
`parent` points back. There is one lemma per mutator and half of the invariant, and a
lemma per sequence operation in `SequenceLemmas`. `ReplacesAll` is the action property,
from `IInv` before and after a step.

`MCGraphPassesProofs` proves `TreeSpans`, `NoDominanceLost`, `FrontierExact`, `IncomingsMatchEdges` and
`LoadsReadLastStore`, for every finite set of blocks, every graph in which the entry is not a target (`PassesAssumption`), and every order in
which the walk takes the successors. "Above" is stated without recursion: a is above n in a tree
when it is in every set that holds n and is closed under parents (`OnWayUp`). `TreeInv` has
four parts. `Numbered` is what a depth-first walk is good for: parents come before children, an edge
forward leads to a block below, what lies below a block was numbered in one stretch.
`Visiting` says that the frames are the way up from the block the walk is at; it is needed for the
first. `Shapes` are the types. `Built(t)` says what the reverse loop left behind
position t: the disjoint set holds the tree's edges there, each semidominator is the *nearest block
above some predecessor that was numbered earlier*, and a block waits in a bucket only
while the child of its semidominator above it is still to come. From this follow, in this order: what
`find` returns (`FindRoot`), that a semidominator is above its block (`SemiAbove`), that the
lookup through a bucket always gives the parent (`ProcessStep`) and that the last loop
therefore changes nothing (`FixupStep`). So the tree the code builds hangs each block under
its semidominator. That this loses no true dominance needs only that no path leaves the
stretch below a block unseen (`TreeInvDominance`); that it *invents* some is the first finding.
The code collects no frontier for a block with one predecessor: that predecessor is then its idom (`OneWayIn`).
A runner that misses the idom of its join proves that the idom does not dominate the join: if it did it would
dominate the predecessor, and `NoDominanceLost` puts every dominator on the way up.

`IncomingsMatchEdges` adds the renaming to it, for every graph with at most two successors to a block and any accesses
of the alloca. `MemInv` is `TreeInv` while the tree is built (`SameTree`: mem2reg's instance of `DomTree` is the one
above), then `TreeKept`, what the renaming needs of the finished tree: each block is below the entry and no way up
returns. `Renaming` says that the frames are for children of their callers, and that what a frame has left are
children not yet called. The invariant proper is `Incomings`: a phi has one incoming from each block whose call has
begun and none from a block in `ToCome`, those at or below a child some frame has left. `EnterToCome` is the step that
counts: the call takes exactly its own block out of `ToCome`, since what is above one block is linearly ordered
(`WayIsLinear`) and so two children of one block have nothing below in common (`SiblingsApart`). At the last return
`ToCome` is empty.

`LoadsReadLastStore` is the correctness of mem2reg, and holds although the tree may be wrong. `LoadInv` has four parts.

1. *What the tree and the frontier are good for* (`Kept`). Over an edge from p to s, s is in the frontier of every block
   above p that is not above the idom of s, and of every block above p if that idom is not above p (`FrontOK`): a runner
   that misses the idom climbs to the root. The definition of the shared value is above its uses (`DefOK`): SSA form
   speaks of true dominance, and `NoDominanceLost` carries it to the tree. It is proved once, when the tree is done.
2. *The phis are closed under the frontier* (`Placed`): the work list, as a set that grows, has stopped growing after as
   many steps as there are blocks (`GrowthStops`).
3. *The renaming* (`RenameInv(V)`). V[b][k] is what is on top of the value stack in the call for b after k accesses. `Carried`:
   at the start it is the phi of b or what was left in the parent. `Replaced`, `Merged`: loads and incomings took
   it. `Stacked`: the counts of pushes are right, so that after a return the top is what the caller left. `EnterValues`
   extends V by the block of the call; its scan is a recursive function (`ScanFacts`).
4. *The run* (`RunOK(V)`): where the run is, and once something was stored, V[b][k - 1] is a value the variable holds. Three
   lemmas carry it. `EdgeWithoutPhi`: along an edge to a block without a phi V does not change, or nothing is on the stack: the
   blocks between would have s in their frontier, so they neither store nor have a phi. `NotShared`: where the
   shared value is computed anew it is not on top, since no use comes before the definition. `NotItsPhi`: nor is
   the phi of a block on top that has none.

Two definitions of `Mem2Reg` were rewritten for this: the scan and the closure of the work list are
functions over a finite domain, as a fold or a function on all of `Nat` gave no equations to prove with. One assumption was
added: `Undef`, the value of `add_undef_const`, is not the result of an instruction (`UndefAssumption`). `DomTree` and `ADCE`
take `Functions` instead of all of `SequencesExt`, which more than halves the time of the proofs over their instances.

`PhiLoweringProofs` proves `PhisArrive` for any number of blocks and phis. `PhiInv` says of the source what
`FlowOK` says, of each lowered or transit block which edge it is for (`CodeOK`), and of the run
where code and source are when the code is in a transit block (`RunOK`), which `PhisArrive`
alone does not. `ParallelCopyProofs` proves the four properties of the copies for any number of registers.
`CopyInv` is an invariant over the visiting stack: a copy was emitted exactly when its source was visited and
no frame still waits for it, a register written by a plain move has been left, and each fresh register was spent on one
cycle. That the emitted list has the effect of the assignment follows by induction over its length.
`FrameLayoutProofs` proves, for any slots and registers, what `FrameKeepsValues` asks of a frame:
after layout the slots are apart, aligned and above the outgoing arguments, each saved register has its own
(`LaidOut`); through prologue, body and epilogue each home holds what it should (`RunInv`). The proof needs
that of two alignments one divides the other: without it, rounding the frame to the largest would not align it
to the others.

`RegAllocProofs` proves, for any number of registers, any functions (`RegsAssumption`: what is read is
written somewhere, a branch writes nothing) and any number of rounds, that `TypeOK`, `ValuesPreserved` and
`OnlyCandidatesSpill` always hold. `ValuesPreserved` speaks of the run at the end, so the invariant `AllocInv`
must say, rounds earlier and without a run, what makes the run right. That is `Claims`: there are maps R
and M such that R[k][r] are the source registers whose values register or vreg r holds before instruction k, M[k][l] those
whose values spill slot l holds; every instruction reads from registers with the right claims (`Reads`), and makes the
claims of each successor true if its own are (`Carries`). Claims are about every edge, so nothing is said about which path is taken.
The argument has four parts:

1. *Before the first round* every register claims itself (`StartClaims`).
2. *A round of spilling* keeps that there are claims (`SpillClaims`): old claims of a spilled vreg become those of its slot and,
   between a reload and the instruction, of its temporary (`HeldAt`). Most of this part is arithmetic: the places
   of the instructions that stand for one (`SpillingExpands`), that the start of a source
   instruction is found again, so that jumps go to the first reload (`StartOfExpanded`,
   `SuccessorsOfExpanded`), and that temporaries and slots are fresh (`TempsAreFresh`, `SlotsAreFresh`, by `RankIsBijection`).
3. *A colouring* turns claims about vregs into claims about registers (`ColouredClaims`): a register claims
   what the live vregs coloured with it claim. It rests on two facts. `LivenessSolved`: after as many steps as
   there are instructions the liveness equations hold; a chain of subsets of 1..N that grows is
   constant after N steps (`FixpointWithin`). `LiveClashes`: what is live after a write and is not written is a
   neighbour of what is written, or forbids the register. `ColourInv` says that vregs are split among
   `degrees`, stack, coloured and spilled, that coloured neighbours differ, and that a vreg on the stack that is not in
   `pushedHigh` has fewer neighbours *outside the stack below it* than usable registers; when it is popped, by
   counting, one is free (`ColourIsFree`). That is `OnlyCandidatesSpill`.
4. *The run* follows the claims (`RunInv`): some R and M hold of the code, and at `pc` each register and slot
   has the values of the source registers claimed for it (`Holds`). A save through a far slot is right because its scratch register
   is live in no one and differs from the saved one, the conflict of `def_conflict_regs`.

The proof found one thing wrong in the model: `TypeOK` asked that `pushedHigh` be among the vregs of the code also after
the rewriting, when there are none; the run at its bounds never colours a vreg that was pushed high.

`MCBackEndProofs` carries `PhiInv`, `CopyInv`, `AllocInv` and `FrameInv` over to `MCBackEnd`,
where a behaviour is one of a single stage, and proves `PhisKeepValues`, `AllocationKeepsValues` and
`FrameKeepsValues` as they are checked. Relaxation has its variables in `MCBackEnd` itself; the last part of
`MCBackEndProofs` proves, for every number of blocks, every set of code sizes and every branch
range that reaches the instruction itself and the next one, every property of relaxation. `IInv` says that the
ids are a permutation of the positions; a springboard appends the next number, and
dropping a jump changes no id. `LayoutInv` adds which blocks are springboards and of which branch
(`FlowInv`, `Covered`), that the loop ends only when no branch is out of range (`RangeInv`), and
that there are as many springboards as branches led over one (`CountInv`): with it, `FlowPreserved`,
`AllInRange` and `OneSpringboardPerBranch` follow.

The library's induction rules take a
predicate as a parameter, which the provers cannot instantiate; induction is therefore done on sets of
numbers, by `LeastElement` and `InductionOnSet` of `SequenceLemmas`. They give the existence of the recursive
functions the models use (offsets, `find`, the way up a tree, the run of a list of moves), and with it
their defining equations.

Only model-checked: `EffectsKept` and `PhiEdgeKept` of adce, which compare two runs over a tree that may
claim false dominances, on graphs that are reducible and always return, and whose invariant is
still to be found; the properties of the scalar passes, the rewrites and the front end, whose
models use recursive operators or bit operations the prover does not read; and `Answers`, `RewritesEnd` and
`Ends`, which are liveness under fairness. `DominanceSound` and `JumpHasTarget` are false.

## 6. Plan

Done: the core every pass edits, dominance and the passes on it, the scalar passes of
`opt_all`, inlining, folding and rewriting, the stages of lowering that decide whether code that
was right stays right, and of the front end the grammar, the join of types and the path of a
body through analyzer and generator. What could follow:

1. Theorems: a live phi of adce is entered over the same edge; effects are kept.
2. Structs, arrays, indices and methods in `Rust`, `Analyzer` and `IRGen`.
3. Constant evaluation beside `CoreInt`; type layout beside `FrameLayout`.
4. A weight-exact model of the spill loop, to decide whether it always ends.

## 7. Not modelled

Printing, encodings and names (tables and text); the lexer's regular expressions and the conversion
of literals; the choice of the error to report; items, impls, traits, methods, structs and constants
in the analyzer (lookups in tables filled by earlier stages); casts, strings, arrays, the returns of `main` and
`exit`, and results behind a pointer the caller gives in IR generation; the scan that finds the callee-saved registers
a function uses (`mir/lower/regalloc.rs:392`: the frame is given the set); instruction selection (one rule per instruction, without state); type layout; `dce`, which
marks over operands only, `scalar_memcpy`, and `sroa`, which returns before it changes anything because
the type of an alloca is `ptr`; file and command-line handling; the range of `jal` (the code does not check
it either); the weights of the allocator, as described above. `PROJECT.json` says of every
component what is left out.
