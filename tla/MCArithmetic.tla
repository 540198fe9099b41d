---------------------------- MODULE MCArithmetic ----------------------------
(* Constant folding on a register, through every sequence of operations, and *)
(* the rewriting of two instructions on numbers of three bits in the same    *)
(* word of four: a conversion has somewhere to go on both sides.  `part`     *)
(* says which one a behaviour is of.                                         *)
EXTENDS Rewrites

VARIABLES part, x, exact, asked

allVars == <<part, vars, x, exact, asked>>

MCFirst  == BinaryOps \cup {"ult", "sle", "phi", "select", "load"} \cup Casts
MCSecond == (BinaryOps \ {"add"}) \cup {"slt", "phi", "select"} \cup Casts

Register == INSTANCE IntRegister

PartInit ==
  \/ /\ part = "register" /\ Register!Init
     /\ source = <<>> /\ insts = <<>> /\ result = <<>> /\ work = {} /\ pass = "done" /\ reduced = {}
  \/ part = "rewrites" /\ Init /\ x = None /\ exact = 0 /\ asked = None

PartNext ==
  \/ part = "register" /\ Register!Next /\ UNCHANGED <<part, vars>>
  \/ part = "rewrites" /\ Next /\ UNCHANGED <<part, x, exact, asked>>

\* The passes are loops of one thread: they go on while there is work.
PartSpec == PartInit /\ [][PartNext]_allVars /\ WF_vars(part = "rewrites" /\ Next)

-----------------------------------------------------------------------------
\* Through any sequence of folds, truncations and extensions the register holds
\* what the machine would have computed, comparisons say what is true, and a
\* fold fails exactly where there is no value (CoreInt, fold_binary_const).
FoldsAreExact ==
  part = "register" => /\ Register!TypeOK
                       /\ Register!FoldsAreExact
                       /\ Register!ComparisonsAreTrue
                       /\ Register!FailsWhereUndefined

\* Both passes of the rewriting come to an end.
RewritesEnd == <>(part = "rewrites" => pass = "done")

\* The rewritten instructions return what they returned before.
ResultsKept == part = "rewrites" => TypeOK /\ ResultKept

\* The worklist leaves nothing that can still be simplified.
NothingSimpler == part = "rewrites" => NothingLeft
=============================================================================
