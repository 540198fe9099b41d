------------------------------ MODULE Compiler ------------------------------
(***************************************************************************)
(* A function body on its way through the analyzer and the generator, and  *)
(* a run of the code with what the outside answers.                        *)
(***************************************************************************)
EXTENDS IRGen

CONSTANTS Scripts,    \* what ask may answer, one after another
          Argument    \* of the function

VARIABLES program, phase, generated, answers, seen
cvars == <<program, phase, generated, answers, seen>>

Start(bodies) == program \in bodies /\ phase = "read" /\ generated = <<>> /\ answers = <<>> /\ seen = <<>>

Analyze ==
  /\ phase = "read"
  /\ phase' = IF Accepted(program) THEN "accepted" ELSE "refused"
  /\ UNCHANGED <<program, generated, answers, seen>>
Generate ==
  /\ phase = "accepted"
  /\ phase' = "generated"
  /\ generated' = Generated(program)
  /\ UNCHANGED <<program, answers, seen>>
Run ==
  /\ phase = "generated"
  /\ phase' = "ran"
  /\ \E s \in Scripts : answers' = s /\ seen' = Behaviour(generated, Argument, s)
  /\ UNCHANGED <<program, generated>>

-----------------------------------------------------------------------------
(* The code of an accepted function does what the function means in Rust:  *)
(* the same calls in the same order with the same arguments, and the same  *)
(* end, whatever is answered.                                              *)
SameBehaviour == phase = "ran" => seen = Meaning(program, Argument, answers)

(* Every block control can come to has one terminator, and a phi has one   *)
(* value for every block control comes from, as the IR's consumers and     *)
(* clang require; a second terminator would be taken for an anonymous      *)
(* block.                                                                  *)
BlocksEnd ==
  phase = "generated" =>
    LET reached == Reached(generated, {1})
    IN \A b \in reached :
         /\ Len(generated[b].term) = 1
         /\ \A i \in 1..Len(generated[b].insts) :
              generated[b].insts[i][1] = "phi" =>
                LET from == [n \in DOMAIN generated[b].insts[i][3] |-> generated[b].insts[i][3][n][2]]
                IN {from[n] : n \in DOMAIN from} \cap reached = {a \in reached : b \in Nexts(generated, a)}

(* What is accepted never writes to what was declared immutable, through   *)
(* a reference or not, and no break or continue leaves the function.       *)
AcceptedIsSafe ==
  phase = "accepted" => \A s \in Scripts : Meaning(program, Argument, s).goes \in {"return", "cut"}
=============================================================================
