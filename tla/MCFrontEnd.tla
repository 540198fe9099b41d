----------------------------- MODULE MCFrontEnd -----------------------------
(* The parser on trees and on sequences of tokens, the type solver on two    *)
(* questions about four types, and function bodies on their way through the  *)
(* analyzer and the generator.  `part` says which one a behaviour is of.     *)
EXTENDS MCParser

CONSTANTS Keys, Never, TypeNames, NoName, Signed, Unsigned, Others,   \* TypeSolver
          MaxAsked, k1, k2, k3, k4,                                    \* MCTypeSolver
          MaxRounds, MaxEvents, MaxSteps, MaxAnswers, Argument         \* Compiler

VARIABLES
  part,
  given, root, value, work, downgrade, outcome, asked,   \* TypeSolver
  program, phase, generated, answers, seen                        \* Compiler

\* What ask() answers, one after another.
Scripts == [1..MaxAnswers -> BOOLEAN]

Solver == INSTANCE MCTypeSolver
Compiler == INSTANCE MCCompiler

parserVars == <<vars, written>>
solverVars == <<given, root, value, work, downgrade, outcome, asked>>
compilerVars == <<program, phase, generated, answers, seen>>
allVars == <<part, parserVars, solverVars, compilerVars>>

ParserIdle == toks = <<>> /\ iter = 0 /\ items = <<>> /\ status = "error" /\ written = None0
SolverIdle ==
  /\ given = <<>> /\ root = <<>> /\ value = <<>> /\ work = <<>>
  /\ downgrade = FALSE /\ outcome = "error" /\ asked = {}
CompilerIdle == program = <<>> /\ phase = "idle" /\ generated = <<>> /\ answers = <<>> /\ seen = <<>>

FrontInit ==
  \/ part = "compiler" /\ Compiler!MCInit /\ ParserIdle /\ SolverIdle
  \/ part = "solver" /\ Solver!MCInit /\ ParserIdle /\ CompilerIdle
  \/ part = "parser" /\ MCInit /\ SolverIdle /\ CompilerIdle

FrontNext ==
  /\ UNCHANGED part
  /\ \/ part = "compiler" /\ Compiler!MCNext /\ UNCHANGED <<parserVars, solverVars>>
     \/ part = "solver" /\ Solver!MCNext /\ UNCHANGED <<parserVars, compilerVars>>
     \/ part = "parser" /\ MCNext /\ UNCHANGED <<solverVars, compilerVars>>

\* The solver answers one question before another is asked.
FrontSpec == FrontInit /\ [][FrontNext]_allVars /\ WF_solverVars(part = "solver" /\ Solver!Step)

-----------------------------------------------------------------------------
\* However many joins a type took part in, what it stands for is what it could
\* become (TypeSolver, unify_values).
MembersFit == part = "solver" => Solver!MembersFit

\* Joined is what had to be joined, through everything inside, and nothing else
\* (TypeSolver, eq).
ClosureExact == part = "solver" => Solver!ClosureExact

\* What the solver refuses cannot be one type (TypeSolver, unify_values).
RefusalsExplained == part = "solver" => Solver!RefusalsExplained

\* Every question to the solver is answered, of types that hold themselves too.
Answers == Solver!Answers

\* The code of an accepted body does what the body means in Rust (Compiler).
SameBehaviour == part = "compiler" => Compiler!SameBehaviour

\* Blocks have one terminator, and phis one value for every way in (Compiler).
BlocksEnd == part = "compiler" => Compiler!BlocksEnd

\* Nothing immutable is written to, and no break leaves the function (Compiler).
AcceptedIsSafe == part = "compiler" => Compiler!AcceptedIsSafe
=============================================================================
