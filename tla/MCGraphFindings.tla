--------------------------- MODULE MCGraphFindings ---------------------------
(* The two properties of MCGraphPasses the code does not have, each on the   *)
(* functions that show it most plainly.                                      *)
EXTENDS MCGraphPasses

\* Functions that may loop for ever, and functions without loops.
MayHang == Simplified \ MayReturn
Acyclic == {g \in Branching : \A n \in Vertices : n \notin LeadsTo(g, g[n])}

\* adce alone, on the functions that may loop for ever.
Hang == INSTANCE ADCE WITH
          Blocks <- Vertices, Graphs <- MayHang, phase <- step, tree <- postTree,
          frontier <- postFrontier, at <- block
HangSpec == pass = "adce" /\ Hang!Init /\ NoMem /\ [][PassNext]_allVars

\* The tree alone, on functions without loops.
Loopless     == INSTANCE DomTree WITH Nodes <- Vertices, Graphs <- Acyclic
LooplessSpec == pass = "tree" /\ Loopless!Init /\ NoMem /\ NoDead /\ [][PassNext]_allVars
=============================================================================
