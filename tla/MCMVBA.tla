------------------------------- MODULE MCMVBA -------------------------------
(***************************************************************************)
(* Small instances of MVBA for TLC.                                         *)
(***************************************************************************)
EXTENDS MVBA, TLC

CONSTANTS n1, n2, n3, n4

\* n1 is drawn first, n2 afterwards.
FirstThenSecond == [r \in 0 .. MaxRound |-> IF r = 0 THEN n1 ELSE n2]
FirstTwice == [r \in 0 .. MaxRound |-> IF r <= 1 THEN n1 ELSE n2]
AlwaysFirst == [r \in 0 .. MaxRound |-> n1]

\* Nodes with the same role may be exchanged.
Alike == Permutations((Running \intersect Settled \intersect Correct) \ {Draw[r] : r \in 0 .. MaxRound})
=============================================================================
