------------------------- MODULE MCContinuousResearch -------------------------
(***************************************************************************)
(* Small instances of ContinuousResearch.                                  *)
(***************************************************************************)
EXTENDS ContinuousResearch, TLC

CONSTANTS a, b, c1, c2, r1, r2

\* Cases and runners differ in nothing but their names.
CaseAndRunnerSymmetry == Permutations(Case) \cup Permutations(Runner)

===============================================================================
