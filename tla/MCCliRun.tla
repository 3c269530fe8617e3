------------------------------ MODULE MCCliRun ------------------------------
(* Instances of CliRun for TLC. *)
EXTENDS CliRun, TLC

MCScores == {0, 100}
MCSymmetry == Permutations(Runs) \cup Permutations(CaseNames)
=============================================================================
