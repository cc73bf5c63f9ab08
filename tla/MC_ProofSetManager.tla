------------------------- MODULE MC_ProofSetManager -------------------------
(* Model-checking instance of ProofSetManager: the goroutines are model   *)
(* values and interchangeable, so permuting them is a sound symmetry.     *)
EXTENDS ProofSetManager, TLC

ProcSymmetry == Permutations(Procs)

=============================================================================
