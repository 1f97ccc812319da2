------------------------------ MODULE MCJobStore ------------------------------
(* TLC instance of JobStore.                                               *)
EXTENDS JobStore, TLC

Symmetry == Permutations(Jobs)

===============================================================================
