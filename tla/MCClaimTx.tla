------------------------------- MODULE MCClaimTx -------------------------------
(* TLC instance of ClaimTx.                                                *)
EXTENDS ClaimTx, TLC

Symmetry == Permutations(Jobs) \cup Permutations(Claims)

===============================================================================
