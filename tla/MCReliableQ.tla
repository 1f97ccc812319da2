----------------------------- MODULE MCReliableQ ------------------------------
(* TLC instances of ReliableQ.                                             *)
EXTENDS ReliableQ, TLC

WorkerCodes == {Unreachable, Rejected, Exhausted}

Symmetry == Permutations(Jobs)

===============================================================================
