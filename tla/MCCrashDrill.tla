------------------------------ MODULE MCCrashDrill ------------------------------
EXTENDS CrashDrill, TLC

CONSTANTS j1, j2

\* Jobs do not differ; workers are told apart by number.
Symmetry == Permutations(Jobs)

Codes == {"DOWNSTREAM_UNREACHABLE", "DOWNSTREAM_REJECTED", "RETRY_BUDGET_EXHAUSTED"}

===============================================================================
