---------------------------------- MODULE Gate ----------------------------------
(***************************************************************************)
(* The correctness gate of crates/reliableq-bench/src/correctness.rs: the  *)
(* checks a scenario's result must pass.  `e` is what the gate goes by:    *)
(* the fields of GateInput and the answers of its queries, each query that *)
(* counts given as the set it counts.                                      *)
(***************************************************************************)
EXTENDS Integers, FiniteSets

\* An absent Option, and no number: no workers ran, or the peak was not read.
Unknown == -1

AllFound(e)       == Cardinality(e.found) = Cardinality(e.tracked)
AllTerminal(e)    == e.expect_all_terminal => e.found \subseteq e.terminal
WithinBudget(e)   == e.over_budget = {}
OneChargeEach(e)  == e.charged_twice = {}
OneSuccessEach(e) == e.succeeded_twice = {}
WithinCapacity(e) == Unknown \notin {e.capacity, e.peak} => e.peak <= e.capacity

Passed(e) ==
    /\ AllFound(e)
    /\ AllTerminal(e)
    /\ WithinBudget(e)
    /\ OneChargeEach(e)
    /\ OneSuccessEach(e)
    /\ WithinCapacity(e)

===============================================================================
