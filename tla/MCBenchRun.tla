------------------------------- MODULE MCBenchRun -------------------------------
EXTENDS BenchRun

\* Every scenario on its own, and one that meets what another left behind.
MCSequel ==
    {NoOne} \X Scenarios \cup {<<"backlog", "retry_degradation">>}

===============================================================================
