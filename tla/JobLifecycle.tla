----------------------------- MODULE JobLifecycle -----------------------------
(***************************************************************************)
(* What ReliableQ promises of a job (DESIGN.md sec. 1 and 3), without      *)
(* leases, tokens, clocks or SQL: the state machine of one job, and the    *)
(* record of how each of its attempts ended.  JobStore implements it.      *)
(*                                                                         *)
(* How an attempt ended is decided once: when the job leaves RUNNING, or   *)
(* is taken over by the next attempt, in the same step.  No later step     *)
(* touches it.                                                             *)
(***************************************************************************)
EXTENDS Integers

CONSTANT Jobs

VARIABLE life   \* life[j]: [status, attempts, endings], endings[n] for each attempt n

Unsubmitted == [status |-> "ABSENT", attempts |-> 0, endings |-> [n \in 1 .. 0 |-> "RUNNING"]]

Init == life = [j \in Jobs |-> Unsubmitted]

-------------------------------------------------------------------------------
(* The transitions of one job: from life l to life m.                      *)

SameEndings(l, m) == m.attempts = l.attempts /\ m.endings = l.endings

\* The running attempt ends with e; the earlier endings stay.
Ends(l, m, e) ==
    /\ l.status = "RUNNING"
    /\ m.attempts = l.attempts
    /\ \A n \in 1 .. l.attempts :
          m.endings[n] = IF n = l.attempts THEN e ELSE l.endings[n]

\* A new attempt starts; if it takes over, the running one ends as lost.
Starts(l, m) ==
    /\ m.status = "RUNNING"
    /\ m.attempts = l.attempts + 1
    /\ m.endings[m.attempts] = "RUNNING"
    /\ \A n \in 1 .. l.attempts :
          m.endings[n] = IF l.status = "RUNNING" /\ n = l.attempts
                         THEN "LEASE_LOST" ELSE l.endings[n]

Submit(l, m)     == l.status = "ABSENT" /\ m.status = "PENDING" /\ SameEndings(l, m)
Claim(l, m)      == l.status = "PENDING" /\ Starts(l, m)
Reclaim(l, m)    == l.status = "RUNNING" /\ Starts(l, m)
Succeed(l, m)    == m.status = "SUCCEEDED" /\ Ends(l, m, "SUCCEEDED")
Reschedule(l, m) == m.status = "PENDING" /\ Ends(l, m, "RETRY_SCHEDULED")
Bury(l, m)       == m.status = "DEAD" /\ \E e \in {"DEAD", "LEASE_LOST"} : Ends(l, m, e)
Replay(l, m)     == l.status = "DEAD" /\ m.status = "PENDING" /\ SameEndings(l, m)

Step(l, m) ==
    \/ Submit(l, m)
    \/ Claim(l, m)
    \/ Reclaim(l, m)
    \/ Succeed(l, m)
    \/ Reschedule(l, m)
    \/ Bury(l, m)
    \/ Replay(l, m)

\* One claim moves a whole batch of jobs, so several lives may step together.
Next == \A j \in Jobs : life'[j] = life[j] \/ Step(life[j], life'[j])

Spec == Init /\ [][Next]_life

===============================================================================
