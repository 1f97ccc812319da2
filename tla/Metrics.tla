--------------------------------- MODULE Metrics ---------------------------------
(***************************************************************************)
(* The worker's Prometheus counters beside the tables they speak of:       *)
(* reliableq_job_attempts_total, whose RETRY_SCHEDULED and DEAD are also   *)
(* reliableq_retries_scheduled_total and reliableq_dead_jobs_total, and    *)
(* reliableq_lease_expirations_reclaimed_total.                            *)
(*                                                                         *)
(* A counter lives in the worker process and is raised after the statement *)
(* it counts has committed; the process may die in between.  One process   *)
(* runs all tasks, and starts again from zero when it dies.                *)
(***************************************************************************)
EXTENDS JobStore

VARIABLES
    tasks,       \* tasks[j][n]: the worker's task of attempt n of job j
    counters,    \* the counters since the process started
    forgotten    \* ghost: what no counter shows, for a death or a lost answer

metricsVars == <<jobs, job_attempts, tasks, counters, forgotten>>

Counted == {"SUCCEEDED", "RETRY_SCHEDULED", "DEAD"}
Counters == Counted \cup {"RECLAIMED"}

Zero == [c \in Counters |-> 0]

\* pc: none; spawned; past its permit; a statement committed that is not counted
\* yet; over.  owes: the counters it is about to raise.
Idle == [pc |-> "none", owes |-> {}]

Attempts == 1 .. MaxBudget

MetricsInit ==
    /\ Init
    /\ tasks = [j \in Jobs |-> [n \in Attempts |-> Idle]]
    /\ counters = Zero
    /\ forgotten = Zero

-------------------------------------------------------------------------------
Raise(count, names) == [c \in Counters |-> IF c \in names THEN count[c] + 1 ELSE count[c]]

Becomes(j, n, pc, owes) == tasks' = [tasks EXCEPT ![j][n] = [pc |-> pc, owes |-> owes]]

\* was_reclaimed is (due.status = 'RUNNING'), the status before the UPDATE.
WasReclaimed(j) == jobs[j].status = "RUNNING"

\* The claim, and a task for each job of the batch.
Claim(batch, limit) ==
    /\ ClaimPendingJobs(batch, limit, {})
    /\ tasks' = [j \in Jobs |->
          IF j \in batch
          THEN [tasks[j] EXCEPT ![FreshToken(j)] =
                   [pc |-> "spawned", owes |-> IF WasReclaimed(j) THEN {"RECLAIMED"} ELSE {}]]
          ELSE tasks[j]]
    /\ UNCHANGED <<counters, forgotten>>

StartTask(j, n) ==
    /\ tasks[j][n].pc = "spawned"
    /\ counters' = Raise(counters, tasks[j][n].owes)
    /\ Becomes(j, n, "running", {})
    /\ UNCHANGED <<jobs, job_attempts, forgotten>>

FinalizeAs(j, n, outcome) ==
    \/ outcome = "SUCCEEDED" /\ FinalizeSuccess(j, n)
    \/ outcome = "RETRY_SCHEDULED" /\ \E code \in ErrorCodes : FinalizeRetryScheduled(j, n, 0, code)
    \/ outcome = "DEAD" /\ \E code \in ErrorCodes : FinalizeDead(j, n, code)

\* Ok(true): committed, and still to be counted.
Commit(j, n) ==
    /\ tasks[j][n].pc = "running"
    /\ \E outcome \in Counted :
          FinalizeAs(j, n, outcome) /\ Becomes(j, n, "committed", {outcome})
    /\ UNCHANGED <<counters, forgotten>>

\* Mutant: the counter is raised whether a row was updated or not.
CountLostLease(j, n) ==
    /\ tasks[j][n].pc = "running"
    /\ ~Holds(j, n)
    /\ \E outcome \in Counted : Becomes(j, n, "committed", {outcome})
    /\ UNCHANGED <<jobs, job_attempts, counters, forgotten>>

\* Ok(false): the lease was lost; logged, and not counted.
LoseLease(j, n) ==
    /\ tasks[j][n].pc = "running"
    /\ ~Holds(j, n)
    /\ Becomes(j, n, "over", {})
    /\ UNCHANGED <<jobs, job_attempts, counters, forgotten>>

\* Err(..): the transaction failed, or committed and the answer was lost.
FailToFinalize(j, n) ==
    /\ tasks[j][n].pc = "running"
    /\ \/ UNCHANGED <<storeVars, forgotten>>
       \/ \E outcome \in Counted :
             FinalizeAs(j, n, outcome) /\ forgotten' = Raise(forgotten, {outcome})
    /\ Becomes(j, n, "over", {})
    /\ UNCHANGED counters

Count(j, n) ==
    /\ tasks[j][n].pc = "committed"
    /\ counters' = Raise(counters, tasks[j][n].owes)
    /\ Becomes(j, n, "over", {})
    /\ UNCHANGED <<jobs, job_attempts, forgotten>>

\* The tasks that owe counter c, each given as <<job, attempt>>, and how many.
Owing(c) == {t \in Jobs \X Attempts : c \in tasks[t[1]][t[2]].owes}
Owed(c)  == Cardinality(Owing(c))

\* The process dies and is started again.
Restart ==
    /\ \E j \in Jobs, n \in Attempts : tasks[j][n].pc \notin {"none", "over"}
    /\ tasks' = [j \in Jobs |-> [n \in Attempts |->
          IF tasks[j][n].pc = "none" THEN Idle ELSE [Idle EXCEPT !.pc = "over"]]]
    /\ counters' = Zero
    /\ forgotten' = [c \in Counters |-> forgotten[c] + counters[c] + Owed(c)]
    /\ UNCHANGED <<jobs, job_attempts>>

\* What is not the worker's business, or not counted here.
Others ==
    /\ \/ \E j \in Jobs, m \in 1 .. MaxBudget : InsertJob(j, m) \/ RetryDeadJob(j, m)
       \/ \E j \in Jobs, n \in Attempts : tasks[j][n].pc = "running" /\ RenewLease(j, n)
       \/ Tick
    /\ UNCHANGED <<tasks, counters, forgotten>>

TaskStep(j, n) ==
    \/ StartTask(j, n)
    \/ Commit(j, n)
    \/ LoseLease(j, n)
    \/ FailToFinalize(j, n)
    \/ Count(j, n)

MetricsNext ==
    \/ \E batch \in SUBSET Jobs, limit \in Limits : Claim(batch, limit)
    \/ \E j \in Jobs, n \in Attempts : TaskStep(j, n)
    \/ Restart
    \/ Others

MetricsSpec == MetricsInit /\ [][MetricsNext]_metricsVars

-------------------------------------------------------------------------------
(* Properties.                                                             *)

\* What the audit trail says ended so.
Recorded(outcome) ==
    {t \in Jobs \X Attempts :
        t[2] \in DOMAIN job_attempts[t[1]] /\ job_attempts[t[1]][t[2]].outcome = outcome}

\* The lost attempts that their job has left behind.
LeftBehind == {t \in Recorded("LEASE_LOST") : t[2] < jobs[t[1]].attempts}

\* The outcome counters and the audit trail agree, across overlapping attempts,
\* lost leases and restarts: each finalization is counted once, or not yet, or
\* forgotten with its process, and what was fenced off is never counted.
OutcomesMatchTrail ==
    \A outcome \in Counted :
        counters[outcome] + Owed(outcome) + forgotten[outcome]
            = Cardinality(Recorded(outcome))

\* operations.md: the reclaim counter shows crash recovery.  Every reclaim it
\* counts is of an attempt whose lease was lost and which stays LEASE_LOST: a
\* late finalization of it can no longer change that.
ReclaimsAreLostLeases ==
    counters["RECLAIMED"] + Owed("RECLAIMED") + forgotten["RECLAIMED"]
        <= Cardinality(LeftBehind)

\* What the worker's counters show is what happened.
CountersMatchTrail == OutcomesMatchTrail /\ ReclaimsAreLostLeases

===============================================================================
