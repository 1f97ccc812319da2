------------------------------- MODULE CrashDrill -------------------------------
(***************************************************************************)
(* The drivers that crash workers at the failpoints of                     *)
(* crates/reliableq-worker/src/failpoint.rs, and what they conclude:       *)
(* run_failpoint of the benchmark (one worker, the first attempt of every  *)
(* job crashes at one failpoint) and the seeded chaos suite (workers in    *)
(* rounds, any attempt may crash at any failpoint).  They share the loop   *)
(*     claim; execute the batch one job after the other; when nothing was  *)
(*     claimed, stop if nothing is PENDING or RUNNING, else wait a little  *)
(* and call execute_and_finalize_with_failpoints, which is the body of     *)
(* every worker's task.                                                    *)
(***************************************************************************)
EXTENDS JobStore, Gate

CONSTANTS
    Workers,      \* the workers of the chaos suite: WORKER_COUNT
    Drills,       \* the failpoints a run may be about; "any" for the chaos suite
    Answers,      \* how the charge service may answer in the chaos suite
    Batch,        \* the limit of claim_pending_jobs: 10
    Budget        \* max_attempts of the jobs: 6

Failpoints == {"AfterClaimBeforeEffect", "AfterEffectBeforeFinalize", "DuringFinalize"}

ASSUME DrillAssumption ==
    /\ Drills \subseteq Failpoints \cup {"any"}
    /\ Workers # {} /\ Answers \subseteq {"ok", "transient", "permanent", "ambiguous"}
    /\ Budget \in 1 .. MaxBudget
    /\ Batch \in Limits
    /\ {"DOWNSTREAM_UNREACHABLE", "DOWNSTREAM_REJECTED", "RETRY_BUDGET_EXHAUSTED"}
          \subseteq ErrorCodes

VARIABLES
    drill,       \* the failpoint this run is about
    triggered,   \* CrashFirstAttempt.already_triggered
    loop,        \* "round", "quiescent" (stopped with nothing left) or "late"
    claimed,     \* was anything claimed this round?
    workers,     \* workers[w]: where the worker is in its round
    renewing,    \* heartbeats, and renewals under way when one was aborted
    charged      \* the jobs in the charges table

driverVars == <<drill, triggered, loop, claimed, workers>>
drillVars == <<jobs, job_attempts, driverVars, renewing, charged>>

\* rest: the jobs of the batch still to be executed; task: the one being executed.
AtRest == [pc |-> "rest", rest |-> {}, task |-> NULL, outcome |-> NULL]
Claiming == [AtRest EXCEPT !.pc = "claiming"]

\* The benchmark has one worker, and a service that is never told to fail.
Crew == IF drill = "any" THEN Workers ELSE {CHOOSE w \in Workers : TRUE}
MayAnswer == IF drill = "any" THEN Answers ELSE {"ok"}

\* The head of the loop.
RoundBegins == [w \in Workers |-> IF w \in Crew THEN Claiming ELSE AtRest]

\* insert_job for each job, before the loop.
DrillInit ==
    /\ jobs = [j \in Jobs |-> [NoJob EXCEPT !.status = "PENDING", !.max_attempts = Budget]]
    /\ job_attempts = [j \in Jobs |-> NoAttempts]
    /\ drill \in Drills
    /\ triggered = {}
    /\ loop = "round"
    /\ claimed = FALSE
    /\ workers = RoundBegins
    /\ renewing = {}
    /\ charged = {}

-------------------------------------------------------------------------------
\* What should_trigger may answer.
ShouldTrigger(point, j) ==
    IF drill = "any" THEN BOOLEAN ELSE {point = drill /\ j \notin triggered}

Triggers(point, j) ==
    /\ TRUE \in ShouldTrigger(point, j)
    /\ triggered' = IF drill = "any" THEN triggered ELSE triggered \cup {j}

Moves(w, pc, task, outcome) ==
    workers' = [workers EXCEPT ![w] =
                  [@ EXCEPT !.pc = pc, !.task = task, !.outcome = outcome]]

\* The task returned: on to the next job of the batch.
Returns(w) ==
    Moves(w, IF workers[w].rest = {} THEN "rest" ELSE "next", NULL, NULL)

\* Rows a claim may find locked: those of another worker, or of a renewal.
Lockable(w) ==
    IF \E v \in Workers \ {w} : workers[v].pc # "rest" THEN Jobs ELSE {t.job : t \in renewing}

DrillClaim(w) ==
    /\ workers[w].pc = "claiming"
    /\ \E batch \in SUBSET Jobs, locked \in SUBSET Lockable(w) :
          /\ ClaimPendingJobs(batch, Batch, locked)
          /\ workers' = [workers EXCEPT ![w] =
                [AtRest EXCEPT !.pc = IF batch = {} THEN "rest" ELSE "next",
                               !.rest = {[job |-> j, attempt |-> FreshToken(j),
                                          max_attempts |-> jobs[j].max_attempts] : j \in batch}]]
          /\ claimed' = (claimed \/ batch # {})
    /\ UNCHANGED <<drill, triggered, loop, renewing, charged>>

\* The next job of the batch, up to its call.
TakeNext(w) == \E t \in workers[w].rest :
    /\ workers[w].pc = "next"
    /\ workers' = [workers EXCEPT ![w] =
                     [@ EXCEPT !.pc = "begun", !.task = t, !.rest = workers[w].rest \ {t}]]
    /\ UNCHANGED <<jobs, job_attempts, drill, triggered, loop, claimed, renewing, charged>>

CrashAfterClaim(w) ==
    /\ workers[w].pc = "begun"
    /\ Triggers("AfterClaimBeforeEffect", workers[w].task.job)
    /\ Returns(w)
    /\ UNCHANGED <<jobs, job_attempts, drill, loop, claimed, renewing, charged>>

\* spawn_heartbeat, and the request.
StartCall(w) ==
    /\ workers[w].pc = "begun"
    /\ FALSE \in ShouldTrigger("AfterClaimBeforeEffect", workers[w].task.job)
    /\ Moves(w, "calling", workers[w].task, NULL)
    /\ renewing' = renewing \cup {workers[w].task}
    /\ UNCHANGED <<jobs, job_attempts, drill, triggered, loop, claimed, charged>>

Calling(t) == \E w \in Workers : workers[w].pc = "calling" /\ workers[w].task = t

\* Zero rows updated: the lease is lost, and nothing happens.
LeaseGone(t) == ~Holds(t.job, t.attempt) /\ UNCHANGED storeVars

\* One renewal.  Of an aborted heartbeat only the renewal under way is left.
Renew(t) ==
    /\ t \in renewing
    /\ \/ RenewLease(t.job, t.attempt)
       \/ LeaseGone(t)
    /\ renewing' = IF Calling(t) /\ Holds(t.job, t.attempt) THEN renewing ELSE renewing \ {t}
    /\ UNCHANGED <<driverVars, charged>>

\* The answer, or none; heartbeat.abort().  Only "ok" says what became of the
\* charge, and an INSERT under an existing key changes nothing.
Answer(w) ==
    LET t == workers[w].task IN
    /\ workers[w].pc = "calling"
    /\ \E outcome \in MayAnswer :
          /\ Moves(w, "answered", t, outcome)
          /\ charged' \in {charged \cup {t.job}} \cup (IF outcome = "ok" THEN {} ELSE {charged})
    /\ renewing' \in {renewing, renewing \ {t}}
    /\ UNCHANGED <<jobs, job_attempts, drill, triggered, loop, claimed>>

CrashAfterEffect(w) ==
    /\ workers[w].pc = "answered"
    /\ workers[w].outcome = "ok"
    /\ Triggers("AfterEffectBeforeFinalize", workers[w].task.job)
    /\ Returns(w)
    /\ UNCHANGED <<jobs, job_attempts, drill, loop, claimed, renewing, charged>>

PassesEffect(w) ==
    workers[w].outcome = "ok" =>
        FALSE \in ShouldTrigger("AfterEffectBeforeFinalize", workers[w].task.job)

IsRetryable(outcome) == outcome \in {"transient", "ambiguous"}
FailureCode(outcome) ==
    IF outcome = "ambiguous" THEN "DOWNSTREAM_UNREACHABLE" ELSE "DOWNSTREAM_REJECTED"
DeadReason(outcome) ==
    IF IsRetryable(outcome) THEN "RETRY_BUDGET_EXHAUSTED" ELSE FailureCode(outcome)

\* The failpoint still finalizes, and has two finalizations to choose from: a
\* success is one, and every failure is DEAD.
CrashDuringFinalize(w) ==
    LET t == workers[w].task
        outcome == workers[w].outcome
    IN
    /\ workers[w].pc = "answered"
    /\ PassesEffect(w)
    /\ Triggers("DuringFinalize", t.job)
    /\ \/ outcome = "ok" /\ FinalizeSuccess(t.job, t.attempt)
       \/ outcome # "ok" /\ FinalizeDead(t.job, t.attempt, DeadReason(outcome))
       \/ LeaseGone(t)
    /\ Returns(w)
    /\ UNCHANGED <<drill, loop, claimed, renewing, charged>>

\* The three arms of every other execution.
FinalizeTask(w) ==
    LET t == workers[w].task
        outcome == workers[w].outcome
        again == IsRetryable(outcome) /\ t.attempt < t.max_attempts
    IN
    /\ workers[w].pc = "answered"
    /\ PassesEffect(w)
    /\ FALSE \in ShouldTrigger("DuringFinalize", t.job)
    /\ \/ outcome = "ok" /\ FinalizeSuccess(t.job, t.attempt)
       \/ again /\ \E delay \in 0 .. MaxDelay :
             FinalizeRetryScheduled(t.job, t.attempt, delay, FailureCode(outcome))
       \/ outcome # "ok" /\ ~again /\ FinalizeDead(t.job, t.attempt, DeadReason(outcome))
       \/ LeaseGone(t)
    /\ Returns(w)
    /\ UNCHANGED <<drill, triggered, loop, claimed, renewing, charged>>

-------------------------------------------------------------------------------
RoundOver == loop = "round" /\ \A w \in Workers : workers[w].pc = "rest"

\* Mutant: quiescence judged by what is left to claim.
NothingPending == \A j \in Jobs : jobs[j].status # "PENDING"

NothingLeft == \A j \in Jobs : ~Active(j)

\* A round that claimed nothing ends the loop when nothing is left, and is
\* otherwise followed by a short sleep, whose length nothing depends on.
EndRound ==
    /\ RoundOver
    /\ IF ~claimed /\ NothingLeft
       THEN loop' = "quiescent" /\ UNCHANGED workers
       ELSE loop' = loop /\ workers' = RoundBegins
    /\ claimed' = FALSE
    /\ UNCHANGED <<jobs, job_attempts, drill, triggered, renewing, charged>>

\* QUIESCENCE_DEADLINE, or MAX_ROUNDS, read at the head of the loop.
PassDeadline ==
    /\ loop = "round"
    /\ workers = RoundBegins
    /\ loop' = "late"
    /\ UNCHANGED <<jobs, job_attempts, drill, triggered, claimed, workers, renewing, charged>>

WorkerStep(w) ==
    \/ DrillClaim(w)
    \/ TakeNext(w)
    \/ CrashAfterClaim(w)
    \/ StartCall(w)
    \/ Answer(w)
    \/ CrashAfterEffect(w)
    \/ CrashDuringFinalize(w)
    \/ FinalizeTask(w)

RenewalStep == \E t \in renewing : Renew(t)

TimePasses == Tick /\ UNCHANGED <<driverVars, renewing, charged>>

DrillNext ==
    \/ \E w \in Workers : WorkerStep(w)
    \/ RenewalStep
    \/ EndRound
    \/ PassDeadline
    \/ TimePasses

DrillSpec == DrillInit /\ [][DrillNext]_drillVars

-------------------------------------------------------------------------------
(* What the run reports.                                                   *)

SucceededTwice ==
    {j \in Jobs : \E m, n \in DOMAIN job_attempts[j] :
        m # n /\ job_attempts[j][m].outcome = "SUCCEEDED" /\ job_attempts[j][n].outcome = "SUCCEEDED"}

\* UNIQUE (idempotency_key) leaves no key with two charges.
Evidence ==
    [tracked |-> Jobs, found |-> {j \in Jobs : jobs[j].status # "ABSENT"},
     terminal |-> {j \in Jobs : jobs[j].status \in Terminal},
     expect_all_terminal |-> loop = "quiescent",
     over_budget |-> {j \in Jobs : jobs[j].attempts > jobs[j].max_attempts},
     charged_twice |-> {}, succeeded_twice |-> SucceededTwice,
     capacity |-> Unknown, peak |-> Unknown]

\* A drill that stopped, wherever crashes and lost leases left its jobs, passes
\* the gate - also the one that ran out of time, of which less is asked.
GatePasses == loop # "round" => Passed(Evidence)

\* With a healthy service a crash costs its job exactly one attempt, and is
\* followed by exactly one more: no crash loses a job, charges without
\* succeeding, or is repeated.  A crash after the finalization costs none.
CrashCostsOneAttempt ==
    loop = "quiescent" /\ drill # "any" => \A j \in Jobs :
        /\ jobs[j].status = "SUCCEEDED" /\ j \in charged
        /\ IF drill = "DuringFinalize" THEN jobs[j].attempts = 1
           ELSE jobs[j].attempts = 2 /\ job_attempts[j][1].outcome = "LEASE_LOST"

===============================================================================
