------------------------------- MODULE JobStore -------------------------------
(***************************************************************************)
(* The job repository: the `jobs` and `job_attempts` tables of             *)
(* migrations/0001_init_schema.sql and the guarded transactions of         *)
(* crates/reliableq-db/src/jobs.rs that are their only writers.  One       *)
(* action is one committed transaction.                                    *)
(*                                                                         *)
(* Here the callers are the most general ones: any lease token ever handed *)
(* out may be presented again at any time, so a worker that lost its lease *)
(* long ago is always a possible caller.  Module ReliableQ replaces them   *)
(* by the real workers and operators.                                      *)
(*                                                                         *)
(* Time.  Every timestamp is kept relative to the database clock: its      *)
(* value is (timestamp - now()), so `ts <= now()` reads `ts <= 0`, and     *)
(* Tick ages all of them together.  Ages saturate, which keeps the state   *)
(* finite although the clock never stops.                                  *)
(***************************************************************************)
EXTENDS Null, FiniteSets

CONSTANTS
    Jobs,            \* the job ids clients may submit
    MaxBudget,       \* bound on max_attempts, and so on attempts
    LeaseDuration,   \* WORKER_LEASE_DURATION in ticks
    MaxDelay,        \* largest delay retry_policy.delay can return, in ticks
    Horizon,         \* overdue times further in the past than this are ties
    ErrorCodes,      \* the codes workers report: DOWNSTREAM_UNREACHABLE, ...
    Limits           \* batch sizes a claim may be called with

ASSUME BudgetAssumption   == MaxBudget \in Nat \ {0}
ASSUME TimeAssumption     == /\ LeaseDuration \in Nat \ {0}
                             /\ MaxDelay \in Nat
                             /\ Horizon \in Nat
ASSUME CodesAssumption    == /\ NULL \notin ErrorCodes
                             /\ "LEASE_EXPIRED_BUDGET_EXHAUSTED" \notin ErrorCodes
                             /\ NULL # "LEASE_EXPIRED_BUDGET_EXHAUSTED"
ASSUME LimitsAssumption   == Limits \subseteq Nat \ {0}
ASSUME JobsAssumption     == IsFiniteSet(Jobs)

VARIABLES
    jobs,            \* jobs[j]: the row of job j; status "ABSENT" when there is none
    job_attempts     \* job_attempts[j]: attempt_number -> row, for job j

storeVars == <<jobs, job_attempts>>

-------------------------------------------------------------------------------
Statuses == {"ABSENT", "PENDING", "RUNNING", "SUCCEEDED", "DEAD"}

Terminal == {"SUCCEEDED", "DEAD"}

\* outcome NULL: the attempt is still open.
Outcomes == {"OPEN", "SUCCEEDED", "RETRY_SCHEDULED", "DEAD", "LEASE_LOST"}

LeaseExhausted == "LEASE_EXPIRED_BUDGET_EXHAUSTED"

JobRow ==
    [status           : Statuses,
     attempts         : 0 .. MaxBudget,
     max_attempts     : 0 .. MaxBudget,
     next_attempt_at  : -Horizon .. MaxDelay,
     lease_token      : 1 .. MaxBudget \cup {NULL},
     lease_expires_at : 0 .. LeaseDuration \cup {NULL},
     last_error_code  : ErrorCodes \cup {NULL, LeaseExhausted},
     finished         : BOOLEAN]

AttemptRow ==
    [lease_token : 1 .. MaxBudget,
     outcome     : Outcomes,
     error_code  : ErrorCodes \cup {NULL}]

NoJob ==
    [status |-> "ABSENT", attempts |-> 0, max_attempts |-> 0,
     next_attempt_at |-> 0, lease_token |-> NULL, lease_expires_at |-> NULL,
     last_error_code |-> NULL, finished |-> FALSE]

NoAttempts == [n \in {} |-> NULL]

Init ==
    /\ jobs = [j \in Jobs |-> NoJob]
    /\ job_attempts = [j \in Jobs |-> NoAttempts]

-------------------------------------------------------------------------------
(* Reading the tables.                                                     *)

LeaseExpired(j) == jobs[j].status = "RUNNING" /\ jobs[j].lease_expires_at <= 0

\* Mutant: off by one, as `attempts <= max_attempts` in the claim would be.
HasBudgetOffByOne(j) == jobs[j].attempts <= jobs[j].max_attempts

HasBudget(j) == jobs[j].attempts < jobs[j].max_attempts

\* Mutant: step 3 of the claim without `lease_expires_at <= now()`.
DueWhileLeased(j) ==
    HasBudget(j) /\ (jobs[j].status = "RUNNING" \/ jobs[j].next_attempt_at <= 0)
    /\ jobs[j].status \in {"PENDING", "RUNNING"}

Due(j) ==
    /\ HasBudget(j)
    /\ \/ jobs[j].status = "PENDING" /\ jobs[j].next_attempt_at <= 0
       \/ LeaseExpired(j)

\* Mutant: the statements guarded by the status alone.
HoldsAnyToken(j, token) == jobs[j].status = "RUNNING" /\ token \in DOMAIN job_attempts[j]

\* The fencing predicate of every lease-touching statement.  It does not look
\* at lease_expires_at: an expired lease nobody reclaimed is still held.
Holds(j, token) ==
    jobs[j].status = "RUNNING" /\ jobs[j].lease_token = token

\* gen_random_uuid(): a token never used before for this job.  Attempt numbers
\* only grow, so the number of the attempt being started is such a value.
FreshToken(j) == jobs[j].attempts + 1

InsertAttempt(rows, n, token) ==
    [m \in DOMAIN rows \cup {n} |->
        IF m = n
        THEN [lease_token |-> token, outcome |-> "OPEN", error_code |-> NULL]
        ELSE rows[m]]

\* Mutant: the UPDATE without `AND lease_token = $4`.
CloseEveryAttempt(rows, token, outcome) ==
    [n \in DOMAIN rows |-> [rows[n] EXCEPT !.outcome = outcome]]

\* UPDATE job_attempts ... WHERE job_id = j AND lease_token = token: whatever
\* outcome the row already has is overwritten.
CloseAttempt(rows, token, outcome) ==
    [n \in DOMAIN rows |->
        IF rows[n].lease_token = token
        THEN [rows[n] EXCEPT !.outcome = outcome]
        ELSE rows[n]]

FailAttempt(rows, token, outcome, code) ==
    [n \in DOMAIN rows |->
        IF rows[n].lease_token = token
        THEN [rows[n] EXCEPT !.outcome = outcome, !.error_code = code]
        ELSE rows[n]]

\* Mutant: a claim without step 1.
LeaveOpenAttempts(rows) == rows

\* Claim, step 1: an attempt still open when its lease expired was lost.
LoseOpenAttempts(rows) ==
    [n \in DOMAIN rows |->
        IF rows[n].outcome = "OPEN"
        THEN [rows[n] EXCEPT !.outcome = "LEASE_LOST"]
        ELSE rows[n]]

\* Mutant: lease_expires_at = NULL forgotten.
ReleasedTokenOnly(row, status) ==
    [row EXCEPT !.status = status, !.lease_token = NULL]

Released(row, status) ==
    [row EXCEPT !.status = status, !.lease_token = NULL, !.lease_expires_at = NULL]

-------------------------------------------------------------------------------
(* The transactions.                                                       *)

InsertJob(j, max_attempts) ==
    /\ jobs[j].status = "ABSENT"
    /\ jobs' = [jobs EXCEPT ![j] =
                  [NoJob EXCEPT !.status = "PENDING", !.max_attempts = max_attempts]]
    /\ UNCHANGED job_attempts

\* Mutants: step 2 without its budget condition, and no step 2 at all.
ExhaustEveryExpired(locked) == {j \in Jobs \ locked : LeaseExpired(j)}
ExhaustNothing(locked)      == {}

\* Step 2 of the claim.  `locked` are the rows some other transaction has
\* locked at that instant: SKIP LOCKED passes over them.
ClaimExhausted(locked) ==
    {j \in Jobs \ locked : LeaseExpired(j) /\ ~HasBudget(j)}

\* Step 3 takes the first `limit` rows by next_attempt_at.  Rows with equal
\* times are ordered by created_at, which is not kept: any order is allowed.
IsClaimBatch(batch, candidates, limit) ==
    /\ batch \subseteq candidates
    /\ Cardinality(batch) <= limit
    /\ batch # candidates => Cardinality(batch) = limit
    /\ \A c \in batch, d \in candidates \ batch :
          jobs[c].next_attempt_at <= jobs[d].next_attempt_at

RowAfterClaim(j, dead, batch) ==
    CASE j \in dead ->
           [Released(jobs[j], "DEAD") EXCEPT
              !.last_error_code = LeaseExhausted, !.finished = TRUE]
      [] j \in batch ->
           [jobs[j] EXCEPT
              !.status = "RUNNING", !.attempts = FreshToken(j),
              !.lease_token = FreshToken(j), !.lease_expires_at = LeaseDuration]
      [] OTHER -> jobs[j]

\* Step 1 closes the open attempts of every expired job, claimed or not.
TrailAfterClaim(j, batch) ==
    LET settled == IF LeaseExpired(j) THEN LoseOpenAttempts(job_attempts[j])
                   ELSE job_attempts[j]
    IN  IF j \in batch THEN InsertAttempt(settled, FreshToken(j), FreshToken(j))
        ELSE settled

ClaimPendingJobs(batch, limit, locked) ==
    /\ IsClaimBatch(batch, {j \in Jobs \ locked : Due(j)}, limit)
    /\ \A j \in batch : FreshToken(j) \notin DOMAIN job_attempts[j]
    /\ jobs' = [j \in Jobs |-> RowAfterClaim(j, ClaimExhausted(locked), batch)]
    /\ job_attempts' = [j \in Jobs |-> TrailAfterClaim(j, batch)]

FinalizeSuccess(j, token) ==
    /\ Holds(j, token)
    /\ jobs' = [jobs EXCEPT ![j] =
                  [Released(@, "SUCCEEDED") EXCEPT
                     !.last_error_code = NULL, !.finished = TRUE]]
    /\ job_attempts' = [job_attempts EXCEPT ![j] =
                          CloseAttempt(@, token, "SUCCEEDED")]

FinalizeRetryScheduled(j, token, delay, code) ==
    /\ Holds(j, token)
    /\ jobs' = [jobs EXCEPT ![j] =
                  [Released(@, "PENDING") EXCEPT
                     !.next_attempt_at = delay, !.last_error_code = code]]
    /\ job_attempts' = [job_attempts EXCEPT ![j] =
                          FailAttempt(@, token, "RETRY_SCHEDULED", code)]

FinalizeDead(j, token, code) ==
    /\ Holds(j, token)
    /\ jobs' = [jobs EXCEPT ![j] =
                  [Released(@, "DEAD") EXCEPT
                     !.last_error_code = code, !.finished = TRUE]]
    /\ job_attempts' = [job_attempts EXCEPT ![j] =
                          FailAttempt(@, token, "DEAD", code)]

RenewLease(j, token) ==
    /\ Holds(j, token)
    /\ jobs' = [jobs EXCEPT ![j].lease_expires_at = LeaseDuration]
    /\ UNCHANGED job_attempts

\* Mutants: a replay that starts counting again, and one of any finished job.
RetryFromScratch(j, new_max_attempts) ==
    /\ jobs[j].status = "DEAD"
    /\ jobs' = [jobs EXCEPT ![j] =
                  [NoJob EXCEPT !.status = "PENDING", !.max_attempts = new_max_attempts]]
    /\ UNCHANGED job_attempts
RetryFinishedJob(j, new_max_attempts) ==
    /\ jobs[j].status \in Terminal
    /\ jobs[j].attempts <= new_max_attempts
    /\ jobs' = [jobs EXCEPT ![j].status = "PENDING", ![j].finished = FALSE,
                            ![j].max_attempts = new_max_attempts]
    /\ UNCHANGED job_attempts

\* An operator's replay.  The statement trusts new_max_attempts; the CHECK
\* constraint jobs_attempts_within_budget makes it fail below attempts.
RetryDeadJob(j, new_max_attempts) ==
    /\ jobs[j].status = "DEAD"
    /\ jobs[j].attempts <= new_max_attempts
    /\ jobs' = [jobs EXCEPT ![j] =
                  [Released(@, "PENDING") EXCEPT
                     !.next_attempt_at = 0, !.last_error_code = NULL,
                     !.finished = FALSE, !.max_attempts = new_max_attempts]]
    /\ UNCHANGED job_attempts

\* One tick of the database clock.  A terminal job's next_attempt_at is read by
\* nothing before the replay that overwrites it, so it is left where it is.
Active(j) == jobs[j].status \in {"PENDING", "RUNNING"}

Aged(time, floor) == IF time > floor THEN time - 1 ELSE floor

Tick ==
    /\ jobs' = [j \in Jobs |->
          [jobs[j] EXCEPT
             !.next_attempt_at = IF Active(j) THEN Aged(@, -Horizon) ELSE @,
             !.lease_expires_at = IF @ = NULL THEN NULL ELSE Aged(@, 0)]]
    /\ UNCHANGED job_attempts

-------------------------------------------------------------------------------
Next ==
    \/ \E j \in Jobs, m \in 1 .. MaxBudget : InsertJob(j, m)
    \/ \E batch, locked \in SUBSET Jobs, limit \in Limits :
          ClaimPendingJobs(batch, limit, locked)
    \/ \E j \in Jobs, token \in 1 .. MaxBudget :
          \/ FinalizeSuccess(j, token)
          \/ \E delay \in 0 .. MaxDelay, code \in ErrorCodes :
                FinalizeRetryScheduled(j, token, delay, code)
          \/ \E code \in ErrorCodes : FinalizeDead(j, token, code)
          \/ RenewLease(j, token)
    \/ \E j \in Jobs, m \in 1 .. MaxBudget : RetryDeadJob(j, m)
    \/ Tick

Spec == Init /\ [][Next]_storeVars

-------------------------------------------------------------------------------
(* Properties.                                                             *)

\* Every row has the columns, and every column a value, the schema allows.
TypeOK ==
    /\ jobs \in [Jobs -> JobRow]
    /\ DOMAIN job_attempts = Jobs
    /\ \A j \in Jobs :
          /\ DOMAIN job_attempts[j] \subseteq 1 .. MaxBudget
          /\ \A n \in DOMAIN job_attempts[j] : job_attempts[j][n] \in AttemptRow

\* No transaction is ever aborted by a CHECK of 0001_init_schema.sql (a claim
\* or a finalization that kept failing on one would be retried for ever):
\* whatever was committed satisfies all of them.
ChecksHold ==
    \A j \in Jobs :
        LET row == jobs[j] IN
        /\ row.status # "ABSENT" => row.max_attempts >= 1
        /\ row.attempts <= row.max_attempts
        /\ (row.lease_token = NULL) = (row.lease_expires_at = NULL)
        /\ (row.lease_token = NULL) = (row.status # "RUNNING")
        /\ row.finished = (row.status \in Terminal)

\* The audit trail has exactly one row per attempt ever counted, numbered from
\* 1 without a gap, across reclaims and operator replays: the unique
\* constraint can therefore never abort a claim.  Each row keeps the token its
\* attempt ran under, and the live token is the newest one.
TrailComplete ==
    \A j \in Jobs :
        /\ DOMAIN job_attempts[j] = 1 .. jobs[j].attempts
        /\ \A n \in DOMAIN job_attempts[j] : job_attempts[j][n].lease_token = n
        /\ jobs[j].lease_token \in {NULL, jobs[j].attempts}

\* What the job row says and what the audit trail says agree.  In particular
\* no attempt is left open once its job left RUNNING or was reclaimed, and a
\* job has a SUCCEEDED attempt exactly when it SUCCEEDED: its last one.
LastOutcomes(status) ==
    CASE status = "RUNNING"   -> {"OPEN", "LEASE_LOST"}
      [] status = "SUCCEEDED" -> {"SUCCEEDED"}
      [] status = "DEAD"      -> {"DEAD", "LEASE_LOST"}
      [] status = "PENDING"   -> {"RETRY_SCHEDULED", "DEAD", "LEASE_LOST"}
      [] OTHER                -> {}

TrailMatchesStatus ==
    \A j \in Jobs : \A n \in DOMAIN job_attempts[j] :
        job_attempts[j][n].outcome \in
            IF n = jobs[j].attempts
            THEN LastOutcomes(jobs[j].status)
            ELSE {"RETRY_SCHEDULED", "DEAD", "LEASE_LOST"}

\* A DEAD job says truthfully why: either its last attempt was finalized as
\* DEAD with that very code, or its last lease was lost with no budget left.
DeadIsExplained ==
    \A j \in Jobs : jobs[j].status = "DEAD" =>
        LET last == job_attempts[j][jobs[j].attempts] IN
        /\ jobs[j].attempts >= 1
        /\ \/ last.outcome = "DEAD" /\ last.error_code = jobs[j].last_error_code
           \/ /\ last.outcome = "LEASE_LOST"
              /\ jobs[j].last_error_code = LeaseExhausted
              /\ jobs[j].attempts = jobs[j].max_attempts

\* The invariants above, which are inductive together.
StoreInv ==
    TypeOK /\ ChecksHold /\ TrailComplete /\ TrailMatchesStatus /\ DeadIsExplained

\* The attempts of a job as its life sees them: the attempt holding the job is
\* still running, even when a claim has already noted its lease as lost.
Ending(j, n) ==
    IF jobs[j].status = "RUNNING" /\ n = jobs[j].attempts
    THEN "RUNNING"
    ELSE job_attempts[j][n].outcome

Lives ==
    [j \in Jobs |->
        [status |-> jobs[j].status, attempts |-> jobs[j].attempts,
         endings |-> [n \in 1 .. jobs[j].attempts |-> Ending(j, n)]]]

Lifecycle == INSTANCE JobLifecycle WITH life <- Lives

\* The repository implements the state machine of DESIGN.md sec. 3: every
\* transaction is a legal transition of each job it touches, and none rewrites
\* how an attempt ended once its job moved on.
ImplementsLifecycle == Lifecycle!Spec

\* A lease is taken over only after it ran out, and only by a newer attempt:
\* between two claims of a job there is always an expiry or a finalization.
TakeoverNeedsExpiry ==
    [][\A j \in Jobs :
          jobs[j].status = "RUNNING" /\ jobs'[j].lease_token # jobs[j].lease_token
          /\ jobs'[j].lease_token # NULL
          => LeaseExpired(j) /\ jobs'[j].lease_token > jobs[j].lease_token]_storeVars

\* Once a job SUCCEEDED nothing changes it or its trail again, whatever stale
\* token is presented and whatever an operator asks for.
SucceededIsFinal ==
    [][\A j \in Jobs : jobs[j].status = "SUCCEEDED" =>
          jobs'[j] = jobs[j] /\ job_attempts'[j] = job_attempts[j]]_storeVars

\* What is true of the audit trail: a row is never removed, and a settled
\* outcome changes only for the attempt whose lease is still the job's.
TrailSettles ==
    [][\A j \in Jobs : \A n \in DOMAIN job_attempts[j] :
          /\ n \in DOMAIN job_attempts'[j]
          /\ job_attempts[j][n].outcome # "OPEN"
             /\ job_attempts'[j][n] # job_attempts[j][n]
             => Holds(j, n) /\ job_attempts[j][n].outcome = "LEASE_LOST"]_storeVars

\* What SPEC.md sec. 7.3 says of it: an append-only audit trail, in which an
\* attempt's recorded outcome is never rewritten.
TrailIsAppendOnly ==
    [][\A j \in Jobs : \A n \in DOMAIN job_attempts[j] :
          /\ n \in DOMAIN job_attempts'[j]
          /\ job_attempts[j][n].outcome # "OPEN"
             => job_attempts'[j][n] = job_attempts[j][n]]_storeVars

===============================================================================
