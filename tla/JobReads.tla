-------------------------------- MODULE JobReads --------------------------------
(***************************************************************************)
(* GET /v1/jobs/{id} (get_job, crates/reliableq-api/src/jobs.rs) next to   *)
(* the repository's transactions.  The answer is put together from two     *)
(* statements on the pool, each with a snapshot of its own: first the job  *)
(* row, then its attempts.  Workers and operators run in between.          *)
(***************************************************************************)
EXTENDS JobStore

VARIABLE reader   \* the request under way: where it is, and what it has read

readVars == <<jobs, job_attempts, reader>>

-------------------------------------------------------------------------------
\* What the API shows of a row, and of an attempt: no lease, no token.
JobSummary(row) ==
    [status |-> row.status, attempts |-> row.attempts, max_attempts |-> row.max_attempts,
     last_error_code |-> row.last_error_code, finished |-> row.finished]

AttemptSummary(row) == [outcome |-> row.outcome, error_code |-> row.error_code]

JobDetail(row, rows) ==
    [job |-> JobSummary(row), attempts |-> [n \in DOMAIN rows |-> AttemptSummary(rows[n])]]

NoAnswer == JobDetail(NoJob, NoAttempts)

NoRequest == [pc |-> "idle", id |-> NULL, row |-> NoJob, answer |-> NoAnswer]

ReadInit == Init /\ reader = NoRequest

-------------------------------------------------------------------------------
\* get_job_by_id; a job that is not there is answered 404 at once.
GetRow(j) ==
    /\ reader.pc = "idle"
    /\ jobs[j].status # "ABSENT"
    /\ reader' = [pc |-> "got row", id |-> j, row |-> jobs[j], answer |-> NoAnswer]
    /\ UNCHANGED storeVars

\* Mutant: the two statements the other way round: as many attempts as there
\* were at the first one, and the row of the second.
AnswerWithLaterRow ==
    /\ reader.pc = "got row"
    /\ reader' = [pc |-> "answered", id |-> reader.id, row |-> NoJob, answer |->
          JobDetail(jobs[reader.id],
                    [n \in 1 .. reader.row.attempts |-> job_attempts[reader.id][n]])]
    /\ UNCHANGED storeVars

\* list_for_job, and the answer.
GetAttempts ==
    /\ reader.pc = "got row"
    /\ reader' = [pc |-> "answered", id |-> reader.id, row |-> NoJob,
                  answer |-> JobDetail(reader.row, job_attempts[reader.id])]
    /\ UNCHANGED storeVars

Done ==
    /\ reader.pc = "answered"
    /\ reader' = NoRequest
    /\ UNCHANGED storeVars

Reading ==
    \/ \E j \in Jobs : GetRow(j)
    \/ GetAttempts
    \/ Done

ReadNext ==
    \/ Next /\ UNCHANGED reader
    \/ Reading

ReadSpec == ReadInit /\ [][ReadNext]_readVars

-------------------------------------------------------------------------------
(* Properties.                                                             *)

\* An answer may be torn: its attempts may be newer than its row, never older.
\* Every attempt the row counts is listed, all but the newest of them with how
\* they ended; there are more only when the job went on after the row was read.
AnswerNeverLags ==
    reader.pc = "answered" =>
        LET job == reader.answer.job
            shown == reader.answer.attempts
        IN  /\ DOMAIN shown = 1 .. Cardinality(DOMAIN shown)
            /\ job.attempts <= Cardinality(DOMAIN shown)
            /\ \A n \in 1 .. job.attempts - 1 : shown[n].outcome # "OPEN"

\* A client that sees SUCCEEDED has the whole story: exactly the counted
\* attempts, the last one SUCCEEDED, none before it.  And one that sees DEAD is
\* told why by the attempt listed under the row's own count, even when the job
\* was replayed before the second statement.
FinishedAnswerIsExplained ==
    reader.pc = "answered" =>
        LET job == reader.answer.job
            shown == reader.answer.attempts
        IN  /\ job.status = "SUCCEEDED" =>
                 /\ DOMAIN shown = 1 .. job.attempts
                 /\ \A n \in DOMAIN shown :
                       (shown[n].outcome = "SUCCEEDED") = (n = job.attempts)
            /\ job.status = "DEAD" =>
                 \/ /\ shown[job.attempts].outcome = "DEAD"
                    /\ shown[job.attempts].error_code = job.last_error_code
                 \/ /\ shown[job.attempts].outcome = "LEASE_LOST"
                    /\ job.last_error_code = LeaseExhausted

\* An answer put together from two snapshots never contradicts itself.
AnswerIsCoherent == AnswerNeverLags /\ FinishedAnswerIsExplained

===============================================================================
