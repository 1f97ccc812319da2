------------------------------- MODULE ReliableQ -------------------------------
(***************************************************************************)
(* The running system: clients and operators of the API, workers, the      *)
(* charge service, and the repository of module JobStore they share.       *)
(*                                                                         *)
(* A handler <<j, n>> is the task of crates/reliableq-worker/src/lib.rs    *)
(* that executes attempt n of job j, with its heartbeat task.  A worker    *)
(* process is the set of its handlers: a process crash is a crash of each  *)
(* of them, in any order.  Handlers outlive their lease: nothing stops one *)
(* whose job was reclaimed, so old and new attempts of a job run together. *)
(*                                                                         *)
(* A request to the charge service is in the network independently of the  *)
(* handler that sent it: it may be executed after that handler timed out,  *)
(* crashed or lost its lease, or never.                                    *)
(***************************************************************************)
EXTENDS JobStore

CONSTANTS
    Operators,          \* the callers of POST /v1/jobs/{id}/retry
    RetryIncrement,     \* DEFAULT_RETRY_BUDGET_INCREMENT
    MaxRequestedBudget  \* MAX_MAX_ATTEMPTS, the largest budget a request may name

ASSUME OperatorAssumption ==
    /\ NULL \notin [job : Jobs, max_attempts : Nat]
    /\ RetryIncrement \in Nat \ {0}
    /\ MaxRequestedBudget \in Nat \ {0}

\* The codes execute_charge and execute_and_finalize report.
Unreachable == "DOWNSTREAM_UNREACHABLE"
Rejected    == "DOWNSTREAM_REJECTED"
Exhausted   == "RETRY_BUDGET_EXHAUSTED"

ASSUME WorkerCodesAssumption == {Unreachable, Rejected, Exhausted} \subseteq ErrorCodes

VARIABLES
    handlers,    \* handlers[j][n]: the task of attempt n of job j
    requests,    \* requests[j][n]: the charge request that attempt made
    charges,     \* the rows of the charges table; by, a ghost, is the attempt whose
                 \* request inserted the row
    operators    \* operators[o]: what retry_job has decided, before it writes

vars == <<jobs, job_attempts, handlers, requests, charges, operators>>

-------------------------------------------------------------------------------
AttemptNumbers == 1 .. MaxBudget

\* pc: not started; waiting for a permit; request sent and heartbeat running;
\* outcome known and heartbeat aborted; finished or crashed.
Handler ==
    [pc           : {"none", "claimed", "calling", "answered", "gone"},
     heartbeat    : BOOLEAN,
     max_attempts : 0 .. MaxBudget,
     outcome      : {"unknown", "ok", "transient", "permanent", "ambiguous"}]

NoHandler ==
    [pc |-> "none", heartbeat |-> FALSE, max_attempts |-> 0, outcome |-> "unknown"]

\* "sent": on its way to the service; then the answer on its way back.
RequestStates == {"none", "sent", "ok", "transient", "permanent", "over"}

Requests == [Jobs -> [AttemptNumbers -> RequestStates]]

Alive(j, n) == handlers[j][n].pc \in {"claimed", "calling", "answered"}

\* Mutant: a key per attempt.
KeyPerAttempt(j, n) == <<j, n>>

\* reliableq:charge:<job_uuid> - the same key for every attempt.
ChargeIdempotencyKey(j, n) == j

\* 408, 429 and 5xx are transient, other rejections permanent, no answer at all
\* is ambiguous.
IsRetryable(outcome) == outcome \in {"transient", "ambiguous"}

FailureCode(outcome) == IF outcome = "ambiguous" THEN Unreachable ELSE Rejected

SystemInit ==
    /\ Init
    /\ handlers = [j \in Jobs |-> [n \in AttemptNumbers |-> NoHandler]]
    /\ requests = [j \in Jobs |-> [n \in AttemptNumbers |-> "none"]]
    /\ charges = {}
    /\ operators = [o \in Operators |-> NULL]

-------------------------------------------------------------------------------
(* The API.                                                                *)

SubmitJob(j, max_attempts) ==
    /\ max_attempts <= MaxRequestedBudget
    /\ InsertJob(j, max_attempts)
    /\ UNCHANGED <<handlers, requests, charges, operators>>

\* Mutant: `requested < job.attempts` instead of `<=` in the refusal.
RetryBudgetsOffByOne(attempts) ==
    {attempts + RetryIncrement} \cup {m \in 1 .. MaxRequestedBudget : m >= attempts}

\* The budgets a retry request may ask for, given the attempts just read: the
\* default increment, or an explicit max_attempts above them.
RetryBudgets(attempts) ==
    {attempts + RetryIncrement} \cup {m \in 1 .. MaxRequestedBudget : m > attempts}

\* retry_job, first statement: read the job and decide the new budget.
RetryRead(o, j) ==
    /\ operators[o] = NULL
    /\ jobs[j].status = "DEAD"
    /\ \E m \in RetryBudgets(jobs[j].attempts) :
          /\ m <= MaxBudget
          /\ operators' = [operators EXCEPT ![o] = [job |-> j, max_attempts |-> m]]
    /\ UNCHANGED <<jobs, job_attempts, handlers, requests, charges>>

\* retry_job, second statement: the guarded update with that budget, or 409
\* (no longer DEAD), or 500 (a CHECK constraint refused it).
RetryApply(o) ==
    /\ operators[o] # NULL
    /\ LET j == operators[o].job
           m == operators[o].max_attempts
       IN  \/ RetryDeadJob(j, m)
           \/ /\ ~(jobs[j].status = "DEAD" /\ jobs[j].attempts <= m)
              /\ UNCHANGED storeVars
    /\ operators' = [operators EXCEPT ![o] = NULL]
    /\ UNCHANGED <<handlers, requests, charges>>

-------------------------------------------------------------------------------
(* The workers.                                                            *)

\* A claim starts a handler for each job of the batch, with a copy of the row.
WorkerClaim(batch, limit, locked) ==
    /\ ClaimPendingJobs(batch, limit, locked)
    /\ handlers' = [j \in Jobs |->
          IF j \in batch
          THEN [handlers[j] EXCEPT ![FreshToken(j)] =
                  [NoHandler EXCEPT !.pc = "claimed", !.max_attempts = jobs[j].max_attempts]]
          ELSE handlers[j]]
    /\ UNCHANGED <<requests, charges, operators>>

\* The permit is there: spawn the heartbeat and send the request.
StartCall(j, n) ==
    /\ handlers[j][n].pc = "claimed"
    /\ handlers' = [handlers EXCEPT ![j][n] =
                       [@ EXCEPT !.pc = "calling", !.heartbeat = TRUE]]
    /\ requests' = [requests EXCEPT ![j][n] = "sent"]
    /\ UNCHANGED <<jobs, job_attempts, charges, operators>>

\* One round of the heartbeat.  A renewal that finds the lease gone ends the
\* heartbeat, and only the heartbeat.  Once the handler has moved on, heartbeat
\* means that a last renewal is still under way: abort() does not recall an
\* UPDATE the database already has, which lands at any later time, once.  (One
\* that finds the lease gone changes nothing, whenever it lands: it is dropped.)
Heartbeat(j, n) ==
    /\ handlers[j][n].heartbeat
    /\ \/ RenewLease(j, n)
       \/ ~Holds(j, n) /\ UNCHANGED storeVars
    /\ handlers' = [handlers EXCEPT ![j][n] =
                       [@ EXCEPT !.heartbeat =
                           handlers[j][n].pc = "calling" /\ Holds(j, n)]]
    /\ UNCHANGED <<requests, charges, operators>>

\* heartbeat.abort(): either nothing was under way, or one renewal is.
Aborted(heartbeat) == {FALSE, heartbeat}

Resolve(j, n, outcome) ==
    \E late \in Aborted(handlers[j][n].heartbeat) :
        handlers' = [handlers EXCEPT ![j][n] =
                       [@ EXCEPT !.pc = "answered", !.outcome = outcome,
                                 !.heartbeat = late /\ Holds(j, n)]]

ReceiveAnswer(j, n) ==
    /\ handlers[j][n].pc = "calling"
    /\ requests[j][n] \in {"ok", "transient", "permanent"}
    /\ Resolve(j, n, requests[j][n])
    /\ requests' = [requests EXCEPT ![j][n] = "over"]
    /\ UNCHANGED <<jobs, job_attempts, charges, operators>>

\* Nobody waits any longer: an answer on its way is lost, but a request on its
\* way stays where it is, and may still reach the service.
Abandon(j, n) ==
    requests' = [requests EXCEPT ![j][n] = IF @ \in {"none", "sent"} THEN @ ELSE "over"]

\* CHARGE_REQUEST_TIMEOUT or a connection error.
GiveUp(j, n) ==
    /\ handlers[j][n].pc = "calling"
    /\ Resolve(j, n, "ambiguous")
    /\ Abandon(j, n)
    /\ UNCHANGED <<jobs, job_attempts, charges, operators>>

\* The service's own timeout layer answers 408 and drops its request handler:
\* the INSERT may have been executed, or may still be.
ReceiveTimeout(j, n) ==
    /\ handlers[j][n].pc = "calling"
    /\ requests[j][n] \in {"sent", "ok"}
    /\ Resolve(j, n, "transient")
    /\ Abandon(j, n)
    /\ UNCHANGED <<jobs, job_attempts, charges, operators>>

Gone(j, n, heartbeat) ==
    handlers' = [handlers EXCEPT ![j][n] =
                   [@ EXCEPT !.pc = "gone", !.heartbeat = heartbeat]]

\* Mutants: an ambiguous outcome taken for a success; a budget that ends one
\* attempt early; a rejection written to jobs and not to job_attempts.
OutcomeOptimistic(j, n) ==
    /\ handlers[j][n].outcome \in {"ok", "ambiguous"}
    /\ FinalizeSuccess(j, n)
OutcomeOffByOne(j, n) ==
    LET h == handlers[j][n] IN
    \/ h.outcome = "ok" /\ FinalizeSuccess(j, n)
    \/ IsRetryable(h.outcome) /\ n + 1 >= h.max_attempts /\ FinalizeDead(j, n, Exhausted)
OutcomeHalfWritten(j, n) ==
    /\ Holds(j, n)
    /\ jobs' = [jobs EXCEPT ![j] = [Released(@, "DEAD") EXCEPT !.finished = TRUE]]
    /\ UNCHANGED job_attempts

\* The transaction the outcome calls for, on the budget read at claim time.
Outcome(j, n) ==
    LET h == handlers[j][n] IN
    \/ h.outcome = "ok" /\ FinalizeSuccess(j, n)
    \/ /\ IsRetryable(h.outcome) /\ n < h.max_attempts
       /\ \E delay \in 0 .. MaxDelay :
             FinalizeRetryScheduled(j, n, delay, FailureCode(h.outcome))
    \/ /\ IsRetryable(h.outcome) /\ ~(n < h.max_attempts)
       /\ FinalizeDead(j, n, Exhausted)
    \/ h.outcome = "permanent" /\ FinalizeDead(j, n, FailureCode(h.outcome))

\* Finalize.  Zero rows updated means the lease is lost: nothing happens.
\* Either way the token is gone for good, and a renewal under way is void.
Finalize(j, n) ==
    /\ handlers[j][n].pc = "answered"
    /\ \/ Outcome(j, n)
       \/ ~Holds(j, n) /\ UNCHANGED storeVars
    /\ Gone(j, n, FALSE)
    /\ UNCHANGED <<requests, charges, operators>>

\* The process dies, the task is cancelled, or the finalizing transaction fails
\* before it commits: nothing of it reaches the database but a renewal under way.
Crash(j, n) ==
    /\ Alive(j, n)
    /\ \E late \in Aborted(handlers[j][n].heartbeat) : Gone(j, n, late /\ Holds(j, n))
    /\ Abandon(j, n)
    /\ UNCHANGED <<jobs, job_attempts, charges, operators>>

-------------------------------------------------------------------------------
(* The charge service (crates/fake-charge).                                *)

\* An answer reaches the handler that waits for it, if one does.
Reply(j, n, answer) ==
    requests' = [requests EXCEPT ![j][n] =
                   IF handlers[j][n].pc = "calling" THEN answer ELSE "over"]

\* insert_or_get_charge: ON CONFLICT (idempotency_key) DO NOTHING, and an
\* existing row with the same payload is a replay, also answered 2xx.
ServiceCharge(j, n) ==
    /\ requests[j][n] = "sent"
    /\ LET key == ChargeIdempotencyKey(j, n)
       IN  charges' = IF \E c \in charges : c.key = key
                      THEN charges
                      ELSE charges \cup {[key |-> key, job |-> j, by |-> n]}
    /\ Reply(j, n, "ok")
    /\ UNCHANGED <<jobs, job_attempts, handlers, operators>>

\* An injected or internal failure before anything was inserted.
ServiceReject(j, n) ==
    /\ requests[j][n] = "sent"
    /\ \E answer \in {"transient", "permanent"} : Reply(j, n, answer)
    /\ UNCHANGED <<jobs, job_attempts, handlers, charges, operators>>

-------------------------------------------------------------------------------
ClockTick == Tick /\ UNCHANGED <<handlers, requests, charges, operators>>

HandlerStep(j, n) ==
    \/ StartCall(j, n)
    \/ ReceiveAnswer(j, n)
    \/ GiveUp(j, n)
    \/ ReceiveTimeout(j, n)
    \/ Finalize(j, n)
    \/ Crash(j, n)

SystemNext ==
    \/ \E j \in Jobs, m \in 1 .. MaxBudget : SubmitJob(j, m)
    \/ \E o \in Operators, j \in Jobs : RetryRead(o, j)
    \/ \E o \in Operators : RetryApply(o)
    \/ \E batch, locked \in SUBSET Jobs, limit \in Limits : WorkerClaim(batch, limit, locked)
    \/ \E j \in Jobs, n \in AttemptNumbers :
          \/ HandlerStep(j, n)
          \/ Heartbeat(j, n)
          \/ ServiceCharge(j, n)
          \/ ServiceReject(j, n)
    \/ ClockTick

SystemSpec == SystemInit /\ [][SystemNext]_vars

\* What liveness assumes, and no more: the database clock runs; some worker
\* keeps polling, and its claim is not for ever blocked by row locks; and a
\* handler moves on or dies - the HTTP client has a timeout, and a database
\* call returns or fails.  Heartbeats, the charge service, clients and
\* operators are not assumed to do anything.
Fairness ==
    /\ WF_vars(ClockTick)
    /\ WF_vars(\E batch \in SUBSET Jobs, limit \in Limits : WorkerClaim(batch, limit, {}))
    /\ \A j \in Jobs, n \in AttemptNumbers : WF_vars(HandlerStep(j, n))

FairSystem == SystemSpec /\ Fairness

-------------------------------------------------------------------------------
(* Properties.                                                             *)

SystemTypeOK ==
    /\ TypeOK
    /\ handlers \in [Jobs -> [AttemptNumbers -> Handler]]
    /\ requests \in Requests
    /\ charges \subseteq [key : Jobs, job : Jobs, by : AttemptNumbers]
    /\ operators \in [Operators -> [job : Jobs, max_attempts : AttemptNumbers] \cup {NULL}]

\* Guarantee 3: however many attempts ran, were abandoned or overlapped, a job
\* is charged at most once.
AtMostOneChargePerJob ==
    \A c, d \in charges : c.job = d.job => c = d

\* A job is SUCCEEDED only if its charge is in the ledger, even when the
\* attempt that finalized it is not the one whose request inserted the row.
SucceededIsCharged ==
    \A j \in Jobs : jobs[j].status = "SUCCEEDED" => \E c \in charges : c.job = j

\* Why: a charge row has its own job's key, which no other row has, and an "ok" -
\* on the wire, or in a handler - is only ever said of a job that is charged.
Charged(j) == \E c \in charges : c.job = j

OneRowPerKey ==
    /\ charges \subseteq [key : Jobs, job : Jobs, by : AttemptNumbers]
    /\ \A c \in charges : c.key = c.job
    /\ \A c, d \in charges : c.key = d.key => c = d

LedgerInv ==
    /\ OneRowPerKey
    /\ \A j \in Jobs : jobs[j].status = "SUCCEEDED" => Charged(j)
    /\ \A j \in Jobs : \A n \in AttemptNumbers :
          requests[j][n] = "ok" \/ handlers[j][n].outcome = "ok" => Charged(j)

\* The code of a DEAD job is true, although it is computed from the budget read
\* at claim time: an ambiguous or transient failure is fatal only when the
\* budget as it stands is spent, and a rejection only if the service said so.
DeadCodeIsTrue ==
    \A j \in Jobs : jobs[j].status = "DEAD" =>
        LET row == jobs[j] IN
        /\ row.last_error_code \in {Exhausted, Rejected, LeaseExhausted}
        /\ row.last_error_code \in {Exhausted, LeaseExhausted} =>
              row.attempts = row.max_attempts
        /\ row.last_error_code = Rejected =>
              handlers[j][row.attempts].outcome = "permanent"

\* SPEC.md sec. 8.3: after a replay max_attempts is greater than the attempts
\* already made.  A PENDING job without that is never claimed and never DEAD.
PendingHasBudget ==
    \A j \in Jobs : jobs[j].status = "PENDING" => HasBudget(j)

\* Guarantee 5: nothing a handler of an older attempt does - renewing,
\* finalizing, crashing - changes the job or its audit trail.
StaleHandlersAreFenced ==
    [][\A j \in Jobs : \A n \in AttemptNumbers :
          n < jobs[j].attempts /\ handlers'[j][n] # handlers[j][n]
          => jobs'[j] = jobs[j] /\ job_attempts'[j] = job_attempts[j]]_vars

\* The system uses the repository as module JobStore allows, so what is proved
\* of JobStore holds here.
UsesStore == Spec

\* What an attempt knows of its request, in the words of ChargeLedger.
Told(j, n) ==
    LET outcome == handlers[j][n].outcome IN
    CASE outcome = "unknown"   -> "none"
      [] outcome = "ok"        -> IF \E c \in charges : c.job = j /\ c.by = n
                                  THEN "created" ELSE "replayed"
      [] outcome = "permanent" -> "rejected"
      [] OTHER                 -> "lost"

Attempts == Jobs \X AttemptNumbers

\* The answers and the table, in those words.
ToldTo == [r \in Attempts |-> Told(r[1], r[2])]

ChargeRows == {[key |-> c.key, payload |-> c.job, by |-> <<c.job, c.by>>] : c \in charges}

Ledger == INSTANCE ChargeLedger WITH
    Calls     <- Attempts,
    KeyOf     <- [r \in Attempts |-> ChargeIdempotencyKey(r[1], r[2])],
    PayloadOf <- [r \in Attempts |-> r[1]],
    charges   <- ChargeRows,
    answers   <- ToldTo

\* Seen from the workers, through lost answers, timeouts, crashes and requests
\* that outlive their handler, the charges are the append-only ledger of module
\* ChargeLedger, which FakeCharge implements: one row per key, and what an
\* attempt takes for the truth about its request is true, then and ever after.
UsesLedger == Ledger!Spec

\* Guarantee 7: every submitted or replayed job ends up SUCCEEDED or DEAD, even
\* if every handler crashes, every answer is lost and no lease is ever renewed
\* or always is.
EveryJobTerminates ==
    \A j \in Jobs : Active(j) ~> jobs[j].status \in Terminal

===============================================================================
