--------------------------- MODULE ReliableQProofs ----------------------------
(***************************************************************************)
(* Proofs about the running system: it uses the repository as JobStore     *)
(* allows (so StoreInv holds of it, and its jobs live as JobLifecycle      *)
(* says), every job is charged at most once and SUCCEEDED only when        *)
(* charged, handlers that lost their lease change nothing, a DEAD job's    *)
(* code says what became of its charge, a pending job has attempts left    *)
(* unless two replays raced, and the charges with what attempts are told   *)
(* of them are the ledger of ChargeLedger - for any number of jobs,        *)
(* attempts, workers and operators.                                        *)
(***************************************************************************)
EXTENDS ReliableQ, JobStoreProofs

SystemInv ==
    /\ StoreByJob
    /\ handlers \in [Jobs -> [AttemptNumbers -> Handler]]
    /\ requests \in Requests
    /\ operators \in [Operators -> [job : Jobs, max_attempts : AttemptNumbers] \cup {NULL}]
    /\ LedgerInv

-------------------------------------------------------------------------------
(* The steps, as seen by the repository.                                   *)

LEMMA FailureCodes ==
    /\ Exhausted \in ErrorCodes
    /\ \A outcome : FailureCode(outcome) \in ErrorCodes
BY WorkerCodesAssumption DEF FailureCode

LEMMA OutcomeUsesStore ==
    ASSUME NEW j \in Jobs, NEW n \in AttemptNumbers, Outcome(j, n)
    PROVE  Next
<1>1. n \in 1 .. MaxBudget  BY DEF AttemptNumbers
<1>2. CASE FinalizeSuccess(j, n)  BY <1>1, <1>2 DEF Next
<1>3. ASSUME NEW delay \in 0 .. MaxDelay, NEW outcome,
             FinalizeRetryScheduled(j, n, delay, FailureCode(outcome))
      PROVE  Next
  BY <1>1, <1>3, FailureCodes DEF Next
<1>4. CASE FinalizeDead(j, n, Exhausted)  BY <1>1, <1>4, FailureCodes DEF Next
<1>5. ASSUME NEW outcome, FinalizeDead(j, n, FailureCode(outcome))
      PROVE  Next
  BY <1>1, <1>5, FailureCodes DEF Next
<1>6. QED  BY <1>2, <1>3, <1>4, <1>5 DEF Outcome

\* Each step of the system commits one transaction of JobStore, or none.
LEMMA SystemStepUsesStore ==
    ASSUME SystemInv, [SystemNext]_vars
    PROVE  [Next]_storeVars
<1>1. ASSUME NEW j \in Jobs, NEW m \in 1 .. MaxBudget, SubmitJob(j, m)
      PROVE  Next
  BY <1>1 DEF SubmitJob, Next
<1>2. ASSUME NEW o \in Operators, RetryApply(o)
      PROVE  [Next]_storeVars
  <2>1. operators[o].job \in Jobs /\ operators[o].max_attempts \in 1 .. MaxBudget
    BY <1>2 DEF SystemInv, RetryApply, AttemptNumbers
  <2>2. CASE RetryDeadJob(operators[o].job, operators[o].max_attempts)
    BY <2>1, <2>2 DEF Next
  <2>3. CASE UNCHANGED storeVars  BY <2>3
  <2>4. QED  BY <1>2, <2>2, <2>3 DEF RetryApply
<1>3. ASSUME NEW batch \in SUBSET Jobs, NEW locked \in SUBSET Jobs, NEW limit \in Limits,
             WorkerClaim(batch, limit, locked)
      PROVE  Next
  BY <1>3 DEF WorkerClaim, Next
<1>4. ASSUME NEW j \in Jobs, NEW n \in AttemptNumbers, Finalize(j, n)
      PROVE  [Next]_storeVars
  BY <1>4, OutcomeUsesStore DEF Finalize
<1>5. ASSUME NEW j \in Jobs, NEW n \in AttemptNumbers, Heartbeat(j, n)
      PROVE  [Next]_storeVars
  <2>1. CASE RenewLease(j, n)  BY <2>1 DEF Next, AttemptNumbers
  <2>2. QED  BY <1>5, <2>1 DEF Heartbeat
<1>6. ClockTick => Next  BY DEF ClockTick, Next
<1>7. ASSUME NEW j \in Jobs, NEW n \in AttemptNumbers,
             \/ StartCall(j, n) \/ ReceiveAnswer(j, n) \/ GiveUp(j, n)
             \/ ReceiveTimeout(j, n) \/ Crash(j, n)
             \/ ServiceCharge(j, n) \/ ServiceReject(j, n)
      PROVE  UNCHANGED storeVars
  BY <1>7 DEF StartCall, ReceiveAnswer, GiveUp, ReceiveTimeout, Crash,
              ServiceCharge, ServiceReject, storeVars
<1>8. ASSUME NEW o \in Operators, NEW j \in Jobs, RetryRead(o, j)
      PROVE  UNCHANGED storeVars
  BY <1>8 DEF RetryRead, storeVars
<1>9. UNCHANGED vars => UNCHANGED storeVars  BY DEF vars, storeVars
<1>10. QED
  BY <1>1, <1>2, <1>3, <1>4, <1>5, <1>6, <1>7, <1>8, <1>9 DEF SystemNext, HandlerStep

-------------------------------------------------------------------------------
(* Who may make a job SUCCEEDED.                                           *)

\* Every transaction but FinalizeSuccess leaves the set of SUCCEEDED jobs alone.
NoNewSuccess == \A j \in Jobs : jobs'[j].status = "SUCCEEDED" => jobs[j].status = "SUCCEEDED"

LEMMA StoreStepsWithoutSuccess ==
    ASSUME StoreByJob
    PROVE  /\ \A k \in Jobs, m \in 1 .. MaxBudget : InsertJob(k, m) => NoNewSuccess
           /\ \A batch, locked \in SUBSET Jobs, limit \in Limits :
                 ClaimPendingJobs(batch, limit, locked) => NoNewSuccess
           /\ \A k \in Jobs, n \in AttemptNumbers, delay \in 0 .. MaxDelay, code \in ErrorCodes :
                 FinalizeRetryScheduled(k, n, delay, code) => NoNewSuccess
           /\ \A k \in Jobs, n \in AttemptNumbers, code \in ErrorCodes :
                 FinalizeDead(k, n, code) => NoNewSuccess
           /\ \A k \in Jobs, n \in AttemptNumbers : RenewLease(k, n) => NoNewSuccess
           /\ \A k \in Jobs, m \in 1 .. MaxBudget : RetryDeadJob(k, m) => NoNewSuccess
           /\ Tick => NoNewSuccess
           /\ UNCHANGED storeVars => NoNewSuccess
<1>0. jobs \in [Jobs -> JobRow]  BY DEF StoreByJob
<1>1. ASSUME NEW k \in Jobs, NEW m \in 1 .. MaxBudget, InsertJob(k, m)
      PROVE  NoNewSuccess
  BY <1>0, <1>1 DEF InsertJob, NoNewSuccess, NoJob
<1>2. ASSUME NEW batch \in SUBSET Jobs, NEW locked \in SUBSET Jobs, NEW limit \in Limits,
             ClaimPendingJobs(batch, limit, locked)
      PROVE  NoNewSuccess
  <2>1. ASSUME NEW j \in Jobs
        PROVE  jobs'[j].status = "SUCCEEDED" => jobs[j].status = "SUCCEEDED"
    <3>2. jobs'[j] = RowAfterClaim(j, ClaimExhausted(locked), batch)
      BY <1>2 DEF ClaimPendingJobs
    <3>3. CASE j \in ClaimExhausted(locked)
      BY <1>0, <3>2, <3>3 DEF RowAfterClaim, Released, JobRow
    <3>4. CASE j \notin ClaimExhausted(locked) /\ j \in batch
      BY <1>0, <3>2, <3>4 DEF RowAfterClaim, JobRow
    <3>5. CASE j \notin ClaimExhausted(locked) /\ j \notin batch
      BY <3>2, <3>5 DEF RowAfterClaim
    <3>6. QED  BY <3>3, <3>4, <3>5
  <2>2. QED  BY <2>1 DEF NoNewSuccess
<1>3. ASSUME NEW k \in Jobs, NEW n \in AttemptNumbers, NEW delay \in 0 .. MaxDelay,
             NEW code \in ErrorCodes, FinalizeRetryScheduled(k, n, delay, code)
      PROVE  NoNewSuccess
  BY <1>0, <1>3 DEF FinalizeRetryScheduled, Released, NoNewSuccess, JobRow
<1>4. ASSUME NEW k \in Jobs, NEW n \in AttemptNumbers, NEW code \in ErrorCodes,
             FinalizeDead(k, n, code)
      PROVE  NoNewSuccess
  BY <1>0, <1>4 DEF FinalizeDead, Released, NoNewSuccess, JobRow
<1>5. ASSUME NEW k \in Jobs, NEW n \in AttemptNumbers, RenewLease(k, n)
      PROVE  NoNewSuccess
  BY <1>0, <1>5 DEF RenewLease, NoNewSuccess, JobRow
<1>6. ASSUME NEW k \in Jobs, NEW m \in 1 .. MaxBudget, RetryDeadJob(k, m)
      PROVE  NoNewSuccess
  BY <1>0, <1>6 DEF RetryDeadJob, Released, NoNewSuccess, JobRow
<1>7. Tick => NoNewSuccess
  BY <1>0 DEF Tick, NoNewSuccess, JobRow
<1>8. UNCHANGED storeVars => NoNewSuccess
  BY DEF storeVars, NoNewSuccess
<1>9. QED  BY <1>1, <1>2, <1>3, <1>4, <1>5, <1>6, <1>7, <1>8

-------------------------------------------------------------------------------
(* SystemInv is inductive.                                                 *)

LEMMA InitSystem == SystemInit => SystemInv
<1> SUFFICES ASSUME SystemInit
             PROVE  SystemInv
  OBVIOUS
<1>1. StoreByJob  BY InitStore DEF SystemInit
<1>2. handlers \in [Jobs -> [AttemptNumbers -> Handler]]
  <2>1. NoHandler \in Handler  BY BudgetAssumption DEF Handler, NoHandler
  <2>2. QED  BY <2>1 DEF SystemInit
<1>3. requests \in Requests  BY DEF SystemInit, Requests, RequestStates
<1>4. operators \in [Operators -> [job : Jobs, max_attempts : AttemptNumbers] \cup {NULL}]
  BY DEF SystemInit
<1>5. LedgerInv
  BY DEF SystemInit, Init, NoJob, NoHandler, LedgerInv, OneRowPerKey
<1>6. QED  BY <1>1, <1>2, <1>3, <1>4, <1>5 DEF SystemInv

\* What a step of handler <<j, n>> writes: one row of handlers, the outcome of
\* which is as before, the answer received, or one that stands for no answer.
HandlerWrite(j, n) ==
    \E h \in Handler :
        /\ handlers' = [handlers EXCEPT ![j][n] = h]
        /\ h.outcome \in {handlers[j][n].outcome, "ambiguous", "transient"}
                         \cup ({requests[j][n]} \cap {"ok", "transient", "permanent"})

LEMMA ResolveWrites ==
    ASSUME handlers \in [Jobs -> [AttemptNumbers -> Handler]],
           NEW j \in Jobs, NEW n \in AttemptNumbers,
           NEW outcome \in {"unknown", "ok", "transient", "permanent", "ambiguous"},
           Resolve(j, n, outcome)
    PROVE  \E h \in Handler :
              handlers' = [handlers EXCEPT ![j][n] = h] /\ h.outcome = outcome
<1>0. handlers[j][n] \in Handler  OBVIOUS
<1>1. PICK heartbeat \in BOOLEAN :
        handlers' = [handlers EXCEPT ![j][n] =
                       [handlers[j][n] EXCEPT !.pc = "answered", !.outcome = outcome,
                                              !.heartbeat = heartbeat]]
  BY DEF Resolve
<1> DEFINE h == [handlers[j][n] EXCEPT !.pc = "answered", !.outcome = outcome,
                                       !.heartbeat = heartbeat]
<1>2. h \in Handler /\ h.outcome = outcome  BY <1>0 DEF Handler
<1>3. handlers' = [handlers EXCEPT ![j][n] = h]  BY <1>1
<1> HIDE DEF h
<1>4. QED  BY <1>2, <1>3

LEMMA HandlerWritten ==
    ASSUME handlers \in [Jobs -> [AttemptNumbers -> Handler]],
           NEW j \in Jobs, NEW n \in AttemptNumbers,
           \/ StartCall(j, n) \/ Heartbeat(j, n) \/ ReceiveAnswer(j, n) \/ GiveUp(j, n)
           \/ ReceiveTimeout(j, n) \/ Finalize(j, n) \/ Crash(j, n)
    PROVE  HandlerWrite(j, n)
<1>0. handlers[j][n] \in Handler  OBVIOUS
<1>1. CASE StartCall(j, n)
  <2>1. handlers' = [handlers EXCEPT ![j][n] =
                       [handlers[j][n] EXCEPT !.pc = "calling", !.heartbeat = TRUE]]
    BY <1>1 DEF StartCall
  <2> DEFINE h == [handlers[j][n] EXCEPT !.pc = "calling", !.heartbeat = TRUE]
  <2>2. h \in Handler /\ h.outcome = handlers[j][n].outcome  BY <1>0 DEF Handler
  <2>3. handlers' = [handlers EXCEPT ![j][n] = h]  BY <2>1
  <2> HIDE DEF h
  <2>4. QED  BY <2>2, <2>3 DEF HandlerWrite
<1>2. CASE Heartbeat(j, n)
  <2>1. PICK heartbeat \in BOOLEAN :
          handlers' = [handlers EXCEPT ![j][n] =
                         [handlers[j][n] EXCEPT !.heartbeat = heartbeat]]
    BY <1>2 DEF Heartbeat
  <2> DEFINE h == [handlers[j][n] EXCEPT !.heartbeat = heartbeat]
  <2>2. h \in Handler /\ h.outcome = handlers[j][n].outcome  BY <1>0 DEF Handler
  <2>3. handlers' = [handlers EXCEPT ![j][n] = h]  BY <2>1
  <2> HIDE DEF h
  <2>4. QED  BY <2>2, <2>3 DEF HandlerWrite
<1>3. CASE ReceiveAnswer(j, n)
  <2>1. PICK answer \in {"ok", "transient", "permanent"} :
          answer = requests[j][n] /\ Resolve(j, n, answer)
    BY <1>3 DEF ReceiveAnswer
  <2>2. PICK h \in Handler : handlers' = [handlers EXCEPT ![j][n] = h] /\ h.outcome = answer
    BY <2>1, ResolveWrites
  <2>3. QED  BY <2>1, <2>2 DEF HandlerWrite
<1>4. CASE GiveUp(j, n)
  <2>1. Resolve(j, n, "ambiguous")  BY <1>4 DEF GiveUp
  <2>2. QED  BY <2>1, ResolveWrites DEF HandlerWrite
<1>5. CASE Finalize(j, n) \/ Crash(j, n)
  <2>1. PICK heartbeat \in BOOLEAN :
          handlers' = [handlers EXCEPT ![j][n] =
                         [handlers[j][n] EXCEPT !.pc = "gone", !.heartbeat = heartbeat]]
    BY <1>5 DEF Finalize, Crash, Gone
  <2> DEFINE h == [handlers[j][n] EXCEPT !.pc = "gone", !.heartbeat = heartbeat]
  <2>2. h \in Handler /\ h.outcome = handlers[j][n].outcome  BY <1>0 DEF Handler
  <2>3. handlers' = [handlers EXCEPT ![j][n] = h]  BY <2>1
  <2> HIDE DEF h
  <2>4. QED  BY <2>2, <2>3 DEF HandlerWrite
<1>6. CASE ReceiveTimeout(j, n)
  <2>1. Resolve(j, n, "transient")  BY <1>6 DEF ReceiveTimeout
  <2>2. QED  BY <2>1, ResolveWrites DEF HandlerWrite
<1>7. QED  BY <1>1, <1>2, <1>3, <1>4, <1>5, <1>6

\* The worker's claim writes new handlers only, and only where there was room.
LEMMA ClaimStartsHandlers ==
    ASSUME SystemInv, NEW batch \in SUBSET Jobs, NEW locked \in SUBSET Jobs,
           NEW limit \in Limits, WorkerClaim(batch, limit, locked)
    PROVE  /\ handlers' \in [Jobs -> [AttemptNumbers -> Handler]]
           /\ \A k \in Jobs, m \in AttemptNumbers :
                 handlers'[k][m].outcome \in {handlers[k][m].outcome, "unknown"}
<1>1. ASSUME NEW k \in Jobs
      PROVE  /\ handlers'[k] \in [AttemptNumbers -> Handler]
             /\ \A m \in AttemptNumbers :
                   handlers'[k][m].outcome \in {handlers[k][m].outcome, "unknown"}
  <2>1. jobs[k] \in JobRow /\ handlers[k] \in [AttemptNumbers -> Handler]
    BY DEF SystemInv, StoreByJob
  <2>2. CASE k \notin batch
    BY <2>1, <2>2 DEF WorkerClaim
  <2>3. CASE k \in batch
    <3> DEFINE started == [NoHandler EXCEPT !.pc = "claimed",
                                            !.max_attempts = jobs[k].max_attempts]
    <3>1. started \in Handler /\ started.outcome = "unknown"
      BY <2>1 DEF NoHandler, Handler, JobRow
    <3>2. handlers'[k] = [handlers[k] EXCEPT ![FreshToken(k)] = started]
      BY <2>3 DEF WorkerClaim
    <3> HIDE DEF started
    <3>3. QED  BY <2>1, <3>1, <3>2
  <2>4. QED  BY <2>2, <2>3
<1>2. DOMAIN handlers' = Jobs /\ handlers' = [k \in Jobs |-> handlers'[k]]
  BY DEF WorkerClaim
<1>3. QED  BY <1>1, <1>2

\* An outcome becomes "ok" only when that is the answer that was received.
HandlersFollow ==
    /\ handlers' \in [Jobs -> [AttemptNumbers -> Handler]]
    /\ \A k \in Jobs, m \in AttemptNumbers :
          handlers'[k][m].outcome = "ok"
          => handlers[k][m].outcome = "ok" \/ requests[k][m] = "ok"

LEMMA NextHandlers ==
    ASSUME SystemInv, [SystemNext]_vars
    PROVE  HandlersFollow
<1>0. handlers \in [Jobs -> [AttemptNumbers -> Handler]]  BY DEF SystemInv
<1>1. UNCHANGED handlers => HandlersFollow  BY <1>0 DEF HandlersFollow
<1>2. ASSUME NEW batch \in SUBSET Jobs, NEW locked \in SUBSET Jobs, NEW limit \in Limits,
             WorkerClaim(batch, limit, locked)
      PROVE  HandlersFollow
  BY <1>2, ClaimStartsHandlers DEF HandlersFollow
<1>3. ASSUME NEW j \in Jobs, NEW n \in AttemptNumbers,
             HandlerStep(j, n) \/ Heartbeat(j, n)
      PROVE  HandlersFollow
  <2>1. HandlerWrite(j, n)  BY <1>0, <1>3, HandlerWritten DEF HandlerStep
  <2>2. PICK h \in Handler :
          /\ handlers' = [handlers EXCEPT ![j][n] = h]
          /\ h.outcome = "ok" => handlers[j][n].outcome = "ok" \/ requests[j][n] = "ok"
    BY <2>1 DEF HandlerWrite
  <2>3. QED  BY <1>0, <2>2 DEF HandlersFollow
<1>4. ASSUME NEW j \in Jobs, NEW n \in AttemptNumbers,
             ServiceCharge(j, n) \/ ServiceReject(j, n)
      PROVE  UNCHANGED handlers
  BY <1>4 DEF ServiceCharge, ServiceReject
<1>5. ASSUME NEW j \in Jobs, NEW m \in 1 .. MaxBudget, SubmitJob(j, m)
      PROVE  UNCHANGED handlers
  BY <1>5 DEF SubmitJob
<1>6. ASSUME NEW o \in Operators, NEW j \in Jobs, RetryRead(o, j)
      PROVE  UNCHANGED handlers
  BY <1>6 DEF RetryRead
<1>7. ASSUME NEW o \in Operators, RetryApply(o)
      PROVE  UNCHANGED handlers
  BY <1>7 DEF RetryApply
<1>8. ClockTick \/ UNCHANGED vars => UNCHANGED handlers  BY DEF ClockTick, vars
<1>9. QED
  BY <1>1, <1>2, <1>3, <1>4, <1>5, <1>6, <1>7, <1>8 DEF SystemNext

\* An "ok" is sent only once the charge row is there, and no row ever leaves.
WireFollows ==
    /\ requests' \in Requests
    /\ charges \subseteq charges'
    /\ OneRowPerKey'
    /\ \A k \in Jobs, m \in AttemptNumbers :
          requests'[k][m] = "ok" => requests[k][m] = "ok" \/ Charged(k)'

LEMMA NextWire ==
    ASSUME SystemInv, [SystemNext]_vars
    PROVE  WireFollows
<1>0. requests \in Requests /\ OneRowPerKey
  BY DEF SystemInv, LedgerInv
<1>1. UNCHANGED <<requests, charges>> => WireFollows  BY <1>0 DEF WireFollows, OneRowPerKey
<1>2. ASSUME NEW j \in Jobs, NEW n \in AttemptNumbers, NEW answer \in RequestStates,
             answer # "ok", requests' = [requests EXCEPT ![j][n] = answer],
             UNCHANGED charges
      PROVE  WireFollows
  BY <1>0, <1>2 DEF WireFollows, OneRowPerKey, Requests
<1>3. ASSUME NEW j \in Jobs, NEW n \in AttemptNumbers, ServiceCharge(j, n)
      PROVE  WireFollows
  <2>1. charges' = IF \E c \in charges : c.key = j
                   THEN charges
                   ELSE charges \cup {[key |-> j, job |-> j, by |-> n]}
    BY <1>3 DEF ServiceCharge, ChargeIdempotencyKey
  <2>2. Charged(j)'
    <3>1. CASE \E c \in charges : c.key = j
      <4>1. PICK c \in charges : c.key = j  BY <3>1
      <4>2. c.job = j  BY <1>0, <4>1 DEF OneRowPerKey
      <4>3. QED  BY <2>1, <3>1, <4>1, <4>2 DEF Charged
    <3>2. CASE ~ \E c \in charges : c.key = j
      <4>1. [key |-> j, job |-> j, by |-> n] \in charges'  BY <2>1, <3>2
      <4>2. QED  BY <4>1 DEF Charged
    <3>3. QED  BY <3>1, <3>2
  <2>3. PICK answer \in {"ok", "over"} :
          requests' = [requests EXCEPT ![j][n] = answer]
    BY <1>3 DEF ServiceCharge, Reply
  <2>4. requests' \in Requests
    BY <1>0, <2>3 DEF Requests, RequestStates
  <2>5. \A k \in Jobs, m \in AttemptNumbers :
          k # j \/ m # n => requests'[k][m] = requests[k][m]
    BY <1>0, <2>3 DEF Requests
  <2>6. charges \subseteq charges' /\ OneRowPerKey'
    BY <1>0, <2>1 DEF OneRowPerKey
  <2>7. QED  BY <2>2, <2>4, <2>5, <2>6 DEF WireFollows
<1>4. ASSUME NEW j \in Jobs, NEW n \in AttemptNumbers,
             \/ StartCall(j, n) \/ ReceiveAnswer(j, n) \/ ServiceReject(j, n)
             \/ GiveUp(j, n) \/ ReceiveTimeout(j, n) \/ Crash(j, n)
      PROVE  WireFollows
  <2>1. PICK answer \in RequestStates :
          answer # "ok" /\ requests' = [requests EXCEPT ![j][n] = answer] /\ UNCHANGED charges
    BY <1>4 DEF StartCall, ReceiveAnswer, ServiceReject, GiveUp, ReceiveTimeout, Crash,
                Abandon, Reply, RequestStates
  <2>2. QED  BY <1>2, <2>1
<1>5. ASSUME NEW j \in Jobs, NEW n \in AttemptNumbers,
             Finalize(j, n) \/ Heartbeat(j, n)
      PROVE  UNCHANGED <<requests, charges>>
  BY <1>5 DEF Finalize, Heartbeat
<1>6. ASSUME NEW j \in Jobs, NEW m \in 1 .. MaxBudget, SubmitJob(j, m)
      PROVE  UNCHANGED <<requests, charges>>
  BY <1>6 DEF SubmitJob
<1>7. ASSUME NEW batch \in SUBSET Jobs, NEW locked \in SUBSET Jobs, NEW limit \in Limits,
             WorkerClaim(batch, limit, locked)
      PROVE  UNCHANGED <<requests, charges>>
  BY <1>7 DEF WorkerClaim
<1>8. ASSUME NEW o \in Operators, NEW j \in Jobs, RetryRead(o, j)
      PROVE  UNCHANGED <<requests, charges>>
  BY <1>8 DEF RetryRead
<1>9. ASSUME NEW o \in Operators, RetryApply(o)
      PROVE  UNCHANGED <<requests, charges>>
  BY <1>9 DEF RetryApply
<1>10. ClockTick \/ UNCHANGED vars => UNCHANGED <<requests, charges>>
  BY DEF ClockTick, vars
<1>11. QED
  BY <1>1, <1>3, <1>4, <1>5, <1>6, <1>7, <1>8, <1>9, <1>10 DEF SystemNext, HandlerStep

LEMMA NextOperators ==
    ASSUME SystemInv, [SystemNext]_vars
    PROVE  operators' \in [Operators -> [job : Jobs, max_attempts : AttemptNumbers] \cup {NULL}]
<1>0. operators \in [Operators -> [job : Jobs, max_attempts : AttemptNumbers] \cup {NULL}]
  BY DEF SystemInv
<1>1. ASSUME NEW o \in Operators, NEW j \in Jobs, RetryRead(o, j)
      PROVE  operators' \in [Operators -> [job : Jobs, max_attempts : AttemptNumbers] \cup {NULL}]
  <2>1. jobs[j].attempts \in Nat  BY DEF SystemInv, StoreByJob, JobRow
  <2>2. RetryBudgets(jobs[j].attempts) \subseteq Nat \ {0}
    BY <2>1, OperatorAssumption DEF RetryBudgets
  <2>3. PICK m \in RetryBudgets(jobs[j].attempts) :
          /\ m <= MaxBudget
          /\ operators' = [operators EXCEPT ![o] = [job |-> j, max_attempts |-> m]]
    BY <1>1 DEF RetryRead
  <2>4. m \in AttemptNumbers  BY <2>2, <2>3, BudgetAssumption DEF AttemptNumbers
  <2>5. QED  BY <1>0, <2>3, <2>4
<1>2. ASSUME NEW o \in Operators, RetryApply(o)
      PROVE  operators' \in [Operators -> [job : Jobs, max_attempts : AttemptNumbers] \cup {NULL}]
  BY <1>0, <1>2 DEF RetryApply
<1>3. ASSUME NEW j \in Jobs, NEW n \in AttemptNumbers,
             \/ HandlerStep(j, n) \/ Heartbeat(j, n)
             \/ ServiceCharge(j, n) \/ ServiceReject(j, n)
      PROVE  UNCHANGED operators
  BY <1>3 DEF HandlerStep, StartCall, ReceiveAnswer, GiveUp, ReceiveTimeout, Finalize, Crash, Heartbeat,
              ServiceCharge, ServiceReject
<1>4. ASSUME NEW j \in Jobs, NEW m \in 1 .. MaxBudget, SubmitJob(j, m)
      PROVE  UNCHANGED operators
  BY <1>4 DEF SubmitJob
<1>5. ASSUME NEW batch \in SUBSET Jobs, NEW locked \in SUBSET Jobs, NEW limit \in Limits,
             WorkerClaim(batch, limit, locked)
      PROVE  UNCHANGED operators
  BY <1>5 DEF WorkerClaim
<1>6. ClockTick \/ UNCHANGED vars => UNCHANGED operators  BY DEF ClockTick, vars
<1>7. QED  BY <1>0, <1>1, <1>2, <1>3, <1>4, <1>5, <1>6 DEF SystemNext

\* A job becomes SUCCEEDED only by a handler that was told "ok".
LEMMA NextSuccess ==
    ASSUME SystemInv, [SystemNext]_vars, NEW j \in Jobs,
           jobs'[j].status = "SUCCEEDED", jobs[j].status # "SUCCEEDED"
    PROVE  \E n \in AttemptNumbers : handlers[j][n].outcome = "ok"
<1> SUFFICES ASSUME ~ \E n \in AttemptNumbers : handlers[j][n].outcome = "ok"
             PROVE  FALSE
  OBVIOUS
<1>0. StoreByJob /\ jobs \in [Jobs -> JobRow]  BY DEF SystemInv, StoreByJob
<1>1. NoNewSuccess => FALSE  BY DEF NoNewSuccess
<1>2. ASSUME NEW k \in Jobs, NEW m \in 1 .. MaxBudget, SubmitJob(k, m)
      PROVE  FALSE
  BY <1>0, <1>1, <1>2, StoreStepsWithoutSuccess DEF SubmitJob
<1>3. ASSUME NEW o \in Operators, RetryApply(o)
      PROVE  FALSE
  <2>1. operators[o].job \in Jobs /\ operators[o].max_attempts \in 1 .. MaxBudget
    BY <1>3 DEF SystemInv, RetryApply, AttemptNumbers
  <2>2. RetryDeadJob(operators[o].job, operators[o].max_attempts) \/ UNCHANGED storeVars
    BY <1>3 DEF RetryApply
  <2>3. QED  BY <1>0, <1>1, <2>1, <2>2, StoreStepsWithoutSuccess
<1>4. ASSUME NEW batch \in SUBSET Jobs, NEW locked \in SUBSET Jobs, NEW limit \in Limits,
             WorkerClaim(batch, limit, locked)
      PROVE  FALSE
  BY <1>0, <1>1, <1>4, StoreStepsWithoutSuccess DEF WorkerClaim
<1>5. ASSUME NEW k \in Jobs, NEW n \in AttemptNumbers, Finalize(k, n)
      PROVE  FALSE
  <2>1. CASE UNCHANGED storeVars
    BY <1>0, <1>1, <2>1, StoreStepsWithoutSuccess
  <2>2. CASE handlers[k][n].outcome = "ok" /\ FinalizeSuccess(k, n)
    <3>1. k # j  BY <2>2
    <3>2. QED  BY <1>0, <2>2, <3>1 DEF FinalizeSuccess
  <2>3. ASSUME NEW delay \in 0 .. MaxDelay, NEW code \in ErrorCodes,
               FinalizeRetryScheduled(k, n, delay, code)
        PROVE  FALSE
    BY <1>0, <1>1, <2>3, StoreStepsWithoutSuccess
  <2>4. ASSUME NEW code \in ErrorCodes, FinalizeDead(k, n, code)
        PROVE  FALSE
    BY <1>0, <1>1, <2>4, StoreStepsWithoutSuccess
  <2>5. QED
    BY <1>5, <2>1, <2>2, <2>3, <2>4, FailureCodes DEF Finalize, Outcome
<1>6. ASSUME NEW k \in Jobs, NEW n \in AttemptNumbers, Heartbeat(k, n)
      PROVE  FALSE
  BY <1>0, <1>1, <1>6, StoreStepsWithoutSuccess DEF Heartbeat
<1>7. ASSUME UNCHANGED storeVars
      PROVE  FALSE
  BY <1>0, <1>1, <1>7, StoreStepsWithoutSuccess
<1>8. ClockTick => FALSE
  BY <1>0, <1>1, StoreStepsWithoutSuccess DEF ClockTick
<1>9. ASSUME NEW k \in Jobs, NEW n \in AttemptNumbers,
             \/ StartCall(k, n) \/ ReceiveAnswer(k, n) \/ GiveUp(k, n)
             \/ ReceiveTimeout(k, n) \/ Crash(k, n)
             \/ ServiceCharge(k, n) \/ ServiceReject(k, n)
      PROVE  UNCHANGED storeVars
  BY <1>9 DEF StartCall, ReceiveAnswer, GiveUp, ReceiveTimeout, Crash,
              ServiceCharge, ServiceReject, storeVars
<1>10. ASSUME NEW o \in Operators, NEW k \in Jobs, RetryRead(o, k)
       PROVE  UNCHANGED storeVars
  BY <1>10 DEF RetryRead, storeVars
<1>11. UNCHANGED vars => UNCHANGED storeVars  BY DEF vars, storeVars
<1>12. QED
  BY <1>2, <1>3, <1>4, <1>5, <1>6, <1>7, <1>8, <1>9, <1>10, <1>11
     DEF SystemNext, HandlerStep

LEMMA NextLedger ==
    ASSUME SystemInv, [SystemNext]_vars
    PROVE  LedgerInv'
<1>1. WireFollows /\ HandlersFollow  BY NextWire, NextHandlers
<1>2. \A j \in Jobs : Charged(j) => Charged(j)'  BY <1>1 DEF WireFollows, Charged
<1>3. OneRowPerKey'  BY <1>1 DEF WireFollows
<1>4. ASSUME NEW j \in Jobs, jobs'[j].status = "SUCCEEDED"
      PROVE  Charged(j)'
  <2>1. Charged(j)
    <3>1. CASE jobs[j].status = "SUCCEEDED"  BY <3>1 DEF SystemInv, LedgerInv
    <3>2. CASE jobs[j].status # "SUCCEEDED"
      BY <1>4, <3>2, NextSuccess DEF SystemInv, LedgerInv
    <3>3. QED  BY <3>1, <3>2
  <2>2. QED  BY <1>2, <2>1
<1>5. ASSUME NEW j \in Jobs, NEW n \in AttemptNumbers, requests'[j][n] = "ok"
      PROVE  Charged(j)'
  BY <1>1, <1>2, <1>5 DEF WireFollows, SystemInv, LedgerInv
<1>6. ASSUME NEW j \in Jobs, NEW n \in AttemptNumbers, handlers'[j][n].outcome = "ok"
      PROVE  Charged(j)'
  BY <1>1, <1>2, <1>6 DEF HandlersFollow, SystemInv, LedgerInv
<1>7. QED  BY <1>3, <1>4, <1>5, <1>6 DEF LedgerInv

LEMMA NextSystem == SystemInv /\ [SystemNext]_vars => SystemInv'
<1> SUFFICES ASSUME SystemInv, [SystemNext]_vars
             PROVE  SystemInv'
  OBVIOUS
<1>1. StoreByJob'  BY SystemStepUsesStore, NextStore DEF SystemInv
<1>2. handlers' \in [Jobs -> [AttemptNumbers -> Handler]]
  BY NextHandlers DEF HandlersFollow
<1>3. requests' \in Requests  BY NextWire DEF WireFollows
<1>4. operators' \in [Operators -> [job : Jobs, max_attempts : AttemptNumbers] \cup {NULL}]
  BY NextOperators
<1>5. LedgerInv'  BY NextLedger
<1>6. QED  BY <1>1, <1>2, <1>3, <1>4, <1>5 DEF SystemInv, AttemptNumbers, Handler, Requests

-------------------------------------------------------------------------------
(* The theorems.                                                           *)

\* The running system uses the repository as JobStore allows: workers and
\* operators present only tokens, budgets and codes that JobStore's callers may.
THEOREM SystemUsesStore == SystemSpec => UsesStore
<1>1. SystemInit => Init  BY DEF SystemInit
<1>2. QED
  BY <1>1, InitSystem, NextSystem, SystemStepUsesStore, PTL DEF SystemSpec, UsesStore, Spec

\* What DESIGN.md sec. 3 allows is therefore all that happens to a job under
\* workers, crashes, late renewals and racing operators.
THEOREM SystemImplementsLifecycle == SystemSpec => ImplementsLifecycle
BY SystemUsesStore, StoreImplementsLifecycle, PTL DEF UsesStore

\* And with the repository's invariant every action property of it holds of the
\* system: SUCCEEDED is final, a running job is taken only when its lease ran
\* out, attempts settle once, and between two replays every job runs out of work.
THEOREM SystemKeepsStorePromises ==
    SystemSpec => /\ []StoreInv
                  /\ SucceededIsFinal
                  /\ TakeoverNeedsExpiry
                  /\ TrailSettles
                  /\ RetriesRunOut
BY SystemUsesStore, StoreInvariant, SucceededStaysFinal, TakeoversNeedExpiry,
   TrailOnlySettles, RetriesAlwaysRunOut, PTL DEF UsesStore

\* The system's inductive invariant: the repository's, well-typed handlers,
\* requests and operators, and the ledger that every "ok" stands for.
THEOREM SystemInvariant == SystemSpec => []SystemInv
BY InitSystem, NextSystem, PTL DEF SystemSpec

\* The state of workers, requests, charges and operators stays in its types.
THEOREM SystemTypes == SystemSpec => []SystemTypeOK
<1>1. SystemInv => SystemTypeOK
  <2> SUFFICES ASSUME SystemInv
               PROVE  SystemTypeOK
    OBVIOUS
  <2>1. TypeOK  BY StoreInvByJob DEF SystemInv, StoreByJob, StoreInv
  <2>2. charges \subseteq [key : Jobs, job : Jobs, by : AttemptNumbers]
    BY DEF SystemInv, LedgerInv, OneRowPerKey
  <2>3. QED  BY <2>1, <2>2 DEF SystemInv, SystemTypeOK
<1>2. QED  BY <1>1, SystemInvariant, PTL

\* Guarantee 3 of DESIGN.md: one charge per job, however many attempts ran or
\* overlapped and whatever became of their requests.
THEOREM OneChargePerJob == SystemSpec => []AtMostOneChargePerJob
<1>1. SystemInv => AtMostOneChargePerJob
  BY DEF SystemInv, LedgerInv, OneRowPerKey, AtMostOneChargePerJob
<1>2. QED  BY <1>1, SystemInvariant, PTL

\* No job is SUCCEEDED without its charge row, although finalization and charge
\* are separate databases and the answer may reach an attempt long after.
THEOREM SuccessMeansCharged == SystemSpec => []SucceededIsCharged
<1>1. SystemInv => SucceededIsCharged
  BY DEF SystemInv, LedgerInv, SucceededIsCharged, Charged
<1>2. QED  BY <1>1, SystemInvariant, PTL

LEMMA OldTokenIsNotHeld ==
    ASSUME StoreByJob, NEW j \in Jobs, NEW n \in AttemptNumbers, n < jobs[j].attempts
    PROVE  ~Holds(j, n)
<1>1. jobs[j].lease_token \in {NULL, jobs[j].attempts} /\ jobs[j].attempts \in Nat
  BY DEF StoreByJob, JobInv, JobRow
<1>2. QED  BY <1>1, NullAssumption DEF Holds, AttemptNumbers

LEMMA StaleHandlerStep ==
    ASSUME SystemInv, [SystemNext]_vars, NEW j \in Jobs, NEW n \in AttemptNumbers,
           n < jobs[j].attempts, handlers'[j][n] # handlers[j][n]
    PROVE  jobs'[j] = jobs[j] /\ job_attempts'[j] = job_attempts[j]
<1>0. ~Holds(j, n) /\ handlers \in [Jobs -> [AttemptNumbers -> Handler]]
  BY OldTokenIsNotHeld DEF SystemInv
<1>1. ASSUME NEW k \in Jobs, NEW m \in AttemptNumbers, HandlerStep(k, m) \/ Heartbeat(k, m)
      PROVE  UNCHANGED storeVars
  <2>1. PICK h \in Handler : handlers' = [handlers EXCEPT ![k][m] = h]
    BY <1>0, <1>1, HandlerWritten DEF HandlerStep, HandlerWrite
  <2>2. k = j /\ m = n  BY <1>0, <2>1
  <2>3. ~Outcome(j, n)
    BY <1>0 DEF Outcome, FinalizeSuccess, FinalizeRetryScheduled, FinalizeDead
  <2>4. ~RenewLease(j, n)  BY <1>0 DEF RenewLease
  <2>5. QED
    BY <1>1, <2>2, <2>3, <2>4
       DEF HandlerStep, StartCall, ReceiveAnswer, GiveUp, ReceiveTimeout, Finalize, Crash, Heartbeat, storeVars
<1>2. ASSUME NEW batch \in SUBSET Jobs, NEW locked \in SUBSET Jobs, NEW limit \in Limits,
             WorkerClaim(batch, limit, locked)
      PROVE  FALSE
  <2>1. jobs[j].attempts \in Nat  BY DEF SystemInv, StoreByJob, JobRow
  <2>2. FreshToken(j) # n  BY <2>1 DEF FreshToken, AttemptNumbers
  <2>3. handlers'[j][n] = handlers[j][n]  BY <1>0, <1>2, <2>2 DEF WorkerClaim
  <2>4. QED  BY <2>3
<1>3. ASSUME NEW k \in Jobs, NEW m \in AttemptNumbers,
             ServiceCharge(k, m) \/ ServiceReject(k, m)
      PROVE  UNCHANGED storeVars
  BY <1>3 DEF ServiceCharge, ServiceReject, storeVars
<1>4. ASSUME NEW k \in Jobs, NEW m \in 1 .. MaxBudget, SubmitJob(k, m)
      PROVE  FALSE
  BY <1>4 DEF SubmitJob
<1>5. ASSUME NEW o \in Operators, NEW k \in Jobs, RetryRead(o, k)
      PROVE  FALSE
  BY <1>5 DEF RetryRead
<1>6. ASSUME NEW o \in Operators, RetryApply(o)
      PROVE  FALSE
  BY <1>6 DEF RetryApply
<1>7. ~ClockTick /\ ~UNCHANGED vars  BY DEF ClockTick, vars
<1>8. UNCHANGED storeVars => jobs'[j] = jobs[j] /\ job_attempts'[j] = job_attempts[j]
  BY DEF storeVars
<1>9. QED
  BY <1>1, <1>2, <1>3, <1>4, <1>5, <1>6, <1>7, <1>8 DEF SystemNext

\* Guarantee 5 of DESIGN.md: a worker that lost its lease, however late it
\* wakes up, changes neither the job nor its audit trail.
THEOREM StaleHandlersFenced == SystemSpec => StaleHandlersAreFenced
<1>1. SystemInv /\ [SystemNext]_vars =>
        [\A j \in Jobs : \A n \in AttemptNumbers :
            n < jobs[j].attempts /\ handlers'[j][n] # handlers[j][n]
            => jobs'[j] = jobs[j] /\ job_attempts'[j] = job_attempts[j]]_vars
  BY StaleHandlerStep
<1>2. QED  BY <1>1, InitSystem, NextSystem, PTL DEF SystemSpec, StaleHandlersAreFenced

-------------------------------------------------------------------------------
(* What became of a job, and who decided it.                               *)

\* A step that neither moves the job on nor touches its budget or its code.
SameFate(j) ==
    /\ jobs'[j].status = jobs[j].status
    /\ jobs'[j].attempts = jobs[j].attempts
    /\ jobs'[j].max_attempts = jobs[j].max_attempts
    /\ jobs'[j].lease_token = jobs[j].lease_token
    /\ jobs'[j].last_error_code = jobs[j].last_error_code

\* A step after which nobody holds the job.
Ended(j, status, code) ==
    /\ Left(j, status)
    /\ jobs'[j].max_attempts = jobs[j].max_attempts
    /\ jobs'[j].last_error_code = code

JobSubmitted(j) ==
    /\ jobs[j].status = "ABSENT" /\ jobs'[j].status = "PENDING"
    /\ jobs'[j].attempts = 0 /\ jobs'[j].max_attempts \in Nat \ {0}
    /\ jobs'[j].lease_token = NULL

JobBuried(j) ==
    jobs[j].status = "RUNNING" /\ ~HasBudget(j) /\ Ended(j, "DEAD", LeaseExhausted)

JobTaken(j) ==
    /\ jobs[j].status \in {"PENDING", "RUNNING"} /\ jobs'[j].status = "RUNNING"
    /\ jobs'[j].attempts = jobs[j].attempts + 1
    /\ jobs'[j].max_attempts = jobs[j].max_attempts
    /\ jobs'[j].lease_token = jobs[j].attempts + 1
    /\ jobs[j].attempts + 1 \in AttemptNumbers
    /\ handlers'[j][jobs[j].attempts + 1].max_attempts = jobs[j].max_attempts

\* The handler that holds the job decides on what it was told and on the
\* budget it was given.
JobDecided(j) ==
    \E n \in AttemptNumbers :
        LET h == handlers[j][n] IN
        /\ Holds(j, n)
        /\ h.outcome # "unknown"
        /\ \/ Left(j, "SUCCEEDED") /\ jobs'[j].max_attempts = jobs[j].max_attempts
           \/ n < h.max_attempts /\ \E code : Ended(j, "PENDING", code)
           \/ ~(n < h.max_attempts) /\ Ended(j, "DEAD", Exhausted)
           \/ h.outcome = "permanent" /\ Ended(j, "DEAD", Rejected)

JobReplayed(j) ==
    \E o \in Operators :
        /\ operators[o] # NULL /\ operators[o].job = j
        /\ operators' = [operators EXCEPT ![o] = NULL]
        /\ jobs[j].status = "DEAD" /\ Left(j, "PENDING")
        /\ jobs'[j].max_attempts = operators[o].max_attempts

FateStep(j) ==
    \/ SameFate(j)
    \/ JobSubmitted(j)
    \/ JobBuried(j)
    \/ JobTaken(j)
    \/ JobDecided(j)
    \/ JobReplayed(j)

LEMMA ClaimFate ==
    ASSUME SystemInv, NEW batch \in SUBSET Jobs, NEW locked \in SUBSET Jobs,
           NEW limit \in Limits, WorkerClaim(batch, limit, locked), NEW j \in Jobs
    PROVE  FateStep(j)
<1>1. \A k \in batch : Due(k)
  BY DEF WorkerClaim, ClaimPendingJobs, IsClaimBatch
<1>2. jobs'[j] = RowAfterClaim(j, ClaimExhausted(locked), batch)
  BY DEF WorkerClaim, ClaimPendingJobs
<1>3. jobs[j] \in JobRow /\ handlers[j] \in [AttemptNumbers -> Handler]
  BY DEF SystemInv, StoreByJob
<1>4. CASE j \in ClaimExhausted(locked)
  <2>0. j \notin batch  BY <1>1, <1>4 DEF ClaimExhausted, Due
  <2>1. jobs'[j] = [Released(jobs[j], "DEAD") EXCEPT
                      !.last_error_code = LeaseExhausted, !.finished = TRUE]
    BY <1>2, <1>4, <2>0 DEF RowAfterClaim
  <2>2. Ended(j, "DEAD", LeaseExhausted)
    BY <1>3, <2>1 DEF Ended, Left, Released, JobRow
  <2>3. jobs[j].status = "RUNNING" /\ ~HasBudget(j)
    BY <1>4 DEF ClaimExhausted, LeaseExpired
  <2>4. QED  BY <2>2, <2>3 DEF FateStep, JobBuried
<1>5. CASE j \notin ClaimExhausted(locked) /\ j \in batch
  <2>1. jobs'[j] = [jobs[j] EXCEPT !.status = "RUNNING", !.attempts = FreshToken(j),
                                   !.lease_token = FreshToken(j),
                                   !.lease_expires_at = LeaseDuration]
    BY <1>2, <1>5 DEF RowAfterClaim
  <2>2. jobs[j].status \in {"PENDING", "RUNNING"} /\ HasBudget(j)
    BY <1>1, <1>5 DEF Due, LeaseExpired
  <2>3. jobs[j].attempts + 1 \in AttemptNumbers
    BY <1>3, <2>2, BudgetAssumption DEF HasBudget, AttemptNumbers, JobRow
  <2>4. handlers'[j] = [handlers[j] EXCEPT ![jobs[j].attempts + 1] =
                          [NoHandler EXCEPT !.pc = "claimed",
                                            !.max_attempts = jobs[j].max_attempts]]
    BY <1>5 DEF WorkerClaim, FreshToken
  <2>5. handlers'[j][jobs[j].attempts + 1].max_attempts = jobs[j].max_attempts
    BY <1>3, <2>3, <2>4 DEF NoHandler
  <2>6. /\ jobs'[j].status = "RUNNING"
        /\ jobs'[j].attempts = jobs[j].attempts + 1
        /\ jobs'[j].max_attempts = jobs[j].max_attempts
        /\ jobs'[j].lease_token = jobs[j].attempts + 1
    BY <1>3, <2>1 DEF FreshToken, JobRow
  <2>7. QED  BY <2>2, <2>3, <2>5, <2>6 DEF FateStep, JobTaken
<1>6. CASE j \notin ClaimExhausted(locked) /\ j \notin batch
  BY <1>2, <1>6 DEF RowAfterClaim, FateStep, SameFate
<1>7. QED  BY <1>4, <1>5, <1>6

LEMMA FinalizeFate ==
    ASSUME SystemInv, NEW k \in Jobs, NEW n \in AttemptNumbers, Finalize(k, n), NEW j \in Jobs
    PROVE  FateStep(j)
<1>0. jobs \in [Jobs -> JobRow]  BY DEF SystemInv, StoreByJob
<1>1. CASE UNCHANGED storeVars  BY <1>1 DEF storeVars, FateStep, SameFate
<1>2. CASE Outcome(k, n) /\ k # j
  BY <1>0, <1>2 DEF Outcome, FinalizeSuccess, FinalizeRetryScheduled, FinalizeDead,
                    FateStep, SameFate
<1>3. CASE Outcome(k, n) /\ k = j
  <2>0. Holds(j, n) /\ handlers[j][n].outcome # "unknown"
    BY <1>3 DEF Outcome, IsRetryable, FinalizeSuccess, FinalizeRetryScheduled, FinalizeDead
  <2>1. CASE FinalizeSuccess(j, n)
    <3>1. Left(j, "SUCCEEDED") /\ jobs'[j].max_attempts = jobs[j].max_attempts
      BY <1>0, <2>1 DEF FinalizeSuccess, Released, Left, JobRow
    <3>2. QED  BY <2>0, <3>1 DEF FateStep, JobDecided
  <2>2. ASSUME n < handlers[j][n].max_attempts,
               NEW delay \in 0 .. MaxDelay, NEW code, FinalizeRetryScheduled(j, n, delay, code)
        PROVE  FateStep(j)
    <3>1. Ended(j, "PENDING", code)
      BY <1>0, <2>2 DEF FinalizeRetryScheduled, Released, Ended, Left, JobRow
    <3>2. QED  BY <2>0, <2>2, <3>1 DEF FateStep, JobDecided
  <2>3. ASSUME NEW code, FinalizeDead(j, n, code)
        PROVE  Ended(j, "DEAD", code)
    BY <1>0, <2>3 DEF FinalizeDead, Released, Ended, Left, JobRow
  <2>4. CASE ~(n < handlers[j][n].max_attempts) /\ FinalizeDead(j, n, Exhausted)
    BY <2>0, <2>3, <2>4 DEF FateStep, JobDecided
  <2>5. CASE handlers[j][n].outcome = "permanent" /\ FinalizeDead(j, n, Rejected)
    BY <2>0, <2>3, <2>5 DEF FateStep, JobDecided
  <2>6. QED  BY <1>3, <2>1, <2>2, <2>4, <2>5 DEF Outcome, FailureCode
<1>4. QED  BY <1>1, <1>2, <1>3 DEF Finalize

\* Every step of the system decides a job's fate in one of these ways, or not at all.
LEMMA FateOfJob ==
    ASSUME SystemInv, [SystemNext]_vars, NEW j \in Jobs
    PROVE  FateStep(j)
<1>0. jobs \in [Jobs -> JobRow]  BY DEF SystemInv, StoreByJob
<1>1. UNCHANGED jobs => FateStep(j)  BY DEF FateStep, SameFate
<1>2. ASSUME NEW k \in Jobs, NEW m \in 1 .. MaxBudget, SubmitJob(k, m)
      PROVE  FateStep(j)
  <2>1. CASE k = j
    BY <1>0, <1>2, <2>1 DEF SubmitJob, InsertJob, NoJob, FateStep, JobSubmitted
  <2>2. CASE k # j
    BY <1>0, <1>2, <2>2 DEF SubmitJob, InsertJob, FateStep, SameFate
  <2>3. QED  BY <2>1, <2>2
<1>3. ASSUME NEW o \in Operators, RetryApply(o)
      PROVE  FateStep(j)
  <2>1. CASE UNCHANGED storeVars  BY <1>1, <2>1 DEF storeVars
  <2>2. CASE RetryDeadJob(operators[o].job, operators[o].max_attempts) /\ operators[o].job = j
    <3>1. /\ jobs[j].status = "DEAD" /\ Left(j, "PENDING")
          /\ jobs'[j].max_attempts = operators[o].max_attempts
      BY <1>0, <2>2 DEF RetryDeadJob, Released, Left, JobRow
    <3>2. QED  BY <1>3, <2>2, <3>1 DEF RetryApply, FateStep, JobReplayed
  <2>3. CASE RetryDeadJob(operators[o].job, operators[o].max_attempts) /\ operators[o].job # j
    BY <1>0, <2>3 DEF RetryDeadJob, FateStep, SameFate
  <2>4. QED  BY <1>3, <2>1, <2>2, <2>3 DEF RetryApply
<1>4. ASSUME NEW k \in Jobs, NEW n \in AttemptNumbers, Heartbeat(k, n)
      PROVE  FateStep(j)
  <2>1. CASE UNCHANGED storeVars  BY <1>1, <2>1 DEF storeVars
  <2>2. CASE RenewLease(k, n)
    BY <1>0, <2>2 DEF RenewLease, FateStep, SameFate, JobRow
  <2>3. QED  BY <1>4, <2>1, <2>2 DEF Heartbeat
<1>5. ASSUME ClockTick
      PROVE  FateStep(j)
  <2>1. jobs'[j] = [jobs[j] EXCEPT
                      !.next_attempt_at = IF Active(j) THEN Aged(@, -Horizon) ELSE @,
                      !.lease_expires_at = IF @ = NULL THEN NULL ELSE Aged(@, 0)]
    BY <1>5 DEF ClockTick, Tick
  <2>2. jobs[j] \in JobRow  BY <1>0
  <2>3. SameFate(j)  BY <2>1, <2>2 DEF SameFate, JobRow
  <2>4. QED  BY <2>3 DEF FateStep
<1>6. ASSUME NEW k \in Jobs, NEW n \in AttemptNumbers,
             \/ StartCall(k, n) \/ ReceiveAnswer(k, n) \/ GiveUp(k, n)
             \/ ReceiveTimeout(k, n) \/ Crash(k, n)
             \/ ServiceCharge(k, n) \/ ServiceReject(k, n)
      PROVE  UNCHANGED jobs
  BY <1>6 DEF StartCall, ReceiveAnswer, GiveUp, ReceiveTimeout, Crash,
              ServiceCharge, ServiceReject
<1>7. ASSUME NEW o \in Operators, NEW k \in Jobs, RetryRead(o, k)
      PROVE  UNCHANGED jobs
  BY <1>7 DEF RetryRead
<1>8. UNCHANGED vars => UNCHANGED jobs  BY DEF vars
<1>9. QED
  BY <1>1, <1>2, <1>3, <1>4, <1>5, <1>6, <1>7, <1>8, ClaimFate, FinalizeFate
     DEF SystemNext, HandlerStep

-------------------------------------------------------------------------------
(* Why the code of a DEAD job is true.  DeadCodeIsTrue alone is not        *)
(* inductive: the worker decides on a copy of max_attempts, and the answer *)
(* it decides on is an older one.  Both are right when it matters: the     *)
(* budget changes only while nobody holds the job, and an outcome once     *)
(* known stays what it is.                                                 *)

\* An outcome is known only once the call is over.
Honest(h) == h.outcome # "unknown" => h.pc \in {"answered", "gone"}

\* What the worker that holds the job believes of its budget is so.
CopyIsTrue(j, n) == Holds(j, n) => handlers[j][n].max_attempts = jobs[j].max_attempts

DecisionInv ==
    /\ \A j \in Jobs, n \in AttemptNumbers : Honest(handlers[j][n]) /\ CopyIsTrue(j, n)
    /\ DeadCodeIsTrue

\* A step keeps a handler's copy and what it was told, or starts a new handler.
HandlerKept(j, n) ==
    /\ handlers'[j][n].max_attempts = handlers[j][n].max_attempts
    /\ handlers[j][n].outcome # "unknown" => handlers'[j][n].outcome = handlers[j][n].outcome

HandlerFate(j, n) ==
    /\ Honest(handlers'[j][n])
    /\ HandlerKept(j, n) \/ n = jobs[j].attempts + 1

LEMMA HandlerWriteFate ==
    ASSUME handlers \in [Jobs -> [AttemptNumbers -> Handler]],
           NEW j \in Jobs, NEW n \in AttemptNumbers, Honest(handlers[j][n]),
           HandlerStep(j, n) \/ Heartbeat(j, n)
    PROVE  Honest(handlers'[j][n]) /\ HandlerKept(j, n)
<1>0. handlers[j][n] \in Handler  OBVIOUS
<1>1. CASE StartCall(j, n)
  <2>1. handlers'[j][n] = [handlers[j][n] EXCEPT !.pc = "calling", !.heartbeat = TRUE]
    BY <1>1 DEF StartCall
  <2>2. handlers[j][n].outcome = "unknown"  BY <1>1 DEF StartCall, Honest
  <2>3. QED  BY <1>0, <2>1, <2>2 DEF Honest, HandlerKept, Handler
<1>2. CASE Heartbeat(j, n)
  <2>1. \E heartbeat : handlers'[j][n] = [handlers[j][n] EXCEPT !.heartbeat = heartbeat]
    BY <1>2 DEF Heartbeat
  <2>2. QED  BY <1>0, <2>1 DEF Honest, HandlerKept, Handler
<1>3. ASSUME NEW outcome, handlers[j][n].pc = "calling", Resolve(j, n, outcome)
      PROVE  Honest(handlers'[j][n]) /\ HandlerKept(j, n)
  <2>1. PICK late \in BOOLEAN :
          handlers' = [handlers EXCEPT ![j][n] =
                         [handlers[j][n] EXCEPT !.pc = "answered", !.outcome = outcome,
                                                !.heartbeat = late]]
    BY <1>3 DEF Resolve
  <2>2. handlers[j][n].outcome = "unknown"  BY <1>3 DEF Honest
  <2>3. QED  BY <1>0, <2>1, <2>2 DEF Honest, HandlerKept, Handler
<1>4. CASE Finalize(j, n) \/ Crash(j, n)
  <2>1. PICK late \in BOOLEAN :
          handlers' = [handlers EXCEPT ![j][n] =
                         [handlers[j][n] EXCEPT !.pc = "gone", !.heartbeat = late]]
    BY <1>4 DEF Finalize, Crash, Gone
  <2>2. QED  BY <1>0, <2>1 DEF Honest, HandlerKept, Handler
<1>5. QED
  BY <1>1, <1>2, <1>3, <1>4 DEF HandlerStep, ReceiveAnswer, GiveUp, ReceiveTimeout

LEMMA FateOfHandler ==
    ASSUME SystemInv, DecisionInv, [SystemNext]_vars, NEW j \in Jobs, NEW n \in AttemptNumbers
    PROVE  HandlerFate(j, n)
<1>0. /\ handlers \in [Jobs -> [AttemptNumbers -> Handler]]
      /\ Honest(handlers[j][n])
  BY DEF SystemInv, DecisionInv
<1>1. handlers'[j][n] = handlers[j][n] => HandlerFate(j, n)
  BY <1>0 DEF HandlerFate, HandlerKept
<1>2. ASSUME NEW k \in Jobs, NEW m \in AttemptNumbers, HandlerStep(k, m) \/ Heartbeat(k, m)
      PROVE  HandlerFate(j, n)
  <2>1. CASE k = j /\ m = n  BY <1>0, <1>2, <2>1, HandlerWriteFate DEF HandlerFate
  <2>2. CASE k # j \/ m # n
    <3>1. PICK h : handlers' = [handlers EXCEPT ![k][m] = h]
      BY <1>0, <1>2, HandlerWritten DEF HandlerStep, HandlerWrite
    <3>2. handlers'[j][n] = handlers[j][n]  BY <1>0, <2>2, <3>1
    <3>3. QED  BY <1>1, <3>2
  <2>3. QED  BY <2>1, <2>2
<1>3. ASSUME NEW batch \in SUBSET Jobs, NEW locked \in SUBSET Jobs, NEW limit \in Limits,
             WorkerClaim(batch, limit, locked)
      PROVE  HandlerFate(j, n)
  <2>1. CASE j \in batch /\ n = jobs[j].attempts + 1
    <3>1. handlers'[j][n].outcome = "unknown"
      BY <1>0, <1>3, <2>1 DEF WorkerClaim, FreshToken, NoHandler
    <3>2. QED  BY <2>1, <3>1 DEF HandlerFate, Honest
  <2>2. CASE ~(j \in batch /\ n = jobs[j].attempts + 1)
    <3>1. handlers'[j][n] = handlers[j][n]
      BY <1>0, <1>3, <2>2 DEF WorkerClaim, FreshToken
    <3>2. QED  BY <1>1, <3>1
  <2>3. QED  BY <2>1, <2>2
<1>4. ASSUME NEW k \in Jobs, NEW m \in AttemptNumbers,
             ServiceCharge(k, m) \/ ServiceReject(k, m)
      PROVE  UNCHANGED handlers
  BY <1>4 DEF ServiceCharge, ServiceReject
<1>5. ASSUME NEW k \in Jobs, NEW m \in 1 .. MaxBudget, SubmitJob(k, m)
      PROVE  UNCHANGED handlers
  BY <1>5 DEF SubmitJob
<1>6. ASSUME NEW o \in Operators, NEW k \in Jobs, RetryRead(o, k)
      PROVE  UNCHANGED handlers
  BY <1>6 DEF RetryRead
<1>7. ASSUME NEW o \in Operators, RetryApply(o)
      PROVE  UNCHANGED handlers
  BY <1>7 DEF RetryApply
<1>8. ClockTick \/ UNCHANGED vars => UNCHANGED handlers  BY DEF ClockTick, vars
<1>9. QED
  BY <1>1, <1>2, <1>3, <1>4, <1>5, <1>6, <1>7, <1>8 DEF SystemNext

LEMMA InitDecision == SystemInit => DecisionInv
BY DEF SystemInit, Init, NoJob, NoHandler, DecisionInv, Honest, CopyIsTrue, Holds,
       DeadCodeIsTrue

\* What the repository's invariant says of the attempt that holds a job.
LEMMA HolderIsLast ==
    ASSUME StoreByJob, NEW j \in Jobs
    PROVE  /\ jobs[j].attempts \in Nat /\ jobs[j].max_attempts \in Nat
           /\ jobs[j].attempts <= jobs[j].max_attempts
           /\ jobs[j].attempts # 0 => jobs[j].attempts \in AttemptNumbers
           /\ jobs[j].status = "DEAD" => jobs[j].attempts \in AttemptNumbers
           /\ \A n \in AttemptNumbers : Holds(j, n) => n = jobs[j].attempts
<1>1. JobInv(jobs[j], job_attempts[j])  BY DEF StoreByJob
<1>2. QED
  BY <1>1, BudgetAssumption, NullAssumption DEF JobInv, JobRow, AttemptNumbers, Holds

LEMMA NextCopy ==
    ASSUME SystemInv, DecisionInv, [SystemNext]_vars, NEW j \in Jobs, NEW n \in AttemptNumbers,
           Holds(j, n)'
    PROVE  handlers'[j][n].max_attempts = jobs'[j].max_attempts
<1>1. StoreByJob  BY DEF SystemInv
<1>2. /\ FateStep(j) /\ HandlerFate(j, n)
      /\ jobs'[j].status = "RUNNING" /\ jobs'[j].lease_token = n
  BY FateOfJob, FateOfHandler DEF Holds
<1>3. CASE SameFate(j)
  <2>1. Holds(j, n) /\ jobs'[j].max_attempts = jobs[j].max_attempts
    BY <1>2, <1>3 DEF SameFate, Holds
  <2>2. n = jobs[j].attempts /\ jobs[j].attempts \in Nat  BY <1>1, <2>1, HolderIsLast
  <2>3. HandlerKept(j, n)  BY <1>2, <2>2 DEF HandlerFate
  <2>4. QED  BY <2>1, <2>3 DEF HandlerKept, DecisionInv, CopyIsTrue
<1>4. CASE JobTaken(j)  BY <1>2, <1>4 DEF JobTaken
<1>5. QED
  BY <1>2, <1>3, <1>4
     DEF FateStep, JobSubmitted, JobBuried, JobDecided, JobReplayed, Ended, Left

LEMMA NextDeadCode ==
    ASSUME SystemInv, DecisionInv, [SystemNext]_vars, NEW j \in Jobs, jobs'[j].status = "DEAD"
    PROVE  /\ jobs'[j].last_error_code \in {Exhausted, Rejected, LeaseExhausted}
           /\ jobs'[j].last_error_code \in {Exhausted, LeaseExhausted} =>
                 jobs'[j].attempts = jobs'[j].max_attempts
           /\ jobs'[j].last_error_code = Rejected =>
                 handlers'[j][jobs'[j].attempts].outcome = "permanent"
<1>0. StoreByJob  BY DEF SystemInv
<1>1. /\ FateStep(j)
      /\ \A n \in AttemptNumbers : HandlerFate(j, n)
      /\ jobs[j].attempts \in Nat /\ jobs[j].max_attempts \in Nat
      /\ jobs[j].attempts <= jobs[j].max_attempts
  BY <1>0, FateOfJob, FateOfHandler, HolderIsLast
<1>2. CASE SameFate(j)
  <2>1. jobs[j].status = "DEAD" /\ jobs[j].attempts \in AttemptNumbers
    BY <1>0, <1>2, HolderIsLast DEF SameFate
  <2>2. HandlerKept(j, jobs[j].attempts)  BY <1>1, <2>1 DEF HandlerFate
  <2>3. QED  BY <1>2, <2>1, <2>2 DEF SameFate, HandlerKept, DecisionInv, DeadCodeIsTrue
<1>3. CASE JobBuried(j)
  BY <1>1, <1>3 DEF JobBuried, Ended, Left, HasBudget, LeaseExhausted, Exhausted, Rejected
<1>4. CASE JobDecided(j)
  <2>1. PICK n \in AttemptNumbers :
          /\ Holds(j, n)
          /\ handlers[j][n].outcome # "unknown"
          /\ \/ ~(n < handlers[j][n].max_attempts) /\ Ended(j, "DEAD", Exhausted)
             \/ handlers[j][n].outcome = "permanent" /\ Ended(j, "DEAD", Rejected)
    BY <1>4 DEF JobDecided, Ended, Left
  <2>2. n = jobs[j].attempts /\ handlers[j][n].max_attempts = jobs[j].max_attempts
    BY <1>0, <2>1, HolderIsLast DEF DecisionInv, CopyIsTrue
  <2>3. HandlerKept(j, n)  BY <1>1, <2>2 DEF HandlerFate
  <2>4. CASE ~(n < handlers[j][n].max_attempts) /\ Ended(j, "DEAD", Exhausted)
    BY <1>1, <2>2, <2>4 DEF Ended, Left, Exhausted, Rejected
  <2>5. CASE handlers[j][n].outcome = "permanent" /\ Ended(j, "DEAD", Rejected)
    BY <2>1, <2>2, <2>3, <2>5 DEF HandlerKept, Ended, Left, Rejected, Exhausted, LeaseExhausted
  <2>6. QED  BY <2>1, <2>4, <2>5
<1>5. QED
  BY <1>1, <1>2, <1>3, <1>4 DEF FateStep, JobSubmitted, JobTaken, JobReplayed, Left

LEMMA NextDecision == SystemInv /\ DecisionInv /\ [SystemNext]_vars => DecisionInv'
<1> SUFFICES ASSUME SystemInv, DecisionInv, [SystemNext]_vars
             PROVE  DecisionInv'
  OBVIOUS
<1>1. \A j \in Jobs, n \in AttemptNumbers : Honest(handlers'[j][n])
  BY FateOfHandler DEF HandlerFate
<1>2. \A j \in Jobs, n \in AttemptNumbers : CopyIsTrue(j, n)'
  BY NextCopy DEF CopyIsTrue
<1>3. DeadCodeIsTrue'  BY NextDeadCode DEF DeadCodeIsTrue
<1>4. QED  BY <1>1, <1>2, <1>3 DEF DecisionInv, Honest, AttemptNumbers

\* The reason written to a DEAD job is the real one, although the worker
\* computes it from the budget it read when it claimed the job: "exhausted"
\* only of a budget that is spent, "rejected" only of a charge that was.
THEOREM DeadCodesAreTrue == SystemSpec => []DeadCodeIsTrue
<1>1. SystemSpec => []DecisionInv
  BY InitDecision, NextDecision, SystemInvariant, PTL DEF SystemSpec
<1>2. DecisionInv => DeadCodeIsTrue  BY DEF DecisionInv
<1>3. QED  BY <1>1, <1>2, PTL

-------------------------------------------------------------------------------
(* A replayed job has an attempt to make.  The budget of a replay is       *)
(* decided on a row read one statement before it is written: two replays   *)
(* of one job that overlap break the property (run RetryRace).  Nothing    *)
(* else does: without such an overlap a decision, once made, stays right   *)
(* until it is applied.                                                    *)

\* At no time have two operators decided on a replay of the same job.
NoReplayRace ==
    \A o, p \in Operators :
        operators[o] # NULL /\ operators[p] # NULL /\ operators[o].job = operators[p].job
        => o = p

BudgetInv ==
    /\ \A o \in Operators : operators[o] # NULL =>
          /\ jobs[operators[o].job].status = "DEAD"
          /\ jobs[operators[o].job].attempts < operators[o].max_attempts
    /\ PendingHasBudget

LEMMA InitReplay == SystemInit => BudgetInv
BY DEF SystemInit, Init, NoJob, BudgetInv, PendingHasBudget

LEMMA NextPending ==
    ASSUME SystemInv, DecisionInv, BudgetInv, [SystemNext]_vars,
           NEW j \in Jobs, jobs'[j].status = "PENDING"
    PROVE  jobs'[j].attempts < jobs'[j].max_attempts
<1>0. StoreByJob  BY DEF SystemInv
<1>1. FateStep(j) /\ jobs[j].attempts \in Nat  BY <1>0, FateOfJob, HolderIsLast
<1>2. CASE SameFate(j)
  BY <1>2 DEF SameFate, BudgetInv, PendingHasBudget, HasBudget
<1>3. CASE JobSubmitted(j)  BY <1>3 DEF JobSubmitted
<1>4. CASE JobDecided(j)
  <2>1. PICK n \in AttemptNumbers :
          /\ Holds(j, n)
          /\ n < handlers[j][n].max_attempts /\ \E code : Ended(j, "PENDING", code)
    BY <1>4 DEF JobDecided, Ended, Left
  <2>2. n = jobs[j].attempts /\ handlers[j][n].max_attempts = jobs[j].max_attempts
    BY <1>0, <2>1, HolderIsLast DEF DecisionInv, CopyIsTrue
  <2>3. QED  BY <2>1, <2>2 DEF Ended, Left
<1>5. CASE JobReplayed(j)  BY <1>5 DEF JobReplayed, Left, BudgetInv
<1>6. QED
  BY <1>1, <1>2, <1>3, <1>4, <1>5 DEF FateStep, JobBuried, JobTaken, Ended, Left

\* An operator's decision is made while the job is DEAD, is kept, or is dropped.
LEMMA NextDecided ==
    ASSUME SystemInv, [SystemNext]_vars, NEW o \in Operators
    PROVE  \/ operators'[o] \in {NULL, operators[o]}
           \/ /\ UNCHANGED jobs
              /\ \E j \in Jobs, m \in Nat :
                    /\ operators'[o] = [job |-> j, max_attempts |-> m]
                    /\ jobs[j].status = "DEAD" /\ jobs[j].attempts < m
<1>0. operators \in [Operators -> [job : Jobs, max_attempts : AttemptNumbers] \cup {NULL}]
  BY DEF SystemInv
<1>1. ASSUME NEW p \in Operators, NEW j \in Jobs, RetryRead(p, j)
      PROVE  \/ operators'[o] = operators[o]
             \/ /\ UNCHANGED jobs
                /\ \E m \in Nat :
                      /\ operators'[o] = [job |-> j, max_attempts |-> m]
                      /\ jobs[j].status = "DEAD" /\ jobs[j].attempts < m
  <2>1. jobs[j].attempts \in Nat  BY HolderIsLast DEF SystemInv
  <2>2. \A m \in RetryBudgets(jobs[j].attempts) : m \in Nat /\ jobs[j].attempts < m
    BY <2>1, OperatorAssumption DEF RetryBudgets
  <2>3. PICK m \in RetryBudgets(jobs[j].attempts) :
          operators' = [operators EXCEPT ![p] = [job |-> j, max_attempts |-> m]]
    BY <1>1 DEF RetryRead
  <2>4. jobs[j].status = "DEAD" /\ UNCHANGED jobs  BY <1>1 DEF RetryRead
  <2>5. CASE p = o  BY <1>0, <2>2, <2>3, <2>4, <2>5
  <2>6. CASE p # o  BY <1>0, <2>3, <2>6
  <2>7. QED  BY <2>5, <2>6
<1>2. ASSUME NEW p \in Operators, RetryApply(p)
      PROVE  operators'[o] \in {NULL, operators[o]}
  BY <1>0, <1>2 DEF RetryApply
<1>3. ASSUME NEW j \in Jobs, NEW n \in AttemptNumbers,
             \/ HandlerStep(j, n) \/ Heartbeat(j, n)
             \/ ServiceCharge(j, n) \/ ServiceReject(j, n)
      PROVE  UNCHANGED operators
  BY <1>3 DEF HandlerStep, StartCall, ReceiveAnswer, GiveUp, ReceiveTimeout, Finalize, Crash,
              Heartbeat, ServiceCharge, ServiceReject
<1>4. ASSUME NEW j \in Jobs, NEW m \in 1 .. MaxBudget, SubmitJob(j, m)
      PROVE  UNCHANGED operators
  BY <1>4 DEF SubmitJob
<1>5. ASSUME NEW batch \in SUBSET Jobs, NEW locked \in SUBSET Jobs, NEW limit \in Limits,
             WorkerClaim(batch, limit, locked)
      PROVE  UNCHANGED operators
  BY <1>5 DEF WorkerClaim
<1>6. ClockTick \/ UNCHANGED vars => UNCHANGED operators  BY DEF ClockTick, vars
<1>7. QED  BY <1>1, <1>2, <1>3, <1>4, <1>5, <1>6 DEF SystemNext

LEMMA NextReplay ==
    SystemInv /\ DecisionInv /\ NoReplayRace /\ BudgetInv /\ [SystemNext]_vars => BudgetInv'
<1> SUFFICES ASSUME SystemInv, DecisionInv, NoReplayRace, BudgetInv, [SystemNext]_vars
             PROVE  BudgetInv'
  OBVIOUS
<1>1. PendingHasBudget'  BY NextPending DEF PendingHasBudget, HasBudget
<1>2. ASSUME NEW o \in Operators, operators'[o] # NULL
      PROVE  /\ jobs'[operators'[o].job].status = "DEAD"
             /\ jobs'[operators'[o].job].attempts < operators'[o].max_attempts
  <2>1. CASE operators'[o] = operators[o]
    <3> DEFINE j == operators[o].job
    <3>1. operators[o] # NULL  BY <1>2, <2>1
    <3>2. /\ j \in Jobs /\ jobs[j].status = "DEAD"
          /\ jobs[j].attempts < operators[o].max_attempts
      BY <3>1 DEF SystemInv, BudgetInv
    <3>3. FateStep(j)  BY <3>2, FateOfJob
    <3>4. ~JobReplayed(j)
      <4>1. SUFFICES ASSUME JobReplayed(j)
                     PROVE  FALSE
        OBVIOUS
      <4>2. PICK p \in Operators :
              /\ operators[p] # NULL /\ operators[p].job = j
              /\ operators' = [operators EXCEPT ![p] = NULL]
        BY <4>1 DEF JobReplayed
      <4>3. p = o  BY <3>1, <4>2 DEF NoReplayRace
      <4>4. operators'[o] = NULL  BY <4>2, <4>3 DEF SystemInv
      <4>5. QED  BY <1>2, <4>4
    <3>5. StoreByJob /\ \A n \in AttemptNumbers : ~Holds(j, n)
      BY <3>2 DEF SystemInv, Holds
    <3>6. SameFate(j)
      BY <3>2, <3>3, <3>4, <3>5
         DEF FateStep, JobSubmitted, JobBuried, JobTaken, JobDecided
    <3>7. QED  BY <2>1, <3>2, <3>6 DEF SameFate
  <2>2. CASE operators'[o] # operators[o]
    <3>1. PICK j \in Jobs, m \in Nat :
            /\ operators'[o] = [job |-> j, max_attempts |-> m]
            /\ jobs[j].status = "DEAD" /\ jobs[j].attempts < m
            /\ UNCHANGED jobs
      BY <1>2, <2>2, NextDecided
    <3>2. QED  BY <3>1
  <2>3. QED  BY <2>1, <2>2
<1>3. QED  BY <1>1, <1>2 DEF BudgetInv

\* What breaks the budget of a replayed job is the race of two replays of it,
\* and only that: as long as none ever happens, no job is left PENDING without
\* an attempt to make, whatever workers do with the budgets they copied.
THEOREM OnlyRacesStarve == SystemSpec /\ []NoReplayRace => []PendingHasBudget
<1>1. SystemSpec => []DecisionInv
  BY InitDecision, NextDecision, SystemInvariant, PTL DEF SystemSpec
<1>2. SystemSpec /\ []NoReplayRace => []BudgetInv
  BY <1>1, InitReplay, NextReplay, SystemInvariant, PTL DEF SystemSpec
<1>3. BudgetInv => PendingHasBudget  BY DEF BudgetInv
<1>4. QED  BY <1>2, <1>3, PTL

\* With one operator at a time there is no race, and so no such job.
THEOREM OneOperatorIsSafe ==
    ASSUME \A o, p \in Operators : o = p
    PROVE  SystemSpec => []PendingHasBudget
<1>1. NoReplayRace  BY DEF NoReplayRace
<1>2. QED  BY <1>1, OnlyRacesStarve, PTL

-------------------------------------------------------------------------------
(* What the workers are told of the charges is what ChargeLedger promises. *)
(* An attempt's handler, its request and the row it may have inserted run  *)
(* apart - the handler may be gone while the request still travels - and   *)
(* CallInv says how far.                                                   *)

RowBy(j, n) == \E c \in charges : c.job = j /\ c.by = n

CallInv(j, n) ==
    LET h == handlers[j][n]
        request == requests[j][n]
    IN  /\ n > jobs[j].attempts => h.pc = "none"
        /\ h.pc \in {"none", "claimed"} => request = "none"
        /\ Honest(h)
        /\ request \in {"ok", "transient", "permanent"} => h.pc = "calling"
        /\ request = "sent" => h.outcome \in {"unknown", "transient", "ambiguous"}
        /\ request \in {"none", "sent", "transient", "permanent"} \/ h.outcome = "permanent"
           => ~RowBy(j, n)

CallsInv == \A j \in Jobs, n \in AttemptNumbers : CallInv(j, n)

\* What a step may do to an attempt: nothing, ...
CallBecomes(j, n, pc, outcome, request) ==
    /\ handlers'[j][n].pc = pc
    /\ handlers'[j][n].outcome = outcome
    /\ requests'[j][n] = request

CallKept(j, n) ==
    CallBecomes(j, n, handlers[j][n].pc, handlers[j][n].outcome, requests[j][n])

\* ... claim it, ...
CallTaken(j, n) ==
    /\ n = jobs[j].attempts + 1 /\ jobs'[j].attempts = n
    /\ CallBecomes(j, n, "claimed", "unknown", requests[j][n])

\* ... or, with every other attempt kept, one of these.
CallStarted(j, n) ==
    /\ handlers[j][n].pc = "claimed"
    /\ CallBecomes(j, n, "calling", handlers[j][n].outcome, "sent")

CallAnswered(j, n) ==
    /\ handlers[j][n].pc = "calling"
    /\ requests[j][n] \in {"ok", "transient", "permanent"}
    /\ CallBecomes(j, n, "answered", requests[j][n], "over")

Unanswered(request) == IF request \in {"none", "sent"} THEN request ELSE "over"

CallGivenUp(j, n) ==
    /\ handlers[j][n].pc = "calling"
    /\ \E outcome \in {"ambiguous", "transient"} :
          CallBecomes(j, n, "answered", outcome, Unanswered(requests[j][n]))

CallEnded(j, n) ==
    /\ Alive(j, n)
    /\ \/ /\ handlers[j][n].pc = "answered"
          /\ CallBecomes(j, n, "gone", handlers[j][n].outcome, requests[j][n])
       \/ CallBecomes(j, n, "gone", handlers[j][n].outcome, Unanswered(requests[j][n]))

RowInserted(j, n) ==
    /\ ~ \E c \in charges : c.key = j
    /\ charges' = charges \cup {[key |-> j, job |-> j, by |-> n]}

CallServed(j, n) ==
    /\ requests[j][n] = "sent"
    /\ \E answer \in {"ok", "transient", "permanent", "over"} :
          /\ answer # "over" => handlers[j][n].pc = "calling"
          /\ CallBecomes(j, n, handlers[j][n].pc, handlers[j][n].outcome, answer)
          /\ UNCHANGED charges \/ (answer \in {"ok", "over"} /\ RowInserted(j, n))

CallStep(j, n) ==
    /\ \A k \in Jobs, m \in AttemptNumbers : k # j \/ m # n => CallKept(k, m)
    /\ \/ /\ UNCHANGED charges
          /\ CallStarted(j, n) \/ CallAnswered(j, n) \/ CallGivenUp(j, n) \/ CallEnded(j, n)
       \/ CallServed(j, n)

\* Or the step only moves jobs, and attempts on with them.
NoCallStep ==
    /\ UNCHANGED charges
    /\ \A k \in Jobs, m \in AttemptNumbers : CallKept(k, m) \/ CallTaken(k, m)

LEMMA OneCallWritten ==
    ASSUME handlers \in [Jobs -> [AttemptNumbers -> Handler]], requests \in Requests,
           NEW j \in Jobs, NEW n \in AttemptNumbers, NEW h, NEW request,
           \/ handlers' = [handlers EXCEPT ![j][n] = h]
           \/ handlers' = handlers /\ h = handlers[j][n],
           \/ requests' = [requests EXCEPT ![j][n] = request]
           \/ requests' = requests /\ request = requests[j][n]
    PROVE  /\ CallBecomes(j, n, h.pc, h.outcome, request)
           /\ \A k \in Jobs, m \in AttemptNumbers : k # j \/ m # n => CallKept(k, m)
<1>1. handlers'[j][n] = h /\ requests'[j][n] = request  BY DEF Requests
<1>2. ASSUME NEW k \in Jobs, NEW m \in AttemptNumbers, k # j \/ m # n
      PROVE  handlers'[k][m] = handlers[k][m] /\ requests'[k][m] = requests[k][m]
  BY <1>2 DEF Requests
<1>3. QED  BY <1>1, <1>2 DEF CallBecomes, CallKept

LEMMA HandlerCallStep ==
    ASSUME SystemInv, NEW j \in Jobs, NEW n \in AttemptNumbers, HandlerStep(j, n)
    PROVE  CallStep(j, n)
<1>0. /\ handlers \in [Jobs -> [AttemptNumbers -> Handler]] /\ requests \in Requests
      /\ handlers[j][n] \in Handler /\ requests[j][n] \in RequestStates
  BY DEF SystemInv, Requests
<1>1. CASE StartCall(j, n)
  <2> DEFINE h == [handlers[j][n] EXCEPT !.pc = "calling", !.heartbeat = TRUE]
  <2>1. h.pc = "calling" /\ h.outcome = handlers[j][n].outcome  BY <1>0 DEF Handler
  <2>2. /\ handlers' = [handlers EXCEPT ![j][n] = h]
        /\ requests' = [requests EXCEPT ![j][n] = "sent"]
    BY <1>1 DEF StartCall
  <2>3. handlers[j][n].pc = "claimed" /\ UNCHANGED charges  BY <1>1 DEF StartCall
  <2> HIDE DEF h
  <2>4. /\ CallBecomes(j, n, h.pc, h.outcome, "sent")
        /\ \A k \in Jobs, m \in AttemptNumbers : k # j \/ m # n => CallKept(k, m)
    BY <1>0, <2>2, OneCallWritten
  <2>5. QED  BY <2>1, <2>3, <2>4 DEF CallStep, CallStarted
<1>2. ASSUME NEW outcome \in {"ok", "transient", "permanent", "ambiguous"},
             Resolve(j, n, outcome)
      PROVE  \E h : /\ handlers' = [handlers EXCEPT ![j][n] = h]
                    /\ h.pc = "answered" /\ h.outcome = outcome
  <2>1. PICK late \in BOOLEAN :
          handlers' = [handlers EXCEPT ![j][n] =
                         [handlers[j][n] EXCEPT !.pc = "answered", !.outcome = outcome,
                                                !.heartbeat = late]]
    BY <1>2 DEF Resolve
  <2> DEFINE h == [handlers[j][n] EXCEPT !.pc = "answered", !.outcome = outcome,
                                         !.heartbeat = late]
  <2>2. h.pc = "answered" /\ h.outcome = outcome  BY <1>0 DEF Handler
  <2>3. handlers' = [handlers EXCEPT ![j][n] = h]  BY <2>1
  <2> HIDE DEF h
  <2>4. QED  BY <2>2, <2>3
<1>3. CASE ReceiveAnswer(j, n)
  <2>1. /\ handlers[j][n].pc = "calling" /\ UNCHANGED charges
        /\ requests[j][n] \in {"ok", "transient", "permanent"}
        /\ Resolve(j, n, requests[j][n])
        /\ requests' = [requests EXCEPT ![j][n] = "over"]
    BY <1>3 DEF ReceiveAnswer
  <2>2. PICK h : /\ handlers' = [handlers EXCEPT ![j][n] = h]
                 /\ h.pc = "answered" /\ h.outcome = requests[j][n]
    BY <1>2, <2>1
  <2>3. /\ CallBecomes(j, n, h.pc, h.outcome, "over")
        /\ \A k \in Jobs, m \in AttemptNumbers : k # j \/ m # n => CallKept(k, m)
    BY <1>0, <2>1, <2>2, OneCallWritten
  <2>4. QED  BY <2>1, <2>2, <2>3 DEF CallStep, CallAnswered
<1>4. CASE GiveUp(j, n) \/ ReceiveTimeout(j, n)
  <2>1. PICK outcome \in {"ambiguous", "transient"} : Resolve(j, n, outcome)
    BY <1>4 DEF GiveUp, ReceiveTimeout
  <2>2. PICK request :
          /\ handlers[j][n].pc = "calling" /\ UNCHANGED charges
          /\ requests' = [requests EXCEPT ![j][n] = request]
          /\ request = Unanswered(requests[j][n])
    BY <1>4 DEF GiveUp, ReceiveTimeout, Abandon, Unanswered
  <2>3. PICK h : /\ handlers' = [handlers EXCEPT ![j][n] = h]
                 /\ h.pc = "answered" /\ h.outcome = outcome
    BY <1>2, <2>1
  <2>4. /\ CallBecomes(j, n, h.pc, h.outcome, request)
        /\ \A k \in Jobs, m \in AttemptNumbers : k # j \/ m # n => CallKept(k, m)
    <3>1. handlers' = [handlers EXCEPT ![j][n] = h]  BY <2>3
    <3>2. requests' = [requests EXCEPT ![j][n] = request]  BY <2>2
    <3>3. QED  BY <1>0, <3>1, <3>2, OneCallWritten
  <2>5. QED  BY <2>2, <2>3, <2>4 DEF CallStep, CallGivenUp
<1>5. CASE Finalize(j, n) \/ Crash(j, n)
  <2>1. PICK late \in BOOLEAN :
          handlers' = [handlers EXCEPT ![j][n] =
                         [handlers[j][n] EXCEPT !.pc = "gone", !.heartbeat = late]]
    BY <1>5 DEF Finalize, Crash, Gone
  <2> DEFINE h == [handlers[j][n] EXCEPT !.pc = "gone", !.heartbeat = late]
  <2>2. h.pc = "gone" /\ h.outcome = handlers[j][n].outcome  BY <1>0 DEF Handler
  <2>3. handlers' = [handlers EXCEPT ![j][n] = h]  BY <2>1
  <2>4. Alive(j, n) /\ UNCHANGED charges  BY <1>5 DEF Finalize, Crash, Alive
  <2>5. PICK request :
          /\ \/ request = requests[j][n] /\ handlers[j][n].pc = "answered"
             \/ request = Unanswered(requests[j][n])
          /\ \/ requests' = [requests EXCEPT ![j][n] = request]
             \/ requests' = requests /\ request = requests[j][n]
    BY <1>5 DEF Finalize, Crash, Abandon, Unanswered
  <2> HIDE DEF h
  <2>6. /\ CallBecomes(j, n, h.pc, h.outcome, request)
        /\ \A k \in Jobs, m \in AttemptNumbers : k # j \/ m # n => CallKept(k, m)
    BY <1>0, <2>3, <2>5, OneCallWritten
  <2>7. QED  BY <2>2, <2>4, <2>5, <2>6 DEF CallStep, CallEnded
<1>6. QED  BY <1>1, <1>3, <1>4, <1>5 DEF HandlerStep

LEMMA ServiceCallStep ==
    ASSUME SystemInv, NEW j \in Jobs, NEW n \in AttemptNumbers,
           ServiceCharge(j, n) \/ ServiceReject(j, n)
    PROVE  CallStep(j, n)
<1>0. /\ handlers \in [Jobs -> [AttemptNumbers -> Handler]] /\ requests \in Requests
      /\ requests[j][n] = "sent" /\ UNCHANGED handlers
  BY DEF SystemInv, ServiceCharge, ServiceReject
<1>1. PICK answer \in {"ok", "transient", "permanent", "over"} :
        /\ answer # "over" => handlers[j][n].pc = "calling"
        /\ requests' = [requests EXCEPT ![j][n] = answer]
        /\ UNCHANGED charges \/ (answer \in {"ok", "over"} /\ RowInserted(j, n))
  BY DEF ServiceCharge, ServiceReject, Reply, RowInserted, ChargeIdempotencyKey
<1>2. /\ CallBecomes(j, n, handlers[j][n].pc, handlers[j][n].outcome, answer)
      /\ \A k \in Jobs, m \in AttemptNumbers : k # j \/ m # n => CallKept(k, m)
  BY <1>0, <1>1, OneCallWritten
<1>3. QED  BY <1>0, <1>1, <1>2 DEF CallStep, CallServed

LEMMA ClaimCallStep ==
    ASSUME SystemInv, NEW batch \in SUBSET Jobs, NEW locked \in SUBSET Jobs,
           NEW limit \in Limits, WorkerClaim(batch, limit, locked)
    PROVE  NoCallStep
<1>1. ASSUME NEW k \in Jobs, NEW m \in AttemptNumbers
      PROVE  CallKept(k, m) \/ CallTaken(k, m)
  <2>0. /\ handlers[k] \in [AttemptNumbers -> Handler] /\ jobs[k] \in JobRow
        /\ requests' = requests
    BY DEF SystemInv, StoreByJob, WorkerClaim
  <2>1. CASE k \in batch /\ m = FreshToken(k)
    <3>1. handlers'[k][m] = [NoHandler EXCEPT !.pc = "claimed",
                                              !.max_attempts = jobs[k].max_attempts]
      BY <2>0, <2>1 DEF WorkerClaim
    <3>2. k \notin ClaimExhausted(locked)
      BY <2>1 DEF WorkerClaim, ClaimPendingJobs, IsClaimBatch, ClaimExhausted, Due
    <3>3. jobs'[k].attempts = m
      BY <2>0, <2>1, <3>2 DEF WorkerClaim, ClaimPendingJobs, RowAfterClaim, JobRow
    <3>4. QED
      BY <2>0, <2>1, <3>1, <3>3 DEF CallTaken, CallBecomes, FreshToken, NoHandler
  <2>2. CASE ~(k \in batch /\ m = FreshToken(k))
    <3>1. handlers'[k][m] = handlers[k][m]  BY <2>0, <2>2 DEF WorkerClaim
    <3>2. QED  BY <2>0, <3>1 DEF CallKept, CallBecomes
  <2>3. QED  BY <2>1, <2>2
<1>2. QED  BY <1>1 DEF NoCallStep, WorkerClaim

\* Each step of the system is one attempt's, or none's.
LEMMA StepOfCalls ==
    ASSUME SystemInv, [SystemNext]_vars
    PROVE  NoCallStep \/ \E j \in Jobs, n \in AttemptNumbers : CallStep(j, n)
<1>1. UNCHANGED <<handlers, requests, charges>> => NoCallStep
  BY DEF NoCallStep, CallKept, CallBecomes
<1>2. ASSUME NEW j \in Jobs, NEW n \in AttemptNumbers, Heartbeat(j, n)
      PROVE  NoCallStep
  <2>1. PICK heartbeat :
          handlers' = [handlers EXCEPT ![j][n] =
                         [handlers[j][n] EXCEPT !.heartbeat = heartbeat]]
    BY <1>2 DEF Heartbeat
  <2> DEFINE h == [handlers[j][n] EXCEPT !.heartbeat = heartbeat]
  <2>2. /\ handlers \in [Jobs -> [AttemptNumbers -> Handler]] /\ requests \in Requests
        /\ handlers[j][n] \in Handler
    BY DEF SystemInv
  <2>3. h.pc = handlers[j][n].pc /\ h.outcome = handlers[j][n].outcome
    BY <2>2 DEF Handler
  <2>4. handlers' = [handlers EXCEPT ![j][n] = h]  BY <2>1
  <2>5. UNCHANGED <<requests, charges>>  BY <1>2 DEF Heartbeat
  <2> HIDE DEF h
  <2>6. /\ CallBecomes(j, n, h.pc, h.outcome, requests[j][n])
        /\ \A k \in Jobs, m \in AttemptNumbers : k # j \/ m # n => CallKept(k, m)
    BY <2>2, <2>4, <2>5, OneCallWritten
  <2>7. QED  BY <2>3, <2>5, <2>6 DEF NoCallStep, CallKept
<1>3. ASSUME NEW j \in Jobs, NEW m \in 1 .. MaxBudget, SubmitJob(j, m)
      PROVE  UNCHANGED <<handlers, requests, charges>>
  BY <1>3 DEF SubmitJob
<1>4. ASSUME NEW o \in Operators, NEW j \in Jobs, RetryRead(o, j)
      PROVE  UNCHANGED <<handlers, requests, charges>>
  BY <1>4 DEF RetryRead
<1>5. ASSUME NEW o \in Operators, RetryApply(o)
      PROVE  UNCHANGED <<handlers, requests, charges>>
  BY <1>5 DEF RetryApply
<1>6. ClockTick \/ UNCHANGED vars => UNCHANGED <<handlers, requests, charges>>
  BY DEF ClockTick, vars
<1>7. QED
  BY <1>1, <1>2, <1>3, <1>4, <1>5, <1>6, HandlerCallStep, ServiceCallStep, ClaimCallStep
     DEF SystemNext
LEMMA InitCalls == SystemInit => CallsInv
BY DEF SystemInit, Init, NoJob, NoHandler, CallsInv, CallInv, Honest, RowBy

LEMMA NextCall ==
    ASSUME SystemInv, CallsInv, [SystemNext]_vars, NEW k \in Jobs, NEW m \in AttemptNumbers
    PROVE  CallInv(k, m)'
<1>0. /\ CallInv(k, m)
      /\ jobs[k].attempts \in Nat /\ jobs'[k].attempts \in Nat
      /\ jobs'[k].attempts >= jobs[k].attempts
  BY SystemStepUsesStore, AttemptsGrow DEF CallsInv, SystemInv
<1>1. UNCHANGED charges => (RowBy(k, m)' <=> RowBy(k, m))  BY DEF RowBy
<1>2. m \in Nat  BY DEF AttemptNumbers
<1>3. CASE CallKept(k, m) /\ (RowBy(k, m)' <=> RowBy(k, m))
  BY <1>0, <1>2, <1>3 DEF CallKept, CallBecomes, CallInv, Honest
<1>4. CASE CallTaken(k, m) /\ UNCHANGED charges
  <2>1. handlers[k][m].pc = "none"  BY <1>0, <1>2, <1>4 DEF CallTaken, CallInv
  <2>2. requests[k][m] = "none" /\ ~RowBy(k, m)  BY <1>0, <2>1 DEF CallInv
  <2>3. QED  BY <1>1, <1>2, <1>4, <2>2 DEF CallTaken, CallBecomes, CallInv, Honest
<1>5. ASSUME NEW j \in Jobs, NEW n \in AttemptNumbers, CallStep(j, n)
      PROVE  CallInv(k, m)'
  <2>1. CASE k # j \/ m # n
    <3>1. CallKept(k, m)  BY <1>5, <2>1 DEF CallStep
    <3>2. RowInserted(j, n) => (RowBy(k, m)' <=> RowBy(k, m))
      BY <2>1 DEF RowInserted, RowBy
    <3>3. UNCHANGED charges \/ RowInserted(j, n)  BY <1>5 DEF CallStep, CallServed
    <3>4. QED  BY <1>1, <1>3, <3>1, <3>2, <3>3
  <2>2. CASE k = j /\ m = n
    <3>1. CASE UNCHANGED charges /\ CallStarted(k, m)
      BY <1>0, <1>1, <1>2, <3>1 DEF CallStarted, CallBecomes, CallInv, Honest
    <3>2. CASE UNCHANGED charges /\ CallAnswered(k, m)
      BY <1>0, <1>1, <1>2, <3>2 DEF CallAnswered, CallBecomes, CallInv, Honest
    <3>3. CASE UNCHANGED charges /\ CallGivenUp(k, m)
      BY <1>0, <1>1, <1>2, <3>3 DEF CallGivenUp, CallBecomes, Unanswered, CallInv, Honest
    <3>4. CASE UNCHANGED charges /\ CallEnded(k, m)
      BY <1>0, <1>1, <1>2, <3>4 DEF CallEnded, Alive, CallBecomes, Unanswered, CallInv, Honest
    <3>5. CASE CallServed(k, m)
      <4>1. requests[k][m] = "sent"  BY <3>5 DEF CallServed
      <4>2. PICK answer \in {"ok", "transient", "permanent", "over"} :
              /\ answer # "over" => handlers[k][m].pc = "calling"
              /\ CallBecomes(k, m, handlers[k][m].pc, handlers[k][m].outcome, answer)
              /\ UNCHANGED charges \/ answer \in {"ok", "over"}
        BY <3>5 DEF CallServed
      <4>3. /\ handlers[k][m].pc \notin {"none", "claimed"}
            /\ handlers[k][m].outcome # "permanent" /\ ~RowBy(k, m)
        BY <1>0, <4>1 DEF CallInv
      <4>4. QED
        BY <1>0, <1>1, <1>2, <4>2, <4>3 DEF CallBecomes, CallInv, Honest
    <3>6. QED  BY <1>5, <2>2, <3>1, <3>2, <3>3, <3>4, <3>5 DEF CallStep
  <2>3. QED  BY <2>1, <2>2
<1>6. QED
  BY <1>1, <1>3, <1>4, <1>5, StepOfCalls DEF NoCallStep

LEMMA NextCalls == SystemInv /\ CallsInv /\ [SystemNext]_vars => CallsInv'
BY NextCall DEF CallsInv, AttemptNumbers

\* The refinement: what a step does to an attempt, in ChargeLedger's words.
LEMMA LedgerWords ==
    ASSUME OneRowPerKey, NEW j \in Jobs, NEW n \in AttemptNumbers
    PROVE  /\ <<j, n>> \in Attempts
           /\ ToldTo[<<j, n>>] = Told(j, n)
           /\ Ledger!RowOf(<<j, n>>) = [key |-> j, payload |-> j, by |-> <<j, n>>]
           /\ Ledger!RowOf(<<j, n>>) \in ChargeRows <=> RowBy(j, n)
           /\ \A row \in Ledger!Found(<<j, n>>) : row.payload = j
           /\ Ledger!Found(<<j, n>>) = {} <=> ~ \E c \in charges : c.key = j
<1>1. <<j, n>> \in Attempts /\ ToldTo[<<j, n>>] = Told(j, n)  BY DEF Attempts, ToldTo
<1>2. Ledger!RowOf(<<j, n>>) = [key |-> j, payload |-> j, by |-> <<j, n>>]
  BY <1>1 DEF Ledger!RowOf, ChargeIdempotencyKey
<1>3. \A c \in charges : c.key = c.job  BY DEF OneRowPerKey
<1>4. [key |-> j, payload |-> j, by |-> <<j, n>>] \in ChargeRows <=> RowBy(j, n)
  <2>1. ASSUME RowBy(j, n)
        PROVE  [key |-> j, payload |-> j, by |-> <<j, n>>] \in ChargeRows
    <3>1. PICK c \in charges : c.job = j /\ c.by = n  BY <2>1 DEF RowBy
    <3>2. [key |-> c.key, payload |-> c.job, by |-> <<c.job, c.by>>] \in ChargeRows
      BY DEF ChargeRows
    <3>3. QED  BY <1>3, <3>1, <3>2
  <2>2. ASSUME [key |-> j, payload |-> j, by |-> <<j, n>>] \in ChargeRows
        PROVE  RowBy(j, n)
    <3>1. PICK c \in charges :
            [key |-> j, payload |-> j, by |-> <<j, n>>]
            = [key |-> c.key, payload |-> c.job, by |-> <<c.job, c.by>>]
      BY <2>2 DEF ChargeRows
    <3>2. <<j, n>> = <<c.job, c.by>>  BY <3>1
    <3>3. QED  BY <3>2 DEF RowBy
  <2>3. QED  BY <2>1, <2>2
<1>5. Ledger!Found(<<j, n>>) = {row \in ChargeRows : row.key = j}
  BY <1>1 DEF Ledger!Found, ChargeIdempotencyKey
<1>6. \A row \in ChargeRows : \E c \in charges : row.key = c.key /\ row.payload = c.job
  BY DEF ChargeRows
<1>7. ASSUME NEW c \in charges
      PROVE  \E row \in ChargeRows : row.key = c.key
  <2> DEFINE row == [key |-> c.key, payload |-> c.job, by |-> <<c.job, c.by>>]
  <2>1. row \in ChargeRows /\ row.key = c.key  BY DEF ChargeRows
  <2>2. QED  BY <2>1
<1>8. QED  BY <1>1, <1>2, <1>3, <1>4, <1>5, <1>6, <1>7

\* An attempt is told nothing new unless its outcome changes.
LEMMA ToldNothing ==
    ASSUME NEW j \in Jobs, NEW n \in AttemptNumbers,
           handlers'[j][n].outcome = handlers[j][n].outcome,
           handlers[j][n].outcome = "ok" => (RowBy(j, n)' <=> RowBy(j, n))
    PROVE  Told(j, n)' = Told(j, n)
BY DEF Told, RowBy

LEMMA ToldIsKept ==
    ASSUME \A j \in Jobs, n \in AttemptNumbers : Told(j, n)' = Told(j, n)
    PROVE  UNCHANGED ToldTo
<1>1. \A r \in Attempts : r[1] \in Jobs /\ r[2] \in AttemptNumbers  BY DEF Attempts
<1>2. \A r \in Attempts : Told(r[1], r[2])' = Told(r[1], r[2])  BY <1>1
<1>3. ToldTo' = [r \in Attempts |-> Told(r[1], r[2])']  BY DEF ToldTo, Attempts, AttemptNumbers
<1>4. QED  BY <1>2, <1>3 DEF ToldTo

\* What a handler takes for the truth when its outcome becomes known is true.
LEMMA ToldTheTruth ==
    ASSUME SystemInv, CallsInv, NEW j \in Jobs, NEW n \in AttemptNumbers,
           CallAnswered(j, n) \/ CallGivenUp(j, n), UNCHANGED charges
    PROVE  /\ Told(j, n) = "none"
           /\ Told(j, n)' \in Ledger!Answers \ {"none"}
           /\ Ledger!Truthful(<<j, n>>, Told(j, n)')
<1>0. OneRowPerKey /\ CallInv(j, n) /\ (RowBy(j, n)' <=> RowBy(j, n))
  BY DEF SystemInv, LedgerInv, CallsInv, RowBy
<1>1. handlers[j][n].pc = "calling" /\ handlers[j][n].outcome = "unknown"
  BY <1>0 DEF CallAnswered, CallGivenUp, CallInv, Honest
<1>2. CASE handlers'[j][n].outcome = "ok"
  <2>1. requests[j][n] = "ok"
    BY <1>2 DEF CallAnswered, CallGivenUp, CallBecomes
  <2>2. CASE RowBy(j, n)
    <3>1. Told(j, n)' = "created"  BY <1>0, <1>2, <2>2 DEF Told, RowBy
    <3>2. Ledger!RowOf(<<j, n>>) \in ChargeRows  BY <1>0, <2>2, LedgerWords
    <3>3. QED  BY <1>1, <3>1, <3>2 DEF Told, Ledger!Answers, Ledger!Truthful
  <2>3. CASE ~RowBy(j, n)
    <3>1. Told(j, n)' = "replayed"  BY <1>0, <1>2, <2>3 DEF Told, RowBy
    <3>2. Charged(j)  BY <2>1 DEF SystemInv, LedgerInv
    <3>a. \E c \in charges : c.key = j  BY <1>0, <3>2 DEF Charged, OneRowPerKey
    <3>b. Ledger!Found(<<j, n>>) # {}  BY <1>0, <3>a, LedgerWords
    <3>3. PICK row \in Ledger!Found(<<j, n>>) : TRUE  BY <3>b
    <3>4. row.payload = j /\ row.by # <<j, n>>
      <4>1. row.payload = j  BY <1>0, LedgerWords
      <4>2. row \in ChargeRows /\ row.key = j
        BY DEF Ledger!Found, Attempts, ChargeIdempotencyKey
      <4>3. row.by # <<j, n>>
        <5>1. PICK c \in charges :
                row = [key |-> c.key, payload |-> c.job, by |-> <<c.job, c.by>>]
          BY <4>2 DEF ChargeRows
        <5>2. <<c.job, c.by>> # <<j, n>>  BY <2>3 DEF RowBy
        <5>3. QED  BY <5>1, <5>2
      <4>4. QED  BY <4>1, <4>3
    <3>5. <<j, n>> \in Attempts /\ <<j, n>>[1] = j  BY DEF Attempts
    <3>6. QED
      BY <1>1, <3>1, <3>3, <3>4, <3>5 DEF Told, Ledger!Answers, Ledger!Truthful
  <2>4. QED  BY <2>2, <2>3
<1>3. CASE handlers'[j][n].outcome = "permanent"
  <2>1. requests[j][n] = "permanent"
    BY <1>3 DEF CallAnswered, CallGivenUp, CallBecomes
  <2>2. ~RowBy(j, n)  BY <1>0, <2>1 DEF CallInv
  <2>3. Told(j, n)' = "rejected"  BY <1>3 DEF Told
  <2>4. Ledger!RowOf(<<j, n>>) \notin ChargeRows  BY <1>0, <2>2, LedgerWords
  <2>5. QED  BY <1>1, <2>3, <2>4 DEF Told, Ledger!Answers, Ledger!Truthful
<1>4. CASE handlers'[j][n].outcome \in {"transient", "ambiguous"}
  <2>1. Told(j, n)' = "lost"  BY <1>4 DEF Told
  <2>2. QED  BY <1>1, <2>1 DEF Told, Ledger!Answers, Ledger!Truthful
<1>5. QED
  BY <1>2, <1>3, <1>4 DEF CallAnswered, CallGivenUp, CallBecomes

LEMMA StepRefinesLedger ==
    ASSUME SystemInv, CallsInv, [SystemNext]_vars
    PROVE  [Ledger!Next]_<<ChargeRows, ToldTo>>
<1>0. OneRowPerKey  BY DEF SystemInv, LedgerInv
<1>1. UNCHANGED charges => UNCHANGED ChargeRows /\ \A k, m : RowBy(k, m)' <=> RowBy(k, m)
  BY DEF ChargeRows, RowBy
<1>2. CASE NoCallStep
  <2>1. ASSUME NEW k \in Jobs, NEW m \in AttemptNumbers
        PROVE  Told(k, m)' = Told(k, m)
    <3>1. CASE CallKept(k, m)
      BY <1>1, <1>2, <3>1, ToldNothing DEF NoCallStep, CallKept, CallBecomes
    <3>2. CASE CallTaken(k, m)
      <4>1. jobs[k].attempts \in Nat /\ CallInv(k, m)
        BY HolderIsLast DEF SystemInv, CallsInv
      <4>2. handlers[k][m].outcome = "unknown"
        BY <3>2, <4>1 DEF CallTaken, CallInv, Honest
      <4>3. QED  BY <3>2, <4>2, ToldNothing DEF CallTaken, CallBecomes
    <3>3. QED  BY <1>2, <3>1, <3>2 DEF NoCallStep
  <2>2. QED  BY <1>1, <1>2, <2>1, ToldIsKept DEF NoCallStep
<1>3. ASSUME NEW j \in Jobs, NEW n \in AttemptNumbers, CallStep(j, n)
      PROVE  [Ledger!Next]_<<ChargeRows, ToldTo>>
  <2>0. /\ \A k \in Jobs, m \in AttemptNumbers : k # j \/ m # n => CallKept(k, m)
        /\ <<j, n>> \in Attempts /\ CallInv(j, n)
    BY <1>3 DEF CallStep, Attempts, CallsInv
  <2>1. ASSUME UNCHANGED charges, handlers'[j][n].outcome = handlers[j][n].outcome
        PROVE  UNCHANGED <<ChargeRows, ToldTo>>
    <3>1. ASSUME NEW k \in Jobs, NEW m \in AttemptNumbers
          PROVE  Told(k, m)' = Told(k, m)
      BY <1>1, <2>0, <2>1, ToldNothing DEF CallKept, CallBecomes
    <3>2. QED  BY <1>1, <2>1, <3>1, ToldIsKept
  <2>2. CASE UNCHANGED charges /\ (CallStarted(j, n) \/ CallEnded(j, n))
    BY <2>1, <2>2 DEF CallStarted, CallEnded, CallBecomes
  <2>3. CASE UNCHANGED charges /\ (CallAnswered(j, n) \/ CallGivenUp(j, n))
    <3>1. /\ Told(j, n) = "none"
          /\ Told(j, n)' \in Ledger!Answers \ {"none"}
          /\ Ledger!Truthful(<<j, n>>, Told(j, n)')
      BY <2>3, ToldTheTruth
    <3>2. ToldTo[<<j, n>>] = "none"  BY <1>0, <3>1, LedgerWords
    <3>3. ToldTo' = [ToldTo EXCEPT ![<<j, n>>] = Told(j, n)']
      <4>1. ASSUME NEW k \in Jobs, NEW m \in AttemptNumbers, k # j \/ m # n
            PROVE  Told(k, m)' = Told(k, m)
        BY <1>1, <2>0, <2>3, <4>1, ToldNothing DEF CallKept, CallBecomes
      <4>2. \A r \in Attempts : r[1] \in Jobs /\ r[2] \in AttemptNumbers /\ r = <<r[1], r[2]>>
        BY DEF Attempts
      <4>3. \A r \in Attempts : r # <<j, n>> => Told(r[1], r[2])' = Told(r[1], r[2])
        BY <4>1, <4>2
      <4>4. ToldTo' = [r \in Attempts |-> Told(r[1], r[2])']
        BY DEF ToldTo, Attempts, AttemptNumbers
      <4>5. ASSUME NEW r \in Attempts
            PROVE  Told(r[1], r[2])' = [ToldTo EXCEPT ![<<j, n>>] = Told(j, n)'][r]
        <5>1. CASE r = <<j, n>>
          BY <2>0, <5>1 DEF ToldTo
        <5>2. CASE r # <<j, n>>
          BY <4>3, <5>2 DEF ToldTo
        <5>3. QED  BY <5>1, <5>2
      <4>6. QED  BY <4>4, <4>5 DEF ToldTo
    <3>4. Ledger!Answer(<<j, n>>)  BY <1>1, <2>3, <3>1, <3>2, <3>3 DEF Ledger!Answer
    <3>5. QED  BY <2>0, <3>4 DEF Ledger!Next
  <2>4. CASE CallServed(j, n)
    <3>1. handlers'[j][n].outcome = handlers[j][n].outcome /\ requests[j][n] = "sent"
      BY <2>4 DEF CallServed, CallBecomes
    <3>2. CASE UNCHANGED charges  BY <2>1, <3>1, <3>2
    <3>3. CASE RowInserted(j, n)
      <4>1. handlers[j][n].outcome \in {"unknown", "transient", "ambiguous"}
        BY <2>0, <3>1 DEF CallInv
      <4>2. ASSUME NEW k \in Jobs, NEW m \in AttemptNumbers
            PROVE  Told(k, m)' = Told(k, m)
        <5>1. CASE k = j /\ m = n  BY <3>1, <4>1, <5>1, ToldNothing
        <5>2. CASE k # j \/ m # n
          <6>1. RowBy(k, m)' <=> RowBy(k, m)  BY <3>3, <5>2 DEF RowInserted, RowBy
          <6>2. QED  BY <2>0, <5>2, <6>1, ToldNothing DEF CallKept, CallBecomes
        <5>3. QED  BY <5>1, <5>2
      <4>3. ToldTo[<<j, n>>] \in {"none", "lost"}
        BY <1>0, <4>1, LedgerWords DEF Told
      <4>4. Ledger!Found(<<j, n>>) = {}  BY <1>0, <3>3, LedgerWords DEF RowInserted
      <4>5. ChargeRows' = ChargeRows \cup {Ledger!RowOf(<<j, n>>)}
        <5>1. ChargeRows' = ChargeRows \cup {[key |-> j, payload |-> j, by |-> <<j, n>>]}
          <6> DEFINE Row(c) == [key |-> c.key, payload |-> c.job, by |-> <<c.job, c.by>>]
                     new    == [key |-> j, job |-> j, by |-> n]
          <6>1. charges' = charges \cup {new}  BY <3>3 DEF RowInserted
          <6>2. Row(new) = [key |-> j, payload |-> j, by |-> <<j, n>>]  OBVIOUS
          <6>3. ChargeRows = {Row(c) : c \in charges} /\ ChargeRows' = {Row(c) : c \in charges'}
            BY DEF ChargeRows
          <6> HIDE DEF Row, new
          <6>4. {Row(c) : c \in charges \cup {new}} = {Row(c) : c \in charges} \cup {Row(new)}
            OBVIOUS
          <6>5. QED  BY <6>1, <6>2, <6>3, <6>4
        <5>2. QED  BY <1>0, <5>1, LedgerWords
      <4>6. Ledger!Record(<<j, n>>)  BY <4>2, <4>3, <4>4, <4>5, ToldIsKept DEF Ledger!Record
      <4>7. QED  BY <2>0, <4>6 DEF Ledger!Next
    <3>4. QED  BY <2>4, <3>2, <3>3 DEF CallServed
  <2>5. QED  BY <1>3, <2>2, <2>3, <2>4 DEF CallStep
<1>4. QED  BY <1>2, <1>3, StepOfCalls

LEMMA InitLedgerWords == SystemInit => Ledger!Init
<1> SUFFICES ASSUME SystemInit
             PROVE  Ledger!Init
  OBVIOUS
<1>1. ChargeRows = {}  BY DEF SystemInit, ChargeRows
<1>2. ASSUME NEW r \in Attempts
      PROVE  Told(r[1], r[2]) = "none"
  BY DEF SystemInit, NoHandler, Told, Attempts
<1>3. QED  BY <1>1, <1>2 DEF Ledger!Init, ToldTo

\* Guarantee 3 as the workers live it: through lost answers, timeouts, crashes
\* and requests that land after their handler is gone, the charges table and
\* what attempts are told of it are the append-only, truthful ledger that
\* module FakeCharge is shown to implement.
THEOREM SystemUsesLedger == SystemSpec => UsesLedger
<1>1. SystemSpec => []CallsInv
  BY InitCalls, NextCalls, SystemInvariant, PTL DEF SystemSpec
<1>2. QED
  BY <1>1, InitLedgerWords, StepRefinesLedger, SystemInvariant, PTL
     DEF SystemSpec, UsesLedger, Ledger!Spec

===============================================================================
