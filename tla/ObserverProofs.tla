----------------------------- MODULE ObserverProofs -----------------------------
(***************************************************************************)
(* Proofs about what observers of the store are told while it moves: the   *)
(* answer to GET /v1/jobs/{id} (JobReads), put together from two           *)
(* snapshots; the worker's counters (Metrics), raised after the            *)
(* statements they count; the correctness gate of the drivers that crash   *)
(* workers (CrashDrill), which asks the tables when their loop has         *)
(* stopped; and the listings (JobListing), read a page at a time.          *)
(*                                                                         *)
(* An answer is coherent because of what a row that was read still says    *)
(* of the trail later on (RowReadIsGood). A counter is right because each  *)
(* finalization adds one pair <<job, attempt>> to what the trail records   *)
(* and one to what is counted, owed or forgotten; and because each debt    *)
(* for a reclaim is matched by the attempt that was lost for it. The gate  *)
(* passes because of what the store guarantees and because the loop stops  *)
(* only when nothing is left (DrillInv); and a drill of the benchmark      *)
(* costs each job one attempt because of the stage each job is in: not     *)
(* yet claimed, held before or after its crash, lost with its lease        *)
(* running, done (CrashInv).                                               *)
(*                                                                         *)
(* A page is right because the rows before a row of it are counted: the    *)
(* n-th has n - 1 of them (RowPlaces), so a page is sorted, begins after   *)
(* the cursor and skips nothing (PageRows). What was listed and what is    *)
(* owed then agree with the cursor, whatever comes or moves (ListingInv).  *)
(***************************************************************************)
EXTENDS JobReads, Metrics, CrashDrill, JobListing, JobStoreProofs, FiniteSetTheorems,
        SequenceTheorems

-------------------------------------------------------------------------------
(* GET /v1/jobs/{id}.                                                      *)

\* What the row that a request has read still explains, however far the job has
\* gone on since: an attempt that ended a life as DEAD is never held again.
RowReadIsGood ==
    LET j     == reader.id
        row   == reader.row
        trail == job_attempts[j]
    IN  /\ j \in Jobs
        /\ row.attempts \in Nat /\ row.attempts <= jobs[j].attempts
        /\ row.status = "SUCCEEDED" => jobs[j] = row
        /\ row.status = "DEAD" =>
              /\ row.attempts >= 1
              /\ \/ trail[row.attempts].outcome = "DEAD"
                    /\ trail[row.attempts].error_code = row.last_error_code
                 \/ trail[row.attempts].outcome = "LEASE_LOST"
                    /\ row.last_error_code = LeaseExhausted
              /\ jobs[j].attempts = row.attempts => jobs[j].status # "RUNNING"

ReadInv ==
    /\ StoreByJob
    /\ reader.pc \in {"idle", "got row", "answered"}
    /\ reader.pc = "got row" => RowReadIsGood
    /\ AnswerIsCoherent

LEMMA AttemptsCounted == \A k \in Nat : Cardinality(1 .. k) = k
BY FS_Interval

LEMMA InitRead == ReadInit => ReadInv
<1> SUFFICES ASSUME ReadInit  PROVE ReadInv
  OBVIOUS
<1>1. StoreByJob  BY InitStore DEF ReadInit
<1>2. reader.pc = "idle"  BY DEF ReadInit, NoRequest
<1>3. QED
  BY <1>1, <1>2 DEF ReadInv, AnswerIsCoherent, AnswerNeverLags, FinishedAnswerIsExplained

\* The repository moves while the request has its row.
LEMMA RowStaysGood ==
    ASSUME StoreByJob, RowReadIsGood, [Next]_storeVars, UNCHANGED reader
    PROVE  RowReadIsGood'
<1> DEFINE j == reader.id
           row == reader.row
           n == reader.row.attempts
<1>1. j \in Jobs /\ n \in Nat /\ n <= jobs[j].attempts  BY DEF RowReadIsGood
<1>2. DOMAIN job_attempts[j] = 1 .. jobs[j].attempts  BY <1>1, LifeFacts
<1>3. /\ jobs[j].attempts \in Nat /\ jobs'[j].attempts \in Nat
      /\ jobs'[j].attempts >= jobs[j].attempts
      /\ jobs'[j].attempts = jobs[j].attempts /\ jobs'[j].status = "RUNNING"
            => jobs[j].status = "RUNNING"
  BY <1>1, AttemptsGrow
<1>4. n <= jobs'[j].attempts  BY <1>1, <1>3
<1>5. row.status = "SUCCEEDED" => jobs'[j] = row
  BY <1>1, SucceededStep DEF RowReadIsGood
<1>6. ASSUME row.status = "DEAD"
      PROVE  /\ job_attempts'[j][n] = job_attempts[j][n]
             /\ jobs'[j].attempts = n => jobs'[j].status # "RUNNING"
  <2>1. /\ n >= 1 /\ job_attempts[j][n].outcome \in {"DEAD", "LEASE_LOST"}
        /\ jobs[j].attempts = n => jobs[j].status # "RUNNING"
    BY <1>6 DEF RowReadIsGood
  <2>2. n \in DOMAIN job_attempts[j]  BY <1>1, <1>2, <1>3, <2>1
  <2>3. ~Holds(j, n)
    <3>1. SUFFICES ASSUME Holds(j, n)  PROVE FALSE
      OBVIOUS
    <3>2. jobs[j].status = "RUNNING" /\ jobs[j].attempts = n
      BY <1>1, <3>1, LifeFacts DEF Holds
    <3>3. QED  BY <2>1, <3>2
  <2>4. job_attempts'[j][n] = job_attempts[j][n]
    BY <1>1, <2>1, <2>2, <2>3, AttemptRowStep
  <2>5. jobs'[j].attempts = n => jobs[j].attempts = n
    BY <1>1, <1>3
  <2>6. QED  BY <1>3, <2>1, <2>4, <2>5
<1>7. QED  BY <1>1, <1>4, <1>5, <1>6 DEF RowReadIsGood

\* The second statement, and the answer.
LEMMA AnswerGood ==
    ASSUME StoreByJob, RowReadIsGood, GetAttempts
    PROVE  AnswerIsCoherent'
<1> DEFINE j == reader.id
           row == reader.row
           n == reader.row.attempts
           trail == job_attempts[j]
           k == jobs[j].attempts
           answer == JobDetail(row, trail)
<1>1. j \in Jobs /\ n \in Nat /\ n <= k  BY DEF RowReadIsGood
<1>2. /\ k \in Nat /\ DOMAIN trail = 1 .. k
      /\ \A m \in 1 .. k : /\ m # k => trail[m].outcome # "OPEN"
                           /\ m = k => trail[m].outcome \in LastOutcomes(jobs[j].status)
      /\ \A m \in 1 .. k :
            m # k => trail[m].outcome \in {"RETRY_SCHEDULED", "DEAD", "LEASE_LOST"}
  BY <1>1, LifeFacts DEF StoreByJob, JobInv
<1>3. /\ answer.job.status = row.status /\ answer.job.attempts = n
      /\ answer.job.last_error_code = row.last_error_code
      /\ DOMAIN answer.attempts = DOMAIN trail
      /\ \A m \in DOMAIN trail :
            /\ answer.attempts[m].outcome = trail[m].outcome
            /\ answer.attempts[m].error_code = trail[m].error_code
  BY DEF JobDetail, JobSummary, AttemptSummary
<1>4. reader'.answer = answer
  <2> HIDE DEF answer
  <2>1. reader' = [pc |-> "answered", id |-> reader.id, row |-> NoJob, answer |-> answer]
    BY DEF GetAttempts, answer
  <2>2. QED  BY <2>1
<1> HIDE DEF answer
<1>5. Cardinality(DOMAIN answer.attempts) = k
  <2>1. Cardinality(1 .. k) = k  BY <1>2, AttemptsCounted
  <2>2. QED  BY <1>2, <1>3, <2>1
<1>6. AnswerNeverLags'
  <2>1. \A m \in 1 .. n - 1 : m \in 1 .. k /\ m # k  BY <1>1, <1>2
  <2>2. \A m \in 1 .. n - 1 : answer.attempts[m].outcome # "OPEN"
    BY <1>2, <1>3, <2>1
  <2>3. QED  BY <1>1, <1>2, <1>3, <1>4, <1>5, <2>2 DEF AnswerNeverLags
<1>7. FinishedAnswerIsExplained'
  <2>1. ASSUME row.status = "SUCCEEDED"
        PROVE  /\ DOMAIN answer.attempts = 1 .. n
               /\ \A m \in DOMAIN answer.attempts :
                     (answer.attempts[m].outcome = "SUCCEEDED") = (m = n)
    <3>1. k = n /\ jobs[j].status = "SUCCEEDED"  BY <2>1 DEF RowReadIsGood
    <3>2. QED  BY <1>2, <1>3, <3>1, LastOutcomesValues
  <2>2. ASSUME row.status = "DEAD"
        PROVE  \/ /\ answer.attempts[n].outcome = "DEAD"
                  /\ answer.attempts[n].error_code = row.last_error_code
               \/ /\ answer.attempts[n].outcome = "LEASE_LOST"
                  /\ row.last_error_code = LeaseExhausted
    <3>1. n \in DOMAIN trail  BY <1>1, <1>2, <2>2 DEF RowReadIsGood
    <3>2. QED  BY <1>3, <2>2, <3>1 DEF RowReadIsGood
  <2>3. QED  BY <1>3, <1>4, <2>1, <2>2 DEF FinishedAnswerIsExplained
<1>8. QED  BY <1>6, <1>7 DEF AnswerIsCoherent

LEMMA GotRow ==
    ASSUME StoreByJob, NEW j \in Jobs, GetRow(j)
    PROVE  RowReadIsGood' /\ reader'.pc = "got row"
<1>1. reader'.pc = "got row" /\ reader'.id = j /\ reader'.row = jobs[j]  BY DEF GetRow
<1>2. jobs' = jobs /\ job_attempts' = job_attempts  BY DEF GetRow, storeVars
<1>3. jobs[j].attempts \in Nat  BY LifeFacts
<1>4. ASSUME jobs[j].status = "DEAD"
      PROVE  /\ jobs[j].attempts >= 1
             /\ \/ job_attempts[j][jobs[j].attempts].outcome = "DEAD"
                   /\ job_attempts[j][jobs[j].attempts].error_code = jobs[j].last_error_code
                \/ job_attempts[j][jobs[j].attempts].outcome = "LEASE_LOST"
                   /\ jobs[j].last_error_code = LeaseExhausted
  <2>1. DeadIsExplained  BY StoreInvByJob DEF StoreByJob, StoreInv
  <2>2. QED  BY <1>4, <2>1 DEF DeadIsExplained
<1>5. /\ reader'.id \in Jobs
      /\ reader'.row.attempts \in Nat /\ reader'.row.attempts <= jobs'[reader'.id].attempts
      /\ reader'.row.status = "SUCCEEDED" => jobs'[reader'.id] = reader'.row
  <2>1. jobs'[reader'.id] = reader'.row  BY <1>1, <1>2
  <2>2. reader'.row.attempts \in Nat  BY <1>1, <1>3
  <2>3. reader'.row.attempts <= jobs'[reader'.id].attempts  BY <2>1, <2>2
  <2>4. QED  BY <1>1, <2>1, <2>2, <2>3
<1>6. ASSUME reader'.row.status = "DEAD"
      PROVE  /\ reader'.row.attempts >= 1
             /\ LET last == job_attempts'[reader'.id][reader'.row.attempts]
                IN  \/ last.outcome = "DEAD" /\ last.error_code = reader'.row.last_error_code
                    \/ last.outcome = "LEASE_LOST"
                       /\ reader'.row.last_error_code = LeaseExhausted
             /\ jobs'[reader'.id].status # "RUNNING"
  <2>1. jobs[j].status = "DEAD"  BY <1>1, <1>6
  <2>2. /\ reader'.row.attempts = jobs[j].attempts
        /\ reader'.row.last_error_code = jobs[j].last_error_code
        /\ job_attempts'[reader'.id] = job_attempts[j]
        /\ jobs'[reader'.id].status = "DEAD"
    BY <1>1, <1>2, <2>1
  <2>3. QED  BY <1>4, <2>1, <2>2
<1>7. QED  BY <1>1, <1>5, <1>6 DEF RowReadIsGood

LEMMA NextRead == ReadInv /\ [ReadNext]_readVars => ReadInv'
<1> SUFFICES ASSUME ReadInv, [ReadNext]_readVars  PROVE ReadInv'
  OBVIOUS
<1>1. StoreByJob /\ AnswerIsCoherent /\ reader.pc \in {"idle", "got row", "answered"}
      /\ (reader.pc = "got row" => RowReadIsGood)
  BY DEF ReadInv
<1>2. [Next]_storeVars
  BY DEF ReadNext, Reading, readVars, storeVars, GetRow, GetAttempts, Done
<1>3. StoreByJob'  BY <1>1, <1>2, NextStore
<1>4. CASE UNCHANGED reader
  <2>1. AnswerIsCoherent'
    BY <1>1, <1>4 DEF AnswerIsCoherent, AnswerNeverLags, FinishedAnswerIsExplained
  <2>2. reader'.pc = "got row" => RowReadIsGood'  BY <1>1, <1>2, <1>4, RowStaysGood
  <2>3. QED  BY <1>1, <1>3, <1>4, <2>1, <2>2 DEF ReadInv
<1>5. ASSUME NEW j \in Jobs, GetRow(j)
      PROVE  ReadInv'
  BY <1>1, <1>3, <1>5, GotRow
     DEF ReadInv, AnswerIsCoherent, AnswerNeverLags, FinishedAnswerIsExplained
<1>6. CASE GetAttempts
  <2>1. reader'.pc = "answered"  BY <1>6 DEF GetAttempts
  <2>2. AnswerIsCoherent'  BY <1>1, <1>6, AnswerGood DEF GetAttempts
  <2>3. QED  BY <1>3, <2>1, <2>2 DEF ReadInv
<1>7. CASE Done
  <2>1. reader'.pc = "idle"  BY <1>7 DEF Done, NoRequest
  <2>2. QED
    BY <1>3, <2>1 DEF ReadInv, AnswerIsCoherent, AnswerNeverLags, FinishedAnswerIsExplained
<1>8. QED  BY <1>4, <1>5, <1>6, <1>7 DEF ReadNext, Reading, readVars

\* However the repository moves between the two statements of get_job, for any
\* number of jobs, attempts and replays: the answer lists every attempt its row
\* counts, and explains a SUCCEEDED or a DEAD it shows.
THEOREM AnswersAreCoherent == ReadSpec => []AnswerIsCoherent
<1>1. ReadInv => AnswerIsCoherent  BY DEF ReadInv
<1>2. QED  BY <1>1, InitRead, NextRead, PTL DEF ReadSpec

-------------------------------------------------------------------------------
(* The worker's counters.                                                  *)

TaskStates ==
    [pc : {"none", "spawned", "running", "committed", "over"}, owes : SUBSET Counters]

\* Only a task that is spawned, or committed, owes a counter; and attempts that
\* were not claimed yet have no task.
TaskInv ==
    /\ tasks \in [Jobs -> [Attempts -> TaskStates]]
    /\ \A j \in Jobs, n \in Attempts :
          /\ tasks[j][n].pc \in {"none", "running"} => tasks[j][n].owes = {}
          /\ n > jobs[j].attempts => tasks[j][n].pc = "none"

CountInv ==
    /\ counters \in [Counters -> Nat]
    /\ forgotten \in [Counters -> Nat]
    /\ CountersMatchTrail

MetricsInv == StoreByJob /\ TaskInv /\ CountInv

\* All that was ever due to counter c.
Total(c) == counters[c] + Owed(c) + forgotten[c]

LEMMA TasksAreFinite == IsFiniteSet(Jobs \X Attempts)
<1>1. IsFiniteSet(Attempts)  BY BudgetAssumption, FS_Interval DEF Attempts
<1>2. QED  BY <1>1, JobsAssumption, FS_Product

LEMMA AllFinite ==
    /\ \A c : IsFiniteSet(Owing(c)) /\ Owed(c) \in Nat
    /\ \A outcome : /\ IsFiniteSet(Recorded(outcome))
                    /\ Cardinality(Recorded(outcome)) \in Nat
    /\ IsFiniteSet(LeftBehind) /\ Cardinality(LeftBehind) \in Nat
<1>1. /\ \A c : Owing(c) \in SUBSET (Jobs \X Attempts)
      /\ \A outcome : Recorded(outcome) \in SUBSET (Jobs \X Attempts)
      /\ LeftBehind \in SUBSET (Jobs \X Attempts)
  BY DEF Owing, Recorded, LeftBehind
<1>2. \A S \in SUBSET (Jobs \X Attempts) : IsFiniteSet(S) /\ Cardinality(S) \in Nat
  BY TasksAreFinite, FS_Subset, FS_CardinalityType
<1>3. QED  BY <1>1, <1>2 DEF Owed

LEMMA AllFiniteNext ==
    /\ \A c : IsFiniteSet(Owing(c)') /\ Owed(c)' \in Nat
    /\ \A outcome : /\ IsFiniteSet(Recorded(outcome)')
                    /\ Cardinality(Recorded(outcome)') \in Nat
    /\ IsFiniteSet(LeftBehind') /\ Cardinality(LeftBehind') \in Nat
<1>1. /\ \A c : Owing(c)' \in SUBSET (Jobs \X Attempts)
      /\ \A outcome : Recorded(outcome)' \in SUBSET (Jobs \X Attempts)
      /\ LeftBehind' \in SUBSET (Jobs \X Attempts)
  BY DEF Owing, Recorded, LeftBehind
<1>2. \A S \in SUBSET (Jobs \X Attempts) : IsFiniteSet(S) /\ Cardinality(S) \in Nat
  BY TasksAreFinite, FS_Subset, FS_CardinalityType
<1>3. QED  BY <1>1, <1>2 DEF Owed

-------------------------------------------------------------------------------
\* One task moves on.
LEMMA TaskAfter ==
    ASSUME tasks \in [Jobs -> [Attempts -> TaskStates]], NEW j \in Jobs, NEW n \in Attempts,
           NEW pc, NEW owes, Becomes(j, n, pc, owes), NEW i \in Jobs, NEW m \in Attempts
    PROVE  tasks'[i][m] = IF i = j /\ m = n THEN [pc |-> pc, owes |-> owes] ELSE tasks[i][m]
<1>1. tasks' = [tasks EXCEPT ![j] = [tasks[j] EXCEPT ![n] = [pc |-> pc, owes |-> owes]]]
  BY DEF Becomes
<1>2. tasks'[i] = IF i = j THEN [tasks[j] EXCEPT ![n] = [pc |-> pc, owes |-> owes]]
                  ELSE tasks[i]
  BY <1>1
<1>3. tasks[j] \in [Attempts -> TaskStates]  OBVIOUS
<1>4. QED  BY <1>2, <1>3

LEMMA TasksAfter ==
    ASSUME tasks \in [Jobs -> [Attempts -> TaskStates]], NEW j \in Jobs, NEW n \in Attempts,
           NEW pc \in {"none", "spawned", "running", "committed", "over"},
           NEW owes \in SUBSET Counters, Becomes(j, n, pc, owes)
    PROVE  tasks' \in [Jobs -> [Attempts -> TaskStates]]
<1>1. tasks' = [tasks EXCEPT ![j] = [tasks[j] EXCEPT ![n] = [pc |-> pc, owes |-> owes]]]
  BY DEF Becomes
<1>2. [pc |-> pc, owes |-> owes] \in TaskStates  BY DEF TaskStates
<1>3. tasks[j] \in [Attempts -> TaskStates]  OBVIOUS
<1>4. [tasks[j] EXCEPT ![n] = [pc |-> pc, owes |-> owes]] \in [Attempts -> TaskStates]
  BY <1>2, <1>3
<1>5. QED  BY <1>1, <1>4

LEMMA OwedAfter ==
    ASSUME tasks \in [Jobs -> [Attempts -> TaskStates]], NEW j \in Jobs, NEW n \in Attempts,
           NEW pc, NEW owes, Becomes(j, n, pc, owes), NEW c
    PROVE  Owed(c)' = Owed(c) + (IF c \in owes THEN 1 ELSE 0)
                              - (IF c \in tasks[j][n].owes THEN 1 ELSE 0)
<1> DEFINE t == <<j, n>>
<1>1. t \in Owing(c) <=> c \in tasks[j][n].owes  BY DEF Owing
<1>2. Owing(c)' = IF c \in owes THEN Owing(c) \cup {t} ELSE Owing(c) \ {t}
  <2>1. ASSUME NEW i \in Jobs, NEW m \in Attempts
        PROVE  <<i, m>> \in Owing(c)' <=>
                  IF <<i, m>> = t THEN c \in owes ELSE <<i, m>> \in Owing(c)
    <3>1. <<i, m>> \in Owing(c)' <=> c \in tasks'[i][m].owes  BY DEF Owing
    <3>2. <<i, m>> \in Owing(c) <=> c \in tasks[i][m].owes  BY DEF Owing
    <3>3. tasks'[i][m] = IF i = j /\ m = n THEN [pc |-> pc, owes |-> owes] ELSE tasks[i][m]
      BY TaskAfter
    <3>4. <<i, m>> = t <=> i = j /\ m = n  OBVIOUS
    <3>5. QED  BY <3>1, <3>2, <3>3, <3>4
  <2>2. Owing(c) \subseteq Jobs \X Attempts /\ Owing(c)' \subseteq Jobs \X Attempts
        /\ t \in Jobs \X Attempts
    BY DEF Owing
  <2>3. \A s \in Jobs \X Attempts :
           s \in Owing(c)' <=> IF s = t THEN c \in owes ELSE s \in Owing(c)
    BY <2>1
  <2> HIDE DEF t
  <2>4. QED  BY <2>2, <2>3
<1>3. IsFiniteSet(Owing(c))  BY AllFinite
<1> HIDE DEF t
<1>4. /\ Cardinality(Owing(c) \cup {t}) = IF t \in Owing(c) THEN Cardinality(Owing(c))
                                          ELSE Cardinality(Owing(c)) + 1
      /\ Cardinality(Owing(c) \ {t}) = IF t \in Owing(c) THEN Cardinality(Owing(c)) - 1
                                       ELSE Cardinality(Owing(c))
  BY <1>3, FS_AddElement, FS_RemoveElement
<1>5. Cardinality(Owing(c)) \in Nat  BY AllFinite DEF Owed
<1>6. QED  BY <1>1, <1>2, <1>4, <1>5 DEF Owed

LEMMA Raised ==
    ASSUME NEW count \in [Counters -> Nat], NEW names
    PROVE  /\ Raise(count, names) \in [Counters -> Nat]
           /\ \A c \in Counters :
                 Raise(count, names)[c] = count[c] + (IF c \in names THEN 1 ELSE 0)
BY DEF Raise

-------------------------------------------------------------------------------
\* The repository, as the counters see it.
LEMMA StoreMoves ==
    ASSUME [MetricsNext]_metricsVars
    PROVE  [Next]_storeVars
<1>1. ASSUME NEW j \in Jobs, NEW n \in Attempts, NEW outcome, FinalizeAs(j, n, outcome)
      PROVE  Next
  <2>1. 0 \in 0 .. MaxDelay  BY TimeAssumption
  <2>2. QED  BY <1>1, <2>1 DEF FinalizeAs, Next, Attempts
<1>2. ASSUME NEW batch \in SUBSET Jobs, NEW limit \in Limits, Claim(batch, limit)
      PROVE  Next
  <2>1. {} \in SUBSET Jobs  OBVIOUS
  <2>2. ClaimPendingJobs(batch, limit, {})  BY <1>2 DEF Claim
  <2>3. QED  BY <2>1, <2>2 DEF Next
<1>3. ASSUME NEW j \in Jobs, NEW n \in Attempts, TaskStep(j, n)
      PROVE  [Next]_storeVars
  BY <1>1, <1>3 DEF TaskStep, StartTask, Commit, LoseLease, FailToFinalize, Count, storeVars
<1>4. CASE Restart  BY <1>4 DEF Restart, storeVars
<1>5. CASE Others  BY <1>5 DEF Others, Next, Attempts
<1>6. CASE UNCHANGED metricsVars  BY <1>6 DEF metricsVars, storeVars
<1>7. QED  BY <1>2, <1>3, <1>4, <1>5, <1>6 DEF MetricsNext

\* What is left behind stays lost: only the attempt that holds the job changes.
LEMMA LeftBehindStays ==
    ASSUME StoreByJob, [Next]_storeVars
    PROVE  LeftBehind \subseteq LeftBehind'
<1>1. ASSUME NEW j \in Jobs, NEW n \in Attempts, <<j, n>> \in LeftBehind
      PROVE  <<j, n>> \in LeftBehind'
  <2>1. /\ n \in DOMAIN job_attempts[j] /\ job_attempts[j][n].outcome = "LEASE_LOST"
        /\ n < jobs[j].attempts
    BY <1>1 DEF LeftBehind, Recorded
  <2>2. jobs[j].attempts \in Nat /\ jobs'[j].attempts \in Nat
        /\ jobs'[j].attempts >= jobs[j].attempts
    BY AttemptsGrow
  <2>3. ~Holds(j, n)  BY <2>1, <2>2, LifeFacts DEF Holds
  <2>4. n \in DOMAIN job_attempts'[j] /\ job_attempts'[j][n] = job_attempts[j][n]
    BY <2>1, <2>3, AttemptRowStep
  <2>5. n < jobs'[j].attempts  BY <2>1, <2>2 DEF Attempts
  <2>6. QED  BY <2>1, <2>4, <2>5 DEF LeftBehind, Recorded
<1>2. \A t \in LeftBehind : \E j \in Jobs, n \in Attempts : t = <<j, n>>
  BY DEF LeftBehind, Recorded
<1>3. QED  BY <1>1, <1>2

LEMMA TrailAfterFinalize ==
    ASSUME StoreByJob, NEW j \in Jobs, NEW n \in Attempts, NEW outcome \in Counted,
           FinalizeAs(j, n, outcome)
    PROVE  /\ n \in DOMAIN job_attempts[j] /\ job_attempts[j][n].outcome \notin Counted
           /\ \A i \in Jobs :
                 /\ DOMAIN job_attempts'[i] = DOMAIN job_attempts[i]
                 /\ \A m \in DOMAIN job_attempts[i] :
                       job_attempts'[i][m].outcome =
                          IF i = j /\ m = n THEN outcome ELSE job_attempts[i][m].outcome
<1>1. Holds(j, n)
  BY DEF FinalizeAs, FinalizeSuccess, FinalizeRetryScheduled, FinalizeDead
<1>2. n = jobs[j].attempts /\ n \in DOMAIN job_attempts[j]
      /\ job_attempts[j][n].outcome \in {"OPEN", "LEASE_LOST"}
  <2>1. jobs[j].status = "RUNNING" /\ jobs[j].lease_token = n  BY <1>1 DEF Holds
  <2>2. n = jobs[j].attempts  BY <2>1, LifeFacts
  <2>3. n \in 1 .. jobs[j].attempts  BY <2>2 DEF Attempts
  <2>4. QED  BY <2>1, <2>2, <2>3, LifeFacts, LastOutcomesValues
<1>3. \A m \in DOMAIN job_attempts[j] :
         job_attempts[j][m] \in AttemptRow /\ job_attempts[j][m].lease_token = m
  BY DEF StoreByJob, JobInv
<1>4. DOMAIN job_attempts = Jobs  BY DEF StoreByJob
<1>5. \E rows :
         /\ job_attempts' = [job_attempts EXCEPT ![j] = rows]
         /\ \/ rows = CloseAttempt(job_attempts[j], n, outcome)
            \/ \E code \in ErrorCodes : rows = FailAttempt(job_attempts[j], n, outcome, code)
  BY DEF FinalizeAs, FinalizeSuccess, FinalizeRetryScheduled, FinalizeDead
<1>6. PICK rows :
         /\ job_attempts' = [job_attempts EXCEPT ![j] = rows]
         /\ \/ rows = CloseAttempt(job_attempts[j], n, outcome)
            \/ \E code \in ErrorCodes : rows = FailAttempt(job_attempts[j], n, outcome, code)
  BY <1>5
<1>7. /\ DOMAIN rows = DOMAIN job_attempts[j]
      /\ \A m \in DOMAIN rows :
            rows[m].outcome = IF m = n THEN outcome ELSE job_attempts[j][m].outcome
  <2>1. CASE rows = CloseAttempt(job_attempts[j], n, outcome)
    BY <1>3, <2>1 DEF CloseAttempt, AttemptRow
  <2>2. ASSUME NEW code \in ErrorCodes, rows = FailAttempt(job_attempts[j], n, outcome, code)
        PROVE  /\ DOMAIN rows = DOMAIN job_attempts[j]
               /\ \A m \in DOMAIN rows :
                     rows[m].outcome = IF m = n THEN outcome ELSE job_attempts[j][m].outcome
    BY <1>3, <2>2 DEF FailAttempt, AttemptRow
  <2>3. QED  BY <1>6, <2>1, <2>2
<1>8. \A i \in Jobs : job_attempts'[i] = IF i = j THEN rows ELSE job_attempts[i]
  BY <1>4, <1>6
<1>9. QED  BY <1>2, <1>7, <1>8 DEF Counted

LEMMA RecordedAfterFinalize ==
    ASSUME StoreByJob, NEW j \in Jobs, NEW n \in Attempts, NEW outcome \in Counted,
           FinalizeAs(j, n, outcome), NEW c \in Counted
    PROVE  Cardinality(Recorded(c)') =
              Cardinality(Recorded(c)) + (IF c = outcome THEN 1 ELSE 0)
<1> DEFINE t == <<j, n>>
<1>1. t \notin Recorded(c)  BY TrailAfterFinalize DEF Recorded
<1>2. Recorded(c)' = IF c = outcome THEN Recorded(c) \cup {t} ELSE Recorded(c)
  <2>1. ASSUME NEW i \in Jobs, NEW m \in Attempts
        PROVE  <<i, m>> \in Recorded(c)' <=>
                  <<i, m>> \in Recorded(c) \/ (c = outcome /\ <<i, m>> = t)
    <3>1. <<i, m>> \in Recorded(c)' <=>
             m \in DOMAIN job_attempts'[i] /\ job_attempts'[i][m].outcome = c
      BY DEF Recorded
    <3>2. <<i, m>> \in Recorded(c) <=>
             m \in DOMAIN job_attempts[i] /\ job_attempts[i][m].outcome = c
      BY DEF Recorded
    <3>3. <<i, m>> = t <=> i = j /\ m = n  OBVIOUS
    <3>4. QED  BY <3>1, <3>2, <3>3, TrailAfterFinalize
  <2>2. Recorded(c) \subseteq Jobs \X Attempts /\ Recorded(c)' \subseteq Jobs \X Attempts
        /\ t \in Jobs \X Attempts
    BY DEF Recorded
  <2>3. \A s \in Jobs \X Attempts :
           s \in Recorded(c)' <=> s \in Recorded(c) \/ (c = outcome /\ s = t)
    BY <2>1
  <2> HIDE DEF t
  <2>4. QED  BY <2>2, <2>3
<1> HIDE DEF t
<1>3. Cardinality(Recorded(c) \cup {t}) = Cardinality(Recorded(c)) + 1
  BY <1>1, AllFinite, FS_AddElement
<1>4. Cardinality(Recorded(c)) \in Nat  BY AllFinite
<1>5. QED  BY <1>2, <1>3, <1>4

-------------------------------------------------------------------------------
\* A claim, of which the lost leases and the new debts are two faces.
LEMMA TaskAfterClaim ==
    ASSUME TaskInv, StoreByJob, NEW batch \in SUBSET Jobs, NEW limit \in Limits,
           Claim(batch, limit)
    PROVE  /\ \A j \in batch : jobs[j].attempts + 1 \in Attempts
           /\ tasks' \in [Jobs -> [Attempts -> TaskStates]]
           /\ \A j \in Jobs, n \in Attempts :
                 tasks'[j][n] =
                    IF j \in batch /\ n = jobs[j].attempts + 1
                    THEN [pc |-> "spawned",
                          owes |-> IF WasReclaimed(j) THEN {"RECLAIMED"} ELSE {}]
                    ELSE tasks[j][n]
<1>1. ASSUME NEW j \in batch
      PROVE  jobs[j].attempts + 1 \in Attempts
  <2>1. Due(j)  BY DEF Claim, ClaimPendingJobs, IsClaimBatch
  <2>2. jobs[j] \in JobRow  BY DEF StoreByJob
  <2>3. QED  BY <2>1, <2>2, BudgetAssumption DEF Due, HasBudget, JobRow, Attempts
<1> DEFINE spawned(j) == [pc |-> "spawned",
                          owes |-> IF WasReclaimed(j) THEN {"RECLAIMED"} ELSE {}]
<1>2. \A j \in Jobs :
         tasks'[j] = IF j \in batch THEN [tasks[j] EXCEPT ![jobs[j].attempts + 1] = spawned(j)]
                     ELSE tasks[j]
  BY DEF Claim, FreshToken
<1>3. \A j \in Jobs : tasks[j] \in [Attempts -> TaskStates]  BY DEF TaskInv
<1>4. \A j \in Jobs : spawned(j) \in TaskStates  BY DEF TaskStates, Counters
<1> HIDE DEF spawned
<1>5. ASSUME NEW j \in Jobs
      PROVE  /\ tasks'[j] \in [Attempts -> TaskStates]
             /\ \A n \in Attempts :
                   tasks'[j][n] = IF j \in batch /\ n = jobs[j].attempts + 1 THEN spawned(j)
                                  ELSE tasks[j][n]
  <2>1. CASE j \in batch
    <3>1. tasks'[j] = [tasks[j] EXCEPT ![jobs[j].attempts + 1] = spawned(j)]  BY <1>2, <2>1
    <3>2. QED  BY <1>1, <1>3, <1>4, <2>1, <3>1
  <2>2. CASE j \notin batch  BY <1>2, <1>3, <2>2
  <2>3. QED  BY <2>1, <2>2
<1>6. tasks' \in [Jobs -> [Attempts -> TaskStates]]
  <2>1. tasks' = [j \in Jobs |->
                    IF j \in batch THEN [tasks[j] EXCEPT ![FreshToken(j)] = spawned(j)]
                    ELSE tasks[j]]
    BY DEF Claim, spawned
  <2>2. QED  BY <1>5, <2>1
<1>7. QED  BY <1>1, <1>5, <1>6 DEF spawned

\* A claim finalizes nothing.
LEMMA RecordedAfterClaim ==
    ASSUME StoreByJob, NEW batch \in SUBSET Jobs, NEW limit \in Limits,
           Claim(batch, limit), NEW c \in Counted
    PROVE  Recorded(c)' = Recorded(c)
<1>1. ASSUME NEW j \in Jobs, NEW n \in Attempts
      PROVE  <<j, n>> \in Recorded(c)' <=> <<j, n>> \in Recorded(c)
  <2>1. job_attempts'[j] = TrailAfterClaim(j, batch)  BY DEF Claim, ClaimPendingJobs
  <2>2. /\ \A m \in DOMAIN job_attempts[j] :
              job_attempts[j][m] \in AttemptRow
        /\ jobs[j].attempts + 1 \notin DOMAIN job_attempts[j]
    BY LifeFacts DEF StoreByJob, JobInv
  <2>3. PICK settled :
          /\ settled = IF LeaseExpired(j) THEN LoseOpenAttempts(job_attempts[j])
                       ELSE job_attempts[j]
          /\ job_attempts'[j] =
                IF j \in batch
                THEN InsertAttempt(settled, jobs[j].attempts + 1, jobs[j].attempts + 1)
                ELSE settled
    BY <2>1 DEF TrailAfterClaim, FreshToken
  <2>4. /\ DOMAIN settled = DOMAIN job_attempts[j]
        /\ \A m \in DOMAIN settled :
              settled[m].outcome = c <=> job_attempts[j][m].outcome = c
    BY <2>2, <2>3 DEF LoseOpenAttempts, Counted, AttemptRow
  <2>5. n \in DOMAIN job_attempts'[j] /\ job_attempts'[j][n].outcome = c
        <=> n \in DOMAIN settled /\ settled[n].outcome = c
    BY <2>2, <2>3, <2>4 DEF InsertAttempt, Counted
  <2>6. QED  BY <2>4, <2>5 DEF Recorded
<1>2. Recorded(c) \subseteq Jobs \X Attempts /\ Recorded(c)' \subseteq Jobs \X Attempts
  BY DEF Recorded
<1>3. \A t \in Jobs \X Attempts : t \in Recorded(c)' <=> t \in Recorded(c)
  BY <1>1
<1>4. QED  BY <1>2, <1>3

\* The new debts are no more than the attempts newly left behind: each debt of
\* attempt n of a job is for the loss of attempt n - 1.
LEMMA ReclaimsAfterClaim ==
    ASSUME TaskInv, StoreByJob, NEW batch \in SUBSET Jobs, NEW limit \in Limits,
           Claim(batch, limit)
    PROVE  /\ \A c \in Counted : Owed(c)' = Owed(c)
           /\ Owed("RECLAIMED")' - Owed("RECLAIMED")
                 <= Cardinality(LeftBehind') - Cardinality(LeftBehind)
<1> DEFINE reclaimed == {j \in batch : WasReclaimed(j)}
           debts == {t \in Jobs \X Attempts : t[1] \in reclaimed /\ t[2] = jobs[t[1]].attempts + 1}
           losses == {t \in Jobs \X Attempts : t[1] \in reclaimed /\ t[2] = jobs[t[1]].attempts}
<1>1. ASSUME NEW c \in Counters
      PROVE  Owing(c)' = Owing(c) \cup (IF c = "RECLAIMED" THEN debts ELSE {})
  <2>1. ASSUME NEW j \in Jobs, NEW n \in Attempts
        PROVE  <<j, n>> \in Owing(c)' <=>
                  \/ <<j, n>> \in Owing(c)
                  \/ c = "RECLAIMED" /\ j \in reclaimed /\ n = jobs[j].attempts + 1
    <3>1. <<j, n>> \in Owing(c)' <=> c \in tasks'[j][n].owes  BY DEF Owing
    <3>2. <<j, n>> \in Owing(c) <=> c \in tasks[j][n].owes  BY DEF Owing
    <3>3. CASE j \in batch /\ n = jobs[j].attempts + 1
      <4>1. tasks'[j][n] = [pc |-> "spawned",
                            owes |-> IF WasReclaimed(j) THEN {"RECLAIMED"} ELSE {}]
        BY <3>3, TaskAfterClaim
      <4>2. jobs[j].attempts \in Nat  BY LifeFacts
      <4>3. tasks[j][n].owes = {}  BY <3>3, <4>2 DEF TaskInv
      <4>4. QED  BY <3>1, <3>2, <3>3, <4>1, <4>3
    <3>4. CASE ~(j \in batch /\ n = jobs[j].attempts + 1)
      <4>1. tasks'[j][n] = tasks[j][n]  BY <3>4, TaskAfterClaim
      <4>2. QED  BY <3>1, <3>2, <3>4, <4>1
    <3>5. QED  BY <3>3, <3>4
  <2>2. Owing(c) \subseteq Jobs \X Attempts /\ Owing(c)' \subseteq Jobs \X Attempts
    BY DEF Owing
  <2>3. \A t \in Jobs \X Attempts :
           t \in Owing(c)' <=> t \in Owing(c) \/ (c = "RECLAIMED" /\ t \in debts)
    BY <2>1
  <2>4. debts \subseteq Jobs \X Attempts  OBVIOUS
  <2> HIDE DEF debts
  <2>5. QED  BY <2>2, <2>3, <2>4
<1>2. \A c \in Counted : Owed(c)' = Owed(c)
  BY <1>1 DEF Owed, Counted, Counters
<1>3. ASSUME NEW j \in reclaimed
      PROVE  <<j, jobs[j].attempts>> \in LeftBehind' /\ <<j, jobs[j].attempts>> \in losses
             /\ jobs[j].attempts \in Attempts
  <2>1. LeaseExpired(j) /\ jobs[j].status = "RUNNING"
    BY DEF Claim, ClaimPendingJobs, IsClaimBatch, Due, LeaseExpired, WasReclaimed
  <2>2. jobs[j].attempts \in Nat /\ jobs[j].attempts + 1 \in Attempts
    BY LifeFacts, TaskAfterClaim
  <2>3. jobs[j].attempts \in 1 .. jobs[j].attempts
        /\ jobs[j].attempts \in Attempts
    <3>1. jobs[j].lease_token = jobs[j].attempts /\ jobs[j].lease_token # NULL
      BY <2>1, LifeFacts DEF StoreByJob, JobInv
    <3>2. jobs[j].attempts \in 1 .. MaxBudget  BY <3>1 DEF StoreByJob, JobRow
    <3>3. QED  BY <3>2 DEF Attempts
  <2>4. PICK settled :
          /\ settled = LoseOpenAttempts(job_attempts[j])
          /\ job_attempts'[j] =
                InsertAttempt(settled, jobs[j].attempts + 1, jobs[j].attempts + 1)
    BY <2>1 DEF Claim, ClaimPendingJobs, TrailAfterClaim, FreshToken
  <2>5. /\ jobs[j].attempts \in DOMAIN settled
        /\ settled[jobs[j].attempts].outcome = "LEASE_LOST"
    BY <2>1, <2>3, <2>4, LostFacts
  <2>6. /\ jobs[j].attempts \in DOMAIN job_attempts'[j]
        /\ job_attempts'[j][jobs[j].attempts].outcome = "LEASE_LOST"
    BY <2>2, <2>4, <2>5 DEF InsertAttempt
  <2>7. jobs'[j].attempts = jobs[j].attempts + 1
    <3>1. j \notin ClaimExhausted({})
      BY DEF Claim, ClaimPendingJobs, IsClaimBatch, Due, ClaimExhausted
    <3>2. jobs'[j] = RowAfterClaim(j, ClaimExhausted({}), batch)
      BY DEF Claim, ClaimPendingJobs
    <3>3. jobs[j] \in JobRow  BY DEF StoreByJob
    <3>4. QED  BY <3>1, <3>2, <3>3 DEF RowAfterClaim, FreshToken, JobRow
  <2>8. QED  BY <2>2, <2>3, <2>6, <2>7 DEF LeftBehind, Recorded
<1>4. LeftBehind \subseteq LeftBehind'
  BY StoreMoves, LeftBehindStays DEF MetricsNext
<1>5. losses \subseteq LeftBehind'
  <2>1. \A t \in losses : t = <<t[1], jobs[t[1]].attempts>> /\ t[1] \in reclaimed
    OBVIOUS
  <2>2. QED  BY <1>3, <2>1
<1>6. LeftBehind \cap losses = {}
  <2>1. ASSUME NEW t \in LeftBehind, t \in losses
        PROVE  FALSE
    <3>1. t[2] < jobs[t[1]].attempts /\ t[2] = jobs[t[1]].attempts /\ t[2] \in Attempts
      BY <2>1 DEF LeftBehind, Recorded
    <3>2. QED  BY <3>1 DEF Attempts
  <2>2. QED  BY <2>1
<1>7. /\ IsFiniteSet(debts) /\ IsFiniteSet(losses)
      /\ Cardinality(debts) \in Nat /\ Cardinality(losses) \in Nat
      /\ Cardinality(debts) <= Cardinality(losses)
  <2>1. IsFiniteSet(Jobs \X Attempts)  BY TasksAreFinite
  <2>2. debts \in SUBSET (Jobs \X Attempts) /\ losses \in SUBSET (Jobs \X Attempts)
    OBVIOUS
  <2>3. IsFiniteSet(debts) /\ IsFiniteSet(losses)  BY <2>1, <2>2, FS_Subset
  <2> DEFINE cause == [t \in debts |-> <<t[1], jobs[t[1]].attempts>>]
  <2>4. \A t \in debts : cause[t] \in losses
    <3>1. ASSUME NEW t \in debts  PROVE cause[t] \in losses
      <4>1. t[1] \in reclaimed /\ cause[t] = <<t[1], jobs[t[1]].attempts>>  OBVIOUS
      <4>2. QED  BY <1>3, <4>1
    <3>2. QED  BY <3>1
  <2>5. \A s, t \in debts : cause[s] = cause[t] => s = t
    <3>1. \A t \in debts : t = <<t[1], jobs[t[1]].attempts + 1>>  OBVIOUS
    <3>2. QED  BY <3>1
  <2>6. cause \in Injection(debts, losses)
    <3>1. cause \in [debts -> losses]  BY <2>4
    <3> HIDE DEF debts, losses, cause
    <3>2. QED  BY <2>5, <3>1 DEF Injection, IsInjective
  <2> HIDE DEF debts, losses, cause
  <2>7. QED  BY <2>3, <2>6, FS_Injection, FS_CardinalityType
<1> HIDE DEF debts, losses
<1>8. Owed("RECLAIMED")' <= Owed("RECLAIMED") + Cardinality(debts)
  <2>1. Owing("RECLAIMED")' = Owing("RECLAIMED") \cup debts  BY <1>1 DEF Counters
  <2>2. Cardinality(Owing("RECLAIMED") \cup debts) =
           Cardinality(Owing("RECLAIMED")) + Cardinality(debts)
              - Cardinality(Owing("RECLAIMED") \cap debts)
    BY <1>7, AllFinite, FS_Union
  <2>3. Cardinality(Owing("RECLAIMED") \cap debts) \in Nat
    BY <1>7, FS_Subset, FS_CardinalityType
  <2>4. Cardinality(Owing("RECLAIMED")) \in Nat  BY AllFinite DEF Owed
  <2>5. Owed("RECLAIMED")' = Cardinality(Owing("RECLAIMED") \cup debts)  BY <2>1 DEF Owed
  <2>6. Owed("RECLAIMED") = Cardinality(Owing("RECLAIMED"))  BY DEF Owed
  <2>7. QED  BY <1>7, <2>2, <2>3, <2>4, <2>5, <2>6
<1>9. Cardinality(LeftBehind') >= Cardinality(LeftBehind) + Cardinality(losses)
  <2>1. Cardinality(LeftBehind \cup losses) = Cardinality(LeftBehind) + Cardinality(losses)
    <3>1. Cardinality(LeftBehind \cup losses) =
             Cardinality(LeftBehind) + Cardinality(losses) - Cardinality(LeftBehind \cap losses)
      BY <1>7, AllFinite, FS_Union
    <3>2. QED  BY <1>6, <1>7, <3>1, AllFinite, FS_EmptySet
  <2>2. LeftBehind \cup losses \in SUBSET (LeftBehind')  BY <1>4, <1>5
  <2>3. Cardinality(LeftBehind \cup losses) <= Cardinality(LeftBehind')
    BY <2>2, AllFiniteNext, FS_Subset
  <2>4. QED  BY <2>1, <2>3
<1>10. QED
  BY <1>2, <1>7, <1>8, <1>9, AllFinite, AllFiniteNext DEF Counters

-------------------------------------------------------------------------------
\* The invariant.
LEMMA InitMetrics == MetricsInit => MetricsInv
<1> SUFFICES ASSUME MetricsInit  PROVE MetricsInv
  OBVIOUS
<1>1. StoreByJob  BY InitStore DEF MetricsInit
<1>2. \A j \in Jobs, n \in Attempts : tasks[j][n] = Idle  BY DEF MetricsInit
<1>3. TaskInv
  <2>1. Idle \in TaskStates  BY DEF Idle, TaskStates
  <2>2. tasks \in [Jobs -> [Attempts -> TaskStates]]  BY <2>1 DEF MetricsInit
  <2>3. QED  BY <1>2, <2>2 DEF TaskInv, Idle
<1>4. counters = Zero /\ forgotten = Zero /\ Zero \in [Counters -> Nat]
      /\ \A c \in Counters : Zero[c] = 0
  BY DEF MetricsInit, Zero
<1>5. \A c : Owed(c) = 0
  <2>1. \A c : Owing(c) = {}  BY <1>2 DEF Owing, Idle
  <2>2. QED  BY <2>1, FS_EmptySet DEF Owed
<1>6. \A outcome : Cardinality(Recorded(outcome)) = 0
  <2>1. \A j \in Jobs : DOMAIN job_attempts[j] = {}  BY DEF MetricsInit, Init, NoAttempts
  <2>2. \A outcome : Recorded(outcome) = {}  BY <2>1 DEF Recorded
  <2>3. QED  BY <2>2, FS_EmptySet
<1>7. CountersMatchTrail
  <2>1. OutcomesMatchTrail
    BY <1>4, <1>5, <1>6 DEF OutcomesMatchTrail, Counted, Counters
  <2>2. ReclaimsAreLostLeases
    BY <1>4, <1>5, AllFinite DEF ReclaimsAreLostLeases, Counters
  <2>3. QED  BY <2>1, <2>2 DEF CountersMatchTrail
<1>8. QED  BY <1>1, <1>3, <1>4, <1>7 DEF MetricsInv, CountInv

\* What an action has to show of the counts.
LEMMA CountsCarryOver ==
    ASSUME CountInv, counters' \in [Counters -> Nat], forgotten' \in [Counters -> Nat],
           \A c \in Counted : Total(c)' - Total(c)
                                = Cardinality(Recorded(c)') - Cardinality(Recorded(c)),
           Total("RECLAIMED")' - Total("RECLAIMED")
              <= Cardinality(LeftBehind') - Cardinality(LeftBehind)
    PROVE  CountInv'
<1>1. \A c \in Counters : Total(c) \in Int /\ Total(c)' \in Int
  BY AllFinite, AllFiniteNext DEF CountInv, Total
<1>2. OutcomesMatchTrail'
  <2>1. ASSUME NEW c \in Counted
        PROVE  Total(c)' = Cardinality(Recorded(c)')
    <3>1. Total(c) = Cardinality(Recorded(c))
      BY DEF CountInv, CountersMatchTrail, OutcomesMatchTrail, Total
    <3>2. c \in Counters  BY DEF Counters
    <3>3. QED  BY <1>1, <3>1, <3>2, AllFinite, AllFiniteNext
  <2>2. QED  BY <2>1 DEF OutcomesMatchTrail, Total
<1>3. ReclaimsAreLostLeases'
  <2>1. Total("RECLAIMED") <= Cardinality(LeftBehind)
    BY DEF CountInv, CountersMatchTrail, ReclaimsAreLostLeases, Total
  <2>2. "RECLAIMED" \in Counters  BY DEF Counters
  <2>3. Total("RECLAIMED")' <= Cardinality(LeftBehind')
    BY <1>1, <2>1, <2>2, AllFinite, AllFiniteNext
  <2>4. QED  BY <2>3 DEF ReclaimsAreLostLeases, Total
<1>4. QED  BY <1>2, <1>3 DEF CountInv, CountersMatchTrail

\* The same, for an action that leaves the tables alone.
LEMMA CountsMoveAround ==
    ASSUME StoreByJob, [Next]_storeVars, CountInv, UNCHANGED job_attempts,
           counters' \in [Counters -> Nat], forgotten' \in [Counters -> Nat],
           \A c \in Counters : Total(c)' = Total(c)
    PROVE  CountInv'
<1>1. \A c \in Counted : Recorded(c)' = Recorded(c)  BY DEF Recorded
<1>2. Cardinality(LeftBehind) <= Cardinality(LeftBehind')
  BY LeftBehindStays, AllFiniteNext, FS_Subset
<1>3. \A c \in Counters : Total(c) \in Int
  BY AllFinite DEF CountInv, Total
<1>4. \A c \in Counted : Total(c)' - Total(c)
                           = Cardinality(Recorded(c)') - Cardinality(Recorded(c))
  BY <1>1, <1>3, AllFinite DEF Counters
<1>5. Total("RECLAIMED")' - Total("RECLAIMED")
         <= Cardinality(LeftBehind') - Cardinality(LeftBehind)
  <2>1. "RECLAIMED" \in Counters  BY DEF Counters
  <2>2. QED  BY <1>2, <1>3, <2>1, AllFinite, AllFiniteNext
<1>6. QED  BY <1>4, <1>5, CountsCarryOver

LEMMA TaskMovesOn ==
    ASSUME StoreByJob, TaskInv, [Next]_storeVars, NEW j \in Jobs, NEW n \in Attempts,
           tasks[j][n].pc # "none",
           NEW pc \in {"running", "committed", "over"}, NEW owes \in SUBSET Counters,
           pc = "running" => owes = {}, Becomes(j, n, pc, owes)
    PROVE  TaskInv'
<1>1. tasks' \in [Jobs -> [Attempts -> TaskStates]]  BY TasksAfter DEF TaskInv
<1>2. ASSUME NEW i \in Jobs, NEW m \in Attempts
      PROVE  /\ tasks'[i][m].pc \in {"none", "running"} => tasks'[i][m].owes = {}
             /\ m > jobs'[i].attempts => tasks'[i][m].pc = "none"
  <2>1. tasks'[i][m] = IF i = j /\ m = n THEN [pc |-> pc, owes |-> owes] ELSE tasks[i][m]
    BY TaskAfter DEF TaskInv
  <2>2. m > jobs'[i].attempts => m > jobs[i].attempts
    BY AttemptsGrow DEF Attempts
  <2>3. CASE i = j /\ m = n
    <3>1. ~(n > jobs[j].attempts)  BY DEF TaskInv
    <3>2. tasks'[i][m].pc = pc /\ tasks'[i][m].owes = owes  BY <2>1, <2>3
    <3>3. QED  BY <2>2, <2>3, <3>1, <3>2
  <2>4. CASE ~(i = j /\ m = n)
    <3>1. tasks'[i][m] = tasks[i][m]  BY <2>1, <2>4
    <3>2. QED  BY <2>2, <3>1 DEF TaskInv
  <2>5. QED  BY <2>3, <2>4
<1>3. QED  BY <1>1, <1>2 DEF TaskInv

LEMMA TaskStepInv ==
    ASSUME MetricsInv, [Next]_storeVars, NEW j \in Jobs, NEW n \in Attempts, TaskStep(j, n)
    PROVE  TaskInv' /\ CountInv'
<1> DEFINE owes == tasks[j][n].owes
<1>1. StoreByJob /\ TaskInv /\ CountInv  BY DEF MetricsInv
<1>2. /\ tasks \in [Jobs -> [Attempts -> TaskStates]]
      /\ owes \in SUBSET Counters
      /\ tasks[j][n].pc = "running" => owes = {}
      /\ counters \in [Counters -> Nat] /\ forgotten \in [Counters -> Nat]
  BY <1>1 DEF TaskInv, TaskStates, CountInv
<1>3. \A c : Owed(c) \in Nat /\ Owed(c)' \in Nat  BY AllFinite, AllFiniteNext
<1>4. ASSUME tasks[j][n].pc # "none", NEW pc \in {"running", "over"}, Becomes(j, n, pc, {}),
             counters' = Raise(counters, owes), UNCHANGED <<job_attempts, forgotten>>
      PROVE  TaskInv' /\ CountInv'
  <2>1. TaskInv'  BY <1>1, <1>4, TaskMovesOn
  <2>2. counters' \in [Counters -> Nat]  BY <1>2, <1>4, Raised
  <2>3. ASSUME NEW c \in Counters
        PROVE  Total(c)' = Total(c)
    <3>1. Owed(c)' = Owed(c) - (IF c \in owes THEN 1 ELSE 0)
      BY <1>2, <1>3, <1>4, OwedAfter
    <3>2. counters'[c] = counters[c] + (IF c \in owes THEN 1 ELSE 0)
      BY <1>2, <1>4, Raised
    <3>3. counters[c] \in Nat /\ forgotten[c] \in Nat  BY <1>2
    <3> HIDE DEF owes
    <3>4. QED  BY <1>3, <1>4, <3>1, <3>2, <3>3 DEF Total
  <2>4. QED  BY <1>1, <1>2, <1>4, <2>1, <2>2, <2>3, CountsMoveAround
<1>5. ASSUME tasks[j][n].pc = "running", Becomes(j, n, "over", {}),
             UNCHANGED <<job_attempts, counters, forgotten>>
      PROVE  TaskInv' /\ CountInv'
  <2>1. TaskInv'  BY <1>1, <1>5, TaskMovesOn
  <2>2. ASSUME NEW c \in Counters
        PROVE  Total(c)' = Total(c)
    <3>1. Owed(c)' = Owed(c)  BY <1>2, <1>3, <1>5, OwedAfter
    <3>2. QED  BY <1>5, <3>1 DEF Total
  <2>3. QED  BY <1>1, <1>2, <1>5, <2>1, <2>2, CountsMoveAround
\* A finalization is due to its counter once, whether its task or nobody will count it.
<1>6. ASSUME NEW outcome \in Counted, FinalizeAs(j, n, outcome),
             counters' \in [Counters -> Nat], forgotten' \in [Counters -> Nat],
             \A c \in Counters : Total(c)' = Total(c) + (IF c = outcome THEN 1 ELSE 0)
      PROVE  CountInv'
  <2>1. \A c \in Counters : Total(c) \in Int  BY <1>2, <1>3 DEF Total
  <2>2. ASSUME NEW c \in Counted
        PROVE  Total(c)' - Total(c) = Cardinality(Recorded(c)') - Cardinality(Recorded(c))
    <3>1. Cardinality(Recorded(c)') = Cardinality(Recorded(c)) + (IF c = outcome THEN 1 ELSE 0)
      BY <1>1, <1>6, RecordedAfterFinalize
    <3>2. c \in Counters  BY DEF Counters
    <3>3. QED  BY <1>6, <2>1, <3>1, <3>2, AllFinite
  <2>3. Total("RECLAIMED")' - Total("RECLAIMED")
           <= Cardinality(LeftBehind') - Cardinality(LeftBehind)
    <3>1. "RECLAIMED" \in Counters /\ "RECLAIMED" # outcome  BY <1>6 DEF Counters, Counted
    <3>2. Total("RECLAIMED")' = Total("RECLAIMED")  BY <1>6, <2>1, <3>1
    <3>3. Cardinality(LeftBehind) <= Cardinality(LeftBehind')
      BY <1>1, LeftBehindStays, AllFiniteNext, FS_Subset
    <3>4. QED  BY <2>1, <3>1, <3>2, <3>3, AllFinite, AllFiniteNext
  <2>4. QED  BY <1>1, <1>6, <2>2, <2>3, CountsCarryOver
<1>7. CASE StartTask(j, n)  BY <1>4, <1>7 DEF StartTask
<1>8. CASE Count(j, n)  BY <1>4, <1>8 DEF Count
<1>9. CASE LoseLease(j, n)  BY <1>5, <1>9 DEF LoseLease
<1>10. CASE Commit(j, n)
  <2>1. PICK outcome \in Counted :
           FinalizeAs(j, n, outcome) /\ Becomes(j, n, "committed", {outcome})
    BY <1>10 DEF Commit
  <2>2. tasks[j][n].pc = "running" /\ UNCHANGED <<counters, forgotten>>
    BY <1>10 DEF Commit
  <2>3. {outcome} \in SUBSET Counters  BY DEF Counters
  <2>4. TaskInv'  BY <1>1, <2>1, <2>2, <2>3, TaskMovesOn
  <2>5. ASSUME NEW c \in Counters
        PROVE  Total(c)' = Total(c) + (IF c = outcome THEN 1 ELSE 0)
    <3>1. Owed(c)' = Owed(c) + (IF c = outcome THEN 1 ELSE 0)
      BY <1>2, <1>3, <2>1, <2>2, OwedAfter
    <3>2. counters[c] \in Nat /\ forgotten[c] \in Nat  BY <1>2
    <3>3. QED  BY <1>3, <2>2, <3>1, <3>2 DEF Total
  <2>6. QED  BY <1>2, <1>6, <2>1, <2>2, <2>4, <2>5
<1>11. CASE FailToFinalize(j, n)
  <2>1. tasks[j][n].pc = "running" /\ Becomes(j, n, "over", {}) /\ UNCHANGED counters
    BY <1>11 DEF FailToFinalize
  <2>2. CASE UNCHANGED <<storeVars, forgotten>>
    BY <1>5, <2>1, <2>2 DEF storeVars
  <2>3. ASSUME NEW outcome \in Counted, FinalizeAs(j, n, outcome),
               forgotten' = Raise(forgotten, {outcome})
        PROVE  TaskInv' /\ CountInv'
    <3>1. TaskInv'  BY <1>1, <2>1, TaskMovesOn
    <3>2. forgotten' \in [Counters -> Nat]  BY <1>2, <2>3, Raised
    <3>3. ASSUME NEW c \in Counters
          PROVE  Total(c)' = Total(c) + (IF c = outcome THEN 1 ELSE 0)
      <4>1. Owed(c)' = Owed(c)  BY <1>2, <1>3, <2>1, OwedAfter
      <4>2. forgotten'[c] = forgotten[c] + (IF c = outcome THEN 1 ELSE 0)
        BY <1>2, <2>3, Raised
      <4>3. counters[c] \in Nat /\ forgotten[c] \in Nat  BY <1>2
      <4>4. QED  BY <1>3, <2>1, <4>1, <4>2, <4>3 DEF Total
    <3>4. QED  BY <1>2, <1>6, <2>1, <2>3, <3>1, <3>2, <3>3
  <2>4. QED  BY <1>11, <2>2, <2>3 DEF FailToFinalize
<1>12. QED  BY <1>7, <1>8, <1>9, <1>10, <1>11 DEF TaskStep

LEMMA ClaimInvNext ==
    ASSUME MetricsInv, [Next]_storeVars, NEW batch \in SUBSET Jobs, NEW limit \in Limits,
           Claim(batch, limit)
    PROVE  TaskInv' /\ CountInv'
<1>1. StoreByJob /\ TaskInv /\ CountInv  BY DEF MetricsInv
<1>2. TaskInv'
  <2>1. tasks' \in [Jobs -> [Attempts -> TaskStates]]  BY <1>1, TaskAfterClaim
  <2>2. ASSUME NEW j \in Jobs, NEW n \in Attempts
        PROVE  /\ tasks'[j][n].pc \in {"none", "running"} => tasks'[j][n].owes = {}
               /\ n > jobs'[j].attempts => tasks'[j][n].pc = "none"
    <3>1. CASE j \in batch /\ n = jobs[j].attempts + 1
      <4>1. tasks'[j][n] = [pc |-> "spawned",
                            owes |-> IF WasReclaimed(j) THEN {"RECLAIMED"} ELSE {}]
        BY <1>1, <3>1, TaskAfterClaim
      <4>2. jobs'[j].attempts = jobs[j].attempts + 1
        <5>1. j \notin ClaimExhausted({})
          BY <3>1 DEF Claim, ClaimPendingJobs, IsClaimBatch, Due, ClaimExhausted
        <5>2. jobs'[j] = RowAfterClaim(j, ClaimExhausted({}), batch)
          BY DEF Claim, ClaimPendingJobs
        <5>3. jobs[j] \in JobRow  BY <1>1 DEF StoreByJob
        <5>4. QED  BY <3>1, <5>1, <5>2, <5>3 DEF RowAfterClaim, FreshToken, JobRow
      <4>3. tasks'[j][n].pc = "spawned"  BY <4>1
      <4>4. ~(n > jobs'[j].attempts)  BY <3>1, <4>2 DEF Attempts
      <4>5. QED  BY <4>3, <4>4
    <3>2. CASE ~(j \in batch /\ n = jobs[j].attempts + 1)
      <4>1. tasks'[j][n] = tasks[j][n]  BY <1>1, <3>2, TaskAfterClaim
      <4>2. n > jobs'[j].attempts => n > jobs[j].attempts
        BY <1>1, AttemptsGrow DEF Attempts
      <4>3. QED  BY <1>1, <4>1, <4>2 DEF TaskInv
    <3>3. QED  BY <3>1, <3>2
  <2>3. QED  BY <2>1, <2>2 DEF TaskInv
<1>3. UNCHANGED <<counters, forgotten>>  BY DEF Claim
<1>4. /\ counters \in [Counters -> Nat] /\ forgotten \in [Counters -> Nat]
      /\ \A c : Owed(c) \in Nat /\ Owed(c)' \in Nat
  BY <1>1, AllFinite, AllFiniteNext DEF CountInv
<1>5. \A c \in Counters : Total(c)' - Total(c) = Owed(c)' - Owed(c)
  <2>1. ASSUME NEW c \in Counters
        PROVE  Total(c)' - Total(c) = Owed(c)' - Owed(c)
    <3>1. counters[c] \in Nat /\ forgotten[c] \in Nat  BY <1>4
    <3>2. QED  BY <1>3, <1>4, <3>1 DEF Total
  <2>2. QED  BY <2>1
<1>6. ASSUME NEW c \in Counted
      PROVE  Total(c)' - Total(c) = Cardinality(Recorded(c)') - Cardinality(Recorded(c))
  <2>1. Owed(c)' = Owed(c) /\ c \in Counters  BY <1>1, ReclaimsAfterClaim DEF Counters
  <2>2. Recorded(c)' = Recorded(c)  BY <1>1, RecordedAfterClaim
  <2>3. QED  BY <1>4, <1>5, <2>1, <2>2, AllFinite
<1>7. Total("RECLAIMED")' - Total("RECLAIMED")
         <= Cardinality(LeftBehind') - Cardinality(LeftBehind)
  <2>1. "RECLAIMED" \in Counters  BY DEF Counters
  <2>2. QED  BY <1>1, <1>5, <2>1, ReclaimsAfterClaim
<1>8. CountInv'  BY <1>1, <1>3, <1>4, <1>6, <1>7, CountsCarryOver
<1>9. QED  BY <1>2, <1>8

LEMMA RestartInv ==
    ASSUME MetricsInv, [Next]_storeVars, Restart
    PROVE  TaskInv' /\ CountInv'
<1>1. StoreByJob /\ TaskInv /\ CountInv  BY DEF MetricsInv
<1>2. /\ UNCHANGED <<jobs, job_attempts>>
      /\ \A j \in Jobs, n \in Attempts :
            tasks'[j][n] = IF tasks[j][n].pc = "none" THEN Idle ELSE [Idle EXCEPT !.pc = "over"]
  BY DEF Restart
<1>3. Idle \in TaskStates /\ [Idle EXCEPT !.pc = "over"] \in TaskStates
      /\ Idle.pc = "none" /\ Idle.owes = {} /\ [Idle EXCEPT !.pc = "over"].owes = {}
      /\ [Idle EXCEPT !.pc = "over"].pc = "over"
  BY DEF Idle, TaskStates
<1>4. TaskInv'
  <2>1. tasks' \in [Jobs -> [Attempts -> TaskStates]]  BY <1>3 DEF Restart
  <2>2. QED  BY <1>1, <1>2, <1>3, <2>1 DEF TaskInv
<1>5. \A c : Owed(c)' = 0
  <2>1. \A j \in Jobs, n \in Attempts : tasks'[j][n].owes = {}  BY <1>2, <1>3
  <2>2. \A c : Owing(c)' = {}  BY <2>1 DEF Owing
  <2>3. QED  BY <2>2, FS_EmptySet DEF Owed
<1>6. /\ counters \in [Counters -> Nat] /\ forgotten \in [Counters -> Nat]
      /\ \A c : Owed(c) \in Nat
  BY <1>1, AllFinite DEF CountInv
<1>7. counters' \in [Counters -> Nat] /\ \A c \in Counters : counters'[c] = 0
  BY DEF Restart, Zero
<1>8. ASSUME NEW c \in Counters
      PROVE  forgotten'[c] = Total(c) /\ forgotten'[c] \in Nat /\ Total(c)' = Total(c)
  <2>1. forgotten'[c] = forgotten[c] + counters[c] + Owed(c)  BY DEF Restart
  <2>2. counters[c] \in Nat /\ forgotten[c] \in Nat /\ Owed(c) \in Nat  BY <1>6
  <2>3. counters'[c] = 0 /\ Owed(c)' = 0  BY <1>5, <1>7
  <2>4. QED  BY <2>1, <2>2, <2>3 DEF Total
<1>9. forgotten' \in [Counters -> Nat]
  <2>1. forgotten' = [c \in Counters |-> forgotten[c] + counters[c] + Owed(c)]  BY DEF Restart
  <2>2. QED  BY <1>6, <2>1
<1>10. CountInv'  BY <1>1, <1>2, <1>7, <1>8, <1>9, CountsMoveAround
<1>11. QED  BY <1>4, <1>10

LEMMA NextMetrics == MetricsInv /\ [MetricsNext]_metricsVars => MetricsInv'
<1> SUFFICES ASSUME MetricsInv, [MetricsNext]_metricsVars  PROVE MetricsInv'
  OBVIOUS
<1>1. StoreByJob /\ TaskInv /\ CountInv  BY DEF MetricsInv
<1>2. [Next]_storeVars  BY StoreMoves
<1>3. StoreByJob'  BY <1>1, <1>2, NextStore
<1>4. ASSUME UNCHANGED <<job_attempts, tasks, counters, forgotten>>
      PROVE  TaskInv' /\ CountInv'
  <2>1. TaskInv'
    <3>1. ASSUME NEW j \in Jobs, NEW n \in Attempts, n > jobs'[j].attempts
          PROVE  n > jobs[j].attempts
      BY <1>1, <1>2, <3>1, AttemptsGrow DEF Attempts
    <3>2. QED  BY <1>1, <1>4, <3>1 DEF TaskInv
  <2>2. \A c \in Counters : Total(c)' = Total(c)  BY <1>4 DEF Total, Owed, Owing
  <2>3. CountInv'  BY <1>1, <1>2, <1>4, <2>2, CountsMoveAround DEF CountInv
  <2>4. QED  BY <2>1, <2>3
<1>5. CASE Others
  BY <1>3, <1>4, <1>5 DEF Others, MetricsInv, InsertJob, RetryDeadJob, RenewLease, Tick
<1>6. CASE UNCHANGED metricsVars  BY <1>3, <1>4, <1>6 DEF metricsVars, MetricsInv
<1>7. CASE Restart  BY <1>2, <1>3, <1>7, RestartInv DEF MetricsInv
<1>8. QED
  BY <1>2, <1>3, <1>5, <1>6, <1>7, ClaimInvNext, TaskStepInv DEF MetricsNext, MetricsInv

\* For any number of jobs, attempts and restarts: the worker's counters and the
\* audit trail agree on every outcome, and no reclaim is counted that the trail
\* does not show as a lost lease.
THEOREM CountersAreTrue == MetricsSpec => []CountersMatchTrail
<1>1. MetricsInv => CountersMatchTrail  BY DEF MetricsInv, CountInv
<1>2. QED  BY <1>1, InitMetrics, NextMetrics, PTL DEF MetricsSpec

-------------------------------------------------------------------------------
(* The shape of a drill.                                                   *)

Tasks == [job : Jobs, attempt : Int, max_attempts : Int]

WithTask == {"begun", "calling", "answered"}

WorkerState ==
    [pc : {"rest", "claiming", "next"} \cup WithTask, rest : SUBSET Tasks,
     task : Tasks \cup {NULL}, outcome : {"ok", "transient", "permanent", "ambiguous", NULL}]

\* A worker waits between its batches with empty hands, and the one of a
\* benchmark drill is alone.
DrillShape ==
    /\ drill \in Failpoints \cup {"any"}
    /\ workers \in [Workers -> WorkerState]
    /\ \A w \in Workers :
          /\ workers[w].pc \in WithTask => workers[w].task \in Tasks
          /\ workers[w].pc = "answered" => workers[w].outcome \in MayAnswer
          /\ workers[w].pc \in {"rest", "claiming"} => workers[w].rest = {}
          /\ workers[w].pc # "rest" => w \in Crew
    /\ renewing \subseteq Tasks

\* A drill that is over for want of anything to do stays so.
DrillStops ==
    /\ \A j \in Jobs : jobs[j].status # "ABSENT"
    /\ loop = "quiescent" => NothingLeft /\ \A w \in Workers : workers[w].pc = "rest"

DrillInv == StoreByJob /\ DrillShape /\ DrillStops

-------------------------------------------------------------------------------
(* With a healthy service.                                                 *)

Me == CHOOSE w \in Workers : TRUE

\* What the worker has in its hands: its batch.
InHand == workers[Me].rest \cup (IF workers[Me].pc \in WithTask THEN {workers[Me].task} ELSE {})

HandsInv ==
    /\ \A t \in InHand : /\ jobs[t.job].status = "RUNNING"
                         /\ jobs[t.job].attempts = t.attempt
    /\ \A s, t \in InHand : s.job = t.job => s = t
    /\ workers[Me].pc \in WithTask => workers[Me].task \notin workers[Me].rest
    /\ workers[Me].pc = "answered" => workers[Me].task.job \in charged
    /\ workers[Me].pc \in {"calling", "answered"} /\ drill = "AfterClaimBeforeEffect"
          => workers[Me].task.job \in triggered

Held(j) == \E t \in InHand : t.job = j

\* A second attempt, after a crash that lost the lease of the first.
Second(j) ==
    /\ jobs[j].attempts = 2 /\ job_attempts[j][1].outcome = "LEASE_LOST"
    /\ j \in triggered /\ drill # "DuringFinalize"

StageInv(j) ==
    /\ jobs[j].max_attempts = Budget
    /\ jobs[j].status \in {"PENDING", "RUNNING", "SUCCEEDED"}
    /\ jobs[j].status = "PENDING" => jobs[j].attempts = 0 /\ j \notin triggered
    /\ jobs[j].status = "RUNNING" =>
          \/ jobs[j].attempts = 1 /\ j \notin triggered /\ Held(j)
          \/ jobs[j].attempts = 1 /\ j \in triggered /\ ~Held(j) /\ drill # "DuringFinalize"
          \/ Second(j) /\ Held(j)
    /\ jobs[j].status = "SUCCEEDED" =>
          /\ j \in charged
          /\ IF drill = "DuringFinalize" THEN jobs[j].attempts = 1 ELSE Second(j)

CrashInv == drill # "any" => HandsInv /\ \A j \in Jobs : StageInv(j)

-------------------------------------------------------------------------------
(* A drill is a run of the repository.                                     *)

LEMMA MoveFacts ==
    ASSUME workers \in [Workers -> WorkerState], NEW w \in Workers,
           NEW pc, NEW task, NEW outcome, Moves(w, pc, task, outcome)
    PROVE  /\ workers'[w].pc = pc /\ workers'[w].task = task
           /\ workers'[w].outcome = outcome /\ workers'[w].rest = workers[w].rest
           /\ \A v \in Workers \ {w} : workers'[v] = workers[v]
           /\ /\ pc \in {"rest", "claiming", "next"} \cup WithTask
              /\ task \in Tasks \cup {NULL}
              /\ outcome \in {"ok", "transient", "permanent", "ambiguous", NULL}
              => workers' \in [Workers -> WorkerState]
<1>1. workers[w] \in WorkerState  OBVIOUS
<1>2. workers' = [workers EXCEPT ![w] = [workers[w] EXCEPT !.pc = pc, !.task = task,
                                                           !.outcome = outcome]]
  BY DEF Moves
<1>3. workers'[w] = [workers[w] EXCEPT !.pc = pc, !.task = task, !.outcome = outcome]
  BY <1>2
<1>4. /\ workers'[w].pc = pc /\ workers'[w].task = task
      /\ workers'[w].outcome = outcome /\ workers'[w].rest = workers[w].rest
  BY <1>1, <1>3 DEF WorkerState
<1>5. \A v \in Workers \ {w} : workers'[v] = workers[v]  BY <1>2
<1>6. ASSUME pc \in {"rest", "claiming", "next"} \cup WithTask, task \in Tasks \cup {NULL},
             outcome \in {"ok", "transient", "permanent", "ambiguous", NULL}
      PROVE  workers' \in [Workers -> WorkerState]
  <2>1. [workers[w] EXCEPT !.pc = pc, !.task = task, !.outcome = outcome] \in WorkerState
    BY <1>1, <1>6 DEF WorkerState
  <2>2. QED  BY <1>2, <2>1
<1>7. QED  BY <1>4, <1>5, <1>6

LEMMA TokenInRange ==
    ASSUME StoreByJob, NEW j \in Jobs, NEW token, Holds(j, token)
    PROVE  token \in 1 .. MaxBudget
<1>1. jobs[j] \in JobRow /\ jobs[j].lease_token = token /\ jobs[j].lease_token # NULL
  BY DEF StoreByJob, JobInv, Holds
<1>2. QED  BY <1>1 DEF JobRow

LEMMA CodesAreReported ==
    \A outcome : FailureCode(outcome) \in ErrorCodes /\ DeadReason(outcome) \in ErrorCodes
BY DrillAssumption DEF FailureCode, DeadReason

\* What the drivers do to the repository is what its callers may do.
LEMMA StoreRuns ==
    ASSUME StoreByJob, DrillShape, [DrillNext]_drillVars
    PROVE  [Next]_storeVars
<1> USE DEF storeVars
<1>1. ASSUME NEW w \in Workers, DrillClaim(w)
      PROVE  Next
  <2>1. Lockable(w) \subseteq Jobs  BY DEF DrillShape, Lockable, Tasks
  <2>2. PICK batch \in SUBSET Jobs, locked \in SUBSET Jobs :
           ClaimPendingJobs(batch, Batch, locked)
    BY <1>1, <2>1 DEF DrillClaim
  <2>3. QED  BY <2>2, DrillAssumption DEF Next
<1>2. ASSUME NEW w \in Workers, CrashDuringFinalize(w) \/ FinalizeTask(w)
      PROVE  [Next]_storeVars
  <2> DEFINE t == workers[w].task
  <2>1. t.job \in Jobs  BY <1>2 DEF DrillShape, CrashDuringFinalize, FinalizeTask, WithTask, Tasks
  <2>2. \/ FinalizeSuccess(t.job, t.attempt)
        \/ \E delay \in 0 .. MaxDelay, code \in ErrorCodes :
              FinalizeRetryScheduled(t.job, t.attempt, delay, code)
        \/ \E code \in ErrorCodes : FinalizeDead(t.job, t.attempt, code)
        \/ UNCHANGED storeVars
    BY <1>2, CodesAreReported DEF CrashDuringFinalize, FinalizeTask, LeaseGone
  <2>3. CASE UNCHANGED storeVars  BY <2>3
  <2>4. CASE ~UNCHANGED storeVars
    <3>1. Holds(t.job, t.attempt)
      BY <2>2, <2>4 DEF FinalizeSuccess, FinalizeRetryScheduled, FinalizeDead
    <3>2. t.attempt \in 1 .. MaxBudget  BY <2>1, <3>1, TokenInRange
    <3> HIDE DEF t
    <3>3. QED  BY <2>1, <2>2, <2>4, <3>2 DEF Next
  <2>5. QED  BY <2>3, <2>4
<1>3. ASSUME NEW t \in renewing, Renew(t)
      PROVE  [Next]_storeVars
  <2>1. t.job \in Jobs  BY DEF DrillShape, Tasks
  <2>2. CASE RenewLease(t.job, t.attempt)
    <3>1. t.attempt \in 1 .. MaxBudget  BY <2>1, <2>2, TokenInRange DEF RenewLease
    <3>2. QED  BY <2>1, <2>2, <3>1 DEF Next
  <2>3. QED  BY <1>3, <2>2 DEF Renew, LeaseGone
<1>4. ASSUME NEW w \in Workers,
             TakeNext(w) \/ CrashAfterClaim(w) \/ StartCall(w) \/ Answer(w) \/ CrashAfterEffect(w)
      PROVE  UNCHANGED storeVars
  BY <1>4 DEF TakeNext, CrashAfterClaim, StartCall, Answer, CrashAfterEffect
<1>5. CASE EndRound \/ PassDeadline  BY <1>5 DEF EndRound, PassDeadline
<1>6. CASE TimePasses  BY <1>6 DEF TimePasses, Next
<1>7. CASE UNCHANGED drillVars  BY <1>7 DEF drillVars
<1>8. QED
  BY <1>1, <1>2, <1>3, <1>4, <1>5, <1>6, <1>7 DEF DrillNext, WorkerStep, RenewalStep

-------------------------------------------------------------------------------
(* The shape is kept.                                                      *)

\* A step of a worker with its task: to another point of it, or back from it.
LEMMA ShapeOfMove ==
    ASSUME DrillShape, NEW w \in Workers, workers[w].pc \in WithTask, UNCHANGED drill,
           renewing' \subseteq renewing \cup {workers[w].task},
           \/ Returns(w)
           \/ Moves(w, "calling", workers[w].task, NULL)
           \/ \E outcome \in MayAnswer : Moves(w, "answered", workers[w].task, outcome)
    PROVE  DrillShape'
<1>1. workers[w].task \in Tasks /\ w \in Crew /\ workers \in [Workers -> WorkerState]
  BY DEF DrillShape, WithTask
<1>2. MayAnswer \subseteq {"ok", "transient", "permanent", "ambiguous"} /\ MayAnswer' = MayAnswer
      /\ Crew' = Crew
  BY DrillAssumption DEF MayAnswer, Crew
<1>3. ASSUME NEW pc \in {"rest", "next"} \cup WithTask, NEW task \in Tasks \cup {NULL},
             NEW outcome \in {"ok", "transient", "permanent", "ambiguous", NULL},
             Moves(w, pc, task, outcome), pc \in WithTask => task \in Tasks,
             pc = "answered" => outcome \in MayAnswer, pc = "rest" => workers[w].rest = {}
      PROVE  DrillShape'
  <2>1. workers' \in [Workers -> WorkerState]  BY <1>1, <1>3, MoveFacts
  <2>2. /\ workers'[w].pc = pc /\ workers'[w].task = task /\ workers'[w].outcome = outcome
        /\ workers'[w].rest = workers[w].rest
        /\ \A v \in Workers \ {w} : workers'[v] = workers[v]
    BY <1>1, <1>3, MoveFacts
  <2>3. pc # "claiming"  BY <1>3 DEF WithTask
  <2>4. ASSUME NEW v \in Workers
        PROVE  /\ workers'[v].pc \in WithTask => workers'[v].task \in Tasks
               /\ workers'[v].pc = "answered" => workers'[v].outcome \in MayAnswer
               /\ workers'[v].pc \in {"rest", "claiming"} => workers'[v].rest = {}
               /\ workers'[v].pc # "rest" => v \in Crew
    <3>1. CASE v = w  BY <1>1, <1>3, <2>2, <2>3, <3>1
    <3>2. CASE v # w  BY <2>2, <3>2 DEF DrillShape
    <3>3. QED  BY <3>1, <3>2
  <2>5. renewing' \subseteq Tasks  BY <1>1 DEF DrillShape
  <2>6. QED  BY <1>2, <2>1, <2>4, <2>5 DEF DrillShape
<1>4. CASE Returns(w)
  BY <1>3, <1>4 DEF Returns, WithTask
<1>5. CASE Moves(w, "calling", workers[w].task, NULL)
  BY <1>1, <1>3, <1>5 DEF WithTask
<1>6. ASSUME NEW outcome \in MayAnswer, Moves(w, "answered", workers[w].task, outcome)
      PROVE  DrillShape'
  BY <1>1, <1>2, <1>3, <1>6 DEF WithTask
<1>7. QED  BY <1>4, <1>5, <1>6

LEMMA NextShape ==
    ASSUME StoreByJob, DrillShape, [DrillNext]_drillVars
    PROVE  DrillShape'
<1>1. ASSUME NEW w \in Workers,
             \/ CrashAfterClaim(w) \/ StartCall(w) \/ Answer(w)
             \/ CrashAfterEffect(w) \/ CrashDuringFinalize(w) \/ FinalizeTask(w)
      PROVE  DrillShape'
  <2>1. workers[w].pc \in WithTask /\ UNCHANGED drill
        /\ renewing' \subseteq renewing \cup {workers[w].task}
    BY <1>1 DEF CrashAfterClaim, StartCall, Answer, CrashAfterEffect, CrashDuringFinalize,
                FinalizeTask, WithTask
  <2>2. \/ Returns(w)
        \/ Moves(w, "calling", workers[w].task, NULL)
        \/ \E outcome \in MayAnswer : Moves(w, "answered", workers[w].task, outcome)
    BY <1>1 DEF CrashAfterClaim, StartCall, Answer, CrashAfterEffect, CrashDuringFinalize,
                FinalizeTask
  <2>3. QED  BY <2>1, <2>2, ShapeOfMove
<1>2. ASSUME NEW w \in Workers, DrillClaim(w)
      PROVE  DrillShape'
  <2>1. PICK batch \in SUBSET Jobs :
           workers' = [workers EXCEPT ![w] =
                [AtRest EXCEPT !.pc = IF batch = {} THEN "rest" ELSE "next",
                               !.rest = {[job |-> j, attempt |-> FreshToken(j),
                                          max_attempts |-> jobs[j].max_attempts] : j \in batch}]]
    BY <1>2 DEF DrillClaim
  <2> DEFINE rest == {[job |-> j, attempt |-> FreshToken(j),
                       max_attempts |-> jobs[j].max_attempts] : j \in batch}
             state == [AtRest EXCEPT !.pc = IF batch = {} THEN "rest" ELSE "next", !.rest = rest]
  <2>2. \A j \in Jobs : FreshToken(j) \in Int /\ jobs[j].max_attempts \in Int
    BY DEF StoreByJob, FreshToken, JobRow
  <2>3. rest \subseteq Tasks /\ (batch = {} => rest = {})  BY <2>2 DEF Tasks
  <2> HIDE DEF rest
  <2>4. state \in WorkerState /\ state.pc \in {"rest", "next"} /\ state.rest = rest
        /\ (state.pc = "rest" => batch = {})
    BY <2>3 DEF AtRest, WorkerState
  <2>5. workers' = [workers EXCEPT ![w] = state]  BY <2>1 DEF rest
  <2> HIDE DEF state
  <2>6. workers' \in [Workers -> WorkerState]  BY <2>4, <2>5 DEF DrillShape
  <2>7. w \in Crew /\ UNCHANGED <<drill, renewing>>  BY <1>2 DEF DrillClaim, DrillShape
  <2>8. ASSUME NEW v \in Workers
        PROVE  /\ workers'[v].pc \in WithTask => workers'[v].task \in Tasks
               /\ workers'[v].pc = "answered" => workers'[v].outcome \in MayAnswer
               /\ workers'[v].pc \in {"rest", "claiming"} => workers'[v].rest = {}
               /\ workers'[v].pc # "rest" => v \in Crew
    <3>1. CASE v = w
      <4>1. workers'[v] = state  BY <2>5, <3>1 DEF DrillShape
      <4>2. QED  BY <2>3, <2>4, <2>7, <3>1, <4>1 DEF WithTask
    <3>2. CASE v # w
      <4>1. workers'[v] = workers[v]  BY <2>5, <3>2 DEF DrillShape
      <4>2. QED  BY <4>1 DEF DrillShape
    <3>3. QED  BY <3>1, <3>2
  <2>9. QED  BY <2>6, <2>7, <2>8 DEF DrillShape, MayAnswer, Crew
<1>3. ASSUME NEW w \in Workers, TakeNext(w)
      PROVE  DrillShape'
  <2>1. PICK t \in workers[w].rest :
           workers' = [workers EXCEPT ![w] =
              [@ EXCEPT !.pc = "begun", !.task = t, !.rest = workers[w].rest \ {t}]]
    BY <1>3 DEF TakeNext
  <2> DEFINE state == [workers[w] EXCEPT !.pc = "begun", !.task = t,
                                         !.rest = workers[w].rest \ {t}]
  <2>2. workers[w] \in WorkerState /\ t \in Tasks  BY DEF DrillShape, WorkerState
  <2>3. state \in WorkerState /\ state.pc = "begun" /\ state.task = t
    BY <2>2 DEF WorkerState, WithTask
  <2>4. workers' = [workers EXCEPT ![w] = state]  BY <2>1
  <2> HIDE DEF state
  <2>5. workers' \in [Workers -> WorkerState]  BY <2>3, <2>4 DEF DrillShape
  <2>6. w \in Crew /\ UNCHANGED <<drill, renewing>>  BY <1>3 DEF TakeNext, DrillShape
  <2>7. \A v \in Workers : workers'[v] = IF v = w THEN state ELSE workers[v]
    BY <2>4 DEF DrillShape
  <2>8. QED  BY <2>2, <2>3, <2>5, <2>6, <2>7 DEF DrillShape, MayAnswer, Crew
<1>4. ASSUME NEW t \in renewing, Renew(t)
      PROVE  DrillShape'
  BY <1>4 DEF Renew, driverVars, DrillShape, MayAnswer, Crew
<1>5. CASE EndRound
  <2>1. UNCHANGED <<drill, renewing>> /\ (workers' = workers \/ workers' = RoundBegins)
    BY <1>5 DEF EndRound
  <2>2. CASE workers' = workers  BY <2>1, <2>2 DEF DrillShape, MayAnswer, Crew
  <2>3. CASE workers' = RoundBegins
    <3>1. AtRest \in WorkerState /\ Claiming \in WorkerState
          /\ AtRest.pc = "rest" /\ Claiming.pc = "claiming" /\ AtRest.rest = {} /\ Claiming.rest = {}
      BY DEF AtRest, Claiming, WorkerState
    <3>2. \A v \in Workers : workers'[v] = IF v \in Crew THEN Claiming ELSE AtRest
      BY <2>3 DEF RoundBegins
    <3>3. workers' \in [Workers -> WorkerState]  BY <2>3, <3>1 DEF RoundBegins
    <3>4. Crew' = Crew  BY <2>1 DEF Crew
    <3>5. QED  BY <2>1, <3>1, <3>2, <3>3, <3>4 DEF DrillShape, WithTask
  <2>4. QED  BY <2>1, <2>2, <2>3
<1>6. CASE PassDeadline \/ TimePasses \/ UNCHANGED drillVars
  BY <1>6 DEF PassDeadline, TimePasses, drillVars, driverVars, DrillShape, MayAnswer, Crew
<1>7. QED
  BY <1>1, <1>2, <1>3, <1>4, <1>5, <1>6 DEF DrillNext, WorkerStep, RenewalStep

-------------------------------------------------------------------------------
(* A drill that stopped has nothing left to do, and passes the gate.       *)

LEMMA InitDrill == DrillInit => DrillInv
<1> SUFFICES ASSUME DrillInit  PROVE DrillInv
  OBVIOUS
<1>1. \A j \in Jobs : JobInv(jobs[j], job_attempts[j]) /\ jobs[j] \in JobRow
                      /\ jobs[j].status = "PENDING"
  <2>1. ASSUME NEW j \in Jobs
        PROVE  JobInv(jobs[j], job_attempts[j])
    <3>1. jobs[j] = [NoJob EXCEPT !.status = "PENDING", !.max_attempts = Budget]
      BY DEF DrillInit
    <3>2. job_attempts[j] = NoAttempts /\ DOMAIN NoAttempts = {}
      BY DEF DrillInit, NoAttempts
    <3>3. QED  BY <3>1, <3>2, NewJobInv, DrillAssumption
  <2>2. \A j \in Jobs : jobs[j].status = "PENDING"
    BY DEF DrillInit, NoJob
  <2>3. QED  BY <2>1, <2>2 DEF JobInv
<1>2. StoreByJob  BY <1>1 DEF DrillInit, StoreByJob
<1>3. DrillShape
  <2>1. AtRest \in WorkerState /\ Claiming \in WorkerState
        /\ AtRest.pc = "rest" /\ Claiming.pc = "claiming" /\ AtRest.rest = {} /\ Claiming.rest = {}
    BY DEF AtRest, Claiming, WorkerState
  <2>2. workers \in [Workers -> WorkerState]  BY <2>1 DEF DrillInit, RoundBegins
  <2>3. \A v \in Workers : workers[v] = IF v \in Crew THEN Claiming ELSE AtRest
    BY DEF DrillInit, RoundBegins
  <2>4. QED  BY <2>1, <2>2, <2>3, DrillAssumption DEF DrillInit, DrillShape, WithTask
<1>4. DrillStops  BY <1>1 DEF DrillInit, DrillStops
<1>5. QED  BY <1>2, <1>3, <1>4 DEF DrillInv

LEMMA NextStops ==
    ASSUME StoreByJob, DrillShape, DrillStops, [DrillNext]_drillVars
    PROVE  DrillStops'
<1>1. [Next]_storeVars  BY StoreRuns
<1>2. ASSUME NEW j \in Jobs
      PROVE  jobs'[j].status # "ABSENT"
  <2>1. JobStep(j) /\ jobs[j].status # "ABSENT"  BY <1>1, StepOfJob DEF DrillStops
  <2>2. QED
    BY <2>1 DEF JobStep, Inserted, Buried, PassedBy, Claimed, Finalized, Renewed,
                Replayed, Ticked, Kept, Left
<1>3. CASE loop # "quiescent"
  <2>1. loop' = "quiescent" => /\ RoundOver /\ NothingLeft /\ UNCHANGED <<jobs, workers>>
    BY <1>3 DEF DrillNext, WorkerStep, RenewalStep, DrillClaim, TakeNext, CrashAfterClaim,
                StartCall, Answer, CrashAfterEffect, CrashDuringFinalize, FinalizeTask,
                Renew, EndRound, PassDeadline, TimePasses, driverVars, drillVars
  <2>2. loop' = "quiescent" => NothingLeft'  BY <2>1 DEF NothingLeft, Active
  <2>3. QED  BY <1>2, <2>1, <2>2 DEF DrillStops, RoundOver
<1>4. CASE loop = "quiescent"
  <2>1. NothingLeft /\ \A w \in Workers : workers[w].pc = "rest"  BY <1>4 DEF DrillStops
  <2>2. \A w \in Workers : ~WorkerStep(w)
    BY <2>1 DEF WorkerStep, DrillClaim, TakeNext, CrashAfterClaim, StartCall, Answer,
                CrashAfterEffect, CrashDuringFinalize, FinalizeTask
  <2>3. RenewalStep \/ TimePasses \/ UNCHANGED drillVars
    BY <1>4, <2>2 DEF DrillNext, EndRound, RoundOver, PassDeadline
  <2>4. UNCHANGED workers /\ (UNCHANGED jobs \/ Tick)
    <3>1. ASSUME NEW t \in renewing, Renew(t)
          PROVE  UNCHANGED jobs
      <4>1. t.job \in Jobs  BY DEF DrillShape, Tasks
      <4>2. ~Holds(t.job, t.attempt)  BY <2>1, <4>1 DEF NothingLeft, Active, Holds
      <4>3. QED  BY <3>1, <4>2 DEF Renew, RenewLease, LeaseGone, storeVars
    <3>2. QED  BY <2>3, <3>1 DEF RenewalStep, Renew, TimePasses, driverVars, drillVars
  <2>5. NothingLeft'
    <3>1. CASE UNCHANGED jobs  BY <2>1, <3>1 DEF NothingLeft, Active
    <3>2. CASE Tick
      <4>1. ASSUME NEW j \in Jobs
            PROVE  jobs'[j].status = jobs[j].status
        <5>1. jobs[j] \in JobRow  BY DEF StoreByJob
        <5>2. QED  BY <3>2, <5>1 DEF Tick, JobRow
      <4>2. QED  BY <2>1, <4>1 DEF NothingLeft, Active
    <3>3. QED  BY <2>4, <3>1, <3>2
  <2>6. QED  BY <1>2, <2>1, <2>4, <2>5 DEF DrillStops
<1>5. QED  BY <1>3, <1>4

LEMMA NextDrill == DrillInv /\ [DrillNext]_drillVars => DrillInv'
BY StoreRuns, NextStore, NextShape, NextStops DEF DrillInv

\* What the gate asks of a stopped drill, from the invariant of the repository:
\* no query of it can find a job lost, over its budget, or with two successes.
LEMMA GateOfDrill ==
    ASSUME DrillInv, loop # "round"
    PROVE  Passed(Evidence)
<1>1. \A j \in Jobs : jobs[j].status # "ABSENT" /\ JobInv(jobs[j], job_attempts[j])
  BY DEF DrillInv, DrillStops, StoreByJob
<1>2. Evidence.found = Jobs /\ Evidence.tracked = Jobs
  BY <1>1 DEF Evidence
<1>3. Evidence.expect_all_terminal => Evidence.found \subseteq Evidence.terminal
  <2>1. ASSUME loop = "quiescent", NEW j \in Jobs
        PROVE  jobs[j].status \in Terminal
    BY <1>1, <2>1 DEF DrillInv, DrillStops, NothingLeft, Active, JobInv, JobRow, Statuses, Terminal
  <2>2. QED  BY <1>2, <2>1 DEF Evidence
<1>4. Evidence.over_budget = {}
  <2>1. \A j \in Jobs : ~(jobs[j].attempts > jobs[j].max_attempts)
    BY <1>1 DEF JobInv, JobRow
  <2>2. QED  BY <2>1 DEF Evidence
<1>5. Evidence.succeeded_twice = {}
  <2>1. ASSUME NEW j \in Jobs, NEW m \in DOMAIN job_attempts[j],
               job_attempts[j][m].outcome = "SUCCEEDED"
        PROVE  m = jobs[j].attempts
    BY <1>1, <2>1 DEF JobInv
  <2>2. SucceededTwice = {}  BY <2>1 DEF SucceededTwice
  <2>3. QED  BY <2>2 DEF Evidence
<1>6. Evidence.charged_twice = {} /\ Evidence.capacity = Unknown  BY DEF Evidence
<1>7. QED
  BY <1>2, <1>3, <1>4, <1>5, <1>6
     DEF Passed, AllFound, AllTerminal, WithinBudget, OneChargeEach, OneSuccessEach,
         WithinCapacity

\* However many workers crash wherever they do, however often: a drill or a chaos
\* round that stopped passes the correctness gate.
THEOREM DrillsPass == DrillSpec => []GatePasses
<1>1. DrillInv => GatePasses  BY GateOfDrill DEF GatePasses
<1>2. QED  BY <1>1, InitDrill, NextDrill, PTL DEF DrillSpec

-------------------------------------------------------------------------------
(* A crash costs one attempt.                                              *)

LEMMA Alone ==
    ASSUME DrillShape, drill # "any"
    PROVE  /\ Me \in Workers /\ Crew = {Me} /\ MayAnswer = {"ok"}
           /\ \A w \in Workers : workers[w].pc # "rest" => w = Me
           /\ \A w \in Workers : WorkerStep(w) => w = Me
<1>1. Me \in Workers  BY DrillAssumption DEF Me
<1>2. Crew = {Me} /\ MayAnswer = {"ok"}  BY DEF Crew, Me, MayAnswer
<1>3. \A w \in Workers : workers[w].pc # "rest" => w = Me  BY <1>2 DEF DrillShape
<1>4. \A w \in Workers : WorkerStep(w) => workers[w].pc # "rest"
  BY DEF WorkerStep, DrillClaim, TakeNext, CrashAfterClaim, StartCall, Answer,
         CrashAfterEffect, CrashDuringFinalize, FinalizeTask
<1>5. QED  BY <1>1, <1>2, <1>3, <1>4

\* What the stage of a job goes by is as it was.
SameStage(j) ==
    /\ jobs'[j].status = jobs[j].status
    /\ jobs'[j].attempts = jobs[j].attempts
    /\ jobs'[j].max_attempts = jobs[j].max_attempts
    /\ job_attempts'[j] = job_attempts[j]

LEMMA StageCarries ==
    ASSUME NEW j \in Jobs, StageInv(j), SameStage(j), Held(j)' <=> Held(j),
           j \in triggered' <=> j \in triggered, charged \subseteq charged', drill' = drill
    PROVE  StageInv(j)'
BY DEF StageInv, SameStage, Second

\* A step that gives nothing to the worker and takes nothing from it.
LEMMA NothingHandedOver ==
    ASSUME HandsInv, \A j \in Jobs : StageInv(j) /\ SameStage(j), DrillShape,
           InHand' = InHand, triggered' = triggered, charged \subseteq charged', drill' = drill
    PROVE  /\ \A j \in Jobs : StageInv(j)'
           /\ \A t \in InHand' : jobs'[t.job].status = "RUNNING" /\ jobs'[t.job].attempts = t.attempt
           /\ \A s, t \in InHand' : s.job = t.job => s = t
<1>1. \A j \in Jobs : Held(j)' <=> Held(j)  BY DEF Held
<1>2. ASSUME NEW j \in Jobs
      PROVE  StageInv(j)'
  <2>1. j \in triggered' <=> j \in triggered  OBVIOUS
  <2>2. StageInv(j) /\ SameStage(j)  OBVIOUS
  <2>3. QED  BY <1>1, <2>1, <2>2, StageCarries
<1>3. \A t \in InHand : t.job \in Jobs
  <2>1. CASE Me \in Workers  BY <2>1 DEF InHand, DrillShape, WorkerState, Tasks
  <2>2. QED  BY <2>1, DrillAssumption DEF Me
<1>4. QED  BY <1>2, <1>3 DEF HandsInv, SameStage

\* The task of the worker returns.
LEMMA TaskReturns ==
    ASSUME DrillShape, HandsInv, Me \in Workers, workers[Me].pc \in WithTask, Returns(Me)
    PROVE  /\ InHand' = workers[Me].rest /\ InHand' \subseteq InHand
           /\ workers[Me].task \in InHand /\ workers[Me].task \in Tasks
           /\ workers'[Me].pc \in {"rest", "next"}
           /\ \A j \in Jobs : Held(j)' <=> Held(j) /\ j # workers[Me].task.job
<1> DEFINE t == workers[Me].task
<1>1. workers'[Me].pc \in {"rest", "next"} /\ workers'[Me].rest = workers[Me].rest
  BY MoveFacts DEF DrillShape, Returns
<1>2. InHand' = workers[Me].rest  BY <1>1 DEF InHand, WithTask
<1>3. InHand = workers[Me].rest \cup {t}  BY DEF InHand
<1>4. t \notin workers[Me].rest /\ t \in Tasks  BY DEF HandsInv, DrillShape
<1>5. \A s \in workers[Me].rest : s.job # t.job  BY <1>3, <1>4 DEF HandsInv
<1>6. QED  BY <1>1, <1>2, <1>3, <1>4, <1>5 DEF Held

\* The rest of the batch is in the hands it was in.
LEMMA RestStays ==
    ASSUME DrillShape, HandsInv, Me \in Workers, workers[Me].pc \in WithTask, Returns(Me),
           \A j \in Jobs \ {workers[Me].task.job} : SameStage(j)
    PROVE  HandsInv'
<1>1. /\ InHand' = workers[Me].rest /\ InHand' \subseteq InHand
      /\ workers'[Me].pc \in {"rest", "next"}
      /\ \A j \in Jobs : Held(j)' <=> Held(j) /\ j # workers[Me].task.job
  BY TaskReturns
<1>2. \A t \in InHand' : t.job \in Jobs  BY <1>1 DEF DrillShape, WorkerState, Tasks
<1>3. \A t \in InHand' : t.job # workers[Me].task.job  BY <1>1, <1>2 DEF Held
<1>4. \A t \in InHand' : jobs'[t.job].status = "RUNNING" /\ jobs'[t.job].attempts = t.attempt
  BY <1>1, <1>2, <1>3 DEF HandsInv, SameStage
<1>5. \A s, t \in InHand' : s.job = t.job => s = t  BY <1>1 DEF HandsInv
<1>6. QED  BY <1>1, <1>4, <1>5 DEF HandsInv, WithTask

LEMMA SuccessOfJob ==
    ASSUME StoreByJob, NEW j \in Jobs, NEW token, FinalizeSuccess(j, token)
    PROVE  /\ jobs'[j].status = "SUCCEEDED"
           /\ jobs'[j].attempts = jobs[j].attempts
           /\ jobs'[j].max_attempts = jobs[j].max_attempts
           /\ token = jobs[j].attempts
           /\ \A n \in DOMAIN job_attempts[j] :
                 n # token => job_attempts'[j][n] = job_attempts[j][n]
           /\ \A i \in Jobs \ {j} : SameStage(i)
<1>1. jobs[j] \in JobRow /\ JobInv(jobs[j], job_attempts[j])
      /\ jobs \in [Jobs -> JobRow] /\ DOMAIN job_attempts = Jobs
  BY DEF StoreByJob
<1>2. /\ jobs'[j] = [Released(jobs[j], "SUCCEEDED") EXCEPT
                       !.last_error_code = NULL, !.finished = TRUE]
      /\ job_attempts'[j] = CloseAttempt(job_attempts[j], token, "SUCCEEDED")
      /\ \A i \in Jobs \ {j} : jobs'[i] = jobs[i] /\ job_attempts'[i] = job_attempts[i]
  BY <1>1 DEF FinalizeSuccess
<1>3. /\ jobs'[j].status = "SUCCEEDED"
      /\ jobs'[j].attempts = jobs[j].attempts
      /\ jobs'[j].max_attempts = jobs[j].max_attempts
  BY <1>1, <1>2 DEF Released, JobRow
<1>4. token = jobs[j].attempts  BY LifeFacts DEF FinalizeSuccess, Holds
<1>5. \A n \in DOMAIN job_attempts[j] :
         n # token => job_attempts'[j][n] = job_attempts[j][n]
  BY <1>1, <1>2 DEF CloseAttempt, JobInv
<1>6. QED  BY <1>2, <1>3, <1>4, <1>5 DEF SameStage

-------------------------------------------------------------------------------
\* The steps of the one worker.

LEMMA CrashStep ==
    ASSUME DrillShape, drill # "any", CrashInv, Me \in Workers,
           CrashAfterClaim(Me) \/ CrashAfterEffect(Me)
    PROVE  CrashInv'
<1> DEFINE t == workers[Me].task
<1>1. HandsInv /\ \A j \in Jobs : StageInv(j)  BY DEF CrashInv
<1>2. /\ workers[Me].pc \in WithTask /\ Returns(Me)
      /\ UNCHANGED <<jobs, job_attempts, drill, charged>>
      /\ drill \in {"AfterClaimBeforeEffect", "AfterEffectBeforeFinalize"}
      /\ t.job \notin triggered /\ triggered' = triggered \cup {t.job}
  BY DEF CrashAfterClaim, CrashAfterEffect, Triggers, ShouldTrigger, WithTask
<1>3. /\ t \in InHand /\ t.job \in Jobs
      /\ \A j \in Jobs : Held(j)' <=> Held(j) /\ j # t.job
  BY <1>1, <1>2, TaskReturns DEF Tasks
<1>4. \A j \in Jobs : SameStage(j)  BY <1>2 DEF SameStage
<1>5. HandsInv'  BY <1>1, <1>2, <1>4, RestStays
<1>6. ASSUME NEW j \in Jobs
      PROVE  StageInv(j)'
  <2>1. CASE j = t.job
    <3>1. jobs[j].status = "RUNNING" /\ Held(j)  BY <1>1, <1>3, <2>1 DEF HandsInv, Held
    <3>2. jobs[j].attempts = 1  BY <1>1, <1>2, <2>1, <3>1 DEF StageInv, Second
    <3>3. j \in triggered' /\ ~Held(j)'  BY <1>2, <1>3, <2>1
    <3>4. jobs'[j] = jobs[j] /\ jobs[j].max_attempts = Budget /\ drill' # "DuringFinalize"
      BY <1>1, <1>2 DEF StageInv
    <3>5. QED  BY <3>1, <3>2, <3>3, <3>4 DEF StageInv
  <2>2. CASE j # t.job
    <3>1. Held(j)' <=> Held(j)  BY <1>3, <2>2
    <3>2. j \in triggered' <=> j \in triggered  BY <1>2, <2>2
    <3>3. StageInv(j) /\ SameStage(j)  BY <1>1, <1>4
    <3>4. charged \subseteq charged' /\ drill' = drill  BY <1>2
    <3>5. QED  BY <3>1, <3>2, <3>3, <3>4, StageCarries
  <2>3. QED  BY <2>1, <2>2
<1>7. QED  BY <1>5, <1>6 DEF CrashInv

LEMMA SuccessStep ==
    ASSUME StoreByJob, DrillShape, drill # "any", CrashInv, Me \in Workers,
           CrashDuringFinalize(Me) \/ FinalizeTask(Me)
    PROVE  CrashInv'
<1> DEFINE t == workers[Me].task
<1>1. HandsInv /\ \A j \in Jobs : StageInv(j)  BY DEF CrashInv
<1>2. /\ workers[Me].pc = "answered" /\ Returns(Me) /\ UNCHANGED <<drill, charged>>
      /\ workers[Me].outcome = "ok"
  BY Alone DEF CrashDuringFinalize, FinalizeTask, DrillShape
<1>3. workers[Me].pc \in WithTask  BY <1>2 DEF WithTask
<1>4. /\ t \in InHand /\ t.job \in Jobs
      /\ \A j \in Jobs : Held(j)' <=> Held(j) /\ j # t.job
  BY <1>1, <1>2, <1>3, TaskReturns DEF Tasks
<1>5. /\ jobs[t.job].status = "RUNNING" /\ jobs[t.job].attempts = t.attempt /\ Held(t.job)
      /\ t.job \in charged
  BY <1>1, <1>2, <1>4 DEF HandsInv, Held
<1>6. Holds(t.job, t.attempt)  BY <1>4, <1>5, LifeFacts DEF Holds
<1>7. FinalizeSuccess(t.job, t.attempt)
  BY <1>2, <1>6 DEF CrashDuringFinalize, FinalizeTask, IsRetryable, LeaseGone
<1>8. /\ jobs'[t.job].status = "SUCCEEDED" /\ jobs'[t.job].attempts = jobs[t.job].attempts
      /\ jobs'[t.job].max_attempts = Budget
      /\ \A n \in DOMAIN job_attempts[t.job] :
            n # t.attempt => job_attempts'[t.job][n] = job_attempts[t.job][n]
      /\ \A j \in Jobs \ {t.job} : SameStage(j)
  BY <1>1, <1>4, <1>7, SuccessOfJob DEF StageInv
<1>9. HandsInv'  BY <1>1, <1>2, <1>3, <1>8, RestStays
\* The failpoint is passed at the first attempt of a job in no drill but that
\* whose crash comes with the finalization.
<1>10. IF drill = "DuringFinalize" THEN jobs[t.job].attempts = 1 ELSE Second(t.job)
  <2>1. \/ jobs[t.job].attempts = 1 /\ t.job \notin triggered
        \/ Second(t.job)
    BY <1>1, <1>4, <1>5 DEF StageInv
  <2>2. ASSUME drill = "AfterEffectBeforeFinalize"
        PROVE  t.job \in triggered
    BY <1>2, <2>2 DEF CrashDuringFinalize, FinalizeTask, PassesEffect, ShouldTrigger
  <2>3. ASSUME drill = "AfterClaimBeforeEffect"
        PROVE  t.job \in triggered
    BY <1>1, <1>2, <2>3 DEF HandsInv
  <2>4. drill \in Failpoints  BY DEF DrillShape
  <2>5. QED  BY <2>1, <2>2, <2>3, <2>4 DEF Failpoints, Second
<1>11. triggered \subseteq triggered' /\ triggered' \subseteq triggered \cup {t.job}
  BY DEF CrashDuringFinalize, FinalizeTask, Triggers
<1>12. ASSUME NEW j \in Jobs
       PROVE  StageInv(j)'
  <2>1. CASE j = t.job
    <3>1. drill # "DuringFinalize" => Second(j)'
      <4>1. ASSUME drill # "DuringFinalize"
            PROVE  Second(j)'
        <5>1. jobs[j].attempts = 2 /\ job_attempts[j][1].outcome = "LEASE_LOST" /\ j \in triggered
          BY <1>10, <2>1, <4>1 DEF Second
        <5>2. DOMAIN job_attempts[j] = 1 .. jobs[j].attempts  BY LifeFacts
        <5>3. job_attempts'[j][1] = job_attempts[j][1]
          BY <1>5, <1>8, <2>1, <5>1, <5>2
        <5>4. QED  BY <1>2, <1>8, <1>11, <2>1, <4>1, <5>1, <5>3 DEF Second
      <4>2. QED  BY <4>1
    <3>2. drill = "DuringFinalize" => jobs'[j].attempts = 1  BY <1>8, <1>10, <2>1
    <3>3. QED  BY <1>2, <1>5, <1>8, <2>1, <3>1, <3>2 DEF StageInv
  <2>2. CASE j # t.job
    <3>1. Held(j)' <=> Held(j)  BY <1>4, <2>2
    <3>2. j \in triggered' <=> j \in triggered  BY <1>11, <2>2
    <3>3. StageInv(j) /\ SameStage(j)  BY <1>1, <1>8, <2>2
    <3>4. charged \subseteq charged' /\ drill' = drill  BY <1>2
    <3>5. QED  BY <3>1, <3>2, <3>3, <3>4, StageCarries
  <2>3. QED  BY <2>1, <2>2
<1>13. QED  BY <1>9, <1>12 DEF CrashInv

LEMMA ClaimStep ==
    ASSUME StoreByJob, DrillShape, drill # "any", CrashInv, Me \in Workers, Budget >= 2,
           DrillClaim(Me)
    PROVE  CrashInv'
<1>1. HandsInv /\ \A j \in Jobs : StageInv(j)  BY DEF CrashInv
<1>2. Lockable(Me) \subseteq Jobs  BY DEF DrillShape, Lockable, Tasks
<1>3. PICK batch \in SUBSET Jobs, locked \in SUBSET Jobs :
        /\ ClaimPendingJobs(batch, Batch, locked)
        /\ workers' = [workers EXCEPT ![Me] =
                [AtRest EXCEPT !.pc = IF batch = {} THEN "rest" ELSE "next",
                               !.rest = {[job |-> j, attempt |-> FreshToken(j),
                                          max_attempts |-> jobs[j].max_attempts] : j \in batch}]]
  BY <1>2 DEF DrillClaim
<1>4. UNCHANGED <<drill, triggered, charged>>  BY DEF DrillClaim
<1> DEFINE rest == {[job |-> j, attempt |-> FreshToken(j),
                     max_attempts |-> jobs[j].max_attempts] : j \in batch}
<1>5. workers'[Me].pc \in {"rest", "next"} /\ workers'[Me].rest = rest
  <2> DEFINE state == [AtRest EXCEPT !.pc = IF batch = {} THEN "rest" ELSE "next", !.rest = rest]
  <2>1. workers'[Me] = state  BY <1>3 DEF DrillShape
  <2> HIDE DEF rest
  <2>2. state.pc \in {"rest", "next"} /\ state.rest = rest  BY DEF AtRest
  <2>3. QED  BY <2>1, <2>2
<1>6. InHand' = rest  BY <1>5 DEF InHand, WithTask
<1>7. \A j \in Jobs : ~Held(j)
  <2>1. workers[Me].pc = "claiming"  BY DEF DrillClaim
  <2>2. InHand = {}  BY <2>1 DEF InHand, DrillShape, WithTask
  <2>3. QED  BY <2>2 DEF Held
<1>8. \A j \in Jobs : Held(j)' <=> j \in batch
  <2>1. \A t \in rest : t.job \in batch  OBVIOUS
  <2>2. ASSUME NEW j \in batch
        PROVE  \E t \in rest : t.job = j
    <3> DEFINE t == [job |-> j, attempt |-> FreshToken(j), max_attempts |-> jobs[j].max_attempts]
    <3>1. t \in rest  OBVIOUS
    <3>2. t.job = j  OBVIOUS
    <3> HIDE DEF t, rest
    <3>3. QED  BY <3>1, <3>2
  <2> HIDE DEF rest
  <2>3. QED  BY <1>6, <2>1, <2>2 DEF Held
<1>9. \A j \in batch : Due(j)  BY <1>3 DEF ClaimPendingJobs, IsClaimBatch
<1>10. \A j \in Jobs : j \notin ClaimExhausted(locked)
  <2>1. SUFFICES ASSUME NEW j \in Jobs, LeaseExpired(j)  PROVE HasBudget(j)
    BY DEF ClaimExhausted
  <2>2. jobs[j].attempts = 1 /\ jobs[j].max_attempts = Budget
    BY <1>1, <1>7, <2>1 DEF StageInv, LeaseExpired
  <2>3. QED  BY <2>2, DrillAssumption DEF HasBudget
<1>11. \A j \in Jobs : /\ jobs'[j] = RowAfterClaim(j, ClaimExhausted(locked), batch)
                       /\ job_attempts'[j] = TrailAfterClaim(j, batch)
  BY <1>3 DEF ClaimPendingJobs
<1>12. ASSUME NEW j \in batch
       PROVE  /\ jobs'[j].status = "RUNNING" /\ jobs'[j].attempts = jobs[j].attempts + 1
              /\ jobs'[j].max_attempts = jobs[j].max_attempts
  <2>1. jobs[j] \in JobRow  BY DEF StoreByJob
  <2>2. QED  BY <1>10, <1>11, <2>1 DEF RowAfterClaim, FreshToken, JobRow
<1>13. ASSUME NEW j \in batch
       PROVE  StageInv(j)'
  <2>1. jobs[j].status = "PENDING" \/ LeaseExpired(j)  BY <1>9 DEF Due
  <2>2. CASE jobs[j].status = "PENDING"
    <3>1. jobs[j].attempts = 0 /\ j \notin triggered  BY <1>1, <2>2 DEF StageInv
    <3>2. QED  BY <1>1, <1>4, <1>8, <1>12, <3>1 DEF StageInv
  <2>3. CASE LeaseExpired(j)
    <3>1. /\ jobs[j].status = "RUNNING" /\ jobs[j].attempts = 1 /\ j \in triggered
          /\ drill # "DuringFinalize"
      BY <1>1, <1>7, <2>3 DEF StageInv, LeaseExpired
    <3>2. PICK settled :
            /\ settled = LoseOpenAttempts(job_attempts[j])
            /\ job_attempts'[j] = InsertAttempt(settled, jobs[j].attempts + 1,
                                                jobs[j].attempts + 1)
      BY <1>11, <2>3 DEF TrailAfterClaim, FreshToken
    <3>3. 1 \in DOMAIN settled /\ settled[1].outcome = "LEASE_LOST"
      BY <3>1, <3>2, LostFacts
    <3>4. job_attempts'[j][1].outcome = "LEASE_LOST"
      BY <3>1, <3>2, <3>3 DEF InsertAttempt
    <3>5. Second(j)'  BY <1>4, <1>12, <3>1, <3>4 DEF Second
    <3>6. QED  BY <1>1, <1>8, <1>12, <3>5 DEF StageInv
  <2>4. QED  BY <2>1, <2>2, <2>3
<1>14. ASSUME NEW j \in Jobs \ batch
       PROVE  StageInv(j)'
  <2>1. jobs'[j] = jobs[j]  BY <1>10, <1>11 DEF RowAfterClaim
  <2>2. ~Held(j)' /\ ~Held(j)  BY <1>7, <1>8
  <2>3. ~LeaseExpired(j) => job_attempts'[j] = job_attempts[j]
    BY <1>11 DEF TrailAfterClaim
  <2>4. CASE LeaseExpired(j)
    <3>1. jobs[j].status = "RUNNING"  BY <2>4 DEF LeaseExpired
    <3>2. QED  BY <1>1, <1>4, <2>1, <2>2, <3>1 DEF StageInv
  <2>5. CASE ~LeaseExpired(j)
    <3>1. StageInv(j) /\ SameStage(j)  BY <1>1, <2>1, <2>3, <2>5 DEF SameStage
    <3>2. Held(j)' <=> Held(j)  BY <2>2
    <3>3. j \in triggered' <=> j \in triggered  BY <1>4
    <3>4. charged \subseteq charged' /\ drill' = drill  BY <1>4
    <3>5. QED  BY <3>1, <3>2, <3>3, <3>4, StageCarries
  <2>6. QED  BY <2>4, <2>5
<1>15. HandsInv'
  <2>1. \A t \in rest : jobs'[t.job].status = "RUNNING" /\ jobs'[t.job].attempts = t.attempt
    BY <1>12 DEF FreshToken
  <2>2. \A s, t \in rest : s.job = t.job => s = t  OBVIOUS
  <2> HIDE DEF rest
  <2>3. QED  BY <1>5, <1>6, <2>1, <2>2 DEF HandsInv, WithTask
<1>16. QED  BY <1>13, <1>14, <1>15 DEF CrashInv

\* The steps that neither take a job into the worker's hands nor out of them.
LEMMA QuietStep ==
    ASSUME StoreByJob, DrillShape, drill # "any", CrashInv, Me \in Workers,
           TakeNext(Me) \/ StartCall(Me) \/ Answer(Me)
    PROVE  CrashInv'
<1>1. HandsInv /\ \A j \in Jobs : StageInv(j)  BY DEF CrashInv
<1>2. \A j \in Jobs : SameStage(j)
  BY DEF TakeNext, StartCall, Answer, SameStage
<1>3. UNCHANGED <<drill, triggered>>  BY DEF TakeNext, StartCall, Answer
<1>4. CASE TakeNext(Me)
  <2>1. PICK t \in workers[Me].rest :
          workers' = [workers EXCEPT ![Me] =
             [@ EXCEPT !.pc = "begun", !.task = t, !.rest = workers[Me].rest \ {t}]]
    BY <1>4 DEF TakeNext
  <2>2. workers[Me] \in WorkerState  BY DEF DrillShape
  <2>3. workers'[Me].pc = "begun" /\ workers'[Me].task = t
        /\ workers'[Me].rest = workers[Me].rest \ {t}
    <3> DEFINE state == [workers[Me] EXCEPT !.pc = "begun", !.task = t,
                                            !.rest = workers[Me].rest \ {t}]
    <3>1. workers'[Me] = state  BY <2>1 DEF DrillShape
    <3>2. state.pc = "begun" /\ state.task = t /\ state.rest = workers[Me].rest \ {t}
      BY <2>2 DEF WorkerState
    <3>3. QED  BY <3>1, <3>2
  <2>4. InHand' = InHand
    <3>1. workers[Me].pc = "next"  BY <1>4 DEF TakeNext
    <3>2. QED  BY <2>3, <3>1 DEF InHand, WithTask
  <2>5. charged' = charged  BY <1>4 DEF TakeNext
  <2>6. HandsInv'
    BY <1>1, <1>2, <1>3, <2>3, <2>4, <2>5, NothingHandedOver DEF HandsInv, WithTask
  <2>7. QED  BY <1>1, <1>2, <1>3, <2>4, <2>5, <2>6, NothingHandedOver DEF CrashInv
<1>5. ASSUME NEW pc \in {"calling", "answered"}, NEW outcome,
             Moves(Me, pc, workers[Me].task, outcome), workers[Me].pc \in WithTask,
             charged \subseteq charged',
             pc = "answered" => workers[Me].task.job \in charged',
             drill = "AfterClaimBeforeEffect" => workers[Me].task.job \in triggered
      PROVE  CrashInv'
  <2>1. /\ workers'[Me].pc = pc /\ workers'[Me].task = workers[Me].task
        /\ workers'[Me].rest = workers[Me].rest
    BY <1>5, MoveFacts DEF DrillShape
  <2>2. InHand' = InHand  BY <1>5, <2>1 DEF InHand, WithTask
  <2>3. HandsInv'
    BY <1>1, <1>2, <1>3, <1>5, <2>1, <2>2, NothingHandedOver DEF HandsInv
  <2>4. QED  BY <1>1, <1>2, <1>3, <1>5, <2>2, <2>3, NothingHandedOver DEF CrashInv
<1>6. CASE StartCall(Me)
  <2>1. /\ Moves(Me, "calling", workers[Me].task, NULL) /\ charged' = charged
        /\ workers[Me].pc \in WithTask
    BY <1>6 DEF StartCall, WithTask
  <2>2. drill = "AfterClaimBeforeEffect" => workers[Me].task.job \in triggered
    BY <1>6 DEF StartCall, ShouldTrigger
  <2>3. QED  BY <1>5, <2>1, <2>2
<1>7. CASE Answer(Me)
  <2>1. PICK outcome \in MayAnswer :
          /\ Moves(Me, "answered", workers[Me].task, outcome)
          /\ charged' \in {charged \cup {workers[Me].task.job}}
                          \cup (IF outcome = "ok" THEN {} ELSE {charged})
    BY <1>7 DEF Answer
  <2>2. outcome = "ok"  BY Alone
  <2>3. charged' = charged \cup {workers[Me].task.job}  BY <2>1, <2>2
  <2>4. workers[Me].pc = "calling"  BY <1>7 DEF Answer
  <2>5. workers[Me].pc \in WithTask
        /\ (drill = "AfterClaimBeforeEffect" => workers[Me].task.job \in triggered)
    BY <1>1, <2>4 DEF HandsInv, WithTask
  <2>6. QED  BY <1>5, <2>1, <2>3, <2>5
<1>8. QED  BY <1>4, <1>6, <1>7

\* Heartbeats, the driver's loop and the clock.
LEMMA AroundStep ==
    ASSUME StoreByJob, DrillShape, drill # "any", CrashInv, Me \in Workers,
           RenewalStep \/ EndRound \/ PassDeadline \/ TimePasses \/ UNCHANGED drillVars
    PROVE  CrashInv'
<1>1. HandsInv /\ \A j \in Jobs : StageInv(j)  BY DEF CrashInv
<1>2. UNCHANGED <<drill, triggered, charged>>
  BY DEF RenewalStep, Renew, EndRound, PassDeadline, TimePasses, driverVars, drillVars
<1>3. ASSUME NEW j \in Jobs
      PROVE  SameStage(j)
  <2>1. jobs[j] \in JobRow /\ jobs \in [Jobs -> JobRow]  BY DEF StoreByJob
  <2>2. ASSUME NEW t \in renewing, Renew(t)
        PROVE  SameStage(j)
    <3>1. t.job \in Jobs  BY DEF DrillShape, Tasks
    <3>2. CASE RenewLease(t.job, t.attempt)
      <4>1. jobs'[j] = IF j = t.job THEN [jobs[j] EXCEPT !.lease_expires_at = LeaseDuration]
                       ELSE jobs[j]
        BY <2>1, <3>1, <3>2 DEF RenewLease
      <4>2. job_attempts' = job_attempts  BY <3>2 DEF RenewLease
      <4>3. QED  BY <2>1, <4>1, <4>2 DEF SameStage, JobRow
    <3>3. CASE LeaseGone(t)  BY <3>3 DEF LeaseGone, storeVars, SameStage
    <3>4. QED  BY <2>2, <3>2, <3>3 DEF Renew
  <2>3. CASE TimePasses
    <3>1. /\ jobs'[j] = [jobs[j] EXCEPT
                           !.next_attempt_at = IF Active(j) THEN Aged(@, -Horizon) ELSE @,
                           !.lease_expires_at = IF @ = NULL THEN NULL ELSE Aged(@, 0)]
          /\ job_attempts' = job_attempts
      BY <2>3 DEF TimePasses, Tick
    <3>2. QED  BY <2>1, <3>1 DEF SameStage, JobRow
  <2>4. CASE EndRound \/ PassDeadline \/ UNCHANGED drillVars
    BY <2>4 DEF EndRound, PassDeadline, drillVars, SameStage
  <2>5. QED  BY <2>2, <2>3, <2>4 DEF RenewalStep
<1>4. CASE UNCHANGED workers
  <2>1. InHand' = InHand  BY <1>4 DEF InHand
  <2>2. HandsInv'  BY <1>1, <1>2, <1>3, <1>4, <2>1, NothingHandedOver DEF HandsInv
  <2>3. QED  BY <1>1, <1>2, <1>3, <2>1, <2>2, NothingHandedOver DEF CrashInv
<1>5. CASE EndRound /\ workers' = RoundBegins
  <2>1. workers[Me].pc = "rest"  BY <1>5 DEF EndRound, RoundOver
  <2>2. InHand = {}  BY <2>1 DEF InHand, DrillShape, WithTask
  <2>3. workers'[Me].pc \in {"rest", "claiming"} /\ workers'[Me].rest = {}
    BY <1>5 DEF RoundBegins, AtRest, Claiming
  <2>4. InHand' = InHand  BY <2>2, <2>3 DEF InHand, WithTask
  <2>5. HandsInv'
    BY <1>1, <1>2, <1>3, <2>3, <2>4, NothingHandedOver DEF HandsInv, WithTask
  <2>6. QED  BY <1>1, <1>2, <1>3, <2>4, <2>5, NothingHandedOver DEF CrashInv
<1>6. QED
  BY <1>4, <1>5 DEF RenewalStep, Renew, EndRound, PassDeadline, TimePasses, driverVars, drillVars

LEMMA InitCrash == DrillInit => CrashInv
<1> SUFFICES ASSUME DrillInit, drill # "any"
             PROVE  HandsInv /\ \A j \in Jobs : StageInv(j)
  BY DEF CrashInv
<1>1. Me \in Workers  BY DrillAssumption DEF Me
<1>2. workers[Me].pc \in {"rest", "claiming"} /\ workers[Me].rest = {}
  BY <1>1 DEF DrillInit, RoundBegins, AtRest, Claiming
<1>3. InHand = {}  BY <1>2 DEF InHand, WithTask
<1>4. \A j \in Jobs : /\ jobs[j].status = "PENDING" /\ jobs[j].attempts = 0
                      /\ jobs[j].max_attempts = Budget /\ j \notin triggered
  BY DEF DrillInit, NoJob
<1>5. HandsInv  BY <1>2, <1>3 DEF HandsInv, WithTask
<1>6. QED  BY <1>4, <1>5 DEF StageInv

LEMMA NextCrash ==
    ASSUME Budget >= 2, DrillInv, CrashInv, [DrillNext]_drillVars
    PROVE  CrashInv'
<1>1. StoreByJob /\ DrillShape  BY DEF DrillInv
<1>2. drill' = drill
  BY DEF DrillNext, WorkerStep, RenewalStep, DrillClaim, TakeNext, CrashAfterClaim, StartCall,
         Answer, CrashAfterEffect, CrashDuringFinalize, FinalizeTask, Renew, EndRound,
         PassDeadline, TimePasses, driverVars, drillVars
<1>3. CASE drill = "any"  BY <1>2, <1>3 DEF CrashInv
<1>4. CASE drill # "any"
  <2>1. Me \in Workers /\ \A w \in Workers : WorkerStep(w) => w = Me  BY <1>1, <1>4, Alone
  <2>2. CASE WorkerStep(Me)
    BY <1>1, <1>4, <2>1, <2>2, CrashStep, SuccessStep, ClaimStep, QuietStep DEF WorkerStep
  <2>3. CASE RenewalStep \/ EndRound \/ PassDeadline \/ TimePasses \/ UNCHANGED drillVars
    BY <1>1, <1>4, <2>1, <2>3, AroundStep
  <2>4. QED  BY <2>1, <2>2, <2>3 DEF DrillNext
<1>5. QED  BY <1>3, <1>4

\* For any number of jobs, as long as there is a second attempt to have: with a
\* healthy service a crash at a failpoint costs its job exactly one attempt, and
\* one more finishes it.
THEOREM CrashesCostOneAttempt ==
    ASSUME Budget >= 2
    PROVE  DrillSpec => []CrashCostsOneAttempt
<1>1. DrillInv /\ CrashInv => CrashCostsOneAttempt
  <2> SUFFICES ASSUME DrillInv, CrashInv, loop = "quiescent", drill # "any", NEW j \in Jobs
               PROVE  /\ jobs[j].status = "SUCCEEDED" /\ j \in charged
                      /\ IF drill = "DuringFinalize" THEN jobs[j].attempts = 1
                         ELSE jobs[j].attempts = 2 /\ job_attempts[j][1].outcome = "LEASE_LOST"
    BY DEF CrashCostsOneAttempt
  <2>1. ~Active(j)  BY DEF DrillInv, DrillStops, NothingLeft
  <2>2. StageInv(j)  BY DEF CrashInv
  <2>3. QED  BY <2>1, <2>2 DEF StageInv, Active, Second
<1>2. DrillInv /\ CrashInv /\ [DrillNext]_drillVars => DrillInv' /\ CrashInv'
  BY NextDrill, NextCrash
<1>3. QED  BY <1>1, <1>2, InitDrill, InitCrash, PTL DEF DrillSpec

-------------------------------------------------------------------------------
(* GET /v1/jobs and GET /v1/dead-jobs.                                     *)

\* The ids the client was given.
Given == {listed[n] : n \in DOMAIN listed}

ListedRow == [seen : BOOLEAN, created_at : Nat \cup {NULL}, status : ListedStatuses]
Cursor    == [created_at : Nat, id : JobIds]

ListingTypes ==
    /\ clock \in Nat
    /\ submitted \in [JobIds -> ListedRow]
    /\ \A j \in JobIds : submitted[j].seen => submitted[j].created_at # NULL
    /\ listing \in [pc     : {"idle", "listing", "done"},
                    filter : ListedStatuses \cup {NULL},
                    cursor : Cursor \cup {NULL}]
    /\ listed \in Seq(JobIds)
    /\ owed \in SUBSET JobIds

\* The cursor stands behind all that was given and before all that is still owed.
ListingInv ==
    /\ ListingTypes
    /\ \A j \in Given : submitted[j].seen
    /\ ListedInOrder
    /\ listing.pc = "idle" => listed = <<>> /\ listing.cursor = NULL
    /\ listing.pc = "listing" =>
          /\ \A j \in Given : ~After(j, listing.cursor)
          /\ \A j \in owed : Matches(j, listing.filter)
                             /\ (After(j, listing.cursor) \/ j \in Given)
    /\ NothingOwedIsSkipped

\* The jobs that have a key.
Keyed == {j \in JobIds : submitted[j].created_at \in Nat}

Place(j, rows) == Cardinality(Before(j, rows))

\* The order of the keys is strict, transitive and total.
LEMMA KeysAreOrdered ==
  /\ \A i, j, k \in Keyed :
        Precedes(EncodeCursor(i), EncodeCursor(j)) /\ Precedes(EncodeCursor(j), EncodeCursor(k))
        => Precedes(EncodeCursor(i), EncodeCursor(k))
  /\ \A i, j \in Keyed :
        /\ i # j <=> \/ Precedes(EncodeCursor(i), EncodeCursor(j))
                     \/ Precedes(EncodeCursor(j), EncodeCursor(i))
        /\ ~(/\ Precedes(EncodeCursor(i), EncodeCursor(j))
             /\ Precedes(EncodeCursor(j), EncodeCursor(i)))
BY ListingAssumption DEF Precedes, EncodeCursor, Keyed, JobIds

\* The places of a page's rows are 0, 1, 2, ...: no two share one, because more
\* rows are before the later of them, and so every place is taken.
LEMMA RowPlaces ==
  ASSUME NEW rows \in SUBSET Keyed
  PROVE  /\ Cardinality(rows) \in Nat
         /\ \A j \in rows : Place(j, rows) \in 0 .. Cardinality(rows) - 1
         /\ \A i, j \in rows : Place(i, rows) < Place(j, rows)
                               <=> Precedes(EncodeCursor(i), EncodeCursor(j))
         /\ \A n \in 0 .. Cardinality(rows) - 1 : \E j \in rows : Place(j, rows) = n
<1> DEFINE N == Cardinality(rows)
<1>1. IsFiniteSet(rows) /\ N \in Nat
  <2>1. NumJobs \in Int /\ 1 \in Int
    BY ListingAssumption
  <2>2. IsFiniteSet(JobIds)
    BY <2>1, FS_Interval DEF JobIds
  <2>3. rows \in SUBSET JobIds
    BY DEF Keyed
  <2>4. QED  BY <2>2, <2>3, FS_Subset, FS_CardinalityType
<1>2. ASSUME NEW j \in rows
      PROVE  /\ IsFiniteSet(Before(j, rows))
             /\ Place(j, rows) \in 0 .. N - 1
  <2>1. Before(j, rows) \in SUBSET rows /\ j \notin Before(j, rows)
    BY DEF Before, Precedes, EncodeCursor, Keyed, JobIds
  <2>2. IsFiniteSet(Before(j, rows)) /\ Place(j, rows) <= N /\ Place(j, rows) # N
    BY <1>1, <1>2, <2>1, FS_Subset DEF Place
  <2>3. Place(j, rows) \in Nat
    BY <2>2, FS_CardinalityType DEF Place
  <2>4. QED  BY <1>1, <2>2, <2>3
<1>3. ASSUME NEW i \in rows, NEW j \in rows, Precedes(EncodeCursor(i), EncodeCursor(j))
      PROVE  Place(i, rows) < Place(j, rows)
  <2>1. Before(i, rows) \in SUBSET Before(j, rows)
    <3>1. ASSUME NEW k \in rows, Precedes(EncodeCursor(k), EncodeCursor(i))
          PROVE  Precedes(EncodeCursor(k), EncodeCursor(j))
      BY <1>3, <3>1, KeysAreOrdered
    <3>2. QED  BY <3>1 DEF Before
  <2>2. i \in Before(j, rows) /\ i \notin Before(i, rows)
    BY <1>3 DEF Before, Precedes, EncodeCursor, Keyed, JobIds
  <2>3. Place(i, rows) <= Place(j, rows) /\ Place(i, rows) # Place(j, rows)
    BY <1>2, <2>1, <2>2, FS_Subset DEF Place
  <2>4. QED  BY <1>2, <2>3
<1>4. ASSUME NEW i \in rows, NEW j \in rows, i # j
      PROVE  \/ Precedes(EncodeCursor(i), EncodeCursor(j))
             \/ Precedes(EncodeCursor(j), EncodeCursor(i))
  BY <1>4, KeysAreOrdered
<1>5. \A i, j \in rows : Place(i, rows) < Place(j, rows)
                         <=> Precedes(EncodeCursor(i), EncodeCursor(j))
  BY <1>1, <1>2, <1>3, <1>4
<1>6. \A n \in 0 .. N - 1 : \E j \in rows : Place(j, rows) = n
  <2> DEFINE place == [j \in rows |-> Place(j, rows)]
  <2>1. place \in [rows -> 0 .. N - 1]
    BY <1>2
  <2>2. \A i, j \in rows : place[i] = place[j] => i = j
    BY <1>1, <1>2, <1>3, <1>4
  <2>3. place \in Injection(rows, 0 .. N - 1)
    BY <2>1, <2>2 DEF Injection, IsInjective
  <2>4. IsFiniteSet(0 .. N - 1) /\ Cardinality(0 .. N - 1) = N
    <3>1. 0 \in Int /\ N - 1 \in Int
      BY <1>1
    <3>2. QED  BY <1>1, <3>1, FS_Interval
  <2>5. place \in Surjection(rows, 0 .. N - 1)
    BY <2>3, <2>4, FS_Injection
  <2>6. QED  BY <2>5 DEF Surjection
<1>7. QED  BY <1>1, <1>2, <1>5, <1>6

\* A page is the first rows in order: at most `limit` of them, and all of them if
\* there are fewer.
LEMMA PageRows ==
  ASSUME NEW filter, NEW cursor, NEW limit \in Nat, Rows(filter, cursor) \in SUBSET Keyed,
         NEW page, page = Page(filter, cursor, limit)
  PROVE  /\ page \in Seq(Rows(filter, cursor)) /\ Len(page) <= limit
         /\ \A m, n \in 1 .. Len(page) : m < n
               => Precedes(EncodeCursor(page[m]), EncodeCursor(page[n]))
         /\ \A j \in Rows(filter, cursor) :
               \/ \E n \in 1 .. Len(page) : page[n] = j
               \/ /\ Len(page) = limit
                  /\ \A n \in 1 .. limit : Precedes(EncodeCursor(page[n]), EncodeCursor(j))
<1> DEFINE rows == Rows(filter, cursor)
           N    == Cardinality(rows)
           L    == Smaller(limit, N)
<1> HIDE DEF rows
<1>1. rows \in SUBSET Keyed
  BY DEF rows
<1>2. /\ N \in Nat
      /\ \A j \in rows : Place(j, rows) \in 0 .. N - 1
      /\ \A i, j \in rows : Place(i, rows) < Place(j, rows)
                            <=> Precedes(EncodeCursor(i), EncodeCursor(j))
      /\ \A n \in 0 .. N - 1 : \E j \in rows : Place(j, rows) = n
  BY <1>1, RowPlaces
<1>3. L \in Nat /\ L <= limit /\ L <= N /\ (L < N => L = limit)
  BY <1>2 DEF Smaller
<1>4. page = [n \in 1 .. L |-> CHOOSE j \in rows : Place(j, rows) = n - 1]
  BY DEF Page, Place, rows
<1> HIDE DEF N, L
<1>5. \A n \in 1 .. L : page[n] \in rows /\ Place(page[n], rows) = n - 1
  <2>1. SUFFICES ASSUME NEW n \in 1 .. L
                 PROVE  page[n] \in rows /\ Place(page[n], rows) = n - 1
    BY <2>1
  <2>2. \E j \in rows : Place(j, rows) = n - 1
    BY <1>2, <1>3
  <2>3. page[n] = CHOOSE j \in rows : Place(j, rows) = n - 1
    BY <1>4
  <2>4. QED  BY <2>2, <2>3
<1>6. page \in Seq(rows) /\ Len(page) = L
  BY <1>3, <1>4, <1>5
<1>7. \A m, n \in 1 .. L : m < n => Precedes(EncodeCursor(page[m]), EncodeCursor(page[n]))
  <2>1. SUFFICES ASSUME NEW m \in 1 .. L, NEW n \in 1 .. L, m < n
                 PROVE  Place(page[m], rows) < Place(page[n], rows)
    BY <1>2, <1>5
  <2>2. QED  BY <1>3, <1>5, <2>1
<1>8. ASSUME NEW j \in rows
      PROVE  \/ \E n \in 1 .. L : page[n] = j
             \/ L = limit /\ \A n \in 1 .. limit : Precedes(EncodeCursor(page[n]), EncodeCursor(j))
  <2>1. CASE Place(j, rows) < L
    <3>1. Place(j, rows) + 1 \in 1 .. L
      BY <1>2, <1>3, <2>1
    <3>2. Place(page[Place(j, rows) + 1], rows) = Place(j, rows)
      BY <1>2, <1>5, <3>1
    <3>3. page[Place(j, rows) + 1] = j
      <4>1. page[Place(j, rows) + 1] \in rows
        BY <1>5, <3>1
      <4>2. QED  BY <1>1, <1>2, <3>2, <4>1, KeysAreOrdered
    <3>4. QED  BY <3>1, <3>3
  <2>2. CASE ~(Place(j, rows) < L)
    <3>1. L = limit
      BY <1>2, <1>3, <2>2
    <3>2. ASSUME NEW n \in 1 .. L  PROVE Place(page[n], rows) < Place(j, rows)
      BY <1>2, <1>3, <1>5, <2>2
    <3>3. QED  BY <1>2, <1>5, <3>1, <3>2
  <2>3. QED  BY <2>1, <2>2
<1>9. QED  BY <1>3, <1>6, <1>7, <1>8 DEF rows

\* The same of cursors; and the key of a row is one.
LEMMA CursorsAreOrdered ==
  /\ \A k, l, m \in Cursor : ~Precedes(l, k) /\ Precedes(l, m) => Precedes(k, m)
  /\ \A k, l \in Cursor : Precedes(k, l) => ~Precedes(l, k)
  /\ \A j \in Keyed : EncodeCursor(j) \in Cursor
  /\ NULL \notin Cursor
<1>1. /\ \A k, l, m \in Cursor : ~Precedes(l, k) /\ Precedes(l, m) => Precedes(k, m)
      /\ \A k, l \in Cursor : Precedes(k, l) => ~Precedes(l, k)
  BY ListingAssumption DEF Cursor, Precedes, JobIds
<1>2. \A j \in Keyed : EncodeCursor(j) \in Cursor
  BY DEF Cursor, EncodeCursor, Keyed
<1>3. NULL \notin Cursor
  BY ListingAssumption DEF Cursor, JobIds
<1>4. QED  BY <1>1, <1>2, <1>3

LEMMA SeenIsKeyed ==
  ASSUME ListingTypes
  PROVE  \A j \in JobIds : submitted[j].seen => j \in Keyed
BY DEF ListingTypes, ListedRow, Keyed

LEMMA ListingInitInv == ListingInit => ListingInv
BY ListingAssumption, NullAssumption
   DEF ListingInit, ListingInv, ListingTypes, ListedRow, ListedStatuses, Cursor, Unsubmitted,
       NoListing, Given, ListedInOrder, NothingOwedIsSkipped

\* What the writers do leaves the keys of visible rows alone.
LEMMA WritersInv ==
  ASSUME ListingInv, NEW j \in JobIds, BeginInsert(j) \/ CommitInsert(j) \/ Move(j)
  PROVE  ListingInv'
<1>1. /\ ListingTypes'
      /\ \A i \in JobIds : submitted[i].seen
            => submitted'[i].seen /\ submitted'[i].created_at = submitted[i].created_at
      /\ UNCHANGED <<listing, listed>> /\ owed' \in SUBSET owed
      /\ \A i \in owed' : Matches(i, listing.filter) => Matches(i, listing.filter)'
  <2>1. CASE BeginInsert(j)
    BY <2>1, NullAssumption DEF BeginInsert, ListingInv, ListingTypes, ListedRow, Matches
  <2>2. CASE CommitInsert(j)
    BY <2>2 DEF CommitInsert, ListingInv, ListingTypes, ListedRow, Matches
  <2>3. CASE Move(j)
    <3>1. PICK move \in Transitions : /\ submitted[j].status = move[1]
                                      /\ submitted' = [submitted EXCEPT ![j].status = move[2]]
      BY <2>3 DEF Move
    <3>2. move[2] \in ListedStatuses
      BY DEF Transitions, ListedStatuses
    <3>3. QED  BY <2>3, <3>1, <3>2 DEF Move, ListingInv, ListingTypes, ListedRow, Matches
  <2>4. QED  BY <2>1, <2>2, <2>3
<1>2. \A i \in Given : i \in JobIds /\ submitted[i].seen
  BY DEF ListingInv, ListingTypes, Given
<1>3. Given' = Given /\ \A i \in Given : EncodeCursor(i)' = EncodeCursor(i) /\ submitted'[i].seen
  BY <1>1, <1>2 DEF Given, EncodeCursor
<1>4. ListedInOrder'
  <2>1. \A n \in DOMAIN listed : listed[n] \in Given
    BY DEF Given
  <2>2. ListedInOrder
    BY DEF ListingInv
  <2>3. QED  BY <1>1, <1>3, <2>1, <2>2 DEF ListedInOrder, Precedes
<1>5. ASSUME listing.pc = "listing"
      PROVE  /\ \A i \in Given : ~After(i, listing.cursor)'
             /\ \A i \in owed' : /\ Matches(i, listing.filter)'
                                 /\ After(i, listing.cursor)' \/ i \in Given
  <2>1. \A i \in Given : After(i, listing.cursor)' = After(i, listing.cursor)
    BY <1>1, <1>3 DEF After, Precedes
  <2>2. \A i \in owed' : /\ Matches(i, listing.filter)
                         /\ After(i, listing.cursor) \/ i \in Given
    BY <1>1, <1>5 DEF ListingInv
  <2>3. \A i \in owed' : After(i, listing.cursor)' = After(i, listing.cursor)
    <3>1. \A i \in owed' : i \in JobIds /\ submitted[i].seen
      BY <1>1, <2>2 DEF Matches, ListingInv, ListingTypes
    <3>2. \A i \in owed' : EncodeCursor(i)' = EncodeCursor(i)
      BY <1>1, <3>1 DEF EncodeCursor
    <3>3. QED  BY <1>1, <3>2 DEF After, Precedes
  <2>4. QED  BY <1>1, <1>5, <2>1, <2>2, <2>3 DEF ListingInv
<1>6. NothingOwedIsSkipped'
  BY <1>1, <1>3 DEF ListingInv, NothingOwedIsSkipped, Given
<1>7. listing'.pc = "idle" => listed' = <<>> /\ listing'.cursor = NULL
  BY <1>1 DEF ListingInv
<1>8. QED  BY <1>1, <1>3, <1>4, <1>5, <1>6, <1>7 DEF ListingInv

LEMMA TickInv == ListingInv /\ ListingTick => ListingInv'
BY ListingAssumption
   DEF ListingTick, ListingInv, ListingTypes, Given, ListedInOrder, NothingOwedIsSkipped,
       After, Matches, EncodeCursor, Precedes

LEMMA BeginInv ==
  ASSUME ListingInv, NEW filter \in ListedStatuses \cup {NULL}, BeginListing(filter)
  PROVE  ListingInv'
<1>1. /\ listing.pc = "idle" /\ listed = <<>>
      /\ listing' = [pc |-> "listing", filter |-> filter, cursor |-> NULL]
      /\ owed' = {j \in JobIds : Matches(j, filter)}
      /\ UNCHANGED <<clock, submitted, listed>>
  BY DEF BeginListing, ListingInv, NoListing
<1>2. ListingTypes'
  BY <1>1 DEF ListingInv, ListingTypes
<1>3. Given = {} /\ Given' = {}
  BY <1>1 DEF Given
<1>4. \A j \in owed' : Matches(j, listing.filter)' /\ After(j, listing.cursor)'
  BY <1>1 DEF Matches, After
<1>5. QED  BY <1>1, <1>2, <1>3, <1>4 DEF ListingInv, ListedInOrder, NothingOwedIsSkipped

\* The page goes behind what was given, and the cursor behind the page.
LEMMA PageInv ==
  ASSUME ListingInv, NEW limit \in 1 .. MaxListLimit, ListPage(limit)
  PROVE  /\ ListingInv'
         /\ listing'.pc = "done" \/ Len(listed') > Len(listed)
<1> DEFINE filter == listing.filter
           cursor == listing.cursor
           rows   == Rows(filter, cursor)
           page   == Page(filter, cursor, limit)
           next   == NextCursor(page, limit)
<1>1. /\ listing.pc = "listing"
      /\ listed' = listed \o page
      /\ listing' = IF next = NULL THEN [listing EXCEPT !.pc = "done", !.cursor = NULL]
                    ELSE [listing EXCEPT !.cursor = next]
      /\ UNCHANGED <<clock, submitted, owed>>
  BY DEF ListPage
<1>2. /\ ListingTypes /\ cursor \in Cursor \cup {NULL}
      /\ limit \in Nat /\ limit >= 1
  BY ListingAssumption DEF ListingInv, ListingTypes
<1>3. rows \in SUBSET Keyed /\ rows \in SUBSET JobIds
      /\ \A j \in rows : submitted[j].seen /\ After(j, cursor)
  BY <1>2, SeenIsKeyed DEF Rows, Matches
<1>4. /\ page \in Seq(rows) /\ Len(page) <= limit
      /\ \A m, n \in 1 .. Len(page) : m < n
            => Precedes(EncodeCursor(page[m]), EncodeCursor(page[n]))
      /\ \A j \in rows :
            \/ \E n \in 1 .. Len(page) : page[n] = j
            \/ /\ Len(page) = limit
               /\ \A n \in 1 .. limit : Precedes(EncodeCursor(page[n]), EncodeCursor(j))
  BY <1>2, <1>3, PageRows
<1> HIDE DEF page, rows
<1>5. /\ listed \in Seq(JobIds) /\ page \in Seq(JobIds)
      /\ Len(listed) \in Nat /\ Len(page) \in Nat
      /\ \A n \in 1 .. Len(page) : page[n] \in rows
      /\ \A n \in 1 .. Len(listed) : listed[n] \in Given
  BY <1>2, <1>3, <1>4 DEF ListingTypes, Given
<1>6. /\ listed' \in Seq(JobIds) /\ Len(listed') = Len(listed) + Len(page)
      /\ \A n \in 1 .. Len(listed') :
            listed'[n] = IF n <= Len(listed) THEN listed[n] ELSE page[n - Len(listed)]
  BY <1>1, <1>5
<1>7. Given' = Given \cup {page[n] : n \in 1 .. Len(page)}
  <2>1. Given' \subseteq Given \cup {page[n] : n \in 1 .. Len(page)}
    BY <1>5, <1>6 DEF Given
  <2>2. Given \subseteq Given'
    BY <1>5, <1>6 DEF Given
  <2>3. ASSUME NEW n \in 1 .. Len(page)  PROVE page[n] \in Given'
    <3>1. Len(listed) + n \in 1 .. Len(listed') /\ listed'[Len(listed) + n] = page[n]
      BY <1>5, <1>6
    <3>2. QED  BY <1>6, <3>1 DEF Given
  <2>4. QED  BY <2>1, <2>2, <2>3
<1>8. \A i \in Given : i \in Keyed /\ i \in JobIds /\ submitted[i].seen /\ ~After(i, cursor)
  BY <1>1, <1>2, SeenIsKeyed DEF ListingInv, ListingTypes, Given
<1>9. \A i \in Given : \A j \in rows : Precedes(EncodeCursor(i), EncodeCursor(j))
  BY <1>2, <1>3, <1>8, CursorsAreOrdered DEF After
<1>10. \A j \in JobIds : EncodeCursor(j)' = EncodeCursor(j)
  BY <1>1 DEF EncodeCursor
<1>11. ListedInOrder'
  <2>1. SUFFICES ASSUME NEW m \in 1 .. Len(listed'), NEW n \in 1 .. Len(listed'), m < n
                 PROVE  Precedes(EncodeCursor(listed'[m]), EncodeCursor(listed'[n]))
    <3>1. DOMAIN listed' = 1 .. Len(listed') /\ \A n \in 1 .. Len(listed') : listed'[n] \in JobIds
      BY <1>6
    <3>2. QED  BY <1>10, <2>1, <3>1 DEF ListedInOrder, Precedes
  <2>2. CASE n <= Len(listed)
    BY <1>5, <1>6, <2>1, <2>2 DEF ListingInv, ListedInOrder
  <2>3. CASE m <= Len(listed) /\ n > Len(listed)
    <3>1. listed'[m] \in Given /\ listed'[n] \in rows
      BY <1>5, <1>6, <2>1, <2>3
    <3>2. QED  BY <1>9, <3>1
  <2>4. CASE m > Len(listed)
    <3>1. /\ m - Len(listed) \in 1 .. Len(page) /\ n - Len(listed) \in 1 .. Len(page)
          /\ m - Len(listed) < n - Len(listed)
          /\ listed'[m] = page[m - Len(listed)] /\ listed'[n] = page[n - Len(listed)]
      BY <1>5, <1>6, <2>1, <2>4
    <3>2. QED  BY <1>4, <3>1
  <2>5. QED  BY <1>5, <2>1, <2>2, <2>3, <2>4
<1>12. \A i \in Given' : i \in JobIds /\ submitted'[i].seen
  BY <1>1, <1>3, <1>5, <1>7, <1>8
<1>13. \A j \in owed : j \in rows \/ j \in Given
  BY <1>1, <1>2 DEF rows, Rows, ListingInv, ListingTypes
<1>14. CASE Len(page) = limit
  <2>1. page[limit] \in rows /\ next = EncodeCursor(page[limit])
    BY <1>2, <1>5, <1>14 DEF NextCursor
  <2>2. next \in Cursor /\ next # NULL
    BY <1>3, <2>1, CursorsAreOrdered
  <2>3. listing' = [listing EXCEPT !.cursor = next]
    BY <1>1, <2>2
  <2>4. ListingTypes'
    BY <1>1, <1>2, <1>6, <2>2, <2>3 DEF ListingTypes
  <2>5. listing'.pc = "listing" /\ listing'.cursor = next /\ listing'.filter = filter
    BY <1>1, <1>2, <2>3 DEF ListingTypes
  <2>6. ASSUME NEW i \in Given'  PROVE ~After(i, listing.cursor)'
    <3>1. i \in Keyed /\ i \in JobIds
      BY <1>3, <1>5, <1>7, <1>8
    <3>2. ~Precedes(next, EncodeCursor(i))
      <4>1. CASE i \in Given
        BY <1>3, <1>9, <2>1, <3>1, <4>1, CursorsAreOrdered
      <4>2. ASSUME NEW n \in 1 .. Len(page), i = page[n]  PROVE ~Precedes(next, EncodeCursor(i))
        <5>1. n = limit \/ Precedes(EncodeCursor(i), next)
          BY <1>2, <1>4, <1>14, <2>1, <4>2
        <5>2. QED  BY <2>1, <2>2, <3>1, <4>2, <5>1, CursorsAreOrdered
      <4>3. QED  BY <1>7, <4>1, <4>2
    <3>3. QED  BY <1>10, <2>2, <2>5, <3>1, <3>2 DEF After, Precedes
  <2>7. ASSUME NEW j \in owed'
        PROVE  Matches(j, listing.filter)' /\ (After(j, listing.cursor)' \/ j \in Given')
    <3>1. j \in owed /\ j \in JobIds /\ Matches(j, listing.filter)'
      BY <1>1, <1>2, <2>5, <2>7 DEF ListingInv, ListingTypes, Matches
    <3>2. CASE j \in rows
      <4>1. CASE \E n \in 1 .. Len(page) : page[n] = j
        BY <1>7, <3>1, <4>1
      <4>2. CASE Precedes(EncodeCursor(page[limit]), EncodeCursor(j))
        BY <1>10, <2>1, <2>5, <3>1, <4>2 DEF After, Precedes
      <4>3. QED  BY <1>2, <1>4, <3>2, <4>1, <4>2
    <3>3. CASE j \in Given
      BY <1>7, <3>1, <3>3
    <3>4. QED  BY <1>13, <3>1, <3>2, <3>3
  <2>8. Len(listed') > Len(listed)
    BY <1>2, <1>5, <1>6, <1>14
  <2>9. NothingOwedIsSkipped'
    BY <2>5 DEF NothingOwedIsSkipped
  <2>10. QED
    BY <1>11, <1>12, <2>4, <2>5, <2>6, <2>7, <2>8, <2>9 DEF ListingInv
<1>15. CASE Len(page) # limit
  <2>1. listing' = [listing EXCEPT !.pc = "done", !.cursor = NULL]
    BY <1>1, <1>15 DEF NextCursor
  <2>2. ListingTypes' /\ listing'.pc = "done"
    BY <1>1, <1>2, <1>6, <2>1 DEF ListingTypes
  <2>3. \A j \in owed' : j \in Given'
    BY <1>1, <1>4, <1>7, <1>13, <1>15
  <2>4. NothingOwedIsSkipped'
    BY <2>3 DEF NothingOwedIsSkipped, Given
  <2>5. QED  BY <1>11, <1>12, <2>2, <2>4 DEF ListingInv
<1>16. QED  BY <1>14, <1>15

LEMMA ListingStep == ListingInv /\ [ListingNext]_listingVars => ListingInv'
<1> SUFFICES ASSUME ListingInv, [ListingNext]_listingVars  PROVE ListingInv'
  OBVIOUS
<1>1. CASE UNCHANGED listingVars
  BY <1>1 DEF listingVars, ListingInv, ListingTypes, Given, ListedInOrder, NothingOwedIsSkipped,
              After, Matches, EncodeCursor, Precedes
<1>2. ASSUME NEW limit \in 0 .. MaxListLimit + 1, ListPage(limit)  PROVE ListingInv'
  <2>1. limit \in 1 .. MaxListLimit
    BY <1>2 DEF ListPage
  <2>2. QED  BY <1>2, <2>1, PageInv
<1>3. QED  BY <1>1, <1>2, WritersInv, TickInv, BeginInv DEF ListingNext

\* ListingInv is an invariant: it is inductive.
THEOREM ListingInvariant == ListingSpec => []ListingInv
<1>1. QED  BY ListingInitInv, ListingStep, PTL DEF ListingSpec

\* GET /v1/jobs and GET /v1/dead-jobs: what a client is given, page after page, is
\* sorted by (created_at, id), so no job comes twice, whatever is submitted or
\* moves between the pages.
THEOREM ListingIsSorted == ListingSpec => []ListedInOrder
<1>1. ListingInv => ListedInOrder
  BY DEF ListingInv
<1>2. QED  BY <1>1, ListingInvariant, PTL

\* A listing that has come to its end has every job that was visible when it began
\* and matched the filter throughout.
THEOREM ListingIsComplete == ListingSpec => []NothingOwedIsSkipped
<1>1. ListingInv => NothingOwedIsSkipped
  BY DEF ListingInv
<1>2. QED  BY <1>1, ListingInvariant, PTL

\* A client is given no more jobs than there are, and each page brings it one, or
\* ends the listing: it asks for at most NumJobs + 1 pages.
THEOREM ListingEnds == ListingSpec => []AtMostOnce /\ [][PageGetsOn]_listingVars
<1>1. ListingInv => AtMostOnce
  <2> SUFFICES ASSUME ListingInv  PROVE Len(listed) <= NumJobs
    BY DEF AtMostOnce
  <2>1. listed \in [1 .. Len(listed) -> JobIds] /\ Len(listed) \in Nat
    BY DEF ListingInv, ListingTypes
  <2>2. \A n \in 1 .. Len(listed) : EncodeCursor(listed[n]) \in Cursor
    BY <2>1, CursorsAreOrdered, SeenIsKeyed DEF ListingInv, Given
  <2>3. \A m, n \in 1 .. Len(listed) : m < n => listed[m] # listed[n]
    BY <2>1, <2>2, CursorsAreOrdered DEF ListingInv, ListedInOrder
  <2>4. listed \in Injection(1 .. Len(listed), JobIds)
    BY <2>1, <2>3 DEF Injection, IsInjective
  <2>5. IsFiniteSet(JobIds) /\ Cardinality(JobIds) = NumJobs
    <3>1. 1 \in Int /\ NumJobs \in Int /\ NumJobs >= 1
      BY ListingAssumption
    <3>2. QED  BY <3>1, FS_Interval DEF JobIds
  <2>6. Cardinality(1 .. Len(listed)) = Len(listed)
    <3> DEFINE len == Len(listed)
    <3>1. 1 \in Int /\ len \in Int /\ len >= 0
      BY <2>1
    <3> HIDE DEF len
    <3>2. Cardinality(1 .. len) = IF 1 > len THEN 0 ELSE len - 1 + 1
      BY <3>1, FS_Interval
    <3>3. Cardinality(1 .. len) = len
      BY <3>1, <3>2
    <3>4. QED  BY <3>3 DEF len
  <2>7. QED  BY <2>4, <2>5, <2>6, FS_Injection
<1>2. ListingInv /\ [ListingNext]_listingVars => [PageGetsOn]_listingVars
  <2> SUFFICES ASSUME ListingInv, NEW limit \in 1 .. MaxListLimit, ListPage(limit)
               PROVE  listing'.pc = "done" \/ Len(listed') > Len(listed)
    BY DEF PageGetsOn
  <2>1. QED  BY PageInv
<1>3. QED  BY <1>1, <1>2, ListingInvariant, PTL DEF ListingSpec

===============================================================================
