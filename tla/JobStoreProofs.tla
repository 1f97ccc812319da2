---------------------------- MODULE JobStoreProofs ----------------------------
(***************************************************************************)
(* Proofs about JobStore, for every set of jobs, budget, lease duration    *)
(* and delay.                                                              *)
(*                                                                         *)
(* The invariants.  The transactions touch jobs one by one, so the         *)
(* inductive invariant StoreInv is first split into a predicate of one job *)
(* row and its attempt rows; one lemma per statement shows that the        *)
(* statement preserves that predicate, and the theorem puts the rows       *)
(* together.                                                               *)
(*                                                                         *)
(* The action properties, and that JobStore implements JobLifecycle.  Each *)
(* is about a single job, whereas a claim writes many.  The lemma          *)
(* StepOfJob therefore says, once, what each transaction does to a given   *)
(* job; the theorems are then case splits on JobStep.                      *)
(***************************************************************************)
EXTENDS JobStore, TLAPS

\* StoreInv for one job: its row and its attempt rows.
JobInv(row, rows) ==
    /\ row \in JobRow
    /\ \A n \in DOMAIN rows : rows[n] \in AttemptRow
    /\ row.status # "ABSENT" => row.max_attempts >= 1
    /\ row.attempts <= row.max_attempts
    /\ (row.lease_token = NULL) = (row.lease_expires_at = NULL)
    /\ (row.lease_token = NULL) = (row.status # "RUNNING")
    /\ row.finished = (row.status \in Terminal)
    /\ DOMAIN rows = 1 .. row.attempts
    /\ \A n \in DOMAIN rows : rows[n].lease_token = n
    /\ row.lease_token \in {NULL, row.attempts}
    /\ \A n \in DOMAIN rows :
          rows[n].outcome \in
            IF n = row.attempts
            THEN LastOutcomes(row.status)
            ELSE {"RETRY_SCHEDULED", "DEAD", "LEASE_LOST"}
    /\ row.status = "DEAD" =>
          /\ row.attempts >= 1
          /\ \/ /\ rows[row.attempts].outcome = "DEAD"
                /\ rows[row.attempts].error_code = row.last_error_code
             \/ /\ rows[row.attempts].outcome = "LEASE_LOST"
                /\ row.last_error_code = LeaseExhausted
                /\ row.attempts = row.max_attempts

LEMMA StoreInvByJob ==
    StoreInv <=> /\ jobs \in [Jobs -> JobRow]
                 /\ DOMAIN job_attempts = Jobs
                 /\ \A j \in Jobs : JobInv(jobs[j], job_attempts[j])
<1>1. ASSUME StoreInv, NEW j \in Jobs
      PROVE  JobInv(jobs[j], job_attempts[j])
  BY <1>1 DEF StoreInv, TypeOK, ChecksHold, TrailComplete, TrailMatchesStatus,
              DeadIsExplained, JobInv
<1>2. ASSUME jobs \in [Jobs -> JobRow], DOMAIN job_attempts = Jobs,
             \A j \in Jobs : JobInv(jobs[j], job_attempts[j])
      PROVE  StoreInv
  <2>1. TypeOK
    <3>1. ASSUME NEW j \in Jobs
          PROVE  DOMAIN job_attempts[j] \subseteq 1 .. MaxBudget
      <4>1. JobInv(jobs[j], job_attempts[j])  BY <1>2
      <4>2. DOMAIN job_attempts[j] = 1 .. jobs[j].attempts  BY <4>1 DEF JobInv
      <4>3. jobs[j].attempts \in 0 .. MaxBudget  BY <4>1 DEF JobInv, JobRow
      <4>4. QED  BY <4>2, <4>3, BudgetAssumption
    <3>2. QED  BY <1>2, <3>1 DEF TypeOK, JobInv
  <2>2. ChecksHold  BY <1>2 DEF ChecksHold, JobInv
  <2>3. TrailComplete  BY <1>2 DEF TrailComplete, JobInv
  <2>4. TrailMatchesStatus  BY <1>2 DEF TrailMatchesStatus, JobInv
  <2>5. DeadIsExplained  BY <1>2 DEF DeadIsExplained, JobInv
  <2>6. QED  BY <2>1, <2>2, <2>3, <2>4, <2>5 DEF StoreInv
<1>3. QED  BY <1>1, <1>2 DEF StoreInv, TypeOK

-------------------------------------------------------------------------------
(* One lemma per statement, about the rows it writes.                      *)

LEMMA LastOutcomesValues ==
    /\ LastOutcomes("ABSENT") = {}
    /\ LastOutcomes("PENDING") = {"RETRY_SCHEDULED", "DEAD", "LEASE_LOST"}
    /\ LastOutcomes("RUNNING") = {"OPEN", "LEASE_LOST"}
    /\ LastOutcomes("SUCCEEDED") = {"SUCCEEDED"}
    /\ LastOutcomes("DEAD") = {"DEAD", "LEASE_LOST"}
BY DEF LastOutcomes

LEMMA UnfinishedRow ==
    ASSUME NEW row, row \in JobRow, row.status \notin Terminal, ~row.finished
    PROVE  row.finished = (row.status \in Terminal)
<1>1. row.finished \in BOOLEAN  BY DEF JobRow
<1>2. QED  BY <1>1

LEMMA NewJobInv ==
    ASSUME NEW m \in 1 .. MaxBudget, NEW rows, DOMAIN rows = {}
    PROVE  JobInv([NoJob EXCEPT !.status = "PENDING", !.max_attempts = m], rows)
<1> DEFINE row == [NoJob EXCEPT !.status = "PENDING", !.max_attempts = m]
<1>1. /\ 0 \in -Horizon .. MaxDelay /\ 0 \in 0 .. MaxBudget /\ m \in 0 .. MaxBudget
      /\ 1 .. 0 = {}
  BY TimeAssumption, BudgetAssumption
<1>2. NoJob \in JobRow  BY <1>1 DEF NoJob, JobRow, Statuses
<1>3. row \in JobRow  BY <1>1, <1>2 DEF JobRow, Statuses
<1>5. /\ row.status = "PENDING" /\ row.attempts = 0 /\ row.max_attempts = m
      /\ row.lease_token = NULL /\ row.lease_expires_at = NULL /\ ~row.finished
  BY <1>2 DEF NoJob, JobRow
<1>6. row.attempts <= row.max_attempts /\ row.max_attempts >= 1
      /\ DOMAIN rows = 1 .. row.attempts
  BY <1>1, <1>5, BudgetAssumption
<1> HIDE DEF row
<1>7. JobInv(row, rows)
  <2>1. row.finished = (row.status \in Terminal)  BY <1>3, <1>5 DEF JobRow, Terminal
  <2>2. (row.lease_token = NULL) = (row.lease_expires_at = NULL)  BY <1>5
  <2>3. (row.lease_token = NULL) = (row.status # "RUNNING")  BY <1>5
  <2>4. row.status # "DEAD"  BY <1>5
  <2>5. row.lease_token \in {NULL, row.attempts} BY <1>5
  <2>6. QED  BY <1>3, <1>6, <2>1, <2>2, <2>3, <2>4, <2>5 DEF JobInv
<1>8. QED  BY <1>7 DEF row

LEMMA SuccessInv ==
    ASSUME NEW row, NEW rows, NEW token, JobInv(row, rows),
           row.status = "RUNNING", row.lease_token = token,
           NEW row2, row2 = [Released(row, "SUCCEEDED") EXCEPT
                               !.last_error_code = NULL, !.finished = TRUE]
    PROVE  JobInv(row2, CloseAttempt(rows, token, "SUCCEEDED"))
<1> DEFINE rows2 == CloseAttempt(rows, token, "SUCCEEDED")
<1>1. /\ row2 \in JobRow
      /\ row2.status = "SUCCEEDED" /\ row2.finished
      /\ row2.lease_token = NULL /\ row2.lease_expires_at = NULL
      /\ row2.attempts = row.attempts /\ row2.max_attempts = row.max_attempts
  BY DEF JobInv, JobRow, Released, Statuses
<1>2. /\ DOMAIN rows2 = DOMAIN rows
      /\ \A n \in DOMAIN rows :
            /\ rows2[n] \in AttemptRow /\ rows2[n].lease_token = n
            /\ rows2[n].outcome = IF n = row.attempts THEN "SUCCEEDED" ELSE rows[n].outcome
  BY DEF JobInv, CloseAttempt, AttemptRow, Outcomes
<1> HIDE DEF rows2
<1>3. row.attempts = row2.attempts /\ row2.status # "DEAD" /\ row2.status # "ABSENT"
  BY <1>1
<1>4. \A n \in DOMAIN rows2 :
          rows2[n].outcome \in
            IF n = row2.attempts
            THEN LastOutcomes(row2.status)
            ELSE {"RETRY_SCHEDULED", "DEAD", "LEASE_LOST"}
  BY <1>1, <1>2, LastOutcomesValues DEF JobInv
<1>5. JobInv(row2, rows2)  BY <1>1, <1>2, <1>4 DEF JobInv, Terminal
<1>6. QED  BY <1>5 DEF rows2

LEMMA RetryScheduledInv ==
    ASSUME NEW row, NEW rows, NEW token, NEW delay \in 0 .. MaxDelay,
           NEW code \in ErrorCodes, JobInv(row, rows),
           row.status = "RUNNING", row.lease_token = token,
           NEW row2, row2 = [Released(row, "PENDING") EXCEPT
                               !.next_attempt_at = delay, !.last_error_code = code]
    PROVE  JobInv(row2, FailAttempt(rows, token, "RETRY_SCHEDULED", code))
<1> DEFINE rows2 == FailAttempt(rows, token, "RETRY_SCHEDULED", code)
<1>0. delay \in -Horizon .. MaxDelay  BY TimeAssumption
<1>1. /\ row2 \in JobRow
      /\ row2.status = "PENDING" /\ ~row2.finished
      /\ row2.lease_token = NULL /\ row2.lease_expires_at = NULL
      /\ row2.attempts = row.attempts /\ row2.max_attempts = row.max_attempts
  BY <1>0 DEF JobInv, JobRow, Released, Statuses, Terminal
<1>2. /\ DOMAIN rows2 = DOMAIN rows
      /\ \A n \in DOMAIN rows :
            /\ rows2[n] \in AttemptRow /\ rows2[n].lease_token = n
            /\ rows2[n].outcome = IF n = row.attempts THEN "RETRY_SCHEDULED" ELSE rows[n].outcome
  BY DEF JobInv, FailAttempt, AttemptRow, Outcomes
<1> HIDE DEF rows2
<1>3. \A n \in DOMAIN rows2 :
          rows2[n].outcome \in
            IF n = row2.attempts
            THEN LastOutcomes(row2.status)
            ELSE {"RETRY_SCHEDULED", "DEAD", "LEASE_LOST"}
  BY <1>1, <1>2, LastOutcomesValues DEF JobInv
<1>4. row2.finished = (row2.status \in Terminal)
  <2>1. row2.status \notin Terminal  BY <1>1 DEF Terminal
  <2>2. QED  BY <1>1, <2>1, UnfinishedRow
<1>5. JobInv(row2, rows2)  BY <1>1, <1>2, <1>3, <1>4 DEF JobInv
<1>6. QED  BY <1>5 DEF rows2

LEMMA DeadInv ==
    ASSUME NEW row, NEW rows, NEW token, NEW code \in ErrorCodes, JobInv(row, rows),
           row.status = "RUNNING", row.lease_token = token,
           NEW row2, row2 = [Released(row, "DEAD") EXCEPT
                               !.last_error_code = code, !.finished = TRUE]
    PROVE  JobInv(row2, FailAttempt(rows, token, "DEAD", code))
<1> DEFINE rows2 == FailAttempt(rows, token, "DEAD", code)
<1>1. /\ row2 \in JobRow
      /\ row2.status = "DEAD" /\ row2.finished /\ row2.last_error_code = code
      /\ row2.lease_token = NULL /\ row2.lease_expires_at = NULL
      /\ row2.attempts = row.attempts /\ row2.max_attempts = row.max_attempts
  BY DEF JobInv, JobRow, Released, Statuses
<1>2. /\ DOMAIN rows2 = DOMAIN rows
      /\ \A n \in DOMAIN rows :
            /\ rows2[n] \in AttemptRow /\ rows2[n].lease_token = n
            /\ rows2[n].outcome = IF n = row.attempts THEN "DEAD" ELSE rows[n].outcome
            /\ n = row.attempts => rows2[n].error_code = code
  BY DEF JobInv, FailAttempt, AttemptRow, Outcomes
<1> HIDE DEF rows2
<1>3. \A n \in DOMAIN rows2 :
          rows2[n].outcome \in
            IF n = row2.attempts
            THEN LastOutcomes(row2.status)
            ELSE {"RETRY_SCHEDULED", "DEAD", "LEASE_LOST"}
  BY <1>1, <1>2, LastOutcomesValues DEF JobInv
<1>4. row.attempts >= 1 /\ row.attempts \in DOMAIN rows
  BY NullAssumption, BudgetAssumption DEF JobInv, JobRow
<1>5. JobInv(row2, rows2)
  <2>1. row2.finished = (row2.status \in Terminal)  BY <1>1 DEF JobRow, Terminal
  <2>2. /\ row2.attempts >= 1
        /\ rows2[row2.attempts].outcome = "DEAD"
        /\ rows2[row2.attempts].error_code = row2.last_error_code
    BY <1>1, <1>2, <1>4
  <2>3. QED  BY <1>1, <1>2, <1>3, <2>1, <2>2 DEF JobInv
<1>6. QED  BY <1>5 DEF rows2

\* Step 1 of the claim alone: a job whose row was locked, or beyond the limit.
LEMMA LoseOpenInv ==
    ASSUME NEW row, NEW rows, JobInv(row, rows), row.status = "RUNNING"
    PROVE  /\ JobInv(row, LoseOpenAttempts(rows))
           /\ \A n \in DOMAIN LoseOpenAttempts(rows) :
                 LoseOpenAttempts(rows)[n].outcome \in {"RETRY_SCHEDULED", "DEAD", "LEASE_LOST"}
           /\ LoseOpenAttempts(rows)[row.attempts].outcome = "LEASE_LOST"
<1> DEFINE rows2 == LoseOpenAttempts(rows)
<1>1. /\ DOMAIN rows2 = DOMAIN rows
      /\ \A n \in DOMAIN rows :
            /\ rows2[n] \in AttemptRow /\ rows2[n].lease_token = n
            /\ rows2[n].outcome = IF rows[n].outcome = "OPEN" THEN "LEASE_LOST" ELSE rows[n].outcome
  BY DEF JobInv, LoseOpenAttempts, AttemptRow, Outcomes
<1>2. row.attempts \in DOMAIN rows
  BY NullAssumption, BudgetAssumption DEF JobInv, JobRow
<1> HIDE DEF rows2
<1>3. \A n \in DOMAIN rows :
          rows2[n].outcome \in IF n = row.attempts THEN {"LEASE_LOST"}
                               ELSE {"RETRY_SCHEDULED", "DEAD", "LEASE_LOST"}
  BY <1>1, LastOutcomesValues DEF JobInv
<1>4. JobInv(row, rows2)  BY <1>1, <1>3, LastOutcomesValues DEF JobInv
<1>5. QED  BY <1>1, <1>2, <1>3, <1>4 DEF rows2

\* Step 2 of the claim, on the rows step 1 left.
LEMMA ExhaustedInv ==
    ASSUME NEW row, NEW rows, JobInv(row, rows), row.status = "RUNNING",
           ~(row.attempts < row.max_attempts),
           NEW row2, row2 = [Released(row, "DEAD") EXCEPT
                               !.last_error_code = LeaseExhausted, !.finished = TRUE]
    PROVE  JobInv(row2, LoseOpenAttempts(rows))
<1> DEFINE rows2 == LoseOpenAttempts(rows)
<1>1. /\ row2 \in JobRow
      /\ row2.status = "DEAD" /\ row2.finished /\ row2.last_error_code = LeaseExhausted
      /\ row2.lease_token = NULL /\ row2.lease_expires_at = NULL
      /\ row2.attempts = row.attempts /\ row2.max_attempts = row.max_attempts
  BY DEF JobInv, JobRow, Released, Statuses
<1>2. /\ JobInv(row, rows2)
      /\ \A n \in DOMAIN rows2 : rows2[n].outcome \in {"RETRY_SCHEDULED", "DEAD", "LEASE_LOST"}
      /\ rows2[row.attempts].outcome = "LEASE_LOST"
  BY LoseOpenInv
<1> HIDE DEF rows2
<1>3. row.attempts >= 1 /\ row.attempts = row.max_attempts
  BY NullAssumption, BudgetAssumption DEF JobInv, JobRow
<1>4. \A n \in DOMAIN rows2 :
          rows2[n].outcome \in
            IF n = row2.attempts
            THEN LastOutcomes(row2.status)
            ELSE {"RETRY_SCHEDULED", "DEAD", "LEASE_LOST"}
  BY <1>1, <1>2, LastOutcomesValues DEF JobInv
<1>5. JobInv(row2, rows2)
  <2>1. row2.finished = (row2.status \in Terminal)  BY <1>1 DEF JobRow, Terminal
  <2>2. /\ row2.attempts >= 1 /\ row2.attempts = row2.max_attempts
        /\ rows2[row2.attempts].outcome = "LEASE_LOST"
        /\ row2.last_error_code = LeaseExhausted
    BY <1>1, <1>2, <1>3
  <2>3. QED  BY <1>1, <1>2, <1>4, <2>1, <2>2 DEF JobInv
<1>6. QED  BY <1>5 DEF rows2

\* Step 3 of the claim.  `settled` are the rows step 1 left: none is open.
LEMMA ClaimedInv ==
    ASSUME NEW row, NEW settled, JobInv(row, settled),
           row.status \in {"PENDING", "RUNNING"}, row.attempts < row.max_attempts,
           \A n \in DOMAIN settled :
              settled[n].outcome \in {"RETRY_SCHEDULED", "DEAD", "LEASE_LOST"},
           NEW token, token = row.attempts + 1,
           NEW row2, row2 = [row EXCEPT !.status = "RUNNING", !.attempts = token,
                                        !.lease_token = token,
                                        !.lease_expires_at = LeaseDuration]
    PROVE  JobInv(row2, InsertAttempt(settled, token, token))
<1> DEFINE rows2 == InsertAttempt(settled, token, token)
<1>0. /\ row.attempts \in 0 .. MaxBudget /\ row.max_attempts \in 0 .. MaxBudget
      /\ DOMAIN settled = 1 .. row.attempts
  BY DEF JobInv, JobRow
<1>1. /\ token \in 1 .. MaxBudget /\ token \in 0 .. MaxBudget /\ token <= row.max_attempts
      /\ LeaseDuration \in 0 .. LeaseDuration
      /\ 1 .. token = 1 .. row.attempts \cup {token} /\ token \notin 1 .. row.attempts
      /\ row.max_attempts >= 1 /\ token # NULL /\ LeaseDuration # NULL
  BY <1>0, BudgetAssumption, TimeAssumption, NullAssumption
<1>2. /\ row2 \in JobRow
      /\ row2.status = "RUNNING" /\ ~row2.finished
      /\ row2.lease_token = token /\ row2.lease_expires_at = LeaseDuration
      /\ row2.attempts = token /\ row2.max_attempts = row.max_attempts
  BY <1>1 DEF JobInv, JobRow, Statuses, Terminal
<1>3. /\ DOMAIN rows2 = DOMAIN settled \cup {token}
      /\ \A n \in DOMAIN settled : rows2[n] = settled[n]
      /\ rows2[token] = [lease_token |-> token, outcome |-> "OPEN", error_code |-> NULL]
  BY <1>0, <1>1 DEF InsertAttempt
<1>4. rows2[token] \in AttemptRow /\ rows2[token].lease_token = token
      /\ rows2[token].outcome = "OPEN"
  BY <1>1, <1>3 DEF AttemptRow, Outcomes
<1> HIDE DEF rows2
<1>5. \A n \in DOMAIN rows2 :
          /\ rows2[n] \in AttemptRow /\ rows2[n].lease_token = n
          /\ rows2[n].outcome \in
               IF n = row2.attempts
               THEN LastOutcomes(row2.status)
               ELSE {"RETRY_SCHEDULED", "DEAD", "LEASE_LOST"}
  BY <1>0, <1>1, <1>2, <1>3, <1>4, LastOutcomesValues DEF JobInv
<1>6. DOMAIN rows2 = 1 .. row2.attempts  BY <1>0, <1>1, <1>2, <1>3
<1>7. JobInv(row2, rows2)  BY <1>1, <1>2, <1>5, <1>6 DEF JobInv, Terminal
<1>8. QED  BY <1>7 DEF rows2

LEMMA RenewInv ==
    ASSUME NEW row, NEW rows, JobInv(row, rows), row.status = "RUNNING",
           NEW row2, row2 = [row EXCEPT !.lease_expires_at = LeaseDuration]
    PROVE  JobInv(row2, rows)
<1>1. LeaseDuration \in 0 .. LeaseDuration /\ LeaseDuration # NULL
  BY TimeAssumption, NullAssumption
<1>2. /\ row2 \in JobRow /\ row2.lease_expires_at # NULL
      /\ row2.status = row.status /\ row2.finished = row.finished
      /\ row2.lease_token = row.lease_token
      /\ row2.attempts = row.attempts /\ row2.max_attempts = row.max_attempts
  BY <1>1 DEF JobInv, JobRow
<1>3. QED  BY <1>2 DEF JobInv

LEMMA ReplayInv ==
    ASSUME NEW row, NEW rows, JobInv(row, rows), row.status = "DEAD",
           NEW m \in 1 .. MaxBudget, row.attempts <= m,
           NEW row2, row2 = [Released(row, "PENDING") EXCEPT
                               !.next_attempt_at = 0, !.last_error_code = NULL,
                               !.finished = FALSE, !.max_attempts = m]
    PROVE  JobInv(row2, rows)
<1>1. 0 \in -Horizon .. MaxDelay /\ m \in 0 .. MaxBudget /\ m >= 1
  BY TimeAssumption, BudgetAssumption
<1>2. /\ row2 \in JobRow
      /\ row2.status = "PENDING" /\ ~row2.finished
      /\ row2.lease_token = NULL /\ row2.lease_expires_at = NULL
      /\ row2.attempts = row.attempts /\ row2.max_attempts = m
  BY <1>1 DEF JobInv, JobRow, Released, Statuses
<1>3. \A n \in DOMAIN rows :
          rows[n].outcome \in
            IF n = row2.attempts
            THEN LastOutcomes(row2.status)
            ELSE {"RETRY_SCHEDULED", "DEAD", "LEASE_LOST"}
  BY <1>2, LastOutcomesValues DEF JobInv
<1>4. row2.finished = (row2.status \in Terminal)
  <2>1. row2.status \notin Terminal  BY <1>2 DEF Terminal
  <2>2. QED  BY <1>2, <2>1, UnfinishedRow
<1>5. QED  BY <1>1, <1>2, <1>3, <1>4 DEF JobInv

LEMMA AgedInRange ==
    ASSUME NEW lo \in Int, NEW hi \in Int, NEW t \in lo .. hi
    PROVE  Aged(t, lo) \in lo .. hi
BY DEF Aged

LEMMA AgeInv ==
    ASSUME NEW row, NEW rows, JobInv(row, rows), NEW active \in BOOLEAN,
           NEW row2,
           row2 = [row EXCEPT
                     !.next_attempt_at = IF active THEN Aged(@, -Horizon) ELSE @,
                     !.lease_expires_at = IF @ = NULL THEN NULL ELSE Aged(@, 0)]
    PROVE  JobInv(row2, rows)
<1>1. Aged(row.next_attempt_at, -Horizon) \in -Horizon .. MaxDelay
  <2>1. row.next_attempt_at \in -Horizon .. MaxDelay  BY DEF JobInv, JobRow
  <2>2. QED  BY <2>1, TimeAssumption, AgedInRange
<1>2. row.lease_expires_at # NULL =>
         /\ Aged(row.lease_expires_at, 0) \in 0 .. LeaseDuration
         /\ Aged(row.lease_expires_at, 0) # NULL
  <2>1. row.lease_expires_at # NULL => row.lease_expires_at \in 0 .. LeaseDuration
    BY DEF JobInv, JobRow
  <2>2. QED  BY <2>1, TimeAssumption, NullAssumption, AgedInRange
<1>3. /\ row2 \in JobRow
      /\ (row2.lease_expires_at = NULL) = (row.lease_expires_at = NULL)
      /\ row2.status = row.status /\ row2.finished = row.finished
      /\ row2.lease_token = row.lease_token /\ row2.last_error_code = row.last_error_code
      /\ row2.attempts = row.attempts /\ row2.max_attempts = row.max_attempts
  BY <1>1, <1>2 DEF JobInv, JobRow
<1>4. QED  BY <1>3 DEF JobInv

-------------------------------------------------------------------------------
(* The invariant.                                                          *)

StoreByJob ==
    /\ jobs \in [Jobs -> JobRow]
    /\ DOMAIN job_attempts = Jobs
    /\ \A j \in Jobs : JobInv(jobs[j], job_attempts[j])

LEMMA InitStore == Init => StoreByJob
<1>1. 0 \in -Horizon .. MaxDelay /\ 0 \in 0 .. MaxBudget /\ 1 .. 0 = {}
  BY TimeAssumption, BudgetAssumption
<1>2. NoJob \in JobRow  BY <1>1 DEF NoJob, JobRow, Statuses
<1>3. JobInv(NoJob, NoAttempts)
  <2>1. DOMAIN NoAttempts = {}  BY DEF NoAttempts
  <2>2. /\ NoJob.status = "ABSENT" /\ NoJob.attempts = 0 /\ NoJob.max_attempts = 0
        /\ NoJob.lease_token = NULL /\ NoJob.lease_expires_at = NULL /\ ~NoJob.finished
    BY DEF NoJob
  <2>3. NoJob.status \notin Terminal  BY <2>2 DEF Terminal
  <2>4. NoJob.finished = (NoJob.status \in Terminal)
    BY <1>2, <2>2, <2>3, UnfinishedRow
  <2>5. NoJob.attempts <= NoJob.max_attempts /\ DOMAIN NoAttempts = 1 .. NoJob.attempts
    BY <1>1, <2>1, <2>2
  <2>6. QED  BY <1>2, <2>1, <2>2, <2>4, <2>5 DEF JobInv
<1>4. QED  BY <1>2, <1>3 DEF Init, StoreByJob

\* To show the invariant after an action that writes one job, it is enough to
\* look at that job.
LEMMA OneJobWritten ==
    ASSUME StoreByJob, NEW j \in Jobs, NEW row, NEW rows, JobInv(row, rows),
           jobs' = [jobs EXCEPT ![j] = row],
           DOMAIN job_attempts' = Jobs,
           \A k \in Jobs : job_attempts'[k] = IF k = j THEN rows ELSE job_attempts[k]
    PROVE  StoreByJob'
<1>1. row \in JobRow  BY DEF JobInv
<1>2. jobs' \in [Jobs -> JobRow]  BY <1>1 DEF StoreByJob
<1>3. ASSUME NEW k \in Jobs
      PROVE  JobInv(jobs'[k], job_attempts'[k])
  <2>1. CASE k = j
    <3>1. jobs'[k] = row /\ job_attempts'[k] = rows  BY <2>1 DEF StoreByJob
    <3>2. QED  BY <3>1
  <2>2. CASE k # j
    <3>1. jobs'[k] = jobs[k] /\ job_attempts'[k] = job_attempts[k]
      BY <2>2 DEF StoreByJob
    <3>2. QED  BY <3>1 DEF StoreByJob
  <2>3. QED  BY <2>1, <2>2
<1>4. QED  BY <1>2, <1>3 DEF StoreByJob

LEMMA ClaimStore ==
    ASSUME StoreByJob, NEW batch \in SUBSET Jobs, NEW locked \in SUBSET Jobs,
           NEW limit \in Limits, ClaimPendingJobs(batch, limit, locked)
    PROVE  StoreByJob'
<1>1. \A j \in batch : Due(j)
  BY DEF ClaimPendingJobs, IsClaimBatch
<1>2. \A j \in ClaimExhausted(locked) : j \notin batch /\ LeaseExpired(j) /\ ~HasBudget(j)
  BY <1>1 DEF ClaimExhausted, Due
<1>4. /\ jobs' = [j \in Jobs |-> RowAfterClaim(j, ClaimExhausted(locked), batch)]
      /\ job_attempts' = [j \in Jobs |-> TrailAfterClaim(j, batch)]
  BY DEF ClaimPendingJobs
<1>3. ASSUME NEW j \in Jobs
      PROVE  JobInv(jobs'[j], job_attempts'[j])
  <2>1. JobInv(jobs[j], job_attempts[j])  BY DEF StoreByJob
  <2>2. LeaseExpired(j) => jobs[j].status = "RUNNING"  BY DEF LeaseExpired
  <2>3. CASE j \in ClaimExhausted(locked)
    <3>1. /\ jobs'[j] = [Released(jobs[j], "DEAD") EXCEPT
                           !.last_error_code = LeaseExhausted, !.finished = TRUE]
          /\ job_attempts'[j] = LoseOpenAttempts(job_attempts[j])
      BY <1>2, <1>4, <2>3 DEF RowAfterClaim, TrailAfterClaim
    <3>2. jobs[j].status = "RUNNING" /\ ~(jobs[j].attempts < jobs[j].max_attempts)
      BY <1>2, <2>2, <2>3 DEF HasBudget
    <3>3. JobInv(jobs'[j], LoseOpenAttempts(job_attempts[j]))
      BY <2>1, <3>1, <3>2, ExhaustedInv
    <3>4. QED  BY <3>1, <3>3
  <2>4. CASE j \in batch
    <3> DEFINE settled == IF LeaseExpired(j) THEN LoseOpenAttempts(job_attempts[j])
                          ELSE job_attempts[j]
               token == FreshToken(j)
    <3>1. j \notin ClaimExhausted(locked)  BY <1>2, <2>4
    <3>2. /\ jobs'[j] = [jobs[j] EXCEPT !.status = "RUNNING", !.attempts = token,
                                        !.lease_token = token,
                                        !.lease_expires_at = LeaseDuration]
          /\ job_attempts'[j] = InsertAttempt(settled, token, token)
      BY <1>4, <2>4, <3>1 DEF RowAfterClaim, TrailAfterClaim
    <3>3. jobs[j].status \in {"PENDING", "RUNNING"} /\ jobs[j].attempts < jobs[j].max_attempts
      BY <1>1, <2>4 DEF Due, HasBudget, LeaseExpired
    <3>4. /\ JobInv(jobs[j], settled)
          /\ \A n \in DOMAIN settled :
                settled[n].outcome \in {"RETRY_SCHEDULED", "DEAD", "LEASE_LOST"}
      <4>1. CASE LeaseExpired(j)  BY <2>1, <2>2, <4>1, LoseOpenInv
      <4>2. CASE ~LeaseExpired(j)
        <5>1. jobs[j].status = "PENDING"  BY <1>1, <2>4, <4>2 DEF Due
        <5>2. settled = job_attempts[j]  BY <4>2
        <5>3. QED  BY <2>1, <5>1, <5>2, LastOutcomesValues DEF JobInv
      <4>3. QED  BY <4>1, <4>2
    <3>5. token = jobs[j].attempts + 1  BY DEF FreshToken
    <3> HIDE DEF settled, token
    <3>6. JobInv(jobs'[j], InsertAttempt(settled, token, token))
      BY <3>2, <3>3, <3>4, <3>5, ClaimedInv
    <3>7. QED  BY <3>2, <3>6
  <2>5. CASE j \notin ClaimExhausted(locked) /\ j \notin batch
    <3>1. /\ jobs'[j] = jobs[j]
          /\ job_attempts'[j] = IF LeaseExpired(j) THEN LoseOpenAttempts(job_attempts[j])
                                ELSE job_attempts[j]
      BY <1>4, <2>5 DEF RowAfterClaim, TrailAfterClaim
    <3>2. QED  BY <2>1, <2>2, <3>1, LoseOpenInv
  <2>6. QED  BY <2>3, <2>4, <2>5
<1>5. QED  BY <1>3, <1>4 DEF StoreByJob, JobInv

LEMMA TickStore == StoreByJob /\ Tick => StoreByJob'
<1> SUFFICES ASSUME StoreByJob, Tick  PROVE StoreByJob'
  OBVIOUS
<1> DEFINE aged(j) ==
      [jobs[j] EXCEPT
         !.next_attempt_at = IF Active(j) THEN Aged(@, -Horizon) ELSE @,
         !.lease_expires_at = IF @ = NULL THEN NULL ELSE Aged(@, 0)]
<1>1. jobs' = [j \in Jobs |-> aged(j)] /\ job_attempts' = job_attempts
  BY DEF Tick
<1>2. ASSUME NEW j \in Jobs
      PROVE  JobInv(aged(j), job_attempts[j])
  <2>1. JobInv(jobs[j], job_attempts[j]) /\ Active(j) \in BOOLEAN
    BY DEF StoreByJob, Active
  <2>2. QED  BY <2>1, AgeInv
<1> HIDE DEF aged
<1>3. QED  BY <1>1, <1>2 DEF StoreByJob, JobInv

LEMMA NextStore == StoreByJob /\ [Next]_storeVars => StoreByJob'
<1> SUFFICES ASSUME StoreByJob, [Next]_storeVars  PROVE StoreByJob'
  OBVIOUS
<1>0. \A j \in Jobs : JobInv(jobs[j], job_attempts[j])  BY DEF StoreByJob
<1>1. ASSUME NEW j \in Jobs, NEW m \in 1 .. MaxBudget, InsertJob(j, m)
      PROVE  StoreByJob'
  <2> DEFINE row2 == [NoJob EXCEPT !.status = "PENDING", !.max_attempts = m]
  <2>1. DOMAIN job_attempts[j] = {}
    <3>1. /\ jobs[j].status = "ABSENT" /\ jobs[j].attempts \in Nat
          /\ DOMAIN job_attempts[j] = 1 .. jobs[j].attempts
          /\ \A n \in DOMAIN job_attempts[j] :
                n = jobs[j].attempts => job_attempts[j][n].outcome \in LastOutcomes("ABSENT")
      BY <1>0, <1>1 DEF InsertJob, JobInv, JobRow
    <3>2. jobs[j].attempts \notin DOMAIN job_attempts[j]
      BY <3>1, LastOutcomesValues
    <3>3. QED  BY <3>1, <3>2
  <2>2. JobInv(row2, job_attempts[j])  BY <2>1, NewJobInv
  <2>3. jobs' = [jobs EXCEPT ![j] = row2]  BY <1>1 DEF InsertJob
  <2>4. DOMAIN job_attempts' = Jobs
        /\ \A k \in Jobs : job_attempts'[k] = job_attempts[k]
    BY <1>1 DEF InsertJob, StoreByJob
  <2> HIDE DEF row2
  <2>5. QED  BY <2>2, <2>3, <2>4, OneJobWritten
<1>2. ASSUME NEW batch \in SUBSET Jobs, NEW locked \in SUBSET Jobs, NEW limit \in Limits,
             ClaimPendingJobs(batch, limit, locked)
      PROVE  StoreByJob'
  BY <1>2, ClaimStore
<1>3. ASSUME NEW j \in Jobs, NEW token \in 1 .. MaxBudget, FinalizeSuccess(j, token)
      PROVE  StoreByJob'
  <2> DEFINE row2 == [Released(jobs[j], "SUCCEEDED") EXCEPT
                        !.last_error_code = NULL, !.finished = TRUE]
  <2>1. JobInv(row2, CloseAttempt(job_attempts[j], token, "SUCCEEDED"))
    BY <1>0, <1>3, SuccessInv DEF FinalizeSuccess, Holds
  <2>2. jobs' = [jobs EXCEPT ![j] = row2]  BY <1>3 DEF FinalizeSuccess
  <2> HIDE DEF row2
  <2>3. QED  BY <1>3, <2>1, <2>2, OneJobWritten DEF FinalizeSuccess, StoreByJob
<1>4. ASSUME NEW j \in Jobs, NEW token \in 1 .. MaxBudget, NEW delay \in 0 .. MaxDelay,
             NEW code \in ErrorCodes, FinalizeRetryScheduled(j, token, delay, code)
      PROVE  StoreByJob'
  <2> DEFINE row2 == [Released(jobs[j], "PENDING") EXCEPT
                        !.next_attempt_at = delay, !.last_error_code = code]
  <2>1. JobInv(row2, FailAttempt(job_attempts[j], token, "RETRY_SCHEDULED", code))
    BY <1>0, <1>4, RetryScheduledInv DEF FinalizeRetryScheduled, Holds
  <2>2. jobs' = [jobs EXCEPT ![j] = row2]  BY <1>4 DEF FinalizeRetryScheduled
  <2> HIDE DEF row2
  <2>3. QED  BY <1>4, <2>1, <2>2, OneJobWritten DEF FinalizeRetryScheduled, StoreByJob
<1>5. ASSUME NEW j \in Jobs, NEW token \in 1 .. MaxBudget, NEW code \in ErrorCodes,
             FinalizeDead(j, token, code)
      PROVE  StoreByJob'
  <2> DEFINE row2 == [Released(jobs[j], "DEAD") EXCEPT
                        !.last_error_code = code, !.finished = TRUE]
  <2>1. JobInv(row2, FailAttempt(job_attempts[j], token, "DEAD", code))
    BY <1>0, <1>5, DeadInv DEF FinalizeDead, Holds
  <2>2. jobs' = [jobs EXCEPT ![j] = row2]  BY <1>5 DEF FinalizeDead
  <2> HIDE DEF row2
  <2>3. QED  BY <1>5, <2>1, <2>2, OneJobWritten DEF FinalizeDead, StoreByJob
<1>6. ASSUME NEW j \in Jobs, NEW token \in 1 .. MaxBudget, RenewLease(j, token)
      PROVE  StoreByJob'
  <2> DEFINE row2 == [jobs[j] EXCEPT !.lease_expires_at = LeaseDuration]
  <2>1. JobInv(row2, job_attempts[j])
    BY <1>0, <1>6, RenewInv DEF RenewLease, Holds
  <2>2. jobs' = [jobs EXCEPT ![j] = row2]  BY <1>6 DEF RenewLease
  <2>3. DOMAIN job_attempts' = Jobs
        /\ \A k \in Jobs : job_attempts'[k] = job_attempts[k]
    BY <1>6 DEF RenewLease, StoreByJob
  <2> HIDE DEF row2
  <2>4. QED  BY <2>1, <2>2, <2>3, OneJobWritten
<1>7. ASSUME NEW j \in Jobs, NEW m \in 1 .. MaxBudget, RetryDeadJob(j, m)
      PROVE  StoreByJob'
  <2> DEFINE row2 == [Released(jobs[j], "PENDING") EXCEPT
                        !.next_attempt_at = 0, !.last_error_code = NULL,
                        !.finished = FALSE, !.max_attempts = m]
  <2>1. JobInv(row2, job_attempts[j])
    BY <1>0, <1>7, ReplayInv DEF RetryDeadJob
  <2>2. jobs' = [jobs EXCEPT ![j] = row2]  BY <1>7 DEF RetryDeadJob
  <2>3. DOMAIN job_attempts' = Jobs
        /\ \A k \in Jobs : job_attempts'[k] = job_attempts[k]
    BY <1>7 DEF RetryDeadJob, StoreByJob
  <2> HIDE DEF row2
  <2>4. QED  BY <2>1, <2>2, <2>3, OneJobWritten
<1>8. CASE Tick  BY <1>8, TickStore
<1>9. CASE UNCHANGED storeVars  BY <1>9 DEF storeVars, StoreByJob, JobInv
<1>10. QED
  BY <1>1, <1>2, <1>3, <1>4, <1>5, <1>6, <1>7, <1>8, <1>9 DEF Next

\* The repository invariant: well-typed rows, no CHECK ever violated, a
\* complete audit trail that agrees with the job rows, and truthful DEAD codes.
THEOREM StoreInvariant == Spec => []StoreInv
<1>1. StoreByJob <=> StoreInv  BY StoreInvByJob DEF StoreByJob
<1>2. QED  BY <1>1, InitStore, NextStore, PTL DEF Spec

-------------------------------------------------------------------------------
(* The parts of StoreInv, one by one.                                      *)

\* The tables keep their column types.
THEOREM TypeCorrect == Spec => []TypeOK
BY StoreInvariant, PTL DEF StoreInv

\* No transaction of jobs.rs commits - or aborts for ever on - a row that a
\* CHECK of 0001_init_schema.sql refuses.
THEOREM ChecksAlwaysHold == Spec => []ChecksHold
BY StoreInvariant, PTL DEF StoreInv

\* job_attempts has one row per attempt, without a gap, under its own token.
THEOREM TrailAlwaysComplete == Spec => []TrailComplete
BY StoreInvariant, PTL DEF StoreInv

\* The job row and its attempt rows never contradict each other.
THEOREM TrailAlwaysMatches == Spec => []TrailMatchesStatus
BY StoreInvariant, PTL DEF StoreInv

\* A DEAD job always says truthfully why it is DEAD.
THEOREM DeadAlwaysExplained == Spec => []DeadIsExplained
BY StoreInvariant, PTL DEF StoreInv

-------------------------------------------------------------------------------
(* What one transaction may do to one job.                                 *)


SameTrail(j) == job_attempts'[j] = job_attempts[j]

\* The row after a transaction that ends the attempt in progress.
Left(j, status) ==
    /\ jobs'[j].status = status
    /\ jobs'[j].attempts = jobs[j].attempts
    /\ jobs'[j].lease_token = NULL

\* A transaction that leaves the job in the hands it is in.
Kept(j) ==
    /\ jobs'[j].status = jobs[j].status
    /\ jobs'[j].attempts = jobs[j].attempts
    /\ jobs'[j].lease_token = jobs[j].lease_token

Inserted(j)  == jobs[j].status = "ABSENT" /\ jobs'[j].attempts = 0
                /\ jobs'[j].status = "PENDING" /\ jobs'[j].lease_token = NULL
                /\ SameTrail(j)
Buried(j)    == LeaseExpired(j) /\ Left(j, "DEAD")
                /\ job_attempts'[j] = LoseOpenAttempts(job_attempts[j])
PassedBy(j)  == LeaseExpired(j) /\ jobs'[j] = jobs[j]
                /\ job_attempts'[j] = LoseOpenAttempts(job_attempts[j])
Claimed(j)   == /\ Due(j)
                /\ jobs'[j].status = "RUNNING"
                /\ jobs'[j].attempts = jobs[j].attempts + 1
                /\ jobs'[j].lease_token = jobs[j].attempts + 1
                /\ \E settled :
                      /\ settled = IF LeaseExpired(j) THEN LoseOpenAttempts(job_attempts[j])
                                   ELSE job_attempts[j]
                      /\ job_attempts'[j] = InsertAttempt(settled, jobs[j].attempts + 1,
                                                          jobs[j].attempts + 1)
Finalized(j) == \E token \in 1 .. MaxBudget :
                   /\ Holds(j, token)
                   /\ \/ /\ Left(j, "SUCCEEDED")
                         /\ job_attempts'[j] = CloseAttempt(job_attempts[j], token, "SUCCEEDED")
                      \/ /\ Left(j, "PENDING")
                         /\ \E code \in ErrorCodes :
                               job_attempts'[j] =
                                 FailAttempt(job_attempts[j], token, "RETRY_SCHEDULED", code)
                      \/ /\ Left(j, "DEAD")
                         /\ \E code \in ErrorCodes :
                               job_attempts'[j] =
                                 FailAttempt(job_attempts[j], token, "DEAD", code)
Renewed(j)   == jobs[j].status = "RUNNING" /\ Kept(j) /\ SameTrail(j)
Replayed(j)  == jobs[j].status = "DEAD" /\ Left(j, "PENDING") /\ SameTrail(j)
Ticked(j)    == Active(j) /\ Kept(j) /\ SameTrail(j)

JobStep(j) ==
    \/ jobs'[j] = jobs[j] /\ SameTrail(j)
    \/ Inserted(j)
    \/ Buried(j)
    \/ PassedBy(j)
    \/ Claimed(j)
    \/ Finalized(j)
    \/ Renewed(j)
    \/ Replayed(j)
    \/ Ticked(j)

-------------------------------------------------------------------------------
LEMMA ClaimOfJob ==
    ASSUME StoreByJob, NEW batch \in SUBSET Jobs, NEW locked \in SUBSET Jobs,
           NEW limit \in Limits, ClaimPendingJobs(batch, limit, locked), NEW j \in Jobs
    PROVE  JobStep(j)
<1>1. \A k \in batch : Due(k)  BY DEF ClaimPendingJobs, IsClaimBatch
<1>2. j \in ClaimExhausted(locked) => j \notin batch /\ LeaseExpired(j)
  BY <1>1 DEF ClaimExhausted, Due
<1>3. /\ jobs'[j] = RowAfterClaim(j, ClaimExhausted(locked), batch)
      /\ job_attempts'[j] = TrailAfterClaim(j, batch)
  BY DEF ClaimPendingJobs
<1>4. jobs[j] \in JobRow  BY DEF StoreByJob
<1>5. CASE j \in ClaimExhausted(locked)
  <2>1. /\ jobs'[j] = [Released(jobs[j], "DEAD") EXCEPT
                         !.last_error_code = LeaseExhausted, !.finished = TRUE]
        /\ job_attempts'[j] = LoseOpenAttempts(job_attempts[j])
    BY <1>2, <1>3, <1>5 DEF RowAfterClaim, TrailAfterClaim
  <2>2. Left(j, "DEAD")  BY <1>4, <2>1 DEF Left, Released, JobRow
  <2>3. QED  BY <1>2, <1>5, <2>1, <2>2 DEF JobStep, Buried
<1>6. CASE j \in batch
  <2>1. /\ jobs'[j] = [jobs[j] EXCEPT !.status = "RUNNING", !.attempts = jobs[j].attempts + 1,
                                      !.lease_token = jobs[j].attempts + 1,
                                      !.lease_expires_at = LeaseDuration]
        /\ job_attempts'[j] =
             InsertAttempt(IF LeaseExpired(j) THEN LoseOpenAttempts(job_attempts[j])
                           ELSE job_attempts[j],
                           jobs[j].attempts + 1, jobs[j].attempts + 1)
    BY <1>2, <1>3, <1>6 DEF RowAfterClaim, TrailAfterClaim, FreshToken
  <2>2. /\ jobs'[j].status = "RUNNING"
        /\ jobs'[j].attempts = jobs[j].attempts + 1
        /\ jobs'[j].lease_token = jobs[j].attempts + 1
    BY <1>4, <2>1 DEF JobRow
  <2>3. Claimed(j)  BY <1>1, <1>6, <2>1, <2>2 DEF Claimed
  <2>4. QED  BY <2>3 DEF JobStep
<1>7. CASE j \notin ClaimExhausted(locked) /\ j \notin batch
  <2>1. /\ jobs'[j] = jobs[j]
        /\ job_attempts'[j] = IF LeaseExpired(j) THEN LoseOpenAttempts(job_attempts[j])
                              ELSE job_attempts[j]
    BY <1>3, <1>7 DEF RowAfterClaim, TrailAfterClaim
  <2>2. QED  BY <2>1 DEF JobStep, PassedBy, SameTrail
<1>8. QED  BY <1>5, <1>6, <1>7

LEMMA UpdateWithItself ==
    ASSUME NEW row \in JobRow
    PROVE  [row EXCEPT !.next_attempt_at = row.next_attempt_at,
                       !.lease_expires_at = row.lease_expires_at] = row
BY DEF JobRow

\* A terminal job has no running time: a tick leaves its row as it is.
LEMMA TickOfJob ==
    ASSUME StoreByJob, Tick, NEW j \in Jobs
    PROVE  JobStep(j)
<1>1. jobs[j] \in JobRow /\ JobInv(jobs[j], job_attempts[j])  BY DEF StoreByJob
<1>2. /\ jobs'[j] = [jobs[j] EXCEPT
                       !.next_attempt_at = IF Active(j) THEN Aged(@, -Horizon) ELSE @,
                       !.lease_expires_at = IF @ = NULL THEN NULL ELSE Aged(@, 0)]
      /\ SameTrail(j)
  BY DEF Tick, SameTrail
<1>3. CASE Active(j)
  <2>1. Kept(j)  BY <1>1, <1>2 DEF Kept, JobRow
  <2>2. QED  BY <1>2, <1>3, <2>1 DEF JobStep, Ticked
<1>4. CASE ~Active(j)
  <2>1. jobs[j].lease_expires_at = NULL  BY <1>1, <1>4 DEF Active, JobInv
  <2>2. jobs'[j] = [jobs[j] EXCEPT !.next_attempt_at = jobs[j].next_attempt_at,
                                   !.lease_expires_at = jobs[j].lease_expires_at]
    BY <1>2, <1>4, <2>1
  <2>3. jobs'[j] = jobs[j]  BY <1>1, <2>2, UpdateWithItself
  <2>4. QED  BY <1>2, <2>3 DEF JobStep
<1>5. QED  BY <1>3, <1>4

\* Every step of the repository is, for each job, one of the steps of JobStep.
LEMMA StepOfJob ==
    ASSUME StoreByJob, [Next]_storeVars, NEW j \in Jobs
    PROVE  JobStep(j)
<1>0. jobs \in [Jobs -> JobRow] /\ DOMAIN job_attempts = Jobs
  BY DEF StoreByJob
<1>1. ASSUME NEW k \in Jobs, NEW m \in 1 .. MaxBudget, InsertJob(k, m)
      PROVE  JobStep(j)
  <2>1. CASE k = j
    <3>1. jobs'[j] = [NoJob EXCEPT !.status = "PENDING", !.max_attempts = m]
          /\ jobs[j].status = "ABSENT" /\ SameTrail(j)
      BY <1>0, <1>1, <2>1 DEF InsertJob, SameTrail
    <3>2. Inserted(j)  BY <3>1 DEF Inserted, NoJob
    <3>3. QED  BY <3>2 DEF JobStep
  <2>2. CASE k # j
    BY <1>0, <1>1, <2>2 DEF InsertJob, JobStep, SameTrail
  <2>3. QED  BY <2>1, <2>2
<1>2. ASSUME NEW batch \in SUBSET Jobs, NEW locked \in SUBSET Jobs, NEW limit \in Limits,
             ClaimPendingJobs(batch, limit, locked)
      PROVE  JobStep(j)
  BY <1>2, ClaimOfJob
<1>3. ASSUME NEW k \in Jobs, NEW token \in 1 .. MaxBudget, FinalizeSuccess(k, token)
      PROVE  JobStep(j)
  <2>1. CASE k = j
    <3>1. /\ jobs'[j] = [Released(jobs[j], "SUCCEEDED") EXCEPT
                           !.last_error_code = NULL, !.finished = TRUE]
          /\ job_attempts'[j] = CloseAttempt(job_attempts[j], token, "SUCCEEDED")
          /\ Holds(j, token)
      BY <1>0, <1>3, <2>1 DEF FinalizeSuccess
    <3>2. Left(j, "SUCCEEDED")  BY <1>0, <3>1 DEF Left, Released, JobRow
    <3>3. Finalized(j)  BY <1>3, <3>1, <3>2 DEF Finalized
    <3>4. QED  BY <3>3 DEF JobStep
  <2>2. CASE k # j
    BY <1>0, <1>3, <2>2 DEF FinalizeSuccess, JobStep, SameTrail
  <2>3. QED  BY <2>1, <2>2
<1>4. ASSUME NEW k \in Jobs, NEW token \in 1 .. MaxBudget, NEW delay \in 0 .. MaxDelay,
             NEW code \in ErrorCodes, FinalizeRetryScheduled(k, token, delay, code)
      PROVE  JobStep(j)
  <2>1. CASE k = j
    <3>1. /\ jobs'[j] = [Released(jobs[j], "PENDING") EXCEPT
                           !.next_attempt_at = delay, !.last_error_code = code]
          /\ job_attempts'[j] = FailAttempt(job_attempts[j], token, "RETRY_SCHEDULED", code)
          /\ Holds(j, token)
      BY <1>0, <1>4, <2>1 DEF FinalizeRetryScheduled
    <3>2. Left(j, "PENDING")  BY <1>0, <3>1 DEF Left, Released, JobRow
    <3>3. Finalized(j)  BY <1>4, <3>1, <3>2 DEF Finalized
    <3>4. QED  BY <3>3 DEF JobStep
  <2>2. CASE k # j
    BY <1>0, <1>4, <2>2 DEF FinalizeRetryScheduled, JobStep, SameTrail
  <2>3. QED  BY <2>1, <2>2
<1>5. ASSUME NEW k \in Jobs, NEW token \in 1 .. MaxBudget, NEW code \in ErrorCodes,
             FinalizeDead(k, token, code)
      PROVE  JobStep(j)
  <2>1. CASE k = j
    <3>1. /\ jobs'[j] = [Released(jobs[j], "DEAD") EXCEPT
                           !.last_error_code = code, !.finished = TRUE]
          /\ job_attempts'[j] = FailAttempt(job_attempts[j], token, "DEAD", code)
          /\ Holds(j, token)
      BY <1>0, <1>5, <2>1 DEF FinalizeDead
    <3>2. Left(j, "DEAD")  BY <1>0, <3>1 DEF Left, Released, JobRow
    <3>3. Finalized(j)  BY <1>5, <3>1, <3>2 DEF Finalized
    <3>4. QED  BY <3>3 DEF JobStep
  <2>2. CASE k # j
    BY <1>0, <1>5, <2>2 DEF FinalizeDead, JobStep, SameTrail
  <2>3. QED  BY <2>1, <2>2
<1>6. ASSUME NEW k \in Jobs, NEW token \in 1 .. MaxBudget, RenewLease(k, token)
      PROVE  JobStep(j)
  <2>1. CASE k = j
    <3>1. /\ jobs'[j] = [jobs[j] EXCEPT !.lease_expires_at = LeaseDuration]
          /\ jobs[j].status = "RUNNING" /\ SameTrail(j)
      BY <1>0, <1>6, <2>1 DEF RenewLease, Holds, SameTrail
    <3>2. Kept(j)  BY <1>0, <3>1 DEF Kept, JobRow
    <3>3. QED  BY <3>1, <3>2 DEF JobStep, Renewed
  <2>2. CASE k # j
    BY <1>0, <1>6, <2>2 DEF RenewLease, JobStep, SameTrail
  <2>3. QED  BY <2>1, <2>2
<1>7. ASSUME NEW k \in Jobs, NEW m \in 1 .. MaxBudget, RetryDeadJob(k, m)
      PROVE  JobStep(j)
  <2>1. CASE k = j
    <3>1. /\ jobs'[j] = [Released(jobs[j], "PENDING") EXCEPT
                           !.next_attempt_at = 0, !.last_error_code = NULL,
                           !.finished = FALSE, !.max_attempts = m]
          /\ jobs[j].status = "DEAD" /\ SameTrail(j)
      BY <1>0, <1>7, <2>1 DEF RetryDeadJob, SameTrail
    <3>2. Left(j, "PENDING")  BY <1>0, <3>1 DEF Left, Released, JobRow
    <3>3. QED  BY <3>1, <3>2 DEF JobStep, Replayed
  <2>2. CASE k # j
    BY <1>0, <1>7, <2>2 DEF RetryDeadJob, JobStep, SameTrail
  <2>3. QED  BY <2>1, <2>2
<1>8. CASE Tick  BY <1>8, TickOfJob
<1>9. CASE UNCHANGED storeVars  BY <1>9 DEF storeVars, JobStep, SameTrail
<1>10. QED
  BY <1>1, <1>2, <1>3, <1>4, <1>5, <1>6, <1>7, <1>8, <1>9 DEF Next

-------------------------------------------------------------------------------
(* The action properties.                                                  *)

LEMMA SucceededStep ==
    ASSUME StoreByJob, [Next]_storeVars, NEW j \in Jobs, jobs[j].status = "SUCCEEDED"
    PROVE  jobs'[j] = jobs[j] /\ job_attempts'[j] = job_attempts[j]
<1>1. JobStep(j)  BY StepOfJob
<1>2. ~Due(j) /\ ~LeaseExpired(j) /\ ~Active(j) /\ \A token : ~Holds(j, token)
  BY DEF Due, LeaseExpired, Active, Holds
<1>3. QED
  BY <1>1, <1>2 DEF JobStep, Inserted, Buried, PassedBy, Claimed, Finalized,
                    Renewed, Replayed, Ticked, SameTrail

\* No stale token, claim, replay or tick touches a job that SUCCEEDED, or its
\* audit trail (crates/reliableq-db/src/jobs.rs, every guarded UPDATE).
THEOREM SucceededStaysFinal == Spec => SucceededIsFinal
<1>1. StoreByJob /\ [Next]_storeVars =>
        [\A j \in Jobs : jobs[j].status = "SUCCEEDED" =>
            jobs'[j] = jobs[j] /\ job_attempts'[j] = job_attempts[j]]_storeVars
  BY SucceededStep
<1>2. QED  BY <1>1, InitStore, NextStore, PTL DEF Spec, SucceededIsFinal

LEMMA TakeoverStep ==
    ASSUME StoreByJob, [Next]_storeVars, NEW j \in Jobs, jobs[j].status = "RUNNING",
           jobs'[j].lease_token # jobs[j].lease_token, jobs'[j].lease_token # NULL
    PROVE  LeaseExpired(j) /\ jobs'[j].lease_token > jobs[j].lease_token
<1>1. JobStep(j)  BY StepOfJob
<1>2. /\ jobs[j].lease_token = jobs[j].attempts /\ jobs[j].attempts \in Int
  BY DEF StoreByJob, JobInv, JobRow
<1>3. Claimed(j)
  BY <1>1 DEF JobStep, Inserted, Buried, PassedBy, Finalized, Renewed, Replayed,
              Ticked, Left, Kept
<1>4. LeaseExpired(j)  BY <1>3 DEF Claimed, Due
<1>5. QED  BY <1>2, <1>3, <1>4 DEF Claimed

\* A lease passes to another attempt only after it expired, and to a newer one
\* (claim_pending_jobs, step 3).
THEOREM TakeoversNeedExpiry == Spec => TakeoverNeedsExpiry
<1>1. StoreByJob /\ [Next]_storeVars =>
        [\A j \in Jobs :
            jobs[j].status = "RUNNING" /\ jobs'[j].lease_token # jobs[j].lease_token
            /\ jobs'[j].lease_token # NULL
            => LeaseExpired(j) /\ jobs'[j].lease_token > jobs[j].lease_token]_storeVars
  BY TakeoverStep
<1>2. QED  BY <1>1, InitStore, NextStore, PTL DEF Spec, TakeoverNeedsExpiry

\* What the statements on job_attempts do to one row of it.
LEMMA AttemptRowStep ==
    ASSUME StoreByJob, [Next]_storeVars, NEW j \in Jobs, NEW n \in DOMAIN job_attempts[j]
    PROVE  /\ n \in DOMAIN job_attempts'[j]
           /\ job_attempts[j][n].outcome # "OPEN"
              /\ job_attempts'[j][n] # job_attempts[j][n]
              => Holds(j, n) /\ job_attempts[j][n].outcome = "LEASE_LOST"
<1>1. JobStep(j)  BY StepOfJob
<1>2. JobInv(jobs[j], job_attempts[j])  BY DEF StoreByJob
<1>3. /\ n \in 1 .. jobs[j].attempts /\ jobs[j].attempts \in Nat
      /\ job_attempts[j][n].lease_token = n
  BY <1>2 DEF JobInv, JobRow
<1>4. CASE job_attempts'[j] = job_attempts[j]  BY <1>4
<1>5. CASE job_attempts'[j] = LoseOpenAttempts(job_attempts[j])
  BY <1>5 DEF LoseOpenAttempts
<1>6. CASE Claimed(j)
  <2>1. PICK settled :
          /\ settled = IF LeaseExpired(j) THEN LoseOpenAttempts(job_attempts[j])
                       ELSE job_attempts[j]
          /\ job_attempts'[j] = InsertAttempt(settled, jobs[j].attempts + 1,
                                              jobs[j].attempts + 1)
    BY <1>6 DEF Claimed
  <2>2. /\ n \in DOMAIN settled
        /\ job_attempts[j][n].outcome # "OPEN" => settled[n] = job_attempts[j][n]
    BY <2>1 DEF LoseOpenAttempts
  <2>3. n \in DOMAIN job_attempts'[j] /\ job_attempts'[j][n] = settled[n]
    BY <1>3, <2>1, <2>2 DEF InsertAttempt
  <2>4. QED  BY <2>2, <2>3
<1>7. CASE Finalized(j)
  <2>1. PICK token \in 1 .. MaxBudget :
          /\ Holds(j, token)
          /\ \/ job_attempts'[j] = CloseAttempt(job_attempts[j], token, "SUCCEEDED")
             \/ \E outcome, code :
                   job_attempts'[j] = FailAttempt(job_attempts[j], token, outcome, code)
    BY <1>7 DEF Finalized
  <2>2. /\ n \in DOMAIN job_attempts'[j]
        /\ n # token => job_attempts'[j][n] = job_attempts[j][n]
    BY <1>3, <2>1 DEF CloseAttempt, FailAttempt
  <2>3. n = token => job_attempts[j][n].outcome \in {"OPEN", "LEASE_LOST"}
    BY <1>2, <1>3, <2>1, LastOutcomesValues, NullAssumption DEF JobInv, Holds
  <2>4. QED  BY <2>1, <2>2, <2>3
<1>8. QED
  BY <1>1, <1>4, <1>5, <1>6, <1>7
     DEF JobStep, Inserted, Buried, PassedBy, Renewed, Replayed, Ticked, SameTrail

\* The audit trail loses no row, and rewrites a settled outcome only when that
\* is LEASE_LOST and the attempt still holds the lease.
THEOREM TrailOnlySettles == Spec => TrailSettles
<1>1. StoreByJob /\ [Next]_storeVars =>
        [\A j \in Jobs : \A n \in DOMAIN job_attempts[j] :
            /\ n \in DOMAIN job_attempts'[j]
            /\ job_attempts[j][n].outcome # "OPEN"
               /\ job_attempts'[j][n] # job_attempts[j][n]
               => Holds(j, n) /\ job_attempts[j][n].outcome = "LEASE_LOST"]_storeVars
  BY AttemptRowStep
<1>2. QED  BY <1>1, InitStore, NextStore, PTL DEF Spec, TrailSettles

-------------------------------------------------------------------------------
(* Every life ends: the part of guarantee 7 that needs no fairness.         *)

\* What a job may still do before it is terminal, or PENDING for good: two steps
\* for each attempt its budget has left, and one for the attempt it is in.
WorkLeft(j) ==
    2 * (jobs[j].max_attempts - jobs[j].attempts)
    + (IF jobs[j].status = "RUNNING" THEN 1 ELSE 0)

\* Whatever moves a job on - claim, reclaim, finalization or burial, by any
\* worker and with any token - leaves it less to do.  Only a replay gives it more.
RetriesRunOut ==
    [][\A j \in Jobs :
          Active(j) /\ \/ jobs'[j].status # jobs[j].status
                       \/ jobs'[j].attempts # jobs[j].attempts
          => WorkLeft(j)' < WorkLeft(j)]_storeVars

\* No statement but a submission and a replay writes max_attempts.
LEMMA BudgetStays ==
    ASSUME StoreByJob, [Next]_storeVars, NEW j \in Jobs, Active(j)
    PROVE  jobs'[j].max_attempts = jobs[j].max_attempts
<1>1. jobs \in [Jobs -> JobRow] /\ jobs[j] \in JobRow  BY DEF StoreByJob, JobInv
<1>2. CASE UNCHANGED storeVars  BY <1>2 DEF storeVars
<1>3. ASSUME NEW i \in Jobs, NEW m \in 1 .. MaxBudget, InsertJob(i, m) \/ RetryDeadJob(i, m)
      PROVE  jobs'[j].max_attempts = jobs[j].max_attempts
  <2>1. i # j  BY <1>3 DEF InsertJob, RetryDeadJob, Active
  <2>2. QED  BY <1>1, <1>3, <2>1 DEF InsertJob, RetryDeadJob
<1>4. ASSUME NEW batch \in SUBSET Jobs, NEW locked \in SUBSET Jobs, NEW limit \in Limits,
             ClaimPendingJobs(batch, limit, locked)
      PROVE  jobs'[j].max_attempts = jobs[j].max_attempts
  <2>1. jobs'[j] = RowAfterClaim(j, ClaimExhausted(locked), batch)
    BY <1>4 DEF ClaimPendingJobs
  <2>2. QED  BY <1>1, <2>1 DEF RowAfterClaim, Released, JobRow
<1>5. ASSUME NEW i \in Jobs, NEW token \in 1 .. MaxBudget,
             \/ FinalizeSuccess(i, token)
             \/ \E delay \in 0 .. MaxDelay, code \in ErrorCodes :
                   FinalizeRetryScheduled(i, token, delay, code)
             \/ \E code \in ErrorCodes : FinalizeDead(i, token, code)
             \/ RenewLease(i, token)
      PROVE  jobs'[j].max_attempts = jobs[j].max_attempts
  <2> DEFINE Writes(row) == /\ jobs' = [jobs EXCEPT ![i] = row]
                            /\ row.max_attempts = jobs[i].max_attempts
  <2>1. jobs[i] \in JobRow  BY <1>1
  <2>2. ASSUME FinalizeSuccess(i, token)  PROVE \E row : Writes(row)
    <3>1. Writes([Released(jobs[i], "SUCCEEDED") EXCEPT
                    !.last_error_code = NULL, !.finished = TRUE])
      BY <2>1, <2>2 DEF FinalizeSuccess, Released, JobRow
    <3>2. QED  BY <3>1
  <2>3. ASSUME NEW delay \in 0 .. MaxDelay, NEW code \in ErrorCodes,
               FinalizeRetryScheduled(i, token, delay, code)
        PROVE  \E row : Writes(row)
    <3>1. Writes([Released(jobs[i], "PENDING") EXCEPT
                    !.next_attempt_at = delay, !.last_error_code = code])
      BY <2>1, <2>3 DEF FinalizeRetryScheduled, Released, JobRow
    <3>2. QED  BY <3>1
  <2>4. ASSUME NEW code \in ErrorCodes, FinalizeDead(i, token, code)
        PROVE  \E row : Writes(row)
    <3>1. Writes([Released(jobs[i], "DEAD") EXCEPT
                    !.last_error_code = code, !.finished = TRUE])
      BY <2>1, <2>4 DEF FinalizeDead, Released, JobRow
    <3>2. QED  BY <3>1
  <2>5. ASSUME RenewLease(i, token)  PROVE \E row : Writes(row)
    <3>1. Writes([jobs[i] EXCEPT !.lease_expires_at = LeaseDuration])
      BY <2>1, <2>5 DEF RenewLease, JobRow
    <3>2. QED  BY <3>1
  <2>6. \E row : Writes(row)  BY <1>5, <2>2, <2>3, <2>4, <2>5
  <2>7. QED  BY <1>1, <2>6
<1>6. CASE Tick  BY <1>1, <1>6 DEF Tick, JobRow
<1>7. QED  BY <1>2, <1>3, <1>4, <1>5, <1>6 DEF Next

LEMMA WorkRunsOut ==
    ASSUME StoreByJob, [Next]_storeVars, NEW j \in Jobs, Active(j),
           jobs'[j].status # jobs[j].status \/ jobs'[j].attempts # jobs[j].attempts
    PROVE  WorkLeft(j)' < WorkLeft(j)
<1>1. JobStep(j)  BY StepOfJob
<1>2. jobs'[j].max_attempts = jobs[j].max_attempts  BY BudgetStays
<1>3. jobs[j].attempts \in Int /\ jobs[j].max_attempts \in Int
  BY DEF StoreByJob, JobInv, JobRow
<1>4. \/ jobs'[j].attempts = jobs[j].attempts + 1 /\ jobs'[j].status = "RUNNING"
      \/ /\ jobs'[j].attempts = jobs[j].attempts
         /\ jobs[j].status = "RUNNING" /\ jobs'[j].status # "RUNNING"
  BY <1>1 DEF JobStep, Inserted, Buried, PassedBy, Claimed, Finalized, Renewed, Replayed,
              Ticked, Kept, Left, Holds, LeaseExpired, Active
<1>5. QED  BY <1>2, <1>3, <1>4 DEF WorkLeft

\* However attempts end, overlap or are lost, between two replays the status and
\* the attempts of a job change a bounded number of times (claim_pending_jobs,
\* finalize_*): no livelock of reclaims.  That they change at all is liveness.
THEOREM RetriesAlwaysRunOut == Spec => [](\A j \in Jobs : WorkLeft(j) \in Nat) /\ RetriesRunOut
<1>1. StoreByJob => \A j \in Jobs : WorkLeft(j) \in Nat
  BY DEF StoreByJob, JobInv, JobRow, WorkLeft
<1>2. StoreByJob /\ [Next]_storeVars =>
        [\A j \in Jobs :
            Active(j) /\ \/ jobs'[j].status # jobs[j].status
                         \/ jobs'[j].attempts # jobs[j].attempts
            => WorkLeft(j)' < WorkLeft(j)]_storeVars
  BY WorkRunsOut
<1>3. QED  BY <1>1, <1>2, InitStore, NextStore, PTL DEF Spec, RetriesRunOut

-------------------------------------------------------------------------------
(* JobStore implements JobLifecycle.  The refinement mapping Lives forgets *)
(* leases, budgets, times and codes, and shows the attempt that holds a    *)
(* running job as RUNNING whatever its row says.  Each step of JobStep is  *)
(* a transition of JobLifecycle, or changes nothing Lives shows.           *)

\* Equal to Lives[j], written without the function over Jobs.
LifeOf(j) ==
    [status |-> jobs[j].status, attempts |-> jobs[j].attempts,
     endings |-> [n \in 1 .. jobs[j].attempts |-> Ending(j, n)]]

\* What the invariant says of the endings the life of a job shows.
LEMMA LifeFacts ==
    ASSUME StoreByJob, NEW j \in Jobs
    PROVE  /\ jobs[j].attempts \in Nat
           /\ DOMAIN job_attempts[j] = 1 .. jobs[j].attempts
           /\ \A n \in 1 .. jobs[j].attempts :
                 /\ job_attempts[j][n].lease_token = n
                 /\ n # jobs[j].attempts => job_attempts[j][n].outcome # "OPEN"
                 /\ n = jobs[j].attempts =>
                       job_attempts[j][n].outcome \in LastOutcomes(jobs[j].status)
           /\ jobs[j].lease_token \in {NULL, jobs[j].attempts}
           /\ jobs[j].status = "RUNNING" => jobs[j].lease_token = jobs[j].attempts
           /\ jobs[j].status = "ABSENT" => jobs[j].attempts = 0
<1>1. JobInv(jobs[j], job_attempts[j])  BY DEF StoreByJob
<1>2. /\ jobs[j].attempts \in Nat
      /\ DOMAIN job_attempts[j] = 1 .. jobs[j].attempts
      /\ jobs[j].lease_token \in {NULL, jobs[j].attempts}
      /\ jobs[j].status = "RUNNING" => jobs[j].lease_token = jobs[j].attempts
  BY <1>1 DEF JobInv, JobRow
<1>3. \A n \in 1 .. jobs[j].attempts :
         /\ job_attempts[j][n].lease_token = n
         /\ n # jobs[j].attempts => job_attempts[j][n].outcome # "OPEN"
         /\ n = jobs[j].attempts => job_attempts[j][n].outcome \in LastOutcomes(jobs[j].status)
  BY <1>1, <1>2 DEF JobInv
<1>4. jobs[j].status = "ABSENT" => jobs[j].attempts = 0
  BY <1>2, <1>3, LastOutcomesValues
<1>5. QED  BY <1>2, <1>3, <1>4

\* Attempts only grow, and the same attempt is not started twice.
LEMMA AttemptsGrow ==
    ASSUME StoreByJob, [Next]_storeVars, NEW j \in Jobs
    PROVE  /\ jobs[j].attempts \in Nat /\ jobs'[j].attempts \in Nat
           /\ jobs'[j].attempts >= jobs[j].attempts
           /\ jobs'[j].attempts = jobs[j].attempts /\ jobs'[j].status = "RUNNING"
              => jobs[j].status = "RUNNING"
<1>1. JobStep(j)  BY StepOfJob
<1>2. /\ jobs[j].attempts \in Nat
      /\ jobs[j].status = "ABSENT" => jobs[j].attempts = 0
  BY LifeFacts
<1>3. StoreByJob'  BY NextStore
<1>4. jobs'[j].attempts \in Nat  BY <1>3 DEF StoreByJob, JobInv, JobRow
<1>5. /\ jobs'[j].attempts >= jobs[j].attempts
      /\ jobs'[j].attempts = jobs[j].attempts /\ jobs'[j].status = "RUNNING"
         => jobs[j].status = "RUNNING"
  BY <1>1, <1>2 DEF JobStep, Inserted, Buried, PassedBy, Claimed, Finalized, Renewed,
                    Replayed, Ticked, Kept, Left, LeaseExpired, Active
<1>6. QED  BY <1>2, <1>4, <1>5

\* The trail of an expired lease once claim step 1 saw it.
LEMMA LostFacts ==
    ASSUME StoreByJob, NEW j \in Jobs, jobs[j].status = "RUNNING",
           NEW rows, rows = LoseOpenAttempts(job_attempts[j])
    PROVE  /\ DOMAIN rows = 1 .. jobs[j].attempts
           /\ \A n \in 1 .. jobs[j].attempts :
                 rows[n].outcome = IF n = jobs[j].attempts THEN "LEASE_LOST"
                                   ELSE job_attempts[j][n].outcome
<1>1. DOMAIN rows = 1 .. jobs[j].attempts  BY LifeFacts DEF LoseOpenAttempts
<1>2. ASSUME NEW n \in 1 .. jobs[j].attempts
      PROVE  rows[n].outcome = IF n = jobs[j].attempts THEN "LEASE_LOST"
                               ELSE job_attempts[j][n].outcome
  <2>1. n \in DOMAIN job_attempts[j]  BY LifeFacts
  <2>2. job_attempts[j][n].outcome # "OPEN" => rows[n] = job_attempts[j][n]
    BY <2>1 DEF LoseOpenAttempts
  <2>3. job_attempts[j][n].outcome = "OPEN" =>
           rows[n] = [job_attempts[j][n] EXCEPT !.outcome = "LEASE_LOST"]
    BY <2>1 DEF LoseOpenAttempts
  <2>4. job_attempts[j][n] \in AttemptRow  BY <2>1 DEF StoreByJob, JobInv
  <2>5. job_attempts[j][n].outcome = "OPEN" => rows[n].outcome = "LEASE_LOST"
    BY <2>3, <2>4 DEF AttemptRow
  <2>6. n = jobs[j].attempts => job_attempts[j][n].outcome \in {"OPEN", "LEASE_LOST"}
    BY LifeFacts, LastOutcomesValues
  <2>7. n # jobs[j].attempts => job_attempts[j][n].outcome # "OPEN"
    BY LifeFacts
  <2>8. QED  BY <2>2, <2>5, <2>6, <2>7
<1>3. QED  BY <1>1, <1>2

-------------------------------------------------------------------------------
(* Each step of JobStep, seen through Lives.                               *)

LEMMA KeptLife ==
    ASSUME StoreByJob, NEW j \in Jobs, SameTrail(j),
           jobs'[j].status = jobs[j].status, jobs'[j].attempts = jobs[j].attempts
    PROVE  LifeOf(j)' = LifeOf(j)
<1>1. \A n : Ending(j, n)' = Ending(j, n)  BY DEF Ending, SameTrail
<1>2. QED  BY <1>1 DEF LifeOf

LEMMA PassedByLife ==
    ASSUME StoreByJob, NEW j \in Jobs, PassedBy(j)
    PROVE  LifeOf(j)' = LifeOf(j)
<1>1. jobs[j].status = "RUNNING" /\ jobs'[j] = jobs[j]
  BY DEF PassedBy, LeaseExpired
<1>2. \A n \in 1 .. jobs[j].attempts : Ending(j, n)' = Ending(j, n)
  BY <1>1, LostFacts DEF Ending, PassedBy
<1>3. QED  BY <1>1, <1>2 DEF LifeOf

LEMMA SameEndingsLife ==
    ASSUME StoreByJob, NEW j \in Jobs, SameTrail(j), jobs'[j].attempts = jobs[j].attempts,
           jobs[j].status # "RUNNING", jobs'[j].status # "RUNNING"
    PROVE  Lifecycle!SameEndings(LifeOf(j), LifeOf(j)')
<1>1. \A n : Ending(j, n)' = Ending(j, n)  BY DEF Ending, SameTrail
<1>2. QED  BY <1>1 DEF LifeOf, Lifecycle!SameEndings

LEMMA ClaimedLife ==
    ASSUME StoreByJob, NEW j \in Jobs, Claimed(j),
           NEW old, old = jobs[j].attempts, NEW new, new = jobs[j].attempts + 1
    PROVE  Lifecycle!Starts(LifeOf(j), LifeOf(j)')
<1>1. PICK settled :
        /\ settled = IF LeaseExpired(j) THEN LoseOpenAttempts(job_attempts[j])
                     ELSE job_attempts[j]
        /\ job_attempts'[j] = InsertAttempt(settled, new, new)
  BY DEF Claimed
<1>2. /\ jobs'[j].status = "RUNNING" /\ jobs'[j].attempts = new
      /\ old \in Nat /\ new \in Nat /\ new \in 1 .. new /\ old # new
      /\ \A n \in 1 .. old : n \in 1 .. new /\ n # new
  BY LifeFacts DEF Claimed
<1>3. \A n \in 1 .. old :
         /\ n \in DOMAIN settled
         /\ settled[n].outcome = IF jobs[j].status = "RUNNING" /\ n = old
                                 THEN "LEASE_LOST" ELSE job_attempts[j][n].outcome
  <2>1. CASE LeaseExpired(j)
    BY <1>1, <2>1, LostFacts DEF LeaseExpired
  <2>2. CASE ~LeaseExpired(j)
    <3>1. jobs[j].status = "PENDING"  BY <2>2 DEF Claimed, Due
    <3>2. QED  BY <1>1, <2>2, <3>1, LifeFacts
  <2>3. QED  BY <2>1, <2>2
<1>4. \A n \in 1 .. old : job_attempts'[j][n] = settled[n]
  BY <1>1, <1>2, <1>3 DEF InsertAttempt
<1>5. Ending(j, new)' = "RUNNING"  BY <1>2 DEF Ending
<1>6. \A n \in 1 .. old :
         Ending(j, n)' = IF jobs[j].status = "RUNNING" /\ n = old
                         THEN "LEASE_LOST" ELSE Ending(j, n)
  BY <1>2, <1>3, <1>4 DEF Ending
<1>7. QED  BY <1>2, <1>5, <1>6 DEF LifeOf, Lifecycle!Starts

LEMMA EndedLife ==
    ASSUME StoreByJob, NEW j \in Jobs, jobs[j].status = "RUNNING",
           jobs'[j].status # "RUNNING", jobs'[j].attempts = jobs[j].attempts,
           NEW outcome,
           \A n \in 1 .. jobs[j].attempts :
              job_attempts'[j][n].outcome =
                IF n = jobs[j].attempts THEN outcome ELSE job_attempts[j][n].outcome
    PROVE  Lifecycle!Ends(LifeOf(j), LifeOf(j)', outcome)
<1>1. \A n \in 1 .. jobs[j].attempts :
         Ending(j, n)' = IF n = jobs[j].attempts THEN outcome ELSE Ending(j, n)
  BY DEF Ending
<1>2. QED  BY <1>1 DEF LifeOf, Lifecycle!Ends

LEMMA FailedRow ==
    ASSUME StoreByJob, NEW j \in Jobs, NEW token, token = jobs[j].attempts,
           NEW outcome, NEW code, NEW rows,
           rows = FailAttempt(job_attempts[j], token, outcome, code)
    PROVE  \A n \in 1 .. jobs[j].attempts :
              rows[n].outcome = IF n = jobs[j].attempts THEN outcome
                                ELSE job_attempts[j][n].outcome
<1> TAKE n \in 1 .. jobs[j].attempts
<1>1. /\ n \in DOMAIN job_attempts[j] /\ job_attempts[j][n].lease_token = n
      /\ job_attempts[j][n] \in AttemptRow
  BY LifeFacts DEF StoreByJob, JobInv
<1>2. rows[n] = IF n = token
                THEN [job_attempts[j][n] EXCEPT !.outcome = outcome, !.error_code = code]
                ELSE job_attempts[j][n]
  BY <1>1 DEF FailAttempt
<1>3. [job_attempts[j][n] EXCEPT !.outcome = outcome, !.error_code = code].outcome = outcome
  BY <1>1 DEF AttemptRow
<1>4. QED  BY <1>2, <1>3

LEMMA FinalizedLife ==
    ASSUME StoreByJob, NEW j \in Jobs, Finalized(j)
    PROVE  Lifecycle!Step(LifeOf(j), LifeOf(j)')
<1>1. PICK token \in 1 .. MaxBudget :
        /\ Holds(j, token)
        /\ \/ /\ Left(j, "SUCCEEDED")
              /\ job_attempts'[j] = CloseAttempt(job_attempts[j], token, "SUCCEEDED")
           \/ /\ Left(j, "PENDING")
              /\ \E code \in ErrorCodes :
                    job_attempts'[j] =
                      FailAttempt(job_attempts[j], token, "RETRY_SCHEDULED", code)
           \/ /\ Left(j, "DEAD")
              /\ \E code \in ErrorCodes :
                    job_attempts'[j] = FailAttempt(job_attempts[j], token, "DEAD", code)
  BY DEF Finalized
<1>2. jobs[j].status = "RUNNING" /\ token = jobs[j].attempts
  BY <1>1, LifeFacts DEF Holds
<1>3. \A n \in 1 .. jobs[j].attempts :
         /\ n \in DOMAIN job_attempts[j] /\ job_attempts[j][n].lease_token = n
         /\ job_attempts[j][n] \in AttemptRow
  BY LifeFacts DEF StoreByJob, JobInv
<1>4. CASE /\ Left(j, "SUCCEEDED")
           /\ job_attempts'[j] = CloseAttempt(job_attempts[j], token, "SUCCEEDED")
  <2>1. \A n \in 1 .. jobs[j].attempts :
           job_attempts'[j][n].outcome =
             IF n = jobs[j].attempts THEN "SUCCEEDED" ELSE job_attempts[j][n].outcome
    BY <1>2, <1>3, <1>4 DEF CloseAttempt, AttemptRow
  <2>2. Lifecycle!Ends(LifeOf(j), LifeOf(j)', "SUCCEEDED")
    BY <1>2, <1>4, <2>1, EndedLife DEF Left
  <2>3. QED
    BY <1>4, <2>2 DEF Left, LifeOf, Lifecycle!Step, Lifecycle!Succeed
<1>5. ASSUME NEW code \in ErrorCodes, Left(j, "PENDING"),
             job_attempts'[j] = FailAttempt(job_attempts[j], token, "RETRY_SCHEDULED", code)
      PROVE  Lifecycle!Step(LifeOf(j), LifeOf(j)')
  <2>1. \A n \in 1 .. jobs[j].attempts :
           job_attempts'[j][n].outcome =
             IF n = jobs[j].attempts THEN "RETRY_SCHEDULED" ELSE job_attempts[j][n].outcome
    BY <1>2, <1>5, FailedRow
  <2>2. Lifecycle!Ends(LifeOf(j), LifeOf(j)', "RETRY_SCHEDULED")
    BY <1>2, <1>5, <2>1, EndedLife DEF Left
  <2>3. QED
    BY <1>5, <2>2 DEF Left, LifeOf, Lifecycle!Step, Lifecycle!Reschedule
<1>6. ASSUME NEW code \in ErrorCodes, Left(j, "DEAD"),
             job_attempts'[j] = FailAttempt(job_attempts[j], token, "DEAD", code)
      PROVE  Lifecycle!Step(LifeOf(j), LifeOf(j)')
  <2>1. \A n \in 1 .. jobs[j].attempts :
           job_attempts'[j][n].outcome =
             IF n = jobs[j].attempts THEN "DEAD" ELSE job_attempts[j][n].outcome
    BY <1>2, <1>6, FailedRow
  <2>2. Lifecycle!Ends(LifeOf(j), LifeOf(j)', "DEAD")
    BY <1>2, <1>6, <2>1, EndedLife DEF Left
  <2>3. QED
    BY <1>6, <2>2 DEF Left, LifeOf, Lifecycle!Step, Lifecycle!Bury
<1>7. QED  BY <1>1, <1>4, <1>5, <1>6

LEMMA BuriedLife ==
    ASSUME StoreByJob, NEW j \in Jobs, Buried(j)
    PROVE  Lifecycle!Bury(LifeOf(j), LifeOf(j)')
<1>1. jobs[j].status = "RUNNING" /\ Left(j, "DEAD")  BY DEF Buried, LeaseExpired
<1>2. \A n \in 1 .. jobs[j].attempts :
         job_attempts'[j][n].outcome =
           IF n = jobs[j].attempts THEN "LEASE_LOST" ELSE job_attempts[j][n].outcome
  BY <1>1, LostFacts DEF Buried
<1>3. Lifecycle!Ends(LifeOf(j), LifeOf(j)', "LEASE_LOST")
  BY <1>1, <1>2, EndedLife DEF Left
<1>4. QED  BY <1>1, <1>3 DEF Left, LifeOf, Lifecycle!Bury

LEMMA JobStepRefines ==
    ASSUME StoreByJob, NEW j \in Jobs, JobStep(j)
    PROVE  LifeOf(j)' = LifeOf(j) \/ Lifecycle!Step(LifeOf(j), LifeOf(j)')
<1>1. CASE jobs'[j] = jobs[j] /\ SameTrail(j)  BY <1>1, KeptLife
<1>2. CASE Inserted(j)
  <2>1. Lifecycle!SameEndings(LifeOf(j), LifeOf(j)')
    BY <1>2, LifeFacts, SameEndingsLife DEF Inserted
  <2>2. QED
    BY <1>2, <2>1 DEF Inserted, LifeOf, Lifecycle!Step, Lifecycle!Submit
<1>3. CASE Buried(j)  BY <1>3, BuriedLife DEF Lifecycle!Step
<1>4. CASE PassedBy(j)   BY <1>4, PassedByLife
<1>5. CASE Claimed(j)
  <2>1. LifeOf(j).status \in {"PENDING", "RUNNING"}
    BY <1>5 DEF Claimed, Due, LeaseExpired, LifeOf
  <2>2. QED
    BY <1>5, <2>1, ClaimedLife DEF Lifecycle!Step, Lifecycle!Claim, Lifecycle!Reclaim
<1>6. CASE Finalized(j)  BY <1>6, FinalizedLife
<1>7. CASE Renewed(j) \/ Ticked(j)  BY <1>7, KeptLife DEF Renewed, Ticked, Kept
<1>8. CASE Replayed(j)
  <2>1. Lifecycle!SameEndings(LifeOf(j), LifeOf(j)')
    BY <1>8, SameEndingsLife DEF Replayed, Left
  <2>2. QED
    BY <1>8, <2>1 DEF Replayed, Left, LifeOf, Lifecycle!Step, Lifecycle!Replay
<1>9. QED
  BY <1>1, <1>2, <1>3, <1>4, <1>5, <1>6, <1>7, <1>8 DEF JobStep

-------------------------------------------------------------------------------
LEMMA InitRefines == Init => Lifecycle!Init
<1> SUFFICES ASSUME Init  PROVE Lifecycle!Init
  OBVIOUS
<1>1. ASSUME NEW j \in Jobs
      PROVE  LifeOf(j) = Lifecycle!Unsubmitted
  <2>1. jobs[j].status = "ABSENT" /\ jobs[j].attempts = 0  BY DEF Init, NoJob
  <2>2. 1 .. 0 = {}  OBVIOUS
  <2>3. [n \in 1 .. jobs[j].attempts |-> Ending(j, n)] = [n \in 1 .. 0 |-> "RUNNING"]
    BY <2>1, <2>2
  <2>4. QED  BY <2>1, <2>3 DEF LifeOf, Lifecycle!Unsubmitted
<1>2. QED  BY <1>1 DEF Lifecycle!Init, Lives, LifeOf

\* The repository implements the state machine of DESIGN.md sec. 3: every
\* committed transaction is, for each job, a legal transition or nothing, and
\* the ending of an attempt is never rewritten once the job moved on.
THEOREM StoreImplementsLifecycle == Spec => ImplementsLifecycle
<1>1. StoreByJob /\ [Next]_storeVars => [Lifecycle!Next]_Lives
  <2> SUFFICES ASSUME StoreByJob, [Next]_storeVars  PROVE Lifecycle!Next
    OBVIOUS
  <2>1. \A j \in Jobs : LifeOf(j)' = LifeOf(j) \/ Lifecycle!Step(LifeOf(j), LifeOf(j)')
    BY StepOfJob, JobStepRefines
  <2>2. \A j \in Jobs : Lives[j] = LifeOf(j) /\ Lives'[j] = LifeOf(j)'
    BY DEF Lives, LifeOf
  <2>3. QED  BY <2>1, <2>2 DEF Lifecycle!Next
<1>2. QED
  BY <1>1, InitRefines, InitStore, NextStore, PTL
     DEF Spec, ImplementsLifecycle, Lifecycle!Spec

===============================================================================
