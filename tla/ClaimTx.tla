-------------------------------- MODULE ClaimTx --------------------------------
(***************************************************************************)
(* claim_pending_jobs statement by statement, at READ COMMITTED, next to   *)
(* other claims, finalizations and renewals of the same jobs.  JobStore    *)
(* takes a claim as one step; this module looks inside it.                 *)
(*                                                                         *)
(* Each statement sees what was committed when it began, and the writes of *)
(* its own transaction; a row somebody else has written and not committed  *)
(* is locked.  now() is the start of the transaction in all three          *)
(* statements.  Times are relative to the clock, as in JobStore, so a      *)
(* transaction of age a reads `ts <= now()` as ts <= -a.                   *)
(***************************************************************************)
EXTENDS Integers, FiniteSets

CONSTANTS
    Jobs,          \* job ids
    Claims,        \* connections that claim, one transaction at a time each
    MaxAttempts,   \* max_attempts of every job
    LeaseDuration, \* in ticks
    TxTime         \* bound on the age of a claim, its waits for locks included

ASSUME ClaimTxAssumption ==
    /\ MaxAttempts \in Nat \ {0}
    /\ LeaseDuration \in Nat \ {0}
    /\ TxTime \in Nat

VARIABLES
    jobs,    \* jobs[j]: the committed row; ready is next_attempt_at while PENDING,
             \* lease_expires_at while RUNNING
    trail,   \* trail[j]: attempt_number -> committed outcome
    claims,  \* claims[c]: the transaction of connection c
    finals   \* finals[j]: the finalization that holds the row of job j

vars == <<jobs, trail, claims, finals>>

-------------------------------------------------------------------------------
NoRow == [status |-> "ABSENT", attempts |-> 0, ready |-> 0]

\* rows and marks: what the transaction wrote to jobs and job_attempts, and so
\* has locked; todo: the attempts its first statement has yet to visit.
NoClaim == [pc |-> "idle", age |-> 0, todo |-> {},
            rows |-> [j \in {} |-> NoRow], marks |-> [a \in {} |-> "OPEN"]]

\* A finalization: what it sets the status to, and the outcome of the attempt.
NoFinal == [status |-> "none", outcome |-> "none", ready |-> 0]

Verdicts == {[NoFinal EXCEPT !.status = "SUCCEEDED", !.outcome = "SUCCEEDED"],
             [NoFinal EXCEPT !.status = "PENDING", !.outcome = "RETRY_SCHEDULED"],
             [NoFinal EXCEPT !.status = "DEAD", !.outcome = "DEAD"]}

Init ==
    /\ jobs = [j \in Jobs |-> NoRow]
    /\ trail = [j \in Jobs |-> [n \in {} |-> "OPEN"]]
    /\ claims = [c \in Claims |-> NoClaim]
    /\ finals = [j \in Jobs |-> NoFinal]

RowLocked(j) == finals[j] # NoFinal \/ \E c \in Claims : j \in DOMAIN claims[c].rows

\* The other claims that have written attempt a.
MarkedBy(a, c) == {d \in Claims \ {c} : a \in DOMAIN claims[d].marks}

\* The row of j as a statement of c sees it.
Seen(c, j) == IF j \in DOMAIN claims[c].rows THEN claims[c].rows[j] ELSE jobs[j]

ReadyFor(c, row) == row.status \in {"PENDING", "RUNNING"} /\ row.ready <= -claims[c].age

ExpiredFor(c, row) == row.status = "RUNNING" /\ ReadyFor(c, row)

-------------------------------------------------------------------------------
(* One claim.                                                              *)

Begin(c) ==
    /\ claims[c].pc = "idle"
    /\ claims' = [claims EXCEPT ![c].pc = "begun"]
    /\ UNCHANGED <<jobs, trail, finals>>

\* Step 1 begins: its snapshot decides which attempts it will visit.
FindLost(c) ==
    /\ claims[c].pc = "begun"
    /\ claims' = [claims EXCEPT ![c].pc = "closing", ![c].todo =
          UNION {{<<j, n>> : n \in {m \in DOMAIN trail[j] : trail[j][m] = "OPEN"}} :
                    j \in {i \in Jobs : ExpiredFor(c, jobs[i])}}]
    /\ UNCHANGED <<jobs, trail, finals>>

\* Step 1 locks one attempt after the other, in no stated order, and waits for
\* whoever wrote it.  Then `outcome IS NULL` is checked again on the row found.
CloseLost(c, a) ==
    /\ claims[c].pc = "closing"
    /\ a \in claims[c].todo
    /\ MarkedBy(a, c) = {}
    /\ claims' = [claims EXCEPT ![c].todo = @ \ {a}, ![c].marks =
          IF trail[a[1]][a[2]] = "OPEN"
          THEN [b \in DOMAIN @ \cup {a} |-> IF b = a THEN "LEASE_LOST" ELSE @[b]]
          ELSE @]
    /\ UNCHANGED <<jobs, trail, finals>>

\* Mutant: FOR UPDATE without SKIP LOCKED.
AwaitLocked(candidates) == {j \in candidates : RowLocked(j)}

\* SKIP LOCKED: steps 2 and 3 wait for no row.
Awaited(candidates) == {}

Exhausted(c) ==
    {j \in Jobs : ExpiredFor(c, jobs[j]) /\ jobs[j].attempts >= MaxAttempts}

Exhaust(c) ==
    /\ claims[c].pc = "closing"
    /\ claims[c].todo = {}
    /\ Awaited(Exhausted(c)) = {}
    /\ LET dead == {j \in Exhausted(c) : ~RowLocked(j)} IN
       claims' = [claims EXCEPT ![c].pc = "exhausted", ![c].rows =
          [j \in dead |-> [jobs[j] EXCEPT !.status = "DEAD", !.ready = 0]]]
    /\ UNCHANGED <<jobs, trail, finals>>

\* Mutants: step 3 with clock_timestamp() instead of now(), and without
\* `lease_expires_at <= now()`.
DueByTheClock(c) ==
    {j \in Jobs : /\ Seen(c, j).attempts < MaxAttempts
                  /\ Seen(c, j).status \in {"PENDING", "RUNNING"}
                  /\ Seen(c, j).ready <= 0}
DueWhileLeased(c) ==
    {j \in Jobs : /\ Seen(c, j).attempts < MaxAttempts
                  /\ Seen(c, j).status = "RUNNING" \/ ReadyFor(c, Seen(c, j))}
DueFor(c) == {j \in Jobs : Seen(c, j).attempts < MaxAttempts /\ ReadyFor(c, Seen(c, j))}

\* Step 3 takes some due rows, as LIMIT and ORDER BY have it, and inserts their
\* attempts.  The lease runs from now(), the start of the transaction.
Take(c) ==
    /\ claims[c].pc = "exhausted"
    /\ Awaited(DueFor(c)) = {}
    /\ \E batch \in SUBSET {j \in DueFor(c) : ~RowLocked(j)} :
          LET old    == claims[c]
              new    == {<<j, jobs[j].attempts + 1>> : j \in batch}
              taken(j) == [status |-> "RUNNING", attempts |-> jobs[j].attempts + 1,
                           ready |-> LeaseDuration - old.age]
          IN  claims' = [claims EXCEPT ![c] = [old EXCEPT
                 !.pc = "taken",
                 !.rows = [j \in batch \cup DOMAIN old.rows |->
                              IF j \in batch THEN taken(j) ELSE old.rows[j]],
                 !.marks = [a \in new \cup DOMAIN old.marks |->
                              IF a \in new THEN "OPEN" ELSE old.marks[a]]]]
    /\ UNCHANGED <<jobs, trail, finals>>

Commit(c) ==
    /\ claims[c].pc = "taken"
    /\ jobs' = [j \in Jobs |-> Seen(c, j)]
    /\ trail' = [j \in Jobs |->
          LET marked == {n \in 1 .. MaxAttempts : <<j, n>> \in DOMAIN claims[c].marks} IN
          [n \in DOMAIN trail[j] \cup marked |->
              IF n \in marked THEN claims[c].marks[<<j, n>>] ELSE trail[j][n]]]
    /\ claims' = [claims EXCEPT ![c] = NoClaim]
    /\ UNCHANGED finals

\* A statement failed (PostgreSQL also breaks a deadlock this way), or the
\* connection was lost: nothing of the transaction remains.
Rollback(c) ==
    /\ claims[c].pc # "idle"
    /\ claims' = [claims EXCEPT ![c] = NoClaim]
    /\ UNCHANGED <<jobs, trail, finals>>

-------------------------------------------------------------------------------
(* What happens to the jobs meanwhile.                                     *)

InsertJob(j) ==
    /\ jobs[j].status = "ABSENT"
    /\ jobs' = [jobs EXCEPT ![j].status = "PENDING"]
    /\ UNCHANGED <<trail, claims, finals>>

\* The fenced UPDATE of jobs with which every finalization begins.  Stale
\* tokens match no row, so the current attempt is the only caller to consider.
BeginFinalize(j, verdict) ==
    /\ jobs[j].status = "RUNNING"
    /\ ~RowLocked(j)
    /\ finals' = [finals EXCEPT ![j] = verdict]
    /\ UNCHANGED <<jobs, trail, claims>>

\* Its UPDATE of job_attempts, which waits for a claim that wrote the row, and
\* its commit.  The outcome the row has by then does not matter.
EndFinalize(j) ==
    /\ finals[j] # NoFinal
    /\ \A c \in Claims : <<j, jobs[j].attempts>> \notin DOMAIN claims[c].marks
    /\ jobs' = [jobs EXCEPT ![j].status = finals[j].status, ![j].ready = finals[j].ready]
    /\ trail' = [trail EXCEPT ![j][jobs[j].attempts] = finals[j].outcome]
    /\ finals' = [finals EXCEPT ![j] = NoFinal]
    /\ UNCHANGED claims

AbortFinalize(j) ==
    /\ finals[j] # NoFinal
    /\ finals' = [finals EXCEPT ![j] = NoFinal]
    /\ UNCHANGED <<jobs, trail, claims>>

\* One statement, which may have waited `late` ticks for the row after its
\* now() was taken.  A heartbeat sends its renewals one after the other, so a
\* later one never shortens the lease.
RenewLease(j, late) ==
    /\ jobs[j].status = "RUNNING"
    /\ ~RowLocked(j)
    /\ LeaseDuration - late > jobs[j].ready
    /\ jobs' = [jobs EXCEPT ![j].ready = LeaseDuration - late]
    /\ UNCHANGED <<trail, claims, finals>>

\* Times run down to -TxTime, beyond which no transaction can tell them apart.
Older(row) ==
    IF row.status \in {"PENDING", "RUNNING"} /\ row.ready > -TxTime
    THEN [row EXCEPT !.ready = @ - 1] ELSE row

Tick ==
    /\ \A c \in Claims : claims[c].pc # "idle" => claims[c].age < TxTime
    /\ jobs' = [j \in Jobs |-> Older(jobs[j])]
    /\ finals' = [j \in Jobs |-> Older(finals[j])]
    /\ claims' = [c \in Claims |->
          IF claims[c].pc = "idle" THEN NoClaim
          ELSE [claims[c] EXCEPT !.age = @ + 1, !.rows = [j \in DOMAIN @ |-> Older(@[j])]]]
    /\ UNCHANGED trail

Next ==
    \/ \E c \in Claims :
          \/ Begin(c) \/ FindLost(c) \/ Exhaust(c) \/ Take(c) \/ Commit(c) \/ Rollback(c)
          \/ \E a \in claims[c].todo : CloseLost(c, a)
    \/ \E j \in Jobs :
          \/ InsertJob(j)
          \/ \E verdict \in Verdicts : BeginFinalize(j, verdict)
          \/ EndFinalize(j) \/ AbortFinalize(j)
          \/ \E late \in 0 .. TxTime : RenewLease(j, late)
    \/ Tick

Spec == Init /\ [][Next]_vars

-------------------------------------------------------------------------------
(* Properties.                                                             *)

\* How the attempts of a job ended, as in JobStore!Ending.
Ending(j, n) ==
    IF jobs[j].status = "RUNNING" /\ n = jobs[j].attempts THEN "RUNNING" ELSE trail[j][n]

Lives ==
    [j \in Jobs |->
        [status |-> jobs[j].status, attempts |-> jobs[j].attempts,
         endings |-> [n \in 1 .. jobs[j].attempts |-> Ending(j, n)]]]

Lifecycle == INSTANCE JobLifecycle WITH life <- Lives

\* Taken apart into its statements, with other transactions in between, a claim
\* still makes each job take a legal transition of DESIGN.md sec. 3 or none.
StatementsImplementLifecycle == Lifecycle!Spec

\* What the comment on step 1 says: an attempt whose lease ran out is closed
\* before the job goes on.  No attempt but the newest of its job is ever open.
SupersededIsClosed ==
    \A j \in Jobs : \A n \in DOMAIN trail[j] :
        n < jobs[j].attempts => trail[j][n] # "OPEN"

\* The claims connection c is stuck behind: its first statement has only
\* attempts left that they have written.
Blocking(c) ==
    IF claims[c].pc = "closing" /\ \A a \in claims[c].todo : MarkedBy(a, c) # {}
    THEN UNION {MarkedBy(a, c) : a \in claims[c].todo}
    ELSE {}

\* The rows claim c would next lock in jobs.
Candidates(c) ==
    CASE claims[c].pc = "closing" /\ claims[c].todo = {} -> Exhausted(c)
      [] claims[c].pc = "exhausted" -> DueFor(c)
      [] OTHER -> {}

\* The claims the finalization of j waits for: those that wrote its attempt, and
\* the claims those are stuck behind.
Ahead(j) ==
    LET writers  == {c \in Claims : <<j, jobs[j].attempts>> \in DOMAIN claims[c].marks}
        chain[n \in Nat] ==
            IF n = 0 THEN writers
            ELSE LET near == chain[n - 1] IN near \cup UNION {Blocking(c) : c \in near}
    IN  chain[Cardinality(Claims)]

\* A claim locks attempts first and jobs second, a finalization the other way
\* round.  Still no finalization is ever part of a deadlock, nor its victim: no
\* claim it waits for, however indirectly, waits for its row.
FinalizeNeverDeadlocks ==
    \A j \in Jobs : finals[j] # NoFinal =>
        \A c \in Ahead(j) : j \notin Awaited(Candidates(c))

===============================================================================
