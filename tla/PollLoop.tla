------------------------------- MODULE PollLoop -------------------------------
(***************************************************************************)
(* One worker process: the claim / execute / shutdown loop of              *)
(* crates/reliableq-worker/src/poll.rs, the tasks it spawns for a batch    *)
(* (spawn_bounded_batch), the semaphore they share, and the end of the     *)
(* process in main.rs.  What a task does to its job is in ReliableQ; here  *)
(* it waits for a permit, runs, and ends or hangs.                         *)
(*                                                                         *)
(* tokio::select! polls its branches in random order and takes the first   *)
(* that is ready: when several are, either may be taken.                   *)
(***************************************************************************)
EXTENDS Integers, FiniteSets

CONSTANTS
    Concurrency,     \* WORKER_CONCURRENCY: permits of the semaphore
    ClaimBatchMax,   \* CLAIM_BATCH_MAX
    Grace            \* WORKER_SHUTDOWN_GRACE_SECS, in ticks

ASSUME LoopAssumption ==
    /\ Concurrency \in Nat \ {0}
    /\ ClaimBatchMax \in Nat \ {0}
    /\ Grace \in Nat

VARIABLES
    pc,          \* where run_worker_loop is
    shutdown,    \* has the shutdown future resolved?
    batchSize,   \* the size the claim under way was asked for
    tasks,       \* the tasks of the current batch
    permits,     \* semaphore.available_permits()
    grace        \* what is left of the grace period

vars == <<pc, shutdown, batchSize, tasks, permits, grace>>

-------------------------------------------------------------------------------
\* A batch never needs more slots than there are permits.
Slots == 1 .. Concurrency

\* "none": no task in this slot; then waiting for a permit, executing, finished;
\* "cancelled": dropped unfinished when the process ended.
TaskStates == {"none", "spawned", "running", "finished", "cancelled"}

In(state) == {t \in Slots : tasks[t] = state}

Unfinished == In("spawned") \cup In("running")

Smaller(a, b) == IF a < b THEN a ELSE b

Init ==
    /\ pc = "top"
    /\ shutdown = FALSE
    /\ batchSize = 0
    /\ tasks = [t \in Slots |-> "none"]
    /\ permits = Concurrency
    /\ grace = Grace

-------------------------------------------------------------------------------
\* SIGINT or SIGTERM.
Signal ==
    /\ ~shutdown
    /\ pc # "exited"
    /\ shutdown' = TRUE
    /\ UNCHANGED <<pc, batchSize, tasks, permits, grace>>

\* The top of the loop: size the batch and start the claim.  Neither looks at
\* the shutdown future.  (With no permit available the loop would sleep 50 ms
\* here; TopIsIdle says that never happens.)
StartClaim ==
    /\ pc = "top"
    /\ permits > 0
    /\ batchSize' = Smaller(permits, ClaimBatchMax)
    /\ pc' = "claiming"
    /\ UNCHANGED <<shutdown, tasks, permits, grace>>

\* The claim returns nothing, or failed.  The select that follows starts a
\* fresh sleep, so a shutdown that already fired wins at once.
ClaimNothing ==
    /\ pc = "claiming"
    /\ pc' = IF shutdown THEN "stopped" ELSE "idle"
    /\ UNCHANGED <<shutdown, batchSize, tasks, permits, grace>>

ClaimBatch ==
    /\ pc = "claiming"
    /\ \E n \in 1 .. batchSize :
          tasks' = [t \in Slots |-> IF t <= n THEN "spawned" ELSE "none"]
    /\ pc' = "batch"
    /\ UNCHANGED <<shutdown, batchSize, permits, grace>>

\* The idle sleep is over; the shutdown may have fired during it as well.
IdleElapsed ==
    /\ pc = "idle"
    /\ pc' = "top"
    /\ UNCHANGED <<shutdown, batchSize, tasks, permits, grace>>

\* Mutant: the batch spawned and not awaited.
BatchNotAwaited ==
    /\ pc = "batch"
    /\ pc' = "top"
    /\ UNCHANGED <<shutdown, batchSize, tasks, permits, grace>>

\* Every task of the batch was joined: back to the top, also with a shutdown
\* that fired in the meantime.
BatchDone ==
    /\ pc = "batch"
    /\ Unfinished = {}
    /\ pc' = "top"
    /\ UNCHANGED <<shutdown, batchSize, tasks, permits, grace>>

ObserveShutdown ==
    /\ shutdown
    /\ \/ pc = "idle" /\ pc' = "stopped"
       \/ pc = "batch" /\ pc' = "draining"
    /\ UNCHANGED <<shutdown, batchSize, tasks, permits, grace>>

\* timeout(shutdown_grace, &mut batch) polls the batch first.
DrainDone ==
    /\ pc = "draining"
    /\ Unfinished = {}
    /\ pc' = "stopped"
    /\ UNCHANGED <<shutdown, batchSize, tasks, permits, grace>>

GraceTick ==
    /\ pc = "draining"
    /\ grace > 0
    /\ grace' = grace - 1
    /\ UNCHANGED <<pc, shutdown, batchSize, tasks, permits>>

\* Mutant: the batch awaited without a timeout.
NoGraceTimeout == FALSE /\ UNCHANGED vars

GraceElapsed ==
    /\ pc = "draining"
    /\ grace = 0
    /\ Unfinished # {}
    /\ pc' = "stopped"
    /\ UNCHANGED <<shutdown, batchSize, tasks, permits, grace>>

\* main returns and the runtime drops the tasks still there.
Exit ==
    /\ pc = "stopped"
    /\ pc' = "exited"
    /\ tasks' = [t \in Slots |-> IF t \in Unfinished THEN "cancelled" ELSE tasks[t]]
    /\ UNCHANGED <<shutdown, batchSize, permits, grace>>

\* Mutant: the permit dropped as soon as it was acquired (`let _ = ...`).
AcquireAndDrop(t) ==
    /\ tasks[t] = "spawned"
    /\ permits > 0
    /\ tasks' = [tasks EXCEPT ![t] = "running"]
    /\ UNCHANGED <<pc, shutdown, batchSize, permits, grace>>

\* The permit is taken inside the task, some time after it was spawned.
AcquirePermit(t) ==
    /\ tasks[t] = "spawned"
    /\ permits > 0
    /\ tasks' = [tasks EXCEPT ![t] = "running"]
    /\ permits' = permits - 1
    /\ UNCHANGED <<pc, shutdown, batchSize, grace>>

\* The permit is dropped with the task's future, so before the join sees it end.
FinishTask(t) ==
    /\ tasks[t] = "running"
    /\ tasks' = [tasks EXCEPT ![t] = "finished"]
    /\ permits' = permits + 1
    /\ UNCHANGED <<pc, shutdown, batchSize, grace>>

Next ==
    \/ Signal
    \/ StartClaim \/ ClaimNothing \/ ClaimBatch
    \/ IdleElapsed \/ BatchDone
    \/ ObserveShutdown \/ DrainDone \/ GraceTick \/ GraceElapsed
    \/ Exit
    \/ \E t \in Slots : AcquirePermit(t) \/ FinishTask(t)

Spec == Init /\ [][Next]_vars

\* The runtime polls the loop; claims return; timers fire; and a select that
\* finds the shutdown ready again and again does not for ever pick the other
\* branch.  Tasks are not fair: a charge call may hang for any length of time.
Fairness ==
    /\ WF_vars(StartClaim)
    /\ WF_vars(ClaimNothing \/ ClaimBatch)
    /\ WF_vars(IdleElapsed)
    /\ WF_vars(BatchDone)
    /\ SF_vars(ObserveShutdown)
    /\ WF_vars(DrainDone \/ GraceElapsed)
    /\ WF_vars(GraceTick)
    /\ WF_vars(Exit)

FairSpec == Spec /\ Fairness

-------------------------------------------------------------------------------
(* Properties.                                                             *)

TypeOK ==
    /\ pc \in {"top", "claiming", "idle", "batch", "draining", "stopped", "exited"}
    /\ shutdown \in BOOLEAN
    /\ batchSize \in 0 .. Smaller(Concurrency, ClaimBatchMax)
    /\ tasks \in [Slots -> TaskStates]
    /\ permits \in 0 .. Concurrency
    /\ grace \in 0 .. Grace

\* Guarantee 8: a permit is held by exactly the tasks that execute, so at most
\* Concurrency of them do.
PermitsMatchTasks ==
    pc # "exited" => permits + Cardinality(In("running")) = Concurrency

\* The loop claims only with every earlier task joined: all permits are free,
\* no claimed job is still waiting for one, and the "no permit" sleep is dead
\* code.  Claimed jobs are therefore never more than the permits.
TopIsIdle ==
    pc \in {"top", "claiming", "idle"} =>
        Unfinished = {} /\ permits = Concurrency /\ batchSize <= Concurrency

\* Work is abandoned only when the whole grace period has passed.
AbandonedOnlyAfterGrace ==
    pc \in {"stopped", "exited"} /\ Unfinished \cup In("cancelled") # {} => grace = 0

\* The process ends once it was told to, even if its tasks hang.
ShutdownTerminates == shutdown ~> pc = "exited"

===============================================================================
