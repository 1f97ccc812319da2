-------------------------------- MODULE BenchRun --------------------------------
(***************************************************************************)
(* The runs of reliableq-bench (crates/reliableq-bench/src/scenarios): a   *)
(* harness that starts the real processes, preloads jobs, waits for the    *)
(* queue to drain, asks the correctness gate, writes a result and stops    *)
(* what it started - beside workers that claim, fail, retry and outlive    *)
(* their leases as they please.  A scenario is the sequence of its steps;  *)
(* a step that fails ends the invocation (`?`), and the next invocation    *)
(* starts over.                                                            *)
(*                                                                         *)
(* A job is what the harness sees of it: its status and its attempts; the  *)
(* attempt that runs is the lease.                                         *)
(***************************************************************************)
EXTENDS Integers, Sequences, FiniteSets, Gate

CONSTANTS
    Preload,      \* the jobs a run measures
    WarmUp,       \* the jobs of its warm-up
    Concurrency,  \* WORKER_CONCURRENCY of each worker
    Budget,       \* max_attempts
    Sequel        \* bound on the runs: the scenarios that may follow a scenario

Jobs == Preload \cup WarmUp

NoOne == "no-one"
Scenarios == {"ingestion", "execution", "scaling", "claim_batch", "retry_degradation",
              "backlog", "real_kill"}

ASSUME BenchAssumption ==
    /\ Preload \cap WarmUp = {}
    /\ IsFiniteSet(Preload) /\ IsFiniteSet(WarmUp)
    /\ Concurrency \in Nat \ {0} /\ Budget \in Nat \ {0}
    /\ Sequel \subseteq ({NoOne} \cup Scenarios) \X Scenarios

Begin == <<"reset", "service">>
End   == <<"gate", "stop">>

Ingestion == Begin \o <<"api", "submit-warm-up", "submit">> \o End
Execution ==
    Begin \o <<"api", "control", "submit-warm-up", "warm-up-worker", "drain-warm-up",
               "stop-warm-up-worker", "submit", "reset-peak", "worker-1", "drain", "peak">> \o End
Scaling ==
    Begin \o <<"api", "control", "submit-warm-up", "submit", "reset-peak",
               "worker-1", "worker-2", "drain", "peak">> \o End
ClaimBatch == Begin \o <<"insert", "drive">> \o End
RetryDegradation ==
    Begin \o <<"api", "control", "submit", "worker-1", "drain", "peak">> \o End
Backlog == Begin \o <<"api", "submit", "worker-1", "drain">> \o End
RealKill ==
    Begin \o <<"api", "control", "submit", "worker-1", "kill-worker-1", "control",
               "worker-2", "drain">> \o End

Script(s) ==
    CASE s = "ingestion"         -> Ingestion
      [] s = "execution"         -> Execution
      [] s = "scaling"           -> Scaling
      [] s = "claim_batch"       -> ClaimBatch
      [] s = "retry_degradation" -> RetryDegradation
      [] s = "backlog"           -> Backlog
      [] s = "real_kill"         -> RealKill

\* worker_process_count * worker_concurrency, where a scenario passes it.
Capacity(s) ==
    CASE s \in {"execution", "retry_degradation", "backlog"} -> Concurrency
      [] s = "scaling" -> 2 * Concurrency
      [] OTHER -> Unknown

VARIABLES
    run,        \* the runs begun so far
    scenario,   \* that of the current one
    left,       \* its remaining steps; none when no harness is at work
    up,         \* the processes running
    owned,      \* those the harness holds a ManagedProcess of
    jobs,       \* the rows of jobs
    tracked,    \* the ids the harness got with a 202
    tasks,      \* the tasks of the workers
    requests,   \* the requests the charge service is working on
    peak,       \* its peak_inflight
    seen,       \* what the harness read of it
    stray,      \* ghost: the requests it was working on when the peak was reset
    drained,    \* what the last wait_for_drain said
    orphans,    \* ghost: the processes a signal to the harness left running
    results     \* the results written

harness == <<run, scenario, left, up, owned, tracked, seen, stray, drained, orphans, results>>
world == <<jobs, tasks, requests, peak>>
vars == <<harness, world>>

NoRow == [status |-> "absent", attempts |-> 0]

Init ==
    /\ run = 0 /\ scenario = NoOne /\ left = <<>>
    /\ up = {} /\ owned = {}
    /\ jobs = [j \in Jobs |-> NoRow] /\ tracked = {}
    /\ tasks = {} /\ requests = {} /\ peak = 0
    /\ seen = Unknown /\ stray = {} /\ drained = FALSE
    /\ orphans = {} /\ results = {}

-------------------------------------------------------------------------------
(* The workers and the charge service.                                     *)

IsWorker(p) == p.name \notin {"service", "api"}

Serving(name) == \E p \in up : p.name = name

\* Mutant: a permit too many.
HasPermitOffByOne(p) == Cardinality({t \in tasks : t.by = p}) <= Concurrency

HasPermit(p) == Cardinality({t \in tasks : t.by = p}) < Concurrency

Works(request) ==
    /\ requests' = request
    /\ peak' = IF Cardinality(request) > peak THEN Cardinality(request) ELSE peak

\* A due job, or one whose lease ran out.  The request of its task is on its way
\* at once.
WorkerClaim(p, j) ==
    LET t == [by |-> p, job |-> j, run |-> run, attempt |-> jobs[j].attempts + 1] IN
    /\ p \in up /\ IsWorker(p) /\ HasPermit(p)
    /\ jobs[j].status \in {"due", "running"} /\ jobs[j].attempts < Budget
    /\ jobs' = [jobs EXCEPT ![j] = [status |-> "running", attempts |-> t.attempt]]
    /\ tasks' = tasks \cup {t}
    /\ Works(IF Serving("service") THEN requests \cup {t} ELSE requests)
    /\ UNCHANGED harness

\* A lease that ran out with the budget spent.
WorkerBuries(j) ==
    /\ \E p \in up : IsWorker(p)
    /\ jobs[j].status = "running" /\ jobs[j].attempts = Budget
    /\ jobs' = [jobs EXCEPT ![j] = [@ EXCEPT !.status = "terminal"]]
    /\ UNCHANGED <<harness, tasks, requests, peak>>

\* How an attempt may leave its job.
Outcomes(attempt) == {"terminal"} \cup (IF attempt < Budget THEN {"waiting"} ELSE {})

\* The lease of task t is still the job's.
Holds(t) ==
    t.run = run /\ jobs[t.job].status = "running" /\ jobs[t.job].attempts = t.attempt

\* The task got its answer and finalizes, if the lease is still its own.
TaskEnds(t) ==
    /\ t \in tasks
    /\ tasks' = tasks \ {t}
    /\ requests' = requests \ {t}
    /\ IF Holds(t)
       THEN \E status \in Outcomes(t.attempt) : jobs' = [jobs EXCEPT ![t.job].status = status]
       ELSE jobs' = jobs
    /\ UNCHANGED <<harness, peak>>

Ripen(j) ==
    /\ jobs[j].status = "waiting"
    /\ jobs' = [jobs EXCEPT ![j].status = "due"]
    /\ UNCHANGED <<harness, tasks, requests, peak>>

\* The service notices that nobody waits for a request any more.
RequestEnds(t) ==
    /\ t \in requests \ tasks
    /\ requests' = requests \ {t}
    /\ UNCHANGED <<harness, jobs, tasks, peak>>

-------------------------------------------------------------------------------
(* The harness.                                                            *)

AtStep(step) == left # <<>> /\ Head(left) = step

Advance == left' = Tail(left) /\ UNCHANGED <<run, scenario>>

\* The end of some processes: the tasks die with their workers, the requests with
\* the service.
EndProcesses(gone) ==
    /\ up' = up \ gone
    /\ owned' = owned \ gone
    /\ tasks' = {t \in tasks : t.by \notin gone}
    /\ requests' = IF \E p \in gone : p.name = "service" THEN {} ELSE requests
    /\ UNCHANGED <<jobs, peak>>

BeginRun(s) ==
    /\ left = <<>> /\ <<scenario, s>> \in Sequel
    /\ run' = run + 1
    /\ scenario' = s
    /\ left' = Script(s)
    /\ tracked' = {} /\ seen' = Unknown /\ stray' = {} /\ drained' = FALSE
    /\ UNCHANGED <<up, owned, orphans, results, world>>

\* TRUNCATE job_attempts, charges, jobs.
ResetDatabase ==
    /\ AtStep("reset") /\ Advance
    /\ jobs' = [j \in Jobs |-> NoRow]
    /\ UNCHANGED <<up, owned, tracked, seen, stray, drained, orphans, results, tasks, requests, peak>>

\* A second service or api cannot bind its port and exits, while the one that
\* has it answers the readiness check; a second worker runs without /metrics.
Spawn(name) ==
    LET p == [name |-> name, run |-> run] IN
    /\ AtStep(name) /\ Advance
    /\ IF ~IsWorker(p) /\ Serving(name)
       THEN UNCHANGED <<up, owned, peak>>
       ELSE /\ up' = up \cup {p}
            /\ owned' = owned \cup {p}
            /\ peak' = IF name = "service" THEN 0 ELSE peak
    /\ UNCHANGED <<tracked, seen, stray, drained, orphans, results, jobs, tasks, requests>>

\* submit_many: each job is accepted and answered, accepted with the answer
\* lost, or not accepted.  Only an answer is tracked.
Submit(step, batch) ==
    /\ AtStep(step) /\ Advance
    /\ Serving("api")
    /\ \E landed \in SUBSET batch :
          /\ jobs' = [j \in Jobs |-> IF j \in landed THEN [NoRow EXCEPT !.status = "due"] ELSE jobs[j]]
          /\ \E answered \in SUBSET landed : tracked' = IF step = "submit" THEN answered ELSE tracked
    /\ UNCHANGED <<up, owned, seen, stray, drained, orphans, results, tasks, requests, peak>>

\* insert_job, one by one.
InsertDirectly ==
    /\ AtStep("insert") /\ Advance
    /\ jobs' = [j \in Jobs |-> IF j \in Preload THEN [NoRow EXCEPT !.status = "due"] ELSE jobs[j]]
    /\ tracked' = Preload
    /\ UNCHANGED <<up, owned, seen, stray, drained, orphans, results, tasks, requests, peak>>

\* The driver of claim_batch is the only worker: claim, execute each, finalize
\* (or fail to, and leave the job to its lease), until nothing is due.
DriveOne(j) ==
    /\ AtStep("drive")
    /\ jobs[j].status = "due" /\ jobs[j].attempts < Budget
    /\ \E status \in Outcomes(jobs[j].attempts + 1) \cup {"running"} :
          jobs' = [jobs EXCEPT ![j] = [status |-> status, attempts |-> @.attempts + 1]]
    /\ UNCHANGED <<harness, tasks, requests, peak>>

DriveEnds ==
    /\ AtStep("drive") /\ Advance
    /\ \A j \in Jobs : jobs[j].status # "due"
    /\ UNCHANGED <<up, owned, tracked, seen, stray, drained, orphans, results, world>>

\* Mutant: what can be claimed now.
DueOnly == Cardinality({j \in Jobs : jobs[j].status = "due"})

QueueDepth == Cardinality({j \in Jobs : jobs[j].status \in {"waiting", "due", "running"}})

\* Mutant: a wait with no deadline.
WaitForEver(answer) == answer = (QueueDepth = 0) /\ answer

\* Polls until the depth is zero, or gives up.
WaitForDrain(answer) == answer = (QueueDepth = 0)

\* What the warm-up's wait says is ignored.
Drain(step) ==
    /\ AtStep(step) /\ Advance
    /\ \E answer \in BOOLEAN :
          WaitForDrain(answer) /\ drained' = IF step = "drain" THEN answer ELSE drained
    /\ UNCHANGED <<up, owned, tracked, seen, stray, orphans, results, world>>

\* A call of the service's test control: a mode, or the peak set to 0 whatever is
\* in flight, or the peak read (a failure to read it is none).
Control ==
    /\ AtStep("control") /\ Serving("service") /\ Advance
    /\ UNCHANGED <<up, owned, tracked, seen, stray, drained, orphans, results, world>>

ResetPeak ==
    /\ AtStep("reset-peak") /\ Serving("service") /\ Advance
    /\ peak' = 0
    /\ stray' = requests
    /\ UNCHANGED <<up, owned, tracked, seen, drained, orphans, results, jobs, tasks, requests>>

ReadPeak ==
    /\ AtStep("peak") /\ Advance
    /\ seen' \in {Unknown} \cup (IF Serving("service") THEN {peak} ELSE {})
    /\ UNCHANGED <<up, owned, tracked, stray, drained, orphans, results, world>>

Terminal == {j \in Jobs : jobs[j].status = "terminal"}

Evidence ==
    [tracked |-> tracked, found |-> {j \in tracked : jobs[j].status # "absent"},
     terminal |-> Terminal,
     expect_all_terminal |-> IF scenario = "claim_batch" THEN TRUE ELSE drained,
     over_budget |-> {j \in tracked : jobs[j].attempts > Budget},
     charged_twice |-> {}, succeeded_twice |-> {},
     capacity |-> Capacity(scenario), peak |-> seen]

\* run_gate, RunResult::base and write.  unfinished: a ghost, for the reader of
\* the result.
WriteResult ==
    /\ AtStep("gate") /\ Advance
    /\ results' = results \cup
          {[run |-> run, scenario |-> scenario, drained |-> drained,
            passed |-> Passed(Evidence), unfinished |-> tracked \ Terminal,
            crowded |-> ~WithinCapacity(Evidence), stray |-> stray,
            haunted |-> orphans # {}]}
    /\ UNCHANGED <<up, owned, tracked, seen, stray, drained, orphans, world>>

\* kill -9, or SIGTERM and then, at the latest, kill -9.
StopStep(step) ==
    CASE step = "stop" -> owned
      [] step = "stop-warm-up-worker" -> {p \in owned : p.name = "warm-up-worker"}
      [] step = "kill-worker-1"       -> {p \in owned : p.name = "worker-1"}

Stop(step) ==
    /\ AtStep(step) /\ Advance
    /\ EndProcesses(StopStep(step))
    /\ UNCHANGED <<tracked, seen, stray, drained, orphans, results>>

\* Mutant: without kill_on_drop.
LeaveBehind ==
    /\ left # <<>>
    /\ left' = <<>>
    /\ owned' = {}
    /\ UNCHANGED <<run, scenario, up, tracked, seen, stray, drained, orphans, results, world>>

\* Any step may fail: `?` all the way to main, and kill_on_drop on the way.
Abort ==
    /\ left # <<>>
    /\ left' = <<>>
    /\ EndProcesses(owned)
    /\ UNCHANGED <<run, scenario, tracked, seen, stray, drained, orphans, results>>

\* SIGTERM to the harness.  It handles no signal: nothing is dropped.
Interrupt ==
    /\ left # <<>>
    /\ left' = <<>>
    /\ owned' = {}
    /\ orphans' = orphans \cup owned
    /\ UNCHANGED <<run, scenario, up, tracked, seen, stray, drained, results, world>>

Step ==
    \/ ResetDatabase
    \/ \E name \in {"service", "api", "warm-up-worker", "worker-1", "worker-2"} : Spawn(name)
    \/ Submit("submit-warm-up", WarmUp)
    \/ Submit("submit", Preload)
    \/ InsertDirectly
    \/ \E j \in Jobs : DriveOne(j)
    \/ DriveEnds
    \/ \E step \in {"drain-warm-up", "drain"} : Drain(step)
    \/ Control
    \/ ResetPeak
    \/ ReadPeak
    \/ WriteResult
    \/ \E step \in {"stop", "stop-warm-up-worker", "kill-worker-1"} : Stop(step)

Next ==
    \/ \E s \in {sequel[2] : sequel \in Sequel} : BeginRun(s)
    \/ Step
    \/ Abort
    \/ Interrupt
    \/ \E p \in up, j \in Jobs : WorkerClaim(p, j)
    \/ \E j \in Jobs : WorkerBuries(j) \/ Ripen(j)
    \/ \E t \in tasks : TaskEnds(t)
    \/ \E t \in requests : RequestEnds(t)

Spec == Init /\ [][Next]_vars

\* The harness goes on; nothing is asked of the workers.
FairSpec == Spec /\ WF_vars(Step)

-------------------------------------------------------------------------------
\* A drained run finished every job it counts in its throughput, whatever the
\* warm-up left behind and however its workers died.
DrainedMeansDone == \A r \in results : r.drained => r.unfinished = {}

\* Workers never exceed the capacity the gate allows them, reclaims and all: it
\* fails a run for that only if the service was still at work for the warm-up
\* when the peak was reset, or if a harness ended by a signal left workers that
\* serve this run's queue as well.
NeverCrowded == \A r \in results : r.stray = {} /\ ~r.haunted => ~r.crowded

\* When no harness is at work nothing it started is, whatever step failed: only
\* what a signal to the harness orphaned is left to meddle with the next run.
NothingSurvives == left = <<>> => up \subseteq orphans

\* A run comes to its end, whatever its workers do or fail to do.
RunsEnd == []<>(left = <<>>)

===============================================================================
