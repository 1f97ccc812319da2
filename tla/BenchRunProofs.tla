----------------------------- MODULE BenchRunProofs -----------------------------
(***************************************************************************)
(* Proofs about the runs of reliableq-bench (BenchRun): nothing the        *)
(* harness started outlives it but what a signal to it orphaned; a run     *)
(* that drained finished every job it counts; and workers stay within the  *)
(* capacity the gate allows them.                                          *)
(*                                                                         *)
(* A scenario is a fixed sequence of steps, so what may still come is the  *)
(* suffix that is left. Orderly says of a sequence which steps never come  *)
(* after which, and which always do; it holds of every script and of       *)
(* every suffix of one (Scripts, AfterStep), and the invariants say what   *)
(* holds while a step is, or is no longer, Ahead.                          *)
(***************************************************************************)
EXTENDS BenchRun, FiniteSetTheorems, TLAPS

-------------------------------------------------------------------------------
(* The scripts.                                                            *)

Steps ==
    {"reset", "service", "api", "control", "submit-warm-up", "warm-up-worker",
     "drain-warm-up", "stop-warm-up-worker", "submit", "insert", "drive", "reset-peak",
     "worker-1", "kill-worker-1", "worker-2", "drain", "peak", "gate", "stop"}

\* The scenarios that ask how many requests were in flight.
Measured == {"execution", "scaling", "retry_degradation"}

\* Which steps of a scenario come after which.
Orderly(steps, s) ==
    /\ \A i, k \in 1 .. Len(steps) : i < k =>
          /\ steps[k] # "reset"
          /\ steps[k] = "service" => steps[i] = "reset"
          /\ steps[i] = "drain" => steps[k] \in {"peak", "gate", "stop"}
          /\ steps[i] = "peak" => steps[k] \in {"gate", "stop"}
          /\ steps[i] \in {"worker-1", "worker-2"} => steps[k] # "reset-peak"
          /\ steps[i] # "stop"
    /\ \A i \in 1 .. Len(steps) :
          LET Later(step) == \E k \in 1 .. Len(steps) : i < k /\ steps[k] = step IN
          /\ steps[i] = "warm-up-worker" => Later("stop-warm-up-worker")
          /\ steps[i] = "stop-warm-up-worker" => Later("reset-peak")
          /\ steps[i] = "reset" /\ s \in Measured => Later("service")
          /\ steps[i] = "service" /\ s \in {"execution", "scaling"} => Later("reset-peak")
          /\ steps[i] = "worker-2" => s \in {"scaling", "real_kill"}
          /\ steps[i] = "kill-worker-1" => s = "real_kill"
          /\ steps[i] = "peak" => s \in Measured
    /\ steps # <<>> => steps[Len(steps)] = "stop"

LEMMA Scripts ==
    ASSUME NEW s \in Scenarios
    PROVE  Script(s) \in Seq(Steps) /\ Script(s) # <<>> /\ Orderly(Script(s), s)
           /\ Len(Script(s)) >= 1 /\ Script(s)[1] = "reset"
<1>1. CASE s = "ingestion"
  <2>1. Script(s) = Ingestion  BY <1>1 DEF Script
  <2>2. Ingestion \in Seq(Steps) /\ Ingestion # <<>>  BY DEF Ingestion, Begin, End, Steps
  <2>3. Orderly(Ingestion, "ingestion")  BY DEF Ingestion, Begin, End, Orderly, Measured
  <2>4. Len(Ingestion) >= 1 /\ Ingestion[1] = "reset"  BY DEF Ingestion, Begin, End
  <2>5. QED  BY <1>1, <2>1, <2>2, <2>3, <2>4
<1>2. CASE s = "execution"
  <2>1. Script(s) = Execution  BY <1>2 DEF Script
  <2>2. Execution \in Seq(Steps) /\ Execution # <<>>  BY DEF Execution, Begin, End, Steps
  <2>3. Orderly(Execution, "execution")  BY DEF Execution, Begin, End, Orderly, Measured
  <2>4. Len(Execution) >= 1 /\ Execution[1] = "reset"  BY DEF Execution, Begin, End
  <2>5. QED  BY <1>2, <2>1, <2>2, <2>3, <2>4
<1>3. CASE s = "scaling"
  <2>1. Script(s) = Scaling  BY <1>3 DEF Script
  <2>2. Scaling \in Seq(Steps) /\ Scaling # <<>>  BY DEF Scaling, Begin, End, Steps
  <2>3. Orderly(Scaling, "scaling")  BY DEF Scaling, Begin, End, Orderly, Measured
  <2>4. Len(Scaling) >= 1 /\ Scaling[1] = "reset"  BY DEF Scaling, Begin, End
  <2>5. QED  BY <1>3, <2>1, <2>2, <2>3, <2>4
<1>4. CASE s = "claim_batch"
  <2>1. Script(s) = ClaimBatch  BY <1>4 DEF Script
  <2>2. ClaimBatch \in Seq(Steps) /\ ClaimBatch # <<>>  BY DEF ClaimBatch, Begin, End, Steps
  <2>3. Orderly(ClaimBatch, "claim_batch")  BY DEF ClaimBatch, Begin, End, Orderly, Measured
  <2>4. Len(ClaimBatch) >= 1 /\ ClaimBatch[1] = "reset"  BY DEF ClaimBatch, Begin, End
  <2>5. QED  BY <1>4, <2>1, <2>2, <2>3, <2>4
<1>5. CASE s = "retry_degradation"
  <2>1. Script(s) = RetryDegradation  BY <1>5 DEF Script
  <2>2. RetryDegradation \in Seq(Steps) /\ RetryDegradation # <<>>
    BY DEF RetryDegradation, Begin, End, Steps
  <2>3. Orderly(RetryDegradation, "retry_degradation")
    BY DEF RetryDegradation, Begin, End, Orderly, Measured
  <2>4. Len(RetryDegradation) >= 1 /\ RetryDegradation[1] = "reset"  BY DEF RetryDegradation, Begin, End
  <2>5. QED  BY <1>5, <2>1, <2>2, <2>3, <2>4
<1>6. CASE s = "backlog"
  <2>1. Script(s) = Backlog  BY <1>6 DEF Script
  <2>2. Backlog \in Seq(Steps) /\ Backlog # <<>>  BY DEF Backlog, Begin, End, Steps
  <2>3. Orderly(Backlog, "backlog")  BY DEF Backlog, Begin, End, Orderly, Measured
  <2>4. Len(Backlog) >= 1 /\ Backlog[1] = "reset"  BY DEF Backlog, Begin, End
  <2>5. QED  BY <1>6, <2>1, <2>2, <2>3, <2>4
<1>7. CASE s = "real_kill"
  <2>1. Script(s) = RealKill  BY <1>7 DEF Script
  <2>2. RealKill \in Seq(Steps) /\ RealKill # <<>>  BY DEF RealKill, Begin, End, Steps
  <2>3. Orderly(RealKill, "real_kill")  BY DEF RealKill, Begin, End, Orderly, Measured
  <2>4. Len(RealKill) >= 1 /\ RealKill[1] = "reset"  BY DEF RealKill, Begin, End
  <2>5. QED  BY <1>7, <2>1, <2>2, <2>3, <2>4
<1>8. QED  BY <1>1, <1>2, <1>3, <1>4, <1>5, <1>6, <1>7 DEF Scenarios

-------------------------------------------------------------------------------
(* What is left of a script.                                               *)

Ahead(step) == \E k \in 1 .. Len(left) : left[k] = step

ScriptInv ==
    /\ left \in Seq(Steps)
    /\ left # <<>> => scenario \in Scenarios
    /\ Orderly(left, scenario)

LEMMA AtStepIsAhead ==
    ASSUME ScriptInv, NEW x, AtStep(x)
    PROVE  Ahead(x) /\ left # <<>> /\ scenario \in Scenarios /\ \A y : AtStep(y) => y = x
<1>1. left \in Seq(Steps) /\ left # <<>> /\ Head(left) = x  BY DEF ScriptInv, AtStep
<1>2. Len(left) \in Nat \ {0} /\ Head(left) = left[1]  BY <1>1
<1>3. QED  BY <1>1, <1>2 DEF Ahead, ScriptInv, AtStep

LEMMA AfterStep ==
    ASSUME ScriptInv, NEW x, AtStep(x), Advance
    PROVE  /\ ScriptInv'
           /\ left' = <<>> <=> x = "stop"
           /\ scenario' = scenario /\ run' = run
           /\ \A y : Ahead(y)' => Ahead(y)
           /\ \A y : Ahead(y) /\ y # x => Ahead(y)'
           /\ ~Ahead("reset")'
           /\ Ahead("service")' => x = "reset"
           /\ x = "drain" => \A y : Ahead(y)' => y \in {"peak", "gate", "stop"}
           /\ x = "peak" => \A y : Ahead(y)' => y \in {"gate", "stop"}
           /\ x \in {"worker-1", "worker-2"} => ~Ahead("reset-peak")'
           /\ x = "warm-up-worker" => Ahead("stop-warm-up-worker")'
           /\ x = "stop-warm-up-worker" => Ahead("reset-peak")'
           /\ x = "reset" /\ scenario \in Measured => Ahead("service")'
           /\ x = "service" /\ scenario \in {"execution", "scaling"} => Ahead("reset-peak")'
           /\ x = "worker-2" => scenario \in {"scaling", "real_kill"}
           /\ x = "kill-worker-1" => scenario = "real_kill"
           /\ x = "peak" => scenario \in Measured
<1> DEFINE n == Len(left)
<1>1. left \in Seq(Steps) /\ left # <<>> /\ Head(left) = x  BY DEF ScriptInv, AtStep
<1>2. n \in Nat \ {0} /\ left[1] = x  BY <1>1
<1>3. /\ left' \in Seq(Steps) /\ Len(left') = n - 1
      /\ \A k \in 1 .. n - 1 : left'[k] = left[k + 1]
  BY <1>1 DEF Advance
<1>4. scenario' = scenario /\ run' = run  BY DEF Advance
<1>5. Orderly(left, scenario)  BY DEF ScriptInv
<1> HIDE DEF n
<1>6. \A y : Ahead(y)' <=> \E k \in 2 .. n : left[k] = y
  <2>1. \A k \in 2 .. n : k - 1 \in 1 .. n - 1 /\ left[k] = left'[k - 1]
    <3>1. ASSUME NEW k \in 2 .. n
          PROVE  k - 1 \in 1 .. n - 1 /\ left[k] = left'[k - 1]
      <4>1. k - 1 \in 1 .. n - 1 /\ (k - 1) + 1 = k  BY <1>2
      <4>2. QED  BY <1>3, <4>1
    <3>2. QED  BY <3>1
  <2>2. \A k \in 1 .. n - 1 : k + 1 \in 2 .. n /\ left'[k] = left[k + 1]  BY <1>2, <1>3
  <2>3. QED  BY <1>3, <2>1, <2>2 DEF Ahead
<1>7. \A y : Ahead(y) <=> y = x \/ \E k \in 2 .. n : left[k] = y
  BY <1>2 DEF Ahead, n
<1>8. \A k \in 2 .. n :
         /\ left[k] # "reset"
         /\ left[k] = "service" => x = "reset"
         /\ x = "drain" => left[k] \in {"peak", "gate", "stop"}
         /\ x = "peak" => left[k] \in {"gate", "stop"}
         /\ x \in {"worker-1", "worker-2"} => left[k] # "reset-peak"
         /\ x # "stop"
  BY <1>2, <1>5 DEF Orderly, n
<1>9. LET Later(step) == \E k \in 2 .. n : left[k] = step IN
      /\ x = "warm-up-worker" => Later("stop-warm-up-worker")
      /\ x = "stop-warm-up-worker" => Later("reset-peak")
      /\ x = "reset" /\ scenario \in Measured => Later("service")
      /\ x = "service" /\ scenario \in {"execution", "scaling"} => Later("reset-peak")
      /\ x = "worker-2" => scenario \in {"scaling", "real_kill"}
      /\ x = "kill-worker-1" => scenario = "real_kill"
      /\ x = "peak" => scenario \in Measured
  <2>1. 1 \in 1 .. n /\ \A k \in 1 .. n : 1 < k => k \in 2 .. n  BY <1>2
  <2>2. QED  BY <1>2, <1>5, <2>1 DEF Orderly, n
<1>10. left' = <<>> <=> x = "stop"
  <2>1. left' = <<>> <=> n = 1  BY <1>2, <1>3
  <2>2. left[n] = "stop"  BY <1>1, <1>5 DEF Orderly, n
  <2>3. x = "stop" => n = 1  BY <1>2, <1>8
  <2>4. QED  BY <1>2, <2>1, <2>2, <2>3
<1>11. Orderly(left', scenario')
  <2>1. \A k \in 1 .. n - 1 : k + 1 \in 1 .. n /\ left'[k] = left[k + 1]  BY <1>2, <1>3
  <2>2. ASSUME NEW i \in 1 .. n - 1, NEW k \in 1 .. n - 1, i < k
        PROVE  /\ left'[k] # "reset"
               /\ left'[k] = "service" => left'[i] = "reset"
               /\ left'[i] = "drain" => left'[k] \in {"peak", "gate", "stop"}
               /\ left'[i] = "peak" => left'[k] \in {"gate", "stop"}
               /\ left'[i] \in {"worker-1", "worker-2"} => left'[k] # "reset-peak"
               /\ left'[i] # "stop"
    <3>1. i + 1 \in 1 .. n /\ k + 1 \in 1 .. n /\ i + 1 < k + 1  BY <1>2, <2>2
    <3>2. left'[i] = left[i + 1] /\ left'[k] = left[k + 1]  BY <2>1
    <3>3. QED  BY <1>5, <3>1, <3>2 DEF Orderly, n
  <2>3. ASSUME NEW i \in 1 .. n - 1, NEW step, NEW k \in 1 .. n, i + 1 < k, left[k] = step
        PROVE  \E l \in 1 .. n - 1 : i < l /\ left'[l] = step
    <3>1. k - 1 \in 1 .. n - 1 /\ i < k - 1 /\ (k - 1) + 1 = k  BY <1>2, <2>3
    <3>2. left'[k - 1] = step  BY <2>1, <2>3, <3>1
    <3>3. QED  BY <3>1, <3>2
  <2>4. ASSUME NEW i \in 1 .. n - 1
        PROVE  LET Later(step) == \E k \in 1 .. n - 1 : i < k /\ left'[k] = step IN
               /\ left'[i] = "warm-up-worker" => Later("stop-warm-up-worker")
               /\ left'[i] = "stop-warm-up-worker" => Later("reset-peak")
               /\ left'[i] = "reset" /\ scenario \in Measured => Later("service")
               /\ left'[i] = "service" /\ scenario \in {"execution", "scaling"}
                     => Later("reset-peak")
               /\ left'[i] = "worker-2" => scenario \in {"scaling", "real_kill"}
               /\ left'[i] = "kill-worker-1" => scenario = "real_kill"
               /\ left'[i] = "peak" => scenario \in Measured
    <3>1. i + 1 \in 1 .. n /\ left'[i] = left[i + 1]  BY <2>1
    <3>2. LET Later(step) == \E k \in 1 .. n : i + 1 < k /\ left[k] = step IN
               /\ left'[i] = "warm-up-worker" => Later("stop-warm-up-worker")
               /\ left'[i] = "stop-warm-up-worker" => Later("reset-peak")
               /\ left'[i] = "reset" /\ scenario \in Measured => Later("service")
               /\ left'[i] = "service" /\ scenario \in {"execution", "scaling"}
                     => Later("reset-peak")
               /\ left'[i] = "worker-2" => scenario \in {"scaling", "real_kill"}
               /\ left'[i] = "kill-worker-1" => scenario = "real_kill"
               /\ left'[i] = "peak" => scenario \in Measured
      BY <1>5, <3>1 DEF Orderly, n
    <3>3. QED  BY <2>3, <3>2
  <2>5. left' # <<>> => left'[Len(left')] = "stop"
    <3>1. SUFFICES ASSUME left' # <<>>  PROVE left'[Len(left')] = "stop"
      OBVIOUS
    <3>2. n - 1 \in 1 .. n - 1  BY <1>2, <1>3, <3>1
    <3>3. left'[n - 1] = left[n]  BY <1>2, <2>1, <3>2
    <3>4. left[n] = "stop"  BY <1>1, <1>5 DEF Orderly, n
    <3>5. QED  BY <1>3, <3>3, <3>4
  <2>6. QED  BY <1>3, <1>4, <2>2, <2>4, <2>5 DEF Orderly
<1>12. ScriptInv'
  BY <1>1, <1>3, <1>4, <1>11 DEF ScriptInv
<1>13. QED
  BY <1>4, <1>6, <1>7, <1>8, <1>9, <1>10, <1>12

-------------------------------------------------------------------------------
(* What the harness started, it stops.                                     *)

SurviveInv ==
    /\ up \subseteq owned \cup orphans
    /\ left = <<>> => owned = {}

LEMMA StepsOfScript ==
    ASSUME ScriptInv, [Next]_vars
    PROVE  ScriptInv'
<1>1. ASSUME NEW s, BeginRun(s)
      PROVE  ScriptInv'
  <2>1. s \in Scenarios  BY <1>1, BenchAssumption DEF BeginRun
  <2>2. left' = Script(s) /\ scenario' = s  BY <1>1 DEF BeginRun
  <2>3. QED  BY <2>1, <2>2, Scripts DEF ScriptInv
<1>2. ASSUME NEW x, AtStep(x), Advance
      PROVE  ScriptInv'
  BY <1>2, AfterStep
<1>3. ASSUME left' = <<>>, scenario' = scenario
      PROVE  ScriptInv'
  <2>1. left' \in Seq(Steps) /\ Len(left') = 0  BY <1>3
  <2>2. Orderly(left', scenario')  BY <1>3, <2>1 DEF Orderly
  <2>3. QED  BY <1>3, <2>1, <2>2 DEF ScriptInv
<1>4. ASSUME UNCHANGED harness
      PROVE  ScriptInv'
  BY <1>4 DEF ScriptInv, harness
<1>5. CASE Step
  BY <1>2, <1>4, <1>5
     DEF Step, ResetDatabase, Spawn, Submit, InsertDirectly, DriveOne, DriveEnds, Drain,
         Control, ResetPeak, ReadPeak, WriteResult, Stop
<1>6. CASE Abort \/ Interrupt
  BY <1>3, <1>6 DEF Abort, Interrupt
<1>7. CASE UNCHANGED vars
  BY <1>4, <1>7 DEF vars
<1>8. ASSUME \/ \E p \in up, j \in Jobs : WorkerClaim(p, j)
             \/ \E j \in Jobs : WorkerBuries(j) \/ Ripen(j)
             \/ \E t \in tasks : TaskEnds(t)
             \/ \E t \in requests : RequestEnds(t)
      PROVE  ScriptInv'
  BY <1>4, <1>8 DEF WorkerClaim, WorkerBuries, Ripen, TaskEnds, RequestEnds
<1>9. QED  BY <1>1, <1>5, <1>6, <1>7, <1>8 DEF Next

LEMMA StepsSurvived ==
    ASSUME ScriptInv, SurviveInv, [Next]_vars
    PROVE  SurviveInv'
<1>1. ASSUME NEW s, BeginRun(s)
      PROVE  SurviveInv'
  <2>1. s \in Scenarios  BY <1>1, BenchAssumption DEF BeginRun
  <2>2. left' # <<>> /\ UNCHANGED <<up, owned, orphans>>  BY <1>1, <2>1, Scripts DEF BeginRun
  <2>3. QED  BY <2>2 DEF SurviveInv
<1>2. ASSUME NEW x, AtStep(x), x # "stop", Advance, UNCHANGED <<up, owned, orphans>>
      PROVE  SurviveInv'
  <2>1. left' # <<>>  BY <1>2, AfterStep
  <2>2. QED  BY <1>2, <2>1 DEF SurviveInv
<1>3. ASSUME NEW name \in {"service", "api", "warm-up-worker", "worker-1", "worker-2"},
             Spawn(name)
      PROVE  SurviveInv'
  <2>1. left' # <<>>  BY <1>3, AfterStep DEF Spawn
  <2>2. orphans' = orphans
        /\ (UNCHANGED <<up, owned>> \/ \E p : up' = up \cup {p} /\ owned' = owned \cup {p})
    BY <1>3 DEF Spawn
  <2>3. QED  BY <2>1, <2>2 DEF SurviveInv
<1>4. ASSUME NEW step \in {"stop", "stop-warm-up-worker", "kill-worker-1"}, Stop(step)
      PROVE  SurviveInv'
  <2>1. /\ up' = up \ StopStep(step) /\ owned' = owned \ StopStep(step) /\ orphans' = orphans
        /\ left' = <<>> => step = "stop"
    BY <1>4, AfterStep DEF Stop, EndProcesses
  <2>2. step = "stop" => owned' = {}  BY <2>1 DEF StopStep
  <2>3. QED  BY <2>1, <2>2 DEF SurviveInv
<1>5. CASE Abort
  BY <1>5 DEF Abort, EndProcesses, SurviveInv
<1>6. CASE Interrupt
  BY <1>6 DEF Interrupt, SurviveInv
<1>7. ASSUME UNCHANGED harness
      PROVE  SurviveInv'
  BY <1>7 DEF harness, SurviveInv
<1>8. CASE Step
  BY <1>2, <1>3, <1>4, <1>7, <1>8
     DEF Step, ResetDatabase, Submit, InsertDirectly, DriveOne, DriveEnds, Drain,
         Control, ResetPeak, ReadPeak, WriteResult
<1>9. ASSUME \/ \E p \in up, j \in Jobs : WorkerClaim(p, j)
             \/ \E j \in Jobs : WorkerBuries(j) \/ Ripen(j)
             \/ \E t \in tasks : TaskEnds(t)
             \/ \E t \in requests : RequestEnds(t)
      PROVE  SurviveInv'
  BY <1>7, <1>9 DEF WorkerClaim, WorkerBuries, Ripen, TaskEnds, RequestEnds
<1>10. CASE UNCHANGED vars
  BY <1>7, <1>10 DEF vars
<1>11. QED  BY <1>1, <1>5, <1>6, <1>8, <1>9, <1>10 DEF Next

\* A failed step, a stop or a kill: kill_on_drop and stop_all leave no process of
\* the harness running; only a signal to the harness does.
THEOREM NothingIsLeftRunning == Spec => []NothingSurvives
<1>1. Init => ScriptInv /\ SurviveInv
  BY DEF Init, ScriptInv, SurviveInv, Orderly
<1>2. SurviveInv => NothingSurvives
  BY DEF SurviveInv, NothingSurvives
<1>3. QED
  BY <1>1, <1>2, StepsOfScript, StepsSurvived, PTL DEF Spec

-------------------------------------------------------------------------------
(* What a drained run finished stays finished.                             *)

Statuses == {"absent", "due", "waiting", "running", "terminal"}

\* The steps that bring jobs.
Preloads == {"reset", "submit-warm-up", "submit", "insert", "drive"}

DrainInv ==
    /\ jobs \in [Jobs -> [status : Statuses, attempts : Int]]
    /\ tracked \subseteq Jobs
    /\ tracked # {} => ~Ahead("reset")
    /\ \A j \in tracked : jobs[j].status # "absent"
    /\ drained => /\ \A step \in Preloads : ~Ahead(step)
                  /\ \A j \in Jobs : jobs[j].status \in {"absent", "terminal"}
    /\ DrainedMeansDone

LEMMA JobsFinite == IsFiniteSet(Jobs)
BY BenchAssumption, FS_Union DEF Jobs

\* A queue of depth 0 has no job on the way.
LEMMA EmptyQueue ==
    ASSUME jobs \in [Jobs -> [status : Statuses, attempts : Int]], QueueDepth = 0
    PROVE  \A j \in Jobs : jobs[j].status \in {"absent", "terminal"}
<1> DEFINE queue == {j \in Jobs : jobs[j].status \in {"waiting", "due", "running"}}
<1>1. IsFiniteSet(queue)  BY JobsFinite, FS_Subset
<1>2. queue = {}
  <2>1. Cardinality(queue) = 0  BY DEF QueueDepth
  <2> HIDE DEF queue
  <2>2. QED  BY <1>1, <2>1, FS_EmptySet
<1>3. QED  BY <1>2 DEF Statuses

\* Jobs move on, but none appears or disappears, and none that is finished moves.
Progress ==
    /\ jobs' \in [Jobs -> [status : Statuses, attempts : Int]]
    /\ \A j \in Jobs : jobs[j].status = "absent" <=> jobs'[j].status = "absent"
    /\ \A j \in Jobs : jobs[j].status = "terminal" => jobs'[j].status = "terminal"

\* One job that is on the way moves.
LEMMA OneMoves ==
    ASSUME jobs \in [Jobs -> [status : Statuses, attempts : Int]],
           NEW j \in Jobs, NEW status \in Statuses \ {"absent"}, NEW attempts \in Int,
           jobs[j].status \in {"waiting", "due", "running"},
           jobs' = [jobs EXCEPT ![j] = [status |-> status, attempts |-> attempts]]
    PROVE  Progress
BY DEF Progress, Statuses

LEMMA OneMovesOn ==
    ASSUME jobs \in [Jobs -> [status : Statuses, attempts : Int]],
           NEW j \in Jobs, NEW status \in Statuses \ {"absent"},
           jobs[j].status \in {"waiting", "due", "running"},
           jobs' = [jobs EXCEPT ![j].status = status]
    PROVE  Progress
BY DEF Progress, Statuses

LEMMA WorldProgresses ==
    ASSUME DrainInv,
           \/ \E p \in up, j \in Jobs : WorkerClaim(p, j)
           \/ \E j \in Jobs : WorkerBuries(j) \/ Ripen(j) \/ DriveOne(j)
           \/ \E t \in tasks : TaskEnds(t)
           \/ \E t \in requests : RequestEnds(t)
    PROVE  Progress /\ UNCHANGED harness
<1>1. jobs \in [Jobs -> [status : Statuses, attempts : Int]]  BY DEF DrainInv
<1>2. ASSUME jobs' = jobs
      PROVE  Progress
  BY <1>1, <1>2 DEF Progress
<1>3. ASSUME NEW p \in up, NEW j \in Jobs, WorkerClaim(p, j)
      PROVE  Progress /\ UNCHANGED harness
  <2>1. jobs[j].attempts + 1 \in Int  BY <1>1
  <2>2. /\ jobs[j].status \in {"due", "running"}
        /\ jobs' = [jobs EXCEPT ![j] = [status |-> "running", attempts |-> jobs[j].attempts + 1]]
        /\ UNCHANGED harness
    BY <1>3 DEF WorkerClaim
  <2>3. "running" \in Statuses \ {"absent"}  BY DEF Statuses
  <2>4. QED  BY <1>1, <2>1, <2>2, <2>3, OneMoves
<1>4. ASSUME NEW j \in Jobs, WorkerBuries(j)
      PROVE  Progress /\ UNCHANGED harness
  <2>1. /\ jobs[j].status = "running"
        /\ jobs' = [jobs EXCEPT ![j].status = "terminal"]
        /\ UNCHANGED harness
    BY <1>4 DEF WorkerBuries
  <2>2. "terminal" \in Statuses \ {"absent"}  BY DEF Statuses
  <2>3. QED  BY <1>1, <2>1, <2>2, OneMovesOn
<1>5. ASSUME NEW j \in Jobs, Ripen(j)
      PROVE  Progress /\ UNCHANGED harness
  <2>1. /\ jobs[j].status = "waiting"
        /\ jobs' = [jobs EXCEPT ![j].status = "due"]
        /\ UNCHANGED harness
    BY <1>5 DEF Ripen
  <2>2. "due" \in Statuses \ {"absent"}  BY DEF Statuses
  <2>3. QED  BY <1>1, <2>1, <2>2, OneMovesOn
<1>6. ASSUME NEW j \in Jobs, DriveOne(j)
      PROVE  Progress /\ UNCHANGED harness
  <2>1. jobs[j].attempts + 1 \in Int  BY <1>1
  <2>2. PICK status \in {"terminal", "waiting", "running"} :
          jobs' = [jobs EXCEPT ![j] = [status |-> status, attempts |-> jobs[j].attempts + 1]]
    BY <1>6 DEF DriveOne, Outcomes
  <2>3. jobs[j].status = "due" /\ UNCHANGED harness  BY <1>6 DEF DriveOne
  <2>4. status \in Statuses \ {"absent"}  BY DEF Statuses
  <2>5. QED  BY <1>1, <2>1, <2>2, <2>3, <2>4, OneMoves
<1>7. ASSUME NEW t \in tasks, TaskEnds(t)
      PROVE  Progress /\ UNCHANGED harness
  <2>1. UNCHANGED harness  BY <1>7 DEF TaskEnds
  <2>2. CASE jobs' = jobs  BY <1>2, <2>1, <2>2
  <2>3. CASE jobs' # jobs
    <3>1. /\ jobs[t.job].status = "running"
          /\ \E status \in Outcomes(t.attempt) : jobs' = [jobs EXCEPT ![t.job].status = status]
      BY <1>7, <2>3 DEF TaskEnds, Holds
    <3>2. PICK status \in {"terminal", "waiting"} : jobs' = [jobs EXCEPT ![t.job].status = status]
      BY <3>1 DEF Outcomes
    <3>3. t.job \in Jobs  BY <1>1, <2>3, <3>2
    <3>4. status \in Statuses \ {"absent"}  BY DEF Statuses
    <3>5. QED  BY <1>1, <2>1, <3>1, <3>2, <3>3, <3>4, OneMovesOn
  <2>4. QED  BY <2>2, <2>3
<1>8. ASSUME NEW t \in requests, RequestEnds(t)
      PROVE  Progress /\ UNCHANGED harness
  BY <1>2, <1>8 DEF RequestEnds
<1>9. QED  BY <1>3, <1>4, <1>5, <1>6, <1>7, <1>8

LEMMA StepsDrained ==
    ASSUME ScriptInv, DrainInv, [Next]_vars
    PROVE  DrainInv'
<1>1. /\ jobs \in [Jobs -> [status : Statuses, attempts : Int]]
      /\ tracked \subseteq Jobs
      /\ tracked # {} => ~Ahead("reset")
      /\ \A j \in tracked : jobs[j].status # "absent"
      /\ drained => /\ \A step \in Preloads : ~Ahead(step)
                    /\ \A j \in Jobs : jobs[j].status \in {"absent", "terminal"}
      /\ DrainedMeansDone
  BY DEF DrainInv
<1>2. ASSUME NEW s, BeginRun(s)
      PROVE  DrainInv'
  <2>1. tracked' = {} /\ drained' = FALSE /\ jobs' = jobs /\ results' = results
    BY <1>2 DEF BeginRun, world
  <2>2. QED  BY <1>1, <2>1 DEF DrainInv, DrainedMeansDone
\* The steps that leave the table and what is known of it alone.
<1>3. ASSUME NEW x, AtStep(x), Advance, UNCHANGED <<jobs, tracked, drained, results>>
      PROVE  DrainInv'
  <2>1. \A y : Ahead(y)' => Ahead(y)  BY <1>3, AfterStep
  <2>2. QED  BY <1>1, <1>3, <2>1 DEF DrainInv, DrainedMeansDone
<1>4. CASE ResetDatabase
  <2>1. Ahead("reset") /\ ~Ahead("reset")'
    BY <1>4, AtStepIsAhead, AfterStep DEF ResetDatabase
  <2>2. tracked = {} /\ ~drained  BY <1>1, <2>1 DEF Preloads
  <2>3. UNCHANGED <<tracked, drained, results>> /\ jobs' = [j \in Jobs |-> NoRow]
    BY <1>4 DEF ResetDatabase
  <2>4. jobs' \in [Jobs -> [status : Statuses, attempts : Int]]
    BY <2>3 DEF NoRow, Statuses
  <2>5. QED  BY <1>1, <2>1, <2>2, <2>3, <2>4 DEF DrainInv, DrainedMeansDone
\* The steps that put jobs into the table.
<1>5. ASSUME NEW x \in Preloads, AtStep(x), Advance, UNCHANGED <<drained, results>>,
             NEW landed \in SUBSET Jobs, NEW answered \in SUBSET landed,
             jobs' = [j \in Jobs |-> IF j \in landed THEN [NoRow EXCEPT !.status = "due"]
                                     ELSE jobs[j]],
             tracked' \in {tracked, answered}
      PROVE  DrainInv'
  <2>1. ~drained
    BY <1>1, <1>5, AtStepIsAhead
  <2>2. ~Ahead("reset")'  BY <1>5, AfterStep
  <2>3. \A j \in landed : jobs'[j] = [status |-> "due", attempts |-> 0]
    BY <1>5 DEF NoRow
  <2>4. \A j \in Jobs \ landed : jobs'[j] = jobs[j]  BY <1>5
  <2>5. jobs' \in [Jobs -> [status : Statuses, attempts : Int]]
    <3>1. \A j \in Jobs : jobs'[j] \in [status : Statuses, attempts : Int]
      BY <1>1, <2>3, <2>4 DEF Statuses
    <3>2. QED  BY <1>5, <3>1
  <2>6. \A j \in tracked' : j \in Jobs /\ jobs'[j].status # "absent"
    BY <1>1, <1>5, <2>3, <2>4
  <2>7. QED  BY <1>1, <1>5, <2>1, <2>2, <2>5, <2>6 DEF DrainInv, DrainedMeansDone
<1>6. ASSUME NEW step \in {"submit-warm-up", "submit"}, NEW batch \in SUBSET Jobs,
             Submit(step, batch)
      PROVE  DrainInv'
  <2>1. PICK landed \in SUBSET batch : \E answered \in SUBSET landed :
          /\ jobs' = [j \in Jobs |-> IF j \in landed THEN [NoRow EXCEPT !.status = "due"]
                                     ELSE jobs[j]]
          /\ tracked' \in {tracked, answered}
    BY <1>6 DEF Submit
  <2>2. landed \in SUBSET Jobs  OBVIOUS
  <2>3. step \in Preloads /\ AtStep(step) /\ Advance /\ UNCHANGED <<drained, results>>
    BY <1>6 DEF Submit, Preloads
  <2>4. QED  BY <1>5, <2>1, <2>2, <2>3
<1>7. CASE InsertDirectly
  <2>1. Preload \in SUBSET Jobs  BY DEF Jobs
  <2>2. "insert" \in Preloads  BY DEF Preloads
  <2>3. QED  BY <1>5, <1>7, <2>1, <2>2 DEF InsertDirectly
<1>8. ASSUME NEW step \in {"drain-warm-up", "drain"}, Drain(step)
      PROVE  DrainInv'
  <2>1. CASE drained' = drained
    BY <1>3, <1>8, <2>1 DEF Drain, world
  <2>2. CASE drained' # drained
    <3>1. step = "drain" /\ drained' = (QueueDepth = 0)
      BY <1>8, <2>2 DEF Drain, WaitForDrain
    <3>2. /\ \A y : Ahead(y)' => y \in {"peak", "gate", "stop"}
          /\ \A y : Ahead(y)' => Ahead(y)
      BY <1>8, <3>1, AfterStep DEF Drain
    <3>3. UNCHANGED <<jobs, tracked, results>>  BY <1>8 DEF Drain, world
    <3>4. drained' => \A j \in Jobs : jobs[j].status \in {"absent", "terminal"}
      BY <1>1, <3>1, EmptyQueue
    <3>5. \A y \in Preloads : ~Ahead(y)'  BY <3>2 DEF Preloads
    <3>6. QED  BY <1>1, <3>2, <3>3, <3>4, <3>5 DEF DrainInv, DrainedMeansDone
  <2>3. QED  BY <2>1, <2>2
<1>9. CASE WriteResult
  <2>1. /\ AtStep("gate") /\ Advance /\ UNCHANGED <<jobs, tracked, drained>>
        /\ \E r : /\ results' = results \cup {r}
                  /\ r.drained = drained /\ r.unfinished = tracked \ Terminal
    <3> DEFINE r == [run |-> run, scenario |-> scenario, drained |-> drained,
                     passed |-> Passed(Evidence), unfinished |-> tracked \ Terminal,
                     crowded |-> ~WithinCapacity(Evidence), stray |-> stray,
                     haunted |-> orphans # {}]
    <3>1. results' = results \cup {r} /\ AtStep("gate") /\ Advance
          /\ UNCHANGED <<jobs, tracked, drained>>
      BY <1>9 DEF WriteResult, world
    <3>2. r.drained = drained /\ r.unfinished = tracked \ Terminal  OBVIOUS
    <3> HIDE DEF r
    <3>3. QED  BY <3>1, <3>2
  <2>2. drained => tracked \ Terminal = {}  BY <1>1 DEF Terminal
  <2>3. DrainedMeansDone'  BY <1>1, <2>1, <2>2 DEF DrainedMeansDone
  <2>4. \A y : Ahead(y)' => Ahead(y)  BY <2>1, AfterStep
  <2>5. QED  BY <1>1, <2>1, <2>3, <2>4 DEF DrainInv
<1>10. ASSUME UNCHANGED harness, Progress
       PROVE  DrainInv'
  <2>1. \A y : Ahead(y)' <=> Ahead(y)  BY <1>10 DEF harness, Ahead
  <2>2. UNCHANGED <<tracked, drained, results>>  BY <1>10 DEF harness
  <2>3. \A j \in tracked : jobs'[j].status # "absent"  BY <1>1, <1>10 DEF Progress
  <2>4. QED  BY <1>1, <1>10, <2>1, <2>2, <2>3 DEF DrainInv, DrainedMeansDone, Progress
<1>11. CASE Step
  <2>1. CASE \/ \E name \in {"service", "api", "warm-up-worker", "worker-1", "worker-2"} : Spawn(name)
             \/ DriveEnds \/ Control \/ ResetPeak \/ ReadPeak
             \/ \E step \in {"stop", "stop-warm-up-worker", "kill-worker-1"} : Stop(step)
    BY <1>3, <2>1 DEF Spawn, DriveEnds, Control, ResetPeak, ReadPeak, Stop, EndProcesses, world
  <2>2. Preload \in SUBSET Jobs /\ WarmUp \in SUBSET Jobs  BY DEF Jobs
  <2>3. CASE \E j \in Jobs : DriveOne(j)  BY <1>10, <2>3, WorldProgresses
  <2>4. QED  BY <1>4, <1>6, <1>7, <1>8, <1>9, <1>11, <2>1, <2>2, <2>3 DEF Step
<1>12. CASE Abort \/ Interrupt
  <2>1. \A y : ~Ahead(y)'  BY <1>12 DEF Abort, Interrupt, Ahead
  <2>2. UNCHANGED <<jobs, tracked, drained, results>>
    BY <1>12 DEF Abort, Interrupt, EndProcesses, world
  <2>3. QED  BY <1>1, <2>1, <2>2 DEF DrainInv, DrainedMeansDone
<1>13. CASE UNCHANGED vars
  <2>1. UNCHANGED harness /\ jobs' = jobs  BY <1>13 DEF vars, world
  <2>2. QED  BY <1>1, <1>10, <2>1 DEF Progress
<1>14. QED
  BY <1>2, <1>10, <1>11, <1>12, <1>13, WorldProgresses DEF Next

\* Between the last poll of wait_for_drain and the gate's query, and whatever the
\* warm-up left or its workers did, no job that was finished comes back.
THEOREM DrainedRunsAreDone == Spec => []DrainedMeansDone
<1>1. Init => ScriptInv /\ DrainInv
  <2> SUFFICES ASSUME Init  PROVE ScriptInv /\ DrainInv
    OBVIOUS
  <2>1. jobs \in [Jobs -> [status : Statuses, attempts : Int]]
    <3>1. NoRow \in [status : Statuses, attempts : Int]  BY DEF NoRow, Statuses
    <3>2. QED  BY <3>1 DEF Init
  <2>2. ScriptInv  BY DEF Init, ScriptInv, Orderly
  <2>3. QED  BY <2>1, <2>2 DEF Init, DrainInv, DrainedMeansDone
<1>2. DrainInv => DrainedMeansDone
  BY DEF DrainInv
<1>3. QED
  BY <1>1, <1>2, StepsOfScript, StepsDrained, PTL DEF Spec

-------------------------------------------------------------------------------
(* Workers stay within their capacity.                                     *)

Names == {"service", "api", "warm-up-worker", "worker-1", "worker-2"}

\* Every task has its worker and its permit, whatever else happens.
TaskInv ==
    /\ run \in Nat
    /\ up \subseteq [name : Names, run : Nat]
    /\ IsFiniteSet(tasks)
    /\ \A t \in tasks : t.by \in up /\ IsWorker(t.by)
    /\ \A p \in up : Cardinality({t \in tasks : t.by = p}) <= Concurrency
    /\ IsFiniteSet(requests)
    /\ ~Serving("service") => requests = {}
    /\ peak \in Nat

\* Unless a signal orphaned some, only processes of this run are running, and
\* only those its script is done starting and not done with.
CrewInv ==
    orphans = {} =>
        /\ \A p \in up : p.run = run
        /\ Ahead("service") => up = {}
        /\ \A p \in up : p.name = "warm-up-worker" => Ahead("stop-warm-up-worker")
        /\ \A p \in up : p.name \in {"worker-1", "worker-2"} => ~Ahead("reset-peak")
        /\ \A p \in up : p.name = "worker-2" => scenario \in {"scaling", "real_kill"}

\* From the last of these steps on, a measured run's peak is that of its workers.
Unsettled == {"reset", "service", "warm-up-worker", "stop-warm-up-worker", "kill-worker-1",
              "reset-peak"}

Measuring == left # <<>> /\ \A step \in Unsettled : ~Ahead(step)

PeakInv ==
    /\ seen # Unknown => ~Ahead("reset-peak") /\ scenario \in Measured
    /\ orphans = {} /\ stray = {} /\ scenario \in Measured /\ Measuring =>
          requests \subseteq tasks /\ peak <= Capacity(scenario)
    /\ orphans = {} /\ stray = {} /\ seen # Unknown => seen <= Capacity(scenario)
    /\ NeverCrowded

\* Tasks end, and processes: those that are left are as they were.
LEMMA FewerTasks ==
    ASSUME TaskInv, tasks' \subseteq tasks, up' \subseteq up, \A t \in tasks' : t.by \in up'
    PROVE  /\ IsFiniteSet(tasks)'
           /\ \A t \in tasks' : t.by \in up' /\ IsWorker(t.by)
           /\ \A p \in up' : Cardinality({t \in tasks' : t.by = p}) <= Concurrency
<1>1. IsFiniteSet(tasks')  BY FS_Subset DEF TaskInv
<1>2. ASSUME NEW p \in up'
      PROVE  Cardinality({t \in tasks' : t.by = p}) <= Concurrency
  <2> DEFINE old == {t \in tasks : t.by = p}  new == {t \in tasks' : t.by = p}
  <2>1. old \in SUBSET tasks /\ new \in SUBSET old  OBVIOUS
  <2>2. IsFiniteSet(old) /\ Cardinality(old) <= Concurrency  BY <2>1, FS_Subset DEF TaskInv
  <2> HIDE DEF old, new
  <2>3. Cardinality(new) <= Cardinality(old) /\ Cardinality(new) \in Nat /\ Cardinality(old) \in Nat
    BY <2>1, <2>2, FS_Subset, FS_CardinalityType
  <2>4. Cardinality(new) <= Concurrency  BY <2>2, <2>3, BenchAssumption
  <2>5. QED  BY <2>4 DEF new
<1>3. QED  BY <1>1, <1>2 DEF TaskInv

LEMMA StepsTask ==
    ASSUME TaskInv, [Next]_vars
    PROVE  TaskInv'
<1>1. /\ run \in Nat /\ up \subseteq [name : Names, run : Nat]
      /\ IsFiniteSet(tasks) /\ IsFiniteSet(requests) /\ peak \in Nat
      /\ ~Serving("service") => requests = {}
      /\ \A t \in tasks : t.by \in up /\ IsWorker(t.by)
      /\ \A p \in up : Cardinality({t \in tasks : t.by = p}) <= Concurrency
  BY DEF TaskInv
<1>2. ASSUME UNCHANGED <<up, tasks, requests>>, run' \in Nat, peak' \in Nat
      PROVE  TaskInv'
  BY <1>1, <1>2 DEF TaskInv, Serving
<1>3. ASSUME NEW s, BeginRun(s)
      PROVE  TaskInv'
  BY <1>1, <1>2, <1>3 DEF BeginRun, world
<1>4. ASSUME NEW p \in up, NEW j \in Jobs, WorkerClaim(p, j)
      PROVE  TaskInv'
  <2>1. PICK t : /\ t.by = p /\ IsWorker(p) /\ HasPermit(p)
                 /\ tasks' = tasks \cup {t}
                 /\ Works(IF Serving("service") THEN requests \cup {t} ELSE requests)
                 /\ UNCHANGED <<run, up>>
    <3> DEFINE u == [by |-> p, job |-> j, run |-> run, attempt |-> jobs[j].attempts + 1]
    <3>1. /\ IsWorker(p) /\ HasPermit(p) /\ tasks' = tasks \cup {u}
          /\ Works(IF Serving("service") THEN requests \cup {u} ELSE requests)
          /\ UNCHANGED <<run, up>>
      BY <1>4 DEF WorkerClaim, harness
    <3>2. u.by = p  OBVIOUS
    <3> HIDE DEF u
    <3>3. QED  BY <3>1, <3>2
  <2>2. IsFiniteSet(tasks')  BY <1>1, <2>1, FS_AddElement
  <2>3. IsFiniteSet(requests') /\ peak' \in Nat
    <3>1. requests' \in {requests, requests \cup {t}}
          /\ peak' \in {Cardinality(requests'), peak}
      BY <2>1 DEF Works
    <3>2. IsFiniteSet(requests')  BY <1>1, <3>1, FS_AddElement
    <3>3. QED  BY <1>1, <3>1, <3>2, FS_CardinalityType
  <2>4. ~Serving("service")' => requests' = {}
    BY <1>1, <2>1 DEF Works, Serving
  <2>5. ASSUME NEW q \in up
        PROVE  Cardinality({u \in tasks' : u.by = q}) <= Concurrency
    <3>1. CASE q = p
      <4> DEFINE old == {u \in tasks : u.by = p}
      <4>1. {u \in tasks' : u.by = q} = old \cup {t}  BY <2>1, <3>1
      <4>2. IsFiniteSet(old)  BY <1>1, FS_Subset
      <4>3. Cardinality(old) < Concurrency  BY <2>1 DEF HasPermit
      <4> HIDE DEF old
      <4>4. /\ Cardinality(old) \in Nat
            /\ Cardinality(old \cup {t}) \in {Cardinality(old), Cardinality(old) + 1}
        BY <4>2, FS_AddElement, FS_CardinalityType
      <4>5. Cardinality(old \cup {t}) <= Concurrency
        BY <4>3, <4>4, BenchAssumption
      <4>6. QED  BY <4>1, <4>5
    <3>2. CASE q # p
      <4>1. {u \in tasks' : u.by = q} = {u \in tasks : u.by = q}  BY <2>1, <3>2
      <4>2. QED  BY <1>1, <4>1
    <3>3. QED  BY <3>1, <3>2
  <2>6. \A u \in tasks' : u.by \in up' /\ IsWorker(u.by)  BY <1>1, <2>1
  <2>7. QED  BY <1>1, <2>1, <2>2, <2>3, <2>4, <2>5, <2>6 DEF TaskInv
<1>5. ASSUME UNCHANGED <<run, up, peak>>, tasks' \subseteq tasks, requests' \subseteq requests
      PROVE  TaskInv'
  <2>1. IsFiniteSet(requests')  BY <1>1, <1>5, FS_Subset
  <2>2. ~Serving("service")' => requests' = {}  BY <1>1, <1>5 DEF Serving
  <2>3. QED  BY <1>1, <1>5, <2>1, <2>2, FewerTasks DEF TaskInv
<1>6. ASSUME NEW name \in Names, Spawn(name)
      PROVE  TaskInv'
  <2> DEFINE p == [name |-> name, run |-> run]
  <2>1. /\ UNCHANGED <<run, tasks, requests>> /\ peak' \in {0, peak}
        /\ up' = up \/ up' = up \cup {p}
    BY <1>6 DEF Spawn, Advance
  <2>2. CASE up' = up  BY <1>1, <1>2, <2>1, <2>2
  <2>3. CASE up' # up
    <3>1. up' = up \cup {p} /\ p \notin up /\ p \in [name : Names, run : Nat]
      BY <1>1, <2>1, <2>3
    <3> HIDE DEF p
    <3>2. {t \in tasks : t.by = p} = {}  BY <1>1, <3>1
    <3>3. Cardinality({t \in tasks : t.by = p}) <= Concurrency
      BY <3>2, FS_EmptySet, BenchAssumption
    <3>4. ~Serving("service")' => requests' = {}  BY <1>1, <2>1, <3>1 DEF Serving
    <3>5. /\ \A q \in up' : Cardinality({t \in tasks' : t.by = q}) <= Concurrency
          /\ up' \subseteq [name : Names, run : Nat]
      BY <1>1, <2>1, <3>1, <3>3
    <3>6. peak' \in Nat /\ \A t \in tasks' : t.by \in up' /\ IsWorker(t.by)
      BY <1>1, <2>1, <3>1
    <3>7. QED  BY <1>1, <2>1, <3>4, <3>5, <3>6 DEF TaskInv
  <2>4. QED  BY <2>2, <2>3
<1>7. ASSUME NEW gone, EndProcesses(gone), run' = run
      PROVE  TaskInv'
  <2>1. /\ up' = up \ gone /\ tasks' = {t \in tasks : t.by \notin gone} /\ peak' = peak
        /\ requests' = IF \E p \in gone : p.name = "service" THEN {} ELSE requests
    BY <1>7 DEF EndProcesses
  <2>2. \A t \in tasks' : t.by \in up'  BY <1>1, <2>1
  <2>3. IsFiniteSet(requests')  BY <1>1, <2>1, FS_EmptySet
  <2>4. ~Serving("service")' => requests' = {}  BY <1>1, <2>1 DEF Serving
  <2>5. QED  BY <1>1, <1>7, <2>1, <2>2, <2>3, <2>4, FewerTasks DEF TaskInv
<1>8. CASE Step
  <2>1. CASE \/ ResetDatabase \/ Submit("submit-warm-up", WarmUp) \/ Submit("submit", Preload)
             \/ InsertDirectly \/ (\E j \in Jobs : DriveOne(j)) \/ DriveEnds
             \/ (\E step \in {"drain-warm-up", "drain"} : Drain(step))
             \/ Control \/ ResetPeak \/ ReadPeak \/ WriteResult
    BY <1>1, <1>2, <2>1
       DEF ResetDatabase, Submit, InsertDirectly, DriveOne, DriveEnds, Drain, Control,
           ResetPeak, ReadPeak, WriteResult, Advance, world, harness
  <2>2. CASE \E step \in {"stop", "stop-warm-up-worker", "kill-worker-1"} : Stop(step)
    BY <1>7, <2>2 DEF Stop, Advance
  <2>3. QED  BY <1>6, <1>8, <2>1, <2>2 DEF Step, Names
<1>9. CASE Abort \/ Interrupt
  BY <1>1, <1>2, <1>7, <1>9 DEF Abort, Interrupt, world
<1>10. ASSUME NEW j \in Jobs, WorkerBuries(j) \/ Ripen(j)
       PROVE  TaskInv'
  BY <1>1, <1>2, <1>10 DEF WorkerBuries, Ripen, harness
<1>11. ASSUME NEW t \in tasks, TaskEnds(t)
       PROVE  TaskInv'
  BY <1>5, <1>11 DEF TaskEnds, harness
<1>12. ASSUME NEW t \in requests, RequestEnds(t)
       PROVE  TaskInv'
  BY <1>5, <1>12 DEF RequestEnds, harness
<1>13. CASE UNCHANGED vars
  BY <1>1, <1>2, <1>13 DEF vars, harness, world
<1>14. QED
  BY <1>3, <1>4, <1>8, <1>9, <1>10, <1>11, <1>12, <1>13 DEF Next

\* A run that starts finds nothing running, and its script starts each process
\* where no step that must come before it is left.
LEMMA StepsCrew ==
    ASSUME ScriptInv, SurviveInv, TaskInv, CrewInv, [Next]_vars
    PROVE  CrewInv'
<1>1. CASE orphans # {}
  <2>1. orphans' # {}
    BY <1>1 DEF Next, Step, BeginRun, WorkerClaim, WorkerBuries, Ripen, TaskEnds, RequestEnds,
       ResetDatabase, Spawn, Submit, InsertDirectly, DriveOne, DriveEnds, Drain, Control,
       ResetPeak, ReadPeak, WriteResult, Stop, Abort, Interrupt, harness, vars
  <2>2. QED  BY <2>1 DEF CrewInv
<1>2. CASE orphans = {}
  <2>1. /\ \A p \in up : p.run = run
        /\ Ahead("service") => up = {}
        /\ \A p \in up : p.name = "warm-up-worker" => Ahead("stop-warm-up-worker")
        /\ \A p \in up : p.name \in {"worker-1", "worker-2"} => ~Ahead("reset-peak")
        /\ \A p \in up : p.name = "worker-2" => scenario \in {"scaling", "real_kill"}
        /\ up \subseteq owned
        /\ left = <<>> => up = {}
    BY <1>2 DEF CrewInv, SurviveInv
  <2>2. ASSUME up' = {}
        PROVE  CrewInv'
    BY <2>2 DEF CrewInv
  <2>3. ASSUME NEW s, BeginRun(s)
        PROVE  CrewInv'
    BY <2>1, <2>2, <2>3 DEF BeginRun
  <2>4. ASSUME NEW x, AtStep(x), Advance, up' \subseteq up,
               x = "stop-warm-up-worker" => \A p \in up' : p.name # "warm-up-worker"
        PROVE  CrewInv'
    <3>1. /\ scenario' = scenario /\ run' = run
          /\ \A y : Ahead(y)' => Ahead(y)
          /\ \A y : Ahead(y) /\ y # x => Ahead(y)'
      BY <2>4, AfterStep
    <3>2. QED  BY <2>1, <2>4, <3>1 DEF CrewInv
  <2>5. ASSUME NEW name \in Names, Spawn(name)
        PROVE  CrewInv'
    <3>1. CASE up' = up  BY <2>4, <2>5, <3>1 DEF Spawn, Names
    <3>2. CASE up' # up
      <4>1. up' = up \cup {[name |-> name, run |-> run]}  BY <2>5, <3>2 DEF Spawn
      <4>2. AtStep(name) /\ Advance  BY <2>5 DEF Spawn
      <4>3. /\ scenario' = scenario /\ run' = run
            /\ \A y : Ahead(y)' => Ahead(y)
            /\ Ahead("stop-warm-up-worker") => Ahead("stop-warm-up-worker")'
            /\ ~Ahead("service")'
            /\ name \in {"worker-1", "worker-2"} => ~Ahead("reset-peak")'
            /\ name = "warm-up-worker" => Ahead("stop-warm-up-worker")'
            /\ name = "worker-2" => scenario \in {"scaling", "real_kill"}
        BY <4>2, AfterStep DEF Names
      <4>4. QED  BY <2>1, <4>1, <4>3 DEF CrewInv
    <3>3. QED  BY <3>1, <3>2
  <2>6. ASSUME NEW step \in {"stop", "stop-warm-up-worker", "kill-worker-1"}, Stop(step)
        PROVE  CrewInv'
    <3>1. AtStep(step) /\ Advance /\ up' = up \ StopStep(step)
      BY <2>6 DEF Stop, EndProcesses
    <3>2. step = "stop-warm-up-worker" => \A p \in up' : p.name # "warm-up-worker"
      BY <2>1, <3>1 DEF StopStep
    <3>3. QED  BY <2>4, <3>1, <3>2
  <2>7. CASE Abort
    BY <2>1, <2>2, <2>7 DEF Abort, EndProcesses
  <2>8. CASE Interrupt
    <3>1. up' = up /\ orphans' = orphans \cup owned  BY <2>8 DEF Interrupt
    <3>2. CASE owned = {}  BY <2>1, <2>2, <3>1, <3>2
    <3>3. CASE owned # {}  BY <3>1, <3>3 DEF CrewInv
    <3>4. QED  BY <3>2, <3>3
  <2>9. ASSUME UNCHANGED harness
        PROVE  CrewInv'
    BY <2>9 DEF CrewInv, harness, Ahead
  <2>10. CASE Step
    <3>1. CASE \/ ResetDatabase \/ Submit("submit-warm-up", WarmUp) \/ Submit("submit", Preload)
               \/ InsertDirectly \/ DriveEnds
               \/ (\E step \in {"drain-warm-up", "drain"} : Drain(step))
               \/ Control \/ ResetPeak \/ ReadPeak \/ WriteResult
      BY <2>4, <3>1
         DEF ResetDatabase, Submit, InsertDirectly, DriveEnds, Drain, Control, ResetPeak,
             ReadPeak, WriteResult
    <3>2. QED  BY <2>5, <2>6, <2>9, <2>10, <3>1 DEF Step, DriveOne, Names
  <2>11. ASSUME \/ \E p \in up, j \in Jobs : WorkerClaim(p, j)
                \/ \E j \in Jobs : WorkerBuries(j) \/ Ripen(j)
                \/ \E t \in tasks : TaskEnds(t)
                \/ \E t \in requests : RequestEnds(t)
         PROVE  CrewInv'
    BY <2>9, <2>11 DEF WorkerClaim, WorkerBuries, Ripen, TaskEnds, RequestEnds
  <2>12. CASE UNCHANGED vars
    BY <2>9, <2>12 DEF vars
  <2>13. QED  BY <2>3, <2>7, <2>8, <2>10, <2>11, <2>12 DEF Next
<1>3. QED  BY <1>1, <1>2

\* A measured run has one worker, or two when it scales: their tasks are no more
\* than the capacity the gate goes by.
LEMMA CrewCapacity ==
    ASSUME TaskInv, CrewInv, orphans = {}, Measuring, scenario \in Measured,
           NEW T, IsFiniteSet(T), \A t \in T : t.by \in up /\ IsWorker(t.by),
           \A p \in up : Cardinality({t \in T : t.by = p}) <= Concurrency,
           NEW R \in SUBSET T
    PROVE  Cardinality(R) <= Capacity(scenario)
<1> DEFINE one == [name |-> "worker-1", run |-> run]
           two == [name |-> "worker-2", run |-> run]
           Of(p) == {t \in T : t.by = p}
<1>1. \A p \in up : IsWorker(p) => p = one \/ (p = two /\ scenario = "scaling")
  <2>1. ASSUME NEW p \in up, IsWorker(p)
        PROVE  p = one \/ (p = two /\ scenario = "scaling")
    <3>1. p \in [name : Names, run : Nat] /\ p.run = run  BY <2>1 DEF TaskInv, CrewInv
    <3>2. p.name \in {"warm-up-worker", "worker-1", "worker-2"}
      BY <2>1, <3>1 DEF IsWorker, Names
    <3>3. p.name # "warm-up-worker"  BY DEF CrewInv, Measuring, Unsettled
    <3>4. p.name = "worker-2" => scenario = "scaling"  BY DEF CrewInv, Measured
    <3>5. p = [name |-> p.name, run |-> run]  BY <3>1
    <3>6. QED  BY <3>2, <3>3, <3>4, <3>5
  <2>2. QED  BY <2>1
<1>2. \A p : /\ IsFiniteSet(Of(p)) /\ Cardinality(Of(p)) \in Nat
             /\ Cardinality(Of(p)) <= Concurrency
  <2>1. ASSUME NEW p
        PROVE  /\ IsFiniteSet(Of(p)) /\ Cardinality(Of(p)) \in Nat
               /\ Cardinality(Of(p)) <= Concurrency
    <3>1. IsFiniteSet(Of(p)) /\ Cardinality(Of(p)) \in Nat
      BY FS_Subset, FS_CardinalityType
    <3>2. CASE p \in up  BY <3>1, <3>2
    <3>3. CASE p \notin up
      <4>1. Of(p) = {}  BY <3>3
      <4>2. Cardinality(Of(p)) = 0  BY <4>1, FS_EmptySet
      <4>3. QED  BY <3>1, <4>2, BenchAssumption
    <3>4. QED  BY <3>2, <3>3
  <2>2. QED  BY <2>1
<1>3. T \in {Of(one), Of(one) \cup Of(two)} /\ (T = Of(one) \/ scenario = "scaling")
  BY <1>1
<1>4. IsFiniteSet(R) /\ Cardinality(R) \in Nat /\ Cardinality(T) \in Nat
      /\ Cardinality(R) <= Cardinality(T)
  BY FS_Subset, FS_CardinalityType
<1> HIDE DEF Of, one, two
<1>5. CASE T = Of(one)
  <2>1. Cardinality(T) <= Concurrency  BY <1>2, <1>5
  <2>2. Capacity(scenario) \in {Concurrency, 2 * Concurrency}
    BY DEF Capacity, Measured
  <2>3. QED  BY <1>4, <2>1, <2>2, BenchAssumption
<1>6. CASE T = Of(one) \cup Of(two) /\ scenario = "scaling"
  <2>1. /\ Cardinality(T) =
             Cardinality(Of(one)) + Cardinality(Of(two)) - Cardinality(Of(one) \cap Of(two))
        /\ Cardinality(Of(one) \cap Of(two)) \in Nat
    <3>1. IsFiniteSet(Of(one) \cap Of(two))  BY <1>2, FS_Intersection
    <3>2. QED  BY <1>2, <1>6, <3>1, FS_Union, FS_CardinalityType
  <2>2. /\ Cardinality(Of(one)) \in Nat /\ Cardinality(Of(one)) <= Concurrency
        /\ Cardinality(Of(two)) \in Nat /\ Cardinality(Of(two)) <= Concurrency
    BY <1>2
  <2>3. Capacity(scenario) = 2 * Concurrency  BY <1>6 DEF Capacity
  <2>4. QED  BY <1>4, <2>1, <2>2, <2>3, BenchAssumption
<1>7. QED  BY <1>3, <1>5, <1>6

LEMMA StepsPeak ==
    ASSUME ScriptInv, SurviveInv, TaskInv, CrewInv, PeakInv, [Next]_vars
    PROVE  PeakInv'
<1>1. /\ seen # Unknown => ~Ahead("reset-peak") /\ scenario \in Measured
      /\ orphans = {} /\ stray = {} /\ scenario \in Measured /\ Measuring =>
            requests \subseteq tasks /\ peak <= Capacity(scenario)
      /\ orphans = {} /\ stray = {} /\ seen # Unknown => seen <= Capacity(scenario)
      /\ NeverCrowded
  BY DEF PeakInv
<1>2. ASSUME NEW s, BeginRun(s)
      PROVE  PeakInv'
  <2>1. s \in Scenarios  BY <1>2, BenchAssumption DEF BeginRun
  <2>2. Ahead("reset")'
    <3>1. left' = Script(s)  BY <1>2 DEF BeginRun
    <3>2. QED  BY <2>1, <3>1, Scripts DEF Ahead
  <2>3. ~Measuring'  BY <2>2 DEF Measuring, Unsettled
  <2>4. seen' = Unknown /\ results' = results  BY <1>2 DEF BeginRun
  <2>5. QED  BY <1>1, <2>3, <2>4 DEF PeakInv, NeverCrowded
<1>3. ASSUME ~Measuring', UNCHANGED <<scenario, seen, stray, results>>,
             orphans' = {} => orphans = {}, Ahead("reset-peak")' => Ahead("reset-peak")
      PROVE  PeakInv'
  BY <1>1, <1>3 DEF PeakInv, NeverCrowded
\* A step of the harness after which the peak counts only if it did before.
<1>4. ASSUME NEW x, AtStep(x), Advance, x \notin Unsettled,
             UNCHANGED <<seen, stray, orphans, results, tasks, requests, peak>>
      PROVE  PeakInv'
  <2>1. /\ scenario' = scenario
        /\ \A y : Ahead(y)' => Ahead(y)
        /\ \A y : Ahead(y) /\ y # x => Ahead(y)'
        /\ left # <<>>
    BY <1>4, AfterStep, AtStepIsAhead
  <2>2. Measuring' => Measuring  BY <1>4, <2>1 DEF Measuring, Unsettled
  <2>3. QED  BY <1>1, <1>4, <2>1, <2>2 DEF PeakInv, NeverCrowded
<1>5. CASE ResetDatabase
  <2>1. AtStep("reset") /\ Advance /\ UNCHANGED <<seen, stray, orphans, results>>
    BY <1>5 DEF ResetDatabase
  <2>2. /\ scenario' = scenario /\ (scenario \in Measured => Ahead("service")')
        /\ \A y : Ahead(y)' => Ahead(y)
    BY <2>1, AfterStep
  <2>3. scenario \in Measured => ~Measuring'  BY <2>2 DEF Measuring, Unsettled
  <2>4. QED  BY <1>1, <2>1, <2>2, <2>3 DEF PeakInv, NeverCrowded
\* retry_degradation resets no peak: its service is a new one.
<1>6. CASE Spawn("service")
  <2>1. AtStep("service") /\ Advance /\ UNCHANGED <<seen, stray, orphans, results, tasks, requests>>
    BY <1>6 DEF Spawn
  <2>2. /\ scenario' = scenario
        /\ scenario \in {"execution", "scaling"} => Ahead("reset-peak")'
        /\ \A y : Ahead(y)' => Ahead(y)
        /\ Ahead("service")
    BY <2>1, AfterStep, AtStepIsAhead
  <2>3. scenario \in {"execution", "scaling"} => ~Measuring'
    BY <2>2 DEF Measuring, Unsettled
  <2>4. orphans = {} => requests = {} /\ peak' = 0
    <3>1. SUFFICES ASSUME orphans = {}  PROVE requests = {} /\ peak' = 0
      OBVIOUS
    <3>2. up = {}  BY <2>2, <3>1 DEF CrewInv
    <3>3. ~Serving("service")  BY <3>2 DEF Serving
    <3>4. QED  BY <1>6, <3>3 DEF TaskInv, Spawn, IsWorker
  <2>5. scenario = "retry_degradation" => 0 <= Capacity(scenario)
    BY BenchAssumption DEF Capacity
  <2>6. QED  BY <1>1, <2>1, <2>2, <2>3, <2>4, <2>5 DEF PeakInv, NeverCrowded, Measured
<1>7. CASE Spawn("warm-up-worker")
  <2>1. AtStep("warm-up-worker") /\ Advance /\ UNCHANGED <<seen, stray, orphans, results>>
    BY <1>7 DEF Spawn
  <2>2. /\ scenario' = scenario /\ Ahead("stop-warm-up-worker")'
        /\ \A y : Ahead(y)' => Ahead(y)
    BY <2>1, AfterStep
  <2>3. ~Measuring'  BY <2>2 DEF Measuring, Unsettled
  <2>4. QED  BY <1>3, <2>1, <2>2, <2>3
<1>8. ASSUME NEW name \in {"api", "worker-1", "worker-2"}, Spawn(name)
      PROVE  PeakInv'
  BY <1>4, <1>8 DEF Spawn, Unsettled
<1>9. CASE ResetPeak
  <2>1. /\ AtStep("reset-peak") /\ Advance
        /\ UNCHANGED <<seen, orphans, results, tasks, requests>>
        /\ peak' = 0 /\ stray' = requests
    BY <1>9 DEF ResetPeak
  <2>2. scenario' = scenario /\ Ahead("reset-peak")
    BY <2>1, AfterStep, AtStepIsAhead
  <2>3. seen = Unknown  BY <1>1, <2>2
  <2>4. scenario \in Measured => 0 <= Capacity(scenario)
    BY BenchAssumption DEF Capacity, Measured
  <2>5. QED  BY <1>1, <2>1, <2>2, <2>3, <2>4 DEF PeakInv, NeverCrowded
<1>10. CASE ReadPeak
  <2>1. /\ AtStep("peak") /\ Advance
        /\ UNCHANGED <<stray, orphans, results, tasks, requests, peak>>
        /\ seen' \in {Unknown, peak}
    BY <1>10 DEF ReadPeak, world
  <2>2. /\ scenario' = scenario /\ scenario \in Measured
        /\ \A y : Ahead(y)' => y \in {"gate", "stop"}
        /\ \A y : Ahead(y) /\ y # "peak" => Ahead(y)'
        /\ left # <<>>
    BY <2>1, AfterStep, AtStepIsAhead
  <2>3. Measuring  BY <2>2 DEF Measuring, Unsettled
  <2>4. QED  BY <1>1, <2>1, <2>2, <2>3 DEF PeakInv, NeverCrowded
<1>11. CASE WriteResult
  <2>1. /\ AtStep("gate") /\ Advance
        /\ UNCHANGED <<seen, stray, orphans, tasks, requests, peak>>
        /\ \E r : /\ results' = results \cup {r}
                  /\ r.stray = stray /\ r.haunted = (orphans # {})
                  /\ r.crowded = ~WithinCapacity(Evidence)
    <3> DEFINE r == [run |-> run, scenario |-> scenario, drained |-> drained,
                     passed |-> Passed(Evidence), unfinished |-> tracked \ Terminal,
                     crowded |-> ~WithinCapacity(Evidence), stray |-> stray,
                     haunted |-> orphans # {}]
    <3>1. /\ AtStep("gate") /\ Advance
          /\ UNCHANGED <<seen, stray, orphans, tasks, requests, peak>>
          /\ results' = results \cup {r}
      BY <1>11 DEF WriteResult, world
    <3>2. /\ r.stray = stray /\ r.haunted = (orphans # {})
          /\ r.crowded = ~WithinCapacity(Evidence)
      OBVIOUS
    <3> HIDE DEF r
    <3>3. QED  BY <3>1, <3>2
  <2>2. orphans = {} /\ stray = {} => WithinCapacity(Evidence)
    BY <1>1 DEF WithinCapacity, Evidence
  <2>3. NeverCrowded'  BY <1>1, <2>1, <2>2 DEF NeverCrowded
  <2>4. /\ scenario' = scenario /\ left # <<>>
        /\ \A y : Ahead(y)' => Ahead(y)
        /\ \A y : Ahead(y) /\ y # "gate" => Ahead(y)'
    BY <2>1, AfterStep, AtStepIsAhead
  <2>5. Measuring' => Measuring  BY <2>4 DEF Measuring, Unsettled
  <2>6. QED  BY <1>1, <2>1, <2>3, <2>4, <2>5 DEF PeakInv
<1>12. ASSUME NEW step \in {"stop", "stop-warm-up-worker", "kill-worker-1"}, Stop(step)
       PROVE  PeakInv'
  <2>1. AtStep(step) /\ Advance /\ UNCHANGED <<seen, stray, orphans, results>>
    BY <1>12 DEF Stop
  <2>2. /\ scenario' = scenario
        /\ \A y : Ahead(y)' => Ahead(y)
        /\ step = "stop" => left' = <<>>
        /\ step = "stop-warm-up-worker" => Ahead("reset-peak")'
        /\ step = "kill-worker-1" => scenario = "real_kill"
    BY <2>1, AfterStep
  <2>3. scenario \in Measured => ~Measuring'
    BY <2>2 DEF Measuring, Unsettled, Measured
  <2>4. QED  BY <1>1, <2>1, <2>2, <2>3 DEF PeakInv, NeverCrowded
<1>13. CASE Abort \/ Interrupt
  <2>1. ~Measuring' /\ ~Ahead("reset-peak")'
    BY <1>13 DEF Abort, Interrupt, Measuring, Ahead
  <2>2. UNCHANGED <<scenario, seen, stray, results>> /\ (orphans' = {} => orphans = {})
    BY <1>13 DEF Abort, Interrupt
  <2>3. QED  BY <1>3, <2>1, <2>2
\* The workers and the service go on.
<1>14. ASSUME UNCHANGED harness,
              orphans = {} /\ stray = {} /\ scenario \in Measured /\ Measuring
                 => requests' \subseteq tasks' /\ peak' <= Capacity(scenario)
       PROVE  PeakInv'
  BY <1>1, <1>14 DEF PeakInv, NeverCrowded, harness, Measuring, Ahead
<1>15. ASSUME NEW p \in up, NEW j \in Jobs, WorkerClaim(p, j)
       PROVE  PeakInv'
  <2>1. PICK t : /\ tasks' = tasks \cup {t}
                 /\ Works(IF Serving("service") THEN requests \cup {t} ELSE requests)
    BY <1>15 DEF WorkerClaim
  <2>2. UNCHANGED harness /\ up' = up  BY <1>15 DEF WorkerClaim, harness
  <2>3. /\ IsFiniteSet(tasks') /\ \A u \in tasks' : u.by \in up /\ IsWorker(u.by)
        /\ \A q \in up : Cardinality({u \in tasks' : u.by = q}) <= Concurrency
    <3>1. Next  BY <1>15 DEF Next
    <3>2. TaskInv'  BY <3>1, StepsTask
    <3>3. QED  BY <2>2, <3>2 DEF TaskInv
  <2>4. ASSUME orphans = {}, stray = {}, scenario \in Measured, Measuring
        PROVE  requests' \subseteq tasks' /\ peak' <= Capacity(scenario)
    <3>1. requests \subseteq tasks /\ peak <= Capacity(scenario)  BY <1>1, <2>4
    <3>2. requests' \subseteq tasks' /\ peak' \in {peak, Cardinality(requests')}
      BY <2>1, <3>1 DEF Works
    <3>3. Cardinality(requests') <= Capacity(scenario)
      BY <2>3, <2>4, <3>2, CrewCapacity
    <3>4. QED  BY <3>1, <3>2, <3>3
  <2>5. QED  BY <1>14, <2>2, <2>4
<1>16. ASSUME NEW j \in Jobs, WorkerBuries(j) \/ Ripen(j) \/ DriveOne(j)
       PROVE  PeakInv'
  BY <1>1, <1>14, <1>16 DEF WorkerBuries, Ripen, DriveOne
<1>17. ASSUME NEW t \in tasks, TaskEnds(t)
       PROVE  PeakInv'
  <2>1. /\ UNCHANGED harness /\ peak' = peak
        /\ tasks' = tasks \ {t} /\ requests' = requests \ {t}
    BY <1>17 DEF TaskEnds
  <2>2. QED  BY <1>1, <1>14, <2>1
<1>18. ASSUME NEW t \in requests, RequestEnds(t)
       PROVE  PeakInv'
  BY <1>1, <1>14, <1>18 DEF RequestEnds
<1>19. CASE UNCHANGED vars
  BY <1>1, <1>14, <1>19 DEF vars, world
<1>20. CASE Step
  <2>1. CASE \/ Submit("submit-warm-up", WarmUp) \/ Submit("submit", Preload)
             \/ InsertDirectly \/ DriveEnds
             \/ (\E step \in {"drain-warm-up", "drain"} : Drain(step)) \/ Control
    BY <1>4, <2>1
       DEF Submit, InsertDirectly, DriveEnds, Drain, Control, Unsettled, world
  <2>2. CASE \E name \in Names : Spawn(name)
    BY <1>6, <1>7, <1>8, <2>2 DEF Names
  <2>3. QED
    BY <1>5, <1>9, <1>10, <1>11, <1>12, <1>16, <1>20, <2>1, <2>2 DEF Step, Names
<1>21. QED
  BY <1>2, <1>13, <1>15, <1>16, <1>17, <1>18, <1>19, <1>20 DEF Next

\* Whatever its workers reclaim, retry and outlive, a run whose result counts as
\* crowded either reset the peak while the service was still busy or shared its
\* queue with workers a signal to a harness left behind.
THEOREM CapacityIsKept == Spec => []NeverCrowded
<1>1. Init => ScriptInv /\ SurviveInv /\ TaskInv /\ CrewInv /\ PeakInv
  <2> SUFFICES ASSUME Init
               PROVE  ScriptInv /\ SurviveInv /\ TaskInv /\ CrewInv /\ PeakInv
    OBVIOUS
  <2>1. ScriptInv /\ SurviveInv  BY DEF Init, ScriptInv, SurviveInv, Orderly
  <2>2. TaskInv  BY FS_EmptySet DEF Init, TaskInv
  <2>3. CrewInv /\ PeakInv
    BY DEF Init, CrewInv, PeakInv, NeverCrowded, Measuring
  <2>4. QED  BY <2>1, <2>2, <2>3
<1>2. PeakInv => NeverCrowded
  BY DEF PeakInv
<1>3. QED
  BY <1>1, <1>2, StepsOfScript, StepsSurvived, StepsTask, StepsCrew, StepsPeak, PTL DEF Spec

===============================================================================
