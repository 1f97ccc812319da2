---------------------------- MODULE PollLoopProofs ----------------------------
(***************************************************************************)
(* For every WORKER_CONCURRENCY, batch size and grace period: the permits  *)
(* bound the tasks that execute, a claim is made only with all of them     *)
(* free, and work is dropped only after the grace period.                  *)
(*                                                                         *)
(* TopIsIdle is not inductive alone: a batch leads back to the top with    *)
(* all permits free because permits and running tasks always add up.       *)
(***************************************************************************)
EXTENDS PollLoop, FiniteSetTheorems, TLAPS

LoopInv ==
    /\ TypeOK
    /\ PermitsMatchTasks
    /\ TopIsIdle
    /\ AbandonedOnlyAfterGrace
    /\ pc = "exited" => Unfinished = {}
    /\ pc # "exited" => In("cancelled") = {}

\* The tasks in a state are finitely many.
LEMMA TasksAreFinite ==
    ASSUME NEW state
    PROVE  IsFiniteSet(In(state)) /\ Cardinality(In(state)) \in Nat
<1>1. IsFiniteSet(Slots)  BY LoopAssumption, FS_Interval DEF Slots
<1>2. In(state) \in SUBSET Slots  BY DEF In
<1>3. IsFiniteSet(In(state))  BY <1>1, <1>2, FS_Subset
<1>4. QED  BY <1>3, FS_CardinalityType

\* No task runs exactly when every permit is free.
LEMMA NoneRunning ==
    ASSUME In("running") = {}
    PROVE  Cardinality(In("running")) = 0
BY FS_EmptySet

LEMMA LoopInit == Init => LoopInv
<1> SUFFICES ASSUME Init PROVE LoopInv
  OBVIOUS
<1>1. TypeOK
  <2>1. Smaller(Concurrency, ClaimBatchMax) \in Nat  BY LoopAssumption DEF Smaller
  <2>2. tasks \in [Slots -> TaskStates]  BY DEF Init, TaskStates
  <2>3. shutdown \in BOOLEAN  BY DEF Init
  <2>4. batchSize \in 0 .. Smaller(Concurrency, ClaimBatchMax)  BY <2>1 DEF Init
  <2>5. permits \in 0 .. Concurrency /\ grace \in 0 .. Grace  BY LoopAssumption DEF Init
  <2>6. QED  BY <2>2, <2>3, <2>4, <2>5 DEF Init, TypeOK
<1>2. In("running") = {} /\ Unfinished = {} /\ In("cancelled") = {}
  BY DEF Init, In, Unfinished
<1>3. Cardinality(In("running")) = 0  BY <1>2, NoneRunning
<1>4. QED
  BY <1>1, <1>2, <1>3, LoopAssumption
     DEF Init, LoopInv, PermitsMatchTasks, TopIsIdle, AbandonedOnlyAfterGrace

\* A step that leaves tasks and permits alone and goes on to an idle place only
\* from an idle place, or with nothing unfinished.
LEMMA MoveOn ==
    ASSUME LoopInv, TypeOK', UNCHANGED <<tasks, permits>>,
           pc # "exited" /\ pc' # "exited",
           pc' \in {"top", "claiming", "idle"} => Unfinished = {},
           pc' = "stopped" => Unfinished = {} \/ grace' = 0
    PROVE  LoopInv'
<1>1. Unfinished' = Unfinished /\ In("running")' = In("running") /\ In("cancelled")' = In("cancelled")
  BY DEF Unfinished, In
<1>2. PermitsMatchTasks'  BY <1>1 DEF LoopInv, PermitsMatchTasks
<1>3. TopIsIdle'
  <2>1. CASE Unfinished = {}
    <3>1. In("running") = {}  BY <2>1 DEF Unfinished
    <3>2. permits = Concurrency
      BY <3>1, NoneRunning, LoopAssumption DEF LoopInv, PermitsMatchTasks, TypeOK
    <3>3. batchSize' <= Concurrency  BY LoopAssumption DEF TypeOK, Smaller
    <3>4. QED  BY <1>1, <2>1, <3>2, <3>3 DEF TopIsIdle
  <2>2. CASE Unfinished # {}  BY <2>2 DEF TopIsIdle
  <2>3. QED  BY <2>1, <2>2
<1>4. AbandonedOnlyAfterGrace'  BY <1>1 DEF LoopInv, AbandonedOnlyAfterGrace
<1>5. QED  BY <1>1, <1>2, <1>3, <1>4 DEF LoopInv

\* A permit is taken or given back with the task that holds it.
LEMMA TaskMoves ==
    ASSUME LoopInv, NEW t \in Slots, AcquirePermit(t) \/ FinishTask(t)
    PROVE  LoopInv'
<1> DEFINE running == In("running")
<1>1. t \in Unfinished /\ pc \notin {"exited", "top", "claiming", "idle"}
  BY DEF LoopInv, AcquirePermit, FinishTask, In, Unfinished, TopIsIdle
<1>2. UNCHANGED <<pc, shutdown, batchSize, grace>>
  BY DEF AcquirePermit, FinishTask
<1>3. permits + Cardinality(running) = Concurrency
  BY <1>1 DEF LoopInv, PermitsMatchTasks
<1>4. Unfinished' \subseteq Unfinished /\ In("cancelled")' = {}
  BY <1>1 DEF LoopInv, AcquirePermit, FinishTask, In, Unfinished, TypeOK
<1>5. tasks' \in [Slots -> TaskStates]
  BY DEF LoopInv, AcquirePermit, FinishTask, TypeOK, TaskStates
<1>6. permits' + Cardinality(running') = Concurrency /\ permits' \in 0 .. Concurrency
  <2>1. CASE AcquirePermit(t)
    <3>1. running' = running \cup {t} /\ t \notin running
      BY <2>1 DEF LoopInv, AcquirePermit, In, TypeOK
    <3>2. Cardinality(running') = Cardinality(running) + 1
      BY <3>1, TasksAreFinite, FS_AddElement
    <3>3. QED
      BY <2>1, <3>2, <1>3, TasksAreFinite, LoopAssumption DEF LoopInv, TypeOK, AcquirePermit
  <2>2. CASE FinishTask(t)
    <3>1. running' = running \ {t} /\ t \in running
      BY <2>2 DEF LoopInv, FinishTask, In, TypeOK
    <3>2. Cardinality(running') = Cardinality(running) - 1
      BY <3>1, TasksAreFinite, FS_RemoveElement
    <3>3. Cardinality(running') \in Nat  BY TasksAreFinite, <3>1, FS_RemoveElement, FS_CardinalityType
    <3>4. QED
      BY <2>2, <3>2, <3>3, <1>3, TasksAreFinite, LoopAssumption DEF LoopInv, TypeOK, FinishTask
  <2>3. QED  BY <2>1, <2>2
<1>7. TypeOK'  BY <1>2, <1>5, <1>6 DEF LoopInv, TypeOK
<1>8. AbandonedOnlyAfterGrace'
  BY <1>1, <1>2, <1>4 DEF LoopInv, AbandonedOnlyAfterGrace
<1>9. QED
  BY <1>1, <1>2, <1>4, <1>6, <1>7, <1>8 DEF LoopInv, PermitsMatchTasks, TopIsIdle

\* A batch starts with every slot and every permit free.
LEMMA BatchStarts == ASSUME LoopInv, ClaimBatch PROVE LoopInv'
<1>1. PICK n \in 1 .. batchSize : tasks' = [t \in Slots |-> IF t <= n THEN "spawned" ELSE "none"]
  BY DEF ClaimBatch
<1>2. TypeOK'  BY <1>1 DEF LoopInv, TypeOK, ClaimBatch, TaskStates
<1>3. In("running")' = {} /\ In("cancelled")' = {}  BY <1>1 DEF In
<1>4. permits' = Concurrency  BY DEF LoopInv, TopIsIdle, ClaimBatch
<1>5. Cardinality(In("running")') = 0  BY <1>3, FS_EmptySet
<1>6. QED
  BY <1>2, <1>3, <1>4, <1>5, LoopAssumption
     DEF LoopInv, ClaimBatch, PermitsMatchTasks, TopIsIdle, AbandonedOnlyAfterGrace

\* The end of the process cancels what is unfinished.
LEMMA ProcessEnds == ASSUME LoopInv, Exit PROVE LoopInv'
<1>1. TypeOK'  BY DEF LoopInv, TypeOK, Exit, TaskStates
<1>2. Unfinished' = {} /\ In("cancelled")' \subseteq Unfinished \cup In("cancelled")
  BY DEF LoopInv, TypeOK, Exit, In, Unfinished
<1>3. AbandonedOnlyAfterGrace'
  BY <1>2 DEF LoopInv, Exit, AbandonedOnlyAfterGrace
<1>4. QED
  BY <1>1, <1>2, <1>3 DEF LoopInv, Exit, PermitsMatchTasks, TopIsIdle

LEMMA LoopStep == LoopInv /\ [Next]_vars => LoopInv'
<1> SUFFICES ASSUME LoopInv, [Next]_vars PROVE LoopInv'
  OBVIOUS
<1> USE LoopAssumption DEF LoopInv
<1>1. CASE Signal
  <2>1. TypeOK'  BY <1>1 DEF Signal, TypeOK
  <2>2. UNCHANGED <<pc, batchSize, tasks, permits, grace>>  BY <1>1 DEF Signal
  <2>3. QED
    BY <2>1, <2>2 DEF PermitsMatchTasks, TopIsIdle, AbandonedOnlyAfterGrace, Unfinished, In
<1>2. CASE StartClaim
  <2>1. TypeOK'  BY <1>2 DEF StartClaim, TypeOK, Smaller
  <2>2. QED  BY <1>2, <2>1, MoveOn DEF StartClaim, TopIsIdle
<1>3. CASE ClaimNothing
  <2>1. TypeOK'  BY <1>3 DEF ClaimNothing, TypeOK
  <2>2. QED  BY <1>3, <2>1, MoveOn DEF ClaimNothing, TopIsIdle
<1>4. CASE ClaimBatch  BY <1>4, BatchStarts
<1>5. CASE IdleElapsed
  <2>1. TypeOK'  BY <1>5 DEF IdleElapsed, TypeOK
  <2>2. QED  BY <1>5, <2>1, MoveOn DEF IdleElapsed, TopIsIdle
<1>6. CASE BatchDone
  <2>1. TypeOK'  BY <1>6 DEF BatchDone, TypeOK
  <2>2. QED  BY <1>6, <2>1, MoveOn DEF BatchDone
<1>7. CASE ObserveShutdown
  <2>1. TypeOK'  BY <1>7 DEF ObserveShutdown, TypeOK
  <2>2. QED  BY <1>7, <2>1, MoveOn DEF ObserveShutdown, TopIsIdle
<1>8. CASE DrainDone
  <2>1. TypeOK'  BY <1>8 DEF DrainDone, TypeOK
  <2>2. QED  BY <1>8, <2>1, MoveOn DEF DrainDone
<1>9. CASE GraceTick
  <2>1. TypeOK'  BY <1>9 DEF GraceTick, TypeOK
  <2>2. QED  BY <1>9, <2>1, MoveOn DEF GraceTick
<1>10. CASE GraceElapsed
  <2>1. TypeOK'  BY <1>10 DEF GraceElapsed, TypeOK
  <2>2. QED  BY <1>10, <2>1, MoveOn DEF GraceElapsed
<1>11. CASE Exit  BY <1>11, ProcessEnds
<1>12. CASE \E t \in Slots : AcquirePermit(t) \/ FinishTask(t)  BY <1>12, TaskMoves
<1>13. CASE UNCHANGED vars
  BY <1>13 DEF vars, TypeOK, PermitsMatchTasks, TopIsIdle, AbandonedOnlyAfterGrace, Unfinished, In
<1>14. QED
  BY <1>1, <1>2, <1>3, <1>4, <1>5, <1>6, <1>7, <1>8, <1>9, <1>10, <1>11, <1>12, <1>13 DEF Next

\* The inductive invariant of run_worker_loop and its tasks.
THEOREM LoopInvariant == Spec => []LoopInv
BY LoopInit, LoopStep, PTL DEF Spec

\* Guarantee 8 for any WORKER_CONCURRENCY: permits and executing tasks add up.
THEOREM PermitsBound == Spec => []PermitsMatchTasks
<1>1. LoopInv => PermitsMatchTasks  BY DEF LoopInv
<1>2. QED  BY <1>1, LoopInvariant, PTL

\* Each claim of the loop is made with every permit free and nothing unfinished.
THEOREM ClaimsWhenIdle == Spec => []TopIsIdle
<1>1. LoopInv => TopIsIdle  BY DEF LoopInv
<1>2. QED  BY <1>1, LoopInvariant, PTL

\* Work is dropped only after the whole grace period, however long it is.
THEOREM GraceIsGiven == Spec => []AbandonedOnlyAfterGrace
<1>1. LoopInv => AbandonedOnlyAfterGrace  BY DEF LoopInv
<1>2. QED  BY <1>1, LoopInvariant, PTL

===============================================================================
