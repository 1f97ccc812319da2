------------------------------- MODULE QueueGauges -------------------------------
(***************************************************************************)
(* The API's two gauges of the whole queue, reliableq_job_queue_depth and  *)
(* reliableq_oldest_pending_age_seconds: a task of five statements that    *)
(* see five snapshots, starts over every 5 s, and gives up a round at the  *)
(* first statement that fails.                                             *)
(***************************************************************************)
EXTENDS Integers, FiniteSets

CONSTANTS
    NumJobs   \* jobs are 1 .. NumJobs, in the order of created_at

GaugesAssumption == NumJobs \in Nat \ {0}

VARIABLES
    status,    \* status[j]: of the job's row; "ABSENT" when there is none
    round,     \* the refresher's next statement; 0 while it sleeps
    depth,     \* reliableq_job_queue_depth
    oldest     \* whose age reliableq_oldest_pending_age_seconds shows; 0: none

vars == <<status, round, depth, oldest>>

-------------------------------------------------------------------------------
JobIds == 1 .. NumJobs

\* The order in which refresh_once counts; its fifth statement is the age.
CountedStatus == <<"PENDING", "RUNNING", "SUCCEEDED", "DEAD">>
Statements == 1 .. 5

Having(s) == {j \in JobIds : status[j] = s}

\* ORDER BY created_at LIMIT 1, and unwrap_or(0.0).
OldestPending ==
    IF Having("PENDING") = {} THEN 0
    ELSE CHOOSE j \in Having("PENDING") : \A i \in Having("PENDING") : j <= i

Init ==
    /\ status = [j \in JobIds |-> "ABSENT"]
    /\ round = 1
    /\ depth = [s \in {"PENDING", "RUNNING", "SUCCEEDED", "DEAD"} |-> 0]
    /\ oldest = 0

\* Jobs are submitted in the order of their created_at, and live.
Moves == {<<"PENDING", "RUNNING">>, <<"RUNNING", "PENDING">>, <<"RUNNING", "SUCCEEDED">>,
          <<"RUNNING", "DEAD">>, <<"DEAD", "PENDING">>}

MoveJob(j) ==
    /\ \/ status[j] = "ABSENT" /\ (j > 1 => status[j - 1] # "ABSENT")
          /\ status' = [status EXCEPT ![j] = "PENDING"]
       \/ \E move \in Moves :
             status[j] = move[1] /\ status' = [status EXCEPT ![j] = move[2]]
    /\ UNCHANGED <<round, depth, oldest>>

\* Mutant: a status the loop leaves out.
RefreshAllButDead(k) ==
    /\ round = k
    /\ IF k <= 3
       THEN /\ depth' = [depth EXCEPT ![CountedStatus[k]] = Cardinality(Having(CountedStatus[k]))]
            /\ UNCHANGED oldest
       ELSE oldest' = OldestPending /\ UNCHANGED depth
    /\ round' = (k + 1) % 6
    /\ UNCHANGED status

\* refresh_once, statement k.
Refresh(k) ==
    /\ round = k
    /\ IF k <= 4
       THEN /\ depth' = [depth EXCEPT ![CountedStatus[k]] = Cardinality(Having(CountedStatus[k]))]
            /\ UNCHANGED oldest
       ELSE oldest' = OldestPending /\ UNCHANGED depth
    /\ round' = (k + 1) % 6
    /\ UNCHANGED status

\* A statement fails: logged, and the gauges stay as far as they got.
Fail(k) ==
    /\ round = k
    /\ round' = 0
    /\ UNCHANGED <<status, depth, oldest>>

Wake ==
    /\ round = 0
    /\ round' = 1
    /\ UNCHANGED <<status, depth, oldest>>

Next ==
    \/ \E j \in JobIds : MoveJob(j)
    \/ \E k \in Statements : Refresh(k) \/ Fail(k)
    \/ Wake

Spec == Init /\ [][Next]_vars

\* The task sleeps for a time and its statements end; and a statement that is
\* tried again and again does not fail every time.
Fairness ==
    /\ WF_vars(Wake)
    /\ \A k \in Statements : WF_vars(Refresh(k) \/ Fail(k)) /\ SF_vars(Refresh(k))

FairSpec == Spec /\ Fairness

-------------------------------------------------------------------------------
(* Properties.                                                             *)

GaugesAreRight ==
    /\ \A s \in DOMAIN depth : depth[s] = Cardinality(Having(s))
    /\ oldest = OldestPending

\* Once the queue is at rest the gauges come to show it and stay so: a database
\* error costs a round, never the refresher, and no error can keep a gauge
\* behind the others for ever.
GaugesCatchUp == <>[][FALSE]_status => <>[]GaugesAreRight

===============================================================================
