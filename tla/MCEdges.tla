-------------------------------- MODULE MCEdges --------------------------------
(* TLC instance of what surrounds the queue: what comes in (a process's      *)
(* settings, a client's request) and what is shown (the answer to a GET,     *)
(* the worker's counters, listings, gauges).  The counters and the answers   *)
(* are about the same tables and go together; the other models share nothing *)
(* but constants.  A behaviour is one of the model it chose first, `edge`.   *)
EXTENDS Startup, Submission, JobReads, Metrics, JobListing

CONSTANTS
    Edges,            \* the models explored
    GaugedJobs

-------------------------------------------------------------------------------
(* Startup: a millisecond stands for 100, and the maxima are small numbers   *)
(* in the order the real ones have.                                          *)

MCDefault ==
    [s \in Numeric |-> CASE s \in {"retry_multiplier", "max_connections"} -> 2
                         [] s = "retry_base_delay" -> 10
                         [] OTHER -> 1]

MCLimit == [s \in Bounded |-> IF s = "retry_max_delay" THEN 3 ELSE 2]

\* Everything unset but what must be set.
Usual == [s \in Numeric \cup Named |->
             IF s \in {"url", "charge_service_url"} THEN "given" ELSE UNSET]

Odd(s) == IF s \in Named THEN {UNSET, NOT_UNICODE, BAD, "given"}
          ELSE {UNSET, NOT_UNICODE, BAD, 0, 1} \cup
               (IF s \in Bounded THEN {Limit[s], Limit[s] + 1} ELSE {})

\* Any setting odd, or any backoff, its base and maximum either side of each
\* other and its multiplier up to u32::MAX.
MCEnvironments ==
    UNION {{[Usual EXCEPT ![s] = v] : v \in Odd(s)} : s \in Numeric \cup Named}
    \cup {[Usual EXCEPT !["retry_base_delay"] = base, !["retry_multiplier"] = multiplier,
                        !["retry_max_delay"] = max] :
              base \in {1, 7, 10, 30, 31}, multiplier \in {1, 2, 7, UMax}, max \in {1, 3}}

\* The formula's power is the one of the Integers module.
ASSUME PowerIsPower == \A b \in {1, 2, 7, UMax}, n \in 0 .. MaxAttempts : Power(b, n) = b ^ n

-------------------------------------------------------------------------------
(* Submission: texts either side of every limit, MaxKindLen being 4 and      *)
(* MaxCustomerIdLen 5.                                                       *)

Word(chars, bytes) ==
    [chars |-> chars, bytes |-> bytes, blank |-> FALSE, uppercase |-> FALSE, nul |-> FALSE]

Currency == [Word(3, 3) EXCEPT !.uppercase = TRUE]

\* A currency; short, full and overlong words; one of wide letters; one of
\* blanks; nothing; and one with a NUL in it.
MCTexts ==
    {Currency, Word(1, 1), Word(4, 4), Word(6, 6), Word(3, 5),
     [Word(2, 2) EXCEPT !.blank = TRUE], [Word(0, 0) EXCEPT !.blank = TRUE, !.uppercase = TRUE],
     [Word(3, 3) EXCEPT !.nul = TRUE]}

-------------------------------------------------------------------------------
VARIABLES
    edge,
    status, round, depth, oldest                      \* QueueGauges

Gauges == INSTANCE QueueGauges WITH NumJobs <- GaugedJobs

ASSUME Gauges!GaugesAssumption

gaugesVars == <<status, round, depth, oldest>>

edgeVars ==
    <<edge, startupVars, submissionVars, readVars, metricsVars, listingVars, gaugesVars>>

\* A model that was not chosen stays where it is, in some initial state.
EdgesInit ==
    /\ edge \in Edges
    /\ IF edge = "startup" THEN StartupInit
       ELSE /\ role = "worker" /\ env = Usual /\ pc = "log_format" /\ config = NULL
            /\ touched = {} /\ attempts = 0 /\ slept = NULL
    /\ IF edge = "requests" THEN SubmissionInit
       ELSE /\ request = [kind |-> Word(1, 1), max_attempts |-> 1,
                          payload |-> [shape |-> FALSE]]
            /\ row = NULL /\ call = NULL /\ answer = NULL
    /\ MetricsInit
    /\ ReadInit
    /\ ListingInit
    /\ Gauges!Init

\* Somebody asks for a job while the worker works on it.
ObserversNext ==
    \/ MetricsNext /\ UNCHANGED reader
    \/ Reading /\ UNCHANGED <<tasks, counters, forgotten>>

Wake       == edge = "gauges" /\ Gauges!Wake
Refresh(k) == edge = "gauges" /\ Gauges!Refresh(k)
Fail(k)    == edge = "gauges" /\ Gauges!Fail(k)

EdgesNext ==
    /\ UNCHANGED edge
    /\ \/ /\ edge = "startup"
          /\ StartupNext
          /\ UNCHANGED <<submissionVars, readVars, metricsVars, listingVars, gaugesVars>>
       \/ /\ edge = "requests"
          /\ SubmissionNext
          /\ UNCHANGED <<startupVars, readVars, metricsVars, listingVars, gaugesVars>>
       \/ /\ edge = "observers"
          /\ ObserversNext
          /\ UNCHANGED <<startupVars, submissionVars, listingVars, gaugesVars>>
       \/ /\ edge = "listing"
          /\ ListingNext
          /\ UNCHANGED <<startupVars, submissionVars, readVars, metricsVars, gaugesVars>>
       \/ /\ edge = "gauges"
          /\ Gauges!Next
          /\ UNCHANGED <<startupVars, submissionVars, readVars, metricsVars, listingVars>>

\* The fairness of QueueGauges.
EdgesSpec ==
    /\ EdgesInit /\ [][EdgesNext]_edgeVars
    /\ WF_gaugesVars(Wake)
    /\ \A k \in Gauges!Statements :
          WF_gaugesVars(Refresh(k) \/ Fail(k)) /\ SF_gaugesVars(Refresh(k))

\* The property of the model that is an instance.
GaugesCatchUp == Gauges!GaugesCatchUp

===============================================================================
