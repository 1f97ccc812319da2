------------------------------ MODULE FakeCharge ------------------------------
(***************************************************************************)
(* The charge service, crates/fake-charge, with the ledger functions of    *)
(* crates/reliableq-db/src/charges.rs: what one POST /v1/charges does,     *)
(* step by step between its awaits, locks and atomics, next to other calls *)
(* and to the test-control routes of chaos.rs.                             *)
(*                                                                         *)
(* A call can be dropped wherever it waits - by the service's own timeout, *)
(* a database error or a client that went away - but an INSERT the         *)
(* database already has is not recalled: it is then an orphan, and lands   *)
(* later or never.                                                         *)
(***************************************************************************)
EXTENDS Integers, FiniteSets

CONSTANTS
    Calls,       \* the requests to POST /v1/charges
    KeyOf,       \* KeyOf[r]: the idempotency key of call r
    PayloadOf,   \* PayloadOf[r]: customer, amount and currency
    MaxFailNext  \* bound on the n of a fail_next control

ASSUME CallsAssumption == IsFiniteSet(Calls) /\ DOMAIN KeyOf = Calls /\ DOMAIN PayloadOf = Calls
ASSUME FailNextAssumption == MaxFailNext \in Nat \ {0}

VARIABLES
    charges,     \* the table: rows [key, payload, by]
    stage,       \* stage[r]: where call r is
    current,     \* current[r]: while it is "counted", what fetch_add returned plus one
    answers,     \* answers[r]: the response it was given
    mode,        \* ChaosState.inner
    inflight,    \* ChaosState.inflight
    peak,        \* ChaosState.peak_inflight
    armed,       \* history: the n of the fail_next control in force, else 0
    injected,    \* history: failures injected since it was set
    torn         \* history: was the peak last reset with calls in flight?

callVars  == <<charges, stage, current, answers, inflight>>
chaosVars == <<mode, peak, armed, injected, torn>>
vars == <<callVars, chaosVars>>

-------------------------------------------------------------------------------
Ledger == INSTANCE ChargeLedger

\* Past fetch_add, past fetch_max, asleep in DelayMs, past the sleep; INSERT
\* sent, committed, refused by ON CONFLICT; ended with that INSERT under way.
Stages == {"none", "counted", "tracked", "asleep", "deciding",
           "inserting", "inserted", "refused", "orphan", "over"}

\* The stages in which the call's InflightGuard lives.
Guarded == Stages \ {"none", "orphan", "over"}

Within(stages) == {r \in Calls : stage[r] \in stages}

Larger(a, b) == IF a > b THEN a ELSE b

Modes ==
    [kind : {"normal", "permanent_reject", "delay_ms", "fail_rate"}, remaining : {0}]
    \cup [kind : {"fail_next"}, remaining : 1 .. MaxFailNext]

Normal == [kind |-> "normal", remaining |-> 0]

Init ==
    /\ charges = {}
    /\ stage = [r \in Calls |-> "none"]
    /\ current = [r \in Calls |-> 0]
    /\ answers = [r \in Calls |-> "none"]
    /\ mode = Normal
    /\ inflight = 0
    /\ peak = 0
    /\ armed = 0
    /\ injected = 0
    /\ torn = FALSE

Goes(r, to) == stage' = [stage EXCEPT ![r] = to]

-------------------------------------------------------------------------------
(* In flight: track_inflight and the guard.                                *)

\* The call passed validation: fetch_add.
Arrive(r) ==
    /\ stage[r] = "none"
    /\ inflight' = inflight + 1
    /\ current' = [current EXCEPT ![r] = inflight + 1]
    /\ Goes(r, "counted")
    /\ UNCHANGED <<charges, answers, chaosVars>>

\* fetch_max, some time after fetch_add.
TrackPeak(r) ==
    /\ stage[r] = "counted"
    /\ peak' = Larger(peak, current[r])
    /\ current' = [current EXCEPT ![r] = 0]
    /\ Goes(r, "tracked")
    /\ UNCHANGED <<charges, answers, inflight, mode, armed, injected, torn>>

\* Mutant: the guard dropped only by calls that get to an answer of their own.
ReleaseUnlessLost(r, to, answer) ==
    /\ Goes(r, to)
    /\ answers' = [answers EXCEPT ![r] = answer]
    /\ inflight' = IF answer = "lost" THEN inflight ELSE inflight - 1

\* The end of the call's future, whatever ends it: an answer, and the guard.
Release(r, to, answer) ==
    /\ Goes(r, to)
    /\ answers' = [answers EXCEPT ![r] = answer]
    /\ inflight' = inflight - 1

-------------------------------------------------------------------------------
(* decide(): the mode is read, the lock released, and read again.          *)

PeekMode(r) ==
    /\ stage[r] = "tracked"
    /\ Goes(r, IF mode.kind = "delay_ms" THEN "asleep" ELSE "deciding")
    /\ UNCHANGED <<charges, current, answers, inflight, chaosVars>>

WakeUp(r) ==
    /\ stage[r] = "asleep"
    /\ Goes(r, "deciding")
    /\ UNCHANGED <<charges, current, answers, inflight, chaosVars>>

Proceed(r) ==
    /\ mode.kind \in {"normal", "delay_ms", "fail_rate"}
    /\ Goes(r, "inserting")
    /\ UNCHANGED <<answers, inflight, mode, injected>>

\* Mutant: back to normal one failure too late.
SpendOneTooMany ==
    mode' = IF mode.kind # "fail_next" THEN mode
            ELSE IF mode.remaining = 1 /\ injected < armed THEN mode
            ELSE Normal

\* Consume one unit of fail_next; the other modes stay.
Spend ==
    mode' = IF mode.kind # "fail_next" THEN mode
            ELSE IF mode.remaining = 1 THEN Normal
            ELSE [mode EXCEPT !.remaining = @ - 1]

Reject(r) ==
    /\ mode.kind \in {"permanent_reject", "fail_rate", "fail_next"}
    /\ Spend
    /\ injected' = IF armed > 0 THEN injected + 1 ELSE 0
    /\ Release(r, "over", "rejected")

\* The mode that decides is the one in force now, not the one that delayed the
\* call.  fail_rate may do either.
Decide(r) ==
    /\ stage[r] = "deciding"
    /\ Proceed(r) \/ Reject(r)
    /\ UNCHANGED <<charges, current, peak, armed, torn>>

-------------------------------------------------------------------------------
(* insert_or_get_charge, and the answers.                                  *)

\* Mutant: ON CONFLICT on the whole request instead of the key.
InsertNewRequest(r) ==
    IF \E c \in charges : c.key = KeyOf[r] /\ c.payload = PayloadOf[r]
    THEN charges' = charges /\ Goes(r, "refused")
    ELSE charges' = charges \cup {Ledger!RowOf(r)} /\ Goes(r, "inserted")

\* INSERT ... ON CONFLICT (idempotency_key) DO NOTHING: one atomic statement.
InsertOrNothing(r) ==
    IF \E c \in charges : c.key = KeyOf[r]
    THEN charges' = charges /\ Goes(r, "refused")
    ELSE charges' = charges \cup {Ledger!RowOf(r)} /\ Goes(r, "inserted")

Insert(r) ==
    /\ stage[r] = "inserting"
    /\ InsertOrNothing(r)
    /\ UNCHANGED <<current, answers, inflight, chaosVars>>

\* The INSERT's result reaches the handler: 201.
AnswerCreated(r) ==
    /\ stage[r] = "inserted"
    /\ Release(r, "over", "created")
    /\ UNCHANGED <<charges, current, chaosVars>>

\* Nothing was inserted: find the row and compare.  200 replayed or 409.
AnswerExisting(r) ==
    /\ stage[r] = "refused"
    /\ \E c \in charges :
          /\ c.key = KeyOf[r]
          /\ Release(r, "over", IF c.payload = PayloadOf[r] THEN "replayed" ELSE "conflict")
    /\ UNCHANGED <<charges, current, chaosVars>>

\* 408 from the timeout layer, 500 from a database error, or nobody is there to
\* be answered: wherever the call waits.
Lose(r) ==
    /\ stage[r] \in {"asleep", "inserting", "inserted", "refused"}
    /\ Release(r, IF stage[r] = "inserting" THEN "orphan" ELSE "over", "lost")
    /\ UNCHANGED <<charges, current, chaosVars>>

\* The INSERT of a lost call lands after all.
OrphanLands(r) ==
    /\ stage[r] = "orphan"
    /\ charges' = IF \E c \in charges : c.key = KeyOf[r]
                  THEN charges
                  ELSE charges \cup {Ledger!RowOf(r)}
    /\ Goes(r, "over")
    /\ UNCHANGED <<current, answers, inflight, chaosVars>>

-------------------------------------------------------------------------------
(* The control routes.                                                     *)

\* A control with n = 0 is refused.
SetControl(m) ==
    /\ mode' = m
    /\ armed' = m.remaining
    /\ injected' = 0
    /\ UNCHANGED <<callVars, peak, torn>>

ResetPeak ==
    /\ peak' = 0
    /\ torn' = (inflight > 0)
    /\ UNCHANGED <<callVars, mode, armed, injected>>

Next ==
    \/ \E r \in Calls :
          \/ Arrive(r) \/ TrackPeak(r)
          \/ PeekMode(r) \/ WakeUp(r) \/ Decide(r)
          \/ Insert(r) \/ AnswerCreated(r) \/ AnswerExisting(r)
          \/ Lose(r) \/ OrphanLands(r)
    \/ \E m \in Modes : SetControl(m)
    \/ ResetPeak

Spec == Init /\ [][Next]_vars

-------------------------------------------------------------------------------
(* Properties.                                                             *)

\* The service keeps the promise of ChargeLedger: one row per key, no answer a
\* later look at the ledger would contradict, and no charge by a rejected call -
\* with any interleaving of calls, timeouts and controls.
ImplementsLedger == Ledger!Spec

\* The counter equals the calls whose guard lives, also when calls are dropped
\* in the middle.
InflightIsExact == inflight = Cardinality(Within(Guarded))

\* The peak is no lower than the number of calls in flight that reported, as
\* long as it was last reset with nothing in flight.
PeakCoversInflight == ~torn => peak >= Cardinality(Within(Guarded \ {"counted"}))

\* The evidence for bounded concurrency neither drifts nor falls short of what
\* was in flight, though the counter is raised and the peak follows later.
ConcurrencyIsWitnessed == InflightIsExact /\ PeakCoversInflight

\* fail_next fails exactly the next n calls that reach a decision, however many
\* decide concurrently or were delayed under an earlier mode.
FailNextIsExact ==
    armed > 0 => mode.remaining + injected = armed

===============================================================================
