------------------------------- MODULE Submission -------------------------------
(***************************************************************************)
(* What becomes of a request's values: validation by the API, the columns  *)
(* they are stored in, validation again by the worker that executes the    *)
(* job and by the charge service it calls, and the charges table.  Three   *)
(* programs must agree on what a charge is, or an accepted job can only    *)
(* die.  Downstream failures are left out (see ReliableQ); what a retry    *)
(* may ask for is here, for its bounds are validation's.                   *)
(*                                                                         *)
(* A text is what is tested of it: its length in characters and in bytes,  *)
(* and whether it is blank, three uppercase letters' alphabet, or has a    *)
(* NUL, which neither text nor jsonb columns can hold.                     *)
(***************************************************************************)
EXTENDS Null

CONSTANTS
    Texts,             \* the texts clients use
    Amounts,           \* the amounts they use
    MaxKindLen, MaxCustomerIdLen,
    MaxMaxAttempts,    \* MAX_MAX_ATTEMPTS
    RetryIncrement,    \* DEFAULT_RETRY_BUDGET_INCREMENT
    MaxAttemptsEver    \* bound on the attempts explored

Text == [chars : Nat, bytes : Nat, blank : BOOLEAN, uppercase : BOOLEAN, nul : BOOLEAN]

ASSUME SubmissionAssumption ==
    /\ Texts \subseteq Text
    /\ \A t \in Texts : t.bytes >= t.chars
    /\ Amounts \subseteq Int
    /\ {MaxKindLen, MaxCustomerIdLen, MaxMaxAttempts, RetryIncrement} \subseteq Nat \ {0}
    /\ MaxAttemptsEver \in Nat
    /\ NULL \notin {"INVALID_PAYLOAD", "INVALID_CHARGE", "CHARGE_NOT_STORED"}

VARIABLES
    request,  \* the submission
    row,      \* the jobs row, once committed
    call,     \* the body the worker's request carries
    answer    \* the last answer or error code somebody got

submissionVars == <<request, row, call, answer>>

-------------------------------------------------------------------------------
(* reliableq-core::validation.                                             *)

\* A misshapen payload lacks a field, or has one of another type.
Misshapen == [shape |-> FALSE]
Payloads ==
    {Misshapen} \cup
    [shape : {TRUE}, customer_id : Texts, amount_cents : Amounts, currency : Texts]

KindOk(kind) == ~kind.blank /\ kind.bytes <= MaxKindLen

MaxAttemptsOk(max_attempts) == max_attempts \in 1 .. MaxMaxAttempts

ChargePayloadOk(payload) ==
    /\ ~payload.customer_id.blank
    /\ payload.customer_id.bytes <= MaxCustomerIdLen
    /\ payload.amount_cents > 0
    /\ payload.currency.bytes = 3 /\ payload.currency.uppercase

ParsesAsCharge(payload) == payload.shape /\ ChargePayloadOk(payload)

-------------------------------------------------------------------------------
(* What PostgreSQL accepts for the columns.                                *)

Storable(payload) ==
    payload.shape => ~payload.customer_id.nul /\ ~payload.currency.nul

JobRowOk(kind, payload, max_attempts) ==
    ~kind.nul /\ Storable(payload) /\ max_attempts >= 1

ChargeRowOk(payload) == Storable(payload) /\ payload.amount_cents > 0

-------------------------------------------------------------------------------
SubmissionInit ==
    /\ request \in [kind : Texts, payload : Payloads, max_attempts : 0 .. MaxMaxAttempts + 1]
    /\ row = NULL
    /\ call = NULL
    /\ answer = NULL

\* Mutant: the payload is not looked at.
AcceptsByKind(r) == KindOk(r.kind) /\ MaxAttemptsOk(r.max_attempts)

Accepts(r) ==
    /\ KindOk(r.kind)
    /\ MaxAttemptsOk(r.max_attempts)
    /\ ParsesAsCharge(r.payload)

\* submit_job: 400 by validation, 500 by the database, or 202.
SubmitJob ==
    /\ row = NULL
    /\ answer = NULL
    /\ IF ~Accepts(request) THEN answer' = "INVALID_ARGUMENT" /\ UNCHANGED row
       ELSE IF ~JobRowOk(request.kind, request.payload, request.max_attempts)
       THEN answer' = "INTERNAL" /\ UNCHANGED row
       ELSE /\ answer' = "ACCEPTED"
            /\ row' = [status |-> "PENDING", attempts |-> 0, payload |-> request.payload,
                       max_attempts |-> request.max_attempts]
    /\ UNCHANGED <<request, call>>

\* A claim, and execute_charge up to its request: the row's payload is parsed
\* again and its three fields are sent.
Execute ==
    /\ row # NULL
    /\ row.status = "PENDING"
    /\ row.attempts < row.max_attempts
    /\ row.attempts < MaxAttemptsEver
    /\ IF ParsesAsCharge(row.payload)
       THEN /\ row' = [row EXCEPT !.status = "RUNNING", !.attempts = @ + 1]
            /\ call' = row.payload
            /\ UNCHANGED answer
       ELSE /\ row' = [row EXCEPT !.status = "DEAD", !.attempts = @ + 1]
            /\ answer' = "INVALID_PAYLOAD"
            /\ UNCHANGED call
    /\ UNCHANGED request

\* create_charge, and what the worker makes of its answer.
CreateCharge ==
    /\ call # NULL
    /\ call' = NULL
    /\ LET error == IF ~ParsesAsCharge(call) THEN "INVALID_CHARGE"
                    ELSE IF ~ChargeRowOk(call) THEN "CHARGE_NOT_STORED"
                    ELSE NULL
       IN  IF error # NULL
           THEN answer' = error /\ row' = [row EXCEPT !.status = "DEAD"]
           ELSE answer' = "CHARGED" /\ row' = [row EXCEPT !.status = "SUCCEEDED"]
    /\ UNCHANGED request

\* Failures of the service, of the network or of the worker: the job waits for
\* its next attempt, or is dead when it has had its last.
FailDownstream ==
    /\ call # NULL
    /\ call' = NULL
    /\ row' = [row EXCEPT !.status = IF row.attempts < row.max_attempts
                                     THEN "PENDING" ELSE "DEAD"]
    /\ answer' = "DOWNSTREAM"
    /\ UNCHANGED request

\* What retry_job makes of the body's max_attempts, or of its absence.
BudgetOk(budget) == MaxAttemptsOk(budget) /\ budget > row.attempts
NewBudget(budget) == IF budget = NULL THEN row.attempts + RetryIncrement ELSE budget

RetryJob(budget) ==
    /\ row # NULL
    /\ row.status = "DEAD"
    /\ IF budget = NULL \/ BudgetOk(budget)
       THEN /\ row' = [row EXCEPT !.status = "PENDING", !.max_attempts = NewBudget(budget)]
            /\ answer' = "RETRIED"
       ELSE answer' = "INVALID_ARGUMENT" /\ UNCHANGED row
    /\ UNCHANGED <<request, call>>

SubmissionNext ==
    \/ SubmitJob
    \/ Execute
    \/ CreateCharge
    \/ FailDownstream
    \/ \E budget \in 0 .. MaxMaxAttempts + 1 \cup {NULL} : RetryJob(budget)

SubmissionSpec == SubmissionInit /\ [][SubmissionNext]_submissionVars

-------------------------------------------------------------------------------
(* Properties.                                                             *)

\* What was accepted can be executed: worker and charge service parse the
\* stored payload as the API did, and the charges table takes it.
AcceptedIsExecutable ==
    answer \notin {"INVALID_PAYLOAD", "INVALID_CHARGE", "CHARGE_NOT_STORED"}

===============================================================================
