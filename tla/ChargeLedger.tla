----------------------------- MODULE ChargeLedger -----------------------------
(***************************************************************************)
(* What the charge service promises (DESIGN.md sec. 1, guarantee 3): an    *)
(* append-only ledger with one row per idempotency key, and answers that   *)
(* say the truth about it.  A call takes effect at most once, at any time  *)
(* after it was made - even after it was answered, if that answer was only *)
(* that the service does not know ("lost": a timeout or an error).         *)
(***************************************************************************)
CONSTANTS
    Calls,       \* the requests to POST /v1/charges
    KeyOf,       \* KeyOf[r]: the idempotency key of call r
    PayloadOf    \* PayloadOf[r]: customer, amount and currency

VARIABLES
    charges,     \* rows [key, payload, by]; by is the call that inserted it
    answers      \* answers[r]

Answers == {"none", "created", "replayed", "conflict", "rejected", "lost"}

RowOf(r) == [key |-> KeyOf[r], payload |-> PayloadOf[r], by |-> r]

Found(r) == {c \in charges : c.key = KeyOf[r]}

Init ==
    /\ charges = {}
    /\ answers = [r \in Calls |-> "none"]

Record(r) ==
    /\ Found(r) = {}
    /\ answers[r] \in {"none", "lost"}
    /\ charges' = charges \cup {RowOf(r)}
    /\ UNCHANGED answers

Truthful(r, answer) ==
    CASE answer = "created"  -> RowOf(r) \in charges
      [] answer = "replayed" -> \E c \in Found(r) : c.payload = PayloadOf[r] /\ c.by # r
      [] answer = "conflict" -> \E c \in Found(r) : c.payload # PayloadOf[r]
      [] answer = "rejected" -> RowOf(r) \notin charges
      [] answer = "lost"     -> TRUE

Answer(r) ==
    /\ answers[r] = "none"
    /\ \E answer \in Answers \ {"none"} :
          /\ Truthful(r, answer)
          /\ answers' = [answers EXCEPT ![r] = answer]
    /\ UNCHANGED charges

Next == \E r \in Calls : Record(r) \/ Answer(r)

Spec == Init /\ [][Next]_<<charges, answers>>

===============================================================================
