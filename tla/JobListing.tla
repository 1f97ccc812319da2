------------------------------- MODULE JobListing -------------------------------
(***************************************************************************)
(* GET /v1/jobs and GET /v1/dead-jobs: cursor pagination over              *)
(* (created_at, id), while jobs are submitted and move on.  One client     *)
(* follows next_cursor until there is none.                                *)
(*                                                                         *)
(* created_at is now(), the moment a submission's INSERT began; the row is *)
(* visible when it committed.  Two submissions may therefore become        *)
(* visible in the other order than their keys.                             *)
(***************************************************************************)
EXTENDS Null, Sequences, FiniteSets

CONSTANTS
    NumJobs,       \* ids are 1 .. NumJobs; as UUIDs, they say nothing of time
    MaxTime,       \* bound on the clock
    MaxListLimit   \* MAX_LIST_LIMIT

ASSUME ListingAssumption ==
    /\ NumJobs \in Nat \ {0}
    /\ MaxTime \in Nat
    /\ MaxListLimit \in Nat \ {0}
    /\ NULL \notin {"PENDING", "RUNNING", "SUCCEEDED", "DEAD"}
    /\ NULL \notin [created_at : Nat, id : 1 .. NumJobs]

VARIABLES
    clock,      \* now()
    submitted,  \* submitted[j]: [seen: committed?, created_at, status]
    listing,    \* the client's listing: pc, filter, cursor
    listed,     \* the ids it was given, in order
    owed        \* ghost: committed when the listing began, and matching ever since

listingVars == <<clock, submitted, listing, listed, owed>>

-------------------------------------------------------------------------------
JobIds == 1 .. NumJobs
ListedStatuses == {"PENDING", "RUNNING", "SUCCEEDED", "DEAD"}

Unsubmitted == [seen |-> FALSE, created_at |-> NULL, status |-> "PENDING"]

NoListing == [pc |-> "idle", filter |-> NULL, cursor |-> NULL]

ListingInit ==
    /\ clock = 0
    /\ submitted = [j \in JobIds |-> Unsubmitted]
    /\ listing = NoListing
    /\ listed = <<>>
    /\ owed = {}

\* encode_cursor: what the cursor names, time and id, survives its formatting:
\* to_rfc3339 keeps the microseconds PostgreSQL keeps.
EncodeCursor(j) == [created_at |-> submitted[j].created_at, id |-> j]

Precedes(k, l) ==
    \/ k.created_at < l.created_at
    \/ k.created_at = l.created_at /\ k.id < l.id

\* Mutants: the comparison without the id, and one that is not strict.
AfterByTime(j, cursor)  == cursor # NULL => cursor.created_at < submitted[j].created_at
AtOrAfter(j, cursor)    == cursor # NULL => ~Precedes(EncodeCursor(j), cursor)

\* $2 IS NULL OR (created_at, id) > ($2, $3)
After(j, cursor) == cursor # NULL => Precedes(cursor, EncodeCursor(j))

Matches(j, filter) == submitted[j].seen /\ filter \in {NULL, submitted[j].status}

Rows(filter, cursor) == {j \in JobIds : Matches(j, filter) /\ After(j, cursor)}

Smaller(a, b) == IF a <= b THEN a ELSE b

Before(j, rows) == {i \in rows : Precedes(EncodeCursor(i), EncodeCursor(j))}

\* list_jobs in reliableq-db: what the statement returns, ORDER BY created_at,
\* id LIMIT.  The n-th of the rows has n - 1 of them before it.
Page(filter, cursor, limit) ==
    LET rows == Rows(filter, cursor)
    IN  [n \in 1 .. Smaller(limit, Cardinality(rows)) |->
            CHOOSE j \in rows : Cardinality(Before(j, rows)) = n - 1]

\* A full page may have been the last one; then the next is empty.
NextCursor(page, limit) ==
    IF Len(page) = limit THEN EncodeCursor(page[limit]) ELSE NULL

-------------------------------------------------------------------------------
(* Submissions, and the jobs' lives as far as a status filter sees them.   *)

BeginInsert(j) ==
    /\ submitted[j].created_at = NULL
    /\ submitted' = [submitted EXCEPT ![j].created_at = clock]
    /\ UNCHANGED <<clock, listing, listed, owed>>

CommitInsert(j) ==
    /\ submitted[j].created_at # NULL
    /\ ~submitted[j].seen
    /\ submitted' = [submitted EXCEPT ![j].seen = TRUE]
    /\ UNCHANGED <<clock, listing, listed, owed>>

\* DESIGN.md sec. 3.  No transition writes created_at.
Transitions == {<<"PENDING", "RUNNING">>, <<"RUNNING", "PENDING">>, <<"RUNNING", "SUCCEEDED">>,
                <<"RUNNING", "DEAD">>, <<"DEAD", "PENDING">>}

Move(j) ==
    /\ submitted[j].seen
    /\ \E move \in Transitions :
          /\ submitted[j].status = move[1]
          /\ submitted' = [submitted EXCEPT ![j].status = move[2]]
    /\ owed' = IF listing.filter = NULL THEN owed ELSE owed \ {j}
    /\ UNCHANGED <<clock, listing, listed>>

ListingTick ==
    /\ clock < MaxTime
    /\ clock' = clock + 1
    /\ UNCHANGED <<submitted, listing, listed, owed>>

-------------------------------------------------------------------------------
(* The client and the handlers.                                            *)

\* list_jobs with any filter, list_dead_jobs with DEAD.
BeginListing(filter) ==
    /\ listing.pc = "idle"
    /\ listing' = [NoListing EXCEPT !.pc = "listing", !.filter = filter]
    /\ owed' = {j \in JobIds : Matches(j, filter)}
    /\ UNCHANGED <<clock, submitted, listed>>

\* list_jobs_with_status.  A limit outside 1 .. MAX_LIST_LIMIT is refused
\* before anything is read, and the client is where it was.
ListPage(limit) ==
    /\ listing.pc = "listing"
    /\ limit \in 1 .. MaxListLimit
    /\ LET page == Page(listing.filter, listing.cursor, limit)
           next == NextCursor(page, limit)
       IN  /\ listed' = listed \o page
           /\ listing' = IF next = NULL THEN [listing EXCEPT !.pc = "done", !.cursor = NULL]
                         ELSE [listing EXCEPT !.cursor = next]
    /\ UNCHANGED <<clock, submitted, owed>>

ListingNext ==
    \/ \E j \in JobIds : BeginInsert(j) \/ CommitInsert(j) \/ Move(j)
    \/ ListingTick
    \/ \E filter \in ListedStatuses \cup {NULL} : BeginListing(filter)
    \/ \E limit \in 0 .. MaxListLimit + 1 : ListPage(limit)

ListingSpec == ListingInit /\ [][ListingNext]_listingVars

-------------------------------------------------------------------------------
(* Properties.                                                             *)

\* Whatever is submitted or moves meanwhile, what a client is given is sorted
\* by (created_at, id), so no job comes twice: not even one that left the
\* filter and came back, for its key never changes.  Following next_cursor
\* therefore ends, also for a client that asks for one job at a time.
ListedInOrder ==
    \A m, n \in DOMAIN listed : m < n =>
        Precedes(EncodeCursor(listed[m]), EncodeCursor(listed[n]))

\* A finished listing has every job that was committed when it began and
\* matched throughout.  What it may lack is a job that became visible later,
\* behind the cursor, or that did not match all the time.
NothingOwedIsSkipped ==
    listing.pc = "done" => owed \subseteq {listed[n] : n \in DOMAIN listed}

\* No job comes twice, so the client is given at most as many as there are; and
\* a page that is not the last brings something.  A listing asks for at most one
\* page per job, and then for the last.
AtMostOnce == Len(listed) <= NumJobs

PageGetsOn ==
    \A limit \in 1 .. MaxListLimit :
        ListPage(limit) => listing'.pc = "done" \/ Len(listed') > Len(listed)

===============================================================================
