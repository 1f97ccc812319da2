----------------------------- MODULE ClaimTxProofs -----------------------------
(***************************************************************************)
(* A claim that lives shorter than a lease is as good as one step: what    *)
(* its three statements do between them, next to other claims,             *)
(* finalizations and renewals, closes every superseded attempt and takes   *)
(* each job through legal transitions only.                                *)
(*                                                                         *)
(* The argument is NoneMissed.  A claim picks the attempts it closes from  *)
(* the snapshot of its first statement, and the rows it takes from that of *)
(* its third.  A lease it sees expired in the third was expired in the     *)
(* first as well, because whoever wrote the row in between - a renewal, or *)
(* another claim's commit - left it a lease that ends after this claim's   *)
(* now().  That needs TxTime < LeaseDuration, and run SlowClaim shows what *)
(* happens without it.  The rest of ClaimInv says what a claim has written *)
(* and not committed, and that no two claims have written the same row.    *)
(***************************************************************************)
EXTENDS ClaimTx, TLAPS

-------------------------------------------------------------------------------
(* The invariant.                                                          *)

Row == [status : {"ABSENT", "PENDING", "RUNNING", "SUCCEEDED", "DEAD"},
        attempts : 0 .. MaxAttempts, ready : Int]

Attempt == Jobs \X (1 .. MaxAttempts)

ClaimState ==
    [pc : {"idle", "begun", "closing", "exhausted", "taken"}, age : 0 .. TxTime,
     todo : SUBSET Attempt,
     rows : UNION {[S -> Row] : S \in SUBSET Jobs},
     marks : UNION {[S -> {"OPEN", "LEASE_LOST"}] : S \in SUBSET Attempt}]

Outcome == {"OPEN", "LEASE_LOST", "SUCCEEDED", "RETRY_SCHEDULED", "DEAD"}

FinalState ==
    [status : {"none", "SUCCEEDED", "PENDING", "DEAD"},
     outcome : {"none", "SUCCEEDED", "RETRY_SCHEDULED", "DEAD"}, ready : Int]

TypeOK ==
    /\ jobs \in [Jobs -> Row]
    /\ trail \in [Jobs -> UNION {[1 .. n -> Outcome] : n \in 0 .. MaxAttempts}]
    /\ claims \in [Claims -> ClaimState]
    /\ finals \in [Jobs -> FinalState]

Rows(c)  == DOMAIN claims[c].rows
Marks(c) == DOMAIN claims[c].marks

\* The newest attempt of j is open.
IsOpen(j) == jobs[j].attempts > 0 /\ trail[j][jobs[j].attempts] = "OPEN"

\* The committed row of a job and its trail agree.
JobOk(j) ==
    /\ DOMAIN trail[j] = 1 .. jobs[j].attempts
    /\ \A n \in 1 .. jobs[j].attempts :
          trail[j][n] = "OPEN" => n = jobs[j].attempts
    /\ IF jobs[j].status = "RUNNING"
       THEN /\ jobs[j].attempts > 0
            /\ trail[j][jobs[j].attempts] \in {"OPEN", "LEASE_LOST"}
       ELSE ~IsOpen(j)
    /\ jobs[j].status = "ABSENT" => jobs[j].attempts = 0
    /\ finals[j] # NoFinal =>
          /\ jobs[j].status = "RUNNING"
          /\ \/ finals[j].status = "SUCCEEDED" /\ finals[j].outcome = "SUCCEEDED"
             \/ finals[j].status = "PENDING" /\ finals[j].outcome = "RETRY_SCHEDULED"
             \/ finals[j].status = "DEAD" /\ finals[j].outcome = "DEAD"

\* What a claim wrote to job_attempts: it closed the newest attempt of a job, or
\* inserted the next one of a job it took.
MarkOk(c, a) ==
    LET j == a[1]  n == a[2] IN
    \/ /\ claims[c].marks[a] = "LEASE_LOST"
       /\ n = jobs[j].attempts
       /\ trail[j][n] = "OPEN"
    \/ /\ claims[c].marks[a] = "OPEN"
       /\ n = jobs[j].attempts + 1
       /\ j \in Rows(c)
       /\ claims[c].rows[j].status = "RUNNING"

\* What a claim wrote to jobs: rows it buried, and rows it took.  It has closed
\* the attempt that was open in either.
RowOk(c, j) ==
    /\ finals[j] = NoFinal
    /\ IsOpen(j) => <<j, jobs[j].attempts>> \in Marks(c)
    /\ \/ /\ claims[c].rows[j].status = "DEAD"
          /\ claims[c].rows[j].attempts = jobs[j].attempts
          /\ jobs[j].status = "RUNNING"
       \/ /\ claims[c].rows[j].status = "RUNNING"
          /\ claims[c].rows[j].attempts = jobs[j].attempts + 1
          /\ claims[c].rows[j].ready = LeaseDuration - claims[c].age
          /\ jobs[j].status \in {"PENDING", "RUNNING"}
          /\ <<j, jobs[j].attempts + 1>> \in Marks(c)

\* A claim that looks for rows to take has visited the attempt of every lease it
\* sees expired, or is about to.
NoneMissed(c) ==
    claims[c].pc \in {"closing", "exhausted"} =>
        \A j \in Jobs : ExpiredFor(c, jobs[j]) /\ IsOpen(j) =>
            <<j, jobs[j].attempts>> \in claims[c].todo \cup Marks(c)

\* What a claim has written and has left to do, by the statement it has reached.
StageOk(c) ==
    /\ claims[c].pc = "idle" => claims[c].age = 0
    /\ claims[c].pc \in {"idle", "begun"} => Marks(c) = {}
    /\ claims[c].pc \in {"idle", "begun", "closing"} => Rows(c) = {}
    /\ claims[c].pc # "closing" => claims[c].todo = {}
    /\ \A a \in claims[c].todo : a[2] \in DOMAIN trail[a[1]]

ClaimOk(c) ==
    /\ StageOk(c)
    /\ \A a \in Marks(c) : MarkOk(c, a)
    /\ \A j \in Rows(c) : RowOk(c, j)
    /\ NoneMissed(c)

\* No two claims have written the same row.
Apart(c, d) == Rows(c) \cap Rows(d) = {} /\ Marks(c) \cap Marks(d) = {}

ClaimInv ==
    /\ TypeOK
    /\ \A j \in Jobs : JobOk(j)
    /\ \A c \in Claims : ClaimOk(c)
    /\ \A c, d \in Claims : c # d => Apart(c, d)

-------------------------------------------------------------------------------
(* What the types say of one claim, one row and one trail.                 *)

LEMMA ClaimFacts ==
    ASSUME TypeOK, NEW c \in Claims
    PROVE  /\ claims[c] \in ClaimState
           /\ claims[c].pc \in {"idle", "begun", "closing", "exhausted", "taken"}
           /\ claims[c].age \in 0 .. TxTime /\ claims[c].age \in Nat
           /\ claims[c].todo \subseteq Attempt
           /\ Rows(c) \subseteq Jobs
           /\ claims[c].rows \in [Rows(c) -> Row]
           /\ Marks(c) \subseteq Attempt
           /\ claims[c].marks \in [Marks(c) -> {"OPEN", "LEASE_LOST"}]
BY ClaimTxAssumption DEF TypeOK, ClaimState, Rows, Marks

LEMMA JobFacts ==
    ASSUME TypeOK, NEW j \in Jobs
    PROVE  /\ jobs[j] \in Row
           /\ jobs[j].attempts \in 0 .. MaxAttempts /\ jobs[j].attempts \in Nat
           /\ jobs[j].ready \in Int
           /\ finals[j] \in FinalState
           /\ trail[j] \in UNION {[1 .. n -> Outcome] : n \in 0 .. MaxAttempts}
           /\ trail[j] \in [DOMAIN trail[j] -> Outcome]
           /\ DOMAIN trail[j] \subseteq 1 .. MaxAttempts
<1>1. /\ jobs[j] \in Row /\ finals[j] \in FinalState
      /\ trail[j] \in UNION {[1 .. n -> Outcome] : n \in 0 .. MaxAttempts}
  BY DEF TypeOK
<1>2. PICK n \in 0 .. MaxAttempts : trail[j] \in [1 .. n -> Outcome]  BY <1>1
<1>3. trail[j] \in [DOMAIN trail[j] -> Outcome] /\ DOMAIN trail[j] \subseteq 1 .. MaxAttempts
  BY <1>2, ClaimTxAssumption
<1>4. QED  BY <1>1, <1>3, ClaimTxAssumption DEF Row

LEMMA ClaimStateType ==
    ASSUME NEW pc \in {"idle", "begun", "closing", "exhausted", "taken"},
           NEW age \in 0 .. TxTime, NEW todo \in SUBSET Attempt,
           NEW S \in SUBSET Jobs, NEW rows \in [S -> Row],
           NEW T \in SUBSET Attempt, NEW marks \in [T -> {"OPEN", "LEASE_LOST"}]
    PROVE  [pc |-> pc, age |-> age, todo |-> todo, rows |-> rows, marks |-> marks]
              \in ClaimState
<1>1. rows \in UNION {[U -> Row] : U \in SUBSET Jobs}  OBVIOUS
<1>2. marks \in UNION {[U -> {"OPEN", "LEASE_LOST"}] : U \in SUBSET Attempt}  OBVIOUS
<1>3. QED  BY <1>1, <1>2 DEF ClaimState

LEMMA NoClaimType ==
    /\ NoClaim \in ClaimState
    /\ NoClaim.pc = "idle" /\ NoClaim.age = 0 /\ NoClaim.todo = {}
    /\ DOMAIN NoClaim.rows = {} /\ DOMAIN NoClaim.marks = {}
<1>1. [j \in {} |-> NoRow] \in [{} -> Row]  OBVIOUS
<1>2. [a \in {} |-> "OPEN"] \in [{} -> {"OPEN", "LEASE_LOST"}]  OBVIOUS
<1>3. 0 \in 0 .. TxTime  BY ClaimTxAssumption
<1>4. [pc |-> "idle", age |-> 0, todo |-> {}, rows |-> [j \in {} |-> NoRow],
       marks |-> [a \in {} |-> "OPEN"]] \in ClaimState
  <2> DEFINE r == [j \in {} |-> NoRow]
             m == [a \in {} |-> "OPEN"]
  <2>1. r \in [{} -> Row] /\ m \in [{} -> {"OPEN", "LEASE_LOST"}]  BY <1>1, <1>2
  <2> HIDE DEF r, m
  <2>2. [pc |-> "idle", age |-> 0, todo |-> {}, rows |-> r, marks |-> m] \in ClaimState
    BY <1>3, <2>1, ClaimStateType
  <2>3. QED  BY <2>2 DEF r, m
<1>5. QED  BY <1>4 DEF NoClaim

LEMMA InitInv == Init => ClaimInv
<1> SUFFICES ASSUME Init  PROVE ClaimInv
  OBVIOUS
<1>1. NoRow \in Row /\ NoFinal \in FinalState
  BY ClaimTxAssumption DEF NoRow, NoFinal, Row, FinalState
<1>2. \A j \in Jobs : trail[j] = [n \in {} |-> "OPEN"] /\ trail[j] \in [1 .. 0 -> Outcome]
  <2>1. 1 .. 0 = {}  OBVIOUS
  <2>2. QED  BY <2>1 DEF Init
<1>3. TypeOK
  <2>1. 0 \in 0 .. MaxAttempts  BY ClaimTxAssumption
  <2>2. \A j \in Jobs :
           trail[j] \in UNION {[1 .. n -> Outcome] : n \in 0 .. MaxAttempts}
    BY <1>2, <2>1
  <2>3. QED  BY <1>1, <2>2, NoClaimType DEF Init, TypeOK
<1>4. \A j \in Jobs : JobOk(j)
  <2>1. \A j \in Jobs : DOMAIN trail[j] = 1 .. 0  BY <1>2
  <2>2. QED  BY <2>1 DEF Init, JobOk, IsOpen, NoRow
<1>5. \A c \in Claims : claims[c] = NoClaim  BY DEF Init
<1>6. \A c \in Claims : ClaimOk(c)
  BY <1>5, NoClaimType DEF ClaimOk, StageOk, NoneMissed, Rows, Marks
<1>7. \A c, d \in Claims : Apart(c, d)
  BY <1>5, NoClaimType DEF Apart, Rows, Marks
<1>8. QED  BY <1>3, <1>4, <1>6, <1>7 DEF ClaimInv

-------------------------------------------------------------------------------
(* Steps of one claim that commit nothing.                                 *)

StaysApart(c, cl) ==
    \A d \in Claims \ {c} :
        DOMAIN cl.rows \cap Rows(d) = {} /\ DOMAIN cl.marks \cap Marks(d) = {}

\* It is enough that the claim keeps its own part, and stays apart.
LEMMA OneClaim ==
    ASSUME ClaimInv, NEW c \in Claims, NEW cl \in ClaimState,
           claims' = [claims EXCEPT ![c] = cl], UNCHANGED <<jobs, trail, finals>>,
           ClaimOk(c)', StaysApart(c, cl)
    PROVE  ClaimInv'
<1>1. claims'[c] = cl /\ \A d \in Claims \ {c} : claims'[d] = claims[d]
  BY DEF ClaimInv, TypeOK
<1>2. TypeOK'  BY DEF ClaimInv, TypeOK
<1>3. \A j \in Jobs : JobOk(j)'  BY DEF ClaimInv, JobOk, IsOpen
<1>4. \A d \in Claims \ {c} : ClaimOk(d)'
  BY <1>1 DEF ClaimInv, ClaimOk, StageOk, MarkOk, RowOk, NoneMissed, IsOpen, ExpiredFor,
              ReadyFor, Rows, Marks
<1>5. \A d, e \in Claims : d # e => Apart(d, e)'
  BY <1>1 DEF ClaimInv, Apart, StaysApart, Rows, Marks
<1>6. QED  BY <1>1, <1>2, <1>3, <1>4, <1>5 DEF ClaimInv

LEMMA BeginInv ==
    ASSUME ClaimInv, NEW c \in Claims, Begin(c)
    PROVE  ClaimInv'
<1> DEFINE cl == [claims[c] EXCEPT !.pc = "begun"]
<1>1. claims[c] \in ClaimState  BY ClaimFacts DEF ClaimInv
<1>2. /\ cl \in ClaimState /\ cl.pc = "begun" /\ cl.todo = claims[c].todo
      /\ cl.rows = claims[c].rows /\ cl.marks = claims[c].marks
  BY <1>1 DEF ClaimState
<1>3. claims' = [claims EXCEPT ![c] = cl] /\ UNCHANGED <<jobs, trail, finals>>
  BY DEF Begin
<1>4. claims[c].pc = "idle" /\ StageOk(c)  BY DEF Begin, ClaimInv, ClaimOk
<1> HIDE DEF cl
<1>5. claims'[c] = cl  BY <1>3 DEF ClaimInv, TypeOK
<1>6. ClaimOk(c)'
  BY <1>2, <1>4, <1>5 DEF ClaimOk, StageOk, NoneMissed, Rows, Marks
<1>7. StaysApart(c, cl)  BY <1>2 DEF ClaimInv, Apart, StaysApart, Rows, Marks
<1>8. QED  BY <1>2, <1>3, <1>6, <1>7, OneClaim

LEMMA FindLostInv ==
    ASSUME ClaimInv, NEW c \in Claims, FindLost(c)
    PROVE  ClaimInv'
<1> DEFINE lost == UNION {{<<j, n>> : n \in {m \in DOMAIN trail[j] : trail[j][m] = "OPEN"}} :
                             j \in {i \in Jobs : ExpiredFor(c, jobs[i])}}
           cl == [claims[c] EXCEPT !.pc = "closing", !.todo = lost]
<1>1. claims[c] \in ClaimState  BY ClaimFacts DEF ClaimInv
<1>2. \A a \in lost : /\ a[1] \in Jobs /\ a[2] \in DOMAIN trail[a[1]] /\ a = <<a[1], a[2]>>
  OBVIOUS
<1>3. lost \subseteq Attempt
  <2>1. \A j \in Jobs : DOMAIN trail[j] \subseteq 1 .. MaxAttempts
    BY JobFacts DEF ClaimInv
  <2>2. QED  BY <1>2, <2>1 DEF Attempt
<1>4. \A j \in Jobs : ExpiredFor(c, jobs[j]) /\ IsOpen(j) => <<j, jobs[j].attempts>> \in lost
  <2> TAKE j \in Jobs
  <2> HAVE ExpiredFor(c, jobs[j]) /\ IsOpen(j)
  <2>1. jobs[j].attempts \in {m \in DOMAIN trail[j] : trail[j][m] = "OPEN"}
    BY JobFacts DEF IsOpen, ClaimInv, JobOk
  <2>2. QED  BY <2>1
<1> HIDE DEF lost
<1>5. /\ cl \in ClaimState /\ cl.pc = "closing" /\ cl.todo = lost /\ cl.age = claims[c].age
      /\ cl.rows = claims[c].rows /\ cl.marks = claims[c].marks
  BY <1>1, <1>3 DEF ClaimState
<1>6. claims' = [claims EXCEPT ![c] = cl] /\ UNCHANGED <<jobs, trail, finals>>
  BY DEF FindLost, lost
<1> HIDE DEF cl
<1>7. claims[c].pc = "begun" /\ StageOk(c)  BY DEF FindLost, ClaimInv, ClaimOk
<1>8. claims'[c] = cl  BY <1>6 DEF ClaimInv, TypeOK
<1>9. ClaimOk(c)'
  <2>1. StageOk(c)'
    BY <1>2, <1>5, <1>6, <1>7, <1>8 DEF StageOk, Rows, Marks
  <2>2. Rows(c)' = {} /\ Marks(c)' = {}
    BY <1>5, <1>7, <1>8 DEF StageOk, Rows, Marks
  <2>3. NoneMissed(c)'
    BY <1>4, <1>5, <1>6, <1>8 DEF NoneMissed, ExpiredFor, ReadyFor, IsOpen, Marks
  <2>4. QED  BY <2>1, <2>2, <2>3 DEF ClaimOk
<1>10. StaysApart(c, cl)  BY <1>5 DEF ClaimInv, Apart, StaysApart, Rows, Marks
<1>11. QED  BY <1>5, <1>6, <1>9, <1>10, OneClaim

LEMMA CloseLostInv ==
    ASSUME ClaimInv, NEW c \in Claims, NEW a \in claims[c].todo, CloseLost(c, a)
    PROVE  ClaimInv'
<1> DEFINE open == trail[a[1]][a[2]] = "OPEN"
           marks == IF open
                    THEN [b \in Marks(c) \cup {a} |->
                             IF b = a THEN "LEASE_LOST" ELSE claims[c].marks[b]]
                    ELSE claims[c].marks
           cl == [claims[c] EXCEPT !.todo = @ \ {a}, !.marks = marks]
<1>1. /\ claims[c] \in ClaimState /\ claims[c].marks \in [Marks(c) -> {"OPEN", "LEASE_LOST"}]
      /\ Marks(c) \subseteq Attempt /\ claims[c].todo \subseteq Attempt
  BY ClaimFacts DEF ClaimInv
<1>2. /\ marks \in UNION {[S -> {"OPEN", "LEASE_LOST"}] : S \in SUBSET Attempt}
      /\ DOMAIN marks = IF open THEN Marks(c) \cup {a} ELSE Marks(c)
      /\ \A b \in DOMAIN marks :
            marks[b] = IF open /\ b = a THEN "LEASE_LOST" ELSE claims[c].marks[b]
  <2>1. CASE open
    <3>1. marks \in [Marks(c) \cup {a} -> {"OPEN", "LEASE_LOST"}]  BY <1>1, <2>1
    <3>2. Marks(c) \cup {a} \in SUBSET Attempt  BY <1>1
    <3>3. QED  BY <2>1, <3>1, <3>2
  <2>2. CASE ~open  BY <1>1, <2>2
  <2>3. QED  BY <2>1, <2>2
<1>3. claims' = [claims EXCEPT ![c] = cl] /\ UNCHANGED <<jobs, trail, finals>>
  BY DEF CloseLost, Marks
<1> HIDE DEF marks
<1>4. /\ cl \in ClaimState /\ cl.pc = "closing" /\ cl.todo = claims[c].todo \ {a}
      /\ cl.age = claims[c].age /\ cl.rows = claims[c].rows /\ cl.marks = marks
  BY <1>1, <1>2 DEF ClaimState, CloseLost
<1> HIDE DEF cl
<1>5. claims'[c] = cl  BY <1>3 DEF ClaimInv, TypeOK
<1>6. /\ claims[c].pc = "closing" /\ StageOk(c) /\ NoneMissed(c)
      /\ \A b \in Marks(c) : MarkOk(c, b)
  BY DEF CloseLost, ClaimInv, ClaimOk
<1>7. ClaimOk(c)'
  <2>1. StageOk(c)'
    BY <1>3, <1>4, <1>5, <1>6 DEF StageOk, Rows, Marks
  <2>2. Rows(c)' = {} /\ Rows(c) = {}
    BY <1>4, <1>5, <1>6 DEF StageOk, Rows
  <2>3. NoneMissed(c)'
    <3> SUFFICES ASSUME NEW j \in Jobs, ExpiredFor(c, jobs[j]), IsOpen(j)
                 PROVE  <<j, jobs[j].attempts>> \in cl.todo \cup DOMAIN marks
      BY <1>3, <1>4, <1>5 DEF NoneMissed, ExpiredFor, ReadyFor, IsOpen, Marks
    <3>1. <<j, jobs[j].attempts>> \in claims[c].todo \cup Marks(c)
      BY <1>6 DEF NoneMissed
    <3>2. <<j, jobs[j].attempts>> = a => open  BY DEF IsOpen
    <3>3. QED  BY <1>2, <1>4, <3>1, <3>2
  <2>4. ASSUME NEW b \in Marks(c)'  PROVE MarkOk(c, b)'
    <3>1. b \in DOMAIN marks /\ claims'[c].marks = marks
      BY <1>4, <1>5 DEF Marks
    <3>2. CASE open /\ b = a
      <4>1. a[1] \in Jobs /\ a[2] \in DOMAIN trail[a[1]] /\ JobOk(a[1])
        BY <1>1, <1>6 DEF StageOk, ClaimInv, Attempt
      <4>2. a[2] = jobs[a[1]].attempts  BY <3>2, <4>1 DEF JobOk
      <4>3. QED  BY <1>2, <1>3, <3>1, <3>2, <4>2 DEF MarkOk
    <3>3. CASE ~(open /\ b = a)
      <4>1. b \in Marks(c) /\ marks[b] = claims[c].marks[b]  BY <1>2, <3>1, <3>3
      <4>2. QED  BY <1>3, <1>6, <2>2, <3>1, <4>1 DEF MarkOk
    <3>4. QED  BY <3>2, <3>3
  <2>5. QED  BY <2>1, <2>2, <2>3, <2>4 DEF ClaimOk
<1>8. StaysApart(c, cl)
  <2>1. \A d \in Claims \ {c} : a \notin Marks(d)
    BY DEF CloseLost, MarkedBy, Marks
  <2>2. \A d \in Claims \ {c} : Apart(c, d)  BY DEF ClaimInv
  <2>3. QED  BY <1>2, <1>4, <2>1, <2>2 DEF StaysApart, Apart, Rows
<1>9. QED  BY <1>3, <1>4, <1>7, <1>8, OneClaim

LEMMA ExhaustInv ==
    ASSUME ClaimInv, NEW c \in Claims, Exhaust(c)
    PROVE  ClaimInv'
<1> DEFINE dead == {j \in Exhausted(c) : ~RowLocked(j)}
           rows == [j \in dead |-> [jobs[j] EXCEPT !.status = "DEAD", !.ready = 0]]
           cl == [claims[c] EXCEPT !.pc = "exhausted", !.rows = rows]
<1>1. claims[c] \in ClaimState  BY ClaimFacts DEF ClaimInv
<1>2. dead \subseteq Jobs /\ \A j \in dead : ExpiredFor(c, jobs[j]) /\ ~RowLocked(j)
  BY DEF Exhausted
<1>3. \A j \in dead : /\ rows[j] \in Row /\ rows[j].status = "DEAD"
                      /\ rows[j].attempts = jobs[j].attempts
  <2> TAKE j \in dead
  <2> DEFINE named == [jobs[j] EXCEPT !.status = "DEAD"]
             buried == [named EXCEPT !.ready = 0]
  <2>1. jobs[j] \in Row  BY <1>2, JobFacts DEF ClaimInv
  <2>2. named \in Row /\ named.status = "DEAD" /\ named.attempts = jobs[j].attempts
    BY <2>1 DEF Row
  <2> HIDE DEF named
  <2>3. buried \in Row /\ buried.status = "DEAD" /\ buried.attempts = jobs[j].attempts
    BY <2>2 DEF Row
  <2>4. rows[j] = buried  BY DEF named
  <2>5. QED  BY <2>3, <2>4
<1>4. DOMAIN rows = dead /\ rows \in UNION {[S -> Row] : S \in SUBSET Jobs}
  <2>1. rows \in [dead -> Row]  BY <1>3
  <2>2. QED  BY <1>2, <2>1
<1>5. claims' = [claims EXCEPT ![c] = cl] /\ UNCHANGED <<jobs, trail, finals>>
  BY DEF Exhaust
<1>6. /\ claims[c].pc = "closing" /\ claims[c].todo = {} /\ StageOk(c) /\ NoneMissed(c)
      /\ \A b \in Marks(c) : MarkOk(c, b)
  BY DEF Exhaust, ClaimInv, ClaimOk
<1> HIDE DEF dead, rows
<1>7. /\ cl \in ClaimState /\ cl.pc = "exhausted" /\ cl.todo = {} /\ cl.age = claims[c].age
      /\ cl.rows = rows /\ cl.marks = claims[c].marks
  BY <1>1, <1>4, <1>6 DEF ClaimState
<1> HIDE DEF cl
<1>8. claims'[c] = cl  BY <1>5 DEF ClaimInv, TypeOK
<1>9. Marks(c)' = Marks(c) /\ Rows(c)' = dead /\ Rows(c) = {}
  BY <1>4, <1>6, <1>7, <1>8 DEF Marks, Rows, StageOk
<1>10. ClaimOk(c)'
  <2>1. StageOk(c)'  BY <1>7, <1>8, <1>9 DEF StageOk
  <2>2. NoneMissed(c)'
    BY <1>5, <1>6, <1>7, <1>8, <1>9 DEF NoneMissed, ExpiredFor, ReadyFor, IsOpen
  <2>3. \A b \in Marks(c)' : MarkOk(c, b)'
    BY <1>5, <1>6, <1>7, <1>8, <1>9 DEF MarkOk
  <2>4. ASSUME NEW j \in dead  PROVE RowOk(c, j)'
    <3>1. finals[j] = NoFinal  BY <1>2 DEF RowLocked
    <3>2. IsOpen(j) => <<j, jobs[j].attempts>> \in Marks(c)
      BY <1>2, <1>6 DEF NoneMissed
    <3>3. jobs[j].status = "RUNNING"  BY <1>2 DEF ExpiredFor
    <3>4. QED
      BY <1>3, <1>5, <1>7, <1>8, <1>9, <3>1, <3>2, <3>3 DEF RowOk, IsOpen
  <2>5. QED  BY <1>9, <2>1, <2>2, <2>3, <2>4 DEF ClaimOk
<1>11. StaysApart(c, cl)
  <2>1. \A d \in Claims \ {c} : dead \cap Rows(d) = {}
    BY <1>2 DEF RowLocked, Rows
  <2>2. \A d \in Claims \ {c} : Apart(c, d)  BY DEF ClaimInv
  <2>3. QED  BY <1>4, <1>7, <2>1, <2>2 DEF StaysApart, Apart, Marks
<1>12. QED  BY <1>5, <1>7, <1>10, <1>11, OneClaim

LEMMA RollbackInv ==
    ASSUME ClaimInv, NEW c \in Claims, Rollback(c)
    PROVE  ClaimInv'
<1>1. claims' = [claims EXCEPT ![c] = NoClaim] /\ UNCHANGED <<jobs, trail, finals>>
  BY DEF Rollback
<1>2. claims'[c] = NoClaim  BY <1>1 DEF ClaimInv, TypeOK
<1>3. ClaimOk(c)'
  BY <1>2, NoClaimType DEF ClaimOk, StageOk, NoneMissed, Rows, Marks
<1>4. StaysApart(c, NoClaim)  BY NoClaimType DEF StaysApart
<1>5. QED  BY <1>1, <1>3, <1>4, NoClaimType, OneClaim

LEMMA TakeInv ==
    ASSUME ClaimInv, NEW c \in Claims, Take(c)
    PROVE  ClaimInv'
<1> DEFINE new(batch) == {<<j, jobs[j].attempts + 1>> : j \in batch}
           taken(j) == [status |-> "RUNNING", attempts |-> jobs[j].attempts + 1,
                        ready |-> LeaseDuration - claims[c].age]
           rows(batch) == [j \in batch \cup Rows(c) |->
                              IF j \in batch THEN taken(j) ELSE claims[c].rows[j]]
           marks(batch) == [a \in new(batch) \cup Marks(c) |->
                              IF a \in new(batch) THEN "OPEN" ELSE claims[c].marks[a]]
           cl(batch) == [claims[c] EXCEPT !.pc = "taken", !.rows = rows(batch),
                                          !.marks = marks(batch)]
<1>1. PICK batch \in SUBSET {j \in DueFor(c) : ~RowLocked(j)} :
         claims' = [claims EXCEPT ![c] = cl(batch)]
  BY DEF Take, Rows, Marks
<1>2. UNCHANGED <<jobs, trail, finals>> /\ claims[c].pc = "exhausted"  BY DEF Take
<1>3. /\ claims[c] \in ClaimState /\ Rows(c) \subseteq Jobs /\ Marks(c) \subseteq Attempt
      /\ claims[c].rows \in [Rows(c) -> Row]
      /\ claims[c].marks \in [Marks(c) -> {"OPEN", "LEASE_LOST"}]
      /\ claims[c].age \in Nat
  BY ClaimFacts DEF ClaimInv
<1>4. /\ StageOk(c) /\ NoneMissed(c) /\ claims[c].todo = {}
      /\ \A b \in Marks(c) : MarkOk(c, b)
      /\ \A j \in Rows(c) : RowOk(c, j)
  BY <1>2 DEF ClaimInv, ClaimOk, StageOk
<1>5. \A j \in batch :
         /\ j \in Jobs /\ j \notin Rows(c) /\ finals[j] = NoFinal
         /\ \A d \in Claims : j \notin Rows(d)
         /\ jobs[j].attempts < MaxAttempts /\ ReadyFor(c, jobs[j])
         /\ jobs[j].attempts \in Nat
  <2> TAKE j \in batch
  <2>1. j \in Jobs /\ j \in DueFor(c) /\ ~RowLocked(j)  BY DEF DueFor
  <2>2. finals[j] = NoFinal /\ \A d \in Claims : j \notin Rows(d)
    BY <2>1 DEF RowLocked, Rows
  <2>3. Seen(c, j) = jobs[j]  BY <2>2 DEF Seen, Rows
  <2>4. QED  BY <2>1, <2>2, <2>3, JobFacts DEF DueFor, ClaimInv
<1>6. \A j \in batch : taken(j) \in Row /\ <<j, jobs[j].attempts + 1>> \in Attempt
  <2> TAKE j \in batch
  <2>1. jobs[j].attempts + 1 \in 1 .. MaxAttempts /\ LeaseDuration - claims[c].age \in Int
    BY <1>3, <1>5, ClaimTxAssumption
  <2>2. QED  BY <1>5, <2>1, ClaimTxAssumption DEF Row, Attempt
<1>7. /\ DOMAIN rows(batch) = batch \cup Rows(c)
      /\ rows(batch) \in UNION {[S -> Row] : S \in SUBSET Jobs}
  <2>1. rows(batch) \in [batch \cup Rows(c) -> Row]  BY <1>3, <1>6
  <2>2. QED  BY <1>3, <1>5, <2>1
<1>8. /\ DOMAIN marks(batch) = new(batch) \cup Marks(c)
      /\ marks(batch) \in UNION {[S -> {"OPEN", "LEASE_LOST"}] : S \in SUBSET Attempt}
  <2>1. marks(batch) \in [new(batch) \cup Marks(c) -> {"OPEN", "LEASE_LOST"}]  BY <1>3
  <2>2. new(batch) \subseteq Attempt  BY <1>6
  <2> HIDE DEF marks, new
  <2>3. new(batch) \cup Marks(c) \in SUBSET Attempt  BY <1>3, <2>2
  <2>4. QED  BY <2>1, <2>3
<1> DEFINE it == cl(batch)
<1>9. /\ it \in ClaimState /\ it.pc = "taken" /\ it.todo = {} /\ it.age = claims[c].age
      /\ it.rows = rows(batch) /\ it.marks = marks(batch)
  <2> HIDE DEF rows, marks, new
  <2>1. QED  BY <1>3, <1>4, <1>7, <1>8 DEF ClaimState
<1>10. claims' = [claims EXCEPT ![c] = it]  BY <1>1
<1> HIDE DEF it, cl
<1>11. claims'[c] = it  BY <1>10 DEF ClaimInv, TypeOK
<1>12. Rows(c)' = batch \cup Rows(c) /\ Marks(c)' = new(batch) \cup Marks(c)
  <2> HIDE DEF rows, marks, new
  <2>1. QED  BY <1>7, <1>8, <1>9, <1>11 DEF Rows, Marks
<1>13. ASSUME NEW b \in Marks(c)'  PROVE MarkOk(c, b)'
  <2>1. claims'[c].marks[b] = IF b \in new(batch) THEN "OPEN" ELSE claims[c].marks[b]
    BY <1>9, <1>11, <1>12, <1>13
  <2>2. CASE b \in new(batch)
    <3>1. PICK j \in batch : b = <<j, jobs[j].attempts + 1>>  BY <2>2
    <3>2. claims'[c].rows[j] = taken(j)  BY <1>9, <1>11, <3>1
    <3>3. claims'[c].rows[j].status = "RUNNING"  BY <3>2
    <3>4. QED  BY <1>2, <1>12, <2>1, <2>2, <3>1, <3>3 DEF MarkOk
  <2>3. CASE b \notin new(batch)
    <3>1. b \in Marks(c) /\ MarkOk(c, b)  BY <1>4, <1>12, <1>13, <2>3
    <3>2. CASE claims[c].marks[b] = "LEASE_LOST"
      BY <1>2, <2>1, <2>3, <3>1, <3>2 DEF MarkOk
    <3>3. CASE claims[c].marks[b] = "OPEN"
      <4>1. /\ b[2] = jobs[b[1]].attempts + 1 /\ b[1] \in Rows(c)
            /\ claims[c].rows[b[1]].status = "RUNNING"
        BY <3>1, <3>3 DEF MarkOk
      <4>2. claims'[c].rows[b[1]] = claims[c].rows[b[1]]
        BY <1>5, <1>9, <1>11, <4>1
      <4>3. QED  BY <1>2, <1>12, <2>1, <2>3, <3>3, <4>1, <4>2 DEF MarkOk
    <3>4. QED  BY <3>1, <3>2, <3>3 DEF MarkOk
  <2>4. QED  BY <2>2, <2>3
<1>14. ASSUME NEW j \in Rows(c)'  PROVE RowOk(c, j)'
  <2>1. claims'[c].rows[j] = IF j \in batch THEN taken(j) ELSE claims[c].rows[j]
    BY <1>9, <1>11, <1>12, <1>14
  <2>2. claims'[c].age = claims[c].age  BY <1>9, <1>11
  <2>3. CASE j \in batch
    <3>1. IsOpen(j) => jobs[j].status = "RUNNING"
      BY <1>5, <2>3 DEF ClaimInv, JobOk
    <3>2. IsOpen(j) => <<j, jobs[j].attempts>> \in Marks(c)
      BY <1>2, <1>4, <1>5, <2>3, <3>1 DEF NoneMissed, ExpiredFor
    <3>3. jobs[j].status \in {"PENDING", "RUNNING"}  BY <1>5, <2>3 DEF ReadyFor
    <3>4. <<j, jobs[j].attempts + 1>> \in Marks(c)'  BY <1>12, <2>3
    <3>5. /\ claims'[c].rows[j].status = "RUNNING"
          /\ claims'[c].rows[j].attempts = jobs[j].attempts + 1
          /\ claims'[c].rows[j].ready = LeaseDuration - claims[c].age
      BY <2>1, <2>3
    <3>6. (IsOpen(j))' => <<j, jobs[j].attempts>> \in Marks(c)'
      BY <1>2, <1>12, <3>2 DEF IsOpen
    <3>7. QED
      BY <1>2, <1>5, <2>2, <2>3, <3>3, <3>4, <3>5, <3>6 DEF RowOk
  <2>4. CASE j \notin batch
    <3>1. j \in Rows(c) /\ RowOk(c, j)  BY <1>4, <1>12, <1>14, <2>4
    <3>2. claims'[c].rows[j] = claims[c].rows[j]  BY <2>1, <2>4
    <3>3. \A a \in Marks(c) : a \in Marks(c)'  BY <1>12
    <3>4. QED  BY <1>2, <2>2, <3>1, <3>2, <3>3 DEF RowOk, IsOpen
  <2>5. QED  BY <2>3, <2>4
<1>15. ClaimOk(c)'
  BY <1>9, <1>11, <1>13, <1>14 DEF ClaimOk, StageOk, NoneMissed
<1>16. StaysApart(c, it)
  <2> SUFFICES ASSUME NEW d \in Claims \ {c}
               PROVE  /\ (batch \cup Rows(c)) \cap Rows(d) = {}
                      /\ (new(batch) \cup Marks(c)) \cap Marks(d) = {}
    <3> HIDE DEF rows, marks, new
    <3>1. QED  BY <1>7, <1>8, <1>9 DEF StaysApart
  <2>1. Apart(c, d)  BY DEF ClaimInv
  <2>2. ASSUME NEW j \in batch  PROVE <<j, jobs[j].attempts + 1>> \notin Marks(d)
    <3>1. SUFFICES ASSUME <<j, jobs[j].attempts + 1>> \in Marks(d)  PROVE FALSE
      OBVIOUS
    <3>2. MarkOk(d, <<j, jobs[j].attempts + 1>>)  BY <3>1 DEF ClaimInv, ClaimOk
    <3>3. QED  BY <1>5, <3>2 DEF MarkOk
  <2>3. QED  BY <1>5, <2>1, <2>2 DEF Apart
<1> HIDE DEF rows, marks, new
<1>17. QED  BY <1>2, <1>9, <1>10, <1>15, <1>16, OneClaim

-------------------------------------------------------------------------------
(* Steps that touch one job, while claims are under way.                   *)

\* It is enough that the job's part holds again, and that no claim is misled.
LEMMA OneJob ==
    ASSUME ClaimInv, TypeOK', NEW j \in Jobs, UNCHANGED claims,
           \A i \in Jobs \ {j} :
              jobs'[i] = jobs[i] /\ trail'[i] = trail[i] /\ finals'[i] = finals[i],
           JobOk(j)', DOMAIN trail'[j] = DOMAIN trail[j],
           \A c \in Claims :
              /\ \A a \in Marks(c) : a[1] = j => MarkOk(c, a)'
              /\ j \in Rows(c) => RowOk(c, j)'
              /\ claims[c].pc \in {"closing", "exhausted"} /\ (ExpiredFor(c, jobs[j]) /\ IsOpen(j))'
                    => ExpiredFor(c, jobs[j]) /\ IsOpen(j) /\ jobs'[j].attempts = jobs[j].attempts
    PROVE  ClaimInv'
<1>1. \A i \in Jobs : JobOk(i)'  BY DEF ClaimInv, JobOk, IsOpen
<1>2. ASSUME NEW c \in Claims  PROVE ClaimOk(c)'
  <2>1. claims'[c] = claims[c] /\ Rows(c)' = Rows(c) /\ Marks(c)' = Marks(c)
    BY DEF Rows, Marks
  <2>2. ClaimOk(c) /\ Rows(c) \subseteq Jobs /\ Marks(c) \subseteq Attempt
        /\ claims[c].todo \subseteq Attempt
    BY ClaimFacts DEF ClaimInv
  <2>3. StageOk(c)'  BY <2>1, <2>2 DEF ClaimOk, StageOk, Attempt
  <2>4. ASSUME NEW a \in Marks(c)  PROVE MarkOk(c, a)'
    <3>1. CASE a[1] = j  BY <3>1
    <3>2. CASE a[1] # j
      <4>1. a[1] \in Jobs \ {j}  BY <2>2, <3>2 DEF Attempt
      <4>2. QED  BY <2>1, <2>2, <4>1 DEF ClaimOk, MarkOk
    <3>3. QED  BY <3>1, <3>2
  <2>5. ASSUME NEW i \in Rows(c)  PROVE RowOk(c, i)'
    <3>1. CASE i = j  BY <3>1
    <3>2. CASE i # j
      <4>1. i \in Jobs \ {j}  BY <2>2, <3>2
      <4>2. QED  BY <2>1, <2>2, <4>1 DEF ClaimOk, RowOk, IsOpen
    <3>3. QED  BY <3>1, <3>2
  <2>6. NoneMissed(c)'
    <3>1. ASSUME NEW i \in Jobs, (ExpiredFor(c, jobs[i]) /\ IsOpen(i))',
                 claims[c].pc \in {"closing", "exhausted"}
          PROVE  /\ ExpiredFor(c, jobs[i]) /\ IsOpen(i)
                 /\ jobs'[i].attempts = jobs[i].attempts
      BY <2>1, <3>1 DEF ExpiredFor, ReadyFor, IsOpen
    <3>2. QED  BY <2>1, <2>2, <3>1 DEF ClaimOk, NoneMissed
  <2>7. QED  BY <2>1, <2>3, <2>4, <2>5, <2>6 DEF ClaimOk
<1>3. \A c, d \in Claims : c # d => Apart(c, d)'  BY DEF ClaimInv, Apart, Rows, Marks
<1>4. QED  BY <1>1, <1>2, <1>3 DEF ClaimInv

LEMMA InsertJobInv ==
    ASSUME ClaimInv, NEW j \in Jobs, InsertJob(j)
    PROVE  ClaimInv'
<1>1. /\ jobs[j] \in Row /\ jobs[j].status = "ABSENT" /\ JobOk(j)
      /\ jobs[j].attempts = 0 /\ ~IsOpen(j)
  BY JobFacts DEF InsertJob, ClaimInv, JobOk
<1>2. /\ jobs' = [jobs EXCEPT ![j] = [jobs[j] EXCEPT !.status = "PENDING"]]
      /\ UNCHANGED <<trail, claims, finals>>
  BY DEF InsertJob
<1>3. /\ jobs'[j] \in Row /\ jobs'[j].status = "PENDING" /\ jobs'[j].attempts = 0
      /\ jobs'[j].ready = jobs[j].ready
      /\ \A i \in Jobs \ {j} : jobs'[i] = jobs[i]
  BY <1>1, <1>2 DEF ClaimInv, TypeOK, Row
<1>4. TypeOK'  BY <1>2, <1>3 DEF ClaimInv, TypeOK
<1>5. JobOk(j)' /\ ~IsOpen(j)'
  BY <1>1, <1>2, <1>3 DEF JobOk, IsOpen
<1>6. ASSUME NEW c \in Claims
      PROVE  j \notin Rows(c) /\ \A a \in Marks(c) : a[1] # j
  <2>1. j \notin Rows(c)  BY <1>1 DEF ClaimInv, ClaimOk, RowOk
  <2>2. \A a \in Marks(c) : a[1] = j => MarkOk(c, a)  BY DEF ClaimInv, ClaimOk
  <2>3. \A a \in Marks(c) : a[2] # 0  BY ClaimFacts DEF ClaimInv, Attempt
  <2>4. QED  BY <1>1, <2>1, <2>2, <2>3 DEF MarkOk
<1>7. QED  BY <1>2, <1>3, <1>4, <1>5, <1>6, OneJob

LEMMA FinalsKept ==
    ASSUME ClaimInv, NEW j \in Jobs, NEW f \in FinalState,
           finals' = [finals EXCEPT ![j] = f], UNCHANGED <<jobs, trail, claims>>,
           JobOk(j)', f = NoFinal \/ \A c \in Claims : j \notin Rows(c)
    PROVE  ClaimInv'
<1>1. finals'[j] = f /\ \A i \in Jobs \ {j} : finals'[i] = finals[i]
  BY DEF ClaimInv, TypeOK
<1>2. TypeOK'  BY DEF ClaimInv, TypeOK
<1>3. ASSUME NEW c \in Claims
      PROVE  /\ \A a \in Marks(c) : MarkOk(c, a)'
             /\ j \in Rows(c) => RowOk(c, j)'
             /\ (ExpiredFor(c, jobs[j]) /\ IsOpen(j))' => ExpiredFor(c, jobs[j]) /\ IsOpen(j)
  <2>1. ClaimOk(c)  BY DEF ClaimInv
  <2>2. \A a \in Marks(c) : MarkOk(c, a)'  BY <2>1 DEF ClaimOk, MarkOk, Rows
  <2>3. j \in Rows(c) => RowOk(c, j)'
    BY <1>1, <2>1 DEF ClaimOk, RowOk, IsOpen, Marks
  <2>4. QED  BY <2>2, <2>3 DEF ExpiredFor, ReadyFor, IsOpen
<1>4. QED  BY <1>1, <1>2, <1>3, OneJob

LEMMA VerdictType ==
    ASSUME NEW v \in Verdicts
    PROVE  /\ v \in FinalState
           /\ \/ v.status = "SUCCEEDED" /\ v.outcome = "SUCCEEDED"
              \/ v.status = "PENDING" /\ v.outcome = "RETRY_SCHEDULED"
              \/ v.status = "DEAD" /\ v.outcome = "DEAD"
           /\ v.ready = 0
<1>1. \/ v = [NoFinal EXCEPT !.status = "SUCCEEDED", !.outcome = "SUCCEEDED"]
      \/ v = [NoFinal EXCEPT !.status = "PENDING", !.outcome = "RETRY_SCHEDULED"]
      \/ v = [NoFinal EXCEPT !.status = "DEAD", !.outcome = "DEAD"]
  BY DEF Verdicts
<1>2. \/ v = [status |-> "SUCCEEDED", outcome |-> "SUCCEEDED", ready |-> 0]
      \/ v = [status |-> "PENDING", outcome |-> "RETRY_SCHEDULED", ready |-> 0]
      \/ v = [status |-> "DEAD", outcome |-> "DEAD", ready |-> 0]
  BY <1>1 DEF NoFinal
<1>3. QED  BY <1>2 DEF FinalState

LEMMA BeginFinalizeInv ==
    ASSUME ClaimInv, NEW j \in Jobs, NEW v \in Verdicts, BeginFinalize(j, v)
    PROVE  ClaimInv'
<1>1. /\ finals' = [finals EXCEPT ![j] = v] /\ UNCHANGED <<jobs, trail, claims>>
      /\ jobs[j].status = "RUNNING" /\ \A c \in Claims : j \notin Rows(c)
  BY DEF BeginFinalize, RowLocked, Rows
<1>2. finals'[j] = v /\ JobOk(j)  BY <1>1 DEF ClaimInv, TypeOK
<1>3. JobOk(j)'  BY <1>1, <1>2, VerdictType DEF JobOk, IsOpen
<1>4. QED  BY <1>1, <1>3, VerdictType, FinalsKept

LEMMA AbortFinalizeInv ==
    ASSUME ClaimInv, NEW j \in Jobs, AbortFinalize(j)
    PROVE  ClaimInv'
<1>1. NoFinal \in FinalState  BY DEF NoFinal, FinalState
<1>2. finals' = [finals EXCEPT ![j] = NoFinal] /\ UNCHANGED <<jobs, trail, claims>>
  BY DEF AbortFinalize
<1>3. finals'[j] = NoFinal /\ JobOk(j)  BY <1>2 DEF ClaimInv, TypeOK
<1>4. JobOk(j)'  BY <1>2, <1>3 DEF JobOk, IsOpen
<1>5. QED  BY <1>1, <1>2, <1>4, FinalsKept

LEMMA RenewLeaseInv ==
    ASSUME ClaimInv, TxTime < LeaseDuration, NEW j \in Jobs, NEW late \in 0 .. TxTime,
           RenewLease(j, late)
    PROVE  ClaimInv'
<1> DEFINE row == [jobs[j] EXCEPT !.ready = LeaseDuration - late]
<1>1. /\ jobs[j] \in Row /\ jobs[j].status = "RUNNING" /\ JobOk(j)
      /\ \A c \in Claims : j \notin Rows(c)
  BY JobFacts DEF RenewLease, ClaimInv, RowLocked, Rows
<1>2. LeaseDuration - late \in Int /\ LeaseDuration - late > 0
  BY ClaimTxAssumption
<1>3. /\ row \in Row /\ row.status = "RUNNING" /\ row.attempts = jobs[j].attempts
      /\ row.ready = LeaseDuration - late
  BY <1>1, <1>2 DEF Row
<1>4. jobs' = [jobs EXCEPT ![j] = row] /\ UNCHANGED <<trail, claims, finals>>
  BY DEF RenewLease
<1> HIDE DEF row
<1>5. jobs'[j] = row /\ \A i \in Jobs \ {j} : jobs'[i] = jobs[i]
  BY <1>4 DEF ClaimInv, TypeOK
<1>6. TypeOK'  BY <1>3, <1>4 DEF ClaimInv, TypeOK
<1>7. JobOk(j)'
  BY <1>1, <1>3, <1>4, <1>5 DEF JobOk, IsOpen
<1>8. ASSUME NEW c \in Claims
      PROVE  /\ \A a \in Marks(c) : a[1] = j => MarkOk(c, a)'
             /\ ~ExpiredFor(c, jobs[j])'
  <2>1. claims'[c] = claims[c] /\ claims[c].age \in Nat  BY <1>4, ClaimFacts DEF ClaimInv
  <2>2. \A a \in Marks(c) : MarkOk(c, a)  BY DEF ClaimInv, ClaimOk
  <2>3. ~(row.ready <= -claims[c].age)  BY <1>2, <1>3, <2>1
  <2>4. ~ExpiredFor(c, jobs[j])'  BY <1>5, <2>1, <2>3 DEF ExpiredFor, ReadyFor
  <2>5. \A a \in Marks(c) : a[1] = j => MarkOk(c, a)'
    BY <1>3, <1>4, <1>5, <2>1, <2>2 DEF MarkOk, Rows
  <2>6. QED  BY <2>4, <2>5
<1>9. QED  BY <1>1, <1>4, <1>5, <1>6, <1>7, <1>8, OneJob

LEMMA EndFinalizeInv ==
    ASSUME ClaimInv, NEW j \in Jobs, EndFinalize(j)
    PROVE  ClaimInv'
<1> DEFINE n == jobs[j].attempts
           named == [jobs[j] EXCEPT !.status = finals[j].status]
           row == [named EXCEPT !.ready = finals[j].ready]
           rows == [trail[j] EXCEPT ![n] = finals[j].outcome]
<1>1. /\ jobs[j] \in Row /\ jobs[j].status = "RUNNING" /\ JobOk(j)
      /\ n > 0 /\ n \in 0 .. MaxAttempts /\ n \in 1 .. n
      /\ trail[j] \in [1 .. n -> Outcome]
      /\ finals[j] \in FinalState /\ finals[j] # NoFinal
  BY JobFacts, ClaimTxAssumption DEF EndFinalize, ClaimInv, JobOk
<1>2. /\ finals[j].status \in {"SUCCEEDED", "PENDING", "DEAD"}
      /\ finals[j].outcome \in Outcome \ {"OPEN"}
      /\ finals[j].ready \in Int
  BY <1>1 DEF JobOk, FinalState, Outcome
<1>3. /\ named \in Row /\ named.status = finals[j].status /\ named.attempts = n
  BY <1>1, <1>2 DEF Row
<1>4. /\ row \in Row /\ row.status = finals[j].status /\ row.attempts = n
  <2> HIDE DEF named
  <2>1. QED  BY <1>2, <1>3 DEF Row
<1>5. /\ rows \in [1 .. n -> Outcome] /\ rows[n] = finals[j].outcome
      /\ \A m \in 1 .. n : m # n => rows[m] = trail[j][m]
  BY <1>1, <1>2
<1>6. /\ jobs' = [jobs EXCEPT ![j] = row] /\ trail' = [trail EXCEPT ![j] = rows]
      /\ finals' = [finals EXCEPT ![j] = NoFinal] /\ UNCHANGED claims
  BY DEF EndFinalize
<1> HIDE DEF row, rows
<1>7. /\ jobs'[j] = row /\ trail'[j] = rows /\ finals'[j] = NoFinal
      /\ \A i \in Jobs \ {j} :
            jobs'[i] = jobs[i] /\ trail'[i] = trail[i] /\ finals'[i] = finals[i]
  BY <1>6 DEF ClaimInv, TypeOK
<1>8. TypeOK'
  <2>1. rows \in UNION {[1 .. m -> Outcome] : m \in 0 .. MaxAttempts}
    BY <1>1, <1>5
  <2>2. NoFinal \in FinalState  BY DEF NoFinal, FinalState
  <2>3. QED  BY <1>4, <1>6, <2>1, <2>2 DEF ClaimInv, TypeOK
<1>9. jobs'[j].attempts = n /\ jobs'[j].status \in {"SUCCEEDED", "PENDING", "DEAD"}
      /\ ~IsOpen(j)'
  BY <1>2, <1>4, <1>5, <1>7 DEF IsOpen
<1>10. JobOk(j)' /\ DOMAIN trail'[j] = DOMAIN trail[j]
  <2>1. DOMAIN trail'[j] = 1 .. n /\ DOMAIN trail[j] = 1 .. n  BY <1>1, <1>5, <1>7
  <2>2. \A m \in 1 .. n : trail'[j][m] = "OPEN" => m = n
    BY <1>1, <1>5, <1>7 DEF JobOk
  <2>3. QED  BY <1>7, <1>9, <2>1, <2>2 DEF JobOk
<1>11. ASSUME NEW c \in Claims
       PROVE  j \notin Rows(c) /\ \A a \in Marks(c) : a[1] # j
  <2>1. j \notin Rows(c)  BY <1>1 DEF ClaimInv, ClaimOk, RowOk
  <2>2. <<j, n>> \notin Marks(c)  BY DEF EndFinalize, Marks
  <2>3. ASSUME NEW a \in Marks(c), a[1] = j  PROVE FALSE
    <3>1. MarkOk(c, a) /\ a = <<a[1], a[2]>>  BY ClaimFacts DEF ClaimInv, ClaimOk, Attempt
    <3>2. a[2] = n  BY <2>1, <2>3, <3>1 DEF MarkOk
    <3>3. QED  BY <2>2, <2>3, <3>1, <3>2
  <2>4. QED  BY <2>1, <2>3
<1>12. QED  BY <1>6, <1>7, <1>8, <1>9, <1>10, <1>11, OneJob

LEMMA OlderFacts ==
    /\ \A row \in Row :
          /\ Older(row) \in Row
          /\ Older(row).status = row.status /\ Older(row).attempts = row.attempts
          /\ \A age \in Nat : age < TxTime /\ Older(row).ready <= -(age + 1) => row.ready <= -age
          /\ row.status = "RUNNING" /\ row.ready > -TxTime => Older(row).ready = row.ready - 1
    /\ \A f \in FinalState :
          /\ Older(f) \in FinalState
          /\ Older(f).status = f.status /\ Older(f).outcome = f.outcome
          /\ f = NoFinal => Older(f) = NoFinal
<1>1. ASSUME NEW row \in Row
      PROVE  /\ Older(row) \in Row
             /\ Older(row).status = row.status /\ Older(row).attempts = row.attempts
             /\ \A age \in Nat :
                   age < TxTime /\ Older(row).ready <= -(age + 1) => row.ready <= -age
             /\ row.status = "RUNNING" /\ row.ready > -TxTime => Older(row).ready = row.ready - 1
  <2>1. row.ready \in Int /\ row.ready - 1 \in Int  BY DEF Row
  <2>2. CASE row.status \in {"PENDING", "RUNNING"} /\ row.ready > -TxTime
    <3>1. Older(row) = [row EXCEPT !.ready = row.ready - 1]  BY <2>2 DEF Older
    <3>2. /\ Older(row) \in Row /\ Older(row).status = row.status
          /\ Older(row).attempts = row.attempts /\ Older(row).ready = row.ready - 1
      BY <2>1, <3>1 DEF Row
    <3>3. QED  BY <2>1, <3>2
  <2>3. CASE ~(row.status \in {"PENDING", "RUNNING"} /\ row.ready > -TxTime)
    <3>1. Older(row) = row  BY <2>3 DEF Older
    <3>2. \A age \in Nat : Older(row).ready <= -(age + 1) => row.ready <= -age
      BY <2>1, <3>1
    <3>3. row.status = "RUNNING" => ~(row.ready > -TxTime)  BY <2>3
    <3>4. QED  BY <3>1, <3>2, <3>3
  <2>4. QED  BY <2>2, <2>3
<1>2. ASSUME NEW f \in FinalState
      PROVE  /\ Older(f) \in FinalState
             /\ Older(f).status = f.status /\ Older(f).outcome = f.outcome
             /\ f = NoFinal => Older(f) = NoFinal
  <2>1. CASE f.status \in {"PENDING", "RUNNING"} /\ f.ready > -TxTime
    <3>1. Older(f) = [f EXCEPT !.ready = f.ready - 1]  BY <2>1 DEF Older
    <3>2. f # NoFinal  BY <2>1 DEF NoFinal
    <3>3. QED  BY <3>1, <3>2 DEF FinalState
  <2>2. CASE ~(f.status \in {"PENDING", "RUNNING"} /\ f.ready > -TxTime)
    BY <2>2 DEF Older
  <2>3. QED  BY <2>1, <2>2
<1>3. QED  BY <1>1, <1>2

-------------------------------------------------------------------------------
(* Time passes, and a claim commits.                                       *)

LEMMA TickInv ==
    ASSUME ClaimInv, TxTime < LeaseDuration, Tick
    PROVE  ClaimInv'
<1>1. /\ \A j \in Jobs : jobs'[j] = Older(jobs[j]) /\ finals'[j] = Older(finals[j])
      /\ trail' = trail
  BY DEF Tick
<1>2. \A j \in Jobs :
         /\ jobs[j] \in Row /\ finals[j] \in FinalState
         /\ jobs'[j] \in Row /\ finals'[j] \in FinalState
         /\ jobs'[j].status = jobs[j].status /\ jobs'[j].attempts = jobs[j].attempts
         /\ finals'[j].status = finals[j].status /\ finals'[j].outcome = finals[j].outcome
         /\ finals[j] = NoFinal => finals'[j] = NoFinal
  BY <1>1, OlderFacts, JobFacts DEF ClaimInv
<1>3. \A j \in Jobs : JobOk(j)' /\ IsOpen(j)' = IsOpen(j)
  BY <1>1, <1>2 DEF ClaimInv, JobOk, IsOpen
<1>4. ASSUME NEW c \in Claims
      PROVE  /\ claims'[c] \in ClaimState /\ ClaimOk(c)'
             /\ Rows(c)' = Rows(c) /\ Marks(c)' = Marks(c)
  <2>1. /\ claims[c] \in ClaimState /\ ClaimOk(c) /\ claims[c].age \in Nat
        /\ claims[c].rows \in [Rows(c) -> Row] /\ Rows(c) \subseteq Jobs
        /\ claims[c].marks \in [Marks(c) -> {"OPEN", "LEASE_LOST"}]
        /\ Marks(c) \subseteq Attempt /\ claims[c].todo \subseteq Attempt
    BY ClaimFacts DEF ClaimInv
  <2>2. CASE claims[c].pc = "idle"
    <3>1. claims'[c] = NoClaim  BY <2>2 DEF Tick
    <3>2. Rows(c) = {} /\ Marks(c) = {}  BY <2>1, <2>2 DEF ClaimOk, StageOk
    <3>3. Rows(c)' = {} /\ Marks(c)' = {}  BY <3>1, NoClaimType DEF Rows, Marks
    <3>4. ClaimOk(c)'
      BY <3>1, <3>3, NoClaimType DEF ClaimOk, StageOk, NoneMissed
    <3>5. QED  BY <3>1, <3>2, <3>3, <3>4, NoClaimType
  <2>3. CASE claims[c].pc # "idle"
    <3> DEFINE rows == [j \in Rows(c) |-> Older(claims[c].rows[j])]
               cl == [claims[c] EXCEPT !.age = claims[c].age + 1, !.rows = rows]
    <3>1. claims'[c] = cl /\ claims[c].age < TxTime  BY <2>3 DEF Tick, Rows
    <3>2. claims[c].age + 1 \in 0 .. TxTime  BY <2>1, <3>1, ClaimTxAssumption
    <3>3. /\ DOMAIN rows = Rows(c)
          /\ \A j \in Rows(c) : rows[j] = Older(claims[c].rows[j]) /\ rows[j] \in Row
          /\ rows \in UNION {[S -> Row] : S \in SUBSET Jobs}
      <4>1. \A j \in Rows(c) : rows[j] = Older(claims[c].rows[j]) /\ rows[j] \in Row
        BY <2>1, OlderFacts
      <4>2. rows \in [Rows(c) -> Row]  BY <4>1
      <4>3. QED  BY <2>1, <4>1, <4>2
    <3> HIDE DEF rows
    <3>4. /\ cl \in ClaimState /\ cl.pc = claims[c].pc /\ cl.todo = claims[c].todo
          /\ cl.age = claims[c].age + 1 /\ cl.rows = rows /\ cl.marks = claims[c].marks
      BY <2>1, <3>2, <3>3 DEF ClaimState
    <3> HIDE DEF cl
    <3>5. Rows(c)' = Rows(c) /\ Marks(c)' = Marks(c)
      BY <3>1, <3>3, <3>4 DEF Rows, Marks
    <3>6. StageOk(c)'
      BY <1>1, <2>1, <2>3, <3>1, <3>4, <3>5 DEF ClaimOk, StageOk
    <3>7. \A j \in Rows(c) :
             /\ rows[j].status = claims[c].rows[j].status
             /\ rows[j].attempts = claims[c].rows[j].attempts
      BY <2>1, <3>3, OlderFacts
    <3>8. ASSUME NEW a \in Marks(c)  PROVE MarkOk(c, a)'
      <4>1. a[1] \in Jobs /\ MarkOk(c, a)  BY <2>1 DEF ClaimOk, Attempt
      <4>2. QED
        BY <1>1, <1>2, <3>1, <3>4, <3>5, <3>7, <4>1 DEF MarkOk
    <3>9. ASSUME NEW j \in Rows(c)  PROVE RowOk(c, j)'
      <4>1. j \in Jobs /\ RowOk(c, j) /\ claims[c].rows[j] \in Row  BY <2>1 DEF ClaimOk
      <4>2. ASSUME claims[c].rows[j].status = "RUNNING"
            PROVE  rows[j].ready = LeaseDuration - (claims[c].age + 1)
        <5>1. claims[c].rows[j].ready = LeaseDuration - claims[c].age
          BY <4>1, <4>2 DEF RowOk
        <5>2. claims[c].rows[j].ready > -TxTime
          BY <2>1, <3>1, <5>1, ClaimTxAssumption
        <5>3. rows[j].ready = claims[c].rows[j].ready - 1
          BY <3>3, <4>1, <4>2, <5>2, OlderFacts
        <5>4. QED  BY <2>1, <5>1, <5>3, ClaimTxAssumption
      <4>3. claims'[c].rows[j] = rows[j] /\ claims'[c].age = claims[c].age + 1
        BY <3>1, <3>4
      <4>4. QED
        BY <1>2, <1>3, <3>5, <3>7, <4>1, <4>2, <4>3 DEF RowOk
    <3>10. NoneMissed(c)'
      <4>1. ASSUME NEW j \in Jobs, ExpiredFor(c, jobs[j])'
            PROVE  ExpiredFor(c, jobs[j])
        BY <1>1, <1>2, <2>1, <3>1, <3>4, <4>1, OlderFacts DEF ExpiredFor, ReadyFor
      <4>2. QED
        BY <1>2, <1>3, <2>1, <3>1, <3>4, <3>5, <4>1 DEF ClaimOk, NoneMissed
    <3>11. QED  BY <3>1, <3>4, <3>5, <3>6, <3>8, <3>9, <3>10 DEF ClaimOk
  <2>4. QED  BY <2>2, <2>3
<1>5. TypeOK'
  <2>1. /\ jobs' = [j \in Jobs |-> Older(jobs[j])]
        /\ finals' = [j \in Jobs |-> Older(finals[j])]
    BY DEF Tick
  <2>2. claims' \in [Claims -> ClaimState]
    <3>1. claims' = [c \in Claims |-> claims'[c]]  BY DEF Tick
    <3>2. QED  BY <1>4, <3>1
  <2>3. jobs' \in [Jobs -> Row] /\ finals' \in [Jobs -> FinalState]
    BY <1>1, <1>2, <2>1
  <2>4. QED  BY <1>1, <2>2, <2>3 DEF ClaimInv, TypeOK
<1>6. \A c, d \in Claims : c # d => Apart(c, d)'  BY <1>4 DEF ClaimInv, Apart
<1>7. QED  BY <1>3, <1>4, <1>5, <1>6 DEF ClaimInv

\* What a commit does to one job: its row is the one the claim wrote, if any, and
\* its trail gets the marks of the claim.
LEMMA CommittedJob ==
    ASSUME ClaimInv, NEW c \in Claims, Commit(c), NEW j \in Jobs
    PROVE  /\ j \notin Rows(c) => jobs'[j] = jobs[j]
           /\ j \in Rows(c) => jobs'[j] = claims[c].rows[j]
           /\ jobs'[j].attempts \in {jobs[j].attempts, jobs[j].attempts + 1}
           /\ trail'[j] \in [1 .. jobs'[j].attempts -> Outcome]
           /\ \A n \in 1 .. jobs[j].attempts :
                 trail'[j][n] = IF <<j, n>> \in Marks(c) THEN "LEASE_LOST" ELSE trail[j][n]
           /\ j \in Rows(c) /\ jobs'[j].attempts = jobs[j].attempts + 1
                 => trail'[j][jobs'[j].attempts] = "OPEN"
<1> DEFINE old == jobs[j].attempts
           marked == {n \in 1 .. MaxAttempts : <<j, n>> \in Marks(c)}
<1>1. /\ ClaimOk(c) /\ JobOk(j) /\ jobs[j] \in Row /\ old \in Nat
      /\ claims[c].marks \in [Marks(c) -> {"OPEN", "LEASE_LOST"}] /\ Marks(c) \subseteq Attempt
      /\ claims[c].rows \in [Rows(c) -> Row]
      /\ trail[j] \in [DOMAIN trail[j] -> Outcome] /\ DOMAIN trail[j] = 1 .. old
  BY JobFacts, ClaimFacts DEF ClaimInv, JobOk
<1>2. jobs'[j] = Seen(c, j)
      /\ trail'[j] = [n \in DOMAIN trail[j] \cup marked |->
                         IF n \in marked THEN claims[c].marks[<<j, n>>] ELSE trail[j][n]]
  BY DEF Commit, Marks
<1>3. /\ j \notin Rows(c) => jobs'[j] = jobs[j]
      /\ j \in Rows(c) => jobs'[j] = claims[c].rows[j]
  BY <1>2 DEF Seen, Rows
<1>4. \A n \in marked :
         \/ n = old /\ n > 0 /\ claims[c].marks[<<j, n>>] = "LEASE_LOST"
         \/ /\ n = old + 1 /\ claims[c].marks[<<j, n>>] = "OPEN"
            /\ j \in Rows(c) /\ jobs'[j].attempts = old + 1
  <2> TAKE n \in marked
  <2>1. MarkOk(c, <<j, n>>) /\ n > 0  BY <1>1 DEF ClaimOk
  <2>2. CASE claims[c].marks[<<j, n>>] = "LEASE_LOST"  BY <2>1, <2>2 DEF MarkOk
  <2>3. CASE claims[c].marks[<<j, n>>] = "OPEN"
    <3>1. n = old + 1 /\ j \in Rows(c) /\ claims[c].rows[j].status = "RUNNING"
      BY <2>1, <2>3 DEF MarkOk
    <3>2. RowOk(c, j)  BY <1>1, <3>1 DEF ClaimOk
    <3>3. QED  BY <1>3, <2>3, <3>1, <3>2 DEF RowOk
  <2>4. QED  BY <2>1, <2>2, <2>3 DEF MarkOk
<1>5. j \in Rows(c) =>
         \/ jobs'[j].attempts = old
         \/ jobs'[j].attempts = old + 1 /\ old + 1 \in marked
  <2> SUFFICES ASSUME j \in Rows(c), jobs'[j].attempts # old
               PROVE  jobs'[j].attempts = old + 1 /\ old + 1 \in marked
    OBVIOUS
  <2>1. RowOk(c, j)  BY <1>1 DEF ClaimOk
  <2>2. jobs'[j].attempts = old + 1 /\ <<j, old + 1>> \in Marks(c)
    BY <1>3, <2>1 DEF RowOk
  <2>3. old + 1 \in 1 .. MaxAttempts  BY <1>1, <2>2 DEF Attempt
  <2>4. QED  BY <2>2, <2>3
<1>6. \A n \in 1 .. old : n \in marked <=> <<j, n>> \in Marks(c)
  BY <1>1, JobFacts, ClaimTxAssumption DEF ClaimInv
<1>7. jobs'[j].attempts \in {old, old + 1}  BY <1>3, <1>5
<1>8. DOMAIN trail[j] \cup marked = 1 .. jobs'[j].attempts
  <2>1. \A n \in marked : n \in 1 .. jobs'[j].attempts  BY <1>1, <1>4, <1>7
  <2>2. \A n \in 1 .. jobs'[j].attempts : n \in 1 .. old \cup marked
    <3> TAKE n \in 1 .. jobs'[j].attempts
    <3>1. CASE n \in 1 .. old  BY <3>1
    <3>2. CASE n \notin 1 .. old
      <4>1. n = old + 1 /\ jobs'[j].attempts = old + 1  BY <1>1, <1>7, <3>2
      <4>2. j \in Rows(c)  BY <1>1, <1>3, <4>1
      <4>3. QED  BY <1>1, <1>5, <4>1, <4>2
    <3>3. QED  BY <3>1, <3>2
  <2>3. 1 .. old \subseteq 1 .. jobs'[j].attempts  BY <1>1, <1>7
  <2> HIDE DEF marked, old
  <2>4. QED  BY <1>1, <2>1, <2>2, <2>3
<1>9. \A n \in 1 .. old :
         trail'[j][n] = IF <<j, n>> \in Marks(c) THEN "LEASE_LOST" ELSE trail[j][n]
  <2> TAKE n \in 1 .. old
  <2>1. trail'[j][n] = IF n \in marked THEN claims[c].marks[<<j, n>>] ELSE trail[j][n]
    BY <1>1, <1>2
  <2>2. n \in marked => claims[c].marks[<<j, n>>] = "LEASE_LOST"  BY <1>1, <1>4
  <2>3. QED  BY <1>6, <2>1, <2>2
<1>10. j \in Rows(c) /\ jobs'[j].attempts = old + 1 => trail'[j][jobs'[j].attempts] = "OPEN"
  <2> SUFFICES ASSUME j \in Rows(c), jobs'[j].attempts = old + 1
               PROVE  trail'[j][old + 1] = "OPEN"
    OBVIOUS
  <2>1. old + 1 \in marked  BY <1>1, <1>5
  <2>2. claims[c].marks[<<j, old + 1>>] = "OPEN"  BY <1>1, <1>4, <2>1
  <2>3. QED  BY <1>2, <2>1, <2>2
<1>11. trail'[j] \in [1 .. jobs'[j].attempts -> Outcome]
  <2>1. \A n \in marked : claims[c].marks[<<j, n>>] \in Outcome  BY <1>1 DEF Outcome
  <2> HIDE DEF marked, old
  <2>2. QED  BY <1>1, <1>2, <1>8, <2>1
<1>12. QED  BY <1>3, <1>7, <1>9, <1>10, <1>11

LEMMA StillOpen ==
    ASSUME ClaimInv, NEW c \in Claims, Commit(c), NEW j \in Jobs,
           jobs'[j].attempts = jobs[j].attempts, IsOpen(j)'
    PROVE  IsOpen(j) /\ <<j, jobs[j].attempts>> \notin Marks(c)
<1> DEFINE n == jobs[j].attempts
<1>1. n \in Nat /\ n > 0 /\ trail'[j][n] = "OPEN"  BY JobFacts DEF ClaimInv, IsOpen
<1>2. n \in 1 .. n  BY <1>1
<1>3. trail'[j][n] = IF <<j, n>> \in Marks(c) THEN "LEASE_LOST" ELSE trail[j][n]
  BY <1>2, CommittedJob
<1>4. QED  BY <1>1, <1>3 DEF IsOpen

LEMMA CommitInv ==
    ASSUME ClaimInv, TxTime < LeaseDuration, NEW c \in Claims, Commit(c)
    PROVE  ClaimInv'
<1>1. /\ ClaimOk(c) /\ claims[c].pc = "taken" /\ UNCHANGED finals
      /\ claims[c].rows \in [Rows(c) -> Row] /\ Rows(c) \subseteq Jobs
      /\ claims[c].age \in 0 .. TxTime
      /\ claims' = [claims EXCEPT ![c] = NoClaim]
  BY ClaimFacts DEF ClaimInv, Commit
<1>2. claims'[c] = NoClaim /\ \A d \in Claims \ {c} : claims'[d] = claims[d]
  BY <1>1 DEF ClaimInv, TypeOK
<1>3. ASSUME NEW j \in Jobs
      PROVE  jobs'[j] \in Row /\ JobOk(j)'
  <2>1. JobOk(j) /\ jobs[j] \in Row /\ jobs[j].attempts \in Nat
    BY JobFacts DEF ClaimInv
  <2>2. DOMAIN trail'[j] = 1 .. jobs'[j].attempts  BY CommittedJob
  <2>3. IsOpen(j) => <<j, jobs[j].attempts>> \in Marks(c) \/ j \notin Rows(c)
    BY <1>1 DEF ClaimOk, RowOk
  <2>4. \A n \in 1 .. jobs[j].attempts :
           trail'[j][n] = "OPEN" => n = jobs[j].attempts /\ IsOpen(j) /\ j \notin Rows(c)
    <3> SUFFICES ASSUME NEW n \in 1 .. jobs[j].attempts, trail'[j][n] = "OPEN"
                 PROVE  n = jobs[j].attempts /\ IsOpen(j) /\ j \notin Rows(c)
      OBVIOUS
    <3>1. <<j, n>> \notin Marks(c) /\ trail[j][n] = "OPEN"  BY CommittedJob
    <3>2. n = jobs[j].attempts  BY <2>1, <3>1 DEF JobOk
    <3>3. QED  BY <2>1, <2>3, <3>1, <3>2 DEF IsOpen
  <2>5. CASE j \notin Rows(c)
    <3>1. jobs'[j] = jobs[j]  BY <2>5, CommittedJob
    <3>2. IsOpen(j)' => IsOpen(j)  BY <2>1, <2>4, <3>1 DEF IsOpen
    <3>3. jobs[j].status = "RUNNING" =>
             trail'[j][jobs[j].attempts] \in {"OPEN", "LEASE_LOST"}
      <4> HAVE jobs[j].status = "RUNNING"
      <4>1. /\ trail[j][jobs[j].attempts] \in {"OPEN", "LEASE_LOST"}
            /\ jobs[j].attempts \in 1 .. jobs[j].attempts
        BY <2>1 DEF JobOk
      <4>2. QED  BY <4>1, CommittedJob
    <3>4. QED  BY <1>1, <2>1, <2>2, <2>4, <3>1, <3>2, <3>3 DEF JobOk
  <2>6. CASE j \in Rows(c)
    <3>1. jobs'[j] = claims[c].rows[j] /\ RowOk(c, j) /\ jobs'[j] \in Row
      BY <1>1, <2>6, CommittedJob DEF ClaimOk
    <3>2. CASE jobs'[j].status = "DEAD"
      <4>1. jobs'[j].attempts = jobs[j].attempts  BY <3>1, <3>2 DEF RowOk
      <4>2. ~IsOpen(j)'  BY <2>1, <2>4, <2>6, <4>1 DEF IsOpen
      <4>3. QED  BY <1>1, <2>2, <2>4, <3>1, <3>2, <4>1, <4>2 DEF JobOk, RowOk
    <3>3. CASE jobs'[j].status = "RUNNING"
      <4>1. jobs'[j].attempts = jobs[j].attempts + 1  BY <3>1, <3>3 DEF RowOk
      <4>2. trail'[j][jobs'[j].attempts] = "OPEN"  BY <2>6, <4>1, CommittedJob
      <4>3. \A n \in 1 .. jobs'[j].attempts : trail'[j][n] = "OPEN" => n = jobs'[j].attempts
        BY <2>1, <2>4, <2>6, <4>1
      <4>4. QED
        BY <1>1, <2>1, <2>2, <3>1, <3>3, <4>1, <4>2, <4>3 DEF JobOk, RowOk
    <3>4. QED  BY <3>1, <3>2, <3>3 DEF RowOk
  <2>7. jobs'[j] \in Row  BY <1>1, <2>1, CommittedJob
  <2>8. QED  BY <2>5, <2>6, <2>7
<1>4. TypeOK'
  <2>1. jobs' \in [Jobs -> Row]
    <3>1. jobs' = [j \in Jobs |-> jobs'[j]]  BY DEF Commit
    <3>2. QED  BY <1>3, <3>1
  <2>2. \A j \in Jobs : trail'[j] \in UNION {[1 .. n -> Outcome] : n \in 0 .. MaxAttempts}
    <3> TAKE j \in Jobs
    <3>1. jobs'[j].attempts \in 0 .. MaxAttempts  BY <1>3 DEF Row
    <3>2. trail'[j] \in [1 .. jobs'[j].attempts -> Outcome]  BY CommittedJob
    <3>3. QED  BY <3>1, <3>2
  <2>3. trail' \in [Jobs -> UNION {[1 .. n -> Outcome] : n \in 0 .. MaxAttempts}]
    <3>1. trail' = [j \in Jobs |-> trail'[j]]  BY DEF Commit
    <3>2. QED  BY <2>2, <3>1
  <2>4. QED  BY <1>1, <2>1, <2>3, NoClaimType DEF ClaimInv, TypeOK
<1>5. ASSUME NEW d \in Claims \ {c}  PROVE ClaimOk(d)'
  <2>1. /\ ClaimOk(d) /\ Apart(c, d) /\ claims'[d] = claims[d]
        /\ Rows(d)' = Rows(d) /\ Marks(d)' = Marks(d) /\ claims[d].age \in Nat
        /\ Rows(d) \subseteq Jobs /\ Marks(d) \subseteq Attempt
        /\ claims[d].todo \subseteq Attempt
    BY <1>2, ClaimFacts DEF ClaimInv, Rows, Marks
  <2>2. StageOk(d)'
    <3>1. ASSUME NEW a \in claims[d].todo  PROVE a[2] \in DOMAIN trail'[a[1]]
      <4>1. a[1] \in Jobs /\ a[2] \in 1 .. jobs[a[1]].attempts /\ JobOk(a[1])
        BY <2>1 DEF ClaimInv, ClaimOk, StageOk, JobOk, Attempt
      <4>2. jobs'[a[1]].attempts \in {jobs[a[1]].attempts, jobs[a[1]].attempts + 1}
        BY <4>1, CommittedJob
      <4>3. DOMAIN trail'[a[1]] = 1 .. jobs'[a[1]].attempts  BY <4>1, CommittedJob
      <4>4. QED  BY <4>1, <4>2, <4>3, JobFacts DEF ClaimInv
    <3>2. QED  BY <2>1, <3>1 DEF ClaimOk, StageOk
  <2>3. ASSUME NEW a \in Marks(d)  PROVE MarkOk(d, a)'
    <3>1. /\ a[1] \in Jobs /\ a = <<a[1], a[2]>> /\ MarkOk(d, a) /\ a \notin Marks(c)
          /\ a[2] \in 1 .. MaxAttempts
      BY <2>1 DEF ClaimOk, Attempt, Apart
    <3>2. CASE claims[d].marks[a] = "LEASE_LOST"
      <4>1. a[2] = jobs[a[1]].attempts /\ trail[a[1]][a[2]] = "OPEN"
        BY <3>1, <3>2 DEF MarkOk
      <4>2. IsOpen(a[1])  BY <3>1, <4>1 DEF IsOpen
      <4>3. a[1] \notin Rows(c)  BY <1>1, <3>1, <4>1, <4>2 DEF ClaimOk, RowOk
      <4>4. jobs'[a[1]] = jobs[a[1]]  BY <3>1, <4>3, CommittedJob
      <4>5. a[2] \in 1 .. jobs[a[1]].attempts  BY <3>1, <4>1
      <4>6. trail'[a[1]][a[2]] = "OPEN"  BY <3>1, <4>1, <4>5, CommittedJob
      <4>7. QED  BY <2>1, <3>2, <4>1, <4>4, <4>6 DEF MarkOk
    <3>3. CASE claims[d].marks[a] = "OPEN"
      <4>1. a[1] \in Rows(d) /\ a[1] \notin Rows(c)  BY <2>1, <3>1, <3>3 DEF MarkOk, Apart
      <4>2. jobs'[a[1]] = jobs[a[1]]  BY <3>1, <4>1, CommittedJob
      <4>3. QED  BY <2>1, <3>1, <3>3, <4>1, <4>2 DEF MarkOk
    <3>4. QED  BY <3>1, <3>2, <3>3 DEF MarkOk
  <2>4. ASSUME NEW j \in Rows(d)  PROVE RowOk(d, j)'
    <3>1. j \in Jobs /\ RowOk(d, j) /\ j \notin Rows(c)
      BY <2>1 DEF ClaimOk, Apart
    <3>2. jobs'[j] = jobs[j]  BY <3>1, CommittedJob
    <3>3. IsOpen(j)' => IsOpen(j)  BY <3>1, <3>2, StillOpen
    <3>4. QED  BY <1>1, <2>1, <3>1, <3>2, <3>3 DEF RowOk
  <2>5. NoneMissed(d)'
    <3> SUFFICES ASSUME claims[d].pc \in {"closing", "exhausted"},
                        NEW j \in Jobs, ExpiredFor(d, jobs[j])', IsOpen(j)'
                 PROVE  <<j, jobs'[j].attempts>> \in claims[d].todo \cup Marks(d)
      BY <2>1 DEF NoneMissed
    <3>1. CASE j \notin Rows(c)
      <4>1. jobs'[j] = jobs[j]  BY <3>1, CommittedJob
      <4>2. ExpiredFor(d, jobs[j])  BY <2>1, <4>1 DEF ExpiredFor, ReadyFor
      <4>3. IsOpen(j)  BY <4>1, StillOpen
      <4>4. QED  BY <2>1, <4>1, <4>2, <4>3 DEF ClaimOk, NoneMissed
    <3>2. CASE j \in Rows(c)
      <4>1. jobs'[j] = claims[c].rows[j] /\ RowOk(c, j)
        BY <1>1, <3>2, CommittedJob DEF ClaimOk
      <4>2. jobs'[j].status = "RUNNING" /\ jobs'[j].ready <= -claims[d].age
        BY <2>1 DEF ExpiredFor, ReadyFor
      <4>3. jobs'[j].ready = LeaseDuration - claims[c].age  BY <4>1, <4>2 DEF RowOk
      <4>4. LeaseDuration - claims[c].age > 0  BY <1>1, ClaimTxAssumption
      <4>5. QED  BY <1>1, <2>1, <4>2, <4>3, <4>4, ClaimTxAssumption
    <3>3. QED  BY <3>1, <3>2
  <2>6. QED  BY <2>1, <2>2, <2>3, <2>4, <2>5 DEF ClaimOk
<1>6. Rows(c)' = {} /\ Marks(c)' = {}  BY <1>2, NoClaimType DEF Rows, Marks
<1>7. ClaimOk(c)'  BY <1>2, <1>6, NoClaimType DEF ClaimOk, StageOk, NoneMissed
<1>8. \A d, e \in Claims : d # e => Apart(d, e)'
  BY <1>2, <1>6 DEF ClaimInv, Apart, Rows, Marks
<1>9. QED  BY <1>3, <1>4, <1>5, <1>7, <1>8 DEF ClaimInv

-------------------------------------------------------------------------------
LEMMA NextInv ==
    ASSUME ClaimInv, TxTime < LeaseDuration, [Next]_vars
    PROVE  ClaimInv'
<1>1. CASE UNCHANGED vars
  BY <1>1 DEF vars, ClaimInv, TypeOK, JobOk, ClaimOk, StageOk, MarkOk, RowOk, NoneMissed, Apart,
              IsOpen, ExpiredFor, ReadyFor, Rows, Marks
<1>2. CASE Next
  BY <1>2, BeginInv, FindLostInv, CloseLostInv, ExhaustInv, TakeInv, CommitInv, RollbackInv,
     InsertJobInv, BeginFinalizeInv, EndFinalizeInv, AbortFinalizeInv, RenewLeaseInv, TickInv
     DEF Next
<1>3. QED  BY <1>1, <1>2

\* Statement by statement, with other transactions in between: no attempt but the
\* newest of its job is ever open, whatever the jobs, the claims and the bounds,
\* as long as no claim lives as long as a lease.
THEOREM ClosedBeforeTheJobGoesOn ==
    ASSUME TxTime < LeaseDuration
    PROVE  Spec => []SupersededIsClosed
<1>1. ClaimInv /\ [Next]_vars => ClaimInv'  BY NextInv
<1>2. ClaimInv => SupersededIsClosed
  <2> SUFFICES ASSUME ClaimInv, NEW j \in Jobs, NEW n \in DOMAIN trail[j],
                      n < jobs[j].attempts, trail[j][n] = "OPEN"
               PROVE  FALSE
    BY DEF SupersededIsClosed
  <2>1. n = jobs[j].attempts /\ jobs[j].attempts \in Nat  BY JobFacts DEF ClaimInv, JobOk
  <2>2. QED  BY <2>1
<1>3. QED  BY <1>1, <1>2, InitInv, PTL DEF Spec

-------------------------------------------------------------------------------
(* Each step, seen through Lives.                                          *)

\* Equal to Lives[j], written without the function over Jobs.
LifeOf(j) ==
    [status |-> jobs[j].status, attempts |-> jobs[j].attempts,
     endings |-> [n \in 1 .. jobs[j].attempts |-> Ending(j, n)]]

LEMMA SameLife ==
    ASSUME NEW j \in Jobs,
           jobs'[j].status = jobs[j].status, jobs'[j].attempts = jobs[j].attempts,
           \A n \in 1 .. jobs[j].attempts : Ending(j, n)' = Ending(j, n)
    PROVE  LifeOf(j)' = LifeOf(j)
BY DEF LifeOf

LEMMA EndedLife ==
    ASSUME ClaimInv, NEW j \in Jobs, jobs[j].status = "RUNNING",
           jobs'[j].status # "RUNNING", jobs'[j].attempts = jobs[j].attempts,
           NEW e, \A n \in 1 .. jobs[j].attempts :
                     trail'[j][n] = IF n = jobs[j].attempts THEN e ELSE trail[j][n]
    PROVE  Lifecycle!Ends(LifeOf(j), LifeOf(j)', e)
<1>1. \A n \in 1 .. jobs[j].attempts :
         Ending(j, n)' = IF n = jobs[j].attempts THEN e ELSE Ending(j, n)
  BY DEF Ending
<1>2. QED  BY <1>1 DEF LifeOf, Lifecycle!Ends

LEMMA FinalizedLife ==
    ASSUME ClaimInv, NEW j \in Jobs, EndFinalize(j)
    PROVE  Lifecycle!Step(LifeOf(j), LifeOf(j)')
<1> DEFINE n == jobs[j].attempts
<1>1. /\ jobs[j] \in Row /\ jobs[j].status = "RUNNING" /\ JobOk(j) /\ n \in 1 .. n
      /\ trail[j] \in [1 .. n -> Outcome] /\ finals[j] # NoFinal
  BY JobFacts, ClaimTxAssumption DEF EndFinalize, ClaimInv, JobOk
<1>2. /\ jobs' = [jobs EXCEPT ![j].status = finals[j].status, ![j].ready = finals[j].ready]
      /\ trail' = [trail EXCEPT ![j][n] = finals[j].outcome]
  BY DEF EndFinalize
<1>3. jobs'[j].status = finals[j].status /\ jobs'[j].attempts = n
  BY <1>1, <1>2 DEF ClaimInv, TypeOK, Row
<1>4. \A m \in 1 .. n : trail'[j][m] = IF m = n THEN finals[j].outcome ELSE trail[j][m]
  BY <1>1, <1>2 DEF ClaimInv, TypeOK
<1>5. \/ finals[j].status = "SUCCEEDED" /\ finals[j].outcome = "SUCCEEDED"
      \/ finals[j].status = "PENDING" /\ finals[j].outcome = "RETRY_SCHEDULED"
      \/ finals[j].status = "DEAD" /\ finals[j].outcome = "DEAD"
  BY <1>1 DEF JobOk
<1>6. Lifecycle!Ends(LifeOf(j), LifeOf(j)', finals[j].outcome)
  <2>1. jobs'[j].status # "RUNNING"  BY <1>3, <1>5
  <2>2. QED  BY <1>1, <1>3, <1>4, <2>1, EndedLife
<1>7. LifeOf(j)'.status = finals[j].status  BY <1>3 DEF LifeOf
<1>8. QED
  BY <1>5, <1>6, <1>7
     DEF Lifecycle!Step, Lifecycle!Succeed, Lifecycle!Reschedule, Lifecycle!Bury

\* Of the attempts a job already has, a claim marks none but the newest.
LEMMA MarkedIsNewest ==
    ASSUME ClaimInv, NEW c \in Claims, NEW j \in Jobs, NEW n \in 1 .. jobs[j].attempts,
           <<j, n>> \in Marks(c)
    PROVE  n = jobs[j].attempts /\ IsOpen(j) /\ jobs[j].status = "RUNNING"
<1>1. MarkOk(c, <<j, n>>) /\ JobOk(j) /\ jobs[j].attempts \in Nat
  BY JobFacts DEF ClaimInv, ClaimOk
<1>2. n # jobs[j].attempts + 1  BY <1>1
<1>3. n = jobs[j].attempts /\ trail[j][n] = "OPEN"  BY <1>1, <1>2 DEF MarkOk
<1>4. IsOpen(j)  BY <1>1, <1>3 DEF IsOpen
<1>5. QED  BY <1>1, <1>3, <1>4 DEF JobOk

LEMMA CommittedLife ==
    ASSUME ClaimInv, NEW c \in Claims, Commit(c), NEW j \in Jobs
    PROVE  LifeOf(j)' = LifeOf(j) \/ Lifecycle!Step(LifeOf(j), LifeOf(j)')
<1> DEFINE old == jobs[j].attempts
<1>1. old \in Nat /\ JobOk(j) /\ ClaimOk(c)  BY JobFacts DEF ClaimInv
<1>2. \A n \in 1 .. old :
         trail'[j][n] = IF <<j, n>> \in Marks(c) THEN "LEASE_LOST" ELSE trail[j][n]
  BY CommittedJob
<1>3. \A n \in 1 .. old : n # old => trail'[j][n] = trail[j][n]
  BY <1>2, MarkedIsNewest
<1>4. CASE j \notin Rows(c)
  <2>1. jobs'[j] = jobs[j]  BY <1>4, CommittedJob
  <2>2. \A n \in 1 .. old : Ending(j, n)' = Ending(j, n)
    BY <1>2, <2>1, MarkedIsNewest DEF Ending
  <2>3. QED  BY <2>1, <2>2, SameLife
<1>5. CASE j \in Rows(c)
  <2>1. jobs'[j] = claims[c].rows[j] /\ RowOk(c, j)
    BY <1>1, <1>5, CommittedJob DEF ClaimOk
  <2>2. jobs[j].status = "RUNNING" =>
           \A n \in 1 .. old :
              trail'[j][n] = IF n = old THEN "LEASE_LOST" ELSE trail[j][n]
    <3> SUFFICES ASSUME jobs[j].status = "RUNNING", NEW n \in 1 .. old, n = old
                 PROVE  trail'[j][n] = "LEASE_LOST"
      BY <1>3
    <3>1. trail[j][n] \in {"OPEN", "LEASE_LOST"}  BY <1>1 DEF JobOk
    <3>2. trail[j][n] = "OPEN" => <<j, n>> \in Marks(c)
      BY <1>1, <2>1 DEF RowOk, IsOpen
    <3>3. QED  BY <1>2, <3>1, <3>2
  <2>3. CASE jobs'[j].status = "DEAD"
    <3>1. jobs[j].status = "RUNNING" /\ jobs'[j].attempts = old
      BY <2>1, <2>3 DEF RowOk
    <3>2. Lifecycle!Ends(LifeOf(j), LifeOf(j)', "LEASE_LOST")
      BY <2>2, <2>3, <3>1, EndedLife
    <3>3. LifeOf(j)'.status = "DEAD"  BY <2>3 DEF LifeOf
    <3>4. QED  BY <3>2, <3>3 DEF Lifecycle!Step, Lifecycle!Bury
  <2>4. CASE jobs'[j].status = "RUNNING"
    <3>1. jobs'[j].attempts = old + 1 /\ jobs[j].status \in {"PENDING", "RUNNING"}
      BY <2>1, <2>4 DEF RowOk
    <3>2. \A n \in 1 .. old : n \in 1 .. old + 1 /\ n # old + 1  BY <1>1
    <3>3. \A n \in 1 .. old :
             Ending(j, n)' = IF jobs[j].status = "RUNNING" /\ n = old
                             THEN "LEASE_LOST" ELSE Ending(j, n)
      <4> TAKE n \in 1 .. old
      <4>1. Ending(j, n)' = trail'[j][n]  BY <3>1, <3>2 DEF Ending
      <4>2. jobs[j].status # "RUNNING" => trail'[j][n] = trail[j][n]
        BY <1>2, MarkedIsNewest
      <4>3. QED  BY <1>3, <2>2, <4>1, <4>2 DEF Ending
    <3>4. /\ \A n : n = old + 1 => Ending(j, n)' = "RUNNING"
          /\ old + 1 \in 1 .. old + 1
      BY <1>1, <2>4, <3>1 DEF Ending
    <3>5. /\ LifeOf(j).attempts = old /\ LifeOf(j)'.attempts = old + 1
          /\ LifeOf(j).status = jobs[j].status /\ LifeOf(j)'.status = "RUNNING"
          /\ \A n \in 1 .. old : LifeOf(j).endings[n] = Ending(j, n)
          /\ \A n \in 1 .. old + 1 : LifeOf(j)'.endings[n] = Ending(j, n)'
      BY <2>4, <3>1 DEF LifeOf
    <3>6. Lifecycle!Starts(LifeOf(j), LifeOf(j)')
      BY <3>2, <3>3, <3>4, <3>5 DEF Lifecycle!Starts
    <3>7. QED
      BY <3>1, <3>5, <3>6 DEF Lifecycle!Step, Lifecycle!Claim, Lifecycle!Reclaim
  <2>5. QED  BY <2>1, <2>3, <2>4 DEF RowOk
<1>6. QED  BY <1>4, <1>5

LEMMA NextLife ==
    ASSUME ClaimInv, [Next]_vars, NEW j \in Jobs
    PROVE  LifeOf(j)' = LifeOf(j) \/ Lifecycle!Step(LifeOf(j), LifeOf(j)')
<1>1. ASSUME UNCHANGED <<jobs, trail>>
      PROVE  LifeOf(j)' = LifeOf(j)
  BY <1>1 DEF LifeOf, Ending
<1>2. CASE \/ UNCHANGED vars
           \/ \E c \in Claims :
                 \/ Begin(c) \/ FindLost(c) \/ Exhaust(c) \/ Take(c) \/ Rollback(c)
                 \/ \E a \in claims[c].todo : CloseLost(c, a)
           \/ \E i \in Jobs : AbortFinalize(i) \/ \E v \in Verdicts : BeginFinalize(i, v)
  <2>1. UNCHANGED <<jobs, trail>>
    BY <1>2 DEF vars, Begin, FindLost, Exhaust, Take, Rollback, CloseLost, AbortFinalize,
                BeginFinalize
  <2>2. QED  BY <1>1, <2>1
<1>3. ASSUME NEW c \in Claims, Commit(c)
      PROVE  LifeOf(j)' = LifeOf(j) \/ Lifecycle!Step(LifeOf(j), LifeOf(j)')
  BY <1>3, CommittedLife
<1>4. ASSUME NEW i \in Jobs, InsertJob(i)
      PROVE  LifeOf(j)' = LifeOf(j) \/ Lifecycle!Step(LifeOf(j), LifeOf(j)')
  <2>1. CASE i # j
    <3>1. jobs'[j] = jobs[j] /\ trail' = trail
      BY <1>4, <2>1 DEF InsertJob, ClaimInv, TypeOK
    <3>2. QED  BY <3>1, SameLife DEF Ending
  <2>2. CASE i = j
    <3>1. jobs[j] \in Row /\ jobs[j].status = "ABSENT" /\ jobs[j].attempts = 0
      BY <1>4, <2>2, JobFacts DEF InsertJob, ClaimInv, JobOk
    <3>2. jobs' = [jobs EXCEPT ![j] = [jobs[j] EXCEPT !.status = "PENDING"]]
      BY <1>4, <2>2 DEF InsertJob
    <3>3. jobs'[j].status = "PENDING" /\ jobs'[j].attempts = 0
      BY <3>1, <3>2 DEF ClaimInv, TypeOK, Row
    <3>4. LifeOf(j).endings = LifeOf(j)'.endings
      <4>1. 1 .. 0 = {}  OBVIOUS
      <4>2. QED  BY <3>1, <3>3, <4>1 DEF LifeOf
    <3>5. QED
      BY <3>1, <3>3, <3>4
         DEF LifeOf, Lifecycle!Step, Lifecycle!Submit, Lifecycle!SameEndings
  <2>3. QED  BY <2>1, <2>2
<1>5. ASSUME NEW i \in Jobs, EndFinalize(i)
      PROVE  LifeOf(j)' = LifeOf(j) \/ Lifecycle!Step(LifeOf(j), LifeOf(j)')
  <2>1. CASE i # j
    <3>1. jobs'[j] = jobs[j] /\ trail'[j] = trail[j]
      BY <1>5, <2>1 DEF EndFinalize, ClaimInv, TypeOK
    <3>2. QED  BY <3>1, SameLife DEF Ending
  <2>2. CASE i = j  BY <1>5, <2>2, FinalizedLife
  <2>3. QED  BY <2>1, <2>2
<1>6. CASE Tick \/ \E i \in Jobs : \E late \in 0 .. TxTime : RenewLease(i, late)
  <2>1. /\ jobs'[j].status = jobs[j].status /\ jobs'[j].attempts = jobs[j].attempts
        /\ trail' = trail
    <3>1. jobs[j] \in Row  BY JobFacts DEF ClaimInv
    <3>2. CASE Tick  BY <3>1, <3>2, OlderFacts DEF Tick
    <3>3. ASSUME NEW i \in Jobs, NEW late \in 0 .. TxTime, RenewLease(i, late)
          PROVE  /\ jobs'[j].status = jobs[j].status /\ jobs'[j].attempts = jobs[j].attempts
                 /\ trail' = trail
      BY <3>1, <3>3 DEF RenewLease, ClaimInv, TypeOK, Row
    <3>4. QED  BY <1>6, <3>2, <3>3
  <2>2. QED  BY <2>1, SameLife DEF Ending
<1>7. QED  BY <1>2, <1>3, <1>4, <1>5, <1>6 DEF Next

\* A claim taken apart into its statements, next to other claims, finalizations
\* and renewals, still takes each job through legal transitions of DESIGN.md
\* sec. 3 only, whatever the jobs, the claims and the bounds, as long as no claim
\* lives as long as a lease.
THEOREM StatementsAreLegal ==
    ASSUME TxTime < LeaseDuration
    PROVE  Spec => StatementsImplementLifecycle
<1>1. Init => Lifecycle!Init
  <2> SUFFICES ASSUME Init, NEW j \in Jobs  PROVE LifeOf(j) = Lifecycle!Unsubmitted
    BY DEF Lifecycle!Init, Lives, LifeOf
  <2>1. jobs[j].status = "ABSENT" /\ jobs[j].attempts = 0  BY DEF Init, NoRow
  <2>2. [n \in 1 .. jobs[j].attempts |-> Ending(j, n)] = [n \in 1 .. 0 |-> "RUNNING"]
    <3>1. 1 .. 0 = {}  OBVIOUS
    <3>2. QED  BY <2>1, <3>1
  <2>3. QED  BY <2>1, <2>2 DEF LifeOf, Lifecycle!Unsubmitted
<1>2. ClaimInv /\ [Next]_vars => [Lifecycle!Next]_Lives
  <2> SUFFICES ASSUME ClaimInv, [Next]_vars  PROVE Lifecycle!Next
    OBVIOUS
  <2>1. \A j \in Jobs : Lives[j] = LifeOf(j) /\ Lives'[j] = LifeOf(j)'
    BY DEF Lives, LifeOf
  <2>2. QED  BY <2>1, NextLife DEF Lifecycle!Next
<1>3. ClaimInv /\ [Next]_vars => ClaimInv'  BY NextInv
<1>4. QED
  BY <1>1, <1>2, <1>3, InitInv, PTL DEF Spec, StatementsImplementLifecycle, Lifecycle!Spec

================================================================================
