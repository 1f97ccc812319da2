---------------------------- MODULE FakeChargeProofs ----------------------------
(***************************************************************************)
(* For any calls, keys and payloads: the counters of the charge service do *)
(* not drift and bear witness of its concurrency, fail_next fails exactly  *)
(* n calls, and the service implements ChargeLedger - so no answer it ever *)
(* gave is contradicted by its ledger.                                     *)
(*                                                                         *)
(* The three need separate invariants, for they are about separate parts   *)
(* of the state: the counters, the mode, and the rows with the answers.    *)
(***************************************************************************)
EXTENDS FakeCharge, FiniteSetTheorems, TLAPS

-------------------------------------------------------------------------------
(* The counters.                                                           *)

Counted  == Within({"counted"})
Reported == Within(Guarded \ {"counted"})

\* PeakCoversInflight is not inductive: when a call reports, the number in
\* flight that have reported grows by one, and what the call brings may be an
\* old, small number.  But then a call that arrived later has brought a larger
\* one.  Without remembering who arrived when: add any calls that are still to
\* report to those that have, and the peak, or what one of the added calls will
\* bring, is no less than all of them.
PeakInv ==
    ~torn => \A late \in SUBSET Counted :
                LET n == Cardinality(Reported \cup late)
                IN  n <= peak \/ \E r \in late : n <= current[r]

CountInv ==
    /\ stage \in [Calls -> Stages]
    /\ current \in [Calls -> Nat]
    /\ inflight \in Nat
    /\ peak \in Nat
    /\ torn \in BOOLEAN
    /\ InflightIsExact
    /\ PeakInv

LEMMA WithinIsFinite ==
    ASSUME NEW stages
    PROVE  IsFiniteSet(Within(stages)) /\ Cardinality(Within(stages)) \in Nat
<1>1. Within(stages) \in SUBSET Calls  BY DEF Within
<1>2. IsFiniteSet(Within(stages))  BY <1>1, CallsAssumption, FS_Subset
<1>3. QED  BY <1>2, FS_CardinalityType

\* Those in flight are those still to report and those that have.
LEMMA InFlight ==
    /\ Within(Guarded) = Reported \cup Counted
    /\ \A late \in SUBSET Counted :
          /\ Reported \cup late \in SUBSET Within(Guarded)
          /\ IsFiniteSet(Reported \cup late)
          /\ Cardinality(Reported \cup late) \in Nat
          /\ Cardinality(Reported \cup late) <= Cardinality(Within(Guarded))
<1>1. Within(Guarded) = Reported \cup Counted
  BY DEF Within, Reported, Counted, Guarded, Stages
<1>2. ASSUME NEW late \in SUBSET Counted
      PROVE  /\ Reported \cup late \in SUBSET Within(Guarded)
             /\ IsFiniteSet(Reported \cup late)
             /\ Cardinality(Reported \cup late) \in Nat
             /\ Cardinality(Reported \cup late) <= Cardinality(Within(Guarded))
  <2>1. Reported \cup late \in SUBSET Within(Guarded)  BY <1>1
  <2>2. IsFiniteSet(Within(Guarded))  BY WithinIsFinite
  <2>3. QED  BY <2>1, <2>2, FS_Subset, FS_CardinalityType
<1>3. QED  BY <1>1, <1>2

LEMMA InitCount == Init => CountInv
<1> SUFFICES ASSUME Init
             PROVE  CountInv
  OBVIOUS
<1>1. Within(Guarded) = {} /\ Reported = {} /\ Counted = {}
  BY DEF Init, Within, Guarded, Stages, Reported, Counted
<1>2. Cardinality({}) = 0  BY FS_EmptySet
<1>3. InflightIsExact  BY <1>1, <1>2 DEF Init, InflightIsExact
<1>4. PeakInv
  <2>1. ASSUME NEW late \in SUBSET Counted
        PROVE  Cardinality(Reported \cup late) <= peak
    <3>1. Reported \cup late = {}  BY <1>1
    <3>2. Cardinality(Reported \cup late) = 0  BY <1>2, <3>1
    <3>3. peak = 0  BY DEF Init
    <3>4. QED  BY <3>2, <3>3
  <2>2. QED  BY <2>1 DEF PeakInv
<1>5. stage \in [Calls -> Stages]  BY DEF Init, Stages
<1>6. QED  BY <1>3, <1>4, <1>5 DEF Init, CountInv

\* A step that moves no call into, out of or through the count.
LEMMA CountKept ==
    ASSUME CountInv, stage' \in [Calls -> Stages],
           Reported' = Reported, Counted' = Counted,
           UNCHANGED <<current, inflight, peak, torn>>
    PROVE  CountInv'
<1>1. Within(Guarded)' = Within(Guarded)  BY InFlight DEF Within, Reported, Counted, Guarded, Stages
<1>2. InflightIsExact'  BY <1>1 DEF CountInv, InflightIsExact
<1>3. PeakInv'  BY DEF CountInv, PeakInv
<1>4. QED  BY <1>2, <1>3 DEF CountInv

LEMMA ArriveCount ==
    ASSUME CountInv, NEW r \in Calls, Arrive(r)
    PROVE  CountInv'
<1>1. /\ stage' \in [Calls -> Stages] /\ current' \in [Calls -> Nat]
      /\ inflight' \in Nat /\ UNCHANGED <<peak, torn>>
  BY DEF CountInv, Arrive, Goes, Stages, chaosVars
<1>2. /\ r \notin Within(Guarded) /\ Within(Guarded)' = Within(Guarded) \cup {r}
      /\ Reported' = Reported /\ Counted' = Counted \cup {r} /\ r \notin Counted
  BY DEF CountInv, Arrive, Goes, Within, Guarded, Stages, Reported, Counted
<1>3. inflight' = Cardinality(Within(Guarded)')
  BY <1>2, WithinIsFinite, FS_AddElement DEF CountInv, InflightIsExact, Arrive
<1>4. PeakInv'
  <2>1. ASSUME ~torn, NEW late \in SUBSET (Counted \cup {r})
        PROVE  \/ Cardinality(Reported \cup late) <= peak
               \/ \E s \in late : Cardinality(Reported \cup late) <= current'[s]
    <3>1. CASE r \in late
      <4>1. current'[r] = inflight'  BY DEF CountInv, Arrive
      <4>2. Reported \cup late \in SUBSET Within(Guarded)'
        BY <1>2, InFlight
      <4>3. IsFiniteSet(Within(Guarded)')  BY <1>2, WithinIsFinite, FS_AddElement
      <4>4. Cardinality(Reported \cup late) <= Cardinality(Within(Guarded)')
        BY <4>2, <4>3, FS_Subset
      <4>5. QED  BY <1>3, <3>1, <4>1, <4>4
    <3>2. CASE r \notin late
      <4>1. late \in SUBSET Counted  BY <3>2
      <4>2. \A s \in late : current'[s] = current[s]
        BY <3>2, <4>1 DEF CountInv, Arrive, Counted, Within
      <4>3. QED  BY <2>1, <4>1, <4>2 DEF CountInv, PeakInv
    <3>3. QED  BY <3>1, <3>2
  <2>2. QED  BY <1>1, <1>2, <2>1 DEF PeakInv
<1>5. QED  BY <1>1, <1>3, <1>4 DEF CountInv, InflightIsExact

LEMMA TrackPeakCount ==
    ASSUME CountInv, NEW r \in Calls, TrackPeak(r)
    PROVE  CountInv'
<1>1. /\ stage' \in [Calls -> Stages] /\ current' \in [Calls -> Nat]
      /\ UNCHANGED <<inflight, torn>>
      /\ peak' \in Nat /\ peak' >= peak /\ peak' >= current[r]
  BY DEF CountInv, TrackPeak, Goes, Stages, Larger
<1>2. /\ Within(Guarded)' = Within(Guarded)
      /\ Reported' = Reported \cup {r}
      /\ Counted' = Counted \ {r} /\ r \in Counted
  BY DEF CountInv, TrackPeak, Goes, Within, Guarded, Stages, Reported, Counted
<1>3. InflightIsExact'  BY <1>1, <1>2 DEF CountInv, InflightIsExact
<1>4. PeakInv'
  <2>1. ASSUME ~torn, NEW late \in SUBSET (Counted \ {r})
        PROVE  \/ Cardinality((Reported \cup {r}) \cup late) <= peak'
               \/ \E s \in late : Cardinality((Reported \cup {r}) \cup late) <= current'[s]
    <3> DEFINE before == late \cup {r}
               n == Cardinality(Reported \cup before)
    <3>1. before \in SUBSET Counted  BY <1>2
    <3>2. n <= peak \/ \E s \in before : n <= current[s]
      BY <2>1, <3>1 DEF CountInv, PeakInv
    <3>3. (Reported \cup {r}) \cup late = Reported \cup before  OBVIOUS
    <3>4. n \in Nat  BY <3>1, InFlight
    <3>5. \A s \in late : current'[s] = current[s]
      BY DEF CountInv, TrackPeak, Counted, Within
    <3>6. current[r] \in Nat /\ peak \in Nat  BY DEF CountInv
    <3> HIDE DEF n
    <3>7. CASE n <= peak \/ n <= current[r]
      <4>1. n <= peak'  BY <1>1, <3>4, <3>6, <3>7
      <4>2. QED  BY <3>3, <4>1 DEF n
    <3>8. CASE \E s \in late : n <= current[s]
      BY <3>3, <3>5, <3>8 DEF n
    <3>9. QED  BY <3>2, <3>7, <3>8
  <2>2. QED  BY <1>1, <1>2, <2>1 DEF PeakInv
<1>5. QED  BY <1>1, <1>3, <1>4 DEF CountInv

\* The guard goes with the call, whatever ends it.
LEMMA ReleaseCount ==
    ASSUME CountInv, NEW r \in Calls, NEW to \in Stages \ Guarded, NEW answer,
           stage[r] \in Guarded \ {"counted"}, Release(r, to, answer),
           UNCHANGED <<current, peak, torn>>
    PROVE  CountInv'
<1>1. stage' \in [Calls -> Stages]  BY DEF CountInv, Release, Goes
<1>2. /\ Within(Guarded)' = Within(Guarded) \ {r} /\ r \in Within(Guarded)
      /\ Reported' = Reported \ {r} /\ r \in Reported
      /\ Counted' = Counted
  BY DEF CountInv, Release, Goes, Within, Guarded, Stages, Reported, Counted
<1>3. inflight' = Cardinality(Within(Guarded)') /\ inflight' \in Nat
  <2>1. IsFiniteSet(Within(Guarded) \ {r})
        /\ Cardinality(Within(Guarded) \ {r}) = Cardinality(Within(Guarded)) - 1
    BY <1>2, WithinIsFinite, FS_RemoveElement
  <2>2. QED
    BY <1>2, <2>1, FS_CardinalityType DEF CountInv, InflightIsExact, Release
<1>4. PeakInv'
  <2>1. ASSUME ~torn, NEW late \in SUBSET Counted
        PROVE  \/ Cardinality((Reported \ {r}) \cup late) <= peak
               \/ \E s \in late : Cardinality((Reported \ {r}) \cup late) <= current[s]
    <3> DEFINE n == Cardinality(Reported \cup late)
               m == Cardinality((Reported \ {r}) \cup late)
    <3>1. n <= peak \/ \E s \in late : n <= current[s]
      BY <2>1 DEF CountInv, PeakInv
    <3>2. m \in Nat /\ n \in Nat /\ m <= n
      <4>1. IsFiniteSet(Reported \cup late) /\ n \in Nat  BY InFlight
      <4>2. (Reported \ {r}) \cup late \in SUBSET (Reported \cup late)  OBVIOUS
      <4>3. QED  BY <4>1, <4>2, FS_Subset, FS_CardinalityType
    <3>3. peak \in Nat /\ \A s \in late : current[s] \in Nat
      BY DEF CountInv, Counted, Within
    <3> HIDE DEF n, m
    <3>4. m <= peak \/ \E s \in late : m <= current[s]  BY <3>1, <3>2, <3>3
    <3>5. QED  BY <3>4 DEF m
  <2>2. QED  BY <1>2, <2>1 DEF PeakInv
<1>5. QED  BY <1>1, <1>3, <1>4 DEF CountInv, InflightIsExact

LEMMA ResetPeakCount ==
    ASSUME CountInv, ResetPeak
    PROVE  CountInv'
<1>1. /\ UNCHANGED <<stage, current, inflight>>
      /\ peak' = 0 /\ torn' = (inflight > 0)
  BY DEF ResetPeak, callVars
<1>2. Within(Guarded)' = Within(Guarded) /\ Reported' = Reported /\ Counted' = Counted
  BY <1>1 DEF Within, Reported, Counted
<1>3. PeakInv'
  <2>1. ASSUME ~torn', NEW late \in SUBSET Counted
        PROVE  Cardinality(Reported \cup late) <= 0
    <3>1. inflight = 0
      <4>1. ~(inflight > 0)  BY <1>1, <2>1, Zenon
      <4>2. QED  BY <4>1 DEF CountInv
    <3>2. Cardinality(Within(Guarded)) = 0  BY <3>1 DEF CountInv, InflightIsExact
    <3>3. Cardinality(Reported \cup late) <= Cardinality(Within(Guarded))
      BY <2>1, InFlight, Zenon
    <3>4. QED  BY <3>2, <3>3
  <2>2. QED  BY <1>1, <1>2, <2>1 DEF PeakInv
<1>4. QED  BY <1>1, <1>2, <1>3 DEF CountInv, InflightIsExact

LEMMA NextCount == CountInv /\ [Next]_vars => CountInv'
<1> SUFFICES ASSUME CountInv, [Next]_vars
             PROVE  CountInv'
  OBVIOUS
<1>1. ASSUME NEW r \in Calls, PeekMode(r) \/ WakeUp(r) \/ Insert(r)
      PROVE  CountInv'
  <2>1. PICK to \in Guarded \ {"counted"} : stage[r] \in Guarded \ {"counted"} /\ Goes(r, to)
    BY <1>1 DEF PeekMode, WakeUp, Insert, InsertOrNothing, Guarded, Stages
  <2>2. stage' \in [Calls -> Stages]  BY <2>1 DEF CountInv, Goes, Guarded
  <2>3. Reported' = Reported /\ Counted' = Counted
    BY <2>1 DEF CountInv, Goes, Reported, Counted, Within, Guarded
  <2>4. UNCHANGED <<current, inflight, peak, torn>>
    BY <1>1 DEF PeekMode, WakeUp, Insert, chaosVars
  <2>5. QED  BY <2>2, <2>3, <2>4, CountKept
<1>2. ASSUME NEW r \in Calls, Decide(r)
      PROVE  CountInv'
  <2>0. UNCHANGED <<current, peak, torn>> /\ stage[r] = "deciding"  BY <1>2 DEF Decide
  <2>1. CASE Proceed(r)
    <3>1. stage' \in [Calls -> Stages]  BY <2>1 DEF CountInv, Proceed, Goes, Stages
    <3>2. Reported' = Reported /\ Counted' = Counted
      BY <2>0, <2>1 DEF CountInv, Proceed, Goes, Reported, Counted, Within, Guarded, Stages
    <3>3. QED  BY <2>0, <2>1, <3>1, <3>2, CountKept DEF Proceed
  <2>2. CASE Reject(r)
    <3>1. Release(r, "over", "rejected")  BY <2>2 DEF Reject
    <3>2. "over" \in Stages \ Guarded /\ "deciding" \in Guarded \ {"counted"}
      BY DEF Stages, Guarded
    <3>3. QED  BY <2>0, <3>1, <3>2, ReleaseCount
  <2>3. QED  BY <1>2, <2>1, <2>2 DEF Decide
<1>3. ASSUME NEW r \in Calls, AnswerCreated(r) \/ AnswerExisting(r) \/ Lose(r)
      PROVE  CountInv'
  <2>1. PICK to \in Stages \ Guarded, answer \in Ledger!Answers :
          stage[r] \in Guarded \ {"counted"} /\ Release(r, to, answer)
    BY <1>3 DEF AnswerCreated, AnswerExisting, Lose, Stages, Guarded, Ledger!Answers
  <2>2. UNCHANGED <<current, peak, torn>>
    BY <1>3 DEF AnswerCreated, AnswerExisting, Lose, chaosVars
  <2>3. QED  BY <2>1, <2>2, ReleaseCount
<1>4. ASSUME NEW r \in Calls, OrphanLands(r)
      PROVE  CountInv'
  <2>1. stage' \in [Calls -> Stages]  BY <1>4 DEF CountInv, OrphanLands, Goes, Stages
  <2>2. Reported' = Reported /\ Counted' = Counted
    BY <1>4 DEF CountInv, OrphanLands, Goes, Reported, Counted, Within, Guarded, Stages
  <2>3. QED  BY <1>4, <2>1, <2>2, CountKept DEF OrphanLands, chaosVars
<1>5. ASSUME NEW m \in Modes, SetControl(m)
      PROVE  CountInv'
  <2>1. UNCHANGED <<stage, current, inflight, peak, torn>>  BY <1>5 DEF SetControl, callVars
  <2>2. QED  BY <2>1, CountKept DEF CountInv, Reported, Counted, Within
<1>6. CASE UNCHANGED vars
  <2>1. UNCHANGED <<stage, current, inflight, peak, torn>>
    BY <1>6 DEF vars, callVars, chaosVars
  <2>2. QED  BY <2>1, CountKept DEF CountInv, Reported, Counted, Within
<1>7. QED
  BY <1>1, <1>2, <1>3, <1>4, <1>5, <1>6, ArriveCount, TrackPeakCount, ResetPeakCount DEF Next

\* max_inflight, the benchmark's evidence for bounded concurrency, neither
\* drifts nor falls short: however the raising of the counter and of the peak
\* interleave, and wherever calls are dropped.
THEOREM PeakBearsWitness == Spec => []ConcurrencyIsWitnessed
<1>1. CountInv => ConcurrencyIsWitnessed
  <2> SUFFICES ASSUME CountInv, ~torn
               PROVE  Cardinality(Reported) <= peak
    BY DEF CountInv, ConcurrencyIsWitnessed, PeakCoversInflight, Reported
  <2>1. Cardinality(Reported \cup {}) <= peak
    <3>1. {} \in SUBSET Counted  OBVIOUS
    <3>2. \/ Cardinality(Reported \cup {}) <= peak
          \/ \E r \in {} : Cardinality(Reported \cup {}) <= current[r]
      BY <3>1, Zenon DEF CountInv, PeakInv
    <3>3. QED  BY <3>2
  <2>2. Reported \cup {} = Reported  OBVIOUS
  <2>3. QED  BY <2>1, <2>2
<1>2. QED  BY <1>1, InitCount, NextCount, PTL DEF Spec

-------------------------------------------------------------------------------
(* The mode.                                                               *)

\* FailNextIsExact needs to know what follows a fail_next that is used up:
\* the mode is then back to normal, and nothing rejects on its account.
FailInv ==
    /\ mode \in Modes
    /\ armed \in Nat /\ injected \in Nat
    /\ FailNextIsExact
    /\ armed > 0 /\ mode.kind # "fail_next" => mode = Normal

LEMMA SetControlFail ==
    ASSUME FailInv, NEW m \in Modes, SetControl(m)
    PROVE  FailInv'
<1>1. m.remaining \in Nat /\ (m.remaining > 0 => m.kind = "fail_next")
  BY FailNextAssumption DEF Modes
<1>2. mode' = m /\ armed' = m.remaining /\ injected' = 0  BY DEF SetControl
<1>3. QED  BY <1>1, <1>2 DEF FailInv, FailNextIsExact

LEMMA RejectFail ==
    ASSUME FailInv, NEW r \in Calls, Reject(r), armed' = armed
    PROVE  FailInv'
<1>0. mode \in Modes /\ armed \in Nat /\ injected \in Nat  BY DEF FailInv
<1>1. CASE mode.kind = "fail_next"
  <2>1. mode.remaining \in 1 .. MaxFailNext  BY <1>0, <1>1 DEF Modes
  <2>2. CASE mode.remaining = 1
    <3>1. mode' = Normal  BY <1>1, <2>2 DEF Reject, Spend
    <3>2. injected' = IF armed > 0 THEN injected + 1 ELSE 0  BY DEF Reject
    <3>3. Normal \in Modes /\ Normal.remaining = 0  BY DEF Normal, Modes
    <3>4. QED  BY <1>0, <2>2, <3>1, <3>2, <3>3 DEF FailInv, FailNextIsExact
  <2>3. CASE mode.remaining # 1
    <3>1. mode' = [mode EXCEPT !.remaining = mode.remaining - 1]
      BY <1>1, <2>3 DEF Reject, Spend
    <3>2. injected' = IF armed > 0 THEN injected + 1 ELSE 0  BY DEF Reject
    <3>3. mode.remaining - 1 \in 1 .. MaxFailNext  BY <2>1, <2>3, FailNextAssumption
    <3>4. /\ mode' \in Modes /\ mode'.kind = "fail_next"
          /\ mode'.remaining = mode.remaining - 1
      BY <1>0, <1>1, <3>1, <3>3 DEF Modes
    <3>5. QED  BY <1>0, <2>1, <3>2, <3>4, FailNextAssumption DEF FailInv, FailNextIsExact
  <2>4. QED  BY <2>2, <2>3
<1>2. CASE mode.kind # "fail_next"
  <2>1. ~(armed > 0)
    BY <1>0, <1>2 DEF FailInv, Reject, Normal
  <2>2. mode' = mode /\ injected' = 0
    BY <1>2, <2>1 DEF Reject, Spend
  <2>3. QED  BY <1>0, <2>1, <2>2 DEF FailInv, FailNextIsExact
<1>3. QED  BY <1>1, <1>2

LEMMA NextFail == FailInv /\ [Next]_vars => FailInv'
<1> SUFFICES ASSUME FailInv, [Next]_vars
             PROVE  FailInv'
  OBVIOUS
<1>1. UNCHANGED <<mode, armed, injected>> => FailInv'
  BY DEF FailInv, FailNextIsExact
<1>2. ASSUME NEW r \in Calls, Decide(r)
      PROVE  FailInv'
  BY <1>1, <1>2, RejectFail DEF Decide, Proceed
<1>3. ASSUME NEW r \in Calls,
             \/ Arrive(r) \/ TrackPeak(r) \/ PeekMode(r) \/ WakeUp(r) \/ Insert(r)
             \/ AnswerCreated(r) \/ AnswerExisting(r) \/ Lose(r) \/ OrphanLands(r)
      PROVE  UNCHANGED <<mode, armed, injected>>
  BY <1>3 DEF Arrive, TrackPeak, PeekMode, WakeUp, Insert, AnswerCreated, AnswerExisting,
              Lose, OrphanLands, chaosVars
<1>4. ResetPeak \/ UNCHANGED vars => UNCHANGED <<mode, armed, injected>>
  BY DEF ResetPeak, vars, chaosVars
<1>5. QED  BY <1>1, <1>2, <1>3, <1>4, SetControlFail DEF Next

\* fail_next fails exactly the next n calls that decide, whatever mode they
\* were delayed under and however many decide at once.
THEOREM FailNextCounts == Spec => []FailNextIsExact
<1>1. Init => FailInv
  BY DEF Init, FailInv, FailNextIsExact, Normal, Modes
<1>2. FailInv => FailNextIsExact  BY DEF FailInv
<1>3. QED  BY <1>1, <1>2, NextFail, PTL DEF Spec

-------------------------------------------------------------------------------
(* The ledger and the answers.                                             *)

\* Where a call is says whether its row is there and what it was answered.
CallInv ==
    /\ stage \in [Calls -> Stages]
    /\ answers \in [Calls -> Ledger!Answers]
    /\ charges \subseteq {Ledger!RowOf(r) : r \in Calls}
    /\ \A r \in Calls :
          /\ stage[r] \notin {"orphan", "over"} => answers[r] = "none"
          /\ stage[r] = "orphan" => answers[r] = "lost"
          /\ stage[r] = "inserted" => Ledger!RowOf(r) \in charges
          /\ Ledger!RowOf(r) \in charges => stage[r] \in {"inserted", "over"}

\* Rows of different calls differ, even when key and payload are the same.
LEMMA RowsDiffer ==
    \A r, s : Ledger!RowOf(r) = Ledger!RowOf(s) => r = s
BY DEF Ledger!RowOf

LEMMA InitCalls == Init => CallInv /\ Ledger!Init
BY DEF Init, CallInv, Ledger!Init, Ledger!Answers, Stages

\* A step inside the service: no row, no answer.
LEMMA CallMoves ==
    ASSUME CallInv, NEW r \in Calls, NEW to \in Stages \ {"inserted", "orphan"},
           stage[r] \notin {"inserted", "orphan", "over"}, Goes(r, to),
           UNCHANGED <<charges, answers>>
    PROVE  CallInv'
<1>1. stage' \in [Calls -> Stages] /\ \A s \in Calls : stage'[s] = IF s = r THEN to ELSE stage[s]
  BY DEF CallInv, Goes
<1>2. QED  BY <1>1 DEF CallInv

\* An INSERT, of a call that waits for it or of one that no longer does.
LEMMA CallInserts ==
    ASSUME CallInv, NEW r \in Calls, stage[r] \in {"inserting", "orphan"},
           NEW to \in {"inserted", "over"}, to = "inserted" <=> stage[r] = "inserting",
           Goes(r, to), charges' = charges \cup {Ledger!RowOf(r)},
           ~ \E c \in charges : c.key = KeyOf[r], UNCHANGED answers
    PROVE  CallInv' /\ Ledger!Record(r)
<1>1. /\ stage' \in [Calls -> Stages]
      /\ \A s \in Calls : stage'[s] = IF s = r THEN to ELSE stage[s]
  BY DEF CallInv, Goes, Stages
<1>2. ASSUME NEW s \in Calls
      PROVE  Ledger!RowOf(s) \in charges' <=> Ledger!RowOf(s) \in charges \/ s = r
  BY RowsDiffer
<1>3. CallInv'  BY <1>1, <1>2 DEF CallInv
<1>4. Ledger!Record(r)  BY DEF CallInv, Ledger!Record, Ledger!Found
<1>5. QED  BY <1>3, <1>4

\* The end of a call that is answered the truth.
LEMMA CallEnds ==
    ASSUME CallInv, NEW r \in Calls, NEW to \in {"over", "orphan"},
           NEW answer \in Ledger!Answers \ {"none"},
           stage[r] \notin {"orphan", "over"},
           to = "orphan" => stage[r] = "inserting" /\ answer = "lost",
           Release(r, to, answer), UNCHANGED charges, Ledger!Truthful(r, answer)
    PROVE  CallInv' /\ Ledger!Answer(r)
<1>1. /\ stage' \in [Calls -> Stages]
      /\ \A s \in Calls : stage'[s] = IF s = r THEN to ELSE stage[s]
      /\ answers' \in [Calls -> Ledger!Answers]
      /\ \A s \in Calls : answers'[s] = IF s = r THEN answer ELSE answers[s]
  BY DEF CallInv, Release, Goes, Stages
<1>2. CallInv'  BY <1>1 DEF CallInv
<1>3. Ledger!Answer(r)  BY DEF CallInv, Release, Ledger!Answer
<1>4. QED  BY <1>2, <1>3

LEMMA ExistingIsTruthful ==
    ASSUME CallInv, NEW r \in Calls, stage[r] = "refused",
           NEW c \in charges, c.key = KeyOf[r]
    PROVE  Ledger!Truthful(r, IF c.payload = PayloadOf[r] THEN "replayed" ELSE "conflict")
<1>1. Ledger!RowOf(r) \notin charges  BY DEF CallInv
<1>2. PICK s \in Calls : c = Ledger!RowOf(s)  BY DEF CallInv
<1>3. c.by # r  BY <1>1, <1>2 DEF Ledger!RowOf
<1>4. c \in Ledger!Found(r)  BY DEF Ledger!Found
<1>5. QED  BY <1>3, <1>4 DEF Ledger!Truthful

LEMMA NextCalls == CallInv /\ [Next]_vars => CallInv' /\ [Ledger!Next]_<<charges, answers>>
<1> SUFFICES ASSUME CallInv, [Next]_vars
             PROVE  CallInv' /\ [Ledger!Next]_<<charges, answers>>
  OBVIOUS
<1>1. ASSUME NEW r \in Calls, Arrive(r) \/ TrackPeak(r) \/ PeekMode(r) \/ WakeUp(r)
      PROVE  CallInv' /\ UNCHANGED <<charges, answers>>
  <2>1. UNCHANGED <<charges, answers>>
    BY <1>1 DEF Arrive, TrackPeak, PeekMode, WakeUp
  <2>2. PICK to \in Stages \ {"inserted", "orphan"} :
          Goes(r, to) /\ stage[r] \notin {"inserted", "orphan", "over"}
    BY <1>1 DEF Arrive, TrackPeak, PeekMode, WakeUp, Stages
  <2>3. QED  BY <2>1, <2>2, CallMoves
<1>2. ASSUME NEW r \in Calls, Decide(r)
      PROVE  CallInv' /\ [Ledger!Next]_<<charges, answers>>
  <2>0. stage[r] = "deciding" /\ UNCHANGED charges  BY <1>2 DEF Decide
  <2>1. CASE Proceed(r)
    <3>1. UNCHANGED answers /\ Goes(r, "inserting")  BY <2>1 DEF Proceed
    <3>2. "inserting" \in Stages \ {"inserted", "orphan"}  BY DEF Stages
    <3>3. QED  BY <2>0, <3>1, <3>2, CallMoves
  <2>2. CASE Reject(r)
    <3>1. Release(r, "over", "rejected")  BY <2>2 DEF Reject
    <3>2. Ledger!Truthful(r, "rejected")  BY <2>0 DEF CallInv, Ledger!Truthful
    <3>3. "rejected" \in Ledger!Answers \ {"none"}  BY DEF Ledger!Answers
    <3>4. CallInv' /\ Ledger!Answer(r)  BY <2>0, <3>1, <3>2, <3>3, CallEnds
    <3>5. QED  BY <3>4 DEF Ledger!Next
  <2>3. QED  BY <1>2, <2>1, <2>2 DEF Decide
<1>3. ASSUME NEW r \in Calls, Insert(r)
      PROVE  CallInv' /\ [Ledger!Next]_<<charges, answers>>
  <2>1. CASE \E c \in charges : c.key = KeyOf[r]
    <3>1. UNCHANGED <<charges, answers>> /\ Goes(r, "refused") /\ stage[r] = "inserting"
      BY <1>3, <2>1 DEF Insert, InsertOrNothing
    <3>2. "refused" \in Stages \ {"inserted", "orphan"}  BY DEF Stages
    <3>3. QED  BY <3>1, <3>2, CallMoves
  <2>2. CASE ~ \E c \in charges : c.key = KeyOf[r]
    <3>1. /\ UNCHANGED answers /\ Goes(r, "inserted") /\ stage[r] = "inserting"
          /\ charges' = charges \cup {Ledger!RowOf(r)}
      BY <1>3, <2>2 DEF Insert, InsertOrNothing
    <3>2. CallInv' /\ Ledger!Record(r)  BY <2>2, <3>1, CallInserts
    <3>3. QED  BY <3>2 DEF Ledger!Next
  <2>3. QED  BY <2>1, <2>2
<1>4. ASSUME NEW r \in Calls, OrphanLands(r)
      PROVE  CallInv' /\ [Ledger!Next]_<<charges, answers>>
  <2>1. stage[r] = "orphan" /\ Goes(r, "over") /\ UNCHANGED answers
    BY <1>4 DEF OrphanLands
  <2>2. CASE \E c \in charges : c.key = KeyOf[r]
    <3>1. UNCHANGED charges  BY <1>4, <2>2 DEF OrphanLands
    <3>2. /\ stage' \in [Calls -> Stages]
          /\ \A s \in Calls : stage'[s] = IF s = r THEN "over" ELSE stage[s]
      BY <2>1 DEF CallInv, Goes, Stages
    <3>3. QED  BY <2>1, <3>1, <3>2 DEF CallInv
  <2>3. CASE ~ \E c \in charges : c.key = KeyOf[r]
    <3>1. charges' = charges \cup {Ledger!RowOf(r)}  BY <1>4, <2>3 DEF OrphanLands
    <3>2. CallInv' /\ Ledger!Record(r)  BY <2>1, <2>3, <3>1, CallInserts
    <3>3. QED  BY <3>2 DEF Ledger!Next
  <2>4. QED  BY <2>2, <2>3
<1>5. ASSUME NEW r \in Calls, AnswerCreated(r)
      PROVE  CallInv' /\ Ledger!Answer(r)
  <2>1. Ledger!Truthful(r, "created")
    BY <1>5 DEF CallInv, AnswerCreated, Ledger!Truthful
  <2>2. "created" \in Ledger!Answers \ {"none"}  BY DEF Ledger!Answers
  <2>3. QED  BY <1>5, <2>1, <2>2, CallEnds DEF AnswerCreated
<1>6. ASSUME NEW r \in Calls, AnswerExisting(r)
      PROVE  CallInv' /\ Ledger!Answer(r)
  <2>1. PICK c \in charges :
          /\ c.key = KeyOf[r]
          /\ Release(r, "over", IF c.payload = PayloadOf[r] THEN "replayed" ELSE "conflict")
    BY <1>6 DEF AnswerExisting
  <2> DEFINE answer == IF c.payload = PayloadOf[r] THEN "replayed" ELSE "conflict"
  <2>2. stage[r] = "refused" /\ UNCHANGED charges  BY <1>6 DEF AnswerExisting
  <2>3. Ledger!Truthful(r, answer)  BY <2>1, <2>2, ExistingIsTruthful
  <2>4. answer \in Ledger!Answers \ {"none"}  BY DEF Ledger!Answers
  <2>5. Release(r, "over", answer)  BY <2>1
  <2> HIDE DEF answer
  <2>6. QED  BY <2>2, <2>3, <2>4, <2>5, CallEnds
<1>7. ASSUME NEW r \in Calls, Lose(r)
      PROVE  CallInv' /\ Ledger!Answer(r)
  <2>1. Ledger!Truthful(r, "lost") /\ "lost" \in Ledger!Answers \ {"none"}
    BY DEF Ledger!Truthful, Ledger!Answers
  <2>2. PICK to \in {"over", "orphan"} :
          Release(r, to, "lost") /\ (to = "orphan" => stage[r] = "inserting")
    BY <1>7 DEF Lose
  <2>3. stage[r] \notin {"orphan", "over"} /\ UNCHANGED charges  BY <1>7 DEF Lose
  <2>4. QED  BY <2>1, <2>2, <2>3, CallEnds
<1>8. ASSUME UNCHANGED <<charges, stage, answers>>
      PROVE  CallInv'
  BY <1>8 DEF CallInv
<1>9. ASSUME NEW m \in Modes, SetControl(m)
      PROVE  UNCHANGED <<charges, stage, answers>>
  BY <1>9 DEF SetControl, callVars
<1>10. ResetPeak \/ UNCHANGED vars => UNCHANGED <<charges, stage, answers>>
  BY DEF ResetPeak, vars, callVars
<1>11. QED
  BY <1>1, <1>2, <1>3, <1>4, <1>5, <1>6, <1>7, <1>8, <1>9, <1>10 DEF Next, Ledger!Next

\* The service keeps the promise of its ledger, for any calls, keys and
\* payloads: a call takes effect at most once, maybe after it was given up,
\* and every answer is true when it is given.
THEOREM ServiceImplementsLedger == Spec => ImplementsLedger
BY InitCalls, NextCalls, PTL DEF Spec, ImplementsLedger, Ledger!Spec

-------------------------------------------------------------------------------
(* What the ledger's promise amounts to.                                   *)

\* Not only when it is given: no later state of the ledger contradicts an
\* answer, and no two rows have the same key.
LedgerIsHonest ==
    /\ charges \subseteq {Ledger!RowOf(r) : r \in Calls}
    /\ answers \in [Calls -> Ledger!Answers]
    /\ \A c, d \in charges : c.key = d.key => c = d
    /\ \A r \in Calls : answers[r] # "none" => Ledger!Truthful(r, answers[r])

LEMMA RecordIsHonest ==
    ASSUME LedgerIsHonest, NEW r \in Calls, Ledger!Record(r)
    PROVE  LedgerIsHonest'
<1>0. /\ charges' = charges \cup {Ledger!RowOf(r)} /\ answers' = answers
      /\ answers[r] \in {"none", "lost"} /\ \A c \in charges : c.key # KeyOf[r]
  BY DEF Ledger!Record, Ledger!Found
<1>1. charges' \subseteq {Ledger!RowOf(s) : s \in Calls}  BY <1>0 DEF LedgerIsHonest
<1>2. \A c, d \in charges' : c.key = d.key => c = d
  <2>1. Ledger!RowOf(r).key = KeyOf[r]  BY DEF Ledger!RowOf
  <2>2. QED  BY <1>0, <2>1 DEF LedgerIsHonest
<1>3. ASSUME NEW s \in Calls, answers'[s] # "none"
      PROVE  Ledger!Truthful(s, answers[s])'
  <2>1. Ledger!Truthful(s, answers[s])  BY <1>0, <1>3 DEF LedgerIsHonest
  <2>2. answers[s] \in Ledger!Answers  BY DEF LedgerIsHonest
  <2>3. CASE s = r
    <3>1. answers'[s] = "lost"  BY <1>0, <1>3, <2>3
    <3>2. QED  BY <3>1 DEF Ledger!Truthful
  <2>4. CASE s # r
    <3>1. Ledger!RowOf(s) \notin charges => Ledger!RowOf(s) \notin charges'
      BY <1>0, <2>4, RowsDiffer
    <3>2. Ledger!Found(s) \subseteq Ledger!Found(s)' /\ charges \subseteq charges'
      BY <1>0 DEF Ledger!Found
    <3>3. answers'[s] = answers[s]  BY <1>0
    <3>4. CASE answers[s] \in {"created", "replayed"}
      BY <2>1, <3>2, <3>3, <3>4 DEF Ledger!Truthful, Ledger!RowOf
    <3>5. CASE answers[s] \in {"conflict", "lost"}
      BY <2>1, <3>2, <3>3, <3>5 DEF Ledger!Truthful
    <3>6. CASE answers[s] = "rejected"
      BY <2>1, <3>1, <3>3, <3>6 DEF Ledger!Truthful, Ledger!RowOf
    <3>7. QED  BY <1>3, <2>2, <3>3, <3>4, <3>5, <3>6 DEF Ledger!Answers
  <2>5. QED  BY <2>3, <2>4
<1>4. QED  BY <1>0, <1>1, <1>2, <1>3 DEF LedgerIsHonest, Ledger!Answers, Ledger!RowOf

LEMMA AnswerIsHonest ==
    ASSUME LedgerIsHonest, NEW r \in Calls, Ledger!Answer(r)
    PROVE  LedgerIsHonest'
<1>1. PICK answer \in Ledger!Answers \ {"none"} :
        /\ Ledger!Truthful(r, answer)
        /\ answers' = [answers EXCEPT ![r] = answer]
  BY DEF Ledger!Answer
<1>2. charges' = charges  BY DEF Ledger!Answer
<1>3. ASSUME NEW s \in Calls, answers'[s] # "none"
      PROVE  Ledger!Truthful(s, answers'[s])
  BY <1>1, <1>3 DEF LedgerIsHonest
<1>4. QED
  BY <1>1, <1>2, <1>3 DEF LedgerIsHonest, Ledger!Truthful, Ledger!Found, Ledger!Answers

\* Guarantee 3 of DESIGN.md, as a client of the service sees it: there is one
\* row per key, and no answer is ever contradicted - a "created" stays the
\* call's own row, a "rejected" call never has one, a "replayed" names an equal
\* charge and a "conflict" a different one.
THEOREM AnswersStayTrue == Spec => []LedgerIsHonest
<1>1. Ledger!Init => LedgerIsHonest
  BY DEF Ledger!Init, LedgerIsHonest, Ledger!Answers
<1>2. LedgerIsHonest /\ [Ledger!Next]_<<charges, answers>> => LedgerIsHonest'
  <2>1. LedgerIsHonest /\ UNCHANGED <<charges, answers>> => LedgerIsHonest'
    BY DEF LedgerIsHonest, Ledger!Truthful, Ledger!Found
  <2>2. QED  BY <2>1, RecordIsHonest, AnswerIsHonest DEF Ledger!Next
<1>3. Ledger!Spec => []LedgerIsHonest  BY <1>1, <1>2, PTL DEF Ledger!Spec
<1>4. QED  BY <1>3, ServiceImplementsLedger, PTL DEF ImplementsLedger

===============================================================================
