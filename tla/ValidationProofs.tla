--------------------------- MODULE ValidationProofs ---------------------------
(***************************************************************************)
(* What was validated once stays valid wherever it is used.  Of settings   *)
(* (Startup), for all limits, defaults and environments: no process        *)
(* touches the database with one out of range, and every accepted lease    *)
(* leaves room for two renewals; and the cap of every backoff is that of   *)
(* the documented formula, whatever saturates on the way.  Of requests     *)
(* (Submission), for all texts, amounts and limits: what the API accepted, *)
(* the worker and the charge service accept too.                           *)
(***************************************************************************)
EXTENDS Startup, Submission, FiniteSetTheorems, TLAPS

\* What main has checked by the time it is at pc.
Checked ==
    /\ pc \in {"own", "connect", "migrate", "running", "failed"} => DatabaseConfigOk
    /\ pc \in {"connect", "migrate", "running", "failed"} =>
          IF role = "worker" THEN WorkerConfigOk /\ config = WorkerConfig
          ELSE HttpConfigOk

\* The inductive invariant: the checks come in order and precede every use.
StartupInv ==
    /\ role \in {"worker", "api", "fake-charge"}
    /\ env \in Environments
    /\ Checked
    /\ touched # {} => pc \in {"migrate", "running", "failed"}
    /\ attempts \in Nat
    /\ slept # NULL => Working
    /\ HeartbeatFitsLease
    /\ slept # NULL /\ slept.why = "backoff" => attempts >= 1
    /\ BackoffIsExact

-------------------------------------------------------------------------------
(* A lease that validate accepts is at least a second, of which a third is  *)
(* well above the floor.                                                    *)

LEMMA AcceptedLeaseFits ==
    ASSUME env \in Environments, WorkerConfigOk
    PROVE  LET lease == WorkerConfig.lease_duration
           IN  HeartbeatInterval(lease) > 0 /\ 2 * HeartbeatInterval(lease) < lease
<1> DEFINE n == Parsed("lease_duration")
<1>1. n \in Nat /\ n > 0
  BY StartupAssumption DEF WorkerConfigOk, WorkerConfigInRange, InRange, Readable, Parsed,
     Numeric, Bounded
<1>2. MsPerSecond \in Nat /\ HeartbeatFloor \in Nat \ {0} /\ 3 * HeartbeatFloor <= MsPerSecond
  BY StartupAssumption
<1> DEFINE lease == n * MsPerSecond
<1>3. lease \in Nat /\ lease >= MsPerSecond
  BY <1>1, <1>2
<1> HIDE DEF n, lease
<1>4. HeartbeatInterval(lease) > 0 /\ 2 * HeartbeatInterval(lease) < lease
  BY <1>2, <1>3 DEF HeartbeatInterval, AtLeast
<1>5. WorkerConfig.lease_duration = lease
  BY DEF WorkerConfig, Seconds, n, lease
<1> QED
  BY <1>4, <1>5

-------------------------------------------------------------------------------
(* Induction, for the two powers of a backoff's cap, which are defined by   *)
(* recursion on the exponent.                                               *)

\* Of the initial segments 0 .. n that end in S, one includes no other: there is
\* no infinite descent among the subsets of a finite set.
LEMMA Least ==
  ASSUME NEW S \in SUBSET Nat, S # {}
  PROVE  \E m \in S : \A n \in S : m <= n
<1>1. PICK k \in S : TRUE
  OBVIOUS
<1> DEFINE U == 0 .. k
<1> DEFINE T == {0 .. n : n \in {m \in S : m <= k}}
<1>2. IsFiniteSet(U)
  BY FS_Interval
<1>3. IsWellFoundedOn(StrictSubsetOrdering(U), FiniteSubsetsOf(U))
  BY FS_StrictSubsetOrderingWellFounded
<1>4. T \subseteq FiniteSubsetsOf(U)
  <2>1. FiniteSubsetsOf(U) = SUBSET U
    BY <1>2, FS_FiniteSubsetsOfFinite
  <2>2. T \subseteq SUBSET U
    OBVIOUS
  <2>3. QED  BY <2>1, <2>2
<1>5. T # {}
  OBVIOUS
<1>6. PICK x \in T : \A y \in T : ~ (<<y, x>> \in StrictSubsetOrdering(U))
  <2> HIDE DEF T, U
  <2>1. QED BY <1>3, <1>4, <1>5, WFMin
<1>7. PICK m \in S : m <= k /\ x = 0 .. m
  OBVIOUS
<1>8. ASSUME NEW n \in S, n < m  PROVE FALSE
  <2>1. 0 .. n \in T
    BY <1>7, <1>8
  <2>2. <<0 .. n, 0 .. m>> \in StrictSubsetOrdering(U)
    BY <1>7, <1>8 DEF StrictSubsetOrdering
  <2>3. QED  BY <1>6, <1>7, <2>1, <2>2
<1>9. QED  BY <1>8

LEMMA NatInductionOnSets ==
  ASSUME NEW S \in SUBSET Nat, 0 \in S, \A n \in S : n + 1 \in S
  PROVE  S = Nat
<1> SUFFICES ASSUME Nat \ S # {}  PROVE FALSE
  OBVIOUS
<1>1. PICK m \in Nat \ S : \A n \in Nat \ S : m <= n
  BY Least
<1>2. m - 1 \in S
  BY <1>1
<1>3. QED  BY <1>1, <1>2

\* f is the recursive function on 0 .. n that begins with `first`, each value
\* after it being what `step` makes of the one before.
Recurs(f, n, first, step) ==
    f = [k \in 0 .. n |-> IF k = 0 THEN first ELSE step[f[k - 1]]]

\* There is one: a definition by recursion defines something.
LEMMA RecursionGoesOn ==
    ASSUME NEW Values, NEW first \in Values, NEW step \in [Values -> Values]
    PROVE  \A n \in Nat : \E f \in [0 .. n -> Values] : Recurs(f, n, first, step)
<1> DEFINE Good == {n \in Nat : \E f \in [0 .. n -> Values] : Recurs(f, n, first, step)}
<1>1. 0 \in Good
  <2> DEFINE f == [k \in 0 .. 0 |-> first]
  <2>1. f \in [0 .. 0 -> Values] /\ Recurs(f, 0, first, step)
    BY DEF Recurs
  <2>2. QED  BY <2>1
<1>2. ASSUME NEW n \in Good  PROVE n + 1 \in Good
  <2>1. PICK f \in [0 .. n -> Values] : Recurs(f, n, first, step)
    OBVIOUS
  <2> DEFINE g == [k \in 0 .. n + 1 |-> IF k = 0 THEN first ELSE step[f[k - 1]]]
  <2>2. n \in Nat
    OBVIOUS
  <2>3. \A k \in 0 .. n : g[k] = f[k] /\ f[k] \in Values
    BY <2>1, <2>2 DEF Recurs
  <2>4. \A k \in 0 .. n + 1 : k # 0 => k - 1 \in 0 .. n
    BY <2>2
  <2>5. \A k \in 0 .. n + 1 :
           (IF k = 0 THEN first ELSE step[f[k - 1]]) = (IF k = 0 THEN first ELSE step[g[k - 1]])
    BY <2>3, <2>4
  <2>6. Recurs(g, n + 1, first, step)
    BY <2>5 DEF Recurs
  <2>7. g \in [0 .. n + 1 -> Values]
    BY <2>3, <2>4
  <2> HIDE DEF g
  <2>8. \E h \in [0 .. n + 1 -> Values] : Recurs(h, n + 1, first, step)
    BY <2>6, <2>7
  <2>9. QED  BY <2>2, <2>8
<1>3. Good = Nat
  <2> HIDE DEF Good
  <2>1. Good \in SUBSET Nat
    BY DEF Good
  <2>2. QED  BY <1>1, <1>2, <2>1, NatInductionOnSets
<1>4. QED  BY <1>3

-------------------------------------------------------------------------------
(* Where the power saturates, at u32::MAX, the cap is max_delay, as it would *)
(* be without: base_delay is at least 1 and max_delay is below u32::MAX.     *)

LEMMA Products ==
    /\ \A a, b \in Nat : a * b \in Nat /\ (b >= 1 => a * b >= a)
    /\ \A a, b, c \in Nat : a <= b => a * c <= b * c
<1>1. \A a, b \in Nat : a * b \in Nat
  OBVIOUS
<1>2. ASSUME NEW a \in Nat, NEW b \in Nat, b >= 1  PROVE a * b >= a
  <2>1. a * b = a + a * (b - 1) /\ a * (b - 1) \in Nat
    BY <1>2
  <2>2. QED  BY <1>2, <2>1
<1>3. ASSUME NEW a \in Nat, NEW b \in Nat, NEW c \in Nat, a <= b  PROVE a * c <= b * c
  <2>1. b * c = a * c + (b - a) * c /\ (b - a) * c \in Nat
    BY <1>3
  <2>2. QED  BY <1>3, <2>1
<1>4. QED  BY <1>1, <1>2, <1>3

\* A power that saturates on the way saturates in the end.
LEMMA SaturatedPower ==
    ASSUME NEW base \in Nat \ {0}, NEW exponent \in Nat
    PROVE  /\ Power(base, exponent) \in Nat \ {0}
           /\ SaturatingPow(base, exponent) = AtMost(Power(base, exponent), UMax)
<1> DEFINE power == CHOOSE f : f = [k \in 0 .. exponent |-> IF k = 0 THEN 1 ELSE f[k - 1] * base]
           saturated == CHOOSE f : f = [k \in 0 .. exponent |->
                                  IF k = 0 THEN 1 ELSE SaturatingMul(f[k - 1], base)]
<1>1. power[exponent] = Power(base, exponent)
  BY DEF Power
<1>2. saturated[exponent] = SaturatingPow(base, exponent)
  BY DEF SaturatingPow
<1>3. UMax \in Nat \ {0}
  <2>1. Limit["retry_max_delay"] \in Nat /\ MsPerSecond \in Nat /\ UMax \in Nat
        /\ Limit["retry_max_delay"] * MsPerSecond < UMax
    BY StartupAssumption DEF Bounded
  <2>2. QED  BY <2>1, Products
<1>4. power = [k \in 0 .. exponent |-> IF k = 0 THEN 1 ELSE power[k - 1] * base]
  <2> DEFINE step == [x \in Nat |-> x * base]
  <2>1. step \in [Nat -> Nat]
    OBVIOUS
  <2>2. PICK f \in [0 .. exponent -> Nat] : Recurs(f, exponent, 1, step)
    <3> HIDE DEF step, power, saturated
    <3>1. QED  BY <2>1, RecursionGoesOn
  <2>3. \A k \in 0 .. exponent : k # 0 => k - 1 \in 0 .. exponent
    OBVIOUS
  <2>4. f = [k \in 0 .. exponent |-> IF k = 0 THEN 1 ELSE f[k - 1] * base]
    BY <2>2, <2>3 DEF Recurs
  <2>5. QED  BY <2>4
<1>5. saturated = [k \in 0 .. exponent |->
                     IF k = 0 THEN 1 ELSE SaturatingMul(saturated[k - 1], base)]
  <2> DEFINE step == [x \in Nat |-> SaturatingMul(x, base)]
  <2>1. step \in [Nat -> Nat]
    BY <1>3 DEF SaturatingMul, AtMost
  <2>2. PICK f \in [0 .. exponent -> Nat] : Recurs(f, exponent, 1, step)
    <3> HIDE DEF step, power, saturated
    <3>1. QED  BY <2>1, RecursionGoesOn
  <2>3. \A k \in 0 .. exponent : k # 0 => k - 1 \in 0 .. exponent
    OBVIOUS
  <2>4. f = [k \in 0 .. exponent |-> IF k = 0 THEN 1 ELSE SaturatingMul(f[k - 1], base)]
    BY <2>2, <2>3 DEF Recurs
  <2>5. QED  BY <2>4
<1> HIDE DEF power, saturated
<1> DEFINE Agree(k) == power[k] \in Nat \ {0} /\ saturated[k] = AtMost(power[k], UMax)
           Good == {k \in Nat : k <= exponent => Agree(k)}
<1>6. 0 \in Good
  BY <1>3, <1>4, <1>5 DEF AtMost
<1>7. ASSUME NEW k \in Good  PROVE k + 1 \in Good
  <2> SUFFICES ASSUME k + 1 <= exponent  PROVE Agree(k + 1)
    OBVIOUS
  <2>1. power[k] \in Nat \ {0} /\ saturated[k] = AtMost(power[k], UMax)
    OBVIOUS
  <2>2. power[k + 1] = power[k] * base /\ saturated[k + 1] = SaturatingMul(saturated[k], base)
    BY <1>4, <1>5
  <2>3. power[k] * base \in Nat \ {0}
    BY <2>1, Products
  <2>4. AtMost(AtMost(power[k], UMax) * base, UMax) = AtMost(power[k] * base, UMax)
    <3>1. CASE power[k] <= UMax
      BY <3>1 DEF AtMost
    <3>2. CASE ~(power[k] <= UMax)
      BY <1>3, <2>1, <3>2, Products DEF AtMost
    <3>3. QED  BY <3>1, <3>2
  <2>5. QED  BY <2>1, <2>2, <2>3, <2>4 DEF SaturatingMul
<1>8. Good = Nat
  <2> HIDE DEF Good
  <2>1. Good \in SUBSET Nat
    BY DEF Good
  <2>2. QED  BY <1>6, <1>7, <2>1, NatInductionOnSets
<1>9. QED  BY <1>1, <1>2, <1>8

LEMMA CapIsExact ==
    ASSUME env \in Environments, WorkerConfigOk, NEW n \in Nat \ {0}
    PROVE  Cap(WorkerConfig, n)
              = AtMost(WorkerConfig.base_delay * Power(WorkerConfig.multiplier, n - 1),
                       WorkerConfig.max_delay)
<1> DEFINE base  == WorkerConfig.base_delay
           max   == WorkerConfig.max_delay
           power == Power(WorkerConfig.multiplier, n - 1)
<1>1. base \in Nat \ {0} /\ WorkerConfig.multiplier \in Nat \ {0}
  BY StartupAssumption DEF WorkerConfig, WorkerConfigOk, WorkerConfigInRange, Readable,
     Parsed, Numeric, Bounded
<1>2. UMax \in Nat /\ max \in Nat /\ max < UMax
  <2> DEFINE seconds == Parsed("retry_max_delay")
             limit   == Limit["retry_max_delay"]
  <2>1. seconds \in Nat /\ limit \in Nat /\ seconds <= limit
    BY StartupAssumption DEF WorkerConfigOk, WorkerConfigInRange, InRange, Readable,
       Parsed, Numeric, Bounded
  <2>2. MsPerSecond \in Nat /\ UMax \in Nat /\ limit * MsPerSecond < UMax
    BY StartupAssumption
  <2>3. max = seconds * MsPerSecond
    BY DEF WorkerConfig, Seconds
  <2> HIDE DEF seconds, limit, max
  <2>4. seconds * MsPerSecond \in Nat /\ seconds * MsPerSecond <= limit * MsPerSecond
        /\ limit * MsPerSecond \in Nat
    BY <2>1, <2>2, Products
  <2>5. QED  BY <2>2, <2>3, <2>4
<1>3. power \in Nat \ {0} /\ SaturatingPow(WorkerConfig.multiplier, n - 1) = AtMost(power, UMax)
  BY <1>1, SaturatedPower
<1> HIDE DEF base, max, power
<1>4. AtMost(base * AtMost(power, UMax), max) = AtMost(base * power, max)
  <2>1. CASE power <= UMax
    BY <2>1 DEF AtMost
  <2>2. CASE ~(power <= UMax)
    <3>1. UMax * base >= UMax /\ power * base >= power
      BY <1>1, <1>2, <1>3, Products
    <3>2. UMax * base = base * UMax /\ power * base = base * power
          /\ base * UMax \in Nat /\ base * power \in Nat
      BY <1>1, <1>2, <1>3
    <3>3. QED  BY <1>2, <1>3, <2>2, <3>1, <3>2 DEF AtMost
  <2>3. QED  BY <2>1, <2>2
<1>5. QED  BY <1>3, <1>4 DEF Cap, base, max, power

-------------------------------------------------------------------------------

LEMMA StartupBegins == StartupInit => StartupInv
BY DEF StartupInit, StartupInv, Checked, HeartbeatFitsLease, BackoffIsExact

\* WorkerConfig and the checks read the environment only, which never changes.
LEMMA ChecksStay ==
    ASSUME UNCHANGED env
    PROVE  /\ DatabaseConfigOk' = DatabaseConfigOk
           /\ WorkerConfigOk' = WorkerConfigOk
           /\ HttpConfigOk' = HttpConfigOk
           /\ WorkerConfig' = WorkerConfig
BY DEF DatabaseConfigOk, WorkerConfigOk, WorkerConfigInRange, HttpConfigOk, WorkerConfig,
   Readable, InRange, Parsed

LEMMA StartupStep == StartupInv /\ [StartupNext]_startupVars => StartupInv'
<1> SUFFICES ASSUME StartupInv, [StartupNext]_startupVars
             PROVE  StartupInv'
  OBVIOUS
<1> USE DEF StartupInv, Checked
<1>1. CASE ReadLogFormat
  <2>1. UNCHANGED env
    BY <1>1 DEF ReadLogFormat, Check
  <2> QED
    BY <1>1, <2>1, ChecksStay DEF ReadLogFormat, Check, HeartbeatFitsLease, BackoffIsExact, Working
<1>2. CASE ReadDatabaseConfig
  <2>1. UNCHANGED env
    BY <1>2 DEF ReadDatabaseConfig, Check
  <2> QED
    BY <1>2, <2>1, ChecksStay DEF ReadDatabaseConfig, Check, HeartbeatFitsLease, BackoffIsExact,
       Working
<1>3. CASE ReadWorkerConfig
  <2>1. UNCHANGED env
    BY <1>3 DEF ReadWorkerConfig, Check
  <2> QED
    BY <1>3, <2>1, ChecksStay DEF ReadWorkerConfig, Check, HeartbeatFitsLease, BackoffIsExact,
       Working
<1>4. CASE ReadHttpConfig
  <2>1. UNCHANGED env
    BY <1>4 DEF ReadHttpConfig, Check
  <2> QED
    BY <1>4, <2>1, ChecksStay DEF ReadHttpConfig, Check, HeartbeatFitsLease, BackoffIsExact, Working
<1>5. CASE CreatePool
  <2>1. UNCHANGED env
    BY <1>5 DEF CreatePool, UseDatabase
  <2> QED
    BY <1>5, <2>1, ChecksStay DEF CreatePool, UseDatabase, HeartbeatFitsLease, BackoffIsExact,
       Working
<1>6. CASE RunMigrations
  <2>1. UNCHANGED env
    BY <1>6 DEF RunMigrations, UseDatabase
  <2> QED
    BY <1>6, <2>1, ChecksStay DEF RunMigrations, UseDatabase, HeartbeatFitsLease, BackoffIsExact,
       Working
<1>7. CASE PollIdle
  <2>1. /\ UNCHANGED <<role, env, pc, config, touched, attempts>>
        /\ slept'.why = "poll" /\ Working
    BY <1>7 DEF PollIdle, Pause
  <2> QED
    BY <2>1, ChecksStay DEF HeartbeatFitsLease, BackoffIsExact, Working
<1>8. CASE SleepToRenewal
  <2>1. /\ UNCHANGED <<role, env, pc, config, touched, attempts>>
        /\ Working
        /\ slept' = [why |-> "heartbeat", ms |-> HeartbeatInterval(config.lease_duration)]
    BY <1>8 DEF SleepToRenewal, Pause
  <2>2. WorkerConfigOk /\ config = WorkerConfig
    BY <2>1 DEF Working
  <2>3. HeartbeatFitsLease'
    BY <2>1, <2>2, AcceptedLeaseFits DEF HeartbeatFitsLease
  <2> QED
    BY <2>1, <2>3, ChecksStay DEF BackoffIsExact, Working
<1>9. CASE BackOff
  <2>1. /\ UNCHANGED <<role, env, pc, config, touched>> /\ Working
        /\ attempts' = attempts + 1
    BY <1>9 DEF BackOff
  <2>2. PICK delay \in {0, Cap(config, attempts + 1)} :
                 slept' = [why |-> "backoff", ms |-> delay]
    BY <1>9 DEF BackOff, Pause
  <2>3. WorkerConfigOk /\ config = WorkerConfig /\ attempts' \in Nat /\ attempts' >= 1
    BY <2>1 DEF Working
  <2>4. BackoffIsExact'
    <3>1. Cap(config, attempts') = AtMost(config.base_delay
                                             * Power(config.multiplier, attempts' - 1),
                                          config.max_delay)
      BY <2>3, CapIsExact
    <3>2. QED  BY <2>1, <2>2, <3>1 DEF BackoffIsExact
  <2> QED
    BY <2>1, <2>2, <2>3, <2>4, ChecksStay DEF HeartbeatFitsLease, Working
<1>10. CASE UNCHANGED startupVars
  <2>1. UNCHANGED env
    BY <1>10 DEF startupVars
  <2> QED
    BY <1>10, <2>1, ChecksStay DEF startupVars, HeartbeatFitsLease, BackoffIsExact, Working
<1> QED
  BY <1>1, <1>2, <1>3, <1>4, <1>5, <1>6, <1>7, <1>8, <1>9, <1>10 DEF StartupNext

LEMMA ConfigOkIsSane == StartupInv => NothingTouchedUnlessSane
<1> SUFFICES ASSUME StartupInv, touched # {}, NEW s \in RoleSettings
             PROVE  Sane(s)
  BY DEF NothingTouchedUnlessSane
<1>1. DatabaseConfigOk /\ (IF role = "worker" THEN WorkerConfigOk ELSE HttpConfigOk)
  BY DEF StartupInv, Checked
<1>2. s \in Bounded /\ Limit[s] \in Nat /\ env[s] \in Nat \cup {UNSET, NOT_UNICODE, BAD}
  BY StartupAssumption DEF StartupInv, RoleSettings, Bounded, Numeric
<1>3. Readable(s) /\ (s = "shutdown_grace" => Parsed(s) <= Limit[s])
                  /\ (s # "shutdown_grace" => InRange(s))
  BY <1>1 DEF DatabaseConfigOk, WorkerConfigOk, WorkerConfigInRange, HttpConfigOk,
     RoleSettings, Bounded
<1> QED
  BY <1>2, <1>3 DEF Sane, Readable, InRange, Parsed

-------------------------------------------------------------------------------

\* StartupInv is an invariant: it is inductive.
THEOREM StartupInvariant == StartupSpec => []StartupInv
<1>1. StartupInit => StartupInv
  BY StartupBegins
<1>2. StartupInv /\ [StartupNext]_startupVars => StartupInv'
  BY StartupStep
<1> QED
  BY <1>1, <1>2, PTL DEF StartupSpec

\* A process that connects or migrates has had every setting it reads in
\* range: config.rs's "fails fast at startup".
THEOREM FailsFast == StartupSpec => []NothingTouchedUnlessSane
BY StartupInvariant, ConfigOkIsSane, PTL

\* spawn_heartbeat's interval leaves room for two renewals in every lease
\* that WorkerConfig::validate accepts.
THEOREM TwoRenewalsFit == StartupSpec => []HeartbeatFitsLease
<1>1. StartupInv => HeartbeatFitsLease
  BY DEF StartupInv
<1> QED
  BY <1>1, StartupInvariant, PTL

\* RetryPolicy::cap is min(max_delay, base_delay * multiplier^(attempt - 1)) for
\* every policy that WorkerConfig::validate accepts and every attempt number:
\* no saturating step can be noticed.
THEOREM CapIsTheFormulas == StartupSpec => []BackoffIsExact
<1>1. StartupInv => BackoffIsExact
  BY DEF StartupInv
<1> QED
  BY <1>1, StartupInvariant, PTL

-------------------------------------------------------------------------------
(* Requests.                                                               *)

\* The payloads that all three programs take, and that both tables hold.
Chargeable(payload) == ParsesAsCharge(payload) /\ Storable(payload)

\* The inductive invariant: nothing else is ever stored or sent, however often
\* the job fails, dies and is replayed.
RequestInv ==
    /\ row # NULL \/ call # NULL => "payload" \in DOMAIN row /\ Chargeable(row.payload)
    /\ call # NULL => Chargeable(call)
    /\ AcceptedIsExecutable

LEMMA RequestBegins == SubmissionInit => RequestInv
BY SubmissionAssumption DEF SubmissionInit, RequestInv, AcceptedIsExecutable

\* An update of a job's columns leaves its payload alone.
LEMMA RequestStep == RequestInv /\ [SubmissionNext]_submissionVars => RequestInv'
<1> SUFFICES ASSUME RequestInv, [SubmissionNext]_submissionVars
             PROVE  RequestInv'
  OBVIOUS
<1>1. CASE SubmitJob
  <2>1. CASE row' = row
    BY <1>1, <2>1 DEF SubmitJob, RequestInv, AcceptedIsExecutable
  <2>2. CASE row' # row
    <3>1. /\ row' = [status |-> "PENDING", attempts |-> 0, payload |-> request.payload,
                     max_attempts |-> request.max_attempts]
          /\ answer' = "ACCEPTED"
          /\ row = NULL /\ call' = call
          /\ Accepts(request)
          /\ JobRowOk(request.kind, request.payload, request.max_attempts)
      BY <1>1, <2>2 DEF SubmitJob
    <3>2. Chargeable(request.payload)
      BY <3>1 DEF Chargeable, Accepts, JobRowOk
    <3>3. QED
      BY <3>1, <3>2 DEF RequestInv, AcceptedIsExecutable
  <2>3. QED
    BY <2>1, <2>2
<1>2. CASE Execute
  BY <1>2 DEF Execute, RequestInv, Chargeable, AcceptedIsExecutable
<1>3. CASE CreateCharge
  <2>1. Chargeable(call) /\ "payload" \in DOMAIN row /\ Chargeable(row.payload)
    BY <1>3 DEF CreateCharge, RequestInv
  <2>2. ParsesAsCharge(call) /\ ChargeRowOk(call)
    BY <2>1 DEF Chargeable, ParsesAsCharge, ChargePayloadOk,
       ChargeRowOk
  <2>3. row' = [row EXCEPT !.status = "SUCCEEDED"] /\ answer' = "CHARGED" /\ call' = NULL
    BY <1>3, <2>2 DEF CreateCharge
  <2>4. QED
    BY <2>1, <2>3 DEF RequestInv, AcceptedIsExecutable
<1>4. CASE FailDownstream
  BY <1>4 DEF FailDownstream, RequestInv, AcceptedIsExecutable
<1>5. ASSUME NEW budget, RetryJob(budget)
      PROVE  RequestInv'
  BY <1>5 DEF RetryJob, RequestInv, AcceptedIsExecutable
<1>6. CASE UNCHANGED submissionVars
  BY <1>6 DEF submissionVars, RequestInv, Chargeable, AcceptedIsExecutable
<1>7. QED
  BY <1>1, <1>2, <1>3, <1>4, <1>5, <1>6 DEF SubmissionNext

\* validate_charge_payload is one function used three times, and the columns'
\* constraints ask no more than it grants: no job the API accepted dies for what
\* it asks.
THEOREM NothingAcceptedIsRefused == SubmissionSpec => []AcceptedIsExecutable
<1>1. RequestInv => AcceptedIsExecutable
  BY DEF RequestInv
<1>2. QED
  BY <1>1, RequestBegins, RequestStep, PTL DEF SubmissionSpec

===============================================================================
