-------------------------------- MODULE Startup --------------------------------
(***************************************************************************)
(* A process of ReliableQ from its environment to its work: worker, API or *)
(* charge service.  main reads and validates its settings, connects,       *)
(* migrates and runs; a worker's settings then decide when it polls, when  *)
(* it renews leases and how long a failed job waits.                       *)
(*                                                                         *)
(* Durations are in milliseconds of MsPerSecond to the second; settings    *)
(* are read in the unit their variable has.                                *)
(***************************************************************************)
EXTENDS Null

CONSTANTS
    Environments,    \* the environments a process may be started with
    Default,         \* Default[s]: DEFAULT_... of the numeric setting s
    Limit,           \* Limit[s]: MAX_ALLOWED_... of s
    UMax,            \* u32::MAX
    MsPerSecond,     \* 1000
    HeartbeatFloor,  \* the 100 ms below which no worker renews
    MaxAttempts,     \* MAX_MAX_ATTEMPTS
    UNSET, NOT_UNICODE, BAD   \* no variable; not text; text of no value

Bounded == {"max_connections", "connect_timeout", "max_body_bytes", "request_timeout",
            "concurrency", "poll_interval", "lease_duration", "charge_request_timeout",
            "retry_max_delay", "shutdown_grace"}
Numeric == Bounded \cup {"retry_base_delay", "retry_multiplier"}
Named   == {"log_format", "url", "bind_addr", "charge_service_url", "metrics_bind_addr"}

ASSUME StartupAssumption ==
    /\ Default \in [Numeric -> Nat \ {0}]
    /\ Limit \in [Bounded -> Nat \ {0}]
    /\ \A s \in Bounded : Default[s] <= Limit[s]
    /\ UMax \in Nat
    /\ MsPerSecond \in Nat
    /\ HeartbeatFloor \in Nat \ {0}
    /\ 3 * HeartbeatFloor <= MsPerSecond
    /\ Limit["retry_max_delay"] * MsPerSecond < UMax
    /\ MaxAttempts \in Nat \ {0}
    /\ {UNSET, NOT_UNICODE, BAD} \cap Int = {}
    /\ \A env \in Environments :
          /\ DOMAIN env = Numeric \cup Named
          /\ \A s \in Numeric : env[s] \in Nat \cup {UNSET, NOT_UNICODE, BAD}

VARIABLES
    role,     \* which binary this is
    env,      \* the process's environment
    pc,       \* how far main is, or how it ended
    config,   \* the settings main has accepted so far
    touched,  \* what of the database it has used
    attempts, \* the failed attempts of the one job a worker works on
    slept     \* the worker's last pause: what for, how long

startupVars == <<role, env, pc, config, touched, attempts, slept>>

-------------------------------------------------------------------------------
(* Reading the environment.                                                *)

\* parse_env: unset is the default; a text that is no number is refused.
Parsed(s) == IF env[s] = UNSET THEN Default[s] ELSE env[s]
Readable(s) == env[s] \notin {NOT_UNICODE, BAD}

Seconds(n) == n * MsPerSecond

\* Mutant: a maximum off by one.
InRangeByOne(s) == Parsed(s) > 0 /\ Parsed(s) <= Limit[s] + 1

InRange(s) == Parsed(s) > 0 /\ Parsed(s) <= Limit[s]

\* LogFormat::from_env: anything that is no text counts as unset.
LogFormatOk == env["log_format"] # BAD

DatabaseConfigOk ==
    /\ env["url"] \notin {UNSET, NOT_UNICODE, BAD}
    /\ \A s \in {"max_connections", "connect_timeout"} : Readable(s) /\ InRange(s)

HttpConfigOk ==
    /\ env["bind_addr"] # BAD
    /\ \A s \in {"max_body_bytes", "request_timeout"} : Readable(s) /\ InRange(s)

\* WorkerConfig::validate.
WorkerConfigInRange ==
    /\ \A s \in {"concurrency", "poll_interval", "lease_duration",
                 "charge_request_timeout", "retry_max_delay"} : InRange(s)
    /\ Parsed("retry_base_delay") > 0
    /\ Parsed("retry_multiplier") >= 1
    /\ Parsed("retry_base_delay") <= Seconds(Parsed("retry_max_delay"))
    /\ Parsed("shutdown_grace") <= Limit["shutdown_grace"]

WorkerConfigOk ==
    /\ env["charge_service_url"] \notin {UNSET, NOT_UNICODE, BAD}
    /\ env["metrics_bind_addr"] # BAD
    /\ \A s \in {"concurrency", "poll_interval", "lease_duration", "charge_request_timeout",
                 "retry_base_delay", "retry_multiplier", "retry_max_delay",
                 "shutdown_grace"} : Readable(s)
    /\ WorkerConfigInRange

\* What of WorkerConfig decides when something happens.
WorkerConfig == [poll_interval    |-> Parsed("poll_interval"),
                 lease_duration   |-> Seconds(Parsed("lease_duration")),
                 base_delay       |-> Parsed("retry_base_delay"),
                 multiplier       |-> Parsed("retry_multiplier"),
                 max_delay        |-> Seconds(Parsed("retry_max_delay"))]

-------------------------------------------------------------------------------
(* What a worker computes from them.                                       *)

AtMost(a, b)  == IF a <= b THEN a ELSE b
AtLeast(a, b) == IF a >= b THEN a ELSE b

\* Mutant: the product of two u32 without saturation.
WrappingMul(a, b) == (a * b) % (UMax + 1)

SaturatingMul(a, b) == AtMost(a * b, UMax)

\* The early exit at u32::MAX changes nothing: the multiplier is not 0.
SaturatingPow(base, exponent) ==
    LET result[k \in 0 .. exponent] ==
            IF k = 0 THEN 1 ELSE SaturatingMul(result[k - 1], base)
    IN  result[exponent]

\* RetryPolicy::cap.  base_delay is a Duration, whose product by a u32 is
\* far from Duration::MAX.
Cap(policy, attempt_number) ==
    AtMost(policy.base_delay * SaturatingPow(policy.multiplier, attempt_number - 1),
           policy.max_delay)

\* Mutant: a floor of a second.
SlowHeartbeat(lease_duration) == AtLeast(lease_duration \div 3, MsPerSecond)

HeartbeatInterval(lease_duration) == AtLeast(lease_duration \div 3, HeartbeatFloor)

-------------------------------------------------------------------------------
(* main.                                                                   *)

StartupInit ==
    /\ role \in {"worker", "api", "fake-charge"}
    /\ env \in Environments
    /\ pc = "log_format"
    /\ config = NULL
    /\ touched = {}
    /\ attempts = 0
    /\ slept = NULL

\* unwrap_or_else(.. exit(1)): a setting is accepted, or the process ends.
Check(here, ok, next) ==
    /\ pc = here
    /\ pc' = IF ok THEN next ELSE "refused"
    /\ UNCHANGED <<role, env, touched, attempts, slept>>

ReadLogFormat == Check("log_format", LogFormatOk, "database") /\ UNCHANGED config

ReadDatabaseConfig == Check("database", DatabaseConfigOk, "own") /\ UNCHANGED config

ReadWorkerConfig ==
    /\ role = "worker"
    /\ Check("own", WorkerConfigOk, "connect")
    /\ config' = IF WorkerConfigOk THEN WorkerConfig ELSE NULL

ReadHttpConfig ==
    /\ role # "worker"
    /\ Check("own", HttpConfigOk, "connect")
    /\ UNCHANGED config

\* create_pool(..).await?, run_migrations(..).await?: an error ends main.
UseDatabase(here, what, next) ==
    /\ pc = here
    /\ pc' \in {next, "failed"}
    /\ touched' = touched \cup {what}
    /\ UNCHANGED <<role, env, config, attempts, slept>>

CreatePool    == UseDatabase("connect", "connection", "migrate")
RunMigrations == UseDatabase("migrate", "schema", "running")

-------------------------------------------------------------------------------
(* A worker's pauses.                                                      *)

Pause(why, ms) == slept' = [why |-> why, ms |-> ms]

Working == pc = "running" /\ role = "worker"

\* An empty claim: poll_interval and up to as much again.
PollIdle ==
    /\ Working
    /\ \E jitter \in {0, config.poll_interval} :
          Pause("poll", config.poll_interval + jitter)
    /\ UNCHANGED <<role, env, pc, config, touched, attempts>>

SleepToRenewal ==
    /\ Working
    /\ Pause("heartbeat", HeartbeatInterval(config.lease_duration))
    /\ UNCHANGED <<role, env, pc, config, touched, attempts>>

\* RetryPolicy::delay: anything from 0 to the cap, of which the ends matter.
\* The last attempt schedules nothing.
BackOff ==
    /\ Working
    /\ attempts + 1 < MaxAttempts
    /\ attempts' = attempts + 1
    /\ \E delay \in {0, Cap(config, attempts + 1)} : Pause("backoff", delay)
    /\ UNCHANGED <<role, env, pc, config, touched>>

StartupNext ==
    \/ ReadLogFormat \/ ReadDatabaseConfig \/ ReadWorkerConfig \/ ReadHttpConfig
    \/ CreatePool \/ RunMigrations
    \/ PollIdle \/ SleepToRenewal \/ BackOff

StartupSpec == StartupInit /\ [][StartupNext]_startupVars

-------------------------------------------------------------------------------
(* Properties.                                                             *)

\* A setting is as SPEC.md and the constants want it: readable, and between 1
\* (0 for the grace period) and its maximum.
Sane(s) ==
    \/ env[s] = UNSET
    \/ env[s] \in (IF s = "shutdown_grace" THEN 0 ELSE 1) .. Limit[s]

RoleSettings == {"max_connections", "connect_timeout"} \cup
                (IF role = "worker" THEN Bounded \ {"max_body_bytes", "request_timeout"}
                 ELSE {"max_body_bytes", "request_timeout"})

\* Every setting is read and checked before the first use of the database: a
\* misconfigured process fails fast, having neither connected nor migrated.
NothingTouchedUnlessSane == touched # {} => \A s \in RoleSettings : Sane(s)

\* base to the power exponent, in numbers without a width.
Power(base, exponent) ==
    LET result[k \in 0 .. exponent] == IF k = 0 THEN 1 ELSE result[k - 1] * base
    IN  result[exponent]

\* However large multiplier and attempt number, the cap of a job's backoff is
\* the one of the documented formula, in numbers without a width: neither
\* saturating step can be noticed, because no accepted max_delay reaches
\* u32::MAX milliseconds.  (The ends of the uniform choice stand for it.)
BackoffIsExact ==
    slept # NULL /\ slept.why = "backoff" =>
        slept.ms \in {0, AtMost(config.base_delay * Power(config.multiplier, attempts - 1),
                                config.max_delay)}

\* For every accepted lease, two renewals are due before it expires: one may
\* be lost without the lease being lost.
HeartbeatFitsLease ==
    slept # NULL /\ slept.why = "heartbeat" =>
        slept.ms > 0 /\ 2 * slept.ms < config.lease_duration

===============================================================================
