------------------------------- MODULE Config -------------------------------
(***************************************************************************)
(* The configuration (internal/config/config.go): what Load makes of the   *)
(* environment and what validate lets pass.                                *)
(*                                                                         *)
(* A variable is Unset, Bad (its parser returns an error), or what the     *)
(* parser returns.  Floats are whole numbers or NaN, which ParseFloat      *)
(* accepts and for which every comparison is false.                        *)
(***************************************************************************)
EXTENDS Integers

CONSTANTS
  Unset, Bad,   \* an environment variable that is missing, or not parsed
  NaN

Variables == {"PORT", "BROKER_PARTITIONS", "RATE_LIMIT_RPS", "RATE_LIMIT_BURST",
              "EVENT_TTL", "WORKER_COUNT"}

LastPort == 65535

\* envOrDefaultInt, envOrDefaultFloat, envOrDefaultDuration: whatever does not
\* parse is replaced by the default.
Parsed(v, fallback) == IF v \in {Unset, Bad} THEN fallback ELSE v

\* envOrDefault does not parse.
Text(v, fallback) == IF v = Unset THEN fallback ELSE v

\* Load, without the settings nobody reads.  Durations are in hours.
Load(env) ==
  [Port |-> Text(env["PORT"], 8080),
   BrokerPartitions |-> Parsed(env["BROKER_PARTITIONS"], 4),
   RateLimitRPS |-> Parsed(env["RATE_LIMIT_RPS"], 50),
   RateLimitBurst |-> Parsed(env["RATE_LIMIT_BURST"], 100),
   TTL |-> Parsed(env["EVENT_TTL"], 24),
   WorkerCount |-> Parsed(env["WORKER_COUNT"], 4)]

\* The comparisons x < y and x <= y of floats.
Less(x, y) == x # NaN /\ y # NaN /\ x < y
AtMost(x, y) == x # NaN /\ y # NaN /\ x <= y

\* validate does not end the process.
Accepted(c) ==
  /\ ~(c.BrokerPartitions < 1)
  /\ ~AtMost(c.RateLimitRPS, 0)
  /\ ~(c.WorkerCount < 1)
  /\ c.Port # Bad /\ c.Port \in 1 .. LastPort

=============================================================================
