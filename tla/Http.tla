-------------------------------- MODULE Http --------------------------------
(***************************************************************************)
(* A request on its way through the server: the middleware stack that main *)
(* chains (internal/middleware), the route, and the answer the handler     *)
(* gives (cmd/api/main.go).                                                *)
(*                                                                         *)
(* Outermost is CORS, then Recovery, then Logger, then RateLimiter, then   *)
(* the router; the rest of the stack only sets headers.  The limiter keys  *)
(* its buckets by RemoteAddr, which is the address AND the port of the     *)
(* client: a connection, whose requests come one after the other.          *)
(* Handlers are reduced to the answers they can give.                      *)
(*                                                                         *)
(* Time is counted in ticks, Second of them a second, and tokens in        *)
(* Second-ths, so that a tick adds RateLimitRPS to a bucket.               *)
(***************************************************************************)
EXTENDS Config, Sequences, FiniteSets

CONSTANTS
  Environments,   \* environments the server may be started in
  Connections,    \* keys of the limiter
  Asked,          \* requests clients make: [method, route]
  Second,
  MaxTime, MaxRequests   \* bounds of the model

ASSUME HttpAssumption ==
  /\ \A env \in Environments : DOMAIN env = Variables
  /\ \A env \in Environments :
       /\ Load(env).RateLimitRPS \in Int \union {NaN}
       /\ Load(env).RateLimitBurst \in Int
  /\ NaN \notin Int
  /\ Second \in Nat \ {0}
  /\ MaxTime \in Nat /\ MaxRequests \in Nat

VARIABLES
  cfg,        \* what Load returned
  clock,      \* time.Now
  bucket,     \* limiter.buckets, New for a key that has none
  conn,       \* per connection: where its request is, and whether its status is an error
  requests,   \* http.requests
  errors,     \* http.errors
  passed,     \* history: per key, when the limiter let a request pass
  answered,   \* history: number of answers of every kind
  arrived     \* history: number of requests

vars == <<cfg, clock, bucket, conn, requests, errors, passed, answered, arrived>>

New == [tokens |-> 0, lastTime |-> -1]
Waiting == [pc |-> "waiting"]
Panic == 0   \* in place of a status: the handler panics

-----------------------------------------------------------------------------
\* What the handlers of events answer with; 500 is for an event that cannot be
\* encoded, of which there is none.
EventStatuses(q) ==
  CASE q.route = "/events" /\ q.method = "POST" -> {202, 400, 422, 500}
    [] q.route = "/events" /\ q.method = "GET" -> {200, Panic}   \* see EventViews!Page
    [] q.route = "/events/search" -> {200, 400}
    [] q.route = "/events/{id}" /\ q.method \in {"GET", "DELETE"} -> {200, 400, 404}
    [] q.route = "/events/{id}" /\ q.method \notin {"GET", "DELETE"} -> {400, 405}
    [] OTHER -> {405}

\* And those of the broker.
BrokerStatuses(q) ==
  CASE q.route = "/broker/topics" -> {200}
    [] q.route = "/broker/dlq/" -> {200, 404}
    [] q.route = "/broker/replay" /\ q.method = "POST" -> {200, 400, 404}
    [] OTHER -> {405}

\* The router: the statuses a request can end with.
Statuses(q) ==
  CASE q.route \in {"/healthz", "/stats", "/metrics", "/pipeline"} -> {200}
    [] q.route \in {"/events", "/events/search", "/events/{id}"} -> EventStatuses(q)
    [] q.route \in {"/broker/topics", "/broker/dlq/", "/broker/replay"} -> BrokerStatuses(q)
    [] OTHER -> {404}

\* Mutant of Refill: idle time is credited without limit.
RefillUncapped(b) ==
  IF cfg.RateLimitRPS = NaN THEN NaN
  ELSE b.tokens + (clock - b.lastTime) * cfg.RateLimitRPS

\* The tokens of a bucket, up to the burst.  NaN is never above it.
Refill(b) ==
  LET full == cfg.RateLimitBurst * Second
      more == b.tokens + (clock - b.lastTime) * cfg.RateLimitRPS
  IN  IF cfg.RateLimitRPS = NaN THEN NaN ELSE IF more > full THEN full ELSE more

\* Mutant of Charged: a refusal costs a token, too.
ChargedAlways(tokens) == IF tokens = NaN THEN NaN ELSE tokens - Second

\* A request that passes costs a token.
Charged(tokens) ==
  IF tokens = NaN \/ Less(tokens, Second) THEN tokens ELSE tokens - Second

-----------------------------------------------------------------------------
Init ==
  /\ cfg \in {Load(env) : env \in Environments} /\ Accepted(cfg)
  /\ clock = 0
  /\ bucket = [k \in Connections |-> New]
  /\ conn = [k \in Connections |-> Waiting]
  /\ requests = 0
  /\ errors = 0
  /\ passed = [k \in Connections |-> <<>>]
  /\ answered = [ok |-> 0, error |-> 0, panic |-> 0, preflight |-> 0]
  /\ arrived = 0

\* A request arrives.  CORS answers an OPTIONS request itself, with 204.
Arrive(k, q) ==
  /\ conn[k] = Waiting
  /\ arrived < MaxRequests
  /\ arrived' = arrived + 1
  /\ IF q.method = "OPTIONS"
       THEN answered' = [answered EXCEPT !.preflight = @ + 1] /\ UNCHANGED conn
       ELSE /\ conn' = [conn EXCEPT ![k] = [pc |-> "limit", request |-> q]]
            /\ UNCHANGED answered
  /\ UNCHANGED <<cfg, clock, bucket, requests, errors, passed>>

\* An answer is written; Logger will count it.
Answer(k, status) ==
  /\ answered' = IF status >= 400 THEN [answered EXCEPT !.error = @ + 1]
                                  ELSE [answered EXCEPT !.ok = @ + 1]
  /\ conn' = [conn EXCEPT ![k] = [pc |-> "count", failed |-> status >= 400]]

\* allow lets the request pass; the first of a key always.
Pass(k) ==
  /\ bucket' = [bucket EXCEPT ![k] =
       [tokens |-> IF @ = New THEN (cfg.RateLimitBurst - 1) * Second ELSE Charged(Refill(@)),
        lastTime |-> clock]]
  /\ passed' = [passed EXCEPT ![k] = Append(@, clock)]
  /\ conn' = [conn EXCEPT ![k] = [pc |-> "handle", request |-> @.request]]
  /\ UNCHANGED answered

\* allow refuses it: 429.  The refill is kept, and its time.
Refuse(k) ==
  /\ bucket' = [bucket EXCEPT ![k] = [tokens |-> Charged(Refill(@)), lastTime |-> clock]]
  /\ Answer(k, 429)
  /\ UNCHANGED passed

\* RateLimiter: allow, all of it under limiter.mu.
Limit(k) ==
  /\ conn[k].pc = "limit"
  /\ IF bucket[k] # New /\ Less(Refill(bucket[k]), Second) THEN Refuse(k) ELSE Pass(k)
  /\ UNCHANGED <<cfg, clock, requests, errors, arrived>>

\* Mutant of Handle: Logger counts a panic, too.
HandleDeferred(k) ==
  /\ conn[k].pc = "handle"
  /\ \E s \in Statuses(conn[k].request) :
       IF s = Panic
         THEN /\ answered' = [answered EXCEPT !.panic = @ + 1]
              /\ conn' = [conn EXCEPT ![k] = [pc |-> "count", failed |-> TRUE]]
         ELSE Answer(k, s)
  /\ UNCHANGED <<cfg, clock, bucket, requests, errors, passed, arrived>>

\* The router and a handler.  A panic unwinds the stack past Logger, which
\* counts nothing, to Recovery, which answers 500.
Handle(k) ==
  /\ conn[k].pc = "handle"
  /\ \E s \in Statuses(conn[k].request) :
       IF s = Panic
         THEN /\ answered' = [answered EXCEPT !.panic = @ + 1]
              /\ conn' = [conn EXCEPT ![k] = Waiting]
         ELSE Answer(k, s)
  /\ UNCHANGED <<cfg, clock, bucket, requests, errors, passed, arrived>>

\* Logger counts the request, and only then whether it was an error.
CountRequest(k) ==
  /\ conn[k].pc = "count"
  /\ requests' = requests + 1
  /\ conn' = [conn EXCEPT ![k] = IF @.failed THEN [pc |-> "error"] ELSE Waiting]
  /\ UNCHANGED <<cfg, clock, bucket, errors, passed, answered, arrived>>

CountError(k) ==
  /\ conn[k].pc = "error"
  /\ errors' = errors + 1
  /\ conn' = [conn EXCEPT ![k] = Waiting]
  /\ UNCHANGED <<cfg, clock, bucket, requests, passed, answered, arrived>>

Tick ==
  /\ clock < MaxTime
  /\ clock' = clock + 1
  /\ UNCHANGED <<cfg, bucket, conn, requests, errors, passed, answered, arrived>>

Next ==
  \/ \E k \in Connections :
       \/ \E q \in Asked : Arrive(k, q)
       \/ Limit(k) \/ Handle(k) \/ CountRequest(k) \/ CountError(k)
  \/ Tick

Spec == Init /\ [][Next]_vars

-----------------------------------------------------------------------------
(* Properties.                                                             *)

\* What the limiter is for.  In every window of time, from the first request
\* to the last, one key gets through at most the burst and what the rate adds
\* in that time, however its requests, refusals and pauses alternate.  The
\* first request passes even if the burst is zero or less, and then no other.
RateBound ==
  cfg.RateLimitRPS # NaN =>
    \A k \in Connections : \A i, j \in 1 .. Len(passed[k]) : i < j =>
      /\ cfg.RateLimitBurst >= 1
      /\ (j - i + 1 - cfg.RateLimitBurst) * Second
           <= (passed[k][j] - passed[k][i]) * cfg.RateLimitRPS

\* Whoever waits is served: a request that comes a rate's period after the one
\* before it passes, even if that one and many before it were refused.  At a
\* rate of one or more this makes the header Retry-After: 1 of a 429 true.
PatientServed ==
  [][ \A k \in Connections :
        /\ Limit(k) /\ bucket[k] # New /\ cfg.RateLimitBurst >= 1
        /\ cfg.RateLimitRPS # NaN
        /\ (clock - bucket[k].lastTime) * cfg.RateLimitRPS >= Second
        => conn'[k].pc = "handle" ]_vars

\* The books of Logger.  Every answer below CORS and Recovery is counted, or
\* its connection is about to: those of the limiter too, preflights and panics
\* never.  No error is counted before its request.
HttpBooks ==
  /\ requests + Cardinality({k \in Connections : conn[k].pc = "count"})
       = answered.ok + answered.error
  /\ errors + Cardinality({k \in Connections :
                  conn[k].pc = "error" \/ (conn[k].pc = "count" /\ conn[k].failed)})
       = answered.error
  /\ errors <= requests

=============================================================================
