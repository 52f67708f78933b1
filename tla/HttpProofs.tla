----------------------------- MODULE HttpProofs -----------------------------
(***************************************************************************)
(* Proofs about the rate limiter of Http, for every rate, burst, number of *)
(* connections and length of run: what one key gets through in a window,   *)
(* and that whoever waits is served.                                       *)
(*                                                                         *)
(* The invariant weighs the requests that have passed against the tokens   *)
(* that are left: from any of them on, those that passed and the tokens    *)
(* together are no more than the burst and the refill of the time since.   *)
(***************************************************************************)
EXTENDS Http, SequenceTheorems, FiniteSetTheorems, TLAPS

Rate == cfg.RateLimitRPS
Burst == cfg.RateLimitBurst

CfgInv ==
  /\ Burst \in Int
  /\ Rate \in Int \union {NaN}
  /\ Rate # NaN => Rate > 0
  /\ clock \in Nat

\* A bucket with t tokens at time l weighed against the times at which it let
\* requests pass.
Weighed(now, burst, rate, t, l, times) ==
  /\ t \in Int /\ l \in 0 .. now /\ times \in Seq(Nat) /\ Len(times) >= 1
  /\ t <= burst * Second
  /\ burst >= 1 => t >= 0
  /\ burst < 1 => Len(times) = 1
  /\ \A i \in 1 .. Len(times) :
       (Len(times) - i + 1) * Second + t <= burst * Second + (l - times[i]) * rate

KeyInv(k) ==
  \/ bucket[k] = New /\ passed[k] = <<>>
  \/ \E t, l \in Int : bucket[k] = [tokens |-> t, lastTime |-> l] /\ Weighed(clock, Burst, Rate, t, l, passed[k])

Windowed(burst, rate, times) ==
  \A i, j \in 1 .. Len(times) : i < j =>
    /\ burst >= 1
    /\ (j - i + 1 - burst) * Second <= (times[j] - times[i]) * rate

IInv ==
  /\ CfgInv
  /\ DOMAIN bucket = Connections /\ DOMAIN passed = Connections /\ DOMAIN conn = Connections
  /\ Rate # NaN => \A k \in Connections : KeyInv(k) /\ Windowed(Burst, Rate, passed[k])

\* What Refill makes of a bucket in use.
LEMMA RefillFacts ==
  ASSUME CfgInv, Rate # NaN, NEW t, NEW l, NEW times, Weighed(clock, Burst, Rate, t, l, times)
  PROVE  LET r == Refill([tokens |-> t, lastTime |-> l]) IN
         /\ r \in Int
         /\ r <= Burst * Second
         /\ r <= t + (clock - l) * Rate
         /\ Burst >= 1 => r >= 0
         /\ Burst < 1 => r < Second
         /\ Burst >= 1 /\ (clock - l) * Rate >= Second => r >= Second
<1> DEFINE full == Burst * Second
           more == t + (clock - l) * Rate
           r == Refill([tokens |-> t, lastTime |-> l])
<1>1. r = IF more > full THEN full ELSE more
  BY DEF Refill, Rate, Burst
<1>2. Burst \in Int /\ Rate \in Int /\ Rate > 0 /\ Second \in Nat /\ Second > 0
        /\ clock \in Nat /\ t \in Int /\ l \in 0 .. clock
  BY HttpAssumption DEF CfgInv, Weighed
<1>3. full \in Int /\ more \in Int /\ (clock - l) * Rate >= 0
  BY <1>2
<1>4. Burst >= 1 => t >= 0 /\ full >= Second
  BY <1>2 DEF Weighed
<1>5. Burst < 1 => full < Second
  <2>1. Burst < 1 => Burst * Second <= 0
    BY <1>2
  <2> QED  BY <2>1, <1>2
<1> HIDE DEF full, r
<1>6. /\ r \in Int /\ r <= full /\ r <= more
      /\ Burst >= 1 => r >= 0
      /\ Burst < 1 => r < Second
      /\ Burst >= 1 /\ (clock - l) * Rate >= Second => r >= Second
  BY <1>1, <1>2, <1>3, <1>4, <1>5
<1> QED  BY <1>6 DEF full, r

\* Time that passes without a request keeps the balance, whatever of the
\* refill is credited.
LEMMA Aged ==
  ASSUME CfgInv, Rate # NaN, NEW t, NEW l, NEW times, Weighed(clock, Burst, Rate, t, l, times),
         NEW r \in Int, r <= Burst * Second, r <= t + (clock - l) * Rate,
         Burst >= 1 => r >= 0
  PROVE  Weighed(clock, Burst, Rate, r, clock, times)
<1>1. Burst \in Int /\ Rate \in Int /\ Second \in Nat /\ clock \in Nat
        /\ t \in Int /\ l \in 0 .. clock /\ times \in Seq(Nat)
  BY HttpAssumption DEF CfgInv, Weighed
<1>2. ASSUME NEW i \in 1 .. Len(times)
      PROVE  (Len(times) - i + 1) * Second + r <= Burst * Second + (clock - times[i]) * Rate
  <2> DEFINE w == (Len(times) - i + 1) * Second
             b == Burst * Second
  <2>1. w + t <= b + (l - times[i]) * Rate
    BY DEF Weighed
  <2>2. times[i] \in Nat /\ w \in Int /\ b \in Int
    BY <1>1
  <2>3. (l - times[i]) * Rate + (clock - l) * Rate = (clock - times[i]) * Rate
    BY <1>1, <2>2
  <2> HIDE DEF w, b
  <2>4. w + r <= b + (clock - times[i]) * Rate
    <3> DEFINE x == (l - times[i]) * Rate
               y == (clock - l) * Rate
               z == (clock - times[i]) * Rate
    <3>1. x \in Int /\ y \in Int /\ z \in Int
      BY <1>1, <2>2
    <3> HIDE DEF x, y, z
    <3>2. w + t <= b + x /\ r <= t + y /\ x + y = z
      BY <2>1, <2>3 DEF x, y, z
    <3>3. w + r <= b + z
      BY <3>1, <3>2, <2>2, <1>1
    <3> QED  BY <3>3 DEF z
  <2> QED  BY <2>4 DEF w, b
<1> QED  BY <1>1, <1>2 DEF Weighed

\* A request that passes now takes a token and is weighed with the others.
LEMMA Spent ==
  ASSUME CfgInv, Rate # NaN, NEW r, NEW times, Weighed(clock, Burst, Rate, r, clock, times),
         r >= Second, Burst >= 1
  PROVE  Weighed(clock, Burst, Rate, r - Second, clock, Append(times, clock))
<1>1. Burst \in Int /\ Rate \in Int /\ Second \in Nat \ {0} /\ clock \in Nat
        /\ r \in Int /\ times \in Seq(Nat) /\ r <= Burst * Second
  BY HttpAssumption DEF CfgInv, Weighed
<1> DEFINE longer == Append(times, clock)
           n == Len(times)
<1>2. n \in Nat /\ longer \in Seq(Nat) /\ Len(longer) = n + 1
        /\ longer[n + 1] = clock /\ \A i \in 1 .. n : longer[i] = times[i]
  BY <1>1
<1> HIDE DEF longer, n
<1>3. ASSUME NEW i \in 1 .. n + 1
      PROVE  (n + 1 - i + 1) * Second + (r - Second) <= Burst * Second + (clock - longer[i]) * Rate
  <2>1. CASE i = n + 1
    <3>1. (n + 1 - i + 1) * Second = Second /\ (clock - longer[i]) * Rate = 0
      BY <2>1, <1>1, <1>2
    <3> QED  BY <3>1, <1>1
  <2>2. CASE i # n + 1
    <3>1. i \in 1 .. n /\ longer[i] = times[i]
      BY <2>2, <1>2
    <3>2. (n - i + 1) * Second + r <= Burst * Second + (clock - times[i]) * Rate
      BY <3>1 DEF Weighed, n
    <3>3. (n + 1 - i + 1) * Second = (n - i + 1) * Second + Second
      BY <1>1, <1>2
    <3>4. (n - i + 1) * Second \in Int
      BY <1>1, <1>2
    <3> QED  BY <3>1, <3>2, <3>3, <3>4, <1>1
  <2> QED  BY <2>1, <2>2
<1>4. r - Second \in Int /\ r - Second <= Burst * Second /\ r - Second >= 0
  BY <1>1
<1>5. Weighed(clock, Burst, Rate, r - Second, clock, longer)
  BY <1>1, <1>2, <1>3, <1>4 DEF Weighed
<1> QED  BY <1>5 DEF longer

\* What is weighed now is a bound for every window that ends now.
LEMMA Windows ==
  ASSUME CfgInv, Rate # NaN, NEW r, NEW times \in Seq(Nat), Windowed(Burst, Rate, times), Burst >= 1,
         Weighed(clock, Burst, Rate, r, clock, Append(times, clock))
  PROVE  Windowed(Burst, Rate, Append(times, clock))
<1> DEFINE longer == Append(times, clock)
           n == Len(times)
<1>1. n \in Nat /\ Len(longer) = n + 1 /\ longer[n + 1] = clock
        /\ \A i \in 1 .. n : longer[i] = times[i] /\ times[i] \in Nat
  BY DEF CfgInv
<1>2. Burst \in Int /\ Rate \in Int /\ Second \in Nat /\ clock \in Nat /\ r \in Int /\ r >= 0
  BY HttpAssumption DEF CfgInv, Weighed
<1> HIDE DEF longer, n
<1>3. ASSUME NEW i \in 1 .. n + 1, NEW j \in 1 .. n + 1, i < j
      PROVE  (j - i + 1 - Burst) * Second <= (longer[j] - longer[i]) * Rate
  <2>1. CASE j = n + 1
    <3>1. (n + 1 - i + 1) * Second + r <= Burst * Second + (clock - longer[i]) * Rate
      BY <1>1 DEF Weighed, longer
    <3>2. (j - i + 1 - Burst) * Second = (n + 1 - i + 1) * Second - Burst * Second
      BY <2>1, <1>1, <1>2
    <3>3. (n + 1 - i + 1) * Second \in Int /\ Burst * Second \in Int
      <4>1. n + 1 - i + 1 \in Int
        BY <1>1
      <4> QED  BY <4>1, <1>2
    <3>4. (clock - longer[i]) * Rate \in Int
      <4>1. longer[i] \in Nat
        <5>1. i \in 1 .. n
          BY <2>1, <1>1, <1>3
        <5> QED  BY <5>1, <1>1
      <4>2. clock - longer[i] \in Int
        BY <4>1, <1>2
      <4> QED  BY <4>2, <1>2
    <3>5. (longer[j] - longer[i]) * Rate = (clock - longer[i]) * Rate
      BY <2>1, <1>1
    <3> QED  BY <3>1, <3>2, <3>3, <3>4, <3>5, <1>2
  <2>2. CASE j # n + 1
    <3>1. i \in 1 .. n /\ j \in 1 .. n /\ longer[i] = times[i] /\ longer[j] = times[j]
      BY <2>2, <1>3, <1>1
    <3> QED  BY <3>1, <1>3 DEF Windowed, n
  <2> QED  BY <2>1, <2>2
<1>4. Windowed(Burst, Rate, longer)
  BY <1>1, <1>3 DEF Windowed
<1> QED  BY <1>4 DEF longer

LEMMA InitInv == Init => IInv
<1> SUFFICES ASSUME Init PROVE IInv
  OBVIOUS
<1>1. PICK env \in Environments : cfg = Load(env) /\ Accepted(cfg)
  BY DEF Init
<1>2. CfgInv
  <2>1. ~AtMost(Rate, 0)
    BY <1>1 DEF Accepted, Rate
  <2>2. Burst \in Int /\ Rate \in Int \union {NaN} /\ clock = 0
    BY <1>1, HttpAssumption DEF Init, Rate, Burst
  <2>3. Rate # NaN => Rate > 0
    BY <2>1, <2>2, HttpAssumption DEF AtMost
  <2> QED  BY <2>2, <2>3 DEF CfgInv
<1>3. \A k \in Connections : bucket[k] = New /\ passed[k] = <<>>
  BY DEF Init
<1> QED  BY <1>2, <1>3 DEF Init, IInv, KeyInv, Windowed

\* The limiter's decision, seen from its bucket.
LEMMA LimitKey ==
  ASSUME IInv, Rate # NaN, NEW k \in Connections, Limit(k)
  PROVE  /\ KeyInv(k)' /\ Windowed(Burst, Rate, passed[k])'
         /\ \A q \in Connections : q # k =>
              bucket'[q] = bucket[q] /\ passed'[q] = passed[q]
<1>1. /\ UNCHANGED <<cfg, clock>> /\ CfgInv /\ KeyInv(k) /\ Windowed(Burst, Rate, passed[k])
      /\ DOMAIN bucket = Connections /\ DOMAIN passed = Connections
  BY DEF Limit, IInv
<1>2. \A q \in Connections : q # k => bucket'[q] = bucket[q] /\ passed'[q] = passed[q]
  BY <1>1 DEF Limit, Pass, Refuse, Answer
<1>3. Burst' = Burst /\ Rate' = Rate /\ clock' = clock
  BY <1>1 DEF Burst, Rate
<1>n. Burst \in Int /\ Rate \in Int /\ Rate > 0 /\ Second \in Nat /\ Second > 0
        /\ clock \in Nat /\ NaN \notin Int
  BY <1>1, HttpAssumption DEF CfgInv
<1>w. ASSUME NEW t \in Int, bucket'[k] = [tokens |-> t, lastTime |-> clock],
             Weighed(clock, Burst, Rate, t, clock, passed'[k])
      PROVE  KeyInv(k)'
  <2>1. \E x, l \in Int : bucket'[k] = [tokens |-> x, lastTime |-> l]
                            /\ Weighed(clock, Burst, Rate, x, l, passed'[k])
    BY <1>w, <1>n
  <2> QED  BY <2>1, <1>3 DEF KeyInv
<1>4. CASE bucket[k] = New
  <2>1. passed[k] = <<>>
    <3>1. ASSUME NEW t \in Int, NEW l \in 0 .. clock PROVE bucket[k] # [tokens |-> t, lastTime |-> l]
      <4>1. bucket[k].lastTime = -1 /\ l # -1
        BY <1>4, <1>n DEF New
      <4> QED  BY <4>1
    <3>2. \A t, l, s : Weighed(clock, Burst, Rate, t, l, s) => t \in Int /\ l \in 0 .. clock
      BY DEF Weighed
    <3> QED  BY <3>1, <3>2, <1>1 DEF KeyInv
  <2>2. /\ bucket'[k] = [tokens |-> (Burst - 1) * Second, lastTime |-> clock]
        /\ passed'[k] = <<clock>>
    BY <1>1, <1>4, <2>1 DEF Limit, Pass, Burst
  <2>3. (Burst - 1) * Second \in Int /\ (Burst - 1) * Second <= Burst * Second
          /\ (Burst >= 1 => (Burst - 1) * Second >= 0)
          /\ Second + (Burst - 1) * Second = Burst * Second
    BY <1>n
  <2>4. Weighed(clock, Burst, Rate, (Burst - 1) * Second, clock, <<clock>>)
    <3> DEFINE t == (Burst - 1) * Second
               b == Burst * Second
    <3>1. (1 - 1 + 1) * Second = Second /\ (clock - clock) * Rate = 0 /\ b \in Int
      BY <1>n
    <3>2. t \in Int /\ t <= b /\ (Burst >= 1 => t >= 0) /\ Second + t = b
      BY <2>3
    <3> HIDE DEF t, b
    <3>3. \A i \in 1 .. 1 : (1 - i + 1) * Second + t <= b + (clock - <<clock>>[i]) * Rate
      BY <3>1, <3>2, <1>n
    <3>4. <<clock>> \in Seq(Nat) /\ Len(<<clock>>) = 1
      BY <1>n
    <3>5. t \in Int /\ t <= Burst * Second /\ (Burst >= 1 => t >= 0)
            /\ \A i \in 1 .. 1 :
                 (1 - i + 1) * Second + t <= Burst * Second + (clock - <<clock>>[i]) * Rate
      BY <3>2, <3>3 DEF b
    <3>6. Weighed(clock, Burst, Rate, t, clock, <<clock>>)
      BY <3>4, <3>5, <1>n DEF Weighed
    <3> QED  BY <3>6 DEF t
  <2>5. KeyInv(k)'
    BY <2>2, <2>3, <2>4, <1>w
  <2>6. Windowed(Burst, Rate, passed[k])'
    BY <2>2 DEF Windowed
  <2> QED  BY <2>5, <2>6, <1>2
<1>5. CASE bucket[k] # New
  <2>1. PICK t, l \in Int :
          bucket[k] = [tokens |-> t, lastTime |-> l] /\ Weighed(clock, Burst, Rate, t, l, passed[k])
    BY <1>1, <1>5 DEF KeyInv
  <2> DEFINE r == Refill(bucket[k])
             times == passed[k]
  <2>2. /\ r \in Int /\ r <= Burst * Second /\ r <= t + (clock - l) * Rate
        /\ Burst >= 1 => r >= 0
        /\ Burst < 1 => r < Second
    BY <2>1, <1>1, RefillFacts
  <2> HIDE DEF r
  <2>3. Weighed(clock, Burst, Rate, r, clock, times)
    BY <2>1, <2>2, <1>1, Aged
  <2>4. times \in Seq(Nat)
    BY <2>3 DEF Weighed
  <2>5. CASE r < Second
    <3>1. Less(r, Second) /\ Charged(r) = r
      BY <2>5, <2>2, <1>n DEF Less, Charged
    <3>2. bucket'[k] = [tokens |-> r, lastTime |-> clock] /\ passed'[k] = passed[k]
      BY <3>1, <1>1, <1>5 DEF Limit, Refuse, Answer, r
    <3>3. KeyInv(k)'
      BY <3>2, <2>2, <2>3, <1>w
    <3>4. Windowed(Burst, Rate, passed[k])'
      BY <3>2, <1>1, <1>3
    <3> QED  BY <3>3, <3>4, <1>2
  <2>6. CASE ~(r < Second)
    <3>1. ~Less(r, Second) /\ Charged(r) = r - Second /\ r >= Second
      BY <2>6, <2>2, <1>n DEF Less, Charged
    <3>2. Burst >= 1
      BY <2>2, <2>6, <1>n
    <3>3. bucket'[k] = [tokens |-> r - Second, lastTime |-> clock]
            /\ passed'[k] = Append(times, clock)
      BY <3>1, <1>1, <1>5 DEF Limit, Pass, r
    <3>4. Weighed(clock, Burst, Rate, r - Second, clock, Append(times, clock))
      BY <3>1, <3>2, <2>3, <1>1, Spent
    <3>5. Windowed(Burst, Rate, Append(times, clock))
      BY <3>2, <3>4, <2>4, <1>1, Windows
    <3>6. KeyInv(k)'
      <4>1. r - Second \in Int
        BY <2>2, <1>n
      <4>2. Weighed(clock, Burst, Rate, r - Second, clock, passed'[k])
        BY <3>3, <3>4
      <4> QED  BY <3>3, <4>1, <4>2, <1>w
    <3>7. Windowed(Burst, Rate, passed[k])'
      BY <3>3, <3>5, <1>3
    <3> QED  BY <3>6, <3>7, <1>2
  <2> QED  BY <2>5, <2>6, <2>2, <1>n
<1> QED  BY <1>4, <1>5

LEMMA NextInv == IInv /\ [Next]_vars => IInv'
<1> SUFFICES ASSUME IInv, [Next]_vars PROVE IInv'
  OBVIOUS
<1>1. ASSUME NEW k \in Connections, Limit(k) PROVE IInv'
  <2>1. CfgInv' /\ DOMAIN bucket' = Connections /\ DOMAIN passed' = Connections
         /\ DOMAIN conn' = Connections
    BY <1>1 DEF Limit, Pass, Refuse, Answer, IInv, CfgInv, Rate, Burst
  <2>2. Rate' = Rate /\ Burst' = Burst /\ clock' = clock
    BY <1>1 DEF Limit, Rate, Burst
  <2>3. ASSUME Rate # NaN, NEW q \in Connections PROVE (KeyInv(q) /\ Windowed(Burst, Rate, passed[q]))'
    <3>1. CASE q = k
      BY <3>1, <2>3, <1>1, LimitKey
    <3>2. CASE q # k
      <4>1. bucket'[q] = bucket[q] /\ passed'[q] = passed[q]
        BY <3>2, <2>3, <1>1, LimitKey
      <4> QED  BY <4>1, <2>2, <2>3 DEF IInv, KeyInv
    <3> QED  BY <3>1, <3>2
  <2> QED  BY <2>1, <2>2, <2>3 DEF IInv
<1>2. CASE /\ UNCHANGED <<cfg, bucket, passed>> /\ clock' \in {clock, clock + 1}
           /\ DOMAIN conn' = Connections
  <2>1. Rate' = Rate /\ Burst' = Burst
    BY <1>2 DEF Rate, Burst
  <2>2. CfgInv' /\ DOMAIN bucket' = Connections /\ DOMAIN passed' = Connections
    BY <1>2, <2>1 DEF IInv, CfgInv
  <2>3. ASSUME Rate # NaN, NEW q \in Connections PROVE (KeyInv(q) /\ Windowed(Burst, Rate, passed[q]))'
    <3>1. \A t, l \in Int : Weighed(clock, Burst, Rate, t, l, passed[q])
                              => Weighed(clock', Burst, Rate, t, l, passed[q])
      BY <1>2, <2>1 DEF IInv, CfgInv, Weighed
    <3> QED  BY <3>1, <1>2, <2>1, <2>3 DEF IInv, KeyInv
  <2> QED  BY <1>2, <2>1, <2>2, <2>3 DEF IInv
<1>3. CASE UNCHANGED vars
  BY <1>2, <1>3 DEF vars, IInv
<1>4. CASE Tick
  BY <1>2, <1>4 DEF Tick, IInv
<1>5. ASSUME NEW k \in Connections,
             (\E q \in Asked : Arrive(k, q)) \/ Handle(k) \/ CountRequest(k) \/ CountError(k)
      PROVE  IInv'
  BY <1>2, <1>5 DEF Arrive, Handle, Answer, CountRequest, CountError, IInv
<1> QED  BY <1>1, <1>3, <1>4, <1>5 DEF Next

LEMMA Always == Spec => []IInv
BY InitInv, NextInv, PTL DEF Spec

\* In every window a key gets through at most the burst and the refill of the
\* window, for every rate, burst and history of the connection.
THEOREM RateIsBounded == Spec => []RateBound
<1>1. IInv => RateBound
  BY DEF IInv, RateBound, Windowed, Rate, Burst
<1> QED  BY <1>1, Always, PTL

\* A request that comes a period of the rate after the one before it passes,
\* whatever was refused before.
THEOREM PatientIsServed == Spec => PatientServed
<1>1. ASSUME IInv, NEW k \in Connections, Limit(k), bucket[k] # New, Burst >= 1,
             Rate # NaN, (clock - bucket[k].lastTime) * Rate >= Second
      PROVE  conn'[k].pc = "handle"
  <2>1. PICK t, l \in Int :
          bucket[k] = [tokens |-> t, lastTime |-> l] /\ Weighed(clock, Burst, Rate, t, l, passed[k])
    BY <1>1 DEF IInv, KeyInv
  <2>2. Refill(bucket[k]) \in Int /\ Refill(bucket[k]) >= Second
    BY <2>1, <1>1, RefillFacts DEF IInv
  <2>3. ~Less(Refill(bucket[k]), Second)
    BY <2>2, HttpAssumption DEF Less
  <2>4. Pass(k)
    BY <2>3, <1>1 DEF Limit
  <2> QED  BY <2>4, <1>1 DEF Pass, IInv
<1>2. IInv => (\A k \in Connections :
        /\ Limit(k) /\ bucket[k] # New /\ cfg.RateLimitBurst >= 1
        /\ cfg.RateLimitRPS # NaN
        /\ (clock - bucket[k].lastTime) * cfg.RateLimitRPS >= Second
        => conn'[k].pc = "handle")
  BY <1>1 DEF Rate, Burst
<1> QED  BY <1>2, Always, PTL DEF PatientServed

-----------------------------------------------------------------------------
(* The books of Logger.                                                    *)

\* Connections whose answer Logger has yet to count, whose error it has yet to
\* count, and those of the latter whose request is counted already.
Counting == {k \in Connections : conn[k].pc = "count"}
Owing == {k \in Connections :
            conn[k].pc = "error" \/ (conn[k].pc = "count" /\ conn[k].failed)}
Erring == {k \in Connections : conn[k].pc = "error"}

\* The books, with what an error is behind its request.
LoggerBooks ==
  /\ DOMAIN conn = Connections
  /\ requests \in Int /\ errors \in Int
  /\ answered \in [ok : Int, error : Int, panic : Int, preflight : Int]
  /\ IsFiniteSet(Counting) /\ IsFiniteSet(Owing) /\ IsFiniteSet(Erring)
  /\ requests + Cardinality(Counting) = answered.ok + answered.error
  /\ errors + Cardinality(Owing) = answered.error
  /\ errors + Cardinality(Erring) <= requests

\* A connection that moves joins and leaves the sets by where it goes.
LEMMA ConnMoves ==
  ASSUME DOMAIN conn = Connections, NEW k \in Connections, NEW r,
         conn' = [conn EXCEPT ![k] = r]
  PROVE  /\ DOMAIN conn' = Connections
         /\ Counting' = IF r.pc = "count" THEN Counting \cup {k} ELSE Counting \ {k}
         /\ Owing' = IF r.pc = "error" \/ (r.pc = "count" /\ r.failed)
                     THEN Owing \cup {k} ELSE Owing \ {k}
         /\ Erring' = IF r.pc = "error" THEN Erring \cup {k} ELSE Erring \ {k}
<1>1. conn'[k] = r /\ \A q \in Connections : q # k => conn'[q] = conn[q]
  OBVIOUS
<1>2. Counting' = IF r.pc = "count" THEN Counting \cup {k} ELSE Counting \ {k}
  BY <1>1 DEF Counting
<1>3. Owing' = IF r.pc = "error" \/ (r.pc = "count" /\ r.failed)
               THEN Owing \cup {k} ELSE Owing \ {k}
  BY <1>1 DEF Owing
<1>4. Erring' = IF r.pc = "error" THEN Erring \cup {k} ELSE Erring \ {k}
  BY <1>1 DEF Erring
<1> QED
  BY <1>2, <1>3, <1>4

\* Where a connection is not it need not leave.
LEMMA BooksFacts ==
  ASSUME LoggerBooks
  PROVE  /\ Cardinality(Counting) \in Nat /\ Cardinality(Owing) \in Nat
         /\ Cardinality(Erring) \in Nat
  BY FS_CardinalityType DEF LoggerBooks

LEMMA AnswerBooks ==
  ASSUME LoggerBooks, NEW k \in Connections, NEW status \in Int, Answer(k, status),
         conn[k].pc \in {"limit", "handle"}, UNCHANGED <<requests, errors>>
  PROVE  LoggerBooks'
<1> PICK r : r = [pc |-> "count", failed |-> status >= 400]
  OBVIOUS
<1>1. conn' = [conn EXCEPT ![k] = r] /\ r.pc = "count" /\ (r.failed <=> status >= 400)
  BY DEF Answer
<1>2. k \notin Counting /\ k \notin Owing /\ k \notin Erring
  BY DEF Counting, Owing, Erring
<1>3. /\ DOMAIN conn' = Connections
      /\ Counting' = Counting \cup {k} /\ Erring' = Erring
      /\ Owing' = IF status >= 400 THEN Owing \cup {k} ELSE Owing
  <2>1. DOMAIN conn = Connections
    BY DEF LoggerBooks
  <2>2. /\ DOMAIN conn' = Connections
        /\ Counting' = IF r.pc = "count" THEN Counting \cup {k} ELSE Counting \ {k}
        /\ Owing' = IF r.pc = "error" \/ (r.pc = "count" /\ r.failed)
                    THEN Owing \cup {k} ELSE Owing \ {k}
        /\ Erring' = IF r.pc = "error" THEN Erring \cup {k} ELSE Erring \ {k}
    BY <2>1, <1>1, ConnMoves
  <2> QED
    BY <2>2, <1>1, <1>2
<1>finite. IsFiniteSet(Counting) /\ IsFiniteSet(Owing) /\ IsFiniteSet(Erring)
  BY DEF LoggerBooks
<1>4. IsFiniteSet(Counting') /\ Cardinality(Counting') = Cardinality(Counting) + 1
  BY <1>finite, <1>2, <1>3, FS_AddElement
<1>5. IsFiniteSet(Owing') /\ Cardinality(Owing') = Cardinality(Owing) + (IF status >= 400 THEN 1 ELSE 0)
  <2>1. CASE status >= 400
    <3>1. Owing' = Owing \cup {k}
      BY <2>1, <1>3
    <3>2. IsFiniteSet(Owing') /\ Cardinality(Owing') = Cardinality(Owing) + 1
      BY <3>1, <1>finite, <1>2, FS_AddElement
    <3> QED
      BY <2>1, <3>2
  <2>2. CASE ~(status >= 400)
    <3>1. Owing' = Owing
      BY <2>2, <1>3
    <3> QED
      BY <2>2, <3>1, <1>finite, BooksFacts
  <2> QED
    BY <2>1, <2>2
<1>6. /\ answered' \in [ok : Int, error : Int, panic : Int, preflight : Int]
      /\ answered'.ok = answered.ok + (IF status >= 400 THEN 0 ELSE 1)
      /\ answered'.error = answered.error + (IF status >= 400 THEN 1 ELSE 0)
  BY DEF Answer, LoggerBooks
<1> QED
  BY <1>3, <1>4, <1>5, <1>6, BooksFacts DEF LoggerBooks

\* A connection that moves outside Logger changes nothing in the books.
LEMMA OutsideLogger ==
  ASSUME LoggerBooks, NEW k \in Connections, NEW r, conn' = [conn EXCEPT ![k] = r],
         conn[k].pc \notin {"count", "error"}, r.pc \notin {"count", "error"},
         UNCHANGED <<requests, errors>>,
         answered' \in [ok : Int, error : Int, panic : Int, preflight : Int],
         answered'.ok = answered.ok, answered'.error = answered.error
  PROVE  LoggerBooks'
<1>1. k \notin Counting /\ k \notin Owing /\ k \notin Erring
  BY DEF Counting, Owing, Erring
<1>2. /\ DOMAIN conn' = Connections
      /\ Counting' = Counting /\ Owing' = Owing /\ Erring' = Erring
  <2>1. DOMAIN conn = Connections
    BY DEF LoggerBooks
  <2>2. /\ DOMAIN conn' = Connections
        /\ Counting' = IF r.pc = "count" THEN Counting \cup {k} ELSE Counting \ {k}
        /\ Owing' = IF r.pc = "error" \/ (r.pc = "count" /\ r.failed)
                    THEN Owing \cup {k} ELSE Owing \ {k}
        /\ Erring' = IF r.pc = "error" THEN Erring \cup {k} ELSE Erring \ {k}
    BY <2>1, ConnMoves
  <2> QED
    BY <2>2, <1>1
<1> QED
  BY <1>2 DEF LoggerBooks

LEMMA CountBooks ==
  ASSUME LoggerBooks, NEW k \in Connections, CountRequest(k) PROVE LoggerBooks'
<1> PICK r : r = IF conn[k].failed THEN [pc |-> "error"] ELSE Waiting
  OBVIOUS
<1>1. /\ conn[k].pc = "count" /\ requests' = requests + 1 /\ UNCHANGED <<errors, answered>>
      /\ conn' = [conn EXCEPT ![k] = r]
  BY DEF CountRequest
<1>2. k \in Counting /\ (k \in Owing <=> conn[k].failed) /\ k \notin Erring
  BY <1>1 DEF Counting, Owing, Erring
<1>3. r.pc = IF conn[k].failed THEN "error" ELSE "waiting"
  BY DEF Waiting
<1>4. /\ DOMAIN conn' = Connections
      /\ Counting' = Counting \ {k} /\ Owing' = Owing
      /\ Erring' = IF conn[k].failed THEN Erring \cup {k} ELSE Erring
  <2>1. DOMAIN conn = Connections
    BY DEF LoggerBooks
  <2>2. /\ DOMAIN conn' = Connections
        /\ Counting' = IF r.pc = "count" THEN Counting \cup {k} ELSE Counting \ {k}
        /\ Owing' = IF r.pc = "error" \/ (r.pc = "count" /\ r.failed)
                    THEN Owing \cup {k} ELSE Owing \ {k}
        /\ Erring' = IF r.pc = "error" THEN Erring \cup {k} ELSE Erring \ {k}
    BY <2>1, <1>1, ConnMoves
  <2> QED
    BY <2>2, <1>2, <1>3
<1>finite. IsFiniteSet(Counting) /\ IsFiniteSet(Owing) /\ IsFiniteSet(Erring)
  BY DEF LoggerBooks
<1>5. IsFiniteSet(Counting') /\ Cardinality(Counting') = Cardinality(Counting) - 1
  BY <1>finite, <1>2, <1>4, FS_RemoveElement
<1>6. IsFiniteSet(Erring') /\ Cardinality(Erring') <= Cardinality(Erring) + 1 /\ Cardinality(Erring') \in Nat
  <2>1. CASE conn[k].failed
    <3>1. Erring' = Erring \cup {k}
      BY <2>1, <1>4
    <3>2. IsFiniteSet(Erring') /\ Cardinality(Erring') = Cardinality(Erring) + 1
      BY <3>1, <1>finite, <1>2, FS_AddElement
    <3> QED
      BY <3>2, BooksFacts
  <2>2. CASE ~conn[k].failed
    <3>1. Erring' = Erring
      BY <2>2, <1>4
    <3> QED
      BY <3>1, <1>finite, BooksFacts
  <2> QED
    BY <2>1, <2>2
<1> QED
  BY <1>1, <1>4, <1>5, <1>6, BooksFacts DEF LoggerBooks

LEMMA ErrorBooks ==
  ASSUME LoggerBooks, NEW k \in Connections, CountError(k) PROVE LoggerBooks'
<1>1. /\ conn[k].pc = "error" /\ errors' = errors + 1 /\ UNCHANGED <<requests, answered>>
      /\ conn' = [conn EXCEPT ![k] = Waiting]
  BY DEF CountError
<1>2. k \notin Counting /\ k \in Owing /\ k \in Erring
  BY <1>1 DEF Counting, Owing, Erring
<1>3. Waiting.pc = "waiting"
  BY DEF Waiting
<1>4. /\ DOMAIN conn' = Connections
      /\ Counting' = Counting /\ Owing' = Owing \ {k} /\ Erring' = Erring \ {k}
  <2> PICK r : r = Waiting
    OBVIOUS
  <2>1. DOMAIN conn = Connections /\ conn' = [conn EXCEPT ![k] = r] /\ r.pc = "waiting"
    BY <1>1, <1>3 DEF LoggerBooks
  <2>2. /\ DOMAIN conn' = Connections
        /\ Counting' = IF r.pc = "count" THEN Counting \cup {k} ELSE Counting \ {k}
        /\ Owing' = IF r.pc = "error" \/ (r.pc = "count" /\ r.failed)
                    THEN Owing \cup {k} ELSE Owing \ {k}
        /\ Erring' = IF r.pc = "error" THEN Erring \cup {k} ELSE Erring \ {k}
    BY <2>1, ConnMoves
  <2> QED
    BY <2>1, <2>2, <1>2
<1>finite. IsFiniteSet(Counting) /\ IsFiniteSet(Owing) /\ IsFiniteSet(Erring)
  BY DEF LoggerBooks
<1>5. /\ IsFiniteSet(Owing') /\ Cardinality(Owing') = Cardinality(Owing) - 1
      /\ IsFiniteSet(Erring') /\ Cardinality(Erring') = Cardinality(Erring) - 1
  BY <1>finite, <1>2, <1>4, FS_RemoveElement
<1> QED
  BY <1>1, <1>4, <1>5, BooksFacts DEF LoggerBooks

\* A handler answers with a number, or panics.
LEMMA StatusesType == ASSUME NEW q PROVE Statuses(q) \subseteq Int
  BY DEF Statuses, EventStatuses, BrokerStatuses, Panic

LEMMA LoggerStep == LoggerBooks /\ [Next]_vars => LoggerBooks'
<1> SUFFICES ASSUME LoggerBooks, [Next]_vars PROVE LoggerBooks'
  OBVIOUS
<1>1. ASSUME NEW k \in Connections, NEW q \in Asked, Arrive(k, q) PROVE LoggerBooks'
  <2>1. CASE q.method = "OPTIONS"
    <3>1. /\ answered' = [answered EXCEPT !.preflight = @ + 1]
          /\ UNCHANGED <<conn, requests, errors>>
      BY <1>1, <2>1 DEF Arrive
    <3> QED
      BY <3>1 DEF LoggerBooks, Counting, Owing, Erring
  <2>2. CASE q.method # "OPTIONS"
    <3> PICK r : r = [pc |-> "limit", request |-> q]
      OBVIOUS
    <3>1. /\ conn[k].pc = "waiting" /\ conn' = [conn EXCEPT ![k] = r] /\ r.pc = "limit"
          /\ UNCHANGED <<answered, requests, errors>>
      BY <1>1, <2>2 DEF Arrive, Waiting
    <3> QED
      BY <3>1, OutsideLogger DEF LoggerBooks
  <2> QED
    BY <2>1, <2>2
<1>2. ASSUME NEW k \in Connections, Limit(k) PROVE LoggerBooks'
  <2>1. conn[k].pc = "limit" /\ UNCHANGED <<requests, errors>> /\ (Pass(k) \/ Refuse(k))
    BY <1>2 DEF Limit
  <2>2. CASE Refuse(k)
    BY <2>1, <2>2, AnswerBooks DEF Refuse
  <2>3. CASE Pass(k)
    <3> PICK r : r = [pc |-> "handle", request |-> conn[k].request]
      OBVIOUS
    <3>1. conn' = [conn EXCEPT ![k] = r] /\ r.pc = "handle" /\ answered' = answered
      BY <2>3 DEF Pass
    <3> QED
      BY <2>1, <3>1, OutsideLogger DEF LoggerBooks
  <2> QED
    BY <2>1, <2>2, <2>3
<1>3. ASSUME NEW k \in Connections, Handle(k) PROVE LoggerBooks'
  <2>1. PICK s \in Statuses(conn[k].request) :
          IF s = Panic
            THEN /\ answered' = [answered EXCEPT !.panic = @ + 1]
                 /\ conn' = [conn EXCEPT ![k] = Waiting]
            ELSE Answer(k, s)
    BY <1>3 DEF Handle
  <2>2. conn[k].pc = "handle" /\ UNCHANGED <<requests, errors>> /\ s \in Int
    BY <1>3, StatusesType DEF Handle
  <2>3. CASE s = Panic
    <3>1. Waiting.pc = "waiting"
      BY DEF Waiting
    <3>2. /\ answered' \in [ok : Int, error : Int, panic : Int, preflight : Int]
          /\ answered'.ok = answered.ok /\ answered'.error = answered.error
      BY <2>1, <2>3 DEF LoggerBooks
    <3> QED
      BY <2>1, <2>2, <2>3, <3>1, <3>2, OutsideLogger
  <2>4. CASE s # Panic
    BY <2>1, <2>2, <2>4, AnswerBooks
  <2> QED
    BY <2>3, <2>4
<1>4. CASE Tick \/ UNCHANGED vars
  BY <1>4 DEF Tick, vars, LoggerBooks, Counting, Owing, Erring
<1> QED
  BY <1>1, <1>2, <1>3, <1>4, CountBooks, ErrorBooks DEF Next

\* http.requests and http.errors are the answers given, up to the connections
\* about to count theirs, however many there are.
THEOREM LoggerBalances == Spec => []HttpBooks
<1>1. Init => LoggerBooks
  <2> SUFFICES ASSUME Init PROVE LoggerBooks
    OBVIOUS
  <2>1. Counting = {} /\ Owing = {} /\ Erring = {}
    BY DEF Init, Waiting, Counting, Owing, Erring
  <2> QED
    BY <2>1, FS_EmptySet DEF Init, LoggerBooks
<1>2. LoggerBooks => HttpBooks
  <2> SUFFICES ASSUME LoggerBooks PROVE HttpBooks
    OBVIOUS
  <2>1. errors <= requests
    BY BooksFacts DEF LoggerBooks
  <2> QED
    BY <2>1 DEF LoggerBooks, HttpBooks, Counting, Owing
<1> QED
  BY <1>1, <1>2, LoggerStep, PTL DEF Spec

=============================================================================
