----------------------------- MODULE ViewsProofs -----------------------------
(***************************************************************************)
(* Proofs about BrokerViews: readers do not disturb the broker, and what   *)
(* Replay, GetStats and QueueDepth return is right in spite of the steps   *)
(* in between, for every number of readers, partitions and publishers.     *)
(***************************************************************************)
EXTENDS BrokerViews, BrokerProofs, SequenceTheorems, Counting

-----------------------------------------------------------------------------
(* The loop that collects messages.                                        *)

\* g has, for every n, what is collected from the first n messages of q.
Collects(q, T, g) ==
  g = [n \in 0 .. Len(q) |->
         IF n = 0 THEN <<>>
         ELSE IF q[n] \in T THEN Append(g[n - 1], q[n]) ELSE g[n - 1]]

LEMMA ThoseByDefinition ==
  ASSUME NEW q, NEW T
  PROVE  Those(q, T) = (CHOOSE g : Collects(q, T, g))[Len(q)]
  BY Zenon DEF Those, Collects

\* One step of the loop.
Collected(q, T, n, g) ==
  g[n] = IF n = 0 THEN <<>>
         ELSE IF q[n] \in T THEN Append(g[n - 1], q[n]) ELSE g[n - 1]

LEMMA CollectsToExist ==
  ASSUME NEW q, NEW T, Len(q) \in Nat
  PROVE  \A k \in Nat : \E g : DOMAIN g = 0 .. k /\ \A n \in 0 .. k : Collected(q, T, n, g)
<1> DEFINE Bad == {k \in Nat : \A g : ~(DOMAIN g = 0 .. k /\ \A n \in 0 .. k : Collected(q, T, n, g))}
<1> SUFFICES ASSUME Bad # {} PROVE FALSE
  OBVIOUS
<1>1. PICK k \in Bad : \A j \in Bad : k <= j
  BY LeastNat
<1>2. CASE k = 0
  <2> DEFINE z == [n \in 0 .. 0 |-> <<>>]
  <2>1. DOMAIN z = 0 .. 0 /\ \A n \in 0 .. 0 : Collected(q, T, n, z)
    BY DEF Collected
  <2> QED
    BY <1>2, <2>1
<1>3. CASE k # 0
  <2>1. k \in Nat /\ k - 1 \in Nat /\ k - 1 \notin Bad
    BY <1>1, <1>3
  <2>2. PICK g : DOMAIN g = 0 .. k - 1 /\ \A n \in 0 .. k - 1 : Collected(q, T, n, g)
    BY <2>1
  <2> DEFINE h == [n \in 0 .. k |-> IF n < k THEN g[n]
                                    ELSE IF q[k] \in T THEN Append(g[k - 1], q[k]) ELSE g[k - 1]]
  <2>3. \A n \in 0 .. k - 1 : n \in 0 .. k /\ h[n] = g[n]
    BY <2>1
  <2>4. ASSUME NEW n \in 0 .. k PROVE Collected(q, T, n, h)
    <3>1. CASE n = k
      <4>1. h[k - 1] = g[k - 1] /\ k # 0
        BY <1>3, <2>1, <2>3
      <4>2. h[k] = IF q[k] \in T THEN Append(g[k - 1], q[k]) ELSE g[k - 1]
        BY <2>1
      <4> QED
        BY <3>1, <4>1, <4>2 DEF Collected
    <3>2. CASE n # k
      <4>1. n \in 0 .. k - 1 /\ h[n] = g[n] /\ (n # 0 => h[n - 1] = g[n - 1])
        BY <3>2, <2>1, <2>3
      <4> HIDE DEF h
      <4> QED
        BY <4>1, <2>2 DEF Collected
    <3> QED
      BY <3>1, <3>2
  <2>5. DOMAIN h = 0 .. k
    OBVIOUS
  <2> HIDE DEF h
  <2> QED
    BY <1>1, <2>4, <2>5
<1> QED
  BY <1>2, <1>3

LEMMA CollectsStep ==
  ASSUME NEW q, NEW T, NEW g
  PROVE  Collects(q, T, g) =>
           DOMAIN g = 0 .. Len(q) /\ \A n \in 0 .. Len(q) : Collected(q, T, n, g)
  BY DEF Collects, Collected

\* The loop has a run.
LEMMA ThoseExists ==
  ASSUME NEW q, NEW T, Len(q) \in Nat
  PROVE  \E g : Collects(q, T, g) /\ Those(q, T) = g[Len(q)]
<1>1. PICK g : DOMAIN g = 0 .. Len(q) /\ \A n \in 0 .. Len(q) : Collected(q, T, n, g)
  BY CollectsToExist
<1> DEFINE h == [n \in 0 .. Len(q) |-> g[n]]
<1>2. Collects(q, T, h)
  <2>1. \A n \in 0 .. Len(q) : h[n] = IF n = 0 THEN <<>>
          ELSE IF q[n] \in T THEN Append(h[n - 1], q[n]) ELSE h[n - 1]
    <3> SUFFICES ASSUME NEW n \in 0 .. Len(q)
                 PROVE  h[n] = IF n = 0 THEN <<>>
                               ELSE IF q[n] \in T THEN Append(h[n - 1], q[n]) ELSE h[n - 1]
      OBVIOUS
    <3>1. h[n] = g[n] /\ (n # 0 => h[n - 1] = g[n - 1])
      OBVIOUS
    <3> HIDE DEF h
    <3> QED
      BY <3>1, <1>1 DEF Collected
  <2> QED
    BY <2>1 DEF Collects
<1> QED
  BY <1>2, ThoseByDefinition

\* And one run only.
LEMMA ThoseIs ==
  ASSUME NEW q, NEW T, Len(q) \in Nat,
         NEW g, \A n \in 0 .. Len(q) : Collected(q, T, n, g)
  PROVE  Those(q, T) = g[Len(q)]
<1>1. PICK h : Collects(q, T, h) /\ Those(q, T) = h[Len(q)]
  BY ThoseExists
<1> DEFINE Bad == {n \in Nat : n <= Len(q) /\ g[n] # h[n]}
<1>2. ASSUME Bad # {} PROVE FALSE
  <2>1. PICK n \in Bad : \A k \in Bad : n <= k
    BY <1>2, LeastNat
  <2>2. Collected(q, T, n, g) /\ Collected(q, T, n, h)
    BY <1>1, CollectsStep
  <2>3. n # 0 => g[n - 1] = h[n - 1]
    BY <2>1
  <2> QED
    BY <2>1, <2>2, <2>3 DEF Collected
<1> QED
  BY <1>1, <1>2

LEMMA ThoseOfNone == ASSUME NEW T PROVE Those(<<>>, T) = <<>>
<1> DEFINE z == [n \in 0 .. 0 |-> <<>>]
<1>1. Len(<<>>) = 0
  OBVIOUS
<1>2. \A n \in 0 .. Len(<<>>) : Collected(<<>>, T, n, z)
  BY <1>1 DEF Collected
<1> HIDE DEF z
<1>3. Those(<<>>, T) = z[Len(<<>>)]
  BY <1>1, <1>2, ThoseIs
<1> QED
  BY <1>1, <1>3 DEF z

\* What comes from a position on, collected.
LEMMA ThoseFrom ==
  ASSUME NEW S, NEW q \in Seq(S), NEW T, NEW first \in Nat \ {0},
         \A n \in 1 .. Len(q) : q[n] \in T <=> n >= first
  PROVE  Those(q, T) = SubSeq(q, first, Len(q))
<1> DEFINE g == [n \in 0 .. Len(q) |-> SubSeq(q, first, n)]
<1>1. Len(q) \in Nat
  OBVIOUS
<1>2. ASSUME NEW n \in 0 .. Len(q) PROVE Collected(q, T, n, g)
  <2>1. g[n] = SubSeq(q, first, n) /\ (n # 0 => g[n - 1] = SubSeq(q, first, n - 1))
    <3>1. n # 0 => n - 1 \in 0 .. Len(q)
      BY <1>1
    <3> QED
      BY <3>1, Zenon
  <2> HIDE DEF g
  <2>2. CASE n < first
    <3>1. SubSeq(q, first, n) = <<>> /\ SubSeq(q, first, n - 1) = <<>>
      BY <2>2, <1>1, SubSeqEmpty
    <3>2. n # 0 => q[n] \notin T
      BY <2>2, <1>1
    <3> QED
      BY <2>1, <3>1, <3>2 DEF Collected
  <2>3. CASE n >= first
    <3>1. q[n] \in T /\ n # 0 /\ n \in 1 .. Len(q)
      BY <2>3, <1>1
    <3>2. SubSeq(q, first, n) = Append(SubSeq(q, first, n - 1), q[n])
      BY <2>3, <3>1
    <3> QED
      BY <2>1, <3>1, <3>2 DEF Collected
  <2> QED
    BY <2>2, <2>3, <1>1
<1> HIDE DEF g
<1>3. Those(q, T) = g[Len(q)]
  BY <1>1, <1>2, ThoseIs
<1> QED
  BY <1>1, <1>3 DEF g

\* The places of two stretches, one behind the other.
LEMMA Places2 ==
  ASSUME NEW S, NEW a \in Seq(S), NEW b \in Seq(S)
  PROVE  /\ a \o b \in Seq(S) /\ Len(a \o b) = Len(a) + Len(b)
         /\ Len(a) \in Nat /\ Len(b) \in Nat
         /\ \A n \in 1 .. Len(a) : (a \o b)[n] = a[n]
         /\ \A k \in 1 .. Len(b) : (a \o b)[Len(a) + k] = b[k]
  OBVIOUS

\* Behind what has none of T, a stretch that is all of it.
LEMMA ThoseBehind ==
  ASSUME NEW S, NEW a \in Seq(S), NEW b \in Seq(S), NEW T,
         Those(a, T) = <<>>, \A i \in 1 .. Len(b) : b[i] \in T
  PROVE  Those(a \o b, T) = b
<1>q. PICK q, m, l : q = a \o b /\ m = Len(a) /\ l = Len(b)
  OBVIOUS
<1>1. /\ m \in Nat /\ l \in Nat /\ Len(q) = m + l
      /\ \A n \in 1 .. m : q[n] = a[n]
      /\ \A k \in 1 .. l : q[m + k] = b[k] /\ b[k] \in T
  BY <1>q, Places2
<1>2. PICK g : (\A n \in 0 .. m : Collected(a, T, n, g)) /\ g[m] = <<>>
  BY <1>q, <1>1, ThoseExists, CollectsStep
<1> DEFINE h == [n \in 0 .. m + l |-> IF n < m THEN g[n] ELSE SubSeq(b, 1, n - m)]
<1>3. \A k \in 1 .. l : SubSeq(b, 1, k) = Append(SubSeq(b, 1, k - 1), b[k])
  BY <1>q
<1>4. SubSeq(b, 1, 0) = <<>> /\ SubSeq(b, 1, l) = b
  BY <1>q, SubSeqEmpty, SubSeqFull
<1>5. \A n \in 0 .. m : h[n] = g[n]
  <2>1. ASSUME NEW n \in 0 .. m PROVE n \in 0 .. m + l /\ (n < m \/ (n = m /\ n - m = 0))
    BY <1>1
  <2> QED
    BY <2>1, <1>2, <1>4
<1>6. \A k \in 0 .. l : h[m + k] = SubSeq(b, 1, k)
  <2> SUFFICES ASSUME NEW k \in 0 .. l PROVE h[m + k] = SubSeq(b, 1, k)
    OBVIOUS
  <2> PICK n : n = m + k
    OBVIOUS
  <2>1. n \in 0 .. m + l /\ ~(n < m) /\ n - m = k
    BY <1>1
  <2>2. h[n] = SubSeq(b, 1, n - m)
    BY <2>1, Zenon
  <2> QED
    BY <2>1, <2>2
<1> HIDE DEF h
<1>7. ASSUME NEW n \in 0 .. m + l PROVE Collected(q, T, n, h)
  <2>1. CASE n \in 0 .. m
    <3>1. h[n] = g[n] /\ (n # 0 => h[n - 1] = g[n - 1] /\ q[n] = a[n])
      BY <2>1, <1>1, <1>5
    <3> QED
      BY <2>1, <3>1, <1>2 DEF Collected
  <2>2. CASE n \notin 0 .. m
    <3>1. PICK k \in 1 .. l : n = m + k
      <4>1. n - m \in 1 .. l /\ n = m + (n - m)
        BY <2>2, <1>1
      <4> QED
        BY <4>1
    <3>2. n # 0 /\ h[n] = SubSeq(b, 1, k) /\ h[n - 1] = SubSeq(b, 1, k - 1)
      <4>1. k \in 0 .. l /\ k - 1 \in 0 .. l /\ n - 1 = m + (k - 1) /\ n # 0
        BY <3>1, <1>1
      <4> QED
        BY <3>1, <4>1, <1>6
    <3> QED
      BY <3>1, <3>2, <1>1, <1>3 DEF Collected
  <2> QED
    BY <2>1, <2>2
<1>8. Those(q, T) = h[m + l]
  <2>1. Len(q) = m + l /\ Len(q) \in Nat
    BY <1>1
  <2>2. \A n \in 0 .. Len(q) : Collected(q, T, n, h)
    BY <1>7, <2>1
  <2> QED
    BY <2>1, <2>2, ThoseIs
<1>9. h[m + l] = b
  BY <1>1, <1>4, <1>6
<1> QED
  BY <1>q, <1>8, <1>9

\* Behind anything, a stretch that has none of it.
LEMMA ThoseBefore ==
  ASSUME NEW S, NEW a \in Seq(S), NEW b \in Seq(S), NEW T,
         \A i \in 1 .. Len(b) : b[i] \notin T
  PROVE  Those(a \o b, T) = Those(a, T)
<1>q. PICK q, m, l : q = a \o b /\ m = Len(a) /\ l = Len(b)
  OBVIOUS
<1>1. /\ m \in Nat /\ l \in Nat /\ Len(q) = m + l
      /\ \A n \in 1 .. m : q[n] = a[n]
      /\ \A k \in 1 .. l : q[m + k] = b[k] /\ b[k] \notin T
  BY <1>q, Places2
<1>2. PICK g : (\A n \in 0 .. m : Collected(a, T, n, g)) /\ g[m] = Those(a, T)
  BY <1>q, <1>1, ThoseExists, CollectsStep
<1> DEFINE h == [n \in 0 .. m + l |-> IF n < m THEN g[n] ELSE g[m]]
<1>3. \A n \in 0 .. m : h[n] = g[n]
  <2>1. ASSUME NEW n \in 0 .. m PROVE n \in 0 .. m + l /\ (n < m \/ n = m)
    BY <1>1
  <2> QED
    BY <2>1
<1>4. \A n \in m .. m + l : h[n] = g[m]
  <2>1. ASSUME NEW n \in m .. m + l PROVE n \in 0 .. m + l /\ ~(n < m)
    BY <1>1
  <2> QED
    BY <2>1
<1> HIDE DEF h
<1>5. ASSUME NEW n \in 0 .. m + l PROVE Collected(q, T, n, h)
  <2>1. CASE n \in 0 .. m
    <3>1. h[n] = g[n] /\ (n # 0 => h[n - 1] = g[n - 1] /\ q[n] = a[n])
      BY <2>1, <1>1, <1>3
    <3> QED
      BY <2>1, <3>1, <1>2 DEF Collected
  <2>2. CASE n \notin 0 .. m
    <3>1. n # 0 /\ n - m \in 1 .. l /\ n = m + (n - m) /\ n \in m .. m + l /\ n - 1 \in m .. m + l
      BY <2>2, <1>1
    <3>2. q[n] \notin T /\ h[n] = g[m] /\ h[n - 1] = g[m]
      BY <3>1, <1>1, <1>4
    <3> QED
      BY <3>1, <3>2 DEF Collected
  <2> QED
    BY <2>1, <2>2
<1>6. Those(q, T) = h[m + l]
  <2>1. Len(q) = m + l /\ Len(q) \in Nat
    BY <1>1
  <2>2. \A n \in 0 .. Len(q) : Collected(q, T, n, h)
    BY <1>5, <2>1
  <2> QED
    BY <2>1, <2>2, ThoseIs
<1> QED
  BY <1>q, <1>1, <1>2, <1>4, <1>6

-----------------------------------------------------------------------------
(* Readers do not disturb the broker.                                      *)

LEMMA ViewsStepsAreBrokerSteps == [ViewsNext]_allVars => [Next]_vars
<1> SUFFICES ASSUME [ViewsNext]_allVars PROVE [Next]_vars
  OBVIOUS
<1>1. CASE BrokerStep
  BY <1>1 DEF BrokerStep, Next
<1>2. ASSUME NEW r \in Readers,
             \/ \E f \in Froms : ReplayBegin(r, f)
             \/ StatsBegin(r) \/ DepthBegin(r)
             \/ ReplayPartition(r) \/ StatsDlq(r) \/ DepthPartition(r)
             \/ Return(r)
      PROVE  UNCHANGED vars
  BY <1>2 DEF ReplayBegin, StatsBegin, DepthBegin, Begin, ReplayPartition, StatsDlq,
              DepthPartition, Return
<1> QED
  BY <1>1, <1>2 DEF ViewsNext, allVars

\* With readers beside it the broker does what it does without: all that is
\* proved of Broker holds of what they see.
THEOREM ReadersDoNotDisturb == ViewsSpec => Spec
<1>1. ViewsInit => Init
  BY DEF ViewsInit
<1> QED
  BY <1>1, ViewsStepsAreBrokerSteps, PTL DEF ViewsSpec, Spec

\* Every message has the offset of its place.
OffsetsRight == \A p \in Partitions : \A i \in 1 .. Len(log[p]) : log[p][i].offset = i - 1

LEMMA OffsetsStep == TypeOK /\ OffsetsRight /\ [Next]_vars => OffsetsRight'
<1> SUFFICES ASSUME TypeOK, OffsetsRight, [Next]_vars PROVE OffsetsRight'
  OBVIOUS
<1>1. Partitions' = Partitions
  BY DEF Partitions
<1>2. ASSUME NEW u \in Publishers, PublishAppend(u) PROVE OffsetsRight'
  <2>p. PICK p, n, m : /\ p = draft[u].partition /\ n = Len(log[p])
                       /\ m = [draft[u] EXCEPT !.offset = n]
    OBVIOUS
  <2>d. draft[u] \in Message
    BY DEF TypeOK
  <2>e. p \in Partitions
    BY <2>p, <2>d DEF Message
  <2>f. log[p] \in Seq(Message)
    BY <2>e DEF TypeOK
  <2>1. p \in Partitions /\ log[p] \in Seq(Message) /\ n \in Nat
    BY <2>p, <2>e, <2>f
  <2>2. m \in Message /\ m.offset = n
    BY <2>p, <2>d, <2>1 DEF Message
  <2>3. log' = [log EXCEPT ![p] = Append(log[p], m)]
    BY <1>2, <2>p DEF PublishAppend, AppendTo
  <2>4. log'[p] = Append(log[p], m) /\ \A q \in Partitions : q # p => log'[q] = log[q]
    BY <2>1, <2>3 DEF TypeOK
  <2>5. /\ Len(log'[p]) = n + 1 /\ log'[p][n + 1] = m
        /\ \A i \in 1 .. n : log'[p][i] = log[p][i]
    BY <2>p, <2>1, <2>2, <2>4
  <2>6. ASSUME NEW i \in 1 .. Len(log'[p]) PROVE log'[p][i].offset = i - 1
    <3>1. CASE i = n + 1
      BY <3>1, <2>1, <2>2, <2>5
    <3>2. CASE i \in 1 .. n
      <4>1. log[p][i].offset = i - 1
        BY <3>2, <2>p, <2>1 DEF OffsetsRight
      <4> QED
        BY <3>2, <4>1, <2>5
    <3> QED
      BY <3>1, <3>2, <2>1, <2>5
  <2>7. ASSUME NEW q \in Partitions, q # p, NEW i \in 1 .. Len(log'[q])
        PROVE  log'[q][i].offset = i - 1
    BY <2>4, <2>7 DEF OffsetsRight
  <2> QED
    BY <1>1, <2>6, <2>7 DEF OffsetsRight
<1>3. ASSUME NEW u \in Publishers, PublishCount(u) \/ \E k \in Keys : PublishBegin(u, k)
      PROVE  log' = log
  BY <1>3 DEF PublishCount, PublishBegin, topicVars
<1>4. CASE log' = log
  BY <1>1, <1>4 DEF OffsetsRight
<1> QED
  BY <1>2, <1>3, <1>4, OthersPublishNothing

-----------------------------------------------------------------------------
(* What a reader has read so far.  v is its entry of view.                 *)

View == [pc : {"idle", "replay", "replayed", "stats", "counted", "depth", "measured"},
         from : Int, part : Nat, got : Seq(Message), total : Nat,
         start : [Partitions -> Nat], consumed : [Partitions -> Nat]]

\* The loop over the partitions.
Loop(v, reading, done) ==
  /\ v.pc = reading => v.part \in Partitions
  /\ v.pc = done => v.part = NumPartitions
  /\ \A p \in Partitions : v.start[p] <= Len(log[p])

First(v) == IF v.from < 0 THEN 1 ELSE v.from + 1

\* Replay has all of a partition that was in it when the call began, and
\* nothing of the partitions it has not yet come to.
Copied(v, p) ==
  IF p < v.part
    THEN \E n \in v.start[p] .. Len(log[p]) : Those(v.got, Of(p)) = SubSeq(log[p], First(v), n)
    ELSE Those(v.got, Of(p)) = <<>>

Replaying(v) ==
  v.pc \in {"replay", "replayed"} =>
    Loop(v, "replay", "replayed") /\ \A p \in Partitions : Copied(v, p)

\* QueueDepth has added up lengths that the logs had during the call.
UpTo(f, k) == SumFunctionOnSet(f, 0 .. k - 1)

Measuring(v) ==
  v.pc \in {"depth", "measured"} =>
    /\ Loop(v, "depth", "measured")
    /\ UpTo(v.start, v.part) <= v.total /\ v.total <= UpTo(Lengths, v.part)

\* GetStats has read the counter under the lock that it still holds.
Counted(v) == v.pc = "stats" => v.total = publishCount

ViewOK(v) == Replaying(v) /\ Measuring(v) /\ Counted(v)

ViewsInv ==
  /\ view \in [Readers -> View]
  /\ OffsetsRight
  /\ \A r \in Readers : ViewOK(view[r])

LEMMA LengthsType ==
  ASSUME TypeOK
  PROVE  Lengths \in [Partitions -> Nat] /\ \A p \in Partitions : Lengths[p] = Len(log[p])
  BY DEF Lengths, TypeOK

LEMMA ConsumedType ==
  ASSUME TypeOK
  PROVE  Consumed \in [Partitions -> Nat]
<1> SUFFICES ASSUME NEW p \in Partitions
             PROVE  Cardinality({o \in 0 .. Len(log[p]) - 1 :
                      groups # {} /\ \A g \in groups : o < offsets[<<g, p>>]}) \in Nat
  BY DEF Consumed
<1>1. Len(log[p]) \in Nat
  BY DEF TypeOK
<1>2. IsFiniteSet(0 .. Len(log[p]) - 1)
  BY <1>1, FS_Interval
<1> QED
  BY <1>2, FS_Subset, FS_CardinalityType

\* The sums over the partitions read so far.
LEMMA UpToNone == ASSUME NEW f PROVE UpTo(f, 0) = 0
<1>1. 0 .. 0 - 1 = {}
  OBVIOUS
<1> QED
  BY <1>1, SumEmpty DEF UpTo

LEMMA UpToNext ==
  ASSUME NEW f \in [Partitions -> Nat], NEW k \in Partitions
  PROVE  UpTo(f, k + 1) = UpTo(f, k) + f[k] /\ UpTo(f, k) \in Int /\ f[k] \in Nat
<1> DEFINE S == 0 .. k - 1
<1>1. NumPartitions \in Nat /\ k \in Nat /\ k \in 0 .. NumPartitions - 1
  BY BrokerAssumption DEF Partitions
<1>2. 0 .. (k + 1) - 1 = S \cup {k} /\ k \notin S /\ S \cup {k} \subseteq Partitions
  BY <1>1 DEF Partitions
<1>3. IsFiniteSet(S)
  BY <1>1, FS_Interval
<1>4. \A x \in S \cup {k} : f[x] \in Int
  BY <1>2
<1>5. SumFunctionOnSet(f, S \cup {k}) = SumFunctionOnSet(f, S) + f[k]
  BY <1>2, <1>3, <1>4, SumMore
<1>6. SumFunctionOnSet(f, S) \in Int
  BY <1>3, <1>4, SumType
<1>7. UpTo(f, k + 1) = SumFunctionOnSet(f, 0 .. (k + 1) - 1) /\ UpTo(f, k) = SumFunctionOnSet(f, S)
  BY DEF UpTo
<1>8. UpTo(f, k + 1) = SumFunctionOnSet(f, S \cup {k})
  BY <1>2, <1>7, Zenon
<1> QED
  BY <1>5, <1>6, <1>7, <1>8

LEMMA UpToMonotone ==
  ASSUME NEW f \in [Partitions -> Nat], NEW g \in [Partitions -> Nat],
         \A p \in Partitions : f[p] <= g[p], NEW k \in 0 .. NumPartitions
  PROVE  UpTo(f, k) <= UpTo(g, k) /\ UpTo(f, k) \in Int /\ UpTo(g, k) \in Int
<1> DEFINE S == 0 .. k - 1
<1>1. NumPartitions \in Nat /\ k \in Nat
  BY BrokerAssumption
<1>2. S \subseteq Partitions
  BY <1>1 DEF Partitions
<1>3. IsFiniteSet(S)
  BY <1>1, FS_Interval
<1>4. \A x \in S : f[x] \in Int /\ g[x] \in Int /\ f[x] <= g[x]
  BY <1>2
<1> QED
  BY <1>3, <1>4, SumMonotone, SumType DEF UpTo

\* The whole sum is that over all of the partitions.
LEMMA TotalIsUpTo ==
  ASSUME NEW f \in [Partitions -> Nat]
  PROVE  Total(f) = UpTo(f, NumPartitions)
<1>1. DOMAIN f = 0 .. NumPartitions - 1
  BY DEF Partitions
<1> QED
  BY <1>1, FoldIsSum DEF Total, UpTo

-----------------------------------------------------------------------------
(* What others do meanwhile.                                               *)

LEMMA SubSeqKept ==
  ASSUME NEW S, NEW a \in Seq(S), NEW b \in Seq(S), Len(a) <= Len(b),
         \A i \in 1 .. Len(a) : b[i] = a[i],
         NEW f \in Nat \ {0}, NEW n \in Nat, n <= Len(a)
  PROVE  SubSeq(b, f, n) = SubSeq(a, f, n)
  OBVIOUS

LEMMA FirstType == ASSUME NEW v \in View PROVE First(v) \in Nat \ {0}
  BY DEF First, View

\* The logs before and after a step of the broker.
LEMMA LogsGrow ==
  ASSUME TypeOK, TypeOK', [Next]_vars, NEW p \in Partitions
  PROVE  /\ log[p] \in Seq(Message) /\ log'[p] \in Seq(Message)
         /\ Len(log[p]) \in Nat /\ Len(log'[p]) \in Nat /\ Len(log[p]) <= Len(log'[p])
         /\ \A i \in 1 .. Len(log[p]) : log'[p][i] = log[p][i]
<1>1. Partitions' = Partitions
  BY DEF Partitions
<1>2. log[p] \in Seq(Message) /\ log'[p] \in Seq(Message)
  BY <1>1 DEF TypeOK
<1> QED
  BY <1>2, LogGrows, LogKept

LEMMA LoopKept ==
  ASSUME TypeOK, TypeOK', [Next]_vars, NEW v \in View, NEW a, NEW b, Loop(v, a, b)
  PROVE  Loop(v, a, b)'
<1>1. Partitions' = Partitions
  BY DEF Partitions
<1>2. ASSUME NEW p \in Partitions PROVE v.start[p] <= Len(log'[p])
  <2>1. v.start[p] \in Nat /\ v.start[p] <= Len(log[p])
    BY DEF Loop, View
  <2> QED
    BY <2>1, LogsGrow
<1> QED
  BY <1>1, <1>2 DEF Loop

LEMMA CopiedKept ==
  ASSUME TypeOK, TypeOK', [Next]_vars, NEW v \in View, NEW p \in Partitions, Copied(v, p)
  PROVE  Copied(v, p)'
<1>0. Of(p)' = Of(p) /\ First(v)' = First(v)
  BY DEF Of, Message, Partitions, First
<1>1. CASE p < v.part
  <2>1. PICK n \in v.start[p] .. Len(log[p]) : Those(v.got, Of(p)) = SubSeq(log[p], First(v), n)
    BY <1>1 DEF Copied
  <2>2. v.start[p] \in Nat
    BY DEF View
  <2>3. n \in Nat /\ n <= Len(log[p]) /\ n \in v.start[p] .. Len(log'[p])
    BY <2>1, <2>2, LogsGrow
  <2>4. First(v) \in Nat \ {0}
    BY FirstType
  <2>5. SubSeq(log'[p], First(v), n) = SubSeq(log[p], First(v), n)
    <3>1. /\ log[p] \in Seq(Message) /\ log'[p] \in Seq(Message) /\ Len(log[p]) <= Len(log'[p])
          /\ \A i \in 1 .. Len(log[p]) : log'[p][i] = log[p][i]
      BY LogsGrow
    <3> QED
      BY <2>3, <2>4, <3>1, SubSeqKept
  <2> QED
    BY <1>0, <1>1, <2>1, <2>3, <2>5 DEF Copied
<1>2. CASE ~(p < v.part)
  BY <1>0, <1>2 DEF Copied
<1> QED
  BY <1>1, <1>2

LEMMA MeasuringKept ==
  ASSUME TypeOK, TypeOK', [Next]_vars, NEW v \in View, Measuring(v)
  PROVE  Measuring(v)'
<1> SUFFICES ASSUME v.pc \in {"depth", "measured"}
             PROVE  /\ Loop(v, "depth", "measured")'
                    /\ UpTo(v.start, v.part) <= v.total /\ v.total <= UpTo(Lengths', v.part)
  BY DEF Measuring, UpTo
<1>1. /\ Loop(v, "depth", "measured")
      /\ UpTo(v.start, v.part) <= v.total /\ v.total <= UpTo(Lengths, v.part)
  BY DEF Measuring
<1>2. Loop(v, "depth", "measured")'
  BY <1>1, LoopKept
<1>3. /\ Lengths \in [Partitions -> Nat] /\ Lengths' \in [Partitions -> Nat]
      /\ \A p \in Partitions : Lengths[p] <= Lengths'[p]
  <2>1. Lengths' = [p \in Partitions |-> Len(log'[p])]
    BY DEF Lengths, Partitions
  <2> QED
    BY <2>1, LogsGrow DEF Lengths
<1>4. v.part \in 0 .. NumPartitions /\ v.total \in Nat
  BY <1>1, BrokerAssumption DEF Loop, Partitions, View
<1>5. /\ UpTo(Lengths, v.part) <= UpTo(Lengths', v.part)
      /\ UpTo(Lengths, v.part) \in Int /\ UpTo(Lengths', v.part) \in Int
  BY <1>3, <1>4, UpToMonotone
<1> QED
  BY <1>1, <1>2, <1>4, <1>5

\* A step of the broker leaves what a reader has read right.
LEMMA ViewKept ==
  ASSUME TypeOK, TypeOK', [Next]_vars, NEW v \in View, ViewOK(v),
         v.pc = "stats" => publishCount' = publishCount
  PROVE  ViewOK(v)'
<1>1. Partitions' = Partitions
  BY DEF Partitions
<1>2. Replaying(v)'
  BY <1>1, LoopKept, CopiedKept DEF ViewOK, Replaying
<1>3. Measuring(v)'
  BY MeasuringKept DEF ViewOK
<1> QED
  BY <1>2, <1>3 DEF ViewOK, Counted

\* While GetStats holds the lock no publish is counted.
LEMMA LockedOut ==
  ASSUME BrokerStep, NEW r \in Readers, view[r].pc = "stats"
  PROVE  publishCount' = publishCount
<1>1. ReadLocked
  BY DEF ReadLocked
<1>2. ASSUME NEW w \in Workers, Consume(w) PROVE publishCount' = publishCount
  BY <1>2 DEF Consume, Register, GetOffset, GetHit, GetMiss, Wake, Stop, HandlerOk,
              HandlerErr, DeadLetter, Commit, publisherVars
<1>3. ASSUME \/ \E u \in Publishers : PublishAppend(u)
             \/ \E s \in Subscriptions : Cancel(s)
      PROVE  publishCount' = publishCount
  BY <1>3 DEF PublishAppend, Cancel, publisherVars
<1> QED
  BY <1>1, <1>2, <1>3 DEF BrokerStep

-----------------------------------------------------------------------------
(* What a reader's own step does.                                          *)

LEMMA IdleType == Idle \in View /\ ViewOK(Idle)
<1>1. Idle \in View
  <2>1. <<>> \in Seq(Message)
    OBVIOUS
  <2> QED
    BY <2>1 DEF Idle, View
<1>2. Idle.pc = "idle"
  BY DEF Idle
<1> QED
  BY <1>1, <1>2 DEF ViewOK, Replaying, Measuring, Counted

LEMMA ViewsStart == ViewsInit => ViewsInv
<1> SUFFICES ASSUME ViewsInit PROVE ViewsInv
  OBVIOUS
<1>1. view \in [Readers -> View] /\ \A r \in Readers : ViewOK(view[r])
  BY IdleType DEF ViewsInit
<1>2. OffsetsRight
  BY DEF ViewsInit, Init, OffsetsRight
<1> QED
  BY <1>1, <1>2 DEF ViewsInv

\* The broker stands still, and one reader has a new entry.
LEMMA ReaderMoves ==
  ASSUME ViewsInv, TypeOK, TypeOK', UNCHANGED vars, NEW r \in Readers,
         NEW v \in View, ViewOK(v), view' = [view EXCEPT ![r] = v]
  PROVE  ViewsInv'
<1>1. [Next]_vars /\ publishCount' = publishCount
  BY DEF vars, publisherVars
<1>2. OffsetsRight'
  BY <1>1, OffsetsStep DEF ViewsInv
<1>3. view' \in [Readers -> View]
  BY DEF ViewsInv
<1>4. ASSUME NEW x \in Readers PROVE ViewOK(view[x])'
  <2>1. CASE x = r
    <3>1. ViewOK(v)'
      BY <1>1, ViewKept
    <3>2. view'[x] = v
      BY <2>1 DEF ViewsInv
    <3> QED
      BY <3>1, <3>2, Zenon DEF ViewOK, Replaying, Measuring, Counted, Loop, Copied, First
  <2>2. CASE x # r
    <3> PICK u : u = view[x]
      OBVIOUS
    <3>1. u \in View /\ ViewOK(u)
      BY DEF ViewsInv
    <3>2. ViewOK(u)'
      BY <1>1, <3>1, ViewKept
    <3>3. view'[x] = u
      BY <2>2 DEF ViewsInv
    <3> QED
      BY <3>2, <3>3, Zenon DEF ViewOK, Replaying, Measuring, Counted, Loop, Copied, First
  <2> QED
    BY <2>1, <2>2
<1> QED
  BY <1>2, <1>3, <1>4 DEF ViewsInv

\* A call begins: nothing is read yet.
LEMMA BeginStep ==
  ASSUME ViewsInv, TypeOK, TypeOK', NEW r \in Readers,
         \/ \E f \in Froms : ReplayBegin(r, f)
         \/ StatsBegin(r) \/ DepthBegin(r)
  PROVE  ViewsInv'
<1>1. /\ Lengths \in [Partitions -> Nat] /\ Consumed \in [Partitions -> Nat]
      /\ \A p \in Partitions : Lengths[p] = Len(log[p]) /\ Lengths[p] <= Len(log[p])
      /\ <<>> \in Seq(Message) /\ publishCount \in Nat
  <2>1. \A p \in Partitions : Len(log[p]) \in Nat
    BY DEF TypeOK
  <2>2. publishCount \in Nat /\ <<>> \in Seq(Message)
    BY DEF TypeOK
  <2> QED
    BY <2>1, <2>2, LengthsType, ConsumedType
<1>2. Idle \in View /\ 0 \in Partitions
  BY IdleType, BrokerAssumption DEF Partitions
<1>3. ASSUME NEW f \in Froms, ReplayBegin(r, f) PROVE ViewsInv'
  <2> PICK v : v = [Idle EXCEPT !.pc = "replay", !.from = f, !.start = Lengths]
    OBVIOUS
  <2>1. f \in Int
    BY ViewsAssumption
  <2>2. v \in View
    BY <1>1, <1>2, <2>1 DEF View
  <2>3. v.pc = "replay" /\ v.part = 0 /\ v.got = <<>> /\ v.start = Lengths
    BY DEF Idle
  <2>4. ASSUME NEW p \in Partitions PROVE Copied(v, p)
    <3>1. ~(p < v.part)
      BY <2>3, BrokerAssumption DEF Partitions
    <3> QED
      BY <2>3, <3>1, ThoseOfNone DEF Copied
  <2>5. Loop(v, "replay", "replayed")
    BY <1>1, <1>2, <2>3 DEF Loop
  <2>6. ViewOK(v)
    BY <2>3, <2>4, <2>5 DEF ViewOK, Replaying, Measuring, Counted
  <2> QED
    BY <1>3, <2>2, <2>6, ReaderMoves DEF ReplayBegin, Begin
<1>4. ASSUME StatsBegin(r) PROVE ViewsInv'
  <2> PICK v : v = [Idle EXCEPT !.pc = "stats", !.total = publishCount]
    OBVIOUS
  <2>2. v \in View
    BY <1>1, <1>2 DEF View
  <2>3. v.pc = "stats" /\ v.total = publishCount
    BY DEF Idle
  <2>4. ViewOK(v)
    BY <2>3 DEF ViewOK, Replaying, Measuring, Counted
  <2> QED
    BY <1>4, <2>2, <2>4, ReaderMoves DEF StatsBegin, Begin
<1>5. ASSUME DepthBegin(r) PROVE ViewsInv'
  <2> PICK v : v = [Idle EXCEPT !.pc = "depth", !.start = Lengths, !.consumed = Consumed]
    OBVIOUS
  <2>2. v \in View
    BY <1>1, <1>2 DEF View
  <2>3. v.pc = "depth" /\ v.part = 0 /\ v.total = 0 /\ v.start = Lengths
    BY DEF Idle
  <2>4. UpTo(v.start, v.part) = 0 /\ UpTo(Lengths, v.part) = 0
    BY <2>3, UpToNone
  <2>5. Loop(v, "depth", "measured")
    BY <1>1, <1>2, <2>3 DEF Loop
  <2>6. ViewOK(v)
    BY <2>3, <2>4, <2>5 DEF ViewOK, Replaying, Measuring, Counted
  <2> QED
    BY <1>5, <2>2, <2>6, ReaderMoves DEF DepthBegin, Begin
<1> QED
  BY <1>3, <1>4, <1>5

\* GetStats reads the dead-letter queue, or a call returns.
LEMMA EndStep ==
  ASSUME ViewsInv, TypeOK, TypeOK', NEW r \in Readers, StatsDlq(r) \/ Return(r)
  PROVE  ViewsInv'
<1>1. CASE StatsDlq(r)
  <2> PICK v : v = [view[r] EXCEPT !.got = dlq, !.pc = "counted"]
    OBVIOUS
  <2>1. dlq \in Seq(Message) /\ view[r] \in View
    BY DEF TypeOK, ViewsInv
  <2>2. v \in View /\ v.pc = "counted"
    BY <2>1 DEF View
  <2>3. ViewOK(v)
    BY <2>2 DEF ViewOK, Replaying, Measuring, Counted
  <2>4. UNCHANGED vars /\ view' = [view EXCEPT ![r] = v]
    BY <1>1 DEF StatsDlq
  <2> QED
    BY <2>2, <2>3, <2>4, ReaderMoves
<1>2. CASE Return(r)
  BY <1>2, IdleType, ReaderMoves DEF Return
<1> QED
  BY <1>1, <1>2

\* What Replay copies of one partition: all from fromOffset on.
LEMMA PieceOf ==
  ASSUME TypeOK, OffsetsRight, NEW p \in Partitions, NEW v \in View
  PROVE  Those(log[p], {m \in Message : m.offset >= v.from})
           = SubSeq(log[p], First(v), Len(log[p]))
<1>q. PICK q, f, T : q = log[p] /\ f = First(v) /\ T = {m \in Message : m.offset >= v.from}
  OBVIOUS
<1>1. q \in Seq(Message)
  BY <1>q DEF TypeOK
<1>2. f \in Nat \ {0}
  BY <1>q, FirstType
<1>3. ASSUME NEW n \in 1 .. Len(q) PROVE q[n] \in T <=> n >= f
  <2>1. q[n] \in Message /\ q[n].offset = n - 1
    BY <1>q, <1>1 DEF OffsetsRight
  <2>2. q[n] \in T <=> n - 1 >= v.from
    BY <1>q, <2>1
  <2>3. v.from \in Int /\ n \in Nat \ {0} /\ f = IF v.from < 0 THEN 1 ELSE v.from + 1
    BY <1>q, <1>1 DEF First, View
  <2> QED
    BY <2>2, <2>3
<1>4. Those(q, T) = SubSeq(q, f, Len(q))
  BY <1>1, <1>2, <1>3, ThoseFrom
<1> QED
  BY <1>q, <1>4

\* The messages of a stretch of a log.
LEMMA StretchOf ==
  ASSUME NEW p, NEW q \in Seq(Message), \A i \in 1 .. Len(q) : q[i].partition = p,
         NEW f \in Nat \ {0}
  PROVE  LET b == SubSeq(q, f, Len(q))
         IN  b \in Seq(Message) /\ \A i \in 1 .. Len(b) : b[i] \in Message /\ b[i].partition = p
<1>b. PICK b : b = SubSeq(q, f, Len(q))
  OBVIOUS
<1>1. q \in Seq(Message) /\ \A i \in 1 .. Len(q) : q[i].partition = p
  OBVIOUS
<1>2. b = SubSeq(q, f, Len(q))
  BY <1>b
<1>3. b \in Seq(Message)
  BY <1>1, <1>2
<1>4. \A i \in 1 .. Len(b) : \E j \in 1 .. Len(q) : b[i] = q[j]
  BY <1>1, <1>2
<1>5. \A j \in 1 .. Len(q) : q[j] \in Message /\ q[j].partition = p
  BY <1>1
<1>6. ASSUME NEW i \in 1 .. Len(b) PROVE b[i] \in Message /\ b[i].partition = p
  BY <1>4, <1>5
<1> QED
  BY <1>b, <1>3, <1>6

LEMMA ReplayPartitionStep ==
  ASSUME ViewsInv, TypeOK, TypeOK', IdsUnique, NEW r \in Readers, ReplayPartition(r)
  PROVE  ViewsInv'
<1>v. PICK v, p, b, new :
        /\ v = view[r] /\ p = v.part /\ b = SubSeq(log[p], First(v), Len(log[p]))
        /\ new = [v EXCEPT !.got = v.got \o b, !.part = p + 1,
                           !.pc = IF p + 1 = NumPartitions THEN "replayed" ELSE v.pc]
  OBVIOUS
<1>1. v \in View /\ Replaying(v) /\ v.pc = "replay" /\ OffsetsRight
  BY <1>v DEF ViewsInv, ViewOK, ReplayPartition
<1>2. Loop(v, "replay", "replayed") /\ \A q \in Partitions : Copied(v, q)
  BY <1>1 DEF Replaying
<1>3. p \in Partitions
  BY <1>v, <1>1, <1>2 DEF Loop
<1>4. NumPartitions \in Nat /\ p \in 0 .. NumPartitions - 1
  BY <1>3, BrokerAssumption DEF Partitions
<1>5. First(v) \in Nat \ {0} /\ v.got \in Seq(Message)
  BY <1>1, FirstType DEF View
<1>6. b \in Seq(Message) /\ \A i \in 1 .. Len(b) : b[i] \in Message /\ b[i].partition = p
  <2> PICK q, f : q = log[p] /\ f = First(v)
    OBVIOUS
  <2>1. q \in Seq(Message) /\ f \in Nat \ {0} /\ b = SubSeq(q, f, Len(q))
    BY <1>v, <1>3, <1>5 DEF TypeOK
  <2>2. \A i \in 1 .. Len(q) : q[i].partition = p
    BY <1>3 DEF IdsUnique
  <2> QED
    BY <2>1, <2>2, StretchOf
<1>7. /\ new \in View /\ new.part = p + 1 /\ new.got = v.got \o b
      /\ new.start = v.start /\ new.from = v.from
      /\ new.pc = IF p + 1 = NumPartitions THEN "replayed" ELSE "replay"
  <2> PICK got, pc : got = v.got \o b /\ pc = IF p + 1 = NumPartitions THEN "replayed" ELSE v.pc
    OBVIOUS
  <2>1. got \in Seq(Message)
    BY <1>5, <1>6, Places2
  <2>2. p + 1 \in Nat /\ pc \in {"replay", "replayed"}
    BY <1>1, <1>4
  <2>3. new = [v EXCEPT !.got = got, !.part = p + 1, !.pc = pc]
    BY <1>v
  <2>4. new \in View
    BY <1>1, <2>1, <2>2, <2>3 DEF View
  <2>5. new.got = got /\ new.part = p + 1 /\ new.pc = pc /\ new.start = v.start /\ new.from = v.from
    BY <1>1, <2>3 DEF View
  <2> QED
    BY <1>1, <2>4, <2>5
<1>8. Loop(new, "replay", "replayed")
  <2>1. new.pc = "replay" => new.part \in Partitions
    BY <1>4, <1>7 DEF Partitions
  <2>2. new.pc = "replayed" => new.part = NumPartitions
    BY <1>7
  <2> QED
    BY <1>2, <1>7, <2>1, <2>2 DEF Loop
<1>9. ASSUME NEW q \in Partitions PROVE Copied(new, q)
  <2>1. First(new) = First(v)
    BY <1>7 DEF First
  <2>2. CASE q = p
    <3>1. Those(v.got, Of(q)) = <<>>
      BY <1>v, <1>2, <1>4, <2>2 DEF Copied
    <3>2. \A i \in 1 .. Len(b) : b[i] \in Of(q)
      BY <1>6, <2>2 DEF Of
    <3>3. Those(new.got, Of(q)) = b
      BY <1>5, <1>6, <1>7, <3>1, <3>2, ThoseBehind
    <3>4. q < new.part
      BY <1>4, <1>7, <2>2
    <3>5. Len(log[q]) \in v.start[q] .. Len(log[q])
      <4>1. v.start[q] \in Nat /\ v.start[q] <= Len(log[q]) /\ Len(log[q]) \in Nat
        BY <1>1, <1>2 DEF View, Loop, TypeOK
      <4> QED
        BY <4>1
    <3>6. b = SubSeq(log[q], First(new), Len(log[q]))
      BY <1>v, <2>1, <2>2
    <3> QED
      BY <1>7, <3>3, <3>4, <3>5, <3>6 DEF Copied
  <2>3. CASE q # p
    <3>1. \A i \in 1 .. Len(b) : b[i] \notin Of(q)
      BY <1>6, <2>3 DEF Of
    <3>2. Those(new.got, Of(q)) = Those(v.got, Of(q))
      BY <1>5, <1>6, <1>7, <3>1, ThoseBefore
    <3>3. q < new.part <=> q < v.part
      BY <1>v, <1>4, <1>7, <2>3 DEF Partitions
    <3>4. Copied(v, q)
      BY <1>2
    <3> QED
      BY <1>7, <2>1, <3>2, <3>3, <3>4 DEF Copied
  <2> QED
    BY <2>2, <2>3
<1>10. ViewOK(new)
  BY <1>7, <1>8, <1>9 DEF ViewOK, Replaying, Measuring, Counted
<1>11. UNCHANGED vars /\ view' = [view EXCEPT ![r] = new]
  <2>1. b = Those(log[p], {m \in Message : m.offset >= v.from})
    BY <1>v, <1>1, <1>3, PieceOf
  <2> QED
    BY <1>v, <2>1 DEF ReplayPartition
<1> QED
  BY <1>7, <1>10, <1>11, ReaderMoves

LEMMA DepthPartitionStep ==
  ASSUME ViewsInv, TypeOK, TypeOK', NEW r \in Readers, DepthPartition(r)
  PROVE  ViewsInv'
<1>v. PICK v, p, n, new :
        /\ v = view[r] /\ p = v.part /\ n = Len(log[p])
        /\ new = [v EXCEPT !.total = v.total + n, !.part = p + 1,
                           !.pc = IF p + 1 = NumPartitions THEN "measured" ELSE v.pc]
  OBVIOUS
<1>1. v \in View /\ Measuring(v) /\ v.pc = "depth"
  BY <1>v DEF ViewsInv, ViewOK, DepthPartition
<1>2. /\ Loop(v, "depth", "measured")
      /\ UpTo(v.start, p) <= v.total /\ v.total <= UpTo(Lengths, p)
  BY <1>v, <1>1 DEF Measuring
<1>3. p \in Partitions
  BY <1>v, <1>1, <1>2 DEF Loop
<1>4. NumPartitions \in Nat /\ p \in 0 .. NumPartitions - 1
  BY <1>3, BrokerAssumption DEF Partitions
<1>5. n \in Nat /\ v.total \in Nat /\ v.start \in [Partitions -> Nat]
  <2>1. log[p] \in Seq(Message)
    BY <1>3 DEF TypeOK
  <2>2. v.total \in Nat /\ v.start \in [Partitions -> Nat]
    BY <1>1 DEF View
  <2> QED
    BY <1>v, <2>1, <2>2
<1>6. /\ new \in View /\ new.part = p + 1 /\ new.total = v.total + n /\ new.start = v.start
      /\ new.pc = IF p + 1 = NumPartitions THEN "measured" ELSE "depth"
  <2> PICK total, pc : total = v.total + n /\ pc = IF p + 1 = NumPartitions THEN "measured" ELSE v.pc
    OBVIOUS
  <2>1. total \in Nat /\ p + 1 \in Nat /\ pc \in {"depth", "measured"}
    BY <1>1, <1>4, <1>5
  <2>2. new = [v EXCEPT !.total = total, !.part = p + 1, !.pc = pc]
    BY <1>v
  <2>3. new \in View
    BY <1>1, <2>1, <2>2 DEF View
  <2>4. new.total = total /\ new.part = p + 1 /\ new.pc = pc /\ new.start = v.start
    BY <1>1, <2>2 DEF View
  <2> QED
    BY <1>1, <2>3, <2>4
<1>7. Loop(new, "depth", "measured")
  <2>1. new.pc = "depth" => new.part \in Partitions
    BY <1>4, <1>6 DEF Partitions
  <2>2. new.pc = "measured" => new.part = NumPartitions
    BY <1>6
  <2> QED
    BY <1>2, <1>6, <2>1, <2>2 DEF Loop
<1>8. /\ UpTo(v.start, p + 1) = UpTo(v.start, p) + v.start[p]
      /\ UpTo(v.start, p) \in Int /\ v.start[p] \in Nat
  BY <1>3, <1>5, UpToNext
<1>9. UpTo(Lengths, p + 1) = UpTo(Lengths, p) + n /\ UpTo(Lengths, p) \in Int
  <2>1. Lengths \in [Partitions -> Nat] /\ Lengths[p] = n
    BY <1>v, <1>3, LengthsType
  <2> QED
    BY <1>3, <2>1, UpToNext
<1>10. v.start[p] <= n
  BY <1>v, <1>2, <1>3 DEF Loop
<1>11. UpTo(v.start, p + 1) <= v.total + n /\ v.total + n <= UpTo(Lengths, p + 1)
  BY <1>2, <1>5, <1>8, <1>9, <1>10
<1>12. ViewOK(new)
  BY <1>6, <1>7, <1>11 DEF ViewOK, Replaying, Measuring, Counted
<1>13. UNCHANGED vars /\ view' = [view EXCEPT ![r] = new]
  BY <1>v DEF DepthPartition
<1> QED
  BY <1>6, <1>12, <1>13, ReaderMoves

-----------------------------------------------------------------------------
(* The theorems.                                                           *)

LEMMA BrokerBeside ==
  ASSUME ViewsInv, TypeOK, TypeOK', BrokerStep
  PROVE  ViewsInv'
<1>1. [Next]_vars /\ view' = view
  BY DEF BrokerStep, Next
<1>2. OffsetsRight'
  BY <1>1, OffsetsStep DEF ViewsInv
<1>3. ASSUME NEW r \in Readers PROVE ViewOK(view[r])'
  <2> PICK v : v = view[r]
    OBVIOUS
  <2>1. v \in View /\ ViewOK(v)
    BY DEF ViewsInv
  <2>2. ViewOK(v)'
    BY <1>1, <2>1, LockedOut, ViewKept
  <2>3. view'[r] = v
    BY <1>1
  <2> QED
    BY <2>2, <2>3, Zenon DEF ViewOK, Replaying, Measuring, Counted, Loop, Copied, First
<1>4. view' \in [Readers -> View]
  BY <1>1 DEF ViewsInv
<1> QED
  BY <1>2, <1>3, <1>4 DEF ViewsInv, View, Partitions, Message

LEMMA ViewsInvStep ==
  ViewsInv /\ IInv /\ IInv' /\ IdsUnique /\ [ViewsNext]_allVars => ViewsInv'
<1> SUFFICES ASSUME ViewsInv, IInv, IInv', IdsUnique, [ViewsNext]_allVars PROVE ViewsInv'
  OBVIOUS
<1>1. TypeOK /\ TypeOK'
  BY DEF IInv
<1>2. CASE BrokerStep
  BY <1>1, <1>2, BrokerBeside
<1>3. ASSUME NEW r \in Readers,
             \/ \E f \in Froms : ReplayBegin(r, f)
             \/ StatsBegin(r) \/ DepthBegin(r)
             \/ ReplayPartition(r) \/ StatsDlq(r) \/ DepthPartition(r)
             \/ Return(r)
      PROVE  ViewsInv'
  BY <1>1, <1>3, BeginStep, EndStep, ReplayPartitionStep, DepthPartitionStep
<1>4. CASE UNCHANGED allVars
  <2>1. UNCHANGED vars /\ view' = view
    BY <1>4 DEF allVars
  <2>2. CASE Readers = {}
    BY <1>1, <2>1, <2>2, OffsetsStep DEF ViewsInv
  <2>3. ASSUME NEW r \in Readers PROVE ViewsInv'
    <3>1. view[r] \in View /\ ViewOK(view[r]) /\ view' = [view EXCEPT ![r] = view[r]]
      BY <2>1 DEF ViewsInv
    <3> QED
      BY <1>1, <2>1, <3>1, ReaderMoves
  <2> QED
    BY <2>2, <2>3
<1> QED
  BY <1>2, <1>3, <1>4 DEF ViewsNext

LEMMA ViewsInvariance == ViewsSpec => []ViewsInv
<1>1. ViewsSpec => [](IInv /\ IdsUnique)
  BY ReadersDoNotDisturb, Invariance, IdsInvariance, PTL
<1> QED
  BY <1>1, ViewsStart, ViewsInvStep, PTL DEF ViewsSpec

\* Replay locks one partition after the other while others publish, and yet of
\* every partition it returns a run without gaps from fromOffset on that has at
\* least all that was in the log when it began.
THEOREM ReplayLeavesNoGaps == ViewsSpec => []ReplayWithoutGaps
<1>1. ViewsInv => ReplayWithoutGaps
  <2> SUFFICES ASSUME ViewsInv, NEW r \in Readers, view[r].pc = "replayed", NEW p \in Partitions
               PROVE  LET first == IF view[r].from < 0 THEN 1 ELSE view[r].from + 1
                      IN  \E n \in view[r].start[p] .. Len(log[p]) :
                            Those(view[r].got, Of(p)) = SubSeq(log[p], first, n)
    BY DEF ReplayWithoutGaps
  <2>1. Copied(view[r], p) /\ view[r].part = NumPartitions
    BY DEF ViewsInv, ViewOK, Replaying, Loop
  <2>2. p < view[r].part
    BY <2>1, BrokerAssumption DEF Partitions
  <2> QED
    BY <2>1, <2>2 DEF Copied, First
<1> QED
  BY <1>1, ViewsInvariance, PTL

\* GetStats reads the counter of a topic and its dead letters in two steps, and
\* no publish is counted in between.
THEOREM StatsFitTogether == ViewsSpec => []StatsOfOneMoment
<1>1. ViewsInv => StatsOfOneMoment
  BY DEF ViewsInv, ViewOK, Counted, StatsOfOneMoment
<1> QED
  BY <1>1, ViewsInvariance, PTL

\* QueueDepth adds lengths of different moments, but the sum is between what
\* the logs held at its begin and what they hold at its end.
THEOREM DepthIsBetween == ViewsSpec => []DepthWithinCall
<1>1. TypeOK /\ ViewsInv => DepthWithinCall
  <2> SUFFICES ASSUME TypeOK, ViewsInv, NEW r \in Readers, view[r].pc = "measured"
               PROVE  Total(view[r].start) <= view[r].total /\ view[r].total <= Total(Lengths)
    BY DEF DepthWithinCall
  <2>1. /\ view[r].part = NumPartitions /\ view[r].start \in [Partitions -> Nat]
        /\ UpTo(view[r].start, view[r].part) <= view[r].total
        /\ view[r].total <= UpTo(Lengths, view[r].part)
    BY DEF ViewsInv, ViewOK, Measuring, Loop, View
  <2>2. Total(view[r].start) = UpTo(view[r].start, NumPartitions)
    BY <2>1, TotalIsUpTo
  <2>3. Total(Lengths) = UpTo(Lengths, NumPartitions)
    BY LengthsType, TotalIsUpTo
  <2> QED
    BY <2>1, <2>2, <2>3
<1>2. IInv => TypeOK
  BY DEF IInv
<1> QED
  BY <1>1, <1>2, ViewsInvariance, ReadersDoNotDisturb, Invariance, PTL

=============================================================================
