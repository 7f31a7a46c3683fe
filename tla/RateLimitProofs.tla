---------------------------- MODULE RateLimitProofs ----------------------------
(***************************************************************************)
(* Theorems about RateLimit, for any hosts, windows and limits.            *)
(***************************************************************************)
EXTENDS RateLimit, FiniteSetTheorems, TLAPS

-----------------------------------------------------------------------------
(* Buckets.                                                                *)

\* What is recent of a bucket is part of it.
LEMMA RecentCount ==
    ASSUME NEW b \in Seq(Ages), NEW w
    PROVE  /\ IsFiniteSet(Recent(b, w))
           /\ Cardinality(Recent(b, w)) \in Nat
           /\ Cardinality(Recent(b, w)) <= Len(b)
  <1>1. DOMAIN b = 1..Len(b) /\ Len(b) \in Nat
    OBVIOUS
  <1>2. IsFiniteSet(1..Len(b)) /\ Cardinality(1..Len(b)) = Len(b)
    BY <1>1, FS_Interval
  <1>3. Recent(b, w) \in SUBSET (1..Len(b))
    BY <1>1 DEF Recent
  <1> QED
    BY <1>2, <1>3, FS_Subset, FS_CardinalityType

\* A longer window has at least as many of the entries.
LEMMA RecentGrows ==
    ASSUME Sound, NEW b \in Seq(Ages), NEW v \in Int, NEW w \in Int, v <= w
    PROVE  Cardinality(Recent(b, v)) <= Cardinality(Recent(b, w))
  <1>1. Recent(b, v) \in SUBSET Recent(b, w)
    <2> SUFFICES ASSUME NEW i \in DOMAIN b, b[i] <= v PROVE b[i] <= w
      BY DEF Recent
    <2>1. b[i] \in Int
      BY DEF Ages, Sound
    <2> QED
      BY <2>1
  <1> QED
    BY <1>1, RecentCount, FS_Subset

\* Every entry that counts as stale is older than the window: those that do
\* are a prefix of the bucket.
LEMMA StaleEntries ==
    ASSUME NEW b \in Seq(Ages), NEW w
    PROVE  /\ Stale(b, w) \in 0..Len(b)
           /\ \A i \in 1..Stale(b, w) : b[i] > w
  <1> DEFINE old == {i \in DOMAIN b : \A j \in 1..i : b[j] > w}
  <1>1. DOMAIN b = 1..Len(b) /\ Len(b) \in Nat
    OBVIOUS
  <1>2. IsFiniteSet(1..Len(b)) /\ Cardinality(1..Len(b)) = Len(b)
    BY <1>1, FS_Interval
  <1>3. old \in SUBSET (1..Len(b))
    BY <1>1
  <1>4. Stale(b, w) = Cardinality(old)
    BY DEF Stale
  <1>5. Cardinality(old) \in 0..Len(b)
    <2> HIDE DEF old
    <2>1. IsFiniteSet(old) /\ Cardinality(old) <= Len(b)
      BY <1>2, <1>3, FS_Subset
    <2>2. Cardinality(old) \in Nat
      BY <2>1, FS_CardinalityType
    <2> QED
      BY <1>1, <2>1, <2>2
  <1>6. ASSUME NEW i \in 1..Cardinality(old), ~(b[i] > w) PROVE FALSE
    <2>1. i \in Int /\ i - 1 \in Int /\ i >= 1
      BY <1>5, <1>6
    <2>2. ASSUME NEW k \in old PROVE k \in 1..(i - 1)
      <3>1. k \in 1..Len(b) /\ \A j \in 1..k : b[j] > w
        BY <1>3
      <3>2. ~(i \in 1..k)
        BY <1>6, <3>1
      <3> QED
        BY <1>1, <2>1, <3>1, <3>2
    <2> HIDE DEF old
    <2>3. IsFiniteSet(1..(i - 1)) /\ Cardinality(1..(i - 1)) = i - 1
      BY <2>1, FS_Interval
    <2>4. Cardinality(old) <= i - 1
      BY <2>2, <2>3, FS_Subset
    <2> QED
      BY <1>5, <1>6, <2>1, <2>4
  <1> QED
    BY <1>4, <1>5, <1>6

\* What the loop of dispatch leaves of a bucket.
LEMMA FreshEntries ==
    ASSUME NEW b \in Seq(Ages)
    PROVE  /\ Fresh(b) \in Seq(Ages)
           /\ Len(Fresh(b)) = Len(b) - Stale(b, Minute)
           /\ \A i \in 1..Len(Fresh(b)) : Fresh(b)[i] = b[i + Stale(b, Minute)]
  <1> DEFINE n == Stale(b, Minute)
  <1>1. n \in 0..Len(b) /\ Len(b) \in Nat
    BY StaleEntries
  <1>2. Fresh(b) = SubSeq(b, n + 1, Len(b))
    BY DEF Fresh
  <1> HIDE DEF n
  <1>3. /\ SubSeq(b, n + 1, Len(b)) \in Seq(Ages)
        /\ Len(SubSeq(b, n + 1, Len(b))) = Len(b) - n
        /\ \A i \in 1..(Len(b) - n) : SubSeq(b, n + 1, Len(b))[i] = b[i + n]
    BY <1>1
  <1> QED
    BY <1>2, <1>3 DEF n

\* It takes nothing away from any window.
LEMMA FreshKeepsRecent ==
    ASSUME Sound, NEW b \in Seq(Ages), NEW w \in 0..Minute
    PROVE  Cardinality(Recent(Fresh(b), w)) = Cardinality(Recent(b, w))
  <1> DEFINE n == Stale(b, Minute)
             S == Recent(Fresh(b), w)
             T == Recent(b, w)
             f == [i \in S |-> i + n]
  <1>1. n \in 0..Len(b) /\ \A i \in 1..n : b[i] > Minute
    BY StaleEntries
  <1>2. /\ Fresh(b) \in Seq(Ages) /\ Len(Fresh(b)) = Len(b) - n
        /\ \A i \in 1..Len(Fresh(b)) : Fresh(b)[i] = b[i + n]
    BY FreshEntries
  <1>3. /\ Len(b) \in Nat /\ DOMAIN b = 1..Len(b) /\ \A i \in 1..Len(b) : b[i] \in Int
        /\ DOMAIN Fresh(b) = 1..(Len(b) - n)
    BY <1>2 DEF Sound, Ages
  <1> HIDE DEF n
  <1>4. S = {i \in 1..(Len(b) - n) : b[i + n] <= w}
    BY <1>2, <1>3 DEF Recent
  <1>5. T = {i \in 1..Len(b) : b[i] <= w}
    BY <1>3 DEF Recent
  <1> HIDE DEF S, T
  <1>6. f \in [S -> T]
    BY <1>1, <1>3, <1>4, <1>5
  <1>7. \A i, j \in S : f[i] = f[j] => i = j
    BY <1>1, <1>3, <1>4
  <1>8. ASSUME NEW t \in T PROVE \E i \in S : f[i] = t
    <2>1. t \in 1..Len(b) /\ b[t] <= w /\ b[t] \in Int
      BY <1>3, <1>5, <1>8
    <2>2. ~(b[t] > Minute)
      BY <2>1 DEF Sound
    <2>3. ~(t \in 1..n)
      BY <1>1, <2>2
    <2>4. t - n \in 1..(Len(b) - n) /\ (t - n) + n = t
      BY <1>1, <1>3, <2>1, <2>3
    <2> QED
      BY <1>4, <2>1, <2>4
  <1>9. f \in Bijection(S, T)
    <2> HIDE DEF f
    <2> QED
      BY <1>6, <1>7, <1>8 DEF Bijection, Injection, Surjection, IsInjective
  <1>10. IsFiniteSet(S)
    BY <1>2, RecentCount DEF S
  <1>11. Cardinality(T) = Cardinality(S)
    BY <1>9, <1>10, FS_Bijection DEF ExistsBijection
  <1> QED
    BY <1>11 DEF S, T

\* A request that is let in counts in every window.
LEMMA AppendRecent ==
    ASSUME Sound, NEW b \in Seq(Ages), NEW w \in 0..Minute
    PROVE  /\ Append(b, 0) \in Seq(Ages)
           /\ Cardinality(Recent(Append(b, 0), w)) = Cardinality(Recent(b, w)) + 1
  <1>1. 0 \in Ages
    BY DEF Ages, Sound
  <1>2. /\ Append(b, 0) \in Seq(Ages) /\ Len(Append(b, 0)) = Len(b) + 1 /\ Len(b) \in Nat
        /\ \A i \in 1..Len(b) : Append(b, 0)[i] = b[i]
        /\ Append(b, 0)[Len(b) + 1] = 0
    BY <1>1
  <1>3. /\ DOMAIN Append(b, 0) = 1..(Len(b) + 1)
        /\ DOMAIN b = 1..Len(b)
    BY <1>2
  <1>4. Recent(Append(b, 0), w) = Recent(b, w) \union {Len(b) + 1}
    BY <1>2, <1>3 DEF Recent, Sound
  <1>5. Len(b) + 1 \notin Recent(b, w)
    BY <1>2, <1>3 DEF Recent
  <1> QED
    BY <1>2, <1>4, <1>5, RecentCount, FS_AddElement

\* A bucket when time has gone on.
LEMMA AgedRecent ==
    ASSUME Sound, NEW b \in Seq(Ages), NEW w \in 0..Minute
    PROVE  LET aged == [i \in DOMAIN b |-> IF b[i] > Minute THEN Minute + 1 ELSE b[i] + 1]
           IN  /\ aged \in Seq(Ages)
               /\ Recent(aged, w) = IF w = 0 THEN {} ELSE Recent(b, w - 1)
  <1> DEFINE aged == [i \in DOMAIN b |-> IF b[i] > Minute THEN Minute + 1 ELSE b[i] + 1]
  <1>1. /\ DOMAIN b = 1..Len(b) /\ Len(b) \in Nat
        /\ \A i \in 1..Len(b) : b[i] \in 0..(Minute + 1)
    <2>1. DOMAIN b = 1..Len(b) /\ Len(b) \in Nat /\ \A i \in 1..Len(b) : b[i] \in Ages
      OBVIOUS
    <2> QED
      BY <2>1 DEF Ages
  <1>2. \A i \in 1..Len(b) : aged[i] \in Ages
    BY <1>1 DEF Ages, Sound
  <1>3. aged \in [1..Len(b) -> Ages]
    BY <1>1, <1>2
  <1>4. aged \in Seq(Ages)
    BY <1>1, <1>3
  <1>5. ASSUME NEW i \in 1..Len(b)
        PROVE  aged[i] <= w <=> w # 0 /\ b[i] <= w - 1
    BY <1>1 DEF Sound
  <1>6. Recent(aged, w) = IF w = 0 THEN {} ELSE Recent(b, w - 1)
    <2>1. Recent(aged, w) = {i \in 1..Len(b) : aged[i] <= w}
      BY <1>1 DEF Recent
    <2> HIDE DEF aged
    <2> QED
      BY <1>1, <1>5, <2>1 DEF Recent
  <1> QED
    BY <1>4, <1>6

-----------------------------------------------------------------------------
(* The history.                                                            *)

\* The bucket has for every window as many entries as were let in: cleaning
\* it up forgets nothing that a window still needs, and a refusal adds nothing.
BucketsCount ==
    \A h \in Hosts, w \in 0..Minute : Cardinality(Recent(bucket[h], w)) = admitted[h][w]

LEMMA InitCounts == ASSUME Sound PROVE Init => TypeOK /\ BucketsCount
  <1> SUFFICES ASSUME Init PROVE TypeOK /\ BucketsCount
    OBVIOUS
  <1>1. TypeOK
    BY DEF Init, TypeOK
  <1>2. ASSUME NEW h \in Hosts, NEW w \in 0..Minute
        PROVE  Cardinality(Recent(bucket[h], w)) = admitted[h][w]
    <2>1. Recent(bucket[h], w) = {} /\ admitted[h][w] = 0
      BY DEF Init, Recent
    <2> QED
      BY <2>1, FS_EmptySet
  <1> QED
    BY <1>1, <1>2 DEF BucketsCount

\* What each step does to the bucket and the history of a host.
LEMMA StepOfHost ==
    ASSUME Sound, TypeOK, BucketsCount, [Next]_vars, NEW h \in Hosts, NEW w \in 0..Minute
    PROVE  /\ bucket'[h] \in Seq(Ages)
           /\ admitted'[h][w] \in Nat
           /\ Cardinality(Recent(bucket'[h], w)) = admitted'[h][w]
           /\ \/ admitted'[h][w] <= admitted[h][w]
              \/ HasRoom(h) /\ admitted'[h][w] = admitted[h][w] + 1
  <1>1. /\ bucket[h] \in Seq(Ages) /\ admitted[h] \in [0..Minute -> Nat]
        /\ Cardinality(Recent(bucket[h], w)) = admitted[h][w]
        /\ bucket \in [Hosts -> Seq(Ages)] /\ admitted \in [Hosts -> [0..Minute -> Nat]]
    BY DEF TypeOK, BucketsCount
  <1>2. /\ Fresh(bucket[h]) \in Seq(Ages)
        /\ Cardinality(Recent(Fresh(bucket[h]), w)) = admitted[h][w]
    BY <1>1, FreshEntries, FreshKeepsRecent
  <1>a. admitted[h][w] \in Nat
    BY <1>1
  <1>3. CASE Tick
    <2> DEFINE b == bucket[h]
               aged == [i \in DOMAIN b |-> IF b[i] > Minute THEN Minute + 1 ELSE b[i] + 1]
    <2>1. bucket'[h] = aged
      BY <1>3 DEF Tick
    <2>2. admitted'[h][w] = IF w = 0 THEN 0 ELSE admitted[h][w - 1]
      BY <1>3 DEF Tick
    <2>3. aged \in Seq(Ages) /\ Recent(aged, w) = IF w = 0 THEN {} ELSE Recent(b, w - 1)
      BY <1>1, AgedRecent
    <2> HIDE DEF aged
    <2>4. CASE w = 0
      BY <1>a, <2>1, <2>2, <2>3, <2>4, FS_EmptySet
    <2>5. CASE w # 0
      <3>1. w - 1 \in 0..Minute /\ w \in Int /\ w - 1 <= w
        BY <2>5 DEF Sound
      <3>2. Cardinality(Recent(b, w - 1)) = admitted[h][w - 1] /\ admitted[h][w - 1] \in Nat
        BY <1>1, <3>1 DEF BucketsCount
      <3>3. Cardinality(Recent(b, w - 1)) <= Cardinality(Recent(b, w))
        BY <1>1, <3>1, RecentGrows
      <3> QED
        BY <1>1, <2>1, <2>2, <2>3, <2>5, <3>2, <3>3
    <2> QED
      BY <2>4, <2>5
  <1>4. ASSUME NEW g \in Hosts, Admit(g)
        PROVE  /\ bucket'[h] \in Seq(Ages)
               /\ admitted'[h][w] \in Nat
               /\ Cardinality(Recent(bucket'[h], w)) = admitted'[h][w]
               /\ \/ admitted'[h][w] <= admitted[h][w]
                  \/ HasRoom(h) /\ admitted'[h][w] = admitted[h][w] + 1
    <2>1. CASE g = h
      <3>1. /\ bucket'[h] = Append(Fresh(bucket[h]), 0)
            /\ admitted'[h][w] = admitted[h][w] + 1
            /\ HasRoom(h)
        BY <1>1, <1>4, <2>1 DEF Admit
      <3>2. /\ Append(Fresh(bucket[h]), 0) \in Seq(Ages)
            /\ Cardinality(Recent(Append(Fresh(bucket[h]), 0), w)) = admitted[h][w] + 1
        BY <1>2, AppendRecent
      <3> QED
        BY <1>a, <3>1, <3>2
    <2>2. CASE g # h
      <3>1. bucket'[h] = bucket[h] /\ admitted'[h] = admitted[h]
        BY <1>1, <1>4, <2>2 DEF Admit
      <3> QED
        BY <1>1, <1>a, <3>1
    <2> QED
      BY <2>1, <2>2
  <1>5. ASSUME NEW g \in Hosts, Refuse(g)
        PROVE  /\ bucket'[h] \in {bucket[h], Fresh(bucket[h])}
               /\ admitted'[h] = admitted[h]
    BY <1>1, <1>5 DEF Refuse
  <1>6. CASE UNCHANGED vars
    BY <1>1, <1>a, <1>6 DEF vars
  <1>7. ASSUME NEW g \in Hosts, Refuse(g)
        PROVE  /\ bucket'[h] \in Seq(Ages)
               /\ admitted'[h][w] \in Nat
               /\ Cardinality(Recent(bucket'[h], w)) = admitted'[h][w]
               /\ admitted'[h][w] <= admitted[h][w]
    <2>1. admitted'[h] = admitted[h]
      BY <1>5, <1>7
    <2>2. bucket'[h] = bucket[h] \/ bucket'[h] = Fresh(bucket[h])
      BY <1>5, <1>7
    <2>3. /\ bucket'[h] \in Seq(Ages)
          /\ Cardinality(Recent(bucket'[h], w)) = admitted[h][w]
      BY <1>1, <1>2, <2>2
    <2> QED
      BY <1>a, <2>1, <2>3
  <1> QED
    BY <1>3, <1>4, <1>6, <1>7 DEF Next

LEMMA StepCounts ==
    ASSUME Sound PROVE TypeOK /\ BucketsCount /\ [Next]_vars => TypeOK' /\ BucketsCount'
  <1> SUFFICES ASSUME TypeOK, BucketsCount, [Next]_vars PROVE TypeOK' /\ BucketsCount'
    OBVIOUS
  <1>1. BucketsCount'
    BY StepOfHost DEF BucketsCount
  <1>2. 0 \in 0..Minute
    BY DEF Sound
  <1>3. \A h \in Hosts : bucket'[h] \in Seq(Ages)
    BY <1>2, StepOfHost
  <1>4. \A h \in Hosts, w \in 0..Minute : admitted'[h][w] \in Nat
    BY StepOfHost
  <1>5. /\ DOMAIN bucket' = Hosts /\ bucket' = [h \in Hosts |-> bucket'[h]]
        /\ DOMAIN admitted' = Hosts /\ admitted' = [h \in Hosts |-> admitted'[h]]
        /\ \A h \in Hosts : admitted'[h] = [w \in 0..Minute |-> admitted'[h][w]]
    BY DEF TypeOK, Next, Tick, Admit, Refuse, vars
  <1>6. \A h \in Hosts : admitted'[h] \in [0..Minute -> Nat]
    BY <1>4, <1>5
  <1> QED
    BY <1>1, <1>3, <1>5, <1>6 DEF TypeOK

\* Buckets and counts keep their types.
THEOREM TypeCorrect == ASSUME Sound PROVE SafeSpec => []TypeOK
  BY InitCounts, StepCounts, PTL DEF SafeSpec

\* A bucket has exactly what each window has to count.
THEOREM NothingIsForgotten == ASSUME Sound PROVE SafeSpec => []BucketsCount
  BY InitCounts, StepCounts, PTL DEF SafeSpec

\* A request that has room found fewer than the limit in either window.
LEMMA RoomIsWithinLimits ==
    ASSUME Sound, TypeOK, BucketsCount, NEW h \in Hosts, HasRoom(h)
    PROVE  admitted[h][Minute] < PerMinute /\ admitted[h][Burst] < PerBurst
  <1>1. bucket[h] \in Seq(Ages) /\ Minute \in 0..Minute /\ Burst \in 0..Minute
    BY DEF TypeOK, Sound
  <1>2. /\ Cardinality(Recent(Fresh(bucket[h]), Minute)) = admitted[h][Minute]
        /\ Cardinality(Recent(Fresh(bucket[h]), Burst)) = admitted[h][Burst]
    BY <1>1, FreshKeepsRecent DEF BucketsCount
  <1>3. Fresh(bucket[h]) \in Seq(Ages)
    BY <1>1, FreshEntries
  <1>4. /\ Cardinality(Recent(Fresh(bucket[h]), Minute)) <= Len(Fresh(bucket[h]))
        /\ Cardinality(Recent(Fresh(bucket[h]), Minute)) \in Nat /\ Len(Fresh(bucket[h])) \in Nat
    BY <1>3, RecentCount
  <1> QED
    BY <1>2, <1>4 DEF HasRoom, Sound

\* No host ever has more requests let in, in any minute or any ten seconds,
\* than the limits.
THEOREM LimitsHold == ASSUME Sound PROVE SafeSpec => []WithinLimits
  <1>1. Init => WithinLimits
    BY DEF Init, WithinLimits, Sound
  <1>2. TypeOK /\ BucketsCount /\ WithinLimits /\ [Next]_vars => WithinLimits'
    <2> SUFFICES ASSUME TypeOK, BucketsCount, WithinLimits, [Next]_vars, NEW h \in Hosts
                 PROVE  admitted'[h][Minute] <= PerMinute /\ admitted'[h][Burst] <= PerBurst
      BY DEF WithinLimits
    <2>1. Minute \in 0..Minute /\ Burst \in 0..Minute
      BY DEF Sound
    <2>2. /\ admitted[h][Minute] \in Nat /\ admitted[h][Minute] <= PerMinute
          /\ admitted[h][Burst] \in Nat /\ admitted[h][Burst] <= PerBurst
      BY <2>1 DEF TypeOK, WithinLimits
    <2>3. HasRoom(h) => admitted[h][Minute] < PerMinute /\ admitted[h][Burst] < PerBurst
      BY RoomIsWithinLimits
    <2>4. /\ admitted'[h][Minute] \in Nat
          /\ \/ admitted'[h][Minute] <= admitted[h][Minute]
             \/ HasRoom(h) /\ admitted'[h][Minute] = admitted[h][Minute] + 1
      BY <2>1, StepOfHost
    <2>5. /\ admitted'[h][Burst] \in Nat
          /\ \/ admitted'[h][Burst] <= admitted[h][Burst]
             \/ HasRoom(h) /\ admitted'[h][Burst] = admitted[h][Burst] + 1
      BY <2>1, StepOfHost
    <2> QED
      BY <2>2, <2>3, <2>4, <2>5 DEF Sound
  <1> QED
    BY InitCounts, StepCounts, <1>1, <1>2, PTL DEF SafeSpec
=============================================================================
