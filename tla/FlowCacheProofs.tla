---------------------------- MODULE FlowCacheProofs ----------------------------
(***************************************************************************)
(* The flow cache stays in order, its timer covers the oldest flow and no  *)
(* flow disappears, for any keys, times, capacities and numbers of flows   *)
(* and sessions.                                                           *)
(***************************************************************************)
EXTENDS FlowCache, FiniteSetTheorems, FunctionTheorems, SequenceTheorems, TLAPS

\* A set of natural numbers with a bound has a largest element.  The strict subset
\* order on subsets of 0..n is well-founded; of the sets of elements that are not
\* smaller than i, for i in T, the least one belongs to the largest i.
LEMMA LargestElement ==
    ASSUME NEW n \in Nat, NEW T \in SUBSET (0..n), T # {}
    PROVE  \E m \in T : \A i \in T : i <= m
<1> DEFINE Above(i) == {j \in T : j >= i}
           Family == {Above(i) : i \in T}
<1>1. IsFiniteSet(0..n)
  BY FS_Interval
<1>2. IsWellFoundedOn(StrictSubsetOrdering(0..n), SUBSET (0..n))
  BY <1>1, FS_StrictSubsetOrderingWellFounded, FS_FiniteSubsetsOfFinite
<1>3. Family \subseteq SUBSET (0..n) /\ Family # {}
  OBVIOUS
<1>4. PICK least \in Family :
          \A S \in Family : ~(<<S, least>> \in StrictSubsetOrdering(0..n))
  <2> HIDE DEF Family
  <2> QED BY <1>2, <1>3, WFMin
<1>5. PICK m \in T : least = Above(m)
  OBVIOUS
<1>6. ASSUME NEW i \in T, i > m PROVE FALSE
  <2>0. i \in Int /\ m \in Int /\ T \subseteq Int
    OBVIOUS
  <2>a. \A j \in T : j >= i => j >= m
    BY <1>6, <2>0
  <2>b. m >= m /\ ~(m >= i)
    BY <1>6, <2>0
  <2>1. Above(i) \subseteq Above(m) /\ m \in Above(m) /\ m \notin Above(i)
    BY <2>a, <2>b, Zenon
  <2>2. <<Above(i), Above(m)>> \in StrictSubsetOrdering(0..n)
    BY <2>1, <1>3 DEF StrictSubsetOrdering
  <2> QED
    BY <2>2, <1>4, <1>5
<1> QED
  BY <1>6

\* There is a place for every start time, and PlaceFor returns it.
LEMMA PlaceForFlow ==
    ASSUME NEW q \in Seq(Flows), NEW t \in Nat
    PROVE  /\ PlaceFor(t, q) \in 0..Len(q)
           /\ PlaceFor(t, q) = 0 \/ q[PlaceFor(t, q)].StartTimestamp <= t
           /\ \A j \in (PlaceFor(t, q) + 1)..Len(q) : q[j].StartTimestamp > t
<1> DEFINE NotYounger == {i \in 0..Len(q) : i = 0 \/ q[i].StartTimestamp <= t}
<1>1. NotYounger \in SUBSET (0..Len(q)) /\ 0 \in NotYounger /\ Len(q) \in Nat
  OBVIOUS
<1>2. PICK m \in NotYounger : \A i \in NotYounger : i <= m
  <2> HIDE DEF NotYounger
  <2> QED BY <1>1, LargestElement
<1>3. \A j \in (m + 1)..Len(q) : q[j].StartTimestamp > t
  <2>1. SUFFICES ASSUME NEW j \in (m + 1)..Len(q) PROVE q[j].StartTimestamp > t
    OBVIOUS
  <2>2. j \notin NotYounger /\ j \in 1..Len(q)
    BY <1>2
  <2>3. q[j] \in Flows
    BY <2>2, ElementOfSeq
  <2>4. q[j].StartTimestamp \in Nat
    BY <2>3, FlowAssumption DEF Flows
  <2> QED
    BY <2>2, <2>4
<1> QED
  BY <1>2, <1>3 DEF PlaceFor

\* Two lists of flows, one behind the other.
LEMMA ConcatFlows ==
    ASSUME NEW s \in Seq(Flows), NEW t \in Seq(Flows)
    PROVE  /\ s \o t \in Seq(Flows) /\ Len(s \o t) = Len(s) + Len(t)
           /\ \A j \in 1..(Len(s) + Len(t)) :
                 (s \o t)[j] = IF j <= Len(s) THEN s[j] ELSE t[j - Len(s)]
BY ConcatProperties

\* What the sequence looks like after an insertion.
LEMMA InsertAfterIsSeq ==
    ASSUME NEW q \in Seq(Flows), NEW i \in 0..Len(q), NEW f \in Flows
    PROVE  /\ InsertAfter(q, i, f) \in Seq(Flows)
           /\ Len(InsertAfter(q, i, f)) = Len(q) + 1
           /\ \A j \in 1..(Len(q) + 1) :
                 InsertAfter(q, i, f)[j] =
                     IF j <= i THEN q[j] ELSE IF j = i + 1 THEN f ELSE q[j - 1]
<1> DEFINE a == SubSeq(q, 1, i)
           b == SubSeq(q, i + 1, Len(q))
           r == (a \o <<f>>) \o b
<1>1. a \in Seq(Flows) /\ Len(a) = i /\ \A j \in 1..i : a[j] = q[j]
  BY SubSeqProperties
<1>2. b \in Seq(Flows) /\ Len(b) = Len(q) - i
      /\ \A j \in 1..(Len(q) - i) : b[j] = q[i + j]
  BY SubSeqProperties
<1>3. a \o <<f>> \in Seq(Flows) /\ Len(a \o <<f>>) = i + 1
      /\ \A j \in 1..(i + 1) : (a \o <<f>>)[j] = IF j <= i THEN q[j] ELSE f
  <2> HIDE DEF a
  <2>1. <<f>> \in Seq(Flows) /\ Len(<<f>>) = 1 /\ <<f>>[1] = f
    OBVIOUS
  <2> QED BY <1>1, <2>1, ConcatFlows
<1>4. r \in Seq(Flows) /\ Len(r) = Len(q) + 1
      /\ \A j \in 1..(Len(q) + 1) :
            r[j] = IF j <= i + 1 THEN (a \o <<f>>)[j] ELSE b[j - (i + 1)]
  <2> HIDE DEF a, b
  <2> SUFFICES ASSUME NEW c, c = a \o <<f>>
               PROVE  LET s == c \o b
                      IN  /\ s \in Seq(Flows) /\ Len(s) = Len(q) + 1
                          /\ \A j \in 1..(Len(q) + 1) :
                                s[j] = IF j <= i + 1 THEN c[j] ELSE b[j - (i + 1)]
    OBVIOUS
  <2>1. c \in Seq(Flows) /\ Len(c) = i + 1
    BY <1>3
  <2>2. /\ c \o b \in Seq(Flows) /\ Len(c \o b) = Len(c) + Len(b)
        /\ \A j \in 1..(Len(c) + Len(b)) :
              (c \o b)[j] = IF j <= Len(c) THEN c[j] ELSE b[j - Len(c)]
    BY <1>2, <2>1, ConcatFlows
  <2>3. Len(c) + Len(b) = Len(q) + 1
    BY <1>2, <2>1
  <2> QED BY <2>1, <2>2, <2>3
<1>5. ASSUME NEW j \in 1..(Len(q) + 1)
      PROVE  r[j] = IF j <= i THEN q[j] ELSE IF j = i + 1 THEN f ELSE q[j - 1]
  <2> HIDE DEF a, b, r
  <2>1. CASE j <= i + 1
    BY <1>3, <1>4, <2>1
  <2>2. CASE j > i + 1
    <3>1. j - (i + 1) \in 1..(Len(q) - i) /\ i + (j - (i + 1)) = j - 1
      BY <2>2
    <3>2. b[j - (i + 1)] = q[j - 1]
      BY <1>2, <3>1
    <3> QED BY <1>4, <2>2, <3>2
  <2> QED BY <2>1, <2>2
<1>6. InsertAfter(q, i, f) = r
  BY DEF InsertAfter
<1> QED
  <2> HIDE DEF r
  <2> QED BY <1>4, <1>5, <1>6

--------------------------------------------------------------------------------
\* Facts about the values that Run holds.
LEMMA ExpiryType == \A t \in 0..MaxTime : Expiry(t) \in 0..MaxTime
BY FlowAssumption DEF Expiry

\* A place for at most one flow is a sequence of length zero or one.
LEMMA MaybeType ==
    ASSUME NEW S, NEW x \in Maybe(S)
    PROVE  /\ x = <<>> => Len(x) = 0
           /\ x # <<>> => x \in Seq(S) /\ Len(x) = 1 /\ x[1] \in S
<1>1. CASE x = <<>>
  BY <1>1
<1>2. ASSUME NEW y \in S, x = <<y>>
      PROVE  x # <<>> /\ x \in Seq(S) /\ Len(x) = 1 /\ x[1] \in S
  BY <1>2
<1> QED
  BY <1>1, <1>2 DEF Maybe

\* It may be empty, or hold any one flow.
LEMMA MaybeOne == \A S : <<>> \in Maybe(S) /\ \A x \in S : <<x>> \in Maybe(S)
BY DEF Maybe

\* An interval from one has as many elements as it says.
LEMMA IntervalSize ==
    ASSUME NEW n \in Nat
    PROVE  IsFiniteSet(1..n) /\ Cardinality(1..n) = n
<1>1. IsFiniteSet(1..n) /\ Cardinality(1..n) = IF 1 > n THEN 0 ELSE n - 1 + 1
  BY FS_Interval
<1> QED
  BY <1>1

\* The map is as large as the list is long.
LEMMA CacheSize ==
    ASSUME FlowTypeOK, QueueMatchesCache
    PROVE  Cardinality(cache) = Len(queue)
<1> DEFINE key == [i \in 1..Len(queue) |-> queue[i].Key]
<1>1. key \in [1..Len(queue) -> cache]
      /\ (\A i, j \in 1..Len(queue) : key[i] = key[j] => i = j)
      /\ (\A k \in cache : \E i \in 1..Len(queue) : key[i] = k)
  BY DEF QueueMatchesCache
<1>2. key \in Bijection(1..Len(queue), cache)
  <2> HIDE DEF key
  <2> QED BY <1>1, Fun_IsBij
<1>3. ExistsBijection(1..Len(queue), cache)
  BY <1>2 DEF ExistsBijection
<1>4. Len(queue) \in Nat
  BY DEF FlowTypeOK
<1>5. IsFiniteSet(1..Len(queue)) /\ Cardinality(1..Len(queue)) = Len(queue)
  BY <1>4, IntervalSize
<1>6. IsFiniteSet(cache) /\ Cardinality(cache) = Cardinality(1..Len(queue))
  BY <1>3, <1>5, FS_Bijection
<1> QED
  BY <1>5, <1>6

\* Removing the front keeps the list and the map in step.
LEMMA RemoveFrontInOrder ==
    ASSUME FlowIInv, queue # <<>>, RemoveFront
    PROVE  /\ queue' \in Seq(Flows) /\ Len(queue') = Len(queue) - 1
           /\ cache' \subseteq FlowKeys
           /\ evicted' \in Maybe(Flows) /\ evicted' # <<>>
           /\ QueueMatchesCache' /\ QueueSorted' /\ CapacityHolds'
<1>1. /\ Head(queue) \in Flows /\ queue' \in Seq(Flows)
      /\ Len(queue) \in Nat \ {0} /\ Len(queue') = Len(queue) - 1
      /\ Head(queue) = queue[1]
      /\ \A i \in 1..Len(queue') : queue'[i] = queue[i + 1]
  BY HeadTailProperties DEF FlowIInv, CacheInOrder, FlowTypeOK, RemoveFront
<1>2. QueueMatchesCache /\ QueueSorted /\ CapacityHolds
  BY DEF FlowIInv, CacheInOrder
<1>3. QueueMatchesCache'
  <2>1. ASSUME NEW k \in cache'
        PROVE  \E i \in 1..Len(queue') : queue'[i].Key = k
    <3>1. k \in cache /\ k # queue[1].Key
      BY <1>1, <2>1 DEF RemoveFront
    <3>2. PICK i \in 1..Len(queue) : queue[i].Key = k
      BY <1>2, <3>1 DEF QueueMatchesCache
    <3>3. i - 1 \in 1..Len(queue') /\ queue'[i - 1] = queue[i]
      BY <1>1, <3>1, <3>2
    <3> QED BY <3>2, <3>3
  <2>2. ASSUME NEW i \in 1..Len(queue')
        PROVE  queue'[i].Key \in cache'
    <3>1. i + 1 \in 1..Len(queue) /\ 1 \in 1..Len(queue) /\ i + 1 # 1
          /\ queue'[i] = queue[i + 1]
      BY <1>1
    <3>2. queue[i + 1].Key # queue[1].Key
      BY <1>2, <3>1 DEF QueueMatchesCache
    <3>3. queue[i + 1].Key \in cache
      BY <1>2, <3>1 DEF QueueMatchesCache
    <3> QED BY <1>1, <3>1, <3>2, <3>3 DEF RemoveFront
  <2>3. ASSUME NEW i \in 1..Len(queue'), NEW j \in 1..Len(queue'),
               queue'[i].Key = queue'[j].Key
        PROVE  i = j
    <3>1. i + 1 \in 1..Len(queue) /\ j + 1 \in 1..Len(queue)
          /\ queue[i + 1].Key = queue[j + 1].Key
      BY <1>1, <2>3
    <3>2. i + 1 = j + 1
      BY <1>2, <3>1 DEF QueueMatchesCache
    <3> QED BY <3>2
  <2> QED BY <2>1, <2>2, <2>3 DEF QueueMatchesCache
<1>4. QueueSorted'
  <2> SUFFICES ASSUME NEW i \in 1..Len(queue'), NEW j \in 1..Len(queue'), i < j
               PROVE  queue'[i].StartTimestamp <= queue'[j].StartTimestamp
    BY DEF QueueSorted
  <2>1. i + 1 \in 1..Len(queue) /\ j + 1 \in 1..Len(queue) /\ i + 1 < j + 1
    BY <1>1
  <2> QED BY <1>1, <1>2, <2>1 DEF QueueSorted
<1>5. CapacityHolds'
  BY <1>1, <1>2, FlowAssumption DEF CapacityHolds
<1>6. cache' \subseteq FlowKeys /\ evicted' \in Maybe(Flows) /\ evicted' # <<>>
  BY <1>1, MaybeOne DEF RemoveFront, FlowIInv, CacheInOrder, FlowTypeOK
<1> QED
  BY <1>1, <1>3, <1>4, <1>5, <1>6

\* Inserting a flow whose key is new, at its place, keeps the list sorted and in
\* step with the map.
LEMMA AddInOrder ==
    ASSUME FlowIInv, NEW f \in Flows, f.Key \notin cache, Len(queue) < maxFlows,
           addFlowToCache(f, queue, cache)
    PROVE  /\ queue' \in Seq(Flows) /\ Len(queue') = Len(queue) + 1
           /\ cache' \subseteq FlowKeys
           /\ QueueMatchesCache' /\ QueueSorted' /\ CapacityHolds'
<1> DEFINE t == f.StartTimestamp
           p == PlaceFor(t, queue)
<1>1. queue \in Seq(Flows) /\ Len(queue) \in Nat /\ t \in Nat
      /\ f.Key \in FlowKeys /\ cache \subseteq FlowKeys
  BY FlowAssumption DEF FlowIInv, CacheInOrder, FlowTypeOK, Flows
<1>2. QueueMatchesCache /\ QueueSorted /\ CapacityHolds
  BY DEF FlowIInv, CacheInOrder
<1>3. /\ p \in 0..Len(queue)
      /\ p = 0 \/ queue[p].StartTimestamp <= t
      /\ \A j \in (p + 1)..Len(queue) : queue[j].StartTimestamp > t
  BY <1>1, PlaceForFlow
<1>4. queue' = InsertAfter(queue, p, f) /\ cache' = cache \cup {f.Key}
  BY DEF addFlowToCache, Sorted
<1> HIDE DEF p, t
<1>5. /\ queue' \in Seq(Flows) /\ Len(queue') = Len(queue) + 1
      /\ \A j \in 1..(Len(queue) + 1) :
            queue'[j] = IF j <= p THEN queue[j] ELSE
                        IF j = p + 1 THEN f ELSE queue[j - 1]
  <2>1. /\ InsertAfter(queue, p, f) \in Seq(Flows)
        /\ Len(InsertAfter(queue, p, f)) = Len(queue) + 1
        /\ \A j \in 1..(Len(queue) + 1) :
              InsertAfter(queue, p, f)[j] =
                  IF j <= p THEN queue[j] ELSE IF j = p + 1 THEN f ELSE queue[j - 1]
    BY <1>1, <1>3, InsertAfterIsSeq
  <2> QED BY <1>4, <2>1
<1>6. \A i \in 1..Len(queue) : queue[i] \in Flows /\ queue[i].StartTimestamp \in Nat
                               /\ queue[i].Key \in cache
  <2> SUFFICES ASSUME NEW i \in 1..Len(queue)
               PROVE  queue[i] \in Flows /\ queue[i].StartTimestamp \in Nat
                      /\ queue[i].Key \in cache
    OBVIOUS
  <2>1. queue[i] \in Flows
    BY <1>1, ElementOfSeq
  <2>2. queue[i].Key \in cache
    BY <1>2 DEF QueueMatchesCache
  <2> QED BY <2>1, <2>2, FlowAssumption DEF Flows
<1>7. QueueMatchesCache'
  <2>1. ASSUME NEW k \in cache'
        PROVE  \E i \in 1..Len(queue') : queue'[i].Key = k
    <3>1. CASE k = f.Key
      <4>1. p + 1 \in 1..Len(queue') /\ queue'[p + 1] = f
        BY <1>1, <1>3, <1>5
      <4> QED BY <3>1, <4>1
    <3>2. CASE k \in cache
      <4>1. PICK i \in 1..Len(queue) : queue[i].Key = k
        BY <1>2, <3>2 DEF QueueMatchesCache
      <4>2. CASE i <= p
        <5>1. i \in 1..Len(queue') /\ queue'[i] = queue[i]
          BY <1>1, <1>5, <4>2
        <5> QED BY <4>1, <5>1
      <4>3. CASE i > p
        <5>1. i + 1 \in 1..Len(queue') /\ queue'[i + 1] = queue[i]
          BY <1>1, <1>3, <1>5, <4>3
        <5> QED BY <4>1, <5>1
      <4> QED BY <1>3, <4>2, <4>3
    <3> QED BY <1>4, <2>1, <3>1, <3>2
  <2>2. ASSUME NEW i \in 1..Len(queue')
        PROVE  queue'[i].Key \in cache'
    <3>1. queue'[i] = f \/ \E j \in 1..Len(queue) : queue'[i] = queue[j]
      BY <1>1, <1>3, <1>5
    <3> QED BY <1>4, <1>6, <3>1
  <2>3. ASSUME NEW i \in 1..Len(queue'), NEW j \in 1..Len(queue'),
               queue'[i].Key = queue'[j].Key
        PROVE  i = j
    <3>1. CASE i = p + 1 \/ j = p + 1
      <4>1. \A m \in 1..Len(queue') : m # p + 1 =>
                \E n \in 1..Len(queue) : queue'[m] = queue[n]
        BY <1>1, <1>3, <1>5
      <4>2. \A m \in 1..Len(queue') : m # p + 1 => queue'[m].Key # f.Key
        BY <1>6, <4>1
      <4>3. queue'[p + 1] = f
        BY <1>1, <1>3, <1>5
      <4> QED BY <2>3, <3>1, <4>2, <4>3
    <3>2. CASE i # p + 1 /\ j # p + 1
      <4> DEFINE old(m) == IF m <= p THEN m ELSE m - 1
      <4>1. old(i) \in 1..Len(queue) /\ old(j) \in 1..Len(queue)
            /\ queue'[i] = queue[old(i)] /\ queue'[j] = queue[old(j)]
        BY <1>1, <1>3, <1>5, <3>2
      <4>2. old(i) = old(j)
        <5> HIDE DEF old
        <5> QED BY <1>2, <2>3, <4>1 DEF QueueMatchesCache
      <4> QED BY <1>3, <1>5, <3>2, <4>2
    <3> QED BY <3>1, <3>2
  <2> QED BY <2>1, <2>2, <2>3 DEF QueueMatchesCache
<1>8. QueueSorted'
  <2> SUFFICES ASSUME NEW i \in 1..Len(queue'), NEW j \in 1..Len(queue'), i < j
               PROVE  queue'[i].StartTimestamp <= queue'[j].StartTimestamp
    BY DEF QueueSorted
  <2>1. \A m \in 1..Len(queue) : m <= p => queue[m].StartTimestamp <= t
    <3> SUFFICES ASSUME NEW m \in 1..Len(queue), m <= p
                 PROVE  queue[m].StartTimestamp <= t
      OBVIOUS
    <3>1. p \in 1..Len(queue) /\ queue[p].StartTimestamp <= t
      BY <1>3
    <3>2. m = p \/ queue[m].StartTimestamp <= queue[p].StartTimestamp
      BY <1>2, <1>3, <3>1 DEF QueueSorted
    <3> QED BY <1>1, <1>6, <3>1, <3>2
  <2>2. \A m \in 1..Len(queue) : m > p => t <= queue[m].StartTimestamp
    BY <1>1, <1>3, <1>6
  <2>3. CASE i = p + 1
    <3>1. queue'[i] = f /\ j - 1 \in 1..Len(queue) /\ j - 1 > p
          /\ queue'[j] = queue[j - 1]
      BY <1>1, <1>3, <1>5, <2>3
    <3> QED BY <2>2, <3>1 DEF t
  <2>4. CASE j = p + 1
    <3>1. queue'[j] = f /\ i \in 1..Len(queue) /\ i <= p /\ queue'[i] = queue[i]
      BY <1>1, <1>3, <1>5, <2>4
    <3> QED BY <2>1, <3>1 DEF t
  <2>5. CASE i # p + 1 /\ j # p + 1
    <3> DEFINE old(m) == IF m <= p THEN m ELSE m - 1
    <3>1. old(i) \in 1..Len(queue) /\ old(j) \in 1..Len(queue) /\ old(i) < old(j)
          /\ queue'[i] = queue[old(i)] /\ queue'[j] = queue[old(j)]
      BY <1>1, <1>3, <1>5, <2>5
    <3> HIDE DEF old
    <3> QED BY <1>2, <3>1 DEF QueueSorted
  <2> QED BY <2>3, <2>4, <2>5
<1>9. CapacityHolds' /\ cache' \subseteq FlowKeys
  BY <1>1, <1>4, <1>5, FlowAssumption DEF CapacityHolds
<1> QED
  BY <1>5, <1>7, <1>8, <1>9

--------------------------------------------------------------------------------
\* Every expired flow that EvictTurn takes out, and its end, leave the cache in
\* order; OutFlows and what became of earlier flows are not its concern.
LEMMA EvictTurnInOrder ==
    ASSUME FlowIInv, NEW limit \in 0..MaxTime, EvictTurn(limit), incoming' = incoming,
           run \in {"select", "evicting"}, started' = started
    PROVE  /\ queue' \in Seq(Flows) /\ cache' \subseteq FlowKeys
           /\ evicted' \in Maybe(Flows) /\ timer' \in Maybe(0..MaxTime)
           /\ cutoff' \in 0..MaxTime /\ run' \in {"select", "evicting"}
           /\ (evicted' # <<>>) <=> (run' = "evicting")
           /\ QueueMatchesCache' /\ QueueSorted' /\ CapacityHolds'
           /\ TimerCoversOldest'
           /\ Len(queue') + Len(evicted') = Len(queue)
<1> USE DEF FlowIInv, CacheInOrder
<1>1. CASE queue # <<>> /\ Expiry(Head(queue).StartTimestamp) <= limit
  <2>1. RemoveFront /\ run' = "evicting" /\ cutoff' = limit /\ timer' = timer
    BY <1>1 DEF EvictTurn
  <2>2. Len(evicted') = 1 /\ Len(queue) \in Nat
    BY <2>1 DEF RemoveFront, FlowTypeOK
  <2> QED
    BY <1>1, <2>1, <2>2, RemoveFrontInOrder DEF FlowTypeOK, TimerCoversOldest
<1>2. CASE ~(queue # <<>> /\ Expiry(Head(queue).StartTimestamp) <= limit)
  <2>1. /\ evicted' = <<>> /\ run' = "select" /\ cutoff' = 0
        /\ queue' = queue /\ cache' = cache
        /\ timer' = IF queue = <<>> THEN <<>>
                    ELSE <<Expiry(Head(queue).StartTimestamp)>>
    BY <1>2 DEF EvictTurn, ResetTimer
  <2>2. queue # <<>> => Expiry(Head(queue).StartTimestamp) \in 0..MaxTime
    <3>1. queue # <<>> => Head(queue) \in Flows
      BY HeadTailProperties DEF FlowTypeOK
    <3> QED BY <3>1, ExpiryType DEF Flows
  <2>3. timer' \in Maybe(0..MaxTime)
    BY <2>1, <2>2, MaybeOne
  <2>4. TimerCoversOldest'
    BY <2>1, <2>2 DEF TimerCoversOldest
  <2>5. QueueMatchesCache' /\ QueueSorted' /\ CapacityHolds'
    BY <2>1 DEF QueueMatchesCache, QueueSorted, CapacityHolds
  <2>6. Len(queue') + Len(evicted') = Len(queue)
    BY <2>1 DEF FlowTypeOK
  <2> QED
    BY <2>1, <2>3, <2>4, <2>5, <2>6, MaybeOne, FlowAssumption DEF FlowTypeOK
<1> QED
  BY <1>1, <1>2

\* Adding a flow and setting the timer for the queue that results.
LEMMA AddTimer ==
    ASSUME FlowIInv, NEW f \in Flows, f.Key \notin cache, Len(queue) < maxFlows,
           addFlowToCache(f, queue, cache), ResetTimer(queue', timer)
    PROVE  timer' \in Maybe(0..MaxTime) /\ TimerCoversOldest'
<1>1. queue' \in Seq(Flows) /\ queue' # <<>>
  BY AddInOrder DEF FlowIInv, CacheInOrder, FlowTypeOK
<1>2. Head(queue') \in Flows
  BY <1>1, HeadTailProperties
<1>3. Expiry(Head(queue').StartTimestamp) \in 0..MaxTime
  BY <1>2, ExpiryType DEF Flows
<1>4. timer' = <<Expiry(Head(queue').StartTimestamp)>>
  BY <1>1 DEF ResetTimer
<1>5. timer' \in Maybe(0..MaxTime)
  BY <1>3, <1>4, MaybeOne
<1>6. timer' # <<>> /\ timer'[1] = Expiry(Head(queue').StartTimestamp)
  BY <1>4
<1>7. timer'[1] <= Expiry(Head(queue').StartTimestamp)
  BY <1>3, <1>6
<1> QED
  BY <1>5, <1>6, <1>7 DEF TimerCoversOldest

--------------------------------------------------------------------------------
\* Initially nothing is cached and nothing is counted.
LEMMA FlowInvInit == FlowInit => FlowIInv
<1> SUFFICES ASSUME FlowInit PROVE FlowIInv
  OBVIOUS
<1>1. FlowTypeOK
  <2>1. queue \in Seq(Flows) /\ OutFlows \in Seq(Flows) /\ Len(OutFlows) <= outCapacity
    BY FlowAssumption DEF FlowInit
  <2>2. inFlows \in Maybe(Flows) /\ evicted \in Maybe(Flows)
        /\ incoming \in Maybe(Flows) /\ timer \in Maybe(0..MaxTime)
    BY MaybeOne DEF FlowInit
  <2>3. /\ run = "off" /\ evicted = <<>> /\ incoming = <<>>
        /\ client = "off" /\ cancelled = FALSE /\ cache = {}
    BY DEF FlowInit
  <2>4. /\ cutoff = 0 /\ started = 0 /\ now = 0 /\ 0 \in 0..MaxTime
        /\ session = 0 /\ 0 \in 0..MaxSessions /\ seen = 0 /\ 0 \in 0..MaxFlowsSeen
        /\ skipped = 0 /\ sent = 0 /\ lost = 0
    BY FlowAssumption DEF FlowInit
  <2>5. {cutoff, started, now} \subseteq 0..MaxTime /\ session \in 0..MaxSessions
        /\ seen \in 0..MaxFlowsSeen /\ {skipped, sent, lost} \subseteq Nat
    BY <2>4
  <2> QED BY <2>1, <2>2, <2>3, <2>5 DEF FlowTypeOK
<1>2. QueueMatchesCache /\ QueueSorted /\ CapacityHolds
  BY FlowAssumption DEF FlowInit, QueueMatchesCache, QueueSorted, CapacityHolds
<1>3. TimerCoversOldest /\ EveryFlowAccounted /\ RoomIsKept
  BY DEF FlowInit, TimerCoversOldest, EveryFlowAccounted, RoomIsKept
<1> QED
  BY <1>1, <1>2, <1>3 DEF FlowIInv, CacheInOrder

\* Steps that leave Run's variables alone only have to keep the types and the count.
LEMMA OutsideRun ==
    ASSUME FlowIInv, UNCHANGED runVars, FlowTypeOK', EveryFlowAccounted',
           started' = started
    PROVE  FlowIInv'
<1>1. QueueMatchesCache' /\ QueueSorted' /\ CapacityHolds'
  BY DEF FlowIInv, CacheInOrder, runVars, QueueMatchesCache, QueueSorted, CapacityHolds
<1>2. TimerCoversOldest' /\ RoomIsKept'
  BY DEF FlowIInv, runVars, TimerCoversOldest, RoomIsKept
<1> QED
  BY <1>1, <1>2 DEF FlowIInv, CacheInOrder

\* The lengths that EveryFlowAccounted adds up.
LEMMA Lengths ==
    ASSUME FlowTypeOK
    PROVE  /\ Len(inFlows) \in Nat /\ Len(incoming) \in Nat /\ Len(queue) \in Nat
           /\ Len(evicted) \in Nat /\ Len(OutFlows) \in Nat
           /\ skipped \in Nat /\ sent \in Nat /\ lost \in Nat /\ seen \in Nat
<1>1. Len(queue) \in Nat /\ Len(OutFlows) \in Nat
  BY DEF FlowTypeOK
<1>2. Len(inFlows) \in Nat /\ Len(incoming) \in Nat /\ Len(evicted) \in Nat
  BY MaybeType DEF FlowTypeOK
<1>3. skipped \in Nat /\ sent \in Nat /\ lost \in Nat /\ seen \in Nat
  BY DEF FlowTypeOK
<1> QED
  BY <1>1, <1>2, <1>3

\* The clock and the collectors.
LEMMA FlowInvEnvironment == FlowIInv /\ (Tick \/ CacheFlow) => FlowIInv'
<1> SUFFICES ASSUME FlowIInv, Tick \/ CacheFlow PROVE FlowIInv'
  OBVIOUS
<1> USE DEF FlowIInv, CacheInOrder
<1>1. CASE Tick
  <2>1. FlowTypeOK'
    BY <1>1, FlowAssumption DEF Tick, FlowTypeOK, runVars, sessionVars, counts
  <2>2. EveryFlowAccounted'
    BY <1>1 DEF Tick, EveryFlowAccounted, runVars, sessionVars, counts
  <2> QED BY <1>1, <2>1, <2>2, OutsideRun DEF Tick, sessionVars
<1>2. CASE CacheFlow
  <2>1. PICK f \in Flows : inFlows' = <<f>>
    <3>1. PICK k \in FlowKeys, t \in 0..now :
              inFlows' = <<[Key |-> k, StartTimestamp |-> t]>>
      BY <1>2 DEF CacheFlow
    <3>2. t \in 0..MaxTime
      BY FlowAssumption DEF FlowTypeOK
    <3> QED BY <3>1, <3>2 DEF Flows
  <2>2. FlowTypeOK'
    BY <1>2, <2>1, MaybeOne, FlowAssumption
       DEF CacheFlow, FlowTypeOK, runVars, sessionVars, counts
  <2>3. EveryFlowAccounted'
    <3>1. Len(inFlows') = 1 /\ Len(inFlows) = 0 /\ seen' = seen + 1
      BY <1>2, <2>1 DEF CacheFlow
    <3>2. UNCHANGED <<incoming, queue, evicted, OutFlows, skipped, sent, lost>>
      BY <1>2 DEF CacheFlow, runVars, counts
    <3> QED BY <3>1, <3>2, Lengths DEF EveryFlowAccounted
  <2> QED BY <1>2, <2>2, <2>3, OutsideRun DEF CacheFlow, sessionVars
<1> QED
  BY <1>1, <1>2

\* Run's evictions on its timer.
LEMMA FlowInvEvict == FlowIInv /\ (TimerFires \/ SendExpired \/ DropExpired) => FlowIInv'
<1> SUFFICES ASSUME FlowIInv, TimerFires \/ SendExpired \/ DropExpired PROVE FlowIInv'
  OBVIOUS
<1> USE DEF FlowIInv, CacheInOrder
<1>1. CASE TimerFires
  <2>1. /\ EvictTurn(now) /\ run = "select" /\ evicted = <<>> /\ incoming = <<>>
        /\ UNCHANGED <<incoming, sessionVars, counts, inFlows, OutFlows, now, seen>>
    BY <1>1 DEF TimerFires, FlowTypeOK
  <2>2. now \in 0..MaxTime
    BY DEF FlowTypeOK
  <2>3. /\ queue' \in Seq(Flows) /\ cache' \subseteq FlowKeys
        /\ evicted' \in Maybe(Flows) /\ timer' \in Maybe(0..MaxTime)
        /\ cutoff' \in 0..MaxTime /\ run' \in {"select", "evicting"}
        /\ (evicted' # <<>>) <=> (run' = "evicting")
        /\ QueueMatchesCache' /\ QueueSorted' /\ CapacityHolds'
        /\ TimerCoversOldest'
        /\ Len(queue') + Len(evicted') = Len(queue)
    BY <2>1, <2>2, EvictTurnInOrder DEF sessionVars
  <2>4. FlowTypeOK'
    BY <2>1, <2>3 DEF FlowTypeOK, sessionVars, counts
  <2>5. EveryFlowAccounted'
    <3>1. Len(evicted) = 0
      BY <2>1
    <3>2. Len(queue') \in Nat /\ Len(evicted') \in Nat
      BY <2>3, MaybeType
    <3>3. UNCHANGED <<inFlows, incoming, OutFlows, skipped, sent, lost, seen>>
      BY <2>1 DEF counts
    <3>4. Len(queue') + Len(evicted') = Len(queue)
      BY <2>3
    <3>5. seen = Len(inFlows) + Len(incoming) + (Len(queue') + Len(evicted'))
                 + Len(OutFlows) + skipped + sent + lost
      <4>1. FlowTypeOK
        OBVIOUS
      <4>2. /\ Len(inFlows) \in Nat /\ Len(incoming) \in Nat /\ Len(queue) \in Nat
            /\ Len(OutFlows) \in Nat /\ skipped \in Nat /\ sent \in Nat /\ lost \in Nat
        BY <4>1, Lengths
      <4>3. seen = Len(inFlows) + Len(incoming) + Len(queue) + 0 + Len(OutFlows)
                   + skipped + sent + lost
        BY <3>1 DEF EveryFlowAccounted
      <4> QED BY <3>4, <4>2, <4>3
    <3> QED BY <3>2, <3>3, <3>5, Lengths DEF EveryFlowAccounted
  <2> QED BY <2>3, <2>4, <2>5 DEF RoomIsKept
<1>2. CASE SendExpired
  <2>1. /\ EvictTurn(cutoff) /\ run = "evicting" /\ evicted # <<>> /\ incoming = <<>>
        /\ Len(OutFlows) < outCapacity /\ OutFlows' = OutFlows \o evicted
        /\ UNCHANGED <<incoming, sessionVars, counts, inFlows, now, seen>>
    BY <1>2 DEF SendExpired, FlowTypeOK
  <2>2. cutoff \in 0..MaxTime
    BY DEF FlowTypeOK
  <2>3. /\ queue' \in Seq(Flows) /\ cache' \subseteq FlowKeys
        /\ evicted' \in Maybe(Flows) /\ timer' \in Maybe(0..MaxTime)
        /\ cutoff' \in 0..MaxTime /\ run' \in {"select", "evicting"}
        /\ (evicted' # <<>>) <=> (run' = "evicting")
        /\ QueueMatchesCache' /\ QueueSorted' /\ CapacityHolds'
        /\ TimerCoversOldest'
        /\ Len(queue') + Len(evicted') = Len(queue)
    BY <2>1, <2>2, EvictTurnInOrder DEF sessionVars
  <2>4. evicted \in Seq(Flows) /\ Len(evicted) = 1
    BY <2>1, MaybeType DEF FlowTypeOK
  <2>5. OutFlows' \in Seq(Flows) /\ Len(OutFlows') = Len(OutFlows) + 1
        /\ Len(OutFlows) \in Nat
    <3>1. OutFlows \in Seq(Flows) /\ Len(OutFlows) \in Nat
      BY DEF FlowTypeOK
    <3>2. OutFlows \o evicted \in Seq(Flows)
          /\ Len(OutFlows \o evicted) = Len(OutFlows) + Len(evicted)
      BY <2>4, <3>1, ConcatFlows
    <3> QED BY <2>1, <2>4, <3>1, <3>2
  <2>6. FlowTypeOK'
    BY <2>1, <2>3, <2>5, FlowAssumption DEF FlowTypeOK, sessionVars, counts
  <2>7. EveryFlowAccounted'
    <3>1. Len(queue') \in Nat /\ Len(evicted') \in Nat
      BY <2>3, MaybeType
    <3>2. UNCHANGED <<inFlows, incoming, skipped, sent, lost, seen>>
      BY <2>1 DEF counts
    <3>3. Len(queue') + Len(evicted') = Len(queue)
      BY <2>3
    <3>4. seen = Len(inFlows) + Len(incoming) + (Len(queue') + Len(evicted'))
                 + (Len(OutFlows) + 1) + skipped + sent + lost
      <4>1. Len(evicted) = 1
        BY <2>4
      <4>2. seen = Len(inFlows) + Len(incoming) + Len(queue) + 1 + Len(OutFlows)
                   + skipped + sent + lost
        BY <4>1 DEF EveryFlowAccounted
      <4>3. seen = Len(inFlows) + Len(incoming) + (Len(queue') + Len(evicted')) + 1
                   + Len(OutFlows) + skipped + sent + lost
        BY <3>3, <4>2
      <4> HIDE DEF FlowIInv
      <4>4. FlowTypeOK
        BY DEF FlowIInv
      <4> QED BY <3>1, <4>3, <4>4, Lengths
    <3> QED BY <2>5, <3>1, <3>2, <3>4, Lengths DEF EveryFlowAccounted
  <2> QED BY <2>3, <2>6, <2>7 DEF RoomIsKept
<1>3. CASE DropExpired
  <2>1. /\ run = "evicting" /\ lost' = lost + 1 /\ evicted' = <<>> /\ cutoff' = 0
        /\ run' = "select" /\ ResetTimer(queue, <<>>) /\ incoming = <<>>
        /\ evicted # <<>>
        /\ UNCHANGED <<queue, cache, incoming, sessionVars, skipped, sent,
                       inFlows, OutFlows, now, seen>>
    BY <1>3 DEF DropExpired, FlowTypeOK
  <2>2. queue # <<>> => Head(queue) \in Flows
    BY HeadTailProperties DEF FlowTypeOK
  <2>3. queue # <<>> => Expiry(Head(queue).StartTimestamp) \in 0..MaxTime
    BY <2>2, ExpiryType DEF Flows
  <2>a. timer' = IF queue = <<>> THEN <<>>
                 ELSE <<Expiry(Head(queue).StartTimestamp)>>
    BY <2>1 DEF ResetTimer
  <2>b. timer' \in Maybe(0..MaxTime)
    BY <2>a, <2>3, MaybeOne
  <2>c. TimerCoversOldest'
    BY <2>1, <2>a, <2>3 DEF TimerCoversOldest
  <2>4. timer' \in Maybe(0..MaxTime) /\ TimerCoversOldest'
    BY <2>b, <2>c
  <2>5. FlowTypeOK'
    BY <2>1, <2>4, MaybeOne, FlowAssumption DEF FlowTypeOK, sessionVars
  <2>6. EveryFlowAccounted'
    <3>1. Len(evicted) = 1 /\ Len(evicted') = 0
      BY <2>1, MaybeType DEF FlowTypeOK
    <3> QED BY <2>1, <3>1, Lengths DEF EveryFlowAccounted
  <2>7. QueueMatchesCache' /\ QueueSorted' /\ CapacityHolds'
    BY <2>1 DEF QueueMatchesCache, QueueSorted, CapacityHolds
  <2> QED BY <2>1, <2>4, <2>5, <2>6, <2>7 DEF RoomIsKept
<1> QED
  BY <1>1, <1>2, <1>3

\* Run takes a flow from inFlows: a duplicate, one there is room for, or one that
\* the oldest must make room for.
LEMMA FlowInvTake == FlowIInv /\ (SkipFlow \/ AddFlow \/ TakeForRoom) => FlowIInv'
<1> SUFFICES ASSUME FlowIInv, SkipFlow \/ AddFlow \/ TakeForRoom PROVE FlowIInv'
  OBVIOUS
<1> USE DEF FlowIInv, CacheInOrder
<1>0. run = "select" /\ inFlows # <<>> /\ inFlows' = <<>>
  BY DEF SkipFlow, AddFlow, TakeForRoom
<1>1. inFlows[1] \in Flows /\ Len(inFlows) = 1 /\ Len(inFlows') = 0
  BY <1>0, MaybeType DEF FlowTypeOK
<1>2. evicted = <<>> /\ incoming = <<>> /\ Len(evicted) = 0 /\ Len(incoming) = 0
  BY <1>0 DEF FlowTypeOK
<1>3. CASE SkipFlow
  <2>1. FlowTypeOK'
    BY <1>0, <1>3, MaybeOne DEF SkipFlow, FlowTypeOK, runVars, sessionVars
  <2>2. skipped' = skipped + 1
        /\ UNCHANGED <<incoming, queue, evicted, OutFlows, sent, lost, seen>>
    BY <1>3 DEF SkipFlow, runVars
  <2>3. EveryFlowAccounted'
    <3>1. Len(inFlows) = 1 /\ Len(inFlows') = 0
      BY <1>1
    <3>2. seen = 0 + Len(incoming) + Len(queue) + Len(evicted) + Len(OutFlows)
                 + (skipped + 1) + sent + lost
      BY <3>1, Lengths DEF EveryFlowAccounted
    <3> QED BY <2>2, <3>1, <3>2 DEF EveryFlowAccounted
  <2> QED BY <1>3, <2>1, <2>3, OutsideRun DEF SkipFlow, sessionVars
<1>4. CASE AddFlow
  <2>1. Len(queue) < maxFlows
    <3>1. Cardinality(cache) = Len(queue)
      BY CacheSize
    <3>2. queue = <<>> => Len(queue) = 0
      OBVIOUS
    <3> QED BY <1>4, <3>1, <3>2, FlowAssumption DEF AddFlow
  <2>2. /\ inFlows[1].Key \notin cache
        /\ addFlowToCache(inFlows[1], queue, cache) /\ ResetTimer(queue', timer)
        /\ UNCHANGED <<run, evicted, incoming, cutoff, sessionVars, counts, OutFlows,
                       now, seen>>
    BY <1>4 DEF AddFlow
  <2>3. /\ queue' \in Seq(Flows) /\ Len(queue') = Len(queue) + 1
        /\ cache' \subseteq FlowKeys
        /\ QueueMatchesCache' /\ QueueSorted' /\ CapacityHolds'
    BY <1>1, <2>1, <2>2, AddInOrder
  <2>4. timer' \in Maybe(0..MaxTime) /\ TimerCoversOldest'
    BY <1>1, <2>1, <2>2, AddTimer
  <2>5. FlowTypeOK'
    BY <1>0, <2>2, <2>3, <2>4, MaybeOne DEF FlowTypeOK, sessionVars, counts
  <2>6. EveryFlowAccounted'
    <3>1. UNCHANGED <<incoming, evicted, OutFlows, skipped, sent, lost, seen>>
      BY <2>2 DEF counts
    <3>2. Len(queue') = Len(queue) + 1 /\ Len(inFlows) = 1 /\ Len(inFlows') = 0
      BY <1>1, <2>3
    <3>3. seen = 0 + Len(incoming) + (Len(queue) + 1) + Len(evicted) + Len(OutFlows)
                 + skipped + sent + lost
      BY <3>2, Lengths DEF EveryFlowAccounted
    <3> QED BY <3>1, <3>2, <3>3 DEF EveryFlowAccounted
  <2> QED BY <1>0, <2>2, <2>3, <2>4, <2>5, <2>6 DEF RoomIsKept
<1>5. CASE TakeForRoom
  <2>1. /\ inFlows[1].Key \notin cache /\ queue # <<>>
        /\ RemoveFront /\ incoming' = inFlows /\ run' = "room"
        /\ UNCHANGED <<timer, cutoff, sessionVars, counts, OutFlows, now, seen>>
    BY <1>5 DEF TakeForRoom
  <2>2. /\ queue' \in Seq(Flows) /\ Len(queue') = Len(queue) - 1
        /\ cache' \subseteq FlowKeys
        /\ evicted' \in Maybe(Flows) /\ evicted' # <<>>
        /\ QueueMatchesCache' /\ QueueSorted' /\ CapacityHolds'
    BY <2>1, RemoveFrontInOrder
  <2>3. FlowTypeOK'
    BY <1>0, <2>1, <2>2, MaybeOne DEF FlowTypeOK, sessionVars, counts
  <2>4. RoomIsKept'
    <3>1. incoming'[1].Key \notin cache'
      BY <2>1 DEF RemoveFront
    <3>2. Len(queue') < maxFlows
      BY <2>2, Lengths, FlowAssumption DEF CapacityHolds
    <3> QED BY <3>1, <3>2 DEF RoomIsKept
  <2>5. EveryFlowAccounted'
    <3>1. UNCHANGED <<OutFlows, skipped, sent, lost, seen>>
      BY <2>1 DEF counts
    <3>2. Len(queue') = Len(queue) - 1 /\ Len(incoming') = 1 /\ Len(evicted') = 1
      BY <1>1, <2>1, <2>2, MaybeType
    <3>3. Len(inFlows) = 1 /\ Len(inFlows') = 0 /\ Len(evicted) = 0 /\ Len(incoming) = 0
      BY <1>1, <1>2
    <3>4. seen = 0 + 1 + (Len(queue) - 1) + 1 + Len(OutFlows) + skipped + sent + lost
      BY <3>3, Lengths DEF EveryFlowAccounted
    <3> QED BY <3>1, <3>2, <3>3, <3>4 DEF EveryFlowAccounted
  <2> QED BY <2>1, <2>2, <2>3, <2>4, <2>5 DEF TimerCoversOldest
<1> QED
  BY <1>3, <1>4, <1>5

\* The end of a wait for room.
LEMMA FlowInvRoom == FlowIInv /\ (SendOldest \/ DropOldest \/ RunReturns) => FlowIInv'
<1> SUFFICES ASSUME FlowIInv, SendOldest \/ DropOldest \/ RunReturns PROVE FlowIInv'
  OBVIOUS
<1> USE DEF FlowIInv, CacheInOrder
<1>1. CASE SendOldest
  <2>1. /\ run = "room" /\ Len(OutFlows) < outCapacity
        /\ OutFlows' = OutFlows \o evicted
        /\ addFlowToCache(incoming[1], queue, cache) /\ ResetTimer(queue', timer)
        /\ evicted' = <<>> /\ incoming' = <<>> /\ run' = "select"
        /\ UNCHANGED <<cutoff, sessionVars, counts, inFlows, now, seen>>
    BY <1>1 DEF SendOldest
  <2>2. /\ evicted \in Seq(Flows) /\ Len(evicted) = 1
        /\ incoming[1] \in Flows /\ Len(incoming) = 1
        /\ incoming[1].Key \notin cache /\ Len(queue) < maxFlows
    <3>1. evicted # <<>> /\ incoming # <<>>
          /\ evicted \in Maybe(Flows) /\ incoming \in Maybe(Flows)
      BY <2>1 DEF FlowTypeOK
    <3> QED BY <2>1, <3>1, MaybeType DEF RoomIsKept
  <2>3. /\ queue' \in Seq(Flows) /\ Len(queue') = Len(queue) + 1
        /\ cache' \subseteq FlowKeys
        /\ QueueMatchesCache' /\ QueueSorted' /\ CapacityHolds'
    BY <2>1, <2>2, AddInOrder
  <2>4. timer' \in Maybe(0..MaxTime) /\ TimerCoversOldest'
    BY <2>1, <2>2, AddTimer
  <2>5. OutFlows' \in Seq(Flows) /\ Len(OutFlows') = Len(OutFlows) + 1
        /\ Len(OutFlows) \in Nat
    <3>1. OutFlows \in Seq(Flows) /\ Len(OutFlows) \in Nat
      BY DEF FlowTypeOK
    <3>2. evicted \in Seq(Flows) /\ Len(evicted) = 1 /\ OutFlows' = OutFlows \o evicted
      BY <2>1, <2>2
    <3>3. OutFlows \o evicted \in Seq(Flows)
          /\ Len(OutFlows \o evicted) = Len(OutFlows) + Len(evicted)
      BY <3>1, <3>2, ConcatFlows
    <3> QED BY <3>1, <3>2, <3>3
  <2>6. FlowTypeOK'
    BY <2>1, <2>3, <2>4, <2>5, MaybeOne, FlowAssumption DEF FlowTypeOK, sessionVars, counts
  <2>7. EveryFlowAccounted'
    <3>1. UNCHANGED <<inFlows, skipped, sent, lost, seen>>
      BY <2>1 DEF counts
    <3>2. /\ Len(queue') = Len(queue) + 1 /\ Len(OutFlows') = Len(OutFlows) + 1
          /\ Len(evicted') = 0 /\ Len(incoming') = 0
          /\ Len(evicted) = 1 /\ Len(incoming) = 1
      BY <2>1, <2>2, <2>3, <2>5
    <3> QED BY <3>1, <3>2, Lengths DEF EveryFlowAccounted
  <2> QED BY <2>1, <2>3, <2>4, <2>6, <2>7 DEF RoomIsKept
<1>2. CASE DropOldest \/ RunReturns
  <2>1. /\ run' = "off" /\ timer' = <<>> /\ evicted' = <<>> /\ incoming' = <<>>
        /\ UNCHANGED <<queue, cache, cutoff, sessionVars, skipped, sent, inFlows,
                       OutFlows, now, seen>>
        /\ lost' = lost + Len(evicted) + Len(incoming)
    <3>1. CASE DropOldest
      <4>1. Len(evicted) = 1 /\ Len(incoming) = 1 /\ lost' = lost + 2
        BY <3>1, MaybeType DEF FlowTypeOK, DropOldest
      <4>2. lost' = lost + Len(evicted) + Len(incoming)
        BY <4>1, Lengths
      <4> QED BY <3>1, <4>2 DEF DropOldest
    <3>2. CASE RunReturns
      <4>1. evicted = <<>> /\ incoming = <<>>
        BY <3>2 DEF RunReturns, FlowTypeOK
      <4>2. Len(evicted) = 0 /\ Len(incoming) = 0 /\ lost' = lost
        BY <3>2, <4>1 DEF RunReturns, counts
      <4>3. lost' = lost + Len(evicted) + Len(incoming)
        BY <4>2, Lengths
      <4> QED BY <3>2, <4>1, <4>3 DEF RunReturns, counts
    <3> QED BY <1>2, <3>1, <3>2
  <2>2. lost' \in Nat
    BY <2>1, Lengths
  <2>3. FlowTypeOK'
    BY <2>1, <2>2, MaybeOne DEF FlowTypeOK, sessionVars
  <2>4. EveryFlowAccounted'
    <3>1. UNCHANGED <<inFlows, queue, OutFlows, skipped, sent, seen>>
          /\ lost' = lost + Len(evicted) + Len(incoming)
          /\ Len(evicted') = 0 /\ Len(incoming') = 0
      BY <2>1
    <3> QED BY <3>1, Lengths DEF EveryFlowAccounted
  <2>5. QueueMatchesCache' /\ QueueSorted' /\ CapacityHolds'
    BY <2>1 DEF QueueMatchesCache, QueueSorted, CapacityHolds
  <2> QED BY <2>1, <2>3, <2>4, <2>5 DEF TimerCoversOldest, RoomIsKept
<1> QED
  BY <1>1, <1>2

\* The stream opens, sends, breaks and ends.
LEMMA FlowInvStream ==
    FlowIInv /\ (OpenFlowStream \/ CancelFlowStream \/ FlowClient) => FlowIInv'
<1> SUFFICES ASSUME FlowIInv, OpenFlowStream \/ CancelFlowStream \/ FlowClient
             PROVE  FlowIInv'
  OBVIOUS
<1> USE DEF FlowIInv, CacheInOrder
<1>1. CASE OpenFlowStream
  <2>1. /\ run = "off" /\ run' = "select" /\ client' = "on" /\ cancelled' = FALSE
        /\ session < MaxSessions /\ session' = session + 1 /\ started' = now
        /\ timer' = <<Expiry(now)>>
        /\ UNCHANGED <<queue, cache, evicted, incoming, cutoff, counts, inFlows,
                       OutFlows, now, seen>>
    BY <1>1 DEF OpenFlowStream
  <2>2. Expiry(now) \in 0..MaxTime /\ now \in 0..MaxTime
    BY ExpiryType DEF FlowTypeOK
  <2>3. timer' \in Maybe(0..MaxTime)
    BY <2>1, <2>2, MaybeOne
  <2>4. FlowTypeOK'
    <3>1. session' \in 0..MaxSessions
      BY <2>1, FlowAssumption DEF FlowTypeOK
    <3>2. UNCHANGED <<queue, cache, evicted, incoming, cutoff, skipped, sent, lost,
                      inFlows, OutFlows, now, seen>>
      BY <2>1 DEF counts
    <3> QED BY <2>1, <2>2, <2>3, <3>1, <3>2 DEF FlowTypeOK
  <2>5. TimerCoversOldest'
    <3>1. timer' # <<>> /\ timer'[1] = Expiry(started')
      BY <2>1
    <3>2. timer'[1] <= Expiry(started')
      BY <2>1, <2>2, <3>1
    <3> QED BY <3>1, <3>2 DEF TimerCoversOldest
  <2>6. EveryFlowAccounted'
    BY <2>1 DEF EveryFlowAccounted, counts
  <2>7. QueueMatchesCache' /\ QueueSorted' /\ CapacityHolds'
    BY <2>1 DEF QueueMatchesCache, QueueSorted, CapacityHolds
  <2> QED BY <2>1, <2>4, <2>5, <2>6, <2>7 DEF RoomIsKept
<1>2. CASE CancelFlowStream \/ ClientReturns
  <2>1. FlowTypeOK'
    BY <1>2 DEF CancelFlowStream, ClientReturns, FlowTypeOK, runVars, counts
  <2>2. EveryFlowAccounted'
    BY <1>2 DEF CancelFlowStream, ClientReturns, EveryFlowAccounted, runVars, counts
  <2> QED BY <1>2, <2>1, <2>2, OutsideRun DEF CancelFlowStream, ClientReturns
<1>3. CASE SendFlow \/ SendFails
  <2>1. /\ OutFlows # <<>> /\ OutFlows' = Tail(OutFlows)
        /\ UNCHANGED runVars /\ UNCHANGED <<session, started, skipped, inFlows, now, seen>>
        /\ client' \in {"off", "on"} /\ cancelled' \in BOOLEAN
    BY <1>3 DEF SendFlow, SendFails, sessionVars, FlowTypeOK
  <2>2. \/ sent' = sent + 1 /\ lost' = lost
        \/ sent' = sent /\ lost' = lost + 1
    BY <1>3 DEF SendFlow, SendFails
  <2>3. OutFlows' \in Seq(Flows) /\ Len(OutFlows') = Len(OutFlows) - 1
    BY <2>1, HeadTailProperties DEF FlowTypeOK
  <2>4. sent' \in Nat /\ lost' \in Nat
    BY <2>2, Lengths
  <2>5. Len(OutFlows') <= outCapacity
    BY <2>3, Lengths, FlowAssumption DEF FlowTypeOK
  <2>6. FlowTypeOK'
    BY <2>1, <2>3, <2>4, <2>5 DEF FlowTypeOK, runVars
  <2>7. EveryFlowAccounted'
    <3>1. UNCHANGED <<inFlows, incoming, queue, evicted, skipped, seen>>
      BY <2>1 DEF runVars
    <3>2. Len(OutFlows') = Len(OutFlows) - 1
      BY <2>3
    <3>3. seen = Len(inFlows) + Len(incoming) + Len(queue) + Len(evicted)
                 + (Len(OutFlows) - 1) + skipped + sent' + lost'
      BY <2>2, Lengths DEF EveryFlowAccounted
    <3> QED BY <3>1, <3>2, <3>3 DEF EveryFlowAccounted
  <2> QED BY <2>1, <2>6, <2>7, OutsideRun
<1> QED
  BY <1>1, <1>2, <1>3 DEF FlowClient

\* A step that changes nothing.
LEMMA FlowInvStutter == FlowIInv /\ UNCHANGED flowVars => FlowIInv'
<1> SUFFICES ASSUME FlowIInv, UNCHANGED flowVars PROVE FlowIInv'
  OBVIOUS
<1>1. FlowTypeOK'
  BY DEF flowVars, runVars, sessionVars, counts, FlowTypeOK, FlowIInv, CacheInOrder
<1>2. EveryFlowAccounted'
  BY DEF flowVars, runVars, sessionVars, counts, EveryFlowAccounted, FlowIInv
<1> QED
  BY <1>1, <1>2, OutsideRun DEF flowVars, sessionVars

\* The inductive invariant holds in every state.
LEMMA FlowInvHolds == FlowSpec => []FlowIInv
<1>1. FlowIInv /\ [FlowNext]_flowVars => FlowIInv'
  BY FlowInvEnvironment, FlowInvEvict, FlowInvTake, FlowInvRoom, FlowInvStream,
     FlowInvStutter DEF FlowNext, Run
<1> QED
  BY FlowInvInit, <1>1, PTL DEF FlowSpec, FlowSafety

\* FlowCache stays in order for every capacity, timeout and number of sessions: the
\* list and the map agree, the list is sorted, neither outgrows maxFlows.
THEOREM CacheAlwaysInOrder == FlowSpec => []CacheInOrder
<1>1. FlowIInv => CacheInOrder
  BY DEF FlowIInv
<1> QED
  BY <1>1, FlowInvHolds, PTL

\* Run's timer always covers the oldest flow while it waits.
THEOREM TimerAlwaysCoversOldest == FlowSpec => []TimerCoversOldest
<1>1. FlowIInv => TimerCoversOldest
  BY DEF FlowIInv
<1> QED
  BY <1>1, FlowInvHolds, PTL

\* No flow disappears, and none is counted twice, on its way through the channels
\* and the cache, over any number of broken sessions.
THEOREM EveryFlowAlwaysAccounted == FlowSpec => []EveryFlowAccounted
<1>1. FlowIInv => EveryFlowAccounted
  BY DEF FlowIInv
<1> QED
  BY <1>1, FlowInvHolds, PTL
================================================================================
