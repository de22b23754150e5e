-------------------------- MODULE OperatorHealthProofs --------------------------
(***************************************************************************)
(* The deadlock detector is neither deaf nor nervous, for every choice of  *)
(* its times, and what CloudSecure shows of the cluster follows the        *)
(* abstract ClusterMirror, for any kinds, objects, values and sessions.    *)
(***************************************************************************)
EXTENDS OperatorHealth, FiniteSetTheorems, SequenceTheorems, WellFoundedInduction, TLAPS

\* A non-empty set of numbers up to n has a largest element.  A least set
\* {j \in T : j >= i} exists because the subsets of 0..n are well-founded.
LEMMA LargestOf ==
    ASSUME NEW n \in Nat, NEW T \in SUBSET (0..n), T # {}
    PROVE  \E m \in T : \A i \in T : i <= m
<1> DEFINE From(i) == {j \in T : j >= i}
           Tails == {From(i) : i \in T}
<1>1. IsWellFoundedOn(StrictSubsetOrdering(0..n), SUBSET (0..n))
  <2>1. IsFiniteSet(0..n)
    BY FS_Interval
  <2> QED BY <2>1, FS_StrictSubsetOrderingWellFounded, FS_FiniteSubsetsOfFinite
<1>2. Tails \subseteq SUBSET (0..n) /\ Tails # {}
  OBVIOUS
<1>3. PICK least \in Tails : \A S \in Tails : ~(<<S, least>> \in StrictSubsetOrdering(0..n))
  <2> HIDE DEF Tails
  <2> QED BY <1>1, <1>2, WFMin
<1>4. PICK m \in T : least = From(m)
  OBVIOUS
<1>5. ASSUME NEW i \in T, i > m PROVE FALSE
  <2>1. i \in Int /\ m \in Int /\ T \subseteq Int
    OBVIOUS
  <2>2. (\A j \in T : j >= i => j >= m) /\ m >= m /\ ~(m >= i)
    BY <1>5, <2>1
  <2>3. From(i) \subseteq From(m) /\ m \in From(m) /\ m \notin From(i)
    BY <2>2, Zenon
  <2>4. <<From(i), From(m)>> \in StrictSubsetOrdering(0..n)
    BY <1>2, <2>3 DEF StrictSubsetOrdering
  <2> QED BY <1>3, <1>4, <2>4
<1> QED
  BY <1>5

\* So Max of such a set is one of its elements.
LEMMA MaxOf ==
    ASSUME NEW n \in Nat, NEW T \in SUBSET (0..n), T # {}
    PROVE  Max(T) \in T /\ \A i \in T : i <= Max(T)
<1>1. \E m \in T : \A i \in T : m >= i
  <2>1. PICK m \in T : \A i \in T : i <= m
    BY LargestOf
  <2> QED BY <2>1
<1>2. Max(T) \in T /\ \A i \in T : Max(T) >= i
  BY <1>1 DEF Max
<1> QED
  BY <1>2

\* A non-empty set of natural numbers has a least element, and Min is it.
LEMMA MinOf ==
    ASSUME NEW T \in SUBSET Nat, T # {}
    PROVE  Min(T) \in T
<1>1. PICK t \in T : TRUE
  OBVIOUS
<1> DEFINE U == {t - i : i \in T \cap (0..t)}
<1>2. t \in Nat /\ U \in SUBSET (0..t) /\ t - t \in U
  BY <1>1
<1>3. PICK m \in U : \A u \in U : u <= m
  <2> HIDE DEF U
  <2> QED BY <1>2, LargestOf
<1>4. PICK j \in T \cap (0..t) : m = t - j
  BY <1>3
<1>5. \A i \in T : j <= i
  <2> SUFFICES ASSUME NEW i \in T PROVE j <= i
    OBVIOUS
  <2>1. CASE i <= t
    <3>1. t - i \in U
      BY <1>2, <2>1
    <3>2. t - i <= t - j
      BY <1>3, <1>4, <3>1
    <3> QED BY <1>2, <1>4, <3>2
  <2>2. CASE ~(i <= t)
    BY <1>2, <1>4, <2>2
  <2> QED BY <2>1, <2>2
<1>6. \E x \in T : \A y \in T : x <= y
  BY <1>4, <1>5
<1> QED
  BY <1>6 DEF Min

--------------------------------------------------------------------------------
(* The processing of resources.                                              *)

\* The timeout of resource processing is a number of ticks.
LEMMA ProcessingTypes == ResourceProcessingTimeout \in Nat
BY DetectorAssumption

\* A call of the detector by Run(s).
LEMMA CallKeeps ==
    ASSUME ProcessingIInv, NEW s \in Sessions, NEW on \in BOOLEAN, Calls(s, on)
    PROVE  ProcessingIInv'
<1>1. /\ processing' = on /\ startedAge' = 0
      /\ busy' = [busy EXCEPT ![s] = IF on THEN 0 ELSE Idle]
      /\ overlapped' = [u \in Sessions |-> u # s /\ (overlapped[u] \/ busy[u] # Idle)]
  BY DEF Calls, SetProcessingResources
<1>2. busy \in [Sessions -> Nat \cup {Idle}]
  BY DEF ProcessingIInv
<1>3. /\ busy' \in [Sessions -> Nat \cup {Idle}]
      /\ busy'[s] = IF on THEN 0 ELSE Idle
      /\ \A u \in Sessions : u # s => busy'[u] = busy[u]
  BY <1>1, <1>2
<1>4. \A u \in Sessions : overlapped'[u] = (u # s /\ (overlapped[u] \/ busy[u] # Idle))
  BY <1>1
<1>5. overlapped' \in [Sessions -> BOOLEAN]
  BY <1>1
<1>6. 0 # Idle
  BY DEF Idle
<1>7. on => \E u \in Sessions : busy'[u] # Idle /\ busy'[u] = startedAge'
  BY <1>1, <1>3, <1>6
<1>8. \A u \in Sessions :
        busy'[u] # Idle /\ ~overlapped'[u] => on /\ busy'[u] = startedAge'
  BY <1>1, <1>3, <1>4
<1> QED
  BY <1>1, <1>3, <1>5, <1>7, <1>8 DEF ProcessingIInv

\* A step that does not call it.
LEMMA NoCallKeeps ==
    ASSUME ProcessingIInv, UNCHANGED <<processing, startedAge, busy, overlapped>>
    PROVE  ProcessingIInv'
BY DEF ProcessingIInv

\* A tick: both ages grow, up to the same limit.
LEMMA TickKeepsProcessing ==
    ASSUME ProcessingIInv, Tick PROVE ProcessingIInv'
<1>1. /\ startedAge' = IF processing THEN Older(startedAge, ResourceProcessingTimeout) ELSE 0
      /\ processing' = processing /\ overlapped' = overlapped
      /\ busy' = [s \in Sessions |-> Older(busy[s], ResourceProcessingTimeout)]
  BY DEF Tick, DetectorTick, BusyTick
<1>2. /\ startedAge \in Nat /\ busy \in [Sessions -> Nat \cup {Idle}]
  BY DEF ProcessingIInv
<1>3. \A a \in Nat \cup {Idle} :
        /\ Older(a, ResourceProcessingTimeout) \in Nat \cup {Idle}
        /\ (a \in Nat <=> Older(a, ResourceProcessingTimeout) \in Nat)
  BY ProcessingTypes DEF Older, Idle, Never
<1>4. /\ startedAge' \in Nat /\ busy' \in [Sessions -> Nat \cup {Idle}]
  BY <1>1, <1>2, <1>3
<1>5. Idle \notin Nat
  BY DEF Idle
<1>6. \A s \in Sessions : /\ busy'[s] = Older(busy[s], ResourceProcessingTimeout)
                          /\ busy'[s] # Idle <=> busy[s] # Idle
  BY <1>1, <1>2, <1>3, <1>5
<1>7. processing => \E s \in Sessions : busy'[s] # Idle /\ busy'[s] = startedAge'
  BY <1>1, <1>6 DEF ProcessingIInv
<1>8. \A s \in Sessions :
        busy'[s] # Idle /\ ~overlapped[s] => processing /\ busy'[s] = startedAge'
  BY <1>1, <1>6 DEF ProcessingIInv
<1> QED
  BY <1>1, <1>4, <1>7, <1>8 DEF ProcessingIInv

\* The steps of the resource stream either call the detector once or not at all.
LEMMA ResourceCalls ==
    ASSUME ResourceNext, cur \in 0..MaxSessions, cur = 0 => sending = Nothing
    PROVE  \/ UNCHANGED <<detectorVars, busy, overlapped>>
           \/ \E s \in Sessions, on \in BOOLEAN : Calls(s, on)
<1> DEFINE Quiet == UNCHANGED <<detectorVars, busy, overlapped>>
           Called == \E s \in Sessions, on \in BOOLEAN : Calls(s, on)
<1>0. MaxSessions \in Nat /\ \A s \in 1..MaxSessions : s \in Sessions
  BY MirrorAssumption DEF Sessions
<1>1. ASSUME NEW s, s \in Sessions, Returns(s) PROVE Called
  BY <1>1 DEF Returns
<1>2. cur > 0 => cur \in Sessions
  BY <1>0
<1>3. ASSUME cur > 0, Returns(cur) PROVE Called
  BY <1>1, <1>2, <1>3
<1>4. ASSUME NEW o \in Objects, Write(o) PROVE Quiet
  BY <1>4 DEF Write, healthVars, detectorVars
<1>5. CASE OpenStream \/ CloseConnection
  BY <1>5 DEF OpenStream, CloseConnection, healthVars, detectorVars
<1>6. ASSUME NEW s \in Sessions, Discovered(s) \/ DiscoveryFails(s) \/ ContextDone(s)
      PROVE  Called
  BY <1>1, <1>6 DEF Discovered, DiscoveryFails, ContextDone
<1>7. CASE sendClusterMetadata \/ FetchResources \/ SendObjectData
  BY <1>7 DEF sendClusterMetadata, FetchResources, SendObjectData, healthVars, detectorVars
<1>8. CASE sendResourceSnapshotComplete
  BY <1>2, <1>8 DEF sendResourceSnapshotComplete, InPhase
<1>9. CASE CallFails
  BY <1>3, <1>9 DEF CallFails, Listing, InPhase
<1>10. CASE SendFails
  <2>1. cur > 0
    BY <1>0, <1>10 DEF SendFails, InPhase
  <2> QED BY <1>3, <1>10, <2>1 DEF SendFails
<1>11. ASSUME NEW k \in Kinds, WatcherStep(k) PROVE Quiet \/ Called
  <2>1. CASE WatchFails(k)
    BY <1>3, <2>1 DEF WatchFails, InPhase
  <2>2. CASE ~WatchFails(k)
    BY <1>11, <2>2 DEF WatcherStep, newWatcher, WatchUnavailable, WatchCloses, processMutation,
                       handleWatchError, SetWatcher, healthVars, detectorVars
  <2> QED BY <2>1, <2>2
<1>12. CASE ForwardMutation \/ SendKeepalive \/ KeepaliveFails \/ SendKubernetesResources
  BY <1>12 DEF ForwardMutation, SendKeepalive, KeepaliveFails, SendKubernetesResources,
               healthVars, detectorVars
<1>13. CASE MutationChanClosed
  BY <1>3, <1>13 DEF MutationChanClosed, InPhase
<1> QED
  BY <1>4, <1>5, <1>6, <1>7, <1>8, <1>9, <1>10, <1>11, <1>12, <1>13 DEF ResourceNext

--------------------------------------------------------------------------------
(* The flow watchdog.                                                        *)

\* The times of the stages are natural numbers, and they and the longest pause in the
\* traffic add up to the timeout.
LEMMA StageTimes ==
    /\ TrafficGap \in Nat /\ Timeout \in Nat
    /\ StageTime["none"] = 0 /\ StageTime["uncollected"] \in Nat
    /\ StageTime["cached"] \in Nat /\ StageTime["evicted"] \in Nat
    /\ Timeout = TrafficGap + StageTime["uncollected"] + StageTime["cached"]
                   + StageTime["evicted"]
<1>1. minKeepalivePeriod(KeepalivePeriods) \in Nat
  <2> DEFINE periods == {p \in KeepalivePeriods : p > 0}
  <2>1. periods \in SUBSET Nat
    <3>1. \A p \in KeepalivePeriods : p \in Int
      BY DetectorAssumption
    <3> QED BY <3>1
  <2>2. periods # {} => Min(periods) \in Nat
    <3> HIDE DEF periods
    <3> QED BY <2>1, MinOf
  <2> QED BY <2>2 DEF minKeepalivePeriod
<1>2. FlowInactivityKeepaliveMultiplier \in Nat /\ ActiveTimeout \in Nat
      /\ FlowInactivityMargin \in Nat /\ PollInterval \in Int
  BY DetectorAssumption
<1>3. TrafficGap \in Nat
  BY <1>1, <1>2 DEF TrafficGap
<1>4. Max({PollInterval, 0}) \in Nat
  <2>1. \E x \in {PollInterval, 0} : \A y \in {PollInterval, 0} : x >= y
    BY <1>2
  <2>2. Max({PollInterval, 0}) \in {PollInterval, 0}
        /\ \A y \in {PollInterval, 0} : Max({PollInterval, 0}) >= y
    BY <2>1 DEF Max
  <2> QED BY <1>2, <2>2
<1>5. /\ StageTime["none"] = 0 /\ StageTime["uncollected"] = Max({PollInterval, 0})
      /\ StageTime["cached"] = ActiveTimeout /\ StageTime["evicted"] = FlowInactivityMargin
  BY DEF StageTime
<1>6. Timeout = TrafficGap + Max({PollInterval, 0}) + ActiveTimeout + FlowInactivityMargin
  BY DEF Timeout, FlowInactivityTimeout, TrafficGap
<1>7. Timeout \in Nat
  BY <1>2, <1>3, <1>4, <1>6
<1> QED
  BY <1>2, <1>3, <1>4, <1>5, <1>6, <1>7

\* What the last flow may be ago never exceeds the timeout.
LEMMA AllowedBound ==
    ASSUME WatchdogTypeOK PROVE Allowed \in Nat /\ Allowed <= Timeout
<1>1. /\ quiet \in 0..TrafficGap /\ stageAge \in 0..StageTime[stage]
      /\ stage \in {"none", "uncollected", "cached", "evicted"}
  BY DEF WatchdogTypeOK
<1>2. CASE stage = "none"
  <2>1. Allowed = quiet
    BY <1>2 DEF Allowed
  <2> QED BY <1>1, <2>1, StageTimes
<1>3. CASE stage = "uncollected"
  <2>1. Allowed = TrafficGap + stageAge /\ stageAge \in 0..StageTime["uncollected"]
    BY <1>1, <1>3 DEF Allowed
  <2> QED BY <2>1, StageTimes
<1>4. CASE stage = "cached"
  <2>1. Allowed = TrafficGap + StageTime["uncollected"] + stageAge
        /\ stageAge \in 0..StageTime["cached"]
    BY <1>1, <1>4 DEF Allowed
  <2> QED BY <2>1, StageTimes
<1>5. CASE stage = "evicted"
  <2>1. Allowed = TrafficGap + StageTime["uncollected"] + StageTime["cached"] + stageAge
        /\ stageAge \in 0..StageTime["evicted"]
    BY <1>1, <1>5 DEF Allowed
  <2> QED BY <2>1, StageTimes
<1> QED
  BY <1>1, <1>2, <1>3, <1>4, <1>5

\* The facts of the invariant that the steps below need, one by one.
LEMMA WatchdogFacts ==
    ASSUME WatchdogIInv
    PROVE  /\ collector \in {"none", "off", "on"}
           /\ stage \in {"none", "uncollected", "cached", "evicted"}
           /\ disturbed \in BOOLEAN
           /\ quiet \in 0..TrafficGap /\ stageAge \in 0..StageTime[stage]
           /\ quiet \in Nat /\ stageAge \in Nat
           /\ flowInactivityTimeout \in Nat
           /\ silence \in Nat \cup {Never} /\ collectionAge \in Nat \cup {Never}
           /\ flowSentAge \in Nat \cup {Never}
<1>1. StageTime[stage] \in Nat
  BY StageTimes DEF WatchdogIInv, WatchdogTypeOK
<1> QED
  BY <1>1, StageTimes DEF WatchdogIInv, WatchdogTypeOK

\* A collector starts, and with it the detector's flow clock.
LEMMA RunCollectorKeeps == ASSUME WatchdogIInv, RunCollector PROVE WatchdogIInv'
<1>1. /\ collector = "off" /\ collector' = "on"
      /\ collectionAge' = IF flowInactivityTimeout > 0 /\ collectionAge = Never
                          THEN 0 ELSE collectionAge
      /\ silence' = IF silence = Never THEN 0 ELSE silence
      /\ quiet' = IF silence = Never THEN 0 ELSE quiet
      /\ UNCHANGED <<stage, stageAge, disturbed, flowInactivityTimeout, flowSentAge>>
  BY DEF RunCollector, StartFlowCollection
<1>2. WatchdogTypeOK'
  BY <1>1, StageTimes DEF WatchdogIInv, WatchdogTypeOK
<1>3. Allowed' \in Nat
  <2>1. (WatchdogTypeOK => Allowed \in Nat /\ Allowed <= Timeout)'
    BY AllowedBound, PTL
  <2> QED BY <1>2, <2>1
<1>4. 0 # Never /\ 0 \in Nat
  BY DEF Never
<1>5. ~disturbed' /\ silence' # Never => silence' <= Allowed'
  <2>1. CASE silence = Never
    BY <1>1, <1>3, <2>1
  <2>2. CASE silence # Never
    BY <1>1, <2>2 DEF WatchdogIInv, Allowed
  <2> QED BY <2>1, <2>2
<1>6. /\ silence' # Never
      /\ collectionAge' # Never <=> flowInactivityTimeout > 0
      /\ flowSentAge # Never => collectionAge' # Never
      /\ collectionAge' # Never =>
          silence' = IF flowSentAge' = Never THEN collectionAge' ELSE flowSentAge'
  BY <1>1, <1>4 DEF WatchdogIInv
<1> QED
  BY <1>1, <1>2, <1>5, <1>6 DEF WatchdogIInv, Timeout

\* The steps of the flow pipeline that do not call the detector.
LEMMA QuietFlowStepsKeep ==
    ASSUME WatchdogIInv, CollectorStops \/ Traffic \/ Collect \/ Evict \/ SendFlowFails
    PROVE  WatchdogIInv'
<1>1. UNCHANGED <<flowInactivityTimeout, collectionAge, flowSentAge, silence>>
  BY DEF CollectorStops, Traffic, Collect, Evict, SendFlowFails, detectorVars
<1>2. CASE CollectorStops
  BY <1>1, <1>2 DEF CollectorStops, WatchdogIInv, WatchdogTypeOK, Timeout
<1>3. CASE SendFlowFails
  BY <1>1, <1>3, StageTimes DEF SendFlowFails, WatchdogIInv, WatchdogTypeOK, Timeout
<1>4. CASE Traffic
  <2>1. /\ quiet' = 0 /\ stage' = IF stage = "none" THEN "uncollected" ELSE stage
        /\ stageAge' = IF stage = "none" THEN 0 ELSE stageAge
        /\ UNCHANGED <<collector, disturbed>> /\ collector # "none"
    BY <1>4 DEF Traffic
  <2>2. WatchdogTypeOK'
    BY <1>1, <2>1, StageTimes DEF WatchdogIInv, WatchdogTypeOK
  <2>3. ~disturbed /\ silence # Never => silence <= Allowed'
    <3>1. CASE stage = "none"
      <4>1. Allowed = quiet /\ Allowed' = TrafficGap + 0
        BY <2>1, <3>1 DEF Allowed
      <4>2. quiet <= TrafficGap /\ quiet \in Nat /\ TrafficGap \in Nat
            /\ silence \in Nat \cup {Never}
        BY WatchdogFacts, StageTimes
      <4>3. Allowed' = TrafficGap
        BY <4>1, <4>2
      <4>4. ~disturbed /\ silence # Never => silence <= quiet
        BY <4>1 DEF WatchdogIInv
      <4> QED BY <4>2, <4>3, <4>4
    <3>2. CASE stage # "none"
      <4>1. stage \in {"uncollected", "cached", "evicted"} /\ stage' = stage
            /\ stageAge' = stageAge
        BY <2>1, <3>2, WatchdogFacts
      <4>2. Allowed' = Allowed
        BY <4>1 DEF Allowed
      <4> QED BY <4>2 DEF WatchdogIInv
    <3> QED BY <3>1, <3>2
  <2> QED BY <1>1, <2>1, <2>2, <2>3 DEF WatchdogIInv, Timeout
<1>5. CASE Collect
  <2>1. /\ collector = "on" /\ stage = "uncollected" /\ stage' = "cached" /\ stageAge' = 0
        /\ UNCHANGED <<collector, quiet, disturbed>>
    BY <1>5 DEF Collect, Moves
  <2>2. WatchdogTypeOK'
    BY <1>1, <2>1, StageTimes DEF WatchdogIInv, WatchdogTypeOK
  <2>3. ~disturbed /\ silence # Never => silence <= Allowed'
    <3>1. Allowed = TrafficGap + stageAge
          /\ Allowed' = TrafficGap + StageTime["uncollected"] + 0
      BY <2>1 DEF Allowed
    <3>2. stageAge \in 0..StageTime["uncollected"] /\ silence \in Nat \cup {Never}
      BY <2>1, WatchdogFacts
    <3>3. ~disturbed /\ silence # Never => silence <= TrafficGap + stageAge
      BY <3>1 DEF WatchdogIInv
    <3>4. TrafficGap + stageAge <= TrafficGap + StageTime["uncollected"] + 0
      BY <3>2, StageTimes
    <3> QED BY <3>1, <3>2, <3>3, <3>4, StageTimes
  <2> QED BY <1>1, <2>1, <2>2, <2>3 DEF WatchdogIInv, Timeout
<1>6. CASE Evict
  <2>1. /\ stage = "cached" /\ stage' = "evicted" /\ stageAge' = 0
        /\ UNCHANGED <<collector, quiet, disturbed>>
    BY <1>6 DEF Evict, Moves
  <2>2. WatchdogTypeOK'
    BY <1>1, <2>1, StageTimes DEF WatchdogIInv, WatchdogTypeOK
  <2>3. ~disturbed /\ silence # Never => silence <= Allowed'
    <3>1. Allowed = TrafficGap + StageTime["uncollected"] + stageAge
          /\ Allowed' = TrafficGap + StageTime["uncollected"] + StageTime["cached"] + 0
      BY <2>1 DEF Allowed
    <3>2. stageAge \in 0..StageTime["cached"] /\ silence \in Nat \cup {Never}
      BY <2>1, WatchdogFacts
    <3>3. ~disturbed /\ silence # Never
            => silence <= TrafficGap + StageTime["uncollected"] + stageAge
      BY <3>1 DEF WatchdogIInv
    <3> QED BY <3>1, <3>2, <3>3, StageTimes
  <2> QED BY <1>1, <2>1, <2>2, <2>3 DEF WatchdogIInv, Timeout
<1> QED
  BY <1>2, <1>3, <1>4, <1>5, <1>6

\* A flow is sent: the detector's clock and the true one start anew together.
LEMMA SendFlowKeeps == ASSUME WatchdogIInv, SendFlow PROVE WatchdogIInv'
<1>1. /\ stage = "evicted" /\ stage' = "none" /\ stageAge' = 0 /\ silence' = 0
      /\ flowSentAge' = IF collectionAge # Never THEN 0 ELSE flowSentAge
      /\ UNCHANGED <<collector, quiet, disturbed, flowInactivityTimeout, collectionAge>>
  BY DEF SendFlow, Moves, RecordFlowSent
<1>2. 0 # Never /\ 0 \in Nat
  BY DEF Never
<1>3. WatchdogTypeOK'
  BY <1>1, <1>2, StageTimes DEF WatchdogIInv, WatchdogTypeOK
<1>4. silence # Never
  BY <1>1 DEF WatchdogIInv
<1>5. silence' <= Allowed'
  <2>1. Allowed' = quiet
    BY <1>1 DEF Allowed
  <2> QED BY <1>1, <2>1, WatchdogFacts
<1>6. collectionAge # Never <=> flowInactivityTimeout > 0
  BY <1>4 DEF WatchdogIInv
<1>7. /\ collector' # "none" => flowInactivityTimeout' = Timeout
      /\ collector' # "none"
  BY <1>1, <1>4 DEF WatchdogIInv
<1> QED
  BY <1>1, <1>2, <1>3, <1>4, <1>5, <1>6, <1>7 DEF WatchdogIInv, Timeout

\* Time passes: all ages of the detector and the watchdog grow together.
LEMMA TickKeepsWatchdog == ASSUME WatchdogIInv, Tick PROVE WatchdogIInv'
<1>1. /\ collectionAge' = Older(collectionAge, flowInactivityTimeout)
      /\ flowSentAge' = Older(flowSentAge, flowInactivityTimeout)
      /\ flowInactivityTimeout' = flowInactivityTimeout
      /\ silence' = Older(silence, flowInactivityTimeout)
      /\ UNCHANGED <<collector, stage, disturbed>>
      /\ quiet' = IF disturbed \/ silence = Never THEN quiet ELSE quiet + 1
      /\ stageAge' = IF disturbed \/ stage = "none" THEN 0 ELSE
                     IF stageAge < StageTime[stage] THEN stageAge + 1 ELSE stageAge
      /\ \/ disturbed \/ silence = Never
         \/ quiet < TrafficGap /\ (stage # "none" => stageAge < StageTime[stage])
  BY DEF Tick, DetectorTick, WatchdogTick
<1>2. \A a \in Nat \cup {Never} :
        /\ Older(a, flowInactivityTimeout) \in Nat \cup {Never}
        /\ (a # Never <=> Older(a, flowInactivityTimeout) # Never)
        /\ (a # Never => Older(a, flowInactivityTimeout) <= a + 1)
  BY WatchdogFacts DEF Older, Never
<1>3. /\ silence' \in Nat \cup {Never} /\ collectionAge' \in Nat \cup {Never}
      /\ flowSentAge' \in Nat \cup {Never}
      /\ silence' # Never <=> silence # Never
      /\ collectionAge' # Never <=> collectionAge # Never
      /\ flowSentAge' # Never <=> flowSentAge # Never
      /\ silence # Never => silence' <= silence + 1
  BY <1>1, <1>2, WatchdogFacts
<1>4. StageTime[stage] \in Nat
  BY StageTimes, WatchdogFacts
<1>5. quiet' \in 0..TrafficGap
  BY <1>1, StageTimes, WatchdogFacts
<1>6. stageAge' \in 0..StageTime[stage]
  BY <1>1, <1>4, WatchdogFacts
<1>7. WatchdogTypeOK'
  <2>1. stage' = stage /\ StageTime' = StageTime /\ TrafficGap' = TrafficGap
    BY <1>1 DEF StageTime, TrafficGap
  <2> QED BY <1>1, <1>3, <1>5, <1>6, <2>1, WatchdogFacts DEF WatchdogTypeOK
<1>8. ASSUME ~disturbed, silence # Never PROVE silence' <= Allowed'
  <2>1. silence <= Allowed
    BY <1>8 DEF WatchdogIInv
  <2>2. Allowed \in Nat /\ silence \in Nat /\ silence' \in Nat /\ silence' <= silence + 1
    BY <1>3, <1>8, AllowedBound, WatchdogFacts DEF WatchdogIInv
  <2>3. Allowed' = Allowed + 1
    <3>1. CASE stage = "none"
      BY <1>1, <1>8, <3>1 DEF Allowed
    <3>2. CASE stage # "none"
      <4>1. stageAge' = stageAge + 1 /\ stage' = stage
        BY <1>1, <1>8, <3>2
      <4>2. stage \in {"uncollected", "cached", "evicted"} /\ stageAge \in Nat
        BY <3>2, WatchdogFacts
      <4>3. TrafficGap \in Nat /\ StageTime["uncollected"] \in Nat /\ StageTime["cached"] \in Nat
        BY StageTimes
      <4>4. CASE stage = "uncollected"
        <5>1. Allowed = TrafficGap + stageAge /\ Allowed' = TrafficGap + (stageAge + 1)
          BY <4>1, <4>4 DEF Allowed
        <5> QED BY <4>2, <4>3, <5>1
      <4>5. CASE stage = "cached"
        <5>1. /\ Allowed = TrafficGap + StageTime["uncollected"] + stageAge
              /\ Allowed' = TrafficGap + StageTime["uncollected"] + (stageAge + 1)
          BY <4>1, <4>5 DEF Allowed
        <5> QED BY <4>2, <4>3, <5>1
      <4>6. CASE stage = "evicted"
        <5>1. /\ Allowed = TrafficGap + StageTime["uncollected"] + StageTime["cached"] + stageAge
              /\ Allowed' = TrafficGap + StageTime["uncollected"] + StageTime["cached"]
                              + (stageAge + 1)
          BY <4>1, <4>6 DEF Allowed
        <5> QED BY <4>2, <4>3, <5>1
      <4> QED BY <4>2, <4>4, <4>5, <4>6
    <3> QED BY <3>1, <3>2
  <2> QED BY <2>1, <2>2, <2>3
<1>9. collectionAge' # Never =>
        silence' = IF flowSentAge' = Never THEN collectionAge' ELSE flowSentAge'
  BY <1>1, <1>3 DEF WatchdogIInv
<1> QED
  BY <1>1, <1>3, <1>7, <1>8, <1>9 DEF WatchdogIInv, Timeout

\* Steps of the resource stream leave the flow watchdog alone.
LEMMA WatchdogUntouched ==
    ASSUME WatchdogIInv, UNCHANGED <<watchdogVars, flowLivenessVars>> PROVE WatchdogIInv'
<1>1. UNCHANGED <<collector, quiet, stage, stageAge, disturbed, silence,
                  flowInactivityTimeout, collectionAge, flowSentAge>>
  BY DEF watchdogVars, flowLivenessVars
<1> QED
  BY <1>1 DEF WatchdogIInv, WatchdogTypeOK, Allowed

--------------------------------------------------------------------------------
(* The history of the cluster.                                               *)

\* The constants, one by one.
LEMMA MirrorFacts ==
    /\ \A o \in Objects : KindOf[o] \in Kinds
    /\ \A o \in Objects : Initial[o] \in Values[KindOf[o]] \cup {NoValue}
    /\ KindOrder \in Seq(Kinds)
    /\ \A i, j \in 1..Len(KindOrder) : KindOrder[i] = KindOrder[j] => i = j
    /\ MaxSessions \in Nat /\ MaxWrites \in Nat /\ WireSize \in Nat
<1>1. KindOrder \in Seq(Kinds) /\ DOMAIN KindOrder = 1..Len(KindOrder)
  BY MirrorAssumption
<1> QED
  BY <1>1, MirrorAssumption

\* The last event of an object among the first p, if there is one.
LEMMA LastEvent ==
    ASSUME PipelineTypeOK, NEW o \in Objects, NEW p \in 0..Len(log[KindOf[o]]),
           {i \in 1..p : log[KindOf[o]][i].obj = o} # {}
    PROVE  Max({i \in 1..p : log[KindOf[o]][i].obj = o}) \in 1..p
<1> DEFINE own == {i \in 1..p : log[KindOf[o]][i].obj = o}
<1>1. KindOf[o] \in Kinds /\ log[KindOf[o]] \in Seq(Events)
  BY MirrorFacts DEF PipelineTypeOK
<1>2. p \in Nat /\ own \in SUBSET (0..p) /\ own \subseteq 1..p
  BY <1>1
<1>3. Max(own) \in own
  <2> HIDE DEF own
  <2>1. own # {}
    BY DEF own
  <2> QED BY <1>2, <2>1, MaxOf
<1> QED
  BY <1>2, <1>3

\* ClusterMirror has a Max of its own, with the same definition.
LEMMA SameMax == \A T : Mirror!Max(T) = Max(T)
BY DEF Max, Mirror!Max

\* An object's state after p events is a value of its kind, or none.
LEMMA StateType ==
    ASSUME PipelineTypeOK, NEW o \in Objects, NEW p \in 0..Len(log[KindOf[o]])
    PROVE  Mirror!At(o, p) \in Values[KindOf[o]] \cup {NoValue}
<1> DEFINE own == {i \in 1..p : log[KindOf[o]][i].obj = o}
<1>1. KindOf[o] \in Kinds /\ log[KindOf[o]] \in Seq(Events) /\ Len(log[KindOf[o]]) \in Nat
  BY MirrorFacts DEF PipelineTypeOK
<1>2. CASE own = {}
  BY <1>2, MirrorFacts DEF Mirror!At
<1>3. CASE own # {}
  <2>1. Max(own) \in 1..p
    BY <1>3, LastEvent
  <2>2. Mirror!At(o, p) = LET e == log[KindOf[o]][Max(own)] IN
                          IF e.deleted THEN NoValue ELSE e.val
    BY <1>3, SameMax DEF Mirror!At
  <2> HIDE DEF own
  <2>3. Max(own) \in 1..Len(log[KindOf[o]])
    BY <1>1, <2>1
  <2>4. log[KindOf[o]][Max(own)].val \in Values[KindOf[o]]
    BY <1>1, <2>3 DEF PipelineTypeOK
  <2> QED BY <2>2, <2>4
<1> QED
  BY <1>2, <1>3

\* The history of every kind only grows.
Grows ==
    \A k \in Kinds : /\ Len(log'[k]) \in Nat /\ Len(log[k]) <= Len(log'[k])
                     /\ \A i \in 1..Len(log[k]) : log'[k][i] = log[k][i]

\* What has happened stays as it was, and what may be shown of it only grows.
LEMMA PastIsFixed ==
    ASSUME PipelineTypeOK, Grows, NEW o \in Objects, NEW p \in 0..Len(log[KindOf[o]])
    PROVE  Mirror!At(o, p)' = Mirror!At(o, p)
<1> DEFINE own == {i \in 1..p : log[KindOf[o]][i].obj = o}
<1>1. KindOf[o] \in Kinds /\ Len(log[KindOf[o]]) \in Nat
  BY MirrorFacts DEF PipelineTypeOK
<1>2. \A i \in 1..p : log'[KindOf[o]][i] = log[KindOf[o]][i]
  BY <1>1 DEF Grows
<1>3. {i \in 1..p : log'[KindOf[o]][i].obj = o} = own
  BY <1>2
<1>4. own # {} => Max(own) \in 1..p
  BY LastEvent
<1>5. own # {} => log'[KindOf[o]][Max(own)] = log[KindOf[o]][Max(own)]
  BY <1>2, <1>4
<1> HIDE DEF own
<1>6. Mirror!At(o, p) = IF own = {} THEN Initial[o]
                        ELSE LET e == log[KindOf[o]][Max(own)] IN
                             IF e.deleted THEN NoValue ELSE e.val
  BY SameMax DEF own, Mirror!At
<1>7. Mirror!At(o, p)' = IF own = {} THEN Initial[o]
                         ELSE LET e == log'[KindOf[o]][Max(own)] IN
                              IF e.deleted THEN NoValue ELSE e.val
  BY <1>3, SameMax DEF Mirror!At
<1> QED
  BY <1>5, <1>6, <1>7

\* What CloudSecure may show of an object at a version, it still may when the
\* history has grown.
LEMMA ShownStaysAllowed ==
    ASSUME PipelineTypeOK, Grows, NEW o \in Objects, NEW p \in 0..Len(log[KindOf[o]]), NEW v
    PROVE  /\ Mirror!Contents(o, p, v) \subseteq Mirror!Contents(o, p, v)'
           /\ Mirror!Listed(o, p) \subseteq Mirror!Listed(o, p)'
<1>1. /\ KindOf[o] \in Kinds /\ Len(log[KindOf[o]]) \in Nat
      /\ Len(log'[KindOf[o]]) \in Nat /\ Len(log[KindOf[o]]) <= Len(log'[KindOf[o]])
  BY MirrorFacts DEF PipelineTypeOK, Grows
<1>2. \A q \in p..Len(log[KindOf[o]]) :
        q \in p..Len(log'[KindOf[o]]) /\ Mirror!At(o, q)' = Mirror!At(o, q)
  <2> SUFFICES ASSUME NEW q \in p..Len(log[KindOf[o]])
               PROVE  q \in p..Len(log'[KindOf[o]]) /\ Mirror!At(o, q)' = Mirror!At(o, q)
    OBVIOUS
  <2>1. q \in 0..Len(log[KindOf[o]]) /\ q \in p..Len(log'[KindOf[o]])
    BY <1>1
  <2> QED BY <2>1, PastIsFixed
<1>3. \A w : Mirror!Contents(o, p, w) \subseteq Mirror!Contents(o, p, w)'
  BY <1>2 DEF Mirror!Contents
<1>4. Mirror!At(o, p)' = Mirror!At(o, p)
  BY PastIsFixed
<1>5. Mirror!Listed(o, p) \subseteq Mirror!Listed(o, p)'
  BY <1>3, <1>4 DEF Mirror!Listed
<1> QED
  BY <1>3, <1>5

\* A step that leaves the cluster alone.
LEMMA SameHistory ==
    ASSUME PipelineTypeOK, log' = log PROVE Grows
BY DEF PipelineTypeOK, Grows

--------------------------------------------------------------------------------
(* The wire.                                                                 *)

\* A request is sent.
LEMMA WireAppend ==
    ASSUME PipelineTypeOK, NEW r \in Requests, wire' = Append(wire, r)
    PROVE  /\ wire' \in Seq(Requests) /\ Len(wire) \in Nat /\ Len(wire') = Len(wire) + 1
           /\ \A i \in 1..Len(wire) : wire'[i] = wire[i]
           /\ wire'[Len(wire) + 1] = r
           /\ \A type : OnWire(type)' = OnWire(type) \cup
                                        (IF r.type = type THEN {Len(wire) + 1} ELSE {})
<1>1. wire \in Seq(Requests) /\ Len(wire) \in Nat
  BY DEF PipelineTypeOK
<1>2. /\ wire' \in Seq(Requests) /\ Len(wire') = Len(wire) + 1
      /\ \A i \in 1..Len(wire) : wire'[i] = wire[i]
      /\ wire'[Len(wire) + 1] = r
  BY <1>1, AppendProperties
<1>3. \A i : i \in 1..Len(wire') <=> i \in 1..Len(wire) \/ i = Len(wire) + 1
  BY <1>1, <1>2
<1>4. ASSUME NEW type PROVE OnWire(type)' = OnWire(type) \cup
                                (IF r.type = type THEN {Len(wire) + 1} ELSE {})
  BY <1>2, <1>3 DEF OnWire
<1> QED
  BY <1>1, <1>2, <1>4

\* What an append does to the data and the events on the wire.
LEMMA AppendMeans ==
    ASSUME PipelineTypeOK, NEW r \in Requests, wire' = Append(wire, r)
    PROVE  /\ \A o : DataOn(o)' = DataOn(o) \cup
                        (IF r.type = "data" /\ r.obj = o THEN {r.val} ELSE {})
           /\ \A k : EventsOn(k)' = EventsOn(k) \cup
                        (IF r.type = "mutation" /\ KindOf[r.obj] = k THEN {r.version} ELSE {})
<1>1. /\ \A i \in 1..Len(wire) : wire'[i] = wire[i]
      /\ wire'[Len(wire) + 1] = r
      /\ \A type : OnWire(type)' = OnWire(type) \cup
                                   (IF r.type = type THEN {Len(wire) + 1} ELSE {})
  BY WireAppend
<1>2. \A type : OnWire(type) \subseteq 1..Len(wire)
  BY DEF OnWire
<1>3. ASSUME NEW o
      PROVE  DataOn(o)' = DataOn(o) \cup (IF r.type = "data" /\ r.obj = o THEN {r.val} ELSE {})
  BY <1>1, <1>2 DEF DataOn
<1>4. ASSUME NEW k
      PROVE  EventsOn(k)' = EventsOn(k) \cup
                (IF r.type = "mutation" /\ KindOf[r.obj] = k THEN {r.version} ELSE {})
  BY <1>1, <1>2 DEF EventsOn
<1> QED
  BY <1>3, <1>4

\* The server takes the first request.
LEMMA WireTail ==
    ASSUME PipelineTypeOK, wire # <<>>, wire' = Tail(wire)
    PROVE  /\ wire' \in Seq(Requests) /\ Len(wire) \in Nat \ {0} /\ Len(wire') = Len(wire) - 1
           /\ wire[1] \in Requests /\ Head(wire) = wire[1]
           /\ \A i \in 1..Len(wire') : wire'[i] = wire[i + 1]
           /\ \A type : /\ \A i \in OnWire(type)' : i \in Nat \ {0} /\ i + 1 \in OnWire(type)
                        /\ \A i \in OnWire(type) : i = 1 \/ i - 1 \in OnWire(type)'
<1>1. wire \in Seq(Requests) /\ Len(wire) \in Nat
  BY DEF PipelineTypeOK
<1>2. /\ wire' \in Seq(Requests) /\ Len(wire) \in Nat \ {0} /\ Len(wire') = Len(wire) - 1
      /\ Head(wire) = wire[1] /\ wire[1] \in Requests
      /\ \A i \in 1..Len(wire') : wire'[i] = wire[i + 1]
  BY <1>1, HeadTailProperties
<1>3. \A i \in 1..Len(wire') : i \in Nat \ {0} /\ i + 1 \in 1..Len(wire)
  BY <1>2
<1>4. \A i \in 1..Len(wire) : i = 1 \/ (i - 1 \in 1..Len(wire') /\ (i - 1) + 1 = i)
  BY <1>2
<1>5. ASSUME NEW type
      PROVE  /\ \A i \in OnWire(type)' : i \in Nat \ {0} /\ i + 1 \in OnWire(type)
             /\ \A i \in OnWire(type) : i = 1 \/ i - 1 \in OnWire(type)'
  BY <1>2, <1>3, <1>4 DEF OnWire
<1> QED
  BY <1>2, <1>5

\* What the wire loses with its first request: an object of a snapshot, or an event.
LEMMA TailMeans ==
    ASSUME PipelineTypeOK, wire # <<>>, wire' = Tail(wire)
    PROVE  /\ \A o : DataOn(o) = DataOn(o)' \cup
                  (IF wire[1].type = "data" /\ wire[1].obj = o THEN {wire[1].val} ELSE {})
           /\ \A k : EventsOn(k) = EventsOn(k)' \cup
                  (IF wire[1].type = "mutation" /\ KindOf[wire[1].obj] = k
                   THEN {wire[1].version} ELSE {})
<1>1. /\ \A i \in 1..Len(wire') : wire'[i] = wire[i + 1]
      /\ \A type : /\ \A i \in OnWire(type)' : i \in Nat \ {0} /\ i + 1 \in OnWire(type)
                   /\ \A i \in OnWire(type) : i = 1 \/ i - 1 \in OnWire(type)'
      /\ Len(wire) \in Nat \ {0}
  BY WireTail
<1>2. \A type : /\ OnWire(type)' \subseteq 1..Len(wire')
                /\ (1 \in OnWire(type) <=> wire[1].type = type)
                /\ \A i \in OnWire(type) : (i - 1) + 1 = i
  BY <1>1 DEF OnWire
<1>3. ASSUME NEW type
      PROVE  /\ \A i \in OnWire(type)' : i + 1 \in OnWire(type) /\ wire'[i] = wire[i + 1]
             /\ \A i \in OnWire(type) :
                   i = 1 \/ (i - 1 \in OnWire(type)' /\ wire'[i - 1] = wire[i])
  BY <1>1, <1>2
<1>4. ASSUME NEW o
      PROVE  DataOn(o) = DataOn(o)' \cup
                  (IF wire[1].type = "data" /\ wire[1].obj = o THEN {wire[1].val} ELSE {})
  BY <1>2, <1>3 DEF DataOn
<1>5. ASSUME NEW k
      PROVE  EventsOn(k) = EventsOn(k)' \cup
                  (IF wire[1].type = "mutation" /\ KindOf[wire[1].obj] = k
                   THEN {wire[1].version} ELSE {})
  BY <1>2, <1>3 DEF EventsOn
<1> QED
  BY <1>4, <1>5

\* The kinds of requests.
LEMMA RequestParts ==
    ASSUME NEW r \in Requests
    PROVE  /\ r.type \in {"metadata", "keepalive", "data", "complete", "mutation"}
           /\ r.type = "data" => r.obj \in Objects /\ r.val \in Vals
           /\ r.type = "complete" => r.version \in [Kinds -> Nat \cup {Unlisted}]
           /\ r.type = "mutation" => r \in Mutations
BY DEF Requests, Mutations

--------------------------------------------------------------------------------
(* What a step keeps of the parts of the invariant.                          *)

\* A mutation that is an event of its kind remains one.
LEMMA EventKept ==
    ASSUME PipelineTypeOK, Grows, NEW m \in Mutations, IsEvent(m) PROVE IsEvent(m)'
<1> DEFINE k == KindOf[m.obj]
           v == log[k][m.version].val
<1>1. m.obj \in Objects /\ k \in Kinds /\ Len(log[k]) \in Nat
  BY MirrorFacts DEF Mutations, PipelineTypeOK
<1>2. m.version \in 1..Len(log[k]) /\ m.version \in 0..Len(log[k])
  BY <1>1 DEF IsEvent
<1>3. log'[k][m.version] = log[k][m.version] /\ m.version \in 1..Len(log'[k])
  BY <1>1, <1>2 DEF Grows
<1>4. m.val \in Mirror!Contents(m.obj, m.version, v)
  BY DEF IsEvent
<1> HIDE DEF v
<1>5. m.val \in Mirror!Contents(m.obj, m.version, v)'
  <2> SUFFICES ASSUME NEW w, w = v PROVE m.val \in Mirror!Contents(m.obj, m.version, w)'
    BY <1>3 DEF v
  <2> QED BY <1>1, <1>2, <1>4, ShownStaysAllowed
<1> QED
  BY <1>3, <1>5 DEF IsEvent, v

\* An object drafted for the snapshot remains drafted.
LEMMA DraftedKept ==
    ASSUME PipelineTypeOK, Grows, NEW o \in Objects,
           NEW p \in (0..Len(log[KindOf[o]])) \cup {Unlisted}, NEW left, NEW left2,
           o \in left => o \in left2,
           Drafted(o, p, left), draft'[o] = draft[o], DataOn(o)' = DataOn(o)
    PROVE  Drafted(o, p, left2)'
<1>1. CASE p = Unlisted
  BY <1>1 DEF Drafted
<1>2. CASE p # Unlisted
  <2>1. Mirror!Listed(o, p) \subseteq Mirror!Listed(o, p)'
    BY <1>2, ShownStaysAllowed
  <2> QED BY <1>2, <2>1 DEF Drafted
<1> QED
  BY <1>1, <1>2

\* A snapshot in the making remains complete while no object of it moves.
LEMMA MakingKept ==
    ASSUME PipelineTypeOK, Grows, NEW v \in [Kinds -> Nat \cup {Unlisted}],
           NEW left, NEW left2, left \subseteq left2,
           Making(v, left), draft' = draft, at' = at,
           \A o \in Objects : DataOn(o)' = DataOn(o)
    PROVE  Making(v, left2)'
<1>1. \A k \in Kinds : /\ at[k] \in Nat /\ Len(log[k]) \in Nat /\ Len(log'[k]) \in Nat
                       /\ Len(log[k]) <= Len(log'[k])
  BY DEF PipelineTypeOK, Grows
<1>2. \A k \in Kinds : v[k] # Unlisted => v[k] \in at[k]..Len(log[k])
  BY DEF Making
<1>3. \A k \in Kinds : v[k] # Unlisted => v[k] \in at'[k]..Len(log'[k])
  BY <1>1, <1>2
<1>4. ASSUME NEW o \in Objects PROVE Drafted(o, v[KindOf[o]], left2)'
  <2>1. KindOf[o] \in Kinds
    BY MirrorFacts
  <2>2. v[KindOf[o]] \in (0..Len(log[KindOf[o]])) \cup {Unlisted}
    BY <1>1, <1>2, <2>1
  <2>3. Drafted(o, v[KindOf[o]], left)
    BY DEF Making
  <2> QED BY <2>2, <2>3, DraftedKept
<1> QED
  BY <1>3, <1>4 DEF Making

\* The chain of events of a kind stays, if neither it nor its ends change.
LEMMA ChainedKept ==
    ASSUME NEW k \in Kinds, NEW b, Chained(k, b), version'[k] = version[k],
           Handed(k)' = Handed(k), EventsOn(k)' = EventsOn(k)
    PROVE  Chained(k, b)'
BY DEF Chained

\* A step that changes nothing of what the session has sent, has yet to send or has
\* read: the cluster may have changed, and the wire may have got a keepalive.
LEMMA FrameKeeps ==
    ASSUME MirrorIInv, PipelineTypeOK', LostIsLost', Grows,
           UNCHANGED <<cur, todo, items, version, sending, draft, at, shown>>,
           \A type \in {"data", "complete", "mutation"} : OnWire(type)' = OnWire(type),
           \A i \in 1..Len(wire) : wire'[i] = wire[i],
           \A o \in Objects : DataOn(o)' = DataOn(o),
           \A k \in Kinds : EventsOn(k)' = EventsOn(k),
           Live' => Live,
           \/ run'[cur] = run[cur]
           \/ /\ run[cur] \in {"new", "discover", "metadata"}
              /\ run'[cur] \in {"new", "discover", "metadata"}
    PROVE  MirrorIInv'
<1>0. PipelineTypeOK /\ EventsInOrder /\ Starting /\ ListingIsComplete /\ CommitIsComplete
      /\ FollowingIsComplete
  BY DEF MirrorIInv
<1>1. \A type : OnWire(type) \subseteq 1..Len(wire)
  BY DEF OnWire
<1>2. wire \in Seq(Requests) /\ \A i \in 1..Len(wire) : wire[i] \in Requests
  BY <1>0, ElementOfSeq DEF PipelineTypeOK
<1>3. EventsInOrder'
  <2>1. ASSUME NEW i \in OnWire("mutation")' PROVE IsEvent(wire[i])'
    <3>1. i \in OnWire("mutation") /\ i \in 1..Len(wire) /\ wire'[i] = wire[i]
      BY <1>1
    <3>2. IsEvent(wire[i]) /\ wire[i] \in Mutations
      BY <1>0, <1>2, <3>1, RequestParts DEF EventsInOrder, OnWire
    <3> SUFFICES ASSUME NEW m, m = wire[i] PROVE IsEvent(m)'
      BY <3>1
    <3> QED BY <1>0, <3>2, EventKept
  <2>2. \A i, j \in OnWire("mutation")' :
          i < j /\ KindOf[wire'[i].obj] = KindOf[wire'[j].obj] => wire'[i].version < wire'[j].version
    BY <1>0, <1>1 DEF EventsInOrder
  <2>3. ASSUME sending # Nothing PROVE IsEvent(sending)'
    <3>1. IsEvent(sending) /\ sending \in Mutations
      BY <1>0, <2>3 DEF EventsInOrder, PipelineTypeOK
    <3> SUFFICES ASSUME NEW m, m = sending PROVE IsEvent(m)'
      OBVIOUS
    <3> QED BY <1>0, <3>1, EventKept
  <2> QED BY <1>0, <2>1, <2>2, <2>3 DEF EventsInOrder
<1>4. Starting'
  BY <1>0 DEF Starting, Live
<1>5. ListingIsComplete'
  <2> SUFFICES ASSUME Live', run'[cur'] = "list" PROVE ListingIsComplete'
    BY DEF ListingIsComplete
  <2>1. Live /\ run[cur] = "list"
    OBVIOUS
  <2>2. /\ OnWire("complete") = {} /\ OnWire("mutation") = {} /\ sending = Nothing
        /\ Making(version, Unsent)
        /\ \A i \in 1..Len(items) :
              LET o == items[i].obj IN
              /\ version[KindOf[o]] # Unlisted /\ items[i].val # NoValue
              /\ items[i].val = Mirror!At(o, version[KindOf[o]])
        /\ \A i \in 1..Len(todo) : version[todo[i]] = Unlisted
        /\ \A i, j \in 1..Len(todo) : todo[i] = todo[j] => i = j
    BY <1>0, <2>1 DEF ListingIsComplete
  <2>3. Making(version, Unsent)'
    <3>1. Unsent' = Unsent
      BY DEF Unsent
    <3> SUFFICES ASSUME NEW v, v = version, NEW left, left = Unsent PROVE Making(v, left)'
      BY <3>1
    <3> QED BY <1>0, <2>2, MakingKept DEF PipelineTypeOK
  <2>4. ASSUME NEW i \in 1..Len(items)
        PROVE  items[i].val = Mirror!At(items[i].obj, version[KindOf[items[i].obj]])'
    <3> DEFINE o == items[i].obj
    <3>0. items \in Seq(Items)
      BY <1>0 DEF PipelineTypeOK
    <3>1. o \in Objects /\ KindOf[o] \in Kinds
      <4>1. items[i] \in Items
        BY <3>0, ElementOfSeq
      <4> QED BY <4>1, MirrorFacts DEF Items
    <3>2. version[KindOf[o]] \in 0..Len(log[KindOf[o]])
      BY <1>0, <2>2, <3>1 DEF PipelineTypeOK
    <3> SUFFICES ASSUME NEW p, p = version[KindOf[o]], NEW ob, ob = o
                 PROVE  items[i].val = Mirror!At(ob, p)'
      OBVIOUS
    <3> QED BY <1>0, <2>2, <3>1, <3>2, PastIsFixed
  <2> QED BY <2>2, <2>3, <2>4 DEF ListingIsComplete
<1>6. \A k \in Kinds : Handed(k)' = Handed(k)
  BY DEF Handed
<1>7. CommitIsComplete'
  <2> SUFFICES ASSUME NEW c \in OnWire("complete")'
               PROVE  /\ run'[cur'] = "forward"
                      /\ OnWire("complete")' = {c}
                      /\ \A i \in OnWire("data")' : i < c
                      /\ \A i \in OnWire("mutation")' : i > c
                      /\ Making(wire[c].version, {})'
                      /\ \A k \in Kinds : Chained(k, wire[c].version[k])'
    BY DEF CommitIsComplete
  <2>1. /\ c \in OnWire("complete") /\ c \in 1..Len(wire) /\ wire'[c] = wire[c]
        /\ wire[c].version \in [Kinds -> Nat \cup {Unlisted}]
    BY <1>1, <1>2, RequestParts DEF OnWire
  <2>2. /\ run[cur] = "forward"
        /\ OnWire("complete") = {c}
        /\ \A i \in OnWire("data") : i < c
        /\ \A i \in OnWire("mutation") : i > c
        /\ Making(wire[c].version, {})
        /\ \A k \in Kinds : Chained(k, wire[c].version[k])
    BY <1>0, <2>1 DEF CommitIsComplete
  <2>3. Making(wire[c].version, {})'
    <3> SUFFICES ASSUME NEW v, v = wire[c].version PROVE Making(v, {})'
      BY <2>1
    <3> QED BY <1>0, <2>1, <2>2, MakingKept
  <2>4. ASSUME NEW k \in Kinds PROVE Chained(k, wire[c].version[k])'
    <3> SUFFICES ASSUME NEW b, b = wire[c].version[k] PROVE Chained(k, b)'
      BY <2>1
    <3> QED BY <1>6, <2>2, ChainedKept
  <2> QED BY <2>2, <2>3, <2>4
<1>8. FollowingIsComplete'
  <2> SUFFICES ASSUME Live', run'[cur'] = "forward", OnWire("complete")' = {}
               PROVE  /\ OnWire("data")' = {}
                      /\ \A k \in Kinds : Chained(k, IF shown[k] THEN at[k] ELSE Unlisted)'
    BY DEF FollowingIsComplete
  <2>1. Live /\ run[cur] = "forward" /\ OnWire("complete") = {}
    OBVIOUS
  <2>2. /\ OnWire("data") = {}
        /\ \A k \in Kinds : Chained(k, IF shown[k] THEN at[k] ELSE Unlisted)
    BY <1>0, <2>1 DEF FollowingIsComplete
  <2>3. ASSUME NEW k \in Kinds PROVE Chained(k, IF shown[k] THEN at[k] ELSE Unlisted)'
    <3> SUFFICES ASSUME NEW b, b = IF shown[k] THEN at[k] ELSE Unlisted PROVE Chained(k, b)'
      OBVIOUS
    <3> QED BY <1>6, <2>2, ChainedKept
  <2> QED BY <2>2, <2>3
<1> QED
  BY <1>3, <1>4, <1>5, <1>7, <1>8 DEF MirrorIInv

\* A step that leaves the wire, too.
LEMMA IdleKeeps ==
    ASSUME MirrorIInv, PipelineTypeOK', LostIsLost', Grows,
           UNCHANGED <<cur, todo, items, version, sending, draft, at, shown, wire>>,
           Live' => Live,
           \/ run'[cur] = run[cur]
           \/ /\ run[cur] \in {"new", "discover", "metadata"}
              /\ run'[cur] \in {"new", "discover", "metadata"}
    PROVE  MirrorIInv'
<1>1. /\ \A type \in {"data", "complete", "mutation"} : OnWire(type)' = OnWire(type)
      /\ \A o \in Objects : DataOn(o)' = DataOn(o)
      /\ \A k \in Kinds : EventsOn(k)' = EventsOn(k)
  BY DEF OnWire, DataOn, EventsOn
<1> QED
  BY <1>1, FrameKeeps

\* A step that loses the stream, or after which there is none.
LEMMA LossKeeps ==
    ASSUME PipelineTypeOK', LostIsLost', wire' = <<>>, ~Live',
           sending' # Nothing =>
              IsEvent(sending)' /\ sending'.version = version'[KindOf[sending'.obj]]
    PROVE  MirrorIInv'
<1>1. \A type : OnWire(type)' = {}
  BY DEF OnWire
<1> QED
  BY <1>1 DEF MirrorIInv, EventsInOrder, Starting, ListingIsComplete, CommitIsComplete,
              FollowingIsComplete

--------------------------------------------------------------------------------
(* The invariant, step by step.                                              *)

\* Steps that leave the history and the types of everything the pipeline holds.
pipelineVars == <<todo, items, version, sending, wire, draft, view, at, shown>>

\* Steps that leave the pipeline of requests alone keep its types.
LEMMA TypesKept ==
    ASSUME PipelineTypeOK, UNCHANGED pipelineVars, log' = log,
           run' \in [Sessions -> {"new", "discover", "metadata", "list", "forward", "over"}],
           ctx' \in [Sessions -> {"ok", "cancelled", "closed"}],
           watcher' \in [Kinds -> {"none", "start", "watch", "done"}],
           cur' \in 0..MaxSessions
    PROVE  PipelineTypeOK'
BY DEF PipelineTypeOK, pipelineVars

\* The cluster changes.
LEMMA WriteKeeps ==
    ASSUME MirrorIInv, NEW o \in Objects, Write(o) PROVE Grows /\ MirrorIInv'
<1> DEFINE k == KindOf[o]
<1>0. PipelineTypeOK /\ LostIsLost /\ k \in Kinds /\ log \in [Kinds -> Seq(Events)]
  BY MirrorFacts DEF MirrorIInv, PipelineTypeOK
<1>1. UNCHANGED <<run, ctx, cur, watcher, todo, items, version, sending, wire, ended, draft,
                  view, at, shown>>
  BY DEF Write, clientVars, streamVars, serverVars
<1>2. PICK e : /\ e \in [obj : {o}, val : Values[k], deleted : BOOLEAN]
               /\ log' = [log EXCEPT ![k] = Append(@, e)]
  <2>1. Len(log[k]) \in Nat /\ Len(log[k]) \in 0..Len(log[k])
    BY <1>0
  <2>2. State(o) \in Values[k] \cup {NoValue}
    BY <1>0, <2>1, StateType DEF State
  <2> QED BY <2>2 DEF Write
<1>3. e \in Events /\ e.obj = o /\ e.val \in Values[k]
  BY <1>0, <1>2 DEF Events, Vals
<1>4. ASSUME NEW j \in Kinds
      PROVE  /\ log'[j] \in Seq(Events)
             /\ Len(log[j]) \in Nat /\ Len(log'[j]) \in Nat /\ Len(log[j]) <= Len(log'[j])
             /\ \A i \in 1..Len(log[j]) : log'[j][i] = log[j][i]
             /\ \A i \in 1..Len(log'[j]) : i \in 1..Len(log[j]) \/ (j = k /\ log'[j][i] = e)
  <2>1. log[j] \in Seq(Events) /\ Len(log[j]) \in Nat
    BY <1>0
  <2>2. CASE j # k
    <3>1. log'[j] = log[j]
      BY <1>0, <1>2, <2>2
    <3> QED BY <2>1, <3>1
  <2>3. CASE j = k
    <3>1. log'[j] = Append(log[j], e)
      BY <1>0, <1>2, <2>3
    <3>2. /\ log'[j] \in Seq(Events) /\ Len(log'[j]) = Len(log[j]) + 1
          /\ \A i \in 1..Len(log[j]) : log'[j][i] = log[j][i]
          /\ log'[j][Len(log[j]) + 1] = e
      BY <1>3, <2>1, <3>1, AppendProperties
    <3>3. \A i \in 1..Len(log'[j]) : i \in 1..Len(log[j]) \/ i = Len(log[j]) + 1
      BY <2>1, <3>2
    <3> QED BY <2>1, <2>3, <3>2, <3>3
  <2> QED BY <2>2, <2>3
<1>5. Grows
  BY <1>4 DEF Grows
<1>6. log' \in [Kinds -> Seq(Events)]
  BY <1>0, <1>2, <1>4
<1>7. ASSUME NEW j \in Kinds, NEW i \in 1..Len(log'[j])
      PROVE  KindOf[log'[j][i].obj] = j /\ log'[j][i].val \in Values[j]
  <2>1. CASE i \in 1..Len(log[j])
    <3>1. log'[j][i] = log[j][i]
      BY <1>4, <2>1
    <3>2. KindOf[log[j][i].obj] = j /\ log[j][i].val \in Values[j]
      BY <1>0, <2>1 DEF PipelineTypeOK
    <3> QED BY <3>1, <3>2
  <2>2. CASE i \notin 1..Len(log[j])
    <3>1. j = k /\ log'[j][i] = e
      BY <1>4, <2>2
    <3> QED BY <1>3, <3>1
  <2> QED BY <2>1, <2>2
<1>8. \A j \in Kinds : at[j] <= Len(log'[j]) /\ version[j] <= Len(log'[j])
  <2> SUFFICES ASSUME NEW j \in Kinds PROVE at[j] <= Len(log'[j]) /\ version[j] <= Len(log'[j])
    OBVIOUS
  <2>1. /\ at[j] \in Nat /\ version[j] \in Nat \cup {-1}
        /\ at[j] <= Len(log[j]) /\ version[j] <= Len(log[j])
    BY <1>0 DEF PipelineTypeOK, Unlisted
  <2>2. Len(log[j]) \in Nat /\ Len(log'[j]) \in Nat /\ Len(log[j]) <= Len(log'[j])
    BY <1>4
  <2> QED BY <2>1, <2>2
<1>9. PipelineTypeOK'
  BY <1>0, <1>1, <1>6, <1>7, <1>8 DEF PipelineTypeOK
<1>10. LostIsLost'
  BY <1>0, <1>1 DEF LostIsLost, NothingLeft
<1> QED
  BY <1>1, <1>5, <1>9, <1>10, IdleKeeps DEF Live

\* A session opens: everything the last one had is gone.
LEMMA OpenStreamKeeps == ASSUME MirrorIInv, OpenStream PROVE MirrorIInv'
<1>0. PipelineTypeOK /\ LostIsLost
  BY DEF MirrorIInv
<1>1. /\ UNCHANGED <<log, ctx, watcher, todo, items, version, sending, wire, ended, draft,
                     view, at, shown>>
      /\ cur < MaxSessions /\ cur' = cur + 1 /\ run' = [run EXCEPT ![cur + 1] = "discover"]
      /\ cur > 0 => run[cur] = "over" \/ ctx[cur] = "closed"
  BY DEF OpenStream, Spare, clientVars, streamVars, serverVars
<1>2. /\ cur \in 0..MaxSessions /\ cur' \in 1..MaxSessions /\ cur' \in Sessions
      /\ cur' > 0 /\ cur' > cur
      /\ \A s \in Sessions : s > cur' => s > cur
  BY <1>0, <1>1, MirrorFacts DEF PipelineTypeOK, Sessions
<1>3. cur = 0 \/ run[cur] = "over" \/ ctx[cur] = "closed"
  BY <1>1, <1>2
<1>4. NothingLeft
  BY <1>0, <1>3 DEF LostIsLost
<1>5. ctx[cur'] = "ok" /\ run'[cur'] = "discover"
  BY <1>0, <1>1, <1>2 DEF LostIsLost, PipelineTypeOK
<1>6. PipelineTypeOK'
  <2>1. /\ run' \in [Sessions -> {"new", "discover", "metadata", "list", "forward", "over"}]
        /\ cur' \in 0..MaxSessions
    BY <1>0, <1>1, <1>2 DEF PipelineTypeOK
  <2> QED BY <1>0, <1>1, <2>1, TypesKept DEF PipelineTypeOK, pipelineVars
<1>7. LostIsLost'
  BY <1>0, <1>1, <1>2, <1>4, <1>5 DEF LostIsLost, NothingLeft
<1>8. \A type : OnWire(type)' = {}
  <2>1. wire' = <<>>
    BY <1>1, <1>4 DEF NothingLeft
  <2> QED BY <2>1 DEF OnWire
<1>9. EventsInOrder' /\ CommitIsComplete'
  BY <1>1, <1>4, <1>8 DEF EventsInOrder, CommitIsComplete, NothingLeft
<1>10. Starting'
  BY <1>1, <1>4, <1>8 DEF Starting, NothingLeft
<1>11. ListingIsComplete' /\ FollowingIsComplete'
  BY <1>5 DEF ListingIsComplete, FollowingIsComplete
<1> QED
  BY <1>6, <1>7, <1>9, <1>10, <1>11 DEF MirrorIInv

\* What LoseStream leaves.
LEMMA StreamLost ==
    ASSUME PipelineTypeOK, LoseStream, UNCHANGED <<log, serverVars>>,
           run' \in [Sessions -> {"new", "discover", "metadata", "list", "forward", "over"}],
           ctx' \in [Sessions -> {"ok", "cancelled", "closed"}],
           cur' \in 0..MaxSessions
    PROVE  /\ PipelineTypeOK' /\ NothingLeft' /\ wire' = <<>> /\ sending' = Nothing
           /\ \A k \in Kinds : watcher'[k] = "none"
<1>1. /\ todo' = <<>> /\ items' = <<>> /\ sending' = Nothing
      /\ version' = [k \in Kinds |-> Unlisted]
      /\ watcher' = [k \in Kinds |-> "none"]
      /\ wire' = <<>> /\ ended' = FALSE /\ draft' = [o \in Objects |-> NoValue]
      /\ UNCHANGED <<log, view, at, shown>>
  BY DEF LoseStream, FreshClient, NoDraft, serverVars
<1>2. draft' \in [Objects -> Vals] /\ NoDraft' = [o \in Objects |-> NoValue]
  <2>1. NoValue \in Vals
    BY DEF Vals
  <2>2. NoDraft' = [o \in Objects |-> NoValue]
    BY DEF NoDraft
  <2> QED BY <1>1, <2>1, <2>2
<1>3. /\ todo' \in Seq(Kinds) /\ items' \in Seq(Items) /\ wire' \in Seq(Requests)
      /\ version' \in [Kinds -> Nat \cup {Unlisted}]
      /\ watcher' \in [Kinds -> {"none", "start", "watch", "done"}]
  BY <1>1
<1>4. \A k \in Kinds : at[k] <= Len(log[k]) /\ version'[k] <= Len(log[k])
  <2> SUFFICES ASSUME NEW k \in Kinds PROVE at[k] <= Len(log[k]) /\ version'[k] <= Len(log[k])
    OBVIOUS
  <2>1. Len(log[k]) \in Nat /\ at[k] <= Len(log[k]) /\ version'[k] = -1
    BY <1>1 DEF PipelineTypeOK, Unlisted
  <2> QED BY <2>1
<1>5. PipelineTypeOK'
  BY <1>1, <1>2, <1>3, <1>4 DEF PipelineTypeOK
<1> QED
  BY <1>1, <1>2, <1>5 DEF NothingLeft

\* Run of session s returns.
LEMMA ReturnsKeeps ==
    ASSUME MirrorIInv, NEW s \in Sessions, Returns(s) PROVE MirrorIInv'
<1>0. PipelineTypeOK /\ LostIsLost
  BY DEF MirrorIInv
<1>1. /\ run' = [run EXCEPT ![s] = "over"] /\ UNCHANGED <<log, ctx, cur, serverVars>>
      /\ IF s = cur THEN LoseStream ELSE UNCHANGED <<clientVars, streamVars>>
  BY DEF Returns
<1>2. /\ run' \in [Sessions -> {"new", "discover", "metadata", "list", "forward", "over"}]
      /\ run'[s] = "over" /\ \A u \in Sessions : u # s => run'[u] = run[u]
      /\ ctx' = ctx /\ ctx \in [Sessions -> {"ok", "cancelled", "closed"}] /\ cur' = cur
      /\ cur \in 0..MaxSessions
  BY <1>0, <1>1 DEF PipelineTypeOK
<1>3. CASE s = cur
  <2>1. LoseStream
    BY <1>1, <1>3
  <2>2. /\ PipelineTypeOK' /\ NothingLeft' /\ wire' = <<>> /\ sending' = Nothing
        /\ \A k \in Kinds : watcher'[k] = "none"
    BY <1>0, <1>1, <1>2, <2>1, StreamLost
  <2>3. LostIsLost'
    BY <1>0, <1>2, <1>3, <2>2 DEF LostIsLost
  <2> QED BY <1>2, <1>3, <2>2, <2>3, LossKeeps DEF Live
<1>4. CASE s # cur
  <2>1. UNCHANGED <<log, watcher, todo, items, version, sending, wire, ended, draft,
                    view, at, shown>>
    BY <1>1, <1>4 DEF clientVars, streamVars, serverVars
  <2>2. PipelineTypeOK'
    BY <1>0, <1>2, <2>1, TypesKept DEF PipelineTypeOK, pipelineVars
  <2>3. CASE cur = 0
    <3>1. NothingLeft /\ NothingLeft'
      BY <1>0, <2>1, <2>3 DEF LostIsLost, NothingLeft
    <3>2. LostIsLost' /\ ~Live'
      BY <1>0, <1>2, <2>1, <2>3, <3>1 DEF LostIsLost, NothingLeft, Live
    <3> QED BY <2>2, <3>1, <3>2, LossKeeps DEF NothingLeft
  <2>4. CASE cur # 0
    <3>1. cur \in Sessions /\ run'[cur] = run[cur]
      BY <1>2, <1>4, <2>4, MirrorFacts DEF Sessions
    <3>2. LostIsLost'
      BY <1>0, <1>2, <2>1, <3>1 DEF LostIsLost, NothingLeft
    <3>3. Grows
      BY <1>0, <2>1, SameHistory
    <3> QED BY <1>2, <2>1, <2>2, <3>1, <3>2, <3>3, IdleKeeps DEF Live
  <2> QED BY <2>3, <2>4
<1> QED
  BY <1>3, <1>4

\* The connection is closed.
LEMMA CloseKeeps == ASSUME MirrorIInv, CloseConnection PROVE MirrorIInv'
<1>0. PipelineTypeOK /\ LostIsLost
  BY DEF MirrorIInv
<1>1. /\ cur > 0 /\ ctx' = [ctx EXCEPT ![cur] = "closed"] /\ LoseStream
      /\ UNCHANGED <<log, run, cur, serverVars>>
  BY DEF CloseConnection
<1>2. /\ cur \in Sessions /\ cur \in 0..MaxSessions
      /\ run' \in [Sessions -> {"new", "discover", "metadata", "list", "forward", "over"}]
      /\ ctx' \in [Sessions -> {"ok", "cancelled", "closed"}]
      /\ ctx'[cur] = "closed" /\ \A s \in Sessions : s # cur => ctx'[s] = ctx[s]
  <2>1. cur \in 0..MaxSessions /\ cur \in Sessions
    BY <1>0, <1>1, MirrorFacts DEF PipelineTypeOK, Sessions
  <2> QED BY <1>0, <1>1, <2>1 DEF PipelineTypeOK
<1>3. \A s \in Sessions : s > cur => s # cur
  BY <1>2, MirrorFacts DEF Sessions
<1>4. /\ PipelineTypeOK' /\ NothingLeft' /\ wire' = <<>> /\ sending' = Nothing
      /\ \A k \in Kinds : watcher'[k] = "none"
  BY <1>0, <1>1, <1>2, StreamLost
<1>5. LostIsLost'
  BY <1>0, <1>1, <1>2, <1>3, <1>4 DEF LostIsLost
<1> QED
  BY <1>1, <1>2, <1>4, <1>5, LossKeeps DEF Live

\* The latest session is still there after the step.
LEMMA StillThere ==
    ASSUME LostIsLost, cur > 0, UNCHANGED <<cur, ctx>>, ctx[cur] = "ok", run'[cur] # "over",
           ended' => wire' = <<>>, sending' # Nothing => run'[cur] = "forward",
           \A k \in Kinds : watcher'[k] \in {"start", "watch"} => version'[k] # Unlisted
    PROVE  LostIsLost'
<1>1. cur' # 0
  OBVIOUS
<1> QED
  BY <1>1 DEF LostIsLost

\* The step of a Run in its discovery.
LEMMA DiscoveredKeeps ==
    ASSUME MirrorIInv, NEW s \in Sessions, Discovered(s) PROVE MirrorIInv'
<1>0. PipelineTypeOK /\ LostIsLost
  BY DEF MirrorIInv
<1>1. /\ run[s] = "discover" /\ run' = [run EXCEPT ![s] = "metadata"]
      /\ UNCHANGED <<log, ctx, cur, watcher, todo, items, version, sending, wire, ended, draft,
                     view, at, shown>>
  BY DEF Discovered, clientVars, streamVars, serverVars
<1>2. run' \in [Sessions -> {"new", "discover", "metadata", "list", "forward", "over"}]
  BY <1>0, <1>1 DEF PipelineTypeOK
<1>3. PipelineTypeOK' /\ Grows
  BY <1>0, <1>1, <1>2, TypesKept, SameHistory DEF PipelineTypeOK, pipelineVars
<1>4. \/ run'[cur] = run[cur]
      \/ run[cur] = "discover" /\ run'[cur] = "metadata"
  BY <1>0, <1>1 DEF PipelineTypeOK
<1>5. run'[cur] = "over" <=> run[cur] = "over"
  BY <1>4
<1>6. LostIsLost'
  BY <1>0, <1>1, <1>5 DEF LostIsLost, NothingLeft
<1> QED
  BY <1>1, <1>3, <1>4, <1>5, <1>6, IdleKeeps DEF Live

\* A watcher starts, stops or starts again.
LEMMA SetWatcherKeeps ==
    ASSUME MirrorIInv, NEW k \in Kinds, NEW to \in {"start", "watch", "done"},
           SetWatcher(k, to), watcher[k] \in {"start", "watch"}
    PROVE  MirrorIInv'
<1>0. PipelineTypeOK /\ LostIsLost
  BY DEF MirrorIInv
<1>1. /\ watcher' = [watcher EXCEPT ![k] = to]
      /\ UNCHANGED <<log, run, ctx, cur, todo, items, version, sending, wire, ended, draft,
                     view, at, shown>>
  BY DEF SetWatcher, streamVars, serverVars
<1>2. /\ watcher' \in [Kinds -> {"none", "start", "watch", "done"}]
      /\ \A j \in Kinds : j # k => watcher'[j] = watcher[j]
  BY <1>0, <1>1 DEF PipelineTypeOK
<1>3. PipelineTypeOK' /\ Grows
  BY <1>0, <1>1, <1>2, TypesKept, SameHistory DEF PipelineTypeOK, pipelineVars
<1>4. LostIsLost'
  BY <1>0, <1>1, <1>2 DEF LostIsLost, NothingLeft
<1> QED
  BY <1>1, <1>3, <1>4, IdleKeeps DEF Live

\* A keepalive that fails cancels the stream.
LEMMA KeepaliveFailsKeeps == ASSUME MirrorIInv, KeepaliveFails PROVE MirrorIInv'
<1>0. PipelineTypeOK /\ LostIsLost
  BY DEF MirrorIInv
<1>1. /\ ctx' = [ctx EXCEPT ![cur] = "cancelled"] /\ ended /\ ctx[cur] = "ok" /\ cur > 0
      /\ UNCHANGED <<log, run, cur, watcher, todo, items, version, sending, wire, ended, draft,
                     view, at, shown>>
  BY DEF KeepaliveFails, clientVars, streamVars, serverVars
<1>2. cur \in Sessions /\ \A s \in Sessions : s > cur => s # cur
  BY <1>0, <1>1, MirrorFacts DEF PipelineTypeOK, Sessions
<1>3. /\ ctx' \in [Sessions -> {"ok", "cancelled", "closed"}]
      /\ ctx'[cur] = "cancelled" /\ \A s \in Sessions : s # cur => ctx'[s] = ctx[s]
  BY <1>0, <1>1, <1>2 DEF PipelineTypeOK
<1>4. PipelineTypeOK' /\ Grows
  BY <1>0, <1>1, <1>3, TypesKept, SameHistory DEF PipelineTypeOK, pipelineVars
<1>5. LostIsLost'
  BY <1>0, <1>1, <1>2, <1>3 DEF LostIsLost, NothingLeft
<1> QED
  BY <1>1, <1>4, <1>5, IdleKeeps DEF Live

\* Steps of the flows, of time, and stuttering ones.
LEMMA UntouchedKeeps ==
    ASSUME MirrorIInv, UNCHANGED <<log, run, ctx, cur, clientVars, streamVars, serverVars>>
    PROVE  MirrorIInv'
<1>0. PipelineTypeOK /\ LostIsLost
  BY DEF MirrorIInv
<1>1. UNCHANGED <<log, run, ctx, cur, watcher, todo, items, version, sending, wire, ended, draft,
                  view, at, shown>>
  BY DEF clientVars, streamVars, serverVars
<1>2. PipelineTypeOK' /\ Grows
  BY <1>0, <1>1, TypesKept, SameHistory DEF PipelineTypeOK, pipelineVars
<1>3. LostIsLost'
  BY <1>0, <1>1 DEF LostIsLost, NothingLeft
<1> QED
  BY <1>1, <1>2, <1>3, IdleKeeps DEF Live

\* What Send does.
LEMMA Sent ==
    ASSUME MirrorIInv, cur > 0, run[cur] # "over", ctx[cur] = "ok",
           NEW r \in Requests, SendToStream(r)
    PROVE  /\ Live /\ ~ended' /\ wire' = Append(wire, r) /\ draft' = draft
           /\ wire' \in Seq(Requests) /\ PipelineTypeOK /\ LostIsLost /\ cur \in Sessions
<1>0. PipelineTypeOK /\ LostIsLost
  BY DEF MirrorIInv
<1>1. ~ended /\ wire' = Append(wire, r) /\ UNCHANGED <<ended, draft>>
  BY DEF SendToStream
<1>2. cur \in Sessions
  BY <1>0, MirrorFacts DEF PipelineTypeOK, Sessions
<1> QED
  BY <1>0, <1>1, <1>2, WireAppend DEF Live

\* A keepalive on the wire shows nothing.
LEMMA SendKeepaliveKeeps == ASSUME MirrorIInv, SendKeepalive PROVE MirrorIInv'
<1> DEFINE r == [type |-> "keepalive"]
<1>1. r \in Requests /\ r.type = "keepalive"
  BY DEF Requests
<1>2. /\ cur > 0 /\ run[cur] # "over" /\ ctx[cur] = "ok" /\ SendToStream(r)
      /\ UNCHANGED <<log, run, ctx, cur, watcher, todo, items, version, sending, view, at, shown>>
  BY DEF SendKeepalive, clientVars, serverVars
<1> HIDE DEF r
<1>3. /\ Live /\ ~ended' /\ wire' = Append(wire, r) /\ draft' = draft
      /\ wire' \in Seq(Requests) /\ PipelineTypeOK /\ LostIsLost
  BY <1>1, <1>2, Sent
<1>4. PipelineTypeOK' /\ Grows
  BY <1>2, <1>3, SameHistory DEF PipelineTypeOK
<1>5. LostIsLost'
  BY <1>2, <1>3, StillThere DEF LostIsLost
<1>6. /\ \A type : OnWire(type)' = OnWire(type) \cup
                                   (IF r.type = type THEN {Len(wire) + 1} ELSE {})
      /\ \A i \in 1..Len(wire) : wire'[i] = wire[i]
  BY <1>1, <1>3, WireAppend
<1>7. /\ \A o : DataOn(o)' = DataOn(o) \cup
                        (IF r.type = "data" /\ r.obj = o THEN {r.val} ELSE {})
      /\ \A k : EventsOn(k)' = EventsOn(k) \cup
                        (IF r.type = "mutation" /\ KindOf[r.obj] = k THEN {r.version} ELSE {})
  BY <1>1, <1>3, AppendMeans
<1>8. /\ \A type \in {"data", "complete", "mutation"} : OnWire(type)' = OnWire(type)
      /\ \A o \in Objects : DataOn(o)' = DataOn(o)
      /\ \A k \in Kinds : EventsOn(k)' = EventsOn(k)
  BY <1>1, <1>6, <1>7
<1> QED
  BY <1>2, <1>3, <1>4, <1>5, <1>6, <1>8, FrameKeeps

\* The metadata is sent: the listing begins, with nothing listed.
LEMMA MetadataKeeps == ASSUME MirrorIInv, sendClusterMetadata PROVE MirrorIInv'
<1> DEFINE r == [type |-> "metadata"]
<1>1. r \in Requests /\ r.type = "metadata"
  BY DEF Requests
<1>2. /\ cur > 0 /\ run[cur] = "metadata" /\ ctx[cur] = "ok" /\ SendToStream(r)
      /\ run' = [run EXCEPT ![cur] = "list"] /\ todo' = KindOrder
      /\ UNCHANGED <<log, ctx, cur, watcher, items, version, sending, view, at, shown>>
  BY DEF sendClusterMetadata, InPhase, serverVars
<1> HIDE DEF r
<1>3. /\ Live /\ ~ended' /\ wire' = Append(wire, r) /\ draft' = draft
      /\ wire' \in Seq(Requests) /\ PipelineTypeOK /\ LostIsLost /\ cur \in Sessions
  BY <1>1, <1>2, Sent
<1>4. run' \in [Sessions -> {"new", "discover", "metadata", "list", "forward", "over"}]
      /\ run'[cur] = "list"
  BY <1>2, <1>3 DEF PipelineTypeOK
<1>5. PipelineTypeOK'
  BY <1>2, <1>3, <1>4, MirrorFacts DEF PipelineTypeOK
<1>6. LostIsLost'
  <2>1. sending = Nothing
    BY <1>2, <1>3 DEF LostIsLost
  <2> QED BY <1>2, <1>3, <1>4, <2>1, StillThere DEF LostIsLost
<1>7. /\ OnWire("data") = {} /\ OnWire("complete") = {} /\ OnWire("mutation") = {}
      /\ items = <<>> /\ sending = Nothing /\ draft = NoDraft
      /\ \A k \in Kinds : version[k] = Unlisted
  BY <1>2, <1>3 DEF MirrorIInv, Starting
<1>8. \A type : OnWire(type)' = OnWire(type) \cup
                                (IF r.type = type THEN {Len(wire) + 1} ELSE {})
  BY <1>1, <1>3, WireAppend
<1>9. OnWire("data")' = {} /\ OnWire("complete")' = {} /\ OnWire("mutation")' = {}
  BY <1>1, <1>7, <1>8
<1>10. \A o : DataOn(o)' = {}
  BY <1>9 DEF DataOn
<1>11. Making(version, Unsent)'
  <2>1. ASSUME NEW o \in Objects PROVE Drafted(o, version[KindOf[o]], Unsent)'
    <3>1. KindOf[o] \in Kinds /\ draft'[o] = NoValue /\ version'[KindOf[o]] = Unlisted
      BY <1>2, <1>3, <1>7, MirrorFacts DEF NoDraft
    <3> QED BY <1>10, <3>1 DEF Drafted
  <2>2. \A k \in Kinds : version'[k] = Unlisted
    BY <1>2, <1>7
  <2> QED BY <2>1, <2>2 DEF Making
<1>12. ListingIsComplete'
  <2>1. Len(items') = 0 /\ 1..Len(items') = {}
    BY <1>2, <1>7
  <2>2. /\ \A i \in 1..Len(todo') : version'[todo'[i]] = Unlisted
        /\ \A i, j \in 1..Len(todo') : todo'[i] = todo'[j] => i = j
    BY <1>2, <1>7, MirrorFacts, ElementOfSeq
  <2> QED BY <1>2, <1>7, <1>9, <1>11, <2>1, <2>2 DEF ListingIsComplete
<1>13. EventsInOrder' /\ Starting' /\ CommitIsComplete' /\ FollowingIsComplete'
  BY <1>2, <1>4, <1>7, <1>9
     DEF EventsInOrder, Starting, CommitIsComplete, FollowingIsComplete
<1> QED
  BY <1>5, <1>6, <1>12, <1>13 DEF MirrorIInv

\* The items of a list are the objects of the kind, as they are.
LEMMA ItemsAre ==
    ASSUME NEW k \in Kinds, NEW f \in ItemsOf(k)
    PROVE  /\ f \in Seq(Items)
           /\ \A i \in 1..Len(f) : /\ f[i].obj \in Objects /\ KindOf[f[i].obj] = k
                                   /\ State(f[i].obj) # NoValue /\ f[i].val = State(f[i].obj)
           /\ \A o \in Objects : KindOf[o] = k /\ State(o) # NoValue =>
                                 \E i \in 1..Len(f) : f[i].obj = o
<1> DEFINE present == {o \in Objects : KindOf[o] = k /\ State(o) # NoValue}
           n == Cardinality(present)
<1>1. n \in Nat
  <2>1. IsFiniteSet(Objects) /\ present \in SUBSET Objects
    BY MirrorAssumption
  <2> HIDE DEF present
  <2>2. IsFiniteSet(present)
    BY <2>1, FS_Subset
  <2> QED BY <2>2, FS_CardinalityType
<1>2. /\ f \in [1..n -> [obj : present, val : Values[k]]]
      /\ {f[i].obj : i \in DOMAIN f} = present
      /\ \A i \in DOMAIN f : f[i].val = State(f[i].obj)
  BY DEF ItemsOf
<1> HIDE DEF n
<1>3. Len(f) = n /\ DOMAIN f = 1..n
  BY <1>1, <1>2
<1>4. \A i \in 1..n : /\ f[i] \in [obj : present, val : Values[k]]
                      /\ f[i].obj \in present /\ f[i].val = State(f[i].obj)
  BY <1>2
<1>5. \A x \in [obj : present, val : Values[k]] : x \in Items
  BY DEF Items, Vals
<1>6. f \in [1..n -> Items]
  BY <1>2, <1>4, <1>5
<1>7. f \in Seq(Items)
  BY <1>1, <1>6
<1> QED
  BY <1>2, <1>3, <1>4, <1>7

\* The next kind is listed, or skipped.
LEMMA FetchKeeps == ASSUME MirrorIInv, FetchResources PROVE MirrorIInv'
<1> DEFINE k == Head(todo)
<1>0. PipelineTypeOK /\ LostIsLost
  BY DEF MirrorIInv
<1>1. /\ cur > 0 /\ run[cur] = "list" /\ ctx[cur] = "ok" /\ items = <<>> /\ todo # <<>>
      /\ todo' = Tail(todo)
      /\ UNCHANGED <<log, run, ctx, cur, watcher, sending, wire, ended, draft, view, at, shown>>
      /\ \/ items' \in ItemsOf(k) /\ version' = [version EXCEPT ![k] = Len(log[k])]
         \/ UNCHANGED <<items, version>>
  BY DEF FetchResources, Listing, InPhase, streamVars, serverVars
<1>2. /\ todo \in Seq(Kinds) /\ todo' \in Seq(Kinds) /\ Len(todo') = Len(todo) - 1
      /\ Len(todo) \in Nat \ {0} /\ k = todo[1] /\ k \in Kinds
      /\ \A i \in 1..Len(todo') : todo'[i] = todo[i + 1] /\ i + 1 \in 1..Len(todo)
                                  /\ i + 1 # 1
  <2>1. todo \in Seq(Kinds)
    BY <1>0 DEF PipelineTypeOK
  <2>2. /\ todo' \in Seq(Kinds) /\ Len(todo') = Len(todo) - 1 /\ Len(todo) \in Nat \ {0}
        /\ k = todo[1] /\ k \in Kinds
        /\ \A i \in 1..Len(todo') : todo'[i] = todo[i + 1]
    BY <1>1, <2>1, HeadTailProperties
  <2> HIDE DEF k
  <2> QED BY <2>1, <2>2
<1>3. /\ Len(log[k]) \in Nat /\ at[k] \in 0..Len(log[k])
      /\ version \in [Kinds -> Nat \cup {Unlisted}]
  BY <1>0, <1>2 DEF PipelineTypeOK
<1> HIDE DEF k
<1>4. /\ items' \in Seq(Items) /\ version' \in [Kinds -> Nat \cup {Unlisted}]
      /\ \A j \in Kinds : j # k => version'[j] = version[j]
      /\ version'[k] \in {version[k], Len(log[k])}
  <2>1. CASE items' \in ItemsOf(k) /\ version' = [version EXCEPT ![k] = Len(log[k])]
    BY <1>2, <1>3, <2>1, ItemsAre
  <2>2. CASE UNCHANGED <<items, version>>
    BY <1>0, <1>2, <2>2 DEF PipelineTypeOK
  <2> QED BY <1>1, <2>1, <2>2
<1>5. \A j \in Kinds : version'[j] <= Len(log[j])
  <2>1. \A j \in Kinds : version[j] <= Len(log[j])
    BY <1>0 DEF PipelineTypeOK
  <2> QED BY <1>3, <1>4, <2>1
<1>6. PipelineTypeOK'
  BY <1>0, <1>1, <1>2, <1>4, <1>5 DEF PipelineTypeOK
<1>7. sending = Nothing
  BY <1>0, <1>1 DEF LostIsLost
<1>8. LostIsLost'
  <2>1. \A j \in Kinds : watcher'[j] \in {"start", "watch"} => version'[j] # Unlisted
    BY <1>0, <1>1, <1>3, <1>4 DEF LostIsLost, Unlisted
  <2> QED BY <1>0, <1>1, <1>7, <2>1, StillThere DEF LostIsLost
<1>9. CASE ended
  <2>1. wire' = <<>> /\ ~Live' /\ sending' = Nothing
    BY <1>0, <1>1, <1>7, <1>9 DEF Live, LostIsLost
  <2> QED BY <1>6, <1>8, <2>1, LossKeeps
<1>10. CASE ~ended
  <2>1. /\ OnWire("complete") = {} /\ OnWire("mutation") = {}
        /\ Making(version, Unsent)
        /\ \A i \in 1..Len(todo) : version[todo[i]] = Unlisted
        /\ \A i, j \in 1..Len(todo) : todo[i] = todo[j] => i = j
    BY <1>1, <1>10 DEF MirrorIInv, ListingIsComplete, Live
  <2>2. /\ \A type : OnWire(type)' = OnWire(type)
        /\ \A o : DataOn(o)' = DataOn(o)
    BY <1>1 DEF OnWire, DataOn
  <2>3. Grows
    BY <1>0, <1>1, SameHistory
  <2>4. Unsent = {} /\ version[k] = Unlisted
    BY <1>1, <1>2, <2>1 DEF Unsent
  <2>5. \A i \in 1..Len(todo') : version'[todo'[i]] = Unlisted
    <3> SUFFICES ASSUME NEW i \in 1..Len(todo') PROVE version'[todo'[i]] = Unlisted
      OBVIOUS
    <3>1. /\ todo'[i] = todo[i + 1] /\ i + 1 \in 1..Len(todo) /\ 1 \in 1..Len(todo)
          /\ i + 1 # 1
      BY <1>2
    <3>2. todo[i + 1] # k /\ version[todo[i + 1]] = Unlisted
      BY <1>2, <2>1, <3>1
    <3>3. todo[i + 1] \in Kinds
      BY <1>2, <3>1, ElementOfSeq
    <3> QED BY <1>4, <3>1, <3>2, <3>3
  <2>6. \A i, j \in 1..Len(todo') : todo'[i] = todo'[j] => i = j
    <3> SUFFICES ASSUME NEW i \in 1..Len(todo'), NEW j \in 1..Len(todo'), todo'[i] = todo'[j]
                 PROVE  i = j
      OBVIOUS
    <3>1. /\ todo'[i] = todo[i + 1] /\ i + 1 \in 1..Len(todo)
          /\ todo'[j] = todo[j + 1] /\ j + 1 \in 1..Len(todo)
      BY <1>2
    <3>2. i + 1 = j + 1
      BY <2>1, <3>1
    <3> QED BY <3>2
  <2>7. CASE UNCHANGED <<items, version>>
    <3>1. Making(version, Unsent)'
      <4>1. Unsent' = Unsent
        BY <2>7 DEF Unsent
      <4> SUFFICES ASSUME NEW v, v = version, NEW left, left = Unsent PROVE Making(v, left)'
        BY <2>7, <4>1
      <4> QED BY <1>0, <1>1, <1>3, <2>1, <2>2, <2>3, MakingKept
    <3>2. 1..Len(items') = {}
      BY <1>1, <2>7
    <3> QED BY <1>1, <1>6, <1>7, <1>8, <2>1, <2>2, <2>5, <2>6, <3>1, <3>2
            DEF MirrorIInv, EventsInOrder, Starting, ListingIsComplete, CommitIsComplete,
                FollowingIsComplete
  <2>8. CASE items' \in ItemsOf(k) /\ version' = [version EXCEPT ![k] = Len(log[k])]
    <3>1. version'[k] = Len(log[k])
      BY <1>2, <1>3, <2>8
    <3>2. /\ \A i \in 1..Len(items') :
               /\ items'[i].obj \in Objects /\ KindOf[items'[i].obj] = k
               /\ State(items'[i].obj) # NoValue /\ items'[i].val = State(items'[i].obj)
          /\ \A o \in Objects : KindOf[o] = k /\ State(o) # NoValue =>
                                \E i \in 1..Len(items') : items'[i].obj = o
      <4> SUFFICES ASSUME NEW f, f = items'
                   PROVE  /\ \A i \in 1..Len(f) :
                               /\ f[i].obj \in Objects /\ KindOf[f[i].obj] = k
                               /\ State(f[i].obj) # NoValue /\ f[i].val = State(f[i].obj)
                          /\ \A o \in Objects : KindOf[o] = k /\ State(o) # NoValue =>
                                                \E i \in 1..Len(f) : f[i].obj = o
        OBVIOUS
      <4> QED BY <1>2, <2>8, ItemsAre
    <3>3. ASSUME NEW o \in Objects PROVE Drafted(o, version[KindOf[o]], Unsent)'
      <4>1. KindOf[o] \in Kinds /\ Drafted(o, version[KindOf[o]], Unsent)
        BY <2>1, MirrorFacts DEF Making
      <4>2. CASE KindOf[o] # k
        <5>1. /\ version'[KindOf[o]] = version[KindOf[o]]
              /\ version[KindOf[o]] \in (0..Len(log[KindOf[o]])) \cup {Unlisted}
          BY <1>0, <1>4, <4>1, <4>2 DEF PipelineTypeOK
        <5> SUFFICES ASSUME NEW p, p = version[KindOf[o]], NEW left, left = Unsent'
                     PROVE  Drafted(o, p, left)'
          BY <5>1
        <5>2. /\ Drafted(o, p, {}) /\ draft'[o] = draft[o] /\ DataOn(o)' = DataOn(o)
              /\ p \in (0..Len(log[KindOf[o]])) \cup {Unlisted}
          BY <1>1, <2>2, <2>4, <4>1, <5>1
        <5> QED BY <1>0, <2>3, <5>2, DraftedKept
      <4>3. CASE KindOf[o] = k
        <5>1. draft[o] = NoValue /\ DataOn(o) = {}
          BY <2>4, <4>1, <4>3 DEF Drafted
        <5>2. draft'[o] = NoValue /\ DataOn(o)' = {}
          BY <1>1, <2>2, <5>1
        <5>3. State(o) # NoValue => o \in Unsent'
          BY <3>2, <4>3 DEF Unsent
        <5>4. State(o) = NoValue => Mirror!Listed(o, Len(log[KindOf[o]]))' = {NoValue}
          <6>1. State(o) = Mirror!At(o, Len(log[KindOf[o]]))'
            <7>1. Len(log[KindOf[o]]) \in 0..Len(log[KindOf[o]])
              BY <1>3, <4>3
            <7> SUFFICES ASSUME NEW p, p = Len(log[KindOf[o]])
                         PROVE  Mirror!At(o, p) = Mirror!At(o, p)'
              BY <1>1 DEF State
            <7> QED BY <1>0, <2>3, <7>1, PastIsFixed
          <6> QED BY <6>1 DEF Mirror!Listed
        <5>5. version'[KindOf[o]] = Len(log'[KindOf[o]]) /\ version'[KindOf[o]] # Unlisted
          BY <1>1, <1>3, <3>1, <4>3 DEF Unlisted
        <5> SUFFICES ASSUME NEW p, p = version'[KindOf[o]] PROVE Drafted(o, p, Unsent)'
          OBVIOUS
        <5>6. State(o) = NoValue => Mirror!Listed(o, p)' = {NoValue}
          BY <5>4, <5>5
        <5> QED BY <5>2, <5>3, <5>5, <5>6 DEF Drafted
      <4> QED BY <4>2, <4>3
    <3>4. \A j \in Kinds : version'[j] # Unlisted => version'[j] \in at'[j]..Len(log'[j])
      <4>1. \A j \in Kinds : version[j] # Unlisted => version[j] \in at[j]..Len(log[j])
        BY <2>1 DEF Making
      <4> QED BY <1>1, <1>3, <1>4, <3>1, <4>1
    <3>5. Making(version, Unsent)'
      BY <3>3, <3>4 DEF Making
    <3>6. ASSUME NEW i \in 1..Len(items')
          PROVE  /\ version'[KindOf[items'[i].obj]] # Unlisted /\ items'[i].val # NoValue
                 /\ items'[i].val = Mirror!At(items[i].obj, version[KindOf[items[i].obj]])'
      <4> DEFINE o == items'[i].obj
      <4>1. o \in Objects /\ KindOf[o] = k /\ State(o) # NoValue /\ items'[i].val = State(o)
        BY <3>2
      <4>2. /\ version'[KindOf[o]] = Len(log[KindOf[o]]) /\ version'[KindOf[o]] # Unlisted
            /\ Len(log[KindOf[o]]) \in 0..Len(log[KindOf[o]])
        BY <1>3, <3>1, <4>1 DEF Unlisted
      <4>3. State(o) = Mirror!At(o, Len(log[KindOf[o]]))
        BY DEF State
      <4> SUFFICES ASSUME NEW ob, ob = items'[i].obj, NEW p, p = version'[KindOf[ob]]
                   PROVE  items'[i].val = Mirror!At(ob, p)'
        BY <4>1, <4>2
      <4>4. /\ ob \in Objects /\ p \in 0..Len(log[KindOf[ob]])
            /\ items'[i].val = Mirror!At(ob, p)
        BY <4>1, <4>2, <4>3
      <4>5. Mirror!At(ob, p)' = Mirror!At(ob, p)
        BY <1>0, <2>3, <4>4, PastIsFixed
      <4> QED BY <4>4, <4>5
    <3> QED BY <1>1, <1>6, <1>7, <1>8, <2>1, <2>2, <2>5, <2>6, <3>5, <3>6
            DEF MirrorIInv, EventsInOrder, Starting, ListingIsComplete, CommitIsComplete,
                FollowingIsComplete
  <2> QED BY <1>1, <2>7, <2>8
<1> QED BY <1>9, <1>10

\* What the converter makes of a value that o had after p events may be shown.
LEMMA ConvertedIsAllowed ==
    ASSUME PipelineTypeOK, NEW o \in Objects, NEW p \in 0..Len(log[KindOf[o]]),
           NEW v \in Vals, NEW w \in Converted(o, v)
    PROVE  w \in Mirror!Contents(o, p, v) /\ w \in Vals
<1>1. KindOf[o] \in Kinds /\ Len(log[KindOf[o]]) \in Nat
  BY MirrorFacts DEF PipelineTypeOK
<1>2. CASE KindOf[o] \notin Fetched
  BY <1>2 DEF Converted, Mirror!Contents
<1>3. CASE KindOf[o] \in Fetched
  <2>1. w = Bare \/ (w = State(o) /\ w # NoValue)
    BY <1>3 DEF Converted
  <2>2. /\ Len(log[KindOf[o]]) \in p..Len(log[KindOf[o]])
        /\ Len(log[KindOf[o]]) \in 0..Len(log[KindOf[o]])
    BY <1>1
  <2>3. State(o) = Mirror!At(o, Len(log[KindOf[o]]))
    BY DEF State
  <2>4. w \in Mirror!Contents(o, p, v)
    BY <1>3, <2>1, <2>2, <2>3 DEF Mirror!Contents
  <2>5. State(o) \in Values[KindOf[o]] \cup {NoValue}
    BY <2>2, <2>3, StateType
  <2> QED BY <1>1, <2>1, <2>4, <2>5 DEF Vals
<1> QED
  BY <1>2, <1>3

\* An item is converted and sent, or dropped as unreadable.
LEMMA ObjectDataKeeps == ASSUME MirrorIInv, SendObjectData PROVE MirrorIInv'
<1> DEFINE item == Head(items)
<1>0. PipelineTypeOK /\ LostIsLost
  BY DEF MirrorIInv
<1>1. /\ cur > 0 /\ run[cur] = "list" /\ ctx[cur] = "ok" /\ items # <<>>
      /\ items' = Tail(items)
      /\ UNCHANGED <<log, run, ctx, cur, todo, version, watcher, sending, view, at, shown>>
      /\ \/ item.val \in Unreadable /\ UNCHANGED <<wire, ended, draft>>
         \/ /\ item.val \notin Unreadable
            /\ \E v \in Converted(item.obj, item.val) :
                  SendToStream([type |-> "data", obj |-> item.obj, val |-> v])
  BY DEF SendObjectData, InPhase, streamVars, serverVars
<1>2. /\ items' \in Seq(Items) /\ Len(items) \in Nat \ {0} /\ Len(items') = Len(items) - 1
      /\ item = items[1] /\ item \in Items
      /\ \A i \in 1..Len(items') : items'[i] = items[i + 1]
  <2>1. items \in Seq(Items)
    BY <1>0 DEF PipelineTypeOK
  <2> QED BY <1>1, <2>1, HeadTailProperties
<1> HIDE DEF item
<1>3. item.obj \in Objects /\ KindOf[item.obj] \in Kinds /\ item.val \in Vals
  BY <1>2, MirrorFacts DEF Items
<1>4. Unsent \subseteq Unsent' \cup {item.obj}
  <2> SUFFICES ASSUME NEW i \in 1..Len(items), i # 1 PROVE items[i].obj \in Unsent'
    BY <1>2 DEF Unsent
  <2>1. i - 1 \in 1..Len(items') /\ (i - 1) + 1 = i
    BY <1>2
  <2> QED BY <1>2, <2>1 DEF Unsent
<1>5. sending = Nothing /\ Grows
  BY <1>0, <1>1, SameHistory DEF LostIsLost
<1>6. CASE ended
  <2>1. item.val \in Unreadable /\ UNCHANGED <<wire, ended, draft>>
    BY <1>1, <1>6 DEF SendToStream
  <2>2. PipelineTypeOK'
    BY <1>0, <1>1, <1>2, <2>1 DEF PipelineTypeOK
  <2>3. LostIsLost'
    BY <1>0, <1>1, <1>5, <2>1, StillThere DEF LostIsLost
  <2>4. wire' = <<>> /\ ~Live' /\ sending' = Nothing
    BY <1>0, <1>1, <1>5, <1>6, <2>1 DEF Live, LostIsLost
  <2> QED BY <2>2, <2>3, <2>4, LossKeeps
<1>7. CASE ~ended
  <2>0. PICK o, p : o = item.obj /\ p = version[KindOf[o]]
    OBVIOUS
  <2>1. /\ OnWire("complete") = {} /\ OnWire("mutation") = {}
        /\ Making(version, Unsent)
        /\ \A i \in 1..Len(items) :
              /\ version[KindOf[items[i].obj]] # Unlisted /\ items[i].val # NoValue
              /\ items[i].val = Mirror!At(items[i].obj, version[KindOf[items[i].obj]])
        /\ \A i \in 1..Len(todo) : version[todo[i]] = Unlisted
        /\ \A i, j \in 1..Len(todo) : todo[i] = todo[j] => i = j
    BY <1>1, <1>7 DEF MirrorIInv, ListingIsComplete, Live
  <2>2. p # Unlisted /\ item.val # NoValue /\ item.val = Mirror!At(o, p)
    <3>1. 1 \in 1..Len(items)
      BY <1>2
    <3> QED BY <1>2, <2>0, <2>1, <3>1
  <2>3. p \in 0..Len(log[KindOf[o]]) /\ o \in Objects
    BY <1>0, <1>3, <2>0, <2>2 DEF PipelineTypeOK
  <2>4. /\ wire' \in Seq(Requests) /\ draft' = draft /\ ~ended'
        /\ OnWire("complete")' = {} /\ OnWire("mutation")' = {}
        /\ \A u \in Objects : u # o => DataOn(u)' = DataOn(u)
        /\ \/ DataOn(o)' = DataOn(o) /\ item.val \in Unreadable
           \/ \E v \in Mirror!Listed(o, p) : DataOn(o)' = DataOn(o) \cup {v}
    <3>1. CASE item.val \in Unreadable /\ UNCHANGED <<wire, ended, draft>>
      <4>1. \A u : DataOn(u)' = DataOn(u)
        BY <3>1 DEF DataOn, OnWire
      <4>2. \A type : OnWire(type)' = OnWire(type)
        BY <3>1 DEF OnWire
      <4>3. wire' \in Seq(Requests)
        BY <1>0, <3>1 DEF PipelineTypeOK
      <4> QED BY <1>7, <2>1, <3>1, <4>1, <4>2, <4>3
    <3>2. ASSUME item.val \notin Unreadable, NEW v \in Converted(o, item.val),
                 SendToStream([type |-> "data", obj |-> o, val |-> v])
          PROVE  /\ wire' \in Seq(Requests) /\ draft' = draft /\ ~ended'
                 /\ OnWire("complete")' = {} /\ OnWire("mutation")' = {}
                 /\ \A u \in Objects : u # o => DataOn(u)' = DataOn(u)
                 /\ \E w \in Mirror!Listed(o, p) : DataOn(o)' = DataOn(o) \cup {w}
      <4> DEFINE r == [type |-> "data", obj |-> o, val |-> v]
      <4>1. v \in Mirror!Contents(o, p, item.val) /\ v \in Vals
        BY <1>0, <1>3, <2>3, <3>2, ConvertedIsAllowed
      <4>2. v \in Mirror!Listed(o, p)
        BY <2>2, <3>2, <4>1 DEF Mirror!Listed
      <4>3. r \in Requests /\ r.type = "data" /\ r.obj = o /\ r.val = v
        BY <2>3, <4>1 DEF Requests
      <4>4. SendToStream(r)
        BY <3>2
      <4> HIDE DEF r
      <4>5. wire' = Append(wire, r) /\ draft' = draft /\ ~ended' /\ wire' \in Seq(Requests)
        BY <1>1, <4>3, <4>4, Sent
      <4>6. \A type : OnWire(type)' = OnWire(type) \cup
                                      (IF r.type = type THEN {Len(wire) + 1} ELSE {})
        BY <1>0, <4>3, <4>5, WireAppend
      <4>7. \A u : DataOn(u)' = DataOn(u) \cup
                        (IF r.type = "data" /\ r.obj = u THEN {r.val} ELSE {})
        BY <1>0, <4>3, <4>5, AppendMeans
      <4>8. OnWire("complete")' = {} /\ OnWire("mutation")' = {}
        BY <2>1, <4>3, <4>6
      <4>9. /\ \A u \in Objects : u # o => DataOn(u)' = DataOn(u)
            /\ DataOn(o)' = DataOn(o) \cup {v}
        BY <4>3, <4>7
      <4> QED BY <4>2, <4>5, <4>8, <4>9
    <3> QED BY <1>1, <2>0, <3>1, <3>2
  <2>5. PipelineTypeOK'
    BY <1>0, <1>1, <1>2, <2>4 DEF PipelineTypeOK
  <2>6. LostIsLost'
    BY <1>0, <1>1, <1>5, <2>4, StillThere DEF LostIsLost
  <2>7. ASSUME NEW u \in Objects PROVE Drafted(u, version[KindOf[u]], Unsent)'
    <3>0. PICK q : q = version[KindOf[u]]
      OBVIOUS
    <3>1. /\ KindOf[u] \in Kinds /\ Drafted(u, q, Unsent)
          /\ q \in (0..Len(log[KindOf[u]])) \cup {Unlisted}
      BY <1>0, <2>1, <3>0, MirrorFacts DEF Making, PipelineTypeOK
    <3> SUFFICES ASSUME NEW left, left = Unsent' PROVE Drafted(u, q, left)'
      BY <1>1, <3>0
    <3>2. CASE u # o
      <4>1. DataOn(u)' = DataOn(u) /\ draft'[u] = draft[u] /\ (u \in Unsent => u \in left)
        BY <1>4, <2>0, <2>4, <3>2
      <4> QED BY <1>0, <1>5, <3>1, <4>1, DraftedKept
    <3>3. CASE u = o
      <4>1. q = p /\ q # Unlisted /\ q \in 0..Len(log[KindOf[u]])
        BY <2>0, <2>2, <2>3, <3>0, <3>3
      <4>2. Mirror!Listed(u, q) \subseteq Mirror!Listed(u, q)'
        BY <1>0, <1>5, <4>1, ShownStaysAllowed
      <4>3. /\ draft[u] \in Mirror!Listed(u, q) \cup {NoValue}
            /\ DataOn(u) \subseteq Mirror!Listed(u, q)
        BY <3>1, <4>1 DEF Drafted
      <4>4. CASE DataOn(o)' = DataOn(o) /\ item.val \in Unreadable
        <5>1. Mirror!Listed(u, q) = {NoValue}
          BY <2>2, <3>3, <4>1, <4>4 DEF Mirror!Listed
        <5>2. draft[u] \in Mirror!Listed(u, q)
          BY <4>3, <5>1
        <5> QED BY <2>4, <3>3, <4>1, <4>2, <4>3, <4>4, <5>2 DEF Drafted
      <4>5. CASE \E v \in Mirror!Listed(o, p) : DataOn(o)' = DataOn(o) \cup {v}
        <5>1. PICK v \in Mirror!Listed(o, p) : DataOn(o)' = DataOn(o) \cup {v}
          BY <4>5
        <5>2. DataOn(u)' \subseteq Mirror!Listed(u, q) /\ DataOn(u)' # {}
          BY <3>3, <4>1, <4>3, <5>1
        <5> QED BY <2>4, <4>1, <4>2, <4>3, <5>2 DEF Drafted
      <4> QED BY <2>4, <4>4, <4>5
    <3> QED BY <3>2, <3>3
  <2>8. Making(version, Unsent)'
    <3>1. \A k \in Kinds : version[k] # Unlisted => version[k] \in at[k]..Len(log[k])
      BY <2>1 DEF Making
    <3> QED BY <1>1, <2>7, <3>1 DEF Making
  <2>9. ASSUME NEW i \in 1..Len(items')
        PROVE  /\ version'[KindOf[items'[i].obj]] # Unlisted /\ items'[i].val # NoValue
               /\ items'[i].val = Mirror!At(items[i].obj, version[KindOf[items[i].obj]])'
    <3>1. items'[i] = items[i + 1] /\ i + 1 \in 1..Len(items)
      BY <1>2
    <3>2. /\ version[KindOf[items'[i].obj]] # Unlisted /\ items'[i].val # NoValue
          /\ items'[i].val = Mirror!At(items'[i].obj, version[KindOf[items'[i].obj]])
      BY <2>1, <3>1
    <3>3. items'[i] \in Items
      BY <1>2, ElementOfSeq
    <3>4. items'[i].obj \in Objects /\ KindOf[items'[i].obj] \in Kinds
      BY <3>3, MirrorFacts DEF Items
    <3>5. version[KindOf[items'[i].obj]] \in 0..Len(log[KindOf[items'[i].obj]])
      BY <1>0, <3>2, <3>4 DEF PipelineTypeOK
    <3> SUFFICES ASSUME NEW ob, ob = items'[i].obj, NEW q, q = version[KindOf[ob]]
                 PROVE  items'[i].val = Mirror!At(ob, q)'
      BY <1>1, <3>2
    <3>6. Mirror!At(ob, q)' = Mirror!At(ob, q)
      BY <1>0, <1>5, <3>4, <3>5, PastIsFixed
    <3> QED BY <3>2, <3>6
  <2> QED BY <1>1, <1>5, <2>1, <2>4, <2>5, <2>6, <2>8, <2>9
          DEF MirrorIInv, EventsInOrder, Starting, ListingIsComplete, CommitIsComplete,
              FollowingIsComplete
<1> QED
  BY <1>6, <1>7

\* The snapshot is marked as complete: the versions on the marker are those listed.
LEMMA CompleteKeeps == ASSUME MirrorIInv, sendResourceSnapshotComplete PROVE MirrorIInv'
<1> DEFINE r == [type |-> "complete", version |-> version]
<1>0. PICK c : c = Len(wire) + 1
  OBVIOUS
<1>1. /\ cur > 0 /\ run[cur] = "list" /\ ctx[cur] = "ok" /\ items = <<>> /\ todo = <<>>
      /\ SendToStream(r) /\ run' = [run EXCEPT ![cur] = "forward"]
      /\ watcher' = [k \in Kinds |-> IF version[k] = Unlisted THEN "done" ELSE "start"]
      /\ UNCHANGED <<log, ctx, cur, todo, items, version, sending, view, at, shown>>
  BY DEF sendResourceSnapshotComplete, InPhase, serverVars
<1>2. r \in Requests /\ r.type = "complete" /\ r.version = version
  BY DEF MirrorIInv, PipelineTypeOK, Requests
<1> HIDE DEF r
<1>3. /\ Live /\ ~ended' /\ wire' = Append(wire, r) /\ draft' = draft
      /\ wire' \in Seq(Requests) /\ PipelineTypeOK /\ LostIsLost /\ cur \in Sessions
  BY <1>1, <1>2, Sent
<1>4. /\ run' \in [Sessions -> {"new", "discover", "metadata", "list", "forward", "over"}]
      /\ run'[cur] = "forward"
      /\ watcher' \in [Kinds -> {"none", "start", "watch", "done"}]
  BY <1>1, <1>3 DEF PipelineTypeOK
<1>5. PipelineTypeOK' /\ Grows
  BY <1>1, <1>3, <1>4, SameHistory DEF PipelineTypeOK
<1>6. LostIsLost'
  BY <1>1, <1>3, <1>4, StillThere
<1>7. /\ OnWire("complete") = {} /\ OnWire("mutation") = {} /\ sending = Nothing
      /\ Making(version, Unsent)
  BY <1>1, <1>3 DEF MirrorIInv, ListingIsComplete
<1>8. /\ \A type : OnWire(type)' = OnWire(type) \cup (IF r.type = type THEN {c} ELSE {})
      /\ wire'[c] = r /\ c = Len(wire) + 1 /\ Len(wire) \in Nat
  BY <1>0, <1>2, <1>3, WireAppend
<1>9. OnWire("complete")' = {c} /\ OnWire("mutation")' = {} /\ OnWire("data")' = OnWire("data")
  BY <1>2, <1>7, <1>8
<1>10. \A i \in OnWire("data") : i < c
  BY <1>8 DEF OnWire
<1>11. /\ \A o : DataOn(o)' = DataOn(o)
       /\ \A k : EventsOn(k)' = {}
  <2>1. \A o : DataOn(o)' = DataOn(o) \cup
                        (IF r.type = "data" /\ r.obj = o THEN {r.val} ELSE {})
    BY <1>2, <1>3, AppendMeans
  <2>2. \A o : DataOn(o)' = DataOn(o)
    BY <1>2, <2>1
  <2>3. \A k : EventsOn(k)' = {}
    BY <1>9 DEF EventsOn
  <2> QED BY <2>2, <2>3
<1>12. wire'[c].version = version
  BY <1>2, <1>8
<1>13. Making(wire[c].version, {})'
  <2>1. Unsent = {}
    BY <1>1 DEF Unsent
  <2>2. version \in [Kinds -> Nat \cup {Unlisted}]
    BY <1>3 DEF PipelineTypeOK
  <2>3. Making(version, {})
    BY <1>7, <2>1
  <2> SUFFICES ASSUME NEW v, v = version PROVE Making(v, {})'
    BY <1>8, <1>12
  <2> QED BY <1>1, <1>3, <1>5, <1>11, <2>2, <2>3, MakingKept
<1>14. ASSUME NEW k \in Kinds PROVE Chained(k, wire[c].version[k])'
  <2>1. Handed(k)' = version[k] /\ version'[k] = version[k]
    BY <1>1, <1>7 DEF Handed
  <2>2. version[k] \in Int /\ (version[k] + 1)..version[k] = {} /\ version[k] <= version[k]
    BY <1>3 DEF PipelineTypeOK, Unlisted
  <2> SUFFICES ASSUME NEW b, b = version[k] PROVE Chained(k, b)'
    BY <1>8, <1>12
  <2> QED BY <1>11, <2>1, <2>2 DEF Chained
<1>15. CommitIsComplete'
  <2> SUFFICES ASSUME NEW d \in OnWire("complete")'
               PROVE  /\ run'[cur'] = "forward"
                      /\ OnWire("complete")' = {d}
                      /\ \A i \in OnWire("data")' : i < d
                      /\ \A i \in OnWire("mutation")' : i > d
                      /\ Making(wire[d].version, {})'
                      /\ \A k \in Kinds : Chained(k, wire[d].version[k])'
    BY DEF CommitIsComplete
  <2>1. d = c
    BY <1>9
  <2> QED BY <1>1, <1>4, <1>9, <1>10, <1>13, <1>14, <2>1
<1>16. EventsInOrder' /\ Starting' /\ ListingIsComplete' /\ FollowingIsComplete'
  BY <1>1, <1>4, <1>7, <1>9
     DEF EventsInOrder, Starting, ListingIsComplete, FollowingIsComplete
<1> QED
  BY <1>5, <1>6, <1>15, <1>16 DEF MirrorIInv

\* While the session forwards, a step that keeps what is on the wire and the chain of
\* events of every kind.
LEMMA ForwardKeeps ==
    ASSUME MirrorIInv, PipelineTypeOK', LostIsLost', EventsInOrder',
           Live, run[cur] = "forward",
           UNCHANGED <<log, run, cur, draft, at, shown>>,
           \A type \in {"data", "complete"} : OnWire(type)' = OnWire(type),
           \A i \in OnWire("mutation")' : i \in OnWire("mutation") \/ i = Len(wire) + 1,
           \A i \in 1..Len(wire) : wire'[i] = wire[i],
           \A o \in Objects : DataOn(o)' = DataOn(o),
           \A k \in Kinds : \A b \in Nat \cup {Unlisted} : Chained(k, b) => Chained(k, b)'
    PROVE  MirrorIInv'
<1>0. PipelineTypeOK /\ CommitIsComplete /\ FollowingIsComplete /\ Grows
  BY SameHistory DEF MirrorIInv
<1>1. \A type : OnWire(type) \subseteq 1..Len(wire)
  BY DEF OnWire
<1>2. wire \in Seq(Requests) /\ Len(wire) \in Nat /\ \A i \in 1..Len(wire) : wire[i] \in Requests
  <2>1. wire \in Seq(Requests)
    BY <1>0 DEF PipelineTypeOK
  <2> QED BY <2>1, ElementOfSeq
<1>3. CommitIsComplete'
  <2> SUFFICES ASSUME NEW c \in OnWire("complete")'
               PROVE  /\ run'[cur'] = "forward"
                      /\ OnWire("complete")' = {c}
                      /\ \A i \in OnWire("data")' : i < c
                      /\ \A i \in OnWire("mutation")' : i > c
                      /\ Making(wire[c].version, {})'
                      /\ \A k \in Kinds : Chained(k, wire[c].version[k])'
    BY DEF CommitIsComplete
  <2>1. /\ c \in OnWire("complete") /\ c \in 1..Len(wire) /\ wire'[c] = wire[c]
        /\ wire[c].version \in [Kinds -> Nat \cup {Unlisted}]
    BY <1>1, <1>2, RequestParts DEF OnWire
  <2>2. /\ OnWire("complete") = {c}
        /\ \A i \in OnWire("data") : i < c
        /\ \A i \in OnWire("mutation") : i > c
        /\ Making(wire[c].version, {})
        /\ \A k \in Kinds : Chained(k, wire[c].version[k])
    BY <1>0, <2>1 DEF CommitIsComplete
  <2>3. Len(wire) + 1 > c
    BY <1>2, <2>1
  <2>4. Making(wire[c].version, {})'
    <3> SUFFICES ASSUME NEW v, v = wire[c].version PROVE Making(v, {})'
      BY <2>1
    <3> QED BY <1>0, <2>1, <2>2, MakingKept
  <2>5. ASSUME NEW k \in Kinds PROVE Chained(k, wire[c].version[k])'
    <3> SUFFICES ASSUME NEW b, b = wire[c].version[k] PROVE Chained(k, b)'
      BY <2>1
    <3> QED BY <2>1, <2>2
  <2> QED BY <2>2, <2>3, <2>4, <2>5
<1>4. FollowingIsComplete'
  <2> SUFFICES ASSUME OnWire("complete")' = {}
               PROVE  /\ OnWire("data")' = {}
                      /\ \A k \in Kinds : Chained(k, IF shown[k] THEN at[k] ELSE Unlisted)'
    BY DEF FollowingIsComplete
  <2>1. /\ OnWire("data") = {}
        /\ \A k \in Kinds : Chained(k, IF shown[k] THEN at[k] ELSE Unlisted)
    BY <1>0 DEF FollowingIsComplete
  <2>2. ASSUME NEW k \in Kinds PROVE Chained(k, IF shown[k] THEN at[k] ELSE Unlisted)'
    <3> SUFFICES ASSUME NEW b, b = IF shown[k] THEN at[k] ELSE Unlisted PROVE Chained(k, b)'
      OBVIOUS
    <3>1. b \in Nat \cup {Unlisted} /\ Chained(k, b)
      BY <1>0, <2>1 DEF PipelineTypeOK
    <3> QED BY <3>1
  <2> QED BY <2>1, <2>2
<1>5. Starting' /\ ListingIsComplete'
  BY DEF Starting, ListingIsComplete
<1> QED
  BY <1>3, <1>4, <1>5 DEF MirrorIInv

\* The session that forwards has a chain of events for every kind.
LEMMA HasChain ==
    ASSUME MirrorIInv, Live, run[cur] = "forward", NEW k \in Kinds
    PROVE  \E b \in Nat \cup {Unlisted} : Chained(k, b)
<1>0. PipelineTypeOK /\ CommitIsComplete /\ FollowingIsComplete
  BY DEF MirrorIInv
<1>1. CASE OnWire("complete") = {}
  <2>1. PICK b : b = IF shown[k] THEN at[k] ELSE Unlisted
    OBVIOUS
  <2>2. b \in Nat \cup {Unlisted}
    BY <1>0, <2>1 DEF PipelineTypeOK
  <2>3. Chained(k, b)
    BY <1>0, <1>1, <2>1 DEF FollowingIsComplete
  <2> QED BY <2>2, <2>3
<1>2. CASE OnWire("complete") # {}
  <2>1. PICK c : c \in OnWire("complete")
    BY <1>2
  <2>2. c \in 1..Len(wire) /\ wire[c].type = "complete" /\ wire \in Seq(Requests)
    BY <1>0, <2>1 DEF OnWire, PipelineTypeOK
  <2>3. wire[c] \in Requests
    BY <2>2, ElementOfSeq
  <2>4. wire[c].version \in [Kinds -> Nat \cup {Unlisted}]
    BY <2>2, <2>3, RequestParts
  <2>5. Chained(k, wire[c].version[k])
    BY <1>0, <2>1 DEF CommitIsComplete
  <2> QED BY <2>4, <2>5
<1> QED
  BY <1>1, <1>2

\* A watcher hands the next event of its kind to Run.
LEMMA MutationKeeps ==
    ASSUME MirrorIInv, NEW k \in Kinds, processMutation(k) PROVE MirrorIInv'
<1>0. PipelineTypeOK /\ LostIsLost /\ EventsInOrder
  BY DEF MirrorIInv
<1>1. /\ cur > 0 /\ run[cur] = "forward" /\ ctx[cur] = "ok" /\ watcher[k] = "watch"
      /\ version[k] < Len(log[k]) /\ sending = Nothing
      /\ UNCHANGED <<log, run, ctx, cur, todo, items, watcher, wire, ended, draft, view, at, shown>>
      /\ version' = [version EXCEPT ![k] = @ + 1]
  BY DEF processMutation, EventWaits, InPhase, streamVars, serverVars
<1>2. PICK e, v : /\ e = log[k][version[k] + 1] /\ e.val \notin Unreadable
                  /\ v \in Converted(e.obj, e.val)
                  /\ sending' = [type |-> "mutation", obj |-> e.obj, val |-> v,
                                 deleted |-> e.deleted, version |-> version[k] + 1]
  BY DEF processMutation, NextEvent
<1>3. /\ version[k] \in Nat /\ Len(log[k]) \in Nat /\ log[k] \in Seq(Events)
      /\ version[k] + 1 \in 1..Len(log[k])
  <2>1. version[k] \in Nat /\ Len(log[k]) \in Nat /\ log[k] \in Seq(Events)
    BY <1>0, <1>1 DEF PipelineTypeOK, LostIsLost
  <2> QED BY <1>1, <2>1
<1>4. e \in Events /\ KindOf[e.obj] = k
  <2>1. e \in Events
    BY <1>2, <1>3, ElementOfSeq
  <2> QED BY <1>0, <1>2, <1>3, <2>1 DEF PipelineTypeOK
<1>5. e.obj \in Objects /\ e.val \in Vals /\ e.deleted \in BOOLEAN
  BY <1>4 DEF Events
<1>6. v \in Mirror!Contents(e.obj, version[k] + 1, e.val) /\ v \in Vals
  <2>1. PICK p : p = version[k] + 1
    OBVIOUS
  <2>2. p \in 0..Len(log[KindOf[e.obj]])
    BY <1>3, <1>4, <2>1
  <2> QED BY <1>0, <1>2, <1>5, <2>1, <2>2, ConvertedIsAllowed
<1>7. sending' \in Mutations /\ sending' # Nothing
  <2>1. version[k] + 1 \in Nat
    BY <1>3
  <2>2. sending' \in Mutations
    BY <1>2, <1>5, <1>6, <2>1 DEF Mutations
  <2>3. sending'.type = "mutation" /\ Nothing.type = "nothing"
    BY <1>2 DEF Nothing
  <2> QED BY <2>2, <2>3
<1>8. /\ version' \in [Kinds -> Nat \cup {Unlisted}] /\ version'[k] = version[k] + 1
      /\ \A j \in Kinds : j # k => version'[j] = version[j]
      /\ version'[k] # Unlisted /\ version[k] # Unlisted
  <2>1. version \in [Kinds -> Nat \cup {Unlisted}]
    BY <1>0 DEF PipelineTypeOK
  <2> QED BY <1>1, <1>3, <2>1 DEF Unlisted
<1>9. PipelineTypeOK'
  <2>1. \A j \in Kinds : version'[j] <= Len(log[j])
    <3>1. \A j \in Kinds : version[j] <= Len(log[j])
      BY <1>0 DEF PipelineTypeOK
    <3>2. version'[k] <= Len(log[k])
      BY <1>3, <1>8
    <3> QED BY <1>8, <3>1, <3>2
  <2> QED BY <1>0, <1>1, <1>7, <1>8, <2>1 DEF PipelineTypeOK
<1>10. LostIsLost'
  <2>1. \A j \in Kinds : watcher'[j] \in {"start", "watch"} => version'[j] # Unlisted
    BY <1>0, <1>1, <1>8 DEF LostIsLost
  <2> QED BY <1>0, <1>1, <2>1, StillThere DEF LostIsLost
<1>11. IsEvent(sending)' /\ sending'.version = version'[KindOf[sending'.obj]]
  <2>1. PICK m : m = sending'
    OBVIOUS
  <2>2. /\ m.obj = e.obj /\ m.val = v /\ m.deleted = e.deleted /\ m.version = version[k] + 1
        /\ KindOf[m.obj] = k
    BY <1>2, <1>4, <2>1
  <2>3. IsEvent(m)
    BY <1>2, <1>3, <1>6, <2>2 DEF IsEvent
  <2>4. IsEvent(m)'
    BY <1>0, <1>1, <1>7, <2>1, <2>3, EventKept, SameHistory
  <2> QED BY <1>8, <2>1, <2>2, <2>4
<1>12. CASE ended
  <2>1. wire' = <<>> /\ ~Live'
    BY <1>0, <1>1, <1>12 DEF Live, LostIsLost
  <2> QED BY <1>9, <1>10, <1>11, <2>1, LossKeeps
<1>13. CASE ~ended
  <2>1. Live
    BY <1>1, <1>13 DEF Live
  <2>2. /\ \A type : OnWire(type)' = OnWire(type)
        /\ \A o : DataOn(o)' = DataOn(o) /\ EventsOn(o)' = EventsOn(o)
    BY <1>1 DEF OnWire, DataOn, EventsOn
  <2>3. EventsInOrder'
    <3>1. ASSUME NEW i \in OnWire("mutation")' PROVE IsEvent(wire[i])'
      <4>1. i \in OnWire("mutation") /\ i \in 1..Len(wire)
        BY <2>2 DEF OnWire
      <4>2. wire \in Seq(Requests)
        BY <1>0 DEF PipelineTypeOK
      <4>3. wire[i] \in Requests
        BY <4>1, <4>2, ElementOfSeq
      <4>4. IsEvent(wire[i]) /\ wire[i] \in Mutations
        BY <1>0, <4>1, <4>3, RequestParts DEF EventsInOrder, OnWire
      <4> SUFFICES ASSUME NEW m, m = wire[i] PROVE IsEvent(m)'
        BY <1>1
      <4> QED BY <1>0, <1>1, <4>4, EventKept, SameHistory
    <3>2. \A i, j \in OnWire("mutation")' :
            i < j /\ KindOf[wire'[i].obj] = KindOf[wire'[j].obj]
                => wire'[i].version < wire'[j].version
      BY <1>0, <1>1, <2>2 DEF EventsInOrder
    <3> QED BY <1>11, <3>1, <3>2 DEF EventsInOrder
  <2>4. \A j \in Kinds : Handed(j)' = Handed(j)
    <3>1. KindOf[sending'.obj] = k
      BY <1>2, <1>4
    <3>2. Handed(k) = version[k] /\ Handed(k)' = (version[k] + 1) - 1
      BY <1>1, <1>7, <1>8, <3>1 DEF Handed
    <3>3. \A j \in Kinds : j # k => Handed(j)' = Handed(j)
      BY <1>1, <1>7, <1>8, <3>1 DEF Handed
    <3> QED BY <1>3, <3>2, <3>3
  <2>5. \A j \in Kinds : \A b \in Nat \cup {Unlisted} : Chained(j, b) => Chained(j, b)'
    <3>1. \A j \in Kinds : version'[j] = Unlisted <=> version[j] = Unlisted
      BY <1>8
    <3> QED BY <2>2, <2>4, <3>1 DEF Chained
  <2> QED BY <1>1, <1>9, <1>10, <2>1, <2>2, <2>3, <2>5, ForwardKeeps
<1> QED
  BY <1>12, <1>13

\* Run puts the event it was handed on the wire.
LEMMA ForwardMutationKeeps == ASSUME MirrorIInv, ForwardMutation PROVE MirrorIInv'
<1>0. PipelineTypeOK /\ LostIsLost /\ EventsInOrder
  BY DEF MirrorIInv
<1>1. /\ cur > 0 /\ run[cur] = "forward" /\ ctx[cur] = "ok" /\ sending # Nothing
      /\ SendToStream(sending) /\ sending' = Nothing
      /\ UNCHANGED <<log, run, ctx, cur, todo, items, version, watcher, view, at, shown>>
  BY DEF ForwardMutation, InPhase, serverVars
<1>2. PICK r : r = sending
  OBVIOUS
<1>3. PICK k : k = KindOf[r.obj]
  OBVIOUS
<1>4. /\ r \in Mutations /\ r \in Requests /\ r.type = "mutation" /\ k \in Kinds
      /\ IsEvent(r) /\ r.version = version[k]
  <2>1. r \in Mutations
    BY <1>0, <1>1, <1>2 DEF PipelineTypeOK
  <2> QED BY <1>0, <1>1, <1>2, <1>3, <2>1, MirrorFacts DEF Mutations, Requests, EventsInOrder
<1>5. /\ Live /\ ~ended' /\ wire' = Append(wire, r) /\ draft' = draft
      /\ wire' \in Seq(Requests)
  BY <1>1, <1>2, <1>4, Sent
<1>6. PipelineTypeOK'
  BY <1>0, <1>1, <1>5 DEF PipelineTypeOK
<1>7. LostIsLost'
  BY <1>0, <1>1, <1>5, StillThere DEF LostIsLost
<1>8. /\ \A type : OnWire(type)' = OnWire(type) \cup
                                   (IF r.type = type THEN {Len(wire) + 1} ELSE {})
      /\ \A i \in 1..Len(wire) : wire'[i] = wire[i]
      /\ wire'[Len(wire) + 1] = r /\ Len(wire) \in Nat
  BY <1>0, <1>4, <1>5, WireAppend
<1>9. /\ OnWire("data")' = OnWire("data") /\ OnWire("complete")' = OnWire("complete")
      /\ OnWire("mutation")' = OnWire("mutation") \cup {Len(wire) + 1}
  BY <1>4, <1>8
<1>10. /\ \A o : DataOn(o)' = DataOn(o)
       /\ EventsOn(k)' = EventsOn(k) \cup {version[k]}
       /\ \A j : j # k => EventsOn(j)' = EventsOn(j)
  <2>1. /\ \A o : DataOn(o)' = DataOn(o) \cup
                        (IF r.type = "data" /\ r.obj = o THEN {r.val} ELSE {})
        /\ \A j : EventsOn(j)' = EventsOn(j) \cup
                        (IF r.type = "mutation" /\ KindOf[r.obj] = j THEN {r.version} ELSE {})
    BY <1>0, <1>4, <1>5, AppendMeans
  <2> QED BY <1>3, <1>4, <2>1
<1>11. /\ version[k] \in Nat
       /\ Handed(k) = version[k] - 1 /\ Handed(k)' = version[k]
       /\ \A j \in Kinds : j # k => Handed(j)' = Handed(j)
  <2>1. r.version \in Nat
    BY <1>4 DEF Mutations
  <2> QED BY <1>1, <1>2, <1>3, <1>4, <2>1 DEF Handed
<1>12. \A j \in EventsOn(k) : j < version[k]
  <2>1. PICK b \in Nat \cup {Unlisted} : Chained(k, b)
    BY <1>1, <1>4, <1>5, HasChain
  <2>2. EventsOn(k) = (b + 1)..(version[k] - 1)
    BY <1>11, <2>1 DEF Chained
  <2>3. b + 1 \in Int
    BY DEF Unlisted
  <2> QED BY <1>11, <2>2, <2>3
<1>13. \A type : OnWire(type) \subseteq 1..Len(wire)
  BY DEF OnWire
<1>14. EventsInOrder'
  <2>1. ASSUME NEW i \in OnWire("mutation")' PROVE IsEvent(wire[i])'
    <3>1. CASE i = Len(wire) + 1
      <4>1. IsEvent(r)'
        BY <1>0, <1>1, <1>4, EventKept, SameHistory
      <4> QED BY <1>8, <3>1, <4>1
    <3>2. CASE i # Len(wire) + 1
      <4>1. i \in OnWire("mutation") /\ i \in 1..Len(wire) /\ wire'[i] = wire[i]
        BY <1>8, <1>9, <1>13, <3>2
      <4>2. wire \in Seq(Requests)
        BY <1>0 DEF PipelineTypeOK
      <4>3. wire[i] \in Requests
        BY <4>1, <4>2, ElementOfSeq
      <4>4. IsEvent(wire[i]) /\ wire[i] \in Mutations
        BY <1>0, <4>1, <4>3, RequestParts DEF EventsInOrder, OnWire
      <4> SUFFICES ASSUME NEW m, m = wire[i] PROVE IsEvent(m)'
        BY <4>1
      <4> QED BY <1>0, <1>1, <4>4, EventKept, SameHistory
    <3> QED BY <3>1, <3>2
  <2>2. ASSUME NEW i \in OnWire("mutation")', NEW j \in OnWire("mutation")',
               i < j, KindOf[wire'[i].obj] = KindOf[wire'[j].obj]
        PROVE  wire'[i].version < wire'[j].version
    <3>1. i \in OnWire("mutation") /\ i \in 1..Len(wire) /\ wire'[i] = wire[i]
      <4>1. i # Len(wire) + 1
        <5>1. j \in 1..(Len(wire) + 1) /\ i \in 1..(Len(wire) + 1)
          BY <1>8, <1>9, <1>13
        <5> QED BY <1>8, <2>2, <5>1
      <4> QED BY <1>8, <1>9, <1>13, <4>1
    <3>2. CASE j = Len(wire) + 1
      <4>1. wire'[j] = r /\ KindOf[wire[i].obj] = k
        BY <1>3, <1>8, <2>2, <3>1, <3>2
      <4>2. wire[i].version \in EventsOn(k)
        BY <3>1, <4>1 DEF EventsOn
      <4> QED BY <1>4, <1>12, <3>1, <4>1, <4>2
    <3>3. CASE j # Len(wire) + 1
      <4>1. j \in OnWire("mutation") /\ wire'[j] = wire[j]
        BY <1>8, <1>9, <1>13, <3>3
      <4> QED BY <1>0, <2>2, <3>1, <4>1 DEF EventsInOrder
    <3> QED BY <3>2, <3>3
  <2> QED BY <1>1, <2>1, <2>2 DEF EventsInOrder
<1>15. ASSUME NEW j \in Kinds, NEW b \in Nat \cup {Unlisted}, Chained(j, b)
       PROVE  Chained(j, b)'
  <2>1. CASE j # k
    BY <1>1, <1>10, <1>11, <1>15, <2>1, ChainedKept
  <2>2. CASE j = k
    <3>1. /\ b = Unlisted <=> version[k] = Unlisted
          /\ b <= version[k] - 1 /\ EventsOn(k) = (b + 1)..(version[k] - 1)
      BY <1>11, <1>15, <2>2 DEF Chained
    <3>2. b \in Int
      BY DEF Unlisted
    <3>3. ((b + 1)..(version[k] - 1)) \cup {version[k]} = (b + 1)..version[k]
      BY <1>11, <3>1, <3>2
    <3>4. b <= version[k]
      BY <1>11, <3>1, <3>2
    <3> QED BY <1>1, <1>10, <1>11, <2>2, <3>1, <3>3, <3>4 DEF Chained
  <2> QED BY <2>1, <2>2
<1> QED
  BY <1>1, <1>5, <1>6, <1>7, <1>8, <1>9, <1>10, <1>14, <1>15, ForwardKeeps

--------------------------------------------------------------------------------
(* What the server reads.                                                    *)

\* A server that has something to read has a session that can send.
LEMMA SenderIsLive == ASSUME MirrorIInv, wire # <<>>, ~ended PROVE Live /\ cur \in Sessions
<1>1. PipelineTypeOK /\ LostIsLost
  BY DEF MirrorIInv
<1>2. cur \in 0..MaxSessions /\ ~(cur = 0 \/ run[cur] = "over" \/ ctx[cur] = "closed")
  BY <1>1 DEF PipelineTypeOK, LostIsLost, NothingLeft
<1>3. cur > 0 /\ cur \in Sessions
  BY <1>2, MirrorFacts DEF Sessions
<1>4. ctx[cur] \in {"ok", "cancelled", "closed"} /\ ctx[cur] # "cancelled"
  BY <1>1, <1>2, <1>3 DEF PipelineTypeOK, LostIsLost
<1> QED
  BY <1>2, <1>3, <1>4 DEF Live

\* Reading a request keeps the events that follow it in order.
LEMMA TailKeepsOrder ==
    ASSUME MirrorIInv, wire # <<>>, wire' = Tail(wire), UNCHANGED <<log, version, sending>>
    PROVE  EventsInOrder'
<1>0. PipelineTypeOK /\ EventsInOrder /\ Grows
  BY SameHistory DEF MirrorIInv
<1>1. /\ \A i \in 1..Len(wire') : wire'[i] = wire[i + 1]
      /\ \A type : \A i \in OnWire(type)' : i \in Nat \ {0} /\ i + 1 \in OnWire(type)
  BY <1>0, WireTail
<1>2. \A i \in OnWire("mutation")' :
        /\ i + 1 \in OnWire("mutation") /\ wire'[i] = wire[i + 1]
        /\ i + 1 \in 1..Len(wire) /\ i \in Nat
  BY <1>1 DEF OnWire
<1>3. ASSUME NEW i \in OnWire("mutation")' PROVE IsEvent(wire[i])'
  <2>1. PICK m : m = wire'[i]
    OBVIOUS
  <2>2. wire \in Seq(Requests)
    BY <1>0 DEF PipelineTypeOK
  <2>3. wire[i + 1] \in Requests
    BY <1>2, <2>2, ElementOfSeq
  <2>4. m \in Mutations /\ IsEvent(m)
    BY <1>0, <1>2, <2>1, <2>3, RequestParts DEF EventsInOrder, OnWire
  <2>5. IsEvent(m)'
    BY <1>0, <2>4, EventKept
  <2> QED BY <2>1, <2>5
<1>4. ASSUME NEW i \in OnWire("mutation")', NEW j \in OnWire("mutation")',
             i < j, KindOf[wire'[i].obj] = KindOf[wire'[j].obj]
      PROVE  wire'[i].version < wire'[j].version
  <2>1. i + 1 < j + 1
    BY <1>2, <1>4
  <2> QED BY <1>0, <1>2, <1>4, <2>1 DEF EventsInOrder
<1>5. ASSUME sending # Nothing PROVE IsEvent(sending)'
  <2>1. PICK m : m = sending
    OBVIOUS
  <2>2. m \in Mutations /\ IsEvent(m)
    BY <1>0, <1>5, <2>1 DEF EventsInOrder, PipelineTypeOK
  <2>3. IsEvent(m)'
    BY <1>0, <2>2, EventKept
  <2> QED BY <2>1, <2>3
<1> QED
  BY <1>0, <1>3, <1>4, <1>5 DEF EventsInOrder

\* A request is read that is neither a marker nor an event.
LEMMA PlainReadKeeps ==
    ASSUME MirrorIInv, PipelineTypeOK', LostIsLost', Live,
           wire # <<>>, wire' = Tail(wire), wire[1].type \notin {"complete", "mutation"},
           UNCHANGED <<log, run, ctx, cur, todo, items, version, sending, ended, at, shown>>,
           wire[1].type # "data" => draft' = draft,
           \A v \in [Kinds -> Nat \cup {Unlisted}] : \A left : Making(v, left) => Making(v, left)'
    PROVE  MirrorIInv'
<1>0. PipelineTypeOK /\ EventsInOrder /\ Starting /\ ListingIsComplete /\ CommitIsComplete
      /\ FollowingIsComplete /\ Grows
  BY SameHistory DEF MirrorIInv
<1>1. /\ \A i \in 1..Len(wire') : wire'[i] = wire[i + 1]
      /\ \A type : /\ \A i \in OnWire(type)' : i \in Nat \ {0} /\ i + 1 \in OnWire(type)
                   /\ \A i \in OnWire(type) : i = 1 \/ i - 1 \in OnWire(type)'
      /\ wire' \in Seq(Requests) /\ Len(wire) \in Nat \ {0}
  BY <1>0, WireTail
<1>2. \A type : OnWire(type) = {} => OnWire(type)' = {}
  BY <1>1
<1>3. OnWire("complete")' = {} => OnWire("complete") = {}
  <2>1. 1 \notin OnWire("complete")
    BY DEF OnWire
  <2> QED BY <1>1, <2>1
<1>4. /\ \A k : EventsOn(k)' = EventsOn(k)
      /\ wire[1].type # "data" => \A o : DataOn(o)' = DataOn(o)
  <2>1. /\ \A o : DataOn(o) = DataOn(o)' \cup
                  (IF wire[1].type = "data" /\ wire[1].obj = o THEN {wire[1].val} ELSE {})
        /\ \A k : EventsOn(k) = EventsOn(k)' \cup
                  (IF wire[1].type = "mutation" /\ KindOf[wire[1].obj] = k
                   THEN {wire[1].version} ELSE {})
    BY <1>0, TailMeans
  <2> QED BY <2>1
<1>5. wire[1].type = "data" => OnWire("data") # {}
  BY <1>1 DEF OnWire
<1>6. EventsInOrder'
  BY TailKeepsOrder
<1>7. \A k \in Kinds : Handed(k)' = Handed(k)
  BY DEF Handed
<1>8. Starting'
  <2> SUFFICES ASSUME Live', run'[cur'] \in {"new", "discover", "metadata"} PROVE Starting'
    BY DEF Starting
  <2>1. /\ OnWire("data") = {} /\ OnWire("complete") = {} /\ OnWire("mutation") = {}
        /\ todo = <<>> /\ items = <<>> /\ sending = Nothing /\ draft = NoDraft
        /\ \A k \in Kinds : version[k] = Unlisted
    BY <1>0 DEF Starting
  <2>2. draft' = NoDraft
    BY <1>5, <2>1
  <2> QED BY <1>2, <2>1, <2>2 DEF Starting, NoDraft
<1>9. ListingIsComplete'
  <2> SUFFICES ASSUME Live', run'[cur'] = "list" PROVE ListingIsComplete'
    BY DEF ListingIsComplete
  <2>1. /\ OnWire("complete") = {} /\ OnWire("mutation") = {} /\ sending = Nothing
        /\ Making(version, Unsent)
        /\ \A i \in 1..Len(items) :
              /\ version[KindOf[items[i].obj]] # Unlisted /\ items[i].val # NoValue
              /\ items[i].val = Mirror!At(items[i].obj, version[KindOf[items[i].obj]])
        /\ \A i \in 1..Len(todo) : version[todo[i]] = Unlisted
        /\ \A i, j \in 1..Len(todo) : todo[i] = todo[j] => i = j
    BY <1>0 DEF ListingIsComplete
  <2>2. Making(version, Unsent)'
    <3>1. Unsent' = Unsent /\ version \in [Kinds -> Nat \cup {Unlisted}]
      BY <1>0 DEF Unsent, PipelineTypeOK
    <3> SUFFICES ASSUME NEW v, v = version, NEW left, left = Unsent PROVE Making(v, left)'
      BY <3>1
    <3> QED BY <2>1, <3>1
  <2>3. ASSUME NEW i \in 1..Len(items)
        PROVE  items[i].val = Mirror!At(items[i].obj, version[KindOf[items[i].obj]])'
    <3>1. items \in Seq(Items)
      BY <1>0 DEF PipelineTypeOK
    <3>2. items[i] \in Items
      BY <3>1, ElementOfSeq
    <3>3. items[i].obj \in Objects /\ KindOf[items[i].obj] \in Kinds
      BY <3>2, MirrorFacts DEF Items
    <3>4. version[KindOf[items[i].obj]] \in 0..Len(log[KindOf[items[i].obj]])
      BY <1>0, <2>1, <3>3 DEF PipelineTypeOK
    <3> SUFFICES ASSUME NEW ob, ob = items[i].obj, NEW q, q = version[KindOf[ob]]
                 PROVE  items[i].val = Mirror!At(ob, q)'
      OBVIOUS
    <3>5. Mirror!At(ob, q)' = Mirror!At(ob, q)
      BY <1>0, <3>3, <3>4, PastIsFixed
    <3> QED BY <2>1, <3>5
  <2> QED BY <1>2, <2>1, <2>2, <2>3 DEF ListingIsComplete
<1>10. CommitIsComplete'
  <2> SUFFICES ASSUME NEW d \in OnWire("complete")'
               PROVE  /\ run'[cur'] = "forward"
                      /\ OnWire("complete")' = {d}
                      /\ \A i \in OnWire("data")' : i < d
                      /\ \A i \in OnWire("mutation")' : i > d
                      /\ Making(wire[d].version, {})'
                      /\ \A k \in Kinds : Chained(k, wire[d].version[k])'
    BY DEF CommitIsComplete
  <2>1. PICK c : c = d + 1
    OBVIOUS
  <2>2. /\ c \in OnWire("complete") /\ d \in Nat /\ wire'[d] = wire[c]
        /\ wire[c].type = "complete" /\ c \in 1..Len(wire)
    BY <1>1, <2>1 DEF OnWire
  <2>3. /\ run[cur] = "forward"
        /\ OnWire("complete") = {c}
        /\ \A i \in OnWire("data") : i < c
        /\ \A i \in OnWire("mutation") : i > c
        /\ Making(wire[c].version, {})
        /\ \A k \in Kinds : Chained(k, wire[c].version[k])
    BY <1>0, <2>2 DEF CommitIsComplete
  <2>4. wire[c].version \in [Kinds -> Nat \cup {Unlisted}]
    <3>1. wire \in Seq(Requests)
      BY <1>0 DEF PipelineTypeOK
    <3>2. wire[c] \in Requests
      BY <2>2, <3>1, ElementOfSeq
    <3> QED BY <2>2, <3>2, RequestParts
  <2>5. /\ OnWire("complete")' = {d}
        /\ \A i \in OnWire("data")' : i < d
        /\ \A i \in OnWire("mutation")' : i > d
    <3>1. \A i \in OnWire("complete")' : i \in Nat /\ i + 1 = d + 1
      BY <1>1, <2>1, <2>3
    <3>2. \A i \in OnWire("data")' : i \in Nat /\ i + 1 < d + 1
      BY <1>1, <2>1, <2>3
    <3>3. \A i \in OnWire("mutation")' : i \in Nat /\ i + 1 > d + 1
      BY <1>1, <2>1, <2>3
    <3>4. d \in Nat
      BY <2>2
    <3>5. \A i \in OnWire("complete")' : i = d
      BY <3>1, <3>4
    <3>6. OnWire("complete")' = {d}
      BY <3>5
    <3>7. \A i \in OnWire("data")' : i < d
      BY <3>2, <3>4
    <3>8. \A i \in OnWire("mutation")' : i > d
      BY <3>3, <3>4
    <3> QED BY <3>6, <3>7, <3>8
  <2>6. Making(wire[d].version, {})'
    <3> SUFFICES ASSUME NEW v, v = wire[c].version PROVE Making(v, {})'
      BY <2>2
    <3> QED BY <2>3, <2>4
  <2>7. ASSUME NEW k \in Kinds PROVE Chained(k, wire[d].version[k])'
    <3> SUFFICES ASSUME NEW b, b = wire[c].version[k] PROVE Chained(k, b)'
      BY <2>2
    <3> QED BY <1>4, <1>7, <2>3, ChainedKept
  <2> QED BY <2>3, <2>5, <2>6, <2>7
<1>11. FollowingIsComplete'
  <2> SUFFICES ASSUME Live', run'[cur'] = "forward", OnWire("complete")' = {}
               PROVE  /\ OnWire("data")' = {}
                      /\ \A k \in Kinds : Chained(k, IF shown[k] THEN at[k] ELSE Unlisted)'
    BY DEF FollowingIsComplete
  <2>1. /\ OnWire("data") = {}
        /\ \A k \in Kinds : Chained(k, IF shown[k] THEN at[k] ELSE Unlisted)
    BY <1>0, <1>3 DEF FollowingIsComplete
  <2>2. ASSUME NEW k \in Kinds PROVE Chained(k, IF shown[k] THEN at[k] ELSE Unlisted)'
    <3> SUFFICES ASSUME NEW b, b = IF shown[k] THEN at[k] ELSE Unlisted PROVE Chained(k, b)'
      OBVIOUS
    <3> QED BY <1>4, <1>7, <2>1, ChainedKept
  <2> QED BY <1>2, <2>1, <2>2
<1> QED
  BY <1>6, <1>8, <1>9, <1>10, <1>11 DEF MirrorIInv

\* An object is read into the draft: the snapshot in the making stays complete.
LEMMA DataReadMaking ==
    ASSUME PipelineTypeOK, log' = log, at' = at, wire # <<>>, wire' = Tail(wire),
           wire[1].type = "data", draft' = [draft EXCEPT ![wire[1].obj] = wire[1].val],
           NEW v \in [Kinds -> Nat \cup {Unlisted}], NEW left, Making(v, left)
    PROVE  Making(v, left)'
<1>1. PICK o, w : o = wire[1].obj /\ w = wire[1].val
  OBVIOUS
<1>2. /\ \A u : DataOn(u) = DataOn(u)' \cup
              (IF wire[1].type = "data" /\ wire[1].obj = u THEN {wire[1].val} ELSE {})
      /\ wire[1] \in Requests
  BY TailMeans, WireTail
<1>3. o \in Objects /\ w \in Vals
  BY <1>1, <1>2, RequestParts
<1>4. /\ DataOn(o) = DataOn(o)' \cup {w}
      /\ \A u : u # o => DataOn(u)' = DataOn(u)
  BY <1>1, <1>2
<1>5. draft'[o] = w /\ \A u \in Objects : u # o => draft'[u] = draft[u]
  BY <1>1, <1>3 DEF PipelineTypeOK
<1>6. \A k \in Kinds : v[k] # Unlisted => v[k] \in at[k]..Len(log[k])
  BY DEF Making
<1>7. ASSUME NEW u \in Objects PROVE Drafted(u, v[KindOf[u]], left)'
  <2>1. PICK p : p = v[KindOf[u]]
    OBVIOUS
  <2>2. /\ Drafted(u, p, left)
        /\ p \in (0..Len(log[KindOf[u]])) \cup {Unlisted}
    <3>1. /\ KindOf[u] \in Kinds /\ at[KindOf[u]] \in Nat /\ Len(log[KindOf[u]]) \in Nat
          /\ p \in Nat \cup {Unlisted}
      BY <2>1, MirrorFacts DEF PipelineTypeOK
    <3> QED BY <1>6, <2>1, <3>1 DEF Making
  <2>3. CASE u # o
    BY <1>4, <1>5, <2>1, <2>2, <2>3, DraftedKept, SameHistory
  <2>4. CASE u = o
    <3>1. p # Unlisted
      BY <1>4, <2>2, <2>4 DEF Drafted
    <3>2. DataOn(o) \subseteq Mirror!Listed(o, p)
      BY <2>2, <2>4, <3>1 DEF Drafted
    <3>3. Mirror!Listed(o, p) \subseteq Mirror!Listed(o, p)'
      BY <1>3, <2>2, <2>4, <3>1, ShownStaysAllowed, SameHistory
    <3>4. draft'[o] \in Mirror!Listed(o, p)' /\ DataOn(o)' \subseteq Mirror!Listed(o, p)'
      BY <1>4, <1>5, <3>2, <3>3
    <3>5. Drafted(o, p, left)'
      BY <3>1, <3>4 DEF Drafted
    <3> QED BY <2>1, <2>4, <3>5
  <2> QED BY <2>3, <2>4
<1> QED
  BY <1>6, <1>7 DEF Making

\* The marker is read: the draft is a snapshot of the versions it carries.
LEMMA MarkerReadKeeps ==
    ASSUME MirrorIInv, Live, wire # <<>>, wire' = Tail(wire), wire[1].type = "complete",
           UNCHANGED <<log, run, ctx, cur, todo, items, version, watcher, sending, ended>>,
           Applied(wire[1])
    PROVE  MirrorIInv' /\ Mirror!Snapshot
<1>0. PipelineTypeOK /\ LostIsLost /\ CommitIsComplete
  BY DEF MirrorIInv
<1>1. /\ wire' \in Seq(Requests) /\ wire[1] \in Requests
      /\ \A i \in 1..Len(wire') : wire'[i] = wire[i + 1]
      /\ \A type : \A i \in OnWire(type)' : i \in Nat \ {0} /\ i + 1 \in OnWire(type)
      /\ Len(wire) \in Nat \ {0}
  BY <1>0, WireTail
<1>2. PICK v : v = wire[1].version
  OBVIOUS
<1>3. v \in [Kinds -> Nat \cup {Unlisted}]
  BY <1>1, <1>2, RequestParts
<1>4. /\ snapshots' = snapshots + 1 /\ view' = draft /\ draft' = NoDraft
      /\ shown' = [k \in Kinds |-> v[k] # Unlisted]
      /\ at' = [k \in Kinds |-> IF shown'[k] THEN v[k] ELSE at[k]]
  BY <1>2 DEF Applied
<1>5. 1 \in OnWire("complete")
  BY <1>1 DEF OnWire
<1>6. /\ run[cur] = "forward"
      /\ OnWire("complete") = {1}
      /\ \A i \in OnWire("data") : i < 1
      /\ Making(v, {})
      /\ \A k \in Kinds : Chained(k, v[k])
  BY <1>0, <1>2, <1>5 DEF CommitIsComplete
<1>7. OnWire("data") = {} /\ \A o : DataOn(o) = {}
  <2>1. \A i \in OnWire("data") : i \in Nat \ {0}
    BY <1>1 DEF OnWire
  <2>2. OnWire("data") = {}
    BY <1>6, <2>1
  <2> QED BY <2>2 DEF DataOn
<1>8. OnWire("data")' = {} /\ OnWire("complete")' = {}
  <2>1. OnWire("data")' = {}
    BY <1>1, <1>7
  <2>2. \A i \in OnWire("complete")' : i \in Nat \ {0} /\ i + 1 = 1
    BY <1>1, <1>6
  <2> QED BY <2>1, <2>2
<1>9. \A k \in Kinds : v[k] # Unlisted => v[k] \in at[k]..Len(log[k])
  BY <1>6 DEF Making
<1>10. PipelineTypeOK'
  <2>1. NoValue \in Vals
    BY DEF Vals
  <2>2. draft' \in [Objects -> Vals] /\ view' \in [Objects -> Vals]
    BY <1>0, <1>4, <2>1 DEF PipelineTypeOK, NoDraft
  <2>3. shown' \in [Kinds -> BOOLEAN] /\ at' \in [Kinds -> Nat]
    <3>1. \A k \in Kinds : at[k] \in Nat /\ v[k] \in Nat \cup {Unlisted}
      BY <1>0, <1>3 DEF PipelineTypeOK
    <3> QED BY <1>4, <3>1
  <2>4. \A k \in Kinds : at'[k] <= Len(log[k])
    <3> SUFFICES ASSUME NEW k \in Kinds PROVE at'[k] <= Len(log[k])
      OBVIOUS
    <3>1. at[k] \in Nat /\ Len(log[k]) \in Nat /\ at[k] <= Len(log[k])
      BY <1>0 DEF PipelineTypeOK
    <3>2. at'[k] = IF v[k] # Unlisted THEN v[k] ELSE at[k]
      BY <1>4
    <3> QED BY <1>9, <3>1, <3>2
  <2> QED BY <1>0, <1>1, <2>2, <2>3, <2>4 DEF PipelineTypeOK
<1>11. LostIsLost'
  BY <1>0, StillThere DEF Live, LostIsLost
<1>12. EventsInOrder'
  BY TailKeepsOrder
<1>13. Starting' /\ ListingIsComplete' /\ CommitIsComplete'
  BY <1>6, <1>8 DEF Starting, ListingIsComplete, CommitIsComplete
<1>14. FollowingIsComplete'
  <2>1. ASSUME NEW k \in Kinds PROVE Chained(k, IF shown[k] THEN at[k] ELSE Unlisted)'
    <3>1. (IF shown'[k] THEN at'[k] ELSE Unlisted) = v[k]
      BY <1>4
    <3>2. \A j : EventsOn(j)' = EventsOn(j)
      <4>1. \A j : EventsOn(j) = EventsOn(j)' \cup
                      (IF wire[1].type = "mutation" /\ KindOf[wire[1].obj] = j
                       THEN {wire[1].version} ELSE {})
        BY <1>0, TailMeans
      <4> QED BY <4>1
    <3>3. Handed(k)' = Handed(k)
      BY DEF Handed
    <3> SUFFICES ASSUME NEW b, b = v[k] PROVE Chained(k, b)'
      BY <3>1
    <3> QED BY <1>6, <3>2, <3>3, ChainedKept
  <2> QED BY <1>8, <2>1 DEF FollowingIsComplete
<1>15. Mirror!Snapshot
  <2>1. ASSUME NEW k \in Kinds
        PROVE  at'[k] \in IF shown'[k] THEN at[k]..Len(log[k]) ELSE {at[k]}
    BY <1>4, <1>9
  <2>2. ASSUME NEW o \in Objects
        PROVE  view'[o] \in IF shown'[KindOf[o]] THEN Mirror!Listed(o, at'[KindOf[o]])
                            ELSE {NoValue}
    <3>1. PICK p : p = v[KindOf[o]]
      OBVIOUS
    <3>2. KindOf[o] \in Kinds /\ Drafted(o, p, {}) /\ DataOn(o) = {} /\ view'[o] = draft[o]
      BY <1>4, <1>6, <1>7, <3>1, MirrorFacts DEF Making
    <3>3. shown'[KindOf[o]] <=> p # Unlisted
      BY <1>4, <3>1, <3>2
    <3>4. p # Unlisted => at'[KindOf[o]] = p
      BY <1>4, <3>1, <3>2
    <3>5. CASE p = Unlisted
      BY <3>2, <3>3, <3>5 DEF Drafted
    <3>6. CASE p # Unlisted
      <4>1. draft[o] \in Mirror!Listed(o, p)
        BY <3>2, <3>6 DEF Drafted
      <4> QED BY <3>2, <3>3, <3>4, <3>6, <4>1
    <3> QED BY <3>5, <3>6
  <2> QED BY <1>4, <2>1, <2>2 DEF Mirror!Snapshot
<1> QED
  BY <1>10, <1>11, <1>12, <1>13, <1>14, <1>15 DEF MirrorIInv

\* An event is read: it is the next one of its kind.
LEMMA EventReadKeeps ==
    ASSUME MirrorIInv, Live, wire # <<>>, wire' = Tail(wire), wire[1].type = "mutation",
           UNCHANGED <<log, run, ctx, cur, todo, items, version, watcher, sending, ended>>,
           Applied(wire[1])
    PROVE  MirrorIInv' /\ \E k \in Kinds : Mirror!Advance(k)
<1>0. PipelineTypeOK /\ LostIsLost /\ EventsInOrder /\ Starting /\ ListingIsComplete
      /\ CommitIsComplete /\ FollowingIsComplete
  BY DEF MirrorIInv
<1>1. /\ wire' \in Seq(Requests) /\ wire[1] \in Requests
      /\ \A i \in 1..Len(wire') : wire'[i] = wire[i + 1]
      /\ \A type : \A i \in OnWire(type)' : i \in Nat \ {0} /\ i + 1 \in OnWire(type)
      /\ Len(wire) \in Nat \ {0}
  BY <1>0, WireTail
<1>2. PICK m : m = wire[1]
  OBVIOUS
<1>3. PICK k : k = KindOf[m.obj]
  OBVIOUS
<1>4. /\ m \in Mutations /\ m.obj \in Objects /\ m.version \in Nat /\ m.val \in Vals
      /\ k \in Kinds /\ m.type = "mutation"
  BY <1>1, <1>2, <1>3, RequestParts, MirrorFacts DEF Mutations
<1>5. /\ view' = [view EXCEPT ![m.obj] = IF m.deleted THEN NoValue ELSE m.val]
      /\ at' = [at EXCEPT ![k] = m.version]
      /\ UNCHANGED <<draft, shown, snapshots>>
  BY <1>2, <1>3, <1>4 DEF Applied
<1>6. 1 \in OnWire("mutation") /\ IsEvent(m)
  BY <1>0, <1>1, <1>2, <1>4 DEF OnWire, EventsInOrder
<1>7. run[cur] = "forward" /\ OnWire("complete") = {}
  <2>1. run[cur] \notin {"new", "discover", "metadata", "list"}
    BY <1>0, <1>6 DEF Starting, ListingIsComplete
  <2>2. run[cur] \in {"new", "discover", "metadata", "list", "forward", "over"}
    <3>1. cur \in Sessions
      BY <1>0, MirrorFacts DEF Live, PipelineTypeOK, Sessions
    <3> QED BY <1>0, <3>1 DEF PipelineTypeOK
  <2>3. \A c \in OnWire("complete") : c \in Nat \ {0} /\ 1 > c
    BY <1>0, <1>1, <1>6 DEF CommitIsComplete, OnWire
  <2> QED BY <2>1, <2>2, <2>3 DEF Live
<1>8. /\ OnWire("data") = {}
      /\ \A j \in Kinds : Chained(j, IF shown[j] THEN at[j] ELSE Unlisted)
  BY <1>0, <1>7 DEF FollowingIsComplete
<1>9. PICK b : b = IF shown[k] THEN at[k] ELSE Unlisted
  OBVIOUS
<1>10. /\ b \in Int /\ b <= Handed(k) /\ EventsOn(k) = (b + 1)..Handed(k)
       /\ b = Unlisted <=> version[k] = Unlisted
  <2>1. b \in Int
    BY <1>0, <1>4, <1>9 DEF PipelineTypeOK, Unlisted
  <2>2. Chained(k, b)
    BY <1>4, <1>8, <1>9
  <2> QED BY <2>1, <2>2 DEF Chained
<1>11. Handed(k) \in Int
  BY <1>0, <1>4 DEF Handed, PipelineTypeOK, Unlisted
<1>12. m.version \in EventsOn(k)
  BY <1>2, <1>3, <1>6 DEF EventsOn
<1>13. \A x \in EventsOn(k)' : x \in EventsOn(k) /\ m.version < x
  <2> SUFFICES ASSUME NEW i \in OnWire("mutation")', KindOf[wire'[i].obj] = k
               PROVE  wire'[i].version \in EventsOn(k) /\ m.version < wire'[i].version
    BY DEF EventsOn
  <2>1. i + 1 \in OnWire("mutation") /\ i \in Nat \ {0} /\ wire'[i] = wire[i + 1]
    BY <1>1 DEF OnWire
  <2>2. 1 < i + 1
    BY <2>1
  <2>3. wire[1].version < wire[i + 1].version
    BY <1>0, <1>2, <1>3, <1>6, <2>1, <2>2 DEF EventsInOrder
  <2> QED BY <1>2, <2>1, <2>3 DEF EventsOn
<1>14. EventsOn(k) = EventsOn(k)' \cup {m.version} /\ \A j : j # k => EventsOn(j)' = EventsOn(j)
  <2>1. \A j : EventsOn(j) = EventsOn(j)' \cup
                  (IF wire[1].type = "mutation" /\ KindOf[wire[1].obj] = j
                   THEN {wire[1].version} ELSE {})
    BY <1>0, TailMeans
  <2> QED BY <1>2, <1>3, <2>1
<1>15. m.version = b + 1 /\ b + 1 <= Handed(k) /\ EventsOn(k)' = (b + 2)..Handed(k)
  <2>1. m.version \in (b + 1)..Handed(k)
    BY <1>10, <1>12
  <2>2. b + 1 \in EventsOn(k)
    BY <1>10, <1>11, <2>1
  <2>3. m.version = b + 1
    <3>1. b + 1 = m.version \/ m.version < b + 1
      BY <1>13, <1>14, <2>2
    <3> QED BY <1>10, <1>11, <2>1, <3>1
  <2>4. \A x \in EventsOn(k)' : x \in (b + 1)..Handed(k) /\ b + 1 < x
    BY <1>10, <1>13, <2>3
  <2>5. \A x \in (b + 1)..Handed(k) : x = b + 1 \/ x \in EventsOn(k)'
    BY <1>10, <1>14, <2>3
  <2>6. EventsOn(k)' = (b + 2)..Handed(k)
    <3>1. \A x \in EventsOn(k)' : x \in (b + 2)..Handed(k)
      BY <1>10, <1>11, <2>4
    <3>2. \A x \in (b + 2)..Handed(k) : x \in (b + 1)..Handed(k) /\ x # b + 1
      BY <1>10, <1>11
    <3> QED BY <2>5, <3>1, <3>2
  <2> QED BY <1>10, <1>11, <2>1, <2>3, <2>6
<1>16. shown[k] /\ b = at[k] /\ at[k] \in Nat
  <2>1. b # Unlisted
    <3>1. m.version # 0
      BY <1>6 DEF IsEvent
    <3>2. b # -1
      BY <1>15, <3>1
    <3> QED BY <3>2 DEF Unlisted
  <2> QED BY <1>0, <1>4, <1>9, <2>1 DEF PipelineTypeOK
<1>17. m.version = at[k] + 1 /\ m.version \in 1..Len(log[k]) /\ Len(log[k]) \in Nat
  BY <1>0, <1>3, <1>4, <1>6, <1>15, <1>16 DEF IsEvent, PipelineTypeOK
<1>18. /\ at' \in [Kinds -> Nat] /\ at'[k] = m.version
       /\ \A j \in Kinds : j # k => at'[j] = at[j]
  BY <1>0, <1>4, <1>5 DEF PipelineTypeOK
<1>19. /\ view' \in [Objects -> Vals]
       /\ view'[m.obj] = IF m.deleted THEN NoValue ELSE m.val
  <2>1. NoValue \in Vals
    BY DEF Vals
  <2> QED BY <1>0, <1>4, <1>5, <2>1 DEF PipelineTypeOK
<1>20. PipelineTypeOK'
  <2>1. \A j \in Kinds : at[j] <= Len(log[j])
    BY <1>0 DEF PipelineTypeOK
  <2>2. at'[k] <= Len(log[k])
    BY <1>17, <1>18
  <2>3. \A j \in Kinds : at'[j] <= Len(log[j])
    BY <1>18, <2>1, <2>2
  <2> QED BY <1>0, <1>1, <1>5, <1>18, <1>19, <2>3 DEF PipelineTypeOK
<1>21. LostIsLost'
  BY <1>0, StillThere DEF Live, LostIsLost
<1>22. EventsInOrder'
  BY TailKeepsOrder
<1>23. OnWire("data")' = {} /\ OnWire("complete")' = {}
  BY <1>1, <1>7, <1>8
<1>24. Starting' /\ ListingIsComplete' /\ CommitIsComplete'
  BY <1>7, <1>23 DEF Starting, ListingIsComplete, CommitIsComplete
<1>25. FollowingIsComplete'
  <2>1. ASSUME NEW j \in Kinds PROVE Chained(j, IF shown[j] THEN at[j] ELSE Unlisted)'
    <3>1. Handed(j)' = Handed(j)
      BY DEF Handed
    <3>2. CASE j # k
      <4>1. PICK c : c = IF shown[j] THEN at[j] ELSE Unlisted
        OBVIOUS
      <4>2. c = IF shown'[j] THEN at'[j] ELSE Unlisted
        BY <1>5, <1>18, <3>2, <4>1
      <4>3. Chained(j, c)
        BY <1>8, <4>1
      <4>4. Chained(j, c)'
        BY <1>14, <3>1, <3>2, <4>3, ChainedKept
      <4> QED BY <4>2, <4>4
    <3>3. CASE j = k
      <4>1. PICK c : c = b + 1
        OBVIOUS
      <4>2. c = IF shown'[j] THEN at'[j] ELSE Unlisted
        BY <1>5, <1>15, <1>16, <1>18, <3>3, <4>1
      <4>3. c # Unlisted /\ version[k] # Unlisted
        BY <1>10, <1>16, <4>1 DEF Unlisted
      <4>4. c <= Handed(k) /\ EventsOn(k)' = (c + 1)..Handed(k)
        BY <1>10, <1>15, <4>1
      <4>5. Chained(k, c)'
        BY <3>1, <3>3, <4>3, <4>4 DEF Chained
      <4> QED BY <3>3, <4>2, <4>5
    <3> QED BY <3>2, <3>3
  <2> QED BY <1>23, <2>1 DEF FollowingIsComplete
<1>26. Mirror!Advance(k)
  <2>1. PICK e : e = log[k][at[k] + 1]
    OBVIOUS
  <2>2. /\ e.obj = m.obj /\ e.deleted = m.deleted /\ e.val \notin Unreadable
        /\ m.val \in Mirror!Contents(e.obj, at[k] + 1, e.val)
    BY <1>3, <1>6, <1>17, <2>1 DEF IsEvent
  <2>3. at[k] < Len(log[k])
    BY <1>16, <1>17
  <2>4. view' = [view EXCEPT ![e.obj] = view'[e.obj]]
    BY <1>5, <1>19, <2>2
  <2>5. view'[e.obj] \in IF e.deleted THEN {NoValue}
                         ELSE Mirror!Contents(e.obj, at[k] + 1, e.val)
    BY <1>19, <2>2
  <2>6. at' = [at EXCEPT ![k] = @ + 1]
    BY <1>5, <1>17
  <2> QED BY <1>5, <1>16, <2>1, <2>2, <2>3, <2>4, <2>5, <2>6 DEF Mirror!Advance
<1> QED
  BY <1>4, <1>20, <1>21, <1>22, <1>24, <1>25, <1>26 DEF MirrorIInv

\* The server refuses a snapshot, or reads the next request.
LEMMA ServerKeeps ==
    ASSUME MirrorIInv, SendKubernetesResources
    PROVE  MirrorIInv' /\ [Mirror!Next]_(Mirror!mirrorVars)
<1>0. PipelineTypeOK /\ LostIsLost /\ EventsInOrder
  BY DEF MirrorIInv
<1>1. /\ wire # <<>> /\ ~ended
      /\ UNCHANGED <<log, run, ctx, cur, todo, items, version, watcher, sending>>
  BY DEF SendKubernetesResources, clientVars
<1>2. Live /\ cur \in Sessions
  BY <1>1, SenderIsLive
<1>3. Head(wire) = wire[1] /\ wire[1] \in Requests
  <2>1. wire \in Seq(Requests)
    BY <1>0 DEF PipelineTypeOK
  <2> QED BY <1>1, <2>1, HeadTailProperties
<1>4. CASE wire[1].type = "complete" /\ badCommit
  <2>1. /\ ended' = TRUE /\ wire' = <<>> /\ draft' = NoDraft
        /\ UNCHANGED <<view, at, shown, snapshots>>
    BY <1>3, <1>4 DEF SendKubernetesResources
  <2>2. PipelineTypeOK'
    <3>1. NoValue \in Vals
      BY DEF Vals
    <3>2. draft' \in [Objects -> Vals] /\ wire' \in Seq(Requests)
      BY <2>1, <3>1 DEF NoDraft
    <3> QED BY <1>0, <1>1, <2>1, <3>2 DEF PipelineTypeOK
  <2>3. LostIsLost' /\ ~Live'
    <3>1. cur' # 0
      BY <1>1, <1>2 DEF Live
    <3> QED BY <1>0, <1>1, <1>2, <2>1, <3>1 DEF LostIsLost, Live
  <2>4. sending' # Nothing =>
          IsEvent(sending)' /\ sending'.version = version'[KindOf[sending'.obj]]
    <3> SUFFICES ASSUME sending # Nothing
                 PROVE  IsEvent(sending)' /\ sending'.version = version'[KindOf[sending'.obj]]
      BY <1>1
    <3>1. PICK m : m = sending
      OBVIOUS
    <3>2. m \in Mutations /\ IsEvent(m) /\ m.version = version[KindOf[m.obj]]
      BY <1>0, <3>1 DEF EventsInOrder, PipelineTypeOK
    <3>3. IsEvent(m)'
      BY <1>0, <1>1, <3>2, EventKept, SameHistory
    <3> QED BY <1>1, <3>1, <3>2, <3>3
  <2>5. UNCHANGED Mirror!mirrorVars
    BY <1>1, <2>1 DEF Mirror!mirrorVars
  <2> QED BY <2>1, <2>2, <2>3, <2>4, <2>5, LossKeeps
<1>5. CASE ~(wire[1].type = "complete" /\ badCommit)
  <2>1. Applied(wire[1]) /\ wire' = Tail(wire) /\ UNCHANGED ended
    BY <1>3, <1>5 DEF SendKubernetesResources
  <2>2. CASE wire[1].type = "complete"
    BY <1>1, <1>2, <2>1, <2>2, MarkerReadKeeps DEF Mirror!Next
  <2>3. CASE wire[1].type = "mutation"
    BY <1>1, <1>2, <2>1, <2>3, EventReadKeeps DEF Mirror!Next
  <2>4. CASE wire[1].type \notin {"complete", "mutation"}
    <3>1. /\ UNCHANGED <<view, at, shown, snapshots>>
          /\ wire[1].type = "data" => draft' = [draft EXCEPT ![wire[1].obj] = wire[1].val]
          /\ wire[1].type # "data" => draft' = draft
      BY <2>1, <2>4 DEF Applied
    <3>2. wire' \in Seq(Requests)
      BY <1>0, <1>1, <2>1, WireTail
    <3>3. draft' \in [Objects -> Vals]
      BY <1>0, <1>3, <3>1, RequestParts DEF PipelineTypeOK
    <3>4. PipelineTypeOK'
      BY <1>0, <1>1, <3>1, <3>2, <3>3 DEF PipelineTypeOK
    <3>5. LostIsLost'
      BY <1>0, <1>1, <1>2, <2>1, StillThere DEF Live, LostIsLost
    <3>6. ASSUME NEW v \in [Kinds -> Nat \cup {Unlisted}], NEW left, Making(v, left)
          PROVE  Making(v, left)'
      <4>1. CASE wire[1].type = "data"
        BY <1>0, <1>1, <2>1, <3>1, <3>6, <4>1, DataReadMaking
      <4>2. CASE wire[1].type # "data"
        <5>1. \A o : DataOn(o) = DataOn(o)' \cup
                  (IF wire[1].type = "data" /\ wire[1].obj = o THEN {wire[1].val} ELSE {})
          BY <1>0, <1>1, <2>1, TailMeans
        <5>2. \A o \in Objects : DataOn(o)' = DataOn(o)
          BY <4>2, <5>1
        <5> QED BY <1>0, <1>1, <3>1, <3>6, <4>2, <5>2, MakingKept, SameHistory
      <4> QED BY <4>1, <4>2
    <3>7. MirrorIInv'
      BY <1>1, <1>2, <2>1, <2>4, <3>1, <3>4, <3>5, <3>6, PlainReadKeeps
    <3>8. UNCHANGED Mirror!mirrorVars
      BY <1>1, <3>1 DEF Mirror!mirrorVars
    <3> QED BY <3>7, <3>8
  <2> QED BY <2>2, <2>3, <2>4
<1> QED
  BY <1>4, <1>5

--------------------------------------------------------------------------------
(* Every step.                                                               *)

\* A step of the resource stream keeps the invariant and is a step of ClusterMirror.
LEMMA ResourceStep ==
    ASSUME MirrorIInv, ResourceNext
    PROVE  MirrorIInv' /\ [Mirror!Next]_(Mirror!mirrorVars)
<1> DEFINE Same == UNCHANGED <<log, view, at, shown, snapshots>>
           Goal == MirrorIInv' /\ [Mirror!Next]_(Mirror!mirrorVars)
<1>0. /\ PipelineTypeOK /\ LostIsLost
      /\ cur > 0 => cur \in Sessions
  BY MirrorFacts DEF MirrorIInv, PipelineTypeOK, Sessions
<1>1. ASSUME MirrorIInv', Same PROVE Goal
  BY <1>1 DEF Mirror!mirrorVars
<1>2. ASSUME NEW s \in Sessions, Returns(s) PROVE Goal
  <2>1. Same
    BY <1>2 DEF Returns, serverVars
  <2> QED BY <1>1, <1>2, <2>1, ReturnsKeeps
<1>3. ASSUME cur > 0, Returns(cur) PROVE Goal
  BY <1>0, <1>2, <1>3
<1>4. ASSUME NEW o \in Objects, Write(o) PROVE Goal
  <2>1. Grows /\ MirrorIInv'
    BY <1>4, WriteKeeps
  <2>2. UNCHANGED <<view, at, shown, snapshots>>
    BY <1>4 DEF Write, serverVars
  <2>3. ASSUME NEW k \in Kinds PROVE SubSeq(log'[k], 1, Len(log[k])) = log[k]
    <3>1. log[k] \in Seq(Events) /\ log'[k] \in Seq(Events)
      BY <1>0, <2>1 DEF PipelineTypeOK, MirrorIInv
    <3>2. /\ Len(log[k]) \in Nat /\ Len(log'[k]) \in Nat /\ Len(log[k]) <= Len(log'[k])
          /\ \A i \in 1..Len(log[k]) : log'[k][i] = log[k][i]
      BY <2>1, <3>1 DEF Grows
    <3>3. /\ SubSeq(log'[k], 1, Len(log[k])) \in Seq(Events)
          /\ Len(SubSeq(log'[k], 1, Len(log[k]))) = Len(log[k])
          /\ \A i \in 1..Len(log[k]) : SubSeq(log'[k], 1, Len(log[k]))[i] = log'[k][i]
      BY <3>1, <3>2
    <3> QED BY <3>1, <3>2, <3>3, SeqEqual
  <2>4. Mirror!Write
    BY <2>2, <2>3 DEF Mirror!Write
  <2> QED BY <2>1, <2>4 DEF Mirror!Next
<1>5. CASE OpenStream
  <2>1. Same
    BY <1>5 DEF OpenStream, serverVars
  <2> QED BY <1>1, <1>5, <2>1, OpenStreamKeeps
<1>6. CASE CloseConnection
  <2>1. Same
    BY <1>6 DEF CloseConnection, serverVars
  <2> QED BY <1>1, <1>6, <2>1, CloseKeeps
<1>7. ASSUME NEW s \in Sessions, Discovered(s) PROVE Goal
  <2>1. Same
    BY <1>7 DEF Discovered, serverVars
  <2> QED BY <1>1, <1>7, <2>1, DiscoveredKeeps
<1>8. ASSUME NEW s \in Sessions, DiscoveryFails(s) \/ ContextDone(s) PROVE Goal
  BY <1>2, <1>8 DEF DiscoveryFails, ContextDone
<1>9. CASE sendClusterMetadata
  <2>1. Same
    BY <1>9 DEF sendClusterMetadata, serverVars
  <2> QED BY <1>1, <1>9, <2>1, MetadataKeeps
<1>10. CASE FetchResources
  <2>1. Same
    BY <1>10 DEF FetchResources, serverVars
  <2> QED BY <1>1, <1>10, <2>1, FetchKeeps
<1>11. CASE SendObjectData
  <2>1. Same
    BY <1>11 DEF SendObjectData, serverVars
  <2> QED BY <1>1, <1>11, <2>1, ObjectDataKeeps
<1>12. CASE sendResourceSnapshotComplete
  <2>1. Same
    BY <1>12 DEF sendResourceSnapshotComplete, serverVars
  <2> QED BY <1>1, <1>12, <2>1, CompleteKeeps
<1>13. CASE CallFails
  BY <1>3, <1>13 DEF CallFails, Listing, InPhase
<1>14. CASE SendFails
  <2>1. cur > 0
    BY <1>0, <1>14 DEF SendFails, InPhase, LostIsLost
  <2> QED BY <1>3, <1>14, <2>1 DEF SendFails
<1>15. ASSUME NEW k \in Kinds, WatcherStep(k) PROVE Goal
  <2>1. CASE WatchFails(k)
    BY <1>3, <2>1 DEF WatchFails, InPhase
  <2>2. CASE processMutation(k)
    <3>1. Same
      BY <2>2 DEF processMutation, serverVars
    <3> QED BY <1>1, <2>2, <3>1, MutationKeeps
  <2>3. CASE \/ newWatcher(k) \/ WatchUnavailable(k) \/ WatchCloses(k) \/ handleWatchError(k)
    <3>1. PICK to \in {"start", "watch", "done"} :
            SetWatcher(k, to) /\ watcher[k] \in {"start", "watch"}
      BY <2>3 DEF newWatcher, WatchUnavailable, WatchCloses, handleWatchError, EventWaits
    <3>2. Same
      BY <3>1 DEF SetWatcher, serverVars
    <3> QED BY <1>1, <3>1, <3>2, SetWatcherKeeps
  <2> QED BY <1>15, <2>1, <2>2, <2>3 DEF WatcherStep
<1>16. CASE ForwardMutation
  <2>1. Same
    BY <1>16 DEF ForwardMutation, serverVars
  <2> QED BY <1>1, <1>16, <2>1, ForwardMutationKeeps
<1>17. CASE MutationChanClosed
  BY <1>3, <1>17 DEF MutationChanClosed, InPhase
<1>18. CASE SendKeepalive
  <2>1. Same
    BY <1>18 DEF SendKeepalive, serverVars
  <2> QED BY <1>1, <1>18, <2>1, SendKeepaliveKeeps
<1>19. CASE KeepaliveFails
  <2>1. Same
    BY <1>19 DEF KeepaliveFails, serverVars
  <2> QED BY <1>1, <1>19, <2>1, KeepaliveFailsKeeps
<1>20. CASE SendKubernetesResources
  BY <1>20, ServerKeeps
<1>21. (\E o \in Objects : Write(o)) => Goal
  BY <1>4
<1>22. (\E s \in Sessions : Discovered(s) \/ DiscoveryFails(s) \/ ContextDone(s)) => Goal
  BY <1>7, <1>8
<1>23. (\E k \in Kinds : WatcherStep(k)) => Goal
  BY <1>15
<1> QED
  BY <1>5, <1>6, <1>9, <1>10, <1>11, <1>12, <1>13, <1>14, <1>16,
     <1>17, <1>18, <1>19, <1>20, <1>21, <1>22, <1>23 DEF ResourceNext

\* The inductive invariant of the whole.
HealthIInv == MirrorIInv /\ ProcessingIInv /\ WatchdogIInv

\* The two initial states: before the first session, and after the last.
LEMMA MirrorStarts ==
    ASSUME NEW opened \in {0, MaxSessions}, MirrorInit(opened)
    PROVE  MirrorIInv /\ Mirror!Init /\ busy = [s \in Sessions |-> Idle]
           /\ overlapped = [s \in Sessions |-> FALSE]
<1>1. /\ log = [k \in Kinds |-> <<>>]
      /\ run = [s \in Sessions |-> IF s <= opened THEN "over" ELSE "new"]
      /\ ctx = [s \in Sessions |-> "ok"] /\ cur = opened
      /\ todo = <<>> /\ items = <<>> /\ sending = Nothing /\ wire = <<>> /\ ended = FALSE
      /\ version = [k \in Kinds |-> Unlisted] /\ watcher = [k \in Kinds |-> "none"]
      /\ draft = NoDraft /\ view = NoDraft
      /\ at = [k \in Kinds |-> 0] /\ shown = [k \in Kinds |-> FALSE] /\ snapshots = 0
  BY DEF MirrorInit
<1>2. cur \in 0..MaxSessions /\ (cur = 0 \/ (cur \in Sessions /\ run[cur] = "over"))
  <2>1. opened \in 0..MaxSessions /\ (opened = 0 \/ opened \in Sessions) /\ opened <= opened
    BY MirrorFacts DEF Sessions
  <2> QED BY <1>1, <2>1
<1>3. PipelineTypeOK
  <2>1. NoValue \in Vals
    BY DEF Vals
  <2>2. draft \in [Objects -> Vals] /\ view \in [Objects -> Vals]
    BY <1>1, <2>1 DEF NoDraft
  <2>3. log \in [Kinds -> Seq(Events)] /\ \A k \in Kinds : log[k] = <<>> /\ Len(log[k]) = 0
    BY <1>1
  <2>4. \A k \in Kinds : at[k] <= Len(log[k]) /\ version[k] <= Len(log[k])
    BY <1>1, <2>3 DEF Unlisted
  <2>5. \A k \in Kinds : 1..Len(log[k]) = {}
    BY <2>3
  <2>6. /\ run \in [Sessions -> {"new", "discover", "metadata", "list", "forward", "over"}]
        /\ ctx \in [Sessions -> {"ok", "cancelled", "closed"}]
        /\ todo \in Seq(Kinds) /\ items \in Seq(Items) /\ wire \in Seq(Requests)
        /\ version \in [Kinds -> Nat \cup {Unlisted}]
        /\ watcher \in [Kinds -> {"none", "start", "watch", "done"}]
        /\ sending \in Mutations \cup {Nothing}
        /\ at \in [Kinds -> Nat] /\ shown \in [Kinds -> BOOLEAN]
    BY <1>1
  <2> QED BY <1>2, <2>2, <2>3, <2>4, <2>5, <2>6 DEF PipelineTypeOK
<1>4. LostIsLost /\ ~Live
  BY <1>1, <1>2 DEF LostIsLost, NothingLeft, Live
<1>5. \A type : OnWire(type) = {}
  BY <1>1 DEF OnWire
<1>6. MirrorIInv
  BY <1>1, <1>3, <1>4, <1>5 DEF MirrorIInv, EventsInOrder, Starting, ListingIsComplete,
                                CommitIsComplete, FollowingIsComplete
<1>7. Mirror!Init
  BY <1>1 DEF Mirror!Init, NoDraft
<1> QED
  BY <1>6, <1>7 DEF MirrorInit

\* The detector's invariants hold when the operator starts.
LEMMA DetectorStarts ==
    ASSUME NEW on \in BOOLEAN, DetectorInit(on), WatchdogInit(on),
           busy = [s \in Sessions |-> Idle], overlapped = [s \in Sessions |-> FALSE]
    PROVE  ProcessingIInv /\ WatchdogIInv
<1>1. ProcessingIInv
  BY DEF DetectorInit, ProcessingIInv
<1>2. /\ flowInactivityTimeout = (IF on THEN Timeout ELSE 0)
      /\ collectionAge = Never /\ flowSentAge = Never
      /\ collector = (IF on THEN "off" ELSE "none") /\ quiet = 0
      /\ stage = "none" /\ stageAge = 0 /\ disturbed = FALSE /\ silence = Never
  BY DEF DetectorInit, WatchdogInit, Timeout
<1>3. WatchdogTypeOK
  <2>1. flowInactivityTimeout \in Nat
    BY <1>2, StageTimes
  <2>2. quiet \in 0..TrafficGap /\ stageAge \in 0..StageTime[stage]
    BY <1>2, StageTimes
  <2>3. {silence, collectionAge, flowSentAge} \subseteq Nat \cup {Never}
    BY <1>2
  <2>4. collector \in {"none", "off", "on"} /\ disturbed \in BOOLEAN /\ stage = "none"
    BY <1>2
  <2> QED BY <2>1, <2>2, <2>3, <2>4 DEF WatchdogTypeOK
<1> QED
  BY <1>1, <1>2, <1>3 DEF WatchdogIInv

\* So do all, and CloudSecure's picture is an initial one.
LEMMA HealthStarts == HealthInit => HealthIInv /\ Mirror!Init
<1> SUFFICES ASSUME HealthInit PROVE HealthIInv /\ Mirror!Init
  OBVIOUS
<1>1. PICK opened \in {0, MaxSessions}, on \in BOOLEAN :
        MirrorInit(opened) /\ DetectorInit(on) /\ WatchdogInit(on)
  BY DEF HealthInit
<1>2. MirrorIInv /\ Mirror!Init /\ busy = [s \in Sessions |-> Idle]
      /\ overlapped = [s \in Sessions |-> FALSE]
  BY <1>1, MirrorStarts
<1>3. ProcessingIInv /\ WatchdogIInv
  BY <1>1, <1>2, DetectorStarts
<1> QED
  BY <1>2, <1>3 DEF HealthIInv

\* Every step keeps the invariants, and is a step of ClusterMirror or a stutter.
LEMMA HealthStep ==
    HealthIInv /\ [HealthNext]_operatorVars
        => HealthIInv' /\ [Mirror!Next]_(Mirror!mirrorVars)
<1> SUFFICES ASSUME HealthIInv, [HealthNext]_operatorVars
             PROVE  HealthIInv' /\ [Mirror!Next]_(Mirror!mirrorVars)
  OBVIOUS
<1>0. MirrorIInv /\ ProcessingIInv /\ WatchdogIInv
  BY DEF HealthIInv
<1>1. ASSUME UNCHANGED <<log, run, ctx, cur, clientVars, streamVars, serverVars>>
      PROVE  MirrorIInv' /\ [Mirror!Next]_(Mirror!mirrorVars)
  <2>1. UNCHANGED Mirror!mirrorVars
    BY <1>1 DEF Mirror!mirrorVars, serverVars
  <2> QED BY <1>0, <1>1, <2>1, UntouchedKeeps
<1>2. CASE ResourceNext /\ UNCHANGED watchdogVars
  <2>1. MirrorIInv' /\ [Mirror!Next]_(Mirror!mirrorVars)
    BY <1>0, <1>2, ResourceStep
  <2>2. cur \in 0..MaxSessions /\ (cur = 0 => sending = Nothing)
    BY <1>0 DEF MirrorIInv, PipelineTypeOK, LostIsLost, NothingLeft
  <2>3. CASE UNCHANGED <<detectorVars, busy, overlapped>>
    <3>1. UNCHANGED <<processing, startedAge, busy, overlapped>> /\ UNCHANGED flowLivenessVars
      BY <2>3 DEF detectorVars, flowLivenessVars
    <3> QED BY <1>0, <1>2, <2>1, <3>1, NoCallKeeps, WatchdogUntouched DEF HealthIInv
  <2>4. CASE \E s \in Sessions, on \in BOOLEAN : Calls(s, on)
    <3>1. PICK s \in Sessions, on \in BOOLEAN : Calls(s, on)
      BY <2>4
    <3>2. ProcessingIInv' /\ UNCHANGED flowLivenessVars
      BY <1>0, <3>1, CallKeeps DEF Calls, SetProcessingResources
    <3> QED BY <1>0, <1>2, <2>1, <3>2, WatchdogUntouched DEF HealthIInv
  <2> QED BY <1>2, <2>2, <2>3, <2>4, ResourceCalls
<1>3. CASE FlowStep /\ UNCHANGED <<log, run, ctx, cur, clientVars, streamVars, serverVars,
                                   healthVars>>
  <2>1. WatchdogIInv'
    BY <1>0, <1>3, RunCollectorKeeps, QuietFlowStepsKeep, SendFlowKeeps DEF FlowStep
  <2>2. UNCHANGED <<processing, startedAge, busy, overlapped>>
    BY <1>3 DEF FlowStep, RunCollector, StartFlowCollection, CollectorStops, Traffic, Collect,
                Evict, SendFlow, RecordFlowSent, SendFlowFails, detectorVars, healthVars
  <2> QED BY <1>0, <1>1, <1>3, <2>1, <2>2, NoCallKeeps DEF HealthIInv
<1>4. CASE Tick
  <2>1. UNCHANGED <<log, run, ctx, cur, clientVars, streamVars, serverVars>>
    BY <1>4 DEF Tick
  <2> QED BY <1>0, <1>1, <1>4, <2>1, TickKeepsProcessing, TickKeepsWatchdog DEF HealthIInv
<1>5. CASE UNCHANGED operatorVars
  <2>1. UNCHANGED <<log, run, ctx, cur, clientVars, streamVars, serverVars>>
    BY <1>5 DEF operatorVars, resourceVars
  <2>2. UNCHANGED <<processing, startedAge, busy, overlapped>>
    BY <1>5 DEF operatorVars, resourceVars, healthVars
  <2>3. UNCHANGED <<watchdogVars, flowLivenessVars>>
    BY <1>5 DEF operatorVars
  <2> QED BY <1>0, <1>1, <2>1, <2>2, <2>3, NoCallKeeps, WatchdogUntouched DEF HealthIInv
<1> QED
  BY <1>2, <1>3, <1>4, <1>5 DEF HealthNext

\* The invariants always hold.
LEMMA HealthInvariant == HealthSpec => []HealthIInv
<1>1. HealthInit => HealthIInv
  BY HealthStarts
<1>2. HealthIInv /\ [HealthNext]_operatorVars => HealthIInv'
  BY HealthStep
<1> QED
  BY <1>1, <1>2, PTL DEF HealthSpec

\* For any timeouts, multiplier, margin, polling interval and keepalive periods, and any
\* number of sessions: the healthz endpoint blames resource processing only if some Run
\* has been at it for longer than the timeout, and blames the flows only if a stage of
\* the pipeline has outstayed its time.
THEOREM AlarmsAlwaysReal == HealthSpec => []AlarmsAreReal
<1>1. HealthIInv => AlarmsAreReal
  <2> SUFFICES ASSUME HealthIInv PROVE AlarmsAreReal
    OBVIOUS
  <2>0. ProcessingIInv /\ WatchdogIInv
    BY DEF HealthIInv
  <2>1. AlarmIsReal
    BY <2>0 DEF ProcessingIInv, AlarmIsReal, ResourcesStuck
  <2>2. ASSUME ~disturbed, FlowsStuck PROVE FALSE
    <3>1. /\ collectionAge # Never /\ silence # Never
          /\ flowInactivityTimeout < silence /\ flowInactivityTimeout = Timeout
          /\ silence <= Allowed /\ WatchdogTypeOK
      BY <2>0, <2>2 DEF FlowsStuck, WatchdogIInv
    <3>2. Allowed \in Nat /\ Allowed <= Timeout /\ Timeout \in Nat
      BY <3>1, AllowedBound, StageTimes
    <3>3. silence \in Nat
      BY <2>0, <3>1, WatchdogFacts
    <3> QED BY <3>1, <3>2, <3>3
  <2> QED BY <2>1, <2>2 DEF AlarmsAreReal, NoFalseAlarm
<1> QED
  BY <1>1, HealthInvariant, PTL

\* For the same constants: a Run that is stuck, and that no other Run has interfered
\* with, is reported, and so is a flow pipeline that has sent nothing for longer than
\* the timeout.
THEOREM StallsAlwaysReported == HealthSpec => []StallsAreReported
<1>1. HealthIInv => StallsAreReported
  <2> SUFFICES ASSUME HealthIInv PROVE StallsAreReported
    OBVIOUS
  <2>0. ProcessingIInv /\ WatchdogIInv
    BY DEF HealthIInv
  <2>1. \A s \in Sessions : busy[s] > ResourceProcessingTimeout => busy[s] # Idle
    BY ProcessingTypes DEF Idle
  <2>2. StuckIsReported
    BY <2>0, <2>1 DEF ProcessingIInv, StuckIsReported, ResourcesStuck
  <2>3. QuietFlowsReported
    BY <2>0 DEF WatchdogIInv, QuietFlowsReported, FlowsStuck
  <2> QED BY <2>2, <2>3 DEF StallsAreReported
<1> QED
  BY <1>1, HealthInvariant, PTL

\* The resource stream implements ClusterMirror, for any kinds, objects, values, number
\* of sessions and capacity of the wire: what CloudSecure shows of a kind is always the
\* state after some number of its events; it never skips, repeats or takes back one.
THEOREM StreamImplementsMirror == HealthSpec => MirrorsTheCluster
<1>1. HealthInit => Mirror!Init
  BY HealthStarts
<1>2. HealthIInv /\ [HealthNext]_operatorVars => [Mirror!Next]_(Mirror!mirrorVars)
  BY HealthStep
<1> QED
  BY <1>1, <1>2, HealthInvariant, PTL DEF HealthSpec, MirrorsTheCluster, Mirror!Spec
================================================================================
