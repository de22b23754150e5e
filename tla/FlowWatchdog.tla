------------------------------ MODULE FlowWatchdog ------------------------------
(***************************************************************************)
(* The path of a network flow as the flow watchdog sees it, with its       *)
(* times: background traffic causes a flow, the collector picks it up, the *)
(* flow cache keeps it, and the flow stream sends it.  As long as every    *)
(* stage keeps to its time the watchdog must be quiet; when any of them    *)
(* stalls it must not be.  Only the oldest flow under way is followed:     *)
(* later ones can only be sent earlier than it assumes.                    *)
(***************************************************************************)
EXTENDS DeadlockDetector

VARIABLES
    collector,  \* "none" detected, not running ("off"), or running ("on")
    quiet,      \* how long ago the last background traffic was
    stage,      \* where the oldest flow is
    stageAge,   \* for how long
    disturbed,  \* some stage has not kept to its time
    silence     \* how long ago the last flow was sent, or the first collector started

watchdogVars == <<collector, quiet, stage, stageAge, disturbed, silence>>

\* The streams' own keepalives are traffic: one flow in every few of the shortest
\* keepalive periods is what the timeout expects.
TrafficGap ==
    FlowInactivityKeepaliveMultiplier * minKeepalivePeriod(KeepalivePeriods)

StageTime ==
    [none |-> 0, uncollected |-> Max({PollInterval, 0}), cached |-> ActiveTimeout,
     evicted |-> FlowInactivityMargin]

WatchdogInit(detected) ==
    /\ collector = IF detected THEN "off" ELSE "none"
    /\ quiet = 0
    /\ stage = "none" /\ stageAge = 0
    /\ disturbed = FALSE
    /\ silence = Never

--------------------------------------------------------------------------------
\* flowCollectorAdapter.Run: every session of the collector stream calls the
\* detector before it collects.
RunCollector ==
    /\ collector = "off"
    /\ collector' = "on"
    /\ StartFlowCollection
    /\ silence' = IF silence = Never THEN 0 ELSE silence
    /\ quiet' = IF silence = Never THEN 0 ELSE quiet
    /\ UNCHANGED <<stage, stageAge, disturbed>>

\* The collector stops, to be started again: its time is not kept.
CollectorStops ==
    /\ collector = "on"
    /\ collector' = "off"
    /\ disturbed' = TRUE
    /\ UNCHANGED <<quiet, stage, stageAge, silence>>
    /\ UNCHANGED detectorVars

Traffic ==
    /\ collector # "none"
    /\ quiet' = 0
    /\ stage' = IF stage = "none" THEN "uncollected" ELSE stage
    /\ stageAge' = IF stage = "none" THEN 0 ELSE stageAge
    /\ UNCHANGED <<collector, disturbed, silence>>
    /\ UNCHANGED detectorVars

Moves(from, to) ==
    /\ stage = from
    /\ stage' = to /\ stageAge' = 0
    /\ UNCHANGED <<collector, quiet, disturbed>>

Collect == collector = "on" /\ Moves("uncollected", "cached")
              /\ UNCHANGED silence /\ UNCHANGED detectorVars
Evict   == Moves("cached", "evicted") /\ UNCHANGED silence /\ UNCHANGED detectorVars

\* sendNetworkFlowRequest: a send that works is recorded; keepalives are not.
SendFlow == Moves("evicted", "none") /\ silence' = 0 /\ RecordFlowSent

\* A send that fails loses the flow and is not recorded.
SendFlowFails ==
    /\ stage = "evicted"
    /\ stage' = "none" /\ stageAge' = 0
    /\ disturbed' = TRUE
    /\ UNCHANGED <<collector, quiet, silence>>
    /\ UNCHANGED detectorVars

\* Time passes for the flows; nobody outstays their time, unless things are
\* disturbed already.
WatchdogTick ==
    /\ \/ disturbed \/ silence = Never
       \/ quiet < TrafficGap /\ (stage # "none" => stageAge < StageTime[stage])
    /\ silence' = Older(silence, flowInactivityTimeout)
    /\ quiet' = IF disturbed \/ silence = Never THEN quiet ELSE quiet + 1
    /\ stageAge' = IF disturbed \/ stage = "none" THEN 0 ELSE
                   IF stageAge < StageTime[stage] THEN stageAge + 1 ELSE stageAge
    /\ UNCHANGED <<collector, stage, disturbed>>

FlowStep ==
    \/ RunCollector \/ CollectorStops
    \/ Traffic \/ Collect \/ Evict \/ SendFlow \/ SendFlowFails

--------------------------------------------------------------------------------
\* The flow watchdog never reports a pipeline whose stages all keep to their times,
\* not even when a flow that was sent at once is followed by one that took as long
\* as it may, nor before the first flow.
NoFalseAlarm == ~disturbed => ~FlowsStuck

\* When no flow has been sent for longer than the timeout it is reported, however
\* often the collector was started again.
QuietFlowsReported ==
    silence > flowInactivityTimeout /\ collectionAge # Never => FlowsStuck

--------------------------------------------------------------------------------
(***************************************************************************)
(* The inductive invariant behind the two: the detector's age is that of   *)
(* the last flow sent or of the first collector, and while nothing is      *)
(* disturbed it is at most what the oldest flow has taken so far after the *)
(* longest pause in the traffic.                                           *)
(***************************************************************************)
Timeout == FlowInactivityTimeout(ActiveTimeout, PollInterval, KeepalivePeriods)

\* The longest that the last flow sent can be ago.
Allowed ==
    CASE stage = "none"        -> quiet
      [] stage = "uncollected" -> TrafficGap + stageAge
      [] stage = "cached"      -> TrafficGap + StageTime["uncollected"] + stageAge
      [] stage = "evicted"     -> TrafficGap + StageTime["uncollected"]
                                    + StageTime["cached"] + stageAge

WatchdogTypeOK ==
    /\ collector \in {"none", "off", "on"}
    /\ stage \in {"none", "uncollected", "cached", "evicted"}
    /\ disturbed \in BOOLEAN
    /\ quiet \in 0..TrafficGap
    /\ stageAge \in 0..StageTime[stage]
    /\ flowInactivityTimeout \in Nat
    /\ {silence, collectionAge, flowSentAge} \subseteq Nat \cup {Never}

WatchdogIInv ==
    /\ WatchdogTypeOK
    /\ collector # "none" => flowInactivityTimeout = Timeout
    /\ silence # Never => collector # "none"
    /\ collector = "on" \/ stage \in {"cached", "evicted"} => silence # Never
    /\ collectionAge # Never <=> silence # Never /\ flowInactivityTimeout > 0
    /\ flowSentAge # Never => collectionAge # Never
    /\ collectionAge # Never =>
          silence = IF flowSentAge = Never THEN collectionAge ELSE flowSentAge
    /\ ~disturbed /\ silence # Never => silence <= Allowed
================================================================================
