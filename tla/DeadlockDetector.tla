---------------------------- MODULE DeadlockDetector ----------------------------
(***************************************************************************)
(* The process-wide detector behind /healthz: a flag with a start time for *)
(* the processing of resources, and a watchdog for network flows.  Time is *)
(* counted in ticks; a start time is kept as its age, which stops growing  *)
(* once it is past every limit.                                            *)
(***************************************************************************)
EXTENDS Integers, FiniteSetsExt

CONSTANTS
    ResourceProcessingTimeout,
    FlowInactivityKeepaliveMultiplier, FlowInactivityMargin,
    ActiveTimeout,      \* how long a flow stays in the flow cache
    PollInterval,       \* of the collector; not positive if it does not poll
    KeepalivePeriods    \* of the streams; those that are not positive are off

ASSUME DetectorAssumption ==
    /\ {ResourceProcessingTimeout, FlowInactivityKeepaliveMultiplier,
        FlowInactivityMargin, ActiveTimeout} \subseteq Nat
    /\ PollInterval \in Int
    /\ KeepalivePeriods \subseteq Int

VARIABLES
    processing,             \* dd.processingResources
    startedAge,             \* the age of dd.timeStarted
    flowInactivityTimeout,  \* 0 while the watchdog is off
    collectionAge,          \* the age of dd.flowCollectionStarted, or Never
    flowSentAge             \* the age of dd.lastFlowSent, or Never

detectorVars == <<processing, startedAge, flowInactivityTimeout, collectionAge, flowSentAge>>
flowLivenessVars == <<flowInactivityTimeout, collectionAge, flowSentAge>>

Never == -1

\* The shortest keepalive period that is on, or 0.
minKeepalivePeriod(keepalivePeriods) ==
    LET periods == {p \in keepalivePeriods : p > 0}
    IN  IF periods = {} THEN 0 ELSE Min(periods)

\* Mutant of FlowInactivityTimeout: the polling interval is not allowed for.
TimeoutWithoutPoll(activeTimeout, pollInterval, keepalivePeriods) ==
    FlowInactivityKeepaliveMultiplier * minKeepalivePeriod(keepalivePeriods)
        + activeTimeout + FlowInactivityMargin

FlowInactivityTimeout(activeTimeout, pollInterval, keepalivePeriods) ==
    FlowInactivityKeepaliveMultiplier * minKeepalivePeriod(keepalivePeriods)
        + Max({pollInterval, 0}) + activeTimeout + FlowInactivityMargin

\* One tick more, until limit is passed.
Older(age, limit) == IF age = Never \/ age > limit THEN age ELSE age + 1

\* ConfigureFlowLiveness, called with a timeout if there is a collector.
DetectorInit(watched) ==
    /\ processing = FALSE /\ startedAge = 0
    /\ flowInactivityTimeout =
          IF watched THEN FlowInactivityTimeout(ActiveTimeout, PollInterval, KeepalivePeriods)
          ELSE 0
    /\ collectionAge = Never /\ flowSentAge = Never

\* The start time is read only while the flag is on; it is forgotten with it.
SetProcessingResources(on) ==
    /\ processing' = on
    /\ startedAge' = 0
    /\ UNCHANGED flowLivenessVars

StartFlowCollection ==
    /\ collectionAge' = IF flowInactivityTimeout > 0 /\ collectionAge = Never
                        THEN 0 ELSE collectionAge
    /\ UNCHANGED <<processing, startedAge, flowInactivityTimeout, flowSentAge>>

RecordFlowSent ==
    /\ flowSentAge' = IF collectionAge # Never THEN 0 ELSE flowSentAge
    /\ UNCHANGED <<processing, startedAge, flowInactivityTimeout, collectionAge>>

DetectorTick ==
    /\ startedAge' = IF processing THEN Older(startedAge, ResourceProcessingTimeout) ELSE 0
    /\ collectionAge' = Older(collectionAge, flowInactivityTimeout)
    /\ flowSentAge' = Older(flowSentAge, flowInactivityTimeout)
    /\ UNCHANGED <<processing, flowInactivityTimeout>>

ResourcesStuck == processing /\ startedAge > ResourceProcessingTimeout

FlowsStuck ==
    /\ collectionAge # Never
    /\ flowInactivityTimeout < IF flowSentAge = Never THEN collectionAge ELSE flowSentAge

UnhealthyReason == ResourcesStuck \/ FlowsStuck
================================================================================
