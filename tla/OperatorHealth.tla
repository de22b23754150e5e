------------------------------ MODULE OperatorHealth ------------------------------
(***************************************************************************)
(* The two users of the deadlock detector, the resource stream and the     *)
(* flow pipeline, on one clock.                                            *)
(***************************************************************************)
EXTENDS ResourceMirror, FlowWatchdog

operatorVars == <<resourceVars, flowLivenessVars, watchdogVars>>

\* No collector was detected and the flow watchdog is off; or the resource stream
\* has had its sessions and only flows are left.
HealthInit ==
    \/ MirrorInit(0) /\ DetectorInit(FALSE) /\ WatchdogInit(FALSE)
    \/ MirrorInit(MaxSessions) /\ DetectorInit(TRUE) /\ WatchdogInit(TRUE)

Tick ==
    /\ DetectorTick /\ BusyTick /\ WatchdogTick
    /\ UNCHANGED <<log, run, ctx, cur, clientVars, streamVars, serverVars, overlapped>>

HealthNext ==
    \/ ResourceNext /\ UNCHANGED watchdogVars
    \/ FlowStep /\ UNCHANGED <<log, run, ctx, cur, clientVars, streamVars, serverVars, healthVars>>
    \/ Tick

HealthSpec == HealthInit /\ [][HealthNext]_operatorVars /\ ResourceFairness

--------------------------------------------------------------------------------
\* When healthz fails, something has really stalled: a Run of the resource stream has
\* been processing for longer than its timeout, or a stage of the flow pipeline
\* has not kept to its time.
AlarmsAreReal == AlarmIsReal /\ NoFalseAlarm

\* What has stalled makes healthz fail: a Run stuck before its snapshot is complete,
\* and a flow pipeline that sends nothing, however often it is restarted.
StallsAreReported == StuckIsReported /\ QuietFlowsReported
================================================================================
