----------------------------- MODULE StreamManager -----------------------------
(***************************************************************************)
(* ConnectStreams and ManageStream: one authenticated connection at a      *)
(* time, on it one goroutine per stream, and in each goroutine two nested  *)
(* retry loops.  The inner loop reconnects the stream; when it gives up,   *)
(* the outer loop sleeps and starts it again.  A stream that stops for     *)
(* good takes the whole connection down, and ConnectStreams opens another  *)
(* without waiting for the goroutines of the old one.                      *)
(*                                                                         *)
(* How a connection is made is in Onboarding, and OperatorSessions puts    *)
(* the two together.  Time is abstract: a sleep ends eventually, and an    *)
(* attempt may or may not have run long enough to count as a success.      *)
(***************************************************************************)
EXTENDS Backoff, FiniteSets

CONSTANTS
    Streams,                  \* the stream factories
    StopsRetries,             \* the streams whose client may return ErrStopRetries
    MaxConnections,           \* bound on the connections opened
    MaxFaults,                \* bound on failures and stops
    StreamInitialBackoff, StreamMaxBackoff, StreamMaxJitterPct,
    StreamSevereErrorThreshold, StreamExponentialFactor,
    ResetInitialBackoff, ResetMaxBackoff, ResetMaxJitterPct

ASSUME ManagerAssumption ==
    /\ StopsRetries \subseteq Streams
    /\ MaxConnections \in Nat \ {0} /\ MaxFaults \in Nat
    /\ {StreamInitialBackoff, StreamMaxBackoff, StreamSevereErrorThreshold,
        StreamExponentialFactor, ResetInitialBackoff, ResetMaxBackoff} \subseteq Nat
    /\ StreamInitialBackoff <= StreamMaxBackoff
    /\ {StreamMaxJitterPct, ResetMaxJitterPct} \subseteq 0..100

VARIABLES
    current,   \* the number of connections opened so far
    waiting,   \* ConnectStreams waits for its retry timer
    cancelled, \* cancelled[c]: the authCtx of connection c is done
    managed,   \* managed[c][f]: the ManageStream goroutine of f on c
    faults     \* failures so far

managerVars == <<current, waiting, cancelled, managed, faults>>

Connections == 1..MaxConnections

StreamOpts == Options(StreamInitialBackoff, StreamMaxBackoff, StreamMaxJitterPct,
                      StreamSevereErrorThreshold, StreamExponentialFactor)
\* The outer loop never gives up: its threshold is math.MaxInt.
ResetOpts  == [InitialBackoff |-> ResetInitialBackoff,
               MaxBackoff |-> ResetMaxBackoff, MaxJitterPct |-> ResetMaxJitterPct,
               ExponentialFactor |-> 1]

\* at: "none" (not started), "run" (in the action), "sleep" (inner loop), "reset"
\* (outer loop) or "done" (the done channel is closed).
Goroutine(at, inner, outer, sleep) ==
    [at |-> at, inner |-> inner, outer |-> outer, sleep |-> sleep]
FreshInner == resetBackoff(StreamOpts)
FreshOuter == ResetInitialBackoff
Unstarted  == Goroutine("none", FreshInner, FreshOuter, 0)
Started    == Goroutine("run", FreshInner, FreshOuter, 0)

\* Type invariant of ConnectStreams and its goroutines; the failures counted by
\* exponentialBackoff never exceed the threshold at which it gives up.
ManagerTypeOK ==
    /\ current \in 0..MaxConnections
    /\ waiting \in BOOLEAN
    /\ cancelled \in [Connections -> BOOLEAN]
    /\ \A c \in Connections, f \in Streams :
          /\ managed[c][f].at \in {"none", "run", "sleep", "reset", "done"}
          /\ managed[c][f].inner.consecutiveFailures
                \in 0..StreamSevereErrorThreshold
          /\ {managed[c][f].inner.backoff, managed[c][f].outer,
              managed[c][f].sleep} \subseteq Nat
    /\ faults \in 0..MaxFaults

\* So many of the failures have been spent.
ManagerInit(past) ==
    /\ current = 0
    /\ waiting = TRUE
    /\ cancelled = [c \in Connections |-> FALSE]
    /\ managed = [c \in Connections |-> [f \in Streams |-> Unstarted]]
    /\ faults = past

--------------------------------------------------------------------------------
Fault == faults < MaxFaults /\ faults' = faults + 1

\* The timer of ConnectStreams has fired and the connection is made: runStreamsOnce
\* starts every stream.
OpenConnection ==
    /\ waiting
    /\ current < MaxConnections
    /\ current' = current + 1
    /\ waiting' = FALSE
    /\ managed' = [managed EXCEPT ![current + 1] = [f \in Streams |-> Started]]
    /\ UNCHANGED <<cancelled, faults>>

\* Mutant of CloseConnection: the retry timer is not set again.
CloseWithoutTimer ==
    /\ ~waiting
    /\ \E f \in Streams : managed[current][f].at = "done"
    /\ cancelled' = [cancelled EXCEPT ![current] = TRUE]
    /\ UNCHANGED <<current, waiting, managed, faults>>

\* A done channel of the current connection is closed: runStreamsOnce returns,
\* its deferred calls cancel authCtx and close the connection.
CloseConnection ==
    /\ ~waiting
    /\ \E f \in Streams : managed[current][f].at = "done"
    /\ cancelled' = [cancelled EXCEPT ![current] = TRUE]
    /\ waiting' = TRUE
    /\ UNCHANGED <<current, managed, faults>>

Set(c, f, g) == managed' = [managed EXCEPT ![c][f] = g]

\* The inner loop's view of an error, after an attempt that ran long enough
\* (longSuccess) or not.
InnerAfter(g, longSuccess) == IF longSuccess THEN FreshInner ELSE g.inner

\* connectAndStream returns an error and the inner loop backs off.
BackOff(c, f) ==
    LET g == managed[c][f] IN
    \E longSuccess \in BOOLEAN :
        LET s == InnerAfter(g, longSuccess) IN
        /\ ~GivingUp(StreamOpts, s)
        /\ \E d \in Sleeps(StreamOpts, s) :
              Set(c, f, Goroutine("sleep", AddBackoff(StreamOpts, s), g.outer, d))

\* The inner loop gives up: the outer loop, which may see that the inner one
\* ran long enough, backs off in turn.
GiveUp(c, f) ==
    LET g == managed[c][f] IN
    \E longSuccess \in BOOLEAN, longAuth \in BOOLEAN :
        LET s == InnerAfter(g, longSuccess)
            o == [consecutiveFailures |-> 0,
                  backoff |-> IF longAuth THEN ResetInitialBackoff ELSE g.outer]
        IN
        /\ GivingUp(StreamOpts, s)
        /\ \E d \in Sleeps(ResetOpts, o) :
              Set(c, f, Goroutine("reset", FreshInner,
                                  AddBackoff(ResetOpts, o).backoff, d))

\* A stream on a cancelled connection fails with its context's error.
RunFails(c, f) ==
    /\ managed[c][f].at = "run"
    /\ IF cancelled[c] THEN UNCHANGED faults ELSE Fault
    /\ BackOff(c, f) \/ GiveUp(c, f)
    /\ UNCHANGED <<current, waiting, cancelled>>

\* The server closed the stream: a success, tried again after InitialBackoff.
RunReturnsNil(c, f) ==
    /\ managed[c][f].at = "run"
    /\ Fault
    /\ Set(c, f, Goroutine("sleep", FreshInner, managed[c][f].outer,
                           StreamInitialBackoff))
    /\ UNCHANGED <<current, waiting, cancelled>>

\* The client returned ErrStopRetries (the Cilium one does when there is no Hubble
\* Relay): both loops return it.
RunStops(c, f) ==
    /\ f \in StopsRetries
    /\ managed[c][f].at = "run"
    /\ current < MaxConnections
    /\ Fault
    /\ Set(c, f, Goroutine("done", FreshInner, FreshOuter, 0))
    /\ UNCHANGED <<current, waiting, cancelled>>

\* Mutant of Wake: connectAndStream does not look at the context.
WakeBlindly(c, f) ==
    /\ managed[c][f].at \in {"sleep", "reset"}
    /\ Set(c, f, [managed[c][f] EXCEPT !.at = "run", !.sleep = 0])
    /\ UNCHANGED <<current, waiting, cancelled, faults>>

\* A sleep ends.  connectAndStream looks at the context first.
Wake(c, f) ==
    /\ managed[c][f].at \in {"sleep", "reset"}
    /\ Set(c, f, [managed[c][f] EXCEPT
                    !.at = IF cancelled[c] THEN "done" ELSE "run", !.sleep = 0])
    /\ UNCHANGED <<current, waiting, cancelled, faults>>

ManageStream(c, f) ==
    \/ RunFails(c, f)
    \/ RunReturnsNil(c, f)
    \/ RunStops(c, f)
    \/ Wake(c, f)

--------------------------------------------------------------------------------
\* Every sleep of the inner loop lies between its initial and maximum backoff.
StreamSleepBounded ==
    \A c \in Connections, f \in Streams :
        managed[c][f].at = "sleep" =>
            managed[c][f].sleep \in StreamInitialBackoff..StreamMaxBackoff

\* When faults stop, every stream runs for good on the latest connection, also
\* the ones whose connection another stream took down.
StreamsComeBack ==
    <>[](~waiting /\ \A f \in Streams : managed[current][f].at = "run")

\* The goroutines of a connection that was closed end, if not with their process.
OldGoroutinesEnd ==
    \A c \in Connections, f \in Streams :
        cancelled[c] ~> managed[c][f].at \in {"done", "none"}

--------------------------------------------------------------------------------
(***************************************************************************)
(* The inductive invariant behind StreamSleepBounded and ManagerTypeOK.    *)
(***************************************************************************)
Goroutines ==
    [at : {"none", "run", "sleep", "reset", "done"},
     inner : [consecutiveFailures : 0..StreamSevereErrorThreshold, backoff : Nat],
     outer : Nat, sleep : Nat]

ManagerIInv ==
    /\ current \in 0..MaxConnections /\ waiting \in BOOLEAN
    /\ cancelled \in [Connections -> BOOLEAN]
    /\ managed \in [Connections -> [Streams -> Goroutines]]
    /\ faults \in 0..MaxFaults
    /\ ~waiting => current \in Connections
    /\ StreamSleepBounded
================================================================================
