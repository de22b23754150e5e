------------------------------- MODULE FlowCache -------------------------------
(***************************************************************************)
(* The flow cache and the stream that empties it.  Collectors put flows    *)
(* into inFlows; Run keeps at most maxFlows of them, sorted by start time, *)
(* and evicts the oldest ones to OutFlows when they have been active long  *)
(* enough or room is needed; networkFlowsClient sends OutFlows to          *)
(* CloudSecure.  The cache outlives the stream: Run and the client end     *)
(* with their session's context and the next session starts them again on  *)
(* the same cache.                                                         *)
(*                                                                         *)
(* A session starts at least StreamInitialBackoff (a second) after the     *)
(* last one was cancelled, and the old Run only waits in selects on the    *)
(* cancelled context, so two Runs are not modelled at the same time.       *)
(***************************************************************************)
EXTENDS Naturals, Sequences, FiniteSets

CONSTANTS
    FlowKeys,        \* the values of Flow.Key()
    activeTimeout,
    maxFlows,
    outCapacity,     \* the buffer of OutFlows
    MaxTime,         \* the clock stops here, for every later time
    MaxFlowsSeen,    \* bound on the flows collected
    MaxSessions      \* bound on the sessions of the stream

ASSUME FlowAssumption ==
    /\ activeTimeout \in Nat /\ maxFlows \in Nat \ {0} /\ outCapacity \in Nat
    /\ MaxTime \in Nat /\ MaxFlowsSeen \in Nat /\ MaxSessions \in Nat \ {0}

VARIABLES
    queue,      \* the cached flows, oldest first
    cache,      \* the keys of the map
    inFlows, OutFlows,
    timer,      \* when Run's timer fires; <<>> once it has
    run,        \* Run: "off", "select", "evicting" (timer) or "room" (capacity)
    evicted,    \* the flow Run has removed and not yet put into OutFlows
    incoming,   \* the flow Run wants to add once there is room
    cutoff,     \* the time evictExpiredFlows compares with, while it runs
    client,     \* networkFlowsClient.Run: "off" or "on"
    cancelled,  \* the session's context is done
    session,    \* sessions so far
    started,    \* when the session started (auxiliary)
    now,
    seen,       \* flows collected, and (auxiliary) what became of them:
    skipped, sent, lost

runVars     == <<queue, cache, timer, run, evicted, incoming, cutoff>>
sessionVars == <<client, cancelled, session, started>>
counts      == <<skipped, sent, lost>>
flowVars    == <<runVars, sessionVars, counts, inFlows, OutFlows, now, seen>>

Flows == [Key : FlowKeys, StartTimestamp : 0..MaxTime]
Maybe(S) == {<<>>} \cup {<<x>> : x \in S}

\* When a flow that started at t has been active for activeTimeout.
Expiry(t) == IF t + activeTimeout > MaxTime THEN MaxTime ELSE t + activeTimeout

\* Type invariant of FlowCache and its stream; Run holds a flow outside the cache
\* exactly while it waits for room in OutFlows.
FlowTypeOK ==
    /\ queue \in Seq(Flows)
    /\ cache \subseteq FlowKeys
    /\ inFlows \in Maybe(Flows)
    /\ OutFlows \in Seq(Flows) /\ Len(OutFlows) <= outCapacity
    /\ timer \in Maybe(0..MaxTime)
    /\ run \in {"off", "select", "evicting", "room"}
    /\ evicted \in Maybe(Flows) /\ incoming \in Maybe(Flows)
    /\ (evicted # <<>>) <=> (run \in {"evicting", "room"})
    /\ (incoming # <<>>) <=> (run = "room")
    /\ {cutoff, started, now} \subseteq 0..MaxTime
    /\ client \in {"off", "on"}
    /\ cancelled \in BOOLEAN
    /\ session \in 0..MaxSessions
    /\ seen \in 0..MaxFlowsSeen
    /\ {skipped, sent, lost} \subseteq Nat

FlowInit ==
    /\ queue = <<>> /\ cache = {} /\ inFlows = <<>> /\ OutFlows = <<>>
    /\ timer = <<>> /\ run = "off" /\ evicted = <<>> /\ incoming = <<>>
    /\ cutoff = 0 /\ client = "off" /\ cancelled = FALSE
    /\ session = 0 /\ started = 0 /\ now = 0
    /\ seen = 0 /\ skipped = 0 /\ sent = 0 /\ lost = 0

--------------------------------------------------------------------------------
Tick ==
    /\ now < MaxTime
    /\ now' = now + 1
    /\ UNCHANGED <<runVars, sessionVars, counts, inFlows, OutFlows, seen>>

\* A collector hands over a flow, when the channel has room for it.  Flows of
\* several sources arrive out of order.
CacheFlow ==
    /\ inFlows = <<>>
    /\ seen < MaxFlowsSeen
    /\ seen' = seen + 1
    /\ \E k \in FlowKeys, t \in 0..now :
          inFlows' = <<[Key |-> k, StartTimestamp |-> t]>>
    /\ UNCHANGED <<runVars, sessionVars, counts, OutFlows, now>>

--------------------------------------------------------------------------------
\* What Run does to its cache.

\* The place to insert a flow that started at t: after the last one that is not
\* younger.
PlaceFor(t, q) ==
    CHOOSE i \in 0..Len(q) :
        /\ i = 0 \/ q[i].StartTimestamp <= t
        /\ \A j \in (i + 1)..Len(q) : q[j].StartTimestamp > t

InsertAfter(q, i, f) == SubSeq(q, 1, i) \o <<f>> \o SubSeq(q, i + 1, Len(q))

\* addFlowToCache.
Sorted(f, q) == InsertAfter(q, PlaceFor(f.StartTimestamp, q), f)

addFlowToCache(f, q, c) ==
    /\ queue' = Sorted(f, q)
    /\ cache' = c \cup {f.Key}

\* Mutant of ResetTimer: the timer is only set when it was not.
ResetTimerOnce(q, old) ==
    timer' = IF q = <<>> \/ old # <<>> THEN old
             ELSE <<Expiry(Head(q).StartTimestamp)>>

\* resetTimerForNextExpiration, for the queue q; an empty one leaves the timer.
ResetTimer(q, old) ==
    timer' = IF q = <<>> THEN old ELSE <<Expiry(Head(q).StartTimestamp)>>

\* Mutant of RemoveFront: the map keeps the key.
RemoveFrontOnly ==
    /\ evicted' = <<Head(queue)>>
    /\ queue' = Tail(queue)
    /\ cache' = cache

RemoveFront ==
    /\ evicted' = <<Head(queue)>>
    /\ queue' = Tail(queue)
    /\ cache' = cache \ {Head(queue).Key}

\* Mutant of EvictTurn: the timer is not set again for the flows that stay.
EvictTurnOnce(limit) ==
    IF queue # <<>> /\ Expiry(Head(queue).StartTimestamp) <= limit
    THEN /\ RemoveFront
         /\ run' = "evicting"
         /\ cutoff' = limit
         /\ UNCHANGED timer
    ELSE /\ evicted' = <<>>
         /\ run' = "select"
         /\ cutoff' = 0
         /\ timer' = <<>>
         /\ UNCHANGED <<queue, cache>>

\* One more turn of evictExpiredFlows' loop, or its end and the reset of the timer.
EvictTurn(limit) ==
    IF queue # <<>> /\ Expiry(Head(queue).StartTimestamp) <= limit
    THEN /\ RemoveFront
         /\ run' = "evicting"
         /\ cutoff' = limit
         /\ UNCHANGED timer
    ELSE /\ evicted' = <<>>
         /\ run' = "select"
         /\ cutoff' = 0
         /\ ResetTimer(queue, <<>>)
         /\ UNCHANGED <<queue, cache>>

--------------------------------------------------------------------------------
TimerFires ==
    /\ run = "select"
    /\ timer # <<>>
    /\ timer[1] <= now
    /\ EvictTurn(now)
    /\ UNCHANGED <<incoming, sessionVars, counts, inFlows, OutFlows, now, seen>>

SendExpired ==
    /\ run = "evicting"
    /\ Len(OutFlows) < outCapacity
    /\ OutFlows' = OutFlows \o evicted
    /\ EvictTurn(cutoff)
    /\ UNCHANGED <<incoming, sessionVars, counts, inFlows, now, seen>>

\* The context is done: the flow is dropped and the loop left.
DropExpired ==
    /\ run = "evicting"
    /\ cancelled
    /\ lost' = lost + 1
    /\ evicted' = <<>> /\ cutoff' = 0
    /\ run' = "select"
    /\ ResetTimer(queue, <<>>)
    /\ UNCHANGED <<queue, cache, incoming, sessionVars, skipped, sent,
                   inFlows, OutFlows, now, seen>>

SkipFlow ==
    /\ run = "select"
    /\ inFlows # <<>>
    /\ inFlows[1].Key \in cache
    /\ inFlows' = <<>>
    /\ skipped' = skipped + 1
    /\ UNCHANGED <<runVars, sessionVars, sent, lost, OutFlows, now, seen>>

AddFlow ==
    /\ run = "select"
    /\ inFlows # <<>>
    /\ inFlows[1].Key \notin cache
    /\ Cardinality(cache) < maxFlows \/ queue = <<>>
    /\ inFlows' = <<>>
    /\ addFlowToCache(inFlows[1], queue, cache)
    /\ ResetTimer(queue', timer)
    /\ UNCHANGED <<run, evicted, incoming, cutoff, sessionVars, counts, OutFlows,
                   now, seen>>

\* shouldEvictOldest: the oldest flow leaves the cache before the new one enters.
TakeForRoom ==
    /\ run = "select"
    /\ inFlows # <<>>
    /\ inFlows[1].Key \notin cache
    /\ Cardinality(cache) >= maxFlows /\ queue # <<>>
    /\ RemoveFront
    /\ incoming' = inFlows
    /\ inFlows' = <<>>
    /\ run' = "room"
    /\ UNCHANGED <<timer, cutoff, sessionVars, counts, OutFlows, now, seen>>

\* Mutant of SendOldest: the evicted flow is not put into OutFlows.
ForgetOldest ==
    /\ run = "room"
    /\ Len(OutFlows) < outCapacity
    /\ addFlowToCache(incoming[1], queue, cache)
    /\ ResetTimer(queue', timer)
    /\ evicted' = <<>> /\ incoming' = <<>>
    /\ run' = "select"
    /\ UNCHANGED <<cutoff, sessionVars, counts, inFlows, OutFlows, now, seen>>

SendOldest ==
    /\ run = "room"
    /\ Len(OutFlows) < outCapacity
    /\ OutFlows' = OutFlows \o evicted
    /\ addFlowToCache(incoming[1], queue, cache)
    /\ ResetTimer(queue', timer)
    /\ evicted' = <<>> /\ incoming' = <<>>
    /\ run' = "select"
    /\ UNCHANGED <<cutoff, sessionVars, counts, inFlows, now, seen>>

\* evictOldestFlow fails with the context's error: Run returns, and with it goes
\* the evicted flow and the one it was to make room for.
DropOldest ==
    /\ run = "room"
    /\ cancelled
    /\ lost' = lost + 2
    /\ evicted' = <<>> /\ incoming' = <<>>
    /\ run' = "off"
    /\ timer' = <<>>
    /\ UNCHANGED <<queue, cache, cutoff, sessionVars, skipped, sent, inFlows,
                   OutFlows, now, seen>>

RunReturns ==
    /\ run = "select"
    /\ cancelled
    /\ run' = "off"
    /\ timer' = <<>>
    /\ UNCHANGED <<queue, cache, evicted, incoming, cutoff, sessionVars, counts,
                   inFlows, OutFlows, now, seen>>

Run ==
    \/ TimerFires \/ SendExpired \/ DropExpired
    \/ SkipFlow \/ AddFlow \/ TakeForRoom \/ SendOldest \/ DropOldest
    \/ RunReturns

--------------------------------------------------------------------------------
OpenFlowStream ==
    /\ client = "off" /\ run = "off"
    /\ session < MaxSessions
    /\ session' = session + 1
    /\ client' = "on" /\ run' = "select"
    /\ cancelled' = FALSE
    /\ started' = now
    /\ timer' = <<Expiry(now)>>
    /\ UNCHANGED <<queue, cache, evicted, incoming, cutoff, counts, inFlows,
                   OutFlows, now, seen>>

SendFlow ==
    /\ client = "on"
    /\ ~cancelled
    /\ OutFlows # <<>>
    /\ OutFlows' = Tail(OutFlows)
    /\ sent' = sent + 1
    /\ UNCHANGED <<runVars, sessionVars, skipped, lost, inFlows, now, seen>>

\* The stream is broken, or its context is done: the flow that was taken from
\* the channel is gone and the session ends.
SendFails ==
    /\ client = "on"
    /\ cancelled \/ session < MaxSessions
    /\ OutFlows # <<>>
    /\ OutFlows' = Tail(OutFlows)
    /\ lost' = lost + 1
    /\ client' = "off"
    /\ cancelled' = TRUE
    /\ UNCHANGED <<runVars, session, started, skipped, sent, inFlows, now, seen>>

\* A keepalive fails or the connection is closed.
CancelFlowStream ==
    /\ client = "on" /\ ~cancelled
    /\ session < MaxSessions
    /\ cancelled' = TRUE
    /\ UNCHANGED <<runVars, client, session, started, counts, inFlows, OutFlows,
                   now, seen>>

ClientReturns ==
    /\ client = "on" /\ cancelled
    /\ client' = "off"
    /\ UNCHANGED <<runVars, cancelled, session, started, counts, inFlows,
                   OutFlows, now, seen>>

FlowClient == SendFlow \/ SendFails \/ ClientReturns

FlowNext ==
    \/ Tick
    \/ CacheFlow
    \/ Run
    \/ OpenFlowStream
    \/ CancelFlowStream
    \/ FlowClient

\* Time passes, goroutines that can go on do, and the stream is opened again.
\* Nothing is assumed of collectors and failures.
FlowFairness ==
    /\ WF_flowVars(Tick)
    /\ WF_flowVars(Run)
    /\ WF_flowVars(RunReturns)
    /\ WF_flowVars(OpenFlowStream)
    /\ WF_flowVars(SendFlow)
    /\ WF_flowVars(ClientReturns)

FlowSafety == FlowInit /\ [][FlowNext]_flowVars
FlowSpec == FlowSafety /\ FlowFairness

--------------------------------------------------------------------------------
\* The map and the list of FlowCache agree: every cached key has one flow in the
\* list, whatever is evicted, skipped or dropped when the context ends in between.
QueueMatchesCache ==
    /\ cache = {queue[i].Key : i \in 1..Len(queue)}
    /\ \A i, j \in 1..Len(queue) : queue[i].Key = queue[j].Key => i = j

\* The list stays sorted by start time, oldest at the front, though flows arrive
\* out of order: evictExpiredFlows stops at the first flow that is too young.
QueueSorted ==
    \A i, j \in 1..Len(queue) :
        i < j => queue[i].StartTimestamp <= queue[j].StartTimestamp

\* The cache never holds more than maxFlows flows.
CapacityHolds == Len(queue) <= maxFlows

\* Run keeps the flow cache in order through every eviction, skip and lost session:
\* the list and the map agree, the list is sorted, and neither outgrows maxFlows.
CacheInOrder == FlowTypeOK /\ QueueMatchesCache /\ QueueSorted /\ CapacityHolds

\* While Run waits, its timer is set for the expiry of the oldest flow, except that
\* a flow left by an earlier session waits up to activeTimeout of the new one.
TimerCoversOldest ==
    run = "select" /\ queue # <<>> =>
        /\ timer # <<>>
        /\ \/ timer[1] <= Expiry(Head(queue).StartTimestamp)
           \/ timer[1] <= Expiry(started)

\* Every collected flow is in exactly one place: in a channel, in the cache, in
\* Run's hands, sent, skipped as a duplicate, or lost with a session.
EveryFlowAccounted ==
    seen = Len(inFlows) + Len(incoming) + Len(queue) + Len(evicted) + Len(OutFlows)
           + skipped + sent + lost

--------------------------------------------------------------------------------
(***************************************************************************)
(* The inductive invariant behind CacheInOrder, TimerCoversOldest and      *)
(* EveryFlowAccounted: while Run waits for room in OutFlows, the flow it   *)
(* will add afterwards still has a place, and no other flow has taken its  *)
(* key, since Run alone writes the cache.                                  *)
(***************************************************************************)
RoomIsKept ==
    run = "room" => incoming[1].Key \notin cache /\ Len(queue) < maxFlows

FlowIInv == CacheInOrder /\ TimerCoversOldest /\ EveryFlowAccounted /\ RoomIsKept

--------------------------------------------------------------------------------
\* Once collectors and failures stop, the cache and the channels run empty: no
\* flow stays cached for ever.
FlowsLeave ==
    <>[](queue = <<>> /\ evicted = <<>> /\ OutFlows = <<>>)
================================================================================
