----------------------------- MODULE ResourceStream ----------------------------
(***************************************************************************)
(* The SendKubernetesResources stream, from the cluster to the runtime     *)
(* cache.  A session is one resourcesClient.Run with the watcher it        *)
(* starts: it lists, swaps what it listed into the runtime cache, and then *)
(* applies watch events one by one, each after it was handed to the        *)
(* goroutine that forwards it to CloudSecure (not modelled here).          *)
(*                                                                         *)
(* List and watch touch the cache one after the other, so a session is one *)
(* writer of the runtime cache, and RuntimeWriters bounds the sessions.    *)
(* When Run returns it cancels its watcher and does not wait for it, so    *)
(* the watcher may still have an event in hand when the next session opens *)
(* (Overlap = "watchers").  overtaken records the keys whose entry such a    *)
(* late write left in the cache: an auxiliary variable, nothing reads it.  *)
(***************************************************************************)
EXTENDS ObjectCache, Cluster

CONSTANT KindMayVanish  \* may the kind be unavailable (no CRD, or no RBAC)?

ASSUME ResourceAssumption == KindMayVanish \in BOOLEAN

VARIABLES
    watching, \* watching[s]: where Run and its watcher are
    listed,   \* listed[s]: what the List call returned
    snapshot, \* snapshot[s]: pendingSnapshot
    version,  \* version[s]: lastResourceVersion, a position in history
    event,    \* event[s]: the event taken from the watch, until handled
    latest,   \* the session opened last
    overtaken \* the keys last written by a watcher of an earlier session, after
              \* the session opened last put its snapshot in (auxiliary)

resourceVars == <<watching, listed, snapshot, version, event, latest, overtaken>>

Phases   == {"new", "open", "listed", "filtered", "skipped", "watch", "unwatched",
             "over"}
NoEvent  == Nothing
NoList   == [k \in Keys |-> NoObject]

ResourceTypeOK ==
    /\ watching \in [RuntimeWriters -> Phases]
    /\ listed \in [RuntimeWriters -> [Keys -> ClusterObjects \cup {NoObject}]]
    /\ snapshot \in [RuntimeWriters -> Contents]
    /\ version \in [RuntimeWriters -> Nat]
    /\ event \in [RuntimeWriters -> Events \cup {NoEvent}]
    /\ latest \in RuntimeWriters \cup {Nothing}
    /\ overtaken \subseteq Keys

ResourceInit ==
    /\ watching = [s \in RuntimeWriters |-> "new"]
    /\ listed = [s \in RuntimeWriters |-> NoList]
    /\ snapshot = [s \in RuntimeWriters |-> Empty]
    /\ version = [s \in RuntimeWriters |-> 0]
    /\ event = [s \in RuntimeWriters |-> NoEvent]
    /\ latest = Nothing
    /\ overtaken = {}

--------------------------------------------------------------------------------
\* As for the config stream, the last session is never cut.
WatchSessionLeft == \E s \in RuntimeWriters : watching[s] = "new"

\* Mutant of Tracked: ownership by managedFields alone.
TrackedByManager(k, obj) == obj.owned /\ k \in Supported

\* What newRuntimeCacheHandler lets through: objects the operator owns, or that
\* are in the runtime cache when the handler runs, and of a supported kind.
Tracked(k, obj) ==
    /\ obj.owned \/ Get("runtime", k) # NoObject
    /\ k \in Supported

OpenResourceStream(s) ==
    /\ watching[s] = "new"
    /\ \A u \in RuntimeWriters :
          watching[u] \notin {"new", "over"} =>
              /\ cancelled[u]
              /\ \/ Overlap = "all"
                 \/ Overlap = "watchers" /\ watching[u] = "watch"
    /\ watching' = [watching EXCEPT ![s] = "open"]
    /\ latest' = s
    /\ UNCHANGED <<listed, snapshot, version, event, overtaken>>
    /\ UNCHANGED cacheVars

DynamicListResources(s) ==
    /\ watching[s] = "open"
    /\ ~cancelled[s]
    /\ watching' = [watching EXCEPT ![s] = "listed"]
    /\ listed' = [listed EXCEPT ![s] = cluster]
    /\ version' = [version EXCEPT ![s] = Len(history)]
    /\ UNCHANGED <<snapshot, event, latest, overtaken>>
    /\ UNCHANGED cacheVars

\* Mutant of FilterListed: the version to watch from is taken after the list.
FilterTakesVersion(s) ==
    /\ watching[s] = "listed"
    /\ watching' = [watching EXCEPT ![s] = "filtered"]
    /\ snapshot' = [snapshot EXCEPT ![s] =
          [k \in Keys |-> IF listed[s][k] # NoObject /\ Tracked(k, listed[s][k])
                          THEN listed[s][k].val ELSE NoObject]]
    /\ version' = [version EXCEPT ![s] = Len(history)]
    /\ UNCHANGED <<listed, event, latest, overtaken>>
    /\ UNCHANGED cacheVars

FilterListed(s) ==
    /\ watching[s] = "listed"
    /\ watching' = [watching EXCEPT ![s] = "filtered"]
    /\ snapshot' = [snapshot EXCEPT ![s] =
          [k \in Keys |-> IF listed[s][k] # NoObject /\ Tracked(k, listed[s][k])
                          THEN listed[s][k].val ELSE NoObject]]
    /\ UNCHANGED <<listed, version, event, latest, overtaken>>
    /\ UNCHANGED cacheVars

\* A kind that cannot be listed is skipped: nothing of it is in the snapshot,
\* and it will not be watched.
ListUnavailable(s) ==
    /\ KindMayVanish
    /\ watching[s] = "open"
    /\ ~cancelled[s]
    /\ watching' = [watching EXCEPT ![s] = "skipped"]
    /\ UNCHANGED <<listed, snapshot, version, event, latest, overtaken>>
    /\ UNCHANGED cacheVars

\* Run and its watcher return; their locals are gone.
WatchReturns(s) ==
    /\ watching' = [watching EXCEPT ![s] = "over"]
    /\ listed' = [listed EXCEPT ![s] = NoList]
    /\ snapshot' = [snapshot EXCEPT ![s] = Empty]
    /\ version' = [version EXCEPT ![s] = 0]
    /\ event' = [event EXCEPT ![s] = NoEvent]
    /\ UNCHANGED latest

ReplaceRuntime(s) ==
    /\ watching[s] \in {"filtered", "skipped"}
    /\ overtaken' = {}
    /\ \/ /\ ReplaceAll(s, snapshot[s])
          /\ watching' = [watching EXCEPT ![s] =
                            IF @ = "filtered" THEN "watch" ELSE "unwatched"]
          /\ listed' = [listed EXCEPT ![s] = NoList]
          /\ snapshot' = [snapshot EXCEPT ![s] = Empty]
          /\ UNCHANGED <<version, event, latest>>
       \/ ReplaceAllFails(s, snapshot[s]) /\ WatchReturns(s)

\* processMutation: the next event, handed over to Run.
TakeEvent(s) ==
    /\ watching[s] = "watch"
    /\ notifying[s] = Nothing
    /\ event[s] = NoEvent
    /\ ~cancelled[s]
    /\ version[s] < Len(history)
    /\ event' = [event EXCEPT ![s] = history[version[s] + 1]]
    /\ UNCHANGED <<watching, listed, snapshot, version, latest, overtaken>>
    /\ UNCHANGED cacheVars

\* The runtime cache handler.  Its error is logged only, so the resource
\* version advances whatever it does.
HandleEvent(s) ==
    /\ event[s] # NoEvent
    /\ LET e == event[s] IN
          \/ Tracked(e.key, e.obj) /\ ~e.deleted /\ Insert(s, e.key, e.obj.val)
          \/ Tracked(e.key, e.obj) /\ e.deleted /\ Delete(s, e.key)
          \/ ~Tracked(e.key, e.obj) /\ UNCHANGED cacheVars
    /\ event' = [event EXCEPT ![s] = NoEvent]
    /\ version' = [version EXCEPT ![s] = @ + 1]
    /\ overtaken' = IF s # latest THEN overtaken \cup {event[s].key}
                    ELSE overtaken \ {event[s].key}
    /\ UNCHANGED <<watching, listed, snapshot, latest>>

\* A kind that cannot be watched any more stops its watcher, not the session:
\* the cache keeps what it has until the next session lists again.
WatchUnavailable(s) ==
    /\ KindMayVanish
    /\ watching[s] = "watch"
    /\ notifying[s] = Nothing
    /\ event[s] = NoEvent
    /\ watching' = [watching EXCEPT ![s] = "unwatched"]
    /\ UNCHANGED <<listed, snapshot, version, event, latest, overtaken>>
    /\ UNCHANGED cacheVars

\* The rest of a cache call.  A watcher that gave up finds its context done.
NotifyRuntime(s) ==
    \/ (SendNote(s) \/ DrainNote(s)) /\ UNCHANGED resourceVars
    \/ GiveUpNote(s) /\ WatchReturns(s) /\ UNCHANGED overtaken

\* A failed List or Send, an expired resource version, or a done context.  A
\* watch that merely closes is resumed at the same version: no step here.
ResourceStreamBreaks(s) ==
    /\ watching[s] \notin {"new", "over"}
    /\ notifying[s] = Nothing
    /\ event[s] = NoEvent
    /\ cancelled[s] \/ WatchSessionLeft
    /\ WatchReturns(s)
    /\ UNCHANGED overtaken
    /\ UNCHANGED cacheVars

CancelResourceStream(s) ==
    /\ watching[s] \notin {"new", "over"}
    /\ WatchSessionLeft
    /\ Cancel(s)
    /\ UNCHANGED resourceVars

ResourceClientStep(s) ==
    \/ DynamicListResources(s)
    \/ FilterListed(s)
    \/ ReplaceRuntime(s)
    \/ TakeEvent(s)
    \/ HandleEvent(s)
    \/ NotifyRuntime(s)

ResourceSessionStep(s) ==
    \/ OpenResourceStream(s)
    \/ ResourceClientStep(s)
    \/ ListUnavailable(s)
    \/ WatchUnavailable(s)
    \/ ResourceStreamBreaks(s)
    \/ CancelResourceStream(s)

--------------------------------------------------------------------------------
\* The current session has handled every event there is.
WatchCaughtUp(s) ==
    /\ s = latest
    /\ watching[s] = "watch"
    /\ event[s] = NoEvent
    /\ version[s] = Len(history)

\* Once the watcher of the current session has handled every event, the runtime
\* cache equals the cluster: owned objects are there with their content, deleted
\* objects are not, objects of other users are not unless they were tracked
\* before.  A gap or an overlap between list and watch would break it.  The
\* exception is a key into which the watcher of an earlier session, cancelled
\* with an event in hand, has written since: the cache may keep that old event
\* until the object changes again or the next session lists.
WatchCaughtUpMeansEqual ==
    \A s \in RuntimeWriters : \A k \in Supported \ overtaken :
        WatchCaughtUp(s) =>
            IF cluster[k] # NoObject /\ Tracked(k, cluster[k])
            THEN objects["runtime"][k] = cluster[k].val
            ELSE objects["runtime"][k] = NoObject

(***************************************************************************)
(* The inductive invariant behind WatchCaughtUpMeansEqual, where nothing   *)
(* of a session but its watcher outlives it.  A watch replays all that     *)
(* came after the list, and what the handler makes of an event depends on  *)
(* no earlier event: after the last event of an object the cache agrees    *)
(* with the cluster, and an object without a later event is as it was when *)
(* it was listed.                                                          *)
(***************************************************************************)
AfterEvent(e) == IF e.deleted THEN NoObject ELSE e.obj

LastEventTells ==
    \A i \in 1..Len(history) :
        (\A j \in (i + 1)..Len(history) : history[j].key # history[i].key) =>
            cluster[history[i].key] = AfterEvent(history[i])

\* No event of k is ahead of the session.
NothingAhead(s, k) == \A i \in (version[s] + 1)..Len(history) : history[i].key # k

\* v is what the runtime cache may hold when the cluster holds obj.
Agrees(v, obj) ==
    IF v = NoObject THEN obj = NoObject \/ ~obj.owned
    ELSE obj # NoObject /\ obj.val = v

EventInHandOK(s) ==
    event[s] # NoEvent =>
        /\ watching[s] = "watch"
        /\ version[s] < Len(history)
        /\ event[s] = history[version[s] + 1]

WatchSessionOK(s) ==
    /\ version[s] <= Len(history)
    /\ \A k \in Supported : NothingAhead(s, k) =>
          /\ watching[s] = "listed" => listed[s][k] = cluster[k]
          /\ watching[s] = "filtered" => Agrees(snapshot[s][k], cluster[k])
          /\ watching[s] = "watch" /\ k \notin overtaken =>
                Agrees(objects["runtime"][k], cluster[k])

\* Of the sessions before the latest only a watcher may be left.
OneWatchSession ==
    \A s \in RuntimeWriters :
        watching[s] \notin {"new", "over", "watch", "unwatched"} => s = latest

NewSessionsFresh ==
    \A s \in RuntimeWriters : watching[s] = "new" => version[s] = 0

WatchIInv ==
    /\ LastEventTells
    /\ OneWatchSession
    /\ NewSessionsFresh
    /\ \A s \in RuntimeWriters :
          EventInHandOK(s) /\ (s = latest => WatchSessionOK(s))
================================================================================
