------------------------------- MODULE PolicySync ------------------------------
(***************************************************************************)
(* Policy synchronisation end to end: CloudSecure's wishes arrive on the   *)
(* config stream, the state of the cluster on the resource stream, and the *)
(* reconciler makes the cluster follow the wishes.  The three run          *)
(* concurrently and share only the two caches.                             *)
(***************************************************************************)
EXTENDS ConfigStream, ResourceStream, Reconciler

syncVars == <<objects, ready, resourceChanged, notifying, cancelled,
              desired, wanted, edits, session, unsent, finished, mutations,
              held, pending, complete,
              cluster, history, clusterEdits,
              watching, listed, snapshot, version, event, latest, overtaken,
              control, todo, key, wish, written>>

SyncInit ==
    /\ NewObjectCache
    /\ StreamInit
    /\ ClusterInit
    /\ ResourceInit
    /\ ReconcilerInit

\* What the steps of one part leave alone.
ConfigOnly     == UNCHANGED <<clusterVars, resourceVars, reconcilerVars>>
ResourceOnly   == UNCHANGED <<streamVars, clusterVars, reconcilerVars>>
ReconcilerOnly == UNCHANGED <<streamVars, resourceVars>>
ClusterOnly    == UNCHANGED <<cacheVars, streamVars, resourceVars, reconcilerVars>>

ConfigSide     == ConfigStep /\ ConfigOnly
ResourceSide   == /\ \E s \in RuntimeWriters : ResourceSessionStep(s)
                  /\ ResourceOnly
ReconcilerSide == ReconcilerStep /\ ReconcilerOnly
ClusterSide    == (\E k \in Keys : OthersWrite(k)) /\ ClusterOnly

SyncNext == ConfigSide \/ ResourceSide \/ ReconcilerSide \/ ClusterSide

(***************************************************************************)
(* Fairness.  Goroutines that can run do; a select that finds a channel    *)
(* ready again and again takes it, as Go chooses among ready cases at      *)
(* random (strong fairness); the API server does not refuse for ever.      *)
(* Nothing is assumed of CloudSecure's and other users' edits, of cuts,    *)
(* cancellations and refused calls.                                        *)
(***************************************************************************)
ConfigGoroutine(s) ==
    /\ \/ OpenConfigStream(s)
       \/ ConfigClientStep(s)
       \/ cancelled[s] /\ ConfigStreamBreaks(s)
    /\ ConfigOnly

ResourceGoroutine(s) ==
    /\ \/ OpenResourceStream(s)
       \/ ResourceClientStep(s)
       \/ cancelled[s] /\ ResourceStreamBreaks(s)
    /\ ResourceOnly

ReconcilerGoroutine ==
    (DiscoverySucceeds \/ WaitForCaches \/ ReconcileRound) /\ ReconcilerOnly

Fairness ==
    /\ \A s \in ConfigWriters : WF_syncVars(ConfigGoroutine(s))
    /\ \A s \in RuntimeWriters : WF_syncVars(ResourceGoroutine(s))
    /\ WF_syncVars(ReconcilerGoroutine)
    /\ SF_syncVars((ApplyObject \/ DeleteObject) /\ ReconcilerOnly)
    /\ SF_syncVars(TimerFires /\ ReconcilerOnly)
    /\ \A c \in Caches :
          SF_syncVars(ProcessResourceChange(c) /\ ReconcilerOnly)

SyncSpec == SyncInit /\ [][SyncNext]_syncVars
FairSync == SyncSpec /\ Fairness

--------------------------------------------------------------------------------
\* Type invariant of both streams, the caches, the reconciler and the cluster.
SyncTypeOK ==
    /\ ConfigTypeOK
    /\ ClusterTypeOK
    /\ ResourceTypeOK
    /\ ReconcilerTypeOK

\* Whatever the operator does to the cluster, CloudSecure once asked for it:
\* an object is applied with a content that was wanted, and deleted only if
\* CloudSecure did not want it at some time.  Streams that break half way, lost
\* notes, caches not yet filled and reads that are stale when used do not
\* change that.
OperatorDoesWhatWasWanted ==
    \A k \in Keys : written[k] \subseteq wanted[k]

\* The cluster is as CloudSecure wants it: a wanted object has the wanted
\* content, and no object the operator owns is left over.
Converged(k) ==
    IF desired[k] # NoObject
    THEN cluster[k] # NoObject /\ cluster[k].val = desired[k]
    ELSE cluster[k] = NoObject \/ ~cluster[k].owned

\* The runtime cache holds what a cancelled watcher wrote late, and not what is
\* in the cluster.
MisledByLateWrite(k) ==
    k \in overtaken /\ ~Agrees(Get("runtime", k), cluster[k])

\* Once edits, cuts and refusals stop, the cluster follows CloudSecure's wishes
\* in every object, unless discovery failed for good and the reconciler never
\* started, or the reconciler compares the wish with an entry that a watcher of
\* an earlier session overwrote with an old event after the current session's
\* snapshot.  Nothing corrects that entry while the session lasts and the object
\* does not change, and the difference is never seen.
Converges ==
    <>[](control = "stopped" \/ \A k \in Supported :
            Converged(k) \/ MisledByLateWrite(k))

\* A writer waits for ever to send its note only if discovery failed for good:
\* Insert and Delete need a consumer, and neither the wait for both caches, nor
\* a round under way, nor the other cache's notes keep it from them.
WritersWaitOnlyForDiscovery ==
    []<>(control = "stopped" \/ \A w \in Writers : notifying[w] = Nothing)

\* ReplaceAll always gets its note out, whether or not the reconciler drains
\* the channel: a snapshot never blocks the stream that delivers it.
SnapshotNeverBlocks ==
    []<>(\A w \in Writers : notifying[w] # SnapshotReplaced)

\* No writer of a cache waits for ever for somebody to take its note: a snapshot's
\* note never does, and a single object's only if there will never be a consumer.
WritersGoOn == SnapshotNeverBlocks /\ WritersWaitOnlyForDiscovery

--------------------------------------------------------------------------------
(***************************************************************************)
(* The inductive invariant behind OperatorDoesWhatWasWanted.  The          *)
(* reconciler acts only after the config cache became ready, so what it    *)
(* holds in its hand was wanted when it was read; wanted only grows, so it *)
(* still counts when the API call is made, however late that is.           *)
(***************************************************************************)
RuntimeSupported ==
    \A k \in Keys \ Supported :
        /\ objects["runtime"][k] = NoObject
        /\ \A s \in RuntimeWriters : snapshot[s][k] = NoObject

WishWasWanted ==
    control \in {"get", "apply", "delete"} =>
        /\ key \in Keys
        /\ key \in Supported => wish \in wanted[key]
        /\ key \notin Supported => wish = NoObject

DecisionIsSound ==
    /\ control = "apply" => wish # NoObject
    /\ control = "delete" => wish = NoObject /\ key \in Supported

SyncIInv ==
    /\ SyncTypeOK
    /\ ConfigIInv
    /\ RuntimeSupported
    /\ control \notin {"discover", "wait", "stopped"} => ready["config"]
    /\ WishWasWanted
    /\ DecisionIsSound
    /\ OperatorDoesWhatWasWanted
================================================================================
