------------------------------- MODULE Reconciler ------------------------------
(***************************************************************************)
(* The reconciler goroutine: it discovers the API groups, waits for both   *)
(* caches, reconciles everything once, and then reconciles what the notes  *)
(* name and, every interval, everything.  The reads of the caches and the  *)
(* call to the API server are separate steps: both caches and the cluster  *)
(* may have changed by the time the call is made.                          *)
(***************************************************************************)
EXTENDS ObjectCache, Cluster

CONSTANT DiscoveryMayFail  \* may every discovery attempt fail?

ASSUME ReconcilerAssumption == DiscoveryMayFail \in BOOLEAN

VARIABLES
    control,  \* where the goroutine is
    todo,     \* the keys this round has yet to reconcile
    key,      \* the key being reconciled
    wish,     \* configObj, as read for key
    written   \* written[k]: all the operator made of k (auxiliary)

reconcilerVars == <<control, todo, key, wish, written>>

Controls == {"discover", "wait", "keysConfig", "keysRuntime", "each", "get",
             "apply", "delete", "idle", "stopped"}

ReconcilerTypeOK ==
    /\ control \in Controls
    /\ todo \subseteq Keys
    /\ key \in Keys \cup {Nothing}
    /\ wish \in Objects
    /\ written \in [Keys -> SUBSET Objects]

ReconcilerInit ==
    /\ control = "discover"
    /\ todo = {}
    /\ key = Nothing
    /\ wish = NoObject
    /\ written = [k \in Keys |-> {}]

--------------------------------------------------------------------------------
DiscoverySucceeds ==
    /\ control = "discover"
    /\ control' = "wait"
    /\ UNCHANGED <<todo, key, wish, written>>
    /\ UNCHANGED cacheVars /\ UNCHANGED clusterVars

\* All five attempts failed: "reconciler will not start".  A failure that is
\* followed by another attempt changes nothing.
DiscoveryGivesUp ==
    /\ control = "discover"
    /\ DiscoveryMayFail
    /\ control' = "stopped"
    /\ UNCHANGED <<todo, key, wish, written>>
    /\ UNCHANGED cacheVars /\ UNCHANGED clusterVars

\* Mutant of WaitForCaches: one ready cache is enough.
WaitForOneCache ==
    /\ control = "wait"
    /\ \E c \in Caches : ready[c]
    /\ control' = "keysConfig"
    /\ UNCHANGED <<todo, key, wish, written>>
    /\ UNCHANGED cacheVars /\ UNCHANGED clusterVars

WaitForCaches ==
    /\ control = "wait"
    /\ \A c \in Caches : ready[c]
    /\ control' = "keysConfig"
    /\ UNCHANGED <<todo, key, wish, written>>
    /\ UNCHANGED cacheVars /\ UNCHANGED clusterVars

\* reconcileAll collects the keys of the two caches, one after the other.
CollectConfigKeys ==
    /\ control = "keysConfig"
    /\ control' = "keysRuntime"
    /\ todo' = KeysIn("config")
    /\ UNCHANGED <<key, wish, written>>
    /\ UNCHANGED cacheVars /\ UNCHANGED clusterVars

\* Mutant of CollectRuntimeKeys: only configured objects are reconciled.
CollectNoRuntimeKeys ==
    /\ control = "keysRuntime"
    /\ control' = "each"
    /\ UNCHANGED <<todo, key, wish, written>>
    /\ UNCHANGED cacheVars /\ UNCHANGED clusterVars

CollectRuntimeKeys ==
    /\ control = "keysRuntime"
    /\ control' = "each"
    /\ todo' = todo \cup KeysIn("runtime")
    /\ UNCHANGED <<key, wish, written>>
    /\ UNCHANGED cacheVars /\ UNCHANGED clusterVars

\* reconcileObject: read config, then runtime, then decide.
GetConfig(k) ==
    /\ control = "each"
    /\ k \in todo
    /\ todo' = todo \ {k}
    /\ key' = k
    /\ wish' = Get("config", k)
    /\ control' = "get"
    /\ UNCHANGED <<written>>
    /\ UNCHANGED cacheVars /\ UNCHANGED clusterVars

GetRuntime ==
    /\ control = "get"
    /\ control' = CASE wish # NoObject /\ wish # Get("runtime", key) -> "apply"
                    [] wish = NoObject /\ Get("runtime", key) # NoObject -> "delete"
                    [] OTHER -> "each"
    /\ UNCHANGED <<todo, key, wish, written>>
    /\ UNCHANGED cacheVars /\ UNCHANGED clusterVars

ApplyObject ==
    /\ control = "apply"
    /\ ApplyResource(key, wish)
    /\ written' = [written EXCEPT ![key] = @ \cup {wish}]
    /\ control' = "each"
    /\ UNCHANGED <<todo, key, wish, clusterEdits>>
    /\ UNCHANGED cacheVars

DeleteObject ==
    /\ control = "delete"
    /\ DeleteResource(key)
    /\ written' = [written EXCEPT ![key] = @ \cup {NoObject}]
    /\ control' = "each"
    /\ UNCHANGED <<todo, key, wish, clusterEdits>>
    /\ UNCHANGED cacheVars

\* The API server refuses, or the kind was not discovered: logged, next key.
CallFails ==
    /\ control \in {"apply", "delete"}
    /\ control' = "each"
    /\ UNCHANGED <<todo, key, wish, written>>
    /\ UNCHANGED cacheVars /\ UNCHANGED clusterVars

RoundEnds ==
    /\ control = "each"
    /\ todo = {}
    /\ control' = "idle"
    /\ key' = Nothing
    /\ wish' = NoObject
    /\ UNCHANGED <<todo, written>>
    /\ UNCHANGED cacheVars /\ UNCHANGED clusterVars

\* The select of the main loop.
TimerFires ==
    /\ control = "idle"
    /\ control' = "keysConfig"
    /\ UNCHANGED <<todo, key, wish, written>>
    /\ UNCHANGED cacheVars /\ UNCHANGED clusterVars

\* Mutant of ProcessResourceChange: "*" is taken for a key.
ProcessAnyKey(c) ==
    /\ control = "idle"
    /\ TakeNote(c)
    /\ control' = "each" /\ todo' = {resourceChanged[c]}
    /\ UNCHANGED <<key, wish, written>>
    /\ UNCHANGED clusterVars

\* Mutant of ProcessResourceChange: the select has no case for the runtime cache.
ProcessConfigOnly(c) ==
    /\ c = "config"
    /\ control = "idle"
    /\ TakeNote(c)
    /\ IF resourceChanged[c] = SnapshotReplaced
       THEN control' = "keysConfig" /\ UNCHANGED todo
       ELSE control' = "each" /\ todo' = {resourceChanged[c]}
    /\ UNCHANGED <<key, wish, written>>
    /\ UNCHANGED clusterVars

ProcessResourceChange(c) ==
    /\ control = "idle"
    /\ TakeNote(c)
    /\ IF resourceChanged[c] = SnapshotReplaced
       THEN control' = "keysConfig" /\ UNCHANGED todo
       ELSE control' = "each" /\ todo' = {resourceChanged[c]}
    /\ UNCHANGED <<key, wish, written>>
    /\ UNCHANGED clusterVars

ReconcileRound ==
    \/ CollectConfigKeys
    \/ CollectRuntimeKeys
    \/ \E k \in Keys : GetConfig(k)
    \/ GetRuntime
    \/ ApplyObject
    \/ DeleteObject
    \/ RoundEnds

ReconcilerStep ==
    \/ DiscoverySucceeds
    \/ DiscoveryGivesUp
    \/ WaitForCaches
    \/ ReconcileRound
    \/ CallFails
    \/ TimerFires
    \/ \E c \in Caches : ProcessResourceChange(c)
================================================================================
