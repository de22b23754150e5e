---------------------------- MODULE PolicySyncProofs ---------------------------
(***************************************************************************)
(* OperatorDoesWhatWasWanted for any keys, contents, number of sessions    *)
(* and overlap of sessions, and WatchCaughtUpMeansEqual where only the     *)
(* watcher outlives a session.  The config stream's part of the invariant  *)
(* is proved in ConfigStreamProofs.                                        *)
(***************************************************************************)
EXTENDS PolicySync, ConfigStreamProofs

\* A resource session writes the runtime cache.
LEMMA RuntimeWriterType ==
    \A s \in RuntimeWriters : s \in Writers /\ CacheOf(s) = "runtime"
BY CacheAssumption DEF Writers, CacheOf

\* Appending an element of the right type.
LEMMA AppendType ==
    ASSUME NEW S, NEW q \in Seq(S), NEW x \in S
    PROVE  Append(q, x) \in Seq(S)
OBVIOUS

\* Writes of the cluster, the operator's and other users', keep its types.
LEMMA ClusterWriteType ==
    ASSUME ClusterTypeOK, NEW k \in Keys,
           \/ \E obj \in ClusterObjects : ClusterPut(k, obj)
           \/ ClusterRemove(k)
    PROVE  /\ cluster' \in [Keys -> ClusterObjects \cup {NoObject}]
           /\ history' \in Seq(Events)
<1>1. ASSUME NEW obj \in ClusterObjects, ClusterPut(k, obj)
      PROVE  /\ cluster' \in [Keys -> ClusterObjects \cup {NoObject}]
             /\ history' \in Seq(Events)
  <2>1. Event(k, obj, FALSE) \in Events
    BY DEF Event, Events
  <2>2. Append(history, Event(k, obj, FALSE)) \in Seq(Events)
    BY <2>1, AppendType DEF ClusterTypeOK
  <2> QED
    BY <1>1, <2>2 DEF ClusterPut, ClusterTypeOK
<1>2. ASSUME ClusterRemove(k)
      PROVE  /\ cluster' \in [Keys -> ClusterObjects \cup {NoObject}]
             /\ history' \in Seq(Events)
  <2>1. cluster[k] # NoObject => Event(k, cluster[k], TRUE) \in Events
    BY DEF Event, Events, ClusterTypeOK
  <2>2. cluster[k] # NoObject =>
            Append(history, Event(k, cluster[k], TRUE)) \in Seq(Events)
    BY <2>1, AppendType DEF ClusterTypeOK
  <2> QED
    BY <1>2, <2>2 DEF ClusterRemove, ClusterTypeOK
<1> QED
  BY <1>1, <1>2

\* Another user creates or changes an object, or removes it.
LEMMA OthersPutOrRemove ==
    ASSUME ClusterTypeOK, NEW k \in Keys, OthersWrite(k)
    PROVE  \/ \E obj \in ClusterObjects : ClusterPut(k, obj)
           \/ ClusterRemove(k)
<1>1. \A v \in Values, o \in {FALSE, cluster[k].owned} :
         cluster[k] # NoObject =>
             InCluster(v, o) \in ClusterObjects
  BY DEF InCluster, ClusterObjects, ClusterTypeOK
<1>2. \A v \in Values : InCluster(v, FALSE) \in ClusterObjects
  BY DEF InCluster, ClusterObjects
<1> QED
  BY <1>1, <1>2 DEF OthersWrite

\* Steps of other users keep the types of the cluster.
LEMMA ClusterTypeStep ==
    ASSUME ClusterTypeOK, NEW k \in Keys, OthersWrite(k)
    PROVE  ClusterTypeOK'
<1>1. clusterEdits' \in Nat
  BY DEF OthersWrite, ClusterTypeOK
<1>2. /\ cluster' \in [Keys -> ClusterObjects \cup {NoObject}]
      /\ history' \in Seq(Events)
  BY OthersPutOrRemove, ClusterWriteType
<1> QED
  BY <1>1, <1>2 DEF ClusterTypeOK

\* The step of a resource session touches the runtime cache alone.
LEMMA ResourceTypeStep ==
    ASSUME CacheTypeOK, ClusterTypeOK, ResourceTypeOK, NEW s \in RuntimeWriters,
           ResourceSessionStep(s)
    PROVE  /\ CacheTypeOK' /\ ResourceTypeOK'
           /\ objects'["config"] = objects["config"]
           /\ ready'["config"] = ready["config"]
<1> USE RuntimeWriterType, EmptyType
<1>0. NoList \in [Keys -> ClusterObjects \cup {NoObject}] /\ 0 \in Nat
  BY DEF NoList
<1>a. WatchReturns(s) /\ overtaken' \subseteq Keys => ResourceTypeOK'
  BY <1>0 DEF WatchReturns, ResourceTypeOK, Phases
<1>1. CASE OpenResourceStream(s) \/ ListUnavailable(s) \/ WatchUnavailable(s)
  BY <1>1, SameCacheType
     DEF OpenResourceStream, ListUnavailable, WatchUnavailable, ResourceTypeOK,
         Phases, cacheVars
<1>2. CASE DynamicListResources(s)
  <2>1. Len(history) \in Nat
    BY DEF ClusterTypeOK
  <2> QED
    BY <1>2, <2>1, SameCacheType
       DEF DynamicListResources, ResourceTypeOK, ClusterTypeOK, Phases, cacheVars
<1>3. CASE FilterListed(s)
  <2>1. [k \in Keys |-> IF listed[s][k] # NoObject /\ Tracked(k, listed[s][k])
                        THEN listed[s][k].val ELSE NoObject] \in Contents
    BY DEF ResourceTypeOK, ClusterObjects, Contents, Objects
  <2> QED
    BY <1>3, <2>1, SameCacheType
       DEF FilterListed, ResourceTypeOK, Phases, cacheVars
<1>4. CASE ReplaceRuntime(s)
  <2>1. CacheTypeOK'
    BY <1>4, ReplaceType DEF ReplaceRuntime, ResourceTypeOK
  <2>2. objects'["config"] = objects["config"] /\ ready'["config"] = ready["config"]
    BY <1>4 DEF ReplaceRuntime, ReplaceAll, ReplaceAllFails, SwapIn, CacheTypeOK,
                Caches
  <2>3. CASE WatchReturns(s)
    BY <1>4, <1>a, <2>1, <2>2, <2>3 DEF ReplaceRuntime
  <2>4. CASE ReplaceAll(s, snapshot[s]) /\ ~WatchReturns(s)
    <3>1. watching' \in [RuntimeWriters -> Phases]
      BY <1>4, <2>4 DEF ReplaceRuntime, ResourceTypeOK, Phases
    <3> QED
      BY <1>0, <1>4, <2>1, <2>2, <2>4, <3>1 DEF ReplaceRuntime, ResourceTypeOK
  <2> QED
    BY <1>4, <2>3, <2>4 DEF ReplaceRuntime
<1>5. CASE TakeEvent(s)
  <2>1. history[version[s] + 1] \in Events
    <3>1. version[s] \in Nat /\ history \in Seq(Events)
      BY DEF ResourceTypeOK, ClusterTypeOK
    <3> QED
      BY <1>5, <3>1 DEF TakeEvent
  <2> QED
    BY <1>5, <2>1, SameCacheType DEF TakeEvent, ResourceTypeOK, cacheVars
<1>6. CASE HandleEvent(s)
  <2>1. event[s] \in Events
    BY <1>6 DEF HandleEvent, ResourceTypeOK
  <2>6. ResourceTypeOK'
    <3>1. overtaken' \subseteq Keys
      BY <1>6, <2>1 DEF HandleEvent, ResourceTypeOK, Events
    <3> QED
      BY <1>6, <3>1 DEF HandleEvent, ResourceTypeOK
  <2>2. /\ event[s].key \in Keys /\ event[s].obj \in ClusterObjects
        /\ event[s].obj.val \in Objects /\ NoObject \in Objects
    BY <2>1 DEF Events, ClusterObjects, Objects
  <2>3. \/ \E v \in Objects : Store(s, event[s].key, v)
        \/ UNCHANGED cacheVars
    BY <1>6, <2>2 DEF HandleEvent, Insert, Delete
  <2>4. CacheTypeOK'
    BY <2>2, <2>3, StoreType, SameCacheType
  <2>5. objects'["config"] = objects["config"] /\ ready'["config"] = ready["config"]
    BY <2>3 DEF Store, CacheTypeOK, Caches, cacheVars
  <2> QED
    BY <2>4, <2>5, <2>6
<1>7. CASE NotifyRuntime(s)
  <2>1. CacheTypeOK'
    BY <1>7, NoteType DEF NotifyRuntime
  <2>2. objects' = objects /\ ready' = ready
    BY <1>7 DEF NotifyRuntime, SendNote, DrainNote, GiveUpNote
  <2> QED
    BY <1>7, <1>a, <2>1, <2>2 DEF NotifyRuntime, resourceVars, ResourceTypeOK
<1>8. CASE ResourceStreamBreaks(s)
  BY <1>8, <1>a, SameCacheType DEF ResourceStreamBreaks, cacheVars, ResourceTypeOK
<1>9. CASE CancelResourceStream(s)
  BY <1>9, NoteType DEF CancelResourceStream, Cancel, resourceVars, ResourceTypeOK
<1> QED
  BY <1>1, <1>2, <1>3, <1>4, <1>5, <1>6, <1>7, <1>8, <1>9
     DEF ResourceSessionStep, ResourceClientStep

\* The reconciler keeps the types; it writes no cache, only takes notes.
LEMMA ReconcilerTypeStep ==
    ASSUME CacheTypeOK, ClusterTypeOK, ReconcilerTypeOK, ReconcilerStep,
           control \in {"get", "apply", "delete"} => key \in Keys,
           control = "apply" => wish # NoObject
    PROVE  /\ CacheTypeOK' /\ ClusterTypeOK' /\ ReconcilerTypeOK'
           /\ objects' = objects /\ ready' = ready
<1>1. CASE ApplyObject
  <2>1. key \in Keys /\ wish \in Values
    BY <1>1 DEF ApplyObject, ReconcilerTypeOK, Objects
  <2>2. InCluster(wish, TRUE) \in ClusterObjects
    BY <2>1 DEF InCluster, ClusterObjects
  <2>3. ClusterTypeOK'
    BY <1>1, <2>1, <2>2, ClusterWriteType
       DEF ApplyObject, ApplyResource, ClusterTypeOK
  <2>4. ReconcilerTypeOK'
    BY <1>1, <2>1 DEF ApplyObject, ReconcilerTypeOK, Controls
  <2> QED
    BY <1>1, <2>3, <2>4, SameCacheType DEF ApplyObject, cacheVars
<1>2. CASE DeleteObject
  <2>1. key \in Keys
    BY <1>2 DEF DeleteObject
  <2>2. ClusterTypeOK'
    BY <1>2, <2>1, ClusterWriteType DEF DeleteObject, DeleteResource, ClusterTypeOK
  <2>3. ReconcilerTypeOK'
    BY <1>2, <2>1 DEF DeleteObject, ReconcilerTypeOK, Controls, Objects
  <2> QED
    BY <1>2, <2>2, <2>3, SameCacheType DEF DeleteObject, cacheVars
<1>3. ASSUME NEW k \in Keys, GetConfig(k)
      PROVE  ReconcilerTypeOK'
  BY <1>3 DEF GetConfig, Get, ReconcilerTypeOK, Controls, CacheTypeOK, Caches,
              Contents
<1>4. ASSUME NEW c \in Caches, ProcessResourceChange(c)
      PROVE  CacheTypeOK' /\ ReconcilerTypeOK' /\ UNCHANGED <<objects, ready>>
  <2>1. CacheTypeOK'
    BY <1>4, TakeNoteType DEF ProcessResourceChange
  <2>2. resourceChanged[c] # Nothing /\ resourceChanged[c] \in Notes \cup {Nothing}
    BY <1>4 DEF ProcessResourceChange, TakeNote, CacheTypeOK
  <2>3. todo' \subseteq Keys
    BY <1>4, <2>2 DEF ProcessResourceChange, ReconcilerTypeOK, Notes
  <2> QED
    BY <1>4, <2>1, <2>3
       DEF ProcessResourceChange, TakeNote, ReconcilerTypeOK, Controls
<1>5. CASE CollectConfigKeys \/ CollectRuntimeKeys
  BY <1>5, SameCacheType
     DEF CollectConfigKeys, CollectRuntimeKeys, KeysIn, ReconcilerTypeOK, Controls,
         clusterVars, ClusterTypeOK, cacheVars
<1>6. CASE \/ DiscoverySucceeds \/ DiscoveryGivesUp \/ WaitForCaches \/ GetRuntime
           \/ RoundEnds \/ CallFails \/ TimerFires
  BY <1>6, SameCacheType
     DEF DiscoverySucceeds, DiscoveryGivesUp, WaitForCaches, GetRuntime, RoundEnds,
         CallFails, TimerFires, ReconcilerTypeOK, Controls, Objects, clusterVars,
         ClusterTypeOK, cacheVars
<1>7. ASSUME UNCHANGED clusterVars PROVE ClusterTypeOK'
  BY <1>7 DEF clusterVars, ClusterTypeOK
<1> QED
  BY <1>1, <1>2, <1>3, <1>4, <1>5, <1>6, <1>7, SameCacheType
     DEF ReconcilerStep, ReconcileRound, GetConfig, ProcessResourceChange, cacheVars

\* What the reconciler relies on survives every step of the config stream.
LEMMA ConfigStepFrame ==
    ASSUME ConfigTypeOK, ConfigStep
    PROVE  /\ WantedGrows
           /\ ready["config"] => ready'["config"]
           /\ objects'["runtime"] = objects["runtime"]
<1> USE ConfigWriterType
<1>1. ASSUME NEW k \in Keys, NEW obj \in Objects, CloudSecureEdits(k, obj)
      PROVE  WantedGrows /\ UNCHANGED cacheVars
  BY <1>1 DEF CloudSecureEdits, WantedGrows, ConfigTypeOK
<1>2. ASSUME NEW s \in ConfigWriters, ConfigSessionStep(s)
      PROVE  UNCHANGED wanted
  BY <1>2 DEF ConfigSessionStep, ConfigClientStep, HandleConfigUpdate,
              OpenConfigStream, Recv, HandleResourceData, HandleSnapshotComplete,
              HandleResourceMutation, RefuseMessage, NotifyConfig,
              ConfigStreamBreaks, CancelConfigStream, CloudSecureMisbehaves,
              RunReturns, streamVars
<1>3. ASSUME NEW s \in ConfigWriters, ConfigSessionStep(s)
      PROVE  /\ ready["config"] => ready'["config"]
             /\ objects'["runtime"] = objects["runtime"]
  <2>1. CASE HandleSnapshotComplete(s)
    BY <2>1 DEF HandleSnapshotComplete, ReplaceAll, ReplaceAllFails, SwapIn,
                ConfigTypeOK, CacheTypeOK, Caches
  <2>2. CASE HandleResourceMutation(s)
    BY <2>2 DEF HandleResourceMutation, Insert, Delete, Store, ConfigTypeOK,
                CacheTypeOK, Caches, cacheVars
  <2>3. CASE NotifyConfig(s) \/ CancelConfigStream(s)
    BY <2>3 DEF NotifyConfig, CancelConfigStream, SendNote, DrainNote, GiveUpNote,
                Cancel
  <2> QED
    BY <1>3, <2>1, <2>2, <2>3
       DEF ConfigSessionStep, ConfigClientStep, HandleConfigUpdate,
           OpenConfigStream, Recv, HandleResourceData, RefuseMessage,
           ConfigStreamBreaks, CloudSecureMisbehaves, cacheVars
<1> QED
  BY <1>1, <1>2, <1>3 DEF ConfigStep, WantedGrows, cacheVars

--------------------------------------------------------------------------------
\* The invariant survives a step of the config stream.
LEMMA SyncInvConfig == SyncIInv /\ ConfigSide => SyncIInv'
<1> SUFFICES ASSUME SyncIInv, ConfigSide PROVE SyncIInv'
  OBVIOUS
<1>1. ConfigIInv' /\ ConfigTypeOK'
  BY ConfigInvStep DEF SyncIInv, ConfigSide, ConfigIInv
<1>2. /\ WantedGrows
      /\ ready["config"] => ready'["config"]
      /\ objects'["runtime"] = objects["runtime"]
  BY ConfigStepFrame DEF SyncIInv, SyncTypeOK, ConfigSide
<1>3. UNCHANGED <<cluster, history, clusterEdits, watching, listed, snapshot,
                  version, event, latest, overtaken, control, todo, key, wish, written>>
  BY DEF ConfigSide, ConfigOnly, clusterVars, resourceVars, reconcilerVars
<1>4. SyncTypeOK'
  BY <1>1, <1>3 DEF SyncIInv, SyncTypeOK, ClusterTypeOK, ResourceTypeOK,
                    ReconcilerTypeOK
<1>5. RuntimeSupported'
  BY <1>2, <1>3 DEF SyncIInv, RuntimeSupported
<1>6. WishWasWanted' /\ DecisionIsSound'
  BY <1>2, <1>3 DEF SyncIInv, WishWasWanted, DecisionIsSound, WantedGrows
<1>7. OperatorDoesWhatWasWanted'
  BY <1>2, <1>3 DEF SyncIInv, OperatorDoesWhatWasWanted, WantedGrows
<1> QED
  BY <1>1, <1>2, <1>3, <1>4, <1>5, <1>6, <1>7 DEF SyncIInv

\* The invariant survives a step that leaves the config stream, its cache and
\* the reconciler alone, if the rest of it does.
LEMMA SyncInvFrame ==
    ASSUME SyncIInv, SyncTypeOK', RuntimeSupported', UNCHANGED streamVars,
           UNCHANGED reconcilerVars, SameConfigCache
    PROVE  SyncIInv'
<1>1. ConfigIInv'
  BY ConfigInvOthers DEF SyncIInv, SyncTypeOK
<1>2. wanted' = wanted
  BY DEF streamVars
<1>3. UNCHANGED <<control, todo, key, wish, written>>
  BY DEF reconcilerVars
<1>4. WishWasWanted' /\ DecisionIsSound' /\ OperatorDoesWhatWasWanted'
  BY <1>2, <1>3 DEF SyncIInv, WishWasWanted, DecisionIsSound,
                    OperatorDoesWhatWasWanted
<1> QED
  BY <1>1, <1>3, <1>4 DEF SyncIInv, SameConfigCache

\* The invariant survives a step of the resource stream: what it lets into the
\* runtime cache is of a supported kind.
LEMMA SyncInvResource == SyncIInv /\ ResourceSide => SyncIInv'
<1> SUFFICES ASSUME SyncIInv, NEW s \in RuntimeWriters, ResourceSessionStep(s),
                    ResourceOnly
             PROVE  SyncIInv'
  BY DEF ResourceSide
<1> USE RuntimeWriterType
<1>1. CacheTypeOK /\ ClusterTypeOK /\ ResourceTypeOK
  BY DEF SyncIInv, SyncTypeOK, ConfigTypeOK
<1>2. CacheTypeOK' /\ ResourceTypeOK' /\ SameConfigCache
  BY <1>1, ResourceTypeStep DEF SameConfigCache
<1>3. UNCHANGED streamVars /\ UNCHANGED clusterVars /\ UNCHANGED reconcilerVars
  BY DEF ResourceOnly
<1>4. SyncTypeOK'
  BY <1>2, <1>3 DEF SyncIInv, SyncTypeOK, ConfigTypeOK, ClusterTypeOK,
                    ReconcilerTypeOK, streamVars, clusterVars, reconcilerVars
<1>5. RuntimeSupported'
  <2> USE <1>1 DEF SyncIInv, RuntimeSupported, ResourceTypeOK, CacheTypeOK, Caches
  <2>0. ASSUME WatchReturns(s)
        PROVE  \A k \in Keys \ Supported, u \in RuntimeWriters :
                   snapshot'[u][k] = NoObject
    BY <2>0 DEF WatchReturns, Empty
  <2>1. CASE \/ OpenResourceStream(s) \/ DynamicListResources(s) \/ TakeEvent(s)
             \/ ListUnavailable(s) \/ WatchUnavailable(s)
    BY <2>1 DEF OpenResourceStream, DynamicListResources, TakeEvent,
                ListUnavailable, WatchUnavailable, cacheVars
  <2>2. CASE FilterListed(s)
    <3>1. \A k \in Keys \ Supported : snapshot'[s][k] = NoObject
      BY <2>2 DEF FilterListed, Tracked
    <3>2. \A u \in RuntimeWriters \ {s} : snapshot'[u] = snapshot[u]
      BY <2>2 DEF FilterListed
    <3> QED
      BY <2>2, <3>1, <3>2 DEF FilterListed, cacheVars
  <2>3. CASE ReplaceRuntime(s)
    <3>1. objects'["runtime"] = snapshot[s]
      BY <2>3 DEF ReplaceRuntime, ReplaceAll, ReplaceAllFails, SwapIn
    <3>2. \A k \in Keys \ Supported, u \in RuntimeWriters :
             snapshot'[u][k] = NoObject
      BY <2>0, <2>3 DEF ReplaceRuntime, Empty
    <3> QED
      BY <3>1, <3>2
  <2>4. CASE HandleEvent(s)
    <3>1. CASE UNCHANGED cacheVars
      BY <2>4, <3>1 DEF HandleEvent, cacheVars
    <3>2. CASE Tracked(event[s].key, event[s].obj)
      <4>1. event[s].key \in Supported
        BY <3>2 DEF Tracked
      <4>2. \A k \in Keys \ Supported : objects'["runtime"][k] = objects["runtime"][k]
        <5>1. (\E v : Store(s, event[s].key, v)) \/ UNCHANGED cacheVars
          BY <2>4 DEF HandleEvent, Insert, Delete
        <5>2. ASSUME NEW v, Store(s, event[s].key, v)
              PROVE  objects'["runtime"] =
                         [objects["runtime"] EXCEPT ![event[s].key] = v]
          BY <5>2 DEF Store
        <5>3. ASSUME NEW v, Store(s, event[s].key, v), NEW k \in Keys \ Supported
              PROVE  objects'["runtime"][k] = objects["runtime"][k]
          BY <4>1, <5>2, <5>3, ObjectsAssumption DEF Contents
        <5> QED
          BY <5>1, <5>3 DEF cacheVars
      <4> QED
        BY <2>4, <4>2 DEF HandleEvent
    <3> QED
      BY <2>4, <3>1, <3>2 DEF HandleEvent
  <2>5. CASE NotifyRuntime(s)
    BY <2>0, <2>5 DEF NotifyRuntime, SendNote, DrainNote, GiveUpNote, resourceVars
  <2>6. CASE ResourceStreamBreaks(s)
    BY <2>0, <2>6 DEF ResourceStreamBreaks, cacheVars
  <2>7. CASE CancelResourceStream(s)
    BY <2>7 DEF CancelResourceStream, Cancel, resourceVars
  <2> QED
    BY <2>1, <2>2, <2>3, <2>4, <2>5, <2>6, <2>7
       DEF ResourceSessionStep, ResourceClientStep
<1> QED
  BY <1>2, <1>3, <1>4, <1>5, SyncInvFrame

\* The invariant survives a step of the reconciler: it reads the config cache
\* only when it is ready, and acts on what it read.
LEMMA SyncInvReconciler == SyncIInv /\ ReconcilerSide => SyncIInv'
<1> SUFFICES ASSUME SyncIInv, ReconcilerStep, ReconcilerOnly PROVE SyncIInv'
  BY DEF ReconcilerSide
<1>1. CacheTypeOK /\ ClusterTypeOK /\ ReconcilerTypeOK /\ SyncTypeOK
  BY DEF SyncIInv, SyncTypeOK, ConfigTypeOK
<1>2. /\ CacheTypeOK' /\ ClusterTypeOK' /\ ReconcilerTypeOK'
      /\ objects' = objects /\ ready' = ready
  BY <1>1, ReconcilerTypeStep DEF SyncIInv, WishWasWanted, DecisionIsSound
<1>3. UNCHANGED streamVars /\ wanted' = wanted
  BY DEF ReconcilerOnly, streamVars
<1>4. UNCHANGED <<watching, listed, snapshot, version, event, latest, overtaken>>
  BY DEF ReconcilerOnly, resourceVars
<1>5. SyncTypeOK'
  BY <1>1, <1>2, <1>3, <1>4
     DEF SyncTypeOK, ConfigTypeOK, ResourceTypeOK, streamVars
<1>6. ConfigIInv'
  BY <1>2, <1>3, <1>5, ConfigInvOthers DEF SyncIInv, SyncTypeOK, SameConfigCache
<1>7. RuntimeSupported'
  BY <1>2, <1>4 DEF SyncIInv, RuntimeSupported
<1> SUFFICES /\ control' \notin {"discover", "wait", "stopped"} => ready["config"]
             /\ WishWasWanted' /\ DecisionIsSound'
             /\ OperatorDoesWhatWasWanted'
  BY <1>2, <1>5, <1>6, <1>7 DEF SyncIInv
<1>8. CASE ApplyObject \/ DeleteObject
  <2>1. key \in Supported /\ wish \in wanted[key]
    BY <1>8 DEF SyncIInv, WishWasWanted, DecisionIsSound, ApplyObject, DeleteObject
  <2>2. written' = [written EXCEPT ![key] = @ \cup {wish}]
    BY <1>8 DEF SyncIInv, DecisionIsSound, ApplyObject, DeleteObject
  <2>3. OperatorDoesWhatWasWanted'
    BY <1>1, <1>3, <2>1, <2>2
       DEF SyncIInv, OperatorDoesWhatWasWanted, ReconcilerTypeOK
  <2>4. control' = "each" /\ control \in {"apply", "delete"}
    BY <1>8 DEF ApplyObject, DeleteObject
  <2> QED
    BY <2>3, <2>4 DEF SyncIInv, WishWasWanted, DecisionIsSound
<1> USE <1>3
<1>9. ASSUME NEW k \in Keys, GetConfig(k)
      PROVE  WishWasWanted' /\ DecisionIsSound' /\ UNCHANGED written
                /\ ready["config"]
  <2>1. ready["config"]
    BY <1>9 DEF GetConfig, SyncIInv
  <2>2. k \in Supported => objects["config"][k] \in wanted[k]
    BY <2>1 DEF SyncIInv, ConfigIInv, ConfigCacheIsWanted
  <2>3. k \notin Supported => objects["config"][k] = NoObject
    BY DEF SyncIInv, ConfigIInv, UnsupportedNeverCached
  <2> QED
    BY <1>9, <2>1, <2>2, <2>3 DEF GetConfig, Get, WishWasWanted, DecisionIsSound
<1>10. ASSUME GetRuntime
       PROVE  WishWasWanted' /\ DecisionIsSound' /\ UNCHANGED written
                /\ ready["config"]
  <2>1. key \in Keys /\ ready["config"] /\ control = "get"
    BY <1>10 DEF GetRuntime, SyncIInv, WishWasWanted
  <2>2. WishWasWanted'
    BY <1>10 DEF GetRuntime, SyncIInv, WishWasWanted
  <2>3. key \notin Supported => Get("runtime", key) = NoObject
    BY <2>1 DEF SyncIInv, RuntimeSupported, Get
  <2>4. DecisionIsSound'
    BY <1>10, <2>3 DEF GetRuntime, DecisionIsSound
  <2> QED
    BY <1>10, <2>1, <2>2, <2>4 DEF GetRuntime
<1>11. CASE \/ CollectConfigKeys \/ CollectRuntimeKeys \/ RoundEnds \/ CallFails
            \/ TimerFires \/ DiscoverySucceeds \/ DiscoveryGivesUp \/ WaitForCaches
            \/ \E c \in Caches : ProcessResourceChange(c)
  <2>1. control' \notin {"get", "apply", "delete"} /\ UNCHANGED written
    BY <1>11 DEF CollectConfigKeys, CollectRuntimeKeys, RoundEnds, CallFails,
                 TimerFires, DiscoverySucceeds, DiscoveryGivesUp, WaitForCaches,
                 ProcessResourceChange
  <2>2. control' \notin {"discover", "wait", "stopped"} => ready["config"]
    BY <1>11 DEF CollectConfigKeys, CollectRuntimeKeys, RoundEnds, CallFails,
                 TimerFires, DiscoverySucceeds, DiscoveryGivesUp, WaitForCaches,
                 ProcessResourceChange, SyncIInv, Caches
  <2> QED
    BY <2>1, <2>2 DEF SyncIInv, WishWasWanted, DecisionIsSound,
                      OperatorDoesWhatWasWanted
<1> QED
  BY <1>8, <1>9, <1>10, <1>11
     DEF ReconcilerStep, ReconcileRound, SyncIInv, OperatorDoesWhatWasWanted

\* The invariant survives the writes of other cluster users.
LEMMA SyncInvCluster == SyncIInv /\ ClusterSide => SyncIInv'
<1> SUFFICES ASSUME SyncIInv, NEW k \in Keys, OthersWrite(k), ClusterOnly
             PROVE  SyncIInv'
  BY DEF ClusterSide
<1>1. UNCHANGED cacheVars /\ UNCHANGED streamVars /\ UNCHANGED resourceVars
         /\ UNCHANGED reconcilerVars
  BY DEF ClusterOnly
<1>2. ClusterTypeOK'
  BY ClusterTypeStep DEF SyncIInv, SyncTypeOK
<1>3. SyncTypeOK'
  BY <1>1, <1>2, SameCacheType
     DEF SyncIInv, SyncTypeOK, ConfigTypeOK, ResourceTypeOK, ReconcilerTypeOK,
         streamVars, resourceVars, reconcilerVars
<1>4. RuntimeSupported' /\ SameConfigCache
  BY <1>1 DEF SyncIInv, RuntimeSupported, SameConfigCache, cacheVars, resourceVars
<1> QED
  BY <1>1, <1>3, <1>4, SyncInvFrame

\* The invariant holds when the operator starts.
LEMMA SyncInvInit == SyncInit => SyncIInv
<1> SUFFICES ASSUME SyncInit PROVE SyncIInv
  OBVIOUS
<1>1. ConfigIInv
  BY ConfigInvInit DEF SyncInit
<1>2. ClusterTypeOK
  <2>1. << >> \in Seq(Events)
    OBVIOUS
  <2> QED
    BY <2>1 DEF SyncInit, ClusterInit, ClusterTypeOK, InCluster, ClusterObjects
<1>3. ResourceTypeOK /\ ReconcilerTypeOK
  BY EmptyType DEF SyncInit, ResourceInit, ResourceTypeOK, Phases, NoList,
                   ReconcilerInit, ReconcilerTypeOK, Controls, Objects
<1>4. RuntimeSupported
  BY DEF SyncInit, ResourceInit, NewObjectCache, RuntimeSupported, Empty, Caches
<1>5. WishWasWanted /\ DecisionIsSound /\ OperatorDoesWhatWasWanted
         /\ control = "discover"
  BY DEF SyncInit, ReconcilerInit, WishWasWanted, DecisionIsSound,
         OperatorDoesWhatWasWanted
<1> QED
  BY <1>1, <1>2, <1>3, <1>4, <1>5 DEF SyncIInv, SyncTypeOK, ConfigIInv

\* The invariant always holds.
LEMMA SyncInvAlways == SyncSpec => []SyncIInv
<1>1. SyncIInv /\ UNCHANGED syncVars => SyncIInv'
  <2> SUFFICES ASSUME SyncIInv, UNCHANGED syncVars PROVE SyncIInv'
    OBVIOUS
  <2>1. UNCHANGED cacheVars /\ UNCHANGED streamVars /\ UNCHANGED resourceVars
           /\ UNCHANGED reconcilerVars /\ UNCHANGED clusterVars
    BY DEF syncVars, cacheVars, streamVars, resourceVars, reconcilerVars,
           clusterVars
  <2>2. SyncTypeOK'
    BY <2>1, SameCacheType
       DEF SyncIInv, SyncTypeOK, ConfigTypeOK, ResourceTypeOK, ReconcilerTypeOK,
           ClusterTypeOK, streamVars, resourceVars, reconcilerVars, clusterVars
  <2>3. RuntimeSupported' /\ SameConfigCache
    BY <2>1 DEF SyncIInv, RuntimeSupported, SameConfigCache, cacheVars,
                resourceVars
  <2> QED
    BY <2>1, <2>2, <2>3, SyncInvFrame
<1>2. SyncIInv /\ [SyncNext]_syncVars => SyncIInv'
  BY <1>1, SyncInvConfig, SyncInvResource, SyncInvReconciler, SyncInvCluster
     DEF SyncNext
<1> QED
  BY <1>2, SyncInvInit, PTL DEF SyncSpec

--------------------------------------------------------------------------------
\* The types of the whole policy synchronisation, for every instance.
THEOREM SyncTypeCorrect == SyncSpec => []SyncTypeOK
<1>1. SyncIInv => SyncTypeOK
  BY DEF SyncIInv
<1> QED
  BY <1>1, SyncInvAlways, PTL

\* For any number of keys, sessions and edits, any overlap of sessions and any
\* interleaving of the streams, the reconciler and other cluster users:
\* reconcileObject applies only contents that CloudSecure wanted for that key,
\* and deletes only objects that CloudSecure did not want at some time.
THEOREM OperatorAlwaysDoesWhatWasWanted ==
    SyncSpec => []OperatorDoesWhatWasWanted
<1>1. SyncIInv => OperatorDoesWhatWasWanted
  BY DEF SyncIInv
<1> QED
  BY <1>1, SyncInvAlways, PTL

--------------------------------------------------------------------------------
(***************************************************************************)
(* WatchCaughtUpMeansEqual, where of an earlier session of the resource    *)
(* stream only the watcher is left.                                        *)
(***************************************************************************)
\* An invariant of the watch survives a step that leaves the cluster, the
\* sessions and the runtime cache alone.
LEMMA WatchInvFrame ==
    ASSUME WatchIInv, UNCHANGED <<cluster, history>>, UNCHANGED resourceVars,
           objects'["runtime"] = objects["runtime"]
    PROVE  WatchIInv'
<1>1. UNCHANGED <<cluster, history, watching, listed, snapshot, version, event,
                  latest, overtaken>>
  BY DEF resourceVars
<1>2. LastEventTells' /\ OneWatchSession'
  BY <1>1 DEF WatchIInv, LastEventTells, OneWatchSession
<1>3. \A s \in RuntimeWriters :
         EventInHandOK(s)' /\ (s = latest' => WatchSessionOK(s)')
  BY <1>1 DEF WatchIInv, EventInHandOK, WatchSessionOK, NothingAhead
<1>4. NewSessionsFresh'
  BY <1>1 DEF WatchIInv, NewSessionsFresh
<1> QED
  BY <1>2, <1>3, <1>4 DEF WatchIInv

\* It survives a new event at the end of the history: the event tells what the
\* cluster now has, and lies ahead of every session.
LEMMA WatchInvAppend ==
    ASSUME WatchIInv, ClusterTypeOK, ResourceTypeOK, NEW e \in Events,
           history' = Append(history, e),
           cluster' = [cluster EXCEPT ![e.key] = AfterEvent(e)],
           UNCHANGED resourceVars, objects'["runtime"] = objects["runtime"]
    PROVE  WatchIInv'
<1>1. history \in Seq(Events) /\ e.key \in Keys
  BY DEF ClusterTypeOK, Events
<1>2. /\ Len(history') = Len(history) + 1
      /\ history'[Len(history) + 1] = e
      /\ \A i \in 1..Len(history) : history'[i] = history[i]
      /\ Len(history) \in Nat
  BY <1>1
<1>3. cluster'[e.key] = AfterEvent(e)
      /\ \A k \in Keys : k # e.key => cluster'[k] = cluster[k]
  BY <1>1 DEF ClusterTypeOK
<1>4. \A i \in 1..Len(history) : history[i].key \in Keys
  <2>1. \A i \in 1..Len(history) : history[i] \in Events
    BY <1>1
  <2> QED
    BY <2>1 DEF Events
<1>5. UNCHANGED <<watching, listed, snapshot, version, event, latest, overtaken>>
  BY DEF resourceVars
<1>6. LastEventTells'
  <2> SUFFICES ASSUME NEW i \in 1..Len(history'),
                      \A j \in (i + 1)..Len(history') :
                          history'[j].key # history'[i].key
               PROVE  cluster'[history'[i].key] = AfterEvent(history'[i])
    BY DEF LastEventTells, AfterEvent
  <2>1. CASE i = Len(history) + 1
    BY <1>2, <1>3, <2>1
  <2>2. CASE i \in 1..Len(history)
    <3>1. history'[i] = history[i] /\ history[i].key # e.key
      BY <1>2, <2>2
    <3>2. \A j \in (i + 1)..Len(history) : history[j].key # history[i].key
      BY <1>2, <2>2, <3>1
    <3>3. cluster[history[i].key] = AfterEvent(history[i])
      BY <2>2, <3>2 DEF WatchIInv, LastEventTells
    <3> QED
      BY <1>3, <1>4, <2>2, <3>1, <3>3
  <2> QED
    BY <1>2, <2>1, <2>2
<1>7. ASSUME NEW s \in RuntimeWriters
      PROVE  EventInHandOK(s)'
  <2>1. EventInHandOK(s) /\ version[s] \in Nat
    BY DEF WatchIInv, ResourceTypeOK
  <2>2. event[s] # NoEvent =>
            event[s] = history'[version[s] + 1] /\ version[s] < Len(history')
    <3>1. event[s] # NoEvent => version[s] + 1 \in 1..Len(history)
      BY <1>2, <2>1 DEF EventInHandOK
    <3> QED
      BY <1>2, <2>1, <3>1 DEF EventInHandOK
  <2> QED
    BY <1>2, <1>5, <2>1, <2>2 DEF EventInHandOK, NoEvent
<1>9. ASSUME NEW s \in RuntimeWriters, s = latest
      PROVE  WatchSessionOK(s)'
  <2>1. WatchSessionOK(s) /\ version[s] \in Nat
    BY <1>9 DEF WatchIInv, ResourceTypeOK
  <2>2. \A k \in Supported :
           NothingAhead(s, k)' => NothingAhead(s, k) /\ k # e.key
    <3> SUFFICES ASSUME NEW k \in Supported,
                        \A i \in (version[s] + 1)..Len(history') :
                            history'[i].key # k
                 PROVE  NothingAhead(s, k) /\ k # e.key
      BY <1>5 DEF NothingAhead
    <3>1. Len(history) + 1 \in (version[s] + 1)..Len(history')
      BY <1>2, <2>1 DEF WatchSessionOK
    <3>2. ASSUME NEW i \in (version[s] + 1)..Len(history)
          PROVE  history[i].key # k
      <4>1. i \in (version[s] + 1)..Len(history') /\ i \in 1..Len(history)
        BY <1>2, <2>1
      <4> QED
        BY <1>2, <4>1
    <3> QED
      BY <1>2, <3>1, <3>2 DEF NothingAhead
  <2>4. version'[s] <= Len(history')
    BY <1>2, <1>5, <2>1 DEF WatchSessionOK
  <2>5. ASSUME NEW k \in Supported, NothingAhead(s, k)'
        PROVE  /\ watching'[s] = "listed" => listed'[s][k] = cluster'[k]
               /\ watching'[s] = "filtered" => Agrees(snapshot'[s][k], cluster'[k])
               /\ watching'[s] = "watch" /\ k \notin overtaken' =>
                     Agrees(objects'["runtime"][k], cluster'[k])
    <3>1. NothingAhead(s, k) /\ cluster'[k] = cluster[k]
      BY <1>3, <2>2, <2>5, ObjectsAssumption
    <3> QED
      BY <1>5, <2>1, <3>1 DEF WatchSessionOK
  <2> QED
    BY <2>4, <2>5 DEF WatchSessionOK, Agrees
<1>8. OneWatchSession' /\ NewSessionsFresh'
  BY <1>5 DEF WatchIInv, OneWatchSession, NewSessionsFresh
<1> QED
  BY <1>5, <1>6, <1>7, <1>8, <1>9 DEF WatchIInv

\* It survives every write of the cluster, the operator's and other users'.
LEMMA WatchInvWrite ==
    ASSUME WatchIInv, ClusterTypeOK, ResourceTypeOK, NEW k \in Keys,
           \/ \E obj \in ClusterObjects : ClusterPut(k, obj)
           \/ ClusterRemove(k),
           UNCHANGED resourceVars, objects'["runtime"] = objects["runtime"]
    PROVE  WatchIInv'
<1>2. ASSUME NEW obj \in ClusterObjects, ClusterPut(k, obj)
      PROVE  WatchIInv'
  <2>1. CASE cluster[k] = obj
    BY <1>2, <2>1, WatchInvFrame DEF ClusterPut, ClusterTypeOK
  <2>2. CASE cluster[k] # obj
    <3> DEFINE e == Event(k, obj, FALSE)
    <3>1. e \in Events /\ e.key = k /\ AfterEvent(e) = obj
      BY DEF Event, Events, AfterEvent
    <3>2. history' = Append(history, e)
          /\ cluster' = [cluster EXCEPT ![e.key] = AfterEvent(e)]
      BY <1>2, <2>2, <3>1 DEF ClusterPut
    <3> HIDE DEF e
    <3> QED
      BY <3>1, <3>2, WatchInvAppend
  <2> QED
    BY <2>1, <2>2
<1>3. ASSUME ClusterRemove(k)
      PROVE  WatchIInv'
  <2>1. CASE cluster[k] = NoObject
    BY <1>3, <2>1, WatchInvFrame DEF ClusterRemove, ClusterTypeOK
  <2>2. CASE cluster[k] # NoObject
    <3> DEFINE e == Event(k, cluster[k], TRUE)
    <3>1. e \in Events /\ e.key = k /\ AfterEvent(e) = NoObject
      BY <2>2 DEF Event, Events, AfterEvent, ClusterTypeOK
    <3>2. history' = Append(history, e)
          /\ cluster' = [cluster EXCEPT ![e.key] = AfterEvent(e)]
      BY <1>3, <2>2, <3>1 DEF ClusterRemove
    <3> HIDE DEF e
    <3> QED
      BY <3>1, <3>2, WatchInvAppend
  <2> QED
    BY <2>1, <2>2
<1> QED
  BY <1>2, <1>3

\* It survives every step of a session: of the earlier sessions only watchers are
\* left, and what these still write counts as overtaken.
LEMMA WatchInvSession ==
    ASSUME WatchIInv, CacheTypeOK, ClusterTypeOK, ResourceTypeOK, Overlap # "all",
           UNCHANGED clusterVars, NEW s \in RuntimeWriters, ResourceSessionStep(s)
    PROVE  WatchIInv'
<1> USE RuntimeWriterType
<1>1. cluster' = cluster /\ history' = history /\ LastEventTells'
  BY DEF clusterVars, WatchIInv, LastEventTells
<1>2. history \in Seq(Events) /\ Len(history) \in Nat /\ version[s] \in Nat
  BY DEF ClusterTypeOK, ResourceTypeOK
<1>3. EventInHandOK(s) /\ (s = latest => WatchSessionOK(s))
  BY DEF WatchIInv
\* The other sessions keep what they have.
<1>4. \A u \in RuntimeWriters \ {s} :
         /\ watching'[u] = watching[u] /\ listed'[u] = listed[u]
         /\ snapshot'[u] = snapshot[u] /\ version'[u] = version[u]
         /\ event'[u] = event[u]
  <2>1. WatchReturns(s) => \A u \in RuntimeWriters \ {s} :
           /\ watching'[u] = watching[u] /\ listed'[u] = listed[u]
           /\ snapshot'[u] = snapshot[u] /\ version'[u] = version[u]
           /\ event'[u] = event[u]
    BY DEF WatchReturns, ResourceTypeOK
  <2> QED
    BY <2>1
       DEF ResourceSessionStep, ResourceClientStep, OpenResourceStream,
           DynamicListResources, FilterListed, ReplaceRuntime, TakeEvent,
           HandleEvent, NotifyRuntime, ListUnavailable, WatchUnavailable,
           ResourceStreamBreaks, CancelResourceStream, resourceVars, ResourceTypeOK
<1>5. latest' = IF OpenResourceStream(s) THEN s ELSE latest
  BY DEF ResourceSessionStep, ResourceClientStep, OpenResourceStream,
         DynamicListResources, FilterListed, ReplaceRuntime, TakeEvent,
         HandleEvent, NotifyRuntime, ListUnavailable, WatchUnavailable,
         ResourceStreamBreaks, CancelResourceStream, WatchReturns, resourceVars
<1>6. OneWatchSession'
  <2>1. CASE OpenResourceStream(s)
    <3>1. \A u \in RuntimeWriters :
             watching[u] \in {"new", "over", "watch", "unwatched"}
      BY <2>1 DEF OpenResourceStream
    <3> QED
      BY <1>4, <1>5, <2>1, <3>1 DEF OneWatchSession
  <2>2. CASE ~OpenResourceStream(s)
    <3>1. watching[s] \in {"open", "listed", "filtered", "skipped"} => s = latest
      BY DEF WatchIInv, OneWatchSession
    <3>2. watching'[s] \in {"new", "over", "watch", "unwatched"} \/ s = latest
      <4>1. CASE WatchReturns(s)
        BY <4>1 DEF WatchReturns, ResourceTypeOK
      <4>2. CASE watching' = watching
        BY <4>2 DEF WatchIInv, OneWatchSession
      <4>3. CASE WatchUnavailable(s)
        BY <4>3 DEF WatchUnavailable, ResourceTypeOK
      <4>4. CASE DynamicListResources(s) \/ FilterListed(s) \/ ReplaceRuntime(s)
                    \/ ListUnavailable(s)
        BY <3>1, <4>4 DEF DynamicListResources, FilterListed, ReplaceRuntime,
                          ListUnavailable
      <4> QED
        BY <2>2, <4>1, <4>2, <4>3, <4>4
           DEF ResourceSessionStep, ResourceClientStep, TakeEvent, HandleEvent,
               NotifyRuntime, ResourceStreamBreaks, CancelResourceStream, resourceVars
    <3> QED
      BY <1>4, <1>5, <2>2, <3>2 DEF WatchIInv, OneWatchSession
  <2> QED
    BY <2>1, <2>2
<1>7. ASSUME NEW u \in RuntimeWriters \ {s}
      PROVE  EventInHandOK(u)'
  <2>1. EventInHandOK(u)
    BY DEF WatchIInv
  <2> QED
    BY <1>1, <1>4, <2>1 DEF EventInHandOK, NoEvent
\* The step of an earlier session leaves the latest one's view alone, but for the
\* key that it writes.
<1>8. ASSUME s # latest', NEW u \in RuntimeWriters, u = latest'
      PROVE  WatchSessionOK(u)'
  <2>1. ~OpenResourceStream(s) /\ latest' = latest /\ s # latest
    BY <1>5, <1>8
  <2>2. WatchSessionOK(u) /\ u \in RuntimeWriters \ {s}
    BY <1>8, <2>1 DEF WatchIInv
  <2>3. CASE HandleEvent(s)
    <3>1. overtaken' = overtaken \cup {event[s].key}
      BY <2>1, <2>3 DEF HandleEvent
    <3>2. event[s] \in Events /\ event[s].key \in Keys
      BY <2>3 DEF HandleEvent, ResourceTypeOK, Events
    <3>3. \A k \in Keys : k # event[s].key =>
             objects'["runtime"][k] = objects["runtime"][k]
      BY <2>3, <3>2
         DEF HandleEvent, Insert, Delete, Store, cacheVars, CacheTypeOK, Caches,
             Contents
    <3>4. ASSUME NEW k \in Supported, NothingAhead(u, k)'
          PROVE  /\ watching'[u] = "listed" => listed'[u][k] = cluster'[k]
                 /\ watching'[u] = "filtered" => Agrees(snapshot'[u][k], cluster'[k])
                 /\ watching'[u] = "watch" /\ k \notin overtaken' =>
                       Agrees(objects'["runtime"][k], cluster'[k])
      <4>1. NothingAhead(u, k) /\ k \in Keys
        BY <1>1, <1>4, <2>2, <3>4, ObjectsAssumption DEF NothingAhead
      <4> QED
        BY <1>1, <1>4, <2>2, <3>1, <3>3, <4>1 DEF WatchSessionOK
    <3>5. version'[u] <= Len(history')
      BY <1>1, <1>4, <2>2 DEF WatchSessionOK
    <3> QED
      BY <3>4, <3>5 DEF WatchSessionOK
  <2>4. CASE ~HandleEvent(s)
    <3>1. objects'["runtime"] = objects["runtime"] /\ overtaken' = overtaken
      <4>1. watching[s] \in {"new", "over", "watch", "unwatched"}
        BY <2>1 DEF WatchIInv, OneWatchSession
      <4> QED
        BY <2>1, <2>4, <4>1
           DEF ResourceSessionStep, ResourceClientStep, DynamicListResources,
               FilterListed, ReplaceRuntime, TakeEvent, NotifyRuntime,
               ListUnavailable, WatchUnavailable, ResourceStreamBreaks,
               CancelResourceStream, Cancel, SendNote, DrainNote, GiveUpNote,
               cacheVars, resourceVars
    <3> QED
      BY <1>1, <1>4, <2>2, <3>1 DEF WatchSessionOK, NothingAhead
  <2> QED
    BY <2>3, <2>4
<1>9. EventInHandOK(s)' /\ (s = latest' => WatchSessionOK(s)')
  <2> USE <1>1, <1>2, <1>3 DEF WatchSessionOK, NothingAhead, ResourceTypeOK,
                               EventInHandOK
  <2>0. CASE WatchReturns(s)
    BY <2>0 DEF WatchReturns, NoEvent
  <2>1. CASE OpenResourceStream(s)
    <3>1. watching[s] = "new" /\ watching'[s] = "open" /\ UNCHANGED <<version, event>>
      BY <2>1 DEF OpenResourceStream
    <3>2. version[s] = 0
      BY <3>1 DEF WatchIInv, NewSessionsFresh
    <3> QED
      BY <3>1, <3>2
  <2>9. CASE ListUnavailable(s) \/ WatchUnavailable(s)
    BY <2>9 DEF ListUnavailable, WatchUnavailable
  <2>2. CASE DynamicListResources(s)
    <3>1. watching'[s] = "listed" /\ listed'[s] = cluster /\ event[s] = NoEvent
          /\ version'[s] = Len(history) /\ event' = event
      BY <2>2 DEF DynamicListResources
    <3> QED
      BY <3>1
  <2>3. CASE FilterListed(s)
    <3>1. watching'[s] = "filtered" /\ UNCHANGED <<listed, version, event, latest>>
          /\ watching[s] = "listed"
      BY <2>3 DEF FilterListed
    <3>2. ASSUME NEW k \in Supported, NothingAhead(s, k), s = latest
          PROVE  Agrees(snapshot'[s][k], cluster[k])
      <4>1. listed[s][k] = cluster[k] /\ k \in Keys
        BY <3>1, <3>2, ObjectsAssumption
      <4>2. snapshot'[s][k] = IF cluster[k] # NoObject /\ Tracked(k, cluster[k])
                              THEN cluster[k].val ELSE NoObject
        BY <2>3, <4>1 DEF FilterListed
      <4>3. cluster[k] # NoObject => cluster[k].val # NoObject
        BY <4>1, ObjectsAssumption DEF ClusterTypeOK, ClusterObjects
      <4> QED
        BY <4>2, <4>3 DEF Agrees, Tracked
    <3> QED
      BY <3>1, <3>2
  <2>4. CASE ReplaceRuntime(s) /\ ~WatchReturns(s)
    <3>1. objects'["runtime"] = snapshot[s] /\ UNCHANGED <<version, event, latest>>
          /\ watching[s] \in {"filtered", "skipped"}
          /\ watching'[s] = IF watching[s] = "filtered" THEN "watch" ELSE "unwatched"
      BY <2>4 DEF ReplaceRuntime, ReplaceAll, SwapIn, CacheTypeOK, Caches
    <3> QED
      BY <3>1
  <2>5. CASE TakeEvent(s)
    BY <2>5 DEF TakeEvent, cacheVars
  <2>6. CASE HandleEvent(s)
    <3> DEFINE e == event[s]
    <3>1. /\ event[s] # NoEvent /\ watching[s] = "watch" /\ watching'[s] = "watch"
          /\ version[s] < Len(history) /\ e = history[version[s] + 1]
          /\ version'[s] = version[s] + 1 /\ event'[s] = NoEvent /\ latest' = latest
      BY <2>6 DEF HandleEvent, NoEvent
    <3>2. e \in Events /\ e.key \in Keys /\ e.obj.val # NoObject /\ e.obj # NoObject
      <4>1. e \in Events
        BY <1>2, <3>1
      <4> QED
        BY <4>1, ObjectsAssumption, ClusterAssumption DEF Events, ClusterObjects
    <3>7. s = latest => overtaken' = overtaken \ {e.key}
      BY <2>6 DEF HandleEvent
    <3> HIDE DEF e
    <3>3. LastEventTells /\ version[s] + 1 \in 1..Len(history)
      BY <1>2, <3>1 DEF WatchIInv
    \* Whether or not the event is the last of its object, the cache agrees with it.
    <3>4. e.key \in Supported =>
             Agrees(objects'["runtime"][e.key], AfterEvent(e))
      BY <2>6, <3>2
         DEF e, HandleEvent, Tracked, Get, Insert, Delete, Store, Agrees, AfterEvent,
             cacheVars, CacheTypeOK, Caches, Contents
    <3>5. \A k \in Keys : k # e.key => objects'["runtime"][k] = objects["runtime"][k]
      BY <2>6, <3>2
         DEF e, HandleEvent, Insert, Delete, Store, cacheVars, CacheTypeOK, Caches,
             Contents
    <3>6. ASSUME NEW k \in Supported, s = latest, k \notin overtaken',
                 \A i \in (version'[s] + 1)..Len(history) : history[i].key # k
          PROVE  Agrees(objects'["runtime"][k], cluster[k])
      <4>1. CASE k = e.key
        <5>1. cluster[k] = AfterEvent(e)
          <6> DEFINE i == version[s] + 1
          <6>1. i \in 1..Len(history) /\ history[i] = e /\ history[i].key = k
            BY <3>1, <3>3, <4>1
          <6>2. \A j \in (i + 1)..Len(history) : history[j].key # history[i].key
            BY <3>1, <3>6, <6>1
          <6> QED
            BY <3>3, <6>1, <6>2 DEF LastEventTells
        <5> QED
          BY <3>4, <4>1, <5>1
      <4>2. CASE k # e.key
        <5>1. NothingAhead(s, k) /\ k \notin overtaken
          BY <3>1, <3>6, <3>7, <4>2
        <5>2. Agrees(objects["runtime"][k], cluster[k])
          BY <3>1, <3>6, <5>1
        <5> QED
          BY <3>5, <4>2, <5>2, ObjectsAssumption
      <4> QED
        BY <4>1, <4>2
    <3> QED
      BY <3>1, <3>6
  <2>7. CASE NotifyRuntime(s) /\ ~WatchReturns(s)
    BY <2>7 DEF NotifyRuntime, SendNote, DrainNote, resourceVars
  <2>8. CASE CancelResourceStream(s)
    BY <2>8 DEF CancelResourceStream, Cancel, resourceVars
  <2> QED
    BY <2>0, <2>1, <2>2, <2>3, <2>4, <2>5, <2>6, <2>7, <2>8, <2>9
       DEF ResourceSessionStep, ResourceClientStep, ResourceStreamBreaks,
           ReplaceRuntime, NotifyRuntime
<1>10. NewSessionsFresh'
  <2>1. watching'[s] = "new" => watching[s] = "new" /\ version'[s] = version[s]
    <3>1. CASE WatchReturns(s)
      BY <3>1 DEF WatchReturns, ResourceTypeOK
    <3>2. CASE UNCHANGED <<watching, version>>
      BY <3>2
    <3>3. CASE \/ OpenResourceStream(s) \/ WatchUnavailable(s) \/ ListUnavailable(s)
               \/ DynamicListResources(s) \/ FilterListed(s)
      BY <3>3 DEF OpenResourceStream, WatchUnavailable, ListUnavailable,
                  DynamicListResources, FilterListed, ResourceTypeOK
    <3>4. CASE ReplaceRuntime(s) /\ ~WatchReturns(s)
      BY <3>4 DEF ReplaceRuntime, ResourceTypeOK
    <3>5. CASE HandleEvent(s)
      BY <1>3, <3>5 DEF HandleEvent, EventInHandOK, NoEvent
    <3> QED
      BY <3>1, <3>2, <3>3, <3>4, <3>5
         DEF ResourceSessionStep, ResourceClientStep, TakeEvent, NotifyRuntime,
             ReplaceRuntime, ResourceStreamBreaks, CancelResourceStream, resourceVars
  <2> QED
    BY <1>4, <2>1 DEF WatchIInv, NewSessionsFresh
<1> QED
  BY <1>1, <1>6, <1>7, <1>8, <1>9, <1>10 DEF WatchIInv

\* The invariant of the watch holds when the operator starts.
LEMMA WatchInvInit == SyncInit => WatchIInv
<1> SUFFICES ASSUME SyncInit PROVE WatchIInv
  OBVIOUS
<1>1. history = << >> /\ Len(history) = 0
  BY DEF SyncInit, ClusterInit
<1>2. \A s \in RuntimeWriters :
         watching[s] = "new" /\ version[s] = 0 /\ event[s] = NoEvent
  BY DEF SyncInit, ResourceInit
<1> QED
  BY <1>1, <1>2 DEF WatchIInv, LastEventTells, OneWatchSession, WatchSessionOK,
                    EventInHandOK, NewSessionsFresh

\* It survives every step of the composed system, in which only the resource
\* stream writes the runtime cache.
LEMMA WatchInvStep ==
    ASSUME Overlap # "all", SyncIInv, WatchIInv, [SyncNext]_syncVars
    PROVE  WatchIInv'
<1>1. CacheTypeOK /\ ConfigTypeOK /\ ClusterTypeOK /\ ResourceTypeOK
         /\ ReconcilerTypeOK
  BY DEF SyncIInv, SyncTypeOK, ConfigTypeOK
<1>2. CASE ConfigSide
  BY <1>1, <1>2, ConfigStepFrame, WatchInvFrame
     DEF ConfigSide, ConfigOnly, clusterVars
<1>3. CASE ResourceSide
  BY <1>1, <1>3, WatchInvSession DEF ResourceSide, ResourceOnly
<1>4. CASE ReconcilerSide
  <2>1. objects' = objects /\ UNCHANGED resourceVars
    BY <1>1, <1>4, ReconcilerTypeStep
       DEF ReconcilerSide, ReconcilerOnly, SyncIInv, WishWasWanted, DecisionIsSound
  <2>2. CASE ApplyObject
    <3>1. key \in Keys /\ wish \in Values
      BY <1>1, <2>2 DEF ApplyObject, SyncIInv, WishWasWanted, DecisionIsSound,
                        ReconcilerTypeOK, Objects
    <3>2. InCluster(wish, TRUE) \in ClusterObjects
      BY <3>1 DEF InCluster, ClusterObjects
    <3> QED
      BY <1>1, <2>1, <2>2, <3>1, <3>2, WatchInvWrite DEF ApplyObject, ApplyResource
  <2>3. CASE DeleteObject
    <3>1. key \in Keys
      BY <2>3 DEF DeleteObject, SyncIInv, WishWasWanted
    <3> QED
      BY <1>1, <2>1, <2>3, <3>1, WatchInvWrite DEF DeleteObject, DeleteResource
  <2>4. CASE ~ApplyObject /\ ~DeleteObject
    <3>1. UNCHANGED <<cluster, history>>
      BY <1>4, <2>4
         DEF ReconcilerSide, ReconcilerStep, ReconcileRound, DiscoverySucceeds,
             DiscoveryGivesUp, WaitForCaches, CollectConfigKeys, CollectRuntimeKeys,
             GetConfig, GetRuntime, CallFails, RoundEnds, TimerFires,
             ProcessResourceChange, clusterVars
    <3> QED
      BY <2>1, <3>1, WatchInvFrame
  <2> QED
    BY <2>2, <2>3, <2>4
<1>5. CASE ClusterSide
  <2> SUFFICES ASSUME NEW k \in Keys, OthersWrite(k), ClusterOnly
               PROVE  WatchIInv'
    BY <1>5 DEF ClusterSide
  <2> QED
    BY <1>1, OthersPutOrRemove, WatchInvWrite DEF ClusterOnly, cacheVars
<1>6. CASE UNCHANGED syncVars
  BY <1>6, WatchInvFrame DEF syncVars, resourceVars
<1> QED
  BY <1>2, <1>3, <1>4, <1>5, <1>6 DEF SyncNext

\* A watcher that has handled every event has nothing ahead of it, so the
\* runtime cache agrees with the cluster: an object is there if it is owned or
\* was tracked before, with the content it has.
LEMMA WatchInvSuffices == WatchIInv /\ ClusterTypeOK => WatchCaughtUpMeansEqual
<1> SUFFICES ASSUME WatchIInv, ClusterTypeOK,
                    NEW s \in RuntimeWriters, NEW k \in Supported \ overtaken,
                    WatchCaughtUp(s)
             PROVE  IF cluster[k] # NoObject /\ Tracked(k, cluster[k])
                    THEN objects["runtime"][k] = cluster[k].val
                    ELSE objects["runtime"][k] = NoObject
  BY DEF WatchCaughtUpMeansEqual
<1>1. s = latest /\ watching[s] = "watch" /\ NothingAhead(s, k)
  <2>1. Len(history) \in Nat
    BY DEF ClusterTypeOK
  <2> QED
    BY <2>1 DEF WatchCaughtUp, NothingAhead
<1>2. Agrees(objects["runtime"][k], cluster[k])
  BY <1>1 DEF WatchIInv, WatchSessionOK
<1> QED
  BY <1>2 DEF Agrees, Tracked, Get

\* For any keys, contents, number of sessions and writes of the operator and other
\* users, and for cancelled watchers that write while the next session lists or
\* watches: list and watch fit together without a gap, and the current session's
\* watcher that has handled every event leaves the runtime cache equal to the
\* cluster, but for the keys such a late write overtook.
THEOREM WatchCaughtUpAlwaysEqual ==
    ASSUME Overlap # "all"
    PROVE  SyncSpec => []WatchCaughtUpMeansEqual
<1>1. SyncIInv /\ WatchIInv /\ [SyncNext]_syncVars => WatchIInv'
  BY WatchInvStep
<1>2. SyncIInv /\ WatchIInv => WatchCaughtUpMeansEqual
  BY WatchInvSuffices DEF SyncIInv, SyncTypeOK
<1> QED
  BY <1>1, <1>2, WatchInvInit, SyncInvAlways, PTL DEF SyncSpec
================================================================================
