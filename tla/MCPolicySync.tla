----------------------------- MODULE MCPolicySync -----------------------------
(* Instances of PolicySync.  Symmetry is used in the run that checks        *)
(* invariants only.                                                         *)
EXTENDS PolicySync, TLC

Symmetry == Permutations(Keys) \cup Permutations(Values)
                \cup Permutations(ConfigWriters)
                \cup Permutations(RuntimeWriters)

(* Two stories for one run: initial states with a part of the budget spent.  *)
(* The session that will not happen is over, the edits are used up.          *)
AnyValue == CHOOSE v \in Values : TRUE
OnlyOne(writers) ==
    LET first == CHOOSE w \in writers : TRUE IN
    [s \in writers |-> IF s = first THEN "new" ELSE "over"]

\* CloudSecure wants every object from the start, and discovery has succeeded.  Both
\* streams have delivered their snapshots and sent the notes, nobody has taken these
\* yet, and the resource stream is about to reconnect: other users' writes are drift
\* to repair, and so is what they may have put there before.
DriftInit ==
    /\ desired = [k \in Keys |-> AnyValue]
    /\ ClusterInit
    /\ \A k \in Keys : cluster[k] # NoObject /\ cluster[k].owned = (cluster[k].val = AnyValue)
    /\ objects = [c \in Caches |-> IF c = "config" THEN desired ELSE
                    [k \in Keys |-> IF cluster[k].owned THEN cluster[k].val ELSE NoObject]]
    /\ ready = [c \in Caches |-> TRUE]
    /\ resourceChanged = [c \in Caches |-> SnapshotReplaced]
    /\ notifying = [w \in Writers |-> Nothing]
    /\ cancelled = [w \in Writers |-> FALSE]
    /\ latest = CHOOSE s \in RuntimeWriters : TRUE
    /\ watching = [s \in RuntimeWriters |-> IF s = latest THEN "watch" ELSE "new"]
    /\ listed = [s \in RuntimeWriters |-> NoList]
    /\ snapshot = [s \in RuntimeWriters |-> Empty]
    /\ version = [s \in RuntimeWriters |-> 0]
    /\ event = [s \in RuntimeWriters |-> NoEvent]
    /\ overtaken = {}
    /\ control = "wait" /\ todo = {} /\ key = Nothing /\ wish = NoObject
    /\ written = [k \in Keys |-> {}]
    /\ wanted = [k \in Keys |-> {desired[k]}]
    /\ edits = MaxConfigEdits
    /\ session = [s \in ConfigWriters |->
                    IF OnlyOne(ConfigWriters)[s] = "new" THEN "open" ELSE "over"]
    /\ unsent = [s \in ConfigWriters |-> Empty]
    /\ finished = [s \in ConfigWriters |-> session[s] = "open"]
    /\ mutations = [s \in ConfigWriters |-> << >>]
    /\ held = [s \in ConfigWriters |-> NoMessage]
    /\ pending = [s \in ConfigWriters |-> Empty]
    /\ complete = finished

\* CloudSecure wants the opposite of what the cluster has, changes its mind, and the
\* config stream reconnects.
ReconnectInit ==
    /\ NewObjectCache /\ StreamInit /\ ReconcilerInit
    /\ desired \in [Keys -> {AnyValue, NoObject}]
    /\ cluster = [k \in Keys |-> IF desired[k] = NoObject THEN InCluster(AnyValue, TRUE)
                                ELSE NoObject]
    /\ history = << >>
    /\ clusterEdits = MaxClusterEdits
    /\ watching = OnlyOne(RuntimeWriters)
    /\ listed = [s \in RuntimeWriters |-> NoList]
    /\ snapshot = [s \in RuntimeWriters |-> Empty]
    /\ version = [s \in RuntimeWriters |-> 0]
    /\ event = [s \in RuntimeWriters |-> NoEvent]
    /\ latest = Nothing
    /\ overtaken = {}

\* In both CloudSecure wants one content or nothing; other users write any.
ConfigSideOneValue == ConfigSide /\ desired' \in [Keys -> {AnyValue, NoObject}]
StoriesNext == ConfigSideOneValue \/ ResourceSide \/ ReconcilerSide \/ ClusterSide

StoriesSpec ==
    (DriftInit \/ ReconnectInit) /\ [][StoriesNext]_syncVars /\ Fairness
================================================================================
