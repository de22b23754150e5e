-------------------------------- MODULE Cluster --------------------------------
(***************************************************************************)
(* The Kubernetes API server as the operator uses it: objects of one       *)
(* managed kind, and the history that a watch replays.  The position in    *)
(* the history is the resource version.  External to the repository.       *)
(*                                                                         *)
(* An object carries its content and owned: whether managedFields names    *)
(* the operator as a server-side-apply manager.                            *)
(***************************************************************************)
EXTENDS PolicyObjects, Sequences, Naturals

CONSTANT MaxClusterEdits  \* bound on the writes of other cluster users

ASSUME ClusterAssumption ==
    /\ MaxClusterEdits \in Nat
    /\ NoObject \notin [val : Values, owned : BOOLEAN]

VARIABLES
    cluster,      \* cluster[k]: the object with key k
    history,      \* the watch events, oldest first
    clusterEdits  \* the number of writes of other users

clusterVars == <<cluster, history, clusterEdits>>

InCluster(v, owned) == [val |-> v, owned |-> owned]
ClusterObjects == [val : Values, owned : BOOLEAN]

\* A watch event.  Of a deleted object it carries the last state.
Event(k, obj, deleted) == [key |-> k, obj |-> obj, deleted |-> deleted]
Events == [key : Keys, obj : ClusterObjects, deleted : BOOLEAN]

ClusterTypeOK ==
    /\ cluster \in [Keys -> ClusterObjects \cup {NoObject}]
    /\ history \in Seq(Events)
    /\ clusterEdits \in Nat

\* The operator starts with objects it applied in an earlier life, and with
\* objects of other users.
ClusterInit ==
    /\ cluster \in [Keys -> ClusterObjects \cup {NoObject}]
    /\ history = << >>
    /\ clusterEdits = 0

\* A write that changes nothing makes no event.
ClusterPut(k, obj) ==
    /\ cluster' = [cluster EXCEPT ![k] = obj]
    /\ history' = IF cluster[k] = obj THEN history
                  ELSE Append(history, Event(k, obj, FALSE))

ClusterRemove(k) ==
    /\ cluster' = [cluster EXCEPT ![k] = NoObject]
    /\ history' = IF cluster[k] = NoObject THEN history
                  ELSE Append(history, Event(k, cluster[k], TRUE))

\* Another user creates, changes or deletes an object.  A change by server-side
\* apply keeps the operator's manager entry, a merge patch can remove it.
OthersWrite(k) ==
    /\ clusterEdits < MaxClusterEdits
    /\ clusterEdits' = clusterEdits + 1
    /\ \/ /\ cluster[k] = NoObject
          /\ \E v \in Values : ClusterPut(k, InCluster(v, FALSE))
       \/ /\ cluster[k] # NoObject
          /\ \E v \in Values, o \in {FALSE, cluster[k].owned} :
                ClusterPut(k, InCluster(v, o))
       \/ cluster[k] # NoObject /\ ClusterRemove(k)

\* ApplyResource (server-side apply, forced) and DeleteResource, for which
\* NotFound is success.
ApplyResource(k, v) == ClusterPut(k, InCluster(v, TRUE))
DeleteResource(k)   == ClusterRemove(k)
================================================================================
