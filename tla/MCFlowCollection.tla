---------------------------- MODULE MCFlowCollection ----------------------------
(* Instances of FlowCollection.  Each kind of cluster has its own initial     *)
(* states: a relay of every sort and nothing else, a relay that works beside  *)
(* OVN-Kubernetes, OVN-Kubernetes alone, aws-node pods with and without the   *)
(* nodeagent container, Auto Mode nodes.                                      *)
EXTENDS FlowCollection

MCNamespaces == <<"kube-system", "cilium">>
MCPackets    == {<<"good", "bad", "good">>, <<"good", "fatal", "good">>, <<"undecodable">>}

NoRelay ==
    /\ service = [ns \in NamespaceSet |-> "none"]
    /\ secret = [ns \in NamespaceSet |-> "none"]
    /\ relay = "plain" /\ agents = AllReachable

GoodRelay ==
    /\ service = [ns \in NamespaceSet |-> "ok"]
    /\ secret = [ns \in NamespaceSet |-> "good"]
    /\ relay = "tls" /\ agents = AllReachable

MCInit ==
    /\ CollectionInit
    /\ \/ facts = {}
       \/ GoodRelay /\ facts = {"ovnk"}
       \/ NoRelay /\ facts \in {{"ovnk"}, {"awsNode", "nodeagent", "crd"},
                                {"awsNode"}, {"awsNode", "autoNodes"}}
    /\ ~flowPolicy /\ agents = AllReachable
    /\ secret["cilium"] # "bad" /\ service["cilium"] # "noports"
    /\ ("nodeagent" \notin facts) => podPhase = [p \in Pods |-> "pending"]

MCSpec == MCInit /\ [][CollectionNext]_collectionVars /\ CollectionFairness
================================================================================
