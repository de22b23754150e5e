----------------------------- MODULE FlowCollection -----------------------------
(***************************************************************************)
(* Which flow collector the operator runs, decided once at startup, and    *)
(* the collector it then runs: the Hubble session, the OVN-Kubernetes      *)
(* listener or the AWS VPC CNI poller.  The Auto Mode collector has its    *)
(* own module, AutoModeLog; what it shares with the others is that it runs *)
(* only if it was detected.                                                *)
(***************************************************************************)
EXTENDS HubbleSession, OvnkListener, VpcCniPoller

VARIABLES
    facts,       \* what the API server would answer at startup
    detected,    \* CollectorName, "undecided" before detection
    flowPolicy   \* the ClusterNetworkPolicy for flow logging exists

detectionVars  == <<facts, detected, flowPolicy>>
collectionVars == <<hubbleVars, ovnkVars, pollerVars, detectionVars>>

\* The OVN-Kubernetes namespace, aws-node pods, one of them with the nodeagent
\* container, the ClusterNetworkPolicy CRD, nodes with the Auto Mode label.
Facts == {"ovnk", "awsNode", "nodeagent", "crd", "autoNodes"}
Names == {"undecided", "Cilium", "OVN-K", "AWS-VPC-CNI", "EKS-Auto-Mode", "None"}

CollectionInit ==
    /\ HubbleInit /\ OvnkInit /\ PollerInit
    /\ facts \in SUBSET Facts
    /\ "nodeagent" \in facts => "awsNode" \in facts
    /\ detected = "undecided"
    /\ flowPolicy \in BOOLEAN

--------------------------------------------------------------------------------
IsOVNKDeployed(seen)         == "ovnk" \in seen
IsAWSVPCCNIAvailable(seen)   == "awsNode" \in seen /\ "nodeagent" \in seen
IsCRDAvailable(seen)         == "crd" \in seen

IsEKSAutoModeAvailable(seen) == "autoNodes" \in seen

\* EnsureFlowLoggingPolicy: Create, and an existing policy is as good.
EnsureFlowLoggingPolicy(seen, works) ==
    flowPolicy' = (flowPolicy \/ (IsCRDAvailable(seen) /\ works))

\* DetectFlowCollector: the first that is available.  A lookup that fails makes
\* its collector look absent; found are the namespaces with a readable service.
DetectFlowCollector ==
    /\ detected = "undecided"
    /\ \E found \in SUBSET Discovered, seen \in SUBSET facts, works \in BOOLEAN :
          LET cilium == IsCiliumAvailable(found)
              ovnk   == ~cilium /\ IsOVNKDeployed(seen)
              vpc    == ~cilium /\ ~ovnk /\ IsAWSVPCCNIAvailable(seen) IN
          \/ cilium /\ detected' = "Cilium" /\ UNCHANGED flowPolicy
          \/ ovnk /\ detected' = "OVN-K" /\ UNCHANGED flowPolicy
          \/ /\ vpc /\ detected' = "AWS-VPC-CNI"
             /\ EnsureFlowLoggingPolicy(seen, works)
          \/ /\ ~cilium /\ ~ovnk /\ ~vpc
             /\ detected' = IF IsEKSAutoModeAvailable(seen) THEN "EKS-Auto-Mode" ELSE "None"
             /\ UNCHANGED flowPolicy
    /\ UNCHANGED <<facts, hubbleVars, ovnkVars, pollerVars>>

\* The detected collector and what it looks at.  The surroundings of the others
\* are nobody's business and stay as they are.
CiliumRuns == detected = "Cilium" /\ HubbleNext /\ UNCHANGED <<ovnkVars, pollerVars>>
OvnkRuns   == detected = "OVN-K" /\ OvnkNext /\ UNCHANGED <<hubbleVars, pollerVars>>
VpcCniRuns == detected = "AWS-VPC-CNI" /\ PollerNext /\ UNCHANGED <<hubbleVars, ovnkVars>>

\* Nothing is collected, or the Auto Mode collector runs.
OtherwiseIdle == detected \in {"None", "EKS-Auto-Mode"} /\ UNCHANGED collectionVars

CollectionNext ==
    \/ DetectFlowCollector
    \/ (CiliumRuns \/ OvnkRuns \/ VpcCniRuns) /\ UNCHANGED detectionVars
    \/ OtherwiseIdle

CollectionSpec == CollectionInit /\ [][CollectionNext]_collectionVars

(* Each collector is scheduled as its own module says, if it is the one that *)
(* was detected.                                                             *)
CollectionFairness ==
    /\ WF_hubbleVars(detected = "Cilium" /\ RunAgain)
    /\ WF_hubbleVars(detected = "Cilium" /\ NewCiliumFlowCollector)
    /\ WF_hubbleVars(detected = "Cilium" /\ GetFlows)
    /\ WF_hubbleVars(detected = "Cilium" /\ MonitorTick)
    /\ \A s \in Sessions :
          /\ WF_ovnkVars(detected = "OVN-K" /\ ReaderStep(s))
          /\ WF_ovnkVars(detected = "OVN-K" /\ CloseListener(s))
          /\ WF_ovnkVars(detected = "OVN-K" /\ ipfixRun[s] # "up" /\ ReaderEnds(s))
    /\ WF_pollerVars(detected = "AWS-VPC-CNI"
                       /\ (ListPods \/ ParseLine \/ CleanupStalePods \/ FetchDone
                             \/ \E p \in Pods : PollPod(p)))
    /\ WF_pollerVars(detected = "AWS-VPC-CNI" /\ (FetchFails \/ Answer))
    /\ \A p \in Pods : SF_pollerVars(detected = "AWS-VPC-CNI" /\ fetch.pod = p /\ Answer)
FairCollection == CollectionSpec /\ CollectionFairness

--------------------------------------------------------------------------------
\* Type invariant of detection and of the three collectors.
CollectionTypeOK ==
    /\ HubbleTypeOK /\ OvnkTypeOK /\ PollerTypeOK
    /\ facts \subseteq Facts /\ detected \in Names /\ flowPolicy \in BOOLEAN

\* If the relay was found at startup and can be served, the Cilium collector
\* finds the right credentials by itself and streams, again and again.
EventuallyStreams ==
    <>[](Servable /\ detected = "Cilium") => []<>(session = "streaming")

\* No collector stands still unnoticed: the lines of tracked pods are fetched, the
\* IPFIX socket is read whatever arrives on it, short of a record that ends the
\* process, and a Hubble stream that has gone silent is reported.
CollectorsGoOn == LinesAreFetched /\ SocketIsRead /\ SilenceIsReported
================================================================================
