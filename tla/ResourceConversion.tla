--------------------------- MODULE ResourceConversion ---------------------------
(***************************************************************************)
(* The converters of the resource stream for the kinds that are only       *)
(* reported: which converter a watched resource gets, which of the         *)
(* converters of the core chain adds data to an object, and what they read *)
(* of policies, services, entry points and load balancer bindings.         *)
(*                                                                         *)
(* Every field holds a sequence: << >> is a field that is unset, <<v>> a   *)
(* scalar or message, longer ones repeated fields.  A protobuf message has *)
(* all its fields; a JSON object is a function on the fields it has, so    *)
(* that a present but empty list differs from an absent one.  Label maps   *)
(* and match expressions are repeated fields of model strings.             *)
(*                                                                         *)
(* Metadata, owner references and timestamps are copied by every converter *)
(* alike and are left out.                                                 *)
(***************************************************************************)
EXTENDS Integers, Sequences

LOCAL INSTANCE SequencesExt

CONSTANT Decimal  \* the text of each port number

\* A field of a JSON object as json.Unmarshal leaves it: an absent one is empty.
Get(j, f) == IF f \in DOMAIN j THEN j[f] ELSE << >>

\* A string field of a Go struct, where "" and absent are the same.
NonEmpty(s) == IF s = <<"">> THEN << >> ELSE s

Each(Convert(_), s) == [i \in DOMAIN s |-> Convert(s[i])]

Only(s, Test(_)) == SelectSeq(s, Test)

\* The text of an optional IntOrString [numeric, value] (its String()).
TextOf(s) == Each(LAMBDA v : IF v.numeric THEN Decimal[v.value] ELSE v.value, s)

\* A scalar of the protobuf that is zero is unset.
NonZero(s) == IF s = <<0>> THEN << >> ELSE s

(***************************************************************************)
(* What the managed policies are read with as well.                        *)
(***************************************************************************)
convertSlimLabelSelector(j) ==
    [matchLabels      |-> Get(j, "matchLabels"),
     matchExpressions |-> Get(j, "matchExpressions")]

convertEndpointSelectors(s) == Each(convertSlimLabelSelector, s)

\* Both selectors are struct fields: absent in the cluster is the selector
\* that selects everything.
convertAWSNamespacedPod(s) ==
    LET Selector(p, f) ==
          IF Get(p, f) = << >> THEN <<[matchLabels |-> << >>, matchExpressions |-> << >>]>>
                               ELSE convertEndpointSelectors(p[f])
    IN  Each(LAMBDA p : [namespaceSelector |-> Selector(p, "namespaceSelector"),
                         podSelector       |-> Selector(p, "podSelector")], s)

convertAWSSubject(j) ==
    [pods       |-> convertAWSNamespacedPod(Get(j, "pods")),
     namespaces |-> convertEndpointSelectors(Get(j, "namespaces"))]

\* A zero port is the unset scalar of the protobuf.
convertAWSPorts(s) ==
    LET Number(n) == [protocol |-> NonEmpty(Get(n, "protocol")), port |-> Get(n, "port")]
        Ranged(n) == [protocol |-> NonEmpty(Get(n, "protocol")), start |-> Get(n, "start"),
                      end |-> Get(n, "end")]
    IN  Each(LAMBDA p : [portNumber |-> Each(Number, Get(p, "portNumber")),
                         portRange  |-> Each(Ranged, Get(p, "portRange")),
                         namedPort  |-> Get(p, "namedPort")], s)

(***************************************************************************)
(* Resources, kinds and converters.                                        *)
(***************************************************************************)

\* <<API group, plural name, kind>>; the kind is the API server's.
resourceList ==
    {<<"cilium.io", "ciliumcidrgroups", "CiliumCIDRGroup">>,
     <<"cilium.io", "ciliumclusterwidenetworkpolicies", "CiliumClusterwideNetworkPolicy">>,
     <<"cilium.io", "ciliumnetworkpolicies", "CiliumNetworkPolicy">>,
     <<"networking.k8s.aws", "clusternetworkpolicies", "ClusterNetworkPolicy">>,
     <<"", "endpoints", "Endpoints">>, <<"", "namespaces", "Namespace">>,
     <<"", "nodes", "Node">>, <<"", "pods", "Pod">>,
     <<"", "replicationcontrollers", "ReplicationController">>,
     <<"", "serviceaccounts", "ServiceAccount">>, <<"", "services", "Service">>,
     <<"apiextensions.k8s.io", "customresourcedefinitions", "CustomResourceDefinition">>,
     <<"apps", "daemonsets", "DaemonSet">>, <<"apps", "deployments", "Deployment">>,
     <<"apps", "replicasets", "ReplicaSet">>, <<"apps", "statefulsets", "StatefulSet">>,
     <<"batch", "cronjobs", "CronJob">>, <<"batch", "jobs", "Job">>,
     <<"elbv2.k8s.aws", "targetgroupbindings", "TargetGroupBinding">>,
     <<"gateway.networking.k8s.io", "gatewayclasses", "GatewayClass">>,
     <<"gateway.networking.k8s.io", "gateways", "Gateway">>,
     <<"gateway.networking.k8s.io", "grpcroutes", "GRPCRoute">>,
     <<"gateway.networking.k8s.io", "httproutes", "HTTPRoute">>,
     <<"gateway.networking.k8s.io", "tcproutes", "TCPRoute">>,
     <<"gateway.networking.k8s.io", "tlsroutes", "TLSRoute">>,
     <<"gateway.networking.k8s.io", "udproutes", "UDPRoute">>,
     <<"metallb.io", "servicebgpstatuses", "ServiceBGPStatus">>,
     <<"metallb.io", "servicel2statuses", "ServiceL2Status">>,
     <<"networking.gke.io", "servicenetworkendpointgroups", "ServiceNetworkEndpointGroup">>,
     <<"networking.k8s.io", "ingressclasses", "IngressClass">>,
     <<"networking.k8s.io", "ingresses", "Ingress">>,
     <<"networking.k8s.io", "networkpolicies", "NetworkPolicy">>,
     <<"policy.networking.k8s.io", "adminnetworkpolicies", "AdminNetworkPolicy">>,
     <<"policy.networking.k8s.io", "baselineadminnetworkpolicies", "BaselineAdminNetworkPolicy">>,
     <<"networking.k8s.aws", "applicationnetworkpolicies", "ApplicationNetworkPolicy">>,
     <<"k8s.ovn.org", "egressfirewalls", "EgressFirewall">>,
     <<"k8s.ovn.org", "egressips", "EgressIP">>}

IsCiliumResource(group, name) ==
    group = "cilium.io" /\
    name \in {"CiliumNetworkPolicy", "CiliumClusterwideNetworkPolicy", "CiliumCIDRGroup",
              "ciliumnetworkpolicies", "ciliumclusterwidenetworkpolicies", "ciliumcidrgroups"}

IsAdminNetworkPolicyResource(group, name) ==
    group = "policy.networking.k8s.io" /\
    name \in {"AdminNetworkPolicy", "BaselineAdminNetworkPolicy",
              "adminnetworkpolicies", "baselineadminnetworkpolicies"}

IsEgressResource(group, name) ==
    group = "k8s.ovn.org" /\ name \in {"EgressFirewall", "EgressIP", "egressfirewalls", "egressips"}

IsAWSResource(group, name) ==
    group = "networking.k8s.aws" /\
    name \in {"ClusterNetworkPolicy", "clusternetworkpolicies",
              "ApplicationNetworkPolicy", "applicationnetworkpolicies"}

\* The converter resourcesClient.Run chooses for a resource: the AWS check
\* comes last and replaces what the switch chose.
ConverterFor(group, resource) ==
    CASE IsAWSResource(group, resource) -> "aws"
      [] ~IsAWSResource(group, resource) /\ IsCiliumResource(group, resource) -> "cilium"
      [] ~IsAWSResource(group, resource) /\ IsAdminNetworkPolicyResource(group, resource) -> "anp"
      [] ~IsAWSResource(group, resource) /\ IsEgressResource(group, resource) -> "egress"
      [] OTHER -> "core"

\* What a converter makes of the kind of an object: the message it sets, ""
\* for metadata only, "error" when it refuses the object.
ConvertUnstructuredToCiliumResource(group, kind) ==
    IF IsCiliumResource(group, kind) THEN kind ELSE "error"

ConvertUnstructuredToAdminNetworkPolicyResource(group, kind) ==
    IF IsAdminNetworkPolicyResource(group, kind) THEN kind ELSE "error"

ConvertUnstructuredToEgressResource(group, kind) ==
    IF IsEgressResource(group, kind) THEN kind ELSE "error"

ConvertUnstructuredToAWSResource(group, kind) ==
    IF IsAWSResource(group, kind) THEN kind ELSE "error"

(***************************************************************************)
(* The core chain: four enrichers in this order, each of which may set the *)
(* kind-specific message.                                                  *)
(***************************************************************************)
ConvertMetaObjectToMetadata(group, kind) ==
    IF \/ kind \in {"Pod", "Node", "Service"} /\ group = ""
       \/ kind = "NetworkPolicy" /\ group = "networking.k8s.io"
    THEN kind ELSE ""

workloadKinds ==
    [CronJob |-> "batch", DaemonSet |-> "apps", Deployment |-> "apps", Job |-> "batch",
     ReplicaSet |-> "apps", StatefulSet |-> "apps"]

extractWorkloadData(group, kind) ==
    IF kind \in DOMAIN workloadKinds /\ workloadKinds[kind] = group THEN "Workload" ELSE ""

convertLoadBalancerBinding(group, kind) ==
    CASE kind = "TargetGroupBinding" /\ group = "elbv2.k8s.aws" -> kind
      [] kind = "ServiceNetworkEndpointGroup" /\ group = "networking.gke.io" -> kind
      [] kind \in {"ServiceL2Status", "ServiceBGPStatus"} /\ group = "metallb.io" -> "MetalLBServiceStatus"
      [] OTHER -> ""

gatewayRouteKinds == {"GRPCRoute", "HTTPRoute", "TCPRoute", "TLSRoute", "UDPRoute"}

convertEntryPoint(group, kind) ==
    CASE kind \in {"Ingress", "IngressClass"} /\ group = "networking.k8s.io" -> kind
      [] kind \in {"GatewayClass", "Gateway"} /\ group = "gateway.networking.k8s.io" -> kind
      [] kind \in gatewayRouteKinds /\ group = "gateway.networking.k8s.io" -> "GatewayRoute"
      [] OTHER -> ""

\* What the enrichers set, one after the other.
NewCoreResourceConverter(group, kind) ==
    Only(<<ConvertMetaObjectToMetadata(group, kind), extractWorkloadData(group, kind),
           convertLoadBalancerBinding(group, kind), convertEntryPoint(group, kind)>>,
         LAMBDA tag : tag # "")

\* The message an object of the stream ends up with.
KindSpecific(group, resource, kind) ==
    LET set == NewCoreResourceConverter(group, kind)
    IN  CASE ConverterFor(group, resource) = "cilium" -> ConvertUnstructuredToCiliumResource(group, kind)
          [] ConverterFor(group, resource) = "anp" ->
                ConvertUnstructuredToAdminNetworkPolicyResource(group, kind)
          [] ConverterFor(group, resource) = "egress" -> ConvertUnstructuredToEgressResource(group, kind)
          [] ConverterFor(group, resource) = "aws" -> ConvertUnstructuredToAWSResource(group, kind)
          [] OTHER -> IF set = << >> THEN "" ELSE set[Len(set)]

(***************************************************************************)
(* NetworkPolicy and the AWS ApplicationNetworkPolicy.                     *)
(***************************************************************************)
convertLabelSelectorToProto(s) == convertEndpointSelectors(s)

convertIPBlockToProto(s) ==
    Each(LAMBDA b : [cidr |-> Get(b, "cidr"), except |-> Get(b, "except")], s)

\* MUTANT: an empty selector is left out like one that is absent.
convertPeerWithoutEmpty(s) ==
    LET Selector(sel) == Only(convertLabelSelectorToProto(sel),
                              LAMBDA x : x.matchLabels # << >> \/ x.matchExpressions # << >>)
        Peer(p) ==
          IF Get(p, "ipBlock") # << >>
          THEN [ipBlock |-> convertIPBlockToProto(p["ipBlock"]), pods |-> << >>]
          ELSE [ipBlock |-> << >>,
                pods |-> <<[namespaceSelector |-> Selector(Get(p, "namespaceSelector")),
                            podSelector |-> Selector(Get(p, "podSelector"))]>>]
    IN  Each(Peer, s)

\* An IP block makes the selectors of the same peer disappear.
convertNetworkPolicyPeerToProto(s) ==
    LET Peer(p) ==
          IF Get(p, "ipBlock") # << >>
          THEN [ipBlock |-> convertIPBlockToProto(p["ipBlock"]), pods |-> << >>]
          ELSE [ipBlock |-> << >>,
                pods |-> <<[namespaceSelector |-> convertLabelSelectorToProto(Get(p, "namespaceSelector")),
                            podSelector |-> convertLabelSelectorToProto(Get(p, "podSelector"))]>>]
    IN  Each(Peer, s)

convertProtocolToProto(s) ==
    IF s = << >> \/ s[1] \notin {"UDP", "SCTP"} THEN <<"TCP">> ELSE s

convertNetworkPolicyPortToProto(s) ==
    Each(LAMBDA p : [protocol |-> convertProtocolToProto(Get(p, "protocol")),
                     port     |-> TextOf(Get(p, "port")),
                     endPort  |-> Get(p, "endPort")], s)

\* Ingress and egress rules become the same message; peers is "from" or "to".
convertNetworkPolicyRuleToProto(s, peers) ==
    Each(LAMBDA r : [peers |-> convertNetworkPolicyPeerToProto(Get(r, peers)),
                     ports |-> convertNetworkPolicyPortToProto(Get(r, "ports"))], s)

\* A selector that selects all pods is left out.
convertNetworkPolicyToProto(spec) ==
    LET all == LET sel == Get(spec, "podSelector") IN
               sel = << >> \/ (Get(sel[1], "matchLabels") = << >> /\
                               Get(sel[1], "matchExpressions") = << >>)
        types == Get(spec, "policyTypes")
    IN  [podSelector  |-> IF all THEN << >> ELSE convertLabelSelectorToProto(spec["podSelector"]),
         ingressRules |-> convertNetworkPolicyRuleToProto(Get(spec, "ingress"), "from"),
         egressRules  |-> convertNetworkPolicyRuleToProto(Get(spec, "egress"), "to"),
         ingress      |-> \E i \in DOMAIN types : types[i] = "Ingress",
         egress       |-> \E i \in DOMAIN types : types[i] = "Egress"]

convertAWSANPEgressPeers(s) ==
    Each(LAMBDA p : [podSelector       |-> convertLabelSelectorToProto(Get(p, "podSelector")),
                     namespaceSelector |-> convertLabelSelectorToProto(Get(p, "namespaceSelector")),
                     ipBlock           |-> convertIPBlockToProto(Get(p, "ipBlock")),
                     domainNames       |-> Get(p, "domainNames")], s)

convertAWSANPIngressPeers(s) ==
    Each(LAMBDA p : [podSelector       |-> convertLabelSelectorToProto(Get(p, "podSelector")),
                     namespaceSelector |-> convertLabelSelectorToProto(Get(p, "namespaceSelector")),
                     ipBlock           |-> convertIPBlockToProto(Get(p, "ipBlock"))], s)

\* The protocol stays unset when it is absent; the port keeps its type.
convertANPPorts(s) ==
    Each(LAMBDA p : [protocol |-> Get(p, "protocol"), port |-> Get(p, "port"),
                     endPort |-> Get(p, "endPort")], s)

convertAWSANPIngressRules(s) ==
    Each(LAMBDA r : [peers |-> convertAWSANPIngressPeers(Get(r, "from")),
                     ports |-> convertANPPorts(Get(r, "ports"))], s)

convertAWSANPEgressRules(s) ==
    Each(LAMBDA r : [peers |-> convertAWSANPEgressPeers(Get(r, "to")),
                     ports |-> convertANPPorts(Get(r, "ports"))], s)

convertAWSApplicationNetworkPolicy(spec) ==
    [podSelector  |-> IF Get(spec, "podSelector") = << >>
                      THEN convertLabelSelectorToProto(<<[f \in {} |-> << >>]>>)
                      ELSE convertLabelSelectorToProto(spec["podSelector"]),
     policyTypes  |-> Get(spec, "policyTypes"),
     ingressRules |-> convertAWSANPIngressRules(Get(spec, "ingress")),
     egressRules  |-> convertAWSANPEgressRules(Get(spec, "egress"))]

(***************************************************************************)
(* Admin and baseline admin network policies, egress firewalls and IPs.    *)
(***************************************************************************)
convertANPSubject(s) ==
    convertAWSSubject(IF s = << >> THEN [f \in {} |-> << >>] ELSE s[1])

convertANPIngressPeer(p) ==
    [namespaces  |-> convertLabelSelectorToProto(Get(p, "namespaces")),
     pods        |-> convertAWSNamespacedPod(Get(p, "pods")),
     nodes |-> << >>, networks |-> << >>, domainNames |-> << >>]

convertANPEgressPeer(p) ==
    [convertANPIngressPeer(p) EXCEPT
        !.nodes       = convertLabelSelectorToProto(Get(p, "nodes")),
        !.networks    = Get(p, "networks"),
        !.domainNames = Get(p, "domainNames")]

convertAdminNetworkPolicyPorts(s) == convertAWSPorts(s)

convertANPIngressRules(s) ==
    Each(LAMBDA r : [action |-> Get(r, "action"), name |-> NonEmpty(Get(r, "name")),
                     peers  |-> Each(convertANPIngressPeer, Get(r, "from")),
                     ports  |-> convertAdminNetworkPolicyPorts(Get(r, "ports"))], s)

convertANPEgressRules(s) ==
    Each(LAMBDA r : [action |-> Get(r, "action"), name |-> NonEmpty(Get(r, "name")),
                     peers  |-> Each(convertANPEgressPeer, Get(r, "to")),
                     ports  |-> convertAdminNetworkPolicyPorts(Get(r, "ports"))], s)

\* The same rules in both kinds; a baseline policy has no priority.
convertBaselineANPIngressRules(s) == convertANPIngressRules(s)
convertBaselineANPEgressRules(s)  == convertANPEgressRules(s)

convertAdminNetworkPolicyData(spec) ==
    [priority |-> Get(spec, "priority"),
     subject  |-> convertANPSubject(Get(spec, "subject")),
     ingress  |-> convertANPIngressRules(Get(spec, "ingress")),
     egress   |-> convertANPEgressRules(Get(spec, "egress"))]

convertBaselineAdminNetworkPolicyData(spec) ==
    [subject |-> convertANPSubject(Get(spec, "subject")),
     ingress |-> convertBaselineANPIngressRules(Get(spec, "ingress")),
     egress  |-> convertBaselineANPEgressRules(Get(spec, "egress"))]

convertEgressFirewallDestination(d) ==
    [cidrSelector |-> NonEmpty(Get(d, "cidrSelector")),
     dnsName      |-> NonEmpty(Get(d, "dnsName")),
     nodeSelector |-> convertLabelSelectorToProto(Get(d, "nodeSelector"))]

convertEgressFirewallData(spec) ==
    Each(LAMBDA r : [type  |-> Get(r, "type"),
                     to    |-> convertEgressFirewallDestination(
                                  IF Get(r, "to") = << >> THEN [f \in {} |-> << >>] ELSE r["to"][1]),
                     ports |-> Each(LAMBDA p : [protocol |-> Get(p, "protocol"),
                                                port     |-> NonZero(Get(p, "port"))],
                                    Get(r, "ports"))],
         Get(spec, "egress"))

convertEgressIPData(spec) ==
    [egressIPs         |-> Get(spec, "egressIPs"),
     namespaceSelector |-> convertLabelSelectorToProto(Get(spec, "namespaceSelector")),
     podSelector       |-> convertLabelSelectorToProto(Get(spec, "podSelector"))]

(***************************************************************************)
(* Services, nodes and pods.                                               *)
(***************************************************************************)

\* The panic of int32ToUint32 is the value -1; its callers pass positive values.
int32ToUint32(n) == IF n < 0 THEN <<-1>> ELSE <<n>>

convertServicePortsToPorts(s) ==
    Each(LAMBDA p : [port     |-> p.port,
                     protocol |-> IF Get(p, "protocol") = << >> THEN "TCP" ELSE p.protocol[1],
                     nodePort |-> IF p.nodePort > 0 THEN int32ToUint32(p.nodePort) ELSE << >>], s)

convertIngressToStringList(s) ==
    FlattenSeq(Each(LAMBDA e : NonEmpty(Get(e, "ip")) \o NonEmpty(Get(e, "hostname")), s))

combineIPAddresses(cluster, external, ingress, loadBalancer) ==
    cluster \o external \o ingress \o NonEmpty(loadBalancer)

convertLoadBalancerIngress(s) ==
    Each(LAMBDA e : [ip |-> NonEmpty(Get(e, "ip")), hostname |-> NonEmpty(Get(e, "hostname")),
                     ipMode |-> Get(e, "ipMode")], s)

convertToKubernetesServiceData(svc) ==
    [ipAddresses |-> combineIPAddresses(Get(svc, "clusterIPs"), Get(svc, "externalIPs"),
                                        convertIngressToStringList(Get(svc, "ingress")),
                                        Get(svc, "loadBalancerIP")),
     ports       |-> convertServicePortsToPorts(Get(svc, "ports")),
     loadBalancerIngress |-> convertLoadBalancerIngress(Get(svc, "ingress")),
     healthCheckNodePort |-> IF svc.healthCheckNodePort > 0
                             THEN int32ToUint32(svc.healthCheckNodePort) ELSE << >>]

\* Host names are addresses of a node, but not IP addresses of it.
extractNodeDataFromUnstructured(node) ==
    [ipAddresses |-> Each(LAMBDA a : a.address,
                          Only(Get(node, "addresses"), LAMBDA a : a.type \in {"InternalIP", "ExternalIP"})),
     addresses   |-> Get(node, "addresses")]

extractPodIPsFromUnstructured(pod) == Only(Get(pod, "podIPs"), LAMBDA ip : ip # "")

(***************************************************************************)
(* Entry points and load balancer bindings.                                *)
(***************************************************************************)
nonEmptyString(s) == NonEmpty(s)

int32PtrToUint32(s) == IF s = << >> \/ s[1] < 0 THEN << >> ELSE s

\* A port number wins over a port name; a resource backend has no fields.
convertIngressBackend(b) ==
    LET svc == Get(b, "service")
    IN  IF svc = << >> THEN [name |-> << >>, number |-> << >>, portName |-> << >>]
        ELSE [name     |-> nonEmptyString(Get(svc[1], "name")),
              number   |-> IF svc[1]["number"] > 0 THEN <<svc[1]["number"]>> ELSE << >>,
              portName |-> IF svc[1]["number"] > 0 THEN << >>
                           ELSE nonEmptyString(Get(svc[1], "portName"))]

convertIngressLoadBalancerIngress(s) ==
    Each(LAMBDA e : [ip |-> nonEmptyString(Get(e, "ip")), hostname |-> nonEmptyString(Get(e, "hostname"))], s)

\* The class of an older ingress is in its annotation.
convertIngress(ing) ==
    LET class   == nonEmptyString(Get(ing, "ingressClassName"))
        Path(p) == [path |-> nonEmptyString(Get(p, "path")), backend |-> convertIngressBackend(p.backend)]
        Rule(r) == [host |-> nonEmptyString(Get(r, "host")), paths |-> Each(Path, Get(r, "paths"))]
    IN  [class          |-> IF class = << >> THEN nonEmptyString(Get(ing, "annotation")) ELSE class,
         defaultBackend |-> Each(convertIngressBackend, Get(ing, "defaultBackend")),
         rules          |-> Each(Rule, Get(ing, "rules")),
         loadBalancer   |-> convertIngressLoadBalancerIngress(Get(ing, "loadBalancer"))]

convertGatewayParentReference(p) ==
    [name |-> Get(p, "name"), namespace |-> nonEmptyString(Get(p, "namespace")),
     port |-> int32PtrToUint32(Get(p, "port"))]

\* MUTANT: the generation a condition is about is not looked at.
RouteAcceptedOnce(conditions, generation) ==
    LET accepted == Only(conditions, LAMBDA c : c.type = "Accepted")
    IN  IF accepted = << >> THEN << >>
        ELSE CASE accepted[1].status = "True" -> <<TRUE>> [] accepted[1].status = "False" -> <<FALSE>>
               [] OTHER -> << >>

\* Of a parent's conditions only the first Accepted one counts, and not if it
\* is about an older generation of the route.
RouteAccepted(conditions, generation) ==
    LET accepted == Only(conditions, LAMBDA c : c.type = "Accepted")
        c == accepted[1]
    IN  IF accepted = << >> \/ (c.observed > 0 /\ c.observed < generation) THEN << >>
        ELSE CASE c.status = "True" -> <<TRUE>> [] c.status = "False" -> <<FALSE>> [] OTHER -> << >>

\* The backends of all rules follow each other in one list.
convertGatewayRoute(route) ==
    LET Backend(b) == [name |-> b.name, namespace |-> nonEmptyString(Get(b, "namespace")),
                       port |-> int32PtrToUint32(Get(b, "port"))]
    IN  [parentRefs  |-> Each(convertGatewayParentReference, Get(route, "parentRefs")),
         backendRefs |-> Each(Backend, FlattenSeq(Get(route, "rules"))),
         parents     |-> Each(LAMBDA p : RouteAccepted(p, route.generation), route.parents)]

\* A listener's port is unsigned in the message.
convertGateway(gw) ==
    [listeners |-> Each(LAMBDA l : [name |-> l.name, port |-> l.port], Get(gw, "listeners")),
     addresses |-> Each(LAMBDA a : [type |-> nonEmptyString(Get(a, "type")), value |-> a.value],
                        Get(gw, "addresses"))]

\* A peer is a CIDR or a security group; empty strings stay unset.
convertTGBPeers(s) ==
    Each(LAMBDA p : [cidr  |-> nonEmptyString(Get(p, "cidr")),
                     group |-> nonEmptyString(Get(p, "groupID"))], s)

convertTGBPorts(s) ==
    Each(LAMBDA p : [protocol |-> nonEmptyString(Get(p, "protocol")), port |-> TextOf(Get(p, "port"))], s)

convertTGBIngressRules(s) ==
    Each(LAMBDA r : [from |-> convertTGBPeers(Get(r, "from")), ports |-> convertTGBPorts(Get(r, "ports"))], s)

convertAWSTargetGroupBinding(tgb) ==
    [service      |-> tgb.service,
     nodeSelector |-> convertLabelSelectorToProto(Get(tgb, "nodeSelector")),
     rules        |-> convertTGBIngressRules(Get(tgb, "ingress"))]

\* The service of an endpoint group is named by the group's labels.
convertGKEServiceNetworkEndpointGroup(neg, labels) ==
    [service |-> IF "service" \in labels THEN "named" ELSE "", groups |-> Get(neg, "groups")]

convertMetalLBServiceStatus(st) ==
    [node |-> st.node, interfaces |-> Only(Get(st, "interfaces"), LAMBDA i : i # "")]
=============================================================================
