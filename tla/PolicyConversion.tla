---------------------------- MODULE PolicyConversion ----------------------------
(***************************************************************************)
(* The two directions of the managed policy kinds: a configured object     *)
(* (protobuf) is marshalled for Server-Side Apply, and an object of the    *)
(* cluster (JSON) is converted back for the resource stream and the        *)
(* runtime cache.  The reconciler compares a configured object with what   *)
(* comes back, so whatever does not survive the round trip is drift for    *)
(* ever.  Objects and messages are written as in ResourceConversion.       *)
(***************************************************************************)
EXTENDS ResourceConversion

(***************************************************************************)
(* Kinds                                                                   *)
(***************************************************************************)
kindMappingFor ==
    [CiliumNetworkPolicy            |-> "ciliumnetworkpolicies",
     CiliumClusterwideNetworkPolicy |-> "ciliumclusterwidenetworkpolicies",
     CiliumCIDRGroup                |-> "ciliumcidrgroups",
     ClusterNetworkPolicy           |-> "clusternetworkpolicies"]

ManagedKinds == DOMAIN kindMappingFor

RuleKinds == {"CiliumNetworkPolicy", "CiliumClusterwideNetworkPolicy"}

\* The key under which both caches know the object: no namespace is "".
CacheKey(c) == <<c.kind, IF c.namespace = << >> THEN "" ELSE c.namespace[1]>>

(***************************************************************************)
(* From protobuf to the cluster.                                           *)
(***************************************************************************)

\* The fields whose elements are messages themselves.
MessageFields ==
    {"endpointSelector", "nodeSelector", "enableDefaultDeny", "ingress", "egress",
     "ingressDeny", "egressDeny", "fromEndpoints", "toEndpoints", "items",
     "fromCIDRSet", "toCIDRSet", "fromGroups", "toGroups", "fromNodes", "toNodes",
     "toPorts", "ports", "icmps", "fields", "authentication", "toFQDNs",
     "toServices", "k8sServiceSelector", "k8sService", "selector", "aws",
     "cidrGroupSelector", "subject", "pods", "namespaces", "namespaceSelector",
     "podSelector", "portNumber", "portRange", "from", "to"}

\* protojson with EmitUnpopulated=false: only the fields that are set appear.
RECURSIVE protoToMap(_)
protoToMap(msg) ==
    [f \in {g \in DOMAIN msg : msg[g] # << >>} |->
        IF f \in MessageFields
        THEN [i \in DOMAIN msg[f] |-> protoToMap(msg[f][i])]
        ELSE msg[f]]

\* Operators that change a field only where the object has it.
At(j, f, Convert(_)) ==
    [g \in DOMAIN j |-> IF g = f THEN Convert(j[g]) ELSE j[g]]

\* typeInt and typeString become type, which is a number or a string.
normalizeICMPTypeFields(rule) ==
    LET Renamed(field) ==
          [g \in (DOMAIN field \ {"typeInt", "typeString"}) \cup
                 (IF DOMAIN field \cap {"typeInt", "typeString"} # {} THEN {"type"} ELSE {}) |->
             CASE g # "type" -> field[g]
               [] "typeInt" \in DOMAIN field -> <<[int |-> field["typeInt"], str |-> << >>]>>
               [] OTHER -> <<[int |-> << >>, str |-> field["typeString"]]>>]
        InRule(icmp) == At(icmp, "fields", LAMBDA s : Each(Renamed, s))
    IN  At(rule, "icmps", LAMBDA s : Each(InRule, s))

\* MUTANT: the deny rules are forgotten.
normalizeAllowRules(spec) ==
    LET Unwrap(w) == Get(w[1], "items")
        Rule(r) == normalizeICMPTypeFields(
                       At(At(r, "fromEndpoints", Unwrap), "toEndpoints", Unwrap))
        Rules(s) == Each(Rule, s)
    IN  At(At(spec, "ingress", Rules), "egress", Rules)

\* The LabelSelectorList wrapper is replaced by its items, an empty one by an
\* empty list; the rules of all four directions are treated.
normalizeProtojsonForCilium(spec) ==
    LET Unwrap(w) == Get(w[1], "items")
        Rule(r) == normalizeICMPTypeFields(
                       At(At(r, "fromEndpoints", Unwrap), "toEndpoints", Unwrap))
        Rules(s) == Each(Rule, s)
    IN  At(At(At(At(spec, "ingress", Rules), "ingressDeny", Rules),
              "egress", Rules), "egressDeny", Rules)

\* One rule goes to "spec", more to "specs".
marshalPolicySpecs(specs) ==
    LET Marshal(r) == normalizeProtojsonForCilium(protoToMap(r))
    IN  CASE Len(specs) = 0 -> [f \in {} |-> << >>]
          [] Len(specs) = 1 -> [spec |-> Each(Marshal, specs)]
          [] OTHER -> [specs |-> Each(Marshal, specs)]

marshalConfiguredObjectSpecs(c) ==
    CASE c.kind \in RuleKinds -> marshalPolicySpecs(c.specs)
      [] c.kind = "CiliumCIDRGroup" ->
            IF c.group = << >> THEN [f \in {} |-> << >>]
                               ELSE [spec |-> Each(protoToMap, c.group)]
      [] c.kind = "ClusterNetworkPolicy" -> [spec |-> <<protoToMap(c.aws)>>]

\* The object to apply: labels and namespace only if there are any.
ConvertToApplyObject(c) ==
    [kind      |-> c.kind,
     namespace |-> NonEmpty(c.namespace),
     labels    |-> c.labels,
     fields    |-> marshalConfiguredObjectSpecs(c)]

(***************************************************************************)
(* From the cluster to protobuf: Cilium.                                   *)
(***************************************************************************)
convertPortProtocols(s) ==
    LET Port(p) == [port     |-> NonEmpty(Get(p, "port")),
                    endPort  |-> IF Get(p, "endPort") = <<0>> THEN << >> ELSE Get(p, "endPort"),
                    protocol |-> NonEmpty(Get(p, "protocol"))]
    IN  Each(Port, s)

\* What Cilium says of layer 7 is not read.
convertPortRules(s) ==
    Each(LAMBDA r : [ports |-> convertPortProtocols(Get(r, "ports"))], s)

convertCIDRRules(s) ==
    LET Set(r) == [cidr              |-> NonEmpty(Get(r, "cidr")),
                   cidrGroupRef      |-> NonEmpty(Get(r, "cidrGroupRef")),
                   cidrGroupSelector |-> convertEndpointSelectors(Get(r, "cidrGroupSelector")),
                   except            |-> Get(r, "except")]
    IN  Each(Set, s)

\* MUTANT: a number out of range is sent as a string.
convertICMPFieldsAsText(s) ==
    LET InRange(v) == v >= 0 /\ v <= 255
        Field(f) ==
          LET t   == Get(f, "type")
              int == IF t = << >> THEN << >> ELSE t[1].int
              str == IF t = << >> THEN << >> ELSE t[1].str
          IN  [family |-> NonEmpty(Get(f, "family")),
               typeInt |-> IF int # << >> /\ InRange(int[1]) THEN int
                           ELSE IF str # << >> /\ str[1].numeric /\ InRange(str[1].value)
                           THEN <<str[1].value>> ELSE << >>,
               typeString |-> IF int # << >> /\ ~InRange(int[1])
                              THEN <<[numeric |-> TRUE, value |-> int[1]]>>
                              ELSE IF str # << >> /\ ~str[1].numeric THEN str ELSE << >>]
    IN  Each(Field, s)

\* A type out of range is dropped, a numeric string becomes a number.  A
\* string is [numeric, value]: value is the number, or the name.
convertICMPFields(s) ==
    LET InRange(v) == v >= 0 /\ v <= 255
        OfType(t) ==
          LET int == t.int  str == t.str
          IN  IF int # << >> THEN IF InRange(int[1]) THEN <<int, << >> >> ELSE << << >>, << >> >>
              ELSE IF str[1].numeric /\ InRange(str[1].value) THEN << <<str[1].value>>, << >> >>
              ELSE IF str[1].numeric THEN << << >>, << >> >>
              ELSE << << >>, str >>
        Field(f) ==
          LET t == IF Get(f, "type") = << >> THEN << << >>, << >> >> ELSE OfType(f["type"][1])
          IN  [family |-> NonEmpty(Get(f, "family")), typeInt |-> t[1], typeString |-> t[2]]
    IN  Each(Field, s)

convertICMPRules(s) ==
    Each(LAMBDA r : [fields |-> convertICMPFields(Get(r, "fields"))], s)

convertFQDNSelectors(s) ==
    Each(LAMBDA f : [matchName    |-> NonEmpty(Get(f, "matchName")),
                     matchPattern |-> NonEmpty(Get(f, "matchPattern"))], s)

convertServices(s) ==
    LET Selector(v) == [selector  |-> convertEndpointSelectors(Get(v, "selector")),
                        namespace |-> NonEmpty(Get(v, "namespace"))]
        Named(v)    == [serviceName |-> NonEmpty(Get(v, "serviceName")),
                        namespace   |-> NonEmpty(Get(v, "namespace"))]
    IN  Each(LAMBDA v : [k8sServiceSelector |-> Each(Selector, Get(v, "k8sServiceSelector")),
                         k8sService         |-> Each(Named, Get(v, "k8sService"))], s)

\* A group without AWS part is left out, the region is never read.
convertGroups(s) ==
    LET Aws(a) == [labels              |-> Get(a, "labels"),
                   securityGroupsIds   |-> Get(a, "securityGroupsIds"),
                   securityGroupsNames |-> Get(a, "securityGroupsNames"),
                   region              |-> << >>]
    IN  Each(LAMBDA g : [aws |-> Each(Aws, g["aws"])],
             Only(s, LAMBDA g : Get(g, "aws") # << >>))

convertAuthentication(s) == Each(LAMBDA a : [mode |-> Get(a, "mode")], s)

\* The two sides of enableDefaultDeny, called denyIngress and denyEgress here
\* because the rules have fields of the same names.
convertDefaultDeny(s) ==
    LET Sides(d) == [denyIngress |-> Get(d, "denyIngress"), denyEgress |-> Get(d, "denyEgress")]
    IN  Only(Each(Sides, s), LAMBDA d : d.denyIngress # << >> \/ d.denyEgress # << >>)

\* An empty endpoint list is read like no list: the wrapper is unset.
Wrapped(s) == IF s = << >> THEN << >> ELSE <<[items |-> convertEndpointSelectors(s)]>>

convertIngressCommonFields(r) ==
    [fromEndpoints  |-> Wrapped(Get(r, "fromEndpoints")),
     fromCIDR       |-> Get(r, "fromCIDR"),
     fromCIDRSet    |-> convertCIDRRules(Get(r, "fromCIDRSet")),
     fromEntities   |-> Get(r, "fromEntities"),
     fromGroups     |-> convertGroups(Get(r, "fromGroups")),
     fromNodes      |-> convertEndpointSelectors(Get(r, "fromNodes")),
     toPorts        |-> convertPortRules(Get(r, "toPorts")),
     icmps          |-> convertICMPRules(Get(r, "icmps")),
     authentication |-> << >>]

convertIngressDenyRules(s) == Each(convertIngressCommonFields, s)

convertIngressRules(s) ==
    Each(LAMBDA r : [convertIngressCommonFields(r) EXCEPT
                         !.authentication = convertAuthentication(Get(r, "authentication"))], s)

convertEgressCommonFields(r) ==
    [toEndpoints    |-> Wrapped(Get(r, "toEndpoints")),
     toCIDR         |-> Get(r, "toCIDR"),
     toCIDRSet      |-> convertCIDRRules(Get(r, "toCIDRSet")),
     toEntities     |-> Get(r, "toEntities"),
     toServices     |-> convertServices(Get(r, "toServices")),
     toGroups       |-> convertGroups(Get(r, "toGroups")),
     toNodes        |-> convertEndpointSelectors(Get(r, "toNodes")),
     toPorts        |-> convertPortRules(Get(r, "toPorts")),
     icmps          |-> convertICMPRules(Get(r, "icmps")),
     toFQDNs        |-> << >>,
     authentication |-> << >>]

convertEgressDenyRules(s) == Each(convertEgressCommonFields, s)

convertEgressRules(s) ==
    Each(LAMBDA r : [convertEgressCommonFields(r) EXCEPT
                         !.toFQDNs = convertFQDNSelectors(Get(r, "toFQDNs")),
                         !.authentication = convertAuthentication(Get(r, "authentication"))], s)

\* The labels of a rule are a list of key and value in the cluster, a map in
\* the protobuf; an entry without key is dropped.
convertLabelArray(s) == Only(s, LAMBDA l : l # "")

convertCiliumPolicyRule(r) ==
    [endpointSelector  |-> convertEndpointSelectors(Get(r, "endpointSelector")),
     nodeSelector      |-> convertEndpointSelectors(Get(r, "nodeSelector")),
     description       |-> NonEmpty(Get(r, "description")),
     labels            |-> convertLabelArray(Get(r, "labels")),
     enableDefaultDeny |-> convertDefaultDeny(Get(r, "enableDefaultDeny")),
     ingress           |-> convertIngressRules(Get(r, "ingress")),
     egress            |-> convertEgressRules(Get(r, "egress")),
     ingressDeny       |-> convertIngressDenyRules(Get(r, "ingressDeny")),
     egressDeny        |-> convertEgressDenyRules(Get(r, "egressDeny"))]

convertCiliumSpecs(o) ==
    Each(convertCiliumPolicyRule, Get(o, "spec") \o Get(o, "specs"))

convertCiliumCIDRGroupData(o) ==
    <<[externalCIDRs |-> IF Get(o, "spec") = << >> THEN << >>
                         ELSE Get(o["spec"][1], "externalCIDRs")]>>

(***************************************************************************)
(* From the cluster to protobuf: AWS ClusterNetworkPolicy.                 *)
(***************************************************************************)

convertAWSIngressPeers(s) == Each(convertAWSSubject, s)

convertAWSEgressPeers(s) ==
    Each(LAMBDA p : [pods        |-> convertAWSNamespacedPod(Get(p, "pods")),
                     namespaces  |-> convertEndpointSelectors(Get(p, "namespaces")),
                     networks    |-> Get(p, "networks"),
                     domainNames |-> Get(p, "domainNames")], s)

convertAWSIngressRules(s) ==
    Each(LAMBDA r : [name   |-> NonEmpty(Get(r, "name")),
                     action |-> Get(r, "action"),
                     ports  |-> convertAWSPorts(Get(r, "ports")),
                     from   |-> convertAWSIngressPeers(Get(r, "from"))], s)

convertAWSEgressRules(s) ==
    Each(LAMBDA r : [name   |-> NonEmpty(Get(r, "name")),
                     action |-> Get(r, "action"),
                     ports  |-> convertAWSPorts(Get(r, "ports")),
                     to     |-> convertAWSEgressPeers(Get(r, "to"))], s)

\* Priority and subject are struct fields: absent is 0 and the empty subject.
convertAWSClusterNetworkPolicy(o) ==
    LET s == IF Get(o, "spec") = << >> THEN [f \in {} |-> << >>] ELSE o["spec"][1]
    IN  [priority |-> IF Get(s, "priority") = << >> THEN <<0>> ELSE s["priority"],
         tier     |-> Get(s, "tier"),
         subject  |-> <<convertAWSSubject(IF Get(s, "subject") = << >>
                                          THEN [f \in {} |-> << >>] ELSE s["subject"][1])>>,
         ingress  |-> convertAWSIngressRules(Get(s, "ingress")),
         egress   |-> convertAWSEgressRules(Get(s, "egress"))]

(***************************************************************************)
(* The object of the stream, and the one of the runtime cache.             *)
(***************************************************************************)

\* ConvertUnstructuredToCiliumResource or ConvertUnstructuredToAWSResource,
\* then BuildConfiguredFromMetadata with the same contents.
BuildConfiguredFromMetadata(o) ==
    [kind      |-> o.kind,
     namespace |-> IF o.kind = "ClusterNetworkPolicy" THEN << >> ELSE o.namespace,
     labels    |-> o.labels,
     specs     |-> IF o.kind \in RuleKinds THEN convertCiliumSpecs(o.fields) ELSE << >>,
     group     |-> IF o.kind = "CiliumCIDRGroup" THEN convertCiliumCIDRGroupData(o.fields)
                                                 ELSE << >>,
     aws       |-> IF o.kind = "ClusterNetworkPolicy"
                   THEN convertAWSClusterNetworkPolicy(o.fields) ELSE << >>]
=============================================================================
