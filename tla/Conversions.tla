------------------------------ MODULE Conversions ------------------------------
(***************************************************************************)
(* The conversions at work: a configured policy is applied to the cluster, *)
(* read back for the runtime cache and applied again after it was          *)
(* reconfigured, with another field manager at work on the same object;    *)
(* objects of the resource stream are converted while the cluster changes  *)
(* them; policies are reported, and records of traffic decoded.            *)
(***************************************************************************)
EXTENDS PolicyConversion, ReportedPolicies, FlowRecords

CONSTANTS
    Configurations,   \* configured objects to begin with
    Reconfigurations, \* configured objects that may follow on the same key
    Kinds,            \* <<group, resource, kind>> of objects that are converted
    Routed,           \* what traffic is routed to or through: [form, native]
    MaxGeneration     \* bound on the edits of a gateway route

ASSUME GenerationAssumption == MaxGeneration \in Nat \ {0}

VARIABLES
    job,    \* what is converted: "policy", "kind", "routed", "route", "report", "record"
    policy, \* the managed object: configured, live, theirs, runtime, phase
    item,   \* the other object to convert
    out     \* what the conversion made of it, << >> before

vars == <<job, policy, item, out, reported, recordVars>>

(***************************************************************************)
(* The API server: Server-Side Apply with force, by field.  live is << >>  *)
(* or <<object>>; theirs is the set of fields of another manager, labels   *)
(* as <<"label", l>> and fields of spec as <<"spec", f>>.                  *)
(***************************************************************************)
Empty == [f \in {} |-> << >>]

\* Where the conversion itself leaves the schema: that has the labels of a rule as a
\* list, protojson writes a map.  What else the API server validates or defaults is
\* left out.
Admits(o) ==
    LET rules == Get(o.fields, "spec") \o Get(o.fields, "specs")
    IN  o.kind \in RuleKinds => \A i \in DOMAIN rules : "labels" \notin DOMAIN rules[i]

ServerSideApply(live, theirs, o) ==
    LET old   == IF live = << >> THEN Empty ELSE live[1].fields
        spec  == IF Get(old, "spec") = << >> THEN Empty ELSE old["spec"][1]
        new   == IF Get(o.fields, "spec") = << >> THEN Empty ELSE o.fields["spec"][1]
        kept  == {f \in DOMAIN spec : <<"spec", f>> \in theirs}
        merged == [f \in DOMAIN new \cup kept |-> IF f \in DOMAIN new THEN new[f] ELSE spec[f]]
        hasSpec == "spec" \in DOMAIN o.fields \/ kept # {}
    IN  [o EXCEPT
           !.labels = @ \cup {l \in (IF live = << >> THEN {} ELSE live[1].labels) :
                                  <<"label", l>> \in theirs},
           !.fields = [f \in (DOMAIN o.fields \ {"spec"}) \cup (IF hasSpec THEN {"spec"} ELSE {}) |->
                          IF f = "spec" THEN <<merged>> ELSE o.fields[f]]]

(***************************************************************************)
(* Managed policies.                                                       *)
(***************************************************************************)
Apply ==
    /\ job = "policy" /\ policy.phase = "drifted"
    /\ LET o == ConvertToApplyObject(policy.configured)
       IN  policy' = IF Admits(o)
                     THEN [policy EXCEPT !.live = <<ServerSideApply(@, policy.theirs, o)>>,
                                         !.phase = "applied"]
                     ELSE [policy EXCEPT !.phase = "rejected"]
    /\ UNCHANGED <<job, item, out, reported, recordVars>>

\* The watch event of the change reaches the runtime cache.
ReadBack ==
    /\ job = "policy" /\ policy.phase = "applied"
    /\ policy' = [policy EXCEPT !.runtime = <<BuildConfiguredFromMetadata(policy.live[1])>>,
                                !.phase = "read"]
    /\ UNCHANGED <<job, item, out, reported, recordVars>>

Reconfigure ==
    /\ job = "policy" /\ policy.phase \in {"read", "rejected"}
    /\ \E c \in Reconfigurations :
          /\ CacheKey(c) = CacheKey(policy.configured) /\ c # policy.configured
          /\ policy' = [policy EXCEPT !.configured = c, !.phase = "drifted"]
    /\ UNCHANGED <<job, item, out, reported, recordVars>>

\* Someone else adds a label, or a description where there is none.
OtherManager ==
    /\ job = "policy" /\ policy.phase \in {"applied", "read"} /\ policy.theirs = {}
    /\ LET o == policy.live[1]
           spec == IF Get(o.fields, "spec") = << >> THEN Empty ELSE o.fields["spec"][1]
       IN  \/ policy' = [policy EXCEPT !.theirs = {<<"label", "team">>},
                                       !.live = <<[o EXCEPT !.labels = @ \cup {"team"}]>>,
                                       !.phase = "applied"]
           \/ /\ o.kind \in RuleKinds /\ "description" \notin DOMAIN spec
              /\ policy' = [policy EXCEPT
                    !.theirs = {<<"spec", "description">>},
                    !.live = <<[o EXCEPT !.fields =
                        [f \in DOMAIN @ \cup {"spec"} |->
                           IF f # "spec" THEN @[f]
                           ELSE <<[g \in DOMAIN spec \cup {"description"} |->
                                     IF g = "description" THEN <<"theirs">> ELSE spec[g]]>>]]>>,
                    !.phase = "applied"]
    /\ UNCHANGED <<job, item, out, reported, recordVars>>

(***************************************************************************)
(* Reported objects.                                                       *)
(***************************************************************************)

RoutedData(o) ==
    CASE o.form = "Service" -> convertToKubernetesServiceData(o.native)
      [] o.form = "Node" -> extractNodeDataFromUnstructured(o.native)
      [] o.form = "Pod" -> extractPodIPsFromUnstructured(o.native)
      [] o.form = "Ingress" -> convertIngress(o.native)
      [] o.form = "Gateway" -> convertGateway(o.native)
      [] o.form = "HTTPRoute" -> convertGatewayRoute(o.native)
      [] o.form = "TargetGroupBinding" -> convertAWSTargetGroupBinding(o.native)
      [] o.form = "ServiceNetworkEndpointGroup" ->
            convertGKEServiceNetworkEndpointGroup(o.native, o.native.labels)
      [] o.form = "ServiceL2Status" -> convertMetalLBServiceStatus(o.native)

Convert ==
    /\ job \in {"kind", "routed"} /\ out = << >>
    /\ out' = CASE job = "kind"    -> <<KindSpecific(item[1], item[2], item[3])>>
                [] job = "routed"  -> <<RoutedData(item)>>
    /\ UNCHANGED <<job, policy, item, reported, recordVars>>

\* A route is edited, judged by its controllers, and sent whenever it changes.
\* The old controller does not set observedGeneration.
EditRoute ==
    /\ job = "route" /\ item.generation < MaxGeneration
    /\ item' = [item EXCEPT !.generation = @ + 1]
    /\ out' = <<convertGatewayRoute(item')>>
    /\ UNCHANGED <<job, policy, reported, recordVars>>

JudgeRoute ==
    /\ job = "route"
    /\ \E i \in DOMAIN item.parents, status \in {"True", "False", "Unknown"} :
          /\ item.judged[i] # item.generation
          /\ item' = [item EXCEPT
                !.parents[i] = <<[type |-> "ResolvedRefs", status |-> "True", observed |-> item.generation],
                                 [type |-> "Accepted", status |-> status,
                                  observed |-> IF i = 1 THEN item.generation ELSE 0]>>,
                !.judged[i] = item.generation]
    /\ out' = <<convertGatewayRoute(item')>>
    /\ UNCHANGED <<job, policy, reported, recordVars>>

(***************************************************************************)
(* Specification                                                           *)
(***************************************************************************)
NoPolicy == [configured |-> << >>, live |-> << >>, theirs |-> {}, runtime |-> << >>,
             phase |-> "none"]

Init ==
    /\ out = << >> /\ ReportInit /\ DecodingInit
    /\ \/ /\ job = "policy" /\ item = << >>
          /\ policy \in {[NoPolicy EXCEPT !.configured = c, !.phase = "drifted"] :
                            c \in Configurations}
       \/ /\ policy = NoPolicy
          /\ \/ job = "kind"    /\ item \in Kinds
             \/ job = "routed"  /\ item \in Routed
             \/ job = "route"   /\ item = [generation |-> 1, parents |-> << << >>, << >> >>,
                                           judged |-> <<0, 0>>]
             \/ job \in {"report", "record"} /\ item = << >>

\* Policies that are only reported, and the records of the collectors.
Report == job = "report" /\ ReportPolicy /\ UNCHANGED <<job, policy, item, out, recordVars>>

Record == job = "record" /\ DecodingNext /\ UNCHANGED <<job, policy, item, out, reported>>

Next ==
    \/ Apply \/ ReadBack \/ Reconfigure \/ OtherManager
    \/ Convert \/ EditRoute \/ JudgeRoute
    \/ Report \/ Record

Spec == Init /\ [][Next]_vars

(***************************************************************************)
(* Managed policies: what survives the round trip.                         *)
(***************************************************************************)
Written(s) == s # <<"">>

FaithfulPeerSide(r, isDeny) ==
    /\ \A e \in Elements(r.endpoints) : e.items # << >>
    /\ \A c \in Elements(r.cidrSet) : Written(c.cidr) /\ Written(c.cidrGroupRef)
    /\ \A g \in Elements(r.groups) : g.aws # << >> /\ g.aws[1].region = << >>
    /\ \A p \in Elements(r.toPorts) : \A q \in Elements(p.ports) :
          Written(q.port) /\ Written(q.protocol) /\ q.endPort # <<0>>
    /\ \A i \in Elements(r.icmps) : \A f \in Elements(i.fields) :
          /\ Written(f.family)
          /\ \A v \in Elements(f.typeInt) : v <= 255
          /\ \A v \in Elements(f.typeString) : ~v.numeric
    /\ isDeny => r.authentication = << >>

FaithfulIngress(r, isDeny) ==
    FaithfulPeerSide([endpoints |-> r.fromEndpoints, cidrSet |-> r.fromCIDRSet,
                      groups |-> r.fromGroups, toPorts |-> r.toPorts, icmps |-> r.icmps,
                      authentication |-> r.authentication], isDeny)

FaithfulEgress(r, isDeny) ==
    /\ FaithfulPeerSide([endpoints |-> r.toEndpoints, cidrSet |-> r.toCIDRSet,
                         groups |-> r.toGroups, toPorts |-> r.toPorts, icmps |-> r.icmps,
                         authentication |-> r.authentication], isDeny)
    /\ isDeny => r.toFQDNs = << >>
    /\ \A f \in Elements(r.toFQDNs) : Written(f.matchName) /\ Written(f.matchPattern)
    /\ \A s \in Elements(r.toServices) :
          /\ \A k \in Elements(s.k8sService) : Written(k.serviceName) /\ Written(k.namespace)
          /\ \A k \in Elements(s.k8sServiceSelector) : Written(k.namespace)

FaithfulRule(r) ==
    /\ r.labels = << >> /\ Written(r.description)
    /\ \A d \in Elements(r.enableDefaultDeny) : d.denyIngress # << >> \/ d.denyEgress # << >>
    /\ \A s \in Elements(r.ingress) : FaithfulIngress(s, FALSE)
    /\ \A s \in Elements(r.ingressDeny) : FaithfulIngress(s, TRUE)
    /\ \A s \in Elements(r.egress) : FaithfulEgress(s, FALSE)
    /\ \A s \in Elements(r.egressDeny) : FaithfulEgress(s, TRUE)

FaithfulPods(s) ==
    \A p \in Elements(s) : p.namespaceSelector # << >> /\ p.podSelector # << >>

FaithfulAws(a) ==
    /\ a.priority # << >> /\ a.subject # << >>
    /\ FaithfulPods(a.subject[1].pods)
    /\ \A r \in Elements(a.ingress) :
          Written(r.name) /\ \A p \in Elements(r.from) : FaithfulPods(p.pods)
    /\ \A r \in Elements(a.egress) :
          Written(r.name) /\ \A p \in Elements(r.to) : FaithfulPods(p.pods)

\* A configured object all of whose parts can come back as they were.
Faithful(c) ==
    /\ Written(c.namespace)
    /\ CASE c.kind \in RuleKinds -> \A r \in Elements(c.specs) : FaithfulRule(r)
         [] c.kind = "CiliumCIDRGroup" -> c.group # << >>
         [] c.kind = "ClusterNetworkPolicy" -> FaithfulAws(c.aws)

\* Nothing of another manager's is left in the object beside the configured.
Alone(p) ==
    /\ <<"label", "team">> \in p.theirs => "team" \in p.configured.labels
    /\ <<"spec", "description">> \in p.theirs =>
          Len(p.configured.specs) = 1 /\ p.configured.specs[1].description # << >>

(***************************************************************************)
(* The reconciler sees no drift once an applied object was read back,      *)
(* exactly if the configured object is one of those that survive           *)
(* protojson, normalizeProtojsonForCilium and the converters of the read   *)
(* side, and no other manager's fields are merged in.  Anything else is    *)
(* applied again for ever.                                                 *)
(***************************************************************************)
SettlesIffFaithful ==
    job = "policy" /\ policy.phase = "read" =>
        ((policy.runtime = <<policy.configured>>) <=> (Faithful(policy.configured) /\ Alone(policy)))

(***************************************************************************)
(* What the read side makes of an object is a fixed point: applied as a    *)
(* configured object it would come back unchanged, so that CloudSecure     *)
(* can adopt what it was sent.                                             *)
(***************************************************************************)
ReadingNormalises ==
    \A r \in Elements(policy.runtime) :
        (\A s \in Elements(r.specs) : s.labels = << >>) =>
            BuildConfiguredFromMetadata(ServerSideApply(<< >>, {}, ConvertToApplyObject(r))) = r

(***************************************************************************)
(* The conversion gives a rule the map of labels that the schema refuses   *)
(* only if the configured rule has labels, never because they are unset.   *)
(***************************************************************************)
RefusedForRuleLabels ==
    policy.phase = "rejected" =>
        \E r \in Elements(policy.configured.specs) : r.labels # << >>

(***************************************************************************)
(* What becomes of a configured object that reconcileObject applies, as    *)
(* far as the conversions decide it: it is refused, only if it has rule    *)
(* labels; otherwise it settles, exactly if it is faithful; what does not  *)
(* is applied again in every round.  The API server may refuse it for      *)
(* other reasons, or fill in defaults (the family of an ICMP field) or     *)
(* annotations that keep it from settling: these are not modelled.         *)
(***************************************************************************)
ReconcilingSettles == SettlesIffFaithful /\ RefusedForRuleLabels

(***************************************************************************)
(* Reported kinds.  Every watched resource is accepted by the converter    *)
(* chosen for it, so that no watch is stuck on it; the message of a kind   *)
(* is set by one enricher only, and only for the kind's own API group.     *)
(***************************************************************************)
KindDecidesMessage ==
    job = "kind" =>
        /\ Len(NewCoreResourceConverter(item[1], item[3])) <= 1
        /\ \A tag \in Elements(out) :
              /\ item \in resourceList => tag # "error"
              /\ tag \notin {"", "error"} =>
                    \E r \in resourceList : r[1] = item[1] /\ r[3] = item[3]

(***************************************************************************)
(* Every address under which a service, node, pod, ingress or gateway can  *)
(* be reached is reported, and nothing else is: no empty string, no host   *)
(* name as a node's IP address.  A node port is reported exactly if the    *)
(* service has one.                                                        *)
(***************************************************************************)
AddressesKept ==
    job = "routed" => \A d \in Elements(out) :
        LET n == item.native
            Names(points) == UNION {Elements(Get(p, "ip")) \cup Elements(Get(p, "hostname")) : p \in points}
        IN  CASE item.form = "Service" ->
                   /\ Elements(d.ipAddresses) =
                         (Elements(Get(n, "clusterIPs")) \cup Elements(Get(n, "externalIPs"))
                          \cup Names(Elements(Get(n, "ingress")))
                          \cup Elements(Get(n, "loadBalancerIP"))) \ {""}
                   /\ \A i \in DOMAIN d.ports :
                         d.ports[i].nodePort = IF n.ports[i].nodePort = 0 THEN << >>
                                               ELSE <<n.ports[i].nodePort>>
              [] item.form = "Node" ->
                   /\ Elements(d.ipAddresses) =
                         {a.address : a \in {b \in Elements(n.addresses) : b.type # "Hostname"}}
                   /\ Elements(d.addresses) = Elements(n.addresses)
              [] item.form = "Pod" -> Elements(d) = Elements(Get(n, "podIPs")) \ {""}
              [] item.form = "Ingress" ->
                   Names(Elements(d.loadBalancer)) = Names(Elements(Get(n, "loadBalancer"))) \ {""}
              [] item.form = "Gateway" -> {a.value : a \in Elements(d.addresses)} =
                                          {a.value : a \in Elements(Get(n, "addresses"))}
              [] OTHER -> TRUE

(***************************************************************************)
(* Every service that an ingress, a route or a load balancer binding leads *)
(* to can be found in the message, by host, path and port: the port by its *)
(* number if the cluster knows one, by its name otherwise, never as 0.     *)
(***************************************************************************)
BackendsKept ==
    LET PortOf(v) == IF v["number"] > 0 THEN <<v["number"], << >> >> ELSE <<0, Get(v, "portName")>>
        Native(b) == IF Get(b, "service") = << >> THEN << >>
                     ELSE <<b["service"][1]["name"], PortOf(b["service"][1])>>
        Message(b) == IF b.name = << >> THEN << >>
                      ELSE <<b.name, IF b.number # << >> THEN <<b.number[1], << >> >> ELSE <<0, b.portName>> >>
    IN  job = "routed" => \A d \in Elements(out) :
          LET n == item.native IN
          CASE item.form = "Ingress" ->
                 /\ {Message(b) : b \in Elements(d.defaultBackend)} =
                    {Native(b) : b \in Elements(Get(n, "defaultBackend"))}
                 /\ UNION {{<<NonEmpty(r.host), p.path, Message(p.backend)>> : p \in Elements(r.paths)} :
                              r \in Elements(d.rules)} =
                    UNION {{<<NonEmpty(Get(r, "host")), Get(p, "path"), Native(p.backend)>> :
                              p \in Elements(Get(r, "paths"))} : r \in Elements(Get(n, "rules"))}
                 /\ d.class = << >> <=>
                       NonEmpty(Get(n, "ingressClassName")) = << >> /\ NonEmpty(Get(n, "annotation")) = << >>
            [] item.form = "HTTPRoute" ->
                 {<<b.name, b.port>> : b \in Elements(d.backendRefs)} =
                 UNION {{<<b.name, Get(b, "port")>> : b \in Elements(r)} : r \in Elements(Get(n, "rules"))}
            [] item.form = "TargetGroupBinding" ->
                 /\ d.service = n.service
                 /\ \A i \in DOMAIN d.rules :
                       UNION {Elements(p.cidr) \cup Elements(p.group) : p \in Elements(d.rules[i].from)} =
                       UNION {Elements(Get(p, "cidr")) \cup Elements(Get(p, "groupID")) :
                                 p \in Elements(Get(n["ingress"][i], "from"))} \ {""}
            [] item.form = "ServiceNetworkEndpointGroup" ->
                 (d.service # "") <=> ("service" \in n.labels)
            [] OTHER -> TRUE

(***************************************************************************)
(* A route is reported as accepted or not by a controller that says which  *)
(* generation it looked at only if it has judged the route as it is now.   *)
(***************************************************************************)
AcceptanceIsCurrent ==
    job = "route" => \A r \in Elements(out) :
        r.parents[1] # << >> => item.judged[1] = item.generation

(***************************************************************************)
(* What the resource stream reports of an object is true of the object as  *)
(* it is: the message of its kind, its addresses and ports, what it leads  *)
(* to, and whether the controllers have accepted it.                       *)
(***************************************************************************)
ReportIsTrue == KindDecidesMessage /\ AddressesKept /\ BackendsKept /\ AcceptanceIsCurrent
=============================================================================
