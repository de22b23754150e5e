----------------------------- MODULE MCConversions -----------------------------
(***************************************************************************)
(* Inputs for Conversions: for every message type the values of its fields *)
(* that a converter tells apart (unset, empty, set; in and out of range),  *)
(* one part of a policy varied at a time.                                  *)
(***************************************************************************)
EXTENDS Conversions, TLC

Unset == {<< >>}
Text == {<< >>, <<"">>, <<"x">>}

(***************************************************************************)
(* Configured objects.                                                     *)
(***************************************************************************)
EmptySel == [matchLabels |-> << >>, matchExpressions |-> << >>]
AppSel   == [matchLabels |-> <<"app">>, matchExpressions |-> <<"tier exists">>]
Selectors == {<< >>, <<EmptySel>>, <<AppSel>>}

PortValues == [port : {<< >>, <<"80">>}, endPort : {<< >>, <<0>>, <<90>>}, protocol : Text]
CidrValues == [cidr : Text, cidrGroupRef : Text, cidrGroupSelector : Selectors,
               except : {<< >>, <<"10.1/16">>}]
IcmpTypes ==
    {<< << >>, << >> >>, << <<8>>, << >> >>, << <<255>>, << >> >>, << <<256>>, << >> >>}
    \cup {<< << >>, <<[numeric |-> TRUE, value |-> n]>> >> : n \in {-1, 8, 256}}
    \cup {<< << >>, <<[numeric |-> FALSE, value |-> "EchoReply"]>> >>}
IcmpValues == {[family |-> <<"IPv4">>, typeInt |-> t[1], typeString |-> t[2]] : t \in IcmpTypes}
GroupValues ==
    {[aws |-> << >>]}
    \cup {[aws |-> <<[labels |-> << >>, securityGroupsIds |-> <<"sg-1">>,
                      securityGroupsNames |-> << >>, region |-> r]>>] : r \in {<< >>, <<"us">>}}
FqdnValues == [matchName : Text, matchPattern : Text]
ServiceValues ==
    [k8sServiceSelector : {<< >>} \cup {<<v>> : v \in [selector : Selectors, namespace : Text]},
     k8sService : {<< >>}]
    \cup [k8sServiceSelector : {<< >>},
          k8sService : {<<v>> : v \in [serviceName : Text, namespace : Text]}]
EndpointValues == {<< >>, <<[items |-> << >>]>>, <<[items |-> <<EmptySel>>]>>,
                   <<[items |-> <<AppSel, EmptySel>>]>>}
Modes == {<< >>, <<[mode |-> <<"required">>]>>}
Listed(values) == {<<v>> : v \in values}

BaseIngress ==
    [fromEndpoints |-> << >>, fromCIDR |-> << >>, fromCIDRSet |-> << >>,
     fromEntities |-> <<"world">>, fromGroups |-> << >>, fromNodes |-> << >>,
     toPorts |-> << >>, icmps |-> << >>, authentication |-> << >>]

IngressValues ==
    {[BaseIngress EXCEPT !.toPorts = <<[ports |-> p]>>] : p \in Listed(PortValues) \cup {<< >>}}
    \cup {[BaseIngress EXCEPT !.fromCIDRSet = c] : c \in Listed(CidrValues)}
    \cup {[BaseIngress EXCEPT !.icmps = <<[fields |-> i]>>] : i \in Listed(IcmpValues)}
    \cup {[BaseIngress EXCEPT !.fromGroups = g] : g \in Listed(GroupValues)}
    \cup {[BaseIngress EXCEPT !.fromEndpoints = e] : e \in EndpointValues}
    \cup {[BaseIngress EXCEPT !.fromNodes = s, !.fromCIDR = <<"10/8">>] : s \in Selectors}
    \cup {[BaseIngress EXCEPT !.authentication = m] : m \in Modes}

BaseEgress ==
    [toEndpoints |-> << >>, toCIDR |-> << >>, toCIDRSet |-> << >>, toEntities |-> << >>,
     toServices |-> << >>, toGroups |-> << >>, toNodes |-> << >>, toPorts |-> << >>,
     icmps |-> << >>, toFQDNs |-> << >>, authentication |-> << >>]

EgressValues ==
    {[BaseEgress EXCEPT !.toFQDNs = f] : f \in Listed(FqdnValues)}
    \cup {[BaseEgress EXCEPT !.toServices = s] : s \in Listed(ServiceValues)}
    \cup {[BaseEgress EXCEPT !.toEndpoints = e, !.toEntities = <<"host">>] : e \in EndpointValues}
    \cup {[BaseEgress EXCEPT !.toPorts = <<[ports |-> p]>>] : p \in Listed(PortValues)}
    \cup {[BaseEgress EXCEPT !.toGroups = g, !.authentication = m] :
            g \in Listed(GroupValues), m \in Modes}
    \cup {[BaseEgress EXCEPT !.icmps = <<[fields |-> i]>>, !.toNodes = <<AppSel>>] :
            i \in Listed(IcmpValues)}

BaseRule ==
    [endpointSelector |-> <<AppSel>>, nodeSelector |-> << >>, description |-> << >>,
     labels |-> << >>, enableDefaultDeny |-> << >>, ingress |-> << >>, egress |-> << >>,
     ingressDeny |-> << >>, egressDeny |-> << >>]

DefaultDenies ==
    {<< >>} \cup Listed([denyIngress : {<< >>, <<TRUE>>, <<FALSE>>}, denyEgress : {<< >>, <<FALSE>>}])

RuleValues ==
    {[BaseRule EXCEPT !.ingress = <<i>>] : i \in IngressValues}
    \cup {[BaseRule EXCEPT !.ingressDeny = <<i>>] : i \in IngressValues}
    \cup {[BaseRule EXCEPT !.egress = <<e>>] : e \in EgressValues}
    \cup {[BaseRule EXCEPT !.egressDeny = <<e>>] : e \in EgressValues}
    \cup {[BaseRule EXCEPT !.description = d, !.labels = l, !.enableDefaultDeny = x] :
            d \in Text, l \in {<< >>, <<"owner">>}, x \in DefaultDenies}
    \cup {[BaseRule EXCEPT !.endpointSelector = s, !.nodeSelector = t] : s, t \in Selectors}

Policy(kind, namespace, labels, specs, group, aws) ==
    [kind |-> kind, namespace |-> namespace, labels |-> labels, specs |-> specs,
     group |-> group, aws |-> aws]

PodSelectors == {<< >>} \cup Listed([namespaceSelector : Selectors, podSelector : Selectors])
AwsPorts ==
    [portNumber : {<< >>, <<[protocol |-> <<"TCP">>, port |-> <<80>>]>>},
     portRange : {<< >>, <<[protocol |-> << >>, start |-> <<80>>, end |-> <<90>>]>>},
     namedPort : Text]
AwsIngressRule == [name |-> << >>, action |-> <<"Accept">>, ports |-> << >>, from |-> << >>]
AwsEgressRule  == [name |-> << >>, action |-> <<"Deny">>, ports |-> << >>, to |-> << >>]
AwsBase ==
    [priority |-> <<0>>, tier |-> <<"Admin">>,
     subject |-> <<[pods |-> << >>, namespaces |-> <<EmptySel>>]>>,
     ingress |-> << >>, egress |-> << >>]
AwsValues ==
    {[AwsBase EXCEPT !.priority = p, !.subject = s] :
        p \in {<< >>, <<0>>, <<7>>},
        s \in {<< >>} \cup Listed([pods : PodSelectors, namespaces : Selectors])}
    \cup {[AwsBase EXCEPT !.ingress = <<[AwsIngressRule EXCEPT !.ports = p]>>] : p \in Listed(AwsPorts)}
    \cup {[AwsBase EXCEPT !.ingress = <<[AwsIngressRule EXCEPT !.name = n, !.from = p]>>] :
            n \in Text, p \in Listed([pods : PodSelectors, namespaces : Selectors])}
    \cup {[AwsBase EXCEPT !.egress = <<[AwsEgressRule EXCEPT !.name = n, !.to = p]>>] :
            n \in Text,
            p \in Listed([pods : PodSelectors, namespaces : {<< >>}, networks : {<< >>, <<"n">>},
                          domainNames : {<< >>, <<"d">>}])}

TwoRules == <<BaseRule, [BaseRule EXCEPT !.ingress = <<BaseIngress>>]>>

MCConfigurations ==
    {Policy("CiliumNetworkPolicy", <<"ns">>, {}, <<r>>, << >>, << >>) : r \in RuleValues}
    \cup {Policy("CiliumClusterwideNetworkPolicy", n, l, s, << >>, << >>) :
            n \in {<< >>, <<"">>}, l \in {{}, {"team"}},
            s \in {<< >>, <<BaseRule>>, <<[BaseRule EXCEPT !.labels = <<"owner">>]>>, TwoRules}}
    \cup {Policy("CiliumCIDRGroup", n, {}, << >>, g, << >>) :
            n \in {<< >>, <<"">>},
            g \in {<< >>, <<[externalCIDRs |-> << >>]>>, <<[externalCIDRs |-> <<"10/8", "11/8">>]>>}}
    \cup {Policy("ClusterNetworkPolicy", << >>, {}, << >>, << >>, a) : a \in AwsValues}

MCReconfigurations ==
    {Policy("CiliumClusterwideNetworkPolicy", << >>, l, s, << >>, << >>) :
        l \in {{}, {"team"}},
        s \in {<< >>, <<[BaseRule EXCEPT !.description = <<"x">>]>>, <<BaseRule>>, TwoRules}}
    \cup {Policy("CiliumCIDRGroup", << >>, {}, << >>, <<[externalCIDRs |-> <<"12/8">>]>>, << >>)}

(***************************************************************************)
(* Reported objects.  A kind may also be served by another group.          *)
(***************************************************************************)
Groups == {r[1] : r \in resourceList} \cup {"serving.knative.dev", "networking.istio.io"}
MCKinds == resourceList \cup {<<g, r[2], r[3]>> : g \in Groups, r \in resourceList}

NativeSel  == {<< >>, <<Empty>>, <<[matchLabels |-> <<"app">>]>>}
NativeNs   == {<< >>, <<Empty>>, <<[matchLabels |-> <<"prod">>]>>}
Block == [cidr |-> <<"in">>]
BlockExcept == [cidr |-> <<"in">>, except |-> <<"except">>]
Present(r) == [f \in {g \in DOMAIN r : r[g] # << >>} |-> r[f]]
SelectorPeers ==
    {Present([podSelector |-> s, namespaceSelector |-> n]) : s \in NativeSel, n \in NativeNs} \ {<< >>}
NetworkPeers == SelectorPeers \cup {[ipBlock |-> <<b>>] : b \in {Block, BlockExcept}}
MCDecimal == [n \in {80, 85, 90, 99} |-> ToString(n)]
PortName(v) == [numeric |-> FALSE, value |-> v]
PortNumber(v) == [numeric |-> TRUE, value |-> v]
NetworkPorts ==
    {Present([protocol |-> t, port |-> p, endPort |-> << >>]) :
        t \in {<< >>, <<"UDP">>, <<"TCP">>}, p \in {<< >>, <<PortNumber(80)>>, <<PortNumber(99)>>, <<PortName("http")>>}}
    \cup {[protocol |-> <<"TCP">>, port |-> <<PortNumber(80)>>, endPort |-> <<90>>]}
NetworkRules(side) ==
    {Present([f \in {side, "ports"} |-> IF f = side THEN peers ELSE << >>]) :
        peers \in {<< >>} \cup Listed(NetworkPeers)}
    \cup {Present([f \in {side, "ports"} |-> IF f = side THEN <<[ipBlock |-> <<Block>>]>> ELSE ports]) :
        ports \in Listed(NetworkPorts)}
Types == {<<"Ingress">>, <<"Egress">>, <<"Ingress", "Egress">>}

AdminPeers(side) ==
    {Present([namespaces |-> n, pods |-> << >>]) : n \in NativeNs \ {<< >>}}
    \cup {[pods |-> <<[namespaceSelector |-> n, podSelector |-> s]>>] :
            n \in NativeNs \ {<< >>}, s \in NativeSel \ {<< >>}}
    \cup (IF side = "from" THEN {}
          ELSE {[nodes |-> <<Empty>>], [networks |-> <<"in">>], [domainNames |-> <<"example">>]})
AdminPorts ==
    {[portNumber |-> <<[protocol |-> <<"TCP">>, port |-> <<80>>]>>],
     [portRange |-> <<[protocol |-> <<"UDP">>, start |-> <<80>>, end |-> <<90>>]>>],
     [namedPort |-> <<"http">>]}
AdminRules(side) ==
    {[f \in {side, "ports", "action"} |->
        CASE f = side -> <<p>> [] f = "ports" -> q [] f = "action" -> <<"Allow">>] :
        p \in AdminPeers(side), q \in {<< >>} \cup Listed(AdminPorts)}
Subject == [subject |-> <<[namespaces |-> <<Empty>>]>>]

MCPolicies ==
    {[form |-> "NetworkPolicy", native |->
        Present([podSelector |-> s, policyTypes |-> t, ingress |-> << >>, egress |-> << >>])] :
            s \in NativeSel \ {<< >>}, t \in Types}
    \cup {[form |-> "NetworkPolicy", native |->
        [podSelector |-> <<Empty>>, policyTypes |-> t, ingress |-> <<r>>, egress |-> << >>]] :
            t \in Types, r \in NetworkRules("from")}
    \cup {[form |-> "NetworkPolicy", native |->
        [podSelector |-> <<Empty>>, policyTypes |-> <<"Egress">>, egress |-> <<r>>]] :
            r \in NetworkRules("to")}
    \cup {[form |-> "ApplicationNetworkPolicy", native |->
        [podSelector |-> <<Empty>>, policyTypes |-> t, ingress |-> <<r>>]] :
            t \in Types \cup {<< >>}, r \in NetworkRules("from")}
    \cup {[form |-> "ApplicationNetworkPolicy", native |->
        [podSelector |-> s, policyTypes |-> <<"Egress">>, egress |-> <<[to |-> <<p>>]>>]] :
            s \in NativeSel \ {<< >>}, p \in NetworkPeers \cup {[domainNames |-> <<"example">>]}}
    \cup {[form |-> k, native |->
            Present([priority |-> IF k = "AdminNetworkPolicy" THEN <<7>> ELSE << >>,
                     subject |-> Subject.subject, ingress |-> <<r>>, egress |-> << >>])] :
            k \in {"AdminNetworkPolicy", "BaselineAdminNetworkPolicy"}, r \in AdminRules("from")}
    \cup {[form |-> k, native |-> [subject |-> <<s>>, ingress |-> << >>, egress |-> <<r>>]] :
            k \in {"AdminNetworkPolicy", "BaselineAdminNetworkPolicy"}, r \in AdminRules("to"),
            s \in AdminPeers("from")}
    \cup {[form |-> "EgressFirewall", native |->
            [egress |-> <<[type |-> <<"Allow">>, to |-> <<d>>, ports |-> p], [type |-> <<"Deny">>, to |-> <<d>>]>>]] :
            p \in {<< >>, <<[protocol |-> <<"UDP">>]>>, <<[protocol |-> <<"TCP">>, port |-> <<0>>]>>,
                  <<[protocol |-> <<"UDP">>, port |-> <<80>>], [protocol |-> <<"TCP">>, port |-> <<99>>]>>},
            d \in {[cidrSelector |-> <<"in">>], [dnsName |-> <<"example">>], [nodeSelector |-> <<Empty>>],
                   [nodeSelector |-> <<[matchLabels |-> <<"app">>]>>]}}
    \cup {[form |-> "EgressIP", native |->
        Present([egressIPs |-> <<"ip">>, namespaceSelector |-> n, podSelector |-> s])] :
            n \in NativeNs, s \in NativeSel}

LoadBalancerPoints ==
    {<< >>, <<[ip |-> <<"i1">>]>>, <<[hostname |-> <<"h1">>, ip |-> <<"">>], [ip |-> <<"i2">>]>>}
Backends ==
    {Empty} \cup {[service |-> <<[name |-> <<"svc">>, number |-> p[1], portName |-> p[2]]>>] :
                     p \in {<<80, << >> >>, <<0, <<"http">> >>}}
IngressRules == {[host |-> h, paths |-> <<[path |-> <<"/">>, backend |-> b], [path |-> <<"/b">>, backend |-> c]>>] :
                    h \in {<<"">>, <<"host">>}, b, c \in Backends}

MCRouted ==
    {[form |-> "Service", native |->
        [clusterIPs |-> c, externalIPs |-> e, ingress |-> i, loadBalancerIP |-> l,
         ports |-> <<[port |-> 80, nodePort |-> p]>>, healthCheckNodePort |-> p]] :
        c \in {<<"c1">>, <<"c1", "c2">>}, e \in {<< >>, <<"e1">>}, i \in LoadBalancerPoints,
        l \in {<< >>, <<"l1">>, <<"">>}, p \in {0, 30080}}
    \cup {[form |-> "Node", native |-> [addresses |-> a]] :
            a \in {<< >>} \cup {<<[type |-> t, address |-> "a1"], [type |-> u, address |-> "a2"]>> :
                                  t, u \in {"InternalIP", "ExternalIP", "Hostname"}}}
    \cup {[form |-> "Pod", native |-> [podIPs |-> a]] : a \in {<< >>, <<"">>, <<"p1", "", "p2">>}}
    \cup {[form |-> "Ingress", native |->
            [ingressClassName |-> k[1], annotation |-> k[2], defaultBackend |-> b, rules |-> r,
             loadBalancer |-> l]] :
            k \in {<< << >>, << >> >>, << <<"">>, <<"nginx">> >>, << <<"alb">>, << >> >>},
            b \in {<< >>} \cup Listed(Backends), r \in {<< >>} \cup Listed(IngressRules),
            l \in LoadBalancerPoints}
    \cup {[form |-> "Gateway", native |->
            [listeners |-> <<[name |-> "web", port |-> 443]>>,
             addresses |-> <<[type |-> t, value |-> "g1"], [type |-> << >>, value |-> "g2"]>>]] :
            t \in {<< >>, <<"">>, <<"IPAddress">>}}
    \cup {[form |-> "HTTPRoute", native |->
            [generation |-> 1, parents |-> << >>,
             rules |-> <<<<[name |-> "s1", port |-> p], [name |-> "s2"]>>, << >>, <<[name |-> "s3"]>>>>]] :
            p \in {<< >>, <<80>>}}
    \cup {[form |-> "TargetGroupBinding", native |->
            [service |-> "svc", nodeSelector |-> s, ingress |-> <<[from |-> f, ports |-> <<[port |-> <<PortNumber(80)>>]>>]>>]] :
            s \in NativeSel, f \in {<< >>, <<[cidr |-> <<"10/8">>], [groupID |-> <<"sg">>]>>, <<[cidr |-> <<"">>]>>}}
    \cup {[form |-> "ServiceNetworkEndpointGroup", native |-> [groups |-> <<"neg">>, labels |-> l]] :
            l \in {{}, {"service"}}}
    \cup {[form |-> "ServiceL2Status", native |-> [node |-> "n1", interfaces |-> i]] :
            i \in {<< >>, <<"", "eth0">>}}

(***************************************************************************)
(* Records: traffic of every protocol and IP version, and connections that *)
(* differ in one part each: the ends exchanged, a port, an identity, the   *)
(* protocol, the ports of pings.                                           *)
(***************************************************************************)
MCSixAddresses == {"fd::1", "fd::2"}
MCAddresses == {"a1", "a2"} \cup MCSixAddresses
MCPorts == {80, 1000}

MCTraffic ==
    {[src |-> v[1], dst |-> v[2], sport |-> 1000, dport |-> 80, proto |-> p] :
        v \in {<<"a1", "a2">>, <<"fd::1", "fd::2">>}, p \in Protocols}

\* One field of a record is not as it was exported, two are missing, or one is short
\* before or after a time is.
Exported == [how |-> "itself", more |-> 0]
Missing  == [how |-> "another", more |-> 0]
Short    == [how |-> "itself", more |-> -1]
WholeArrival == [i \in 1..8 |-> Exported]
MCArrivals ==
    {WholeArrival}
    \cup {[WholeArrival EXCEPT ![i] = a] : i \in 1..8,
            a \in {Short, [how |-> "itself", more |-> 1], [how |-> "unknown", more |-> 0]}}
    \cup {[WholeArrival EXCEPT ![i] = Missing, ![j] = Missing] : i, j \in 1..8}
    \cup {[WholeArrival EXCEPT ![i] = Short, ![7] = Short] : i \in 1..8}

\* The client's end is the first of each pair.
Connection(ips, ports, uids, proto) ==
    [ips |-> ips, ports |-> ports, uids |-> uids, proto |-> proto]

MCConnections ==
    {Connection(ips, <<port, 80>>, uids, "tcp") :
        ips \in {<<"a1", "a2">>, <<"a2", "a1">>}, port \in MCPorts, uids \in {<<1, 2>>, <<2, 1>>, <<1, 1>>}}
    \cup {Connection(<<"fd::1", "fd::2">>, <<port, 80>>, <<1, 2>>, p) : port \in MCPorts, p \in Protocols}
    \cup {Connection(<<"a1", "a2">>, <<port, 80>>, <<1, 2>>, p) : port \in MCPorts, p \in Protocols}
=============================================================================
