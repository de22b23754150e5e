---------------------------- MODULE ReportedPolicies ---------------------------
(***************************************************************************)
(* The policies of the cluster that the resource stream only reports, and  *)
(* what they mean: each time a policy changes it is converted and sent.    *)
(*                                                                         *)
(* What a policy admits is stated for the cluster's object and for the     *)
(* message side by side, independently of the converters.                  *)
(***************************************************************************)
EXTENDS ResourceConversion

CONSTANTS
    Policies,        \* as the API server returns them: [form, native]
    NamespaceLabels, \* labels, names and numbers of the ends and ports of traffic
    PodLabels, Domains, PortNumbers, PortNames

Elements(s) == {s[i] : i \in DOMAIN s}

(***************************************************************************)
(* What the API server's schemas ensure of a policy.                       *)
(***************************************************************************)
IsList(s) == s \in Seq(Elements(s))

\* A NetworkPolicyPeer names pods or addresses; fields of other kinds of peers
\* are unknown.
IsNetworkPeer(p) ==
    /\ \A f \in {"ipBlock", "podSelector", "namespaceSelector"} : IsList(Get(p, f))
    /\ \E f \in {"ipBlock", "podSelector", "namespaceSelector"} : Get(p, f) # << >>
    /\ "domainNames" \notin DOMAIN p

\* A port is a number or a name, and no name looks like a number.
IsNetworkPort(p) ==
    /\ Get(p, "protocol") \in {<< >>, <<"TCP">>, <<"UDP">>, <<"SCTP">>}
    /\ \A v \in Elements(Get(p, "port")) :
          IF v.numeric THEN v.value \in DOMAIN Decimal
          ELSE \A n \in DOMAIN Decimal : v.value # Decimal[n]

IsNetworkRule(r, peers) ==
    /\ IsList(Get(r, peers)) /\ \A p \in Elements(Get(r, peers)) : IsNetworkPeer(p)
    /\ IsList(Get(r, "ports")) /\ \A p \in Elements(Get(r, "ports")) : IsNetworkPort(p)

IsNetworkPolicy(n) ==
    /\ IsList(Get(n, "podSelector")) /\ Len(Get(n, "podSelector")) <= 1
    /\ \A r \in Elements(Get(n, "ingress")) : IsNetworkRule(r, "from")
    /\ \A r \in Elements(Get(n, "egress")) : IsNetworkRule(r, "to")

\* AWS's peers of egress rules may be domain names instead.
IsApplicationPeer(p) ==
    \A f \in {"ipBlock", "podSelector", "namespaceSelector"} : IsList(Get(p, f))

IsApplicationRule(r, peers) ==
    /\ IsList(Get(r, peers)) /\ \A p \in Elements(Get(r, peers)) : IsApplicationPeer(p)
    /\ IsList(Get(r, "ports"))

IsApplicationNetworkPolicy(n) ==
    /\ IsList(Get(n, "podSelector"))
    /\ \A r \in Elements(Get(n, "ingress")) :
          /\ IsApplicationRule(r, "from")
          /\ \A p \in Elements(Get(r, "from")) : "domainNames" \notin DOMAIN p
    /\ \A r \in Elements(Get(n, "egress")) : IsApplicationRule(r, "to")

\* Only egress peers of an admin network policy may be other than pods; its
\* ports have a protocol, by default TCP.
IsAdminPeer(p) == IsList(Get(p, "namespaces")) /\ IsList(Get(p, "nodes"))

IsAdminSubject(p) == IsAdminPeer(p) /\ DOMAIN p \subseteq {"namespaces", "pods"}

IsAdminPort(p) ==
    /\ \A n \in Elements(Get(p, "portNumber")) :
          {"protocol", "port"} \subseteq DOMAIN n /\ n["protocol"] # <<"">>
    /\ \A n \in Elements(Get(p, "portRange")) :
          {"protocol", "start", "end"} \subseteq DOMAIN n /\ n["protocol"] # <<"">>

HasAdminPorts(r) ==
    IsList(Get(r, "ports")) /\ \A p \in Elements(Get(r, "ports")) : IsAdminPort(p)

IsAdminPolicy(n) ==
    /\ Get(n, "subject") # << >> /\ IsAdminSubject(n["subject"][1])
    /\ \A r \in Elements(Get(n, "ingress")) :
          HasAdminPorts(r) /\ \A p \in Elements(Get(r, "from")) : IsAdminSubject(p)
    /\ \A r \in Elements(Get(n, "egress")) :
          HasAdminPorts(r) /\ \A p \in Elements(Get(r, "to")) : IsAdminPeer(p)

IsEgressFirewall(n) ==
    \A r \in Elements(Get(n, "egress")) :
        /\ Get(r, "to") # << >> /\ IsList(Get(r["to"][1], "nodeSelector"))
        /\ IsList(Get(r, "ports"))

\* The schema of each form; every policy that is stored has passed it.
Valid(p) ==
    \/ p.form = "NetworkPolicy" /\ IsNetworkPolicy(p.native)
    \/ p.form = "ApplicationNetworkPolicy" /\ IsApplicationNetworkPolicy(p.native)
    \/ p.form \in {"AdminNetworkPolicy", "BaselineAdminNetworkPolicy"} /\ IsAdminPolicy(p.native)
    \/ p.form = "EgressFirewall" /\ IsEgressFirewall(p.native)
    \/ p.form = "EgressIP"

ASSUME ReportAssumption ==
    /\ \A p \in Policies : Valid(p)
    /\ "" \notin Domains
    /\ 0 \notin PortNumbers
    /\ \A m, n \in DOMAIN Decimal : Decimal[m] = Decimal[n] => m = n
    /\ \A n \in DOMAIN Decimal : Decimal[n] \notin PortNames

VARIABLE reported  \* the last policy that was reported, with the message made of it,
                   \* << >> before: [policy, message]

\* The rules and the subject of a reported policy, by its form.
Converted(p) ==
    CASE p.form = "NetworkPolicy" -> convertNetworkPolicyToProto(p.native)
      [] p.form = "ApplicationNetworkPolicy" -> convertAWSApplicationNetworkPolicy(p.native)
      [] p.form = "AdminNetworkPolicy" -> convertAdminNetworkPolicyData(p.native)
      [] p.form = "BaselineAdminNetworkPolicy" -> convertBaselineAdminNetworkPolicyData(p.native)
      [] p.form = "EgressFirewall" -> convertEgressFirewallData(p.native)
      [] p.form = "EgressIP" -> convertEgressIPData(p.native)

ReportInit == reported = << >>

\* A watch event: a policy was created, or it changed.
ReportPolicy ==
    \E p \in Policies : reported' = <<[policy |-> p, message |-> Converted(p)]>>

ReportSpec == ReportInit /\ [][ReportPolicy]_reported

(***************************************************************************)
(* The meaning of policies.  An end of a connection is [pod, own, ns,      *)
(* labels, cidr, domain, node], where own says that a pod is in the        *)
(* policy's namespace; a port is [protocol, number, name].                 *)
(***************************************************************************)
Ends ==
    [pod : {TRUE}, own : BOOLEAN, ns : SUBSET NamespaceLabels, labels : SUBSET PodLabels,
     cidr : {"none"}, domain : {"none"}, node : {FALSE}]
    \cup [pod : {FALSE}, own : {FALSE}, ns : {{}}, labels : SUBSET PodLabels,
          cidr : {"in", "except", "out"}, domain : Domains \cup {"none"}, node : BOOLEAN]

TargetPorts == [protocol : {"TCP", "UDP", "SCTP"}, number : PortNumbers, name : PortNames]

SelectorMatches(sel, labels) ==
    Elements(Get(sel, "matchLabels")) \cup Elements(Get(sel, "matchExpressions")) \subseteq labels

\* A selector that is set must match; one that is not set decides nothing.
Selects(s, labels) == \A sel \in Elements(s) : SelectorMatches(sel, labels)

InBlock(b, e) == ~e.pod /\ (e.cidr = "in" \/ (e.cidr = "except" /\ Get(b, "except") = << >>))

\* The pods of a NetworkPolicyPeer: without namespace selector, the policy's own.
PodsOfPeer(p, e) ==
    /\ e.pod
    /\ IF Get(p, "namespaceSelector") = << >> THEN e.own
       ELSE SelectorMatches(p["namespaceSelector"][1], e.ns)
    /\ Selects(Get(p, "podSelector"), e.labels)

\* A NetworkPolicyPeer of the cluster, or of ApplicationNetworkPolicy in
\* either representation: an IP block excludes the selectors.
PeerAdmits(p, e) ==
    \/ <<e.domain>> = Get(p, "domainNames") /\ ~e.pod
    \/ IF Get(p, "ipBlock") # << >> THEN InBlock(p["ipBlock"][1], e)
       ELSE /\ Get(p, "podSelector") # << >> \/ Get(p, "namespaceSelector") # << >>
            /\ PodsOfPeer(p, e)

\* A Peer message.
PeerMessageAdmits(p, e) ==
    IF p.ipBlock # << >> THEN InBlock(p.ipBlock[1], e) ELSE PodsOfPeer(p.pods[1], e)

\* A port of a NetworkPolicy, or of ApplicationNetworkPolicy in either
\* representation: without protocol, TCP.
PortAdmits(p, q) ==
    /\ q.protocol = IF Get(p, "protocol") = << >> THEN "TCP" ELSE p["protocol"][1]
    /\ \A v \in Elements(Get(p, "port")) :
          IF ~v.numeric THEN v.value = q.name
          ELSE IF Get(p, "endPort") = << >> THEN v.value = q.number
          ELSE v.value <= q.number /\ q.number <= p["endPort"][1]

\* A Port message, whose port is a text: a number or a name.
PortMessageAdmits(p, q) ==
    /\ <<q.protocol>> = p.protocol
    /\ \A text \in Elements(p.port) :
          \/ text = q.name
          \/ \E n \in DOMAIN Decimal :
                /\ text = Decimal[n]
                /\ IF p.endPort = << >> THEN n = q.number
                   ELSE n <= q.number /\ q.number <= p.endPort[1]

\* No peer and no port means every peer and every port.
RuleAdmits(PeerOk(_, _), PortOk(_, _), peers, ports, e, q) ==
    /\ peers = << >> \/ \E p \in Elements(peers) : PeerOk(p, e)
    /\ ports = << >> \/ \E p \in Elements(ports) : PortOk(p, q)

\* A peer and a port of an admin network policy, in either representation.
AdminPeerAdmits(p, e) ==
    \/ e.pod /\ Get(p, "namespaces") # << >> /\ Selects(p["namespaces"], e.ns)
    \/ e.pod /\ \E s \in Elements(Get(p, "pods")) :
          Selects(Get(s, "namespaceSelector"), e.ns) /\ Selects(Get(s, "podSelector"), e.labels)
    \/ e.node /\ Get(p, "nodes") # << >> /\ Selects(p["nodes"], e.labels)
    \/ ~e.pod /\ <<e.cidr>> = Get(p, "networks")
    \/ ~e.pod /\ <<e.domain>> = Get(p, "domainNames")

AdminPortAdmits(p, q) ==
    \/ \E n \in Elements(Get(p, "portNumber")) : n["port"] = <<q.number>> /\ n["protocol"] = <<q.protocol>>
    \/ \E n \in Elements(Get(p, "portRange")) :
          n["start"][1] <= q.number /\ q.number <= n["end"][1] /\ n["protocol"] = <<q.protocol>>
    \/ Get(p, "namedPort") = <<q.name>>

AdminRuleAdmits(r, peers, e, q) ==
    /\ \E p \in Elements(Get(r, peers)) : AdminPeerAdmits(p, e)
    /\ Get(r, "ports") = << >> \/ \E p \in Elements(r["ports"]) : AdminPortAdmits(p, q)

DestinationAdmits(d, e) ==
    \/ Get(d, "cidrSelector") = <<e.cidr>>
    \/ Get(d, "dnsName") = <<e.domain>>
    \/ e.node /\ Get(d, "nodeSelector") # << >> /\ Selects(d["nodeSelector"], e.labels)

\* Without ports a firewall's rule is about all of them; port 0, like none, is
\* about all of the protocol.
FirewallPortsAdmit(ports, q) ==
    \/ ports = << >>
    \/ \E p \in Elements(ports) :
          /\ Get(p, "protocol") = <<q.protocol>>
          /\ Get(p, "port") \in {<< >>, <<0>>, <<q.number>>}

Enabled(types, t) == \E i \in DOMAIN types : types[i] = t

(***************************************************************************)
(* An object n of the cluster and its message m mean the same.             *)
(***************************************************************************)
SamePods(n, m) ==
    \A e \in Ends : Selects(Get(n, "podSelector"), e.labels) <=> Selects(m.podSelector, e.labels)

SameNetworkPolicy(n, m) ==
    /\ SamePods(n, m)
    /\ \A e \in Ends, q \in TargetPorts :
          /\ (~Enabled(Get(n, "policyTypes"), "Ingress") \/ \E r \in Elements(Get(n, "ingress")) :
                 RuleAdmits(PeerAdmits, PortAdmits, Get(r, "from"), Get(r, "ports"), e, q))
             <=> (~m.ingress \/ \E r \in Elements(m.ingressRules) :
                     RuleAdmits(PeerMessageAdmits, PortMessageAdmits, r.peers, r.ports, e, q))
          /\ (~Enabled(Get(n, "policyTypes"), "Egress") \/ \E r \in Elements(Get(n, "egress")) :
                 RuleAdmits(PeerAdmits, PortAdmits, Get(r, "to"), Get(r, "ports"), e, q))
             <=> (~m.egress \/ \E r \in Elements(m.egressRules) :
                     RuleAdmits(PeerMessageAdmits, PortMessageAdmits, r.peers, r.ports, e, q))

SameApplicationNetworkPolicy(n, m) ==
    /\ SamePods(n, m)
    /\ \A e \in Ends, q \in TargetPorts :
          /\ (~Enabled(Get(n, "policyTypes"), "Ingress") \/ \E r \in Elements(Get(n, "ingress")) :
                 RuleAdmits(PeerAdmits, PortAdmits, Get(r, "from"), Get(r, "ports"), e, q))
             <=> (~Enabled(m.policyTypes, "Ingress") \/ \E r \in Elements(m.ingressRules) :
                     RuleAdmits(PeerAdmits, PortAdmits, r.peers, r.ports, e, q))
          /\ (~Enabled(Get(n, "policyTypes"), "Egress") \/ \E r \in Elements(Get(n, "egress")) :
                 RuleAdmits(PeerAdmits, PortAdmits, Get(r, "to"), Get(r, "ports"), e, q))
             <=> (~Enabled(m.policyTypes, "Egress") \/ \E r \in Elements(m.egressRules) :
                     RuleAdmits(PeerAdmits, PortAdmits, r.peers, r.ports, e, q))

\* The order of the rules decides between them.
SameAdminRules(rules, messages, peers) ==
    /\ DOMAIN messages = DOMAIN rules
    /\ \A i \in DOMAIN messages :
          /\ messages[i].action = Get(rules[i], "action")
          /\ \A e \in Ends, q \in TargetPorts :
                AdminRuleAdmits(rules[i], peers, e, q) <=> AdminRuleAdmits(messages[i], "peers", e, q)

SameAdminPolicy(n, m) ==
    /\ \A e \in Ends : AdminPeerAdmits(n["subject"][1], e) <=> AdminPeerAdmits(m.subject, e)
    /\ SameAdminRules(Get(n, "ingress"), m.ingress, "from")
    /\ SameAdminRules(Get(n, "egress"), m.egress, "to")

\* The first rule about a connection decides.
SameEgressFirewall(n, m) ==
    /\ DOMAIN m = DOMAIN Get(n, "egress")
    /\ \A i \in DOMAIN m :
          /\ m[i].type = Get(n["egress"][i], "type")
          /\ \A e \in Ends, q \in TargetPorts :
                (/\ DestinationAdmits(n["egress"][i]["to"][1], e)
                 /\ FirewallPortsAdmit(Get(n["egress"][i], "ports"), q))
                <=> (DestinationAdmits(m[i].to, e) /\ FirewallPortsAdmit(m[i].ports, q))

SameEgressIP(n, m) ==
    /\ m.egressIPs = Get(n, "egressIPs")
    /\ \A e \in Ends :
        (Selects(Get(n, "namespaceSelector"), e.ns) /\ Selects(Get(n, "podSelector"), e.labels))
        <=> (Selects(m.namespaceSelector, e.ns) /\ Selects(m.podSelector, e.labels))

(***************************************************************************)
(* For every end and port, a reported policy of Kubernetes, AWS (only      *)
(* ApplicationNetworkPolicy) or OVN admits a connection in the cluster     *)
(* exactly if the message it was converted to does: its directions, the    *)
(* order, action and precedence of its rules, selectors, peers and ports,  *)
(* unset ones as well as empty ones.  Of Cilium's policies and of AWS's    *)
(* ClusterNetworkPolicy nothing is said here.  (the converters that        *)
(* Converted names)                                                        *)
(***************************************************************************)
PolicyMeaningKept ==
    \A r \in Elements(reported) :
        LET n == r.policy.native  m == r.message
        IN  CASE r.policy.form = "NetworkPolicy" -> SameNetworkPolicy(n, m)
              [] r.policy.form = "ApplicationNetworkPolicy" -> SameApplicationNetworkPolicy(n, m)
              [] r.policy.form = "AdminNetworkPolicy" ->
                    SameAdminPolicy(n, m) /\ m.priority = Get(n, "priority")
              [] r.policy.form = "BaselineAdminNetworkPolicy" -> SameAdminPolicy(n, m)
              [] r.policy.form = "EgressFirewall" -> SameEgressFirewall(n, m)
              [] r.policy.form = "EgressIP" -> SameEgressIP(n, m)
=============================================================================
