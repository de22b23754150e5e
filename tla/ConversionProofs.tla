--------------------------- MODULE ConversionProofs ----------------------------
(***************************************************************************)
(* What the collectors put into the flow cache is the traffic that was     *)
(* recorded, under a key that its connection has for itself, for any       *)
(* addresses, ports and identities; and what the resource stream reports   *)
(* of a policy means what the policy means, for any policies that the API  *)
(* server admits, labels, domains and ports.                               *)
(***************************************************************************)
EXTENDS FlowRecords, ReportedPolicies, SequenceTheorems, TLAPS

--------------------------------------------------------------------------------
(* What the collectors decode (FlowRecords). *)

\* The one key of a connection, as its client sees it.
KeyOf(c) == [ips   |-> c.ips,
             ports |-> IF c.proto = "icmp" THEN <<0, 0>> ELSE c.ports,
             proto |-> IF c.proto # "icmp" THEN c.proto
                       ELSE IF isIPv6(c.ips[1]) THEN "icmpv6" ELSE "icmpv4",
             uids  |-> c.uids]

\* Every entry that a Hubble flow made stands under the key of its connection.
CachedUnderKeys ==
    \A e \in cached : \E c \in Connections : e = [key |-> KeyOf(c), connection |-> Identity(c)]

\* What there is to know of a connection.
LEMMA ConnectionParts ==
  ASSUME NEW c \in Connections
  PROVE  /\ c = [ips |-> c.ips, ports |-> c.ports, uids |-> c.uids, proto |-> c.proto]
         /\ c.ips = <<c.ips[1], c.ips[2]>> /\ c.ports = <<c.ports[1], c.ports[2]>>
         /\ c.uids = <<c.uids[1], c.uids[2]>>
         /\ c.proto \in Protocols
         /\ isIPv6(c.ips[1]) <=> isIPv6(c.ips[2])
  <1>1. c \in [ips : Addresses \X Addresses, ports : Ports \X Ports,
               uids : Identities \X Identities, proto : Protocols]
    BY DecodingAssumption DEF DecodingAssumption
  <1>2. c.ips \in Addresses \X Addresses /\ c.ports \in Ports \X Ports
        /\ c.uids \in Identities \X Identities /\ c.proto \in Protocols
    BY <1>1
  <1>3. c = [ips |-> c.ips, ports |-> c.ports, uids |-> c.uids, proto |-> c.proto]
    BY <1>1
  <1>4. c.ips = <<c.ips[1], c.ips[2]>> /\ c.ports = <<c.ports[1], c.ports[2]>>
        /\ c.uids = <<c.uids[1], c.uids[2]>>
    BY <1>2
  <1>5. isIPv6(c.ips[1]) <=> isIPv6(c.ips[2])
    BY DecodingAssumption DEF DecodingAssumption
  <1> QED BY <1>2, <1>3, <1>4, <1>5

\* Two connections have the same key exactly if they are the same.
LEMMA KeyIdentifies ==
  ASSUME NEW c \in Connections, NEW d \in Connections
  PROVE  KeyOf(c) = KeyOf(d) <=> Identity(c) = Identity(d)
  <1>1. ASSUME KeyOf(c) = KeyOf(d) PROVE Identity(c) = Identity(d)
    <2>1. /\ c.ips = d.ips /\ c.uids = d.uids
          /\ (IF c.proto = "icmp" THEN <<0, 0>> ELSE c.ports) =
             (IF d.proto = "icmp" THEN <<0, 0>> ELSE d.ports)
          /\ (IF c.proto # "icmp" THEN c.proto ELSE IF isIPv6(c.ips[1]) THEN "icmpv6" ELSE "icmpv4") =
             (IF d.proto # "icmp" THEN d.proto ELSE IF isIPv6(d.ips[1]) THEN "icmpv6" ELSE "icmpv4")
      BY <1>1 DEF KeyOf
    <2>2. c.proto = d.proto
      BY <2>1, ConnectionParts DEF Protocols
    <2>3. CASE c.proto = "icmp"
      BY <2>1, <2>2, <2>3, ConnectionParts DEF Identity
    <2>4. CASE c.proto # "icmp"
      BY <2>1, <2>2, <2>4, ConnectionParts DEF Identity
    <2> QED BY <2>3, <2>4
  <1>2. ASSUME Identity(c) = Identity(d) PROVE KeyOf(c) = KeyOf(d)
    <2>1. /\ Identity(c).ips = c.ips /\ Identity(c).uids = c.uids /\ Identity(c).proto = c.proto
          /\ Identity(c).ports = IF c.proto = "icmp" THEN <<0, 0>> ELSE c.ports
      BY ConnectionParts DEF Identity
    <2>2. /\ Identity(d).ips = d.ips /\ Identity(d).uids = d.uids /\ Identity(d).proto = d.proto
          /\ Identity(d).ports = IF d.proto = "icmp" THEN <<0, 0>> ELSE d.ports
      BY ConnectionParts DEF Identity
    <2> QED BY <1>2, <2>1, <2>2 DEF KeyOf
  <1> QED BY <1>1, <1>2


\* The fourth layer of a flow that Hubble saw.
Layer4Of(t) == [protocol    |-> ProtocolOf(t),
                    source      |-> IF t.proto = "icmp" THEN 0 ELSE t.sport,
                    destination |-> IF t.proto = "icmp" THEN 0 ELSE t.dport]

\* A whole Hubble flow becomes a flow with its addresses, ports and identities.
LEMMA WholeHubbleFlow ==
  ASSUME NEW c \in Connections, NEW reply \in BOOLEAN, NEW known \in BOOLEAN, NEW ts
  PROVE  LET t == ConnectionTuple(c, reply) IN
         ConvertCiliumFlow(HubbleFlow(c, reply, known, ts)) =
           <<[layer3  |-> [source |-> t.src, destination |-> t.dst,
                           version |-> IF isIPv6(t.src) THEN "ipv6" ELSE "ipv4"],
              layer4  |-> <<Layer4Of(t)>>,
              ts      |-> ts,
              isReply |-> known /\ reply,
              uids    |-> Oriented(c.uids, reply)]>>
  <1> DEFINE t == ConnectionTuple(c, reply)
             h == HubbleFlow(c, reply, known, ts)
  <1>1. t.proto \in Protocols
    BY ConnectionParts DEF ConnectionTuple
  <1>2. h.l4 = <<Layer4Of(t)>>
    BY DEF HubbleFlow, Layer4Of, ProtocolOf
  <1>3. convertCiliumLayer4(Layer4Of(t)) = <<Layer4Of(t)>>
    <2> DEFINE l4 == Layer4Of(t)
    <2>1. l4.protocol = ProtocolOf(t)
      BY DEF Layer4Of
    <2>2. CASE t.proto = "icmp"
      <3>1. l4 = [protocol |-> l4.protocol, source |-> 0, destination |-> 0]
        BY <2>2 DEF Layer4Of
      <3>2. l4.protocol \in {"icmpv4", "icmpv6"}
        BY <2>1, <2>2 DEF ProtocolOf
      <3> QED BY <3>1, <3>2 DEF convertCiliumLayer4
    <2>3. CASE t.proto # "icmp"
      BY <2>1, <2>3, <1>1 DEF ProtocolOf, Protocols, convertCiliumLayer4
    <2> QED BY <2>2, <2>3
  <1>4. /\ h.time = <<ts>> /\ h.uids = Oriented(c.uids, reply)
        /\ h.ip = <<[source |-> t.src, destination |-> t.dst,
                     version |-> IF isIPv6(t.src) THEN "ipv6" ELSE "ipv4"]>>
        /\ h.isReply = IF known THEN <<reply>> ELSE << >>
    BY DEF HubbleFlow
  <1>5. (h.isReply = <<TRUE>>) = (known /\ reply)
    <2> HIDE DEF h
    <2>1. CASE known /\ reply
      <3>1. reply = TRUE /\ known = TRUE
        BY <2>1
      <3>2. h.isReply = <<TRUE>>
        BY <1>4, <3>1
      <3> QED BY <3>1, <3>2
    <2>2. CASE known /\ ~reply
      <3>1. reply = FALSE /\ known = TRUE
        BY <2>2
      <3>2. h.isReply = <<FALSE>>
        BY <1>4, <3>1
      <3>3. <<FALSE>> # <<TRUE>>
        OBVIOUS
      <3> QED BY <3>1, <3>2, <3>3
    <2>3. CASE ~known
      <3>1. known = FALSE
        BY <2>3
      <3>2. h.isReply = << >>
        BY <1>4, <3>1
      <3>3. h.isReply # <<TRUE>>
        BY <3>2
      <3> QED BY <3>1, <3>3
    <2> QED BY <2>1, <2>2, <2>3
  <1> HIDE DEF h, t
  <1>6. ConvertCiliumFlow(h) =
           <<[layer3  |-> h.ip[1], layer4  |-> convertCiliumLayer4(h.l4[1]), ts |-> h.time[1],
              isReply |-> h.isReply = <<TRUE>>, uids |-> h.uids]>>
    BY <1>2, <1>4 DEF ConvertCiliumFlow
  <1>7. /\ h.ip[1] = [source |-> t.src, destination |-> t.dst,
                      version |-> IF isIPv6(t.src) THEN "ipv6" ELSE "ipv4"]
        /\ h.l4[1] = Layer4Of(t) /\ h.time[1] = ts
    BY <1>2, <1>4
  <1>8. ConvertCiliumFlow(h) =
           <<[layer3  |-> [source |-> t.src, destination |-> t.dst,
                           version |-> IF isIPv6(t.src) THEN "ipv6" ELSE "ipv4"],
              layer4  |-> <<Layer4Of(t)>>, ts |-> ts,
              isReply |-> known /\ reply, uids |-> Oriented(c.uids, reply)]>>
    BY <1>3, <1>4, <1>5, <1>6, <1>7, Zenon
  <1> QED BY <1>8 DEF h, t

\* A Hubble flow without time, addresses or protocol is dropped.
LEMMA DamagedHubbleFlow ==
  ASSUME NEW c \in Connections, NEW reply \in BOOLEAN, NEW known \in BOOLEAN, NEW ts,
         NEW received \in DamagedFlows(HubbleFlow(c, reply, known, ts))
  PROVE  /\ received # HubbleFlow(c, reply, known, ts)
         /\ ConvertCiliumFlow(received) = << >>
  <1> DEFINE h == HubbleFlow(c, reply, known, ts)
  <1>1. h.time # << >> /\ h.ip # << >> /\ h.l4 # << >>
    BY DEF HubbleFlow
  <1>2. DOMAIN h = {"time", "ip", "l4", "uids", "isReply"}
    BY DEF HubbleFlow
  <1> HIDE DEF h
  <1>3. CASE received = [h EXCEPT !.time = << >>]
    BY <1>1, <1>2, <1>3 DEF ConvertCiliumFlow, h
  <1>4. CASE received = [h EXCEPT !.ip = << >>]
    BY <1>1, <1>2, <1>4 DEF ConvertCiliumFlow, h
  <1>5. CASE received = [h EXCEPT !.l4 = << >>]
    BY <1>1, <1>2, <1>5 DEF ConvertCiliumFlow, h
  <1> QED BY <1>3, <1>4, <1>5 DEF DamagedFlows, h

\* Both directions of a connection have its one key.
LEMMA BothDirectionsOneKey ==
  ASSUME NEW c \in Connections, NEW reply \in BOOLEAN, NEW ts
  PROVE  CiliumFlowKey(ConvertCiliumFlow(HubbleFlow(c, reply, TRUE, ts))[1]) = KeyOf(c)
  <1> DEFINE t == ConnectionTuple(c, reply)
             f == [layer3  |-> [source |-> t.src, destination |-> t.dst,
                                version |-> IF isIPv6(t.src) THEN "ipv6" ELSE "ipv4"],
                   layer4  |-> <<Layer4Of(t)>>, ts |-> ts,
                   isReply |-> reply, uids |-> Oriented(c.uids, reply)]
  <1>1. ConvertCiliumFlow(HubbleFlow(c, reply, TRUE, ts))[1] = f
    <2>1. (TRUE /\ reply) = reply
      OBVIOUS
    <2>2. ConvertCiliumFlow(HubbleFlow(c, reply, TRUE, ts)) =
            <<[layer3  |-> [source |-> t.src, destination |-> t.dst,
                            version |-> IF isIPv6(t.src) THEN "ipv6" ELSE "ipv4"],
               layer4  |-> <<Layer4Of(t)>>, ts |-> ts,
               isReply |-> TRUE /\ reply, uids |-> Oriented(c.uids, reply)]>>
      BY WholeHubbleFlow, Zenon
    <2>3. ConvertCiliumFlow(HubbleFlow(c, reply, TRUE, ts)) = <<f>>
      BY <2>1, <2>2, Zenon
    <2>4. \A x, y : x = <<y>> => x[1] = y
      OBVIOUS
    <2> HIDE DEF f
    <2> QED BY <2>3, <2>4, Zenon
  <1>2. FiveTupleFlowKey(f) = [ips   |-> <<t.src, t.dst>>,
                               ports |-> IF c.proto = "icmp" THEN <<0, 0>> ELSE <<t.sport, t.dport>>,
                               proto |-> ProtocolOf(t)]
    BY DEF FiveTupleFlowKey, Layer4Of, ConnectionTuple
  <1>3. ProtocolOf(t) = KeyOf(c).proto
    BY ConnectionParts DEF ProtocolOf, ConnectionTuple, Oriented, KeyOf
  <1>4. CASE reply
    <2>1. t.src = c.ips[2] /\ t.dst = c.ips[1] /\ t.sport = c.ports[2] /\ t.dport = c.ports[1]
      BY <1>4 DEF ConnectionTuple, Oriented
    <2>2. f.isReply /\ f.uids = <<c.uids[2], c.uids[1]>>
      BY <1>4 DEF Oriented
    <2> HIDE DEF f, t
    <2>3. CiliumFlowKey(f) = [ips |-> c.ips,
                              ports |-> IF c.proto = "icmp" THEN <<0, 0>> ELSE c.ports,
                              proto |-> ProtocolOf(t), uids |-> c.uids]
      BY <1>2, <2>1, <2>2, ConnectionParts DEF CiliumFlowKey, Swapped
    <2> QED BY <1>1, <1>3, <2>3 DEF KeyOf
  <1>5. CASE ~reply
    <2>1. t.src = c.ips[1] /\ t.dst = c.ips[2] /\ t.sport = c.ports[1] /\ t.dport = c.ports[2]
      BY <1>5 DEF ConnectionTuple, Oriented
    <2>2. ~f.isReply /\ f.uids = c.uids
      BY <1>5 DEF Oriented
    <2> HIDE DEF f, t
    <2>3. CiliumFlowKey(f) = [ips |-> c.ips,
                              ports |-> IF c.proto = "icmp" THEN <<0, 0>> ELSE c.ports,
                              proto |-> ProtocolOf(t), uids |-> c.uids]
      BY <1>2, <2>1, <2>2, ConnectionParts DEF CiliumFlowKey
    <2> QED BY <1>1, <1>3, <2>3 DEF KeyOf
  <1> QED BY <1>4, <1>5


\* The addresses, ports and time of traffic, each unless it is missing.
AsTold(src, dst, sport, dport, time, t, ts, missing) ==
    /\ src   = IF "src" \in missing THEN "" ELSE t.src
    /\ dst   = IF "dst" \in missing THEN "" ELSE t.dst
    /\ sport = IF "sport" \in missing THEN 0 ELSE t.sport
    /\ dport = IF "dport" \in missing THEN 0 ELSE t.dport
    /\ time  = IF "ts" \in missing THEN "epoch" ELSE ts

\* A flow with the addresses and layer 4 of some traffic says what the traffic was.
LEMMA LayersAreTraffic ==
  ASSUME NEW f, NEW t, NEW ts, NEW missing, NEW src, NEW dst, NEW sport, NEW dport,
         AsTold(src, dst, sport, dport, f.ts, t, ts, missing),
         f.layer3 = [source |-> src, destination |-> dst,
                     version |-> IF isIPv6(t.src) THEN "ipv6" ELSE "ipv4"],
         f.layer4 = <<[protocol    |-> ProtocolOf(t),
                       source      |-> IF t.proto = "icmp" THEN 0 ELSE sport,
                       destination |-> IF t.proto = "icmp" THEN 0 ELSE dport]>>
  PROVE  IsTraffic(f, t, ts, missing)
  <1> DEFINE l4 == [protocol    |-> ProtocolOf(t),
                    source      |-> IF t.proto = "icmp" THEN 0 ELSE sport,
                    destination |-> IF t.proto = "icmp" THEN 0 ELSE dport]
             k == FiveTupleFlowKey(f)
  <1>1. f.layer4 # << >> /\ f.layer4[1] = l4
    OBVIOUS
  <1>2. k = [ips |-> <<src, dst>>, ports |-> <<l4.source, l4.destination>>, proto |-> l4.protocol]
    BY <1>1 DEF FiveTupleFlowKey
  <1>3. k.ips = <<src, dst>> /\ k.proto = ProtocolOf(t)
    BY <1>2
  <1>4. k.ports = IF t.proto = "icmp" THEN <<0, 0>> ELSE <<sport, dport>>
    BY <1>2
  <1>5. f.layer3.version = IF isIPv6(t.src) THEN "ipv6" ELSE "ipv4"
    OBVIOUS
  <1> HIDE DEF k, l4
  <1> QED BY <1>3, <1>4, <1>5 DEF IsTraffic, AsTold, k

\* What CreateLayer3Message and CreateLayer4Message make of traffic they know.
LEMMA MessagesAreTraffic ==
  ASSUME NEW t \in Traffic, NEW ts, NEW missing, NEW src, NEW dst, NEW sport, NEW dport, NEW time,
         AsTold(src, dst, sport, dport, time, t, ts, missing)
  PROVE  LET version == IF isIPv6(t.src) THEN "ipv6" ELSE "ipv4"
             flow == FiveTupleFlow(CreateLayer3Message(src, dst, version),
                                   CreateLayer4Message(t.proto, sport, dport, version), time)
         IN  /\ flow = << >> <=> t.proto = "sctp"
             /\ flow # << >> => IsTraffic(flow[1], t, ts, missing)
  <1> DEFINE version == IF isIPv6(t.src) THEN "ipv6" ELSE "ipv4"
             l3 == CreateLayer3Message(src, dst, version)
             l4 == CreateLayer4Message(t.proto, sport, dport, version)
             transport == [protocol    |-> ProtocolOf(t),
                           source      |-> IF t.proto = "icmp" THEN 0 ELSE sport,
                           destination |-> IF t.proto = "icmp" THEN 0 ELSE dport]
             flow == FiveTupleFlow(l3, l4, time)
  <1>1. t.proto \in Protocols
    BY DecodingAssumption DEF DecodingAssumption
  <1>2. l3 = <<[source |-> src, destination |-> dst, version |-> version]>>
    BY DEF CreateLayer3Message
  <1>3. CASE t.proto = "sctp"
    <2>1. l4 = << >>
      BY <1>3 DEF CreateLayer4Message
    <2> QED BY <1>3, <2>1 DEF FiveTupleFlow
  <1>4. CASE t.proto # "sctp"
    <2>1. l4 = <<transport>>
      <3>1. CASE t.proto \in {"tcp", "udp"}
        BY <3>1 DEF CreateLayer4Message, ProtocolOf
      <3>2. CASE t.proto = "icmp"
        BY <3>2 DEF CreateLayer4Message, ProtocolOf
      <3> QED BY <3>1, <3>2, <1>1, <1>4 DEF Protocols
    <2> DEFINE f == [layer3 |-> l3[1], layer4 |-> l4, ts |-> time, isReply |-> FALSE, uids |-> <<0, 0>>]
    <2> HIDE DEF l3, l4, transport
    <2>2. flow = <<f>>
      BY <1>2, <2>1 DEF FiveTupleFlow
    <2>3. /\ f.layer3 = [source |-> src, destination |-> dst, version |-> version]
          /\ f.layer4 = <<transport>> /\ f.ts = time
      BY <1>2, <2>1
    <2> HIDE DEF f
    <2>4. IsTraffic(f, t, ts, missing)
      BY <2>3, LayersAreTraffic DEF transport
    <2> HIDE DEF flow
    <2>5. flow # << >> /\ flow[1] = f
      BY <2>2
    <2> QED BY <1>4, <2>4, <2>5 DEF flow, l3, l4
  <1> QED BY <1>3, <1>4


\* A whole line of the agent is decoded, in either format, unless it has no time or
\* the traffic is SCTP.
LEMMA WholeLogLine ==
  ASSUME NEW t \in Traffic, NEW old \in BOOLEAN, NEW ts \in Times \cup {"invalid"},
         NEW proto \in AgentNames(t.proto)
  PROVE  LET flow == ParseAWSVPCCNIFlowLog(AgentLine([t EXCEPT !.proto = proto], old, ts))
         IN  /\ flow # << >> <=> (ts \in Times /\ t.proto # "sctp")
             /\ flow # << >> => IsTraffic(flow[1], t, ts, {})
  <1> DEFINE u == [t EXCEPT !.proto = proto]
             line == AgentLine(u, old, ts)
             version == IF isIPv6(t.src) THEN "ipv6" ELSE "ipv4"
             known == IF proto = "unknown" THEN "tcp" ELSE proto
             flow == FiveTupleFlow(CreateLayer3Message(t.src, t.dst, version),
                                   CreateLayer4Message(t.proto, t.sport, t.dport, version), ts)
  <1>1. /\ t \in [src : Addresses, dst : Addresses, sport : Ports, dport : Ports, proto : Protocols]
        /\ isIPv6(t.src) <=> isIPv6(t.dst)
        /\ t.src # "" /\ t.dst # ""
    BY DecodingAssumption DEF DecodingAssumption
  <1>2. /\ u.src = t.src /\ u.dst = t.dst /\ u.sport = t.sport /\ u.dport = t.dport
        /\ u.proto = proto
    BY <1>1
  <1>3. known = t.proto
    <2>1. CASE proto = t.proto
      <3>1. proto # "unknown"
        BY <1>1, <2>1 DEF Protocols
      <3> QED BY <2>1, <3>1
    <2>2. CASE proto # t.proto
      <3>1. t.proto = "tcp" /\ proto = "unknown"
        BY <2>2 DEF AgentNames
      <3> QED BY <3>1
    <2> QED BY <2>1, <2>2
  <1>4. /\ line.json /\ line.flowInfo /\ line.ts = ts
        /\ line.logger = IF old THEN "ebpf-client" ELSE ""
        /\ line.caller = IF old THEN "" ELSE "runtime"
        /\ line.fields = IF old THEN <<u>> ELSE << >>
        /\ line.msg = IF old THEN << >> ELSE <<u>>
    BY DEF AgentLine
  <1>5. ts \in Times <=> ts # "invalid"
    BY DecodingAssumption DEF DecodingAssumption
  <1> HIDE DEF u, line
  <1>6. tupleOf(line) = <<u>>
    <2>1. CASE old
      <3>1. line.logger = "ebpf-client" /\ line.fields = <<u>>
        BY <1>4, <2>1
      <3>2. line.fields # << >> /\ line.fields[1] = u
        BY <3>1
      <3>3. line.fields[1].src # "" /\ line.fields[1].dst # ""
        BY <1>1, <1>2, <3>2
      <3> QED BY <3>1, <3>2, <3>3 DEF parseOldFormat, tupleOf, isOldFormat
    <2>2. CASE ~old
      BY <1>4, <2>2 DEF parseFlowFromMsg, tupleOf, isOldFormat
    <2> QED BY <2>1, <2>2
  <1>7. isOldFormat(line) \/ isNewFormat(line)
    BY <1>4 DEF isOldFormat, isNewFormat
  <1>8. (IF isIPv6(u.src) \/ isIPv6(u.dst) THEN "ipv6" ELSE "ipv4") = version
    BY <1>1, <1>2
  <1>9. ParseAWSVPCCNIFlowLog(line) =
          IF ts # "invalid"
          THEN FiveTupleFlow(CreateLayer3Message(u.src, u.dst, version),
                             CreateLayer4Message(known, u.sport, u.dport, version), ts)
          ELSE << >>
    <2>1. tupleOf(line) # << >> /\ tupleOf(line)[1] = u
      BY <1>6
    <2> HIDE DEF version
    <2>2. CASE ts # "invalid"
      BY <1>2, <1>4, <1>7, <1>8, <2>1, <2>2 DEF ParseAWSVPCCNIFlowLog
    <2>3. CASE ts = "invalid"
      BY <1>4, <2>3 DEF ParseAWSVPCCNIFlowLog
    <2> QED BY <2>2, <2>3
  <1>10. ParseAWSVPCCNIFlowLog(line) = IF ts # "invalid" THEN flow ELSE << >>
    BY <1>2, <1>3, <1>9
  <1>11. /\ flow = << >> <=> t.proto = "sctp"
         /\ flow # << >> => IsTraffic(flow[1], t, ts, {})
    <2>1. AsTold(t.src, t.dst, t.sport, t.dport, ts, t, ts, {})
      BY DEF AsTold
    <2> QED BY <2>1, MessagesAreTraffic
  <1> HIDE DEF flow
  <1>12. /\ ParseAWSVPCCNIFlowLog(line) # << >> <=> (ts \in Times /\ t.proto # "sctp")
         /\ ParseAWSVPCCNIFlowLog(line) # << >> => IsTraffic(ParseAWSVPCCNIFlowLog(line)[1], t, ts, {})
    <2>1. CASE ts = "invalid"
      BY <1>5, <1>10, <2>1
    <2>2. CASE ts # "invalid"
      BY <1>5, <1>10, <1>11, <2>2
    <2> QED BY <2>1, <2>2
  <1> QED BY <1>12 DEF line, u

\* An optional field without value has no position.
LEMMA EmptyField == DOMAIN << >> = {}
  OBVIOUS

\* An optional field with a value holds it at 1.
LEMMA FullField ==
  ASSUME NEW x
  PROVE  <<x>>[1] = x /\ 1 \in DOMAIN <<x>>
  OBVIOUS

\* A damaged line is no flow.
LEMMA DamagedLogLine ==
  ASSUME NEW t, "src" \in DOMAIN t, t.src # "",
         NEW old \in BOOLEAN, NEW ts,
         NEW received \in DamagedLines(AgentLine(t, old, ts))
  PROVE  /\ received # AgentLine(t, old, ts)
         /\ ParseAWSVPCCNIFlowLog(received) = << >>
  <1> DEFINE line == AgentLine(t, old, ts)
             F == DOMAIN line
  <1>1. /\ line.json = TRUE /\ line.flowInfo = TRUE
        /\ line.logger = IF old THEN "ebpf-client" ELSE ""
        /\ line.fields = IF old THEN <<t>> ELSE << >>
        /\ line.msg = IF old THEN << >> ELSE <<t>>
        /\ line = [f \in F |-> line[f]]
        /\ F = {"json", "flowInfo", "logger", "caller", "fields", "msg", "ts"}
    BY DEF AgentLine
  <1> HIDE DEF line, F
  <1>2. CASE received = [line EXCEPT !.json = FALSE]
    <2>1. received.json = FALSE
      BY <1>1, <1>2
    <2> QED BY <1>1, <2>1 DEF ParseAWSVPCCNIFlowLog, line
  <1>3. CASE received = [line EXCEPT !.flowInfo = FALSE]
    <2>1. received.flowInfo = FALSE
      BY <1>1, <1>3
    <2> QED BY <1>1, <2>1 DEF ParseAWSVPCCNIFlowLog, line
  <1>4. CASE received = [line EXCEPT !.logger = "other"]
    <2>1. received.logger = "other"
      BY <1>1, <1>4
    <2>2. ParseAWSVPCCNIFlowLog(received) = << >>
      BY <2>1 DEF ParseAWSVPCCNIFlowLog, isOldFormat, isNewFormat
    <2> QED BY <1>1, <2>1, <2>2 DEF line
  <1>5. CASE received = [line EXCEPT !.fields = << >>, !.msg = << >>]
    <2>1. received.fields = << >> /\ received.msg = << >>
      BY <1>1, <1>5
    <2>2. received # line
      <3>1. line.fields = <<t>> \/ line.msg = <<t>>
        BY <1>1
      <3>2. <<t>> # << >>
        OBVIOUS
      <3> QED BY <2>1, <3>1, <3>2
    <2>3. tupleOf(received) = << >>
      BY <2>1 DEF parseOldFormat, parseFlowFromMsg, tupleOf
    <2>4. ParseAWSVPCCNIFlowLog(received) = << >>
      BY <2>3 DEF ParseAWSVPCCNIFlowLog
    <2> QED BY <2>2, <2>4 DEF line
  <1>6. CASE /\ line.fields # << >>
             /\ received = [line EXCEPT !.fields[1].src = ""]
    <2>1. line.fields = <<t>> /\ old /\ line.logger = "ebpf-client"
      BY <1>1, <1>6
    <2>2. received.fields = [line.fields EXCEPT ![1] = [line.fields[1] EXCEPT !.src = ""]]
      BY <1>1, <1>6
    <2>3. line.fields[1] = t /\ 1 \in DOMAIN line.fields
      <3>1. <<t>>[1] = t /\ 1 \in DOMAIN <<t>>
        BY FullField, Zenon
      <3> QED BY <2>1, <3>1, Zenon
    <2>4. received.fields[1] = [t EXCEPT !.src = ""]
      BY <2>2, <2>3
    <2>5. received.fields[1].src = ""
      BY <2>4
    <2>6. received # line
      BY <2>3, <2>5
    <2>7. received.logger = "ebpf-client"
      BY <1>1, <1>6, <2>1
    <2>8. tupleOf(received) = << >>
      BY <2>5, <2>7 DEF tupleOf, isOldFormat, parseOldFormat
    <2>9. ParseAWSVPCCNIFlowLog(received) = << >>
      BY <2>8 DEF ParseAWSVPCCNIFlowLog
    <2> QED BY <2>6, <2>9 DEF line
  <1>7. \/ received \in {[line EXCEPT !.json = FALSE], [line EXCEPT !.flowInfo = FALSE],
                         [line EXCEPT !.logger = "other"],
                         [line EXCEPT !.fields = << >>, !.msg = << >>]}
        \/ \E i \in DOMAIN line.fields : received = [line EXCEPT !.fields[1].src = ""]
    BY DEF DamagedLines, line
  <1>8. ASSUME NEW i \in DOMAIN line.fields PROVE line.fields # << >>
    <2> QED BY <1>8, EmptyField, Zenon
  <1> QED BY <1>2, <1>3, <1>4, <1>5, <1>6, <1>7, <1>8


\* The one field of its kind is the last one; without any there is the default.
LEMMA OneField ==
  ASSUME NEW record, NEW i \in DOMAIN record, DOMAIN record \subseteq Nat, NEW types, NEW otherwise,
         record[i].type \in types,
         \A j \in DOMAIN record : record[j].type \in types => j = i
  PROVE  LastOf(record, types, otherwise) = record[i].val
  <1> DEFINE at == {j \in DOMAIN record : record[j].type \in types}
  <1>1. at = {i}
    OBVIOUS
  <1> HIDE DEF at
  <1>2. i \in Nat /\ i <= i
    OBVIOUS
  <1>3. (CHOOSE k \in at : \A j \in at : j <= k) = i
    BY <1>1, <1>2
  <1>4. at # {}
    BY <1>1
  <1> QED BY <1>3, <1>4 DEF LastOf, at

\* (OneField and NoField are about the loop of ProcessDataRecord.)
LEMMA NoField ==
  ASSUME NEW record, NEW types, NEW otherwise,
         \A j \in DOMAIN record : record[j].type \notin types
  PROVE  LastOf(record, types, otherwise) = otherwise
  BY DEF LastOf

\* The fields of a record, in the order of the template.
Template(r, t, ts) ==
    /\ r[1] = [type |-> 60, len |-> 1, val |-> IF isIPv6(t.src) THEN 6 ELSE 4]
    /\ r[2] = [type |-> 4, len |-> 1, val |-> ProtocolNumber[t.proto]]
    /\ isIPv6(t.src) => /\ r[3] = [type |-> 27, len |-> 16, val |-> t.src]
                        /\ r[4] = [type |-> 28, len |-> 16, val |-> t.dst]
    /\ ~isIPv6(t.src) => /\ r[3] = [type |-> 8, len |-> 4, val |-> t.src]
                         /\ r[4] = [type |-> 12, len |-> 4, val |-> t.dst]
    /\ r[5] = [type |-> 7, len |-> 2, val |-> t.sport]
    /\ r[6] = [type |-> 11, len |-> 2, val |-> t.dport]
    /\ r[7] = [type |-> 158, len |-> 4, val |-> ts]
    /\ r[8] = [type |-> 159, len |-> 4, val |-> ts]

\* Open vSwitch's record has the fields of its template.
LEMMA ExportedFields ==
  ASSUME NEW t \in Traffic, NEW ts
  PROVE  Template(ExportedRecord(t, ts), t, ts)
  <1> DEFINE r == ExportedRecord(t, ts)
  <1>1. /\ r[1] = [type |-> 60, len |-> 1, val |-> IF isIPv6(t.src) THEN 6 ELSE 4]
        /\ r[2] = [type |-> 4, len |-> 1, val |-> ProtocolNumber[t.proto]]
    BY DEF ExportedRecord
  <1>2. /\ r[5] = [type |-> 7, len |-> 2, val |-> t.sport]
        /\ r[6] = [type |-> 11, len |-> 2, val |-> t.dport]
        /\ r[7] = [type |-> 158, len |-> 4, val |-> ts]
        /\ r[8] = [type |-> 159, len |-> 4, val |-> ts]
    BY DEF ExportedRecord
  <1>3. isIPv6(t.src) => /\ r[3] = [type |-> 27, len |-> 16, val |-> t.src]
                         /\ r[4] = [type |-> 28, len |-> 16, val |-> t.dst]
    BY DEF ExportedRecord
  <1>4. ~isIPv6(t.src) => /\ r[3] = [type |-> 8, len |-> 4, val |-> t.src]
                          /\ r[4] = [type |-> 12, len |-> 4, val |-> t.dst]
    BY DEF ExportedRecord
  <1> QED BY <1>1, <1>2, <1>3, <1>4 DEF Template

\* The field lengths and numbers that are asked for.
LEMMA FieldLimits ==
  /\ DOMAIN LeastLength = {8, 12, 27, 28, 7, 11, 4, 60}
  /\ LeastLength[8] = 4 /\ LeastLength[12] = 4 /\ LeastLength[27] = 16 /\ LeastLength[28] = 16
  /\ LeastLength[7] = 2 /\ LeastLength[11] = 2 /\ LeastLength[4] = 1 /\ LeastLength[60] = 1
  /\ DOMAIN ParseProtocol = {1, 6, 17, 132} /\ DOMAIN ParseIPVersion = {4, 6}
  /\ ParseIPVersion[4] = "ipv4" /\ ParseIPVersion[6] = "ipv6"
  BY DEF LeastLength, ParseProtocol, ParseIPVersion

\* ParseProtocol knows the number of every protocol of the traffic.
LEMMA ProtocolRoundTrip ==
  ASSUME NEW p \in Protocols
  PROVE  /\ ProtocolNumber[p] \in DOMAIN ParseProtocol /\ ProtocolNumber[p] # 0
         /\ ParseProtocol[ProtocolNumber[p]] = p
  BY DEF ProtocolNumber, ParseProtocol, Protocols

\* The record that arrives, and the parts that it does not speak of.
ReceivedRecord(t, ts, arrival) == [i \in 1..8 |-> Arrived(ExportedRecord(t, ts)[i], arrival[i])]
MissingParts(arrival) == {Parts[i] : i \in {j \in 1..8 : arrival[j].how = "another"}}

\* The type and length of each field as it was exported: what is an address depends on
\* the IP version.
LEMMA FieldTypes ==
  ASSUME NEW t \in Traffic, NEW ts
  PROVE  LET r == ExportedRecord(t, ts) IN
         /\ r[1].type = 60 /\ r[1].len = 1 /\ r[1].val = IF isIPv6(t.src) THEN 6 ELSE 4
         /\ r[2].type = 4 /\ r[2].len = 1 /\ r[2].val = ProtocolNumber[t.proto]
         /\ \/ r[3].type = 27 /\ r[3].len = 16 /\ r[4].type = 28 /\ r[4].len = 16
            \/ r[3].type = 8 /\ r[3].len = 4 /\ r[4].type = 12 /\ r[4].len = 4
         /\ r[3].val = t.src /\ r[4].val = t.dst
         /\ r[5].type = 7 /\ r[5].len = 2 /\ r[5].val = t.sport
         /\ r[6].type = 11 /\ r[6].len = 2 /\ r[6].val = t.dport
         /\ r[7].type = 158 /\ r[7].len = 4 /\ r[7].val = ts
         /\ r[8].type = 159 /\ r[8].len = 4
  <1> DEFINE r == ExportedRecord(t, ts)
  <1>1. Template(r, t, ts)
    BY ExportedFields
  <1> HIDE DEF r
  <1>2. /\ r[1].type = 60 /\ r[1].len = 1 /\ r[1].val = IF isIPv6(t.src) THEN 6 ELSE 4
        /\ r[2].type = 4 /\ r[2].len = 1 /\ r[2].val = ProtocolNumber[t.proto]
    BY <1>1 DEF Template
  <1>3. /\ r[5].type = 7 /\ r[5].len = 2 /\ r[5].val = t.sport
        /\ r[6].type = 11 /\ r[6].len = 2 /\ r[6].val = t.dport
        /\ r[7].type = 158 /\ r[7].len = 4 /\ r[7].val = ts
        /\ r[8].type = 159 /\ r[8].len = 4
    BY <1>1 DEF Template
  <1>4. CASE isIPv6(t.src)
    <2>1. /\ r[3].type = 27 /\ r[3].len = 16 /\ r[4].type = 28 /\ r[4].len = 16
          /\ r[3].val = t.src /\ r[4].val = t.dst
      BY <1>1, <1>4 DEF Template
    <2> QED BY <1>2, <1>3, <2>1 DEF r
  <1>5. CASE ~isIPv6(t.src)
    <2>1. /\ r[3].type = 8 /\ r[3].len = 4 /\ r[4].type = 12 /\ r[4].len = 4
          /\ r[3].val = t.src /\ r[4].val = t.dst
      BY <1>1, <1>5 DEF Template
    <2> QED BY <1>2, <1>3, <2>1 DEF r
  <1> QED BY <1>4, <1>5

\* What arrives in the place of the fields of a record: r of e.
ArrivesAs(r, e, arrival) ==
    /\ DOMAIN r = 1..8 /\ DOMAIN arrival = 1..8
    /\ \A i \in 1..8 :
         /\ arrival[i].more \in Int /\ arrival[i].how \in {"itself", "another", "unknown"}
         /\ r[i].type = IF arrival[i].how = "another" THEN 0 ELSE e[i].type
         /\ r[i].len = e[i].len + arrival[i].more
         /\ r[i].val = IF arrival[i].how = "unknown" /\ e[i].type \in {4, 60} THEN 47 ELSE e[i].val

LEMMA ReceivedFields ==
  ASSUME NEW t \in Traffic, NEW ts, NEW arrival \in Arrivals
  PROVE  ArrivesAs(ReceivedRecord(t, ts, arrival), ExportedRecord(t, ts), arrival)
  <1>1. arrival \in [1..8 -> [how : {"itself", "another", "unknown"}, more : Int]]
    BY DecodingAssumption DEF DecodingAssumption
  <1>2. \A i \in 1..8 : ReceivedRecord(t, ts, arrival)[i] = Arrived(ExportedRecord(t, ts)[i], arrival[i])
    BY DEF ReceivedRecord
  <1>3. DOMAIN ReceivedRecord(t, ts, arrival) = 1..8
    BY DEF ReceivedRecord
  <1>4. /\ \A i \in 1..8 : arrival[i] \in [how : {"itself", "another", "unknown"}, more : Int]
        /\ DOMAIN arrival = 1..8
    BY <1>1
  <1>5. ASSUME NEW i \in 1..8
        PROVE  /\ arrival[i].more \in Int /\ arrival[i].how \in {"itself", "another", "unknown"}
               /\ ReceivedRecord(t, ts, arrival)[i].type =
                    (IF arrival[i].how = "another" THEN 0 ELSE ExportedRecord(t, ts)[i].type)
               /\ ReceivedRecord(t, ts, arrival)[i].len = ExportedRecord(t, ts)[i].len + arrival[i].more
               /\ ReceivedRecord(t, ts, arrival)[i].val =
                    (IF arrival[i].how = "unknown" /\ ExportedRecord(t, ts)[i].type \in {4, 60}
                     THEN 47 ELSE ExportedRecord(t, ts)[i].val)
    BY <1>2, <1>4 DEF Arrived
  <1> QED BY <1>3, <1>4, <1>5, Zenon DEF ArrivesAs

\* A damaged field cannot be read, and a time that makes the process panic is damaged.
LEMMA DamageIsFound ==
  ASSUME NEW t \in Traffic, NEW ts, NEW arrival \in Arrivals, NEW i \in 1..8
  PROVE  LET r == ReceivedRecord(t, ts, arrival) IN
         /\ DamagedField(arrival[i], i) => Unparsable(r[i]) \/ Panics(r[i])
         /\ Panics(r[i]) => DamagedField(arrival[i], i)
  <1> DEFINE r == ReceivedRecord(t, ts, arrival)
             e == ExportedRecord(t, ts)
  <1>1. /\ arrival[i].more \in Int
        /\ r[i].type = IF arrival[i].how = "another" THEN 0 ELSE e[i].type
        /\ r[i].len = e[i].len + arrival[i].more
        /\ r[i].val = IF arrival[i].how = "unknown" /\ e[i].type \in {4, 60} THEN 47 ELSE e[i].val
    <2>1. ArrivesAs(r, e, arrival)
      BY ReceivedFields
    <2> HIDE DEF r, e
    <2> QED BY <2>1, Zenon DEF ArrivesAs
  <1>2. /\ e[1].type = 60 /\ e[1].len = 1 /\ e[2].type = 4 /\ e[2].len = 1
        /\ \/ e[3].type = 27 /\ e[3].len = 16 /\ e[4].type = 28 /\ e[4].len = 16
           \/ e[3].type = 8 /\ e[3].len = 4 /\ e[4].type = 12 /\ e[4].len = 4
        /\ e[5].type = 7 /\ e[5].len = 2 /\ e[6].type = 11 /\ e[6].len = 2
        /\ e[7].type = 158 /\ e[7].len = 4 /\ e[8].type = 159 /\ e[8].len = 4
    BY FieldTypes
  <1> HIDE DEF r, e
  <1>3. i \in {1, 2, 3, 4, 5, 6, 7, 8}
    OBVIOUS
  <1>4. \/ /\ e[i].type \in DOMAIN LeastLength /\ e[i].len = LeastLength[e[i].type]
           /\ e[i].type \notin {158, 159}
        \/ e[i].type \in {158, 159} /\ e[i].len = 4
    <2>1. CASE i \in {1, 2}
      BY <1>2, <2>1, FieldLimits
    <2>2. CASE i = 3
      BY <1>2, <2>2, FieldLimits
    <2>3. CASE i = 4
      BY <1>2, <2>3, FieldLimits
    <2>4. CASE i \in {5, 6}
      BY <1>2, <2>4, FieldLimits
    <2>5. CASE i \in {7, 8}
      BY <1>2, <2>5
    <2> QED BY <1>3, <2>1, <2>2, <2>3, <2>4, <2>5
  <1>5. e[i].len \in Nat
    BY <1>2, <1>3
  <1>6. ASSUME DamagedField(arrival[i], i) PROVE Unparsable(r[i]) \/ Panics(r[i])
    <2>1. r[i].type = e[i].type
      BY <1>1, <1>6 DEF DamagedField
    <2>2. CASE arrival[i].more < 0
      <3>1. r[i].len < e[i].len
        BY <1>1, <1>5, <2>2
      <3> QED BY <1>4, <2>1, <3>1 DEF Unparsable, Panics
    <2>3. CASE ~(arrival[i].more < 0)
      <3>1. arrival[i].how = "unknown" /\ i \in {1, 2}
        BY <1>3, <1>6, <2>3 DEF DamagedField
      <3>2. e[i].type \in {4, 60} /\ r[i].val = 47
        BY <1>1, <1>2, <3>1
      <3> QED BY <2>1, <3>2, FieldLimits DEF Unparsable
    <2> QED BY <2>2, <2>3
  <1>7. ASSUME Panics(r[i]) PROVE DamagedField(arrival[i], i)
    <2>1. arrival[i].how # "another" /\ e[i].type \in {158, 159}
      BY <1>1, <1>7 DEF Panics
    <2>2. e[i].len = 4 /\ r[i].len < 4
      BY <1>1, <1>4, <1>7, <2>1 DEF Panics
    <2>3. arrival[i].more < 0
      BY <1>1, <2>2
    <2> QED BY <2>1, <2>3 DEF DamagedField
  <1> QED BY <1>6, <1>7 DEF r

\* No field of a whole record is refused.
LEMMA WholeFieldsParse ==
  ASSUME NEW t \in Traffic, NEW ts, NEW arrival \in Arrivals, NEW i \in 1..8,
         arrival[i].how = "itself", arrival[i].more = 0
  PROVE  LET r == ReceivedRecord(t, ts, arrival) IN ~Unparsable(r[i]) /\ ~Panics(r[i])
  <1> DEFINE r == ReceivedRecord(t, ts, arrival)
             e == ExportedRecord(t, ts)
  <1>1. r[i].type = e[i].type /\ r[i].len = e[i].len + 0 /\ r[i].val = e[i].val
    <2>1. ArrivesAs(r, e, arrival)
      BY ReceivedFields
    <2> HIDE DEF r, e
    <2> QED BY <2>1 DEF ArrivesAs
  <1>2. /\ e[1].type = 60 /\ e[1].len = 1 /\ e[1].val \in {4, 6}
        /\ e[2].type = 4 /\ e[2].len = 1 /\ e[2].val = ProtocolNumber[t.proto]
        /\ \/ e[3].type = 27 /\ e[3].len = 16 /\ e[4].type = 28 /\ e[4].len = 16
           \/ e[3].type = 8 /\ e[3].len = 4 /\ e[4].type = 12 /\ e[4].len = 4
        /\ e[5].type = 7 /\ e[5].len = 2 /\ e[6].type = 11 /\ e[6].len = 2
        /\ e[7].type = 158 /\ e[7].len = 4 /\ e[8].type = 159 /\ e[8].len = 4
    BY FieldTypes
  <1>3. ProtocolNumber[t.proto] \in DOMAIN ParseProtocol
    <2>1. t.proto \in Protocols
      BY DecodingAssumption DEF DecodingAssumption
    <2> QED BY <2>1, ProtocolRoundTrip
  <1> HIDE DEF r, e
  <1>4. i \in {1, 2, 3, 4, 5, 6, 7, 8}
    OBVIOUS
  <1>5. CASE i = 1
    BY <1>1, <1>2, <1>5, FieldLimits DEF Unparsable, Panics, r
  <1>6. CASE i = 2
    BY <1>1, <1>2, <1>3, <1>6, FieldLimits DEF Unparsable, Panics, r
  <1>7. CASE i \in {3, 4}
    <2>1. /\ e[i].type = 27 \/ e[i].type = 28 \/ e[i].type = 8 \/ e[i].type = 12
          /\ e[i].type = 27 \/ e[i].type = 28 => e[i].len = 16
          /\ e[i].type = 8 \/ e[i].type = 12 => e[i].len = 4
      BY <1>2, <1>7
    <2> QED BY <1>1, <2>1, FieldLimits DEF Unparsable, Panics, r
  <1>8. CASE i \in {5, 6}
    BY <1>1, <1>2, <1>8, FieldLimits DEF Unparsable, Panics, r
  <1>9. CASE i \in {7, 8}
    BY <1>1, <1>2, <1>9, FieldLimits DEF Unparsable, Panics, r
  <1> QED BY <1>4, <1>5, <1>6, <1>7, <1>8, <1>9

\* The one field of its kind is the last one; without any there is the default.
LEMMA PartRead ==
  ASSUME NEW t \in Traffic, NEW ts, NEW arrival \in Arrivals, NEW k \in 1..8, NEW types, NEW otherwise,
         0 \notin types, ExportedRecord(t, ts)[k].type \in types,
         \A j \in 1..8 : ExportedRecord(t, ts)[j].type \in types => j = k
  PROVE  LastOf(ReceivedRecord(t, ts, arrival), types, otherwise) =
           IF arrival[k].how = "another" THEN otherwise ELSE ReceivedRecord(t, ts, arrival)[k].val
  <1> DEFINE r == ReceivedRecord(t, ts, arrival)
             e == ExportedRecord(t, ts)
  <1>1. /\ DOMAIN r = 1..8
        /\ \A j \in 1..8 : r[j].type = IF arrival[j].how = "another" THEN 0 ELSE e[j].type
    <2>1. ArrivesAs(r, e, arrival)
      BY ReceivedFields
    <2> HIDE DEF r, e
    <2> QED BY <2>1, Zenon DEF ArrivesAs
  <1> HIDE DEF r, e
  <1>2. \A j \in 1..8 : r[j].type \in types => j = k
    BY <1>1 DEF e
  <1>3. CASE arrival[k].how = "another"
    <2>1. \A j \in DOMAIN r : r[j].type \notin types
      BY <1>1, <1>2, <1>3
    <2>2. LastOf(r, types, otherwise) = otherwise
      BY <2>1, NoField
    <2> QED BY <1>3, <2>2 DEF r
  <1>4. CASE arrival[k].how # "another"
    <2>1. r[k].type \in types /\ k \in DOMAIN r /\ DOMAIN r \subseteq Nat
      BY <1>1, <1>4 DEF e
    <2>2. LastOf(r, types, otherwise) = r[k].val
      BY <1>1, <1>2, <2>1, OneField
    <2> QED BY <1>4, <2>2 DEF r
  <1> QED BY <1>3, <1>4

\* What a record leaves of whose fields none is refused.
LEMMA PartsRead ==
  ASSUME NEW t \in Traffic, NEW ts, NEW arrival \in Arrivals,
         \A i \in 1..8 : ~DamagedField(arrival[i], i)
  PROVE  LET o == Assembled(ReceivedRecord(t, ts, arrival)) IN
         /\ o.src   = IF arrival[3].how = "another" THEN "" ELSE t.src
         /\ o.dst   = IF arrival[4].how = "another" THEN "" ELSE t.dst
         /\ o.sport = IF arrival[5].how = "another" THEN 0 ELSE t.sport
         /\ o.dport = IF arrival[6].how = "another" THEN 0 ELSE t.dport
         /\ o.ts    = IF arrival[7].how = "another" THEN "epoch" ELSE ts
         /\ o.proto = IF arrival[2].how = "another" THEN "" ELSE t.proto
         /\ o.version = IF arrival[1].how = "another" THEN ""
                        ELSE IF isIPv6(t.src) THEN "ipv6" ELSE "ipv4"
  <1> DEFINE r == ReceivedRecord(t, ts, arrival)
             e == ExportedRecord(t, ts)
  <1>1. /\ e[1].type = 60 /\ e[2].type = 4
        /\ \/ e[3].type = 27 /\ e[4].type = 28
           \/ e[3].type = 8 /\ e[4].type = 12
        /\ e[5].type = 7 /\ e[6].type = 11 /\ e[7].type = 158 /\ e[8].type = 159
    BY FieldTypes
  <1>2. /\ e[1].val = (IF isIPv6(t.src) THEN 6 ELSE 4) /\ e[2].val = ProtocolNumber[t.proto]
        /\ e[3].val = t.src /\ e[4].val = t.dst /\ e[5].val = t.sport /\ e[6].val = t.dport
        /\ e[7].val = ts
    BY FieldTypes
  <1>3. \A i \in 1..8 : r[i].val = IF arrival[i].how = "unknown" /\ e[i].type \in {4, 60} THEN 47 ELSE e[i].val
    <2>1. ArrivesAs(r, e, arrival)
      BY ReceivedFields
    <2> HIDE DEF r, e
    <2> QED BY <2>1, Zenon DEF ArrivesAs
  <1>4. \A j \in 1..8 : j \in {1, 2, 3, 4, 5, 6, 7, 8}
    OBVIOUS
  <1> HIDE DEF r, e
  <1>5. LastOf(r, {60}, 0) = IF arrival[1].how = "another" THEN 0 ELSE r[1].val
    <2>1. e[1].type \in {60} /\ \A j \in 1..8 : e[j].type \in {60} => j = 1
      BY <1>1, <1>4
    <2> QED BY <2>1, PartRead DEF r, e
  <1>6. LastOf(r, {4}, 0) = IF arrival[2].how = "another" THEN 0 ELSE r[2].val
    <2>1. e[2].type \in {4} /\ \A j \in 1..8 : e[j].type \in {4} => j = 2
      BY <1>1, <1>4
    <2> QED BY <2>1, PartRead DEF r, e
  <1>7. LastOf(r, {8, 27}, "") = IF arrival[3].how = "another" THEN "" ELSE r[3].val
    <2> SUFFICES ASSUME NEW T, T = {8, 27}, NEW none
                 PROVE  LastOf(r, T, none) = IF arrival[3].how = "another" THEN none ELSE r[3].val
      OBVIOUS
    <2>1. /\ e[3].type \in T /\ 0 \notin T
          /\ \A j \in {1, 2, 3, 4, 5, 6, 7, 8} : e[j].type \in T => j = 3
      BY <1>1
    <2>2. 3 \in 1..8 /\ \A j \in 1..8 : e[j].type \in T => j = 3
      BY <1>4, <2>1
    <2> QED BY <2>1, <2>2, PartRead DEF r, e
  <1>8. LastOf(r, {12, 28}, "") = IF arrival[4].how = "another" THEN "" ELSE r[4].val
    <2> SUFFICES ASSUME NEW T, T = {12, 28}, NEW none
                 PROVE  LastOf(r, T, none) = IF arrival[4].how = "another" THEN none ELSE r[4].val
      OBVIOUS
    <2>1. /\ e[4].type \in T /\ 0 \notin T
          /\ \A j \in {1, 2, 3, 4, 5, 6, 7, 8} : e[j].type \in T => j = 4
      BY <1>1
    <2>2. 4 \in 1..8 /\ \A j \in 1..8 : e[j].type \in T => j = 4
      BY <1>4, <2>1
    <2> QED BY <2>1, <2>2, PartRead DEF r, e
  <1>9. LastOf(r, {7}, 0) = IF arrival[5].how = "another" THEN 0 ELSE r[5].val
    <2>1. e[5].type \in {7} /\ \A j \in 1..8 : e[j].type \in {7} => j = 5
      BY <1>1, <1>4
    <2> QED BY <2>1, PartRead DEF r, e
  <1>10. LastOf(r, {11}, 0) = IF arrival[6].how = "another" THEN 0 ELSE r[6].val
    <2>1. e[6].type \in {11} /\ \A j \in 1..8 : e[j].type \in {11} => j = 6
      BY <1>1, <1>4
    <2> QED BY <2>1, PartRead DEF r, e
  <1>11. LastOf(r, {158}, "epoch") = IF arrival[7].how = "another" THEN "epoch" ELSE r[7].val
    <2>1. e[7].type \in {158} /\ \A j \in 1..8 : e[j].type \in {158} => j = 7
      BY <1>1, <1>4
    <2> QED BY <2>1, PartRead DEF r, e
  <1>12. /\ r[3].val = t.src /\ r[4].val = t.dst /\ r[5].val = t.sport /\ r[6].val = t.dport
         /\ r[7].val = ts
    BY <1>1, <1>2, <1>3
  <1>13. /\ arrival[1].how # "another" => r[1].val = IF isIPv6(t.src) THEN 6 ELSE 4
         /\ arrival[2].how # "another" => r[2].val = ProtocolNumber[t.proto]
    <2>1. ~DamagedField(arrival[1], 1) /\ ~DamagedField(arrival[2], 2)
      OBVIOUS
    <2> QED BY <1>2, <1>3, <2>1 DEF DamagedField
  <1> DEFINE o == Assembled(r)
  <1>14. /\ o.src = LastOf(r, {8, 27}, "") /\ o.dst = LastOf(r, {12, 28}, "")
         /\ o.sport = LastOf(r, {7}, 0) /\ o.dport = LastOf(r, {11}, 0)
         /\ o.ts = LastOf(r, {158}, "epoch")
         /\ o.proto = (IF LastOf(r, {4}, 0) = 0 THEN "" ELSE ParseProtocol[LastOf(r, {4}, 0)])
         /\ o.version = (IF LastOf(r, {60}, 0) = 0 THEN "" ELSE ParseIPVersion[LastOf(r, {60}, 0)])
    BY DEF Assembled
  <1> HIDE DEF o
  <1>15. o.proto = IF arrival[2].how = "another" THEN "" ELSE t.proto
    <2>1. t.proto \in Protocols
      BY DecodingAssumption DEF DecodingAssumption
    <2>2. /\ ProtocolNumber[t.proto] # 0 /\ ParseProtocol[ProtocolNumber[t.proto]] = t.proto
      BY <2>1, ProtocolRoundTrip
    <2>3. CASE arrival[2].how = "another"
      <3>1. LastOf(r, {4}, 0) = 0
        BY <1>6, <2>3, Zenon
      <3> QED BY <1>14, <2>3, <3>1, Zenon
    <2>4. CASE arrival[2].how # "another"
      <3>1. LastOf(r, {4}, 0) = ProtocolNumber[t.proto]
        BY <1>6, <1>13, <2>4, Zenon
      <3> QED BY <1>14, <2>2, <2>4, <3>1, Zenon
    <2> QED BY <2>3, <2>4
  <1>16. o.version = IF arrival[1].how = "another" THEN "" ELSE IF isIPv6(t.src) THEN "ipv6" ELSE "ipv4"
    <2>1. CASE arrival[1].how = "another"
      <3>1. LastOf(r, {60}, 0) = 0
        BY <1>5, <2>1, Zenon
      <3> QED BY <1>14, <2>1, <3>1, Zenon
    <2>2. CASE arrival[1].how # "another"
      <3> DEFINE n == IF isIPv6(t.src) THEN 6 ELSE 4
      <3>1. LastOf(r, {60}, 0) = n
        BY <1>5, <1>13, <2>2, Zenon
      <3>2. n # 0 /\ ParseIPVersion[n] = IF isIPv6(t.src) THEN "ipv6" ELSE "ipv4"
        BY FieldLimits
      <3> HIDE DEF n
      <3> QED BY <1>14, <2>2, <3>1, <3>2, Zenon
    <2> QED BY <2>1, <2>2
  <1> QED BY <1>7, <1>8, <1>9, <1>10, <1>11, <1>12, <1>14, <1>15, <1>16 DEF o, r

\* The part of each field, and that it is missing exactly if another came in its place.
LEMMA PartsMissing ==
  ASSUME NEW arrival
  PROVE  LET missing == MissingParts(arrival) IN
         /\ "src" \in missing <=> arrival[3].how = "another"
         /\ "dst" \in missing <=> arrival[4].how = "another"
         /\ "sport" \in missing <=> arrival[5].how = "another"
         /\ "dport" \in missing <=> arrival[6].how = "another"
         /\ "ts" \in missing <=> arrival[7].how = "another"
  <1>1. /\ Parts[1] = "version" /\ Parts[2] = "proto" /\ Parts[3] = "src" /\ Parts[4] = "dst"
        /\ Parts[5] = "sport" /\ Parts[6] = "dport" /\ Parts[7] = "ts" /\ Parts[8] = "end"
    BY DEF Parts
  <1>2. \A j \in 1..8 : j \in {1, 2, 3, 4, 5, 6, 7, 8}
    OBVIOUS
  <1>3. \A p : p \in MissingParts(arrival) <=> \E j \in 1..8 : arrival[j].how = "another" /\ p = Parts[j]
    BY DEF MissingParts
  <1>4. ASSUME NEW k \in 1..8, \A j \in 1..8 : Parts[j] = Parts[k] => j = k
        PROVE  Parts[k] \in MissingParts(arrival) <=> arrival[k].how = "another"
    BY <1>3, <1>4
  <1>5. /\ \A j \in 1..8 : Parts[j] = Parts[3] => j = 3
        /\ \A j \in 1..8 : Parts[j] = Parts[4] => j = 4
        /\ \A j \in 1..8 : Parts[j] = Parts[5] => j = 5
        /\ \A j \in 1..8 : Parts[j] = Parts[6] => j = 6
        /\ \A j \in 1..8 : Parts[j] = Parts[7] => j = 7
    BY <1>1, <1>2
  <1>6. /\ Parts[3] \in MissingParts(arrival) <=> arrival[3].how = "another"
        /\ Parts[4] \in MissingParts(arrival) <=> arrival[4].how = "another"
        /\ Parts[5] \in MissingParts(arrival) <=> arrival[5].how = "another"
        /\ Parts[6] \in MissingParts(arrival) <=> arrival[6].how = "another"
        /\ Parts[7] \in MissingParts(arrival) <=> arrival[7].how = "another"
    <2>1. 3 \in 1..8 /\ 4 \in 1..8 /\ 5 \in 1..8 /\ 6 \in 1..8 /\ 7 \in 1..8
      OBVIOUS
    <2> QED BY <1>4, <1>5, <2>1
  <1> QED BY <1>1, <1>6

\* A whole record is decoded unless the traffic is SCTP; what is decoded is the traffic's.
LEMMA ReadDataRecord ==
  ASSUME NEW t \in Traffic, NEW ts, NEW arrival \in Arrivals
  PROVE  LET flow == OvnkFlow(ReceivedRecord(t, ts, arrival)) IN
         /\ Condition(arrival, t) = "whole" => flow # << >>
         /\ flow # << >> => IsTraffic(flow[1], t, ts, MissingParts(arrival)) /\ t.proto # "sctp"
  <1> DEFINE r == ReceivedRecord(t, ts, arrival)
             o == Assembled(r)
             version == IF isIPv6(t.src) THEN "ipv6" ELSE "ipv4"
             Unread(i) == Unparsable(r[i]) \/ Panics(r[i])
             decoded == FiveTupleFlow(CreateLayer3Message(o.src, o.dst, version),
                                      CreateLayer4Message(t.proto, o.sport, o.dport, version), o.ts)
  <1>1. DOMAIN r = 1..8 /\ DOMAIN arrival = 1..8
    <2>1. ArrivesAs(r, ExportedRecord(t, ts), arrival)
      BY ReceivedFields
    <2> HIDE DEF r
    <2> QED BY <2>1 DEF ArrivesAs
  <1>2. \A i \in 1..8 : DamagedField(arrival[i], i) => Unread(i)
    BY DamageIsFound
  <1>3. CASE \E i \in 1..8 : Unread(i)
    <2>1. OvnkFlow(r) = << >>
      <3> HIDE DEF r
      <3>1. ProcessDataRecord(r).flow = << >>
        BY <1>1, <1>3 DEF ProcessDataRecord
      <3> QED BY <3>1 DEF OvnkFlow
    <2>2. ~WholeRecord(arrival)
      <3>1. PICK i \in 1..8 : Unread(i)
        BY <1>3
      <3>2. SUFFICES ASSUME WholeRecord(arrival) PROVE FALSE
        OBVIOUS
      <3>3. arrival[i].how = "itself" /\ arrival[i].more = 0
        BY <1>1, <3>2 DEF WholeRecord
      <3>4. ~Unread(i)
        BY <3>3, WholeFieldsParse
      <3> QED BY <3>1, <3>4
    <2> QED BY <2>1, <2>2 DEF Condition
  <1>4. CASE \A i \in 1..8 : ~Unread(i)
    <2>1. /\ o.src   = IF arrival[3].how = "another" THEN "" ELSE t.src
          /\ o.dst   = IF arrival[4].how = "another" THEN "" ELSE t.dst
          /\ o.sport = IF arrival[5].how = "another" THEN 0 ELSE t.sport
          /\ o.dport = IF arrival[6].how = "another" THEN 0 ELSE t.dport
          /\ o.ts    = IF arrival[7].how = "another" THEN "epoch" ELSE ts
          /\ o.proto = IF arrival[2].how = "another" THEN "" ELSE t.proto
          /\ o.version = IF arrival[1].how = "another" THEN "" ELSE version
      <3>1. \A i \in 1..8 : ~DamagedField(arrival[i], i)
        BY <1>2, <1>4, Zenon
      <3> QED BY <3>1, PartsRead, Zenon
    <2>2. AsTold(o.src, o.dst, o.sport, o.dport, o.ts, t, ts, MissingParts(arrival))
      <3> HIDE DEF o
      <3> QED BY <2>1, PartsMissing DEF AsTold
    <2>3. /\ decoded = << >> <=> t.proto = "sctp"
          /\ decoded # << >> => IsTraffic(decoded[1], t, ts, MissingParts(arrival))
      <3> HIDE DEF o
      <3> QED BY <2>2, MessagesAreTraffic
    <2>4. OvnkFlow(r) = FiveTupleFlow(CreateLayer3Message(o.src, o.dst, o.version),
                                      CreateLayer4Message(o.proto, o.sport, o.dport, o.version), o.ts)
      <3> HIDE DEF r
      <3>1. ProcessDataRecord(r).flow = <<o>>
        BY <1>1, <1>4 DEF ProcessDataRecord
      <3> HIDE DEF o
      <3>2. ProcessDataRecord(r).flow # << >> /\ ProcessDataRecord(r).flow[1] = o
        BY <3>1
      <3> QED BY <3>2 DEF OvnkFlow
    <2>5. CASE arrival[1].how = "another" \/ arrival[2].how = "another"
      <3>1. ~WholeRecord(arrival)
        <4>1. 1 \in 1..8 /\ 2 \in 1..8
          OBVIOUS
        <4> QED BY <1>1, <2>5, <4>1 DEF WholeRecord
      <3>2. OvnkFlow(r) = << >>
        <4> HIDE DEF o, r
        <4>1. CASE o.version = ""
          <5>1. CreateLayer3Message(o.src, o.dst, o.version) = << >>
            BY <4>1 DEF CreateLayer3Message
          <5> QED BY <2>4, <5>1 DEF FiveTupleFlow
        <4>2. CASE o.proto = ""
          <5>1. CreateLayer4Message(o.proto, o.sport, o.dport, o.version) = << >>
            BY <4>2 DEF CreateLayer4Message
          <5> QED BY <2>4, <5>1 DEF FiveTupleFlow
        <4> QED BY <2>1, <2>5, <4>1, <4>2
      <3> QED BY <3>1, <3>2 DEF Condition
    <2>6. CASE ~(arrival[1].how = "another" \/ arrival[2].how = "another")
      <3>1. OvnkFlow(r) = decoded
        <4> HIDE DEF o, r, version
        <4>1. o.version = version /\ o.proto = t.proto
          BY <2>1, <2>6
        <4> QED BY <2>4, <4>1
      <3> HIDE DEF decoded, r
      <3>2. /\ Condition(arrival, t) = "whole" => OvnkFlow(r) # << >>
            /\ OvnkFlow(r) # << >> => IsTraffic(OvnkFlow(r)[1], t, ts, MissingParts(arrival)) /\ t.proto # "sctp"
        BY <2>3, <3>1 DEF Condition
      <3> QED BY <3>2 DEF r
    <2> QED BY <2>5, <2>6
  <1> QED BY <1>3, <1>4

\* A record with a damaged field, or of SCTP, makes no flow, and no other ends the process.
LEMMA UnusableDataRecord ==
  ASSUME NEW t \in Traffic, NEW ts, NEW arrival \in Arrivals
  PROVE  LET r == ReceivedRecord(t, ts, arrival) IN
         /\ Condition(arrival, t) = "unusable" => OvnkFlow(r) = << >>
         /\ ProcessDataRecord(r).outcome = "panic" => Condition(arrival, t) = "unusable"
  <1> DEFINE r == ReceivedRecord(t, ts, arrival)
  <1>1. DOMAIN r = 1..8 /\ DOMAIN arrival = 1..8
    <2>1. ArrivesAs(r, ExportedRecord(t, ts), arrival)
      BY ReceivedFields
    <2> HIDE DEF r
    <2> QED BY <2>1 DEF ArrivesAs
  <1>2. \A i \in 1..8 : /\ DamagedField(arrival[i], i) => Unparsable(r[i]) \/ Panics(r[i])
                        /\ Panics(r[i]) => DamagedField(arrival[i], i)
    BY DamageIsFound
  <1>3. ASSUME Condition(arrival, t) = "unusable" PROVE OvnkFlow(r) = << >>
    <2>1. CASE t.proto = "sctp"
      BY <2>1, ReadDataRecord
    <2>2. CASE \E i \in DOMAIN arrival : DamagedField(arrival[i], i)
      <3> HIDE DEF r
      <3>1. \E i \in DOMAIN r : Unparsable(r[i]) \/ Panics(r[i])
        BY <1>1, <1>2, <2>2
      <3>2. ProcessDataRecord(r).flow = << >>
        BY <3>1 DEF ProcessDataRecord
      <3> QED BY <3>2 DEF OvnkFlow
    <2> QED BY <1>3, <2>1, <2>2 DEF Condition
  <1>4. ASSUME ProcessDataRecord(r).outcome = "panic" PROVE Condition(arrival, t) = "unusable"
    <2>1. PICK i \in 1..8 : DamagedField(arrival[i], i)
      <3> HIDE DEF r
      <3>1. \E i \in DOMAIN r : Panics(r[i])
        BY <1>4 DEF ProcessDataRecord
      <3> QED BY <1>1, <1>2, <3>1
    <2>2. arrival[i] # [how |-> "itself", more |-> 0]
      BY <2>1 DEF DamagedField
    <2>3. ~WholeRecord(arrival)
      BY <1>1, <2>2 DEF WholeRecord
    <2> QED BY <1>1, <2>1, <2>3 DEF Condition
  <1> QED BY <1>3, <1>4


--------------------------------------------------------------------------------
(* What each action of the collectors keeps. *)

\* One record that was decoded rightly.
Rightly(record) ==
    /\ record.condition = "whole" => record.flow # << >>
    /\ record.condition = "unusable" => record.flow = << >>
    /\ record.flow # << >> => IsTraffic(record.flow[1], record.tuple, record.ts, record.missing)
    /\ record.outcome = "panic" => record.condition = "unusable"

\* The invariant speaks of the last record only.
LEMMA LastIsRight ==
  ASSUME NEW record, Rightly(record), last' = <<record>>
  PROVE  FlowIsTraffic'
  <1>1. last'[1] = record
    OBVIOUS
  <1>2. Rightly(last'[1])
    BY <1>1, Zenon
  <1> QED BY <1>2 DEF Rightly, FlowIsTraffic

\* A line or a Hubble flow is decoded rightly if it is decoded exactly when it is whole.
LEMMA ReceivedRightly ==
  ASSUME NEW t, NEW ts, NEW whole \in BOOLEAN, NEW flow,
         flow # << >> <=> whole,
         flow # << >> => IsTraffic(flow[1], t, ts, {})
  PROVE  Rightly(Received(t, ts, whole, flow))
  <1> DEFINE r == Received(t, ts, whole, flow)
  <1>1. /\ r.tuple = t /\ r.ts = ts /\ r.flow = flow /\ r.missing = {}
        /\ r.condition = IF whole THEN "whole" ELSE "unusable"
        /\ r.outcome = IF flow = << >> THEN "error" ELSE "ok"
    BY DEF Received
  <1> HIDE DEF r
  <1>2. Rightly(r)
    BY <1>1 DEF Rightly
  <1> QED BY <1>2 DEF r

\* ReceiveLogLine leaves a flow that is right.
LEMMA LogLineStep ==
  ASSUME ReceiveLogLine
  PROVE  FlowIsTraffic'
  <1>0. PICK t \in Traffic, old \in BOOLEAN, ts \in Times \cup {"invalid"} :
          \E proto \in AgentNames(t.proto) :
             LET line == AgentLine([t EXCEPT !.proto = proto], old, ts)
             IN  \E received \in {line} \cup DamagedLines(line) :
                   Decoded(Received(t, ts, received = line /\ ts \in Times /\ t.proto # "sctp",
                                    ParseAWSVPCCNIFlowLog(received)))
    BY DEF ReceiveLogLine
  <1>1. PICK proto \in AgentNames(t.proto) :
             LET line == AgentLine([t EXCEPT !.proto = proto], old, ts)
             IN  \E received \in {line} \cup DamagedLines(line) :
                   Decoded(Received(t, ts, received = line /\ ts \in Times /\ t.proto # "sctp",
                                    ParseAWSVPCCNIFlowLog(received)))
    BY <1>0
  <1> DEFINE u == [t EXCEPT !.proto = proto]
             line == AgentLine(u, old, ts)
  <1>2. PICK received \in {line} \cup DamagedLines(line) :
          Decoded(Received(t, ts, received = line /\ ts \in Times /\ t.proto # "sctp",
                           ParseAWSVPCCNIFlowLog(received)))
    BY <1>1
  <1> DEFINE whole == received = line /\ ts \in Times /\ t.proto # "sctp"
             flow == ParseAWSVPCCNIFlowLog(received)
             record == Received(t, ts, whole, flow)
  <1>3. (flow # << >> <=> whole) /\ (flow # << >> => IsTraffic(flow[1], t, ts, {}))
    <2>1. CASE received = line
      <3>1. /\ ParseAWSVPCCNIFlowLog(line) # << >> <=> (ts \in Times /\ t.proto # "sctp")
            /\ ParseAWSVPCCNIFlowLog(line) # << >> => IsTraffic(ParseAWSVPCCNIFlowLog(line)[1], t, ts, {})
        BY WholeLogLine
      <3> HIDE DEF line
      <3> QED BY <2>1, <3>1
    <2>2. CASE received \in DamagedLines(line)
      <3>1. "src" \in DOMAIN u /\ u.src # ""
        BY DecodingAssumption DEF DecodingAssumption
      <3>2. received # line /\ flow = << >>
        <4> HIDE DEF u
        <4> QED BY <2>2, <3>1, DamagedLogLine
      <3> HIDE DEF line, flow
      <3> QED BY <3>2
    <2> QED BY <2>1, <2>2
  <1>4. whole \in BOOLEAN
    OBVIOUS
  <1> HIDE DEF whole, flow
  <1>5. Rightly(record)
    BY <1>3, <1>4, ReceivedRightly
  <1> QED BY <1>2, <1>5, LastIsRight DEF Decoded, whole, flow

\* ReceiveDataRecord does.
LEMMA DataRecordStep ==
  ASSUME ReceiveDataRecord
  PROVE  FlowIsTraffic'
  <1>1. PICK t \in Traffic, ts \in Times, arrival \in Arrivals :
          LET received == [i \in 1..8 |-> Arrived(ExportedRecord(t, ts)[i], arrival[i])]
          IN  Decoded([tuple     |-> t, ts |-> ts, condition |-> Condition(arrival, t),
                       missing   |-> {Parts[i] : i \in {j \in 1..8 : arrival[j].how = "another"}},
                       flow      |-> OvnkFlow(received),
                       outcome   |-> ProcessDataRecord(received).outcome])
    BY DEF ReceiveDataRecord
  <1> DEFINE r == ReceivedRecord(t, ts, arrival)
             flow == OvnkFlow(r)
             outcome == ProcessDataRecord(r).outcome
             condition == Condition(arrival, t)
             missing == MissingParts(arrival)
             record == [tuple |-> t, ts |-> ts, condition |-> condition, missing |-> missing,
                        flow |-> flow, outcome |-> outcome]
  <1>2. last' = <<record>>
    BY <1>1 DEF Decoded, ReceivedRecord, MissingParts
  <1>3. /\ condition = "whole" => flow # << >>
        /\ flow # << >> => IsTraffic(flow[1], t, ts, missing)
    BY ReadDataRecord
  <1>4. /\ condition = "unusable" => flow = << >>
        /\ outcome = "panic" => condition = "unusable"
    BY UnusableDataRecord
  <1> HIDE DEF condition, missing, flow, outcome
  <1>5. Rightly(record)
    BY <1>3, <1>4 DEF Rightly
  <1> QED BY <1>2, <1>5, LastIsRight

\* ReceiveHubbleFlow does, and caches it under the key of its connection.
LEMMA HubbleStep ==
  ASSUME ReceiveHubbleFlow, CachedUnderKeys
  PROVE  FlowIsTraffic' /\ CachedUnderKeys'
  <1>1. PICK c \in Connections, reply \in BOOLEAN, known \in BOOLEAN, ts \in Times :
          LET h == HubbleFlow(c, reply, known, ts)
          IN  \E received \in {h} \cup DamagedFlows(h) :
                LET flow == ConvertCiliumFlow(received)
                IN  /\ Decoded(Received(ConnectionTuple(c, reply), ts, received = h, flow))
                    /\ cached' = cached \cup
                          {[key |-> CiliumFlowKey(flow[i]), connection |-> Identity(c)] :
                              i \in {j \in DOMAIN flow : known}}
    BY DEF ReceiveHubbleFlow
  <1> DEFINE h == HubbleFlow(c, reply, known, ts)
             t == ConnectionTuple(c, reply)
  <1>2. PICK received \in {h} \cup DamagedFlows(h) :
          /\ Decoded(Received(t, ts, received = h, ConvertCiliumFlow(received)))
          /\ cached' = cached \cup
                {[key |-> CiliumFlowKey(ConvertCiliumFlow(received)[i]), connection |-> Identity(c)] :
                    i \in {j \in DOMAIN ConvertCiliumFlow(received) : known}}
    BY <1>1
  <1> DEFINE flow == ConvertCiliumFlow(received)
             record == Received(t, ts, received = h, flow)
  <1>3. CASE received = h
    <2> DEFINE f == [layer3  |-> [source |-> t.src, destination |-> t.dst,
                                  version |-> IF isIPv6(t.src) THEN "ipv6" ELSE "ipv4"],
                     layer4  |-> <<Layer4Of(t)>>, ts |-> ts,
                     isReply |-> known /\ reply, uids |-> Oriented(c.uids, reply)]
    <2>1. ConvertCiliumFlow(h) = <<f>>
      BY WholeHubbleFlow
    <2>2. f.ts = ts /\ f.layer4 = <<Layer4Of(t)>>
          /\ f.layer3 = [source |-> t.src, destination |-> t.dst,
                         version |-> IF isIPv6(t.src) THEN "ipv6" ELSE "ipv4"]
      OBVIOUS
    <2> HIDE DEF f, h, t
    <2>3. IsTraffic(f, t, ts, {})
      <3>1. AsTold(t.src, t.dst, t.sport, t.dport, f.ts, t, ts, {})
        BY <2>2 DEF AsTold
      <3> QED BY <2>2, <3>1, LayersAreTraffic DEF Layer4Of
    <2>4. flow = <<f>>
      BY <1>3, <2>1
    <2> HIDE DEF flow
    <2>5. flow # << >> /\ flow[1] = f /\ DOMAIN flow = {1}
      BY <2>4
    <2>6. Rightly(record)
      BY <1>3, <2>3, <2>5, ReceivedRightly
    <2>7. FlowIsTraffic'
      BY <1>2, <2>6, LastIsRight DEF flow, Decoded
    <2>8. ASSUME NEW e \in cached'
          PROVE  \E d \in Connections : e = [key |-> KeyOf(d), connection |-> Identity(d)]
      <3>1. CASE e \in cached
        BY <3>1 DEF CachedUnderKeys
      <3>2. CASE e \notin cached
        <4>1. known /\ \E i \in DOMAIN flow :
                 e = [key |-> CiliumFlowKey(flow[i]), connection |-> Identity(c)]
          BY <1>2, <3>2 DEF flow
        <4>2. e = [key |-> CiliumFlowKey(flow[1]), connection |-> Identity(c)]
          BY <2>5, <4>1
        <4>3. known = TRUE
          BY <4>1
        <4>4. CiliumFlowKey(ConvertCiliumFlow(HubbleFlow(c, reply, TRUE, ts))[1]) = KeyOf(c)
          BY BothDirectionsOneKey
        <4>5. CiliumFlowKey(flow[1]) = KeyOf(c)
          BY <1>3, <4>3, <4>4 DEF flow, h
        <4> QED BY <4>2, <4>5
      <3> QED BY <3>1, <3>2
    <2> QED BY <2>7, <2>8 DEF CachedUnderKeys
  <1>4. CASE received \in DamagedFlows(h)
    <2>1. received # h /\ flow = << >>
      BY <1>4, DamagedHubbleFlow
    <2> HIDE DEF h, t
    <2>2. cached' = cached
      <3>1. DOMAIN flow = {}
        BY <2>1, EmptyField, Zenon
      <3> HIDE DEF flow
      <3> QED BY <1>2, <3>1 DEF flow
    <2> HIDE DEF flow
    <2>3. Rightly(record)
      BY <2>1, ReceivedRightly
    <2>4. FlowIsTraffic'
      BY <1>2, <2>3, LastIsRight DEF flow, Decoded
    <2> QED BY <2>2, <2>4 DEF CachedUnderKeys
  <1> QED BY <1>3, <1>4

\* So does every step.
LEMMA DecodingStep ==
  ASSUME FlowIsTraffic, CachedUnderKeys, [DecodingNext]_recordVars
  PROVE  FlowIsTraffic' /\ CachedUnderKeys'
  <1>1. CASE ReceiveLogLine
    <2>1. cached' = cached
      BY <1>1 DEF ReceiveLogLine
    <2> QED BY <1>1, <2>1, LogLineStep DEF CachedUnderKeys
  <1>2. CASE ReceiveDataRecord
    <2>1. cached' = cached
      BY <1>2 DEF ReceiveDataRecord
    <2> QED BY <1>2, <2>1, DataRecordStep DEF CachedUnderKeys
  <1>3. CASE ReceiveHubbleFlow
    BY <1>3, HubbleStep
  <1>4. CASE UNCHANGED recordVars
    BY <1>4 DEF recordVars, FlowIsTraffic, CachedUnderKeys
  <1> QED BY <1>1, <1>2, <1>3, <1>4 DEF DecodingNext

\* Before the first record there is nothing to say.
LEMMA DecodingStart ==
  ASSUME DecodingInit
  PROVE  FlowIsTraffic /\ CachedUnderKeys
  BY DEF DecodingInit, FlowIsTraffic, CachedUnderKeys

\* A whole record becomes a flow and a damaged one does not; every part of a flow is the
\* traffic's own or was missing in the record, and only damage ends the process: for all
\* addresses, ports and times, and whatever becomes of the fields (FlowIsTraffic of the
\* conversions run).
THEOREM FlowAlwaysTraffic == DecodingSpec => []FlowIsTraffic
  <1>1. FlowIsTraffic /\ CachedUnderKeys /\ [DecodingNext]_recordVars
          => FlowIsTraffic' /\ CachedUnderKeys'
    BY DecodingStep
  <1>2. DecodingInit => FlowIsTraffic /\ CachedUnderKeys
    BY DecodingStart
  <1> QED BY <1>1, <1>2, PTL DEF DecodingSpec

\* However many Hubble flows are cached, two of them have the same key exactly if they are
\* of one connection, whichever of its ends Hubble saw (KeyIsConnection of the conversions
\* run).
THEOREM KeyAlwaysConnection == DecodingSpec => []KeyIsConnection
  <1>1. FlowIsTraffic /\ CachedUnderKeys /\ [DecodingNext]_recordVars
          => FlowIsTraffic' /\ CachedUnderKeys'
    BY DecodingStep
  <1>2. DecodingInit => FlowIsTraffic /\ CachedUnderKeys
    BY DecodingStart
  <1>3. CachedUnderKeys => KeyIsConnection
    <2> SUFFICES ASSUME CachedUnderKeys, NEW d \in cached, NEW e \in cached
                 PROVE  d.key = e.key <=> d.connection = e.connection
      BY DEF KeyIsConnection
    <2>1. PICK a \in Connections : d = [key |-> KeyOf(a), connection |-> Identity(a)]
      BY DEF CachedUnderKeys
    <2>2. PICK b \in Connections : e = [key |-> KeyOf(b), connection |-> Identity(b)]
      BY DEF CachedUnderKeys
    <2> QED BY <2>1, <2>2, KeyIdentifies
  <1> QED BY <1>1, <1>2, <1>3, PTL DEF DecodingSpec

--------------------------------------------------------------------------------
(* What is reported of policies (ReportedPolicies). *)

\* A function without arguments is the empty sequence.
LEMMA EmptyFunction ==
  ASSUME NEW f, f = [i \in DOMAIN f |-> f[i]]
  PROVE  f = << >> <=> DOMAIN f = {}
  <1>1. << >> = [i \in {} |-> << >>[i]] /\ DOMAIN << >> = {}
    OBVIOUS
  <1>2. DOMAIN f = {} => f = << >>
    BY <1>1
  <1> QED BY <1>1, <1>2

\* A list that is not empty has a first element.
LEMMA ListDomain ==
  ASSUME NEW s, IsList(s)
  PROVE  /\ s = [i \in DOMAIN s |-> s[i]]
         /\ s # << >> => 1 \in DOMAIN s
  <1>1. s \in Seq(Elements(s))
    BY DEF IsList
  <1>2. Len(s) \in Nat /\ DOMAIN s = 1..Len(s) /\ s = [i \in 1..Len(s) |-> s[i]]
    BY <1>1
  <1>3. s # << >> => DOMAIN s # {}
    BY <1>2, EmptyFunction
  <1> QED BY <1>2, <1>3

\* A list and what was made of each of its elements are empty together.
LEMMA ConvertedList ==
  ASSUME NEW s, IsList(s), NEW c, c = [i \in DOMAIN c |-> c[i]], DOMAIN c = DOMAIN s
  PROVE  c = << >> <=> s = << >>
  BY ListDomain, EmptyFunction

\* A converted selector is in the place of the selector and matches the same.
LEMMA SelectorsKept ==
  ASSUME NEW s
  PROVE  LET c == convertLabelSelectorToProto(s) IN
         /\ c = [i \in DOMAIN c |-> c[i]]
         /\ DOMAIN c = DOMAIN s
         /\ \A labels : \A i \in DOMAIN s : SelectorMatches(c[i], labels) <=> SelectorMatches(s[i], labels)
  <1> DEFINE c == convertLabelSelectorToProto(s)
  <1>1. c = [i \in DOMAIN s |-> convertSlimLabelSelector(s[i])]
    BY DEF convertLabelSelectorToProto, convertEndpointSelectors, Each
  <1>2. ASSUME NEW i \in DOMAIN s, NEW labels
        PROVE  SelectorMatches(c[i], labels) <=> SelectorMatches(s[i], labels)
    <2>1. c[i] = [matchLabels      |-> Get(s[i], "matchLabels"),
                  matchExpressions |-> Get(s[i], "matchExpressions")]
      BY <1>1 DEF convertSlimLabelSelector
    <2>2. /\ Get(c[i], "matchLabels") = Get(s[i], "matchLabels")
          /\ Get(c[i], "matchExpressions") = Get(s[i], "matchExpressions")
      BY <2>1 DEF Get
    <2> QED BY <2>2 DEF SelectorMatches
  <1> QED BY <1>1, <1>2

\* So converted selectors select the same, and are unset or empty like the others.
LEMMA SelectionKept ==
  ASSUME NEW s, NEW labels
  PROVE  /\ Selects(convertLabelSelectorToProto(s), labels) <=> Selects(s, labels)
         /\ IsList(s) => (convertLabelSelectorToProto(s) = << >> <=> s = << >>)
         /\ IsList(s) /\ s # << >> =>
              (SelectorMatches(convertLabelSelectorToProto(s)[1], labels) <=> SelectorMatches(s[1], labels))
  <1> DEFINE c == convertLabelSelectorToProto(s)
  <1>1. /\ c = [i \in DOMAIN c |-> c[i]] /\ DOMAIN c = DOMAIN s
        /\ \A i \in DOMAIN s : SelectorMatches(c[i], labels) <=> SelectorMatches(s[i], labels)
    BY SelectorsKept
  <1> HIDE DEF c
  <1>2. Selects(c, labels) <=> \A i \in DOMAIN c : SelectorMatches(c[i], labels)
    BY DEF Selects, Elements
  <1>3. Selects(s, labels) <=> \A i \in DOMAIN s : SelectorMatches(s[i], labels)
    BY DEF Selects, Elements
  <1>4. IsList(s) => (c = << >> <=> s = << >>) /\ (s # << >> => 1 \in DOMAIN s)
    BY <1>1, ConvertedList, ListDomain
  <1> QED BY <1>1, <1>2, <1>3, <1>4 DEF c

\* Blocks of addresses.
LEMMA BlocksKept ==
  ASSUME NEW s, IsList(s), NEW e
  PROVE  LET c == convertIPBlockToProto(s) IN
         /\ c = << >> <=> s = << >>
         /\ s # << >> => (InBlock(c[1], e) <=> InBlock(s[1], e))
  <1> DEFINE c == convertIPBlockToProto(s)
  <1>1. c = [i \in DOMAIN s |-> [cidr |-> Get(s[i], "cidr"), except |-> Get(s[i], "except")]]
    BY DEF convertIPBlockToProto, Each
  <1>2. c = << >> <=> s = << >>
    BY <1>1, ConvertedList
  <1>3. ASSUME s # << >> PROVE InBlock(c[1], e) <=> InBlock(s[1], e)
    <2>1. 1 \in DOMAIN s
      BY <1>3, ListDomain
    <2>2. c[1] = [cidr |-> Get(s[1], "cidr"), except |-> Get(s[1], "except")]
      BY <1>1, <2>1
    <2>3. Get(c[1], "except") = Get(s[1], "except")
      BY <2>2 DEF Get
    <2> QED BY <2>3 DEF InBlock
  <1> QED BY <1>2, <1>3

\* The pods of a peer, for its selectors in either representation.
LEMMA PodsKept ==
  ASSUME NEW p, NEW m, NEW e,
         IsList(Get(p, "podSelector")), IsList(Get(p, "namespaceSelector")),
         Get(m, "podSelector") = convertLabelSelectorToProto(Get(p, "podSelector")),
         Get(m, "namespaceSelector") = convertLabelSelectorToProto(Get(p, "namespaceSelector"))
  PROVE  PodsOfPeer(m, e) <=> PodsOfPeer(p, e)
  <1> DEFINE ns == Get(p, "namespaceSelector")  mns == Get(m, "namespaceSelector")
  <1>1. mns = << >> <=> ns = << >>
    BY SelectionKept
  <1>2. ns # << >> => (SelectorMatches(mns[1], e.ns) <=> SelectorMatches(ns[1], e.ns))
    BY SelectionKept
  <1>3. Selects(Get(m, "podSelector"), e.labels) <=> Selects(Get(p, "podSelector"), e.labels)
    BY SelectionKept
  <1>4. /\ ns # << >> => p["namespaceSelector"] = ns
        /\ mns # << >> => m["namespaceSelector"] = mns
    BY DEF Get
  <1> HIDE DEF ns, mns
  <1>5. PodsOfPeer(m, e) <=>
          /\ e.pod
          /\ IF mns = << >> THEN e.own ELSE SelectorMatches(mns[1], e.ns)
          /\ Selects(Get(m, "podSelector"), e.labels)
    BY <1>4 DEF PodsOfPeer, mns
  <1>6. PodsOfPeer(p, e) <=>
          /\ e.pod
          /\ IF ns = << >> THEN e.own ELSE SelectorMatches(ns[1], e.ns)
          /\ Selects(Get(p, "podSelector"), e.labels)
    BY <1>4 DEF PodsOfPeer, ns
  <1> QED BY <1>1, <1>2, <1>3, <1>5, <1>6

(* NetworkPolicy. *)

\* A peer of a NetworkPolicy and its message admit the same ends.
LEMMA NetworkPeerKept ==
  ASSUME NEW s, NEW i \in DOMAIN s, IsNetworkPeer(s[i]), NEW e
  PROVE  PeerMessageAdmits(convertNetworkPolicyPeerToProto(s)[i], e) <=> PeerAdmits(s[i], e)
  <1> DEFINE p == s[i]
             m == convertNetworkPolicyPeerToProto(s)[i]
             sel == [namespaceSelector |-> convertLabelSelectorToProto(Get(p, "namespaceSelector")),
                     podSelector       |-> convertLabelSelectorToProto(Get(p, "podSelector"))]
  <1>1. m = IF Get(p, "ipBlock") # << >>
            THEN [ipBlock |-> convertIPBlockToProto(p["ipBlock"]), pods |-> << >>]
            ELSE [ipBlock |-> << >>, pods |-> <<sel>>]
    BY DEF convertNetworkPolicyPeerToProto, Each
  <1>2. Get(p, "domainNames") = << >>
    BY DEF IsNetworkPeer, Get
  <1>3. Get(p, "ipBlock") # << >> => p["ipBlock"] = Get(p, "ipBlock")
    BY DEF Get
  <1>4. IsList(Get(p, "ipBlock")) /\ IsList(Get(p, "podSelector")) /\ IsList(Get(p, "namespaceSelector"))
    BY DEF IsNetworkPeer
  <1>5. <<e.domain>> # << >>
    OBVIOUS
  <1>6. CASE Get(p, "ipBlock") # << >>
    <2>1. m.ipBlock = convertIPBlockToProto(Get(p, "ipBlock"))
      BY <1>1, <1>3, <1>6
    <2>2. m.ipBlock # << >> /\ (InBlock(m.ipBlock[1], e) <=> InBlock(p["ipBlock"][1], e))
      BY <2>1, <1>3, <1>4, <1>6, BlocksKept
    <2>3. PeerMessageAdmits(m, e) <=> InBlock(m.ipBlock[1], e)
      BY <2>2 DEF PeerMessageAdmits
    <2>4. PeerAdmits(p, e) <=> InBlock(p["ipBlock"][1], e)
      BY <1>2, <1>5, <1>6 DEF PeerAdmits
    <2> QED BY <2>2, <2>3, <2>4
  <1>7. CASE Get(p, "ipBlock") = << >>
    <2>1. m.ipBlock = << >> /\ m.pods[1] = sel
      BY <1>1, <1>7
    <2>2. /\ Get(sel, "podSelector") = convertLabelSelectorToProto(Get(p, "podSelector"))
          /\ Get(sel, "namespaceSelector") = convertLabelSelectorToProto(Get(p, "namespaceSelector"))
      BY DEF Get
    <2> HIDE DEF sel
    <2>3. PodsOfPeer(sel, e) <=> PodsOfPeer(p, e)
      BY <2>2, <1>4, PodsKept
    <2>4. PeerMessageAdmits(m, e) <=> PodsOfPeer(sel, e)
      <3> HIDE DEF m
      <3> QED BY <2>1 DEF PeerMessageAdmits
    <2>5. Get(p, "podSelector") # << >> \/ Get(p, "namespaceSelector") # << >>
      BY <1>7 DEF IsNetworkPeer
    <2>6. PeerAdmits(p, e) <=> PodsOfPeer(p, e)
      BY <2>5, <1>2, <1>5, <1>7 DEF PeerAdmits
    <2> QED BY <2>3, <2>4, <2>6
  <1> QED BY <1>6, <1>7

\* The text of a port stands for that port only, be it a number or a name.
LEMMA TextKept ==
  ASSUME NEW v, NEW q \in TargetPorts, NEW text,
         IF v.numeric THEN v.value \in DOMAIN Decimal
         ELSE \A n \in DOMAIN Decimal : v.value # Decimal[n],
         text = IF v.numeric THEN Decimal[v.value] ELSE v.value
  PROVE  /\ text = q.name <=> ~v.numeric /\ v.value = q.name
         /\ \A n \in DOMAIN Decimal : text = Decimal[n] <=> v.numeric /\ v.value = n
  <1>1. q.name \in PortNames
    BY DEF TargetPorts
  <1>2. CASE v.numeric
    <2>1. Decimal[v.value] # q.name
      BY <1>1, <1>2, ReportAssumption DEF ReportAssumption
    <2>2. \A n \in DOMAIN Decimal : Decimal[v.value] = Decimal[n] => v.value = n
      BY <1>2, ReportAssumption DEF ReportAssumption
    <2> QED BY <1>2, <2>1, <2>2
  <1>3. CASE ~v.numeric
    BY <1>3
  <1> QED BY <1>2, <1>3

\* A port of a NetworkPolicy and its message: without protocol it is TCP in both.
LEMMA NetworkPortKept ==
  ASSUME NEW s, NEW i \in DOMAIN s, IsNetworkPort(s[i]), NEW q \in TargetPorts
  PROVE  PortMessageAdmits(convertNetworkPolicyPortToProto(s)[i], q) <=> PortAdmits(s[i], q)
  <1> DEFINE p == s[i]
             m == convertNetworkPolicyPortToProto(s)[i]
             port == Get(p, "port")
             end == Get(p, "endPort")
             Protocol == IF Get(p, "protocol") = << >> THEN "TCP" ELSE p["protocol"][1]
             NumberOk(n) == IF end = << >> THEN n = q.number ELSE n <= q.number /\ q.number <= end[1]
  <1>1. m = [protocol |-> convertProtocolToProto(Get(p, "protocol")),
             port |-> TextOf(port), endPort |-> end]
    BY DEF convertNetworkPolicyPortToProto, Each
  <1>2. /\ m.protocol = convertProtocolToProto(Get(p, "protocol"))
        /\ m.port = TextOf(port) /\ m.endPort = end
    BY <1>1
  <1>3. /\ end # << >> => p["endPort"] = end
        /\ Get(p, "protocol") # << >> => p["protocol"] = Get(p, "protocol")
    BY DEF Get
  <1>4. <<q.protocol>> = m.protocol <=> q.protocol = Protocol
    <2>1. Get(p, "protocol") \in {<< >>, <<"TCP">>, <<"UDP">>, <<"SCTP">>}
      BY DEF IsNetworkPort
    <2> HIDE DEF m, p
    <2>2. CASE Get(p, "protocol") = << >>
      <3>1. m.protocol = <<"TCP">>
        BY <1>2, <2>2 DEF convertProtocolToProto
      <3> QED BY <3>1, <2>2
    <2>3. CASE Get(p, "protocol") = <<"TCP">>
      <3>1. m.protocol = <<"TCP">>
        BY <1>2, <2>3 DEF convertProtocolToProto
      <3>2. Protocol = "TCP"
        BY <1>3, <2>3
      <3> QED BY <3>1, <3>2
    <2>4. CASE Get(p, "protocol") = <<"UDP">>
      <3>1. m.protocol = <<"UDP">>
        BY <1>2, <2>4 DEF convertProtocolToProto
      <3>2. Get(p, "protocol") # << >> /\ p["protocol"][1] = "UDP"
        BY <1>3, <2>4
      <3>3. Protocol = "UDP"
        BY <3>2, Zenon
      <3> QED BY <3>1, <3>3
    <2>5. CASE Get(p, "protocol") = <<"SCTP">>
      <3>1. m.protocol = <<"SCTP">>
        BY <1>2, <2>5 DEF convertProtocolToProto
      <3>2. Protocol = "SCTP"
        BY <1>3, <2>5
      <3> QED BY <3>1, <3>2
    <2> QED BY <2>1, <2>2, <2>3, <2>4, <2>5
  <1>5. /\ DOMAIN m.port = DOMAIN port
        /\ \A j \in DOMAIN port : m.port[j] = IF port[j].numeric THEN Decimal[port[j].value]
                                                              ELSE port[j].value
    BY <1>2 DEF TextOf, Each
  <1>6. ASSUME NEW j \in DOMAIN port
        PROVE  (m.port[j] = q.name \/ \E n \in DOMAIN Decimal : m.port[j] = Decimal[n] /\ NumberOk(n))
               <=> IF ~port[j].numeric THEN port[j].value = q.name ELSE NumberOk(port[j].value)
    <2> DEFINE v == port[j]
    <2>1. IF v.numeric THEN v.value \in DOMAIN Decimal
          ELSE \A n \in DOMAIN Decimal : v.value # Decimal[n]
      BY DEF IsNetworkPort, Elements
    <2>2. m.port[j] = IF v.numeric THEN Decimal[v.value] ELSE v.value
      BY <1>5
    <2>3. /\ m.port[j] = q.name <=> ~v.numeric /\ v.value = q.name
          /\ \A n \in DOMAIN Decimal : m.port[j] = Decimal[n] <=> v.numeric /\ v.value = n
      <3> HIDE DEF v, m
      <3> QED BY <2>1, <2>2, TextKept
    <2>4. (IF ~v.numeric THEN v.value = q.name ELSE NumberOk(v.value))
          <=> \/ ~v.numeric /\ v.value = q.name
              \/ v.numeric /\ NumberOk(v.value)
      <3> HIDE DEF v, NumberOk
      <3> QED BY Zenon
    <2>5. (\E n \in DOMAIN Decimal : m.port[j] = Decimal[n] /\ NumberOk(n))
          <=> v.numeric /\ NumberOk(v.value)
      <3> HIDE DEF v, m, NumberOk
      <3> QED BY <2>1, <2>3, Zenon
    <2> HIDE DEF NumberOk, v, m
    <2> QED BY <2>3, <2>4, <2>5, Zenon DEF v
  <1> HIDE DEF NumberOk, m, p, port
  <1>7. (\A text \in Elements(m.port) :
            text = q.name \/ \E n \in DOMAIN Decimal : text = Decimal[n] /\ NumberOk(n))
        <=> (\A v \in Elements(port) : IF ~v.numeric THEN v.value = q.name ELSE NumberOk(v.value))
    BY <1>5, <1>6 DEF Elements
  <1>8. PortMessageAdmits(m, q) <=>
          /\ <<q.protocol>> = m.protocol
          /\ \A text \in Elements(m.port) :
                text = q.name \/ \E n \in DOMAIN Decimal : text = Decimal[n] /\ NumberOk(n)
    BY <1>2, Zenon DEF PortMessageAdmits, NumberOk
  <1>9. PortAdmits(p, q) <=>
          /\ q.protocol = Protocol
          /\ \A v \in Elements(port) :
                IF ~v.numeric THEN v.value = q.name
                ELSE IF end = << >> THEN v.value = q.number
                ELSE v.value <= q.number /\ q.number <= p["endPort"][1]
    BY Zenon DEF PortAdmits, port
  <1>10. \A v : NumberOk(v) <=> IF end = << >> THEN v = q.number
                                ELSE v <= q.number /\ q.number <= p["endPort"][1]
    BY <1>3, Zenon DEF NumberOk
  <1>11. PortAdmits(p, q) <=>
          /\ q.protocol = Protocol
          /\ \A v \in Elements(port) : IF ~v.numeric THEN v.value = q.name ELSE NumberOk(v.value)
    BY <1>9, <1>10, Zenon
  <1> QED BY <1>4, <1>7, <1>8, <1>11 DEF p, m

\* The peers of a NetworkPolicy's rule, and whether there are any.
LEMMA NetworkPeersKept ==
  ASSUME NEW s, IsList(s), \A p \in Elements(s) : IsNetworkPeer(p), NEW e
  PROVE  LET c == convertNetworkPolicyPeerToProto(s) IN
         /\ c = << >> <=> s = << >>
         /\ (\E p \in Elements(c) : PeerMessageAdmits(p, e)) <=> (\E p \in Elements(s) : PeerAdmits(p, e))
  <1> DEFINE c == convertNetworkPolicyPeerToProto(s)
  <1>1. c = [i \in DOMAIN c |-> c[i]] /\ DOMAIN c = DOMAIN s
    BY DEF convertNetworkPolicyPeerToProto, Each
  <1>2. \A i \in DOMAIN s : PeerMessageAdmits(c[i], e) <=> PeerAdmits(s[i], e)
    BY NetworkPeerKept DEF Elements
  <1> HIDE DEF c
  <1>3. c = << >> <=> s = << >>
    BY <1>1, ConvertedList
  <1>4. (\E p \in Elements(c) : PeerMessageAdmits(p, e)) <=> (\E p \in Elements(s) : PeerAdmits(p, e))
    BY <1>1, <1>2, Zenon DEF Elements
  <1> QED BY <1>3, <1>4 DEF c

\* The ports of a NetworkPolicy's rule, and whether there are any.
LEMMA NetworkPortsKept ==
  ASSUME NEW s, IsList(s), \A p \in Elements(s) : IsNetworkPort(p), NEW q \in TargetPorts
  PROVE  LET c == convertNetworkPolicyPortToProto(s) IN
         /\ c = << >> <=> s = << >>
         /\ (\E p \in Elements(c) : PortMessageAdmits(p, q)) <=> (\E p \in Elements(s) : PortAdmits(p, q))
  <1> DEFINE c == convertNetworkPolicyPortToProto(s)
  <1>1. c = [i \in DOMAIN c |-> c[i]] /\ DOMAIN c = DOMAIN s
    BY DEF convertNetworkPolicyPortToProto, Each
  <1>2. \A i \in DOMAIN s : PortMessageAdmits(c[i], q) <=> PortAdmits(s[i], q)
    BY NetworkPortKept DEF Elements
  <1> HIDE DEF c
  <1>3. c = << >> <=> s = << >>
    BY <1>1, ConvertedList
  <1>4. (\E p \in Elements(c) : PortMessageAdmits(p, q)) <=> (\E p \in Elements(s) : PortAdmits(p, q))
    BY <1>1, <1>2, Zenon DEF Elements
  <1> QED BY <1>3, <1>4 DEF c

\* The rules of a NetworkPolicy in one direction.
LEMMA NetworkRulesKept ==
  ASSUME NEW s, NEW peers, \A r \in Elements(s) : IsNetworkRule(r, peers), NEW e, NEW q \in TargetPorts
  PROVE  (\E r \in Elements(s) : RuleAdmits(PeerAdmits, PortAdmits, Get(r, peers), Get(r, "ports"), e, q))
         <=> (\E r \in Elements(convertNetworkPolicyRuleToProto(s, peers)) :
                 RuleAdmits(PeerMessageAdmits, PortMessageAdmits, r.peers, r.ports, e, q))
  <1> DEFINE c == convertNetworkPolicyRuleToProto(s, peers)
  <1>1. c = [i \in DOMAIN s |-> [peers |-> convertNetworkPolicyPeerToProto(Get(s[i], peers)),
                                 ports |-> convertNetworkPolicyPortToProto(Get(s[i], "ports"))]]
    BY DEF convertNetworkPolicyRuleToProto, Each
  <1>2. ASSUME NEW i \in DOMAIN s
        PROVE  RuleAdmits(PeerAdmits, PortAdmits, Get(s[i], peers), Get(s[i], "ports"), e, q)
               <=> RuleAdmits(PeerMessageAdmits, PortMessageAdmits, c[i].peers, c[i].ports, e, q)
    <2> DEFINE from == Get(s[i], peers)  ports == Get(s[i], "ports")
    <2>1. /\ IsList(from) /\ \A p \in Elements(from) : IsNetworkPeer(p)
          /\ IsList(ports) /\ \A p \in Elements(ports) : IsNetworkPort(p)
      <3>1. IsNetworkRule(s[i], peers)
        BY DEF Elements
      <3> QED BY <3>1 DEF IsNetworkRule
    <2>2. /\ c[i].peers = convertNetworkPolicyPeerToProto(from)
          /\ c[i].ports = convertNetworkPolicyPortToProto(ports)
      BY <1>1
    <2> HIDE DEF from, ports, c
    <2>3. /\ c[i].peers = << >> <=> from = << >>
          /\ (\E p \in Elements(c[i].peers) : PeerMessageAdmits(p, e)) <=> (\E p \in Elements(from) : PeerAdmits(p, e))
      BY <2>1, <2>2, NetworkPeersKept
    <2>4. /\ c[i].ports = << >> <=> ports = << >>
          /\ (\E p \in Elements(c[i].ports) : PortMessageAdmits(p, q)) <=> (\E p \in Elements(ports) : PortAdmits(p, q))
      BY <2>1, <2>2, NetworkPortsKept
    <2>5. RuleAdmits(PeerAdmits, PortAdmits, from, ports, e, q)
          <=> RuleAdmits(PeerMessageAdmits, PortMessageAdmits, c[i].peers, c[i].ports, e, q)
      BY <2>3, <2>4 DEF RuleAdmits
    <2> QED BY <2>5 DEF from, ports
  <1>3. DOMAIN c = DOMAIN s
    BY <1>1
  <1> HIDE DEF c
  <1>4. (\E r \in Elements(s) : RuleAdmits(PeerAdmits, PortAdmits, Get(r, peers), Get(r, "ports"), e, q))
        <=> (\E r \in Elements(c) : RuleAdmits(PeerMessageAdmits, PortMessageAdmits, r.peers, r.ports, e, q))
    BY <1>2, <1>3, Zenon DEF Elements
  <1> QED BY <1>4 DEF c

\* A NetworkPolicy and its message mean the same.
LEMMA NetworkPolicyKept ==
  ASSUME NEW n, IsNetworkPolicy(n)
  PROVE  SameNetworkPolicy(n, convertNetworkPolicyToProto(n))
  <1> DEFINE m == convertNetworkPolicyToProto(n)
             sel == Get(n, "podSelector")
             all == \/ sel = << >>
                    \/ /\ Get(sel[1], "matchLabels") = << >>
                       /\ Get(sel[1], "matchExpressions") = << >>
  <1>1. /\ m.podSelector = IF all THEN << >> ELSE convertLabelSelectorToProto(n["podSelector"])
        /\ m.ingressRules = convertNetworkPolicyRuleToProto(Get(n, "ingress"), "from")
        /\ m.egressRules = convertNetworkPolicyRuleToProto(Get(n, "egress"), "to")
        /\ m.ingress <=> Enabled(Get(n, "policyTypes"), "Ingress")
        /\ m.egress <=> Enabled(Get(n, "policyTypes"), "Egress")
    BY DEF convertNetworkPolicyToProto, Enabled
  <1>2. IsList(sel) /\ Len(sel) <= 1
    BY DEF IsNetworkPolicy
  <1>3. Elements(<< >>) = {}
    BY DEF Elements
  <1> HIDE DEF m
  <1>4. ASSUME NEW labels PROVE Selects(sel, labels) <=> Selects(m.podSelector, labels)
    <2>1. CASE ~all
      <3>1. sel = n["podSelector"] /\ m.podSelector = convertLabelSelectorToProto(sel)
        BY <1>1, <2>1 DEF Get
      <3> QED BY <3>1, SelectionKept
    <2>2. CASE all
      <3>1. Selects(m.podSelector, labels)
        BY <1>1, <1>3, <2>2 DEF Selects
      <3>2. \A i \in DOMAIN sel : i = 1
        BY <1>2 DEF IsList
      <3>3. ASSUME NEW i \in DOMAIN sel PROVE SelectorMatches(sel[i], labels)
        <4>1. sel # << >> /\ i = 1
          BY <3>2
        <4>2. Get(sel[i], "matchLabels") = << >> /\ Get(sel[i], "matchExpressions") = << >>
          BY <2>2, <4>1
        <4> QED BY <4>2, <1>3 DEF SelectorMatches
      <3>4. Selects(sel, labels)
        BY <3>3 DEF Selects, Elements
      <3> QED BY <3>1, <3>4
    <2> QED BY <2>1, <2>2
  <1>5. SamePods(n, m)
    BY <1>4 DEF SamePods
  <1>6. /\ \A r \in Elements(Get(n, "ingress")) : IsNetworkRule(r, "from")
        /\ \A r \in Elements(Get(n, "egress")) : IsNetworkRule(r, "to")
    BY DEF IsNetworkPolicy
  <1>7. ASSUME NEW e, NEW q \in TargetPorts
        PROVE  /\ (\E r \in Elements(Get(n, "ingress")) :
                      RuleAdmits(PeerAdmits, PortAdmits, Get(r, "from"), Get(r, "ports"), e, q))
                  <=> (\E r \in Elements(m.ingressRules) :
                          RuleAdmits(PeerMessageAdmits, PortMessageAdmits, r.peers, r.ports, e, q))
               /\ (\E r \in Elements(Get(n, "egress")) :
                      RuleAdmits(PeerAdmits, PortAdmits, Get(r, "to"), Get(r, "ports"), e, q))
                  <=> (\E r \in Elements(m.egressRules) :
                          RuleAdmits(PeerMessageAdmits, PortMessageAdmits, r.peers, r.ports, e, q))
    <2>1. (\E r \in Elements(Get(n, "ingress")) :
             RuleAdmits(PeerAdmits, PortAdmits, Get(r, "from"), Get(r, "ports"), e, q))
          <=> (\E r \in Elements(convertNetworkPolicyRuleToProto(Get(n, "ingress"), "from")) :
                 RuleAdmits(PeerMessageAdmits, PortMessageAdmits, r.peers, r.ports, e, q))
      BY <1>6, NetworkRulesKept
    <2>2. (\E r \in Elements(Get(n, "egress")) :
             RuleAdmits(PeerAdmits, PortAdmits, Get(r, "to"), Get(r, "ports"), e, q))
          <=> (\E r \in Elements(convertNetworkPolicyRuleToProto(Get(n, "egress"), "to")) :
                 RuleAdmits(PeerMessageAdmits, PortMessageAdmits, r.peers, r.ports, e, q))
      BY <1>6, NetworkRulesKept
    <2> QED BY <1>1, <2>1, <2>2
  <1>8. SameNetworkPolicy(n, m)
    BY <1>1, <1>5, <1>7, Zenon DEF SameNetworkPolicy
  <1> QED BY <1>8 DEF m

(* ApplicationNetworkPolicy of AWS. *)

\* A peer in either representation, whose fields were converted one by one.
LEMMA ApplicationPeerKept ==
  ASSUME NEW p, NEW m, NEW e, IsApplicationPeer(p),
         Get(m, "podSelector") = convertLabelSelectorToProto(Get(p, "podSelector")),
         Get(m, "namespaceSelector") = convertLabelSelectorToProto(Get(p, "namespaceSelector")),
         Get(m, "ipBlock") = convertIPBlockToProto(Get(p, "ipBlock")),
         Get(m, "domainNames") = Get(p, "domainNames")
  PROVE  PeerAdmits(m, e) <=> PeerAdmits(p, e)
  <1>1. IsList(Get(p, "ipBlock")) /\ IsList(Get(p, "podSelector")) /\ IsList(Get(p, "namespaceSelector"))
    BY DEF IsApplicationPeer
  <1>2. /\ Get(m, "podSelector") = << >> <=> Get(p, "podSelector") = << >>
        /\ Get(m, "namespaceSelector") = << >> <=> Get(p, "namespaceSelector") = << >>
    BY <1>1, SelectionKept
  <1>3. /\ Get(m, "ipBlock") = << >> <=> Get(p, "ipBlock") = << >>
        /\ Get(p, "ipBlock") # << >> => (InBlock(m["ipBlock"][1], e) <=> InBlock(p["ipBlock"][1], e))
    <2>1. /\ Get(m, "ipBlock") # << >> => m["ipBlock"] = Get(m, "ipBlock")
          /\ Get(p, "ipBlock") # << >> => p["ipBlock"] = Get(p, "ipBlock")
      BY DEF Get
    <2> QED BY <1>1, <2>1, BlocksKept
  <1>4. PodsOfPeer(m, e) <=> PodsOfPeer(p, e)
    BY <1>1, PodsKept
  <1> QED BY <1>2, <1>3, <1>4, Zenon DEF PeerAdmits

\* A port: the fields stay as they are, those that are unset too.
LEMMA ApplicationPortKept ==
  ASSUME NEW p, NEW m, NEW q,
         m = [protocol |-> Get(p, "protocol"), port |-> Get(p, "port"), endPort |-> Get(p, "endPort")]
  PROVE  PortAdmits(m, q) <=> PortAdmits(p, q)
  <1>1. /\ Get(m, "protocol") = Get(p, "protocol") /\ m["protocol"] = Get(p, "protocol")
        /\ Get(m, "port") = Get(p, "port")
        /\ Get(m, "endPort") = Get(p, "endPort") /\ m["endPort"] = Get(p, "endPort")
    BY DEF Get
  <1>2. /\ Get(p, "protocol") # << >> => p["protocol"] = Get(p, "protocol")
        /\ Get(p, "endPort") # << >> => p["endPort"] = Get(p, "endPort")
    BY DEF Get
  <1>3. /\ Get(p, "protocol") # << >> => m["protocol"] = p["protocol"]
        /\ Get(p, "endPort") # << >> => m["endPort"] = p["endPort"]
    BY <1>1, <1>2
  <1> QED BY <1>1, <1>3, Zenon DEF PortAdmits

\* The ports of an ApplicationNetworkPolicy's rule, and whether there are any.
LEMMA ApplicationPortsKept ==
  ASSUME NEW s, IsList(s), NEW q
  PROVE  LET c == convertANPPorts(s) IN
         /\ c = << >> <=> s = << >>
         /\ (\E p \in Elements(c) : PortAdmits(p, q)) <=> (\E p \in Elements(s) : PortAdmits(p, q))
  <1> DEFINE c == convertANPPorts(s)
  <1>1. c = [i \in DOMAIN s |-> [protocol |-> Get(s[i], "protocol"), port |-> Get(s[i], "port"),
                                 endPort |-> Get(s[i], "endPort")]]
    BY DEF convertANPPorts, Each
  <1>2. \A i \in DOMAIN s : PortAdmits(c[i], q) <=> PortAdmits(s[i], q)
    BY <1>1, ApplicationPortKept
  <1>3. c = [i \in DOMAIN c |-> c[i]] /\ DOMAIN c = DOMAIN s
    BY <1>1
  <1> HIDE DEF c
  <1>4. c = << >> <=> s = << >>
    BY <1>3, ConvertedList
  <1>5. (\E p \in Elements(c) : PortAdmits(p, q)) <=> (\E p \in Elements(s) : PortAdmits(p, q))
    BY <1>2, <1>3, Zenon DEF Elements
  <1> QED BY <1>4, <1>5 DEF c

\* The peers of ingress rules are no domain names, so nothing is lost of them.
LEMMA ApplicationIngressPeersKept ==
  ASSUME NEW s, IsList(s), NEW e,
         \A p \in Elements(s) : IsApplicationPeer(p) /\ "domainNames" \notin DOMAIN p
  PROVE  LET c == convertAWSANPIngressPeers(s) IN
         /\ c = << >> <=> s = << >>
         /\ (\E p \in Elements(c) : PeerAdmits(p, e)) <=> (\E p \in Elements(s) : PeerAdmits(p, e))
  <1> DEFINE c == convertAWSANPIngressPeers(s)
  <1>1. c = [i \in DOMAIN s |->
               [podSelector       |-> convertLabelSelectorToProto(Get(s[i], "podSelector")),
                namespaceSelector |-> convertLabelSelectorToProto(Get(s[i], "namespaceSelector")),
                ipBlock           |-> convertIPBlockToProto(Get(s[i], "ipBlock"))]]
    BY DEF convertAWSANPIngressPeers, Each
  <1>2. ASSUME NEW i \in DOMAIN s PROVE PeerAdmits(c[i], e) <=> PeerAdmits(s[i], e)
    <2>1. IsApplicationPeer(s[i]) /\ "domainNames" \notin DOMAIN s[i]
      BY DEF Elements
    <2>2. /\ Get(c[i], "podSelector") = convertLabelSelectorToProto(Get(s[i], "podSelector"))
          /\ Get(c[i], "namespaceSelector") = convertLabelSelectorToProto(Get(s[i], "namespaceSelector"))
          /\ Get(c[i], "ipBlock") = convertIPBlockToProto(Get(s[i], "ipBlock"))
          /\ Get(c[i], "domainNames") = << >> /\ Get(s[i], "domainNames") = << >>
      BY <1>1, <2>1 DEF Get
    <2> QED BY <2>1, <2>2, ApplicationPeerKept
  <1>3. c = [i \in DOMAIN c |-> c[i]] /\ DOMAIN c = DOMAIN s
    BY <1>1
  <1> HIDE DEF c
  <1>4. c = << >> <=> s = << >>
    BY <1>3, ConvertedList
  <1>5. (\E p \in Elements(c) : PeerAdmits(p, e)) <=> (\E p \in Elements(s) : PeerAdmits(p, e))
    BY <1>2, <1>3, Zenon DEF Elements
  <1> QED BY <1>4, <1>5 DEF c

\* The peers of egress rules keep their domain names.
LEMMA ApplicationEgressPeersKept ==
  ASSUME NEW s, IsList(s), NEW e, \A p \in Elements(s) : IsApplicationPeer(p)
  PROVE  LET c == convertAWSANPEgressPeers(s) IN
         /\ c = << >> <=> s = << >>
         /\ (\E p \in Elements(c) : PeerAdmits(p, e)) <=> (\E p \in Elements(s) : PeerAdmits(p, e))
  <1> DEFINE c == convertAWSANPEgressPeers(s)
  <1>1. c = [i \in DOMAIN s |->
               [podSelector       |-> convertLabelSelectorToProto(Get(s[i], "podSelector")),
                namespaceSelector |-> convertLabelSelectorToProto(Get(s[i], "namespaceSelector")),
                ipBlock           |-> convertIPBlockToProto(Get(s[i], "ipBlock")),
                domainNames       |-> Get(s[i], "domainNames")]]
    BY DEF convertAWSANPEgressPeers, Each
  <1>2. ASSUME NEW i \in DOMAIN s PROVE PeerAdmits(c[i], e) <=> PeerAdmits(s[i], e)
    <2>1. IsApplicationPeer(s[i])
      BY DEF Elements
    <2>2. /\ Get(c[i], "podSelector") = convertLabelSelectorToProto(Get(s[i], "podSelector"))
          /\ Get(c[i], "namespaceSelector") = convertLabelSelectorToProto(Get(s[i], "namespaceSelector"))
          /\ Get(c[i], "ipBlock") = convertIPBlockToProto(Get(s[i], "ipBlock"))
          /\ Get(c[i], "domainNames") = Get(s[i], "domainNames")
      BY <1>1 DEF Get
    <2> QED BY <2>1, <2>2, ApplicationPeerKept
  <1>3. c = [i \in DOMAIN c |-> c[i]] /\ DOMAIN c = DOMAIN s
    BY <1>1
  <1> HIDE DEF c
  <1>4. c = << >> <=> s = << >>
    BY <1>3, ConvertedList
  <1>5. (\E p \in Elements(c) : PeerAdmits(p, e)) <=> (\E p \in Elements(s) : PeerAdmits(p, e))
    BY <1>2, <1>3, Zenon DEF Elements
  <1> QED BY <1>4, <1>5 DEF c

\* An ApplicationNetworkPolicy and its message mean the same.
LEMMA ApplicationNetworkPolicyKept ==
  ASSUME NEW n, IsApplicationNetworkPolicy(n)
  PROVE  SameApplicationNetworkPolicy(n, convertAWSApplicationNetworkPolicy(n))
  <1> DEFINE m == convertAWSApplicationNetworkPolicy(n)
             sel == Get(n, "podSelector")
             ingress == Get(n, "ingress")
             egress == Get(n, "egress")
  <1>1. /\ m.podSelector = IF sel = << >> THEN convertLabelSelectorToProto(<<[f \in {} |-> << >>]>>)
                           ELSE convertLabelSelectorToProto(n["podSelector"])
        /\ m.ingressRules = [i \in DOMAIN ingress |->
                               [peers |-> convertAWSANPIngressPeers(Get(ingress[i], "from")),
                                ports |-> convertANPPorts(Get(ingress[i], "ports"))]]
        /\ m.egressRules = [i \in DOMAIN egress |->
                               [peers |-> convertAWSANPEgressPeers(Get(egress[i], "to")),
                                ports |-> convertANPPorts(Get(egress[i], "ports"))]]
        /\ m.policyTypes = Get(n, "policyTypes")
    BY DEF convertAWSApplicationNetworkPolicy, convertAWSANPIngressRules, convertAWSANPEgressRules, Each
  <1>2. /\ \A i \in DOMAIN ingress :
              /\ IsList(Get(ingress[i], "from")) /\ IsList(Get(ingress[i], "ports"))
              /\ \A p \in Elements(Get(ingress[i], "from")) :
                    IsApplicationPeer(p) /\ "domainNames" \notin DOMAIN p
        /\ \A i \in DOMAIN egress :
              /\ IsList(Get(egress[i], "to")) /\ IsList(Get(egress[i], "ports"))
              /\ \A p \in Elements(Get(egress[i], "to")) : IsApplicationPeer(p)
    <2>1. /\ \A i \in DOMAIN ingress : ingress[i] \in Elements(ingress)
          /\ \A i \in DOMAIN egress : egress[i] \in Elements(egress)
      BY DEF Elements
    <2> QED BY <2>1 DEF IsApplicationNetworkPolicy, IsApplicationRule
  <1> HIDE DEF m
  <1>3. ASSUME NEW labels PROVE Selects(sel, labels) <=> Selects(m.podSelector, labels)
    <2>1. CASE sel # << >>
      <3>1. sel = n["podSelector"] /\ m.podSelector = convertLabelSelectorToProto(sel)
        BY <1>1, <2>1 DEF Get
      <3> QED BY <3>1, SelectionKept
    <2>2. CASE sel = << >>
      <3> DEFINE none == [f \in {} |-> << >>]
      <3>1. Elements(<< >>) = {} /\ Elements(<<none>>) = {none}
        BY DEF Elements
      <3>2. SelectorMatches(none, labels)
        BY <3>1 DEF SelectorMatches, Get
      <3>3. Selects(<<none>>, labels)
        BY <3>1, <3>2 DEF Selects
      <3>4. Selects(m.podSelector, labels)
        BY <1>1, <2>2, <3>3, SelectionKept
      <3>5. Selects(sel, labels)
        BY <2>2, <3>1 DEF Selects
      <3> QED BY <3>4, <3>5
    <2> QED BY <2>1, <2>2
  <1>4. SamePods(n, m)
    BY <1>3 DEF SamePods
  <1>5. ASSUME NEW e, NEW q
        PROVE  (\E r \in Elements(ingress) : RuleAdmits(PeerAdmits, PortAdmits, Get(r, "from"), Get(r, "ports"), e, q))
               <=> (\E r \in Elements(m.ingressRules) : RuleAdmits(PeerAdmits, PortAdmits, r.peers, r.ports, e, q))
    <2> DEFINE c == m.ingressRules
    <2>1. ASSUME NEW i \in DOMAIN ingress
          PROVE  RuleAdmits(PeerAdmits, PortAdmits, Get(ingress[i], "from"), Get(ingress[i], "ports"), e, q)
                 <=> RuleAdmits(PeerAdmits, PortAdmits, c[i].peers, c[i].ports, e, q)
      <3>1. /\ c[i].peers = convertAWSANPIngressPeers(Get(ingress[i], "from"))
            /\ c[i].ports = convertANPPorts(Get(ingress[i], "ports"))
        BY <1>1
      <3> HIDE DEF ingress, c
      <3>2. /\ c[i].peers = << >> <=> Get(ingress[i], "from") = << >>
            /\ (\E p \in Elements(c[i].peers) : PeerAdmits(p, e))
               <=> (\E p \in Elements(Get(ingress[i], "from")) : PeerAdmits(p, e))
        BY <1>2, <3>1, ApplicationIngressPeersKept
      <3>3. /\ c[i].ports = << >> <=> Get(ingress[i], "ports") = << >>
            /\ (\E p \in Elements(c[i].ports) : PortAdmits(p, q))
               <=> (\E p \in Elements(Get(ingress[i], "ports")) : PortAdmits(p, q))
        BY <1>2, <3>1, ApplicationPortsKept
      <3> QED BY <3>2, <3>3 DEF RuleAdmits
    <2>2. DOMAIN c = DOMAIN ingress
      BY <1>1
    <2> HIDE DEF ingress, c
    <2>3. (\E r \in Elements(ingress) : RuleAdmits(PeerAdmits, PortAdmits, Get(r, "from"), Get(r, "ports"), e, q))
          <=> (\E r \in Elements(c) : RuleAdmits(PeerAdmits, PortAdmits, r.peers, r.ports, e, q))
      BY <2>1, <2>2, Zenon DEF Elements
    <2> QED BY <2>3 DEF c
  <1>6. ASSUME NEW e, NEW q
        PROVE  (\E r \in Elements(egress) : RuleAdmits(PeerAdmits, PortAdmits, Get(r, "to"), Get(r, "ports"), e, q))
               <=> (\E r \in Elements(m.egressRules) : RuleAdmits(PeerAdmits, PortAdmits, r.peers, r.ports, e, q))
    <2> DEFINE c == m.egressRules
    <2>1. ASSUME NEW i \in DOMAIN egress
          PROVE  RuleAdmits(PeerAdmits, PortAdmits, Get(egress[i], "to"), Get(egress[i], "ports"), e, q)
                 <=> RuleAdmits(PeerAdmits, PortAdmits, c[i].peers, c[i].ports, e, q)
      <3>1. /\ c[i].peers = convertAWSANPEgressPeers(Get(egress[i], "to"))
            /\ c[i].ports = convertANPPorts(Get(egress[i], "ports"))
        BY <1>1
      <3> HIDE DEF egress, c
      <3>2. /\ c[i].peers = << >> <=> Get(egress[i], "to") = << >>
            /\ (\E p \in Elements(c[i].peers) : PeerAdmits(p, e))
               <=> (\E p \in Elements(Get(egress[i], "to")) : PeerAdmits(p, e))
        BY <1>2, <3>1, ApplicationEgressPeersKept
      <3>3. /\ c[i].ports = << >> <=> Get(egress[i], "ports") = << >>
            /\ (\E p \in Elements(c[i].ports) : PortAdmits(p, q))
               <=> (\E p \in Elements(Get(egress[i], "ports")) : PortAdmits(p, q))
        BY <1>2, <3>1, ApplicationPortsKept
      <3> QED BY <3>2, <3>3 DEF RuleAdmits
    <2>2. DOMAIN c = DOMAIN egress
      BY <1>1
    <2> HIDE DEF egress, c
    <2>3. (\E r \in Elements(egress) : RuleAdmits(PeerAdmits, PortAdmits, Get(r, "to"), Get(r, "ports"), e, q))
          <=> (\E r \in Elements(c) : RuleAdmits(PeerAdmits, PortAdmits, r.peers, r.ports, e, q))
      BY <2>1, <2>2, Zenon DEF Elements
    <2> QED BY <2>3 DEF c
  <1>7. SameApplicationNetworkPolicy(n, m)
    BY <1>1, <1>4, <1>5, <1>6, Zenon DEF SameApplicationNetworkPolicy
  <1> QED BY <1>7 DEF m

(* Admin network policies. *)

\* Pods in namespaces: a selector that is absent and one that is empty select all.
LEMMA NamespacedPodsKept ==
  ASSUME NEW s, NEW ns, NEW labels
  PROVE  (\E p \in Elements(convertAWSNamespacedPod(s)) :
            Selects(Get(p, "namespaceSelector"), ns) /\ Selects(Get(p, "podSelector"), labels))
         <=> (\E p \in Elements(s) :
                Selects(Get(p, "namespaceSelector"), ns) /\ Selects(Get(p, "podSelector"), labels))
  <1> DEFINE c == convertAWSNamespacedPod(s)
             empty == <<[matchLabels |-> << >>, matchExpressions |-> << >>]>>
             Selector(p, f) == IF Get(p, f) = << >> THEN empty ELSE convertEndpointSelectors(p[f])
  <1>1. c = [i \in DOMAIN s |-> [namespaceSelector |-> Selector(s[i], "namespaceSelector"),
                                 podSelector       |-> Selector(s[i], "podSelector")]]
    BY DEF convertAWSNamespacedPod, Each
  <1>2. ASSUME NEW p, NEW f, NEW l PROVE Selects(Selector(p, f), l) <=> Selects(Get(p, f), l)
    <2>1. CASE Get(p, f) # << >>
      <3>1. Selector(p, f) = convertLabelSelectorToProto(Get(p, f))
        BY <2>1 DEF Get, convertLabelSelectorToProto
      <3> QED BY <3>1, SelectionKept
    <2>2. CASE Get(p, f) = << >>
      <3>1. Elements(<< >>) = {} /\ Elements(empty) = {empty[1]}
        BY DEF Elements
      <3>2. SelectorMatches(empty[1], l)
        BY <3>1 DEF SelectorMatches, Get
      <3>3. Selects(empty, l) /\ Selects(<< >>, l)
        BY <3>1, <3>2 DEF Selects
      <3> QED BY <2>2, <3>3
    <2> QED BY <2>1, <2>2
  <1>3. DOMAIN c = DOMAIN s
    BY <1>1
  <1>4. ASSUME NEW i \in DOMAIN s
        PROVE  /\ Selects(Get(c[i], "namespaceSelector"), ns) <=> Selects(Get(s[i], "namespaceSelector"), ns)
               /\ Selects(Get(c[i], "podSelector"), labels) <=> Selects(Get(s[i], "podSelector"), labels)
    <2>1. /\ Get(c[i], "namespaceSelector") = Selector(s[i], "namespaceSelector")
          /\ Get(c[i], "podSelector") = Selector(s[i], "podSelector")
      <3> HIDE DEF Selector
      <3> QED BY <1>1 DEF Get
    <2> HIDE DEF Selector
    <2> QED BY <1>2, <2>1
  <1> HIDE DEF c
  <1>5. (\E p \in Elements(c) :
            Selects(Get(p, "namespaceSelector"), ns) /\ Selects(Get(p, "podSelector"), labels))
         <=> (\E p \in Elements(s) :
                Selects(Get(p, "namespaceSelector"), ns) /\ Selects(Get(p, "podSelector"), labels))
    BY <1>3, <1>4, Zenon DEF Elements
  <1> QED BY <1>5 DEF c

\* A peer whose fields were converted one by one.
LEMMA AdminPeerKept ==
  ASSUME NEW p, NEW m, NEW e, IsAdminPeer(p),
         Get(m, "namespaces") = convertLabelSelectorToProto(Get(p, "namespaces")),
         Get(m, "pods") = convertAWSNamespacedPod(Get(p, "pods")),
         Get(m, "nodes") = convertLabelSelectorToProto(Get(p, "nodes")),
         Get(m, "networks") = Get(p, "networks"),
         Get(m, "domainNames") = Get(p, "domainNames")
  PROVE  AdminPeerAdmits(m, e) <=> AdminPeerAdmits(p, e)
  <1>1. \A f : /\ Get(m, f) # << >> => m[f] = Get(m, f)
               /\ Get(p, f) # << >> => p[f] = Get(p, f)
    BY DEF Get
  <1>2. IsList(Get(p, "namespaces")) /\ IsList(Get(p, "nodes"))
    BY DEF IsAdminPeer
  <1>3. Get(m, "namespaces") # << >> /\ Selects(m["namespaces"], e.ns)
        <=> Get(p, "namespaces") # << >> /\ Selects(p["namespaces"], e.ns)
    BY <1>1, <1>2, SelectionKept
  <1>4. Get(m, "nodes") # << >> /\ Selects(m["nodes"], e.labels)
        <=> Get(p, "nodes") # << >> /\ Selects(p["nodes"], e.labels)
    BY <1>1, <1>2, SelectionKept
  <1>5. (\E s \in Elements(Get(m, "pods")) :
            Selects(Get(s, "namespaceSelector"), e.ns) /\ Selects(Get(s, "podSelector"), e.labels))
        <=> (\E s \in Elements(Get(p, "pods")) :
               Selects(Get(s, "namespaceSelector"), e.ns) /\ Selects(Get(s, "podSelector"), e.labels))
    BY NamespacedPodsKept
  <1> QED BY <1>3, <1>4, <1>5, Zenon DEF AdminPeerAdmits

\* A subject, or a peer of an ingress rule, has only pods and namespaces.
LEMMA NothingConverted ==
  ASSUME NEW p, IsAdminSubject(p)
  PROVE  /\ convertLabelSelectorToProto(Get(p, "nodes")) = << >>
         /\ Get(p, "networks") = << >> /\ Get(p, "domainNames") = << >>
  <1>1. Get(p, "nodes") = << >> /\ Get(p, "networks") = << >> /\ Get(p, "domainNames") = << >>
    BY DEF IsAdminSubject, Get
  <1>2. IsList(<< >>)
    BY DEF IsList, Elements
  <1> QED BY <1>1, <1>2, SelectionKept

\* The subject of an admin network policy.
LEMMA SubjectKept ==
  ASSUME NEW p, IsAdminSubject(p), NEW e
  PROVE  AdminPeerAdmits(convertAWSSubject(p), e) <=> AdminPeerAdmits(p, e)
  <1> DEFINE m == convertAWSSubject(p)
  <1>1. m = [pods       |-> convertAWSNamespacedPod(Get(p, "pods")),
             namespaces |-> convertLabelSelectorToProto(Get(p, "namespaces"))]
    BY DEF convertAWSSubject, convertLabelSelectorToProto
  <1>2. /\ Get(m, "namespaces") = convertLabelSelectorToProto(Get(p, "namespaces"))
        /\ Get(m, "pods") = convertAWSNamespacedPod(Get(p, "pods"))
        /\ Get(m, "nodes") = << >> /\ Get(m, "networks") = << >> /\ Get(m, "domainNames") = << >>
    BY <1>1 DEF Get
  <1>3. IsAdminPeer(p)
    BY DEF IsAdminSubject
  <1> HIDE DEF m
  <1>4. AdminPeerAdmits(m, e) <=> AdminPeerAdmits(p, e)
    BY <1>2, <1>3, NothingConverted, AdminPeerKept
  <1> QED BY <1>4 DEF m

\* A peer of an ingress rule of an admin network policy.
LEMMA IngressPeerKept ==
  ASSUME NEW p, IsAdminSubject(p), NEW e
  PROVE  AdminPeerAdmits(convertANPIngressPeer(p), e) <=> AdminPeerAdmits(p, e)
  <1> DEFINE m == convertANPIngressPeer(p)
  <1>1. /\ Get(m, "namespaces") = convertLabelSelectorToProto(Get(p, "namespaces"))
        /\ Get(m, "pods") = convertAWSNamespacedPod(Get(p, "pods"))
        /\ Get(m, "nodes") = << >> /\ Get(m, "networks") = << >> /\ Get(m, "domainNames") = << >>
    BY DEF convertANPIngressPeer, Get
  <1>2. IsAdminPeer(p)
    BY DEF IsAdminSubject
  <1> HIDE DEF m
  <1>3. AdminPeerAdmits(m, e) <=> AdminPeerAdmits(p, e)
    BY <1>1, <1>2, NothingConverted, AdminPeerKept
  <1> QED BY <1>3 DEF m

\* A peer of an egress rule of an admin network policy, nodes and networks included.
LEMMA EgressPeerKept ==
  ASSUME NEW p, IsAdminPeer(p), NEW e
  PROVE  AdminPeerAdmits(convertANPEgressPeer(p), e) <=> AdminPeerAdmits(p, e)
  <1> DEFINE m == convertANPEgressPeer(p)
  <1>1. /\ DOMAIN m = {"namespaces", "pods", "nodes", "networks", "domainNames"}
        /\ m["namespaces"] = convertLabelSelectorToProto(Get(p, "namespaces"))
        /\ m["pods"] = convertAWSNamespacedPod(Get(p, "pods"))
        /\ m["nodes"] = convertLabelSelectorToProto(Get(p, "nodes"))
        /\ m["networks"] = Get(p, "networks")
        /\ m["domainNames"] = Get(p, "domainNames")
    BY DEF convertANPEgressPeer, convertANPIngressPeer
  <1>2. /\ Get(m, "namespaces") = convertLabelSelectorToProto(Get(p, "namespaces"))
        /\ Get(m, "pods") = convertAWSNamespacedPod(Get(p, "pods"))
        /\ Get(m, "nodes") = convertLabelSelectorToProto(Get(p, "nodes"))
        /\ Get(m, "networks") = Get(p, "networks")
        /\ Get(m, "domainNames") = Get(p, "domainNames")
    <2> HIDE DEF m
    <2> QED BY <1>1 DEF Get
  <1> HIDE DEF m
  <1>3. AdminPeerAdmits(m, e) <=> AdminPeerAdmits(p, e)
    BY <1>2, AdminPeerKept
  <1> QED BY <1>3 DEF m

\* A port: its protocol is never the empty string, which would be left out.
LEMMA AdminPortKept ==
  ASSUME NEW s, NEW i \in DOMAIN s, IsAdminPort(s[i]), NEW q
  PROVE  AdminPortAdmits(convertAWSPorts(s)[i], q) <=> AdminPortAdmits(s[i], q)
  <1> DEFINE p == s[i]
             m == convertAWSPorts(s)[i]
             numbers == Get(p, "portNumber")
             ranges == Get(p, "portRange")
  <1>1. m = [portNumber |-> [j \in DOMAIN numbers |->
                               [protocol |-> NonEmpty(Get(numbers[j], "protocol")),
                                port |-> Get(numbers[j], "port")]],
             portRange |-> [j \in DOMAIN ranges |->
                               [protocol |-> NonEmpty(Get(ranges[j], "protocol")),
                                start |-> Get(ranges[j], "start"), end |-> Get(ranges[j], "end")]],
             namedPort |-> Get(p, "namedPort")]
    BY DEF convertAWSPorts, Each
  <1>2. /\ \A j \in DOMAIN numbers :
              {"protocol", "port"} \subseteq DOMAIN numbers[j] /\ numbers[j]["protocol"] # <<"">>
        /\ \A j \in DOMAIN ranges :
              {"protocol", "start", "end"} \subseteq DOMAIN ranges[j] /\ ranges[j]["protocol"] # <<"">>
    BY DEF IsAdminPort, Elements
  <1> HIDE DEF m, numbers, ranges
  <1>3. /\ DOMAIN Get(m, "portNumber") = DOMAIN numbers
        /\ \A j \in DOMAIN numbers :
              /\ Get(m, "portNumber")[j]["port"] = numbers[j]["port"]
              /\ Get(m, "portNumber")[j]["protocol"] = numbers[j]["protocol"]
    BY <1>1, <1>2 DEF Get, NonEmpty
  <1>4. /\ DOMAIN Get(m, "portRange") = DOMAIN ranges
        /\ \A j \in DOMAIN ranges :
              /\ Get(m, "portRange")[j]["start"] = ranges[j]["start"]
              /\ Get(m, "portRange")[j]["end"] = ranges[j]["end"]
              /\ Get(m, "portRange")[j]["protocol"] = ranges[j]["protocol"]
    BY <1>1, <1>2 DEF Get, NonEmpty
  <1>5. Get(m, "namedPort") = Get(p, "namedPort")
    BY <1>1 DEF Get
  <1>6. (\E n \in Elements(Get(m, "portNumber")) : n["port"] = <<q.number>> /\ n["protocol"] = <<q.protocol>>)
        <=> (\E n \in Elements(numbers) : n["port"] = <<q.number>> /\ n["protocol"] = <<q.protocol>>)
    <2> DEFINE mn == Get(m, "portNumber")
    <2> HIDE DEF mn
    <2>1. DOMAIN mn = DOMAIN numbers /\ \A j \in DOMAIN numbers :
              mn[j]["port"] = numbers[j]["port"] /\ mn[j]["protocol"] = numbers[j]["protocol"]
      BY <1>3 DEF mn
    <2>2. (\E n \in Elements(mn) : n["port"] = <<q.number>> /\ n["protocol"] = <<q.protocol>>)
          <=> (\E j \in DOMAIN mn : mn[j]["port"] = <<q.number>> /\ mn[j]["protocol"] = <<q.protocol>>)
      BY DEF Elements
    <2>3. (\E n \in Elements(numbers) : n["port"] = <<q.number>> /\ n["protocol"] = <<q.protocol>>)
          <=> (\E j \in DOMAIN numbers : numbers[j]["port"] = <<q.number>> /\ numbers[j]["protocol"] = <<q.protocol>>)
      BY DEF Elements
    <2> QED BY <2>1, <2>2, <2>3 DEF mn
  <1>7. (\E n \in Elements(Get(m, "portRange")) :
            n["start"][1] <= q.number /\ q.number <= n["end"][1] /\ n["protocol"] = <<q.protocol>>)
        <=> (\E n \in Elements(ranges) :
                n["start"][1] <= q.number /\ q.number <= n["end"][1] /\ n["protocol"] = <<q.protocol>>)
    <2> DEFINE mr == Get(m, "portRange")
               In(n) == n["start"][1] <= q.number /\ q.number <= n["end"][1] /\ n["protocol"] = <<q.protocol>>
    <2> HIDE DEF mr
    <2>1. DOMAIN mr = DOMAIN ranges /\ \A j \in DOMAIN ranges : In(mr[j]) <=> In(ranges[j])
      BY <1>4 DEF mr
    <2> HIDE DEF In
    <2>2. (\E n \in Elements(mr) : In(n)) <=> (\E n \in Elements(ranges) : In(n))
      BY <2>1, Zenon DEF Elements
    <2> QED BY <2>2 DEF mr, In
  <1> HIDE DEF p
  <1>8. AdminPortAdmits(m, q) <=> AdminPortAdmits(p, q)
    BY <1>5, <1>6, <1>7, Zenon DEF AdminPortAdmits, numbers, ranges
  <1> QED BY <1>8 DEF m, p

\* A rule and its message admit the same, if each of its peers does.
LEMMA AdminRuleKept ==
  ASSUME NEW r, NEW peers, NEW c, NEW e, NEW q, HasAdminPorts(r),
         Get(c, "ports") = convertAWSPorts(Get(r, "ports")),
         DOMAIN Get(c, "peers") = DOMAIN Get(r, peers),
         \A i \in DOMAIN Get(r, peers) :
            AdminPeerAdmits(Get(c, "peers")[i], e) <=> AdminPeerAdmits(Get(r, peers)[i], e)
  PROVE  AdminRuleAdmits(r, peers, e, q) <=> AdminRuleAdmits(c, "peers", e, q)
  <1> DEFINE s == Get(r, "ports")
             m == Get(c, "ports")
  <1>1. IsList(s) /\ \A i \in DOMAIN s : IsAdminPort(s[i])
    BY DEF HasAdminPorts, Elements
  <1>2. m = [i \in DOMAIN m |-> m[i]] /\ DOMAIN m = DOMAIN s
    BY DEF convertAWSPorts, Each
  <1>3. \A i \in DOMAIN s : AdminPortAdmits(m[i], q) <=> AdminPortAdmits(s[i], q)
    BY <1>1, AdminPortKept
  <1>4. (s # << >> => r["ports"] = s) /\ (m # << >> => c["ports"] = m)
    BY DEF Get
  <1> HIDE DEF s, m
  <1>5. m = << >> <=> s = << >>
    BY <1>1, <1>2, ConvertedList
  <1>6. (\E p \in Elements(m) : AdminPortAdmits(p, q)) <=> (\E p \in Elements(s) : AdminPortAdmits(p, q))
    BY <1>2, <1>3, Zenon DEF Elements
  <1>7. (\E p \in Elements(Get(c, "peers")) : AdminPeerAdmits(p, e))
        <=> (\E p \in Elements(Get(r, peers)) : AdminPeerAdmits(p, e))
    BY Zenon DEF Elements
  <1>8. AdminRuleAdmits(r, peers, e, q) <=>
          /\ \E p \in Elements(Get(r, peers)) : AdminPeerAdmits(p, e)
          /\ s = << >> \/ \E p \in Elements(s) : AdminPortAdmits(p, q)
    BY <1>4 DEF AdminRuleAdmits, s
  <1>9. AdminRuleAdmits(c, "peers", e, q) <=>
          /\ \E p \in Elements(Get(c, "peers")) : AdminPeerAdmits(p, e)
          /\ m = << >> \/ \E p \in Elements(m) : AdminPortAdmits(p, q)
    BY <1>4 DEF AdminRuleAdmits, m
  <1> QED BY <1>5, <1>6, <1>7, <1>8, <1>9

\* The rules keep their order and their actions.
LEMMA IngressRulesKept ==
  ASSUME NEW s,
         \A r \in Elements(s) : HasAdminPorts(r) /\ \A p \in Elements(Get(r, "from")) : IsAdminSubject(p)
  PROVE  SameAdminRules(s, convertANPIngressRules(s), "from")
  <1> DEFINE c == convertANPIngressRules(s)
  <1>1. c = [i \in DOMAIN s |->
               [action |-> Get(s[i], "action"), name |-> NonEmpty(Get(s[i], "name")),
                peers  |-> Each(convertANPIngressPeer, Get(s[i], "from")),
                ports  |-> convertAWSPorts(Get(s[i], "ports"))]]
    BY DEF convertANPIngressRules, convertAdminNetworkPolicyPorts, Each
  <1>2. DOMAIN c = DOMAIN s /\ \A i \in DOMAIN c : c[i].action = Get(s[i], "action")
    BY <1>1
  <1>3. ASSUME NEW i \in DOMAIN c, NEW e, NEW q
        PROVE  AdminRuleAdmits(s[i], "from", e, q) <=> AdminRuleAdmits(c[i], "peers", e, q)
    <2> DEFINE from == Get(s[i], "from")
    <2>1. HasAdminPorts(s[i]) /\ \A j \in DOMAIN from : IsAdminSubject(from[j])
      BY <1>2 DEF Elements
    <2>2. /\ Get(c[i], "ports") = convertAWSPorts(Get(s[i], "ports"))
          /\ Get(c[i], "peers") = [j \in DOMAIN from |-> convertANPIngressPeer(from[j])]
      BY <1>1, <1>2 DEF Get, Each
    <2> HIDE DEF c, from
    <2>3. /\ DOMAIN Get(c[i], "peers") = DOMAIN from
          /\ \A j \in DOMAIN from : AdminPeerAdmits(Get(c[i], "peers")[j], e) <=> AdminPeerAdmits(from[j], e)
      BY <2>1, <2>2, IngressPeerKept
    <2> QED BY <2>1, <2>2, <2>3, AdminRuleKept DEF from
  <1> HIDE DEF c
  <1>4. SameAdminRules(s, c, "from")
    BY <1>2, <1>3, Zenon DEF SameAdminRules
  <1> QED BY <1>4 DEF c

\* The same for the rules of the other direction.
LEMMA EgressRulesKept ==
  ASSUME NEW s,
         \A r \in Elements(s) : HasAdminPorts(r) /\ \A p \in Elements(Get(r, "to")) : IsAdminPeer(p)
  PROVE  SameAdminRules(s, convertANPEgressRules(s), "to")
  <1> DEFINE c == convertANPEgressRules(s)
  <1>1. c = [i \in DOMAIN s |->
               [action |-> Get(s[i], "action"), name |-> NonEmpty(Get(s[i], "name")),
                peers  |-> Each(convertANPEgressPeer, Get(s[i], "to")),
                ports  |-> convertAWSPorts(Get(s[i], "ports"))]]
    BY DEF convertANPEgressRules, convertAdminNetworkPolicyPorts, Each
  <1>2. DOMAIN c = DOMAIN s /\ \A i \in DOMAIN c : c[i].action = Get(s[i], "action")
    BY <1>1
  <1>3. ASSUME NEW i \in DOMAIN c, NEW e, NEW q
        PROVE  AdminRuleAdmits(s[i], "to", e, q) <=> AdminRuleAdmits(c[i], "peers", e, q)
    <2> DEFINE to == Get(s[i], "to")
    <2>1. HasAdminPorts(s[i]) /\ \A j \in DOMAIN to : IsAdminPeer(to[j])
      BY <1>2 DEF Elements
    <2>2. /\ Get(c[i], "ports") = convertAWSPorts(Get(s[i], "ports"))
          /\ Get(c[i], "peers") = [j \in DOMAIN to |-> convertANPEgressPeer(to[j])]
      BY <1>1, <1>2 DEF Get, Each
    <2> HIDE DEF c, to
    <2>3. /\ DOMAIN Get(c[i], "peers") = DOMAIN to
          /\ \A j \in DOMAIN to : AdminPeerAdmits(Get(c[i], "peers")[j], e) <=> AdminPeerAdmits(to[j], e)
      BY <2>1, <2>2, EgressPeerKept
    <2> QED BY <2>1, <2>2, <2>3, AdminRuleKept DEF to
  <1> HIDE DEF c
  <1>4. SameAdminRules(s, c, "to")
    BY <1>2, <1>3, Zenon DEF SameAdminRules
  <1> QED BY <1>4 DEF c

\* Both kinds of admin network policies; their messages differ in the priority.
LEMMA AdminPolicyKept ==
  ASSUME NEW n, IsAdminPolicy(n), NEW m,
         m.subject = convertANPSubject(Get(n, "subject")),
         m.ingress = convertANPIngressRules(Get(n, "ingress")),
         m.egress = convertANPEgressRules(Get(n, "egress"))
  PROVE  SameAdminPolicy(n, m)
  <1>1. m.subject = convertAWSSubject(n["subject"][1]) /\ IsAdminSubject(n["subject"][1])
    BY DEF convertANPSubject, IsAdminPolicy, Get
  <1>2. \A e \in Ends : AdminPeerAdmits(n["subject"][1], e) <=> AdminPeerAdmits(m.subject, e)
    BY <1>1, SubjectKept
  <1>3. SameAdminRules(Get(n, "ingress"), m.ingress, "from")
    BY IngressRulesKept DEF IsAdminPolicy
  <1>4. SameAdminRules(Get(n, "egress"), m.egress, "to")
    BY EgressRulesKept DEF IsAdminPolicy
  <1> QED BY <1>2, <1>3, <1>4 DEF SameAdminPolicy

(* Egress firewalls and addresses of OVN-Kubernetes. *)

\* A string that is empty is left out; no traffic goes to it.
LEMMA DestinationKept ==
  ASSUME NEW d, IsList(Get(d, "nodeSelector")), NEW e \in Ends
  PROVE  DestinationAdmits(d, e) <=> DestinationAdmits(convertEgressFirewallDestination(d), e)
  <1> DEFINE m == convertEgressFirewallDestination(d)
             nodes == Get(d, "nodeSelector")
  <1>1. /\ Get(m, "cidrSelector") = NonEmpty(Get(d, "cidrSelector"))
        /\ Get(m, "dnsName") = NonEmpty(Get(d, "dnsName"))
        /\ Get(m, "nodeSelector") = convertLabelSelectorToProto(nodes)
        /\ m["nodeSelector"] = convertLabelSelectorToProto(nodes)
    BY DEF convertEgressFirewallDestination, Get
  <1>2. e.cidr # "" /\ e.domain # ""
    <2>1. e.cidr \in {"none", "in", "except", "out"} /\ e.domain \in Domains \cup {"none"}
      BY DEF Ends
    <2> QED BY <2>1, ReportAssumption
  <1>3. ASSUME NEW s, NEW v, v # "" PROVE NonEmpty(s) = <<v>> <=> s = <<v>>
    <2>1. <<"">>[1] = "" /\ <<v>>[1] = v
      OBVIOUS
    <2>2. << >> # <<v>> /\ <<"">> # <<v>>
      BY <2>1, <1>3
    <2> QED BY <2>2 DEF NonEmpty
  <1>4. nodes # << >> => d["nodeSelector"] = nodes
    BY DEF Get
  <1>5. Get(m, "nodeSelector") # << >> /\ Selects(m["nodeSelector"], e.labels)
        <=> nodes # << >> /\ Selects(d["nodeSelector"], e.labels)
    BY <1>1, <1>4, SelectionKept
  <1> HIDE DEF m
  <1>6. DestinationAdmits(d, e) <=> DestinationAdmits(m, e)
    BY <1>1, <1>2, <1>3, <1>5, Zenon DEF DestinationAdmits, nodes
  <1> QED BY <1>6 DEF m

\* The ports of a firewall's rule: a zero one is none.
LEMMA FirewallPortsKept ==
  ASSUME NEW s, IsList(s), NEW q \in TargetPorts
  PROVE  LET c == Each(LAMBDA p : [protocol |-> Get(p, "protocol"), port |-> NonZero(Get(p, "port"))], s)
         IN  FirewallPortsAdmit(c, q) <=> FirewallPortsAdmit(s, q)
  <1> DEFINE c == Each(LAMBDA p : [protocol |-> Get(p, "protocol"), port |-> NonZero(Get(p, "port"))], s)
             Ok(p) == /\ Get(p, "protocol") = <<q.protocol>>
                      /\ Get(p, "port") \in {<< >>, <<0>>, <<q.number>>}
  <1>1. c = [i \in DOMAIN s |-> [protocol |-> Get(s[i], "protocol"), port |-> NonZero(Get(s[i], "port"))]]
    BY DEF Each
  <1>2. ASSUME NEW i \in DOMAIN s PROVE Ok(c[i]) <=> Ok(s[i])
    <2>1. c[i] = [protocol |-> Get(s[i], "protocol"), port |-> NonZero(Get(s[i], "port"))]
      BY <1>1
    <2> HIDE DEF c
    <2>2. /\ DOMAIN c[i] = {"protocol", "port"}
          /\ c[i]["protocol"] = Get(s[i], "protocol") /\ c[i]["port"] = NonZero(Get(s[i], "port"))
      BY <2>1
    <2>3. Get(c[i], "protocol") = Get(s[i], "protocol") /\ Get(c[i], "port") = NonZero(Get(s[i], "port"))
      <3>1. "protocol" \in DOMAIN c[i] /\ "port" \in DOMAIN c[i]
        BY <2>2
      <3> QED BY <2>2, <3>1, Zenon DEF Get
    <2> QED BY <2>3 DEF NonZero
  <1>3. c = [i \in DOMAIN c |-> c[i]] /\ DOMAIN c = DOMAIN s
    BY <1>1
  <1> HIDE DEF c, Ok
  <1>4. c = << >> <=> s = << >>
    BY <1>3, ConvertedList
  <1>5. (\E p \in Elements(c) : Ok(p)) <=> (\E p \in Elements(s) : Ok(p))
    BY <1>2, <1>3, Zenon DEF Elements
  <1>6. FirewallPortsAdmit(c, q) <=> FirewallPortsAdmit(s, q)
    BY <1>4, <1>5, Zenon DEF FirewallPortsAdmit, Ok
  <1> QED BY <1>6 DEF c

\* The rules of an EgressFirewall keep their order, type, destination and ports.
LEMMA EgressFirewallKept ==
  ASSUME NEW n, IsEgressFirewall(n)
  PROVE  SameEgressFirewall(n, convertEgressFirewallData(n))
  <1> DEFINE m == convertEgressFirewallData(n)
             s == Get(n, "egress")
             PortsOf(r) == Each(LAMBDA p : [protocol |-> Get(p, "protocol"),
                                            port     |-> NonZero(Get(p, "port"))], Get(r, "ports"))
  <1>1. m = [i \in DOMAIN s |->
               [type  |-> Get(s[i], "type"),
                to    |-> convertEgressFirewallDestination(
                             IF Get(s[i], "to") = << >> THEN [f \in {} |-> << >>] ELSE s[i]["to"][1]),
                ports |-> PortsOf(s[i])]]
    BY DEF convertEgressFirewallData, Each
  <1>2. ASSUME NEW r, IsList(Get(r, "ports")), NEW q \in TargetPorts
        PROVE  FirewallPortsAdmit(PortsOf(r), q) <=> FirewallPortsAdmit(Get(r, "ports"), q)
    BY <1>2, FirewallPortsKept
  <1> HIDE DEF PortsOf
  <1>4. DOMAIN m = DOMAIN s
    BY <1>1
  <1>5. ASSUME NEW i \in DOMAIN s PROVE s = n["egress"]
    <2>1. DOMAIN << >> = {}
      OBVIOUS
    <2> QED BY <2>1 DEF Get
  <1>6. ASSUME NEW i \in DOMAIN m, NEW e \in Ends, NEW q \in TargetPorts
        PROVE  /\ m[i].type = Get(n["egress"][i], "type")
               /\ (/\ DestinationAdmits(n["egress"][i]["to"][1], e)
                   /\ FirewallPortsAdmit(Get(n["egress"][i], "ports"), q))
                  <=> (DestinationAdmits(m[i].to, e) /\ FirewallPortsAdmit(m[i].ports, q))
    <2>1. /\ Get(s[i], "to") # << >> /\ IsList(Get(s[i]["to"][1], "nodeSelector"))
          /\ IsList(Get(s[i], "ports"))
      BY <1>4 DEF IsEgressFirewall, Elements
    <2>2. /\ m[i].type = Get(s[i], "type") /\ m[i].to = convertEgressFirewallDestination(s[i]["to"][1])
          /\ m[i].ports = PortsOf(s[i])
      BY <1>1, <1>4, <2>1
    <2> HIDE DEF m, s
    <2>3. DestinationAdmits(s[i]["to"][1], e) <=> DestinationAdmits(m[i].to, e)
      BY <2>1, <2>2, DestinationKept
    <2>4. FirewallPortsAdmit(m[i].ports, q) <=> FirewallPortsAdmit(Get(s[i], "ports"), q)
      BY <1>2, <2>1, <2>2
    <2> QED BY <1>4, <1>5, <2>2, <2>3, <2>4
  <1>7. ASSUME NEW i \in DOMAIN m PROVE m[i].type = Get(n["egress"][i], "type")
    BY <1>1, <1>4, <1>5
  <1> HIDE DEF m
  <1>8. SameEgressFirewall(n, m)
    BY <1>4, <1>6, <1>7, Zenon DEF SameEgressFirewall, s
  <1> QED BY <1>8 DEF m

\* The selectors and addresses of an EgressIP.
LEMMA EgressIPKept ==
  ASSUME NEW n
  PROVE  SameEgressIP(n, convertEgressIPData(n))
  BY SelectionKept DEF SameEgressIP, convertEgressIPData

\* What is reported was converted from a policy of the cluster.
LEMMA ReportsAreConverted ==
  ReportSpec => [](\A r \in Elements(reported) : r.policy \in Policies /\ r.message = Converted(r.policy))
  <1> DEFINE Inv == \A r \in Elements(reported) : r.policy \in Policies /\ r.message = Converted(r.policy)
  <1>1. ReportInit => Inv
    BY DEF ReportInit, Elements
  <1>2. Inv /\ [ReportPolicy]_reported => Inv'
    <2> SUFFICES ASSUME Inv, [ReportPolicy]_reported PROVE Inv'
      OBVIOUS
    <2>1. CASE ReportPolicy
      <3>1. PICK p \in Policies : reported' = <<[policy |-> p, message |-> Converted(p)]>>
        BY <2>1 DEF ReportPolicy
      <3>2. \A r \in Elements(reported') : r = [policy |-> p, message |-> Converted(p)]
        BY <3>1 DEF Elements
      <3>3. \A r \in Elements(reported') : r.policy \in Policies /\ r.message = Converted(r.policy)
        BY <3>2
      <3> QED BY <3>3
    <2>2. CASE UNCHANGED reported
      BY <2>2
    <2> QED BY <2>1, <2>2
  <1> QED BY <1>1, <1>2, PTL DEF ReportSpec

(***************************************************************************)
(* PolicyMeaningKept: whatever a policy of Kubernetes, of AWS (only        *)
(* ApplicationNetworkPolicy) or of OVN that the API server accepts has in  *)
(* it, the message made of it admits the same connections.  (the           *)
(* converters that Converted names)                                        *)
(***************************************************************************)
THEOREM PolicyMeaningAlwaysKept == ReportSpec => []PolicyMeaningKept
  <1> DEFINE Inv == \A r \in Elements(reported) : r.policy \in Policies /\ r.message = Converted(r.policy)
  <1>1. Inv => PolicyMeaningKept
    <2> SUFFICES ASSUME Inv, NEW r \in Elements(reported)
                 PROVE  LET n == r.policy.native  m == r.message
                        IN  CASE r.policy.form = "NetworkPolicy" -> SameNetworkPolicy(n, m)
                              [] r.policy.form = "ApplicationNetworkPolicy" -> SameApplicationNetworkPolicy(n, m)
                              [] r.policy.form = "AdminNetworkPolicy" ->
                                    SameAdminPolicy(n, m) /\ m.priority = Get(n, "priority")
                              [] r.policy.form = "BaselineAdminNetworkPolicy" -> SameAdminPolicy(n, m)
                              [] r.policy.form = "EgressFirewall" -> SameEgressFirewall(n, m)
                              [] r.policy.form = "EgressIP" -> SameEgressIP(n, m)
      BY DEF PolicyMeaningKept
    <2> DEFINE p == r.policy  n == p.native  m == r.message
    <2>1. Valid(p) /\ m = Converted(p)
      BY ReportAssumption
    <2> HIDE DEF p, m
    <2>2. CASE p.form = "NetworkPolicy"
      <3>1. IsNetworkPolicy(n) /\ m = convertNetworkPolicyToProto(n)
        BY <2>1, <2>2 DEF Valid, Converted
      <3>2. SameNetworkPolicy(n, m)
        BY <3>1, NetworkPolicyKept
      <3> QED BY <2>2, <3>2 DEF p, m
    <2>3. CASE p.form = "ApplicationNetworkPolicy"
      <3>1. IsApplicationNetworkPolicy(n) /\ m = convertAWSApplicationNetworkPolicy(n)
        BY <2>1, <2>3 DEF Valid, Converted
      <3>2. SameApplicationNetworkPolicy(n, m)
        BY <3>1, ApplicationNetworkPolicyKept
      <3> QED BY <2>3, <3>2 DEF p, m
    <2>4. CASE p.form \in {"AdminNetworkPolicy", "BaselineAdminNetworkPolicy"}
      <3>1. /\ IsAdminPolicy(n)
            /\ m = convertAdminNetworkPolicyData(n) \/ m = convertBaselineAdminNetworkPolicyData(n)
        BY <2>1, <2>4 DEF Valid, Converted
      <3>2. /\ m.subject = convertANPSubject(Get(n, "subject"))
            /\ m.ingress = convertANPIngressRules(Get(n, "ingress"))
            /\ m.egress = convertANPEgressRules(Get(n, "egress"))
        BY <3>1 DEF convertAdminNetworkPolicyData, convertBaselineAdminNetworkPolicyData,
                    convertBaselineANPIngressRules, convertBaselineANPEgressRules
      <3>3. SameAdminPolicy(n, m)
        BY <3>1, <3>2, AdminPolicyKept
      <3>4. p.form = "AdminNetworkPolicy" => m.priority = Get(n, "priority")
        BY <2>1 DEF Converted, convertAdminNetworkPolicyData
      <3> QED BY <2>4, <3>3, <3>4 DEF p, m
    <2>5. CASE p.form = "EgressFirewall"
      <3>1. IsEgressFirewall(n) /\ m = convertEgressFirewallData(n)
        BY <2>1, <2>5 DEF Valid, Converted
      <3>2. SameEgressFirewall(n, m)
        BY <3>1, EgressFirewallKept
      <3> QED BY <2>5, <3>2 DEF p, m
    <2>6. CASE p.form = "EgressIP"
      <3>1. m = convertEgressIPData(n)
        BY <2>1, <2>6 DEF Converted
      <3>2. SameEgressIP(n, m)
        BY <3>1, EgressIPKept
      <3> QED BY <2>6, <3>2 DEF p, m
    <2> QED BY <2>1, <2>2, <2>3, <2>4, <2>5, <2>6 DEF Valid
  <1>2. ReportSpec => []Inv
    BY ReportsAreConverted
  <1> QED BY <1>1, <1>2, PTL
================================================================================
