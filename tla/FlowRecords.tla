------------------------------ MODULE FlowRecords ------------------------------
(***************************************************************************)
(* How the collectors turn what they receive into flows: a line of the AWS *)
(* Network Policy Agent's log in either of its formats, an IPFIX data      *)
(* record of Open vSwitch, a Hubble flow; and the key under which the flow *)
(* cache aggregates a flow.  After the decoders come the observers of the  *)
(* cluster's traffic: a record arrives whole or damaged, and what is       *)
(* decoded goes to the flow cache under its key.                           *)
(*                                                                         *)
(* Results are sequences: << >> is an error or nil, <<v>> a value; where   *)
(* decoding may also end the process, they are [outcome, flow].  Labels,   *)
(* workloads, policies and TCP flags are copied or left empty and do not   *)
(* take part.                                                              *)
(***************************************************************************)
EXTENDS Integers, Sequences, FiniteSets

CONSTANTS
    SixAddresses, \* the addresses of the model with a colon in them
    Addresses, Ports,
    Identities,   \* Cilium's endpoint IDs
    Times,        \* timestamps that can be parsed
    Traffic,      \* what the AWS agent and Open vSwitch see
    Arrivals,     \* what becomes of the fields of an IPFIX record: see Arrived
    Connections,  \* what Hubble sees, each in both directions
    MaxCached     \* bound on the keys of Hubble flows that are cached

isIPv6(addr) == addr \in SixAddresses

CreateLayer3Message(src, dst, version) ==
    IF version \in {"ipv4", "ipv6"}
    THEN <<[source |-> src, destination |-> dst, version |-> version]>>
    ELSE << >>

\* SCTP is not known here, though ParseProtocol and the key are prepared for it.
CreateLayer4Message(proto, sport, dport, version) ==
    CASE proto \in {"tcp", "udp"} -> <<[protocol |-> proto, source |-> sport, destination |-> dport]>>
      [] proto = "icmp" /\ version = "ipv4" -> <<[protocol |-> "icmpv4", source |-> 0, destination |-> 0]>>
      [] proto = "icmp" /\ version = "ipv6" -> <<[protocol |-> "icmpv6", source |-> 0, destination |-> 0]>>
      [] OTHER -> << >>

FiveTupleFlow(l3, l4, ts) ==
    IF l3 = << >> \/ l4 = << >> THEN << >>
    ELSE <<[layer3 |-> l3[1], layer4 |-> l4, ts |-> ts, isReply |-> FALSE, uids |-> <<0, 0>>]>>

(***************************************************************************)
(* AWS VPC CNI and EKS Auto Mode.  A line is [json, flowInfo, logger,      *)
(* caller, fields, msg, ts]: fields is the tuple in separate JSON fields,  *)
(* msg the one the pattern finds in the message, << >> if none.            *)
(***************************************************************************)
parseOldFormat(line) ==
    IF line.fields = << >> \/ line.fields[1].src = "" \/ line.fields[1].dst = ""
    THEN << >> ELSE line.fields

parseFlowFromMsg(line) == line.msg

isOldFormat(line) == line.logger = "ebpf-client"
isNewFormat(line) == line.caller # "" /\ line.logger = ""

tupleOf(line) == IF isOldFormat(line) THEN parseOldFormat(line) ELSE parseFlowFromMsg(line)

ParseAWSVPCCNIFlowLog(line) ==
    LET t == tupleOf(line)[1]
        version == IF isIPv6(t.src) \/ isIPv6(t.dst) THEN "ipv6" ELSE "ipv4"
        proto == IF t.proto = "unknown" THEN "tcp" ELSE t.proto
    IN  IF /\ line.json /\ line.flowInfo
           /\ isOldFormat(line) \/ isNewFormat(line)
           /\ tupleOf(line) # << >>
           /\ line.ts # "invalid"
        THEN FiveTupleFlow(CreateLayer3Message(t.src, t.dst, version),
                           CreateLayer4Message(proto, t.sport, t.dport, version),
                           line.ts)
        ELSE << >>

(***************************************************************************)
(* OVN-Kubernetes.  A data record is a sequence of fields [type, len, val] *)
(* in the order of its template: len bytes, the first of which hold val.   *)
(* Types that no case names are passed over.                               *)
(***************************************************************************)

\* The protocol numbers and versions that are known.
ParseProtocol == [n \in {1, 6, 17, 132} |->
    CASE n = 1 -> "icmp" [] n = 6 -> "tcp" [] n = 17 -> "udp" [] n = 132 -> "sctp"]

ParseIPVersion == [n \in {4, 6} |-> IF n = 4 THEN "ipv4" ELSE "ipv6"]

\* The length a field must have at least, by its type.
LeastLength == [t \in {8, 12, 27, 28, 7, 11, 4, 60} |->
    CASE t \in {8, 12} -> 4 [] t \in {27, 28} -> 16 [] t \in {7, 11} -> 2 [] OTHER -> 1]

\* Whether a field is refused, and with it the record: only the addresses of
\* IPv6 may not be longer either.
Unparsable(f) ==
    \/ f.type \in DOMAIN LeastLength /\ f.len < LeastLength[f.type]
    \/ f.type \in {27, 28} /\ f.len > 16
    \/ f.type = 4  /\ f.val \notin DOMAIN ParseProtocol
    \/ f.type = 60 /\ f.val \notin DOMAIN ParseIPVersion

\* The two times are read without a look at their length: Uint32 panics, and
\* nothing recovers.
Panics(f) == f.type \in {158, 159} /\ f.len < 4

\* What the last field of these types leaves, if there is any.
LastOf(record, types, otherwise) ==
    LET at == {i \in DOMAIN record : record[i].type \in types}
    IN  IF at = {} THEN otherwise
        ELSE record[CHOOSE i \in at : \A j \in at : j <= i].val

\* What the fields of a record leave, of which each overwrites what an earlier
\* one of its kind left.
Assembled(record) ==
    LET version == LastOf(record, {60}, 0)
        proto   == LastOf(record, {4}, 0)
    IN  [src     |-> LastOf(record, {8, 27}, ""),
         dst     |-> LastOf(record, {12, 28}, ""),
         sport   |-> LastOf(record, {7}, 0),
         dport   |-> LastOf(record, {11}, 0),
         proto   |-> IF proto = 0 THEN "" ELSE ParseProtocol[proto],
         version |-> IF version = 0 THEN "" ELSE ParseIPVersion[version],
         ts      |-> LastOf(record, {158}, "epoch")]

\* MUTANT: a field that cannot be parsed is passed over.
ProcessDataRecordLeniently(record) ==
    [outcome |-> "ok", flow |-> <<Assembled(SelectSeq(record, LAMBDA f : ~(Unparsable(f) \/ Panics(f))))>>]

\* The first field that cannot be read decides what becomes of the record.
ProcessDataRecord(record) ==
    LET Unread(i) == Unparsable(record[i]) \/ Panics(record[i])
    IN  IF ~\E i \in DOMAIN record : Unread(i)
        THEN [outcome |-> "ok", flow |-> <<Assembled(record)>>]
        ELSE [outcome |-> IF \E i \in DOMAIN record :
                                Panics(record[i]) /\ \A j \in DOMAIN record : Unread(j) => j >= i
                          THEN "panic" ELSE "error",
              flow |-> << >>]

\* The flow processIPFIXMessage caches for a record.
OvnkFlow(record) ==
    LET o == ProcessDataRecord(record).flow
    IN  IF o = << >> THEN << >>
        ELSE FiveTupleFlow(CreateLayer3Message(o[1].src, o[1].dst, o[1].version),
                           CreateLayer4Message(o[1].proto, o[1].sport, o[1].dport, o[1].version),
                           o[1].ts)

(***************************************************************************)
(* Cilium.  A Hubble flow is [time, ip, l4, uids, isReply], the first three*)
(* optional; a protocol the protobuf does not have leaves layer 4 without  *)
(* protocol.  isReply is << >> when Hubble does not know.                  *)
(***************************************************************************)
convertCiliumLayer4(l4) ==
    IF l4.protocol \in {"tcp", "udp", "sctp"} THEN <<l4>>
    ELSE IF l4.protocol \in {"icmpv4", "icmpv6"}
    THEN <<[protocol |-> l4.protocol, source |-> 0, destination |-> 0]>>
    ELSE << >>

ConvertCiliumFlow(h) ==
    IF h.time = << >> \/ h.ip = << >> \/ h.l4 = << >> THEN << >>
    ELSE <<[layer3  |-> h.ip[1],
            layer4  |-> convertCiliumLayer4(h.l4[1]),
            ts      |-> h.time[1],
            isReply |-> h.isReply = <<TRUE>>,
            uids    |-> h.uids]>>

(***************************************************************************)
(* Keys of the flow cache.  Layer 4 without protocol is "unknown".         *)
(***************************************************************************)
FiveTupleFlowKey(flow) ==
    LET l4 == IF flow.layer4 = << >>
              THEN [protocol |-> "unknown", source |-> 0, destination |-> 0]
              ELSE flow.layer4[1]
    IN  [ips   |-> <<flow.layer3.source, flow.layer3.destination>>,
         ports |-> <<l4.source, l4.destination>>,
         proto |-> l4.protocol]

Swapped(pair) == <<pair[2], pair[1]>>

\* MUTANT: the identities of a reply are not exchanged.
CiliumFlowKeyByAddress(flow) ==
    LET k == FiveTupleFlowKey(flow)
    IN  [ips   |-> IF flow.isReply THEN Swapped(k.ips) ELSE k.ips,
         ports |-> IF flow.isReply THEN Swapped(k.ports) ELSE k.ports,
         proto |-> k.proto, uids |-> flow.uids]

\* A reply has the key of the request: all its ends are exchanged.
CiliumFlowKey(flow) ==
    LET k == FiveTupleFlowKey(flow)
    IN  IF flow.isReply
        THEN [ips |-> Swapped(k.ips), ports |-> Swapped(k.ports), proto |-> k.proto,
              uids |-> Swapped(flow.uids)]
        ELSE [ips |-> k.ips, ports |-> k.ports, proto |-> k.proto, uids |-> flow.uids]

--------------------------------------------------------------------------------
(* What is observed.  Hubble sees a connection from both of its ends, once as   *)
(* request and once as reply.                                                   *)

Protocols == {"tcp", "udp", "icmp", "sctp"}

ASSUME DecodingAssumption ==
    /\ "" \notin Addresses /\ "invalid" \notin Times
    /\ Traffic \subseteq [src : Addresses, dst : Addresses, sport : Ports, dport : Ports,
                          proto : Protocols]
    /\ \A t \in Traffic : isIPv6(t.src) <=> isIPv6(t.dst)
    /\ Connections \subseteq [ips : Addresses \X Addresses, ports : Ports \X Ports,
                              uids : Identities \X Identities, proto : Protocols]
    /\ \A c \in Connections : isIPv6(c.ips[1]) <=> isIPv6(c.ips[2])
    /\ Arrivals \subseteq [1..8 -> [how : {"itself", "another", "unknown"}, more : Int]]
    /\ MaxCached \in Nat

VARIABLES
    last,    \* the last record, << >> before: [tuple, ts, condition, missing, flow,
             \* outcome], where tuple and ts are the traffic it records and when,
             \* condition is "whole", "partial" or "unusable" (damaged, or of a protocol
             \* that is not known), missing the parts it does not speak of (all these
             \* auxiliary), flow what the decoder made of it, and outcome "panic" if the
             \* process ended over it
    cached   \* the keys of the Hubble flows that were cached, with the connection
             \* (auxiliary): [key, connection]

recordVars == <<last, cached>>

DecodingInit == last = << >> /\ cached = {}

Decoded(record) == last' = <<record>>

\* A line or a Hubble flow is whole or unusable, and the process goes on.
Received(t, ts, whole, flow) ==
    [tuple |-> t, ts |-> ts, condition |-> IF whole THEN "whole" ELSE "unusable",
     missing |-> {}, flow |-> flow, outcome |-> IF flow = << >> THEN "error" ELSE "ok"]

(***************************************************************************)
(* The agent's line: its old format has the tuple in fields, the new one   *)
(* in the message.  The agent calls a TCP connection "unknown" at times.   *)
(***************************************************************************)
AgentNames(proto) == {proto} \cup (IF proto = "tcp" THEN {"unknown"} ELSE {})

AgentLine(t, old, ts) ==
    [json |-> TRUE, flowInfo |-> TRUE,
     logger |-> IF old THEN "ebpf-client" ELSE "", caller |-> IF old THEN "" ELSE "runtime",
     fields |-> IF old THEN <<t>> ELSE << >>, msg |-> IF old THEN << >> ELSE <<t>>,
     ts |-> ts]

\* Torn, of another subject, of another logger, without addresses.
DamagedLines(line) ==
    {[line EXCEPT !.json = FALSE], [line EXCEPT !.flowInfo = FALSE],
     [line EXCEPT !.logger = "other"], [line EXCEPT !.fields = << >>, !.msg = << >>]}
    \cup {[line EXCEPT !.fields[1].src = ""] : i \in DOMAIN line.fields}

\* A process runs one collector: this one's caches no Hubble flows.
ReceiveLogLine ==
    /\ cached = {}
    /\ \E t \in Traffic, old \in BOOLEAN, ts \in Times \cup {"invalid"} :
       \E proto \in AgentNames(t.proto) :
          LET line == AgentLine([t EXCEPT !.proto = proto], old, ts)
          IN  \E received \in {line} \cup DamagedLines(line) :
                Decoded(Received(t, ts, received = line /\ ts \in Times /\ t.proto # "sctp",
                                 ParseAWSVPCCNIFlowLog(received)))
    /\ UNCHANGED cached

(***************************************************************************)
(* A data record of Open vSwitch, by the template for its IP version.      *)
(***************************************************************************)
ProtocolNumber == [p \in Protocols |->
    CASE p = "icmp" -> 1 [] p = "tcp" -> 6 [] p = "udp" -> 17 [] p = "sctp" -> 132]

ExportedRecord(t, ts) ==
    LET six == isIPv6(t.src)
        Field(type, len, val) == [type |-> type, len |-> len, val |-> val]
    IN  <<Field(60, 1, IF six THEN 6 ELSE 4),
          Field(4, 1, ProtocolNumber[t.proto]),
          IF six THEN Field(27, 16, t.src) ELSE Field(8, 4, t.src),
          IF six THEN Field(28, 16, t.dst) ELSE Field(12, 4, t.dst),
          Field(7, 2, t.sport), Field(11, 2, t.dport),
          Field(158, 4, ts), Field(159, 4, ts)>>

Parts == <<"version", "proto", "src", "dst", "sport", "dport", "ts", "end">>

\* A field as it arrives: itself, of another type (its part is missing), or with a
\* number that is not known; and more bytes than it should have, or fewer.
Arrived(f, a) ==
    [type |-> IF a.how = "another" THEN 0 ELSE f.type,
     len  |-> f.len + a.more,
     val  |-> IF a.how = "unknown" /\ f.type \in {4, 60} THEN 47 ELSE f.val]

\* Whether what arrives at position i of a record is damaged.
DamagedField(a, i) == a.how # "another" /\ (a.more < 0 \/ (a.how = "unknown" /\ i <= 2))

WholeRecord(arrival) == \A i \in DOMAIN arrival : arrival[i] = [how |-> "itself", more |-> 0]

Condition(arrival, t) ==
    IF WholeRecord(arrival) /\ t.proto # "sctp" THEN "whole"
    ELSE IF t.proto = "sctp" \/ \E i \in DOMAIN arrival : DamagedField(arrival[i], i) THEN "unusable"
    ELSE "partial"

ReceiveDataRecord ==
    /\ cached = {}
    /\ \E t \in Traffic, ts \in Times, arrival \in Arrivals :
          LET received == [i \in 1..8 |-> Arrived(ExportedRecord(t, ts)[i], arrival[i])]
          IN  Decoded([tuple     |-> t, ts |-> ts, condition |-> Condition(arrival, t),
                       missing   |-> {Parts[i] : i \in {j \in 1..8 : arrival[j].how = "another"}},
                       flow      |-> OvnkFlow(received),
                       outcome   |-> ProcessDataRecord(received).outcome])
    /\ UNCHANGED cached

(***************************************************************************)
(* Hubble's flow of one direction of a connection.  The first of a pair is *)
(* the client's.  ICMP has no ports, and not always is it known whether a  *)
(* flow is a reply.                                                        *)
(***************************************************************************)
Oriented(pair, reply) == IF reply THEN <<pair[2], pair[1]>> ELSE pair

ConnectionTuple(c, reply) ==
    [src   |-> Oriented(c.ips, reply)[1],   dst   |-> Oriented(c.ips, reply)[2],
     sport |-> Oriented(c.ports, reply)[1], dport |-> Oriented(c.ports, reply)[2],
     proto |-> c.proto]

HubbleFlow(c, reply, known, ts) ==
    LET t   == ConnectionTuple(c, reply)
        six == isIPv6(t.src)
    IN  [time |-> <<ts>>,
         ip   |-> <<[source |-> t.src, destination |-> t.dst,
                     version |-> IF six THEN "ipv6" ELSE "ipv4"]>>,
         l4   |-> <<[protocol    |-> IF t.proto # "icmp" THEN t.proto
                                     ELSE IF six THEN "icmpv6" ELSE "icmpv4",
                     source      |-> IF t.proto = "icmp" THEN 0 ELSE t.sport,
                     destination |-> IF t.proto = "icmp" THEN 0 ELSE t.dport]>>,
         uids |-> Oriented(c.uids, reply),
         isReply |-> IF known THEN <<reply>> ELSE << >>]

\* What makes two connections the same.
Identity(c) == IF c.proto = "icmp" THEN [c EXCEPT !.ports = <<0, 0>>] ELSE c

\* Flows of which Hubble did not know the time, the addresses or the protocol.
DamagedFlows(h) == {[h EXCEPT !.time = << >>], [h EXCEPT !.ip = << >>], [h EXCEPT !.l4 = << >>]}

ReceiveHubbleFlow ==
    /\ Cardinality(cached) < MaxCached
    /\ \E c \in Connections, reply, known \in BOOLEAN, ts \in Times :
          LET h == HubbleFlow(c, reply, known, ts)
          IN  \E received \in {h} \cup DamagedFlows(h) :
                LET flow == ConvertCiliumFlow(received)
                IN  /\ Decoded(Received(ConnectionTuple(c, reply), ts, received = h, flow))
                    /\ cached' = cached \cup
                          {[key |-> CiliumFlowKey(flow[i]), connection |-> Identity(c)] :
                              i \in {j \in DOMAIN flow : known}}

DecodingNext == ReceiveLogLine \/ ReceiveDataRecord \/ ReceiveHubbleFlow

DecodingSpec == DecodingInit /\ [][DecodingNext]_recordVars

ProtocolOf(t) == IF t.proto # "icmp" THEN t.proto
                 ELSE IF isIPv6(t.src) THEN "icmpv6" ELSE "icmpv4"

\* A flow says of traffic what it was, and nothing of what is missing.
IsTraffic(flow, t, ts, missing) ==
    LET k == FiveTupleFlowKey(flow)
        Told(part, value, nothing) == IF part \in missing THEN nothing ELSE value
    IN  /\ k.ips = <<Told("src", t.src, ""), Told("dst", t.dst, "")>>
        /\ k.ports = IF t.proto = "icmp" THEN <<0, 0>>
                     ELSE <<Told("sport", t.sport, 0), Told("dport", t.dport, 0)>>
        /\ k.proto = ProtocolOf(t)
        /\ flow.layer3.version = IF isIPv6(t.src) THEN "ipv6" ELSE "ipv4"
        /\ flow.ts = Told("ts", ts, "epoch")

(***************************************************************************)
(* A whole record of TCP, UDP or ICMP traffic (for Hubble: SCTP too)       *)
(* becomes a flow, and one with a damaged field does not.  Every part of a *)
(* flow is the traffic's own, or empty because the record does not speak   *)
(* of it, which the protocol and the IP version never are.  Only damage    *)
(* ends the process.  (ParseAWSVPCCNIFlowLog, ProcessDataRecord,           *)
(* ConvertCiliumFlow)                                                      *)
(***************************************************************************)
FlowIsTraffic ==
    last # << >> =>
        LET r == last[1]
        IN  /\ r.condition = "whole" => r.flow # << >>
            /\ r.condition = "unusable" => r.flow = << >>
            /\ r.flow # << >> => IsTraffic(r.flow[1], r.tuple, r.ts, r.missing)
            /\ r.outcome = "panic" => r.condition = "unusable"

(***************************************************************************)
(* Hubble flows are aggregated under one key exactly if they belong to one *)
(* connection, in whichever direction and order Hubble saw them, provided  *)
(* that it knew the direction.  (Key of CiliumFlow)                        *)
(***************************************************************************)
KeyIsConnection ==
    \A d, e \in cached : d.key = e.key <=> d.connection = e.connection
=============================================================================
