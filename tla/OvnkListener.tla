------------------------------ MODULE OvnkListener ------------------------------
(***************************************************************************)
(* The OVN-Kubernetes collector: a UDP listener, and a goroutine that      *)
(* reads packets, decodes them and caches a flow per data record.  Run     *)
(* waits for its context only, and does not wait for the reader.           *)
(*                                                                         *)
(* A record is good, bad (ProcessDataRecord, CreateLayer3Message or        *)
(* CreateLayer4Message refuses it, see FlowRecords), fatal (its timestamp  *)
(* is too short, and ProcessDataRecord panics, which nothing recovers), or *)
(* part of a packet that does not decode.                                  *)
(***************************************************************************)
EXTENDS Integers, Sequences, FiniteSets

CONSTANTS
    Listeners,    \* sessions of the collector, in the order 1..n
    Packets,      \* the packets that may arrive: sequences over Kinds
    MaxPackets    \* bound on the packets sent

Kinds == {"good", "bad", "fatal", "undecodable"}

ASSUME ListenerAssumption ==
    /\ Listeners \in Nat \ {0}
    /\ MaxPackets \in Nat
    /\ Packets \subseteq Seq(Kinds)

VARIABLES
    ipfixRun,   \* ipfixRun[s]: "new", "up", "cancelled" or "over"
    reader,     \* reader[s]: "none", "reading", "handling" or "gone"
    inPacket,   \* inPacket[s]: the records left of the packet in hand
    port,       \* the session that holds the port, 0 if none
    socket,     \* packets that arrived at the port and were not read
    sent,       \* number of packets sent
    exited,     \* the process ended, in logger.Fatal or in a panic
    fine,       \* history: good records that came in a packet that was read
    cached,     \* history: records cached
    dropped,    \* history: good records left out
    readFailed  \* history: sessions whose read failed

ovnkVars == <<ipfixRun, reader, inPacket, port, socket, sent, exited,
              fine, cached, dropped, readFailed>>

Sessions == 1..Listeners

\* Type invariant of the listener.
OvnkTypeOK ==
    /\ ipfixRun \in [Sessions -> {"new", "up", "cancelled", "over"}]
    /\ reader \in [Sessions -> {"none", "reading", "handling", "gone"}]
    /\ \A s \in Sessions : /\ inPacket[s] \in Seq(Kinds)
                           /\ inPacket[s] # << >> => reader[s] = "handling"
                           /\ port = s => ipfixRun[s] \in {"up", "cancelled"} \/ exited
    /\ port \in 0..Listeners /\ sent \in 0..MaxPackets /\ exited \in BOOLEAN
    /\ socket \in Seq(Packets)

OvnkInit ==
    /\ ipfixRun = [s \in Sessions |-> "new"]
    /\ reader = [s \in Sessions |-> "none"]
    /\ inPacket = [s \in Sessions |-> << >>]
    /\ port = 0 /\ socket = << >> /\ sent = 0 /\ exited = FALSE
    /\ fine = 0 /\ cached = 0 /\ dropped = 0 /\ readFailed = {}

Goods(p) == Cardinality({i \in DOMAIN p : p[i] = "good"})

\* Open vSwitch exports a packet; with no listener it is lost.
ExportPacket ==
    /\ sent < MaxPackets /\ ~exited
    /\ sent' = sent + 1
    /\ \E p \in Packets : socket' = IF port = 0 THEN socket ELSE Append(socket, p)
    /\ UNCHANGED <<ipfixRun, reader, inPacket, port, exited, fine, cached, dropped, readFailed>>

\* RunIPFIXCollector up to its wait.  A session begins when the one before it
\* was cancelled; if that has not closed its listener yet, the process ends.
RunIPFIXCollector(s) ==
    /\ ~exited /\ ipfixRun[s] = "new"
    /\ s > 1 => ipfixRun[s - 1] \in {"cancelled", "over"}
    /\ IF port # 0
       THEN exited' = TRUE /\ UNCHANGED <<ipfixRun, reader, port>>
       ELSE /\ port' = s
            /\ ipfixRun' = [ipfixRun EXCEPT ![s] = "up"]
            /\ reader' = [reader EXCEPT ![s] = "reading"]
            /\ UNCHANGED exited
    /\ UNCHANGED <<inPacket, socket, sent, fine, cached, dropped, readFailed>>

\* NewTemplateSystem fails: the listener is closed again and the error retried.
TemplatesMissing(s) ==
    /\ ~exited /\ ipfixRun[s] = "new" /\ port = 0
    /\ s > 1 => ipfixRun[s - 1] \in {"cancelled", "over"}
    /\ ipfixRun' = [ipfixRun EXCEPT ![s] = "over"]
    /\ UNCHANGED <<reader, inPacket, port, socket, sent, exited, fine, cached, dropped,
                   readFailed>>

CancelListener(s) ==
    /\ ~exited /\ ipfixRun[s] = "up"
    /\ ipfixRun' = [ipfixRun EXCEPT ![s] = "cancelled"]
    /\ UNCHANGED <<reader, inPacket, port, socket, sent, exited, fine, cached, dropped,
                   readFailed>>

\* Run returns, its listener is closed and what the socket held is lost.
CloseListener(s) ==
    /\ ~exited /\ ipfixRun[s] = "cancelled"
    /\ ipfixRun' = [ipfixRun EXCEPT ![s] = "over"]
    /\ port' = 0 /\ socket' = << >>
    /\ UNCHANGED <<reader, inPacket, sent, exited, fine, cached, dropped, readFailed>>

\* ReadFrom returns a packet.  One that does not decode is logged.
ReadPacket(s) ==
    /\ ~exited /\ reader[s] = "reading" /\ ipfixRun[s] \in {"up", "cancelled"}
    /\ socket # << >>
    /\ socket' = Tail(socket)
    /\ LET p == IF \E i \in DOMAIN Head(socket) : Head(socket)[i] = "undecodable"
                THEN << >> ELSE Head(socket) IN
       /\ inPacket' = [inPacket EXCEPT ![s] = p]
       /\ fine' = fine + Goods(p)
       /\ reader' = [reader EXCEPT ![s] = "handling"]
    /\ UNCHANGED <<ipfixRun, port, sent, exited, cached, dropped, readFailed>>

\* The reader ends: a read error, the closed listener, or its context.
ReaderEnds(s) ==
    /\ ~exited /\ reader[s] = "reading"
    /\ reader' = [reader EXCEPT ![s] = "gone"]
    /\ readFailed' = IF ipfixRun[s] = "up" THEN readFailed \cup {s} ELSE readFailed
    /\ UNCHANGED <<ipfixRun, inPacket, port, socket, sent, exited, fine, cached, dropped>>

\* Mutant of NextRecord: a record that is refused ends the packet.
NextRecordOrNone(s) ==
    /\ ~exited /\ reader[s] = "handling" /\ inPacket[s] # << >>
    /\ Head(inPacket[s]) # "fatal"
    /\ IF Head(inPacket[s]) = "bad"
       THEN inPacket' = [inPacket EXCEPT ![s] = << >>] /\ UNCHANGED cached
       ELSE inPacket' = [inPacket EXCEPT ![s] = Tail(@)] /\ cached' = cached + 1
    /\ UNCHANGED <<ipfixRun, reader, port, socket, sent, exited, fine, dropped, readFailed>>

\* processIPFIXMessage, one record: a bad one is skipped, a fatal one ends the
\* process with all that is in hand.
NextRecord(s) ==
    /\ ~exited /\ reader[s] = "handling" /\ inPacket[s] # << >>
    /\ IF Head(inPacket[s]) = "fatal"
       THEN exited' = TRUE /\ UNCHANGED <<inPacket, cached>>
       ELSE /\ inPacket' = [inPacket EXCEPT ![s] = Tail(@)]
            /\ cached' = IF Head(inPacket[s]) = "good" THEN cached + 1 ELSE cached
            /\ UNCHANGED exited
    /\ UNCHANGED <<ipfixRun, reader, port, socket, sent, fine, dropped, readFailed>>

\* CacheFlow fails because the context ended: the rest of the packet is dropped.
CacheFails(s) ==
    /\ ~exited /\ reader[s] = "handling" /\ inPacket[s] # << >>
    /\ Head(inPacket[s]) = "good" /\ ipfixRun[s] # "up"
    /\ dropped' = dropped + Goods(inPacket[s])
    /\ inPacket' = [inPacket EXCEPT ![s] = << >>]
    /\ UNCHANGED <<ipfixRun, reader, port, socket, sent, exited, fine, cached, readFailed>>

\* Mutant of PacketDone: the reader ends with its first packet.
PacketDoneReturns(s) ==
    /\ ~exited /\ reader[s] = "handling" /\ inPacket[s] = << >>
    /\ reader' = [reader EXCEPT ![s] = "gone"]
    /\ UNCHANGED <<ipfixRun, inPacket, port, socket, sent, exited, fine, cached, dropped,
                   readFailed>>

\* Whatever became of the packet, the reader goes back to its context and on.
PacketDone(s) ==
    /\ ~exited /\ reader[s] = "handling" /\ inPacket[s] = << >>
    /\ reader' = [reader EXCEPT ![s] = IF ipfixRun[s] = "up" THEN "reading" ELSE "gone"]
    /\ UNCHANGED <<ipfixRun, inPacket, port, socket, sent, exited, fine, cached, dropped,
                   readFailed>>

ReaderStep(s) == ReadPacket(s) \/ NextRecord(s) \/ PacketDone(s)

OvnkNext ==
    \/ ExportPacket
    \/ \E s \in Sessions :
          \/ RunIPFIXCollector(s)
          \/ TemplatesMissing(s)
          \/ CancelListener(s)
          \/ CloseListener(s)
          \/ ReaderStep(s)
          \/ ReaderEnds(s)
          \/ CacheFails(s)

(* The goroutines run.  Read errors are the network's. *)
OvnkFairness ==
    \A s \in Sessions : /\ WF_ovnkVars(ReaderStep(s))
                        /\ WF_ovnkVars(CloseListener(s))
                        /\ WF_ovnkVars(ipfixRun[s] # "up" /\ ReaderEnds(s))

OvnkSpec == OvnkInit /\ [][OvnkNext]_ovnkVars
FairOvnk == OvnkSpec /\ OvnkFairness

--------------------------------------------------------------------------------
\* A record that is refused never takes another one with it: every good record of
\* a packet that was read is cached, still in hand, or was left out because the
\* session ended under it.  What is in hand when a fatal record ends the process
\* stays there, and is lost with it.
RecordsAccounted ==
    LET inHand == {s \in Sessions : Goods(inPacket[s]) > 0} IN
    /\ inHand = {} => fine = cached + dropped
    /\ fine >= cached + dropped
    /\ (\A s \in Sessions : ipfixRun[s] # "cancelled" /\ ipfixRun[s] # "over")
          => dropped = 0

\* The good records that are still in hand, each with its session.
GoodAt(p)   == {i \in DOMAIN p : p[i] = "good"}
GoodsIn(ps) == UNION {{s} \X GoodAt(ps[s]) : s \in Sessions}

\* The inductive invariant behind RecordsAccounted: the books with what is in hand,
\* and only a session that has begun holds a packet or leaves a record out.
OvnkIInv ==
    /\ ipfixRun \in [Sessions -> {"new", "up", "cancelled", "over"}]
    /\ reader \in [Sessions -> {"none", "reading", "handling", "gone"}]
    /\ inPacket \in [Sessions -> Seq(Kinds)] /\ socket \in Seq(Packets)
    /\ fine \in Nat /\ cached \in Nat /\ dropped \in Nat
    /\ fine = cached + dropped + Cardinality(GoodsIn(inPacket))
    /\ \A s \in Sessions :
          inPacket[s] # << >> => reader[s] = "handling" /\ ipfixRun[s] # "new"
    /\ dropped > 0 => \E s \in Sessions : ipfixRun[s] \in {"cancelled", "over"}

\* While a session is up, its reads work and the process has not ended, packets do
\* not stay in the socket.
SocketIsRead ==
    \A s \in Sessions :
        (socket # << >> /\ port = s)
            ~> (socket = << >> \/ s \in readFailed \/ ipfixRun[s] # "up" \/ exited)
================================================================================
