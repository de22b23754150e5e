-------------------------- MODULE FlowCollectionProofs --------------------------
(***************************************************************************)
(* Proofs about the collectors: the Cilium collector sends in plain text   *)
(* only for a reason, the OVN-Kubernetes collector accounts for every good *)
(* record, and the windows of the AWS VPC CNI collector meet.              *)
(*                                                                         *)
(* Only the collector that was detected takes steps, and no step of it     *)
(* touches the variables of the others, so each has an inductive invariant *)
(* of its own: HubbleIInv, OvnkIInv and PollerIInv.                        *)
(***************************************************************************)
EXTENDS FlowCollection, FiniteSetTheorems, TLAPS

--------------------------------------------------------------------------------
(* The Hubble session. *)

\* Before the first connection TLS is on and nothing was refused.
LEMMA HubbleStarts == HubbleInit => HubbleIInv
  <1> SUFFICES ASSUME HubbleInit PROVE HubbleIInv
    OBVIOUS
  <1>1. /\ tlsProps = [DisableALPN |-> FALSE, DisableTLS |-> FALSE]
        /\ creds = "none" /\ cert = "none" /\ sawPlain = FALSE
    BY Zenon DEF HubbleInit
  <1> QED BY <1>1 DEF HubbleIInv, PlainForAReason, Certificates

\* A session that ends for a reason turns TLS off only if that reason is a relay
\* without TLS.
LEMMA EndKeepsReasons ==
  ASSUME tlsProps \in [DisableALPN : BOOLEAN, DisableTLS : BOOLEAN],
         NEW e, SessionEnds(e)
  PROVE  /\ tlsProps' \in [DisableALPN : BOOLEAN, DisableTLS : BOOLEAN]
         /\ tlsProps'.DisableTLS => tlsProps.DisableTLS \/ e = "notTLS"
         /\ creds' = "none"
  <1>1. tlsProps' = [DisableALPN |-> tlsProps.DisableALPN \/ e = "alpnMissing",
                     DisableTLS |-> tlsProps.DisableTLS \/ e = "notTLS"]
    BY Zenon DEF SessionEnds, disableSubsystemCausingError
  <1>2. tlsProps.DisableALPN \in BOOLEAN /\ tlsProps.DisableTLS \in BOOLEAN
    OBVIOUS
  <1> QED BY <1>1, <1>2 DEF SessionEnds

\* Every step of the Cilium collector and of its relay keeps the invariant.
LEMMA HubbleKeeps == HubbleIInv /\ HubbleNext => HubbleIInv'
  <1> SUFFICES ASSUME HubbleIInv, HubbleNext PROVE HubbleIInv'
    OBVIOUS
  <1> USE DEF HubbleIInv, PlainForAReason
  <1>1. CASE RelayChanges \/ AgentsChange
    BY <1>1 DEF RelayChanges, AgentsChange, sessionVars
  <1>2. CASE NewCiliumFlowCollector
    <2>1. PICK found \in SUBSET Discovered, readable \in BOOLEAN :
            IF found = {} \/ service[FirstNamespace(found)] = "noports"
            THEN UNCHANGED <<creds, cert>>
            ELSE /\ cert' = GetTLSConfig(FirstNamespace(found), readable)
                 /\ creds' = ConnectToHubbleRelay(cert')
      BY <1>2, Zenon DEF NewCiliumFlowCollector
    <2>2. UNCHANGED <<tlsProps, sawPlain>>
      BY <1>2 DEF NewCiliumFlowCollector
    <2>3. CASE UNCHANGED <<creds, cert>>
      BY <2>2, <2>3
    <2>4. CASE /\ cert' = GetTLSConfig(FirstNamespace(found), readable)
               /\ creds' = ConnectToHubbleRelay(cert')
      <3>1. cert' \in {"usable", "unusable", "unread"}
        BY <2>4 DEF GetTLSConfig
      <3>2. creds' = "insecure" => cert' # "usable" \/ tlsProps.DisableTLS
        BY <2>4 DEF ConnectToHubbleRelay
      <3> QED BY <2>2, <3>1, <3>2 DEF Certificates
    <2> QED BY <2>1, <2>3, <2>4
  <1>3. CASE GetFlows
    <2> DEFINE e == AsTLSHandshakeError(creds, relay)
    <2>1. UNCHANGED cert
      BY <1>3 DEF GetFlows
    <2>2. CASE UNCHANGED <<tlsProps, creds, sawPlain>>
      BY <2>1, <2>2
    <2>3. CASE SessionEnds(e) /\ sawPlain' = (sawPlain \/ e = "notTLS")
      <3> HIDE DEF e
      <3> QED BY <2>1, <2>3, EndKeepsReasons
    <2> QED BY <1>3, <2>2, <2>3, Zenon DEF GetFlows
  <1>4. CASE StreamBreaks
    <2>1. SessionEnds("other") /\ UNCHANGED <<cert, sawPlain>>
      BY <1>4 DEF StreamBreaks
    <2> QED BY <2>1, EndKeepsReasons
  <1>5. CASE RunAgain \/ MonitorTick
    BY <1>5 DEF RunAgain, MonitorTick
  <1> QED BY <1>1, <1>2, <1>3, <1>4, <1>5 DEF HubbleNext, HubbleEnvironment, HubbleStep

--------------------------------------------------------------------------------
(* The OVN-Kubernetes listener. *)

\* A packet has finitely many good records.
LEMMA GoodsFinite ==
  ASSUME NEW p \in Seq(Kinds)
  PROVE  IsFiniteSet(GoodAt(p)) /\ Goods(p) = Cardinality(GoodAt(p)) /\ Goods(p) \in Nat
  <1>1. GoodAt(p) \in SUBSET (1..Len(p))
    BY DEF GoodAt
  <1>2. Len(p) \in Nat
    OBVIOUS
  <1>3. IsFiniteSet(1..Len(p))
    BY <1>2, FS_Interval
  <1>4. IsFiniteSet(GoodAt(p))
    BY <1>1, <1>3, FS_Subset
  <1> QED BY <1>4, FS_CardinalityType DEF Goods, GoodAt

\* No records, no good ones.
LEMMA GoodsOfNone == Goods(<< >>) = 0 /\ GoodAt(<< >>) = {}
  BY FS_EmptySet DEF Goods, GoodAt

\* Taking the first record off a packet takes one good record off it, or none.
LEMMA GoodsOfTail ==
  ASSUME NEW p \in Seq(Kinds), p # << >>
  PROVE  /\ Tail(p) \in Seq(Kinds)
         /\ Goods(p) = Goods(Tail(p)) + (IF Head(p) = "good" THEN 1 ELSE 0)
  <1> DEFINE A == GoodAt(Tail(p))
             B == GoodAt(p) \ {1}
             f == [i \in A |-> i + 1]
  <1>1. Len(p) \in Nat \ {0} /\ DOMAIN p = 1..Len(p) /\ Tail(p) \in Seq(Kinds)
    OBVIOUS
  <1>2. Len(Tail(p)) = Len(p) - 1 /\ \A i \in 1..Len(p) - 1 : Tail(p)[i] = p[i + 1]
    OBVIOUS
  <1>3. DOMAIN Tail(p) = 1..(Len(p) - 1)
    BY <1>1, <1>2
  <1>4. A = {i \in 1..(Len(p) - 1) : p[i + 1] = "good"}
    BY <1>2, <1>3 DEF GoodAt
  <1>5. B = {i \in 2..Len(p) : p[i] = "good"}
    BY <1>1 DEF GoodAt
  <1>6. f \in Bijection(A, B)
    <2>1. f \in [A -> B]
      BY <1>1, <1>4, <1>5
    <2>2. \A i, j \in A : f[i] = f[j] => i = j
      BY <1>1, <1>4
    <2>3. \A k \in B : \E i \in A : f[i] = k
      <3> SUFFICES ASSUME NEW k \in B PROVE \E i \in A : f[i] = k
        OBVIOUS
      <3>1. k - 1 \in A /\ (k - 1) + 1 = k
        BY <1>1, <1>4, <1>5
      <3> QED BY <3>1
    <2> HIDE DEF f, A, B
    <2> QED BY <2>1, <2>2, <2>3 DEF Bijection, Injection, Surjection, IsInjective
  <1>7. IsFiniteSet(A) /\ Goods(Tail(p)) = Cardinality(A)
    BY <1>1, GoodsFinite
  <1>8. Cardinality(B) = Cardinality(A)
    BY <1>6, <1>7, FS_Bijection DEF ExistsBijection
  <1>9. IsFiniteSet(GoodAt(p)) /\ Goods(p) = Cardinality(GoodAt(p)) /\ Goods(p) \in Nat
    BY GoodsFinite
  <1>10. Cardinality(B) = IF 1 \in GoodAt(p) THEN Goods(p) - 1 ELSE Goods(p)
    BY <1>9, FS_RemoveElement
  <1>11. 1 \in GoodAt(p) <=> Head(p) = "good"
    BY <1>1 DEF GoodAt
  <1> QED BY <1>1, <1>7, <1>8, <1>9, <1>10, <1>11

\* A tagged copy of a packet's good records has as many members.
LEMMA TaggedGoods ==
  ASSUME NEW s, NEW p \in Seq(Kinds)
  PROVE  IsFiniteSet({s} \X GoodAt(p)) /\ Cardinality({s} \X GoodAt(p)) = Goods(p)
  <1>1. IsFiniteSet({s}) /\ Cardinality({s}) = 1
    BY FS_Singleton
  <1>2. IsFiniteSet(GoodAt(p)) /\ Goods(p) = Cardinality(GoodAt(p)) /\ Goods(p) \in Nat
    BY GoodsFinite
  <1> DEFINE T == {s}
  <1>3. IsFiniteSet(T \X GoodAt(p)) /\ Cardinality(T \X GoodAt(p)) = 1 * Goods(p)
    <2> HIDE DEF T
    <2>1. IsFiniteSet(T) /\ Cardinality(T) = 1
      BY <1>1 DEF T
    <2> QED BY <2>1, <1>2, FS_Product
  <1> QED BY <1>2, <1>3

\* Good records are in hand only finitely often.
LEMMA InHandFinite ==
  ASSUME NEW ps \in [Sessions -> Seq(Kinds)]
  PROVE  IsFiniteSet(GoodsIn(ps)) /\ Cardinality(GoodsIn(ps)) \in Nat
  <1> DEFINE T == {{s} \X GoodAt(ps[s]) : s \in Sessions}
             f == [s \in Sessions |-> {s} \X GoodAt(ps[s])]
  <1>1. IsFiniteSet(Sessions)
    BY ListenerAssumption, FS_Interval DEF Sessions
  <1>2. f \in Surjection(Sessions, T)
    <2>1. f \in [Sessions -> T]
      OBVIOUS
    <2>2. \A t \in T : \E s \in Sessions : f[s] = t
      OBVIOUS
    <2> QED BY <2>1, <2>2 DEF Surjection
  <1>3. IsFiniteSet(T)
    <2> HIDE DEF T, f
    <2> QED BY <1>1, <1>2, FS_Surjection
  <1>4. \A t \in T : IsFiniteSet(t)
    BY TaggedGoods
  <1>5. GoodsIn(ps) = UNION T
    BY DEF GoodsIn
  <1>6. IsFiniteSet(GoodsIn(ps))
    <2> HIDE DEF T
    <2> QED BY <1>3, <1>4, <1>5, FS_UNION
  <1> QED BY <1>6, FS_CardinalityType

\* When the packet in one session's hand changes, what is in hand changes by the
\* difference of the two.
LEMMA InHandMoves ==
  ASSUME NEW ps \in [Sessions -> Seq(Kinds)], NEW qs \in [Sessions -> Seq(Kinds)],
         NEW s \in Sessions, \A t \in Sessions : t # s => qs[t] = ps[t]
  PROVE  Cardinality(GoodsIn(qs)) + Goods(ps[s]) = Cardinality(GoodsIn(ps)) + Goods(qs[s])
  <1>0. PICK p \in Seq(Kinds) : p = qs[s]
    OBVIOUS
  <1> DEFINE Rest == {w \in GoodsIn(ps) : w[1] # s}
             Old  == {s} \X GoodAt(ps[s])
             New  == {s} \X GoodAt(p)
  <1>1. qs \in [Sessions -> Seq(Kinds)] /\ qs[s] = p
        /\ \A t \in Sessions : t # s => qs[t] = ps[t]
    BY <1>0
  <1>2. GoodsIn(ps) = Rest \cup Old /\ Rest \cap Old = {}
    BY DEF GoodsIn
  <1>3. GoodsIn(qs) = Rest \cup New /\ Rest \cap New = {}
    <2>1. \A w : w \in GoodsIn(qs) <=> \E t \in Sessions : w \in {t} \X GoodAt(qs[t])
      BY DEF GoodsIn
    <2>2. \A w : w \in GoodsIn(ps) <=> \E t \in Sessions : w \in {t} \X GoodAt(ps[t])
      BY DEF GoodsIn
    <2>3. ASSUME NEW w, w \in GoodsIn(qs) PROVE w \in Rest \cup New
      <3>1. PICK t \in Sessions : w \in {t} \X GoodAt(qs[t])
        BY <2>1, <2>3
      <3>2. CASE t = s
        BY <3>1, <3>2, <1>1
      <3>3. CASE t # s
        BY <3>1, <3>3, <1>1, <2>2
      <3> QED BY <3>2, <3>3
    <2>4. ASSUME NEW w, w \in Rest PROVE w \in GoodsIn(qs)
      <3>1. w \in GoodsIn(ps) /\ w[1] # s
        BY <2>4
      <3>2. PICK t \in Sessions : w \in {t} \X GoodAt(ps[t])
        BY <2>2, <3>1
      <3>3. t # s /\ qs[t] = ps[t]
        BY <3>1, <3>2, <1>1
      <3> QED BY <2>1, <3>2, <3>3
    <2>5. ASSUME NEW w, w \in New PROVE w \in GoodsIn(qs) /\ w \notin Rest
      <3>1. w \in {s} \X GoodAt(qs[s])
        BY <2>5, <1>1
      <3> QED BY <2>1, <3>1
    <2> QED BY <2>3, <2>4, <2>5
  <1>4. IsFiniteSet(GoodsIn(ps)) /\ Cardinality(GoodsIn(ps)) \in Nat
    BY InHandFinite
  <1>5. IsFiniteSet(Rest) /\ Cardinality(Rest) \in Nat
    <2>1. IsFiniteSet(Rest)
      <3>1. Rest \in SUBSET GoodsIn(ps)
        OBVIOUS
      <3> HIDE DEF Rest
      <3> QED BY <3>1, <1>4, FS_Subset
    <2> QED BY <2>1, FS_CardinalityType
  <1>6. IsFiniteSet(Old) /\ Cardinality(Old) = Goods(ps[s])
    <2>1. ps[s] \in Seq(Kinds)
      OBVIOUS
    <2> QED BY <2>1, TaggedGoods
  <1>7. IsFiniteSet(New) /\ Cardinality(New) = Goods(p)
    BY TaggedGoods
  <1>8. Goods(ps[s]) \in Nat /\ Goods(p) \in Nat
    BY GoodsFinite
  <1>9. Cardinality(GoodsIn(ps)) = Cardinality(Rest) + Goods(ps[s])
    <2> HIDE DEF Rest, Old
    <2>1. Cardinality(Rest \cup Old) = Cardinality(Rest) + Cardinality(Old) - Cardinality({})
      BY <1>2, <1>5, <1>6, FS_Union
    <2> QED BY <2>1, <1>2, <1>5, <1>6, <1>8, FS_EmptySet
  <1>10. Cardinality(GoodsIn(qs)) = Cardinality(Rest) + Goods(p)
    <2> HIDE DEF Rest, New
    <2>1. Cardinality(Rest \cup New) = Cardinality(Rest) + Cardinality(New) - Cardinality({})
      BY <1>3, <1>5, <1>7, FS_Union
    <2>2. Cardinality({}) = 0
      BY FS_EmptySet
    <2>3. GoodsIn(qs) = Rest \cup New
      BY <1>3
    <2>4. Cardinality(Rest \cup New) = Cardinality(Rest) + Goods(p)
      BY <2>1, <2>2, <1>5, <1>7, <1>8
    <2> QED BY <2>3, <2>4, Zenon
  <1> HIDE DEF Rest
  <1> QED BY <1>1, <1>5, <1>8, <1>9, <1>10

\* At first nothing is in hand and nothing on the books.
LEMMA OvnkStarts == OvnkInit => OvnkIInv
  <1> SUFFICES ASSUME OvnkInit PROVE OvnkIInv
    OBVIOUS
  <1> USE DEF OvnkInit
  <1>1. /\ ipfixRun \in [Sessions -> {"new", "up", "cancelled", "over"}]
        /\ inPacket \in [Sessions -> Seq(Kinds)] /\ socket \in Seq(Packets)
        /\ fine = 0 /\ cached = 0 /\ dropped = 0
        /\ \A s \in Sessions : inPacket[s] = << >>
    OBVIOUS
  <1>2. GoodsIn(inPacket) = {}
    <2>1. \A s \in Sessions : GoodAt(inPacket[s]) = {}
      BY <1>1, GoodsOfNone
    <2> QED BY <2>1 DEF GoodsIn
  <1>3. Cardinality(GoodsIn(inPacket)) = 0
    BY <1>2, FS_EmptySet
  <1> QED BY <1>1, <1>3 DEF OvnkIInv

\* A step that leaves the packets in hand and the books alone keeps the invariant
\* if sessions only go forward.
LEMMA SessionsMove ==
  ASSUME OvnkIInv, UNCHANGED <<inPacket, fine, cached, dropped>>, socket' \in Seq(Packets),
         ipfixRun' \in [Sessions -> {"new", "up", "cancelled", "over"}],
         reader' \in [Sessions -> {"none", "reading", "handling", "gone"}],
         \A s \in Sessions :
            /\ ipfixRun'[s] = "new" => ipfixRun[s] = "new"
            /\ reader'[s] = reader[s] \/ inPacket[s] = << >>
            /\ ipfixRun[s] \in {"cancelled", "over"} => ipfixRun'[s] \in {"cancelled", "over"}
  PROVE  OvnkIInv'
  <1>1. GoodsIn(inPacket)' = GoodsIn(inPacket)
    BY DEF GoodsIn, GoodAt
  <1>2. Cardinality(GoodsIn(inPacket))' = Cardinality(GoodsIn(inPacket))
    BY <1>1
  <1>3. fine' = cached' + dropped' + Cardinality(GoodsIn(inPacket))'
    BY <1>2 DEF OvnkIInv
  <1>4. dropped' > 0 => \E s \in Sessions : ipfixRun'[s] \in {"cancelled", "over"}
    <2> SUFFICES ASSUME dropped > 0
                 PROVE  \E s \in Sessions : ipfixRun'[s] \in {"cancelled", "over"}
      OBVIOUS
    <2>1. PICK s \in Sessions : ipfixRun[s] \in {"cancelled", "over"}
      BY DEF OvnkIInv
    <2> QED BY <2>1
  <1>5. \A s \in Sessions :
           inPacket'[s] # << >> => reader'[s] = "handling" /\ ipfixRun'[s] # "new"
    BY DEF OvnkIInv
  <1> QED BY <1>3, <1>4, <1>5 DEF OvnkIInv

\* A step of one reader keeps the invariant if the books move with its packet.
LEMMA PacketMoves ==
  ASSUME OvnkIInv, UNCHANGED ipfixRun, socket' \in Seq(Packets),
         NEW s \in Sessions, ipfixRun[s] # "new",
         reader' = [reader EXCEPT ![s] = "handling"],
         NEW p \in Seq(Kinds), inPacket' = [inPacket EXCEPT ![s] = p],
         fine' \in Nat, cached' \in Nat, dropped' \in Nat,
         fine' - (cached' + dropped') - Goods(p)
            = fine - (cached + dropped) - Goods(inPacket[s]),
         dropped' > 0 => dropped > 0 \/ ipfixRun[s] # "up"
  PROVE  OvnkIInv'
  <1>1. inPacket \in [Sessions -> Seq(Kinds)] /\ inPacket[s] \in Seq(Kinds)
    BY DEF OvnkIInv
  <1>2. PICK qs : qs = [inPacket EXCEPT ![s] = p]
    OBVIOUS
  <1>2a. qs = inPacket'
    BY <1>2
  <1>3. /\ qs \in [Sessions -> Seq(Kinds)]
        /\ Cardinality(GoodsIn(qs)) + Goods(inPacket[s])
             = Cardinality(GoodsIn(inPacket)) + Goods(p)
    <2>1. /\ qs \in [Sessions -> Seq(Kinds)] /\ qs[s] = p
          /\ \A t \in Sessions : t # s => qs[t] = inPacket[t]
      BY <1>1, <1>2
    <2>2. Cardinality(GoodsIn(qs)) + Goods(inPacket[s])
            = Cardinality(GoodsIn(inPacket)) + Goods(qs[s])
      BY <1>1, <2>1, InHandMoves
    <2> QED BY <2>1, <2>2
  <1>4. Cardinality(GoodsIn(qs)) \in Nat /\ Cardinality(GoodsIn(inPacket)) \in Nat
    BY <1>1, <1>3, InHandFinite
  <1>5. Goods(p) \in Nat /\ Goods(inPacket[s]) \in Nat
    BY <1>1, GoodsFinite
  <1>6. fine \in Nat /\ cached \in Nat /\ dropped \in Nat
        /\ fine = cached + dropped + Cardinality(GoodsIn(inPacket))
    BY DEF OvnkIInv
  <1>7. fine' = cached' + dropped' + Cardinality(GoodsIn(qs))
    <2>1. ASSUME NEW a \in Nat, NEW b \in Nat, NEW i \in Nat, NEW j \in Nat, NEW g \in Nat,
                 a + g = b + i, fine = cached + dropped + b,
                 fine' - (cached' + dropped') - i = fine - (cached + dropped) - g
          PROVE  fine' = cached' + dropped' + a
      <3>1. PICK u \in Nat, v \in Nat, w \in Nat, x \in Nat, y \in Nat, z \in Nat :
               u = fine' /\ v = cached' /\ w = dropped' /\ x = fine /\ y = cached /\ z = dropped
        BY <1>6
      <3>2. a + g = b + i /\ x = y + z + b /\ u - (v + w) - i = x - (y + z) - g
        BY <2>1, <3>1
      <3>3. u = v + w + a
        BY <3>2
      <3> QED BY <3>1, <3>3
    <2> QED BY <1>3, <1>4, <1>5, <1>6, <2>1
  <1>8. Cardinality(GoodsIn(qs)) = Cardinality(GoodsIn(inPacket))'
    BY <1>2a DEF GoodsIn, GoodAt
  <1>9. \A t \in Sessions :
           inPacket'[t] # << >> => reader'[t] = "handling" /\ ipfixRun'[t] # "new"
    BY <1>1 DEF OvnkIInv
  <1>10. dropped' > 0 => \E t \in Sessions : ipfixRun'[t] \in {"cancelled", "over"}
    BY DEF OvnkIInv
  <1>11. reader' \in [Sessions -> {"none", "reading", "handling", "gone"}]
    BY DEF OvnkIInv
  <1> QED BY <1>2a, <1>3, <1>7, <1>8, <1>9, <1>10, <1>11 DEF OvnkIInv

\* Every step of the listener, its readers and its network keeps the invariant.
LEMMA OvnkKeeps == OvnkIInv /\ OvnkNext => OvnkIInv'
  <1> SUFFICES ASSUME OvnkIInv, OvnkNext PROVE OvnkIInv'
    OBVIOUS
  <1>0. /\ ipfixRun \in [Sessions -> {"new", "up", "cancelled", "over"}]
        /\ inPacket \in [Sessions -> Seq(Kinds)] /\ socket \in Seq(Packets)
        /\ fine \in Nat /\ cached \in Nat /\ dropped \in Nat
        /\ reader \in [Sessions -> {"none", "reading", "handling", "gone"}]
        /\ \A s \in Sessions :
              inPacket[s] # << >> => reader[s] = "handling" /\ ipfixRun[s] # "new"
    BY DEF OvnkIInv
  <1>1. CASE ExportPacket
    <2>1. UNCHANGED <<ipfixRun, reader, inPacket, fine, cached, dropped>>
      BY <1>1 DEF ExportPacket
    <2>2. socket' \in Seq(Packets)
      <3>1. PICK p \in Packets : socket' = IF port = 0 THEN socket ELSE Append(socket, p)
        BY <1>1 DEF ExportPacket
      <3> QED BY <1>0, <3>1
    <2> QED BY <1>0, <2>1, <2>2, SessionsMove
  <1>2. ASSUME NEW s \in Sessions, RunIPFIXCollector(s) PROVE OvnkIInv'
    BY <1>0, <1>2, SessionsMove DEF RunIPFIXCollector
  <1>3. ASSUME NEW s \in Sessions,
               TemplatesMissing(s) \/ CancelListener(s) \/ CloseListener(s)
        PROVE OvnkIInv'
    <2>1. /\ UNCHANGED <<reader, inPacket, fine, cached, dropped>>
          /\ socket' = socket \/ socket' = << >>
          /\ ipfixRun[s] # "over"
          /\ \E r \in {"cancelled", "over"} : ipfixRun' = [ipfixRun EXCEPT ![s] = r]
      BY <1>3 DEF TemplatesMissing, CancelListener, CloseListener
    <2>2. socket' \in Seq(Packets)
      <3>1. socket \in Seq(Packets) /\ << >> \in Seq(Packets)
        BY <1>0
      <3> QED BY <2>1, <3>1, Zenon
    <2> QED BY <1>0, <2>1, <2>2, SessionsMove
  <1>4. ASSUME NEW s \in Sessions, ReaderEnds(s) \/ PacketDone(s) PROVE OvnkIInv'
    BY <1>0, <1>4, SessionsMove DEF ReaderEnds, PacketDone
  <1>5. ASSUME NEW s \in Sessions, ReadPacket(s) PROVE OvnkIInv'
    <2> DEFINE q == IF \E i \in DOMAIN Head(socket) : Head(socket)[i] = "undecodable"
                    THEN << >> ELSE Head(socket)
    <2>1. Head(socket) \in Seq(Kinds) /\ Tail(socket) \in Seq(Packets)
      <3>1. socket # << >>
        BY <1>5 DEF ReadPacket
      <3>2. Head(socket) \in Packets /\ Tail(socket) \in Seq(Packets)
        BY <3>1, <1>0
      <3> QED BY <3>2, ListenerAssumption
    <2>1a. q \in Seq(Kinds)
      BY <2>1
    <2>2. PICK p \in Seq(Kinds) : p = q
      <3> HIDE DEF q
      <3> QED BY <2>1a
    <2>3. /\ inPacket' = [inPacket EXCEPT ![s] = p] /\ fine' = fine + Goods(p)
          /\ socket' = Tail(socket) /\ reader' = [reader EXCEPT ![s] = "handling"]
          /\ UNCHANGED <<ipfixRun, cached, dropped>>
      BY <1>5, <2>2, Zenon DEF ReadPacket
    <2>4. ipfixRun[s] # "new"
      BY <1>5 DEF ReadPacket
    <2>5. Goods(p) \in Nat
      BY GoodsFinite
    <2>6. Goods(inPacket[s]) = 0
      <3>1. inPacket[s] = << >>
        BY <1>0, <1>5 DEF ReadPacket
      <3> QED BY <3>1, GoodsOfNone
    <2> HIDE DEF q
    <2>7. fine' \in Nat /\ cached' \in Nat /\ dropped' \in Nat
          /\ fine' - (cached' + dropped') - Goods(p)
               = fine - (cached + dropped) - Goods(inPacket[s])
      BY <1>0, <2>3, <2>5, <2>6
    <2> QED BY <1>0, <2>1, <2>3, <2>4, <2>7, PacketMoves
  <1>9. ASSUME NEW s \in Sessions, NextRecord(s), Head(inPacket[s]) = "fatal"
        PROVE  OvnkIInv'
    BY <1>0, <1>9, SessionsMove DEF NextRecord
  <1>6. ASSUME NEW s \in Sessions, NextRecord(s), Head(inPacket[s]) # "fatal"
        PROVE  OvnkIInv'
    <2>1. /\ inPacket[s] # << >> /\ inPacket[s] \in Seq(Kinds)
          /\ inPacket' = [inPacket EXCEPT ![s] = Tail(inPacket[s])]
          /\ UNCHANGED <<ipfixRun, socket, fine, dropped>>
      BY <1>0, <1>6 DEF NextRecord
    <2>2. cached' = IF Head(inPacket[s]) = "good" THEN cached + 1 ELSE cached
      BY <1>6 DEF NextRecord
    <2>3. PICK p : p = Tail(inPacket[s])
      OBVIOUS
    <2>4. /\ p \in Seq(Kinds)
          /\ Goods(inPacket[s]) = Goods(p) + (IF Head(inPacket[s]) = "good" THEN 1 ELSE 0)
      BY <2>1, <2>3, GoodsOfTail
    <2>5. Goods(p) \in Nat
      BY <2>4, GoodsFinite
    <2>6. fine' \in Nat /\ cached' \in Nat /\ dropped' \in Nat
          /\ fine' - (cached' + dropped') - Goods(p)
               = fine - (cached + dropped) - Goods(inPacket[s])
      BY <1>0, <2>1, <2>2, <2>4, <2>5
    <2>7. ipfixRun[s] # "new" /\ inPacket' = [inPacket EXCEPT ![s] = p]
      BY <1>0, <2>1, <2>3
    <2>8. reader' = [reader EXCEPT ![s] = "handling"]
      BY <1>0, <1>6 DEF NextRecord
    <2> QED BY <1>0, <2>1, <2>4, <2>6, <2>7, <2>8, PacketMoves
  <1>7. ASSUME NEW s \in Sessions, CacheFails(s) PROVE OvnkIInv'
    <2>1. /\ inPacket[s] # << >> /\ inPacket[s] \in Seq(Kinds) /\ ipfixRun[s] # "up"
          /\ inPacket' = [inPacket EXCEPT ![s] = << >>]
          /\ dropped' = dropped + Goods(inPacket[s])
          /\ UNCHANGED <<ipfixRun, socket, fine, cached>>
      BY <1>0, <1>7 DEF CacheFails
    <2>2. PICK p : p = << >>
      OBVIOUS
    <2>3. p \in Seq(Kinds) /\ Goods(p) = 0
      BY <2>2, GoodsOfNone
    <2>4. Goods(inPacket[s]) \in Nat
      BY <2>1, GoodsFinite
    <2>5. fine' \in Nat /\ cached' \in Nat /\ dropped' \in Nat
          /\ fine' - (cached' + dropped') - Goods(p)
               = fine - (cached + dropped) - Goods(inPacket[s])
      BY <1>0, <2>1, <2>3, <2>4
    <2>6. ipfixRun[s] # "new" /\ inPacket' = [inPacket EXCEPT ![s] = p]
      BY <1>0, <2>1, <2>2
    <2>7. reader' = [reader EXCEPT ![s] = "handling"]
      BY <1>0, <1>7 DEF CacheFails
    <2> QED BY <1>0, <2>1, <2>3, <2>5, <2>6, <2>7, PacketMoves
  <1> QED BY <1>1, <1>2, <1>3, <1>4, <1>5, <1>6, <1>7, <1>9 DEF OvnkNext, ReaderStep

\* The books balance with what is in hand, so they say what the property says.
LEMMA OvnkMeans == OvnkIInv => RecordsAccounted
  <1> SUFFICES ASSUME OvnkIInv PROVE RecordsAccounted
    OBVIOUS
  <1>1. /\ inPacket \in [Sessions -> Seq(Kinds)]
        /\ fine \in Nat /\ cached \in Nat /\ dropped \in Nat
        /\ fine = cached + dropped + Cardinality(GoodsIn(inPacket))
        /\ dropped > 0 => \E s \in Sessions : ipfixRun[s] \in {"cancelled", "over"}
    BY DEF OvnkIInv
  <1>2. IsFiniteSet(GoodsIn(inPacket)) /\ Cardinality(GoodsIn(inPacket)) \in Nat
    BY <1>1, InHandFinite
  <1>3. ASSUME {s \in Sessions : Goods(inPacket[s]) > 0} = {} PROVE fine = cached + dropped
    <2>1. \A s \in Sessions : GoodAt(inPacket[s]) = {}
      <3> SUFFICES ASSUME NEW s \in Sessions PROVE GoodAt(inPacket[s]) = {}
        OBVIOUS
      <3>1. inPacket[s] \in Seq(Kinds)
        BY <1>1
      <3>2. /\ IsFiniteSet(GoodAt(inPacket[s])) /\ Goods(inPacket[s]) \in Nat
            /\ Goods(inPacket[s]) = Cardinality(GoodAt(inPacket[s]))
        BY <3>1, GoodsFinite
      <3>3. Goods(inPacket[s]) = 0
        BY <1>3, <3>2
      <3> QED BY <3>2, <3>3, FS_EmptySet
    <2>2. GoodsIn(inPacket) = {}
      BY <2>1 DEF GoodsIn
    <2>3. Cardinality(GoodsIn(inPacket)) = 0
      BY <2>2, FS_EmptySet
    <2> QED BY <1>1, <2>3
  <1>4. fine >= cached + dropped
    BY <1>1, <1>2
  <1>5. ASSUME \A s \in Sessions : ipfixRun[s] # "cancelled" /\ ipfixRun[s] # "over"
        PROVE  dropped = 0
    BY <1>1, <1>5
  <1> QED BY <1>3, <1>4, <1>5 DEF RecordsAccounted

--------------------------------------------------------------------------------
(* The poller. *)

\* Whole seconds never run ahead of the time they stand for.
LEMMA WholeSecondsBefore ==
  ASSUME NEW t \in Int
  PROVE  WholeSeconds(t) \in Int /\ WholeSeconds(t) <= t
  <1>1. t % Second \in 0..(Second - 1)
    BY PollerAssumption
  <1> QED BY <1>1, PollerAssumption DEF WholeSeconds

\* Whole seconds keep the order of times.
LEMMA WholeSecondsMonotone ==
  ASSUME NEW t \in Int, NEW u \in Int, t <= u
  PROVE  WholeSeconds(t) <= WholeSeconds(u)
  <1> DEFINE q == t \div Second
             r == u \div Second
  <1>1. Second \in Nat /\ Second > 0
    BY PollerAssumption
  <1>2. /\ q \in Int /\ t % Second \in 0..(Second - 1) /\ t = Second * q + (t % Second)
        /\ r \in Int /\ u % Second \in 0..(Second - 1) /\ u = Second * r + (u % Second)
    BY <1>1
  <1>3. WholeSeconds(t) = Second * q /\ WholeSeconds(u) = Second * r
    <2> PICK a \in Int : a = Second * q
      BY <1>1, <1>2
    <2> PICK b \in Int : b = Second * r
      BY <1>1, <1>2
    <2>1. t = a + (t % Second) /\ u = b + (u % Second)
      BY <1>2
    <2>2. t - (t % Second) = a /\ u - (u % Second) = b
      BY <1>1, <1>2, <2>1
    <2> QED BY <2>2 DEF WholeSeconds
  <1>4. q <= r
    <2> SUFFICES ASSUME q >= r + 1 PROVE FALSE
      BY <1>2
    <2> PICK a \in Int, b \in Int : a = q /\ b = r
      BY <1>2
    <2>1. Second * a >= Second * (b + 1)
      BY <1>1
    <2>2. Second * (b + 1) = Second * b + Second
      BY <1>1
    <2> PICK c \in Int, d \in Int : c = Second * a /\ d = Second * b
      BY <1>1
    <2>3. c >= d + Second
      BY <2>1, <2>2
    <2>4. t = c + (t % Second) /\ u = d + (u % Second)
      BY <1>2
    <2> QED BY <1>1, <1>2, <2>3, <2>4
  <1> HIDE DEF q, r
  <1>5. Second * q <= Second * r
    BY <1>1, <1>2, <1>4
  <1> QED BY <1>3, <1>5

\* A request is never mistaken for none: no pod is called "none".
LEMMA RequestIsNotIdle ==
  ASSUME WindowTypeOK, fetch # Idle
  PROVE  /\ fetch \in [pod : Pods, since : Int, start : Times,
                      answered : BOOLEAN, body : SUBSET Lines]
         /\ fetch.pod \in Pods /\ fetch.since \in Int /\ fetch.start \in Times
         /\ fetch.body \subseteq Lines
  BY DEF WindowTypeOK

\* At first no line is written and no pod was polled.
LEMMA PollerStarts == PollerInit => PollerIInv
  <1> SUFFICES ASSUME PollerInit PROVE PollerIInv
    OBVIOUS
  <1> USE DEF PollerInit
  <1>1. MaxLines \in Nat /\ MaxTime \in Nat /\ 0 \in Times /\ Never \in Int
    BY PollerAssumption DEF Times, Never
  <1>2. WindowTypeOK
    <2>1. now \in Times /\ lines \in 0..MaxLines
      BY <1>1
    <2>2. podPhase \in [Pods -> {"pending", "running", "gone"}] /\ log \in [Pods -> SUBSET Lines]
      OBVIOUS
    <2>3. line \in [Lines -> [pod : Pods \cup {"none"}, time : Times]]
      BY <1>1
    <2>4. /\ lastPoll \in [Pods -> Times \cup {Never}] /\ from \in [Pods -> Times \cup {Never}]
          /\ readAt \in [Lines -> Times \cup {Never}]
      OBVIOUS
    <2>5. fate \in [Lines -> {"none", "fetched", "cached", "old", "cut"}]
      OBVIOUS
    <2> QED BY <2>1, <2>2, <2>3, <2>4, <2>5 DEF WindowTypeOK
  <1>3. LinesAreKept
    BY DEF LinesAreKept
  <1>4. ForgottenIsGone
    BY DEF ForgottenIsGone
  <1>5. WindowInHand
    BY DEF WindowInHand
  <1>6. ReadBeforeLastPoll
    BY DEF ReadBeforeLastPoll
  <1>7. WindowsMeet
    BY DEF WindowsMeet, NoGap, AgainOnlyInOverlap
  <1> QED BY <1>2, <1>3, <1>4, <1>5, <1>6, <1>7 DEF PollerIInv

\* The clock, a pod that starts and a request that fails: nothing is read or lost.
LEMMA QuietPollerSteps ==
  ASSUME PollerIInv, Tick \/ (\E p \in Pods : PodRuns(p)) \/ FetchFails
  PROVE  PollerIInv'
  <1> USE DEF clientVars, seenVars, agentVars
  <1>0. WindowTypeOK /\ now \in Nat
    BY PollerAssumption DEF PollerIInv, WindowTypeOK, Times
  <1>1. /\ UNCHANGED <<log, line, lines, lastPoll, todo, inRound, listed, fate, readAt, again,
                       from, wiped>>
        /\ now' \in Times /\ now <= now'
        /\ fetch' = fetch \/ fetch' = Idle
        /\ podPhase' \in [Pods -> {"pending", "running", "gone"}]
        /\ \A p \in Pods : podPhase[p] = "gone" => podPhase'[p] = "gone"
    <2>1. CASE Tick
      BY <1>0, <2>1, PollerAssumption DEF Tick, WindowTypeOK, Times
    <2>2. CASE \E p \in Pods : PodRuns(p)
      BY <1>0, <2>2 DEF PodRuns, WindowTypeOK
    <2>3. CASE FetchFails
      BY <1>0, <2>3 DEF FetchFails, WindowTypeOK
    <2> QED BY <2>1, <2>2, <2>3
  <1>2. now' \in Nat
    BY <1>1, PollerAssumption DEF Times
  <1>3. WindowTypeOK'
    BY <1>0, <1>1 DEF WindowTypeOK
  <1>4. LinesAreKept'
    <2>1. \A l \in 1..lines : line[l].time \in Nat
      BY <1>0, PollerAssumption DEF WindowTypeOK, Lines, Times
    <2> QED BY <1>0, <1>1, <1>2, <2>1 DEF PollerIInv, LinesAreKept
  <1>5. ForgottenIsGone'
    <2>1. \A p \in Pods : lastPoll[p] \in Int
      BY <1>0, PollerAssumption DEF WindowTypeOK, Times, Never
    <2>2. \A p \in Pods : fetch.pod # p => fetch'.pod # p
      BY <1>1, PollerAssumption DEF Idle
    <2> QED BY <1>0, <1>1, <1>2, <2>1, <2>2 DEF PollerIInv, ForgottenIsGone
  <1>6. WindowInHand'
    <2> SUFFICES ASSUME fetch' # Idle PROVE WindowInHand'
      BY DEF WindowInHand
    <2>1. fetch' = fetch /\ fetch # Idle
      BY <1>1 DEF Idle
    <2>2. fetch.since <= fetch.start /\ fetch.start <= now'
      BY <1>0, <1>1, <1>2, <2>1, RequestIsNotIdle, PollerAssumption
         DEF PollerIInv, WindowInHand, Times
    <2> QED BY <1>1, <2>1, <2>2 DEF PollerIInv, WindowInHand, WholeSeconds
  <1>7. ReadBeforeLastPoll'
    BY <1>1 DEF PollerIInv, ReadBeforeLastPoll
  <1>8. again' \subseteq {l \in 1..lines' : readAt'[l] # Never} /\ WindowsMeet'
    BY <1>1 DEF PollerIInv, WindowsMeet, NoGap, AgainOnlyInOverlap, WholeSeconds
  <1> QED BY <1>3, <1>4, <1>5, <1>6, <1>7, <1>8 DEF PollerIInv

\* A line is written now: it is in no window that has begun.
LEMMA WriteLineKeeps ==
  ASSUME PollerIInv, NEW p \in Pods, WriteLine(p)
  PROVE  PollerIInv'
  <1> USE DEF clientVars, seenVars
  <1> DEFINE n == lines + 1
  <1>0. /\ WindowTypeOK /\ LinesAreKept /\ ForgottenIsGone /\ WindowInHand
        /\ ReadBeforeLastPoll /\ NoGap /\ AgainOnlyInOverlap
        /\ again \subseteq {l \in 1..lines : readAt[l] # Never}
    BY DEF PollerIInv, WindowsMeet
  <1>1. /\ lines \in Nat /\ lines < MaxLines /\ MaxLines \in Nat /\ n \in Lines /\ n > lines
        /\ lines' = n /\ now \in Times /\ now \in Nat
    BY <1>0, PollerAssumption DEF WindowTypeOK, WriteLine, Lines, Times
  <1>2. /\ line' = [line EXCEPT ![n] = [pod |-> p, time |-> now]]
        /\ log' = [log EXCEPT ![p] = log[p] \cup {n}]
        /\ UNCHANGED <<now, podPhase, lastPoll, todo, inRound, listed, fetch, fate, readAt, again,
                       from, wiped>>
    BY <1>0 DEF WriteLine, WindowTypeOK
  <1>3. /\ line'[n] = [pod |-> p, time |-> now]
        /\ \A l \in Lines : l # n => line'[l] = line[l]
        /\ \A l \in 1..lines : l \in Lines /\ l # n /\ l \in 1..lines'
        /\ \A l \in 1..lines' : l = n \/ l \in 1..lines
    BY <1>0, <1>1, <1>2 DEF WindowTypeOK, Lines
  <1> HIDE DEF n
  <1>4. WindowTypeOK'
    <2>1. line' \in [Lines -> [pod : Pods \cup {"none"}, time : Times]]
      BY <1>0, <1>1, <1>2 DEF WindowTypeOK
    <2>2. log' \in [Pods -> SUBSET Lines]
      BY <1>0, <1>1, <1>2 DEF WindowTypeOK
    <2>3. lines' \in 0..MaxLines
      BY <1>1 DEF n
    <2> QED BY <1>0, <1>2, <2>1, <2>2, <2>3 DEF WindowTypeOK
  <1>5. LinesAreKept'
    <2>1. ASSUME NEW l \in 1..lines'
          PROVE  /\ line'[l].pod \in Pods /\ line'[l].time <= now'
                 /\ l \in log'[line'[l].pod] \/ l \in wiped'
      <3>1. CASE l = n
        BY <1>0, <1>1, <1>2, <1>3, <3>1 DEF WindowTypeOK
      <3>2. CASE l \in 1..lines
        <4>1. line'[l] = line[l] /\ line[l].pod \in Pods /\ line[l].time <= now
          BY <1>0, <1>3, <3>2 DEF LinesAreKept
        <4>2. l \in log[line[l].pod] \/ l \in wiped
          BY <1>0, <3>2 DEF LinesAreKept
        <4> QED BY <1>0, <1>2, <4>1, <4>2 DEF WindowTypeOK
      <3> QED BY <1>3, <2>1, <3>1, <3>2
    <2>2. ASSUME NEW q \in Pods, NEW l \in log'[q] PROVE l \in 1..lines' /\ line'[l].pod = q
      <3>1. CASE l \in log[q]
        BY <1>0, <1>3, <3>1 DEF LinesAreKept
      <3>2. CASE q = p /\ l = n
        BY <1>1, <1>3, <3>2 DEF n
      <3> QED BY <1>0, <1>2, <2>2, <3>1, <3>2 DEF WindowTypeOK
    <2> QED BY <2>1, <2>2 DEF LinesAreKept
  <1>6. ForgottenIsGone'
    BY <1>0, <1>2 DEF ForgottenIsGone
  <1>7. WindowInHand'
    <2> SUFFICES ASSUME fetch # Idle PROVE WindowInHand'
      BY <1>2 DEF WindowInHand, Idle
    <2>1. fetch.since <= fetch.start /\ fetch.start <= now /\ fetch.start \in Int
          /\ (lastPoll[fetch.pod] # Never => fetch.since = lastPoll[fetch.pod])
      BY <1>0, RequestIsNotIdle, PollerAssumption DEF WindowInHand, Times
    <2>2. \A l \in fetch.body : /\ l \in 1..lines' /\ line'[l].pod = fetch.pod
                                /\ line'[l].time >= WholeSeconds(fetch.since)
      BY <1>0, <1>3 DEF WindowInHand
    <2>3. ASSUME fetch.answered, NEW l \in 1..lines', line'[l].pod = fetch.pod, l \notin wiped,
                 fetch.since <= line'[l].time, line'[l].time < fetch.start
          PROVE  l \in fetch.body
      <3>1. l # n
        BY <1>1, <1>3, <2>1, <2>3
      <3> QED BY <1>0, <1>3, <2>3, <3>1 DEF WindowInHand
    <2> QED BY <1>2, <2>1, <2>2, <2>3 DEF WindowInHand, WholeSeconds
  <1>8. ReadBeforeLastPoll'
    BY <1>0, <1>2, <1>3 DEF ReadBeforeLastPoll
  <1>9. again' \subseteq {l \in 1..lines' : readAt'[l] # Never}
    BY <1>0, <1>2, <1>3
  <1>10. NoGap'
    <2> SUFFICES ASSUME NEW l \in 1..lines',
                        lastPoll[line'[l].pod] # Never, from[line'[l].pod] # Never,
                        from[line'[l].pod] <= line'[l].time,
                        line'[l].time < lastPoll[line'[l].pod]
                 PROVE  fate[l] # "none" \/ l \in wiped
      BY <1>2 DEF NoGap
    <2>1. l # n
      BY <1>0, <1>1, <1>3, PollerAssumption DEF ForgottenIsGone, WindowTypeOK, Times, Never
    <2>2. l \in 1..lines /\ line'[l] = line[l]
      BY <1>3, <2>1
    <2> QED BY <1>0, <2>2 DEF NoGap
  <1>11. AgainOnlyInOverlap'
    BY <1>0, <1>2, <1>3 DEF AgainOnlyInOverlap, WholeSeconds
  <1> QED BY <1>4, <1>5, <1>6, <1>7, <1>8, <1>9, <1>10, <1>11 DEF PollerIInv, WindowsMeet

\* A container takes its log with it, and what was in it is wiped.
LEMMA PodEndsKeeps ==
  ASSUME PollerIInv, NEW p \in Pods, PodEnds(p)
  PROVE  PollerIInv'
  <1> USE DEF clientVars
  <1>0. /\ WindowTypeOK /\ LinesAreKept /\ ForgottenIsGone /\ WindowInHand
        /\ ReadBeforeLastPoll /\ NoGap /\ AgainOnlyInOverlap
        /\ again \subseteq {l \in 1..lines : readAt[l] # Never}
    BY DEF PollerIInv, WindowsMeet
  <1>1. /\ log' = [log EXCEPT ![p] = {}] /\ wiped' = wiped \cup log[p]
        /\ podPhase[p] = "running"
        /\ \E next \in {"pending", "gone"} : podPhase' = [podPhase EXCEPT ![p] = next]
        /\ UNCHANGED <<now, line, lines, lastPoll, todo, inRound, listed, fetch, fate, readAt,
                       again, from>>
    BY DEF PodEnds
  <1>2. /\ podPhase' \in [Pods -> {"pending", "running", "gone"}]
        /\ \A q \in Pods : podPhase[q] = "gone" => podPhase'[q] = "gone"
    BY <1>0, <1>1 DEF WindowTypeOK
  <1>3. WindowTypeOK'
    BY <1>0, <1>1, <1>2 DEF WindowTypeOK
  <1>4. LinesAreKept'
    BY <1>0, <1>1 DEF LinesAreKept, WindowTypeOK
  <1>5. ForgottenIsGone'
    BY <1>0, <1>1, <1>2 DEF ForgottenIsGone
  <1>6. WindowInHand'
    BY <1>0, <1>1 DEF WindowInHand, Idle, WholeSeconds
  <1>7. ReadBeforeLastPoll' /\ again' \subseteq {l \in 1..lines' : readAt'[l] # Never}
    BY <1>0, <1>1 DEF ReadBeforeLastPoll
  <1>8. NoGap' /\ AgainOnlyInOverlap'
    BY <1>0, <1>1 DEF NoGap, AgainOnlyInOverlap, WholeSeconds
  <1> QED BY <1>3, <1>4, <1>5, <1>6, <1>7, <1>8 DEF PollerIInv, WindowsMeet

\* A round begins with the pods that run: those listed are not gone, those not
\* listed are, and for good.
LEMMA ListPodsKeeps ==
  ASSUME PollerIInv, ListPods
  PROVE  PollerIInv'
  <1> USE DEF agentVars, seenVars
  <1>1. /\ listed' = {p \in Pods : podPhase[p] # "gone"}
        /\ todo' = {p \in Pods : podPhase[p] = "running"} /\ inRound' = TRUE
        /\ UNCHANGED <<now, podPhase, log, line, lines, lastPoll, fetch, fate, readAt, again,
                       from, wiped>>
    BY DEF ListPods
  <1>2. WindowTypeOK' /\ LinesAreKept' /\ ForgottenIsGone'
    BY <1>1 DEF PollerIInv, WindowTypeOK, LinesAreKept, ForgottenIsGone
  <1>3. WindowInHand'
    BY <1>1 DEF PollerIInv, WindowInHand, WholeSeconds, Idle
  <1>4. ReadBeforeLastPoll' /\ again' \subseteq {l \in 1..lines' : readAt'[l] # Never}
    BY <1>1 DEF PollerIInv, ReadBeforeLastPoll
  <1>5. WindowsMeet'
    BY <1>1 DEF PollerIInv, WindowsMeet, NoGap, AgainOnlyInOverlap, WholeSeconds
  <1> QED BY <1>2, <1>3, <1>4, <1>5 DEF PollerIInv

\* A poll opens its window where the last one began.
LEMMA PollPodKeeps ==
  ASSUME PollerIInv, NEW p \in Pods, PollPod(p)
  PROVE  PollerIInv'
  <1> USE DEF agentVars, seenVars
  <1>0. WindowTypeOK /\ ForgottenIsGone /\ now \in Times /\ now \in Nat
    BY PollerAssumption DEF PollerIInv, WindowTypeOK, Times
  <1>1. PICK since : since = IF lastPoll[p] = Never THEN now - PollInterval ELSE lastPoll[p]
    OBVIOUS
  <1>2. /\ fetch' = [pod |-> p, since |-> since, start |-> now,
                     answered |-> FALSE, body |-> {}]
        /\ p \in todo /\ todo' = todo \ {p}
        /\ UNCHANGED <<now, podPhase, log, line, lines, lastPoll, inRound, listed, fate, readAt,
                       again, from, wiped>>
    BY <1>1 DEF PollPod
  <1>3. since \in Int
    <2>1. lastPoll[p] \in Int /\ now - PollInterval \in Int
      BY <1>0, PollerAssumption DEF WindowTypeOK, Times, Never
    <2> QED BY <1>1, <2>1
  <1>4. WindowTypeOK'
    <2>1. fetch' \in [pod : Pods, since : Int, start : Times,
                      answered : BOOLEAN, body : SUBSET Lines]
      BY <1>0, <1>2, <1>3
    <2> QED BY <1>0, <1>2, <2>1 DEF WindowTypeOK
  <1>5. LinesAreKept'
    BY <1>2 DEF PollerIInv, LinesAreKept
  <1>6. ForgottenIsGone'
    <2>1. fetch'.pod = p
      BY <1>2
    <2> QED BY <1>0, <1>2, <2>1 DEF ForgottenIsGone
  <1>7. WindowInHand'
    <2>1. /\ fetch'.pod = p /\ fetch'.since = since /\ fetch'.start = now
          /\ fetch'.answered = FALSE /\ fetch'.body = {}
      BY <1>2
    <2>2. since <= now /\ (lastPoll[p] # Never => since = lastPoll[p])
      <3>1. CASE lastPoll[p] = Never
        BY <1>0, <1>1, <3>1, PollerAssumption
      <3>2. CASE lastPoll[p] # Never
        BY <1>0, <1>1, <3>2 DEF ForgottenIsGone
      <3> QED BY <3>1, <3>2
    <2> QED BY <1>0, <1>2, <2>1, <2>2 DEF WindowInHand
  <1>8. ReadBeforeLastPoll' /\ again' \subseteq {l \in 1..lines' : readAt'[l] # Never}
    BY <1>2 DEF PollerIInv, ReadBeforeLastPoll
  <1>9. WindowsMeet'
    BY <1>2 DEF PollerIInv, WindowsMeet, NoGap, AgainOnlyInOverlap, WholeSeconds
  <1> QED BY <1>4, <1>5, <1>6, <1>7, <1>8, <1>9 DEF PollerIInv

\* The answer holds every line of the window that is still there.
LEMMA AnswerKeeps ==
  ASSUME PollerIInv, Answer
  PROVE  PollerIInv'
  <1> USE DEF agentVars, seenVars
  <1>0. WindowTypeOK /\ ForgottenIsGone /\ LinesAreKept /\ WindowInHand
    BY DEF PollerIInv
  <1>1. fetch # Idle /\ podPhase[fetch.pod] = "running"
        /\ UNCHANGED <<now, podPhase, log, line, lines, lastPoll, todo, inRound, listed, fate,
                       readAt, again, from, wiped>>
    BY DEF Answer
  <1>2. /\ fetch \in [pod : Pods, since : Int, start : Times,
                      answered : BOOLEAN, body : SUBSET Lines]
        /\ fetch.pod \in Pods /\ fetch.since \in Int /\ fetch.start \in Times
    BY <1>0, <1>1, RequestIsNotIdle
  <1>3. PICK b : b = {l \in log[fetch.pod] : line[l].time >= WholeSeconds(fetch.since)}
    OBVIOUS
  <1>4. fetch' = [fetch EXCEPT !.answered = TRUE, !.body = b]
    BY <1>3 DEF Answer
  <1>5. b \in SUBSET Lines
    BY <1>0, <1>2, <1>3 DEF WindowTypeOK
  <1>6. /\ fetch'.pod = fetch.pod /\ fetch'.since = fetch.since /\ fetch'.start = fetch.start
        /\ fetch'.answered = TRUE /\ fetch'.body = b
        /\ fetch' \in [pod : Pods, since : Int, start : Times,
                       answered : BOOLEAN, body : SUBSET Lines]
    BY <1>2, <1>4, <1>5
  <1>7. WindowTypeOK'
    BY <1>0, <1>1, <1>6 DEF WindowTypeOK
  <1>8. LinesAreKept'
    BY <1>0, <1>1 DEF LinesAreKept
  <1>9. ForgottenIsGone'
    BY <1>0, <1>1, <1>6 DEF ForgottenIsGone
  <1>10. WindowInHand'
    <2>1. \A l \in b : /\ l \in 1..lines /\ line[l].pod = fetch.pod
                       /\ line[l].time >= WholeSeconds(fetch.since)
      BY <1>0, <1>2, <1>3 DEF LinesAreKept
    <2>2. ASSUME NEW l \in 1..lines, line[l].pod = fetch.pod, l \notin wiped,
                 fetch.since <= line[l].time
          PROVE  l \in b
      <3>1. l \in log[fetch.pod]
        BY <1>0, <2>2 DEF LinesAreKept
      <3>2. line[l].time \in Int
        <4>1. l \in Lines
          BY <1>0, PollerAssumption DEF WindowTypeOK, Lines
        <4> QED BY <1>0, <4>1, PollerAssumption DEF WindowTypeOK, Times
      <3>3. line[l].time >= WholeSeconds(fetch.since)
        BY <1>2, <2>2, <3>2, WholeSecondsBefore
      <3> QED BY <1>3, <3>1, <3>3
    <2>3. /\ fetch.since <= fetch.start /\ fetch.start <= now
          /\ lastPoll[fetch.pod] # Never => fetch.since = lastPoll[fetch.pod]
      BY <1>0, <1>1 DEF WindowInHand
    <2> QED BY <1>1, <1>6, <2>1, <2>2, <2>3 DEF WindowInHand, WholeSeconds
  <1>11. ReadBeforeLastPoll' /\ again' \subseteq {l \in 1..lines' : readAt'[l] # Never}
    BY <1>1 DEF PollerIInv, ReadBeforeLastPoll
  <1>12. WindowsMeet'
    BY <1>1 DEF PollerIInv, WindowsMeet, NoGap, AgainOnlyInOverlap, WholeSeconds
  <1> QED BY <1>7, <1>8, <1>9, <1>10, <1>11, <1>12 DEF PollerIInv

\* The window of the request that is done joins the one before it, and what it brings
\* a second time was written in the second they share.
LEMMA FetchDoneKeeps ==
  ASSUME PollerIInv, FetchDone
  PROVE  PollerIInv'
  <1> USE DEF agentVars
  <1>0. /\ WindowTypeOK /\ ForgottenIsGone /\ LinesAreKept /\ WindowInHand
        /\ ReadBeforeLastPoll /\ NoGap /\ AgainOnlyInOverlap
        /\ again \subseteq {l \in 1..lines : readAt[l] # Never}
    BY DEF PollerIInv, WindowsMeet
  <1>1. fetch # Idle
    BY DEF FetchDone, Idle
  <1>2. fetch.pod \in Pods /\ fetch.since \in Int /\ fetch.start \in Times /\ fetch.body \subseteq Lines
    BY <1>0, <1>1, RequestIsNotIdle
  <1>3. PICK p \in Pods, since \in Int, start \in Times, b \in SUBSET Lines :
           p = fetch.pod /\ since = fetch.since /\ start = fetch.start /\ b = fetch.body
    BY <1>2
  <1>4. PICK begin : begin = IF since < 0 THEN 0 ELSE since
    OBVIOUS
  <1>5. /\ fate' = [l \in Lines |-> IF l \in b /\ fate[l] = "none" THEN "fetched" ELSE fate[l]]
        /\ readAt' = [l \in Lines |-> IF l \in b /\ readAt[l] = Never THEN start ELSE readAt[l]]
        /\ again' = again \cup {l \in b : readAt[l] # Never}
        /\ lastPoll' = [lastPoll EXCEPT ![p] = start]
        /\ from' = IF from[p] = Never THEN [from EXCEPT ![p] = begin] ELSE from
        /\ fetch' = Idle
        /\ UNCHANGED <<now, podPhase, log, line, lines, todo, inRound, listed, wiped>>
    BY <1>3, <1>4 DEF FetchDone, Fetched
  <1>6. /\ now \in Nat /\ start \in Nat /\ start # Never /\ Never \notin Nat /\ start <= now
        /\ \A l \in 1..lines : l \in Lines /\ line[l].time \in Nat
        /\ \A q \in Pods : lastPoll[q] # Never => lastPoll[q] \in Nat
    <2>1. now \in Nat /\ start \in Nat /\ start # Never /\ Never \notin Nat
      BY <1>0, PollerAssumption DEF WindowTypeOK, Times, Never
    <2>2. start <= now
      BY <1>0, <1>1, <1>3 DEF WindowInHand
    <2>3. \A l \in 1..lines : l \in Lines
      BY <1>0, PollerAssumption DEF WindowTypeOK, Lines
    <2>4. \A l \in Lines : line[l].time \in Nat
      BY <1>0, PollerAssumption DEF WindowTypeOK, Times
    <2>5. \A q \in Pods : lastPoll[q] # Never => lastPoll[q] \in Nat
      BY <1>0, PollerAssumption DEF WindowTypeOK, Times, Never
    <2> QED BY <2>1, <2>2, <2>3, <2>4, <2>5
  <1>7. /\ lastPoll[p] # Never => since = lastPoll[p]
        /\ lastPoll[p] = Never => from[p] = Never
        /\ \A l \in b : /\ l \in 1..lines /\ line[l].pod = p
                        /\ line[l].time >= WholeSeconds(since)
        /\ \A l \in 1..lines :
              line[l].pod = p /\ l \notin wiped /\ since <= line[l].time /\ line[l].time < start
              => l \in b
    <2>1. fetch.answered
      BY DEF FetchDone
    <2> QED BY <1>0, <1>1, <1>3, <2>1 DEF WindowInHand, ForgottenIsGone
  <1>8. since <= start /\ begin \in Times /\ begin # Never /\ since <= begin
    <2>1. since <= start
      BY <1>0, <1>1, <1>3 DEF WindowInHand
    <2> QED BY <1>4, <1>6, <2>1, PollerAssumption DEF Times, Never
  <1>9. /\ lastPoll'[p] = start /\ from'[p] = IF from[p] = Never THEN begin ELSE from[p]
        /\ \A q \in Pods : q # p => lastPoll'[q] = lastPoll[q] /\ from'[q] = from[q]
    BY <1>0, <1>5 DEF WindowTypeOK
  <1>10. \A l \in Lines :
            /\ fate[l] # "none" \/ l \in b => fate'[l] # "none"
            /\ readAt'[l] = IF l \in b /\ readAt[l] = Never THEN start ELSE readAt[l]
    BY <1>5
  <1>11. WindowTypeOK'
    <2>1. fate' \in [Lines -> {"none", "fetched", "cached", "old", "cut"}]
      BY <1>0, <1>5 DEF WindowTypeOK
    <2>2. readAt' \in [Lines -> Times \cup {Never}]
      BY <1>0, <1>5 DEF WindowTypeOK
    <2>3. from' \in [Pods -> Times \cup {Never}] /\ lastPoll' \in [Pods -> Times \cup {Never}]
      BY <1>0, <1>5, <1>8 DEF WindowTypeOK
    <2> QED BY <1>0, <1>5, <2>1, <2>2, <2>3 DEF WindowTypeOK
  <1>12. LinesAreKept'
    BY <1>0, <1>5 DEF LinesAreKept
  <1>13. ForgottenIsGone'
    <2>1. Idle.pod # p
      BY PollerAssumption DEF Idle
    <2>2. ASSUME NEW q \in Pods
          PROVE  /\ lastPoll'[q] # Never => from'[q] # Never /\ lastPoll'[q] <= now'
                 /\ lastPoll'[q] = Never /\ from'[q] # Never
                       => podPhase'[q] = "gone" /\ q \notin todo' /\ fetch'.pod # q
      <3>1. CASE q = p
        BY <1>5, <1>6, <1>8, <1>9, <3>1
      <3>2. CASE q # p
        <4>1. Idle.pod # q
          BY PollerAssumption DEF Idle
        <4> QED BY <1>0, <1>5, <1>9, <3>2, <4>1 DEF ForgottenIsGone
      <3> QED BY <3>1, <3>2
    <2> QED BY <1>0, <1>5, <2>2 DEF ForgottenIsGone
  <1>14. WindowInHand'
    BY <1>5 DEF WindowInHand, Idle
  <1>15. ReadBeforeLastPoll'
    <2> SUFFICES ASSUME NEW l \in Lines, readAt'[l] # Never
                 PROVE  /\ l \in 1..lines /\ from'[line[l].pod] # Never
                        /\ lastPoll'[line[l].pod] # Never
                              => readAt'[l] <= lastPoll'[line[l].pod]
      BY <1>5 DEF ReadBeforeLastPoll
    <2>1. CASE l \in b /\ readAt[l] = Never
      <3>1. l \in 1..lines /\ line[l].pod = p /\ readAt'[l] = start
        BY <1>7, <1>10, <2>1
      <3>2. from'[p] # Never /\ readAt'[l] <= lastPoll'[p]
        BY <1>6, <1>8, <1>9, <3>1
      <3> QED BY <3>1, <3>2
    <2>2. CASE ~(l \in b /\ readAt[l] = Never)
      <3>1. readAt'[l] = readAt[l] /\ readAt[l] # Never
        BY <1>10, <2>2
      <3>2. /\ l \in 1..lines /\ from[line[l].pod] # Never /\ line[l].pod \in Pods
            /\ lastPoll[line[l].pod] # Never => readAt[l] <= lastPoll[line[l].pod]
        BY <1>0, <3>1 DEF ReadBeforeLastPoll, LinesAreKept
      <3>3. CASE line[l].pod = p
        <4>1. lastPoll[p] # Never /\ readAt[l] <= since
          BY <1>7, <3>2, <3>3
        <4>2. readAt[l] \in Nat
          BY <1>0, <3>1, PollerAssumption DEF WindowTypeOK, Times, Never
        <4>3. readAt[l] <= start
          BY <1>6, <1>8, <4>1, <4>2
        <4> QED BY <1>8, <1>9, <3>1, <3>2, <3>3, <4>3
      <3>4. CASE line[l].pod # p
        BY <1>9, <3>1, <3>2, <3>4
      <3> QED BY <3>3, <3>4
    <2> QED BY <2>1, <2>2
  <1>16. again' \subseteq {l \in 1..lines' : readAt'[l] # Never}
    BY <1>0, <1>5, <1>6, <1>7, <1>10
  <1>17. NoGap'
    <2> SUFFICES ASSUME NEW l \in 1..lines,
                        lastPoll'[line[l].pod] # Never, from'[line[l].pod] # Never,
                        from'[line[l].pod] <= line[l].time,
                        line[l].time < lastPoll'[line[l].pod]
                 PROVE  fate'[l] # "none" \/ l \in wiped
      BY <1>5 DEF NoGap
    <2>1. l \in Lines /\ line[l].pod \in Pods /\ line[l].time \in Nat
      BY <1>0, <1>6 DEF LinesAreKept
    <2>2. CASE line[l].pod # p
      BY <1>0, <1>9, <1>10, <2>1, <2>2 DEF NoGap
    <2>3. CASE line[l].pod = p
      <3>1. line[l].time < start
        BY <1>9, <2>3
      <3>2. CASE since <= line[l].time
        BY <1>7, <1>10, <2>1, <2>3, <3>1, <3>2
      <3>3. CASE line[l].time < since
        <4>1. from[p] # Never
          BY <1>8, <1>9, <2>1, <2>3, <3>3, <1>4
        <4>2. from[p] <= line[l].time /\ lastPoll[p] # Never /\ since = lastPoll[p]
          BY <1>7, <1>9, <2>3, <4>1
        <4> QED BY <1>0, <1>10, <2>1, <2>3, <3>3, <4>1, <4>2 DEF NoGap
      <3> QED BY <2>1, <3>2, <3>3
    <2> QED BY <2>2, <2>3
  <1>18. AgainOnlyInOverlap'
    <2> SUFFICES ASSUME NEW l \in again' PROVE line[l].time >= WholeSeconds(readAt'[l])
      BY <1>5 DEF AgainOnlyInOverlap, WholeSeconds
    <2>1. readAt[l] # Never /\ l \in 1..lines
      BY <1>0, <1>5, <1>7
    <2>2. readAt'[l] = readAt[l]
      BY <1>6, <1>10, <2>1
    <2>3. CASE l \in again
      BY <1>0, <2>2, <2>3 DEF AgainOnlyInOverlap
    <2>4. CASE l \in b
      <3>1. line[l].pod = p /\ line[l].time >= WholeSeconds(since)
        BY <1>7, <2>4
      <3>2. lastPoll[p] # Never /\ readAt[l] <= since
        BY <1>0, <1>6, <1>7, <2>1, <3>1 DEF ReadBeforeLastPoll
      <3>3. readAt[l] \in Int /\ line[l].time \in Int
        BY <1>0, <1>6, <2>1, PollerAssumption DEF WindowTypeOK, Times, Never
      <3>4. WholeSeconds(readAt[l]) <= WholeSeconds(since)
        BY <3>2, <3>3, WholeSecondsMonotone
      <3>5. WholeSeconds(readAt[l]) \in Int /\ WholeSeconds(since) \in Int
        BY <3>3, WholeSecondsBefore
      <3> QED BY <2>2, <3>1, <3>3, <3>4, <3>5
    <2> QED BY <1>5, <2>3, <2>4
  <1> QED BY <1>11, <1>12, <1>13, <1>14, <1>15, <1>16, <1>17, <1>18 DEF PollerIInv, WindowsMeet

\* Parsing decides what becomes of a line that was fetched; it never makes it one
\* that was not.
LEMMA ParseLineKeeps ==
  ASSUME PollerIInv, ParseLine
  PROVE  PollerIInv'
  <1> USE DEF agentVars
  <1>0. WindowTypeOK
    BY DEF PollerIInv
  <1>1. UNCHANGED <<now, podPhase, log, line, lines, lastPoll, todo, inRound, listed, fetch,
                    readAt, again, from, wiped>>
    BY DEF ParseLine
  <1>2. PICK l, s : l = Head(batch) /\ s = Range1(batch)
    OBVIOUS
  <1>3. \/ fate' = [k \in Lines |-> IF k \in s /\ fate[k] = "fetched" THEN "cut" ELSE fate[k]]
        \/ fate' = [fate EXCEPT ![l] = IF line[l].time >= notBefore THEN "cached"
                                       ELSE IF fate[l] = "cached" THEN fate[l] ELSE "old"]
    BY <1>2 DEF ParseLine
  <1>4. /\ fate' \in [Lines -> {"none", "fetched", "cached", "old", "cut"}]
        /\ \A k \in Lines : fate[k] # "none" => fate'[k] # "none"
    BY <1>0, <1>3 DEF WindowTypeOK
  <1>5. WindowTypeOK'
    BY <1>0, <1>1, <1>4 DEF WindowTypeOK
  <1>6. LinesAreKept' /\ ForgottenIsGone' /\ ReadBeforeLastPoll'
    BY <1>1 DEF PollerIInv, LinesAreKept, ForgottenIsGone, ReadBeforeLastPoll
  <1>7. WindowInHand'
    BY <1>1 DEF PollerIInv, WindowInHand, WholeSeconds, Idle
  <1>8. again' \subseteq {k \in 1..lines' : readAt'[k] # Never}
    BY <1>1 DEF PollerIInv
  <1>9. NoGap'
    <2>1. \A k \in 1..lines : k \in Lines
      BY <1>0, PollerAssumption DEF WindowTypeOK, Lines
    <2> QED BY <1>1, <1>4, <2>1 DEF PollerIInv, WindowsMeet, NoGap
  <1>10. AgainOnlyInOverlap'
    BY <1>1 DEF PollerIInv, WindowsMeet, AgainOnlyInOverlap, WholeSeconds
  <1> QED BY <1>5, <1>6, <1>7, <1>8, <1>9, <1>10 DEF PollerIInv, WindowsMeet

\* A pod is forgotten when it is not listed, that is, when it has gone.
LEMMA CleanupStalePodsKeeps ==
  ASSUME PollerIInv, CleanupStalePods
  PROVE  PollerIInv'
  <1> USE DEF agentVars, seenVars
  <1>0. WindowTypeOK /\ ForgottenIsGone
    BY DEF PollerIInv
  <1>1. /\ inRound /\ todo = {} /\ fetch = Idle /\ inRound' = FALSE
        /\ lastPoll' = [p \in Pods |-> IF p \in listed THEN lastPoll[p] ELSE Never]
        /\ UNCHANGED <<now, podPhase, log, line, lines, todo, listed, fetch, fate, readAt, again,
                       from, wiped>>
    BY DEF CleanupStalePods
  <1>2. \A p \in Pods : /\ lastPoll'[p] = lastPoll[p] \/ lastPoll'[p] = Never
                        /\ lastPoll'[p] # lastPoll[p] => podPhase[p] = "gone"
    BY <1>0, <1>1 DEF ForgottenIsGone
  <1>3. WindowTypeOK'
    <2>1. lastPoll' \in [Pods -> Times \cup {Never}]
      BY <1>0, <1>1 DEF WindowTypeOK
    <2> QED BY <1>0, <1>1, <2>1 DEF WindowTypeOK
  <1>4. LinesAreKept'
    BY <1>1 DEF PollerIInv, LinesAreKept
  <1>5. ForgottenIsGone'
    <2>1. \A p \in Pods : fetch.pod # p
      BY <1>1, PollerAssumption DEF Idle
    <2> QED BY <1>0, <1>1, <1>2, <2>1 DEF ForgottenIsGone
  <1>6. WindowInHand'
    BY <1>1 DEF WindowInHand, Idle
  <1>7. \A l \in 1..lines : line[l].pod \in Pods
    BY DEF PollerIInv, LinesAreKept
  <1>8. ReadBeforeLastPoll'
    BY <1>1, <1>2, <1>7 DEF PollerIInv, ReadBeforeLastPoll
  <1>9. again' \subseteq {l \in 1..lines' : readAt'[l] # Never}
    BY <1>1 DEF PollerIInv
  <1>10. NoGap'
    BY <1>1, <1>2, <1>7 DEF PollerIInv, WindowsMeet, NoGap
  <1>11. AgainOnlyInOverlap'
    BY <1>1 DEF PollerIInv, WindowsMeet, AgainOnlyInOverlap, WholeSeconds
  <1> QED BY <1>3, <1>4, <1>5, <1>6, <1>8, <1>9, <1>10, <1>11 DEF PollerIInv, WindowsMeet

\* The next collector has read nothing and tracks nobody.
LEMMA NewVpcCollectorKeeps ==
  ASSUME PollerIInv, NewVpcCollector
  PROVE  PollerIInv'
  <1> USE DEF agentVars
  <1>0. WindowTypeOK
    BY DEF PollerIInv
  <1>1. /\ lastPoll' = [p \in Pods |-> Never] /\ from' = [p \in Pods |-> Never]
        /\ readAt' = [l \in Lines |-> Never] /\ again' = {}
        /\ todo' = {} /\ inRound' = FALSE /\ fetch' = Idle
        /\ UNCHANGED <<now, podPhase, log, line, lines, listed, wiped>>
    BY DEF NewVpcCollector
  <1>2. fate' \in [Lines -> {"none", "fetched", "cached", "old", "cut"}]
    <2>1. PICK s : s = Range1(batch)
      OBVIOUS
    <2>2. fate' = [l \in Lines |-> IF l \in s /\ fate[l] = "fetched" THEN "cut" ELSE fate[l]]
      BY <2>1 DEF NewVpcCollector
    <2> QED BY <1>0, <2>2 DEF WindowTypeOK
  <1>3. WindowTypeOK'
    BY <1>0, <1>1, <1>2 DEF WindowTypeOK
  <1>4. LinesAreKept'
    BY <1>1 DEF PollerIInv, LinesAreKept
  <1>5. ForgottenIsGone' /\ WindowInHand' /\ ReadBeforeLastPoll'
    BY <1>1 DEF ForgottenIsGone, WindowInHand, ReadBeforeLastPoll
  <1>6. \A l \in 1..lines : line[l].pod \in Pods
    BY DEF PollerIInv, LinesAreKept
  <1>7. NoGap' /\ AgainOnlyInOverlap'
    BY <1>1, <1>6 DEF NoGap, AgainOnlyInOverlap
  <1> QED BY <1>1, <1>3, <1>4, <1>5, <1>7 DEF PollerIInv, WindowsMeet

\* Every step of the poller and of its pods keeps the invariant.
LEMMA PollerKeeps == PollerIInv /\ PollerNext => PollerIInv'
  BY QuietPollerSteps, WriteLineKeeps, PodEndsKeeps, ListPodsKeeps, PollPodKeeps, AnswerKeeps,
     FetchDoneKeeps, ParseLineKeeps, CleanupStalePodsKeeps, NewVpcCollectorKeeps
  DEF PollerNext, AgentStep, PollerStep

--------------------------------------------------------------------------------
(* The three side by side. *)

CollectionIInv == HubbleIInv /\ OvnkIInv /\ PollerIInv

\* An invariant of one collector holds as long as nobody touches its variables.
LEMMA CollectorsUntouched ==
  /\ HubbleIInv /\ UNCHANGED hubbleVars => HubbleIInv'
  /\ OvnkIInv /\ UNCHANGED ovnkVars => OvnkIInv'
  /\ PollerIInv /\ UNCHANGED pollerVars => PollerIInv'
  <1>1. HubbleIInv /\ UNCHANGED hubbleVars => HubbleIInv'
    BY DEF HubbleIInv, PlainForAReason, hubbleVars
  <1>2. OvnkIInv /\ UNCHANGED ovnkVars => OvnkIInv'
    BY DEF OvnkIInv, GoodsIn, GoodAt, ovnkVars
  <1>3. PollerIInv /\ UNCHANGED pollerVars => PollerIInv'
    BY DEF PollerIInv, WindowTypeOK, LinesAreKept, ForgottenIsGone, WindowInHand,
           ReadBeforeLastPoll, WindowsMeet, NoGap, AgainOnlyInOverlap, WholeSeconds, Idle,
           pollerVars
  <1> QED BY <1>1, <1>2, <1>3

\* Detection decides and touches no collector; then only the one detected moves.
LEMMA CollectionStep == CollectionIInv /\ [CollectionNext]_collectionVars => CollectionIInv'
  <1> SUFFICES ASSUME CollectionIInv, [CollectionNext]_collectionVars PROVE CollectionIInv'
    OBVIOUS
  <1> USE DEF CollectionIInv
  <1>1. CASE DetectFlowCollector
    BY <1>1, CollectorsUntouched DEF DetectFlowCollector
  <1>2. CASE CiliumRuns
    BY <1>2, CollectorsUntouched, HubbleKeeps DEF CiliumRuns
  <1>3. CASE OvnkRuns
    BY <1>3, CollectorsUntouched, OvnkKeeps DEF OvnkRuns
  <1>4. CASE VpcCniRuns
    BY <1>4, CollectorsUntouched, PollerKeeps DEF VpcCniRuns
  <1>5. CASE UNCHANGED collectionVars
    BY <1>5, CollectorsUntouched DEF collectionVars
  <1> QED BY <1>1, <1>2, <1>3, <1>4, <1>5 DEF CollectionNext, OtherwiseIdle

\* The invariants of the collectors hold in every behaviour of the system.
LEMMA CollectionInvariant == CollectionSpec => []CollectionIInv
  <1>1. CollectionInit => CollectionIInv
    BY HubbleStarts, OvnkStarts, PollerStarts DEF CollectionInit, CollectionIInv
  <1> QED BY <1>1, CollectionStep, PTL DEF CollectionSpec

\* Whatever relays, certificates and faults the Cilium collector meets, flows travel in
\* plain text only without a usable certificate, or after a relay answered a TLS
\* handshake in plain text (disableSubsystemCausingError, connectToHubbleRelay).
THEOREM PlainAlwaysForAReason == CollectionSpec => []PlainForAReason
  <1>1. CollectionIInv => PlainForAReason
    BY DEF CollectionIInv, HubbleIInv
  <1> QED BY <1>1, CollectionInvariant, PTL

\* However many sessions and packets of whatever records, every good record that was
\* read is cached, in hand, or left out by a session that ended (processIPFIXMessage).
THEOREM RecordsAlwaysAccounted == CollectionSpec => []RecordsAccounted
  <1>1. CollectionIInv => RecordsAccounted
    BY OvnkMeans DEF CollectionIInv
  <1> QED BY <1>1, CollectionInvariant, PTL

\* For any pods, lines and intervals, and whatever requests fail, the windows of a pod's
\* polls leave no line out and overlap in one second only (pollPod, getLogsFromPod).
THEOREM WindowsAlwaysMeet == CollectionSpec => []WindowsMeet
  <1>1. CollectionIInv => WindowsMeet
    BY DEF CollectionIInv, PollerIInv
  <1> QED BY <1>1, CollectionInvariant, PTL

================================================================================
