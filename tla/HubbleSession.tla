----------------------------- MODULE HubbleSession -----------------------------
(***************************************************************************)
(* The Cilium collector: find Hubble Relay in one of the namespaces, read  *)
(* its client certificate, connect, and follow its flow stream, with a     *)
(* watchdog beside the stream.  A failed handshake turns ALPN or TLS off   *)
(* for the rest of the process.                                            *)
(*                                                                         *)
(* The relay, its service and its secret belong to the environment and     *)
(* change a bounded number of times.  How often the stream manager runs    *)
(* the collector again is the subject of StreamManager: here an idle       *)
(* collector is run again, and a stopped one with the next connection.     *)
(***************************************************************************)
EXTENDS Integers, Sequences, FiniteSets

CONSTANTS
    CiliumNamespaces,  \* the namespaces to look in, in order
    MaxChanges         \* bound on the relay's changes and the transient faults

ASSUME HubbleAssumption == CiliumNamespaces # << >> /\ MaxChanges \in Nat

VARIABLES
    service,   \* service[ns]: "none", "noports" or "ok"
    secret,    \* secret[ns]: "none", "bad" or "good"
    relay,     \* how the relay speaks: "plain", "tls", "tlsNoALPN"
    agents,    \* [connected, unavailable]: the relay's agent nodes
    changes,   \* number of changes and of transient faults so far
    tlsProps,  \* tlsAuthProps, shared by all collectors of the process
    session,   \* "idle", "connected", "streaming" or "stopped"
    creds,     \* credentials of the connection
    warned,    \* the watchdog warned since the agents last changed
    cert,      \* history: what GetTLSConfig found for the connection made last
    sawPlain   \* history: a TLS handshake met a relay without TLS

relayVars   == <<service, secret, relay, agents, changes>>
sessionVars == <<tlsProps, session, creds, warned, cert, sawPlain>>
hubbleVars  == <<service, secret, relay, agents, changes, tlsProps, session,
                 creds, warned, cert, sawPlain>>

NamespaceSet == {CiliumNamespaces[i] : i \in DOMAIN CiliumNamespaces}
Wires        == {"plain", "tls", "tlsNoALPN"}
Certificates == {"none", "usable", "unusable", "unread"}
AgentCounts  == [connected : {0, 1}, unavailable : {0, 1}]
AllReachable == [connected |-> 1, unavailable |-> 0]

\* Type invariant of the Hubble session.
HubbleTypeOK ==
    /\ service \in [NamespaceSet -> {"none", "noports", "ok"}]
    /\ secret \in [NamespaceSet -> {"none", "bad", "good"}]
    /\ relay \in Wires /\ agents \in AgentCounts /\ changes \in 0..MaxChanges
    /\ tlsProps \in [DisableALPN : BOOLEAN, DisableTLS : BOOLEAN]
    /\ session \in {"idle", "connected", "streaming", "stopped"}
    /\ creds \in {"none", "insecure", "tls", "noALPN"}
    /\ session \in {"connected", "streaming"} <=> creds # "none"
    /\ cert \in Certificates
    /\ warned => session = "streaming"

HubbleInit ==
    /\ service \in [NamespaceSet -> {"none", "noports", "ok"}]
    /\ secret \in [NamespaceSet -> {"none", "bad", "good"}]
    /\ relay \in Wires
    /\ agents \in AgentCounts
    /\ changes = 0
    /\ tlsProps = [DisableALPN |-> FALSE, DisableTLS |-> FALSE]
    /\ session = "idle" /\ creds = "none"
    /\ warned = FALSE /\ cert = "none" /\ sawPlain = FALSE

--------------------------------------------------------------------------------
(* The relay, external to the repository. *)

RelayChanges ==
    /\ changes < MaxChanges
    /\ changes' = changes + 1
    /\ \E w \in Wires, ns \in NamespaceSet, s \in {"none", "ok"}, k \in {"none", "good"} :
          /\ relay' = w
          /\ service' = [service EXCEPT ![ns] = s]
          /\ secret' = [secret EXCEPT ![ns] = k]
    /\ UNCHANGED <<agents, sessionVars>>

AgentsChange ==
    /\ changes < MaxChanges
    /\ changes' = changes + 1
    /\ \E a \in AgentCounts \ {agents} : agents' = a
    /\ warned' = FALSE
    /\ UNCHANGED <<service, secret, relay, tlsProps, session, creds, cert, sawPlain>>

--------------------------------------------------------------------------------
(* DiscoverCiliumHubbleRelay, GetAddressFromService, GetTLSConfig and       *)
(* ConnectToHubbleRelay.                                                    *)

\* The namespaces whose service can be read: any error counts as not found.
Discovered == {i \in DOMAIN CiliumNamespaces : service[CiliumNamespaces[i]] # "none"}

FirstNamespace(found) == CiliumNamespaces[CHOOSE i \in found : \A j \in found : i <= j]

\* getMTLSCertificatesFromSecret and loadMTLSConfigFromData: the secret can be
\* read, all three parts are there, are PEM and fit together.  The call that
\* reads it may fail although the secret is there.
GetTLSConfig(ns, readable) ==
    IF ~readable THEN "unread" ELSE IF secret[ns] = "good" THEN "usable" ELSE "unusable"

\* Whatever kept GetTLSConfig from a certificate, the connection is made in plain
\* text.
ConnectToHubbleRelay(found) ==
    IF found # "usable" \/ tlsProps.DisableTLS THEN "insecure"
    ELSE IF tlsProps.DisableALPN THEN "noALPN" ELSE "tls"

\* A lookup, a call or a stream fails for a reason of its own.
Fault == changes < MaxChanges /\ changes' = changes + 1

\* Run up to the connection.  A lookup may fail although the service, or the
\* secret, is there.
NewCiliumFlowCollector ==
    /\ session = "idle"
    /\ \E found \in SUBSET Discovered, readable \in BOOLEAN :
       /\ Fault \/ (found = Discovered /\ readable /\ UNCHANGED changes)
       /\ IF found = {} \/ service[FirstNamespace(found)] = "noports"
          THEN /\ session' = "stopped"    \* ShouldStopRetries
               /\ UNCHANGED <<creds, cert>>
          ELSE /\ cert' = GetTLSConfig(FirstNamespace(found), readable)
               /\ creds' = ConnectToHubbleRelay(cert')
               /\ session' = "connected"
    /\ UNCHANGED <<service, secret, relay, agents, tlsProps, warned, sawPlain>>

\* IsCiliumAvailable: the same steps, without an error.
IsCiliumAvailable(found) ==
    found # {} /\ service[FirstNamespace(found)] # "noports"

\* AsTLSHandshakeError: what the first call on the connection meets.
AsTLSHandshakeError(c, w) ==
    CASE c = "insecure" /\ w = "plain"  -> "ok"
      [] c = "insecure"                 -> "other"
      [] w = "plain"                    -> "notTLS"
      [] c = "tls" /\ w = "tlsNoALPN"   -> "alpnMissing"
      [] OTHER                          -> "ok"

\* Mutant of disableSubsystemCausingError: whatever fails, TLS goes.
disableTLSOnAnyError(e) ==
    [tlsProps EXCEPT !.DisableTLS = @ \/ e # "alpnMissing",
                     !.DisableALPN = @ \/ e = "alpnMissing"]

\* Mutant of disableSubsystemCausingError: ALPN stays on.
disableTLSOnly(e) == [tlsProps EXCEPT !.DisableTLS = @ \/ e = "notTLS"]

disableSubsystemCausingError(e) ==
    [tlsProps EXCEPT !.DisableTLS = @ \/ e = "notTLS",
                     !.DisableALPN = @ \/ e = "alpnMissing"]

SessionEnds(e) ==
    /\ session' = "idle" /\ creds' = "none" /\ warned' = FALSE
    /\ tlsProps' = disableSubsystemCausingError(e)

\* ExportCiliumFlows opens the stream.
GetFlows ==
    /\ session = "connected"
    /\ LET e == AsTLSHandshakeError(creds, relay) IN
       IF e = "ok" THEN session' = "streaming" /\ UNCHANGED <<tlsProps, creds, warned, sawPlain>>
       ELSE SessionEnds(e) /\ sawPlain' = (sawPlain \/ e = "notTLS")
    /\ UNCHANGED <<relayVars, cert>>

\* GetFlows, Recv or CacheFlow fails for another reason, or the context ends.
StreamBreaks ==
    /\ session \in {"connected", "streaming"}
    /\ Fault
    /\ SessionEnds("other")
    /\ UNCHANGED <<service, secret, relay, agents, cert, sawPlain>>

\* The next connection runs a stopped collector again.
RunAgain ==
    /\ session = "stopped"
    /\ session' = "idle"
    /\ UNCHANGED <<relayVars, tlsProps, creds, warned, cert, sawPlain>>

\* monitorHubbleRelayServerStatus: a tick whose status call succeeds.
MonitorTick ==
    /\ session = "streaming"
    /\ warned' = (warned \/ agents.unavailable > 0 \/ agents.connected = 0)
    /\ UNCHANGED <<relayVars, tlsProps, session, creds, cert, sawPlain>>

HubbleEnvironment == RelayChanges \/ AgentsChange

HubbleStep ==
    \/ NewCiliumFlowCollector
    \/ GetFlows
    \/ StreamBreaks
    \/ RunAgain
    \/ MonitorTick

HubbleNext == HubbleEnvironment \/ HubbleStep

(* While the collector is the one that runs, the stream manager runs it again *)
(* and its calls end; transient faults are bounded.                           *)
HubbleFairness ==
    /\ WF_hubbleVars(RunAgain)
    /\ WF_hubbleVars(NewCiliumFlowCollector)
    /\ WF_hubbleVars(GetFlows)
    /\ WF_hubbleVars(MonitorTick)

HubbleSpec == HubbleInit /\ [][HubbleNext]_hubbleVars
FairHubble == HubbleSpec /\ HubbleFairness

--------------------------------------------------------------------------------
\* Flows travel unencrypted only if the secret, when the connection was made, held
\* no usable certificate or could not be read, or if a relay has answered a TLS
\* handshake of this process with plain text: no other failure of a connection,
\* however often they follow each other, turns TLS off.  The last two reasons hold
\* also where a usable certificate exists and the relay speaks TLS.
PlainForAReason ==
    creds = "insecure" => cert \in {"unusable", "unread"} \/ sawPlain

\* The inductive invariant behind it: TLS is off for the rest of the process only
\* after such an answer.
HubbleIInv ==
    /\ tlsProps \in [DisableALPN : BOOLEAN, DisableTLS : BOOLEAN]
    /\ cert \in Certificates /\ sawPlain \in BOOLEAN
    /\ tlsProps.DisableTLS => sawPlain
    /\ PlainForAReason

\* Every namespace with a service has a port, there is one, and what the
\* fallbacks have left can still talk to the relay.
Servable ==
    /\ Discovered # {}
    /\ \A ns \in NamespaceSet :
          service[ns] # "none" =>
              /\ service[ns] = "ok"
              /\ relay = "plain" \/ (secret[ns] = "good" /\ ~tlsProps.DisableTLS)

\* A stream that stays open while the relay has lost its agents delivers
\* nothing; the watchdog says so.
SilenceIsReported ==
    (session = "streaming" /\ agents # AllReachable)
        ~> (warned \/ session # "streaming" \/ agents = AllReachable)
================================================================================
