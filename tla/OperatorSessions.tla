----------------------------- MODULE OperatorSessions -----------------------------
(***************************************************************************)
(* ConnectStreams with the authentication in front of it.  The pod self    *)
(* has the streams of StreamManager; of the pod it replaces only the       *)
(* authentication is of interest, which shares the secret.                 *)
(***************************************************************************)
EXTENDS StreamManager, Onboarding

CONSTANT self

ASSUME SessionsAssumption ==
    self \in Pods /\ Pods # {self} /\ MaxFaults > 0 /\ MaxMishaps > 0

sessionVars == <<managerVars, onboardingVars>>

\* A new cluster, in which most goes wrong before the streams are up; or a cluster
\* that is being upgraded, in which most goes wrong afterwards.
SessionsInit ==
    \/ ManagerInit(MaxFaults - 1) /\ OnboardingInit({}, 0)
    \/ ManagerInit(0) /\ OnboardingInit(Pods \ {self}, MaxMishaps - 1)

--------------------------------------------------------------------------------
\* The pod that is replaced goes away once its successor is up.
Replaced(p) == p # self /\ current = 0

\* The timer fires and runStreamsOnce starts with the credentials.
MayConnect == waiting /\ current < MaxConnections

Authenticate ==
    /\ \/ MayConnect /\ AuthStep(self)
       \/ \E p \in Pods : Replaced(p) /\ AuthStep(p)
    /\ UNCHANGED managerVars

\* runStreamsOnce returns without a connection, and the timer is set again.
AuthenticationFails ==
    /\ AuthFault(self) \/ \E p \in Pods : Replaced(p) /\ AuthFault(p)
    /\ UNCHANGED managerVars

Connect ==
    \/ \E p \in Pods : Replaced(p) /\ SetUpOAuthConnection(p) /\ UNCHANGED managerVars
    \/ SetUpOAuthConnection(self) /\ OpenConnection

Close == Disconnect(self) /\ CloseConnection

\* The process ends: its goroutines are gone with it, the secret is not.
Restart ==
    \/ \E p \in Pods : Replaced(p) /\ Crash(p) /\ UNCHANGED managerVars
    \/ /\ Crash(self)
       /\ current < MaxConnections
       /\ waiting' = TRUE
       /\ cancelled' = [c \in Connections |-> FALSE]
       /\ managed' = [c \in Connections |-> [f \in Streams |-> Unstarted]]
       /\ UNCHANGED <<current, faults>>

SessionsNext ==
    \/ Authenticate \/ AuthenticationFails \/ Connect \/ Close \/ Restart
    \/ /\ \E c \in Connections, f \in Streams : ManageStream(c, f)
       /\ UNCHANGED onboardingVars

\* Timers fire, calls return, closed channels are noticed, and a stream whose
\* context is done returns.  Nothing is assumed of failures.
SessionsFairness ==
    /\ WF_sessionVars(MayConnect /\ AuthStep(self) /\ UNCHANGED managerVars)
    /\ WF_sessionVars(SetUpOAuthConnection(self) /\ OpenConnection)
    /\ WF_sessionVars(Close)
    /\ \A c \in Connections, f \in Streams :
          /\ WF_managerVars(Wake(c, f))
          /\ WF_managerVars(cancelled[c] /\ RunFails(c, f))

SessionsSpec == SessionsInit /\ [][SessionsNext]_sessionVars /\ SessionsFairness
================================================================================
