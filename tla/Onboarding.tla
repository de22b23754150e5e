------------------------------- MODULE Onboarding -------------------------------
(***************************************************************************)
(* How an operator process gets its credentials: from the cluster's secret *)
(* or, if that is empty, by registering the cluster with CloudSecure and   *)
(* writing what it gets into the secret.  Every registration leaves an     *)
(* entry behind at CloudSecure, so a second one is not free.               *)
(*                                                                         *)
(* The deployment has one replica, but while it is rolled over the old pod *)
(* and the new one run side by side.  Either may crash at any point.       *)
(***************************************************************************)
EXTENDS Integers, FiniteSets

CONSTANTS
    Pods,       \* the processes that may run at the same time
    MaxMishaps  \* bound on refused or lost calls and crashes

ASSUME OnboardingAssumption == IsFiniteSet(Pods) /\ MaxMishaps \in Nat

VARIABLES
    step,     \* step[p]: where NewAuthenticatedConnection is in pod p
    held,     \* held[p]: the credentials p has in hand
    secret,   \* the credentials in the secret
    revision, \* the secret's resource version
    read,     \* read[p]: the resource version p is about to update
    issued,   \* the registrations at CloudSecure so far
    mishaps

onboardingVars == <<step, held, secret, revision, read, issued, mishaps>>

\* Credentials are numbered in the order they were issued.
NoCreds == 0

\* A cluster that was never onboarded, or one that was, by the pods in up.
OnboardingInit(up, past) ==
    /\ step = [p \in Pods |-> IF p \in up THEN "connected" ELSE "idle"]
    /\ secret = IF up = {} THEN NoCreds ELSE 1
    /\ issued = secret /\ revision = secret
    /\ held = [p \in Pods |-> IF p \in up THEN secret ELSE NoCreds]
    /\ read = [p \in Pods |-> 0]
    /\ mishaps = past

--------------------------------------------------------------------------------
Goes(p, from, to) == step[p] = from /\ step' = [step EXCEPT ![p] = to]

Mishap == mishaps < MaxMishaps /\ mishaps' = mishaps + 1

\* The attempt ends; ConnectStreams will make another.
Abandon(p) ==
    /\ step' = [step EXCEPT ![p] = "idle"]
    /\ held' = [held EXCEPT ![p] = NoCreds]
    /\ read' = [read EXCEPT ![p] = 0]

Attempt(p) ==
    /\ Goes(p, "idle", "read")
    /\ UNCHANGED <<held, secret, revision, read, issued, mishaps>>

\* Mutant of GetClusterCredentials: what was stored is not looked at.
OnboardsAlways(p) ==
    /\ Goes(p, "read", "onboard")
    /\ UNCHANGED <<held, secret, revision, read, issued, mishaps>>

\* The secret is read; without credentials in it the cluster is onboarded.
GetClusterCredentials(p) ==
    /\ \/ Goes(p, "read", "token") /\ secret # NoCreds
       \/ Goes(p, "read", "onboard") /\ secret = NoCreds
    /\ held' = [held EXCEPT ![p] = secret]
    /\ UNCHANGED <<secret, revision, read, issued, mishaps>>

OnboardCluster(p) ==
    /\ Goes(p, "onboard", "fetch")
    /\ issued' = issued + 1
    /\ held' = [held EXCEPT ![p] = issued + 1]
    /\ UNCHANGED <<secret, revision, read, mishaps>>

\* The answer is lost or late (the client waits five seconds): CloudSecure has
\* registered the cluster and the operator does not know.
OnboardingLost(p) ==
    /\ step[p] = "onboard"
    /\ issued' = issued + 1
    /\ Mishap /\ Abandon(p)
    /\ UNCHANGED <<secret, revision>>

\* Any call may fail without an effect: the API server's, a refused onboarding, no
\* token, a token without an audience.
CallRefused(p) ==
    /\ step[p] \notin {"idle", "connected"}
    /\ Mishap /\ Abandon(p)
    /\ UNCHANGED <<secret, revision, issued>>

\* writeClusterCredentialsIntoK8sSecret: the secret is read again and updated.
FetchSecret(p) ==
    /\ Goes(p, "fetch", "update")
    /\ read' = [read EXCEPT ![p] = revision]
    /\ UNCHANGED <<held, secret, revision, issued, mishaps>>

\* Mutant of UpdateSecret: the error of the update is not returned.
UpdateSecretAnyway(p) ==
    /\ Goes(p, "update", "token")
    /\ \/ read[p] = revision /\ secret' = held[p] /\ revision' = revision + 1
       \/ UNCHANGED <<secret, revision>>
    /\ read' = [read EXCEPT ![p] = 0]
    /\ UNCHANGED <<held, issued, mishaps>>

UpdateSecret(p) ==
    /\ Goes(p, "update", "token")
    /\ read[p] = revision
    /\ secret' = held[p] /\ revision' = revision + 1
    /\ read' = [read EXCEPT ![p] = 0]
    /\ UNCHANGED <<held, issued, mishaps>>

\* Another pod has updated the secret in between.
UpdateConflicts(p) ==
    /\ step[p] = "update" /\ read[p] # revision
    /\ Abandon(p)
    /\ UNCHANGED <<secret, revision, issued, mishaps>>

SetUpOAuthConnection(p) ==
    /\ Goes(p, "token", "connected")
    /\ UNCHANGED <<held, secret, revision, read, issued, mishaps>>

\* The connection is closed and will be made anew.
Disconnect(p) ==
    /\ step[p] = "connected"
    /\ Abandon(p)
    /\ UNCHANGED <<secret, revision, issued, mishaps>>

Crash(p) ==
    /\ step[p] # "idle"
    /\ Mishap /\ Abandon(p)
    /\ UNCHANGED <<secret, revision, issued>>

\* What a pod does by itself, up to the connection.
AuthStep(p) ==
    \/ Attempt(p) \/ GetClusterCredentials(p) \/ OnboardCluster(p)
    \/ FetchSecret(p) \/ UpdateSecret(p) \/ UpdateConflicts(p)

AuthFault(p) == OnboardingLost(p) \/ CallRefused(p)

--------------------------------------------------------------------------------
\* A pod that is connected can be restarted without a new registration: the secret
\* holds credentials, however its writing raced with the other pod's.
StoredBeforeUse == \A p \in Pods : step[p] = "connected" => secret # NoCreds

\* Every registration beyond one for each pod is owed to a call that failed, an
\* answer that was lost or a crash: the operator never registers the cluster
\* again for a reason of its own.
RegistrationsAccounted == issued <= Cardinality(Pods) + mishaps

--------------------------------------------------------------------------------
(***************************************************************************)
(* The inductive invariant behind the two.  While the secret is empty, no  *)
(* update can conflict, so a pod that holds a registration keeps it until  *)
(* it is stored or something fails; once the secret is not, only the pods  *)
(* that had already found it empty will register the cluster.              *)
(***************************************************************************)
Steps == {"idle", "read", "onboard", "fetch", "update", "token", "connected"}

\* The pods that may register the cluster once more although nothing fails.
MayRegister ==
    {p \in Pods : IF secret = NoCreds THEN step[p] \notin {"fetch", "update"}
                                      ELSE step[p] = "onboard"}

OnboardingIInv ==
    /\ step \in [Pods -> Steps]
    /\ held \in [Pods -> Nat] /\ read \in [Pods -> Nat]
    /\ {secret, revision, issued} \subseteq Nat /\ mishaps \in 0..MaxMishaps
    /\ secret = NoCreds => revision = 0
    /\ \A p \in Pods :
          /\ read[p] <= revision
          /\ step[p] \in {"fetch", "update"} => held[p] # NoCreds
          /\ step[p] \in {"token", "connected"} => secret # NoCreds
    /\ issued + Cardinality(MayRegister) <= Cardinality(Pods) + mishaps
================================================================================
