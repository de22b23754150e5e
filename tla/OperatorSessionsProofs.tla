------------------------- MODULE OperatorSessionsProofs -------------------------
(***************************************************************************)
(* Credentials are stored before they are used, the cluster is registered  *)
(* again only when something failed, and no sleep of a stream leaves its   *)
(* bounds: for any number of pods, streams, connections and failures, and  *)
(* for every choice of the backoff's parameters.                           *)
(*                                                                         *)
(* On the log stream no entry disappears uncounted, none is given up while *)
(* there is room, and CloudSecure gets them in order, for any buffer size  *)
(* and any number of entries and streams.                                  *)
(***************************************************************************)
EXTENDS OperatorSessions, LogSyncer, FiniteSetTheorems, SequenceTheorems, TLAPS

--------------------------------------------------------------------------------
(* Onboarding, authentication and the retries of the streams. *)

\* The pod whose streams are followed is one of finitely many.
LEMMA PodFacts == self \in Pods /\ IsFiniteSet(Pods) /\ Cardinality(Pods) \in Nat
BY SessionsAssumption, OnboardingAssumption, FS_CardinalityType

\* The numbers of the inequality.
LEMMA RegisterTypes ==
    ASSUME OnboardingIInv
    PROVE  /\ IsFiniteSet(MayRegister) /\ Cardinality(MayRegister) \in Nat
           /\ issued \in Nat /\ mishaps \in Nat /\ secret \in Nat /\ revision \in Nat
           /\ issued + Cardinality(MayRegister) <= Cardinality(Pods) + mishaps
<1>1. MayRegister \subseteq Pods
  BY DEF MayRegister
<1>2. IsFiniteSet(MayRegister) /\ Cardinality(MayRegister) \in Nat
  BY <1>1, PodFacts, FS_Subset, FS_CardinalityType
<1> QED
  BY <1>2 DEF OnboardingIInv

\* A step after which no further pod may register keeps the account, also when
\* something failed.
LEMMA NoneJoins ==
    ASSUME OnboardingIInv, issued' = issued, mishaps' \in Nat, mishaps' >= mishaps,
           MayRegister' \subseteq MayRegister
    PROVE  issued' + Cardinality(MayRegister)' <= Cardinality(Pods) + mishaps'
<1>1. Cardinality(MayRegister') \in Nat /\ Cardinality(MayRegister') <= Cardinality(MayRegister)
  BY RegisterTypes, FS_Subset, FS_CardinalityType
<1> QED
  BY <1>1, RegisterTypes, PodFacts

\* A failed step after which one further pod may register keeps it, too.
LEMMA OneJoins ==
    ASSUME OnboardingIInv, NEW p \in Pods, mishaps' = mishaps + 1,
           issued' = issued, MayRegister' \subseteq MayRegister \cup {p}
    PROVE  issued' + Cardinality(MayRegister)' <= Cardinality(Pods) + mishaps'
<1>1. IsFiniteSet(MayRegister \cup {p})
      /\ Cardinality(MayRegister \cup {p}) <= Cardinality(MayRegister) + 1
      /\ Cardinality(MayRegister \cup {p}) \in Nat
  <2>1. IsFiniteSet(MayRegister \cup {p})
        /\ \/ Cardinality(MayRegister \cup {p}) = Cardinality(MayRegister)
           \/ Cardinality(MayRegister \cup {p}) = Cardinality(MayRegister) + 1
    BY RegisterTypes, FS_AddElement
  <2>2. Cardinality(MayRegister) \in Nat
    BY RegisterTypes
  <2> QED BY <2>1, <2>2
<1>2. Cardinality(MayRegister') \in Nat
      /\ Cardinality(MayRegister') <= Cardinality(MayRegister \cup {p})
  BY <1>1, FS_Subset, FS_CardinalityType
<1> QED
  BY <1>1, <1>2, RegisterTypes, PodFacts

\* A registration uses up the pod's own, or is owed to the answer that was lost.
LEMMA OneRegisters ==
    ASSUME OnboardingIInv, issued' = issued + 1,
           \/ /\ mishaps' = mishaps
              /\ \E p \in MayRegister : MayRegister' \subseteq MayRegister \ {p}
           \/ mishaps' = mishaps + 1 /\ MayRegister' \subseteq MayRegister
    PROVE  issued' + Cardinality(MayRegister)' <= Cardinality(Pods) + mishaps'
<1>1. CASE mishaps' = mishaps + 1 /\ MayRegister' \subseteq MayRegister
  <2>1. Cardinality(MayRegister') \in Nat /\ Cardinality(MayRegister') <= Cardinality(MayRegister)
    BY <1>1, RegisterTypes, FS_Subset, FS_CardinalityType
  <2> QED BY <1>1, <2>1, RegisterTypes, PodFacts
<1>2. ASSUME mishaps' = mishaps, NEW p \in MayRegister,
             MayRegister' \subseteq MayRegister \ {p}
      PROVE  issued' + Cardinality(MayRegister)' <= Cardinality(Pods) + mishaps'
  <2>1. IsFiniteSet(MayRegister \ {p})
        /\ Cardinality(MayRegister \ {p}) = Cardinality(MayRegister) - 1
        /\ Cardinality(MayRegister \ {p}) \in Nat
    BY RegisterTypes, FS_RemoveElement, FS_CardinalityType
  <2>2. Cardinality(MayRegister') \in Nat
        /\ Cardinality(MayRegister') <= Cardinality(MayRegister \ {p})
    BY <1>2, <2>1, FS_Subset, FS_CardinalityType
  <2> QED BY <1>2, <2>1, <2>2, RegisterTypes, PodFacts
<1> QED
  BY <1>1, <1>2

--------------------------------------------------------------------------------
\* Each step of a pod keeps the invariant.
LEMMA AttemptKeeps ==
    ASSUME OnboardingIInv, NEW p \in Pods, Attempt(p) PROVE OnboardingIInv'
<1>1. MayRegister' \subseteq MayRegister
  BY DEF OnboardingIInv, Attempt, Goes, MayRegister
<1>2. issued' + Cardinality(MayRegister)' <= Cardinality(Pods) + mishaps'
  BY <1>1, NoneJoins, RegisterTypes DEF Attempt
<1> QED
  BY <1>2 DEF OnboardingIInv, Attempt, Goes, Steps

\* The pod reads the secret, and will register only if it is empty.
LEMMA GetClusterCredentialsKeeps ==
    ASSUME OnboardingIInv, NEW p \in Pods, GetClusterCredentials(p) PROVE OnboardingIInv'
<1>1. MayRegister' \subseteq MayRegister
  BY DEF OnboardingIInv, GetClusterCredentials, Goes, MayRegister
<1>2. issued' + Cardinality(MayRegister)' <= Cardinality(Pods) + mishaps'
  BY <1>1, NoneJoins, RegisterTypes DEF GetClusterCredentials
<1> QED
  BY <1>2 DEF OnboardingIInv, GetClusterCredentials, Goes, Steps

\* A registration: the pod spends what it may register.
LEMMA OnboardClusterKeeps ==
    ASSUME OnboardingIInv, NEW p \in Pods, OnboardCluster(p) PROVE OnboardingIInv'
<1>1. p \in MayRegister /\ MayRegister' \subseteq MayRegister \ {p}
  BY DEF OnboardingIInv, OnboardCluster, Goes, MayRegister
<1>2. issued' + Cardinality(MayRegister)' <= Cardinality(Pods) + mishaps'
  BY <1>1, OneRegisters DEF OnboardCluster
<1> QED
  BY <1>2 DEF OnboardingIInv, OnboardCluster, Goes, Steps, NoCreds

\* The secret is read again for its revision.
LEMMA FetchSecretKeeps ==
    ASSUME OnboardingIInv, NEW p \in Pods, FetchSecret(p) PROVE OnboardingIInv'
<1>1. MayRegister' \subseteq MayRegister
  BY DEF OnboardingIInv, FetchSecret, Goes, MayRegister
<1>2. issued' + Cardinality(MayRegister)' <= Cardinality(Pods) + mishaps'
  BY <1>1, NoneJoins, RegisterTypes DEF FetchSecret
<1> QED
  BY <1>2 DEF OnboardingIInv, FetchSecret, Goes, Steps

\* The credentials are stored: no pod that reads the secret now will register.
LEMMA UpdateSecretKeeps ==
    ASSUME OnboardingIInv, NEW p \in Pods, UpdateSecret(p) PROVE OnboardingIInv'
<1>1. secret' # NoCreds
  BY DEF OnboardingIInv, UpdateSecret, Goes
<1>2. MayRegister' \subseteq MayRegister
  BY <1>1 DEF OnboardingIInv, UpdateSecret, Goes, MayRegister
<1>3. issued' + Cardinality(MayRegister)' <= Cardinality(Pods) + mishaps'
  BY <1>2, NoneJoins, RegisterTypes DEF UpdateSecret
<1> QED
  BY <1>1, <1>3 DEF OnboardingIInv, UpdateSecret, Goes, Steps

\* An update can only conflict with one that has stored credentials.
LEMMA UpdateConflictsKeeps ==
    ASSUME OnboardingIInv, NEW p \in Pods, UpdateConflicts(p) PROVE OnboardingIInv'
<1>1. secret # NoCreds
  BY DEF OnboardingIInv, UpdateConflicts
<1>2. MayRegister' \subseteq MayRegister
  BY <1>1 DEF OnboardingIInv, UpdateConflicts, Abandon, MayRegister
<1>3. issued' + Cardinality(MayRegister)' <= Cardinality(Pods) + mishaps'
  BY <1>2, NoneJoins, RegisterTypes DEF UpdateConflicts
<1> QED
  BY <1>1, <1>3 DEF OnboardingIInv, UpdateConflicts, Abandon, Steps, NoCreds

\* The pod connects with what the secret holds.
LEMMA SetUpOAuthConnectionKeeps ==
    ASSUME OnboardingIInv, NEW p \in Pods, SetUpOAuthConnection(p) PROVE OnboardingIInv'
<1>1. MayRegister' \subseteq MayRegister
  BY DEF OnboardingIInv, SetUpOAuthConnection, Goes, MayRegister
<1>2. issued' + Cardinality(MayRegister)' <= Cardinality(Pods) + mishaps'
  BY <1>1, NoneJoins, RegisterTypes DEF SetUpOAuthConnection
<1> QED
  BY <1>2 DEF OnboardingIInv, SetUpOAuthConnection, Goes, Steps

\* The connection ends; the secret stays.
LEMMA DisconnectKeeps ==
    ASSUME OnboardingIInv, NEW p \in Pods, Disconnect(p) PROVE OnboardingIInv'
<1>1. MayRegister' \subseteq MayRegister
  BY DEF OnboardingIInv, Disconnect, Abandon, MayRegister
<1>2. issued' + Cardinality(MayRegister)' <= Cardinality(Pods) + mishaps'
  BY <1>1, NoneJoins, RegisterTypes DEF Disconnect
<1> QED
  BY <1>2 DEF OnboardingIInv, Disconnect, Abandon, Steps, NoCreds

\* A refused call or a crash: the pod starts over, without a registration it had.
LEMMA MishapKeeps ==
    ASSUME OnboardingIInv, NEW p \in Pods, CallRefused(p) \/ Crash(p)
    PROVE  OnboardingIInv'
<1>1. /\ mishaps < MaxMishaps /\ mishaps' = mishaps + 1 /\ issued' = issued
      /\ Abandon(p) /\ UNCHANGED <<secret, revision>>
  BY DEF CallRefused, Crash, Mishap
<1>2. MayRegister' \subseteq MayRegister \cup {p}
  BY <1>1 DEF OnboardingIInv, Abandon, MayRegister
<1>3. issued' + Cardinality(MayRegister)' <= Cardinality(Pods) + mishaps'
  BY <1>1, <1>2, OneJoins
<1>4. mishaps' \in 0..MaxMishaps
  BY <1>1, OnboardingAssumption DEF OnboardingIInv
<1> QED
  BY <1>1, <1>3, <1>4 DEF OnboardingIInv, Abandon, Steps, NoCreds

\* The answer to a registration is lost: a mishap, and a registration too many.
LEMMA OnboardingLostKeeps ==
    ASSUME OnboardingIInv, NEW p \in Pods, OnboardingLost(p) PROVE OnboardingIInv'
<1>1. /\ mishaps < MaxMishaps /\ mishaps' = mishaps + 1 /\ issued' = issued + 1
      /\ Abandon(p) /\ UNCHANGED <<secret, revision>> /\ step[p] = "onboard"
  BY DEF OnboardingLost, Mishap
<1>2. MayRegister' \subseteq MayRegister
  BY <1>1 DEF OnboardingIInv, Abandon, MayRegister
<1>3. issued' + Cardinality(MayRegister)' <= Cardinality(Pods) + mishaps'
  BY <1>1, <1>2, OneRegisters
<1>4. mishaps' \in 0..MaxMishaps
  BY <1>1, OnboardingAssumption DEF OnboardingIInv
<1> QED
  BY <1>1, <1>3, <1>4 DEF OnboardingIInv, Abandon, Steps, NoCreds

\* What a step of the manager does to the authentication: nothing.
LEMMA OnboardingUntouched ==
    ASSUME OnboardingIInv, UNCHANGED onboardingVars PROVE OnboardingIInv'
<1>1. UNCHANGED <<step, held, secret, revision, read, issued, mishaps>>
  BY DEF onboardingVars
<1> QED
  BY <1>1 DEF OnboardingIInv, MayRegister

\* A step of the authentication, or of the whole operator.
LEMMA OnboardingStep ==
    ASSUME OnboardingIInv, [SessionsNext]_sessionVars PROVE OnboardingIInv'
<1>1. ASSUME NEW p \in Pods, AuthStep(p) PROVE OnboardingIInv'
  BY <1>1, AttemptKeeps, GetClusterCredentialsKeeps, OnboardClusterKeeps, FetchSecretKeeps,
     UpdateSecretKeeps, UpdateConflictsKeeps DEF AuthStep
<1>2. ASSUME NEW p \in Pods, AuthFault(p) PROVE OnboardingIInv'
  BY <1>2, OnboardingLostKeeps, MishapKeeps DEF AuthFault
<1>3. CASE Authenticate
  BY <1>1, <1>3, PodFacts DEF Authenticate
<1>4. CASE AuthenticationFails
  BY <1>2, <1>4, PodFacts DEF AuthenticationFails
<1>5. CASE Connect
  BY <1>5, PodFacts, SetUpOAuthConnectionKeeps DEF Connect
<1>6. CASE Close
  BY <1>6, PodFacts, DisconnectKeeps DEF Close
<1>7. CASE Restart
  BY <1>7, PodFacts, MishapKeeps DEF Restart
<1>8. CASE UNCHANGED onboardingVars
  BY <1>8, OnboardingUntouched
<1>9. UNCHANGED sessionVars => UNCHANGED onboardingVars
  BY DEF sessionVars
<1> QED
  BY <1>3, <1>4, <1>5, <1>6, <1>7, <1>8, <1>9 DEF SessionsNext

\* The invariant of authentication holds when the pods start.
LEMMA OnboardingStarts == ASSUME SessionsInit PROVE OnboardingIInv
<1>1. Cardinality({}) = 0 /\ MaxMishaps \in Nat /\ MaxMishaps > 0 /\ Cardinality(Pods) \in Nat
  BY PodFacts, FS_EmptySet, OnboardingAssumption, SessionsAssumption
<1>2. CASE OnboardingInit({}, 0)
  <2>1. /\ step = [p \in Pods |-> "idle"] /\ secret = 0 /\ issued = 0 /\ revision = 0
        /\ held = [p \in Pods |-> 0] /\ read = [p \in Pods |-> 0] /\ mishaps = 0
    BY <1>2 DEF OnboardingInit, NoCreds
  <2>2. MayRegister = Pods
    BY <2>1 DEF MayRegister, NoCreds
  <2>3. issued + Cardinality(MayRegister) <= Cardinality(Pods) + mishaps
    BY <1>1, <2>1, <2>2
  <2> QED BY <1>1, <2>1, <2>3 DEF OnboardingIInv, Steps, NoCreds
<1>3. CASE OnboardingInit(Pods \ {self}, MaxMishaps - 1)
  <2>1. Pods \ {self} # {}
    BY SessionsAssumption
  <2>2. /\ step = [p \in Pods |-> IF p \in Pods \ {self} THEN "connected" ELSE "idle"]
        /\ secret = 1 /\ issued = 1 /\ revision = 1
        /\ held = [p \in Pods |-> IF p \in Pods \ {self} THEN 1 ELSE 0]
        /\ read = [p \in Pods |-> 0] /\ mishaps = MaxMishaps - 1
    BY <1>3, <2>1 DEF OnboardingInit, NoCreds
  <2>3. MayRegister = {}
    BY <2>2 DEF MayRegister, NoCreds
  <2>4. Cardinality(Pods) # 0
    BY PodFacts, FS_EmptySet
  <2>5. mishaps \in 0..MaxMishaps
    BY <1>1, <2>2
  <2>6. issued + Cardinality(MayRegister) <= Cardinality(Pods) + mishaps
    BY <1>1, <2>2, <2>3, <2>4, <2>5
  <2> QED BY <2>2, <2>5, <2>6 DEF OnboardingIInv, Steps, NoCreds
<1> QED
  BY <1>2, <1>3 DEF SessionsInit

\* The invariant holds in every reachable state.
LEMMA OnboardingInvHolds == SessionsSpec => []OnboardingIInv
BY OnboardingStarts, OnboardingStep, PTL DEF SessionsSpec

\* However the pods of a rollover interleave, whatever calls fail and whenever a
\* process crashes: a pod that is connected has credentials in the secret to come
\* back with (GetClusterCredentials, writeClusterCredentialsIntoK8sSecret).
THEOREM AlwaysStoredBeforeUse == SessionsSpec => []StoredBeforeUse
<1>1. OnboardingIInv => StoredBeforeUse
  BY DEF OnboardingIInv, StoredBeforeUse
<1> QED
  BY <1>1, OnboardingInvHolds, PTL

\* Of any number of pods: the registrations at CloudSecure never exceed one for each
\* pod and one for each call that failed, answer that was lost or crash
\* (NewAuthenticatedConnection and its retries).
THEOREM RegistrationsAlwaysAccounted == SessionsSpec => []RegistrationsAccounted
<1>1. OnboardingIInv => RegistrationsAccounted
  <2> SUFFICES ASSUME OnboardingIInv PROVE issued <= Cardinality(Pods) + mishaps
    BY DEF RegistrationsAccounted
  <2> QED BY RegisterTypes, PodFacts
<1> QED
  BY <1>1, OnboardingInvHolds, PTL

--------------------------------------------------------------------------------
\* The parameters of the two loops.
LEMMA BackoffFacts ==
    /\ StreamInitialBackoff \in Nat /\ StreamMaxBackoff \in Nat
    /\ StreamInitialBackoff <= StreamMaxBackoff
    /\ StreamSevereErrorThreshold \in Nat /\ StreamExponentialFactor \in Nat
    /\ ResetInitialBackoff \in Nat /\ ResetMaxBackoff \in Nat
    /\ StreamMaxJitterPct \in 0..100 /\ ResetMaxJitterPct \in 0..100
    /\ MaxConnections \in Nat \ {0} /\ MaxFaults \in Nat
BY ManagerAssumption

\* Jitter takes at most the whole of a delay away.
LEMMA JitterIsNat ==
    ASSUME NEW base \in Nat, NEW pct \in 0..100, NEW d \in JitterTime(base, pct)
    PROVE  d \in Int
<1>1. base * (100 - pct) \in Int
  OBVIOUS
<1>2. (base * (100 - pct)) \div 100 \in Int
  BY <1>1
<1> QED
  BY <1>2 DEF JitterTime

\* A delay between two bounds, in that order, ends between them.
LEMMA ClampBounds ==
    ASSUME NEW lo \in Nat, NEW hi \in Nat, NEW d \in Int
    PROVE  /\ clamp(lo, d, hi) \in Nat
           /\ lo <= hi => clamp(lo, d, hi) \in lo..hi
BY DEF clamp

\* Min of two numbers is a number.
LEMMA LesserOfTwo ==
    ASSUME NEW a \in Nat, NEW b \in Nat PROVE Min({a, b}) \in Nat
<1>1. \E x \in {a, b} : \A y \in {a, b} : x <= y
  OBVIOUS
<1>2. Min({a, b}) \in {a, b}
  BY <1>1 DEF Min
<1> QED
  BY <1>2

\* What the inner loop sleeps, and its state after that.
LEMMA InnerBackoff ==
    ASSUME NEW s \in [consecutiveFailures : 0..StreamSevereErrorThreshold, backoff : Nat],
           ~GivingUp(StreamOpts, s), NEW d \in Sleeps(StreamOpts, s)
    PROVE  /\ d \in StreamInitialBackoff..StreamMaxBackoff
           /\ AddBackoff(StreamOpts, s) \in
                [consecutiveFailures : 0..StreamSevereErrorThreshold, backoff : Nat]
<1>1. /\ StreamOpts.InitialBackoff = StreamInitialBackoff
      /\ StreamOpts.MaxBackoff = StreamMaxBackoff
      /\ StreamOpts.MaxJitterPct = StreamMaxJitterPct
      /\ StreamOpts.SevereErrorThreshold = StreamSevereErrorThreshold
      /\ StreamOpts.ExponentialFactor = StreamExponentialFactor
  BY DEF StreamOpts, Options
<1>2. PICK e \in JitterTime(s.backoff, StreamMaxJitterPct) :
        d = clamp(StreamInitialBackoff, e, StreamMaxBackoff)
  BY <1>1 DEF Sleeps
<1>3. s.backoff \in Nat /\ s.consecutiveFailures \in 0..StreamSevereErrorThreshold
  OBVIOUS
<1>4. e \in Int
  BY <1>2, <1>3, BackoffFacts, JitterIsNat
<1>5. d \in StreamInitialBackoff..StreamMaxBackoff
  BY <1>2, <1>4, BackoffFacts, ClampBounds
<1>6. Min({s.backoff * StreamExponentialFactor, StreamMaxBackoff}) \in Nat
  <2>1. s.backoff * StreamExponentialFactor \in Nat
    BY <1>3, BackoffFacts
  <2> QED BY <2>1, BackoffFacts, LesserOfTwo
<1>7. s.consecutiveFailures + 1 \in 0..StreamSevereErrorThreshold
  BY <1>1, <1>3, BackoffFacts DEF GivingUp
<1> QED
  BY <1>1, <1>5, <1>6, <1>7 DEF AddBackoff

\* The same of the outer loop, whose maximum lies below its initial delay.
LEMMA OuterBackoff ==
    ASSUME NEW o, o.backoff \in Nat, NEW d \in Sleeps(ResetOpts, o)
    PROVE  d \in Nat /\ AddBackoff(ResetOpts, o).backoff \in Nat
<1>1. /\ ResetOpts.InitialBackoff = ResetInitialBackoff
      /\ ResetOpts.MaxBackoff = ResetMaxBackoff
      /\ ResetOpts.MaxJitterPct = ResetMaxJitterPct
      /\ ResetOpts.ExponentialFactor = 1
  BY DEF ResetOpts
<1>2. PICK e \in JitterTime(o.backoff, ResetMaxJitterPct) :
        d = clamp(ResetInitialBackoff, e, ResetMaxBackoff)
  BY <1>1 DEF Sleeps
<1>3. e \in Int
  BY <1>2, BackoffFacts, JitterIsNat
<1>4. d \in Nat
  BY <1>2, <1>3, BackoffFacts, ClampBounds
<1>5. Min({o.backoff * 1, ResetMaxBackoff}) \in Nat
  <2>1. o.backoff * 1 \in Nat
    OBVIOUS
  <2> QED BY <2>1, BackoffFacts, LesserOfTwo
<1> QED
  BY <1>1, <1>4, <1>5 DEF AddBackoff

\* A goroutine that is replaced by one in good order leaves all of them so.
GoodGoroutine(g) ==
    g \in Goroutines
    /\ (g.at = "sleep" => g.sleep \in StreamInitialBackoff..StreamMaxBackoff)

\* A step that changes one goroutine for a good one keeps the manager's invariant.
LEMMA SetKeeps ==
    ASSUME ManagerIInv, NEW c \in Connections, NEW f \in Streams,
           NEW g, GoodGoroutine(g), Set(c, f, g), faults' \in 0..MaxFaults,
           UNCHANGED <<current, waiting, cancelled>>
    PROVE  ManagerIInv'
<1>1. /\ managed' = [managed EXCEPT ![c][f] = g]
      /\ managed \in [Connections -> [Streams -> Goroutines]]
      /\ g \in Goroutines
  BY DEF Set, ManagerIInv, GoodGoroutine
<1>2. managed' \in [Connections -> [Streams -> Goroutines]]
  BY <1>1
<1>3. \A d \in Connections, h \in Streams :
        managed'[d][h] = IF d = c /\ h = f THEN g ELSE managed[d][h]
  BY <1>1
<1>4. StreamSleepBounded'
  BY <1>3 DEF ManagerIInv, StreamSleepBounded, GoodGoroutine
<1> QED
  BY <1>2, <1>4 DEF ManagerIInv

\* The state of a goroutine, part by part.
LEMMA GoroutineParts ==
    ASSUME ManagerIInv, NEW c \in Connections, NEW f \in Streams
    PROVE  /\ managed[c][f] \in Goroutines
           /\ managed[c][f].inner \in
                [consecutiveFailures : 0..StreamSevereErrorThreshold, backoff : Nat]
           /\ managed[c][f].outer \in Nat /\ managed[c][f].sleep \in Nat
<1>1. managed[c][f] \in Goroutines
  BY DEF ManagerIInv
<1> QED
  BY <1>1 DEF Goroutines

\* Both retry loops start from their initial state.
LEMMA FreshParts ==
    /\ FreshInner \in [consecutiveFailures : 0..StreamSevereErrorThreshold, backoff : Nat]
    /\ FreshOuter \in Nat
BY BackoffFacts DEF FreshInner, FreshOuter, resetBackoff, StreamOpts, Options

\* The action failed: the inner loop sleeps, or gives up to the outer one.
LEMMA RunFailsKeeps ==
    ASSUME ManagerIInv, NEW c \in Connections, NEW f \in Streams, RunFails(c, f)
    PROVE  ManagerIInv'
<1> DEFINE g == managed[c][f]
<1>1. /\ g.inner \in [consecutiveFailures : 0..StreamSevereErrorThreshold, backoff : Nat]
      /\ g.outer \in Nat
  BY GoroutineParts
<1>2. faults' \in 0..MaxFaults /\ UNCHANGED <<current, waiting, cancelled>>
  BY BackoffFacts DEF RunFails, Fault, ManagerIInv
<1>3. CASE BackOff(c, f)
  <2>1. PICK longSuccess \in BOOLEAN :
          LET s == InnerAfter(g, longSuccess) IN
          /\ ~GivingUp(StreamOpts, s)
          /\ \E d \in Sleeps(StreamOpts, s) :
                Set(c, f, Goroutine("sleep", AddBackoff(StreamOpts, s), g.outer, d))
    BY <1>3 DEF BackOff
  <2> DEFINE s == InnerAfter(g, longSuccess)
  <2>2. s \in [consecutiveFailures : 0..StreamSevereErrorThreshold, backoff : Nat]
    BY <1>1, FreshParts DEF InnerAfter
  <2> HIDE DEF s
  <2>3. PICK d \in Sleeps(StreamOpts, s) :
          Set(c, f, Goroutine("sleep", AddBackoff(StreamOpts, s), g.outer, d))
    BY <2>1 DEF s
  <2>4. ~GivingUp(StreamOpts, s)
    BY <2>1 DEF s
  <2>5. /\ d \in StreamInitialBackoff..StreamMaxBackoff
        /\ AddBackoff(StreamOpts, s) \in
              [consecutiveFailures : 0..StreamSevereErrorThreshold, backoff : Nat]
    BY <2>2, <2>3, <2>4, InnerBackoff
  <2>6. GoodGoroutine(Goroutine("sleep", AddBackoff(StreamOpts, s), g.outer, d))
    BY <1>1, <2>5, BackoffFacts DEF GoodGoroutine, Goroutine, Goroutines
  <2> QED BY <1>2, <2>3, <2>6, SetKeeps
<1>4. CASE GiveUp(c, f)
  <2>1. PICK longSuccess \in BOOLEAN, longAuth \in BOOLEAN :
          LET s == InnerAfter(g, longSuccess)
              o == [consecutiveFailures |-> 0,
                    backoff |-> IF longAuth THEN ResetInitialBackoff ELSE g.outer]
          IN
          /\ GivingUp(StreamOpts, s)
          /\ \E d \in Sleeps(ResetOpts, o) :
                Set(c, f, Goroutine("reset", FreshInner,
                                    AddBackoff(ResetOpts, o).backoff, d))
    BY <1>4 DEF GiveUp
  <2> DEFINE o == [consecutiveFailures |-> 0,
                   backoff |-> IF longAuth THEN ResetInitialBackoff ELSE g.outer]
  <2>2. o.backoff \in Nat
    BY <1>1, BackoffFacts
  <2> HIDE DEF o
  <2>3. PICK d \in Sleeps(ResetOpts, o) :
          Set(c, f, Goroutine("reset", FreshInner, AddBackoff(ResetOpts, o).backoff, d))
    BY <2>1 DEF o
  <2>4. d \in Nat /\ AddBackoff(ResetOpts, o).backoff \in Nat
    BY <2>2, <2>3, OuterBackoff
  <2>5. GoodGoroutine(Goroutine("reset", FreshInner, AddBackoff(ResetOpts, o).backoff, d))
    BY <2>4, FreshParts DEF GoodGoroutine, Goroutine, Goroutines
  <2> QED BY <1>2, <2>3, <2>5, SetKeeps
<1> QED
  BY <1>3, <1>4 DEF RunFails

\* The server closed the stream: a success, tried again.
LEMMA RunReturnsNilKeeps ==
    ASSUME ManagerIInv, NEW c \in Connections, NEW f \in Streams, RunReturnsNil(c, f)
    PROVE  ManagerIInv'
<1>1. faults' \in 0..MaxFaults /\ UNCHANGED <<current, waiting, cancelled>>
  BY BackoffFacts DEF RunReturnsNil, Fault, ManagerIInv
<1>2. GoodGoroutine(Goroutine("sleep", FreshInner, managed[c][f].outer, StreamInitialBackoff))
  BY GoroutineParts, FreshParts, BackoffFacts DEF GoodGoroutine, Goroutine, Goroutines
<1> QED
  BY <1>1, <1>2, SetKeeps DEF RunReturnsNil

\* The action asked to stop the retries.
LEMMA RunStopsKeeps ==
    ASSUME ManagerIInv, NEW c \in Connections, NEW f \in Streams, RunStops(c, f)
    PROVE  ManagerIInv'
<1>1. faults' \in 0..MaxFaults /\ UNCHANGED <<current, waiting, cancelled>>
  BY BackoffFacts DEF RunStops, Fault, ManagerIInv
<1>2. GoodGoroutine(Goroutine("done", FreshInner, FreshOuter, 0))
  BY FreshParts DEF GoodGoroutine, Goroutine, Goroutines
<1> QED
  BY <1>1, <1>2, SetKeeps DEF RunStops

\* A sleep ends, or is cut short by the context.
LEMMA WakeKeeps ==
    ASSUME ManagerIInv, NEW c \in Connections, NEW f \in Streams, Wake(c, f)
    PROVE  ManagerIInv'
<1> DEFINE g == [managed[c][f] EXCEPT !.at = IF cancelled[c] THEN "done" ELSE "run",
                                      !.sleep = 0]
<1>1. faults' \in 0..MaxFaults /\ UNCHANGED <<current, waiting, cancelled>>
  BY DEF Wake, ManagerIInv
<1>2. GoodGoroutine(g)
  <2>1. managed[c][f] \in Goroutines
    BY GoroutineParts
  <2>2. g \in Goroutines /\ g.at # "sleep"
    BY <2>1 DEF Goroutines
  <2> QED BY <2>2 DEF GoodGoroutine
<1>3. Set(c, f, g)
  BY DEF Wake
<1> HIDE DEF g
<1> QED
  BY <1>1, <1>2, <1>3, SetKeeps

\* Every step keeps the invariant of the manager.
LEMMA ManagerStep ==
    ASSUME ManagerIInv, [SessionsNext]_sessionVars PROVE ManagerIInv'
<1>1. CASE UNCHANGED managerVars
  <2>1. UNCHANGED <<current, waiting, cancelled, managed, faults>>
    BY <1>1 DEF managerVars
  <2> QED BY <2>1 DEF ManagerIInv, StreamSleepBounded
<1>2. ASSUME NEW c \in Connections, NEW f \in Streams, ManageStream(c, f)
      PROVE  ManagerIInv'
  BY <1>2, RunFailsKeeps, RunReturnsNilKeeps, RunStopsKeeps, WakeKeeps DEF ManageStream
<1>3. CASE OpenConnection
  <2>1. Started \in Goroutines /\ Started.at = "run"
    BY FreshParts DEF Started, Goroutine, Goroutines
  <2>2. /\ current + 1 \in Connections /\ current' = current + 1
        /\ managed' = [managed EXCEPT ![current + 1] = [f \in Streams |-> Started]]
        /\ waiting' = FALSE /\ UNCHANGED <<cancelled, faults>>
    BY <1>3, BackoffFacts DEF OpenConnection, ManagerIInv, Connections
  <2>3. managed' \in [Connections -> [Streams -> Goroutines]]
    BY <2>1, <2>2 DEF ManagerIInv
  <2>4. \A c \in Connections, f \in Streams :
          managed'[c][f] = IF c = current + 1 THEN Started ELSE managed[c][f]
    BY <2>2 DEF ManagerIInv
  <2>5. StreamSleepBounded'
    BY <2>1, <2>4 DEF StreamSleepBounded, ManagerIInv
  <2>6. current' \in 0..MaxConnections
    BY <2>2, BackoffFacts DEF Connections
  <2> QED BY <2>2, <2>3, <2>5, <2>6 DEF ManagerIInv
<1>4. CASE CloseConnection
  BY <1>4 DEF CloseConnection, ManagerIInv, StreamSleepBounded
<1>5. ASSUME /\ waiting' = TRUE
             /\ cancelled' = [c \in Connections |-> FALSE]
             /\ managed' = [c \in Connections |-> [f \in Streams |-> Unstarted]]
             /\ UNCHANGED <<current, faults>>
      PROVE  ManagerIInv'
  <2>1. Unstarted \in Goroutines /\ Unstarted.at = "none"
    BY FreshParts DEF Unstarted, Goroutine, Goroutines
  <2>2. StreamSleepBounded'
    BY <1>5, <2>1 DEF StreamSleepBounded
  <2> QED BY <1>5, <2>1, <2>2 DEF ManagerIInv
<1>6. CASE Authenticate \/ AuthenticationFails
  BY <1>1, <1>6 DEF Authenticate, AuthenticationFails
<1>7. CASE Connect
  BY <1>1, <1>3, <1>7 DEF Connect
<1>8. CASE Close
  BY <1>4, <1>8 DEF Close
<1>9. CASE Restart
  BY <1>1, <1>5, <1>9 DEF Restart
<1>10. UNCHANGED sessionVars => UNCHANGED managerVars
  BY DEF sessionVars
<1> QED
  BY <1>1, <1>2, <1>6, <1>7, <1>8, <1>9, <1>10 DEF SessionsNext

\* The manager's invariant holds when the operator starts.
LEMMA ManagerStarts == ASSUME SessionsInit PROVE ManagerIInv
<1>1. Unstarted \in Goroutines /\ Unstarted.at = "none"
  BY FreshParts DEF Unstarted, Goroutine, Goroutines
<1>2. PICK past \in 0..MaxFaults : ManagerInit(past)
  <2>1. 0 \in 0..MaxFaults /\ MaxFaults - 1 \in 0..MaxFaults
    BY BackoffFacts, SessionsAssumption
  <2> QED BY <2>1 DEF SessionsInit
<1>3. current \in 0..MaxConnections
  BY <1>2, BackoffFacts DEF ManagerInit
<1>4. StreamSleepBounded
  BY <1>1, <1>2 DEF ManagerInit, StreamSleepBounded
<1> QED
  BY <1>1, <1>2, <1>3, <1>4 DEF ManagerInit, ManagerIInv

\* For every choice of the backoff's parameters whose maximum is not below the initial
\* delay, and any number of streams, connections and failures: every sleep between two
\* attempts of a stream lies between them (exponentialBackoff, JitterTime, clamp).
THEOREM StreamSleepAlwaysBounded == SessionsSpec => []StreamSleepBounded
<1>1. ManagerIInv => StreamSleepBounded
  BY DEF ManagerIInv
<1> QED
  BY <1>1, ManagerStarts, ManagerStep, PTL DEF SessionsSpec

--------------------------------------------------------------------------------
(* The entries of the log stream. *)

\* The entries on either side of the stream, and the numbers that are added up.
LEMMA EntryTypes ==
    ASSUME LogIInv
    PROVE  /\ sent \in Seq(Entries) /\ buffer \in Seq(Entries)
           /\ Len(sent) \in Nat /\ Len(buffer) \in Nat
           /\ Len(buffer) <= logMaxBufferSize /\ logMaxBufferSize \in Nat \ {0}
           /\ lostLogEntriesCount \in Nat /\ reported \in Nat
           /\ written \in Nat /\ written <= MaxEntries /\ MaxEntries \in Nat
           /\ written = Len(sent) + Len(buffer) + lostLogEntriesCount + reported
           /\ lostLogEntriesCount > 0 => Len(buffer) = logMaxBufferSize
<1>1. sent \in Seq(Entries) /\ buffer \in Seq(Entries)
      /\ Len(sent) \in Nat /\ Len(buffer) \in Nat
  BY DEF LogIInv, BooksBalance, LogTypeOK
<1>2. /\ Len(buffer) <= logMaxBufferSize
      /\ lostLogEntriesCount \in 0..MaxEntries /\ reported \in 0..MaxEntries
      /\ written \in 0..MaxEntries
  BY DEF LogIInv, BooksBalance, LogTypeOK
<1>3. logMaxBufferSize \in Nat \ {0} /\ MaxEntries \in Nat \ {0}
  BY LogAssumption
<1>4. /\ written = Len(sent) + Len(buffer) + lostLogEntriesCount + reported
      /\ lostLogEntriesCount > 0 => Len(buffer) = logMaxBufferSize
  BY DEF LogIInv, BooksBalance, EntriesAccounted, LossMeansFull
<1> QED
  BY <1>1, <1>2, <1>3, <1>4

\* Sums that stay the same when their parts move.
LEMMA Sums ==
    \A s, b, l, r, s2, b2, l2, r2, w \in Nat :
        w = s + b + l + r /\ s2 + b2 = s + b /\ r2 + l2 = r + l =>
            /\ w = s2 + b2 + l2 + r2
            /\ w + 1 = s2 + (b2 + 1) + l2 + r2
            /\ w + 1 = s2 + b2 + (l2 + 1) + r2
            /\ w + 1 = (s2 + 1) + b2 + l2 + r2
OBVIOUS

\* What a flush that gets n of its messages out does: entries only move from the
\* front of the buffer to the end of what was sent, and if the report of lost
\* entries does not get out, nothing moves.
LEMMA FlushedMoves ==
    ASSUME LogIInv, NEW n \in 0..Pending
    PROVE  /\ Flushed(n).sent \in Seq(Entries) /\ Flushed(n).kept \in Seq(Entries)
           /\ Len(Flushed(n).sent) \in Nat /\ Len(Flushed(n).kept) \in Nat
           /\ Len(Flushed(n).sent) + Len(Flushed(n).kept) = Len(buffer)
           /\ sent \o Flushed(n).sent \in Seq(Entries)
           /\ Len(sent \o Flushed(n).sent) = Len(sent) + Len(Flushed(n).sent)
           /\ (sent \o Flushed(n).sent) \o Flushed(n).kept = sent \o buffer
           /\ \/ Flushed(n).lost = 0
              \/ Flushed(n).lost = lostLogEntriesCount /\ Flushed(n).kept = buffer
           /\ n = Pending => Flushed(n).lost = 0 /\ Flushed(n).kept = <<>>
<1> DEFINE m == IF n < Report THEN 0 ELSE n - Report
<1>1. /\ sent \in Seq(Entries) /\ buffer \in Seq(Entries)
      /\ Len(sent) \in Nat /\ Len(buffer) \in Nat /\ lostLogEntriesCount \in Nat
  BY EntryTypes
<1>2. Report \in {0, 1} /\ (Report = 0 <=> lostLogEntriesCount = 0)
      /\ Pending = Report + Len(buffer)
  BY <1>1 DEF Report, Pending
<1>3. m \in 0..Len(buffer) /\ (n = Pending => m = Len(buffer) /\ ~(n < Report))
  BY <1>1, <1>2
<1>4. /\ Flushed(n).sent = SubSeq(buffer, 1, m)
      /\ Flushed(n).kept = SubSeq(buffer, m + 1, Len(buffer))
      /\ Flushed(n).lost = IF n < Report THEN lostLogEntriesCount ELSE 0
  BY DEF Flushed
<1>5. n < Report => m = 0
  OBVIOUS
<1> DEFINE a == SubSeq(buffer, 1, m)
           b == SubSeq(buffer, m + 1, Len(buffer))
<1> HIDE DEF m
<1>6. a \in Seq(Entries) /\ Len(a) = m /\ b \in Seq(Entries) /\ Len(b) = Len(buffer) - m
  BY <1>1, <1>3, SubSeqProperties
<1>7. a \o b = buffer
  <2>1. 1 \in 1..(Len(buffer) + 1) /\ m \in (1 - 1)..Len(buffer)
        /\ Len(buffer) \in m..Len(buffer)
    BY <1>1, <1>3
  <2>2. a \o b = SubSeq(buffer, 1, Len(buffer))
    BY <1>1, <2>1, ConcatAdjacentSubSeq
  <2> QED BY <1>1, <2>2, SubSeqFull
<1>8. m = 0 => b = buffer
  BY <1>1, SubSeqFull
<1>9. m = Len(buffer) => b = <<>>
  BY <1>1, <1>3, SubSeqEmpty
<1>10. Flushed(n).sent = a /\ Flushed(n).kept = b
  BY <1>4
<1> HIDE DEF a, b
<1>11. (sent \o a) \o b = sent \o buffer
  <2>1. (sent \o a) \o b = sent \o (a \o b)
    <3>1. sent \in Seq(Entries) /\ a \in Seq(Entries) /\ b \in Seq(Entries)
      BY <1>1, <1>6
    <3> QED BY <3>1, ConcatAssociative
  <2> QED BY <1>7, <2>1
<1>12. sent \o a \in Seq(Entries) /\ Len(sent \o a) = Len(sent) + Len(a)
  BY <1>1, <1>6, ConcatProperties
<1>13. Len(a) \in Nat /\ Len(b) \in Nat /\ Len(a) + Len(b) = Len(buffer)
  BY <1>1, <1>3, <1>6
<1>14. \/ Flushed(n).lost = 0
       \/ Flushed(n).lost = lostLogEntriesCount /\ b = buffer
  BY <1>4, <1>5, <1>8
<1>15. n = Pending => Flushed(n).lost = 0 /\ b = <<>>
  BY <1>3, <1>4, <1>9
<1> QED
  BY <1>6, <1>10, <1>11, <1>12, <1>13, <1>14, <1>15

\* A sequence of entries in order stays so when the next entry is appended.
LEMMA AppendInOrder ==
    ASSUME NEW s \in Seq(Entries), NEW w \in Nat, w + 1 \in Entries,
           \A i, j \in 1..Len(s) : i < j => s[i] < s[j],
           \A i \in 1..Len(s) : s[i] <= w
    PROVE  LET t == Append(s, w + 1)
           IN  /\ \A i, j \in 1..Len(t) : i < j => t[i] < t[j]
               /\ \A i \in 1..Len(t) : t[i] <= w + 1
<1> DEFINE t == Append(s, w + 1)
<1>1. /\ Len(s) \in Nat /\ Len(t) = Len(s) + 1
      /\ \A i \in 1..Len(s) : t[i] = s[i]
      /\ t[Len(s) + 1] = w + 1
  BY AppendProperties
<1>2. \A i \in 1..Len(s) : s[i] \in Nat
  <2>1. \A i \in 1..Len(s) : s[i] \in Entries
    BY ElementOfSeq
  <2>2. Entries \subseteq Nat
    BY LogAssumption DEF Entries
  <2> QED BY <2>1, <2>2
<1> HIDE DEF t
<1>3. ASSUME NEW i \in 1..Len(t), NEW j \in 1..Len(t), i < j
      PROVE  t[i] < t[j]
  <2>1. CASE j = Len(s) + 1
    BY <1>1, <1>2, <1>3, <2>1
  <2>2. CASE j \in 1..Len(s)
    BY <1>1, <1>3, <2>2
  <2> QED BY <1>1, <2>1, <2>2
<1>4. ASSUME NEW i \in 1..Len(t) PROVE t[i] <= w + 1
  BY <1>1, <1>2
<1> QED
  BY <1>3, <1>4 DEF t

\* What a step may do to the entries sent and waiting, taken as one sequence:
\* nothing, or append the entry just written, unless the connection flapped.
LEMMA OrderKept ==
    ASSUME LogIInv,
           \/ flapped'
           \/ /\ flapped' = flapped
              /\ written' \in Nat /\ written' >= written
              /\ sent' \o buffer' = sent \o buffer
           \/ /\ flapped' = flapped
              /\ written < MaxEntries /\ written' = written + 1
              /\ sent' \o buffer' = Append(sent \o buffer, written + 1)
    PROVE  SentInOrder' /\ NoneFromTheFuture'
<1>1. /\ sent \o buffer \in Seq(Entries) /\ written \in Nat /\ MaxEntries \in Nat
  BY EntryTypes, ConcatProperties
<1>2. \A i \in 1..Len(sent \o buffer) : (sent \o buffer)[i] \in Nat
  <2>1. \A i \in 1..Len(sent \o buffer) : (sent \o buffer)[i] \in Entries
    BY <1>1, ElementOfSeq
  <2>2. Entries \subseteq Nat
    BY LogAssumption DEF Entries
  <2> QED BY <2>1, <2>2
<1>3. CASE flapped'
  BY <1>3 DEF SentInOrder, NoneFromTheFuture
<1>4. CASE /\ flapped' = flapped
           /\ written' \in Nat /\ written' >= written
           /\ sent' \o buffer' = sent \o buffer
  <2>1. SentInOrder'
    BY <1>4 DEF SentInOrder, LogIInv
  <2>2. NoneFromTheFuture'
    BY <1>1, <1>2, <1>4 DEF NoneFromTheFuture, LogIInv
  <2> QED BY <2>1, <2>2
<1>5. CASE /\ flapped' = flapped
           /\ written < MaxEntries /\ written' = written + 1
           /\ sent' \o buffer' = Append(sent \o buffer, written + 1)
  <2>1. SUFFICES ASSUME ~flapped PROVE SentInOrder' /\ NoneFromTheFuture'
    BY <1>5 DEF SentInOrder, NoneFromTheFuture
  <2>2. written + 1 \in Entries
    BY <1>1, <1>5 DEF Entries
  <2>3. /\ \A i, j \in 1..Len(sent \o buffer) :
              i < j => (sent \o buffer)[i] < (sent \o buffer)[j]
        /\ \A i \in 1..Len(sent \o buffer) : (sent \o buffer)[i] <= written
    BY <2>1 DEF LogIInv, SentInOrder, NoneFromTheFuture
  <2>4. LET t == Append(sent \o buffer, written + 1)
        IN  /\ \A i, j \in 1..Len(t) : i < j => t[i] < t[j]
            /\ \A i \in 1..Len(t) : t[i] <= written + 1
    <3> DEFINE s == sent \o buffer
    <3> HIDE DEF s
    <3> QED BY <1>1, <2>2, <2>3, AppendInOrder DEF s
  <2> QED BY <1>5, <2>4 DEF SentInOrder, NoneFromTheFuture
<1> QED
  BY <1>3, <1>4, <1>5

--------------------------------------------------------------------------------
\* The invariant in two halves: the entries, and the sessions and the goroutine.
EntriesOK ==
    /\ sent \in Seq(Entries) /\ buffer \in Seq(Entries)
    /\ Len(buffer) <= logMaxBufferSize
    /\ written \in 0..MaxEntries
    /\ lostLogEntriesCount \in Nat /\ reported \in Nat
    /\ EntriesAccounted /\ LossMeansFull
    /\ SentInOrder /\ NoneFromTheFuture

SessionsOK ==
    /\ client \in Opened \cup {0}
    /\ ready \in BOOLEAN /\ flapped \in BOOLEAN
    /\ broken \subseteq Opened
    /\ phase \in [LogSessions -> {"none", "opened", "up", "closed"}]
    /\ done \in Opened \cup {0} /\ listening \in Opened \cup {0}
    /\ runner \in {"on", "gone"}

\* The invariant in two halves: the entries, and the sessions.
LEMMA TwoHalves == LogIInv <=> EntriesOK /\ SessionsOK
<1>1. LogIInv => EntriesOK /\ SessionsOK
  <2> SUFFICES ASSUME LogIInv PROVE EntriesOK /\ SessionsOK
    OBVIOUS
  <2>1. SessionsOK
    BY DEF LogIInv, BooksBalance, LogTypeOK, SessionsOK
  <2>2. EntriesOK
    BY EntryTypes DEF LogIInv, BooksBalance, LogTypeOK, EntriesOK
  <2> QED BY <2>1, <2>2
<1>2. ASSUME EntriesOK, SessionsOK PROVE LogIInv
  <2>1. Len(sent) \in Nat /\ Len(buffer) \in Nat /\ written \in Nat /\ written <= MaxEntries
        /\ lostLogEntriesCount \in Nat /\ reported \in Nat /\ MaxEntries \in Nat
    BY <1>2, LogAssumption DEF EntriesOK
  <2>2. written = Len(sent) + Len(buffer) + lostLogEntriesCount + reported
    BY <1>2 DEF EntriesOK, EntriesAccounted
  <2>3. lostLogEntriesCount <= MaxEntries /\ reported <= MaxEntries
    BY <2>1, <2>2
  <2>4. {lostLogEntriesCount, reported} \subseteq 0..MaxEntries
    BY <2>1, <2>3
  <2>5. LogTypeOK
    BY <1>2, <2>4 DEF EntriesOK, SessionsOK, LogTypeOK
  <2> QED BY <1>2, <2>5 DEF LogIInv, BooksBalance, EntriesOK
<1> QED
  BY <1>1, <1>2

\* flush keeps the entries, and only the stream it used can be broken afterwards.
LEMMA FlushKeeps ==
    ASSUME LogIInv, NEW c, NEW isReady, flush(c, isReady),
           written' = written, flapped' = flapped
    PROVE  EntriesOK' /\ (c = 0 => broken' = broken) /\ broken' \subseteq broken \cup {c}
<1>1. CASE UNCHANGED entryVars
  <2>1. EntriesOK
    BY TwoHalves
  <2> QED
    BY <1>1, <2>1 DEF entryVars, EntriesOK, EntriesAccounted, LossMeansFull,
                      SentInOrder, NoneFromTheFuture
<1>2. ASSUME c # 0, NEW n \in 0..Pending,
             /\ lostLogEntriesCount' = Flushed(n).lost
             /\ reported' = reported + (lostLogEntriesCount - Flushed(n).lost)
             /\ sent' = sent \o Flushed(n).sent
             /\ buffer' = Flushed(n).kept
             /\ broken' = AfterSends(c, n = Pending)
      PROVE  EntriesOK' /\ (c = 0 => broken' = broken) /\ broken' \subseteq broken \cup {c}
  <2>1. /\ Flushed(n).sent \in Seq(Entries) /\ Flushed(n).kept \in Seq(Entries)
        /\ Len(Flushed(n).sent) \in Nat /\ Len(Flushed(n).kept) \in Nat
        /\ Len(Flushed(n).sent) + Len(Flushed(n).kept) = Len(buffer)
        /\ sent \o Flushed(n).sent \in Seq(Entries)
        /\ Len(sent \o Flushed(n).sent) = Len(sent) + Len(Flushed(n).sent)
        /\ (sent \o Flushed(n).sent) \o Flushed(n).kept = sent \o buffer
        /\ \/ Flushed(n).lost = 0
           \/ Flushed(n).lost = lostLogEntriesCount /\ Flushed(n).kept = buffer
    BY FlushedMoves
  <2>2. sent' \in Seq(Entries) /\ buffer' \in Seq(Entries) /\ sent' \o buffer' = sent \o buffer
    BY <1>2, <2>1
  <2>3. /\ Len(sent') \in Nat /\ Len(buffer') \in Nat
        /\ Len(sent') + Len(buffer') = Len(sent) + Len(buffer)
        /\ Len(buffer') <= Len(buffer)
    <3>1. PICK x \in Nat, y \in Nat :
              Len(sent') = Len(sent) + x /\ Len(buffer') = y /\ x + y = Len(buffer)
      BY <1>2, <2>1
    <3>2. Len(sent) \in Nat /\ Len(buffer) \in Nat
      BY EntryTypes
    <3> QED BY <3>1, <3>2
  <2>4. lostLogEntriesCount' \in Nat /\ reported' \in Nat
        /\ reported' + lostLogEntriesCount' = reported + lostLogEntriesCount
    <3>1. lostLogEntriesCount' = 0 \/ lostLogEntriesCount' = lostLogEntriesCount
      BY <1>2, <2>1
    <3>2. reported' = reported + (lostLogEntriesCount - lostLogEntriesCount')
      BY <1>2
    <3>3. lostLogEntriesCount \in Nat /\ reported \in Nat
      BY EntryTypes
    <3> QED BY <3>1, <3>2, <3>3
  <2>5. EntriesAccounted'
    <3>1. written = Len(sent) + Len(buffer) + lostLogEntriesCount + reported
          /\ lostLogEntriesCount \in Nat /\ reported \in Nat /\ written \in Nat
      BY EntryTypes
    <3>2. Len(sent) \in Nat /\ Len(buffer) \in Nat
      BY EntryTypes
    <3>3. written = Len(sent') + Len(buffer') + lostLogEntriesCount' + reported'
      <4>1. \A s2, b2, l2, r2 \in Nat :
                s2 + b2 = Len(sent) + Len(buffer)
                /\ r2 + l2 = reported + lostLogEntriesCount =>
                    written = s2 + b2 + l2 + r2
        <5> DEFINE Moved(s, b, l, r, w) ==
                      \A s2, b2, l2, r2 \in Nat :
                          s2 + b2 = s + b /\ r2 + l2 = r + l => w = s2 + b2 + l2 + r2
        <5>1. \A s, b, l, r, w \in Nat : w = s + b + l + r => Moved(s, b, l, r, w)
          OBVIOUS
        <5> HIDE DEF Moved
        <5>2. Moved(Len(sent), Len(buffer), lostLogEntriesCount, reported, written)
          BY <3>1, <3>2, <5>1
        <5> QED BY <5>2 DEF Moved
      <4> QED BY <2>3, <2>4, <4>1, Zenon
    <3> QED BY <3>3 DEF EntriesAccounted
  <2>6. LossMeansFull' /\ Len(buffer') <= logMaxBufferSize
    <3>1. \/ lostLogEntriesCount' = 0
          \/ lostLogEntriesCount' = lostLogEntriesCount /\ buffer' = buffer
      BY <1>2, <2>1
    <3>2. Len(buffer) <= logMaxBufferSize /\ logMaxBufferSize \in Nat
          /\ (lostLogEntriesCount > 0 => Len(buffer) = logMaxBufferSize)
      BY EntryTypes
    <3>3. Len(buffer) \in Nat /\ Len(buffer') \in Nat /\ Len(buffer') <= Len(buffer)
      BY <2>3, EntryTypes
    <3>4. Len(buffer') <= logMaxBufferSize
      BY <3>2, <3>3
    <3> QED BY <3>1, <3>2, <3>4 DEF LossMeansFull
  <2>7. SentInOrder' /\ NoneFromTheFuture'
    <3>1. written' \in Nat /\ written' >= written
      BY EntryTypes
    <3> QED BY <2>2, <3>1, OrderKept
  <2>8. written' \in 0..MaxEntries
    BY TwoHalves DEF EntriesOK
  <2>9. (c = 0 => broken' = broken) /\ broken' \subseteq broken \cup {c}
    BY <1>2 DEF AfterSends
  <2> QED
    BY <2>2, <2>4, <2>5, <2>6, <2>7, <2>8, <2>9 DEF EntriesOK
<1>3. Takes(c, Pending) \subseteq 0..Pending
  BY EntryTypes DEF Takes, Pending, Report
<1> QED
  BY <1>1, <1>2, <1>3 DEF flush

\* An entry that cannot be sent is buffered or counted as lost: b and l are what the
\* attempt to flush has left.
LEMMA BufferKeeps ==
    ASSUME LogIInv, written < MaxEntries, written' = written + 1,
           flapped' = flapped \/ flapped',
           NEW b \in Seq(Entries), NEW l \in Nat, NEW r \in Nat,
           sent' \in Seq(Entries), sent' \o b = sent \o buffer,
           Len(sent') + Len(b) = Len(sent) + Len(buffer),
           r + l = reported + lostLogEntriesCount, reported' = r,
           Len(b) <= logMaxBufferSize, l > 0 => Len(b) = logMaxBufferSize,
           BufferEntry(written + 1, b, l)
    PROVE  EntriesOK'
<1>1. /\ Len(sent) \in Nat /\ Len(buffer) \in Nat /\ written \in Nat
      /\ lostLogEntriesCount \in Nat /\ reported \in Nat /\ MaxEntries \in Nat
      /\ logMaxBufferSize \in Nat
      /\ written = Len(sent) + Len(buffer) + lostLogEntriesCount + reported
  BY EntryTypes
<1>2. written + 1 \in Entries /\ written' \in 0..MaxEntries
  BY <1>1 DEF Entries
<1>3. Len(b) \in Nat /\ Len(sent') \in Nat
  OBVIOUS
<1>4. /\ written + 1 = Len(sent') + (Len(b) + 1) + l + r
      /\ written + 1 = Len(sent') + Len(b) + (l + 1) + r
  BY <1>1, <1>3, Sums
<1>5. CASE Len(b) < logMaxBufferSize
  <2>1. buffer' = Append(b, written + 1) /\ lostLogEntriesCount' = l /\ l = 0
    BY <1>5, <1>3 DEF BufferEntry
  <2>2. buffer' \in Seq(Entries) /\ Len(buffer') = Len(b) + 1
    BY <1>2, <2>1, AppendProperties
  <2>3. sent' \o buffer' = Append(sent \o buffer, written + 1)
    <3>1. sent' \o Append(b, written + 1) = Append(sent' \o b, written + 1)
      <4> SUFFICES ASSUME NEW u \in Seq(Entries), NEW e \in Entries
                   PROVE  u \o Append(b, e) = Append(u \o b, e)
        BY <1>2
      <4> QED OBVIOUS
    <3> QED BY <2>1, <3>1
  <2>4. SentInOrder' /\ NoneFromTheFuture'
    BY <2>3, OrderKept
  <2>5. EntriesAccounted'
    BY <1>4, <2>1, <2>2 DEF EntriesAccounted
  <2>6. LossMeansFull' /\ Len(buffer') <= logMaxBufferSize
    BY <1>1, <1>3, <1>5, <2>1, <2>2 DEF LossMeansFull
  <2> QED
    BY <1>2, <2>1, <2>2, <2>4, <2>5, <2>6 DEF EntriesOK
<1>6. CASE ~(Len(b) < logMaxBufferSize)
  <2>1. buffer' = b /\ lostLogEntriesCount' = l + 1 /\ Len(b) = logMaxBufferSize
    BY <1>1, <1>3, <1>6 DEF BufferEntry
  <2>2. SentInOrder' /\ NoneFromTheFuture'
    <3>1. written' \in Nat /\ written' >= written
      BY <1>1
    <3>2. sent' \o buffer' = sent \o buffer
      BY <2>1
    <3> QED BY <3>1, <3>2, OrderKept
  <2>3. EntriesAccounted'
    BY <1>4, <2>1 DEF EntriesAccounted
  <2>4. LossMeansFull' /\ Len(buffer') <= logMaxBufferSize
    BY <1>1, <2>1 DEF LossMeansFull
  <2> QED
    BY <1>2, <2>1, <2>2, <2>3, <2>4 DEF EntriesOK
<1> QED
  BY <1>5, <1>6

--------------------------------------------------------------------------------
\* The four ways a write can go keep the entries.
LEMMA WriteBuffersKeeps == ASSUME LogIInv, WriteBuffers PROVE EntriesOK'
<1>1. /\ written < MaxEntries /\ written' = written + 1
      /\ BufferEntry(written + 1, buffer, lostLogEntriesCount)
      /\ reported' = reported /\ sent' = sent /\ flapped' = flapped
  BY DEF WriteBuffers, Written
<1>2. /\ buffer \in Seq(Entries) /\ sent \in Seq(Entries)
      /\ lostLogEntriesCount \in Nat /\ reported \in Nat
      /\ Len(buffer) <= logMaxBufferSize
      /\ lostLogEntriesCount > 0 => Len(buffer) = logMaxBufferSize
  BY EntryTypes
<1> QED
  BY <1>1, <1>2, BufferKeeps

\* write flushes the buffer and sends the new entry.
LEMMA WriteSendsKeeps == ASSUME LogIInv, WriteSends PROVE EntriesOK'
<1> DEFINE n == IF buffer = <<>> THEN 0 ELSE Pending
<1>1. /\ written < MaxEntries /\ written' = written + 1 /\ flapped' = flapped
      /\ sent' = Append(sent \o Flushed(n).sent, written + 1)
      /\ buffer' = Flushed(n).kept
      /\ lostLogEntriesCount' = Flushed(n).lost
      /\ reported' = reported + (lostLogEntriesCount - Flushed(n).lost)
  BY DEF WriteSends, Written
<1>2. n = Pending /\ Pending \in 0..Pending
  <2>1. /\ Len(buffer) \in Nat /\ lostLogEntriesCount \in Nat
        /\ logMaxBufferSize \in Nat \ {0}
        /\ lostLogEntriesCount > 0 => Len(buffer) = logMaxBufferSize
    BY EntryTypes
  <2>2. Report \in {0, 1} /\ (lostLogEntriesCount = 0 => Report = 0)
    BY <2>1 DEF Report
  <2>3. buffer = <<>> => Len(buffer) = 0
    OBVIOUS
  <2>4. buffer = <<>> => Pending = 0
    BY <2>1, <2>2, <2>3 DEF Pending
  <2> QED BY <2>1, <2>2, <2>4 DEF Pending
<1> HIDE DEF n
<1> DEFINE s == sent \o Flushed(Pending).sent
<1>3. /\ s \in Seq(Entries)
      /\ Len(s) = Len(sent) + Len(Flushed(Pending).sent)
      /\ Len(Flushed(Pending).sent) + Len(Flushed(Pending).kept) = Len(buffer)
      /\ Len(Flushed(Pending).sent) \in Nat
      /\ s \o Flushed(Pending).kept = sent \o buffer
      /\ Flushed(Pending).lost = 0 /\ Flushed(Pending).kept = <<>>
  BY <1>2, FlushedMoves
<1>4. /\ sent' = Append(s, written + 1) /\ buffer' = <<>> /\ lostLogEntriesCount' = 0
      /\ reported' = reported + (lostLogEntriesCount - 0)
  BY <1>1, <1>2, <1>3
<1>5. s \o <<>> = sent \o buffer
  BY <1>3
<1>6. Len(s) = Len(sent) + Len(buffer) /\ Len(s) \in Nat
  <2>1. Len(<<>>) = 0
    OBVIOUS
  <2>2. Len(Flushed(Pending).sent) + 0 = Len(buffer)
    BY <1>3, <2>1
  <2> QED BY <1>3, <2>2
<1> HIDE DEF s
<1>7. /\ Len(sent) \in Nat /\ Len(buffer) \in Nat /\ written \in Nat
      /\ lostLogEntriesCount \in Nat /\ reported \in Nat /\ MaxEntries \in Nat
      /\ logMaxBufferSize \in Nat
      /\ written = Len(sent) + Len(buffer) + lostLogEntriesCount + reported
  BY EntryTypes
<1>8. written + 1 \in Entries /\ written' \in 0..MaxEntries
  BY <1>1, <1>7 DEF Entries
<1>9. sent' \in Seq(Entries) /\ Len(sent') = Len(s) + 1
  BY <1>3, <1>4, <1>8, AppendProperties
<1>10. buffer' \in Seq(Entries) /\ Len(buffer') = 0
  BY <1>4
<1>11. lostLogEntriesCount' \in Nat /\ reported' = reported + lostLogEntriesCount
       /\ reported' \in Nat
  BY <1>4, <1>7
<1>12. EntriesAccounted'
  <2>1. \A s0, b0, l0, r0, w0 \in Nat :
            w0 = s0 + b0 + l0 + r0 => w0 + 1 = ((s0 + b0) + 1) + 0 + 0 + (r0 + l0)
    OBVIOUS
  <2>2. written + 1 = ((Len(sent) + Len(buffer)) + 1) + 0 + 0 + (reported + lostLogEntriesCount)
    BY <1>7, <2>1
  <2> QED BY <1>1, <1>4, <1>6, <1>9, <1>10, <1>11, <2>2 DEF EntriesAccounted
<1>13. LossMeansFull' /\ Len(buffer') <= logMaxBufferSize
  BY <1>4, <1>7, <1>10 DEF LossMeansFull
<1>14. SentInOrder' /\ NoneFromTheFuture'
  <2>1. s = sent \o buffer
    BY <1>3, <1>5
  <2>2. sent' \o buffer' = sent'
    BY <1>4, <1>9
  <2>3. sent' \o buffer' = Append(sent \o buffer, written + 1)
    BY <1>4, <2>1, <2>2
  <2> QED BY <1>1, <2>3, OrderKept
<1> QED
  BY <1>8, <1>9, <1>10, <1>11, <1>12, <1>13, <1>14 DEF EntriesOK

\* The stream fails during the flush or the Send, and the entry is buffered.
LEMMA WriteFailsKeeps == ASSUME LogIInv, WriteFails PROVE EntriesOK'
<1>1. written < MaxEntries /\ written' = written + 1 /\ flapped' = flapped
  BY DEF WriteFails, Written
<1>2. Takes(client, Pending) \subseteq 0..Pending
  BY EntryTypes DEF Takes, Pending, Report
<1>3. PICK n \in 0..Pending :
        /\ sent' = sent \o Flushed(n).sent
        /\ reported' = reported + (lostLogEntriesCount - Flushed(n).lost)
        /\ BufferEntry(written + 1, Flushed(n).kept, Flushed(n).lost)
  BY <1>2 DEF WriteFails
<1> DEFINE b == Flushed(n).kept
           l == Flushed(n).lost
           a == Flushed(n).sent
<1>4. /\ a \in Seq(Entries) /\ b \in Seq(Entries)
      /\ Len(a) \in Nat /\ Len(b) \in Nat
      /\ Len(a) + Len(b) = Len(buffer)
      /\ sent \o a \in Seq(Entries)
      /\ Len(sent \o a) = Len(sent) + Len(a)
      /\ (sent \o a) \o b = sent \o buffer
      /\ \/ l = 0
         \/ l = lostLogEntriesCount /\ b = buffer
  BY FlushedMoves
<1>5. /\ sent' = sent \o a /\ reported' = reported + (lostLogEntriesCount - l)
      /\ BufferEntry(written + 1, b, l)
  BY <1>3
<1> HIDE DEF a, b, l
<1>6. /\ Len(sent) \in Nat /\ Len(buffer) \in Nat
      /\ lostLogEntriesCount \in Nat /\ reported \in Nat
      /\ Len(buffer) <= logMaxBufferSize /\ logMaxBufferSize \in Nat
      /\ lostLogEntriesCount > 0 => Len(buffer) = logMaxBufferSize
  BY EntryTypes
<1>7. sent' \in Seq(Entries) /\ sent' \o b = sent \o buffer
      /\ Len(sent') = Len(sent) + Len(a)
  BY <1>4, <1>5
<1>8. Len(sent') + Len(b) = Len(sent) + Len(buffer) /\ Len(b) <= logMaxBufferSize
  <2>1. Len(a) \in Nat /\ Len(b) \in Nat /\ Len(a) + Len(b) = Len(buffer)
    BY <1>4
  <2> QED BY <1>6, <1>7, <2>1
<1>9. l \in Nat /\ reported' \in Nat /\ reported' + l = reported + lostLogEntriesCount
  <2>1. l = 0 \/ l = lostLogEntriesCount
    BY <1>4
  <2>2. lostLogEntriesCount \in Nat /\ reported \in Nat
    BY <1>6
  <2>3. reported' = reported + (lostLogEntriesCount - l)
    BY <1>5
  <2> QED BY <2>1, <2>2, <2>3
<1>10. l > 0 => Len(b) = logMaxBufferSize
  <2>1. ~(0 > 0)
    OBVIOUS
  <2>2. l > 0 => l = lostLogEntriesCount /\ b = buffer
    BY <1>4, <2>1
  <2> QED BY <1>6, <2>2
<1> QED
  BY <1>1, <1>4, <1>5, <1>7, <1>8, <1>9, <1>10, BufferKeeps

\* The connection changes state between the two looks of one write.
LEMMA WriteFlapsKeeps == ASSUME LogIInv, WriteFlaps PROVE EntriesOK'
<1>1. /\ written < MaxEntries /\ written' = written + 1 /\ flapped' = TRUE
      /\ reported' = reported
  BY DEF WriteFlaps, Written
<1>2. /\ buffer \in Seq(Entries) /\ sent \in Seq(Entries)
      /\ lostLogEntriesCount \in Nat /\ reported \in Nat
      /\ Len(buffer) <= logMaxBufferSize
      /\ lostLogEntriesCount > 0 => Len(buffer) = logMaxBufferSize
  BY EntryTypes
<1>3. CASE /\ BufferEntry(written + 1, buffer, lostLogEntriesCount)
           /\ sent' = sent
  BY <1>1, <1>2, <1>3, BufferKeeps
<1>4. CASE /\ sent' = Append(sent, written + 1)
           /\ buffer' = buffer /\ lostLogEntriesCount' = lostLogEntriesCount
  <2>1. /\ Len(sent) \in Nat /\ Len(buffer) \in Nat /\ written \in Nat /\ MaxEntries \in Nat
        /\ lostLogEntriesCount \in Nat /\ reported \in Nat
        /\ written = Len(sent) + Len(buffer) + lostLogEntriesCount + reported
    BY EntryTypes
  <2>2. written + 1 \in Entries /\ written' \in 0..MaxEntries
    BY <1>1, <2>1 DEF Entries
  <2>3. sent' \in Seq(Entries) /\ Len(sent') = Len(sent) + 1
    BY <1>2, <1>4, <2>2, AppendProperties
  <2>4. EntriesAccounted'
    <3>1. written + 1 = (Len(sent) + 1) + Len(buffer) + lostLogEntriesCount + reported
      BY <2>1
    <3> QED BY <1>1, <1>4, <2>3, <3>1 DEF EntriesAccounted
  <2>5. LossMeansFull' /\ SentInOrder' /\ NoneFromTheFuture'
    BY <1>1, <1>2, <1>4 DEF LossMeansFull, SentInOrder, NoneFromTheFuture
  <2> QED
    BY <1>1, <1>2, <1>4, <2>2, <2>3, <2>4, <2>5 DEF EntriesOK
<1> QED
  BY <1>3, <1>4 DEF WriteFlaps

\* A step that leaves the entries alone.
LEMMA EntriesUntouched ==
    ASSUME LogIInv, written' = written, buffer' = buffer, reported' = reported,
           lostLogEntriesCount' = lostLogEntriesCount, sent' = sent, flapped' = flapped
    PROVE  EntriesOK'
<1>1. EntriesOK
  BY TwoHalves
<1> QED
  BY <1>1 DEF EntriesOK, EntriesAccounted, LossMeansFull, SentInOrder, NoneFromTheFuture

\* The sessions after a step that opens none.
LEMMA SessionsUntouched ==
    ASSUME LogIInv, phase' = phase, client' = client, done' = done,
           ready' \in BOOLEAN, flapped' \in BOOLEAN,
           broken' \subseteq broken \cup (IF client = 0 THEN {} ELSE {client}),
           listening' \in {listening, done}, runner' \in {"on", "gone"}
    PROVE  SessionsOK'
<1>1. SessionsOK
  BY TwoHalves
<1>2. Opened' = Opened
  BY DEF Opened
<1> QED
  BY <1>1, <1>2 DEF SessionsOK

\* The sessions after a step of session s in the manager: no session is forgotten.
LEMMA SessionStep ==
    ASSUME LogIInv, NEW s \in LogSessions, NEW p \in {"opened", "up", "closed"},
           phase' = [phase EXCEPT ![s] = p],
           client' \in {client, s}, done' \in {done, s}, broken' \subseteq broken \cup {s},
           listening' = listening, runner' = runner,
           ready' \in BOOLEAN, flapped' \in BOOLEAN
    PROVE  SessionsOK'
<1>1. SessionsOK
  BY TwoHalves
<1>2. Opened \cup {s} \subseteq Opened'
  BY <1>1 DEF Opened, SessionsOK
<1>3. phase' \in [LogSessions -> {"none", "opened", "up", "closed"}]
  BY <1>1 DEF SessionsOK
<1> QED
  BY <1>1, <1>2, <1>3 DEF SessionsOK

--------------------------------------------------------------------------------
\* Every step keeps the invariant.
LEMMA LogStep == ASSUME LogIInv, [LogNext]_logVars PROVE LogIInv'
<1>0. /\ SessionsOK /\ ready \in BOOLEAN /\ flapped \in BOOLEAN
      /\ runner \in {"on", "gone"}
  BY TwoHalves DEF SessionsOK
<1> SUFFICES EntriesOK' /\ SessionsOK'
  <2>1. (EntriesOK /\ SessionsOK => LogIInv)'
    BY TwoHalves, PTL
  <2> QED BY <2>1
<1>1. CASE WriteBuffers
  BY <1>0, <1>1, WriteBuffersKeeps, SessionsUntouched DEF WriteBuffers, runnerVars
<1>2. CASE WriteSends
  BY <1>0, <1>2, WriteSendsKeeps, SessionsUntouched DEF WriteSends, runnerVars
<1>3. CASE WriteFails
  BY <1>0, <1>3, WriteFailsKeeps, SessionsUntouched DEF WriteFails, runnerVars
<1>4. CASE WriteFlaps
  BY <1>0, <1>4, WriteFlapsKeeps, SessionsUntouched DEF WriteFlaps, runnerVars
<1>5. ASSUME NEW s \in LogSessions, NewStreamClient(s) PROVE EntriesOK' /\ SessionsOK'
  <2>1. EntriesOK'
    BY <1>5, EntriesUntouched DEF NewStreamClient, entryVars
  <2>2. SessionsOK'
    BY <1>0, <1>5, SessionStep DEF NewStreamClient, entryVars, runnerVars
  <2> QED BY <2>1, <2>2
<1>6. ASSUME NEW s \in LogSessions, UpdateClient(s) PROVE EntriesOK' /\ SessionsOK'
  <2>1. PICK isReady \in BOOLEAN : ready' = isReady /\ flush(s, isReady)
    BY <1>6 DEF UpdateClient
  <2>2. EntriesOK' /\ broken' \subseteq broken \cup {s}
    BY <1>6, <2>1, FlushKeeps DEF UpdateClient
  <2>3. SessionsOK'
    BY <1>0, <1>6, <2>1, <2>2, SessionStep DEF UpdateClient, runnerVars
  <2> QED BY <2>2, <2>3
<1>7. ASSUME NEW s \in LogSessions, CloseClient(s) PROVE EntriesOK' /\ SessionsOK'
  <2>1. EntriesOK'
    BY <1>7, EntriesUntouched DEF CloseClient
  <2>2. SessionsOK'
    BY <1>0, <1>7, SessionStep DEF CloseClient, runnerVars
  <2> QED BY <2>1, <2>2
<1>8. CASE ConnectionChanges
  <2>1. EntriesOK'
    BY <1>8, EntriesUntouched DEF ConnectionChanges, entryVars
  <2>2. SessionsOK'
    BY <1>0, <1>8, SessionsUntouched DEF ConnectionChanges, entryVars, runnerVars
  <2> QED BY <2>1, <2>2
<1>9. CASE FlushTick
  <2>1. EntriesOK' /\ (client = 0 => broken' = broken) /\ broken' \subseteq broken \cup {client}
    BY <1>9, FlushKeeps DEF FlushTick
  <2>2. SessionsOK'
    BY <1>0, <1>9, <2>1, SessionsUntouched DEF FlushTick, Relisten
  <2> QED BY <2>1, <2>2
<1>10. CASE KeepaliveTick
  <2>1. EntriesOK'
    BY <1>10, EntriesUntouched DEF KeepaliveTick
  <2>2. SessionsOK'
    BY <1>0, <1>10, SessionsUntouched DEF KeepaliveTick, Relisten
  <2> QED BY <2>1, <2>2
<1>11. CASE RunnerStops
  <2>1. EntriesOK'
    BY <1>11, EntriesUntouched DEF RunnerStops, entryVars
  <2>2. SessionsOK'
    BY <1>0, <1>11, SessionsUntouched DEF RunnerStops, entryVars
  <2> QED BY <2>1, <2>2
<1>12. CASE UNCHANGED logVars
  <2>1. /\ UNCHANGED <<written, buffer, lostLogEntriesCount, reported, sent, broken>>
        /\ UNCHANGED <<client, ready, flapped, phase, done, listening, runner>>
    BY <1>12 DEF logVars, entryVars, runnerVars
  <2>2. EntriesOK'
    BY <2>1, EntriesUntouched
  <2>3. SessionsOK'
    BY <1>0, <2>1, SessionsUntouched
  <2> QED BY <2>2, <2>3
<1> QED
  BY <1>1, <1>2, <1>3, <1>4, <1>5, <1>6, <1>7, <1>8, <1>9, <1>10, <1>11, <1>12
     DEF LogNext, write

\* The invariant holds in every reachable state.
LEMMA LogInvHolds == LogSpec => []LogIInv
<1>1. LogInit => LogIInv
  <2> SUFFICES ASSUME LogInit PROVE EntriesOK /\ SessionsOK
    BY TwoHalves
  <2>1. /\ logMaxBufferSize \in Nat /\ MaxEntries \in Nat
    BY LogAssumption
  <2>2. sent = <<>> /\ buffer = <<>> /\ Len(<<>>) = 0 /\ sent \o buffer = <<>>
    BY DEF LogInit
  <2>3. EntriesOK
    BY <2>1, <2>2 DEF LogInit, EntriesOK, EntriesAccounted, LossMeansFull, SentInOrder,
                      NoneFromTheFuture
  <2>4. SessionsOK
    BY DEF LogInit, SessionsOK, Opened
  <2> QED BY <2>3, <2>4
<1> QED
  BY <1>1, LogStep, PTL DEF LogSpec

--------------------------------------------------------------------------------
\* Of every buffer size and every number of entries and streams: each entry given to
\* write was sent, waits in the buffer, is counted as lost or was reported as lost,
\* and none is given up while the buffer has room (write, flush, bufferEntry).
THEOREM BooksAlwaysBalance == LogSpec => []BooksBalance
<1>1. LogIInv => BooksBalance
  BY DEF LogIInv
<1> QED
  BY <1>1, LogInvHolds, PTL

\* While no connection changes state in the middle of a write, what CloudSecure gets,
\* over all log streams and all flushes that break off, is in the order written and
\* free of duplicates.
THEOREM AlwaysSentInOrder == LogSpec => []SentInOrder
<1>1. LogIInv => SentInOrder
  BY DEF LogIInv
<1> QED
  BY <1>1, LogInvHolds, PTL

================================================================================
