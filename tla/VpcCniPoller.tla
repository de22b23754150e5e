------------------------------ MODULE VpcCniPoller ------------------------------
(***************************************************************************)
(* The AWS VPC CNI collector: it polls the log of every running aws-node   *)
(* pod through the API server, from the time of the last poll on.  The     *)
(* poll window of a pod advances when its log was fetched, before the      *)
(* lines are parsed and cached.                                            *)
(*                                                                         *)
(* A line is its position in the order in which lines are written, with    *)
(* the pod and the time of writing.  Parsing a flow line is the subject of *)
(* FlowRecords; here a line is a flow line or too long for the scanner.    *)
(***************************************************************************)
EXTENDS Integers, Sequences, FiniteSets

CONSTANTS
    Pods,         \* names of aws-node pods; a name is never used again
    MaxLines,     \* bound on the lines written
    Oversized,    \* the lines that exceed the scanner's buffer
    MaxTime,      \* bound on the clock
    Second,       \* clock ticks in a second
    PollInterval, \* EffectivePollInterval, in ticks
    MaxFlowAge,   \* MaxFlowAge, in ticks
    MaxCollectors \* bound on the collectors, one per stream

ASSUME PollerAssumption ==
    /\ MaxLines \in Nat /\ MaxTime \in Nat /\ MaxFlowAge \in Nat
    /\ Oversized \subseteq 1..MaxLines
    /\ Second \in Nat \ {0} /\ PollInterval \in Nat \ {0}
    /\ MaxCollectors \in Nat
    /\ "none" \notin Pods

VARIABLES
    now,        \* the clock
    podPhase,   \* podPhase[p]: "pending", "running" or "gone"
    log,        \* log[p]: the lines of the container that runs now
    line,       \* line[l]: pod and time of a line
    lines,      \* number of lines written
    collectors, \* number of collectors so far
    lastPoll,   \* lastPollTime, Never if there is no entry
    todo,       \* listed running pods not polled yet in this round
    inRound,    \* a round of polls is under way
    listed,     \* pods in the list of this round
    fetch,      \* the request under way: pod, since, pollStart, the answer
    batch,      \* lines fetched and not yet parsed
    notBefore,  \* of the batch being parsed
    fate,       \* history: fate[l], what became of a fetched line
    readAt,     \* history: pollStart of the first poll that fetched the line
    again,      \* history: lines fetched twice by the same collector
    from,       \* history: from[p], where the pod's first window began (0 if earlier)
    wiped       \* history: lines that went with their container or pod

agentVars  == <<now, podPhase, log, line, lines>>
clientVars == <<collectors, lastPoll, todo, inRound, listed, fetch, batch,
                notBefore>>
seenVars   == <<fate, readAt, again, from, wiped>>
pollerVars == <<now, podPhase, log, line, lines, collectors, lastPoll, todo,
                inRound, listed, fetch, batch, notBefore, fate, readAt, again, from, wiped>>

Lines  == 1..MaxLines
Times  == 0..MaxTime
Never  == -1
Idle   == [pod |-> "none", since |-> 0, start |-> 0, answered |-> FALSE, body |-> {}]

\* Type invariant of the poller.
PollerTypeOK ==
    /\ now \in Times
    /\ podPhase \in [Pods -> {"pending", "running", "gone"}]
    /\ log \in [Pods -> SUBSET Lines]
    /\ lines \in 0..MaxLines
    /\ collectors \in 1..MaxCollectors + 1
    /\ lastPoll \in [Pods -> Times \cup {Never}]
    /\ inRound \in BOOLEAN
    /\ todo \subseteq listed /\ listed \subseteq Pods
    /\ fetch = Idle \/ (fetch.pod \in Pods /\ fetch.start \in Times)
    /\ fetch # Idle => inRound /\ batch = << >>
    /\ todo # {} \/ batch # << >> => inRound
    /\ batch \in Seq(Lines)
    /\ fate \in [Lines -> {"none", "fetched", "cached", "old", "cut"}]

PollerInit ==
    /\ now = 0
    /\ podPhase \in [Pods -> {"pending", "running"}]
    /\ log = [p \in Pods |-> {}]
    /\ line = [l \in Lines |-> [pod |-> "none", time |-> 0]]
    /\ lines = 0
    /\ collectors = 1
    /\ lastPoll = [p \in Pods |-> Never]
    /\ todo = {} /\ listed = {} /\ inRound = FALSE
    /\ fetch = Idle
    /\ batch = << >>
    /\ notBefore = 0
    /\ fate = [l \in Lines |-> "none"]
    /\ readAt = [l \in Lines |-> Never]
    /\ again = {}
    /\ from = [p \in Pods |-> Never]
    /\ wiped = {}

--------------------------------------------------------------------------------
(* The pods, external to the repository. *)

Tick ==
    /\ now < MaxTime
    /\ now' = now + 1
    /\ UNCHANGED <<podPhase, log, line, lines, clientVars, seenVars>>

WriteLine(p) ==
    /\ podPhase[p] = "running" /\ lines < MaxLines
    /\ lines' = lines + 1
    /\ line' = [line EXCEPT ![lines + 1] = [pod |-> p, time |-> now]]
    /\ log' = [log EXCEPT ![p] = @ \cup {lines + 1}]
    /\ UNCHANGED <<now, podPhase, clientVars, seenVars>>

PodRuns(p) ==
    /\ podPhase[p] = "pending"
    /\ podPhase' = [podPhase EXCEPT ![p] = "running"]
    /\ UNCHANGED <<now, log, line, lines, clientVars, seenVars>>

\* The container ends, for good or to be started again; its log goes with it.
PodEnds(p) ==
    /\ podPhase[p] = "running"
    /\ \E next \in {"pending", "gone"} : podPhase' = [podPhase EXCEPT ![p] = next]
    /\ wiped' = wiped \cup log[p]
    /\ log' = [log EXCEPT ![p] = {}]
    /\ UNCHANGED <<now, line, lines, clientVars, fate, readAt, again, from>>

AgentStep == Tick \/ \E p \in Pods : WriteLine(p) \/ PodRuns(p) \/ PodEnds(p)

--------------------------------------------------------------------------------
(* The collector. *)

\* pollAllPods begins.  A failed list ends the round with nothing done.
ListPods ==
    /\ ~inRound
    /\ inRound' = TRUE
    /\ listed' = {p \in Pods : podPhase[p] # "gone"}
    /\ todo' = {p \in Pods : podPhase[p] = "running"}
    /\ UNCHANGED <<agentVars, collectors, lastPoll, fetch, batch, notBefore, seenVars>>

\* metav1.Time is written with whole seconds.
WholeSeconds(t) == t - (t % Second)

\* pollPod up to its request: the window, and the time the poll starts.
PollPod(p) ==
    /\ p \in todo /\ fetch = Idle /\ batch = << >>
    /\ todo' = todo \ {p}
    /\ LET since == IF lastPoll[p] = Never THEN now - PollInterval ELSE lastPoll[p]
       IN fetch' = [pod |-> p, since |-> since, start |-> now,
                    answered |-> FALSE, body |-> {}]
    /\ UNCHANGED <<agentVars, collectors, lastPoll, inRound, listed, batch, notBefore,
                   seenVars>>

\* The kubelet sends what is in the log by now, and all of it arrives.
Answer ==
    /\ fetch # Idle /\ ~fetch.answered /\ podPhase[fetch.pod] = "running"
    /\ fetch' = [fetch EXCEPT !.answered = TRUE,
                    !.body = {l \in log[fetch.pod] :
                                 line[l].time >= WholeSeconds(fetch.since)}]
    /\ UNCHANGED <<agentVars, collectors, lastPoll, todo, inRound, listed, batch, notBefore,
                   seenVars>>

\* Lines come in the order in which they were written.
InOrder(ls) == CHOOSE s \in [1..Cardinality(ls) -> ls] :
                   \A i, j \in 1..Cardinality(ls) : i < j => s[i] < s[j]

Fetched(ls, at) ==
    /\ batch' = InOrder(ls)
    /\ fate' = [l \in Lines |-> IF l \in ls /\ fate[l] = "none" THEN "fetched" ELSE fate[l]]
    /\ readAt' = [l \in Lines |-> IF l \in ls /\ readAt[l] = Never THEN at ELSE readAt[l]]
    /\ again' = again \cup {l \in ls : readAt[l] # Never}

\* Mutant of FetchDone: the window is moved to the end of the request.
FetchDoneLate ==
    /\ fetch.answered
    /\ Fetched(fetch.body, fetch.start)
    /\ lastPoll' = [lastPoll EXCEPT ![fetch.pod] = now]
    /\ from' = IF from[fetch.pod] = Never
               THEN [from EXCEPT ![fetch.pod] = IF fetch.since < 0 THEN 0 ELSE fetch.since]
               ELSE from
    /\ notBefore' = IF batch' = << >> THEN 0 ELSE now - MaxFlowAge
    /\ fetch' = Idle
    /\ UNCHANGED <<agentVars, collectors, todo, inRound, listed, wiped>>

\* getLogsFromPod succeeds: the window moves to the start of this poll, and only
\* then parsing begins.
FetchDone ==
    /\ fetch.answered
    /\ Fetched(fetch.body, fetch.start)
    /\ lastPoll' = [lastPoll EXCEPT ![fetch.pod] = fetch.start]
    /\ from' = IF from[fetch.pod] = Never
               THEN [from EXCEPT ![fetch.pod] = IF fetch.since < 0 THEN 0 ELSE fetch.since]
               ELSE from
    /\ notBefore' = IF batch' = << >> THEN 0 ELSE now - MaxFlowAge
    /\ fetch' = Idle
    /\ UNCHANGED <<agentVars, collectors, todo, inRound, listed, wiped>>

\* The request or the copy of its body fails before the body is complete; the
\* window stays.
FetchFails ==
    /\ fetch # Idle /\ ~fetch.answered
    /\ fetch' = Idle
    /\ UNCHANGED <<agentVars, collectors, lastPoll, todo, inRound, listed, batch, notBefore,
                   seenVars>>

Range1(s) == {s[i] : i \in DOMAIN s}

\* parseLogs, one line: CacheFlowLine caches it or drops it as too old; a line
\* the scanner cannot hold ends the scan, and nobody looks at scanner.Err.
ParseLine ==
    /\ batch # << >>
    /\ LET l == Head(batch) IN
       IF l \in Oversized
       THEN /\ batch' = << >>
            /\ fate' = [k \in Lines |-> IF k \in Range1(batch) /\ fate[k] = "fetched"
                                        THEN "cut" ELSE fate[k]]
       ELSE /\ batch' = Tail(batch)
            /\ fate' = [fate EXCEPT ![l] =
                           IF line[l].time >= notBefore THEN "cached"
                           ELSE IF @ = "cached" THEN @ ELSE "old"]
    /\ notBefore' = IF batch' = << >> THEN 0 ELSE notBefore
    /\ UNCHANGED <<agentVars, collectors, lastPoll, todo, inRound, listed, fetch,
                   readAt, again, from, wiped>>

\* cleanupStalePods, at the end of the round.
CleanupStalePods ==
    /\ inRound /\ todo = {} /\ fetch = Idle /\ batch = << >>
    /\ lastPoll' = [p \in Pods |-> IF p \in listed THEN lastPoll[p] ELSE Never]
    /\ inRound' = FALSE
    /\ UNCHANGED listed
    /\ UNCHANGED <<agentVars, collectors, todo, fetch, batch, notBefore, seenVars>>

\* The stream ends and with it the poll; the next collector knows no pod.
NewVpcCollector ==
    /\ collectors < MaxCollectors
    /\ collectors' = collectors + 1
    /\ lastPoll' = [p \in Pods |-> Never]
    /\ todo' = {} /\ inRound' = FALSE /\ fetch' = Idle /\ batch' = << >>
    /\ notBefore' = 0
    /\ fate' = [l \in Lines |-> IF l \in Range1(batch) /\ fate[l] = "fetched"
                                THEN "cut" ELSE fate[l]]
    /\ from' = [p \in Pods |-> Never]
    /\ readAt' = [l \in Lines |-> Never]
    /\ again' = {}
    /\ UNCHANGED <<agentVars, listed, wiped>>

PollerStep ==
    \/ ListPods
    \/ \E p \in Pods : PollPod(p)
    \/ Answer
    \/ FetchDone
    \/ ParseLine
    \/ CleanupStalePods

PollerNext == AgentStep \/ PollerStep \/ FetchFails \/ NewVpcCollector

(* The ticker fires again and again, requests end, and no pod's request     *)
(* fails for ever.                                                          *)
PollerFairness ==
    /\ WF_pollerVars(ListPods \/ ParseLine \/ CleanupStalePods \/ FetchDone
                       \/ \E p \in Pods : PollPod(p))
    /\ WF_pollerVars(FetchFails \/ Answer)
    /\ \A p \in Pods : SF_pollerVars(fetch.pod = p /\ Answer)

PollerSpec == PollerInit /\ [][PollerNext]_pollerVars
FairPoller == PollerSpec /\ PollerFairness

--------------------------------------------------------------------------------
\* Between the first window of a pod and the last poll nothing is left out: a
\* line was fetched, or its container went before it could be.
NoGap ==
    \A l \in 1..lines :
        LET p == line[l].pod IN
        /\ lastPoll[p] # Never /\ from[p] # Never
        /\ from[p] <= line[l].time /\ line[l].time < lastPoll[p]
        => fate[l] # "none" \/ l \in wiped

\* A collector fetches a line twice only if it was written in or after the
\* second in which the poll that fetched it first began.
AgainOnlyInOverlap ==
    \A l \in again : line[l].time >= WholeSeconds(readAt[l])

\* The windows of a pod's polls meet: what is written is fetched, and fetched again
\* only within the second that the API server's resolution makes unavoidable.
WindowsMeet == NoGap /\ AgainOnlyInOverlap

\* The inductive invariant behind it.  First the types of what it speaks about.
WindowTypeOK ==
    /\ now \in Times /\ lines \in 0..MaxLines
    /\ podPhase \in [Pods -> {"pending", "running", "gone"}]
    /\ log \in [Pods -> SUBSET Lines]
    /\ line \in [Lines -> [pod : Pods \cup {"none"}, time : Times]]
    /\ lastPoll \in [Pods -> Times \cup {Never}]
    /\ from \in [Pods -> Times \cup {Never}]
    /\ readAt \in [Lines -> Times \cup {Never}]
    /\ fate \in [Lines -> {"none", "fetched", "cached", "old", "cut"}]
    /\ todo \subseteq Pods /\ inRound \in BOOLEAN
    /\ fetch = Idle \/ fetch \in [pod : Pods, since : Int, start : Times,
                                   answered : BOOLEAN, body : SUBSET Lines]

\* A written line is in the log of its pod until the container goes, and a log holds
\* only lines of its pod.
LinesAreKept ==
    /\ \A l \in 1..lines : /\ line[l].pod \in Pods /\ line[l].time <= now
                           /\ l \in log[line[l].pod] \/ l \in wiped
    /\ \A p \in Pods : \A l \in log[p] : l \in 1..lines /\ line[l].pod = p

\* A pod is forgotten while it is tracked only if it has gone for good, and is not
\* polled any more.
ForgottenIsGone ==
    /\ inRound => \A p \in Pods \ listed : podPhase[p] = "gone"
    /\ \A p \in Pods :
          /\ lastPoll[p] # Never => from[p] # Never /\ lastPoll[p] <= now
          /\ lastPoll[p] = Never /\ from[p] # Never
                => podPhase[p] = "gone" /\ p \notin todo /\ fetch.pod # p

\* The request under way begins where the last one of its pod began, and its answer
\* holds lines of the pod only, and all that were written before it and are there.
WindowInHand ==
    fetch # Idle =>
        /\ fetch.since <= fetch.start /\ fetch.start <= now
        /\ lastPoll[fetch.pod] # Never => fetch.since = lastPoll[fetch.pod]
        /\ \A l \in fetch.body : /\ l \in 1..lines /\ line[l].pod = fetch.pod
                                 /\ line[l].time >= WholeSeconds(fetch.since)
        /\ fetch.answered =>
              \A l \in 1..lines :
                  /\ line[l].pod = fetch.pod /\ l \notin wiped
                  /\ fetch.since <= line[l].time /\ line[l].time < fetch.start
                  => l \in fetch.body

\* What a collector has read came from a poll no later than the pod's last.
ReadBeforeLastPoll ==
    \A l \in Lines :
        readAt[l] # Never =>
            /\ l \in 1..lines /\ from[line[l].pod] # Never
            /\ lastPoll[line[l].pod] # Never => readAt[l] <= lastPoll[line[l].pod]

PollerIInv ==
    /\ WindowTypeOK /\ LinesAreKept /\ ForgottenIsGone /\ WindowInHand /\ ReadBeforeLastPoll
    /\ again \subseteq {l \in 1..lines : readAt[l] # Never}
    /\ WindowsMeet

\* A line written while its pod is tracked is fetched in the end, unless the
\* container or the collector goes first.
Tracked(l) == l <= lines /\ from[line[l].pod] # Never
Awaited(l) == Tracked(l) /\ fate[l] = "none" /\ line[l].time >= from[line[l].pod]
LinesAreFetched ==
    \A l \in Lines :
        Awaited(l) ~> (fate[l] # "none" \/ l \in wiped \/ ~Tracked(l))
================================================================================
