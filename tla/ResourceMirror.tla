----------------------------- MODULE ResourceMirror -----------------------------
(***************************************************************************)
(* The SendKubernetesResources stream, from the cluster to CloudSecure:    *)
(* resourcesClient.Run lists every kind, sends the objects, marks the      *)
(* snapshot as complete, and then forwards what one watcher per kind hands *)
(* it.  ClusterMirror says what CloudSecure shows of it.  What the same    *)
(* watchers do to the runtime cache is in ResourceStream.                  *)
(*                                                                         *)
(* Sessions follow each other: the next one opens when Run has returned,   *)
(* or when its connection was closed, in which case the old Run may still  *)
(* be in its discovery calls, which have no context.  What an old Run can  *)
(* still do is to call the deadlock detector, so only the phase of a Run   *)
(* is kept per session; everything else belongs to the latest session.     *)
(***************************************************************************)
EXTENDS DeadlockDetector, Sequences

CONSTANTS
    KindOrder,       \* the kinds served, in the order of compareGroupResources
    Objects, KindOf,
    Values,          \* Values[k]: the values objects of kind k may have
    Initial, NoValue, Bare,
    Unreadable, Fetched,
    MaxSessions, MaxWrites,
    WireSize         \* requests the transport takes before Send blocks

Kinds    == {KindOrder[i] : i \in DOMAIN KindOrder}
Sessions == 1..MaxSessions

ASSUME MirrorAssumption ==
    /\ KindOrder \in Seq(Kinds)
    /\ \A i, j \in DOMAIN KindOrder : KindOrder[i] = KindOrder[j] => i = j
    /\ IsFiniteSet(Objects) /\ KindOf \in [Objects -> Kinds]
    /\ Fetched \subseteq Kinds
    /\ \A k \in Fetched : Values[k] \cap Unreadable = {}
    /\ \A o \in Objects : Initial[o] \in Values[KindOf[o]] \cup {NoValue}
    /\ {MaxSessions, MaxWrites, WireSize} \subseteq Nat

VARIABLES
    log,          \* log[k]: the events of kind k in the cluster
    run, ctx,     \* run[s], ctx[s]: the phase and the context of session s
    cur,          \* the latest session, 0 before the first
    todo, items,  \* the kinds to list, the items of the current list to send
    version,      \* version[k]: lastResourceVersion as a position in log[k], or Unlisted
    watcher,      \* watcher[k]: the goroutine of WatchK8sResources
    sending,      \* the mutation Run took from mutationChan
    wire,         \* requests on their way
    ended,        \* the server has ended the stream
    windowFull,   \* so many responses are unread that the server can send no more
    badCommit,    \* the server will refuse one snapshot (BadInitialCommit)
    draft,        \* the server's snapshot in the making
    view, at, shown, snapshots, \* what CloudSecure shows, as in ClusterMirror
    busy,         \* busy[s]: for how long Run(s) has been processing, or Idle
    overlapped    \* overlapped[s]: another Run called the detector meanwhile

clusterVars == <<log>>
clientVars  == <<todo, items, version, watcher, sending>>
streamVars  == <<wire, ended, windowFull, draft>>
serverVars  == <<badCommit, view, at, shown, snapshots>>
healthVars  == <<busy, overlapped>>
resourceVars == <<log, run, ctx, cur, clientVars, streamVars, serverVars, healthVars,
                  processing, startedAge>>

\* The names are those of ClusterMirror; only the cluster's kinds are derived.
Mirror == INSTANCE ClusterMirror
            WITH Kinds <- Kinds, log <- log, view <- view, at <- at, shown <- shown,
                 snapshots <- snapshots

Unlisted == -1
Idle     == -1
Nothing  == [type |-> "nothing"]
NoDraft  == [o \in Objects |-> NoValue]

State(o) == Mirror!At(o, Len(log[KindOf[o]]))

\* So many sessions have been opened and are over.
MirrorInit(opened) ==
    /\ log = [k \in Kinds |-> <<>>]
    /\ run = [s \in Sessions |-> IF s <= opened THEN "over" ELSE "new"]
    /\ ctx = [s \in Sessions |-> "ok"]
    /\ cur = opened
    /\ todo = <<>> /\ items = <<>>
    /\ version = [k \in Kinds |-> Unlisted]
    /\ watcher = [k \in Kinds |-> "none"]
    /\ sending = Nothing
    /\ wire = <<>> /\ ended = FALSE /\ windowFull = FALSE
    /\ badCommit \in BOOLEAN
    /\ draft = NoDraft /\ view = NoDraft
    /\ at = [k \in Kinds |-> 0]
    /\ shown = [k \in Kinds |-> FALSE]
    /\ snapshots = 0
    /\ busy = [s \in Sessions |-> Idle]
    /\ overlapped = [s \in Sessions |-> FALSE]

--------------------------------------------------------------------------------
(* The cluster. *)

Writes == MapThenSumSet(LAMBDA k : Len(log[k]), Kinds)

\* An old Run is still in discovery.  It can only call the detector, which does not
\* look at the cluster, so the model lets the cluster rest until it has returned.
Lingering == \E s \in Sessions : s < cur /\ run[s] # "over"

\* A Deleted event carries the object as it was.  What happens after the last
\* session is of no interest.
Write(o) ==
    LET event(v, deleted) == [obj |-> o, val |-> v, deleted |-> deleted]
        append(e) == log' = [log EXCEPT ![KindOf[o]] = Append(@, e)] IN
    /\ Writes < MaxWrites
    /\ cur = MaxSessions => run[cur] # "over"
    /\ ~Lingering
    /\ \/ \E v \in Values[KindOf[o]] \ {State(o)} : append(event(v, FALSE))
       \/ State(o) # NoValue /\ append(event(State(o), TRUE))
    /\ UNCHANGED <<run, ctx, cur, clientVars, streamVars, serverVars, healthVars>>
    /\ UNCHANGED detectorVars

--------------------------------------------------------------------------------
(* Sessions and the detector. *)

\* The last session is never cut by a fault.
Spare == cur < MaxSessions

FreshClient ==
    /\ todo' = <<>> /\ items' = <<>> /\ sending' = Nothing
    /\ version' = [k \in Kinds |-> Unlisted]
    /\ watcher' = [k \in Kinds |-> "none"]

\* The stream and what is on it are gone; CloudSecure keeps what it shows.
LoseStream ==
    /\ FreshClient
    /\ wire' = <<>> /\ ended' = FALSE /\ windowFull' = FALSE /\ draft' = NoDraft

\* Run(s) calls the detector.
Calls(s, on) ==
    /\ SetProcessingResources(on)
    /\ busy' = [busy EXCEPT ![s] = IF on THEN 0 ELSE Idle]
    /\ overlapped' = [u \in Sessions |->
                        u # s /\ (overlapped[u] \/ busy[u] # Idle)]

OpenStream ==
    /\ Spare
    /\ cur > 0 => run[cur] = "over" \/ (ctx[cur] = "closed" /\ Writes = 0)
    /\ cur' = cur + 1
    /\ run' = [run EXCEPT ![cur + 1] = "discover"]
    /\ UNCHANGED <<log, ctx, clientVars, streamVars, serverVars, healthVars>>
    /\ UNCHANGED detectorVars

\* Run returns, whatever the reason: the deferred call, and the stream's context
\* is cancelled behind it.
Returns(s) ==
    /\ run' = [run EXCEPT ![s] = "over"]
    /\ Calls(s, FALSE)
    /\ IF s = cur THEN LoseStream ELSE UNCHANGED <<clientVars, streamVars>>
    /\ UNCHANGED <<log, ctx, cur, serverVars>>

\* Mutant of Discovered: the detector is not told.
DiscoveredUnmarked(s) ==
    /\ run[s] = "discover"
    /\ run' = [run EXCEPT ![s] = "metadata"]
    /\ busy' = [busy EXCEPT ![s] = 0]
    /\ UNCHANGED <<log, ctx, cur, clientVars, streamVars, serverVars, overlapped>>
    /\ UNCHANGED detectorVars

\* Discovery has no context: it ends in its own time.
Discovered(s) ==
    /\ run[s] = "discover"
    /\ run' = [run EXCEPT ![s] = "metadata"]
    /\ Calls(s, TRUE)
    /\ UNCHANGED <<log, ctx, cur, clientVars, streamVars, serverVars>>

DiscoveryFails(s) ==
    /\ run[s] = "discover"
    /\ s < MaxSessions
    /\ Returns(s)

ContextDone(s) ==
    /\ run[s] \in {"metadata", "list", "forward"}
    /\ ctx[s] # "ok"
    /\ Returns(s)

\* The connection breaks, or another stream took it down.
CloseConnection ==
    /\ Spare /\ cur > 0
    /\ run[cur] # "over" /\ ctx[cur] # "closed"
    /\ ctx' = [ctx EXCEPT ![cur] = "closed"]
    /\ LoseStream
    /\ UNCHANGED <<log, run, cur, serverVars, healthVars>>
    /\ UNCHANGED detectorVars

--------------------------------------------------------------------------------
(* Run of the latest session, up to the snapshot. *)

InPhase(phase) == cur > 0 /\ run[cur] = phase /\ ctx[cur] = "ok"

SendToStream(request) ==
    /\ ~ended
    /\ Len(wire) < WireSize
    /\ wire' = Append(wire, request)
    /\ UNCHANGED <<ended, windowFull, draft>>

sendClusterMetadata ==
    /\ InPhase("metadata")
    /\ SendToStream([type |-> "metadata"])
    /\ run' = [run EXCEPT ![cur] = "list"]
    /\ todo' = KindOrder
    /\ UNCHANGED <<log, ctx, cur, items, version, watcher, sending, serverVars, healthVars>>
    /\ UNCHANGED detectorVars

Listing == InPhase("list") /\ items = <<>> /\ todo # <<>>

\* The items of a list, in some order.
ItemsOf(k) ==
    LET present == {o \in Objects : KindOf[o] = k /\ State(o) # NoValue} IN
    {f \in [1..Cardinality(present) -> [obj : present, val : Values[k]]] :
        /\ {f[i].obj : i \in DOMAIN f} = present
        /\ \A i \in DOMAIN f : f[i].val = State(f[i].obj)}

\* A kind that is unavailable is skipped.
FetchResources ==
    /\ Listing
    /\ LET k == Head(todo) IN
          \/ /\ items' \in ItemsOf(k)
             /\ version' = [version EXCEPT ![k] = Len(log[k])]
          \/ UNCHANGED <<items, version>>
    /\ todo' = Tail(todo)
    /\ UNCHANGED <<log, run, ctx, cur, watcher, sending, streamVars, serverVars, healthVars>>
    /\ UNCHANGED detectorVars

\* The converter.  The contents of a fetched kind are read from the API server
\* when it runs, and left out if that fails.
Converted(o, v) ==
    IF KindOf[o] \in Fetched THEN {Bare} \cup ({State(o)} \ {NoValue}) ELSE {v}

SendObjectData ==
    /\ InPhase("list") /\ items # <<>>
    /\ LET item == Head(items) IN
          \/ item.val \in Unreadable /\ UNCHANGED streamVars
          \/ /\ item.val \notin Unreadable
             /\ \E v \in Converted(item.obj, item.val) :
                   SendToStream([type |-> "data", obj |-> item.obj, val |-> v])
    /\ items' = Tail(items)
    /\ UNCHANGED <<log, run, ctx, cur, todo, version, watcher, sending, serverVars, healthVars>>
    /\ UNCHANGED detectorVars

\* Everything is listed: the marker, the watchers, and the end of processing.
sendResourceSnapshotComplete ==
    /\ InPhase("list") /\ items = <<>> /\ todo = <<>>
    /\ SendToStream([type |-> "complete", version |-> version])
    /\ run' = [run EXCEPT ![cur] = "forward"]
    /\ watcher' = [k \in Kinds |-> IF version[k] = Unlisted THEN "done" ELSE "start"]
    /\ Calls(cur, FALSE)
    /\ UNCHANGED <<log, ctx, cur, todo, items, version, sending, serverVars>>

\* A call to the API server that fails in another way ends Run.
CallFails ==
    /\ InPhase("metadata") \/ Listing
    /\ Spare
    /\ Returns(cur)

\* Send fails on a stream the server has ended.
SendFails ==
    /\ ended
    /\ InPhase("metadata") \/ (InPhase("list") /\ (items # <<>> \/ todo = <<>>)) \/ sending # Nothing
    /\ Returns(cur)

--------------------------------------------------------------------------------
(* The watchers and the loop that forwards what they hand over. *)

SetWatcher(k, to) ==
    /\ watcher' = [watcher EXCEPT ![k] = to]
    /\ UNCHANGED <<log, run, ctx, cur, todo, items, version, sending>>
    /\ UNCHANGED <<streamVars, serverVars, healthVars>>
    /\ UNCHANGED detectorVars

\* Mutant of newWatcher: no resource version is asked for.
newWatcherFromNow(k) ==
    /\ InPhase("forward") /\ watcher[k] = "start"
    /\ watcher' = [watcher EXCEPT ![k] = "watch"]
    /\ version' = [version EXCEPT ![k] = Len(log[k])]
    /\ UNCHANGED <<log, run, ctx, cur, todo, items, sending>>
    /\ UNCHANGED <<streamVars, serverVars, healthVars>>
    /\ UNCHANGED detectorVars

newWatcher(k)       == InPhase("forward") /\ watcher[k] = "start" /\ SetWatcher(k, "watch")
WatchUnavailable(k) == InPhase("forward") /\ watcher[k] = "start" /\ SetWatcher(k, "done")

\* The watch could not be set up, or its version has expired: cancel stops Run.
WatchFails(k) ==
    /\ InPhase("forward") /\ watcher[k] \in {"start", "watch"}
    /\ Spare
    /\ Returns(cur)

\* The API server closes the watch: it is resumed.
WatchCloses(k) == InPhase("forward") /\ watcher[k] = "watch" /\ SetWatcher(k, "start")

EventWaits(k) ==
    InPhase("forward") /\ watcher[k] = "watch" /\ version[k] < Len(log[k])
NextEvent(k) == log[k][version[k] + 1]

\* Mutant of processMutation: a resumed watch starts after an event that failed.
HandOverSkipping(k) ==
    /\ EventWaits(k)
    /\ sending = Nothing
    /\ LET e == NextEvent(k) IN
       IF e.val \in Unreadable THEN UNCHANGED sending
       ELSE \E v \in Converted(e.obj, e.val) :
              sending' = [type |-> "mutation", obj |-> e.obj, val |-> v,
                          deleted |-> e.deleted, version |-> version[k] + 1]
    /\ version' = [version EXCEPT ![k] = @ + 1]
    /\ UNCHANGED <<log, run, ctx, cur, todo, items, watcher, streamVars, serverVars, healthVars>>
    /\ UNCHANGED detectorVars

\* The event is converted and handed to Run over an unbuffered channel; only then
\* does lastResourceVersion move.
processMutation(k) ==
    /\ EventWaits(k)
    /\ sending = Nothing
    /\ LET e == NextEvent(k) IN
          /\ e.val \notin Unreadable
          /\ \E v \in Converted(e.obj, e.val) :
                sending' = [type |-> "mutation", obj |-> e.obj, val |-> v,
                            deleted |-> e.deleted, version |-> version[k] + 1]
    /\ version' = [version EXCEPT ![k] = @ + 1]
    /\ UNCHANGED <<log, run, ctx, cur, todo, items, watcher, streamVars, serverVars, healthVars>>
    /\ UNCHANGED detectorVars

\* An event that cannot be converted: the watch is resumed at the version before it.
handleWatchError(k) ==
    /\ EventWaits(k)
    /\ NextEvent(k).val \in Unreadable
    /\ SetWatcher(k, "start")

ForwardMutation ==
    /\ InPhase("forward") /\ sending # Nothing
    /\ SendToStream(sending)
    /\ sending' = Nothing
    /\ UNCHANGED <<log, run, ctx, cur, todo, items, version, watcher, serverVars, healthVars>>
    /\ UNCHANGED detectorVars

\* Every watcher has returned without calling cancel: mutationChan is closed.
MutationChanClosed ==
    /\ InPhase("forward") /\ sending = Nothing
    /\ \A k \in Kinds : watcher[k] = "done"
    /\ Returns(cur)

SendKeepalive ==
    /\ cur > 0 /\ run[cur] # "over" /\ ctx[cur] = "ok"
    /\ SendToStream([type |-> "keepalive"])
    /\ UNCHANGED <<log, run, ctx, cur, clientVars, serverVars, healthVars>>
    /\ UNCHANGED detectorVars

\* Mutant of KeepaliveFails: the error is only logged.
KeepaliveFailureLogged ==
    /\ cur > 0 /\ run[cur] # "over" /\ ctx[cur] = "ok"
    /\ ended
    /\ UNCHANGED resourceVars /\ UNCHANGED flowLivenessVars

\* A keepalive that cannot be sent cancels the stream: the client never receives,
\* so it learns in no other way that an idle stream was ended.
KeepaliveFails ==
    /\ cur > 0 /\ run[cur] # "over" /\ ctx[cur] = "ok"
    /\ ended
    /\ ctx' = [ctx EXCEPT ![cur] = "cancelled"]
    /\ UNCHANGED <<log, run, cur, clientVars, streamVars, serverVars, healthVars>>
    /\ UNCHANGED detectorVars

--------------------------------------------------------------------------------
(* CloudSecure, as the fake server has it: every request is answered, and a  *)
(* snapshot may be refused once by ending the stream.  The client never      *)
(* receives, so some answer is the last that the transport takes, and the    *)
(* server stops there.  What it shows is what the messages mean.             *)

Applied(request) ==
    CASE request.type = "data" ->
           /\ draft' = [draft EXCEPT ![request.obj] = request.val]
           /\ UNCHANGED <<view, at, shown, snapshots>>
      [] request.type = "complete" ->
           /\ snapshots' = snapshots + 1
           /\ view' = draft
           /\ draft' = NoDraft
           /\ shown' = [k \in Kinds |-> request.version[k] # Unlisted]
           /\ at' = [k \in Kinds |-> IF shown'[k] THEN request.version[k] ELSE at[k]]
      [] request.type = "mutation" ->
           /\ view' = [view EXCEPT ![request.obj] =
                         IF request.deleted THEN NoValue ELSE request.val]
           /\ at' = [at EXCEPT ![KindOf[request.obj]] = request.version]
           /\ UNCHANGED <<draft, shown, snapshots>>
      [] OTHER -> UNCHANGED <<draft, view, at, shown, snapshots>>

SendKubernetesResources ==
    /\ wire # <<>> /\ ~ended
    /\ ~windowFull
    /\ LET request == Head(wire) IN
          IF request.type = "complete" /\ badCommit
          THEN /\ ended' = TRUE /\ badCommit' = FALSE
               /\ wire' = <<>> /\ windowFull' = FALSE /\ draft' = NoDraft
               /\ UNCHANGED <<view, at, shown, snapshots>>
          ELSE /\ Applied(request)
               /\ wire' = Tail(wire) /\ windowFull' \in BOOLEAN
               /\ UNCHANGED <<ended, badCommit>>
    /\ UNCHANGED <<log, run, ctx, cur, clientVars, healthVars>>
    /\ UNCHANGED detectorVars

--------------------------------------------------------------------------------
\* Time passes for whoever is processing.
BusyTick == busy' = [s \in Sessions |-> Older(busy[s], ResourceProcessingTimeout)]

WatcherStep(k) ==
    \/ newWatcher(k) \/ WatchUnavailable(k) \/ WatchFails(k) \/ WatchCloses(k)
    \/ processMutation(k) \/ handleWatchError(k)

ResourceNext ==
    \/ \E o \in Objects : Write(o)
    \/ OpenStream \/ CloseConnection
    \/ \E s \in Sessions : Discovered(s) \/ DiscoveryFails(s) \/ ContextDone(s)
    \/ sendClusterMetadata \/ FetchResources \/ SendObjectData
    \/ sendResourceSnapshotComplete \/ CallFails \/ SendFails
    \/ \E k \in Kinds : WatcherStep(k)
    \/ ForwardMutation \/ MutationChanClosed
    \/ SendKeepalive \/ KeepaliveFails
    \/ SendKubernetesResources

RunStep ==
    \/ sendClusterMetadata \/ FetchResources \/ SendObjectData
    \/ sendResourceSnapshotComplete \/ ForwardMutation

(* Goroutines that can run do; keepalives are due again and again; the server *)
(* reads.  Run gets its turn at Send although keepalives are sent as well,    *)
(* and a watch that is closed over and over still delivers in the end.        *)
ResourceFairness ==
    /\ WF_resourceVars(OpenStream)
    /\ \A s \in Sessions :
          WF_resourceVars(Discovered(s) \/ DiscoveryFails(s) \/ ContextDone(s))
    /\ SF_resourceVars(RunStep)
    /\ WF_resourceVars(SendFails \/ KeepaliveFails \/ MutationChanClosed)
    /\ WF_resourceVars(SendKubernetesResources)
    /\ \A k \in Kinds :
          WF_resourceVars(newWatcher(k)) /\ SF_resourceVars(processMutation(k))

--------------------------------------------------------------------------------
\* Type invariant of the sessions, the stream and the server.
MirrorTypeOK ==
    /\ run \in [Sessions -> {"new", "discover", "metadata", "list", "forward", "over"}]
    /\ ctx \in [Sessions -> {"ok", "cancelled", "closed"}]
    /\ cur \in 0..MaxSessions
    /\ version \in [Kinds -> Nat \cup {Unlisted}]
    /\ watcher \in [Kinds -> {"none", "start", "watch", "done"}]
    /\ Len(wire) <= WireSize /\ windowFull \in BOOLEAN
    /\ \A k \in Kinds : at[k] \in 0..Len(log[k]) /\ version[k] <= Len(log[k])
    /\ \A s \in Sessions : (busy[s] # Idle) = (run[s] \in {"metadata", "list"})

\* What CloudSecure shows is the history of the cluster, as ClusterMirror says it:
\* across lists, watches that are resumed, refused snapshots, cut streams and new
\* sessions, no event is skipped, repeated or applied to an older picture, and the
\* picture of a kind never goes back in time.
MirrorsTheCluster == Mirror!Spec

\* The healthz endpoint blames resource processing only if some Run has really
\* been at it for longer than the timeout, also when an old Run that was cut
\* calls the detector late.
AlarmIsReal == ResourcesStuck => \E s \in Sessions : busy[s] > ResourceProcessingTimeout

\* A Run that is stuck before its snapshot is complete is reported, unless a Run of
\* another connection called the detector in the meantime.
StuckIsReported ==
    \A s \in Sessions :
        busy[s] > ResourceProcessingTimeout /\ ~overlapped[s] => ResourcesStuck

\* The inductive invariant behind the two: while the flag is on, the Run that set it
\* last has been processing for as long as the detector knows, and a Run nobody
\* interfered with is that Run.
ProcessingIInv ==
    /\ processing \in BOOLEAN /\ startedAge \in Nat
    /\ busy \in [Sessions -> Nat \cup {Idle}] /\ overlapped \in [Sessions -> BOOLEAN]
    /\ processing => \E s \in Sessions : busy[s] # Idle /\ busy[s] = startedAge
    /\ \A s \in Sessions :
          busy[s] # Idle /\ ~overlapped[s] => processing /\ busy[s] = startedAge

\* The watch of k is up; its next event can be converted; the server is not kept
\* from reading by responses nobody receives.
Followed(k) ==
    /\ InPhase("forward") /\ ~ended /\ watcher[k] \in {"start", "watch"}
    /\ version[k] < Len(log[k]) => NextEvent(k).val \notin Unreadable
    /\ ~windowFull

\* Each kind that is watched catches up, again and again: an event of another
\* kind that can never be converted does not hold it back.
EventuallyMirrored ==
    \A k \in Kinds : []<>(Followed(k) => shown[k] /\ at[k] = Len(log[k]))

\* A stream the server has ended does not stay unnoticed.
ClosedStreamIsNoticed == ended ~> ~ended

--------------------------------------------------------------------------------
(***************************************************************************)
(* The inductive invariant behind MirrorsTheCluster.  Between the cluster  *)
(* and the picture lie the items still to send, the requests on the wire   *)
(* and the server's draft: together they must make up a snapshot of the    *)
(* versions that were listed, followed by every event since, in order.     *)
(***************************************************************************)
Vals      == (UNION {Values[k] : k \in Kinds}) \cup {NoValue, Bare}
Events    == [obj : Objects, val : Vals, deleted : BOOLEAN]
Items     == [obj : Objects, val : Vals]
Mutations == [type : {"mutation"}, obj : Objects, val : Vals, deleted : BOOLEAN, version : Nat]
Requests  ==
    [type : {"metadata", "keepalive"}] \cup [type : {"data"}, obj : Objects, val : Vals]
    \cup [type : {"complete"}, version : [Kinds -> Nat \cup {Unlisted}]] \cup Mutations

PipelineTypeOK ==
    /\ run \in [Sessions -> {"new", "discover", "metadata", "list", "forward", "over"}]
    /\ ctx \in [Sessions -> {"ok", "cancelled", "closed"}]
    /\ cur \in 0..MaxSessions
    /\ log \in [Kinds -> Seq(Events)]
    /\ \A k \in Kinds : \A i \in 1..Len(log[k]) :
          KindOf[log[k][i].obj] = k /\ log[k][i].val \in Values[k]
    /\ todo \in Seq(Kinds) /\ items \in Seq(Items) /\ wire \in Seq(Requests)
    /\ version \in [Kinds -> Nat \cup {Unlisted}]
    /\ watcher \in [Kinds -> {"none", "start", "watch", "done"}]
    /\ sending \in Mutations \cup {Nothing}
    /\ draft \in [Objects -> Vals] /\ view \in [Objects -> Vals]
    /\ at \in [Kinds -> Nat] /\ shown \in [Kinds -> BOOLEAN]
    /\ \A k \in Kinds : at[k] <= Len(log[k]) /\ version[k] <= Len(log[k])

\* The latest session can still send.
Live == cur > 0 /\ run[cur] # "over" /\ ctx[cur] = "ok" /\ ~ended

\* A stream that is over has left nothing behind.
NothingLeft ==
    /\ wire = <<>> /\ todo = <<>> /\ items = <<>> /\ sending = Nothing
    /\ \A k \in Kinds : version[k] = Unlisted
    /\ draft = NoDraft /\ ~ended

LostIsLost ==
    /\ cur = 0 \/ run[cur] = "over" \/ ctx[cur] = "closed" => NothingLeft
    /\ ended => wire = <<>>
    /\ sending # Nothing => cur > 0 /\ run[cur] = "forward"
    /\ cur > 0 /\ ctx[cur] = "cancelled" => ended \/ run[cur] = "over"
    /\ \A s \in Sessions : s > cur => ctx[s] = "ok"
    /\ \A k \in Kinds : watcher[k] \in {"start", "watch"} => version[k] # Unlisted

OnWire(type) == {i \in 1..Len(wire) : wire[i].type = type}

\* The values of o and the events of k that are on the wire, and the objects whose
\* items are still to be sent.
DataOn(o)   == {wire[i].val : i \in {j \in OnWire("data") : wire[j].obj = o}}
EventsOn(k) == {wire[i].version : i \in {j \in OnWire("mutation") : KindOf[wire[j].obj] = k}}
Unsent      == {items[i].obj : i \in 1..Len(items)}

\* What the draft will be of o when the wire and the items left are sent: what may be
\* listed of it after p events.
Drafted(o, p, left) ==
    IF p = Unlisted THEN draft[o] = NoValue /\ DataOn(o) = {}
    ELSE /\ draft[o] \in Mirror!Listed(o, p) \cup {NoValue}
         /\ DataOn(o) \subseteq Mirror!Listed(o, p)
         /\ draft[o] \in Mirror!Listed(o, p) \/ DataOn(o) # {} \/ o \in left

\* A snapshot of the versions v is in the making; it is not older than the picture.
Making(v, left) ==
    /\ \A o \in Objects : Drafted(o, v[KindOf[o]], left)
    /\ \A k \in Kinds : v[k] # Unlisted => v[k] \in at[k]..Len(log[k])

\* The mutation m is an event of the cluster.
IsEvent(m) ==
    LET k == KindOf[m.obj] IN
    /\ m.version \in 1..Len(log[k])
    /\ log[k][m.version].obj = m.obj /\ log[k][m.version].deleted = m.deleted
    /\ log[k][m.version].val \notin Unreadable
    /\ m.val \in Mirror!Contents(m.obj, m.version, log[k][m.version].val)

EventsInOrder ==
    /\ \A i \in OnWire("mutation") : IsEvent(wire[i])
    /\ \A i, j \in OnWire("mutation") :
          i < j /\ KindOf[wire[i].obj] = KindOf[wire[j].obj] => wire[i].version < wire[j].version
    /\ sending # Nothing =>
          IsEvent(sending) /\ sending.version = version[KindOf[sending.obj]]

\* The last event of k that has been put on the wire.
Handed(k) ==
    IF sending # Nothing /\ KindOf[sending.obj] = k THEN version[k] - 1 ELSE version[k]

\* The wire carries exactly the events of k after the first b.
Chained(k, b) ==
    /\ b = Unlisted <=> version[k] = Unlisted
    /\ b <= Handed(k)
    /\ EventsOn(k) = (b + 1)..Handed(k)

Starting ==
    Live /\ run[cur] \in {"new", "discover", "metadata"} =>
        /\ OnWire("data") = {} /\ OnWire("complete") = {} /\ OnWire("mutation") = {}
        /\ todo = <<>> /\ items = <<>> /\ sending = Nothing /\ draft = NoDraft
        /\ \A k \in Kinds : version[k] = Unlisted

ListingIsComplete ==
    Live /\ run[cur] = "list" =>
        /\ OnWire("complete") = {} /\ OnWire("mutation") = {} /\ sending = Nothing
        /\ Making(version, Unsent)
        /\ \A i \in 1..Len(items) :
              LET o == items[i].obj IN
              /\ version[KindOf[o]] # Unlisted /\ items[i].val # NoValue
              /\ items[i].val = Mirror!At(o, version[KindOf[o]])
        /\ \A i \in 1..Len(todo) : version[todo[i]] = Unlisted
        /\ \A i, j \in 1..Len(todo) : todo[i] = todo[j] => i = j

CommitIsComplete ==
    \A c \in OnWire("complete") :
        /\ run[cur] = "forward"
        /\ OnWire("complete") = {c}
        /\ \A i \in OnWire("data") : i < c
        /\ \A i \in OnWire("mutation") : i > c
        /\ Making(wire[c].version, {})
        /\ \A k \in Kinds : Chained(k, wire[c].version[k])

FollowingIsComplete ==
    Live /\ run[cur] = "forward" /\ OnWire("complete") = {} =>
        /\ OnWire("data") = {}
        /\ \A k \in Kinds : Chained(k, IF shown[k] THEN at[k] ELSE Unlisted)

MirrorIInv ==
    /\ PipelineTypeOK /\ LostIsLost /\ EventsInOrder
    /\ Starting /\ ListingIsComplete /\ CommitIsComplete /\ FollowingIsComplete
================================================================================
