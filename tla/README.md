# Verification of the Illumio cloud operator

TLA+ models of the operator, checked with TLC on small instances, and theorems
about them proved with TLAPS for every instance. Paths below are relative to the
repository.

## 1. The system

The operator runs in a Kubernetes cluster and keeps one authenticated gRPC
connection to CloudSecure. On it run several independent streams; behind them
are a few long-lived pieces of shared state.

| part | code | state | operations | talks to |
|---|---|---|---|---|
| stream manager | `stream/manager.go`, `retry.go` | current connection, one goroutine with two nested retry loops per stream | connect, start all streams, back off, give up, stop, reconnect | every stream client, by context and done channel |
| object caches | `stream/config/cache/cache.go` | map, `ready` channel, one-slot `resourceChanged` channel | `ReplaceAll`, `Insert`, `Delete`, `Get`, `Keys` | written by two streams, read by the reconciler |
| config stream | `stream/config/client.go` | pending snapshot, phase | snapshot data, snapshot complete, mutation | CloudSecure to config cache |
| resource stream | `stream/resources/client.go`, `watcher.go` | pending snapshot, resource version, watchers | list, filter, swap, watch, resume | Kubernetes to runtime cache and to CloudSecure |
| reconciler | `reconciler/reconciler.go` | resource discovery, timer | full round, single-key round, apply, delete | both caches, Kubernetes API |
| flow cache and flow stream | `stream/flows/cache/cache.go`, `stream/flows/client.go` | list, map, timer, two channels | cache, skip, evict, send | collectors to CloudSecure |
| log syncer and log stream | `logging/grpc_logger.go`, `stream/logs/` | buffer, lost count, installed stream, done channel | write, flush, install, tick | every logger to CloudSecure |
| collectors | `stream/flows/{cilium,awsautomode,awsvpccni,ovnk}`, `collector/` | checkpoints, poll times, TLS fallbacks | poll, read, recover | Kubernetes nodes and pods to flow cache |
| onboarding and authentication | `auth/` | secret in the cluster | read, onboard, write, token | CloudSecure, Kubernetes |
| deadlock detector, health | `stream/deadlock.go`, `cmd/main.go` | processing flag and times | set, record, check | liveness probe |
| conversions | `internal/convert` | none | translate objects | all of the above |

(`stream/...`, `logging/...`, `auth/...` are under `src/internal/controller/`.)

What is hard here, and why tests hardly reach it:

* every cache call writes under a lock and notifies afterwards, on a channel with
  one slot, against a context that may end in between;
* the reconciler reads two caches one after the other and acts later;
* sessions of the same stream follow each other on shared state, and the manager
  does not wait for the goroutines of the old one;
* streams break half way through a snapshot, a flush or an eviction, and the
  resource stream, which never receives, has to find out by sending;
* retry loops with two sets of constants, and a stream that stops for good;
* node logs are renamed, compressed and deleted while they are read over a proxy
  that fails, and pod logs are polled in windows of whole seconds;
* TLS fallbacks that outlive the connection that caused them, and a secret that cannot
  be read;
* records whose fields are missing, short or of unknown numbers;
* two pods and one secret during a rollout;
* an object that does not come back from the cluster the way it was configured.

The hazards are listed one by one, with their lines and the properties that
would catch them, in `PROJECT.json`.

What makes the parts correct:

* **caches**: no change goes unnoticed by the consumer (`NoLostChange`); no
  writer waits for ever, unless nobody will ever read (`WritersGoOn`);
* **config stream**: the cache shows only what CloudSecure wanted
  (`ConfigCacheIsWanted`), and in the end all of it (`EventuallyEqual`);
* **resource stream**: a watcher that has caught up leaves the cache equal to the
  cluster, but for what an old watcher wrote late (`WatchCaughtUpMeansEqual`), and
  what CloudSecure shows is the history of the cluster (`MirrorsTheCluster`);
* **reconciler**: it does only what was asked for (`OperatorDoesWhatWasWanted`) and
  gets there, if the runtime cache does not mislead it (`Converges`);
* **manager and authentication**: sleeps within bounds (`StreamSleepBounded`), every
  stream comes back (`StreamsComeBack`), old goroutines end (`OldGoroutinesEnd`),
  credentials are stored before they are used (`StoredBeforeUse`) and a cluster is
  registered again only for a reason (`RegistrationsAccounted`);
* **flow cache**: list and map agree, sorted and bounded (`CacheInOrder`), the timer is
  set (`TimerCoversOldest`), no flow is forgotten (`EveryFlowAccounted`, `FlowsLeave`);
* **log syncer**: each entry once and in order (`SentInOrder`), losses counted
  and reported (`BooksBalance`);
* **collectors**: no record skipped by a checkpoint or sent twice (`NothingSkipped`,
  `ReadOnce`, `CatchesUp`), no gap between two polls (`WindowsMeet`), no good record
  lost to a bad one (`RecordsAccounted`), plain text only for a reason
  (`PlainForAReason`), and no standing still (`EventuallyStreams`, `CollectorsGoOn`);
* **health**: what has stalled is reported, and only that (`StallsAreReported`,
  `AlarmsAreReal`);
* **flow records**: a record becomes the flow that was recorded, with the parts it
  does not have left empty, or nothing (`FlowIsTraffic`), and is aggregated with those
  of its connection (`KeyIsConnection`);
* **conversions**: what is reported means what the cluster has (`PolicyMeaningKept`, for
  the policies of Kubernetes, of OVN and of AWS applications; `ReportIsTrue`), and
  comparing the two caches settles (`ReconcilingSettles`, `ReadingNormalises`).

Several of these are conjunctions of named parts (`CacheInOrder` is `QueueMatchesCache`,
`QueueSorted`, `CapacityHolds` and the types), one for each thing that can go wrong.

## 2. Modules

Dependencies run downwards; `MC*` modules only add symmetry sets and instances, where a
configuration needs any.

```
PolicyObjects            keys, contents
  ObjectCache            the two caches, each call split at its lock
    ChangeFeed           any writers + a consumer: what a cache promises
    ConfigStream         CloudSecure, sessions of configClient.Run
      ConfigStreamProofs   also the proofs about ChangeFeed
    ResourceStream       sessions of resourcesClient.Run and their watcher
    Reconciler           the reconciler goroutine
  Cluster                the Kubernetes API server and its watch history (external)
PolicySync               ConfigStream + ResourceStream + Reconciler + Cluster
  PolicySyncProofs

Backoff                  exponentialBackoff's state and arithmetic
  StreamManager          ConnectStreams and ManageStream
Onboarding               the secret, registrations, two pods
OperatorSessions         StreamManager + Onboarding
  OperatorSessionsProofs   also the proofs about LogSyncer

FlowCache                FlowCache.Run, networkFlowsClient.Run
  FlowCacheProofs
FlowRecords              traffic, its records, the decoders, the keys of flows
LogSyncer                BufferedGrpcWriteSyncer and its sessions

AutoModeLog              checkpoints against rotating node logs
  AutoModeLogProofs
HubbleSession            relay, credentials, fallbacks, watchdog
OvnkListener             the IPFIX socket and its readers
VpcCniPoller             poll windows over pod logs
FlowCollection           detection + HubbleSession + OvnkListener + VpcCniPoller
  FlowCollectionProofs

DeadlockDetector         deadlock.go with its times
  ResourceMirror         the resource stream to CloudSecure; implements ClusterMirror
  FlowWatchdog           the path of a flow, with its times
OperatorHealth           ResourceMirror + FlowWatchdog on one clock
  OperatorHealthProofs
ClusterMirror            what the resource stream promises (abstract)

ResourceConversion       reported objects
  PolicyConversion       configured policies: apply and read back
  ReportedPolicies       policies as they are reported, and what they mean
    ConversionProofs     about ReportedPolicies and FlowRecords
Conversions              PolicyConversion + ReportedPolicies + FlowRecords at work
```

### Policy synchronisation

*ObjectCache.* `objects[c]` is the map, `ready[c]` whether the ready channel is
closed, `resourceChanged[c]` the slot. A call is two steps: the write
(`ReplaceAll`, `Insert`, `Delete`), which leaves the note to send in
`notifying[w]`, and the `select` that follows (`SendNote`, `DrainNote`,
`GiveUpNote`). `ReplaceAllFails` is the branch that returns the context's error
after the swap. `Insert` and `Delete` send a note only if the value changed, by
`proto.Equal`, which is equality of contents here.

*ChangeFeed* composes the caches with writers that call them in any order and a
consumer that takes a note and then looks at the keys it names. It is the
abstract setting for the cache's promise; the reconciler is one such consumer.

*ConfigStream.* A session is one `configClient.Run`, and a writer of the config
cache. CloudSecure is external: it sends what it wants in any order, then every
change, or a message out of phase. `held` is the message `Recv` returned, so a
session can be cancelled or a change made between `Recv` and its handling.
Messages that set the log level are left out.

*ResourceStream.* A session lists (`DynamicListResources`), filters the list with
the ownership test (`FilterListed`, which reads the runtime cache), swaps
(`ReplaceRuntime`) and then takes and handles watch events. List and filter are
separate steps because the cluster moves on in between. `latest` is the session opened
last; `overtaken` are the keys that a watcher of an earlier one has written since
`latest` put its snapshot in, until `latest` handles an event of them. Both only serve
the properties. The position in
`Cluster`'s history is the resource version; a watch that closes and is resumed
at the same version is no step. The objects of all kinds are listed and watched
alike; one kind stands for them.

*Reconciler.* The control states follow `Run`, `reconcileAll` and
`reconcileObject`; the two reads and the API call are separate steps.

*Cluster* is external. An object carries its content and whether `managedFields`
names the operator (`owned`). Other users create, change and delete; a merge
patch may clear `owned`.

*Overlap* says what of an old, cancelled session may run on when the next opens:
nothing, the watcher of the resource stream (which `Run` never waits for, so this
happens on every reconnect), or whole sessions (when the connection is replaced). A
watcher that has taken an event looks at its context no more before it writes.

### Stream manager

`managed[c][f]` is the goroutine of stream `f` on connection `c`: in the action, in
a sleep of the inner loop, in a sleep of the outer loop, or done. Durations are
seconds, jitter is a percentage rounded down; an attempt may or may not have
lasted long enough to count as a success. Only the Cilium client returns
`ErrStopRetries` of its own accord (`StopsRetries`).

### Flow cache

`queue` is the list, `cache` the keys of the map. `Run` is a `select`
loop; while it waits for room in `OutFlows` it holds a flow in `evicted` and, when
it makes room, the new one in `incoming`. The clock stops at `MaxTime`, which
stands for every later time. One `Run` at a time: the next session starts a
second or more after the last was cancelled, and `Run` waits only in `select`s
that see the cancelled context. The code does not
enforce this by itself: it rests on the backoff.

### Log syncer

The mutex makes `write`, `UpdateClient` and the ticks single steps. A flush is
described by how many of its messages the stream takes (`Flushed(n)`); a stream
that has failed fails every later `Send`, as gRPC streams do. The connection's
state is read twice in one `write`, hence `WriteFlaps`. `SetDone` is not
synchronised with `run`, which may therefore read the old channel once more.

### Resource mirror

`ResourceMirror` is `resourcesClient.Run` towards CloudSecure: discovery, metadata,
one list per kind, the snapshot marker, one watcher per kind, the forwarding
loop, the keepalive goroutine, and the server's end of the stream as
`fakeserver/server.go` plays it. The resource version of a kind is a position in its
history `log[k]`. A value in `Unreadable` is one its converter refuses; the contents
of a kind in `Fetched` (network policies) are read from the API server when an
event is converted and are therefore those of a later moment.

`ClusterMirror` is the promise: per kind, CloudSecure's picture is the state after
some number of events; a snapshot moves it forward as a whole, a mutation by one
event, nothing moves it back. `MirrorsTheCluster` is the refinement,
`Mirror == INSTANCE ClusterMirror WITH ...`, variable by variable; `view`, `at`
and `shown` are updated where the server applies a request, so that what counts is
what arrives and not what the client believes it sent.

The same Runs call the deadlock detector. Discovery has no context, so a Run whose
connection was closed can still be in it when the next one starts, and its late
call clears the flag of the other: `overlapped` marks that case, which
`StallsAreReported` excludes and `AlarmsAreReal` does not.

`FlowWatchdog` follows one flow through its stages, each with the time the code
gives it, and asks whether the sum that `FlowInactivityTimeout` computes is enough.

### Authentication

A pod reads the secret, registers the cluster if it is empty, reads the secret
again, updates it under its resource version, and connects. Registrations are
counted. `OperatorSessions` puts this in front of every connection of
`StreamManager`, with a second pod that is being replaced. A crash takes the
goroutines with it and leaves the secret.

### Collectors

`FlowCollection` decides once, like `DetectFlowCollector`, and then runs the detected
collector. `AutoModeLog` is separate because of its size; what it has in common with
the others is only that it was detected.

*AutoModeLog.* The node appends, renames, compresses in place and deletes; the poll
lists, recovers unseen generations oldest first, and reads the active file from
its checkpoint. Lines have one of two lengths, so an offset that belongs to
another file need not be a line boundary. What a poll has still to recover is a set;
`Oldest` picks from it as `sortRotations` does. *VpcCniPoller.* Time is in half seconds
because the API server counts in whole ones. *HubbleSession.* A handshake's outcome
follows from what the relay speaks and what the client offers. Looking up a service
and reading the secret may each fail although they are there; `cert` remembers what
the second found. *OvnkListener.* A packet is a sequence of records: good, bad, part
of a packet that does not decode, and those over which the decoder panics, which end the
process and lose what is in hand.

### Flow records

`FlowRecords` has the decoders of the three formats (both formats of the AWS agent's
line, the IPFIX data record of Open vSwitch, Hubble's flow) and the keys of the flow
cache, and puts them to work: traffic is recorded by its observer, the record
arrives whole or damaged in one of the ways its format allows, and the decoder makes of
it what it makes. Of an IPFIX record each field arrives as itself, as one of another type
(its part of the flow is then missing) or with an unknown number, and longer or
shorter than it should be. The decoder refuses it, passes it over, or ends the
process. `last` has the record with the traffic it describes, `cached` the keys
of Hubble's flows with their connections, which Hubble sees from both ends and in any
order. The observers are external, modelled from what the decoders expect.

### Conversions

Objects are functions from field names to values; an unset field is outside the domain,
which is the distinction these converters have to keep. `PolicyConversion` has both
directions of a configured policy: `ConvertToApplyObject` with the renaming of protojson
fields, and `BuildConfiguredFromMetadata` for the runtime cache; the API server between
them merges by field and manager. `ResourceConversion` has the reported kinds.
`ReportedPolicies` says what the API server's schemas ensure of the policies among them
(`Valid`) and what a policy of the cluster and its message mean, independently of the
converters: the peers, ports, policy types and priorities of Kubernetes' NetworkPolicy,
OVN's admin policies, egress firewall and egress IP, and AWS's ApplicationNetworkPolicy.
A port that is a number is sent as its text; `Decimal` is that conversion, one to one,
and no port has a name that looks like a number. Cilium's policies are configured ones,
and of them, as of AWS's ClusterNetworkPolicy, `PolicyConversion` says how they are
applied and read back and nothing what they mean. `Conversions` has the configured
policies, the services and the routes at work beside them, and the records of
`FlowRecords`. The pure operators have no state of their own: a behaviour picks an
object, converts it, and, for configured policies and routes, lets the cluster change it
and converts again.

## 3. Runs

| run | asks | bounds |
|---|---|---|
| `change_feed` | is a change of a cache ever missed? | 2 keys, 2 contents, 2 writers, any number of calls |
| `config_stream` | does the config cache follow CloudSecure over broken sessions? | 2 keys (1 supported), 2 contents, 2 sessions, 2 edits |
| `policy_sync` | does the operator do anything nobody asked for? | 1 key, 2 contents, 2 config and 1 resource session, overlapping |
| `policy_converge` | is drift repaired and a change of mind followed, and does any writer wait for ever? | 1 key, 2 contents, 1 edit; 2 resource sessions, the first with a watcher that may write late, and 1 foreign write; or 2 config sessions and failing discovery |
| `stream_manager` | from an empty secret to running streams: are registrations accounted for, do streams come back, within bounded sleeps? | 2 streams, 3 connections, 5 faults, threshold 2, 2 pods, 3 mishaps |
| `flow_cache` | does the flow cache stay consistent, and does every flow leave? | 3 keys, 2 places, channel of 1, 3 flows, 2 sessions, clock 0..2 |
| `log_syncer` | is an entry lost, doubled or reordered? | buffer of 2, 5 entries, 3 streams |
| `auto_mode` | is a record of a rotating log skipped or read twice? | 1 node, 3 records, 2 rotations, 2 node objects, 1 restart |
| `collectors` | whichever collector is detected, does it lose anything or stand still? | 2 namespaces and 2 changes of the relay or failed calls, the reading of the secret among them; 2 sessions and 2 packets, with bad, undecodable and panicking records; 1 pod, 2 lines (1 oversized), 2 collectors, clock 0..2 |
| `resource_mirror` | does CloudSecure see the cluster's history, and does healthz tell the truth? | 2 kinds (1 fetched), 2 objects, 2 writes, 2 sessions, 1 request on the wire; stages of 0 to 3 ticks |
| `conversions` | does what comes out mean what went in, and does reconciliation settle? | the policies, objects and routes of `MCConversions`, generations 1..3; reported policies with each port, policy type and priority varied; records of 4 protocols in 2 IP versions: IPFIX records whole, with any field short, long or unknown, any two missing, any field short together with a short time; 26 connections that differ in one part, 2 cached keys |

One key is enough where only one key is used: the caches treat keys
independently but for the note slot, which `change_feed` checks with two. Two
sessions give every order of "old session, new session"; the last session of a
run is never cut, so that what it leads to can be observed. Two places and three
flow keys are the smallest case with an eviction for room; a buffer of two the
smallest in which a flush can stop in the middle. Three records and two rotations
give a record in each of two rotated generations and in the active file. One
request on the wire is enough for a request to be lost and for `Send` to block.

Where a budget of faults would multiply two stories that have nothing to do with
each other, a run starts from several initial states that share it out
(`StoriesSpec`, `FairScenario`, `SessionsInit`, `HealthInit`): each is a state the system
reaches, with a part of the budget spent. `resource_mirror` has flows and resource
sessions in different behaviours because the two halves of the detector share no
variable; `policy_converge` has drift with discovery done, and config reconnects
with one resource session.

Deadlock is checked where the system cannot stop; the other runs are bounded by
counters and stop when these are used up.

### A violation

`log_flusher` is expected to find one: the goroutine that flushes the log buffer and
sends the keepalives ends with the first log session, and nothing starts it
again, although a comment says that it runs until `Stop`.

### Disagreements without a run

Met while modelling, and left out of the properties by a named condition:

* **Discovery fails for good** (`reconciler.go:81`): `Run` returns and nobody reads the
  change channel. The first note fills it, and the next `Insert` or `Delete` waits
  until its session is cancelled. `cache.go:126` says that the notification
  "decouples snapshot completion from consumer readiness"; that holds for
  `ReplaceAll` (`SnapshotNeverBlocks`) and not for single objects
  (`WritersWaitOnlyForDiscovery`).
* **A cancelled watcher writes late** (`resources/client.go:368`): `Run` does not wait
  for its watchers, so an event that one had in hand lands on the next session's
  snapshot, on any reconnect. The reconciler then compares the wish with that entry,
  may see no difference, and the cluster stays wrong until the object changes again or
  the next session lists. `policy_converge` has such watchers (`Overlap =
  "watchers"`), and `WatchCaughtUpMeansEqual` and `Converges` name the case as their
  exception (`overtaken`, `MisledByLateWrite`). Without the exception TLC finds each
  of them violated there.
* **An unreadable secret turns encryption off** (`collector/cilium.go:73-81`): any
  error of `GetTLSConfig`, one of the API server or of access rights too, leaves
  `tlsConfig` nil, and the flows of this connection travel in plain text although a
  usable certificate is there. `PlainForAReason` counts it as a reason.
* **A plain answer turns TLS off for good** (`flows/cilium/client.go:79`): a relay that
  later requires TLS is not reached before the operator restarts. `PlainForAReason`
  takes the old answer as a reason ever after, and `EventuallyStreams` speaks only of
  relays that the fallbacks can still reach: neither would show it.
* **A short time ends the process** (`collector/ovnk.go:370-375`): the two times of a
  record are read without a look at their length, and with less than four bytes
  `Uint32` panics in a goroutine that nothing recovers. The comment (`ovnk.go:303`)
  says "If any parsing step fails, it returns an error and skips the record".
  `FlowIsTraffic` shows that nothing but damage does this; for `RecordsAccounted` what
  the process had in hand when it ended stays there.
* **Backoff of the reset loop** (`constants.go:31-34`): its initial backoff is ten
  minutes and its maximum ten seconds; `clamp` returns the minimum, so the outer
  loop sleeps ten minutes. `StreamSleepBounded` is about the inner loop; the outer
  loop's constants have no property, since the code says nowhere what they should give.
* **Auto Mode skips records** in two races, a rotation between the listing and the
  read of a poll and the generation behind one that was deleted unread; a comment
  (`awsautomode/client.go:188`) says that a "mid-cycle failure never skips unprocessed
  records". `NothingSkipped` names the two.
* **A relist trusts the old cache** (`resources/client.go:347`): an object deleted and
  created anew by somebody else in between is taken for the operator's.
* **`ErrStopRetries`** stops a stream only until the next connection.
* **Empty endpoint lists** (`k8s_info.proto:642`): the message distinguishes an unset
  list of endpoints from an empty one, which "selects nothing"; `cilium.go:240`
  makes an empty list unset. No property is about it: `PolicyMeaningKept` leaves
  Cilium's policies out, and `MCConversions` has no such list.
* **Rule labels** (`ReconcilingSettles`) and other objects outside `Faithful`: the first
  are refused by the API server, the others are applied again in every round. Rule
  labels are the one refusal in the model, for it is the converters that put them where
  the schema has none; what else the API server's schemas refuse or fill in (section 5)
  may keep a policy from settling too.

### Fairness

Goroutines that can go on do (weak fairness on each). Where a `select` finds a
case ready again and again, Go's random choice takes it in the end (strong
fairness on the reconciler's timer and note cases). The API server does not
refuse for ever (strong fairness on apply and delete, and on the answer to a poll
of a pod's log). A watch that is closed over and over still delivers, and `Run` gets
its turn at `Send` although keepalives are sent too (strong fairness, resource
mirror). Timers fire and a stream whose context is done returns. Nothing is assumed
of edits, failures, cancellations, collectors and log writers.

## 4. Proofs

For every set of keys, contents and sessions, and every bound:

* `ConfigStreamProofs`: of `ChangeFeed`, `FeedTypeCorrect` and `NoLostChangeHolds`.
  `NoLostChange` is inductive together with the types: a difference between the cache
  and the consumer's last look is always matched by a pending look, a note in the
  slot, or a writer with a note to send. `DrainNote` keeps it because the drainer
  itself still has "everything" to send. Of `ConfigStream`, `ConfigTypeCorrect`,
  `ConfigCacheAlwaysWanted`, `UnsupportedNeverReached`. The invariant `ConfigIInv`
  follows each session's snapshot: for every key, what the snapshot will hold is on
  the wire, in hand or collected, in this order (`Collected`), and is what CloudSecure
  wanted when the session opened; changes queued behind it were wanted too.
  `CaughtUpAlwaysEqual` (where sessions do not overlap) has an invariant of its own,
  `CatchUpIInv`: the last mutation of a key on the wire is what CloudSecure wants now,
  and if there is none, what is due for the key is (`Due`: collected, in hand, or in
  the cache, depending on how far the session is).
* `PolicySyncProofs`: `SyncTypeCorrect`, `OperatorAlwaysDoesWhatWasWanted`. On top of
  `ConfigIInv`, `SyncIInv` says that the reconciler leaves its wait only when the
  config cache is ready, that the wish in its hand was wanted, and that what it
  decided fits that wish. `wanted` only grows, so the wish still counts when the API
  call is made, however late that is. `WatchCaughtUpAlwaysEqual` (where nothing but
  watchers outlives a session) rests on `WatchIInv`: of the sessions before the latest
  only a watcher may be left; the last event of an object tells what the cluster has;
  and an object with no event ahead of the latest session's version is in the list,
  the snapshot or the runtime cache as it is in the cluster, or is `overtaken`. An old
  watcher's write can only add to `overtaken`, and the latest session's own events
  take away from it. What the handler makes of an event does not depend on earlier
  ones (`Agrees` holds after it whatever was cached), so nothing need be said of an
  object that has an event ahead.
* `FlowCacheProofs`: `CacheAlwaysInOrder`, `TimerAlwaysCoversOldest`,
  `EveryFlowAlwaysAccounted`. The three need each other and one more fact
  (`FlowIInv`): while `Run` waits for room in `OutFlows`, the flow it will add
  afterwards still has a place and a key that is free, because `Run` alone writes
  the cache.
* `ConversionProofs`: `FlowAlwaysTraffic`, `KeyAlwaysConnection`,
  `PolicyMeaningAlwaysKept`. The first, for any addresses, ports and traffic, goes
  through every format and every damage: for fields of any length, type and number,
  `DamageIsFound` (a damaged field cannot be read, and nothing else panics) and
  `PartsRead` (what the decoder has for each part when no field is damaged: the
  traffic's own, or nothing). The second, for any connections, needs that every cached
  key is that of its connection (`CachedUnderKeys`), from either end, and that this
  key tells connections apart. The third is for any policies of its kinds that pass
  the schemas (`Valid`), of any size, and any labels, domains, port numbers and names.
  It goes from selectors and address blocks to peers, ports, rules and policies: what
  is converted element by element stays in its place, is empty when the original is
  (`ConvertedList`), and each element admits what the original does. Where a converter
  changes more than the form, the lemma says why it may: a selector left out because
  it selects everything (`NetworkPolicyKept`), one added because it is absent
  (`NamespacedPodsKept`), "TCP" for no protocol (`NetworkPortKept`), a number sent as
  text (`TextKept`, because different numbers have different texts and no name is one
  of them), an empty string left out (`AdminPortKept`, `DestinationKept`).
* `OperatorSessionsProofs`: `AlwaysStoredBeforeUse`, `RegistrationsAlwaysAccounted`,
  `StreamSleepAlwaysBounded`. The registrations are bounded by a potential: those
  issued and those that pods may still make although nothing fails (`MayRegister`:
  all who hold none, while the secret is empty; afterwards only those who had
  found it empty) are at most one for each pod and mishap. That needs that no
  update conflicts while the secret is empty (`OnboardingIInv`). The bound on the
  sleeps follows from `clamp` and the types (`ManagerIInv`): jitter comes first.
  The module also proves `BooksAlwaysBalance` and `AlwaysSentInOrder` of the log
  syncer. `LogIInv` adds that no entry sent or buffered is newer than the last one
  written, so that the next may follow; a flush moves a prefix of the buffer behind
  what was sent.
* `OperatorHealthProofs`: `AlarmsAlwaysReal`, `StallsAlwaysReported`,
  `StreamImplementsMirror`. The refinement `Mirror == INSTANCE ClusterMirror WITH ...`
  is proved step by step: with `MirrorIInv`, which says for each phase of a Run what
  the snapshot under way will show and that the wire carries exactly the events
  after it, each once, each step is a snapshot, an event or a stutter of
  `ClusterMirror`. For the detector, `ProcessingIInv` ties the flag and its time to
  the Runs that are processing, and `WatchdogIInv` bounds the age of the last flow
  sent by what the oldest flow has taken so far (`Allowed`).
* `FlowCollectionProofs`: `PlainAlwaysForAReason`, `RecordsAlwaysAccounted`,
  `WindowsAlwaysMeet`. Only the detected collector moves, so each has an invariant of
  its own: `HubbleIInv` (TLS is off for the process only after an answer in plain
  text, whatever else failed; the secret is a reason for its own connection only),
  `OvnkIInv` (the books with the good records in hand, counted as a finite set),
  `PollerIInv` (which window the request under way asks for, what its answer must
  hold, and that a pod is forgotten only when it is gone).
* `AutoModeLogProofs`: `LogInOrder`, `LogTypeCorrect`, `NothingEverSkipped`,
  `AlwaysReadOnce`. Neither property is inductive, nor is the second one with the
  first; three invariants build on each other.
  `LogIInv` (`LogInOrder`): the generations on disk are the newest, with no gap;
  every line of a file is where the history says its record was written, and every
  record of a node is in its file as long as that is there (`FilesOK`); what a poll has
  still to recover is newer than its checkpoint (`PollOK`).
  `SkipInv`: what the checkpoint has passed is excused, by generation or by offset; an
  offset ends a line of the first file after the checkpoint's generation, the one it
  counts in, or that file is one of the exceptions (`PassedExcused`); what is no longer
  on disk is excused (`GoneExcused`); and the list of a poll covers every generation
  between its checkpoint and the active file, but for those that rotated after the
  listing (`ListCovers`). Only with the last may the checkpoint move to the oldest of
  the list. `End` is strictly increasing along a file (lines have a positive length),
  so an offset ends one line at most.
  `AllOnce`: on a node that has had no failed poll, restart or race (`Calm`), every line
  that was read and that the checkpoint's generation does not cover lies before its
  offset (`OnceBehind`), nothing ahead of a poll was read (`OnceAhead`), and an active
  file of which something was read still has the checkpoint's line at its offset
  (`Recognised`), so the next poll will not take it for a new file. If that line is
  missing the file is unread, and starting again at 0 does no harm.

The assumptions are the named `ASSUME`s of the modules. Those that say more than the
type of a constant: the note "*" is not a key, the absent object is neither a content
nor an object of the cluster, writers of the two caches are different, supported keys
are keys; the inner retry loop's first backoff is at most its maximum (`constants.go`);
the kinds are sent in one order that names each once, and a cluster has finitely many
objects; packets are sequences of records; "none" is not the name of a pod; the two ends
of traffic have one IP version, no address is empty, and what arrives of a record are
its eight fields, each in any of the ways above (`DecodingAssumption`); reported
policies have passed the API server's schemas, no domain name is empty, no port is 0,
and the texts of port numbers differ from each other and from the names of ports
(`ReportAssumption`); a node has at least one object in its life, and the bytes read
again before an offset (`validationOverlap`, 1 MiB) exceed the longest line, which
`client.go:52` demands and `AlwaysReadOnce` alone needs. `Overlap # "all"` is a
hypothesis of `CaughtUpAlwaysEqual` and of `WatchCaughtUpAlwaysEqual`: without it TLC
finds an old session that writes over what the next one has brought.

Only model-checked:

* all liveness (`EventuallyEqual`, `Converges`, `WritersGoOn`, `StreamsComeBack`,
  `OldGoroutinesEnd`, `FlowsLeave`, `CatchesUp`, `EventuallyStreams`, `CollectorsGoOn`,
  `EventuallyMirrored`, `ClosedStreamIsNoticed`), which needs fairness and is out of
  the prover's reach;
* `ReconcilingSettles` and `ReadingNormalises`: the configured policies are made of
  nested messages that `protoToMap` and the normalisation take apart recursively, so a
  theorem would be an induction over data, out of the prover's reach;
* `ReportIsTrue`: the addresses of a service and the conditions of a route are filtered
  and flattened, and what `SelectSeq` and `FlattenSeq` return is again an induction.

TLC evaluates these three on every input of `MCConversions`.

## 5. Not modelled

* statistics, log levels, the contents of the cluster metadata and of tokens;
* metadata that conversions copy as it is: names, labels, timestamps, owners, and the
  annotations, which the comparison of the caches looks at as well;
* what the API server's schemas refuse of a configured policy, other than rule labels,
  and what they fill in (the family of Cilium's ICMP fields, for instance);
* what Cilium's policies and AWS's ClusterNetworkPolicy mean (`PolicyConversion` models
  how they are converted);
* the Falco collector: `DetectFlowCollector` never creates it;
* concurrent `Send` calls on one gRPC stream, which `Run` and the keepalive goroutine
  make under a read lock: what happens then is the library's affair;
* the size of the server's responses, which nobody receives: `windowFull` says that
  the window is full at some time, not when;
* generated API code, most of the fake server, the Helm chart, integration tests.

## 6. Plan

Done: object caches, config stream, resource stream, reconciler, their composition
and proofs; stream manager, flow cache, log syncer; then resource mirror and its
refinement, deadlock detector and health, authentication, all collectors but
Falco, conversions.

Proved since: every safety invariant of a stateful part, the refinement of
`ClusterMirror`, what the flow records are decoded to, and the meaning of the reported
policies but Cilium's and AWS's cluster policies.

Next: nothing is left that the provers can reach. What would extend the models is in
section 5: the Falco collector once `DetectFlowCollector` creates it, the statistics.
