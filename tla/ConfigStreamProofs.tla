-------------------------- MODULE ConfigStreamProofs ---------------------------
(***************************************************************************)
(* NoLostChange of the object caches, for any keys, contents and number of *)
(* writers; then ConfigCacheIsWanted for any number of sessions of the     *)
(* config stream, which writes one of the caches, and any overlap of them. *)
(* The lemmas speak of ConfigStep alone, so that the proofs about          *)
(* PolicySync can use them.                                                *)
(***************************************************************************)
EXTENDS ConfigStream, ChangeFeed, TLAPS

--------------------------------------------------------------------------------
(* What the caches promise to their consumer. *)

\* A writer's cache is one of the two.
LEMMA CacheOfType == \A w \in Writers : CacheOf(w) \in Caches
BY DEF CacheOf, Caches

\* What a note names are keys.
LEMMA NamedType == \A n \in Notes : Named(n) \subseteq Keys
BY DEF Named, Notes

\* FeedTypeOK holds of ObjectCache's calls and of its consumer.
THEOREM FeedTypeCorrect == FeedSpec => []FeedTypeOK
<1>1. FeedInit => FeedTypeOK
  BY DEF FeedInit, NewObjectCache, FeedTypeOK, CacheTypeOK, Contents, Objects,
         Empty, Notes
<1>2. FeedTypeOK /\ [FeedNext]_feedVars => FeedTypeOK'
  <2> SUFFICES ASSUME FeedTypeOK, [FeedNext]_feedVars
               PROVE  FeedTypeOK'
    OBVIOUS
  <2> USE CacheOfType DEF FeedTypeOK, CacheTypeOK
  <2>1. ASSUME NEW w \in Writers, WriterCalls(w)
        PROVE  FeedTypeOK'
    <3>1. CASE \E new \in Contents : ReplaceAll(w, new)
      BY <2>1, <3>1 DEF WriterCalls, ReplaceAll, SwapIn, Notes
    <3>2. CASE \E k \in Keys, v \in Values : Insert(w, k, v)
      BY <2>1, <3>2 DEF WriterCalls, Insert, Store, Notes, Contents, Objects
    <3>3. CASE \E k \in Keys : Delete(w, k)
      BY <2>1, <3>3 DEF WriterCalls, Delete, Store, Notes, Contents, Objects
    <3>4. CASE SendNote(w)
      BY <2>1, <3>4 DEF WriterCalls, SendNote
    <3>5. CASE DrainNote(w)
      BY <2>1, <3>5 DEF WriterCalls, DrainNote
    <3>6. CASE Cancel(w)
      BY <2>1, <3>6 DEF WriterCalls, Cancel
    <3> QED
      BY <2>1, <3>1, <3>2, <3>3, <3>4, <3>5, <3>6 DEF WriterCalls
  <2>2. ASSUME NEW w \in Writers, WriterFails(w)
        PROVE  FeedTypeOK'
    <3>1. CASE \E new \in Contents : ReplaceAllFails(w, new)
      BY <2>2, <3>1 DEF WriterFails, ReplaceAllFails, SwapIn, GiveUpNote,
                        Named, Notes
    <3>2. CASE GiveUpNote(w)
      <4>1. dropped' \in [Caches -> SUBSET Keys]
        BY <2>2, <3>2, NamedType DEF WriterFails, GiveUpNote
      <4> QED
        BY <2>2, <3>2, <4>1 DEF WriterFails, GiveUpNote, ReplaceAllFails, SwapIn
    <3> QED
      BY <2>2, <3>1, <3>2 DEF WriterFails
  <2>3. ASSUME NEW c \in Caches, ConsumerTakes(c)
        PROVE  FeedTypeOK'
    BY <2>3, NamedType DEF ConsumerTakes, TakeNote
  <2>4. ASSUME NEW c \in Caches, NEW k \in Keys, ConsumerLooks(c, k)
        PROVE  FeedTypeOK'
    BY <2>4 DEF ConsumerLooks, Get, Contents, cacheVars
  <2>5. CASE UNCHANGED feedVars
    BY <2>5 DEF feedVars
  <2> QED
    BY <2>1, <2>2, <2>3, <2>4, <2>5 DEF FeedNext
<1> QED
  BY <1>1, <1>2, PTL DEF FeedSpec

\* No change of a cache goes unnoticed by the reconciler unless the caller
\* that made it was cancelled: ReplaceAll may throw away other writers' notes
\* because it still holds one that names every key.
THEOREM NoLostChangeHolds == FeedSpec => []NoLostChange
<1>1. FeedInit => NoLostChange
  BY DEF FeedInit, NoLostChange
<1>2. FeedTypeOK /\ NoLostChange /\ [FeedNext]_feedVars => NoLostChange'
  <2> SUFFICES ASSUME FeedTypeOK, NoLostChange, [FeedNext]_feedVars,
                      NEW c \in Caches, NEW k \in Keys,
                      objects'[c][k] # seen'[c][k]
               PROVE  LookIsComing(c, k)' \/ k \in dropped'[c]
    BY DEF NoLostChange
  <2> USE CacheAssumption, CacheOfType DEF FeedTypeOK, CacheTypeOK
  <2>0. objects[c][k] # seen[c][k] => LookIsComing(c, k) \/ k \in dropped[c]
    BY DEF NoLostChange
  <2>1. ASSUME NEW w \in Writers, WriterCalls(w)
        PROVE  LookIsComing(c, k)' \/ k \in dropped'[c]
    <3>1. CASE \E new \in Contents : ReplaceAll(w, new)
      <4>1. CASE CacheOf(w) = c
        BY <2>1, <3>1, <4>1 DEF WriterCalls, ReplaceAll, SwapIn, LookIsComing
      <4>2. CASE CacheOf(w) # c
        BY <2>0, <2>1, <3>1, <4>2
           DEF WriterCalls, ReplaceAll, SwapIn, LookIsComing
      <4> QED
        BY <4>1, <4>2
    <3>2. CASE \E l \in Keys, v \in Objects : Store(w, l, v)
      <4> PICK l \in Keys, v \in Objects : Store(w, l, v)
        BY <3>2
      <4>1. CASE CacheOf(w) = c /\ l = k
        BY <2>0, <2>1, <4>1
           DEF WriterCalls, Store, LookIsComing, Contents, Objects, Notes
      <4>2. CASE ~(CacheOf(w) = c /\ l = k)
        <5>1. objects'[c][k] = objects[c][k]
          BY <4>2 DEF Store, Contents
        <5>2. \A u \in Writers : notifying[u] # Nothing => notifying'[u] = notifying[u]
          BY DEF Store
        <5> QED
          BY <2>0, <2>1, <5>1, <5>2 DEF WriterCalls, Store, LookIsComing
      <4> QED
        BY <4>1, <4>2
    <3>3. CASE SendNote(w)
      BY <2>0, <2>1, <3>3 DEF WriterCalls, SendNote, LookIsComing
    <3>4. CASE DrainNote(w)
      BY <2>0, <2>1, <3>4 DEF WriterCalls, DrainNote, LookIsComing
    <3>5. CASE Cancel(w)
      BY <2>0, <2>1, <3>5 DEF WriterCalls, Cancel, LookIsComing
    <3> QED
      BY <2>1, <3>1, <3>2, <3>3, <3>4, <3>5
         DEF WriterCalls, Insert, Delete, Objects
  <2>2. ASSUME NEW w \in Writers, WriterFails(w)
        PROVE  LookIsComing(c, k)' \/ k \in dropped'[c]
    <3>1. CASE \E new \in Contents : ReplaceAllFails(w, new)
      <4>1. ASSUME dropped' = [dropped EXCEPT ![CacheOf(w)] = Keys]
            PROVE  LookIsComing(c, k)' \/ k \in dropped'[c]
        BY <2>0, <2>2, <3>1, <4>1
           DEF WriterFails, ReplaceAllFails, SwapIn, LookIsComing
      <4>2. notifying[w] = Nothing
        BY <3>1 DEF ReplaceAllFails, SwapIn
      <4> QED
        BY <2>2, <4>1, <4>2 DEF WriterFails, GiveUpNote
    <3>2. CASE GiveUpNote(w)
      <4>1. dropped' = [dropped EXCEPT ![CacheOf(w)] = @ \cup Named(notifying[w])]
        BY <2>2, <3>2 DEF WriterFails, GiveUpNote, ReplaceAllFails, SwapIn
      <4>2. \A u \in Writers : u # w => notifying'[u] = notifying[u]
        BY <3>2 DEF GiveUpNote
      <4>3. CASE CacheOf(w) = c /\ notifying[w] \in {k, SnapshotReplaced}
        BY <4>1, <4>3 DEF Named
      <4>4. CASE ~(CacheOf(w) = c /\ notifying[w] \in {k, SnapshotReplaced})
        BY <2>0, <2>2, <3>2, <4>1, <4>2, <4>4
           DEF WriterFails, GiveUpNote, LookIsComing
      <4> QED
        BY <4>3, <4>4
    <3> QED
      BY <2>2, <3>1, <3>2 DEF WriterFails
  <2>3. ASSUME NEW d \in Caches, ConsumerTakes(d)
        PROVE  LookIsComing(c, k)' \/ k \in dropped'[c]
    BY <2>0, <2>3 DEF ConsumerTakes, TakeNote, LookIsComing, Named
  <2>4. ASSUME NEW d \in Caches, NEW l \in Keys, ConsumerLooks(d, l)
        PROVE  LookIsComing(c, k)' \/ k \in dropped'[c]
    <3>1. ~(d = c /\ l = k)
      BY <2>4 DEF ConsumerLooks, Get, cacheVars, Contents
    <3>2. objects[c][k] # seen[c][k]
      BY <2>4, <3>1 DEF ConsumerLooks, Get, cacheVars, Contents
    <3> QED
      BY <2>0, <2>4, <3>1, <3>2 DEF ConsumerLooks, LookIsComing, cacheVars
  <2>5. CASE UNCHANGED feedVars
    BY <2>0, <2>5 DEF feedVars, LookIsComing
  <2> QED
    BY <2>1, <2>2, <2>3, <2>4, <2>5 DEF FeedNext
<1> QED
  BY <1>1, <1>2, FeedTypeCorrect, PTL DEF FeedSpec

--------------------------------------------------------------------------------
(* The config stream. *)

\* A config session writes the config cache.
LEMMA ConfigWriterType ==
    \A s \in ConfigWriters : s \in Writers /\ CacheOf(s) = "config"
BY DEF Writers, CacheOf

\* The empty map, and the messages, have their types.
LEMMA EmptyType == Empty \in Contents
BY DEF Empty, Contents, Objects

\* What CloudSecure may send is a message.
LEMMA MessageTypes ==
    /\ NoMessage \in Messages /\ SnapshotComplete \in Messages
    /\ UnknownMessage \in Messages
    /\ \A k \in Keys, obj \in Objects :
          Msg("data", k, obj) \in Messages /\ Msg("mutation", k, obj) \in Messages
BY DEF Msg, Messages

\* A message with a payload names a key.
LEMMA PayloadType ==
    \A m \in Messages :
        m.type \in {"data", "mutation"} => m.key \in Keys /\ m.obj \in Objects
BY DEF Messages, NoMessage, SnapshotComplete, UnknownMessage, Msg

\* Sequences: their elements, and what Head and Tail leave of them.
LEMMA ElementType ==
    ASSUME NEW S, NEW q \in Seq(S)
    PROVE  \A i \in 1..Len(q) : q[i] \in S
OBVIOUS

\* The elements of a sequence without its first.
LEMMA HeadTail ==
    ASSUME NEW S, NEW q \in Seq(S), q # << >>
    PROVE  /\ 1 \in 1..Len(q) /\ Head(q) = q[1]
           /\ \A i \in 1..Len(Tail(q)) :
                 i + 1 \in 1..Len(q) /\ Tail(q)[i] = q[i + 1]
<1>1. Len(q) \in Nat /\ Len(q) > 0 /\ Len(Tail(q)) = Len(q) - 1
  OBVIOUS
<1>2. \A i \in 1..Len(Tail(q)) : Tail(q)[i] = q[i + 1]
  BY <1>1
<1> QED
  BY <1>1, <1>2

\* The cache calls of a config session keep the caches typed.
LEMMA ReplaceType ==
    ASSUME CacheTypeOK, NEW w \in Writers, NEW new \in Contents,
           ReplaceAll(w, new) \/ ReplaceAllFails(w, new)
    PROVE  CacheTypeOK'
BY DEF CacheTypeOK, ReplaceAll, ReplaceAllFails, SwapIn, Notes, Caches, CacheOf

\* Insert and Delete keep the types of the caches.
LEMMA StoreType ==
    ASSUME CacheTypeOK, NEW w \in Writers, NEW k \in Keys, NEW v \in Objects,
           Store(w, k, v)
    PROVE  CacheTypeOK'
BY DEF CacheTypeOK, Store, Notes, Caches, CacheOf, Contents

\* The notification and the cancellation of a writer keep them.
LEMMA NoteType ==
    ASSUME CacheTypeOK, NEW w \in Writers,
           SendNote(w) \/ DrainNote(w) \/ GiveUpNote(w) \/ Cancel(w)
    PROVE  CacheTypeOK'
BY DEF CacheTypeOK, SendNote, DrainNote, GiveUpNote, Cancel, Caches, CacheOf

\* So does the consumer that takes a note.
LEMMA TakeNoteType ==
    ASSUME CacheTypeOK, NEW c \in Caches, TakeNote(c)
    PROVE  CacheTypeOK'
BY DEF CacheTypeOK, TakeNote

\* A step that leaves the caches alone keeps their types.
LEMMA SameCacheType == CacheTypeOK /\ UNCHANGED cacheVars => CacheTypeOK'
BY DEF CacheTypeOK, cacheVars

\* Every step of the config stream keeps the types.
LEMMA ConfigTypeStep == ConfigTypeOK /\ ConfigStep => ConfigTypeOK'
<1> SUFFICES ASSUME ConfigTypeOK, ConfigStep PROVE ConfigTypeOK'
  OBVIOUS
<1> USE ConfigWriterType, EmptyType, MessageTypes DEF ConfigTypeOK
<1>1. ASSUME NEW k \in Keys, NEW obj \in Objects, CloudSecureEdits(k, obj)
      PROVE  ConfigTypeOK'
  <2>1. [key |-> k, obj |-> obj] \in Changes
    BY DEF Changes
  <2>2. mutations' \in [ConfigWriters -> Seq(Changes)]
    BY <1>1, <2>1 DEF CloudSecureEdits
  <2> QED
    BY <1>1, <2>2, SameCacheType DEF CloudSecureEdits, Contents
<1>2. ASSUME NEW s \in ConfigWriters, OpenConfigStream(s)
      PROVE  ConfigTypeOK'
  BY <1>2, SameCacheType DEF OpenConfigStream
<1>3. ASSUME NEW s \in ConfigWriters, Recv(s)
      PROVE  ConfigTypeOK'
  <2>1. CacheTypeOK'
    BY <1>3, SameCacheType DEF Recv
  <2>2. held' \in [ConfigWriters -> Messages]
    <3>1. mutations[s] # << >> => Head(mutations[s]) \in Changes
      OBVIOUS
    <3> QED
      BY <1>3, <3>1 DEF Recv, Contents, Changes
  <2>3. unsent' \in [ConfigWriters -> Contents]
    <3>1. \A k \in Keys :
             [unsent EXCEPT ![s][k] = NoObject] \in [ConfigWriters -> Contents]
      BY DEF Contents, Objects
    <3> QED
      BY <1>3, <3>1 DEF Recv
  <2>4. mutations' \in [ConfigWriters -> Seq(Changes)]
    <3>1. mutations[s] # << >> => Tail(mutations[s]) \in Seq(Changes)
      OBVIOUS
    <3> QED
      BY <1>3, <3>1 DEF Recv
  <2> QED
    BY <1>3, <2>1, <2>2, <2>3, <2>4 DEF Recv
<1>4. ASSUME NEW s \in ConfigWriters, RunReturns(s), CacheTypeOK'
      PROVE  ConfigTypeOK'
  BY <1>4 DEF RunReturns
<1>5. ASSUME NEW s \in ConfigWriters, HandleConfigUpdate(s)
      PROVE  ConfigTypeOK'
  <2>1. CASE HandleResourceData(s)
    <3>1. held[s].key \in Keys /\ held[s].obj \in Objects
      BY <2>1, PayloadType DEF HandleResourceData, Handling
    <3> QED
      BY <2>1, <3>1, SameCacheType DEF HandleResourceData, Handled, Contents
  <2>2. CASE HandleSnapshotComplete(s)
    <3>1. CacheTypeOK'
      BY <2>2, ReplaceType DEF HandleSnapshotComplete
    <3> QED
      BY <2>2, <3>1, <1>4 DEF HandleSnapshotComplete, Handled
  <2>3. CASE HandleResourceMutation(s)
    <3>0. held[s].key \in Keys /\ held[s].obj \in Objects /\ NoObject \in Objects
      BY <2>3, PayloadType DEF HandleResourceMutation, Handling, Objects
    <3>1. CacheTypeOK'
      BY <2>3, <3>0, StoreType, SameCacheType
         DEF HandleResourceMutation, Insert, Delete
    <3> QED
      BY <2>3, <3>1 DEF HandleResourceMutation, Handled
  <2>4. CASE RefuseMessage(s)
    BY <2>4, <1>4, SameCacheType DEF RefuseMessage
  <2> QED
    BY <1>5, <2>1, <2>2, <2>3, <2>4 DEF HandleConfigUpdate
<1>6. ASSUME NEW s \in ConfigWriters, NotifyConfig(s)
      PROVE  ConfigTypeOK'
  <2>1. CacheTypeOK'
    BY <1>6, NoteType DEF NotifyConfig
  <2> QED
    BY <1>6, <2>1, <1>4 DEF NotifyConfig, streamVars
<1>7. ASSUME NEW s \in ConfigWriters, ConfigStreamBreaks(s)
      PROVE  ConfigTypeOK'
  BY <1>7, <1>4, SameCacheType DEF ConfigStreamBreaks
<1>8. ASSUME NEW s \in ConfigWriters, CancelConfigStream(s)
      PROVE  ConfigTypeOK'
  BY <1>8, NoteType DEF CancelConfigStream, streamVars
<1>9. ASSUME NEW s \in ConfigWriters, CloudSecureMisbehaves(s)
      PROVE  ConfigTypeOK'
  <2>1. OutOfPhase(s) \subseteq Messages
    BY DEF OutOfPhase, Objects
  <2> QED
    BY <1>9, <2>1, SameCacheType DEF CloudSecureMisbehaves
<1> QED
  BY <1>1, <1>2, <1>3, <1>5, <1>6, <1>7, <1>8, <1>9
     DEF ConfigStep, ConfigSessionStep, ConfigClientStep

--------------------------------------------------------------------------------
\* Nothing is forgotten of what CloudSecure wanted.
WantedGrows == \A k \in Keys : wanted[k] \subseteq wanted'[k]

\* What a step of somebody else leaves alone of session u, and of the cache.
SameSession(u) ==
    /\ session'[u] = session[u] /\ unsent'[u] = unsent[u]
    /\ finished'[u] = finished[u] /\ mutations'[u] = mutations[u]
    /\ held'[u] = held[u] /\ pending'[u] = pending[u]
    /\ complete'[u] = complete[u]

SameConfigCache ==
    objects'["config"] = objects["config"] /\ ready'["config"] = ready["config"]

\* A session that is left alone stays sound.
LEMMA SessionFrame ==
    ASSUME ConfigTypeOK, WantedGrows, NEW u \in ConfigWriters, SessionOK(u),
           SameSession(u)
    PROVE  SessionOK(u)'
<1>1. Fresh(u)' = Fresh(u)
  BY DEF SameSession, Fresh
<1>2. \A k \in Supported : Collected(u, k)' = Collected(u, k)
  BY DEF SameSession, Collected
<1>3. Supported \subseteq Keys
  BY ObjectsAssumption
<1>4. SnapshotUnderWay(u) => SnapshotUnderWay(u)'
  BY <1>2, <1>3 DEF SameSession, SnapshotUnderWay, WantedGrows
<1>5. SnapshotArrived(u) => SnapshotArrived(u)'
  BY <1>3 DEF SameSession, SnapshotArrived, WantedGrows
<1>6. held[u].type = "mutation" => held[u].key \in Keys
  BY PayloadType DEF ConfigTypeOK
<1>7. \A i \in 1..Len(mutations[u]) : mutations[u][i].key \in Keys
  <2>1. mutations[u] \in Seq(Changes)
    BY DEF ConfigTypeOK
  <2>2. \A i \in 1..Len(mutations[u]) : mutations[u][i] \in Changes
    BY <2>1, ElementType
  <2> QED
    BY <2>2 DEF Changes
<1> QED
  BY <1>1, <1>4, <1>5, <1>6, <1>7 DEF SameSession, SessionOK, WantedGrows

\* A session that returned, or never ran, is sound.
LEMMA SessionOver ==
    ASSUME ConfigTypeOK, NEW u \in ConfigWriters, RunReturns(u)
    PROVE  SessionOK(u)'
BY DEF ConfigTypeOK, RunReturns, SessionOK, Fresh, NoMessage, Msg, Empty

\* A cache that is left alone stays wanted.
LEMMA CacheFrame ==
    ASSUME WantedGrows, ConfigCacheIsWanted, UnsupportedNeverCached,
           SameConfigCache
    PROVE  ConfigCacheIsWanted' /\ UnsupportedNeverCached'
BY ObjectsAssumption
   DEF WantedGrows, ConfigCacheIsWanted, UnsupportedNeverCached, SameConfigCache

\* The invariant survives a step that leaves the config stream alone: in
\* PolicySync, every step of the other parts.
LEMMA ConfigInvOthers ==
    ASSUME ConfigIInv, ConfigTypeOK', UNCHANGED streamVars, SameConfigCache
    PROVE  ConfigIInv'
<1>1. WantedGrows
  BY DEF WantedGrows, streamVars
<1>2. \A u \in ConfigWriters : SameSession(u)
  BY DEF SameSession, streamVars
<1> QED
  BY <1>1, <1>2, SessionFrame, CacheFrame DEF ConfigIInv, streamVars

\* The invariant survives every step of the config stream.
LEMMA ConfigInvStep == ConfigIInv /\ ConfigStep => ConfigIInv'
<1> SUFFICES ASSUME ConfigIInv, ConfigStep PROVE ConfigIInv'
  OBVIOUS
<1>0. ConfigTypeOK /\ ConfigTypeOK'
  BY ConfigTypeStep DEF ConfigIInv
<1>a. WantedGrows /\ \A k \in Keys : desired'[k] \in wanted'[k]
  <2>1. CASE \E k \in Keys, obj \in Objects : CloudSecureEdits(k, obj)
    BY <1>0, <2>1 DEF ConfigIInv, WantedGrows, CloudSecureEdits, ConfigTypeOK,
                      Contents
  <2>2. CASE \E s \in ConfigWriters : ConfigSessionStep(s)
    <3>1. UNCHANGED <<desired, wanted>>
      BY <2>2 DEF ConfigSessionStep, ConfigClientStep, HandleConfigUpdate,
                  OpenConfigStream, Recv, HandleResourceData,
                  HandleSnapshotComplete, HandleResourceMutation, RefuseMessage,
                  NotifyConfig, ConfigStreamBreaks, CancelConfigStream,
                  CloudSecureMisbehaves, RunReturns, streamVars
    <3> QED
      BY <3>1 DEF ConfigIInv, WantedGrows
  <2> QED
    BY <2>1, <2>2 DEF ConfigStep
<1> SUFFICES (\A u \in ConfigWriters : SessionOK(u)')
                /\ ConfigCacheIsWanted' /\ UnsupportedNeverCached'
  BY <1>0, <1>a DEF ConfigIInv
<1> USE ConfigWriterType, ObjectsAssumption
\* The goal, for a step of session s that leaves the others alone.
<1>b. ASSUME NEW s \in ConfigWriters, SessionOK(s)',
             \A u \in ConfigWriters \ {s} : SameSession(u)
      PROVE  \A u \in ConfigWriters : SessionOK(u)'
  BY <1>0, <1>a, <1>b, SessionFrame DEF ConfigIInv
<1>c. ASSUME NEW s \in ConfigWriters, RunReturns(s)
      PROVE  \A u \in ConfigWriters : SessionOK(u)'
  BY <1>0, <1>b, <1>c, SessionOver DEF RunReturns, SameSession, ConfigTypeOK
<1>d. UNCHANGED cacheVars => ConfigCacheIsWanted' /\ UnsupportedNeverCached'
  BY <1>a, CacheFrame DEF ConfigIInv, SameConfigCache, cacheVars
<1>1. ASSUME NEW k \in Keys, NEW obj \in Objects, CloudSecureEdits(k, obj)
      PROVE  (\A u \in ConfigWriters : SessionOK(u)')
                /\ ConfigCacheIsWanted' /\ UnsupportedNeverCached'
  <2>1. ASSUME NEW u \in ConfigWriters PROVE SessionOK(u)'
    <3>0. SessionOK(u)
      BY DEF ConfigIInv
    <3>1. CASE session[u] # "open"
      BY <1>0, <1>1, <1>a, <3>0, <3>1, SessionFrame
         DEF CloudSecureEdits, SameSession, ConfigTypeOK
    <3>2. CASE session[u] = "open"
      <4>1. mutations'[u] = Append(mutations[u], [key |-> k, obj |-> obj])
        BY <1>1, <3>2 DEF CloudSecureEdits
      <4>2. \A i \in 1..Len(mutations'[u]) :
               mutations'[u][i].obj \in wanted'[mutations'[u][i].key]
        <5> TAKE i \in 1..Len(mutations'[u])
        <5>1. CASE i \in 1..Len(mutations[u])
          <6>1. mutations'[u][i] = mutations[u][i] /\ mutations[u][i] \in Changes
            BY <1>0, <4>1, <5>1 DEF ConfigTypeOK
          <6>2. mutations[u][i].obj \in wanted[mutations[u][i].key]
            BY <3>0, <5>1 DEF SessionOK
          <6> QED
            BY <1>a, <6>1, <6>2 DEF WantedGrows, Changes
        <5>2. CASE i = Len(mutations[u]) + 1
          <6>1. mutations'[u][i] = [key |-> k, obj |-> obj]
            BY <1>0, <4>1, <5>2 DEF ConfigTypeOK
          <6>2. obj \in wanted'[k]
            BY <1>0, <1>1 DEF CloudSecureEdits, ConfigTypeOK
          <6> QED
            BY <6>1, <6>2
        <5> QED
          BY <1>0, <4>1, <5>1, <5>2 DEF ConfigTypeOK
      <4>3. UNCHANGED <<session, unsent, finished, held, pending, complete>>
        BY <1>1 DEF CloudSecureEdits
      <4>4. SnapshotUnderWay(u) => SnapshotUnderWay(u)'
        BY <1>a, <4>3 DEF SnapshotUnderWay, Collected, WantedGrows
      <4>5. SnapshotArrived(u) => SnapshotArrived(u)'
        BY <1>a, <4>3 DEF SnapshotArrived, WantedGrows
      <4>6. held[u].type = "mutation" => held[u].key \in Keys
        BY <1>0, PayloadType DEF ConfigTypeOK
      <4> QED
        BY <1>a, <3>0, <3>2, <4>2, <4>3, <4>4, <4>5, <4>6
           DEF SessionOK, WantedGrows
    <3> QED
      BY <3>1, <3>2
  <2> QED
    BY <1>1, <1>d, <2>1 DEF CloudSecureEdits
<1>2. ASSUME NEW s \in ConfigWriters, OpenConfigStream(s)
      PROVE  (\A u \in ConfigWriters : SessionOK(u)')
                /\ ConfigCacheIsWanted' /\ UnsupportedNeverCached'
  <2>1. \A u \in ConfigWriters \ {s} : SameSession(u)
    BY <1>0, <1>2 DEF OpenConfigStream, SameSession, ConfigTypeOK
  <2>2. Fresh(s) /\ SessionOK(s)
    BY <1>2 DEF OpenConfigStream, ConfigIInv, SessionOK
  <2>3. \A k \in Supported : Collected(s, k)' = desired[k]
    BY <1>0, <1>2, <2>2
       DEF OpenConfigStream, Collected, Fresh, Empty, NoMessage, Msg, ConfigTypeOK
  <2>4. SnapshotUnderWay(s)'
    BY <1>2, <1>a, <2>2, <2>3
       DEF OpenConfigStream, SnapshotUnderWay, Fresh, NoMessage, Msg, ConfigIInv
  <2>5. SessionOK(s)'
    BY <1>0, <1>2, <2>2, <2>4 DEF OpenConfigStream, SessionOK, Fresh, ConfigTypeOK
  <2> QED
    BY <1>2, <1>b, <1>d, <2>1, <2>5 DEF OpenConfigStream
<1>3. ASSUME NEW s \in ConfigWriters, Recv(s)
      PROVE  (\A u \in ConfigWriters : SessionOK(u)')
                /\ ConfigCacheIsWanted' /\ UnsupportedNeverCached'
  <2>1. \A u \in ConfigWriters \ {s} : SameSession(u)
    BY <1>0, <1>3 DEF Recv, SameSession, ConfigTypeOK
  <2>2. SessionOK(s) /\ session[s] = "open" /\ held[s] = NoMessage
    BY <1>3 DEF Recv, Receiving, ConfigIInv
  <2>3. UNCHANGED <<wanted, session, pending, complete>>
    BY <1>3 DEF Recv
  <2>4. ASSUME \E k \in Keys :
                 /\ unsent[s][k] # NoObject
                 /\ held' = [held EXCEPT ![s] = Msg("data", k, unsent[s][k])]
                 /\ unsent' = [unsent EXCEPT ![s][k] = NoObject]
                 /\ UNCHANGED <<finished, mutations>>
        PROVE  SessionOK(s)'
    <3> PICK k \in Keys :
               /\ unsent[s][k] # NoObject
               /\ held' = [held EXCEPT ![s] = Msg("data", k, unsent[s][k])]
               /\ unsent' = [unsent EXCEPT ![s][k] = NoObject]
               /\ UNCHANGED <<finished, mutations>>
      BY <2>4
    <3>1. held'[s].type = "data" /\ held'[s].key = k /\ held'[s].obj = unsent[s][k]
      BY <1>0 DEF ConfigTypeOK, Msg
    <3>2. unsent'[s] = [unsent[s] EXCEPT ![k] = NoObject]
      BY <1>0 DEF ConfigTypeOK
    <3>3. \A l \in Supported : Collected(s, l)' = Collected(s, l)
      BY <1>0, <2>2, <2>3, <3>1, <3>2
         DEF Collected, ConfigTypeOK, Contents, NoMessage, Msg
    <3>4. SnapshotUnderWay(s) => SnapshotUnderWay(s)'
      BY <2>3, <3>1, <3>3 DEF SnapshotUnderWay
    <3>5. ~(finished[s] /\ ~complete[s])
      BY <2>2 DEF SessionOK, SnapshotArrived, NoMessage, Msg
    <3>6. finished' = finished /\ mutations' = mutations
      OBVIOUS
    <3> QED
      BY <2>2, <2>3, <3>1, <3>4, <3>5, <3>6 DEF SessionOK
  <2>5. ASSUME /\ unsent[s] = Empty /\ ~finished[s]
               /\ held' = [held EXCEPT ![s] = SnapshotComplete]
               /\ finished' = [finished EXCEPT ![s] = TRUE]
               /\ UNCHANGED <<unsent, mutations>>
        PROVE  SessionOK(s)'
    <3>1. SnapshotUnderWay(s)
      BY <2>2, <2>5 DEF SessionOK
    <3>2. \A k \in Supported : Collected(s, k) = pending[s][k]
      BY <2>2, <2>5 DEF Collected, Empty, NoMessage, Msg
    <3>3. held'[s].type = "complete" /\ finished'[s]
      BY <1>0, <2>5 DEF ConfigTypeOK, SnapshotComplete, Msg
    <3>4. SnapshotArrived(s)'
      BY <2>3, <3>1, <3>2, <3>3 DEF SnapshotArrived, SnapshotUnderWay
    <3> QED
      BY <2>2, <2>3, <2>5, <3>3, <3>4 DEF SessionOK
  <2>6. ASSUME /\ finished[s] /\ mutations[s] # << >>
               /\ held' = [held EXCEPT ![s] =
                     Msg("mutation", Head(mutations[s]).key, Head(mutations[s]).obj)]
               /\ mutations' = [mutations EXCEPT ![s] = Tail(@)]
               /\ UNCHANGED <<unsent, finished>>
        PROVE  SessionOK(s)'
    <3>1. complete[s]
      BY <2>2, <2>6 DEF SessionOK, SnapshotArrived, NoMessage, Msg
    <3>2. mutations'[s] = Tail(mutations[s]) /\ mutations[s] \in Seq(Changes)
      BY <1>0, <2>6 DEF ConfigTypeOK
    <3>3. \A i \in 1..Len(mutations'[s]) : mutations'[s][i] = mutations[s][i + 1]
      BY <2>6, <3>2, HeadTail
    <3>4. \A i \in 1..Len(mutations'[s]) : i + 1 \in 1..Len(mutations[s])
      BY <2>6, <3>2, HeadTail
    <3>5. Head(mutations[s]) = mutations[s][1] /\ 1 \in 1..Len(mutations[s])
      BY <2>6, <3>2, HeadTail
    <3>6. held'[s].type = "mutation" /\ held'[s].key = mutations[s][1].key
             /\ held'[s].obj = mutations[s][1].obj
      BY <1>0, <2>6, <3>5 DEF ConfigTypeOK, Msg
    <3>7. \A i \in 1..Len(mutations[s]) :
             mutations[s][i].obj \in wanted[mutations[s][i].key]
      BY <2>2 DEF SessionOK
    <3>8. held'[s].obj \in wanted'[held'[s].key]
      BY <2>3, <3>5, <3>6, <3>7
    <3>9. \A i \in 1..Len(mutations'[s]) :
             mutations'[s][i].obj \in wanted'[mutations'[s][i].key]
      BY <2>3, <3>3, <3>4, <3>7
    <3> QED
      BY <2>2, <2>3, <2>6, <3>1, <3>6, <3>8, <3>9 DEF SessionOK
  <2>7. SessionOK(s)'
    BY <1>3, <2>4, <2>5, <2>6 DEF Recv
  <2> QED
    BY <1>3, <1>b, <1>d, <2>1, <2>7 DEF Recv
<1>4. ASSUME NEW s \in ConfigWriters, HandleResourceData(s)
      PROVE  (\A u \in ConfigWriters : SessionOK(u)')
                /\ ConfigCacheIsWanted' /\ UnsupportedNeverCached'
  <2>1. \A u \in ConfigWriters \ {s} : SameSession(u)
    BY <1>0, <1>4 DEF HandleResourceData, Handled, SameSession, ConfigTypeOK
  <2>2. SessionOK(s) /\ session[s] = "open" /\ ~complete[s] /\ held[s].type = "data"
    BY <1>4 DEF HandleResourceData, Handling, ConfigIInv
  <2>3. UNCHANGED <<wanted, session, unsent, finished, mutations, complete>>
    BY <1>4 DEF HandleResourceData
  <2>4. held'[s] = NoMessage
    BY <1>0, <1>4 DEF HandleResourceData, Handled, ConfigTypeOK
  <2>5. \A k \in Keys : pending'[s][k] =
            IF k \in Supported /\ held[s].key = k THEN held[s].obj ELSE pending[s][k]
    BY <1>0, <1>4 DEF HandleResourceData, ConfigTypeOK, Contents
  <2>6. \A k \in Supported : Collected(s, k)' = Collected(s, k)
    BY <2>2, <2>3, <2>4, <2>5 DEF Collected, NoMessage, Msg
  <2>7. SnapshotUnderWay(s) => SnapshotUnderWay(s)'
    BY <2>3, <2>4, <2>6 DEF SnapshotUnderWay, NoMessage, Msg
  <2>8. ~finished[s]
    BY <2>2 DEF SessionOK, SnapshotArrived
  <2>9. SessionOK(s)'
    BY <2>2, <2>3, <2>4, <2>5, <2>7, <2>8 DEF SessionOK, NoMessage, Msg
  <2> QED
    BY <1>4, <1>b, <1>d, <2>1, <2>9 DEF HandleResourceData
<1>5. ASSUME NEW s \in ConfigWriters, HandleSnapshotComplete(s)
      PROVE  (\A u \in ConfigWriters : SessionOK(u)')
                /\ ConfigCacheIsWanted' /\ UnsupportedNeverCached'
  <2>1. SessionOK(s) /\ session[s] = "open" /\ ~complete[s]
           /\ held[s].type = "complete"
    BY <1>5 DEF HandleSnapshotComplete, Handling, ConfigIInv
  <2>2. finished[s] /\ SnapshotArrived(s)
    BY <1>0, <2>1 DEF SessionOK, SnapshotUnderWay, ConfigTypeOK
  <2>3. objects'["config"] = pending[s] /\ wanted' = wanted
    BY <1>0, <1>5 DEF HandleSnapshotComplete, ReplaceAll, ReplaceAllFails, SwapIn,
                      RunReturns, ConfigTypeOK, CacheTypeOK, Caches
  <2>4. ConfigCacheIsWanted' /\ UnsupportedNeverCached'
    BY <2>1, <2>2, <2>3
       DEF SessionOK, SnapshotArrived, ConfigCacheIsWanted, UnsupportedNeverCached
  <2>5. CASE RunReturns(s)
    BY <1>c, <2>4, <2>5
  <2>6. CASE /\ complete' = [complete EXCEPT ![s] = TRUE]
             /\ pending' = [pending EXCEPT ![s] = Empty]
             /\ Handled(s)
             /\ UNCHANGED <<desired, wanted, edits, session, unsent, finished,
                            mutations>>
    <3>1. \A u \in ConfigWriters \ {s} : SameSession(u)
      BY <1>0, <2>6 DEF Handled, SameSession, ConfigTypeOK
    <3>2. held'[s] = NoMessage /\ complete'[s] /\ pending'[s] = Empty
      BY <1>0, <2>6 DEF Handled, ConfigTypeOK
    <3>3. SessionOK(s)'
      BY <2>1, <2>2, <2>6, <3>2 DEF SessionOK, NoMessage, Msg, Empty
    <3> QED
      BY <1>b, <2>4, <3>1, <3>3
  <2> QED
    BY <1>5, <2>5, <2>6 DEF HandleSnapshotComplete
<1>6. ASSUME NEW s \in ConfigWriters, HandleResourceMutation(s)
      PROVE  (\A u \in ConfigWriters : SessionOK(u)')
                /\ ConfigCacheIsWanted' /\ UnsupportedNeverCached'
  <2>1. \A u \in ConfigWriters \ {s} : SameSession(u)
    BY <1>0, <1>6 DEF HandleResourceMutation, Handled, SameSession, ConfigTypeOK
  <2>2. SessionOK(s) /\ session[s] = "open" /\ complete[s]
           /\ held[s].type = "mutation"
    BY <1>6 DEF HandleResourceMutation, Handling, ConfigIInv
  <2>3. UNCHANGED <<wanted, session, unsent, finished, mutations, pending, complete>>
    BY <1>6 DEF HandleResourceMutation
  <2>4. held'[s] = NoMessage
    BY <1>0, <1>6 DEF HandleResourceMutation, Handled, ConfigTypeOK
  <2>5. SessionOK(s)'
    <3>1. finished[s]
      BY <1>0, <2>2 DEF SessionOK, SnapshotUnderWay, ConfigTypeOK
    <3> QED
      BY <2>2, <2>3, <2>4, <3>1 DEF SessionOK, NoMessage, Msg
  <2>6. held[s].key \in Keys /\ held[s].obj \in wanted[held[s].key]
    BY <1>0, <2>2, PayloadType DEF SessionOK, ConfigTypeOK
  <2>7. CASE UNCHANGED cacheVars
    BY <1>b, <1>d, <2>1, <2>5, <2>7
  <2>8. CASE /\ Store(s, held[s].key, held[s].obj)
             /\ held[s].key \in Supported \/ held[s].obj = NoObject
    <3>1. ready' = ready
      BY <2>8 DEF Store
    <3>2. \A k \in Keys : objects'["config"][k] =
              IF k = held[s].key THEN held[s].obj ELSE objects["config"][k]
      BY <1>0, <2>6, <2>8 DEF Store, ConfigTypeOK, CacheTypeOK, Caches, Contents
    <3>3. ConfigCacheIsWanted'
      BY <2>3, <2>6, <3>1, <3>2 DEF ConfigCacheIsWanted, ConfigIInv
    <3>4. UnsupportedNeverCached'
      BY <2>8, <3>2 DEF UnsupportedNeverCached, ConfigIInv
    <3> QED
      BY <1>b, <2>1, <2>5, <3>3, <3>4
  <2> QED
    BY <1>6, <2>7, <2>8 DEF HandleResourceMutation, Insert, Delete
<1>7. ASSUME NEW s \in ConfigWriters, RefuseMessage(s) \/ ConfigStreamBreaks(s)
      PROVE  (\A u \in ConfigWriters : SessionOK(u)')
                /\ ConfigCacheIsWanted' /\ UnsupportedNeverCached'
  BY <1>7, <1>c, <1>d DEF RefuseMessage, ConfigStreamBreaks
<1>8. ASSUME NEW s \in ConfigWriters, NotifyConfig(s) \/ CancelConfigStream(s)
      PROVE  (\A u \in ConfigWriters : SessionOK(u)')
                /\ ConfigCacheIsWanted' /\ UnsupportedNeverCached'
  <2>1. SameConfigCache
    BY <1>8 DEF NotifyConfig, CancelConfigStream, SendNote, DrainNote, GiveUpNote,
                Cancel, SameConfigCache
  <2>2. ConfigCacheIsWanted' /\ UnsupportedNeverCached'
    BY <1>a, <2>1, CacheFrame DEF ConfigIInv
  <2>3. CASE UNCHANGED streamVars
    BY <1>0, <2>1, <2>3, ConfigInvOthers DEF ConfigIInv
  <2>4. CASE RunReturns(s)
    BY <1>c, <2>2, <2>4
  <2> QED
    BY <1>8, <2>3, <2>4 DEF NotifyConfig, CancelConfigStream
<1>9. ASSUME NEW s \in ConfigWriters, CloudSecureMisbehaves(s)
      PROVE  (\A u \in ConfigWriters : SessionOK(u)')
                /\ ConfigCacheIsWanted' /\ UnsupportedNeverCached'
  <2>1. \A u \in ConfigWriters \ {s} : SameSession(u)
    BY <1>0, <1>9 DEF CloudSecureMisbehaves, SameSession, ConfigTypeOK
  <2>2. SessionOK(s) /\ session[s] = "open" /\ held[s] = NoMessage
    BY <1>9 DEF CloudSecureMisbehaves, Receiving, ConfigIInv
  <2>3. UNCHANGED <<wanted, session, unsent, finished, mutations, pending, complete>>
    BY <1>9 DEF CloudSecureMisbehaves
  <2>4. /\ complete[s] => held'[s].type # "mutation"
        /\ ~complete[s] => held'[s].type \notin {"data", "complete"}
    BY <1>0, <1>9 DEF CloudSecureMisbehaves, OutOfPhase, ConfigTypeOK, Msg,
                      SnapshotComplete, UnknownMessage
  <2>5. ~complete[s] => \A k \in Supported : Collected(s, k)' = Collected(s, k)
    BY <2>2, <2>3, <2>4 DEF Collected, NoMessage, Msg
  <2>6. SnapshotUnderWay(s) => SnapshotUnderWay(s)'
    BY <2>3, <2>4, <2>5 DEF SnapshotUnderWay
  <2>7. ~(finished[s] /\ ~complete[s])
    BY <2>2 DEF SessionOK, SnapshotArrived, NoMessage, Msg
  <2>8. SessionOK(s)'
    BY <2>2, <2>3, <2>4, <2>6, <2>7 DEF SessionOK
  <2> QED
    BY <1>9, <1>b, <1>d, <2>1, <2>8 DEF CloudSecureMisbehaves
<1> QED
  BY <1>1, <1>2, <1>3, <1>4, <1>5, <1>6, <1>7, <1>8, <1>9
     DEF ConfigStep, ConfigSessionStep, ConfigClientStep, HandleConfigUpdate

--------------------------------------------------------------------------------
\* Nothing has been sent, received or cached when the operator starts.
LEMMA ConfigInvInit == NewObjectCache /\ StreamInit => ConfigIInv
<1> SUFFICES ASSUME NewObjectCache, StreamInit PROVE ConfigIInv
  OBVIOUS
<1> USE EmptyType, MessageTypes
<1>1. ConfigTypeOK
  <2>1. CacheTypeOK
    BY DEF NewObjectCache, CacheTypeOK, Notes
  <2>2. wanted \in [Keys -> SUBSET Objects]
    BY DEF StreamInit, Contents
  <2>3. << >> \in Seq(Changes)
    OBVIOUS
  <2> QED
    BY <2>1, <2>2, <2>3 DEF StreamInit, ConfigTypeOK
<1>2. \A s \in ConfigWriters : SessionOK(s)
  BY DEF StreamInit, SessionOK, Fresh, Empty, NoMessage, Msg
<1>3. ConfigCacheIsWanted /\ UnsupportedNeverCached
  BY DEF NewObjectCache, ConfigCacheIsWanted, UnsupportedNeverCached, Caches,
         Empty
<1> QED
  BY <1>1, <1>2, <1>3 DEF ConfigIInv, StreamInit

\* The reconciler's reads of the change channel touch neither map nor stream.
LEMMA ConfigInvTakes == ConfigIInv /\ ReconcilerTakes => ConfigIInv'
<1> SUFFICES ASSUME ConfigIInv, ReconcilerTakes PROVE ConfigIInv'
  OBVIOUS
<1>1. CacheTypeOK'
  BY TakeNoteType DEF ReconcilerTakes, Caches, ConfigIInv, ConfigTypeOK
<1>2. ConfigTypeOK'
  BY <1>1 DEF ReconcilerTakes, streamVars, ConfigIInv, ConfigTypeOK
<1>3. SameConfigCache
  BY DEF ReconcilerTakes, TakeNote, SameConfigCache
<1> QED
  BY <1>2, <1>3, ConfigInvOthers DEF ReconcilerTakes

\* ConfigIInv is an invariant of the config stream.
LEMMA ConfigInvAlways == ConfigSpec => []ConfigIInv
<1>1. ConfigInit => ConfigIInv
  BY ConfigInvInit DEF ConfigInit
<1>2. ConfigIInv /\ [ConfigNext]_configVars => ConfigIInv'
  <2>1. ConfigIInv /\ UNCHANGED configVars => ConfigIInv'
    <3> SUFFICES ASSUME ConfigIInv, UNCHANGED configVars PROVE ConfigIInv'
      OBVIOUS
    <3>1. UNCHANGED streamVars /\ UNCHANGED cacheVars
      BY DEF configVars, streamVars, cacheVars
    <3>2. ConfigTypeOK'
      BY <3>1, SameCacheType DEF streamVars, ConfigIInv, ConfigTypeOK
    <3> QED
      BY <3>1, <3>2, ConfigInvOthers DEF cacheVars, SameConfigCache
  <2> QED
    BY <2>1, ConfigInvStep, ConfigInvTakes DEF ConfigNext
<1> QED
  BY <1>1, <1>2, PTL DEF ConfigSpec

\* The types of the config stream's state, for every instance.
THEOREM ConfigTypeCorrect == ConfigSpec => []ConfigTypeOK
<1>1. ConfigIInv => ConfigTypeOK
  BY DEF ConfigIInv
<1> QED
  BY <1>1, ConfigInvAlways, PTL

\* For any number of sessions, breaking anywhere, overlapping or not, and any
\* behaviour of CloudSecure: once the config cache is ready it holds, for every
\* supported key, something CloudSecure wanted for that key.
THEOREM ConfigCacheAlwaysWanted == ConfigSpec => []ConfigCacheIsWanted
<1>1. ConfigIInv => ConfigCacheIsWanted
  BY DEF ConfigIInv
<1> QED
  BY <1>1, ConfigInvAlways, PTL

\* Objects of kinds the operator does not support never reach the cache.
THEOREM UnsupportedNeverReached == ConfigSpec => []UnsupportedNeverCached
<1>1. ConfigIInv => UnsupportedNeverCached
  BY DEF ConfigIInv
<1> QED
  BY <1>1, ConfigInvAlways, PTL
--------------------------------------------------------------------------------
(* Catching up, where sessions do not overlap. *)

\* What arrives for k is right after a step that changes neither the wire of s, nor
\* what is due, nor what CloudSecure wants.
LEMMA ArrivesFrame ==
    ASSUME NEW s \in ConfigWriters, NEW k \in Supported, Arrives(s, k),
           mutations'[s] = mutations[s], desired'[k] = desired[k],
           Due(s, k)' = Due(s, k)
    PROVE  Arrives(s, k)'
BY DEF Arrives, LastFor

\* Only the session that moves can be open, so the others need no care.
LEMMA OnlyOneMoves ==
    ASSUME CatchUpIInv, NEW s \in ConfigWriters,
           \A u \in ConfigWriters \ {s} : SameSession(u),
           \A u \in ConfigWriters \ {s} : session[u] # "open",
           finished'[s] => unsent'[s] = Empty,
           session'[s] = "open" => \A k \in Supported : Arrives(s, k)'
    PROVE  CatchUpIInv'
<1>1. \A u \in ConfigWriters \ {s} : session'[u] # "open"
  BY DEF SameSession
<1>2. \A u \in ConfigWriters : finished'[u] => unsent'[u] = Empty
  BY DEF SameSession, CatchUpIInv
<1> QED
  BY <1>1, <1>2, Zenon DEF CatchUpIInv, Empty

\* A session that returns leaves nothing on the wire.
LEMMA ReturnsKeepsCatchUp ==
    ASSUME CatchUpIInv, ConfigTypeOK, NEW s \in ConfigWriters, session[s] = "open", RunReturns(s)
    PROVE  CatchUpIInv'
<1>1. \A u \in ConfigWriters \ {s} : SameSession(u)
  BY DEF RunReturns, SameSession, ConfigTypeOK
<1>2. \A u \in ConfigWriters \ {s} : session[u] # "open"
  BY DEF CatchUpIInv
<1>3. session'[s] = "over" /\ finished'[s] = FALSE
  BY DEF RunReturns, ConfigTypeOK
<1> QED
  BY <1>1, <1>2, <1>3, OnlyOneMoves

\* A change of CloudSecure's mind becomes the last mutation on every open wire.
LEMMA EditKeepsCatchUp ==
    ASSUME CatchUpIInv, ConfigTypeOK, NEW k \in Keys, NEW obj \in Objects,
           CloudSecureEdits(k, obj)
    PROVE  CatchUpIInv'
<1>1. UNCHANGED <<session, unsent, finished, held, pending, complete, objects>>
  BY DEF CloudSecureEdits, cacheVars
<1>2. ASSUME NEW s \in ConfigWriters, session[s] = "open", NEW l \in Supported
      PROVE  Arrives(s, l)'
  <2>1. mutations[s] \in Seq(Changes) /\ [key |-> k, obj |-> obj] \in Changes
    BY DEF ConfigTypeOK, Changes
  <2>2. PICK m \in Seq(Changes) : m = mutations[s]
    BY <2>1
  <2>3. PICK c \in Changes : c = [key |-> k, obj |-> obj]
    BY <2>1
  <2>4. PICK n \in Nat : n = Len(m)
    OBVIOUS
  <2>5. PICK p : p = Append(m, c)
    OBVIOUS
  <2>6. mutations'[s] = p
    BY <1>2, <2>2, <2>3, <2>5 DEF CloudSecureEdits
  <2>7. /\ Len(p) = n + 1 /\ p[n + 1] = c
        /\ \A i \in 1..n : p[i] = m[i]
    BY <2>4, <2>5
  <2>8. c.key = k /\ c.obj = obj
    BY <2>3
  <2>9. desired'[l] = IF l = k THEN obj ELSE desired[l]
    BY ObjectsAssumption DEF CloudSecureEdits, ConfigTypeOK, Contents
  <2>10. Due(s, l)' = Due(s, l)
    BY <1>1 DEF Due, Collected
  <2>11. Arrives(s, l)
    BY <1>2 DEF CatchUpIInv
  <2>12. ASSUME NEW i \in 1..n + 1, p[i].key = l,
                \A j \in 1..n + 1 : j > i => p[j].key # l
         PROVE  p[i].obj = desired'[l]
    <3>1. CASE i = n + 1
      BY <2>7, <2>8, <2>9, <2>12, <3>1
    <3>2. CASE i # n + 1
      <4>1. i \in 1..n /\ n + 1 > i
        BY <3>2
      <4>2. l # k
        BY <2>7, <2>8, <2>12, <4>1
      <4>3. \A j \in 1..n : j > i => m[j].key # l
        BY <2>7, <2>12
      <4>4. m[i].key = l
        BY <2>7, <2>12, <4>1
      <4>5. m[i].obj = desired[l]
        BY <2>2, <2>4, <2>11, <4>1, <4>3, <4>4 DEF Arrives, LastFor
      <4> QED
        BY <2>7, <2>9, <4>1, <4>2, <4>5
    <3> QED
      BY <3>1, <3>2
  <2>13. ASSUME \A i \in 1..n + 1 : p[i].key # l
         PROVE  Due(s, l)' = desired'[l]
    <3>1. l # k
      BY <2>7, <2>8, <2>13
    <3>2. \A i \in 1..n : m[i].key # l
      BY <2>7, <2>13
    <3> QED
      BY <2>2, <2>4, <2>9, <2>10, <2>11, <3>1, <3>2 DEF Arrives
  <2> QED
    BY <2>6, <2>7, <2>12, <2>13 DEF Arrives, LastFor
<1>3. \A s, u \in ConfigWriters : session'[s] = "open" /\ session'[u] = "open" => s = u
  BY <1>1 DEF CatchUpIInv
<1>4. \A s \in ConfigWriters : finished'[s] => unsent'[s] = Empty
  BY <1>1 DEF CatchUpIInv
<1> QED
  BY <1>1, <1>2, <1>3, <1>4, Zenon DEF CatchUpIInv, Empty

\* Opening a session puts what CloudSecure wants on its wire.
LEMMA OpenKeepsCatchUp ==
    ASSUME CatchUpIInv, ConfigIInv, Overlap # "all", NEW s \in ConfigWriters,
           OpenConfigStream(s)
    PROVE  CatchUpIInv'
<1>0. ConfigTypeOK /\ Supported \subseteq Keys
  BY ObjectsAssumption DEF ConfigIInv
<1>1. \A u \in ConfigWriters \ {s} : SameSession(u)
  BY <1>0 DEF OpenConfigStream, SameSession, ConfigTypeOK
<1>2. \A u \in ConfigWriters \ {s} : session[u] # "open"
  BY DEF OpenConfigStream
<1>3. Fresh(s)
  BY DEF OpenConfigStream, ConfigIInv, SessionOK
<1>4. /\ unsent'[s] = desired
      /\ UNCHANGED <<desired, finished, mutations, held, pending, complete>>
  BY <1>0 DEF OpenConfigStream, ConfigTypeOK
<1>5. ASSUME NEW k \in Supported PROVE Arrives(s, k)'
  <2>1. Due(s, k)' = desired[k]
    BY <1>0, <1>3, <1>4, <1>5 DEF Due, Collected, Fresh, Empty, NoMessage, Msg
  <2>2. mutations'[s] = << >>
    BY <1>3, <1>4 DEF Fresh
  <2>3. \A i \in 1..Len(mutations'[s]) : FALSE
    BY <2>2
  <2> QED
    BY <1>4, <2>1, <2>3 DEF Arrives
<1>6. ~finished'[s]
  BY <1>3, <1>4 DEF Fresh
<1> QED
  BY <1>1, <1>2, <1>5, <1>6, OnlyOneMoves

\* Receiving moves what is due from the wire into the hand.
LEMMA RecvKeepsCatchUp ==
    ASSUME CatchUpIInv, ConfigIInv, NEW s \in ConfigWriters, Recv(s)
    PROVE  CatchUpIInv'
<1>0. ConfigTypeOK /\ Supported \subseteq Keys
  BY ObjectsAssumption DEF ConfigIInv
<1>1. \A u \in ConfigWriters \ {s} : SameSession(u)
  BY <1>0 DEF Recv, SameSession, ConfigTypeOK
<1>2. /\ session[s] = "open" /\ held[s] = NoMessage
      /\ \A u \in ConfigWriters \ {s} : session[u] # "open"
  BY DEF Recv, Receiving, CatchUpIInv
<1>3. UNCHANGED <<desired, wanted, session, pending, complete, objects>> /\ SessionOK(s)
  BY DEF Recv, cacheVars, ConfigIInv
<1>4. (finished[s] => unsent[s] = Empty) /\ \A k \in Supported : Arrives(s, k)
  BY <1>2 DEF CatchUpIInv
<1>5. CASE \E k \in Keys :
             /\ unsent[s][k] # NoObject
             /\ held' = [held EXCEPT ![s] = Msg("data", k, unsent[s][k])]
             /\ unsent' = [unsent EXCEPT ![s][k] = NoObject]
             /\ UNCHANGED <<finished, mutations>>
  <2> PICK k \in Keys :
             /\ unsent[s][k] # NoObject
             /\ held' = [held EXCEPT ![s] = Msg("data", k, unsent[s][k])]
             /\ unsent' = [unsent EXCEPT ![s][k] = NoObject]
             /\ UNCHANGED <<finished, mutations>>
    BY <1>5
  <2>1. held'[s].type = "data" /\ held'[s].key = k /\ held'[s].obj = unsent[s][k]
    BY <1>0 DEF ConfigTypeOK, Msg
  <2>2. unsent'[s] = [unsent[s] EXCEPT ![k] = NoObject] /\ unsent[s] \in Contents
    BY <1>0 DEF ConfigTypeOK
  <2>3. \A l \in Supported : Collected(s, l)' = Collected(s, l)
    BY <1>0, <1>2, <1>3, <2>1, <2>2 DEF Collected, Contents, NoMessage, Msg
  <2>4. \A l \in Supported : Due(s, l)' = Due(s, l)
    BY <1>2, <1>3, <2>1, <2>3 DEF Due, NoMessage, Msg
  <2>5. \A l \in Supported : Arrives(s, l)'
    BY <1>3, <1>4, <2>4, ArrivesFrame
  <2>6. unsent[s] # Empty
    BY DEF Empty
  <2> QED
    BY <1>1, <1>2, <1>4, <2>5, <2>6, OnlyOneMoves
<1>6. CASE /\ unsent[s] = Empty /\ ~finished[s]
           /\ held' = [held EXCEPT ![s] = SnapshotComplete]
           /\ finished' = [finished EXCEPT ![s] = TRUE]
           /\ UNCHANGED <<unsent, mutations>>
  <2>1. held'[s].type = "complete"
    BY <1>0, <1>6 DEF ConfigTypeOK, SnapshotComplete, Msg
  <2>2. \A l \in Supported : Due(s, l)' = Due(s, l)
    BY <1>2, <1>3, <1>6, <2>1 DEF Due, Collected, NoMessage, Msg
  <2>3. \A l \in Supported : Arrives(s, l)'
    BY <1>3, <1>4, <1>6, <2>2, ArrivesFrame
  <2>4. unsent'[s] = Empty
    BY <1>6
  <2> QED
    BY <1>1, <1>2, <2>3, <2>4, OnlyOneMoves
<1>7. CASE /\ finished[s] /\ mutations[s] # << >>
           /\ held' = [held EXCEPT ![s] =
                 Msg("mutation", Head(mutations[s]).key, Head(mutations[s]).obj)]
           /\ mutations' = [mutations EXCEPT ![s] = Tail(@)]
           /\ UNCHANGED <<unsent, finished>>
  <2>1. complete[s] /\ complete'[s]
    BY <1>2, <1>3, <1>7 DEF SessionOK, SnapshotArrived, NoMessage, Msg
  <2>2. PICK m \in Seq(Changes) : m = mutations[s]
    BY <1>0 DEF ConfigTypeOK
  <2>3. PICK n \in Nat : n = Len(m)
    OBVIOUS
  <2>4. PICK t : t = Tail(m)
    OBVIOUS
  <2>5. mutations'[s] = t
    BY <1>0, <1>7, <2>2, <2>4 DEF ConfigTypeOK
  <2>6. /\ n > 0 /\ Len(t) = n - 1 /\ Head(m) = m[1]
        /\ \A i \in 1..n - 1 : t[i] = m[i + 1]
    BY <1>7, <2>2, <2>3, <2>4
  <2>7. held'[s].type = "mutation" /\ held'[s].key = m[1].key /\ held'[s].obj = m[1].obj
    BY <1>0, <1>7, <2>2, <2>6 DEF ConfigTypeOK, Msg
  <2>8. ASSUME NEW l \in Supported PROVE Arrives(s, l)'
    <3>1. Arrives(s, l)
      BY <1>4
    <3>2. /\ \A i \in 1..n : m[i].key = l /\ (\A j \in 1..n : j > i => m[j].key # l)
                => m[i].obj = desired[l]
          /\ (\A i \in 1..n : m[i].key # l) => objects["config"][l] = desired[l]
      BY <1>2, <2>1, <2>2, <2>3, <3>1 DEF Arrives, LastFor, Due, NoMessage, Msg
    <3>3. ASSUME NEW i \in 1..n - 1, t[i].key = l,
                 \A j \in 1..n - 1 : j > i => t[j].key # l
          PROVE  t[i].obj = desired'[l]
      <4>1. i + 1 \in 1..n /\ t[i] = m[i + 1]
        BY <2>6
      <4>2. ASSUME NEW j \in 1..n, j > i + 1 PROVE m[j].key # l
        <5>1. j - 1 \in 1..n - 1 /\ j - 1 > i /\ (j - 1) + 1 = j
          BY <4>2
        <5>2. t[j - 1] = m[j]
          BY <2>6, <5>1
        <5> QED
          BY <3>3, <5>1, <5>2
      <4> QED
        BY <1>3, <3>2, <3>3, <4>1, <4>2
    <3>4. ASSUME \A i \in 1..n - 1 : t[i].key # l
          PROVE  Due(s, l)' = desired'[l]
      <4>1. \A j \in 1..n : j > 1 => m[j].key # l
        <5> SUFFICES ASSUME NEW j \in 1..n, j > 1 PROVE m[j].key # l
          OBVIOUS
        <5>1. j - 1 \in 1..n - 1 /\ (j - 1) + 1 = j
          OBVIOUS
        <5>2. t[j - 1] = m[j]
          BY <2>6, <5>1
        <5> QED
          BY <3>4, <5>1, <5>2
      <4>2. 1 \in 1..n
        BY <2>6
      <4>3. CASE m[1].key = l
        <5>1. m[1].obj = desired[l]
          BY <3>2, <4>1, <4>2, <4>3
        <5> QED
          BY <1>3, <2>1, <2>7, <4>3, <5>1 DEF Due
      <4>4. CASE m[1].key # l
        <5>1. \A i \in 1..n : i = 1 \/ i > 1
          OBVIOUS
        <5>2. objects["config"][l] = desired[l]
          BY <3>2, <4>1, <4>4, <5>1
        <5> QED
          BY <1>3, <2>1, <2>7, <4>4, <5>2 DEF Due
      <4> QED
        BY <4>3, <4>4
    <3> QED
      BY <2>5, <2>6, <3>3, <3>4 DEF Arrives, LastFor
  <2> QED
    BY <1>1, <1>2, <1>4, <1>7, <2>8, OnlyOneMoves
<1> QED
  BY <1>5, <1>6, <1>7 DEF Recv

\* Handling a message does with the cache what was due.
LEMMA HandleKeepsCatchUp ==
    ASSUME CatchUpIInv, ConfigIInv, NEW s \in ConfigWriters, HandleConfigUpdate(s)
    PROVE  CatchUpIInv'
<1> USE ConfigWriterType
<1>0. ConfigTypeOK /\ Supported \subseteq Keys /\ SessionOK(s)
  BY ObjectsAssumption DEF ConfigIInv
<1>1. session[s] = "open"
  BY DEF HandleConfigUpdate, HandleResourceData, HandleSnapshotComplete,
         HandleResourceMutation, RefuseMessage, Handling
<1>2. /\ \A u \in ConfigWriters \ {s} : session[u] # "open"
      /\ finished[s] => unsent[s] = Empty
      /\ \A k \in Supported : Arrives(s, k)
  BY <1>1 DEF CatchUpIInv
<1>3. CASE RunReturns(s)
  BY <1>0, <1>1, <1>3, ReturnsKeepsCatchUp
<1>4. CASE HandleResourceData(s)
  <2>1. \A u \in ConfigWriters \ {s} : SameSession(u)
    BY <1>0, <1>4 DEF HandleResourceData, Handled, SameSession, ConfigTypeOK
  <2>2. ~complete[s] /\ held[s].type = "data"
    BY <1>4 DEF HandleResourceData, Handling
  <2>3. UNCHANGED <<desired, session, unsent, finished, mutations, complete>>
    BY <1>4 DEF HandleResourceData
  <2>4. held'[s] = NoMessage
    BY <1>0, <1>4 DEF HandleResourceData, Handled, ConfigTypeOK
  <2>5. \A k \in Keys : pending'[s][k] =
            IF k \in Supported /\ held[s].key = k THEN held[s].obj ELSE pending[s][k]
    BY <1>0, <1>4 DEF HandleResourceData, ConfigTypeOK, Contents
  <2>6. \A k \in Supported : Collected(s, k)' = Collected(s, k)
    BY <1>0, <2>2, <2>3, <2>4, <2>5 DEF Collected, NoMessage, Msg
  <2>7. \A k \in Supported : Due(s, k)' = Due(s, k)
    BY <2>2, <2>3, <2>6 DEF Due
  <2>8. \A k \in Supported : Arrives(s, k)'
    BY <1>2, <2>3, <2>7, ArrivesFrame
  <2> QED
    BY <1>2, <2>1, <2>3, <2>8, OnlyOneMoves
<1>5. CASE HandleSnapshotComplete(s) /\ ~RunReturns(s)
  <2>1. ~complete[s] /\ held[s].type = "complete"
    BY <1>5 DEF HandleSnapshotComplete, Handling
  <2>2. finished[s] /\ unsent[s] = Empty
    BY <1>0, <1>1, <1>2, <2>1 DEF SessionOK, SnapshotUnderWay, ConfigTypeOK
  <2>3. objects'["config"] = pending[s]
    BY <1>0, <1>5 DEF HandleSnapshotComplete, ReplaceAll, SwapIn,
                      ConfigTypeOK, CacheTypeOK, Caches
  <2>4. /\ complete' = [complete EXCEPT ![s] = TRUE]
        /\ pending' = [pending EXCEPT ![s] = Empty] /\ Handled(s)
        /\ UNCHANGED <<desired, session, unsent, finished, mutations>>
    BY <1>5 DEF HandleSnapshotComplete
  <2>5. \A u \in ConfigWriters \ {s} : SameSession(u)
    BY <1>0, <2>4 DEF Handled, SameSession, ConfigTypeOK
  <2>6. held'[s] = NoMessage /\ complete'[s]
    BY <1>0, <2>4 DEF Handled, ConfigTypeOK
  <2>7. ASSUME NEW k \in Supported PROVE Due(s, k)' = Due(s, k)
    <3>1. Due(s, k) = pending[s][k]
      BY <1>0, <2>1, <2>2 DEF Due, Collected, Empty
    <3>2. Due(s, k)' = pending[s][k]
      BY <2>3, <2>6 DEF Due, NoMessage, Msg
    <3> QED
      BY <3>1, <3>2
  <2>8. \A k \in Supported : Arrives(s, k)'
    BY <1>2, <2>4, <2>7, ArrivesFrame
  <2> QED
    BY <1>2, <2>4, <2>5, <2>8, OnlyOneMoves
<1>6. CASE HandleResourceMutation(s)
  <2>1. \A u \in ConfigWriters \ {s} : SameSession(u)
    BY <1>0, <1>6 DEF HandleResourceMutation, Handled, SameSession, ConfigTypeOK
  <2>2. complete[s] /\ held[s].type = "mutation"
    BY <1>6 DEF HandleResourceMutation, Handling
  <2>3. UNCHANGED <<desired, session, unsent, finished, mutations, pending, complete>>
    BY <1>6 DEF HandleResourceMutation
  <2>4. held'[s] = NoMessage
    BY <1>0, <1>6 DEF HandleResourceMutation, Handled, ConfigTypeOK
  <2>5. held[s].key \in Keys
    BY <1>0, <2>2, PayloadType DEF ConfigTypeOK
  <2>6. \A k \in Supported : objects'["config"][k] =
            IF k = held[s].key THEN held[s].obj ELSE objects["config"][k]
    <3>1. CASE Store(s, held[s].key, held[s].obj)
      BY <1>0, <2>5, <3>1 DEF Store, ConfigTypeOK, CacheTypeOK, Caches, Contents
    <3>2. CASE UNCHANGED cacheVars /\ held[s].key \notin Supported
      BY <3>2 DEF cacheVars
    <3> QED
      BY <1>6, <3>1, <3>2 DEF HandleResourceMutation, Insert, Delete
  <2>7. \A k \in Supported : Due(s, k)' = Due(s, k)
    BY <2>2, <2>3, <2>4, <2>6 DEF Due, NoMessage, Msg
  <2>8. \A k \in Supported : Arrives(s, k)'
    BY <1>2, <2>3, <2>7, ArrivesFrame
  <2> QED
    BY <1>2, <2>1, <2>3, <2>8, OnlyOneMoves
<1> QED
  BY <1>3, <1>4, <1>5, <1>6 DEF HandleConfigUpdate, RefuseMessage

\* A message out of phase is not due for anything.
LEMMA MisbehaviourKeepsCatchUp ==
    ASSUME CatchUpIInv, ConfigIInv, NEW s \in ConfigWriters, CloudSecureMisbehaves(s)
    PROVE  CatchUpIInv'
<1>0. ConfigTypeOK
  BY DEF ConfigIInv
<1>1. \A u \in ConfigWriters \ {s} : SameSession(u)
  BY <1>0 DEF CloudSecureMisbehaves, SameSession, ConfigTypeOK
<1>2. /\ session[s] = "open" /\ held[s] = NoMessage
      /\ \A u \in ConfigWriters \ {s} : session[u] # "open"
  BY DEF CloudSecureMisbehaves, Receiving, CatchUpIInv
<1>3. UNCHANGED <<desired, session, unsent, finished, mutations, pending, complete, objects>>
  BY DEF CloudSecureMisbehaves, cacheVars
<1>4. /\ complete[s] => held'[s].type # "mutation"
      /\ ~complete[s] => held'[s].type \notin {"data", "complete"}
  BY <1>0 DEF CloudSecureMisbehaves, OutOfPhase, ConfigTypeOK, Msg,
              SnapshotComplete, UnknownMessage
<1>5. \A k \in Supported : Due(s, k)' = Due(s, k)
  BY <1>2, <1>3, <1>4 DEF Due, Collected, NoMessage, Msg
<1>6. \A k \in Supported : Arrives(s, k)'
  BY <1>2, <1>3, <1>5, ArrivesFrame DEF CatchUpIInv
<1> QED
  BY <1>1, <1>2, <1>3, <1>6, OnlyOneMoves DEF CatchUpIInv

\* What touches neither sessions nor the config cache does not matter.
LEMMA CatchUpOthers ==
    ASSUME CatchUpIInv, UNCHANGED streamVars, SameConfigCache
    PROVE  CatchUpIInv'
<1>1. \A s \in ConfigWriters : \A k \in Supported : Due(s, k)' = Due(s, k)
  BY DEF Due, Collected, streamVars, SameConfigCache
<1>2. \A s \in ConfigWriters : \A k \in Supported : Arrives(s, k) => Arrives(s, k)'
  BY <1>1, ArrivesFrame DEF streamVars
<1> QED
  BY <1>2 DEF CatchUpIInv, streamVars, Empty

\* Where sessions do not overlap, every step of the config stream keeps the invariant.
LEMMA CatchUpStep ==
    ASSUME Overlap # "all", ConfigIInv, CatchUpIInv, ConfigStep
    PROVE  CatchUpIInv'
<1>0. ConfigTypeOK
  BY DEF ConfigIInv
<1>1. CASE \E k \in Keys, obj \in Objects : CloudSecureEdits(k, obj)
  BY <1>0, <1>1, EditKeepsCatchUp
<1>2. ASSUME NEW s \in ConfigWriters,
             OpenConfigStream(s) \/ Recv(s) \/ HandleConfigUpdate(s) \/ CloudSecureMisbehaves(s)
      PROVE  CatchUpIInv'
  BY <1>2, OpenKeepsCatchUp, RecvKeepsCatchUp, HandleKeepsCatchUp, MisbehaviourKeepsCatchUp
<1>3. ASSUME NEW s \in ConfigWriters, ConfigStreamBreaks(s)
      PROVE  CatchUpIInv'
  <2>1. session[s] = "open" /\ RunReturns(s)
    BY <1>3 DEF ConfigStreamBreaks, Receiving
  <2> QED
    BY <1>0, <2>1, ReturnsKeepsCatchUp
<1>4. ASSUME NEW s \in ConfigWriters, NotifyConfig(s) \/ CancelConfigStream(s)
      PROVE  CatchUpIInv'
  <2>1. SameConfigCache
    BY <1>4 DEF NotifyConfig, CancelConfigStream, SendNote, DrainNote, GiveUpNote,
                Cancel, SameConfigCache
  <2>2. CASE UNCHANGED streamVars
    BY <2>1, <2>2, CatchUpOthers
  <2>3. CASE RunReturns(s) /\ session[s] = "open"
    BY <1>0, <2>3, ReturnsKeepsCatchUp
  <2>4. CASE RunReturns(s) /\ session[s] # "open"
    <3>1. \A u \in ConfigWriters \ {s} : SameSession(u)
      BY <1>0, <2>4 DEF RunReturns, SameSession, ConfigTypeOK
    <3>2. session'[s] = "over" /\ finished'[s] = FALSE
      BY <1>0, <2>4 DEF RunReturns, ConfigTypeOK
    <3>3. ASSUME NEW u \in ConfigWriters \ {s}, session[u] = "open", NEW k \in Supported
          PROVE  Arrives(u, k)'
      <4>1. Due(u, k)' = Due(u, k)
        BY <2>1, <3>1, <3>3 DEF Due, Collected, SameSession, SameConfigCache
      <4> QED
        BY <2>4, <3>1, <3>3, <4>1, ArrivesFrame DEF SameSession, CatchUpIInv, RunReturns
    <3> QED
      BY <3>1, <3>2, <3>3 DEF CatchUpIInv, SameSession, Empty
  <2> QED
    BY <1>4, <2>2, <2>3, <2>4 DEF NotifyConfig, CancelConfigStream
<1> QED
  BY <1>1, <1>2, <1>3, <1>4 DEF ConfigStep, ConfigSessionStep, ConfigClientStep

\* A session that has nothing left to apply has nothing due but the cache itself.
LEMMA CatchUpMeans == ConfigTypeOK /\ CatchUpIInv => CaughtUpMeansEqual
<1> SUFFICES ASSUME ConfigTypeOK, CatchUpIInv, NEW s \in ConfigWriters, CaughtUp(s),
                    NEW k \in Supported
             PROVE  objects["config"][k] = desired[k]
  BY DEF CaughtUpMeansEqual
<1>1. Arrives(s, k) /\ complete[s] /\ held[s] = NoMessage /\ mutations[s] = << >>
  BY DEF CatchUpIInv, CaughtUp, Receiving
<1>2. \A i \in 1..Len(mutations[s]) : FALSE
  BY <1>1
<1>3. Due(s, k) = desired[k]
  BY <1>1, <1>2 DEF Arrives
<1> QED
  BY <1>1, <1>3 DEF Due, NoMessage, Msg

\* For any keys, contents and edits, and however often the stream breaks: where sessions
\* do not overlap, a session that has applied all it received leaves the config cache
\* equal to what CloudSecure wants (configClient.Run).
THEOREM CaughtUpAlwaysEqual ==
    ASSUME Overlap # "all"
    PROVE  ConfigSpec => []CaughtUpMeansEqual
<1>1. ConfigInit => CatchUpIInv
  <2> SUFFICES ASSUME ConfigInit PROVE CatchUpIInv
    OBVIOUS
  <2>1. \A s \in ConfigWriters : session[s] = "new" /\ ~finished[s]
    BY DEF ConfigInit, StreamInit
  <2> QED
    BY <2>1 DEF CatchUpIInv
<1>2. ConfigIInv /\ CatchUpIInv /\ [ConfigNext]_configVars => CatchUpIInv'
  <2> SUFFICES ASSUME ConfigIInv, CatchUpIInv, [ConfigNext]_configVars PROVE CatchUpIInv'
    OBVIOUS
  <2>1. CASE ConfigStep
    BY <2>1, CatchUpStep
  <2>2. CASE ReconcilerTakes
    BY <2>2, CatchUpOthers DEF ReconcilerTakes, TakeNote, SameConfigCache
  <2>3. CASE UNCHANGED configVars
    BY <2>3, CatchUpOthers DEF configVars, streamVars, SameConfigCache
  <2> QED
    BY <2>1, <2>2, <2>3 DEF ConfigNext
<1>3. ConfigIInv /\ CatchUpIInv => CaughtUpMeansEqual
  BY CatchUpMeans DEF ConfigIInv
<1> QED
  BY <1>1, <1>2, <1>3, ConfigInvAlways, PTL DEF ConfigSpec

================================================================================
