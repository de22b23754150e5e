------------------------------- MODULE ChangeFeed ------------------------------
(***************************************************************************)
(* The promise an ObjectCache makes to its consumer: no change of the      *)
(* cache goes unnoticed.  Writers call the cache in any order, with        *)
(* contexts that may be cancelled at any moment; the consumer takes a note *)
(* and then looks at the keys the note names, one at a time, as the        *)
(* reconciler does.  The three auxiliary variables record what the         *)
(* consumer owes, what it saw last and whose notification a cancelled      *)
(* caller gave up.                                                         *)
(***************************************************************************)
EXTENDS ObjectCache

VARIABLES
    owed,    \* owed[c]: keys of cache c named by a note and not yet looked at
    seen,    \* seen[c][k]: what the consumer saw when it last looked
    dropped  \* dropped[c]: keys whose notification was given up since then

feedVars == <<objects, ready, resourceChanged, notifying, cancelled,
              owed, seen, dropped>>

FeedInit ==
    /\ NewObjectCache
    /\ owed = [c \in Caches |-> {}]
    /\ seen = objects
    /\ dropped = [c \in Caches |-> {}]

\* The keys a note asks the consumer to look at.
Named(note) == IF note = SnapshotReplaced THEN Keys ELSE {note}

WriterCalls(w) ==
    /\ \/ \E new \in Contents : ReplaceAll(w, new)
       \/ \E k \in Keys, v \in Values : Insert(w, k, v)
       \/ \E k \in Keys : Delete(w, k)
       \/ SendNote(w)
       \/ DrainNote(w)
       \/ Cancel(w)
    /\ UNCHANGED <<owed, seen, dropped>>

\* A call whose context is done returns without notifying.
WriterFails(w) ==
    /\ \/ /\ \E new \in Contents : ReplaceAllFails(w, new)
          /\ dropped' = [dropped EXCEPT ![CacheOf(w)] = Keys]
       \/ /\ GiveUpNote(w)
          /\ dropped' = [dropped EXCEPT ![CacheOf(w)] =
                            @ \cup Named(notifying[w])]
    /\ UNCHANGED <<owed, seen>>

ConsumerTakes(c) ==
    /\ TakeNote(c)
    /\ owed' = [owed EXCEPT ![c] = @ \cup Named(resourceChanged[c])]
    /\ UNCHANGED <<seen, dropped>>

\* Unprompted looks are the periodic reconciliation.
ConsumerLooks(c, k) ==
    /\ seen' = [seen EXCEPT ![c][k] = Get(c, k)]
    /\ owed' = [owed EXCEPT ![c] = @ \ {k}]
    /\ dropped' = [dropped EXCEPT ![c] = @ \ {k}]
    /\ UNCHANGED cacheVars

FeedNext ==
    \/ \E w \in Writers : WriterCalls(w) \/ WriterFails(w)
    \/ \E c \in Caches : ConsumerTakes(c) \/ \E k \in Keys : ConsumerLooks(c, k)

FeedSpec == FeedInit /\ [][FeedNext]_feedVars

--------------------------------------------------------------------------------
\* Type invariant of the caches and of the consumer's auxiliary state.
FeedTypeOK ==
    /\ CacheTypeOK
    /\ owed \in [Caches -> SUBSET Keys]
    /\ seen \in [Caches -> Contents]
    /\ dropped \in [Caches -> SUBSET Keys]

\* A look at k is still to come: the consumer owes it, its note is in the
\* slot, or a writer has yet to send a note that names it.
LookIsComing(c, k) ==
    \/ k \in owed[c]
    \/ resourceChanged[c] \in {k, SnapshotReplaced}
    \/ \E w \in Writers : /\ CacheOf(w) = c
                          /\ notifying[w] \in {k, SnapshotReplaced}

\* Insert, Delete and ReplaceAll lose no change: whenever the consumer's last
\* look at a key differs from the cache, another look is coming, unless the
\* caller that made the change was cancelled before it could notify.  The
\* hazard is ReplaceAll's drain, which throws away notes of other writers.
NoLostChange ==
    \A c \in Caches, k \in Keys :
        objects[c][k] # seen[c][k] => LookIsComing(c, k) \/ k \in dropped[c]
================================================================================
