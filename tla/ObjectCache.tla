------------------------------ MODULE ObjectCache ------------------------------
(***************************************************************************)
(* The two ObjectCaches of the operator: the config cache, which holds     *)
(* what CloudSecure wants, and the runtime cache, which holds what the     *)
(* operator believes is in the cluster.  A cache is a map under a lock, a  *)
(* ready channel that the first snapshot closes, and resourceChanged, a    *)
(* channel with one slot that tells the reconciler what changed.           *)
(*                                                                         *)
(* Every mutating call has two parts that other goroutines can come        *)
(* between: the write, under the lock, and the notification, a select that *)
(* races a free slot against the caller's context.  The actions below are  *)
(* those parts, taken by a writer w (the goroutine that makes the call);   *)
(* the modules that extend this one say when a writer calls.               *)
(***************************************************************************)
EXTENDS PolicyObjects

CONSTANTS
    SnapshotReplaced, \* the note "*" that ReplaceAll sends
    Nothing,          \* an empty slot; a writer with no note to send
    ConfigWriters,    \* goroutines that write the config cache
    RuntimeWriters,   \* goroutines that write the runtime cache
    Overlap           \* what of an old, cancelled session may still run when
                      \* the next one opens: "none", "watchers" or "all"

ASSUME CacheAssumption ==
    /\ SnapshotReplaced \notin Keys
    /\ Nothing \notin Keys \cup {SnapshotReplaced}
    /\ ConfigWriters \cap RuntimeWriters = {}
    /\ Overlap \in {"none", "watchers", "all"}

VARIABLES
    objects,         \* objects[c][k]: what cache c holds for key k
    ready,           \* ready[c]: the ready channel of c is closed
    resourceChanged, \* resourceChanged[c]: the note in the slot of c
    notifying,       \* notifying[w]: the note that w's call has yet to send
    cancelled        \* cancelled[w]: the context of w is done

cacheVars == <<objects, ready, resourceChanged, notifying, cancelled>>

Caches     == {"config", "runtime"}
Writers    == ConfigWriters \cup RuntimeWriters
CacheOf(w) == IF w \in ConfigWriters THEN "config" ELSE "runtime"
Notes      == Keys \cup {SnapshotReplaced}

CacheTypeOK ==
    /\ objects \in [Caches -> Contents]
    /\ ready \in [Caches -> BOOLEAN]
    /\ resourceChanged \in [Caches -> Notes \cup {Nothing}]
    /\ notifying \in [Writers -> Notes \cup {Nothing}]
    /\ cancelled \in [Writers -> BOOLEAN]

NewObjectCache ==
    /\ objects = [c \in Caches |-> Empty]
    /\ ready = [c \in Caches |-> FALSE]
    /\ resourceChanged = [c \in Caches |-> Nothing]
    /\ notifying = [w \in Writers |-> Nothing]
    /\ cancelled = [w \in Writers |-> FALSE]

(***************************************************************************)
(* Reading: Get, and the keys that Keys() returns.                         *)
(***************************************************************************)
Get(c, k) == objects[c][k]
KeysIn(c) == {k \in Keys : objects[c][k] # NoObject}

(***************************************************************************)
(* The writes.  The select of ReplaceAll under the lock has a default, so  *)
(* it closes ready only if neither the context is done nor ready is closed *)
(* already; if both hold, either may be chosen.  The swap has happened by  *)
(* then: a ReplaceAll that fails has replaced the objects.                 *)
(***************************************************************************)
SwapIn(w, new) ==
    /\ notifying[w] = Nothing
    /\ objects' = [objects EXCEPT ![CacheOf(w)] = new]
    /\ UNCHANGED <<resourceChanged, cancelled>>

ReplaceAll(w, new) ==
    /\ SwapIn(w, new)
    /\ cancelled[w] => ready[CacheOf(w)]
    /\ ready' = [ready EXCEPT ![CacheOf(w)] = TRUE]
    /\ notifying' = [notifying EXCEPT ![w] = SnapshotReplaced]

ReplaceAllFails(w, new) ==
    /\ SwapIn(w, new)
    /\ cancelled[w]
    /\ UNCHANGED <<ready, notifying>>

Store(w, k, v) ==
    /\ notifying[w] = Nothing
    /\ objects' = [objects EXCEPT ![CacheOf(w)][k] = v]
    /\ notifying' = [notifying EXCEPT ![w] =
                        IF objects[CacheOf(w)][k] # v THEN k ELSE Nothing]
    /\ UNCHANGED <<ready, resourceChanged, cancelled>>

Insert(w, k, v) == v \in Values /\ Store(w, k, v)
Delete(w, k)    == Store(w, k, NoObject)

(***************************************************************************)
(* The notification.  Sending and giving up are both possible once the     *)
(* context is done and the slot is free.  Only ReplaceAll empties a full   *)
(* slot, whatever note it holds, and then tries again.                     *)
(***************************************************************************)
SendNote(w) ==
    /\ notifying[w] # Nothing
    /\ resourceChanged[CacheOf(w)] = Nothing
    /\ resourceChanged' = [resourceChanged EXCEPT ![CacheOf(w)] = notifying[w]]
    /\ notifying' = [notifying EXCEPT ![w] = Nothing]
    /\ UNCHANGED <<objects, ready, cancelled>>

\* Mutant of DrainNote: the note is not sent after the drain.
DrainNoteReturns(w) ==
    /\ notifying[w] = SnapshotReplaced
    /\ resourceChanged[CacheOf(w)] # Nothing
    /\ resourceChanged' = [resourceChanged EXCEPT ![CacheOf(w)] = Nothing]
    /\ notifying' = [notifying EXCEPT ![w] = Nothing]
    /\ UNCHANGED <<objects, ready, cancelled>>

DrainNote(w) ==
    /\ notifying[w] = SnapshotReplaced
    /\ resourceChanged[CacheOf(w)] # Nothing
    /\ resourceChanged' = [resourceChanged EXCEPT ![CacheOf(w)] = Nothing]
    /\ UNCHANGED <<objects, ready, notifying, cancelled>>

GiveUpNote(w) ==
    /\ notifying[w] # Nothing
    /\ cancelled[w]
    /\ notifying' = [notifying EXCEPT ![w] = Nothing]
    /\ UNCHANGED <<objects, ready, resourceChanged, cancelled>>

(***************************************************************************)
(* The consumer takes a note; the stream manager cancels a writer.         *)
(***************************************************************************)
TakeNote(c) ==
    /\ resourceChanged[c] # Nothing
    /\ resourceChanged' = [resourceChanged EXCEPT ![c] = Nothing]
    /\ UNCHANGED <<objects, ready, notifying, cancelled>>

Cancel(w) ==
    /\ ~cancelled[w]
    /\ cancelled' = [cancelled EXCEPT ![w] = TRUE]
    /\ UNCHANGED <<objects, ready, resourceChanged, notifying>>
================================================================================
