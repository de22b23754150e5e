------------------------------ MODULE ClusterMirror ------------------------------
(***************************************************************************)
(* What the resource stream promises: a picture of the cluster, held by    *)
(* CloudSecure, that is replaced as a whole by a snapshot and then follows *)
(* the history of each kind one event at a time.  The picture of a kind is *)
(* always the state after some number of its events; it never skips an     *)
(* event, never repeats one, and never goes back, not even when the stream *)
(* is opened again.                                                        *)
(***************************************************************************)
EXTENDS Integers, Sequences, FiniteSetsExt

CONSTANTS
    Kinds, Objects,
    KindOf,       \* KindOf[o]: the kind of object o
    Initial,      \* Initial[o]: the object before the first event, or NoValue
    NoValue,      \* the object does not exist, or is not in the picture
    Bare,         \* the object without its contents
    Unreadable,   \* the values the converters refuse
    Fetched       \* the kinds whose contents are fetched when an event is converted

VARIABLES
    log,    \* log[k]: the events of kind k
    view,   \* view[o]: what CloudSecure shows of o
    at,     \* at[k]: the events of k that the picture reflects
    shown,  \* shown[k]: the kind was listed in the latest snapshot
    snapshots \* the number of snapshots

mirrorVars == <<log, view, at, shown, snapshots>>

\* The state of o after the first p events of its kind.
At(o, p) ==
    LET own == {i \in 1..p : log[KindOf[o]][i].obj = o} IN
    IF own = {} THEN Initial[o]
    ELSE LET e == log[KindOf[o]][Max(own)] IN IF e.deleted THEN NoValue ELSE e.val

\* What may be shown of an object that had value v after p events of its kind: v
\* itself, except that fetched contents are those of the moment they were fetched,
\* or missing if that failed.
Contents(o, p, v) ==
    IF KindOf[o] \in Fetched
    THEN ({At(o, q) : q \in p..Len(log[KindOf[o]])} \ {NoValue}) \cup {Bare}
    ELSE {v}

\* An object that cannot be converted is left out of a snapshot.
Listed(o, p) ==
    IF At(o, p) \in Unreadable \cup {NoValue} THEN {NoValue}
    ELSE Contents(o, p, At(o, p))

Init ==
    /\ log = [k \in Kinds |-> <<>>]
    /\ view = [o \in Objects |-> NoValue]
    /\ at = [k \in Kinds |-> 0]
    /\ shown = [k \in Kinds |-> FALSE]
    /\ snapshots = 0

\* The cluster changes.
Write ==
    /\ \A k \in Kinds : SubSeq(log'[k], 1, Len(log[k])) = log[k]
    /\ UNCHANGED <<view, at, shown, snapshots>>

\* A snapshot: each listed kind as of one moment since the last one.
Snapshot ==
    /\ snapshots' = snapshots + 1
    /\ \A k \in Kinds : at'[k] \in IF shown'[k] THEN at[k]..Len(log[k]) ELSE {at[k]}
    /\ \A o \in Objects :
          view'[o] \in IF shown'[KindOf[o]] THEN Listed(o, at'[KindOf[o]]) ELSE {NoValue}
    /\ UNCHANGED log

\* The next event of a kind reaches the picture of its object.
Advance(k) ==
    /\ shown[k] /\ at[k] < Len(log[k])
    /\ LET e == log[k][at[k] + 1] IN
          /\ e.val \notin Unreadable
          /\ view' = [view EXCEPT ![e.obj] = view'[e.obj]]
          /\ view'[e.obj] \in
                IF e.deleted THEN {NoValue} ELSE Contents(e.obj, at[k] + 1, e.val)
    /\ at' = [at EXCEPT ![k] = @ + 1]
    /\ UNCHANGED <<log, shown, snapshots>>

Next == Write \/ Snapshot \/ \E k \in Kinds : Advance(k)
Spec == Init /\ [][Next]_mirrorVars
================================================================================
