----------------------------- MODULE PolicyObjects -----------------------------
(***************************************************************************)
(* The objects that the policy synchronisation moves around: network       *)
(* policies and the like, known by their key.  Two contents are one value  *)
(* if proto.Equal says so.                                                 *)
(***************************************************************************)
CONSTANTS
    Keys,      \* object keys, "kind/namespace/name"
    Supported, \* the keys whose kind the operator can reconcile
    Values,    \* object contents
    NoObject   \* no object: nil, or absent from a map

ASSUME ObjectsAssumption ==
    /\ Supported \subseteq Keys
    /\ NoObject \notin Values

Objects  == Values \cup {NoObject}
Contents == [Keys -> Objects]
Empty    == [k \in Keys |-> NoObject]
================================================================================
