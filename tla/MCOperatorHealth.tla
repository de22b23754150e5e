---------------------------- MODULE MCOperatorHealth ----------------------------
(* A pod and a network policy: the one may become unreadable, the other's      *)
(* contents are fetched.                                                       *)
EXTENDS OperatorHealth, TLC

CONSTANTS pods, netpols, pod, policy, v1, v2, bad, none

MCKindOrder == <<netpols, pods>>
MCKindOf    == (pod :> pods) @@ (policy :> netpols)
MCValues    == (pods :> {v1, bad}) @@ (netpols :> {v1, v2})
MCInitial   == (pod :> v1) @@ (policy :> none)
================================================================================
