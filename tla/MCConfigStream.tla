---------------------------- MODULE MCConfigStream ----------------------------
(* Two keys, one of a kind the operator does not support, and two sessions. *)
EXTENDS ConfigStream
================================================================================
