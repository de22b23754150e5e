---------------------------- MODULE MCStreamManager ----------------------------
(* Two streams on a few connections, and two pods during a rollover. *)
EXTENDS OperatorSessions
================================================================================
