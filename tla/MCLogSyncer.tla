------------------------------ MODULE MCLogSyncer ------------------------------
(* A buffer of two entries, written to over three log streams. *)
EXTENDS LogSyncer
================================================================================
