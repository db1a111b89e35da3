----------------------------- MODULE MCTransfer ----------------------------
(* Instances of Transfer for TLC. *)
EXTENDS Transfer

\* One attempt, and one that may meet its predecessor in the daemon.
RetryCounts == {0, 1}
=============================================================================
