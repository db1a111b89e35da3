----------------------------- MODULE MCKeyCache ------------------------------
(* The instances of KeyCache for TLC are the configurations. *)
EXTENDS KeyCache
=============================================================================
