----------------------------- MODULE MCEnvSched -----------------------------
(* Instances of EnvSched for TLC. *)
EXTENDS EnvSched

CONSTANTS c1, c2
=============================================================================
