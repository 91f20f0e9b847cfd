----------------------------- MODULE MCIdentity -----------------------------
(* Small instances of the agent's identity for TLC. *)
EXTENDS Identity

CONSTANTS k1, k2
=============================================================================
