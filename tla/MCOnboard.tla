----------------------------- MODULE MCOnboard ------------------------------
(* Small instances of a host for TLC. *)
EXTENDS Onboard

CONSTANTS k1, k2
=============================================================================
