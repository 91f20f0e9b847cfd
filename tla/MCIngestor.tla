----------------------------- MODULE MCIngestor -----------------------------
(* Small instances of the ingestor for TLC. *)
EXTENDS Ingestor, TLC

CONSTANTS p1, p2, a1, a2, bad, junk, poison

Symmetry == Permutations(Partitions) \cup Permutations(Alerts)
=============================================================================
