------------------------------ MODULE MCAgent -------------------------------
(* Instances of Agent for TLC: events of one byte, larger ones that make   *)
(* the byte limit bite, one larger than the limit itself, an entry (0)     *)
(* that does not parse, and at the end an over-long line.                  *)
EXTENDS Agent

AllKinds == <<1, 0, 1, 5, 1>>
Last == {5}
FourEvents == <<1, 1, 3, 1>>
ThreeEvents == <<1, 0, 1, 2>>
TwoEvents == <<1, 1>>
Second == {2}
=============================================================================
