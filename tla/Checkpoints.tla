----------------------------- MODULE Checkpoints -----------------------------
(***************************************************************************)
(* What the forwarder promises about its checkpoints (OffsetStore's        *)
(* docstring; forwarder/README.md, "state.json corrupt or lost"): there is *)
(* one, and a spare that is no newer.  There is no process here, no queue  *)
(* and no file; one step replaces the checkpoint, and only after a copy of *)
(* it has become the spare; damage to one of the two costs only that one.  *)
(* All this holds while the forwarder knows the checkpoint that is there;  *)
(* blind to a damaged one, it may replace both.                            *)
(***************************************************************************)
EXTENDS Naturals, Sequences

CONSTANTS Files, Source

VARIABLES
  topic,    \* lines the brokers have stored
  point,    \* the checkpoint a start resumes from
  spare,    \* the one it resumes from when that is damaged
  damages,  \* how often one of them was damaged
  blind     \* the forwarder works on beside one it did not notice was damaged

absVars == <<topic, point, spare, damages, blind>>

Fresh == [f \in Files |-> 0]

AbsInit ==
  topic = {} /\ point = Fresh /\ spare = Fresh /\ damages = 0 /\ blind = FALSE

\* A line no checkpoint has to wait for.
MayPass(f, i) == <<f, i>> \in topic \/ Source[f][i] \in {"skip", "huge"}

Store(f, i) ==
  /\ topic' = topic \cup {<<f, i>>}
  /\ UNCHANGED <<point, spare, damages, blind>>

Spare ==
  /\ spare' = point
  /\ UNCHANGED <<topic, point, damages, blind>>

Advance(to) ==
  /\ spare = point
  /\ \A f \in Files : /\ point[f] <= to[f] \/ blind
                      /\ \A i \in 1..Len(Source[f]) : i <= to[f] => MayPass(f, i)
  /\ point' = to
  /\ blind' = FALSE
  /\ UNCHANGED <<topic, spare, damages>>

\* The spare itself stands in for a checkpoint that was lost before, or it is
\* what was damaged, or nothing is lost.
FallBack ==
  /\ damages' = damages + 1
  /\ blind' \in BOOLEAN
  /\ \/ point' \in {point, spare} /\ spare' = spare
     \/ point' = point /\ spare' = Fresh
     \/ point = spare /\ point' = Fresh /\ spare' = Fresh
  /\ UNCHANGED topic

\* The damaged checkpoint takes the place of the spare.
Ruin ==
  /\ blind /\ point = spare
  /\ point' = Fresh /\ spare' = Fresh
  /\ UNCHANGED <<topic, damages, blind>>

\* It restarts, or it goes on unaware of an earlier damage.
Blinded ==
  /\ blind' \in {FALSE, damages > 0}
  /\ UNCHANGED <<topic, point, spare, damages>>

AbsNext ==
  \/ \E f \in Files : \E i \in 1..Len(Source[f]) : Store(f, i)
  \/ Spare
  \/ Advance(point')
  \/ FallBack
  \/ Ruin
  \/ Blinded

AbsSpec == AbsInit /\ [][AbsNext]_absVars
=============================================================================
