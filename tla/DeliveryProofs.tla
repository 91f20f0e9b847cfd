--------------------------- MODULE DeliveryProofs ---------------------------
(***************************************************************************)
(* Proofs about the forwarder's delivery path, for any set of files, any   *)
(* contents, queue and batch sizes, and any number of faults.              *)
(***************************************************************************)
EXTENDS Delivery, TLAPS

\* Where the loop stands in a batch: what SendLine puts in flight is a line.
LoopInv ==
  /\ pc \in {"lines", "blocked"} => hand <= Len(Source[cur])
  /\ pc = "blocked" => tracked[cur] >= 1 /\ tracked[cur] <= hand

\* A line of a file is a line.
LEMMA LineFact ==
  ASSUME NEW f \in Files, NEW i \in Nat, 1 <= i, i <= Len(Source[f])
  PROVE  <<f, i>> \in Lines
<1>1. Len(Source[f]) \in Nat
  BY SourceAssumption
<1>2. i \in 1..Len(Source[f])
  BY <1>1
<1> QED
  BY <1>2 DEF Lines

\* And conversely.
LEMMA LineParts ==
  ASSUME NEW m \in Lines
  PROVE  /\ m[1] \in Files
         /\ m[2] \in 1..Len(Source[m[1]])
         /\ m = <<m[1], m[2]>>
<1>1. PICK f \in Files : m \in {f} \X (1..Len(Source[f]))
  BY DEF Lines
<1> QED
  BY <1>1

LEMMA LoadableType ==
  ASSUME TypeOK
  PROVE  Loadable \in Positions
BY StateFileAssumption DEF TypeOK, StateFiles, Loadable, Usable, Zero, Positions

\* AckTracker.ack keeps the tracker's state well-typed.
LEMMA AckType ==
  ASSUME TypeOK, NEW f \in Files, NEW done \in SUBSET Nat, NEW last \in Nat,
         Ack(f, done, last)
  PROVE  committed' \in Positions /\ acked' \in [Files -> SUBSET Nat]
<1>1. PICK n \in committed[f] .. last :
        /\ committed' = [committed EXCEPT ![f] = n]
        /\ acked' = [acked EXCEPT ![f] = {i \in done : i > n}]
  BY DEF Ack
<1>2. committed[f] \in Nat /\ n \in Nat
  BY DEF TypeOK, Positions
<1>3. {i \in done : i > n} \in SUBSET Nat
  OBVIOUS
<1> QED
  BY <1>1, <1>2, <1>3 DEF TypeOK, Positions

\* Every step keeps the types and the loop's place in its batch.
LEMMA TypeStep ==
  ASSUME TypeOK, LoopInv, [Next]_vars
  PROVE  TypeOK' /\ LoopInv'
<1> USE DEF TypeOK, LoopInv
<1>1. CASE Load
  <2>1. Zero \in Positions
    BY DEF Zero, Positions
  <2>2. CASE LoadMain
    <3>1. blind' \in BOOLEAN /\ dirty' \in BOOLEAN
      BY <2>2, Zenon DEF LoadMain
    <3>2. files' \in Positions /\ committed' \in Positions /\ tracked' \in Positions
      BY <2>1, <2>2 DEF LoadMain, Begin, StateFiles, Usable
    <3>3. /\ main' \in StateFiles
          /\ faults' \in Nat /\ fails' \in Nat /\ fatals' \in Nat
          /\ corruptions' \in Nat
      BY <2>2 DEF LoadMain, Quarantined, Unreadable, StateFiles, counts
    <3>4. UNCHANGED <<todo, cur, hand, topic, bak, tmp>>
      BY <2>2 DEF LoadMain, loop
    <3>5. /\ pc' \in {"commit", "backup"} /\ after' = "turn"
          /\ acked' = [f \in Files |-> {}] /\ inflight' = {}
          /\ broken' = FALSE /\ fatal' = FALSE /\ stop' = FALSE
      BY <2>2 DEF LoadMain
    <3> QED
      BY <3>1, <3>2, <3>3, <3>4, <3>5
  <2>3. CASE LoadBackup
    <3>1. blind' \in BOOLEAN
      BY <2>3, Zenon DEF LoadBackup
    <3> QED
      BY <2>1, <2>3, <3>1, StateFileAssumption
         DEF LoadBackup, Begin, Quarantined, Unreadable, StateFiles, Usable, loop,
             kafka, counts
  <2> QED
    BY <1>1, <2>2, <2>3 DEF Load
<1>2. CASE Turn
  BY <1>2 DEF Turn, tracker, kafka, offsets, disk, counts
<1>3. CASE PollSome
  <2>1. PICK f \in Files : \E n \in 0..Len(Source[f]) : Poll(f, n)
    BY <1>3 DEF PollSome
  <2> QED
    BY <2>1, SourceAssumption DEF Poll, tracker, kafka, offsets, disk, counts
<1>4. CASE SkipLine
  <2>1. NextLine \in Nat
    BY DEF NextLine, Positions
  <2>2. committed' \in Positions /\ acked' \in [Files -> SUBSET Nat]
    BY <1>4, <2>1, AckType DEF SkipLine
  <2> QED
    BY <1>4, <2>1, <2>2 DEF SkipLine, Take, loop, offsets, disk, counts, Positions
<1>5. CASE DropLine
  <2>1. NextLine \in Nat
    BY DEF NextLine, Positions
  <2>2. committed' \in Positions /\ acked' \in [Files -> SUBSET Nat]
    BY <1>5, <2>1, AckType DEF DropLine
  <2> QED
    BY <1>5, <2>1, <2>2 DEF DropLine, Take, loop, offsets, disk, counts, Positions
<1>6. CASE SendLine
  <2>1. NextLine \in Nat /\ 1 <= NextLine
    BY DEF NextLine, Positions
  <2>2. <<cur, NextLine>> \in Lines
    <3>1. NextLine <= Len(Source[cur])
      BY <1>6, <2>1, SourceAssumption DEF SendLine, Take
    <3> QED
      BY <2>1, <3>1, LineFact
  <2> QED
    BY <1>6, <2>1, <2>2 DEF SendLine, Take, loop, offsets, disk, counts, Positions
<1>7. CASE QueueFull
  BY <1>7 DEF QueueFull, Take, NextLine, loop, offsets, disk, counts, Positions
<1>8. CASE SendBlocked
  <2>1. <<cur, tracked[cur]>> \in Lines
    <3>1. tracked[cur] \in Nat /\ 1 <= tracked[cur]
      BY <1>8 DEF SendBlocked, Positions
    <3>2. tracked[cur] <= Len(Source[cur])
      BY <1>8, <3>1, SourceAssumption DEF SendBlocked
    <3> QED
      BY <3>1, <3>2, LineFact
  <2> QED
    BY <1>8, <2>1 DEF SendBlocked, loop, tracker, offsets, disk, counts
<1>9. CASE DropBlocked
  <2>1. committed' \in Positions /\ acked' \in [Files -> SUBSET Nat]
    <3>1. tracked[cur] \in Nat
      BY DEF Positions
    <3> QED
      BY <1>9, <3>1, AckType DEF DropBlocked
  <2> QED
    BY <1>9, <2>1 DEF DropBlocked, loop, kafka, offsets, disk, counts
<1>10. CASE AbortSend \/ EndBatch \/ EndFiles
  BY <1>10 DEF AbortSend, EndBatch, EndFiles, loop, tracker, kafka, offsets,
               disk, counts
<1>11. CASE \E m \in inflight : BrokerStores(m) \/ Undelivered(m)
  <2>1. PICK m \in inflight : BrokerStores(m) \/ Undelivered(m)
    BY <1>11
  <2>2. CASE BrokerStores(m)
    BY <2>2 DEF BrokerStores, loop, tracker, offsets, disk, counts
  <2>3. CASE Undelivered(m)
    <3>1. CASE ~broken
      BY <2>3, <3>1 DEF Undelivered, loop, tracker, offsets, disk
    <3>2. CASE broken
      BY <2>3, <3>2 DEF Undelivered, loop, tracker, offsets, disk, counts
    <3> QED
      BY <3>1, <3>2
  <2> QED
    BY <2>1, <2>2, <2>3
<1>12. CASE Report
  <2>1. PICK m \in inflight : Delivered(m)
    BY <1>12 DEF Report
  <2>2. m[1] \in Files /\ m[2] \in Nat
    BY LineParts
  <2>3. committed' \in Positions /\ acked' \in [Files -> SUBSET Nat]
    <3>1. tracked[m[1]] \in Nat
      BY <2>2 DEF Positions
    <3> QED
      BY <2>1, <2>2, <3>1, AckType DEF Delivered
  <2> QED
    BY <2>1, <2>3 DEF Delivered, Serving, loop, offsets, disk, counts
<1>13. CASE ProducerBreaks \/ FatalReport
  <2>1. CASE ProducerBreaks
    BY <2>1 DEF ProducerBreaks, loop, tracker, offsets, disk
  <2>2. CASE FatalReport
    BY <2>2 DEF FatalReport, loop, tracker, offsets, disk, counts
  <2> QED
    BY <1>13, <2>1, <2>2
<1>14. CASE ServeDone \/ FlushDone
  BY <1>14 DEF ServeDone, FlushDone, loop, tracker, kafka, offsets, disk, counts
<1>15. CASE Save
  BY <1>15 DEF Save, Commit, Rotate, Install, StateFiles, loop, tracker, kafka,
               offsets, counts
<1>16. CASE SaveFails
  BY <1>16 DEF SaveFails, Fault, loop, tracker, kafka, offsets
<1>17. CASE Exit \/ Signal \/ Crash \/ Damage
  <2>1. CASE Exit
    BY <2>1 DEF Exit, loop, tracker, offsets, disk, counts
  <2>2. CASE Signal
    BY <2>2 DEF Signal, Fault, loop, tracker, kafka, offsets, disk
  <2>3. CASE Crash
    <3>1. UNCHANGED <<todo, cur, hand, stop, committed, tracked, acked, topic, broken,
                      fatal, files, dirty, main, bak, after>>
      BY <2>3 DEF Crash, loop, tracker, offsets
    <3>2. pc' = "down" /\ blind' = FALSE /\ inflight' = {} /\ tmp' = Missing
          /\ faults' \in Nat /\ UNCHANGED <<fails, fatals, corruptions>>
      BY <2>3 DEF Crash, Fault
    <3> QED
      BY <3>1, <3>2
  <2>4. CASE Damage
    <3>1. blind' \in BOOLEAN
      BY <2>4, Zenon DEF Damage
    <3>2. main' \in StateFiles /\ bak' \in StateFiles
      BY <2>4 DEF Damage, StateFiles
    <3> QED
      BY <2>4, <3>1, <3>2 DEF Damage, loop, tracker, kafka, offsets
  <2> QED
    BY <1>17, <2>1, <2>2, <2>3, <2>4
<1>18. CASE UNCHANGED vars
  BY <1>18 DEF vars, loop, tracker, kafka, offsets, disk, counts
<1> QED
  BY <1>1, <1>2, <1>3, <1>4, <1>5, <1>6, <1>7, <1>8, <1>9, <1>10, <1>11,
     <1>12, <1>13, <1>14, <1>15, <1>16, <1>17, <1>18
     DEF Next, DoLine, Unblock

\* The initial states are well-typed.
LEMMA InitType == Init => TypeOK /\ LoopInv
<1>1. Zero \in Positions /\ [f \in Files |-> {}] \in [Files -> SUBSET Nat]
  BY DEF Zero, Positions
<1>2. ASSUME Init PROVE TypeOK
  <2>1. pc = "down" /\ todo = {} /\ cur \in Files /\ inflight = {} /\ topic = {}
    BY <1>2 DEF Init
  <2>2. committed = Zero /\ tracked = Zero /\ files = Zero
        /\ acked = [f \in Files |-> {}] /\ after = "turn"
    BY <1>2 DEF Init
  <2>3. hand \in Nat /\ faults \in Nat /\ fails \in Nat /\ fatals \in Nat
        /\ corruptions \in Nat
    BY <1>2 DEF Init
  <2>4. stop \in BOOLEAN /\ broken \in BOOLEAN /\ fatal \in BOOLEAN
        /\ dirty \in BOOLEAN /\ blind \in BOOLEAN
    BY <1>2, Zenon DEF Init
  <2>5. main = Missing /\ bak = Missing /\ tmp = Missing
    BY <1>2 DEF Init
  <2> QED
    BY <1>1, <2>1, <2>2, <2>3, <2>4, <2>5 DEF TypeOK, StateFiles
<1> QED
  BY <1>2 DEF Init, LoopInv

\* The type invariant of the delivery path holds in every behaviour: what is
\* in flight, stored or checkpointed is always a line or a position of a file.
THEOREM TypeCorrect == Spec => []TypeOK
<1>1. Init => TypeOK /\ LoopInv
  BY InitType
<1>2. TypeOK /\ LoopInv /\ [Next]_vars => TypeOK' /\ LoopInv'
  BY TypeStep
<1> QED
  BY <1>1, <1>2, PTL DEF Spec

-----------------------------------------------------------------------------
(***************************************************************************)
(* No checkpoint skips a line.  The invariant that carries the proof adds  *)
(* to the two state files everything a checkpoint is made from: the        *)
(* temporary file, the committed position, and the lines settled beyond it *)
(* that ack() will pass over later.                                        *)
(***************************************************************************)
AckedSettled == \A f \in Files : \A i \in acked[f] :
                   i \in 1..Len(Source[f]) => Settled(f, i)

SkipInv ==
  /\ ~broken
  /\ AckedSettled
  /\ Covered(committed)
  /\ \A s \in {main, bak, tmp} : Usable(s) => Covered(s)

\* ack() of a settled line leaves only settled lines behind the committed
\* position.
LEMMA AckSettled ==
  ASSUME TypeOK, SkipInv, NEW f \in Files, NEW k \in Nat, NEW last \in Nat,
         k \in 1..Len(Source[f]) => Settled(f, k),
         Ack(f, acked[f] \cup {k}, last), topic' = topic
  PROVE  AckedSettled' /\ Covered(committed)'
<1>1. PICK n \in committed[f] .. last :
        /\ (committed[f] + 1) .. n \subseteq acked[f] \cup {k}
        /\ committed' = [committed EXCEPT ![f] = n]
        /\ acked' = [acked EXCEPT ![f] = {i \in acked[f] \cup {k} : i > n}]
  BY DEF Ack
<1>2. committed[f] \in Nat /\ n \in Nat
  BY DEF TypeOK, Positions
<1>3. \A g \in Files : \A i : Settled(g, i)' <=> Settled(g, i)
  BY DEF Settled
<1>4. \A i \in acked[f] \cup {k} : i \in 1..Len(Source[f]) => Settled(f, i)
  BY DEF SkipInv, AckedSettled
<1>5. AckedSettled'
  <2> SUFFICES ASSUME NEW g \in Files, NEW i \in acked'[g], i \in 1..Len(Source[g])
               PROVE  Settled(g, i)
    BY <1>3 DEF AckedSettled
  <2>1. CASE g = f
    BY <2>1, <1>1, <1>4 DEF TypeOK
  <2>2. CASE g # f
    BY <2>2, <1>1 DEF TypeOK, SkipInv, AckedSettled
  <2> QED
    BY <2>1, <2>2
<1>6. Covered(committed)'
  <2> SUFFICES ASSUME NEW g \in Files, NEW i \in 1..Len(Source[g]),
                      i <= committed'[g]
               PROVE  Settled(g, i)
    BY <1>3 DEF Covered
  <2>1. CASE g # f \/ i <= committed[f]
    BY <2>1, <1>1, <1>2 DEF TypeOK, Positions, SkipInv, Covered
  <2>2. CASE g = f /\ ~(i <= committed[f])
    <3>1. i \in (committed[f] + 1) .. n
      BY <2>2, <1>1, <1>2, SourceAssumption DEF TypeOK, Positions
    <3> QED
      BY <2>2, <3>1, <1>1, <1>4
  <2> QED
    BY <2>1, <2>2
<1> QED
  BY <1>5, <1>6

\* The topic only grows, so what is settled stays settled.
LEMMA SettledStays ==
  ASSUME topic \subseteq topic', NEW f \in Files, NEW i, Settled(f, i)
  PROVE  Settled(f, i)'
BY DEF Settled

\* Every step keeps the topic, and every step but Report, SkipLine and
\* DropLine keeps the tracker or resets it to a checkpoint.
LEMMA SkipStep ==
  ASSUME MaxFatal = 0, TypeOK, LoopInv, SkipInv, [Next]_vars
  PROVE  SkipInv'
<1>1. ASSUME topic \subseteq topic', UNCHANGED <<broken, committed, acked>>,
             main' \in {main, bak, tmp, Missing, Corrupt},
             bak' \in {main, bak, tmp, Missing, Corrupt},
             tmp' \in {main, bak, tmp, committed, Missing, Corrupt}
      PROVE  SkipInv'
  <2>1. AckedSettled'
    BY <1>1, SettledStays DEF SkipInv, AckedSettled
  <2>2. Covered(committed)'
    BY <1>1, SettledStays DEF SkipInv, Covered
  <2>3. \A s \in {main, bak, tmp, committed} :
          Usable(s) => \A f \in Files : \A i \in 1..Len(Source[f]) :
                          i <= s[f] => Settled(f, i)'
    BY <1>1, SettledStays DEF SkipInv, Covered
  <2>4. (\A s \in {main, bak, tmp} : Usable(s) => Covered(s))'
    BY <1>1, <2>3 DEF Covered, Usable
  <2> QED
    BY <1>1, <2>1, <2>2, <2>4 DEF SkipInv
<1>2. CASE Load
  <2>1. UNCHANGED <<topic, tmp>> /\ broken' = FALSE
        /\ main' \in {main, Missing} /\ bak' \in {bak, Missing}
    <3>1. CASE LoadMain
      BY <3>1 DEF LoadMain, Quarantined
    <3>2. CASE LoadBackup
      BY <3>2 DEF LoadBackup, Quarantined, kafka, SkipInv
    <3> QED
      BY <1>2, <3>1, <3>2 DEF Load
  <2>2. Covered(committed')
    <3>1. committed' = Zero \/ (Usable(main) /\ committed' = main)
                            \/ (Usable(bak) /\ committed' = bak)
      BY <1>2 DEF Load, LoadMain, LoadBackup, Begin
    <3>2. Covered(Zero)
      BY DEF Covered, Zero
    <3> QED
      BY <3>1, <3>2 DEF SkipInv
  <2>3. Covered(committed)'
    BY <2>1, <2>2 DEF Covered, Settled
  <2>4. AckedSettled'
    <3>1. UNCHANGED acked \/ acked' = [f \in Files |-> {}]
      BY <1>2 DEF Load, LoadMain, LoadBackup
    <3> QED
      BY <2>1, <3>1 DEF SkipInv, AckedSettled, Settled
  <2>5. (\A s \in {main, bak, tmp} : Usable(s) => Covered(s))'
    BY <2>1 DEF SkipInv, Covered, Settled, Usable
  <2> QED
    BY <2>1, <2>3, <2>4, <2>5 DEF SkipInv
<1>3. CASE Turn \/ PollSome \/ SendLine \/ QueueFull \/ SendBlocked \/ AbortSend
           \/ EndBatch \/ EndFiles \/ ServeDone \/ FlushDone \/ FatalReport
           \/ Exit \/ Signal
  BY <1>1, <1>3 DEF Turn, PollSome, Poll, SendLine, QueueFull, Take, SendBlocked,
        AbortSend, EndBatch, EndFiles, ServeDone, FlushDone, FatalReport, Exit,
        Signal, tracker, kafka, disk
<1>4. CASE SkipLine
  <2>1. NextLine \in Nat /\ Settled(cur, NextLine)
    BY <1>4 DEF SkipLine, NextLine, TypeOK, Positions, Settled
  <2>2. AckedSettled' /\ Covered(committed)'
    BY <1>4, <2>1, AckSettled DEF SkipLine, Take, TypeOK
  <2>3. UNCHANGED <<broken, topic, main, bak, tmp>>
    BY <1>4 DEF SkipLine, Take, disk
  <2> QED
    BY <2>2, <2>3 DEF SkipInv, Covered, Settled
<1>5. CASE DropLine
  <2>1. NextLine \in Nat /\ Settled(cur, NextLine)
    BY <1>5 DEF DropLine, NextLine, TypeOK, Positions, Settled, SkipInv
  <2>2. AckedSettled' /\ Covered(committed)'
    BY <1>5, <2>1, AckSettled DEF DropLine, Take, TypeOK
  <2>3. UNCHANGED <<broken, topic, main, bak, tmp>>
    BY <1>5 DEF DropLine, Take, disk
  <2> QED
    BY <2>2, <2>3 DEF SkipInv, Covered, Settled
<1>6. CASE DropBlocked
  BY <1>6 DEF DropBlocked, SkipInv
<1>7. CASE \E m \in inflight : BrokerStores(m) \/ Undelivered(m)
  <2>1. PICK m \in inflight : BrokerStores(m) \/ Undelivered(m)
    BY <1>7
  <2> QED
    BY <1>1, <2>1 DEF BrokerStores, Undelivered, tracker, disk
<1>8. CASE Report
  <2>1. PICK m \in inflight : Delivered(m)
    BY <1>8 DEF Report
  <2>2. m[1] \in Files /\ m[2] \in Nat /\ m = <<m[1], m[2]>>
    BY LineParts DEF TypeOK
  <2>3. Settled(m[1], m[2])
    BY <2>1, <2>2 DEF Delivered, Settled
  <2>4. tracked[m[1]] \in Nat
    BY <2>2 DEF TypeOK, Positions
  <2>5. AckedSettled' /\ Covered(committed)'
    BY <2>1, <2>2, <2>3, <2>4, AckSettled DEF Delivered
  <2>6. UNCHANGED <<broken, topic, main, bak, tmp>>
    BY <2>1 DEF Delivered, disk
  <2> QED
    BY <2>5, <2>6 DEF SkipInv, Covered, Settled
<1>9. CASE ProducerBreaks
  BY <1>9 DEF ProducerBreaks, TypeOK
<1>10. CASE Save \/ SaveFails
  BY <1>1, <1>10 DEF Save, Commit, Rotate, Install, SaveFails, tracker, kafka
<1>11. CASE Crash \/ Damage
  BY <1>1, <1>11 DEF Crash, Damage, tracker, kafka
<1>12. CASE UNCHANGED vars
  BY <1>1, <1>12 DEF vars, tracker, kafka, disk
<1> QED
  BY <1>2, <1>3, <1>4, <1>5, <1>6, <1>7, <1>8, <1>9, <1>10, <1>11, <1>12
     DEF Next, DoLine, Unblock

\* As long as the producer never turns fatal, no checkpoint in state.json or
\* its backup lies beyond a line Kafka has not stored, for any files, any
\* order of delivery reports and any number of crashes and failed saves.
THEOREM NothingIsSkipped == MaxFatal = 0 => (Spec => []NothingSkipped)
<1> SUFFICES ASSUME MaxFatal = 0
             PROVE  Spec => []NothingSkipped
  OBVIOUS
<1>1. Init => TypeOK /\ LoopInv /\ SkipInv
  <2>1. Init => TypeOK /\ LoopInv
    BY InitType
  <2>2. Init => SkipInv
    BY SourceAssumption
       DEF Init, SkipInv, AckedSettled, Covered, Usable, Zero
  <2> QED
    BY <2>1, <2>2
<1>2. TypeOK /\ LoopInv /\ SkipInv /\ [Next]_vars
        => TypeOK' /\ LoopInv' /\ SkipInv'
  BY TypeStep, SkipStep
<1>3. SkipInv => NothingSkipped
  BY DEF SkipInv, NothingSkipped
<1> QED
  BY <1>1, <1>2, <1>3, PTL DEF Spec

-----------------------------------------------------------------------------
(***************************************************************************)
(* Checkpoints only move forward.  Once the process has loaded one, and    *)
(* unless it is blind to what happened to it, state.json is either good or *)
(* absent, and what is on disk is no newer than the committed position; a  *)
(* save in progress brings something at least as new.  What a blind one    *)
(* writes is no newer than its committed position either, so the save that *)
(* ends the blindness restores the rest.                                   *)
(***************************************************************************)
Upto(s, t) == \A f \in Files : s[f] <= t[f]

AgeInv ==
  /\ pc = "down" => ~blind
  /\ pc = "backup" /\ ~blind => main = Missing
  /\ pc \notin {"down", "backup"} /\ ~blind =>
       main # Corrupt /\ Upto(Loadable, committed)
  /\ pc \in {"rotate", "install"} =>
       Usable(tmp) /\ Upto(tmp, committed) /\ (~blind => Upto(Loadable, tmp))

\* What one step does to the checkpoint a start would load, unless it is one
\* that damages a file, or one of a process that is blind to a damage.
Advances == Upto(Loadable, Loadable') /\ (Usable(bak) => Usable(bak'))

\* ack() never takes the committed position back.
LEMMA AckAdvances ==
  ASSUME TypeOK, NEW f \in Files, NEW done, NEW last \in Nat,
         Ack(f, done, last)
  PROVE  Upto(committed, committed')
<1>1. PICK n \in committed[f] .. last : committed' = [committed EXCEPT ![f] = n]
  BY DEF Ack
<1> QED
  BY <1>1 DEF TypeOK, Positions, Upto

LEMMA AgeStep ==
  ASSUME TypeOK, AgeInv, [Next]_vars
  PROVE  AgeInv' /\ (~blind /\ corruptions' = corruptions => Advances)
<1>1. Loadable \in Positions
  BY LoadableType
<1>2. ASSUME UNCHANGED <<main, bak, blind>>, pc \notin {"down", "backup"},
             pc' \notin {"down", "backup"},
             pc' \in {"rotate", "install"} =>
               pc \in {"rotate", "install"} /\ UNCHANGED <<tmp, committed>>,
             Upto(committed, committed'), committed' \in Positions
      PROVE  AgeInv' /\ Advances
  <2>1. Loadable' = Loadable
    BY <1>2 DEF Loadable, Usable
  <2>2. ~blind => Upto(Loadable, committed)'
    BY <1>1, <1>2, <2>1 DEF AgeInv, Upto, TypeOK, Positions
  <2> QED
    BY <1>1, <1>2, <2>1, <2>2 DEF AgeInv, Advances, Upto, Usable, Positions
<1>3. CASE UNCHANGED <<main, bak, blind, committed>> /\ pc \notin {"down", "backup"}
           /\ pc' \notin {"down", "backup", "rotate", "install"}
  <2>1. Upto(committed, committed') /\ committed' \in Positions
    BY <1>3 DEF TypeOK, Positions, Upto
  <2> QED
    BY <1>2, <1>3, <2>1
<1>4. CASE LoadMain
  <2>1. ~blind /\ bak' = bak
    BY <1>4 DEF LoadMain, AgeInv
  <2>2. CASE Usable(main) /\ Begin(main) /\ pc' = "commit" /\ blind' = FALSE
             /\ main' = main
    <3>1. Loadable' = Loadable /\ Loadable = main /\ main # Corrupt
      BY <2>1, <2>2 DEF Loadable, Usable
    <3> QED
      BY <1>1, <2>1, <2>2, <3>1 DEF Begin, AgeInv, Advances, Upto, Usable, Positions
  <2>3. CASE main = Missing /\ main' = main /\ pc' = "backup"
    <3>1. Loadable' = Loadable
      BY <2>1, <2>3 DEF Loadable, Usable
    <3> QED
      BY <1>1, <2>1, <2>3, <3>1 DEF AgeInv, Advances, Upto, Usable, Positions
  <2>4. CASE Quarantined(main, main') /\ pc' = "backup"
             /\ blind' = (faults' # faults)
    <3>0. main' = Missing \/ faults' # faults
      BY <2>4 DEF Quarantined, TypeOK
    <3>1. ~blind' => main' = Missing
      BY <2>4, <3>0, Zenon
    <3>2. corruptions' = corruptions => Loadable' = Loadable
      BY <2>1, <2>4 DEF Quarantined, Unreadable, TypeOK, Loadable, Usable
    <3> QED
      BY <1>1, <2>1, <2>4, <3>1, <3>2 DEF AgeInv, Advances, Upto, Usable, Positions
  <2> QED
    BY <1>4, <2>2, <2>3, <2>4 DEF LoadMain
<1>17. CASE LoadBackup
  <2>1. pc = "backup" /\ pc' = "commit" /\ main' = main
    BY <1>17 DEF LoadBackup
  <2>2. CASE Usable(bak) /\ Begin(bak) /\ UNCHANGED <<bak, blind>>
    <3>1. ~blind => main = Missing /\ Loadable = bak /\ Loadable' = bak
      BY <2>1, <2>2 DEF AgeInv, Loadable, Usable
    <3> QED
      BY <1>1, <2>1, <2>2, <3>1, StateFileAssumption
         DEF Begin, AgeInv, Advances, Upto, Usable, Positions
  <2>3. CASE bak = Missing /\ Begin(Zero) /\ UNCHANGED <<bak, blind>>
    <3>1. ~blind => main = Missing /\ Loadable = Zero /\ Loadable' = Zero
      BY <2>1, <2>3 DEF AgeInv, Loadable, Usable
    <3> QED
      BY <1>1, <2>1, <2>3, <3>1, StateFileAssumption
         DEF Begin, AgeInv, Advances, Upto, Usable, Positions
  <2>4. CASE Quarantined(bak, bak') /\ Begin(Zero)
             /\ blind' = (blind \/ (Usable(bak) /\ faults' # faults))
    <3>0. \/ ~Usable(bak')
          \/ Usable(bak) /\ faults' # faults
      BY <2>4 DEF Quarantined, Unreadable, TypeOK, Usable
    <3>1. ~blind' => ~blind /\ ~Usable(bak')
      BY <2>4, <3>0, Zenon
    <3>2. ~blind => main = Missing
      BY <2>1 DEF AgeInv
    <3>3. ~blind' => main' = Missing /\ Loadable' = Zero
      BY <2>1, <3>1, <3>2 DEF Loadable, Usable
    <3>4. corruptions' = corruptions => ~Usable(bak) /\ ~Usable(bak')
      BY <2>4 DEF Quarantined, Unreadable, TypeOK, Usable
    <3>5. ~blind /\ corruptions' = corruptions => Loadable' = Zero /\ Loadable = Zero
      BY <2>1, <3>2, <3>4 DEF Loadable, Usable
    <3>6. Upto(Zero, Zero)
      BY DEF Upto, Zero
    <3>7. AgeInv'
      BY <2>1, <2>4, <3>3, <3>6, StateFileAssumption DEF Begin, AgeInv
    <3> QED
      BY <3>4, <3>5, <3>6, <3>7 DEF Advances
  <2> QED
    BY <1>17, <2>2, <2>3, <2>4 DEF LoadBackup
<1>5. CASE SkipLine
  <2>1. Upto(committed, committed')
    BY <1>5, AckAdvances DEF SkipLine, NextLine, TypeOK, Positions
  <2>2. committed' \in Positions
    <3>1. NextLine \in Nat /\ acked[cur] \cup {NextLine} \in SUBSET Nat
      BY DEF NextLine, TypeOK, Positions
    <3>2. cur \in Files /\ Ack(cur, acked[cur] \cup {NextLine}, NextLine)
      BY <1>5 DEF SkipLine, TypeOK
    <3> QED
      BY <3>1, <3>2, AckType
  <2> QED
    BY <1>2, <1>5, <2>1, <2>2 DEF SkipLine, Take, disk
<1>6. CASE DropLine
  <2>1. Upto(committed, committed')
    BY <1>6, AckAdvances DEF DropLine, NextLine, TypeOK, Positions
  <2>2. committed' \in Positions
    <3>1. NextLine \in Nat /\ acked[cur] \cup {NextLine} \in SUBSET Nat
      BY DEF NextLine, TypeOK, Positions
    <3>2. cur \in Files /\ Ack(cur, acked[cur] \cup {NextLine}, NextLine)
      BY <1>6 DEF DropLine, TypeOK
    <3> QED
      BY <3>1, <3>2, AckType
  <2> QED
    BY <1>2, <1>6, <2>1, <2>2 DEF DropLine, Take, disk
<1>7. CASE DropBlocked
  <2>1. Upto(committed, committed')
    BY <1>7, AckAdvances DEF DropBlocked, TypeOK, Positions
  <2>2. committed' \in Positions
    BY <1>7, AckType DEF DropBlocked, TypeOK, Positions
  <2> QED
    BY <1>2, <1>7, <2>1, <2>2 DEF DropBlocked, disk
<1>8. CASE Report
  <2>1. PICK m \in inflight : Delivered(m)
    BY <1>8 DEF Report
  <2>2. m[1] \in Files /\ m[2] \in Nat
    BY LineParts DEF TypeOK
  <2>3. tracked[m[1]] \in Nat /\ acked[m[1]] \cup {m[2]} \in SUBSET Nat
    BY <2>2 DEF TypeOK, Positions
  <2>4. Upto(committed, committed')
    BY <2>1, <2>2, <2>3, AckAdvances DEF Delivered
  <2>5. committed' \in Positions
    BY <2>1, <2>2, <2>3, AckType DEF Delivered
  <2> QED
    BY <1>2, <2>1, <2>4, <2>5 DEF Delivered, Serving, disk
<1>9. CASE Turn \/ PollSome \/ SendLine \/ QueueFull \/ SendBlocked \/ AbortSend
           \/ EndBatch \/ EndFiles \/ ServeDone \/ FlushDone \/ FatalReport
  BY <1>3, <1>9 DEF Turn, PollSome, Poll, SendLine, QueueFull, Take, SendBlocked,
        AbortSend, EndBatch, EndFiles, ServeDone, FlushDone, FatalReport,
        Serving, tracker, disk
<1>10. CASE (\E m \in inflight : BrokerStores(m) \/ Undelivered(m))
            \/ ProducerBreaks \/ Signal \/ UNCHANGED vars
  <2>1. UNCHANGED <<pc, tmp, main, bak, blind, committed>>
    BY <1>10 DEF BrokerStores, Undelivered, ProducerBreaks, Signal, vars,
                 tracker, disk
  <2>2. Loadable' = Loadable
    BY <2>1 DEF Loadable, Usable
  <2> QED
    BY <1>1, <2>1, <2>2 DEF AgeInv, Advances, Upto, Usable, Positions
<1>11. CASE Commit
  <2>1. UNCHANGED <<main, bak, blind, committed>> /\ pc = "commit"
    BY <1>11 DEF Commit, tracker
  <2>2. Loadable' = Loadable
    BY <2>1 DEF Loadable, Usable
  <2>3. /\ pc' \in {"rotate", "install"} => tmp' = committed
        /\ pc' \notin {"down", "backup"}
    BY <1>11 DEF Commit, TypeOK
  <2>4. Usable(committed)
    BY StateFileAssumption DEF TypeOK, Usable
  <2>5. Upto(committed, committed)
    BY DEF TypeOK, Positions, Upto
  <2>6. Upto(Loadable, Loadable)
    BY <1>1 DEF Positions, Upto
  <2> QED
    BY <2>1, <2>2, <2>3, <2>4, <2>5, <2>6 DEF AgeInv, Advances, Upto, Usable
<1>12. CASE Rotate
  <2>1. UNCHANGED <<tmp, blind, committed>> /\ pc = "rotate" /\ pc' = "install"
    BY <1>12 DEF Rotate, tracker
  <2>2. ~blind => Loadable' = Loadable /\ main' # Corrupt
    BY <1>12, <2>1, StateFileAssumption DEF Rotate, AgeInv, Loadable, Usable
  <2>3. ~blind => (Usable(bak) => Usable(bak'))
    BY <1>12, <2>1 DEF Rotate, AgeInv, Usable
  <2> QED
    BY <1>1, <2>1, <2>2, <2>3 DEF AgeInv, Advances, Upto, Usable, Positions
<1>13. CASE Install
  <2>1. main' = tmp /\ UNCHANGED <<bak, committed>> /\ pc = "install"
        /\ pc' \in {"turn", "exit"}
    BY <1>13 DEF Install, tracker, TypeOK
  <2>2. Loadable' = tmp /\ main' # Corrupt
    BY <2>1 DEF AgeInv, Loadable, Usable
  <2> QED
    BY <2>1, <2>2 DEF AgeInv, Advances, Upto, Usable
<1>14. CASE SaveFails
  BY <1>3, <1>14 DEF SaveFails, tracker, TypeOK
<1>15. CASE Exit \/ Crash
  <2>1. UNCHANGED <<main, bak>> /\ pc' = "down" /\ blind' = FALSE
    BY <1>15 DEF Exit, Crash, disk
  <2>2. Loadable' = Loadable
    BY <2>1 DEF Loadable, Usable
  <2> QED
    BY <1>1, <2>1, <2>2 DEF AgeInv, Advances, Upto, Usable, Positions
<1>16. CASE Damage
  <2>1. corruptions' # corruptions /\ UNCHANGED <<pc, tmp, committed>>
    BY <1>16 DEF Damage, TypeOK, tracker
  <2>2. CASE main # Missing /\ blind' = (pc # "down")
    BY <2>1, <2>2 DEF AgeInv
  <2>3. CASE bak' \in {Corrupt, Missing} /\ UNCHANGED <<main, blind>>
    <3>1. Loadable' = Loadable \/ Loadable' = Zero
      BY <2>3 DEF Loadable, Usable
    <3>2. Upto(Zero, committed) /\ (Usable(tmp) => Upto(Zero, tmp))
      BY DEF Upto, Zero, TypeOK, Positions, Usable
    <3> QED
      BY <2>1, <2>3, <3>1, <3>2 DEF AgeInv
  <2> QED
    BY <1>16, <2>2, <2>3 DEF Damage
<1> QED
  BY <1>4, <1>5, <1>6, <1>7, <1>8, <1>9, <1>10, <1>11, <1>12, <1>13, <1>14,
     <1>15, <1>16, <1>17
     DEF Next, Load, DoLine, Unblock, Save

LEMMA AgeAlways == Spec => [](TypeOK /\ AgeInv)
<1>1. Init => TypeOK /\ LoopInv /\ AgeInv
  BY InitType DEF Init, AgeInv
<1>2. TypeOK /\ LoopInv /\ AgeInv /\ [Next]_vars
        => TypeOK' /\ LoopInv' /\ AgeInv'
  BY TypeStep, AgeStep
<1> QED
  BY <1>1, <1>2, PTL DEF Spec

\* The checkpoint a start would load never gets older, wherever in a save the
\* process dies or an error strikes: only damage to a file takes it back, or a
\* process that does not know that the file it saved last is damaged.
THEOREM CheckpointsAdvance == Spec => CheckpointNeverRegresses
<1>1. TypeOK /\ AgeInv /\ [Next]_vars
        => [~blind /\ corruptions' = corruptions =>
              \A f \in Files : Loadable'[f] >= Loadable[f]]_vars
  <2> SUFFICES ASSUME TypeOK, AgeInv, [Next]_vars,
                      ~blind, corruptions' = corruptions
               PROVE  \A f \in Files : Loadable'[f] >= Loadable[f]
    BY Zenon
  <2> QED
    BY AgeStep DEF Advances, Upto
<1> QED
  BY <1>1, AgeAlways, PTL DEF Spec, CheckpointNeverRegresses

\* A start keeps a damaged state.json from the backup: a backup, once there,
\* stays usable unless it is itself damaged, or the process is blind (the
\* rename that quarantines state.json failed, or it was damaged afterwards).
THEOREM BackupSurvives == Spec => BackupStaysUsable
<1>1. TypeOK /\ AgeInv /\ [Next]_vars
        => [~blind /\ corruptions' = corruptions /\ Usable(bak)
              => Usable(bak')]_vars
  <2> SUFFICES ASSUME TypeOK, AgeInv, [Next]_vars,
                      ~blind, corruptions' = corruptions, Usable(bak)
               PROVE  Usable(bak')
    BY Zenon
  <2> QED
    BY AgeStep DEF Advances
<1> QED
  BY <1>1, AgeAlways, PTL DEF Spec, BackupStaysUsable

-----------------------------------------------------------------------------
(***************************************************************************)
(* The checkpoints implement Checkpoints.  Beyond the two invariants above *)
(* this needs that save() brings the new file to its place only when       *)
(* state.json is out of the way: until then a start would load the backup. *)
(***************************************************************************)
ClearInv == pc = "install" => main = Missing

LEMMA ClearStep ==
  ASSUME TypeOK, ClearInv, [Next]_vars
  PROVE  ClearInv'
<1>1. ASSUME UNCHANGED main, pc' = "install" => pc = "install"
      PROVE  ClearInv'
  BY <1>1 DEF ClearInv
<1>2. CASE Load
  BY <1>2 DEF Load, LoadMain, LoadBackup, ClearInv
<1>3. CASE DoLine \/ Unblock \/ Report
  BY <1>1, <1>3 DEF DoLine, SkipLine, DropLine, SendLine, QueueFull, Take, Unblock,
     SendBlocked, DropBlocked, AbortSend, Report, Delivered, Serving, disk
<1>4. CASE Turn \/ PollSome \/ EndBatch \/ EndFiles \/ ServeDone \/ FlushDone
           \/ FatalReport \/ ProducerBreaks
           \/ (\E m \in inflight : BrokerStores(m) \/ Undelivered(m))
  BY <1>1, <1>4 DEF Turn, PollSome, Poll, EndBatch, EndFiles, ServeDone, FlushDone,
     FatalReport, ProducerBreaks, BrokerStores, Undelivered, Serving, disk, ClearInv
<1>5. CASE Save
  <2>1. CASE Commit
    BY <2>1 DEF Commit, ClearInv, TypeOK
  <2>2. CASE Rotate
    BY <2>2 DEF Rotate, ClearInv
  <2>3. CASE Install
    BY <2>3 DEF Install, ClearInv, TypeOK
  <2> QED
    BY <1>5, <2>1, <2>2, <2>3 DEF Save
<1>6. CASE SaveFails \/ Exit \/ Signal \/ Crash \/ UNCHANGED vars
  BY <1>1, <1>6 DEF SaveFails, Exit, Signal, Crash, vars, disk, ClearInv, TypeOK
<1>7. CASE Damage
  BY <1>7 DEF Damage, ClearInv
<1> QED
  BY <1>2, <1>3, <1>4, <1>5, <1>6, <1>7 DEF Next

\* A corrupt file and a blind process are the work of a damage.
DamageInv ==
  /\ corruptions \in Nat
  /\ main = Corrupt \/ bak = Corrupt \/ blind => corruptions > 0

LEMMA DamageStep ==
  ASSUME TypeOK, DamageInv, [Next]_vars
  PROVE  DamageInv'
<1>1. ASSUME UNCHANGED <<main, bak, corruptions>>, blind' \in {blind, FALSE}
      PROVE  DamageInv'
  <2>1. blind' => blind
    BY <1>1, Zenon
  <2> QED
    BY <1>1, <2>1 DEF DamageInv
<1>2. CASE Load
  <2>1. ASSUME NEW s, NEW place, Quarantined(s, place), s = Corrupt => corruptions > 0
        PROVE  /\ corruptions' \in Nat /\ corruptions' > 0
               /\ place \in {s, Missing}
    BY <2>1 DEF Quarantined, Unreadable, DamageInv
  <2>2. CASE LoadMain
    <3>1. CASE UNCHANGED <<main, counts>> /\ blind' = FALSE
      BY <2>2, <3>1 DEF LoadMain, DamageInv, counts
    <3>2. CASE Quarantined(main, main')
      BY <2>1, <2>2, <3>2 DEF LoadMain, DamageInv
    <3> QED
      BY <2>2, <3>1, <3>2 DEF LoadMain
  <2>3. CASE LoadBackup
    <3>1. CASE UNCHANGED <<bak, blind, counts>>
      BY <2>3, <3>1 DEF LoadBackup, DamageInv, counts
    <3>2. CASE Quarantined(bak, bak')
      BY <2>1, <2>3, <3>2 DEF LoadBackup, DamageInv
    <3> QED
      BY <2>3, <3>1, <3>2 DEF LoadBackup
  <2> QED
    BY <1>2, <2>2, <2>3 DEF Load
<1>3. CASE DoLine \/ Unblock \/ Report
  BY <1>1, <1>3 DEF DoLine, SkipLine, DropLine, SendLine, QueueFull, Take, Unblock,
     SendBlocked, DropBlocked, AbortSend, Report, Delivered, disk, counts
<1>4. CASE Turn \/ PollSome \/ EndBatch \/ EndFiles \/ ServeDone \/ FlushDone
           \/ FatalReport \/ ProducerBreaks \/ Commit
           \/ (\E m \in inflight : BrokerStores(m) \/ Undelivered(m))
  BY <1>1, <1>4 DEF Turn, PollSome, Poll, EndBatch, EndFiles, ServeDone, FlushDone,
     FatalReport, ProducerBreaks, Commit, BrokerStores, Undelivered, disk, counts
<1>5. CASE Rotate
  BY <1>5, StateFileAssumption DEF Rotate, DamageInv, counts
<1>6. CASE Install
  BY <1>6, StateFileAssumption DEF Install, DamageInv, TypeOK, counts
<1>7. CASE SaveFails \/ Exit \/ Signal \/ Crash \/ UNCHANGED vars
  BY <1>1, <1>7 DEF SaveFails, Fault, Exit, Signal, Crash, vars, disk, counts
<1>8. CASE Damage
  <2>1. corruptions' \in Nat /\ corruptions' > 0
    BY <1>8 DEF Damage, DamageInv
  <2> QED
    BY <2>1 DEF DamageInv
<1> QED
  BY <1>2, <1>3, <1>4, <1>5, <1>6, <1>7, <1>8 DEF Next, Save

\* Every step is a step of Checkpoints or none.
LEMMA CheckpointStep ==
  ASSUME TypeOK, SkipInv, AgeInv, ClearInv, DamageInv, [Next]_vars
  PROVE  [Contract!AbsNext]_(Contract!absVars)
<1>1. ASSUME UNCHANGED <<main, bak, topic, corruptions, blind>>
      PROVE  [Contract!AbsNext]_(Contract!absVars)
  BY <1>1 DEF Contract!absVars, Loadable, Backup, Usable
<1>10. ASSUME UNCHANGED <<Loadable, Backup, topic, corruptions>>,
              blind' \in {FALSE, corruptions > 0}
       PROVE  [Contract!AbsNext]_(Contract!absVars)
  BY <1>10 DEF Contract!AbsNext, Contract!Blinded
<1>11. ASSUME corruptions' = corruptions + 1, topic' = topic, blind' \in BOOLEAN,
              \/ Loadable' \in {Loadable, Backup} /\ Backup' = Backup
              \/ Loadable' = Loadable /\ Backup' = Zero
              \/ Loadable = Backup /\ Loadable' = Zero /\ Backup' = Zero
       PROVE  [Contract!AbsNext]_(Contract!absVars)
  BY <1>11 DEF Contract!AbsNext, Contract!FallBack, Contract!Fresh, Zero
<1>2. CASE LoadMain
  <2>1. UNCHANGED <<topic, bak>> /\ Backup' = Backup /\ blind' \in BOOLEAN
    BY <1>2 DEF LoadMain, Backup, Usable
  <2>2. CASE UNCHANGED <<main, counts>> /\ blind' = FALSE
    BY <1>10, <2>1, <2>2 DEF Loadable, Usable, counts
  <2>3. CASE Quarantined(main, main')
    <3>1. CASE main = Corrupt /\ UNCHANGED corruptions
      <4>1. Loadable' = Loadable
        BY <2>1, <2>3, <3>1 DEF Quarantined, Loadable, Usable
      <4> QED
        BY <1>10, <2>1, <3>1, <4>1 DEF DamageInv
    <3>2. CASE Usable(main) /\ corruptions' = corruptions + 1
      <4>1. Loadable' \in {Loadable, Backup}
        BY <2>1, <2>3, <3>2 DEF Quarantined, Loadable, Backup, Usable
      <4> QED
        BY <1>11, <2>1, <3>2, <4>1
    <3> QED
      BY <2>3, <3>1, <3>2 DEF Quarantined, Unreadable
  <2> QED
    BY <1>2, <2>2, <2>3 DEF LoadMain
<1>12. CASE LoadBackup
  <2>1. UNCHANGED <<topic, main>> /\ blind' \in BOOLEAN
    BY <1>12 DEF LoadBackup, kafka, TypeOK
  <2>2. CASE UNCHANGED <<bak, blind, counts>>
    BY <1>1, <2>1, <2>2 DEF counts
  <2>3. CASE Quarantined(bak, bak')
             /\ blind' = (blind \/ (Usable(bak) /\ faults' # faults))
    <3>1. CASE bak = Corrupt /\ UNCHANGED corruptions
      <4>1. Loadable' = Loadable /\ Backup' = Backup /\ blind' = blind
        BY <2>1, <2>3, <3>1 DEF Quarantined, Loadable, Backup, Usable, TypeOK
      <4> QED
        BY <2>1, <3>1, <4>1 DEF Contract!absVars
    <3>2. CASE Usable(bak) /\ corruptions' = corruptions + 1
      <4>1. \/ Loadable' = Loadable /\ Backup' = Backup
            \/ Loadable' = Loadable /\ Backup' = Zero
            \/ Loadable = Backup /\ Loadable' = Zero /\ Backup' = Zero
        BY <2>1, <2>3, <3>2 DEF Quarantined, Loadable, Backup, Usable
      <4> QED
        BY <1>11, <2>1, <3>2, <4>1
    <3> QED
      BY <2>3, <3>1, <3>2 DEF Quarantined, Unreadable
  <2> QED
    BY <1>12, <2>2, <2>3 DEF LoadBackup
<1>3. CASE DoLine \/ Unblock \/ Report
  BY <1>1, <1>3 DEF DoLine, SkipLine, DropLine, SendLine, QueueFull, Take, Unblock,
     SendBlocked, DropBlocked, AbortSend, Report, Delivered, disk, counts, kafka
<1>4. CASE Turn \/ PollSome \/ EndBatch \/ EndFiles \/ ServeDone \/ FlushDone
           \/ FatalReport \/ ProducerBreaks \/ Commit
  BY <1>1, <1>4 DEF Turn, PollSome, Poll, EndBatch, EndFiles, ServeDone, FlushDone,
     FatalReport, ProducerBreaks, Commit, disk, counts, kafka
<1>5. CASE \E m \in inflight : BrokerStores(m) \/ Undelivered(m)
  <2>1. PICK m \in inflight : BrokerStores(m) \/ Undelivered(m)
    BY <1>5
  <2>2. CASE BrokerStores(m)
    <3>1. m[1] \in Files /\ m[2] \in 1..Len(Source[m[1]]) /\ m = <<m[1], m[2]>>
      BY LineParts DEF TypeOK
    <3>2. UNCHANGED <<main, bak, corruptions, blind>> /\ topic' = topic \cup {m}
      BY <2>2 DEF BrokerStores, disk, counts
    <3>3. Loadable' = Loadable /\ Backup' = Backup
      BY <3>2 DEF Loadable, Backup, Usable
    <3>4. Contract!Store(m[1], m[2])
      BY <3>1, <3>2, <3>3 DEF Contract!Store
    <3> QED
      BY <3>1, <3>4 DEF Contract!AbsNext
  <2>3. CASE Undelivered(m)
    BY <1>1, <2>3 DEF Undelivered, disk, counts
  <2> QED
    BY <2>1, <2>2, <2>3
<1>6. CASE Rotate
  <2>1. UNCHANGED <<topic, corruptions, blind>> /\ pc = "rotate"
    BY <1>6 DEF Rotate, kafka, counts
  <2>2. CASE main = Missing
    BY <1>1, <1>6, <2>1, <2>2 DEF Rotate
  <2>3. CASE main # Missing /\ Usable(main)
    <3>1. bak' = main /\ main' = Missing
      BY <1>6, <2>3 DEF Rotate
    <3>2. Loadable' = Loadable /\ Backup' = Loadable
      BY <2>3, <3>1 DEF Loadable, Backup, Usable
    <3> QED
      BY <2>1, <3>2 DEF Contract!AbsNext, Contract!Spare
  <2>4. CASE main = Corrupt
    <3>1. bak' = Corrupt /\ main' = Missing
      BY <1>6, <2>4, StateFileAssumption DEF Rotate
    <3>2. blind
      BY <2>1, <2>4 DEF AgeInv, TypeOK
    <3>3. Loadable = Backup /\ Loadable' = Zero /\ Backup' = Zero
      BY <2>4, <3>1 DEF Loadable, Backup, Usable
    <3> QED
      BY <2>1, <3>2, <3>3 DEF Contract!AbsNext, Contract!Ruin, Contract!Fresh, Zero
  <2> QED
    BY <2>2, <2>3, <2>4 DEF Usable
<1>7. CASE Install
  <2>1. main' = tmp /\ UNCHANGED <<bak, topic, corruptions>> /\ pc = "install"
        /\ blind' = FALSE
    BY <1>7 DEF Install, kafka, counts
  <2>2. Usable(tmp) /\ (~blind => Upto(Loadable, tmp)) /\ Covered(tmp)
    BY <2>1 DEF AgeInv, SkipInv
  <2>3. Backup = Loadable /\ Loadable' = tmp /\ Backup' = Backup
    BY <2>1, <2>2 DEF ClearInv, Loadable, Backup, Usable
  <2>4. \A f \in Files : \A i \in 1..Len(Source[f]) :
          i <= tmp[f] => Contract!MayPass(f, i)
    BY <2>2 DEF Covered, Settled, Contract!MayPass
  <2> QED
    BY <2>1, <2>2, <2>3, <2>4 DEF Upto, Contract!AbsNext, Contract!Advance
<1>8. CASE Damage
  <2>1. corruptions' = corruptions + 1 /\ topic' = topic /\ blind' \in BOOLEAN
    BY <1>8 DEF Damage, kafka, TypeOK
  <2>2. CASE main' \in {Corrupt, Missing} /\ UNCHANGED bak
    <3>1. Loadable' = Backup /\ Backup' = Backup
      BY <2>2 DEF Loadable, Backup, Usable
    <3> QED
      BY <1>11, <2>1, <3>1
  <2>3. CASE bak' \in {Corrupt, Missing} /\ UNCHANGED main
    <3>1. \/ Loadable' = Loadable /\ Backup' = Zero
          \/ Loadable = Backup /\ Loadable' = Zero /\ Backup' = Zero
      BY <2>3 DEF Loadable, Backup, Usable
    <3> QED
      BY <1>11, <2>1, <3>1
  <2> QED
    BY <1>8, <2>2, <2>3 DEF Damage
<1>9. CASE SaveFails \/ Signal \/ UNCHANGED vars
  BY <1>1, <1>9 DEF SaveFails, Fault, Signal, vars, disk, counts, kafka
<1>13. CASE Exit \/ Crash
  <2>1. UNCHANGED <<main, bak, topic, corruptions>> /\ blind' = FALSE
    BY <1>13 DEF Exit, Crash, Fault, disk, counts
  <2> QED
    BY <1>10, <2>1 DEF Loadable, Backup, Usable
<1> QED
  BY <1>2, <1>3, <1>4, <1>5, <1>6, <1>7, <1>8, <1>9, <1>12, <1>13
     DEF Next, Load, Save

\* As long as the producer never turns fatal, state.json and its backup are a
\* checkpoint of settled lines and a spare one, whatever happens between the
\* renames of save() and of the quarantine: a start resumes at the one, or after
\* damage at the other, unless the forwarder had saved beside the damage.
THEOREM ImplementsCheckpoints == MaxFatal = 0 => (Spec => OneStepBack)
<1> SUFFICES ASSUME MaxFatal = 0
             PROVE  Spec => OneStepBack
  OBVIOUS
<1>1. Init => TypeOK /\ LoopInv /\ SkipInv /\ AgeInv /\ ClearInv /\ DamageInv
  <2>1. Init => SkipInv
    BY SourceAssumption
       DEF Init, SkipInv, AckedSettled, Covered, Usable, Zero
  <2>2. Init => AgeInv /\ ClearInv
    BY DEF Init, AgeInv, ClearInv
  <2>3. Init => DamageInv
    BY StateFileAssumption DEF Init, DamageInv
  <2> QED
    BY InitType, <2>1, <2>2, <2>3
<1>2. TypeOK /\ LoopInv /\ SkipInv /\ AgeInv /\ ClearInv /\ DamageInv
      /\ [Next]_vars
        => TypeOK' /\ LoopInv' /\ SkipInv' /\ AgeInv' /\ ClearInv'
           /\ DamageInv'
  BY TypeStep, SkipStep, AgeStep, ClearStep, DamageStep
<1>3. Init => Contract!AbsInit
  BY DEF Init, Contract!AbsInit, Contract!Fresh, Loadable, Backup, Usable, Zero
<1>4. TypeOK /\ SkipInv /\ AgeInv /\ ClearInv /\ DamageInv /\ [Next]_vars
        => [Contract!AbsNext]_(Contract!absVars)
  BY CheckpointStep
<1> QED
  BY <1>1, <1>2, <1>3, <1>4, PTL DEF Spec, OneStepBack, Contract!AbsSpec
=============================================================================
