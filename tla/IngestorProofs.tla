--------------------------- MODULE IngestorProofs ---------------------------
(***************************************************************************)
(* Proofs about the ingestor for any number of partitions, any batch size  *)
(* and any number of crashes, stops and outages.                           *)
(***************************************************************************)
EXTENDS Ingestor, TLAPS

\* Nothing points past the end of the log: neither the reader, nor a stored
\* offset, nor a transaction in limbo.
PosInv ==
  \A p \in Partitions :
    /\ Len(log[p]) <= MaxLog
    /\ base[p] <= pos[p] /\ pos[p] <= Len(log[p])
    /\ stored[p] <= Len(log[p])
    /\ reached[p] <= Len(log[p])
    /\ \A t \in limbo : t.from[p] <= t.to[p] /\ t.to[p] <= Len(log[p])

\* A transaction stores alerts, and its offsets are numbers.
LEMMA ApplyType ==
  ASSUME TypeOK, NEW t \in Txn, Apply(t)
  PROVE  /\ findings' \subseteq Alerts
         /\ stored' \in [Partitions -> Nat \cup {NoOffset}]
         /\ reached' \in Offsets
BY DEF TypeOK, Apply, RowsOf, Advances, Txn, Offsets, Max2

\* Applying a transaction that ends inside the log keeps every offset there.
LEMMA ApplyPos ==
  ASSUME TypeOK, PosInv, NEW t \in Txn, Apply(t), NEW p \in Partitions,
         t.to[p] <= Len(log[p])
  PROVE  stored'[p] <= Len(log[p]) /\ reached'[p] <= Len(log[p])
BY DEF TypeOK, PosInv, Apply, Advances, Txn, Offsets, Max2

LEMMA InHandType ==
  ASSUME TypeOK
  PROVE  InHand \in Txn
BY DEF TypeOK, InHand, Txn

\* The count of faults stays a number.
LEMMA FaultType == ASSUME TypeOK, Fault PROVE faults' \in Nat
BY DEF TypeOK, Fault

LEMMA TypeStep ==
  ASSUME TypeOK, PosInv, [Next]_vars
  PROVE  TypeOK' /\ PosInv'
<1> USE BoundAssumption
<1>1. CASE \E p \in Partitions, m \in Messages : Produce(p, m)
  <2>1. PICK p \in Partitions, m \in Messages : Produce(p, m)
    BY <1>1
  <2>2. log' \in [Partitions -> Seq(Messages)]
    BY <2>1 DEF Produce, TypeOK
  <2>3. \A q \in Partitions : Len(log[q]) <= Len(log'[q])
                              /\ Len(log'[q]) <= MaxLog
                              /\ Len(log[q]) \in Nat /\ Len(log'[q]) \in Nat
    BY <2>1 DEF Produce, TypeOK, PosInv
  <2>4. UNCHANGED <<kafkaUp, pgUp, findings, stored, limbo, pc, stop, conn, base,
                    pos, origin, reached, faults>>
    BY <2>1 DEF Produce, db, reader
  <2>5. TypeOK'
    BY <2>2, <2>4 DEF TypeOK
  <2>6. PosInv'
    BY <2>3, <2>4 DEF PosInv, TypeOK, Offsets, Txn, NoOffset
  <2> QED
    BY <2>5, <2>6
<1>2. CASE KafkaFails \/ KafkaRecovers
  <2>1. CASE KafkaFails
    BY <2>1, FaultType DEF KafkaFails, TypeOK, PosInv, db, reader
  <2>2. CASE KafkaRecovers
    BY <2>2 DEF KafkaRecovers, TypeOK, PosInv, db, reader
  <2> QED
    BY <1>2, <2>1, <2>2
<1>3. CASE PgFails \/ PgRecovers
  <2>1. CASE PgFails
    BY <2>1, FaultType DEF PgFails, TypeOK, PosInv, broker, db, reader
  <2>2. CASE PgRecovers
    BY <2>2 DEF PgRecovers, TypeOK, PosInv, broker, db, reader
  <2> QED
    BY <1>3, <2>1, <2>2
<1>4. CASE LimboSome
  <2>1. PICK t \in limbo : LimboEnds(t)
    BY <1>4 DEF LimboSome
  <2>2. t \in Txn /\ limbo' \subseteq limbo
    BY <2>1 DEF LimboEnds, TypeOK
  <2>3. UNCHANGED <<log, kafkaUp, pgUp, pc, stop, conn, base, pos, origin, faults>>
    BY <2>1 DEF LimboEnds, broker, reader
  <2>4. CASE Apply(t)
    BY <2>2, <2>3, <2>4, ApplyType, ApplyPos DEF TypeOK, PosInv
  <2>5. CASE UNCHANGED <<findings, stored, reached>>
    BY <2>2, <2>3, <2>5 DEF TypeOK, PosInv
  <2> QED
    BY <2>1, <2>4, <2>5 DEF LimboEnds
<1>5. CASE Start
  BY <1>5 DEF Start, TypeOK, PosInv, broker, db, reader
<1>6. CASE Connect
  <2>1. \A p \in Partitions : AssignedAt(p) \in Nat /\ AssignedAt(p) <= Len(log[p])
    BY DEF AssignedAt, TypeOK, PosInv, NoOffset
  <2>2. /\ pos' \in Offsets /\ base' \in Offsets
        /\ origin' \in [Partitions -> Nat \cup {NoOffset}]
    BY <1>6, <2>1 DEF Connect, TypeOK, Offsets
  <2>3. UNCHANGED <<log, kafkaUp, pgUp, findings, stored, limbo, stop, reached, faults>>
        /\ conn' = TRUE /\ pc' = "polling"
    BY <1>6 DEF Connect, broker, db
  <2>4. TypeOK'
    BY <2>2, <2>3 DEF TypeOK
  <2>5. PosInv'
    BY <1>6, <2>1, <2>3 DEF PosInv, Connect
  <2> QED
    BY <2>4, <2>5
<1>7. CASE ConsumeSome
  <2>1. PICK to \in [Partitions -> 0..MaxLog] : Consume(to)
    BY <1>7 DEF ConsumeSome
  <2>2. to \in Offsets
    BY DEF Offsets
  <2> QED
    BY <2>1, <2>2 DEF Consume, Batch, TypeOK, PosInv, broker, db
<1>8. CASE PoisonSome \/ Idle \/ Salvage \/ WriteFails
  BY <1>8 DEF PoisonSome, ConsumePoison, Idle, Salvage, WriteFails, TypeOK,
              PosInv, broker, db, reader, vars
<1>9. CASE Commit
  <2>1. InHand \in Txn /\ Apply(InHand)
    BY <1>9, InHandType DEF Commit
  <2>2. \A p \in Partitions : InHand.to[p] <= Len(log[p])
    BY DEF InHand, PosInv
  <2>3. UNCHANGED <<log, kafkaUp, pgUp, limbo, stop, conn, pos, origin, faults>>
        /\ base' = pos /\ pc' = "polling"
    BY <1>9 DEF Commit, broker
  <2>4. TypeOK'
    BY <2>1, <2>3, ApplyType DEF TypeOK
  <2>5. PosInv'
    BY <2>1, <2>2, <2>3, ApplyPos DEF PosInv, TypeOK, Offsets
  <2> QED
    BY <2>4, <2>5
<1>10. CASE LoseCommit
  <2>1. InHand \in Txn
    BY InHandType
  <2>2. \A p \in Partitions : InHand.from[p] <= InHand.to[p]
                              /\ InHand.to[p] <= Len(log[p])
    BY DEF InHand, PosInv
  <2>3. TypeOK'
    BY <1>10, <2>1, FaultType DEF LoseCommit, TypeOK, broker, reader
  <2>4. PosInv'
    BY <1>10, <2>2 DEF LoseCommit, PosInv, broker, reader
  <2> QED
    BY <2>3, <2>4
<1>11. CASE Stop \/ Exit \/ Crash
  <2>1. CASE Stop
    BY <2>1, FaultType DEF Stop, TypeOK, PosInv, broker, db, reader
  <2>2. CASE Exit
    BY <2>2 DEF Exit, TypeOK, PosInv, broker, db, reader
  <2>3. CASE Crash
    BY <2>3, FaultType DEF Crash, TypeOK, PosInv, broker, db, reader
  <2> QED
    BY <1>11, <2>1, <2>2, <2>3
<1>12. CASE UNCHANGED vars
  BY <1>12 DEF vars, TypeOK, PosInv
<1> QED
  BY <1>1, <1>2, <1>3, <1>4, <1>5, <1>6, <1>7, <1>8, <1>9, <1>10, <1>11, <1>12
     DEF Next

\* The initial state is well-typed.
LEMMA InitType == Init => TypeOK /\ PosInv
<1> SUFFICES ASSUME Init PROVE TypeOK /\ PosInv
  OBVIOUS
<1>1. log \in [Partitions -> Seq(Messages)] /\ \A p \in Partitions : Len(log[p]) = 0
  BY DEF Init
<1>2. /\ base \in Offsets /\ pos \in Offsets /\ reached \in Offsets
      /\ stored \in [Partitions -> Nat \cup {NoOffset}]
      /\ origin \in [Partitions -> Nat \cup {NoOffset}]
      /\ faults \in Nat
  BY DEF Init, Offsets
<1>3. findings = {} /\ limbo = {} /\ pc = "down"
  BY DEF Init
<1>4. kafkaUp \in BOOLEAN /\ pgUp \in BOOLEAN /\ stop \in BOOLEAN /\ conn \in BOOLEAN
  BY Zenon DEF Init
<1>5. TypeOK
  BY <1>1, <1>2, <1>3, <1>4 DEF TypeOK
<1>6. PosInv
  BY <1>1, <1>3, BoundAssumption DEF PosInv, Init, NoOffset
<1> QED
  BY <1>5, <1>6

\* The type invariant of the ingestor holds in every behaviour.
THEOREM TypeCorrect == Spec => []TypeOK
BY InitType, TypeStep, PTL DEF Spec

-----------------------------------------------------------------------------
(***************************************************************************)
(* No gap, when the first run starts from the beginning.  Stated with the  *)
(* highest offset ever committed: everything before it is settled, and     *)
(* nothing that may still be committed, or read from, starts beyond it.    *)
(***************************************************************************)
Active == pc \in {"polling", "writing", "salvaging"}

\* No message in the range of transaction t makes normalize() raise.
Clean(t) ==
  \A p \in Partitions : \A i \in 1..Len(log[p]) :
    t.from[p] < i /\ i <= t.to[p] => log[p][i] \notin Poison

Through(p) == \A i \in 1..Len(log[p]) : i <= reached[p] => Settled(p, i)

GapInv ==
  /\ \A p \in Partitions :
       /\ Through(p)
       /\ stored[p] <= reached[p]
       /\ Active => base[p] <= reached[p]
       /\ \A t \in limbo : t.from[p] <= reached[p]
  /\ pc = "polling" => base = pos
  /\ pc \in {"writing", "salvaging"} => Clean(InHand)
  /\ \A t \in limbo : Clean(t)

\* A transaction that starts no later than what is settled, over messages
\* that normalise, leaves everything up to its end settled.
LEMMA ApplyThrough ==
  ASSUME TypeOK, PosInv, NEW t \in Txn, Clean(t), Apply(t), log' = log,
         NEW p \in Partitions, Through(p), t.from[p] <= reached[p]
  PROVE  Through(p)' /\ reached[p] <= reached'[p]
         /\ (t.from[p] < t.to[p] => t.to[p] <= reached'[p])
         /\ (stored'[p] = stored[p] \/ stored'[p] <= reached'[p])
<1>1. reached[p] \in Nat /\ t.from[p] \in Nat /\ t.to[p] \in Nat
  BY DEF TypeOK, Offsets, Txn
<1>2. reached'[p] = IF t.from[p] < t.to[p] THEN Max2(reached[p], t.to[p])
                                           ELSE reached[p]
  BY DEF Apply, Advances
<1>3. stored'[p] = IF t.from[p] < t.to[p] THEN t.to[p] ELSE stored[p]
  BY DEF Apply, Advances
<1>4. ASSUME NEW i \in 1..Len(log[p]), i <= reached'[p] PROVE Settled(p, i)'
  <2>1. CASE i <= reached[p]
    BY <2>1 DEF Through, Settled, Apply
  <2>2. CASE ~(i <= reached[p])
    <3>1. t.from[p] < i /\ i <= t.to[p]
      BY <1>1, <1>2, <1>4, <2>2 DEF Max2
    <3>2. log[p][i] \in Messages /\ log[p][i] \notin Poison
      BY <3>1 DEF TypeOK, Clean
    <3>3. CASE log[p][i] \in Alerts
      <4>1. log[p][i] \in RowsOf(t)
        BY <3>1, <3>2, <3>3 DEF RowsOf, Covers
      <4> QED
        BY <4>1 DEF Apply, Settled
    <3>4. CASE log[p][i] \in Unstorable \cup Junk
      BY <3>4 DEF Settled
    <3> QED
      BY <3>2, <3>3, <3>4 DEF Messages
  <2> QED
    BY <2>1, <2>2
<1>5. Through(p)'
  BY <1>4 DEF Through
<1> QED
  BY <1>1, <1>2, <1>3, <1>5 DEF Max2

\* Steps that leave the log and the tables alone.
LEMMA GapQuiet ==
  ASSUME GapInv, UNCHANGED <<log, findings, stored, limbo, reached>>,
         Active' => Active /\ UNCHANGED <<base, pos>>,
         (pc' = "polling") <=> (pc = "polling" /\ Active')
  PROVE  GapInv'
BY DEF GapInv, Through, Settled, Active, Clean, InHand

LEMMA GapStep ==
  ASSUME StartFrom = "beginning", TypeOK, PosInv, GapInv, [Next]_vars
  PROVE  GapInv'
<1>1. CASE \E p \in Partitions, m \in Messages : Produce(p, m)
  <2>1. PICK p \in Partitions, m \in Messages : Produce(p, m)
    BY <1>1
  <2>2. UNCHANGED <<findings, stored, limbo, pc, base, pos, reached>>
    BY <2>1 DEF Produce, db, reader
  <2>3. \A q \in Partitions :
          /\ Len(log[q]) \in Nat /\ Len(log'[q]) \in Nat
          /\ \A i \in 1..Len(log[q]) : log'[q][i] = log[q][i]
    BY <2>1 DEF Produce, TypeOK
  <2>4. ASSUME NEW q \in Partitions PROVE Through(q)'
    <3> SUFFICES ASSUME NEW i \in 1..Len(log'[q]), i <= reached[q]
                 PROVE  Settled(q, i)'
      BY <2>2 DEF Through
    <3>1. i \in 1..Len(log[q])
      BY <2>3 DEF PosInv, TypeOK, Offsets
    <3>2. Settled(q, i)
      BY <3>1 DEF GapInv, Through
    <3> QED
      BY <2>2, <2>3, <3>1, <3>2 DEF Settled
  <2>5. ASSUME NEW t \in limbo PROVE Clean(t)'
    <3> SUFFICES ASSUME NEW q \in Partitions, NEW i \in 1..Len(log'[q]),
                        t.from[q] < i, i <= t.to[q]
                 PROVE  log'[q][i] \notin Poison
      BY DEF Clean
    <3>1. i \in 1..Len(log[q])
      BY <2>3 DEF PosInv, TypeOK, Txn, Offsets
    <3> QED
      BY <2>3, <3>1 DEF GapInv, Clean
  <2>6. ASSUME pc \in {"writing", "salvaging"} PROVE Clean(InHand)'
    <3> SUFFICES ASSUME NEW q \in Partitions, NEW i \in 1..Len(log'[q]),
                        base[q] < i, i <= pos[q]
                 PROVE  log'[q][i] \notin Poison
      BY <2>2 DEF Clean, InHand
    <3>1. i \in 1..Len(log[q])
      BY <2>3 DEF PosInv, TypeOK, Offsets
    <3> QED
      BY <2>3, <2>6, <3>1 DEF GapInv, Clean, InHand
  <2> QED
    BY <2>2, <2>4, <2>5, <2>6 DEF GapInv, Active
<1>2. CASE LimboSome
  <2>1. PICK t \in limbo : LimboEnds(t)
    BY <1>2 DEF LimboSome
  <2>2. t \in Txn /\ limbo' = limbo \ {t}
        /\ UNCHANGED <<log, pc, base, pos>>
    BY <2>1 DEF LimboEnds, TypeOK, broker, reader
  <2>3. CASE Apply(t)
    <3>1. \A p \in Partitions : Through(p)' /\ reached[p] <= reached'[p]
                                /\ stored'[p] <= reached'[p]
      <4> SUFFICES ASSUME NEW p \in Partitions
                   PROVE  Through(p)' /\ reached[p] <= reached'[p]
                          /\ stored'[p] <= reached'[p]
        OBVIOUS
      <4>1. Through(p) /\ t.from[p] <= reached[p] /\ Clean(t)
            /\ stored[p] <= reached[p]
        BY DEF GapInv
      <4>2. Through(p)' /\ reached[p] <= reached'[p]
            /\ (stored'[p] = stored[p] \/ stored'[p] <= reached'[p])
        BY <2>2, <2>3, <4>1, ApplyThrough
      <4>3. reached'[p] \in Nat /\ reached[p] \in Nat /\ stored[p] \in Int
        BY <2>2, <2>3, ApplyType DEF TypeOK, Offsets, NoOffset
      <4> QED
        BY <4>1, <4>2, <4>3
    <3>2. reached' \in Offsets /\ reached \in Offsets
      BY <2>2, <2>3, ApplyType DEF TypeOK
    <3>3. \A p \in Partitions : Active' => base'[p] <= reached'[p]
      BY <2>2, <3>1, <3>2 DEF GapInv, Active, TypeOK, Offsets
    <3>4. \A p \in Partitions : \A u \in limbo' : u.from[p] <= reached'[p]
      BY <2>2, <3>1, <3>2 DEF GapInv, TypeOK, Offsets, Txn
    <3> QED
      BY <2>2, <3>1, <3>3, <3>4 DEF GapInv, Clean, InHand
  <2>4. CASE UNCHANGED <<findings, stored, reached>>
    BY <2>2, <2>4 DEF GapInv, Through, Settled, Active, Clean, InHand
  <2> QED
    BY <2>1, <2>3, <2>4 DEF LimboEnds
<1>3. CASE Connect
  <2>1. \A p \in Partitions : base'[p] <= reached[p]
    <3> SUFFICES ASSUME NEW p \in Partitions PROVE AssignedAt(p) <= reached[p]
      BY <1>3 DEF Connect
    <3> QED
      BY DEF AssignedAt, GapInv, TypeOK, Offsets
  <2> QED
    BY <1>3, <2>1 DEF Connect, GapInv, Through, Settled, Clean, Active, broker, db
<1>4. CASE ConsumeSome
  <2>1. PICK to \in [Partitions -> 0..MaxLog] : Consume(to)
    BY <1>4 DEF ConsumeSome
  <2>2. UNCHANGED <<log, findings, stored, limbo, reached>> /\ pc = "polling"
        /\ base' = pos /\ pos' = to
    BY <2>1 DEF Consume, broker, db
  <2>3. Clean(InHand)'
    <3> SUFFICES ASSUME NEW p \in Partitions, NEW i \in 1..Len(log[p]),
                        pos[p] < i, i <= to[p]
                 PROVE  log[p][i] \notin Poison
      BY <2>2 DEF Clean, InHand
    <3>1. log[p][i] \in Covers([from |-> pos, to |-> to])
      BY DEF Covers, TypeOK
    <3> QED
      BY <2>1, <3>1 DEF Consume
  <2>4. \A p \in Partitions : pos[p] <= reached[p]
    BY <2>2 DEF GapInv, Active
  <2>5. pc' = "writing"
    BY <2>1 DEF Consume
  <2> QED
    BY <2>2, <2>3, <2>4, <2>5 DEF GapInv, Through, Settled, Clean
<1>5. CASE Commit
  <2>1. InHand \in Txn /\ Apply(InHand)
        /\ UNCHANGED <<log, limbo, pos>> /\ base' = pos /\ pc' = "polling"
    BY <1>5, InHandType DEF Commit, broker
  <2>2. pc \in {"writing", "salvaging"}
    BY <1>5 DEF Commit, AtCommit
  <2>3. \A p \in Partitions : /\ Through(p)' /\ reached[p] <= reached'[p]
                              /\ stored'[p] <= reached'[p]
                              /\ pos[p] <= reached'[p]
    <3> SUFFICES ASSUME NEW p \in Partitions
                 PROVE  /\ Through(p)' /\ reached[p] <= reached'[p]
                        /\ stored'[p] <= reached'[p]
                        /\ pos[p] <= reached'[p]
      OBVIOUS
    <3>1. InHand.from[p] = base[p] /\ InHand.to[p] = pos[p]
      BY DEF InHand
    <3>2. Through(p) /\ InHand.from[p] <= reached[p] /\ Clean(InHand)
          /\ stored[p] <= reached[p]
      BY <2>2, <3>1 DEF GapInv, Active
    <3>3. /\ Through(p)' /\ reached[p] <= reached'[p]
          /\ (base[p] < pos[p] => pos[p] <= reached'[p])
          /\ (stored'[p] = stored[p] \/ stored'[p] <= reached'[p])
      BY <2>1, <3>1, <3>2, ApplyThrough
    <3>4. /\ reached'[p] \in Nat /\ reached[p] \in Nat /\ stored[p] \in Int
          /\ base[p] \in Nat /\ pos[p] \in Nat /\ base[p] <= pos[p]
      BY <2>1, ApplyType DEF TypeOK, Offsets, NoOffset, PosInv
    <3> QED
      BY <3>1, <3>2, <3>3, <3>4
  <2>4. reached' \in Offsets /\ reached \in Offsets
    BY <2>1, ApplyType DEF TypeOK
  <2>5. \A p \in Partitions : \A u \in limbo' : u.from[p] <= reached'[p]
    BY <2>1, <2>3, <2>4 DEF GapInv, TypeOK, Offsets, Txn
  <2> QED
    BY <2>1, <2>3, <2>5 DEF GapInv, Clean
<1>6. CASE LoseCommit
  <2>1. UNCHANGED <<log, findings, stored, reached, pc, base, pos>>
        /\ limbo' = limbo \cup {InHand}
    BY <1>6 DEF LoseCommit, broker, reader
  <2>2. pc \in {"writing", "salvaging"}
    BY <1>6 DEF LoseCommit, AtCommit
  <2>3. \A p \in Partitions : InHand.from[p] <= reached[p]
    BY <2>2 DEF GapInv, Active, InHand
  <2> QED
    BY <2>1, <2>2, <2>3 DEF GapInv, Through, Settled, Active, Clean, InHand
<1>7. CASE KafkaFails \/ KafkaRecovers \/ PgFails \/ PgRecovers \/ Start
           \/ PoisonSome \/ Idle \/ Salvage \/ WriteFails \/ Stop \/ Exit \/ Crash
           \/ UNCHANGED vars
  <2>1. UNCHANGED <<log, findings, stored, limbo, reached, base, pos>>
    BY <1>7 DEF KafkaFails, KafkaRecovers, PgFails, PgRecovers, Start, PoisonSome,
         ConsumePoison, Idle, Salvage, WriteFails, Stop, Exit, Crash, vars, broker,
         db, reader
  <2>2. (Active' => Active) /\ ((pc' = "polling") <=> (pc = "polling" /\ Active'))
    BY <1>7 DEF KafkaFails, KafkaRecovers, PgFails, PgRecovers, Start, PoisonSome,
         ConsumePoison, Idle, Salvage, WriteFails, Stop, Exit, Crash, vars, Active
  <2> QED
    BY <2>1, <2>2, GapQuiet
<1> QED
  BY <1>1, <1>2, <1>3, <1>4, <1>5, <1>6, <1>7 DEF Next

\* Reading from the beginning, nothing is ever skipped: the stored offsets and
\* the reader's position never pass a message whose row is missing, for any
\* crash, outage or late commit.
THEOREM NoGapHolds == StartFrom = "beginning" => (Spec => []NoGap)
<1> SUFFICES ASSUME StartFrom = "beginning"
             PROVE  Spec => []NoGap
  OBVIOUS
<1>1. Init => GapInv
  BY DEF Init, GapInv, Through, Active, NoOffset
<1>2. TypeOK /\ PosInv /\ GapInv => NoGap
  BY DEF NoGap, GapInv, Through, ReadThrough, Active, TypeOK, Offsets, NoOffset
<1> QED
  BY <1>1, <1>2, InitType, TypeStep, GapStep, PTL DEF Spec

-----------------------------------------------------------------------------
(***************************************************************************)
(* The ingestor implements FindingsStore.                                  *)
(***************************************************************************)

\* A committed transaction is one step of the abstract store, from the highest
\* offsets reached to the new ones.
LEMMA ApplyStores ==
  ASSUME TypeOK, PosInv, GapInv, NEW t \in Txn, Apply(t), log' = log, Clean(t),
         \A p \in Partitions : t.from[p] <= reached[p] /\ t.to[p] <= Len(log[p])
  PROVE  Contract!StoreUpTo(reached')
<1>1. reached \in Offsets /\ reached' \in Offsets
  BY ApplyType DEF TypeOK
<1>2. \A p \in Partitions : reached[p] <= reached'[p] /\ reached'[p] <= Len(log[p])
  BY <1>1, ApplyThrough, ApplyPos DEF GapInv
<1>3. RowsOf(t) \subseteq findings \cup Contract!Between(reached, reached')
  <2> SUFFICES ASSUME NEW a \in RowsOf(t), a \notin findings
               PROVE  a \in Contract!Between(reached, reached')
    OBVIOUS
  <2>1. PICK p \in Partitions, i \in Nat :
          i \in 1..Len(log[p]) /\ t.from[p] < i /\ i <= t.to[p] /\ log[p][i] = a
    BY DEF RowsOf, Covers
  <2>2. a \in Alerts
    BY DEF RowsOf
  <2>3. ~Settled(p, i)
    BY <2>1, <2>2, ClassAssumption DEF Settled
  <2>4. reached[p] < i
    BY <1>1, <2>1, <2>3 DEF GapInv, Through, Offsets
  <2>5. i <= reached'[p]
    BY <1>1, <2>1 DEF Apply, Advances, Max2, Offsets, Txn
  <2> QED
    BY <2>1, <2>2, <2>4, <2>5 DEF Contract!Between
<1>4. Contract!Between(reached, reached') \subseteq RowsOf(t)
  <2> SUFFICES ASSUME NEW a \in Contract!Between(reached, reached')
               PROVE  a \in RowsOf(t)
    OBVIOUS
  <2>1. PICK p \in Partitions, i \in Nat :
          /\ i \in 1..Len(log[p]) /\ log[p][i] = a
          /\ reached[p] < i /\ i <= reached'[p]
    BY DEF Contract!Between
  <2>2. t.from[p] < i /\ i <= t.to[p]
    BY <1>1, <2>1 DEF Apply, Advances, Max2, Offsets, Txn
  <2>3. a \in Alerts /\ a \in Messages
    BY DEF Contract!Between, Messages
  <2> QED
    BY <2>1, <2>2, <2>3 DEF RowsOf, Covers
<1> QED
  BY <1>1, <1>2, <1>3, <1>4 DEF Contract!StoreUpTo, Apply

LEMMA ContractStep ==
  ASSUME TypeOK, PosInv, GapInv, [Next]_vars
  PROVE  [Contract!AbsNext]_(Contract!absVars)
<1>1. CASE \E p \in Partitions, m \in Messages : Produce(p, m)
  BY <1>1 DEF Produce, db, Contract!AbsNext, Contract!Arrive
<1>2. CASE LimboSome
  <2>1. PICK t \in limbo : LimboEnds(t)
    BY <1>2 DEF LimboSome
  <2>2. CASE Apply(t)
    <3>1. t \in Txn /\ log' = log /\ Clean(t)
      BY <2>1 DEF LimboEnds, TypeOK, broker, GapInv
    <3>2. \A p \in Partitions : t.from[p] <= reached[p] /\ t.to[p] <= Len(log[p])
      BY DEF GapInv, PosInv
    <3> QED
      BY <2>2, <3>1, <3>2, ApplyStores DEF Contract!AbsNext
  <2>3. CASE UNCHANGED <<findings, stored, reached>>
    BY <2>1, <2>3 DEF LimboEnds, broker, Contract!absVars
  <2> QED
    BY <2>1, <2>2, <2>3 DEF LimboEnds
<1>3. CASE Commit
  <2>1. InHand \in Txn /\ Apply(InHand) /\ log' = log
    BY <1>3, InHandType DEF Commit, broker
  <2>2. Clean(InHand)
        /\ \A p \in Partitions : InHand.from[p] <= reached[p]
                                 /\ InHand.to[p] <= Len(log[p])
    BY <1>3 DEF Commit, AtCommit, GapInv, Active, PosInv, InHand
  <2> QED
    BY <2>1, <2>2, ApplyStores DEF Contract!AbsNext
<1>4. CASE KafkaFails \/ KafkaRecovers \/ PgFails \/ PgRecovers \/ Start \/ Connect
           \/ ConsumeSome \/ LoseCommit
           \/ PoisonSome \/ Idle \/ Salvage \/ WriteFails \/ Stop \/ Exit \/ Crash
           \/ UNCHANGED vars
  BY <1>4 DEF KafkaFails, KafkaRecovers, PgFails, PgRecovers, Start, Connect,
       ConsumeSome, Consume, LoseCommit, PoisonSome, ConsumePoison, Idle, Salvage,
       WriteFails, Stop, Exit, Crash, vars, broker, db, Contract!absVars
<1> QED
  BY <1>1, <1>2, <1>3, <1>4 DEF Next

\* Reading from the beginning, the ingestor implements FindingsStore: the
\* table always holds exactly the alerts of a growing prefix of every
\* partition, each once.
THEOREM ImplementsFindingsStore ==
  StartFrom = "beginning" => (Spec => StoresOncePerAlert)
<1> SUFFICES ASSUME StartFrom = "beginning"
             PROVE  Spec => StoresOncePerAlert
  OBVIOUS
<1>1. Init => GapInv
  BY DEF Init, GapInv, Through, Active, NoOffset
<1>2. Init => Contract!AbsInit
  BY DEF Init, Contract!AbsInit
<1> QED
  BY <1>1, <1>2, InitType, TypeStep, GapStep, ContractStep, PTL
     DEF Spec, StoresOncePerAlert, Contract!AbsSpec
=============================================================================
