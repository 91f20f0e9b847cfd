------------------------------ MODULE Ingestor ------------------------------
(***************************************************************************)
(* The ingestor (ingestor/app.py, ingestor/store.py): one process that     *)
(* reads the alert topic and commits each batch to PostgreSQL together     *)
(* with the Kafka offsets the batch covers.  Offsets live in PostgreSQL    *)
(* only; after an outage the consumer is re-assigned at what it holds.     *)
(*                                                                         *)
(* A Kafka message is abstracted to what the code tells apart:             *)
(*   Alerts      normalize() returns a row PostgreSQL stores; the member   *)
(*               is the row's key (manager, alert_id), so a second copy of *)
(*               an alert is the same member                               *)
(*   Unstorable  a row PostgreSQL rejects (DataError, UnicodeEncodeError)  *)
(*   Junk        normalize() returns None: not a JSON object               *)
(*   Poison      normalize() raises: int() of an infinite rule.level is an *)
(*               OverflowError, which _level() does not catch              *)
(* Offsets are 0-based as in Kafka: the message at offset i of partition p *)
(* is log[p][i + 1], so an offset n stands for "the first n are read".     *)
(***************************************************************************)
EXTENDS Integers, Sequences, FiniteSets

CONSTANTS
  Partitions,     \* the partitions of the configured topics
  Alerts, Unstorable, Junk, Poison,
  BATCH,          \* INGESTOR_BATCH, messages per transaction
  StartFrom,      \* INGESTOR_START_FROM, used when no offset is stored
  MaxLog,         \* bound: messages per partition
  MaxFaults       \* bound: crashes, stops and outages in one behaviour

Messages == Alerts \cup Unstorable \cup Junk \cup Poison

ASSUME BatchAssumption == BATCH \in Nat \ {0}
ASSUME StartAssumption == StartFrom \in {"beginning", "end"}
ASSUME BoundAssumption == MaxLog \in Nat /\ MaxFaults \in Nat
ASSUME ClassAssumption ==
  /\ Alerts \cap (Unstorable \cup Junk \cup Poison) = {}
  /\ Unstorable \cap (Junk \cup Poison) = {}
  /\ Junk \cap Poison = {}

VARIABLES
  log,        \* the topic: per partition, the messages produced so far
  kafkaUp,    \* the broker answers
  pgUp,       \* PostgreSQL accepts connections
  findings,   \* table findings, as the set of its primary keys
  stored,     \* table ingest_offsets, NoOffset where there is no row
  limbo,      \* transactions whose COMMIT was sent and whose outcome the
              \* client never learnt; the server still holds their locks
  pc,         \* where run() is
  stop,       \* the threading.Event set by SIGINT and SIGTERM
  conn,       \* Store._conn is a live session
  base,       \* the consumer's position before the batch in hand
  pos,        \* the consumer's in-memory position
  origin,     \* history: the position of the first assignment ever made
  reached,    \* history: the highest offset ever committed
  faults      \* crashes, stops and outages so far

broker == <<log, kafkaUp>>
db     == <<findings, stored, limbo>>
reader == <<base, pos>>
vars   == <<log, kafkaUp, pgUp, findings, stored, limbo, pc, stop, conn,
            base, pos, origin, reached, faults>>

NoOffset == -1

(***************************************************************************)
(* Batches and transactions.  A transaction covers, in each partition, the *)
(* offsets from[p] .. to[p] - 1.                                           *)
(***************************************************************************)
Offsets  == [Partitions -> Nat]
Txn      == [from : Offsets, to : Offsets]
InHand   == [from |-> base, to |-> pos]

\* The messages a transaction covers.
Covers(t) ==
  {m \in Messages : \E p \in Partitions : \E i \in 1..Len(log[p]) :
                       t.from[p] < i /\ i <= t.to[p] /\ log[p][i] = m}

\* Mutant: a refused value costs the whole batch its rows.
RowsOfCleanBatch(t) == IF Covers(t) \cap Unstorable # {} THEN {} ELSE Covers(t) \cap Alerts

\* The rows of findings it stores: junk was skipped by run(), a value
\* PostgreSQL rejects is dropped by the row-by-row retry.
RowsOf(t)  == Covers(t) \cap Alerts
Advances(t) == {p \in Partitions : t.from[p] < t.to[p]}

\* store.write holds the unique-index entry of every new row and the
\* ingest_offsets row of every partition it advances, until it ends.
Locks(t)   == Advances(t) \cup (RowsOf(t) \ findings)
Blocked(t) == \E u \in limbo : Locks(t) \cap Locks(u) # {}

\* One transaction takes effect: ON CONFLICT DO NOTHING for the rows, an
\* upsert for the offset of each partition that the batch touched.
Max2(a, b) == IF a >= b THEN a ELSE b
Apply(t) ==
  /\ findings' = findings \cup RowsOf(t)
  /\ stored'   = [p \in Partitions |->
                    IF p \in Advances(t) THEN t.to[p] ELSE stored[p]]
  /\ reached'  = [p \in Partitions |->
                    IF p \in Advances(t) THEN Max2(reached[p], t.to[p])
                                         ELSE reached[p]]

(***************************************************************************)
(* The environment: producers, the broker, the database server.            *)
(***************************************************************************)

\* The forwarder appends; being at-least-once it may repeat an alert.
Produce(p, m) ==
  /\ Len(log[p]) < MaxLog
  /\ log' = [log EXCEPT ![p] = Append(@, m)]
  /\ UNCHANGED <<kafkaUp, pgUp, db, pc, stop, conn, reader, origin, reached,
                 faults>>

Fault == faults < MaxFaults /\ faults' = faults + 1

KafkaFails ==
  /\ kafkaUp /\ Fault
  /\ kafkaUp' = FALSE
  /\ UNCHANGED <<log, pgUp, db, pc, stop, conn, reader, origin, reached>>

KafkaRecovers ==
  /\ ~kafkaUp
  /\ kafkaUp' = TRUE
  /\ UNCHANGED <<log, pgUp, db, pc, stop, conn, reader, origin, reached,
                 faults>>

\* The server goes away: the session dies, an open transaction rolls back.
PgFails ==
  /\ pgUp /\ Fault
  /\ pgUp' = FALSE
  /\ conn' = FALSE
  /\ UNCHANGED <<broker, db, pc, stop, reader, origin, reached>>

PgRecovers ==
  /\ ~pgUp
  /\ pgUp' = TRUE
  /\ UNCHANGED <<broker, db, pc, stop, conn, reader, origin, reached, faults>>

\* The server finishes a transaction whose client is gone, one way or the
\* other, possibly long after the client has reconnected.
LimboEnds(t) ==
  /\ limbo' = limbo \ {t}
  /\ \/ Apply(t)
     \/ UNCHANGED <<findings, stored, reached>>
  /\ UNCHANGED <<broker, pgUp, pc, stop, conn, reader, origin, faults>>

(***************************************************************************)
(* The process.                                                            *)
(***************************************************************************)

\* main(): a fresh process, nothing remembered.
Start ==
  /\ pc = "down"
  /\ pc' = "connecting"
  /\ stop' = FALSE
  /\ UNCHANGED <<broker, pgUp, db, conn, reader, origin, reached, faults>>

\* Mutant: a partition without a stored offset is not recognised.
AssignedUnchecked(p) == stored[p]

\* The offset a partition is assigned at: the stored one, else the default.
AssignedAt(p) ==
  IF stored[p] # NoOffset THEN stored[p]
  ELSE IF StartFrom = "beginning" THEN 0 ELSE Len(log[p])

\* connect() and assign(): a new session, and every partition (re)assigned.
\* A database or a broker that is down raises, and the loop tries again.
Connect ==
  /\ pc = "connecting" /\ ~stop
  /\ pgUp /\ kafkaUp
  /\ conn' = TRUE
  /\ pos'  = [p \in Partitions |-> AssignedAt(p)]
  /\ base' = [p \in Partitions |-> AssignedAt(p)]
  /\ origin' = [p \in Partitions |->
                  IF origin[p] = NoOffset THEN AssignedAt(p) ELSE origin[p]]
  /\ pc' = "polling"
  /\ UNCHANGED <<broker, pgUp, db, stop, reached, faults>>

\* consume(): at most BATCH messages, in order within each partition.
Batch(to) ==
  /\ \A p \in Partitions : pos[p] <= to[p] /\ to[p] <= Len(log[p])
  /\ to # pos
  /\ Cardinality({q \in Partitions \X (1..MaxLog) :
                    pos[q[1]] < q[2] /\ q[2] <= to[q[1]]}) <= BATCH

\* One turn of the loop up to store.write: the batch is consumed and every
\* message normalised.
Consume(to) ==
  /\ pc = "polling" /\ ~stop /\ kafkaUp
  /\ Batch(to)
  /\ Covers([from |-> pos, to |-> to]) \cap Poison = {}
  /\ base' = pos
  /\ pos'  = to
  /\ pc'   = "writing"
  /\ UNCHANGED <<broker, pgUp, db, stop, conn, origin, reached, faults>>

\* normalize() raises what run() does not catch: main()'s finally closes the
\* consumer and the store, and the process ends.
ConsumePoison(to) ==
  /\ pc = "polling" /\ ~stop /\ kafkaUp
  /\ Batch(to)
  /\ Covers([from |-> pos, to |-> to]) \cap Poison # {}
  /\ pc'   = "down"
  /\ conn' = FALSE
  /\ UNCHANGED <<broker, pgUp, db, stop, reader, origin, reached, faults>>

\* consume() timed out with nothing: no offsets, so nothing is written.
Idle ==
  /\ pc = "polling" /\ ~stop
  /\ UNCHANGED vars

\* store.write may reach its COMMIT: no value is refused and no lock of
\* an unfinished transaction is in the way.
AtCommit ==
  /\ conn
  /\ ~Blocked(InHand)
  /\ \/ pc = "writing" /\ Covers(InHand) \cap Unstorable = {}
     \/ pc = "salvaging"

\* store.write returns: rows and offsets committed, next turn of the loop.
Commit ==
  /\ AtCommit
  /\ Apply(InHand)
  /\ base' = pos
  /\ pc'   = "polling"
  /\ UNCHANGED <<broker, pgUp, limbo, stop, conn, pos, origin, faults>>

\* Mutant: the rows that can be stored are committed outside the transaction.
SalvageOutsideTransaction ==
  /\ pc = "writing" /\ conn
  /\ Covers(InHand) \cap Unstorable # {}
  /\ findings' = findings \cup RowsOf(InHand)
  /\ pc' = "salvaging"
  /\ UNCHANGED <<broker, pgUp, stored, limbo, stop, conn, reader, origin, reached, faults>>

\* A value is refused: the whole transaction rolls back and the batch is
\* retried row by row, each row in a savepoint, the bad ones dropped.
Salvage ==
  /\ pc = "writing" /\ conn
  /\ Covers(InHand) \cap Unstorable # {}
  /\ pc' = "salvaging"
  /\ UNCHANGED <<broker, pgUp, db, stop, conn, reader, origin, reached, faults>>

\* The session is lost while the COMMIT is under way.
LoseCommit ==
  /\ AtCommit /\ Fault
  /\ limbo' = limbo \cup {InHand}
  /\ conn'  = FALSE
  /\ UNCHANGED <<broker, pgUp, findings, stored, pc, stop, reader, origin,
                 reached>>

\* Mutant: the loop goes on with the dead session.
WriteFailsGoesOn ==
  /\ pc \in {"writing", "salvaging"} /\ ~conn
  /\ pc' = "polling"
  /\ UNCHANGED <<broker, pgUp, db, stop, conn, reader, origin, reached, faults>>

\* OperationalError from store.write: run() goes back to connect().
WriteFails ==
  /\ pc \in {"writing", "salvaging"} /\ ~conn
  /\ pc' = "connecting"
  /\ UNCHANGED <<broker, pgUp, db, stop, conn, reader, origin, reached, faults>>

\* SIGTERM; noticed by connect() and at the top of the loop only.
Stop ==
  /\ pc # "down" /\ ~stop /\ Fault
  /\ stop' = TRUE
  /\ UNCHANGED <<broker, pgUp, db, pc, conn, reader, origin, reached>>

\* Mutant: connect() does not notice the signal.
ExitFromLoopOnly ==
  /\ pc = "polling" /\ stop
  /\ pc'   = "down"
  /\ conn' = FALSE
  /\ UNCHANGED <<broker, pgUp, db, stop, reader, origin, reached, faults>>

Exit ==
  /\ pc \in {"connecting", "polling"} /\ stop
  /\ pc'   = "down"
  /\ conn' = FALSE
  /\ UNCHANGED <<broker, pgUp, db, stop, reader, origin, reached, faults>>

\* The process is killed; memory is gone.
Crash ==
  /\ pc # "down" /\ Fault
  /\ pc'   = "down"
  /\ conn' = FALSE
  /\ UNCHANGED <<broker, pgUp, db, stop, reader, origin, reached>>

-----------------------------------------------------------------------------

Init ==
  /\ log = [p \in Partitions |-> << >>]
  /\ kafkaUp = TRUE
  /\ pgUp = TRUE
  /\ findings = {}
  /\ stored = [p \in Partitions |-> NoOffset]
  /\ limbo = {}
  /\ pc = "down"
  /\ stop = FALSE
  /\ conn = FALSE
  /\ base = [p \in Partitions |-> 0]
  /\ pos = [p \in Partitions |-> 0]
  /\ origin = [p \in Partitions |-> NoOffset]
  /\ reached = [p \in Partitions |-> 0]
  /\ faults = 0

ConsumeSome  == \E to \in [Partitions -> 0..MaxLog] : Consume(to)
PoisonSome   == \E to \in [Partitions -> 0..MaxLog] : ConsumePoison(to)
LimboSome    == \E t \in limbo : LimboEnds(t)

Next ==
  \/ \E p \in Partitions, m \in Messages : Produce(p, m)
  \/ KafkaFails \/ KafkaRecovers
  \/ PgFails \/ PgRecovers
  \/ LimboSome
  \/ Start \/ Connect
  \/ ConsumeSome \/ PoisonSome \/ Idle
  \/ Salvage \/ Commit \/ LoseCommit \/ WriteFails
  \/ Stop \/ Exit \/ Crash

Spec == Init /\ [][Next]_vars

\* The process is a loop that is always scheduled and restarted by its
\* supervisor; servers come back, and a server ends every transaction.
Fairness ==
  /\ WF_vars(Start) /\ WF_vars(Connect) /\ WF_vars(ConsumeSome)
  /\ WF_vars(PoisonSome) /\ WF_vars(Salvage) /\ WF_vars(Commit)
  /\ WF_vars(WriteFails) /\ WF_vars(Exit) /\ WF_vars(LimboSome)
  /\ WF_vars(KafkaRecovers) /\ WF_vars(PgRecovers)

FairSpec == Spec /\ Fairness

(***************************************************************************)
(* Properties.                                                             *)
(***************************************************************************)

\* Every variable keeps its type: in particular no consumer position is the
\* marker of a partition without a row in ingest_offsets.
TypeOK ==
  /\ log \in [Partitions -> Seq(Messages)]
  /\ kafkaUp \in BOOLEAN /\ pgUp \in BOOLEAN
  /\ stop \in BOOLEAN /\ conn \in BOOLEAN
  /\ findings \subseteq Alerts
  /\ stored \in [Partitions -> Nat \cup {NoOffset}]
  /\ limbo \subseteq Txn
  /\ pc \in {"down", "connecting", "polling", "writing", "salvaging"}
  /\ base \in Offsets /\ pos \in Offsets
  /\ origin \in [Partitions -> Nat \cup {NoOffset}]
  /\ reached \in Offsets
  /\ faults \in Nat

\* A message is settled once its row is in findings, or no row is due.
Settled(p, i) == log[p][i] \in findings \cup Unstorable \cup Junk

\* The offsets before n, from where the ingestor first began to read.
ReadThrough(p, n) ==
  \A i \in 1..Len(log[p]) : origin[p] < i /\ i <= n => Settled(p, i)

\* No gap.  Every message from the first one ever assigned up to the stored
\* offset is settled, and so is every message before the batch in hand: a
\* commit stores the rows it claims, and the rewind after an outage
\* (assign() from load_offsets()) never leaves the in-memory position ahead
\* of what PostgreSQL holds.
NoGap ==
  \A p \in Partitions :
    /\ stored[p] # NoOffset => ReadThrough(p, stored[p])
    /\ pc \in {"polling", "writing", "salvaging"} => ReadThrough(p, base[p])

\* Once and in order: findings holds exactly the alerts of a prefix of every
\* partition and only ever grows by extending it, whatever crashes, outages
\* and late commits do (ingestor/README.md: "once, with no gaps").
Contract == INSTANCE FindingsStore WITH done <- reached
StoresOncePerAlert == Contract!AbsSpec

\* store.py: "the table never holds rows the offsets do not account for".
\* Every row has a copy below the stored offset of its partition.
RowsAccountedFor ==
  \A a \in findings :
    \E p \in Partitions : \E i \in 1..Len(log[p]) :
       log[p][i] = a /\ i <= stored[p]

\* Every alert that reaches the topic is eventually a row: an outage or a
\* crash delays it, a bad value in its batch does not cost it its row.
EveryAlertStored ==
  \A a \in Alerts :
    (\E p \in Partitions : \E i \in 1..Len(log[p]) : log[p][i] = a)
      ~> (a \in findings)

\* SIGTERM ends the process: connect() and the loop both notice it, and the
\* write in between ends (docstring of connect: "Returns False only if asked
\* to stop while waiting").
StopEnds == stop ~> (pc = "down")

=============================================================================
