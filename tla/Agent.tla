------------------------------- MODULE Agent --------------------------------
(***************************************************************************)
(* The host agent's pipeline (go-agent-v0): the journald collector with    *)
(* its cursor file, the on-disk event queue (internal/buffer), and the     *)
(* goroutine that drains the queue to the platform (cmd/agent).            *)
(*                                                                         *)
(* Three goroutines run: the collector, which hands each entry over an     *)
(* unbuffered channel; the producer, which writes it to the queue; and the *)
(* sink.  The queue's operations hold its mutex; only Write is split, where*)
(* a crash in the middle leaves something behind.  An event is a number,   *)
(* in order of collection, which is the order of the queue's file names;   *)
(* entry[e] is the journal entry it was made from.                         *)
(***************************************************************************)
EXTENDS Integers, Sequences, FiniteSets

CONSTANTS
  Sizes,       \* the size of the event made from each journal entry; 0: no event
  Long,        \* the entries whose line is longer than maxLineBytes
  MaxEvents, MaxBytes,  \* Limits; 0 is unlimited
  BatchSize,   \* events per delivery
  MaxFaults    \* bound: crashes, signals, failed system calls, bad replies

ASSUME SizesAssumption == Sizes \in Seq(Nat)
ASSUME LongAssumption == Long \subseteq DOMAIN Sizes
ASSUME LimitAssumption == {MaxEvents, MaxBytes, MaxFaults} \subseteq Nat
ASSUME BatchAssumption == BatchSize \in Nat \ {0}

None == 0

VARIABLES
  journal,   \* entries in the journal
  cursor,    \* entries before the saved cursor; 0: no cursor file
  pending,   \* event files in the queue directory
  damaged,   \* those of them that do not parse
  tmp,       \* temp files in the queue directory
  dead,      \* event files in the dead-letter directory
  up,        \* the agent is running
  sig,       \* the context is cancelled
  coll,      \* the collector: scanning, about to save the cursor, stopped
  at,        \* entries it has handed over or skipped
  hand,      \* the event the producer holds, or None
  writing,   \* the producer is between its temp file and the rename
  count, bytes,  \* Queue.count, Queue.bytes
  sink,      \* where the sink is
  final,     \* it is in finalFlush
  batch,     \* the batch it is delivering
  entry,     \* history: the journal entry of each event collected
  written,   \* history: events Write committed
  overflow,  \* history: events dropped because the queue was full
  delivered, \* history: events the platform stored
  faults     \* how many faults happened

disk == <<cursor, pending, damaged, tmp, dead>>
prod == <<coll, at, hand, writing, entry>>
book == <<count, bytes>>
cons == <<sink, final, batch>>
hist == <<written, overflow, delivered>>
vars == <<journal, disk, up, sig, prod, book, cons, hist, faults>>

Size(e) == Sizes[entry[e]]

\* The bytes of the files of S, each with its file, and how many they are.
Bytes(S) == UNION {{e} \X (1..Size(e)) : e \in S}
Total(S) == Cardinality(Bytes(S))

Fault == faults < MaxFaults /\ faults' = faults + 1

-----------------------------------------------------------------------------
\* Queue.

\* Mutant: the incoming event is not counted.
OverLimitNow(c, b, n) ==
  \/ MaxEvents > 0 /\ c > MaxEvents
  \/ MaxBytes > 0 /\ b + n > MaxBytes

\* Mutant: the incoming event's bytes are not counted.
OverLimitBytesNow(c, b, n) ==
  \/ MaxEvents > 0 /\ c + 1 > MaxEvents
  \/ MaxBytes > 0 /\ b > MaxBytes

\* overLimitLocked, for an event of n bytes
OverLimit(c, b, n) ==
  \/ MaxEvents > 0 /\ c + 1 > MaxEvents
  \/ MaxBytes > 0 /\ b + n > MaxBytes

Oldest(D) == \A d \in D, p \in pending \ D : d < p
Fits(D) == D = pending \/ ~OverLimit(count - Cardinality(D), bytes - Total(D), Size(hand))

\* enforceLimitsLocked drops D: one oldest file after the other, until the
\* event fits or nothing is left.
Drops(D) == Oldest(D) /\ Fits(D)
            /\ \A C \in SUBSET D : Oldest(C) /\ Fits(C) => C = D

Forget(D) ==
  /\ pending' = pending \ D
  /\ damaged' = damaged \ D
  /\ count' = count - Cardinality(D)
  /\ bytes' = bytes - Total(D)

\* Write, up to the temp file.
WriteTemp ==
  /\ up /\ hand # None /\ ~writing
  /\ \E D \in SUBSET pending : Drops(D) /\ Forget(D) /\ overflow' = overflow \cup D
  /\ tmp' = tmp \cup {hand}
  /\ writing' = TRUE
  /\ UNCHANGED <<journal, cursor, dead, up, sig, coll, at, hand, entry, cons, written,
                 delivered, faults>>

\* The temp file cannot be completed: it stays.  The event is given up.  (When
\* it cannot even be created, the outcome is RenameFails's.)
WriteFails ==
  /\ up /\ writing /\ Fault
  /\ writing' = FALSE /\ hand' = None
  /\ UNCHANGED <<journal, disk, up, sig, coll, at, entry, book, cons, hist>>

\* A file cannot be removed to make room: those before it are gone, and the
\* event is given up.
DropFails ==
  /\ up /\ hand # None /\ ~writing /\ Fault
  /\ \E D \in SUBSET pending : /\ Oldest(D)
                               /\ \A C \in SUBSET D : Oldest(C) => ~Fits(C)
                               /\ Forget(D) /\ overflow' = overflow \cup D
  /\ hand' = None
  /\ UNCHANGED <<journal, cursor, tmp, dead, up, sig, coll, at, writing, entry, cons,
                 written, delivered>>

\* The rename fails: the temp file is removed, the event given up.
RenameFails ==
  /\ up /\ writing /\ Fault
  /\ tmp' = tmp \ {hand}
  /\ writing' = FALSE /\ hand' = None
  /\ UNCHANGED <<journal, cursor, pending, damaged, dead, up, sig, coll, at, entry,
                 book, cons, hist>>

CommitWrite ==
  /\ up /\ writing
  /\ tmp' = tmp \ {hand} /\ pending' = pending \cup {hand}
  /\ count' = count + 1 /\ bytes' = bytes + Size(hand)
  /\ written' = written \cup {hand}
  /\ writing' = FALSE /\ hand' = None
  /\ UNCHANGED <<journal, cursor, damaged, dead, up, sig, coll, at, entry, cons,
                 overflow, delivered, faults>>

\* A file in the queue is damaged.
Damage ==
  /\ Fault
  /\ \E e \in pending \ damaged : damaged' = damaged \cup {e}
  /\ UNCHANGED <<journal, cursor, pending, tmp, dead, up, sig, prod, book, cons, hist>>

\* journalctl follows after the cursor; without one, from now.
ResumeAt == IF cursor = 0 THEN journal ELSE cursor

\* Open: temp files go, what is on disk is counted.  Then runAgent.
Open ==
  /\ ~up
  /\ tmp' = {}
  /\ count' = Cardinality(pending) /\ bytes' = Total(pending)
  /\ up' = TRUE /\ sig' = FALSE
  /\ coll' = "scan" /\ at' = ResumeAt
  /\ sink' = "tick" /\ final' = FALSE /\ batch' = {}
  /\ UNCHANGED <<journal, cursor, pending, damaged, dead, hand, writing, entry, hist,
                 faults>>

-----------------------------------------------------------------------------
\* Collector.

Logged ==
  /\ journal < Len(Sizes)
  /\ journal' = journal + 1
  /\ UNCHANGED <<disk, up, sig, prod, book, cons, hist, faults>>

\* parseEntry: an entry without JSON, cursor or timestamp makes no event.  The
\* scanner never gets to the end of an over-long line.
Parses(j) == Sizes[j] > 0 /\ j \notin Long

\* scan hands the next entry to a producer that is ready to receive.
Emit ==
  /\ up /\ coll = "scan" /\ at < journal /\ hand = None /\ Parses(at + 1)
  /\ entry' = Append(entry, at + 1)
  /\ hand' = Len(entry')
  /\ at' = at + 1 /\ coll' = "emitted"
  /\ UNCHANGED <<journal, disk, up, sig, writing, book, cons, hist, faults>>

\* Mutant: an entry that does not parse ends the scan.
SkipStops ==
  /\ up /\ coll = "scan" /\ at < journal /\ ~Parses(at + 1)
  /\ coll' = "stopped"
  /\ UNCHANGED <<journal, disk, up, sig, at, hand, writing, entry, book, cons, hist,
                 faults>>

\* It passes over an entry that does not parse; the cursor stays behind it.
Skip ==
  /\ up /\ coll = "scan" /\ at < journal /\ ~Parses(at + 1) /\ at + 1 \notin Long
  /\ at' = at + 1
  /\ UNCHANGED <<journal, disk, up, sig, coll, hand, writing, entry, book, cons, hist,
                 faults>>

\* Mutant: the cursor is saved one entry ahead.
SaveCursorAhead ==
  /\ up /\ coll = "emitted"
  /\ cursor' = at + 1
  /\ coll' = "scan"
  /\ UNCHANGED <<journal, pending, damaged, tmp, dead, up, sig, at, hand, writing, entry,
                 book, cons, hist, faults>>

\* Then it saves the cursor, while the producer writes; a failure is logged.
SaveCursor ==
  /\ up /\ coll = "emitted"
  /\ \/ cursor' = at /\ UNCHANGED faults
     \/ Fault /\ UNCHANGED cursor
  /\ coll' = "scan"
  /\ UNCHANGED <<journal, pending, damaged, tmp, dead, up, sig, at, hand, writing, entry,
                 book, cons, hist>>

\* Stop, or the next line is longer than maxLineBytes (bufio.ErrTooLong), or
\* journalctl ended by itself.
StopCollector ==
  /\ up /\ coll = "scan"
  /\ \/ sig /\ UNCHANGED faults
     \/ at < journal /\ at + 1 \in Long /\ UNCHANGED faults
     \/ ~sig /\ Fault
  /\ coll' = "stopped"
  /\ UNCHANGED <<journal, disk, up, sig, at, hand, writing, entry, book, cons, hist>>

\* The channel is closed and drained; stopDrain is closed once sig is set too.
ProducerDone == coll = "stopped" /\ hand = None

-----------------------------------------------------------------------------
\* Sink.

\* The flush ticker.  select may prefer it to a shutdown that has begun.
Tick ==
  /\ up /\ sink = "tick"
  /\ sink' = "read"
  /\ UNCHANGED <<journal, disk, up, sig, prod, book, final, batch, hist, faults>>

FinalFlush ==
  /\ up /\ sink = "tick" /\ sig /\ ProducerDone
  /\ sink' = "read" /\ final' = TRUE
  /\ UNCHANGED <<journal, disk, up, sig, prod, book, batch, hist, faults>>

\* Mutant: newest first.
RankFromNewest(e, S) == Cardinality({f \in S : f > e})

Rank(e, S) == Cardinality({f \in S : f < e})

\* The files that do not parse among those the scan of ReadBatch looks at.
Met == {e \in damaged : Rank(e, pending \ damaged) < BatchSize}

\* ReadBatch: the oldest files that parse.  Those met that do not are moved to
\* the dead letters, except R, whose move fails.
ReadBatch ==
  /\ up /\ sink = "read" /\ ~writing
  /\ batch' = {e \in pending \ damaged : Rank(e, pending \ damaged) < BatchSize}
  /\ \E R \in SUBSET Met :
       /\ IF R = {} THEN UNCHANGED faults ELSE Fault
       /\ dead' = dead \cup (Met \ R)
       /\ Forget(Met \ R)
  /\ sink' = IF batch' # {} THEN "send" ELSE IF final THEN "done" ELSE "tick"
  /\ UNCHANGED <<journal, cursor, tmp, up, sig, prod, final, hist>>

\* A file cannot be read, after some of those met were moved.
ReadFails ==
  /\ up /\ sink = "read" /\ ~writing /\ Fault
  /\ \E D \in SUBSET Met : dead' = dead \cup D /\ Forget(D)
  /\ sink' = IF final THEN "done" ELSE "tick"
  /\ UNCHANGED <<journal, cursor, tmp, up, sig, prod, final, batch, hist>>

\* Send: the platform stores the batch and says so.
SendAcked ==
  /\ up /\ sink = "send"
  /\ delivered' = delivered \cup batch
  /\ sink' = "ack"
  /\ UNCHANGED <<journal, disk, up, sig, prod, book, final, batch, written, overflow,
                 faults>>

\* Mutant: a failed delivery is acknowledged.
SendFailedAcks ==
  /\ up /\ sink = "send" /\ Fault
  /\ sink' = "ack"
  /\ UNCHANGED <<journal, disk, up, sig, prod, book, final, batch, hist>>

\* Mutant: the sink gives up instead of waiting for the next tick.
SendFailedStops ==
  /\ up /\ sink = "send" /\ Fault
  /\ sink' = "done"
  /\ UNCHANGED <<journal, disk, up, sig, prod, book, final, batch, hist>>

\* ErrRetryable: the reply, or the whole request, is lost, or refused for now.
\* A shutdown cancels a request that is not part of the final flush.
SendRetryable ==
  /\ up /\ sink = "send"
  /\ IF sig /\ ~final THEN UNCHANGED faults ELSE Fault
  /\ delivered' \in {delivered, delivered \cup batch}
  /\ sink' = IF final THEN "done" ELSE "tick"
  /\ UNCHANGED <<journal, disk, up, sig, prod, book, final, batch, written, overflow>>

\* ErrPermanent
SendRejected ==
  /\ up /\ sink = "send" /\ Fault
  /\ sink' = "reject"
  /\ UNCHANGED <<journal, disk, up, sig, prod, book, final, batch, hist>>

\* ErrUnauthorized: halt() and return; finalFlush only returns.
SendUnauthorized ==
  /\ up /\ sink = "send" /\ Fault
  /\ sink' = "done"
  /\ sig' = (sig \/ ~final)
  /\ UNCHANGED <<journal, disk, up, prod, book, final, batch, hist>>

\* After Ack or DeadLetter: the next batch, or the end of the final deadline.
Proceed == sink' \in IF final THEN {"read", "done"} ELSE {"read"}

\* Mutant: the whole batch is counted off, dropped files included.
AckCountsBatch ==
  /\ up /\ sink = "ack" /\ ~writing
  /\ pending' = pending \ batch /\ damaged' = damaged \ batch
  /\ count' = count - Cardinality(batch) /\ bytes' = bytes - Total(batch)
  /\ Proceed
  /\ UNCHANGED <<journal, cursor, tmp, dead, up, sig, prod, final, batch, hist, faults>>

\* Ack: files another Write has dropped meanwhile are passed over, and those
\* in R cannot be removed.
Ack ==
  /\ up /\ sink = "ack" /\ ~writing
  /\ \E R \in SUBSET (batch \cap pending) :
       /\ IF R = {} THEN UNCHANGED faults ELSE Fault
       /\ Forget((batch \cap pending) \ R)
  /\ Proceed
  /\ UNCHANGED <<journal, cursor, tmp, dead, up, sig, prod, final, batch, hist>>

DeadLetter ==
  /\ up /\ sink = "reject" /\ ~writing
  /\ \E R \in SUBSET (batch \cap pending) :
       /\ IF R = {} THEN UNCHANGED faults ELSE Fault
       /\ dead' = dead \cup ((batch \cap pending) \ R)
       /\ Forget((batch \cap pending) \ R)
  /\ Proceed
  /\ UNCHANGED <<journal, cursor, tmp, up, sig, prod, final, batch, hist>>

-----------------------------------------------------------------------------
\* The process.

Signal ==
  /\ up /\ ~sig /\ Fault
  /\ sig' = TRUE
  /\ UNCHANGED <<journal, disk, up, prod, book, cons, hist>>

\* Mutant: the process waits for an empty queue.
ExitWhenEmpty ==
  /\ up /\ sig /\ ProducerDone /\ sink = "done" /\ pending = {}
  /\ up' = FALSE
  /\ UNCHANGED <<journal, disk, sig, prod, book, cons, hist, faults>>

Exit ==
  /\ up /\ sig /\ ProducerDone /\ sink = "done"
  /\ up' = FALSE
  /\ UNCHANGED <<journal, disk, sig, prod, book, cons, hist, faults>>

Crash ==
  /\ up /\ Fault
  /\ up' = FALSE /\ hand' = None /\ writing' = FALSE
  /\ UNCHANGED <<journal, disk, sig, coll, at, entry, book, cons, hist>>

Init ==
  /\ journal = 0 /\ cursor = 0
  /\ pending = {} /\ damaged = {} /\ tmp = {} /\ dead = {}
  /\ up = FALSE /\ sig = FALSE
  /\ coll = "stopped" /\ at = 0 /\ hand = None /\ writing = FALSE
  /\ count = 0 /\ bytes = 0
  /\ sink = "done" /\ final = FALSE /\ batch = {}
  /\ entry = << >> /\ written = {} /\ overflow = {} /\ delivered = {}
  /\ faults = 0

Collect == Emit \/ Skip \/ SaveCursor \/ StopCollector
Produce == WriteTemp \/ WriteFails \/ DropFails \/ RenameFails \/ CommitWrite
Send == SendAcked \/ SendRetryable \/ SendRejected \/ SendUnauthorized
Drain == Tick \/ FinalFlush \/ ReadBatch \/ ReadFails \/ Send \/ Ack \/ DeadLetter

Next == Logged \/ Collect \/ Produce \/ Drain \/ Damage \/ Open \/ Signal \/ Exit \/ Crash

Spec == Init /\ [][Next]_vars

\* The goroutines are scheduled, the unit's Restart=on-failure starts an agent
\* again that went down without being told to stop, and select is fair:
\* FinalFlush is not passed over for ever.
Fairness == WF_vars(~sig /\ Open) /\ WF_vars(Collect) /\ WF_vars(Produce) /\ WF_vars(Drain)
            /\ SF_vars(FinalFlush) /\ WF_vars(Exit)

FairSpec == Spec /\ Fairness

-----------------------------------------------------------------------------
\* Properties.

Events == 1..Len(entry)

\* The entries that make an event.  An entry is collected again only at the cost
\* of a fault.
Sound == {j \in DOMAIN Sizes : Parses(j)}

\* Every variable keeps its type; in particular the saved cursor is never ahead
\* of what the running collector has handed over or skipped, and every file in
\* the queue directory belongs to an event that was collected.
TypeOK ==
  /\ journal \in 0..Len(Sizes) /\ cursor \in 0..journal /\ at \in 0..journal
  /\ up => cursor <= at
  /\ entry \in Seq(1..Len(Sizes))
  /\ pending \subseteq Events /\ damaged \subseteq pending
  /\ tmp \subseteq Events /\ dead \subseteq Events /\ batch \subseteq Events
  /\ written \subseteq Events /\ overflow \subseteq Events /\ delivered \subseteq Events
  /\ up \in BOOLEAN /\ sig \in BOOLEAN /\ final \in BOOLEAN
  /\ hand \in Events \cup {None} /\ writing \in BOOLEAN
  /\ coll \in {"scan", "emitted", "stopped"}
  /\ sink \in {"tick", "read", "send", "ack", "reject", "done"}
  /\ count \in Int /\ bytes \in Int /\ faults \in 0..MaxFaults

\* The counters the limits are checked against say what is on disk, although
\* Write drops files of the batch the sink is about to Ack or DeadLetter.
CountExact == up => count = Cardinality(pending)

\* The same for the bytes: no sequence of drops, acks, dead letters, failed
\* removals and restarts makes Queue.bytes drift from the files' sizes.
BytesExact == up => bytes = Total(pending)

\* "Limits bounds the on-disk queue" (internal/buffer): never more event files
\* than MaxEvents.
FilesBounded == MaxEvents > 0 => Cardinality(pending) <= MaxEvents

\* Nor more bytes than MaxBytes, except for a single event that is larger.
BytesBounded == MaxBytes > 0 => Total(pending) <= MaxBytes \/ Cardinality(pending) = 1

\* "an event is removed only after the sink acknowledges it": an event that
\* was committed is in the queue, at the platform, a dead letter, or was
\* dropped because the queue was full.
NothingVanishes == written \subseteq pending \cup delivered \cup dead \cup overflow

\* FIFO: the platform has no event while an older one that parses is waiting.
InOrder == \A n \in delivered : \A m \in pending \ damaged : m < n => m \in delivered

\* "Nothing is lost if the process dies" (cmd/agent/main.go): every entry
\* before the cursor was committed to the queue once the process is down.
CursorBehindQueue ==
  ~up => \A j \in 1..cursor : j >= entry[1] /\ Parses(j) => \E e \in written : entry[e] = j

\* An entry that parses becomes an event, whatever stands before it in the
\* journal that does not, if the collector is at work when it is logged and
\* nothing fails meanwhile; only a line longer than maxLineBytes is an obstacle.
BadEntrySkipped ==
  \A j \in Sound :
    (/\ up /\ coll = "scan" /\ at < j /\ j <= journal
     /\ \A k \in (at + 1)..j : k \notin Long)
      ~> ((\E e \in Events : entry[e] = j) \/ faults > 0)

\* "a single bad entry must never take the collector down" (scan), without that
\* exception.  Not so: the scanner gives up at an over-long line, and the
\* collector of a running agent is down for good.
BadEntryHarmless ==
  \A j \in Sound :
    (up /\ coll = "scan" /\ at < j /\ j <= journal)
      ~> ((\E e \in Events : entry[e] = j) \/ faults > 0)

\* "cannot exhaust the disk": temp files included, the queue directory holds
\* one file more than MaxEvents at most.
DiskBounded == MaxEvents > 0 => Cardinality(pending \cup tmp) <= MaxEvents + 1

\* What is queued is eventually stored by the platform, dead-lettered, or
\* dropped for newer events, through crashes, lost replies and failed system
\* calls, unless the agent was told to stop and waits to be started.
EveryEventLeaves ==
  \A e \in 1..(Cardinality(Sound) + MaxFaults) :
    e \in pending ~> (e \in delivered \cup dead \cup overflow \/ (sig /\ ~up))

\* A shutdown that begins ends: the collector stops, the producer drains, the
\* final flush is bounded, and the process exits.
ShutdownEnds == sig ~> ~up

=============================================================================
