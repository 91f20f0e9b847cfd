------------------------------ MODULE Delivery ------------------------------
(***************************************************************************)
(* The forwarder from a line read to a checkpoint on disk: the main loop   *)
(* (forwarder/app.py), the producer (producer.py: KafkaWriter), and the    *)
(* delivery order and offset persistence (state.py: AckTracker,            *)
(* OffsetStore).  Everything runs on one thread; librdkafka works behind   *)
(* it and its callbacks run only where the loop serves them.               *)
(*                                                                         *)
(* Rotation is the business of FileTail: here a watched file is a sequence *)
(* of lines and a position is a number of lines, so the end offset of a    *)
(* line, and the AckTracker sequence number it gets, is its index.         *)
(* A line is of one of three kinds:                                        *)
(*   "json"  an alert                                                      *)
(*   "skip"  blank or malformed: settled without being sent                *)
(*   "huge"  produce() raises for it (larger than message.max.bytes)       *)
(* Deque and set of AckTracker: _pending is always the lines               *)
(* committed + 1 .. tracked, and acked the settled ones among them.        *)
(***************************************************************************)
EXTENDS Integers, Sequences, FiniteSets

CONSTANTS
  Files,        \* the watched files
  Source,       \* the lines of each file
  BatchLines,   \* watcher.batch_lines: lines per poll of a file
  QueueMax,     \* queue.buffering.max.messages
  Missing,      \* no such state file
  Corrupt,      \* a state file that does not parse
  MaxFaults,    \* bound: crashes, signals and failed saves
  MaxFails,     \* bound: delivery reports with an error
  MaxFatal,     \* bound: fatal errors of the idempotent producer
  MaxCorrupt    \* bound: state files damaged, lost or not readable

Kinds     == {"json", "skip", "huge"}
Positions == [Files -> Nat]

ASSUME SourceAssumption == Source \in [Files -> Seq(Kinds)]
ASSUME LimitAssumption == BatchLines \in Nat \ {0} /\ QueueMax \in Nat \ {0}
ASSUME BoundAssumption ==
  /\ MaxFaults \in Nat /\ MaxFails \in Nat
  /\ MaxFatal \in Nat /\ MaxCorrupt \in Nat
ASSUME StateFileAssumption ==
  Missing \notin Positions /\ Corrupt \notin Positions /\ Missing # Corrupt

VARIABLES
  pc,         \* where run() is
  todo,       \* files not yet polled in this turn of the loop
  cur,        \* the file being polled
  hand,       \* the lines of cur after tracked[cur], up to here, were read
  stop,       \* the threading.Event of the signal handlers
  committed,  \* AckTracker._committed of each file
  tracked,    \* AckTracker._next_seq: lines registered
  acked,      \* AckTracker._acked
  inflight,   \* lines handed to librdkafka whose report was not served yet
  topic,      \* lines the brokers have stored
  broken,     \* librdkafka has raised a fatal error
  fatal,      \* KafkaWriter._fatal
  files,      \* OffsetStore._files
  dirty,      \* OffsetStore._dirty
  main, bak,  \* state.json and state.json.bak
  tmp,        \* the temporary file of a save in progress
  after,      \* where run() goes on after store.save()
  blind,      \* history: the process works on beside a state file that is not
              \* the one it loaded or saved last (see LoadMain and Damage)
  faults, fails, fatals, corruptions   \* how many of each so far

loop    == <<todo, cur, hand>>
tracker == <<committed, tracked, acked>>
kafka   == <<inflight, topic, broken, fatal>>
offsets == <<files, dirty>>
disk    == <<main, bak, tmp>>
counts  == <<faults, fails, fatals, corruptions>>
vars    == <<pc, loop, stop, tracker, kafka, offsets, disk, after, blind,
             counts>>

Lines == UNION {{f} \X (1..Len(Source[f])) : f \in Files}
Zero  == [f \in Files |-> 0]
Usable(s) == s \notin {Missing, Corrupt}

Fault == /\ faults < MaxFaults
         /\ faults' = faults + 1
         /\ UNCHANGED <<fails, fatals, corruptions>>

(***************************************************************************)
(* Starting: OffsetStore._load reads state.json and, if that gives nothing, *)
(* the backup; then one AckTracker per file and the first save.            *)
(***************************************************************************)

\* The checkpoint the disk holds for a start: state.json, else the backup, else
\* a fresh start (with start_from: beginning).
Loadable == IF Usable(main) THEN main ELSE IF Usable(bak) THEN bak ELSE Zero

\* _read gets no positions from a file that is there: it does not parse, or
\* reading it ends in an OSError.
Unreadable(s) ==
  \/ s = Corrupt /\ UNCHANGED corruptions
  \/ /\ Usable(s) /\ corruptions < MaxCorrupt
     /\ corruptions' = corruptions + 1

\* Mutant: a file that could not be read stays where it is.
LeftInPlace(s, place) ==
  /\ Unreadable(s)
  /\ place = s
  /\ UNCHANGED <<faults, fails, fatals>>

\* _read then renames it to *.corrupt, and ignores an error of the rename: the
\* file stays in its place.
Quarantined(s, place) ==
  /\ Unreadable(s)
  /\ \/ place = Missing /\ UNCHANGED faults
     \/ place = s /\ faults < MaxFaults /\ faults' = faults + 1
  /\ UNCHANGED <<fails, fatals>>

Begin(positions) ==
  /\ files' = positions
  /\ committed' = positions
  /\ tracked' = positions

\* dirty: the backup was loaded, or, after a fresh start, the first update()
\* of every file is a change.  blind: the rename failed.
LoadMain ==
  /\ pc = "down"
  /\ \/ /\ Usable(main) /\ Begin(main)
        /\ dirty' = FALSE /\ pc' = "commit"
        /\ blind' = FALSE
        /\ UNCHANGED <<main, counts>>
     \/ /\ main = Missing /\ Begin(Zero)
        /\ dirty' = TRUE /\ pc' = "backup"
        /\ blind' = FALSE
        /\ UNCHANGED <<main, counts>>
     \/ /\ Quarantined(main, main') /\ Begin(Zero)
        /\ dirty' = TRUE /\ pc' = "backup"
        /\ blind' = (faults' # faults)
  /\ acked' = [f \in Files |-> {}]
  /\ inflight' = {}
  /\ broken' = FALSE /\ fatal' = FALSE
  /\ stop' = FALSE
  /\ after' = "turn"
  /\ UNCHANGED <<loop, topic, bak, tmp>>

\* Mutant: the backup is trusted without looking at it.
LoadBackupUnchecked ==
  /\ pc = "backup"
  /\ Begin(bak)
  /\ pc' = "commit"
  /\ UNCHANGED <<loop, stop, acked, kafka, dirty, disk, after, blind, counts>>

LoadBackup ==
  /\ pc = "backup"
  /\ \/ /\ Usable(bak) /\ Begin(bak)
        /\ UNCHANGED <<bak, blind, counts>>
     \/ /\ bak = Missing /\ Begin(Zero)
        /\ UNCHANGED <<bak, blind, counts>>
     \/ /\ Quarantined(bak, bak') /\ Begin(Zero)
        /\ blind' = (blind \/ (Usable(bak) /\ faults' # faults))
  /\ pc' = "commit"
  /\ UNCHANGED <<loop, stop, acked, kafka, dirty, main, tmp, after>>

(***************************************************************************)
(* One turn of the loop over the files.                                    *)
(***************************************************************************)
\* Mutant: the signal is not looked at.
TurnIgnoresStop ==
  /\ pc = "turn"
  /\ pc' = "files" /\ todo' = Files
  /\ UNCHANGED <<cur, hand, stop, tracker, kafka, offsets, disk, after, blind,
                 counts>>

Turn ==
  /\ pc = "turn"
  /\ IF stop THEN pc' = "flush" /\ UNCHANGED todo
             ELSE pc' = "files" /\ todo' = Files
  /\ UNCHANGED <<cur, hand, stop, tracker, kafka, offsets, disk, after, blind,
                 counts>>

\* tail.poll(batch_lines): some of the lines the file has by now.
Poll(f, n) ==
  /\ pc = "files" /\ f \in todo
  /\ tracked[f] <= n /\ n <= Len(Source[f]) /\ n <= tracked[f] + BatchLines
  /\ cur' = f /\ hand' = n
  /\ todo' = todo \ {f}
  /\ pc' = "lines"
  /\ UNCHANGED <<stop, tracker, kafka, offsets, disk, after, blind, counts>>

\* Mutant: the committed position jumps to the newest settled line.
AckNewest(f, done, last) ==
  \E n \in done :
    /\ \A i \in done : i <= n
    /\ committed' = [committed EXCEPT ![f] = n]
    /\ acked' = [acked EXCEPT ![f] = {}]

\* AckTracker.ack: the committed position moves along the settled prefix of
\* the lines up to last, the newest one tracked.
Ack(f, done, last) ==
  \E n \in committed[f] .. last :
    /\ (committed[f] + 1) .. n \subseteq done
    /\ n + 1 \notin done
    /\ committed' = [committed EXCEPT ![f] = n]
    /\ acked' = [acked EXCEPT ![f] = {i \in done : i > n}]

NextLine == tracked[cur] + 1

\* The loop takes the next line of the batch: tracker.track comes first.
Take ==
  /\ pc = "lines" /\ NextLine <= hand
  /\ tracked' = [tracked EXCEPT ![cur] = NextLine]
  /\ UNCHANGED <<loop, stop, topic, broken, fatal, offsets, disk, after, blind,
                 counts>>

\* A blank or malformed line is settled at once.
SkipLine ==
  /\ Take
  /\ Source[cur][NextLine] = "skip"
  /\ Ack(cur, acked[cur] \cup {NextLine}, NextLine)
  /\ UNCHANGED <<pc, inflight>>

\* produce() raises KafkaException: for a line it will never accept, and for
\* any line once the producer is in its fatal state.  send() settles it.
DropLine ==
  /\ Take
  /\ \/ Source[cur][NextLine] = "huge"
     \/ Source[cur][NextLine] = "json" /\ broken
  /\ Ack(cur, acked[cur] \cup {NextLine}, NextLine)
  /\ UNCHANGED <<pc, inflight>>

\* produce() accepts the line into the local queue.
SendLine ==
  /\ Take
  /\ Source[cur][NextLine] = "json" /\ ~broken
  /\ Cardinality(inflight) < QueueMax
  /\ inflight' = inflight \cup {<<cur, NextLine>>}
  /\ UNCHANGED <<pc, committed, acked>>

\* Mutant: a line that finds the queue full is dropped.
QueueFullDrops ==
  /\ Take
  /\ Source[cur][NextLine] = "json" /\ ~broken
  /\ Cardinality(inflight) >= QueueMax
  /\ Ack(cur, acked[cur] \cup {NextLine}, NextLine)
  /\ UNCHANGED <<pc, inflight>>

\* BufferError: the queue is full, the line is tracked and send() waits.
QueueFull ==
  /\ Take
  /\ Source[cur][NextLine] = "json" /\ ~broken
  /\ Cardinality(inflight) >= QueueMax
  /\ pc' = "blocked"
  /\ UNCHANGED <<committed, acked, inflight>>

\* Waiting in send(): room at last ...
SendBlocked ==
  /\ pc = "blocked" /\ ~broken
  /\ Cardinality(inflight) < QueueMax
  /\ inflight' = inflight \cup {<<cur, tracked[cur]>>}
  /\ pc' = "lines"
  /\ UNCHANGED <<loop, stop, tracker, topic, broken, fatal, offsets, disk,
                 after, blind, counts>>

\* ... or the producer turned fatal meanwhile ...
DropBlocked ==
  /\ pc = "blocked" /\ broken
  /\ Ack(cur, acked[cur] \cup {tracked[cur]}, tracked[cur])
  /\ pc' = "lines"
  /\ UNCHANGED <<loop, stop, tracked, kafka, offsets, disk, after, blind,
                 counts>>

\* ... or shutdown: the rest of the batch is left unread.
AbortSend ==
  /\ pc = "blocked" /\ ~broken /\ stop
  /\ Cardinality(inflight) >= QueueMax
  /\ pc' = "serve"
  /\ UNCHANGED <<loop, stop, tracker, kafka, offsets, disk, after, blind,
                 counts>>

EndBatch ==
  /\ pc = "lines" /\ NextLine > hand
  /\ pc' = IF stop THEN "serve" ELSE "files"
  /\ UNCHANGED <<loop, stop, tracker, kafka, offsets, disk, after, blind,
                 counts>>

EndFiles ==
  /\ pc = "files" /\ todo = {}
  /\ pc' = "serve"
  /\ UNCHANGED <<loop, stop, tracker, kafka, offsets, disk, after, blind,
                 counts>>

(***************************************************************************)
(* librdkafka, and the callbacks poll() and flush() serve.                 *)
(***************************************************************************)
Serving == pc \in {"blocked", "serve", "flush"}

\* The brokers store a queued line (acks=all), in any order across files.
BrokerStores(m) ==
  /\ pc # "down" /\ ~broken
  /\ topic' = topic \cup {m}
  /\ UNCHANGED <<pc, loop, stop, tracker, inflight, broken, fatal, offsets,
                 disk, after, blind, counts>>

\* Delivery report without error: _on_ack settles the line.
Delivered(m) ==
  /\ Serving /\ m \in topic
  /\ inflight' = inflight \ {m}
  /\ Ack(m[1], acked[m[1]] \cup {m[2]}, tracked[m[1]])
  /\ UNCHANGED <<pc, loop, stop, tracked, topic, broken, fatal, offsets, disk,
                 after, blind, counts>>

\* Delivery report with an error: the line is NOT settled.  The brokers may
\* or may not have stored it.
Undelivered(m) ==
  /\ Serving
  /\ inflight' = inflight \ {m}
  /\ \/ /\ ~broken /\ fails < MaxFails
        /\ fails' = fails + 1
        /\ UNCHANGED <<fatal, faults, fatals, corruptions>>
     \/ broken /\ fatal' = TRUE /\ UNCHANGED counts
  /\ UNCHANGED <<pc, loop, stop, tracker, topic, broken, offsets, disk, after,
                 blind>>

ProducerBreaks ==
  /\ pc \notin {"down", "backup"} /\ ~broken /\ fatals < MaxFatal
  /\ fatals' = fatals + 1
  /\ broken' = TRUE
  /\ UNCHANGED <<pc, loop, stop, tracker, inflight, topic, fatal, offsets, disk,
                 after, blind, faults, fails, corruptions>>

\* _on_error with a fatal error.
FatalReport ==
  /\ Serving /\ broken /\ ~fatal
  /\ fatal' = TRUE
  /\ UNCHANGED <<pc, loop, stop, tracker, inflight, topic, broken, offsets,
                 disk, after, blind, counts>>

(***************************************************************************)
(* Checkpoints and the end of a turn.                                      *)
(***************************************************************************)

\* Mutant: the loop goes on with a fatal producer.
ServeDoneIgnoresFatal ==
  /\ pc = "serve"
  /\ \/ pc' = "commit" /\ after' = "turn"
     \/ pc' = "turn" /\ UNCHANGED after
  /\ UNCHANGED <<loop, stop, tracker, kafka, offsets, disk, blind, counts>>

\* After writer.poll(0): leave the loop, or save if save_interval is over,
\* or take another turn.
ServeDone ==
  /\ pc = "serve"
  /\ \/ fatal /\ pc' = "flush" /\ UNCHANGED after
     \/ ~fatal /\ pc' = "commit" /\ after' = "turn"
     \/ ~fatal /\ pc' = "turn" /\ UNCHANGED after
  /\ UNCHANGED <<loop, stop, tracker, kafka, offsets, disk, blind, counts>>

\* flush() returned: empty, or FLUSH_TIMEOUT passed.
FlushDone ==
  /\ pc = "flush"
  /\ pc' = "commit" /\ after' = "exit"
  /\ UNCHANGED <<loop, stop, tracker, kafka, offsets, disk, blind, counts>>

\* _commit, then save(): nothing to do unless dirty, else write the
\* temporary file and fsync it.
Commit ==
  /\ pc = "commit"
  /\ files' = committed
  /\ dirty' = (dirty \/ files # committed)
  /\ IF dirty' THEN tmp' = committed /\ pc' = "rotate"
               ELSE pc' = after /\ UNCHANGED tmp
  /\ UNCHANGED <<loop, stop, tracker, kafka, main, bak, after, blind, counts>>

\* Mutant: state.json is removed instead of kept as the backup.
RotateRemoves ==
  /\ pc = "rotate"
  /\ main' = Missing
  /\ pc' = "install"
  /\ UNCHANGED <<loop, stop, tracker, kafka, offsets, bak, tmp, after, blind,
                 counts>>

\* Mutant: a backup that is there is not replaced.
RotateFirst ==
  /\ pc = "rotate"
  /\ IF main # Missing /\ bak = Missing THEN bak' = main /\ main' = Missing
                                        ELSE UNCHANGED <<bak, main>>
  /\ pc' = "install"
  /\ UNCHANGED <<loop, stop, tracker, kafka, offsets, tmp, after, blind,
                 counts>>

\* state.json, if there is one, becomes state.json.bak.
Rotate ==
  /\ pc = "rotate"
  /\ IF main # Missing THEN bak' = main /\ main' = Missing
                       ELSE UNCHANGED <<bak, main>>
  /\ pc' = "install"
  /\ UNCHANGED <<loop, stop, tracker, kafka, offsets, tmp, after, blind,
                 counts>>

\* The temporary file becomes state.json.
Install ==
  /\ pc = "install"
  /\ main' = tmp /\ tmp' = Missing
  /\ dirty' = FALSE /\ blind' = FALSE
  /\ pc' = after
  /\ UNCHANGED <<loop, stop, tracker, kafka, files, bak, after, counts>>

\* OSError in save(): the temporary file is removed, dirty stays.
SaveFails ==
  /\ pc \in {"rotate", "install"} /\ Fault
  /\ tmp' = Missing
  /\ pc' = after
  /\ UNCHANGED <<loop, stop, tracker, kafka, offsets, main, bak, after, blind>>

Exit ==
  /\ pc = "exit"
  /\ pc' = "down" /\ blind' = FALSE
  /\ inflight' = {}
  /\ UNCHANGED <<loop, stop, tracker, topic, broken, fatal, offsets, disk,
                 after, counts>>

Signal ==
  /\ pc # "down" /\ ~stop /\ Fault
  /\ stop' = TRUE
  /\ UNCHANGED <<pc, loop, tracker, kafka, offsets, disk, after, blind>>

\* Killed at any point; a temporary file left behind is never read.
Crash ==
  /\ pc # "down" /\ Fault
  /\ pc' = "down" /\ blind' = FALSE
  /\ inflight' = {} /\ tmp' = Missing
  /\ UNCHANGED <<loop, stop, tracker, topic, broken, fatal, offsets, main, bak,
                 after>>

\* state.json or its backup is damaged or lost, also while the forwarder runs:
\* it reads neither again before the next start.
Damage ==
  /\ corruptions < MaxCorrupt
  /\ corruptions' = corruptions + 1
  /\ \/ /\ main # Missing /\ main' \in {Corrupt, Missing}
        /\ blind' = (pc # "down")
        /\ UNCHANGED bak
     \/ /\ bak # Missing /\ bak' \in {Corrupt, Missing}
        /\ UNCHANGED <<main, blind>>
  /\ UNCHANGED <<pc, loop, stop, tracker, kafka, offsets, tmp, after,
                 faults, fails, fatals>>

-----------------------------------------------------------------------------

Init ==
  /\ pc = "down"
  /\ todo = {} /\ cur \in Files /\ hand = 0
  /\ stop = FALSE
  /\ committed = Zero /\ tracked = Zero
  /\ acked = [f \in Files |-> {}]
  /\ inflight = {} /\ topic = {}
  /\ broken = FALSE /\ fatal = FALSE
  /\ files = Zero /\ dirty = FALSE
  /\ main = Missing /\ bak = Missing /\ tmp = Missing
  /\ after = "turn" /\ blind = FALSE
  /\ faults = 0 /\ fails = 0 /\ fatals = 0 /\ corruptions = 0

PollSome  == \E f \in Files : \E n \in 0..Len(Source[f]) : Poll(f, n)
DoLine    == SkipLine \/ DropLine \/ SendLine \/ QueueFull
Unblock   == SendBlocked \/ DropBlocked \/ AbortSend
Report    == \E m \in inflight : Delivered(m)
Load      == LoadMain \/ LoadBackup
Save      == Commit \/ Rotate \/ Install

Next ==
  \/ Load \/ Turn \/ PollSome \/ DoLine \/ Unblock \/ EndBatch \/ EndFiles
  \/ \E m \in inflight : BrokerStores(m) \/ Undelivered(m)
  \/ Report \/ ProducerBreaks \/ FatalReport
  \/ ServeDone \/ FlushDone \/ Save \/ SaveFails
  \/ Exit \/ Signal \/ Crash \/ Damage

Spec == Init /\ [][Next]_vars

\* One thread that never waits for ever outside send(), restarted by systemd
\* (Restart=always); librdkafka retries until a broker stores the line.  The
\* whole file is polled: lines that are there are read (PollAll).  poll(0)
\* serves what is queued, so a report that waits is served (FatalReport).
PollAll(f) == \E n \in 0..Len(Source[f]) : n > tracked[f] /\ Poll(f, n)

Fairness ==
  /\ WF_vars(Load) /\ WF_vars(Turn) /\ WF_vars(PollSome) /\ WF_vars(DoLine)
  /\ WF_vars(Unblock) /\ WF_vars(EndBatch) /\ WF_vars(EndFiles)
  /\ WF_vars(Report) /\ WF_vars(ServeDone) /\ WF_vars(FlushDone)
  /\ WF_vars(Save) /\ WF_vars(Exit) /\ SF_vars(FatalReport)
  /\ \A f \in Files : SF_vars(PollAll(f))
  /\ \A m \in Lines : WF_vars(m \in inflight /\ BrokerStores(m))

FairSpec == Spec /\ Fairness

(***************************************************************************)
(* Properties.                                                             *)
(***************************************************************************)
StateFiles == Positions \cup {Missing, Corrupt}

\* Every variable keeps its type: in particular the positions a start works
\* with are positions, never a missing or unparsable state file.
TypeOK ==
  /\ pc \in {"down", "backup", "turn", "files", "lines", "blocked", "serve",
             "flush", "commit", "rotate", "install", "exit"}
  /\ todo \subseteq Files /\ cur \in Files /\ hand \in Nat
  /\ stop \in BOOLEAN /\ broken \in BOOLEAN /\ fatal \in BOOLEAN
  /\ dirty \in BOOLEAN /\ blind \in BOOLEAN
  /\ committed \in Positions /\ tracked \in Positions /\ files \in Positions
  /\ acked \in [Files -> SUBSET Nat]
  /\ inflight \subseteq Lines /\ topic \subseteq Lines
  /\ main \in StateFiles /\ bak \in StateFiles
  /\ tmp \in Positions \cup {Missing}
  /\ after \in {"turn", "exit"}
  /\ faults \in Nat /\ fails \in Nat /\ fatals \in Nat /\ corruptions \in Nat

\* A line that may be forgotten: stored by the brokers, or one the forwarder
\* is documented to skip or drop.
Settled(f, i) == <<f, i>> \in topic \/ Source[f][i] \in {"skip", "huge"}

Covered(s) == \A f \in Files : \A i \in 1..Len(Source[f]) :
                 i <= s[f] => Settled(f, i)

\* README: "An offset only advances after Kafka has acknowledged every message
\* up to it".  No checkpoint a start could load lies beyond a line that is not
\* settled, whatever order reports arrive in and wherever the process is
\* killed: what is not in the topic is read again.
NothingSkipped ==
  \A s \in {main, bak} : Usable(s) => Covered(s)

\* A checkpoint, once there, survives: killing the process at any step of
\* save(), or a failed save, leaves state.json or its backup with positions
\* no older than before.  Only damage may cost the last one, and a process that
\* works on beside a damaged state.json, or one it could neither read nor set
\* aside, may overwrite what is newer (DamageCostsOneCheckpoint).
CheckpointNeverRegresses ==
  [][ ~blind /\ corruptions' = corruptions =>
        \A f \in Files : Loadable'[f] >= Loadable[f] ]_vars

\* A start that finds state.json damaged keeps the damage from the backup: _read
\* quarantines the file before the next save() could rotate it over the good
\* copy.  (Where that rename fails, or the damage comes while the forwarder
\* runs, it does not: DamageCostsOneCheckpoint.)
BackupStaysUsable ==
  [][ ~blind /\ corruptions' = corruptions /\ Usable(bak)
        => Usable(bak') ]_vars

\* The checkpoints implement Checkpoints: the one a start would load is replaced
\* only when the backup holds a copy of it, by a later one that covers settled
\* lines only, and damage to one of the two files takes a start back no further
\* than what the other one holds (state.py, _load: "Its offsets are one
\* checkpoint older"), unless the forwarder works on unaware of it.
Backup == IF Usable(bak) THEN bak ELSE Zero
Contract == INSTANCE Checkpoints
              WITH point <- Loadable, spare <- Backup, damages <- corruptions
OneStepBack == Contract!AbsSpec

\* OffsetStore's docstring, without exception: the previous checkpoint is "loaded
\* automatically if the main file is ever corrupt or lost".  One damaged file
\* while there is a backup leaves something to load.  Not so: a state.json
\* damaged while the forwarder runs, or left in place because its quarantine
\* failed, is rotated over the backup by the next save(), and until the new
\* file is in place there is no checkpoint at all.
DamageCostsOneCheckpoint ==
  [][ Usable(bak) /\ corruptions' = corruptions =>
        Usable(main') \/ Usable(bak') ]_vars

\* Every alert line is eventually stored by the brokers, through crashes,
\* failed saves and a full local queue.  (What a fatal error of the producer
\* costs is NothingSkipped's subject.)
EveryLineDelivered ==
  \A m \in Lines : Source[m[1]][m[2]] = "json" => <>(m \in topic \/ fatals > 0)

\* "exiting so the service manager can restart with a clean producer": a
\* producer in its fatal state is always replaced, also when the loop was
\* waiting on a full queue at that moment.
FatalReplaced == broken ~> ~broken

\* A signal ends the process, also while send() waits on a full queue.
StopEnds == stop ~> (pc = "down")

=============================================================================
