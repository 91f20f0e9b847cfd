# ShadowTwin: TLA+ models, checks and proofs

ShadowTwin moves security telemetry: a **forwarder** follows Wazuh's log files
and sends each line to Kafka, an **ingestor** reads the topic into a PostgreSQL
table, and a **host agent** spools journald auth events on disk and ships them
to a platform over mTLS. What makes it correct is the same in all three: a
position (file offset, Kafka offset, journal cursor, queue file) may only move
once the data before it is safe, whatever crashes, outages, rotations and late
answers do. That is what this project models, checks and proves.

## 1. Inventory

### Forwarder (`forwarder/`, Python, one thread plus librdkafka)

| Part | State | Operations |
|---|---|---|
| `watcher.py` `FileTail` | open handle, inode, offset, generations still owed | `poll` (read, stat, rotated / missing / truncated), `_open_initial`, `_open_next` |
| `state.py` `AckTracker` | deque of lines read, set of settled ones, committed position | `track`, `ack` |
| `state.py` `OffsetStore` | positions per file, dirty flag, `state.json`, `.bak`, `.corrupt` | `_load`, `update`, `save` |
| `producer.py` `KafkaWriter` | librdkafka's queue, fatal flag | `send`, `poll`, `flush`, delivery and error callbacks |
| `app.py` | trackers, tails, stop event | `run`, `_commit`, signal handlers |

`run` polls each tail, tracks each line, settles malformed ones, sends the
others; delivery reports, served inside `poll`, `flush` or a blocked `send`,
settle lines; every `save_interval` and at the end the settled prefix is saved.
*Hard:* reports out of order and after failures, a full local queue, fatal
producer errors, a kill between any two renames of `save`, a damaged
`state.json`, rotation at any point of a poll or while stopped.
*Correct when:* no checkpoint covers a line Kafka does not have; checkpoints do
not get older; no line that can be read is passed over silently; one process
reads nothing twice; every line gets there; signals and fatal errors end the
process.

### Ingestor (`ingestor/`, Python, one thread)

State: `findings`, `ingest_offsets` (PostgreSQL), the consumer's position and
the session (memory). `connect`/`assign` (re)assign every partition at the
stored offset; `run` consumes a batch, normalises it and calls `Store.write`,
which commits rows and offsets in one transaction, or row by row in savepoints
when a value is refused. *Hard:* an outage leaves the in-memory position ahead
of the database; a COMMIT whose outcome the client never learns; repeated
alerts; a refused value in the middle of a batch. *Correct when:* the table
holds exactly the alerts of a prefix of each partition, and every alert gets
there.

### Host agent (`go-agent-v0/`, Go, goroutines)

| Part | State | Operations |
|---|---|---|
| `collectors/auth` | cursor file, `journalctl` child | `Start`, `scan` with `parseEntry`, `writeCursor`, `Stop` |
| `buffer` `Queue` | directory of event files, dead letters, count and bytes | `Open`, `Write`, `ReadBatch`, `Ack`, `DeadLetter` |
| `transport` | – | `Send` with four outcomes, `Backoff` |
| `cmd/agent/main.go` | the goroutines and the shutdown order | `runAgent`, `runSink`, `finalFlush`, `renewalLoop` |
| `enroll` | key, certificate, CA on disk and in memory | `EnsureIdentity`, `NeedsRenewal`, `Renew` |
| `pki`, `cmd/mock-platform` | the authority, the denylist | `NewCA`, `SignCSR`; `/ca`, `/enroll`, `/renew`, `/ingest`, `/revoke` |
| `cmd/agent/onboard.go` | user, binary, unit, environment file, state directory | `install`, `uninstall`, `doctor`, `status` |

*Hard:* the producer drops files of the batch the sink is delivering; each
system call can fail and leave something behind; requests whose answer is lost;
shutdown of goroutines that wait on each other; a certificate that runs out
while platform, network or agent are away; two files that belong together and
are written one after the other; an installer interrupted half-way next to a
service that systemd keeps restarting. *Correct when:* counters match the
directory, limits hold, a committed event leaves only for a reason, delivery is
FIFO, shutdown ends; certificates rotate without an operator, no step breaks a
valid identity, a revoked agent halts; what `install` reports is so, and running
it again repairs what an interruption left.

### The rest

The demo generator and audit consumer, configuration, checks, packaging. `PROJECT.json` lists every part
with the reason for what is left out.

## 2. Modules

| Module | Models | Used by |
|---|---|---|
| `FindingsStore` | abstract: what the table promises | `Ingestor` (refinement) |
| `Ingestor` | `ingestor/app.py`, `store.py`, the outcomes of `normalize.py` | `MCIngestor`, `IngestorProofs` |
| `Checkpoints` | abstract: what `state.json` and its backup promise | `Delivery` (refinement) |
| `Delivery` | `forwarder/app.py`, `producer.py`, `state.py` | `MCDelivery`, `DeliveryProofs` |
| `FileTail` | `forwarder/watcher.py` | its own configurations, `FileTailProofs` |
| `Agent` | `cmd/agent/main.go`, `internal/buffer`, `internal/collectors/auth`, outcomes of `internal/transport` | `MCAgent`, `AgentProofs` |
| `Platform` | `cmd/mock-platform`, the authority of `internal/pki` | `Identity` |
| `Identity` | `internal/enroll`, `renewalLoop`, composed with `Platform` | `MCIdentity`, `IdentityProofs`, `Onboard` |
| `Onboard` | `cmd/agent/onboard.go`, composed with `Identity` | `MCOnboard`, `OnboardProofs` |

Operators marked "Mutant" in a comment are deliberate one-line bugs that
`PROJECT.json` substitutes for the definition after them to show that a
property would notice; no specification uses them.

### Ingestor

`log` is the topic, `findings` and `stored` the two tables, `base`/`pos` the
consumer's position before and after the batch in hand, `pc` the place in
`run`. A message is one of four classes: a row that is stored, a row PostgreSQL
refuses, not an object (skipped), or one `normalize` raises on. `Connect` is
`connect` with `assign`; `Consume` the loop body up to `store.write`; `Commit`,
`Salvage` and `LoseCommit` the transactions of `write`, the last one losing the
session while the COMMIT is under way: the transaction goes to `limbo`, keeps
its locks, and `LimboEnds` decides it later either way. A kill (`Crash`) is
possible in every state. Multi-row statements inside one transaction are one
step: only its end is visible. `reached` and `origin` are history variables.

### Delivery

A file is its sequence of lines, a position a number of lines. `pc` walks
through `run`: `turn`, `files`, `lines`, `blocked` (inside `send` on a full
queue), `serve` (`writer.poll(0)`), `flush`, and the steps of `save`: `commit`
(temporary file written), `rotate`, `install`. Reports are served only where
the code serves them. `broken` is librdkafka's fatal state, `fatal` the flag the
loop sees. `_pending` is always the lines after the committed one up to the
newest tracked, so the deque needs no variable of its own. A fresh start means
`start_from: beginning`; the policy is FileTail's subject.

A start is two steps, `LoadMain` and, if that gave nothing, `LoadBackup`, with
`Quarantined` for a file that does not parse or cannot be read: it is renamed
away, or the rename fails and, as `_read` swallows the error, the file stays.
`Damage` corrupts or removes `state.json` or the backup at any time, also under
a running forwarder, which does not read them again. `blind` is a history
variable: the process works beside a `state.json` that is damaged, or that it
could neither read nor set aside, so that `save` will rotate it over the backup
unchecked. `CheckpointNeverRegresses` and `BackupStaysUsable` are about a
process that is not blind; `DamageCostsOneCheckpoint` is the documented promise
without that exception, and does not hold (section 3).

`Checkpoints` has neither process nor files: a checkpoint `point`, which a start
would load, and a `spare`, which it would load if that were damaged. The
checkpoint is replaced only when the spare is a copy of it, by a later one of
settled lines; damage to one of the two costs that one (`FallBack`). Only while
the forwarder is `blind` may the damaged one replace the spare as well (`Ruin`).
`OneStepBack` says that `Delivery` implements it, with `point` what `_load` finds
and `spare` what `state.json.bak` holds, if it is usable.

### FileTail

Files are inodes in order of creation, never reused. A line is two units, the
second one with the newline, so a file can end inside a line. Lines are numbered
in the order they are begun. The writer writes to the file at the path only, so
a file holds consecutive lines and is represented by `before`, the number of
lines begun before its first, and `size`, in units; what a read returns is then
arithmetic (`LineAfter`). Rename rotation, deletion, truncation, and the
expiry of old files are actions of the environment, interleaved with each step
of `poll`: `PollRead`, `PollStat`, `PollRest`, `PollOpen`, `PollLast`. What the
code does in one go without looking at the file system is one step. Settling is
in order and a checkpoint is one step, since Delivery covers the rest; `lives`
and `sent` are the lines this process returned and those ever settled. `glob`
and `open` inside `_find_rotated` are one step, and a truncation leaves no copy.

Three constants are assumptions about the environment: `QuickRotate = FALSE`
(a running tail sees every generation, and every truncation, before the file is
rotated away), `QuickRegrow
= FALSE` (a truncated file stays below the offsets held into it until it is
seen) and `MaxSlip` (lines written between end of file and the disappearance of
the path). The passing runs make these assumptions; for each there is a
configuration without it that shows what then happens.

### Agent

Events are numbers in collection order, which is the order of file names.
`WriteTemp` takes the mutex, drops what the limits require and writes the temp
file; `CommitWrite` renames it; a crash or a failed call may fall in between.
`ReadBatch`, `Ack` and `DeadLetter` need the mutex (`~writing`) and allow any
subset of the removals or moves to fail. The four outcomes of `Send` decide the
sink's way. A journal entry of size 0 is one `parseEntry` refuses: `Skip` goes
past it, and the cursor moves with the next entry that parses. An entry in `Long`
has a line longer than `maxLineBytes`: `bufio.Scanner` gives up on it, so it ends
the collector (`StopCollector`), and again after every restart. A request
cancelled by a shutdown fails as retryable, whether or not the platform has
stored the batch. `ReadBatch`'s byte limit is 0 at both call
sites and left out; the length of a backoff is left out.

### Platform and Identity

A certificate is the authority that signed it, the key it is for, and the check
intervals it has left. `keyFile`, `certFile` and `caFile` are what is on disk,
`key`, `cert` and `pool` what the process holds; `pc` walks through
`EnsureIdentity` (`load`, `enroll`, and the two writes `key` and `cert`) to
`run`. A write is one step, because `writeFileAtomic` renames a temp file over
the old one; a crash or a failure may fall between the two writes, and between
the swap in memory and the rewrite of `client.crt` in `Renew`. `Reuse`,
`BeginEnroll` and `LoadFails` are the three ways through the checks of
`EnsureIdentity`; a `ca.crt` that holds no certificate is `Garbled`. Deliveries
matter only as far as the identity decides them: an open connection outlives
the certificate (`conn`), a 403 ends the process for good (`ShipRefused`), and a
failed handshake is one more retryable error.

What the process does by itself takes seconds, a `Tick` is one
`RenewCheckInterval`, six hours; so a `Tick` waits until the process is at rest.
Only differences of times matter, so a certificate counts down instead of
carrying a date. The platform may be away, revoke the agent, and start again
with a new authority and an empty denylist, as `mock-platform` does. There is
one agent. `gap` and `unwritten` are history variables.

### Onboard

`install` and `uninstall` are a sequence of system calls, one action each;
`inst` is the next one. A command may be interrupted before every call
(`Interrupted`), while the service of `Identity` goes on: `Serve` is the service
as far as the host's state lets it start and write. `ca.crt` is emptied and then
written (`TruncateCA`, `WriteCA`), because `os.WriteFile` is not atomic and the
service may start in between; the environment file may be left cut short.
`EnableNow` leaves an active service alone, as `systemctl enable --now` does,
and a `Type=simple` service is active from the moment its process starts.
`CheckActive` and `CheckCert` are the two checks of `verifyInstall`'s loop, one
after the other. `Doctor` is `runDoctor` as a predicate, without its network
check; it looks for the user of the default name, and `DefaultUser` says whether
that is the one `install` was given.

`uninstall` ignores every error, so each removal may also fail (`Try`).
`os.RemoveAll` of the state directory is a walk: `ReadNames` reads the names in
`certs/`, `Unlink` deals with them one by one, `RemoveCertDir` and
`RemoveStateDir` fail if something is there by then, and an agent that was not
stopped may meanwhile write its files or make `certs/` anew (`EnsureCertDir`; the
state directory itself it cannot make). The model lets it do so at any time
before its answer arrives, which is later than the code would. `purge` is
`ours` if `--state-dir` and `--user` name what was installed; `uninstall` only
knows their defaults, so `elsewhere` stands for a purge that leaves both alone.
`orderly` is a history variable: the service was stopped, and no call of this
uninstall failed. Nobody starts the service between the stop and the removal of
its unit.

## 3. Runs

Deadlock is checked in every run.

| Run | Checks | Bounds |
|---|---|---|
| `MCIngestor` | `TypeOK`, `NoGap`, refinement `StoresOncePerAlert` | 2 partitions, 2 messages each out of 5, batches of 2, 2 faults; symmetric partitions and alerts |
| `MCIngestorLive` | `EveryAlertStored`, `StopEnds` | 1 partition, 3 messages, 2 faults, no poison |
| `MCDelivery` | `TypeOK`, `NothingSkipped`, `CheckpointNeverRegresses`, `BackupStaysUsable`, refinement `OneStepBack` | 2 files with 3 and 2 lines of every kind, queue of 2, 2 faults, 1 delivery error, 1 state file damaged, lost or unreadable |
| `MCDeliveryLive` | `EveryLineDelivered`, `FatalReplaced`, `StopEnds` | 2 files with 2 and 1 alerts, queue of 1, 1 fault, 1 fatal error |
| `MCFileTail` | `TypeOK`, `NoSilentGap`, `NoDuplicates`, `CheckpointCovers` | 3 lines, 3 files, 1 truncation, 1 expiry, 1 crash, 1 line slipping in |
| `MCFileTailLive` | `EveryLineSettled` | 3 lines, 2 files, otherwise the same |
| `MCAgent` | `TypeOK`, `CountExact`, `BytesExact`, `FilesBounded`, `BytesBounded`, `NothingVanishes`, `InOrder`, `EveryEventLeaves`, `ShutdownEnds`, `BadEntrySkipped` | 5 entries of 1, 0 (malformed), 1 and 5 bytes and one over-long line, limits of 3 events and 4 bytes (a crash before the cursor is saved collects an entry again, so four events of one byte occur and each limit decides alone), batches of 2, 2 faults |
| `MCIdentity` | `TypeOK`, `Unattended`, `PairKept`, `StartsServe`, `RevokedHalts` | 2 keys, certificates of 4 intervals renewed at 2, 2 authorities, 5 faults |
| `MCOnboard` | `HostTypeOK`, `PurgeIsClean`, `VerifiedEnrolled`, `DoctorAgrees`, `InstallRetried` | 2 keys, certificates of 2 intervals renewed at 1, 2 authorities, 2 faults, the default user |

The bounds are the smallest at which the cases meet: two partitions so that a
transaction can touch one and not the other; a settled prefix with a hole; a
queue that fills; three files so that one generation lies between the saved one
and the live one; a drop of a file that is part of the batch in delivery; three small events that
reach the limit of events before that of bytes, and one larger than the limit of
bytes alone; two
keys, so that a pair can be torn, and a lead time of two intervals, so that one
renewal can fail and the next succeed; two faults, so that something fails
during the recovery from something else.

Two larger instances pass as well and take longer or repeat what the runs show:
`MCAgentLarge.cfg` (`MCAgent`; one event as large as the byte limit) and
`MCFileTailLarge.cfg` (`FileTail`; four lines over three files, 9 million
states).

### Where code and documents disagree

Three runs end in a violation: the code does something a document or comment of
the repository says it does not. `findings` in `PROJECT.json` quotes each.

| Run | What TLC shows |
|---|---|
| `MCDeliveryFatal` | lines offered to a fatal producer are settled and checkpointed unsent |
| `MCFileTailSlip` | with the path missing, only one line written since the last read is returned |
| `MCAgentCursor` | the cursor passes an event that is not in the queue yet |

Sixteen more configurations show the limits of what the passing runs establish.
Each is to be run by hand and ends in a violation of the property named. The
first nine contradict a document or a comment too; the others are corner cases
of a policy or of a polling design more than slips in the code.

| Configuration (module) | Property | What TLC shows |
|---|---|---|
| `MCIngestorPoison` (`MCIngestor`) | `EveryAlertStored` | `int()` of an infinite `rule.level` raises `OverflowError`, which `_level` (`normalize.py:131`) does not catch; every restart dies on the same message. `ingestor/README.md:41`: "A bad value cannot wedge the pipeline." |
| `MCIdentityTorn` (`MCIdentity`) | `ExpiredReenrolls` | an expired identity is re-enrolled, the key is written, the certificate is not (`enroll.go:126`): from then on every start fails in `newIdentity`, before the expiry is looked at. `enroll.go:6`: "If the stored certificate has expired and a token is available, EnsureIdentity re-enrolls." |
| `MCIdentityFallback` (`MCIdentity`) | `ExpiredFallsBack` | a certificate that expires while the agent runs is not replaced: `renewalLoop` only renews, over mTLS, and a failed handshake does not end the process. ADR 0004, line 29: "it falls back to token enrollment if a token is still present" (the code does at the next start) |
| `MCIdentityRetry` (`MCIdentity`) | `RenewalRetried` | a rewrite of `client.crt` that failed is not retried on the next tick (`main.go:272`), because the certificate in memory is new; a restart much later finds the old one, expired |
| `MCOnboardReinstall` (`MCOnboard`) | `InstallMeansEnrolled` | over a kept `client.crt`, `install` succeeds although the platform has another authority and will not accept it (`onboard.go:593`). `go-agent-v0/README.md:165`: "verifies connectivity + enrollment before returning" |
| `MCDeliveryBackup` (`MCDelivery`) | `DamageCostsOneCheckpoint` | a `state.json` damaged while the forwarder runs, or left in place because its quarantine failed (`state.py:110`), is rotated over the good backup by the next `save` (`state.py:141`); until the rename after it, a crash leaves no checkpoint at all. `state.py:68`: the previous checkpoint is "loaded automatically if the main file is ever corrupt or lost" |
| `MCAgentLong` (`MCAgent`) | `BadEntryHarmless` | a journal line longer than `maxLineBytes` ends the scan (`auth.go:200`), and does so again after every restart, because the cursor is before it. `auth.go:173`: "a single bad entry must never take the collector down" |
| `MCOnboardUser` (`MCOnboard`) | `DoctorAgrees` | `install --user` with another name succeeds, and `doctor` then fails the host because it looks up the default name (`onboard.go:240`). `onboard.go:163`, after a success: "Check it with: [...] doctor" |
| `MCOnboardPurge` (`MCOnboard`) | `PurgeRemoves` | `systemctl disable --now` fails (`onboard.go:178` ignores it), the walk of `os.RemoveAll` overlaps an enrollment, and the agent writes a private key after `uninstall --purge` has reported the directory removed. `onboard.go:167`: "--purge also removes state + user" |
| `MCIngestorEnd` (`MCIngestor`) | `NoGap` | `INGESTOR_START_FROM=end` ("first run only", `ingestor/app.py:24`) is applied again after a crash before the first commit |
| `MCIngestorLate` (`MCIngestor`) | `RowsAccountedFor` | a late COMMIT, then a shorter batch re-read: rows beyond the stored offset (`store.py:5`); they are re-read and deduplicated, nothing is lost |
| `MCFileTailRotate` (`FileTail`) | `NoSilentGap` | a generation that comes and goes between two polls is never read; nor is a truncated file rewritten and rotated away between two polls |
| `MCFileTailRegrow` (`FileTail`) | `NoSilentGap` | a truncated file that regrew past the offset is not recognised |
| `MCFileTailFirst` (`FileTail`) | `RestartResumes` | `start_from: end` is applied again after a crash before the first checkpoint of a position |
| `MCFileTailLost` (`FileTail`) | `LossIsAnError` | saved file and path both gone at a start: a warning, not the `ERROR` of `forwarder/README.md:245` |
| `MCAgentTemp` (`MCAgent`) | `DiskBounded` | temp files of failed writes are not counted by the limits (`buffer.go:38`) |

### Fairness

Only liveness runs assume any. Weak fairness of the steps of a process that is
running: a loop, or goroutines, that the scheduler does not starve. A restart:
`Restart=always` (forwarder unit) and `restart: unless-stopped` (compose files)
for forwarder and ingestor; for the agent only `Restart=on-failure`, so an agent
that was told to stop, or halted because its identity was refused, need not
come back and `EveryEventLeaves` does not promise anything then. In `Identity`
the steps of the process, systemd's restart, the deliveries of an agent that has
something to ship, and the platform's return after an outage. In `Onboard` also
an operator who runs a failed `install` again with a good token (`InstallRetried`
is about what such a run meets), and strong fairness of `VerifyTimeout`: a
service that keeps failing is active again and again, and the 25 s still end.
`Tick` is never fair, nothing is promised by a certain date. Servers that
are down come back, PostgreSQL ends every transaction, and librdkafka retries
until a broker stores the line (`message.timeout.ms` 0, the infinite retries the
forwarder documents). Strong fairness where a step is enabled again and again
but not all the time: Go's `select` does not prefer the ticker to the shutdown
channel for ever (`FinalFlush`); lines that stay in a file are returned by some
poll (`PollAll`); a fatal error that waits is served by some `poll`
(`FatalReport`); acknowledgements arrive between polls (`Settle`). Faults are
bounded in each run and are never fair.

## 4. Proofs

TLAPS checks these for every value of the constants, under the named
assumptions of the modules (types of the parameters, disjoint message classes,
distinct markers).

- `IngestorProofs`
  - `TypeCorrect`: `Spec => []TypeOK`.
  - `NoGapHolds`: with `StartFrom = "beginning"`, `Spec => []NoGap`.
  - `ImplementsFindingsStore`: with `StartFrom = "beginning"`, `Spec` implements
    `FindingsStore`.

  `NoGap` is not inductive: a transaction in `limbo` may commit after the
  consumer was re-assigned. The strengthening says that every transaction in
  limbo, and the batch in hand, starts at or below what has been reached, and
  that everything reached is settled; then a late commit extends a prefix
  whichever order things happen in. The refinement maps `done` to `reached`,
  the highest offset ever committed, because `stored` itself may move back
  (`MCIngestorLate`).
- `DeliveryProofs`
  - `TypeCorrect`: `Spec => []TypeOK`.
  - `NothingIsSkipped`: without fatal errors, `Spec => []NothingSkipped`. The
    invariant follows a position from the tracker to the disk: lines up to
    `committed`, and those in `acked`, are settled, and so are the lines up to
    what `tmp`, `main` and `bak` hold.
  - `CheckpointsAdvance`: `Spec => CheckpointNeverRegresses`, and
    `BackupSurvives`: `Spec => BackupStaysUsable`. Need that what is loadable
    from disk never exceeds what is in memory, that during `rotate` and
    `install` the old or the new checkpoint is in one of the two files, and that
    a process that is not blind finds `state.json` usable or missing when it
    rotates it (`DamageInv`, `AgeInv`). A blind one does break both.
  - `ImplementsCheckpoints`: without fatal errors, `Spec` implements
    `Checkpoints` (`OneStepBack`). Adds `ClearInv`: the new file is renamed into
    place only when there is no `state.json`, so that the old checkpoint is in
    the backup. `Install` maps to `Advance`, `Rotate` to `Spare` or, blind, to
    `Ruin`, damage and a failed read to `FallBack`, `BrokerStores` to `Store`, a
    step that only changes `blind` to `Blinded`, every other step to a stutter.
- `AgentProofs`
  - `TypeCorrect`: `Spec => []TypeOK`.
  - `QueueCounted`: `Spec => []CountExact`, and `QueueBounded`: `Spec =>
    []FilesBounded`. Need that the event in hand is not in the queue, and that
    while the producer holds the mutex between temp file and rename there is
    room for one more (`Room`).
  - `QueueWeighed`: `Spec => []BytesExact`, and `QueueBytesBounded`: `Spec =>
    []BytesBounded`, with `ByteRoom` in place of `Room`. The bytes of a set of
    files are the set of its pairs of file and byte number, so that a sum is a
    cardinality: what is removed and added is then reasoned about with the
    theorems on finite sets, and no induction is needed.
  - `EventsDoNotVanish`: `Spec => []NothingVanishes`. Needs that a batch being
    acknowledged was stored by the platform (`Stored`).
  - `DeliveredInOrder`: `Spec => []InOrder`. Needs that the event in hand is
    younger than everything in the queue (`HandLast`) and that a batch holds the
    oldest events that parse, although the queue changes while it is sent
    (`BatchOldest`).
- `IdentityProofs`
  - `TypeCorrect`: `Spec => []TypeOK`, with the part that the certificate in
    memory was issued for the key in memory.
  - `RotatesUnattended`: `Spec => []Unattended`, for every lifetime and lead
    time. Not inductive: a crash may lose a renewal that is only in memory. The
    strengthening says that while no write has failed, a running agent's
    certificate is the stored one except between the swap and the rewrite, when
    it is brand new; so the check that resets `gap` looked at what is stored.
  - `ValidPairKept`: `Spec => PairKept`. Needs that an enrollment that is under
    way found no identity that loads and is valid, and that nothing but itself
    writes the files meanwhile (`StepInv`).

  `Onboard` has a second writer of `ca.crt` and a remover of the whole state, so
  `RotatesUnattended` and `ValidPairKept` are about a service nobody installs or
  removes; the types (`TypeStep`) are proved for any step of `Identity` and used
  again in `OnboardProofs`.
- `OnboardProofs`
  - `HostTypeCorrect`: `HostSpec => []HostTypeOK`.
  - `PurgedIsClean`: `HostSpec => []PurgeIsClean`. Two things (`PurgeInv`): after
    an orderly stop no agent is at work and none can be started (`Quiet`), so
    the names the walk has read are all there is; and without `certs/` no file
    is there, since the service writes only into a directory that exists and
    cannot make the state directory. The second holds beside an agent that could
    not be stopped. That the walk then gets rid of the directory is not claimed
    (`MCOnboardPurge`).
  - `InstallVerifies`: `HostSpec => VerifiedEnrolled`, and `DoctorConfirms`:
    `DefaultUser => (HostSpec => DoctorAgrees)`. `InstallInv` says what each step of install may
    rely on from the steps before it; `CleanInv` that on a host that had no
    certificate, one that appears was issued to the service this install
    started.

- `FileTailProofs`
  - `TypeCorrect`: `Spec => []TypeOK`.
  - `ReturnedOnce`: `Spec => []NoDuplicates`, with no assumption about the
    environment. `Reach` is the last line the tail has passed: the lines before
    its position in the file it has open, or all of the file it has closed. It
    never moves back while a process runs (`ReachGrows`), and every line a poll
    returns lies above it (`PollLines`). That needs that files, queued
    generations and mtimes are in the same order (`FileInv`, `QueueInv`).
  - `CheckpointIsCovered`: `Spec => []CheckpointCovers`. `CoverInv` says of
    each position the forwarder holds (checkpoint, settled, on the trail, the
    tail's own) that the lines of its file up to it were settled, or will be
    before it becomes the checkpoint.
  - `NothingPassedOver`: `Spec => [](Tame => NoSilentGap)`, where `Tame` is
    `~QuickRotate /\ ~QuickRegrow /\ MaxSlip <= 1`. `MCFileTailRotate`,
    `MCFileTailRegrow` and `MCFileTailSlip` drop one of the three each and end
    in a violation, so none can be left out. The invariant has six parts.
    `OriginInv`: lines are owed from no later than where a first run would
    begin now. `FirmInv`: a position behind the end of the file at the path is
    recognised as such, and one inside a line is not read from again unless the
    line is not owed. `SeenInv`: what was
    seen was complete. `OwedInv`: every rotated file that is younger than the
    tail's and holds owed lines is queued. `SlipInv`: a file that left the path
    holds at most what the last read of it returns. `GapInv`: up to each
    position held, and up to `Reach`, every owed line that can be read was
    settled or is on the trail before it.

Every invariant and action property of a passing run is stated by a theorem.
Only model-checked is liveness, which is out of the prover's reach, as is
`ENABLED`: `EveryLineSettled`, `EveryLineDelivered`, `EveryAlertStored`,
`EveryEventLeaves`, `BadEntrySkipped`, `StartsServe`, `InstallRetried` and the
endings of the processes (`StopEnds`, `FatalReplaced`, `ShutdownEnds`,
`RevokedHalts`).

## 5. Not modelled

The columns `normalize` produces; Kafka's log retention; inode reuse and the
copy a copytruncate rotation leaves; wall-clock steps that reorder the agent's
file names or move a certificate's expiry; the expiry of the mock platform's
server certificate after 24 h; several agents at one platform; a loss of power,
after which `writeFileAtomic` (`enroll.go:277`) and the queue's `Write`, which do
not sync, may have left less than their renames promise: a crash in the agent's
modules is the process being killed; encodings of
keys, requests and certificates; the `-dry-run` sink and the dry run of
`install`; `status`; the length of backoffs; startup checks, configuration,
logging, statistics, the forwarder's installation. `hazards` in `PROJECT.json`
says which of these can bite and where.

## 6. Plan

Done: `FindingsStore`, `Ingestor`, `Checkpoints`, `Delivery`, `FileTail`,
`Agent`, `Platform`, `Identity`, `Onboard`, their runs, and the proofs above.
Left, in this order:

1. Proofs: the agent's queue against an abstract FIFO that an event leaves by
   delivery, overflow or as a dead letter only.
2. Retention in `Ingestor`: stored offsets that fall off the log.
3. `EndToEnd`: file, forwarder, topic and ingestor composed, over abstract
   versions of each, with Delivery shown to implement the forwarder's part;
   every line in the file becomes one row.
4. `SeqAudit` and the helpers of `normalize` as operators against reference
   definitions; `Backoff` with the width of its shift.
