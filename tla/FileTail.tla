------------------------------ MODULE FileTail ------------------------------
(***************************************************************************)
(* Following one log file (forwarder/watcher.py: FileTail) while it is     *)
(* written, rotated, truncated, deleted and re-created, and while the      *)
(* forwarder itself is killed and restarted from its checkpoint.           *)
(*                                                                         *)
(* Files are known by inode, numbered in order of creation and never       *)
(* reused.  A line is two units, so that a file can end inside a line: a   *)
(* first half, and a second half that carries the newline.  Offsets count  *)
(* units.  Lines are numbered in the order they are begun, across files;   *)
(* only the file at the path is written, so a file holds consecutive lines *)
(* and is known by its size and the number of lines begun before its first.*)
(* What happens to a line after poll() returned it is Delivery's business: *)
(* here lines are settled in order, and a checkpoint is one step.          *)
(***************************************************************************)
EXTENDS Integers, Sequences, FiniteSets

CONSTANTS
  StartFrom,     \* watcher.start_from: where a first run begins
  BatchLines,    \* watcher.batch_lines: lines per poll
  QuickRotate,   \* a file, or what it holds after a truncation, may be rotated
                 \* away before the running tail saw it
  QuickRegrow,   \* a truncated file may outgrow an offset held into it
  MaxSlip,       \* bound: complete lines written between the tail reaching
                 \*        the end of the file and the path disappearing
  MaxLines,      \* bound: lines written
  MaxInodes,     \* bound: files created
  MaxTruncate,   \* bound: truncations
  MaxExpire,     \* bound: rotated files deleted or compressed
  MaxCrash       \* bound: times the forwarder goes down

ASSUME PolicyAssumption ==
  StartFrom \in {"beginning", "end"} /\ {QuickRotate, QuickRegrow} \subseteq BOOLEAN
ASSUME SizeAssumption == BatchLines \in Nat \ {0} /\ MaxSlip \in Nat
ASSUME BoundAssumption ==
  {MaxLines, MaxInodes, MaxTruncate, MaxExpire, MaxCrash} \subseteq Nat

None == 0                       \* no file, no line
File == [before : Nat, size : Nat]
Pos  == [ino : Nat, off : Nat]  \* a checkpoint; ino = None: nothing yet
NoPos == [ino |-> None, off |-> 0]

VARIABLES
  content,    \* what is in every file ever created
  mtime,      \* when each was last written
  path,       \* the inode at the followed path, or None
  rotated,    \* the inodes readable under a rotated name
  line,       \* the last line begun
  clock,      \* writes so far
  ceiling,    \* the size a truncated file must stay below to be recognised
  truncates, expires, crashes,  \* how many of each so far
  pc,         \* where the forwarder is
  open,       \* FileTail._file is not None
  ino, off,   \* FileTail._inode, ._offset
  pending,    \* FileTail._pending
  got,        \* lines returned by the poll in progress
  trail,      \* lines returned and not settled, oldest first
  committed,  \* AckTracker._committed
  saved,      \* the checkpoint on disk
  sent,       \* history: lines settled
  lives,      \* history: lines returned by this process, in order
  origin,     \* history: lines before the place where the latest run without a
              \* checkpoint began; -1 before it
  first,      \* history: the same for the very first run
  loss        \* history: how a loss was reported, "none" so far; "warned" is
              \* the WARNING that the saved file was not found, "error" the
              \* ERROR that data was NOT forwarded

fs    == <<content, mtime, path, rotated, line, clock>>
hist  == <<sent, lives, origin, first, loss>>
tail  == <<open, ino, off, pending, got>>
track == <<trail, committed, saved>>
caps  == <<ceiling, truncates, expires, crashes>>
vars  == <<fs, caps, pc, tail, track, hist>>

Size(i) == content[i].size

\* How many lines end in the first o units of a file, and whether these end
\* inside a line.
Ended(o) == o \div 2
Inside(o) == o % 2 = 1

(***************************************************************************)
(* The log source.                                                         *)
(***************************************************************************)
Running == pc # "down"
Partial(i) == Inside(Size(i))

\* The positions the forwarder holds, and the offsets of those in file i.
Positions == {saved, committed, [ino |-> ino, off |-> off]}
               \cup {trail[k] : k \in DOMAIN trail}
Held(i) == {p.off : p \in {q \in Positions : q.ino = i}}

\* Half a line is appended to the file at the path: the second half of the
\* line begun, else the first half of a new one.
Write ==
  /\ path # None
  /\ ceiling > 0 /\ ~QuickRegrow => Size(path) + 1 < ceiling
  /\ line' = IF Partial(path) THEN line ELSE line + 1
  /\ line' <= MaxLines
  /\ content' = [content EXCEPT ![path].size = @ + 1]
  /\ clock' = clock + 1
  /\ mtime' = [mtime EXCEPT ![path] = clock']
  /\ UNCHANGED <<path, rotated, caps, pc, tail, track, hist>>

\* A new, empty file appears at the path.
Create ==
  /\ path = None /\ Len(content) < MaxInodes
  /\ content' = Append(content, [before |-> line, size |-> 0])
  /\ mtime' = Append(mtime, clock)
  /\ path' = Len(content) + 1
  /\ ceiling' = 0
  /\ UNCHANGED <<rotated, line, clock, truncates, expires, crashes, pc, tail, track, hist>>

NewestKnown == IF pending # << >> THEN pending[Len(pending)] ELSE ino
Unread(i, o) == IF o < Size(i) THEN Ended(Size(i)) - Ended(o) ELSE 0
MayVanish ==
  /\ path # None
  /\ pc = "stat" /\ ino = path => Unread(ino, off) <= MaxSlip

\* The running tail knows what is at the path, and has noticed if it was
\* truncated.
Noticed == path <= NewestKnown /\ (path = ino => off <= Size(path))

\* Rename rotation; the next file is created by a step of its own.
Rotate ==
  /\ MayVanish
  /\ Running /\ ~QuickRotate => Noticed
  /\ rotated' = rotated \cup {path}
  /\ path' = None
  /\ UNCHANGED <<content, mtime, line, clock, caps, pc, tail, track, hist>>

Delete ==
  /\ MayVanish /\ expires < MaxExpire
  /\ expires' = expires + 1
  /\ path' = None
  /\ UNCHANGED <<content, mtime, rotated, line, clock, ceiling, truncates, crashes,
                 pc, tail, track, hist>>

\* copytruncate.
Truncate ==
  /\ path # None /\ Size(path) > 0 /\ truncates < MaxTruncate
  /\ truncates' = truncates + 1
  /\ content' = [content EXCEPT ![path] = [before |-> line, size |-> 0]]
  /\ clock' = clock + 1
  /\ mtime' = [mtime EXCEPT ![path] = clock']
  /\ LET low == (Held(path) \cup {ceiling}) \ {0}
     IN  \/ low = {} /\ ceiling' = 0
         \/ ceiling' \in {c \in low : \A d \in low : c <= d}
  /\ UNCHANGED <<path, rotated, line, expires, crashes, pc, tail, track, hist>>

\* A rotated file is deleted, or compressed, which gives it another inode
\* and a name _candidates skips.
Expire(i) ==
  /\ i \in rotated /\ expires < MaxExpire
  /\ expires' = expires + 1
  /\ rotated' = rotated \ {i}
  /\ UNCHANGED <<content, mtime, path, line, clock, ceiling, truncates, crashes,
                 pc, tail, track, hist>>

(***************************************************************************)
(* Reading.                                                                *)
(***************************************************************************)

\* _at_line_boundary
AtLineBoundary(i, o) ==
  /\ o <= Size(i)
  /\ Inside(o) => o = Size(i)

\* The k-th line of file i that ends after o.  A reader that began inside it
\* got a fragment, which is no line.
LineAfter(i, o, k) ==
  [ino |-> i, off |-> 2 * (Ended(o) + k),
   line |-> IF Inside(o) /\ k = 1 THEN None ELSE content[i].before + Ended(o) + k]

\* Mutant: the limit is ignored.
ReadAllLines(i, o, n) == [k \in 1..Unread(i, o) |-> LineAfter(i, o, k)]

\* _read_lines: at most n complete lines of file i after o, each with the
\* offset behind it.
ReadLines(i, o, n) ==
  [k \in 1..(IF Unread(i, o) < n THEN Unread(i, o) ELSE n) |-> LineAfter(i, o, k)]

Return(entries) ==
  /\ trail' = trail \o entries
  /\ lives' = lives \o [k \in DOMAIN entries |-> entries[k].line]

\* Mutant: the offset is not advanced.
EndOfUnmoved(o, entries) == o

EndOf(o, entries) == IF entries = << >> THEN o ELSE entries[Len(entries)].off

\* _drain_final_partial is one readline(): the next line if one was completed
\* meanwhile, else the fragment the file ends in.
FinalPartial(i, o) ==
  IF Unread(i, o) > 0 THEN ReadLines(i, o, 1)
  ELSE IF o < Size(i) THEN <<[ino |-> i, off |-> Size(i), line |-> None]>>
  ELSE << >>

\* poll() with a file open: up to batch_lines lines; a full batch returns.
PollRead ==
  LET new == ReadLines(ino, off, BatchLines)
  IN  /\ pc = "poll" /\ open
      /\ Return(new)
      /\ off' = EndOf(off, new)
      /\ got' = Len(new)
      /\ pc' = IF Len(new) >= BatchLines THEN "poll" ELSE "stat"
      /\ UNCHANGED <<fs, caps, open, ino, pending, committed, saved, sent, origin,
                     first, loss>>

\* At end of file: the path against the handle.
PollStat ==
  /\ pc = "stat"
  /\ \/ /\ path = None                              \* deleted, or mid-rotation
        /\ Return(FinalPartial(ino, off))
        /\ open' = FALSE /\ pc' = "poll"
        /\ UNCHANGED off
     \/ /\ path \notin {None, ino}                  \* rotated
        /\ pc' = "rest"
        /\ UNCHANGED <<open, off, trail, lives>>
     \/ /\ path = ino /\ Size(ino) < off            \* truncated
        /\ LET new == ReadLines(ino, 0, BatchLines - got)
           IN  Return(new) /\ off' = EndOf(0, new)
        /\ pc' = "poll"
        /\ UNCHANGED open
     \/ /\ path = ino /\ Size(ino) >= off           \* nothing happened
        /\ pc' = "poll"
        /\ UNCHANGED <<open, off, trail, lives>>
  /\ UNCHANGED <<fs, caps, ino, pending, got, committed, saved, sent, origin, first,
                 loss>>

\* Rotated: what was written between the read and the stat, then the end of
\* the old file, unless the batch is full.
PollRest ==
  LET new == ReadLines(ino, off, BatchLines - got)
      full == got + Len(new) >= BatchLines
      part == IF full THEN << >> ELSE FinalPartial(ino, EndOf(off, new))
  IN  /\ pc = "rest"
      /\ off' = EndOf(off, new)
      /\ Return(new \o part)
      /\ got' = got + Len(new) + Len(part)
      /\ open' = full
      /\ pc' = IF full THEN "poll" ELSE "next"
      /\ UNCHANGED <<fs, caps, ino, pending, committed, saved, sent, origin, first,
                     loss>>

\* _open_next: the first generation still owed that can be found, else the
\* path.  The ones that disappeared are logged.  While nothing opens, every
\* poll tries again.
Found(i) == i = path \/ i \in rotated
OpenAt(i) == open' = TRUE /\ ino' = i /\ off' = 0
PollOpen ==
  /\ pc = "next" \/ (pc = "poll" /\ ~open)
  /\ \/ \E k \in DOMAIN pending :
          /\ Found(pending[k]) /\ \A j \in 1..(k - 1) : ~Found(pending[j])
          /\ OpenAt(pending[k])
          /\ pending' = IF pending[k] = path THEN << >>
                        ELSE SubSeq(pending, k + 1, Len(pending))
          /\ loss' = IF k > 1 THEN "error" ELSE loss
     \/ /\ \A k \in DOMAIN pending : ~Found(pending[k])
        /\ IF path # None THEN OpenAt(path) ELSE UNCHANGED <<open, ino, off>>
        /\ pending' = << >>
        /\ loss' = IF pending # << >> THEN "error" ELSE loss
  /\ pc' = IF pc = "next" /\ open' THEN "last" ELSE "poll"
  /\ UNCHANGED <<fs, caps, got, track, sent, lives, origin, first>>

\* After a rotation the same poll goes on with the file just opened.
PollLast ==
  LET new == ReadLines(ino, off, BatchLines - got)
  IN  /\ pc = "last"
      /\ Return(new)
      /\ off' = EndOf(off, new)
      /\ pc' = "poll"
      /\ UNCHANGED <<fs, caps, open, ino, pending, got, committed, saved, sent, origin,
                     first, loss>>

(***************************************************************************)
(* Settling, checkpoints, going down and coming back.                      *)
(***************************************************************************)

\* The oldest line returned is settled.
Settle ==
  /\ pc = "poll" /\ trail # << >>
  /\ LET e == Head(trail)
     IN  /\ committed' = [ino |-> e.ino, off |-> e.off]
         /\ sent' = sent \cup ({e.line} \ {None})
  /\ trail' = Tail(trail)
  /\ UNCHANGED <<fs, caps, pc, tail, saved, lives, origin, first, loss>>

\* Mutant: the tail's own position is saved, not the settled one.
CheckpointOfTail ==
  /\ pc \in {"poll", "save"}
  /\ saved' = IF open THEN [ino |-> ino, off |-> off] ELSE saved
  /\ pc' = "poll"
  /\ UNCHANGED <<fs, caps, tail, trail, committed, hist>>

\* _commit skips a tracker that has no position yet.
Checkpoint ==
  /\ pc \in {"poll", "save"}
  /\ saved' = IF committed.ino # None THEN committed ELSE saved
  /\ pc' = "poll"
  /\ UNCHANGED <<fs, caps, tail, trail, committed, hist>>

Crash ==
  /\ Running /\ crashes < MaxCrash
  /\ crashes' = crashes + 1
  /\ pc' = "down"
  /\ open' = FALSE
  /\ trail' = << >>
  /\ UNCHANGED <<fs, ceiling, truncates, expires, ino, off, pending, got, committed,
                 saved, hist>>

\* _open_initial with what the store holds, then AckTracker(tail.position).
Opens(i, o, owed) ==
  /\ open' = TRUE /\ ino' = i /\ off' = o /\ pending' = owed
  /\ committed' = [ino |-> i, off |-> o]
Waits ==
  /\ open' = FALSE /\ ino' = None /\ off' = 0 /\ pending' = << >>
  /\ committed' = NoPos

\* Mutant: generations rotated after the saved one are not looked for.
LaterIgnored == {}

Later == {i \in rotated \ {saved.ino, path} : mtime[i] > mtime[saved.ino]}
InMtimeOrder(S) ==
  {q \in [1..Cardinality(S) -> S] :
     /\ S = {q[k] : k \in DOMAIN q}
     /\ \A j, k \in DOMAIN q : j < k =>
          mtime[q[j]] < mtime[q[k]] \/ (mtime[q[j]] = mtime[q[k]] /\ q[j] < q[k])}

FirstStart ==          \* no saved state
  /\ saved = NoPos
  /\ \/ path = None /\ Waits
     \/ path # None /\ Opens(path, IF StartFrom = "end" THEN Size(path) ELSE 0, << >>)
  /\ UNCHANGED loss

ResumeAtPath ==        \* the saved file is still at the path
  /\ saved # NoPos
  /\ path = saved.ino /\ AtLineBoundary(path, saved.off)
  /\ Opens(path, saved.off, << >>)
  /\ UNCHANGED loss

InRotated == saved.ino \in rotated /\ AtLineBoundary(saved.ino, saved.off)

ResumeRotated ==       \* it is found under a rotated name
  /\ saved # NoPos
  /\ InRotated
  /\ \E q \in InMtimeOrder(Later) :
       Opens(saved.ino, saved.off, q \o (IF path = None THEN << >> ELSE <<path>>))
  /\ UNCHANGED loss

ResumeLost ==          \* it is gone, or shrank while the forwarder was down
  /\ saved # NoPos
  /\ ~(path = saved.ino /\ AtLineBoundary(path, saved.off))
  /\ ~InRotated
  /\ \/ /\ path = None /\ Waits
        /\ loss' = IF loss = "none" THEN "warned" ELSE loss
     \/ /\ path # None /\ Opens(path, 0, << >>)
        /\ loss' = IF path # saved.ino THEN "error" ELSE loss

\* The lines a run without a checkpoint is not expected to forward.
Before == IF path = None \/ StartFrom = "end" THEN line ELSE content[path].before

Start ==
  /\ pc = "down"
  /\ FirstStart \/ ResumeAtPath \/ ResumeRotated \/ ResumeLost
  /\ pc' = "save"
  /\ got' = 0
  /\ trail' = << >> /\ lives' = << >>
  /\ origin' = IF saved = NoPos THEN Before ELSE origin
  /\ first' = IF first = -1 THEN Before ELSE first
  /\ UNCHANGED <<fs, caps, saved, sent>>

-----------------------------------------------------------------------------

Init ==
  /\ content = <<[before |-> 0, size |-> 0]>> /\ mtime = <<0>>
  /\ path = 1 /\ rotated = {}
  /\ line = 0 /\ clock = 0
  /\ ceiling = 0 /\ truncates = 0 /\ expires = 0 /\ crashes = 0
  /\ pc = "down" /\ open = FALSE /\ ino = None /\ off = 0 /\ pending = << >> /\ got = 0
  /\ trail = << >> /\ committed = NoPos /\ saved = NoPos
  /\ sent = {} /\ lives = << >> /\ origin = -1 /\ first = -1 /\ loss = "none"

Poll == PollRead \/ PollStat \/ PollRest \/ PollOpen \/ PollLast

Next ==
  \/ Write \/ Create \/ Rotate \/ Delete \/ Truncate
  \/ \E i \in rotated : Expire(i)
  \/ Poll \/ Settle \/ Checkpoint
  \/ Crash \/ Start

Spec == Init /\ [][Next]_vars

\* The loop polls for ever, acknowledgements arrive, a rotation creates the
\* next file, systemd restarts the forwarder.
Fairness == WF_vars(Poll) /\ SF_vars(Settle) /\ WF_vars(Start) /\ WF_vars(Checkpoint)

FairSpec == Spec /\ Fairness

(***************************************************************************)
(* Properties.                                                             *)
(***************************************************************************)

\* Every variable keeps its type: in particular a poll never returns more than
\* batch_lines lines before it looks at the path.
TypeOK ==
  /\ content \in Seq(File) /\ mtime \in Seq(Nat) /\ Len(mtime) = Len(content)
  /\ path \in 0..Len(content) /\ rotated \subseteq 1..Len(content)
  /\ {line, clock, ceiling, truncates, expires, crashes} \subseteq Nat
  /\ pc \in {"down", "save", "poll", "stat", "rest", "next", "last"}
  /\ open \in BOOLEAN /\ ino \in 0..Len(content) /\ off \in Nat
  /\ pending \in Seq(1..Len(content)) /\ got \in 0..BatchLines
  /\ trail \in Seq([ino : Nat, off : Nat, line : Nat])
  /\ committed \in Pos /\ saved \in Pos
  /\ sent \subseteq Nat /\ lives \in Seq(Nat)
  /\ {origin, first} \subseteq Int /\ loss \in {"none", "warned", "error"}

\* The lines settled, or returned by this process.
Seen == (sent \cup {lives[k] : k \in DOMAIN lives}) \ {None}

\* The lines that end in the first o units of file i.
LinesIn(i, o) == (content[i].before + 1)..(content[i].before + Ended(o))

\* A line that was written to its end and can still be read somewhere.
OnDisk(l) ==
  \E i \in rotated \cup ({path, IF open THEN ino ELSE None} \ {None}) :
    l \in LinesIn(i, Size(i))

\* No line after the given one was passed over while it could be read.
Gapless(from) == \A n \in Seen : \A l \in (from + 1)..n : l \in Seen \/ ~OnDisk(l)

\* forwarder/README.md: "Rotation, truncation, deletion and re-creation are
\* detected ... No duplicates, no gaps", and for rotations while stopped "No
\* gap", or a log entry.  Lines are owed from where the run without a
\* checkpoint began.
NoSilentGap == origin # -1 /\ loss = "none" => Gapless(origin)

\* forwarder/README.md: "If the rotated file was deleted or compressed, an
\* ERROR records the inode and the offset": a gap is never left at a WARNING.
LossIsAnError == origin # -1 /\ loss # "error" => Gapless(origin)

\* forwarder/README.md: "a restart resumes exactly where it stopped ... no
\* gaps": lines are owed from where the very first run began.
RestartResumes == first # -1 /\ loss = "none" => Gapless(first)

\* One process never returns the same line twice, and returns lines in the
\* order they were written.
NoDuplicates ==
  \A j, k \in DOMAIN lives :
    j < k /\ lives[j] # None /\ lives[k] # None => lives[j] < lives[k]

\* What the checkpoint says was forwarded was: a complete line that ends at
\* or before the saved offset of a file that was never truncated is settled,
\* or was there before the first run.
CheckpointCovers ==
  saved # NoPos /\ truncates = 0 =>
    /\ saved.off <= Size(saved.ino)
    /\ LinesIn(saved.ino, saved.off) \subseteq sent \cup 0..origin

\* Every complete line is eventually settled, unless the file was gone before
\* it could be read, the loss was logged, or the line was there before
\* the first run.
EveryLineSettled ==
  \A l \in 1..MaxLines :
    OnDisk(l) ~> (l \in sent \/ ~OnDisk(l) \/ loss # "none" \/ l <= origin)

=============================================================================
