--------------------------- MODULE FileTailProofs ---------------------------
(***************************************************************************)
(* Proofs about FileTail, for any batch size and start policy, any number  *)
(* of files, lines, truncations, expiries and crashes.  The first two      *)
(* theorems and the one on checkpoints assume nothing about how fast files *)
(* go by; the last one says what it needs (Tame).                          *)
(***************************************************************************)
EXTENDS FileTail, FiniteSetTheorems, SequenceTheorems, TLAPS

-----------------------------------------------------------------------------
(* Units and lines.                                                        *)

LEMMA Halves ==
  ASSUME NEW o \in Nat
  PROVE  Ended(o) \in Nat /\ 2 * Ended(o) <= o /\ o <= 2 * Ended(o) + 1
BY DEF Ended

LEMMA HalvesOrdered ==
  ASSUME NEW o \in Nat, NEW p \in Nat, o <= p
  PROVE  Ended(o) <= Ended(p)
BY Halves

LEMMA HalfOf ==
  ASSUME NEW o \in Nat
  PROVE  /\ Ended(2 * o) = o /\ ~Inside(2 * o)
         /\ Ended(o + 1) = IF Inside(o) THEN Ended(o) + 1 ELSE Ended(o)
         /\ Inside(o + 1) = ~Inside(o)
BY DEF Ended, Inside

-----------------------------------------------------------------------------
(* Types.                                                                  *)

Inodes == 1..Len(content)
Entry == [ino : Nat, off : Nat, line : Nat]

\* Where poll() has a file open.
PcInv ==
  /\ pc \in {"stat", "rest", "last"} => open
  /\ open => ino # None /\ pc # "down"
  /\ pc = "next" => ~open
  /\ pc = "down" => trail = << >>

\* Every position is in a file there is, or nowhere.
PlaceInv ==
  /\ {saved.ino, committed.ino} \subseteq 0..Len(content)
  /\ saved.ino = None => saved.off = 0
  /\ committed.ino = None => committed.off = 0
  /\ ino = None => off = 0
  /\ \A k \in DOMAIN trail : trail[k].ino \in Inodes

Types == TypeOK /\ PcInv /\ PlaceInv

LEMMA FileType ==
  ASSUME content \in Seq(File), NEW i \in Inodes
  PROVE  /\ content[i] \in File /\ content[i].before \in Nat /\ Size(i) \in Nat
         /\ i \in Nat /\ i # None
<1>1. content[i] \in File
  BY DEF Inodes
<1>2. i \in Nat /\ i # None
  BY DEF Inodes, None
<1> QED
  BY <1>1, <1>2 DEF File, Size

LEMMA UnreadType ==
  ASSUME content \in Seq(File), NEW i \in Inodes, NEW o \in Nat
  PROVE  /\ Unread(i, o) \in Nat
         /\ o <= Size(i) => Ended(o) + Unread(i, o) = Ended(Size(i))
         /\ o >= Size(i) => Unread(i, o) = 0
<1>1. Size(i) \in Nat /\ Ended(o) \in Nat /\ Ended(Size(i)) \in Nat
  BY FileType, Halves
<1>2. o < Size(i) => Ended(o) <= Ended(Size(i))
  BY <1>1, HalvesOrdered
<1> QED
  BY <1>1, <1>2 DEF Unread

\* What a read returns: the lines after o one by one, all of them or as many as
\* asked for.
LEMMA ReadFacts ==
  ASSUME content \in Seq(File), NEW i \in Inodes, NEW o \in Nat, NEW n \in Nat,
         NEW new, new = ReadLines(i, o, n)
  PROVE  /\ new \in Seq(Entry)
         /\ Len(new) <= n /\ Len(new) <= Unread(i, o)
         /\ Len(new) < n => Len(new) = Unread(i, o)
         /\ \A k \in 1..Len(new) :
              /\ new[k].ino = i /\ new[k].off = 2 * (Ended(o) + k)
              /\ new[k].line = IF Inside(o) /\ k = 1 THEN None
                               ELSE content[i].before + Ended(o) + k
<1>1. PICK u \in Nat : u = Unread(i, o)
  BY UnreadType
<1>2. PICK e \in Nat : e = Ended(o)
  BY Halves
<1>3. PICK b \in Nat : b = content[i].before
  BY FileType
<1>4. PICK c \in Nat : c = (IF u < n THEN u ELSE n)
  OBVIOUS
<1>5. new = [k \in 1..c |-> LineAfter(i, o, k)]
  BY <1>1, <1>4 DEF ReadLines
<1>6. \A k \in 1..c : /\ 2 * (e + k) \in Nat
                      /\ (IF Inside(o) /\ k = 1 THEN None ELSE b + e + k) \in Nat
  BY DEF None
<1>7. \A k \in 1..c : LineAfter(i, o, k) \in Entry
  BY <1>2, <1>3, <1>6, FileType DEF LineAfter, Entry
<1>8. new \in Seq(Entry) /\ Len(new) = c
  BY <1>5, <1>7
<1>9. \A k \in 1..c : new[k] = LineAfter(i, o, k)
  BY <1>5
<1>10. c <= n /\ c <= u /\ (c < n => c = u)
  BY <1>4
<1>11. Len(new) <= n /\ Len(new) <= Unread(i, o) /\ (Len(new) < n => Len(new) = Unread(i, o))
  BY <1>1, <1>8, <1>10
<1>12. \A k \in 1..Len(new) : new[k] = LineAfter(i, o, k)
  BY <1>8, <1>9
<1> QED
  BY <1>8, <1>11, <1>12 DEF LineAfter

\* The same as a predicate, to be expanded where it is needed.
IsRead(i, o, n, new) ==
  /\ new \in Seq(Entry) /\ Len(new) \in Nat
  /\ Len(new) <= n /\ Len(new) <= Unread(i, o)
  /\ Len(new) < n => Len(new) = Unread(i, o)
  /\ \A k \in 1..Len(new) :
       /\ new[k].ino = i /\ new[k].off = 2 * (Ended(o) + k)
       /\ new[k].line = IF Inside(o) /\ k = 1 THEN None
                        ELSE content[i].before + Ended(o) + k

LEMMA ReadIs ==
  ASSUME content \in Seq(File), NEW i \in Inodes, NEW o \in Nat, NEW n \in Nat
  PROVE  IsRead(i, o, n, ReadLines(i, o, n))
<1>1. PICK new : new = ReadLines(i, o, n)
  OBVIOUS
<1>2. /\ new \in Seq(Entry)
      /\ Len(new) <= n /\ Len(new) <= Unread(i, o)
      /\ Len(new) < n => Len(new) = Unread(i, o)
      /\ \A k \in 1..Len(new) :
           /\ new[k].ino = i /\ new[k].off = 2 * (Ended(o) + k)
           /\ new[k].line = IF Inside(o) /\ k = 1 THEN None
                            ELSE content[i].before + Ended(o) + k
  BY <1>1, ReadFacts
<1>3. Len(new) \in Nat
  BY <1>2, LenProperties
<1>4. IsRead(i, o, n, new)
  BY <1>2, <1>3 DEF IsRead
<1> QED
  BY <1>1, <1>4

\* Where a read ends.
LEMMA EndFacts ==
  ASSUME content \in Seq(File), NEW i \in Inodes, NEW o \in Nat, NEW n \in Nat,
         NEW new, new = ReadLines(i, o, n)
  PROVE  /\ EndOf(o, new) \in Nat
         /\ EndOf(o, new) = IF Len(new) = 0 THEN o ELSE 2 * (Ended(o) + Len(new))
         /\ Ended(EndOf(o, new)) = Ended(o) + Len(new)
         /\ Len(new) > 0 => ~Inside(EndOf(o, new))
         /\ o <= Size(i) => EndOf(o, new) <= Size(i)
         /\ o > Size(i) => Len(new) = 0
<1>1. /\ new \in Seq(Entry) /\ Len(new) \in Nat /\ Len(new) <= Unread(i, o)
      /\ \A k \in 1..Len(new) : new[k].off = 2 * (Ended(o) + k)
  BY ReadFacts
<1>2. Ended(o) \in Nat /\ Size(i) \in Nat /\ Ended(Size(i)) \in Nat
      /\ 2 * Ended(Size(i)) <= Size(i)
  BY FileType, Halves
<1>3. EndOf(o, new) = IF Len(new) = 0 THEN o ELSE 2 * (Ended(o) + Len(new))
  <2>1. CASE new = << >>
    BY <2>1 DEF EndOf
  <2>2. CASE new # << >>
    BY <2>2, <1>1 DEF EndOf
  <2> QED
    BY <2>1, <2>2
<1>4. Ended(EndOf(o, new)) = Ended(o) + Len(new) /\ (Len(new) > 0 => ~Inside(EndOf(o, new)))
  <2>1. CASE Len(new) = 0
    BY <2>1, <1>2, <1>3
  <2>2. CASE Len(new) # 0
    <3>1. Ended(o) + Len(new) \in Nat
      BY <1>1, <1>2
    <3>2. Ended(2 * (Ended(o) + Len(new))) = Ended(o) + Len(new)
          /\ ~Inside(2 * (Ended(o) + Len(new)))
      BY <3>1, HalfOf
    <3> QED
      BY <3>2, <2>2, <1>3
  <2> QED
    BY <2>1, <2>2
<1>5. o <= Size(i) => EndOf(o, new) <= Size(i)
  <2>1. o <= Size(i) => Ended(o) + Unread(i, o) = Ended(Size(i)) /\ Unread(i, o) \in Nat
    BY UnreadType
  <2> QED
    BY <2>1, <1>1, <1>2, <1>3
<1>6. o > Size(i) => Len(new) = 0
  <2> SUFFICES ASSUME o > Size(i) PROVE Len(new) = 0
    OBVIOUS
  <2>1. o >= Size(i)
    BY <1>2
  <2>2. Unread(i, o) = 0
    BY <2>1, UnreadType
  <2> QED
    BY <1>1, <2>2
<1> QED
  BY <1>1, <1>2, <1>3, <1>4, <1>5, <1>6

\* What the last read of a file returns: one line if there is one more, else the
\* fragment the file ends in.
LEMMA FinalFacts ==
  ASSUME content \in Seq(File), NEW i \in Inodes, NEW o \in Nat,
         NEW part, part = FinalPartial(i, o)
  PROVE  /\ part \in Seq(Entry) /\ Len(part) <= 1
         /\ \A k \in 1..Len(part) :
              /\ part[k].ino = i /\ part[k].off <= Size(i)
              /\ Unread(i, o) > 0 => part[k].off = 2 * (Ended(o) + 1)
              /\ Unread(i, o) = 0 => part[k].off = Size(i) /\ o < Size(i)
              /\ part[k].line = IF Unread(i, o) > 0 /\ ~Inside(o)
                                THEN content[i].before + Ended(o) + 1 ELSE None
         /\ Unread(i, o) > 0 => Len(part) = 1
<1>1. Unread(i, o) \in Nat /\ Size(i) \in Nat /\ i \in Nat
  BY UnreadType, FileType DEF Inodes
<1>2. CASE Unread(i, o) > 0
  <2>1. part = ReadLines(i, o, 1)
    BY <1>2 DEF FinalPartial
  <2>2. /\ part \in Seq(Entry) /\ Len(part) = 1
        /\ part[1].ino = i /\ part[1].off = 2 * (Ended(o) + 1)
        /\ part[1].line = IF Inside(o) THEN None ELSE content[i].before + Ended(o) + 1
    <3>1. /\ part \in Seq(Entry)
          /\ Len(part) <= 1 /\ (Len(part) < 1 => Len(part) = Unread(i, o))
          /\ \A k \in 1..Len(part) :
               /\ part[k].ino = i /\ part[k].off = 2 * (Ended(o) + k)
               /\ part[k].line = IF Inside(o) /\ k = 1 THEN None
                                 ELSE content[i].before + Ended(o) + k
      <4>1. IsRead(i, o, 1, part)
        BY <2>1, ReadIs
      <4> QED
        BY <4>1 DEF IsRead
    <3>2. PICK m \in Nat : m = Len(part)
      BY <3>1
    <3>3. PICK u \in Nat : u = Unread(i, o)
      BY <1>1
    <3>4. m <= 1 /\ (m < 1 => m = u) /\ u > 0
      BY <3>1, <3>2, <3>3, <1>2
    <3>5. m = 1
      BY <3>4
    <3> QED
      BY <3>1, <3>2, <3>5
  <2>3. o < Size(i)
    BY <1>1, <1>2 DEF Unread
  <2>4. /\ Ended(o) + Unread(i, o) = Ended(Size(i))
        /\ Ended(o) \in Nat /\ Ended(Size(i)) \in Nat /\ 2 * Ended(Size(i)) <= Size(i)
    <3>1. Ended(o) + Unread(i, o) = Ended(Size(i))
      BY <2>3, <1>1, UnreadType
    <3>2. Ended(Size(i)) \in Nat /\ 2 * Ended(Size(i)) <= Size(i)
      BY <1>1, Halves
    <3>3. Ended(o) \in Nat
      BY Halves
    <3> QED
      BY <3>1, <3>2, <3>3
  <2>5. 2 * (Ended(o) + 1) <= Size(i)
    BY <2>4, <1>1, <1>2
  <2> QED
    BY <2>2, <2>5, <1>1, <1>2
<1>3. CASE Unread(i, o) = 0
  <2>1. CASE o < Size(i)
    <3>1. part = <<[ino |-> i, off |-> Size(i), line |-> None]>>
      BY <1>3, <2>1 DEF FinalPartial
    <3>2. [ino |-> i, off |-> Size(i), line |-> None] \in Entry
      BY <1>1 DEF Entry, None
    <3> QED
      BY <3>1, <3>2, <2>1, <1>1, <1>3
  <2>2. CASE ~(o < Size(i))
    BY <2>2, <1>1, <1>3 DEF FinalPartial
  <2> QED
    BY <2>1, <2>2
<1> QED
  BY <1>1, <1>2, <1>3

\* The parts of TypeOK about files, and about the rest.
LEMMA FilesTyped ==
  ASSUME TypeOK
  PROVE  /\ content \in Seq(File) /\ Len(content) \in Nat
         /\ mtime \in Seq(Nat) /\ Len(mtime) = Len(content)
         /\ path \in 0..Len(content) /\ (path # None => path \in Inodes)
         /\ rotated \subseteq Inodes
         /\ line \in Nat /\ clock \in Nat /\ ceiling \in Nat
         /\ truncates \in Nat /\ expires \in Nat /\ crashes \in Nat
<1>1. content \in Seq(File) /\ mtime \in Seq(Nat) /\ Len(mtime) = Len(content)
  BY DEF TypeOK
<1>2. Len(content) \in Nat
  BY <1>1, LenProperties
<1>3. path \in 0..Len(content) /\ rotated \subseteq 1..Len(content)
  BY DEF TypeOK
<1>4. {line, clock, ceiling, truncates, expires, crashes} \subseteq Nat
  BY DEF TypeOK
<1>5. path # None => path \in Inodes
  BY <1>2, <1>3 DEF Inodes, None
<1> QED
  BY <1>1, <1>2, <1>3, <1>4, <1>5 DEF Inodes

\* One half of a line is added to the file at the path.
LEMMA WriteFacts ==
  ASSUME TypeOK, Write
  PROVE  /\ path \in Inodes
         /\ content' \in Seq(File) /\ Len(content') = Len(content)
         /\ mtime' \in Seq(Nat) /\ Len(mtime') = Len(mtime)
         /\ Size(path)' = Size(path) + 1 /\ content'[path].before = content[path].before
         /\ mtime'[path] = clock'
         /\ \A i \in Inodes : i # path => content'[i] = content[i] /\ mtime'[i] = mtime[i]
<1>1. /\ content' = [content EXCEPT ![path].size = @ + 1]
      /\ mtime' = [mtime EXCEPT ![path] = clock']
      /\ clock' = clock + 1 /\ UNCHANGED path
  BY DEF Write
<1>2. path \in 1..Len(content) /\ path \in 1..Len(mtime)
  BY FilesTyped DEF Write, Inodes
<1>3. content[path] \in File /\ content[path].size \in Nat
  BY <1>2, FilesTyped, FileType DEF Inodes, Size
<1> DEFINE f == [content[path] EXCEPT !.size = @ + 1]
<1>4. f \in File /\ f.size = content[path].size + 1 /\ f.before = content[path].before
  BY <1>3 DEF File
<1>5. content' = [content EXCEPT ![path] = f]
  BY <1>1
<1>6. clock' \in Nat
  BY <1>1, FilesTyped
<1> HIDE DEF f
<1>7. /\ content' \in Seq(File) /\ Len(content') = Len(content)
      /\ \A i \in 1..Len(content) : content'[i] = IF i = path THEN f ELSE content[i]
  BY <1>2, <1>4, <1>5, FilesTyped, ExceptSeq
<1>8. /\ mtime' \in Seq(Nat) /\ Len(mtime') = Len(mtime)
      /\ \A i \in 1..Len(mtime) : mtime'[i] = IF i = path THEN clock' ELSE mtime[i]
  BY <1>1, <1>2, <1>6, FilesTyped, ExceptSeq
<1>9. Len(mtime) = Len(content)
  BY FilesTyped
<1> QED
  BY <1>1, <1>2, <1>4, <1>7, <1>8, <1>9 DEF Inodes, Size

\* The file at the path is emptied.
LEMMA TruncateFacts ==
  ASSUME TypeOK, Truncate
  PROVE  /\ path \in Inodes
         /\ content' \in Seq(File) /\ Len(content') = Len(content)
         /\ mtime' \in Seq(Nat) /\ Len(mtime') = Len(mtime)
         /\ Size(path)' = 0 /\ content'[path].before = line
         /\ mtime'[path] = clock'
         /\ \A i \in Inodes : i # path => content'[i] = content[i] /\ mtime'[i] = mtime[i]
<1> DEFINE f == [before |-> line, size |-> 0]
<1>1. /\ content' = [content EXCEPT ![path] = f]
      /\ mtime' = [mtime EXCEPT ![path] = clock']
      /\ clock' = clock + 1 /\ UNCHANGED path
  BY DEF Truncate
<1>2. path \in 1..Len(content) /\ path \in 1..Len(mtime)
  BY FilesTyped DEF Truncate, Inodes
<1>4. f \in File /\ f.size = 0 /\ f.before = line
  BY FilesTyped DEF File
<1>6. clock' \in Nat
  BY <1>1, FilesTyped
<1> HIDE DEF f
<1>7. /\ content' \in Seq(File) /\ Len(content') = Len(content)
      /\ \A i \in 1..Len(content) : content'[i] = IF i = path THEN f ELSE content[i]
  BY <1>1, <1>2, <1>4, FilesTyped, ExceptSeq, SMTT(30)
<1>8. /\ mtime' \in Seq(Nat) /\ Len(mtime') = Len(mtime)
      /\ \A i \in 1..Len(mtime) : mtime'[i] = IF i = path THEN clock' ELSE mtime[i]
  BY <1>1, <1>2, <1>6, FilesTyped, ExceptSeq, SMTT(30)
<1>9. Len(mtime) = Len(content)
  BY FilesTyped
<1> QED
  BY <1>1, <1>2, <1>4, <1>7, <1>8, <1>9 DEF Inodes, Size

\* An empty file is added, and is at the path.
LEMMA CreateFacts ==
  ASSUME TypeOK, Create
  PROVE  /\ content' \in Seq(File) /\ Len(content') = Len(content) + 1
         /\ mtime' \in Seq(Nat) /\ Len(mtime') = Len(mtime) + 1
         /\ path = None /\ path' = Len(content) + 1
         /\ content'[path'].before = line /\ content'[path'].size = 0
         /\ mtime'[path'] = clock
         /\ \A i \in Inodes : content'[i] = content[i] /\ mtime'[i] = mtime[i]
<1> DEFINE f == [before |-> line, size |-> 0]
<1>1. /\ content' = Append(content, f) /\ mtime' = Append(mtime, clock)
      /\ path = None /\ path' = Len(content) + 1
  BY DEF Create
<1>2. f \in File /\ f.size = 0 /\ f.before = line /\ clock \in Nat
  BY FilesTyped DEF File
<1> HIDE DEF f
<1>3. /\ content' \in Seq(File) /\ Len(content') = Len(content) + 1
      /\ content'[Len(content) + 1] = f
      /\ \A i \in 1..Len(content) : content'[i] = content[i]
  BY <1>1, <1>2, FilesTyped, AppendProperties
<1>4. /\ mtime' \in Seq(Nat) /\ Len(mtime') = Len(mtime) + 1
      /\ mtime'[Len(mtime) + 1] = clock
      /\ \A i \in 1..Len(mtime) : mtime'[i] = mtime[i]
  BY <1>1, <1>2, FilesTyped, AppendProperties
<1>5. Len(mtime) = Len(content)
  BY FilesTyped
<1> QED
  BY <1>1, <1>2, <1>3, <1>4, <1>5 DEF Inodes

Source == Write \/ Create \/ Rotate \/ Delete \/ Truncate \/ \E i \in rotated : Expire(i)

\* What the log source does leaves files that are there there.
LEMMA SourceFacts ==
  ASSUME TypeOK, Source
  PROVE  /\ content' \in Seq(File) /\ Len(content') \in Nat /\ Len(content') >= Len(content)
         /\ mtime' \in Seq(Nat) /\ Len(mtime') = Len(content')
         /\ path' \in 0..Len(content') /\ rotated' \subseteq 1..Len(content')
         /\ line' \in Nat /\ clock' \in Nat
         /\ 1..Len(content) \subseteq 1..Len(content')
         /\ UNCHANGED <<pc, tail, track, hist>>
<1>0. Len(mtime) = Len(content) /\ Len(content) \in Nat
  BY FilesTyped
<1>1. /\ content' \in Seq(File) /\ Len(content') >= Len(content)
      /\ mtime' \in Seq(Nat) /\ Len(mtime') = Len(content')
  <2>1. CASE Write
    BY <1>0, <2>1, WriteFacts
  <2>2. CASE Create
    BY <1>0, <2>2, CreateFacts
  <2>3. CASE Truncate
    BY <1>0, <2>3, TruncateFacts
  <2>4. CASE Rotate \/ Delete \/ \E i \in rotated : Expire(i)
    <3>1. content' = content /\ mtime' = mtime
      BY <2>4 DEF Rotate, Delete, Expire
    <3> QED
      BY <3>1, <1>0, FilesTyped
  <2> QED
    BY <2>1, <2>2, <2>3, <2>4 DEF Source
<1>2. Len(content') \in Nat
  BY <1>1, LenProperties
<1>3. 0..Len(content) \subseteq 0..Len(content') /\ 1..Len(content) \subseteq 1..Len(content')
  BY <1>0, <1>1, <1>2
<1>4. path' \in 0..Len(content')
  <2>1. CASE Create
    BY <2>1, <1>0, CreateFacts
  <2>2. CASE ~Create
    <3>1. path' = path \/ path' = None
      BY <2>2 DEF Source, Write, Rotate, Delete, Truncate, Expire
    <3> QED
      BY <3>1, <1>2, <1>3, FilesTyped DEF None
  <2> QED
    BY <2>1, <2>2
<1>5. rotated' \subseteq 1..Len(content')
  <2>1. rotated' \subseteq rotated \/ (rotated' = rotated \cup {path} /\ path # None)
    BY DEF Source, Write, Create, Rotate, Delete, Truncate, Expire, MayVanish
  <2> QED
    BY <2>1, <1>3, FilesTyped DEF Inodes
<1>6. line' \in Nat /\ clock' \in Nat
  <2>1. line' \in {line, line + 1} /\ clock' \in {clock, clock + 1}
    BY DEF Source, Write, Create, Rotate, Delete, Truncate, Expire
  <2> QED
    BY <2>1, FilesTyped
<1>7. UNCHANGED <<pc, tail, track, hist>>
  BY DEF Source, Write, Create, Rotate, Delete, Truncate, Expire
<1> QED
  BY <1>1, <1>2, <1>3, <1>4, <1>5, <1>6, <1>7

\* The parts of TypeOK about the forwarder.
LEMMA TailTyped ==
  ASSUME TypeOK
  PROVE  /\ open \in BOOLEAN /\ ino \in 0..Len(content) /\ ino \in Nat /\ off \in Nat
         /\ got \in 0..BatchLines /\ BatchLines \in Nat
         /\ pending \in Seq(Inodes) /\ Len(pending) \in Nat /\ DOMAIN pending = 1..Len(pending)
         /\ \A k \in 1..Len(pending) : pending[k] \in Inodes
         /\ trail \in Seq(Entry) /\ Len(trail) \in Nat /\ DOMAIN trail = 1..Len(trail)
         /\ \A k \in 1..Len(trail) : trail[k].ino \in Nat /\ trail[k].off \in Nat /\ trail[k].line \in Nat
         /\ lives \in Seq(Nat) /\ Len(lives) \in Nat /\ DOMAIN lives = 1..Len(lives)
         /\ \A k \in 1..Len(lives) : lives[k] \in Nat
         /\ committed \in Pos /\ committed.ino \in Nat /\ committed.off \in Nat
         /\ saved \in Pos /\ saved.ino \in Nat /\ saved.off \in Nat
         /\ sent \subseteq Nat /\ origin \in Int /\ first \in Int
<1>1. /\ pending \in Seq(Inodes) /\ trail \in Seq(Entry) /\ lives \in Seq(Nat)
  BY DEF TypeOK, Inodes, Entry
<1>2. Len(pending) \in Nat /\ DOMAIN pending = 1..Len(pending)
      /\ \A k \in 1..Len(pending) : pending[k] \in Inodes
  BY <1>1, LenProperties, ElementOfSeq
<1>3. Len(lives) \in Nat /\ DOMAIN lives = 1..Len(lives)
      /\ \A k \in 1..Len(lives) : lives[k] \in Nat
  BY <1>1, LenProperties, ElementOfSeq
<1>4. Len(trail) \in Nat /\ DOMAIN trail = 1..Len(trail)
      /\ \A k \in 1..Len(trail) : trail[k] \in Entry
  BY <1>1, LenProperties, ElementOfSeq
<1>5. \A k \in 1..Len(trail) : trail[k].ino \in Nat /\ trail[k].off \in Nat /\ trail[k].line \in Nat
  BY <1>4 DEF Entry
<1>6. committed \in Pos /\ saved \in Pos
  BY DEF TypeOK
<1>7. /\ committed.ino \in Nat /\ committed.off \in Nat
      /\ saved.ino \in Nat /\ saved.off \in Nat
  BY <1>6 DEF Pos
<1>8. /\ open \in BOOLEAN /\ ino \in 0..Len(content) /\ off \in Nat /\ got \in 0..BatchLines
      /\ sent \subseteq Nat /\ origin \in Int /\ first \in Int
  BY DEF TypeOK
<1>9. BatchLines \in Nat
  BY SizeAssumption
<1>10. ino \in Nat
  BY <1>8, FilesTyped
<1> QED
  BY <1>1, <1>2, <1>3, <1>4, <1>5, <1>6, <1>7, <1>8, <1>9, <1>10

LEMMA HeldType ==
  ASSUME TypeOK, NEW i
  PROVE  Held(i) \subseteq Nat
<1>1. \A p \in Positions : p.off \in Nat
  BY TailTyped DEF Positions
<1> QED
  BY <1>1 DEF Held

LEMMA SourceTypes ==
  ASSUME Types, Source
  PROVE  Types'
<1>1. /\ TypeOK /\ PcInv /\ PlaceInv
      /\ UNCHANGED <<pc, tail, track, hist>>
      /\ 1..Len(content) \subseteq 1..Len(content')
  BY SourceFacts DEF Types
<1>2. 0..Len(content) \subseteq 0..Len(content')
  BY <1>1, SourceFacts, FilesTyped
<1>3. {ceiling', truncates', expires', crashes'} \subseteq Nat
  <2>1. CASE Truncate
    <3>1. ceiling' \in Held(path) \cup {ceiling} \cup {0}
      BY <2>1 DEF Truncate
    <3>2. truncates' = truncates + 1 /\ UNCHANGED <<expires, crashes>>
      BY <2>1 DEF Truncate
    <3> QED
      BY <3>1, <3>2, <1>1, HeldType, FilesTyped
  <2>2. CASE ~Truncate
    <3>1. /\ ceiling' \in {ceiling, 0} /\ truncates' = truncates /\ crashes' = crashes
          /\ expires' \in {expires, expires + 1}
      BY <2>2 DEF Source, Write, Create, Rotate, Delete, Expire, caps
    <3> QED
      BY <3>1, <1>1, FilesTyped
  <2> QED
    BY <2>1, <2>2
<1>4. pending' \in Seq(1..Len(content'))
  <2>1. pending' = pending /\ pending \in Seq(1..Len(content))
    BY <1>1, TailTyped DEF tail, Inodes
  <2> QED
    BY <2>1, <1>1, SeqMonotonic
<1>5. /\ UNCHANGED <<pc, open, ino, off, got, trail, committed, saved, sent, lives,
                     origin, first, loss>>
  BY <1>1 DEF tail, track, hist
<1>6. ino \in 0..Len(content')
  BY <1>1, <1>2, TailTyped
<1>7. TypeOK'
  <2>1. /\ content' \in Seq(File) /\ Len(content') \in Nat
        /\ mtime' \in Seq(Nat) /\ Len(mtime') = Len(content')
        /\ path' \in 0..Len(content') /\ rotated' \subseteq 1..Len(content')
        /\ line' \in Nat /\ clock' \in Nat
    BY <1>1, SourceFacts
  <2>2. {line', clock', ceiling', truncates', expires', crashes'} \subseteq Nat
    BY <1>3, <2>1
  <2>3. /\ pc' \in {"down", "save", "poll", "stat", "rest", "next", "last"}
        /\ open' \in BOOLEAN /\ off' \in Nat /\ got' \in 0..BatchLines
        /\ trail' \in Seq([ino : Nat, off : Nat, line : Nat])
        /\ committed' \in Pos /\ saved' \in Pos
        /\ sent' \subseteq Nat /\ lives' \in Seq(Nat)
        /\ {origin', first'} \subseteq Int /\ loss' \in {"none", "warned", "error"}
    BY <1>1, <1>5 DEF TypeOK
  <2> QED
    BY <1>4, <1>5, <1>6, <2>1, <2>2, <2>3 DEF TypeOK
<1>8. PcInv'
  BY <1>1, <1>5 DEF PcInv
<1>9. PlaceInv'
  <2>1. /\ {saved'.ino, committed'.ino} \subseteq 0..Len(content')
    BY <1>1, <1>2, <1>5 DEF PlaceInv
  <2>2. \A k \in DOMAIN trail' : trail'[k].ino \in Inodes'
    BY <1>1, <1>5 DEF PlaceInv, Inodes
  <2> QED
    BY <1>1, <1>5, <2>1, <2>2 DEF PlaceInv
<1> QED
  BY <1>7, <1>8, <1>9 DEF Types

-----------------------------------------------------------------------------
(* What a poll does, apart from opening files, comes down to three steps.  *)

Kept == <<fs, caps, ino, pending, committed, saved, sent, origin, first, loss>>

\* Lines after o of the open file are returned.
Reads(o, n) ==
  /\ Return(ReadLines(ino, o, n)) /\ off' = EndOf(o, ReadLines(ino, o, n))
  /\ open' = open /\ UNCHANGED Kept

\* The same, and the end of the file; then it is closed.
Closes(n) ==
  LET new == ReadLines(ino, off, n)
  IN  /\ Return(new \o FinalPartial(ino, EndOf(off, new))) /\ off' = EndOf(off, new)
      /\ open' = FALSE /\ UNCHANGED Kept

Stays == UNCHANGED <<Kept, open, off, trail, lives>>

\* The same with what the program counter and the path say.
PollKind ==
  \/ Stays /\ open /\ pc = "stat" /\ (pc' = "poll" \/ (pc' = "rest" /\ path \notin {None, ino}))
  \/ \E n \in Nat :
       /\ open /\ Reads(off, n)
       /\ pc' = "poll" \/ (pc' = "stat" /\ Len(ReadLines(ino, off, n)) < n)
  \/ \E n \in Nat :
       open /\ path = ino /\ Size(ino) < off /\ Reads(0, n) /\ pc' = "poll"
  \/ \E n \in Nat :
       /\ open /\ Closes(n) /\ pc' \in {"poll", "next"}
       /\ \/ pc = "stat" /\ path = None /\ n = 0
          \/ pc = "rest" /\ Len(ReadLines(ino, off, n)) < n

LEMMA OpenFile ==
  ASSUME Types, open
  PROVE  ino \in Inodes /\ ino # None /\ pc # "down"
<1>1. ino # None /\ pc # "down"
  BY DEF Types, PcInv
<1> QED
  BY <1>1, TailTyped, FilesTyped, SMTT(30) DEF Types, Inodes, None

LEMMA ReadNone ==
  ASSUME Types, open
  PROVE  ReadLines(ino, off, 0) = << >> /\ EndOf(off, ReadLines(ino, off, 0)) = off
<1>1. content \in Seq(File) /\ ino \in Inodes /\ off \in Nat
  BY OpenFile, FilesTyped, TailTyped DEF Types
<1>2. ReadLines(ino, off, 0) \in Seq(Entry) /\ Len(ReadLines(ino, off, 0)) <= 0
  BY <1>1, ReadFacts
<1>3. ReadLines(ino, off, 0) = << >>
  BY <1>2, EmptySeq, LenProperties
<1> QED
  BY <1>3 DEF EndOf

LEMMA PollKinds ==
  ASSUME Types, PollRead \/ PollStat \/ PollRest \/ PollLast
  PROVE  PollKind /\ got' \in 0..BatchLines
<1>0. open
  BY DEF Types, PcInv, PollRead, PollStat, PollRest, PollLast
<1>1. /\ content \in Seq(File) /\ ino \in Inodes /\ off \in Nat
      /\ got \in 0..BatchLines /\ BatchLines \in Nat /\ BatchLines - got \in Nat
  <2>1. got \in 0..BatchLines /\ BatchLines \in Nat
    BY TailTyped DEF Types
  <2> QED
    BY <1>0, <2>1, OpenFile, FilesTyped, TailTyped DEF Types
<1>2. CASE PollRead
  <2> DEFINE new == ReadLines(ino, off, BatchLines)
  <2>1. Len(new) \in Nat /\ Len(new) <= BatchLines
    BY <1>1, ReadFacts, LenProperties
  <2>2. Reads(off, BatchLines) /\ got' = Len(new)
        /\ pc' = IF Len(new) >= BatchLines THEN "poll" ELSE "stat"
    BY <1>2 DEF PollRead, Reads, Kept
  <2> HIDE DEF new
  <2>3. pc' = "poll" \/ (pc' = "stat" /\ Len(new) < BatchLines)
    BY <2>1, <2>2, <1>1
  <2> QED
    BY <1>0, <1>1, <2>1, <2>2, <2>3 DEF PollKind, new
<1>3. CASE PollStat
  <2>0. pc = "stat" /\ UNCHANGED <<fs, caps, ino, pending, got, committed, saved, sent,
                                  origin, first, loss>>
    BY <1>3 DEF PollStat
  <2>1. CASE path = None
    <3>1. ReadLines(ino, off, 0) = << >> /\ EndOf(off, ReadLines(ino, off, 0)) = off
      BY <1>0, ReadNone
    <3>2. FinalPartial(ino, off) \in Seq(Entry)
      BY <1>1, FinalFacts
    <3>3. << >> \o FinalPartial(ino, off) = FinalPartial(ino, off)
      BY <3>2, ConcatEmptySeq
    <3>4. Return(FinalPartial(ino, off)) /\ open' = FALSE /\ pc' = "poll" /\ off' = off
      BY <1>3, <2>1, <1>1, FileType DEF PollStat
    <3>5. Closes(0)
      BY <2>0, <3>1, <3>3, <3>4 DEF Closes, Kept
    <3> QED
      BY <1>0, <1>1, <2>0, <2>1, <3>4, <3>5 DEF PollKind
  <2>2. CASE path \notin {None, ino}
    BY <1>0, <1>1, <1>3, <2>0, <2>2 DEF PollStat, PollKind, Stays, Kept
  <2>3. CASE path # None /\ path = ino /\ Size(ino) < off
    <3>1. Reads(0, BatchLines - got) /\ pc' = "poll"
      BY <1>3, <2>0, <2>3, <1>1, FileType DEF PollStat, Reads, Kept
    <3> QED
      BY <1>0, <1>1, <2>0, <2>3, <3>1 DEF PollKind
  <2>4. CASE path # None /\ path = ino /\ ~(Size(ino) < off)
    BY <1>0, <1>1, <1>3, <2>0, <2>4 DEF PollStat, PollKind, Stays, Kept
  <2> QED
    BY <2>1, <2>2, <2>3, <2>4
<1>4. CASE PollRest
  <2> DEFINE n == BatchLines - got
             new == ReadLines(ino, off, n)
             full == got + Len(new) >= BatchLines
             part == IF full THEN << >> ELSE FinalPartial(ino, EndOf(off, new))
  <2>1. /\ new \in Seq(Entry) /\ Len(new) \in Nat /\ Len(new) <= n
        /\ EndOf(off, new) \in Nat
    BY <1>1, ReadFacts, EndFacts, LenProperties
  <2>2. /\ pc = "rest" /\ off' = EndOf(off, new) /\ Return(new \o part)
        /\ got' = got + Len(new) + Len(part) /\ open' = full
        /\ pc' = IF full THEN "poll" ELSE "next"
        /\ UNCHANGED Kept
    BY <1>4 DEF PollRest, Kept
  <2>7. full => part = << >>
    OBVIOUS
  <2>8. ~full => part = FinalPartial(ino, EndOf(off, new))
    OBVIOUS
  <2>9. Closes(n) <=> /\ Return(new \o FinalPartial(ino, EndOf(off, new)))
                     /\ off' = EndOf(off, new) /\ open' = FALSE /\ UNCHANGED Kept
    BY DEF Closes
  <2> HIDE DEF part
  <2>3. CASE full
    <3>1. part = << >> /\ new \o << >> = new
      BY <2>1, <2>3, <2>7, ConcatEmptySeq
    <3>2. Reads(off, n)
      BY <1>0, <2>2, <2>3, <3>1 DEF Reads
    <3>3. got' = got + Len(new)
      <4>1. Len(part) = 0
        BY <3>1
      <4>2. got + Len(new) + 0 = got + Len(new)
        BY <2>1, <1>1
      <4> QED
        BY <2>2, <4>1, <4>2
    <3>4. n \in Nat /\ got' \in 0..BatchLines
      BY <1>1, <2>1, <3>3
    <3> QED
      BY <1>0, <2>2, <2>3, <3>2, <3>4 DEF PollKind
  <2>4. CASE ~full
    <3>1. part = FinalPartial(ino, EndOf(off, new))
      BY <2>4, <2>8
    <3>2. part \in Seq(Entry) /\ Len(part) <= 1 /\ Len(part) \in Nat
      BY <1>1, <2>1, <3>1, FinalFacts, LenProperties
    <3>3. Closes(n)
      <4>1. open' = FALSE
        <5>1. open' = full
          BY <2>2
        <5>2. full \in BOOLEAN
          OBVIOUS
        <5> HIDE DEF full
        <5> QED
          BY <5>1, <5>2, <2>4, Zenon
      <4> QED
        BY <2>2, <2>9, <3>1, <4>1
    <3>4. n \in Nat /\ Len(new) < n
      BY <1>1, <2>1, <2>4
    <3>5. got' \in 0..BatchLines
      <4>1. got + Len(new) + Len(part) \in 0..BatchLines
        <5> HIDE DEF new
        <5>1. got \in Nat /\ Len(new) < BatchLines - got
          BY <1>1, <3>4
        <5> QED
          BY <1>1, <2>1, <3>2, <5>1
      <4> QED
        BY <2>2, <4>1
    <3> QED
      BY <1>0, <2>2, <2>4, <3>3, <3>4, <3>5 DEF PollKind
  <2> QED
    BY <2>3, <2>4
<1>5. CASE PollLast
  <2>1. Reads(off, BatchLines - got) /\ pc' = "poll" /\ got' = got
    BY <1>0, <1>5 DEF PollLast, Reads, Kept
  <2> QED
    BY <1>0, <1>1, <2>1 DEF PollKind
<1> QED
  BY <1>2, <1>3, <1>4, <1>5

LEMMA ReturnFacts ==
  ASSUME TypeOK, NEW entries \in Seq(Entry), Return(entries)
  PROVE  /\ trail' \in Seq(Entry) /\ Len(entries) \in Nat /\ Len(trail') = Len(trail) + Len(entries)
         /\ \A k \in 1..Len(trail) : trail'[k] = trail[k]
         /\ \A k \in 1..Len(entries) : trail'[Len(trail) + k] = entries[k]
         /\ lives' \in Seq(Nat) /\ Len(lives') = Len(lives) + Len(entries)
         /\ \A k \in 1..Len(lives) : lives'[k] = lives[k]
         /\ \A k \in 1..Len(entries) : lives'[Len(lives) + k] = entries[k].line
<1>0. /\ trail \in Seq(Entry) /\ Len(trail) \in Nat
      /\ lives \in Seq(Nat) /\ Len(lives) \in Nat
      /\ Len(entries) \in Nat /\ DOMAIN entries = 1..Len(entries)
  BY TailTyped, LenProperties
<1> DEFINE ls == [k \in DOMAIN entries |-> entries[k].line]
<1>1. ls \in Seq(Nat) /\ Len(ls) = Len(entries)
      /\ \A k \in 1..Len(entries) : ls[k] = entries[k].line
  <2>1. \A k \in 1..Len(entries) : entries[k] \in Entry
    BY ElementOfSeq
  <2>2. \A k \in 1..Len(entries) : entries[k].line \in Nat
    BY <2>1 DEF Entry
  <2>3. ls = [k \in 1..Len(entries) |-> entries[k].line]
    BY <1>0
  <2> QED
    BY <1>0, <2>2, <2>3
<1>2. trail' = trail \o entries /\ lives' = lives \o ls
  BY DEF Return
<1> HIDE DEF ls
<1>3. /\ trail' \in Seq(Entry) /\ Len(trail') = Len(trail) + Len(entries)
      /\ \A k \in 1..Len(trail) + Len(entries) :
           trail'[k] = IF k <= Len(trail) THEN trail[k] ELSE entries[k - Len(trail)]
  BY <1>0, <1>2, ConcatProperties
<1>4. /\ lives' \in Seq(Nat) /\ Len(lives') = Len(lives) + Len(ls)
      /\ \A k \in 1..Len(lives) + Len(ls) :
           lives'[k] = IF k <= Len(lives) THEN lives[k] ELSE ls[k - Len(lives)]
  <2>1. lives \in Seq(Nat) /\ ls \in Seq(Nat)
    BY <1>0, <1>1
  <2>2. /\ lives \o ls \in Seq(Nat) /\ Len(lives \o ls) = Len(lives) + Len(ls)
        /\ \A k \in 1..Len(lives) + Len(ls) :
             (lives \o ls)[k] = IF k <= Len(lives) THEN lives[k] ELSE ls[k - Len(lives)]
    BY <2>1, ConcatProperties
  <2>3. lives' = lives \o ls
    BY <1>2
  <2> QED
    BY <2>2, <2>3
<1>5. \A m, n \in Nat :
        /\ \A k \in 1..m : k \in 1..m + n /\ k <= m
        /\ \A k \in 1..n : m + k \in 1..m + n /\ ~(m + k <= m) /\ (m + k) - m = k
  OBVIOUS
<1>6. /\ \A k \in 1..Len(trail) : trail'[k] = trail[k]
      /\ \A k \in 1..Len(entries) : trail'[Len(trail) + k] = entries[k]
  BY <1>0, <1>3, <1>5
<1>7. /\ \A k \in 1..Len(lives) : lives'[k] = lives[k]
      /\ \A k \in 1..Len(ls) : lives'[Len(lives) + k] = ls[k]
  BY <1>0, <1>1, <1>4, <1>5
<1> QED
  BY <1>0, <1>1, <1>3, <1>4, <1>6, <1>7

\* The entries of a step that closes the file: those up to the new offset, and
\* at most one behind it.
LEMMA ClosesFacts ==
  ASSUME Types, open, NEW n \in Nat, Closes(n), n = 0 \/ Len(ReadLines(ino, off, n)) < n,
         NEW new, new = ReadLines(ino, off, n),
         NEW part, part = FinalPartial(ino, EndOf(off, new))
  PROVE  /\ new \in Seq(Entry) /\ part \in Seq(Entry) /\ new \o part \in Seq(Entry)
         /\ Len(new) \in Nat /\ Len(part) \in {0, 1} /\ Len(new \o part) = Len(new) + Len(part)
         /\ \A k \in 1..Len(new) : (new \o part)[k] = new[k]
         /\ \A k \in 1..Len(part) : (new \o part)[Len(new) + k] = part[k]
         /\ EndOf(off, new) \in Nat
         /\ Return(new \o part)
<1>1. content \in Seq(File) /\ ino \in Inodes /\ off \in Nat
  BY OpenFile, FilesTyped, TailTyped DEF Types
<1>2. new \in Seq(Entry) /\ Len(new) \in Nat
  BY <1>1, ReadFacts, LenProperties
<1>3. EndOf(off, new) \in Nat
  BY <1>1, EndFacts
<1>4. part \in Seq(Entry) /\ Len(part) \in Nat /\ Len(part) <= 1
  BY <1>1, <1>3, FinalFacts, LenProperties
<1>5. Len(part) \in {0, 1}
  <2>1. \A m \in Nat : m <= 1 => m \in {0, 1}
    OBVIOUS
  <2> QED
    BY <1>4, <2>1
<1>6. /\ new \o part \in Seq(Entry) /\ Len(new \o part) = Len(new) + Len(part)
      /\ \A k \in 1..Len(new) + Len(part) :
           (new \o part)[k] = IF k <= Len(new) THEN new[k] ELSE part[k - Len(new)]
  BY <1>2, <1>4, ConcatProperties
<1>7. \A m, p \in Nat :
        /\ \A k \in 1..m : k \in 1..m + p /\ k <= m
        /\ \A k \in 1..p : m + k \in 1..m + p /\ ~(m + k <= m) /\ (m + k) - m = k
  OBVIOUS
<1>8. /\ \A k \in 1..Len(new) : (new \o part)[k] = new[k]
      /\ \A k \in 1..Len(part) : (new \o part)[Len(new) + k] = part[k]
  BY <1>2, <1>4, <1>6, <1>7
<1>9. Return(new \o part)
  BY DEF Closes
<1> QED
  BY <1>2, <1>3, <1>4, <1>5, <1>6, <1>8, <1>9

\* What PollOpen opens, and what it leaves of pending.
LEMMA OpenFacts ==
  ASSUME Types, PollOpen
  PROVE  /\ ~open /\ pc \in {"next", "poll"}
         /\ \/ \E k \in 1..Len(pending) :
                 /\ Found(pending[k]) /\ \A j \in 1..(k - 1) : ~Found(pending[j])
                 /\ open' = TRUE /\ ino' = pending[k] /\ off' = 0
                 /\ pending' \in Seq(Inodes)
                 /\ \/ pending' = << >> /\ pending[k] = path
                    \/ /\ Len(pending') = Len(pending) - k
                       /\ \A j \in 1..Len(pending') : pending'[j] = pending[k + j]
            \/ /\ \A k \in 1..Len(pending) : ~Found(pending[k])
               /\ pending' = << >>
               /\ \/ path # None /\ open' = TRUE /\ ino' = path /\ off' = 0
                  \/ path = None /\ UNCHANGED <<open, ino, off>>
         /\ pc' \in {"last", "poll"} /\ (pc' = "last" => open')
         /\ loss' \in {loss, "error"}
         /\ UNCHANGED <<fs, caps, got, track, sent, lives, origin, first>>
<1>1. ~open /\ pc \in {"next", "poll"}
  BY DEF PollOpen, Types, PcInv
<1>2. pending \in Seq(Inodes) /\ Len(pending) \in Nat /\ DOMAIN pending = 1..Len(pending)
      /\ \A k \in 1..Len(pending) : pending[k] \in Inodes
  BY TailTyped DEF Types
<1>3. /\ pc' \in {"last", "poll"} /\ (pc' = "last" => open')
      /\ loss' \in {loss, "error"}
      /\ UNCHANGED <<fs, caps, got, track, sent, lives, origin, first>>
  BY DEF PollOpen
<1>4. ASSUME NEW k \in DOMAIN pending,
             Found(pending[k]) /\ \A j \in 1..(k - 1) : ~Found(pending[j]),
             OpenAt(pending[k]),
             pending' = IF pending[k] = path THEN << >>
                        ELSE SubSeq(pending, k + 1, Len(pending))
      PROVE  \E m \in 1..Len(pending) :
                 /\ Found(pending[m]) /\ \A j \in 1..(m - 1) : ~Found(pending[j])
                 /\ open' = TRUE /\ ino' = pending[m] /\ off' = 0
                 /\ pending' \in Seq(Inodes)
                 /\ \/ pending' = << >> /\ pending[m] = path
                    \/ /\ Len(pending') = Len(pending) - m
                       /\ \A j \in 1..Len(pending') : pending'[j] = pending[m + j]
  <2>1. CASE pending[k] = path
    BY <1>2, <1>4, <2>1, EmptySeq DEF OpenAt
  <2>2. CASE pending[k] # path
    <3> DEFINE rest == SubSeq(pending, k + 1, Len(pending))
    <3>1. k \in 1..Len(pending) /\ k + 1 \in Int
      BY <1>2, <1>4
    <3>2. \A j \in (k + 1)..Len(pending) : pending[j] \in Inodes
      BY <1>2, <3>1
    <3>3. /\ rest \in Seq(Inodes)
          /\ Len(rest) = IF k + 1 <= Len(pending) THEN Len(pending) - (k + 1) + 1 ELSE 0
          /\ \A j \in 1..Len(pending) - (k + 1) + 1 : rest[j] = pending[k + 1 + j - 1]
      BY <1>2, <3>1, <3>2, SubSeqProperties
    <3>4. pending' = rest
      BY <1>4, <2>2
    <3> HIDE DEF rest
    <3>5. Len(rest) = Len(pending) - k
      BY <1>2, <3>1, <3>3
    <3>6. \A j \in 1..Len(rest) : rest[j] = pending[k + j]
      <4>1. \A j \in 1..(Len(pending) - k) : j \in 1..Len(pending) - (k + 1) + 1 /\ k + 1 + j - 1 = k + j
        BY <1>2, <3>1
      <4> QED
        BY <3>3, <3>5, <4>1
    <3>7. /\ pending' \in Seq(Inodes) /\ Len(pending') = Len(pending) - k
          /\ \A j \in 1..Len(pending') : pending'[j] = pending[k + j]
      BY <3>3, <3>4, <3>5, <3>6
    <3>8. open' = TRUE /\ ino' = pending[k] /\ off' = 0
      BY <1>4 DEF OpenAt
    <3> QED
      BY <1>4, <3>1, <3>7, <3>8
  <2> QED
    BY <2>1, <2>2
<1>5. ASSUME \A k \in DOMAIN pending : ~Found(pending[k]),
             IF path # None THEN OpenAt(path) ELSE UNCHANGED <<open, ino, off>>,
             pending' = << >>
      PROVE  /\ \A k \in 1..Len(pending) : ~Found(pending[k])
             /\ pending' = << >>
             /\ \/ path # None /\ open' = TRUE /\ ino' = path /\ off' = 0
                \/ path = None /\ UNCHANGED <<open, ino, off>>
  BY <1>2, <1>5, SMTT(40) DEF OpenAt
<1> QED
  BY <1>1, <1>3, <1>4, <1>5 DEF PollOpen

\* The list of files a start has to read after the one it resumes in.
LEMMA OwedFacts ==
  ASSUME TypeOK, NEW q \in InMtimeOrder(Later),
         NEW owed, owed = q \o (IF path = None THEN << >> ELSE <<path>>)
  PROVE  /\ q \in Seq(Inodes) /\ Len(q) \in Nat /\ owed \in Seq(Inodes)
         /\ Len(owed) = IF path = None THEN Len(q) ELSE Len(q) + 1
         /\ \A k \in 1..Len(q) : owed[k] = q[k] /\ q[k] \in Later
         /\ path # None => owed[Len(q) + 1] = path
         /\ \A i \in Later : \E k \in 1..Len(q) : q[k] = i
         /\ \A j, k \in 1..Len(q) : j < k =>
              mtime[q[j]] < mtime[q[k]] \/ (mtime[q[j]] = mtime[q[k]] /\ q[j] < q[k])
<1>1. Later \in SUBSET Inodes
  BY FilesTyped DEF Later
<1>2. IsFiniteSet(Later) /\ Cardinality(Later) \in Nat
  <2>1. IsFiniteSet(Inodes)
    BY FilesTyped, FS_Interval DEF Inodes
  <2> QED
    BY <1>1, <2>1, FS_Subset, FS_CardinalityType
<1>3. /\ q \in [1..Cardinality(Later) -> Later] /\ Later = {q[k] : k \in DOMAIN q}
      /\ \A j, k \in DOMAIN q : j < k =>
              mtime[q[j]] < mtime[q[k]] \/ (mtime[q[j]] = mtime[q[k]] /\ q[j] < q[k])
  BY DEF InMtimeOrder
<1>4. PICK n \in Nat : n = Cardinality(Later)
  BY <1>2
<1>5. q \in Seq(Later) /\ Len(q) = n /\ DOMAIN q = 1..n
  <2>1. q \in [1..n -> Later]
    BY <1>3, <1>4
  <2> QED
    BY <2>1, SMTT(30)
<1>6. q \in Seq(Inodes) /\ Len(q) \in Nat
  BY <1>1, <1>5, SeqMonotonic
<1>7. \A k \in 1..Len(q) : q[k] \in Later
  BY <1>3, <1>5
<1>8. /\ owed \in Seq(Inodes)
      /\ Len(owed) = IF path = None THEN Len(q) ELSE Len(q) + 1
      /\ \A k \in 1..Len(q) : owed[k] = q[k]
      /\ path # None => owed[Len(q) + 1] = path
  <2>1. CASE path = None
    BY <2>1, <1>6, ConcatEmptySeq
  <2>2. CASE path # None
    <3>1. path \in Inodes /\ owed = q \o <<path>>
      BY <2>2, FilesTyped
    <3>2. owed = Append(q, path)
      BY <3>1, <1>6, AppendIsConcat
    <3> QED
      BY <2>2, <3>1, <3>2, <1>6, AppendProperties
  <2> QED
    BY <2>1, <2>2
<1> QED
  BY <1>3, <1>5, <1>6, <1>7, <1>8

\* How a start comes to its position; the rest of it is the same for all.
StartKind ==
  \/ Waits /\ path = None /\ ((saved = NoPos /\ loss' = loss) \/ (saved # NoPos /\ loss' # "none"))
  \/ /\ saved = NoPos /\ path # None /\ loss' = loss
     /\ Opens(path, IF StartFrom = "end" THEN Size(path) ELSE 0, << >>)
  \/ /\ saved # NoPos /\ path # None /\ path = saved.ino /\ loss' = loss
     /\ AtLineBoundary(path, saved.off) /\ Opens(path, saved.off, << >>)
  \/ /\ saved # NoPos /\ saved.ino \in rotated /\ loss' = loss
     /\ AtLineBoundary(saved.ino, saved.off)
     /\ \E q \in InMtimeOrder(Later) :
          Opens(saved.ino, saved.off, q \o (IF path = None THEN << >> ELSE <<path>>))
  \/ /\ saved # NoPos /\ path # None /\ Opens(path, 0, << >>)
     /\ path = saved.ino \/ loss' # "none"

LEMMA StartKinds ==
  ASSUME Types, Start
  PROVE  /\ StartKind /\ loss' \in {loss, "warned", "error"}
         /\ pc = "down" /\ pc' = "save" /\ got' = 0 /\ trail' = << >> /\ lives' = << >>
         /\ saved = NoPos => origin' = Before
         /\ saved # NoPos => origin' = origin
         /\ first' \in {first, Before}
         /\ UNCHANGED <<fs, caps, saved, sent>>
<1>1. saved # NoPos => saved.ino # None
  <2>1. saved \in Pos /\ (saved.ino = None => saved.off = 0)
    BY TailTyped DEF Types, PlaceInv
  <2> QED
    BY <2>1 DEF Pos, NoPos
<1>2. FirstStart => StartKind /\ loss' = loss
  <2>1. ASSUME FirstStart, path = None
        PROVE  Waits /\ path = None /\ saved = NoPos /\ loss' = loss
    BY <2>1 DEF FirstStart
  <2>2. ASSUME FirstStart, path # None
        PROVE  /\ saved = NoPos /\ path # None /\ loss' = loss
               /\ Opens(path, IF StartFrom = "end" THEN Size(path) ELSE 0, << >>)
    BY <2>2 DEF FirstStart
  <2> QED
    BY <2>1, <2>2 DEF StartKind
<1>3. ResumeAtPath => StartKind /\ loss' = loss
  BY <1>1 DEF ResumeAtPath, StartKind
<1>4. ResumeRotated => StartKind /\ loss' = loss
  BY DEF ResumeRotated, InRotated, StartKind
<1>5. ResumeLost => StartKind /\ loss' \in {loss, "warned", "error"}
  BY DEF ResumeLost, StartKind
<1> QED
  BY <1>2, <1>3, <1>4, <1>5 DEF Start

\* TypeOK again, in the shape the steps of the forwarder need: what they leave
\* alone, and what they set.
LEMMA TailTypes ==
  ASSUME TypeOK, UNCHANGED fs, UNCHANGED <<ceiling, truncates, expires>>, crashes' \in Nat,
         pc' \in {"down", "save", "poll", "stat", "rest", "next", "last"},
         open' \in BOOLEAN, ino' \in 0..Len(content), off' \in Nat,
         pending' \in Seq(Inodes), got' \in 0..BatchLines, trail' \in Seq(Entry),
         committed' \in Pos, saved' \in Pos, sent' \subseteq Nat, lives' \in Seq(Nat),
         origin' \in Int, first' \in Int, loss' \in {"none", "warned", "error"}
  PROVE  TypeOK'
<1>1. UNCHANGED <<content, mtime, path, rotated, line, clock, ceiling, truncates, expires>>
  BY DEF fs
<1>2. /\ content' \in Seq(File) /\ mtime' \in Seq(Nat) /\ Len(mtime') = Len(content')
      /\ path' \in 0..Len(content') /\ rotated' \subseteq 1..Len(content')
  BY <1>1 DEF TypeOK
<1>3. {line', clock', ceiling', truncates', expires', crashes'} \subseteq Nat
  BY <1>1, FilesTyped
<1>4. pending' \in Seq(1..Len(content')) /\ ino' \in 0..Len(content')
      /\ trail' \in Seq([ino : Nat, off : Nat, line : Nat])
  BY <1>1 DEF Inodes, Entry
<1> QED
  BY <1>2, <1>3, <1>4 DEF TypeOK

LEMMA PlaceStep ==
  ASSUME UNCHANGED content, {saved'.ino, committed'.ino} \subseteq 0..Len(content),
         saved'.ino = None => saved'.off = 0, committed'.ino = None => committed'.off = 0,
         ino' = None => off' = 0, \A k \in DOMAIN trail' : trail'[k].ino \in Inodes
  PROVE  PlaceInv'
BY DEF PlaceInv, Inodes

LEMMA PollTypes ==
  ASSUME Types, PollRead \/ PollStat \/ PollRest \/ PollLast
  PROVE  Types'
<1> USE DEF Types
<1>1. PollKind /\ got' \in 0..BatchLines
  BY PollKinds
<1>2. open /\ UNCHANGED Kept
  BY <1>1 DEF PollKind, Stays, Reads, Closes
<1>3. content \in Seq(File) /\ ino \in Inodes /\ ino # None /\ off \in Nat /\ 0 \in Nat
  BY <1>2, OpenFile, FilesTyped, TailTyped
<1>4. ASSUME NEW entries \in Seq(Entry), Return(entries),
             \A k \in 1..Len(entries) : entries[k].ino = ino
      PROVE  /\ trail' \in Seq(Entry) /\ lives' \in Seq(Nat)
             /\ \A k \in DOMAIN trail' : trail'[k].ino \in Inodes
  <2>1. /\ trail' \in Seq(Entry) /\ Len(entries) \in Nat /\ Len(trail') = Len(trail) + Len(entries)
        /\ \A k \in 1..Len(trail) : trail'[k] = trail[k]
        /\ \A k \in 1..Len(entries) : trail'[Len(trail) + k] = entries[k]
        /\ lives' \in Seq(Nat)
    BY <1>4, ReturnFacts
  <2>2. DOMAIN trail' = 1..Len(trail) + Len(entries) /\ Len(trail) \in Nat
    BY <2>1, LenProperties, TailTyped
  <2>3. \A m, n \in Nat : \A k \in 1..m + n : k \in 1..m \/ (k - m \in 1..n /\ m + (k - m) = k)
    OBVIOUS
  <2>4. \A k \in 1..Len(trail) : trail[k].ino \in Inodes
    BY TailTyped DEF PlaceInv
  <2>5. ASSUME NEW k \in DOMAIN trail'
        PROVE  trail'[k].ino \in Inodes
    <3>1. CASE k \in 1..Len(trail)
      BY <3>1, <2>1, <2>4
    <3>2. CASE k \notin 1..Len(trail)
      <4>1. k - Len(trail) \in 1..Len(entries) /\ Len(trail) + (k - Len(trail)) = k
        BY <3>2, <2>1, <2>2, <2>3, <2>5
      <4>2. trail'[k] = entries[k - Len(trail)]
        BY <4>1, <2>1
      <4> QED
        BY <4>1, <4>2, <1>3, <1>4
    <3> QED
      BY <3>1, <3>2
  <2> QED
    BY <2>1, <2>5
<1>5. ASSUME NEW n \in Nat, NEW o \in Nat, Reads(o, n)
      PROVE  /\ trail' \in Seq(Entry) /\ lives' \in Seq(Nat) /\ off' \in Nat /\ open' = open
             /\ \A k \in DOMAIN trail' : trail'[k].ino \in Inodes
  <2>1. /\ ReadLines(ino, o, n) \in Seq(Entry)
        /\ \A k \in 1..Len(ReadLines(ino, o, n)) : ReadLines(ino, o, n)[k].ino = ino
        /\ EndOf(o, ReadLines(ino, o, n)) \in Nat
    BY <1>3, ReadFacts, EndFacts
  <2> QED
    BY <1>4, <1>5, <2>1 DEF Reads
<1>6. ASSUME NEW n \in Nat, Closes(n), n = 0 \/ Len(ReadLines(ino, off, n)) < n
      PROVE  /\ trail' \in Seq(Entry) /\ lives' \in Seq(Nat) /\ off' \in Nat /\ open' = FALSE
             /\ \A k \in DOMAIN trail' : trail'[k].ino \in Inodes
  <2> DEFINE new == ReadLines(ino, off, n)
             part == FinalPartial(ino, EndOf(off, new))
  <2>1. /\ new \in Seq(Entry) /\ \A k \in 1..Len(new) : new[k].ino = ino
    BY <1>3, ReadFacts
  <2>2. off' = EndOf(off, new) /\ open' = FALSE
    BY <1>6 DEF Closes
  <2>3. EndOf(off, new) \in Nat
    BY <1>3, EndFacts
  <2>4. /\ part \in Seq(Entry) /\ \A k \in 1..Len(part) : part[k].ino = ino
    <3>1. part = FinalPartial(ino, EndOf(off, new))
      OBVIOUS
    <3> HIDE DEF new, part
    <3>2. PICK o \in Nat : o = EndOf(off, new)
      BY <2>3
    <3>3. part = FinalPartial(ino, o)
      BY <3>1, <3>2
    <3>4. part \in Seq(Entry)
      BY <1>3, <3>3, FinalFacts
    <3>5. \A k \in 1..Len(part) : part[k].ino = ino
      BY <1>3, <3>3, FinalFacts
    <3> QED
      BY <3>4, <3>5
  <2>5. /\ Return(new \o part) /\ new \o part \in Seq(Entry)
        /\ Len(new) \in Nat /\ Len(part) \in Nat /\ Len(new \o part) = Len(new) + Len(part)
        /\ \A k \in 1..Len(new) : (new \o part)[k] = new[k]
        /\ \A k \in 1..Len(part) : (new \o part)[Len(new) + k] = part[k]
    <3>1. /\ Return(new \o part) /\ new \o part \in Seq(Entry)
          /\ Len(new) \in Nat /\ Len(new \o part) = Len(new) + Len(part)
          /\ \A k \in 1..Len(new) : (new \o part)[k] = new[k]
          /\ \A k \in 1..Len(part) : (new \o part)[Len(new) + k] = part[k]
      BY <1>2, <1>6, ClosesFacts
    <3>2. Len(part) \in Nat
      BY <2>4, LenProperties
    <3> QED
      BY <3>1, <3>2
  <2> HIDE DEF new, part
  <2>6. \A k \in 1..Len(new \o part) : (new \o part)[k].ino = ino
    <3>1. \A m, p \in Nat : \A k \in 1..m + p : k \in 1..m \/ (k - m \in 1..p /\ m + (k - m) = k)
      OBVIOUS
    <3> SUFFICES ASSUME NEW k \in 1..Len(new \o part) PROVE (new \o part)[k].ino = ino
      OBVIOUS
    <3>2. CASE k \in 1..Len(new)
      BY <3>2, <2>1, <2>5
    <3>3. CASE k \notin 1..Len(new)
      <4>1. k - Len(new) \in 1..Len(part) /\ Len(new) + (k - Len(new)) = k
        BY <3>1, <3>3, <2>5
      <4> QED
        BY <4>1, <2>4, <2>5
    <3> QED
      BY <3>2, <3>3
  <2> QED
    BY <1>4, <2>2, <2>3, <2>5, <2>6
<1> DEFINE Typed ==
      /\ trail' \in Seq(Entry) /\ lives' \in Seq(Nat) /\ off' \in Nat /\ open' \in BOOLEAN
      /\ \A k \in DOMAIN trail' : trail'[k].ino \in Inodes
      /\ pc' \in {"poll", "stat", "rest", "next"}
      /\ pc' \in {"stat", "rest"} => open'
      /\ pc' = "next" => ~open'
<1>7. Typed
  <2>1. CASE Stays /\ pc' \in {"poll", "rest"}
    <3>1. UNCHANGED <<open, off, trail, lives>>
      BY <2>1 DEF Stays
    <3>2. \A k \in DOMAIN trail : trail[k].ino \in Inodes
      BY DEF PlaceInv
    <3>3. trail \in Seq(Entry) /\ lives \in Seq(Nat) /\ off \in Nat /\ open \in BOOLEAN
      BY TailTyped
    <3>4. \A k \in DOMAIN trail' : trail'[k].ino \in Inodes
      BY <3>1, <3>2
    <3>5. open' /\ pc' # "next" /\ pc' \in {"poll", "stat", "rest", "next"}
      BY <2>1, <3>1, <1>2
    <3> QED
      BY <3>1, <3>3, <3>4, <3>5
  <2>2. CASE \E n \in Nat : Reads(off, n) /\ pc' \in {"poll", "stat"}
    BY <2>2, <1>2, <1>3, <1>5
  <2>3. CASE \E n \in Nat : Reads(0, n) /\ pc' \in {"poll", "stat"}
    BY <2>3, <1>2, <1>3, <1>5
  <2>4. CASE \E n \in Nat : Closes(n) /\ pc' \in {"poll", "next"}
                             /\ (n = 0 \/ Len(ReadLines(ino, off, n)) < n)
    <3>1. PICK n \in Nat : Closes(n) /\ (n = 0 \/ Len(ReadLines(ino, off, n)) < n)
      BY <2>4
    <3>2. pc' \in {"poll", "next"}
      BY <2>4
    <3>3. /\ trail' \in Seq(Entry) /\ lives' \in Seq(Nat) /\ off' \in Nat /\ open' = FALSE
          /\ \A k \in DOMAIN trail' : trail'[k].ino \in Inodes
      BY <3>1, <1>6
    <3> QED
      BY <3>2, <3>3
  <2>5. \/ Stays /\ pc' \in {"poll", "rest"}
        \/ \E n \in Nat : Reads(off, n) /\ pc' \in {"poll", "stat"}
        \/ \E n \in Nat : Reads(0, n) /\ pc' \in {"poll", "stat"}
        \/ \E n \in Nat : Closes(n) /\ pc' \in {"poll", "next"}
                             /\ (n = 0 \/ Len(ReadLines(ino, off, n)) < n)
    BY <1>1 DEF PollKind
  <2> HIDE DEF Typed
  <2> QED
    BY <2>1, <2>2, <2>3, <2>4, <2>5
<1>8. PcInv'
  <2>1. pc' # "last" /\ pc' # "down" /\ ino' = ino
    BY <1>2, <1>7 DEF Kept
  <2> QED
    BY <1>3, <1>7, <2>1 DEF PcInv
<1>9. PlaceInv'
  <2>1. UNCHANGED <<content, ino, committed, saved>>
    BY <1>2 DEF Kept, fs
  <2> QED
    BY <1>3, <1>7, <2>1, PlaceStep DEF PlaceInv
<1>10. TypeOK'
  <2>1. UNCHANGED <<fs, ino, pending, committed, saved, sent, origin, first, loss>>
        /\ UNCHANGED <<ceiling, truncates, expires, crashes>>
    BY <1>2 DEF Kept, caps
  <2>2. /\ ino' \in 0..Len(content) /\ pending' \in Seq(Inodes) /\ committed' \in Pos
        /\ saved' \in Pos /\ sent' \subseteq Nat /\ origin' \in Int /\ first' \in Int
    BY <2>1, TailTyped
  <2>3. crashes' \in Nat /\ loss' \in {"none", "warned", "error"}
    BY <2>1 DEF TypeOK
  <2>4. pc' \in {"down", "save", "poll", "stat", "rest", "next", "last"}
    BY <1>7
  <2> QED
    BY <1>1, <1>7, <2>1, <2>2, <2>3, <2>4, TailTypes
<1> QED
  BY <1>8, <1>9, <1>10

LEMMA OpenTypes ==
  ASSUME Types, PollOpen
  PROVE  Types'
<1> USE DEF Types
<1>1. /\ pc' \in {"last", "poll"} /\ (pc' = "last" => open')
      /\ loss' \in {loss, "error"}
      /\ UNCHANGED <<fs, caps, got, track, sent, lives, origin, first>>
      /\ ~open
  BY OpenFacts
<1>2. /\ pending' \in Seq(Inodes)
      /\ \/ open' = TRUE /\ ino' \in Inodes /\ off' = 0
         \/ UNCHANGED <<open, ino, off>>
  <2>1. \A k \in 1..Len(pending) : pending[k] \in Inodes
    BY TailTyped
  <2>2. path # None => path \in Inodes
    BY FilesTyped
  <2>3. \/ /\ pending' \in Seq(Inodes) \/ pending' = << >>
           /\ open' = TRUE /\ off' = 0 /\ ((ino' = path /\ path # None) \/ \E k \in 1..Len(pending) : ino' = pending[k])
        \/ pending' = << >> /\ UNCHANGED <<open, ino, off>>
    BY OpenFacts
  <2> QED
    BY <2>1, <2>2, <2>3, EmptySeq
<1>3. ino' \in 0..Len(content) /\ off' \in Nat /\ open' \in BOOLEAN /\ (ino' = None => off' = 0)
      /\ (open' => ino' # None)
  <2>1. CASE open' = TRUE /\ ino' \in Inodes /\ off' = 0
    <3>1. ino' \in 0..Len(content) /\ ino' # None
      BY <2>1, FilesTyped DEF Inodes, None
    <3> QED
      BY <2>1, <3>1
  <2>2. CASE UNCHANGED <<open, ino, off>>
    BY <2>2, <1>1, TailTyped DEF PlaceInv
  <2> QED
    BY <1>2, <2>1, <2>2
<1>4. UNCHANGED <<fs, ceiling, truncates, expires, crashes, got, trail, committed, saved, sent,
                  lives, origin, first>>
  BY <1>1 DEF caps, track
<1>5. TypeOK'
  <2>1. /\ crashes' \in Nat /\ got' \in 0..BatchLines /\ trail' \in Seq(Entry)
        /\ committed' \in Pos /\ saved' \in Pos /\ sent' \subseteq Nat /\ lives' \in Seq(Nat)
        /\ origin' \in Int /\ first' \in Int
    BY <1>4, TailTyped, FilesTyped
  <2>2. loss' \in {"none", "warned", "error"}
    BY <1>1 DEF TypeOK
  <2>3. pc' \in {"down", "save", "poll", "stat", "rest", "next", "last"}
    BY <1>1
  <2> QED
    BY <1>2, <1>3, <1>4, <2>1, <2>2, <2>3, TailTypes
<1>6. PcInv'
  BY <1>1, <1>3 DEF PcInv
<1>7. PlaceInv'
  <2>1. UNCHANGED content
    BY <1>4 DEF fs
  <2> QED
    BY <1>3, <1>4, <2>1, PlaceStep DEF PlaceInv
<1> QED
  BY <1>5, <1>6, <1>7

LEMMA SettleFacts ==
  ASSUME Types, Settle
  PROVE  /\ trail # << >> /\ Len(trail) > 0 /\ 1 \in 1..Len(trail)
         /\ committed' = [ino |-> trail[1].ino, off |-> trail[1].off]
         /\ sent' = sent \cup ({trail[1].line} \ {None})
         /\ trail' \in Seq(Entry) /\ Len(trail') = Len(trail) - 1
         /\ \A k \in 1..Len(trail') : trail'[k] = trail[k + 1] /\ k + 1 \in 1..Len(trail)
         /\ pc = "poll" /\ UNCHANGED <<fs, caps, pc, tail, saved, lives, origin, first, loss>>
<1>1. trail \in Seq(Entry) /\ trail # << >> /\ Len(trail) \in Nat
  BY TailTyped DEF Settle, Types
<1>2. Len(trail) > 0 /\ Head(trail) = trail[1] /\ 1 \in 1..Len(trail)
  BY <1>1, EmptySeq
<1>3. /\ Tail(trail) \in Seq(Entry) /\ Len(Tail(trail)) = Len(trail) - 1
      /\ \A i \in 1 .. Len(Tail(trail)) : Tail(trail)[i] = trail[i+1]
  BY <1>1, HeadTailProperties
<1>4. \A k \in 1..(Len(trail) - 1) : k + 1 \in 1..Len(trail)
  BY <1>1
<1> QED
  BY <1>1, <1>2, <1>3, <1>4 DEF Settle

LEMMA SettleTypes ==
  ASSUME Types, Settle
  PROVE  Types'
<1> USE DEF Types
<1>1. /\ trail[1].ino \in Inodes /\ trail[1].ino \in Nat /\ trail[1].off \in Nat /\ trail[1].line \in Nat
      /\ trail[1].ino \in 0..Len(content) /\ trail[1].ino # None
  <2>1. 1 \in 1..Len(trail) /\ 1 \in DOMAIN trail
    BY SettleFacts, TailTyped
  <2>2. trail[1].ino \in Inodes /\ trail[1].off \in Nat /\ trail[1].line \in Nat
    BY <2>1, TailTyped DEF PlaceInv
  <2> QED
    BY <2>2, FilesTyped DEF Inodes, None
<1>2. /\ committed' = [ino |-> trail[1].ino, off |-> trail[1].off]
      /\ sent' = sent \cup ({trail[1].line} \ {None})
      /\ trail' \in Seq(Entry)
      /\ \A k \in 1..Len(trail') : trail'[k] = trail[k + 1] /\ k + 1 \in 1..Len(trail)
      /\ pc = "poll" /\ UNCHANGED <<fs, caps, pc, tail, saved, lives, origin, first, loss>>
  BY SettleFacts
<1>3. committed' \in Pos /\ committed'.ino = trail[1].ino
  BY <1>1, <1>2 DEF Pos
<1>4. \A k \in DOMAIN trail' : trail'[k].ino \in Inodes
  <2>1. DOMAIN trail' = 1..Len(trail')
    BY <1>2, LenProperties
  <2>2. \A k \in 1..Len(trail) : trail[k].ino \in Inodes
    BY TailTyped DEF PlaceInv
  <2> QED
    BY <1>2, <2>1, <2>2
<1>5. UNCHANGED <<ceiling, truncates, expires, crashes, open, ino, off, pending, got>>
  BY <1>2 DEF caps, tail
<1>6. TypeOK'
  <2>1. sent' \subseteq Nat
    BY <1>1, <1>2, TailTyped
  <2>2. /\ crashes' \in Nat /\ got' \in 0..BatchLines /\ open' \in BOOLEAN
        /\ ino' \in 0..Len(content) /\ off' \in Nat /\ pending' \in Seq(Inodes)
        /\ saved' \in Pos /\ lives' \in Seq(Nat) /\ origin' \in Int /\ first' \in Int
    BY <1>2, <1>5, TailTyped, FilesTyped
  <2>3. loss' \in {"none", "warned", "error"}
        /\ pc' \in {"down", "save", "poll", "stat", "rest", "next", "last"}
    BY <1>2 DEF TypeOK
  <2> QED
    BY <1>2, <1>3, <1>5, <2>1, <2>2, <2>3, TailTypes
<1>7. PcInv'
  BY <1>2, <1>5 DEF PcInv
<1>8. PlaceInv'
  <2>1. UNCHANGED content
    BY <1>2 DEF fs
  <2>2. {saved'.ino, committed'.ino} \subseteq 0..Len(content) /\ committed'.ino # None
    BY <1>1, <1>2, <1>3 DEF PlaceInv
  <2> QED
    BY <1>2, <1>4, <1>5, <2>1, <2>2, PlaceStep DEF PlaceInv
<1> QED
  BY <1>6, <1>7, <1>8

LEMMA CheckpointTypes ==
  ASSUME Types, Checkpoint
  PROVE  Types'
<1> USE DEF Types
<1>1. /\ pc' = "poll" /\ pc \in {"poll", "save"} /\ saved' \in {saved, committed}
      /\ UNCHANGED <<fs, caps, tail, trail, committed, hist>>
  BY DEF Checkpoint
<1>2. UNCHANGED <<ceiling, truncates, expires, crashes, open, ino, off, pending, got,
                  sent, lives, origin, first, loss>>
  BY <1>1 DEF caps, tail, hist
<1>3. TypeOK'
  <2>1. /\ crashes' \in Nat /\ got' \in 0..BatchLines /\ open' \in BOOLEAN
        /\ ino' \in 0..Len(content) /\ off' \in Nat /\ pending' \in Seq(Inodes)
        /\ lives' \in Seq(Nat) /\ origin' \in Int /\ first' \in Int
        /\ trail' \in Seq(Entry) /\ committed' \in Pos /\ saved' \in Pos /\ sent' \subseteq Nat
    BY <1>1, <1>2, TailTyped, FilesTyped
  <2>2. loss' \in {"none", "warned", "error"}
        /\ pc' \in {"down", "save", "poll", "stat", "rest", "next", "last"}
    BY <1>1, <1>2 DEF TypeOK
  <2> QED
    BY <1>1, <1>2, <2>1, <2>2, TailTypes
<1>4. PcInv'
  BY <1>1, <1>2 DEF PcInv
<1>5. PlaceInv'
  <2>1. UNCHANGED content
    BY <1>1 DEF fs
  <2>2. {saved.ino, committed.ino} \subseteq 0..Len(content)
        /\ (saved.ino = None => saved.off = 0) /\ (committed.ino = None => committed.off = 0)
        /\ (ino = None => off = 0) /\ \A k \in DOMAIN trail : trail[k].ino \in Inodes
    BY DEF PlaceInv
  <2> QED
    BY <1>1, <1>2, <2>1, <2>2, PlaceStep
<1> QED
  BY <1>3, <1>4, <1>5

LEMMA CrashTypes ==
  ASSUME Types, Crash
  PROVE  Types'
<1> USE DEF Types
<1>1. /\ crashes' = crashes + 1 /\ pc' = "down" /\ open' = FALSE /\ trail' = << >>
      /\ UNCHANGED <<fs, ceiling, truncates, expires, ino, off, pending, got, committed, saved, hist>>
  BY DEF Crash
<1>2. UNCHANGED <<sent, lives, origin, first, loss>>
  BY <1>1 DEF hist
<1>3. TypeOK'
  <2>1. /\ crashes' \in Nat /\ got' \in 0..BatchLines /\ open' \in BOOLEAN
        /\ ino' \in 0..Len(content) /\ off' \in Nat /\ pending' \in Seq(Inodes)
        /\ lives' \in Seq(Nat) /\ origin' \in Int /\ first' \in Int
        /\ committed' \in Pos /\ saved' \in Pos /\ sent' \subseteq Nat
    <3>1. crashes' \in Nat
      BY <1>1, FilesTyped
    <3> QED
      BY <1>1, <1>2, <3>1, TailTyped
  <2>2. loss' \in {"none", "warned", "error"}
        /\ pc' \in {"down", "save", "poll", "stat", "rest", "next", "last"}
    BY <1>1, <1>2 DEF TypeOK
  <2>3. trail' \in Seq(Entry)
    BY <1>1, EmptySeq
  <2> QED
    BY <1>1, <1>2, <2>1, <2>2, <2>3, TailTypes
<1>4. PcInv'
  BY <1>1 DEF PcInv
<1>5. PlaceInv'
  <2>1. UNCHANGED content
    BY <1>1 DEF fs
  <2>2. {saved.ino, committed.ino} \subseteq 0..Len(content)
        /\ (saved.ino = None => saved.off = 0) /\ (committed.ino = None => committed.off = 0)
        /\ (ino = None => off = 0)
    BY DEF PlaceInv
  <2> QED
    BY <1>1, <2>1, <2>2, PlaceStep
<1> QED
  BY <1>3, <1>4, <1>5

\* Before it is counted from is a line there was.
LEMMA BeforeType ==
  ASSUME TypeOK
  PROVE  Before \in Nat
<1>1. path # None => content[path].before \in Nat
  BY FilesTyped, FileType
<1> QED
  BY <1>1, FilesTyped DEF Before

LEMMA StartTypes ==
  ASSUME Types, Start
  PROVE  Types'
<1> USE DEF Types
<1>1. /\ pc' = "save" /\ got' = 0 /\ trail' = << >> /\ lives' = << >>
      /\ origin' \in {origin, Before} /\ first' \in {first, Before}
      /\ UNCHANGED <<fs, caps, saved, sent>>
      /\ StartKind /\ loss' \in {loss, "warned", "error"}
  BY StartKinds
<1>2. path # None => path \in Inodes /\ Size(path) \in Nat
  BY FilesTyped, FileType
<1>3. saved.ino \in rotated => saved.ino \in Inodes
  BY FilesTyped
<1>4. saved.off \in Nat
  BY TailTyped
<1>5. \/ Waits
      \/ \E i \in Inodes, o \in Nat, owed \in Seq(Inodes) : Opens(i, o, owed)
  <2>1. CASE Waits
    BY <2>1
  <2>2. CASE path # None /\ Opens(path, IF StartFrom = "end" THEN Size(path) ELSE 0, << >>)
    <3>1. (IF StartFrom = "end" THEN Size(path) ELSE 0) \in Nat
      BY <2>2, <1>2
    <3> QED
      BY <2>2, <3>1, <1>2, EmptySeq
  <2>3. CASE path # None /\ (Opens(path, saved.off, << >>) \/ Opens(path, 0, << >>))
    <3>1. 0 \in Nat /\ << >> \in Seq(Inodes)
      BY EmptySeq
    <3> QED
      BY <2>3, <3>1, <1>2, <1>4
  <2>4. CASE saved.ino \in rotated /\
             \E q \in InMtimeOrder(Later) :
               Opens(saved.ino, saved.off, q \o (IF path = None THEN << >> ELSE <<path>>))
    <3>1. PICK q \in InMtimeOrder(Later) :
               Opens(saved.ino, saved.off, q \o (IF path = None THEN << >> ELSE <<path>>))
      BY <2>4
    <3>2. q \o (IF path = None THEN << >> ELSE <<path>>) \in Seq(Inodes)
      BY OwedFacts
    <3> QED
      BY <2>4, <3>1, <3>2, <1>3, <1>4
  <2> QED
    BY <1>1, <2>1, <2>2, <2>3, <2>4 DEF StartKind
<1>6. /\ open' \in BOOLEAN /\ ino' \in 0..Len(content) /\ off' \in Nat /\ pending' \in Seq(Inodes)
      /\ committed' \in Pos /\ committed'.ino \in 0..Len(content)
      /\ committed'.ino = None => committed'.off = 0
      /\ ino' = None => off' = 0
      /\ open' => ino' # None
  <2>1. CASE Waits
    <3>1. 0 \in 0..Len(content) /\ NoPos \in Pos /\ NoPos.ino = 0 /\ NoPos.off = 0
      BY FilesTyped DEF NoPos, Pos, None
    <3> QED
      BY <2>1, <3>1, EmptySeq DEF Waits, None
  <2>2. CASE \E i \in Inodes, o \in Nat, owed \in Seq(Inodes) : Opens(i, o, owed)
    <3>1. PICK i \in Inodes, o \in Nat, owed \in Seq(Inodes) : Opens(i, o, owed)
      BY <2>2
    <3>2. i \in 0..Len(content) /\ i # None /\ i \in Nat
      BY FilesTyped DEF Inodes, None
    <3>3. [ino |-> i, off |-> o] \in Pos
      BY <3>2 DEF Pos
    <3> QED
      BY <3>1, <3>2, <3>3 DEF Opens
  <2> QED
    BY <1>5, <2>1, <2>2
<1>7. UNCHANGED <<ceiling, truncates, expires, crashes>>
  BY <1>1 DEF caps
<1>8. TypeOK'
  <2>1. crashes' \in Nat /\ saved' \in Pos /\ sent' \subseteq Nat
    BY <1>1, <1>7, TailTyped, FilesTyped
  <2>2. origin' \in Int /\ first' \in Int
    BY <1>1, TailTyped, BeforeType
  <2>3. got' \in 0..BatchLines
    BY <1>1, TailTyped
  <2>4. trail' \in Seq(Entry) /\ lives' \in Seq(Nat)
    BY <1>1, EmptySeq
  <2>5. loss' \in {"none", "warned", "error"}
        /\ pc' \in {"down", "save", "poll", "stat", "rest", "next", "last"}
    BY <1>1 DEF TypeOK
  <2> QED
    BY <1>1, <1>6, <1>7, <2>1, <2>2, <2>3, <2>4, <2>5, TailTypes
<1>9. PcInv'
  BY <1>1, <1>6 DEF PcInv
<1>10. PlaceInv'
  <2>1. UNCHANGED content
    BY <1>1 DEF fs
  <2>2. saved.ino \in 0..Len(content) /\ (saved.ino = None => saved.off = 0)
    BY DEF PlaceInv
  <2> QED
    BY <1>1, <1>6, <2>1, <2>2, PlaceStep
<1> QED
  BY <1>8, <1>9, <1>10

LEMMA TypeStep ==
  ASSUME Types, [Next]_vars
  PROVE  Types'
<1>1. CASE Next
  BY <1>1, SourceTypes, PollTypes, OpenTypes, SettleTypes, CheckpointTypes, CrashTypes, StartTypes
  DEF Next, Poll, Source
<1>2. CASE UNCHANGED vars
  BY <1>2 DEF vars, fs, caps, tail, track, hist, Types, TypeOK, PcInv, PlaceInv, Inodes
<1> QED
  BY <1>1, <1>2

LEMMA TypeInit ==
  ASSUME Init
  PROVE  Types
<1>1. content = <<[before |-> 0, size |-> 0]>> /\ [before |-> 0, size |-> 0] \in File
  BY DEF Init, File
<1>2. content \in Seq(File) /\ Len(content) = 1
  BY <1>1
<1>3. mtime \in Seq(Nat) /\ Len(mtime) = 1
  BY DEF Init
<1>4. NoPos \in Pos /\ NoPos.ino = 0 /\ NoPos.off = 0
  BY DEF NoPos, Pos, None
<1>5. << >> \in Seq(1..Len(content)) /\ << >> \in Seq([ino : Nat, off : Nat, line : Nat])
      /\ << >> \in Seq(Nat)
  BY EmptySeq
<1>6. 0 \in 0..BatchLines
  BY SizeAssumption
<1>7. TypeOK
  <2>1. /\ content \in Seq(File) /\ mtime \in Seq(Nat) /\ Len(mtime) = Len(content)
        /\ path \in 0..Len(content) /\ rotated \subseteq 1..Len(content)
    BY <1>2, <1>3 DEF Init
  <2>2. {line, clock, ceiling, truncates, expires, crashes} \subseteq Nat
    BY DEF Init
  <2>3. /\ pc \in {"down", "save", "poll", "stat", "rest", "next", "last"}
        /\ open \in BOOLEAN /\ ino \in 0..Len(content) /\ off \in Nat /\ got \in 0..BatchLines
    <3>1. 0 \in 0..Len(content) /\ 0 \in Nat /\ FALSE \in BOOLEAN
      BY <1>2
    <3>2. pc = "down" /\ open = FALSE /\ ino = 0 /\ off = 0 /\ got = 0
      BY DEF Init, None
    <3> QED
      BY <3>1, <3>2, <1>6
  <2>4. /\ pending \in Seq(1..Len(content)) /\ trail \in Seq([ino : Nat, off : Nat, line : Nat])
        /\ lives \in Seq(Nat)
    BY <1>5 DEF Init
  <2>5. /\ committed \in Pos /\ saved \in Pos /\ sent \subseteq Nat
        /\ {origin, first} \subseteq Int /\ loss \in {"none", "warned", "error"}
    BY <1>4 DEF Init
  <2> QED
    BY <2>1, <2>2, <2>3, <2>4, <2>5 DEF TypeOK
<1>8. PcInv
  BY DEF Init, PcInv
<1>9. PlaceInv
  BY <1>2, <1>4 DEF Init, PlaceInv, None
<1> QED
  BY <1>7, <1>8, <1>9 DEF Types

LEMMA TypesAlways == Spec => []Types
BY TypeInit, TypeStep, PTL DEF Spec

\* Every variable keeps its type, whatever is done to the files and whenever the
\* forwarder goes down: in particular a poll of poll() never returns more than
\* batch_lines lines before it looks at the path.
THEOREM TypeCorrect == Spec => []TypeOK
<1>1. Types => TypeOK
  BY DEF Types
<1> QED
  BY <1>1, TypesAlways, PTL

-----------------------------------------------------------------------------
(* The files: only the youngest can be at the path, and the lines of an    *)
(* older one come before those of a younger one.                           *)

\* The last line begun in a file, and the last one that was written to its end.
Begun(i) == content[i].before + Ended(Size(i) + 1)
Whole(i) == content[i].before + Ended(Size(i))

FileInv ==
  /\ path # None => path = Len(content) /\ Begun(path) = line
  /\ path \notin rotated
  /\ \A i \in Inodes : Begun(i) <= line /\ mtime[i] <= clock
  /\ \A i, j \in Inodes : i < j =>
       /\ Begun(i) <= content[j].before /\ mtime[i] <= mtime[j]
       /\ Size(j) > 0 => mtime[i] < mtime[j]

LEMMA LineFacts ==
  ASSUME content \in Seq(File), NEW i \in Inodes
  PROVE  /\ Begun(i) \in Nat /\ Whole(i) \in Nat
         /\ content[i].before \in Nat /\ Size(i) \in Nat /\ Ended(Size(i)) \in Nat
         /\ content[i].before <= Whole(i)
         /\ Partial(i) => Begun(i) = Whole(i) + 1
         /\ ~Partial(i) => Begun(i) = Whole(i)
<1>1. PICK b \in Nat : b = content[i].before
  BY FileType
<1>2. PICK s \in Nat : s = Size(i)
  BY FileType
<1>3. PICK e \in Nat : e = Ended(s)
  BY Halves
<1>4. Ended(s + 1) = IF Inside(s) THEN e + 1 ELSE e
  BY <1>3, HalfOf
<1>5. Whole(i) = b + e /\ Begun(i) = b + (IF Inside(s) THEN e + 1 ELSE e)
  BY <1>1, <1>2, <1>3, <1>4 DEF Whole, Begun
<1>6. b + e \in Nat /\ b + (e + 1) \in Nat /\ b <= b + e /\ b + (e + 1) = b + e + 1
  OBVIOUS
<1>7. Partial(i) = Inside(s)
  BY <1>2 DEF Partial
<1> QED
  BY <1>1, <1>2, <1>3, <1>5, <1>6, <1>7

LEMMA WriteLines ==
  ASSUME TypeOK, Write
  PROVE  /\ path \in Inodes
         /\ content'[path].before = content[path].before
         /\ Whole(path)' = IF Partial(path) THEN Whole(path) + 1 ELSE Whole(path)
         /\ Begun(path)' = IF Partial(path) THEN Begun(path) ELSE Begun(path) + 1
         /\ line' = IF Partial(path) THEN line ELSE line + 1
         /\ Partial(path)' = ~Partial(path)
<1>0. path \in Inodes /\ path' = path /\ content'[path].before = content[path].before
      /\ Size(path)' = Size(path) + 1
  BY WriteFacts DEF Write
<1>1. PICK b \in Nat : b = content[path].before
  BY <1>0, FileType, FilesTyped
<1>2. PICK s \in Nat : s = Size(path)
  BY <1>0, FileType, FilesTyped
<1>3. PICK e \in Nat : e = Ended(s)
  BY Halves
<1>4. /\ Ended(s + 1) = IF Inside(s) THEN e + 1 ELSE e
      /\ Inside(s + 1) = ~Inside(s)
  BY <1>3, HalfOf
<1>5. s + 1 \in Nat
  OBVIOUS
<1>6. Ended((s + 1) + 1) = IF Inside(s + 1) THEN Ended(s + 1) + 1 ELSE Ended(s + 1)
  BY <1>5, HalfOf
<1>7. Ended((s + 1) + 1) = e + 1
  BY <1>4, <1>6
<1>8. /\ Whole(path) = b + e /\ Begun(path) = b + (IF Inside(s) THEN e + 1 ELSE e)
      /\ Whole(path)' = b + (IF Inside(s) THEN e + 1 ELSE e) /\ Begun(path)' = b + (e + 1)
      /\ Partial(path) = Inside(s) /\ Partial(path)' = Inside(s + 1)
  BY <1>0, <1>1, <1>2, <1>3, <1>4, <1>7 DEF Whole, Begun, Partial
<1>9. b + (e + 1) = b + e + 1
  OBVIOUS
<1>10. line' = IF Partial(path) THEN line ELSE line + 1
  BY DEF Write
<1> QED
  BY <1>0, <1>4, <1>8, <1>9, <1>10

LEMMA FileStep ==
  ASSUME TypeOK, FileInv, [Next]_vars
  PROVE  FileInv'
<1>0. /\ content \in Seq(File) /\ Len(content) \in Nat /\ line \in Nat /\ clock \in Nat
      /\ path # None => path \in Inodes
      /\ \A i \in Inodes : mtime[i] \in Nat /\ i \in Nat /\ i <= Len(content) /\ i # None
  <2>1. \A i \in Inodes : mtime[i] \in Nat
    BY FilesTyped, ElementOfSeq DEF Inodes
  <2>2. \A i \in Inodes : i \in Nat /\ i <= Len(content) /\ i # None
    BY FilesTyped DEF Inodes, None
  <2> QED
    BY <2>1, <2>2, FilesTyped
<1>1. \A i \in Inodes : /\ Begun(i) \in Nat /\ content[i].before \in Nat /\ Size(i) \in Nat
                       /\ content[i].before <= Begun(i)
  <2>1. \A m, n \in Nat : m <= n => m <= n + 1
    OBVIOUS
  <2> QED
    BY <1>0, <2>1, LineFacts
<1>2. CASE Write
  <2>0. path \in Inodes /\ path # None /\ UNCHANGED <<path, rotated>> /\ Inodes' = Inodes
        /\ clock' = clock + 1
    BY <1>2, WriteFacts DEF Write, Inodes
  <2>1. /\ content'[path].before = content[path].before /\ mtime'[path] = clock + 1
        /\ Begun(path)' = IF Partial(path) THEN Begun(path) ELSE Begun(path) + 1
        /\ line' = IF Partial(path) THEN line ELSE line + 1
        /\ \A i \in Inodes : i # path => content'[i] = content[i] /\ mtime'[i] = mtime[i]
    BY <1>2, <2>0, WriteFacts, WriteLines
  <2>2. path = Len(content) /\ Begun(path) = line
    BY <2>0 DEF FileInv
  <2>3. Begun(path)' = line' /\ line' >= line /\ line' \in Nat
    BY <1>0, <2>1, <2>2
  <2>4. \A i \in Inodes : i # path => Begun(i)' = Begun(i) /\ Size(i)' = Size(i) /\ i < path
    BY <1>0, <2>0, <2>1, <2>2 DEF Begun, Size
  <2>5. \A i \in Inodes : Begun(i)' <= line' /\ mtime'[i] <= clock'
    <3> SUFFICES ASSUME NEW i \in Inodes PROVE Begun(i)' <= line' /\ mtime'[i] <= clock'
      OBVIOUS
    <3>1. CASE i = path
      BY <3>1, <2>0, <2>1, <2>3, <1>0
    <3>2. CASE i # path
      <4>1. Begun(i)' = Begun(i) /\ mtime'[i] = mtime[i] /\ Begun(i) <= line /\ mtime[i] <= clock
        BY <3>2, <2>1, <2>4 DEF FileInv
      <4> QED
        BY <4>1, <1>0, <1>1, <2>0, <2>3
    <3> QED
      BY <3>1, <3>2
  <2>6. ASSUME NEW i \in Inodes, NEW j \in Inodes, i < j
        PROVE  /\ Begun(i)' <= content'[j].before /\ mtime'[i] <= mtime'[j]
               /\ Size(j)' > 0 => mtime'[i] < mtime'[j]
    <3>1. i # path
      BY <2>2, <2>6, <1>0
    <3>2. /\ Begun(i)' = Begun(i) /\ mtime'[i] = mtime[i]
          /\ Begun(i) <= content[j].before /\ mtime[i] <= mtime[j]
          /\ Size(j) > 0 => mtime[i] < mtime[j]
      BY <3>1, <2>1, <2>4, <2>6 DEF FileInv
    <3>3. CASE j = path
      <4>1. mtime[i] <= clock
        BY DEF FileInv
      <4> QED
        BY <3>2, <3>3, <4>1, <2>1, <1>0
    <3>4. CASE j # path
      BY <3>2, <3>4, <2>1, <2>4
    <3> QED
      BY <3>3, <3>4
  <2> QED
    BY <2>0, <2>2, <2>3, <2>5, <2>6, WriteFacts, <1>2 DEF FileInv
<1>3. CASE Create
  <2>0. /\ path = None /\ path' = Len(content) + 1 /\ Len(content') = Len(content) + 1
        /\ content'[path'].before = line /\ content'[path'].size = 0 /\ mtime'[path'] = clock
        /\ \A i \in Inodes : content'[i] = content[i] /\ mtime'[i] = mtime[i]
        /\ UNCHANGED <<line, clock, rotated>>
    BY <1>3, CreateFacts DEF Create
  <2>1. \A i \in Inodes' : i \in Inodes \/ i = path'
    BY <2>0, <1>0 DEF Inodes
  <2>2. \A i \in Inodes : Begun(i)' = Begun(i) /\ Size(i)' = Size(i) /\ i < path'
    BY <2>0, <1>0 DEF Begun, Size
  <2>3. content'[path'].before + Ended(content'[path'].size + 1) = line
    <3>1. Ended(0 + 1) = 0
      BY DEF Ended
    <3> QED
      BY <2>0, <3>1, <1>0
  <2>4. path' # None /\ path' \notin rotated'
    BY <2>0, <1>0, FilesTyped DEF Inodes, None
  <2>5. ASSUME NEW i \in Inodes'
        PROVE  Begun(i)' <= line' /\ mtime'[i] <= clock'
    <3>1. CASE i = path'
      BY <3>1, <2>0, <2>3, <1>0 DEF Begun, Size
    <3>2. CASE i \in Inodes
      BY <3>2, <2>0, <2>2 DEF FileInv
    <3> QED
      BY <3>1, <3>2, <2>1
  <2>6. ASSUME NEW i \in Inodes', NEW j \in Inodes', i < j
        PROVE  /\ Begun(i)' <= content'[j].before /\ mtime'[i] <= mtime'[j]
               /\ Size(j)' > 0 => mtime'[i] < mtime'[j]
    <3>1. i \in Inodes
      <4>1. ~(path' < j)
        BY <2>0, <2>1, <1>0
      <4> QED
        BY <4>1, <2>1, <2>6
    <3>2. CASE j = path'
      <4>1. Begun(i) <= line /\ mtime[i] <= clock
        BY <3>1 DEF FileInv
      <4> QED
        BY <3>1, <3>2, <4>1, <2>0, <2>2 DEF Size
    <3>3. CASE j \in Inodes
      BY <3>1, <3>3, <2>0, <2>2, <2>6 DEF FileInv
    <3> QED
      BY <3>2, <3>3, <2>1
  <2>7. path' # None => path' = Len(content') /\ (content'[path'].before + Ended(content'[path'].size + 1)) = line'
    BY <2>0, <2>3
  <2> QED
    BY <2>4, <2>5, <2>6, <2>7 DEF FileInv, Begun, Size
<1>4. CASE Truncate
  <2>0. path \in Inodes /\ path # None /\ UNCHANGED <<path, rotated, line>> /\ Inodes' = Inodes
        /\ clock' = clock + 1
    BY <1>4, TruncateFacts DEF Truncate, Inodes
  <2>1. /\ content'[path].before = line /\ mtime'[path] = clock + 1 /\ Size(path)' = 0
        /\ \A i \in Inodes : i # path => content'[i] = content[i] /\ mtime'[i] = mtime[i]
    BY <1>4, <2>0, TruncateFacts
  <2>2. path = Len(content)
    BY <2>0 DEF FileInv
  <2>3. Begun(path)' = line
    <3>1. Ended(0 + 1) = 0
      BY DEF Ended
    <3> QED
      BY <2>0, <2>1, <3>1, <1>0 DEF Begun
  <2>4. \A i \in Inodes : i # path => Begun(i)' = Begun(i) /\ Size(i)' = Size(i) /\ i < path
    BY <1>0, <2>0, <2>1, <2>2 DEF Begun, Size
  <2>5. \A i \in Inodes : Begun(i)' <= line' /\ mtime'[i] <= clock'
    <3> SUFFICES ASSUME NEW i \in Inodes PROVE Begun(i)' <= line' /\ mtime'[i] <= clock'
      OBVIOUS
    <3>1. CASE i = path
      BY <3>1, <2>0, <2>1, <2>3, <1>0
    <3>2. CASE i # path
      <4>1. Begun(i)' = Begun(i) /\ mtime'[i] = mtime[i] /\ Begun(i) <= line /\ mtime[i] <= clock
        BY <3>2, <2>1, <2>4 DEF FileInv
      <4> QED
        BY <4>1, <1>0, <2>0
    <3> QED
      BY <3>1, <3>2
  <2>6. ASSUME NEW i \in Inodes, NEW j \in Inodes, i < j
        PROVE  /\ Begun(i)' <= content'[j].before /\ mtime'[i] <= mtime'[j]
               /\ Size(j)' > 0 => mtime'[i] < mtime'[j]
    <3>1. i # path
      BY <2>2, <2>6, <1>0
    <3>2. /\ Begun(i)' = Begun(i) /\ mtime'[i] = mtime[i]
          /\ Begun(i) <= content[j].before /\ mtime[i] <= mtime[j]
          /\ Size(j) > 0 => mtime[i] < mtime[j]
      BY <3>1, <2>1, <2>4, <2>6 DEF FileInv
    <3>3. CASE j = path
      <4>1. mtime[i] <= clock /\ Begun(i) <= line
        BY DEF FileInv
      <4> QED
        BY <3>2, <3>3, <4>1, <2>1, <1>0
    <3>4. CASE j # path
      BY <3>2, <3>4, <2>1, <2>4
    <3> QED
      BY <3>3, <3>4
  <2> QED
    BY <2>0, <2>2, <2>3, <2>5, <2>6, TruncateFacts, <1>4 DEF FileInv
<1>5. CASE Rotate \/ Delete
  <2>1. /\ path # None /\ path' = None /\ rotated' \subseteq rotated \cup {path}
        /\ UNCHANGED <<content, mtime, line, clock>>
    BY <1>5 DEF Rotate, Delete, MayVanish
  <2>2. None \notin rotated'
    BY <2>1, FilesTyped DEF Inodes, None
  <2> QED
    BY <2>1, <2>2 DEF FileInv, Begun, Size, Inodes
<1>6. CASE \E i \in rotated : Expire(i)
  <2>1. rotated' \subseteq rotated /\ UNCHANGED <<content, mtime, path, line, clock>>
    BY <1>6 DEF Expire
  <2> QED
    BY <2>1 DEF FileInv, Begun, Size, Inodes
<1>7. CASE UNCHANGED fs
  BY <1>7 DEF fs, FileInv, Begun, Size, Inodes
<1>8. [Next]_vars => \/ Write \/ Create \/ Truncate \/ Rotate \/ Delete
                     \/ (\E i \in rotated : Expire(i)) \/ UNCHANGED fs
  <2>1. PollOpen \/ Settle \/ Checkpoint \/ Crash \/ Start \/ PollRead \/ PollStat
          \/ PollRest \/ PollLast => UNCHANGED fs
    BY DEF PollOpen, Settle, Checkpoint, Crash, Start, PollRead, PollStat, PollRest, PollLast
  <2> QED
    BY <2>1 DEF Next, Poll, vars
<1> QED
  BY <1>2, <1>3, <1>4, <1>5, <1>6, <1>7, <1>8

-----------------------------------------------------------------------------
(* What the tail has to read next: files younger than the one it is in,    *)
(* oldest first.                                                           *)

QueueInv ==
  /\ \A k \in 1..Len(pending) : pending[k] > ino
  /\ \A j, k \in 1..Len(pending) : j < k => pending[j] < pending[k]
  /\ pc # "down" /\ path # None /\ path = ino => open /\ pc # "rest"
  /\ pc # "down" /\ ino = None => lives = << >>

\* Order of mtime is order of creation.
LEMMA OwedOrder ==
  ASSUME TypeOK, FileInv, saved.ino \in rotated, NEW q \in InMtimeOrder(Later),
         NEW owed, owed = q \o (IF path = None THEN << >> ELSE <<path>>)
  PROVE  /\ \A k \in 1..Len(owed) : owed[k] > saved.ino
         /\ \A j, k \in 1..Len(owed) : j < k => owed[j] < owed[k]
<1>0. /\ \A i \in Inodes : mtime[i] \in Nat /\ i \in Nat /\ i <= Len(content)
      /\ saved.ino \in Inodes /\ rotated \subseteq Inodes /\ Len(content) \in Nat
      /\ path # None => path \in Inodes /\ path = Len(content)
      /\ path \notin rotated
  <2>1. \A i \in Inodes : mtime[i] \in Nat
    BY FilesTyped, ElementOfSeq DEF Inodes
  <2>2. \A i \in Inodes : i \in Nat /\ i <= Len(content)
    BY FilesTyped DEF Inodes
  <2> QED
    BY <2>1, <2>2, FilesTyped DEF FileInv
<1>1. /\ Len(q) \in Nat
      /\ Len(owed) = IF path = None THEN Len(q) ELSE Len(q) + 1
      /\ \A k \in 1..Len(q) : owed[k] = q[k] /\ q[k] \in Later
      /\ path # None => owed[Len(q) + 1] = path
      /\ \A j, k \in 1..Len(q) : j < k =>
           mtime[q[j]] < mtime[q[k]] \/ (mtime[q[j]] = mtime[q[k]] /\ q[j] < q[k])
  BY OwedFacts
<1>2. \A i \in Later : i \in rotated /\ i \in Inodes /\ i # path /\ mtime[i] > mtime[saved.ino]
  BY <1>0 DEF Later
<1>3. \A i, j \in Inodes : mtime[i] < mtime[j] => i < j
  <2> SUFFICES ASSUME NEW i \in Inodes, NEW j \in Inodes, mtime[i] < mtime[j], ~(i < j)
               PROVE  FALSE
    OBVIOUS
  <2>1. i = j \/ j < i
    BY <1>0
  <2>2. j < i => mtime[j] <= mtime[i]
    BY DEF FileInv
  <2> QED
    BY <2>1, <2>2, <1>0
<1>4. \A k \in 1..Len(q) : q[k] > saved.ino /\ (path # None => q[k] < path)
  <2> SUFFICES ASSUME NEW k \in 1..Len(q)
               PROVE  q[k] > saved.ino /\ (path # None => q[k] < path)
    OBVIOUS
  <2>1. q[k] \in Inodes /\ q[k] # path /\ mtime[saved.ino] < mtime[q[k]]
    BY <1>0, <1>1, <1>2
  <2> QED
    BY <2>1, <1>0, <1>3
<1>5. \A j, k \in 1..Len(q) : j < k => q[j] < q[k]
  BY <1>1, <1>2, <1>3
<1>6. path # None => path > saved.ino
  BY <1>0
<1>7. \A k \in 1..Len(owed) : k \in 1..Len(q) \/ (path # None /\ k = Len(q) + 1)
  BY <1>1
<1>8. \A j, k \in 1..Len(owed) : j < k => j \in 1..Len(q)
  BY <1>1
<1>9. \A k \in 1..Len(owed) : owed[k] > saved.ino
  BY <1>1, <1>4, <1>6, <1>7
<1>10. \A j, k \in 1..Len(owed) : j < k => owed[j] < owed[k]
  BY <1>1, <1>4, <1>5, <1>7, <1>8
<1> QED
  BY <1>9, <1>10

LEMMA QueueStep ==
  ASSUME Types, FileInv, QueueInv, [Next]_vars
  PROVE  QueueInv'
<1>0. /\ TypeOK /\ ino \in Nat /\ ino \in 0..Len(content) /\ Len(content) \in Nat
      /\ Len(pending) \in Nat /\ \A k \in 1..Len(pending) : pending[k] \in Nat
      /\ path # None => path \in Inodes /\ path = Len(content) /\ path \in Nat
  <2>0. TypeOK
    BY DEF Types
  <2>1. Len(pending) \in Nat /\ \A k \in 1..Len(pending) : pending[k] \in Nat
    BY <2>0, TailTyped DEF Inodes
  <2>2. path # None => path \in Inodes /\ path = Len(content)
    BY <2>0, FilesTyped DEF FileInv
  <2>3. ino \in Nat /\ ino \in 0..Len(content) /\ Len(content) \in Nat
    BY <2>0, TailTyped, FilesTyped
  <2> QED
    BY <2>0, <2>1, <2>2, <2>3
<1>1. CASE Source
  <2>1. UNCHANGED <<pc, open, ino, pending, lives>>
    BY <1>0, <1>1, SourceFacts DEF tail, hist
  <2>2. path' \in {path, None} \/ (path = None /\ path' = Len(content) + 1)
    BY <1>1 DEF Source, Write, Create, Rotate, Delete, Truncate, Expire
  <2>3. path' # None /\ path' = ino => path' = path
    BY <1>0, <2>2
  <2> QED
    BY <2>1, <2>3 DEF QueueInv
<1>2. CASE PollRead \/ PollStat \/ PollRest \/ PollLast
  <2>1. PollKind /\ open
    <3>1. PollKind
      BY <1>2, PollKinds
    <3> QED
      BY <3>1 DEF PollKind
  <2>2. UNCHANGED <<ino, pending, path>>
    BY <2>1 DEF PollKind, Stays, Reads, Closes, Kept, fs
  <2>3. ino # None
    BY <2>1, OpenFile
  <2>4. path # None /\ path = ino => open' /\ pc' # "rest"
    <3>1. CASE Stays /\ open /\ pc = "stat" /\ (pc' = "poll" \/ (pc' = "rest" /\ path \notin {None, ino}))
      BY <3>1 DEF Stays
    <3>2. CASE open' = open /\ pc' \in {"poll", "stat"}
      BY <2>1, <3>2
    <3>3. CASE \E n \in Nat : Closes(n) /\ ((pc = "stat" /\ path = None) \/ pc = "rest")
      <4>1. pc = "rest" => path = None \/ path # ino
        BY DEF QueueInv
      <4> QED
        BY <3>3, <4>1
    <3>4. \/ Stays /\ open /\ pc = "stat" /\ (pc' = "poll" \/ (pc' = "rest" /\ path \notin {None, ino}))
          \/ open' = open /\ pc' \in {"poll", "stat"}
          \/ \E n \in Nat : Closes(n) /\ ((pc = "stat" /\ path = None) \/ pc = "rest")
      BY <2>1 DEF PollKind, Reads
    <3> QED
      BY <3>1, <3>2, <3>3, <3>4
  <2> QED
    BY <2>2, <2>3, <2>4 DEF QueueInv
<1>3. CASE PollOpen
  <2>0. /\ pc' \in {"last", "poll"} /\ UNCHANGED <<path, lives>> /\ pc # "down"
    <3>1. /\ pc' \in {"last", "poll"} /\ UNCHANGED <<fs, lives>> /\ pc \in {"next", "poll"}
      BY <1>3, OpenFacts
    <3> QED
      BY <3>1 DEF fs
  <2>1. ASSUME NEW k \in 1..Len(pending), open' = TRUE, ino' = pending[k],
               \/ pending' = << >> /\ pending[k] = path
               \/ /\ Len(pending') = Len(pending) - k
                  /\ \A j \in 1..Len(pending') : pending'[j] = pending[k + j]
        PROVE  QueueInv'
    <3>1. ino' # None
      <4>1. pending[k] > ino
        BY DEF QueueInv
      <4> QED
        BY <1>0, <2>1, <4>1 DEF None
    <3>2. CASE pending' = << >>
      <4>1. Len(pending') = 0
        BY <3>2
      <4> QED
        BY <4>1, <3>1, <2>0, <2>1 DEF QueueInv
    <3>3. CASE /\ Len(pending') = Len(pending) - k
               /\ \A j \in 1..Len(pending') : pending'[j] = pending[k + j]
      <4>1. \A j \in 1..Len(pending') : k + j \in 1..Len(pending) /\ k < k + j
        BY <1>0, <3>3
      <4>2. \A i, j \in 1..Len(pending') : i < j => k + i < k + j
        BY <1>0, <3>3
      <4>3. \A j \in 1..Len(pending') : pending'[j] > ino'
        BY <2>1, <3>3, <4>1, <1>0 DEF QueueInv
      <4>4. \A i, j \in 1..Len(pending') : i < j => pending'[i] < pending'[j]
        BY <3>3, <4>1, <4>2 DEF QueueInv
      <4> QED
        BY <4>3, <4>4, <3>1, <2>0, <2>1 DEF QueueInv
    <3> QED
      BY <2>1, <3>2, <3>3
  <2>2. ASSUME pending' = << >>,
               \/ path # None /\ open' = TRUE /\ ino' = path
               \/ path = None /\ UNCHANGED <<open, ino>>
        PROVE  QueueInv'
    <3>1. Len(pending') = 0
      BY <2>2
    <3> QED
      BY <3>1, <2>0, <2>2 DEF QueueInv
  <2>3. \/ \E k \in 1..Len(pending) :
             /\ open' = TRUE /\ ino' = pending[k]
             /\ \/ pending' = << >> /\ pending[k] = path
                \/ /\ Len(pending') = Len(pending) - k
                   /\ \A j \in 1..Len(pending') : pending'[j] = pending[k + j]
        \/ /\ pending' = << >>
           /\ \/ path # None /\ open' = TRUE /\ ino' = path
              \/ path = None /\ UNCHANGED <<open, ino>>
    BY <1>3, OpenFacts
  <2> QED
    BY <2>1, <2>2, <2>3
<1>4. CASE Settle \/ Checkpoint
  <2>1. /\ UNCHANGED <<path, open, ino, pending, lives>> /\ pc' # "rest" /\ pc # "down"
    BY <1>4 DEF Settle, Checkpoint, fs, tail, hist
  <2> QED
    BY <2>1 DEF QueueInv
<1>5. CASE Crash
  BY <1>5 DEF Crash, QueueInv, fs
<1>6. CASE Start
  <2>1. /\ StartKind /\ pc' = "save" /\ lives' = << >> /\ UNCHANGED path
    BY <1>6, StartKinds DEF fs
  <2>2. \/ Waits /\ path = None
        \/ \E i, o : Opens(i, o, << >>)
        \/ /\ saved.ino \in rotated
           /\ \E q \in InMtimeOrder(Later) :
                Opens(saved.ino, saved.off, q \o (IF path = None THEN << >> ELSE <<path>>))
    BY <2>1 DEF StartKind
  <2>3. \A k \in 1..Len(pending') : pending'[k] > ino'
        /\ \A j \in 1..Len(pending') : j < k => pending'[j] < pending'[k]
    <3>1. CASE pending' = << >>
      <4>1. Len(pending') = 0
        BY <3>1
      <4> QED
        BY <4>1
    <3>2. CASE /\ saved.ino \in rotated
               /\ \E q \in InMtimeOrder(Later) :
                    Opens(saved.ino, saved.off, q \o (IF path = None THEN << >> ELSE <<path>>))
      <4>1. PICK q \in InMtimeOrder(Later) :
                    Opens(saved.ino, saved.off, q \o (IF path = None THEN << >> ELSE <<path>>))
        BY <3>2
      <4>2. pending' = q \o (IF path = None THEN << >> ELSE <<path>>) /\ ino' = saved.ino
        BY <4>1 DEF Opens
      <4> QED
        BY <4>2, <3>2, <1>0, OwedOrder
    <3> QED
      BY <2>2, <3>1, <3>2 DEF Waits, Opens
  <2>4. open' \/ path = None
    BY <2>2 DEF Opens
  <2> QED
    BY <2>1, <2>3, <2>4 DEF QueueInv
<1>7. CASE UNCHANGED vars
  BY <1>7 DEF vars, fs, tail, hist, QueueInv
<1> QED
  BY <1>1, <1>2, <1>3, <1>4, <1>5, <1>6, <1>7 DEF Next, Poll, Source

-----------------------------------------------------------------------------
(* Nothing is returned twice by one process.                               *)

\* The last line that ends at or before offset o of file i; an offset behind
\* the end of the file is from before a truncation, and reading goes on at 0.
Upto(i, o) == content[i].before + (IF o <= Size(i) THEN Ended(o) ELSE 0)

\* The last line the tail has passed.
Reach == IF ino = None THEN 0 ELSE IF open THEN Upto(ino, off) ELSE Whole(ino)

LEMMA UptoFacts ==
  ASSUME content \in Seq(File), NEW i \in Inodes, NEW o \in Nat
  PROVE  /\ Upto(i, o) \in Nat /\ content[i].before <= Upto(i, o) /\ Upto(i, o) <= Whole(i)
         /\ Upto(i, 0) = content[i].before
         /\ Upto(i, Size(i)) = Whole(i)
<1>1. PICK b \in Nat : b = content[i].before
  BY FileType
<1>2. PICK s \in Nat : s = Size(i)
  BY FileType
<1>3. Ended(o) \in Nat /\ Ended(s) \in Nat /\ Ended(0) = 0
  BY Halves DEF Ended
<1>4. o <= s => Ended(o) <= Ended(s)
  BY HalvesOrdered
<1>5. PICK u \in Nat : u = (IF o <= s THEN Ended(o) ELSE 0)
  BY <1>3
<1>6. u <= Ended(s)
  BY <1>3, <1>4, <1>5
<1>7. Upto(i, o) = b + u /\ Whole(i) = b + Ended(s)
  BY <1>1, <1>2, <1>5 DEF Upto, Whole
<1>8. Upto(i, 0) = b
  BY <1>1, <1>2, <1>3 DEF Upto
<1>9. Upto(i, Size(i)) = b + Ended(s)
  BY <1>1, <1>2 DEF Upto
<1>10. b + u \in Nat /\ b <= b + u /\ b + u <= b + Ended(s)
  BY <1>3, <1>6
<1> QED
  BY <1>1, <1>7, <1>8, <1>9, <1>10

\* What a read returns, counted in lines.
LEMMA ReadReach ==
  ASSUME content \in Seq(File), NEW i \in Inodes, NEW f \in Nat, NEW o \in Nat,
         o = f \/ (o = 0 /\ f > Size(i)),
         NEW n \in Nat, NEW new, new = ReadLines(i, o, n)
  PROVE  /\ Upto(i, EndOf(o, new)) = Upto(i, f) + Len(new)
         /\ Upto(i, f) + Len(new) <= Whole(i)
         /\ \A k \in 1..Len(new) :
              /\ new[k].line = IF Inside(o) /\ k = 1 THEN None ELSE Upto(i, f) + k
              /\ Upto(i, new[k].off) = Upto(i, f) + k
              /\ new[k].off <= Size(i) /\ ~Inside(new[k].off)
         /\ Len(new) > 0 => o < Size(i)
<1>0. /\ Len(new) \in Nat /\ Len(new) <= Unread(i, o)
      /\ \A k \in 1..Len(new) :
           /\ new[k].ino = i /\ new[k].off = 2 * (Ended(o) + k)
           /\ new[k].line = IF Inside(o) /\ k = 1 THEN None
                            ELSE content[i].before + Ended(o) + k
  <2>1. o \in Nat
    OBVIOUS
  <2>2. /\ new \in Seq(Entry) /\ Len(new) <= Unread(i, o)
        /\ \A k \in 1..Len(new) :
           /\ new[k].ino = i /\ new[k].off = 2 * (Ended(o) + k)
           /\ new[k].line = IF Inside(o) /\ k = 1 THEN None
                            ELSE content[i].before + Ended(o) + k
    <3>1. IsRead(i, o, n, new)
      BY <2>1, ReadIs
    <3> QED
      BY <3>1 DEF IsRead
  <2>3. Len(new) \in Nat
    BY <2>2, LenProperties
  <2> QED
    BY <2>2, <2>3
<1>1. PICK b \in Nat : b = content[i].before
  BY FileType
<1>2. PICK s \in Nat : s = Size(i)
  BY FileType
<1>3. PICK e \in Nat : e = Ended(o)
  BY Halves
<1>4. PICK m \in Nat : m = Len(new)
  BY <1>0
<1>5. PICK u \in Nat : u = Unread(i, o)
  BY UnreadType
<1>6. /\ EndOf(o, new) = IF m = 0 THEN o ELSE 2 * (e + m)
      /\ o > s => m = 0
  BY <1>2, <1>3, <1>4, EndFacts
<1>7. Ended(0) = 0
  BY DEF Ended
<1>8. Upto(i, f) = b + (IF o <= s THEN e ELSE 0)
  <2>1. CASE o = f
    BY <2>1, <1>1, <1>2, <1>3 DEF Upto
  <2>2. CASE o = 0 /\ f > s
    <3>1. ~(f <= s) /\ e = 0
      BY <2>2, <1>3, <1>7
    <3>2. Upto(i, f) = b + 0
      BY <3>1, <1>1, <1>2 DEF Upto
    <3> QED
      BY <3>1, <3>2
  <2> QED
    BY <2>1, <2>2, <1>2
<1>9. CASE m = 0
  <2>1. Upto(i, EndOf(o, new)) = Upto(i, f)
    <3>1. Upto(i, o) = b + (IF o <= s THEN e ELSE 0)
      BY <1>1, <1>2, <1>3 DEF Upto
    <3> QED
      BY <3>1, <1>6, <1>8, <1>9
  <2>2. Upto(i, f) \in Nat /\ Upto(i, f) <= Whole(i)
    BY UptoFacts
  <2>3. Upto(i, f) + Len(new) = Upto(i, f)
    BY <1>4, <1>9, <2>2
  <2>4. ~(Len(new) > 0) /\ \A k \in 1..Len(new) : FALSE
    BY <1>4, <1>9
  <2> QED
    BY <2>1, <2>2, <2>3, <2>4
<1>10. CASE m > 0
  <2>1. o < s /\ e + u = Ended(s)
    <3>1. ~(o >= s)
      <4>1. o >= s => u = 0
        BY <1>2, <1>5, UnreadType
      <4>2. m <= u
        BY <1>0, <1>4, <1>5
      <4> QED
        BY <4>1, <4>2, <1>10
    <3>2. o <= s => e + u = Ended(s)
      BY <1>2, <1>3, <1>5, UnreadType
    <3> QED
      BY <3>1, <3>2
  <2>2. 2 * Ended(s) <= s /\ Ended(s) \in Nat /\ m <= u
    BY <1>0, <1>4, <1>5, Halves
  <2>3. \A k \in 1..m : /\ e + k \in Nat /\ 2 * (e + k) \in Nat /\ 2 * (e + k) <= s
                       /\ b + e + k = b + (e + k) /\ b + (e + k) <= b + Ended(s)
    BY <2>1, <2>2
  <2>4. \A k \in 1..m : Ended(2 * (e + k)) = e + k /\ ~Inside(2 * (e + k))
    BY <2>3, HalfOf
  <2>5. \A k \in 1..m : Upto(i, 2 * (e + k)) = b + e + k
    <3> SUFFICES ASSUME NEW k \in 1..m PROVE Upto(i, 2 * (e + k)) = b + e + k
      OBVIOUS
    <3>1. Upto(i, 2 * (e + k)) = b + Ended(2 * (e + k))
      BY <2>3, <1>1, <1>2 DEF Upto
    <3> QED
      BY <3>1, <2>3, <2>4
  <2>6. Upto(i, f) = b + e
    BY <1>8, <2>1
  <2>7. m \in 1..m /\ EndOf(o, new) = 2 * (e + m)
    BY <1>6, <1>10
  <2>8. Upto(i, EndOf(o, new)) = b + e + m
    BY <2>5, <2>7
  <2>9. b + e + m <= Whole(i)
    <3>1. Whole(i) = b + Ended(s)
      BY <1>1, <1>2 DEF Whole
    <3> QED
      BY <3>1, <2>3, <2>7
  <2>10. \A k \in 1..m : new[k].off = 2 * (e + k)
         /\ new[k].line = IF Inside(o) /\ k = 1 THEN None ELSE b + e + k
    BY <1>0, <1>1, <1>3, <1>4
  <2> QED
    BY <1>2, <1>4, <2>1, <2>3, <2>4, <2>5, <2>6, <2>8, <2>9, <2>10, ZenonT(40)
<1> QED
  BY <1>9, <1>10

\* The same for the last read of a file.
LEMMA FinalReach ==
  ASSUME content \in Seq(File), NEW i \in Inodes, NEW o \in Nat,
         NEW part, part = FinalPartial(i, o)
  PROVE  \A k \in 1..Len(part) :
           /\ k = 1
           /\ part[k].ino = i /\ part[k].off <= Size(i)
           /\ Unread(i, o) > 0 =>
                /\ Upto(i, part[k].off) = Upto(i, o) + 1 /\ ~Inside(part[k].off)
                /\ part[k].line = IF Inside(o) THEN None ELSE Upto(i, o) + 1
           /\ Unread(i, o) = 0 =>
                /\ part[k].off = Size(i) /\ part[k].line = None
                /\ Upto(i, part[k].off) = Upto(i, o) /\ Upto(i, o) = Whole(i)
<1>0. /\ part \in Seq(Entry) /\ Len(part) \in Nat /\ Len(part) <= 1
      /\ \A k \in 1..Len(part) :
           /\ part[k].ino = i /\ part[k].off <= Size(i)
           /\ Unread(i, o) > 0 => part[k].off = 2 * (Ended(o) + 1)
           /\ Unread(i, o) = 0 => part[k].off = Size(i) /\ o < Size(i)
           /\ part[k].line = IF Unread(i, o) > 0 /\ ~Inside(o)
                             THEN content[i].before + Ended(o) + 1 ELSE None
  BY FinalFacts, LenProperties
<1>1. PICK b \in Nat : b = content[i].before
  BY FileType
<1>2. PICK s \in Nat : s = Size(i)
  BY FileType
<1>3. PICK e \in Nat : e = Ended(o)
  BY Halves
<1>4. PICK u \in Nat : u = Unread(i, o)
  BY UnreadType
<1> SUFFICES ASSUME NEW k \in 1..Len(part)
             PROVE  /\ k = 1
                    /\ part[k].ino = i /\ part[k].off <= s
                    /\ u > 0 =>
                         /\ Upto(i, part[k].off) = Upto(i, o) + 1 /\ ~Inside(part[k].off)
                         /\ part[k].line = IF Inside(o) THEN None ELSE Upto(i, o) + 1
                    /\ u = 0 =>
                         /\ part[k].off = s /\ part[k].line = None
                         /\ Upto(i, part[k].off) = Upto(i, o) /\ Upto(i, o) = Whole(i)
  BY <1>2, <1>4
<1>5. k = 1 /\ part[k].ino = i
  <2>1. \A m \in Nat : m <= 1 => \A x \in 1..m : x = 1
    OBVIOUS
  <2> QED
    BY <1>0, <2>1
<1>6. CASE u > 0
  <2>1. o < s /\ e + u = Ended(s)
    <3>1. o >= s => u = 0
      BY <1>2, <1>4, UnreadType
    <3>2. o <= s => e + u = Ended(s)
      BY <1>2, <1>3, <1>4, UnreadType
    <3> QED
      BY <3>1, <3>2, <1>6
  <2>2. part[k].off = 2 * (e + 1) /\ part[k].off <= s
        /\ part[k].line = IF Inside(o) THEN None ELSE b + e + 1
    BY <1>0, <1>1, <1>2, <1>3, <1>4, <1>6
  <2>3. e + 1 \in Nat /\ 2 * (e + 1) \in Nat
    OBVIOUS
  <2>4. Ended(2 * (e + 1)) = e + 1 /\ ~Inside(2 * (e + 1))
    BY <2>3, HalfOf
  <2>5. Upto(i, 2 * (e + 1)) = b + (e + 1)
    BY <2>2, <2>4, <1>1, <1>2 DEF Upto
  <2>6. Upto(i, o) = b + e
    BY <2>1, <1>1, <1>2, <1>3 DEF Upto
  <2>7. b + (e + 1) = b + e + 1
    OBVIOUS
  <2> QED
    BY <1>5, <1>6, <2>2, <2>4, <2>5, <2>6, <2>7
<1>7. CASE u = 0
  <2>1. part[k].off = s /\ part[k].line = None /\ o < s
    BY <1>0, <1>2, <1>4, <1>7
  <2>2. e + u = Ended(s)
    <3>1. o <= s => e + u = Ended(s)
      BY <1>2, <1>3, <1>4, UnreadType
    <3> QED
      BY <2>1, <3>1
  <2>3. e = Ended(s)
    <3>1. Ended(s) \in Nat
      BY Halves
    <3> QED
      BY <3>1, <2>2, <1>7
  <2>4. Upto(i, o) = b + e /\ Whole(i) = b + Ended(s) /\ Upto(i, s) = b + Ended(s)
    BY <2>1, <1>1, <1>2, <1>3 DEF Upto, Whole
  <2> QED
    BY <1>5, <1>7, <2>1, <2>3, <2>4
<1> QED
  BY <1>6, <1>7

\* What poll() appends to what it returned: the k-th new entry ends the k-th line
\* after the last one the tail has passed, or is what its file ends in.
Nth(k, e) ==
  /\ e.ino = ino /\ e.off <= Size(ino)
  /\ \/ /\ Upto(ino, e.off) = Reach + k /\ ~Inside(e.off)
        /\ e.line = Reach + k \/ (e.line = None /\ k = 1 /\ Inside(off) /\ off < Size(ino))
     \/ /\ Upto(ino, e.off) = Whole(ino) /\ Whole(ino) = Reach + (k - 1)
        /\ e.off = Size(ino) /\ e.line = None /\ ~open'

Returns(m) ==
  /\ Len(trail') = Len(trail) + m /\ Len(lives') = Len(lives) + m
  /\ \A k \in 1..Len(trail) : trail'[k] = trail[k]
  /\ \A k \in 1..Len(lives) : lives'[k] = lives[k]
  /\ \A k \in 1..m :
       /\ lives'[Len(lives) + k] = trail'[Len(trail) + k].line
       /\ Nth(k, trail'[Len(trail) + k])
       /\ Upto(ino, trail'[Len(trail) + k].off) <= Reach'
  /\ \/ off' = off
     \/ off' = 0 /\ off > Size(ino)
     \/ \E k \in 1..m : off' = trail'[Len(trail) + k].off

LEMMA ReachKept ==
  ASSUME ino # None, UNCHANGED <<content, ino>>
  PROVE  Reach' = IF open' THEN Upto(ino, off') ELSE Whole(ino)
BY DEF Reach, Upto, Whole, Size

LEMMA ReadsLines ==
  ASSUME Types, open, NEW o \in Nat, o = off \/ (o = 0 /\ off > Size(ino)),
         NEW n \in Nat, Reads(o, n)
  PROVE  /\ Reach \in Nat /\ Reach' \in Nat /\ Reach <= Reach'
         /\ \E m \in Nat : Returns(m) /\ Reach' = Reach + m
<1>a. PICK new : new = ReadLines(ino, o, n)
  OBVIOUS
<1>0. /\ TypeOK /\ content \in Seq(File) /\ ino \in Inodes /\ ino # None /\ off \in Nat
      /\ open' /\ Return(new) /\ off' = EndOf(o, new) /\ UNCHANGED <<content, ino>>
  <2>1. TypeOK
    BY DEF Types
  <2>2. content \in Seq(File) /\ off \in Nat
    BY <2>1, FilesTyped, TailTyped
  <2>3. ino \in Inodes /\ ino # None
    BY OpenFile
  <2>4. open' /\ Return(new) /\ off' = EndOf(o, new) /\ UNCHANGED <<content, ino>>
    BY <1>a DEF Reads, Kept, fs
  <2> QED
    BY <2>1, <2>2, <2>3, <2>4
<1>1. /\ new \in Seq(Entry)
      /\ \A k \in 1..Len(new) : new[k].ino = ino
      /\ EndOf(o, new) \in Nat
      /\ EndOf(o, new) = IF Len(new) = 0 THEN o ELSE 2 * (Ended(o) + Len(new))
      /\ \A k \in 1..Len(new) : new[k].off = 2 * (Ended(o) + k)
  <2>1. /\ new \in Seq(Entry)
        /\ \A k \in 1..Len(new) : new[k].ino = ino /\ new[k].off = 2 * (Ended(o) + k)
    <3>1. IsRead(ino, o, n, new)
      BY <1>0, <1>a, ReadIs
    <3> QED
      BY <3>1 DEF IsRead
  <2>2. /\ EndOf(o, new) \in Nat
        /\ EndOf(o, new) = IF Len(new) = 0 THEN o ELSE 2 * (Ended(o) + Len(new))
    BY <1>0, <1>a, EndFacts
  <2> QED
    BY <2>1, <2>2
<1>2. Reach = Upto(ino, off) /\ Reach \in Nat
  <2>1. Upto(ino, off) \in Nat
    BY <1>0, UptoFacts
  <2> QED
    BY <1>0, <2>1 DEF Reach
<1>3. /\ Upto(ino, EndOf(o, new)) = Reach + Len(new)
      /\ \A k \in 1..Len(new) :
           /\ new[k].line = IF Inside(o) /\ k = 1 THEN None ELSE Reach + k
           /\ Upto(ino, new[k].off) = Reach + k
           /\ new[k].off <= Size(ino) /\ ~Inside(new[k].off)
      /\ Len(new) > 0 => o < Size(ino)
  BY <1>0, <1>a, <1>2, ReadReach
<1>4. Reach' = Reach + Len(new)
  <2>1. Reach' = Upto(ino, off')
    BY <1>0, ReachKept
  <2> QED
    BY <1>0, <1>3, <2>1
<1>5. /\ Len(new) \in Nat
      /\ Len(trail') = Len(trail) + Len(new) /\ Len(lives') = Len(lives) + Len(new)
      /\ \A k \in 1..Len(trail) : trail'[k] = trail[k]
      /\ \A k \in 1..Len(lives) : lives'[k] = lives[k]
      /\ \A k \in 1..Len(new) : trail'[Len(trail) + k] = new[k]
                                /\ lives'[Len(lives) + k] = new[k].line
  BY <1>0, <1>1, ReturnFacts
<1>6. PICK m \in Nat : m = Len(new)
  BY <1>5
<1>7. ~Inside(0)
  BY DEF Inside
<1>8. ASSUME NEW k \in 1..m
      PROVE  Nth(k, new[k]) /\ Upto(ino, new[k].off) <= Reach + m
  <2>1. /\ new[k].ino = ino /\ new[k].off <= Size(ino) /\ ~Inside(new[k].off)
        /\ new[k].line = IF Inside(o) /\ k = 1 THEN None ELSE Reach + k
        /\ Upto(ino, new[k].off) = Reach + k
    BY <1>1, <1>3, <1>6
  <2>2. m > 0
    BY <1>6
  <2>3. Inside(o) => Inside(off) /\ off < Size(ino)
    BY <1>3, <1>6, <1>7, <2>2
  <2>4. Reach + k <= Reach + m
    BY <1>2, <1>6
  <2> QED
    BY <2>1, <2>3, <2>4 DEF Nth
<1>9. \/ off' = off
      \/ off' = 0 /\ off > Size(ino)
      \/ \E k \in 1..m : off' = new[k].off
  <2>1. CASE m = 0
    BY <2>1, <1>0, <1>1, <1>6
  <2>2. CASE m # 0
    <3>1. m \in 1..m
      BY <2>2, <1>6
    <3>2. off' = new[m].off
      BY <3>1, <2>2, <1>0, <1>1, <1>6
    <3> QED
      BY <3>1, <3>2
  <2> QED
    BY <2>1, <2>2
<1>10. Returns(m)
  BY <1>4, <1>5, <1>6, <1>8, <1>9 DEF Returns
<1> QED
  BY <1>2, <1>4, <1>6, <1>10

LEMMA ClosesLines ==
  ASSUME Types, open, NEW n \in Nat, Closes(n), n = 0 \/ Len(ReadLines(ino, off, n)) < n
  PROVE  /\ Reach \in Nat /\ Reach' \in Nat /\ Reach <= Reach' /\ Reach' = Whole(ino)
         /\ \E m \in Nat :
              /\ Returns(m)
              /\ off <= Size(ino) /\ (n > 0 \/ Unread(ino, off) <= 1) => Whole(ino) <= Reach + m
<1>a. PICK new : new = ReadLines(ino, off, n)
  OBVIOUS
<1>b. PICK part : part = FinalPartial(ino, EndOf(off, new))
  OBVIOUS
<1>0. /\ TypeOK /\ content \in Seq(File) /\ ino \in Inodes /\ ino # None /\ off \in Nat
      /\ ~open' /\ off' = EndOf(off, new) /\ UNCHANGED <<content, ino>>
  <2>1. TypeOK
    BY DEF Types
  <2>2. content \in Seq(File) /\ off \in Nat
    BY <2>1, FilesTyped, TailTyped
  <2>3. ino \in Inodes /\ ino # None
    BY OpenFile
  <2>4. ~open' /\ off' = EndOf(off, new) /\ UNCHANGED <<content, ino>>
    BY <1>a DEF Closes, Kept, fs
  <2> QED
    BY <2>1, <2>2, <2>3, <2>4
<1>1. /\ new \o part \in Seq(Entry)
      /\ Len(new) \in Nat /\ Len(part) \in {0, 1} /\ Len(new \o part) = Len(new) + Len(part)
      /\ \A k \in 1..Len(new) : (new \o part)[k] = new[k]
      /\ \A k \in 1..Len(part) : (new \o part)[Len(new) + k] = part[k]
      /\ EndOf(off, new) \in Nat
      /\ Return(new \o part)
  BY <1>a, <1>b, ClosesFacts
<1>c. PICK all : all = new \o part
  OBVIOUS
<1>2. Reach = Upto(ino, off) /\ Reach \in Nat /\ Reach' = Whole(ino) /\ Whole(ino) \in Nat
  <2>1. Upto(ino, off) \in Nat
    BY <1>0, UptoFacts
  <2>2. Whole(ino) \in Nat
    BY <1>0, LineFacts
  <2>3. Reach' = Whole(ino)
    BY <1>0, ReachKept
  <2> QED
    BY <1>0, <2>1, <2>2, <2>3 DEF Reach
<1>3. /\ Upto(ino, EndOf(off, new)) = Reach + Len(new)
      /\ Reach + Len(new) <= Whole(ino)
      /\ \A k \in 1..Len(new) :
           /\ new[k].line = IF Inside(off) /\ k = 1 THEN None ELSE Reach + k
           /\ Upto(ino, new[k].off) = Reach + k
           /\ new[k].off <= Size(ino) /\ ~Inside(new[k].off)
      /\ Len(new) > 0 => off < Size(ino)
  BY <1>0, <1>a, <1>2, ReadReach
<1>4. PICK m \in Nat : m = Len(new)
  BY <1>1
<1>5. PICK p \in {0, 1} : p = Len(part)
  BY <1>1
<1>6. /\ \A k \in 1..m : new[k].ino = ino /\ new[k].off = 2 * (Ended(off) + k)
      /\ off' = IF m = 0 THEN off ELSE 2 * (Ended(off) + m)
      /\ m > 0 => ~Inside(off')
  <2>1. \A k \in 1..Len(new) : new[k].ino = ino /\ new[k].off = 2 * (Ended(off) + k)
    <3>1. IsRead(ino, off, n, new)
      BY <1>0, <1>a, ReadIs
    <3> QED
      BY <3>1 DEF IsRead
  <2>2. EndOf(off, new) = IF Len(new) = 0 THEN off ELSE 2 * (Ended(off) + Len(new))
    BY <1>0, <1>a, EndFacts
  <2>3. Len(new) > 0 => ~Inside(EndOf(off, new))
    BY <1>0, <1>a, EndFacts
  <2> QED
    BY <1>0, <1>4, <2>1, <2>2, <2>3
<1>7. \A k \in 1..p :
           /\ k = 1 /\ part[k].ino = ino
           /\ part[k].off <= Size(ino)
           /\ Unread(ino, off') > 0 =>
                /\ Upto(ino, part[k].off) = Reach + m + 1 /\ ~Inside(part[k].off)
                /\ part[k].line = IF Inside(off') THEN None ELSE Reach + m + 1
           /\ Unread(ino, off') = 0 =>
                /\ part[k].off = Size(ino) /\ part[k].line = None
                /\ Upto(ino, part[k].off) = Reach + m /\ Reach + m = Whole(ino)
  <2>1. /\ content \in Seq(File) /\ off' \in Nat /\ part = FinalPartial(ino, off')
        /\ Upto(ino, off') = Reach + m
    BY <1>0, <1>1, <1>b, <1>3, <1>4
  <2> QED
    <3>1. PICK q \in Nat : q = off'
      BY <2>1
    <3>2. part = FinalPartial(ino, q) /\ Upto(ino, q) = Reach + m
      BY <2>1, <3>1
    <3>3. \A k \in 1..Len(part) :
           /\ k = 1
           /\ part[k].ino = ino /\ part[k].off <= Size(ino)
           /\ Unread(ino, q) > 0 =>
                /\ Upto(ino, part[k].off) = Upto(ino, q) + 1 /\ ~Inside(part[k].off)
                /\ part[k].line = IF Inside(q) THEN None ELSE Upto(ino, q) + 1
           /\ Unread(ino, q) = 0 =>
                /\ part[k].off = Size(ino) /\ part[k].line = None
                /\ Upto(ino, part[k].off) = Upto(ino, q) /\ Upto(ino, q) = Whole(ino)
      BY <1>0, <2>1, <3>2, FinalReach
    <3> QED
      BY <1>5, <3>1, <3>2, <3>3
<1>8. /\ Len(trail') = Len(trail) + (m + p) /\ Len(lives') = Len(lives) + (m + p)
      /\ \A k \in 1..Len(trail) : trail'[k] = trail[k]
      /\ \A k \in 1..Len(lives) : lives'[k] = lives[k]
      /\ \A k \in 1..(m + p) : trail'[Len(trail) + k] = all[k]
                               /\ lives'[Len(lives) + k] = all[k].line
  BY <1>0, <1>1, <1>4, <1>5, <1>c, ReturnFacts
<1>9. /\ m + p \in Nat
      /\ \A k \in 1..(m + p) : k \in 1..m \/ (k = m + 1 /\ 1 \in 1..p)
      /\ 1..m \subseteq 1..(m + p)
  BY <1>5
<1>10. /\ \A k \in 1..m : all[k] = new[k]
       /\ 1 \in 1..p => all[m + 1] = part[1]
  BY <1>1, <1>4, <1>5, <1>c
<1>11. ASSUME NEW k \in 1..m
       PROVE  Nth(k, new[k]) /\ Upto(ino, new[k].off) <= Whole(ino)
  <2>1. /\ new[k].ino = ino /\ new[k].off <= Size(ino) /\ ~Inside(new[k].off)
        /\ new[k].line = IF Inside(off) /\ k = 1 THEN None ELSE Reach + k
        /\ Upto(ino, new[k].off) = Reach + k
    BY <1>3, <1>4, <1>6
  <2>2. m > 0 /\ Reach + k <= Whole(ino)
    BY <1>2, <1>3, <1>4
  <2> QED
    BY <2>1, <2>2, <1>3, <1>4 DEF Nth
<1>12. ASSUME 1 \in 1..p
       PROVE  Nth(m + 1, part[1]) /\ Upto(ino, part[1].off) <= Whole(ino)
  <2>0. PICK u \in Nat : u = Unread(ino, off')
    BY <1>0, <1>1, UnreadType
  <2>1. CASE u > 0
    <3>1. /\ part[1].ino = ino /\ part[1].off <= Size(ino)
          /\ Upto(ino, part[1].off) = Reach + m + 1 /\ ~Inside(part[1].off)
          /\ part[1].line = IF Inside(off') THEN None ELSE Reach + m + 1
      BY <1>7, <1>12, <2>0, <2>1
    <3>2. Reach + m + 1 = Reach + (m + 1)
      BY <1>2
    <3>3. Inside(off') => m + 1 = 1 /\ Inside(off)
      <4>1. m # 0 => m > 0
        OBVIOUS
      <4> QED
        BY <4>1, <1>6
    <3>4. Inside(off') => off < Size(ino)
      <4>1. m = 0 => off' = off
        BY <1>6
      <4>2. off >= Size(ino) => Unread(ino, off) = 0
        BY <1>0, UnreadType
      <4>3. Size(ino) \in Nat
        BY <1>0, FileType
      <4>4. Inside(off') => ~(off >= Size(ino))
        BY <3>3, <4>1, <4>2, <2>0, <2>1
      <4> QED
        BY <4>3, <4>4, <1>0
    <3>5. Upto(ino, part[1].off) <= Whole(ino)
      <4>1. part[1].off \in Nat
        <5>1. all[m + 1] \in Entry
          BY <1>1, <1>4, <1>5, <1>9, <1>12, <1>c, ElementOfSeq
        <5> QED
          BY <5>1, <1>10, <1>12 DEF Entry
      <4> QED
        BY <1>0, <4>1, UptoFacts
    <3> QED
      BY <3>1, <3>2, <3>3, <3>4, <3>5 DEF Nth
  <2>2. CASE u = 0
    <3>1. /\ part[1].ino = ino /\ part[1].off = Size(ino) /\ part[1].off <= Size(ino)
          /\ part[1].line = None
          /\ Upto(ino, part[1].off) = Reach + m /\ Reach + m = Whole(ino)
      BY <1>7, <1>12, <2>0, <2>2
    <3>2. Reach + m = Reach + ((m + 1) - 1)
      BY <1>2
    <3> QED
      BY <3>1, <3>2, <1>0, <1>2 DEF Nth
  <2> QED
    BY <2>0, <2>1, <2>2
<1>13. \A k \in 1..(m + p) : Nth(k, all[k]) /\ Upto(ino, all[k].off) <= Whole(ino)
  BY <1>9, <1>10, <1>11, <1>12
<1>14. \/ off' = off
       \/ \E k \in 1..(m + p) : off' = all[k].off
  <2>1. CASE m = 0
    BY <2>1, <1>6
  <2>2. CASE m # 0
    <3>1. m \in 1..m /\ m \in 1..(m + p)
      BY <2>2, <1>9
    <3>2. off' = all[m].off
      BY <3>1, <2>2, <1>6, <1>10
    <3> QED
      BY <3>1, <3>2
  <2> QED
    BY <2>1, <2>2
<1>15. Returns(m + p)
  BY <1>2, <1>8, <1>9, <1>13, <1>14 DEF Returns
<1>16. Reach <= Whole(ino)
  BY <1>2, <1>3, <1>4
<1>17. ASSUME off <= Size(ino), n > 0 \/ Unread(ino, off) <= 1
       PROVE  Whole(ino) <= Reach + (m + p)
  <2>1. PICK u \in Nat : u = Unread(ino, off)
    BY <1>0, UnreadType
  <2>2. Whole(ino) = Reach + u
    <3>1. PICK b \in Nat : b = content[ino].before
      BY <1>0, FileType
    <3>2. PICK e \in Nat : e = Ended(off)
      BY <1>0, Halves
    <3>3. e + u = Ended(Size(ino))
      BY <1>0, <1>17, <2>1, <3>2, UnreadType
    <3>4. Reach = b + e /\ Whole(ino) = b + (e + u)
      BY <1>2, <1>17, <3>1, <3>2, <3>3 DEF Upto, Whole
    <3> QED
      BY <3>4
  <2>3. CASE n > 0
    <3>1. Len(new) < n
      BY <2>3, <1>a
    <3>2. Len(new) = Unread(ino, off)
      BY <1>0, <1>a, <3>1, ReadFacts
    <3>3. m = u
      BY <1>4, <2>1, <3>2
    <3> QED
      BY <1>2, <1>5, <2>2, <3>3
  <2>4. CASE n = 0
    <3>1. m = 0
      <4>1. Len(new) <= n
        BY <1>0, <1>a, ReadFacts
      <4> QED
        BY <2>4, <4>1, <1>4
    <3>2. u > 0 => p = 1
      <4>1. part = FinalPartial(ino, off)
        BY <3>1, <1>0, <1>b, <1>6
      <4>2. Unread(ino, off) > 0 => Len(part) = 1
        BY <1>0, <4>1, FinalFacts
      <4> QED
        BY <2>1, <4>2, <1>5
    <3>3. u <= 1
      BY <1>17, <2>1, <2>4
    <3>4. u <= p
      BY <1>5, <1>17, <3>2, <3>3
    <3> QED
      BY <1>2, <1>5, <1>17, <2>2, <3>1, <3>4
  <2> QED
    BY <2>3, <2>4
<1> QED
  BY <1>2, <1>9, <1>15, <1>16, <1>17

\* What a poll with a file open returns.
LEMMA PollLines ==
  ASSUME Types, PollRead \/ PollStat \/ PollRest \/ PollLast
  PROVE  /\ Reach \in Nat /\ Reach' \in Nat /\ Reach <= Reach'
         /\ \E m \in Nat :
              /\ Returns(m)
              /\ ~open' /\ off <= Size(ino) /\ (pc = "rest" \/ Unread(ino, off) <= 1) =>
                   Whole(ino) <= Reach + m
         /\ open /\ ino \in Inodes /\ UNCHANGED Kept /\ pc # "down" /\ pc' # "down"
         /\ ~open' => (pc = "stat" /\ path = None) \/ pc = "rest"
<1>1. PollKind /\ open
  <2>1. PollKind
    BY PollKinds
  <2> QED
    BY <2>1 DEF PollKind
<1>2. ino \in Inodes /\ ino # None /\ pc # "down" /\ off \in Nat /\ content \in Seq(File)
      /\ Len(trail) \in Nat /\ Len(lives) \in Nat
  <2>1. TypeOK
    BY DEF Types
  <2>2. content \in Seq(File)
    BY <2>1, FilesTyped
  <2>3. off \in Nat /\ Len(trail) \in Nat /\ Len(lives) \in Nat
    BY <2>1, TailTyped
  <2>4. ino \in Inodes /\ ino # None /\ pc # "down"
    BY <1>1, OpenFile
  <2> QED
    BY <2>2, <2>3, <2>4
<1>3. CASE Stays /\ open /\ pc = "stat" /\ (pc' = "poll" \/ (pc' = "rest" /\ path \notin {None, ino}))
  <2>1. UNCHANGED <<Kept, content, ino, open, off, trail, lives>>
    BY <1>3 DEF Stays, Kept, fs
  <2>2. Reach = Upto(ino, off) /\ Reach' = Upto(ino, off)
    <3>1. Reach' = Upto(ino, off')
      BY <1>1, <1>2, <2>1, ReachKept
    <3> QED
      BY <3>1, <2>1, <1>1, <1>2 DEF Reach
  <2>3. Upto(ino, off) \in Nat
    BY <1>2, UptoFacts
  <2>4. Returns(0)
    BY <2>1, <1>2 DEF Returns
  <2> QED
    BY <1>1, <1>2, <1>3, <2>1, <2>2, <2>3, <2>4
<1>4. ASSUME NEW n \in Nat, NEW o \in Nat, o = off \/ (o = 0 /\ off > Size(ino)), Reads(o, n),
             pc' \in {"poll", "stat"}
      PROVE  /\ Reach \in Nat /\ Reach' \in Nat /\ Reach <= Reach'
             /\ \E m \in Nat : Returns(m)
             /\ open' /\ UNCHANGED Kept /\ pc' # "down"
  <2>1. /\ Reach \in Nat /\ Reach' \in Nat /\ Reach <= Reach'
        /\ \E m \in Nat : Returns(m)
    BY <1>1, <1>4, ReadsLines
  <2> QED
    BY <1>1, <1>4, <2>1 DEF Reads
<1>5. CASE \E n \in Nat :
        /\ open /\ Reads(off, n)
        /\ pc' = "poll" \/ (pc' = "stat" /\ Len(ReadLines(ino, off, n)) < n)
  BY <1>1, <1>2, <1>4, <1>5
<1>6. CASE \E n \in Nat :
        open /\ path = ino /\ Size(ino) < off /\ Reads(0, n) /\ pc' = "poll"
  <2>1. PICK n \in Nat : Size(ino) < off /\ Reads(0, n) /\ pc' = "poll"
    BY <1>6
  <2>2. 0 \in Nat /\ off > Size(ino)
    BY <2>1
  <2>3. /\ Reach \in Nat /\ Reach' \in Nat /\ Reach <= Reach'
        /\ \E m \in Nat : Returns(m)
        /\ open' /\ UNCHANGED Kept /\ pc' # "down"
    BY <1>4, <2>1, <2>2
  <2> QED
    BY <1>1, <1>2, <2>3
<1>7. CASE \E n \in Nat :
        /\ open /\ Closes(n) /\ pc' \in {"poll", "next"}
        /\ \/ pc = "stat" /\ path = None /\ n = 0
           \/ pc = "rest" /\ Len(ReadLines(ino, off, n)) < n
  <2>1. PICK n \in Nat :
          /\ Closes(n) /\ pc' \in {"poll", "next"}
          /\ \/ pc = "stat" /\ path = None /\ n = 0
             \/ pc = "rest" /\ Len(ReadLines(ino, off, n)) < n
    BY <1>7
  <2>2. /\ Reach \in Nat /\ Reach' \in Nat /\ Reach <= Reach'
        /\ \E m \in Nat :
             /\ Returns(m)
             /\ off <= Size(ino) /\ (n > 0 \/ Unread(ino, off) <= 1) => Whole(ino) <= Reach + m
    BY <1>1, <2>1, ClosesLines
  <2>3. UNCHANGED Kept
    BY <2>1 DEF Closes
  <2>4. pc = "rest" => n > 0
    <3>1. \A k \in Nat : k < n => n > 0
      OBVIOUS
    <3>2. Len(ReadLines(ino, off, n)) \in Nat
      <4>1. ReadLines(ino, off, n) \in Seq(Entry)
        BY <1>2, ReadFacts
      <4> QED
        BY <4>1, LenProperties
    <3>3. pc = "rest" => Len(ReadLines(ino, off, n)) < n
      BY <2>1
    <3> QED
      BY <3>1, <3>2, <3>3
  <2>5. \E m \in Nat :
          /\ Returns(m)
          /\ ~open' /\ off <= Size(ino) /\ (pc = "rest" \/ Unread(ino, off) <= 1) =>
               Whole(ino) <= Reach + m
    BY <2>2, <2>4
  <2> QED
    BY <1>1, <1>2, <2>1, <2>2, <2>3, <2>5
<1> QED
  BY <1>1, <1>3, <1>5, <1>6, <1>7 DEF PollKind

\* What was passed stays passed, whatever is written, and whatever becomes of the
\* file.
LEMMA UptoGrows ==
  ASSUME TypeOK, FileInv, Source, NEW i \in Inodes, NEW o \in Nat
  PROVE  /\ Upto(i, o) \in Nat /\ Upto(i, o)' \in Nat /\ Upto(i, o) <= Upto(i, o)'
         /\ Whole(i) \in Nat /\ Whole(i)' \in Nat /\ Whole(i) <= Whole(i)'
         /\ i \in Inodes'
<1>1. content \in Seq(File) /\ line \in Nat
  BY FilesTyped
<1>2. content' \in Seq(File) /\ i \in Inodes'
  BY SourceFacts DEF Inodes
<1>3. Upto(i, o) \in Nat /\ Upto(i, o) <= Whole(i) /\ Whole(i) \in Nat
  <2>1. Whole(i) \in Nat
    BY <1>1, LineFacts
  <2> QED
    BY <1>1, <2>1, UptoFacts
<1>4. PICK b \in Nat : b = content[i].before
  BY <1>1, FileType
<1>5. PICK s \in Nat : s = Size(i)
  BY <1>1, FileType
<1>6. Ended(o) \in Nat /\ Ended(s) \in Nat
  BY Halves
<1>7. ASSUME NEW t \in Nat, s <= t, content'[i].before = b, Size(i)' = t
      PROVE  /\ Upto(i, o)' \in Nat /\ Upto(i, o) <= Upto(i, o)'
             /\ Whole(i)' \in Nat /\ Whole(i) <= Whole(i)'
  <2>1. Ended(t) \in Nat /\ Ended(s) <= Ended(t)
    BY <1>7, Halves, HalvesOrdered
  <2>2. Upto(i, o) = b + (IF o <= s THEN Ended(o) ELSE 0)
        /\ Upto(i, o)' = b + (IF o <= t THEN Ended(o) ELSE 0)
    BY <1>4, <1>5, <1>7 DEF Upto
  <2>3. Whole(i) = b + Ended(s) /\ Whole(i)' = b + Ended(t)
    BY <1>4, <1>5, <1>7 DEF Whole
  <2>4. PICK e \in Nat : e = Ended(o)
    BY <1>6
  <2>5. PICK u \in Nat : u = (IF o <= s THEN e ELSE 0)
    BY <2>4
  <2>6. PICK v \in Nat : v = (IF o <= t THEN e ELSE 0)
    BY <2>4
  <2>7. u <= v
    BY <1>7, <2>5, <2>6
  <2>8. b + u \in Nat /\ b + v \in Nat /\ b + u <= b + v
    BY <2>7
  <2>9. b + Ended(t) \in Nat /\ b + Ended(s) <= b + Ended(t)
    BY <1>6, <2>1
  <2> QED
    BY <2>2, <2>3, <2>4, <2>5, <2>6, <2>8, <2>9
<1>8. CASE content'[i] = content[i]
  <2>1. content'[i].before = b /\ Size(i)' = s /\ s <= s
    BY <1>4, <1>5, <1>8 DEF Size
  <2> QED
    BY <2>1, <1>2, <1>3, <1>7
<1>9. CASE Write /\ i = path
  <2>1. content'[i].before = b /\ Size(i)' = s + 1 /\ s <= s + 1 /\ s + 1 \in Nat
    <3>1. content'[path].before = content[path].before /\ Size(path)' = Size(path) + 1
      BY <1>9, WriteFacts
    <3>2. path' = path
      BY <1>9 DEF Write
    <3>3. content'[i].size = s + 1
      BY <1>5, <1>9, <3>1, <3>2 DEF Size
    <3>4. s <= s + 1 /\ s + 1 \in Nat
      OBVIOUS
    <3> QED
      BY <1>4, <1>9, <3>1, <3>3, <3>4 DEF Size
  <2> QED
    BY <2>1, <1>2, <1>3, <1>7
<1>10. CASE Truncate /\ i = path
  <2>1. content'[i].before = line
    BY <1>10, TruncateFacts
  <2>2. Whole(i) <= line
    <3>1. /\ Partial(i) => Begun(i) = Whole(i) + 1
          /\ ~Partial(i) => Begun(i) = Whole(i)
      BY <1>1, LineFacts
    <3>2. Begun(i) <= line
      BY DEF FileInv
    <3>3. Whole(i) <= Begun(i)
      BY <1>3, <3>1
    <3>4. Begun(i) \in Nat
      BY <1>1, LineFacts
    <3> QED
      BY <1>1, <1>3, <3>2, <3>3, <3>4
  <2>3. /\ Upto(i, o)' \in Nat /\ content'[i].before <= Upto(i, o)' /\ Upto(i, o)' <= Whole(i)'
        /\ Whole(i)' \in Nat
    <3>1. content'[i].before \in Nat /\ Size(i)' \in Nat
      <4>1. content'[i] \in File
        BY <1>2, ElementOfSeq DEF Inodes
      <4> QED
        BY <4>1 DEF File, Size
    <3>2. PICK t \in Nat : t = Size(i)'
      BY <3>1
    <3>3. PICK c \in Nat : c = content'[i].before
      BY <3>1
    <3>4. Ended(t) \in Nat /\ (o <= t => Ended(o) <= Ended(t))
      BY Halves, HalvesOrdered
    <3>5. PICK u \in Nat : u = (IF o <= t THEN Ended(o) ELSE 0)
      BY <1>6
    <3>6. u <= Ended(t)
      BY <3>4, <3>5
    <3>7. Upto(i, o)' = c + u /\ Whole(i)' = c + Ended(t)
      BY <3>2, <3>3, <3>5 DEF Upto, Whole
    <3>8. c + u \in Nat /\ c <= c + u /\ c + u <= c + Ended(t) /\ c + Ended(t) \in Nat
      BY <3>4, <3>6
    <3> QED
      BY <3>3, <3>7, <3>8
  <2> QED
    BY <1>1, <1>2, <1>3, <2>1, <2>2, <2>3
<1>11. content'[i] = content[i] \/ (Write /\ i = path) \/ (Truncate /\ i = path)
  <2>1. CASE Write
    BY <2>1, WriteFacts
  <2>2. CASE Truncate
    BY <2>2, TruncateFacts
  <2>3. CASE Create
    BY <2>3, CreateFacts
  <2>4. CASE Rotate \/ Delete \/ \E j \in rotated : Expire(j)
    <3>1. content' = content
      BY <2>4 DEF Rotate, Delete, Expire
    <3> QED
      BY <3>1
  <2> QED
    BY <2>1, <2>2, <2>3, <2>4 DEF Source
<1> QED
  BY <1>8, <1>9, <1>10, <1>11

\* Of two files the older one is passed before the younger one begins.
LEMMA WholeBefore ==
  ASSUME TypeOK, FileInv, NEW i \in Inodes, NEW j \in Inodes, i < j
  PROVE  Whole(i) <= content[j].before
<1>1. content \in Seq(File)
  BY FilesTyped
<1>2. Begun(i) \in Nat /\ Whole(i) \in Nat /\ content[j].before \in Nat
  BY <1>1, LineFacts
<1>3. /\ Partial(i) => Begun(i) = Whole(i) + 1
      /\ ~Partial(i) => Begun(i) = Whole(i)
  BY <1>1, LineFacts
<1>4. Whole(i) <= Begun(i)
  BY <1>2, <1>3
<1>5. Begun(i) <= content[j].before
  BY DEF FileInv
<1> QED
  BY <1>2, <1>4, <1>5

\* A file is opened at its beginning, and is younger than the one before.
LEMMA OpenReach ==
  ASSUME Types, FileInv, QueueInv, PollOpen
  PROVE  /\ Reach \in Nat /\ Reach' \in Nat /\ Reach <= Reach' /\ ~open
         /\ \/ /\ open' /\ off' = 0 /\ ino' \in Inodes /\ ino < ino'
               /\ Reach' = content[ino'].before
            \/ UNCHANGED <<open, ino, off>> /\ Reach' = Reach /\ path = None
<1>0. /\ TypeOK /\ content \in Seq(File) /\ Len(content) \in Nat
      /\ ino \in Nat /\ ino \in 0..Len(content) /\ (ino # None => ino \in Inodes)
      /\ path # None => path \in Inodes /\ path = Len(content)
      /\ \A k \in 1..Len(pending) : pending[k] \in Inodes /\ pending[k] > ino
  <2>1. TypeOK
    BY DEF Types
  <2>2. ino \in Nat /\ ino \in 0..Len(content)
    BY <2>1, TailTyped
  <2>3. content \in Seq(File) /\ Len(content) \in Nat /\ (path # None => path \in Inodes)
    BY <2>1, FilesTyped
  <2>4. \A k \in 1..Len(pending) : pending[k] \in Inodes
    BY <2>1, TailTyped
  <2> QED
    BY <2>1, <2>2, <2>3, <2>4 DEF FileInv, QueueInv, Inodes, None
<1>1. ~open /\ pc # "down" /\ UNCHANGED content
  BY OpenFacts DEF fs
<1>2. Reach = IF ino = None THEN 0 ELSE Whole(ino)
  BY <1>1 DEF Reach
<1>3. ino # None => Whole(ino) \in Nat
  BY <1>0, LineFacts
<1>4. Reach \in Nat
  BY <1>2, <1>3
<1>5. ASSUME NEW j \in Inodes, ino < j, open' = TRUE, ino' = j, off' = 0
      PROVE  /\ Reach' \in Nat /\ Reach <= Reach'
             /\ open' /\ off' = 0 /\ ino' \in Inodes /\ ino < ino'
             /\ Reach' = content[ino'].before
  <2>1. content[j].before \in Nat
    BY <1>0, FileType
  <2>2. Reach' = Upto(j, 0)'
    <3>1. ino' # None
      BY <1>0, <1>5 DEF None
    <3> QED
      BY <3>1, <1>5 DEF Reach, Upto, Size
  <2>3. Upto(j, 0)' = Upto(j, 0)
    BY <1>1 DEF Upto, Size
  <2>4. Upto(j, 0) = content[j].before
    BY <1>0, UptoFacts
  <2>5. Reach <= content[j].before
    <3>1. ino # None => Whole(ino) <= content[j].before
      BY <1>0, <1>5, WholeBefore
    <3> QED
      BY <1>2, <2>1, <3>1
  <2> QED
    BY <1>5, <2>1, <2>2, <2>3, <2>4, <2>5
<1>6. CASE UNCHANGED <<open, ino, off>> /\ path = None
  <2>1. Reach' = Reach
    BY <1>1, <1>6 DEF Reach, Upto, Whole, Size
  <2> QED
    BY <1>1, <1>4, <1>6, <2>1
<1>7. CASE path # None /\ open' = TRUE /\ ino' = path /\ off' = 0
  <2>1. ino < path
    <3>1. path # ino
      BY <1>1, <1>7 DEF QueueInv
    <3> QED
      BY <3>1, <1>0, <1>7
  <2> QED
    BY <1>0, <1>1, <1>4, <1>5, <1>7, <2>1
<1>8. CASE \E k \in 1..Len(pending) : open' = TRUE /\ ino' = pending[k] /\ off' = 0
  <2>1. PICK k \in 1..Len(pending) : open' = TRUE /\ ino' = pending[k] /\ off' = 0
    BY <1>8
  <2>2. PICK j \in Inodes : j = pending[k] /\ ino < j
    BY <1>0
  <2> QED
    BY <1>1, <1>4, <1>5, <2>1, <2>2
<1>9. \/ \E k \in 1..Len(pending) : open' = TRUE /\ ino' = pending[k] /\ off' = 0
      \/ path # None /\ open' = TRUE /\ ino' = path /\ off' = 0
      \/ path = None /\ UNCHANGED <<open, ino, off>>
  BY OpenFacts
<1> QED
  BY <1>6, <1>7, <1>8, <1>9

\* While it runs the tail never goes back.
LEMMA ReachGrows ==
  ASSUME Types, FileInv, QueueInv, [Next]_vars, pc # "down", pc' # "down"
  PROVE  Reach \in Nat /\ Reach' \in Nat /\ Reach <= Reach'
<1>0. TypeOK /\ content \in Seq(File) /\ off \in Nat /\ (ino # None => ino \in Inodes)
  <2>1. TypeOK
    BY DEF Types
  <2>2. ino \in 0..Len(content) /\ off \in Nat
    BY <2>1, TailTyped
  <2>3. content \in Seq(File) /\ Len(content) \in Nat
    BY <2>1, FilesTyped
  <2> QED
    BY <2>1, <2>2, <2>3 DEF Inodes, None
<1>1. Reach \in Nat
  <2>1. ino # None => Whole(ino) \in Nat
    BY <1>0, LineFacts
  <2>2. ino # None => Upto(ino, off) \in Nat
    BY <1>0, UptoFacts
  <2> QED
    BY <2>1, <2>2 DEF Reach
<1>2. CASE Source
  <2>1. UNCHANGED <<open, ino, off>>
    BY <1>0, <1>2, SourceFacts DEF tail
  <2>2. CASE ino = None
    BY <2>1, <2>2 DEF Reach
  <2>3. CASE ino # None
    <3>1. PICK i \in Inodes : i = ino
      BY <1>0, <2>3
    <3>2. PICK o \in Nat : o = off
      BY <1>0
    <3>3. /\ Upto(i, o)' \in Nat /\ Upto(i, o) <= Upto(i, o)'
          /\ Whole(i)' \in Nat /\ Whole(i) <= Whole(i)'
      BY <1>0, <1>2, UptoGrows
    <3>4. Reach = IF open THEN Upto(i, o) ELSE Whole(i)
      BY <2>3, <3>1, <3>2 DEF Reach
    <3>5. Reach' = IF open THEN Upto(i, o)' ELSE Whole(i)'
      BY <2>1, <2>3, <3>1, <3>2 DEF Reach, Upto, Whole, Size
    <3> QED
      BY <1>1, <3>3, <3>4, <3>5
  <2> QED
    BY <2>2, <2>3
<1>3. CASE PollRead \/ PollStat \/ PollRest \/ PollLast
  BY <1>3, PollLines
<1>4. CASE PollOpen
  BY <1>4, OpenReach
<1>5. CASE Settle \/ Checkpoint \/ UNCHANGED vars
  <2>1. UNCHANGED <<content, open, ino, off>>
    BY <1>5 DEF Settle, Checkpoint, vars, fs, tail
  <2>2. Reach' = Reach
    BY <2>1 DEF Reach, Upto, Whole, Size
  <2> QED
    BY <1>1, <2>2
<1>6. ~Crash /\ ~Start
  BY DEF Crash, Start
<1> QED
  BY <1>2, <1>3, <1>4, <1>5, <1>6 DEF Next, Poll, Source

LivesInv == pc # "down" => \A k \in 1..Len(lives) : lives[k] <= Reach

\* Lines after the last one passed can be returned.
LEMMA Extend ==
  ASSUME TypeOK, NoDuplicates, NEW r \in Nat, \A k \in 1..Len(lives) : lives[k] <= r,
         NEW s \in Nat, r <= s, NEW m \in Nat, lives' \in Seq(Nat), Len(lives') = Len(lives) + m,
         \A k \in 1..Len(lives) : lives'[k] = lives[k],
         \A k \in 1..m : lives'[Len(lives) + k] = None
                         \/ (lives'[Len(lives) + k] = r + k /\ r + k <= s)
  PROVE  NoDuplicates' /\ \A k \in 1..Len(lives') : lives'[k] <= s
<1>0. PICK n \in Nat : n = Len(lives)
  BY TailTyped
<1>1. /\ DOMAIN lives = 1..n /\ DOMAIN lives' = 1..(n + m)
      /\ \A k \in 1..n : lives[k] \in Nat /\ lives[k] <= r
  <2>1. DOMAIN lives = 1..n /\ \A k \in 1..n : lives[k] \in Nat
    BY <1>0, TailTyped
  <2>2. DOMAIN lives' = 1..(n + m)
    BY <1>0, LenProperties
  <2> QED
    BY <1>0, <2>1, <2>2
<1>2. \A k \in 1..(n + m) : k \in 1..n \/ \E j \in 1..m : k = n + j
  <2> SUFFICES ASSUME NEW k \in 1..(n + m), ~(k \in 1..n)
               PROVE  \E j \in 1..m : k = n + j
    OBVIOUS
  <2>1. k - n \in 1..m /\ k = n + (k - n)
    OBVIOUS
  <2> QED
    BY <2>1
<1>3. \A k \in 1..n : lives'[k] = lives[k] /\ lives'[k] <= r /\ lives'[k] \in Nat
  BY <1>0, <1>1
<1>4. \A j \in 1..m : lives'[n + j] = None \/ (lives'[n + j] = r + j /\ r + j <= s)
  BY <1>0
<1>5. ASSUME NEW k \in 1..(n + m) PROVE lives'[k] <= s
  <2>1. CASE k \in 1..n
    BY <2>1, <1>3
  <2>2. CASE \E j \in 1..m : k = n + j
    <3>1. PICK j \in 1..m : k = n + j
      BY <2>2
    <3>2. lives'[k] = 0 \/ (lives'[k] = r + j /\ r + j <= s)
      BY <1>4, <3>1 DEF None
    <3>3. 0 <= s
      OBVIOUS
    <3> QED
      BY <3>2, <3>3
  <2> QED
    BY <2>1, <2>2, <1>2
<1>6. ASSUME NEW j \in 1..(n + m), NEW k \in 1..(n + m), j < k,
             lives'[j] # None, lives'[k] # None
      PROVE  lives'[j] < lives'[k]
  <2>1. CASE k \in 1..n
    <3>1. j \in 1..n
      BY <2>1, <1>6
    <3> QED
      BY <2>1, <3>1, <1>1, <1>3, <1>6 DEF NoDuplicates
  <2>2. CASE \E b \in 1..m : k = n + b
    <3>1. PICK b \in 1..m : k = n + b
      BY <2>2
    <3>2. lives'[k] = r + b
      BY <3>1, <1>4, <1>6
    <3>3. CASE j \in 1..n
      BY <3>2, <3>3, <1>3
    <3>4. CASE \E a \in 1..m : j = n + a
      <4>1. PICK a \in 1..m : j = n + a
        BY <3>4
      <4>2. lives'[j] = r + a
        BY <4>1, <1>4, <1>6
      <4>3. a < b
        BY <3>1, <4>1, <1>6
      <4> QED
        BY <3>2, <4>2, <4>3
    <3> QED
      BY <3>3, <3>4, <1>2
  <2> QED
    BY <2>1, <2>2, <1>2
<1> QED
  BY <1>0, <1>1, <1>5, <1>6 DEF NoDuplicates

LEMMA LivesStep ==
  ASSUME Types, FileInv, QueueInv, LivesInv, NoDuplicates, [Next]_vars
  PROVE  LivesInv' /\ NoDuplicates'
<1>0. TypeOK /\ Len(lives) \in Nat /\ \A k \in 1..Len(lives) : lives[k] \in Nat
  <2>1. TypeOK
    BY DEF Types
  <2> QED
    BY <2>1, TailTyped
<1>1. CASE PollRead \/ PollStat \/ PollRest \/ PollLast
  <2>1. /\ Reach \in Nat /\ Reach' \in Nat /\ Reach <= Reach' /\ pc # "down"
        /\ \E m \in Nat : Returns(m)
        /\ ino \in Inodes /\ content \in Seq(File)
    BY <1>0, <1>1, PollLines, FilesTyped
  <2>2. PICK m \in Nat : Returns(m)
    BY <2>1
  <2>3. lives' \in Seq(Nat)
    <3>1. Types'
      BY <1>1, PollTypes
    <3> QED
      BY <3>1 DEF Types, TypeOK
  <2>4. \A k \in 1..m : \/ lives'[Len(lives) + k] = None
                        \/ lives'[Len(lives) + k] = Reach + k /\ Reach + k <= Reach'
    <3> SUFFICES ASSUME NEW k \in 1..m
                 PROVE  \/ lives'[Len(lives) + k] = None
                        \/ lives'[Len(lives) + k] = Reach + k /\ Reach + k <= Reach'
      OBVIOUS
    <3>1. /\ lives'[Len(lives) + k] = trail'[Len(trail) + k].line
          /\ Nth(k, trail'[Len(trail) + k])
          /\ Upto(ino, trail'[Len(trail) + k].off) <= Reach'
      BY <2>2 DEF Returns
    <3> QED
      BY <3>1 DEF Nth
  <2>5. /\ Len(lives') = Len(lives) + m
        /\ \A k \in 1..Len(lives) : lives'[k] = lives[k]
    BY <2>2 DEF Returns
  <2>6. PICK r \in Nat : r = Reach
    BY <2>1
  <2>7. PICK s \in Nat : s = Reach'
    BY <2>1
  <2>8. \A k \in 1..Len(lives) : lives[k] <= r
    BY <2>1, <2>6 DEF LivesInv
  <2>9. NoDuplicates' /\ \A k \in 1..Len(lives') : lives'[k] <= s
    <3>1. r <= s
      BY <2>1, <2>6, <2>7
    <3>2. \A k \in 1..m : lives'[Len(lives) + k] = None
                          \/ (lives'[Len(lives) + k] = r + k /\ r + k <= s)
      BY <2>4, <2>6, <2>7
    <3> QED
      BY <1>0, <2>3, <2>5, <2>8, <3>1, <3>2, Extend
  <2> QED
    BY <2>7, <2>9 DEF LivesInv
<1>2. CASE Start
  <2>1. lives' = << >>
    BY <1>2 DEF Start
  <2>2. Len(lives') = 0 /\ DOMAIN lives' = {}
    BY <2>1
  <2> QED
    BY <2>2 DEF LivesInv, NoDuplicates
<1>3. CASE ~(PollRead \/ PollStat \/ PollRest \/ PollLast) /\ ~Start
  <2>1. UNCHANGED lives
    <3>1. Source => UNCHANGED lives
      BY <1>0, SourceFacts DEF hist
    <3>2. PollOpen \/ Settle \/ Checkpoint \/ Crash \/ UNCHANGED vars => UNCHANGED lives
      BY DEF PollOpen, Settle, Checkpoint, Crash, vars, hist
    <3> QED
      BY <1>3, <3>1, <3>2 DEF Next, Poll, Source
  <2>2. pc' # "down" => pc # "down"
    <3>1. Source => UNCHANGED pc
      BY <1>0, SourceFacts
    <3>2. PollOpen \/ Settle \/ Checkpoint \/ Crash \/ UNCHANGED vars => pc' = "down" \/ pc # "down"
      BY DEF PollOpen, Settle, Checkpoint, Crash, vars
    <3> QED
      BY <1>3, <3>1, <3>2 DEF Next, Poll, Source
  <2>3. NoDuplicates'
    BY <2>1 DEF NoDuplicates
  <2>4. ASSUME pc' # "down", NEW k \in 1..Len(lives)
        PROVE  lives[k] <= Reach'
    <3>1. Reach \in Nat /\ Reach' \in Nat /\ Reach <= Reach'
      BY <2>2, <2>4, ReachGrows
    <3>2. lives[k] <= Reach
      BY <2>2, <2>4 DEF LivesInv
    <3> QED
      BY <1>0, <3>1, <3>2
  <2> QED
    BY <2>1, <2>3, <2>4 DEF LivesInv
<1> QED
  BY <1>1, <1>2, <1>3

LEMMA OrderInit ==
  ASSUME Init
  PROVE  FileInv /\ QueueInv /\ LivesInv /\ NoDuplicates
<1>1. /\ content = <<[before |-> 0, size |-> 0]>> /\ mtime = <<0>>
      /\ path = 1 /\ rotated = {} /\ line = 0 /\ clock = 0
      /\ pc = "down" /\ pending = << >> /\ lives = << >>
  BY DEF Init
<1>2. Ended(0) = 0 /\ Ended(0 + 1) = 0
  BY DEF Ended
<1>3. Len(content) = 1 /\ content[1].before = 0 /\ content[1].size = 0 /\ mtime[1] = 0
  BY <1>1
<1>4. Inodes = {1} /\ Begun(1) = 0
  BY <1>2, <1>3 DEF Inodes, Begun, Size
<1>5. FileInv
  BY <1>1, <1>3, <1>4 DEF FileInv, None
<1>6. Len(pending) = 0 /\ DOMAIN lives = {}
  BY <1>1
<1> QED
  BY <1>1, <1>5, <1>6 DEF QueueInv, LivesInv, NoDuplicates

OrderInv == Types /\ FileInv /\ QueueInv /\ LivesInv /\ NoDuplicates

LEMMA OrderAlways == Spec => []OrderInv
<1>1. Init => OrderInv
  BY TypeInit, OrderInit DEF OrderInv
<1>2. OrderInv /\ [Next]_vars => OrderInv'
  <2> SUFFICES ASSUME Types, FileInv, QueueInv, LivesInv, NoDuplicates, [Next]_vars
               PROVE  OrderInv'
    BY DEF OrderInv
  <2>1. Types'
    BY TypeStep
  <2>2. FileInv'
    BY FileStep DEF Types
  <2>3. QueueInv'
    BY QueueStep
  <2>4. LivesInv' /\ NoDuplicates'
    BY LivesStep
  <2> QED
    BY <2>1, <2>2, <2>3, <2>4 DEF OrderInv
<1> QED
  BY <1>1, <1>2, PTL DEF Spec

\* One process never returns a line twice, and returns lines in the order they were
\* written: through every rotation, truncation and re-creation, and whatever
\* becomes of the files it still has to read.
THEOREM ReturnedOnce == Spec => []NoDuplicates
<1>1. OrderInv => NoDuplicates
  BY DEF OrderInv
<1> QED
  BY <1>1, OrderAlways, PTL

-----------------------------------------------------------------------------
(* The checkpoint covers what it says it covers, as long as no file was    *)
(* truncated.                                                              *)

TrailLines(k) == {trail[j].line : j \in 1..k}

\* The lines of file i up to offset o are in S, or were there before; and a reader
\* that goes on inside a line does so at the end of a file that is no longer
\* written, or in a line that was there before.
Sound(i, o, S) ==
  /\ o <= Size(i)
  /\ Inside(o) => \/ i # path /\ o = Size(i)
                  \/ content[i].before + Ended(o) + 1 <= origin
  /\ \A l \in LinesIn(i, o) : l \in S \/ l \in 0..origin

CoverInv ==
  truncates = 0 =>
    /\ saved.ino # None => Sound(saved.ino, saved.off, sent)
    /\ committed.ino # None => Sound(committed.ino, committed.off, sent)
    /\ \A k \in 1..Len(trail) :
         Sound(trail[k].ino, trail[k].off, sent \cup TrailLines(k))
    /\ pc # "down" /\ ino # None => Sound(ino, off, sent \cup TrailLines(Len(trail)))

LEMMA SoundGrows ==
  ASSUME NEW i, NEW o, NEW S, NEW T, S \subseteq T, Sound(i, o, S)
  PROVE  Sound(i, o, T)
BY DEF Sound

\* A line of a file that ends in its first o units.
LEMMA LinesUpto ==
  ASSUME content \in Seq(File), NEW i \in Inodes, NEW o \in Nat, o <= Size(i),
         NEW l \in LinesIn(i, o)
  PROVE  l \in Nat /\ l # None /\ content[i].before < l /\ l <= Upto(i, o)
<1>1. PICK b \in Nat : b = content[i].before
  BY FileType
<1>2. PICK e \in Nat : e = Ended(o)
  BY Halves
<1>3. Upto(i, o) = b + e /\ l \in (b + 1)..(b + e)
  BY <1>1, <1>2 DEF Upto, LinesIn
<1>4. l \in Nat /\ l # 0 /\ b < l /\ l <= b + e
  BY <1>3
<1> QED
  BY <1>1, <1>3, <1>4 DEF None

LEMMA NoLines ==
  ASSUME content \in Seq(File), NEW i \in Inodes, NEW S
  PROVE  Sound(i, 0, S)
<1>1. ~Inside(0) /\ Ended(0) = 0
  BY DEF Inside, Ended
<1>2. PICK b \in Nat : b = content[i].before
  BY FileType
<1>3. (b + 1)..(b + 0) = {}
  OBVIOUS
<1>4. LinesIn(i, 0) = {}
  BY <1>1, <1>2, <1>3 DEF LinesIn
<1>5. 0 <= Size(i)
  BY FileType
<1> QED
  BY <1>1, <1>4, <1>5 DEF Sound

LEMMA SoundSource ==
  ASSUME TypeOK, Source, truncates = 0, truncates' = 0,
         NEW i \in Inodes, NEW o \in Nat, NEW S, Sound(i, o, S)
  PROVE  Sound(i, o, S)'
<1>1. content \in Seq(File) /\ Size(i) \in Nat /\ Len(content) \in Nat
  <2>1. content \in Seq(File) /\ Len(content) \in Nat
    BY FilesTyped
  <2> QED
    BY <2>1, FileType
<1>2. ~Truncate
  BY DEF Truncate
<1>3. origin' = origin
  BY SourceFacts DEF hist
<1>4. /\ content'[i].before = content[i].before
      /\ Size(i)' \in Nat /\ Size(i) <= Size(i)'
      /\ i # path => i # path' /\ Size(i)' = Size(i)
  <2>1. CASE Write
    <3>1. path' = path
      BY <2>1 DEF Write
    <3>2. CASE i = path
      <4>1. content'[path].before = content[path].before /\ Size(path)' = Size(path) + 1
        BY <2>1, WriteFacts
      <4>2. Size(i)' = Size(i) + 1
        BY <4>1, <3>1, <3>2 DEF Size
      <4> QED
        BY <1>1, <3>2, <4>1, <4>2
    <3>3. CASE i # path
      <4>1. content'[i] = content[i]
        BY <2>1, <3>3, WriteFacts
      <4> QED
        BY <1>1, <3>1, <3>3, <4>1 DEF Size
    <3> QED
      BY <3>2, <3>3
  <2>2. CASE Create
    <3>1. content'[i] = content[i] /\ path' = Len(content) + 1
      BY <2>2, CreateFacts
    <3>2. i # path'
      BY <1>1, <3>1 DEF Inodes
    <3> QED
      BY <1>1, <3>1, <3>2 DEF Size
  <2>3. CASE Rotate \/ Delete \/ \E j \in rotated : Expire(j)
    <3>1. content' = content /\ path' \in {path, None}
      BY <2>3 DEF Rotate, Delete, Expire
    <3>2. i # None
      BY <1>1, FileType
    <3> QED
      BY <1>1, <3>1, <3>2 DEF Size
  <2> QED
    BY <1>2, <2>1, <2>2, <2>3 DEF Source
<1>5. LinesIn(i, o)' = LinesIn(i, o)
  BY <1>4 DEF LinesIn
<1>6. o <= Size(i)'
  BY <1>1, <1>4 DEF Sound
<1>7. Inside(o) => \/ i # path' /\ o = Size(i)'
                   \/ content'[i].before + Ended(o) + 1 <= origin'
  BY <1>3, <1>4 DEF Sound
<1>8. \A l \in LinesIn(i, o)' : l \in S \/ l \in 0..origin'
  BY <1>3, <1>5 DEF Sound
<1> QED
  BY <1>6, <1>7, <1>8 DEF Sound, Size

\* What a poll returns is covered by what it returns with it.
LEMMA PollCover ==
  ASSUME Types, FileInv, QueueInv, CoverInv, PollRead \/ PollStat \/ PollRest \/ PollLast
  PROVE  CoverInv'
<1>0. /\ TypeOK /\ content \in Seq(File) /\ off \in Nat /\ Len(trail) \in Nat
      /\ Reach \in Nat /\ Reach' \in Nat
      /\ open /\ ino \in Inodes /\ ino # None /\ pc # "down" /\ pc' # "down"
      /\ UNCHANGED <<content, path, origin, truncates, saved, committed, sent, ino>>
      /\ ~open' => (pc = "stat" /\ path = None) \/ pc = "rest"
      /\ \E m \in Nat : Returns(m)
  <2>1. TypeOK
    BY DEF Types
  <2>2. content \in Seq(File) /\ off \in Nat /\ Len(trail) \in Nat
    BY <2>1, FilesTyped, TailTyped
  <2>3. /\ Reach \in Nat /\ Reach' \in Nat
        /\ \E m \in Nat : Returns(m)
        /\ open /\ ino \in Inodes /\ UNCHANGED Kept /\ pc # "down" /\ pc' # "down"
        /\ ~open' => (pc = "stat" /\ path = None) \/ pc = "rest"
    BY PollLines
  <2>4. ino # None
    BY <2>2, <2>3, FileType
  <2>5. UNCHANGED <<content, path, origin, truncates, saved, committed, sent, ino>>
    BY <2>3 DEF Kept, fs, caps
  <2> QED
    BY <2>1, <2>2, <2>3, <2>4, <2>5
<1> SUFFICES ASSUME truncates = 0
             PROVE  /\ saved.ino # None => Sound(saved.ino, saved.off, sent)'
                    /\ committed.ino # None => Sound(committed.ino, committed.off, sent)'
                    /\ \A k \in 1..Len(trail') :
                         Sound(trail[k].ino, trail[k].off, sent \cup TrailLines(k))'
                    /\ Sound(ino, off, sent \cup TrailLines(Len(trail)))'
  BY <1>0 DEF CoverInv
<1>1. PICK m \in Nat : Returns(m)
  BY <1>0
<1>2. PICK n \in Nat : n = Len(trail)
  BY <1>0
<1>3. PICK r \in Nat : r = Reach
  BY <1>0
<1>4. /\ Len(trail') = n + m
      /\ \A k \in 1..n : trail'[k] = trail[k]
      /\ \A k \in 1..m : Nth(k, trail'[n + k])
  BY <1>1, <1>2 DEF Returns
<1>5. /\ \A k \in 1..n : Sound(trail[k].ino, trail[k].off, sent \cup TrailLines(k))
      /\ Sound(ino, off, sent \cup TrailLines(n))
      /\ saved.ino # None => Sound(saved.ino, saved.off, sent)
      /\ committed.ino # None => Sound(committed.ino, committed.off, sent)
  BY <1>0, <1>2 DEF CoverInv
<1>6. r = Upto(ino, off) /\ off <= Size(ino)
  BY <1>0, <1>3, <1>5 DEF Reach, Sound
<1>7. ~open' => path # ino
  BY <1>0 DEF QueueInv
<1>8. \A k \in 1..n : TrailLines(k)' = TrailLines(k)
  BY <1>4 DEF TrailLines
<1>9. TrailLines(n) \subseteq TrailLines(n + m)'
  BY <1>4 DEF TrailLines
<1>10. \A j \in 1..m, k \in 1..m : j <= k => trail'[n + j].line \in TrailLines(n + k)'
  BY DEF TrailLines
<1>11. \A k \in 1..m : TrailLines(n + k)' \subseteq TrailLines(n + m)' /\ TrailLines(n) \subseteq TrailLines(n + k)'
  <2> SUFFICES ASSUME NEW k \in 1..m
               PROVE  TrailLines(n + k)' \subseteq TrailLines(n + m)' /\ TrailLines(n) \subseteq TrailLines(n + k)'
    OBVIOUS
  <2>1. 1..(n + k) \subseteq 1..(n + m) /\ 1..n \subseteq 1..(n + k)
    OBVIOUS
  <2> QED
    BY <1>4, <2>1 DEF TrailLines
<1>12. ASSUME NEW k \in 1..m
       PROVE  Sound(ino, trail'[n + k].off, sent \cup TrailLines(n + k)')
  <2>1. PICK o : o = trail'[n + k].off
    OBVIOUS
  <2>2. /\ o <= Size(ino)
        /\ \/ Upto(ino, o) = r + k /\ ~Inside(o)
           \/ Upto(ino, o) = Whole(ino) /\ Whole(ino) = r + (k - 1) /\ o = Size(ino) /\ ~open'
    BY <1>3, <1>4, <2>1 DEF Nth
  <2>3. o \in Nat
    <3>1. Types'
      BY PollTypes
    <3>2. \A j \in 1..Len(trail') : trail'[j].off \in Nat
      <4>1. trail' \in Seq(Entry)
        BY <3>1 DEF Types, TypeOK, Entry
      <4>2. \A j \in 1..Len(trail') : trail'[j] \in Entry
        BY <4>1, ElementOfSeq
      <4> QED
        BY <4>2 DEF Entry
    <3>3. n + k \in 1..(n + m)
      OBVIOUS
    <3> QED
      BY <1>4, <2>1, <3>2, <3>3
  <2>4. Inside(o) => ino # path /\ o = Size(ino)
    BY <1>7, <2>2
  <2>5. Upto(ino, o) <= r + k /\ Upto(ino, o) <= Whole(ino) /\ Whole(ino) \in Nat
    <3>1. Whole(ino) \in Nat
      BY <1>0, LineFacts
    <3>2. Upto(ino, o) <= Whole(ino)
      BY <1>0, <2>3, UptoFacts
    <3> QED
      BY <2>2, <3>1, <3>2
  <2>6. ASSUME NEW l \in LinesIn(ino, o)
        PROVE  l \in sent \cup TrailLines(n + k)' \/ l \in 0..origin
    <3>1. l \in Nat /\ l # None /\ content[ino].before < l /\ l <= r + k /\ l <= Whole(ino)
      <4>1. l \in Nat /\ l # None /\ content[ino].before < l /\ l <= Upto(ino, o)
        BY <1>0, <2>2, <2>3, <2>6, LinesUpto
      <4>2. Upto(ino, o) \in Nat
        BY <1>0, <2>3, UptoFacts
      <4> QED
        BY <4>1, <4>2, <2>5
    <3>2. CASE l <= r
      <4>1. l \in LinesIn(ino, off)
        <5>1. PICK b \in Nat : b = content[ino].before
          BY <1>0, FileType
        <5>2. PICK e \in Nat : e = Ended(off)
          BY <1>0, Halves
        <5>3. r = b + e
          BY <1>6, <5>1, <5>2 DEF Upto
        <5>4. l \in (b + 1)..(b + e)
          BY <3>1, <3>2, <5>1, <5>3
        <5> QED
          BY <5>1, <5>2, <5>4 DEF LinesIn
      <4>2. l \in sent \cup TrailLines(n) \/ l \in 0..origin
        BY <4>1, <1>5 DEF Sound
      <4> QED
        BY <4>2, <1>11
    <3>3. CASE l > r
      <4>1. PICK j \in 1..m : l = r + j /\ j <= k
        <5>1. l - r \in 1..m /\ l = r + (l - r) /\ l - r <= k
          BY <3>1, <3>3
        <5> QED
          BY <5>1
      <4>2. /\ trail'[n + j].line = r + j
               \/ (trail'[n + j].line = None /\ j = 1 /\ Inside(off) /\ off < Size(ino))
               \/ Whole(ino) = r + (j - 1)
        BY <1>3, <1>4 DEF Nth
      <4>3. CASE trail'[n + j].line = r + j
        BY <4>1, <4>3, <1>10
      <4>4. CASE j = 1 /\ Inside(off) /\ off < Size(ino)
        <5>1. content[ino].before + Ended(off) + 1 <= origin
          <6>1. Size(ino) \in Nat
            BY <1>0, FileType
          <6>2. off # Size(ino)
            BY <4>4, <6>1, <1>0
          <6> QED
            BY <1>5, <4>4, <6>2 DEF Sound
        <5>2. PICK b \in Nat : b = content[ino].before
          BY <1>0, FileType
        <5>3. PICK e \in Nat : e = Ended(off)
          BY <1>0, Halves
        <5>4. r = b + e
          BY <1>6, <5>2, <5>3 DEF Upto
        <5>5. origin \in Int
          BY <1>0, TailTyped
        <5> QED
          BY <5>1, <5>2, <5>3, <5>4, <5>5, <4>1, <4>4, <3>1
      <4>5. ~(Whole(ino) = r + (j - 1))
        BY <3>1, <4>1, <2>5
      <4> QED
        BY <4>2, <4>3, <4>4, <4>5
    <3> QED
      BY <3>1, <3>2, <3>3
  <2> QED
    BY <2>1, <2>2, <2>4, <2>6 DEF Sound
<1>13. UNCHANGED <<content, path, origin>>
  BY <1>0
<1>14. saved.ino # None => Sound(saved.ino, saved.off, sent)'
  BY <1>0, <1>5 DEF Sound, Size, LinesIn
<1>15. committed.ino # None => Sound(committed.ino, committed.off, sent)'
  BY <1>0, <1>5 DEF Sound, Size, LinesIn
<1>16. ASSUME NEW k \in 1..Len(trail')
       PROVE  Sound(trail[k].ino, trail[k].off, sent \cup TrailLines(k))'
  <2>1. CASE k \in 1..n
    <3>1. Sound(trail[k].ino, trail[k].off, sent \cup TrailLines(k))
      BY <2>1, <1>5
    <3>2. trail'[k] = trail[k] /\ TrailLines(k)' = TrailLines(k)
      BY <2>1, <1>4, <1>8
    <3> QED
      BY <3>1, <3>2, <1>0 DEF Sound, Size, LinesIn
  <2>2. CASE \E j \in 1..m : k = n + j
    <3>1. PICK j \in 1..m : k = n + j
      BY <2>2
    <3>2. Sound(ino, trail'[k].off, sent \cup TrailLines(k)') /\ trail'[k].ino = ino
      BY <3>1, <1>4, <1>12 DEF Nth
    <3> QED
      BY <3>2, <1>0 DEF Sound, Size, LinesIn
  <2>3. k \in 1..n \/ \E j \in 1..m : k = n + j
    <3> SUFFICES ASSUME ~(k \in 1..n) PROVE \E j \in 1..m : k = n + j
      OBVIOUS
    <3>1. k \in 1..(n + m)
      BY <1>4
    <3>2. k - n \in 1..m /\ k = n + (k - n)
      BY <3>1
    <3> QED
      BY <3>2
  <2> QED
    BY <2>1, <2>2, <2>3
<1>17. Sound(ino, off, sent \cup TrailLines(Len(trail)))'
  <2>1. Sound(ino, off', sent \cup TrailLines(n + m)')
    <3>1. CASE off' = off
      BY <3>1, <1>5, <1>9, SoundGrows DEF Sound
    <3>2. CASE \E k \in 1..m : off' = trail'[n + k].off
      BY <3>2, <1>11, <1>12 DEF Sound
    <3>3. ~(off > Size(ino))
      <4>1. Size(ino) \in Nat
        BY <1>0, FileType
      <4> QED
        BY <4>1, <1>0, <1>6
    <3> QED
      BY <3>1, <3>2, <3>3, <1>1, <1>2 DEF Returns
  <2> QED
    BY <2>1, <1>0, <1>4 DEF Sound, Size, LinesIn
<1> QED
  BY <1>0, <1>14, <1>15, <1>16, <1>17

LEMMA SourceCover ==
  ASSUME Types, CoverInv, Source
  PROVE  CoverInv'
<1>0. /\ TypeOK /\ UNCHANGED <<pc, ino, off, trail, committed, saved, sent>>
      /\ off \in Nat /\ saved.off \in Nat /\ committed.off \in Nat /\ truncates \in Nat
      /\ \A k \in 1..Len(trail) : trail[k].off \in Nat
  <2>1. TypeOK
    BY DEF Types
  <2>2. UNCHANGED <<pc, ino, off, trail, committed, saved, sent>>
    BY <2>1, SourceFacts DEF tail, track, hist
  <2>3. off \in Nat /\ saved.off \in Nat /\ committed.off \in Nat
        /\ \A k \in 1..Len(trail) : trail[k].off \in Nat
    BY <2>1, TailTyped
  <2> QED
    BY <2>1, <2>2, <2>3, FilesTyped
<1>1. /\ saved.ino # None => saved.ino \in Inodes
      /\ committed.ino # None => committed.ino \in Inodes
      /\ ino # None => ino \in Inodes
      /\ \A k \in 1..Len(trail) : trail[k].ino \in Inodes
  <2>1. Len(content) \in Nat /\ DOMAIN trail = 1..Len(trail) /\ ino \in 0..Len(content)
    BY <1>0, FilesTyped, TailTyped
  <2> QED
    BY <2>1 DEF Types, PlaceInv, Inodes, None
<1> SUFFICES ASSUME truncates' = 0
             PROVE  /\ saved.ino # None => Sound(saved.ino, saved.off, sent)'
                    /\ committed.ino # None => Sound(committed.ino, committed.off, sent)'
                    /\ \A k \in 1..Len(trail) :
                         Sound(trail[k].ino, trail[k].off, sent \cup TrailLines(k))'
                    /\ pc # "down" /\ ino # None => Sound(ino, off, sent \cup TrailLines(Len(trail)))'
  BY <1>0 DEF CoverInv
<1>2. truncates = 0
  <2>1. truncates' = truncates \/ truncates' = truncates + 1
    BY DEF Source, Write, Create, Rotate, Delete, Truncate, Expire, caps
  <2> QED
    BY <2>1, <1>0
<1>3. \A i \in Inodes, o \in Nat : \A S : Sound(i, o, S) => Sound(i, o, S)'
  BY <1>0, <1>2, SoundSource
<1>4. saved.ino # None => Sound(saved.ino, saved.off, sent)'
  <2> SUFFICES ASSUME saved.ino # None PROVE Sound(saved.ino, saved.off, sent)'
    OBVIOUS
  <2>1. PICK i \in Inodes, o \in Nat : i = saved.ino /\ o = saved.off
    BY <1>0, <1>1
  <2>2. PICK S : S = sent
    OBVIOUS
  <2>3. Sound(i, o, S)'
    BY <1>2, <1>3, <2>1, <2>2 DEF CoverInv
  <2> QED
    BY <2>1, <2>2, <2>3, <1>0 DEF Sound, Size, LinesIn
<1>5. committed.ino # None => Sound(committed.ino, committed.off, sent)'
  <2> SUFFICES ASSUME committed.ino # None PROVE Sound(committed.ino, committed.off, sent)'
    OBVIOUS
  <2>1. PICK i \in Inodes, o \in Nat : i = committed.ino /\ o = committed.off
    BY <1>0, <1>1
  <2>2. PICK S : S = sent
    OBVIOUS
  <2>3. Sound(i, o, S)'
    BY <1>2, <1>3, <2>1, <2>2 DEF CoverInv
  <2> QED
    BY <2>1, <2>2, <2>3, <1>0 DEF Sound, Size, LinesIn
<1>6. ASSUME NEW k \in 1..Len(trail)
      PROVE  Sound(trail[k].ino, trail[k].off, sent \cup TrailLines(k))'
  <2>1. PICK i \in Inodes, o \in Nat : i = trail[k].ino /\ o = trail[k].off
    BY <1>0, <1>1
  <2>2. PICK S : S = sent \cup TrailLines(k)
    OBVIOUS
  <2>3. Sound(i, o, S)'
    BY <1>2, <1>3, <2>1, <2>2 DEF CoverInv
  <2>4. (sent \cup TrailLines(k))' = S
    BY <2>2, <1>0 DEF TrailLines
  <2> QED
    BY <2>1, <2>3, <2>4, <1>0 DEF Sound, Size, LinesIn
<1>7. pc # "down" /\ ino # None => Sound(ino, off, sent \cup TrailLines(Len(trail)))'
  <2> SUFFICES ASSUME pc # "down", ino # None
               PROVE  Sound(ino, off, sent \cup TrailLines(Len(trail)))'
    OBVIOUS
  <2>1. PICK i \in Inodes, o \in Nat : i = ino /\ o = off
    BY <1>0, <1>1
  <2>2. PICK S : S = sent \cup TrailLines(Len(trail))
    OBVIOUS
  <2>3. Sound(i, o, S)'
    BY <1>2, <1>3, <2>1, <2>2 DEF CoverInv
  <2>4. (sent \cup TrailLines(Len(trail)))' = S
    BY <2>2, <1>0 DEF TrailLines
  <2> QED
    BY <2>1, <2>3, <2>4, <1>0 DEF Sound, Size, LinesIn
<1> QED
  BY <1>4, <1>5, <1>6, <1>7

LEMMA SettleCover ==
  ASSUME Types, CoverInv, Settle
  PROVE  CoverInv'
<1>0. /\ trail # << >> /\ Len(trail) > 0 /\ 1 \in 1..Len(trail)
      /\ committed' = [ino |-> trail[1].ino, off |-> trail[1].off]
      /\ sent' = sent \cup ({trail[1].line} \ {None})
      /\ Len(trail') = Len(trail) - 1
      /\ \A k \in 1..Len(trail') : trail'[k] = trail[k + 1] /\ k + 1 \in 1..Len(trail)
      /\ pc = "poll" /\ UNCHANGED <<fs, caps, pc, tail, saved, lives, origin, first, loss>>
  BY SettleFacts
<1>1. UNCHANGED <<content, path, origin, truncates, saved, pc, ino, off>>
  BY <1>0 DEF fs, caps, tail
<1>2. /\ content \in Seq(File) /\ Len(trail) \in Nat /\ Len(content) \in Nat
      /\ \A k \in 1..Len(trail) : trail[k].ino \in Inodes /\ trail[k].off \in Nat
      /\ ino # None => ino \in Inodes /\ off \in Nat
  <2>1. TypeOK
    BY DEF Types
  <2>2. content \in Seq(File) /\ Len(content) \in Nat
    BY <2>1, FilesTyped
  <2>3. /\ DOMAIN trail = 1..Len(trail) /\ Len(trail) \in Nat /\ off \in Nat /\ ino \in 0..Len(content)
        /\ \A k \in 1..Len(trail) : trail[k].off \in Nat
    BY <2>1, TailTyped
  <2> QED
    BY <2>2, <2>3 DEF Types, PlaceInv, Inodes, None
<1> SUFFICES ASSUME truncates = 0
             PROVE  /\ saved.ino # None => Sound(saved.ino, saved.off, sent')
                    /\ Sound(trail[1].ino, trail[1].off, sent')
                    /\ \A k \in 1..Len(trail') :
                         Sound(trail'[k].ino, trail'[k].off, sent' \cup TrailLines(k)')
                    /\ ino # None => Sound(ino, off, sent' \cup TrailLines(Len(trail))')
  <2>1. committed'.ino = trail[1].ino /\ committed'.off = trail[1].off
    BY <1>0
  <2> QED
    BY <1>1, <2>1 DEF CoverInv, Sound, Size, LinesIn
<1>3. PICK n \in Nat : n = Len(trail) /\ n > 0
  BY <1>0, <1>2
<1>4. \A k \in 1..n : \A l \in TrailLines(k) : l = trail[1].line \/ \E j \in 1..(k - 1) : l = trail'[j].line
  <2> SUFFICES ASSUME NEW k \in 1..n, NEW l \in TrailLines(k), l # trail[1].line
               PROVE  \E j \in 1..(k - 1) : l = trail'[j].line
    OBVIOUS
  <2>1. PICK j \in 1..k : l = trail[j].line
    BY DEF TrailLines
  <2>2. j # 1
    BY <2>1
  <2>3. j - 1 \in 1..(k - 1) /\ j - 1 \in 1..Len(trail') /\ (j - 1) + 1 = j
    BY <2>2, <1>0, <1>3
  <2>4. trail'[j - 1] = trail[j]
    BY <1>0, <2>3
  <2> QED
    BY <2>1, <2>3, <2>4
<1>5. ASSUME NEW k \in 1..n, NEW i \in Inodes, NEW o \in Nat,
             Sound(i, o, sent \cup TrailLines(k))
      PROVE  Sound(i, o, sent' \cup TrailLines(k - 1)')
  <2>1. o <= Size(i)
    BY <1>5 DEF Sound
  <2>2. ASSUME NEW l \in LinesIn(i, o)
        PROVE  l \in sent' \cup TrailLines(k - 1)' \/ l \in 0..origin
    <3>1. l # None
      BY <1>2, <2>1, <2>2, LinesUpto
    <3>2. l \in sent \cup TrailLines(k) \/ l \in 0..origin
      BY <1>5, <2>2 DEF Sound
    <3>3. CASE l \in TrailLines(k)
      <4>1. l = trail[1].line \/ \E j \in 1..(k - 1) : l = trail'[j].line
        BY <1>4, <3>3
      <4> QED
        BY <4>1, <3>1, <1>0 DEF TrailLines
    <3> QED
      BY <3>2, <3>3, <1>0
  <2> QED
    BY <1>5, <2>2 DEF Sound
<1>6. saved.ino # None => Sound(saved.ino, saved.off, sent')
  BY <1>0 DEF CoverInv, Sound
<1>7. Sound(trail[1].ino, trail[1].off, sent')
  <2>1. Sound(trail[1].ino, trail[1].off, sent \cup TrailLines(1))
    BY <1>0 DEF CoverInv
  <2>2. Sound(trail[1].ino, trail[1].off, sent' \cup TrailLines(1 - 1)')
    <3>1. 1 \in 1..n
      BY <1>3
    <3> QED
      BY <1>0, <1>2, <1>5, <2>1, <3>1
  <2>3. TrailLines(1 - 1)' = {}
    BY DEF TrailLines
  <2> QED
    BY <2>2, <2>3 DEF Sound
<1>8. ASSUME NEW k \in 1..Len(trail')
      PROVE  Sound(trail'[k].ino, trail'[k].off, sent' \cup TrailLines(k)')
  <2>1. trail'[k] = trail[k + 1] /\ k + 1 \in 1..n /\ (k + 1) - 1 = k
    BY <1>0, <1>3
  <2>2. Sound(trail[k + 1].ino, trail[k + 1].off, sent \cup TrailLines(k + 1))
    BY <1>3, <2>1 DEF CoverInv
  <2>3. Sound(trail[k + 1].ino, trail[k + 1].off, sent' \cup TrailLines((k + 1) - 1)')
    BY <1>2, <1>3, <1>5, <2>1, <2>2
  <2> QED
    BY <2>1, <2>3
<1>9. ino # None => Sound(ino, off, sent' \cup TrailLines(Len(trail))')
  <2> SUFFICES ASSUME ino # None PROVE Sound(ino, off, sent' \cup TrailLines(Len(trail))')
    OBVIOUS
  <2>1. Sound(ino, off, sent \cup TrailLines(n))
    BY <1>0, <1>3 DEF CoverInv
  <2>2. n \in 1..n /\ Len(trail') = n - 1
    BY <1>0, <1>3
  <2>3. Sound(ino, off, sent' \cup TrailLines(n - 1)')
    BY <1>2, <1>5, <2>1, <2>2
  <2> QED
    BY <2>2, <2>3 DEF TrailLines
<1> QED
  BY <1>6, <1>7, <1>8, <1>9

LEMMA OpenCover ==
  ASSUME Types, FileInv, QueueInv, CoverInv, PollOpen
  PROVE  CoverInv'
<1>1. /\ UNCHANGED <<content, path, origin, truncates, saved, committed, sent, trail>>
      /\ pc # "down"
  BY OpenFacts DEF fs, caps, track
<1>2. \/ off' = 0 /\ ino' \in Inodes
      \/ UNCHANGED <<ino, off>>
  BY OpenReach
<1>3. content \in Seq(File)
  BY FilesTyped DEF Types
<1>4. ASSUME truncates = 0, ino' # None
      PROVE  Sound(ino', off', sent \cup TrailLines(Len(trail)))
  <2>1. CASE off' = 0 /\ ino' \in Inodes
    <3>1. PICK i \in Inodes : i = ino'
      BY <2>1
    <3>2. \A S : Sound(i, 0, S)
      BY <1>3, NoLines
    <3> QED
      BY <2>1, <3>1, <3>2
  <2>2. CASE UNCHANGED <<ino, off>>
    BY <1>1, <1>4, <2>2 DEF CoverInv
  <2> QED
    BY <1>2, <2>1, <2>2
<1> QED
  BY <1>1, <1>4 DEF CoverInv, Sound, Size, LinesIn, TrailLines

LEMMA SaveCover ==
  ASSUME Types, CoverInv, Checkpoint \/ Crash \/ UNCHANGED vars
  PROVE  CoverInv'
<1>1. CASE Checkpoint
  <2>1. /\ UNCHANGED <<content, path, origin, truncates, committed, sent, trail, ino, off>>
        /\ pc # "down" /\ saved' \in {saved, committed}
    BY <1>1 DEF Checkpoint, fs, caps, tail, hist
  <2>2. CASE saved' = saved
    BY <2>1, <2>2 DEF CoverInv, Sound, Size, LinesIn, TrailLines
  <2>3. CASE saved' = committed
    BY <2>1, <2>3 DEF CoverInv, Sound, Size, LinesIn, TrailLines
  <2> QED
    BY <2>1, <2>2, <2>3
<1>2. CASE Crash
  <2>1. /\ UNCHANGED <<content, path, origin, truncates, saved, committed, sent>>
        /\ pc' = "down" /\ trail' = << >>
    BY <1>2 DEF Crash, fs, hist
  <2>2. Len(trail') = 0
    BY <2>1
  <2> QED
    BY <2>1, <2>2 DEF CoverInv, Sound, Size, LinesIn
<1>3. CASE UNCHANGED vars
  <2>1. UNCHANGED <<content, path, origin, truncates, saved, committed, sent, trail, pc, ino, off>>
    BY <1>3 DEF vars, fs, caps, tail, track, hist
  <2> QED
    BY <2>1 DEF CoverInv, Sound, Size, LinesIn, TrailLines
<1> QED
  BY <1>1, <1>2, <1>3

\* A first run begins with everything before it accounted for; a later one where
\* the checkpoint says, or at the beginning of a file.
LEMMA StartCover ==
  ASSUME Types, FileInv, CoverInv, Start
  PROVE  CoverInv'
<1>0. /\ TypeOK /\ content \in Seq(File) /\ Len(content) \in Nat /\ rotated \subseteq Inodes
      /\ path # None => path \in Inodes
      /\ line \in Nat
  BY FilesTyped DEF Types
<1>1. /\ UNCHANGED <<content, path, truncates, saved, sent>> /\ trail' = << >> /\ StartKind
      /\ saved = NoPos => origin' = Before
      /\ saved # NoPos => origin' = origin
  BY StartKinds DEF fs, caps
<1>3. saved.ino # None => saved # NoPos
  BY DEF NoPos
<1>4. saved # NoPos => saved.ino # None
  <2>1. saved \in Pos
    BY <1>0, TailTyped
  <2>2. saved.ino = None => saved.off = 0
    BY DEF Types, PlaceInv
  <2> QED
    BY <2>1, <2>2 DEF Pos, NoPos, None
<1> SUFFICES ASSUME truncates = 0
             PROVE  /\ saved.ino # None => Sound(saved.ino, saved.off, sent)'
                    /\ committed'.ino # None => Sound(committed.ino, committed.off, sent)'
                    /\ ino' # None => Sound(ino, off, sent \cup TrailLines(Len(trail)))'
  <2>1. Len(trail') = 0
    BY <1>1
  <2> QED
    BY <1>1, <2>1 DEF CoverInv
<1>5. saved.ino # None => Sound(saved.ino, saved.off, sent)'
  BY <1>1, <1>3 DEF CoverInv, Sound, Size, LinesIn
<1>6. ASSUME NEW i \in Inodes, NEW o, NEW owed, Opens(i, o, owed), Sound(i, o, sent)'
      PROVE  /\ committed'.ino # None => Sound(committed.ino, committed.off, sent)'
             /\ ino' # None => Sound(ino, off, sent \cup TrailLines(Len(trail)))'
  <2>1. committed'.ino = i /\ committed'.off = o /\ ino' = i /\ off' = o
    BY <1>6 DEF Opens
  <2> QED
    BY <2>1, <1>6 DEF Sound, Size, LinesIn
<1>7. ASSUME NEW i \in Inodes
      PROVE  Sound(i, 0, sent)'
  <2>1. \A S : Sound(i, 0, S)
    BY <1>0, NoLines
  <2>2. Inside(0) = FALSE
    BY DEF Inside
  <2>3. LinesIn(i, 0) = {}
    <3>1. PICK b \in Nat : b = content[i].before
      BY <1>0, FileType
    <3>2. (b + 1)..(b + 0) = {}
      OBVIOUS
    <3>3. Ended(0) = 0
      BY DEF Ended
    <3> QED
      BY <3>1, <3>2, <3>3 DEF LinesIn
  <2> QED
    BY <1>1, <2>1, <2>2, <2>3 DEF Sound, Size, LinesIn
<1>8. CASE Waits
  <2>1. committed'.ino = None /\ ino' = None
    BY <1>8 DEF Waits, NoPos
  <2> QED
    BY <1>5, <2>1
<1>9. CASE /\ saved = NoPos /\ path # None
           /\ Opens(path, IF StartFrom = "end" THEN Size(path) ELSE 0, << >>)
  <2>1. PICK i \in Inodes : i = path
    BY <1>0, <1>9
  <2>2. CASE StartFrom = "end"
    <3>1. origin' = line
      BY <1>1, <1>9, <2>2 DEF Before
    <3>2. Begun(i) = line
      BY <1>9, <2>1 DEF FileInv
    <3>3. /\ Begun(i) \in Nat /\ Whole(i) \in Nat
          /\ content[i].before \in Nat /\ Size(i) \in Nat /\ Ended(Size(i)) \in Nat
          /\ Partial(i) => Begun(i) = Whole(i) + 1
          /\ ~Partial(i) => Begun(i) = Whole(i)
      BY <1>0, LineFacts
    <3>4. PICK b \in Nat : b = content[i].before
      BY <3>3
    <3>5. PICK e \in Nat : e = Ended(Size(i))
      BY <3>3
    <3>6. Whole(i) = b + e
      BY <3>4, <3>5 DEF Whole
    <3>7. Inside(Size(i)) => content[i].before + Ended(Size(i)) + 1 <= origin'
      <4>1. Partial(i) => b + e + 1 <= line
        BY <3>2, <3>3, <3>6
      <4> QED
        BY <4>1, <3>1, <3>4, <3>5 DEF Partial
    <3>8. \A l \in LinesIn(i, Size(i)) : l \in 0..origin'
      <4>1. b + e <= line
        BY <3>2, <3>3, <3>6
      <4>2. \A l \in (b + 1)..(b + e) : l \in 0..line
        BY <4>1, <1>0
      <4> QED
        BY <4>2, <3>1, <3>4, <3>5 DEF LinesIn
    <3>9. PICK s \in Nat : s = Size(i)
      BY <3>3
    <3>10. Sound(i, s, sent)'
      <4>1. s <= s
        OBVIOUS
      <4> QED
        BY <4>1, <1>1, <3>7, <3>8, <3>9 DEF Sound, Size, LinesIn
    <3>11. Opens(i, s, << >>)
      BY <1>9, <2>1, <2>2, <3>9
    <3> QED
      BY <1>5, <1>6, <3>10, <3>11
  <2>3. CASE StartFrom # "end"
    <3>1. Opens(i, 0, << >>)
      BY <1>9, <2>1, <2>3
    <3> QED
      BY <1>5, <1>6, <1>7, <3>1
  <2> QED
    BY <2>2, <2>3
<1>10. ASSUME NEW owed, saved # NoPos, saved.ino \in Inodes, Opens(saved.ino, saved.off, owed)
       PROVE  /\ committed'.ino # None => Sound(committed.ino, committed.off, sent)'
              /\ ino' # None => Sound(ino, off, sent \cup TrailLines(Len(trail)))'
  <2>1. PICK i \in Inodes : i = saved.ino
    BY <1>10
  <2>2. PICK o : o = saved.off
    OBVIOUS
  <2>3. Sound(i, o, sent)'
    BY <1>1, <1>4, <1>5, <1>10, <2>1, <2>2 DEF Sound, Size, LinesIn
  <2> QED
    BY <1>6, <1>10, <2>1, <2>2, <2>3
<1>11. CASE /\ saved # NoPos /\ path # None /\ path = saved.ino
            /\ Opens(path, saved.off, << >>)
  BY <1>0, <1>5, <1>10, <1>11
<1>12. CASE /\ saved # NoPos /\ saved.ino \in rotated
            /\ \E q \in InMtimeOrder(Later) :
                 Opens(saved.ino, saved.off, q \o (IF path = None THEN << >> ELSE <<path>>))
  BY <1>0, <1>5, <1>10, <1>12
<1>13. CASE saved # NoPos /\ path # None /\ Opens(path, 0, << >>)
  <2>1. PICK i \in Inodes : i = path
    BY <1>0, <1>13
  <2>2. Opens(i, 0, << >>)
    BY <1>13, <2>1
  <2> QED
    BY <1>5, <1>6, <1>7, <2>2
<1> QED
  BY <1>1, <1>8, <1>9, <1>11, <1>12, <1>13 DEF StartKind

LEMMA CoverStep ==
  ASSUME Types, FileInv, QueueInv, CoverInv, [Next]_vars
  PROVE  CoverInv'
BY SourceCover, PollCover, OpenCover, SettleCover, SaveCover, StartCover DEF Next, Poll, Source

LEMMA CoverInit ==
  ASSUME Init
  PROVE  CoverInv
<1>1. saved = NoPos /\ committed = NoPos /\ trail = << >> /\ pc = "down"
  BY DEF Init
<1>2. saved.ino = None /\ committed.ino = None /\ Len(trail) = 0
  BY <1>1 DEF NoPos
<1> QED
  BY <1>1, <1>2 DEF CoverInv

\* A checkpoint never says more than was forwarded: every complete line of the saved
\* file up to the saved offset was settled, or was there before the run without a
\* checkpoint began, at whatever moment the forwarder was killed before; unless a
\* file was truncated.
THEOREM CheckpointIsCovered == Spec => []CheckpointCovers
<1>1. OrderInv /\ CoverInv /\ [Next]_vars => CoverInv'
  BY CoverStep DEF OrderInv
<1>2. OrderInv /\ CoverInv => CheckpointCovers
  <2> SUFFICES ASSUME Types, CoverInv, saved # NoPos, truncates = 0
               PROVE  /\ saved.off <= Size(saved.ino)
                      /\ LinesIn(saved.ino, saved.off) \subseteq sent \cup 0..origin
    BY DEF CheckpointCovers, OrderInv
  <2>1. saved \in Pos
    BY TailTyped DEF Types
  <2>2. saved.ino = None => saved.off = 0
    BY DEF Types, PlaceInv
  <2>3. saved.ino # None
    BY <2>1, <2>2 DEF Pos, NoPos, None
  <2>4. Sound(saved.ino, saved.off, sent)
    BY <2>3 DEF CoverInv
  <2> QED
    BY <2>4 DEF Sound
<1> QED
  BY <1>1, <1>2, OrderAlways, CoverInit, PTL DEF Spec

-----------------------------------------------------------------------------
(* No line is passed over in silence, as long as files do not go by faster *)
(* than the tail can see them.                                             *)

\* A file stays at the path until the running tail has seen it; a truncated file is
\* recognised by its size; and what _drain_final_partial reads, one line, is all
\* that can appear between the last read of a file and its disappearance.
Tame == ~QuickRotate /\ ~QuickRegrow /\ MaxSlip <= 1

\* The files OnDisk looks at.
Disk == rotated \cup ({path, IF open THEN ino ELSE None} \ {None})

LEMMA DiskFacts ==
  ASSUME Types, NEW l
  PROVE  /\ Disk \subseteq Inodes
         /\ OnDisk(l) => \E i \in Disk :
              l \in Nat /\ content[i].before < l /\ l <= Whole(i) /\ l \in LinesIn(i, Size(i))
         /\ (\E i \in Disk : l \in LinesIn(i, Size(i))) => OnDisk(l)
<1>0. content \in Seq(File) /\ rotated \subseteq Inodes /\ (path # None => path \in Inodes)
  BY FilesTyped DEF Types
<1>1. Disk \subseteq Inodes
  <2>1. open => ino \in Inodes
    BY OpenFile
  <2> QED
    BY <1>0, <2>1 DEF Disk
<1>2. ASSUME NEW i \in Disk, l \in LinesIn(i, Size(i))
      PROVE  l \in Nat /\ content[i].before < l /\ l <= Whole(i)
  <2>1. i \in Inodes
    BY <1>1
  <2>2. PICK s \in Nat : s = Size(i) /\ s <= Size(i)
    BY <1>0, <2>1, FileType
  <2>3. l \in Nat /\ content[i].before < l /\ l <= Upto(i, s)
    BY <1>0, <1>2, <2>1, <2>2, LinesUpto
  <2>4. Upto(i, s) = Whole(i)
    BY <2>2 DEF Upto, Whole
  <2> QED
    BY <2>3, <2>4
<1> QED
  BY <1>1, <1>2 DEF OnDisk, Disk

\* Nothing but writing the rest of a line puts a line on the disk.
LEMMA DiskStep ==
  ASSUME Types, FileInv, QueueInv, [Next]_vars, NEW l, OnDisk(l)'
  PROVE  OnDisk(l) \/ (Write /\ Partial(path) /\ l = line)
<1>0. /\ TypeOK /\ content \in Seq(File) /\ Len(content) \in Nat
      /\ path # None => path \in Inodes
      /\ rotated \subseteq Inodes
  <2>1. TypeOK
    BY DEF Types
  <2> QED
    BY <2>1, FilesTyped
<1>1. PICK i \in Disk' : l \in LinesIn(i, Size(i))'
  BY DEF OnDisk, Disk
<1>2. Disk \subseteq Inodes /\ ((\E j \in Disk : l \in LinesIn(j, Size(j))) => OnDisk(l))
  BY DiskFacts
<1>3. ASSUME i \in Disk, content'[i] = content[i]
      PROVE  OnDisk(l)
  <2>1. l \in LinesIn(i, Size(i))
    BY <1>1, <1>3 DEF LinesIn, Size
  <2> QED
    BY <1>2, <1>3, <2>1
<1>4. CASE Write
  <2>1. /\ UNCHANGED <<path, rotated, open, ino>> /\ path # None
    BY <1>4 DEF Write, tail
  <2>2. i \in Disk
    BY <1>1, <2>1 DEF Disk
  <2>3. CASE i # path
    <3>1. i \in Inodes
      BY <1>2, <2>2
    <3>2. content'[i] = content[i]
      BY <1>0, <1>4, <2>3, <3>1, WriteFacts
    <3> QED
      BY <1>3, <2>2, <3>2
  <2>4. CASE i = path
    <3>1. /\ content'[path].before = content[path].before
          /\ Whole(path)' = IF Partial(path) THEN Whole(path) + 1 ELSE Whole(path)
      BY <1>0, <1>4, WriteLines
    <3>2. /\ Begun(path) = line
          /\ Partial(path) => Begun(path) = Whole(path) + 1
          /\ Whole(path) \in Nat /\ content[path].before \in Nat
      BY <1>0, <2>1, LineFacts DEF FileInv
    <3>3. PICK b \in Nat : b = content[path].before
      BY <3>2
    <3>4. PICK w \in Nat : w = Whole(path)
      BY <3>2
    <3>5. LinesIn(i, Size(i)) = (b + 1)..w
      BY <2>4, <3>3, <3>4 DEF LinesIn, Whole
    <3>6. l \in (b + 1)..(Whole(path)')
      BY <1>1, <2>1, <2>4, <3>1, <3>3 DEF LinesIn, Whole, Size
    <3>7. CASE Partial(path)
      <4>1. l \in (b + 1)..(w + 1) /\ line = w + 1
        BY <3>1, <3>2, <3>4, <3>6, <3>7
      <4>2. l = line \/ l \in (b + 1)..w
        BY <4>1
      <4> QED
        BY <1>2, <1>4, <2>2, <3>5, <3>7, <4>2
    <3>8. CASE ~Partial(path)
      <4>1. l \in (b + 1)..w
        BY <3>1, <3>4, <3>6, <3>8
      <4> QED
        BY <1>2, <2>2, <3>5, <4>1
    <3> QED
      BY <3>7, <3>8
  <2> QED
    BY <2>3, <2>4
<1>5. CASE Create
  <2>1. /\ path = None /\ path' = Len(content) + 1 /\ content'[path'].before = line
        /\ content'[path'].size = 0 /\ \A j \in Inodes : content'[j] = content[j]
    BY <1>0, <1>5, CreateFacts
  <2>2. UNCHANGED <<rotated, open, ino>>
    BY <1>5 DEF Create, tail
  <2>3. CASE i = path'
    <3>1. Ended(0) = 0 /\ line \in Nat
      BY <1>0, FilesTyped DEF Ended
    <3>2. l \in (line + 1)..(line + 0)
      BY <1>1, <2>1, <2>3, <3>1 DEF LinesIn, Size
    <3> QED
      BY <3>1, <3>2
  <2>4. CASE i # path'
    <3>1. i \in Disk
      BY <1>1, <2>1, <2>2, <2>4 DEF Disk
    <3>2. content'[i] = content[i]
      BY <1>2, <2>1, <3>1
    <3> QED
      BY <1>3, <3>1, <3>2
  <2> QED
    BY <2>3, <2>4
<1>6. CASE Truncate
  <2>1. /\ path' = path /\ path \in Inodes /\ content'[path].before = line /\ Size(path)' = 0
        /\ \A j \in Inodes : j # path => content'[j] = content[j]
    BY <1>0, <1>6, TruncateFacts DEF Truncate
  <2>2. UNCHANGED <<rotated, open, ino>>
    BY <1>6 DEF Truncate, tail
  <2>3. i \in Disk
    BY <1>1, <2>1, <2>2 DEF Disk
  <2>4. CASE i = path
    <3>1. Ended(0) = 0 /\ line \in Nat
      BY <1>0, FilesTyped DEF Ended
    <3>2. l \in (line + 1)..(line + 0)
      BY <1>1, <2>1, <2>4, <3>1 DEF LinesIn, Size
    <3> QED
      BY <3>1, <3>2
  <2>5. CASE i # path
    BY <1>2, <1>3, <2>1, <2>3, <2>5
  <2> QED
    BY <2>4, <2>5
<1>7. ASSUME content' = content, Disk' \subseteq Disk
      PROVE  OnDisk(l)
  BY <1>1, <1>3, <1>7
<1>8. CASE Rotate \/ Delete \/ \E j \in rotated : Expire(j)
  <2>1. /\ UNCHANGED <<content, open, ino>>
        /\ \/ path' = None /\ path # None /\ rotated' \subseteq rotated \cup {path}
           \/ path' = path /\ rotated' \subseteq rotated
    BY <1>8 DEF Rotate, Delete, Expire, MayVanish, tail
  <2>2. Disk' \subseteq Disk
    BY <2>1 DEF Disk
  <2> QED
    BY <1>7, <2>1, <2>2
<1>9. CASE PollRead \/ PollStat \/ PollRest \/ PollLast
  <2>1. open /\ UNCHANGED Kept
    BY <1>9, PollLines
  <2>2. UNCHANGED <<content, rotated, path, ino>>
    BY <2>1 DEF Kept, fs
  <2>3. Disk' \subseteq Disk
    BY <2>1, <2>2 DEF Disk
  <2> QED
    BY <1>7, <2>2, <2>3
<1>10. CASE PollOpen
  <2>1. /\ UNCHANGED <<content, rotated, path>>
        /\ \/ ino' \in rotated \/ ino' = path
           \/ UNCHANGED <<open, ino>>
    BY <1>10, OpenFacts DEF fs, Found
  <2>2. Disk' \subseteq Disk
    BY <2>1 DEF Disk
  <2> QED
    BY <1>7, <2>1, <2>2
<1>11. CASE Settle \/ Checkpoint \/ Crash \/ UNCHANGED vars
  <2>1. UNCHANGED <<content, rotated, path, ino>> /\ (open' => open)
    BY <1>11 DEF Settle, Checkpoint, Crash, vars, fs, tail
  <2>2. Disk' \subseteq Disk
    BY <2>1 DEF Disk
  <2> QED
    BY <1>7, <2>1, <2>2
<1>12. CASE Start
  <2>1. StartKind /\ UNCHANGED <<content, rotated, path>>
    BY <1>12, StartKinds DEF fs
  <2>2. open' = FALSE \/ ino' = path \/ ino' \in rotated
    BY <2>1 DEF StartKind, Opens, Waits
  <2>3. Disk' \subseteq Disk
    BY <2>1, <2>2 DEF Disk
  <2> QED
    BY <1>7, <2>1, <2>3
<1> QED
  BY <1>4, <1>5, <1>6, <1>8, <1>9, <1>10, <1>11, <1>12 DEF Next, Poll

\* A line that is complete is not the one being written.
LEMMA WholeBelow ==
  ASSUME Types, FileInv, NEW i \in Inodes, path # None, Partial(path)
  PROVE  Whole(i) < line
<1>0. /\ TypeOK /\ content \in Seq(File) /\ Len(content) \in Nat /\ path \in Inodes /\ line \in Nat
  BY FilesTyped DEF Types
<1>1. path = Len(content) /\ Begun(path) = line
  BY DEF FileInv
<1>2. Begun(path) = Whole(path) + 1 /\ Whole(path) \in Nat /\ content[path].before \in Nat
      /\ content[path].before <= Whole(path)
  BY <1>0, LineFacts
<1>3. CASE i = path
  BY <1>1, <1>2, <1>3
<1>4. CASE i # path
  <2>1. i < path
    BY <1>0, <1>1, <1>4 DEF Inodes
  <2>2. Whole(i) <= content[path].before
    BY <1>0, <2>1, WholeBefore
  <2>3. Whole(i) \in Nat
    BY <1>0, LineFacts
  <2> QED
    BY <1>1, <1>2, <2>2, <2>3
<1> QED
  BY <1>3, <1>4

\* The lines from the beginning to n that can be read are in S.
Due(n, S) == \A l \in (origin + 1)..n : l \in S \/ ~OnDisk(l)

\* Below the line being written.
Settled(n) == path # None /\ Partial(path) => n < line

LEMMA DueKept ==
  ASSUME Types, FileInv, QueueInv, [Next]_vars, NEW n \in Nat, Settled(n),
         origin' = origin \/ (origin' \in Int /\ origin <= origin'), NEW S, Due(n, S)
  PROVE  Due(n, S)'
<1>1. line \in Nat /\ origin \in Int
  BY FilesTyped, TailTyped DEF Types
<1> SUFFICES ASSUME NEW l \in (origin' + 1)..n, OnDisk(l)'
             PROVE  l \in S
  BY DEF Due
<1>2. l \in (origin + 1)..n
  BY <1>1
<1>3. OnDisk(l) \/ (Write /\ Partial(path) /\ l = line)
  BY DiskStep
<1>4. CASE OnDisk(l)
  BY <1>2, <1>4 DEF Due
<1>5. CASE Write /\ Partial(path) /\ l = line
  <2>1. path # None
    BY <1>5 DEF Write
  <2>2. n < line
    BY <1>5, <2>1 DEF Settled
  <2> QED
    BY <1>1, <1>2, <1>5, <2>2
<1> QED
  BY <1>3, <1>4, <1>5

-----------------------------------------------------------------------------
(* Lines are owed from the place where the run without a checkpoint began. *)

OriginInv ==
  /\ origin >= -1 /\ origin <= Before
  /\ origin = -1 => saved = NoPos /\ pc = "down" /\ sent = {}

LEMMA BeforeGrows ==
  ASSUME Types, FileInv, Source
  PROVE  Before \in Nat /\ Before' \in Nat /\ Before <= Before'
<1>0. /\ TypeOK /\ content \in Seq(File) /\ Len(content) \in Nat /\ line \in Nat
      /\ path # None => path \in Inodes /\ content[path].before \in Nat
      /\ path # None => content[path].before <= line
  <2>1. TypeOK
    BY DEF Types
  <2>2. content \in Seq(File) /\ Len(content) \in Nat /\ line \in Nat /\ (path # None => path \in Inodes)
    BY <2>1, FilesTyped
  <2>3. path # None => /\ content[path].before \in Nat /\ Whole(path) \in Nat /\ Begun(path) \in Nat
                       /\ content[path].before <= Whole(path)
                       /\ Partial(path) => Begun(path) = Whole(path) + 1
                       /\ ~Partial(path) => Begun(path) = Whole(path)
    BY <2>2, LineFacts
  <2>4. path # None => Begun(path) = line
    BY DEF FileInv
  <2> QED
    BY <2>1, <2>2, <2>3, <2>4
<1>1. CASE Write
  <2>1. path' = path /\ path # None /\ content'[path].before = content[path].before
    BY <1>0, <1>1, WriteFacts DEF Write
  <2>2. line' = line \/ line' = line + 1
    BY <1>1 DEF Write
  <2> QED
    BY <1>0, <2>1, <2>2 DEF Before
<1>2. CASE Create
  <2>1. path = None /\ content'[path'].before = line /\ line' = line
    BY <1>0, <1>2, CreateFacts DEF Create
  <2> QED
    BY <1>0, <2>1 DEF Before
<1>3. CASE Truncate
  <2>1. path' = path /\ content'[path].before = line /\ line' = line
    BY <1>0, <1>3, TruncateFacts DEF Truncate
  <2> QED
    BY <1>0, <2>1 DEF Before
<1>4. CASE Rotate \/ Delete \/ \E j \in rotated : Expire(j)
  <2>1. UNCHANGED <<content, line>> /\ path' \in {path, None}
    BY <1>4 DEF Rotate, Delete, Expire
  <2> QED
    BY <1>0, <2>1 DEF Before
<1> QED
  BY <1>1, <1>2, <1>3, <1>4 DEF Source

LEMMA OriginStep ==
  ASSUME Types, FileInv, OriginInv, [Next]_vars
  PROVE  OriginInv'
<1>0. TypeOK /\ origin \in Int /\ Before \in Nat
  <2>1. TypeOK
    BY DEF Types
  <2> QED
    BY <2>1, TailTyped, BeforeType
<1>1. CASE Source
  <2>1. UNCHANGED <<origin, saved, pc, sent>>
    BY <1>0, <1>1, SourceFacts DEF track, hist
  <2>2. Before' \in Nat /\ Before <= Before'
    BY <1>1, BeforeGrows
  <2> QED
    BY <1>0, <2>1, <2>2 DEF OriginInv
<1>2. CASE Start
  <2>1. /\ UNCHANGED <<content, path, line>> /\ pc' = "save"
        /\ saved = NoPos => origin' = Before
        /\ saved # NoPos => origin' = origin
    BY <1>2, StartKinds DEF fs
  <2>2. Before' = Before
    BY <2>1 DEF Before
  <2>3. Before # -1
    BY <1>0
  <2> QED
    BY <1>0, <2>1, <2>2, <2>3 DEF OriginInv
<1>3. CASE PollRead \/ PollStat \/ PollRest \/ PollLast \/ PollOpen \/ Settle \/ Checkpoint \/ Crash \/ UNCHANGED vars
  <2>1. UNCHANGED <<content, path, line, origin>>
    BY <1>3 DEF PollRead, PollStat, PollRest, PollLast, PollOpen, Settle, Checkpoint, Crash, vars, fs, hist
  <2>2. Before' = Before
    BY <2>1 DEF Before
  <2>3. pc # "down" \/ UNCHANGED vars
    BY <1>3 DEF PollRead, PollStat, PollRest, PollLast, PollOpen, Settle, Checkpoint, Crash,
                Running
  <2>4. pc # "down" => origin # -1
    BY DEF OriginInv
  <2> QED
    BY <2>1, <2>2, <2>3, <2>4 DEF OriginInv, vars, track, hist
<1> QED
  BY <1>1, <1>2, <1>3 DEF Next, Poll, Source

-----------------------------------------------------------------------------
(* Positions stay meaningful: one behind the end of the file at the path   *)
(* is recognised as such, and one inside a line is not read from again     *)
(* unless the line was there before.                                       *)

Firm(i, o) ==
  /\ i = path /\ o > Size(i) => ceiling > 0 /\ ceiling <= o
  /\ Inside(o) /\ o <= Size(i) =>
       \/ i # path /\ o = Size(i)
       \/ content[i].before + Ended(o) + 1 <= origin

FirmInv == Tame => \A p \in Positions : p.ino # None => Firm(p.ino, p.off)

LEMMA PositionTypes ==
  ASSUME Types, NEW p \in Positions
  PROVE  p.off \in Nat /\ (p.ino # None => p.ino \in Inodes)
<1>1. /\ saved.off \in Nat /\ committed.off \in Nat /\ off \in Nat /\ ino \in 0..Len(content)
      /\ DOMAIN trail = 1..Len(trail)
      /\ \A k \in 1..Len(trail) : trail[k].off \in Nat
  BY TailTyped DEF Types
<1>2. Len(content) \in Nat
  BY FilesTyped DEF Types
<1>3. /\ saved.ino # None => saved.ino \in Inodes
      /\ committed.ino # None => committed.ino \in Inodes
      /\ ino # None => ino \in Inodes
      /\ \A k \in 1..Len(trail) : trail[k].ino \in Inodes
  BY <1>1, <1>2 DEF Types, PlaceInv, Inodes, None
<1>4. CASE p = saved
  BY <1>1, <1>3, <1>4
<1>5. CASE p = committed
  BY <1>1, <1>3, <1>5
<1>6. CASE p = [ino |-> ino, off |-> off]
  BY <1>1, <1>3, <1>6
<1>7. CASE \E k \in 1..Len(trail) : p = trail[k]
  BY <1>1, <1>3, <1>7
<1> QED
  BY <1>1, <1>4, <1>5, <1>6, <1>7 DEF Positions

LEMMA FirmSource ==
  ASSUME Types, FileInv, ~QuickRegrow, Source, NEW i \in Inodes, NEW o \in Nat, Firm(i, o),
         i = path => o \in Held(path)
  PROVE  Firm(i, o)'
<1>0. /\ TypeOK /\ content \in Seq(File) /\ Len(content) \in Nat /\ ceiling \in Nat
      /\ Size(i) \in Nat /\ i # None
  <2>1. TypeOK
    BY DEF Types
  <2>2. content \in Seq(File) /\ Len(content) \in Nat /\ ceiling \in Nat
    BY <2>1, FilesTyped
  <2> QED
    BY <2>1, <2>2, FileType
<1>1. origin' = origin
  BY <1>0, SourceFacts DEF hist
<1>2. CASE Write
  <2>1. path' = path /\ ceiling' = ceiling /\ path # None
        /\ (ceiling > 0 => Size(path) + 1 < ceiling)
    BY <1>2 DEF Write, caps
  <2>2. CASE i # path
    <3>1. content'[i] = content[i]
      BY <1>0, <1>2, <2>2, WriteFacts
    <3> QED
      BY <1>1, <2>1, <2>2, <3>1 DEF Firm, Size
  <2>3. CASE i = path
    <3>1. content'[i].before = content[i].before /\ content'[i].size = Size(i) + 1
      <4>1. content'[path].before = content[path].before /\ Size(path)' = Size(path) + 1
        BY <1>0, <1>2, WriteFacts
      <4> QED
        BY <2>1, <2>3, <4>1 DEF Size
    <3>2. o > Size(i) => o > Size(i) + 1
      BY <1>0, <2>1, <2>3 DEF Firm
    <3>3. o <= Size(i) + 1 => o <= Size(i)
      BY <1>0, <3>2
    <3>4. o > Size(i) + 1 => o > Size(i)
      BY <1>0
    <3> QED
      BY <1>1, <2>1, <2>3, <3>1, <3>3, <3>4 DEF Firm, Size
  <2> QED
    BY <2>2, <2>3
<1>3. CASE Create
  <2>1. content'[i] = content[i] /\ path' = Len(content) + 1 /\ path = None
    BY <1>0, <1>3, CreateFacts
  <2>2. i # path'
    BY <1>0, <2>1 DEF Inodes
  <2> QED
    BY <1>1, <2>1, <2>2, <1>0 DEF Firm, Size
<1>4. CASE Truncate
  <2>1. path' = path /\ Size(path)' = 0
        /\ \A j \in Inodes : j # path => content'[j] = content[j]
    BY <1>0, <1>4, TruncateFacts DEF Truncate
  <2>2. CASE i # path
    BY <1>1, <2>1, <2>2 DEF Firm, Size
  <2>3. CASE i = path
    <3>1. ~Inside(0)
      BY DEF Inside
    <3>2. Size(i)' = 0
      BY <2>1, <2>3 DEF Size
    <3>3. ASSUME o > 0 PROVE ceiling' > 0 /\ ceiling' <= o
      <4>1. o \in (Held(path) \cup {ceiling}) \ {0}
        BY <2>3, <3>3
      <4>2. /\ ceiling' \in (Held(path) \cup {ceiling}) \ {0}
            /\ \A d \in (Held(path) \cup {ceiling}) \ {0} : ceiling' <= d
        BY <1>4, <4>1 DEF Truncate
      <4>3. ceiling' \in Nat /\ ceiling' # 0
        BY <4>2, <1>0, HeldType
      <4> QED
        BY <4>1, <4>2, <4>3
    <3>4. o <= 0 => o = 0
      OBVIOUS
    <3> QED
      BY <2>1, <2>3, <3>1, <3>2, <3>3, <3>4 DEF Firm
  <2> QED
    BY <2>2, <2>3
<1>5. CASE Rotate \/ Delete \/ \E j \in rotated : Expire(j)
  <2>1. UNCHANGED <<content, ceiling>> /\ path' \in {path, None}
    BY <1>5 DEF Rotate, Delete, Expire, caps
  <2> QED
    BY <1>0, <1>1, <2>1 DEF Firm, Size
<1> QED
  BY <1>2, <1>3, <1>4, <1>5 DEF Source

\* A position that was just read up to.
Fresh(i, o) ==
  /\ i \in Inodes /\ o \in Nat /\ o <= Size(i)
  /\ Inside(o) => i # path /\ o = Size(i)

\* Where the positions of the forwarder come from.
LEMMA NewPositions ==
  ASSUME Types, FileInv, QueueInv,
         PollRead \/ PollStat \/ PollRest \/ PollLast \/ PollOpen \/ Settle \/ Checkpoint
           \/ Crash \/ UNCHANGED vars,
         NEW p \in Positions', p.ino # None
  PROVE  (\E q \in Positions : p.ino = q.ino /\ p.off = q.off) \/ Fresh(p.ino, p.off)
<1> DEFINE Old(i, o) == \E q \in Positions : i = q.ino /\ o = q.off
<1>0. /\ content \in Seq(File) /\ Len(content) \in Nat /\ DOMAIN trail = 1..Len(trail)
      /\ off \in Nat /\ Len(trail) \in Nat
  BY FilesTyped, TailTyped DEF Types
<1>1. /\ Old(saved.ino, saved.off) /\ Old(committed.ino, committed.off) /\ Old(ino, off)
      /\ \A k \in 1..Len(trail) : Old(trail[k].ino, trail[k].off)
  <2>1. saved \in Positions /\ committed \in Positions /\ [ino |-> ino, off |-> off] \in Positions
    BY DEF Positions
  <2>2. \A k \in 1..Len(trail) : trail[k] \in Positions
    BY <1>0 DEF Positions
  <2>3. Old(saved.ino, saved.off) /\ Old(committed.ino, committed.off)
    BY <2>1
  <2>4. Old(ino, off)
    <3>1. [ino |-> ino, off |-> off].ino = ino /\ [ino |-> ino, off |-> off].off = off
      OBVIOUS
    <3> QED
      BY <2>1, <3>1
  <2>5. \A k \in 1..Len(trail) : Old(trail[k].ino, trail[k].off)
    BY <2>2
  <2> QED
    BY <2>3, <2>4, <2>5
<1> HIDE DEF Old
<1>2. \/ p = saved' \/ p = committed' \/ (p.ino = ino' /\ p.off = off')
      \/ \E k \in DOMAIN trail' : p = trail'[k]
  BY DEF Positions
<1>3. ASSUME Old(saved'.ino, saved'.off), Old(committed'.ino, committed'.off),
             Old(ino', off') \/ Fresh(ino', off'),
             \A k \in DOMAIN trail' : \/ Old(trail'[k].ino, trail'[k].off)
                                      \/ Fresh(trail'[k].ino, trail'[k].off)
      PROVE  Old(p.ino, p.off) \/ Fresh(p.ino, p.off)
  BY <1>2, <1>3
<1>4. CASE PollRead \/ PollStat \/ PollRest \/ PollLast
  <2>1. /\ \E m \in Nat : Returns(m)
        /\ ino \in Inodes /\ UNCHANGED Kept
        /\ ~open' => (pc = "stat" /\ path = None) \/ pc = "rest"
    BY <1>4, PollLines
  <2>2. UNCHANGED <<saved, committed, ino>>
    BY <2>1 DEF Kept
  <2>3. ~open' => path # ino
    <3>1. ino # None
      BY <1>0, <2>1, FileType
    <3> QED
      BY <2>1, <3>1 DEF QueueInv
  <2>4. PICK m \in Nat : Returns(m)
    BY <2>1
  <2>5. trail' \in Seq(Entry) /\ Len(trail') = Len(trail) + m
    <3>1. Types'
      BY <1>4, PollTypes
    <3> QED
      BY <3>1, <2>4 DEF Types, TypeOK, Entry, Returns
  <2>6. DOMAIN trail' = 1..(Len(trail) + m)
    BY <2>5, LenProperties
  <2>a. \A k \in 1..m : trail'[Len(trail) + k].off \in Nat
    <3>1. \A k \in 1..m : Len(trail) + k \in 1..(Len(trail) + m)
      BY <1>0
    <3>2. \A k \in 1..Len(trail') : trail'[k] \in Entry
      BY <2>5, ElementOfSeq
    <3> QED
      BY <2>5, <3>1, <3>2 DEF Entry
  <2>b. \A k \in 1..m : Fresh(ino, trail'[Len(trail) + k].off) /\ trail'[Len(trail) + k].ino = ino
    BY <2>1, <2>3, <2>4, <2>a DEF Returns, Nth, Fresh
  <2>7. ASSUME NEW k \in DOMAIN trail'
        PROVE  Old(trail'[k].ino, trail'[k].off) \/ Fresh(trail'[k].ino, trail'[k].off)
    <3>1. CASE k \in 1..Len(trail)
      BY <3>1, <1>1, <2>4 DEF Returns
    <3>2. CASE ~(k \in 1..Len(trail))
      <4>1. k - Len(trail) \in 1..m /\ Len(trail) + (k - Len(trail)) = k
        BY <3>2, <2>6, <1>0
      <4> QED
        BY <2>b, <4>1
    <3> QED
      BY <3>1, <3>2
  <2>8. Old(ino', off') \/ Fresh(ino', off')
    <3>1. \/ off' = off
          \/ off' = 0 /\ off > Size(ino)
          \/ \E k \in 1..m : off' = trail'[Len(trail) + k].off
      BY <2>4 DEF Returns
    <3>2. Fresh(ino, 0)
      <4>1. ~Inside(0) /\ 0 <= Size(ino)
        BY <1>0, <2>1, FileType DEF Inside
      <4> QED
        BY <2>1, <4>1 DEF Fresh
    <3> QED
      BY <1>1, <2>2, <2>b, <3>1, <3>2
  <2> QED
    BY <1>1, <1>3, <2>2, <2>7, <2>8 DEF Old
<1>5. CASE PollOpen
  <2>1. UNCHANGED <<saved, committed, trail>>
    BY <1>5, OpenFacts DEF track
  <2>2. (off' = 0 /\ ino' \in Inodes) \/ UNCHANGED <<ino, off>>
    BY <1>5, OpenReach
  <2>3. Old(ino', off') \/ Fresh(ino', off')
    <3>1. CASE off' = 0 /\ ino' \in Inodes
      <4>1. PICK i \in Inodes : i = ino'
        BY <3>1
      <4>2. ~Inside(0) /\ 0 <= Size(i)
        BY <1>0, FileType DEF Inside
      <4> QED
        BY <3>1, <4>1, <4>2 DEF Fresh
    <3> QED
      BY <1>1, <2>2, <3>1
  <2> QED
    BY <1>0, <1>1, <1>3, <2>1, <2>3 DEF Old
<1>6. CASE Settle
  <2>1. /\ 1 \in 1..Len(trail) /\ committed' = [ino |-> trail[1].ino, off |-> trail[1].off]
        /\ \A k \in 1..Len(trail') : trail'[k] = trail[k + 1] /\ k + 1 \in 1..Len(trail)
        /\ trail' \in Seq(Entry) /\ UNCHANGED <<tail, saved>>
    BY <1>6, SettleFacts
  <2>2. DOMAIN trail' = 1..Len(trail')
    BY <2>1, LenProperties
  <2>3. UNCHANGED <<ino, off, saved>>
    BY <2>1 DEF tail
  <2>4. committed'.ino = trail[1].ino /\ committed'.off = trail[1].off
    BY <2>1
  <2> QED
    BY <1>1, <1>3, <2>1, <2>2, <2>3, <2>4 DEF Old
<1>7. CASE Checkpoint \/ Crash \/ UNCHANGED vars
  <2>1. /\ UNCHANGED <<committed, ino, off>> /\ saved' \in {saved, committed}
        /\ trail' \in {trail, << >>}
    BY <1>7 DEF Checkpoint, Crash, vars, tail, track
  <2>2. \A k \in DOMAIN trail' : Old(trail'[k].ino, trail'[k].off)
    <3>1. CASE trail' = trail
      BY <3>1, <1>0, <1>1
    <3>2. CASE trail' = << >>
      BY <3>2
    <3> QED
      BY <2>1, <3>1, <3>2
  <2>3. Old(saved'.ino, saved'.off) /\ Old(committed'.ino, committed'.off) /\ Old(ino', off')
    BY <1>1, <2>1 DEF Old
  <2> QED
    BY <1>3, <2>2, <2>3 DEF Old
<1> QED
  BY <1>4, <1>5, <1>6, <1>7 DEF Old

LEMMA FirmStep ==
  ASSUME Types, FileInv, QueueInv, FirmInv, [Next]_vars
  PROVE  FirmInv'
<1> SUFFICES ASSUME Tame, NEW p \in Positions', p.ino # None
             PROVE  Firm(p.ino, p.off)'
  BY DEF FirmInv, Tame
<1>0. TypeOK /\ content \in Seq(File) /\ (path # None => path \in Inodes) /\ rotated \subseteq Inodes
      /\ line \in Nat
  <2>1. TypeOK
    BY DEF Types
  <2> QED
    BY <2>1, FilesTyped
<1>1. CASE Source
  <2>1. UNCHANGED <<saved, committed, ino, off, trail>>
    BY <1>0, <1>1, SourceFacts DEF tail, track
  <2>2. p \in Positions
    BY <2>1 DEF Positions
  <2>3. PICK i \in Inodes, o \in Nat : i = p.ino /\ o = p.off
    BY <2>2, PositionTypes
  <2>4. Firm(i, o)
    BY <2>2, <2>3 DEF FirmInv
  <2>5. i = path => o \in Held(path)
    BY <2>2, <2>3 DEF Held
  <2>6. Firm(i, o)'
    BY <1>1, <2>4, <2>5, FirmSource DEF Tame
  <2> QED
    BY <2>3, <2>6 DEF Firm
<1>2. CASE PollRead \/ PollStat \/ PollRest \/ PollLast \/ PollOpen \/ Settle \/ Checkpoint
             \/ Crash \/ UNCHANGED vars
  <2>1. UNCHANGED <<content, path, origin, ceiling>>
    BY <1>2 DEF PollRead, PollStat, PollRest, PollLast, PollOpen, Settle, Checkpoint, Crash,
                vars, fs, hist, caps
  <2>2. Firm(p.ino, p.off)
    <3>1. (\E q \in Positions : p.ino = q.ino /\ p.off = q.off) \/ Fresh(p.ino, p.off)
      BY <1>2, NewPositions
    <3>2. CASE \E q \in Positions : p.ino = q.ino /\ p.off = q.off
      BY <3>2 DEF FirmInv
    <3>3. CASE Fresh(p.ino, p.off)
      <4>1. PICK i \in Inodes : i = p.ino
        BY <3>3 DEF Fresh
      <4>2. PICK s \in Nat : s = Size(i)
        BY <1>0, FileType
      <4>3. p.off \in Nat
        BY <3>3 DEF Fresh
      <4>4. ~(p.off > s)
        BY <3>3, <4>1, <4>2, <4>3 DEF Fresh
      <4> QED
        BY <3>3, <4>1, <4>2, <4>4 DEF Fresh, Firm
    <3> QED
      BY <3>1, <3>2, <3>3
  <2> QED
    BY <2>1, <2>2 DEF Firm, Size
<1>3. CASE Start
  <2>1. /\ UNCHANGED <<content, path, saved, ceiling, line>> /\ trail' = << >> /\ StartKind
        /\ saved = NoPos => origin' = Before
        /\ saved # NoPos => origin' = origin
    BY <1>3, StartKinds DEF fs, caps
  <2>2. p = saved \/ p = committed' \/ (p.ino = ino' /\ p.off = off')
    BY <2>1 DEF Positions
  <2>3. \A i \in Inodes : Firm(i, 0)'
    <3> SUFFICES ASSUME NEW i \in Inodes PROVE Firm(i, 0)'
      OBVIOUS
    <3>1. PICK s \in Nat : s = Size(i)
      BY <1>0, FileType
    <3>2. ~Inside(0) /\ ~(0 > s)
      BY DEF Inside
    <3> QED
      BY <2>1, <3>1, <3>2 DEF Firm, Size
  <2>4. saved # NoPos => Firm(saved.ino, saved.off)'
    <3> SUFFICES ASSUME saved # NoPos PROVE Firm(saved.ino, saved.off)'
      OBVIOUS
    <3>1. saved \in Positions /\ saved \in Pos /\ (saved.ino = None => saved.off = 0)
      BY <1>0, TailTyped DEF Positions, Types, PlaceInv
    <3>2. saved.ino # None
      BY <3>1 DEF Pos, NoPos, None
    <3>3. Firm(saved.ino, saved.off)
      BY <3>1, <3>2 DEF FirmInv
    <3> QED
      BY <2>1, <3>3 DEF Firm, Size
  <2>5. CASE p = saved
    <3>1. saved # NoPos
      BY <2>5 DEF NoPos
    <3> QED
      BY <2>1, <2>4, <2>5, <3>1 DEF Firm, Size
  <2>6. CASE p = committed' \/ (p.ino = ino' /\ p.off = off')
    <3>1. ASSUME NEW i, NEW o, NEW owed, Opens(i, o, owed)
          PROVE  p.ino = i /\ p.off = o
      BY <2>6, <3>1 DEF Opens
    <3>2. ~Waits
      BY <2>6 DEF Waits, NoPos
    <3>3. CASE saved = NoPos /\ path # None
               /\ Opens(path, IF StartFrom = "end" THEN Size(path) ELSE 0, << >>)
      <4>1. PICK i \in Inodes : i = path
        BY <1>0, <3>3
      <4>2. PICK s \in Nat : s = Size(i)
        BY <1>0, FileType
      <4>3. CASE StartFrom = "end"
        <5>1. p.ino = i /\ p.off = s
          BY <3>1, <3>3, <4>1, <4>2, <4>3
        <5>2. origin' = line
          BY <2>1, <3>3, <4>3 DEF Before
        <5>3. Inside(s) => content[i].before + Ended(s) + 1 <= line
          <6>1. /\ Begun(i) \in Nat /\ Whole(i) \in Nat
                /\ Partial(i) => Begun(i) = Whole(i) + 1
            BY <1>0, LineFacts
          <6>2. Begun(i) = line
            BY <3>3, <4>1 DEF FileInv
          <6>3. Whole(i) = content[i].before + Ended(s)
            BY <4>2 DEF Whole
          <6>4. Partial(i) = Inside(s)
            BY <4>2 DEF Partial
          <6> QED
            BY <6>1, <6>2, <6>3, <6>4
        <5>4. ~(s > s)
          OBVIOUS
        <5>5. Firm(i, s)'
          BY <2>1, <4>2, <5>2, <5>3, <5>4 DEF Firm, Size
        <5> QED
          BY <5>1, <5>5 DEF Firm
      <4>4. CASE StartFrom # "end"
        <5>1. p.ino = i /\ p.off = 0
          BY <3>1, <3>3, <4>1, <4>4
        <5> QED
          BY <2>3, <5>1 DEF Firm
      <4> QED
        BY <4>3, <4>4
    <3>4. CASE saved # NoPos /\ \E owed : Opens(saved.ino, saved.off, owed)
      <4>1. p.ino = saved.ino /\ p.off = saved.off
        BY <3>1, <3>4
      <4> QED
        BY <2>1, <2>4, <3>4, <4>1 DEF Firm
    <3>5. CASE path # None /\ Opens(path, 0, << >>)
      <4>1. PICK i \in Inodes : i = path
        BY <1>0, <3>5
      <4>2. p.ino = i /\ p.off = 0
        BY <3>1, <3>5, <4>1
      <4> QED
        BY <2>3, <4>2 DEF Firm
    <3>6. \/ saved = NoPos /\ path # None
             /\ Opens(path, IF StartFrom = "end" THEN Size(path) ELSE 0, << >>)
          \/ saved # NoPos /\ \E owed : Opens(saved.ino, saved.off, owed)
          \/ path # None /\ Opens(path, 0, << >>)
      BY <2>1, <3>2 DEF StartKind
    <3> QED
      BY <3>3, <3>4, <3>5, <3>6
  <2> QED
    BY <2>2, <2>5, <2>6
<1> QED
  BY <1>1, <1>2, <1>3 DEF Next, Poll, Source

-----------------------------------------------------------------------------
(* What was seen was written to its end, and what was returned and is not  *)
(* settled was seen.                                                       *)

SeenInv ==
  /\ \A n \in Seen : Settled(n) /\ n <= line
  /\ \A k \in 1..Len(trail) : trail[k].line \in Seen \cup {None}
  /\ \A k \in 1..Len(trail) : trail[k].line <= Upto(trail[k].ino, trail[k].off)

LEMMA SeenTypes ==
  ASSUME TypeOK
  PROVE  Seen \subseteq Nat /\ Seen = (sent \cup {lives[k] : k \in 1..Len(lives)}) \ {None}
<1>1. sent \subseteq Nat /\ DOMAIN lives = 1..Len(lives) /\ \A k \in 1..Len(lives) : lives[k] \in Nat
  BY TailTyped
<1> QED
  BY <1>1 DEF Seen

\* Where the source writes, and where it does not.
LEMMA SettledKept ==
  ASSUME TypeOK, Source, NEW n \in Nat, Settled(n), n <= line
  PROVE  Settled(n)' /\ n <= line'
<1>0. line \in Nat /\ (path # None => path \in Inodes)
  BY FilesTyped
<1>1. CASE Write
  <2>1. path' = path /\ path # None
    BY <1>1 DEF Write
  <2>2. line' = (IF Partial(path) THEN line ELSE line + 1) /\ Partial(path)' = ~Partial(path)
    BY <1>1, WriteLines
  <2> QED
    BY <1>0, <2>1, <2>2 DEF Settled
<1>2. CASE Create
  <2>1. content'[path'].size = 0 /\ line' = line
    BY <1>2, CreateFacts DEF Create
  <2>2. ~Partial(path)'
    BY <2>1 DEF Partial, Size, Inside
  <2> QED
    BY <2>1, <2>2 DEF Settled
<1>3. CASE Truncate
  <2>1. Size(path)' = 0 /\ line' = line
    BY <1>3, TruncateFacts DEF Truncate
  <2>2. ~Partial(path)'
    BY <2>1 DEF Partial, Inside
  <2> QED
    BY <2>1, <2>2 DEF Settled
<1>4. CASE Rotate \/ Delete
  <2>1. path' = None /\ line' = line
    BY <1>4 DEF Rotate, Delete
  <2> QED
    BY <2>1 DEF Settled
<1>5. CASE \E j \in rotated : Expire(j)
  <2>1. UNCHANGED <<content, path, line>>
    BY <1>5 DEF Expire
  <2> QED
    BY <2>1 DEF Settled, Partial, Size
<1> QED
  BY <1>1, <1>2, <1>3, <1>4, <1>5 DEF Source

LEMMA WholeSettled ==
  ASSUME Types, FileInv, NEW i \in Inodes
  PROVE  Settled(Whole(i)) /\ Whole(i) <= line /\ Whole(i) \in Nat
<1>1. content \in Seq(File) /\ line \in Nat
  BY FilesTyped DEF Types
<1>2. /\ Begun(i) \in Nat /\ Whole(i) \in Nat
      /\ Partial(i) => Begun(i) = Whole(i) + 1
      /\ ~Partial(i) => Begun(i) = Whole(i)
  BY <1>1, LineFacts
<1>3. Begun(i) <= line
  BY DEF FileInv
<1>4. Settled(Whole(i))
  BY WholeBelow DEF Settled
<1>5. Whole(i) <= line
  BY <1>1, <1>2, <1>3
<1> QED
  BY <1>2, <1>4, <1>5

LEMMA SeenStep ==
  ASSUME Types, FileInv, QueueInv, SeenInv, [Next]_vars
  PROVE  SeenInv'
<1>0. /\ TypeOK /\ content \in Seq(File) /\ line \in Nat /\ Len(trail) \in Nat /\ Len(lives) \in Nat
      /\ DOMAIN trail = 1..Len(trail)
      /\ \A k \in 1..Len(trail) : trail[k].off \in Nat /\ trail[k].line \in Nat
  <2>1. TypeOK
    BY DEF Types
  <2> QED
    BY <2>1, FilesTyped, TailTyped
<1>1. \A k \in 1..Len(trail) : trail[k].ino \in Inodes
  BY <1>0 DEF Types, PlaceInv
<1>2. Seen \subseteq Nat /\ Seen = (sent \cup {lives[k] : k \in 1..Len(lives)}) \ {None}
  BY <1>0, SeenTypes
<1>3. DOMAIN lives' = 1..Len(lives')
  <2>1. Types'
    BY TypeStep
  <2>2. lives' \in Seq(Nat)
    BY <2>1 DEF Types, TypeOK
  <2> QED
    BY <2>2, LenProperties
<1>4. Seen' = (sent' \cup {lives'[k] : k \in 1..Len(lives')}) \ {None}
  BY <1>3 DEF Seen
<1>5. CASE Source
  <2>1. UNCHANGED <<trail, sent, lives>>
    BY <1>0, <1>5, SourceFacts DEF track, hist
  <2>2. Seen' = Seen
    BY <2>1 DEF Seen
  <2>3. \A n \in Seen : Settled(n)' /\ n <= line'
    BY <1>0, <1>2, <1>5, SettledKept DEF SeenInv
  <2>4. ASSUME NEW k \in 1..Len(trail)
        PROVE  trail[k].line <= Upto(trail[k].ino, trail[k].off)'
    <3>1. PICK i \in Inodes, o \in Nat : i = trail[k].ino /\ o = trail[k].off
      BY <1>0, <1>1
    <3>2. /\ Upto(i, o) \in Nat /\ Upto(i, o)' \in Nat /\ Upto(i, o) <= Upto(i, o)'
      BY <1>0, <1>5, UptoGrows
    <3>3. trail[k].line \in Nat /\ trail[k].line <= Upto(i, o)
      BY <1>0, <3>1 DEF SeenInv
    <3>4. trail[k].line <= Upto(i, o)'
      BY <3>2, <3>3
    <3>5. Upto(trail[k].ino, trail[k].off)' = Upto(i, o)'
      BY <2>1, <3>1 DEF Upto, Size
    <3> QED
      BY <3>4, <3>5
  <2> QED
    BY <2>1, <2>2, <2>3, <2>4 DEF SeenInv, Settled
<1>6. CASE PollRead \/ PollStat \/ PollRest \/ PollLast
  <2>1. /\ \E m \in Nat : Returns(m)
        /\ ino \in Inodes /\ UNCHANGED Kept
    BY <1>6, PollLines
  <2>2. UNCHANGED <<content, path, line, sent, ino>>
    BY <2>1 DEF Kept, fs
  <2>3. PICK m \in Nat : Returns(m)
    BY <2>1
  <2>4. /\ Len(trail') = Len(trail) + m /\ Len(lives') = Len(lives) + m
        /\ \A k \in 1..Len(trail) : trail'[k] = trail[k]
        /\ \A k \in 1..Len(lives) : lives'[k] = lives[k]
        /\ \A k \in 1..m :
             /\ lives'[Len(lives) + k] = trail'[Len(trail) + k].line
             /\ Nth(k, trail'[Len(trail) + k])
    BY <2>3 DEF Returns
  <2>5. \A k \in 1..(Len(trail) + m) : k \in 1..Len(trail) \/ \E j \in 1..m : k = Len(trail) + j
    <3> SUFFICES ASSUME NEW k \in 1..(Len(trail) + m), ~(k \in 1..Len(trail))
                 PROVE  \E j \in 1..m : k = Len(trail) + j
      OBVIOUS
    <3>1. k - Len(trail) \in 1..m /\ k = Len(trail) + (k - Len(trail))
      BY <1>0
    <3> QED
      BY <3>1
  <2>6. \A k \in 1..(Len(lives) + m) : k \in 1..Len(lives) \/ \E j \in 1..m : k = Len(lives) + j
    <3> SUFFICES ASSUME NEW k \in 1..(Len(lives) + m), ~(k \in 1..Len(lives))
                 PROVE  \E j \in 1..m : k = Len(lives) + j
      OBVIOUS
    <3>1. k - Len(lives) \in 1..m /\ k = Len(lives) + (k - Len(lives))
      BY <1>0
    <3> QED
      BY <3>1
  <2>7. Seen \subseteq Seen'
    <3>1. 1..Len(lives) \subseteq 1..Len(lives')
      BY <1>0, <2>4
    <3> QED
      BY <1>2, <1>4, <2>2, <2>4, <3>1
  <2>8. \A j \in 1..m : lives'[Len(lives) + j] \in Seen' \cup {None}
    <3>1. \A j \in 1..m : Len(lives) + j \in 1..Len(lives')
      BY <1>0, <2>4
    <3> QED
      BY <1>4, <3>1
  <2>a. trail' \in Seq(Entry)
    <3>1. Types'
      BY <1>6, PollTypes
    <3> QED
      BY <3>1 DEF Types, TypeOK, Entry
  <2>9. ASSUME NEW j \in 1..m
        PROVE  LET e == trail'[Len(trail) + j]
               IN  /\ e.line <= Upto(e.ino, e.off)
                   /\ e.line # None => Settled(e.line) /\ e.line <= line
    <3>1. PICK e : e = trail'[Len(trail) + j]
      OBVIOUS
    <3>2. e \in Entry
      <4>1. Len(trail) + j \in 1..Len(trail')
        BY <1>0, <2>4
      <4> QED
        BY <2>a, <3>1, <4>1, ElementOfSeq
    <3>3. PICK o \in Nat : o = e.off
      BY <3>2 DEF Entry
    <3>4. /\ Upto(ino, o) \in Nat /\ Upto(ino, o) <= Whole(ino)
      BY <1>0, <2>1, UptoFacts
    <3>5. e.ino = ino /\ (e.line = None \/ e.line = Upto(ino, o))
      BY <2>4, <3>1, <3>3 DEF Nth
    <3>6. Settled(Whole(ino)) /\ Whole(ino) <= line /\ Whole(ino) \in Nat
      BY <2>1, WholeSettled
    <3>7. Settled(Upto(ino, o)) /\ Upto(ino, o) <= line
      BY <3>4, <3>6, <1>0 DEF Settled
    <3>8. e.line <= Upto(ino, o)
      BY <3>4, <3>5 DEF None
    <3> QED
      BY <3>1, <3>3, <3>5, <3>7, <3>8
  <2>10. ASSUME NEW n \in Seen' PROVE Settled(n)' /\ n <= line'
    <3>1. Settled(n) /\ n <= line
      <4>1. CASE n \in Seen
        BY <4>1 DEF SeenInv
      <4>2. CASE n \notin Seen
        <5>1. PICK k \in 1..Len(lives') : n = lives'[k] /\ n # None
          BY <1>2, <1>4, <2>2, <4>2
        <5>2. ~(k \in 1..Len(lives))
          BY <1>2, <2>4, <4>2, <5>1
        <5>3. PICK j \in 1..m : k = Len(lives) + j
          BY <2>4, <2>6, <5>2
        <5> QED
          BY <2>4, <2>9, <5>1, <5>3
      <4> QED
        BY <4>1, <4>2
    <3> QED
      BY <2>2, <3>1 DEF Settled, Partial, Size
  <2>11. ASSUME NEW k \in 1..Len(trail')
         PROVE  /\ trail'[k].line \in Seen' \cup {None}
                /\ trail'[k].line <= Upto(trail'[k].ino, trail'[k].off)
    <3>1. CASE k \in 1..Len(trail)
      BY <2>4, <2>7, <3>1 DEF SeenInv
    <3>2. CASE \E j \in 1..m : k = Len(trail) + j
      BY <2>4, <2>8, <2>9, <3>2
    <3> QED
      BY <2>4, <2>5, <3>1, <3>2
  <2> QED
    BY <2>2, <2>10, <2>11 DEF SeenInv, Upto, Size
<1>7. CASE Settle
  <2>1. /\ 1 \in 1..Len(trail) /\ sent' = sent \cup ({trail[1].line} \ {None})
        /\ \A k \in 1..Len(trail') : trail'[k] = trail[k + 1] /\ k + 1 \in 1..Len(trail)
        /\ UNCHANGED <<fs, lives>>
    BY <1>7, SettleFacts
  <2>2. UNCHANGED <<content, path, line, lives>>
    BY <2>1 DEF fs
  <2>3. trail[1].line \in Seen \cup {None}
    BY <2>1 DEF SeenInv
  <2>4. Seen' = Seen
    BY <2>1, <2>2, <2>3 DEF Seen
  <2> QED
    BY <2>1, <2>2, <2>4 DEF SeenInv, Settled, Partial, Upto, Size
<1>8. CASE PollOpen \/ Checkpoint \/ Crash \/ UNCHANGED vars
  <2>1. UNCHANGED <<content, path, line, sent, lives>> /\ trail' \in {trail, << >>}
    BY <1>8 DEF PollOpen, Checkpoint, Crash, vars, fs, hist, track
  <2>2. Seen' = Seen
    BY <2>1 DEF Seen
  <2>3. CASE trail' = trail
    BY <2>1, <2>2, <2>3 DEF SeenInv, Settled, Partial, Upto, Size
  <2>4. CASE trail' = << >>
    <3>1. Len(trail') = 0
      BY <2>4
    <3> QED
      BY <2>1, <2>2, <3>1 DEF SeenInv, Settled, Partial, Size
  <2> QED
    BY <2>1, <2>3, <2>4
<1>9. CASE Start
  <2>1. UNCHANGED <<content, path, line, sent>> /\ trail' = << >> /\ lives' = << >>
    BY <1>9, StartKinds DEF fs
  <2>2. Len(trail') = 0 /\ Len(lives') = 0
    BY <2>1
  <2>3. Seen' \subseteq Seen
    BY <1>2, <1>4, <2>1, <2>2
  <2> QED
    BY <2>1, <2>2, <2>3 DEF SeenInv, Settled, Partial, Size
<1> QED
  BY <1>5, <1>6, <1>7, <1>8, <1>9 DEF Next, Poll, Source

-----------------------------------------------------------------------------
(* Every rotated file younger than the one the tail is in, and with lines  *)
(* that are owed, is waited for.                                           *)

Owed(i) == i \in rotated /\ i > ino /\ Whole(i) > origin /\ Size(i) > 1

OwedInv ==
  Tame /\ pc # "down" /\ loss = "none" =>
    \A i \in Inodes : Owed(i) => \E k \in 1..Len(pending) : pending[k] = i

LEMMA OwedStep ==
  ASSUME Types, FileInv, QueueInv, OriginInv, OwedInv, [Next]_vars
  PROVE  OwedInv'
<1>0. /\ TypeOK /\ content \in Seq(File) /\ Len(content) \in Nat /\ rotated \subseteq Inodes
      /\ path # None => path \in Inodes
      /\ path # None => path = Len(content)
      /\ ino \in Nat /\ Len(pending) \in Nat
      /\ \A k \in 1..Len(pending) : pending[k] \in Inodes
      /\ path \notin rotated /\ line \in Nat
  <2>1. TypeOK
    BY DEF Types
  <2>2. /\ content \in Seq(File) /\ Len(content) \in Nat /\ rotated \subseteq Inodes
        /\ path # None => path \in Inodes
        /\ line \in Nat
    BY <2>1, FilesTyped
  <2>3. ino \in Nat /\ Len(pending) \in Nat /\ \A k \in 1..Len(pending) : pending[k] \in Inodes
    BY <2>1, TailTyped
  <2> QED
    BY <2>1, <2>2, <2>3 DEF FileInv
<1> SUFFICES ASSUME Tame, pc' # "down", loss' = "none", NEW i \in Inodes', Owed(i)'
             PROVE  \E k \in 1..Len(pending') : pending'[k] = i
  BY DEF OwedInv, Tame
<1>1. CASE Source
  <2>1. UNCHANGED <<pc, ino, pending, loss, origin>>
    BY <1>0, <1>1, SourceFacts DEF tail, hist
  <2>2. \/ rotated' \subseteq rotated
        \/ Rotate /\ rotated' = rotated \cup {path}
    BY <1>1 DEF Source, Write, Create, Truncate, Rotate, Delete, Expire
  <2>3. CASE i \in rotated
    <3>1. i \in Inodes /\ i # path
      BY <1>0, <2>3
    <3>2. content'[i] = content[i]
      <4>1. CASE Write
        BY <1>0, <3>1, <4>1, WriteFacts
      <4>2. CASE Truncate
        BY <1>0, <3>1, <4>2, TruncateFacts
      <4>3. CASE Create
        BY <1>0, <3>1, <4>3, CreateFacts
      <4>4. CASE Rotate \/ Delete \/ \E j \in rotated : Expire(j)
        <5>1. content' = content
          BY <4>4 DEF Rotate, Delete, Expire
        <5> QED
          BY <5>1
      <4> QED
        BY <1>1, <4>1, <4>2, <4>3, <4>4 DEF Source
    <3>3. Owed(i)
      BY <2>1, <2>3, <3>2 DEF Owed, Whole, Size
    <3> QED
      BY <2>1, <3>1, <3>3 DEF OwedInv
  <2>4. CASE i \notin rotated
    <3>1. Rotate /\ i = path /\ path # None
      BY <2>2, <2>4 DEF Owed, Rotate, MayVanish
    <3>2. path <= NewestKnown
      BY <2>1, <3>1 DEF Rotate, Tame, Running, Noticed
    <3>3. i > ino
      BY <2>1 DEF Owed
    <3>4. pending # << >> /\ NewestKnown = pending[Len(pending)]
      <4>1. path > ino /\ path \in Nat
        BY <1>0, <3>1, <3>3 DEF Inodes
      <4>2. pending = << >> => NewestKnown = ino
        BY DEF NewestKnown
      <4> QED
        BY <1>0, <3>2, <4>1, <4>2 DEF NewestKnown
    <3>5. Len(pending) \in 1..Len(pending)
      <4>1. Len(pending) # 0
        <5>1. pending \in Seq(Inodes)
          BY <1>0, TailTyped
        <5> QED
          BY <3>4, <5>1, EmptySeq
      <4> QED
        BY <1>0, <4>1
    <3>6. pending[Len(pending)] = path
      BY <1>0, <3>1, <3>2, <3>4, <3>5 DEF Inodes
    <3> QED
      BY <2>1, <3>1, <3>5, <3>6
  <2> QED
    BY <2>3, <2>4
<1>2. CASE PollRead \/ PollStat \/ PollRest \/ PollLast \/ Settle \/ Checkpoint \/ Crash \/ UNCHANGED vars
  <2>1. pc # "down" /\ UNCHANGED <<content, rotated, ino, pending, loss, origin>>
    BY <1>2 DEF PollRead, PollStat, PollRest, PollLast, Settle, Checkpoint, Crash, vars, fs, tail, hist
  <2>2. Owed(i) /\ i \in Inodes
    BY <2>1 DEF Owed, Whole, Size, Inodes
  <2> QED
    BY <2>1, <2>2 DEF OwedInv
<1>3. CASE PollOpen
  <2>1. /\ pc # "down" /\ loss' \in {loss, "error"} /\ ~open
        /\ UNCHANGED <<content, rotated, path, origin>>
    BY <1>3, OpenFacts DEF fs
  <2>2. i \in Inodes /\ i \in rotated /\ loss = "none" /\ i > ino'
    BY <2>1 DEF Owed, Inodes
  <2>3. ASSUME i > ino PROVE \E k \in 1..Len(pending) : pending[k] = i
    <3>1. Owed(i)
      BY <2>1, <2>3 DEF Owed, Whole, Size
    <3> QED
      BY <2>1, <2>2, <3>1 DEF OwedInv
  <2>4. Found(i)
    BY <2>2 DEF Found
  <2>5. i > ino
    <3>1. ino < ino' \/ ino' = ino
      BY <1>3, OpenReach
    <3>2. ino' \in Nat
      <4>1. ino' \in Inodes \/ ino' = ino
        BY <1>3, OpenReach
      <4> QED
        BY <1>0, <4>1 DEF Inodes
    <3> QED
      BY <1>0, <2>2, <3>1, <3>2 DEF Inodes
  <2>6. PICK k2 \in 1..Len(pending) : pending[k2] = i
    BY <2>3, <2>5
  <2>7. CASE \A k \in 1..Len(pending) : ~Found(pending[k])
    BY <2>4, <2>6, <2>7
  <2>8. CASE \E k \in 1..Len(pending) :
               /\ ino' = pending[k]
               /\ \/ pending' = << >> /\ pending[k] = path
                  \/ /\ Len(pending') = Len(pending) - k
                     /\ \A j \in 1..Len(pending') : pending'[j] = pending[k + j]
    <3>1. PICK k \in 1..Len(pending) :
               /\ ino' = pending[k]
               /\ \/ pending' = << >> /\ pending[k] = path
                  \/ /\ Len(pending') = Len(pending) - k
                     /\ \A j \in 1..Len(pending') : pending'[j] = pending[k + j]
      BY <2>8
    <3>2. ~(i > path) \/ path = None
      BY <1>0, <2>2 DEF Inodes
    <3>3. pending[k] # None
      BY <1>0, FileType
    <3>4. /\ Len(pending') = Len(pending) - k
          /\ \A j \in 1..Len(pending') : pending'[j] = pending[k + j]
      BY <2>2, <3>1, <3>2, <3>3
    <3>5. k < k2
      <4>1. k2 < k => pending[k2] < pending[k]
        BY DEF QueueInv
      <4>2. pending[k2] > pending[k] /\ pending[k] \in Nat /\ pending[k2] \in Nat
        BY <1>0, <2>2, <2>6, <3>1 DEF Inodes
      <4> QED
        BY <4>1, <4>2
    <3>6. k2 - k \in 1..Len(pending') /\ k + (k2 - k) = k2
      BY <1>0, <3>4, <3>5
    <3> QED
      BY <2>6, <3>4, <3>6
  <2> QED
    BY <1>3, <2>7, <2>8, OpenFacts
<1>4. CASE Start
  <2>1. /\ StartKind /\ UNCHANGED <<content, rotated, path, mtime, line>>
        /\ saved = NoPos => origin' = Before
    BY <1>4, StartKinds DEF fs
  <2>2. /\ i \in Inodes /\ i \in rotated /\ i > ino' /\ Size(i) > 1 /\ Whole(i) > origin'
    BY <2>1 DEF Owed, Inodes, Whole, Size
  <2>3. CASE Waits /\ path = None
    <3>1. saved = NoPos
      BY <2>1, <2>3 DEF StartKind, Opens, Waits
    <3>2. origin' = line
      BY <2>1, <2>3, <3>1 DEF Before
    <3>3. Whole(i) <= line /\ Whole(i) \in Nat
      BY <2>2, WholeSettled
    <3> QED
      BY <1>0, <2>2, <3>2, <3>3
  <2>4. CASE path # None /\ ino' = path
    BY <1>0, <2>2, <2>4 DEF Inodes
  <2>5. CASE /\ saved.ino \in rotated
             /\ \E q \in InMtimeOrder(Later) :
                  Opens(saved.ino, saved.off, q \o (IF path = None THEN << >> ELSE <<path>>))
    <3>1. PICK q \in InMtimeOrder(Later) :
            Opens(saved.ino, saved.off, q \o (IF path = None THEN << >> ELSE <<path>>))
      BY <2>5
    <3>2. ino' = saved.ino /\ pending' = q \o (IF path = None THEN << >> ELSE <<path>>)
      BY <3>1 DEF Opens
    <3>3. mtime[saved.ino] < mtime[i]
      <4>1. saved.ino \in Inodes /\ saved.ino < i
        BY <1>0, <2>2, <2>5, <3>2 DEF Inodes
      <4>2. Size(i) > 0
        <5>1. Size(i) \in Nat
          BY <1>0, <2>2, FileType
        <5> QED
          BY <2>2, <5>1
      <4> QED
        BY <2>2, <4>1, <4>2 DEF FileInv
    <3>4. i \in Later
      <4>1. i # saved.ino /\ i # path
        BY <1>0, <2>2, <2>5, <3>2 DEF Inodes
      <4>2. mtime[i] > mtime[saved.ino]
        BY <3>3
      <4> QED
        BY <2>2, <4>1, <4>2 DEF Later
    <3>5. /\ Len(q) \in Nat
          /\ Len(pending') = IF path = None THEN Len(q) ELSE Len(q) + 1
          /\ \A k \in 1..Len(q) : pending'[k] = q[k]
          /\ \A j \in Later : \E k \in 1..Len(q) : q[k] = j
      BY <1>0, <3>2, OwedFacts
    <3>6. PICK k \in 1..Len(q) : q[k] = i
      BY <3>4, <3>5
    <3>7. k \in 1..Len(pending')
      BY <3>5
    <3> QED
      BY <3>5, <3>6, <3>7
  <2>6. \/ Waits /\ path = None
        \/ path # None /\ ino' = path
        \/ /\ saved.ino \in rotated
           /\ \E q \in InMtimeOrder(Later) :
                Opens(saved.ino, saved.off, q \o (IF path = None THEN << >> ELSE <<path>>))
    BY <2>1 DEF StartKind, Opens
  <2> QED
    BY <2>3, <2>4, <2>5, <2>6
<1> QED
  BY <1>1, <1>2, <1>3, <1>4 DEF Next, Poll, Source

-----------------------------------------------------------------------------
(* A file that left the path holds at most what the last read of it        *)
(* returns.                                                                *)

SlipInv ==
  Tame /\ open =>
    /\ pc = "stat" /\ path # ino => Unread(ino, off) <= MaxSlip
    /\ off > Size(ino) /\ ino # path => ino \notin rotated

\* A read that did not fill the batch leaves nothing unread.
LEMMA ReadAll ==
  ASSUME content \in Seq(File), NEW i \in Inodes, NEW o \in Nat, NEW n \in Nat,
         NEW new, new = ReadLines(i, o, n), Len(new) < n
  PROVE  Unread(i, EndOf(o, new)) = 0
<1>1. Len(new) = Unread(i, o)
  BY ReadFacts
<1>2. PICK u \in Nat : u = Unread(i, o)
  BY UnreadType
<1>3. PICK q \in Nat : q = EndOf(o, new)
  BY EndFacts
<1>4. PICK s \in Nat : s = Size(i)
  BY FileType
<1>5. CASE o <= s
  <2>1. Ended(q) = Ended(o) + u
    BY <1>1, <1>2, <1>3, EndFacts
  <2>2. Ended(o) + u = Ended(s)
    BY <1>2, <1>4, <1>5, UnreadType
  <2>3. q <= s
    BY <1>3, <1>4, <1>5, EndFacts
  <2>4. Ended(q) + Unread(i, q) = Ended(s) /\ Unread(i, q) \in Nat
    BY <1>4, <2>3, UnreadType
  <2>5. Ended(q) \in Nat
    BY Halves
  <2> QED
    BY <1>3, <2>1, <2>2, <2>4, <2>5
<1>6. CASE o > s
  <2>1. Len(new) = 0
    BY <1>4, <1>6, EndFacts
  <2>2. q = o
    BY <1>3, <2>1, EndFacts
  <2>3. o >= s => Unread(i, o) = 0
    BY <1>4, UnreadType
  <2> QED
    BY <1>3, <1>6, <2>2, <2>3
<1> QED
  BY <1>5, <1>6

LEMMA SlipStep ==
  ASSUME Types, FileInv, QueueInv, SlipInv, [Next]_vars
  PROVE  SlipInv'
<1>0. /\ TypeOK /\ content \in Seq(File) /\ Len(content) \in Nat /\ rotated \subseteq Inodes
      /\ path # None => path \in Inodes
      /\ off \in Nat /\ path \notin rotated
  <2>1. TypeOK
    BY DEF Types
  <2>2. /\ content \in Seq(File) /\ Len(content) \in Nat /\ rotated \subseteq Inodes
        /\ path # None => path \in Inodes
    BY <2>1, FilesTyped
  <2>3. off \in Nat
    BY <2>1, TailTyped
  <2> QED
    BY <2>1, <2>2, <2>3 DEF FileInv
<1> SUFFICES ASSUME Tame, open'
             PROVE  /\ pc' = "stat" /\ path' # ino' => Unread(ino, off)' <= MaxSlip
                    /\ off' > Size(ino)' /\ ino' # path' => ino' \notin rotated'
  BY DEF SlipInv, Tame
<1>1. CASE Source
  <2>1. UNCHANGED <<pc, open, ino, off>>
    BY <1>0, <1>1, SourceFacts DEF tail
  <2>2. ino \in Inodes /\ ino # None /\ pc # "down" /\ open
    BY <2>1, OpenFile
  <2>3. CASE Rotate
    <3>1. /\ MayVanish /\ path' = None /\ rotated' = rotated \cup {path} /\ content' = content
          /\ Noticed
      BY <2>2, <2>3 DEF Rotate, Tame, Running
    <3>2. CASE ino = path
      <4>1. pc = "stat" => Unread(ino, off) <= MaxSlip
        BY <3>1, <3>2 DEF MayVanish
      <4>2. off <= Size(ino)
        BY <3>1, <3>2 DEF Noticed
      <4>3. Size(ino) \in Nat
        BY <1>0, <2>2, FileType
      <4>4. ~(off > Size(ino))
        BY <1>0, <4>2, <4>3
      <4> QED
        BY <2>1, <3>1, <4>1, <4>4 DEF Unread, Size
    <3>3. CASE ino # path
      BY <2>1, <2>2, <3>1, <3>3 DEF SlipInv, Unread, Size
    <3> QED
      BY <3>2, <3>3
  <2>4. CASE Delete
    <3>1. /\ MayVanish /\ path' = None /\ rotated' = rotated /\ content' = content
      BY <2>4 DEF Delete
    <3>2. CASE ino = path
      <4>1. pc = "stat" => Unread(ino, off) <= MaxSlip
        BY <3>1, <3>2 DEF MayVanish
      <4> QED
        BY <1>0, <2>1, <3>1, <3>2, <4>1 DEF Unread, Size
    <3>3. CASE ino # path
      BY <2>1, <2>2, <3>1, <3>3 DEF SlipInv, Unread, Size
    <3> QED
      BY <3>2, <3>3
  <2>5. CASE Write \/ Create \/ Truncate \/ \E j \in rotated : Expire(j)
    <3>1. rotated' \subseteq rotated
      BY <2>5 DEF Write, Create, Truncate, Expire
    <3>2. ino # path' => ino # path
      <4>1. Create => path = None
        BY DEF Create
      <4> QED
        BY <2>2, <2>5, <4>1 DEF Write, Truncate, Expire
    <3>3. ino # path => content'[ino] = content[ino]
      <4>1. CASE Write
        BY <1>0, <2>2, <4>1, WriteFacts
      <4>2. CASE Truncate
        BY <1>0, <2>2, <4>2, TruncateFacts
      <4>3. CASE Create
        BY <1>0, <2>2, <4>3, CreateFacts
      <4>4. CASE \E j \in rotated : Expire(j)
        <5>1. content' = content
          BY <4>4 DEF Expire
        <5> QED
          BY <5>1
      <4> QED
        BY <2>5, <4>1, <4>2, <4>3, <4>4
    <3>4. ino # path => Unread(ino, off)' = Unread(ino, off) /\ Size(ino)' = Size(ino)
      BY <2>1, <3>3 DEF Unread, Size
    <3> QED
      BY <2>1, <2>2, <3>1, <3>2, <3>4 DEF SlipInv
  <2> QED
    BY <1>1, <2>3, <2>4, <2>5 DEF Source
<1>2. CASE PollRead \/ PollStat \/ PollRest \/ PollLast
  <2>1. open /\ ino \in Inodes /\ UNCHANGED Kept /\ \E m \in Nat : Returns(m)
    BY <1>2, PollLines
  <2>2. UNCHANGED <<content, rotated, path, ino>>
    BY <2>1 DEF Kept, fs
  <2>3. off' > Size(ino) => off' = off
    <3>1. PICK m \in Nat : Returns(m)
      BY <2>1
    <3>2. PICK s \in Nat : s = Size(ino)
      BY <1>0, <2>1, FileType
    <3>3. ASSUME NEW k \in 1..m PROVE ~(trail'[Len(trail) + k].off > s)
      <4>1. trail'[Len(trail) + k].off <= s
        BY <3>1, <3>2 DEF Returns, Nth
      <4>2. trail'[Len(trail) + k].off \in Nat
        <5>1. trail' \in Seq(Entry)
          <6>1. Types'
            BY <1>2, PollTypes
          <6> QED
            BY <6>1 DEF Types, TypeOK, Entry
        <5>2. Len(trail) + k \in 1..Len(trail')
          <6>1. Len(trail') = Len(trail) + m /\ Len(trail) \in Nat
            BY <1>0, <3>1, TailTyped DEF Returns
          <6> QED
            BY <6>1
        <5>3. trail'[Len(trail) + k] \in Entry
          BY <5>1, <5>2, ElementOfSeq
        <5> QED
          BY <5>3 DEF Entry
      <4> QED
        BY <4>1, <4>2
    <3>4. ~(0 > s)
      OBVIOUS
    <3> QED
      BY <3>1, <3>2, <3>3, <3>4 DEF Returns
  <2>4. pc' = "stat" => Unread(ino, off') = 0
    <3>1. PollKind
      BY <1>2, PollKinds
    <3>2. pc' = "stat" => \E n \in Nat : Reads(off, n) /\ Len(ReadLines(ino, off, n)) < n
      BY <3>1 DEF PollKind
    <3> SUFFICES ASSUME NEW n \in Nat, Reads(off, n), Len(ReadLines(ino, off, n)) < n
                 PROVE  Unread(ino, off') = 0
      BY <3>2
    <3>3. Unread(ino, EndOf(off, ReadLines(ino, off, n))) = 0
      BY <1>0, <2>1, ReadAll
    <3>4. off' = EndOf(off, ReadLines(ino, off, n))
      BY DEF Reads
    <3> QED
      BY <3>3, <3>4
  <2>5. Unread(ino, off)' = Unread(ino, off') /\ Size(ino)' = Size(ino)
    BY <2>2 DEF Unread, Size
  <2>6. 0 <= MaxSlip
    BY SizeAssumption
  <2> QED
    BY <2>1, <2>2, <2>3, <2>4, <2>5, <2>6 DEF SlipInv
<1>3. CASE PollOpen
  <2>1. pc' # "stat" /\ ~open
    <3>1. pc' \in {"last", "poll"} /\ ~open
      BY <1>3, OpenFacts
    <3> QED
      BY <3>1
  <2>2. off' = 0 /\ ino' \in Inodes /\ UNCHANGED content
    <3>1. off' = 0 /\ ino' \in Inodes
      BY <1>3, <2>1, OpenReach
    <3> QED
      BY <1>3, <3>1, OpenFacts DEF fs
  <2>3. PICK i \in Inodes : i = ino'
    BY <2>2
  <2>4. ~(0 > Size(i))
    BY <1>0, FileType
  <2>5. Size(ino)' = Size(i)
    BY <2>2, <2>3 DEF Size
  <2> QED
    BY <2>1, <2>2, <2>4, <2>5
<1>4. CASE Settle \/ Checkpoint \/ UNCHANGED vars
  <2>1. /\ UNCHANGED <<content, rotated, path, open, ino, off>>
        /\ pc' = "stat" => pc = "stat"
    BY <1>4 DEF Settle, Checkpoint, vars, fs, tail
  <2> QED
    BY <2>1 DEF SlipInv, Unread, Size
<1>5. CASE Start
  <2>1. StartKind /\ pc' = "save" /\ UNCHANGED <<content, path, saved>>
    BY <1>5, StartKinds DEF fs
  <2>2. \E j \in Inodes, o \in Nat : ino' = j /\ off' = o /\ o <= Size(j)
    <3>1. path # None => path \in Inodes /\ Size(path) \in Nat
      BY <1>0, FileType
    <3>2. saved.off \in Nat
      BY <1>0, TailTyped
    <3>3. CASE path # None /\ Opens(path, IF StartFrom = "end" THEN Size(path) ELSE 0, << >>)
      <4>1. ino' = path /\ off' = IF StartFrom = "end" THEN Size(path) ELSE 0
        BY <3>3 DEF Opens
      <4>2. off' \in Nat /\ off' <= Size(path)
        BY <3>1, <3>3, <4>1
      <4> QED
        BY <3>1, <3>3, <4>1, <4>2
    <3>4. CASE path # None /\ AtLineBoundary(path, saved.off) /\ Opens(path, saved.off, << >>)
      BY <3>1, <3>2, <3>4 DEF Opens, AtLineBoundary
    <3>5. CASE /\ saved.ino \in rotated /\ AtLineBoundary(saved.ino, saved.off)
               /\ \E owed : Opens(saved.ino, saved.off, owed)
      BY <1>0, <3>2, <3>5 DEF Opens, AtLineBoundary
    <3>6. CASE path # None /\ Opens(path, 0, << >>)
      <4>1. ino' = path /\ off' = 0
        BY <3>6 DEF Opens
      <4>2. 0 \in Nat /\ 0 <= Size(path)
        BY <3>1, <3>6
      <4> QED
        BY <3>1, <3>6, <4>1, <4>2
    <3>7. ~Waits
      BY DEF Waits
    <3> QED
      BY <2>1, <3>3, <3>4, <3>5, <3>6, <3>7 DEF StartKind
  <2>3. PICK j \in Inodes, o \in Nat : ino' = j /\ off' = o /\ o <= Size(j)
    BY <2>2
  <2>4. PICK s \in Nat : s = Size(j)
    BY <1>0, FileType
  <2>5. ~(o > s)
    BY <2>3, <2>4
  <2>6. Size(ino)' = s
    BY <2>1, <2>3, <2>4 DEF Size
  <2> QED
    BY <2>1, <2>3, <2>5, <2>6
<1>6. ~Crash
  BY DEF Crash
<1> QED
  BY <1>1, <1>2, <1>3, <1>4, <1>5, <1>6 DEF Next, Poll, Source

-----------------------------------------------------------------------------
(* Up to every position held, the lines that can be read are settled, or   *)
(* are on their way.                                                       *)

\* A run began, and no loss was reported.
Calm == origin # -1 /\ loss = "none"

GapInv ==
  Tame /\ Calm =>
    /\ \A n \in sent : Due(n, sent)
    /\ saved.ino # None => Due(Upto(saved.ino, saved.off), sent)
    /\ committed.ino # None => Due(Upto(committed.ino, committed.off), sent)
    /\ \A k \in 1..Len(trail) :
         Due(Upto(trail[k].ino, trail[k].off), sent \cup TrailLines(k))
    /\ pc # "down" => Due(Reach, sent \cup TrailLines(Len(trail)))
    /\ pc = "down" => Gapless(origin)

LEMMA DueLess ==
  ASSUME TypeOK, NEW m \in Nat, NEW n \in Nat, m <= n, NEW S, NEW T, S \subseteq T, Due(n, S)
  PROVE  Due(m, T)
<1>1. origin \in Int
  BY TailTyped
<1>2. \A l \in (origin + 1)..m : l \in (origin + 1)..n
  BY <1>1
<1> QED
  BY <1>2 DEF Due

LEMMA ReachType ==
  ASSUME Types
  PROVE  Reach \in Nat
<1>1. content \in Seq(File) /\ Len(content) \in Nat
  BY FilesTyped DEF Types
<1>2. ino \in 0..Len(content) /\ off \in Nat
  BY TailTyped DEF Types
<1>3. ino # None => ino \in Inodes
  BY <1>1, <1>2 DEF Inodes, None
<1>4. ino # None => Whole(ino) \in Nat
  BY <1>1, <1>3, LineFacts
<1>5. ino # None => Upto(ino, off) \in Nat
  BY <1>1, <1>2, <1>3, UptoFacts
<1> QED
  BY <1>4, <1>5 DEF Reach

\* While the forwarder runs, that nothing was passed over follows from the rest.
LEMMA GapNow ==
  ASSUME Types, OriginInv, SeenInv, LivesInv, GapInv, Tame, Calm
  PROVE  Gapless(origin)
<1>0. /\ TypeOK /\ origin \in Int /\ origin >= 0 /\ Len(trail) \in Nat
      /\ Reach \in Nat
  <2>1. TypeOK
    BY DEF Types
  <2>2. origin \in Int /\ Len(trail) \in Nat
    BY <2>1, TailTyped
  <2>3. Reach \in Nat
    BY ReachType
  <2> QED
    BY <2>1, <2>2, <2>3 DEF OriginInv, Calm
<1>1. CASE pc = "down"
  BY <1>1 DEF GapInv
<1>2. CASE pc # "down"
  <2> SUFFICES ASSUME NEW n \in Seen, NEW l \in (origin + 1)..n, OnDisk(l)
               PROVE  l \in Seen
    BY DEF Gapless
  <2>1. n \in Nat /\ Seen = (sent \cup {lives[k] : k \in 1..Len(lives)}) \ {None}
    BY <1>0, SeenTypes
  <2>2. l # None
    BY <1>0, <2>1 DEF None
  <2>3. CASE n \in sent
    <3>1. l \in sent
      BY <2>3 DEF GapInv, Due
    <3> QED
      BY <2>1, <2>2, <3>1
  <2>4. CASE n \notin sent
    <3>1. n <= Reach
      BY <1>2, <2>1, <2>4 DEF LivesInv
    <3>2. l \in (origin + 1)..Reach
      BY <1>0, <2>1, <3>1
    <3>3. l \in sent \cup TrailLines(Len(trail))
      BY <1>2, <3>2 DEF GapInv, Due
    <3>4. \A x \in TrailLines(Len(trail)) : x \in Seen \cup {None}
      BY DEF SeenInv, TrailLines
    <3> QED
      BY <2>1, <2>2, <3>3, <3>4
  <2> QED
    BY <2>3, <2>4
<1> QED
  BY <1>1, <1>2

LEMMA GaplessKept ==
  ASSUME Types, FileInv, QueueInv, SeenInv, [Next]_vars, Seen' = Seen, origin' = origin,
         Gapless(origin)
  PROVE  Gapless(origin)'
<1>0. origin \in Int /\ line \in Nat /\ Seen \subseteq Nat
  BY TailTyped, FilesTyped, SeenTypes DEF Types
<1> SUFFICES ASSUME NEW n \in Seen, NEW l \in (origin + 1)..n, OnDisk(l)'
             PROVE  l \in Seen
  BY DEF Gapless
<1>1. OnDisk(l) \/ (Write /\ Partial(path) /\ l = line)
  BY DiskStep
<1>2. CASE OnDisk(l)
  BY <1>2 DEF Gapless
<1>3. CASE Write /\ Partial(path) /\ l = line
  <2>1. path # None
    BY <1>3 DEF Write
  <2>2. n < line /\ n \in Nat
    BY <1>0, <1>3, <2>1 DEF SeenInv, Settled
  <2> QED
    BY <1>0, <1>3, <2>2
<1> QED
  BY <1>1, <1>2, <1>3

\* What becomes of the files does not make more lines due, but for a truncation,
\* after which the lines before the new beginning cannot be read.
LEMMA DueSource ==
  ASSUME Types, FileInv, QueueInv, Tame, Source, [Next]_vars, NEW i \in Inodes, NEW o \in Nat,
         Firm(i, o), NEW S, Due(Upto(i, o), S)
  PROVE  Due(Upto(i, o), S)'
<1>0. /\ TypeOK /\ content \in Seq(File) /\ Len(content) \in Nat /\ line \in Nat /\ ceiling \in Nat
      /\ origin \in Int
      /\ Upto(i, o) \in Nat /\ Upto(i, o) <= Whole(i) /\ Size(i) \in Nat
      /\ content[i].before <= Upto(i, o)
  <2>1. TypeOK
    BY DEF Types
  <2>2. content \in Seq(File) /\ Len(content) \in Nat /\ line \in Nat /\ ceiling \in Nat
    BY <2>1, FilesTyped
  <2>3. origin \in Int
    BY <2>1, TailTyped
  <2>4. Upto(i, o) \in Nat /\ Upto(i, o) <= Whole(i) /\ content[i].before <= Upto(i, o)
    BY <2>2, UptoFacts
  <2>5. Size(i) \in Nat
    BY <2>2, FileType
  <2> QED
    BY <2>1, <2>2, <2>3, <2>4, <2>5
<1>1. origin' = origin
  BY <1>0, SourceFacts DEF hist
<1>2. CASE Truncate /\ i = path
  <2>1. /\ path' = path /\ content'[i].before = line
        /\ \A j \in Inodes : j # path => content'[j] = content[j]
    BY <1>0, <1>2, TruncateFacts DEF Truncate
  <2>2. Size(i)' = 0
    <3>1. Size(path)' = 0
      BY <1>0, <1>2, TruncateFacts
    <3> QED
      BY <1>2, <2>1, <3>1 DEF Size
  <2>3. path = Len(content) /\ UNCHANGED <<rotated, open, ino>>
    BY <1>2, FileType, <1>0 DEF FileInv, Truncate, tail
  <2> SUFFICES ASSUME NEW l \in (origin + 1)..Upto(i, o)', OnDisk(l)'
               PROVE  l \in S
    BY <1>1 DEF Due
  <2>4. PICK j \in Disk' : l \in LinesIn(j, Size(j))'
    BY DEF OnDisk, Disk
  <2>5. j \in Disk
    BY <2>1, <2>3, <2>4 DEF Disk
  <2>6. j \in Inodes
    BY <2>5, DiskFacts
  <2>7. j # path
    <3> SUFFICES ASSUME j = path PROVE FALSE
      OBVIOUS
    <3>1. Ended(0) = 0
      BY DEF Ended
    <3>2. l \in (line + 1)..(line + 0)
      BY <1>2, <2>1, <2>2, <2>4, <3>1 DEF LinesIn, Size
    <3> QED
      BY <1>0, <3>2
  <2>8. l \in LinesIn(j, Size(j))
    BY <2>1, <2>4, <2>6, <2>7 DEF LinesIn, Size
  <2>9. OnDisk(l)
    BY <2>5, <2>8, DiskFacts
  <2>10. l \in Nat /\ l <= Whole(j)
    <3>1. PICK s \in Nat : s = Size(j) /\ s <= Size(j)
      BY <1>0, <2>6, FileType
    <3>2. l \in Nat /\ l <= Upto(j, s)
      BY <1>0, <2>6, <2>8, <3>1, LinesUpto
    <3>3. Upto(j, s) = Whole(j)
      BY <3>1 DEF Upto, Whole
    <3> QED
      BY <3>2, <3>3
  <2>11. Whole(j) <= content[i].before
    <3>1. j < i
      BY <1>0, <1>2, <2>3, <2>6, <2>7 DEF Inodes
    <3> QED
      BY <1>0, <2>6, <3>1, WholeBefore
  <2>12. l \in (origin + 1)..Upto(i, o)
    <3>1. Whole(j) \in Nat /\ content[i].before \in Nat
      BY <1>0, <2>6, LineFacts
    <3>2. l <= Upto(i, o)
      BY <1>0, <2>10, <2>11, <3>1
    <3>3. origin + 1 <= l
      BY <1>0
    <3> QED
      BY <1>0, <2>10, <3>2, <3>3
  <2> QED
    BY <2>9, <2>12 DEF Due
<1>3. CASE ~(Truncate /\ i = path)
  <2>1. Upto(i, o)' = Upto(i, o)
    <3>1. CASE content'[i] = content[i]
      BY <3>1 DEF Upto, Size
    <3>2. CASE Write /\ i = path
      <4>1. path' = path /\ (ceiling > 0 => Size(path) + 1 < ceiling)
        BY <3>2 DEF Write, Tame
      <4>2. content'[i].before = content[i].before /\ content'[i].size = Size(i) + 1
        <5>1. content'[path].before = content[path].before /\ Size(path)' = Size(path) + 1
          BY <1>0, <3>2, WriteFacts
        <5> QED
          BY <3>2, <4>1, <5>1 DEF Size
      <4>3. o > Size(i) => o > Size(i) + 1
        BY <1>0, <3>2, <4>1 DEF Firm
      <4>4. (o <= Size(i) + 1) = (o <= Size(i))
        BY <1>0, <4>3
      <4> QED
        BY <4>2, <4>4 DEF Upto, Size
    <3>3. content'[i] = content[i] \/ (Write /\ i = path)
      <4>1. CASE Write
        BY <1>0, <4>1, WriteFacts
      <4>2. CASE Truncate
        BY <1>0, <1>3, <4>2, TruncateFacts
      <4>3. CASE Create
        BY <1>0, <4>3, CreateFacts
      <4>4. CASE Rotate \/ Delete \/ \E j \in rotated : Expire(j)
        <5>1. content' = content
          BY <4>4 DEF Rotate, Delete, Expire
        <5> QED
          BY <5>1
      <4> QED
        BY <4>1, <4>2, <4>3, <4>4 DEF Source
    <3> QED
      BY <3>1, <3>2, <3>3
  <2>2. PICK u \in Nat : u = Upto(i, o)
    BY <1>0
  <2>3. Settled(u)
    <3>1. Settled(Whole(i)) /\ Whole(i) \in Nat
      BY WholeSettled
    <3> QED
      BY <1>0, <2>2, <3>1 DEF Settled
  <2>4. Due(u, S)
    BY <2>2
  <2>5. Due(u, S)'
    BY <1>1, <2>3, <2>4, DueKept
  <2> QED
    BY <2>1, <2>2, <2>5 DEF Due
<1> QED
  BY <1>2, <1>3

LEMMA GapSource ==
  ASSUME Types, FileInv, QueueInv, OriginInv, FirmInv, SeenInv, GapInv, Source, [Next]_vars
  PROVE  GapInv'
<1>0. /\ TypeOK /\ UNCHANGED <<pc, open, ino, off, trail, committed, saved, sent, lives, origin, loss>>
      /\ content \in Seq(File) /\ Len(content) \in Nat /\ ino \in 0..Len(content)
      /\ off \in Nat /\ saved.off \in Nat /\ committed.off \in Nat
      /\ \A k \in 1..Len(trail) : trail[k].off \in Nat
      /\ DOMAIN trail = 1..Len(trail) /\ origin \in Int /\ sent \subseteq Nat
  <2>1. TypeOK
    BY DEF Types
  <2>2. UNCHANGED <<pc, open, ino, off, trail, committed, saved, sent, lives, origin, loss>>
    BY <2>1, SourceFacts DEF tail, track, hist
  <2>3. /\ off \in Nat /\ saved.off \in Nat /\ committed.off \in Nat /\ ino \in 0..Len(content)
        /\ \A k \in 1..Len(trail) : trail[k].off \in Nat
        /\ DOMAIN trail = 1..Len(trail) /\ origin \in Int /\ sent \subseteq Nat
    BY <2>1, TailTyped
  <2> QED
    BY <2>1, <2>2, <2>3, FilesTyped
<1>1. /\ saved.ino # None => saved.ino \in Inodes
      /\ committed.ino # None => committed.ino \in Inodes
      /\ ino # None => ino \in Inodes
      /\ \A k \in 1..Len(trail) : trail[k].ino \in Inodes
  <2>1. /\ {saved.ino, committed.ino} \subseteq 0..Len(content)
        /\ \A k \in DOMAIN trail : trail[k].ino \in Inodes
    BY DEF Types, PlaceInv
  <2>2. \A x \in 0..Len(content) : x # None => x \in Inodes
    BY <1>0 DEF Inodes, None
  <2> QED
    BY <1>0, <2>1, <2>2
<1> SUFFICES ASSUME Tame, Calm
             PROVE  /\ \A n \in sent : Due(n, sent)'
                    /\ saved.ino # None => Due(Upto(saved.ino, saved.off), sent)'
                    /\ committed.ino # None => Due(Upto(committed.ino, committed.off), sent)'
                    /\ \A k \in 1..Len(trail) :
                         Due(Upto(trail[k].ino, trail[k].off), sent \cup TrailLines(k))'
                    /\ pc # "down" => Due(Reach, sent \cup TrailLines(Len(trail)))'
                    /\ pc = "down" => Gapless(origin)'
  BY <1>0 DEF GapInv, Calm, Tame
<1>2. /\ \A n \in sent : Due(n, sent)
      /\ saved.ino # None => Due(Upto(saved.ino, saved.off), sent)
      /\ committed.ino # None => Due(Upto(committed.ino, committed.off), sent)
      /\ \A k \in 1..Len(trail) :
           Due(Upto(trail[k].ino, trail[k].off), sent \cup TrailLines(k))
      /\ pc # "down" => Due(Reach, sent \cup TrailLines(Len(trail)))
      /\ pc = "down" => Gapless(origin)
  BY DEF GapInv
<1>3. \A i \in Inodes, o \in Nat : \A S :
        Firm(i, o) /\ Due(Upto(i, o), S) => Due(Upto(i, o), S)'
  BY DueSource
<1>4. /\ saved.ino # None => Firm(saved.ino, saved.off)
      /\ committed.ino # None => Firm(committed.ino, committed.off)
      /\ ino # None => Firm(ino, off)
      /\ \A k \in 1..Len(trail) : Firm(trail[k].ino, trail[k].off)
  <2>1. /\ saved \in Positions /\ committed \in Positions /\ [ino |-> ino, off |-> off] \in Positions
        /\ \A k \in 1..Len(trail) : trail[k] \in Positions
    BY <1>0 DEF Positions
  <2>2. \A k \in 1..Len(trail) : trail[k].ino # None
    BY <1>0, <1>1, FileType
  <2>3. \A p \in Positions : p.ino # None => Firm(p.ino, p.off)
    BY DEF FirmInv
  <2>4. \A k \in 1..Len(trail) : Firm(trail[k].ino, trail[k].off)
    BY <2>1, <2>2, <2>3
  <2>5. ino # None => Firm(ino, off)
    BY <2>1, <2>3
  <2> QED
    BY <2>1, <2>3, <2>4, <2>5
<1>5. ASSUME NEW n \in sent
      PROVE  Due(n, sent)'
  <2>1. PICK S : S = sent
    OBVIOUS
  <2>2. n \in Nat
    BY <1>0
  <2>3. CASE n = None
    <3>1. origin >= 0
      BY <1>0 DEF OriginInv, Calm
    <3>2. (origin + 1)..n = {}
      BY <1>0, <2>3, <3>1 DEF None
    <3> QED
      BY <1>0, <3>2 DEF Due
  <2>4. CASE n # None
    <3>1. Settled(n)
      BY <2>4 DEF SeenInv, Seen
    <3>2. Due(n, S)'
      BY <1>0, <1>2, <2>1, <2>2, <3>1, DueKept
    <3> QED
      BY <1>0, <2>1, <3>2 DEF Due
  <2> QED
    BY <2>3, <2>4
<1>6. saved.ino # None => Due(Upto(saved.ino, saved.off), sent)'
  <2> SUFFICES ASSUME saved.ino # None PROVE Due(Upto(saved.ino, saved.off), sent)'
    OBVIOUS
  <2>1. PICK i \in Inodes, o \in Nat : i = saved.ino /\ o = saved.off
    BY <1>0, <1>1
  <2>2. PICK S : S = sent
    OBVIOUS
  <2>3. Due(Upto(i, o), S)'
    BY <1>2, <1>3, <1>4, <2>1, <2>2
  <2> QED
    BY <2>1, <2>2, <2>3, <1>0 DEF Due, Upto, Size
<1>7. committed.ino # None => Due(Upto(committed.ino, committed.off), sent)'
  <2> SUFFICES ASSUME committed.ino # None PROVE Due(Upto(committed.ino, committed.off), sent)'
    OBVIOUS
  <2>1. PICK i \in Inodes, o \in Nat : i = committed.ino /\ o = committed.off
    BY <1>0, <1>1
  <2>2. PICK S : S = sent
    OBVIOUS
  <2>3. Due(Upto(i, o), S)'
    BY <1>2, <1>3, <1>4, <2>1, <2>2
  <2> QED
    BY <2>1, <2>2, <2>3, <1>0 DEF Due, Upto, Size
<1>8. ASSUME NEW k \in 1..Len(trail)
      PROVE  Due(Upto(trail[k].ino, trail[k].off), sent \cup TrailLines(k))'
  <2>1. PICK i \in Inodes, o \in Nat : i = trail[k].ino /\ o = trail[k].off
    BY <1>0, <1>1
  <2>2. PICK S : S = sent \cup TrailLines(k)
    OBVIOUS
  <2>3. Due(Upto(i, o), S)'
    BY <1>2, <1>3, <1>4, <2>1, <2>2
  <2>4. (sent \cup TrailLines(k))' = S
    BY <2>2, <1>0 DEF TrailLines
  <2> QED
    BY <2>1, <2>3, <2>4, <1>0 DEF Due, Upto, Size
<1>9. pc # "down" => Due(Reach, sent \cup TrailLines(Len(trail)))'
  <2> SUFFICES ASSUME pc # "down" PROVE Due(Reach, sent \cup TrailLines(Len(trail)))'
    OBVIOUS
  <2>1. PICK S : S = sent \cup TrailLines(Len(trail))
    OBVIOUS
  <2>2. (sent \cup TrailLines(Len(trail)))' = S
    BY <2>1, <1>0 DEF TrailLines
  <2>3. Due(Reach, S)
    BY <1>2, <2>1
  <2>4. CASE ino = None
    <3>1. Reach = 0 /\ Reach' = 0
      BY <1>0, <2>4 DEF Reach
    <3>2. origin >= 0
      BY <1>0 DEF OriginInv, Calm
    <3>3. (origin + 1)..0 = {}
      BY <1>0, <3>2
    <3> QED
      BY <1>0, <3>1, <3>3 DEF Due
  <2>5. CASE ino # None /\ open
    <3>1. PICK i \in Inodes, o \in Nat : i = ino /\ o = off
      BY <1>0, <1>1, <2>5
    <3>2. Due(Upto(i, o), S)
      BY <2>3, <2>5, <3>1 DEF Reach
    <3>3. Due(Upto(i, o), S)'
      BY <1>3, <1>4, <2>5, <3>1, <3>2
    <3>4. Reach' = Upto(i, o)'
      BY <1>0, <2>5, <3>1 DEF Reach, Upto, Size
    <3> QED
      BY <2>2, <3>3, <3>4 DEF Due
  <2>6. CASE ino # None /\ ~open
    <3>1. PICK i \in Inodes : i = ino
      BY <1>1, <2>6
    <3>2. PICK w \in Nat : w = Whole(i)
      BY WholeSettled
    <3>3. Settled(w)
      BY <3>2, WholeSettled
    <3>4. Due(w, S)
      BY <2>3, <2>6, <3>1, <3>2 DEF Reach
    <3>5. Due(w, S)'
      BY <1>0, <3>3, <3>4, DueKept
    <3>6. i # path
      BY <1>0, <2>6, <3>1, FileType DEF QueueInv
    <3>7. content'[i] = content[i]
      <4>1. CASE Write
        BY <1>0, <3>6, <4>1, WriteFacts
      <4>2. CASE Truncate
        BY <1>0, <3>6, <4>2, TruncateFacts
      <4>3. CASE Create
        BY <1>0, <4>3, CreateFacts
      <4>4. CASE Rotate \/ Delete \/ \E j \in rotated : Expire(j)
        <5>1. content' = content
          BY <4>4 DEF Rotate, Delete, Expire
        <5> QED
          BY <5>1
      <4> QED
        BY <4>1, <4>2, <4>3, <4>4 DEF Source
    <3>8. Reach' = w
      BY <1>0, <2>6, <3>1, <3>2, <3>7 DEF Reach, Whole, Size
    <3> QED
      BY <2>2, <3>5, <3>8 DEF Due
  <2> QED
    BY <2>4, <2>5, <2>6
<1>10. pc = "down" => Gapless(origin)'
  <2>1. Seen' = Seen
    BY <1>0 DEF Seen
  <2> QED
    BY <1>0, <1>2, <2>1, GaplessKept
<1> QED
  BY <1>5, <1>6, <1>7, <1>8, <1>9, <1>10

-----------------------------------------------------------------------------

LEMMA LinesWhole ==
  ASSUME content \in Seq(File), NEW i \in Inodes, NEW l \in LinesIn(i, Size(i))
  PROVE  l \in Nat /\ content[i].before < l /\ l <= Whole(i)
<1>1. PICK s \in Nat : s = Size(i) /\ s <= Size(i)
  BY FileType
<1>2. l \in Nat /\ content[i].before < l /\ l <= Upto(i, s)
  BY <1>1, LinesUpto
<1>3. Upto(i, s) = Whole(i)
  BY <1>1 DEF Upto, Whole
<1> QED
  BY <1>2, <1>3

\* Nothing is put on the disk by a step that does not write.
LEMMA DueQuiet ==
  ASSUME Types, FileInv, QueueInv, [Next]_vars, clock' = clock,
         origin' = origin \/ (origin' \in Int /\ origin <= origin'),
         NEW n, NEW S, Due(n, S)
  PROVE  Due(n, S)'
<1>1. clock \in Nat /\ origin \in Int
  BY FilesTyped, TailTyped DEF Types
<1>2. ~Write
  BY <1>1 DEF Write
<1>3. \A l : OnDisk(l)' => OnDisk(l)
  BY <1>2, DiskStep
<1>4. (origin' + 1)..n \subseteq (origin + 1)..n
  BY <1>1
<1> QED
  BY <1>3, <1>4 DEF Due

\* A poll returns every line it passes, and leaves a file at its end, or when
\* nothing else of it can be read.
LEMMA GapPoll ==
  ASSUME Types, FileInv, QueueInv, FirmInv, SlipInv, GapInv, [Next]_vars,
         PollRead \/ PollStat \/ PollRest \/ PollLast
  PROVE  GapInv'
<1>0. /\ TypeOK /\ content \in Seq(File) /\ off \in Nat /\ Len(trail) \in Nat /\ origin \in Int
      /\ Reach \in Nat /\ Reach' \in Nat
      /\ open /\ ino \in Inodes /\ ino # None /\ pc # "down" /\ pc' # "down"
      /\ UNCHANGED <<content, path, rotated, clock, origin, loss, saved, committed, sent, ino>>
      /\ ~open' => (pc = "stat" /\ path = None) \/ pc = "rest"
      /\ Whole(ino) \in Nat /\ content[ino].before \in Nat /\ Size(ino) \in Nat
      /\ Reach = Upto(ino, off)
  <2>1. TypeOK
    BY DEF Types
  <2>2. content \in Seq(File) /\ off \in Nat /\ Len(trail) \in Nat /\ origin \in Int
    BY <2>1, FilesTyped, TailTyped
  <2>3. /\ Reach \in Nat /\ Reach' \in Nat
        /\ open /\ ino \in Inodes /\ UNCHANGED Kept /\ pc # "down" /\ pc' # "down"
        /\ ~open' => (pc = "stat" /\ path = None) \/ pc = "rest"
    BY PollLines
  <2>4. ino # None
    BY <2>2, <2>3, FileType
  <2>5. UNCHANGED <<content, path, rotated, clock, origin, loss, saved, committed, sent, ino>>
    BY <2>3 DEF Kept, fs, caps
  <2>6. Whole(ino) \in Nat /\ content[ino].before \in Nat /\ Size(ino) \in Nat
    BY <2>2, <2>3, LineFacts
  <2>7. Reach = Upto(ino, off)
    BY <2>3, <2>4 DEF Reach
  <2> QED
    BY <2>1, <2>2, <2>3, <2>4, <2>5, <2>6, <2>7
<1> SUFFICES ASSUME Tame, Calm
             PROVE  /\ \A n \in sent : Due(n, sent)'
                    /\ saved.ino # None => Due(Upto(saved.ino, saved.off), sent)'
                    /\ committed.ino # None => Due(Upto(committed.ino, committed.off), sent)'
                    /\ \A k \in 1..Len(trail') :
                         Due(Upto(trail[k].ino, trail[k].off), sent \cup TrailLines(k))'
                    /\ Due(Reach, sent \cup TrailLines(Len(trail)))'
  BY <1>0 DEF GapInv, Calm, Tame
<1>1. PICK m \in Nat :
        /\ Returns(m)
        /\ ~open' /\ off <= Size(ino) /\ (pc = "rest" \/ Unread(ino, off) <= 1) =>
             Whole(ino) <= Reach + m
  BY PollLines
<1>w. PICK w \in Nat : w = Whole(ino)
  BY <1>0
<1>z. PICK z \in Int : z = origin
  BY <1>0
<1>o. off \in Nat /\ Size(ino) \in Nat
  BY <1>0
<1>2. PICK n \in Nat : n = Len(trail)
  BY <1>0
<1>3. PICK r \in Nat : r = Reach
  BY <1>0
<1>4. /\ Len(trail') = n + m
      /\ \A k \in 1..n : trail'[k] = trail[k]
      /\ \A k \in 1..m : Nth(k, trail'[n + k])
  BY <1>1, <1>2 DEF Returns
<1>5. /\ \A l \in sent : Due(l, sent)
      /\ saved.ino # None => Due(Upto(saved.ino, saved.off), sent)
      /\ committed.ino # None => Due(Upto(committed.ino, committed.off), sent)
      /\ \A k \in 1..n : Due(Upto(trail[k].ino, trail[k].off), sent \cup TrailLines(k))
      /\ Due(r, sent \cup TrailLines(n))
  BY <1>0, <1>2, <1>3 DEF GapInv
<1>6. \A k \in 1..n : TrailLines(k)' = TrailLines(k)
  BY <1>4 DEF TrailLines
<1>7. \A j \in 1..m, k \in 1..m : j <= k => trail'[n + j].line \in TrailLines(n + k)'
  BY DEF TrailLines
<1>8. \A k \in 0..m : TrailLines(n + k)' \subseteq TrailLines(n + m)' /\ TrailLines(n) \subseteq TrailLines(n + k)'
  <2> SUFFICES ASSUME NEW k \in 0..m
               PROVE  TrailLines(n + k)' \subseteq TrailLines(n + m)' /\ TrailLines(n) \subseteq TrailLines(n + k)'
    OBVIOUS
  <2>1. 1..(n + k) \subseteq 1..(n + m) /\ 1..n \subseteq 1..(n + k)
    OBVIOUS
  <2> QED
    BY <1>4, <2>1 DEF TrailLines
<1>9. \A x, S : Due(x, S) => Due(x, S)'
  BY <1>0, DueQuiet
<1>10. ASSUME NEW k \in 0..m, NEW l \in (origin + 1)..(r + k), l <= Whole(ino), OnDisk(l)
       PROVE  l \in sent \cup TrailLines(n + k)'
  <2>1. CASE l <= r
    <3>1. l \in (origin + 1)..r
      BY <1>0, <2>1
    <3>2. l \in sent \cup TrailLines(n)
      BY <1>5, <1>10, <3>1 DEF Due
    <3> QED
      BY <1>8, <3>2
  <2>2. CASE l > r
    <3>1. PICK j \in 1..m : l = r + j /\ j <= k
      <4>1. l - r \in 1..m /\ l = r + (l - r) /\ l - r <= k
        BY <1>0, <2>2
      <4> QED
        BY <4>1
    <3>2. \/ trail'[n + j].line = r + j
          \/ trail'[n + j].line = None /\ j = 1 /\ Inside(off) /\ off < Size(ino)
          \/ Whole(ino) = r + (j - 1)
      BY <1>3, <1>4 DEF Nth
    <3>3. CASE trail'[n + j].line = r + j
      <4>1. k \in 1..m
        BY <3>1
      <4> QED
        BY <1>7, <3>1, <3>3, <4>1
    <3>4. ~(j = 1 /\ Inside(off) /\ off < Size(ino))
      <4> SUFFICES ASSUME j = 1, Inside(off), off < Size(ino) PROVE FALSE
        OBVIOUS
      <4>1. Firm(ino, off)
        <5>1. [ino |-> ino, off |-> off] \in Positions
          BY DEF Positions
        <5> QED
          BY <1>0, <5>1 DEF FirmInv
      <4>2. PICK b \in Nat : b = content[ino].before
        BY <1>0
      <4>3. PICK e \in Nat : e = Ended(off)
        BY <1>0, Halves
      <4>4. off # Size(ino) /\ off <= Size(ino)
        BY <1>o
      <4>5. b + e + 1 <= origin
        BY <4>1, <4>2, <4>3, <4>4 DEF Firm
      <4>6. r = b + e
        BY <1>0, <1>3, <4>2, <4>3, <4>4 DEF Upto
      <4> QED
        BY <1>z, <3>1, <4>5, <4>6
    <3>5. ~(Whole(ino) = r + (j - 1))
      <4>1. l <= w
        BY <1>w, <1>10
      <4>2. w # r + (j - 1)
        BY <3>1, <4>1
      <4> QED
        BY <1>w, <4>2
    <3> QED
      BY <3>2, <3>3, <3>4, <3>5
  <2> QED
    BY <1>0, <2>1, <2>2
<1>11. ASSUME NEW k \in 1..m
       PROVE  Due(Upto(ino, trail'[n + k].off), sent \cup TrailLines(n + k)')
  <2>1. PICK o \in Nat : o = trail'[n + k].off
    <3>1. Types'
      BY PollTypes
    <3>2. \A j \in 1..Len(trail') : trail'[j].off \in Nat
      <4>1. trail' \in Seq(Entry)
        BY <3>1 DEF Types, TypeOK, Entry
      <4>2. \A j \in 1..Len(trail') : trail'[j] \in Entry
        BY <4>1, ElementOfSeq
      <4> QED
        BY <4>2 DEF Entry
    <3>3. n + k \in 1..(n + m)
      OBVIOUS
    <3> QED
      BY <1>4, <3>2, <3>3
  <2>2. PICK u \in Nat : u = Upto(ino, o)
    BY <1>0, UptoFacts
  <2>3. u <= r + k /\ u <= Whole(ino)
    <3>1. u <= Whole(ino)
      BY <1>0, <2>2, UptoFacts
    <3>2. u = r + k \/ (u = Whole(ino) /\ Whole(ino) = r + (k - 1))
      BY <1>3, <1>4, <2>1, <2>2 DEF Nth
    <3>3. u <= w /\ (u = r + k \/ (u = w /\ w = r + (k - 1)))
      BY <1>w, <3>1, <3>2
    <3>4. u <= r + k
      BY <3>3
    <3> QED
      BY <3>1, <3>4
  <2>4. \A l \in (origin + 1)..u : l \in (origin + 1)..(r + k) /\ l <= Whole(ino)
    <3>1. u <= r + k /\ u <= w
      BY <1>w, <2>3
    <3>2. \A l \in (z + 1)..u : l \in (z + 1)..(r + k) /\ l <= w
      BY <3>1
    <3> QED
      BY <1>w, <1>z, <3>2
  <2>5. k \in 0..m
    OBVIOUS
  <2>6. \A l \in (origin + 1)..u : OnDisk(l) => l \in sent \cup TrailLines(n + k)'
    BY <1>10, <2>4, <2>5
  <2> QED
    BY <2>1, <2>2, <2>6 DEF Due
<1>12. \A x \in sent : Due(x, sent)'
  <2>1. PICK S : S = sent
    OBVIOUS
  <2>2. \A x \in S : Due(x, S)'
    BY <1>5, <1>9, <2>1
  <2> QED
    BY <1>0, <2>1, <2>2 DEF Due
<1>13. saved.ino # None => Due(Upto(saved.ino, saved.off), sent)'
  <2>1. PICK u, S : u = Upto(saved.ino, saved.off) /\ S = sent
    OBVIOUS
  <2>2. Upto(saved.ino, saved.off)' = u
    BY <1>0, <2>1 DEF Upto, Size
  <2>3. saved.ino # None => Due(u, S)'
    BY <1>5, <1>9, <2>1
  <2> QED
    BY <1>0, <2>1, <2>2, <2>3 DEF Due
<1>14. committed.ino # None => Due(Upto(committed.ino, committed.off), sent)'
  <2>1. PICK u, S : u = Upto(committed.ino, committed.off) /\ S = sent
    OBVIOUS
  <2>2. Upto(committed.ino, committed.off)' = u
    BY <1>0, <2>1 DEF Upto, Size
  <2>3. committed.ino # None => Due(u, S)'
    BY <1>5, <1>9, <2>1
  <2> QED
    BY <1>0, <2>1, <2>2, <2>3 DEF Due
<1>15. ASSUME NEW k \in 1..Len(trail')
       PROVE  Due(Upto(trail[k].ino, trail[k].off), sent \cup TrailLines(k))'
  <2>1. \E u, S : Due(u, S) /\ u = Upto(trail[k].ino, trail[k].off)' /\ S = (sent \cup TrailLines(k))'
    <3>1. CASE k \in 1..n
      <4>1. Due(Upto(trail[k].ino, trail[k].off), sent \cup TrailLines(k))
        BY <3>1, <1>5
      <4>2. trail'[k] = trail[k] /\ TrailLines(k)' = TrailLines(k)
        BY <3>1, <1>4, <1>6
      <4>3. Upto(trail[k].ino, trail[k].off)' = Upto(trail[k].ino, trail[k].off)
        BY <1>0, <4>2 DEF Upto, Size
      <4> QED
        BY <1>0, <4>1, <4>2, <4>3
    <3>2. CASE \E j \in 1..m : k = n + j
      <4>1. PICK j \in 1..m : k = n + j
        BY <3>2
      <4>2. Due(Upto(ino, trail'[k].off), sent \cup TrailLines(k)') /\ trail'[k].ino = ino
        BY <4>1, <1>4, <1>11 DEF Nth
      <4>3. Upto(trail[k].ino, trail[k].off)' = Upto(ino, trail'[k].off)
        BY <1>0, <4>2 DEF Upto, Size
      <4> QED
        BY <1>0, <4>2, <4>3
    <3>3. k \in 1..n \/ \E j \in 1..m : k = n + j
      <4> SUFFICES ASSUME ~(k \in 1..n) PROVE \E j \in 1..m : k = n + j
        OBVIOUS
      <4>1. k \in 1..(n + m)
        BY <1>4
      <4>2. k - n \in 1..m /\ k = n + (k - n)
        BY <4>1
      <4> QED
        BY <4>2
    <3> QED
      BY <3>1, <3>2, <3>3
  <2>2. PICK u, S : Due(u, S) /\ u = Upto(trail[k].ino, trail[k].off)' /\ S = (sent \cup TrailLines(k))'
    BY <2>1
  <2>3. Due(u, S)'
    BY <1>9, <2>2
  <2> QED
    BY <2>2, <2>3 DEF Due
<1>16. Due(Reach, sent \cup TrailLines(Len(trail)))'
  <2>1. PICK S : S = sent \cup TrailLines(n + m)'
    OBVIOUS
  <2>2. (sent \cup TrailLines(Len(trail)))' = S
    BY <1>0, <1>4, <2>1 DEF TrailLines
  <2>3. Reach' = IF open' THEN Upto(ino, off') ELSE Whole(ino)
    BY <1>0, ReachKept
  <2>4. PICK x \in Nat : x = Reach'
    BY <1>0
  <2>5. m \in 0..m /\ 0 \in 0..m
    OBVIOUS
  <2>6. Due(r, S)
    BY <1>5, <1>8, <2>1, <2>5 DEF Due
  <2>7. CASE open'
    <3>1. CASE off' = off
      <4>1. x = r
        BY <1>0, <1>3, <2>3, <2>4, <2>7, <3>1
      <4> QED
        BY <1>9, <2>2, <2>4, <2>6, <4>1 DEF Due
    <3>2. CASE off' = 0 /\ off > Size(ino)
      <4>1. ~(off <= Size(ino))
        BY <1>0, <3>2
      <4>2. x = content[ino].before
        BY <1>0, <2>3, <2>4, <2>7, <3>2, UptoFacts
      <4>3. r = content[ino].before
        BY <1>0, <1>3, <4>1 DEF Upto
      <4> QED
        BY <1>9, <2>2, <2>4, <2>6, <4>2, <4>3 DEF Due
    <3>3. CASE \E k \in 1..m : off' = trail'[n + k].off
      <4>1. PICK k \in 1..m : off' = trail'[n + k].off
        BY <3>3
      <4>2. Due(x, sent \cup TrailLines(n + k)')
        BY <1>11, <2>3, <2>4, <2>7, <4>1
      <4>3. k \in 0..m
        OBVIOUS
      <4>4. Due(x, S)
        BY <1>8, <2>1, <4>2, <4>3 DEF Due
      <4> QED
        BY <1>9, <2>2, <2>4, <4>4 DEF Due
    <3> QED
      BY <3>1, <3>2, <3>3, <1>1, <1>2 DEF Returns
  <2>8. CASE ~open' /\ off <= Size(ino)
    <3>1. pc = "rest" \/ Unread(ino, off) <= 1
      <4>1. CASE pc = "stat" /\ path = None
        <5>1. path # ino
          BY <1>0, <4>1
        <5>2. Unread(ino, off) <= MaxSlip
          BY <1>0, <4>1, <5>1 DEF SlipInv
        <5>3. Unread(ino, off) \in Nat
          BY <1>0, UnreadType
        <5> QED
          BY <5>2, <5>3, SizeAssumption DEF Tame
      <4> QED
        BY <1>0, <2>8, <4>1
    <3>2. Whole(ino) <= r + m
      BY <1>1, <1>3, <2>8, <3>1
    <3>3. x = Whole(ino)
      BY <2>3, <2>4, <2>8
    <3>4. \A l \in (origin + 1)..x : l \in (origin + 1)..(r + m) /\ l <= Whole(ino)
      <4>1. x <= r + m /\ x = w
        BY <1>w, <3>2, <3>3
      <4>2. \A l \in (z + 1)..x : l \in (z + 1)..(r + m) /\ l <= w
        BY <4>1
      <4> QED
        BY <1>w, <1>z, <4>2
    <3>5. Due(x, S)
      BY <1>10, <2>1, <2>5, <3>4 DEF Due
    <3> QED
      BY <1>9, <2>2, <2>4, <3>5 DEF Due
  <2>9. CASE ~open' /\ off > Size(ino)
    <3>1. x = Whole(ino)
      BY <2>3, <2>4, <2>9
    <3>2. r = content[ino].before
      <4>1. ~(off <= Size(ino))
        BY <1>0, <2>9
      <4> QED
        BY <1>0, <1>3, <4>1 DEF Upto
    <3>3. ino # path
      BY <1>0, <2>9 DEF QueueInv
    <3>4. ino \notin rotated
      BY <1>0, <2>9, <3>3 DEF SlipInv
    <3> SUFFICES ASSUME NEW l \in (origin + 1)..x, OnDisk(l)'
                 PROVE  l \in S
      BY <1>0, <2>2, <2>4 DEF Due
    <3>5. PICK i \in Disk' : l \in LinesIn(i, Size(i))'
      BY DEF OnDisk, Disk
    <3>6. i \in Disk /\ i # ino
      BY <1>0, <2>9, <3>3, <3>4, <3>5 DEF Disk
    <3>7. i \in Inodes
      BY <3>6, DiskFacts
    <3>8. l \in LinesIn(i, Size(i))
      BY <1>0, <3>5 DEF LinesIn, Size
    <3>9. OnDisk(l)
      BY <3>6, <3>8, DiskFacts
    <3>10. l \in Nat /\ content[i].before < l /\ l <= Whole(i)
      BY <1>0, <3>7, <3>8, LinesWhole
    <3>11. PICK b \in Nat, v \in Nat : b = content[i].before /\ v = Whole(i)
      BY <1>0, <3>7, LineFacts
    <3>12. CASE i < ino
      <4>1. Whole(i) <= content[ino].before
        BY <1>0, <3>7, <3>12, WholeBefore
      <4>2. l \in (origin + 1)..r
        <5>1. l <= v /\ v <= r
          BY <3>2, <3>10, <3>11, <4>1
        <5>2. l \in (z + 1)..x
          BY <1>z
        <5>3. l \in (z + 1)..r
          BY <3>10, <5>1, <5>2
        <5> QED
          BY <1>z, <5>3
      <4> QED
        BY <2>6, <3>9, <4>2 DEF Due
    <3>13. CASE ino < i
      <4>1. Whole(ino) <= content[i].before
        BY <1>0, <3>7, <3>13, WholeBefore
      <4> QED
        <5>1. x <= b /\ b < l
          BY <3>1, <3>10, <3>11, <4>1
        <5>2. l <= x
          BY <1>z
        <5> QED
          BY <3>10, <5>1, <5>2
    <3>14. i \in Nat /\ ino \in Nat
      BY <1>0, <3>7, FileType
    <3> QED
      BY <3>6, <3>12, <3>13, <3>14
  <2> QED
    BY <1>0, <2>7, <2>8, <2>9
<1> QED
  BY <1>12, <1>13, <1>14, <1>15, <1>16

LEMMA PlacesQuiet ==
  ASSUME Types, FileInv, QueueInv, [Next]_vars, UNCHANGED <<content, clock, origin>>
  PROVE  /\ \A n, S : Due(n, S) => Due(n, S)'
         /\ \A i, o, S : Due(Upto(i, o), S) => Due(Upto(i, o), S)'
<1>1. \A n, S : Due(n, S) => Due(n, S)'
  BY DueQuiet
<1>2. ASSUME NEW i, NEW o, NEW S, Due(Upto(i, o), S)
      PROVE  Due(Upto(i, o), S)'
  <2>1. PICK u : u = Upto(i, o)
    OBVIOUS
  <2>2. Upto(i, o)' = u
    BY <2>1 DEF Upto, Size
  <2>3. Due(u, S)'
    BY <1>1, <1>2, <2>1
  <2> QED
    BY <2>2, <2>3 DEF Due
<1> QED
  BY <1>1, <1>2

\* A file between the one left and the one opened is one that holds nothing
\* that is owed, or whose loss is reported.
LEMMA OpenSkips ==
  ASSUME Types, FileInv, QueueInv, OriginInv, OwedInv, PollOpen, Tame, loss = "none",
         open', ino' \in Inodes, ino < ino',
         NEW l \in Nat, Reach < l, l <= content[ino'].before, origin < l
  PROVE  ~OnDisk(l)
<1>0. /\ TypeOK /\ content \in Seq(File) /\ Len(content) \in Nat /\ origin \in Int
      /\ path # None => path = Len(content)
      /\ ino \in Nat /\ (ino # None => ino \in Inodes)
      /\ Len(pending) \in Nat /\ \A k \in 1..Len(pending) : pending[k] \in Nat
  <2>1. TypeOK
    BY DEF Types
  <2>2. /\ content \in Seq(File) /\ Len(content) \in Nat
    BY <2>1, FilesTyped
  <2>3. /\ ino \in 0..Len(content) /\ origin \in Int
        /\ Len(pending) \in Nat /\ \A k \in 1..Len(pending) : pending[k] \in Inodes
    BY <2>1, TailTyped
  <2>4. \A x \in 0..Len(content) : x \in Nat /\ (x # None => x \in Inodes)
    BY <2>2 DEF Inodes, None
  <2>5. \A x \in Inodes : x \in Nat
    BY <2>2 DEF Inodes
  <2> QED
    BY <2>1, <2>2, <2>3, <2>4, <2>5 DEF FileInv
<1>1. ~open /\ pc \in {"next", "poll"}
  BY OpenFacts
<1> SUFFICES ASSUME OnDisk(l) PROVE FALSE
  OBVIOUS
<1>2. PICK j \in Disk : content[j].before < l /\ l <= Whole(j)
  BY DiskFacts
<1>3. j \in Inodes /\ j \in Nat
  BY <1>0, DiskFacts, FileType
<1>4. PICK i \in Inodes : i = ino'
  OBVIOUS
<1>5. i \in Nat /\ ino < i /\ l <= content[i].before
  BY <1>0, <1>4, FileType
<1>6. PICK b \in Nat, w \in Nat : b = content[j].before /\ w = Whole(j) /\ b < l /\ l <= w
  BY <1>0, <1>2, <1>3, LineFacts
<1>7. ino < j
  <2> SUFFICES ASSUME j <= ino PROVE FALSE
    BY <1>0, <1>3
  <2>1. ino # None /\ ino \in Inodes
    <3>1. j # None /\ ino \in Nat
      BY <1>0, <1>3, FileType
    <3>2. ino # None
      BY <1>3, <3>1 DEF None
    <3> QED
      BY <1>0, <3>2
  <2>2. PICK v \in Nat : v = Whole(ino) /\ v = Reach
    BY <1>0, <1>1, <2>1, LineFacts DEF Reach
  <2>3. CASE j = ino
    <3>1. v = w /\ v < l
      BY <1>6, <2>2, <2>3
    <3> QED
      BY <1>6, <3>1
  <2>4. CASE j < ino
    <3>1. Whole(j) <= content[ino].before
      BY <1>0, <1>3, <2>1, <2>4, WholeBefore
    <3>2. PICK c \in Nat : c = content[ino].before /\ c <= v
      BY <1>0, <2>1, <2>2, LineFacts
    <3> QED
      BY <1>6, <2>2, <3>1, <3>2
  <2> QED
    BY <1>0, <1>3, <2>3, <2>4
<1>8. j < i
  <2> SUFFICES ASSUME i <= j PROVE FALSE
    BY <1>3, <1>5
  <2>1. PICK c \in Nat : c = content[i].before /\ l <= c
    BY <1>0, <1>5, LineFacts
  <2>2. CASE j = i
    BY <1>6, <2>1, <2>2
  <2>3. CASE i < j
    <3>1. Whole(i) <= content[j].before
      BY <1>0, <1>3, <2>3, WholeBefore
    <3>2. PICK v \in Nat : v = Whole(i) /\ c <= v
      BY <1>0, <2>1, LineFacts
    <3> QED
      BY <1>6, <2>1, <3>1, <3>2
  <2> QED
    BY <1>3, <1>5, <2>2, <2>3
<1>9. j # path
  <2>1. i <= Len(content)
    BY <1>0 DEF Inodes
  <2>2. j # Len(content)
    BY <1>0, <1>3, <1>5, <1>8, <2>1
  <2>3. j # None
    BY <1>0, <1>3, FileType
  <2> QED
    BY <1>0, <2>2, <2>3
<1>10. j \in rotated
  BY <1>1, <1>9 DEF Disk
<1>11. Size(j) > 1
  <2>1. PICK s \in Nat : s = Size(j)
    BY <1>0, <1>3, FileType
  <2>2. w = b + Ended(s)
    BY <1>6, <2>1 DEF Whole
  <2>3. Ended(s) # 0
    BY <1>6, <2>2
  <2>4. Ended(0) = 0 /\ Ended(1) = 0
    BY DEF Ended
  <2>5. s # 0 /\ s # 1
    BY <2>3, <2>4
  <2> QED
    BY <2>1, <2>5
<1>12. Owed(j)
  <2>1. j > ino
    BY <1>0, <1>3, <1>7
  <2>2. Whole(j) > origin
    BY <1>0, <1>6
  <2> QED
    BY <1>10, <1>11, <2>1, <2>2 DEF Owed
<1>13. PICK k \in 1..Len(pending) : pending[k] = j
  BY <1>1, <1>3, <1>12 DEF OwedInv
<1>14. Found(pending[k])
  BY <1>10, <1>13 DEF Found
<1>15. CASE \E n \in 1..Len(pending) :
              (\A x \in 1..(n - 1) : ~Found(pending[x])) /\ ino' = pending[n]
  <2>1. PICK n \in 1..Len(pending) :
          (\A x \in 1..(n - 1) : ~Found(pending[x])) /\ ino' = pending[n]
    BY <1>15
  <2>2. pending[k] < pending[n]
    BY <1>4, <1>8, <1>13, <2>1
  <2>3. ~(n < k)
    <3> SUFFICES ASSUME n < k PROVE FALSE
      OBVIOUS
    <3>1. pending[n] < pending[k]
      BY DEF QueueInv
    <3>2. pending[n] \in Nat /\ pending[k] \in Nat
      BY <1>0
    <3> QED
      BY <2>2, <3>1, <3>2
  <2>4. n # k
    <3>1. pending[n] \in Nat
      BY <1>0
    <3> QED
      BY <2>2, <3>1
  <2>5. k \in 1..(n - 1)
    BY <1>0, <2>3, <2>4
  <2> QED
    BY <1>14, <2>1, <2>5
<1>16. CASE \A n \in 1..Len(pending) : ~Found(pending[n])
  BY <1>14, <1>16
<1> QED
  BY <1>15, <1>16, OpenFacts

LEMMA GapOpen ==
  ASSUME Types, FileInv, QueueInv, OriginInv, OwedInv, GapInv, [Next]_vars, PollOpen
  PROVE  GapInv'
<1>0. /\ TypeOK /\ content \in Seq(File) /\ origin \in Int
      /\ pc # "down" /\ pc' # "down" /\ loss' \in {loss, "error"}
      /\ UNCHANGED <<content, clock, trail, committed, saved, sent, origin>>
      /\ Reach \in Nat /\ Reach' \in Nat
      /\ \/ /\ open' /\ ino' \in Inodes /\ ino < ino'
            /\ Reach' = content[ino'].before
         \/ Reach' = Reach
  <2>1. TypeOK
    BY DEF Types
  <2>2. content \in Seq(File) /\ origin \in Int
    BY <2>1, FilesTyped, TailTyped
  <2>3. /\ pc # "down" /\ pc' # "down" /\ loss' \in {loss, "error"}
        /\ UNCHANGED <<fs, track, sent, origin>>
    BY OpenFacts
  <2>4. UNCHANGED <<content, clock, trail, committed, saved, sent, origin>>
    BY <2>3 DEF fs, track
  <2> QED
    BY <2>1, <2>2, <2>3, <2>4, OpenReach
<1> SUFFICES ASSUME Tame, Calm, loss = "none"
             PROVE  /\ \A n \in sent : Due(n, sent)'
                    /\ saved.ino # None => Due(Upto(saved.ino, saved.off), sent)'
                    /\ committed.ino # None => Due(Upto(committed.ino, committed.off), sent)'
                    /\ \A k \in 1..Len(trail) :
                         Due(Upto(trail[k].ino, trail[k].off), sent \cup TrailLines(k))'
                    /\ Due(Reach, sent \cup TrailLines(Len(trail)))'
  BY <1>0 DEF GapInv, Calm, Tame
<1>1. /\ \A n \in sent : Due(n, sent)
      /\ saved.ino # None => Due(Upto(saved.ino, saved.off), sent)
      /\ committed.ino # None => Due(Upto(committed.ino, committed.off), sent)
      /\ \A k \in 1..Len(trail) :
           Due(Upto(trail[k].ino, trail[k].off), sent \cup TrailLines(k))
      /\ Due(Reach, sent \cup TrailLines(Len(trail)))
  BY <1>0 DEF GapInv
<1>2. /\ \A n, S : Due(n, S) => Due(n, S)'
      /\ \A i, o, S : Due(Upto(i, o), S) => Due(Upto(i, o), S)'
  BY <1>0, PlacesQuiet
<1>3. PICK S : S = sent
  OBVIOUS
<1>4. \A n \in sent : Due(n, sent)'
  BY <1>0, <1>1, <1>2, <1>3 DEF Due
<1>5. saved.ino # None => Due(Upto(saved.ino, saved.off), sent)'
  <2>1. PICK i, o : i = saved.ino /\ o = saved.off
    OBVIOUS
  <2>2. saved.ino # None => Due(Upto(i, o), S)'
    BY <1>1, <1>2, <1>3, <2>1
  <2> QED
    BY <1>0, <1>3, <2>1, <2>2 DEF Due, Upto, Size
<1>6. committed.ino # None => Due(Upto(committed.ino, committed.off), sent)'
  <2>1. PICK i, o : i = committed.ino /\ o = committed.off
    OBVIOUS
  <2>2. committed.ino # None => Due(Upto(i, o), S)'
    BY <1>1, <1>2, <1>3, <2>1
  <2> QED
    BY <1>0, <1>3, <2>1, <2>2 DEF Due, Upto, Size
<1>7. ASSUME NEW k \in 1..Len(trail)
      PROVE  Due(Upto(trail[k].ino, trail[k].off), sent \cup TrailLines(k))'
  <2>1. PICK i, o, T : i = trail[k].ino /\ o = trail[k].off /\ T = sent \cup TrailLines(k)
    OBVIOUS
  <2>2. Due(Upto(i, o), T)'
    BY <1>1, <1>2, <2>1
  <2>3. (sent \cup TrailLines(k))' = T
    BY <1>0, <2>1 DEF TrailLines
  <2> QED
    BY <1>0, <2>1, <2>2, <2>3 DEF Due, Upto, Size
<1>8. Due(Reach, sent \cup TrailLines(Len(trail)))'
  <2>1. PICK T : T = sent \cup TrailLines(Len(trail))
    OBVIOUS
  <2>2. (sent \cup TrailLines(Len(trail)))' = T
    BY <1>0, <2>1 DEF TrailLines
  <2>3. PICK r \in Nat, x \in Nat, z \in Int : r = Reach /\ x = Reach' /\ z = origin
    BY <1>0
  <2>4. Due(x, T)
    <3> SUFFICES ASSUME NEW l \in (z + 1)..x, OnDisk(l) PROVE l \in T
      BY <2>3 DEF Due
    <3>1. l \in Nat
      <4>1. origin >= 0
        BY <1>0 DEF OriginInv, Calm
      <4> QED
        BY <2>3, <4>1
    <3>2. CASE l <= r
      <4>1. l \in (z + 1)..r
        BY <3>1, <3>2
      <4> QED
        BY <1>1, <2>1, <2>3, <4>1 DEF Due
    <3>3. CASE r < l
      <4>1. x # r
        BY <3>1, <3>3
      <4>2. open' /\ ino' \in Inodes /\ ino < ino' /\ l <= content[ino'].before
        BY <1>0, <2>3, <4>1
      <4>3. Reach < l /\ origin < l
        BY <2>3, <3>1, <3>3
      <4>4. ~OnDisk(l)
        BY <3>1, <4>2, <4>3, OpenSkips
      <4> QED
        BY <4>4
    <3> QED
      BY <3>1, <3>2, <3>3
  <2>5. Due(x, T)'
    BY <1>2, <2>4
  <2> QED
    BY <2>2, <2>3, <2>5 DEF Due
<1> QED
  BY <1>4, <1>5, <1>6, <1>7, <1>8

\* Settling moves a line from the trail to what is sent.
LEMMA GapSettle ==
  ASSUME Types, FileInv, QueueInv, OriginInv, SeenInv, GapInv, [Next]_vars, Settle
  PROVE  GapInv'
<1>0. /\ TypeOK /\ trail # << >> /\ 1 \in 1..Len(trail) /\ Len(trail) \in Nat /\ origin \in Int
      /\ committed' = [ino |-> trail[1].ino, off |-> trail[1].off]
      /\ sent' = sent \cup ({trail[1].line} \ {None})
      /\ Len(trail') = Len(trail) - 1
      /\ \A k \in 1..Len(trail') : trail'[k] = trail[k + 1] /\ k + 1 \in 1..Len(trail)
      /\ pc # "down" /\ pc' # "down"
      /\ UNCHANGED <<content, clock, open, ino, off, saved, origin, loss>>
      /\ content \in Seq(File) /\ sent \subseteq Nat
      /\ \A k \in 1..Len(trail) : trail[k].ino \in Inodes /\ trail[k].off \in Nat /\ trail[k].line \in Nat
  <2>1. TypeOK
    BY DEF Types
  <2>2. /\ trail # << >> /\ 1 \in 1..Len(trail)
        /\ committed' = [ino |-> trail[1].ino, off |-> trail[1].off]
        /\ sent' = sent \cup ({trail[1].line} \ {None})
        /\ Len(trail') = Len(trail) - 1
        /\ \A k \in 1..Len(trail') : trail'[k] = trail[k + 1] /\ k + 1 \in 1..Len(trail)
        /\ pc = "poll" /\ UNCHANGED <<fs, pc, tail, saved, origin, loss>>
    BY SettleFacts
  <2>3. UNCHANGED <<content, clock, open, ino, off, saved, origin, loss>>
    BY <2>2 DEF fs, tail
  <2>4. /\ Len(trail) \in Nat /\ origin \in Int /\ sent \subseteq Nat
        /\ DOMAIN trail = 1..Len(trail)
        /\ \A k \in 1..Len(trail) : trail[k].off \in Nat /\ trail[k].line \in Nat
    BY <2>1, TailTyped
  <2>5. \A k \in 1..Len(trail) : trail[k].ino \in Inodes
    BY <2>4 DEF Types, PlaceInv
  <2> QED
    BY <2>1, <2>2, <2>3, <2>4, <2>5, FilesTyped
<1>1. PICK e : e = trail[1]
  OBVIOUS
<1> SUFFICES ASSUME Tame, Calm
             PROVE  /\ \A n \in sent' : Due(n, sent)'
                    /\ saved.ino # None => Due(Upto(saved.ino, saved.off), sent)'
                    /\ Due(Upto(e.ino, e.off), sent)'
                    /\ \A k \in 1..Len(trail') :
                         Due(Upto(trail[k].ino, trail[k].off), sent \cup TrailLines(k))'
                    /\ Due(Reach, sent \cup TrailLines(Len(trail)))'
  BY <1>0, <1>1 DEF GapInv, Calm, Tame
<1>2. /\ \A n \in sent : Due(n, sent)
      /\ saved.ino # None => Due(Upto(saved.ino, saved.off), sent)
      /\ \A k \in 1..Len(trail) :
           Due(Upto(trail[k].ino, trail[k].off), sent \cup TrailLines(k))
      /\ Due(Reach, sent \cup TrailLines(Len(trail)))
  BY <1>0 DEF GapInv
<1>3. ASSUME NEW n, NEW T, NEW U, T \subseteq U \cup {None}, Due(n, T)
      PROVE  Due(n, U) /\ Due(n, U)'
  <2>1. origin >= 0
    BY <1>0 DEF OriginInv, Calm
  <2>2. \A l \in (origin + 1)..n : l # None
    BY <1>0, <2>1 DEF None
  <2>3. Due(n, U)
    BY <1>3, <2>2 DEF Due
  <2> QED
    BY <1>0, <2>3, DueQuiet
<1>4. ASSUME NEW i, NEW o, NEW T, NEW U, T \subseteq U \cup {None}, Due(Upto(i, o), T)
      PROVE  Due(Upto(i, o), U)'
  <2>1. PICK u : u = Upto(i, o)
    OBVIOUS
  <2>2. Upto(i, o)' = u
    BY <1>0, <2>1 DEF Upto, Size
  <2>3. Due(u, U)'
    BY <1>3, <1>4, <2>1
  <2> QED
    BY <2>2, <2>3 DEF Due
<1>5. PICK S : S = sent'
  OBVIOUS
<1>6. PICK T : T = sent \cup TrailLines(1)
  OBVIOUS
<1>7. sent \subseteq S /\ T \subseteq S \cup {None} /\ S \subseteq T
  <2>1. 1..1 = {1}
    OBVIOUS
  <2>2. TrailLines(1) = {trail[1].line}
    BY <2>1 DEF TrailLines
  <2> QED
    BY <1>0, <1>5, <1>6, <2>2
<1>8. Due(Upto(e.ino, e.off), T)
  BY <1>0, <1>1, <1>2, <1>6
<1>9. \A n \in sent' : Due(n, sent)'
  <2> SUFFICES ASSUME NEW n \in S PROVE Due(n, S)'
    BY <1>5 DEF Due
  <2>1. CASE n \in sent
    BY <1>2, <1>3, <1>7, <2>1
  <2>2. CASE n = e.line
    <3>1. e.ino \in Inodes /\ e.off \in Nat /\ n \in Nat
      BY <1>0, <1>1, <2>2
    <3>2. PICK u \in Nat : u = Upto(e.ino, e.off)
      BY <1>0, <3>1, UptoFacts
    <3>3. n <= u
      BY <1>0, <1>1, <2>2, <3>2 DEF SeenInv
    <3>4. Due(n, T)
      BY <1>0, <1>8, <3>1, <3>2, <3>3, DueLess
    <3> QED
      BY <1>3, <1>7, <3>4
  <2> QED
    BY <1>0, <1>1, <1>5, <2>1, <2>2
<1>10. saved.ino # None => Due(Upto(saved.ino, saved.off), sent)'
  <2>1. PICK i, o : i = saved.ino /\ o = saved.off
    OBVIOUS
  <2>2. PICK R : R = sent
    OBVIOUS
  <2>3. R \subseteq S \cup {None}
    BY <1>7, <2>2
  <2>4. saved.ino # None => Due(Upto(i, o), R)
    BY <1>2, <2>1, <2>2
  <2>5. saved.ino # None => Due(Upto(i, o), S)'
    BY <1>4, <2>3, <2>4
  <2> QED
    BY <1>0, <1>5, <2>1, <2>5 DEF Due, Upto, Size
<1>11. Due(Upto(e.ino, e.off), sent)'
  <2>1. Due(Upto(e.ino, e.off), S)'
    BY <1>4, <1>7, <1>8
  <2> QED
    BY <1>5, <2>1 DEF Due
<1>12. \A k \in 0..Len(trail') :
         sent \cup TrailLines(k + 1) \subseteq (sent' \cup TrailLines(k)') \cup {None}
  <2> SUFFICES ASSUME NEW k \in 0..Len(trail'), NEW x \in TrailLines(k + 1)
               PROVE  x \in (sent' \cup TrailLines(k)') \cup {None}
    BY <1>5, <1>7
  <2>3. PICK j \in 1..(k + 1) : x = trail[j].line
    BY DEF TrailLines
  <2> SUFFICES trail[j].line \in (sent' \cup TrailLines(k)') \cup {None}
    BY <2>3
  <2>1. CASE j = 1
    BY <1>0, <2>1
  <2>2. CASE j # 1
    <3>1. PICK n \in Nat : n = Len(trail) /\ Len(trail') = n - 1
      BY <1>0
    <3>2. j - 1 \in 1..k /\ (j - 1) + 1 = j /\ j - 1 \in 1..Len(trail')
      BY <2>2, <3>1
    <3>3. trail'[j - 1] = trail[j]
      BY <1>0, <3>2
    <3> QED
      BY <3>2, <3>3 DEF TrailLines
  <2> QED
    BY <2>1, <2>2
<1>13. ASSUME NEW k \in 1..Len(trail')
       PROVE  Due(Upto(trail[k].ino, trail[k].off), sent \cup TrailLines(k))'
  <2>1. PICK i, o, R : i = trail[k + 1].ino /\ o = trail[k + 1].off /\ R = sent \cup TrailLines(k + 1)
    OBVIOUS
  <2>2. PICK U : U = sent' \cup TrailLines(k)'
    OBVIOUS
  <2>3. k \in 0..Len(trail')
    BY <1>0
  <2>4. R \subseteq U \cup {None}
    BY <1>12, <2>1, <2>2, <2>3
  <2>5. Due(Upto(i, o), R)
    BY <1>0, <1>2, <2>1
  <2>6. Due(Upto(i, o), U)'
    BY <1>4, <2>4, <2>5
  <2>7. i = trail'[k].ino /\ o = trail'[k].off
    BY <1>0, <2>1
  <2> QED
    BY <2>2, <2>6, <2>7 DEF Due, Upto, Size
<1>14. Due(Reach, sent \cup TrailLines(Len(trail)))'
  <2>1. PICK r, R : r = Reach /\ R = sent \cup TrailLines(Len(trail))
    OBVIOUS
  <2>2. PICK k \in Nat : k = Len(trail') /\ k + 1 = Len(trail)
    BY <1>0
  <2>3. PICK U : U = sent' \cup TrailLines(k)'
    OBVIOUS
  <2>4. U = (sent \cup TrailLines(Len(trail)))'
    BY <2>2, <2>3 DEF TrailLines
  <2>5. R \subseteq U \cup {None}
    <3>1. k \in 0..Len(trail')
      BY <2>2
    <3> QED
      BY <1>12, <2>1, <2>2, <2>3, <3>1
  <2>6. Due(r, U)'
    BY <1>2, <1>3, <2>1, <2>5
  <2>7. Reach' = r
    BY <1>0, <2>1 DEF Reach, Upto, Whole, Size
  <2> QED
    BY <2>4, <2>6, <2>7 DEF Due
<1> QED
  BY <1>9, <1>10, <1>11, <1>13, <1>14

\* A checkpoint saves a position that was settled.
LEMMA GapSave ==
  ASSUME Types, FileInv, QueueInv, GapInv, [Next]_vars, Checkpoint
  PROVE  GapInv'
<1>0. /\ pc # "down" /\ pc' # "down" /\ (saved' = saved \/ (saved' = committed /\ committed.ino # None))
      /\ UNCHANGED <<content, clock, trail, committed, sent, origin, loss, ino, off, open>>
  BY DEF Checkpoint, fs, tail, hist
<1> SUFFICES ASSUME Tame, Calm
             PROVE  /\ \A n \in sent : Due(n, sent)'
                    /\ saved'.ino # None => Due(Upto(saved.ino, saved.off), sent)'
                    /\ committed.ino # None => Due(Upto(committed.ino, committed.off), sent)'
                    /\ \A k \in 1..Len(trail) :
                         Due(Upto(trail[k].ino, trail[k].off), sent \cup TrailLines(k))'
                    /\ Due(Reach, sent \cup TrailLines(Len(trail)))'
  BY <1>0 DEF GapInv, Calm, Tame
<1>1. /\ \A n \in sent : Due(n, sent)
      /\ saved.ino # None => Due(Upto(saved.ino, saved.off), sent)
      /\ committed.ino # None => Due(Upto(committed.ino, committed.off), sent)
      /\ \A k \in 1..Len(trail) :
           Due(Upto(trail[k].ino, trail[k].off), sent \cup TrailLines(k))
      /\ Due(Reach, sent \cup TrailLines(Len(trail)))
  BY <1>0 DEF GapInv
<1>2. /\ \A n, S : Due(n, S) => Due(n, S)'
      /\ \A i, o, S : Due(Upto(i, o), S) => Due(Upto(i, o), S)'
  BY <1>0, PlacesQuiet
<1>3. PICK S : S = sent
  OBVIOUS
<1>4. \A n \in sent : Due(n, sent)'
  BY <1>0, <1>1, <1>2, <1>3 DEF Due
<1>5. saved'.ino # None => Due(Upto(saved.ino, saved.off), sent)'
  <2>1. PICK i, o : i = saved'.ino /\ o = saved'.off
    OBVIOUS
  <2>2. saved'.ino # None => Due(Upto(i, o), S)
    BY <1>0, <1>1, <1>3, <2>1
  <2>3. saved'.ino # None => Due(Upto(i, o), S)'
    BY <1>2, <2>2
  <2> QED
    BY <1>0, <1>3, <2>1, <2>3 DEF Due, Upto, Size
<1>6. committed.ino # None => Due(Upto(committed.ino, committed.off), sent)'
  <2>1. PICK i, o : i = committed.ino /\ o = committed.off
    OBVIOUS
  <2>2. committed.ino # None => Due(Upto(i, o), S)'
    BY <1>1, <1>2, <1>3, <2>1
  <2> QED
    BY <1>0, <1>3, <2>1, <2>2 DEF Due, Upto, Size
<1>7. ASSUME NEW k \in 1..Len(trail)
      PROVE  Due(Upto(trail[k].ino, trail[k].off), sent \cup TrailLines(k))'
  <2>1. PICK i, o, T : i = trail[k].ino /\ o = trail[k].off /\ T = sent \cup TrailLines(k)
    OBVIOUS
  <2>2. Due(Upto(i, o), T)'
    BY <1>1, <1>2, <2>1
  <2>3. (sent \cup TrailLines(k))' = T
    BY <1>0, <2>1 DEF TrailLines
  <2> QED
    BY <1>0, <2>1, <2>2, <2>3 DEF Due, Upto, Size
<1>8. Due(Reach, sent \cup TrailLines(Len(trail)))'
  <2>1. PICK r, T : r = Reach /\ T = sent \cup TrailLines(Len(trail))
    OBVIOUS
  <2>2. (sent \cup TrailLines(Len(trail)))' = T
    BY <1>0, <2>1 DEF TrailLines
  <2>3. Reach' = r
    BY <1>0, <2>1 DEF Reach, Upto, Whole, Size
  <2>4. Due(r, T)'
    BY <1>1, <1>2, <2>1
  <2> QED
    BY <2>2, <2>3, <2>4 DEF Due
<1> QED
  BY <1>4, <1>5, <1>6, <1>7, <1>8

LEMMA GapCrash ==
  ASSUME Types, FileInv, QueueInv, OriginInv, SeenInv, LivesInv, GapInv, [Next]_vars, Crash
  PROVE  GapInv'
<1>0. /\ pc' = "down" /\ trail' = << >>
      /\ UNCHANGED <<content, clock, committed, saved, sent, lives, origin, loss>>
  BY DEF Crash, fs, hist
<1>1. Len(trail') = 0 /\ 1..0 = {}
  BY <1>0
<1> SUFFICES ASSUME Tame, Calm
             PROVE  /\ \A n \in sent : Due(n, sent)'
                    /\ saved.ino # None => Due(Upto(saved.ino, saved.off), sent)'
                    /\ committed.ino # None => Due(Upto(committed.ino, committed.off), sent)'
                    /\ Gapless(origin)'
  BY <1>0, <1>1 DEF GapInv, Calm, Tame
<1>2. /\ \A n \in sent : Due(n, sent)
      /\ saved.ino # None => Due(Upto(saved.ino, saved.off), sent)
      /\ committed.ino # None => Due(Upto(committed.ino, committed.off), sent)
  BY DEF GapInv
<1>3. /\ \A n, S : Due(n, S) => Due(n, S)'
      /\ \A i, o, S : Due(Upto(i, o), S) => Due(Upto(i, o), S)'
  BY <1>0, PlacesQuiet
<1>4. PICK S : S = sent
  OBVIOUS
<1>5. \A n \in sent : Due(n, sent)'
  BY <1>0, <1>2, <1>3, <1>4 DEF Due
<1>6. saved.ino # None => Due(Upto(saved.ino, saved.off), sent)'
  <2>1. PICK i, o : i = saved.ino /\ o = saved.off
    OBVIOUS
  <2>2. saved.ino # None => Due(Upto(i, o), S)'
    BY <1>2, <1>3, <1>4, <2>1
  <2> QED
    BY <1>0, <1>4, <2>1, <2>2 DEF Due, Upto, Size
<1>7. committed.ino # None => Due(Upto(committed.ino, committed.off), sent)'
  <2>1. PICK i, o : i = committed.ino /\ o = committed.off
    OBVIOUS
  <2>2. committed.ino # None => Due(Upto(i, o), S)'
    BY <1>2, <1>3, <1>4, <2>1
  <2> QED
    BY <1>0, <1>4, <2>1, <2>2 DEF Due, Upto, Size
<1>8. Gapless(origin)'
  <2>1. Gapless(origin)
    BY GapNow
  <2>2. Seen' = Seen
    BY <1>0 DEF Seen
  <2> QED
    BY <1>0, <2>1, <2>2, GaplessKept
<1> QED
  BY <1>5, <1>6, <1>7, <1>8

\* A run goes on from a position up to which everything was settled, or begins
\* where lines are owed from.
LEMMA GapStart ==
  ASSUME Types, FileInv, QueueInv, OriginInv, GapInv, [Next]_vars, Start
  PROVE  GapInv'
<1>0. /\ TypeOK /\ content \in Seq(File) /\ Len(content) \in Nat /\ rotated \subseteq Inodes
      /\ path # None => path \in Inodes
      /\ line \in Nat /\ clock \in Nat
  BY FilesTyped DEF Types
<1>1. /\ UNCHANGED <<content, path, clock, saved, sent>> /\ trail' = << >> /\ pc' = "save" /\ StartKind
      /\ saved = NoPos => origin' = Before
      /\ saved # NoPos => origin' = origin
      /\ loss' \in {loss, "warned", "error"}
  BY StartKinds DEF fs
<1>2. /\ saved.ino # None => saved # NoPos
      /\ saved # NoPos => saved.ino # None /\ saved.ino \in Inodes /\ saved.off \in Nat
  <2>1. saved \in Pos /\ saved.off \in Nat
    BY <1>0, TailTyped
  <2>2. (saved.ino = None => saved.off = 0) /\ saved.ino \in 0..Len(content)
    BY DEF Types, PlaceInv
  <2>3. saved # NoPos => saved.ino # None
    BY <2>1, <2>2 DEF Pos, NoPos, None
  <2>4. saved.ino # None => saved.ino \in Inodes
    BY <1>0, <2>2 DEF Inodes, None
  <2> QED
    BY <2>1, <2>3, <2>4 DEF NoPos
<1>3. origin \in Int /\ origin' \in Int /\ origin <= origin' /\ origin' >= -1
  <2>1. origin \in Int /\ Before \in Nat
    BY <1>0, TailTyped, BeforeType
  <2>2. OriginInv'
    BY OriginStep
  <2>3. origin' = origin \/ origin' = Before
    BY <1>1
  <2> QED
    BY <2>1, <2>2, <2>3 DEF OriginInv
<1> SUFFICES ASSUME Tame, Calm'
             PROVE  /\ \A n \in sent : Due(n, sent)'
                    /\ saved.ino # None => Due(Upto(saved.ino, saved.off), sent)'
                    /\ committed'.ino # None => Due(Upto(committed.ino, committed.off), sent)'
                    /\ Due(Reach, sent \cup TrailLines(Len(trail)))'
  <2>1. Len(trail') = 0 /\ 1..0 = {}
    BY <1>1
  <2> QED
    BY <1>1, <2>1 DEF GapInv, Tame
<1>4. loss = "none" /\ origin' >= 0 /\ (saved # NoPos => Calm)
  BY <1>1, <1>3 DEF Calm
<1>5. PICK S : S = sent
  OBVIOUS
<1>6. \A n : Due(n, S) => Due(n, S)'
  BY <1>1, <1>3, DueQuiet
<1>7. \A n \in sent : Due(n, sent)'
  <2>1. sent # {} => Calm
    BY <1>4 DEF OriginInv, Calm
  <2>2. \A n \in S : Due(n, S)'
    BY <1>5, <1>6, <2>1 DEF GapInv
  <2> QED
    BY <1>1, <1>5, <2>2 DEF Due
<1>8. saved # NoPos => Due(Upto(saved.ino, saved.off), S)
  BY <1>2, <1>4, <1>5 DEF GapInv
<1>9. ASSUME NEW i \in Inodes, NEW o, Due(Upto(i, o), S)
      PROVE  Due(Upto(i, o), sent)'
  <2>1. PICK u : u = Upto(i, o)
    OBVIOUS
  <2>2. Due(u, S)'
    BY <1>6, <1>9, <2>1
  <2>3. Upto(i, o)' = u
    BY <1>1, <2>1 DEF Upto, Size
  <2> QED
    BY <1>1, <1>5, <2>2, <2>3 DEF Due
<1>10. saved.ino # None => Due(Upto(saved.ino, saved.off), sent)'
  <2> SUFFICES ASSUME saved.ino # None PROVE Due(Upto(saved.ino, saved.off), sent)'
    OBVIOUS
  <2>1. PICK i \in Inodes, o \in Nat : i = saved.ino /\ o = saved.off
    BY <1>2
  <2>2. Due(Upto(i, o), sent)'
    BY <1>2, <1>8, <1>9, <2>1
  <2> QED
    BY <1>1, <2>1, <2>2 DEF Due, Upto, Size
<1>11. ASSUME NEW i \in Inodes, NEW o, NEW owed, Opens(i, o, owed), Due(Upto(i, o), sent)'
       PROVE  /\ committed'.ino # None => Due(Upto(committed.ino, committed.off), sent)'
              /\ Due(Reach, sent \cup TrailLines(Len(trail)))'
  <2>1. committed'.ino = i /\ committed'.off = o /\ ino' = i /\ off' = o /\ open' = TRUE
    BY <1>11 DEF Opens
  <2>2. i # None
    BY <1>0, FileType
  <2>3. Reach' = Upto(i, o)'
    BY <2>1, <2>2 DEF Reach, Upto, Size
  <2>4. Due(Upto(committed.ino, committed.off), sent)'
    BY <1>11, <2>1 DEF Due, Upto, Size
  <2>5. Due(Reach, sent \cup TrailLines(Len(trail)))'
    BY <1>11, <2>3 DEF Due
  <2> QED
    BY <2>4, <2>5
<1>12. ASSUME NEW i \in Inodes, NEW o, Upto(i, o) \in Nat, Upto(i, o) <= origin'
       PROVE  Due(Upto(i, o), sent)'
  <2>1. PICK u \in Nat : u = Upto(i, o) /\ u <= origin'
    BY <1>12
  <2>2. (origin' + 1)..u = {}
    BY <1>3, <2>1
  <2>3. Upto(i, o)' = u
    BY <1>1, <2>1 DEF Upto, Size
  <2> QED
    BY <2>2, <2>3 DEF Due
<1>13. CASE Waits
  <2>1. committed'.ino = None /\ ino' = None
    BY <1>13 DEF Waits, NoPos
  <2>2. Reach' = 0
    BY <2>1 DEF Reach
  <2>3. (origin' + 1)..0 = {}
    <3>1. PICK z \in Int : z = origin' /\ z >= 0
      BY <1>3, <1>4
    <3>2. PICK u \in Nat : u = 0 /\ u <= z
      BY <3>1
    <3>3. (z + 1)..u = {}
      BY <3>2
    <3> QED
      BY <3>1, <3>2, <3>3
  <2>4. Due(Reach, sent \cup TrailLines(Len(trail)))'
    BY <2>2, <2>3 DEF Due
  <2> QED
    BY <1>7, <1>10, <2>1, <2>4
<1>14. CASE /\ saved = NoPos /\ path # None
            /\ Opens(path, IF StartFrom = "end" THEN Size(path) ELSE 0, << >>)
  <2>1. PICK i \in Inodes : i = path
    BY <1>0, <1>14
  <2>2. CASE StartFrom = "end"
    <3>1. origin' = line
      BY <1>1, <1>14, <2>2 DEF Before
    <3>2. PICK s \in Nat : s = Size(i)
      BY <1>0, FileType
    <3>3. Upto(i, s) \in Nat /\ Upto(i, s) = Whole(i)
      BY <1>0, <3>2, UptoFacts
    <3>4. Whole(i) <= line
      BY WholeSettled
    <3>5. Due(Upto(i, s), sent)'
      BY <1>12, <3>1, <3>3, <3>4
    <3>6. Opens(i, s, << >>)
      BY <1>14, <2>1, <2>2, <3>2
    <3> QED
      BY <1>7, <1>10, <1>11, <3>5, <3>6
  <2>3. CASE StartFrom # "end"
    <3>1. origin' = content[i].before
      BY <1>1, <1>14, <2>1, <2>3 DEF Before
    <3>2. Upto(i, 0) = content[i].before /\ content[i].before \in Nat
      BY <1>0, UptoFacts, FileType
    <3>3. Upto(i, 0) \in Nat /\ Upto(i, 0) <= origin'
      BY <3>1, <3>2
    <3>4. Due(Upto(i, 0), sent)'
      BY <1>12, <3>3
    <3>5. Opens(i, 0, << >>)
      BY <1>14, <2>1, <2>3
    <3> QED
      BY <1>7, <1>10, <1>11, <3>4, <3>5
  <2> QED
    BY <2>2, <2>3
<1>15. ASSUME NEW owed, saved # NoPos, Opens(saved.ino, saved.off, owed)
       PROVE  /\ committed'.ino # None => Due(Upto(committed.ino, committed.off), sent)'
              /\ Due(Reach, sent \cup TrailLines(Len(trail)))'
  <2>1. PICK i \in Inodes, o \in Nat : i = saved.ino /\ o = saved.off
    BY <1>2, <1>15
  <2>2. Due(Upto(i, o), sent)'
    BY <1>8, <1>9, <1>15, <2>1
  <2> QED
    BY <1>11, <1>15, <2>1, <2>2
<1>16. CASE /\ saved # NoPos /\ path # None /\ path = saved.ino
            /\ Opens(path, saved.off, << >>)
  BY <1>7, <1>10, <1>15, <1>16
<1>17. CASE /\ saved # NoPos /\ saved.ino \in rotated
            /\ \E q \in InMtimeOrder(Later) :
                 Opens(saved.ino, saved.off, q \o (IF path = None THEN << >> ELSE <<path>>))
  BY <1>7, <1>10, <1>15, <1>17
<1>18. CASE saved # NoPos /\ path # None /\ Opens(path, 0, << >>) /\ (path = saved.ino \/ loss' # "none")
  <2>1. path = saved.ino
    BY <1>18 DEF Calm
  <2>2. PICK i \in Inodes, o \in Nat : i = path /\ o = saved.off
    BY <1>0, <1>2, <1>18
  <2>3. Upto(i, 0) \in Nat /\ Upto(i, o) \in Nat /\ Upto(i, 0) <= Upto(i, o)
    BY <1>0, UptoFacts
  <2>4. Due(Upto(i, o), S)
    BY <1>8, <1>18, <2>1, <2>2
  <2>5. Due(Upto(i, 0), S)
    BY <1>0, <2>3, <2>4, DueLess
  <2>6. Due(Upto(i, 0), sent)'
    BY <1>9, <2>5
  <2>7. Opens(i, 0, << >>)
    BY <1>18, <2>2
  <2> QED
    BY <1>7, <1>10, <1>11, <2>6, <2>7
<1> QED
  BY <1>1, <1>13, <1>14, <1>16, <1>17, <1>18 DEF StartKind

LEMMA GapStep ==
  ASSUME OrderInv, OriginInv, FirmInv, SeenInv, OwedInv, SlipInv, GapInv, [Next]_vars
  PROVE  GapInv'
<1>0. Types /\ FileInv /\ QueueInv /\ LivesInv
  BY DEF OrderInv
<1>1. CASE Source
  BY <1>0, <1>1, GapSource
<1>2. CASE PollRead \/ PollStat \/ PollRest \/ PollLast
  BY <1>0, <1>2, GapPoll
<1>3. CASE PollOpen
  BY <1>0, <1>3, GapOpen
<1>4. CASE Settle
  BY <1>0, <1>4, GapSettle
<1>5. CASE Checkpoint
  BY <1>0, <1>5, GapSave
<1>6. CASE Crash
  BY <1>0, <1>6, GapCrash
<1>7. CASE Start
  BY <1>0, <1>7, GapStart
<1>8. CASE UNCHANGED vars
  <2>1. /\ UNCHANGED <<content, path, rotated, open, ino, off, pc, trail, committed, saved>>
        /\ UNCHANGED <<sent, lives, origin, loss>>
    BY <1>8 DEF vars, fs, tail, track, hist
  <2> QED
    BY <2>1 DEF GapInv, Calm, Tame, Due, OnDisk, LinesIn, Size, Upto, Reach, Whole, TrailLines,
                Gapless, Seen
<1> QED
  BY <1>1, <1>2, <1>3, <1>4, <1>5, <1>6, <1>7, <1>8 DEF Next, Poll, Source

LEMMA GapInit ==
  ASSUME Init
  PROVE  OriginInv /\ FirmInv /\ SeenInv /\ OwedInv /\ SlipInv /\ GapInv
<1>1. /\ content = <<[before |-> 0, size |-> 0]>> /\ path = 1 /\ line = 0
      /\ pc = "down" /\ open = FALSE /\ ino = None /\ off = 0
      /\ trail = << >> /\ committed = NoPos /\ saved = NoPos
      /\ sent = {} /\ lives = << >> /\ origin = -1
  BY DEF Init
<1>2. Len(trail) = 0 /\ DOMAIN trail = {} /\ DOMAIN lives = {} /\ 1..0 = {}
  BY <1>1
<1>3. OriginInv
  <2>1. content[path].before = 0
    BY <1>1
  <2>2. Before = 0
    BY <1>1, <2>1 DEF Before
  <2> QED
    BY <1>1, <2>2 DEF OriginInv
<1>4. FirmInv
  <2>1. \A p \in Positions : p.ino = None
    BY <1>1, <1>2 DEF Positions, NoPos
  <2> QED
    BY <2>1 DEF FirmInv
<1>5. SeenInv
  <2>1. Seen = {}
    BY <1>1, <1>2 DEF Seen
  <2> QED
    BY <1>2, <2>1 DEF SeenInv
<1>6. OwedInv /\ SlipInv /\ GapInv
  BY <1>1 DEF OwedInv, SlipInv, GapInv, Calm
<1> QED
  BY <1>3, <1>4, <1>5, <1>6

\* As long as no loss was logged, no line that is owed and can be read was passed over,
\* at whatever moments files are rotated, truncated, deleted and re-created and the
\* forwarder is killed and restarted; provided a file stays at the path until the
\* running tail has seen it, a truncated file does not outgrow an offset held into
\* it before it is looked at, and at most one line is completed between the read
\* that reaches the end of the file and the stat that misses the path.
THEOREM NothingPassedOver == Spec => [](Tame => NoSilentGap)
<1> DEFINE Inv == OriginInv /\ FirmInv /\ SeenInv /\ OwedInv /\ SlipInv /\ GapInv
<1>1. Init => Inv
  BY GapInit
<1>2. OrderInv /\ Inv /\ [Next]_vars => Inv'
  <2> SUFFICES ASSUME OrderInv, Inv, [Next]_vars
               PROVE  Inv'
    OBVIOUS
  <2>0. Types /\ FileInv /\ QueueInv
    BY DEF OrderInv
  <2>1. OriginInv'
    BY <2>0, OriginStep
  <2>2. FirmInv'
    BY <2>0, FirmStep
  <2>3. SeenInv'
    BY <2>0, SeenStep
  <2>4. OwedInv'
    BY <2>0, OwedStep
  <2>5. SlipInv'
    BY <2>0, SlipStep
  <2>6. GapInv'
    BY GapStep
  <2> QED
    BY <2>1, <2>2, <2>3, <2>4, <2>5, <2>6
<1>3. OrderInv /\ Inv => (Tame => NoSilentGap)
  BY GapNow DEF OrderInv, NoSilentGap, Calm
<1> HIDE DEF Inv
<1> QED
  BY <1>1, <1>2, <1>3, OrderAlways, PTL DEF Spec
=============================================================================
