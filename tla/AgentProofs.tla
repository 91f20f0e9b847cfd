----------------------------- MODULE AgentProofs ----------------------------
(***************************************************************************)
(* Proofs about the agent's queue, for any journal, limits and batch size  *)
(* and any number of faults.                                               *)
(***************************************************************************)
EXTENDS Agent, FiniteSetTheorems, TLAPS

\* Files leave the queue by Forget only: a set D of them is removed, and the
\* counter goes down by the size of D.
LEMMA Difference ==
  ASSUME NEW S, IsFiniteSet(S), NEW D \in SUBSET S
  PROVE  /\ IsFiniteSet(D) /\ IsFiniteSet(S \ D)
         /\ Cardinality(D) \in Nat
         /\ Cardinality(S \ D) \in Nat
         /\ Cardinality(S \ D) = Cardinality(S) - Cardinality(D)
<1>1. IsFiniteSet(D)
  BY FS_Subset
<1>2. IsFiniteSet(S \ D) /\ Cardinality(S \ D) = Cardinality(S) - Cardinality(S \cap D)
  BY FS_Difference
<1>3. S \cap D = D
  OBVIOUS
<1> QED
  BY <1>1, <1>2, <1>3, FS_CardinalityType

\* The queue is a finite set of events.
LEMMA FiniteQueue ==
  ASSUME TypeOK
  PROVE  IsFiniteSet(pending) /\ Cardinality(pending) \in Nat
<1>1. Len(entry) \in Nat
  BY DEF TypeOK
<1>2. IsFiniteSet(1..Len(entry))
  BY <1>1, FS_Interval
<1>3. pending \in SUBSET (1..Len(entry))
  BY DEF TypeOK, Events
<1>4. IsFiniteSet(pending)
  BY <1>2, <1>3, FS_Subset
<1> QED
  BY <1>4, FS_CardinalityType

-----------------------------------------------------------------------------
(* The bytes of a set of files: a sum that goes up and down with the set.  *)

LEMMA SizeType ==
  ASSUME TypeOK, NEW e \in Events
  PROVE  Size(e) \in Nat
BY SizesAssumption DEF TypeOK, Events, Size

LEMMA BytesFinite ==
  ASSUME TypeOK, NEW S \in SUBSET Events
  PROVE  IsFiniteSet(Bytes(S)) /\ Total(S) \in Nat
<1> DEFINE part == [e \in S |-> {e} \X (1..Size(e))]
           parts == {part[e] : e \in S}
<1>1. IsFiniteSet(S)
  <2>1. IsFiniteSet(1..Len(entry))
    BY FS_Interval DEF TypeOK
  <2> QED
    BY <2>1, FS_Subset DEF Events
<1>2. IsFiniteSet(parts)
  <2>1. part \in Surjection(S, parts)
    BY DEF Surjection
  <2> QED
    BY <1>1, <2>1, FS_Surjection
<1>3. ASSUME NEW P \in parts PROVE IsFiniteSet(P)
  <2>1. PICK e \in S : P = {e} \X (1..Size(e))
    OBVIOUS
  <2>2. IsFiniteSet(1..Size(e))
    BY SizeType, FS_Interval
  <2> QED
    BY <2>1, <2>2, FS_Singleton, FS_Product
<1>4. IsFiniteSet(UNION parts)
  BY <1>2, <1>3, FS_UNION
<1>5. Bytes(S) = UNION parts
  BY DEF Bytes
<1> QED
  BY <1>4, <1>5, FS_CardinalityType DEF Total

LEMMA BytesDifference ==
  ASSUME TypeOK, NEW S \in SUBSET Events, NEW D \in SUBSET S
  PROVE  Total(S \ D) = Total(S) - Total(D)
<1>1. Bytes(S \ D) = Bytes(S) \ Bytes(D) /\ Bytes(D) \in SUBSET Bytes(S)
  BY DEF Bytes
<1>2. IsFiniteSet(Bytes(S))
  BY BytesFinite
<1> QED
  BY <1>1, <1>2, Difference DEF Total

LEMMA BytesAdd ==
  ASSUME TypeOK, NEW S \in SUBSET Events, NEW x \in Events, x \notin S
  PROVE  Total(S \cup {x}) = Total(S) + Size(x)
<1> DEFINE new == {x} \X (1..Size(x))
<1>1. Bytes(S \cup {x}) = Bytes(S) \cup new /\ Bytes(S) \cap new = {}
  BY DEF Bytes
<1>2. IsFiniteSet(new) /\ Cardinality(new) = Size(x)
  <2>1. Size(x) \in Nat
    BY SizeType
  <2>2. IsFiniteSet(1..Size(x)) /\ Cardinality(1..Size(x)) = Size(x)
    BY <2>1, FS_Interval
  <2>3. IsFiniteSet({x}) /\ Cardinality({x}) = 1
    BY FS_Singleton
  <2>4. IsFiniteSet(new) /\ Cardinality(new) = 1 * Size(x)
    BY <2>2, <2>3, FS_Product
  <2> QED
    BY <2>1, <2>4
<1>3. IsFiniteSet(Bytes(S)) /\ Total(S) \in Nat
  BY BytesFinite
<1>4. Cardinality(Bytes(S) \cup new) = Cardinality(Bytes(S)) + Cardinality(new) - Cardinality({})
  BY <1>1, <1>2, <1>3, FS_Union
<1>5. Cardinality({}) = 0 /\ Size(x) \in Nat
  BY SizeType, FS_EmptySet
<1>6. Total(S \cup {x}) = Cardinality(Bytes(S) \cup new) /\ Total(S) = Cardinality(Bytes(S))
  BY <1>1 DEF Total
<1>7. Total(S \cup {x}) = Total(S) + Cardinality(new) - Cardinality({})
  BY <1>4, <1>6
<1> QED
  BY <1>2, <1>3, <1>5, <1>7

LEMMA BytesOfNone == Total({}) = 0
<1>1. Bytes({}) = {}
  BY DEF Bytes
<1> QED
  BY <1>1, FS_EmptySet DEF Total

-----------------------------------------------------------------------------
(* Types.                                                                  *)

\* What the mutex and the channel guarantee about the event in hand: it is
\* being written only while the agent runs, and is not in the queue yet.
HandInv ==
  /\ writing => up /\ hand # None
  /\ hand # None => hand \notin pending

LEMMA ForgetType ==
  ASSUME TypeOK, NEW D \in SUBSET pending, Forget(D)
  PROVE  /\ pending' \subseteq pending /\ damaged' \subseteq pending'
         /\ count' \in Int /\ bytes' \in Int
<1>1. Cardinality(D) \in Nat
  BY FiniteQueue, Difference
<1>2. Total(D) \in Nat
  BY BytesFinite DEF TypeOK
<1> QED
  BY <1>1, <1>2 DEF TypeOK, Forget

LEMMA FaultType ==
  ASSUME TypeOK, Fault
  PROVE  faults' \in 0..MaxFaults
BY LimitAssumption DEF TypeOK, Fault

\* Every step keeps the types and HandInv.
LEMMA TypeStep ==
  ASSUME TypeOK, HandInv, [Next]_vars
  PROVE  TypeOK' /\ HandInv'
<1> USE DEF TypeOK, HandInv, Events
<1>0. Len(entry) \in Nat /\ Len(Sizes) \in Nat
  BY SizesAssumption
<1>1. CASE Logged
  <2>1. journal' \in 0..Len(Sizes) /\ cursor' \in 0..journal' /\ at' \in 0..journal'
    BY <1>1, <1>0 DEF Logged, disk, prod
  <2> QED
    BY <1>1, <2>1 DEF Logged, disk, prod, book, cons, hist
<1>2. CASE Emit
  <2>1. Len(entry') = Len(entry) + 1 /\ entry' \in Seq(1..Len(Sizes))
    BY <1>2, <1>0 DEF Emit
  <2>2. 1..Len(entry) \subseteq 1..Len(entry') /\ Len(entry') \notin 1..Len(entry)
    BY <2>1, <1>0
  <2> QED
    BY <1>2, <1>0, <2>1, <2>2 DEF Emit, disk, book, cons, hist, None
<1>3. CASE SaveCursor
  <2>1. faults' \in 0..MaxFaults
    BY <1>3, FaultType DEF SaveCursor
  <2>2. cursor' \in 0..journal'
    BY <1>3 DEF SaveCursor
  <2> QED
    BY <1>3, <2>1, <2>2 DEF SaveCursor, book, cons, hist
<1>4. CASE StopCollector
  <2>1. faults' \in 0..MaxFaults
    BY <1>4, FaultType DEF StopCollector
  <2> QED
    BY <1>4, <2>1 DEF StopCollector, disk, book, cons, hist
<1>5. CASE WriteTemp
  <2>1. PICK D \in SUBSET pending : Drops(D) /\ Forget(D) /\ overflow' = overflow \cup D
    BY <1>5 DEF WriteTemp
  <2>2. pending' \subseteq pending /\ damaged' \subseteq pending' /\ {count', bytes'} \subseteq Int
    BY <2>1, ForgetType
  <2> QED
    BY <1>5, <2>1, <2>2 DEF WriteTemp, cons, None
<1>6. CASE WriteFails
  <2>1. faults' \in 0..MaxFaults
    BY <1>6, FaultType DEF WriteFails
  <2> QED
    BY <1>6, <2>1 DEF WriteFails, disk, book, cons, hist, None
<1>7. CASE DropFails
  <2>1. PICK D \in SUBSET pending : Forget(D) /\ overflow' = overflow \cup D
    BY <1>7 DEF DropFails
  <2>2. pending' \subseteq pending /\ damaged' \subseteq pending' /\ {count', bytes'} \subseteq Int
    BY <2>1, ForgetType
  <2>3. faults' \in 0..MaxFaults
    BY <1>7, FaultType DEF DropFails
  <2> QED
    BY <1>7, <2>1, <2>2, <2>3 DEF DropFails, cons, None
<1>8. CASE RenameFails
  <2>1. faults' \in 0..MaxFaults
    BY <1>8, FaultType DEF RenameFails
  <2> QED
    BY <1>8, <2>1 DEF RenameFails, book, cons, hist, None
<1>9. CASE CommitWrite
  <2>1. hand \in Events /\ hand # None
    BY <1>9 DEF CommitWrite
  <2>2. pending' \subseteq Events /\ damaged' \subseteq pending' /\ {count', bytes'} \subseteq Int
    <3>1. Size(hand) \in Nat
      BY <2>1, SizeType
    <3> QED
      BY <1>9, <2>1, <3>1 DEF CommitWrite
  <2>3. HandInv'
    BY <1>9 DEF CommitWrite, None
  <2> QED
    BY <1>9, <2>1, <2>2, <2>3 DEF CommitWrite, cons, None
<1>10. CASE Tick
  BY <1>10 DEF Tick, disk, prod, book, hist
<1>11. CASE FinalFlush
  BY <1>11 DEF FinalFlush, disk, prod, book, hist
<1>12. CASE ReadBatch
  <2>1. Met \subseteq pending
    BY DEF Met
  <2>2. PICK R \in SUBSET Met : /\ IF R = {} THEN UNCHANGED faults ELSE Fault
                               /\ dead' = dead \cup (Met \ R)
                               /\ Forget(Met \ R)
    BY <1>12 DEF ReadBatch
  <2>3. faults' \in 0..MaxFaults
    BY <2>2, FaultType
  <2>4. /\ pending' \subseteq pending /\ damaged' \subseteq pending' /\ {count', bytes'} \subseteq Int
        /\ dead' \subseteq Events
    BY <2>1, <2>2, ForgetType
  <2>5. batch' \subseteq pending /\ sink' \in {"send", "done", "tick"}
    BY <1>12 DEF ReadBatch
  <2> QED
    BY <1>12, <2>3, <2>4, <2>5 DEF ReadBatch, prod, hist
<1>13. CASE ReadFails
  <2>1. faults' \in 0..MaxFaults
    BY <1>13, FaultType DEF ReadFails
  <2>2. PICK D \in SUBSET Met : dead' = dead \cup D /\ Forget(D)
    BY <1>13 DEF ReadFails
  <2>3. D \in SUBSET pending
    BY DEF Met
  <2>4. /\ pending' \subseteq pending /\ damaged' \subseteq pending' /\ {count', bytes'} \subseteq Int
        /\ dead' \subseteq Events
    BY <2>2, <2>3, ForgetType
  <2>5. sink' \in {"done", "tick"}
    BY <1>13 DEF ReadFails
  <2> QED
    BY <1>13, <2>1, <2>4, <2>5 DEF ReadFails, prod, hist
<1>14. CASE SendAcked
  BY <1>14 DEF SendAcked, disk, prod, book
<1>15. CASE SendRetryable
  <2>1. faults' \in 0..MaxFaults
    BY <1>15, FaultType DEF SendRetryable
  <2>2. delivered' \subseteq Events /\ sink' \in {"done", "tick"}
    BY <1>15 DEF SendRetryable
  <2> QED
    BY <1>15, <2>1, <2>2 DEF SendRetryable, disk, prod, book
<1>16. CASE SendRejected
  <2>1. faults' \in 0..MaxFaults
    BY <1>16, FaultType DEF SendRejected
  <2> QED
    BY <1>16, <2>1 DEF SendRejected, disk, prod, book, hist
<1>17. CASE SendUnauthorized
  <2>1. faults' \in 0..MaxFaults
    BY <1>17, FaultType DEF SendUnauthorized
  <2> QED
    BY <1>17, <2>1 DEF SendUnauthorized, disk, prod, book, hist
<1>18. CASE Ack
  <2>1. PICK R \in SUBSET (batch \cap pending) :
          /\ IF R = {} THEN UNCHANGED faults ELSE Fault
          /\ Forget((batch \cap pending) \ R)
    BY <1>18 DEF Ack
  <2>2. pending' \subseteq pending /\ damaged' \subseteq pending' /\ {count', bytes'} \subseteq Int
    BY <2>1, ForgetType
  <2>3. faults' \in 0..MaxFaults
    BY <2>1, FaultType
  <2>4. sink' \in {"read", "done"}
    BY <1>18 DEF Ack, Proceed
  <2> QED
    BY <1>18, <2>2, <2>3, <2>4 DEF Ack, prod, hist
<1>19. CASE DeadLetter
  <2>1. PICK R \in SUBSET (batch \cap pending) :
          /\ IF R = {} THEN UNCHANGED faults ELSE Fault
          /\ dead' = dead \cup ((batch \cap pending) \ R)
          /\ Forget((batch \cap pending) \ R)
    BY <1>19 DEF DeadLetter
  <2>2. pending' \subseteq pending /\ damaged' \subseteq pending' /\ {count', bytes'} \subseteq Int
    BY <2>1, ForgetType
  <2>3. faults' \in 0..MaxFaults
    BY <2>1, FaultType
  <2>4. sink' \in {"read", "done"}
    BY <1>19 DEF DeadLetter, Proceed
  <2> QED
    BY <1>19, <2>1, <2>2, <2>3, <2>4 DEF DeadLetter, prod, hist
<1>20. CASE Damage
  <2>1. faults' \in 0..MaxFaults
    BY <1>20, FaultType DEF Damage
  <2> QED
    BY <1>20, <2>1 DEF Damage, prod, book, cons, hist
<1>21. CASE Open
  <2>1. Cardinality(pending) \in Nat /\ Total(pending) \in Nat
    BY FiniteQueue, BytesFinite
  <2>2. at' \in 0..journal' /\ cursor' <= at' /\ {count', bytes'} \subseteq Int
    BY <1>21, <2>1, <1>0 DEF Open, ResumeAt
  <2>3. HandInv'
    BY <1>21 DEF Open
  <2> QED
    BY <1>21, <2>2, <2>3 DEF Open, hist
<1>22. CASE Signal
  <2>1. faults' \in 0..MaxFaults
    BY <1>22, FaultType DEF Signal
  <2> QED
    BY <1>22, <2>1 DEF Signal, disk, prod, book, cons, hist
<1>23. CASE Exit
  BY <1>23 DEF Exit, ProducerDone, disk, prod, book, cons, hist
<1>24. CASE Crash
  <2>1. faults' \in 0..MaxFaults
    BY <1>24, FaultType DEF Crash
  <2> QED
    BY <1>24, <2>1 DEF Crash, disk, book, cons, hist, None
<1>25. CASE Skip
  <2>1. at' \in 0..journal'
    BY <1>25, <1>0 DEF Skip
  <2> QED
    BY <1>25, <2>1 DEF Skip, disk, book, cons, hist
<1>26. CASE UNCHANGED vars
  BY <1>26 DEF vars, disk, prod, book, cons, hist
<1> QED
  BY <1>1, <1>2, <1>3, <1>4, <1>5, <1>6, <1>7, <1>8, <1>9, <1>10, <1>11, <1>12, <1>13,
     <1>14, <1>15, <1>16, <1>17, <1>18, <1>19, <1>20, <1>21, <1>22, <1>23, <1>24, <1>25, <1>26
     DEF Next, Collect, Produce, Drain, Send

LEMMA TypeInit ==
  ASSUME Init
  PROVE  TypeOK /\ HandInv
<1>1. HandInv
  BY DEF Init, HandInv
<1>2. Len(Sizes) \in Nat /\ MaxFaults \in Nat
  BY SizesAssumption, LimitAssumption
<1>3. entry \in Seq(1..Len(Sizes)) /\ 0 \in 0..Len(Sizes) /\ 0 \in 0..0 /\ 0 \in 0..MaxFaults
      /\ 0 \in Int
  BY <1>2 DEF Init
<1>4. TypeOK
  BY <1>3 DEF Init, TypeOK
<1> QED
  BY <1>1, <1>4

\* Type correctness of the agent's pipeline.
THEOREM TypeCorrect == Spec => []TypeOK
<1>1. Init => TypeOK /\ HandInv
  BY TypeInit
<1>2. (TypeOK /\ HandInv) /\ [Next]_vars => (TypeOK /\ HandInv)'
  BY TypeStep
<1> QED
  BY <1>1, <1>2, PTL DEF Spec

-----------------------------------------------------------------------------
(* The queue's counter.                                                    *)

\* Forget takes the files and the count down together.
LEMMA ForgetCount ==
  ASSUME TypeOK, CountExact, up, NEW D \in SUBSET pending, Forget(D)
  PROVE  /\ count' = Cardinality(pending')
         /\ Cardinality(pending') <= Cardinality(pending)
         /\ Cardinality(D) \in Nat
<1>1. /\ Cardinality(D) \in Nat /\ Cardinality(pending) \in Nat
      /\ Cardinality(pending \ D) = Cardinality(pending) - Cardinality(D)
  BY FiniteQueue, Difference
<1>2. pending' = pending \ D /\ count' = count - Cardinality(D)
  BY DEF Forget
<1> QED
  BY <1>1, <1>2 DEF CountExact

\* While the producer is between its temp file and the rename, holding the
\* mutex, there is room for the file it is about to add.
Room == writing /\ MaxEvents > 0 => Cardinality(pending) + 1 <= MaxEvents

QueueInv == CountExact /\ FilesBounded /\ Room

LEMMA QueueStep ==
  ASSUME TypeOK, HandInv, QueueInv, [Next]_vars
  PROVE  QueueInv'
<1> USE DEF QueueInv, CountExact, FilesBounded, Room
<1>0. IsFiniteSet(pending) /\ Cardinality(pending) \in Nat /\ MaxEvents \in Nat
  BY FiniteQueue, LimitAssumption
<1>1. CASE WriteTemp
  <2>1. PICK D \in SUBSET pending : Drops(D) /\ Forget(D)
    BY <1>1 DEF WriteTemp
  <2>2. /\ count' = Cardinality(pending')
        /\ Cardinality(pending') <= Cardinality(pending) /\ Cardinality(D) \in Nat
    BY <1>1, <2>1, ForgetCount DEF WriteTemp
  <2>3. pending' = pending \ D /\ count' = count - Cardinality(D)
    BY <2>1 DEF Forget
  <2>4. Cardinality(pending') \in Nat
    BY <1>0, <2>3, Difference
  <2>5. ASSUME MaxEvents > 0 PROVE Cardinality(pending') + 1 <= MaxEvents
    <3>1. CASE D = pending
      <4>1. pending' = {}
        BY <3>1, <2>3
      <4> QED
        BY <4>1, <2>5, <1>0, FS_EmptySet
    <3>2. CASE ~OverLimit(count - Cardinality(D), bytes - Total(D), Size(hand))
      <4>1. ~(count - Cardinality(D) + 1 > MaxEvents)
        BY <3>2, <2>5 DEF OverLimit
      <4> QED
        BY <4>1, <2>2, <2>3, <2>4, <1>0
    <3> QED
      BY <2>1, <3>1, <3>2 DEF Drops, Fits
  <2>6. FilesBounded'
    BY <2>4, <2>5, <1>0
  <2> QED
    BY <1>1, <2>2, <2>5, <2>6 DEF WriteTemp
<1>2. CASE CommitWrite
  <2>1. hand \notin pending /\ up
    BY <1>2 DEF CommitWrite, HandInv
  <2>2. pending' = pending \cup {hand} /\ count' = count + 1 /\ ~writing' /\ up'
    BY <1>2 DEF CommitWrite
  <2>3. Cardinality(pending') = Cardinality(pending) + 1
    BY <2>1, <2>2, <1>0, FS_AddElement
  <2> QED
    BY <1>2, <1>0, <2>1, <2>2, <2>3 DEF CommitWrite
<1>3. ASSUME ~writing', up, up' = up,
             NEW D \in SUBSET pending, Forget(D)
      PROVE  QueueInv'
  <2>1. count' = Cardinality(pending') /\ Cardinality(pending') <= Cardinality(pending)
    BY <1>3, ForgetCount
  <2>2. Cardinality(pending') \in Nat
    BY <1>3, <1>0, Difference DEF Forget
  <2> QED
    BY <1>3, <1>0, <2>1, <2>2
<1>4. ASSUME UNCHANGED pending, UNCHANGED count, writing' => writing, up' => up
      PROVE  QueueInv'
  BY <1>4
<1>5. CASE DropFails
  <2>1. PICK D \in SUBSET pending : Forget(D)
    BY <1>5 DEF DropFails
  <2> QED
    BY <1>5, <2>1, <1>3 DEF DropFails
<1>6. CASE ReadBatch
  <2>1. PICK R \in SUBSET Met : Forget(Met \ R)
    BY <1>6 DEF ReadBatch
  <2>2. Met \ R \in SUBSET pending
    BY DEF TypeOK, Met
  <2> QED
    BY <1>6, <2>1, <2>2, <1>3 DEF ReadBatch, prod
<1>7. CASE Ack
  <2>1. PICK R \in SUBSET (batch \cap pending) : Forget((batch \cap pending) \ R)
    BY <1>7 DEF Ack
  <2> QED
    BY <1>7, <2>1, <1>3 DEF Ack, prod
<1>8. CASE DeadLetter
  <2>1. PICK R \in SUBSET (batch \cap pending) : Forget((batch \cap pending) \ R)
    BY <1>8 DEF DeadLetter
  <2> QED
    BY <1>8, <2>1, <1>3 DEF DeadLetter, prod
<1>9. CASE Open
  <2>1. count' = Cardinality(pending') /\ pending' = pending /\ writing' = writing
    BY <1>9 DEF Open
  <2> QED
    BY <2>1
<1>10. CASE Logged \/ Emit \/ Skip \/ SaveCursor \/ StopCollector
  BY <1>10, <1>4 DEF Logged, Emit, Skip, SaveCursor, StopCollector, disk, prod, book
<1>11. CASE WriteFails \/ RenameFails \/ Damage \/ Signal \/ Exit \/ Crash
  BY <1>11, <1>4 DEF WriteFails, RenameFails, Damage, Signal, Exit, Crash, disk, prod, book
<1>12. CASE Tick \/ FinalFlush
  BY <1>12, <1>4 DEF Tick, FinalFlush, disk, prod, book
<1>13. CASE Send
  BY <1>13, <1>4 DEF Send, SendAcked, SendRetryable, SendRejected, SendUnauthorized,
                     disk, prod, book
<1>14. CASE ReadFails
  <2>1. PICK D \in SUBSET Met : Forget(D)
    BY <1>14 DEF ReadFails
  <2>2. D \in SUBSET pending
    BY DEF TypeOK, Met
  <2> QED
    BY <1>14, <2>1, <2>2, <1>3 DEF ReadFails, prod
<1>15. CASE UNCHANGED vars
  BY <1>15, <1>4 DEF vars, disk, prod, book
<1> QED
  BY <1>1, <1>2, <1>5, <1>6, <1>7, <1>8, <1>9, <1>10, <1>11, <1>12, <1>13, <1>14, <1>15
     DEF Next, Collect, Produce, Drain

LEMMA QueueInit ==
  ASSUME Init
  PROVE  QueueInv
BY LimitAssumption, FS_EmptySet DEF Init, QueueInv, CountExact, FilesBounded, Room

LEMMA QueueAlways == Spec => [](TypeOK /\ HandInv /\ QueueInv)
<1>1. Init => TypeOK /\ HandInv /\ QueueInv
  BY TypeInit, QueueInit
<1>2. (TypeOK /\ HandInv /\ QueueInv) /\ [Next]_vars => (TypeOK /\ HandInv /\ QueueInv)'
  BY TypeStep, QueueStep
<1> QED
  BY <1>1, <1>2, PTL DEF Spec

\* Queue.count is the number of event files on disk whenever the agent runs,
\* whatever Write drops under the sink's batch, and whichever removals fail.
THEOREM QueueCounted == Spec => []CountExact
<1>1. QueueInv => CountExact
  BY DEF QueueInv
<1> QED
  BY <1>1, QueueAlways, PTL

\* The queue directory never holds more event files than MaxEvents.
THEOREM QueueBounded == Spec => []FilesBounded
<1>1. QueueInv => FilesBounded
  BY DEF QueueInv
<1> QED
  BY <1>1, QueueAlways, PTL

-----------------------------------------------------------------------------
(* The queue's byte counter.  An event keeps its size: entry only grows.   *)

LEMMA EmitKeepsBytes ==
  ASSUME TypeOK, Emit
  PROVE  Total(pending)' = Total(pending)
<1>1. /\ pending' = pending
      /\ \A e \in 1..Len(entry) : entry'[e] = entry[e]
  BY DEF Emit, disk, TypeOK
<1>2. \A e \in pending : Sizes[entry'[e]] = Sizes[entry[e]]
  BY <1>1 DEF TypeOK, Events
<1>3. Bytes(pending)' = Bytes(pending)
  BY <1>1, <1>2 DEF Bytes, Size
<1> QED
  BY <1>3 DEF Total

\* Forget takes the files and their bytes down together.
LEMMA ForgetBytes ==
  ASSUME TypeOK, NEW D \in SUBSET pending, Forget(D), UNCHANGED entry
  PROVE  /\ Total(pending)' = Total(pending) - Total(D)
         /\ Total(pending)' \in Nat /\ Total(pending) \in Nat /\ Total(D) \in Nat
         /\ Total(pending)' <= Total(pending)
         /\ bytes' = bytes - Total(D)
<1>1. pending' = pending \ D /\ bytes' = bytes - Total(D)
  BY DEF Forget
<1>2. /\ pending \in SUBSET Events /\ D \in SUBSET Events
      /\ pending \ D \in SUBSET Events
  BY DEF TypeOK
<1>3. Total(pending \ D) = Total(pending) - Total(D)
  BY <1>2, BytesDifference
<1>4. Total(pending) \in Nat /\ Total(D) \in Nat /\ Total(pending \ D) \in Nat
  BY <1>2, BytesFinite
<1>5. Total(pending)' = Total(pending \ D)
  BY <1>1 DEF Total, Bytes, Size
<1> QED
  BY <1>1, <1>3, <1>4, <1>5

\* While the producer is between its temp file and the rename, there is room
\* for the bytes it is about to add, or nothing is queued at all.
ByteRoom ==
  writing /\ MaxBytes > 0 => pending = {} \/ Total(pending) + Size(hand) <= MaxBytes

\* BytesBounded, without Cardinality.
BytesLow == MaxBytes > 0 => Total(pending) <= MaxBytes \/ \E e : pending = {e}

ByteInv == BytesExact /\ BytesLow /\ ByteRoom

\* A step that takes files out of the queue, outside of Write.
LEMMA ForgetByteInv ==
  ASSUME TypeOK, ByteInv, up, NEW D \in SUBSET pending, Forget(D), UNCHANGED entry
  PROVE  BytesExact' /\ BytesLow'
<1>1. /\ Total(pending)' = Total(pending) - Total(D) /\ bytes' = bytes - Total(D)
      /\ Total(pending)' \in Nat /\ Total(pending) \in Nat
      /\ Total(pending)' <= Total(pending)
  BY ForgetBytes
<1>2. BytesExact'
  BY <1>1 DEF ByteInv, BytesExact
<1>3. BytesLow'
  <2>1. MaxBytes \in Nat /\ pending' = pending \ D
    BY LimitAssumption DEF Forget
  <2>2. CASE Total(pending) <= MaxBytes
    BY <1>1, <2>1, <2>2 DEF BytesLow
  <2>3. ASSUME NEW e, pending = {e} PROVE BytesLow'
    <3>1. CASE e \in D
      <4>1. pending' = {}
        BY <2>1, <2>3, <3>1
      <4>2. Total(pending)' = 0
        <5>1. Bytes(pending)' = {}
          BY <4>1 DEF Bytes
        <5> QED
          BY <5>1, FS_EmptySet DEF Total
      <4> QED
        BY <2>1, <4>2 DEF BytesLow
    <3>2. CASE e \notin D
      BY <2>1, <2>3, <3>2 DEF BytesLow
    <3> QED
      BY <3>1, <3>2
  <2>4. CASE ~(MaxBytes > 0)
    BY <2>4 DEF BytesLow
  <2> QED
    BY <2>2, <2>3, <2>4 DEF ByteInv, BytesLow
<1> QED
  BY <1>2, <1>3

LEMMA ByteStep ==
  ASSUME TypeOK, HandInv, ByteInv, [Next]_vars
  PROVE  ByteInv'
<1>0. MaxBytes \in Nat
  BY LimitAssumption
<1>1. CASE WriteTemp
  <2>1. PICK D \in SUBSET pending : Drops(D) /\ Forget(D)
    BY <1>1 DEF WriteTemp
  <2>2. up /\ up' /\ entry' = entry /\ hand' = hand /\ hand \in Events
    BY <1>1 DEF WriteTemp, TypeOK
  <2>3. /\ Total(pending)' = Total(pending) - Total(D) /\ bytes' = bytes - Total(D)
        /\ Total(pending)' \in Nat
    BY <2>1, <2>2, ForgetBytes
  <2>4. BytesExact' /\ BytesLow'
    BY <2>1, <2>2, ForgetByteInv
  <2>5. Size(hand)' = Size(hand) /\ Size(hand) \in Nat
    BY <2>2, SizeType DEF Size
  <2>6. ByteRoom'
    <3>1. CASE D = pending
      BY <2>1, <3>1 DEF Forget, ByteRoom
    <3>2. CASE ~OverLimit(count - Cardinality(D), bytes - Total(D), Size(hand))
      <4>1. MaxBytes > 0 => ~(bytes - Total(D) + Size(hand) > MaxBytes)
        BY <3>2 DEF OverLimit
      <4>2. bytes - Total(D) = Total(pending)'
        BY <2>2, <2>3, <2>4 DEF BytesExact
      <4> QED
        BY <1>0, <2>3, <2>5, <4>1, <4>2 DEF ByteRoom
    <3> QED
      BY <2>1, <3>1, <3>2 DEF Drops, Fits
  <2> QED
    BY <2>4, <2>6 DEF ByteInv
<1>2. CASE CommitWrite
  <2>1. /\ hand \in Events /\ hand \notin pending /\ pending \in SUBSET Events
        /\ up /\ up' /\ entry' = entry /\ ~writing'
        /\ pending' = pending \cup {hand} /\ bytes' = bytes + Size(hand)
    BY <1>2 DEF CommitWrite, HandInv, TypeOK
  <2>2. /\ Total(pending \cup {hand}) = Total(pending) + Size(hand)
        /\ Total(pending) \in Nat /\ Size(hand) \in Nat
    BY <2>1, BytesAdd, BytesFinite, SizeType
  <2>3. Total(pending)' = Total(pending) + Size(hand)
    <3>1. Total(pending)' = Total(pending \cup {hand})
      BY <2>1 DEF Total, Bytes, Size
    <3> QED
      BY <3>1, <2>2
  <2>4. BytesExact'
    BY <2>1, <2>3 DEF ByteInv, BytesExact
  <2>5. BytesLow'
    <3>1. CASE pending = {}
      BY <2>1, <3>1 DEF BytesLow
    <3>2. CASE pending # {}
      BY <1>0, <1>2, <2>2, <2>3, <3>2 DEF BytesLow, ByteInv, ByteRoom, CommitWrite
    <3> QED
      BY <3>1, <3>2
  <2> QED
    BY <2>1, <2>4, <2>5 DEF ByteInv, ByteRoom
<1>3. ASSUME ~writing', up, UNCHANGED entry, NEW D \in SUBSET pending, Forget(D)
      PROVE  ByteInv'
  BY <1>3, ForgetByteInv DEF ByteInv, ByteRoom
<1>4. ASSUME UNCHANGED <<pending, bytes, entry>>, writing' => writing /\ hand' = hand, up' => up
      PROVE  ByteInv'
  <2>1. Total(pending)' = Total(pending) /\ Size(hand)' = Sizes[entry[hand']]
    BY <1>4 DEF Total, Bytes, Size
  <2> QED
    BY <1>4, <2>1 DEF ByteInv, BytesExact, BytesLow, ByteRoom, Size
<1>5. CASE DropFails
  <2>1. PICK D \in SUBSET pending : Forget(D)
    BY <1>5 DEF DropFails
  <2> QED
    BY <1>5, <2>1, <1>3 DEF DropFails
<1>6. CASE ReadBatch
  <2>1. PICK R \in SUBSET Met : Forget(Met \ R)
    BY <1>6 DEF ReadBatch
  <2>2. Met \ R \in SUBSET pending
    BY DEF TypeOK, Met
  <2> QED
    BY <1>6, <2>1, <2>2, <1>3 DEF ReadBatch, prod
<1>7. CASE ReadFails
  <2>1. PICK D \in SUBSET Met : Forget(D)
    BY <1>7 DEF ReadFails
  <2>2. D \in SUBSET pending
    BY DEF TypeOK, Met
  <2> QED
    BY <1>7, <2>1, <2>2, <1>3 DEF ReadFails, prod
<1>8. CASE Ack
  <2>1. PICK R \in SUBSET (batch \cap pending) : Forget((batch \cap pending) \ R)
    BY <1>8 DEF Ack
  <2> QED
    BY <1>8, <2>1, <1>3 DEF Ack, prod
<1>9. CASE DeadLetter
  <2>1. PICK R \in SUBSET (batch \cap pending) : Forget((batch \cap pending) \ R)
    BY <1>9 DEF DeadLetter
  <2> QED
    BY <1>9, <2>1, <1>3 DEF DeadLetter, prod
<1>10. CASE Open
  <2>1. /\ bytes' = Total(pending) /\ UNCHANGED <<pending, entry, writing>>
        /\ ~writing
    BY <1>10 DEF Open, HandInv
  <2>2. Total(pending)' = Total(pending)
    BY <2>1 DEF Total, Bytes, Size
  <2> QED
    BY <2>1, <2>2 DEF ByteInv, BytesExact, BytesLow, ByteRoom
<1>11. CASE Emit
  <2>1. UNCHANGED <<pending, bytes, up>> /\ ~writing'
    BY <1>11 DEF Emit, disk, book, HandInv
  <2>2. Total(pending)' = Total(pending)
    BY <1>11, EmitKeepsBytes
  <2> QED
    BY <2>1, <2>2 DEF ByteInv, BytesExact, BytesLow, ByteRoom
<1>12. CASE Logged \/ Skip \/ SaveCursor \/ StopCollector
  BY <1>12, <1>4 DEF Logged, Skip, SaveCursor, StopCollector, disk, prod, book
<1>13. CASE WriteFails \/ RenameFails \/ Damage \/ Signal \/ Exit \/ Crash
  BY <1>13, <1>4 DEF WriteFails, RenameFails, Damage, Signal, Exit, Crash, disk, prod, book
<1>14. CASE Tick \/ FinalFlush
  BY <1>14, <1>4 DEF Tick, FinalFlush, disk, prod, book
<1>15. CASE Send
  BY <1>15, <1>4 DEF Send, SendAcked, SendRetryable, SendRejected, SendUnauthorized,
                     disk, prod, book
<1>16. CASE UNCHANGED vars
  BY <1>16, <1>4 DEF vars, disk, prod, book
<1> QED
  BY <1>1, <1>2, <1>5, <1>6, <1>7, <1>8, <1>9, <1>10, <1>11, <1>12, <1>13, <1>14, <1>15,
     <1>16 DEF Next, Collect, Produce, Drain

LEMMA ByteAlways == Spec => [](TypeOK /\ HandInv /\ ByteInv)
<1>1. Init => ByteInv
  BY BytesOfNone, LimitAssumption DEF Init, ByteInv, BytesExact, BytesLow, ByteRoom
<1>2. Init => TypeOK /\ HandInv
  BY TypeInit
<1>3. (TypeOK /\ HandInv /\ ByteInv) /\ [Next]_vars => (TypeOK /\ HandInv /\ ByteInv)'
  BY TypeStep, ByteStep
<1> QED
  BY <1>1, <1>2, <1>3, PTL DEF Spec

\* Queue.bytes is the size of the event files on disk whenever the agent runs.
THEOREM QueueWeighed == Spec => []BytesExact
<1>1. ByteInv => BytesExact
  BY DEF ByteInv
<1> QED
  BY <1>1, ByteAlways, PTL

\* The queue never holds more than MaxBytes, except for a single larger event.
THEOREM QueueBytesBounded == Spec => []BytesBounded
<1>1. ByteInv => BytesBounded
  BY FS_Singleton DEF ByteInv, BytesLow, BytesBounded
<1> QED
  BY <1>1, ByteAlways, PTL

-----------------------------------------------------------------------------
(* Where an event goes.                                                    *)

\* The batch being acknowledged was stored by the platform.
Stored == sink = "ack" => batch \subseteq delivered

LEMMA StoredStep ==
  ASSUME Stored, NothingVanishes, [Next]_vars
  PROVE  Stored' /\ NothingVanishes'
<1> USE DEF Stored, NothingVanishes
<1>1. CASE WriteTemp
  BY <1>1 DEF WriteTemp, Forget, cons
<1>2. CASE DropFails
  BY <1>2 DEF DropFails, Forget, cons
<1>3. CASE CommitWrite
  BY <1>3 DEF CommitWrite, cons
<1>4. CASE ReadBatch
  BY <1>4 DEF ReadBatch, Forget, hist
<1>5. CASE SendAcked
  BY <1>5 DEF SendAcked, disk
<1>6. CASE SendRetryable
  BY <1>6 DEF SendRetryable, disk
<1>7. CASE SendRejected \/ SendUnauthorized
  BY <1>7 DEF SendRejected, SendUnauthorized, disk, hist
<1>8. CASE Ack
  BY <1>8 DEF Ack, Proceed, Forget, hist
<1>9. CASE DeadLetter
  BY <1>9 DEF DeadLetter, Proceed, Forget, hist
<1>10. CASE Tick \/ FinalFlush \/ Open
  BY <1>10 DEF Tick, FinalFlush, Open, disk, hist
<1>11. CASE Logged \/ Emit \/ Skip \/ SaveCursor \/ StopCollector
  BY <1>11 DEF Logged, Emit, Skip, SaveCursor, StopCollector, disk, cons, hist
<1>12. CASE WriteFails \/ RenameFails \/ Damage \/ Signal \/ Exit \/ Crash
  BY <1>12 DEF WriteFails, RenameFails, Damage, Signal, Exit, Crash, disk, cons, hist
<1>13. CASE ReadFails
  BY <1>13 DEF ReadFails, Forget, hist
<1>14. CASE UNCHANGED vars
  BY <1>14 DEF vars, disk, cons, hist
<1> QED
  BY <1>1, <1>2, <1>3, <1>4, <1>5, <1>6, <1>7, <1>8, <1>9, <1>10, <1>11, <1>12, <1>13, <1>14
     DEF Next, Collect, Produce, Drain, Send

\* An event Write committed leaves the queue only to the platform, to the
\* dead letters, or because the queue was full.
THEOREM EventsDoNotVanish == Spec => []NothingVanishes
<1>1. Init => Stored /\ NothingVanishes
  BY DEF Init, Stored, NothingVanishes
<1>2. (Stored /\ NothingVanishes) /\ [Next]_vars => (Stored /\ NothingVanishes)'
  BY StoredStep
<1> QED
  BY <1>1, <1>2, PTL DEF Spec

-----------------------------------------------------------------------------
(* The order of delivery.                                                  *)

\* The older of two files has the lower rank.
LEMMA RankMonotone ==
  ASSUME NEW S \in SUBSET Int, IsFiniteSet(S), NEW m \in Int, NEW n \in Int, m < n
  PROVE  /\ Rank(m, S) \in Int /\ Rank(n, S) \in Int
         /\ Rank(m, S) <= Rank(n, S)
<1> DEFINE below(e) == {f \in S : f < e}
<1>1. IsFiniteSet(below(n))
  BY FS_Subset
<1>2. below(m) \in SUBSET below(n)
  <2>1. ASSUME NEW f \in S, f < m PROVE f < n
    BY <2>1
  <2> QED
    BY <2>1
<1>3. IsFiniteSet(below(m)) /\ Cardinality(below(m)) <= Cardinality(below(n))
  BY <1>1, <1>2, FS_Subset
<1>4. Cardinality(below(m)) \in Nat /\ Cardinality(below(n)) \in Nat
  BY <1>1, <1>3, FS_CardinalityType
<1> QED
  BY <1>3, <1>4 DEF Rank

\* The event in hand is the newest there is.
HandLast == hand # None => hand = Len(entry)

\* The batch being sent has every file that parses and is older than one of it.
BatchOldest ==
  sink = "send" => \A n \in batch : \A m \in pending \ damaged : m < n => m \in batch

OrderInv == HandLast /\ BatchOldest /\ InOrder

LEMMA OrderStep ==
  ASSUME TypeOK, HandInv, OrderInv, [Next]_vars
  PROVE  OrderInv'
<1> USE DEF OrderInv
<1>1. ASSUME pending' \ damaged' \subseteq pending \ damaged,
             UNCHANGED <<delivered, batch, sink>>, hand' \in {hand, None}, UNCHANGED entry
      PROVE  OrderInv'
  BY <1>1 DEF HandLast, BatchOldest, InOrder
<1>2. ASSUME pending' \ damaged' \subseteq pending \ damaged,
             UNCHANGED <<delivered, hand, entry>>, sink' # "send"
      PROVE  OrderInv'
  BY <1>2 DEF HandLast, BatchOldest, InOrder
<1>3. CASE Emit
  BY <1>3 DEF Emit, disk, cons, hist, HandLast, BatchOldest, InOrder
<1>4. CASE WriteTemp \/ DropFails
  BY <1>4, <1>1 DEF WriteTemp, DropFails, Forget, cons
<1>5. CASE WriteFails \/ RenameFails \/ Damage
  BY <1>5, <1>1 DEF WriteFails, RenameFails, Damage, disk, cons, hist, prod
<1>6. CASE CommitWrite
  <2>1. /\ pending' = pending \cup {hand} /\ damaged' = damaged /\ hand' = None
        /\ UNCHANGED <<delivered, batch, sink, entry>>
    BY <1>6 DEF CommitWrite, cons
  <2>2. \A e \in Events : ~(hand < e)
    BY <1>6 DEF CommitWrite, HandInv, HandLast, TypeOK, Events
  <2>3. batch \subseteq Events /\ delivered \subseteq Events
    BY DEF TypeOK
  <2> QED
    BY <2>1, <2>2, <2>3 DEF HandLast, BatchOldest, InOrder
<1>7. CASE ReadBatch
  <2> DEFINE good == pending \ damaged
  <2>1. PICK R \in SUBSET Met : Forget(Met \ R)
    BY <1>7 DEF ReadBatch
  <2>2. pending' \ damaged' \subseteq good
    BY <2>1 DEF Forget, Met
  <2>3. batch' = {e \in good : Rank(e, good) < BatchSize}
    BY <1>7 DEF ReadBatch
  <2>4. good \in SUBSET Int /\ IsFiniteSet(good)
    <3>1. good \in SUBSET pending /\ pending \in SUBSET Int
      BY DEF TypeOK, Events
    <3> QED
      BY <3>1, FiniteQueue, FS_Subset
  <2>5. ASSUME NEW n \in batch', NEW m \in good, m < n
        PROVE  m \in batch'
    <3> HIDE DEF good
    <3>1. n \in good /\ Rank(n, good) < BatchSize /\ m \in Int /\ n \in Int
      BY <2>3, <2>4, <2>5
    <3>2. Rank(m, good) \in Int /\ Rank(n, good) \in Int /\ Rank(m, good) <= Rank(n, good)
      BY <2>4, <2>5, <3>1, RankMonotone
    <3> QED
      BY <2>3, <2>5, <3>1, <3>2, BatchAssumption
  <2>6. BatchOldest'
    BY <2>2, <2>5 DEF BatchOldest
  <2>7. UNCHANGED <<delivered, hand, entry>>
    BY <1>7 DEF ReadBatch, prod, hist
  <2> QED
    BY <2>2, <2>6, <2>7 DEF HandLast, InOrder
<1>8. CASE ReadFails
  <2>1. pending' \ damaged' \subseteq pending \ damaged
    BY <1>8 DEF ReadFails, Forget
  <2> QED
    BY <1>8, <2>1, <1>2 DEF ReadFails, prod, hist
<1>9. CASE SendAcked \/ SendRetryable
  <2>1. /\ UNCHANGED <<pending, damaged, hand, entry, batch>>
        /\ delivered' \in {delivered, delivered \cup batch}
        /\ sink = "send" /\ sink' # "send"
    BY <1>9 DEF SendAcked, SendRetryable, disk, prod
  <2>2. InOrder'
    BY <2>1 DEF BatchOldest, InOrder
  <2> QED
    BY <2>1, <2>2 DEF HandLast, BatchOldest
<1>10. CASE SendRejected \/ SendUnauthorized \/ Tick \/ FinalFlush
  BY <1>10, <1>2 DEF SendRejected, SendUnauthorized, Tick, FinalFlush, disk, prod, hist
<1>11. CASE Ack \/ DeadLetter
  <2>1. pending' \ damaged' \subseteq pending \ damaged
    BY <1>11 DEF Ack, DeadLetter, Forget
  <2>2. sink' # "send"
    BY <1>11 DEF Ack, DeadLetter, Proceed
  <2> QED
    BY <1>11, <2>1, <2>2, <1>2 DEF Ack, DeadLetter, prod, hist
<1>12. CASE Open
  BY <1>12, <1>2 DEF Open, hist
<1>13. CASE Logged \/ Skip \/ SaveCursor \/ StopCollector \/ Signal \/ Exit \/ Crash
  BY <1>13, <1>1 DEF Logged, Skip, SaveCursor, StopCollector, Signal, Exit, Crash, disk,
                     prod, cons, hist
<1>14. CASE UNCHANGED vars
  BY <1>14, <1>1 DEF vars, disk, prod, cons, hist
<1> QED
  BY <1>3, <1>4, <1>5, <1>6, <1>7, <1>8, <1>9, <1>10, <1>11, <1>12, <1>13, <1>14
     DEF Next, Collect, Produce, Drain, Send

\* FIFO: the platform never has an event while an older one that parses waits,
\* whatever is dropped, damaged, lost or sent again.
THEOREM DeliveredInOrder == Spec => []InOrder
<1>1. Init => TypeOK /\ HandInv
  BY TypeInit
<1>2. Init => OrderInv
  BY DEF Init, OrderInv, HandLast, BatchOldest, InOrder
<1>3. (TypeOK /\ HandInv /\ OrderInv) /\ [Next]_vars => (TypeOK /\ HandInv /\ OrderInv)'
  BY TypeStep, OrderStep
<1>4. OrderInv => InOrder
  BY DEF OrderInv
<1> QED
  BY <1>1, <1>2, <1>3, <1>4, PTL DEF Spec

=============================================================================
