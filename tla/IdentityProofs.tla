--------------------------- MODULE IdentityProofs ---------------------------
(***************************************************************************)
(* Proofs about the agent's identity, for any keys, lifetimes and lead     *)
(* times, any number of faults and of platform authorities.                *)
(***************************************************************************)
EXTENDS Identity, TLAPS

\* A certificate that ages stays a certificate for the same key.
LEMMA AgedType ==
  ASSUME NEW c \in Certs \cup {NoCert}
  PROVE  /\ Aged(c) \in Certs \cup {NoCert}
         /\ Aged(c) = NoCert <=> c = NoCert
         /\ c # NoCert => /\ Aged(c).key = c.key
                          /\ Aged(c).left = IF c.left = 0 THEN 0 ELSE c.left - 1
<1>1. CASE c = NoCert
  BY <1>1 DEF Aged
<1>2. CASE c # NoCert
  <2>1. c \in Certs /\ c.left \in 0..Ttl
    BY <1>2 DEF Certs
  <2>2. CASE c.left = 0
    BY <1>2, <2>1, <2>2 DEF Aged
  <2>3. CASE c.left # 0
    <3>1. Aged(c) = [c EXCEPT !.left = c.left - 1]
      BY <1>2, <2>3 DEF Aged
    <3>2. Aged(c) \in Certs /\ Aged(c).key = c.key /\ Aged(c).left = c.left - 1
      BY <2>1, <2>3, <3>1, TtlAssumption DEF Certs
    <3> QED
      BY <1>2, <2>3, <3>2, NoCertAssumption
  <2> QED
    BY <2>2, <2>3
<1> QED
  BY <1>1, <1>2

\* What the platform signs is a certificate with its whole life before it.
LEMMA SignedType ==
  ASSUME ca \in 1..MaxCa, NEW k \in Keys
  PROVE  /\ SignCSR(k) \in Certs /\ SignCSR(k) # NoCert
         /\ SignCSR(k).key = k /\ SignCSR(k).left = Ttl
<1>1. SignCSR(k) \in Certs
  BY TtlAssumption DEF SignCSR, Certs
<1> QED
  BY <1>1, NoCertAssumption DEF SignCSR

LEMMA FaultType ==
  ASSUME TypeOK, Fault
  PROVE  faults' \in 0..MaxFaults
BY FaultAssumption DEF TypeOK, Fault

-----------------------------------------------------------------------------
(* Types.                                                                  *)

\* An enrollment has a key.
KeyInHand == pc = "enroll" => key \in Keys

LEMMA GoneType ==
  ASSUME TypeOK, NEW w \in {"off", "wait"}, Gone(w),
         UNCHANGED <<platform, disk, gap, unwritten>>,
         checked' \in BOOLEAN, faults' \in 0..MaxFaults
  PROVE  TypeOK' /\ KeyInHand'
<1>1. 0 \in Absent..Garbled
  BY CaAssumption DEF Absent, Garbled
<1> QED
  BY <1>1 DEF TypeOK, KeyInHand, Gone, platform, disk, Absent

LEMMA LaunchType ==
  ASSUME TypeOK, Launch, faults' \in 0..MaxFaults
  PROVE  TypeOK' /\ KeyInHand'
BY DEF Launch, TypeOK, KeyInHand, platform, disk, mem

\* Every step of the service or the platform keeps the types, whatever other
\* program works on the files in between.
LEMMA TypeStep ==
  ASSUME TypeOK, KeyInHand, [Next]_idvars
  PROVE  TypeOK' /\ KeyInHand'
<1> USE DEF KeyInHand
<1>1. CASE Reuse
  BY <1>1 DEF Reuse, TypeOK, platform, disk, mem, Loads, Stored
<1>2. CASE BeginEnroll
  BY <1>2 DEF BeginEnroll, TypeOK, platform, disk, mem
<1>3. CASE LoadFails
  BY <1>3, GoneType DEF LoadFails, Fail, TypeOK
<1>4. CASE Enroll
  <2>1. SignCSR(key) \in Certs /\ SignCSR(key) # NoCert /\ SignCSR(key).key = key
    BY <1>4, SignedType DEF Enroll, TypeOK
  <2> QED
    BY <1>4, <2>1 DEF Enroll, TypeOK, platform, disk, mem
<1>5. CASE EnrollFails
  <2>1. faults' \in 0..MaxFaults
    BY <1>5, FaultType DEF EnrollFails, TypeOK
  <2> QED
    BY <1>5, <2>1, GoneType DEF EnrollFails, Fail
<1>6. CASE WriteKey
  BY <1>6 DEF WriteKey, TypeOK, platform, disk, mem
<1>7. CASE WriteCert
  <2>1. 0 \in 0..(RenewBefore + 1)
    BY RenewAssumption, TtlAssumption
  <2> QED
    BY <1>7, <2>1 DEF WriteCert, TypeOK, platform, disk, mem
<1>8. CASE WriteFails
  <2>1. faults' \in 0..MaxFaults
    BY <1>8, FaultType DEF WriteFails
  <2> QED
    BY <1>8, <2>1, GoneType DEF WriteFails, Fail
<1>9. CASE CheckOnly
  <2>1. 0 \in 0..(RenewBefore + 1)
    BY RenewAssumption, TtlAssumption
  <2> QED
    BY <1>9, <2>1 DEF CheckOnly, TypeOK, platform, disk, mem
<1>10. CASE Renew
  <2>1. key \in Keys
    BY <1>10 DEF Renew, TypeOK, Certs
  <2>2. SignCSR(key) \in Certs /\ SignCSR(key) # NoCert /\ SignCSR(key).key = key
    BY <2>1, SignedType DEF TypeOK
  <2> QED
    BY <1>10, <2>2 DEF Renew, TypeOK, platform, disk, mem
<1>11. CASE RenewFails \/ RenewWriteFails
  <2>1. faults' \in 0..MaxFaults
    BY <1>11, FaultType DEF RenewFails, RenewWriteFails, TypeOK
  <2> QED
    BY <1>11, <2>1 DEF RenewFails, RenewWriteFails, TypeOK, platform, disk, mem
<1>12. CASE RenewWrite
  <2>1. 0 \in 0..(RenewBefore + 1)
    BY RenewAssumption, TtlAssumption
  <2> QED
    BY <1>12, <2>1 DEF RenewWrite, TypeOK, platform, disk, mem
<1>13. CASE Ship \/ Disconnect
  <2>1. /\ conn' \in BOOLEAN
        /\ UNCHANGED <<platform, disk, pc, mem, ren, checked, gap, unwritten, faults>>
    BY <1>13 DEF Ship, Disconnect
  <2> QED
    BY <2>1 DEF TypeOK, platform, disk, mem
<1>14. CASE ShipRefused
  BY <1>14, GoneType DEF ShipRefused, TypeOK
<1>15. CASE Restart \/ Start
  <2>1. faults' \in 0..MaxFaults
    BY <1>15, FaultType DEF Restart, Start, TypeOK
  <2> QED
    BY <1>15, <2>1, LaunchType DEF Restart, Start
<1>16. CASE Crash
  <2>1. faults' \in 0..MaxFaults
    BY <1>16, FaultType DEF Crash
  <2> QED
    BY <1>16, <2>1, GoneType DEF Crash
<1>17. CASE Stop
  <2>1. faults' \in 0..MaxFaults
    BY <1>17, FaultType DEF Stop
  <2> QED
    BY <1>17, <2>1, GoneType DEF Stop, TypeOK
<1>18. CASE PlatformChanges
  <2>1. faults' \in 0..MaxFaults
    BY <1>18, FaultType DEF PlatformChanges, TypeOK
  <2>2. CASE Outage \/ Revoke \/ Return
    <3>1. ca' \in 1..MaxCa /\ revoked' \in BOOLEAN /\ reach' \in BOOLEAN
      BY <2>2 DEF Outage, Revoke, Return, TypeOK
    <3> QED
      BY <1>18, <2>1, <3>1 DEF PlatformChanges, TypeOK, disk, mem
  <2>3. CASE PlatformRestart
    <3>1. ca' \in 1..MaxCa
      BY <2>3, CaAssumption DEF PlatformRestart, TypeOK
    <3>2. revoked' \in BOOLEAN /\ reach' \in BOOLEAN
      BY <2>3 DEF PlatformRestart
    <3> QED
      BY <1>18, <2>1, <3>1, <3>2 DEF PlatformChanges, TypeOK, disk, mem
  <2> QED
    BY <1>18, <2>2, <2>3 DEF PlatformChanges
<1>19. CASE Tick
  <2>1. /\ certFile' \in Certs \cup {NoCert} /\ cert' \in Certs \cup {NoCert}
        /\ cert # NoCert => cert' # NoCert /\ cert'.key = cert.key
    BY <1>19, AgedType DEF Tick, TypeOK
  <2>2. gap' \in 0..(RenewBefore + 1)
    BY <1>19, RenewAssumption, TtlAssumption DEF Tick, TypeOK
  <2>3. pc' \in {"key", "cert", "run"} => cert' # NoCert /\ cert'.key = key'
    BY <1>19, <2>1 DEF Tick, TypeOK
  <2>4. checked' \in BOOLEAN
    BY <1>19 DEF Tick
  <2> QED
    BY <1>19, <2>1, <2>2, <2>3, <2>4 DEF Tick, TypeOK, platform
<1>20. CASE UNCHANGED idvars
  BY <1>20 DEF idvars, platform, disk, mem, TypeOK
<1> QED
  BY <1>1, <1>2, <1>3, <1>4, <1>5, <1>6, <1>7, <1>8, <1>9, <1>10, <1>11, <1>12,
     <1>13, <1>14, <1>15, <1>16, <1>17, <1>18, <1>19, <1>20
     DEF Next, EnsureIdentity, RenewalLoop, Deliver

-----------------------------------------------------------------------------
(* Rotation.                                                               *)

\* Where an enrollment or a renewal stands: it has a key; the key is stored
\* before the certificate; an enrollment that is under way has found no identity
\* it would destroy, and an authority; and only a running agent renews.
StepInv ==
  /\ KeyInHand
  /\ pc \in {"cert", "run"} => keyFile = key
  /\ pc \in {"enroll", "key"} => ~(Loads /\ certFile.left > 0)
  /\ pc \in {"enroll", "key", "cert"} => caFile \notin {Absent, Garbled}
  /\ pc # "run" => ren = "idle"

\* The certificate in hand against the stored one.
AgeInv ==
  /\ pc \in {"key", "cert"} \/ (pc = "run" /\ ren = "write") => cert.left = Ttl
  /\ pc = "run" /\ ren = "idle" /\ ~unwritten => cert = certFile
  /\ Unattended

IInv == TypeOK /\ StepInv /\ AgeInv

LEMMA Initially ==
  ASSUME Init
  PROVE  IInv
<1>1. ca = 1 /\ 1 \in 1..MaxCa /\ 0 \in 0..(RenewBefore + 1) /\ 0 \in 0..MaxFaults
      /\ 0 \in Absent..Garbled /\ 1 \in Absent..Garbled
  BY CaAssumption, RenewAssumption, TtlAssumption, FaultAssumption
     DEF Init, IdentityInit, PlatformInit, Absent, Garbled
<1>2. TypeOK
  BY <1>1 DEF Init, IdentityInit, PlatformInit, TypeOK, Absent
<1>3. StepInv /\ AgeInv
  BY DEF Init, IdentityInit, StepInv, KeyInHand, AgeInv, Unattended
<1> QED
  BY <1>2, <1>3 DEF IInv

-----------------------------------------------------------------------------
(* Every step keeps the three parts.  A process that ends leaves nothing   *)
(* for StepInv and the first parts of AgeInv to be about.                  *)

LEMMA GoneStep ==
  ASSUME IInv, NEW w \in {"off", "wait"}, Gone(w),
         UNCHANGED <<platform, disk, gap, unwritten>>,
         checked' \in BOOLEAN, faults' \in 0..MaxFaults
  PROVE  IInv'
<1>1. TypeOK' /\ KeyInHand'
  BY GoneType DEF IInv
<1>2. StepInv' /\ AgeInv'
  BY <1>1 DEF IInv, StepInv, AgeInv, Unattended, Gone, disk
<1> QED
  BY <1>1, <1>2 DEF IInv

LEMMA IInvStep ==
  ASSUME IInv, [Next]_idvars
  PROVE  IInv'
<1> USE DEF IInv, KeyInHand
<1>0. TypeOK'
  BY TypeStep DEF StepInv
<1>1. CASE Reuse
  <2>1. StepInv'
    BY <1>1 DEF Reuse, StepInv, platform, disk, mem, Loads, Stored
  <2>2. AgeInv'
    BY <1>1 DEF Reuse, AgeInv, Unattended, platform, disk, mem, StepInv
  <2> QED
    BY <1>0, <2>1, <2>2
<1>2. CASE BeginEnroll
  <2>1. StepInv'
    BY <1>2 DEF BeginEnroll, StepInv, platform, disk, mem, MayEnroll, Loads, Stored
  <2>2. AgeInv'
    BY <1>2 DEF BeginEnroll, AgeInv, Unattended, platform, disk, mem
  <2> QED
    BY <1>0, <2>1, <2>2
<1>3. CASE LoadFails
  BY <1>3, GoneStep DEF LoadFails, Fail, IInv, TypeOK
<1>4. CASE Enroll
  <2>1. /\ SignCSR(key) \in Certs /\ SignCSR(key) # NoCert
        /\ SignCSR(key).key = key /\ SignCSR(key).left = Ttl
    BY <1>4, SignedType DEF Enroll, TypeOK, StepInv
  <2>2. StepInv'
    BY <1>4 DEF Enroll, StepInv, platform, disk, mem, Loads, Stored
  <2>3. AgeInv'
    BY <1>4, <2>1 DEF Enroll, AgeInv, Unattended, platform, disk, mem
  <2> QED
    BY <1>0, <2>2, <2>3
<1>5. CASE EnrollFails
  <2>1. faults' \in 0..MaxFaults
    BY <1>5, FaultType DEF EnrollFails, TypeOK
  <2> QED
    BY <1>5, <2>1, GoneStep DEF EnrollFails, Fail
<1>6. CASE WriteKey
  <2>1. StepInv'
    BY <1>6 DEF WriteKey, StepInv, platform, disk, mem, Loads, Stored
  <2>2. AgeInv'
    BY <1>6 DEF WriteKey, AgeInv, Unattended, platform, disk, mem
  <2> QED
    BY <1>0, <2>1, <2>2
<1>7. CASE WriteCert
  <2>1. Ttl + 0 > RenewBefore
    BY RenewAssumption, TtlAssumption
  <2>2. StepInv'
    BY <1>7 DEF WriteCert, StepInv, platform, disk, mem, TypeOK
  <2>3. AgeInv'
    BY <1>7, <2>1 DEF WriteCert, AgeInv, Unattended, platform, disk, mem
  <2> QED
    BY <1>0, <2>2, <2>3
<1>8. CASE WriteFails
  <2>1. faults' \in 0..MaxFaults
    BY <1>8, FaultType DEF WriteFails
  <2> QED
    BY <1>8, <2>1, GoneStep DEF WriteFails, Fail
<1>9. CASE CheckOnly
  <2>1. RenewBefore \in Nat
    BY RenewAssumption, TtlAssumption
  <2>2. StepInv'
    BY <1>9 DEF CheckOnly, StepInv, Loads, Stored, disk, mem
  <2>3. certFile # NoCert /\ ~unwritten => certFile.left > RenewBefore
    <3>1. certFile # NoCert => certFile.left \in Nat
      BY DEF TypeOK, Certs
    <3> QED
      BY <1>9, <2>1, <3>1 DEF CheckOnly, NeedsRenewal, AgeInv
  <2>4. Unattended'
    <3>1. certFile # NoCert => certFile.left \in Nat
      BY DEF TypeOK, Certs
    <3> QED
      BY <1>9, <2>1, <2>3, <3>1 DEF CheckOnly, Unattended, AgeInv, disk
  <2>5. AgeInv'
    BY <1>9, <2>4 DEF CheckOnly, AgeInv, disk, mem
  <2> QED
    BY <1>0, <2>2, <2>5
<1>10. CASE Renew
  <2>1. /\ SignCSR(key) \in Certs /\ SignCSR(key) # NoCert
        /\ SignCSR(key).key = key /\ SignCSR(key).left = Ttl
    <3>1. key \in Keys
      BY <1>10 DEF Renew, TypeOK, Certs
    <3> QED
      BY <3>1, SignedType DEF TypeOK
  <2>2. StepInv'
    BY <1>10 DEF Renew, StepInv, platform, disk, mem
  <2>3. AgeInv'
    BY <1>10, <2>1 DEF Renew, AgeInv, Unattended, platform, disk, mem
  <2> QED
    BY <1>0, <2>2, <2>3
<1>11. CASE RenewFails
  <2>1. StepInv'
    BY <1>11 DEF RenewFails, StepInv, platform, disk, mem
  <2>2. AgeInv'
    BY <1>11 DEF RenewFails, AgeInv, Unattended, platform, disk, mem
  <2> QED
    BY <1>0, <2>1, <2>2
<1>12. CASE RenewWrite
  <2>1. Ttl + 0 > RenewBefore
    BY RenewAssumption, TtlAssumption
  <2>2. StepInv'
    BY <1>12 DEF RenewWrite, StepInv, platform, disk, mem
  <2>3. AgeInv'
    BY <1>12, <2>1 DEF RenewWrite, AgeInv, Unattended, platform, disk, mem
  <2> QED
    BY <1>0, <2>2, <2>3
<1>13. CASE RenewWriteFails
  <2>1. StepInv'
    BY <1>13 DEF RenewWriteFails, StepInv, platform, disk, mem
  <2>2. AgeInv'
    BY <1>13 DEF RenewWriteFails, AgeInv, Unattended, platform, disk, mem
  <2> QED
    BY <1>0, <2>1, <2>2
<1>14. CASE Ship
  <2>1. StepInv'
    BY <1>14 DEF Ship, StepInv, platform, disk, mem, Loads, Stored
  <2>2. AgeInv'
    BY <1>14 DEF Ship, AgeInv, Unattended, platform, disk, mem
  <2> QED
    BY <1>0, <2>1, <2>2
<1>15. CASE Disconnect
  <2>1. /\ conn' \in BOOLEAN
        /\ UNCHANGED <<platform, disk, pc, mem, ren, checked, gap, unwritten, faults>>
    BY <1>15 DEF Disconnect
  <2>2. StepInv'
    BY <2>1 DEF StepInv, platform, disk, mem, Loads, Stored
  <2>3. AgeInv'
    BY <2>1 DEF AgeInv, Unattended, platform, disk, mem
  <2> QED
    BY <1>0, <2>2, <2>3
<1>16. CASE ShipRefused
  BY <1>16, GoneStep DEF ShipRefused, IInv, TypeOK
<1>17. CASE Restart \/ Start
  <2>1. StepInv'
    BY <1>17 DEF Restart, Start, Launch, StepInv, platform, disk, mem
  <2>2. AgeInv'
    BY <1>17 DEF Restart, Start, Launch, AgeInv, Unattended, platform, disk, mem
  <2> QED
    BY <1>0, <2>1, <2>2
<1>18. CASE Crash
  <2>1. faults' \in 0..MaxFaults
    BY <1>18, FaultType DEF Crash
  <2> QED
    BY <1>18, <2>1, GoneStep DEF Crash
<1>19. CASE Stop
  <2>1. faults' \in 0..MaxFaults
    BY <1>19, FaultType DEF Stop
  <2> QED
    BY <1>19, <2>1, GoneStep DEF Stop, TypeOK
<1>20. CASE PlatformChanges
  <2>1. StepInv' /\ AgeInv'
    BY <1>20 DEF PlatformChanges, StepInv, AgeInv, Unattended, Loads, Stored, disk, mem
  <2> QED
    BY <1>0, <2>1
<1>21. CASE Tick
  <2>1. pc \notin {"enroll", "key", "cert"} /\ (pc = "run" => ren = "idle")
    BY <1>21 DEF Tick, AtRest
  <2>2. /\ certFile' = NoCert <=> certFile = NoCert
        /\ certFile # NoCert =>
             certFile'.left = IF certFile.left = 0 THEN 0 ELSE certFile.left - 1
    BY <1>21, AgedType DEF Tick, TypeOK
  <2>3. gap' = IF gap > RenewBefore THEN gap ELSE gap + 1
    BY <1>21 DEF Tick
  <2>4. StepInv'
    BY <1>21, <2>1 DEF Tick, StepInv
  <2>5. Unattended'
    <3>1. certFile # NoCert => certFile.left \in Nat
      BY DEF TypeOK, Certs
    <3>2. gap \in Nat /\ RenewBefore \in Nat
      BY RenewAssumption, TtlAssumption DEF TypeOK
    <3> QED
      BY <1>21, <2>2, <2>3, <3>1, <3>2 DEF Tick, AgeInv, Unattended
  <2>6. AgeInv'
    BY <1>21, <2>1, <2>5 DEF Tick, AgeInv
  <2> QED
    BY <1>0, <2>4, <2>6
<1>22. CASE UNCHANGED idvars
  BY <1>22 DEF idvars, platform, disk, mem, TypeOK, StepInv, AgeInv, Unattended, Loads, Stored
<1> QED
  BY <1>1, <1>2, <1>3, <1>4, <1>5, <1>6, <1>7, <1>8, <1>9, <1>10, <1>11, <1>12,
     <1>13, <1>14, <1>15, <1>16, <1>17, <1>18, <1>19, <1>20, <1>21, <1>22
     DEF Next, EnsureIdentity, RenewalLoop, Deliver

\* Type correctness; in particular an agent never presents a certificate that
\* was not issued for its key.
THEOREM TypeCorrect == Spec => []TypeOK
<1>1. Init => IInv
  BY Initially
<1>2. IInv /\ [Next]_idvars => IInv'
  BY IInvStep
<1>3. IInv => TypeOK
  BY DEF IInv
<1> QED
  BY <1>1, <1>2, <1>3, PTL DEF Spec

\* The stored certificate expires only if the agent and the platform are kept
\* apart for longer than RenewBefore, or client.crt could not be rewritten.
THEOREM RotatesUnattended == Spec => []Unattended
<1>1. Init => IInv
  BY Initially
<1>2. IInv /\ [Next]_idvars => IInv'
  BY IInvStep
<1>3. IInv => Unattended
  BY DEF IInv, AgeInv
<1> QED
  BY <1>1, <1>2, <1>3, PTL DEF Spec

-----------------------------------------------------------------------------
\* Only three steps write a file of the pair: WriteKey, which StepInv allows
\* over nothing that loads and is valid, and the two that write a certificate
\* for the stored key; Tick only ages it.
LEMMA PairStep ==
  ASSUME IInv, [Next]_idvars, Loads, certFile.left > 0
  PROVE  Loads'
<1> USE DEF IInv
<1>1. CASE UNCHANGED <<keyFile, certFile, caFile>>
  BY <1>1 DEF Loads, Stored
<1>2. CASE WriteKey
  BY <1>2 DEF WriteKey, StepInv
<1>3. CASE WriteCert
  BY <1>3 DEF WriteCert, StepInv, TypeOK, Loads, Stored
<1>4. CASE RenewWrite
  BY <1>4 DEF RenewWrite, StepInv, TypeOK, Loads, Stored
<1>5. CASE Tick
  <2>1. Aged(certFile) # NoCert /\ Aged(certFile).key = certFile.key
    BY AgedType DEF TypeOK, Loads, Stored
  <2> QED
    BY <1>5, <2>1 DEF Tick, Loads, Stored
<1>6. CASE EnsureIdentity
  BY <1>6, <1>1, <1>2, <1>3
     DEF EnsureIdentity, Reuse, BeginEnroll, LoadFails, Enroll, EnrollFails, WriteFails, disk
<1>7. CASE RenewalLoop
  BY <1>7, <1>1, <1>4 DEF RenewalLoop, CheckOnly, Renew, RenewFails, RenewWriteFails, disk
<1>8. CASE Deliver \/ Restart \/ Crash \/ Stop \/ Start \/ PlatformChanges
  BY <1>8, <1>1 DEF Deliver, Ship, ShipRefused, Disconnect, Restart, Start, Launch, Crash,
                    Stop, PlatformChanges, disk
<1>9. CASE UNCHANGED idvars
  BY <1>9, <1>1 DEF idvars, disk
<1> QED
  BY <1>5, <1>6, <1>7, <1>8, <1>9 DEF Next

\* A stored identity that loads and has not expired is never broken by the
\* agent, whatever crashes and failed writes befall it.
THEOREM ValidPairKept == Spec => PairKept
<1>1. Init => IInv
  BY Initially
<1>2. IInv /\ [Next]_idvars => IInv'
  BY IInvStep
<1>3. IInv /\ [Next]_idvars => [Loads /\ certFile.left > 0 => Loads']_idvars
  BY PairStep
<1> QED
  BY <1>1, <1>2, <1>3, PTL DEF Spec, PairKept
=============================================================================
