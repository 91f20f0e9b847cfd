---------------------------- MODULE OnboardProofs ---------------------------
(***************************************************************************)
(* Proofs about a host that is installed, interrupted, installed again and *)
(* purged, for any keys, lifetimes and authorities, any number of faults   *)
(* and of commands, while the service and systemd go on.                   *)
(***************************************************************************)
EXTENDS Onboard, IdentityProofs

\* What holds of the host by type, at any step of a command.
PlaceTypes ==
  /\ user \in BOOLEAN /\ member \in BOOLEAN /\ bin \in BOOLEAN /\ unit \in BOOLEAN
  /\ dir \in {"none", "root", "agent", "bare"}

MemoTypes ==
  /\ given \in {"none", "bad", "good"} /\ caPEM \in Absent..Garbled
  /\ clean \in BOOLEAN /\ warned \in BOOLEAN

RemovalTypes ==
  /\ purge \in {"no", "ours", "elsewhere"} /\ listed \subseteq {"key", "cert", "ca"}
  /\ orderly \in BOOLEAN

HostTypes == TypeOK /\ KeyInHand /\ PlaceTypes /\ MemoTypes /\ RemovalTypes

\* The steps of install that come after each of the things it puts in place.
AfterUnit == {"enable", "probe", "verify", "seen"}
AfterEnv == {"unit"} \cup AfterUnit
AfterChown == {"env"} \cup AfterEnv
AfterCA == {"chown"} \cup AfterChown
AfterDir == {"ca", "truncate", "write"} \cup AfterCA
AfterBin == {"dir"} \cup AfterDir
AfterMember == {"bin"} \cup AfterBin
AfterUser == {"group"} \cup AfterMember

\* What install has put in place stays in place while it goes on.
InstallInv ==
  /\ inst \in AfterUser => user
  /\ inst \in AfterMember => warned \/ member
  /\ inst \in AfterBin => bin
  /\ inst \in AfterDir => dir \in {"root", "agent"}
  /\ inst \in AfterCA => caFile = Written(caPEM)
  /\ inst \in AfterChown => dir = "agent"
  /\ inst \in AfterEnv => env = given
  /\ inst \in AfterUnit => unit

\* No agent is at work, and none can be started.
Quiet == ~Active /\ (~unit \/ (pc = "off" /\ inst = "remove"))

Purged == inst = "gone" /\ purge = "ours"

Removing ==
  inst \in {"remove", "unlink", "purge", "sweep", "rmdir", "unconfigure", "userdel"} \/ Purged

\* Without certs/ nobody can write a file.  An orderly uninstall has stopped the
\* agent for good, so what RemoveAll has read of the directory is all there is.
PurgeInv ==
  /\ dir \in {"none", "bare"} => Present = {}
  /\ orderly =>
       /\ Removing => Quiet
       /\ inst = "sweep" => Present \subseteq listed
       /\ inst = "rmdir" => Present = {} /\ dir # "agent"
       /\ inst \in {"unconfigure", "userdel", "gone"} /\ purge = "ours" => dir = "none"
       /\ inst = "userdel" \/ Purged => env = "absent"

HostInv == HostTypes /\ InstallInv /\ PurgeInv

\* The numbers that mean something in ca.crt.
LEMMA Markers ==
  /\ Absent \in Absent..Garbled /\ Garbled \in Absent..Garbled
  /\ \A n \in 1..MaxCa : n \in Absent..Garbled /\ n # Absent /\ n # Garbled
BY CaAssumption DEF Absent, Garbled

-----------------------------------------------------------------------------
(* The service.                                                            *)

Service == Serve \/ Happens \/ WriteDenied \/ RenewDenied \/ EnsureCertDir

others == <<user, member, bin, unit, inst, memo, removal>>

\* The service never touches what only the commands write, except that a running
\* agent makes certs/ again; it writes no file without that directory; and an
\* agent that is off for good stays so.  Time may pass.
LEMMA ServiceWrites ==
  ASSUME Service
  PROVE  /\ UNCHANGED <<others, caFile, env>>
         /\ dir' = dir \/ (/\ dir = "bare" /\ dir' = "agent" /\ Active
                           /\ UNCHANGED <<keyFile, certFile>>)
         /\ dir # "agent" \/ ~Active
              => keyFile' = keyFile /\ certFile' \in {certFile, Aged(certFile)}
         /\ Quiet => ~Active' /\ (pc = "off" => pc' = "off")
<1>1. CASE Serve
  <2>1. UNCHANGED <<host, caFile, env>>
    BY <1>1 DEF Serve, Reuse, BeginEnroll, LoadFails, Enroll, EnrollFails, CheckOnly, Renew,
                RenewFails, WriteKey, WriteCert, WriteFails, RenewWrite, RenewWriteFails,
                Restart, Launch, disk
  <2>2. dir # "agent" \/ ~Active => UNCHANGED <<keyFile, certFile>>
    BY <1>1 DEF Serve, Reuse, BeginEnroll, LoadFails, Enroll, EnrollFails, CheckOnly, Renew,
                RenewFails, WriteKey, WriteCert, WriteFails, RenewWrite, RenewWriteFails,
                Restart, Launch, disk, Active
  <2>3. ~Quiet
    BY <1>1 DEF Serve, Reuse, BeginEnroll, LoadFails, Enroll, EnrollFails, CheckOnly, Renew,
                RenewFails, WriteKey, WriteCert, WriteFails, RenewWrite, RenewWriteFails,
                Launchable, Restart, Quiet, Active
  <2> QED
    BY <2>1, <2>2, <2>3 DEF host, place, others
<1>2. CASE Happens
  <2>1. /\ UNCHANGED <<host, caFile, env, keyFile>>
        /\ certFile' \in {certFile, Aged(certFile)}
    BY <1>2 DEF Happens, Ship, ShipRefused, Disconnect, Crash, PlatformChanges, Stop, Start,
                Launch, Tick, disk
  <2>2. Quiet => ~Active' /\ (pc = "off" => pc' = "off")
    BY <1>2 DEF Happens, Ship, ShipRefused, Disconnect, Crash, PlatformChanges, Stop, Start,
                Launchable, Tick, Gone, Quiet, Active
  <2> QED
    BY <2>1, <2>2 DEF host, place, others
<1>3. CASE WriteDenied \/ RenewDenied
  BY <1>3 DEF WriteDenied, RenewDenied, disk, host, place, others, Quiet, Active
<1>4. CASE EnsureCertDir
  BY <1>4 DEF EnsureCertDir, idvars, disk, others, Quiet, Active
<1> QED
  BY <1>1, <1>2, <1>3, <1>4 DEF Service

LEMMA ServiceTypes ==
  ASSUME TypeOK, KeyInHand, Service
  PROVE  TypeOK' /\ KeyInHand'
<1>1. CASE Serve \/ Happens
  <2>1. Next
    BY <1>1 DEF Serve, Happens, Next, EnsureIdentity, RenewalLoop, Deliver
  <2> QED
    BY <2>1, TypeStep
<1>2. CASE WriteDenied
  BY <1>2, GoneType DEF WriteDenied, Fail, TypeOK
<1>3. CASE RenewDenied
  BY <1>3 DEF RenewDenied, TypeOK, KeyInHand, platform, disk, mem
<1>4. CASE EnsureCertDir
  BY <1>4, TypeStep DEF EnsureCertDir
<1> QED
  BY <1>1, <1>2, <1>3, <1>4 DEF Service

LEMMA ServiceStep ==
  ASSUME HostInv, Service
  PROVE  HostInv'
<1> USE DEF HostInv
<1>1. /\ UNCHANGED <<user, member, bin, unit, inst, given, caPEM, clean, warned, purge, listed,
                     orderly, caFile, env>>
      /\ dir' = dir \/ (/\ dir = "bare" /\ dir' = "agent" /\ Active
                        /\ UNCHANGED <<keyFile, certFile>>)
  BY ServiceWrites DEF others, memo, removal
<1>2. HostTypes'
  <2>1. TypeOK' /\ KeyInHand'
    BY ServiceTypes DEF HostTypes
  <2>2. PlaceTypes' /\ MemoTypes' /\ RemovalTypes'
    BY <1>1 DEF HostTypes, PlaceTypes, MemoTypes, RemovalTypes
  <2> QED
    BY <2>1, <2>2 DEF HostTypes
<1>3. InstallInv'
  BY <1>1 DEF InstallInv, AfterUser, AfterMember, AfterBin, AfterDir, AfterCA, AfterChown,
              AfterEnv, AfterUnit
<1>4. PurgeInv'
  <2>1. dir # "agent" \/ ~Active => Present' \subseteq Present
    BY <1>1, ServiceWrites DEF Present, Aged
  <2>2. Quiet => Quiet'
    BY <1>1, ServiceWrites DEF Quiet
  <2>3. (Removing <=> Removing') /\ (Purged <=> Purged')
    BY <1>1 DEF Removing, Purged
  <2>4. dir' \in {"none", "bare"} => Present' = {}
    BY <1>1, <2>1 DEF PurgeInv
  <2>5. orderly /\ Removing => Quiet /\ ~Active
    BY DEF PurgeInv, Quiet
  <2>6. ASSUME orderly, Removing
        PROVE  /\ inst = "sweep" => Present' \subseteq listed
               /\ inst = "rmdir" => Present' = {} /\ dir' # "agent"
               /\ inst \in {"unconfigure", "userdel", "gone"} /\ purge = "ours" => dir' = "none"
    BY <1>1, <2>1, <2>5, <2>6 DEF PurgeInv
  <2>7. inst \in {"sweep", "rmdir", "unconfigure", "userdel"} \/ Purged => Removing
    BY DEF Removing
  <2>8. Removing /\ orderly => Quiet'
    BY <2>2, <2>5
  <2>9. inst = "gone" /\ purge = "ours" => Purged
    BY DEF Purged
  <2> QED
    BY <1>1, <2>3, <2>4, <2>6, <2>7, <2>8, <2>9 DEF PurgeInv
<1> QED
  BY <1>2, <1>3, <1>4

-----------------------------------------------------------------------------
(* The commands.                                                           *)

LEMMA SameTypes ==
  ASSUME TypeOK, KeyInHand, UNCHANGED idvars
  PROVE  TypeOK' /\ KeyInHand'
BY TypeStep

\* A step that touches at most the fault counter of the service.
LEMMA FaultTypes ==
  ASSUME TypeOK, KeyInHand, UNCHANGED <<platform, disk, proc>>,
         Fault \/ UNCHANGED faults
  PROVE  TypeOK' /\ KeyInHand'
<1>1. faults' \in 0..MaxFaults
  BY FaultType DEF TypeOK
<1> QED
  BY <1>1 DEF TypeOK, KeyInHand, platform, disk, proc, mem

InstallSteps == {"idle", "done", "failed", "user", "disable"} \cup AfterUser

\* Neither a step of install nor the end of a command is about a removal.
LEMMA NoRemoval ==
  ASSUME inst' \in InstallSteps, dir' \in {"none", "bare"} => Present' = {}
  PROVE  PurgeInv'
BY DEF PurgeInv, InstallSteps, AfterUser, AfterMember, AfterBin, AfterDir, AfterCA, AfterChown,
       AfterEnv, AfterUnit, Removing, Purged

\* A command that ends leaves nothing for InstallInv to be about.
LEMMA EndsStep ==
  ASSUME HostInv, NEW how \in {"done", "failed"}, Ends(how), TypeOK', KeyInHand',
         UNCHANGED <<place, keyFile, certFile, caFile>>
  PROVE  HostInv'
<1>1. PlaceTypes' /\ MemoTypes' /\ RemovalTypes'
  BY Markers DEF HostInv, HostTypes, PlaceTypes, MemoTypes, RemovalTypes, Ends, place
<1>2. InstallInv'
  BY DEF InstallInv, AfterUser, AfterMember, AfterBin, AfterDir, AfterCA, AfterChown, AfterEnv,
         AfterUnit, Ends
<1>3. PurgeInv'
  <2>1. dir' \in {"none", "bare"} => Present' = {}
    BY DEF HostInv, PurgeInv, Present, place
  <2>2. inst' \in InstallSteps
    BY DEF InstallSteps, Ends
  <2> QED
    BY <2>1, <2>2, NoRemoval
<1> QED
  BY <1>1, <1>2, <1>3 DEF HostInv, HostTypes

LEMMA InstallStep ==
  ASSUME HostInv, RunInstall
  PROVE  HostInv'
<1> USE DEF HostInv, HostTypes, AfterUser, AfterMember, AfterBin, AfterDir, AfterCA,
            AfterChown, AfterEnv, AfterUnit
<1>0. dir \in {"none", "bare"} => Present = {}
  BY DEF PurgeInv
<1>1. CASE EnsureUser
  <2>1. TypeOK' /\ KeyInHand'
    BY <1>1, SameTypes DEF EnsureUser
  <2>3. PlaceTypes' /\ MemoTypes' /\ RemovalTypes'
    BY <1>1 DEF EnsureUser, place, memo, removal, PlaceTypes, MemoTypes, RemovalTypes
  <2>4. InstallInv'
    BY <1>1 DEF EnsureUser, InstallInv, place, memo, idvars, disk
  <2>5. inst' \in InstallSteps /\ (dir' \in {"none", "bare"} => Present' = {})
    BY <1>1, <1>0 DEF EnsureUser, InstallInv, InstallSteps, Present, place, idvars, disk
  <2> QED
    BY <2>1, <2>3, <2>4, <2>5, NoRemoval
<1>2. CASE EnsureUserInGroup
  <2>1. TypeOK' /\ KeyInHand'
    BY <1>2, FaultTypes DEF EnsureUserInGroup
  <2>3. PlaceTypes' /\ MemoTypes' /\ RemovalTypes'
    BY <1>2 DEF EnsureUserInGroup, place, memo, removal, PlaceTypes, MemoTypes, RemovalTypes
  <2>4. InstallInv'
    BY <1>2 DEF EnsureUserInGroup, InstallInv, place, memo, idvars, disk
  <2>5. inst' \in InstallSteps /\ (dir' \in {"none", "bare"} => Present' = {})
    BY <1>2, <1>0 DEF EnsureUserInGroup, InstallInv, InstallSteps, Present, place, idvars, disk
  <2> QED
    BY <2>1, <2>3, <2>4, <2>5, NoRemoval
<1>3. CASE CopyExecutable
  <2>1. TypeOK' /\ KeyInHand'
    BY <1>3, SameTypes DEF CopyExecutable
  <2>3. PlaceTypes' /\ MemoTypes' /\ RemovalTypes'
    BY <1>3 DEF CopyExecutable, place, memo, removal, PlaceTypes, MemoTypes, RemovalTypes
  <2>4. InstallInv'
    BY <1>3 DEF CopyExecutable, InstallInv, place, memo, idvars, disk
  <2>5. inst' \in InstallSteps /\ (dir' \in {"none", "bare"} => Present' = {})
    BY <1>3, <1>0 DEF CopyExecutable, InstallInv, InstallSteps, Present, place, idvars, disk
  <2> QED
    BY <2>1, <2>3, <2>4, <2>5, NoRemoval
<1>4. CASE MakeStateDir
  <2>1. TypeOK' /\ KeyInHand'
    BY <1>4, SameTypes DEF MakeStateDir
  <2>3. PlaceTypes' /\ MemoTypes' /\ RemovalTypes'
    BY <1>4 DEF MakeStateDir, place, memo, removal, PlaceTypes, MemoTypes, RemovalTypes
  <2>4. InstallInv'
    BY <1>4 DEF MakeStateDir, InstallInv, place, memo, idvars, disk
  <2>5. inst' \in InstallSteps /\ (dir' \in {"none", "bare"} => Present' = {})
    BY <1>4, <1>0 DEF MakeStateDir, InstallInv, InstallSteps, Present, place, idvars, disk
  <2> QED
    BY <2>1, <2>3, <2>4, <2>5, NoRemoval
<1>5. CASE ObtainCA
  <2>1. TypeOK' /\ KeyInHand'
    BY <1>5, FaultTypes DEF ObtainCA
  <2>2. caPEM' \in Absent..Garbled
    <3>1. 1..ca \subseteq 1..MaxCa /\ ca \in 1..MaxCa
      BY CaAssumption DEF TypeOK
    <3> QED
      BY <1>5, <3>1, Markers DEF ObtainCA
  <2>3. PlaceTypes' /\ MemoTypes' /\ RemovalTypes'
    BY <1>5, <2>2 DEF ObtainCA, place, removal, PlaceTypes, MemoTypes, RemovalTypes
  <2>4. InstallInv'
    BY <1>5 DEF ObtainCA, InstallInv, place, memo, idvars, disk
  <2>5. inst' \in InstallSteps /\ (dir' \in {"none", "bare"} => Present' = {})
    BY <1>5, <1>0 DEF ObtainCA, InstallInv, InstallSteps, Present, place, idvars, disk
  <2> QED
    BY <2>1, <2>3, <2>4, <2>5, NoRemoval
<1>6. CASE TruncateCA
  <2>1. TypeOK' /\ KeyInHand'
    BY <1>6, Markers DEF TruncateCA, TypeOK, KeyInHand, platform, proc, mem, Written, MemoTypes
  <2>2. clean' \in BOOLEAN
    BY <1>6 DEF TruncateCA
  <2>3. PlaceTypes' /\ MemoTypes' /\ RemovalTypes'
    BY <1>6, <2>2 DEF TruncateCA, place, removal, PlaceTypes, MemoTypes, RemovalTypes
  <2>4. InstallInv'
    BY <1>6 DEF TruncateCA, InstallInv, place, memo, idvars, disk
  <2>5. inst' \in InstallSteps /\ (dir' \in {"none", "bare"} => Present' = {})
    BY <1>6, <1>0 DEF TruncateCA, InstallInv, InstallSteps, Present, place, idvars, disk
  <2> QED
    BY <2>1, <2>3, <2>4, <2>5, NoRemoval
<1>7. CASE WriteCA
  <2>1. TypeOK' /\ KeyInHand'
    BY <1>7, Markers DEF WriteCA, TypeOK, KeyInHand, platform, proc, mem, Written, MemoTypes
  <2>3. PlaceTypes' /\ MemoTypes' /\ RemovalTypes'
    BY <1>7 DEF WriteCA, place, memo, removal, PlaceTypes, MemoTypes, RemovalTypes
  <2>4. InstallInv'
    BY <1>7 DEF WriteCA, InstallInv, place, memo, idvars, disk
  <2>5. inst' \in InstallSteps /\ (dir' \in {"none", "bare"} => Present' = {})
    BY <1>7, <1>0 DEF WriteCA, InstallInv, InstallSteps, Present, place, idvars, disk
  <2> QED
    BY <2>1, <2>3, <2>4, <2>5, NoRemoval
<1>8. CASE ChownTree
  <2>1. TypeOK' /\ KeyInHand'
    BY <1>8, SameTypes DEF ChownTree
  <2>3. PlaceTypes' /\ MemoTypes' /\ RemovalTypes'
    BY <1>8 DEF ChownTree, place, memo, removal, PlaceTypes, MemoTypes, RemovalTypes
  <2>4. InstallInv'
    BY <1>8 DEF ChownTree, InstallInv, place, memo, idvars, disk
  <2>5. inst' \in InstallSteps /\ (dir' \in {"none", "bare"} => Present' = {})
    BY <1>8, <1>0 DEF ChownTree, InstallInv, InstallSteps, Present, place, idvars, disk
  <2> QED
    BY <2>1, <2>3, <2>4, <2>5, NoRemoval
<1>9. CASE WriteEnv
  <2>1. TypeOK' /\ KeyInHand'
    BY <1>9, Markers DEF WriteEnv, TypeOK, KeyInHand, platform, proc, mem, Written, MemoTypes
  <2>3. PlaceTypes' /\ MemoTypes' /\ RemovalTypes'
    BY <1>9 DEF WriteEnv, place, memo, removal, PlaceTypes, MemoTypes, RemovalTypes
  <2>4. InstallInv'
    BY <1>9 DEF WriteEnv, InstallInv, place, memo, idvars, disk
  <2>5. inst' \in InstallSteps /\ (dir' \in {"none", "bare"} => Present' = {})
    BY <1>9, <1>0 DEF WriteEnv, InstallInv, InstallSteps, Present, place, idvars, disk
  <2> QED
    BY <2>1, <2>3, <2>4, <2>5, NoRemoval
<1>10. CASE WriteUnit
  <2>1. TypeOK' /\ KeyInHand'
    BY <1>10, SameTypes DEF WriteUnit
  <2>3. PlaceTypes' /\ MemoTypes' /\ RemovalTypes'
    BY <1>10 DEF WriteUnit, place, memo, removal, PlaceTypes, MemoTypes, RemovalTypes
  <2>4. InstallInv'
    BY <1>10 DEF WriteUnit, InstallInv, place, memo, idvars, disk
  <2>5. inst' \in InstallSteps /\ (dir' \in {"none", "bare"} => Present' = {})
    BY <1>10, <1>0 DEF WriteUnit, InstallInv, InstallSteps, Present, place, idvars, disk
  <2> QED
    BY <2>1, <2>3, <2>4, <2>5, NoRemoval
<1>11. CASE EnableNow
  <2>1. TypeOK' /\ KeyInHand'
    BY <1>11, SameTypes, LaunchType DEF EnableNow, TypeOK
  <2>3. PlaceTypes' /\ MemoTypes' /\ RemovalTypes'
    BY <1>11 DEF EnableNow, place, memo, removal, PlaceTypes, MemoTypes, RemovalTypes
  <2>4. InstallInv'
    BY <1>11 DEF EnableNow, InstallInv, place, memo, idvars, disk, Launch
  <2>5. inst' \in InstallSteps /\ (dir' \in {"none", "bare"} => Present' = {})
    BY <1>11, <1>0 DEF EnableNow, InstallInv, InstallSteps, Present, place, idvars, disk, Launch
  <2> QED
    BY <2>1, <2>3, <2>4, <2>5, NoRemoval
<1>12. CASE Probe
  <2>1. TypeOK' /\ KeyInHand'
    BY <1>12, SameTypes DEF Probe
  <2>2. UNCHANGED <<place, keyFile, certFile, caFile, env>>
    BY <1>12 DEF Probe, idvars, disk
  <2>3. Ends("failed") \/ (inst' = "verify" /\ inst = "probe" /\ UNCHANGED <<memo, removal>>)
    BY <1>12 DEF Probe
  <2>4. CASE Ends("failed")
    BY <2>1, <2>2, <2>4, EndsStep
  <2>5. CASE inst' = "verify" /\ inst = "probe" /\ UNCHANGED <<memo, removal>>
    <3>1. PlaceTypes' /\ MemoTypes' /\ RemovalTypes'
      BY <2>2, <2>5 DEF place, memo, removal, PlaceTypes, MemoTypes, RemovalTypes
    <3>2. InstallInv'
      BY <2>2, <2>5 DEF place, memo, InstallInv
    <3>3. inst' \in InstallSteps /\ (dir' \in {"none", "bare"} => Present' = {})
      BY <1>0, <2>2, <2>5 DEF place, InstallSteps, Present
    <3> QED
      BY <2>1, <3>1, <3>2, <3>3, NoRemoval
  <2> QED
    BY <2>3, <2>4, <2>5
<1>13. CASE CheckActive
  <2>1. TypeOK' /\ KeyInHand'
    BY <1>13, SameTypes DEF CheckActive
  <2>3. PlaceTypes' /\ MemoTypes' /\ RemovalTypes'
    BY <1>13 DEF CheckActive, place, memo, removal, PlaceTypes, MemoTypes, RemovalTypes
  <2>4. InstallInv'
    BY <1>13 DEF CheckActive, InstallInv, place, memo, idvars, disk
  <2>5. inst' \in InstallSteps /\ (dir' \in {"none", "bare"} => Present' = {})
    BY <1>13, <1>0 DEF CheckActive, InstallInv, InstallSteps, Present, place, idvars, disk
  <2> QED
    BY <2>1, <2>3, <2>4, <2>5, NoRemoval
<1>14. CASE CheckCert
  <2>1. TypeOK' /\ KeyInHand'
    BY <1>14, SameTypes DEF CheckCert
  <2>2. UNCHANGED <<place, keyFile, certFile, caFile, env>>
    BY <1>14 DEF CheckCert, idvars, disk
  <2>3. Ends("done") \/ (inst' = "verify" /\ inst = "seen" /\ UNCHANGED <<memo, removal>>)
    BY <1>14 DEF CheckCert
  <2>4. CASE Ends("done")
    BY <2>1, <2>2, <2>4, EndsStep
  <2>5. CASE inst' = "verify" /\ inst = "seen" /\ UNCHANGED <<memo, removal>>
    <3>1. PlaceTypes' /\ MemoTypes' /\ RemovalTypes'
      BY <2>2, <2>5 DEF place, memo, removal, PlaceTypes, MemoTypes, RemovalTypes
    <3>2. InstallInv'
      BY <2>2, <2>5 DEF place, memo, InstallInv
    <3>3. inst' \in InstallSteps /\ (dir' \in {"none", "bare"} => Present' = {})
      BY <1>0, <2>2, <2>5 DEF place, InstallSteps, Present
    <3> QED
      BY <2>1, <3>1, <3>2, <3>3, NoRemoval
  <2> QED
    BY <2>3, <2>4, <2>5
<1> QED
  BY <1>1, <1>2, <1>3, <1>4, <1>5, <1>6, <1>7, <1>8, <1>9, <1>10, <1>11, <1>12, <1>13, <1>14
     DEF RunInstall

\* The names RemoveAll can have read, and what is left once one of the files is
\* gone.
LEMMA PresentNames ==
  /\ Present \subseteq {"key", "cert", "ca"}
  /\ "key" \in Present <=> keyFile # NoKey
  /\ "cert" \in Present <=> certFile # NoCert
  /\ "ca" \in Present <=> caFile # Absent
BY DEF Present

\* Without install's steps, its part of the invariant says nothing.
LEMMA NoInstall ==
  ASSUME inst' \notin AfterUser
  PROVE  InstallInv'
BY DEF InstallInv, AfterUser, AfterMember, AfterBin, AfterDir, AfterCA, AfterChown, AfterEnv,
       AfterUnit

LEMMA TryTypes ==
  ASSUME TypeOK, RemovalTypes, (UNCHANGED <<orderly, faults>>) \/ (orderly' = FALSE /\ Fault)
  PROVE  /\ Fault \/ UNCHANGED faults
         /\ faults' \in 0..MaxFaults /\ orderly' \in BOOLEAN
         /\ orderly' => orderly
<1>1. CASE UNCHANGED <<orderly, faults>>
  BY <1>1 DEF TypeOK, RemovalTypes
<1>2. CASE orderly' = FALSE /\ Fault
  BY <1>2, FaultType
<1> QED
  BY <1>1, <1>2

LEMMA UninstallStep ==
  ASSUME HostInv, RunUninstall
  PROVE  HostInv'
<1> USE DEF HostInv, HostTypes
<1>0. /\ dir \in {"none", "bare"} => Present = {}
      /\ orderly /\ Removing => ~Active /\ (inst # "remove" => ~unit)
      /\ orderly => /\ inst = "sweep" => Present \subseteq listed
                    /\ inst = "rmdir" => Present = {} /\ dir # "agent"
                    /\ inst \in {"unconfigure", "userdel", "gone"} /\ purge = "ours"
                         => dir = "none"
                    /\ inst = "userdel" \/ Purged => env = "absent"
  BY DEF PurgeInv, Quiet
<1>1. CASE DisableNow
  <2>1. TypeOK' /\ KeyInHand'
    <3>1. faults' \in 0..MaxFaults
      BY <1>1, FaultType DEF DisableNow, TypeOK
    <3>2. CASE Gone("off") /\ UNCHANGED checked
      BY <1>1, <3>1, <3>2, GoneType DEF DisableNow, TypeOK
    <3>3. CASE UNCHANGED <<pc, mem, ren, conn, checked>>
      BY <1>1, <3>1, <3>3 DEF DisableNow, TypeOK, KeyInHand, platform, disk, mem
    <3> QED
      BY <1>1, <3>2, <3>3 DEF DisableNow
  <2>2. orderly' \in BOOLEAN
    BY <1>1 DEF DisableNow, RemovalTypes
  <2>3. PlaceTypes' /\ MemoTypes' /\ RemovalTypes'
    BY <1>1, <2>2 DEF DisableNow, place, memo, PlaceTypes, MemoTypes, RemovalTypes
  <2>4. InstallInv'
    BY <1>1, NoInstall DEF DisableNow, AfterUser, AfterMember, AfterBin, AfterDir, AfterCA,
                           AfterChown, AfterEnv, AfterUnit
  <2>5. orderly' => Quiet'
    <3>1. CASE Gone("off")
      BY <1>1, <3>1 DEF DisableNow, Gone, Quiet, Active
    <3>2. CASE orderly' = (~unit /\ ~Active) /\ UNCHANGED <<pc, unit>>
      BY <3>2 DEF Quiet, Active
    <3> QED
      BY <1>1, <3>1, <3>2 DEF DisableNow, place
  <2>6. inst' = "remove" /\ UNCHANGED <<dir, keyFile, certFile, caFile>>
    BY <1>1 DEF DisableNow, place, disk
  <2>7. PurgeInv'
    BY <1>0, <2>5, <2>6 DEF PurgeInv, Present, Removing, Purged
  <2> QED
    BY <2>1, <2>3, <2>4, <2>7
<1>2. ASSUME UNCHANGED <<platform, proc, memo, purge>>,
             (UNCHANGED <<orderly, faults>>) \/ (orderly' = FALSE /\ Fault),
             keyFile' \in {keyFile, NoKey}, certFile' \in {certFile, NoCert},
             caFile' \in {caFile, Absent}, env' \in {env, "absent"},
             user' \in {user, FALSE}, member' \in {member, FALSE}, bin' \in {bin, FALSE},
             unit' \in {unit, FALSE}, dir' \in {dir, "bare", "none"},
             listed' \subseteq {"key", "cert", "ca"}, inst' \notin AfterUser
      PROVE  TypeOK' /\ KeyInHand' /\ PlaceTypes' /\ MemoTypes' /\ RemovalTypes' /\ InstallInv'
  <2>1. faults' \in 0..MaxFaults /\ orderly' \in BOOLEAN
    BY <1>2, TryTypes
  <2>2. TypeOK' /\ KeyInHand'
    BY <1>2, <2>1, Markers DEF TypeOK, KeyInHand, platform, proc, mem
  <2>3. user' \in BOOLEAN /\ member' \in BOOLEAN /\ bin' \in BOOLEAN /\ unit' \in BOOLEAN
    BY <1>2, Zenon DEF PlaceTypes
  <2>4. PlaceTypes'
    BY <1>2, <2>3 DEF PlaceTypes
  <2>5. MemoTypes' /\ RemovalTypes'
    BY <1>2, <2>1 DEF memo, MemoTypes, RemovalTypes
  <2> QED
    BY <1>2, <2>2, <2>4, <2>5, NoInstall
<1> USE DEF AfterUser, AfterMember, AfterBin, AfterDir, AfterCA, AfterChown, AfterEnv, AfterUnit
<1>3. CASE RemoveUnit
  <2>1. HostTypes' /\ InstallInv'
    BY <1>2, <1>3 DEF RemoveUnit, Try, disk, RemovalTypes
  <2>2. PurgeInv'
    BY <1>0, <1>3 DEF RemoveUnit, Try, disk, proc, PurgeInv, Present, Removing, Purged, Quiet,
                      Active
  <2> QED
    BY <2>1, <2>2
<1>4. CASE RemoveBinary
  <2>0. inst' \in {"gone", "purge", "unconfigure"} /\ (inst' # "purge" => purge # "ours")
    BY <1>4 DEF RemoveBinary, RemovalTypes
  <2>1. HostTypes' /\ InstallInv'
    BY <1>2, <1>4, <2>0 DEF RemoveBinary, Try, disk, RemovalTypes
  <2>2. PurgeInv'
    <3>1. UNCHANGED <<dir, unit, pc, Present, purge>>
      BY <1>4 DEF RemoveBinary, Try, disk, proc, Present
    <3>2. orderly' => ~Active /\ ~unit
      BY <1>0, <1>4, Zenon DEF RemoveBinary, Try, Removing
    <3> QED
      BY <1>0, <2>0, <3>1, <3>2 DEF PurgeInv, Removing, Purged, Quiet, Active
  <2> QED
    BY <2>1, <2>2
<1>5. CASE ReadNames
  <2>1. HostTypes' /\ InstallInv'
    BY <1>2, <1>5, PresentNames DEF ReadNames, idvars, disk, proc, place
  <2>2. PurgeInv'
    BY <1>0, <1>5 DEF ReadNames, idvars, disk, place, PurgeInv, Present, Removing, Purged,
                      Quiet, Active
  <2> QED
    BY <2>1, <2>2
<1>6. ASSUME NEW name \in listed, Unlink(name) PROVE HostInv'
  <2>1. HostTypes' /\ InstallInv'
    BY <1>2, <1>6 DEF Unlink, Try, place, RemovalTypes
  <2>2. Present' \subseteq Present /\ (orderly' => name \notin Present')
    <3>1. name \in {"key", "cert", "ca"}
      BY <1>6 DEF RemovalTypes
    <3> QED
      BY <1>6, <3>1 DEF Unlink, Try, Present
  <2>3. PurgeInv'
    BY <1>0, <1>6, <2>2 DEF Unlink, Try, proc, place, PurgeInv, Removing, Purged, Quiet, Active
  <2> QED
    BY <2>1, <2>3
<1>7. CASE RemoveCertDir
  <2>1. HostTypes' /\ InstallInv'
    BY <1>2, <1>7 DEF RemoveCertDir, Refused, disk, RemovalTypes
  <2>2. PurgeInv'
    BY <1>0, <1>7 DEF RemoveCertDir, Refused, disk, proc, PurgeInv, Present, Removing, Purged,
                      Quiet, Active
  <2> QED
    BY <2>1, <2>2
<1>8. CASE RemoveStateDir
  <2>1. HostTypes' /\ InstallInv'
    BY <1>2, <1>8 DEF RemoveStateDir, Refused, disk, RemovalTypes
  <2>2. PurgeInv'
    BY <1>0, <1>8 DEF RemoveStateDir, Refused, disk, proc, PurgeInv, Present, Removing, Purged,
                      Quiet, Active
  <2> QED
    BY <2>1, <2>2
<1>9. CASE RemoveEnv
  <2>1. HostTypes' /\ InstallInv'
    BY <1>2, <1>9 DEF RemoveEnv, Try, place, RemovalTypes
  <2>2. PurgeInv'
    BY <1>0, <1>9 DEF RemoveEnv, Try, proc, place, PurgeInv, Present, Removing, Purged, Quiet,
                      Active
  <2> QED
    BY <2>1, <2>2
<1>10. CASE DeleteUser
  <2>1. TypeOK' /\ KeyInHand'
    BY <1>10, FaultTypes DEF DeleteUser
  <2>2. user' \in BOOLEAN /\ member' \in BOOLEAN
    BY <1>10, Zenon DEF DeleteUser, PlaceTypes
  <2>3. inst' = "gone" /\ UNCHANGED <<env, bin, unit, dir, memo, removal>>
    BY <1>10 DEF DeleteUser, disk
  <2>4. PlaceTypes'
    BY <2>2, <2>3 DEF PlaceTypes
  <2>5. MemoTypes' /\ RemovalTypes'
    BY <2>3 DEF memo, removal, MemoTypes, RemovalTypes
  <2>6. InstallInv'
    BY <2>3, NoInstall
  <2>7. PurgeInv'
    BY <1>0, <1>10 DEF DeleteUser, removal, disk, proc, PurgeInv, Present, Removing, Purged,
                       Quiet, Active
  <2> QED
    BY <2>1, <2>4, <2>5, <2>6, <2>7
<1> QED
  BY <1>1, <1>3, <1>4, <1>5, <1>6, <1>7, <1>8, <1>9, <1>10 DEF RunUninstall

LEMMA HostStep ==
  ASSUME HostInv, [HostNext]_hvars
  PROVE  HostInv'
<1> USE DEF HostInv, HostTypes
<1>0. dir \in {"none", "bare"} => Present = {}
  BY DEF PurgeInv
<1>1. ASSUME NEW token \in {"good", "bad"}, Install(token) PROVE HostInv'
  <2>1. TypeOK' /\ KeyInHand'
    BY <1>1, FaultTypes DEF Install
  <2>2. PlaceTypes' /\ MemoTypes' /\ RemovalTypes'
    BY <1>1 DEF Install, place, PlaceTypes, MemoTypes, RemovalTypes
  <2>3. InstallInv'
    BY <1>1, NoInstall DEF Install, AfterUser, AfterMember, AfterBin, AfterDir, AfterCA,
                           AfterChown, AfterEnv, AfterUnit
  <2>4. PurgeInv'
    BY <1>0, <1>1, NoRemoval DEF Install, place, disk, Present, InstallSteps
  <2> QED
    BY <2>1, <2>2, <2>3, <2>4
<1>2. CASE VerifyTimeout
  <2>1. TypeOK' /\ KeyInHand'
    BY <1>2, FaultTypes DEF VerifyTimeout
  <2> QED
    BY <1>2, <2>1, EndsStep DEF VerifyTimeout, disk
<1>3. CASE Interrupted
  <2>1. faults' \in 0..MaxFaults
    BY <1>3, FaultType DEF Interrupted, TypeOK
  <2>2. env' \in {"absent", "none", "bad", "good"}
    BY <1>3 DEF Interrupted, TypeOK
  <2>3. TypeOK' /\ KeyInHand'
    BY <1>3, <2>1, <2>2 DEF Interrupted, TypeOK, KeyInHand, platform, proc, mem
  <2> QED
    BY <1>3, <2>3, EndsStep DEF Interrupted
<1>4. ASSUME NEW p \in {"no", "ours", "elsewhere"}, Uninstall(p) PROVE HostInv'
  <2>1. TypeOK' /\ KeyInHand'
    BY <1>4, SameTypes DEF Uninstall
  <2>2. PlaceTypes' /\ MemoTypes' /\ RemovalTypes'
    BY <1>4 DEF Uninstall, place, memo, PlaceTypes, MemoTypes, RemovalTypes
  <2>3. InstallInv'
    BY <1>4, NoInstall DEF Uninstall, AfterUser, AfterMember, AfterBin, AfterDir, AfterCA,
                           AfterChown, AfterEnv, AfterUnit
  <2>4. PurgeInv'
    BY <1>0, <1>4, NoRemoval DEF Uninstall, place, idvars, disk, Present, InstallSteps
  <2> QED
    BY <2>1, <2>2, <2>3, <2>4
<1>5. CASE UNCHANGED hvars
  <2>1. TypeOK' /\ KeyInHand'
    BY <1>5, SameTypes DEF hvars
  <2>2. PlaceTypes' /\ MemoTypes' /\ RemovalTypes'
    BY <1>5 DEF hvars, host, place, memo, removal, PlaceTypes, MemoTypes, RemovalTypes
  <2>3. InstallInv' /\ PurgeInv'
    BY <1>5 DEF hvars, host, place, memo, removal, idvars, disk, InstallInv, PurgeInv, Quiet,
                Present, Removing, Purged, Active
  <2> QED
    BY <2>1, <2>2, <2>3
<1> QED
  BY <1>1, <1>2, <1>3, <1>4, <1>5, InstallStep, UninstallStep, ServiceStep
     DEF HostNext, Service

LEMMA HostInitially ==
  ASSUME HostInit
  PROVE  HostInv
<1>1. ca = 1 /\ 1 \in 1..MaxCa /\ 0 \in 0..(RenewBefore + 1) /\ 0 \in 0..MaxFaults
  BY CaAssumption, RenewAssumption, TtlAssumption, FaultAssumption
     DEF HostInit, IdentityInit, PlatformInit
<1>2. TypeOK /\ KeyInHand
  BY <1>1, Markers DEF HostInit, IdentityInit, PlatformInit, TypeOK, KeyInHand
<1>3. HostTypes
  BY <1>2, Markers DEF HostInit, HostTypes, PlaceTypes, MemoTypes, RemovalTypes
<1>4. InstallInv
  BY DEF HostInit, InstallInv, AfterUser, AfterMember, AfterBin, AfterDir, AfterCA, AfterChown,
         AfterEnv, AfterUnit
<1>5. PurgeInv
  BY DEF HostInit, IdentityInit, PurgeInv, Present, Removing, Purged
<1> QED
  BY <1>3, <1>4, <1>5 DEF HostInv

LEMMA HostAlways == HostSpec => []HostInv
<1>1. HostInit => HostInv
  BY HostInitially
<1>2. HostInv /\ [HostNext]_hvars => HostInv'
  BY HostStep
<1> QED
  BY <1>1, <1>2, PTL DEF HostSpec

\* The host is well typed, and everything install was to put in place is there
\* when it looks at the result, whatever the service, systemd and earlier
\* commands did.
THEOREM HostTypeCorrect == HostSpec => []HostTypeOK
<1>1. HostInv => HostTypeOK
  <2> SUFFICES ASSUME HostInv PROVE HostTypeOK
    OBVIOUS
  <2>1. {user, member, bin, unit, clean, warned, orderly} \subseteq BOOLEAN
    BY DEF HostInv, HostTypes, PlaceTypes, MemoTypes, RemovalTypes
  <2>2. inst \in {"probe", "verify", "seen"}
          => Launchable /\ env = given /\ caFile = Written(caPEM)
    BY DEF HostInv, InstallInv, Launchable, AfterUser, AfterMember, AfterBin, AfterDir, AfterCA,
           AfterChown, AfterEnv, AfterUnit
  <2> QED
    BY <2>1, <2>2 DEF HostInv, HostTypes, HostTypeOK, PlaceTypes, MemoTypes, RemovalTypes
<1> QED
  BY <1>1, HostAlways, PTL

\* After an uninstall --purge of what was installed that stopped the service and
\* in which no call failed, directory and configuration are gone; and without the
\* directory no key or certificate is there or can come back, even if an agent
\* that could not be stopped goes on.
THEOREM PurgedIsClean == HostSpec => []PurgeIsClean
<1>1. HostInv => PurgeIsClean
  BY DEF HostInv, PurgeInv, PurgeIsClean, Purged
<1> QED
  BY <1>1, HostAlways, PTL

-----------------------------------------------------------------------------
(* What install found out about an identity it has not seen before.        *)

\* On a host where install found no certificate and no agent at work, every
\* identity there is since was made under the authority install wrote: first
\* nothing can be made, because ca.crt is cut short; then an enrollment takes
\* the authority from that file; a certificate is only had from a platform with
\* that authority; and no interval passes before the command ends.
CleanInv ==
  clean =>
    /\ inst \in {"write"} \cup AfterCA
    /\ inst = "write" => certFile = NoCert /\ pc \in {"off", "wait", "load"} /\ caFile = Garbled
    /\ certFile # NoCert =>
         keyFile = certFile.key /\ certFile.left = Ttl /\ certFile.ca = caPEM
    /\ pc \in {"enroll", "key", "cert"} => certFile = NoCert
    /\ pc \in {"enroll", "key", "cert", "run"} => pool = caPEM
    /\ pc \in {"key", "cert", "run"} => cert.ca = pool /\ cert.left = Ttl
    /\ pc \in {"cert", "run"} => keyFile = key
    /\ pc = "run" => certFile # NoCert

LEMMA CleanServe ==
  ASSUME HostInv, CleanInv, Service
  PROVE  CleanInv'
<1> USE DEF CleanInv
<1>0. UNCHANGED <<inst, caPEM, clean, caFile>>
  BY ServiceWrites DEF others, memo
<1> SUFFICES ASSUME clean PROVE CleanInv'
  BY <1>0
<1>1. /\ TypeOK /\ inst \in {"write"} \cup AfterCA
      /\ inst \in AfterCA => caFile = Written(caPEM)
      /\ UNCHANGED <<inst, caPEM, clean, caFile>>
  BY <1>0 DEF HostInv, HostTypes, InstallInv
<1>2. ~Tick \/ ~Idle
  BY <1>1 DEF Idle, AfterCA, AfterChown, AfterEnv, AfterUnit
<1>3. ASSUME UNCHANGED <<keyFile, certFile, pool, key, cert>>, pc' \in {pc, "off", "wait", "load"}
      PROVE  CleanInv'
  BY <1>1, <1>3
<1>4. ASSUME UNCHANGED <<keyFile, certFile>>, pc' \in {"off", "wait", "load"}
      PROVE  CleanInv'
  BY <1>1, <1>4
<1>5. CASE Reuse
  BY <1>1, <1>5 DEF Reuse, Loads, Stored, disk, AfterCA, Written
<1>6. CASE BeginEnroll
  <2>1. caFile \notin {Absent, Garbled} /\ inst \in AfterCA /\ caFile = caPEM
    BY <1>1, <1>6 DEF BeginEnroll, MayEnroll, Written
  <2>2. certFile = NoCert
    <3> SUFFICES ASSUME certFile # NoCert PROVE FALSE
      OBVIOUS
    <3>1. certFile.key \in Keys /\ keyFile = certFile.key /\ certFile.left = Ttl
      BY <1>1 DEF TypeOK, Certs
    <3>2. Stored
      BY <2>1, <3>1, KeyAssumption DEF Stored
    <3> QED
      BY <1>6, <3>1, <3>2, TtlAssumption DEF BeginEnroll, MayEnroll
  <2> QED
    BY <1>1, <1>6, <2>1, <2>2 DEF BeginEnroll, disk, AfterCA, AfterChown, AfterEnv, AfterUnit
<1>7. CASE Enroll
  BY <1>1, <1>7 DEF Enroll, ServerTrusted, SignCSR, disk
<1>8. CASE WriteKey
  BY <1>1, <1>8 DEF WriteKey, mem
<1>9. CASE WriteCert
  BY <1>1, <1>9 DEF WriteCert, mem, TypeOK
<1>10. CASE Renew
  BY <1>1, <1>10 DEF Renew, Renewable, Handshake, ServerTrusted, SignCSR, disk
<1>11. CASE RenewWrite
  BY <1>1, <1>11 DEF RenewWrite, mem, TypeOK
<1>12. CASE LoadFails \/ EnrollFails \/ WriteFails \/ Crash \/ Stop \/ ShipRefused \/ WriteDenied
  BY <1>12, <1>4 DEF LoadFails, EnrollFails, WriteFails, Crash, Stop, ShipRefused, WriteDenied,
                     Fail, Gone, disk
<1>13. CASE CheckOnly \/ RenewFails \/ RenewWriteFails \/ Ship \/ Disconnect
            \/ PlatformChanges \/ RenewDenied \/ EnsureCertDir
  BY <1>13, <1>3 DEF CheckOnly, RenewFails, RenewWriteFails, Ship, Disconnect,
                     PlatformChanges, RenewDenied, EnsureCertDir, idvars, disk, mem
<1>14. CASE Restart \/ Start
  BY <1>14, <1>3 DEF Restart, Start, Launch, disk
<1> QED
  BY <1>2, <1>5, <1>6, <1>7, <1>8, <1>9, <1>10, <1>11, <1>12, <1>13, <1>14
     DEF Service, Serve, Happens

LEMMA CleanStep ==
  ASSUME HostInv, CleanInv, [HostNext]_hvars
  PROVE  CleanInv'
<1> USE DEF CleanInv, AfterCA, AfterChown, AfterEnv, AfterUnit
<1>1. CASE TruncateCA
  BY <1>1 DEF TruncateCA, Active, HostInv, HostTypes, TypeOK, proc
<1>2. CASE WriteCA
  BY <1>2 DEF WriteCA, proc, mem, memo
<1>3. ASSUME ~clean' PROVE CleanInv'
  BY <1>3
<1>4. ASSUME UNCHANGED <<keyFile, certFile, pc, mem, caPEM, clean>>, inst' \in AfterCA
      PROVE  CleanInv'
  <2>1. inst' # "write"
    BY <1>4
  <2> QED
    BY <1>4, <2>1 DEF mem
<1>5. CASE ChownTree \/ WriteEnv \/ WriteUnit \/ CheckActive
  BY <1>5, <1>4 DEF ChownTree, WriteEnv, WriteUnit, CheckActive, idvars, disk, proc, memo
<1>6. CASE EnableNow
  BY <1>6 DEF EnableNow, Launch, idvars, disk, mem, memo
<1>7. CASE Probe \/ CheckCert
  <2>1. UNCHANGED <<keyFile, certFile, pc, mem>>
    BY <1>7 DEF Probe, CheckCert, idvars, disk
  <2>2. ~clean' \/ (UNCHANGED <<caPEM, clean>> /\ inst' = "verify")
    BY <1>7 DEF Probe, CheckCert, Ends, memo
  <2> QED
    BY <1>3, <1>4, <2>1, <2>2
<1>8. CASE VerifyTimeout \/ Interrupted
  BY <1>8, <1>3 DEF VerifyTimeout, Interrupted, Ends
<1>9. CASE EnsureUser \/ EnsureUserInGroup \/ CopyExecutable \/ MakeStateDir \/ ObtainCA
  BY <1>9, <1>3 DEF EnsureUser, EnsureUserInGroup, CopyExecutable, MakeStateDir, ObtainCA, memo
<1>10. CASE RunUninstall
  BY <1>10, <1>3 DEF RunUninstall, DisableNow, RemoveUnit, RemoveBinary, ReadNames, Unlink,
                     RemoveCertDir, RemoveStateDir, RemoveEnv, DeleteUser, memo
<1>11. CASE \E token \in {"good", "bad"} : Install(token)
  BY <1>11, <1>3 DEF Install, Idle
<1>12. CASE \E p \in {"no", "ours", "elsewhere"} : Uninstall(p)
  BY <1>12, <1>3 DEF Uninstall, Idle, memo
<1>13. CASE UNCHANGED hvars
  BY <1>13 DEF hvars, host, idvars, disk, mem, memo
<1> QED
  BY <1>1, <1>2, <1>5, <1>6, <1>7, <1>8, <1>9, <1>10, <1>11, <1>12, <1>13, CleanServe
     DEF HostNext, RunInstall, Service

LEMMA CleanAlways == HostSpec => [](HostInv /\ CleanInv)
<1>1. HostInit => HostInv /\ CleanInv
  BY HostInitially DEF HostInit, CleanInv
<1>2. HostInv /\ CleanInv /\ [HostNext]_hvars => HostInv' /\ CleanInv'
  BY HostStep, CleanStep
<1> QED
  BY <1>1, <1>2, PTL DEF HostSpec

\* A command reports success by CheckCert only.
LEMMA OnlyCheckCert ==
  ASSUME [HostNext]_hvars, inst = "seen", inst' = "done"
  PROVE  certFile # NoCert /\ UNCHANGED <<idvars, place>>
<1>1. ~Service
  BY ServiceWrites DEF others
<1>2. ~UNCHANGED hvars
  BY DEF hvars, host
<1>3. /\ ~(\E token \in {"good", "bad"} : Install(token))
      /\ ~(\E p \in {"no", "ours", "elsewhere"} : Uninstall(p))
  BY DEF Install, Uninstall, Idle
<1>4. ~RunUninstall /\ ~VerifyTimeout /\ ~Interrupted
  BY DEF RunUninstall, DisableNow, RemoveUnit, RemoveBinary, ReadNames, Unlink, RemoveCertDir,
         RemoveStateDir, RemoveEnv, DeleteUser, VerifyTimeout, Interrupted, Ends
<1>5. RunInstall
  BY <1>1, <1>2, <1>3, <1>4 DEF HostNext, Service
<1>6. CheckCert
  BY <1>5 DEF RunInstall, EnsureUser, EnsureUserInGroup, CopyExecutable, MakeStateDir, ObtainCA,
              TruncateCA, WriteCA, ChownTree, WriteEnv, WriteUnit, EnableNow, Probe, CheckActive
<1> QED
  BY <1>6 DEF CheckCert

LEMMA VerifiedIdentity ==
  ASSUME HostInv, CleanInv, inst = "seen", clean, certFile # NoCert
  PROVE  Loads /\ Valid(certFile) /\ certFile.ca = caPEM
<1>1. certFile \in Certs /\ caFile = Written(caPEM)
  BY DEF HostInv, HostTypes, TypeOK, InstallInv, AfterCA, AfterChown, AfterEnv, AfterUnit
<1>2. keyFile = certFile.key /\ certFile.left = Ttl /\ certFile.ca = caPEM
  BY <1>1 DEF CleanInv
<1>3. certFile.key \in Keys /\ certFile.ca \in 1..MaxCa
  BY <1>1 DEF Certs
<1>4. Loads
  BY <1>1, <1>2, <1>3, KeyAssumption, Markers DEF Loads, Stored, Written
<1>5. Valid(certFile)
  BY <1>1, <1>2, TtlAssumption DEF Valid
<1> QED
  BY <1>2, <1>4, <1>5

\* When install reports success on a host that had no certificate, the identity
\* on disk loads, has not expired, and was signed by the authority it pinned.
THEOREM InstallVerifies == HostSpec => VerifiedEnrolled
<1>1. HostInv /\ CleanInv /\ [HostNext]_hvars
        => [inst = "seen" /\ inst' = "done" /\ clean
              => Loads /\ Valid(certFile) /\ certFile.ca = caPEM]_hvars
  BY OnlyCheckCert, VerifiedIdentity
<1> QED
  BY <1>1, CleanAlways, PTL DEF HostSpec, VerifiedEnrolled

\* What install reports as a success, doctor finds no fault with, if the user was
\* given the default name, which is the one doctor looks for.
THEOREM DoctorConfirms == DefaultUser => (HostSpec => DoctorAgrees)
<1>1. DefaultUser /\ HostInv /\ CleanInv /\ [HostNext]_hvars
        => [inst = "seen" /\ inst' = "done" /\ clean /\ ~warned /\ Active => Doctor]_hvars
  <2> SUFFICES ASSUME DefaultUser, HostInv, CleanInv, [HostNext]_hvars,
                      inst = "seen", inst' = "done", clean, ~warned, Active
               PROVE  Doctor
    OBVIOUS
  <2>1. Valid(certFile)
    BY OnlyCheckCert, VerifiedIdentity
  <2>2. bin /\ user /\ member /\ env = given /\ given # "absent"
    BY DEF HostInv, HostTypes, MemoTypes, InstallInv, AfterUser, AfterMember, AfterBin,
           AfterDir, AfterCA, AfterChown, AfterEnv, AfterUnit
  <2> QED
    BY <2>1, <2>2 DEF Doctor
<1>2. HostSpec => [](HostInv /\ CleanInv)
  BY CleanAlways
<1>3. ASSUME DefaultUser
      PROVE  HostSpec => DoctorAgrees
  <2>1. HostInv /\ CleanInv /\ [HostNext]_hvars
        => [inst = "seen" /\ inst' = "done" /\ clean /\ ~warned /\ Active => Doctor]_hvars
    BY <1>1, <1>3
  <2> QED
    BY <1>2, <2>1, PTL DEF HostSpec, DoctorAgrees
<1> QED
  BY <1>3

=============================================================================
