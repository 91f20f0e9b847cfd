------------------------------ MODULE Onboard -------------------------------
(***************************************************************************)
(* A host from the operator's side (cmd/agent/onboard.go): the commands    *)
(* install and uninstall, one at a time, composed with the service they    *)
(* set up (Identity) and the platform it enrolls with (Platform).          *)
(*                                                                         *)
(* A command is a sequence of system calls and may be interrupted before   *)
(* each of them; `inst' is the next one.  Meanwhile systemd and the agent  *)
(* go on.  A command takes seconds, so no Tick falls into one.             *)
(***************************************************************************)
EXTENDS Identity

CONSTANT DefaultUser  \* every install is given the default --user

ASSUME DefaultUserAssumption == DefaultUser \in BOOLEAN

VARIABLES
  user, member,  \* the service user, and its membership of systemd-journal
  bin, unit,     \* the binary and the unit file are in place
  dir,       \* the state directory: none, root's, the agent's with certs/, or bare of it
  inst,      \* the step of the command in progress, or how the last one ended
  given,     \* --token
  caPEM,     \* the authority install obtained
  purge,     \* --purge: no, of what was installed (ours), or of another --state-dir
             \* and --user, the defaults say (elsewhere)
  listed,    \* the names os.RemoveAll has read from certs/ and not yet dealt with
  clean,     \* history: install found no certificate and no agent at work
  warned,    \* history: it could not add the user to the group
  orderly    \* history: uninstall stopped the service, and no call of it failed

place == <<user, member, bin, unit, dir>>
memo == <<given, caPEM, clean, warned>>
removal == <<purge, listed, orderly>>
host == <<place, inst, memo, removal>>
proc == <<pc, mem, ren, conn, checked, gap, unwritten>>
hvars == <<idvars, host>>

Idle == inst \in {"idle", "done", "failed", "gone"}
Active == pc \notin {"off", "wait"}

\* The files in certs/.
Present ==
  (IF keyFile = NoKey THEN {} ELSE {"key"}) \cup (IF certFile = NoCert THEN {} ELSE {"cert"})
    \cup (IF caFile = Absent THEN {} ELSE {"ca"})

\* The command ends, and what it held in memory is gone.
Ends(how) ==
  /\ inst' = how
  /\ given' = "none" /\ caPEM' = Absent /\ clean' = FALSE /\ warned' = FALSE
  /\ purge' = "no" /\ listed' = {} /\ orderly' = TRUE

-----------------------------------------------------------------------------
\* install.

\* runInstall up to requireRoot.
Install(token) ==
  /\ Idle
  /\ IF token = "good" /\ inst # "done" THEN UNCHANGED faults ELSE Fault
  /\ inst' = "user" /\ given' = token
  /\ purge' = "no" /\ orderly' = TRUE
  /\ UNCHANGED <<platform, disk, proc, place, caPEM, clean, warned, listed>>

\* Mutant: a user that exists is not added to the group.
EnsureUserOnce ==
  /\ inst = "user"
  /\ user' = TRUE /\ inst' = IF user THEN "bin" ELSE "group"
  /\ UNCHANGED <<idvars, member, bin, unit, dir, memo, removal>>

EnsureUser ==
  /\ inst = "user"
  /\ user' = TRUE /\ inst' = "group"
  /\ UNCHANGED <<idvars, member, bin, unit, dir, memo, removal>>

\* An error is no more than a warning.
EnsureUserInGroup ==
  /\ inst = "group"
  /\ inst' = "bin"
  /\ \/ member' = TRUE /\ warned' = FALSE /\ UNCHANGED faults
     \/ member' = member /\ warned' = TRUE /\ Fault
  /\ UNCHANGED <<platform, disk, proc, user, bin, unit, dir, given, caPEM, clean, removal>>

CopyExecutable ==
  /\ inst = "bin"
  /\ bin' = TRUE /\ inst' = "dir"
  /\ UNCHANGED <<idvars, user, member, unit, dir, memo, removal>>

\* Mutant: a directory that an earlier install made is an error.
MakeStateDirAnew ==
  /\ inst = "dir"
  /\ \/ /\ dir = "none" /\ dir' = "root"
        /\ inst' = "ca" /\ UNCHANGED <<memo, removal>>
     \/ dir # "none" /\ UNCHANGED dir /\ Ends("failed")
  /\ UNCHANGED <<idvars, user, member, bin, unit>>

\* What is there keeps its owner; a new certs/ is root's.
MakeStateDir ==
  /\ inst = "dir"
  /\ dir' = IF dir = "agent" THEN dir ELSE "root"
  /\ inst' = "ca"
  /\ UNCHANGED <<idvars, user, member, bin, unit, memo, removal>>

\* obtainCA: fetched from the platform, or read from a file that is not looked
\* into: an authority of another time, no certificate, or nothing (Absent).
ObtainCA ==
  /\ inst = "ca"
  /\ \/ reach /\ caPEM' = ca /\ UNCHANGED faults
     \/ Fault /\ caPEM' \in (1..ca) \cup {Garbled, Absent}
  /\ inst' = "truncate"
  /\ UNCHANGED <<platform, disk, proc, place, given, clean, warned, removal>>

\* os.WriteFile empties ca.crt and then writes it.
TruncateCA ==
  /\ inst = "truncate"
  /\ caFile' = Garbled /\ inst' = "write"
  /\ clean' = (certFile = NoCert /\ ~Active)
  /\ UNCHANGED <<platform, keyFile, certFile, env, proc, faults, place, given, caPEM, warned,
                 removal>>

\* An empty ca.crt holds no certificate.
Written(pem) == IF pem = Absent THEN Garbled ELSE pem

\* Mutant: the directory is left to root.
WriteCAUnowned ==
  /\ inst = "write"
  /\ caFile' = Written(caPEM) /\ inst' = "env"
  /\ UNCHANGED <<platform, keyFile, certFile, env, proc, faults, place, memo, removal>>

WriteCA ==
  /\ inst = "write"
  /\ caFile' = Written(caPEM) /\ inst' = "chown"
  /\ UNCHANGED <<platform, keyFile, certFile, env, proc, faults, place, memo, removal>>

ChownTree ==
  /\ inst = "chown"
  /\ dir' = "agent" /\ inst' = "env"
  /\ UNCHANGED <<idvars, user, member, bin, unit, memo, removal>>

WriteEnv ==
  /\ inst = "env"
  /\ env' = given /\ inst' = "unit"
  /\ UNCHANGED <<platform, keyFile, certFile, caFile, proc, faults, place, memo, removal>>

WriteUnit ==
  /\ inst = "unit"
  /\ unit' = TRUE /\ inst' = "enable"
  /\ UNCHANGED <<idvars, user, member, bin, dir, memo, removal>>

\* systemctl enable --now starts a service that is not active, and leaves one
\* that is as it is.
EnableNow ==
  /\ inst = "enable"
  /\ inst' = "probe"
  /\ IF Active THEN UNCHANGED idvars ELSE Launch /\ UNCHANGED faults
  /\ UNCHANGED <<place, memo, removal>>

\* probeTLS verifies the server against the authority it is given, or nothing
\* when it is given none.
ProbeTLS(pem) == ServerTrusted(pem) \/ (pem = Absent /\ reach)

\* verifyInstall, first the probe with the authority just obtained.
Probe ==
  /\ inst = "probe"
  /\ \/ ProbeTLS(caPEM) /\ inst' = "verify" /\ UNCHANGED <<memo, removal>>
     \/ ~ProbeTLS(caPEM) /\ Ends("failed")
  /\ UNCHANGED <<idvars, place>>

\* Then, in turn: the service is active (Type=simple: its process was started),
CheckActive ==
  /\ inst = "verify" /\ Active
  /\ inst' = "seen"
  /\ UNCHANGED <<idvars, place, memo, removal>>

\* Mutant: an active service is taken for an enrolled one.
CheckCertNot ==
  /\ inst = "seen"
  /\ Ends("done")
  /\ UNCHANGED <<idvars, place>>

\* and client.crt is there.
CheckCert ==
  /\ inst = "seen"
  /\ \/ certFile # NoCert /\ Ends("done")
     \/ certFile = NoCert /\ inst' = "verify" /\ UNCHANGED <<memo, removal>>
  /\ UNCHANGED <<idvars, place>>

\* 25 s have passed: the agent has failed, has nothing left to write, or was too
\* slow.
VerifyTimeout ==
  /\ inst = "verify" \/ (inst = "seen" /\ certFile = NoCert)
  /\ IF ~Active \/ (pc = "run" /\ certFile = NoCert) THEN UNCHANGED faults ELSE Fault
  /\ Ends("failed")
  /\ UNCHANGED <<platform, disk, proc, place>>

\* The command is killed or a call of it fails; the fetch of the authority does
\* when the platform is away.  An environment file cut short configures nothing.
Interrupted ==
  /\ ~Idle
  /\ IF inst = "ca" /\ ~reach THEN UNCHANGED faults ELSE Fault
  /\ env' \in IF inst = "env" THEN {env, "absent"} ELSE {env}
  /\ Ends("failed")
  /\ UNCHANGED <<platform, keyFile, certFile, caFile, proc, place>>

-----------------------------------------------------------------------------
\* uninstall, which ignores every error.

Uninstall(p) ==
  /\ Idle
  /\ inst' = "disable" /\ purge' = p /\ orderly' = TRUE
  /\ UNCHANGED <<idvars, place, memo, listed>>

\* Mutant: systemctl disable without --now.
DisableOnly ==
  /\ inst = "disable"
  /\ inst' = "remove"
  /\ orderly' = (unit \/ ~Active)
  /\ UNCHANGED <<idvars, place, memo, purge, listed>>

\* systemctl disable --now; without a unit file there is nothing it would stop.
DisableNow ==
  /\ inst = "disable"
  /\ inst' = "remove"
  /\ \/ /\ unit /\ Gone("off")
        /\ UNCHANGED <<checked, faults, orderly>>
     \/ /\ IF unit THEN Fault ELSE UNCHANGED faults
        /\ orderly' = (~unit /\ ~Active)
        /\ UNCHANGED <<pc, mem, ren, conn, checked>>
  /\ UNCHANGED <<platform, disk, gap, unwritten, place, memo, purge, listed>>

\* A removal, or its failure, which nobody is told of.
Try(removed, kept) ==
  \/ removed /\ UNCHANGED <<orderly, faults>>
  \/ kept /\ orderly' = FALSE /\ Fault

RemoveUnit ==
  /\ inst = "remove"
  /\ inst' = "unlink"
  /\ Try(unit' = FALSE, UNCHANGED unit)
  /\ UNCHANGED <<platform, disk, proc, user, member, bin, dir, memo, purge, listed>>

RemoveBinary ==
  /\ inst = "unlink"
  /\ inst' = CASE purge = "no" -> "gone"
               [] purge = "ours" -> "purge"
               [] purge = "elsewhere" -> "unconfigure"
  /\ Try(bin' = FALSE, UNCHANGED bin)
  /\ UNCHANGED <<platform, disk, proc, user, member, unit, dir, memo, purge, listed>>

\* os.RemoveAll of the state directory reads the names in certs/,
ReadNames ==
  /\ inst = "purge"
  /\ inst' = "sweep" /\ listed' = Present
  /\ UNCHANGED <<idvars, place, memo, purge, orderly>>

\* unlinks one after the other,
Unlink(name) ==
  /\ inst = "sweep"
  /\ listed' = listed \ {name}
  /\ Try(/\ keyFile' = IF name = "key" THEN NoKey ELSE keyFile
         /\ certFile' = IF name = "cert" THEN NoCert ELSE certFile
         /\ caFile' = IF name = "ca" THEN Absent ELSE caFile,
         UNCHANGED <<keyFile, certFile, caFile>>)
  /\ UNCHANGED <<platform, env, proc, place, inst, memo, purge>>

\* An rmdir goes wrong if something is in the directory, as there may be at any
\* time beside an agent at work, or for a reason of its own.
Refused ==
  /\ UNCHANGED dir
  /\ \/ (Active \/ Present # {}) /\ UNCHANGED <<orderly, faults>>
     \/ orderly' = FALSE /\ Fault

\* and removes certs/
RemoveCertDir ==
  /\ inst = "sweep" /\ listed = {}
  /\ inst' = "rmdir"
  /\ \/ /\ Present = {}
        /\ dir' = IF dir = "agent" THEN "bare" ELSE dir
        /\ UNCHANGED <<orderly, faults>>
     \/ Refused
  /\ UNCHANGED <<platform, disk, proc, user, member, bin, unit, memo, purge, listed>>

\* and the directory itself.
RemoveStateDir ==
  /\ inst = "rmdir"
  /\ inst' = "unconfigure"
  /\ \/ /\ Present = {} /\ dir # "agent"
        /\ dir' = "none"
        /\ UNCHANGED <<orderly, faults>>
     \/ dir = "agent" /\ UNCHANGED <<dir, orderly, faults>>
     \/ Refused
  /\ UNCHANGED <<platform, disk, proc, user, member, bin, unit, memo, purge, listed>>

RemoveEnv ==
  /\ inst = "unconfigure"
  /\ inst' = "userdel"
  /\ Try(env' = "absent", UNCHANGED env)
  /\ UNCHANGED <<platform, keyFile, certFile, caFile, proc, place, memo, purge, listed>>

\* userdel refuses to remove a user with a process.
DeleteUser ==
  /\ inst = "userdel"
  /\ inst' = "gone"
  /\ \/ purge = "ours" /\ ~Active /\ user' = FALSE /\ member' = FALSE /\ UNCHANGED faults
     \/ /\ UNCHANGED <<user, member>>
        /\ IF purge = "ours" /\ ~Active THEN Fault ELSE UNCHANGED faults
  /\ UNCHANGED <<platform, disk, proc, bin, unit, dir, memo, removal>>

-----------------------------------------------------------------------------
\* The service, as far as what the commands did lets it.

Launchable == bin /\ unit /\ user /\ dir = "agent"

\* certs/ was removed under a running agent.
WriteDenied ==
  /\ pc \in {"key", "cert"} /\ dir # "agent"
  /\ Fail
  /\ UNCHANGED <<platform, disk, gap, unwritten, faults, host>>

RenewDenied ==
  /\ pc = "run" /\ ren = "write" /\ dir # "agent"
  /\ ren' = "idle" /\ checked' = TRUE /\ unwritten' = TRUE
  /\ UNCHANGED <<platform, disk, pc, mem, conn, gap, faults, host>>

\* EnsureCertDir, which comes after ca.crt was read: only certs/ can be made
\* again by the agent, the directory above it cannot.
EnsureCertDir ==
  /\ pc \in {"load", "enroll"} /\ tok # "none" /\ dir = "bare"
  /\ dir' = "agent"
  /\ UNCHANGED <<idvars, user, member, bin, unit, inst, memo, removal>>

Serve ==
  /\ \/ Reuse \/ BeginEnroll \/ LoadFails \/ Enroll \/ EnrollFails
     \/ CheckOnly \/ Renew \/ RenewFails
     \/ dir = "agent" /\ (WriteKey \/ WriteCert \/ WriteFails \/ RenewWrite \/ RenewWriteFails)
     \/ Launchable /\ Restart
  /\ UNCHANGED host

Happens ==
  /\ \/ Ship \/ ShipRefused \/ Disconnect \/ Crash \/ PlatformChanges
     \/ unit /\ Stop
     \/ Launchable /\ inst # "remove" /\ Start
     \/ Idle /\ Tick
  /\ UNCHANGED host

-----------------------------------------------------------------------------
HostInit ==
  /\ IdentityInit
  /\ env = "absent" /\ caFile = Absent /\ pc = "off"
  /\ user = FALSE /\ member = FALSE /\ bin = FALSE /\ unit = FALSE /\ dir = "none"
  /\ inst = "idle" /\ given = "none" /\ caPEM = Absent
  /\ purge = "no" /\ listed = {} /\ orderly = TRUE
  /\ clean = FALSE /\ warned = FALSE

RunInstall ==
  \/ EnsureUser \/ EnsureUserInGroup \/ CopyExecutable \/ MakeStateDir \/ ObtainCA
  \/ TruncateCA \/ WriteCA \/ ChownTree \/ WriteEnv \/ WriteUnit \/ EnableNow
  \/ Probe \/ CheckActive \/ CheckCert

RunUninstall ==
  \/ DisableNow \/ RemoveUnit \/ RemoveBinary
  \/ ReadNames \/ (\E name \in listed : Unlink(name)) \/ RemoveCertDir \/ RemoveStateDir
  \/ RemoveEnv \/ DeleteUser

HostNext ==
  \/ \E token \in {"good", "bad"} : Install(token)
  \/ RunInstall \/ VerifyTimeout \/ Interrupted
  \/ \E p \in {"no", "ours", "elsewhere"} : Uninstall(p)
  \/ RunUninstall
  \/ WriteDenied \/ RenewDenied \/ EnsureCertDir \/ Serve \/ Happens

HostSpec == HostInit /\ [][HostNext]_hvars

\* Commands, the agent and systemd make progress; the deadline of verifyInstall
\* is met again and again while the agent keeps failing; a platform that is
\* away comes back; and an operator whose install failed runs it again.
HostFairness ==
  /\ WF_hvars(RunInstall) /\ WF_hvars(RunUninstall)
  /\ SF_hvars(VerifyTimeout) /\ WF_hvars(inst = "ca" /\ Interrupted)
  /\ WF_hvars(Serve) /\ WF_hvars(WriteDenied \/ RenewDenied)
  /\ WF_hvars(Return /\ PlatformChanges /\ UNCHANGED host)
  /\ WF_hvars(inst = "failed" /\ Install("good"))

HostFairSpec == HostSpec /\ HostFairness

-----------------------------------------------------------------------------
\* Properties.

\* The host's state is well typed; and by the time install looks at the result,
\* everything it was to put in place is there, whatever the agent, systemd or
\* an earlier command did.
HostTypeOK ==
  /\ TypeOK
  /\ {user, member, bin, unit, clean, warned, orderly} \subseteq BOOLEAN
  /\ purge \in {"no", "ours", "elsewhere"} /\ listed \subseteq {"key", "cert", "ca"}
  /\ dir \in {"none", "root", "agent", "bare"} /\ given \in {"none", "bad", "good"}
  /\ caPEM \in Absent..Garbled
  /\ inst \in {"probe", "verify", "seen"} =>
       Launchable /\ env = given /\ caFile = Written(caPEM)

\* "install [...] verifies connectivity + enrollment before returning", on a
\* host that had no certificate: when install reports success, the identity on
\* disk loads, has not expired and was signed by the authority it pinned.
VerifiedEnrolled ==
  [][inst = "seen" /\ inst' = "done" /\ clean
       => Loads /\ Valid(certFile) /\ certFile.ca = caPEM]_hvars

\* The same, on any host.
InstallMeansEnrolled ==
  [][inst = "seen" /\ inst' = "done" => certFile.ca = caPEM]_hvars

\* runDoctor without the checks of the network.  It looks for the user of the
\* default name.
Doctor ==
  bin /\ DefaultUser /\ user /\ member /\ env # "absent" /\ Valid(certFile) /\ Active

\* What install reports as a success, doctor finds no fault with, unless
\* install has warned about the group or the agent has failed since it was seen
\* active; also when it completes an install that was interrupted.
DoctorAgrees ==
  [][inst = "seen" /\ inst' = "done" /\ clean /\ ~warned /\ Active => Doctor]_hvars

\* After uninstall --purge of what was installed, the state directory and the
\* configuration with the token are gone if the service was stopped and no call
\* failed; and wherever the directory is gone, so are the private key and the
\* certificates, for good, even if an agent that could not be stopped goes on
\* enrolling or renewing.
PurgeIsClean ==
  inst = "gone" /\ purge = "ours" =>
    /\ orderly => dir = "none" /\ env = "absent"
    /\ dir = "none" => Present = {}

\* "--purge also removes state + user" (runUninstall): what is gone when it ends
\* does not come back.
PurgeRemoves ==
  [][inst = "gone" /\ purge = "ours" /\ Present = {} => Present' = {}]_hvars

\* An agent that goes on although its files were purged.
Orphaned == pc = "run" /\ (keyFile = NoKey \/ certFile = NoCert)

\* Whatever an install left behind when it was interrupted, running it again
\* succeeds in the end; not for a revoked agent, not over a torn pair, and not
\* next to an agent that an uninstall failed to stop.
InstallRetried ==
  inst = "failed" ~> (inst \in {"done", "gone"} \/ revoked \/ Torn \/ Orphaned)
=============================================================================
