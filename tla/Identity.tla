------------------------------ MODULE Identity ------------------------------
(***************************************************************************)
(* The agent's mTLS identity over its lifetime (internal/enroll, and what  *)
(* cmd/agent does with it): enrollment and re-enrollment at a start, the   *)
(* renewal loop, deliveries that are accepted or refused, under a systemd  *)
(* unit that starts a failed agent again.                                  *)
(*                                                                         *)
(* What the agent does by itself, starts included, takes seconds; a Tick   *)
(* is one RenewCheckInterval, hours.  So a Tick waits until the process is *)
(* at rest: running with this interval's check made, stopped, or failed in *)
(* this interval.                                                          *)
(***************************************************************************)
EXTENDS Platform

CONSTANTS
  NoCert,       \* no certificate file
  RenewBefore,  \* the lead time of a renewal, in check intervals
  MaxFaults     \* bound: crashes, outages, stops, lost replies, failed writes

ASSUME NoCertAssumption == NoCert \notin Certs
ASSUME RenewAssumption == RenewBefore \in 0..(Ttl - 1)
ASSUME FaultAssumption == MaxFaults \in Nat

Absent == 0          \* no ca.crt
Garbled == MaxCa + 1 \* a ca.crt that holds no certificate

VARIABLES
  keyFile, certFile, caFile,  \* client.key, client.crt, ca.crt
  env,      \* AGENT_ENROLL_TOKEN in the unit's environment file
  pc,       \* the process: off, wait (to be restarted), load, enroll, key, cert, run
  tok,      \* the token the process was started with
  pool,     \* its pinned authority
  key, cert,  \* its identity; before "run", the one it is enrolling
  ren,      \* the renewal loop: idle, or about to rewrite client.crt
  conn,     \* the shipper has an open connection
  checked,  \* this interval's check, or a start that failed, is behind us
  gap,      \* history: intervals since a check that the platform would have served
  unwritten,  \* history: the newest certificate could not be written
  faults

disk == <<keyFile, certFile, caFile, env>>
mem == <<tok, pool, key, cert>>
idvars == <<platform, disk, pc, mem, ren, conn, checked, gap, unwritten, faults>>

Fault == faults < MaxFaults /\ faults' = faults + 1

-----------------------------------------------------------------------------
\* EnsureIdentity.

Valid(c) == c # NoCert /\ c.left > 0

Stored == keyFile # NoKey /\ certFile # NoCert /\ caFile # Absent

\* X509KeyPair and CAPool succeed on what is stored.
Loads == Stored /\ certFile.key = keyFile /\ caFile # Garbled

\* The process ends, and what it held in memory is gone.
Gone(where) ==
  /\ pc' = where /\ ren' = "idle" /\ conn' = FALSE
  /\ tok' = "none" /\ pool' = Absent /\ key' = NoKey /\ cert' = NoCert

\* It ends with an error; the unit's Restart=on-failure applies.
Fail == Gone("wait") /\ checked' = TRUE

\* The stored certificate is still valid.
Reuse ==
  /\ pc = "load" /\ Loads /\ certFile.left > 0
  /\ pc' = "run" /\ pool' = caFile /\ key' = keyFile /\ cert' = certFile
  /\ checked' = FALSE
  /\ UNCHANGED <<platform, disk, tok, ren, conn, gap, unwritten, faults>>

\* Mutant: a certificate that is due is replaced as well.
MayEnrollEarly ==
  /\ Stored => Loads /\ certFile.left <= RenewBefore
  /\ caFile \notin {Absent, Garbled}
  /\ tok # "none"

\* Mutant: an expired certificate is not replaced.
MayEnrollOnce ==
  /\ ~Stored
  /\ caFile \notin {Absent, Garbled}
  /\ tok # "none"

MayEnroll ==
  /\ Stored => Loads /\ certFile.left = 0
  /\ caFile \notin {Absent, Garbled}
  /\ tok # "none"

\* Nothing is stored, or it has expired: a new key, and its request.
BeginEnroll ==
  /\ pc = "load" /\ MayEnroll
  /\ pc' = "enroll" /\ pool' = caFile
  /\ key' \in Keys \ {keyFile}
  /\ UNCHANGED <<platform, disk, tok, cert, ren, conn, checked, gap, unwritten, faults>>

\* The stored pair does not load, or there is no authority or no token.
LoadFails ==
  /\ pc = "load"
  /\ ~(Loads /\ certFile.left > 0) /\ ~MayEnroll
  /\ Fail
  /\ UNCHANGED <<platform, disk, gap, unwritten, faults>>

\* postCSR
Enroll ==
  /\ pc = "enroll"
  /\ ServerTrusted(pool) /\ EnrollGranted(tok)
  /\ pc' = "key" /\ cert' = SignCSR(key)
  /\ UNCHANGED <<platform, disk, tok, pool, key, ren, conn, checked, gap, unwritten, faults>>

\* The platform cannot be reached or trusted, refuses the token, or its answer
\* is lost.
EnrollFails ==
  /\ pc = "enroll"
  /\ IF ServerTrusted(pool) /\ EnrollGranted(tok) THEN Fault ELSE UNCHANGED faults
  /\ Fail
  /\ UNCHANGED <<platform, disk, gap, unwritten>>

WriteKey ==
  /\ pc = "key"
  /\ keyFile' = key /\ pc' = "cert"
  /\ UNCHANGED <<platform, certFile, caFile, env, mem, ren, conn, checked, gap, unwritten,
                 faults>>

WriteCert ==
  /\ pc = "cert"
  /\ certFile' = cert /\ pc' = "run"
  /\ checked' = FALSE /\ gap' = 0 /\ unwritten' = FALSE
  /\ UNCHANGED <<platform, keyFile, caFile, env, mem, ren, conn, faults>>

WriteFails ==
  /\ pc \in {"key", "cert"} /\ Fault
  /\ Fail
  /\ UNCHANGED <<platform, disk, gap, unwritten>>

-----------------------------------------------------------------------------
\* The renewal loop.

\* Mutant: a certificate at the very edge of the window waits.
NeedsRenewalLate == cert.left < RenewBefore

NeedsRenewal == cert.left <= RenewBefore

Renewable == Handshake(pool, cert) /\ ClientGranted

CheckOnly ==
  /\ pc = "run" /\ ren = "idle" /\ ~checked /\ ~NeedsRenewal
  /\ checked' = TRUE
  /\ gap' = IF Renewable THEN 0 ELSE gap
  /\ UNCHANGED <<platform, disk, pc, mem, ren, conn, unwritten, faults>>

\* Mutant: a renewal makes a new key, as an enrollment does.
RenewRekeys ==
  /\ pc = "run" /\ ren = "idle" /\ ~checked /\ NeedsRenewal /\ Renewable
  /\ \E k \in Keys \ {key} : cert' = SignCSR(k)
  /\ ren' = "write"
  /\ UNCHANGED <<platform, disk, pc, tok, pool, key, conn, checked, gap, unwritten, faults>>

\* Renew, up to the swap in memory: the same key, no token.
Renew ==
  /\ pc = "run" /\ ren = "idle" /\ ~checked /\ NeedsRenewal /\ Renewable
  /\ cert' = SignCSR(key)
  /\ ren' = "write"
  /\ UNCHANGED <<platform, disk, pc, tok, pool, key, conn, checked, gap, unwritten, faults>>

RenewFails ==
  /\ pc = "run" /\ ren = "idle" /\ ~checked /\ NeedsRenewal
  /\ IF Renewable THEN Fault ELSE UNCHANGED faults
  /\ checked' = TRUE
  /\ UNCHANGED <<platform, disk, pc, mem, ren, conn, gap, unwritten>>

RenewWrite ==
  /\ pc = "run" /\ ren = "write"
  /\ certFile' = cert
  /\ ren' = "idle" /\ checked' = TRUE /\ gap' = 0 /\ unwritten' = FALSE
  /\ UNCHANGED <<platform, keyFile, caFile, env, pc, mem, conn, faults>>

\* The new certificate stays in memory, and nothing writes it again.
RenewWriteFails ==
  /\ pc = "run" /\ ren = "write" /\ Fault
  /\ ren' = "idle" /\ checked' = TRUE /\ unwritten' = TRUE
  /\ UNCHANGED <<platform, disk, pc, mem, conn, gap>>

-----------------------------------------------------------------------------
\* Deliveries, as far as they depend on the identity.

Connected == reach /\ (conn \/ Handshake(pool, cert))

Ship ==
  /\ pc = "run" /\ Connected /\ ClientGranted
  /\ conn' = TRUE
  /\ UNCHANGED <<platform, disk, pc, mem, ren, checked, gap, unwritten, faults>>

\* Mutant: a refusal is retried like any other failure.
ShipRetried ==
  /\ pc = "run" /\ Connected /\ ~ClientGranted
  /\ conn' = TRUE
  /\ UNCHANGED <<platform, disk, pc, mem, ren, checked, gap, unwritten, faults>>

\* 403: the sink halts the agent, which ends without an error and is not
\* started again.  A renewal under way is not waited for.
ShipRefused ==
  /\ pc = "run" /\ Connected /\ ~ClientGranted
  /\ Gone("off")
  /\ UNCHANGED <<platform, disk, checked, gap, unwritten, faults>>

\* The connection is lost; the next delivery makes a new handshake.
Disconnect ==
  /\ conn
  /\ conn' = FALSE
  /\ UNCHANGED <<platform, disk, pc, mem, ren, checked, gap, unwritten, faults>>

-----------------------------------------------------------------------------
\* The unit, the host and time.

\* systemd starts the process with the environment of that moment.
Launch ==
  /\ env # "absent"
  /\ pc' = "load" /\ tok' = env
  /\ checked' = FALSE
  /\ UNCHANGED <<platform, disk, pool, key, cert, ren, conn, gap, unwritten>>

Restart == pc = "wait" /\ Launch /\ UNCHANGED faults

\* The process is killed, or the host restarts in order.  A loss of power is not
\* modelled: writeFileAtomic does not sync, so what it would leave on the disk is
\* up to the file system.
Crash ==
  /\ pc \notin {"off", "wait"} /\ Fault
  /\ Gone("wait") /\ checked' = FALSE
  /\ UNCHANGED <<platform, disk, gap, unwritten>>

\* An operator stops the service, and starts it.
Stop ==
  /\ pc # "off" /\ Fault
  /\ Gone("off")
  /\ UNCHANGED <<platform, disk, checked, gap, unwritten>>

Start == pc = "off" /\ Launch /\ Fault

PlatformChanges ==
  /\ \/ (Outage \/ PlatformRestart) /\ Fault
     \/ (Revoke \/ Return) /\ UNCHANGED faults
  /\ conn' = (conn /\ reach' /\ ca' = ca)
  /\ UNCHANGED <<disk, pc, mem, ren, checked, gap, unwritten>>

AtRest == pc = "off" \/ (checked /\ ren = "idle" /\ pc \in {"run", "wait"})

Aged(c) == IF c = NoCert \/ c.left = 0 THEN c ELSE [c EXCEPT !.left = @ - 1]

\* One RenewCheckInterval passes.
Tick ==
  /\ AtRest
  /\ certFile' = Aged(certFile) /\ cert' = Aged(cert)
  /\ gap' = IF gap > RenewBefore THEN gap ELSE gap + 1
  /\ checked' = FALSE
  /\ UNCHANGED <<platform, keyFile, caFile, env, pc, tok, pool, key, ren, conn, unwritten,
                 faults>>

IdentityInit ==
  /\ PlatformInit
  /\ keyFile = NoKey /\ certFile = NoCert
  /\ tok = "none" /\ pool = Absent /\ key = NoKey /\ cert = NoCert
  /\ ren = "idle" /\ conn = FALSE /\ checked = FALSE
  /\ gap = 0 /\ unwritten = FALSE /\ faults = 0

\* A service that was set up by hand: any token, with or without the authority.
Init ==
  /\ IdentityInit
  /\ env \in {"none", "bad", "good"} /\ caFile \in {Absent, 1}
  /\ pc = "wait"

EnsureIdentity ==
  \/ Reuse \/ BeginEnroll \/ LoadFails \/ Enroll \/ EnrollFails
  \/ WriteKey \/ WriteCert \/ WriteFails

RenewalLoop == CheckOnly \/ Renew \/ RenewFails \/ RenewWrite \/ RenewWriteFails

Deliver == Ship \/ ShipRefused \/ Disconnect

Next == EnsureIdentity \/ RenewalLoop \/ Deliver \/ Restart \/ Crash \/ Stop \/ Start
        \/ PlatformChanges \/ Tick

Spec == Init /\ [][Next]_idvars

\* The process and systemd make progress, events keep coming and so do
\* deliveries, and a platform that is away comes back.
Fairness ==
  /\ WF_idvars(EnsureIdentity) /\ WF_idvars(RenewalLoop) /\ WF_idvars(Restart)
  /\ WF_idvars(Ship \/ ShipRefused)
  /\ WF_idvars(Return /\ PlatformChanges)

FairSpec == Spec /\ Fairness

-----------------------------------------------------------------------------
\* Properties.

\* Every variable keeps its type; in particular the certificate the process
\* has in hand is always one the platform issued for the key it has in hand.
TypeOK ==
  /\ ca \in 1..MaxCa /\ revoked \in BOOLEAN /\ reach \in BOOLEAN
  /\ keyFile \in Keys \cup {NoKey} /\ certFile \in Certs \cup {NoCert}
  /\ caFile \in Absent..Garbled /\ env \in {"absent", "none", "bad", "good"}
  /\ pc \in {"off", "wait", "load", "enroll", "key", "cert", "run"}
  /\ tok \in {"none", "bad", "good"} /\ pool \in Absent..Garbled
  /\ key \in Keys \cup {NoKey} /\ cert \in Certs \cup {NoCert}
  /\ pc \in {"key", "cert", "run"} => cert # NoCert /\ cert.key = key
  /\ ren \in {"idle", "write"} /\ conn \in BOOLEAN /\ checked \in BOOLEAN
  /\ gap \in 0..(RenewBefore + 1) /\ unwritten \in BOOLEAN /\ faults \in 0..MaxFaults

\* "Certificates rotate unattended" (ADR 0004): the stored certificate has
\* more than RenewBefore intervals left, less those since the platform would
\* last have renewed it.  So it expires only if the agent and the platform are
\* kept apart for longer than RenewBefore, whatever crashes fall between the
\* swap in memory and the rewrite of client.crt, or if that rewrite failed.
Unattended == certFile # NoCert /\ ~unwritten => certFile.left + gap > RenewBefore

\* "Failures are logged and retried on the next tick" (renewalLoop): the same,
\* with rewrites that fail.
RenewalRetried == certFile # NoCert => certFile.left + gap > RenewBefore

\* A stored identity that loads and has not expired is never broken: not by an
\* enrollment, a renewal, a failed write or a crash.
PairKept == [][Loads /\ certFile.left > 0 => Loads']_idvars

\* A key and a certificate that do not belong together.
Torn == Stored /\ certFile.key # keyFile

CanEnroll == env = "good" /\ caFile = ca

\* With a good token and the right authority a start ends with a valid
\* identity, whatever was stored, unless the service is stopped, the platform
\* comes back with another authority, or a crash has torn an expired pair apart.
StartsServe ==
  (pc \in {"wait", "load", "enroll", "key", "cert"} /\ CanEnroll)
    ~> ((pc = "run" /\ Valid(cert)) \/ pc = "off" \/ ~CanEnroll \/ Torn)

\* "If the stored certificate has expired and a token is available,
\* EnsureIdentity re-enrolls" (internal/enroll).
ExpiredReenrolls ==
  (pc = "load" /\ CanEnroll /\ Stored /\ ~Valid(certFile))
    ~> (Valid(certFile) \/ pc = "off")

\* "If the agent was offline long enough that the cert already expired [...]
\* it falls back to token enrollment if a token is still present" (ADR 0004).
ExpiredFallsBack ==
  (pc = "run" /\ ~Valid(cert) /\ tok = "good") ~> (Valid(cert) \/ pc # "run")

\* "The agent halts shipping [...] and exits" (ADR 0004): a revoked agent that
\* runs ends up stopped, or with nothing that would get it through the handshake.
RevokedHalts ==
  (revoked /\ pc = "run")
    ~> (~revoked \/ pc = "off" \/ ~Valid(certFile) \/ ~Valid(cert)
        \/ certFile.ca # ca \/ pool # ca)
=============================================================================
