------------------------------ MODULE Platform ------------------------------
(***************************************************************************)
(* The platform as the host agent sees it: the certificate authority of    *)
(* internal/pki and the handlers of cmd/mock-platform.                     *)
(*                                                                         *)
(* A certificate is the authority that signed it, the key it was issued    *)
(* for, and the check intervals (RenewCheckInterval) it has left; a step   *)
(* of time, Tick in Identity, takes one off every certificate.  There is   *)
(* one agent, so the denylist of common names is one Boolean.              *)
(***************************************************************************)
EXTENDS Naturals

CONSTANTS
  Keys, NoKey,   \* private keys, and no key file
  Ttl,           \* certTTL, in check intervals
  MaxCa          \* bound: authorities in one behaviour

ASSUME KeyAssumption == NoKey \notin Keys
ASSUME TtlAssumption == Ttl \in Nat \ {0}
ASSUME CaAssumption == MaxCa \in Nat \ {0}

VARIABLES
  ca,        \* the authority that signs, and that issued the server certificate
  revoked,   \* the agent's common name is on the denylist
  reach      \* the platform can be reached from the host

platform == <<ca, revoked, reach>>

Certs == [ca : 1..MaxCa, key : Keys, left : 0..Ttl]

\* SignCSR: only the key's owner can have signed the request, and the
\* certificate lasts Ttl from now.
SignCSR(k) == [ca |-> ca, key |-> k, left |-> Ttl]

\* The agent trusts the server if the pinned authority issued its certificate.
ServerTrusted(pool) == reach /\ pool = ca

\* VerifyClientCertIfGiven: the handshake of an agent that presents c.
Handshake(pool, c) == ServerTrusted(pool) /\ c.ca = ca /\ c.left > 0

\* handleEnroll: the token decides, the denylist is not asked.
EnrollGranted(token) == token = "good"

\* handleRenew, handleIngest: the denylist decides; otherwise 403.
ClientGranted == ~revoked

\* handleRevoke
Revoke ==
  /\ ~revoked /\ reach
  /\ revoked' = TRUE
  /\ UNCHANGED <<ca, reach>>

Outage ==
  /\ reach
  /\ reach' = FALSE
  /\ UNCHANGED <<ca, revoked>>

Return ==
  /\ ~reach
  /\ reach' = TRUE
  /\ UNCHANGED <<ca, revoked>>

\* main: a new process makes a new authority and starts with no denylist.
PlatformRestart ==
  /\ ca < MaxCa
  /\ ca' = ca + 1
  /\ revoked' = FALSE
  /\ reach' = TRUE

PlatformInit == ca = 1 /\ revoked = FALSE /\ reach = TRUE
=============================================================================
