---------------------------- MODULE FindingsStore ----------------------------
(***************************************************************************)
(* What the ingestor promises (ingestor/README.md, "once, with no gaps"):  *)
(* the findings table always holds exactly the alerts of a prefix of every *)
(* partition.  There is no consumer, no session and no failure here; one   *)
(* step moves the prefix forward and stores the alerts it passes over.     *)
(***************************************************************************)
EXTENDS Naturals, Sequences

CONSTANTS Partitions, Alerts, Messages

VARIABLES
  log,        \* the messages of each partition
  findings,   \* the alerts stored
  done        \* how much of each partition the table accounts for

absVars == <<log, findings, done>>

AbsInit ==
  /\ log = [p \in Partitions |-> << >>]
  /\ findings = {}
  /\ done = [p \in Partitions |-> 0]

\* The alerts between two cuts of the log.
Between(from, to) ==
  {a \in Alerts : \E p \in Partitions : \E i \in 1..Len(log[p]) :
                     from[p] < i /\ i <= to[p] /\ log[p][i] = a}

Arrive(p, m) ==
  /\ log' = [log EXCEPT ![p] = Append(@, m)]
  /\ UNCHANGED <<findings, done>>

StoreUpTo(to) ==
  /\ \A p \in Partitions : done[p] <= to[p] /\ to[p] <= Len(log[p])
  /\ findings' = findings \cup Between(done, to)
  /\ done' = to
  /\ UNCHANGED log

AbsNext ==
  \/ \E p \in Partitions, m \in Messages : Arrive(p, m)
  \/ StoreUpTo(done')

AbsSpec == AbsInit /\ [][AbsNext]_absVars
=============================================================================
