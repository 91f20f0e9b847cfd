----------------------------- MODULE MCDelivery -----------------------------
(* Small instances of the forwarder's delivery path for TLC. *)
EXTENDS Delivery

CONSTANTS f1, f2

\* Three lines in one file, two in the other: the settled prefix can have
\* holes, each kind of line occurs, and a queue of one or two fills up.
TwoFiles == [f \in {f1, f2} |-> IF f = f1 THEN <<"json", "skip", "json">>
                                          ELSE <<"huge", "json">>]

\* Two alerts in one file and one in the other: enough to fill a queue of one
\* and to block on either file.
Alerts == [f \in {f1, f2} |-> IF f = f1 THEN <<"json", "json">> ELSE <<"json">>]
=============================================================================
