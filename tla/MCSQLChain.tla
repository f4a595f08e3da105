----------------------------- MODULE MCSQLChain -----------------------------
(* Instances of SQLChain for TLC. *)
EXTENDS SQLChain

A(k, r, x, n) == [key |-> k, resp |-> r, at |-> x, node |-> n]

(* The query q1 is answered by both servers in one period, and by one of    *)
(* them again in the next; the response r1 is acknowledged twice.           *)
SomeAcks == <<A("q1", "r1", 0, 0), A("q1", "r1", 0, 0), A("q1", "r2", 0, 1), A("q1", "r3", 1, 1)>>
(* The response r1 is acknowledged twice.                                   *)
SameAcks == <<A("q1", "r1", 0, 0), A("q1", "r1", 0, 0)>>
TwoAcks == <<A("q1", "r1", 0, 0), A("q2", "r3", 1, 1)>>
OneAck == <<A("q1", "r1", 0, 0)>>
=============================================================================
