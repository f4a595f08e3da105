------------------------------ MODULE MCKayak ------------------------------
(* Instances of KayakTwoPC for TLC. *)
EXTENDS KayakTwoPC

CONSTANTS n1, n2, n3

(* Connection c1 issues two requests, which may reach Apply out of order.   *)
c1s1 == [conn |-> "c1", seq |-> 1]
c1s2 == [conn |-> "c1", seq |-> 2]
c2s1 == [conn |-> "c2", seq |-> 1]
TwoRequests == {c1s1, c2s1}
ThreeRequests == {c1s1, c1s2, c2s1}
FailingRequests == {c2s1}

Peers(l, ss) == [leader |-> l, servers |-> ss]
TwoServers == <<Peers(n1, {n1, n2})>>
(* the same servers and leader in a new term *)
NewTerm == <<Peers(n1, {n1, n2, n3}), Peers(n1, {n1, n2, n3})>>
(* the second term moves the leadership to n2 *)
NewLeader == <<Peers(n1, {n1, n2}), Peers(n2, {n1, n2})>>
(* the second term replaces n2 by n3 *)
NewMember == <<Peers(n1, {n1, n2}), Peers(n1, {n1, n3})>>

(* The longest committed log: what the cluster has decided.                 *)
Decided ==
    CommittedLog(CHOOSE n \in Node : \A m \in Node : committed[m] <= committed[n])

Abstract == INSTANCE ReplicatedLog
    WITH Server <- Node, Entries <- Entry, decided <- Decided, at <- committed

(* Without faults Kayak is the replicated log it is meant to be, and every  *)
(* Log that one server has committed reaches every other.                   *)
IsReplicatedLog == Abstract!LogSpec
=============================================================================
