----------------------------- MODULE QueryIndex -----------------------------
(***************************************************************************)
(* The query index of a SQL chain (sqlchain/queryindex.go): for every       *)
(* period that has not expired, the acknowledged queries and the block that *)
(* has signed each of them.                                                 *)
(*                                                                          *)
(* An acknowledgement is known by its hash.  Its header has the query it is *)
(* about (key), the response it acknowledges (resp), the period of that     *)
(* response (at) and the server that gave it (node).  Queries that are      *)
(* answered and not acknowledged are left out: no block is affected by them. *)
(***************************************************************************)
EXTENDS Integers

CONSTANTS
    Header,       \* the headers of the acknowledgements of a run, by hash
    MaxClock,     \* bound on the periods of a run
    Nil,          \* a nil pointer
    PlaceHolder   \* signedBlock of a query collected for a block not yet pushed

Periods == 0 .. MaxClock
Acks == DOMAIN Header
Keys == {Header[a].key : a \in Acks}
Resps == {Header[a].resp : a \in Acks}

(* multiIndex: trk is respIndex, its trackers have an ack and a signedBlock; *)
(* ack is ackIndex and leads to a tracker; first is seqIndex with firstAck.  *)
EmptyMulti == [trk   |-> [r \in Resps |-> Nil],
               ack   |-> [a \in Acks |-> Nil],
               first |-> [k \in Keys |-> Nil]]
EmptyIndex == [x \in Periods |-> EmptyMulti]

(* addAck.  The tracker of the response keeps its first ack, and the query  *)
(* its first tracker; ok tells whether the ack was the first of both.       *)
AddAck(idx, a) ==
    LET h == Header[a]
        m == idx[h.at]
        isNew == m.trk[h.resp] = Nil
        indexed == [m EXCEPT !.ack[a] = h.resp,
                             !.trk[h.resp] = IF isNew THEN [ack |-> a, signed |-> Nil] ELSE @]
        sameResp == indexed.trk[h.resp].ack = a
        counted == [indexed EXCEPT !.first[h.key] = IF sameResp /\ @ = Nil THEN h.resp ELSE @]
    IN  [idx |-> [idx EXCEPT ![h.at] = counted],
         ok  |-> sameResp /\ counted.trk[counted.first[h.key]].ack = a]

(* getAck: the ack of the tracker that the hash leads to                    *)
Holding(idx, low, h, a) == {x \in Periods : low <= x /\ x <= h /\ idx[x].ack[a] # Nil}
First(S) == CHOOSE x \in S : \A y \in S : x <= y

(* checkAckFromBlock, one multiIndex                                        *)
CheckIn(m, b, a) ==
    LET r == m.ack[a]
        k == Header[m.trk[r].ack].key
        f == m.first[k]
    IN  CASE m.trk[r].signed \notin {Nil, b} -> [ok |-> FALSE, m |-> m]
          [] f = r -> [ok |-> TRUE, m |-> m]
          [] f # r /\ m.trk[f].signed # Nil -> [ok |-> FALSE, m |-> m]
          [] OTHER -> [ok |-> TRUE, m |-> [m EXCEPT !.first[k] = r]]

(* checkAckFromBlock of the queryIndex                                      *)
CheckAck(idx, low, h, b, a) ==
    LET xs == Holding(idx, low, h, a)
        x == First(xs)
        c == CheckIn(idx[x], b, a)
    IN  IF h < low THEN [known |-> FALSE, ok |-> FALSE, idx |-> idx]
        ELSE IF xs = {} THEN [known |-> FALSE, ok |-> TRUE, idx |-> idx]
        ELSE [known |-> TRUE, ok |-> c.ok, idx |-> [idx EXCEPT ![x] = c.m]]

(* markAndCollectUnsignedAcks                                               *)
UnsignedOrNot(m) == {m.first[k] : k \in Keys} \cap {r \in Resps : m.trk[r] # Nil}   \* mutant
Unsigned(m) == {m.first[k] : k \in Keys} \cap {r \in Resps : m.trk[r] # Nil /\ m.trk[r].signed = Nil}
Collected(idx, low, h) ==
    {idx[x].trk[r].ack : <<x, r>> \in
        {p \in Periods \X Resps : low <= p[1] /\ p[1] < h /\ p[2] \in Unsigned(idx[p[1]])}}
Sign(m, S, b) == [m EXCEPT !.trk = [r \in Resps |->
                    IF r \in S THEN [m.trk[r] EXCEPT !.signed = b] ELSE m.trk[r]]]
Marked(idx, low, h) ==
    [x \in Periods |-> IF low <= x /\ x < h
                       THEN Sign(idx[x], Unsigned(idx[x]), PlaceHolder) ELSE idx[x]]

(* setSignedBlock                                                           *)
SetSignedAbove(idx, low, h, b, queries) ==   \* mutant: misses the oldest period
    [x \in Periods |-> IF low < x /\ x <= h
                       THEN Sign(idx[x], {idx[x].ack[a] : a \in queries} \ {Nil}, b) ELSE idx[x]]
SetSigned(idx, low, h, b, queries) ==
    [x \in Periods |-> IF low <= x /\ x <= h
                       THEN Sign(idx[x], {idx[x].ack[a] : a \in queries} \ {Nil}, b) ELSE idx[x]]

(* advanceBarrier                                                           *)
ExpiredIncluding(idx, low, h) ==   \* mutant: drops the period of the barrier too
    [x \in Periods |-> IF low <= x /\ x <= h THEN EmptyMulti ELSE idx[x]]
Expired(idx, low, h) == [x \in Periods |-> IF low <= x /\ x < h THEN EmptyMulti ELSE idx[x]]
=============================================================================
