----------------------- MODULE KayakLockStep_proofs -----------------------
(***************************************************************************)
(* The committed indexes of the servers of KayakTwoPC stay within one of    *)
(* each other.  The argument has three layers, each an invariant:           *)
(*                                                                          *)
(*   DataInv    - every Log carries requests taken from Apply, a Prepare    *)
(*                call never asks a follower to repeat an older request;    *)
(*   WindowInv  - a log store holds at most one uncommitted Log, and while  *)
(*                it holds one the storage holds its transaction;           *)
(*   LockInv    - a commit that is under way, at the leader or in a call,   *)
(*                is at most one ahead of every server.                     *)
(***************************************************************************)
EXTENDS KayakTwoPC_proofs

DataIn(l) == \A i \in 1 .. Len(l) : l[i].data \in submitted

FreshChain(l) == \A i \in 1 .. Len(l) - 1 : l[i].data # Data(l)

DataOK ==
    /\ \A n \in Node : DataIn(log[n])
    /\ \A n \in Node : put[n].phase # "none" => DataIn(put[n].log)
    /\ \A m \in net : DataIn(m.log)
    /\ \A m \in net : m.method = "Prepare" => FreshChain(m.log)

(* A request that waits for a run loop waits at one server and is in no Log. *)
WaitingFresh ==
    \A n \in Node : calling[n] # NoRequest =>
        /\ calling[n] \notin submitted
        /\ \A k \in Node : k # n => calling[k] # calling[n]

DataInv == TypeInv /\ DataOK /\ WaitingFresh

(* Requests are never taken back. *)
LEMMA SubmittedGrows ==
    ASSUME TypeInv, [Next]_vars
    PROVE  submitted \subseteq submitted'
<1> DEFINE P == submitted \subseteq submitted'
<1> USE DEF durable, clients
<1>1. \A n \in Node, d \in Requests : NewLog(n, d) => P
    BY DEF NewLog
<1>2. \A n \in Node : BeginCommit(n) => P
    BY DEF BeginCommit
<1>3. \A n \in Node : BeginRollback(n) => P
    BY DEF BeginRollback
<1>4. \A n \in Node : EndCommit(n) => P
    BY DEF EndCommit
<1>5. \A n \in Node : EndRollback(n) => P
    BY DEF EndRollback
<1>6. ASSUME NEW n \in Node, RoundTimeout(n) \/ \E f \in Node : CallError(n, f)
      PROVE  P
    BY Zenon, <1>6 DEF RoundTimeout, CallError
<1>7. \A m \in net : Process(m) => P
    BY ProcessCases
<1>8. \A n \in Node : Stops(n) => P
    BY DEF Stops
<1>9. \A n \in Node, t \in Terms : Restart(n, t) => P
    BY DEF Restart
<1>10. Background => P
    BY DEF Background
<1> HIDE DEF P
<1>11. P
    BY <1>1, <1>2, <1>3, <1>4, <1>5, <1>6, <1>7, <1>8, <1>9, <1>10, NextCases
<1> QED
    BY <1>11 DEF P

(* Steps that send nothing, and whose logs and rounds hold old data. *)
LEMMA DataQuiet ==
    ASSUME DataInv, [Next]_vars, net' \subseteq net,
           \A k \in Node : log'[k] = log[k],
           \A k \in Node : put'[k].phase # "none" =>
                put[k].phase # "none" /\ put'[k].log = put[k].log
    PROVE  DataOK'
BY SubmittedGrows DEF DataInv, DataOK, DataIn, FreshChain, Data

(* Steps that truncate one log store. *)
LEMMA DataTruncated ==
    ASSUME DataInv, [Next]_vars, NEW n \in Node,
           log' = [log EXCEPT ![n] = DropUncommitted(n)]
    PROVE  \A k \in Node : DataIn(log[k])'
<1>1. /\ log'[n] = CommittedLog(n) /\ Len(CommittedLog(n)) = committed[n]
      /\ \A i \in 1 .. committed[n] : CommittedLog(n)[i] = log[n][i]
      /\ committed[n] \in Nat /\ committed[n] <= Len(log[n])
      /\ \A k \in Node : k # n => log'[k] = log[k]
    BY CommittedLogFacts DEF DataInv, TypeInv, TypeOK
<1>2. \A i \in 1 .. committed[n] : i \in 1 .. Len(log[n])
    BY <1>1 DEF DataInv, TypeInv, TypeOK, Chain
<1>3. \A i \in 1 .. committed[n] : log[n][i].data \in submitted'
    BY <1>2, SubmittedGrows DEF DataInv, DataOK, DataIn
<1>4. DataIn(log[n])'
    BY <1>1, <1>3 DEF DataIn
<1>5. \A k \in Node : k # n => DataIn(log[k])'
    BY <1>1, SubmittedGrows DEF DataInv, DataOK, DataIn
<1> QED
    BY <1>4, <1>5

(* The Log that NewLog makes: the committed chain and a request that no      *)
(* chain holds yet.                                                         *)
LEMMA DataNewLog ==
    ASSUME DataInv, [Next]_vars, NEW n \in Node, NEW d \in Requests, NewLog(n, d)
    PROVE  DataOK'
<1> USE DEF DataInv
<1>1. PICK l \in Chain, r \in Round :
        /\ l = Append(CommittedLog(n), [term |-> term[n], data |-> d])
        /\ r.phase = "Prepare" /\ r.log = l
        /\ put' = [put EXCEPT ![n] = r]
        /\ net' = net \cup Calls(n, "Prepare", l)
    BY NewLogRound DEF TypeInv
<1>2. /\ put'[n] = r /\ \A k \in Node : k # n => put'[k] = put[k]
    BY Zenon, <1>1, RoundStep DEF TypeInv
<1>3. \A m \in Calls(n, "Prepare", l) : m.log = l
    BY CallsFacts DEF Method, TypeInv
<1>4. log' = log /\ d \notin submitted /\ submitted' = submitted \cup {d}
    BY RequestAssumption DEF NewLog, durable, WaitingFresh
<1>5. DataIn(l)' /\ FreshChain(l)
    <2> DEFINE c == CommittedLog(n)
               e == [term |-> term[n], data |-> d]
    <2>1. /\ c \in Seq(Entry) /\ Len(c) = committed[n] /\ committed[n] \in Nat
          /\ \A i \in 1 .. committed[n] : c[i] = log[n][i]
          /\ committed[n] <= Len(log[n]) /\ Len(log[n]) \in Nat
        BY CommittedLogFacts DEF TypeInv, TypeOK, Chain
    <2>2. e \in Entry /\ e.data = d
        BY DEF TypeInv, TypeOK, Entry
    <2>3. \A i \in 1 .. committed[n] : c[i].data \in submitted
        BY <2>1 DEF DataOK, DataIn
    <2> HIDE DEF c, e
    <2>4. /\ Len(l) = committed[n] + 1 /\ l[committed[n] + 1] = e
          /\ \A i \in 1 .. committed[n] : l[i] = c[i]
        BY <1>1, <2>1, <2>2 DEF c, e
    <2>5. Data(l) = d
        BY <2>1, <2>2, <2>4 DEF Data, Newest
    <2>6. \A i \in 1 .. Len(l) : i \in 1 .. committed[n] \/ i = committed[n] + 1
        BY <2>1, <2>4
    <2>7. \A i \in 1 .. Len(l) - 1 : i \in 1 .. committed[n]
        BY <2>1, <2>4
    <2>8. DataIn(l)'
        BY <1>4, <2>2, <2>3, <2>4, <2>6 DEF DataIn
    <2>9. FreshChain(l)
        BY <1>4, <2>3, <2>4, <2>5, <2>7 DEF FreshChain
    <2> QED
        BY <2>8, <2>9
<1>6. \A k \in Node : DataIn(log[k])'
    BY <1>4 DEF DataOK, DataIn
<1>7. \A k \in Node : put'[k].phase # "none" => DataIn(put[k].log)'
    <2>1. put'[n].log = l /\ DataIn(put[n].log)'
        BY <1>1, <1>2, <1>5 DEF DataIn
    <2>2. \A k \in Node : k # n /\ put'[k].phase # "none" => DataIn(put[k].log)'
        BY <1>2, <1>4 DEF DataOK, DataIn
    <2> QED
        BY <2>1, <2>2
<1>8. \A m \in net' : DataIn(m.log)' /\ (m.method = "Prepare" => FreshChain(m.log))
    BY Zenon, <1>1, <1>3, <1>4, <1>5 DEF DataOK, DataIn
<1> QED
    BY <1>6, <1>7, <1>8 DEF DataOK, FreshChain, Data

(* The start of a commit or rollback phase sends the Log of the round again. *)
LEMMA DataBegin ==
    ASSUME DataInv, [Next]_vars, NEW n \in Node, BeginCommit(n) \/ BeginRollback(n)
    PROVE  DataOK'
<1> USE DEF DataInv
<1> DEFINE l == put[n].log
<1>1. put[n].phase # "none"
    BY DEF BeginCommit, BeginRollback, PhaseEnds
<1>2. l \in Chain /\ DataIn(l)
    BY <1>1, RoundData DEF DataOK
<1>3. PICK r \in Round : r.log = l /\ put' = [put EXCEPT ![n] = r]
    BY BeginCommitRound, BeginRollbackRound DEF TypeInv
<1>4. /\ put'[n] = r /\ \A k \in Node : k # n => put'[k] = put[k]
    BY Zenon, <1>3, RoundStep DEF TypeInv
<1>5. PICK j \in {"Commit", "Rollback"} : net' = net \cup Calls(n, j, l)
    BY DEF BeginCommit, BeginRollback
<1>6. \A m \in Calls(n, j, l) : m.log = l /\ m.method = j
    BY <1>2, CallsFacts DEF Method, TypeInv
<1>7. submitted \subseteq submitted'
    BY SubmittedGrows
<1>8. DataIn(l) /\ \A k \in Node : DataIn(log[k])'
    <2>1. CASE BeginRollback(n)
        BY Zenon, <1>2, <2>1, DataTruncated DEF BeginRollback
    <2>2. CASE BeginCommit(n)
        <3>1. log' = [log EXCEPT ![n] = l]
            BY <2>2 DEF BeginCommit
        <3>2. /\ log'[n] = l /\ \A k \in Node : k # n => log'[k] = log[k]
            BY <3>1 DEF TypeInv, TypeOK
        <3>3. DataIn(log[n])'
            BY <1>2, <1>7, <3>2 DEF DataIn
        <3>4. \A k \in Node : k # n => DataIn(log[k])'
            BY <1>7, <3>2 DEF DataOK, DataIn
        <3> QED
            BY <1>2, <3>3, <3>4
    <2> QED
        BY <2>1, <2>2
<1>9. \A k \in Node : put'[k].phase # "none" => DataIn(put[k].log)'
    BY <1>2, <1>3, <1>4, <1>7 DEF DataOK, DataIn
<1>10. \A m \in net' : DataIn(m.log)' /\ (m.method = "Prepare" => FreshChain(m.log))
    BY <1>2, <1>5, <1>6, <1>7 DEF DataOK, DataIn
<1> QED
    BY <1>8, <1>9, <1>10 DEF DataOK, FreshChain, Data

(* A chain is its front followed by its last entry. *)
LEMMA ChainSplit ==
    ASSUME NEW s \in Seq(Entry), Len(s) \in Nat \ {0}
    PROVE  /\ Append(Previous(s), Newest(s)) = s
           /\ Len(Previous(s)) = Len(s) - 1
           /\ \A i \in 1 .. Len(s) - 1 : Previous(s)[i] = s[i]
<1> DEFINE k == Len(s) - 1
           c == SubSeq(s, 1, k)
<1>1. k \in Nat /\ k <= Len(s) /\ k + 1 = Len(s)
    OBVIOUS
<1>2. Previous(s) = c /\ Newest(s) = s[k + 1]
    BY <1>1 DEF Previous, Newest
<1>3. c \in Seq(Entry) /\ Len(c) = k /\ \A i \in 1 .. k : c[i] = s[i]
    <2> HIDE DEF k
    <2> QED BY <1>1
<1>4. s[k + 1] \in Entry
    BY <1>1
<1>5. Append(c, s[k + 1]) = s
    <2> HIDE DEF k, c
    <2> QED BY <1>1, <1>3, <1>4
<1> QED
    BY <1>2, <1>3, <1>5

(* A follower that stores a Log then has exactly the chain of the call. *)
LEMMA StoredChain ==
    ASSUME TypeInv, NEW m \in net, Extends(m),
           log' = [log EXCEPT ![m.to] = Append(@, Newest(m.log))]
    PROVE  /\ log'[m.to] = m.log
           /\ Len(m.log) = Len(log[m.to]) + 1
           /\ \A i \in 1 .. Len(log[m.to]) : m.log[i] = log[m.to][i]
           /\ \A k \in Node : k # m.to => log'[k] = log[k]
<1>1. /\ m.to \in Node /\ m.log \in Seq(Entry) /\ Len(m.log) \in Nat \ {0}
    BY CallData
<1>2. Previous(m.log) = log[m.to]
    BY DEF Extends
<1>3. /\ Append(Previous(m.log), Newest(m.log)) = m.log
      /\ Len(Previous(m.log)) = Len(m.log) - 1
      /\ \A i \in 1 .. Len(m.log) - 1 : Previous(m.log)[i] = m.log[i]
    BY <1>1, ChainSplit
<1>4. Len(m.log) = Len(log[m.to]) + 1
    BY <1>1, <1>2, <1>3
<1> QED
    BY <1>1, <1>2, <1>3, <1>4 DEF TypeInv, TypeOK

(* The handlers of a follower store only Logs they were sent. *)
LEMMA DataProcess ==
    ASSUME DataInv, [Next]_vars, NEW m \in net, Process(m)
    PROVE  DataOK'
<1> USE DEF DataInv
<1> DEFINE f == m.to
<1>1. PICK ok \in BOOLEAN : Handles(m, ok)
    BY ProcessCases
<1>2. Answer(m, ok)
    BY Zenon, <1>1 DEF Handles, DoesNothing, StoresLog, CommitsLog, RollsBack
<1>3. /\ net' = net \ {m}
      /\ \A k \in Node : put'[k].phase = put[k].phase /\ put'[k].log = put[k].log
    BY <1>2, AnswerFacts DEF TypeInv
<1>4. f \in Node /\ submitted \subseteq submitted'
    BY CallData, SubmittedGrows
<1>5. CASE log' = log
    BY <1>3, <1>5, DataQuiet
<1>6. /\ \A k \in Node : put'[k].phase # "none" => DataIn(put[k].log)'
      /\ \A i \in net' : DataIn(i.log)'
      /\ \A i \in net' : i.method = "Prepare" => FreshChain(i.log)
    BY <1>3, <1>4 DEF DataOK, DataIn
<1>7. CASE log' = [log EXCEPT ![f] = DropUncommitted(f)]
    BY Zenon, <1>4, <1>6, <1>7, DataTruncated DEF DataOK, FreshChain, Data
<1>8. CASE Extends(m) /\ log' = [log EXCEPT ![f] = Append(@, Newest(m.log))]
    <2>1. log'[f] = m.log /\ \A k \in Node : k # f => log'[k] = log[k]
        BY Zenon, <1>8, StoredChain
    <2>2. DataIn(log[f])'
        BY <1>4, <2>1 DEF DataOK, DataIn
    <2>3. \A k \in Node : k # f => DataIn(log[k])'
        BY <1>4, <2>1 DEF DataOK, DataIn
    <2> QED
        BY <1>6, <2>2, <2>3 DEF DataOK, FreshChain, Data
<1> QED
    BY Zenon, <1>1, <1>5, <1>7, <1>8
       DEF Handles, DoesNothing, StoresLog, CommitsLog, RollsBack

(* How the steps that neither send nor store treat the rounds. *)
LEMMA RoundsEnd ==
    ASSUME TypeInv, NEW n \in Node,
           \/ EndCommit(n) \/ EndRollback(n) \/ Stops(n)
           \/ RoundTimeout(n) \/ \E f \in Node : CallError(n, f)
    PROVE  /\ net' \subseteq net /\ log' = log
           /\ \A k \in Node : k # n => put'[k] = put[k]
           /\ \/ put'[n].phase = "none"
              \/ put'[n].phase = put[n].phase /\ put'[n].log = put[n].log
<1>1. NoRound \in Round /\ NoRound.phase = "none"
    BY DEF NoRound, Round, Chain, Method
<1>2. CASE EndCommit(n) \/ EndRollback(n) \/ Stops(n)
    <2>1. net' \subseteq net /\ log' = log /\ put' = [put EXCEPT ![n] = NoRound]
        BY <1>2 DEF EndCommit, EndRollback, Stops, StopNode, durable
    <2> QED
        BY <1>1, <2>1, RoundStep DEF TypeInv
<1>3. CASE RoundTimeout(n) \/ \E f \in Node : CallError(n, f)
    <2>1. net' \subseteq net /\ log' = log
        BY Zenon, <1>3 DEF RoundTimeout, CallError, durable
    <2> QED
        BY <1>3, <2>1, FailureRound, RoundStep DEF TypeInv
<1> QED
    BY <1>2, <1>3

(* Requests that wait stay fresh: NewLog puts its own into the Logs and     *)
(* Apply brings one that no server has.                                     *)
LEMMA WaitingStep ==
    ASSUME DataInv, [Next]_vars
    PROVE  WaitingFresh'
<1> USE DEF DataInv
<1>1. /\ calling \in [Node -> Requests \cup {NoRequest}]
      /\ calling' \in [Node -> Requests \cup {NoRequest}]
    BY TypeStep DEF TypeInv, TypeOK
<1>2. ASSUME NEW n \in Node, NEW d \in Requests, Apply(n, d) PROVE WaitingFresh'
    <2>1. /\ calling' = [calling EXCEPT ![n] = d] /\ submitted' = submitted
          /\ d \notin submitted /\ \A k \in Node : calling[k] # d
        BY <1>2 DEF Apply, clients
    <2> QED
        BY <1>1, <2>1 DEF WaitingFresh
<1>3. ASSUME NEW n \in Node, NEW d \in Requests, NewLog(n, d) PROVE WaitingFresh'
    <2>1. /\ calling[n] = d /\ d # NoRequest
          /\ calling' = [calling EXCEPT ![n] = NoRequest]
          /\ submitted' = submitted \cup {d}
        BY <1>3, RequestAssumption DEF NewLog
    <2> QED
        BY <1>1, <2>1 DEF WaitingFresh
<1>4. ASSUME submitted' = submitted,
             \A k \in Node : calling'[k] = calling[k] \/ calling'[k] = NoRequest
      PROVE  WaitingFresh'
    BY <1>4 DEF WaitingFresh
<1> QED
    BY <1>2, <1>3, <1>4, CallingStep

(* Every step preserves the invariant. *)
LEMMA DataStep ==
    ASSUME DataInv, [Next]_vars
    PROVE  DataInv'
<1> USE DEF DataInv
<1> DEFINE P == DataOK'
<1>1. \A n \in Node, d \in Requests : NewLog(n, d) => P
    BY DataNewLog
<1>2. \A n \in Node : BeginCommit(n) => P
    BY DataBegin
<1>3. \A n \in Node : BeginRollback(n) => P
    BY DataBegin
<1>4. \A n \in Node : EndCommit(n) => P
    BY RoundsEnd, DataQuiet
<1>5. \A n \in Node : EndRollback(n) => P
    BY RoundsEnd, DataQuiet
<1>6. \A n \in Node : RoundTimeout(n) \/ (\E f \in Node : CallError(n, f)) => P
    BY RoundsEnd, DataQuiet
<1>7. \A m \in net : Process(m) => P
    BY DataProcess
<1>8. \A n \in Node : Stops(n) => P
    BY RoundsEnd, DataQuiet
<1>9. ASSUME NEW n \in Node, NEW t \in Terms, Restart(n, t) PROVE P
    <2>1. /\ log' = [log EXCEPT ![n] = DropUncommitted(n)]
          /\ net' = net /\ put' = put /\ submitted' = submitted
        BY <1>9 DEF Restart, clients
    <2> QED
        BY Zenon, <2>1, DataTruncated DEF DataOK, DataIn, FreshChain, Data
<1>10. Background => P
    BY DataQuiet DEF Background
<1> HIDE DEF P
<1>11. P
    BY <1>1, <1>2, <1>3, <1>4, <1>5, <1>6, <1>7, <1>8, <1>9, <1>10, NextCases
<1> QED
    BY <1>11, TypeStep, WaitingStep DEF P

-----------------------------------------------------------------------------
(* The window of uncommitted Logs. *)

Window(n) ==
    /\ Len(log[n]) <= committed[n] + 1
    /\ put[n].phase = "Rollback" => Len(log[n]) = committed[n]
    /\ up[n] /\ put[n].phase = "none" /\ Len(log[n]) = committed[n] + 1
            => store[n].tx /\ store[n].id = Data(log[n])

WindowInv == DataInv /\ \A n \in Node : Window(n)

(* What the storage operations do to the open transaction. *)
LEMMA PrepareTx ==
    ASSUME NEW s \in StorageType, NEW d \in Requests, NEW x,
           PrepareOK(s, d, x, FALSE)
    PROVE  AfterPrepare(s, d).tx /\ AfterPrepare(s, d).id = d
BY DEF PrepareOK, AfterPrepare, StorageType

(* A rollback that fails keeps the open transaction. *)
LEMMA RollbackTx ==
    ASSUME NEW s \in StorageType, NEW d \in Requests, NEW x,
           ~RollbackOK(s, d, x)
    PROVE  /\ AfterRollback(s, d, x).tx = s.tx
           /\ AfterRollback(s, d, x).id = s.id
<1>1. RecordSequence(s, d).tx = s.tx /\ RecordSequence(s, d).id = s.id
    BY DEF RecordSequence, StorageType
<1> QED
    BY <1>1 DEF RollbackOK, AfterRollback

(* The end of a context keeps Storage.tx and Storage.id. *)
LEMMA ExpiryTx ==
    ASSUME NEW s \in StorageType
    PROVE  AfterExpiry(s).tx = s.tx /\ AfterExpiry(s).id = s.id
BY DEF AfterExpiry, StorageType

(* A server that a step leaves alone keeps its window. *)
LEMMA WindowFrame ==
    ASSUME NEW k \in Node, Window(k),
           log'[k] = log[k], committed'[k] = committed[k],
           put'[k].phase = put[k].phase, up'[k] = up[k],
           store'[k].tx = store[k].tx, store'[k].id = store[k].id
    PROVE  Window(k)'
BY DEF Window, Data

(* An empty window needs no transaction. *)
LEMMA WindowClosed ==
    ASSUME NEW k \in Node, committed'[k] \in Nat, Len(log'[k]) = committed'[k]
    PROVE  Window(k)'
BY DEF Window

(* Neither does a leader in its round, nor a server that is down. *)
LEMMA WindowBusy ==
    ASSUME NEW k \in Node,
           Len(log'[k]) <= committed'[k] + 1,
           put'[k].phase = "Rollback" => Len(log'[k]) = committed'[k],
           ~up'[k] \/ put'[k].phase # "none"
    PROVE  Window(k)'
BY DEF Window

(* A server that drops what is not committed has an empty window. *)
LEMMA WindowTruncated ==
    ASSUME WindowInv, NEW n \in Node,
           log' = [log EXCEPT ![n] = DropUncommitted(n)], committed' = committed
    PROVE  /\ Window(n)'
           /\ \A k \in Node : k # n => log'[k] = log[k]
<1>1. /\ log'[n] = CommittedLog(n) /\ Len(CommittedLog(n)) = committed[n]
      /\ committed[n] \in Nat
      /\ \A k \in Node : k # n => log'[k] = log[k]
    BY CommittedLogFacts DEF WindowInv, DataInv, TypeInv, TypeOK
<1> QED
    BY <1>1, WindowClosed

(* The steps of a leader change only its own row. *)
LEMMA WindowLeader ==
    ASSUME WindowInv, [Next]_vars, NEW n \in Node
    PROVE  (\/ \E d \in Requests : NewLog(n, d)
            \/ BeginCommit(n) \/ BeginRollback(n) \/ EndCommit(n) \/ EndRollback(n)
            \/ Stops(n))
                => \A k \in Node : Window(k)'
<1> USE DEF WindowInv, DataInv
<1>1. /\ up \in [Node -> BOOLEAN] /\ log \in [Node -> Chain]
      /\ committed \in [Node -> Nat] /\ store \in [Node -> StorageType]
      /\ put \in [Node -> Round]
    BY DEF TypeInv, TypeOK
<1>a. /\ log[n] \in Chain /\ Len(log[n]) \in Nat /\ committed[n] \in Nat
      /\ Len(log[n]) <= committed[n] + 1
      /\ put[n].phase = "Rollback" => Len(log[n]) = committed[n]
      /\ RoundOK(n)
    BY <1>1 DEF Window, TypeInv, RoundShape, Chain
<1>2. ASSUME \/ \E d \in Requests : NewLog(n, d)
             \/ BeginCommit(n) \/ BeginRollback(n) \/ EndCommit(n)
             \/ EndRollback(n) \/ Stops(n)
      PROVE  \A k \in Node \ {n} : /\ log'[k] = log[k] /\ put'[k] = put[k]
                                   /\ committed'[k] = committed[k]
                                   /\ up'[k] = up[k] /\ store'[k] = store[k]
    BY Zenon, <1>1, <1>2 DEF NewLog, BeginCommit, BeginRollback, EndCommit, EndRollback,
                      Stops, StopNode, durable
<1>3. ASSUME \A k \in Node \ {n} : /\ log'[k] = log[k] /\ put'[k] = put[k]
                                   /\ committed'[k] = committed[k]
                                   /\ up'[k] = up[k] /\ store'[k] = store[k]
      PROVE  \A k \in Node \ {n} : Window(k)'
    BY <1>3, WindowFrame
<1>4. NoRound \in Round /\ NoRound.phase = "none"
    BY DEF NoRound, Round, Chain, Method
<1>5. ASSUME NEW d \in Requests, NewLog(n, d) PROVE Window(n)'
    <2>1. log' = log /\ committed' = committed
        BY <1>5 DEF NewLog, durable
    <2>2. put'[n].phase = "Prepare"
        BY Zenon, <1>5, NewLogRound, RoundStep DEF TypeInv
    <2> QED
        BY <1>a, <2>1, <2>2, WindowBusy
<1>6. ASSUME BeginCommit(n) PROVE Window(n)'
    <2>1. /\ log'[n] = put[n].log /\ committed' = committed
          /\ put[n].phase # "none"
        BY <1>1, <1>6 DEF BeginCommit, PhaseEnds
    <2>2. put'[n].phase = "Commit"
        BY <1>6, BeginCommitRound, RoundStep DEF TypeInv
    <2>3. Len(put[n].log) = committed[n] + 1
        BY <2>1, RoundData
    <2> QED
        BY <1>a, <2>1, <2>2, <2>3, WindowBusy
<1>7. ASSUME BeginRollback(n) PROVE Window(n)'
    <2>1. /\ log' = [log EXCEPT ![n] = DropUncommitted(n)]
          /\ committed' = committed
        BY <1>7 DEF BeginRollback
    <2> QED
        BY Zenon, <2>1, WindowTruncated
<1>8. ASSUME EndCommit(n) PROVE Window(n)'
    <2>1. /\ log' = log /\ committed'[n] = Len(put[n].log)
          /\ put[n].phase = "Commit"
        BY <1>1, <1>8 DEF EndCommit, PhaseEnds
    <2> QED
        BY <1>a, <2>1, WindowClosed DEF RoundOK
<1>9. ASSUME EndRollback(n) PROVE Window(n)'
    <2>1. log' = log /\ committed' = committed /\ put[n].phase = "Rollback"
        BY <1>9 DEF EndRollback, PhaseEnds, durable
    <2> QED
        BY <1>a, <2>1, WindowClosed
<1>10. ASSUME Stops(n) PROVE Window(n)'
    <2>1. /\ log' = log /\ committed' = committed
          /\ put' = [put EXCEPT ![n] = NoRound] /\ up' = [up EXCEPT ![n] = FALSE]
        BY <1>10 DEF Stops, StopNode
    <2>2. put'[n].phase = "none" /\ ~up'[n]
        BY <1>1, <1>4, <2>1
    <2> QED
        BY <1>a, <2>1, <2>2, WindowBusy
<1> QED
    BY <1>2, <1>3, <1>5, <1>6, <1>7, <1>8, <1>9, <1>10

(* The handlers of a follower keep its window. *)
LEMMA WindowProcess ==
    ASSUME WindowInv, NEW m \in net, Process(m)
    PROVE  \A k \in Node : Window(k)'
<1> USE DEF WindowInv, DataInv
<1> DEFINE f == m.to
           d == Data(m.log)
<1>1. PICK ok \in BOOLEAN : Handles(m, ok)
    BY ProcessCases
<1>2. UNCHANGED up
    BY ProcessCases
<1>3. Answer(m, ok)
    BY Zenon, <1>1 DEF Handles, DoesNothing, StoresLog, CommitsLog, RollsBack
<1>4. \A k \in Node : put'[k].phase = put[k].phase
    BY <1>3, AnswerFacts DEF TypeInv
<1>5. /\ f \in Node /\ d \in Requests /\ store[f] \in StorageType
      /\ m.log \in Seq(Entry) /\ Len(m.log) \in Nat \ {0}
    BY CallData
<1>6. \A k \in Node \ {f} : /\ log'[k] = log[k] /\ committed'[k] = committed[k]
                            /\ store'[k] = store[k]
    BY <1>1, HandlesLog
<1>7. \A k \in Node \ {f} : Window(k)'
    BY <1>2, <1>4, <1>6, WindowFrame
<1>8. /\ log[f] \in Chain /\ Len(log[f]) \in Nat /\ committed[f] \in Nat
      /\ committed[f] <= Len(log[f])
      /\ Len(log[f]) <= committed[f] + 1 /\ Window(f)
      /\ log \in [Node -> Chain] /\ committed \in [Node -> Nat]
      /\ store \in [Node -> StorageType]
    <2>1. /\ log[f] \in Chain /\ committed[f] \in Nat
          /\ committed[f] <= Len(log[f]) /\ Len(log[f]) \in Nat
          /\ log \in [Node -> Chain] /\ committed \in [Node -> Nat]
          /\ store \in [Node -> StorageType]
        BY <1>5 DEF TypeInv, TypeOK, Chain
    <2>2. Window(f)
        BY <1>5
    <2>3. Len(log[f]) <= committed[f] + 1
        BY <2>2 DEF Window
    <2> QED
        BY <2>1, <2>2, <2>3
<1>9. ASSUME DoesNothing(m, ok) PROVE Window(f)'
    BY <1>2, <1>4, <1>5, <1>8, <1>9, WindowFrame DEF DoesNothing
<1>10. ASSUME StoresLog(m, ok) PROVE Window(f)'
    <2>a. /\ Extends(m) /\ log' = [log EXCEPT ![f] = Append(@, Newest(m.log))]
          /\ store' = [store EXCEPT ![f] = AfterPrepare(@, d)]
          /\ PrepareOK(store[f], d, stale, FALSE)
          /\ committed' = committed
        BY Zenon, <1>10 DEF StoresLog
    <2>b. /\ log'[f] = m.log /\ Len(m.log) = Len(log[f]) + 1
          /\ \A i \in 1 .. Len(log[f]) : m.log[i] = log[f][i]
        BY Zenon, <2>a, StoredChain
    <2>1. /\ log'[f] = m.log /\ Len(m.log) = Len(log[f]) + 1
          /\ \A i \in 1 .. Len(log[f]) : m.log[i] = log[f][i]
          /\ committed' = committed
          /\ store'[f] = AfterPrepare(store[f], d)
          /\ PrepareOK(store[f], d, stale, FALSE)
        <3> HIDE DEF d
        <3> QED BY Zenon, <1>5, <1>8, <2>a, <2>b
    <2>2. store'[f].tx /\ store'[f].id = d
        <3>1. AfterPrepare(store[f], d).tx /\ AfterPrepare(store[f], d).id = d
            BY Zenon, <1>5, <2>a, PrepareTx
        <3> HIDE DEF d, f
        <3> QED BY <2>1, <3>1
    <2>3. Len(log[f]) = committed[f]
        <3> SUFFICES ASSUME Len(log[f]) = committed[f] + 1 PROVE FALSE
            BY <1>8
        <3>1. store[f].tx /\ store[f].id = Data(log[f])
            BY <1>8, ProcessCases DEF Window
        <3>2. d = Data(log[f])
            BY <2>1, <3>1 DEF PrepareOK
        <3>3. Data(log[f]) = m.log[Len(log[f])].data
            BY <1>8, <2>1 DEF Data, Newest
        <3>4. FreshChain(m.log)
            BY <1>10 DEF DataOK, StoresLog
        <3>5. Len(log[f]) \in 1 .. Len(m.log) - 1
            BY <1>8, <2>1
        <3> QED
            BY <3>2, <3>3, <3>4, <3>5 DEF FreshChain
    <2>4. Data(log[f])' = d
        BY <2>1 DEF Data
    <2>5. /\ Len(log'[f]) = committed[f] + 1 /\ committed'[f] = committed[f]
          /\ committed[f] \in Nat
        <3> HIDE DEF f, d
        <3> QED BY <1>8, <2>1, <2>3
    <2>6. put'[f].phase = "none"
        <3>1. put[f].phase = "none"
            BY ProcessCases
        <3> HIDE DEF f, d
        <3> QED BY <1>4, <1>5, <3>1
    <2> HIDE DEF f, d
    <2> QED
        BY <2>2, <2>4, <2>5, <2>6 DEF Window
<1>11. ASSUME CommitsLog(m, ok) PROVE Window(f)'
    <2>1. /\ log' = log /\ committed'[f] = committed[f] + 1
          /\ Len(log[f]) >= committed[f] + 1
        BY <1>5, <1>8, <1>11 DEF CommitsLog, AtCommitPosition, Logged
    <2> QED
        BY <1>5, <1>8, <2>1, WindowClosed
<1>12. ASSUME RollsBack(m, ok) PROVE Window(f)'
    <2>1. CASE log' = [log EXCEPT ![f] = DropUncommitted(f)]
        BY Zenon, <1>5, <1>12, <2>1, WindowTruncated DEF RollsBack
    <2>2. CASE ~RollbackOK(store[f], d, stale) /\ log' = log
        <3>1. store'[f] = AfterRollback(store[f], d, stale) /\ committed' = committed
            <4>1. /\ store' = [store EXCEPT ![f] = AfterRollback(@, d, stale)]
                  /\ committed' = committed
                BY <1>12 DEF RollsBack
            <4> HIDE DEF d
            <4> QED BY <1>5, <1>8, <4>1
        <3>2. store'[f].tx = store[f].tx /\ store'[f].id = store[f].id
            <4>1. /\ AfterRollback(store[f], d, stale).tx = store[f].tx
                  /\ AfterRollback(store[f], d, stale).id = store[f].id
                BY <1>5, <2>2, RollbackTx
            <4> QED BY <3>1, <4>1
        <3> QED
            BY <1>2, <1>4, <1>5, <1>8, <2>2, <3>1, <3>2, WindowFrame
    <2> QED
        BY <1>12, <2>1, <2>2 DEF RollsBack
<1> QED
    BY <1>1, <1>7, <1>9, <1>10, <1>11, <1>12 DEF Handles

(* Every step keeps the windows. *)
LEMMA WindowStep ==
    ASSUME WindowInv, [Next]_vars
    PROVE  WindowInv'
<1> USE DEF WindowInv, DataInv
<1> DEFINE P == \A k \in Node : Window(k)'
<1>1. \A n \in Node, d \in Requests : NewLog(n, d) => P
    BY WindowLeader
<1>2. \A n \in Node : BeginCommit(n) => P
    BY WindowLeader
<1>3. \A n \in Node : BeginRollback(n) => P
    BY WindowLeader
<1>4. \A n \in Node : EndCommit(n) => P
    BY WindowLeader
<1>5. \A n \in Node : EndRollback(n) => P
    BY WindowLeader
<1>a. ASSUME NEW n \in Node
      PROVE  /\ AfterExpiry(store[n]).tx = store[n].tx
             /\ AfterExpiry(store[n]).id = store[n].id
    BY ExpiryTx DEF TypeInv, TypeOK
<1>b. ASSUME \/ store' = store
             \/ \E n \in Node : store' = [store EXCEPT ![n] = AfterExpiry(@)],
             NEW k \in Node
      PROVE  store'[k].tx = store[k].tx /\ store'[k].id = store[k].id
    <2>1. store'[k] = store[k] \/ store'[k] = AfterExpiry(store[k])
        BY <1>b DEF TypeInv, TypeOK
    <2> QED
        BY <1>a, <2>1
<1>6. ASSUME NEW n \in Node, RoundTimeout(n) \/ \E f \in Node : CallError(n, f)
      PROVE  P
    <2>1. /\ UNCHANGED <<log, committed, up>>
          /\ \/ store' = store
             \/ \E k \in Node : store' = [store EXCEPT ![k] = AfterExpiry(@)]
        BY Zenon, <1>6 DEF RoundTimeout, CallError, durable
    <2>2. \A k \in Node : put'[k].phase = put[k].phase
        BY <1>6, FailureRound, RoundStep DEF TypeInv
    <2> QED
        BY <1>b, <2>1, <2>2, WindowFrame
<1>7. \A m \in net : Process(m) => P
    BY WindowProcess
<1>8. \A n \in Node : Stops(n) => P
    BY WindowLeader
<1>9. ASSUME NEW n \in Node, NEW t \in Terms, Restart(n, t) PROVE P
    <2>1. /\ log' = [log EXCEPT ![n] = DropUncommitted(n)]
          /\ up' = [up EXCEPT ![n] = TRUE]
          /\ UNCHANGED <<committed, store, put>>
        BY <1>9 DEF Restart
    <2>2. Window(n)' /\ \A k \in Node : k # n => log'[k] = log[k]
        BY Zenon, <2>1, WindowTruncated
    <2>3. \A k \in Node : k # n => up'[k] = up[k]
        BY <2>1 DEF TypeInv, TypeOK
    <2>4. \A k \in Node : k # n => Window(k)'
        BY Zenon, <2>1, <2>2, <2>3, WindowFrame
    <2> QED
        BY <2>2, <2>4
<1>10. ASSUME Background PROVE P
    <2>1. /\ UNCHANGED <<log, committed, up, put>>
          /\ \/ store' = store
             \/ \E k \in Node : store' = [store EXCEPT ![k] = AfterExpiry(@)]
        BY <1>10 DEF Background
    <2> QED
        BY <1>b, <2>1, WindowFrame
<1> HIDE DEF P
<1>11. P
    BY <1>1, <1>2, <1>3, <1>4, <1>5, <1>6, <1>7, <1>8, <1>9, <1>10, NextCases
<1> QED
    BY <1>11, DataStep DEF P

(* The windows are empty at the start. *)
LEMMA InitWindow == Init => WindowInv
<1> SUFFICES ASSUME Init PROVE WindowInv
    OBVIOUS
<1>1. TypeInv
    BY InitTypeInv
<1>2. \A n \in Node : log[n] = <<>> /\ committed[n] = 0 /\ put[n].phase = "none"
    BY DEF Init, NoRound
<1>3. DataOK /\ WaitingFresh
    BY <1>2 DEF DataOK, DataIn, WaitingFresh, Init
<1>4. \A n \in Node : Window(n)
    BY <1>2 DEF Window
<1> QED
    BY <1>1, <1>3, <1>4 DEF WindowInv, DataInv

-----------------------------------------------------------------------------
(* Commits that are under way. *)

StaticPeers == \A t \in Terms : Config[t].servers = Node

Within(l, f) == Len(l) <= committed[f] + 1

RoundPromise(n) ==
    /\ put[n].phase = "Prepare" =>
        \A f \in Node \ {n} : \/ f \in put[n].wait \cup put[n].errs
                              \/ Within(put[n].log, f)
    /\ put[n].phase = "Commit" => \A f \in Node : Within(put[n].log, f)

CallPromise(m) == m.method = "Commit" => \A f \in Node : Within(m.log, f)

LockInv ==
    /\ WindowInv
    /\ \A n \in Node : RoundPromise(n)
    /\ \A m \in net : CallPromise(m)
    /\ LockStep

(* Committed indexes never decrease. *)
LEMMA CommittedGrows ==
    ASSUME TypeInv, [Next]_vars, NEW k \in Node
    PROVE  committed[k] \in Nat /\ committed'[k] \in Nat /\ committed[k] <= committed'[k]
<1>1. KeepsCommitted(k) /\ TypeInv'
    BY CommittedStep, TypeStep
<1>2. committed[k] \in Nat /\ committed'[k] \in Nat
    BY <1>1 DEF TypeInv, TypeOK
<1> QED
    BY <1>1, <1>2 DEF KeepsCommitted

(* A server that has caught up with a Log stays so. *)
LEMMA WithinStable ==
    ASSUME TypeInv, [Next]_vars, NEW l, Len(l) \in Nat, NEW f \in Node, Within(l, f)
    PROVE  Within(l, f)'
BY CommittedGrows DEF Within

(* A promise made by the servers that answered a round lasts. *)
LEMMA RoundPromiseStable ==
    ASSUME LockInv, [Next]_vars, NEW k \in Node,
           \/ put'[k].phase \notin {"Prepare", "Commit"}
           \/ /\ put'[k].phase = put[k].phase /\ put'[k].log = put[k].log
              /\ put[k].wait \cup put[k].errs \subseteq put'[k].wait \cup put'[k].errs
    PROVE  RoundPromise(k)'
<1>1. CASE put'[k].phase \notin {"Prepare", "Commit"}
    BY <1>1 DEF RoundPromise
<1>2. CASE /\ put'[k].phase = put[k].phase /\ put'[k].log = put[k].log
           /\ put[k].wait \cup put[k].errs \subseteq put'[k].wait \cup put'[k].errs
    <2>1. RoundPromise(k) /\ TypeInv
        BY DEF LockInv, WindowInv, DataInv
    <2>2. ASSUME put[k].phase \in {"Prepare", "Commit"}, NEW f \in Node,
                 Within(put[k].log, f)
          PROVE  Within(put[k].log, f)'
        <3>1. Len(put[k].log) = committed[k] + 1
            BY <2>1, <2>2, RoundData
        <3>2. \A i \in Node : committed[i] \in Nat /\ committed'[i] \in Nat
                              /\ committed[i] <= committed'[i]
            BY <2>1, CommittedGrows
        <3> QED
            BY <1>2, <2>2, <3>1, <3>2 DEF Within
    <2> QED
        BY <1>2, <2>1, <2>2 DEF RoundPromise
<1> QED
    BY <1>1, <1>2

(* The promise behind a call on its way lasts. *)
LEMMA CallPromiseStable ==
    ASSUME LockInv, [Next]_vars, NEW m \in net
    PROVE  CallPromise(m)'
<1>1. TypeInv /\ CallPromise(m)
    BY DEF LockInv, WindowInv, DataInv
<1>2. Len(m.log) \in Nat
    BY <1>1 DEF TypeInv, CallsCarryLogs
<1>3. \A f \in Node : Within(m.log, f) => Within(m.log, f)'
    BY <1>1, <1>2, WithinStable
<1> QED
    BY <1>1, <1>3 DEF CallPromise

(* A server that commits a Log within one of everybody keeps LockStep. *)
LEMMA LockStepStable ==
    ASSUME LockInv, [Next]_vars, NEW n \in Node,
           \A k \in Node : k # n => committed'[k] = committed[k],
           \A k \in Node : committed'[n] <= committed[k] + 1
    PROVE  LockStep'
<1>1. \A k \in Node : committed[k] \in Nat /\ committed'[k] \in Nat
                      /\ committed[k] <= committed'[k]
    BY CommittedGrows DEF LockInv, WindowInv, DataInv
<1>2. LockStep
    BY DEF LockInv
<1> QED
    BY <1>1, <1>2 DEF LockStep

(* NewLog preserves the invariant. *)
LEMMA LockNewLog ==
    ASSUME StaticPeers, LockInv, [Next]_vars,
           NEW n \in Node, NEW d \in Requests, NewLog(n, d)
    PROVE  /\ \A k \in Node : RoundPromise(k)'
           /\ \A m \in net' : CallPromise(m)'
           /\ LockStep'
<1>1. TypeInv
    BY DEF LockInv, WindowInv, DataInv
<1>2. PICK l \in Chain, r \in Round :
        /\ r.phase = "Prepare" /\ r.log = l /\ r.wait = Others(n)
        /\ put' = [put EXCEPT ![n] = r]
        /\ net' = net \cup Calls(n, "Prepare", l)
    BY Zenon, <1>1, NewLogRound DEF TypeInv
<1>3. put'[n] = r /\ \A k \in Node : k # n => put'[k] = put[k]
    BY Zenon, <1>1, <1>2, RoundStep DEF TypeInv
<1>4. Others(n) = Node \ {n}
    BY <1>1 DEF Others, StaticPeers, TypeInv, TypeOK
<1>5. RoundPromise(n)'
    BY <1>2, <1>3, <1>4 DEF RoundPromise
<1>6. \A k \in Node : k # n => RoundPromise(k)'
    BY <1>3, RoundPromiseStable
<1>7. \A m \in Calls(n, "Prepare", l) : m.method = "Prepare"
    BY <1>1, CallsFacts DEF TypeInv, Method
<1>8. \A m \in net' : CallPromise(m)'
    BY <1>2, <1>7, CallPromiseStable DEF CallPromise
<1>9. LockStep'
    BY DEF LockInv, LockStep, NewLog, durable
<1> QED
    BY <1>5, <1>6, <1>8, <1>9

(* Every server has answered the prepare of this Log. *)
LEMMA LockBeginCommit ==
    ASSUME LockInv, [Next]_vars, NEW n \in Node, BeginCommit(n)
    PROVE  /\ \A k \in Node : RoundPromise(k)'
           /\ \A m \in net' : CallPromise(m)'
           /\ LockStep'
<1> DEFINE l == put[n].log
<1>1. TypeInv /\ RoundPromise(n)
    BY DEF LockInv, WindowInv, DataInv
<1>2. /\ put[n].phase = "Prepare" /\ put[n].wait = {} /\ put[n].errs = {}
      /\ net' = net \cup Calls(n, "Commit", l) /\ committed' = committed
    BY DEF BeginCommit, PhaseEnds
<1>3. l \in Chain /\ Len(l) = committed[n] + 1 /\ committed[n] \in Nat
    BY <1>1, <1>2, RoundData DEF TypeInv, TypeOK
<1>4. \A f \in Node : Within(l, f)
    BY <1>1, <1>2, <1>3 DEF RoundPromise, Within
<1>5. PICK r \in Round : /\ r.phase = "Commit" /\ r.log = l
                         /\ put' = [put EXCEPT ![n] = r]
    BY <1>1, BeginCommitRound DEF TypeInv
<1>6. put'[n] = r /\ \A k \in Node : k # n => put'[k] = put[k]
    BY Zenon, <1>1, <1>5, RoundStep DEF TypeInv
<1>7. \A k \in Node : k # n => RoundPromise(k)'
    BY <1>6, RoundPromiseStable
<1>8. \A m \in Calls(n, "Commit", l) : m.log = l
    BY <1>1, <1>3, CallsFacts DEF TypeInv, Method
<1> HIDE DEF l
<1>9. RoundPromise(n)'
    BY <1>2, <1>4, <1>5, <1>6 DEF RoundPromise, Within
<1>10. \A m \in net' : CallPromise(m)'
    BY <1>2, <1>4, <1>8, CallPromiseStable DEF CallPromise, Within
<1>11. LockStep'
    BY <1>2 DEF LockInv, LockStep
<1> QED
    BY <1>7, <1>9, <1>10, <1>11

(* BeginRollback preserves the invariant. *)
LEMMA LockBeginRollback ==
    ASSUME LockInv, [Next]_vars, NEW n \in Node, BeginRollback(n)
    PROVE  /\ \A k \in Node : RoundPromise(k)'
           /\ \A m \in net' : CallPromise(m)'
           /\ LockStep'
<1> DEFINE l == put[n].log
<1>1. TypeInv
    BY DEF LockInv, WindowInv, DataInv
<1>2. /\ put[n].phase = "Prepare"
      /\ net' = net \cup Calls(n, "Rollback", l) /\ committed' = committed
    BY DEF BeginRollback, PhaseEnds
<1>3. l \in Chain
    BY <1>1, <1>2, RoundData
<1>4. PICK r \in Round : /\ r.phase = "Rollback"
                         /\ put' = [put EXCEPT ![n] = r]
    BY <1>1, BeginRollbackRound DEF TypeInv
<1>5. put'[n] = r /\ \A k \in Node : k # n => put'[k] = put[k]
    BY Zenon, <1>1, <1>4, RoundStep DEF TypeInv
<1>6. \A k \in Node : RoundPromise(k)'
    BY <1>4, <1>5, RoundPromiseStable
<1>7. \A m \in Calls(n, "Rollback", l) : m.method = "Rollback"
    BY <1>1, <1>3, CallsFacts DEF TypeInv, Method
<1>8. \A m \in net' : CallPromise(m)'
    BY <1>2, <1>7, CallPromiseStable DEF CallPromise
<1>9. LockStep'
    BY <1>2 DEF LockInv, LockStep
<1> QED
    BY <1>6, <1>8, <1>9

(* Steps that send nothing. *)
LEMMA LockQuiet ==
    ASSUME LockInv, [Next]_vars, NEW n \in Node,
           net' \subseteq net,
           \A k \in Node : k # n => put'[k] = put[k],
           \/ put'[n].phase = "none"
           \/ /\ put'[n].phase = put[n].phase /\ put'[n].log = put[n].log
              /\ put[n].wait \cup put[n].errs \subseteq put'[n].wait \cup put'[n].errs
    PROVE  /\ \A k \in Node : RoundPromise(k)'
           /\ \A m \in net' : CallPromise(m)'
<1>1. \A k \in Node : RoundPromise(k)'
    BY RoundPromiseStable
<1> QED
    BY <1>1, CallPromiseStable

(* EndCommit preserves the invariant. *)
LEMMA LockEndCommit ==
    ASSUME LockInv, [Next]_vars, NEW n \in Node, EndCommit(n)
    PROVE  LockStep'
<1>1. /\ put[n].phase = "Commit" /\ TypeInv /\ RoundPromise(n)
      /\ committed' = [committed EXCEPT ![n] = Len(put[n].log)]
    BY DEF EndCommit, PhaseEnds, LockInv, WindowInv, DataInv
<1>2. \A f \in Node : Len(put[n].log) <= committed[f] + 1
    BY <1>1 DEF RoundPromise, Within
<1>3. /\ committed'[n] = Len(put[n].log)
      /\ \A k \in Node : k # n => committed'[k] = committed[k]
    BY <1>1 DEF TypeInv, TypeOK
<1> QED
    BY <1>2, <1>3, LockStepStable

(* The handlers of a follower preserve the invariant. *)
LEMMA LockProcess ==
    ASSUME LockInv, [Next]_vars, NEW m \in net, Process(m)
    PROVE  /\ \A k \in Node : RoundPromise(k)'
           /\ \A i \in net' : CallPromise(i)'
           /\ LockStep'
<1> DEFINE f == m.to
           n == m.from
<1>1. TypeInv /\ WindowInv'
    BY WindowStep DEF LockInv, WindowInv, DataInv
<1>2. PICK ok \in BOOLEAN : Handles(m, ok)
    BY ProcessCases
<1>3. Answer(m, ok)
    BY Zenon, <1>2 DEF Handles, DoesNothing, StoresLog, CommitsLog, RollsBack
<1>4. f \in Node /\ n \in Node /\ Len(m.log) \in Nat \ {0} /\ m.method \in Method
    BY <1>1, CallData
<1>5. \A k \in Node : committed[k] \in Nat /\ committed'[k] \in Nat
                      /\ committed[k] <= committed'[k]
    BY <1>1, CommittedGrows
<1>6. net' = net \ {m} /\ \A i \in net' : CallPromise(i)'
    BY Zenon, <1>1, <1>3, AnswerFacts, CallPromiseStable DEF TypeInv
<1>7. ASSUME m.method = "Prepare", ok PROVE Within(m.log, f)'
    <2>1. Len(log'[f]) <= committed'[f] + 1 /\ log' \in [Node -> Chain]
        BY <1>1, <1>4 DEF WindowInv, DataInv, TypeInv, TypeOK, Window
    <2>2. Len(log'[f]) \in Nat
        BY <1>4, <2>1 DEF Chain
    <2>3. Len(m.log) <= Len(log'[f])
        <3>1. CASE DoesNothing(m, ok)
            <4>1. log' = log /\ Len(log[f]) >= Len(m.log)
                BY <1>7, <3>1 DEF DoesNothing, Logged
            <4> QED
                BY <1>4, <2>2, <4>1
        <3>2. CASE StoresLog(m, ok)
            <4>1. log'[f] = m.log
                BY Zenon, <1>1, <3>2, StoredChain DEF StoresLog
            <4> QED
                BY <1>4, <4>1
        <3> QED
            BY Zenon, <1>2, <1>7, <3>1, <3>2 DEF Handles, CommitsLog, RollsBack
    <2> QED
        BY <1>4, <1>5, <2>1, <2>3, <2>2 DEF Within
<1>8. ASSUME NEW k \in Node PROVE RoundPromise(k)'
    <2>1. CASE put'[k] = put[k]
        BY <2>1, RoundPromiseStable
    <2>2. CASE /\ k = n /\ put[k].phase = m.method
               /\ put[k].log = m.log /\ f \in put[k].wait
               /\ put'[k].wait = put[k].wait \ {f}
               /\ ~ok => f \in put'[k].errs
               /\ put[k].errs \subseteq put'[k].errs
        <3>1. put'[k].phase = put[k].phase /\ put'[k].log = put[k].log
            BY <1>1, <1>3, AnswerFacts DEF TypeInv
        <3>2. RoundPromise(k)
            BY DEF LockInv
        <3>3. \A g \in Node : Within(m.log, g) => Within(m.log, g)'
            BY <1>1, <1>4, WithinStable
        <3>4. CASE put[k].phase = "Prepare"
            <4>1. \A g \in Node \ {k} : \/ g \in put'[k].wait \cup put'[k].errs
                                        \/ g = f /\ ok
                                        \/ Within(m.log, g)
                BY <2>2, <3>2, <3>4 DEF RoundPromise
            <4>2. \A g \in Node \ {k} : \/ g \in put'[k].wait \cup put'[k].errs
                                        \/ Within(m.log, g)'
                BY <1>7, <2>2, <3>3, <3>4, <4>1
            <4> QED
                BY <2>2, <3>1, <3>4, <4>2 DEF RoundPromise, Within
        <3>5. CASE put[k].phase = "Commit"
            BY <2>2, <3>1, <3>2, <3>3, <3>5 DEF RoundPromise, Within
        <3> QED
            BY <3>1, <3>4, <3>5 DEF RoundPromise
    <2> QED
        BY <1>1, <1>3, <2>1, <2>2, AnswerFacts DEF TypeInv
<1>9. LockStep'
    <2>1. CASE committed' = committed
        BY <2>1 DEF LockInv, LockStep
    <2>2. CASE /\ m.method = "Commit"
               /\ committed' = [committed EXCEPT ![f] = Len(m.log)]
        <3>1. \A k \in Node : Len(m.log) <= committed[k] + 1
            BY <2>2 DEF LockInv, CallPromise, Within
        <3>2. /\ committed'[f] = Len(m.log)
              /\ \A k \in Node : k # f => committed'[k] = committed[k]
            BY <1>1, <1>4, <2>2 DEF TypeInv, TypeOK
        <3> QED
            BY <1>4, <3>1, <3>2, LockStepStable
    <2> QED
        BY Zenon, <1>2, <2>1, <2>2 DEF Handles, DoesNothing, StoresLog, CommitsLog, RollsBack
<1> QED
    BY <1>6, <1>8, <1>9

(* Every step preserves the invariant. *)
LEMMA LockStays ==
    ASSUME StaticPeers, LockInv, [Next]_vars
    PROVE  LockInv'
<1> DEFINE P == /\ \A k \in Node : RoundPromise(k)'
                /\ \A m \in net' : CallPromise(m)'
                /\ LockStep'
<1>0. TypeInv /\ LockStep
    BY DEF LockInv, WindowInv, DataInv
<1>a. committed' = committed => LockStep'
    BY <1>0 DEF LockStep
<1>1. \A n \in Node, d \in Requests : NewLog(n, d) => P
    BY LockNewLog
<1>2. \A n \in Node : BeginCommit(n) => P
    BY LockBeginCommit
<1>3. \A n \in Node : BeginRollback(n) => P
    BY LockBeginRollback
<1>b. NoRound \in Round /\ NoRound.phase = "none"
    BY DEF NoRound, Round, Chain, Method
<1>c. ASSUME NEW n \in Node, net' \subseteq net, put' = [put EXCEPT ![n] = NoRound],
             LockStep'
      PROVE  P
    <2>1. put'[n].phase = "none" /\ \A k \in Node : k # n => put'[k] = put[k]
        BY Zenon, <1>0, <1>b, <1>c, RoundStep DEF TypeInv
    <2> QED
        BY <1>c, <2>1, LockQuiet
<1>4. ASSUME NEW n \in Node, EndCommit(n) PROVE P
    <2>1. net' \subseteq net /\ put' = [put EXCEPT ![n] = NoRound]
        BY <1>4 DEF EndCommit
    <2> QED
        BY Zenon, <1>4, <1>c, <2>1, LockEndCommit
<1>5. ASSUME NEW n \in Node, EndRollback(n) PROVE P
    <2>1. /\ net' \subseteq net /\ put' = [put EXCEPT ![n] = NoRound]
          /\ committed' = committed
        BY <1>5 DEF EndRollback, durable
    <2> QED
        BY Zenon, <1>a, <1>c, <2>1
<1>6. ASSUME NEW n \in Node, RoundTimeout(n) \/ \E f \in Node : CallError(n, f)
      PROVE  P
    <2>1. net' \subseteq net /\ committed' = committed
        BY Zenon, <1>6 DEF RoundTimeout, CallError, durable
    <2>2. PICK r \in Round :
            /\ r.phase = put[n].phase /\ r.log = put[n].log
            /\ r.wait \cup r.errs = put[n].wait \cup put[n].errs
            /\ put' = [put EXCEPT ![n] = r]
        BY <1>0, <1>6, FailureRound DEF TypeInv
    <2>3. put'[n] = r /\ \A k \in Node : k # n => put'[k] = put[k]
        BY Zenon, <1>0, <2>2, RoundStep DEF TypeInv
    <2> QED
        BY <1>a, <2>1, <2>2, <2>3, LockQuiet
<1>7. \A m \in net : Process(m) => P
    BY LockProcess
<1>8. ASSUME NEW n \in Node, Stops(n) PROVE P
    <2>1. /\ net' \subseteq net /\ put' = [put EXCEPT ![n] = NoRound]
          /\ committed' = committed
        BY <1>8 DEF Stops, StopNode
    <2> QED
        BY Zenon, <1>a, <1>c, <2>1
<1>9. ASSUME NEW n \in Node, NEW t \in Terms, Restart(n, t) PROVE P
    <2>1. net' \subseteq net /\ put' = put /\ committed' = committed
        BY <1>9 DEF Restart
    <2> QED
        BY <1>a, <2>1, LockQuiet
<1>10. ASSUME Background PROVE P
    <2>1. net' \subseteq net /\ put' = put /\ committed' = committed
        BY <1>10 DEF Background
    <2>2. PICK n \in Node : TRUE
        BY LeaderInNode
    <2> QED
        BY <1>a, <2>1, <2>2, LockQuiet
<1> HIDE DEF P
<1>11. P
    BY <1>0, <1>1, <1>2, <1>3, <1>4, <1>5, <1>6, <1>7, <1>8, <1>9, <1>10, NextCases
<1>12. WindowInv'
    BY WindowStep DEF LockInv
<1> QED
    BY <1>11, <1>12 DEF P, LockInv

(* When every peer list names the same servers, whoever leads in each term, *)
(* no server ever commits more than one Log further than another, for every *)
(* number of servers and all faults: processPrepare is the barrier, and it  *)
(* holds because Storage keeps one transaction open at a time.              *)
THEOREM LockStepHolds ==
    ASSUME StaticPeers
    PROVE  Spec => []LockStep
<1>1. Init => LockInv
    <2> SUFFICES ASSUME Init PROVE LockInv
        OBVIOUS
    <2>1. \A n \in Node : put[n].phase = "none" /\ committed[n] = 0
        BY DEF Init, NoRound
    <2>2. /\ \A n \in Node : RoundPromise(n)
          /\ \A m \in net : CallPromise(m)
        BY <2>1 DEF Init, RoundPromise, CallPromise
    <2>3. LockStep
        BY <2>1 DEF LockStep
    <2> QED
        BY <2>2, <2>3, InitWindow DEF LockInv
<1>2. LockInv /\ [Next]_vars => LockInv'
    BY LockStays
<1>3. LockInv => LockStep
    BY DEF LockInv
<1> QED
    BY <1>1, <1>2, <1>3, PTL DEF Spec
=============================================================================
