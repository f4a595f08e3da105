------------------------- MODULE KayakTwoPC_proofs -------------------------
(* Proofs about KayakTwoPC, for every value of its constants. *)
EXTENDS KayakTwoPC, TLAPS

(* Every operation of the storage returns a storage. *)
LEMMA StorageOps ==
    ASSUME NEW s \in StorageType, NEW d \in Requests, NEW x
    PROVE  /\ AfterPrepare(s, d) \in StorageType
           /\ AfterCommit(s, d, x) \in StorageType
           /\ AfterLostCommit(s, d) \in StorageType
           /\ AfterRollback(s, d, x) \in StorageType
           /\ AfterExpiry(s) \in StorageType
           /\ AfterReopen(s) \in StorageType
<1>1. d.conn \in Conns /\ d.seq \in Nat
    BY RequestAssumption DEF Conns
<1>2. RecordSequence(s, d) \in StorageType
    BY Zenon, <1>1 DEF StorageType, RecordSequence
<1>a. ASSUME NEW r \in StorageType
      PROVE  CloseTx(r) \in StorageType
    BY Zenon DEF StorageType, CloseTx
<1>b. ASSUME NEW r \in StorageType
      PROVE  [r EXCEPT !.db = Append(@, d)] \in StorageType
    <2>1. r.db \in Seq(Requests)
        BY DEF StorageType
    <2>2. Append(r.db, d) \in Seq(Requests)
        BY <2>1
    <2> QED
        BY Zenon, <2>2 DEF StorageType
<1>3. ASSUME NEW r \in StorageType
      PROVE  /\ CloseTx(r) \in StorageType
             /\ [CloseTx(r) EXCEPT !.db = Append(@, d)] \in StorageType
    BY <1>a, <1>b
<1>4. AfterCommit(s, d, x) \in StorageType
    BY Zenon, <1>2, <1>3 DEF AfterCommit
<1>5. AfterRollback(s, d, x) \in StorageType
    BY Zenon, <1>2, <1>3 DEF AfterRollback
<1>6. AfterLostCommit(s, d) \in StorageType
    BY Zenon, <1>2, <1>3 DEF AfterLostCommit
<1>7. AfterPrepare(s, d) \in StorageType
    BY Zenon DEF AfterPrepare, StorageType
<1>8. AfterExpiry(s) \in StorageType
    BY Zenon DEF AfterExpiry, StorageType
<1>9. AfterReopen(s) \in StorageType
    BY Zenon DEF AfterReopen, NewStorage, StorageType
<1> QED
    BY <1>4, <1>5, <1>6, <1>7, <1>8, <1>9

-----------------------------------------------------------------------------
(* A round holds a Log that extends what the node has committed; a node     *)
(* that is down is in no round; a call carries a Log.                       *)
RoundOK(n) ==
    /\ ~up[n] => put[n].phase = "none"
    /\ put[n].phase # "none" =>
        /\ Len(put[n].log) = committed[n] + 1
        /\ \A i \in 1 .. committed[n] : put[n].log[i] = log[n][i]
    /\ put[n].phase = "Commit" => log[n] = put[n].log

RoundShape == \A n \in Node : RoundOK(n)

CallsCarryLogs == \A m \in net : Len(m.log) \in Nat \ {0}

TypeInv == TypeOK /\ RoundShape /\ CallsCarryLogs

(* The leader of a node is a server, and a node does not call itself. *)
LEMMA ConfigFacts ==
    ASSUME TypeOK, NEW n \in Node
    PROVE  /\ Leader(n) \in Node
           /\ Others(n) \subseteq Node
           /\ n \notin Others(n)
BY KayakAssumption DEF TypeOK, Leader, Others

(* The initial state satisfies the invariant. *)
LEMMA InitTypeInv == Init => TypeInv
<1> SUFFICES ASSUME Init PROVE TypeInv
    OBVIOUS
<1>1. 1 \in Terms
    BY KayakAssumption
<1>2. NewStorage \in StorageType
    BY DEF NewStorage, StorageType
<1>3. NoRound \in Round
    BY DEF NoRound, Round, Method, Chain
<1>4. TypeOK
    BY <1>1, <1>2, <1>3 DEF Init, TypeOK, Chain
<1>5. RoundShape /\ CallsCarryLogs
    BY DEF Init, RoundShape, RoundOK, CallsCarryLogs, NoRound
<1> QED
    BY <1>4, <1>5 DEF TypeInv

-----------------------------------------------------------------------------
(* What the helpers of the actions return. *)

(* The request of a non-empty Log is a request. *)
LEMMA DataFacts ==
    ASSUME NEW l \in Chain, Len(l) # 0
    PROVE  Newest(l) \in Entry /\ Data(l) \in Requests
<1>1. Newest(l) \in Entry
    BY DEF Chain, Newest
<1> QED
    BY <1>1 DEF Data, Entry

(* The committed log is a chain, a prefix of the log store. *)
LEMMA CommittedLogFacts ==
    ASSUME TypeOK, NEW n \in Node
    PROVE  /\ DropUncommitted(n) = CommittedLog(n)
           /\ CommittedLog(n) \in Chain
           /\ Len(CommittedLog(n)) = committed[n]
           /\ \A i \in 1 .. committed[n] : CommittedLog(n)[i] = log[n][i]
<1>1. /\ log[n] \in Seq(Entry)
      /\ committed[n] \in Nat
      /\ committed[n] <= Len(log[n])
    BY DEF TypeOK, Chain
<1> QED
    BY <1>1 DEF CommittedLog, DropUncommitted, Chain

(* The calls of a phase are calls that carry the Log of the round. *)
LEMMA CallsFacts ==
    ASSUME TypeOK, NEW n \in Node, NEW k \in Method, NEW l \in Chain
    PROVE  /\ Calls(n, k, l) \subseteq Call
           /\ \A m \in Calls(n, k, l) : /\ m.method = k /\ m.log = l
                                        /\ m.from = n /\ m.to \in Others(n)
BY ConfigFacts DEF Calls, Call

(* An answer touches nothing of a round but wait and errs. *)
LEMMA AnswerFacts ==
    ASSUME TypeOK, NEW m \in net, NEW ok \in BOOLEAN, Answer(m, ok)
    PROVE  /\ net' = net \ {m}
           /\ put' \in [Node -> Round]
           /\ \A n \in Node : /\ put'[n].phase = put[n].phase
                              /\ put'[n].log = put[n].log
           /\ \A n \in Node :
                \/ put'[n] = put[n]
                \/ /\ n = m.from /\ put[n].phase = m.method
                   /\ put[n].log = m.log /\ m.to \in put[n].wait
                   /\ put'[n].wait = put[n].wait \ {m.to}
                   /\ ~ok => m.to \in put'[n].errs
                   /\ put[n].errs \subseteq put'[n].errs
<1>1. m.from \in Node /\ m.to \in Node /\ put \in [Node -> Round]
    BY DEF TypeOK, Call
<1>2. net' = net \ {m}
    BY DEF Answer
<1>3. CASE put' = put
    BY <1>1, <1>2, <1>3
<1>4. CASE /\ put[m.from].phase = m.method
           /\ put[m.from].log = m.log
           /\ m.to \in put[m.from].wait
    <2> DEFINE c == put[m.from]
               w == c.wait \ {m.to}
               e == IF ok THEN c.errs ELSE c.errs \cup {m.to}
               r == [c EXCEPT !.wait = w, !.errs = e]
    <2>1. put' = [put EXCEPT ![m.from] = r]
        BY <1>1, <1>4 DEF Answer
    <2>2. /\ c \in Round /\ w \in SUBSET Node /\ e \in SUBSET Node
          /\ c.errs \subseteq e
        BY <1>1 DEF Round
    <2>3. ~ok => m.to \in e
        OBVIOUS
    <2>4. /\ r \in Round /\ r.phase = c.phase /\ r.log = c.log
          /\ r.wait = w /\ r.errs = e
        <3> HIDE DEF c, w, e
        <3> QED BY Zenon, <2>2 DEF Round
    <2> HIDE DEF e
    <2> HIDE DEF r
    <2>5. /\ put' \in [Node -> Round]
          /\ put'[m.from] = r
          /\ \A n \in Node : n # m.from => put'[n] = put[n]
        BY <1>1, <2>1, <2>4
    <2>6. \A n \in Node : /\ put'[n].phase = put[n].phase
                          /\ put'[n].log = put[n].log
        BY <2>4, <2>5
    <2> QED
        BY <1>2, <1>4, <2>2, <2>3, <2>4, <2>5, <2>6
<1> QED
    BY Zenon, <1>3, <1>4 DEF Answer

(* The step of a round: put'[n] = [put[n] EXCEPT ...] in the actions of a   *)
(* leader, written with the values of its fields.                           *)
LEMMA RoundStep ==
    ASSUME TypeOK, NEW n \in Node, NEW r \in Round,
           put' = [put EXCEPT ![n] = r]
    PROVE  /\ put' \in [Node -> Round]
           /\ put'[n] = r
           /\ \A k \in Node : k # n => put'[k] = put[k]
BY DEF TypeOK

(* The round that processNewLog opens. *)
LEMMA NewLogRound ==
    ASSUME TypeOK, NEW n \in Node, NEW d \in Requests, NewLog(n, d)
    PROVE  \E l \in Chain, r \in Round :
            /\ l = Append(CommittedLog(n), [term |-> term[n], data |-> d])
            /\ r.phase = "Prepare" /\ r.log = l
            /\ r.wait = Others(n) /\ r.errs = {}
            /\ put' = [put EXCEPT ![n] = r]
            /\ net' = net \cup Calls(n, "Prepare", l)
<1> DEFINE w == Others(n)
           e == [term |-> term[n], data |-> d]
           l == Append(CommittedLog(n), e)
           r == [NoRound EXCEPT !.phase = "Prepare", !.log = l, !.wait = w]
<1>1. w \in SUBSET Node
    BY ConfigFacts
<1>2. e \in Entry
    BY DEF TypeOK, Entry
<1>3. l \in Chain
    <2> HIDE DEF e
    <2> QED BY <1>2, CommittedLogFacts DEF Chain
<1>4. put' = [put EXCEPT ![n] = r] /\ net' = net \cup Calls(n, "Prepare", l)
    BY DEF NewLog
<1>5. /\ r \in Round /\ r.phase = "Prepare" /\ r.log = l
      /\ r.wait = w /\ r.errs = {}
    <2> HIDE DEF l, w
    <2> QED BY Zenon, <1>1, <1>3 DEF Round, NoRound, Method
<1> HIDE DEF r
<1> QED
    BY Zenon, <1>3, <1>4, <1>5

(* The round when its commit phase begins. *)
LEMMA BeginCommitRound ==
    ASSUME TypeOK, NEW n \in Node, BeginCommit(n)
    PROVE  \E r \in Round :
            /\ r.phase = "Commit" /\ r.log = put[n].log
            /\ put' = [put EXCEPT ![n] = r]
<1> DEFINE c == put[n]
           w == Others(n)
           r == [c EXCEPT !.phase = "Commit", !.wait = w]
<1>1. c \in Round /\ w \in SUBSET Node
    BY ConfigFacts DEF TypeOK
<1>2. put' = [put EXCEPT ![n] = r]
    BY DEF BeginCommit
<1>3. r \in Round /\ r.phase = "Commit" /\ r.log = c.log
    <2> HIDE DEF c, w
    <2> QED BY Zenon, <1>1 DEF Round, Method
<1> HIDE DEF r
<1> QED
    BY Zenon, <1>2, <1>3

(* The round when its rollback phase begins. *)
LEMMA BeginRollbackRound ==
    ASSUME TypeOK, NEW n \in Node, BeginRollback(n)
    PROVE  \E r \in Round :
            /\ r.phase = "Rollback" /\ r.log = put[n].log
            /\ put' = [put EXCEPT ![n] = r]
<1> DEFINE c == put[n]
           w == IF put[n].dead THEN {} ELSE Others(n)
           r == [c EXCEPT !.phase = "Rollback", !.errs = {}, !.wait = w]
<1>1. c \in Round /\ w \in SUBSET Node
    BY ConfigFacts DEF TypeOK
<1>2. put' = [put EXCEPT ![n] = r]
    BY DEF BeginRollback
<1>3. r \in Round /\ r.phase = "Rollback" /\ r.log = c.log
    <2> HIDE DEF c, w
    <2> QED BY Zenon, <1>1 DEF Round, Method
<1> HIDE DEF r
<1> QED
    BY Zenon, <1>2, <1>3

(* A call that fails, or all of them when the context ends. *)
LEMMA FailureRound ==
    ASSUME TypeOK, NEW n \in Node,
           RoundTimeout(n) \/ \E f \in Node : CallError(n, f)
    PROVE  \E r \in Round :
            /\ r.phase = put[n].phase /\ r.log = put[n].log
            /\ r.wait \cup r.errs = put[n].wait \cup put[n].errs
            /\ put[n].errs \subseteq r.errs
            /\ put' = [put EXCEPT ![n] = r]
<1> DEFINE c == put[n]
<1>1. c \in Round /\ c.wait \in SUBSET Node /\ c.errs \in SUBSET Node
    BY DEF TypeOK, Round
<1>2. CASE RoundTimeout(n)
    <2> DEFINE e == c.errs \cup c.wait
               r == [c EXCEPT !.wait = {}, !.dead = TRUE, !.errs = e]
    <2>1. put' = [put EXCEPT ![n] = r]
        BY <1>2 DEF RoundTimeout
    <2>2. e \in SUBSET Node
        BY <1>1
    <2>3. /\ r \in Round /\ r.phase = c.phase /\ r.log = c.log
          /\ r.wait = {} /\ r.errs = e
        <3> HIDE DEF c, e
        <3> QED BY Zenon, <1>1, <2>2 DEF Round
    <2> HIDE DEF r
    <2> QED
        BY Zenon, <2>1, <2>3
<1>3. ASSUME NEW f \in Node, CallError(n, f)
      PROVE  \E r \in Round :
                /\ r.phase = put[n].phase /\ r.log = put[n].log
                /\ r.wait \cup r.errs = put[n].wait \cup put[n].errs
                /\ put[n].errs \subseteq r.errs
                /\ put' = [put EXCEPT ![n] = r]
    <2> DEFINE e == c.errs \cup {f}
               w == c.wait \ {f}
               r == [c EXCEPT !.wait = w, !.errs = e]
    <2>1. put' = [put EXCEPT ![n] = r] /\ f \in c.wait
        BY Zenon, <1>3 DEF CallError
    <2>2. e \in SUBSET Node /\ w \in SUBSET Node
        BY <1>1
    <2>3. /\ r \in Round /\ r.phase = c.phase /\ r.log = c.log
          /\ r.wait = w /\ r.errs = e
        <3> HIDE DEF c, e, w
        <3> QED BY Zenon, <1>1, <2>2 DEF Round
    <2> HIDE DEF r
    <2> QED
        BY Zenon, <2>1, <2>3
<1> QED
    BY <1>2, <1>3

-----------------------------------------------------------------------------
(* The storage of one node changes to a storage. *)
LEMMA StoreStep ==
    ASSUME TypeOK, NEW n \in Node, NEW s \in StorageType,
           store' = [store EXCEPT ![n] = s]
    PROVE  store' \in [Node -> StorageType]
BY DEF TypeOK

(* The Log of an open round carries a request. *)
LEMMA RoundData ==
    ASSUME TypeInv, NEW n \in Node, put[n].phase # "none"
    PROVE  /\ put[n].log \in Chain /\ Len(put[n].log) = committed[n] + 1
           /\ Data(put[n].log) \in Requests
           /\ store[n] \in StorageType
<1>1. put[n] \in Round /\ store[n] \in StorageType /\ committed[n] \in Nat
    BY DEF TypeInv, TypeOK
<1>2. put[n].log \in Chain /\ Len(put[n].log) = committed[n] + 1
    BY <1>1 DEF TypeInv, RoundShape, RoundOK, Round
<1> QED
    BY <1>1, <1>2, DataFacts

(* A round that a step leaves alone keeps its shape. *)
LEMMA RoundFrame ==
    ASSUME TypeInv, NEW k \in Node,
           up'[k] = up[k], put'[k].phase = put[k].phase,
           put'[k].log = put[k].log, log'[k] = log[k],
           committed'[k] = committed[k]
    PROVE  RoundOK(k)'
BY DEF TypeInv, RoundShape, RoundOK

(* NewLog preserves the invariant. *)
LEMMA NewLogType ==
    ASSUME TypeInv, NEW n \in Node, NEW d \in Requests, NewLog(n, d)
    PROVE  TypeInv'
<1> USE DEF TypeInv
<1>1. PICK l \in Chain, r \in Round :
        /\ l = Append(CommittedLog(n), [term |-> term[n], data |-> d])
        /\ r.phase = "Prepare" /\ r.log = l
        /\ put' = [put EXCEPT ![n] = r]
        /\ net' = net \cup Calls(n, "Prepare", l)
    BY NewLogRound
<1>2. /\ Len(l) = committed[n] + 1
      /\ \A i \in 1 .. committed[n] : l[i] = log[n][i]
    <2> DEFINE c == CommittedLog(n)
               e == [term |-> term[n], data |-> d]
    <2>1. /\ c \in Seq(Entry) /\ Len(c) = committed[n]
          /\ \A i \in 1 .. committed[n] : c[i] = log[n][i]
        BY CommittedLogFacts DEF Chain
    <2>2. l = Append(c, e) /\ e \in Entry
        BY <1>1 DEF TypeOK, Entry
    <2> HIDE DEF c, e
    <2> QED
        BY <2>1, <2>2
<1>3. /\ put' \in [Node -> Round] /\ put'[n] = r
      /\ \A k \in Node : k # n => put'[k] = put[k]
    BY Zenon, <1>1, RoundStep
<1>4. /\ Calls(n, "Prepare", l) \subseteq Call
      /\ \A m \in Calls(n, "Prepare", l) : m.log = l
    BY CallsFacts DEF Method
<1>5. /\ UNCHANGED <<up, state, term, log, committed, store, stale, acked>>
      /\ calling' = [calling EXCEPT ![n] = NoRequest]
    BY DEF NewLog, durable
<1>6. TypeOK'
    BY <1>1, <1>3, <1>4, <1>5 DEF TypeOK, NewLog
<1>7. RoundShape'
    <2>1. up[n]
        BY DEF NewLog
    <2>2. RoundOK(n)'
        BY Zenon, <1>1, <1>2, <1>3, <1>5, <2>1 DEF RoundOK
    <2>3. ASSUME NEW k \in Node, k # n PROVE RoundOK(k)'
        BY <2>3, <1>3, <1>5, RoundFrame
    <2> QED
        BY <1>1, <1>2, <1>3, <1>5, <2>1, <2>2, <2>3 DEF RoundShape
<1>8. CallsCarryLogs'
    BY <1>1, <1>2, <1>4 DEF CallsCarryLogs, TypeOK
<1> QED
    BY <1>6, <1>7, <1>8

(* BeginCommit preserves the invariant. *)
LEMMA BeginCommitType ==
    ASSUME TypeInv, NEW n \in Node, BeginCommit(n)
    PROVE  TypeInv'
<1> USE DEF TypeInv
<1> DEFINE l == put[n].log
<1>1. up[n] /\ put[n].phase = "Prepare"
    BY DEF BeginCommit, PhaseEnds
<1>2. /\ l \in Chain /\ Len(l) = committed[n] + 1
      /\ Data(l) \in Requests /\ store[n] \in StorageType
    BY <1>1, RoundData
<1>3. PICK r \in Round : /\ r.phase = "Commit" /\ r.log = l
                         /\ put' = [put EXCEPT ![n] = r]
    BY BeginCommitRound
<1>4. /\ put' \in [Node -> Round] /\ put'[n] = r
      /\ \A k \in Node : k # n => put'[k] = put[k]
    BY Zenon, <1>3, RoundStep
<1>5. /\ Calls(n, "Commit", l) \subseteq Call
      /\ \A m \in Calls(n, "Commit", l) : m.log = l
    BY <1>2, CallsFacts DEF Method
<1>6. store' \in [Node -> StorageType]
    BY Zenon, <1>2, StorageOps, StoreStep DEF BeginCommit
<1>7. /\ log' = [log EXCEPT ![n] = l]
      /\ net' = net \cup Calls(n, "Commit", l)
      /\ UNCHANGED <<up, calling, state, term, committed, submitted, stale, acked>>
    BY DEF BeginCommit, clients
<1> HIDE DEF l
<1>8. /\ log' \in [Node -> Chain] /\ log'[n] = l
      /\ \A k \in Node : k # n => log'[k] = log[k]
    BY <1>2, <1>7 DEF TypeOK
<1>9. TypeOK'
    BY <1>2, <1>4, <1>5, <1>6, <1>7, <1>8 DEF TypeOK
<1>10. RoundShape'
    <2>1. RoundOK(n)'
        BY <1>1, <1>2, <1>3, <1>4, <1>7, <1>8 DEF RoundOK
    <2>2. ASSUME NEW k \in Node, k # n PROVE RoundOK(k)'
        BY <2>2, <1>4, <1>7, <1>8, RoundFrame
    <2> QED
        BY <2>1, <2>2 DEF RoundShape
<1>11. CallsCarryLogs'
    BY <1>2, <1>5, <1>7 DEF CallsCarryLogs, TypeOK
<1> QED
    BY <1>9, <1>10, <1>11

(* BeginRollback preserves the invariant. *)
LEMMA BeginRollbackType ==
    ASSUME TypeInv, NEW n \in Node, BeginRollback(n)
    PROVE  TypeInv'
<1> USE DEF TypeInv
<1> DEFINE l == put[n].log
<1>1. up[n] /\ put[n].phase = "Prepare"
    BY DEF BeginRollback, PhaseEnds
<1>2. /\ l \in Chain /\ Len(l) = committed[n] + 1
      /\ Data(l) \in Requests /\ store[n] \in StorageType
    BY <1>1, RoundData
<1>3. PICK r \in Round : /\ r.phase = "Rollback" /\ r.log = l
                         /\ put' = [put EXCEPT ![n] = r]
    BY BeginRollbackRound
<1>4. /\ put' \in [Node -> Round] /\ put'[n] = r
      /\ \A k \in Node : k # n => put'[k] = put[k]
    BY Zenon, <1>3, RoundStep
<1>5. /\ Calls(n, "Rollback", l) \subseteq Call
      /\ \A m \in Calls(n, "Rollback", l) : m.log = l
    BY <1>2, CallsFacts DEF Method
<1>6. store' \in [Node -> StorageType]
    BY Zenon, <1>2, StorageOps, StoreStep DEF BeginRollback
<1>7. /\ log' = [log EXCEPT ![n] = DropUncommitted(n)]
      /\ net' = net \cup Calls(n, "Rollback", l)
      /\ UNCHANGED <<up, calling, state, term, committed, submitted, stale, acked>>
    BY DEF BeginRollback, clients
<1>8. /\ log' \in [Node -> Chain] /\ Len(log'[n]) = committed[n]
      /\ \A i \in 1 .. committed[n] : log'[n][i] = log[n][i]
      /\ \A k \in Node : k # n => log'[k] = log[k]
    BY <1>7, CommittedLogFacts DEF TypeOK
<1>9. RoundOK(n)
    BY DEF RoundShape
<1>10. TypeOK'
    BY <1>4, <1>5, <1>6, <1>7, <1>8 DEF TypeOK
<1>11. RoundShape'
    <2>1. RoundOK(n)'
        BY <1>1, <1>2, <1>3, <1>4, <1>7, <1>8, <1>9 DEF RoundOK
    <2>2. ASSUME NEW k \in Node, k # n PROVE RoundOK(k)'
        BY <2>2, <1>4, <1>7, <1>8, RoundFrame
    <2> QED
        BY <2>1, <2>2 DEF RoundShape
<1>12. CallsCarryLogs'
    BY <1>2, <1>5, <1>7 DEF CallsCarryLogs, TypeOK
<1> QED
    BY <1>10, <1>11, <1>12

(* EndCommit preserves the invariant. *)
LEMMA EndCommitType ==
    ASSUME TypeInv, NEW n \in Node, EndCommit(n)
    PROVE  TypeInv'
<1> USE DEF TypeInv
<1> DEFINE l == put[n].log
<1>1. up[n] /\ put[n].phase = "Commit"
    BY DEF EndCommit, PhaseEnds
<1>2. /\ l \in Chain /\ Len(l) = committed[n] + 1 /\ log[n] = l
      /\ Data(l) \in Requests /\ store[n] \in StorageType
    BY <1>1, RoundData DEF RoundShape, RoundOK
<1>3. /\ AfterExpiry(AfterCommit(store[n], Data(l), stale)) \in StorageType
      /\ AfterExpiry(AfterLostCommit(store[n], Data(l))) \in StorageType
    BY Zenon, <1>2, StorageOps
<1>4. /\ store' \in [Node -> StorageType]
      /\ acked' \subseteq acked \cup {[by |-> n, log |-> l]}
    BY <1>3, StoreStep DEF EndCommit
<1>5. /\ committed' = [committed EXCEPT ![n] = Len(l)]
      /\ put' = [put EXCEPT ![n] = NoRound]
      /\ UNCHANGED <<up, calling, state, term, log, net, submitted, stale>>
    BY DEF EndCommit
<1> HIDE DEF l
<1>6. NoRound \in Round /\ NoRound.phase = "none"
    BY DEF NoRound, Round, Chain, Method
<1>7. /\ put' \in [Node -> Round] /\ put'[n] = NoRound
      /\ \A k \in Node : k # n => put'[k] = put[k]
    BY Zenon, <1>5, <1>6, RoundStep
<1>8. /\ committed' \in [Node -> Nat] /\ committed'[n] = Len(log[n])
      /\ \A k \in Node : k # n => committed'[k] = committed[k]
    BY <1>2, <1>5 DEF TypeOK, Chain
<1>9. TypeOK'
    BY <1>2, <1>4, <1>5, <1>7, <1>8 DEF TypeOK
<1>10. RoundShape'
    <2>1. RoundOK(n)'
        BY <1>6, <1>7 DEF RoundOK
    <2>2. ASSUME NEW k \in Node, k # n PROVE RoundOK(k)'
        BY <2>2, <1>5, <1>7, <1>8, RoundFrame
    <2> QED
        BY <2>1, <2>2 DEF RoundShape
<1>11. CallsCarryLogs'
    BY <1>5 DEF CallsCarryLogs
<1> QED
    BY <1>9, <1>10, <1>11

(* EndRollback preserves the invariant. *)
LEMMA EndRollbackType ==
    ASSUME TypeInv, NEW n \in Node, EndRollback(n)
    PROVE  TypeInv'
<1> USE DEF TypeInv
<1>1. /\ store' = [store EXCEPT ![n] = AfterExpiry(@)]
      /\ put' = [put EXCEPT ![n] = NoRound]
      /\ UNCHANGED <<up, calling, state, term, log, committed, net, submitted, stale, acked>>
    BY DEF EndRollback, durable, clients
<1>2. store' \in [Node -> StorageType]
    <2>1. store[n] \in StorageType
        BY DEF TypeOK
    <2>2. AfterExpiry(store[n]) \in StorageType
        BY Zenon, <2>1 DEF AfterExpiry, StorageType
    <2> QED
        BY Zenon, <1>1, <2>2, StoreStep
<1>3. NoRound \in Round /\ NoRound.phase = "none"
    BY DEF NoRound, Round, Chain, Method
<1>4. /\ put' \in [Node -> Round] /\ put'[n] = NoRound
      /\ \A k \in Node : k # n => put'[k] = put[k]
    BY Zenon, <1>1, <1>3, RoundStep
<1>5. TypeOK'
    BY <1>1, <1>2, <1>4 DEF TypeOK
<1>6. RoundShape'
    <2>1. RoundOK(n)'
        BY <1>3, <1>4 DEF RoundOK
    <2>2. ASSUME NEW k \in Node, k # n PROVE RoundOK(k)'
        BY <2>2, <1>1, <1>4, RoundFrame
    <2> QED
        BY <2>1, <2>2 DEF RoundShape
<1>7. CallsCarryLogs'
    BY <1>1 DEF CallsCarryLogs
<1> QED
    BY <1>5, <1>6, <1>7

(* A failed call and a timeout preserve the invariant. *)
LEMMA FailureType ==
    ASSUME TypeInv, NEW n \in Node,
           RoundTimeout(n) \/ \E f \in Node : CallError(n, f)
    PROVE  TypeInv'
<1> USE DEF TypeInv
<1>1. PICK r \in Round : /\ r.phase = put[n].phase /\ r.log = put[n].log
                         /\ put' = [put EXCEPT ![n] = r]
    BY FailureRound
<1>2. /\ put' \in [Node -> Round] /\ put'[n] = r
      /\ \A k \in Node : k # n => put'[k] = put[k]
    BY Zenon, <1>1, RoundStep
<1>3. /\ store' = store \/ store' = [store EXCEPT ![n] = AfterExpiry(@)]
      /\ UNCHANGED <<up, calling, state, term, log, committed, net, submitted, stale, acked>>
    BY Zenon DEF RoundTimeout, CallError, durable, clients
<1>4. store' \in [Node -> StorageType]
    <2>1. store[n] \in StorageType /\ store \in [Node -> StorageType]
        BY DEF TypeOK
    <2>2. AfterExpiry(store[n]) \in StorageType
        BY Zenon, <2>1 DEF AfterExpiry, StorageType
    <2> QED
        BY <1>3, <2>1, <2>2, StoreStep
<1>5. TypeOK'
    BY <1>2, <1>3, <1>4 DEF TypeOK
<1>6. RoundShape'
    <2>1. ASSUME NEW k \in Node PROVE RoundOK(k)'
        BY <1>1, <1>2, <1>3, RoundFrame
    <2> QED
        BY <2>1 DEF RoundShape
<1>7. CallsCarryLogs'
    BY <1>3 DEF CallsCarryLogs
<1> QED
    BY <1>5, <1>6, <1>7

(***************************************************************************)
(* The four things a follower's handler can do: nothing, store a Log,       *)
(* commit the stored Log, and roll back (or fail to).  The last parameter   *)
(* is the answer.                                                           *)
(***************************************************************************)
DoesNothing(m, ok) ==
    /\ Answer(m, ok)
    /\ m.method = "Prepare" /\ ok => Logged(m)
    /\ UNCHANGED <<state, log, committed, store>>

StoresLog(m, ok) ==
    /\ Answer(m, ok)
    /\ m.method = "Prepare" /\ m.from = Leader(m.to)
    /\ ~Logged(m) /\ Extends(m)
    /\ PrepareOK(store[m.to], Data(m.log), stale, FALSE)
    /\ store' = [store EXCEPT ![m.to] = AfterPrepare(@, Data(m.log))]
    /\ log' = [log EXCEPT ![m.to] = Append(@, Newest(m.log))]
    /\ state' = [state EXCEPT ![m.to] = "Prepared"]
    /\ UNCHANGED committed

CommitsLog(m, ok) ==
    /\ Answer(m, ok)
    /\ m.method = "Commit" /\ AtCommitPosition(m)
    /\ \/ store' = [store EXCEPT ![m.to] = AfterCommit(@, Data(m.log), stale)]
       \/ store' = [store EXCEPT ![m.to] = AfterLostCommit(@, Data(m.log))]
    /\ committed' = [committed EXCEPT ![m.to] = Len(m.log)]
    /\ state' = [state EXCEPT ![m.to] = "Idle"]
    /\ UNCHANGED log

RollsBack(m, ok) ==
    /\ Answer(m, ok)
    /\ m.method = "Rollback"
    /\ store' = [store EXCEPT ![m.to] = AfterRollback(@, Data(m.log), stale)]
    /\ \/ /\ RollbackOK(store[m.to], Data(m.log), stale)
          /\ log' = [log EXCEPT ![m.to] = DropUncommitted(m.to)]
          /\ state' = [state EXCEPT ![m.to] = "Idle"]
       \/ /\ ~RollbackOK(store[m.to], Data(m.log), stale)
          /\ UNCHANGED <<log, state>>
    /\ UNCHANGED committed

Handles(m, ok) ==
    DoesNothing(m, ok) \/ StoresLog(m, ok) \/ CommitsLog(m, ok) \/ RollsBack(m, ok)

(* Every handler does one of four things: nothing, store, commit, roll back. *)
LEMMA ProcessCases ==
    ASSUME NEW m \in net, Process(m)
    PROVE  /\ UNCHANGED <<up, calling, term, submitted, stale, acked>>
           /\ up[m.to] /\ put[m.to].phase = "none"
           /\ \E ok \in BOOLEAN : Handles(m, ok)
<1> USE DEF Handles, Receives, Refuse, durable, clients
<1>1. CASE RefuseStranger(m)
    <2>1. DoesNothing(m, FALSE)
        BY Zenon, <1>1 DEF RefuseStranger, DoesNothing
    <2> QED
        BY Zenon, <1>1, <2>1 DEF RefuseStranger
<1>2. CASE Prepare(m)
    <2>1. DoesNothing(m, TRUE) \/ DoesNothing(m, FALSE) \/ StoresLog(m, TRUE)
        BY Zenon, <1>2 DEF Prepare, DoesNothing, StoresLog
    <2> QED
        BY Zenon, <1>2, <2>1 DEF Prepare
<1>3. CASE Commit(m)
    <2> DEFINE ok == CommitOK(store[m.to], Data(m.log), stale)
    <2>1. ok \in BOOLEAN
        BY DEF CommitOK
    <2>2. DoesNothing(m, FALSE) \/ CommitsLog(m, ok) \/ CommitsLog(m, TRUE)
        BY Zenon, <1>3 DEF Commit, DoesNothing, CommitsLog
    <2> HIDE DEF ok
    <2> QED
        BY Zenon, <1>3, <2>1, <2>2 DEF Commit
<1>4. CASE Rollback(m)
    <2> DEFINE ok == RollbackOK(store[m.to], Data(m.log), stale)
    <2>1. ok \in BOOLEAN
        BY DEF RollbackOK
    <2>2. DoesNothing(m, TRUE) \/ DoesNothing(m, FALSE) \/ RollsBack(m, ok)
        BY Zenon, <1>4 DEF Rollback, DoesNothing, RollsBack
    <2> HIDE DEF ok
    <2> QED
        BY Zenon, <1>4, <2>1, <2>2 DEF Rollback
<1> QED
    BY <1>1, <1>2, <1>3, <1>4 DEF Process

(* The Log of a call carries a request. *)
LEMMA CallData ==
    ASSUME TypeInv, NEW m \in net
    PROVE  /\ m.to \in Node /\ m.from \in Node /\ m.method \in Method
           /\ m.log \in Seq(Entry) /\ Len(m.log) \in Nat \ {0}
           /\ Newest(m.log) \in Entry /\ Data(m.log) \in Requests
           /\ store[m.to] \in StorageType
<1>1. m \in Call /\ Len(m.log) \in Nat \ {0}
    BY DEF TypeInv, TypeOK, CallsCarryLogs
<1>2. /\ m.to \in Node /\ m.from \in Node /\ m.log \in Chain
      /\ m.method \in Method
    BY <1>1 DEF Call
<1> QED
    BY <1>1, <1>2, DataFacts DEF Chain, TypeInv, TypeOK

(* What a handler does to the log and the committed index. *)
LEMMA HandlesLog ==
    ASSUME TypeInv, NEW m \in net, NEW ok \in BOOLEAN, Handles(m, ok)
    PROVE  /\ log' \in [Node -> Chain] /\ committed' \in [Node -> Nat]
           /\ state' \in [Node -> {"Idle", "Prepared"}]
           /\ store' \in [Node -> StorageType]
           /\ \A k \in Node \ {m.to} : /\ log'[k] = log[k]
                                        /\ committed'[k] = committed[k]
                                        /\ store'[k] = store[k]
           /\ committed[m.to] <= committed'[m.to]
           /\ committed'[m.to] <= Len(log'[m.to])
           /\ \A i \in 1 .. committed[m.to] : log'[m.to][i] = log[m.to][i]
<1> DEFINE f == m.to
<1>1. /\ f \in Node /\ m.log \in Seq(Entry) /\ Len(m.log) \in Nat \ {0}
      /\ Newest(m.log) \in Entry /\ Data(m.log) \in Requests
      /\ store[f] \in StorageType
    BY CallData
<1>2. /\ log \in [Node -> Seq(Entry)] /\ log[f] \in Seq(Entry)
      /\ committed \in [Node -> Nat]
      /\ committed[f] <= Len(log[f]) /\ store \in [Node -> StorageType]
      /\ state \in [Node -> {"Idle", "Prepared"}]
    BY <1>1 DEF TypeInv, TypeOK, Chain
<1>3. CASE DoesNothing(m, ok)
    BY <1>1, <1>2, <1>3 DEF DoesNothing, Chain
<1>4. CASE StoresLog(m, ok)
    <2> DEFINE e == Newest(m.log)
               s == AfterPrepare(store[f], Data(m.log))
    <2>1. s \in StorageType
        BY Zenon, <1>1, StorageOps
    <2>2. /\ log' = [log EXCEPT ![f] = Append(@, e)] /\ committed' = committed
          /\ store' = [store EXCEPT ![f] = s]
          /\ state' = [state EXCEPT ![f] = "Prepared"]
        BY <1>4 DEF StoresLog
    <2> HIDE DEF e, s, f
    <2>3. e \in Entry
        BY <1>1 DEF e
    <2> QED
        BY <1>1, <1>2, <2>1, <2>2, <2>3 DEF Chain, f
<1>5. CASE CommitsLog(m, ok)
    <2>1. PICK s \in StorageType : store' = [store EXCEPT ![f] = s]
        BY Zenon, <1>1, <1>5, StorageOps DEF CommitsLog
    <2>2. /\ log' = log /\ committed' = [committed EXCEPT ![f] = Len(m.log)]
          /\ state' = [state EXCEPT ![f] = "Idle"]
          /\ Len(log[f]) >= Len(m.log) /\ committed[f] + 1 = Len(m.log)
        BY <1>5 DEF CommitsLog, AtCommitPosition, Logged
    <2> QED
        BY <1>1, <1>2, <2>1, <2>2 DEF Chain
<1>6. CASE RollsBack(m, ok)
    <2> DEFINE s == AfterRollback(store[f], Data(m.log), stale)
               c == DropUncommitted(f)
    <2>1. s \in StorageType
        BY Zenon, <1>1, StorageOps
    <2>2. /\ \/ log' = log /\ state' = state
             \/ /\ log' = [log EXCEPT ![f] = c]
                /\ state' = [state EXCEPT ![f] = "Idle"]
          /\ committed' = committed
          /\ store' = [store EXCEPT ![f] = s]
        BY <1>6 DEF RollsBack
    <2>3. /\ c \in Chain /\ Len(c) = committed[f]
          /\ \A i \in 1 .. committed[f] : c[i] = log[f][i]
        BY <1>1, CommittedLogFacts DEF TypeInv
    <2> HIDE DEF c, s
    <2>4. CASE log' = log /\ state' = state
        BY <1>1, <1>2, <2>1, <2>2, <2>4 DEF Chain
    <2>5. CASE /\ log' = [log EXCEPT ![f] = c]
               /\ state' = [state EXCEPT ![f] = "Idle"]
        <3>1. /\ log' \in [Node -> Chain] /\ log'[f] = c
              /\ \A k \in Node \ {f} : log'[k] = log[k]
            BY <1>1, <1>2, <2>3, <2>5 DEF Chain
        <3> QED
            BY <1>1, <1>2, <2>1, <2>2, <2>3, <2>5, <3>1
    <2> QED
        BY <2>2, <2>4, <2>5
<1> QED
    BY Zenon, <1>3, <1>4, <1>5, <1>6 DEF Handles

(* The handlers of a follower preserve the invariant. *)
LEMMA ProcessType ==
    ASSUME TypeInv, NEW m \in net, Process(m)
    PROVE  TypeInv'
<1> USE DEF TypeInv
<1>1. PICK ok \in BOOLEAN : Handles(m, ok)
    BY ProcessCases
<1>2. /\ UNCHANGED <<up, calling, term, submitted, stale, acked>>
      /\ put[m.to].phase = "none"
    BY ProcessCases
<1>3. Answer(m, ok)
    BY Zenon, <1>1 DEF Handles, DoesNothing, StoresLog, CommitsLog, RollsBack
<1>4. /\ net' = net \ {m} /\ put' \in [Node -> Round]
      /\ \A n \in Node : /\ put'[n].phase = put[n].phase
                         /\ put'[n].log = put[n].log
    BY <1>3, AnswerFacts
<1>5. /\ log' \in [Node -> Chain] /\ committed' \in [Node -> Nat]
      /\ state' \in [Node -> {"Idle", "Prepared"}]
      /\ store' \in [Node -> StorageType]
      /\ committed'[m.to] <= Len(log'[m.to])
    BY <1>1, HandlesLog
<1>6. \A k \in Node \ {m.to} : log'[k] = log[k] /\ committed'[k] = committed[k]
    BY <1>1, HandlesLog
<1>7. TypeOK'
    BY <1>2, <1>4, <1>5, <1>6 DEF TypeOK
<1>8. RoundShape'
    <2>1. ASSUME NEW k \in Node, k # m.to PROVE RoundOK(k)'
        BY <2>1, <1>2, <1>4, <1>6, RoundFrame
    <2>2. ASSUME NEW k \in Node, k = m.to PROVE RoundOK(k)'
        BY <2>2, <1>2, <1>4 DEF RoundOK
    <2> QED
        BY <2>1, <2>2 DEF RoundShape
<1>9. CallsCarryLogs'
    BY <1>4 DEF CallsCarryLogs
<1> QED
    BY <1>7, <1>8, <1>9

(* Whatever stops a node: Leave, Crash and the two crashes inside a commit. *)
LeftBehind(n, s) ==
    \/ s = store[n]
    \/ /\ "crash" \in Faults
       /\ \E d \in Requests : s = AfterCommit(store[n], d, stale)

Stops(n) ==
    /\ \E s \in StorageType : StopNode(n, s) /\ LeftBehind(n, s)
    /\ net' \subseteq net
    /\ UNCHANGED <<term, log, committed, submitted, stale, acked>>

(* The ways for a server to stop. *)
LEMMA StopCases ==
    ASSUME TypeInv, NEW n \in Node
    PROVE  /\ Crash(n) \/ CrashInLocalCommit(n) => Stops(n)
           /\ \A t \in Terms : Leave(n, t) => Stops(n)
           /\ \A m \in net : CrashInCommit(m) => m.to \in Node /\ Stops(m.to)
<1> USE DEF Stops, durable, clients
<1>1. store[n] \in StorageType
    BY DEF TypeInv, TypeOK
<1>2. Crash(n) => Stops(n)
    BY <1>1 DEF Crash, LeftBehind
<1>3. ASSUME NEW t \in Terms, Leave(n, t) PROVE Stops(n)
    BY <1>1, <1>3 DEF Leave, LeftBehind
<1>4. CrashInLocalCommit(n) => Stops(n)
    <2> SUFFICES ASSUME CrashInLocalCommit(n) PROVE Stops(n)
        OBVIOUS
    <2>1. put[n].phase # "none"
        BY DEF CrashInLocalCommit, PhaseEnds
    <2>2. /\ AfterCommit(store[n], Data(put[n].log), stale) \in StorageType
          /\ Data(put[n].log) \in Requests
        BY Zenon, <2>1, RoundData, StorageOps
    <2> QED
        BY Zenon, <2>2 DEF CrashInLocalCommit, LeftBehind
<1>5. ASSUME NEW m \in net, CrashInCommit(m) PROVE m.to \in Node /\ Stops(m.to)
    <2>1. /\ m.to \in Node
          /\ AfterCommit(store[m.to], Data(m.log), stale) \in StorageType
          /\ Data(m.log) \in Requests
        BY Zenon, CallData, StorageOps
    <2>2. net' \subseteq net
        BY <1>5 DEF CrashInCommit
    <2> QED
        BY Zenon, <1>5, <2>1, <2>2 DEF CrashInCommit, LeftBehind
<1> QED
    BY <1>2, <1>3, <1>4, <1>5

(* A server that stops preserves the invariant. *)
LEMMA StopType ==
    ASSUME TypeInv, NEW n \in Node, Stops(n)
    PROVE  TypeInv'
<1> USE DEF TypeInv
<1>1. PICK s \in StorageType : StopNode(n, s)
    BY DEF Stops
<1>2. AfterReopen(s) \in StorageType
    BY Zenon DEF AfterReopen, NewStorage, StorageType
<1>3. store' \in [Node -> StorageType]
    BY Zenon, <1>1, <1>2, StoreStep DEF StopNode
<1>4. NoRound \in Round /\ NoRound.phase = "none"
    BY DEF NoRound, Round, Chain, Method
<1>5. /\ put' \in [Node -> Round] /\ put'[n] = NoRound
      /\ \A k \in Node : k # n => put'[k] = put[k]
    BY Zenon, <1>1, <1>4, RoundStep DEF StopNode
<1>6. /\ up' \in [Node -> BOOLEAN] /\ state' \in [Node -> {"Idle", "Prepared"}]
      /\ calling' \in [Node -> Requests \cup {NoRequest}]
      /\ \A k \in Node : k # n => up'[k] = up[k]
    BY <1>1 DEF StopNode, TypeOK
<1>7. TypeOK'
    BY <1>3, <1>5, <1>6 DEF TypeOK, Stops
<1>8. RoundShape'
    <2>1. RoundOK(n)'
        BY <1>4, <1>5 DEF RoundOK
    <2>2. ASSUME NEW k \in Node, k # n PROVE RoundOK(k)'
        BY <2>2, <1>5, <1>6, RoundFrame DEF Stops
    <2> QED
        BY <2>1, <2>2 DEF RoundShape
<1>9. CallsCarryLogs'
    BY DEF CallsCarryLogs, Stops
<1> QED
    BY <1>7, <1>8, <1>9

(* Restart preserves the invariant. *)
LEMMA RestartType ==
    ASSUME TypeInv, NEW n \in Node, NEW t \in Terms, Restart(n, t)
    PROVE  TypeInv'
<1> USE DEF TypeInv
<1>1. /\ log' = [log EXCEPT ![n] = DropUncommitted(n)]
      /\ term' = [term EXCEPT ![n] = t]
      /\ up' = [up EXCEPT ![n] = TRUE] /\ ~up[n]
      /\ UNCHANGED <<state, committed, store, calling, put, net, submitted,
                     stale, acked>>
    BY DEF Restart, clients
<1>2. /\ log' \in [Node -> Chain] /\ Len(log'[n]) = committed[n]
      /\ \A k \in Node : k # n => log'[k] = log[k]
    BY <1>1, CommittedLogFacts DEF TypeOK
<1>3. /\ up' \in [Node -> BOOLEAN] /\ term' \in [Node -> Terms]
      /\ \A k \in Node : k # n => up'[k] = up[k]
    BY <1>1 DEF TypeOK
<1>4. TypeOK'
    BY <1>1, <1>2, <1>3 DEF TypeOK
<1>5. RoundShape'
    <2>1. put[n].phase = "none"
        BY <1>1 DEF RoundShape, RoundOK
    <2>2. RoundOK(n)'
        BY <1>1, <2>1 DEF RoundOK
    <2>3. ASSUME NEW k \in Node, k # n PROVE RoundOK(k)'
        BY Zenon, <2>3, <1>1, <1>2, <1>3, RoundFrame
    <2> QED
        BY <2>2, <2>3 DEF RoundShape
<1>6. CallsCarryLogs'
    BY <1>1 DEF CallsCarryLogs
<1> QED
    BY <1>4, <1>5, <1>6

(* Apply, TxExpires, UpdatePeers, Lose, Age and stuttering leave logs and   *)
(* rounds alone.                                                            *)
Background ==
    /\ \/ UNCHANGED store
       \/ \E n \in Node : store' = [store EXCEPT ![n] = AfterExpiry(@)]
    /\ term' \in [Node -> Terms]
    /\ net' \subseteq net
    /\ stale' \subseteq Requests
    /\ calling' \in [Node -> Requests \cup {NoRequest}]
    /\ UNCHANGED <<up, state, log, committed, put, submitted, acked>>

(* The steps that touch neither logs nor rounds. *)
LEMMA BackgroundCases ==
    ASSUME TypeInv
    PROVE  /\ \A n \in Node, d \in Requests : Apply(n, d) => Background
           /\ \A n \in Node : TxExpires(n) => Background
           /\ \A n \in Node, t \in Terms : UpdatePeers(n, t) => Background
           /\ \A m \in net : Lose(m) => Background
           /\ \A d \in Requests : Age(d) => Background
           /\ UNCHANGED vars => Background
<1> USE DEF TypeInv, TypeOK, Background, durable, clients
<1>6. ASSUME NEW n \in Node, NEW d \in Requests, Apply(n, d) PROVE Background
    BY <1>6 DEF Apply
<1>1. ASSUME NEW n \in Node, TxExpires(n) PROVE Background
    BY Zenon, <1>1 DEF TxExpires
<1>2. ASSUME NEW n \in Node, NEW t \in Terms, UpdatePeers(n, t) PROVE Background
    BY Zenon, <1>2 DEF UpdatePeers
<1>3. ASSUME NEW m \in net, Lose(m) PROVE Background
    BY <1>3 DEF Lose
<1>4. ASSUME NEW d \in Requests, Age(d) PROVE Background
    BY <1>4 DEF Age
<1>5. ASSUME UNCHANGED vars PROVE Background
    BY <1>5 DEF vars
<1> QED
    BY <1>1, <1>2, <1>3, <1>4, <1>5, <1>6

(* Those steps preserve the invariant. *)
LEMMA BackgroundType ==
    ASSUME TypeInv, Background
    PROVE  TypeInv'
<1> USE DEF TypeInv
<1>1. store' \in [Node -> StorageType]
    <2>1. ASSUME NEW n \in Node PROVE AfterExpiry(store[n]) \in StorageType
        <3>1. store[n] \in StorageType
            BY DEF TypeOK
        <3> QED
            BY Zenon, <3>1 DEF AfterExpiry, StorageType
    <2>2. store \in [Node -> StorageType]
        BY DEF TypeOK
    <2> QED
        BY <2>1, <2>2, StoreStep DEF Background
<1>2. TypeOK'
    BY <1>1 DEF TypeOK, Background
<1>3. RoundShape' /\ CallsCarryLogs'
    BY DEF RoundShape, RoundOK, CallsCarryLogs, Background
<1> QED
    BY <1>2, <1>3

(* The steps of the system, by what they do. *)
LEMMA NextCases ==
    ASSUME TypeInv, [Next]_vars,
           NEW ACTION P,
           \A n \in Node, d \in Requests : NewLog(n, d) => P,
           \A n \in Node : BeginCommit(n) => P,
           \A n \in Node : BeginRollback(n) => P,
           \A n \in Node : EndCommit(n) => P,
           \A n \in Node : EndRollback(n) => P,
           \A n \in Node : RoundTimeout(n) \/ (\E f \in Node : CallError(n, f)) => P,
           \A m \in net : Process(m) => P,
           \A n \in Node : Stops(n) => P,
           \A n \in Node, t \in Terms : Restart(n, t) => P,
           Background => P
    PROVE  P
<1>1. CASE \E n \in Node, d \in Requests : Apply(n, d)
    BY <1>1, BackgroundCases
<1>2. CASE \E n \in Node : LeaderStep(n)
    BY <1>2 DEF LeaderStep
<1>3. CASE \E n \in Node : RoundTimeout(n) \/ \E f \in Node : CallError(n, f)
    BY <1>3
<1>4. CASE \E n \in Node : Crash(n) \/ CrashInLocalCommit(n)
    BY <1>4, StopCases
<1>5. CASE \E n \in Node, t \in Terms :
                UpdatePeers(n, t) \/ Leave(n, t) \/ Restart(n, t)
    BY <1>5, StopCases, BackgroundCases
<1>6. CASE \E m \in net : Process(m) \/ CrashInCommit(m) \/ Lose(m)
    <2>1. PICK n \in Node : TRUE
        BY KayakAssumption
    <2> QED
        BY <1>6, <2>1, StopCases, BackgroundCases
<1>7. CASE (\E n \in Node : TxExpires(n)) \/ (\E d \in Requests : Age(d))
    BY <1>7, BackgroundCases
<1>8. CASE UNCHANGED vars
    BY <1>8, BackgroundCases
<1> QED
    BY <1>1, <1>2, <1>3, <1>4, <1>5, <1>6, <1>7, <1>8 DEF Next

(* A request waits for the run loop from its Apply on until it is taken,    *)
(* or until the server stops.                                               *)
LEMMA CallingStep ==
    ASSUME TypeInv, [Next]_vars
    PROVE  \/ \E n \in Node, d \in Requests : Apply(n, d)
           \/ /\ \A k \in Node : calling'[k] = calling[k] \/ calling'[k] = NoRequest
              /\ \/ submitted' = submitted
                 \/ \E n \in Node, d \in Requests : NewLog(n, d)
<1> DEFINE P == /\ \A k \in Node : calling'[k] = calling[k] \/ calling'[k] = NoRequest
                /\ \/ submitted' = submitted
                   \/ \E n \in Node, d \in Requests : NewLog(n, d)
<1>0. calling \in [Node -> Requests \cup {NoRequest}]
    BY DEF TypeInv, TypeOK
<1>a. UNCHANGED <<calling, submitted>> => P
    OBVIOUS
<1>b. ASSUME NEW n \in Node, calling' = [calling EXCEPT ![n] = NoRequest]
      PROVE  \A k \in Node : calling'[k] = calling[k] \/ calling'[k] = NoRequest
    BY <1>0, <1>b
<1>1. ASSUME NEW n \in Node, NEW d \in Requests, NewLog(n, d) PROVE P
    BY Zenon, <1>1, <1>b DEF NewLog
<1>2. \A n \in Node : Stops(n) => P
    BY Zenon, <1>b DEF Stops, StopNode
<1> HIDE DEF P
<1>3. ASSUME NEW n \in Node, LeaderStep(n) PROVE P
    BY Zenon, <1>1, <1>3, <1>a
       DEF LeaderStep, BeginCommit, BeginRollback, EndCommit, EndRollback, clients
<1>4. ASSUME NEW n \in Node,
             RoundTimeout(n) \/ TxExpires(n) \/ \E f \in Node : CallError(n, f)
      PROVE  P
    BY Zenon, <1>4, <1>a DEF RoundTimeout, CallError, TxExpires, clients
<1>5. ASSUME NEW n \in Node, Crash(n) \/ CrashInLocalCommit(n) PROVE P
    BY <1>5, <1>2, StopCases
<1>6. ASSUME NEW n \in Node, NEW t \in Terms,
             UpdatePeers(n, t) \/ Leave(n, t) \/ Restart(n, t)
      PROVE  P
    <2>1. CASE Leave(n, t)
        BY <2>1, <1>2, StopCases
    <2>2. CASE UpdatePeers(n, t) \/ Restart(n, t)
        BY Zenon, <2>2, <1>a DEF UpdatePeers, Restart, clients
    <2> QED
        BY <1>6, <2>1, <2>2
<1>7. ASSUME NEW m \in net, Process(m) \/ CrashInCommit(m) \/ Lose(m) PROVE P
    <2>1. CASE Process(m)
        BY Zenon, <2>1, <1>a, ProcessCases
    <2>2. CASE CrashInCommit(m)
        <3>1. PICK n \in Node : TRUE
            BY KayakAssumption
        <3> QED
            BY <2>2, <3>1, <1>2, StopCases
    <2>3. CASE Lose(m)
        BY Zenon, <2>3, <1>a DEF Lose, clients
    <2> QED
        BY <1>7, <2>1, <2>2, <2>3
<1>8. ASSUME NEW d \in Requests, Age(d) PROVE P
    BY Zenon, <1>8, <1>a DEF Age
<1>9. ASSUME UNCHANGED vars PROVE P
    BY Zenon, <1>9, <1>a DEF vars
<1>10. \/ \E n \in Node, d \in Requests : Apply(n, d)
       \/ P
    <2>1. CASE \E n \in Node, t \in Terms :
                    UpdatePeers(n, t) \/ Leave(n, t) \/ Restart(n, t)
        BY Zenon, <2>1, <1>6
    <2>2. CASE \E m \in net : Process(m) \/ CrashInCommit(m) \/ Lose(m)
        BY Zenon, <2>2, <1>7
    <2>3. CASE \E n \in Node : \/ RoundTimeout(n) \/ TxExpires(n)
                               \/ \E f \in Node : CallError(n, f)
        BY Zenon, <2>3, <1>4
    <2>4. CASE \E n \in Node : LeaderStep(n) \/ Crash(n) \/ CrashInLocalCommit(n)
        BY Zenon, <2>4, <1>3, <1>5
    <2>5. CASE \E d \in Requests : Age(d)
        BY <2>5, <1>8
    <2>6. CASE UNCHANGED vars
        BY <2>6, <1>9
    <2>7. CASE \E n \in Node, d \in Requests : Apply(n, d)
        BY <2>7
    <2> QED
        BY <2>1, <2>2, <2>3, <2>4, <2>5, <2>6, <2>7 DEF Next
<1> QED
    BY <1>10 DEF P

(* Every step preserves the invariant. *)
LEMMA TypeStep == TypeInv /\ [Next]_vars => TypeInv'
<1> SUFFICES ASSUME TypeInv, [Next]_vars PROVE TypeInv'
    OBVIOUS
<1>1. \A n \in Node, d \in Requests : NewLog(n, d) => TypeInv'
    BY NewLogType
<1>2. \A n \in Node : BeginCommit(n) => TypeInv'
    BY BeginCommitType
<1>3. \A n \in Node : BeginRollback(n) => TypeInv'
    BY BeginRollbackType
<1>4. \A n \in Node : EndCommit(n) => TypeInv'
    BY EndCommitType
<1>5. \A n \in Node : EndRollback(n) => TypeInv'
    BY EndRollbackType
<1>6. \A n \in Node :
        RoundTimeout(n) \/ (\E f \in Node : CallError(n, f)) => TypeInv'
    BY FailureType
<1>7. \A m \in net : Process(m) => TypeInv'
    BY ProcessType
<1>8. \A n \in Node : Stops(n) => TypeInv'
    BY StopType
<1>9. \A n \in Node, t \in Terms : Restart(n, t) => TypeInv'
    BY RestartType
<1>10. Background => TypeInv'
    BY BackgroundType
<1> QED
    BY <1>1, <1>2, <1>3, <1>4, <1>5, <1>6, <1>7, <1>8, <1>9, <1>10, NextCases

(* The invariant holds in every reachable state. *)
LEMMA TypeInvariant == Spec => []TypeInv
BY InitTypeInv, TypeStep, PTL DEF Spec

(* Every reachable state is well typed, and the stored CommittedIndex never *)
(* points behind the end of the log store, whatever the peer lists and the  *)
(* faults: tryRestore always finds the committed Log.                       *)
THEOREM TypeCorrect == Spec => []TypeOK
<1>1. TypeInv => TypeOK
    BY DEF TypeInv
<1> QED
    BY <1>1, TypeInvariant, PTL

-----------------------------------------------------------------------------
(* Committed Logs stay. *)

(* A log store that a step leaves alone keeps its committed part. *)
LEMMA KeepsFrame ==
    ASSUME TypeInv, NEW k \in Node,
           log'[k] = log[k], committed'[k] >= committed[k]
    PROVE  KeepsCommitted(k)
<1>1. committed[k] \in Nat /\ committed[k] <= Len(log[k])
    BY DEF TypeInv, TypeOK
<1> QED
    BY <1>1 DEF KeepsCommitted

(* So does one that is cut behind its committed index. *)
LEMMA KeepsTruncated ==
    ASSUME TypeInv, NEW n \in Node, NEW k \in Node,
           log' = [log EXCEPT ![n] = DropUncommitted(n)],
           committed' = committed
    PROVE  KeepsCommitted(k)
<1>1. committed[k] \in Nat /\ committed[k] <= Len(log[k])
    BY DEF TypeInv, TypeOK
<1>2. CASE k = n
    <2>1. /\ log'[n] = CommittedLog(n) /\ Len(CommittedLog(n)) = committed[n]
          /\ \A i \in 1 .. committed[n] : CommittedLog(n)[i] = log[n][i]
        BY CommittedLogFacts DEF TypeInv, TypeOK
    <2> QED
        BY <1>1, <1>2, <2>1 DEF KeepsCommitted
<1>3. CASE k # n
    <2>1. log'[k] = log[k]
        BY <1>3 DEF TypeInv, TypeOK
    <2> QED
        BY <1>1, <2>1, KeepsFrame
<1> QED
    BY <1>2, <1>3

(* No step takes a committed Log back. *)
LEMMA CommittedStep ==
    ASSUME TypeInv, [Next]_vars, NEW k \in Node
    PROVE  KeepsCommitted(k)
<1> DEFINE P == KeepsCommitted(k)
<1>0. committed[k] \in Nat /\ committed[k] <= Len(log[k])
    BY DEF TypeInv, TypeOK
<1>1. \A n \in Node, d \in Requests : NewLog(n, d) => P
    BY <1>0, KeepsFrame DEF NewLog, durable
<1>2. ASSUME NEW n \in Node, BeginCommit(n) PROVE P
    <2>1. put[n].phase # "none"
        BY <1>2 DEF BeginCommit, PhaseEnds
    <2>2. /\ log' = [log EXCEPT ![n] = put[n].log] /\ committed' = committed
        BY <1>2 DEF BeginCommit
    <2>3. /\ Len(put[n].log) = committed[n] + 1
          /\ \A i \in 1 .. committed[n] : put[n].log[i] = log[n][i]
        BY <2>1 DEF TypeInv, RoundShape, RoundOK
    <2>4. CASE k = n
        <3>1. log'[k] = put[n].log /\ committed'[k] = committed[k]
            BY <2>2, <2>4 DEF TypeInv, TypeOK
        <3> HIDE DEF P
        <3> QED
            BY <1>0, <2>3, <2>4, <3>1 DEF KeepsCommitted, P
    <2>5. CASE k # n
        BY <1>0, <2>2, <2>5, KeepsFrame DEF TypeInv, TypeOK
    <2> QED
        BY <2>4, <2>5
<1>3. \A n \in Node : BeginRollback(n) => P
    BY Zenon, KeepsTruncated DEF BeginRollback
<1>4. ASSUME NEW n \in Node, EndCommit(n) PROVE P
    <2>1. put[n].phase # "none"
        BY Zenon, <1>4 DEF EndCommit, PhaseEnds
    <2>2. /\ committed' = [committed EXCEPT ![n] = Len(put[n].log)] /\ log' = log
        BY <1>4 DEF EndCommit
    <2>3. Len(put[n].log) = committed[n] + 1
        BY <2>1, RoundData
    <2>4. committed'[k] >= committed[k]
        BY <1>0, <2>2, <2>3 DEF TypeInv, TypeOK
    <2> QED
        BY <2>2, <2>4, KeepsFrame
<1>5. \A n \in Node : EndRollback(n) => P
    BY <1>0, KeepsFrame DEF EndRollback, durable
<1>6. ASSUME NEW n \in Node, RoundTimeout(n) \/ \E f \in Node : CallError(n, f)
      PROVE  P
    <2>1. log' = log /\ committed' = committed
        BY Zenon, <1>6 DEF RoundTimeout, CallError, durable
    <2> QED
        BY <1>0, <2>1, KeepsFrame
<1>7. ASSUME NEW m \in net, Process(m) PROVE P
    <2>1. PICK ok \in BOOLEAN : Handles(m, ok)
        BY <1>7, ProcessCases
    <2>2. /\ committed[m.to] <= committed'[m.to]
          /\ committed'[m.to] <= Len(log'[m.to])
          /\ \A i \in 1 .. committed[m.to] : log'[m.to][i] = log[m.to][i]
          /\ log' \in [Node -> Chain] /\ committed' \in [Node -> Nat]
        BY <2>1, HandlesLog
    <2>3. CASE k = m.to
        BY <1>0, <2>2, <2>3 DEF KeepsCommitted, Chain
    <2>4. CASE k # m.to
        BY <1>0, <2>1, <2>4, HandlesLog, KeepsFrame
    <2> QED
        BY <2>3, <2>4
<1>8. \A n \in Node : Stops(n) => P
    BY <1>0, KeepsFrame DEF Stops
<1>9. \A n \in Node, t \in Terms : Restart(n, t) => P
    BY Zenon, KeepsTruncated DEF Restart
<1>10. Background => P
    BY <1>0, KeepsFrame DEF Background
<1> HIDE DEF P
<1>11. P
    BY <1>1, <1>2, <1>3, <1>4, <1>5, <1>6, <1>7, <1>8, <1>9, <1>10, NextCases
<1> QED
    BY <1>11 DEF P

(* No step of any node deletes, replaces or uncommits a Log that a node has *)
(* committed: neither the rollbacks nor the truncation in tryRestore, with  *)
(* any peer lists and any faults.                                           *)
THEOREM CommittedStays == Spec => CommittedForever
<1>1. TypeInv /\ [Next]_vars => [\A n \in Node : KeepsCommitted(n)]_vars
    BY CommittedStep
<1> QED
    BY <1>1, TypeInvariant, PTL DEF Spec, CommittedForever

-----------------------------------------------------------------------------
(* What a step does to the database files. *)

(* A database file only grows, and by a request whose commit succeeds. *)
LEMMA FileOps ==
    ASSUME NEW s \in StorageType, NEW d \in Requests, NEW x
    PROVE  /\ AfterPrepare(s, d).db = s.db
           /\ AfterLostCommit(s, d).db = s.db
           /\ AfterRollback(s, d, x).db = s.db
           /\ AfterExpiry(s).db = s.db
           /\ AfterReopen(s).db = s.db
           /\ CommitOK(s, d, x) => AfterCommit(s, d, x).db = Append(s.db, d)
           /\ ~CommitOK(s, d, x) => AfterCommit(s, d, x).db = s.db
<1>1. d.conn \in Conns /\ d.seq \in Nat
    BY RequestAssumption DEF Conns
<1>2. RecordSequence(s, d) \in StorageType /\ RecordSequence(s, d).db = s.db
    BY Zenon, <1>1 DEF StorageType, RecordSequence
<1>3. ASSUME NEW r \in StorageType
      PROVE  CloseTx(r) \in StorageType /\ CloseTx(r).db = r.db
    BY Zenon DEF StorageType, CloseTx
<1>4. ASSUME NEW r \in StorageType, NEW e
      PROVE  [r EXCEPT !.db = Append(@, e)].db = Append(r.db, e)
    BY Zenon DEF StorageType
<1>5. /\ CommitOK(s, d, x) => AfterCommit(s, d, x).db = Append(s.db, d)
      /\ ~CommitOK(s, d, x) => AfterCommit(s, d, x).db = s.db
    <2> DEFINE r == RecordSequence(s, d)
    <2>1. CommitOK(s, d, x) => Admits(s, d, x) /\ InTx(s, d)
        BY DEF CommitOK
    <2>2. CloseTx(r) \in StorageType /\ CloseTx(r).db = s.db
        BY Zenon, <1>2, <1>3
    <2>3. [CloseTx(r) EXCEPT !.db = Append(@, d)].db = Append(s.db, d)
        BY Zenon, <1>4, <2>2
    <2>4. AfterCommit(s, d, x) =
            IF CommitOK(s, d, x) THEN [CloseTx(r) EXCEPT !.db = Append(@, d)]
            ELSE IF ~Admits(s, d, x) THEN s
            ELSE IF ~InTx(s, d) THEN r ELSE CloseTx(r)
        BY Zenon, <2>1 DEF AfterCommit
    <2> HIDE DEF r
    <2> QED
        BY Zenon, <1>2, <2>2, <2>3, <2>4 DEF r
<1>6. AfterRollback(s, d, x).db = s.db
    BY Zenon, <1>2, <1>3 DEF AfterRollback
<1>7. AfterLostCommit(s, d).db = s.db
    BY Zenon, <1>2, <1>3 DEF AfterLostCommit
<1>8. AfterPrepare(s, d).db = s.db
    BY Zenon DEF AfterPrepare, StorageType
<1>9. AfterExpiry(s).db = s.db
    BY Zenon DEF AfterExpiry, StorageType
<1>10. AfterReopen(s).db = s.db
    BY Zenon DEF AfterReopen, NewStorage, StorageType
<1> QED
    BY <1>5, <1>6, <1>7, <1>8, <1>9, <1>10

(* A request is appended to the file of k when k commits the Log it         *)
(* prepared: at the end of its own round, or in processCommit, where the    *)
(* transaction that is open is the one of the request.                      *)
SameFile(k) == store'[k].db = store[k].db

CommitsOwn(k) ==
    /\ log'[k] = log[k] /\ committed'[k] = committed[k] + 1
    /\ put[k].phase = "Commit"
    /\ store'[k].db = Append(store[k].db, Data(log[k]))

CommitsCalled(k, d) ==
    /\ log'[k] = log[k] /\ committed'[k] = committed[k] + 1
    /\ committed[k] + 1 <= Len(log[k])
    /\ up[k] /\ put[k].phase = "none"
    /\ store[k].tx /\ store[k].id = d
    /\ store'[k].db = Append(store[k].db, d)

CrashesCommitting(k, d) ==
    "crash" \in Faults /\ store'[k].db = Append(store[k].db, d)

FileStep(k) ==
    \/ SameFile(k)
    \/ CommitsOwn(k)
    \/ \E d \in Requests : CommitsCalled(k, d) \/ CrashesCommitting(k, d)

(* A commit leaves the file alone or appends the request. *)
LEMMA FileAfterCommit ==
    ASSUME NEW s \in StorageType, NEW d \in Requests, NEW x
    PROVE  /\ AfterLostCommit(s, d).db = s.db
           /\ \/ AfterCommit(s, d, x).db = s.db
              \/ CommitOK(s, d, x) /\ AfterCommit(s, d, x).db = Append(s.db, d)
BY FileOps

(* The storage of another server stays as it is. *)
LEMMA FileFrame ==
    ASSUME TypeInv, NEW n \in Node, NEW s,
           store' = [store EXCEPT ![n] = s]
    PROVE  store'[n] = s /\ \A k \in Node : k # n => SameFile(k)
BY DEF TypeInv, TypeOK, SameFile

(* So the files of all servers stay when the changed one keeps its file. *)
LEMMA FileKept ==
    ASSUME TypeInv, NEW n \in Node, NEW s, s.db = store[n].db,
           store' = [store EXCEPT ![n] = s]
    PROVE  \A k \in Node : FileStep(k)
BY Zenon, FileFrame DEF FileStep, SameFile

(* What every step does to every file. *)
LEMMA FileSteps ==
    ASSUME TypeInv, [Next]_vars
    PROVE  \A k \in Node : FileStep(k)
<1> DEFINE P == \A k \in Node : FileStep(k)
<1>0. /\ store \in [Node -> StorageType] /\ committed \in [Node -> Nat]
      /\ \A n \in Node : store[n] \in StorageType
    BY DEF TypeInv, TypeOK
<1>a. ASSUME store' = store PROVE P
    BY <1>a DEF FileStep, SameFile
<1>b. ASSUME NEW n \in Node, store' = [store EXCEPT ![n] = AfterExpiry(@)] PROVE P
    <2>1. AfterExpiry(store[n]).db = store[n].db
        BY Zenon, <1>0 DEF AfterExpiry, StorageType
    <2> QED
        BY Zenon, <1>b, <2>1, FileKept
<1>1. ASSUME NEW n \in Node, NEW d \in Requests, NewLog(n, d) PROVE P
    <2>1. store' = store
        BY <1>1 DEF NewLog
    <2> QED
        BY <2>1, <1>a
<1>2. ASSUME NEW n \in Node, BeginCommit(n) PROVE P
    <2>1. Data(put[n].log) \in Requests
        BY <1>2, RoundData DEF BeginCommit, PhaseEnds
    <2>2. store' = [store EXCEPT ![n] = AfterPrepare(@, Data(put[n].log))]
        BY <1>2 DEF BeginCommit
    <2> QED
        BY Zenon, <1>0, <2>1, <2>2, FileOps, FileKept
<1>3. ASSUME NEW n \in Node, BeginRollback(n) PROVE P
    <2>1. Data(put[n].log) \in Requests
        BY <1>3, RoundData DEF BeginRollback, PhaseEnds
    <2>2. store' = [store EXCEPT ![n] = AfterRollback(@, Data(put[n].log), stale)]
        BY <1>3 DEF BeginRollback
    <2>3. AfterRollback(store[n], Data(put[n].log), stale).db = store[n].db
        BY <1>0, <2>1, FileOps
    <2> QED
        BY Zenon, <2>2, <2>3, FileKept
<1>4. ASSUME NEW n \in Node, EndCommit(n) PROVE P
    <2> DEFINE d == Data(put[n].log)
               c == AfterCommit(store[n], d, stale)
               e == AfterLostCommit(store[n], d)
    <2>1. put[n].phase = "Commit"
        BY <1>4 DEF EndCommit, PhaseEnds
    <2>2. d \in Requests /\ log[n] = put[n].log /\ Len(put[n].log) = committed[n] + 1
        BY <2>1, RoundData DEF TypeInv, RoundShape, RoundOK
    <2>3. /\ c \in StorageType /\ e \in StorageType
          /\ AfterExpiry(c).db = c.db /\ AfterExpiry(e).db = e.db
          /\ e.db = store[n].db
          /\ c.db = store[n].db \/ c.db = Append(store[n].db, d)
        BY Zenon, <1>0, <2>2, StorageOps, FileOps
    <2>4. \/ store' = [store EXCEPT ![n] = AfterExpiry(c)]
          \/ store' = [store EXCEPT ![n] = AfterExpiry(e)]
        BY <1>4 DEF EndCommit
    <2>5. log' = log /\ committed' = [committed EXCEPT ![n] = Len(put[n].log)]
        BY <1>4 DEF EndCommit
    <2>6. log'[n] = log[n] /\ committed'[n] = committed[n] + 1
        BY <1>0, <2>2, <2>5
    <2> HIDE DEF c, e
    <2>7. CASE store'[n].db = store[n].db
        BY Zenon, <2>4, <2>7, FileFrame DEF FileStep, SameFile
    <2>8. CASE store'[n].db = Append(store[n].db, d)
        <3>1. CommitsOwn(n)
            BY <2>1, <2>2, <2>6, <2>8 DEF CommitsOwn
        <3> QED
            BY Zenon, <2>4, <3>1, FileFrame DEF FileStep
    <2> QED
        BY Zenon, <2>3, <2>4, <2>7, <2>8, FileFrame
<1>5. ASSUME NEW n \in Node, EndRollback(n) PROVE P
    <2>1. store' = [store EXCEPT ![n] = AfterExpiry(@)]
        BY <1>5 DEF EndRollback
    <2> QED
        BY <2>1, <1>b
<1>6. ASSUME NEW n \in Node, RoundTimeout(n) \/ \E f \in Node : CallError(n, f)
      PROVE  P
    <2>1. store' = store \/ store' = [store EXCEPT ![n] = AfterExpiry(@)]
        BY Zenon, <1>6 DEF RoundTimeout, CallError
    <2> QED
        BY <2>1, <1>a, <1>b
<1>7. ASSUME NEW m \in net, Process(m) PROVE P
    <2> DEFINE f == m.to
               d == Data(m.log)
    <2>1. PICK ok \in BOOLEAN : Handles(m, ok)
        BY <1>7, ProcessCases
    <2>2. f \in Node /\ d \in Requests /\ up[f] /\ put[f].phase = "none"
        BY <1>7, CallData, ProcessCases
    <2>3. CASE DoesNothing(m, ok)
        BY <2>3, <1>a DEF DoesNothing
    <2>4. CASE StoresLog(m, ok)
        <3>1. store' = [store EXCEPT ![f] = AfterPrepare(@, d)]
            BY <2>4 DEF StoresLog
        <3> HIDE DEF d, f
        <3> QED
            BY Zenon, <1>0, <2>2, <3>1, FileOps, FileKept
    <2>5. CASE RollsBack(m, ok)
        <3>1. store' = [store EXCEPT ![f] = AfterRollback(@, d, stale)]
            BY <2>5 DEF RollsBack
        <3>2. AfterRollback(store[f], d, stale).db = store[f].db
            <4> HIDE DEF d, f
            <4> QED BY Zenon, <1>0, <2>2, FileOps
        <3> HIDE DEF d, f
        <3> QED
            BY Zenon, <2>2, <3>1, <3>2, FileKept
    <2>6. CASE CommitsLog(m, ok)
        <3> DEFINE c == AfterCommit(store[f], d, stale)
                   e == AfterLostCommit(store[f], d)
        <3>1. store' = [store EXCEPT ![f] = c] \/ store' = [store EXCEPT ![f] = e]
            BY <2>6 DEF CommitsLog
        <3>2. /\ log'[f] = log[f] /\ committed'[f] = committed[f] + 1
              /\ committed[f] + 1 <= Len(log[f])
            <4>1. /\ log' = log /\ AtCommitPosition(m)
                  /\ committed' = [committed EXCEPT ![f] = Len(m.log)]
                BY <2>6 DEF CommitsLog
            <4> QED
                BY <1>0, <2>2, <4>1 DEF AtCommitPosition, Logged
        <3>3. /\ e.db = store[f].db
              /\ \/ c.db = store[f].db
                 \/ /\ CommitOK(store[f], d, stale)
                    /\ c.db = Append(store[f].db, d)
            <4>1. store[f] \in StorageType /\ d \in Requests
                BY Zenon, <1>0, <2>2
            <4> HIDE DEF d, f
            <4> QED BY <4>1, FileAfterCommit
        <3>4. CommitOK(store[f], d, stale) => store[f].tx /\ store[f].id = d
            BY DEF CommitOK, InTx
        <3> HIDE DEF c, e, d, f
        <3>5. CASE store'[f].db = store[f].db
            BY Zenon, <2>2, <3>1, <3>5, FileFrame DEF FileStep, SameFile
        <3>6. CASE CommitOK(store[f], d, stale) /\ store'[f].db = Append(store[f].db, d)
            <4>1. CommitsCalled(f, d)
                BY <2>2, <3>2, <3>4, <3>6 DEF CommitsCalled
            <4> QED
                BY Zenon, <2>2, <3>1, <4>1, FileFrame DEF FileStep
        <3> QED
            BY Zenon, <2>2, <3>1, <3>3, <3>5, <3>6, FileFrame
    <2> QED
        BY <2>1, <2>3, <2>4, <2>5, <2>6 DEF Handles
<1>8. ASSUME NEW n \in Node, Stops(n) PROVE P
    <2>1. PICK s \in StorageType : StopNode(n, s) /\ LeftBehind(n, s)
        BY <1>8 DEF Stops
    <2>2. store' = [store EXCEPT ![n] = AfterReopen(s)]
        BY <2>1 DEF StopNode
    <2>3. AfterReopen(s).db = s.db
        BY Zenon, <1>0 DEF AfterReopen, NewStorage, StorageType
    <2>4. CASE s.db = store[n].db
        BY Zenon, <2>2, <2>3, <2>4, FileKept
    <2>5. ASSUME NEW d \in Requests, "crash" \in Faults, s.db = Append(store[n].db, d)
          PROVE  P
        <3>1. CrashesCommitting(n, d)
            BY Zenon, <2>2, <2>3, <2>5, FileFrame DEF CrashesCommitting
        <3> QED
            BY Zenon, <2>2, <3>1, FileFrame DEF FileStep
    <2>6. ASSUME NEW d \in Requests, s = AfterCommit(store[n], d, stale)
          PROVE  s.db = store[n].db \/ s.db = Append(store[n].db, d)
        BY Zenon, <1>0, <2>6, FileOps
    <2> QED
        BY Zenon, <2>1, <2>4, <2>5, <2>6 DEF LeftBehind
<1>9. ASSUME NEW n \in Node, NEW t \in Terms, Restart(n, t) PROVE P
    <2>1. store' = store
        BY <1>9 DEF Restart
    <2> QED
        BY <2>1, <1>a
<1>10. Background => P
    BY <1>a, <1>b DEF Background
<1> HIDE DEF P
<1>11. P
    BY <1>1, <1>2, <1>3, <1>4, <1>5, <1>6, <1>7, <1>8, <1>9, <1>10, NextCases
<1> QED
    BY <1>11 DEF P

-----------------------------------------------------------------------------
(* What Apply has reported. *)

(* What is in a file stays in it. *)
LEMMA AppliedStays ==
    ASSUME TypeInv, NEW k \in Node, FileStep(k), NEW d \in Applied(k)
    PROVE  d \in Applied(k)'
<1>1. store[k].db \in Seq(Requests)
    BY DEF TypeInv, TypeOK, StorageType
<1>2. PICK i \in DOMAIN store[k].db : d = store[k].db[i]
    BY DEF Applied
<1>3. \/ store'[k].db = store[k].db
      \/ \E e \in Requests : store'[k].db = Append(store[k].db, e)
      \/ store'[k].db = Append(store[k].db, Data(log[k]))
    BY Zenon DEF FileStep, SameFile, CommitsOwn, CommitsCalled, CrashesCommitting
<1>4. ASSUME NEW e, store'[k].db = Append(store[k].db, e)
      PROVE  i \in DOMAIN store'[k].db /\ store'[k].db[i] = d
    <2>1. /\ DOMAIN Append(store[k].db, e) = 1 .. Len(store[k].db) + 1
          /\ i \in 1 .. Len(store[k].db)
          /\ Append(store[k].db, e)[i] = store[k].db[i]
        BY <1>1, <1>2
    <2> QED
        BY <1>2, <1>4, <2>1
<1>5. i \in DOMAIN store'[k].db /\ store'[k].db[i] = d
    BY <1>2, <1>3, <1>4
<1> QED
    BY <1>5 DEF Applied

(* What a server has committed stays committed. *)
LEMMA HasCommittedStays ==
    ASSUME TypeInv, NEW k \in Node, KeepsCommitted(k), TypeInv',
           NEW l \in Chain, HasCommitted(k, l)
    PROVE  HasCommitted(k, l)'
<1>1. /\ log[k] \in Seq(Entry) /\ log'[k] \in Seq(Entry)
      /\ committed[k] \in Nat /\ committed[k] <= Len(log[k])
      /\ committed'[k] \in Nat /\ l \in Seq(Entry)
    BY DEF TypeInv, TypeOK, Chain
<1>2. Len(l) \in Nat
    BY DEF Chain
<1>3. Len(l) <= committed[k]
    BY DEF HasCommitted
<1>4. SubSeq(log[k], 1, Len(l)) = l
    BY DEF HasCommitted
<1>5. \A i \in 1 .. Len(l) : log'[k][i] = l[i]
    <2> SUFFICES ASSUME NEW i \in 1 .. Len(l) PROVE log'[k][i] = l[i]
        OBVIOUS
    <2>1. committed[k] \in Nat
        BY <1>1
    <2>2. i \in 1 .. committed[k]
        BY <1>2, <1>3, <2>1
    <2>3. l[i] = log[k][i]
        BY <1>1, <1>2, <1>3, <1>4
    <2> QED
        BY <2>2, <2>3 DEF KeepsCommitted
<1>6. Len(l) <= Len(log'[k]) /\ Len(l) <= committed'[k]
    <2>1. /\ committed[k] \in Nat /\ committed'[k] \in Nat /\ Len(log'[k]) \in Nat
        BY <1>1
    <2> QED
        BY <1>2, <1>3, <2>1 DEF KeepsCommitted
<1>7. SubSeq(log'[k], 1, Len(l)) = l
    BY <1>1, <1>2, <1>5, <1>6
<1> QED
    BY <1>6, <1>7 DEF HasCommitted

Durable(r) ==
    /\ HasCommitted(r.by, r.log)
    /\ "timeout" \in Faults \/ Data(r.log) \in Applied(r.by)

Report(n) == [by |-> n, log |-> put[n].log]

(* The Logs that are reported as done come from the end of a commit. *)
LEMMA AckedStep ==
    ASSUME TypeInv, [Next]_vars
    PROVE  \/ acked' = acked
           \/ \E n \in Node : /\ put[n].phase = "Commit"
                              /\ acked' = acked \cup {Report(n)}
                              /\ committed'[n] = Len(put[n].log)
                              /\ log'[n] = put[n].log
                              /\ \/ "timeout" \in Faults
                                 \/ Data(put[n].log) \in Applied(n)'
<1> DEFINE P ==
        \/ acked' = acked
        \/ \E n \in Node : /\ put[n].phase = "Commit"
                           /\ acked' = acked \cup {Report(n)}
                           /\ committed'[n] = Len(put[n].log)
                           /\ log'[n] = put[n].log
                           /\ \/ "timeout" \in Faults
                              \/ Data(put[n].log) \in Applied(n)'
<1>1. \A n \in Node, d \in Requests : NewLog(n, d) => P
    BY Zenon DEF NewLog
<1>2. \A n \in Node : BeginCommit(n) => P
    BY Zenon DEF BeginCommit, clients
<1>3. \A n \in Node : BeginRollback(n) => P
    BY Zenon DEF BeginRollback, clients
<1>4. ASSUME NEW n \in Node, EndCommit(n) PROVE P
    <2> DEFINE d == Data(put[n].log)
               c == AfterCommit(store[n], d, stale)
    <2>1. put[n].phase = "Commit"
        BY <1>4 DEF EndCommit, PhaseEnds
    <2>2. d \in Requests /\ log[n] = put[n].log /\ store[n] \in StorageType
        BY <2>1, RoundData DEF TypeInv, RoundShape, RoundOK, TypeOK
    <2>3. /\ committed'[n] = Len(put[n].log)
          /\ log'[n] = put[n].log
        BY <1>4, <2>2 DEF EndCommit, TypeInv, TypeOK
    <2>4. \/ /\ store' = [store EXCEPT ![n] = AfterExpiry(c)]
             /\ CommitOK(store[n], d, stale)
             /\ acked' = acked \cup {Report(n)}
          \/ acked' = acked
          \/ "timeout" \in Faults /\ acked' = acked \cup {Report(n)}
        BY Zenon, <1>4 DEF EndCommit, Report
    <2>5. ASSUME CommitOK(store[n], d, stale),
                 store' = [store EXCEPT ![n] = AfterExpiry(c)]
          PROVE  d \in Applied(n)'
        <3>1. c \in StorageType /\ c.db = Append(store[n].db, d)
            BY Zenon, <2>2, <2>5, StorageOps, FileOps
        <3>2. store'[n].db = Append(store[n].db, d)
            <4>1. AfterExpiry(c).db = c.db
                BY Zenon, <2>2, <3>1, FileOps
            <4> HIDE DEF c
            <4> QED
                BY Zenon, <2>5, <3>1, <4>1, FileFrame
        <3>3. store[n].db \in Seq(Requests)
            BY <2>2 DEF StorageType
        <3>4. /\ Len(store[n].db) + 1 \in DOMAIN store'[n].db
              /\ store'[n].db[Len(store[n].db) + 1] = d
            BY <2>2, <3>2, <3>3
        <3> QED
            BY Zenon, <3>4 DEF Applied
    <2> QED
        BY Zenon, <2>1, <2>3, <2>4, <2>5
<1>5. \A n \in Node : EndRollback(n) => P
    BY Zenon DEF EndRollback, clients
<1>6. \A n \in Node : RoundTimeout(n) \/ (\E f \in Node : CallError(n, f)) => P
    BY Zenon DEF RoundTimeout, CallError, clients
<1>7. \A m \in net : Process(m) => P
    BY Zenon, ProcessCases
<1>8. \A n \in Node : Stops(n) => P
    BY Zenon DEF Stops
<1>9. \A n \in Node, t \in Terms : Restart(n, t) => P
    BY Zenon DEF Restart, clients
<1>10. Background => P
    BY Zenon DEF Background
<1> HIDE DEF P
<1>11. P
    BY <1>1, <1>2, <1>3, <1>4, <1>5, <1>6, <1>7, <1>8, <1>9, <1>10, NextCases
<1> QED
    BY <1>11 DEF P

(* Every Log that Apply reported as done stays committed at the server that *)
(* reported it and, unless calls can time out (tx.Commit drops its error),  *)
(* its request stays in the database file of that server: through crashes   *)
(* at any point, restarts, lost calls, changes of the leader and of the     *)
(* members, with any number of servers.                                     *)
THEOREM AckedStays == Spec => []AckedDurable
<1>1. Init => TypeInv /\ AckedDurable
    BY InitTypeInv DEF Init, AckedDurable
<1>2. TypeInv /\ AckedDurable /\ [Next]_vars => TypeInv' /\ AckedDurable'
    <2> SUFFICES ASSUME TypeInv, AckedDurable, [Next]_vars
                 PROVE  TypeInv' /\ AckedDurable'
        OBVIOUS
    <2>1. TypeInv'
        BY TypeStep
    <2>2. ASSUME NEW r \in acked PROVE Durable(r)'
        <3>1. r.by \in Node /\ r.log \in Chain
            BY DEF TypeInv, TypeOK
        <3>2. /\ HasCommitted(r.by, r.log)
              /\ "timeout" \in Faults \/ Data(r.log) \in Applied(r.by)
            BY DEF AckedDurable
        <3>3. HasCommitted(r.by, r.log)'
            BY Zenon, <2>1, <3>1, <3>2, CommittedStep, HasCommittedStays
        <3>4. "timeout" \in Faults \/ Data(r.log) \in Applied(r.by)'
            BY Zenon, <3>1, <3>2, FileSteps, AppliedStays
        <3> QED
            BY Zenon, <3>3, <3>4 DEF Durable, Data, Newest
    <2>3. ASSUME NEW n \in Node, put[n].phase = "Commit",
                 acked' = acked \cup {Report(n)},
                 committed'[n] = Len(put[n].log), log'[n] = put[n].log,
                 "timeout" \in Faults \/ Data(put[n].log) \in Applied(n)'
          PROVE  AckedDurable'
        <3>1. PICK r : r = Report(n)
            OBVIOUS
        <3>2. r.by = n /\ r.log = put[n].log /\ r.log \in Chain
            BY <3>1 DEF Report, TypeInv, TypeOK, Round
        <3>3. HasCommitted(n, r.log)'
            BY <2>3, <3>2 DEF HasCommitted, Chain
        <3>4. Durable(r)'
            BY Zenon, <2>3, <3>2, <3>3 DEF Durable, Data, Newest
        <3> QED
            BY Zenon, <2>2, <2>3, <3>1, <3>4 DEF AckedDurable, Durable
    <2>4. CASE acked' = acked
        BY Zenon, <2>1, <2>2, <2>4 DEF AckedDurable, Durable
    <2> QED
        BY Zenon, <2>1, <2>3, <2>4, AckedStep
<1> QED
    BY <1>1, <1>2, PTL DEF Spec

-----------------------------------------------------------------------------
(***************************************************************************)
(* One leader for all terms: how far a replica can stray from it.           *)
(*                                                                          *)
(* The invariant.  Apply waits at the leader L only, only L runs rounds and *)
(* only L sends; every call carries a Log that agrees with L's log before   *)
(* its last entry, at positions that L has committed and so will never      *)
(* change.                                                                  *)
(***************************************************************************)
OneLeader == \A t \in Terms : Config[t].leader = Config[1].leader

Follows(l) ==
    LET L == Config[1].leader
    IN  /\ Len(l) <= committed[L] + 1
        /\ \A i \in 1 .. Len(l) - 1 : l[i] = log[L][i]

CallsLeader == \A n \in Node : calling[n] # NoRequest => n = Config[1].leader

LeaderOnly ==
    LET L == Config[1].leader
    IN  /\ \A n \in Node : put[n].phase # "none" => n = L
        /\ \A m \in net : m.from = L /\ m.to # L
        /\ \A m \in net : Follows(m.log)
        /\ \A n \in Node : Follows(log[n])

ConfinedInv == TypeInv /\ LeaderOnly /\ CallsLeader

(* The one leader is a server. *)
LEMMA LeaderInNode == Config[1].leader \in Node /\ 1 \in Terms
BY KayakAssumption

(* The initial state satisfies the invariant. *)
LEMMA InitConfined == Init => ConfinedInv
<1> SUFFICES ASSUME Init PROVE LeaderOnly /\ CallsLeader
    BY InitTypeInv DEF ConfinedInv
<1>1. CallsLeader /\ net = {} /\ \A n \in Node : put[n].phase = "none"
    BY DEF Init, CallsLeader, NoRound
<1>2. ASSUME NEW n \in Node PROVE Follows(log[n])
    <2>1. log[n] = <<>> /\ committed[Config[1].leader] = 0
        BY LeaderInNode DEF Init
    <2> QED
        BY <2>1 DEF Follows
<1> QED
    BY <1>1, <1>2 DEF LeaderOnly

(* What L has committed stays, so a chain that follows L goes on doing so. *)
LEMMA FollowsStable ==
    ASSUME TypeInv, [Next]_vars, NEW l, Len(l) \in Nat, Follows(l)
    PROVE  Follows(l)'
<1> DEFINE L == Config[1].leader
<1>1. L \in Node
    BY LeaderInNode
<1>2. KeepsCommitted(L) /\ committed[L] \in Nat
    BY <1>1, CommittedStep DEF TypeInv, TypeOK
<1>3. committed'[L] \in Nat
    BY <1>1, TypeStep DEF TypeInv, TypeOK
<1>4. /\ committed'[L] >= committed[L]
      /\ \A i \in 1 .. committed[L] : log'[L][i] = log[L][i]
    BY <1>2 DEF KeepsCommitted
<1>5. Len(l) <= committed[L] + 1 /\ \A i \in 1 .. Len(l) - 1 : l[i] = log[L][i]
    BY DEF Follows
<1> HIDE DEF L
<1>a. ASSUME NEW c \in Nat, NEW e \in Nat, NEW k \in Nat, e >= c, k <= c + 1
      PROVE  k <= e + 1 /\ \A i \in 1 .. k - 1 : i \in 1 .. c
    BY <1>a
<1>6. /\ Len(l) <= committed'[L] + 1
      /\ \A i \in 1 .. Len(l) - 1 : i \in 1 .. committed[L]
    BY <1>2, <1>3, <1>4, <1>5, <1>a
<1> USE DEF L
<1> QED
    BY <1>4, <1>5, <1>6 DEF Follows

(* A chain that follows the leader's log still does when that log grows. *)
LEMMA FollowsKept ==
    ASSUME ConfinedInv, [Next]_vars
    PROVE  /\ \A m \in net : Follows(m.log)'
           /\ \A n \in Node : log'[n] = log[n] => Follows(log[n])'
           /\ \A n \in Node : put[n].phase # "none" => Follows(put[n].log)
<1>1. \A m \in net : Len(m.log) \in Nat /\ Follows(m.log)
    BY DEF ConfinedInv, TypeInv, CallsCarryLogs, LeaderOnly
<1>2. \A n \in Node : Len(log[n]) \in Nat /\ Follows(log[n])
    BY DEF ConfinedInv, TypeInv, TypeOK, Chain, LeaderOnly
<1>3. \A m \in net : Follows(m.log)'
    BY <1>1, FollowsStable DEF ConfinedInv
<1>4. ASSUME NEW n \in Node, log'[n] = log[n] PROVE Follows(log[n])'
    <2>1. ASSUME NEW x, x = log[n] PROVE Follows(x)'
        BY <1>2, <2>1, FollowsStable DEF ConfinedInv
    <2> QED
        BY <1>4, <2>1 DEF Follows
<1>5. ASSUME NEW n \in Node, put[n].phase # "none" PROVE Follows(put[n].log)
    <2>1. n = Config[1].leader /\ committed[n] \in Nat
        BY <1>5 DEF ConfinedInv, LeaderOnly, TypeInv, TypeOK
    <2>2. RoundOK(n)
        BY DEF ConfinedInv, TypeInv, RoundShape
    <2> QED
        BY <1>5, <2>1, <2>2 DEF Follows, RoundOK
<1> QED
    BY <1>3, <1>4, <1>5

(* A prefix of a chain that follows the leader's log follows it. *)
LEMMA FollowsTruncated ==
    ASSUME ConfinedInv, [Next]_vars, NEW n \in Node,
           log' = [log EXCEPT ![n] = DropUncommitted(n)]
    PROVE  \A k \in Node : Follows(log[k])'
<1>1. ASSUME NEW x, x = CommittedLog(n) PROVE Follows(x)'
    <2>1. /\ Len(x) = committed[n] /\ \A i \in 1 .. committed[n] : x[i] = log[n][i]
          /\ committed[n] \in Nat /\ committed[n] <= Len(log[n])
          /\ Len(log[n]) \in Nat
        <3>1. TypeOK
            BY DEF ConfinedInv, TypeInv
        <3>2. /\ committed[n] \in Nat /\ committed[n] <= Len(log[n])
              /\ Len(log[n]) \in Nat
            BY <3>1 DEF TypeOK, Chain
        <3> QED
            BY <1>1, <3>1, <3>2, CommittedLogFacts
    <2>2. Follows(log[n]) /\ committed[Config[1].leader] \in Nat
        BY LeaderInNode DEF ConfinedInv, LeaderOnly, TypeInv, TypeOK
    <2>3. Follows(x)
        <3>1. \A i \in 1 .. Len(x) - 1 : /\ i \in 1 .. committed[n]
                                         /\ i \in 1 .. Len(log[n]) - 1
            BY <2>1
        <3>2. Len(x) <= committed[Config[1].leader] + 1
            BY <2>1, <2>2 DEF Follows
        <3> QED
            BY <2>1, <2>2, <3>1, <3>2 DEF Follows
    <2> QED
        BY <2>1, <2>3, FollowsStable DEF ConfinedInv
<1>2. log'[n] = CommittedLog(n)
    BY CommittedLogFacts DEF ConfinedInv, TypeInv, TypeOK
<1>3. Follows(log[n])'
    BY <1>1, <1>2 DEF Follows
<1>4. ASSUME NEW k \in Node, k # n PROVE Follows(log[k])'
    <2>1. log'[k] = log[k]
        BY <1>4 DEF ConfinedInv, TypeInv, TypeOK
    <2> QED
        BY <2>1, FollowsKept
<1> QED
    BY <1>3, <1>4

(* Calls that a leader adds. *)
LEMMA FollowsSent ==
    ASSUME ConfinedInv, [Next]_vars, OneLeader, NEW n \in Node, NEW l \in Chain,
           NEW k \in Method, n = Config[1].leader, Follows(l),
           net' = net \cup Calls(n, k, l)
    PROVE  /\ \A m \in net' : m.from = n /\ m.to # n
           /\ \A m \in net' : Follows(m.log)'
<1>1. \A m \in Calls(n, k, l) : m.log = l /\ m.from = n /\ m.to # n
    BY CallsFacts, ConfigFacts DEF ConfinedInv, TypeInv
<1>2. Follows(l)'
    BY FollowsStable DEF ConfinedInv, Chain
<1>3. \A m \in net : m.from = n /\ m.to # n /\ Follows(m.log)'
    BY FollowsKept DEF ConfinedInv, LeaderOnly
<1> QED
    BY <1>1, <1>2, <1>3

(* NewLog preserves the invariant: the new Log extends the committed log. *)
LEMMA ConfinedNewLog ==
    ASSUME ConfinedInv, [Next]_vars, OneLeader,
           NEW n \in Node, NEW d \in Requests, NewLog(n, d)
    PROVE  LeaderOnly'
<1> USE DEF ConfinedInv
<1> DEFINE L == Config[1].leader
<1>1. n = L
    BY RequestAssumption DEF NewLog, CallsLeader
<1>2. PICK l \in Chain, r \in Round :
        /\ l = Append(CommittedLog(n), [term |-> term[n], data |-> d])
        /\ r.phase = "Prepare" /\ r.log = l
        /\ put' = [put EXCEPT ![n] = r]
        /\ net' = net \cup Calls(n, "Prepare", l)
    BY Zenon, NewLogRound DEF TypeInv
<1>3. /\ put'[n] = r /\ \A k \in Node : k # n => put'[k] = put[k]
    BY Zenon, <1>2, RoundStep DEF TypeInv
<1>4. Follows(l)
    <2>1. put'[n].phase # "none" /\ put'[n].log = l
        BY <1>2, <1>3
    <2>2. RoundOK(n)'
        BY TypeStep DEF TypeInv, RoundShape
    <2>3. log' = log /\ committed' = committed
        BY DEF NewLog, durable
    <2>4. committed[n] \in Nat
        BY DEF TypeInv, TypeOK
    <2>5. /\ Len(l) = committed[n] + 1
          /\ \A i \in 1 .. committed[n] : l[i] = log[n][i]
        BY <2>1, <2>2, <2>3 DEF RoundOK
    <2>6. Len(l) <= committed[n] + 1 /\ \A i \in 1 .. Len(l) - 1 : l[i] = log[n][i]
        BY <2>4, <2>5
    <2> QED
        BY <1>1, <2>6 DEF Follows
<1>5. /\ \A m \in net' : m.from = L /\ m.to # L
      /\ \A m \in net' : Follows(m.log)'
    BY Zenon, <1>1, <1>2, <1>4, FollowsSent DEF Method
<1>6. \A k \in Node : Follows(log[k])'
    BY FollowsKept DEF NewLog, durable
<1>7. \A k \in Node : put'[k].phase # "none" => k = L
    BY <1>1, <1>3 DEF LeaderOnly
<1> QED
    BY <1>5, <1>6, <1>7 DEF LeaderOnly

(* The start of a commit or rollback phase preserves the invariant. *)
LEMMA ConfinedBegin ==
    ASSUME ConfinedInv, [Next]_vars, OneLeader, NEW n \in Node,
           BeginCommit(n) \/ BeginRollback(n)
    PROVE  LeaderOnly'
<1> USE DEF ConfinedInv
<1> DEFINE L == Config[1].leader
<1>1. put[n].phase # "none"
    BY DEF BeginCommit, BeginRollback, PhaseEnds
<1>2. n = L /\ put[n].log \in Chain /\ Follows(put[n].log)
    BY <1>1, RoundData, FollowsKept DEF LeaderOnly
<1>3. \A k \in Node : k # n => put'[k] = put[k]
    BY BeginCommitRound, BeginRollbackRound, RoundStep DEF TypeInv
<1>4. PICK j \in Method : net' = net \cup Calls(n, j, put[n].log)
    BY DEF BeginCommit, BeginRollback, Method
<1>5. /\ \A m \in net' : m.from = L /\ m.to # L
      /\ \A m \in net' : Follows(m.log)'
    BY <1>2, <1>4, FollowsSent
<1>6. \A k \in Node : Follows(log[k])'
    <2>1. CASE BeginRollback(n)
        BY Zenon, <2>1, FollowsTruncated DEF BeginRollback
    <2>2. CASE BeginCommit(n)
        <3>1. log' = [log EXCEPT ![n] = put[n].log] /\ committed' = committed
            BY <2>2 DEF BeginCommit
        <3>2. /\ log'[n] = put[n].log
              /\ \A k \in Node : k # n => log'[k] = log[k]
            BY <3>1 DEF TypeInv, TypeOK
        <3>3. Follows(log[n])'
            BY <1>2, <3>1, <3>2 DEF Follows
        <3> QED
            BY <3>2, <3>3, FollowsKept
    <2> QED
        BY <2>1, <2>2
<1>7. \A k \in Node : put'[k].phase # "none" => k = L
    BY <1>2, <1>3 DEF LeaderOnly
<1> QED
    BY <1>5, <1>6, <1>7 DEF LeaderOnly

(* Steps that send nothing and leave the logs alone. *)
LEMMA ConfinedQuiet ==
    ASSUME ConfinedInv, [Next]_vars,
           net' \subseteq net, log' = log,
           \A k \in Node : put'[k].phase # "none" => put[k].phase # "none"
    PROVE  LeaderOnly'
<1>1. \A k \in Node : Follows(log[k])'
    BY FollowsKept
<1>2. \A m \in net' : Follows(m.log)'
    BY FollowsKept
<1> QED
    BY Zenon, <1>1, <1>2 DEF ConfinedInv, LeaderOnly

(* The handlers of a follower preserve the invariant. *)
LEMMA ConfinedProcess ==
    ASSUME ConfinedInv, [Next]_vars, NEW m \in net, Process(m)
    PROVE  LeaderOnly'
<1> USE DEF ConfinedInv
<1> DEFINE f == m.to
           L == Config[1].leader
<1>1. PICK ok \in BOOLEAN : Handles(m, ok)
    BY ProcessCases
<1>2. Answer(m, ok)
    BY Zenon, <1>1 DEF Handles, DoesNothing, StoresLog, CommitsLog, RollsBack
<1>3. /\ net' = net \ {m}
      /\ \A k \in Node : put'[k].phase = put[k].phase
    BY Zenon, <1>2, AnswerFacts DEF TypeInv
<1>4. CASE log' = log
    BY <1>3, <1>4, ConfinedQuiet
<1>5. f \in Node /\ m.log \in Seq(Entry) /\ Len(m.log) \in Nat \ {0} /\ f # L
    BY CallData DEF LeaderOnly
<1>6. CASE log' = [log EXCEPT ![f] = DropUncommitted(f)]
    BY Zenon, <1>3, <1>5, <1>6, FollowsTruncated, FollowsKept DEF LeaderOnly
<1>7. CASE Extends(m) /\ log' = [log EXCEPT ![f] = Append(@, Newest(m.log))]
    <2>1. /\ log'[f] = m.log
          /\ \A k \in Node : k # f => log'[k] = log[k]
        <3>1. Previous(m.log) = log[f] /\ log[f] \in Seq(Entry)
            BY <1>5, <1>7 DEF Extends, TypeInv, TypeOK, Chain
        <3>2. Append(log[f], Newest(m.log)) = m.log
            BY <1>5, <3>1 DEF Previous, Newest
        <3> QED
            BY <1>5, <1>7, <3>2 DEF TypeInv, TypeOK
    <2>2. Follows(m.log)'
        BY FollowsKept
    <2>3. Follows(log[f])'
        BY <2>1, <2>2 DEF Follows
    <2> QED
        BY <1>3, <2>1, <2>3, FollowsKept DEF LeaderOnly
<1> QED
    BY Zenon, <1>1, <1>4, <1>6, <1>7
       DEF Handles, DoesNothing, StoresLog, CommitsLog, RollsBack

(* Every step preserves the invariant. *)
LEMMA ConfinedStep ==
    ASSUME OneLeader, ConfinedInv, [Next]_vars
    PROVE  ConfinedInv'
<1> DEFINE P == LeaderOnly'
<1> USE DEF ConfinedInv
<1>1. \A n \in Node, d \in Requests : NewLog(n, d) => P
    BY ConfinedNewLog
<1>2. \A n \in Node : BeginCommit(n) => P
    BY ConfinedBegin
<1>3. \A n \in Node : BeginRollback(n) => P
    BY ConfinedBegin
<1>a. ASSUME NEW n \in Node, NEW r \in Round,
             put' = [put EXCEPT ![n] = r],
             r.phase = "none" \/ r.phase = put[n].phase
      PROVE  \A k \in Node : put'[k].phase # "none" => put[k].phase # "none"
    BY <1>a, RoundStep DEF TypeInv
<1>b. NoRound \in Round /\ NoRound.phase = "none"
    BY DEF NoRound, Round, Chain, Method
<1>4. \A n \in Node : EndCommit(n) => P
    BY Zenon, <1>a, <1>b, ConfinedQuiet DEF EndCommit
<1>5. \A n \in Node : EndRollback(n) => P
    BY <1>a, <1>b, ConfinedQuiet DEF EndRollback, durable
<1>6. ASSUME NEW n \in Node, RoundTimeout(n) \/ \E f \in Node : CallError(n, f)
      PROVE  P
    <2>1. log' = log /\ net' = net
        BY Zenon, <1>6 DEF RoundTimeout, CallError, durable
    <2> QED
        BY Zenon, <1>6, <1>a, <2>1, FailureRound, ConfinedQuiet DEF TypeInv
<1>7. \A m \in net : Process(m) => P
    BY ConfinedProcess
<1>8. \A n \in Node : Stops(n) => P
    BY <1>a, <1>b, ConfinedQuiet DEF Stops, StopNode
<1>9. ASSUME NEW n \in Node, NEW t \in Terms, Restart(n, t) PROVE P
    <2>1. /\ log' = [log EXCEPT ![n] = DropUncommitted(n)]
          /\ net' = net /\ put' = put
        BY <1>9 DEF Restart
    <2> QED
        BY Zenon, <2>1, FollowsTruncated, FollowsKept DEF LeaderOnly
<1>10. Background => P
    BY ConfinedQuiet DEF Background
<1> HIDE DEF P
<1>11. P
    BY <1>1, <1>2, <1>3, <1>4, <1>5, <1>6, <1>7, <1>8, <1>9, <1>10, NextCases
<1>12. CallsLeader'
    <2>1. ASSUME NEW n \in Node, NEW d \in Requests, Apply(n, d)
          PROVE  CallsLeader'
        <3>1. n = Config[1].leader /\ calling' = [calling EXCEPT ![n] = d]
            BY <2>1 DEF Apply, OneLeader, Leader, TypeInv, TypeOK
        <3> QED
            BY <3>1 DEF CallsLeader, TypeInv, TypeOK
    <2> QED
        BY <2>1, CallingStep DEF CallsLeader
<1> QED
    BY <1>11, <1>12, TypeStep DEF P

(* While one server is the leader of every term, no replica ever disagrees  *)
(* with the leader's log except in its own last Log, for every number of    *)
(* servers, every membership and all faults: the chain of LastHash values   *)
(* that processPrepare compares confines what a timed-out rollback does.    *)
THEOREM Confinement ==
    ASSUME OneLeader
    PROVE  Spec => []DivergenceConfined
<1>1. Init => ConfinedInv
    BY InitConfined
<1>2. ConfinedInv /\ [Next]_vars => ConfinedInv'
    BY ConfinedStep
<1>3. ConfinedInv => DivergenceConfined
    BY DEF ConfinedInv, LeaderOnly, Follows, DivergenceConfined
<1> QED
    BY <1>1, <1>2, <1>3, PTL DEF Spec
=============================================================================
