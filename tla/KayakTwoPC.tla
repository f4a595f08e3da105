----------------------------- MODULE KayakTwoPC -----------------------------
(***************************************************************************)
(* Kayak with its two-phase-commit runner: kayak/runtime.go,                *)
(* kayak/twopc_runner.go, twopc/twopc.go, the log and stable stores of      *)
(* kayak/boltdb_store.go and the transport of kayak/transport, above the    *)
(* worker of WorkerStorage.                                                 *)
(*                                                                          *)
(* A Log carries the hash of its predecessor and its own hash covers that   *)
(* field, so a Log stands for the whole chain that it ends.  The model      *)
(* writes a Log as that chain: a sequence of entries whose last one is the  *)
(* Log itself, whose length is Log.Index and whose front is what LastHash   *)
(* commits to.  The log store of a node is the chain of its last Log.       *)
(*                                                                          *)
(* Each request is given to Apply at most once: the driver draws a fresh    *)
(* sequence number for every request it sends (client/conn.go).             *)
(***************************************************************************)
EXTENDS WorkerStorage

CONSTANTS
    Node,      \* the servers
    Config,    \* Config[t] is the signed peer list of term t
    Faults     \* what the environment may do, a subset of FaultKind

FaultKind == {"timeout", "rpcerror", "loss", "crash", "aging"}

Terms == DOMAIN Config

ASSUME KayakAssumption ==
    /\ Terms = 1 .. Len(Config) /\ Terms # {}
    /\ \A t \in Terms : /\ Config[t].servers \subseteq Node
                        /\ Config[t].leader \in Config[t].servers
    /\ Faults \subseteq FaultKind

VARIABLES
    (* one per node *)
    up,         \* the run loop of the node's TwoPCRunner is alive
    state,      \* TwoPCRunner.currentState, "Idle" or "Prepared"
    term,       \* the stored CurrentTerm, also the term of runner.peers
    log,        \* the log store
    committed,  \* the stored CommittedIndex, also runner.lastLogIndex
    store,      \* the worker's storage
    calling,    \* the request of the Apply that waits for the run loop
    put,        \* the round of twopc.Coordinator.Put the run loop is in
    (* the rest of the system *)
    net,        \* calls that a node has yet to process
    submitted,  \* requests that a run loop has taken from Apply
    stale,      \* requests whose timestamp has left the write window
    acked       \* the Logs for which Apply has returned nil, and where

vars == <<up, state, term, log, committed, store, calling, put,
          net, submitted, stale, acked>>
durable == <<term, log, committed>>
clients == <<submitted, stale, acked>>

Entry == [term : Terms, data : Requests]
Chain == Seq(Entry)
Method == {"Prepare", "Commit", "Rollback"}
Call == [method : Method, from : Node, to : Node, log : Chain]

NoRound == [phase |-> "none", log |-> <<>>, wait |-> {},
            errs |-> {}, dead |-> FALSE]

(***************************************************************************)
(* phase  - the calls that are out, "none" between rounds                   *)
(* log    - the Log of the round                                            *)
(* wait   - the workers whose answer is awaited                             *)
(* errs   - the workers whose call of this phase returned an error          *)
(* dead   - the one context that all phases share has ended                 *)
(***************************************************************************)
Round == [phase : Method \cup {"none"}, log : Chain, wait : SUBSET Node,
          errs : SUBSET Node, dead : BOOLEAN]

Leader(n) == Config[term[n]].leader
Others(n) == Config[term[n]].servers \ {n}

(* The Log itself, the last of its chain, and the chain its LastHash names. *)
Newest(l) == l[Len(l)]
Previous(l) == SubSeq(l, 1, Len(l) - 1)
Data(l) == Newest(l).data

CommittedLog(n) == SubSeq(log[n], 1, committed[n])

(* Mutant: the range that is deleted starts at the committed index.         *)
DropUncommittedOffByOne(n) ==
    SubSeq(log[n], 1, IF committed[n] = 0 THEN 0 ELSE committed[n] - 1)

(* DeleteRange(lastLogIndex + 1, ...): what the log store keeps             *)
DropUncommitted(n) == CommittedLog(n)

Calls(n, m, l) ==
    {[method |-> m, from |-> n, to |-> f, log |-> l] : f \in Others(n)}

Init ==
    /\ up = [n \in Node |-> n \in Config[1].servers]
    /\ state = [n \in Node |-> "Idle"]
    /\ term = [n \in Node |-> 1]
    /\ log = [n \in Node |-> <<>>]
    /\ committed = [n \in Node |-> 0]
    /\ store = [n \in Node |-> NewStorage]
    /\ calling = [n \in Node |-> NoRequest]
    /\ put = [n \in Node |-> NoRound]
    /\ net = {}
    /\ submitted = {}
    /\ stale = {}
    /\ acked = {}
-----------------------------------------------------------------------------
(* The leader's side.                                                       *)

(* Runtime.Apply and TwoPCRunner.Apply check the role on the caller's       *)
(* goroutine and wait for the run loop; processLock admits one at a time.   *)
Apply(n, d) ==
    /\ up[n] /\ Leader(n) = n
    /\ calling[n] = NoRequest /\ put[n].phase = "none"
    /\ d \notin submitted /\ \A m \in Node : calling[m] # d
    /\ calling' = [calling EXCEPT ![n] = d]
    /\ UNCHANGED <<up, state, durable, store, put, net, clients>>

(* The run loop takes the request into processNewLog, also when a peers     *)
(* update came first and the node leads no more, and begins the first phase *)
(* of Put.  It serves nothing else until Put returns.                       *)
NewLog(n, d) ==
    /\ up[n] /\ put[n].phase = "none"
    /\ calling[n] = d
    /\ calling' = [calling EXCEPT ![n] = NoRequest]
    /\ submitted' = submitted \cup {d}
    /\ LET l == Append(CommittedLog(n), [term |-> term[n], data |-> d])
       IN  /\ put' = [put EXCEPT ![n] = [NoRound EXCEPT !.phase = "Prepare",
                                                        !.log = l,
                                                        !.wait = Others(n)]]
           /\ net' = net \cup Calls(n, "Prepare", l)
    /\ UNCHANGED <<up, state, durable, store, stale, acked>>

(* Mutant: the phase ends with the first answer.                            *)
PhaseEndsEarly(n, phase) ==
    put[n].phase = phase /\ (put[n].wait = {} \/ put[n].wait # Others(n))

(* The WaitGroup of a phase is released: every call has returned.           *)
PhaseEnds(n, phase) == put[n].phase = phase /\ put[n].wait = {}

LocalPrepareOK(n) ==
    PrepareOK(store[n], Data(put[n].log), stale, put[n].dead)

(* All workers have prepared: localPrepare, then the commit phase           *)
BeginCommit(n) ==
    LET l == put[n].log
    IN  /\ up[n] /\ PhaseEnds(n, "Prepare")
        /\ put[n].errs = {} /\ LocalPrepareOK(n)
        /\ store' = [store EXCEPT ![n] = AfterPrepare(@, Data(l))]
        /\ log' = [log EXCEPT ![n] = l]
        /\ put' = [put EXCEPT ![n] = [@ EXCEPT !.phase = "Commit",
                                                 !.wait = Others(n)]]
        /\ net' = net \cup Calls(n, "Commit", l)
        /\ UNCHANGED <<up, calling, state, term, committed, clients>>

(* A prepare failed: localRollback, then the rollback phase.  When the      *)
(* context has ended the calls still leave, but nobody waits for them.      *)
BeginRollback(n) ==
    LET l == put[n].log
    IN  /\ up[n] /\ PhaseEnds(n, "Prepare")
        /\ put[n].errs # {} \/ ~LocalPrepareOK(n)
        /\ log' = [log EXCEPT ![n] = DropUncommitted(n)]
        /\ store' = [store EXCEPT ![n] = AfterRollback(@, Data(l), stale)]
        /\ put' = [put EXCEPT ![n] =
                    [@ EXCEPT !.phase = "Rollback", !.errs = {},
                              !.wait = IF put[n].dead THEN {} ELSE Others(n)]]
        /\ net' = net \cup Calls(n, "Rollback", l)
        /\ UNCHANGED <<up, calling, state, term, committed, clients>>

(* localCommit after the commit phase, whatever the workers answered: the   *)
(* index is committed also when the storage fails.  Put cancels its context *)
(* when it returns.                                                         *)
EndCommit(n) ==
    LET l == put[n].log
        Ends(s, ok) == /\ store' = [store EXCEPT ![n] = AfterExpiry(s)]
                       /\ acked' = IF ok THEN acked \cup {[by |-> n, log |-> l]}
                                         ELSE acked
    IN  /\ up[n] /\ PhaseEnds(n, "Commit")
        /\ \/ Ends(AfterCommit(store[n], Data(l), stale),
                   CommitOK(store[n], Data(l), stale))
           \/ /\ "timeout" \in Faults
              /\ CommitOK(store[n], Data(l), stale)
              /\ Ends(AfterLostCommit(store[n], Data(l)), TRUE)
        /\ committed' = [committed EXCEPT ![n] = Len(l)]
        /\ put' = [put EXCEPT ![n] = NoRound]
        /\ UNCHANGED <<up, calling, state, term, log, net, submitted, stale>>

EndRollback(n) ==
    /\ up[n] /\ PhaseEnds(n, "Rollback")
    /\ put' = [put EXCEPT ![n] = NoRound]
    /\ store' = [store EXCEPT ![n] = AfterExpiry(@)]
    /\ UNCHANGED <<up, calling, state, durable, net, clients>>

(* A call of the round returns an error; its request may still be processed *)
CallError(n, f) ==
    /\ "rpcerror" \in Faults
    /\ up[n] /\ f \in put[n].wait
    /\ put' = [put EXCEPT ![n] = [@ EXCEPT !.wait = put[n].wait \ {f},
                                             !.errs = put[n].errs \cup {f}]]
    /\ UNCHANGED <<up, calling, state, durable, store, net, clients>>

(* Mutant: a call does not heed the end of its context.                     *)
RoundTimeoutUnheard(n) ==
    /\ "timeout" \in Faults
    /\ up[n] /\ put[n].phase # "none" /\ ~put[n].dead
    /\ put' = [put EXCEPT ![n] = [@ EXCEPT !.dead = TRUE]]
    /\ store' = [store EXCEPT ![n] = AfterExpiry(@)]
    /\ UNCHANGED <<up, calling, state, durable, net, clients>>

(* ProcessTimeout passes: every awaited call returns context.DeadlineExceeded *)
RoundTimeout(n) ==
    /\ "timeout" \in Faults
    /\ up[n] /\ put[n].phase # "none" /\ ~put[n].dead
    /\ put' = [put EXCEPT ![n] =
                [@ EXCEPT !.wait = {}, !.dead = TRUE,
                          !.errs = put[n].errs \cup put[n].wait]]
    /\ store' = [store EXCEPT ![n] = AfterExpiry(@)]
    /\ UNCHANGED <<up, calling, state, durable, net, clients>>
-----------------------------------------------------------------------------
(* The follower's side: processRequest.                                     *)

(* The run loop takes the call m and its answer reaches the coordinator, if *)
(* that still waits for it.                                                 *)
Answer(m, ok) ==
    LET r == put[m.from]
    IN  /\ net' = net \ {m}
        /\ put' = IF r.phase = m.method /\ r.log = m.log /\ m.to \in r.wait
                  THEN [put EXCEPT ![m.from] =
                            [r EXCEPT !.wait = r.wait \ {m.to},
                                      !.errs = IF ok THEN r.errs
                                               ELSE r.errs \cup {m.to}]]
                  ELSE put

Receives(m, method) ==
    /\ m \in net /\ m.method = method
    /\ up[m.to] /\ put[m.to].phase = "none"

Refuse(m) == Answer(m, FALSE) /\ UNCHANGED <<up, calling, state, durable, store, clients>>

(* verifyLeader                                                             *)
RefuseStranger(m) ==
    /\ \E method \in Method : Receives(m, method)
    /\ m.from # Leader(m.to)
    /\ Refuse(m)

Logged(m) == Len(log[m.to]) >= Len(m.log)

(* Mutant: the position is compared and the hash is not.                    *)
ExtendsByIndex(m) == Len(m.log) = Len(log[m.to]) + 1

(* LastHash is the hash of the stored last Log, nil for an empty store      *)
Extends(m) == Previous(m.log) = log[m.to]

Prepare(m) ==
    LET f == m.to
        d == Data(m.log)
    IN  /\ Receives(m, "Prepare") /\ m.from = Leader(f)
        /\ \/ /\ Logged(m)      \* already prepared, whatever Log is stored
              /\ Answer(m, TRUE)
              /\ UNCHANGED <<up, calling, state, durable, store, clients>>
           \/ /\ ~Logged(m)
              /\ Extends(m) /\ PrepareOK(store[f], d, stale, FALSE)
              /\ store' = [store EXCEPT ![f] = AfterPrepare(@, d)]
              /\ log' = [log EXCEPT ![f] = Append(@, Newest(m.log))]
              /\ state' = [state EXCEPT ![f] = "Prepared"]
              /\ Answer(m, TRUE)
              /\ UNCHANGED <<up, calling, term, committed, clients>>
           \/ /\ ~Logged(m)
              /\ ~Extends(m) \/ ~PrepareOK(store[f], d, stale, FALSE)
              /\ Refuse(m)

AtCommitPosition(m) == Logged(m) /\ committed[m.to] + 1 = Len(m.log)

(* The worker runs first and its error is kept, but the index of the stored *)
(* Log is committed in any case.                                            *)
Commit(m) ==
    LET f == m.to
        d == Data(m.log)
        Ends(s, ok) == /\ store' = [store EXCEPT ![f] = s]
                       /\ Answer(m, ok)
    IN  /\ Receives(m, "Commit") /\ m.from = Leader(f)
        /\ \/ /\ state[f] # "Prepared" \/ ~AtCommitPosition(m)
              /\ Refuse(m)
           \/ /\ state[f] = "Prepared" /\ AtCommitPosition(m)
              /\ \/ Ends(AfterCommit(store[f], d, stale),
                         CommitOK(store[f], d, stale))
                 \/ /\ "timeout" \in Faults
                    /\ CommitOK(store[f], d, stale)
                    /\ Ends(AfterLostCommit(store[f], d), TRUE)
              /\ committed' = [committed EXCEPT ![f] = Len(m.log)]
              /\ state' = [state EXCEPT ![f] = "Idle"]
              /\ UNCHANGED <<up, calling, term, log, clients>>

Rollback(m) ==
    LET f == m.to
        d == Data(m.log)
    IN  /\ Receives(m, "Rollback") /\ m.from = Leader(f)
        /\ \/ /\ state[f] = "Prepared" /\ ~Logged(m)
              /\ Answer(m, TRUE)
              /\ UNCHANGED <<up, calling, state, durable, store, clients>>
           \/ /\ state[f] # "Prepared" \/ (Logged(m) /\ ~AtCommitPosition(m))
              /\ Refuse(m)
           \/ /\ state[f] = "Prepared" /\ AtCommitPosition(m)
              /\ store' = [store EXCEPT ![f] = AfterRollback(@, d, stale)]
              /\ LET ok == RollbackOK(store[f], d, stale)
                 IN  /\ Answer(m, ok)
                     /\ log' = IF ok THEN [log EXCEPT ![f] = DropUncommitted(f)]
                                     ELSE log
                     /\ state' = IF ok THEN [state EXCEPT ![f] = "Idle"]
                                       ELSE state
              /\ UNCHANGED <<up, calling, term, committed, clients>>

(* The context of a prepared transaction ends.  It was made after the       *)
(* leader's, with the same timeout.                                         *)
TxExpires(f) ==
    /\ "timeout" \in Faults
    /\ state[f] = "Prepared" /\ store[f].live
    /\ store' = [store EXCEPT ![f] = AfterExpiry(@)]
    /\ UNCHANGED <<up, calling, state, durable, put, net, clients>>
-----------------------------------------------------------------------------
(* Peers, the process and the environment.                                  *)

(* UpdatePeers is delivered to the run loop only while the runner is idle.  *)
UpdatePeers(n, t) ==
    /\ up[n] /\ put[n].phase = "none" /\ state[n] = "Idle"
    /\ t > term[n] /\ n \in Config[t].servers
    /\ term' = [term EXCEPT ![n] = t]
    /\ UNCHANGED <<up, calling, state, log, committed, store, put, net, clients>>

(* What a stop of the process leaves: the files.  Calls that are on their   *)
(* way from or to the node may still be delivered.                          *)
StopNode(n, s) ==
    /\ up' = [up EXCEPT ![n] = FALSE]
    /\ state' = [state EXCEPT ![n] = "Idle"]
    /\ calling' = [calling EXCEPT ![n] = NoRequest]
    /\ put' = [put EXCEPT ![n] = NoRound]
    /\ store' = [store EXCEPT ![n] = AfterReopen(s)]

(* Runtime.UpdatePeers with a list the server is not in, of any term:       *)
(* Shutdown waits for the run loop, which ends between two requests, and    *)
(* stores nothing.                                                          *)
Leave(n, t) ==
    /\ up[n] /\ put[n].phase = "none"
    /\ n \notin Config[t].servers
    /\ StopNode(n, store[n])
    /\ UNCHANGED <<durable, net, clients>>

(* The process dies, or is shut down between two requests.                  *)
Crash(n) ==
    /\ "crash" \in Faults
    /\ up[n]
    /\ StopNode(n, store[n])
    /\ UNCHANGED <<durable, net, clients>>

(* The process dies between Storage.Commit and SetUint64(CommittedIndex),   *)
(* in localCommit or in processCommit.                                      *)
CrashInLocalCommit(n) ==
    LET d == Data(put[n].log)
    IN  /\ "crash" \in Faults
        /\ up[n] /\ PhaseEnds(n, "Commit")
        /\ StopNode(n, AfterCommit(store[n], d, stale))
        /\ UNCHANGED <<durable, net, clients>>

CrashInCommit(m) ==
    /\ "crash" \in Faults
    /\ Receives(m, "Commit") /\ m.from = Leader(m.to)
    /\ state[m.to] = "Prepared" /\ AtCommitPosition(m)
    /\ StopNode(m.to, AfterCommit(store[m.to], Data(m.log), stale))
    /\ net' = net \ {m}
    /\ UNCHANGED <<durable, clients>>

(* Init of a new runner on the old files: tryRestore and initState.         *)
Restart(n, t) ==
    /\ ~up[n]
    /\ t >= term[n] /\ n \in Config[t].servers
    /\ committed[n] > 0 => log[n][committed[n]].term <= t
    /\ log' = [log EXCEPT ![n] = DropUncommitted(n)]
    /\ term' = [term EXCEPT ![n] = t]
    /\ up' = [up EXCEPT ![n] = TRUE]
    /\ UNCHANGED <<state, committed, store, calling, put, net, clients>>

(* A call is never processed.                                               *)
Lose(m) ==
    /\ "loss" \in Faults
    /\ m \in net
    /\ net' = net \ {m}
    /\ UNCHANGED <<up, calling, state, durable, store, put, clients>>

Age(d) ==
    /\ "aging" \in Faults
    /\ d \in submitted \ stale
    /\ stale' = stale \cup {d}
    /\ UNCHANGED <<up, calling, state, durable, store, put, net, submitted, acked>>
-----------------------------------------------------------------------------
LeaderStep(n) ==
    \/ \E d \in Requests : NewLog(n, d)
    \/ BeginCommit(n) \/ BeginRollback(n) \/ EndCommit(n) \/ EndRollback(n)

Process(m) == RefuseStranger(m) \/ Prepare(m) \/ Commit(m) \/ Rollback(m)

Next ==
    \/ \E n \in Node :
        \/ \E d \in Requests : Apply(n, d)
        \/ LeaderStep(n)
        \/ RoundTimeout(n)
        \/ \E f \in Node : CallError(n, f)
        \/ TxExpires(n)
        \/ Crash(n)
        \/ CrashInLocalCommit(n)
        \/ \E t \in Terms : UpdatePeers(n, t) \/ Leave(n, t) \/ Restart(n, t)
    \/ \E m \in net : Process(m) \/ CrashInCommit(m) \/ Lose(m)
    \/ \E d \in Requests : Age(d)

Spec == Init /\ [][Next]_vars

(* A run loop that has something to do does it, and a context with a        *)
(* deadline ends.                                                           *)
Serve(n) == \E m \in net : m.to = n /\ Process(m)

Fairness ==
    \A n \in Node : /\ WF_vars(LeaderStep(n))
                    /\ WF_vars(RoundTimeout(n))
                    /\ WF_vars(Serve(n))

FairSpec == Spec /\ Fairness
-----------------------------------------------------------------------------
(* Properties.                                                              *)

(* Types; the committed index points into the log store (tryRestore fails   *)
(* when it does not).                                                       *)
TypeOK ==
    /\ up \in [Node -> BOOLEAN]
    /\ state \in [Node -> {"Idle", "Prepared"}]
    /\ term \in [Node -> Terms]
    /\ log \in [Node -> Chain]
    /\ committed \in [Node -> Nat]
    /\ \A n \in Node : committed[n] <= Len(log[n])
    /\ store \in [Node -> StorageType]
    /\ calling \in [Node -> Requests \cup {NoRequest}]
    /\ put \in [Node -> Round]
    /\ net \subseteq Call
    /\ submitted \subseteq Requests
    /\ stale \subseteq Requests
    /\ acked \subseteq [by : Node, log : Chain]

(* No replica's committed index is ever more than one away from another's,  *)
(* whatever is lost, late, timed out or restarted: a leader commits index i *)
(* only after every follower has stored a Log at i (processPrepare), and a  *)
(* follower stores a second Log only after it has committed the first,      *)
(* because Storage.Prepare refuses while another transaction is open.       *)
LockStep == \A m, n \in Node : committed[m] <= committed[n] + 1

(* While one server stays the leader, a replica disagrees with the leader's *)
(* log in its last Log at most: the LastHash comparison in processPrepare   *)
(* stops a replica that has gone astray from going further.                 *)
DivergenceConfined ==
    LET L == Config[1].leader
    IN  \A n \in Node :
            /\ Len(log[n]) <= committed[L] + 1
            /\ \A i \in 1 .. Len(log[n]) - 1 : log[n][i] = log[L][i]

(* A committed Log is never deleted, replaced or uncommitted: not by a      *)
(* rollback, nor by the truncation in tryRestore.                           *)
KeepsCommitted(n) ==
    /\ committed'[n] >= committed[n]
    /\ Len(log'[n]) >= committed[n]
    /\ \A i \in 1 .. committed[n] : log'[n][i] = log[n][i]
CommittedForever == [][\A n \in Node : KeepsCommitted(n)]_vars

HasCommitted(n, l) ==
    Len(l) <= committed[n] /\ SubSeq(log[n], 1, Len(l)) = l
Applied(n) == {store[n].db[i] : i \in DOMAIN store[n].db}

(* What Apply reported as done stays in the committed log of the server     *)
(* that reported it and, unless calls time out, in its database file, also  *)
(* after it crashes and restarts.  Where they do, Storage.Commit drops the  *)
(* error of tx.Commit (storage.go:198) and Apply reports writes that the    *)
(* file does not hold.                                                      *)
AckedDurable ==
    \A r \in acked : /\ HasCommitted(r.by, r.log)
                     /\ "timeout" \in Faults \/ Data(r.log) \in Applied(r.by)

CommittedData(n) == [i \in 1 .. committed[n] |-> log[n][i].data]

(* A database file holds only requests that its own replica has committed,  *)
(* in the order of its log: a Commit whose Log is not the one the replica   *)
(* prepared executes nothing (equalTxID in Storage.Commit).                 *)
AppliedIsCommitted ==
    \A n \in Node :
        store[n].db = SelectSeq(CommittedData(n), LAMBDA d : d \in Applied(n))

(* When Put has returned, its round has ended everywhere: no replica is     *)
(* still prepared and all have the same log and the same database.          *)
RoundIsAtomic ==
    (\A n \in Node : put[n].phase = "none") =>
        \A m, n \in Node : /\ state[n] = "Idle" /\ ~store[n].tx
                           /\ log[m] = log[n]
                           /\ committed[m] = Len(log[m])
                           /\ store[m].db = store[n].db

(* Apply returns: the run loop takes the request, and the rounds of Put are *)
(* bounded by the context's deadline.                                       *)
ApplyReturns ==
    \A n \in Node : (calling[n] # NoRequest \/ put[n].phase # "none")
                     ~> (calling[n] = NoRequest /\ put[n].phase = "none")

(* The comment on kayak.Log: "Log entries are replicated to all members of  *)
(* the Kayak cluster", that is, no two members commit different Logs.       *)
Agreement ==
    \A m, n \in Node : \A i \in 1 .. committed[m] :
        i <= committed[n] => log[m][i] = log[n][i]

(* The comment on Coordinator.Put, which is to apply the batch "on all      *)
(* workers": when it returned no error, every server has committed the Log  *)
(* or has yet to process the call that commits it.                          *)
AckedReachesAll ==
    \A r \in acked, n \in Node :
        \/ HasCommitted(n, r.log)
        \/ \E m \in net : m.to = n /\ m.method = "Commit" /\ m.log = r.log
=============================================================================
