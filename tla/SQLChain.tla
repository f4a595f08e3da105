------------------------------ MODULE SQLChain ------------------------------
(***************************************************************************)
(* The SQL chain (sqlchain/chain.go, runtime.go, rpc.go, blockindex.go): the *)
(* servers of a database take turns to produce a block per period.  A       *)
(* server has a main cycle, which fetches a missing head, runs its turn and *)
(* advises its block to the others, and a goroutine processBlocks, which    *)
(* alone extends the chain.                                                 *)
(*                                                                          *)
(* A block contains the hash of its parent, so it commits to its whole      *)
(* chain; the model writes a block as that chain of headers.  The genesis   *)
(* block is the empty chain.  Signatures are taken to verify.               *)
(***************************************************************************)
EXTENDS QueryIndex, Sequences, FiniteSetsExt

CONSTANTS
    N,        \* the number of servers; a server is its index in the peer list
    TTL,      \* QueryTTL: how many turns an acknowledgement may wait
    Faults,   \* what may go wrong, a subset of FaultKind
    MaxCrash  \* bound on the crashes of a run

FaultKind == {"crash", "loss", "slow"}
Node == 0 .. N - 1

ASSUME ChainAssumption ==
    /\ N \in Nat \ {0} /\ TTL \in Nat /\ MaxClock \in Nat /\ MaxCrash \in Nat
    /\ \A a \in Acks : Header[a].at \in Periods /\ Header[a].node \in Node
    /\ Faults \subseteq FaultKind

VARIABLES
    clock,     \* the current period
    up,        \* the server runs
    turn,      \* runtime.nextTurn
    head,      \* runtime.head, the best chain; also in the file
    acked,     \* the acknowledgements in the file
    barrier,   \* queryIndex.barrier
    index,     \* queryIndex.heightIndex
    main,      \* where the main cycle is
    stash,     \* blocks that processBlocks keeps for a later turn
    signal,    \* the channel heights is full
    waiting,   \* senders at the channel blocks: [to, block, by]
    crashes,   \* how often a server has crashed
    checking,  \* the block in CheckAndPushNewBlock, with the queries left
    asked,     \* timing: who has run a whole syncHead since the turn's end
    dropped    \* history: who has dropped a block of their own

server == <<turn, barrier, index, stash, signal, checking, main>>
world == <<clock, up, crashes, asked, dropped>>
vars == <<world, head, acked, waiting, server>>

Height(b) == IF b = <<>> THEN 0 ELSE b[Len(b)].height
Queries(b) == b[Len(b)].queries
Producer(b) == b[Len(b)].producer
ParentOf(b) == SubSeq(b, 1, Len(b) - 1)

(* FetchBlock: the ancestor of the head at a height, nil if it was skipped; *)
(* the last one where a restart in the first period has made two of them.   *)
FetchBlock(n, h) ==
    LET at == {i \in 1 .. Len(head[n]) : head[n][i].height = h}
    IN  IF at = {} THEN Nil ELSE SubSeq(head[n], 1, Max(at))

Idle == [block |-> <<>>, left |-> {}]
Returned == -1   \* sent by the goroutine that returns the stash

Init ==
    /\ clock = 0 /\ crashes = 0 /\ asked = {} /\ dropped = {}
    /\ up = [n \in Node |-> TRUE]
    /\ turn = [n \in Node |-> 1]
    /\ head = [n \in Node |-> <<>>]
    /\ acked = [n \in Node |-> {}]
    /\ barrier = [n \in Node |-> 0]
    /\ index = [n \in Node |-> EmptyIndex]
    /\ main = [n \in Node |-> "sync"]
    /\ stash = [n \in Node |-> {}]
    /\ signal = [n \in Node |-> FALSE]
    /\ waiting = {}
    /\ checking = [n \in Node |-> Idle]
-----------------------------------------------------------------------------
(* Acknowledgements.                                                        *)

QueryIsExpired(n, a) == Header[a].at < turn[n] - TTL


(* The file and the index are written in one bolt transaction, which an     *)
(* error of addAck rolls back in the file only.                             *)
Stored(n, r, a) == IF r.ok THEN acked[n] \cup {a} ELSE acked[n]

(* VerifyAndPushAckedQuery                                                  *)
AckQuery(n, a) ==
    LET r == AddAck(index[n], a)
    IN  /\ up[n] /\ n = Header[a].node /\ Header[a].at <= clock
        /\ ~QueryIsExpired(n, a)
        /\ index' = [index EXCEPT ![n] = r.idx]
        /\ acked' = [acked EXCEPT ![n] = Stored(n, r, a)]
        /\ UNCHANGED <<world, turn, head, barrier, main, stash, signal, waiting, checking>>
-----------------------------------------------------------------------------
(* The main cycle.                                                          *)

MissingTwo(n) == Height(head[n]) < turn[n] - 2   \* mutant
Missing(n) == Height(head[n]) < turn[n] - 1
Holders(n) == {p \in Node \ {n} : up[p] /\ FetchBlock(p, turn[n] - 1) # Nil}

(* The servers that have run syncHead with no call lost, after their turn   *)
(* of this period and since the last block was pushed; see Tick.            *)
Asked(n) ==
    IF turn[n] > clock /\ "slow" \notin Faults THEN asked \cup {n} ELSE asked

(* syncHead: ask one server after the other for the block of the last turn  *)
SyncHead(n) ==
    /\ up[n] /\ main[n] = "sync"
    /\ \/ /\ Missing(n)
          /\ \E p \in Holders(n) :
                /\ "loss" \in Faults \/ \A q \in Holders(n) : p <= q
                /\ waiting' = waiting \cup
                       {[to |-> n, block |-> FetchBlock(p, turn[n] - 1), by |-> n]}
          /\ main' = [main EXCEPT ![n] = "fetch"]
          /\ asked' = Asked(n)
       \/ /\ ~Missing(n) \/ Holders(n) = {}
          /\ main' = [main EXCEPT ![n] = "turn"]
          /\ asked' = Asked(n)
          /\ UNCHANGED waiting
       \/ /\ Missing(n) /\ Holders(n) # {}
          /\ "loss" \in Faults
          /\ main' = [main EXCEPT ![n] = "turn"]
          /\ UNCHANGED <<waiting, asked>>
    /\ UNCHANGED <<clock, up, crashes, dropped, turn, head, acked, barrier, index, stash, signal, checking>>

(* nextTick: the turn is not due                                            *)
Sleep(n) ==
    /\ up[n] /\ main[n] = "turn" /\ turn[n] > clock
    /\ main' = [main EXCEPT ![n] = "sync"]
    /\ UNCHANGED <<world, turn, head, acked, barrier, index, stash, signal, waiting, checking>>

MyTurn(n) == turn[n] % N = n

(* produceBlock: mark and collect the queries, give the block to           *)
(* processBlocks, which stashes it because the turn is not over.            *)
ProduceBlock(n) ==
    LET queries == Collected(index[n], barrier[n], turn[n])
        block == Append(head[n], [height |-> clock, producer |-> n, queries |-> queries])
    IN  /\ up[n] /\ main[n] = "turn" /\ turn[n] <= clock
        /\ MyTurn(n)
        /\ index' = [index EXCEPT ![n] = Marked(@, barrier[n], turn[n])]
        /\ waiting' = waiting \cup {[to |-> n, block |-> block, by |-> n]}
        /\ main' = [main EXCEPT ![n] = "produce"]
        /\ UNCHANGED <<world, turn, head, acked, barrier, stash, signal, checking>>

(* ... then advise it to the others, all at once.                           *)
Advices(n, b) == {[to |-> m, block |-> b, by |-> n] : m \in {p \in Node \ {n} : up[p]}}

TurnDoneEarly(n) ==   \* mutant: the turn is not due
    \/ main[n] = "turn" /\ ~MyTurn(n)
    \/ main[n] = "advise" /\ \A w \in waiting : w.by # n
TurnDoneWhenPushed(n) ==   \* mutant: waits for a block that is stashed until the turn ends
    \/ main[n] = "turn" /\ turn[n] <= clock /\ ~MyTurn(n)
    \/ main[n] = "advise" /\ (\A w \in waiting : w.by # n) /\ Height(head[n]) = clock

(* It is not my turn, or every advice has returned.                         *)
TurnDone(n) ==
    \/ main[n] = "turn" /\ turn[n] <= clock /\ ~MyTurn(n)
    \/ main[n] = "advise" /\ \A w \in waiting : w.by # n

(* The end of runCurrentTurn: setNextTurn and advanceBarrier.               *)
EndTurn(n) ==
    /\ up[n] /\ TurnDone(n)
    /\ turn' = [turn EXCEPT ![n] = @ + 1]
    /\ barrier' = [barrier EXCEPT ![n] = turn[n] + 1 - TTL]
    /\ index' = [index EXCEPT ![n] = Expired(@, barrier[n], turn[n] + 1 - TTL)]
    /\ main' = [main EXCEPT ![n] = "notify"]
    /\ UNCHANGED <<world, head, acked, stash, signal, waiting, checking>>

(* c.heights <- height, a channel with room for one                         *)
Notify(n) ==
    /\ up[n] /\ main[n] = "notify" /\ ~signal[n]
    /\ signal' = [signal EXCEPT ![n] = TRUE]
    /\ main' = [main EXCEPT ![n] = "sync"]
    /\ UNCHANGED <<world, turn, head, acked, barrier, index, stash, waiting, checking>>
-----------------------------------------------------------------------------
(* processBlocks.                                                           *)

ReturnStashLost(n) ==   \* mutant: the stash is cleared before it is returned
    /\ up[n] /\ signal[n] /\ checking[n] = Idle
    /\ signal' = [signal EXCEPT ![n] = FALSE]
    /\ stash' = [stash EXCEPT ![n] = {}]
    /\ UNCHANGED <<world, turn, head, acked, barrier, index, main, waiting, checking>>

(* returnStash is a goroutine: its blocks compete with the other senders.   *)
ReturnStash(n) ==
    /\ up[n] /\ signal[n] /\ checking[n] = Idle
    /\ signal' = [signal EXCEPT ![n] = FALSE]
    /\ waiting' = waiting \cup {[to |-> n, block |-> b, by |-> Returned] : b \in stash[n]}
    /\ stash' = [stash EXCEPT ![n] = {}]
    /\ UNCHANGED <<world, turn, head, acked, barrier, index, main, checking>>

(* pushBlock                                                                *)
Push(n, b) ==
    /\ head' = [head EXCEPT ![n] = b]
    /\ index' = [index EXCEPT ![n] = SetSigned(@, barrier[n], Height(b), b, Queries(b))]
    /\ asked' = {}

ExpectedProducer(n) == (Height(head[n]) + 1) % N

CheckBlockAnywhere(n, b) ==   \* mutant: no check of the parent
    IF Producer(b) = n THEN Push(n, b) /\ UNCHANGED checking
    ELSE IF Producer(b) # ExpectedProducer(n) THEN UNCHANGED <<head, index, checking, asked>>
    ELSE /\ checking' = [checking EXCEPT ![n] = [block |-> b, left |-> Queries(b)]]
         /\ UNCHANGED <<head, index, asked>>

(* CheckAndPushNewBlock up to the queries                                   *)
CheckBlock(n, b) ==
    IF ParentOf(b) # head[n] THEN UNCHANGED <<head, index, checking, asked>>
    ELSE IF Producer(b) = n THEN Push(n, b) /\ UNCHANGED checking
    ELSE IF Producer(b) # ExpectedProducer(n) THEN UNCHANGED <<head, index, checking, asked>>
    ELSE /\ checking' = [checking EXCEPT ![n] = [block |-> b, left |-> Queries(b)]]
         /\ UNCHANGED <<head, index, asked>>

InChain(n, b) == Len(b) <= Len(head[n]) /\ SubSeq(head[n], 1, Len(b)) = b

(* Too late for its turn, or for the head it was made for.                  *)
Drops(n, b) ==
    /\ ~InChain(n, b)
    /\ \/ Height(b) < turn[n] - 1
       \/ Height(b) = turn[n] - 1 /\ ParentOf(b) # head[n]

(* processBlocks receives a block: it is kept for later, dropped or checked. *)
(* A main cycle that has sent the block goes on.                            *)
Receive(n, w) ==
    /\ up[n] /\ w.to = n /\ checking[n] = Idle
    /\ LET produced == w.by = n /\ main[n] = "produce"
       IN  /\ waiting' = (waiting \ {w}) \cup (IF produced THEN Advices(n, w.block) ELSE {})
           /\ main' = IF w.by # n THEN main
                      ELSE [main EXCEPT ![n] = IF produced THEN "advise" ELSE "turn"]
    /\ IF Height(w.block) = turn[n] - 1
       THEN CheckBlock(n, w.block) ELSE UNCHANGED <<head, index, checking, asked>>
    /\ stash' = IF Height(w.block) > turn[n] - 1
                THEN [stash EXCEPT ![n] = @ \cup {w.block}] ELSE stash
    /\ dropped' = IF Producer(w.block) = n /\ Drops(n, w.block)
                  THEN dropped \cup {n} ELSE dropped
    /\ UNCHANGED <<clock, up, crashes, turn, acked, barrier, signal>>

(* syncAckedQuery: the producer answers with the ack of the tracker.        *)
Fetched(n, h, a) ==
    LET p == Producer(checking[n].block)
        xs == Holding(index[p], barrier[p], h, a)
        m == index[p][First(xs)]
    IN  IF ~up[p] \/ h < barrier[p] \/ xs = {} THEN Nil ELSE m.trk[m.ack[a]].ack

(* The check of one query of the block                                      *)
CheckQuery(n, a) ==
    LET b == checking[n].block
        Check(idx) == CheckAck(idx, barrier[n], Height(b), b, a)
        Finish(ok, idx) ==
            /\ checking' = [checking EXCEPT ![n] =
                               IF ok THEN [@ EXCEPT !.left = @ \ {a}] ELSE Idle]
            /\ index' = [index EXCEPT ![n] = idx]
        local == Check(index[n])
        ack == Fetched(n, Height(b), a)
        usable == ack # Nil /\ ~QueryIsExpired(n, ack)
        added == AddAck(index[n], ack)
    IN  /\ up[n] /\ a \in checking[n].left
        /\ \/ /\ local.known \/ ~local.ok
              /\ Finish(local.ok, local.idx)
              /\ UNCHANGED <<acked, asked>>
           \/ /\ ~local.known /\ local.ok /\ ~usable
              /\ Finish(FALSE, index[n])
              /\ UNCHANGED <<acked, asked>>
           \/ /\ ~local.known /\ local.ok
              /\ "loss" \in Faults          \* the call to the producer fails
              /\ Finish(FALSE, index[n])
              /\ asked' = asked \ {n}
              /\ UNCHANGED acked
           \/ /\ ~local.known /\ local.ok
              /\ usable
              /\ IF added.ok THEN Finish(Check(added.idx).ok, Check(added.idx).idx)
                             ELSE Finish(FALSE, added.idx)
              /\ acked' = [acked EXCEPT ![n] = Stored(n, added, ack)]
              /\ UNCHANGED asked
        /\ UNCHANGED <<clock, up, crashes, dropped, turn, head, barrier, main, stash, signal, waiting>>

PushBlock(n) ==
    /\ up[n] /\ checking[n] # Idle /\ checking[n].left = {}
    /\ Push(n, checking[n].block)
    /\ checking' = [checking EXCEPT ![n] = Idle]
    /\ UNCHANGED <<clock, up, crashes, dropped, turn, acked, barrier, main, stash, signal, waiting>>
-----------------------------------------------------------------------------
(* The environment.                                                         *)

(* An advice that fails is logged and forgotten.                            *)
Lose(w) ==
    /\ "loss" \in Faults
    /\ w.by \in Node \ {w.to}
    /\ waiting' = waiting \ {w}
    /\ UNCHANGED <<world, head, acked, server>>

Crash(n) ==
    /\ "crash" \in Faults /\ up[n]
    /\ crashes < MaxCrash /\ crashes' = crashes + 1
    /\ up' = [up EXCEPT ![n] = FALSE]
    /\ index' = [index EXCEPT ![n] = EmptyIndex]
    /\ main' = [main EXCEPT ![n] = "sync"]
    /\ stash' = [stash EXCEPT ![n] = {}]
    /\ signal' = [signal EXCEPT ![n] = FALSE]
    /\ checking' = [checking EXCEPT ![n] = Idle]
    /\ waiting' = {w \in waiting : w.to # n}
    /\ asked' = asked \ {n} /\ dropped' = dropped \ {n}
    /\ UNCHANGED <<clock, turn, head, acked, barrier>>

(* The index made of the acknowledgements in a file; an error of addAck ends *)
(* the load.                                                                *)
Reloaded(S) ==
    FoldSet(LAMBDA a, r : LET added == AddAck(r.idx, a)
                          IN  [idx |-> added.idx, ok |-> r.ok /\ added.ok],
            [idx |-> EmptyIndex, ok |-> TRUE], S)

(* LoadChain, then sync: the acknowledgements are indexed again, the turns   *)
(* of the past are skipped.                                                 *)
Restart(n) ==
    /\ ~up[n]
    /\ Reloaded(acked[n]).ok
    /\ up' = [up EXCEPT ![n] = TRUE]
    /\ turn' = [turn EXCEPT ![n] = IF clock <= 1 THEN 1 ELSE clock + 1]
    /\ barrier' = [barrier EXCEPT ![n] = 0]
    /\ index' = [index EXCEPT ![n] = Reloaded(acked[n]).idx]
    /\ UNCHANGED <<clock, crashes, asked, dropped, head, acked, main, stash, signal, waiting, checking>>

(* The turns of this period have been run, nothing is on its way, and every  *)
(* server has asked once more for the block of the period.  What came of it  *)
(* does not matter: a server that still has no block will skip it.           *)
PeriodOver ==
    /\ waiting = {}
    /\ \A n \in Node : up[n] =>
          /\ turn[n] > clock /\ ~signal[n] /\ checking[n] = Idle
          /\ main[n] \in {"sync", "turn"}
          /\ n \in asked

(* The next period.  Unless the run is slow, calls and checks take a small   *)
(* part of a period, and a call that is lost is made again within it; if it  *)
(* is slow, a server may be one turn behind the clock.                       *)
Tick ==
    /\ clock < MaxClock
    /\ IF "slow" \in Faults THEN \A n \in Node : up[n] => turn[n] >= clock ELSE PeriodOver
    /\ clock' = clock + 1
    /\ asked' = {}
    /\ UNCHANGED <<up, crashes, dropped, head, acked, waiting, server>>

MainCycle(n) == SyncHead(n) \/ Sleep(n) \/ ProduceBlock(n) \/ EndTurn(n) \/ Notify(n)
ProcessBlocks(n) ==
    \/ ReturnStash(n)
    \/ \E w \in waiting : Receive(n, w)
    \/ \E a \in checking[n].left : CheckQuery(n, a)
    \/ PushBlock(n)

Next ==
    \/ \E n \in Node : MainCycle(n) \/ ProcessBlocks(n) \/ Crash(n) \/ Restart(n)
    \/ \E n \in Node, a \in Acks : AckQuery(n, a)
    \/ \E w \in waiting : Lose(w)
    \/ Tick

Spec == Init /\ [][Next]_vars

(* A goroutine that can go on does.                                         *)
FairSpec == Spec /\ \A n \in Node : WF_vars(MainCycle(n)) /\ WF_vars(ProcessBlocks(n))
-----------------------------------------------------------------------------
(* Properties.                                                              *)

TypeOK ==
    /\ clock \in Periods /\ crashes \in 0 .. MaxCrash
    /\ asked \subseteq Node /\ dropped \subseteq Node
    /\ up \in [Node -> BOOLEAN] /\ signal \in [Node -> BOOLEAN]
    /\ turn \in [Node -> 1 .. MaxClock + 1]
    /\ barrier \in [Node -> Int]
    /\ acked \in [Node -> SUBSET Acks]
    /\ main \in [Node -> {"sync", "fetch", "turn", "produce", "advise", "notify"}]
    /\ \A n \in Node :
          /\ \A i \in 1 .. Len(head[n]) :
                /\ head[n][i].height \in 1 .. clock
                /\ i > 1 => head[n][i - 1].height <= head[n][i].height
          /\ checking[n].left \subseteq Acks
          /\ main[n] \in {"fetch", "produce"} <=> \E w \in waiting : w.to = n /\ w.by = n

(* "Height n is ensured (or skipped) if Next Turn > n + 1" (chain.go:1048): *)
(* two servers that are past a height have the same block there, or none.   *)
HeightEnsured ==
    \A m, n \in Node : \A h \in Periods \ {0} :
        up[m] /\ up[n] /\ turn[m] > h + 1 /\ turn[n] > h + 1
            => FetchBlock(m, h) = FetchBlock(n, h)

(* No block has taken a query in the last turn in which its producer may:   *)
(* the others, a turn further when they check the block, refuse the query   *)
(* as expired (getMinValidHeight at runtime.go:136, checked at              *)
(* chain.go:1030).                                                          *)
TakenInTime ==
    \A n \in Node : \A i \in 1 .. Len(head[n]) :
        \A a \in head[n][i].queries : Header[a].at > head[n][i].height - TTL

Acknowledged == UNION {acked[n] : n \in Node}

(* No query has acknowledged responses of two servers in one period: each   *)
(* refuses the block that packs the response of the other                   *)
(* (ErrMultipleAckOfSeqNo in addAck).                                       *)
OneServerAPeriod ==
    \A a, b \in Acknowledged :
        Header[a].key = Header[b].key /\ Header[a].at = Header[b].at
            => Header[a].node = Header[b].node

(* The heights are ensured although calls are lost, as long as no block has *)
(* a query that another server must refuse.                                 *)
HeightEnsuredByFetch == TakenInTime /\ OneServerAPeriod => HeightEnsured

(* No query is packed twice in the chain of a server                        *)
(* (ErrQuerySignedByAnotherBlock, "query has been packed by another block"). *)
PackedOnce ==
    \A n \in Node : \A i, j \in 1 .. Len(head[n]) :
        \A a \in head[n][i].queries, b \in head[n][j].queries :
            Header[a].key = Header[b].key => i = j /\ a = b

(* Nor is it while all servers run, by whichever of them it was answered,   *)
(* unless its responses are of different periods: the index tells the first *)
(* response of a query from the others within one period only.              *)
PackedOncePerPeriod ==
    (\A a, b \in Acknowledged : Header[a].key = Header[b].key => Header[a].at = Header[b].at)
        => PackedOnce

(* requestTracker: "signedBlock is the hash of the block in the currently   *)
(* best chain which contains this query".                                   *)
SignedBlockInChain ==
    \A n \in Node : up[n] => \A x \in Periods : \A a \in Acks :
        LET r == index[n][x].ack[a]
            in == {i \in 1 .. Len(head[n]) : a \in head[n][i].queries}
        IN  r # Nil /\ in # {} =>
                \E i \in in : index[n][x].trk[r].signed = SubSeq(head[n], 1, i)

(* A query that was marked for a block is not forgotten: while the server   *)
(* has dropped no block of its own, no mark outlives the block it was made  *)
(* for, which is on its way to processBlocks, in the stash or in the chain. *)
MarkedIsPacked ==
    \A n \in Node :
        LET own == {w.block : w \in {v \in waiting : v.to = n}} \cup stash[n]
        IN  n \notin dropped /\ (\A b \in own : Producer(b) # n) =>
                \A x \in Periods, r \in Resps :
                    index[n][x].trk[r] # Nil => index[n][x].trk[r].signed # PlaceHolder


(* What the file holds of the acknowledgements that have not expired is in  *)
(* the index, also after a restart.                                         *)
IndexCoversFile ==
    \A n \in Node : up[n] => \A a \in acked[n] :
        Header[a].at >= barrier[n] => index[n][Header[a].at].ack[a] # Nil

(* "Pushed block must extend the best chain" (chain.go:954).                *)
ChainGrows == [][\A n \in Node : SubSeq(head'[n], 1, Len(head[n])) = head[n]]_vars

(* A turn ends: the main cycle, which waits for processBlocks of its own and *)
(* of every other server, is never stuck at a channel.                      *)
TurnEnds ==
    \A n \in Node : main[n] \in {"fetch", "produce", "advise", "notify"} ~> main[n] \in {"sync", "turn"}
=============================================================================
