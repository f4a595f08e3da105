--------------------------- MODULE WorkerStorage ---------------------------
(***************************************************************************)
(* The two-phase-commit worker of one replica of a database: worker.Database*)
(* (worker/db_storage.go) in front of storage.Storage                       *)
(* (sqlchain/storage/storage.go).  The module has no variables: the replica *)
(* keeps the record described by StorageType and every operation is a pair  *)
(* of operators, XxxOK (the call returns a nil error) and AfterXxx (the     *)
(* record the call leaves behind, also when it fails).                      *)
(*                                                                          *)
(* A request is identified by its TxID.  The driver draws a fresh sequence  *)
(* number for each request it signs, so a request and its TxID determine    *)
(* each other and the queries of a request need no field of their own.      *)
(***************************************************************************)
EXTENDS Naturals, Sequences

CONSTANTS
    Requests,   \* write requests, records with the fields conn and seq
    Failing,    \* the requests whose SQL fails when it is executed
    NoRequest   \* the zero TxID of a Storage that has prepared nothing yet

Conns == {d.conn : d \in Requests}

ASSUME RequestAssumption ==
    /\ \A d \in Requests : d.seq \in Nat \ {0}
    /\ Failing \subseteq Requests
    /\ NoRequest \notin Requests

(***************************************************************************)
(* tx    - Storage.tx # nil                                                 *)
(* live  - the context the transaction was begun with has not ended (when   *)
(*         it ends, database/sql rolls the transaction back, and Storage.tx *)
(*         keeps pointing to it); FALSE when no transaction is open         *)
(* id    - Storage.id, the request prepared last                            *)
(* db    - the requests whose writes are in the database file, in order     *)
(* seqs  - Database.connSeqs, 0 for a connection that is not recorded       *)
(***************************************************************************)
StorageType ==
    [tx : BOOLEAN, live : BOOLEAN, id : Requests \cup {NoRequest},
     db : Seq(Requests), seqs : [Conns -> Nat]]

NewStorage ==
    [tx |-> FALSE, live |-> FALSE, id |-> NoRequest,
     db |-> <<>>, seqs |-> [c \in Conns |-> 0]]

(* convertRequest: the request is inside the write time window (it is not   *)
(* in the set `stale') and its sequence number is above the recorded one.   *)
Admits(s, d, stale) == d \notin stale /\ s.seqs[d.conn] < d.seq

RecordSequence(s, d) == [s EXCEPT !.seqs[d.conn] = d.seq]

(* Mutant: an open transaction of another request is not noticed.           *)
PrepareAnyway(s, d, stale, dead) == Admits(s, d, stale) /\ (s.tx \/ ~dead)

(* Prepare with a context that has ended (`dead') cannot begin a transaction *)
PrepareOK(s, d, stale, dead) ==
    /\ Admits(s, d, stale)
    /\ IF s.tx THEN s.id = d ELSE ~dead

AfterPrepare(s, d) ==
    IF s.tx THEN s ELSE [s EXCEPT !.tx = TRUE, !.live = TRUE, !.id = d]

InTx(s, d) == s.tx /\ s.id = d

CloseTx(s) == [s EXCEPT !.tx = FALSE, !.live = FALSE]

(* The queries run inside the open transaction; the first error rolls it    *)
(* back.  A transaction whose context has ended fails its first query.      *)
CommitOK(s, d, stale) ==
    Admits(s, d, stale) /\ InTx(s, d) /\ s.live /\ d \notin Failing

(* Mutant: the queries of the request are run in whatever transaction is    *)
(* open.                                                                    *)
AfterCommitOfAny(s, d, stale) ==
    IF ~Admits(s, d, stale) THEN s
    ELSE LET r == RecordSequence(s, d)
         IN  IF s.tx /\ s.live /\ d \notin Failing
             THEN [CloseTx(r) EXCEPT !.db = Append(@, d)]
             ELSE CloseTx(r)

AfterCommit(s, d, stale) ==
    IF ~Admits(s, d, stale) THEN s
    ELSE LET r == RecordSequence(s, d)
         IN  IF ~InTx(s, d) THEN r
             ELSE IF CommitOK(s, d, stale)
                  THEN [CloseTx(r) EXCEPT !.db = Append(@, d)]
                  ELSE CloseTx(r)

(* The result of tx.Commit() is dropped: a context that ends between the    *)
(* last query and tx.Commit() leaves nothing in the file and no error.      *)
AfterLostCommit(s, d) == CloseTx(RecordSequence(s, d))

RollbackOK(s, d, stale) == Admits(s, d, stale) /\ s.id = d

AfterRollback(s, d, stale) ==
    IF ~Admits(s, d, stale) THEN s
    ELSE LET r == RecordSequence(s, d)
         IN  IF s.id = d THEN CloseTx(r) ELSE r

(* The context of the open transaction ends.                                *)
AfterExpiry(s) == [s EXCEPT !.live = FALSE]

(* Mutant: the file is created anew.                                        *)
AfterRecreate(s) == NewStorage

(* The process stops and the file is opened again.                          *)
AfterReopen(s) == [NewStorage EXCEPT !.db = s.db]
=============================================================================
