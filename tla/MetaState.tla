----------------------------- MODULE MetaState -----------------------------
(***************************************************************************)
(* The accounts of a block producer: metaState (blockproducer/metastate.go) *)
(* with its transaction pool (txpool.go).  Balances are kept three times:   *)
(* in the bolt file, in a read-only map that mirrors the file, and in a     *)
(* dirty map with what has changed since the last block.                    *)
(*                                                                          *)
(* Deletion of accounts and the profiles of databases, which no caller      *)
(* outside the tests reaches, are left out.                                 *)
(***************************************************************************)
EXTENDS Integers, Sequences

CONSTANTS
    Addr,        \* account addresses
    Absent,      \* a key that a map does not have
    MaxBalance,  \* the largest uint64
    Genesis,     \* the accounts in the file when the chain is opened
    Amounts,     \* amounts of transfers
    Bills,       \* contents of billing transactions: sequences of credits
    MaxNonce     \* bound on the nonces a sender uses

Balance == 0 .. MaxBalance
Account == [stable : Balance, covenant : Balance, nonce : Nat]
NewAccount == [stable |-> 0, covenant |-> 0, nonce |-> 0]

ASSUME MetaAssumption ==
    /\ MaxBalance \in Nat /\ MaxNonce \in Nat
    /\ Absent \notin Account
    /\ Genesis \in [Addr -> Account \cup {Absent}]
    /\ Amounts \subseteq Balance
    /\ Bills \subseteq Seq([to : Addr, fee : Balance, reward : Balance])

VARIABLES
    readonly,  \* metaState.readonly.accounts
    dirty,     \* metaState.dirty.accounts
    file,      \* the account bucket of the bolt file
    pool,      \* metaState.pool: of each account since the block, how many
               \* transactions and the nonce of the first
    credited,  \* stable coins credited by billings since the last block
    synced     \* the last commitProcedure ended well

vars == <<readonly, dirty, file, pool, credited, synced>>

None == [a \in Addr |-> Absent]
NoEntries == [a \in Addr |-> [base |-> 0, count |-> 0]]

Init ==
    /\ readonly = Genesis /\ file = Genesis
    /\ dirty = None
    /\ pool = NoEntries
    /\ credited = 0
    /\ synced = TRUE
-----------------------------------------------------------------------------
(* Mutant: no check for overflow.                                           *)
SafeAddUnchecked(x, y) == TRUE

SafeAdd(x, y) == x + y <= MaxBalance
SafeSub(x, y) == x >= y

(* What a reader sees: the dirty object if there is one.                    *)
Lookup(d, a) == IF d[a] # Absent THEN d[a] ELSE readonly[a]
View == [a \in Addr |-> Lookup(dirty, a)]

(* loadOrStoreAccountObject of a zero account                               *)
LoadOrStore(d, a) ==
    IF Lookup(d, a) = Absent THEN [d EXCEPT ![a] = NewAccount] ELSE d

(* increaseAccountXxxBalance: copies the object to the dirty map, then adds *)
Touch(d, a) == [d EXCEPT ![a] = Lookup(d, a)]

(* The outcome of an operation: the dirty map it leaves, whether it returned *)
(* no error, and the stable coins it has credited to somebody.              *)
Outcome(d, ok) == [dirty |-> d, ok |-> ok, minted |-> 0]

(* Mutant: no check for a transfer to oneself, so both of the new balances  *)
(* are computed from the one old balance.                                   *)
TransferToSelf(d0, t) ==
    LET d == LoadOrStore(LoadOrStore(d0, t.from), t.to)
        sb == Lookup(d, t.from)
        rb == Lookup(d, t.to)
    IN  IF SafeSub(sb.stable, t.amount) /\ SafeAdd(rb.stable, t.amount)
        THEN Outcome([d EXCEPT
                ![t.from] = [sb EXCEPT !.stable = @ - t.amount],
                ![t.to] = [rb EXCEPT !.stable = @ + t.amount]], TRUE)
        ELSE Outcome(d, FALSE)

(* Mutant: the sender is debited before the receiver is checked.            *)
TransferDebitsFirst(d0, t) ==
    LET d == LoadOrStore(LoadOrStore(d0, t.from), t.to)
        sb == Lookup(d, t.from)
        rb == Lookup(d, t.to)
        debited == [d EXCEPT ![t.from] = [sb EXCEPT !.stable = @ - t.amount]]
    IN  IF t.from = t.to THEN Outcome(d0, TRUE)
        ELSE IF ~SafeSub(sb.stable, t.amount) THEN Outcome(d, FALSE)
        ELSE IF ~SafeAdd(rb.stable, t.amount) THEN Outcome(debited, FALSE)
        ELSE Outcome([debited EXCEPT
                ![t.to] = [rb EXCEPT !.stable = @ + t.amount]], TRUE)

(* transferAccountStableBalance                                             *)
Transfer(d0, t) ==
    LET d == LoadOrStore(LoadOrStore(d0, t.from), t.to)
        sb == Lookup(d, t.from)
        rb == Lookup(d, t.to)
    IN  IF t.from = t.to THEN Outcome(d0, TRUE)
        ELSE IF SafeSub(sb.stable, t.amount) /\ SafeAdd(rb.stable, t.amount)
        THEN Outcome([d EXCEPT
                ![t.from] = [sb EXCEPT !.stable = @ - t.amount],
                ![t.to] = [rb EXCEPT !.stable = @ + t.amount]], TRUE)
        ELSE Outcome(d, FALSE)

(* One receiver of applyBilling: the fee in covenant coins, then the reward *)
(* in stable coins.  What was added stays when a later addition fails.      *)
Credit(o, c) ==
    LET d == Touch(o.dirty, c.to)
        fee == [d EXCEPT ![c.to].covenant = @ + c.fee]
    IN  IF ~o.ok THEN o
        ELSE IF Lookup(o.dirty, c.to) = Absent THEN [o EXCEPT !.ok = FALSE]
        ELSE IF ~SafeAdd(d[c.to].covenant, c.fee)
             THEN [o EXCEPT !.ok = FALSE, !.dirty = d]
        ELSE IF ~SafeAdd(d[c.to].stable, c.reward)
             THEN [o EXCEPT !.ok = FALSE, !.dirty = fee]
        ELSE [o EXCEPT !.dirty = [fee EXCEPT ![c.to].stable = @ + c.reward],
                       !.minted = @ + c.reward]

ApplyBilling(d, bill) ==
    LET after[i \in 0 .. Len(bill)] ==
            IF i = 0 THEN Outcome(d, TRUE) ELSE Credit(after[i - 1], bill[i])
    IN  after[Len(bill)]

(* applyTransaction                                                         *)
ApplyTx(d, t) ==
    IF t.kind = "transfer" THEN Transfer(d, t) ELSE ApplyBilling(d, t.bill)
-----------------------------------------------------------------------------
NextNonce(a) ==
    IF pool[a].count > 0 THEN pool[a].base + pool[a].count
                         ELSE Lookup(dirty, a).nonce

Transactions ==
    [kind : {"transfer"}, from : Addr, to : Addr, amount : Amounts,
     nonce : 0 .. MaxNonce]
    \cup
    [kind : {"billing"}, from : Addr, bill : Bills, nonce : 0 .. MaxNonce]

(* applyTransactionProcedure, inside a bolt transaction of processTx        *)
ApplyTransaction(t) ==
    LET o == ApplyTx(dirty, t)
    IN  /\ View[t.from] # Absent
        /\ NextNonce(t.from) = t.nonce
        /\ dirty' = o.dirty
        /\ credited' = credited + o.minted
        /\ IF o.ok
           THEN pool' = [pool EXCEPT ![t.from] =
                           [base |-> IF @.count = 0 THEN t.nonce ELSE @.base,
                            count |-> @.count + 1]]
           ELSE UNCHANGED pool
        /\ UNCHANGED <<readonly, file, synced>>

Merged(S) == [a \in Addr |-> IF a \in S THEN View[a] ELSE readonly[a]]

(* Mutant: only the objects that are already known are written.             *)
CommitUpdatesOnly ==
    /\ readonly' = Merged(Addr)
    /\ file' = [a \in Addr |-> IF dirty[a] # Absent /\ file[a] # Absent
                               THEN dirty[a] ELSE file[a]]
    /\ dirty' = None /\ pool' = NoEntries
    /\ credited' = 0 /\ synced' = TRUE

(* commitProcedure, with the block that is pushed: the bolt transaction     *)
(* changes the objects of the dirty map, and no others, in the file.        *)
Commit ==
    /\ readonly' = Merged(Addr)
    /\ file' = [a \in Addr |-> IF dirty[a] # Absent THEN dirty[a] ELSE file[a]]
    /\ dirty' = None /\ pool' = NoEntries
    /\ credited' = 0 /\ synced' = TRUE

(* A Put fails: the read-only map has the objects that were visited before. *)
(* Both maps then share them; the dirty one shadows the other until a later *)
(* commit or a restart, so the model need not say so.                       *)
PutFails(S) ==
    /\ readonly' = Merged(S)
    /\ synced' = FALSE
    /\ UNCHANGED <<dirty, file, pool, credited>>

(* The process stops; LoadChain reads the accounts back (reloadProcedure).  *)
Reload ==
    /\ readonly' = file
    /\ dirty' = None /\ pool' = NoEntries
    /\ credited' = 0 /\ synced' = TRUE
    /\ UNCHANGED file

Next ==
    \/ \E t \in Transactions : ApplyTransaction(t)
    \/ Commit
    \/ \E S \in SUBSET {a \in Addr : dirty[a] # Absent} : PutFails(S)
    \/ Reload

Spec == Init /\ [][Next]_vars
-----------------------------------------------------------------------------
(* Properties.                                                              *)

(* The types of the maps; above all, every balance in either map and in the *)
(* file is a uint64 that never wrapped around (safeAdd, safeSub).           *)
TypeOK ==
    /\ readonly \in [Addr -> Account \cup {Absent}]
    /\ dirty \in [Addr -> Account \cup {Absent}]
    /\ file \in [Addr -> Account \cup {Absent}]
    /\ pool \in [Addr -> [base : Nat, count : Nat]]
    /\ credited \in Nat
    /\ synced \in BOOLEAN

(* "The metaState should be reproducible from the persistence db"           *)
(* (metastate_test.go:378): once a block is committed, the objects in memory *)
(* are those that LoadChain would read back, also after a commit that       *)
(* failed half way and was repeated.                                        *)
Reproducible == synced => readonly = file

BalanceOf(o) == IF o = Absent THEN <<0, 0>> ELSE <<o.stable, o.covenant>>
Balances == [a \in Addr |-> BalanceOf(View[a])]

(* The comment on applyTransactionProcedure: a transaction is pushed to the  *)
(* pool "if and only if it can be applied correctly".  A step that leaves    *)
(* the pool as it is, a restart from the file apart, changes no balance.     *)
PooledIffApplied == [][pool' = pool /\ ~Reload => Balances' = Balances]_vars

IsTransfer(t) == t.kind = "transfer"

(* Of transfers alone this is so: one that is refused, at either balance and *)
(* with the accounts in either map, has moved nothing, and one that is       *)
(* accepted leaves every other account as it was.                            *)
TransferAllOrNothing ==
    [][\A t \in {u \in Transactions : IsTransfer(u)} : ApplyTransaction(t) =>
          /\ pool' = pool => Balances' = Balances
          /\ \A a \in Addr \ {t.from, t.to} : View'[a] = View[a]]_vars

(* "The metaState should automatically increase nonce"                      *)
(* (metastate_test.go:562): the block that takes the transactions of an     *)
(* account does not make it ask for an earlier nonce again.                 *)
NonceIncreases ==
    [][Commit => \A a \in Addr : View[a] # Absent => NextNonce(a)' >= NextNonce(a)]_vars
=============================================================================
