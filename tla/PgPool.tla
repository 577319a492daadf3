------------------------------- MODULE PgPool -------------------------------
(***************************************************************************)
(* The tables transactions and accounts as PostgreSQL keeps them, and the  *)
(* node-postgres pool of every API process: PostgresFactory.ts,            *)
(* DatabaseFacade.ts.  PostgreSQL itself is modelled at READ COMMITTED,    *)
(* the level an unadorned BEGIN gets: a client sees what is committed plus *)
(* its own writes, and a write waits for the other client that has an      *)
(* uncommitted write of the same row.                                      *)
(*                                                                         *)
(* A balance is not a number but the set of entries <<transaction, amount>>*)
(* whose SUM it is.  Two different sums are then different values, and a   *)
(* balance is right exactly when its entries are those of the account.     *)
(***************************************************************************)
EXTENDS Integers, Sequences, FiniteSets

CONSTANTS
    Procs,      \* Node processes, each with its own pool and singletons
    Requests,   \* concurrent HTTP requests, each served by one process
    Clients,    \* pool connections (database.postgres.pool.max of them)
    Home,       \* Home[x]: the process of a request or of a client
    Accounts,   \* ids of account rows
    Txns,       \* ids of transaction rows
    Amounts,    \* what a row adds to the balance: its type and its amount
    NoRow,      \* there is no transaction row with this id
    Gone,       \* there is no account row with this id
    Same,       \* an uncommitted overlay does not touch this row
    Free        \* a client nobody has checked out

Row     == [acct: Accounts, amt: Amounts, links: SUBSET Txns]
Entries == Txns \X Amounts
Balance == [typed: BOOLEAN, of: SUBSET Entries]
SumOf(entries) == [typed |-> FALSE, of |-> entries]
Typed          == [typed |-> TRUE, of |-> {}]   \* a user typed it into the account form

ASSUME HomeType == Home \in [Requests \cup Clients -> Procs]
ASSUME Sentinels ==
    /\ Requests \cap Clients = {}
    /\ NoRow \notin Row
    /\ Gone \notin Balance
    /\ Same \notin Row \cup {NoRow} \cup Balance \cup {Gone}
    /\ Free \notin Requests

Pool    == "pool"      \* DatabaseFacade of the pool: any idle client, autocommit
Dead    == "dead"      \* a client the pool has closed after its idle timeout
Targets == Clients \cup {Pool, Dead}
ASSUME TargetsDiffer == Pool \notin Clients /\ Dead \notin Clients

VARIABLES
    row,      \* committed transactions
    bal,      \* committed account balances
    tx,       \* per client: the state of its session and its uncommitted writes
    lease     \* per client: the request that has checked it out

dbVars == <<row, bal, tx, lease>>

NoRows     == [i \in Txns |-> Same]
NoBalances == [a \in Accounts |-> Same]
Session    == [state: {"autocommit", "open", "aborted"},
               row: [Txns -> Row \cup {NoRow, Same}],
               bal: [Accounts -> Balance \cup {Gone, Same}]]
Autocommit == [state |-> "autocommit", row |-> NoRows, bal |-> NoBalances]

DbTypeOK ==
    /\ row \in [Txns -> Row \cup {NoRow}]
    /\ bal \in [Accounts -> Balance \cup {Gone}]
    /\ tx \in [Clients -> Session]
    /\ lease \in [Clients -> Requests \cup {Free}]

-----------------------------------------------------------------------------
(* What a statement sent to target t reads.                                *)

RowAt(t, i) == IF t \in Clients /\ tx[t].row[i] # Same THEN tx[t].row[i] ELSE row[i]
BalAt(t, a) == IF t \in Clients /\ tx[t].bal[a] # Same THEN tx[t].bal[a] ELSE bal[a]

RowsOf(t, a) == {i \in Txns : RowAt(t, i) # NoRow /\ RowAt(t, i).acct = a}

\* SELECT SUM(...) FROM transactions WHERE account_id = a
SumAt(t, a) == SumOf({<<i, RowAt(t, i).amt>> : i \in RowsOf(t, a)})

(* A statement runs on its own client, even one that has been released     *)
(* since; through the pool it needs an idle client of the process.         *)
Usable(t, p) ==
    \/ t \in Clients /\ tx[t].state # "aborted"
    \/ t = Pool /\ \E c \in Clients : Home[c] = p /\ lease[c] = Free

Over(f, d) == [x \in DOMAIN f |-> IF d[x] = Same THEN f[x] ELSE d[x]]

\* A write of the rows dr and balances db by target t would wait for a row lock.
\* Deleting an account also waits for the rows that refer to it.
Locked(t, dr, db) ==
    \E c \in Clients \ {t} :
        \/ \E i \in Txns : dr[i] # Same /\ tx[c].row[i] # Same
        \/ \E a \in Accounts :
              /\ db[a] # Same
              /\ \/ tx[c].bal[a] # Same
                 \/ db[a] = Gone /\ \E i \in Txns : tx[c].row[i] \in Row /\ tx[c].row[i].acct = a

\* Perform the write: in the session's transaction if it has one, else at once.
Write(t, dr, db) ==
    /\ ~Locked(t, dr, db)
    /\ IF t \in Clients /\ tx[t].state = "open"
       THEN /\ tx' = [tx EXCEPT ![t].row = Over(@, dr), ![t].bal = Over(@, db)]
            /\ UNCHANGED <<row, bal>>
       ELSE /\ row' = Over(row, dr)
            /\ bal' = Over(bal, db)
            /\ UNCHANGED tx
    /\ UNCHANGED lease

-----------------------------------------------------------------------------
(* PostgresDatabase.transaction: check a client out and BEGIN; COMMIT or   *)
(* ROLLBACK, and release.                                                  *)

CheckOut(r, c) ==
    /\ Home[c] = Home[r]
    /\ lease[c] = Free
    /\ lease' = [lease EXCEPT ![c] = r]
    /\ tx' = [tx EXCEPT ![c].state = "open"]
    /\ UNCHANGED <<row, bal>>

\* A slip: what the client has not touched is overwritten as well.
CommitBlindly(c) ==
    /\ IF tx[c].state = "open"
       THEN row' = tx[c].row /\ bal' = tx[c].bal
       ELSE UNCHANGED <<row, bal>>
    /\ tx' = [tx EXCEPT ![c] = Autocommit]
    /\ lease' = [lease EXCEPT ![c] = Free]

\* COMMIT of a transaction that a failed statement has aborted rolls it back,
\* and reports no error to the caller.
CommitAndRelease(c) ==
    /\ IF tx[c].state = "open"
       THEN row' = Over(row, tx[c].row) /\ bal' = Over(bal, tx[c].bal)
       ELSE UNCHANGED <<row, bal>>
    /\ tx' = [tx EXCEPT ![c] = Autocommit]
    /\ lease' = [lease EXCEPT ![c] = Free]

\* A slip: the client goes back to the pool inside its transaction.
ReleaseOnly(c) ==
    /\ lease' = [lease EXCEPT ![c] = Free]
    /\ UNCHANGED <<row, bal, tx>>

RollBackAndRelease(c) ==
    /\ tx' = [tx EXCEPT ![c] = Autocommit]
    /\ lease' = [lease EXCEPT ![c] = Free]
    /\ UNCHANGED <<row, bal>>

\* A failed statement aborts the transaction of the client it ran on: its writes
\* are lost, and the session refuses every statement up to COMMIT or ROLLBACK.
StatementFails(t) ==
    /\ tx' = IF t \in Clients /\ tx[t].state = "open"
             THEN [tx EXCEPT ![t] = [Autocommit EXCEPT !.state = "aborted"]]
             ELSE tx
    /\ UNCHANGED <<row, bal, lease>>

DbInit(accounts) ==
    /\ row = [i \in Txns |-> NoRow]
    /\ bal = [a \in Accounts |-> IF a \in accounts THEN SumOf({}) ELSE Gone]
    /\ tx = [c \in Clients |-> Autocommit]
    /\ lease = [c \in Clients |-> Free]
=============================================================================
