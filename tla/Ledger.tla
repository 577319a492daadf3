------------------------------- MODULE Ledger -------------------------------
(***************************************************************************)
(* Transactions and account balances: TransactionService, AccountService,  *)
(* TransactionRepository (with its statistics cache) and AccountRepository.*)
(*                                                                         *)
(* A request runs the code of its service method between two awaits in one *)
(* step.  What it still has to do is a list of calls, todo: most of them   *)
(* are SQL statements, which the database executes in a step of their own; *)
(* the others are the pieces of synchronous code that touch state shared   *)
(* by the requests of a process: the repositories' dbToUse pointer and the *)
(* statistics cache.  The client a statement goes to is chosen when the    *)
(* statement is issued, that is at the end of the step before it.          *)
(***************************************************************************)
EXTENDS PgPool

CONSTANTS
    Existing,     \* accounts that exist initially
    Edits,        \* the bodies of PUT /transactions/:id that clients send
    Routes,       \* the endpoints that clients call
    MayFail,      \* whether a statement that could be executed may fail anyway
    Miss,         \* no entry in the statistics cache
    Keep,         \* a field that an update leaves alone
    Unborn,       \* an id that has not been generated yet
    Single        \* an id generated on its own, not by a transfer

ASSUME LedgerConstants ==
    /\ Existing \subseteq Accounts
    /\ MayFail \in BOOLEAN
    /\ Miss \notin Balance
    /\ Keep \notin Accounts \cup Amounts
    /\ Unborn # Single /\ Unborn \notin Txns /\ Single \notin Txns
    /\ Edits \subseteq [acct: Accounts \cup {Keep}, amt: Amounts \cup {Keep},
                        links: {Keep} \cup SUBSET Txns]

VARIABLES
    req,      \* per request: its remaining calls and its database handles
    ptr,      \* per process and repository: the field dbToUse
    cache,    \* per process and account: the statistics cache
    mate,     \* ghost: per transaction id, the other leg of its transfer
    opening   \* ghost: per account id, its opening balance transaction

vars == <<dbVars, req, ptr, cache, mate, opening>>

(* The repositories whose dbToUse is shared by the requests of a process:  *)
(* the transaction and account repositories of the TransactionService      *)
(* singleton, and the account repository of AccountController.             *)
Repos == {"trx", "acc", "ctl"}

(* Where a call is issued: through a shared repository, on the request's   *)
(* own client, or on the pool; "-" for synchronous code.                   *)
Vias == Repos \cup {"own", "pool", "-"}

NewRow(a, m, links) == [acct |-> a, amt |-> m, links |-> links]

-----------------------------------------------------------------------------
(* Calls.                                                                  *)

\* db.transaction: BEGIN, then withDb on the given repositories
Begin(repos) == [q |-> "begin", via |-> "pool", repos |-> repos]
\* withDb alone, inside the transaction
Aim(repos) == [q |-> "aim", via |-> "-", repos |-> repos]
\* for (const id of ids): findById(id), then what how says with other
ForEach(ids, how, other) == [q |-> "each", via |-> "-", ids |-> ids, how |-> how, other |-> other]
\* findById(i), then what how says with arg
Find(i, how, arg) == [q |-> "find", via |-> "trx", id |-> i, how |-> how, arg |-> arg]
Insert(i, r, v) == [q |-> "insert", via |-> v, id |-> i, row |-> r]
Put(i, r) == [q |-> "put", via |-> "trx", id |-> i, row |-> r]
Remove(i) == [q |-> "remove", via |-> "trx", id |-> i]
\* getAccountStats(a), after invalidateAccountStatsCache(a) if fresh; then
\* updateBalance through the repository save names, or nothing, or the check
\* for a sufficient balance
Stats(a, v, fresh, use) == [q |-> "lookup", via |-> "-", acct |-> a, on |-> v, fresh |-> fresh, use |-> use]
SumRows(c) == [q |-> "sum", via |-> c.on, acct |-> c.acct, use |-> c.use]
Fill(c, b) == [q |-> "fill", via |-> "-", acct |-> c.acct, seen |-> b, use |-> c.use]
SetBalance(a, b, v) == [q |-> "setbal", via |-> v, acct |-> a, bal |-> b]
\* accounts: findById, count, insert, whole-row update, delete
FindAccount(a, v, use) == [q |-> "findacc", via |-> v, acct |-> a, use |-> use]
CountAccounts == [q |-> "count", via |-> "ctl"]
NewAccount(a, b) == [q |-> "newacc", via |-> "ctl", acct |-> a, bal |-> b]
PutAccount(a, b) == [q |-> "putacc", via |-> "pool", acct |-> a, bal |-> b]
RemoveAccount(a) == [q |-> "delacc", via |-> "pool", acct |-> a]

Uses == Repos \cup {"check", "show"}

\* What may follow BEGIN in a method: everything but another BEGIN.
InnerCalls ==
         [q: {"aim"}, via: {"-"}, repos: SUBSET Repos]
    \cup [q: {"each"}, via: {"-"}, ids: SUBSET Txns, how: {"linkBack", "linkDrop"}, other: Txns]
    \cup [q: {"find"}, via: {"trx"}, id: Txns, how: {"edit"}, arg: Edits]
    \cup [q: {"find"}, via: {"trx"}, id: Txns, how: {"linkTo"}, arg: [id: Txns, row: Row]]
    \cup [q: {"find"}, via: {"trx"}, id: Txns, arg: Txns,
          how: {"delete", "unlinkAll", "linkFrom", "unlinkFrom", "linkBack", "linkDrop"}]
    \cup [q: {"insert"}, via: {"trx", "own"}, id: Txns, row: Row]
    \cup [q: {"put"}, via: {"trx"}, id: Txns, row: Row]
    \cup [q: {"remove"}, via: {"trx"}, id: Txns]
    \cup [q: {"lookup"}, via: {"-"}, acct: Accounts, on: {"trx", "own"}, fresh: BOOLEAN, use: Uses]
    \cup [q: {"sum"}, via: {"trx", "own"}, acct: Accounts, use: Uses]
    \cup [q: {"fill"}, via: {"-"}, acct: Accounts, seen: Balance, use: Uses]
    \cup [q: {"setbal"}, via: Repos, acct: Accounts, bal: Balance]
    \cup [q: {"findacc"}, via: {"acc", "pool"}, acct: Accounts,
          use: {"exists", "rename", "retype", "delete"}]
    \cup [q: {"count"}, via: {"ctl"}]
    \cup [q: {"newacc"}, via: {"ctl"}, acct: Accounts, bal: Balance]
    \cup [q: {"putacc"}, via: {"pool"}, acct: Accounts, bal: Balance]
    \cup [q: {"delacc"}, via: {"pool"}, acct: Accounts]
Calls == InnerCalls \cup [q: {"begin"}, via: {"pool"}, repos: SUBSET Repos]

-----------------------------------------------------------------------------
(* The service methods, as the calls they start with; the calls that depend *)
(* on a row that was read are added when it has been.                       *)

\* A slip: the cached sum is not invalidated before it is read.
SaveBalanceFromCache(a) == Stats(a, "trx", FALSE, "acc")

SaveBalance(a) == Stats(a, "trx", TRUE, "acc")

CreateTransaction(i, a, m, links) ==
    <<Begin({"trx", "acc"}), Insert(i, NewRow(a, m, links), "trx"), SaveBalance(a),
      ForEach(links, "linkBack", i)>>

UpdateTransaction(i, edit) == <<Begin({"trx", "acc"}), Find(i, "edit", edit)>>

DeleteTransaction(i) == <<Begin({"trx", "acc"}), Find(i, "delete", i)>>

LinkTransaction(i, j) == <<Find(i, "linkFrom", j)>>

UnlinkTransaction(i, j) == <<Find(i, "unlinkFrom", j)>>

\* A slip: the first leg is saved before the transaction begins.
TransferLateBegin(w, d, from, to, m, n) ==
    <<FindAccount(from, "acc", "exists"), FindAccount(to, "acc", "exists"),
      Stats(from, "trx", FALSE, "check"),
      Insert(w, NewRow(from, m, {}), "trx"),
      Begin({"trx", "acc"}),
      Insert(d, NewRow(to, n, {w}), "trx"),
      Put(w, NewRow(from, m, {d})),
      SaveBalance(from), SaveBalance(to)>>

Transfer(w, d, from, to, m, n) ==
    <<FindAccount(from, "acc", "exists"), FindAccount(to, "acc", "exists"),
      Stats(from, "trx", FALSE, "check"),
      Begin({"trx", "acc"}),
      Insert(w, NewRow(from, m, {}), "trx"),
      Insert(d, NewRow(to, n, {w}), "trx"),
      Put(w, NewRow(from, m, {d})),
      SaveBalance(from), SaveBalance(to)>>

GetAccountStats(a) == <<Stats(a, "trx", FALSE, "show")>>

\* A slip: the opening transaction does not join the transaction of the account.
CreateAccountOnPool(a, i, m) ==
    <<CountAccounts, Begin({"ctl"}), NewAccount(a, SumOf({<<i, m>>})),
      [Insert(i, NewRow(a, m, {}), "own") EXCEPT !.via = "pool"], Stats(a, "own", TRUE, "ctl")>>

\* A slip: the account is saved before the transaction begins.
CreateAccountLateBegin(a, i, m) ==
    <<CountAccounts, NewAccount(a, SumOf({<<i, m>>})), Begin({"ctl"}), Aim({"ctl"}),
      Insert(i, NewRow(a, m, {}), "own"), Stats(a, "own", TRUE, "ctl")>>

\* AccountController.createAccount: the opening transaction, if the initial
\* balance is not zero, goes through a nested transaction on the same client
CreateAccount(a, i, m) ==
    <<CountAccounts, Begin({"ctl"}), NewAccount(a, SumOf({<<i, m>>})), Aim({"ctl"}),
      Insert(i, NewRow(a, m, {}), "own"), Stats(a, "own", TRUE, "ctl")>>

CreateEmptyAccount(a) == <<CountAccounts, Begin({"ctl"}), NewAccount(a, SumOf({}))>>

UpdateAccount(a, b) == <<FindAccount(a, "pool", b)>>

DeleteAccount(a) == <<FindAccount(a, "pool", "delete")>>

-----------------------------------------------------------------------------
(* What a method does with a row it has read: refuse the request (an       *)
(* AppError), or go on with more calls.                                    *)

Refused(c, r) ==
    \/ r = NoRow /\ c.how \in {"edit", "delete", "linkFrom", "linkTo", "unlinkFrom"}
    \/ c.how = "linkTo" /\ c.id \in c.arg.row.links

WithLink(r, i)    == [r EXCEPT !.links = @ \cup {i}]
WithoutLink(r, i) == [r EXCEPT !.links = @ \ {i}]
Edited(r, e) == [acct  |-> IF e.acct = Keep THEN r.acct ELSE e.acct,
                 amt   |-> IF e.amt = Keep THEN r.amt ELSE e.amt,
                 links |-> IF e.links = Keep THEN r.links ELSE e.links]

\* A slip: the account that the transaction has moved to is not refreshed.
AfterEditOldAccountOnly(c, r) == <<Put(c.id, Edited(r, c.arg)), SaveBalance(r.acct)>>

AfterEdit(c, r) ==
    <<Put(c.id, Edited(r, c.arg)), SaveBalance(r.acct)>>
    \o IF c.arg.acct \in {Keep, r.acct} THEN <<>> ELSE <<SaveBalance(c.arg.acct)>>

AfterDelete(c, r) ==
    (IF r.links = {} THEN <<>> ELSE <<Aim({"trx"}), Find(c.id, "unlinkAll", c.id)>>)
    \o <<Remove(c.id), SaveBalance(r.acct)>>

\* unlinkTransactionInTransaction
AfterUnlinkAll(c, r) ==
    IF r = NoRow THEN <<>>
    ELSE <<Put(c.id, [r EXCEPT !.links = {}]), ForEach(r.links, "linkDrop", c.id)>>

\* A slip: the link is saved on one side only.
AfterLinkToOneWay(c, r) == <<Put(c.arg.id, WithLink(c.arg.row, c.id))>>

\* Both rows were read before the first of them is written.
AfterLinkTo(c, r) ==
    <<Put(c.arg.id, WithLink(c.arg.row, c.id))>>
    \o IF c.arg.id \in r.links THEN <<>> ELSE <<Put(c.id, WithLink(r, c.arg.id))>>

AfterFind(c, r) ==
    CASE c.how = "edit"       -> AfterEdit(c, r)
      [] c.how = "delete"     -> AfterDelete(c, r)
      [] c.how = "unlinkAll"  -> AfterUnlinkAll(c, r)
      [] c.how = "linkFrom"   -> <<Find(c.arg, "linkTo", [id |-> c.id, row |-> r])>>
      [] c.how = "linkTo"     -> AfterLinkTo(c, r)
      [] c.how = "unlinkFrom" -> <<Put(c.id, WithoutLink(r, c.arg)), Find(c.arg, "linkDrop", c.id)>>
      [] c.how = "linkBack"   -> IF r = NoRow \/ c.arg \in r.links THEN <<>>
                                 ELSE <<Put(c.id, WithLink(r, c.arg))>>
      [] c.how = "linkDrop"   -> IF r = NoRow THEN <<>>
                                 ELSE <<Put(c.id, WithoutLink(r, c.arg))>>

-----------------------------------------------------------------------------
(* Requests.                                                               *)

Idle(r)  == req[r].todo = <<>> /\ req[r].own = Pool
Quiet    == \A r \in Requests : Idle(r)
Call(r)  == Head(req[r].todo)
At(r, q) == req[r].todo # <<>> /\ Call(r).q = q

Bound(c, own, p) ==
    CASE c.via \in Repos -> p[c.via]
      [] c.via = "own"   -> own
      [] OTHER           -> Pool

\* Go on with these calls, the first of which is issued under pointers p.
GoOn(r, own, calls, p) ==
    req' = [req EXCEPT ![r] =
        [todo |-> calls, own |-> own, err |-> FALSE,
         on   |-> IF calls = <<>> THEN Pool ELSE Bound(Head(calls), own, p)]]

Continue(r, more) ==
    GoOn(r, req[r].own, more \o Tail(req[r].todo), ptr[Home[r]])

\* The method throws: to the ROLLBACK of its transaction, or to the client.
Throw(r) ==
    req' = [req EXCEPT ![r] =
        [todo |-> <<>>, own |-> req[r].own, err |-> req[r].own # Pool, on |-> Pool]]

Accept(r, route, calls) ==
    /\ route \in Routes
    /\ Idle(r)
    /\ GoOn(r, Pool, calls, ptr[Home[r]])
    /\ UNCHANGED <<dbVars, ptr, cache>>

Bear(i) == mate[i] = Unborn /\ mate' = [mate EXCEPT ![i] = Single]
SameIds == UNCHANGED <<mate, opening>>

AcceptCreate(r) ==
    \E i \in Txns, a \in Accounts, m \in Amounts, links \in SUBSET Txns :
        /\ \A j \in links : mate[j] # Unborn
        /\ Bear(i)
        /\ UNCHANGED opening
        /\ Accept(r, "create", CreateTransaction(i, a, m, links))

AcceptUpdate(r) ==
    \E i \in Txns, e \in Edits :
        mate[i] # Unborn /\ Accept(r, "update", UpdateTransaction(i, e)) /\ SameIds

AcceptDelete(r) ==
    \E i \in Txns : mate[i] # Unborn /\ Accept(r, "delete", DeleteTransaction(i)) /\ SameIds

AcceptLink(r) ==
    \E i, j \in Txns :
        /\ mate[i] # Unborn /\ mate[j] # Unborn
        /\ Accept(r, "link", LinkTransaction(i, j))
        /\ SameIds

AcceptUnlink(r) ==
    \E i, j \in Txns :
        /\ mate[i] # Unborn /\ mate[j] # Unborn
        /\ Accept(r, "unlink", UnlinkTransaction(i, j))
        /\ SameIds

AcceptTransfer(r) ==
    \E w, d \in Txns, from, to \in Accounts, m, n \in Amounts :
        /\ w # d /\ mate[w] = Unborn /\ mate[d] = Unborn
        /\ from # to
        /\ mate' = [mate EXCEPT ![w] = d, ![d] = w]
        /\ UNCHANGED opening
        /\ Accept(r, "transfer", Transfer(w, d, from, to, m, n))

AcceptGetStats(r) ==
    \E a \in Accounts : Accept(r, "stats", GetAccountStats(a)) /\ SameIds

AcceptCreateAccount(r) ==
    \E a \in Accounts :
        /\ opening[a] = Unborn
        /\ \/ \E i \in Txns, m \in Amounts :
                 /\ Bear(i)
                 /\ opening' = [opening EXCEPT ![a] = i]
                 /\ Accept(r, "createAccount", CreateAccount(a, i, m))
           \/ /\ opening' = [opening EXCEPT ![a] = Single]
              /\ UNCHANGED mate
              /\ Accept(r, "createAccount", CreateEmptyAccount(a))

AcceptUpdateAccount(r) ==
    \E a \in Accounts, b \in {"rename", "retype"} :
        /\ opening[a] # Unborn
        /\ Accept(r, IF b = "rename" THEN "renameAccount" ELSE "typeBalance", UpdateAccount(a, b))
        /\ SameIds

AcceptDeleteAccount(r) ==
    \E a \in Accounts :
        opening[a] # Unborn /\ Accept(r, "deleteAccount", DeleteAccount(a)) /\ SameIds

-----------------------------------------------------------------------------
(* Synchronous code between statements.                                    *)

RunAim(r) ==
    /\ At(r, "aim")
    /\ LET p == [k \in Repos |-> IF k \in Call(r).repos THEN req[r].own ELSE ptr[Home[r]][k]]
       IN  /\ ptr' = [ptr EXCEPT ![Home[r]] = p]
           /\ GoOn(r, req[r].own, Tail(req[r].todo), p)
    /\ UNCHANGED <<dbVars, cache>> /\ SameIds

RunForEach(r) ==
    /\ At(r, "each")
    /\ LET c == Call(r)
       IN  \/ c.ids = {} /\ Continue(r, <<>>)
           \/ \E i \in c.ids :
                 Continue(r, <<Find(i, c.how, c.other), ForEach(c.ids \ {i}, c.how, c.other)>>)
    /\ UNCHANGED <<dbVars, ptr, cache>> /\ SameIds

\* What the caller of getAccountStats does with the sum: save it as the balance,
\* compare it with the amount to transfer (only the outcome is kept), or return it.
UseSum(r, a, b, use) ==
    CASE use \in Repos -> Continue(r, <<SetBalance(a, b, use)>>)
      [] use = "check" -> Continue(r, <<>>) \/ Throw(r)
      [] OTHER         -> Continue(r, <<>>)

\* getAccountStats up to its query, with the invalidation that precedes it
Lookup(r) ==
    /\ At(r, "lookup")
    /\ LET c   == Call(r)
           hit == cache[Home[r]][c.acct]
       IN  IF c.fresh
           THEN /\ cache' = [cache EXCEPT ![Home[r]][c.acct] = Miss]
                /\ Continue(r, <<SumRows(c)>>)
           ELSE /\ UNCHANGED cache
                /\ IF hit = Miss THEN Continue(r, <<SumRows(c)>>)
                                 ELSE UseSum(r, c.acct, hit, c.use)
    /\ UNCHANGED <<dbVars, ptr>> /\ SameIds

\* getAccountStats after its query
FillCache(r) ==
    /\ At(r, "fill")
    /\ LET c == Call(r)
       IN  /\ cache' = [cache EXCEPT ![Home[r]][c.acct] = c.seen]
           /\ UseSum(r, c.acct, c.seen, c.use)
    /\ UNCHANGED <<dbVars, ptr>> /\ SameIds

\* An entry of the cache is older than five minutes.
Expire(p, a) ==
    /\ cache[p][a] # Miss
    /\ cache' = [cache EXCEPT ![p][a] = Miss]
    /\ UNCHANGED <<dbVars, req, ptr>> /\ SameIds

-----------------------------------------------------------------------------
(* SQL statements.                                                         *)

BeginTransaction(r) ==
    /\ At(r, "begin")
    /\ \E c \in Clients :
         LET p == [k \in Repos |-> IF k \in Call(r).repos THEN c ELSE ptr[Home[r]][k]]
         IN  /\ CheckOut(r, c)
             /\ ptr' = [ptr EXCEPT ![Home[r]] = p]
             /\ GoOn(r, c, Tail(req[r].todo), p)
    /\ UNCHANGED cache /\ SameIds

Statement(r, q) == At(r, q) /\ Usable(req[r].on, Home[r])
Otherwise == UNCHANGED <<ptr, cache>> /\ SameIds

FindRow(r) ==
    /\ Statement(r, "find")
    /\ LET c == Call(r)
           x == RowAt(req[r].on, c.id)
       IN  IF Refused(c, x) THEN Throw(r) ELSE Continue(r, AfterFind(c, x))
    /\ UNCHANGED dbVars /\ Otherwise

\* INSERT and UPDATE check that the account exists (a foreign key); UPDATE of a
\* row that is gone returns no row, which mapToEntity cannot read.
WriteRow(r) ==
    /\ \/ Statement(r, "insert")
       \/ Statement(r, "put")
    /\ LET c == Call(r)
           t == req[r].on
       IN  /\ BalAt(t, c.row.acct) # Gone
           /\ c.q = "put" => RowAt(t, c.id) # NoRow
           /\ Write(t, [NoRows EXCEPT ![c.id] = c.row], NoBalances)
    /\ Continue(r, <<>>)
    /\ Otherwise

RefuseRow(r) ==
    /\ \/ Statement(r, "insert")
       \/ Statement(r, "put")
    /\ LET c == Call(r)
           t == req[r].on
       IN  \/ BalAt(t, c.row.acct) = Gone /\ StatementFails(t)
           \/ /\ c.q = "put" /\ RowAt(t, c.id) = NoRow
              /\ UNCHANGED dbVars
    /\ Throw(r)
    /\ Otherwise

RemoveRow(r) ==
    /\ Statement(r, "remove")
    /\ Write(req[r].on, [NoRows EXCEPT ![Call(r).id] = NoRow], NoBalances)
    /\ Continue(r, <<>>)
    /\ Otherwise

SumAccount(r) ==
    /\ Statement(r, "sum")
    /\ Continue(r, <<Fill(Call(r), SumAt(req[r].on, Call(r).acct))>>)
    /\ UNCHANGED dbVars /\ Otherwise

\* UPDATE accounts SET balance: no error if there is no such account
UpdateBalance(r) ==
    /\ Statement(r, "setbal")
    /\ LET c == Call(r)
       IN  IF BalAt(req[r].on, c.acct) = Gone
           THEN UNCHANGED dbVars
           ELSE Write(req[r].on, NoRows, [NoBalances EXCEPT ![c.acct] = c.bal])
    /\ Continue(r, <<>>)
    /\ Otherwise

\* AccountRepository.findById, and what updateAccount and deleteAccount do next
ReadAccount(r) ==
    /\ Statement(r, "findacc")
    /\ LET c == Call(r)
           b == BalAt(req[r].on, c.acct)
       IN  IF b = Gone THEN Throw(r)
           ELSE Continue(r, CASE c.use = "rename" -> <<PutAccount(c.acct, b)>>
                              [] c.use = "retype" -> <<PutAccount(c.acct, Typed)>>
                              [] c.use = "delete" -> <<RemoveAccount(c.acct)>>
                              [] OTHER -> <<>>)
    /\ UNCHANGED dbVars /\ Otherwise

\* countByWorkspaceId and the plan's limit, which may refuse the request
CheckLimit(r) ==
    /\ Statement(r, "count")
    /\ Continue(r, <<>>) \/ Throw(r)
    /\ UNCHANGED dbVars /\ Otherwise

InsertAccount(r) ==
    /\ Statement(r, "newacc")
    /\ LET c == Call(r)
       IN  Write(req[r].on, NoRows, [NoBalances EXCEPT ![c.acct] = c.bal])
    /\ Continue(r, <<>>)
    /\ Otherwise

\* AccountRepository.update writes the whole row that was read, balance included.
WriteAccount(r) ==
    /\ Statement(r, "putacc")
    /\ LET c == Call(r)
       IN  IF BalAt(req[r].on, c.acct) = Gone
           THEN UNCHANGED dbVars /\ Throw(r)
           ELSE /\ Write(req[r].on, NoRows, [NoBalances EXCEPT ![c.acct] = c.bal])
                /\ Continue(r, <<>>)
    /\ Otherwise

\* DELETE FROM accounts, cascading to the account's transactions
DeleteAccountRow(r) ==
    /\ Statement(r, "delacc")
    /\ LET c == Call(r)
           t == req[r].on
       IN  Write(t, [i \in Txns |-> IF i \in RowsOf(t, c.acct) THEN NoRow ELSE Same],
                    [NoBalances EXCEPT ![c.acct] = Gone])
    /\ Continue(r, <<>>)
    /\ Otherwise

Commit(r) ==
    /\ req[r].todo = <<>> /\ req[r].own # Pool /\ ~req[r].err
    /\ CommitAndRelease(req[r].own)
    /\ GoOn(r, Pool, <<>>, ptr[Home[r]])
    /\ Otherwise

Rollback(r) ==
    /\ req[r].err
    /\ RollBackAndRelease(req[r].own)
    /\ GoOn(r, Pool, <<>>, ptr[Home[r]])
    /\ Otherwise

(* A statement on a closed client or in an aborted transaction fails, and  *)
(* any statement may (deadlock, constraint, timeout).                      *)
IsStatement(r) == req[r].todo # <<>> /\ Call(r).q # "begin" /\ Call(r).via # "-"
Broken(t)      == t = Dead \/ (t \in Clients /\ tx[t].state = "aborted")

\* A slip: the method swallows the error and goes on.
FailSwallowed(r) ==
    /\ IsStatement(r)
    /\ MayFail \/ Broken(req[r].on)
    /\ StatementFails(req[r].on)
    /\ Continue(r, <<>>)
    /\ Otherwise

Fail(r) ==
    /\ IsStatement(r)
    /\ MayFail \/ Broken(req[r].on)
    /\ StatementFails(req[r].on)
    /\ Throw(r)
    /\ Otherwise

\* The pool closes a client that has been idle for idleTimeoutMillis and opens
\* another when it needs one; a repository that still points to it does not know.
CloseIdle(c) ==
    /\ lease[c] = Free
    /\ \A r \in Requests : ~(IsStatement(r) /\ req[r].on = c)
    /\ \E k \in Repos : ptr[Home[c]][k] = c
    /\ ptr' = [ptr EXCEPT ![Home[c]] = [k \in Repos |-> IF @[k] = c THEN Dead ELSE @[k]]]
    /\ UNCHANGED <<dbVars, req, cache>> /\ SameIds

-----------------------------------------------------------------------------
Init ==
    /\ DbInit(Existing)
    /\ req = [r \in Requests |-> [todo |-> <<>>, own |-> Pool, err |-> FALSE, on |-> Pool]]
    /\ ptr = [p \in Procs |-> [k \in Repos |-> Pool]]
    /\ cache = [p \in Procs |-> [a \in Accounts |-> Miss]]
    /\ mate = [i \in Txns |-> Unborn]
    /\ opening = [a \in Accounts |-> IF a \in Existing THEN Single ELSE Unborn]

AcceptRequest(r) ==
    \/ AcceptCreate(r) \/ AcceptUpdate(r) \/ AcceptDelete(r)
    \/ AcceptLink(r) \/ AcceptUnlink(r) \/ AcceptTransfer(r) \/ AcceptGetStats(r)
    \/ AcceptCreateAccount(r) \/ AcceptUpdateAccount(r) \/ AcceptDeleteAccount(r)

\* The steps of a request that has been accepted, failures aside.
Serve(r) ==
    \/ RunAim(r) \/ RunForEach(r) \/ Lookup(r) \/ FillCache(r)
    \/ BeginTransaction(r) \/ FindRow(r) \/ WriteRow(r) \/ RefuseRow(r) \/ RemoveRow(r)
    \/ SumAccount(r) \/ UpdateBalance(r)
    \/ ReadAccount(r) \/ CheckLimit(r) \/ InsertAccount(r) \/ WriteAccount(r) \/ DeleteAccountRow(r)
    \/ Commit(r) \/ Rollback(r)

Progress(r) == Serve(r) \/ Fail(r)

Next ==
    \/ \E r \in Requests : AcceptRequest(r) \/ Progress(r)
    \/ \E p \in Procs, a \in Accounts : Expire(p, a)
    \/ \E c \in Clients : CloseIdle(c)

Spec == Init /\ [][Next]_vars

\* A request waits for a client in the pool's FIFO queue and for a row lock in the
\* database's, so neither can pass it over for ever; Node and the database run on.
\* That a statement fails by chance is not relied on.
FairSpec ==
    Spec /\ \A r \in Requests : SF_vars(Serve(r) \/ (Broken(req[r].on) /\ Fail(r)))

-----------------------------------------------------------------------------
(* Properties.                                                             *)

ReqType == [todo: Seq(Calls), own: Clients \cup {Pool}, err: BOOLEAN, on: Targets]

\* The type of every variable.
TypeOK ==
    /\ DbTypeOK
    /\ req \in [Requests -> ReqType]
    /\ ptr \in [Procs -> [Repos -> Targets]]
    /\ cache \in [Procs -> [Accounts -> Balance \cup {Miss}]]
    /\ mate \in [Txns -> Txns \cup {Unborn, Single}]
    /\ opening \in [Accounts -> Txns \cup {Unborn, Single}]

\* A method begins one transaction, and none inside another.
BeginsOnce ==
    \A r \in Requests : \A k \in 1..Len(req[r].todo) :
        req[r].todo[k].q = "begin" =>
            /\ req[r].own = Pool
            /\ \A l \in 1..Len(req[r].todo) : l # k => req[r].todo[l].q # "begin"

\* Only a request with a transaction has one to roll back, and it does so next.
ErrInside == \A r \in Requests : req[r].err => req[r].own # Pool /\ req[r].todo = <<>>

\* When no request is in flight, the balance of every account is the sum of its
\* transactions: what createTransaction, updateTransaction, deleteTransaction,
\* transfer and createAccount recompute it for.
BalancesAgree ==
    Quiet => \A a \in Accounts : bal[a] # Gone => bal[a] = SumAt(Pool, a)

\* When no request is in flight, links between existing transactions go both ways,
\* as the "bidirectional" updates of create, link, unlink and delete intend.
LinksMutual ==
    Quiet => \A i, j \in Txns :
        row[i] # NoRow /\ row[j] # NoRow /\ j \in row[i].links => i \in row[j].links

\* When no request is in flight, a process answers getAccountStats from its cache
\* with the sum that the database would give.
CacheTruthful ==
    Quiet => \A p \in Procs, a \in Accounts :
        bal[a] # Gone => cache[p][a] \in {Miss, SumAt(Pool, a)}

\* withDb is there "for using a different DB client (e.g., in transactions)": inside
\* db.transaction, every statement of the request goes to the client that its BEGIN was
\* sent to.  It is not so when two requests of a process share the repository.
OwnClientOnly ==
    \A r \in Requests : req[r].own # Pool /\ IsStatement(r) => req[r].on = req[r].own

\* The two legs of a transfer become visible to others in the same step.
TransferWhole ==
    [][\A i \in Txns :
          mate[i] \in Txns /\ row[i] = NoRow /\ row'[i] # NoRow
          => row[mate[i]] = NoRow /\ row'[mate[i]] # NoRow]_vars

\* An account opened with a balance becomes visible in the same step as its
\* opening transaction.
OpeningWhole ==
    [][\A a \in Accounts :
          opening[a] \in Txns
          => (bal[a] = Gone /\ bal'[a] # Gone) = (row[opening[a]] = NoRow /\ row'[opening[a]] # NoRow)]_vars

\* The pool's books: a client is checked out by the one request that owns it, and
\* a client nobody has checked out has no transaction and no uncommitted write.
PoolDiscipline ==
    /\ \A c \in Clients : lease[c] = Free => tx[c] = Autocommit
    /\ \A r \in Requests, c \in Clients : req[r].own = c <=> lease[c] = r

\* A request that reaches its COMMIT has a transaction that will commit: it never
\* reports success for work that an aborted transaction has lost.
CommitIsReal ==
    \A r \in Requests :
        req[r].own # Pool /\ req[r].todo = <<>> /\ ~req[r].err => tx[req[r].own].state = "open"

\* Every request is answered: no request waits for ever for a client or for a lock,
\* even with a single client (a nested transaction reuses the client of the outer).
EveryRequestEnds == \A r \in Requests : ~Idle(r) ~> Idle(r)
=============================================================================
