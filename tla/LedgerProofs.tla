---------------------------- MODULE LedgerProofs ----------------------------
(***************************************************************************)
(* Proofs about Ledger for every number of processes, requests, clients,   *)
(* accounts and transactions: type correctness and the pool's discipline;  *)
(* for processes that serve one request at a time, that a transaction      *)
(* holds what its method does, and that what is created together appears   *)
(* together; and, for one request at a time, that the balances are the     *)
(* sums of the transactions.                                               *)
(***************************************************************************)
EXTENDS Ledger, TLAPS

(* The inductive invariant.  A request that began a second transaction     *)
(* would forget the client of the first, so the pool's books balance only  *)
(* because the calls a method has left hold at most one BEGIN, and none    *)
(* once the request owns a client.                                         *)
IInv == TypeOK /\ BeginsOnce /\ ErrInside /\ PoolDiscipline

-----------------------------------------------------------------------------
(* Calls.                                                                  *)

LEMMA CallFields ==
    ASSUME NEW c \in Calls
    PROVE  /\ c.q = "begin" => c.via = "pool" /\ c.repos \in SUBSET Repos
           /\ c.q # "begin" => c \in InnerCalls
           /\ c.via \in Vias
BY DEF Calls, InnerCalls, Vias, Repos

LEMMA InnerIsNotBegin == \A c \in InnerCalls : c.q # "begin" /\ c \in Calls
BY DEF Calls, InnerCalls

LEMMA FindFields ==
    ASSUME NEW c \in InnerCalls, c.q = "find"
    PROVE  /\ c.id \in Txns
           /\ c.how \in {"edit", "linkTo", "delete", "unlinkAll", "linkFrom",
                         "unlinkFrom", "linkBack", "linkDrop"}
           /\ c.how = "edit" => c.arg \in Edits
           /\ c.how = "linkTo" => c.arg \in [id: Txns, row: Row]
           /\ c.how \notin {"edit", "linkTo"} => c.arg \in Txns
BY DEF InnerCalls

LEMMA RowCalls ==
    ASSUME NEW i \in Txns, NEW x \in Row
    PROVE  /\ Put(i, x) \in InnerCalls
           /\ Insert(i, x, "trx") \in InnerCalls
           /\ Insert(i, x, "own") \in InnerCalls
           /\ Remove(i) \in InnerCalls
BY DEF InnerCalls, Put, Insert, Remove

LEMMA LoopCalls ==
    ASSUME NEW i \in Txns, NEW S \in SUBSET Txns, NEW h \in {"linkBack", "linkDrop"}
    PROVE  ForEach(S, h, i) \in InnerCalls
BY DEF InnerCalls, ForEach

LEMMA FindCalls ==
    ASSUME NEW i \in Txns
    PROVE  /\ \A j \in Txns : \A h \in {"delete", "unlinkAll", "linkFrom", "unlinkFrom",
                                        "linkBack", "linkDrop"} : Find(i, h, j) \in InnerCalls
           /\ \A e \in Edits : Find(i, "edit", e) \in InnerCalls
           /\ \A a \in [id: Txns, row: Row] : Find(i, "linkTo", a) \in InnerCalls
BY DEF InnerCalls, Find

LEMMA AccountCalls ==
    ASSUME NEW a \in Accounts
    PROVE  /\ SaveBalance(a) \in InnerCalls
           /\ \A v \in {"trx", "own"}, f \in BOOLEAN, u \in Uses : Stats(a, v, f, u) \in InnerCalls
           /\ \A b \in Balance : /\ NewAccount(a, b) \in InnerCalls
                                 /\ PutAccount(a, b) \in InnerCalls
                                 /\ \A k \in Repos : SetBalance(a, b, k) \in InnerCalls
           /\ RemoveAccount(a) \in InnerCalls
           /\ \A v \in {"acc", "pool"}, u \in {"exists", "rename", "retype", "delete"} :
                 FindAccount(a, v, u) \in InnerCalls
BY DEF InnerCalls, SaveBalance, Stats, NewAccount, PutAccount, SetBalance, RemoveAccount,
       FindAccount, Uses, Repos

LEMMA OtherCalls ==
    /\ CountAccounts \in InnerCalls
    /\ \A S \in SUBSET Repos : Aim(S) \in InnerCalls /\ Begin(S) \in Calls
BY DEF InnerCalls, Calls, CountAccounts, Aim, Begin

LEMMA LookupFields ==
    ASSUME NEW c \in InnerCalls
    PROVE  /\ c.q = "lookup" => /\ c.acct \in Accounts /\ c.use \in Uses
                                /\ SumRows(c) \in InnerCalls
           /\ c.q = "sum" => /\ c.acct \in Accounts
                             /\ \A b \in Balance : Fill(c, b) \in InnerCalls
           /\ c.q = "fill" => c.acct \in Accounts /\ c.seen \in Balance /\ c.use \in Uses
BY DEF InnerCalls, SumRows, Fill, Uses, Repos

LEMMA StatementFields ==
    ASSUME NEW c \in InnerCalls
    PROVE  /\ c.q \in {"insert", "put"} => c.id \in Txns /\ c.row \in Row
           /\ c.q = "remove" => c.id \in Txns
           /\ c.q \in {"setbal", "newacc", "putacc"} => c.acct \in Accounts /\ c.bal \in Balance
           /\ c.q \in {"findacc", "delacc"} => c.acct \in Accounts
           /\ c.q = "aim" => c.repos \in SUBSET Repos
           /\ c.q = "each" => /\ c.ids \in SUBSET Txns /\ c.how \in {"linkBack", "linkDrop"}
                              /\ c.other \in Txns
BY DEF InnerCalls

-----------------------------------------------------------------------------
(* The calls a method adds once it has read a row.                         *)

LEMMA EditedRow ==
    ASSUME NEW x \in Row, NEW e \in Edits
    PROVE  /\ Edited(x, e) \in Row
           /\ e.acct # Keep => e.acct \in Accounts
BY LedgerConstants DEF Edited, Row

LEMMA LinkedRow ==
    ASSUME NEW x \in Row, NEW i \in Txns
    PROVE  /\ WithLink(x, i) \in Row
           /\ WithoutLink(x, i) \in Row
           /\ [x EXCEPT !.links = {}] \in Row
           /\ x.links \in SUBSET Txns
           /\ x.acct \in Accounts
BY DEF WithLink, WithoutLink, Row

LEMMA AfterFindType ==
    ASSUME NEW c \in InnerCalls, c.q = "find", NEW x \in Row \cup {NoRow}, ~Refused(c, x)
    PROVE  AfterFind(c, x) \in Seq(InnerCalls)
<1>. USE FindFields
<1>1. CASE c.how = "edit"
  <2>1. x \in Row
    BY <1>1 DEF Refused
  <2>2. Put(c.id, Edited(x, c.arg)) \in InnerCalls /\ SaveBalance(x.acct) \in InnerCalls
    BY <1>1, <2>1, EditedRow, LinkedRow, RowCalls, AccountCalls, Zenon
  <2>3. c.arg.acct \notin {Keep, x.acct} => SaveBalance(c.arg.acct) \in InnerCalls
    BY <1>1, <2>1, EditedRow, AccountCalls
  <2>4. AfterEdit(c, x) \in Seq(InnerCalls)
    BY <2>2, <2>3 DEF AfterEdit
  <2>. QED  BY <1>1, <2>4 DEF AfterFind
<1>2. CASE c.how = "delete"
  <2>1. x \in Row
    BY <1>2 DEF Refused
  <2>2. /\ Remove(c.id) \in InnerCalls /\ SaveBalance(x.acct) \in InnerCalls
        /\ Aim({"trx"}) \in InnerCalls /\ Find(c.id, "unlinkAll", c.id) \in InnerCalls
    BY <1>2, <2>1, LinkedRow, RowCalls, AccountCalls, OtherCalls, FindCalls, Zenon DEF Repos
  <2>3. AfterDelete(c, x) \in Seq(InnerCalls)
    BY <2>2 DEF AfterDelete
  <2>. QED  BY <1>2, <2>3 DEF AfterFind
<1>3. CASE c.how = "unlinkAll"
  <2>1. x # NoRow => /\ Put(c.id, [x EXCEPT !.links = {}]) \in InnerCalls
                     /\ ForEach(x.links, "linkDrop", c.id) \in InnerCalls
    BY <1>3, LinkedRow, RowCalls, LoopCalls
  <2>2. AfterUnlinkAll(c, x) \in Seq(InnerCalls)
    BY <2>1 DEF AfterUnlinkAll
  <2>. QED  BY <1>3, <2>2 DEF AfterFind
<1>4. CASE c.how = "linkFrom"
  <2>1. x \in Row /\ c.arg \in Txns
    BY <1>4 DEF Refused
  <2>2. Find(c.arg, "linkTo", [id |-> c.id, row |-> x]) \in InnerCalls
    BY <2>1, FindCalls
  <2>. QED  BY <1>4, <2>2 DEF AfterFind
<1>5. CASE c.how = "linkTo"
  <2>1. x \in Row /\ c.arg \in [id: Txns, row: Row]
    BY <1>5 DEF Refused
  <2>2. Put(c.arg.id, WithLink(c.arg.row, c.id)) \in InnerCalls
    BY <2>1, LinkedRow, RowCalls, Zenon
  <2>3. Put(c.id, WithLink(x, c.arg.id)) \in InnerCalls
    BY <2>1, LinkedRow, RowCalls, Zenon
  <2>4. AfterLinkTo(c, x) \in Seq(InnerCalls)
    BY <2>2, <2>3 DEF AfterLinkTo
  <2>. QED  BY <1>5, <2>4 DEF AfterFind
<1>6. CASE c.how = "unlinkFrom"
  <2>1. x \in Row /\ c.arg \in Txns
    BY <1>6 DEF Refused
  <2>2. /\ Put(c.id, WithoutLink(x, c.arg)) \in InnerCalls
        /\ Find(c.arg, "linkDrop", c.id) \in InnerCalls
    BY <2>1, LinkedRow, RowCalls, FindCalls, Zenon
  <2>. QED  BY <1>6, <2>2 DEF AfterFind
<1>7. CASE c.how = "linkBack"
  <2>1. x # NoRow => Put(c.id, WithLink(x, c.arg)) \in InnerCalls
    BY <1>7, LinkedRow, RowCalls, Zenon
  <2>. QED  BY <1>7, <2>1 DEF AfterFind
<1>8. CASE c.how = "linkDrop"
  <2>1. x # NoRow => Put(c.id, WithoutLink(x, c.arg)) \in InnerCalls
    BY <1>8, LinkedRow, RowCalls, Zenon
  <2>. QED  BY <1>8, <2>1 DEF AfterFind
<1>. QED  BY <1>1, <1>2, <1>3, <1>4, <1>5, <1>6, <1>7, <1>8

-----------------------------------------------------------------------------
(* The list of calls.                                                      *)

\* A step of request r that leaves it with the same client, if any.
KeepsOwn(r) ==
    /\ req' \in [Requests -> ReqType]
    /\ \A s \in Requests \ {r} : req'[s] = req[s]
    /\ req'[r].own = req[r].own
    /\ BeginsOnce'
    /\ ErrInside'

LEMMA BoundType ==
    ASSUME NEW c \in Calls, NEW own \in Targets, NEW p \in [Repos -> Targets]
    PROVE  Bound(c, own, p) \in Targets
BY DEF Bound, Targets

LEMMA GoOnType ==
    ASSUME TypeOK, NEW r \in Requests, NEW own \in Clients \cup {Pool},
           NEW calls \in Seq(Calls), NEW p \in [Repos -> Targets], GoOn(r, own, calls, p)
    PROVE  /\ req' \in [Requests -> ReqType]
           /\ \A s \in Requests \ {r} : req'[s] = req[s]
           /\ req'[r].todo = calls /\ req'[r].own = own /\ req'[r].err = FALSE
<1>. DEFINE on == IF calls = <<>> THEN Pool ELSE Bound(Head(calls), own, p)
<1>1. on \in Targets
  <2>1. CASE calls = <<>>
    BY <2>1 DEF Targets
  <2>2. CASE calls # <<>>
    <3>1. Head(calls) \in Calls
      BY <2>2
    <3>. QED  BY <2>2, <3>1, BoundType DEF Targets
  <2>. QED  BY <2>1, <2>2
<1>2. [todo |-> calls, own |-> own, err |-> FALSE, on |-> on] \in ReqType
  BY <1>1 DEF ReqType
<1>3. req' = [req EXCEPT ![r] = [todo |-> calls, own |-> own, err |-> FALSE, on |-> on]]
  BY DEF GoOn
<1>. QED  BY <1>2, <1>3 DEF TypeOK

LEMMA HeadIsCall ==
    ASSUME TypeOK, NEW r \in Requests, req[r].todo # <<>>
    PROVE  /\ req[r] \in ReqType /\ req[r].todo \in Seq(Calls)
           /\ Call(r) \in Calls /\ Tail(req[r].todo) \in Seq(Calls)
           /\ Call(r) = req[r].todo[1]
           /\ Call(r).q # "begin" => Call(r) \in InnerCalls
<1>1. req[r] \in ReqType /\ req[r].todo \in Seq(Calls)
  BY DEF TypeOK, ReqType
<1>. QED  BY <1>1, CallFields DEF Call

LEMMA MoreKeeps ==
    ASSUME IInv, NEW r \in Requests, req[r].todo # <<>>, Call(r).q # "begin",
           NEW more \in Seq(InnerCalls), NEW p \in [Repos -> Targets],
           GoOn(r, req[r].own, more \o Tail(req[r].todo), p)
    PROVE  KeepsOwn(r)
<1>. DEFINE old == req[r].todo
            new == more \o Tail(old)
<1>1. /\ TypeOK /\ BeginsOnce /\ ErrInside
      /\ old \in Seq(Calls) /\ req[r].own \in Clients \cup {Pool}
  BY HeadIsCall DEF IInv, ReqType
<1>2. more \in Seq(Calls)
  BY InnerIsNotBegin
<1>3. new \in Seq(Calls)
  BY <1>1, <1>2
<1>5. /\ req' \in [Requests -> ReqType]
      /\ \A s \in Requests \ {r} : req'[s] = req[s]
      /\ req'[r].todo = new /\ req'[r].own = req[r].own /\ req'[r].err = FALSE
  BY <1>1, <1>3, GoOnType, Zenon
<1>6. BeginsOnce'
  <2>. SUFFICES ASSUME NEW s \in Requests, NEW k \in 1..Len(req'[s].todo),
                       req'[s].todo[k].q = "begin"
                PROVE  /\ req'[s].own = Pool
                       /\ \A l \in 1..Len(req'[s].todo) : l # k => req'[s].todo[l].q # "begin"
    BY DEF BeginsOnce
  <2>1. CASE s # r
    BY <2>1, <1>1, <1>5 DEF BeginsOnce
  <2>2. CASE s = r
    <3>1. \A l \in 1..Len(new) :
             \/ l <= Len(more) /\ new[l] = more[l]
             \/ l > Len(more) /\ new[l] = old[l - Len(more) + 1]
                /\ l - Len(more) + 1 \in 1..Len(old)
      BY <1>1
    <3>2. \A l \in 1..Len(more) : more[l].q # "begin"
      BY InnerIsNotBegin
    <3>3. k > Len(more) /\ old[k - Len(more) + 1].q = "begin" /\ k - Len(more) + 1 \in 1..Len(old)
      BY <2>2, <1>5, <3>1, <3>2
    <3>4. /\ req[r].own = Pool
          /\ \A l \in 1..Len(old) : l # k - Len(more) + 1 => old[l].q # "begin"
      BY <1>1, <3>3, Zenon DEF BeginsOnce
    <3>5. ASSUME NEW l \in 1..Len(new), l # k
          PROVE  new[l].q # "begin"
      <4>1. Len(more) \in Nat /\ k \in Int /\ l \in Int
        BY <1>3, <1>2, <2>2, <1>5
      <4>2. CASE l <= Len(more)
        BY <4>1, <4>2, <3>1, <3>2
      <4>3. CASE l > Len(more)
        <5>1. new[l] = old[l - Len(more) + 1] /\ l - Len(more) + 1 \in 1..Len(old)
          BY <4>1, <4>3, <3>1
        <5>2. l - Len(more) + 1 # k - Len(more) + 1
          BY <4>1, <3>5
        <5>. QED  BY <5>1, <5>2, <3>4, Zenon
      <4>. QED  BY <4>1, <4>2, <4>3
    <3>. QED  BY <2>2, <1>5, <3>4, <3>5, Zenon
  <2>. QED  BY <2>1, <2>2
<1>7. ErrInside'
  BY <1>1, <1>5 DEF ErrInside
<1>. QED  BY <1>5, <1>6, <1>7 DEF KeepsOwn

LEMMA PointersOf == TypeOK => \A r \in Requests : ptr[Home[r]] \in [Repos -> Targets]
BY HomeType DEF TypeOK

LEMMA ContinueKeeps ==
    ASSUME IInv, NEW r \in Requests, req[r].todo # <<>>, Call(r).q # "begin",
           NEW more \in Seq(InnerCalls), Continue(r, more)
    PROVE  KeepsOwn(r)
BY MoreKeeps, PointersOf DEF Continue, IInv

LEMMA ThrowKeeps ==
    ASSUME IInv, NEW r \in Requests, Throw(r)
    PROVE  KeepsOwn(r)
<1>1. TypeOK /\ BeginsOnce /\ ErrInside /\ req[r] \in ReqType
  BY DEF IInv, TypeOK
<1>2. [todo |-> <<>>, own |-> req[r].own, err |-> req[r].own # Pool, on |-> Pool] \in ReqType
  BY <1>1 DEF ReqType, Targets
<1>3. /\ req' \in [Requests -> ReqType]
      /\ \A s \in Requests \ {r} : req'[s] = req[s]
      /\ req'[r].todo = <<>> /\ req'[r].own = req[r].own
      /\ req'[r].err = (req[r].own # Pool)
  BY <1>1, <1>2 DEF Throw, TypeOK
<1>4. BeginsOnce'
  BY <1>1, <1>3 DEF BeginsOnce
<1>5. ErrInside'
  BY <1>1, <1>3, Zenon DEF ErrInside
<1>. QED  BY <1>3, <1>4, <1>5 DEF KeepsOwn

-----------------------------------------------------------------------------
(* The database.                                                           *)

\* A step that checks no client in or out and leaves the idle ones alone.
DbKeeps ==
    /\ DbTypeOK'
    /\ lease' = lease
    /\ \A c \in Clients : lease[c] = Free => tx'[c] = tx[c]

LEMMA SameDbKeeps == TypeOK /\ UNCHANGED dbVars => DbKeeps
BY DEF TypeOK, DbKeeps, DbTypeOK, dbVars

LEMMA AutocommitType == Autocommit \in Session /\ Autocommit.state = "autocommit"
BY DEF Autocommit, Session, NoRows, NoBalances

LEMMA OverType ==
    /\ \A f \in [Txns -> Row \cup {NoRow}], d \in [Txns -> Row \cup {NoRow, Same}] :
          Over(f, d) \in [Txns -> Row \cup {NoRow}]
    /\ \A f \in [Accounts -> Balance \cup {Gone}], d \in [Accounts -> Balance \cup {Gone, Same}] :
          Over(f, d) \in [Accounts -> Balance \cup {Gone}]
    /\ \A f, d \in [Txns -> Row \cup {NoRow, Same}] : Over(f, d) \in [Txns -> Row \cup {NoRow, Same}]
    /\ \A f, d \in [Accounts -> Balance \cup {Gone, Same}] :
          Over(f, d) \in [Accounts -> Balance \cup {Gone, Same}]
BY DEF Over

LEMMA WriteKeeps ==
    ASSUME TypeOK, PoolDiscipline, NEW t, NEW dr \in [Txns -> Row \cup {NoRow, Same}],
           NEW db \in [Accounts -> Balance \cup {Gone, Same}], Write(t, dr, db)
    PROVE  DbKeeps
<1>1. DbTypeOK /\ lease' = lease
  BY DEF TypeOK, Write
<1>2. CASE t \in Clients /\ tx[t].state = "open"
  <2>1. tx' = [tx EXCEPT ![t].row = Over(@, dr), ![t].bal = Over(@, db)] /\ UNCHANGED <<row, bal>>
    BY <1>2 DEF Write
  <2>2. /\ tx[t] \in Session
        /\ Over(tx[t].row, dr) \in [Txns -> Row \cup {NoRow, Same}]
        /\ Over(tx[t].bal, db) \in [Accounts -> Balance \cup {Gone, Same}]
    BY <1>1, <1>2, OverType DEF DbTypeOK, Session
  <2>3. tx' \in [Clients -> Session] /\ \A c \in Clients : c # t => tx'[c] = tx[c]
    BY <1>1, <1>2, <2>1, <2>2, Zenon DEF DbTypeOK, Session
  <2>4. lease[t] # Free
    BY <1>2, AutocommitType DEF PoolDiscipline
  <2>. QED  BY <1>1, <2>1, <2>3, <2>4 DEF DbKeeps, DbTypeOK
<1>3. CASE ~(t \in Clients /\ tx[t].state = "open")
  <2>1. row' = Over(row, dr) /\ bal' = Over(bal, db) /\ tx' = tx
    BY <1>3 DEF Write
  <2>2. row' \in [Txns -> Row \cup {NoRow}] /\ bal' \in [Accounts -> Balance \cup {Gone}]
    BY <1>1, <2>1, OverType DEF DbTypeOK
  <2>. QED  BY <1>1, <2>1, <2>2 DEF DbKeeps, DbTypeOK
<1>. QED  BY <1>2, <1>3

LEMMA DeltaType ==
    /\ NoRows \in [Txns -> Row \cup {NoRow, Same}]
    /\ NoBalances \in [Accounts -> Balance \cup {Gone, Same}]
    /\ \A i \in Txns, x \in Row \cup {NoRow} :
          [NoRows EXCEPT ![i] = x] \in [Txns -> Row \cup {NoRow, Same}]
    /\ \A a \in Accounts, b \in Balance \cup {Gone} :
          [NoBalances EXCEPT ![a] = b] \in [Accounts -> Balance \cup {Gone, Same}]
BY DEF NoRows, NoBalances

LEMMA StatementFailsKeeps ==
    ASSUME TypeOK, PoolDiscipline, NEW t, StatementFails(t)
    PROVE  DbKeeps
<1>1. DbTypeOK /\ lease' = lease /\ UNCHANGED <<row, bal>>
  BY DEF TypeOK, StatementFails
<1>2. CASE t \in Clients /\ tx[t].state = "open"
  <2>1. tx' = [tx EXCEPT ![t] = [Autocommit EXCEPT !.state = "aborted"]]
    BY <1>2 DEF StatementFails
  <2>2. [Autocommit EXCEPT !.state = "aborted"] \in Session
    BY AutocommitType DEF Session
  <2>3. lease[t] # Free
    BY <1>2, AutocommitType DEF PoolDiscipline
  <2>. QED  BY <1>1, <2>1, <2>2, <2>3, Zenon DEF DbKeeps, DbTypeOK
<1>3. CASE ~(t \in Clients /\ tx[t].state = "open")
  <2>1. tx' = tx
    BY <1>3 DEF StatementFails
  <2>. QED  BY <1>1, <2>1 DEF DbKeeps, DbTypeOK
<1>. QED  BY <1>2, <1>3

LEMMA ReadTypes ==
    ASSUME TypeOK, NEW t
    PROVE  /\ \A i \in Txns : RowAt(t, i) \in Row \cup {NoRow}
           /\ \A a \in Accounts : BalAt(t, a) \in Balance \cup {Gone}
           /\ \A a \in Accounts : SumAt(t, a) \in Balance
<1>1. \A i \in Txns : RowAt(t, i) \in Row \cup {NoRow}
  BY DEF TypeOK, DbTypeOK, RowAt, Session
<1>2. \A a \in Accounts : BalAt(t, a) \in Balance \cup {Gone}
  BY DEF TypeOK, DbTypeOK, BalAt, Session
<1>3. ASSUME NEW a \in Accounts
      PROVE  SumAt(t, a) \in Balance
  <2>1. \A i \in RowsOf(t, a) : <<i, RowAt(t, i).amt>> \in Entries
    BY <1>1 DEF RowsOf, Entries, Row
  <2>. QED  BY <2>1 DEF SumAt, SumOf, Balance
<1>. QED  BY <1>1, <1>2, <1>3

-----------------------------------------------------------------------------
(* Every step keeps the invariant.                                         *)

LEMMA Assembled ==
    ASSUME IInv, NEW r \in Requests, KeepsOwn(r), DbKeeps,
           ptr' \in [Procs -> [Repos -> Targets]],
           cache' \in [Procs -> [Accounts -> Balance \cup {Miss}]],
           SameIds
    PROVE  IInv'
<1>1. TypeOK'
  BY DEF IInv, TypeOK, KeepsOwn, DbKeeps, SameIds
<1>2. PoolDiscipline'
  BY DEF IInv, PoolDiscipline, KeepsOwn, DbKeeps
<1>. QED  BY <1>1, <1>2 DEF IInv, KeepsOwn

LEMMA AssembledOtherwise ==
    ASSUME IInv, NEW r \in Requests, KeepsOwn(r), DbKeeps, Otherwise
    PROVE  IInv'
BY Assembled DEF Otherwise, IInv, TypeOK

LEMMA AtInner ==
    ASSUME IInv, NEW r \in Requests, NEW q, q # "begin", At(r, q)
    PROVE  /\ req[r].todo # <<>> /\ Call(r).q = q
           /\ Call(r) \in InnerCalls
BY HeadIsCall DEF At, IInv

LEMMA SmallSeqs ==
    /\ <<>> \in Seq(InnerCalls)
    /\ \A c \in InnerCalls : <<c>> \in Seq(InnerCalls)
    /\ \A c, d \in InnerCalls : <<c, d>> \in Seq(InnerCalls)
OBVIOUS

LEMMA RunAimStep == IInv /\ (\E r \in Requests : RunAim(r)) => IInv'
<1>. SUFFICES ASSUME IInv, NEW r \in Requests, RunAim(r)
              PROVE  IInv'
  OBVIOUS
<1>. DEFINE p == [k \in Repos |-> IF k \in Call(r).repos THEN req[r].own ELSE ptr[Home[r]][k]]
<1>1. At(r, "aim") /\ ptr' = [ptr EXCEPT ![Home[r]] = p] /\ GoOn(r, req[r].own, Tail(req[r].todo), p)
  BY DEF RunAim
<1>2. req[r].todo # <<>> /\ Call(r).q = "aim" /\ req[r] \in ReqType /\ Tail(req[r].todo) \in Seq(Calls)
  BY <1>1, HeadIsCall DEF At, IInv
<1>3. p \in [Repos -> Targets]
  BY <1>2, PointersOf DEF IInv, ReqType, Targets
<1>4. Tail(req[r].todo) = <<>> \o Tail(req[r].todo)
  BY <1>2
<1>5. KeepsOwn(r)
  BY <1>1, <1>2, <1>3, <1>4, MoreKeeps, SmallSeqs, Zenon
<1>6. DbKeeps /\ cache' = cache /\ SameIds
  BY SameDbKeeps DEF RunAim, IInv
<1>7. ptr' \in [Procs -> [Repos -> Targets]]
  BY <1>1, <1>3, Zenon DEF IInv, TypeOK
<1>. QED  BY <1>5, <1>6, <1>7, Assembled DEF IInv, TypeOK

LEMMA RunForEachStep == IInv /\ (\E r \in Requests : RunForEach(r)) => IInv'
<1>. SUFFICES ASSUME IInv, NEW r \in Requests, RunForEach(r)
              PROVE  IInv'
  OBVIOUS
<1>. DEFINE c == Call(r)
<1>1. req[r].todo # <<>> /\ c.q = "each" /\ c \in InnerCalls
  BY AtInner DEF RunForEach
<1>2. c.ids \in SUBSET Txns /\ c.how \in {"linkBack", "linkDrop"} /\ c.other \in Txns
  BY <1>1, StatementFields
<1>3. ASSUME Continue(r, <<>>)
      PROVE  KeepsOwn(r)
  BY <1>3, <1>1, ContinueKeeps, SmallSeqs, Zenon
<1>4. ASSUME NEW i \in c.ids,
             Continue(r, <<Find(i, c.how, c.other), ForEach(c.ids \ {i}, c.how, c.other)>>)
      PROVE  KeepsOwn(r)
  <2>1. Find(i, c.how, c.other) \in InnerCalls /\ ForEach(c.ids \ {i}, c.how, c.other) \in InnerCalls
    BY <1>2, FindCalls, LoopCalls
  <2>. QED  BY <1>1, <1>4, <2>1, ContinueKeeps, SmallSeqs, Zenon
<1>5. KeepsOwn(r)
  BY <1>3, <1>4, Zenon DEF RunForEach
<1>6. DbKeeps /\ Otherwise
  BY SameDbKeeps DEF RunForEach, IInv, Otherwise
<1>. QED  BY <1>5, <1>6, AssembledOtherwise

LEMMA UseSumKeeps ==
    ASSUME IInv, NEW r \in Requests, req[r].todo # <<>>, Call(r).q # "begin",
           NEW a \in Accounts, NEW b \in Balance, NEW u \in Uses, UseSum(r, a, b, u)
    PROVE  KeepsOwn(r)
<1>1. CASE u \in Repos
  <2>1. Continue(r, <<SetBalance(a, b, u)>>)
    BY <1>1 DEF UseSum, Repos
  <2>2. SetBalance(a, b, u) \in InnerCalls
    BY <1>1, AccountCalls
  <2>. QED  BY <2>1, <2>2, ContinueKeeps, SmallSeqs, Zenon
<1>2. CASE u \notin Repos
  <2>1. Continue(r, <<>>) \/ Throw(r)
    BY <1>2 DEF UseSum, Repos
  <2>. QED  BY <2>1, ContinueKeeps, ThrowKeeps, SmallSeqs, Zenon
<1>. QED  BY <1>1, <1>2

LEMMA LookupStep == IInv /\ (\E r \in Requests : Lookup(r)) => IInv'
<1>. SUFFICES ASSUME IInv, NEW r \in Requests, Lookup(r)
              PROVE  IInv'
  OBVIOUS
<1>. DEFINE c   == Call(r)
            hit == cache[Home[r]][c.acct]
<1>1. req[r].todo # <<>> /\ c.q = "lookup" /\ c \in InnerCalls
  BY AtInner DEF Lookup
<1>2. c.acct \in Accounts /\ c.use \in Uses /\ SumRows(c) \in InnerCalls
  BY <1>1, LookupFields
<1>3. hit \in Balance \cup {Miss}
  BY <1>2, HomeType DEF IInv, TypeOK
<1>4. Continue(r, <<SumRows(c)>>) \/ (hit # Miss /\ UseSum(r, c.acct, hit, c.use))
  BY DEF Lookup
<1>5. KeepsOwn(r)
  BY <1>1, <1>2, <1>3, <1>4, ContinueKeeps, UseSumKeeps, SmallSeqs, Zenon
<1>6. cache' \in [Procs -> [Accounts -> Balance \cup {Miss}]]
  <2>1. cache \in [Procs -> [Accounts -> Balance \cup {Miss}]]
    BY DEF IInv, TypeOK
  <2>2. cache' = cache \/ cache' = [cache EXCEPT ![Home[r]][c.acct] = Miss]
    BY DEF Lookup
  <2>. QED  BY <2>1, <2>2
<1>7. DbKeeps /\ ptr' = ptr /\ SameIds
  BY SameDbKeeps DEF Lookup, IInv
<1>. QED  BY <1>5, <1>6, <1>7, Assembled DEF IInv, TypeOK

LEMMA FillCacheStep == IInv /\ (\E r \in Requests : FillCache(r)) => IInv'
<1>. SUFFICES ASSUME IInv, NEW r \in Requests, FillCache(r)
              PROVE  IInv'
  OBVIOUS
<1>. DEFINE c == Call(r)
<1>1. req[r].todo # <<>> /\ c.q = "fill" /\ c \in InnerCalls
  BY AtInner DEF FillCache
<1>2. c.acct \in Accounts /\ c.use \in Uses /\ c.seen \in Balance
  BY <1>1, LookupFields
<1>3. KeepsOwn(r)
  BY <1>1, <1>2, UseSumKeeps DEF FillCache
<1>4. cache' \in [Procs -> [Accounts -> Balance \cup {Miss}]]
  BY <1>2, Zenon DEF FillCache, IInv, TypeOK
<1>5. DbKeeps /\ ptr' = ptr /\ SameIds
  BY SameDbKeeps DEF FillCache, IInv
<1>. QED  BY <1>3, <1>4, <1>5, Assembled DEF IInv, TypeOK

LEMMA StatementKeeps ==
    ASSUME IInv, NEW r \in Requests, req[r].todo # <<>>, Call(r).q # "begin",
           Continue(r, <<>>) \/ Throw(r), DbKeeps, Otherwise
    PROVE  IInv'
<1>1. KeepsOwn(r)
  BY ContinueKeeps, ThrowKeeps, SmallSeqs, Zenon
<1>. QED  BY <1>1, AssembledOtherwise

LEMMA AtStatement ==
    ASSUME IInv, NEW r \in Requests, NEW q, q # "begin", Statement(r, q)
    PROVE  /\ req[r].todo # <<>> /\ Call(r).q = q
           /\ Call(r) \in InnerCalls
BY AtInner DEF Statement

LEMMA FindRowStep == IInv /\ (\E r \in Requests : FindRow(r)) => IInv'
<1>. SUFFICES ASSUME IInv, NEW r \in Requests, FindRow(r)
              PROVE  IInv'
  OBVIOUS
<1>. DEFINE c == Call(r)
            x == RowAt(req[r].on, c.id)
<1>1. req[r].todo # <<>> /\ c.q = "find" /\ c \in InnerCalls
  BY AtStatement DEF FindRow
<1>2. x \in Row \cup {NoRow}
  BY <1>1, FindFields, ReadTypes DEF IInv
<1>3. IF Refused(c, x) THEN Throw(r) ELSE Continue(r, AfterFind(c, x))
  BY DEF FindRow
<1>4. CASE Refused(c, x)
  BY <1>3, <1>4, ThrowKeeps, SameDbKeeps, AssembledOtherwise DEF FindRow, IInv
<1>5. CASE ~Refused(c, x)
  <2>1. AfterFind(c, x) \in Seq(InnerCalls)
    BY <1>1, <1>2, <1>5, AfterFindType
  <2>2. KeepsOwn(r)
    BY <1>1, <1>3, <1>5, <2>1, ContinueKeeps
  <2>. QED  BY <2>2, SameDbKeeps, AssembledOtherwise DEF FindRow, IInv
<1>. QED  BY <1>4, <1>5

LEMMA WriteRowStep == IInv /\ (\E r \in Requests : WriteRow(r)) => IInv'
<1>. SUFFICES ASSUME IInv, NEW r \in Requests, WriteRow(r)
              PROVE  IInv'
  OBVIOUS
<1>. DEFINE c == Call(r)
<1>1. req[r].todo # <<>> /\ c.q \in {"insert", "put"} /\ c \in InnerCalls
  BY AtStatement DEF WriteRow
<1>2. Write(req[r].on, [NoRows EXCEPT ![c.id] = c.row], NoBalances)
  BY DEF WriteRow
<1>3. [NoRows EXCEPT ![c.id] = c.row] \in [Txns -> Row \cup {NoRow, Same}]
  BY <1>1, StatementFields, DeltaType
<1>4. DbKeeps
  BY <1>2, <1>3, DeltaType, WriteKeeps, Zenon DEF IInv
<1>. QED  BY <1>1, <1>4, StatementKeeps DEF WriteRow

LEMMA RefuseRowStep == IInv /\ (\E r \in Requests : RefuseRow(r)) => IInv'
<1>. SUFFICES ASSUME IInv, NEW r \in Requests, RefuseRow(r)
              PROVE  IInv'
  OBVIOUS
<1>1. StatementFails(req[r].on) \/ UNCHANGED dbVars
  BY DEF RefuseRow
<1>2. DbKeeps
  BY <1>1, StatementFailsKeeps, SameDbKeeps DEF IInv
<1>. QED  BY <1>2, ThrowKeeps, AssembledOtherwise DEF RefuseRow

LEMMA RemoveRowStep == IInv /\ (\E r \in Requests : RemoveRow(r)) => IInv'
<1>. SUFFICES ASSUME IInv, NEW r \in Requests, RemoveRow(r)
              PROVE  IInv'
  OBVIOUS
<1>1. req[r].todo # <<>> /\ Call(r).q = "remove" /\ Call(r) \in InnerCalls
  BY AtStatement DEF RemoveRow
<1>2. [NoRows EXCEPT ![Call(r).id] = NoRow] \in [Txns -> Row \cup {NoRow, Same}]
  BY <1>1, StatementFields, DeltaType
<1>3. DbKeeps
  BY <1>2, DeltaType, WriteKeeps, Zenon DEF IInv, RemoveRow
<1>. QED  BY <1>1, <1>3, StatementKeeps DEF RemoveRow

LEMMA SumAccountStep == IInv /\ (\E r \in Requests : SumAccount(r)) => IInv'
<1>. SUFFICES ASSUME IInv, NEW r \in Requests, SumAccount(r)
              PROVE  IInv'
  OBVIOUS
<1>. DEFINE c == Call(r)
            b == SumAt(req[r].on, c.acct)
<1>1. req[r].todo # <<>> /\ c.q = "sum" /\ c \in InnerCalls
  BY AtStatement DEF SumAccount
<1>2. c.acct \in Accounts
  BY <1>1, LookupFields
<1>3. b \in Balance
  BY <1>2, ReadTypes DEF IInv
<1>4. Fill(c, b) \in InnerCalls
  BY <1>1, <1>3, LookupFields
<1>5. Continue(r, <<Fill(c, b)>>)
  BY DEF SumAccount
<1>6. KeepsOwn(r)
  BY <1>1, <1>4, <1>5, ContinueKeeps, SmallSeqs, Zenon
<1>. QED  BY <1>6, SameDbKeeps, AssembledOtherwise DEF SumAccount, IInv

\* The statements that write one balance: setbal, newacc, putacc.
LEMMA BalanceWriteKeeps ==
    ASSUME IInv, NEW t, NEW a \in Accounts, NEW b \in Balance \cup {Gone},
           \/ UNCHANGED dbVars
           \/ Write(t, NoRows, [NoBalances EXCEPT ![a] = b])
    PROVE  DbKeeps
<1>1. [NoBalances EXCEPT ![a] = b] \in [Accounts -> Balance \cup {Gone, Same}]
  BY DeltaType
<1>. QED  BY <1>1, DeltaType, WriteKeeps, SameDbKeeps, Zenon DEF IInv

LEMMA UpdateBalanceStep == IInv /\ (\E r \in Requests : UpdateBalance(r)) => IInv'
<1>. SUFFICES ASSUME IInv, NEW r \in Requests, UpdateBalance(r)
              PROVE  IInv'
  OBVIOUS
<1>1. req[r].todo # <<>> /\ Call(r).q = "setbal" /\ Call(r) \in InnerCalls
  BY AtStatement DEF UpdateBalance
<1>2. Call(r).acct \in Accounts /\ Call(r).bal \in Balance
  BY <1>1, StatementFields
<1>3. DbKeeps
  BY <1>2, BalanceWriteKeeps, Zenon DEF UpdateBalance
<1>. QED  BY <1>1, <1>3, StatementKeeps DEF UpdateBalance

LEMMA InsertAccountStep == IInv /\ (\E r \in Requests : InsertAccount(r)) => IInv'
<1>. SUFFICES ASSUME IInv, NEW r \in Requests, InsertAccount(r)
              PROVE  IInv'
  OBVIOUS
<1>1. req[r].todo # <<>> /\ Call(r).q = "newacc" /\ Call(r) \in InnerCalls
  BY AtStatement DEF InsertAccount
<1>2. Call(r).acct \in Accounts /\ Call(r).bal \in Balance
  BY <1>1, StatementFields
<1>3. DbKeeps
  BY <1>2, BalanceWriteKeeps, Zenon DEF InsertAccount
<1>. QED  BY <1>1, <1>3, StatementKeeps DEF InsertAccount

LEMMA WriteAccountStep == IInv /\ (\E r \in Requests : WriteAccount(r)) => IInv'
<1>. SUFFICES ASSUME IInv, NEW r \in Requests, WriteAccount(r)
              PROVE  IInv'
  OBVIOUS
<1>1. req[r].todo # <<>> /\ Call(r).q = "putacc" /\ Call(r) \in InnerCalls
  BY AtStatement DEF WriteAccount
<1>2. Call(r).acct \in Accounts /\ Call(r).bal \in Balance
  BY <1>1, StatementFields
<1>3. DbKeeps
  BY <1>2, BalanceWriteKeeps, Zenon DEF WriteAccount
<1>4. Continue(r, <<>>) \/ Throw(r)
  BY DEF WriteAccount
<1>. QED  BY <1>1, <1>3, <1>4, StatementKeeps DEF WriteAccount

LEMMA ReadAccountStep == IInv /\ (\E r \in Requests : ReadAccount(r)) => IInv'
<1>. SUFFICES ASSUME IInv, NEW r \in Requests, ReadAccount(r)
              PROVE  IInv'
  OBVIOUS
<1>. DEFINE c == Call(r)
            b == BalAt(req[r].on, c.acct)
            more == CASE c.use = "rename" -> <<PutAccount(c.acct, b)>>
                      [] c.use = "retype" -> <<PutAccount(c.acct, Typed)>>
                      [] c.use = "delete" -> <<RemoveAccount(c.acct)>>
                      [] OTHER -> <<>>
<1>1. req[r].todo # <<>> /\ c.q = "findacc" /\ c \in InnerCalls
  BY AtStatement DEF ReadAccount
<1>2. c.acct \in Accounts
  BY <1>1, StatementFields
<1>3. b \in Balance \cup {Gone} /\ Typed \in Balance
  BY <1>2, ReadTypes DEF IInv, Typed, Balance
<1>4. Throw(r) \/ (b # Gone /\ Continue(r, more))
  BY DEF ReadAccount
<1>5. b # Gone => more \in Seq(InnerCalls)
  <2>. SUFFICES ASSUME b \in Balance PROVE more \in Seq(InnerCalls)
    BY <1>3
  <2>1. /\ PutAccount(c.acct, b) \in InnerCalls /\ PutAccount(c.acct, Typed) \in InnerCalls
        /\ RemoveAccount(c.acct) \in InnerCalls
    BY <1>2, <1>3, AccountCalls
  <2>. HIDE DEF b
  <2>. QED  BY <2>1
<1>. HIDE DEF more
<1>6. KeepsOwn(r)
  BY <1>1, <1>4, <1>5, ContinueKeeps, ThrowKeeps
<1>. QED  BY <1>6, SameDbKeeps, AssembledOtherwise DEF ReadAccount, IInv

LEMMA CheckLimitStep == IInv /\ (\E r \in Requests : CheckLimit(r)) => IInv'
<1>. SUFFICES ASSUME IInv, NEW r \in Requests, CheckLimit(r)
              PROVE  IInv'
  OBVIOUS
<1>1. req[r].todo # <<>> /\ Call(r).q = "count"
  BY AtStatement DEF CheckLimit
<1>. QED  BY <1>1, SameDbKeeps, StatementKeeps DEF CheckLimit, IInv

LEMMA DeleteAccountRowStep == IInv /\ (\E r \in Requests : DeleteAccountRow(r)) => IInv'
<1>. SUFFICES ASSUME IInv, NEW r \in Requests, DeleteAccountRow(r)
              PROVE  IInv'
  OBVIOUS
<1>. DEFINE c == Call(r)
            t == req[r].on
            dr == [i \in Txns |-> IF i \in RowsOf(t, c.acct) THEN NoRow ELSE Same]
            db == [NoBalances EXCEPT ![c.acct] = Gone]
<1>1. req[r].todo # <<>> /\ c.q = "delacc" /\ c \in InnerCalls
  BY AtStatement DEF DeleteAccountRow
<1>2. dr \in [Txns -> Row \cup {NoRow, Same}] /\ db \in [Accounts -> Balance \cup {Gone, Same}]
  BY <1>1, StatementFields, DeltaType
<1>3. Write(t, dr, db)
  BY DEF DeleteAccountRow
<1>. HIDE DEF dr, db
<1>4. DbKeeps
  BY <1>2, <1>3, WriteKeeps DEF IInv
<1>. QED  BY <1>1, <1>4, StatementKeeps DEF DeleteAccountRow

LEMMA FailStep == IInv /\ (\E r \in Requests : Fail(r)) => IInv'
<1>. SUFFICES ASSUME IInv, NEW r \in Requests, Fail(r)
              PROVE  IInv'
  OBVIOUS
<1>1. DbKeeps
  BY StatementFailsKeeps DEF Fail, IInv
<1>. QED  BY <1>1, ThrowKeeps, AssembledOtherwise DEF Fail

LEMMA BeginTransactionStep == IInv /\ (\E r \in Requests : BeginTransaction(r)) => IInv'
<1>. SUFFICES ASSUME IInv, NEW r \in Requests, NEW c \in Clients, BeginTransaction(r),
                     LET p == [k \in Repos |-> IF k \in Call(r).repos THEN c ELSE ptr[Home[r]][k]]
                     IN  /\ CheckOut(r, c)
                         /\ ptr' = [ptr EXCEPT ![Home[r]] = p]
                         /\ GoOn(r, c, Tail(req[r].todo), p)
              PROVE  IInv'
  BY Zenon DEF BeginTransaction
<1>. DEFINE old == req[r].todo
            p   == [k \in Repos |-> IF k \in Call(r).repos THEN c ELSE ptr[Home[r]][k]]
<1>1. old # <<>> /\ Call(r).q = "begin" /\ TypeOK /\ BeginsOnce /\ ErrInside /\ PoolDiscipline
  BY DEF BeginTransaction, At, IInv
<1>2. old \in Seq(Calls) /\ Call(r) = old[1] /\ Tail(old) \in Seq(Calls)
  BY <1>1, HeadIsCall
<1>3. req[r].own = Pool /\ \A l \in 1..Len(old) : l # 1 => old[l].q # "begin"
  BY <1>1, <1>2 DEF BeginsOnce
<1>4. p \in [Repos -> Targets] /\ c \in Clients \cup {Pool}
  BY <1>1, PointersOf DEF Targets
<1>5. /\ req' \in [Requests -> ReqType]
      /\ \A s \in Requests \ {r} : req'[s] = req[s]
      /\ req'[r].todo = Tail(old) /\ req'[r].own = c /\ req'[r].err = FALSE
  BY <1>1, <1>2, <1>4, GoOnType, Zenon
<1>6. /\ lease[c] = Free /\ lease' = [lease EXCEPT ![c] = r]
      /\ tx' = [tx EXCEPT ![c].state = "open"] /\ UNCHANGED <<row, bal>>
  BY DEF CheckOut
<1>7. TypeOK'
  <2>1. DbTypeOK'
    BY <1>1, <1>6, Zenon DEF TypeOK, DbTypeOK, Session
  <2>2. ptr' \in [Procs -> [Repos -> Targets]]
    BY <1>1, <1>4, Zenon DEF TypeOK
  <2>3. UNCHANGED <<cache, mate, opening>>
    BY DEF BeginTransaction, SameIds
  <2>. QED  BY <1>1, <1>5, <2>1, <2>2, <2>3 DEF TypeOK
<1>8. BeginsOnce'
  <2>1. \A l \in 1..Len(Tail(old)) : Tail(old)[l].q # "begin"
    <3>. SUFFICES ASSUME NEW l \in 1..Len(Tail(old))
                  PROVE  Tail(old)[l].q # "begin"
      OBVIOUS
    <3>. HIDE DEF old
    <3>1. old # <<>> /\ old \in Seq(Calls)
      BY <1>1, <1>2
    <3>2. Len(Tail(old)) = Len(old) - 1 /\ Len(old) \in Nat
      BY <3>1
    <3>3. Tail(old)[l] = old[l + 1]
      BY <3>1, <3>2
    <3>4. l + 1 \in 1..Len(old) /\ l + 1 # 1
      BY <3>2
    <3>. QED  BY <1>3, <3>3, <3>4
  <2>2. \A k \in 1..Len(req'[r].todo) : req'[r].todo[k].q # "begin"
    BY <1>5, <2>1
  <2>3. \A s \in Requests \ {r} : req'[s] = req[s]
    BY <1>5
  <2>. HIDE DEF old
  <2>. QED  BY <1>1, <2>2, <2>3 DEF BeginsOnce
<1>9. ErrInside'
  BY <1>1, <1>5 DEF ErrInside
<1>10. PoolDiscipline'
  <2>1. \A d \in Clients : d # c => lease'[d] = lease[d] /\ tx'[d] = tx[d]
    BY <1>1, <1>6 DEF TypeOK, DbTypeOK
  <2>2. lease'[c] = r /\ r # Free
    BY <1>1, <1>6, Sentinels DEF TypeOK, DbTypeOK
  <2>3. \A s \in Requests : req[s].own # c
    BY <1>1, <1>6, Sentinels DEF PoolDiscipline
  <2>. QED  BY <1>1, <1>3, <1>5, <2>1, <2>2, <2>3, TargetsDiffer DEF PoolDiscipline
<1>. QED  BY <1>7, <1>8, <1>9, <1>10 DEF IInv

LEMMA ReleaseKeeps ==
    ASSUME IInv, NEW r \in Requests, req[r].own # Pool,
           lease' = [lease EXCEPT ![req[r].own] = Free],
           tx' = [tx EXCEPT ![req[r].own] = Autocommit],
           row' \in [Txns -> Row \cup {NoRow}], bal' \in [Accounts -> Balance \cup {Gone}],
           GoOn(r, Pool, <<>>, ptr[Home[r]]), Otherwise
    PROVE  IInv'
<1>. DEFINE c == req[r].own
<1>1. /\ TypeOK /\ BeginsOnce /\ ErrInside /\ PoolDiscipline
      /\ c \in Clients /\ lease[c] = r
  BY DEF IInv, TypeOK, ReqType, PoolDiscipline
<1>2. <<>> \in Seq(Calls) /\ Pool \in Clients \cup {Pool}
  OBVIOUS
<1>3. /\ req' \in [Requests -> ReqType]
      /\ \A s \in Requests \ {r} : req'[s] = req[s]
      /\ req'[r].todo = <<>> /\ req'[r].own = Pool /\ req'[r].err = FALSE
  BY <1>1, <1>2, PointersOf, GoOnType, Zenon
<1>4. TypeOK'
  <2>1. DbTypeOK'
    BY <1>1, AutocommitType DEF TypeOK, DbTypeOK
  <2>. QED  BY <1>1, <1>3, <2>1 DEF TypeOK, Otherwise, SameIds
<1>5. BeginsOnce' /\ ErrInside'
  BY <1>1, <1>3 DEF BeginsOnce, ErrInside
<1>6. PoolDiscipline'
  <2>1. \A d \in Clients : d # c => lease'[d] = lease[d] /\ tx'[d] = tx[d]
    BY <1>1 DEF TypeOK, DbTypeOK
  <2>2. lease'[c] = Free /\ tx'[c] = Autocommit
    BY <1>1 DEF TypeOK, DbTypeOK
  <2>3. \A s \in Requests : s # r => req[s].own # c
    BY <1>1 DEF PoolDiscipline
  <2>. QED  BY <1>1, <1>3, <2>1, <2>2, <2>3, Sentinels, TargetsDiffer DEF PoolDiscipline
<1>. QED  BY <1>4, <1>5, <1>6 DEF IInv

LEMMA CommitStep == IInv /\ (\E r \in Requests : Commit(r)) => IInv'
<1>. SUFFICES ASSUME IInv, NEW r \in Requests, Commit(r)
              PROVE  IInv'
  OBVIOUS
<1>1. DbTypeOK /\ req[r].own \in Clients /\ CommitAndRelease(req[r].own)
  BY DEF IInv, TypeOK, ReqType, Commit
<1>2. row' \in [Txns -> Row \cup {NoRow}] /\ bal' \in [Accounts -> Balance \cup {Gone}]
  <2>1. tx[req[r].own] \in Session
    BY <1>1 DEF DbTypeOK
  <2>2. /\ Over(row, tx[req[r].own].row) \in [Txns -> Row \cup {NoRow}]
        /\ Over(bal, tx[req[r].own].bal) \in [Accounts -> Balance \cup {Gone}]
    BY <1>1, <2>1, OverType, Zenon DEF DbTypeOK, Session
  <2>. QED  BY <1>1, <2>2 DEF CommitAndRelease, DbTypeOK
<1>. QED  BY <1>1, <1>2, ReleaseKeeps, Zenon DEF Commit, CommitAndRelease

LEMMA RollbackStep == IInv /\ (\E r \in Requests : Rollback(r)) => IInv'
<1>. SUFFICES ASSUME IInv, NEW r \in Requests, Rollback(r)
              PROVE  IInv'
  OBVIOUS
<1>1. req[r].own # Pool /\ RollBackAndRelease(req[r].own)
  BY DEF IInv, ErrInside, Rollback
<1>2. row' \in [Txns -> Row \cup {NoRow}] /\ bal' \in [Accounts -> Balance \cup {Gone}]
  BY <1>1 DEF RollBackAndRelease, IInv, TypeOK, DbTypeOK
<1>. QED  BY <1>1, <1>2, ReleaseKeeps, Zenon DEF Rollback, RollBackAndRelease

LEMMA ExpireStep == IInv /\ (\E p \in Procs, a \in Accounts : Expire(p, a)) => IInv'
<1>. SUFFICES ASSUME IInv, NEW p \in Procs, NEW a \in Accounts, Expire(p, a)
              PROVE  IInv'
  OBVIOUS
<1>1. cache' \in [Procs -> [Accounts -> Balance \cup {Miss}]]
  BY DEF Expire, IInv, TypeOK
<1>2. UNCHANGED <<dbVars, req, ptr>> /\ SameIds
  BY DEF Expire
<1>. QED  BY <1>1, <1>2 DEF IInv, TypeOK, DbTypeOK, BeginsOnce, ErrInside, PoolDiscipline, SameIds, dbVars

LEMMA CloseIdleStep == IInv /\ (\E c \in Clients : CloseIdle(c)) => IInv'
<1>. SUFFICES ASSUME IInv, NEW c \in Clients, CloseIdle(c)
              PROVE  IInv'
  OBVIOUS
<1>1. ptr \in [Procs -> [Repos -> Targets]] /\ Home[c] \in Procs
  BY HomeType DEF IInv, TypeOK
<1>2. ptr' = [ptr EXCEPT ![Home[c]] = [k \in Repos |-> IF ptr[Home[c]][k] = c THEN Dead ELSE ptr[Home[c]][k]]]
  BY <1>1 DEF CloseIdle
<1>3. ptr' \in [Procs -> [Repos -> Targets]]
  BY <1>1, <1>2 DEF Targets
<1>4. UNCHANGED <<dbVars, req, cache>> /\ SameIds
  BY DEF CloseIdle
<1>. QED  BY <1>3, <1>4 DEF IInv, TypeOK, DbTypeOK, BeginsOnce, ErrInside, PoolDiscipline, SameIds, dbVars

-----------------------------------------------------------------------------
(* Accepting a request.                                                    *)

BeginsAtMostOnce(calls) ==
    \A k, l \in 1..Len(calls) : calls[k].q = "begin" /\ calls[l].q = "begin" => k = l

\* A service method: what a request may be given to do.
Program(calls) == calls \in Seq(Calls) /\ BeginsAtMostOnce(calls)

LEMMA AcceptKeeps ==
    ASSUME IInv, NEW r \in Requests, NEW route, NEW calls, Program(calls),
           Accept(r, route, calls),
           mate' \in [Txns -> Txns \cup {Unborn, Single}],
           opening' \in [Accounts -> Txns \cup {Unborn, Single}]
    PROVE  IInv'
<1>1. TypeOK /\ BeginsOnce /\ ErrInside /\ PoolDiscipline /\ req[r].own = Pool
  BY DEF IInv, Accept, Idle
<1>2. calls \in Seq(Calls) /\ Pool \in Clients \cup {Pool} /\ ptr[Home[r]] \in [Repos -> Targets]
  BY <1>1, PointersOf DEF Program
<1>3. GoOn(r, Pool, calls, ptr[Home[r]]) /\ UNCHANGED <<dbVars, ptr, cache>>
  BY DEF Accept
<1>4. /\ req' \in [Requests -> ReqType]
      /\ \A s \in Requests \ {r} : req'[s] = req[s]
      /\ req'[r].todo = calls /\ req'[r].own = Pool /\ req'[r].err = FALSE
  BY <1>1, <1>2, <1>3, GoOnType, Zenon
<1>5. TypeOK'
  BY <1>1, <1>3, <1>4 DEF TypeOK, DbTypeOK, dbVars
<1>6. BeginsOnce'
  <2>1. \A k, l \in 1..Len(req'[r].todo) :
           l # k /\ req'[r].todo[k].q = "begin" => req'[r].todo[l].q # "begin"
    BY <1>4 DEF Program, BeginsAtMostOnce
  <2>. QED  BY <1>1, <1>4, <2>1 DEF BeginsOnce
<1>7. ErrInside' /\ PoolDiscipline'
  BY <1>1, <1>3, <1>4 DEF ErrInside, PoolDiscipline, dbVars
<1>. QED  BY <1>5, <1>6, <1>7 DEF IInv

LEMMA BeginIsCall ==
    \A S \in SUBSET Repos : Begin(S) \in Calls /\ Begin(S).q = "begin"
BY OtherCalls, Zenon DEF Begin

LEMMA ProgramShapes ==
    /\ \A c \in InnerCalls : Program(<<c>>)
    /\ \A b \in Calls, c \in InnerCalls : Program(<<b, c>>)
    /\ \A b \in Calls, c, d, e \in InnerCalls : Program(<<b, c, d, e>>)
    /\ \A b \in Calls, c, d \in InnerCalls : Program(<<c, b, d>>)
    /\ \A b \in Calls, c, d, e, f, g \in InnerCalls : Program(<<c, b, d, e, f, g>>)
    /\ \A b \in Calls, c, d, e, f, g, h, i, j \in InnerCalls : Program(<<c, d, e, b, f, g, h, i, j>>)
BY InnerIsNotBegin DEF Program, BeginsAtMostOnce

LEMMA RowPrograms ==
    ASSUME NEW i \in Txns, NEW j \in Txns
    PROVE  /\ \A a \in Accounts, m \in Amounts, links \in SUBSET Txns :
                 Program(CreateTransaction(i, a, m, links))
           /\ \A e \in Edits : Program(UpdateTransaction(i, e))
           /\ Program(DeleteTransaction(i))
           /\ Program(LinkTransaction(i, j))
           /\ Program(UnlinkTransaction(i, j))
<1>1. Begin({"trx", "acc"}) \in Calls
  BY OtherCalls DEF Repos
<1>2. ASSUME NEW a \in Accounts, NEW m \in Amounts, NEW links \in SUBSET Txns
      PROVE  Program(CreateTransaction(i, a, m, links))
  <2>1. NewRow(a, m, links) \in Row
    BY DEF NewRow, Row
  <2>2. /\ Insert(i, NewRow(a, m, links), "trx") \in InnerCalls
        /\ SaveBalance(a) \in InnerCalls /\ ForEach(links, "linkBack", i) \in InnerCalls
    BY <2>1, RowCalls, AccountCalls, LoopCalls
  <2>. QED  BY <1>1, <2>2, ProgramShapes DEF CreateTransaction
<1>3. \A e \in Edits : Find(i, "edit", e) \in InnerCalls
  BY FindCalls
<1>4. /\ Find(i, "delete", i) \in InnerCalls /\ Find(i, "linkFrom", j) \in InnerCalls
      /\ Find(i, "unlinkFrom", j) \in InnerCalls
  BY FindCalls
<1>. QED  BY <1>1, <1>2, <1>3, <1>4, ProgramShapes
          DEF UpdateTransaction, DeleteTransaction, LinkTransaction, UnlinkTransaction

LEMMA TransferProgram ==
    ASSUME NEW w \in Txns, NEW d \in Txns, NEW from \in Accounts, NEW to \in Accounts,
           NEW m \in Amounts, NEW n \in Amounts
    PROVE  Program(Transfer(w, d, from, to, m, n))
<1>1. NewRow(from, m, {}) \in Row /\ NewRow(to, n, {w}) \in Row /\ NewRow(from, m, {d}) \in Row
  BY DEF NewRow, Row
<1>2. /\ Insert(w, NewRow(from, m, {}), "trx") \in InnerCalls
      /\ Insert(d, NewRow(to, n, {w}), "trx") \in InnerCalls
      /\ Put(w, NewRow(from, m, {d})) \in InnerCalls
  BY <1>1, RowCalls
<1>3. /\ FindAccount(from, "acc", "exists") \in InnerCalls
      /\ FindAccount(to, "acc", "exists") \in InnerCalls
      /\ Stats(from, "trx", FALSE, "check") \in InnerCalls
      /\ SaveBalance(from) \in InnerCalls /\ SaveBalance(to) \in InnerCalls
  BY AccountCalls, Zenon DEF Uses
<1>4. Begin({"trx", "acc"}) \in Calls
  BY OtherCalls DEF Repos
<1>. QED  BY <1>2, <1>3, <1>4, ProgramShapes, Zenon DEF Transfer

LEMMA AccountPrograms ==
    ASSUME NEW a \in Accounts
    PROVE  /\ Program(GetAccountStats(a))
           /\ \A i \in Txns, m \in Amounts : Program(CreateAccount(a, i, m))
           /\ Program(CreateEmptyAccount(a))
           /\ \A b \in {"rename", "retype"} : Program(UpdateAccount(a, b))
           /\ Program(DeleteAccount(a))
<1>1. /\ Begin({"ctl"}) \in Calls /\ Aim({"ctl"}) \in InnerCalls
      /\ CountAccounts \in InnerCalls
  BY OtherCalls DEF Repos
<1>2. /\ Stats(a, "trx", FALSE, "show") \in InnerCalls /\ Stats(a, "own", TRUE, "ctl") \in InnerCalls
      /\ FindAccount(a, "pool", "delete") \in InnerCalls
      /\ \A b \in {"rename", "retype"} : FindAccount(a, "pool", b) \in InnerCalls
  BY AccountCalls, Zenon DEF Uses, Repos
<1>3. ASSUME NEW i \in Txns, NEW m \in Amounts
      PROVE  Program(CreateAccount(a, i, m))
  <2>1. SumOf({<<i, m>>}) \in Balance
    BY DEF SumOf, Balance, Entries
  <2>2. NewAccount(a, SumOf({<<i, m>>})) \in InnerCalls
    BY <2>1, AccountCalls
  <2>3. NewRow(a, m, {}) \in Row
    BY DEF NewRow, Row
  <2>4. Insert(i, NewRow(a, m, {}), "own") \in InnerCalls
    BY <2>3, RowCalls
  <2>. QED  BY <1>1, <1>2, <2>2, <2>4, ProgramShapes, Zenon DEF CreateAccount
<1>4. NewAccount(a, SumOf({})) \in InnerCalls
  <2>1. SumOf({}) \in Balance
    BY DEF SumOf, Balance
  <2>. QED  BY <2>1, AccountCalls
<1>. QED  BY <1>1, <1>2, <1>3, <1>4, ProgramShapes, Zenon
          DEF GetAccountStats, CreateEmptyAccount, UpdateAccount, DeleteAccount

LEMMA AcceptStep == IInv /\ (\E r \in Requests : AcceptRequest(r)) => IInv'
<1>. SUFFICES ASSUME IInv, NEW r \in Requests, AcceptRequest(r)
              PROVE  IInv'
  OBVIOUS
<1>. DEFINE Ids == /\ mate' \in [Txns -> Txns \cup {Unborn, Single}]
                   /\ opening' \in [Accounts -> Txns \cup {Unborn, Single}]
<1>1. mate \in [Txns -> Txns \cup {Unborn, Single}] /\ opening \in [Accounts -> Txns \cup {Unborn, Single}]
  BY DEF IInv, TypeOK
<1>2. CASE AcceptCreate(r)
  <2>1. PICK i \in Txns, a \in Accounts, m \in Amounts, links \in SUBSET Txns :
           Bear(i) /\ UNCHANGED opening /\ Accept(r, "create", CreateTransaction(i, a, m, links))
    BY <1>2 DEF AcceptCreate
  <2>2. Ids
    BY <1>1, <2>1 DEF Bear
  <2>3. Program(CreateTransaction(i, a, m, links))
    BY RowPrograms
  <2>. QED  BY <2>1, <2>2, <2>3, AcceptKeeps
<1>3. CASE AcceptUpdate(r)
  <2>1. PICK i \in Txns, e \in Edits : Accept(r, "update", UpdateTransaction(i, e)) /\ SameIds
    BY <1>3 DEF AcceptUpdate
  <2>2. Program(UpdateTransaction(i, e))
    BY RowPrograms
  <2>. QED  BY <1>1, <2>1, <2>2, AcceptKeeps DEF SameIds
<1>4. CASE AcceptDelete(r)
  <2>1. PICK i \in Txns : Accept(r, "delete", DeleteTransaction(i)) /\ SameIds
    BY <1>4 DEF AcceptDelete
  <2>2. Program(DeleteTransaction(i))
    BY RowPrograms
  <2>. QED  BY <1>1, <2>1, <2>2, AcceptKeeps DEF SameIds
<1>5. CASE AcceptLink(r)
  <2>1. PICK i \in Txns, j \in Txns : Accept(r, "link", LinkTransaction(i, j)) /\ SameIds
    BY <1>5 DEF AcceptLink
  <2>2. Program(LinkTransaction(i, j))
    BY RowPrograms
  <2>. QED  BY <1>1, <2>1, <2>2, AcceptKeeps DEF SameIds
<1>6. CASE AcceptUnlink(r)
  <2>1. PICK i \in Txns, j \in Txns : Accept(r, "unlink", UnlinkTransaction(i, j)) /\ SameIds
    BY <1>6 DEF AcceptUnlink
  <2>2. Program(UnlinkTransaction(i, j))
    BY RowPrograms
  <2>. QED  BY <1>1, <2>1, <2>2, AcceptKeeps DEF SameIds
<1>7. CASE AcceptTransfer(r)
  <2>1. PICK w \in Txns, d \in Txns, from \in Accounts, to \in Accounts, m \in Amounts, n \in Amounts :
           /\ mate' = [mate EXCEPT ![w] = d, ![d] = w] /\ UNCHANGED opening
           /\ Accept(r, "transfer", Transfer(w, d, from, to, m, n))
    BY <1>7, Zenon DEF AcceptTransfer
  <2>2. Ids
    BY <1>1, <2>1
  <2>3. Program(Transfer(w, d, from, to, m, n))
    BY TransferProgram
  <2>. QED  BY <2>1, <2>2, <2>3, AcceptKeeps
<1>8. CASE AcceptGetStats(r)
  <2>1. PICK a \in Accounts : Accept(r, "stats", GetAccountStats(a)) /\ SameIds
    BY <1>8 DEF AcceptGetStats
  <2>2. Program(GetAccountStats(a))
    BY AccountPrograms
  <2>. QED  BY <1>1, <2>1, <2>2, AcceptKeeps DEF SameIds
<1>9. CASE AcceptCreateAccount(r)
  <2>1. PICK a \in Accounts :
           \/ \E i \in Txns, m \in Amounts : /\ Bear(i) /\ opening' = [opening EXCEPT ![a] = i]
                                             /\ Accept(r, "createAccount", CreateAccount(a, i, m))
           \/ /\ opening' = [opening EXCEPT ![a] = Single] /\ UNCHANGED mate
              /\ Accept(r, "createAccount", CreateEmptyAccount(a))
    BY <1>9 DEF AcceptCreateAccount
  <2>2. ASSUME NEW i \in Txns, NEW m \in Amounts, Bear(i), opening' = [opening EXCEPT ![a] = i],
               Accept(r, "createAccount", CreateAccount(a, i, m))
        PROVE  IInv'
    <3>1. Ids
      BY <1>1, <2>2 DEF Bear
    <3>2. Program(CreateAccount(a, i, m))
      BY AccountPrograms
    <3>. QED  BY <2>2, <3>1, <3>2, AcceptKeeps
  <2>3. ASSUME opening' = [opening EXCEPT ![a] = Single], UNCHANGED mate,
               Accept(r, "createAccount", CreateEmptyAccount(a))
        PROVE  IInv'
    <3>1. Ids
      BY <1>1, <2>3
    <3>2. Program(CreateEmptyAccount(a))
      BY AccountPrograms
    <3>. QED  BY <2>3, <3>1, <3>2, AcceptKeeps
  <2>. QED  BY <2>1, <2>2, <2>3
<1>10. CASE AcceptUpdateAccount(r)
  <2>1. PICK a \in Accounts, b \in {"rename", "retype"} :
           /\ Accept(r, IF b = "rename" THEN "renameAccount" ELSE "typeBalance", UpdateAccount(a, b))
           /\ SameIds
    BY <1>10 DEF AcceptUpdateAccount
  <2>2. Program(UpdateAccount(a, b))
    BY AccountPrograms
  <2>. QED  BY <1>1, <2>1, <2>2, AcceptKeeps DEF SameIds
<1>11. CASE AcceptDeleteAccount(r)
  <2>1. PICK a \in Accounts : Accept(r, "deleteAccount", DeleteAccount(a)) /\ SameIds
    BY <1>11 DEF AcceptDeleteAccount
  <2>2. Program(DeleteAccount(a))
    BY AccountPrograms
  <2>. QED  BY <1>1, <2>1, <2>2, AcceptKeeps DEF SameIds
<1>. QED  BY <1>2, <1>3, <1>4, <1>5, <1>6, <1>7, <1>8, <1>9, <1>10, <1>11 DEF AcceptRequest

-----------------------------------------------------------------------------
(* The theorems.                                                           *)

LEMMA InitKeeps == Init => IInv
<1>. SUFFICES ASSUME Init
              PROVE  IInv
  OBVIOUS
<1>1. <<>> \in Seq(Calls) /\ SumOf({}) \in Balance
  BY DEF SumOf, Balance
<1>2. DbTypeOK
  BY <1>1, AutocommitType DEF Init, DbInit, DbTypeOK
<1>3. req \in [Requests -> ReqType]
  BY <1>1 DEF Init, ReqType, Targets
<1>4. TypeOK
  BY <1>2, <1>3, Zenon DEF Init, TypeOK, Targets
<1>5. BeginsOnce /\ ErrInside
  BY DEF Init, BeginsOnce, ErrInside
<1>6. PoolDiscipline
  BY Sentinels, TargetsDiffer DEF Init, DbInit, PoolDiscipline
<1>. QED  BY <1>4, <1>5, <1>6 DEF IInv

LEMMA StepKeeps == IInv /\ [Next]_vars => IInv'
<1>. SUFFICES ASSUME IInv, [Next]_vars
              PROVE  IInv'
  OBVIOUS
<1>1. CASE UNCHANGED vars
  BY <1>1 DEF IInv, TypeOK, DbTypeOK, BeginsOnce, ErrInside, PoolDiscipline, vars, dbVars
<1>2. CASE \E r \in Requests : AcceptRequest(r)
  BY <1>2, AcceptStep
<1>3. CASE \E r \in Requests : Progress(r)
  BY <1>3, RunAimStep, RunForEachStep, LookupStep, FillCacheStep, BeginTransactionStep,
     FindRowStep, WriteRowStep, RefuseRowStep, RemoveRowStep, SumAccountStep, UpdateBalanceStep,
     ReadAccountStep, CheckLimitStep, InsertAccountStep, WriteAccountStep, DeleteAccountRowStep,
     CommitStep, RollbackStep, FailStep
     DEF Progress, Serve
<1>4. CASE \E p \in Procs, a \in Accounts : Expire(p, a)
  BY <1>4, ExpireStep
<1>5. CASE \E c \in Clients : CloseIdle(c)
  BY <1>5, CloseIdleStep
<1>. QED  BY <1>1, <1>2, <1>3, <1>4, <1>5 DEF Next

LEMMA InvariantHolds == Spec => []IInv
BY InitKeeps, StepKeeps, PTL DEF Spec

\* Every variable keeps its type: in particular the calls a request has left are
\* always calls the services make, whatever rows it has read on the way.
THEOREM TypeCorrect == Spec => []TypeOK
<1>1. IInv => TypeOK
  BY DEF IInv
<1>. QED  BY InvariantHolds, <1>1, PTL

\* PostgresDatabase.transaction checks clients out and in correctly under every
\* interleaving, failure and nested transaction: a client has one owner, its owner
\* alone, and is clean when it goes back to the pool.
THEOREM PoolIsDisciplined == Spec => []PoolDiscipline
<1>1. IInv => PoolDiscipline
  BY DEF IInv
<1>. QED  BY InvariantHolds, <1>1, PTL

-----------------------------------------------------------------------------
(* One request to a process.                                               *)

\* No two requests share the repositories of a process.
OneEach == \A r, s \in Requests : Home[r] = Home[s] => r = s

\* The repositories of its process that point to the client of request r.
Aimed(r) == {k \in Repos : ptr[Home[r]][k] = req[r].own}

\* With the repositories S pointed to a client, call c runs on that client, and so
\* does whatever it is followed by.
Within(c, S) ==
    /\ c.via \in S \cup {"own", "-"}
    /\ c.q # "findacc"
    /\ c.q = "each" => "trx" \in S
    /\ c.q = "lookup" => c.on \in S \cup {"own"}
    /\ c.q \in {"lookup", "sum", "fill"} /\ c.use \in Repos => c.use \in S
    /\ c.q = "find" /\ c.how \in {"edit", "delete"} => "acc" \in S

AllWithin(calls, S) == \A l \in 1..Len(calls) : Within(calls[l], S)

\* What follows BEGIN in a list of calls is within what BEGIN points.
Enclosed(calls) ==
    \A k, l \in 1..Len(calls) :
        k < l /\ calls[k].q = "begin" => Within(calls[l], calls[k].repos)

\* The clients that request r can reach are those of its process.
AtHome(r) ==
    /\ \A k \in Repos : ptr[Home[r]][k] \in Clients => Home[ptr[Home[r]][k]] = Home[r]
    /\ req[r].on \in Clients => Home[req[r].on] = Home[r]
    /\ req[r].own \in Clients => Home[req[r].own] = Home[r]

Steady(r) ==
    /\ AtHome(r)
    /\ IF req[r].own = Pool THEN Enclosed(req[r].todo) ELSE AllWithin(req[r].todo, Aimed(r))
    /\ req[r].own # Pool /\ IsStatement(r) => req[r].on = req[r].own
    /\ req[r].own # Pool /\ ~req[r].err => tx[req[r].own].state = "open"

AInv == \A r \in Requests : Steady(r)

\* A step that touches nothing but request r, its process and the clients of that.
Touches(r) ==
    /\ \A s \in Requests \ {r} : req'[s] = req[s]
    /\ \A s \in Requests : Home[s] # Home[r] => ptr'[Home[s]] = ptr[Home[s]]
    /\ \A c \in Clients : Home[c] # Home[r] => tx'[c] = tx[c]

LEMMA OthersStaySteady ==
    ASSUME OneEach, IInv, AInv, NEW r \in Requests, Touches(r), Steady(r)'
    PROVE  AInv'
<1>. SUFFICES ASSUME NEW s \in Requests, s # r
              PROVE  Steady(s)'
  BY DEF AInv
<1>1. /\ Steady(s) /\ Home[s] # Home[r]
      /\ req'[s] = req[s] /\ ptr'[Home[s]] = ptr[Home[s]]
  BY DEF OneEach, AInv, Touches
<1>2. req[s].own \in Clients \cup {Pool}
  BY DEF IInv, TypeOK, ReqType
<1>3. req[s].own # Pool => tx'[req[s].own] = tx[req[s].own]
  BY <1>1, <1>2 DEF Steady, AtHome, Touches
<1>4. AtHome(s)' /\ Aimed(s)' = Aimed(s) /\ IsStatement(s)' = IsStatement(s)
  BY <1>1 DEF Steady, AtHome, Aimed, IsStatement, Call
<1>5. Enclosed(req[s].todo)' = Enclosed(req[s].todo)
  BY <1>1 DEF Enclosed, Within
<1>6. req[s].own # Pool => AllWithin(req[s].todo, Aimed(s))'
  <2>1. req[s].own # Pool => AllWithin(req[s].todo, Aimed(s))
    BY <1>1 DEF Steady
  <2>. QED  BY <1>1, <1>4, <2>1 DEF AllWithin, Within
<1>. QED  BY <1>1, <1>3, <1>4, <1>5, <1>6 DEF Steady

-----------------------------------------------------------------------------
(* What a call within S is followed by is within S.                        *)

LEMMA MoreWithin ==
    /\ \A c, S, T : Within(c, S) /\ S \subseteq T => Within(c, T)
    /\ \A S : AllWithin(<<>>, S)
    /\ \A c, S : Within(c, S) => AllWithin(<<c>>, S)
    /\ \A c, d, S : Within(c, S) /\ Within(d, S) => AllWithin(<<c, d>>, S)
BY DEF Within, AllWithin

\* The calls on rows need the repository of transactions, and those that save the
\* balance the repository of accounts as well.
LEMMA RowsWithin ==
    ASSUME NEW S \in SUBSET Repos, "trx" \in S
    PROVE  /\ \A i, x : Within(Put(i, x), S)
           /\ \A i : Within(Remove(i), S)
           /\ \A T, h, o : Within(ForEach(T, h, o), S)
           /\ \A i, h, x : h \notin {"edit", "delete"} => Within(Find(i, h, x), S)
           /\ Within(Aim({"trx"}), S)
           /\ "acc" \in S => \A a : Within(SaveBalance(a), S)
BY DEF Within, Put, Remove, ForEach, Find, Aim, SaveBalance, Stats

LEMMA AfterFindWithin ==
    ASSUME NEW S \in SUBSET Repos, NEW c \in InnerCalls, c.q = "find", Within(c, S), NEW x
    PROVE  AllWithin(AfterFind(c, x), S)
<1>1. "trx" \in S /\ (c.how \in {"edit", "delete"} => "acc" \in S)
  BY DEF InnerCalls, Within
<1>2. /\ \A i, y : Within(Put(i, y), S)
      /\ \A i : Within(Remove(i), S)
      /\ \A T, h, o : Within(ForEach(T, h, o), S)
      /\ \A i, h, y : h \notin {"edit", "delete"} => Within(Find(i, h, y), S)
      /\ Within(Aim({"trx"}), S)
      /\ "acc" \in S => \A a : Within(SaveBalance(a), S)
  BY <1>1, RowsWithin
<1>3. CASE c.how = "edit"
  <2>1. Within(Put(c.id, Edited(x, c.arg)), S) /\ Within(SaveBalance(x.acct), S)
        /\ Within(SaveBalance(c.arg.acct), S)
    BY <1>1, <1>2, <1>3
  <2>2. AllWithin(AfterEdit(c, x), S)
    BY <2>1 DEF AfterEdit, AllWithin
  <2>. QED  BY <1>3, <2>2 DEF AfterFind
<1>4. CASE c.how = "delete"
  <2>1. /\ Within(Aim({"trx"}), S) /\ Within(Find(c.id, "unlinkAll", c.id), S)
        /\ Within(Remove(c.id), S) /\ Within(SaveBalance(x.acct), S)
    BY <1>1, <1>2, <1>4
  <2>2. AllWithin(AfterDelete(c, x), S)
    BY <2>1 DEF AfterDelete, AllWithin
  <2>. QED  BY <1>4, <2>2 DEF AfterFind
<1>5. CASE c.how = "unlinkAll"
  <2>1. Within(Put(c.id, [x EXCEPT !.links = {}]), S) /\ Within(ForEach(x.links, "linkDrop", c.id), S)
    BY <1>2
  <2>2. AllWithin(AfterUnlinkAll(c, x), S)
    BY <2>1, MoreWithin DEF AfterUnlinkAll
  <2>. QED  BY <1>5, <2>2 DEF AfterFind
<1>6. CASE c.how = "linkFrom"
  <2>1. Within(Find(c.arg, "linkTo", [id |-> c.id, row |-> x]), S)
    BY <1>2
  <2>. QED  BY <1>6, <2>1, MoreWithin DEF AfterFind
<1>7. CASE c.how = "linkTo"
  <2>1. /\ Within(Put(c.arg.id, WithLink(c.arg.row, c.id)), S)
        /\ Within(Put(c.id, WithLink(x, c.arg.id)), S)
    BY <1>2
  <2>2. AllWithin(AfterLinkTo(c, x), S)
    BY <2>1 DEF AfterLinkTo, AllWithin
  <2>. QED  BY <1>7, <2>2 DEF AfterFind
<1>8. CASE c.how = "unlinkFrom"
  <2>1. /\ Within(Put(c.id, WithoutLink(x, c.arg)), S)
        /\ Within(Find(c.arg, "linkDrop", c.id), S)
    BY <1>2
  <2>. QED  BY <1>8, <2>1, MoreWithin DEF AfterFind
<1>9. CASE c.how \in {"linkBack", "linkDrop"}
  <2>1. Within(Put(c.id, WithLink(x, c.arg)), S) /\ Within(Put(c.id, WithoutLink(x, c.arg)), S)
    BY <1>2
  <2>. QED  BY <1>9, <2>1, MoreWithin DEF AfterFind
<1>10. c.how \in {"edit", "linkTo", "delete", "unlinkAll", "linkFrom", "unlinkFrom", "linkBack", "linkDrop"}
  BY FindFields
<1>. QED  BY <1>3, <1>4, <1>5, <1>6, <1>7, <1>8, <1>9, <1>10

-----------------------------------------------------------------------------
(* Going on.                                                               *)

LEMMA BoundHome ==
    ASSUME TypeOK, NEW r \in Requests, NEW c \in Calls, NEW own \in Clients \cup {Pool},
           NEW p \in [Repos -> Targets],
           own \in Clients => Home[own] = Home[r],
           \A k \in Repos : p[k] \in Clients => Home[p[k]] = Home[r],
           Bound(c, own, p) \in Clients
    PROVE  Home[Bound(c, own, p)] = Home[r]
BY TargetsDiffer DEF Bound

\* With calls within what is pointed to its client, a request issues the first there.
LEMMA BoundOwn ==
    ASSUME NEW c \in Calls, NEW own, NEW p \in [Repos -> Targets], NEW S \in SUBSET Repos,
           \A k \in S : p[k] = own, Within(c, S), c.via # "-"
    PROVE  Bound(c, own, p) = own
BY DEF Bound, Within, Repos

\* Request r goes on with the client it has, or none, and with more calls before the rest.
LEMMA GoesOnSteadily ==
    ASSUME IInv, NEW r \in Requests, Steady(r), req[r].todo # <<>>, Call(r).q # "begin",
           NEW more \in Seq(InnerCalls),
           NEW p \in [Repos -> Targets], ptr'[Home[r]] = p,
           \A k \in Repos : p[k] \in {req[r].own, ptr[Home[r]][k]},
           req[r].own # Pool => AllWithin(more, Aimed(r)),
           req[r].own # Pool => tx'[req[r].own].state = tx[req[r].own].state,
           GoOn(r, req[r].own, more \o Tail(req[r].todo), p)
    PROVE  Steady(r)'
<1>. DEFINE old == req[r].todo
            new == more \o Tail(old)
            own == req[r].own
<1>1. /\ TypeOK /\ ErrInside /\ old \in Seq(Calls) /\ Tail(old) \in Seq(Calls)
      /\ own \in Clients \cup {Pool} /\ more \in Seq(Calls)
  BY HeadIsCall, InnerIsNotBegin DEF IInv, ReqType
<1>2. new \in Seq(Calls)
  BY <1>1
<1>3. /\ req'[r].todo = new /\ req'[r].own = own /\ req'[r].err = FALSE /\ req[r].err = FALSE
      /\ req'[r].on = IF new = <<>> THEN Pool ELSE Bound(Head(new), own, p)
  <2>1. req'[r].todo = new /\ req'[r].own = own /\ req'[r].err = FALSE
    BY <1>1, <1>2, GoOnType, Zenon
  <2>2. r \in DOMAIN req
    BY <1>1 DEF TypeOK
  <2>3. req'[r].on = IF new = <<>> THEN Pool ELSE Bound(Head(new), own, p)
    BY <2>2, Zenon DEF GoOn
  <2>4. req[r].err = FALSE
    BY <1>1 DEF ErrInside, TypeOK, ReqType
  <2>. QED  BY <2>1, <2>3, <2>4
<1>4. \A l \in 1..Len(new) :
         \/ l \in 1..Len(more) /\ new[l] = more[l]
         \/ l > Len(more) /\ new[l] = old[l - Len(more) + 1]
            /\ l - Len(more) + 1 \in 1..Len(old)
  BY <1>1
<1>. HIDE DEF new
<1>5. \A k \in Repos : p[k] \in Clients => Home[p[k]] = Home[r]
  BY DEF Steady, AtHome
<1>6. AtHome(r)'
  <2>1. new # <<>> => Head(new) \in Calls
    BY <1>2
  <2>2. req'[r].on \in Clients => Home[req'[r].on] = Home[r]
    BY <1>1, <1>3, <1>5, <2>1, BoundHome, TargetsDiffer DEF Steady, AtHome
  <2>. QED  BY <1>3, <1>5, <2>2 DEF AtHome, Steady
<1>7. CASE own = Pool
  <2>1. Enclosed(old)
    BY <1>7 DEF Steady
  <2>2. Enclosed(new)
    <3>. SUFFICES ASSUME NEW k \in 1..Len(new), NEW l \in 1..Len(new), k < l, new[k].q = "begin"
                  PROVE  Within(new[l], new[k].repos)
      BY DEF Enclosed
    <3>1. Len(more) \in Nat /\ k \in Int /\ l \in Int /\ Len(old) \in Nat
      BY <1>1, <1>2
    <3>2. k \notin 1..Len(more) \/ new[k] # more[k]
      BY <1>1, InnerIsNotBegin
    <3>3. k > Len(more) /\ new[k] = old[k - Len(more) + 1] /\ k - Len(more) + 1 \in 1..Len(old)
      BY <1>4, <3>2
    <3>4. l > Len(more) /\ new[l] = old[l - Len(more) + 1] /\ l - Len(more) + 1 \in 1..Len(old)
      BY <1>4, <3>1, <3>3
    <3>5. k - Len(more) + 1 < l - Len(more) + 1
      BY <3>1
    <3>. QED  BY <2>1, <3>3, <3>4, <3>5, Zenon DEF Enclosed
  <2>. QED  BY <1>3, <1>6, <1>7, <2>2 DEF Steady, Enclosed, Within
<1>8. CASE own # Pool
  <2>1. AllWithin(old, Aimed(r)) /\ AllWithin(more, Aimed(r))
    BY <1>8 DEF Steady
  <2>2. Aimed(r) \subseteq Aimed(r)' /\ Aimed(r)' \in SUBSET Repos
    BY <1>3 DEF Aimed
  <2>3. ASSUME NEW l \in 1..Len(new)
        PROVE  Within(new[l], Aimed(r)')
    <3>1. Within(new[l], Aimed(r))
      BY <1>4, <2>1 DEF AllWithin
    <3>. HIDE DEF Aimed
    <3>. QED  BY <2>2, <3>1, MoreWithin
  <2>4. AllWithin(req[r].todo, Aimed(r))'
    BY <1>3, <2>3 DEF AllWithin, Within
  <2>5. IsStatement(r)' => req'[r].on = own
    <3>. SUFFICES ASSUME IsStatement(r)'
                  PROVE  req'[r].on = own
      OBVIOUS
    <3>1. new # <<>> /\ Head(new).via # "-"
      BY <1>3 DEF IsStatement, Call
    <3>2. Head(new) = new[1] /\ 1 \in 1..Len(new) /\ Head(new) \in Calls
      BY <1>2, <3>1
    <3>3. Within(Head(new), Aimed(r)')
      BY <2>3, <3>2
    <3>4. \A k \in Aimed(r)' : p[k] = own
      BY <1>3 DEF Aimed
    <3>. HIDE DEF own
    <3>5. Bound(Head(new), own, p) = own
      BY <2>2, <3>1, <3>2, <3>3, <3>4, BoundOwn
    <3>. QED  BY <1>3, <3>1, <3>5
  <2>6. tx'[own].state = "open"
    BY <1>3, <1>8 DEF Steady
  <2>. QED  BY <1>3, <1>6, <1>8, <2>4, <2>5, <2>6 DEF Steady
<1>. QED  BY <1>7, <1>8

LEMMA ContinuesSteadily ==
    ASSUME IInv, NEW r \in Requests, Steady(r), req[r].todo # <<>>, Call(r).q # "begin",
           NEW more \in Seq(InnerCalls), Continue(r, more), ptr' = ptr,
           req[r].own # Pool => AllWithin(more, Aimed(r)),
           req[r].own # Pool => tx'[req[r].own].state = tx[req[r].own].state
    PROVE  Steady(r)'
<1>1. ptr[Home[r]] \in [Repos -> Targets] /\ ptr'[Home[r]] = ptr[Home[r]]
  BY PointersOf DEF IInv
<1>. QED  BY <1>1, GoesOnSteadily DEF Continue

LEMMA ThrowsSteadily ==
    ASSUME IInv, NEW r \in Requests, Steady(r), Throw(r), ptr' = ptr
    PROVE  Steady(r)'
<1>1. /\ req'[r].todo = <<>> /\ req'[r].own = req[r].own
      /\ req'[r].err = (req[r].own # Pool) /\ req'[r].on = Pool
  BY DEF Throw, IInv, TypeOK
<1>2. Len(req'[r].todo) = 0
  BY <1>1
<1>3. Enclosed(req[r].todo)' /\ AllWithin(req[r].todo, Aimed(r))' /\ ~IsStatement(r)'
  BY <1>1, <1>2 DEF Enclosed, AllWithin, IsStatement
<1>4. AtHome(r)'
  BY <1>1, TargetsDiffer DEF Steady, AtHome
<1>5. req'[r].own # Pool => req'[r].err
  BY <1>1, Zenon
<1>. QED  BY <1>3, <1>4, <1>5 DEF Steady

-----------------------------------------------------------------------------
(* The database.                                                           *)

\* A statement of request r keeps the state of its own client, if it succeeds, and
\* touches no client of another process.
LEMMA WriteIsOwn ==
    ASSUME IInv, NEW r \in Requests, Steady(r), NEW dr, NEW db, Write(req[r].on, dr, db)
    PROVE  /\ \A c \in Clients : tx'[c].state = tx[c].state
           /\ \A c \in Clients : Home[c] # Home[r] => tx'[c] = tx[c]
<1>1. tx \in [Clients -> Session]
  BY DEF IInv, TypeOK, DbTypeOK
<1>2. CASE req[r].on \in Clients /\ tx[req[r].on].state = "open"
  <2>1. tx' = [tx EXCEPT ![req[r].on].row = Over(tx[req[r].on].row, dr),
                         ![req[r].on].bal = Over(tx[req[r].on].bal, db)]
    BY <1>1, <1>2 DEF Write
  <2>. QED  BY <1>1, <1>2, <2>1 DEF Session, Steady, AtHome
<1>3. CASE ~(req[r].on \in Clients /\ tx[req[r].on].state = "open")
  BY <1>3 DEF Write
<1>. QED  BY <1>2, <1>3

LEMMA FailureIsOwn ==
    ASSUME IInv, NEW r \in Requests, Steady(r), StatementFails(req[r].on)
    PROVE  \A c \in Clients : Home[c] # Home[r] => tx'[c] = tx[c]
<1>1. tx \in [Clients -> Session]
  BY DEF IInv, TypeOK, DbTypeOK
<1>. QED  BY <1>1 DEF StatementFails, Steady, AtHome

LEMMA OthersUntouched ==
    ASSUME NEW r \in Requests, \A s \in Requests \ {r} : req'[s] = req[s],
           ptr' = ptr, \A c \in Clients : Home[c] # Home[r] => tx'[c] = tx[c]
    PROVE  Touches(r)
BY DEF Touches

\* A statement that succeeds: what it is followed by is within what is pointed.
LEMMA StatementSteady ==
    ASSUME OneEach, IInv, AInv, NEW r \in Requests, req[r].todo # <<>>, Call(r).q # "begin",
           NEW more \in Seq(InnerCalls), Continue(r, more) \/ Throw(r), ptr' = ptr,
           \A S \in SUBSET Repos : Within(Call(r), S) => AllWithin(more, S),
           \A c \in Clients : tx'[c].state = tx[c].state,
           \A c \in Clients : Home[c] # Home[r] => tx'[c] = tx[c]
    PROVE  AInv'
<1>1. /\ Steady(r) /\ TypeOK /\ req[r].own \in Clients \cup {Pool}
      /\ req[r].todo \in Seq(Calls) /\ Call(r) = req[r].todo[1]
  BY HeadIsCall DEF AInv, IInv, ReqType
<1>2. req[r].own # Pool => AllWithin(more, Aimed(r))
  <2>. SUFFICES ASSUME req[r].own # Pool
                PROVE  AllWithin(more, Aimed(r))
    OBVIOUS
  <2>1. 1 \in 1..Len(req[r].todo)
    BY <1>1
  <2>2. Within(Call(r), Aimed(r))
    BY <1>1, <2>1 DEF Steady, AllWithin
  <2>. QED  BY <2>2 DEF Aimed
<1>3. req[r].own # Pool => tx'[req[r].own].state = tx[req[r].own].state
  BY <1>1
<1>4. Steady(r)'
  BY <1>1, <1>2, <1>3, ContinuesSteadily, ThrowsSteadily
<1>5. \A s \in Requests \ {r} : req'[s] = req[s]
  BY ContinueKeeps, ThrowKeeps DEF KeepsOwn
<1>. QED  BY <1>4, <1>5, OthersUntouched, OthersStaySteady

LEMMA QuietStatementSteady ==
    ASSUME OneEach, IInv, AInv, NEW r \in Requests, req[r].todo # <<>>, Call(r).q # "begin",
           NEW more \in Seq(InnerCalls), Continue(r, more) \/ Throw(r), ptr' = ptr, tx' = tx,
           \A S \in SUBSET Repos : Within(Call(r), S) => AllWithin(more, S)
    PROVE  AInv'
BY StatementSteady

LEMMA FailureSteady ==
    ASSUME OneEach, IInv, AInv, NEW r \in Requests, Throw(r), ptr' = ptr,
           \A c \in Clients : Home[c] # Home[r] => tx'[c] = tx[c]
    PROVE  AInv'
<1>1. Steady(r)'
  BY ThrowsSteadily DEF AInv
<1>2. \A s \in Requests \ {r} : req'[s] = req[s]
  BY ThrowKeeps DEF KeepsOwn
<1>. QED  BY <1>1, <1>2, OthersUntouched, OthersStaySteady

-----------------------------------------------------------------------------
(* Every step is steady.                                                   *)

LEMMA WritesSteady ==
    ASSUME OneEach, IInv, AInv, NEW r \in Requests, req[r].todo # <<>>, Call(r).q # "begin",
           Continue(r, <<>>), Otherwise, NEW dr, NEW db,
           Write(req[r].on, dr, db) \/ UNCHANGED dbVars
    PROVE  AInv'
<1>1. /\ \A c \in Clients : tx'[c].state = tx[c].state
      /\ \A c \in Clients : Home[c] # Home[r] => tx'[c] = tx[c]
  BY WriteIsOwn, Zenon DEF AInv, dbVars
<1>2. <<>> \in Seq(InnerCalls) /\ \A S : AllWithin(<<>>, S) /\ ptr' = ptr
  BY MoreWithin DEF Otherwise
<1>. QED  BY <1>1, <1>2, StatementSteady, Zenon

LEMMA RowStatementsSteady ==
    ASSUME OneEach, IInv, AInv, NEW r \in Requests,
           WriteRow(r) \/ RemoveRow(r) \/ UpdateBalance(r) \/ InsertAccount(r) \/ DeleteAccountRow(r)
    PROVE  AInv'
<1>1. /\ req[r].todo # <<>> /\ Call(r).q # "begin" /\ Continue(r, <<>>) /\ Otherwise
      /\ (\E dr, db : Write(req[r].on, dr, db)) \/ UNCHANGED dbVars
  BY DEF WriteRow, RemoveRow, UpdateBalance, InsertAccount, DeleteAccountRow, Statement, At
<1>. QED  BY <1>1, WritesSteady

LEMMA WriteAccountSteady ==
    ASSUME OneEach, IInv, AInv, NEW r \in Requests, WriteAccount(r)
    PROVE  AInv'
<1>1. req[r].todo # <<>> /\ Call(r).q # "begin" /\ Otherwise
  BY DEF WriteAccount, Statement, At
<1>2. \/ UNCHANGED dbVars /\ Throw(r)
      \/ (\E dr, db : Write(req[r].on, dr, db)) /\ Continue(r, <<>>)
  BY DEF WriteAccount
<1>3. CASE UNCHANGED dbVars /\ Throw(r)
  BY <1>1, <1>3, FailureSteady DEF dbVars, Otherwise
<1>. QED  BY <1>1, <1>2, <1>3, WritesSteady

LEMMA FailuresSteady ==
    ASSUME OneEach, IInv, AInv, NEW r \in Requests, RefuseRow(r) \/ Fail(r)
    PROVE  AInv'
<1>1. /\ Throw(r) /\ ptr' = ptr
      /\ StatementFails(req[r].on) \/ UNCHANGED dbVars
  BY DEF RefuseRow, Fail, Otherwise
<1>2. \A c \in Clients : Home[c] # Home[r] => tx'[c] = tx[c]
  BY <1>1, FailureIsOwn DEF AInv, dbVars
<1>. QED  BY <1>1, <1>2, FailureSteady

LEMMA FindRowSteady ==
    ASSUME OneEach, IInv, AInv, NEW r \in Requests, FindRow(r)
    PROVE  AInv'
<1>. DEFINE c == Call(r)
            x == RowAt(req[r].on, c.id)
<1>1. req[r].todo # <<>> /\ c.q = "find" /\ c \in InnerCalls
  BY AtStatement DEF FindRow
<1>2. x \in Row \cup {NoRow}
  BY <1>1, FindFields, ReadTypes DEF IInv
<1>3. /\ IF Refused(c, x) THEN Throw(r) ELSE Continue(r, AfterFind(c, x))
      /\ ptr' = ptr /\ tx' = tx
  BY DEF FindRow, Otherwise, dbVars
<1>4. CASE Refused(c, x)
  BY <1>3, <1>4, FailureSteady
<1>5. CASE ~Refused(c, x)
  <2>1. AfterFind(c, x) \in Seq(InnerCalls)
    BY <1>1, <1>2, <1>5, AfterFindType
  <2>2. \A S \in SUBSET Repos : Within(c, S) => AllWithin(AfterFind(c, x), S)
    BY <1>1, AfterFindWithin
  <2>. QED  BY <1>1, <1>3, <1>5, <2>1, <2>2, QuietStatementSteady
<1>. QED  BY <1>4, <1>5

LEMMA RunForEachSteady ==
    ASSUME OneEach, IInv, AInv, NEW r \in Requests, RunForEach(r)
    PROVE  AInv'
<1>. DEFINE c == Call(r)
<1>1. req[r].todo # <<>> /\ c.q = "each" /\ c \in InnerCalls /\ ptr' = ptr /\ tx' = tx
  BY AtInner DEF RunForEach, dbVars
<1>2. c.ids \in SUBSET Txns /\ c.how \in {"linkBack", "linkDrop"} /\ c.other \in Txns
  BY <1>1, StatementFields
<1>3. ASSUME Continue(r, <<>>)
      PROVE  AInv'
  BY <1>1, <1>3, MoreWithin, SmallSeqs, QuietStatementSteady, Zenon
<1>4. ASSUME NEW i \in c.ids,
             Continue(r, <<Find(i, c.how, c.other), ForEach(c.ids \ {i}, c.how, c.other)>>)
      PROVE  AInv'
  <2>. DEFINE f == Find(i, c.how, c.other)
              e == ForEach(c.ids \ {i}, c.how, c.other)
  <2>1. f \in InnerCalls /\ e \in InnerCalls
    BY <1>2, FindCalls, LoopCalls
  <2>2. ASSUME NEW S \in SUBSET Repos, Within(c, S)
        PROVE  AllWithin(<<f, e>>, S)
    <3>1. "trx" \in S
      BY <1>1, <2>2 DEF Within
    <3>2. Within(f, S) /\ Within(e, S)
      BY <1>2, <3>1, RowsWithin
    <3>. HIDE DEF f, e
    <3>. QED  BY <3>2, MoreWithin
  <2>3. <<f, e>> \in Seq(InnerCalls)
    BY <2>1
  <2>. HIDE DEF c
  <2>. QED  BY <1>1, <1>4, <2>2, <2>3, QuietStatementSteady, Zenon DEF c
<1>. QED  BY <1>3, <1>4, Zenon DEF RunForEach

LEMMA UseSumSteady ==
    ASSUME OneEach, IInv, AInv, NEW r \in Requests, req[r].todo # <<>>,
           Call(r).q \in {"lookup", "sum", "fill"}, ptr' = ptr, tx' = tx,
           NEW a \in Accounts, NEW b \in Balance, Call(r).use \in Uses, UseSum(r, a, b, Call(r).use)
    PROVE  AInv'
<1>. DEFINE u == Call(r).use
<1>1. CASE u \in Repos
  <2>1. Continue(r, <<SetBalance(a, b, u)>>)
    BY <1>1 DEF UseSum, Repos
  <2>2. SetBalance(a, b, u) \in InnerCalls
    BY <1>1, AccountCalls
  <2>3. \A S \in SUBSET Repos : Within(Call(r), S) => Within(SetBalance(a, b, u), S)
    BY <1>1 DEF Within, SetBalance
  <2>. QED  BY <2>1, <2>2, <2>3, MoreWithin, SmallSeqs, QuietStatementSteady, Zenon
<1>2. CASE u \notin Repos
  <2>1. Continue(r, <<>>) \/ Throw(r)
    BY <1>2 DEF UseSum, Repos
  <2>. QED  BY <2>1, MoreWithin, SmallSeqs, QuietStatementSteady, Zenon
<1>. QED  BY <1>1, <1>2

LEMMA LookupSteady ==
    ASSUME OneEach, IInv, AInv, NEW r \in Requests, Lookup(r)
    PROVE  AInv'
<1>. DEFINE c   == Call(r)
            hit == cache[Home[r]][c.acct]
<1>1. req[r].todo # <<>> /\ c.q = "lookup" /\ c \in InnerCalls /\ ptr' = ptr /\ tx' = tx
  BY AtInner DEF Lookup, dbVars
<1>2. c.acct \in Accounts /\ c.use \in Uses /\ SumRows(c) \in InnerCalls
  BY <1>1, LookupFields
<1>3. hit \in Balance \cup {Miss}
  BY <1>2, HomeType DEF IInv, TypeOK
<1>4. Continue(r, <<SumRows(c)>>) \/ (hit # Miss /\ UseSum(r, c.acct, hit, c.use))
  BY DEF Lookup
<1>5. \A S \in SUBSET Repos : Within(c, S) => Within(SumRows(c), S)
  BY <1>1 DEF Within, SumRows
<1>6. CASE Continue(r, <<SumRows(c)>>)
  BY <1>1, <1>2, <1>5, <1>6, MoreWithin, SmallSeqs, QuietStatementSteady, Zenon
<1>7. CASE hit # Miss /\ UseSum(r, c.acct, hit, c.use)
  BY <1>1, <1>2, <1>3, <1>7, UseSumSteady
<1>. QED  BY <1>4, <1>6, <1>7

LEMMA FillCacheSteady ==
    ASSUME OneEach, IInv, AInv, NEW r \in Requests, FillCache(r)
    PROVE  AInv'
<1>1. req[r].todo # <<>> /\ Call(r).q = "fill" /\ Call(r) \in InnerCalls /\ ptr' = ptr /\ tx' = tx
  BY AtInner DEF FillCache, dbVars
<1>2. Call(r).acct \in Accounts /\ Call(r).use \in Uses /\ Call(r).seen \in Balance
  BY <1>1, LookupFields
<1>. QED  BY <1>1, <1>2, UseSumSteady DEF FillCache

LEMMA SumAccountSteady ==
    ASSUME OneEach, IInv, AInv, NEW r \in Requests, SumAccount(r)
    PROVE  AInv'
<1>. DEFINE c == Call(r)
            b == SumAt(req[r].on, c.acct)
<1>1. req[r].todo # <<>> /\ c.q = "sum" /\ c \in InnerCalls /\ ptr' = ptr /\ tx' = tx
  BY AtStatement DEF SumAccount, Otherwise, dbVars
<1>2. b \in Balance
  BY <1>1, LookupFields, ReadTypes, Zenon DEF IInv
<1>3. Fill(c, b) \in InnerCalls /\ Continue(r, <<Fill(c, b)>>)
  BY <1>1, <1>2, LookupFields DEF SumAccount
<1>4. \A S \in SUBSET Repos : Within(c, S) => Within(Fill(c, b), S)
  BY <1>1 DEF Within, Fill
<1>. QED  BY <1>1, <1>3, <1>4, MoreWithin, SmallSeqs, QuietStatementSteady, Zenon

\* No method looks for an account inside its transaction.
LEMMA ReadAccountSteady ==
    ASSUME OneEach, IInv, AInv, NEW r \in Requests, ReadAccount(r)
    PROVE  AInv'
<1>. DEFINE c == Call(r)
            b == BalAt(req[r].on, c.acct)
            more == CASE c.use = "rename" -> <<PutAccount(c.acct, b)>>
                      [] c.use = "retype" -> <<PutAccount(c.acct, Typed)>>
                      [] c.use = "delete" -> <<RemoveAccount(c.acct)>>
                      [] OTHER -> <<>>
<1>1. req[r].todo # <<>> /\ c.q = "findacc" /\ c \in InnerCalls /\ ptr' = ptr /\ tx' = tx
  BY AtStatement DEF ReadAccount, Otherwise, dbVars
<1>2. c.acct \in Accounts
  BY <1>1, StatementFields
<1>3. b \in Balance \cup {Gone} /\ Typed \in Balance
  BY <1>2, ReadTypes DEF IInv, Typed, Balance
<1>4. Throw(r) \/ (b # Gone /\ Continue(r, more))
  BY DEF ReadAccount
<1>5. b # Gone => more \in Seq(InnerCalls)
  <2>. SUFFICES ASSUME b \in Balance PROVE more \in Seq(InnerCalls)
    BY <1>3
  <2>1. /\ PutAccount(c.acct, b) \in InnerCalls /\ PutAccount(c.acct, Typed) \in InnerCalls
        /\ RemoveAccount(c.acct) \in InnerCalls
    BY <1>2, <1>3, AccountCalls
  <2>. HIDE DEF b
  <2>. QED  BY <2>1
<1>6. \A S \in SUBSET Repos : ~Within(c, S)
  BY <1>1 DEF Within
<1>. HIDE DEF more
<1>7. CASE Throw(r)
  BY <1>1, <1>7, FailureSteady
<1>8. CASE b # Gone /\ Continue(r, more)
  BY <1>1, <1>5, <1>6, <1>8, QuietStatementSteady
<1>. QED  BY <1>4, <1>7, <1>8

LEMMA CheckLimitSteady ==
    ASSUME OneEach, IInv, AInv, NEW r \in Requests, CheckLimit(r)
    PROVE  AInv'
<1>1. req[r].todo # <<>> /\ Call(r).q = "count" /\ ptr' = ptr /\ tx' = tx
  BY DEF CheckLimit, Statement, At, Otherwise, dbVars
<1>. QED  BY <1>1, MoreWithin, SmallSeqs, QuietStatementSteady, Zenon DEF CheckLimit

LEMMA RunAimSteady ==
    ASSUME OneEach, IInv, AInv, NEW r \in Requests, RunAim(r)
    PROVE  AInv'
<1>. DEFINE p == [k \in Repos |-> IF k \in Call(r).repos THEN req[r].own ELSE ptr[Home[r]][k]]
<1>1. /\ At(r, "aim") /\ ptr' = [ptr EXCEPT ![Home[r]] = p] /\ tx' = tx
      /\ GoOn(r, req[r].own, Tail(req[r].todo), p)
  BY DEF RunAim, dbVars
<1>2. req[r].todo # <<>> /\ Call(r).q # "begin" /\ req[r] \in ReqType /\ Tail(req[r].todo) \in Seq(Calls)
  BY <1>1, HeadIsCall DEF At, IInv
<1>3. p \in [Repos -> Targets]
  BY <1>2, PointersOf DEF IInv, ReqType, Targets
<1>4. Tail(req[r].todo) = <<>> \o Tail(req[r].todo)
  BY <1>2
<1>5. ptr \in [Procs -> [Repos -> Targets]] /\ \A s \in Requests : Home[s] \in Procs
  BY HomeType DEF IInv, TypeOK
<1>6. /\ ptr'[Home[r]] = p
      /\ \A s \in Requests : Home[s] # Home[r] => ptr'[Home[s]] = ptr[Home[s]]
  BY <1>1, <1>5
<1>7. \A k \in Repos : p[k] \in {req[r].own, ptr[Home[r]][k]}
  OBVIOUS
<1>8. \A s \in Requests \ {r} : req'[s] = req[s]
  BY <1>1, <1>2, <1>3, <1>4, MoreKeeps, SmallSeqs, Zenon DEF KeepsOwn
<1>9. Steady(r) /\ AllWithin(<<>>, Aimed(r)) /\ <<>> \in Seq(InnerCalls)
  BY MoreWithin DEF AInv
<1>. HIDE DEF p
<1>10. Steady(r)'
  BY <1>1, <1>2, <1>3, <1>4, <1>6, <1>7, <1>9, GoesOnSteadily, Zenon
<1>11. Touches(r)
  BY <1>1, <1>6, <1>8 DEF Touches
<1>. QED  BY <1>10, <1>11, OthersStaySteady

LEMMA BeginTransactionSteady ==
    ASSUME OneEach, IInv, AInv, NEW r \in Requests, BeginTransaction(r)
    PROVE  AInv'
<1>. SUFFICES ASSUME NEW c \in Clients,
                     LET p == [k \in Repos |-> IF k \in Call(r).repos THEN c ELSE ptr[Home[r]][k]]
                     IN  /\ CheckOut(r, c)
                         /\ ptr' = [ptr EXCEPT ![Home[r]] = p]
                         /\ GoOn(r, c, Tail(req[r].todo), p)
              PROVE  AInv'
  BY DEF BeginTransaction
<1>. DEFINE old == req[r].todo
            p   == [k \in Repos |-> IF k \in Call(r).repos THEN c ELSE ptr[Home[r]][k]]
<1>1. old # <<>> /\ Call(r).q = "begin" /\ TypeOK /\ BeginsOnce
  BY DEF BeginTransaction, At, IInv
<1>2. /\ old \in Seq(Calls) /\ Call(r) = old[1] /\ Tail(old) \in Seq(Calls)
      /\ Call(r) \in Calls /\ Call(r).repos \in SUBSET Repos
  BY <1>1, HeadIsCall, CallFields
<1>3. req[r].own = Pool
  BY <1>1, <1>2 DEF BeginsOnce
<1>4. /\ p \in [Repos -> Targets] /\ c \in Clients \cup {Pool}
      /\ Home[c] = Home[r] /\ tx' = [tx EXCEPT ![c].state = "open"]
      /\ ptr' = [ptr EXCEPT ![Home[r]] = p]
      /\ GoOn(r, c, Tail(old), p)
  BY <1>1, PointersOf DEF Targets, CheckOut
<1>5. /\ \A s \in Requests \ {r} : req'[s] = req[s]
      /\ req'[r].todo = Tail(old) /\ req'[r].own = c /\ req'[r].err = FALSE
  BY <1>1, <1>2, <1>4, GoOnType, Zenon
<1>6. req'[r].on = IF Tail(old) = <<>> THEN Pool ELSE Bound(Head(Tail(old)), c, p)
  BY <1>1, <1>4 DEF GoOn, TypeOK
<1>7. ptr \in [Procs -> [Repos -> Targets]] /\ \A s \in Requests : Home[s] \in Procs
  BY <1>1, HomeType DEF TypeOK
<1>8. /\ ptr'[Home[r]] = p
      /\ \A s \in Requests : Home[s] # Home[r] => ptr'[Home[s]] = ptr[Home[s]]
  BY <1>4, <1>7
<1>9. tx'[c].state = "open" /\ \A d \in Clients : Home[d] # Home[r] => tx'[d] = tx[d]
  BY <1>1, <1>4 DEF TypeOK, DbTypeOK, Session
<1>10. Touches(r)
  BY <1>5, <1>8, <1>9 DEF Touches
<1>11. /\ \A k \in Call(r).repos : p[k] = c
       /\ \A k \in Repos : p[k] \in Clients => Home[p[k]] = Home[r]
       /\ Call(r).repos \subseteq Aimed(r)'
  BY <1>2, <1>4, <1>5, <1>8, Zenon DEF AInv, Steady, AtHome, Aimed
<1>. HIDE DEF p
<1>12. \A l \in 1..Len(Tail(old)) : Within(Tail(old)[l], Call(r).repos)
  <2>. SUFFICES ASSUME NEW l \in 1..Len(Tail(old))
                PROVE  Within(Tail(old)[l], Call(r).repos)
    OBVIOUS
  <2>1. Enclosed(old)
    BY <1>3 DEF AInv, Steady
  <2>. HIDE DEF old
  <2>2. /\ Tail(old)[l] = old[l + 1] /\ l + 1 \in 1..Len(old) /\ 1 \in 1..Len(old) /\ 1 < l + 1
    BY <1>1, <1>2
  <2>. QED  BY <1>1, <1>2, <2>1, <2>2 DEF Enclosed
<1>13. AllWithin(req[r].todo, Aimed(r))'
  <2>1. \A l \in 1..Len(req'[r].todo) : Within(req'[r].todo[l], Aimed(r)')
    BY <1>5, <1>11, <1>12, MoreWithin
  <2>. QED  BY <2>1 DEF AllWithin, Within
<1>14. Tail(old) # <<>> => /\ Head(Tail(old)) \in Calls
                           /\ Within(Head(Tail(old)), Call(r).repos)
  <2>. HIDE DEF old
  <2>. QED  BY <1>2, <1>12
<1>15. AtHome(r)'
  <2>1. req'[r].on \in Clients => Home[req'[r].on] = Home[r]
    <3>. HIDE DEF old
    <3>1. CASE Tail(old) = <<>>
      BY <1>6, <3>1, TargetsDiffer
    <3>2. CASE Tail(old) # <<>>
      <4>. DEFINE h == Head(Tail(old))
      <4>1. /\ TypeOK /\ h \in Calls /\ c \in Clients \cup {Pool} /\ p \in [Repos -> Targets]
            /\ Home[c] = Home[r] /\ \A k \in Repos : p[k] \in Clients => Home[p[k]] = Home[r]
        BY <1>1, <1>4, <1>11, <1>14, <3>2
      <4>2. req'[r].on = Bound(h, c, p)
        BY <1>6, <3>2
      <4>. HIDE DEF h
      <4>3. Bound(h, c, p) \in Clients => Home[Bound(h, c, p)] = Home[r]
        BY <4>1, BoundHome
      <4>. QED  BY <4>2, <4>3
    <3>. QED  BY <3>1, <3>2
  <2>. QED  BY <1>4, <1>5, <1>8, <1>11, <2>1 DEF AtHome
<1>16. IsStatement(r)' => req'[r].on = c
  BY <1>2, <1>4, <1>5, <1>6, <1>11, <1>14, BoundOwn DEF IsStatement, Call
<1>17. Steady(r)'
  <2>. HIDE DEF old
  <2>. QED  BY <1>5, <1>9, <1>13, <1>15, <1>16, TargetsDiffer DEF Steady
<1>. QED  BY <1>10, <1>17, OthersStaySteady

\* A request that has no client, and calls that enclose what follows BEGIN.
LEMMA UnattachedSteady ==
    ASSUME OneEach, IInv, AInv, NEW r \in Requests, NEW calls \in Seq(Calls), Enclosed(calls),
           GoOn(r, Pool, calls, ptr[Home[r]]), ptr' = ptr,
           \A c \in Clients : Home[c] # Home[r] => tx'[c] = tx[c]
    PROVE  AInv'
<1>. DEFINE p == ptr[Home[r]]
<1>1. TypeOK /\ Steady(r) /\ Pool \in Clients \cup {Pool} /\ p \in [Repos -> Targets] /\ GoOn(r, Pool, calls, p)
  BY PointersOf DEF IInv, AInv
<1>. HIDE DEF p
<1>2. /\ \A s \in Requests \ {r} : req'[s] = req[s]
      /\ req'[r].todo = calls /\ req'[r].own = Pool /\ req'[r].err = FALSE
  BY <1>1, GoOnType, Zenon
<1>3. req'[r].on = IF calls = <<>> THEN Pool ELSE Bound(Head(calls), Pool, p)
  BY <1>1 DEF GoOn, TypeOK
<1>4. calls # <<>> => Head(calls) \in Calls
  OBVIOUS
<1>5. \A k \in Repos : p[k] \in Clients => Home[p[k]] = Home[r]
  BY <1>1 DEF Steady, AtHome, p
<1>6. req'[r].on \in Clients => Home[req'[r].on] = Home[r]
  BY <1>1, <1>3, <1>4, <1>5, BoundHome, TargetsDiffer
<1>7. AtHome(r)'
  BY <1>2, <1>5, <1>6, TargetsDiffer DEF AtHome, p
<1>8. Enclosed(req[r].todo)'
  BY <1>2 DEF Enclosed, Within
<1>9. Steady(r)'
  BY <1>2, <1>7, <1>8 DEF Steady
<1>. QED  BY <1>2, <1>9, OthersUntouched, OthersStaySteady

LEMMA EndsSteadily ==
    ASSUME OneEach, IInv, AInv, NEW r \in Requests, Commit(r) \/ Rollback(r)
    PROVE  AInv'
<1>1. /\ GoOn(r, Pool, <<>>, ptr[Home[r]]) /\ ptr' = ptr
      /\ tx' = [tx EXCEPT ![req[r].own] = Autocommit]
  BY DEF Commit, Rollback, CommitAndRelease, RollBackAndRelease, Otherwise
<1>2. req[r].own \in Clients
  BY DEF Commit, Rollback, IInv, ErrInside, TypeOK, ReqType
<1>3. \A c \in Clients : Home[c] # Home[r] => tx'[c] = tx[c]
  BY <1>1, <1>2 DEF AInv, Steady, AtHome, IInv, TypeOK, DbTypeOK
<1>4. <<>> \in Seq(Calls) /\ Enclosed(<<>>)
  BY DEF Enclosed
<1>. QED  BY <1>1, <1>3, <1>4, UnattachedSteady, Zenon

LEMMA ExpireSteady ==
    ASSUME AInv, NEW p \in Procs, NEW a \in Accounts, Expire(p, a)
    PROVE  AInv'
<1>. SUFFICES ASSUME NEW r \in Requests
              PROVE  Steady(r)'
  BY DEF AInv
<1>1. req' = req /\ ptr' = ptr /\ tx' = tx
  BY DEF Expire, dbVars
<1>2. Steady(r)
  BY DEF AInv
<1>3. AtHome(r)' = AtHome(r) /\ IsStatement(r)' = IsStatement(r)
  BY <1>1 DEF AtHome, IsStatement, Call
<1>4. Enclosed(req[r].todo)' = Enclosed(req[r].todo)
  BY <1>1 DEF Enclosed
<1>5. AllWithin(req[r].todo, Aimed(r))' = AllWithin(req[r].todo, Aimed(r))
  BY <1>1 DEF AllWithin, Aimed
<1>. QED  BY <1>1, <1>2, <1>3, <1>4, <1>5 DEF Steady

\* The pool closes no client that a request owns, so what points to one still does.
LEMMA CloseIdleSteady ==
    ASSUME IInv, AInv, NEW c \in Clients, CloseIdle(c)
    PROVE  AInv'
<1>. SUFFICES ASSUME NEW r \in Requests
              PROVE  Steady(r)'
  BY DEF AInv
<1>1. /\ ptr \in [Procs -> [Repos -> Targets]] /\ Home[c] \in Procs /\ Home[r] \in Procs
      /\ Steady(r) /\ req[r].own \in Clients \cup {Pool}
  BY HomeType DEF IInv, TypeOK, ReqType, AInv
<1>2. ptr' = [ptr EXCEPT ![Home[c]] = [k \in Repos |-> IF ptr[Home[c]][k] = c THEN Dead ELSE ptr[Home[c]][k]]]
  BY <1>1 DEF CloseIdle
<1>3. \A k \in Repos : \/ ptr'[Home[r]][k] = ptr[Home[r]][k]
                       \/ ptr[Home[r]][k] = c /\ ptr'[Home[r]][k] = Dead
  BY <1>1, <1>2
<1>4. req' = req /\ tx' = tx
  BY DEF CloseIdle, dbVars
<1>5. req[r].own # c
  BY Sentinels DEF CloseIdle, IInv, PoolDiscipline
<1>6. AtHome(r)'
  BY <1>1, <1>3, <1>4, TargetsDiffer DEF Steady, AtHome
<1>7. req[r].own # Pool => Aimed(r)' = Aimed(r)
  BY <1>1, <1>3, <1>4, <1>5, TargetsDiffer DEF Aimed
<1>8. req[r].own # Pool => AllWithin(req[r].todo, Aimed(r))'
  <2>1. req[r].own # Pool => AllWithin(req[r].todo, Aimed(r))
    BY <1>1 DEF Steady
  <2>. QED  BY <1>4, <1>7, <2>1 DEF AllWithin, Within
<1>9. Enclosed(req[r].todo)' = Enclosed(req[r].todo) /\ IsStatement(r)' = IsStatement(r)
  BY <1>4 DEF Enclosed, Within, IsStatement, Call
<1>. QED  BY <1>1, <1>4, <1>6, <1>8, <1>9 DEF Steady

-----------------------------------------------------------------------------
(* The methods enclose what follows their BEGIN.                           *)

LEMMA EnclosedShapes ==
    /\ \A c : c.q # "begin" => Enclosed(<<c>>)
    /\ \A b, c : c.q # "begin" /\ Within(c, b.repos) => Enclosed(<<b, c>>)
    /\ \A b, c, d, e : /\ c.q # "begin" /\ d.q # "begin" /\ e.q # "begin"
                       /\ Within(c, b.repos) /\ Within(d, b.repos) /\ Within(e, b.repos)
                       => Enclosed(<<b, c, d, e>>)
    /\ \A b, c, d : /\ c.q # "begin" /\ d.q # "begin" /\ Within(d, b.repos)
                    => Enclosed(<<c, b, d>>)
    /\ \A b, c, d, e, f, g :
          /\ c.q # "begin" /\ d.q # "begin" /\ e.q # "begin" /\ f.q # "begin" /\ g.q # "begin"
          /\ Within(d, b.repos) /\ Within(e, b.repos) /\ Within(f, b.repos) /\ Within(g, b.repos)
          => Enclosed(<<c, b, d, e, f, g>>)
    /\ \A b, c, d, e, f, g, h, i, j :
          /\ c.q # "begin" /\ d.q # "begin" /\ e.q # "begin" /\ f.q # "begin" /\ g.q # "begin"
          /\ h.q # "begin" /\ i.q # "begin" /\ j.q # "begin"
          /\ Within(f, b.repos) /\ Within(g, b.repos) /\ Within(h, b.repos)
          /\ Within(i, b.repos) /\ Within(j, b.repos)
          => Enclosed(<<c, d, e, b, f, g, h, i, j>>)
BY DEF Enclosed

LEMMA TransactionsEnclosed ==
    /\ \A i, a, m, links : Enclosed(CreateTransaction(i, a, m, links))
    /\ \A i, e : Enclosed(UpdateTransaction(i, e))
    /\ \A i : Enclosed(DeleteTransaction(i))
    /\ \A i, j : Enclosed(LinkTransaction(i, j)) /\ Enclosed(UnlinkTransaction(i, j))
    /\ \A w, d, from, to, m, n : Enclosed(Transfer(w, d, from, to, m, n))
<1>. DEFINE S == {"trx", "acc"}
            b == Begin(S)
<1>1. /\ b.repos = S /\ S \in SUBSET Repos /\ "trx" \in S /\ "acc" \in S
  BY DEF Begin, Repos
<1>2. /\ \A i, x : Within(Insert(i, x, "trx"), S) /\ Insert(i, x, "trx").q # "begin"
      /\ \A i, x : Within(Put(i, x), S) /\ Put(i, x).q # "begin"
      /\ \A a : Within(SaveBalance(a), S) /\ SaveBalance(a).q # "begin"
      /\ \A T, h, i : Within(ForEach(T, h, i), S) /\ ForEach(T, h, i).q # "begin"
      /\ \A i, h, x : Within(Find(i, h, x), S) /\ Find(i, h, x).q # "begin"
      /\ \A a, v, u : FindAccount(a, v, u).q # "begin"
      /\ \A a, v, f, u : Stats(a, v, f, u).q # "begin"
  BY DEF Within, Insert, Put, SaveBalance, ForEach, Find, FindAccount, Stats
<1>. HIDE DEF S, b
<1>3. \A i, a, m, links : Enclosed(CreateTransaction(i, a, m, links))
  BY <1>1, <1>2, EnclosedShapes, Zenon DEF CreateTransaction, S, b
<1>4. \A i, e : Enclosed(UpdateTransaction(i, e))
  BY <1>1, <1>2, EnclosedShapes, Zenon DEF UpdateTransaction, S, b
<1>5. \A i : Enclosed(DeleteTransaction(i))
  BY <1>1, <1>2, EnclosedShapes, Zenon DEF DeleteTransaction, S, b
<1>6. \A i, j : Enclosed(LinkTransaction(i, j)) /\ Enclosed(UnlinkTransaction(i, j))
  BY <1>2, EnclosedShapes DEF LinkTransaction, UnlinkTransaction
<1>7. \A w, d, from, to, m, n : Enclosed(Transfer(w, d, from, to, m, n))
  BY <1>1, <1>2, EnclosedShapes, Zenon DEF Transfer, S, b
<1>. QED  BY <1>3, <1>4, <1>5, <1>6, <1>7

LEMMA AccountsEnclosed ==
    ASSUME NEW a
    PROVE  /\ Enclosed(GetAccountStats(a))
           /\ \A i, m : Enclosed(CreateAccount(a, i, m))
           /\ Enclosed(CreateEmptyAccount(a))
           /\ \A u : Enclosed(UpdateAccount(a, u))
           /\ Enclosed(DeleteAccount(a))
<1>. DEFINE b == Begin({"ctl"})
<1>1. /\ b.repos = {"ctl"}
      /\ CountAccounts.q # "begin"
      /\ \A x : Within(NewAccount(a, x), {"ctl"}) /\ NewAccount(a, x).q # "begin"
      /\ Within(Aim({"ctl"}), {"ctl"}) /\ Aim({"ctl"}).q # "begin"
      /\ \A i, x : Within(Insert(i, x, "own"), {"ctl"}) /\ Insert(i, x, "own").q # "begin"
      /\ Within(Stats(a, "own", TRUE, "ctl"), {"ctl"}) /\ \A v, f, u : Stats(a, v, f, u).q # "begin"
      /\ \A v, u : FindAccount(a, v, u).q # "begin"
  BY DEF Begin, Within, CountAccounts, NewAccount, Aim, Insert, Stats, FindAccount
<1>. HIDE DEF b
<1>2. \A i, m : Enclosed(CreateAccount(a, i, m))
  BY <1>1, EnclosedShapes, Zenon DEF CreateAccount, b
<1>3. Enclosed(CreateEmptyAccount(a))
  BY <1>1, EnclosedShapes DEF CreateEmptyAccount, b
<1>4. Enclosed(GetAccountStats(a)) /\ Enclosed(DeleteAccount(a)) /\ \A u : Enclosed(UpdateAccount(a, u))
  BY <1>1, EnclosedShapes, Zenon DEF GetAccountStats, UpdateAccount, DeleteAccount
<1>. QED  BY <1>2, <1>3, <1>4

\* Whatever request is accepted, it is given the calls of one of the methods.
LEMMA AcceptedCalls ==
    ASSUME NEW r \in Requests, AcceptRequest(r)
    PROVE  \E route, calls : Accept(r, route, calls) /\ Program(calls) /\ Enclosed(calls)
<1>1. CASE AcceptCreate(r)
  <2>1. PICK i \in Txns, a \in Accounts, m \in Amounts, links \in SUBSET Txns :
           Accept(r, "create", CreateTransaction(i, a, m, links))
    BY <1>1 DEF AcceptCreate
  <2>. QED  BY <2>1, RowPrograms, TransactionsEnclosed
<1>2. CASE AcceptUpdate(r)
  BY <1>2, RowPrograms, TransactionsEnclosed DEF AcceptUpdate
<1>3. CASE AcceptDelete(r)
  BY <1>3, RowPrograms, TransactionsEnclosed DEF AcceptDelete
<1>4. CASE AcceptLink(r)
  BY <1>4, RowPrograms, TransactionsEnclosed DEF AcceptLink
<1>5. CASE AcceptUnlink(r)
  BY <1>5, RowPrograms, TransactionsEnclosed DEF AcceptUnlink
<1>6. CASE AcceptTransfer(r)
  <2>1. PICK w \in Txns, d \in Txns, from \in Accounts, to \in Accounts, m \in Amounts, n \in Amounts :
           Accept(r, "transfer", Transfer(w, d, from, to, m, n))
    BY <1>6 DEF AcceptTransfer
  <2>. QED  BY <2>1, TransferProgram, TransactionsEnclosed
<1>7. CASE AcceptGetStats(r)
  BY <1>7, AccountPrograms, AccountsEnclosed DEF AcceptGetStats
<1>8. CASE AcceptCreateAccount(r)
  <2>1. PICK a \in Accounts :
           \/ \E i \in Txns, m \in Amounts : Accept(r, "createAccount", CreateAccount(a, i, m))
           \/ Accept(r, "createAccount", CreateEmptyAccount(a))
    BY <1>8 DEF AcceptCreateAccount
  <2>. QED  BY <2>1, AccountPrograms, AccountsEnclosed
<1>9. CASE AcceptUpdateAccount(r)
  <2>1. PICK a \in Accounts, u \in {"rename", "retype"} :
           Accept(r, IF u = "rename" THEN "renameAccount" ELSE "typeBalance", UpdateAccount(a, u))
    BY <1>9 DEF AcceptUpdateAccount
  <2>. QED  BY <2>1, AccountPrograms, AccountsEnclosed
<1>10. CASE AcceptDeleteAccount(r)
  BY <1>10, AccountPrograms, AccountsEnclosed DEF AcceptDeleteAccount
<1>. QED  BY <1>1, <1>2, <1>3, <1>4, <1>5, <1>6, <1>7, <1>8, <1>9, <1>10 DEF AcceptRequest

LEMMA AcceptSteady ==
    ASSUME OneEach, IInv, AInv, NEW r \in Requests, AcceptRequest(r)
    PROVE  AInv'
<1>1. PICK route, calls : Accept(r, route, calls) /\ Program(calls) /\ Enclosed(calls)
  BY AcceptedCalls
<1>2. GoOn(r, Pool, calls, ptr[Home[r]]) /\ ptr' = ptr /\ tx' = tx /\ calls \in Seq(Calls)
  BY <1>1 DEF Accept, Program, dbVars
<1>. QED  BY <1>1, <1>2, UnattachedSteady

-----------------------------------------------------------------------------
(* The theorems for a process that serves one request at a time.           *)

LEMMA SteadyHolds == OneEach /\ Spec => []AInv
<1>1. Init => AInv
  <2>. SUFFICES ASSUME Init, NEW r \in Requests
                PROVE  Steady(r)
    BY DEF AInv
  <2>1. /\ req[r].todo = <<>> /\ req[r].own = Pool /\ req[r].on = Pool
        /\ \A k \in Repos : ptr[Home[r]][k] = Pool
    BY HomeType DEF Init
  <2>. QED  BY <2>1, TargetsDiffer DEF Steady, AtHome, Enclosed
<1>2. OneEach /\ IInv /\ AInv /\ [Next]_vars => AInv'
  <2>. SUFFICES ASSUME OneEach, IInv, AInv, [Next]_vars
                PROVE  AInv'
    OBVIOUS
  <2>1. CASE UNCHANGED vars
    BY <2>1 DEF vars, dbVars, AInv, Steady, AtHome, Enclosed, AllWithin, Within, Aimed, IsStatement, Call
  <2>2. ASSUME NEW r \in Requests, AcceptRequest(r)
        PROVE  AInv'
    BY <2>2, AcceptSteady
  <2>3. ASSUME NEW r \in Requests, Progress(r)
        PROVE  AInv'
    BY <2>3, RunAimSteady, RunForEachSteady, LookupSteady, FillCacheSteady, BeginTransactionSteady,
       FindRowSteady, RowStatementsSteady, FailuresSteady, SumAccountSteady, ReadAccountSteady,
       CheckLimitSteady, WriteAccountSteady, EndsSteadily
       DEF Progress, Serve
  <2>4. ASSUME NEW p \in Procs, NEW a \in Accounts, Expire(p, a)
        PROVE  AInv'
    BY <2>4, ExpireSteady
  <2>5. ASSUME NEW c \in Clients, CloseIdle(c)
        PROVE  AInv'
    BY <2>5, CloseIdleSteady
  <2>. QED  BY <2>1, <2>2, <2>3, <2>4, <2>5 DEF Next
<1>. SUFFICES ASSUME OneEach
              PROVE  Spec => []AInv
  OBVIOUS
<1>3. IInv /\ AInv /\ [Next]_vars => AInv'
  BY <1>2
<1>. QED  BY <1>1, <1>3, InvariantHolds, PTL DEF Spec

-----------------------------------------------------------------------------
(* What is created together.                                               *)

(* A thing is a row of either table, by its id.  A method makes a thing    *)
(* with an INSERT; the legs of a transfer are tied to each other, and so   *)
(* is an account to its opening transaction.                               *)
Things == ({"row"} \X Txns) \cup ({"account"} \X Accounts)

There(x)      == IF x[1] = "row" THEN row[x[2]] # NoRow ELSE bal[x[2]] # Gone
Written(c, x) == IF x[1] = "row" THEN tx[c].row[x[2]] \in Row ELSE tx[c].bal[x[2]] \in Balance
Touched(c, x) == IF x[1] = "row" THEN tx[c].row[x[2]] # Same ELSE tx[c].bal[x[2]] # Same
Fresh(c, x)   == Written(c, x) /\ ~There(x)
Named(x)      == IF x[1] = "row" THEN mate[x[2]] # Unborn ELSE opening[x[2]] # Unborn

Joins(x, y) == y[1] = "row" /\ (IF x[1] = "row" THEN mate[x[2]] ELSE opening[x[2]]) = y[2]
Tied(x, y)  == Joins(x, y) \/ Joins(y, x)

\* Call c is the INSERT of thing x.
Makes(c, x)  == IF x[1] = "row" THEN c.q = "insert" /\ c.id = x[2] ELSE c.q = "newacc" /\ c.acct = x[2]
Inserting(c) == c.q \in {"insert", "newacc"}

Pending(calls, x) == \E k \in 1..Len(calls) : Makes(calls[k], x)
MakesOnce(calls)  ==
    \A x \in Things : \A k, l \in 1..Len(calls) : Makes(calls[k], x) /\ Makes(calls[l], x) => k = l

\* A call that takes nothing away, and nothing that it is followed by does.
Mild(c) == \/ c.q \in {"begin", "aim", "count", "insert", "put", "lookup", "sum", "fill",
                       "setbal", "newacc"}
           \/ c.q = "findacc" /\ c.use = "exists"
Gentle(calls) == \A k \in 1..Len(calls) : Mild(calls[k])

\* Every INSERT comes after the BEGIN.
Sheltered(calls) ==
    \A k \in 1..Len(calls) : Inserting(calls[k]) => \E j \in 1..Len(calls) : j < k /\ calls[j].q = "begin"

TiesNamed == \A x, y \in Things : Tied(x, y) => Named(x) /\ Named(y)
SeenNamed == \A x \in Things : There(x) \/ (\E c \in Clients : Written(c, x)) => Named(x)
LocksHeld == \A x \in Things : \A c, d \in Clients : Touched(c, x) /\ Touched(d, x) => c = d

\* What a request has yet to make is nowhere, and no other request will make it.
Unmade(r) ==
    \A x \in Things : Pending(req[r].todo, x) =>
        /\ Named(x) /\ ~There(x) /\ \A c \in Clients : ~Written(c, x)
        /\ \A s \in Requests : Pending(req[s].todo, x) => s = r

\* Of two things that are tied, a request that will make the one will make the other,
\* or has made it in its transaction.
BothToCome(r) ==
    \A x, y \in Things : Tied(x, y) /\ Pending(req[r].todo, x) =>
        /\ Gentle(req[r].todo)
        /\ Pending(req[r].todo, y) \/ (req[r].own \in Clients /\ Fresh(req[r].own, y))

\* A transaction that has made the one has made the other or will, and nobody else has.
HalfDone(r) ==
    \A x, y \in Things : req[r].own \in Clients /\ ~req[r].err /\ Tied(x, y) /\ Fresh(req[r].own, x) =>
        /\ Gentle(req[r].todo)
        /\ ~There(y) /\ \A c \in Clients : Written(c, y) => c = req[r].own
        /\ Written(req[r].own, y) \/ Pending(req[r].todo, y)

Creating(r) ==
    /\ req[r].own = Pool => Sheltered(req[r].todo)
    /\ MakesOnce(req[r].todo)
    /\ Unmade(r) /\ BothToCome(r) /\ HalfDone(r)

WInv == TiesNamed /\ SeenNamed /\ LocksHeld /\ \A r \in Requests : Creating(r)

\* A step in which nothing appears in the tables.
NothingNew == \A x \in Things : There(x)' => There(x)

-----------------------------------------------------------------------------
(* What a step of one request leaves to the others.                        *)

\* A step of request r, in the database: only the transaction of r shows anything new,
\* what is taken away was held by no other client, and what r writes was there or is
\* what it was to make.
DbMoves(r) ==
    \A x \in Things :
        /\ There(x)' /\ ~There(x) => req[r].own \in Clients /\ Written(req[r].own, x)
        /\ There(x) /\ ~There(x)' => \A c \in Clients : Written(c, x) => c = req[r].own
        /\ \A c \in Clients \ {req[r].own} : Written(c, x)' <=> Written(c, x)
        /\ \A c \in Clients : c = req[r].own /\ Written(c, x)'
                             => Written(c, x) \/ There(x) \/ Pending(req[r].todo, x)
        /\ \A c, d \in Clients : Touched(c, x)' /\ Touched(d, x)' => c = d

\* And among the requests: the others have what they had, and r has no more to make.
ReqMoves(r) ==
    /\ \A s \in Requests \ {r} : req'[s] = req[s]
    /\ \A x \in Things : Pending(req'[r].todo, x) => Pending(req[r].todo, x)

LEMMA SameTies ==
    ASSUME SameIds
    PROVE  /\ \A x : Named(x)' <=> Named(x)
           /\ \A x, y : Tied(x, y)' <=> Tied(x, y)
BY DEF SameIds, Named, Tied, Joins

LEMMA WrittenIsTouched ==
    ASSUME IInv
    PROVE  \A c \in Clients, x \in Things : Written(c, x) => Touched(c, x)
BY Sentinels DEF Written, Touched

LEMMA OthersKeepCreating ==
    ASSUME IInv, WInv, NEW r \in Requests, DbMoves(r), ReqMoves(r), SameIds,
           NEW s \in Requests, s # r, NEW c, c = req[r].own, NEW d, d = req[s].own
    PROVE  Creating(s)'
<1>1. /\ req'[s] = req[s] /\ req'[s].own = d /\ Creating(s) /\ Creating(r) /\ LocksHeld
      /\ d \in Clients => c # d
  BY DEF ReqMoves, WInv, IInv, PoolDiscipline
<1>2. \A x, y : Tied(x, y)' <=> Tied(x, y)
  BY SameTies
<1>3. \A x : Named(x)' <=> Named(x)
  BY SameTies
<1>4. \A x \in Things : /\ There(x)' /\ ~There(x) => c \in Clients /\ Written(c, x)
                        /\ There(x) /\ ~There(x)' => \A e \in Clients : Written(e, x) => e = c
                        /\ \A e \in Clients : e # c => (Written(e, x)' <=> Written(e, x))
                        /\ c \in Clients /\ Written(c, x)'
                           => Written(c, x) \/ There(x) \/ Pending(req[r].todo, x)
  BY DEF DbMoves
<1>5. \A x \in Things : Pending(req'[r].todo, x) => Pending(req[r].todo, x)
  BY DEF ReqMoves
<1>6. \A t \in Requests, x \in Things : Pending(req'[t].todo, x) => Pending(req[t].todo, x)
  BY <1>5 DEF ReqMoves
<1>7. ASSUME NEW x \in Things, Pending(req[s].todo, x)
      PROVE  /\ Named(x) /\ ~There(x) /\ ~There(x)' /\ \A e \in Clients : ~Written(e, x)'
             /\ \A t \in Requests : Pending(req'[t].todo, x) => t = s
  <2>1. /\ Named(x) /\ ~There(x) /\ \A e \in Clients : ~Written(e, x)
        /\ \A t \in Requests : Pending(req[t].todo, x) => t = s
    BY <1>1, <1>7 DEF Creating, Unmade
  <2>2. ~Pending(req[r].todo, x)
    BY <2>1
  <2>3. ~There(x)'
    BY <1>4, <2>1
  <2>4. \A e \in Clients : ~Written(e, x)'
    BY <1>4, <2>1, <2>2
  <2>. QED  BY <1>6, <2>1, <2>3, <2>4
<1>8. Unmade(s)'
  BY <1>1, <1>3, <1>7 DEF Unmade
<1>9. ASSUME NEW x \in Things, d \in Clients, Fresh(d, x)
      PROVE  Fresh(d, x)'
  <2>1. Written(d, x) /\ Written(d, x)' /\ ~There(x)
    BY <1>1, <1>4, <1>9 DEF Fresh
  <2>2. c \in Clients => ~Written(c, x)
    BY <1>1, <1>9, <2>1, WrittenIsTouched DEF LocksHeld
  <2>3. ~There(x)'
    BY <1>4, <2>1, <2>2
  <2>. QED  BY <2>1, <2>3 DEF Fresh
<1>10. BothToCome(s)'
  <2>. SUFFICES ASSUME NEW x \in Things, NEW y \in Things, Tied(x, y)', Pending(req'[s].todo, x)
                PROVE  /\ Gentle(req'[s].todo)
                       /\ Pending(req'[s].todo, y) \/ (d \in Clients /\ Fresh(d, y)')
    BY <1>1 DEF BothToCome
  <2>1. Tied(x, y) /\ Pending(req[s].todo, x)
    BY <1>1, <1>2
  <2>2. Gentle(req[s].todo) /\ (Pending(req[s].todo, y) \/ (d \in Clients /\ Fresh(d, y)))
    BY <1>1, <2>1 DEF Creating, BothToCome
  <2>3. d \in Clients /\ Fresh(d, y) => Fresh(d, y)'
    BY <1>9
  <2>. QED  BY <1>1, <2>2, <2>3
<1>11. ASSUME d \in Clients, NEW x \in Things, Fresh(d, x)'
      PROVE  Fresh(d, x) /\ Written(d, x)'
  <2>1. Written(d, x) /\ Written(d, x)' /\ ~There(x)'
    BY <1>1, <1>4, <1>11 DEF Fresh
  <2>2. ~There(x)
    BY <1>1, <1>4, <1>11, <2>1
  <2>. QED  BY <2>1, <2>2 DEF Fresh
<1>12. HalfDone(s)'
  <2>. SUFFICES ASSUME NEW x \in Things, NEW y \in Things,
                       d \in Clients, ~req'[s].err, Tied(x, y)', Fresh(d, x)'
                PROVE  /\ Gentle(req'[s].todo)
                       /\ ~There(y)' /\ \A e \in Clients : Written(e, y)' => e = d
                       /\ Written(d, y)' \/ Pending(req'[s].todo, y)
    BY <1>1 DEF HalfDone
  <2>1. d \in Clients /\ ~req[s].err /\ Tied(x, y) /\ Fresh(d, x)'
    BY <1>1, <1>2
  <2>2. Fresh(d, x)
    BY <1>11, <2>1
  <2>3. /\ Gentle(req[s].todo) /\ ~There(y) /\ \A e \in Clients : Written(e, y) => e = d
        /\ Written(d, y) \/ Pending(req[s].todo, y)
    BY <1>1, <2>1, <2>2 DEF Creating, HalfDone
  <2>4. ~There(y)'
    BY <1>1, <1>4, <2>1, <2>3
  <2>5. c \in Clients /\ c # d => ~Written(c, y)'
    <3>. SUFFICES ASSUME c \in Clients, c # d, Written(c, y)'
                  PROVE  FALSE
      OBVIOUS
    <3>1. Pending(req[r].todo, y)
      BY <1>4, <2>3
    <3>2. ~Written(d, y) /\ ~Pending(req[s].todo, y)
      BY <1>1, <2>1, <3>1 DEF Creating, Unmade
    <3>. QED  BY <2>3, <3>2
  <2>6. \A e \in Clients : Written(e, y)' => e = d
    BY <1>4, <2>3, <2>5
  <2>7. Written(d, y) => Written(d, y)'
    BY <1>1, <1>4, <2>1
  <2>. QED  BY <1>1, <2>1, <2>3, <2>4, <2>6, <2>7
<1>13. (req'[s].own = Pool => Sheltered(req'[s].todo)) /\ MakesOnce(req'[s].todo)
  BY <1>1 DEF Creating
<1>. QED  BY <1>8, <1>10, <1>12, <1>13 DEF Creating

\* So what is left to show of a step of request r is that r itself stays in order.
LEMMA OneCreates ==
    ASSUME IInv, WInv, NEW r \in Requests, DbMoves(r), ReqMoves(r), SameIds, Creating(r)'
    PROVE  WInv'
<1>1. \A s \in Requests : Creating(s)'
  BY OthersKeepCreating
<1>2. TiesNamed'
  BY SameTies DEF WInv, TiesNamed
<1>3. SeenNamed'
  <2>. SUFFICES ASSUME NEW x \in Things, There(x)' \/ \E c \in Clients : Written(c, x)'
                PROVE  Named(x)'
    BY DEF SeenNamed
  <2>1. \/ There(x) \/ \E c \in Clients : Written(c, x)
        \/ Pending(req[r].todo, x)
    BY DEF DbMoves, IInv, TypeOK, ReqType
  <2>2. Named(x)
    BY <2>1 DEF WInv, SeenNamed, Creating, Unmade
  <2>. QED  BY <2>2, SameTies
<1>4. LocksHeld'
  BY DEF LocksHeld, DbMoves
<1>. QED  BY <1>1, <1>2, <1>3, <1>4 DEF WInv

-----------------------------------------------------------------------------
(* Lists of calls, and the request that goes on with them.                 *)

LEMMA MakesIsInserting ==
    /\ \A c, x : Makes(c, x) => Inserting(c)
    /\ \A c : Inserting(c) => c.q # "begin"
BY DEF Makes, Inserting

MakesNothing(calls) == \A k \in 1..Len(calls) : ~Inserting(calls[k])

\* More calls that make nothing, in the place of one that makes nothing either.
LEMMA MoreLists ==
    ASSUME NEW old \in Seq(Calls), old # <<>>, ~Inserting(Head(old)), Head(old).q # "begin",
           NEW more \in Seq(InnerCalls), MakesNothing(more)
    PROVE  /\ \A x : Pending(more \o Tail(old), x) <=> Pending(old, x)
           /\ MakesOnce(old) => MakesOnce(more \o Tail(old))
           /\ Sheltered(old) => Sheltered(more \o Tail(old))
           /\ Gentle(old) /\ Gentle(more) => Gentle(more \o Tail(old))
<1>. DEFINE m == Len(more)
            new == more \o Tail(old)
<1>1. /\ m \in Nat /\ Len(old) \in Nat /\ Len(old) # 0 /\ Head(old) = old[1]
      /\ Len(new) = m + Len(old) - 1
      /\ \A l \in 1..Len(new) :
            \/ l \in 1..m /\ new[l] = more[l]
            \/ l > m /\ new[l] = old[l - m + 1] /\ l - m + 1 \in 1..Len(old)
      /\ \A l \in 1..Len(old) : l = 1 \/ (l + m - 1 \in 1..Len(new) /\ new[l + m - 1] = old[l] /\ l + m - 1 > m)
  OBVIOUS
<1>. HIDE DEF m, new
<1>2. \A l \in 1..Len(new) : Inserting(new[l]) =>
          l > m /\ new[l] = old[l - m + 1] /\ l - m + 1 \in 1..Len(old)
  BY <1>1 DEF m, MakesNothing
<1>3. ASSUME NEW x
      PROVE  Pending(new, x) <=> Pending(old, x)
  <2>1. ASSUME Pending(new, x)
        PROVE  Pending(old, x)
    BY <1>2, <2>1, MakesIsInserting DEF Pending
  <2>2. ASSUME Pending(old, x)
        PROVE  Pending(new, x)
    <3>1. PICK l \in 1..Len(old) : Makes(old[l], x)
      BY <2>2 DEF Pending
    <3>2. l # 1
      BY <1>1, <3>1, MakesIsInserting
    <3>. QED  BY <1>1, <3>1, <3>2 DEF Pending
  <2>. QED  BY <2>1, <2>2
<1>4. ASSUME MakesOnce(old)
      PROVE  MakesOnce(new)
  <2>. SUFFICES ASSUME NEW x \in Things, NEW k \in 1..Len(new), NEW l \in 1..Len(new),
                       Makes(new[k], x), Makes(new[l], x)
                PROVE  k = l
    BY DEF MakesOnce
  <2>1. k - m + 1 = l - m + 1
    BY <1>2, <1>4, MakesIsInserting, Zenon DEF MakesOnce
  <2>2. k \in Int /\ l \in Int
    BY <1>1
  <2>. QED  BY <1>1, <2>1, <2>2
<1>5. ASSUME Sheltered(old)
      PROVE  Sheltered(new)
  <2>. SUFFICES ASSUME NEW k \in 1..Len(new), Inserting(new[k])
                PROVE  \E j \in 1..Len(new) : j < k /\ new[j].q = "begin"
    BY DEF Sheltered
  <2>1. k > m /\ new[k] = old[k - m + 1] /\ k - m + 1 \in 1..Len(old)
    BY <1>2
  <2>2. PICK i \in 1..Len(old) : i < k - m + 1 /\ old[i].q = "begin"
    BY <1>5, <2>1 DEF Sheltered
  <2>3. i # 1
    BY <1>1, <2>2
  <2>4. i + m - 1 \in 1..Len(new) /\ new[i + m - 1] = old[i]
    BY <1>1, <2>3
  <2>5. i + m - 1 < k
    BY <1>1, <2>2
  <2>. QED  BY <2>2, <2>4, <2>5
<1>6. Gentle(old) /\ Gentle(more) => Gentle(new)
  BY <1>1, Zenon DEF Gentle, m
<1>. QED  BY <1>3, <1>4, <1>5, <1>6 DEF new

\* The calls after the first.
LEMMA TailLists ==
    ASSUME NEW old \in Seq(Calls), old # <<>>
    PROVE  /\ \A x \in Things : MakesOnce(old) =>
                  (Pending(Tail(old), x) <=> Pending(old, x) /\ ~Makes(Head(old), x))
           /\ \A x \in Things : Makes(Head(old), x) => Pending(old, x)
           /\ MakesOnce(old) => MakesOnce(Tail(old))
           /\ Gentle(old) => Gentle(Tail(old)) /\ Mild(Head(old))
           /\ Sheltered(old) => ~Inserting(Head(old))
<1>1. /\ Len(old) \in Nat /\ Len(old) # 0 /\ Head(old) = old[1] /\ 1 \in 1..Len(old)
      /\ Len(Tail(old)) = Len(old) - 1
      /\ \A l \in 1..Len(Tail(old)) : Tail(old)[l] = old[l + 1] /\ l + 1 \in 1..Len(old)
      /\ \A l \in 1..Len(old) : l = 1 \/ (l - 1 \in 1..Len(Tail(old)) /\ Tail(old)[l - 1] = old[l])
  OBVIOUS
<1>2. ASSUME NEW x \in Things, MakesOnce(old)
      PROVE  Pending(Tail(old), x) <=> Pending(old, x) /\ ~Makes(Head(old), x)
  <2>1. ASSUME Pending(Tail(old), x)
        PROVE  Pending(old, x) /\ ~Makes(Head(old), x)
    <3>1. PICK l \in 1..Len(Tail(old)) : Makes(Tail(old)[l], x)
      BY <2>1 DEF Pending
    <3>2. l + 1 \in 1..Len(old) /\ Makes(old[l + 1], x) /\ l + 1 # 1
      BY <1>1, <3>1
    <3>. QED  BY <1>1, <1>2, <3>2 DEF Pending, MakesOnce
  <2>2. ASSUME Pending(old, x), ~Makes(Head(old), x)
        PROVE  Pending(Tail(old), x)
    BY <1>1, <2>2, Zenon DEF Pending
  <2>. QED  BY <2>1, <2>2
<1>3. \A x \in Things : Makes(Head(old), x) => Pending(old, x)
  BY <1>1 DEF Pending
<1>4. ASSUME MakesOnce(old)
      PROVE  MakesOnce(Tail(old))
  <2>. SUFFICES ASSUME NEW x \in Things, NEW k \in 1..Len(Tail(old)), NEW l \in 1..Len(Tail(old)),
                       Makes(Tail(old)[k], x), Makes(Tail(old)[l], x)
                PROVE  k = l
    BY DEF MakesOnce
  <2>1. k + 1 = l + 1
    BY <1>1, <1>4 DEF MakesOnce
  <2>. QED  BY <2>1
<1>5. Gentle(old) => Gentle(Tail(old)) /\ Mild(Head(old))
  BY <1>1 DEF Gentle
<1>6. Sheltered(old) => ~Inserting(Head(old))
  BY <1>1 DEF Sheltered
<1>. QED  BY <1>2, <1>3, <1>4, <1>5, <1>6

\* A request that has nothing left to do, with no client or an error, is in order.
LEMMA IdleCreates ==
    ASSUME NEW r \in Requests, req'[r].todo = <<>>, req'[r].own = Pool \/ req'[r].err
    PROVE  Creating(r)' /\ \A x : ~Pending(req'[r].todo, x)
<1>1. Len(req'[r].todo) = 0
  OBVIOUS
<1>2. \A x : ~Pending(req'[r].todo, x)
  BY <1>1 DEF Pending
<1>3. Sheltered(req'[r].todo) /\ MakesOnce(req'[r].todo)
  BY <1>1 DEF Sheltered, MakesOnce
<1>4. Unmade(r)' /\ BothToCome(r)'
  BY <1>2 DEF Unmade, BothToCome
<1>5. HalfDone(r)'
  BY TargetsDiffer DEF HalfDone
<1>. QED  BY <1>2, <1>3, <1>4, <1>5 DEF Creating

LEMMA EndsCreating ==
    ASSUME IInv, WInv, NEW r \in Requests, DbMoves(r), SameIds,
           \A s \in Requests \ {r} : req'[s] = req[s],
           req'[r].todo = <<>>, req'[r].own = Pool \/ req'[r].err
    PROVE  WInv'
<1>1. Creating(r)' /\ ReqMoves(r)
  BY IdleCreates DEF ReqMoves
<1>. QED  BY <1>1, OneCreates

LEMMA ThrowsCreating ==
    ASSUME IInv, WInv, NEW r \in Requests, DbMoves(r), SameIds, Throw(r)
    PROVE  WInv'
<1>1. /\ \A s \in Requests \ {r} : req'[s] = req[s]
      /\ req'[r].todo = <<>> /\ (req'[r].own = Pool \/ req'[r].err)
  BY Zenon DEF Throw, IInv, TypeOK
<1>. QED  BY <1>1, EndsCreating

\* What the client of request r has written, a gentle request does not take away.
HoldsOn(r) ==
    \A x \in Things, c \in Clients :
        c = req[r].own /\ Gentle(req[r].todo) /\ Written(c, x) => Written(c, x)'

\* A step in which the calls of r change, but not what it has yet to make.
LEMMA GoesOnCreating ==
    ASSUME IInv, WInv, NEW r \in Requests, DbMoves(r), SameIds, HoldsOn(r),
           \A s \in Requests \ {r} : req'[s] = req[s],
           NEW c, c = req[r].own, req'[r].own = c, req'[r].err = req[r].err,
           NEW new, req'[r].todo = new,
           \A x \in Things : Pending(new, x) <=> Pending(req[r].todo, x),
           MakesOnce(new), c = Pool => Sheltered(new),
           Gentle(req[r].todo) => Gentle(new),
           \A x \in Things : c \in Clients /\ Written(c, x)' => Written(c, x) \/ There(x),
           \A x \in Things : c \in Clients => (There(x)' <=> There(x)),
           c = Pool => \A x \in Things : There(x)' => There(x)
    PROVE  WInv'
<1>1. Creating(r) /\ c \in Clients \cup {Pool}
  BY DEF WInv, IInv, TypeOK, ReqType
<1>2. \A x, y : Tied(x, y)' <=> Tied(x, y)
  BY SameTies
<1>3. \A x : Named(x)' <=> Named(x)
  BY SameTies
<1>4. \A x \in Things, e \in Clients : Written(e, x)' => Written(e, x) \/ (e = c /\ There(x))
  BY DEF DbMoves
<1>5. ReqMoves(r)
  BY DEF ReqMoves
<1>6. \A s \in Requests, x \in Things : Pending(req'[s].todo, x) => Pending(req[s].todo, x)
  BY <1>5 DEF ReqMoves
<1>7. Unmade(r)'
  <2>. SUFFICES ASSUME NEW x \in Things, Pending(new, x)
                PROVE  /\ Named(x)' /\ ~There(x)' /\ \A e \in Clients : ~Written(e, x)'
                       /\ \A s \in Requests : Pending(req'[s].todo, x) => s = r
    BY DEF Unmade
  <2>1. /\ Named(x) /\ ~There(x) /\ \A e \in Clients : ~Written(e, x)
        /\ \A s \in Requests : Pending(req[s].todo, x) => s = r
    BY <1>1 DEF Creating, Unmade
  <2>2. ~There(x)'
    BY <1>1, <2>1
  <2>. QED  BY <1>3, <1>4, <1>6, <2>1, <2>2
<1>8. BothToCome(r)'
  <2>. SUFFICES ASSUME NEW x \in Things, NEW y \in Things, Tied(x, y), Pending(new, x)
                PROVE  /\ Gentle(new)
                       /\ Pending(new, y) \/ (c \in Clients /\ Fresh(c, y)')
    BY <1>2 DEF BothToCome
  <2>1. Gentle(req[r].todo) /\ (Pending(req[r].todo, y) \/ (c \in Clients /\ Fresh(c, y)))
    BY <1>1 DEF Creating, BothToCome
  <2>2. c \in Clients /\ Fresh(c, y) => Fresh(c, y)'
    BY <2>1 DEF Fresh, HoldsOn
  <2>. QED  BY <2>1, <2>2
<1>9. HalfDone(r)'
  <2>. SUFFICES ASSUME NEW x \in Things, NEW y \in Things,
                       c \in Clients, ~req[r].err, Tied(x, y), Fresh(c, x)'
                PROVE  /\ Gentle(new)
                       /\ ~There(y)' /\ \A e \in Clients : Written(e, y)' => e = c
                       /\ Written(c, y)' \/ Pending(new, y)
    BY <1>2 DEF HalfDone
  <2>1. Fresh(c, x)
    BY DEF Fresh
  <2>2. /\ Gentle(req[r].todo) /\ ~There(y) /\ \A e \in Clients : Written(e, y) => e = c
        /\ Written(c, y) \/ Pending(req[r].todo, y)
    BY <1>1, <2>1 DEF Creating, HalfDone
  <2>3. Written(c, y) => Written(c, y)'
    BY <2>2 DEF HoldsOn
  <2>. QED  BY <1>4, <2>2, <2>3
<1>10. Creating(r)'
  BY <1>7, <1>8, <1>9 DEF Creating
<1>. QED  BY <1>5, <1>10, OneCreates

-----------------------------------------------------------------------------
(* The statements.                                                         *)

\* What a write of rows dr and balances db adds to the tables, and takes away.
Adds(dr, db, x)  == IF x[1] = "row" THEN dr[x[2]] \in Row ELSE db[x[2]] \in Balance
Drops(dr, db, x) == IF x[1] = "row" THEN dr[x[2]] = NoRow ELSE db[x[2]] = Gone
\* A statement to t sees thing x.
Sees(t, x) == IF x[1] = "row" THEN RowAt(t, x[2]) # NoRow ELSE BalAt(t, x[2]) # Gone

RowDeltas     == [Txns -> Row \cup {NoRow, Same}]
BalanceDeltas == [Accounts -> Balance \cup {Gone, Same}]

LEMMA ThingCases ==
    \A x \in Things : \/ x[1] = "row" /\ x[2] \in Txns
                      \/ x[1] = "account" /\ x[2] \in Accounts
BY DEF Things

LEMMA DbUnchangedMoves ==
    ASSUME WInv, NEW r \in Requests, UNCHANGED <<row, bal, tx>>
    PROVE  /\ DbMoves(r) /\ HoldsOn(r)
           /\ \A x : There(x)' <=> There(x)
           /\ \A x, c : Written(c, x)' <=> Written(c, x)
<1>1. \A x : There(x)' <=> There(x)
  BY DEF There
<1>2. \A x, c : Written(c, x)' <=> Written(c, x)
  BY DEF Written
<1>3. \A x, c : Touched(c, x)' <=> Touched(c, x)
  BY DEF Touched
<1>. QED  BY <1>1, <1>2, <1>3 DEF DbMoves, HoldsOn, WInv, LocksHeld

\* Outside a transaction, a statement goes to a client that has none either.
LEMMA OutsideIsAutocommit ==
    ASSUME OneEach, IInv, AInv, NEW r \in Requests, req[r].own = Pool, NEW c \in Clients, req[r].on = c
    PROVE  tx[c] = Autocommit
<1>1. lease[c] \in Requests \cup {Free} /\ c # Pool /\ Home[c] = Home[r]
  BY TargetsDiffer DEF IInv, TypeOK, DbTypeOK, AInv, Steady, AtHome
<1>2. ASSUME NEW s \in Requests, lease[c] = s
      PROVE  FALSE
  <2>1. req[s].own = c
    BY <1>2 DEF IInv, PoolDiscipline
  <2>2. Home[c] = Home[s]
    BY <2>1 DEF AInv, Steady, AtHome
  <2>3. s = r
    BY <1>1, <2>2, Zenon DEF OneEach
  <2>. QED  BY <1>1, <2>1, <2>3
<1>. QED  BY <1>1, <1>2 DEF IInv, PoolDiscipline

LEMMA SeesThere ==
    ASSUME OneEach, IInv, AInv, NEW r \in Requests, IsStatement(r), NEW x \in Things, Sees(req[r].on, x)
    PROVE  \/ There(x)
           \/ req[r].own \in Clients /\ Written(req[r].own, x)
<1>1. tx \in [Clients -> Session] /\ req[r].own \in Clients \cup {Pool}
  BY DEF IInv, TypeOK, DbTypeOK, ReqType
<1>2. CASE req[r].own = Pool
  <2>1. req[r].on \in Clients => tx[req[r].on] = Autocommit
    BY <1>2, OutsideIsAutocommit
  <2>2. There(x)
    <3>1. CASE x[1] = "row" /\ x[2] \in Txns
      BY <2>1, <3>1 DEF Sees, RowAt, Autocommit, NoRows, There
    <3>2. CASE x[1] = "account" /\ x[2] \in Accounts
      BY <2>1, <3>2 DEF Sees, BalAt, Autocommit, NoBalances, There
    <3>. QED  BY <3>1, <3>2, ThingCases
  <2>. QED  BY <2>2
<1>3. CASE req[r].own # Pool
  <2>1. req[r].on = req[r].own /\ req[r].own \in Clients /\ tx[req[r].own] \in Session
    BY <1>1, <1>3 DEF AInv, Steady
  <2>2. CASE x[1] = "row" /\ x[2] \in Txns
    BY <2>1, <2>2 DEF Sees, RowAt, There, Written, Session
  <2>3. CASE x[1] = "account" /\ x[2] \in Accounts
    BY <2>1, <2>3 DEF Sees, BalAt, There, Written, Session
  <2>. QED  BY <2>1, <2>2, <2>3, ThingCases
<1>. QED  BY <1>2, <1>3

\* In a transaction, a write is one of its client and of no table.
LEMMA InsideWrite ==
    ASSUME OneEach, IInv, AInv, NEW r \in Requests, IsStatement(r), NEW c \in Clients, c = req[r].own,
           NEW dr \in RowDeltas, NEW db \in BalanceDeltas, Write(req[r].on, dr, db)
    PROVE  /\ \A x : There(x)' <=> There(x)
           /\ \A x : \A e \in Clients : e # c => /\ Written(e, x)' <=> Written(e, x)
                                                 /\ Touched(e, x)' <=> Touched(e, x)
           /\ \A x \in Things :
                 /\ Written(c, x)' <=> Adds(dr, db, x) \/ (Written(c, x) /\ ~Drops(dr, db, x))
                 /\ Touched(c, x)' => \/ Touched(c, x)
                                      \/ \A e \in Clients : Touched(e, x) => e = c
<1>1. tx \in [Clients -> Session] /\ c # Pool /\ ~req[r].err
  BY TargetsDiffer DEF IInv, TypeOK, DbTypeOK, IsStatement, ErrInside
<1>2. req[r].on = c /\ tx[c].state = "open"
  BY <1>1 DEF AInv, Steady
<1>3. /\ tx' = [tx EXCEPT ![c].row = Over(tx[c].row, dr), ![c].bal = Over(tx[c].bal, db)]
      /\ UNCHANGED <<row, bal>> /\ ~Locked(c, dr, db)
  BY <1>1, <1>2 DEF Write
<1>4. tx[c].row \in RowDeltas /\ tx[c].bal \in BalanceDeltas
  BY <1>1 DEF Session, RowDeltas, BalanceDeltas
<1>5. tx'[c].row = Over(tx[c].row, dr) /\ tx'[c].bal = Over(tx[c].bal, db)
  BY <1>1, <1>3 DEF Session
<1>6. /\ \A i \in Txns : tx'[c].row[i] = IF dr[i] = Same THEN tx[c].row[i] ELSE dr[i]
      /\ \A a \in Accounts : tx'[c].bal[a] = IF db[a] = Same THEN tx[c].bal[a] ELSE db[a]
  BY <1>4, <1>5 DEF Over, RowDeltas, BalanceDeltas
<1>7. \A e \in Clients : e # c => tx'[e] = tx[e]
  BY <1>1, <1>3
<1>8. \A x : There(x)' <=> There(x)
  BY <1>3 DEF There
<1>9. \A x : \A e \in Clients : e # c => /\ Written(e, x)' <=> Written(e, x)
                                         /\ Touched(e, x)' <=> Touched(e, x)
  BY <1>7 DEF Written, Touched
<1>10. ASSUME NEW x \in Things
       PROVE  /\ Written(c, x)' <=> Adds(dr, db, x) \/ (Written(c, x) /\ ~Drops(dr, db, x))
              /\ Touched(c, x)' => \/ Touched(c, x)
                                   \/ \A e \in Clients : Touched(e, x) => e = c
  <2>1. CASE x[1] = "row" /\ x[2] \in Txns
    <3>. DEFINE i == x[2]
    <3>1. dr[i] \in Row \cup {NoRow, Same}
      BY <2>1 DEF RowDeltas
    <3>2. Written(c, x)' <=> Adds(dr, db, x) \/ (Written(c, x) /\ ~Drops(dr, db, x))
      BY <1>6, <2>1, <3>1, Sentinels DEF Written, Adds, Drops
    <3>3. dr[i] # Same => \A e \in Clients : tx[e].row[i] # Same => e = c
      BY <1>3, <2>1 DEF Locked
    <3>4. Touched(c, x)' => \/ Touched(c, x)
                            \/ \A e \in Clients : Touched(e, x) => e = c
      BY <1>6, <2>1, <3>3 DEF Touched
    <3>. QED  BY <3>2, <3>4
  <2>2. CASE x[1] = "account" /\ x[2] \in Accounts
    <3>. DEFINE a == x[2]
    <3>1. db[a] \in Balance \cup {Gone, Same}
      BY <2>2 DEF BalanceDeltas
    <3>2. Written(c, x)' <=> Adds(dr, db, x) \/ (Written(c, x) /\ ~Drops(dr, db, x))
      BY <1>6, <2>2, <3>1, Sentinels DEF Written, Adds, Drops
    <3>3. db[a] # Same => \A e \in Clients : tx[e].bal[a] # Same => e = c
      BY <1>3, <2>2 DEF Locked
    <3>4. Touched(c, x)' => \/ Touched(c, x)
                            \/ \A e \in Clients : Touched(e, x) => e = c
      BY <1>6, <2>2, <3>3 DEF Touched
    <3>. QED  BY <3>2, <3>4
  <2>. QED  BY <2>1, <2>2, ThingCases
<1>. QED  BY <1>8, <1>9, <1>10

\* Outside one it is a write of the tables, and of what no client has touched.
LEMMA OutsideWrite ==
    ASSUME OneEach, IInv, AInv, NEW r \in Requests, IsStatement(r), req[r].own = Pool,
           NEW dr \in RowDeltas, NEW db \in BalanceDeltas, Write(req[r].on, dr, db)
    PROVE  /\ \A x, c : (Written(c, x)' <=> Written(c, x)) /\ (Touched(c, x)' <=> Touched(c, x))
           /\ \A x \in Things :
                 /\ There(x)' <=> Adds(dr, db, x) \/ (There(x) /\ ~Drops(dr, db, x))
                 /\ Drops(dr, db, x) => \A c \in Clients : ~Written(c, x)
<1>1. row \in [Txns -> Row \cup {NoRow}] /\ bal \in [Accounts -> Balance \cup {Gone}]
  BY DEF IInv, TypeOK, DbTypeOK
<1>2. req[r].on \in Clients => tx[req[r].on] = Autocommit
  BY OutsideIsAutocommit
<1>3. row' = Over(row, dr) /\ bal' = Over(bal, db) /\ tx' = tx /\ ~Locked(req[r].on, dr, db)
  BY <1>2, AutocommitType DEF Write
<1>4. \A x, c : (Written(c, x)' <=> Written(c, x)) /\ (Touched(c, x)' <=> Touched(c, x))
  BY <1>3 DEF Written, Touched
<1>5. /\ \A i \in Txns : row'[i] = IF dr[i] = Same THEN row[i] ELSE dr[i]
      /\ \A a \in Accounts : bal'[a] = IF db[a] = Same THEN bal[a] ELSE db[a]
  BY <1>1, <1>3 DEF Over
<1>6. ASSUME NEW x \in Things
      PROVE  /\ There(x)' <=> Adds(dr, db, x) \/ (There(x) /\ ~Drops(dr, db, x))
             /\ Drops(dr, db, x) => \A c \in Clients : ~Written(c, x)
  <2>1. CASE x[1] = "row" /\ x[2] \in Txns
    <3>. DEFINE i == x[2]
    <3>1. dr[i] \in Row \cup {NoRow, Same} /\ row[i] \in Row \cup {NoRow}
      BY <1>1, <2>1 DEF RowDeltas
    <3>2. There(x)' <=> Adds(dr, db, x) \/ (There(x) /\ ~Drops(dr, db, x))
      BY <1>5, <2>1, <3>1, Sentinels DEF There, Adds, Drops
    <3>3. dr[i] # Same => \A c \in Clients : c # req[r].on => tx[c].row[i] = Same
      BY <1>3, <2>1 DEF Locked
    <3>4. \A c \in Clients : c = req[r].on => tx[c].row[i] = Same
      BY <1>2, <2>1 DEF Autocommit, NoRows
    <3>5. Drops(dr, db, x) => \A c \in Clients : ~Written(c, x)
      BY <2>1, <3>3, <3>4, Sentinels DEF Drops, Written
    <3>. QED  BY <3>2, <3>5
  <2>2. CASE x[1] = "account" /\ x[2] \in Accounts
    <3>. DEFINE a == x[2]
    <3>1. db[a] \in Balance \cup {Gone, Same} /\ bal[a] \in Balance \cup {Gone}
      BY <1>1, <2>2 DEF BalanceDeltas
    <3>2. There(x)' <=> Adds(dr, db, x) \/ (There(x) /\ ~Drops(dr, db, x))
      BY <1>5, <2>2, <3>1, Sentinels DEF There, Adds, Drops
    <3>3. db[a] # Same => \A c \in Clients : c # req[r].on => tx[c].bal[a] = Same
      BY <1>3, <2>2 DEF Locked
    <3>4. \A c \in Clients : c = req[r].on => tx[c].bal[a] = Same
      BY <1>2, <2>2 DEF Autocommit, NoBalances
    <3>5. Drops(dr, db, x) => \A c \in Clients : ~Written(c, x)
      BY <2>2, <3>3, <3>4, Sentinels DEF Drops, Written
    <3>. QED  BY <3>2, <3>5
  <2>. QED  BY <2>1, <2>2, ThingCases
<1>. QED  BY <1>4, <1>6

-----------------------------------------------------------------------------
(* Steps that make nothing.                                                *)

\* In the database, the step of request r shows nothing new.
ShowsNothing(r) ==
    \A x \in Things, c \in Clients \cup {Pool} : c = req[r].own =>
        /\ c \in Clients /\ Written(c, x)' => Written(c, x) \/ There(x)
        /\ c \in Clients => (There(x)' <=> There(x))
        /\ c = Pool => (There(x)' => There(x))

LEMMA ContinuesCreating ==
    ASSUME IInv, WInv, NEW r \in Requests, DbMoves(r), SameIds, HoldsOn(r), ShowsNothing(r),
           req[r].todo # <<>>, ~Inserting(Call(r)), Call(r).q # "begin",
           NEW more \in Seq(InnerCalls), MakesNothing(more),
           Mild(Call(r)) => Gentle(more),
           NEW p \in [Repos -> Targets], GoOn(r, req[r].own, more \o Tail(req[r].todo), p)
    PROVE  WInv'
<1>. DEFINE old == req[r].todo
            new == more \o Tail(old)
<1>1. TypeOK /\ Creating(r) /\ old \in Seq(Calls) /\ Tail(old) \in Seq(Calls) /\ ~req[r].err
  BY HeadIsCall DEF IInv, WInv, ErrInside
<1>2. PICK c \in Clients \cup {Pool} : c = req[r].own
  BY <1>1 DEF TypeOK, ReqType
<1>3. new \in Seq(Calls)
  BY <1>1, InnerIsNotBegin
<1>4. /\ \A s \in Requests \ {r} : req'[s] = req[s]
      /\ req'[r].todo = new /\ req'[r].own = c /\ req'[r].err = FALSE
  BY <1>1, <1>2, <1>3, GoOnType, Zenon
<1>5. req'[r].err = req[r].err
  BY <1>1, <1>4, Zenon DEF TypeOK, ReqType
<1>6. Mild(Head(old)) /\ Gentle(old) => Gentle(more)
  BY DEF Call
<1>7. Gentle(old) => Mild(Head(old))
  BY <1>1, TailLists
<1>8. /\ \A x : Pending(new, x) <=> Pending(old, x)
      /\ MakesOnce(old) => MakesOnce(new)
      /\ Sheltered(old) => Sheltered(new)
      /\ Gentle(old) /\ Gentle(more) => Gentle(new)
  <2>1. ~Inserting(Head(old)) /\ Head(old).q # "begin"
    BY DEF Call
  <2>. HIDE DEF old
  <2>. QED  BY <1>1, <2>1, MoreLists
<1>9. MakesOnce(old) /\ (c = Pool => Sheltered(old))
  BY <1>1, <1>2 DEF Creating
<1>10. /\ \A x \in Things : c \in Clients /\ Written(c, x)' => Written(c, x) \/ There(x)
       /\ \A x \in Things : c \in Clients => (There(x)' <=> There(x))
       /\ c = Pool => \A x \in Things : There(x)' => There(x)
  BY <1>2 DEF ShowsNothing
<1>. HIDE DEF new
<1>. QED  BY <1>2, <1>4, <1>5, <1>6, <1>7, <1>8, <1>9, <1>10, GoesOnCreating

LEMMA QuietlyCreating ==
    ASSUME IInv, WInv, NEW r \in Requests, UNCHANGED <<row, bal, tx>>, SameIds,
           req[r].todo # <<>>, ~Inserting(Call(r)), Call(r).q # "begin",
           NEW more \in Seq(InnerCalls), MakesNothing(more),
           Mild(Call(r)) => Gentle(more),
           Continue(r, more) \/ Throw(r)
    PROVE  WInv'
<1>1. DbMoves(r) /\ HoldsOn(r) /\ ShowsNothing(r)
  BY DbUnchangedMoves DEF ShowsNothing
<1>2. ptr[Home[r]] \in [Repos -> Targets]
  BY PointersOf DEF IInv
<1>3. CASE Throw(r)
  BY <1>1, <1>3, ThrowsCreating
<1>4. CASE Continue(r, more)
  BY <1>1, <1>2, <1>4, ContinuesCreating DEF Continue
<1>. QED  BY <1>3, <1>4

\* A write that adds only what the statement sees.
LEMMA WriteMoves ==
    ASSUME OneEach, IInv, AInv, WInv, NEW r \in Requests, IsStatement(r),
           NEW dr \in RowDeltas, NEW db \in BalanceDeltas, Write(req[r].on, dr, db),
           \A x \in Things : Adds(dr, db, x) => Sees(req[r].on, x),
           Mild(Call(r)) => \A x \in Things : ~Drops(dr, db, x)
    PROVE  DbMoves(r) /\ HoldsOn(r) /\ ShowsNothing(r)
<1>1. PICK c \in Clients \cup {Pool} : c = req[r].own
  BY DEF IInv, TypeOK, ReqType
<1>2. \A x \in Things : Adds(dr, db, x) => There(x) \/ (c \in Clients /\ Written(c, x))
  BY <1>1, SeesThere
<1>3. Gentle(req[r].todo) => \A x \in Things : ~Drops(dr, db, x)
  <2>1. req[r].todo \in Seq(Calls) /\ req[r].todo # <<>>
    BY HeadIsCall DEF IInv, IsStatement
  <2>. QED  BY <2>1, TailLists DEF Call
<1>4. LocksHeld
  BY DEF WInv
<1>5. CASE c = Pool
  <2>1. /\ \A x, e : (Written(e, x)' <=> Written(e, x)) /\ (Touched(e, x)' <=> Touched(e, x))
        /\ \A x \in Things :
              /\ There(x)' <=> Adds(dr, db, x) \/ (There(x) /\ ~Drops(dr, db, x))
              /\ Drops(dr, db, x) => \A e \in Clients : ~Written(e, x)
    BY <1>1, <1>5, OutsideWrite, Zenon
  <2>2. \A x \in Things : There(x)' => There(x)
    BY <1>2, <1>5, <2>1, TargetsDiffer
  <2>3. \A x \in Things : There(x) /\ ~There(x)' => \A e \in Clients : ~Written(e, x)
    BY <2>1
  <2>4. DbMoves(r)
    BY <1>1, <1>4, <2>1, <2>2, <2>3 DEF DbMoves, LocksHeld
  <2>5. HoldsOn(r)
    BY <2>1 DEF HoldsOn
  <2>6. ShowsNothing(r)
    BY <1>1, <1>5, <2>2, TargetsDiffer, Zenon DEF ShowsNothing
  <2>. QED  BY <2>4, <2>5, <2>6
<1>6. CASE c \in Clients
  <2>1. /\ \A x : There(x)' <=> There(x)
        /\ \A x : \A e \in Clients : e # c => /\ Written(e, x)' <=> Written(e, x)
                                              /\ Touched(e, x)' <=> Touched(e, x)
        /\ \A x \in Things :
              /\ Written(c, x)' <=> Adds(dr, db, x) \/ (Written(c, x) /\ ~Drops(dr, db, x))
              /\ Touched(c, x)' => \/ Touched(c, x)
                                   \/ \A e \in Clients : Touched(e, x) => e = c
    BY <1>1, <1>6, InsideWrite
  <2>2. \A x \in Things, d, e \in Clients : Touched(d, x)' /\ Touched(e, x)' => d = e
    <3>. SUFFICES ASSUME NEW x \in Things, NEW d \in Clients, NEW e \in Clients,
                         Touched(d, x)', Touched(e, x)', d # e
                  PROVE  FALSE
      OBVIOUS
    <3>1. (d # c => Touched(d, x)) /\ (e # c => Touched(e, x))
      BY <2>1
    <3>2. Touched(c, x)' => \/ Touched(c, x)
                            \/ \A f \in Clients : Touched(f, x) => f = c
      BY <2>1
    <3>. QED  BY <1>4, <1>6, <3>1, <3>2 DEF LocksHeld
  <2>3. \A x \in Things : Written(c, x)' => Written(c, x) \/ There(x)
    BY <1>2, <2>1
  <2>4. DbMoves(r)
    BY <1>1, <1>6, <2>1, <2>2, <2>3 DEF DbMoves
  <2>5. HoldsOn(r)
    BY <1>1, <1>3, <2>1 DEF HoldsOn
  <2>6. ShowsNothing(r)
    BY <1>1, <1>6, <2>1, <2>3, TargetsDiffer DEF ShowsNothing
  <2>. QED  BY <2>4, <2>5, <2>6
<1>. QED  BY <1>5, <1>6

LEMMA WritesCreating ==
    ASSUME OneEach, IInv, AInv, WInv, NEW r \in Requests, IsStatement(r), ~Inserting(Call(r)),
           NEW dr \in RowDeltas, NEW db \in BalanceDeltas, Write(req[r].on, dr, db), SameIds,
           \A x \in Things : Adds(dr, db, x) => Sees(req[r].on, x),
           Mild(Call(r)) => \A x \in Things : ~Drops(dr, db, x),
           Continue(r, <<>>)
    PROVE  WInv' /\ NothingNew
<1>1. DbMoves(r) /\ HoldsOn(r) /\ ShowsNothing(r)
  BY WriteMoves
<1>2. /\ ptr[Home[r]] \in [Repos -> Targets] /\ <<>> \in Seq(InnerCalls) /\ Len(<<>>) = 0
      /\ req[r].todo # <<>> /\ Call(r).q # "begin"
  BY PointersOf DEF IInv, IsStatement
<1>3. Gentle(<<>>) /\ MakesNothing(<<>>)
  BY <1>2 DEF Gentle, MakesNothing
<1>4. GoOn(r, req[r].own, <<>> \o Tail(req[r].todo), ptr[Home[r]])
  BY DEF Continue
<1>5. NothingNew
  BY <1>1 DEF ShowsNothing, NothingNew, IInv, TypeOK, ReqType
<1>. QED  BY <1>1, <1>2, <1>3, <1>4, <1>5, ContinuesCreating, Zenon

\* A statement that fails takes back what its client has written.
LEMMA FailureCreating ==
    ASSUME OneEach, IInv, AInv, WInv, NEW r \in Requests, StatementFails(req[r].on), SameIds, Throw(r),
           IsStatement(r)
    PROVE  WInv'
<1>1. tx \in [Clients -> Session] /\ row' = row /\ bal' = bal /\ LocksHeld /\ req[r].own \in Clients \cup {Pool}
  BY DEF IInv, TypeOK, DbTypeOK, StatementFails, WInv, ReqType
<1>2. ASSUME NEW c \in Clients
      PROVE  tx'[c] = tx[c] \/ (c = req[r].own /\ tx'[c].row = NoRows /\ tx'[c].bal = NoBalances)
  <2>1. CASE req[r].own = Pool
    <3>1. req[r].on \in Clients => tx[req[r].on] = Autocommit
      BY <2>1, OutsideIsAutocommit
    <3>. QED  BY <3>1, AutocommitType DEF StatementFails
  <2>2. CASE req[r].own # Pool
    <3>1. req[r].on = req[r].own
      BY <2>2 DEF AInv, Steady
    <3>2. [Autocommit EXCEPT !.state = "aborted"].row = NoRows
          /\ [Autocommit EXCEPT !.state = "aborted"].bal = NoBalances
      BY DEF Autocommit
    <3>. QED  BY <1>1, <3>1, <3>2 DEF StatementFails
  <2>. QED  BY <2>1, <2>2
<1>3. \A x : There(x)' <=> There(x)
  BY <1>1 DEF There
<1>4. ASSUME NEW c \in Clients, NEW x \in Things
      PROVE  /\ Written(c, x)' => Written(c, x)
             /\ Touched(c, x)' => Touched(c, x)
             /\ c # req[r].own => (Written(c, x)' <=> Written(c, x))
  <2>1. CASE tx'[c] = tx[c]
    BY <2>1 DEF Written, Touched
  <2>2. CASE c = req[r].own /\ tx'[c].row = NoRows /\ tx'[c].bal = NoBalances
    BY <2>2, ThingCases, Sentinels DEF Written, Touched, NoRows, NoBalances
  <2>. QED  BY <1>2, <2>1, <2>2
<1>5. DbMoves(r)
  BY <1>1, <1>3, <1>4 DEF DbMoves, LocksHeld
<1>. QED  BY <1>5, ThrowsCreating

-----------------------------------------------------------------------------
(* Every step that makes nothing.                                          *)

LEMMA ShortLists ==
    /\ MakesNothing(<<>>) /\ Gentle(<<>>)
    /\ \A c : /\ ~Inserting(c) => MakesNothing(<<c>>)
              /\ Mild(c) => Gentle(<<c>>)
    /\ \A c, d : ~Inserting(c) /\ ~Inserting(d) => MakesNothing(<<c, d>>)
BY DEF MakesNothing, Gentle

LEMMA StatementVia ==
    ASSUME NEW c \in InnerCalls,
           c.q \in {"find", "insert", "put", "remove", "sum", "setbal", "findacc", "count",
                    "newacc", "putacc", "delacc"}
    PROVE  c.via # "-"
BY DEF InnerCalls, Repos

LEMMA AtIsStatement ==
    ASSUME IInv, NEW r \in Requests,
           NEW q \in {"find", "insert", "put", "remove", "sum", "setbal", "findacc", "count",
                      "newacc", "putacc", "delacc"}, Statement(r, q)
    PROVE  /\ req[r].todo # <<>> /\ Call(r).q = q /\ q # "begin" /\ Call(r) \in InnerCalls
           /\ IsStatement(r)
<1>1. req[r].todo # <<>> /\ Call(r).q = q /\ Call(r) \in InnerCalls /\ q # "begin"
  BY AtStatement
<1>. QED  BY <1>1, StatementVia DEF IsStatement

\* The calls that are added once a row has been read are no INSERTs.
LEMMA AfterFindMakesNothing ==
    ASSUME NEW c \in InnerCalls, c.q = "find", NEW x
    PROVE  MakesNothing(AfterFind(c, x))
<1>1. /\ \A i, y : ~Inserting(Put(i, y))
      /\ \A i : ~Inserting(Remove(i))
      /\ \A S, h, i : ~Inserting(ForEach(S, h, i))
      /\ \A i, h, y : ~Inserting(Find(i, h, y))
      /\ \A S : ~Inserting(Aim(S))
      /\ \A a : ~Inserting(SaveBalance(a))
  BY DEF Inserting, Put, Remove, ForEach, Find, Aim, SaveBalance, Stats
<1>2. CASE c.how = "edit"
  <2>1. MakesNothing(AfterEdit(c, x))
    <3>1. /\ ~Inserting(Put(c.id, Edited(x, c.arg))) /\ ~Inserting(SaveBalance(x.acct))
          /\ ~Inserting(SaveBalance(c.arg.acct))
      BY <1>1
    <3>. QED  BY <3>1 DEF AfterEdit, MakesNothing
  <2>. QED  BY <1>2, <2>1 DEF AfterFind
<1>3. CASE c.how = "delete"
  <2>1. MakesNothing(AfterDelete(c, x))
    <3>1. /\ ~Inserting(Aim({"trx"})) /\ ~Inserting(Find(c.id, "unlinkAll", c.id))
          /\ ~Inserting(Remove(c.id)) /\ ~Inserting(SaveBalance(x.acct))
      BY <1>1
    <3>. QED  BY <3>1 DEF AfterDelete, MakesNothing
  <2>. QED  BY <1>3, <2>1 DEF AfterFind
<1>4. CASE c.how = "unlinkAll"
  <2>1. ~Inserting(Put(c.id, [x EXCEPT !.links = {}])) /\ ~Inserting(ForEach(x.links, "linkDrop", c.id))
    BY <1>1
  <2>2. MakesNothing(AfterUnlinkAll(c, x))
    BY <2>1, ShortLists DEF AfterUnlinkAll
  <2>. QED  BY <1>4, <2>2 DEF AfterFind
<1>5. CASE c.how = "linkFrom"
  <2>1. ~Inserting(Find(c.arg, "linkTo", [id |-> c.id, row |-> x]))
    BY <1>1
  <2>. QED  BY <1>5, <2>1, ShortLists DEF AfterFind
<1>6. CASE c.how = "linkTo"
  <2>1. ~Inserting(Put(c.arg.id, WithLink(c.arg.row, c.id))) /\ ~Inserting(Put(c.id, WithLink(x, c.arg.id)))
    BY <1>1
  <2>2. MakesNothing(AfterLinkTo(c, x))
    BY <2>1 DEF AfterLinkTo, MakesNothing
  <2>. QED  BY <1>6, <2>2 DEF AfterFind
<1>7. CASE c.how = "unlinkFrom"
  <2>1. ~Inserting(Put(c.id, WithoutLink(x, c.arg))) /\ ~Inserting(Find(c.arg, "linkDrop", c.id))
    BY <1>1
  <2>. QED  BY <1>7, <2>1, ShortLists DEF AfterFind
<1>8. CASE c.how \in {"linkBack", "linkDrop"}
  <2>1. ~Inserting(Put(c.id, WithLink(x, c.arg))) /\ ~Inserting(Put(c.id, WithoutLink(x, c.arg)))
    BY <1>1
  <2>. QED  BY <1>8, <2>1, ShortLists DEF AfterFind
<1>9. c.how \in {"edit", "linkTo", "delete", "unlinkAll", "linkFrom", "unlinkFrom", "linkBack", "linkDrop"}
  BY FindFields
<1>. QED  BY <1>2, <1>3, <1>4, <1>5, <1>6, <1>7, <1>8, <1>9

LEMMA RunAimCreating ==
    ASSUME IInv, WInv, NEW r \in Requests, RunAim(r)
    PROVE  WInv'
<1>. DEFINE p == [k \in Repos |-> IF k \in Call(r).repos THEN req[r].own ELSE ptr[Home[r]][k]]
<1>1. req[r].todo # <<>> /\ Call(r).q = "aim" /\ GoOn(r, req[r].own, Tail(req[r].todo), p) /\ TypeOK
  BY DEF RunAim, At, IInv
<1>2. req[r] \in ReqType /\ Tail(req[r].todo) \in Seq(Calls)
  BY <1>1, HeadIsCall
<1>3. p \in [Repos -> Targets]
  BY <1>1, <1>2, PointersOf DEF ReqType, Targets
<1>4. GoOn(r, req[r].own, <<>> \o Tail(req[r].todo), p)
  BY <1>1, <1>2
<1>5. UNCHANGED <<row, bal, tx>> /\ SameIds
  BY DEF RunAim, dbVars
<1>6. DbMoves(r) /\ HoldsOn(r) /\ ShowsNothing(r)
  BY <1>5, DbUnchangedMoves DEF ShowsNothing
<1>7. ~Inserting(Call(r)) /\ Call(r).q # "begin" /\ <<>> \in Seq(InnerCalls)
  BY <1>1 DEF Inserting
<1>. HIDE DEF p
<1>. QED  BY <1>1, <1>3, <1>4, <1>5, <1>6, <1>7, ShortLists, ContinuesCreating, Zenon

LEMMA RunForEachCreating ==
    ASSUME IInv, WInv, NEW r \in Requests, RunForEach(r)
    PROVE  WInv'
<1>. DEFINE c == Call(r)
<1>1. req[r].todo # <<>> /\ c.q = "each" /\ c \in InnerCalls
  BY AtInner DEF RunForEach
<1>2. c.ids \in SUBSET Txns /\ c.how \in {"linkBack", "linkDrop"} /\ c.other \in Txns
  BY <1>1, StatementFields
<1>3. ~Inserting(c) /\ c.q # "begin" /\ ~Mild(c)
  BY <1>1 DEF Inserting, Mild
<1>4. UNCHANGED <<row, bal, tx>> /\ SameIds
  BY DEF RunForEach, dbVars
<1>5. ASSUME Continue(r, <<>>)
      PROVE  WInv'
  BY <1>1, <1>3, <1>4, <1>5, ShortLists, SmallSeqs, QuietlyCreating, Zenon
<1>6. ASSUME NEW i \in c.ids,
             Continue(r, <<Find(i, c.how, c.other), ForEach(c.ids \ {i}, c.how, c.other)>>)
      PROVE  WInv'
  <2>. DEFINE f == Find(i, c.how, c.other)
              e == ForEach(c.ids \ {i}, c.how, c.other)
  <2>1. f \in InnerCalls /\ e \in InnerCalls
    BY <1>2, FindCalls, LoopCalls
  <2>2. ~Inserting(f) /\ ~Inserting(e)
    BY DEF Inserting, Find, ForEach
  <2>3. <<f, e>> \in Seq(InnerCalls)
    BY <2>1
  <2>4. Continue(r, <<f, e>>)
    BY <1>6
  <2>. HIDE DEF f, e
  <2>5. MakesNothing(<<f, e>>)
    BY <2>2, ShortLists
  <2>. QED  BY <1>1, <1>3, <1>4, <2>3, <2>4, <2>5, QuietlyCreating, Zenon
<1>. QED  BY <1>5, <1>6, Zenon DEF RunForEach

LEMMA UseSumCreating ==
    ASSUME IInv, WInv, NEW r \in Requests, req[r].todo # <<>>,
           Call(r).q \in {"lookup", "sum", "fill"}, UNCHANGED <<row, bal, tx>>, SameIds,
           NEW a \in Accounts, NEW b \in Balance, NEW u \in Uses, UseSum(r, a, b, u)
    PROVE  WInv'
<1>1. ~Inserting(Call(r)) /\ Call(r).q # "begin"
  BY DEF Inserting
<1>2. CASE u \in Repos
  <2>1. Continue(r, <<SetBalance(a, b, u)>>)
    BY <1>2 DEF UseSum, Repos
  <2>2. SetBalance(a, b, u) \in InnerCalls
    BY <1>2, AccountCalls
  <2>3. ~Inserting(SetBalance(a, b, u)) /\ Mild(SetBalance(a, b, u))
    BY DEF Inserting, Mild, SetBalance
  <2>. QED  BY <1>1, <2>1, <2>2, <2>3, ShortLists, SmallSeqs, QuietlyCreating, Zenon
<1>3. CASE u \notin Repos
  <2>1. Continue(r, <<>>) \/ Throw(r)
    BY <1>3 DEF UseSum, Repos
  <2>. QED  BY <1>1, <2>1, ShortLists, SmallSeqs, QuietlyCreating, Zenon
<1>. QED  BY <1>2, <1>3

LEMMA LookupCreating ==
    ASSUME IInv, WInv, NEW r \in Requests, Lookup(r)
    PROVE  WInv'
<1>. DEFINE c   == Call(r)
            hit == cache[Home[r]][c.acct]
<1>1. req[r].todo # <<>> /\ c.q = "lookup" /\ c \in InnerCalls /\ UNCHANGED <<row, bal, tx>> /\ SameIds
  BY AtInner DEF Lookup, dbVars
<1>2. c.acct \in Accounts /\ c.use \in Uses /\ SumRows(c) \in InnerCalls
  BY <1>1, LookupFields
<1>3. hit \in Balance \cup {Miss}
  BY <1>2, HomeType DEF IInv, TypeOK
<1>4. Continue(r, <<SumRows(c)>>) \/ (hit # Miss /\ UseSum(r, c.acct, hit, c.use))
  BY DEF Lookup
<1>5. ~Inserting(c) /\ c.q # "begin" /\ ~Inserting(SumRows(c)) /\ Mild(SumRows(c))
  BY <1>1 DEF Inserting, SumRows, Mild
<1>6. CASE Continue(r, <<SumRows(c)>>)
  BY <1>1, <1>2, <1>5, <1>6, ShortLists, SmallSeqs, QuietlyCreating, Zenon
<1>7. CASE hit # Miss /\ UseSum(r, c.acct, hit, c.use)
  BY <1>1, <1>2, <1>3, <1>7, UseSumCreating
<1>. QED  BY <1>4, <1>6, <1>7

LEMMA FillCacheCreating ==
    ASSUME IInv, WInv, NEW r \in Requests, FillCache(r)
    PROVE  WInv'
<1>1. req[r].todo # <<>> /\ Call(r).q = "fill" /\ Call(r) \in InnerCalls /\ UNCHANGED <<row, bal, tx>> /\ SameIds
  BY AtInner DEF FillCache, dbVars
<1>2. Call(r).acct \in Accounts /\ Call(r).use \in Uses /\ Call(r).seen \in Balance
  BY <1>1, LookupFields
<1>. QED  BY <1>1, <1>2, UseSumCreating DEF FillCache

LEMMA SumAccountCreating ==
    ASSUME IInv, WInv, NEW r \in Requests, SumAccount(r)
    PROVE  WInv'
<1>. DEFINE c == Call(r)
            b == SumAt(req[r].on, c.acct)
<1>1. req[r].todo # <<>> /\ c.q = "sum" /\ c \in InnerCalls /\ UNCHANGED <<row, bal, tx>> /\ SameIds
  BY AtStatement DEF SumAccount, Otherwise, dbVars
<1>2. b \in Balance
  BY <1>1, LookupFields, ReadTypes, Zenon DEF IInv
<1>3. Fill(c, b) \in InnerCalls /\ Continue(r, <<Fill(c, b)>>)
  BY <1>1, <1>2, LookupFields DEF SumAccount
<1>4. ~Inserting(c) /\ c.q # "begin" /\ ~Inserting(Fill(c, b)) /\ Mild(Fill(c, b))
  BY <1>1 DEF Inserting, Fill, Mild
<1>. QED  BY <1>1, <1>3, <1>4, ShortLists, SmallSeqs, QuietlyCreating, Zenon

LEMMA FindRowCreating ==
    ASSUME IInv, WInv, NEW r \in Requests, FindRow(r)
    PROVE  WInv'
<1>. DEFINE c == Call(r)
            x == RowAt(req[r].on, c.id)
<1>1. req[r].todo # <<>> /\ c.q = "find" /\ c \in InnerCalls /\ UNCHANGED <<row, bal, tx>> /\ SameIds
  BY AtStatement DEF FindRow, Otherwise, dbVars
<1>2. x \in Row \cup {NoRow}
  BY <1>1, FindFields, ReadTypes DEF IInv
<1>3. IF Refused(c, x) THEN Throw(r) ELSE Continue(r, AfterFind(c, x))
  BY DEF FindRow
<1>4. ~Inserting(c) /\ c.q # "begin" /\ ~Mild(c)
  BY <1>1 DEF Inserting, Mild
<1>5. CASE Refused(c, x)
  BY <1>1, <1>3, <1>4, <1>5, ShortLists, SmallSeqs, QuietlyCreating, Zenon
<1>6. CASE ~Refused(c, x)
  <2>1. AfterFind(c, x) \in Seq(InnerCalls) /\ MakesNothing(AfterFind(c, x))
    BY <1>1, <1>2, <1>6, AfterFindType, AfterFindMakesNothing
  <2>. QED  BY <1>1, <1>3, <1>4, <1>6, <2>1, QuietlyCreating
<1>. QED  BY <1>5, <1>6

LEMMA ReadAccountCreating ==
    ASSUME IInv, WInv, NEW r \in Requests, ReadAccount(r)
    PROVE  WInv'
<1>. DEFINE c == Call(r)
            b == BalAt(req[r].on, c.acct)
<1>1. req[r].todo # <<>> /\ c.q = "findacc" /\ c \in InnerCalls /\ UNCHANGED <<row, bal, tx>> /\ SameIds
  BY AtStatement DEF ReadAccount, Otherwise, dbVars
<1>2. c.acct \in Accounts
  BY <1>1, StatementFields
<1>3. b \in Balance \cup {Gone} /\ Typed \in Balance
  BY <1>2, ReadTypes DEF IInv, Typed, Balance
<1>4. ~Inserting(c) /\ c.q # "begin"
  BY <1>1 DEF Inserting
<1>5. \/ Throw(r)
      \/ Continue(r, <<>>)
      \/ c.use # "exists" /\ b # Gone /\ Continue(r, <<PutAccount(c.acct, b)>>)
      \/ c.use # "exists" /\ Continue(r, <<PutAccount(c.acct, Typed)>>)
      \/ c.use # "exists" /\ Continue(r, <<RemoveAccount(c.acct)>>)
  BY DEF ReadAccount
<1>6. CASE Throw(r) \/ Continue(r, <<>>)
  BY <1>1, <1>4, <1>6, ShortLists, SmallSeqs, QuietlyCreating, Zenon
<1>7. ASSUME NEW d \in InnerCalls, d.q \in {"putacc", "delacc"}, c.use # "exists", Continue(r, <<d>>)
      PROVE  WInv'
  <2>1. ~Mild(c)
    BY <1>1, <1>7 DEF Mild
  <2>2. ~Inserting(d)
    BY <1>7 DEF Inserting
  <2>. HIDE DEF c
  <2>. QED  BY <1>1, <1>4, <1>7, <2>1, <2>2, ShortLists, SmallSeqs, QuietlyCreating, Zenon DEF c
<1>8. /\ b # Gone => PutAccount(c.acct, b) \in InnerCalls
      /\ PutAccount(c.acct, Typed) \in InnerCalls /\ RemoveAccount(c.acct) \in InnerCalls
  BY <1>2, <1>3, AccountCalls
<1>9. PutAccount(c.acct, b).q = "putacc" /\ PutAccount(c.acct, Typed).q = "putacc" /\ RemoveAccount(c.acct).q = "delacc"
  BY DEF PutAccount, RemoveAccount
<1>. HIDE DEF b, c
<1>. QED  BY <1>5, <1>6, <1>7, <1>8, <1>9

LEMMA CheckLimitCreating ==
    ASSUME IInv, WInv, NEW r \in Requests, CheckLimit(r)
    PROVE  WInv'
<1>1. req[r].todo # <<>> /\ Call(r).q = "count" /\ UNCHANGED <<row, bal, tx>> /\ SameIds
  BY DEF CheckLimit, Statement, At, Otherwise, dbVars
<1>2. ~Inserting(Call(r)) /\ Call(r).q # "begin"
  BY <1>1 DEF Inserting
<1>. QED  BY <1>1, <1>2, ShortLists, SmallSeqs, QuietlyCreating, Zenon DEF CheckLimit

LEMMA FailuresCreating ==
    ASSUME OneEach, IInv, AInv, WInv, NEW r \in Requests, RefuseRow(r) \/ Fail(r)
    PROVE  WInv'
<1>1. /\ Throw(r) /\ SameIds /\ (StatementFails(req[r].on) \/ UNCHANGED dbVars)
  BY DEF RefuseRow, Fail, Otherwise
<1>2. IsStatement(r)
  BY AtIsStatement DEF RefuseRow, Fail
<1>3. CASE UNCHANGED dbVars
  BY <1>1, <1>3, DbUnchangedMoves, ThrowsCreating DEF dbVars
<1>. QED  BY <1>1, <1>2, <1>3, FailureCreating

-----------------------------------------------------------------------------
(* The statements that write, and the transaction.                         *)

OneRow(i, x)     == [NoRows EXCEPT ![i] = x]
OneBalance(a, b) == [NoBalances EXCEPT ![a] = b]

LEMMA NoDeltas == NoRows \in RowDeltas /\ NoBalances \in BalanceDeltas
BY DeltaType DEF RowDeltas, BalanceDeltas

LEMMA OneRowDelta ==
    ASSUME NEW i \in Txns, NEW v \in Row \cup {NoRow}
    PROVE  /\ OneRow(i, v) \in RowDeltas
           /\ \A x \in Things : /\ Adds(OneRow(i, v), NoBalances, x) <=> (x[1] = "row" /\ x[2] = i /\ v \in Row)
                                /\ Drops(OneRow(i, v), NoBalances, x) => v = NoRow
<1>1. OneRow(i, v) \in RowDeltas
  BY DEF OneRow, RowDeltas, NoRows
<1>2. ASSUME NEW x \in Things
      PROVE  /\ Adds(OneRow(i, v), NoBalances, x) <=> (x[1] = "row" /\ x[2] = i /\ v \in Row)
             /\ Drops(OneRow(i, v), NoBalances, x) => v = NoRow
  <2>1. CASE x[1] = "row" /\ x[2] \in Txns
    <3>1. OneRow(i, v)[x[2]] = IF x[2] = i THEN v ELSE Same
      BY <2>1 DEF OneRow, NoRows
    <3>. QED  BY <2>1, <3>1, Sentinels DEF Adds, Drops
  <2>2. CASE x[1] = "account" /\ x[2] \in Accounts
    BY <2>2, Sentinels DEF Adds, Drops, NoBalances
  <2>. QED  BY <2>1, <2>2, ThingCases
<1>. QED  BY <1>1, <1>2

LEMMA OneBalanceDelta ==
    ASSUME NEW a \in Accounts, NEW b \in Balance
    PROVE  /\ OneBalance(a, b) \in BalanceDeltas
           /\ \A x \in Things : /\ Adds(NoRows, OneBalance(a, b), x) <=> (x[1] = "account" /\ x[2] = a)
                                /\ ~Drops(NoRows, OneBalance(a, b), x)
<1>1. OneBalance(a, b) \in BalanceDeltas
  BY DEF OneBalance, BalanceDeltas, NoBalances
<1>2. ASSUME NEW x \in Things
      PROVE  /\ Adds(NoRows, OneBalance(a, b), x) <=> (x[1] = "account" /\ x[2] = a)
             /\ ~Drops(NoRows, OneBalance(a, b), x)
  <2>1. CASE x[1] = "account" /\ x[2] \in Accounts
    <3>1. OneBalance(a, b)[x[2]] = IF x[2] = a THEN b ELSE Same
      BY <2>1 DEF OneBalance, NoBalances
    <3>. QED  BY <2>1, <3>1, Sentinels DEF Adds, Drops
  <2>2. CASE x[1] = "row" /\ x[2] \in Txns
    BY <2>2, Sentinels DEF Adds, Drops, NoRows
  <2>. QED  BY <2>1, <2>2, ThingCases
<1>. QED  BY <1>1, <1>2

\* Inside a transaction, a write leaves every lock with one client.
LEMMA LocksStay ==
    ASSUME WInv, NEW c \in Clients,
           \A x : \A e \in Clients : e # c => (Touched(e, x)' <=> Touched(e, x)),
           \A x \in Things : Touched(c, x)' => \/ Touched(c, x)
                                               \/ \A e \in Clients : Touched(e, x) => e = c
    PROVE  \A x \in Things, d, e \in Clients : Touched(d, x)' /\ Touched(e, x)' => d = e
<1>. SUFFICES ASSUME NEW x \in Things, NEW d \in Clients, NEW e \in Clients,
                     Touched(d, x)', Touched(e, x)', d # e
              PROVE  FALSE
  OBVIOUS
<1>1. (d # c => Touched(d, x)) /\ (e # c => Touched(e, x))
  OBVIOUS
<1>2. Touched(c, x)' => \/ Touched(c, x)
                        \/ \A f \in Clients : Touched(f, x) => f = c
  OBVIOUS
<1>. QED  BY <1>1, <1>2 DEF WInv, LocksHeld

\* A request that makes thing z makes it in its transaction.
LEMMA InsertCreating ==
    ASSUME OneEach, IInv, AInv, WInv, NEW r \in Requests, IsStatement(r), Inserting(Call(r)),
           NEW z \in Things, \A x \in Things : Makes(Call(r), x) <=> x = z,
           NEW dr \in RowDeltas, NEW db \in BalanceDeltas, Write(req[r].on, dr, db), SameIds,
           \A x \in Things : /\ Adds(dr, db, x) <=> x = z
                             /\ ~Drops(dr, db, x),
           Continue(r, <<>>)
    PROVE  WInv' /\ NothingNew
<1>. DEFINE old == req[r].todo
            new == Tail(old)
<1>1. /\ old \in Seq(Calls) /\ old # <<>> /\ new \in Seq(Calls) /\ Call(r) = Head(old) /\ TypeOK
      /\ req[r].own \in Clients \cup {Pool} /\ Creating(r) /\ LocksHeld /\ ~req[r].err
  BY HeadIsCall DEF IInv, WInv, IsStatement, Call, ReqType, ErrInside
<1>2. /\ \A x \in Things : Pending(new, x) <=> Pending(old, x) /\ x # z
      /\ MakesOnce(new) /\ Pending(old, z)
      /\ Gentle(old) => Gentle(new)
      /\ Sheltered(old) => ~Inserting(Head(old))
  <2>1. MakesOnce(old)
    BY <1>1 DEF Creating
  <2>. HIDE DEF old
  <2>. QED  BY <1>1, <2>1, TailLists
<1>3. PICK c \in Clients : c = req[r].own
  BY <1>1, <1>2 DEF Creating
<1>4. /\ \A x : There(x)' <=> There(x)
      /\ \A x : \A e \in Clients : e # c => /\ Written(e, x)' <=> Written(e, x)
                                            /\ Touched(e, x)' <=> Touched(e, x)
      /\ \A x \in Things :
            /\ Written(c, x)' <=> Adds(dr, db, x) \/ (Written(c, x) /\ ~Drops(dr, db, x))
            /\ Touched(c, x)' => \/ Touched(c, x)
                                 \/ \A e \in Clients : Touched(e, x) => e = c
  BY <1>3, InsideWrite
<1>5. \A x \in Things : Written(c, x)' <=> x = z \/ Written(c, x)
  BY <1>4
<1>6. \A x \in Things, d, e \in Clients : Touched(d, x)' /\ Touched(e, x)' => d = e
  BY <1>4, LocksStay
<1>7. DbMoves(r)
  BY <1>2, <1>3, <1>4, <1>5, <1>6 DEF DbMoves
<1>8. /\ \A s \in Requests \ {r} : req'[s] = req[s]
      /\ req'[r].todo = new /\ req'[r].own = c /\ req'[r].err = FALSE
  <2>1. GoOn(r, req[r].own, new, ptr[Home[r]]) /\ ptr[Home[r]] \in [Repos -> Targets]
    <3>1. <<>> \o new = new
      BY <1>1
    <3>. QED  BY <1>1, <3>1, PointersOf DEF Continue
  <2>2. new \in Seq(Calls) /\ req[r].own \in Clients \cup {Pool}
    BY <1>1
  <2>. HIDE DEF new, old
  <2>. QED  BY <1>1, <1>3, <2>1, <2>2, GoOnType, Zenon
<1>9. ReqMoves(r)
  BY <1>2, <1>8 DEF ReqMoves
<1>10. \A s \in Requests, x \in Things : Pending(req'[s].todo, x) => Pending(req[s].todo, x)
  BY <1>9 DEF ReqMoves
<1>11. \A x, y : Tied(x, y)' <=> Tied(x, y)
  BY SameTies
<1>12. \A x : Named(x)' <=> Named(x)
  BY SameTies
<1>13. \A x \in Things : Pending(old, x) =>
          /\ Named(x) /\ ~There(x) /\ \A e \in Clients : ~Written(e, x)
          /\ \A s \in Requests : Pending(req[s].todo, x) => s = r
  BY <1>1 DEF Creating, Unmade
<1>14. \A x, y \in Things : Tied(x, y) /\ Pending(old, x) => Gentle(old) /\ (Pending(old, y) \/ Fresh(c, y))
  BY <1>1, <1>3 DEF Creating, BothToCome
<1>15. \A x, y \in Things : Tied(x, y) /\ Fresh(c, x) =>
          /\ Gentle(old) /\ ~There(y) /\ \A e \in Clients : Written(e, y) => e = c
          /\ Written(c, y) \/ Pending(old, y)
  BY <1>1, <1>3 DEF Creating, HalfDone
<1>. HIDE DEF new, old
<1>16. Unmade(r)'
  <2>. SUFFICES ASSUME NEW x \in Things, Pending(new, x)
                PROVE  /\ Named(x)' /\ ~There(x)' /\ \A e \in Clients : ~Written(e, x)'
                       /\ \A s \in Requests : Pending(req'[s].todo, x) => s = r
    BY <1>8 DEF Unmade
  <2>. QED  BY <1>2, <1>4, <1>5, <1>10, <1>12, <1>13
<1>17. \A x \in Things : Fresh(c, x)' <=> (Fresh(c, x) \/ x = z)
  BY <1>2, <1>4, <1>5, <1>13 DEF Fresh
<1>18. BothToCome(r)'
  <2>. SUFFICES ASSUME NEW x \in Things, NEW y \in Things, Tied(x, y), Pending(new, x)
                PROVE  Gentle(new) /\ (Pending(new, y) \/ Fresh(c, y)')
    BY <1>8, <1>11 DEF BothToCome
  <2>. QED  BY <1>2, <1>14, <1>17
<1>19. HalfDone(r)'
  <2>. SUFFICES ASSUME NEW x \in Things, NEW y \in Things, Tied(x, y), Fresh(c, x)'
                PROVE  /\ Gentle(new)
                       /\ ~There(y)' /\ \A e \in Clients : Written(e, y)' => e = c
                       /\ Written(c, y)' \/ Pending(new, y)
    BY <1>8, <1>11 DEF HalfDone
  <2>1. \A e \in Clients : e # c => (Written(e, y)' <=> Written(e, y))
    BY <1>4
  <2>2. CASE Fresh(c, x)
    BY <1>2, <1>4, <1>5, <1>15, <2>1, <2>2
  <2>3. CASE x = z
    <3>1. Gentle(new) /\ (Pending(old, y) \/ Fresh(c, y))
      BY <1>2, <1>14, <2>3
    <3>2. CASE Pending(old, y)
      BY <1>2, <1>4, <1>5, <1>13, <2>1, <3>1, <3>2
    <3>3. CASE Fresh(c, y)
      <4>1. \A e \in Clients : Written(e, y) => e = c
        BY <1>1, <3>3, WrittenIsTouched DEF LocksHeld, Fresh
      <4>. QED  BY <1>4, <1>5, <2>1, <3>1, <3>3, <4>1 DEF Fresh
    <3>. QED  BY <3>1, <3>2, <3>3
  <2>. QED  BY <1>17, <2>2, <2>3
<1>20. Creating(r)'
  BY <1>2, <1>3, <1>8, <1>16, <1>18, <1>19, TargetsDiffer DEF Creating
<1>. QED  BY <1>4, <1>7, <1>9, <1>20, OneCreates DEF NothingNew

LEMMA WriteRowCreating ==
    ASSUME OneEach, IInv, AInv, WInv, NEW r \in Requests, WriteRow(r)
    PROVE  WInv' /\ NothingNew
<1>. DEFINE c  == Call(r)
            dr == OneRow(c.id, c.row)
<1>1. c.q \in {"insert", "put"} /\ c \in InnerCalls /\ IsStatement(r)
  BY AtIsStatement DEF WriteRow
<1>2. c.id \in Txns /\ c.row \in Row
  BY <1>1, StatementFields
<1>3. /\ Write(req[r].on, dr, NoBalances) /\ Continue(r, <<>>) /\ SameIds
      /\ c.q = "put" => RowAt(req[r].on, c.id) # NoRow
  BY DEF WriteRow, Otherwise, OneRow
<1>4. /\ dr \in RowDeltas /\ NoBalances \in BalanceDeltas
      /\ \A x \in Things : /\ Adds(dr, NoBalances, x) <=> (x[1] = "row" /\ x[2] = c.id)
                           /\ ~Drops(dr, NoBalances, x)
  BY <1>2, OneRowDelta, NoDeltas, Sentinels
<1>. HIDE DEF dr
<1>5. CASE c.q = "put"
  <2>1. ~Inserting(c)
    BY <1>5 DEF Inserting
  <2>2. \A x \in Things : Adds(dr, NoBalances, x) => Sees(req[r].on, x)
    BY <1>3, <1>4, <1>5 DEF Sees
  <2>. QED  BY <1>1, <1>3, <1>4, <2>1, <2>2, WritesCreating
<1>6. CASE c.q = "insert"
  <2>. DEFINE z == <<"row", c.id>>
  <2>1. z \in Things /\ Inserting(c)
    BY <1>2, <1>6 DEF Things, Inserting
  <2>2. \A x \in Things : (x[1] = "row" /\ x[2] = c.id) <=> x = z
    BY DEF Things
  <2>3. \A x \in Things : Makes(c, x) <=> x = z
    BY <1>6, <2>2 DEF Makes
  <2>4. \A x \in Things : /\ Adds(dr, NoBalances, x) <=> x = z
                          /\ ~Drops(dr, NoBalances, x)
    BY <1>4, <2>2
  <2>. HIDE DEF z
  <2>. QED  BY <1>1, <1>3, <1>4, <2>1, <2>3, <2>4, InsertCreating
<1>. QED  BY <1>1, <1>5, <1>6

LEMMA InsertAccountCreating ==
    ASSUME OneEach, IInv, AInv, WInv, NEW r \in Requests, InsertAccount(r)
    PROVE  WInv' /\ NothingNew
<1>. DEFINE c  == Call(r)
            db == OneBalance(c.acct, c.bal)
            z  == <<"account", c.acct>>
<1>1. c.q = "newacc" /\ c \in InnerCalls /\ IsStatement(r)
  BY AtIsStatement DEF InsertAccount
<1>2. c.acct \in Accounts /\ c.bal \in Balance
  BY <1>1, StatementFields
<1>3. Write(req[r].on, NoRows, db) /\ Continue(r, <<>>) /\ SameIds
  BY DEF InsertAccount, Otherwise, OneBalance
<1>4. /\ db \in BalanceDeltas /\ NoRows \in RowDeltas
      /\ \A x \in Things : /\ Adds(NoRows, db, x) <=> (x[1] = "account" /\ x[2] = c.acct)
                           /\ ~Drops(NoRows, db, x)
  BY <1>2, OneBalanceDelta, NoDeltas
<1>. HIDE DEF db
<1>5. z \in Things /\ Inserting(c)
  BY <1>1, <1>2 DEF Things, Inserting
<1>6. \A x \in Things : (x[1] = "account" /\ x[2] = c.acct) <=> x = z
  BY DEF Things
<1>7. \A x \in Things : Makes(c, x) <=> x = z
  BY <1>1, <1>6, ThingCases DEF Makes
<1>8. \A x \in Things : /\ Adds(NoRows, db, x) <=> x = z
                        /\ ~Drops(NoRows, db, x)
  BY <1>4, <1>6
<1>. HIDE DEF z
<1>. QED  BY <1>1, <1>3, <1>4, <1>5, <1>7, <1>8, InsertCreating

LEMMA BalanceWritesCreating ==
    ASSUME OneEach, IInv, AInv, WInv, NEW r \in Requests, UpdateBalance(r) \/ WriteAccount(r)
    PROVE  WInv' /\ NothingNew
<1>. DEFINE c  == Call(r)
            db == OneBalance(c.acct, c.bal)
<1>1. c.q \in {"setbal", "putacc"} /\ c \in InnerCalls /\ IsStatement(r) /\ req[r].todo # <<>>
  BY AtIsStatement DEF UpdateBalance, WriteAccount
<1>2. c.acct \in Accounts /\ c.bal \in Balance
  BY <1>1, StatementFields
<1>3. /\ SameIds
      /\ \/ UNCHANGED dbVars /\ (Continue(r, <<>>) \/ Throw(r))
         \/ /\ BalAt(req[r].on, c.acct) # Gone
            /\ Write(req[r].on, NoRows, db) /\ Continue(r, <<>>)
  BY DEF UpdateBalance, WriteAccount, Otherwise, OneBalance
<1>4. /\ db \in BalanceDeltas /\ NoRows \in RowDeltas
      /\ \A x \in Things : /\ Adds(NoRows, db, x) <=> (x[1] = "account" /\ x[2] = c.acct)
                           /\ ~Drops(NoRows, db, x)
  BY <1>2, OneBalanceDelta, NoDeltas
<1>. HIDE DEF db
<1>5. ~Inserting(c) /\ c.q # "begin"
  BY <1>1 DEF Inserting
<1>6. CASE UNCHANGED dbVars /\ (Continue(r, <<>>) \/ Throw(r))
  <2>1. WInv'
    BY <1>1, <1>3, <1>5, <1>6, ShortLists, SmallSeqs, QuietlyCreating, Zenon DEF dbVars
  <2>. QED  BY <1>6, <2>1 DEF NothingNew, There, dbVars
<1>7. CASE BalAt(req[r].on, c.acct) # Gone /\ Write(req[r].on, NoRows, db) /\ Continue(r, <<>>)
  <2>1. \A x \in Things : Adds(NoRows, db, x) => Sees(req[r].on, x)
    BY <1>4, <1>7 DEF Sees
  <2>. QED  BY <1>1, <1>3, <1>4, <1>5, <1>7, <2>1, WritesCreating
<1>. QED  BY <1>3, <1>6, <1>7

LEMMA RemovalsCreating ==
    ASSUME OneEach, IInv, AInv, WInv, NEW r \in Requests, RemoveRow(r) \/ DeleteAccountRow(r)
    PROVE  WInv' /\ NothingNew
<1>. DEFINE c == Call(r)
<1>1. c.q \in {"remove", "delacc"} /\ c \in InnerCalls /\ IsStatement(r)
  BY AtIsStatement DEF RemoveRow, DeleteAccountRow
<1>2. ~Inserting(c) /\ ~Mild(c)
  BY <1>1 DEF Inserting, Mild
<1>3. SameIds /\ Continue(r, <<>>)
  BY DEF RemoveRow, DeleteAccountRow, Otherwise
<1>4. \E dr \in RowDeltas, db \in BalanceDeltas :
         Write(req[r].on, dr, db) /\ \A x \in Things : ~Adds(dr, db, x)
  <2>1. CASE RemoveRow(r)
    <3>1. c.id \in Txns
      BY <2>1, <1>1, AtIsStatement, StatementFields DEF RemoveRow
    <3>2. Write(req[r].on, OneRow(c.id, NoRow), NoBalances)
      BY <2>1 DEF RemoveRow, OneRow
    <3>3. OneRow(c.id, NoRow) \in RowDeltas /\ \A x \in Things : ~Adds(OneRow(c.id, NoRow), NoBalances, x)
      BY <3>1, OneRowDelta, Sentinels
    <3>. QED  BY <3>2, <3>3, NoDeltas
  <2>2. CASE DeleteAccountRow(r)
    <3>. DEFINE dr == [i \in Txns |-> IF i \in RowsOf(req[r].on, c.acct) THEN NoRow ELSE Same]
                db == [NoBalances EXCEPT ![c.acct] = Gone]
    <3>1. Write(req[r].on, dr, db)
      BY <2>2 DEF DeleteAccountRow
    <3>2. c.acct \in Accounts
      BY <2>2, <1>1, AtIsStatement, StatementFields DEF DeleteAccountRow
    <3>3. dr \in RowDeltas /\ db \in BalanceDeltas
      BY <3>2, DeltaType DEF RowDeltas, BalanceDeltas
    <3>4. /\ \A i \in Txns : dr[i] \notin Row
          /\ \A a \in Accounts : db[a] \notin Balance
      BY Sentinels DEF NoBalances
    <3>. HIDE DEF dr, db
    <3>5. \A x \in Things : ~Adds(dr, db, x)
      BY <3>4, ThingCases DEF Adds
    <3>. QED  BY <3>1, <3>3, <3>5
  <2>. QED  BY <2>1, <2>2
<1>5. PICK dr \in RowDeltas, db \in BalanceDeltas :
         Write(req[r].on, dr, db) /\ \A x \in Things : ~Adds(dr, db, x)
  BY <1>4
<1>. QED  BY <1>1, <1>2, <1>3, <1>5, WritesCreating

LEMMA BeginTransactionCreating ==
    ASSUME IInv, WInv, NEW r \in Requests, BeginTransaction(r)
    PROVE  WInv'
<1>. DEFINE old == req[r].todo
<1>2. old # <<>> /\ Call(r).q = "begin" /\ TypeOK /\ BeginsOnce /\ PoolDiscipline /\ SameIds
  BY DEF BeginTransaction, At, IInv
<1>3. old \in Seq(Calls) /\ Call(r) = old[1] /\ Call(r) = Head(old) /\ Tail(old) \in Seq(Calls)
  BY <1>2, HeadIsCall DEF Call
<1>4. req[r].own = Pool
  BY <1>2, <1>3 DEF BeginsOnce
<1>1. PICK d \in Clients : CheckOut(r, d) /\ \E p \in [Repos -> Targets] : GoOn(r, d, Tail(old), p)
  <2>1. PICK d \in Clients :
           LET p == [k \in Repos |-> IF k \in Call(r).repos THEN d ELSE ptr[Home[r]][k]]
           IN  CheckOut(r, d) /\ GoOn(r, d, Tail(old), p)
    BY DEF BeginTransaction
  <2>. DEFINE p == [k \in Repos |-> IF k \in Call(r).repos THEN d ELSE ptr[Home[r]][k]]
  <2>2. p \in [Repos -> Targets]
    BY <1>2, PointersOf DEF Targets
  <2>. QED  BY <2>1, <2>2
<1>5. PICK p \in [Repos -> Targets] : GoOn(r, d, Tail(old), p)
  BY <1>1
<1>6. /\ \A s \in Requests \ {r} : req'[s] = req[s]
      /\ req'[r].todo = Tail(old) /\ req'[r].own = d
  <2>1. d \in Clients \cup {Pool} /\ TypeOK
    BY <1>2
  <2>2. Tail(old) \in Seq(Calls)
    BY <1>3
  <2>. HIDE DEF old
  <2>. QED  BY <1>5, <2>1, <2>2, GoOnType, Zenon
<1>7. /\ \A x : There(x)' <=> There(x)
      /\ \A x : \A c \in Clients : (Written(c, x)' <=> Written(c, x)) /\ (Touched(c, x)' <=> Touched(c, x))
  <2>1. tx \in [Clients -> Session] /\ tx' = [tx EXCEPT ![d].state = "open"] /\ row' = row /\ bal' = bal
    BY <1>1, <1>2 DEF CheckOut, TypeOK, DbTypeOK
  <2>2. \A c \in Clients : tx'[c].row = tx[c].row /\ tx'[c].bal = tx[c].bal
    BY <2>1 DEF Session
  <2>. QED  BY <2>1, <2>2 DEF There, Written, Touched
<1>8. \A x \in Things : ~Written(d, x)
  <2>1. tx[d] = Autocommit
    BY <1>1, <1>2 DEF CheckOut, PoolDiscipline
  <2>. QED  BY <2>1, ThingCases, Sentinels DEF Written, Autocommit, NoRows, NoBalances
<1>9. DbMoves(r)
  BY <1>4, <1>7, TargetsDiffer DEF DbMoves, WInv, LocksHeld
<1>10. Creating(r)
  BY DEF WInv
<1>. HIDE DEF old
<1>11. MakesOnce(old) /\ ~Inserting(Head(old))
  BY <1>2, <1>3, <1>10 DEF Creating, Inserting, old
<1>12. /\ \A x \in Things : Pending(Tail(old), x) <=> Pending(old, x)
       /\ MakesOnce(Tail(old)) /\ (Gentle(old) => Gentle(Tail(old)))
  BY <1>2, <1>3, <1>11, TailLists, MakesIsInserting
<1>13. \A x, y : Tied(x, y)' <=> Tied(x, y)
  BY <1>2, SameTies
<1>14. \A x : Named(x)' <=> Named(x)
  BY <1>2, SameTies
<1>15. ReqMoves(r)
  BY <1>6, <1>12 DEF ReqMoves, old
<1>16. Unmade(r)'
  <2>. SUFFICES ASSUME NEW x \in Things, Pending(Tail(old), x)
                PROVE  /\ Named(x)' /\ ~There(x)' /\ \A e \in Clients : ~Written(e, x)'
                       /\ \A s \in Requests : Pending(req'[s].todo, x) => s = r
    BY <1>6 DEF Unmade
  <2>1. /\ Named(x) /\ ~There(x) /\ \A e \in Clients : ~Written(e, x)
        /\ \A s \in Requests : Pending(req[s].todo, x) => s = r
    BY <1>10, <1>12 DEF Creating, Unmade, old
  <2>. QED  BY <1>6, <1>7, <1>14, <2>1
<1>17. BothToCome(r)'
  <2>. SUFFICES ASSUME NEW x \in Things, NEW y \in Things, Tied(x, y), Pending(Tail(old), x)
                PROVE  Gentle(Tail(old)) /\ Pending(Tail(old), y)
    BY <1>6, <1>13 DEF BothToCome
  <2>. QED  BY <1>4, <1>10, <1>12, TargetsDiffer DEF Creating, BothToCome, old
<1>18. HalfDone(r)'
  BY <1>6, <1>7, <1>8 DEF HalfDone, Fresh
<1>19. Creating(r)'
  BY <1>6, <1>12, <1>16, <1>17, <1>18, TargetsDiffer DEF Creating
<1>. QED  BY <1>2, <1>9, <1>15, <1>19, OneCreates

\* The end of a transaction: its client forgets what it has written.
LEMMA ReleaseCreating ==
    ASSUME IInv, WInv, NEW r \in Requests, NEW c \in Clients, c = req[r].own,
           tx' = [tx EXCEPT ![c] = Autocommit], SameIds,
           GoOn(r, Pool, <<>>, ptr[Home[r]]),
           \A x \in Things : /\ There(x)' /\ ~There(x) => Written(c, x)
                             /\ There(x) /\ ~There(x)' => Touched(c, x)
    PROVE  WInv'
<1>1. TypeOK /\ tx \in [Clients -> Session] /\ LocksHeld
  BY DEF IInv, TypeOK, DbTypeOK, WInv
<1>2. <<>> \in Seq(Calls) /\ ptr[Home[r]] \in [Repos -> Targets] /\ Pool \in Clients \cup {Pool}
  BY <1>1, PointersOf
<1>3. /\ \A s \in Requests \ {r} : req'[s] = req[s]
      /\ req'[r].todo = <<>> /\ req'[r].own = Pool
  BY <1>1, <1>2, GoOnType, Zenon
<1>4. tx'[c] = Autocommit /\ \A e \in Clients : e # c => tx'[e] = tx[e]
  BY <1>1
<1>5. \A x \in Things : ~Written(c, x)' /\ ~Touched(c, x)'
  BY <1>4, ThingCases, Sentinels DEF Written, Touched, Autocommit, NoRows, NoBalances
<1>6. \A x : \A e \in Clients : e # c => (Written(e, x)' <=> Written(e, x)) /\ (Touched(e, x)' <=> Touched(e, x))
  BY <1>4 DEF Written, Touched
<1>7. \A x \in Things, d \in Clients : Touched(c, x) /\ Written(d, x) => d = c
  BY <1>1, WrittenIsTouched DEF LocksHeld
<1>8. \A x \in Things, d, e \in Clients : Touched(d, x)' /\ Touched(e, x)' => d = e
  BY <1>1, <1>5, <1>6 DEF LocksHeld
<1>9. DbMoves(r)
  BY <1>5, <1>6, <1>7, <1>8 DEF DbMoves
<1>. QED  BY <1>3, <1>9, EndsCreating

\* What a COMMIT shows, it shows together with what that is tied to.
ShowsTogether ==
    \A x, y \in Things : Tied(x, y) /\ There(x)' /\ ~There(x) => There(y)' /\ ~There(y)

LEMMA CommitCreating ==
    ASSUME IInv, AInv, WInv, NEW r \in Requests, Commit(r)
    PROVE  WInv' /\ ShowsTogether
<1>1. PICK c \in Clients : c = req[r].own
  BY DEF IInv, TypeOK, ReqType, Commit
<1>2. /\ tx \in [Clients -> Session] /\ row \in [Txns -> Row \cup {NoRow}]
      /\ bal \in [Accounts -> Balance \cup {Gone}] /\ tx[c] \in Session
  BY DEF IInv, TypeOK, DbTypeOK
<1>3. tx[c].state = "open" /\ req[r].todo = <<>> /\ ~req[r].err
  BY <1>1, TargetsDiffer DEF AInv, Steady, Commit
<1>4. /\ row' = Over(row, tx[c].row) /\ bal' = Over(bal, tx[c].bal)
      /\ tx' = [tx EXCEPT ![c] = Autocommit]
  BY <1>1, <1>3 DEF Commit, CommitAndRelease
<1>5. ASSUME NEW x \in Things
      PROVE  There(x)' <=> Written(c, x) \/ (There(x) /\ ~Touched(c, x))
  <2>1. CASE x[1] = "row" /\ x[2] \in Txns
    <3>. DEFINE i == x[2]
    <3>1. row'[i] = IF tx[c].row[i] = Same THEN row[i] ELSE tx[c].row[i]
      BY <1>2, <1>4, <2>1 DEF Over
    <3>2. tx[c].row[i] \in Row \cup {NoRow, Same} /\ row[i] \in Row \cup {NoRow}
      BY <1>2, <2>1 DEF Session
    <3>. QED  BY <2>1, <3>1, <3>2, Sentinels DEF There, Written, Touched
  <2>2. CASE x[1] = "account" /\ x[2] \in Accounts
    <3>. DEFINE a == x[2]
    <3>1. bal'[a] = IF tx[c].bal[a] = Same THEN bal[a] ELSE tx[c].bal[a]
      BY <1>2, <1>4, <2>2 DEF Over
    <3>2. tx[c].bal[a] \in Balance \cup {Gone, Same} /\ bal[a] \in Balance \cup {Gone}
      BY <1>2, <2>2 DEF Session
    <3>. QED  BY <2>2, <3>1, <3>2, Sentinels DEF There, Written, Touched
  <2>. QED  BY <2>1, <2>2, ThingCases
<1>6. WInv'
  BY <1>1, <1>4, <1>5, ReleaseCreating, Zenon DEF Commit, Otherwise
<1>7. \A x : ~Pending(req[r].todo, x)
  BY <1>3 DEF Pending
<1>8. ASSUME NEW x \in Things, NEW y \in Things, Tied(x, y), There(x)', ~There(x)
      PROVE  There(y)' /\ ~There(y)
  <2>1. Fresh(c, x)
    BY <1>5, <1>8 DEF Fresh
  <2>2. ~There(y) /\ Written(c, y)
    BY <1>1, <1>3, <1>7, <1>8, <2>1 DEF WInv, Creating, HalfDone
  <2>. QED  BY <1>5, <2>2
<1>. QED  BY <1>6, <1>8 DEF ShowsTogether

LEMMA RollbackCreating ==
    ASSUME IInv, WInv, NEW r \in Requests, Rollback(r)
    PROVE  WInv'
<1>1. PICK c \in Clients : c = req[r].own
  BY DEF IInv, TypeOK, ReqType, ErrInside, Rollback
<1>2. tx' = [tx EXCEPT ![c] = Autocommit] /\ \A x : There(x)' <=> There(x)
  BY <1>1 DEF Rollback, RollBackAndRelease, There
<1>. QED  BY <1>1, <1>2, ReleaseCreating, Zenon DEF Rollback, Otherwise

-----------------------------------------------------------------------------
(* Accepting a request that makes something.                               *)

LEMMA AcceptCreating ==
    ASSUME IInv, WInv, NEW r \in Requests, NEW route, NEW calls \in Seq(Calls),
           Accept(r, route, calls), Sheltered(calls), MakesOnce(calls),
           \A x \in Things : /\ Named(x) => Named(x)'
                             /\ Pending(calls, x) => ~Named(x) /\ Named(x)',
           \A x, y \in Things : Tied(x, y)' =>
               Tied(x, y) \/ (Gentle(calls) /\ Pending(calls, x) /\ Pending(calls, y))
    PROVE  WInv'
<1>1. TypeOK /\ req[r].own = Pool /\ UNCHANGED <<row, bal, tx>> /\ GoOn(r, Pool, calls, ptr[Home[r]])
  BY DEF IInv, Accept, Idle, dbVars
<1>2. ptr[Home[r]] \in [Repos -> Targets] /\ Pool \in Clients \cup {Pool}
  BY <1>1, PointersOf
<1>3. /\ \A s \in Requests \ {r} : req'[s] = req[s]
      /\ req'[r].todo = calls /\ req'[r].own = Pool
  BY <1>1, <1>2, GoOnType, Zenon
<1>4. /\ \A x : There(x)' <=> There(x)
      /\ \A x, c : (Written(c, x)' <=> Written(c, x)) /\ (Touched(c, x)' <=> Touched(c, x))
  BY <1>1 DEF There, Written, Touched
<1>5. TiesNamed /\ SeenNamed /\ LocksHeld /\ \A s \in Requests : Creating(s)
  BY DEF WInv
<1>6. \A x \in Things : Pending(calls, x) =>
          /\ ~There(x) /\ \A c \in Clients : ~Written(c, x)
          /\ \A y \in Things : ~Tied(x, y)
          /\ \A s \in Requests : ~Pending(req[s].todo, x)
  BY <1>5 DEF TiesNamed, SeenNamed, Creating, Unmade
<1>7. TiesNamed' /\ SeenNamed' /\ LocksHeld'
  BY <1>4, <1>5 DEF TiesNamed, SeenNamed, LocksHeld
<1>8. ASSUME NEW s \in Requests, s # r
      PROVE  Creating(s)'
  <2>. PICK d : d = req[s].own
    OBVIOUS
  <2>1. req'[s] = req[s] /\ Creating(s) /\ req'[s].own = d
    BY <1>3, <1>5, <1>8
  <2>2. Unmade(s)'
    <3>. SUFFICES ASSUME NEW x \in Things, Pending(req[s].todo, x)
                  PROVE  /\ Named(x)' /\ ~There(x)' /\ \A e \in Clients : ~Written(e, x)'
                         /\ \A t \in Requests : Pending(req'[t].todo, x) => t = s
      BY <2>1 DEF Unmade
    <3>1. /\ Named(x) /\ ~There(x) /\ \A e \in Clients : ~Written(e, x)
          /\ \A t \in Requests : Pending(req[t].todo, x) => t = s
      BY <2>1 DEF Creating, Unmade
    <3>. QED  BY <1>3, <1>4, <1>6, <3>1
  <2>3. BothToCome(s)'
    <3>. SUFFICES ASSUME NEW x \in Things, NEW y \in Things, Tied(x, y)', Pending(req[s].todo, x)
                  PROVE  /\ Gentle(req[s].todo)
                         /\ Pending(req[s].todo, y) \/ (d \in Clients /\ Fresh(d, y)')
      BY <2>1 DEF BothToCome
    <3>1. Tied(x, y)
      BY <1>6
    <3>2. Gentle(req[s].todo) /\ (Pending(req[s].todo, y) \/ (d \in Clients /\ Fresh(d, y)))
      BY <2>1, <3>1 DEF Creating, BothToCome
    <3>. QED  BY <1>4, <3>2 DEF Fresh
  <2>4. HalfDone(s)'
    <3>. SUFFICES ASSUME NEW x \in Things, NEW y \in Things,
                         d \in Clients, ~req[s].err, Tied(x, y)', Fresh(d, x)'
                  PROVE  /\ Gentle(req[s].todo)
                         /\ ~There(y)' /\ \A e \in Clients : Written(e, y)' => e = d
                         /\ Written(d, y)' \/ Pending(req[s].todo, y)
      BY <2>1 DEF HalfDone
    <3>1. Fresh(d, x)
      BY <1>4 DEF Fresh
    <3>2. Tied(x, y)
      BY <1>6, <3>1 DEF Fresh
    <3>3. /\ Gentle(req[s].todo) /\ ~There(y) /\ \A e \in Clients : Written(e, y) => e = d
          /\ Written(d, y) \/ Pending(req[s].todo, y)
      BY <2>1, <3>1, <3>2 DEF Creating, HalfDone
    <3>. QED  BY <1>4, <3>3
  <2>. QED  BY <2>1, <2>2, <2>3, <2>4 DEF Creating
<1>9. Creating(r)'
  <2>1. Unmade(r)'
    <3>. SUFFICES ASSUME NEW x \in Things, Pending(calls, x)
                  PROVE  /\ Named(x)' /\ ~There(x)' /\ \A e \in Clients : ~Written(e, x)'
                         /\ \A t \in Requests : Pending(req'[t].todo, x) => t = r
      BY <1>3 DEF Unmade
    <3>. QED  BY <1>3, <1>4, <1>6
  <2>2. BothToCome(r)'
    BY <1>3, <1>6 DEF BothToCome
  <2>3. HalfDone(r)'
    BY <1>3, TargetsDiffer DEF HalfDone
  <2>. QED  BY <1>3, <2>1, <2>2, <2>3 DEF Creating
<1>. QED  BY <1>7, <1>8, <1>9 DEF WInv


\* Of the programs, three make something: one thing, or two that are tied.
LEMMA MakesOne ==
    ASSUME NEW b, b.q = "begin", NEW c, NEW d, ~Inserting(d), NEW e, ~Inserting(e)
    PROVE  /\ Sheltered(<<b, c, d, e>>) /\ MakesOnce(<<b, c, d, e>>)
           /\ \A x : Pending(<<b, c, d, e>>, x) <=> Makes(c, x)
           /\ Sheltered(<<d, b, c>>) /\ MakesOnce(<<d, b, c>>)
           /\ \A x : Pending(<<d, b, c>>, x) <=> Makes(c, x)
<1>1. ~Inserting(b) /\ \A x : ~Makes(b, x) /\ ~Makes(d, x) /\ ~Makes(e, x)
  BY MakesIsInserting
<1>2. /\ Sheltered(<<b, c, d, e>>) /\ MakesOnce(<<b, c, d, e>>)
      /\ \A x : Pending(<<b, c, d, e>>, x) <=> Makes(c, x)
  BY <1>1 DEF Sheltered, MakesOnce, Pending
<1>3. /\ Sheltered(<<d, b, c>>) /\ MakesOnce(<<d, b, c>>)
      /\ \A x : Pending(<<d, b, c>>, x) <=> Makes(c, x)
  BY <1>1 DEF Sheltered, MakesOnce, Pending
<1>. QED  BY <1>2, <1>3

LEMMA MakesTwoOfSix ==
    ASSUME NEW b, b.q = "begin", NEW d, ~Inserting(d), NEW e, ~Inserting(e), NEW h, ~Inserting(h),
           NEW f, NEW g, \A x \in Things : ~(Makes(f, x) /\ Makes(g, x)),
           Mild(b) /\ Mild(d) /\ Mild(e) /\ Mild(f) /\ Mild(g) /\ Mild(h)
    PROVE  /\ Sheltered(<<d, b, f, e, g, h>>) /\ MakesOnce(<<d, b, f, e, g, h>>)
           /\ Gentle(<<d, b, f, e, g, h>>)
           /\ \A x : Pending(<<d, b, f, e, g, h>>, x) <=> Makes(f, x) \/ Makes(g, x)
<1>. DEFINE p == <<d, b, f, e, g, h>>
<1>1. /\ p[1] = d /\ p[2] = b /\ p[3] = f /\ p[4] = e /\ p[5] = g /\ p[6] = h
      /\ 1..Len(p) = {1, 2, 3, 4, 5, 6} /\ 2 < 3 /\ 2 < 4 /\ 2 < 5 /\ 2 < 6
  OBVIOUS
<1>2. ~Inserting(b) /\ \A x : ~Makes(b, x) /\ ~Makes(d, x) /\ ~Makes(e, x) /\ ~Makes(h, x)
  BY MakesIsInserting
<1>. HIDE DEF p
<1>3. \A x : Pending(p, x) <=> Makes(f, x) \/ Makes(g, x)
  BY <1>1, <1>2, Zenon DEF Pending
<1>4. Sheltered(p)
  BY <1>1, <1>2 DEF Sheltered
<1>5. MakesOnce(p)
  BY <1>1, <1>2, Zenon DEF MakesOnce
<1>6. Gentle(p)
  BY <1>1 DEF Gentle
<1>. QED  BY <1>3, <1>4, <1>5, <1>6 DEF p

LEMMA NothingMade ==
    ASSUME NEW calls, MakesNothing(calls)
    PROVE  Sheltered(calls) /\ MakesOnce(calls) /\ \A x : ~Pending(calls, x)
BY MakesIsInserting DEF MakesNothing, Sheltered, MakesOnce, Pending

\* The others make nothing, and name nothing.
LEMMA AcceptQuietly ==
    ASSUME IInv, WInv, NEW r \in Requests, NEW route, NEW calls, Program(calls),
           Accept(r, route, calls), MakesNothing(calls), SameIds
    PROVE  WInv'
<1>1. calls \in Seq(Calls) /\ Sheltered(calls) /\ MakesOnce(calls) /\ \A x : ~Pending(calls, x)
  BY NothingMade DEF Program
<1>2. \A x : Named(x)' <=> Named(x)
  BY SameTies
<1>3. \A x, y : Tied(x, y)' <=> Tied(x, y)
  BY SameTies
<1>. QED  BY <1>1, <1>2, <1>3, AcceptCreating

\* Which calls are INSERTs, and which are mild.
LEMMA CallKinds ==
    /\ \A S : Begin(S).q = "begin" /\ Mild(Begin(S)) /\ ~Inserting(Begin(S))
    /\ \A S : Mild(Aim(S)) /\ ~Inserting(Aim(S))
    /\ \A S, h, i : ~Inserting(ForEach(S, h, i))
    /\ \A i, h, y : ~Inserting(Find(i, h, y))
    /\ \A i, y : Mild(Put(i, y)) /\ ~Inserting(Put(i, y))
    /\ \A a : Mild(SaveBalance(a)) /\ ~Inserting(SaveBalance(a))
    /\ \A a, v, n, u : Mild(Stats(a, v, n, u)) /\ ~Inserting(Stats(a, v, n, u))
    /\ \A a, v, u : ~Inserting(FindAccount(a, v, u))
    /\ \A a, v : Mild(FindAccount(a, v, "exists"))
    /\ Mild(CountAccounts) /\ ~Inserting(CountAccounts)
    /\ \A i, y, v : Mild(Insert(i, y, v)) /\ \A x : Makes(Insert(i, y, v), x) <=> x[1] = "row" /\ i = x[2]
    /\ \A a, n : Mild(NewAccount(a, n))
    /\ \A a, n : \A x \in Things : Makes(NewAccount(a, n), x) <=> x[1] = "account" /\ a = x[2]
BY ThingCases DEF Begin, Aim, ForEach, Find, Put, SaveBalance, Stats, FindAccount, CountAccounts, Insert, NewAccount,
   Mild, Inserting, Makes

LEMMA AcceptCreateCreating ==
    ASSUME IInv, WInv, NEW r \in Requests, AcceptCreate(r)
    PROVE  WInv'
<1>1. PICK i \in Txns, a \in Accounts, m \in Amounts, links \in SUBSET Txns :
         /\ Bear(i) /\ UNCHANGED opening
         /\ Accept(r, "create", CreateTransaction(i, a, m, links))
  BY DEF AcceptCreate
<1>. DEFINE calls == CreateTransaction(i, a, m, links)
<1>2. calls \in Seq(Calls)
  BY RowPrograms DEF Program
<1>3. /\ Sheltered(calls) /\ MakesOnce(calls)
      /\ \A x : Pending(calls, x) <=> x[1] = "row" /\ i = x[2]
  <2>. DEFINE b == Begin({"trx", "acc"})
              c == Insert(i, NewRow(a, m, links), "trx")
              d == SaveBalance(a)
              e == ForEach(links, "linkBack", i)
  <2>1. b.q = "begin" /\ ~Inserting(d) /\ ~Inserting(e) /\ \A x : Makes(c, x) <=> x[1] = "row" /\ i = x[2]
    BY CallKinds
  <2>2. calls = <<b, c, d, e>>
    BY DEF CreateTransaction
  <2>. HIDE DEF b, c, d, e, calls
  <2>. QED  BY <2>1, <2>2, MakesOne, Zenon
<1>. HIDE DEF calls
<1>4. mate \in [Txns -> Txns \cup {Unborn, Single}] /\ mate[i] = Unborn /\ mate' = [mate EXCEPT ![i] = Single]
      /\ opening' = opening
  BY <1>1 DEF Bear, IInv, TypeOK
<1>5. \A x \in Things : /\ Named(x) => Named(x)'
                        /\ Pending(calls, x) => ~Named(x) /\ Named(x)'
  BY <1>3, <1>4, ThingCases, LedgerConstants DEF Named
<1>6. \A x, y \in Things : Joins(x, y)' => Joins(x, y)
  BY <1>4, ThingCases, LedgerConstants DEF Joins
<1>7. \A x, y \in Things : Tied(x, y)' => Tied(x, y)
  BY <1>6 DEF Tied
<1>. QED  BY <1>1, <1>2, <1>3, <1>5, <1>7, AcceptCreating DEF calls

LEMMA AcceptTransferCreating ==
    ASSUME IInv, WInv, NEW r \in Requests, AcceptTransfer(r)
    PROVE  WInv'
<1>1. PICK w \in Txns, d \in Txns, from \in Accounts, to \in Accounts, m \in Amounts, n \in Amounts :
         /\ w # d /\ mate[w] = Unborn /\ mate[d] = Unborn
         /\ mate' = [mate EXCEPT ![w] = d, ![d] = w]
         /\ UNCHANGED opening
         /\ Accept(r, "transfer", Transfer(w, d, from, to, m, n))
  BY Zenon DEF AcceptTransfer
<1>. DEFINE calls == Transfer(w, d, from, to, m, n)
<1>2. calls \in Seq(Calls)
  BY TransferProgram DEF Program
<1>3. /\ Sheltered(calls) /\ MakesOnce(calls) /\ Gentle(calls)
      /\ \A x : Pending(calls, x) <=> x[1] = "row" /\ (w = x[2] \/ d = x[2])
  <2>. DEFINE b  == Begin({"trx", "acc"})
              c1 == FindAccount(from, "acc", "exists")
              c2 == FindAccount(to, "acc", "exists")
              c3 == Stats(from, "trx", FALSE, "check")
              f  == Insert(w, NewRow(from, m, {}), "trx")
              g  == Insert(d, NewRow(to, n, {w}), "trx")
              c7 == Put(w, NewRow(from, m, {d}))
              c8 == SaveBalance(from)
              c9 == SaveBalance(to)
  <2>1. /\ b.q = "begin" /\ ~Inserting(c1) /\ ~Inserting(c2) /\ ~Inserting(c3) /\ ~Inserting(c7)
        /\ ~Inserting(c8) /\ ~Inserting(c9)
        /\ Mild(b) /\ Mild(c1) /\ Mild(c2) /\ Mild(c3) /\ Mild(f) /\ Mild(g) /\ Mild(c7) /\ Mild(c8) /\ Mild(c9)
        /\ \A x : Makes(f, x) <=> x[1] = "row" /\ w = x[2]
        /\ \A x : Makes(g, x) <=> x[1] = "row" /\ d = x[2]
    BY CallKinds, Zenon
  <2>2. calls = <<c1, c2, c3, b, f, g, c7, c8, c9>>
    BY DEF Transfer
  <2>. HIDE DEF b, c1, c2, c3, f, g, c7, c8, c9, calls
  <2>3. /\ calls[1] = c1 /\ calls[2] = c2 /\ calls[3] = c3 /\ calls[4] = b /\ calls[5] = f /\ calls[6] = g
        /\ calls[7] = c7 /\ calls[8] = c8 /\ calls[9] = c9
        /\ 1..Len(calls) = {1, 2, 3, 4, 5, 6, 7, 8, 9} /\ 4 < 5 /\ 4 < 6
    BY <2>2
  <2>4. /\ ~Inserting(b)
        /\ \A x : /\ ~Makes(b, x) /\ ~Makes(c1, x) /\ ~Makes(c2, x) /\ ~Makes(c3, x)
                  /\ ~Makes(c7, x) /\ ~Makes(c8, x) /\ ~Makes(c9, x)
    BY <2>1, MakesIsInserting
  <2>5. \A x : Pending(calls, x) <=> Makes(f, x) \/ Makes(g, x)
    BY <2>3, <2>4, Zenon DEF Pending
  <2>6. Sheltered(calls)
    BY <2>1, <2>3, <2>4, Zenon DEF Sheltered
  <2>7. MakesOnce(calls)
    BY <1>1, <2>1, <2>3, <2>4, Zenon DEF MakesOnce
  <2>8. Gentle(calls)
    BY <2>1, <2>3, Zenon DEF Gentle
  <2>. QED  BY <2>1, <2>5, <2>6, <2>7, <2>8
<1>. HIDE DEF calls
<1>5. mate \in [Txns -> Txns \cup {Unborn, Single}] /\ opening' = opening
  BY <1>1 DEF IInv, TypeOK
<1>6. mate'[w] = d /\ mate'[d] = w /\ \A i \in Txns : i # w /\ i # d => mate'[i] = mate[i]
  BY <1>1, <1>5
<1>7. \A x \in Things : /\ Named(x) => Named(x)'
                        /\ Pending(calls, x) => ~Named(x) /\ Named(x)'
  BY <1>1, <1>3, <1>5, <1>6, ThingCases, LedgerConstants DEF Named
<1>8. \A x, y \in Things : Joins(x, y)' => Joins(x, y) \/ (Pending(calls, x) /\ Pending(calls, y))
  BY <1>3, <1>5, <1>6, ThingCases DEF Joins
<1>9. \A x, y \in Things : Tied(x, y)' => Tied(x, y) \/ (Pending(calls, x) /\ Pending(calls, y))
  BY <1>8 DEF Tied
<1>. QED  BY <1>1, <1>2, <1>3, <1>7, <1>9, AcceptCreating DEF calls

LEMMA AcceptCreateAccountCreating ==
    ASSUME IInv, WInv, NEW r \in Requests, AcceptCreateAccount(r)
    PROVE  WInv'
<1>1. PICK a \in Accounts :
         /\ opening[a] = Unborn
         /\ \/ \E i \in Txns, m \in Amounts :
                  /\ Bear(i) /\ opening' = [opening EXCEPT ![a] = i]
                  /\ Accept(r, "createAccount", CreateAccount(a, i, m))
            \/ /\ opening' = [opening EXCEPT ![a] = Single] /\ UNCHANGED mate
               /\ Accept(r, "createAccount", CreateEmptyAccount(a))
  BY DEF AcceptCreateAccount
<1>2. mate \in [Txns -> Txns \cup {Unborn, Single}] /\ opening \in [Accounts -> Txns \cup {Unborn, Single}]
  BY DEF IInv, TypeOK
<1>3. ASSUME NEW i \in Txns, NEW m \in Amounts, Bear(i), opening' = [opening EXCEPT ![a] = i],
             Accept(r, "createAccount", CreateAccount(a, i, m))
      PROVE  WInv'
  <2>. DEFINE calls == CreateAccount(a, i, m)
  <2>1. calls \in Seq(Calls)
    BY AccountPrograms DEF Program
  <2>2. /\ Sheltered(calls) /\ MakesOnce(calls) /\ Gentle(calls)
        /\ \A x \in Things : Pending(calls, x) <=> \/ x[1] = "account" /\ a = x[2]
                                                   \/ x[1] = "row" /\ i = x[2]
    <3>. DEFINE d == CountAccounts
                b == Begin({"ctl"})
                f == NewAccount(a, SumOf({<<i, m>>}))
                e == Aim({"ctl"})
                g == Insert(i, NewRow(a, m, {}), "own")
                h == Stats(a, "own", TRUE, "ctl")
    <3>1. /\ b.q = "begin" /\ ~Inserting(d) /\ ~Inserting(e) /\ ~Inserting(h)
          /\ Mild(b) /\ Mild(d) /\ Mild(e) /\ Mild(f) /\ Mild(g) /\ Mild(h)
          /\ \A x \in Things : Makes(f, x) <=> x[1] = "account" /\ a = x[2]
          /\ \A x : Makes(g, x) <=> x[1] = "row" /\ i = x[2]
      BY CallKinds, Zenon
    <3>2. calls = <<d, b, f, e, g, h>>
      BY DEF CreateAccount
    <3>. HIDE DEF b, d, e, f, g, h, calls
    <3>3. \A x \in Things : ~(Makes(f, x) /\ Makes(g, x))
      BY <3>1
    <3>. QED  BY <3>1, <3>2, <3>3, MakesTwoOfSix
  <2>. HIDE DEF calls
  <2>4. mate[i] = Unborn /\ mate' = [mate EXCEPT ![i] = Single]
    BY <1>3 DEF Bear
  <2>5. \A x \in Things : /\ Named(x) => Named(x)'
                          /\ Pending(calls, x) => ~Named(x) /\ Named(x)'
    BY <1>1, <1>2, <1>3, <2>2, <2>4, ThingCases, LedgerConstants DEF Named
  <2>6. \A x, y \in Things : Joins(x, y)' => Joins(x, y) \/ (Pending(calls, x) /\ Pending(calls, y))
    BY <1>2, <1>3, <2>2, <2>4, ThingCases, LedgerConstants DEF Joins
  <2>7. \A x, y \in Things : Tied(x, y)' => Tied(x, y) \/ (Pending(calls, x) /\ Pending(calls, y))
    BY <2>6 DEF Tied
  <2>. QED  BY <1>3, <2>1, <2>2, <2>5, <2>7, AcceptCreating DEF calls
<1>4. ASSUME opening' = [opening EXCEPT ![a] = Single], UNCHANGED mate,
             Accept(r, "createAccount", CreateEmptyAccount(a))
      PROVE  WInv'
  <2>. DEFINE calls == CreateEmptyAccount(a)
  <2>1. calls \in Seq(Calls)
    BY AccountPrograms DEF Program
  <2>2. /\ Sheltered(calls) /\ MakesOnce(calls)
        /\ \A x \in Things : Pending(calls, x) <=> x[1] = "account" /\ a = x[2]
    <3>. DEFINE d == CountAccounts
                b == Begin({"ctl"})
                c == NewAccount(a, SumOf({}))
    <3>1. b.q = "begin" /\ ~Inserting(d) /\ \A x \in Things : Makes(c, x) <=> x[1] = "account" /\ a = x[2]
      BY CallKinds
    <3>2. calls = <<d, b, c>>
      BY DEF CreateEmptyAccount
    <3>. HIDE DEF b, c, d, calls
    <3>. QED  BY <3>1, <3>2, MakesOne, Zenon
  <2>. HIDE DEF calls
  <2>3. \A x \in Things : /\ Named(x) => Named(x)'
                          /\ Pending(calls, x) => ~Named(x) /\ Named(x)'
    BY <1>1, <1>2, <1>4, <2>2, ThingCases, LedgerConstants DEF Named
  <2>4. \A x, y \in Things : Joins(x, y)' => Joins(x, y)
    BY <1>2, <1>4, ThingCases, LedgerConstants DEF Joins
  <2>5. \A x, y \in Things : Tied(x, y)' => Tied(x, y)
    BY <2>4 DEF Tied
  <2>. QED  BY <1>4, <2>1, <2>2, <2>3, <2>5, AcceptCreating DEF calls
<1>. QED  BY <1>1, <1>3, <1>4

LEMMA AcceptRequestCreating ==
    ASSUME IInv, WInv, NEW r \in Requests, AcceptRequest(r)
    PROVE  WInv'
<1>1. CASE AcceptUpdate(r)
  <2>1. PICK i \in Txns, e \in Edits : Accept(r, "update", UpdateTransaction(i, e)) /\ SameIds
    BY <1>1 DEF AcceptUpdate
  <2>2. MakesNothing(UpdateTransaction(i, e))
    BY CallKinds, ShortLists DEF UpdateTransaction
  <2>. QED  BY <2>1, <2>2, RowPrograms, AcceptQuietly
<1>2. CASE AcceptDelete(r)
  <2>1. PICK i \in Txns : Accept(r, "delete", DeleteTransaction(i)) /\ SameIds
    BY <1>2 DEF AcceptDelete
  <2>2. MakesNothing(DeleteTransaction(i))
    BY CallKinds, ShortLists DEF DeleteTransaction
  <2>. QED  BY <2>1, <2>2, RowPrograms, AcceptQuietly
<1>3. CASE AcceptLink(r)
  <2>1. PICK i \in Txns, j \in Txns : Accept(r, "link", LinkTransaction(i, j)) /\ SameIds
    BY <1>3 DEF AcceptLink
  <2>2. MakesNothing(LinkTransaction(i, j))
    BY CallKinds, ShortLists DEF LinkTransaction
  <2>. QED  BY <2>1, <2>2, RowPrograms, AcceptQuietly
<1>4. CASE AcceptUnlink(r)
  <2>1. PICK i \in Txns, j \in Txns : Accept(r, "unlink", UnlinkTransaction(i, j)) /\ SameIds
    BY <1>4 DEF AcceptUnlink
  <2>2. MakesNothing(UnlinkTransaction(i, j))
    BY CallKinds, ShortLists DEF UnlinkTransaction
  <2>. QED  BY <2>1, <2>2, RowPrograms, AcceptQuietly
<1>5. CASE AcceptGetStats(r)
  <2>1. PICK a \in Accounts : Accept(r, "stats", GetAccountStats(a)) /\ SameIds
    BY <1>5 DEF AcceptGetStats
  <2>2. MakesNothing(GetAccountStats(a))
    BY CallKinds, ShortLists, Zenon DEF GetAccountStats
  <2>. QED  BY <2>1, <2>2, AccountPrograms, AcceptQuietly
<1>6. CASE AcceptUpdateAccount(r)
  <2>1. PICK a \in Accounts, b \in {"rename", "retype"} :
           /\ Accept(r, IF b = "rename" THEN "renameAccount" ELSE "typeBalance", UpdateAccount(a, b))
           /\ SameIds
    BY <1>6 DEF AcceptUpdateAccount
  <2>2. MakesNothing(UpdateAccount(a, b))
    BY CallKinds, ShortLists DEF UpdateAccount
  <2>. QED  BY <2>1, <2>2, AccountPrograms, AcceptQuietly
<1>7. CASE AcceptDeleteAccount(r)
  <2>1. PICK a \in Accounts : Accept(r, "deleteAccount", DeleteAccount(a)) /\ SameIds
    BY <1>7 DEF AcceptDeleteAccount
  <2>2. MakesNothing(DeleteAccount(a))
    BY CallKinds, ShortLists DEF DeleteAccount
  <2>. QED  BY <2>1, <2>2, AccountPrograms, AcceptQuietly
<1>. QED  BY <1>1, <1>2, <1>3, <1>4, <1>5, <1>6, <1>7, AcceptCreateCreating, AcceptTransferCreating,
          AcceptCreateAccountCreating DEF AcceptRequest

-----------------------------------------------------------------------------
(* Every step.                                                             *)

LEMMA InitCreating == Init => WInv
<1>. SUFFICES ASSUME Init
              PROVE  WInv
  OBVIOUS
<1>1. /\ \A i \in Txns : row[i] = NoRow /\ mate[i] = Unborn
      /\ \A a \in Accounts : bal[a] # Gone => opening[a] # Unborn
      /\ \A a \in Accounts : opening[a] \notin Txns
  BY LedgerConstants DEF Init, DbInit
<1>2. /\ \A c \in Clients : tx[c].row = NoRows /\ tx[c].bal = NoBalances
      /\ \A r \in Requests : req[r].todo = <<>> /\ req[r].own = Pool
  BY DEF Init, DbInit, Autocommit
<1>3. \A x, y \in Things : ~Tied(x, y)
  BY <1>1, ThingCases, LedgerConstants DEF Tied, Joins
<1>4. \A x \in Things : \A c \in Clients : ~Written(c, x) /\ ~Touched(c, x)
  BY <1>2, ThingCases, Sentinels DEF Written, Touched, NoRows, NoBalances
<1>5. \A x \in Things : There(x) => Named(x)
  BY <1>1, ThingCases DEF There, Named
<1>6. ASSUME NEW r \in Requests
      PROVE  Creating(r)
  <2>1. Len(req[r].todo) = 0
    BY <1>2
  <2>2. \A x : ~Pending(req[r].todo, x)
    BY <2>1 DEF Pending
  <2>. QED  BY <1>3, <2>1, <2>2 DEF Creating, Sheltered, MakesOnce, Unmade, BothToCome, HalfDone
<1>. QED  BY <1>3, <1>4, <1>5, <1>6 DEF WInv, TiesNamed, SeenNamed, LocksHeld

\* A step that touches neither the tables nor the requests.
LEMMA AsideCreating ==
    ASSUME WInv, UNCHANGED <<dbVars, req>>, SameIds
    PROVE  WInv'
<1>1. row' = row /\ bal' = bal /\ tx' = tx /\ req' = req
  BY DEF dbVars
<1>2. \A x : (There(x)' <=> There(x)) /\ (Named(x)' <=> Named(x))
  BY <1>1, SameTies DEF There
<1>3. \A x, y : Tied(x, y)' <=> Tied(x, y)
  BY SameTies
<1>4. \A x, c : /\ Written(c, x)' <=> Written(c, x)
                /\ Touched(c, x)' <=> Touched(c, x)
  BY <1>1 DEF Written, Touched
<1>5. \A c, x : Fresh(c, x)' <=> Fresh(c, x)
  BY <1>2, <1>4 DEF Fresh
<1>6. ASSUME NEW r \in Requests
      PROVE  Creating(r)'
  <2>1. Creating(r) /\ req'[r] = req[r]
    BY <1>1 DEF WInv
  <2>2. Unmade(r)'
    BY <1>1, <1>2, <1>4, <2>1 DEF Creating, Unmade
  <2>3. BothToCome(r)'
    <3>. QED  BY <1>1, <1>3, <1>5, <2>1 DEF Creating, BothToCome
  <2>4. HalfDone(r)'
    BY <1>1, <1>2, <1>3, <1>4, <1>5, <2>1 DEF Creating, HalfDone
  <2>. QED  BY <2>1, <2>2, <2>3, <2>4 DEF Creating
<1>7. TiesNamed' /\ SeenNamed' /\ LocksHeld'
  BY <1>2, <1>3, <1>4 DEF WInv, TiesNamed, SeenNamed, LocksHeld
<1>. QED  BY <1>6, <1>7 DEF WInv

\* Whatever step it is, what appears in it appears with what it is tied to.
LEMMA StepCreating ==
    ASSUME OneEach, IInv, AInv, WInv, [Next]_vars
    PROVE  WInv' /\ ShowsTogether
<1>1. NothingNew => ShowsTogether
  BY DEF NothingNew, ShowsTogether
<1>2. UNCHANGED <<row, bal>> => NothingNew
  BY DEF NothingNew, There
<1>3. CASE UNCHANGED vars
  BY <1>1, <1>2, <1>3, AsideCreating DEF vars, dbVars, SameIds
<1>4. ASSUME NEW r \in Requests, AcceptRequest(r)
      PROVE  WInv' /\ ShowsTogether
  <2>1. UNCHANGED <<row, bal>>
    BY <1>4, AcceptedCalls DEF Accept, dbVars
  <2>. QED  BY <1>1, <1>2, <1>4, <2>1, AcceptRequestCreating
<1>5. ASSUME NEW r \in Requests, Progress(r)
      PROVE  WInv' /\ ShowsTogether
  <2>1. CASE RunAim(r) \/ RunForEach(r) \/ Lookup(r) \/ FillCache(r) \/ BeginTransaction(r)
    <3>1. UNCHANGED <<row, bal>>
      BY <2>1, Zenon DEF RunAim, RunForEach, Lookup, FillCache, BeginTransaction, CheckOut, dbVars
    <3>. QED  BY <1>1, <1>2, <2>1, <3>1, RunAimCreating, RunForEachCreating, LookupCreating,
              FillCacheCreating, BeginTransactionCreating
  <2>2. CASE FindRow(r) \/ SumAccount(r) \/ ReadAccount(r) \/ CheckLimit(r)
    <3>1. UNCHANGED <<row, bal>>
      BY <2>2 DEF FindRow, SumAccount, ReadAccount, CheckLimit, dbVars
    <3>. QED  BY <1>1, <1>2, <2>2, <3>1, FindRowCreating, SumAccountCreating, ReadAccountCreating,
              CheckLimitCreating
  <2>3. CASE RefuseRow(r) \/ Fail(r)
    <3>1. UNCHANGED <<row, bal>>
      BY <2>3 DEF RefuseRow, Fail, StatementFails, dbVars
    <3>. QED  BY <1>1, <1>2, <2>3, <3>1, FailuresCreating
  <2>4. CASE \/ WriteRow(r) \/ RemoveRow(r) \/ UpdateBalance(r) \/ InsertAccount(r)
             \/ WriteAccount(r) \/ DeleteAccountRow(r)
    BY <1>1, <2>4, WriteRowCreating, RemovalsCreating, BalanceWritesCreating, InsertAccountCreating
  <2>5. CASE Commit(r)
    BY <2>5, CommitCreating
  <2>6. CASE Rollback(r)
    <3>1. UNCHANGED <<row, bal>>
      BY <2>6 DEF Rollback, RollBackAndRelease
    <3>. QED  BY <1>1, <1>2, <2>6, <3>1, RollbackCreating
  <2>. QED  BY <1>5, <2>1, <2>2, <2>3, <2>4, <2>5, <2>6 DEF Progress, Serve
<1>6. CASE \E p \in Procs, a \in Accounts : Expire(p, a)
  BY <1>1, <1>2, <1>6, AsideCreating DEF Expire, dbVars
<1>7. CASE \E c \in Clients : CloseIdle(c)
  BY <1>1, <1>2, <1>7, AsideCreating DEF CloseIdle, dbVars
<1>. QED  BY <1>3, <1>4, <1>5, <1>6, <1>7 DEF Next

LEMMA CreatingHolds == OneEach /\ Spec => []WInv
<1>. SUFFICES ASSUME OneEach
              PROVE  Spec => []WInv
  OBVIOUS
<1>1. IInv /\ AInv /\ WInv /\ [Next]_vars => WInv'
  BY StepCreating
<1>2. Spec => []AInv
  BY SteadyHolds
<1>. QED  BY InitCreating, <1>1, <1>2, InvariantHolds, PTL DEF Spec

\* While no two requests share a process, the two legs of a transfer appear to others
\* in one step, the COMMIT of the transaction that has inserted them both: whichever
\* statement of it fails, whoever deletes an account in between, none appears alone.
THEOREM TransfersAreWhole == OneEach /\ Spec => TransferWhole
<1>. DEFINE Whole == \A i \in Txns :
                        mate[i] \in Txns /\ row[i] = NoRow /\ row'[i] # NoRow
                        => row[mate[i]] = NoRow /\ row'[mate[i]] # NoRow
<1>. SUFFICES ASSUME OneEach
              PROVE  Spec => TransferWhole
  OBVIOUS
<1>1. ASSUME ShowsTogether
      PROVE  Whole
  <2>. SUFFICES ASSUME NEW i \in Txns, mate[i] \in Txns, row[i] = NoRow, row'[i] # NoRow
                PROVE  row[mate[i]] = NoRow /\ row'[mate[i]] # NoRow
    OBVIOUS
  <2>. PICK j \in Txns : j = mate[i]
    OBVIOUS
  <2>. DEFINE x == <<"row", i>>
              y == <<"row", j>>
  <2>1. x \in Things /\ y \in Things /\ Tied(x, y)
    BY DEF Things, Tied, Joins
  <2>2. There(x)' /\ ~There(x)
    BY DEF There
  <2>3. There(y)' /\ ~There(y)
    BY <1>1, <2>1, <2>2 DEF ShowsTogether
  <2>. QED  BY <2>3 DEF There
<1>2. IInv /\ AInv /\ WInv /\ [Next]_vars => [Whole]_vars
  BY <1>1, StepCreating
<1>3. Spec => []AInv /\ []WInv
  BY SteadyHolds, CreatingHolds
<1>4. TransferWhole <=> [][Whole]_vars
  BY DEF TransferWhole
<1>. HIDE DEF Whole
<1>. QED  BY <1>2, <1>3, <1>4, InvariantHolds, PTL DEF Spec

\* Under the same condition, an account opened with a balance and its opening
\* transaction appear in one step, the COMMIT of createAccount's outer transaction.
THEOREM OpeningsAreWhole == OneEach /\ Spec => OpeningWhole
<1>. DEFINE Whole == \A a \in Accounts :
                        opening[a] \in Txns
                        => (bal[a] = Gone /\ bal'[a] # Gone)
                           = (row[opening[a]] = NoRow /\ row'[opening[a]] # NoRow)
<1>. SUFFICES ASSUME OneEach
              PROVE  Spec => OpeningWhole
  OBVIOUS
<1>1. ASSUME ShowsTogether
      PROVE  Whole
  <2>. SUFFICES ASSUME NEW a \in Accounts, opening[a] \in Txns
                PROVE  (bal[a] = Gone /\ bal'[a] # Gone)
                       = (row[opening[a]] = NoRow /\ row'[opening[a]] # NoRow)
    OBVIOUS
  <2>. PICK i \in Txns : i = opening[a]
    OBVIOUS
  <2>. DEFINE x == <<"account", a>>
              y == <<"row", i>>
  <2>1. x \in Things /\ y \in Things /\ Tied(x, y) /\ Tied(y, x)
    BY DEF Things, Tied, Joins
  <2>2. There(x)' /\ ~There(x) <=> There(y)' /\ ~There(y)
    BY <1>1, <2>1 DEF ShowsTogether
  <2>. QED  BY <2>2 DEF There
<1>2. IInv /\ AInv /\ WInv /\ [Next]_vars => [Whole]_vars
  BY <1>1, StepCreating
<1>3. Spec => []AInv /\ []WInv
  BY SteadyHolds, CreatingHolds
<1>4. OpeningWhole <=> [][Whole]_vars
  BY DEF OpeningWhole
<1>. HIDE DEF Whole
<1>. QED  BY <1>2, <1>3, <1>4, InvariantHolds, PTL DEF Spec
-----------------------------------------------------------------------------
(* One request at a time: the balances.                                    *)

OneRequest == \A r, s \in Requests : r = s
\* No account form changes a balance.
NothingTyped == "typeBalance" \notin Routes

SameMoney(x, y) == x.acct = y.acct /\ x.amt = y.amt

\* The calls of the list after the k-th.
Later(calls, k) == {calls[l] : l \in (k + 1)..Len(calls)}

\* Call c, or what it is followed by, saves the balance of account a.
Saves(c, a) ==
    \/ c.q \in {"lookup", "sum", "fill"} /\ c.acct = a /\ c.use \in Repos
    \/ c.q = "setbal" /\ c.acct = a
Saved(A, a) == \E c \in A : Saves(c, a)

\* Call c leaves the money of a row i, inserted as x before, as it is.
Leaves(c, i, x) ==
    /\ c.q \in {"insert", "remove"} => c.id # i
    /\ c.q = "put" /\ c.id = i => SameMoney(x, c.row)
    /\ c.q = "find" /\ c.how = "linkTo" => c.arg.id # i

(* What call c needs to find, in what a statement to t sees, and in the    *)
(* calls A that come after it, as the k-th of the list: it writes what it  *)
(* has read, or the balances that it changes are saved afterwards.         *)
FitInsert(t, c, A) ==
    c.q = "insert" =>
        /\ RowAt(t, c.id) = NoRow /\ mate[c.id] # Unborn
        /\ Saved(A, c.row.acct)
        /\ \A d \in A : Leaves(d, c.id, c.row)
FitPut(t, c, A, k) ==
    c.q = "put" /\ RowAt(t, c.id) # NoRow =>
        \/ SameMoney(RowAt(t, c.id), c.row)
        \/ /\ k = 1 /\ \A d \in A : d.q = "lookup"
           /\ Saved(A, RowAt(t, c.id).acct) /\ Saved(A, c.row.acct)
FitRemove(t, c, A) ==
    c.q = "remove" /\ RowAt(t, c.id) # NoRow => Saved(A, RowAt(t, c.id).acct)
FitFind(t, c, A) ==
    /\ c.q = "find" /\ c.how = "edit" => \A d \in A : d.q = "lookup"
    /\ c.q = "find" /\ c.how = "linkTo" /\ RowAt(t, c.arg.id) # NoRow
       => SameMoney(RowAt(t, c.arg.id), c.arg.row)
FitNew(t, c, A) ==
    c.q = "newacc" =>
        /\ BalAt(t, c.acct) = Gone /\ opening[c.acct] # Unborn
        /\ c.bal = SumOf({}) \/ Saved(A, c.acct)
        /\ \A d \in A : d.q # "newacc"
FitSave(t, c, k) ==
    /\ c.q \in {"sum", "fill", "setbal", "putacc", "delacc"} => k = 1
    /\ c.q = "lookup" /\ c.use \in Repos => c.fresh
    /\ c.q = "fill" => c.seen = SumAt(t, c.acct)
    /\ c.q = "setbal" => c.bal = SumAt(t, c.acct)
    /\ c.q = "putacc" => c.bal = BalAt(t, c.acct)
    /\ c.q = "findacc" => c.use # "retype"
Fit(t, c, A, k) ==
    /\ FitInsert(t, c, A) /\ FitPut(t, c, A, k) /\ FitRemove(t, c, A)
    /\ FitFind(t, c, A) /\ FitNew(t, c, A) /\ FitSave(t, c, k)

\* Outside a transaction, a call that changes no sum and no balance.
Neutral(t, c) ==
    /\ c.q \notin {"insert", "remove", "setbal", "newacc"}
    /\ c.q = "put" /\ RowAt(t, c.id) # NoRow => SameMoney(RowAt(t, c.id), c.row)
    /\ c.q = "find" => c.how \notin {"edit", "delete"}
    /\ c.q \in {"lookup", "sum", "fill"} => c.use \notin Repos

\* The rows that t sees are of accounts that it sees; both have been accepted.
Whole(t) ==
    /\ \A i \in Txns : RowAt(t, i) # NoRow => BalAt(t, RowAt(t, i).acct) # Gone /\ mate[i] # Unborn
    /\ \A a \in Accounts : BalAt(t, a) # Gone => opening[a] # Unborn

\* Every balance that t sees is the sum, or will be saved by one of the calls.
Owing(t, calls) ==
    \A a \in Accounts : BalAt(t, a) # Gone => BalAt(t, a) = SumAt(t, a) \/ Saved(Later(calls, 0), a)

AllFit(t, calls) == \A k \in 1..Len(calls) : Fit(t, calls[k], Later(calls, k), k)
AllNeutral(t, calls) ==
    \A k \in 1..Len(calls) : Neutral(t, calls[k]) \/ \E j \in 1..k : calls[j].q = "begin"

Paying(r) ==
    /\ Whole(req[r].own) /\ Owing(req[r].own, req[r].todo)
    /\ AllFit(req[r].own, req[r].todo)
    /\ req[r].own = Pool => AllNeutral(req[r].own, req[r].todo)

BInv ==
    /\ Whole(Pool) /\ Owing(Pool, <<>>)
    /\ \A r \in Requests : ~req[r].err => Paying(r)

(* Lists of calls.                                                         *)

LEMMA LaterTail ==
    ASSUME NEW calls \in Seq(Calls), calls # <<>>
    PROVE  /\ \A k \in 1..Len(Tail(calls)) :
                 k + 1 \in 1..Len(calls) /\ Tail(calls)[k] = calls[k + 1]
           /\ \A k \in 0..Len(Tail(calls)) : Later(Tail(calls), k) = Later(calls, k + 1)
           /\ Later(calls, 0) = {Head(calls)} \cup Later(calls, 1)
           /\ \A k \in 1..Len(calls) : Later(calls, k) \subseteq Later(calls, 0)
<1>1. Len(Tail(calls)) = Len(calls) - 1 /\ Len(calls) \in Nat /\ Len(calls) # 0
  OBVIOUS
<1>2. \A k \in 1..Len(Tail(calls)) : k + 1 \in 1..Len(calls) /\ Tail(calls)[k] = calls[k + 1]
  BY <1>1
<1>3. ASSUME NEW k \in 0..Len(Tail(calls))
      PROVE  Later(Tail(calls), k) = Later(calls, k + 1)
  <2>1. \A l \in (k + 1)..Len(Tail(calls)) : l + 1 \in (k + 2)..Len(calls) /\ Tail(calls)[l] = calls[l + 1]
    BY <1>1, <1>2
  <2>2. \A l \in (k + 2)..Len(calls) : l - 1 \in (k + 1)..Len(Tail(calls)) /\ Tail(calls)[l - 1] = calls[l]
    BY <1>1, <1>2
  <2>3. (k + 1) + 1 = k + 2
    BY <1>1
  <2>4. ASSUME NEW x \in Later(Tail(calls), k)
        PROVE  x \in Later(calls, k + 1)
    <3>1. PICK l \in (k + 1)..Len(Tail(calls)) : x = Tail(calls)[l]
      BY Zenon DEF Later
    <3>. QED  BY <2>1, <2>3, <3>1 DEF Later
  <2>5. ASSUME NEW x \in Later(calls, k + 1)
        PROVE  x \in Later(Tail(calls), k)
    <3>1. PICK l \in (k + 2)..Len(calls) : x = calls[l]
      BY <2>3 DEF Later
    <3>. QED  BY <2>2, <3>1, Zenon DEF Later
  <2>. QED  BY <2>4, <2>5, Zenon
<1>4. Later(calls, 0) = {Head(calls)} \cup Later(calls, 1)
  <2>1. \A l \in 1..Len(calls) : l = 1 \/ l \in 2..Len(calls)
    BY <1>1
  <2>2. 1 \in 1..Len(calls) /\ Head(calls) = calls[1] /\ \A l \in 2..Len(calls) : l \in 1..Len(calls)
    BY <1>1
  <2>. QED  BY <2>1, <2>2 DEF Later
<1>5. \A k \in 1..Len(calls) : Later(calls, k) \subseteq Later(calls, 0)
  BY <1>1 DEF Later
<1>. QED  BY <1>2, <1>3, <1>4, <1>5

LEMMA LaterMore ==
    ASSUME NEW more \in Seq(Calls), NEW rest \in Seq(Calls)
    PROVE  /\ \A k \in 1..Len(more \o rest) :
                 \/ /\ k \in 1..Len(more) /\ (more \o rest)[k] = more[k]
                    /\ Later(more \o rest, k) = Later(more, k) \cup Later(rest, 0)
                 \/ /\ k - Len(more) \in 1..Len(rest) /\ (more \o rest)[k] = rest[k - Len(more)]
                    /\ Later(more \o rest, k) = Later(rest, k - Len(more))
           /\ Later(more \o rest, 0) = Later(more, 0) \cup Later(rest, 0)
<1>. DEFINE new == more \o rest
            m == Len(more)
            n == Len(rest)
<1>1. m \in Nat /\ n \in Nat /\ Len(new) = m + n
  OBVIOUS
<1>2. /\ \A k \in 1..m : k \in 1..Len(new) /\ new[k] = more[k]
      /\ \A k \in 1..n : k + m \in 1..Len(new) /\ new[k + m] = rest[k]
      /\ \A k \in 1..Len(new) : k \in 1..m \/ (k - m \in 1..n /\ new[k] = rest[k - m])
  OBVIOUS
<1>. HIDE DEF new, m, n
<1>3. ASSUME NEW k \in 0..m
      PROVE  Later(new, k) = Later(more, k) \cup Later(rest, 0)
  <2>1. ASSUME NEW x \in Later(new, k)
        PROVE  x \in Later(more, k) \cup Later(rest, 0)
    <3>1. PICK l \in (k + 1)..Len(new) : x = new[l]
      BY DEF Later
    <3>2. CASE l \in 1..m
      <4>1. l \in (k + 1)..m /\ x = more[l]
        BY <1>1, <1>2, <3>1, <3>2
      <4>. QED  BY <4>1 DEF Later, m
    <3>3. CASE l \notin 1..m
      <4>1. l - m \in 1..n /\ x = rest[l - m]
        BY <1>1, <1>2, <3>1, <3>3
      <4>. QED  BY <4>1 DEF Later, n
    <3>. QED  BY <3>2, <3>3
  <2>2. ASSUME NEW x \in Later(more, k)
        PROVE  x \in Later(new, k)
    <3>1. PICK l \in (k + 1)..m : x = more[l]
      BY DEF Later, m
    <3>2. l \in (k + 1)..Len(new) /\ x = new[l]
      BY <1>1, <1>2, <3>1
    <3>. QED  BY <3>2 DEF Later
  <2>3. ASSUME NEW x \in Later(rest, 0)
        PROVE  x \in Later(new, k)
    <3>1. PICK l \in 1..n : x = rest[l]
      BY DEF Later, n
    <3>2. l + m \in (k + 1)..Len(new) /\ x = new[l + m]
      BY <1>1, <1>2, <3>1
    <3>. QED  BY <3>2 DEF Later
  <2>. QED  BY <2>1, <2>2, <2>3
<1>4. ASSUME NEW k \in (m + 1)..Len(new)
      PROVE  Later(new, k) = Later(rest, k - m)
  <2>1. ASSUME NEW x \in Later(new, k)
        PROVE  x \in Later(rest, k - m)
    <3>1. PICK l \in (k + 1)..Len(new) : x = new[l]
      BY DEF Later
    <3>2. l - m \in (k - m + 1)..n /\ x = rest[l - m]
      BY <1>1, <1>2, <3>1
    <3>. QED  BY <3>2 DEF Later, n
  <2>2. ASSUME NEW x \in Later(rest, k - m)
        PROVE  x \in Later(new, k)
    <3>1. PICK l \in (k - m + 1)..n : x = rest[l]
      BY DEF Later, n
    <3>2. l + m \in (k + 1)..Len(new) /\ x = new[l + m]
      BY <1>1, <1>2, <3>1
    <3>. QED  BY <3>2 DEF Later
  <2>. QED  BY <2>1, <2>2, Zenon
<1>5. \A k \in 0..m : Later(new, k) = Later(more, k) \cup Later(rest, 0)
  BY <1>3
<1>6. \A k \in (m + 1)..Len(new) : Later(new, k) = Later(rest, k - m)
  BY <1>4
<1>7. \A k \in 1..Len(new) : (k \in 1..m /\ k \in 0..m) \/ (k \in (m + 1)..Len(new) /\ k - m \in 1..n)
  BY <1>1
<1>8. 0 \in 0..m
  BY <1>1
<1>. QED  BY <1>2, <1>5, <1>6, <1>7, <1>8 DEF new, m

LEMMA LaterShort ==
    /\ \A k : Later(<<>>, 0) = {}
    /\ \A c : Len(<<c>>) = 1 /\ Later(<<c>>, 0) = {c} /\ Later(<<c>>, 1) = {}
    /\ \A c, d : /\ Len(<<c, d>>) = 2
                 /\ Later(<<c, d>>, 0) = {c, d} /\ Later(<<c, d>>, 1) = {d} /\ Later(<<c, d>>, 2) = {}
<1>1. Len(<<>>) = 0 /\ 1..0 = {}
  OBVIOUS
<1>2. ASSUME NEW c
      PROVE  Len(<<c>>) = 1 /\ Later(<<c>>, 0) = {c} /\ Later(<<c>>, 1) = {}
  BY DEF Later
<1>3. ASSUME NEW c, NEW d
      PROVE  /\ Len(<<c, d>>) = 2
             /\ Later(<<c, d>>, 0) = {c, d} /\ Later(<<c, d>>, 1) = {d} /\ Later(<<c, d>>, 2) = {}
  BY DEF Later
<1>. QED  BY <1>1, <1>2, <1>3 DEF Later

-----------------------------------------------------------------------------
(* What the request that is alone sees.                                    *)

LEMMA NothingOpen ==
    ASSUME OneRequest, IInv, NEW r \in Requests, req[r].own = Pool
    PROVE  \A c \in Clients : tx[c] = Autocommit
<1>. SUFFICES ASSUME NEW c \in Clients
              PROVE  tx[c] = Autocommit
  OBVIOUS
<1>1. lease[c] \in Requests \cup {Free} /\ c # Pool
  BY TargetsDiffer DEF IInv, TypeOK, DbTypeOK
<1>2. \A s \in Requests : lease[c] # s
  BY <1>1 DEF OneRequest, IInv, PoolDiscipline
<1>. QED  BY <1>1, <1>2 DEF IInv, PoolDiscipline

\* A statement of the request goes to its client, or to what shows only what is committed.
LEMMA SeesItsOwn ==
    ASSUME OneRequest, IInv, AInv, NEW r \in Requests, NEW t, t = req[r].own, IsStatement(r)
    PROVE  /\ \A i \in Txns : RowAt(req[r].on, i) = RowAt(t, i)
           /\ \A a \in Accounts : BalAt(req[r].on, a) = BalAt(t, a)
           /\ \A a \in Accounts : SumAt(req[r].on, a) = SumAt(t, a)
<1>1. CASE t = Pool
  <2>1. \A c \in Clients : tx[c] = Autocommit
    BY <1>1, NothingOpen, Zenon
  <2>2. \A i \in Txns : RowAt(req[r].on, i) = row[i] /\ RowAt(t, i) = row[i]
    BY <1>1, <2>1, TargetsDiffer DEF RowAt, Autocommit, NoRows
  <2>3. \A a \in Accounts : BalAt(req[r].on, a) = bal[a] /\ BalAt(t, a) = bal[a]
    BY <1>1, <2>1, TargetsDiffer DEF BalAt, Autocommit, NoBalances
  <2>4. \A a \in Accounts : RowsOf(req[r].on, a) = RowsOf(t, a)
    BY <2>2 DEF RowsOf
  <2>5. \A a \in Accounts : SumAt(req[r].on, a) = SumAt(t, a)
    BY <2>2, <2>4, Zenon DEF SumAt, RowsOf
  <2>. QED  BY <2>2, <2>3, <2>5
<1>2. CASE t # Pool
  BY <1>2 DEF AInv, Steady
<1>. QED  BY <1>1, <1>2

LEMMA WriteIsSeen ==
    ASSUME OneRequest, IInv, AInv, NEW r \in Requests, NEW t, t = req[r].own, IsStatement(r),
           NEW dr \in [Txns -> Row \cup {NoRow, Same}],
           NEW db \in [Accounts -> Balance \cup {Gone, Same}], Write(req[r].on, dr, db)
    PROVE  /\ \A i \in Txns : RowAt(t, i)' = IF dr[i] = Same THEN RowAt(t, i) ELSE dr[i]
           /\ \A a \in Accounts : BalAt(t, a)' = IF db[a] = Same THEN BalAt(t, a) ELSE db[a]
           /\ t # Pool => row' = row /\ bal' = bal
<1>1. /\ row \in [Txns -> Row \cup {NoRow}] /\ bal \in [Accounts -> Balance \cup {Gone}]
      /\ tx \in [Clients -> Session] /\ t \in Clients \cup {Pool}
  BY DEF IInv, TypeOK, DbTypeOK, ReqType
<1>2. CASE t = Pool
  <2>1. \A c \in Clients : tx[c] = Autocommit
    BY <1>2, NothingOpen, Zenon
  <2>2. row' = Over(row, dr) /\ bal' = Over(bal, db)
    BY <2>1, AutocommitType DEF Write
  <2>3. /\ \A i \in Txns : row'[i] = IF dr[i] = Same THEN row[i] ELSE dr[i]
        /\ \A a \in Accounts : bal'[a] = IF db[a] = Same THEN bal[a] ELSE db[a]
    BY <1>1, <2>2 DEF Over
  <2>. QED  BY <1>2, <2>3, TargetsDiffer DEF RowAt, BalAt
<1>3. CASE t # Pool
  <2>1. /\ req[r].on = t /\ t \in Clients /\ ~req[r].err
    BY <1>1, <1>3 DEF AInv, Steady, IsStatement, IInv, ErrInside
  <2>2. tx[t].state = "open"
    BY <1>3, <2>1 DEF AInv, Steady
  <2>3. tx' = [tx EXCEPT ![t].row = Over(tx[t].row, dr), ![t].bal = Over(tx[t].bal, db)] /\ UNCHANGED <<row, bal>>
    BY <1>1, <2>1, <2>2 DEF Write
  <2>4. tx[t].row \in [Txns -> Row \cup {NoRow, Same}] /\ tx[t].bal \in [Accounts -> Balance \cup {Gone, Same}]
    BY <1>1, <2>1 DEF Session
  <2>5. tx'[t].row = Over(tx[t].row, dr) /\ tx'[t].bal = Over(tx[t].bal, db)
    BY <1>1, <2>1, <2>3 DEF Session
  <2>6. /\ \A i \in Txns : tx'[t].row[i] = IF dr[i] = Same THEN tx[t].row[i] ELSE dr[i]
        /\ \A a \in Accounts : tx'[t].bal[a] = IF db[a] = Same THEN tx[t].bal[a] ELSE db[a]
    BY <2>4, <2>5 DEF Over
  <2>. QED  BY <2>1, <2>3, <2>6, Zenon DEF RowAt, BalAt
<1>. QED  BY <1>2, <1>3

LEMMA QuietIsSeen ==
    ASSUME UNCHANGED <<row, bal, tx>>, NEW t
    PROVE  /\ \A i \in Txns : RowAt(t, i)' = RowAt(t, i)
           /\ \A a \in Accounts : BalAt(t, a)' = BalAt(t, a)
           /\ \A a \in Accounts : SumAt(t, a)' = SumAt(t, a)
BY DEF RowAt, BalAt, SumAt, RowsOf

\* The sum of an account depends on the accounts and the amounts of the rows.
LEMMA SumIsOfRows ==
    ASSUME NEW t, NEW a,
           \A i \in Txns : /\ (RowAt(t, i) # NoRow /\ RowAt(t, i).acct = a)
                              <=> (RowAt(t, i)' # NoRow /\ RowAt(t, i)'.acct = a)
                           /\ RowAt(t, i) # NoRow /\ RowAt(t, i).acct = a
                              => RowAt(t, i)'.amt = RowAt(t, i).amt
    PROVE  SumAt(t, a)' = SumAt(t, a)
<1>1. RowsOf(t, a)' = RowsOf(t, a)
  BY DEF RowsOf
<1>2. \A i \in RowsOf(t, a) : RowAt(t, i)'.amt = RowAt(t, i).amt
  BY DEF RowsOf
<1>3. {<<i, RowAt(t, i).amt>> : i \in RowsOf(t, a)}' = {<<i, RowAt(t, i).amt>> : i \in RowsOf(t, a)}
  BY <1>1, <1>2
<1>. QED  BY <1>3, Zenon DEF SumAt, SumOf

-----------------------------------------------------------------------------
(* Going on.                                                               *)

\* What is in order anywhere in the list is in order at its head.
LEMMA FirstToo ==
    \A t, c, A, k : Fit(t, c, A, 2) => Fit(t, c, A, k)
BY DEF Fit, FitPut, FitSave

LEMMA FirstTooThen ==
    ASSUME NEW t, NEW c, NEW A, NEW k, Fit(t, c, A, 2)'
    PROVE  Fit(t, c, A, k)'
BY DEF Fit, FitPut, FitSave, FitInsert, FitRemove, FitFind, FitNew

\* A step that changes no row and no balance leaves everything in order.
LEMMA QuietFits ==
    ASSUME UNCHANGED <<row, bal, tx, mate, opening>>, NEW t, NEW c, NEW A, NEW k
    PROVE  /\ Fit(t, c, A, k) => Fit(t, c, A, k)'
           /\ Neutral(t, c) => Neutral(t, c)'
<1>1. /\ \A i : RowAt(t, i)' = RowAt(t, i)
      /\ \A a : BalAt(t, a)' = BalAt(t, a)
      /\ \A a : SumAt(t, a)' = SumAt(t, a)
  BY DEF RowAt, BalAt, SumAt, RowsOf
<1>2. mate' = mate /\ opening' = opening
  OBVIOUS
<1>3. Saved(A, c.row.acct)' = Saved(A, c.row.acct) /\ \A d : Leaves(d, c.id, c.row)' = Leaves(d, c.id, c.row)
  BY DEF Saved, Saves, Leaves, SameMoney
<1>4. FitInsert(t, c, A) => FitInsert(t, c, A)'
  BY <1>1, <1>2 DEF FitInsert, Saved, Saves, Leaves, SameMoney
<1>5. FitPut(t, c, A, k) => FitPut(t, c, A, k)'
  BY <1>1 DEF FitPut, Saved, Saves, SameMoney
<1>6. FitRemove(t, c, A) => FitRemove(t, c, A)'
  BY <1>1 DEF FitRemove, Saved, Saves
<1>7. FitFind(t, c, A) => FitFind(t, c, A)'
  BY <1>1 DEF FitFind, SameMoney
<1>8. FitNew(t, c, A) => FitNew(t, c, A)'
  BY <1>1, <1>2 DEF FitNew, Saved, Saves, SumOf
<1>9. FitSave(t, c, k) => FitSave(t, c, k)'
  BY <1>1 DEF FitSave
<1>10. Neutral(t, c) => Neutral(t, c)'
  BY <1>1 DEF Neutral, SameMoney
<1>. QED  BY <1>4, <1>5, <1>6, <1>7, <1>8, <1>9, <1>10 DEF Fit

\* Request r replaces its first call by more.
Replaces(r, more) ==
    /\ req'[r].todo = more \o Tail(req[r].todo)
    /\ req'[r].own = req[r].own

LEMMA GoesOnPaying ==
    ASSUME IInv, NEW r \in Requests, Paying(r), req[r].todo # <<>>, Call(r).q # "begin",
           NEW more \in Seq(InnerCalls), Replaces(r, more),
           NEW t, t = req[r].own, NEW L, L = Later(req[r].todo, 1),
           \A c \in L \cap InnerCalls, A \in SUBSET L : Fit(t, c, A, 2) => Fit(t, c, A, 2)',
           t = Pool => \A c \in L \cap InnerCalls : Neutral(t, c) => Neutral(t, c)',
           Whole(t)',
           \A a \in Accounts : BalAt(t, a)' # Gone
                               => BalAt(t, a)' = SumAt(t, a)' \/ Saved(Later(more, 0) \cup L, a),
           \A k \in 1..Len(more) : Fit(t, more[k], Later(more, k) \cup L, k)',
           t = Pool => \A k \in 1..Len(more) : Neutral(t, more[k])'
    PROVE  Paying(r)'
<1>. SUFFICES ASSUME NEW old, old = req[r].todo, NEW rest, rest = Tail(old),
                     NEW new, new = more \o rest
              PROVE  Paying(r)'
  BY Zenon
<1>1. /\ old \in Seq(Calls) /\ rest \in Seq(Calls) /\ more \in Seq(Calls) /\ new \in Seq(Calls)
      /\ req'[r].todo = new /\ req'[r].own = t
  BY HeadIsCall, InnerIsNotBegin DEF IInv, Replaces
<1>2. /\ \A k \in 1..Len(rest) : k + 1 \in 1..Len(old) /\ rest[k] = old[k + 1]
      /\ \A k \in 0..Len(rest) : Later(rest, k) = Later(old, k + 1)
      /\ Later(rest, 0) = L
  <2>1. 0 \in 0..Len(rest) /\ 0 + 1 = 1
    BY <1>1
  <2>. QED  BY <1>1, <2>1, LaterTail
<1>3. /\ \A k \in 1..Len(new) :
            \/ /\ k \in 1..Len(more) /\ new[k] = more[k]
               /\ Later(new, k) = Later(more, k) \cup L
            \/ /\ k - Len(more) \in 1..Len(rest) /\ new[k] = rest[k - Len(more)]
               /\ Later(new, k) = Later(rest, k - Len(more))
      /\ Later(new, 0) = Later(more, 0) \cup L
  <2>1. /\ \A k \in 1..Len(more \o rest) :
              \/ /\ k \in 1..Len(more) /\ (more \o rest)[k] = more[k]
                 /\ Later(more \o rest, k) = Later(more, k) \cup Later(rest, 0)
              \/ /\ k - Len(more) \in 1..Len(rest) /\ (more \o rest)[k] = rest[k - Len(more)]
                 /\ Later(more \o rest, k) = Later(rest, k - Len(more))
        /\ Later(more \o rest, 0) = Later(more, 0) \cup Later(rest, 0)
    BY <1>1, LaterMore, Zenon
  <2>. QED  BY <1>2, <2>1
<1>4. \A k \in 1..Len(rest) : rest[k] \in L /\ Later(rest, k) \subseteq L /\ k \in 0..Len(rest)
  <2>1. \A k \in 1..Len(rest) : k \in (0 + 1)..Len(rest) /\ k \in 0..Len(rest)
    BY <1>1
  <2>2. \A k \in 1..Len(rest) : \A l \in (k + 1)..Len(rest) : l \in (0 + 1)..Len(rest)
    BY <1>1
  <2>. QED  BY <1>2, <2>1, <2>2 DEF Later
<1>5. AllFit(t, old) /\ (t = Pool => AllNeutral(t, old))
  BY DEF Paying
<1>6. \A k \in 1..Len(rest) : rest[k].q # "begin" => rest[k] \in InnerCalls
  BY <1>1, CallFields
<1>7. ASSUME NEW k \in 1..Len(rest)
      PROVE  Fit(t, rest[k], Later(rest, k), 2)'
  <2>1. Fit(t, rest[k], Later(rest, k), 2)
    <3>1. /\ k + 1 \in 1..Len(old) /\ rest[k] = old[k + 1] /\ Later(rest, k) = Later(old, k + 1)
          /\ k + 1 # 1
      BY <1>1, <1>2, <1>4
    <3>2. Fit(t, old[k + 1], Later(old, k + 1), k + 1)
      BY <1>5, <3>1 DEF AllFit
    <3>. QED  BY <3>1, <3>2, Zenon DEF Fit, FitPut, FitSave
  <2>2. CASE rest[k].q # "begin"
    BY <1>4, <1>6, <2>1, <2>2
  <2>3. CASE rest[k].q = "begin"
    BY <2>3 DEF Fit, FitInsert, FitPut, FitRemove, FitFind, FitNew, FitSave
  <2>. QED  BY <2>2, <2>3
<1>8. ASSUME NEW k \in 1..Len(new)
      PROVE  Fit(t, new[k], Later(new, k), k)'
  <2>1. CASE k \in 1..Len(more) /\ new[k] = more[k] /\ Later(new, k) = Later(more, k) \cup L
    BY <2>1, Zenon
  <2>2. CASE /\ k - Len(more) \in 1..Len(rest) /\ new[k] = rest[k - Len(more)]
             /\ Later(new, k) = Later(rest, k - Len(more))
    <3>1. Fit(t, new[k], Later(new, k), 2)'
      BY <1>7, <2>2, Zenon
    <3>. QED  BY <3>1, FirstTooThen, Zenon
  <2>. QED  BY <1>3, <2>1, <2>2
<1>9. AllFit(req[r].own, req[r].todo)'
  BY <1>1, <1>8 DEF AllFit
<1>10. Owing(req[r].own, req[r].todo)'
  BY <1>1, <1>3, Zenon DEF Owing, Saved, Saves
<1>11. Whole(req[r].own)'
  BY <1>1 DEF Whole
<1>12. ASSUME t = Pool
       PROVE  AllNeutral(t, req[r].todo)'
  <2>. SUFFICES ASSUME NEW k \in 1..Len(new)
                PROVE  Neutral(t, new[k])' \/ \E j \in 1..k : new[j].q = "begin"
    BY <1>1, Zenon DEF AllNeutral
  <2>1. CASE k \in 1..Len(more) /\ new[k] = more[k]
    BY <1>12, <2>1
  <2>2. CASE k - Len(more) \in 1..Len(rest) /\ new[k] = rest[k - Len(more)]
    <3>. DEFINE h == k - Len(more)
    <3>1. Len(more) \in Nat /\ h \in 1..Len(rest) /\ k = h + Len(more) /\ new[k] = rest[h]
      BY <1>1, <2>2
    <3>. HIDE DEF h
    <3>2. h + 1 \in 1..Len(old) /\ rest[h] = old[h + 1] /\ rest[h] \in L
      BY <1>2, <1>4, <3>1, Zenon
    <3>3. Neutral(t, old[h + 1]) \/ \E j \in 1..(h + 1) : old[j].q = "begin"
      BY <1>5, <1>12, <3>2 DEF AllNeutral
    <3>4. CASE rest[h].q = "begin"
      BY <3>1, <3>4
    <3>5. CASE rest[h].q # "begin" /\ Neutral(t, rest[h])
      BY <1>6, <1>12, <3>1, <3>2, <3>5
    <3>6. ASSUME NEW j \in 1..(h + 1), old[j].q = "begin"
          PROVE  \E l \in 1..k : new[l].q = "begin"
      <4>1. j # 1
        BY <1>1, <3>6 DEF Call
      <4>2. PICK i \in Int : i = j - 1
        BY <3>1
      <4>3. PICK l \in Int : l = i + Len(more)
        <5>1. i + Len(more) \in Int
          BY <3>1, <4>2
        <5>. QED  BY <5>1, Zenon
      <4>4. Len(new) = Len(more) + Len(rest) /\ Len(more) \in Nat /\ Len(rest) \in Nat
        BY <1>1
      <4>5. /\ i + 1 = j /\ i \in 1..Len(rest)
            /\ l \in 1..k /\ l \in 1..Len(new) /\ l \notin 1..Len(more) /\ l - Len(more) = i
        BY <3>1, <4>1, <4>2, <4>3, <4>4
      <4>6. rest[i] = old[j]
        BY <1>2, <4>5, Zenon
      <4>7. new[l] = rest[i]
        BY <1>3, <4>5
      <4>8. new[l].q = "begin"
        BY <3>6, <4>6, <4>7, Zenon
      <4>. QED  BY <4>5, <4>8, Zenon
    <3>. QED  BY <3>2, <3>3, <3>4, <3>5, <3>6, Zenon
  <2>. QED  BY <1>3, <2>1, <2>2, Zenon
<1>13. req'[r].own = Pool => AllNeutral(req[r].own, req[r].todo)'
  BY <1>1, <1>12, Zenon DEF AllNeutral, Neutral
<1>. QED  BY <1>9, <1>10, <1>11, <1>13 DEF Paying

-----------------------------------------------------------------------------
(* The steps, put together.                                                *)

LEMMA HeadIsFit ==
    ASSUME IInv, BInv, NEW r \in Requests, req[r].todo # <<>>, NEW t, t = req[r].own,
           NEW L, L = Later(req[r].todo, 1), NEW c, c = Call(r)
    PROVE  /\ ~req[r].err /\ Paying(r)
           /\ Fit(t, c, L, 1)
           /\ t = Pool /\ c.q # "begin" => Neutral(t, c)
           /\ Later(req[r].todo, 0) = {c} \cup L
<1>1. ~req[r].err /\ Paying(r)
  BY DEF IInv, ErrInside, BInv
<1>2. /\ req[r].todo \in Seq(Calls) /\ c = req[r].todo[1] /\ c = Head(req[r].todo)
      /\ 1 \in 1..Len(req[r].todo)
  BY HeadIsCall DEF IInv, Call
<1>3. Fit(t, c, L, 1)
  BY <1>1, <1>2 DEF Paying, AllFit
<1>4. t = Pool /\ c.q # "begin" => Neutral(t, c)
  <2>1. t = Pool => Neutral(t, c) \/ \E j \in 1..1 : req[r].todo[j].q = "begin"
    BY <1>1, <1>2 DEF Paying, AllNeutral
  <2>2. \A j \in 1..1 : req[r].todo[j] = c
    BY <1>2
  <2>. QED  BY <2>1, <2>2
<1>5. Later(req[r].todo, 0) = {Head(req[r].todo)} \cup Later(req[r].todo, 1)
  BY <1>2, LaterTail
<1>. QED  BY <1>1, <1>2, <1>3, <1>4, <1>5

LEMMA PaidInAll ==
    ASSUME OneRequest, NEW r \in Requests, Whole(Pool)', Owing(Pool, <<>>)',
           req'[r].err \/ Paying(r)'
    PROVE  BInv'
BY DEF OneRequest, BInv

LEMMA PoolStaysPaid ==
    ASSUME BInv, UNCHANGED <<row, bal, mate, opening>>
    PROVE  Whole(Pool)' /\ Owing(Pool, <<>>)'
<1>1. /\ \A i : RowAt(Pool, i)' = RowAt(Pool, i)
      /\ \A a : BalAt(Pool, a)' = BalAt(Pool, a)
      /\ \A a : SumAt(Pool, a)' = SumAt(Pool, a)
  BY TargetsDiffer DEF RowAt, BalAt, SumAt, RowsOf
<1>2. Whole(Pool)'
  BY <1>1 DEF BInv, Whole
<1>3. Owing(Pool, <<>>)'
  BY <1>1 DEF BInv, Owing, Saved, Later
<1>. QED  BY <1>2, <1>3

LEMMA ThrowsPaid ==
    ASSUME OneRequest, IInv, BInv, NEW r \in Requests, Throw(r), UNCHANGED <<row, bal, mate, opening>>
    PROVE  BInv'
<1>1. Whole(Pool)' /\ Owing(Pool, <<>>)'
  BY PoolStaysPaid
<1>2. req[r] \in ReqType
  BY DEF IInv, TypeOK
<1>3. /\ req'[r].todo = <<>> /\ req'[r].own = req[r].own
      /\ req'[r].err = (req[r].own # Pool)
  BY <1>2 DEF Throw, IInv, TypeOK
<1>4. CASE req[r].own # Pool
  BY <1>1, <1>3, <1>4, PaidInAll, Zenon
<1>5. CASE req[r].own = Pool
  <2>1. req'[r].own = Pool /\ req'[r].todo = <<>> /\ Len(<<>>) = 0 /\ 1..0 = {}
    BY <1>3, <1>5
  <2>2. Whole(req[r].own)' /\ Owing(req[r].own, req[r].todo)'
    BY <1>1, <2>1 DEF Whole, Owing
  <2>3. AllFit(req[r].own, req[r].todo)' /\ AllNeutral(req[r].own, req[r].todo)'
    BY <2>1 DEF AllFit, AllNeutral
  <2>. QED  BY <1>1, <2>2, <2>3, PaidInAll DEF Paying
<1>. QED  BY <1>4, <1>5

\* Nothing is written: what follows the call is in order now, and saves what it saves.
LEMMA QuietlyPaid ==
    ASSUME OneRequest, IInv, BInv, NEW r \in Requests, req[r].todo # <<>>, Call(r).q # "begin",
           NEW more \in Seq(InnerCalls), Replaces(r, more),
           UNCHANGED <<row, bal, tx, mate, opening>>,
           NEW t, t = req[r].own, NEW L, L = Later(req[r].todo, 1), NEW c, c = Call(r),
           \A a \in Accounts : BalAt(t, a) # Gone /\ Saves(c, a) => Saved(Later(more, 0) \cup L, a),
           \A k \in 1..Len(more) : Fit(t, more[k], Later(more, k) \cup L, k),
           t = Pool => \A k \in 1..Len(more) : Neutral(t, more[k])
    PROVE  BInv'
<1>1. Whole(Pool)' /\ Owing(Pool, <<>>)'
  BY PoolStaysPaid
<1>2. Paying(r) /\ Later(req[r].todo, 0) = {c} \cup L
  BY HeadIsFit
<1>3. /\ \A i : RowAt(t, i)' = RowAt(t, i)
      /\ \A a : BalAt(t, a)' = BalAt(t, a)
      /\ \A a : SumAt(t, a)' = SumAt(t, a)
  BY DEF RowAt, BalAt, SumAt, RowsOf
<1>4. \A d \in L \cap InnerCalls, A \in SUBSET L : Fit(t, d, A, 2) => Fit(t, d, A, 2)'
  BY QuietFits
<1>5. t = Pool => \A d \in L \cap InnerCalls : Neutral(t, d) => Neutral(t, d)'
  BY QuietFits
<1>6. Whole(t)'
  BY <1>2, <1>3 DEF Paying, Whole
<1>7. \A a \in Accounts : BalAt(t, a)' # Gone
                          => BalAt(t, a)' = SumAt(t, a)' \/ Saved(Later(more, 0) \cup L, a)
  BY <1>2, <1>3 DEF Paying, Owing, Saved
<1>8. \A k \in 1..Len(more) : more[k] \in InnerCalls
  OBVIOUS
<1>9. \A k \in 1..Len(more) : Fit(t, more[k], Later(more, k) \cup L, k)'
  <2>1. ASSUME NEW d \in InnerCalls, NEW A, NEW k, Fit(t, d, A, k)
        PROVE  Fit(t, d, A, k)'
    BY <2>1, QuietFits
  <2>. QED  BY <1>8, <2>1, Zenon
<1>10. t = Pool => \A k \in 1..Len(more) : Neutral(t, more[k])'
  BY <1>8, QuietFits, Zenon
<1>11. Paying(r)'
  BY <1>2, <1>4, <1>5, <1>6, <1>7, <1>9, <1>10, GoesOnPaying, Zenon
<1>. QED  BY <1>1, <1>11, PaidInAll

\* A write, after which the calls that are left are in order, and what is owed is saved.
LEMMA WritePaid ==
    ASSUME OneRequest, IInv, AInv, BInv, NEW r \in Requests, IsStatement(r), Replaces(r, <<>>), SameIds,
           NEW dr \in [Txns -> Row \cup {NoRow, Same}],
           NEW db \in [Accounts -> Balance \cup {Gone, Same}], Write(req[r].on, dr, db),
           NEW t, t = req[r].own, NEW L, L = Later(req[r].todo, 1),
           \A d \in L \cap InnerCalls, A \in SUBSET L : Fit(t, d, A, 2) => Fit(t, d, A, 2)',
           t = Pool => \A d \in L \cap InnerCalls : Neutral(t, d) => Neutral(t, d)',
           Whole(t)',
           \A a \in Accounts : BalAt(t, a)' # Gone => BalAt(t, a)' = SumAt(t, a)' \/ Saved(L, a),
           t = Pool => Owing(t, <<>>)'
    PROVE  BInv'
<1>1. /\ req[r].todo # <<>> /\ Call(r).q # "begin" /\ <<>> \in Seq(InnerCalls)
      /\ Len(<<>>) = 0 /\ 1..0 = {} /\ Later(<<>>, 0) \cup L = L
  BY LaterShort, SmallSeqs DEF IsStatement
<1>2. Paying(r)
  BY <1>1, HeadIsFit
<1>3. Paying(r)'
  <2>1. \A k \in 1..Len(<<>>) : Fit(t, <<>>[k], Later(<<>>, k) \cup L, k)'
    BY <1>1
  <2>2. \A k \in 1..Len(<<>>) : Neutral(t, <<>>[k])'
    BY <1>1
  <2>3. \A a \in Accounts : BalAt(t, a)' # Gone
                            => BalAt(t, a)' = SumAt(t, a)' \/ Saved(Later(<<>>, 0) \cup L, a)
    BY <1>1, Zenon
  <2>. QED  BY <1>1, <1>2, <2>1, <2>2, <2>3, GoesOnPaying, Zenon
<1>4. CASE t = Pool
  <2>1. Whole(Pool)' /\ Owing(Pool, <<>>)'
    BY <1>4 DEF Whole, Owing
  <2>. QED  BY <1>3, <2>1, PaidInAll
<1>5. CASE t # Pool
  <2>1. row' = row /\ bal' = bal
    BY <1>5, WriteIsSeen
  <2>2. Whole(Pool)' /\ Owing(Pool, <<>>)'
    BY <2>1, PoolStaysPaid DEF SameIds
  <2>. QED  BY <1>3, <2>2, PaidInAll
<1>. QED  BY <1>4, <1>5

-----------------------------------------------------------------------------
(* What a write leaves in order.                                           *)

\* A write that only drops rows, or keeps their money, and adds no account.
LEMMA FitsStill ==
    ASSUME UNCHANGED <<mate, opening>>, NEW t,
           \A i \in Txns : \/ RowAt(t, i)' = NoRow
                           \/ RowAt(t, i) # NoRow /\ SameMoney(RowAt(t, i), RowAt(t, i)'),
           \A a \in Accounts : BalAt(t, a) = Gone => BalAt(t, a)' = Gone,
           NEW c \in InnerCalls, NEW A
    PROVE  /\ Fit(t, c, A, 2) => Fit(t, c, A, 2)'
           /\ Neutral(t, c) => Neutral(t, c)'
<1>1. /\ c.q \in {"insert", "put", "remove"} => c.id \in Txns
      /\ c.q = "newacc" => c.acct \in Accounts
      /\ c.q = "find" /\ c.how = "linkTo" => c.arg.id \in Txns
  BY StatementFields, FindFields
<1>2. mate' = mate /\ opening' = opening
  OBVIOUS
<1>3. FitInsert(t, c, A) => FitInsert(t, c, A)'
  BY <1>1, <1>2 DEF FitInsert, Saved, Saves, Leaves, SameMoney
<1>4. FitPut(t, c, A, 2) => FitPut(t, c, A, 2)'
  BY <1>1 DEF FitPut, SameMoney
<1>5. FitRemove(t, c, A) => FitRemove(t, c, A)'
  BY <1>1 DEF FitRemove, Saved, Saves, SameMoney
<1>6. FitFind(t, c, A) => FitFind(t, c, A)'
  BY <1>1 DEF FitFind, SameMoney
<1>7. FitNew(t, c, A) => FitNew(t, c, A)'
  BY <1>1, <1>2 DEF FitNew, Saved, Saves, SumOf
<1>8. Fit(t, c, A, 2) => FitSave(t, c, 2)'
  BY DEF Fit, FitSave
<1>9. Neutral(t, c) => Neutral(t, c)'
  BY <1>1 DEF Neutral, SameMoney
<1>. QED  BY <1>3, <1>4, <1>5, <1>6, <1>7, <1>8, <1>9 DEF Fit

\* Row i is inserted, and the calls that follow leave its money as it is.
LEMMA FitsAfterInsert ==
    ASSUME UNCHANGED <<mate, opening>>, NEW t, NEW i \in Txns, NEW x,
           \A j \in Txns : RowAt(t, j)' = IF j = i THEN x ELSE RowAt(t, j),
           \A a \in Accounts : BalAt(t, a)' = BalAt(t, a),
           NEW c \in InnerCalls, NEW A, Leaves(c, i, x), Fit(t, c, A, 2)
    PROVE  Fit(t, c, A, 2)'
<1>1. /\ c.q \in {"insert", "put", "remove"} => c.id \in Txns
      /\ c.q = "newacc" => c.acct \in Accounts
      /\ c.q = "find" /\ c.how = "linkTo" => c.arg.id \in Txns
  BY StatementFields, FindFields
<1>2. mate' = mate /\ opening' = opening
  OBVIOUS
<1>3. FitInsert(t, c, A)'
  BY <1>1, <1>2 DEF Fit, FitInsert, Saved, Saves, Leaves, SameMoney
<1>4. FitPut(t, c, A, 2)'
  BY <1>1 DEF Fit, FitPut, Leaves, SameMoney
<1>5. FitRemove(t, c, A)'
  BY <1>1 DEF Fit, FitRemove, Saved, Saves, Leaves
<1>6. FitFind(t, c, A)'
  BY <1>1 DEF Fit, FitFind, SameMoney, Leaves
<1>7. FitNew(t, c, A)'
  BY <1>1, <1>2 DEF Fit, FitNew, Saved, Saves, SumOf
<1>8. FitSave(t, c, 2)'
  BY DEF Fit, FitSave
<1>. QED  BY <1>3, <1>4, <1>5, <1>6, <1>7, <1>8 DEF Fit

\* What saves a balance later is in order whatever is written before.
LEMMA LookupsFit ==
    ASSUME NEW t, NEW c, NEW A, c.q = "lookup", Fit(t, c, A, 2)
    PROVE  Fit(t, c, A, 2)'
BY DEF Fit, FitInsert, FitPut, FitRemove, FitFind, FitNew, FitSave

\* An account is inserted, and no other by the calls that follow.
LEMMA FitsAfterOpening ==
    ASSUME UNCHANGED <<mate, opening>>, NEW t, \A i \in Txns : RowAt(t, i)' = RowAt(t, i),
           NEW c \in InnerCalls, NEW A, c.q # "newacc", Fit(t, c, A, 2)
    PROVE  Fit(t, c, A, 2)'
<1>1. /\ c.q \in {"insert", "put", "remove"} => c.id \in Txns
      /\ c.q = "find" /\ c.how = "linkTo" => c.arg.id \in Txns
  BY StatementFields, FindFields
<1>2. mate' = mate /\ opening' = opening
  OBVIOUS
<1>3. FitInsert(t, c, A)'
  BY <1>1, <1>2 DEF Fit, FitInsert, Saved, Saves, Leaves, SameMoney
<1>4. FitPut(t, c, A, 2)'
  BY <1>1 DEF Fit, FitPut, SameMoney
<1>5. FitRemove(t, c, A)'
  BY <1>1 DEF Fit, FitRemove, Saved, Saves
<1>6. FitFind(t, c, A)'
  BY <1>1 DEF Fit, FitFind, SameMoney
<1>7. FitNew(t, c, A)'
  BY DEF Fit, FitNew
<1>8. FitSave(t, c, 2)'
  BY DEF Fit, FitSave
<1>. QED  BY <1>3, <1>4, <1>5, <1>6, <1>7, <1>8 DEF Fit

\* The call that a statement of request r replaces, and what follows it.
LEMMA AtHead ==
    ASSUME OneRequest, IInv, AInv, BInv, NEW r \in Requests, NEW q, q # "begin", Statement(r, q),
           NEW t, t = req[r].own, NEW L, L = Later(req[r].todo, 1), NEW c, c = Call(r), c.via # "-"
    PROVE  /\ IsStatement(r) /\ req[r].todo # <<>> /\ Call(r).q # "begin" /\ c \in InnerCalls /\ c.q = q
           /\ Whole(t) /\ Fit(t, c, L, 1) /\ (t = Pool => Neutral(t, c) /\ Owing(t, <<>>))
           /\ \A a \in Accounts : BalAt(t, a) # Gone
                                  => BalAt(t, a) = SumAt(t, a) \/ Saves(c, a) \/ Saved(L, a)
           /\ \A i \in Txns : RowAt(req[r].on, i) = RowAt(t, i)
           /\ \A a \in Accounts : BalAt(req[r].on, a) = BalAt(t, a)
           /\ \A a \in Accounts : SumAt(req[r].on, a) = SumAt(t, a)
           /\ \A i \in Txns : RowAt(t, i) \in Row \cup {NoRow}
<1>1. req[r].todo # <<>> /\ c.q = q /\ c \in InnerCalls
  BY AtStatement
<1>2. IsStatement(r)
  BY <1>1 DEF IsStatement
<1>3. Paying(r) /\ Fit(t, c, L, 1) /\ (t = Pool => Neutral(t, c)) /\ Later(req[r].todo, 0) = {c} \cup L
  BY <1>1, HeadIsFit
<1>4. t = Pool => Owing(t, <<>>)
  BY DEF BInv
<1>5. \A a \in Accounts : BalAt(t, a) # Gone
                          => BalAt(t, a) = SumAt(t, a) \/ Saves(c, a) \/ Saved(L, a)
  BY <1>3 DEF Paying, Owing, Saved
<1>. QED  BY <1>1, <1>2, <1>3, <1>4, <1>5, SeesItsOwn, ReadTypes, Zenon DEF Paying, IInv

LEMMA ContinueReplaces ==
    ASSUME IInv, NEW r \in Requests, req[r].todo # <<>>, Call(r).q # "begin",
           NEW more \in Seq(InnerCalls), Continue(r, more)
    PROVE  Replaces(r, more)
BY Zenon DEF Continue, GoOn, Replaces, IInv, TypeOK

-----------------------------------------------------------------------------
(* The statements that write.                                              *)

LEMMA NothingFollows ==
    /\ <<>> \in Seq(InnerCalls) /\ Len(<<>>) = 0 /\ 1..0 = {}
    /\ \A L : Later(<<>>, 0) \cup L = L
BY LaterShort, SmallSeqs

\* One row, or one balance, is written.
LEMMA OneIsWritten ==
    /\ \A i \in Txns, x \in Row \cup {NoRow} :
          /\ OneRow(i, x) \in [Txns -> Row \cup {NoRow, Same}] /\ x # Same
          /\ \A j \in Txns : OneRow(i, x)[j] = IF j = i THEN x ELSE Same
    /\ \A a \in Accounts, b \in Balance \cup {Gone} :
          /\ OneBalance(a, b) \in [Accounts -> Balance \cup {Gone, Same}] /\ b # Same
          /\ \A d \in Accounts : OneBalance(a, b)[d] = IF d = a THEN b ELSE Same
    /\ NoRows \in [Txns -> Row \cup {NoRow, Same}] /\ \A i \in Txns : NoRows[i] = Same
    /\ NoBalances \in [Accounts -> Balance \cup {Gone, Same}] /\ \A a \in Accounts : NoBalances[a] = Same
BY DeltaType, Sentinels DEF OneRow, OneBalance, NoRows, NoBalances

LEMMA RowIsSeen ==
    ASSUME OneRequest, IInv, AInv, NEW r \in Requests, NEW t, t = req[r].own, IsStatement(r),
           NEW i \in Txns, NEW x \in Row \cup {NoRow},
           Write(req[r].on, OneRow(i, x), NoBalances)
    PROVE  /\ \A j \in Txns : RowAt(t, j)' = IF j = i THEN x ELSE RowAt(t, j)
           /\ \A a \in Accounts : BalAt(t, a)' = BalAt(t, a)
<1>1. /\ \A j \in Txns : RowAt(t, j)' = IF OneRow(i, x)[j] = Same THEN RowAt(t, j) ELSE OneRow(i, x)[j]
      /\ \A a \in Accounts : BalAt(t, a)' = IF NoBalances[a] = Same THEN BalAt(t, a) ELSE NoBalances[a]
  BY OneIsWritten, WriteIsSeen
<1>. QED  BY <1>1, OneIsWritten

LEMMA BalanceIsSeen ==
    ASSUME OneRequest, IInv, AInv, NEW r \in Requests, NEW t, t = req[r].own, IsStatement(r),
           NEW a \in Accounts, NEW b \in Balance,
           Write(req[r].on, NoRows, OneBalance(a, b))
    PROVE  /\ \A i \in Txns : RowAt(t, i)' = RowAt(t, i)
           /\ \A d \in Accounts : BalAt(t, d)' = IF d = a THEN b ELSE BalAt(t, d)
           /\ \A d \in Accounts : SumAt(t, d)' = SumAt(t, d)
<1>1. /\ \A i \in Txns : RowAt(t, i)' = IF NoRows[i] = Same THEN RowAt(t, i) ELSE NoRows[i]
      /\ \A d \in Accounts : BalAt(t, d)' = IF OneBalance(a, b)[d] = Same
                                            THEN BalAt(t, d) ELSE OneBalance(a, b)[d]
  BY OneIsWritten, WriteIsSeen
<1>2. /\ \A i \in Txns : RowAt(t, i)' = RowAt(t, i)
      /\ \A d \in Accounts : BalAt(t, d)' = IF d = a THEN b ELSE BalAt(t, d)
  BY <1>1, OneIsWritten
<1>3. ASSUME NEW d \in Accounts
      PROVE  SumAt(t, d)' = SumAt(t, d)
  BY <1>2, SumIsOfRows
<1>. QED  BY <1>2, <1>3

\* A row keeps its money, is removed or inserted, or gets other money: the sums that
\* this changes are saved by the calls that follow.
LEMMA RowWritePaid ==
    ASSUME OneRequest, IInv, AInv, BInv, NEW r \in Requests, NEW q \in {"insert", "put", "remove"},
           Statement(r, q), Continue(r, <<>>), SameIds, NEW t, t = req[r].own,
           NEW c, c = Call(r), NEW x \in Row \cup {NoRow},
           Write(req[r].on, OneRow(c.id, x), NoBalances),
           NEW L, L = Later(req[r].todo, 1),
           x # NoRow => BalAt(t, x.acct) # Gone /\ mate[c.id] # Unborn,
           \A d \in L \cap InnerCalls, A \in SUBSET L : Fit(t, d, A, 2) => Fit(t, d, A, 2)',
           t = Pool => x # NoRow /\ RowAt(t, c.id) # NoRow /\ SameMoney(RowAt(t, c.id), x),
           \A a \in Accounts :
               \/ Saved(L, a)
               \/ RowAt(t, c.id) # NoRow /\ x # NoRow /\ SameMoney(RowAt(t, c.id), x)
               \/ /\ RowAt(t, c.id) = NoRow \/ RowAt(t, c.id).acct # a
                  /\ x = NoRow \/ x.acct # a
    PROVE  BInv'
<1>1. /\ c.q = q /\ c \in InnerCalls /\ c.id \in Txns /\ c.via # "-"
      /\ req[r].todo # <<>> /\ Call(r).q # "begin" /\ q # "begin"
  <2>1. c.q = q /\ c \in InnerCalls /\ req[r].todo # <<>>
    BY AtStatement
  <2>. QED  BY <2>1, StatementFields DEF InnerCalls
<1>2. /\ IsStatement(r) /\ Whole(t) /\ (t = Pool => Owing(t, <<>>))
      /\ \A a \in Accounts : BalAt(t, a) # Gone
                             => BalAt(t, a) = SumAt(t, a) \/ Saves(c, a) \/ Saved(L, a)
  BY <1>1, AtHead
<1>3. /\ \A i \in Txns : RowAt(t, i)' = IF i = c.id THEN x ELSE RowAt(t, i)
      /\ \A a \in Accounts : BalAt(t, a)' = BalAt(t, a)
  BY <1>1, <1>2, RowIsSeen
<1>4. \A a \in Accounts : Saved(L, a) \/ SumAt(t, a)' = SumAt(t, a)
  <2>1. ASSUME NEW a \in Accounts, ~Saved(L, a)
        PROVE  SumAt(t, a)' = SumAt(t, a)
    BY <1>1, <1>3, <2>1, SumIsOfRows DEF SameMoney
  <2>. QED  BY <2>1
<1>5. Whole(t)'
  <2>1. /\ \A i \in Txns : RowAt(t, i) # NoRow => BalAt(t, RowAt(t, i).acct) # Gone /\ RowAt(t, i).acct \in Accounts
        /\ x # NoRow => x.acct \in Accounts
    BY <1>2, ReadTypes DEF Whole, IInv, Row
  <2>2. mate' = mate /\ opening' = opening
    BY DEF SameIds
  <2>3. \A i \in Txns : RowAt(t, i)' # NoRow => BalAt(t, RowAt(t, i).acct)' # Gone /\ mate'[i] # Unborn
    <3>1. ASSUME NEW i \in Txns, NEW y, y = RowAt(t, i)', y # NoRow
          PROVE  BalAt(t, y.acct)' # Gone /\ mate'[i] # Unborn
      <4>1. y = IF i = c.id THEN x ELSE RowAt(t, i)
        BY <1>3, <3>1
      <4>2. /\ y.acct \in Accounts /\ BalAt(t, y.acct) # Gone /\ mate[i] # Unborn
        BY <1>2, <2>1, <3>1, <4>1 DEF Whole
      <4>. QED  BY <1>3, <2>2, <4>2
    <3>. QED  BY <3>1
  <2>. QED  BY <1>2, <1>3, <2>2, <2>3 DEF Whole
<1>6. \A a \in Accounts : BalAt(t, a)' # Gone => BalAt(t, a)' = SumAt(t, a)' \/ Saved(L, a)
  BY <1>1, <1>2, <1>3, <1>4 DEF Saves
<1>7. ASSUME t = Pool
      PROVE  /\ Owing(t, <<>>)'
             /\ \A d \in L \cap InnerCalls : Neutral(t, d) => Neutral(t, d)'
  <2>1. \A a \in Accounts : SumAt(t, a)' = SumAt(t, a)
    <3>1. ASSUME NEW a \in Accounts
          PROVE  SumAt(t, a)' = SumAt(t, a)
      BY <1>1, <1>3, <1>7, SumIsOfRows DEF SameMoney
    <3>. QED  BY <3>1
  <2>2. Owing(t, <<>>)'
    BY <1>2, <1>3, <1>7, <2>1 DEF Owing, Saved, Later
  <2>3. \A i \in Txns : \/ RowAt(t, i)' = NoRow
                        \/ RowAt(t, i) # NoRow /\ SameMoney(RowAt(t, i), RowAt(t, i)')
    BY <1>3, <1>7 DEF SameMoney
  <2>4. UNCHANGED <<mate, opening>> /\ \A a \in Accounts : BalAt(t, a) = Gone => BalAt(t, a)' = Gone
    BY <1>3 DEF SameIds
  <2>5. \A d \in InnerCalls : Neutral(t, d) => Neutral(t, d)'
    BY <2>3, <2>4, FitsStill
  <2>. QED  BY <2>2, <2>5
<1>8. Replaces(r, <<>>)
  BY <1>1, NothingFollows, ContinueReplaces, Zenon
<1>9. /\ OneRow(c.id, x) \in [Txns -> Row \cup {NoRow, Same}]
      /\ NoBalances \in [Accounts -> Balance \cup {Gone, Same}]
  BY <1>1, OneIsWritten
<1>. QED  BY <1>2, <1>5, <1>6, <1>7, <1>8, <1>9, WritePaid, Zenon

LEMMA InsertPaid ==
    ASSUME OneRequest, IInv, AInv, BInv, NEW r \in Requests, Statement(r, "insert"),
           NEW c, c = Call(r), BalAt(req[r].on, c.row.acct) # Gone,
           Write(req[r].on, OneRow(c.id, c.row), NoBalances), Continue(r, <<>>), SameIds
    PROVE  BInv'
<1>. SUFFICES ASSUME NEW t, t = req[r].own, NEW L, L = Later(req[r].todo, 1)
              PROVE  BInv'
  OBVIOUS
<1>1. /\ c.q = "insert" /\ c \in InnerCalls /\ c.id \in Txns /\ c.row \in Row /\ c.via # "-"
      /\ c.row.acct \in Accounts /\ c.row # NoRow
  <2>1. c.q = "insert" /\ c \in InnerCalls
    BY AtStatement
  <2>. QED  BY <2>1, StatementFields, Sentinels DEF InnerCalls, Row
<1>2. IsStatement(r) /\ Fit(t, c, L, 1) /\ (t = Pool => Neutral(t, c)) /\ BalAt(t, c.row.acct) # Gone
  BY <1>1, AtHead
<1>3. /\ RowAt(t, c.id) = NoRow /\ mate[c.id] # Unborn /\ Saved(L, c.row.acct)
      /\ \A d \in L : Leaves(d, c.id, c.row)
  BY <1>1, <1>2 DEF Fit, FitInsert
<1>4. t # Pool
  BY <1>1, <1>2 DEF Neutral
<1>5. /\ \A j \in Txns : RowAt(t, j)' = IF j = c.id THEN c.row ELSE RowAt(t, j)
      /\ \A a \in Accounts : BalAt(t, a)' = BalAt(t, a)
  BY <1>1, <1>2, RowIsSeen
<1>6. \A d \in L \cap InnerCalls, A \in SUBSET L : Fit(t, d, A, 2) => Fit(t, d, A, 2)'
  <2>1. UNCHANGED <<mate, opening>>
    BY DEF SameIds
  <2>. QED  BY <1>1, <1>3, <1>5, <2>1, FitsAfterInsert
<1>7. \A a \in Accounts : Saved(L, a) \/ c.row.acct # a
  BY <1>3
<1>. QED  BY <1>1, <1>2, <1>3, <1>4, <1>6, <1>7, RowWritePaid

LEMMA PutPaid ==
    ASSUME OneRequest, IInv, AInv, BInv, NEW r \in Requests, Statement(r, "put"),
           NEW c, c = Call(r), BalAt(req[r].on, c.row.acct) # Gone, RowAt(req[r].on, c.id) # NoRow,
           Write(req[r].on, OneRow(c.id, c.row), NoBalances), Continue(r, <<>>), SameIds
    PROVE  BInv'
<1>. SUFFICES ASSUME NEW t, t = req[r].own, NEW L, L = Later(req[r].todo, 1)
              PROVE  BInv'
  OBVIOUS
<1>1. /\ c.q = "put" /\ c \in InnerCalls /\ c.id \in Txns /\ c.row \in Row /\ c.via # "-"
      /\ c.row.acct \in Accounts /\ c.row # NoRow
  <2>1. c.q = "put" /\ c \in InnerCalls
    BY AtStatement
  <2>. QED  BY <2>1, StatementFields, Sentinels DEF InnerCalls, Row
<1>2. /\ IsStatement(r) /\ Whole(t) /\ Fit(t, c, L, 1) /\ (t = Pool => Neutral(t, c))
      /\ BalAt(t, c.row.acct) # Gone /\ RowAt(t, c.id) # NoRow
  BY <1>1, AtHead
<1>3. mate[c.id] # Unborn
  BY <1>1, <1>2 DEF Whole
<1>4. \/ SameMoney(RowAt(t, c.id), c.row)
      \/ /\ \A d \in L : d.q = "lookup"
         /\ Saved(L, RowAt(t, c.id).acct) /\ Saved(L, c.row.acct)
  BY <1>1, <1>2 DEF Fit, FitPut
<1>5. t = Pool => SameMoney(RowAt(t, c.id), c.row)
  BY <1>1, <1>2 DEF Neutral
<1>6. /\ \A j \in Txns : RowAt(t, j)' = IF j = c.id THEN c.row ELSE RowAt(t, j)
      /\ \A a \in Accounts : BalAt(t, a)' = BalAt(t, a)
  BY <1>1, <1>2, RowIsSeen
<1>7. \A d \in L \cap InnerCalls, A \in SUBSET L : Fit(t, d, A, 2) => Fit(t, d, A, 2)'
  <2>1. CASE SameMoney(RowAt(t, c.id), c.row)
    <3>1. \A j \in Txns : \/ RowAt(t, j)' = NoRow
                          \/ RowAt(t, j) # NoRow /\ SameMoney(RowAt(t, j), RowAt(t, j)')
      BY <1>2, <1>6, <2>1 DEF SameMoney
    <3>2. UNCHANGED <<mate, opening>> /\ \A a \in Accounts : BalAt(t, a) = Gone => BalAt(t, a)' = Gone
      BY <1>6 DEF SameIds
    <3>. QED  BY <3>1, <3>2, FitsStill
  <2>2. CASE \A d \in L : d.q = "lookup"
    BY <2>2, LookupsFit
  <2>. QED  BY <1>4, <2>1, <2>2
<1>8. \A a \in Accounts :
          \/ Saved(L, a)
          \/ SameMoney(RowAt(t, c.id), c.row)
          \/ RowAt(t, c.id).acct # a /\ c.row.acct # a
  BY <1>4
<1>. QED  BY <1>1, <1>2, <1>3, <1>5, <1>7, <1>8, RowWritePaid

LEMMA WriteRowPaid ==
    ASSUME OneRequest, IInv, AInv, BInv, NEW r \in Requests, WriteRow(r)
    PROVE  BInv'
<1>. SUFFICES ASSUME NEW c, c = Call(r)
              PROVE  BInv'
  OBVIOUS
<1>1. /\ BalAt(req[r].on, c.row.acct) # Gone
      /\ c.q = "put" => RowAt(req[r].on, c.id) # NoRow
      /\ Write(req[r].on, OneRow(c.id, c.row), NoBalances)
      /\ Continue(r, <<>>) /\ SameIds
  BY DEF WriteRow, OneRow, Otherwise
<1>2. CASE Statement(r, "insert")
  BY <1>1, <1>2, InsertPaid
<1>3. CASE Statement(r, "put")
  BY <1>1, <1>3, PutPaid DEF Statement, At
<1>. QED  BY <1>2, <1>3 DEF WriteRow

LEMMA RemoveRowPaid ==
    ASSUME OneRequest, IInv, AInv, BInv, NEW r \in Requests, RemoveRow(r)
    PROVE  BInv'
<1>. SUFFICES ASSUME NEW c, c = Call(r), NEW t, t = req[r].own, NEW L, L = Later(req[r].todo, 1),
                     NEW x, x = NoRow
              PROVE  BInv'
  OBVIOUS
<1>1. /\ Statement(r, "remove") /\ Write(req[r].on, OneRow(c.id, x), NoBalances)
      /\ Continue(r, <<>>) /\ SameIds
  BY DEF RemoveRow, OneRow, Otherwise
<1>2. c.q = "remove" /\ c \in InnerCalls /\ c.id \in Txns /\ c.via # "-"
  <2>1. c.q = "remove" /\ c \in InnerCalls
    BY <1>1, AtStatement
  <2>. QED  BY <2>1, StatementFields DEF InnerCalls
<1>3. /\ IsStatement(r) /\ Fit(t, c, L, 1) /\ (t = Pool => Neutral(t, c))
  BY <1>1, <1>2, AtHead
<1>4. t # Pool /\ (RowAt(t, c.id) # NoRow => Saved(L, RowAt(t, c.id).acct))
  BY <1>2, <1>3 DEF Neutral, Fit, FitRemove
<1>5. /\ \A j \in Txns : RowAt(t, j)' = IF j = c.id THEN x ELSE RowAt(t, j)
      /\ \A a \in Accounts : BalAt(t, a)' = BalAt(t, a)
  BY <1>1, <1>2, <1>3, RowIsSeen
<1>6. \A d \in L \cap InnerCalls, A \in SUBSET L : Fit(t, d, A, 2) => Fit(t, d, A, 2)'
  <2>1. \A j \in Txns : \/ RowAt(t, j)' = NoRow
                        \/ RowAt(t, j) # NoRow /\ SameMoney(RowAt(t, j), RowAt(t, j)')
    BY <1>5 DEF SameMoney
  <2>2. UNCHANGED <<mate, opening>> /\ \A a \in Accounts : BalAt(t, a) = Gone => BalAt(t, a)' = Gone
    BY <1>1, <1>5 DEF SameIds
  <2>. QED  BY <2>1, <2>2, FitsStill
<1>7. \A a \in Accounts :
          \/ Saved(L, a)
          \/ /\ RowAt(t, c.id) = NoRow \/ RowAt(t, c.id).acct # a
             /\ x = NoRow \/ x.acct # a
  BY <1>4
<1>8. x \in Row \cup {NoRow} /\ "remove" \in {"insert", "put", "remove"}
  OBVIOUS
<1>. QED  BY <1>1, <1>2, <1>4, <1>6, <1>7, <1>8, RowWritePaid

\* Nothing that is seen becomes nothing: what is seen stays whole.
LEMMA WholeStill ==
    ASSUME TypeOK, UNCHANGED <<mate, opening>>, NEW t, Whole(t),
           \A i \in Txns : RowAt(t, i)' # NoRow => RowAt(t, i)' = RowAt(t, i),
           \A i \in Txns : RowAt(t, i)' # NoRow => BalAt(t, RowAt(t, i).acct)' # Gone,
           \A a \in Accounts : BalAt(t, a)' # Gone => BalAt(t, a) # Gone \/ opening[a] # Unborn
    PROVE  Whole(t)'
<1>1. mate' = mate /\ opening' = opening
  OBVIOUS
<1>2. ASSUME NEW i \in Txns, NEW y, y = RowAt(t, i)', y # NoRow
      PROVE  BalAt(t, y.acct)' # Gone /\ mate'[i] # Unborn
  <2>1. y = RowAt(t, i)
    BY <1>2
  <2>. QED  BY <1>1, <1>2, <2>1, Zenon DEF Whole
<1>3. ASSUME NEW a \in Accounts, BalAt(t, a)' # Gone
      PROVE  opening'[a] # Unborn
  BY <1>1, <1>3 DEF Whole
<1>. QED  BY <1>2, <1>3 DEF Whole

LEMMA RowsAreOfAccounts ==
    ASSUME TypeOK, NEW t
    PROVE  \A i \in Txns : RowAt(t, i) # NoRow => RowAt(t, i).acct \in Accounts
BY ReadTypes DEF Row

LEMMA UpdateBalancePaid ==
    ASSUME OneRequest, IInv, AInv, BInv, NEW r \in Requests, UpdateBalance(r)
    PROVE  BInv'
<1>. SUFFICES ASSUME NEW c, c = Call(r), NEW t, t = req[r].own, NEW L, L = Later(req[r].todo, 1)
              PROVE  BInv'
  OBVIOUS
<1>1. /\ Statement(r, "setbal") /\ Continue(r, <<>>) /\ SameIds
      /\ BalAt(req[r].on, c.acct) = Gone => UNCHANGED dbVars
      /\ BalAt(req[r].on, c.acct) # Gone => Write(req[r].on, NoRows, OneBalance(c.acct, c.bal))
  BY DEF UpdateBalance, OneBalance, Otherwise
<1>2. /\ c.q = "setbal" /\ c \in InnerCalls /\ c.acct \in Accounts /\ c.bal \in Balance /\ c.via # "-"
  <2>1. c.q = "setbal" /\ c \in InnerCalls
    BY <1>1, AtStatement
  <2>. QED  BY <2>1, StatementFields DEF InnerCalls, Repos
<1>3. /\ IsStatement(r) /\ req[r].todo # <<>> /\ Call(r).q # "begin"
      /\ Whole(t) /\ Fit(t, c, L, 1) /\ (t = Pool => Neutral(t, c))
      /\ BalAt(req[r].on, c.acct) = BalAt(t, c.acct)
      /\ \A a \in Accounts : BalAt(t, a) # Gone
                             => BalAt(t, a) = SumAt(t, a) \/ Saves(c, a) \/ Saved(L, a)
  BY <1>1, <1>2, AtHead
<1>4. t # Pool /\ c.bal = SumAt(t, c.acct) /\ (\A a : Saves(c, a) => c.acct = a)
  BY <1>2, <1>3 DEF Neutral, Fit, FitSave, Saves
<1>5. Replaces(r, <<>>)
  BY <1>1, <1>3, NothingFollows, ContinueReplaces, Zenon
<1>6. CASE BalAt(t, c.acct) = Gone
  <2>1. UNCHANGED <<row, bal, tx, mate, opening>>
    BY <1>1, <1>3, <1>6 DEF SameIds, dbVars
  <2>2. \A a \in Accounts : BalAt(t, a) # Gone /\ Saves(c, a) => Saved(Later(<<>>, 0) \cup L, a)
    BY <1>4, <1>6
  <2>3. \A k \in 1..Len(<<>>) : Fit(t, <<>>[k], Later(<<>>, k) \cup L, k)
    BY NothingFollows
  <2>. QED  BY <1>3, <1>4, <1>5, <2>1, <2>2, <2>3, NothingFollows, QuietlyPaid, Zenon
<1>7. CASE BalAt(t, c.acct) # Gone
  <2>1. /\ \A i \in Txns : RowAt(t, i)' = RowAt(t, i)
        /\ \A d \in Accounts : BalAt(t, d)' = IF d = c.acct THEN c.bal ELSE BalAt(t, d)
        /\ \A d \in Accounts : SumAt(t, d)' = SumAt(t, d)
    BY <1>1, <1>2, <1>3, <1>7, BalanceIsSeen
  <2>2. \A d \in L \cap InnerCalls, A \in SUBSET L : Fit(t, d, A, 2) => Fit(t, d, A, 2)'
    <3>1. \A j \in Txns : \/ RowAt(t, j)' = NoRow
                          \/ RowAt(t, j) # NoRow /\ SameMoney(RowAt(t, j), RowAt(t, j)')
      BY <2>1 DEF SameMoney
    <3>2. UNCHANGED <<mate, opening>> /\ \A a \in Accounts : BalAt(t, a) = Gone => BalAt(t, a)' = Gone
      BY <1>1, <1>7, <2>1 DEF SameIds
    <3>. QED  BY <3>1, <3>2, FitsStill
  <2>3. Whole(t)'
    <3>1. \A i \in Txns : RowAt(t, i) # NoRow => RowAt(t, i).acct \in Accounts
      BY RowsAreOfAccounts DEF IInv
    <3>2. \A i \in Txns : RowAt(t, i) # NoRow => BalAt(t, RowAt(t, i).acct)' # Gone
      BY <1>2, <1>3, <2>1, <3>1, Sentinels DEF Whole
    <3>3. UNCHANGED <<mate, opening>> /\ \A a \in Accounts : BalAt(t, a)' # Gone => BalAt(t, a) # Gone
      BY <1>1, <1>7, <2>1 DEF SameIds
    <3>. QED  BY <1>3, <2>1, <3>2, <3>3, WholeStill DEF IInv
  <2>4. \A a \in Accounts : BalAt(t, a)' # Gone => BalAt(t, a)' = SumAt(t, a)' \/ Saved(L, a)
    BY <1>3, <1>4, <2>1
  <2>5. /\ NoRows \in [Txns -> Row \cup {NoRow, Same}]
        /\ OneBalance(c.acct, c.bal) \in [Accounts -> Balance \cup {Gone, Same}]
    BY <1>2, OneIsWritten
  <2>. QED  BY <1>1, <1>3, <1>4, <1>5, <1>7, <2>2, <2>3, <2>4, <2>5, WritePaid, Zenon
<1>. QED  BY <1>6, <1>7

LEMMA InsertAccountPaid ==
    ASSUME OneRequest, IInv, AInv, BInv, NEW r \in Requests, InsertAccount(r)
    PROVE  BInv'
<1>. SUFFICES ASSUME NEW c, c = Call(r), NEW t, t = req[r].own, NEW L, L = Later(req[r].todo, 1)
              PROVE  BInv'
  OBVIOUS
<1>1. /\ Statement(r, "newacc") /\ Continue(r, <<>>) /\ SameIds
      /\ Write(req[r].on, NoRows, OneBalance(c.acct, c.bal))
  BY DEF InsertAccount, OneBalance, Otherwise
<1>2. /\ c.q = "newacc" /\ c \in InnerCalls /\ c.acct \in Accounts /\ c.bal \in Balance /\ c.via # "-"
  <2>1. c.q = "newacc" /\ c \in InnerCalls
    BY <1>1, AtStatement
  <2>. QED  BY <2>1, StatementFields DEF InnerCalls
<1>3. /\ IsStatement(r) /\ req[r].todo # <<>> /\ Call(r).q # "begin"
      /\ Whole(t) /\ Fit(t, c, L, 1) /\ (t = Pool => Neutral(t, c))
      /\ \A a \in Accounts : BalAt(t, a) # Gone
                             => BalAt(t, a) = SumAt(t, a) \/ Saves(c, a) \/ Saved(L, a)
  BY <1>1, <1>2, AtHead
<1>4. /\ t # Pool /\ BalAt(t, c.acct) = Gone /\ opening[c.acct] # Unborn
      /\ c.bal = SumOf({}) \/ Saved(L, c.acct)
      /\ \A d \in L : d.q # "newacc"
      /\ \A a : ~Saves(c, a)
  BY <1>2, <1>3 DEF Neutral, Fit, FitNew, Saves
<1>5. Replaces(r, <<>>)
  BY <1>1, <1>3, NothingFollows, ContinueReplaces, Zenon
<1>6. /\ \A i \in Txns : RowAt(t, i)' = RowAt(t, i)
      /\ \A d \in Accounts : BalAt(t, d)' = IF d = c.acct THEN c.bal ELSE BalAt(t, d)
      /\ \A d \in Accounts : SumAt(t, d)' = SumAt(t, d)
  BY <1>1, <1>2, <1>3, BalanceIsSeen
<1>7. SumAt(t, c.acct) = SumOf({})
  <2>1. RowsOf(t, c.acct) = {}
    BY <1>3, <1>4 DEF RowsOf, Whole
  <2>. QED  BY <2>1 DEF SumAt
<1>8. \A d \in L \cap InnerCalls, A \in SUBSET L : Fit(t, d, A, 2) => Fit(t, d, A, 2)'
  BY <1>1, <1>4, <1>6, FitsAfterOpening DEF SameIds
<1>9. Whole(t)'
  <2>1. \A i \in Txns : RowAt(t, i) # NoRow => RowAt(t, i).acct \in Accounts
    BY RowsAreOfAccounts DEF IInv
  <2>2. \A i \in Txns : RowAt(t, i) # NoRow => BalAt(t, RowAt(t, i).acct)' # Gone
    BY <1>2, <1>3, <1>6, <2>1, Sentinels DEF Whole
  <2>3. UNCHANGED <<mate, opening>> /\ \A a \in Accounts : BalAt(t, a)' # Gone => BalAt(t, a) # Gone \/ opening[a] # Unborn
    BY <1>1, <1>4, <1>6 DEF SameIds
  <2>. QED  BY <1>3, <1>6, <2>2, <2>3, WholeStill DEF IInv
<1>10. \A a \in Accounts : BalAt(t, a)' # Gone => BalAt(t, a)' = SumAt(t, a)' \/ Saved(L, a)
  BY <1>3, <1>4, <1>6, <1>7
<1>11. /\ NoRows \in [Txns -> Row \cup {NoRow, Same}]
       /\ OneBalance(c.acct, c.bal) \in [Accounts -> Balance \cup {Gone, Same}]
  BY <1>2, OneIsWritten
<1>. QED  BY <1>1, <1>3, <1>4, <1>5, <1>8, <1>9, <1>10, <1>11, WritePaid, Zenon

LEMMA WriteAccountPaid ==
    ASSUME OneRequest, IInv, AInv, BInv, NEW r \in Requests, WriteAccount(r)
    PROVE  BInv'
<1>. SUFFICES ASSUME NEW c, c = Call(r), NEW t, t = req[r].own, NEW L, L = Later(req[r].todo, 1)
              PROVE  BInv'
  OBVIOUS
<1>1. /\ Statement(r, "putacc") /\ SameIds
      /\ BalAt(req[r].on, c.acct) = Gone => UNCHANGED dbVars /\ Throw(r)
      /\ BalAt(req[r].on, c.acct) # Gone
         => Write(req[r].on, NoRows, OneBalance(c.acct, c.bal)) /\ Continue(r, <<>>)
  BY DEF WriteAccount, OneBalance, Otherwise
<1>2. /\ c.q = "putacc" /\ c \in InnerCalls /\ c.acct \in Accounts /\ c.bal \in Balance /\ c.via # "-"
  <2>1. c.q = "putacc" /\ c \in InnerCalls
    BY <1>1, AtStatement
  <2>. QED  BY <2>1, StatementFields DEF InnerCalls
<1>3. /\ IsStatement(r) /\ req[r].todo # <<>> /\ Call(r).q # "begin"
      /\ Whole(t) /\ Fit(t, c, L, 1) /\ (t = Pool => Owing(t, <<>>))
      /\ BalAt(req[r].on, c.acct) = BalAt(t, c.acct)
      /\ \A a \in Accounts : BalAt(t, a) # Gone
                             => BalAt(t, a) = SumAt(t, a) \/ Saves(c, a) \/ Saved(L, a)
  BY <1>1, <1>2, AtHead
<1>4. c.bal = BalAt(t, c.acct) /\ (\A a : ~Saves(c, a))
  BY <1>2, <1>3 DEF Fit, FitSave, Saves
<1>5. CASE BalAt(t, c.acct) = Gone
  BY <1>1, <1>3, <1>5, ThrowsPaid DEF dbVars, SameIds
<1>6. CASE BalAt(t, c.acct) # Gone
  <2>1. /\ \A i \in Txns : RowAt(t, i)' = RowAt(t, i)
        /\ \A d \in Accounts : BalAt(t, d)' = BalAt(t, d)
        /\ \A d \in Accounts : SumAt(t, d)' = SumAt(t, d)
    BY <1>1, <1>2, <1>3, <1>4, <1>6, BalanceIsSeen
  <2>2. /\ UNCHANGED <<mate, opening>> /\ \A a \in Accounts : BalAt(t, a) = Gone => BalAt(t, a)' = Gone
        /\ \A j \in Txns : \/ RowAt(t, j)' = NoRow
                           \/ RowAt(t, j) # NoRow /\ SameMoney(RowAt(t, j), RowAt(t, j)')
    BY <1>1, <2>1 DEF SameIds, SameMoney
  <2>3. \A d \in InnerCalls, A \in SUBSET L : /\ Fit(t, d, A, 2) => Fit(t, d, A, 2)'
                                              /\ Neutral(t, d) => Neutral(t, d)'
    BY <2>2, FitsStill
  <2>4. Whole(t)'
    <3>1. \A i \in Txns : RowAt(t, i) # NoRow => RowAt(t, i).acct \in Accounts
      BY RowsAreOfAccounts DEF IInv
    <3>2. \A i \in Txns : RowAt(t, i) # NoRow => BalAt(t, RowAt(t, i).acct)' # Gone
      BY <1>3, <2>1, <3>1 DEF Whole
    <3>. QED  BY <1>3, <2>1, <2>2, <3>2, WholeStill DEF IInv
  <2>5. \A a \in Accounts : BalAt(t, a)' # Gone => BalAt(t, a)' = SumAt(t, a)' \/ Saved(L, a)
    BY <1>3, <1>4, <2>1
  <2>6. t = Pool => Owing(t, <<>>)'
    BY <1>3, <2>1 DEF Owing, Saved, Later
  <2>7. /\ NoRows \in [Txns -> Row \cup {NoRow, Same}]
        /\ OneBalance(c.acct, c.bal) \in [Accounts -> Balance \cup {Gone, Same}]
    BY <1>2, OneIsWritten
  <2>8. Replaces(r, <<>>)
    BY <1>1, <1>3, <1>6, NothingFollows, ContinueReplaces, Zenon
  <2>9. /\ \A d \in L \cap InnerCalls, A \in SUBSET L : Fit(t, d, A, 2) => Fit(t, d, A, 2)'
        /\ t = Pool => \A d \in L \cap InnerCalls : Neutral(t, d) => Neutral(t, d)'
    BY <2>3
  <2>. QED  BY <1>1, <1>3, <1>6, <2>4, <2>5, <2>6, <2>7, <2>8, <2>9, WritePaid
<1>. QED  BY <1>5, <1>6

\* The rows of an account go with it.
OnlyRows(S) == [i \in Txns |-> IF i \in S THEN NoRow ELSE Same]

LEMMA DeleteAccountRowPaid ==
    ASSUME OneRequest, IInv, AInv, BInv, NEW r \in Requests, DeleteAccountRow(r)
    PROVE  BInv'
<1>. SUFFICES ASSUME NEW c, c = Call(r), NEW t, t = req[r].own, NEW L, L = Later(req[r].todo, 1),
                     NEW S, S = RowsOf(req[r].on, c.acct)
              PROVE  BInv'
  OBVIOUS
<1>1. /\ Statement(r, "delacc") /\ Continue(r, <<>>) /\ SameIds
      /\ Write(req[r].on, OnlyRows(S), OneBalance(c.acct, Gone))
  BY DEF DeleteAccountRow, OnlyRows, OneBalance, Otherwise
<1>2. /\ c.q = "delacc" /\ c \in InnerCalls /\ c.acct \in Accounts /\ c.via # "-"
  <2>1. c.q = "delacc" /\ c \in InnerCalls
    BY <1>1, AtStatement
  <2>. QED  BY <2>1, StatementFields DEF InnerCalls
<1>3. /\ IsStatement(r) /\ req[r].todo # <<>> /\ Call(r).q # "begin"
      /\ Whole(t) /\ (t = Pool => Owing(t, <<>>))
      /\ \A i \in Txns : RowAt(req[r].on, i) = RowAt(t, i)
      /\ \A a \in Accounts : BalAt(t, a) # Gone
                             => BalAt(t, a) = SumAt(t, a) \/ Saves(c, a) \/ Saved(L, a)
  BY <1>1, <1>2, AtHead
<1>4. /\ S \subseteq Txns
      /\ \A i \in Txns : i \in S <=> RowAt(t, i) # NoRow /\ RowAt(t, i).acct = c.acct
      /\ \A a : ~Saves(c, a)
  BY <1>2, <1>3 DEF RowsOf, Saves
<1>5. /\ OnlyRows(S) \in [Txns -> Row \cup {NoRow, Same}] /\ NoRow # Same
      /\ \A i \in Txns : OnlyRows(S)[i] = IF i \in S THEN NoRow ELSE Same
      /\ OneBalance(c.acct, Gone) \in [Accounts -> Balance \cup {Gone, Same}] /\ Gone # Same
      /\ \A a \in Accounts : OneBalance(c.acct, Gone)[a] = IF a = c.acct THEN Gone ELSE Same
  BY <1>2, OneIsWritten, Sentinels DEF OnlyRows
<1>6. /\ \A i \in Txns : RowAt(t, i)' = IF i \in S THEN NoRow ELSE RowAt(t, i)
      /\ \A a \in Accounts : BalAt(t, a)' = IF a = c.acct THEN Gone ELSE BalAt(t, a)
  <2>1. /\ \A i \in Txns : RowAt(t, i)' = IF OnlyRows(S)[i] = Same THEN RowAt(t, i) ELSE OnlyRows(S)[i]
        /\ \A a \in Accounts : BalAt(t, a)' = IF OneBalance(c.acct, Gone)[a] = Same
                                              THEN BalAt(t, a) ELSE OneBalance(c.acct, Gone)[a]
    BY <1>1, <1>3, <1>5, WriteIsSeen
  <2>. QED  BY <1>5, <2>1
<1>7. \A a \in Accounts : a # c.acct => SumAt(t, a)' = SumAt(t, a)
  <2>1. ASSUME NEW a \in Accounts, a # c.acct
        PROVE  SumAt(t, a)' = SumAt(t, a)
    BY <1>4, <1>6, <2>1, SumIsOfRows
  <2>. QED  BY <2>1
<1>8. \A d \in InnerCalls, A \in SUBSET L : /\ Fit(t, d, A, 2) => Fit(t, d, A, 2)'
                                            /\ Neutral(t, d) => Neutral(t, d)'
  <2>1. /\ UNCHANGED <<mate, opening>> /\ \A a \in Accounts : BalAt(t, a) = Gone => BalAt(t, a)' = Gone
        /\ \A j \in Txns : \/ RowAt(t, j)' = NoRow
                           \/ RowAt(t, j) # NoRow /\ SameMoney(RowAt(t, j), RowAt(t, j)')
    BY <1>1, <1>6 DEF SameIds, SameMoney
  <2>. QED  BY <2>1, FitsStill
<1>9. Whole(t)'
  <2>1. \A i \in Txns : RowAt(t, i) # NoRow => RowAt(t, i).acct \in Accounts
    BY RowsAreOfAccounts DEF IInv
  <2>2. \A i \in Txns : RowAt(t, i)' # NoRow => BalAt(t, RowAt(t, i).acct)' # Gone
    BY <1>3, <1>4, <1>6, <2>1 DEF Whole
  <2>3. UNCHANGED <<mate, opening>> /\ \A a \in Accounts : BalAt(t, a)' # Gone => BalAt(t, a) # Gone
    BY <1>1, <1>6 DEF SameIds
  <2>. QED  BY <1>3, <1>6, <2>2, <2>3, WholeStill DEF IInv
<1>10. \A a \in Accounts : BalAt(t, a)' # Gone => BalAt(t, a)' = SumAt(t, a)' \/ Saved(L, a)
  BY <1>3, <1>4, <1>6, <1>7
<1>11. t = Pool => Owing(t, <<>>)'
  BY <1>3, <1>6, <1>7 DEF Owing, Saved, Later
<1>12. Replaces(r, <<>>)
  BY <1>1, <1>3, NothingFollows, ContinueReplaces, Zenon
<1>13. /\ \A d \in L \cap InnerCalls, A \in SUBSET L : Fit(t, d, A, 2) => Fit(t, d, A, 2)'
       /\ t = Pool => \A d \in L \cap InnerCalls : Neutral(t, d) => Neutral(t, d)'
  BY <1>8
<1>. QED  BY <1>1, <1>3, <1>5, <1>9, <1>10, <1>11, <1>12, <1>13, WritePaid

-----------------------------------------------------------------------------
(* The steps that write nothing.                                           *)

LEMMA LaterThreeFour ==
    /\ \A c, d, e : /\ Len(<<c, d, e>>) = 3
                    /\ Later(<<c, d, e>>, 0) = {c, d, e} /\ Later(<<c, d, e>>, 1) = {d, e}
                    /\ Later(<<c, d, e>>, 2) = {e} /\ Later(<<c, d, e>>, 3) = {}
    /\ \A c, d, e, f : /\ Len(<<c, d, e, f>>) = 4
                       /\ Later(<<c, d, e, f>>, 0) = {c, d, e, f} /\ Later(<<c, d, e, f>>, 1) = {d, e, f}
                       /\ Later(<<c, d, e, f>>, 2) = {e, f} /\ Later(<<c, d, e, f>>, 3) = {f}
                       /\ Later(<<c, d, e, f>>, 4) = {}
<1>1. ASSUME NEW c, NEW d, NEW e
      PROVE  /\ Len(<<c, d, e>>) = 3
             /\ Later(<<c, d, e>>, 0) = {c, d, e} /\ Later(<<c, d, e>>, 1) = {d, e}
             /\ Later(<<c, d, e>>, 2) = {e} /\ Later(<<c, d, e>>, 3) = {}
  <2>. DEFINE s == <<c, d, e>>
  <2>1. Len(s) = 3 /\ s[1] = c /\ s[2] = d /\ s[3] = e
    OBVIOUS
  <2>2. 1..3 = {1, 2, 3} /\ 2..3 = {2, 3} /\ 3..3 = {3} /\ 4..3 = {}
    OBVIOUS
  <2>. HIDE DEF s
  <2>3. Later(s, 0) = {c, d, e} /\ Later(s, 1) = {d, e} /\ Later(s, 2) = {e} /\ Later(s, 3) = {}
    BY <2>1, <2>2 DEF Later
  <2>. QED  BY <2>1, <2>3 DEF s
<1>2. ASSUME NEW c, NEW d, NEW e, NEW f
      PROVE  /\ Len(<<c, d, e, f>>) = 4
             /\ Later(<<c, d, e, f>>, 0) = {c, d, e, f} /\ Later(<<c, d, e, f>>, 1) = {d, e, f}
             /\ Later(<<c, d, e, f>>, 2) = {e, f} /\ Later(<<c, d, e, f>>, 3) = {f}
             /\ Later(<<c, d, e, f>>, 4) = {}
  <2>. DEFINE s == <<c, d, e, f>>
  <2>1. Len(s) = 4 /\ s[1] = c /\ s[2] = d /\ s[3] = e /\ s[4] = f
    OBVIOUS
  <2>2. 1..4 = {1, 2, 3, 4} /\ 2..4 = {2, 3, 4} /\ 3..4 = {3, 4} /\ 4..4 = {4} /\ 5..4 = {}
    OBVIOUS
  <2>. HIDE DEF s
  <2>3. /\ Later(s, 0) = {c, d, e, f} /\ Later(s, 1) = {d, e, f} /\ Later(s, 2) = {e, f}
        /\ Later(s, 3) = {f} /\ Later(s, 4) = {}
    BY <2>1, <2>2 DEF Later
  <2>. QED  BY <2>1, <2>3 DEF s
<1>. QED  BY <1>1, <1>2, Zenon

\* The calls are in order before those of L, and outside a transaction change nothing.
Ready(t, more, L) ==
    /\ \A k \in 1..Len(more) : Fit(t, more[k], Later(more, k) \cup L, k)
    /\ t = Pool => \A k \in 1..Len(more) : Neutral(t, more[k])

LEMMA ReadyShort ==
    ASSUME NEW t, NEW L
    PROVE  /\ Ready(t, <<>>, L)
           /\ \A c : Fit(t, c, L, 1) /\ (t = Pool => Neutral(t, c)) => Ready(t, <<c>>, L)
           /\ \A c, d : /\ Fit(t, c, {d} \cup L, 1) /\ Fit(t, d, L, 2)
                        /\ t = Pool => Neutral(t, c) /\ Neutral(t, d)
                        => Ready(t, <<c, d>>, L)
           /\ \A c, d, e : /\ Fit(t, c, {d, e} \cup L, 1) /\ Fit(t, d, {e} \cup L, 2) /\ Fit(t, e, L, 2)
                           /\ t # Pool
                           => Ready(t, <<c, d, e>>, L)
           /\ \A c, d, e, f : /\ Fit(t, c, {d, e, f} \cup L, 2) /\ Fit(t, d, {e, f} \cup L, 2)
                              /\ Fit(t, e, {f} \cup L, 2) /\ Fit(t, f, L, 2)
                              /\ t # Pool
                              => Ready(t, <<c, d, e, f>>, L)
<1>1. Ready(t, <<>>, L)
  BY NothingFollows DEF Ready
<1>2. ASSUME NEW c, Fit(t, c, L, 1), t = Pool => Neutral(t, c)
      PROVE  Ready(t, <<c>>, L)
  <2>. DEFINE s == <<c>>
  <2>1. Len(s) = 1 /\ s[1] = c /\ Later(s, 1) \cup L = L
    BY LaterShort
  <2>2. \A k \in 1..1 : k = 1
    OBVIOUS
  <2>. HIDE DEF s
  <2>3. Ready(t, s, L)
    BY <1>2, <2>1, <2>2 DEF Ready
  <2>. QED  BY <2>3 DEF s
<1>3. ASSUME NEW c, NEW d, Fit(t, c, {d} \cup L, 1), Fit(t, d, L, 2), t = Pool => Neutral(t, c) /\ Neutral(t, d)
      PROVE  Ready(t, <<c, d>>, L)
  <2>. DEFINE s == <<c, d>>
  <2>1. Len(s) = 2 /\ s[1] = c /\ s[2] = d /\ Later(s, 1) = {d} /\ Later(s, 2) \cup L = L
    BY LaterShort
  <2>2. \A k \in 1..2 : k = 1 \/ k = 2
    OBVIOUS
  <2>. HIDE DEF s
  <2>3. Ready(t, s, L)
    BY <1>3, <2>1, <2>2 DEF Ready
  <2>. QED  BY <2>3 DEF s
<1>4. ASSUME NEW c, NEW d, NEW e, t # Pool,
             Fit(t, c, {d, e} \cup L, 1), Fit(t, d, {e} \cup L, 2), Fit(t, e, L, 2)
      PROVE  Ready(t, <<c, d, e>>, L)
  <2>. DEFINE s == <<c, d, e>>
  <2>1. /\ Len(s) = 3 /\ s[1] = c /\ s[2] = d /\ s[3] = e
        /\ Later(s, 1) = {d, e} /\ Later(s, 2) = {e} /\ Later(s, 3) \cup L = L
    BY LaterThreeFour
  <2>2. \A k \in 1..3 : k = 1 \/ k = 2 \/ k = 3
    OBVIOUS
  <2>3. Fit(t, e, L, 3)
    BY <1>4, FirstToo
  <2>. HIDE DEF s
  <2>4. Ready(t, s, L)
    BY <1>4, <2>1, <2>2, <2>3 DEF Ready
  <2>. QED  BY <2>4 DEF s
<1>5. ASSUME NEW c, NEW d, NEW e, NEW f, t # Pool, Fit(t, c, {d, e, f} \cup L, 2), Fit(t, d, {e, f} \cup L, 2),
             Fit(t, e, {f} \cup L, 2), Fit(t, f, L, 2)
      PROVE  Ready(t, <<c, d, e, f>>, L)
  <2>. DEFINE s == <<c, d, e, f>>
  <2>1. /\ Len(s) = 4 /\ s[1] = c /\ s[2] = d /\ s[3] = e /\ s[4] = f
        /\ Later(s, 1) = {d, e, f} /\ Later(s, 2) = {e, f} /\ Later(s, 3) = {f} /\ Later(s, 4) \cup L = L
    BY LaterThreeFour
  <2>2. \A k \in 1..4 : k = 1 \/ k = 2 \/ k = 3 \/ k = 4
    OBVIOUS
  <2>3. Fit(t, c, {d, e, f} \cup L, 1) /\ Fit(t, e, {f} \cup L, 3) /\ Fit(t, f, L, 4)
    BY <1>5, FirstToo
  <2>. HIDE DEF s
  <2>4. Ready(t, s, L)
    BY <1>5, <2>1, <2>2, <2>3 DEF Ready
  <2>. QED  BY <2>4 DEF s
<1>. QED  BY <1>1, <1>2, <1>3, <1>4, <1>5

\* A request goes on and writes nothing.
LEMMA ReadPaid ==
    ASSUME OneRequest, IInv, BInv, NEW r \in Requests, req[r].todo # <<>>, Call(r).q # "begin",
           NEW more \in Seq(InnerCalls), Continue(r, more), UNCHANGED dbVars, SameIds,
           \A a : Saves(Call(r), a) => Saved(Later(more, 0), a),
           Ready(req[r].own, more, Later(req[r].todo, 1))
    PROVE  BInv'
<1>. SUFFICES ASSUME NEW c, c = Call(r), NEW t, t = req[r].own, NEW L, L = Later(req[r].todo, 1)
              PROVE  BInv'
  OBVIOUS
<1>1. Replaces(r, more) /\ UNCHANGED <<row, bal, tx, mate, opening>>
  BY ContinueReplaces DEF dbVars, SameIds
<1>2. \A a \in Accounts : BalAt(t, a) # Gone /\ Saves(c, a) => Saved(Later(more, 0) \cup L, a)
  BY DEF Saved
<1>3. /\ \A k \in 1..Len(more) : Fit(t, more[k], Later(more, k) \cup L, k)
      /\ t = Pool => \A k \in 1..Len(more) : Neutral(t, more[k])
  BY Zenon DEF Ready
<1>. QED  BY <1>1, <1>2, <1>3, QuietlyPaid, Zenon

LEMMA PlainFits ==
    ASSUME NEW t, NEW c, NEW A, NEW k
    PROVE  /\ c.q \in {"begin", "aim", "each", "count"} => Fit(t, c, A, k)
           /\ c.q = "find" /\ c.how \notin {"edit", "linkTo"} => Fit(t, c, A, k)
           /\ c.q = "findacc" /\ c.use # "retype" => Fit(t, c, A, k)
           /\ c.q = "lookup" /\ (c.use \in Repos => c.fresh) => Fit(t, c, A, k)
           /\ c.q \in {"sum", "delacc"} => Fit(t, c, A, 1)
           /\ c.q = "remove" /\ Saved(A, RowAt(t, c.id).acct) => Fit(t, c, A, k)
           /\ c.q = "put" /\ (RowAt(t, c.id) # NoRow => SameMoney(RowAt(t, c.id), c.row))
              => Fit(t, c, A, k)
           /\ c.q \in {"aim", "each", "count", "findacc", "putacc", "delacc"} => Neutral(t, c)
           /\ c.q = "find" /\ c.how \notin {"edit", "delete"} => Neutral(t, c)
           /\ c.q \in {"lookup", "sum", "fill"} /\ c.use \notin Repos => Neutral(t, c)
           /\ c.q = "put" /\ (RowAt(t, c.id) # NoRow => SameMoney(RowAt(t, c.id), c.row))
              => Neutral(t, c)
BY DEF Fit, FitInsert, FitPut, FitRemove, FitFind, FitNew, FitSave, Neutral

LEMMA RunAimPaid ==
    ASSUME OneRequest, IInv, BInv, NEW r \in Requests, RunAim(r)
    PROVE  BInv'
<1>. SUFFICES ASSUME NEW c, c = Call(r), NEW t, t = req[r].own, NEW L, L = Later(req[r].todo, 1)
              PROVE  BInv'
  OBVIOUS
<1>1. req[r].todo # <<>> /\ c.q = "aim" /\ c \in InnerCalls
  BY AtInner DEF RunAim
<1>2. /\ req'[r].todo = Tail(req[r].todo) /\ req'[r].own = req[r].own
      /\ UNCHANGED <<row, bal, tx, mate, opening>>
  BY DEF RunAim, GoOn, dbVars, SameIds, IInv, TypeOK
<1>3. Tail(req[r].todo) \in Seq(Calls) /\ <<>> \o Tail(req[r].todo) = Tail(req[r].todo)
  BY <1>1, HeadIsCall DEF IInv
<1>4. Replaces(r, <<>>)
  BY <1>2, <1>3 DEF Replaces
<1>5. \A a : ~Saves(c, a)
  BY <1>1 DEF Saves
<1>6. \A k \in 1..Len(<<>>) : Fit(t, <<>>[k], Later(<<>>, k) \cup L, k) /\ Neutral(t, <<>>[k])
  BY NothingFollows
<1>. QED  BY <1>1, <1>2, <1>4, <1>5, <1>6, NothingFollows, QuietlyPaid, Zenon

LEMMA RunForEachPaid ==
    ASSUME OneRequest, IInv, BInv, NEW r \in Requests, RunForEach(r)
    PROVE  BInv'
<1>. SUFFICES ASSUME NEW c, c = Call(r), NEW t, t = req[r].own, NEW L, L = Later(req[r].todo, 1)
              PROVE  BInv'
  OBVIOUS
<1>1. req[r].todo # <<>> /\ c.q = "each" /\ c \in InnerCalls /\ Call(r).q # "begin"
  BY AtInner DEF RunForEach
<1>2. /\ UNCHANGED dbVars /\ SameIds /\ \A a : ~Saves(c, a)
      /\ c.ids \in SUBSET Txns /\ c.how \in {"linkBack", "linkDrop"} /\ c.other \in Txns
  BY <1>1, StatementFields DEF RunForEach, Saves
<1>3. CASE Continue(r, <<>>)
  BY <1>1, <1>2, <1>3, NothingFollows, ReadyShort, ReadPaid, Zenon
<1>4. ASSUME NEW i \in c.ids,
             Continue(r, <<Find(i, c.how, c.other), ForEach(c.ids \ {i}, c.how, c.other)>>)
      PROVE  BInv'
  <2>. SUFFICES ASSUME NEW f, f = Find(i, c.how, c.other), NEW g, g = ForEach(c.ids \ {i}, c.how, c.other)
                PROVE  BInv'
    OBVIOUS
  <2>1. f \in InnerCalls /\ g \in InnerCalls
    BY <1>2, FindCalls, LoopCalls
  <2>2. f.q = "find" /\ f.how = c.how /\ g.q = "each"
    BY DEF Find, ForEach
  <2>3. Fit(t, f, {g} \cup L, 1) /\ Fit(t, g, L, 2) /\ Neutral(t, f) /\ Neutral(t, g)
    BY <1>2, <2>2, PlainFits
  <2>4. <<f, g>> \in Seq(InnerCalls) /\ Ready(t, <<f, g>>, L)
    BY <2>1, <2>3, SmallSeqs, ReadyShort, Zenon
  <2>. QED  BY <1>1, <1>2, <1>4, <2>4, ReadPaid, Zenon
<1>. QED  BY <1>3, <1>4, Zenon DEF RunForEach

LEMMA UseSumPaid ==
    ASSUME OneRequest, IInv, BInv, NEW r \in Requests, req[r].todo # <<>>,
           NEW c, c = Call(r), c \in InnerCalls, c.q \in {"lookup", "fill"}, UNCHANGED dbVars, SameIds,
           NEW b \in Balance, c.use \in Repos => b = SumAt(req[r].own, c.acct), UseSum(r, c.acct, b, c.use)
    PROVE  BInv'
<1>. SUFFICES ASSUME NEW t, t = req[r].own, NEW L, L = Later(req[r].todo, 1)
              PROVE  BInv'
  OBVIOUS
<1>1. Call(r).q # "begin" /\ c.acct \in Accounts /\ c.use \in Uses /\ "check" \notin Repos /\ "show" \notin Repos
  BY LookupFields DEF Repos
<1>2. t = Pool => Neutral(t, c)
  BY <1>1, HeadIsFit, Zenon
<1>3. CASE c.use \in Repos
  <2>. SUFFICES ASSUME NEW d, d = SetBalance(c.acct, b, c.use)
                PROVE  BInv'
    OBVIOUS
  <2>1. Continue(r, <<d>>) /\ d \in InnerCalls
    BY <1>1, <1>3, AccountCalls DEF UseSum, Repos
  <2>2. d.q = "setbal" /\ d.acct = c.acct /\ d.bal = b
    BY DEF SetBalance
  <2>3. Fit(t, d, L, 1)
    BY <1>3, <2>2 DEF Fit, FitInsert, FitPut, FitRemove, FitFind, FitNew, FitSave
  <2>4. t # Pool
    BY <1>2, <1>3 DEF Neutral
  <2>5. \A a : Saves(c, a) => Saved(Later(<<d>>, 0), a)
    <3>1. Later(<<d>>, 0) = {d}
      BY LaterShort
    <3>. QED  BY <2>2, <3>1 DEF Saves, Saved
  <2>6. <<d>> \in Seq(InnerCalls) /\ Ready(t, <<d>>, L)
    BY <2>1, <2>3, <2>4, SmallSeqs, ReadyShort, Zenon
  <2>. QED  BY <1>1, <2>1, <2>5, <2>6, ReadPaid, Zenon
<1>4. CASE c.use \notin Repos
  <2>1. Continue(r, <<>>) \/ Throw(r)
    BY <1>1, <1>4 DEF UseSum, Uses
  <2>2. \A a : ~Saves(c, a)
    BY <1>4 DEF Saves
  <2>3. CASE Continue(r, <<>>)
    BY <1>1, <2>2, <2>3, NothingFollows, ReadyShort, ReadPaid, Zenon
  <2>4. CASE Throw(r)
    BY <2>4, ThrowsPaid DEF dbVars, SameIds
  <2>. QED  BY <2>1, <2>3, <2>4
<1>. QED  BY <1>3, <1>4

LEMMA LookupPaid ==
    ASSUME OneRequest, IInv, BInv, NEW r \in Requests, Lookup(r)
    PROVE  BInv'
<1>. SUFFICES ASSUME NEW c, c = Call(r), NEW t, t = req[r].own, NEW L, L = Later(req[r].todo, 1),
                     NEW s, s = SumRows(c), NEW hit, hit = cache[Home[r]][c.acct]
              PROVE  BInv'
  OBVIOUS
<1>1. req[r].todo # <<>> /\ c.q = "lookup" /\ c \in InnerCalls /\ Call(r).q # "begin"
  BY AtInner DEF Lookup
<1>2. /\ UNCHANGED dbVars /\ SameIds
      /\ c.acct \in Accounts /\ c.use \in Uses /\ s \in InnerCalls
      /\ s.q = "sum" /\ s.acct = c.acct /\ s.use = c.use
  BY <1>1, LookupFields DEF Lookup, SumRows
<1>3. Fit(t, c, L, 1) /\ (t = Pool => Neutral(t, c))
  BY <1>1, HeadIsFit
<1>4. CASE Continue(r, <<s>>)
  <2>1. Fit(t, s, L, 1) /\ (t = Pool => Neutral(t, s))
    BY <1>1, <1>2, <1>3, PlainFits DEF Neutral
  <2>2. \A a : Saves(c, a) => Saved(Later(<<s>>, 0), a)
    <3>1. Later(<<s>>, 0) = {s}
      BY LaterShort
    <3>. QED  BY <1>1, <1>2, <3>1 DEF Saves, Saved
  <2>3. <<s>> \in Seq(InnerCalls) /\ Ready(t, <<s>>, L)
    BY <1>2, <2>1, SmallSeqs, ReadyShort, Zenon
  <2>. QED  BY <1>1, <1>2, <1>4, <2>2, <2>3, ReadPaid, Zenon
<1>5. CASE ~c.fresh /\ hit # Miss /\ UseSum(r, c.acct, hit, c.use)
  <2>1. c.use \notin Repos
    BY <1>1, <1>3, <1>5 DEF Fit, FitSave
  <2>2. hit \in Balance
    BY <1>2, <1>5, HomeType DEF IInv, TypeOK
  <2>. QED  BY <1>1, <1>2, <1>5, <2>1, <2>2, UseSumPaid
<1>. QED  BY <1>4, <1>5 DEF Lookup

LEMMA FillCachePaid ==
    ASSUME OneRequest, IInv, BInv, NEW r \in Requests, FillCache(r)
    PROVE  BInv'
<1>. SUFFICES ASSUME NEW c, c = Call(r), NEW t, t = req[r].own, NEW L, L = Later(req[r].todo, 1)
              PROVE  BInv'
  OBVIOUS
<1>1. req[r].todo # <<>> /\ c.q = "fill" /\ c \in InnerCalls
  BY AtInner DEF FillCache
<1>2. /\ UNCHANGED dbVars /\ SameIds /\ UseSum(r, c.acct, c.seen, c.use) /\ c.seen \in Balance
  BY <1>1, LookupFields DEF FillCache
<1>3. c.seen = SumAt(t, c.acct)
  <2>1. Fit(t, c, L, 1)
    BY <1>1, HeadIsFit
  <2>. QED  BY <1>1, <2>1 DEF Fit, FitSave
<1>. QED  BY <1>1, <1>2, <1>3, UseSumPaid

LEMMA SumAccountPaid ==
    ASSUME OneRequest, IInv, AInv, BInv, NEW r \in Requests, SumAccount(r)
    PROVE  BInv'
<1>. SUFFICES ASSUME NEW c, c = Call(r), NEW t, t = req[r].own, NEW L, L = Later(req[r].todo, 1),
                     NEW b, b = SumAt(req[r].on, c.acct), NEW f, f = Fill(c, b)
              PROVE  BInv'
  OBVIOUS
<1>1. /\ Statement(r, "sum") /\ UNCHANGED dbVars /\ SameIds /\ Continue(r, <<f>>)
  BY DEF SumAccount, Otherwise
<1>2. c.q = "sum" /\ c \in InnerCalls /\ c.via # "-" /\ c.acct \in Accounts /\ b \in Balance
  <2>1. c.q = "sum" /\ c \in InnerCalls
    BY <1>1, AtStatement
  <2>. QED  BY <2>1, LookupFields, ReadTypes, Zenon DEF InnerCalls, IInv
<1>3. /\ req[r].todo # <<>> /\ Call(r).q # "begin" /\ (t = Pool => Neutral(t, c))
      /\ b = SumAt(t, c.acct)
  BY <1>1, <1>2, AtHead
<1>4. f \in InnerCalls /\ f.q = "fill" /\ f.acct = c.acct /\ f.seen = b /\ f.use = c.use
  BY <1>2, LookupFields DEF Fill
<1>5. Fit(t, f, L, 1) /\ (t = Pool => Neutral(t, f))
  BY <1>2, <1>3, <1>4 DEF Fit, FitInsert, FitPut, FitRemove, FitFind, FitNew, FitSave, Neutral
<1>6. \A a : Saves(c, a) => Saved(Later(<<f>>, 0), a)
  <2>1. Later(<<f>>, 0) = {f}
    BY LaterShort
  <2>. QED  BY <1>2, <1>4, <2>1 DEF Saves, Saved
<1>7. <<f>> \in Seq(InnerCalls) /\ Ready(t, <<f>>, L)
  BY <1>4, <1>5, SmallSeqs, ReadyShort, Zenon
<1>. QED  BY <1>1, <1>3, <1>6, <1>7, ReadPaid, Zenon

LEMMA ReadAccountPaid ==
    ASSUME OneRequest, IInv, AInv, BInv, NEW r \in Requests, ReadAccount(r)
    PROVE  BInv'
<1>. SUFFICES ASSUME NEW c, c = Call(r), NEW t, t = req[r].own, NEW L, L = Later(req[r].todo, 1),
                     NEW b, b = BalAt(req[r].on, c.acct)
              PROVE  BInv'
  OBVIOUS
<1>1. /\ Statement(r, "findacc") /\ UNCHANGED dbVars /\ SameIds
      /\ b = Gone => Throw(r)
      /\ b # Gone => Continue(r, CASE c.use = "rename" -> <<PutAccount(c.acct, b)>>
                                   [] c.use = "retype" -> <<PutAccount(c.acct, Typed)>>
                                   [] c.use = "delete" -> <<RemoveAccount(c.acct)>>
                                   [] OTHER -> <<>>)
  BY DEF ReadAccount, Otherwise
<1>2. /\ c.q = "findacc" /\ c \in InnerCalls /\ c.via # "-" /\ c.acct \in Accounts
      /\ c.use \in {"exists", "rename", "retype", "delete"}
  <2>1. c.q = "findacc" /\ c \in InnerCalls
    BY <1>1, AtStatement
  <2>. QED  BY <2>1, StatementFields DEF InnerCalls
<1>3. /\ req[r].todo # <<>> /\ Call(r).q # "begin" /\ Fit(t, c, L, 1)
      /\ b = BalAt(t, c.acct)
  BY <1>1, <1>2, AtHead
<1>4. c.use # "retype" /\ (\A a : ~Saves(c, a))
  BY <1>2, <1>3 DEF Fit, FitSave, Saves
<1>5. b \in Balance \cup {Gone}
  BY <1>2, ReadTypes DEF IInv
<1>6. CASE b = Gone
  BY <1>1, <1>6, ThrowsPaid DEF dbVars, SameIds
<1>7. CASE b # Gone /\ c.use = "rename"
  <2>. SUFFICES ASSUME NEW d, d = PutAccount(c.acct, b)
                PROVE  BInv'
    OBVIOUS
  <2>1. Continue(r, <<d>>) /\ d \in InnerCalls
    BY <1>1, <1>2, <1>5, <1>7, AccountCalls
  <2>2. d.q = "putacc" /\ d.acct = c.acct /\ d.bal = b
    BY DEF PutAccount
  <2>3. Fit(t, d, L, 1) /\ Neutral(t, d)
    BY <1>3, <2>2, PlainFits DEF Fit, FitInsert, FitPut, FitRemove, FitFind, FitNew, FitSave
  <2>4. <<d>> \in Seq(InnerCalls) /\ Ready(t, <<d>>, L)
    BY <2>1, <2>3, SmallSeqs, ReadyShort, Zenon
  <2>. QED  BY <1>1, <1>3, <1>4, <2>1, <2>4, ReadPaid, Zenon
<1>8. CASE b # Gone /\ c.use = "delete"
  <2>. SUFFICES ASSUME NEW d, d = RemoveAccount(c.acct)
                PROVE  BInv'
    OBVIOUS
  <2>1. Continue(r, <<d>>) /\ d \in InnerCalls
    BY <1>1, <1>2, <1>8, AccountCalls
  <2>2. d.q = "delacc"
    BY DEF RemoveAccount
  <2>3. Fit(t, d, L, 1) /\ Neutral(t, d)
    BY <2>2, PlainFits
  <2>4. <<d>> \in Seq(InnerCalls) /\ Ready(t, <<d>>, L)
    BY <2>1, <2>3, SmallSeqs, ReadyShort, Zenon
  <2>. QED  BY <1>1, <1>3, <1>4, <2>1, <2>4, ReadPaid, Zenon
<1>9. CASE b # Gone /\ c.use = "exists"
  <2>1. Continue(r, <<>>)
    BY <1>1, <1>9
  <2>. QED  BY <1>1, <1>3, <1>4, <2>1, NothingFollows, ReadyShort, ReadPaid, Zenon
<1>. QED  BY <1>2, <1>4, <1>6, <1>7, <1>8, <1>9

LEMMA CheckLimitPaid ==
    ASSUME OneRequest, IInv, AInv, BInv, NEW r \in Requests, CheckLimit(r)
    PROVE  BInv'
<1>1. /\ Statement(r, "count") /\ UNCHANGED dbVars /\ SameIds
      /\ Continue(r, <<>>) \/ Throw(r)
  BY DEF CheckLimit, Otherwise
<1>2. req[r].todo # <<>> /\ Call(r).q = "count"
  BY <1>1, AtStatement
<1>3. \A a : ~Saves(Call(r), a)
  BY <1>2 DEF Saves
<1>4. CASE Continue(r, <<>>)
  BY <1>1, <1>2, <1>3, <1>4, NothingFollows, ReadyShort, ReadPaid, Zenon
<1>5. CASE Throw(r)
  BY <1>1, <1>5, ThrowsPaid DEF dbVars, SameIds
<1>. QED  BY <1>1, <1>4, <1>5

LEMMA FailuresPaid ==
    ASSUME OneRequest, IInv, BInv, NEW r \in Requests, RefuseRow(r) \/ Fail(r)
    PROVE  BInv'
<1>1. Throw(r) /\ UNCHANGED <<row, bal, mate, opening>>
  BY DEF RefuseRow, Fail, StatementFails, Otherwise, SameIds, dbVars
<1>. QED  BY <1>1, ThrowsPaid

\* Nothing that the invariant speaks of changes.
LEMMA OutsideBooks ==
    ASSUME BInv, UNCHANGED <<row, bal, tx, mate, opening, req>>
    PROVE  BInv'
<1>1. /\ \A t, i : RowAt(t, i)' = RowAt(t, i)
      /\ \A t, a : BalAt(t, a)' = BalAt(t, a)
      /\ \A t, a : SumAt(t, a)' = SumAt(t, a)
  BY DEF RowAt, BalAt, SumAt, RowsOf
<1>2. Whole(Pool)' /\ Owing(Pool, <<>>)'
  BY PoolStaysPaid
<1>3. ASSUME NEW r \in Requests, NEW t, t = req[r].own, Paying(r)
      PROVE  Paying(r)'
  <2>1. req' = req /\ mate' = mate /\ opening' = opening
    OBVIOUS
  <2>2. Whole(t)'
    BY <1>1, <1>3, <2>1 DEF Paying, Whole
  <2>3. Owing(t, req[r].todo)'
    BY <1>1, <1>3, <2>1 DEF Paying, Owing, Saved, Later, Saves
  <2>4. AllFit(t, req[r].todo)'
    <3>. SUFFICES ASSUME NEW calls, calls = req[r].todo
                  PROVE  AllFit(t, calls)'
      BY <2>1 DEF AllFit
    <3>1. ASSUME NEW k \in 1..Len(calls)
          PROVE  Fit(t, calls[k], Later(calls, k), k)'
      <4>1. Fit(t, calls[k], Later(calls, k), k)
        BY <1>3 DEF Paying, AllFit
      <4>. QED  BY <4>1, QuietFits
    <3>. QED  BY <3>1 DEF AllFit
  <2>5. t = Pool => AllNeutral(t, req[r].todo)'
    BY <1>1, <1>3, <2>1 DEF Paying, AllNeutral, Neutral, SameMoney
  <2>. QED  BY <1>3, <2>1, <2>2, <2>3, <2>4, <2>5 DEF Paying, Whole, Owing, AllFit, AllNeutral
<1>. QED  BY <1>2, <1>3 DEF BInv

-----------------------------------------------------------------------------
(* Rows that are read.                                                     *)

LEMMA TwoGlued == \A p, u : <<p>> \o <<u>> = <<p, u>>
<1>. SUFFICES ASSUME NEW p, NEW u
              PROVE  <<p>> \o <<u>> = <<p, u>>
  BY Zenon
<1>. DEFINE a == <<p>> \o <<u>>
            b == <<p, u>>
<1>1. a \in Seq({p, u}) /\ b \in Seq({p, u}) /\ Len(a) = 2 /\ Len(b) = 2
  OBVIOUS
<1>2. \A i \in 1..2 : i = 1 \/ i = 2
  OBVIOUS
<1>3. a[1] = p /\ a[2] = u
  OBVIOUS
<1>4. b[1] = p /\ b[2] = u
  OBVIOUS
<1>. HIDE DEF a, b
<1>5. a = b
  BY <1>1, <1>2, <1>3, <1>4
<1>. QED  BY <1>5 DEF a, b

LEMMA ThreeGlued == \A p, s, u : <<p, s>> \o <<u>> = <<p, s, u>>
<1>. SUFFICES ASSUME NEW p, NEW s, NEW u
              PROVE  <<p, s>> \o <<u>> = <<p, s, u>>
  BY Zenon
<1>. DEFINE a == <<p, s>> \o <<u>>
            b == <<p, s, u>>
<1>1. a \in Seq({p, s, u}) /\ b \in Seq({p, s, u}) /\ Len(a) = 3 /\ Len(b) = 3
  OBVIOUS
<1>2. \A i \in 1..3 : i = 1 \/ i = 2 \/ i = 3
  OBVIOUS
<1>3. a[1] = p /\ a[2] = s /\ a[3] = u
  OBVIOUS
<1>4. b[1] = p /\ b[2] = s /\ b[3] = u
  OBVIOUS
<1>. HIDE DEF a, b
<1>5. a = b
  BY <1>1, <1>2, <1>3, <1>4
<1>. QED  BY <1>5 DEF a, b

LEMMA FourGlued == \A p, s, u, v : <<p, s>> \o <<u, v>> = <<p, s, u, v>>
<1>. SUFFICES ASSUME NEW p, NEW s, NEW u, NEW v
              PROVE  <<p, s>> \o <<u, v>> = <<p, s, u, v>>
  BY Zenon
<1>. DEFINE a == <<p, s>> \o <<u, v>>
            b == <<p, s, u, v>>
<1>1. a \in Seq({p, s, u, v}) /\ b \in Seq({p, s, u, v}) /\ Len(a) = 4 /\ Len(b) = 4
  OBVIOUS
<1>2. \A i \in 1..4 : i = 1 \/ i = 2 \/ i = 3 \/ i = 4
  OBVIOUS
<1>3. a[1] = p /\ a[2] = s /\ a[3] = u /\ a[4] = v
  OBVIOUS
<1>4. b[1] = p /\ b[2] = s /\ b[3] = u /\ b[4] = v
  OBVIOUS
<1>. HIDE DEF a, b
<1>5. a = b
  BY <1>1, <1>2, <1>3, <1>4
<1>. QED  BY <1>5 DEF a, b

\* What a row is written back as has its money.
LEMMA LinksAreNoMoney ==
    ASSUME NEW x \in Row, NEW i
    PROVE  /\ SameMoney(x, WithLink(x, i)) /\ SameMoney(x, WithoutLink(x, i))
           /\ SameMoney(x, [x EXCEPT !.links = {}])
           /\ \A y : SameMoney(y, x) => SameMoney(y, WithLink(x, i))
BY DEF SameMoney, WithLink, WithoutLink, Row

LEMMA EditReady ==
    ASSUME NEW t, t # Pool, NEW c \in InnerCalls, c.q = "find", c.how = "edit",
           NEW x \in Row, x = RowAt(t, c.id), NEW L, Fit(t, c, L, 1)
    PROVE  Ready(t, AfterEdit(c, x), L)
<1>. SUFFICES ASSUME NEW p, p = Put(c.id, Edited(x, c.arg)), NEW s, s = SaveBalance(x.acct),
                     NEW u, u = SaveBalance(c.arg.acct)
              PROVE  Ready(t, AfterEdit(c, x), L)
  OBVIOUS
<1>1. /\ p.q = "put" /\ p.id = c.id /\ p.row = Edited(x, c.arg)
      /\ s.q = "lookup" /\ s.acct = x.acct /\ s.use = "acc" /\ s.fresh
      /\ u.q = "lookup" /\ u.acct = c.arg.acct /\ u.use = "acc" /\ u.fresh
  BY DEF Put, SaveBalance, Stats
<1>2. \A d \in L : d.q = "lookup"
  BY DEF Fit, FitFind
<1>3. \A A : Fit(t, s, A, 2) /\ Fit(t, u, A, 2)
  BY <1>1, PlainFits
<1>4. Saves(s, x.acct) /\ Saves(u, c.arg.acct)
  BY <1>1 DEF Saves, Repos
<1>5. p.row.acct = IF c.arg.acct = Keep THEN x.acct ELSE c.arg.acct
  BY <1>1 DEF Edited
<1>6. ASSUME NEW A, \A d \in A : d.q = "lookup", s \in A, c.arg.acct \in {Keep, x.acct} \/ u \in A
      PROVE  Fit(t, p, A, 1)
  <2>1. Saved(A, x.acct) /\ Saved(A, p.row.acct)
    BY <1>4, <1>5, <1>6 DEF Saved
  <2>2. FitPut(t, p, A, 1)
    BY <1>1, <1>6, <2>1 DEF FitPut
  <2>. QED  BY <1>1, <2>2 DEF Fit, FitInsert, FitRemove, FitFind, FitNew, FitSave
<1>7. CASE c.arg.acct \in {Keep, x.acct}
  <2>1. AfterEdit(c, x) = <<p, s>>
    BY <1>7 DEF AfterEdit
  <2>2. Fit(t, p, {s} \cup L, 1) /\ Fit(t, s, L, 2)
    BY <1>1, <1>2, <1>3, <1>6, <1>7
  <2>. QED  BY <2>1, <2>2, ReadyShort, Zenon
<1>8. CASE c.arg.acct \notin {Keep, x.acct}
  <2>1. AfterEdit(c, x) = <<p, s, u>>
    <3>1. AfterEdit(c, x) = <<p, s>> \o <<u>>
      BY <1>8 DEF AfterEdit
    <3>. QED  BY <3>1, ThreeGlued, Zenon
  <2>2. Fit(t, p, {s, u} \cup L, 1) /\ Fit(t, s, {u} \cup L, 2) /\ Fit(t, u, L, 2)
    BY <1>1, <1>2, <1>3, <1>6
  <2>. QED  BY <2>1, <2>2, ReadyShort, Zenon
<1>. QED  BY <1>7, <1>8

LEMMA DeleteReady ==
    ASSUME NEW t, t # Pool, NEW c \in InnerCalls, c.q = "find", c.how = "delete",
           NEW x \in Row, x = RowAt(t, c.id), NEW L
    PROVE  Ready(t, AfterDelete(c, x), L)
<1>. SUFFICES ASSUME NEW p, p = Aim({"trx"}), NEW f, f = Find(c.id, "unlinkAll", c.id),
                     NEW m, m = Remove(c.id), NEW s, s = SaveBalance(x.acct)
              PROVE  Ready(t, AfterDelete(c, x), L)
  OBVIOUS
<1>1. /\ p.q = "aim" /\ f.q = "find" /\ f.how = "unlinkAll"
      /\ m.q = "remove" /\ m.id = c.id
      /\ s.q = "lookup" /\ s.acct = x.acct /\ s.use = "acc" /\ s.fresh
  BY DEF Aim, Find, Remove, SaveBalance, Stats
<1>2. \A A : Fit(t, p, A, 2) /\ Fit(t, f, A, 2) /\ Fit(t, s, A, 2)
  BY <1>1, PlainFits
<1>3. Saved({s} \cup L, RowAt(t, m.id).acct)
  BY <1>1 DEF Saved, Saves, Repos
<1>4. Fit(t, m, {s} \cup L, 1) /\ Fit(t, m, {s} \cup L, 2)
  BY <1>1, <1>3, PlainFits
<1>5. AfterDelete(c, x) = <<m, s>> \/ AfterDelete(c, x) = <<p, f, m, s>>
  <2>1. CASE x.links = {}
    <3>1. AfterDelete(c, x) = <<>> \o <<m, s>>
      BY <2>1 DEF AfterDelete
    <3>. QED  BY <3>1
  <2>2. CASE x.links # {}
    <3>1. AfterDelete(c, x) = <<p, f>> \o <<m, s>>
      BY <2>2 DEF AfterDelete
    <3>. QED  BY <3>1, FourGlued, Zenon
  <2>. QED  BY <2>1, <2>2
<1>. QED  BY <1>2, <1>4, <1>5, ReadyShort, Zenon

LEMMA AfterFindReady ==
    ASSUME NEW t, NEW c \in InnerCalls, c.q = "find", NEW x \in Row \cup {NoRow}, x = RowAt(t, c.id),
           ~Refused(c, x), NEW L, Fit(t, c, L, 1), t = Pool => Neutral(t, c)
    PROVE  Ready(t, AfterFind(c, x), L)
<1>1. CASE c.how = "edit"
  <2>1. x \in Row /\ t # Pool
    BY <1>1 DEF Refused, Neutral
  <2>. QED  BY <1>1, <2>1, EditReady DEF AfterFind
<1>2. CASE c.how = "delete"
  <2>1. x \in Row /\ t # Pool
    BY <1>2 DEF Refused, Neutral
  <2>. QED  BY <1>2, <2>1, DeleteReady DEF AfterFind
<1>3. CASE c.how = "unlinkAll"
  <2>1. CASE x = NoRow
    BY <1>3, <2>1, ReadyShort DEF AfterFind, AfterUnlinkAll
  <2>2. CASE x # NoRow
    <3>. SUFFICES ASSUME NEW p, p = Put(c.id, [x EXCEPT !.links = {}]), NEW e, e = ForEach(x.links, "linkDrop", c.id)
                  PROVE  Ready(t, <<p, e>>, L)
      BY <1>3, <2>2 DEF AfterFind, AfterUnlinkAll
    <3>1. p.q = "put" /\ p.id = c.id /\ e.q = "each" /\ SameMoney(RowAt(t, p.id), p.row)
      BY <2>2, LinksAreNoMoney DEF Put, ForEach
    <3>2. Fit(t, p, {e} \cup L, 1) /\ Fit(t, e, L, 2) /\ Neutral(t, p) /\ Neutral(t, e)
      BY <3>1, PlainFits
    <3>. QED  BY <3>2, ReadyShort, Zenon
  <2>. QED  BY <2>1, <2>2
<1>4. CASE c.how = "linkFrom"
  <2>. SUFFICES ASSUME NEW a, a = [id |-> c.id, row |-> x], NEW f, f = Find(c.arg, "linkTo", a)
                PROVE  Ready(t, <<f>>, L)
    BY <1>4 DEF AfterFind
  <2>1. f.q = "find" /\ f.how = "linkTo" /\ f.arg.id = c.id /\ f.arg.row = x
    BY DEF Find
  <2>2. Fit(t, f, L, 1)
    BY <2>1 DEF Fit, FitInsert, FitPut, FitRemove, FitFind, FitNew, FitSave, SameMoney
  <2>3. Neutral(t, f)
    BY <2>1, PlainFits
  <2>. QED  BY <2>2, <2>3, ReadyShort, Zenon
<1>5. CASE c.how = "linkTo"
  <2>. SUFFICES ASSUME NEW p, p = Put(c.arg.id, WithLink(c.arg.row, c.id)), NEW s, s = Put(c.id, WithLink(x, c.arg.id))
                PROVE  Ready(t, AfterLinkTo(c, x), L)
    BY <1>5 DEF AfterFind
  <2>1. x \in Row /\ c.arg.row \in Row
    BY <1>5, FindFields DEF Refused
  <2>2. RowAt(t, c.arg.id) # NoRow => SameMoney(RowAt(t, c.arg.id), c.arg.row)
    BY <1>5 DEF Fit, FitFind
  <2>3. p.q = "put" /\ p.id = c.arg.id /\ (RowAt(t, p.id) # NoRow => SameMoney(RowAt(t, p.id), p.row))
    BY <2>1, <2>2, LinksAreNoMoney, Zenon DEF Put
  <2>4. s.q = "put" /\ s.id = c.id /\ SameMoney(RowAt(t, s.id), s.row)
    BY <2>1, LinksAreNoMoney, Zenon DEF Put
  <2>5. /\ \A A, k : Fit(t, p, A, k) /\ Fit(t, s, A, k)
        /\ Neutral(t, p) /\ Neutral(t, s)
    BY <2>3, <2>4, PlainFits
  <2>6. AfterLinkTo(c, x) = <<p>> \/ AfterLinkTo(c, x) = <<p, s>>
    <3>1. CASE c.arg.id \in x.links
      <4>1. AfterLinkTo(c, x) = <<p>> \o <<>>
        BY <3>1 DEF AfterLinkTo
      <4>. QED  BY <4>1
    <3>2. CASE c.arg.id \notin x.links
      <4>1. AfterLinkTo(c, x) = <<p>> \o <<s>>
        BY <3>2 DEF AfterLinkTo
      <4>. QED  BY <4>1, TwoGlued, Zenon
    <3>. QED  BY <3>1, <3>2
  <2>. QED  BY <2>5, <2>6, ReadyShort, Zenon
<1>6. CASE c.how = "unlinkFrom"
  <2>. SUFFICES ASSUME NEW p, p = Put(c.id, WithoutLink(x, c.arg)), NEW f, f = Find(c.arg, "linkDrop", c.id)
                PROVE  Ready(t, <<p, f>>, L)
    BY <1>6 DEF AfterFind
  <2>1. x \in Row
    BY <1>6 DEF Refused
  <2>2. p.q = "put" /\ p.id = c.id /\ SameMoney(RowAt(t, p.id), p.row) /\ f.q = "find" /\ f.how = "linkDrop"
    BY <2>1, LinksAreNoMoney, Zenon DEF Put, Find
  <2>3. Fit(t, p, {f} \cup L, 1) /\ Fit(t, f, L, 2) /\ Neutral(t, p) /\ Neutral(t, f)
    BY <2>2, PlainFits
  <2>. QED  BY <2>3, ReadyShort, Zenon
<1>7. CASE c.how \in {"linkBack", "linkDrop"}
  <2>. SUFFICES ASSUME NEW p, p = Put(c.id, WithLink(x, c.arg)), NEW s, s = Put(c.id, WithoutLink(x, c.arg))
                PROVE  Ready(t, AfterFind(c, x), L)
    OBVIOUS
  <2>1. \/ AfterFind(c, x) = <<>>
        \/ x # NoRow /\ (AfterFind(c, x) = <<p>> \/ AfterFind(c, x) = <<s>>)
    BY <1>7 DEF AfterFind
  <2>2. x # NoRow => /\ p.q = "put" /\ p.id = c.id /\ SameMoney(RowAt(t, p.id), p.row)
                     /\ s.q = "put" /\ s.id = c.id /\ SameMoney(RowAt(t, s.id), s.row)
    BY LinksAreNoMoney, Zenon DEF Put
  <2>3. x # NoRow => /\ Fit(t, p, L, 1) /\ Neutral(t, p)
                     /\ Fit(t, s, L, 1) /\ Neutral(t, s)
    BY <2>2, PlainFits
  <2>. QED  BY <2>1, <2>3, ReadyShort, Zenon
<1>8. c.how \in {"edit", "linkTo", "delete", "unlinkAll", "linkFrom", "unlinkFrom", "linkBack", "linkDrop"}
  BY FindFields
<1>. QED  BY <1>1, <1>2, <1>3, <1>4, <1>5, <1>6, <1>7, <1>8

LEMMA FindRowPaid ==
    ASSUME OneRequest, IInv, AInv, BInv, NEW r \in Requests, FindRow(r)
    PROVE  BInv'
<1>. SUFFICES ASSUME NEW c, c = Call(r), NEW t, t = req[r].own, NEW L, L = Later(req[r].todo, 1),
                     NEW x, x = RowAt(req[r].on, c.id), NEW more, more = AfterFind(c, x)
              PROVE  BInv'
  OBVIOUS
<1>1. /\ Statement(r, "find") /\ UNCHANGED dbVars /\ SameIds
      /\ IF Refused(c, x) THEN Throw(r) ELSE Continue(r, more)
  BY DEF FindRow, Otherwise
<1>2. c.q = "find" /\ c \in InnerCalls /\ c.via # "-" /\ c.id \in Txns /\ (\A a : ~Saves(c, a))
  <2>1. c.q = "find" /\ c \in InnerCalls
    BY <1>1, AtStatement
  <2>. QED  BY <2>1, FindFields DEF InnerCalls, Saves
<1>3. /\ req[r].todo # <<>> /\ Call(r).q # "begin" /\ Fit(t, c, L, 1) /\ (t = Pool => Neutral(t, c))
      /\ x = RowAt(t, c.id) /\ x \in Row \cup {NoRow}
  BY <1>1, <1>2, AtHead
<1>4. CASE Refused(c, x)
  BY <1>1, <1>4, ThrowsPaid DEF dbVars, SameIds
<1>5. CASE ~Refused(c, x)
  <2>1. more \in Seq(InnerCalls) /\ Ready(t, more, L)
    BY <1>2, <1>3, <1>5, AfterFindType, AfterFindReady, Zenon
  <2>. QED  BY <1>1, <1>2, <1>3, <1>5, <2>1, ReadPaid
<1>. QED  BY <1>4, <1>5

-----------------------------------------------------------------------------
(* Transactions begin and end.                                             *)

\* What is seen by u after the step is what was seen by t before it.
LEMMA MovedFits ==
    ASSUME UNCHANGED <<mate, opening>>, NEW t, NEW u,
           \A i \in Txns : RowAt(u, i)' = RowAt(t, i),
           \A a \in Accounts : BalAt(u, a)' = BalAt(t, a),
           NEW c \in InnerCalls, NEW A, Fit(t, c, A, 2)
    PROVE  Fit(u, c, A, 2)'
<1>1. /\ c.q \in {"insert", "put", "remove"} => c.id \in Txns
      /\ c.q = "newacc" => c.acct \in Accounts
      /\ c.q = "find" /\ c.how = "linkTo" => c.arg.id \in Txns
  BY StatementFields, FindFields
<1>2. mate' = mate /\ opening' = opening
  OBVIOUS
<1>3. FitInsert(u, c, A)'
  BY <1>1, <1>2 DEF Fit, FitInsert, Saved, Saves, Leaves, SameMoney
<1>4. FitPut(u, c, A, 2)'
  BY <1>1 DEF Fit, FitPut, SameMoney
<1>5. FitRemove(u, c, A)'
  BY <1>1 DEF Fit, FitRemove, Saved, Saves
<1>6. FitFind(u, c, A)'
  BY <1>1 DEF Fit, FitFind, SameMoney
<1>7. FitNew(u, c, A)'
  BY <1>1, <1>2 DEF Fit, FitNew, Saved, Saves, SumOf
<1>8. FitSave(u, c, 2)'
  BY DEF Fit, FitSave
<1>. QED  BY <1>3, <1>4, <1>5, <1>6, <1>7, <1>8 DEF Fit

\* What is seen by u after the step is whole, and right, as what was seen by t before it.
LEMMA MovedBooks ==
    ASSUME UNCHANGED <<mate, opening>>, TypeOK, NEW t, NEW u,
           \A i \in Txns : RowAt(u, i)' = RowAt(t, i),
           \A a \in Accounts : BalAt(u, a)' = BalAt(t, a)
    PROVE  /\ Whole(t) => Whole(u)'
           /\ \A a \in Accounts : SumAt(u, a)' = SumAt(t, a)
<1>1. mate' = mate /\ opening' = opening
  OBVIOUS
<1>2. \A i \in Txns : RowAt(t, i) # NoRow => RowAt(t, i).acct \in Accounts
  BY RowsAreOfAccounts
<1>3. Whole(t) => Whole(u)'
  <2>1. ASSUME Whole(t), NEW i \in Txns, NEW y, y = RowAt(u, i)', y # NoRow
        PROVE  BalAt(u, y.acct)' # Gone /\ mate'[i] # Unborn
    <3>1. y = RowAt(t, i) /\ y.acct \in Accounts
      BY <1>2, <2>1
    <3>. QED  BY <1>1, <2>1, <3>1 DEF Whole
  <2>2. ASSUME Whole(t), NEW a \in Accounts, BalAt(u, a)' # Gone
        PROVE  opening'[a] # Unborn
    BY <1>1, <2>2 DEF Whole
  <2>. QED  BY <2>1, <2>2 DEF Whole
<1>4. ASSUME NEW a \in Accounts
      PROVE  SumAt(u, a)' = SumAt(t, a)
  <2>1. RowsOf(u, a)' = RowsOf(t, a)
    BY DEF RowsOf
  <2>2. {<<i, RowAt(u, i).amt>> : i \in RowsOf(u, a)}' = {<<i, RowAt(t, i).amt>> : i \in RowsOf(t, a)}
    BY <2>1 DEF RowsOf
  <2>. QED  BY <2>2, Zenon DEF SumAt, SumOf
<1>. QED  BY <1>3, <1>4

LEMMA BeginPaid ==
    ASSUME OneRequest, IInv, BInv, NEW r \in Requests, BeginTransaction(r)
    PROVE  BInv'
<1>. PICK c \in Clients : CheckOut(r, c) /\ \E p : GoOn(r, c, Tail(req[r].todo), p)
  BY DEF BeginTransaction
<1>1. PICK p : CheckOut(r, c) /\ GoOn(r, c, Tail(req[r].todo), p)
  OBVIOUS
<1>2. req[r].todo # <<>> /\ Call(r).q = "begin" /\ SameIds
  BY DEF BeginTransaction, At
<1>. SUFFICES ASSUME NEW old, old = req[r].todo, NEW rest, rest = Tail(old)
              PROVE  BInv'
  BY Zenon
<1>3. /\ old \in Seq(Calls) /\ rest \in Seq(Calls) /\ old # <<>>
      /\ req'[r].todo = rest /\ req'[r].own = c /\ req'[r].err = FALSE
  BY <1>1, <1>2, HeadIsCall DEF GoOn, IInv, TypeOK
<1>4. /\ \A k \in 1..Len(rest) : k + 1 \in 1..Len(old) /\ rest[k] = old[k + 1]
      /\ \A k \in 0..Len(rest) : Later(rest, k) = Later(old, k + 1)
      /\ 1 \in 1..Len(old) /\ old[1] = Call(r)
  BY <1>2, <1>3, LaterTail DEF Call
<1>5. /\ req[r].own = Pool
      /\ \A k \in 1..Len(rest) : rest[k] \in InnerCalls
  <2>1. req[r].own = Pool /\ \A l \in 1..Len(old) : l # 1 => old[l].q # "begin"
    BY <1>2, <1>4 DEF IInv, BeginsOnce
  <2>2. \A k \in 1..Len(rest) : k + 1 # 1 /\ rest[k] \in Calls
    BY <1>3
  <2>. QED  BY <1>4, <2>1, <2>2, CallFields, Zenon
<1>6. /\ \A i \in Txns : RowAt(c, i)' = RowAt(Pool, i)
      /\ \A a \in Accounts : BalAt(c, a)' = BalAt(Pool, a)
  <2>1. tx[c] = Autocommit /\ tx \in [Clients -> Session]
    BY <1>1 DEF CheckOut, IInv, PoolDiscipline, TypeOK, DbTypeOK
  <2>2. /\ row' = row /\ bal' = bal
        /\ tx'[c].row = NoRows /\ tx'[c].bal = NoBalances
    BY <1>1, <2>1 DEF CheckOut, Autocommit
  <2>. QED  BY <2>2, TargetsDiffer DEF RowAt, BalAt, NoRows, NoBalances
<1>7. UNCHANGED <<mate, opening>>
  BY <1>2 DEF SameIds
<1>8. Whole(c)' /\ \A a \in Accounts : SumAt(c, a)' = SumAt(Pool, a)
  BY <1>6, <1>7, MovedBooks, Zenon DEF BInv, IInv
<1>9. \A a \in Accounts : BalAt(Pool, a) # Gone => BalAt(Pool, a) = SumAt(Pool, a)
  BY LaterShort DEF BInv, Owing, Saved
<1>10. ASSUME NEW k \in 1..Len(rest)
       PROVE  Fit(c, rest[k], Later(rest, k), k)'
  <2>1. /\ k + 1 \in 1..Len(old) /\ rest[k] = old[k + 1] /\ Later(rest, k) = Later(old, k + 1)
        /\ k + 1 # 1
    BY <1>3, <1>4
  <2>2. Fit(Pool, old[k + 1], Later(old, k + 1), k + 1)
    BY <1>2, <1>5, <2>1, HeadIsFit DEF Paying, AllFit
  <2>3. Fit(Pool, rest[k], Later(rest, k), 2)
    BY <2>1, <2>2 DEF Fit, FitPut, FitSave
  <2>4. Fit(c, rest[k], Later(rest, k), 2)'
    BY <1>5, <1>6, <1>7, <2>3, MovedFits
  <2>. QED  BY <2>4, FirstTooThen
<1>11. Paying(r)'
  <2>1. Whole(req[r].own)'
    BY <1>3, <1>8 DEF Whole
  <2>2. Owing(req[r].own, req[r].todo)'
    BY <1>3, <1>6, <1>8, <1>9 DEF Owing
  <2>3. AllFit(req[r].own, req[r].todo)'
    BY <1>3, <1>10 DEF AllFit
  <2>. QED  BY <1>3, <2>1, <2>2, <2>3, TargetsDiffer DEF Paying
<1>12. Whole(Pool)' /\ Owing(Pool, <<>>)'
  BY <1>1, <1>7, PoolStaysPaid DEF CheckOut
<1>. QED  BY <1>11, <1>12, PaidInAll

LEMMA IdlePaid ==
    ASSUME OneRequest, IInv, NEW r \in Requests, NEW p, GoOn(r, Pool, <<>>, p),
           Whole(Pool)', Owing(Pool, <<>>)'
    PROVE  BInv'
<1>1. req'[r].own = Pool /\ req'[r].todo = <<>> /\ Len(<<>>) = 0 /\ 1..0 = {}
  BY DEF GoOn, IInv, TypeOK
<1>2. Whole(req[r].own)' /\ Owing(req[r].own, req[r].todo)'
  BY <1>1 DEF Whole, Owing
<1>3. AllFit(req[r].own, req[r].todo)' /\ AllNeutral(req[r].own, req[r].todo)'
  BY <1>1 DEF AllFit, AllNeutral
<1>. QED  BY <1>2, <1>3, PaidInAll DEF Paying

LEMMA CommitPaid ==
    ASSUME OneRequest, IInv, AInv, BInv, NEW r \in Requests, Commit(r)
    PROVE  BInv'
<1>. SUFFICES ASSUME NEW c, c = req[r].own
              PROVE  BInv'
  OBVIOUS
<1>1. /\ c \in Clients /\ c # Pool /\ ~req[r].err /\ req[r].todo = <<>>
      /\ tx[c].state = "open" /\ SameIds
  BY DEF Commit, Otherwise, AInv, Steady, IInv, TypeOK, ReqType
<1>2. row' = Over(row, tx[c].row) /\ bal' = Over(bal, tx[c].bal)
  BY <1>1 DEF Commit, CommitAndRelease
<1>3. /\ \A i \in Txns : RowAt(Pool, i)' = RowAt(c, i)
      /\ \A a \in Accounts : BalAt(Pool, a)' = BalAt(c, a)
  BY <1>1, <1>2, TargetsDiffer DEF RowAt, BalAt, Over, IInv, TypeOK, DbTypeOK
<1>4. UNCHANGED <<mate, opening>>
  BY <1>1 DEF SameIds
<1>5. Whole(c) /\ Owing(c, <<>>)
  BY <1>1 DEF BInv, Paying
<1>6. Whole(Pool)' /\ \A a \in Accounts : SumAt(Pool, a)' = SumAt(c, a)
  BY <1>3, <1>4, <1>5, MovedBooks, Zenon DEF IInv
<1>7. Owing(Pool, <<>>)'
  BY <1>3, <1>5, <1>6 DEF Owing, Saved, Later
<1>. QED  BY <1>6, <1>7, IdlePaid DEF Commit

LEMMA RollbackPaid ==
    ASSUME OneRequest, IInv, BInv, NEW r \in Requests, Rollback(r)
    PROVE  BInv'
<1>1. UNCHANGED <<row, bal, mate, opening>>
  BY DEF Rollback, RollBackAndRelease, Otherwise, SameIds
<1>2. Whole(Pool)' /\ Owing(Pool, <<>>)'
  BY <1>1, PoolStaysPaid
<1>. QED  BY <1>2, IdlePaid DEF Rollback

-----------------------------------------------------------------------------
(* Requests are accepted.                                                  *)

Born == {i \in Txns : mate[i] # Unborn}
Known == {a \in Accounts : opening[a] # Unborn}

\* Call c, followed by the calls A, inserts what has been given its id in this step.
InsertsNew(c, A) ==
    /\ c.q = "insert" /\ RowAt(Pool, c.id) = NoRow /\ c.id \in Born' /\ Saved(A, c.row.acct)
    /\ \A d \in A : Leaves(d, c.id, c.row)
OpensNew(c, A) ==
    /\ c.q = "newacc" /\ BalAt(Pool, c.acct) = Gone /\ c.acct \in Known'
    /\ c.bal = SumOf({}) \/ Saved(A, c.acct)
    /\ \A d \in A : d.q # "newacc"

Suits(calls) ==
    \A k \in 1..Len(calls) :
        \/ Fit(Pool, calls[k], Later(calls, k), k)
        \/ InsertsNew(calls[k], Later(calls, k))
        \/ OpensNew(calls[k], Later(calls, k))

LEMMA SuitsFit ==
    ASSUME UNCHANGED <<row, bal, tx>>, Born \subseteq Born', Known \subseteq Known', NEW calls \in Seq(Calls),
           Suits(calls), NEW k \in 1..Len(calls), NEW c, c = calls[k], NEW A, A = Later(calls, k)
    PROVE  Fit(Pool, c, A, k)'
<1>1. /\ \A i : RowAt(Pool, i)' = RowAt(Pool, i)
      /\ \A a : BalAt(Pool, a)' = BalAt(Pool, a)
      /\ \A a : SumAt(Pool, a)' = SumAt(Pool, a)
  BY DEF RowAt, BalAt, SumAt, RowsOf
<1>2. /\ c.q = "insert" => c.id \in Txns
      /\ c.q = "newacc" => c.acct \in Accounts
  <2>1. c \in Calls
    OBVIOUS
  <2>. QED  BY <2>1, BeginIsCall, StatementFields DEF Calls
<1>3. \A i \in Txns : mate[i] # Unborn => mate'[i] # Unborn
  BY DEF Born
<1>4. \A a \in Accounts : opening[a] # Unborn => opening'[a] # Unborn
  BY DEF Known
<1>5. CASE Fit(Pool, c, A, k)
  <2>1. FitInsert(Pool, c, A)'
    BY <1>1, <1>2, <1>3, <1>5 DEF Fit, FitInsert, Saved, Saves, Leaves, SameMoney
  <2>2. FitPut(Pool, c, A, k)'
    BY <1>1, <1>5 DEF Fit, FitPut, SameMoney, Saved, Saves
  <2>3. FitRemove(Pool, c, A)'
    BY <1>1, <1>5 DEF Fit, FitRemove, Saved, Saves
  <2>4. FitFind(Pool, c, A)'
    BY <1>1, <1>5 DEF Fit, FitFind, SameMoney
  <2>5. FitNew(Pool, c, A)'
    BY <1>1, <1>2, <1>4, <1>5 DEF Fit, FitNew, Saved, Saves, SumOf
  <2>6. FitSave(Pool, c, k)'
    BY <1>1, <1>5 DEF Fit, FitSave
  <2>. QED  BY <2>1, <2>2, <2>3, <2>4, <2>5, <2>6 DEF Fit
<1>6. CASE InsertsNew(c, A)
  BY <1>1, <1>6 DEF InsertsNew, Born, Fit, FitInsert, FitPut, FitRemove, FitFind, FitNew, FitSave
<1>7. CASE OpensNew(c, A)
  BY <1>1, <1>7 DEF OpensNew, Known, Fit, FitInsert, FitPut, FitRemove, FitFind, FitNew, FitSave
<1>. QED  BY <1>5, <1>6, <1>7 DEF Suits

LEMMA AcceptPaid ==
    ASSUME OneRequest, IInv, BInv, NEW r \in Requests, NEW route, NEW calls \in Seq(Calls),
           Accept(r, route, calls), Born \subseteq Born', Known \subseteq Known',
           Suits(calls), AllNeutral(Pool, calls)
    PROVE  BInv'
<1>1. /\ req'[r].todo = calls /\ req'[r].own = Pool
      /\ UNCHANGED <<row, bal, tx>>
  BY DEF Accept, GoOn, dbVars, IInv, TypeOK
<1>2. /\ \A i : RowAt(Pool, i)' = RowAt(Pool, i)
      /\ \A a : BalAt(Pool, a)' = BalAt(Pool, a)
      /\ \A a : SumAt(Pool, a)' = SumAt(Pool, a)
  BY <1>1 DEF RowAt, BalAt, SumAt, RowsOf
<1>3. Whole(Pool)'
  <2>1. /\ \A i \in Txns : mate[i] # Unborn => mate'[i] # Unborn
        /\ \A a \in Accounts : opening[a] # Unborn => opening'[a] # Unborn
    BY DEF Born, Known
  <2>. QED  BY <1>2, <2>1 DEF BInv, Whole
<1>4. \A a \in Accounts : BalAt(Pool, a)' # Gone => BalAt(Pool, a)' = SumAt(Pool, a)'
  BY <1>2, LaterShort DEF BInv, Owing, Saved
<1>5. Owing(Pool, <<>>)' /\ Owing(req[r].own, req[r].todo)'
  BY <1>1, <1>4 DEF Owing
<1>6. AllFit(req[r].own, req[r].todo)'
  BY <1>1, SuitsFit DEF AllFit
<1>7. AllNeutral(req[r].own, req[r].todo)'
  BY <1>1, <1>2 DEF AllNeutral, Neutral, SameMoney
<1>8. Whole(req[r].own)'
  BY <1>1, <1>3 DEF Whole
<1>9. Paying(r)'
  BY <1>5, <1>6, <1>7, <1>8 DEF Paying
<1>. QED  BY <1>3, <1>5, <1>9, PaidInAll

\* The calls of the methods that start with a transaction, or have none.
LEMMA NeutralLists ==
    ASSUME NEW calls
    PROVE  /\ Len(calls) \in Nat /\ calls[1].q = "begin" => AllNeutral(Pool, calls)
           /\ (\A k \in 1..Len(calls) : Neutral(Pool, calls[k])) => AllNeutral(Pool, calls)
BY DEF AllNeutral

LEMMA CreateSuits ==
    ASSUME NEW i \in Txns, NEW a \in Accounts, NEW m \in Amounts, NEW links \in SUBSET Txns,
           NEW calls, calls = CreateTransaction(i, a, m, links),
           RowAt(Pool, i) = NoRow, i \in Born'
    PROVE  Suits(calls) /\ AllNeutral(Pool, calls)
<1>. SUFFICES ASSUME NEW b, b = Begin({"trx", "acc"}), NEW n, n = Insert(i, NewRow(a, m, links), "trx"),
                     NEW s, s = SaveBalance(a), NEW e, e = ForEach(links, "linkBack", i)
              PROVE  Suits(calls) /\ AllNeutral(Pool, calls)
  OBVIOUS
<1>1. calls = <<b, n, s, e>>
  BY DEF CreateTransaction
<1>2. /\ b.q = "begin" /\ n.q = "insert" /\ n.id = i /\ n.row.acct = a
      /\ s.q = "lookup" /\ s.acct = a /\ s.use = "acc" /\ s.fresh /\ e.q = "each"
  BY DEF Begin, Insert, NewRow, SaveBalance, Stats, ForEach
<1>3. /\ Len(calls) = 4 /\ \A k \in 1..4 : k = 1 \/ k = 2 \/ k = 3 \/ k = 4
      /\ calls[1] = b /\ calls[2] = n /\ calls[3] = s /\ calls[4] = e
      /\ Later(calls, 2) = {s, e}
  BY <1>1, LaterThreeFour
<1>4. \A A, k : Fit(Pool, b, A, k) /\ Fit(Pool, s, A, k) /\ Fit(Pool, e, A, k)
  BY <1>2, PlainFits
<1>5. InsertsNew(n, {s, e})
  BY <1>2 DEF InsertsNew, Saved, Saves, Leaves, Repos
<1>6. ASSUME NEW k \in 1..4
      PROVE  Fit(Pool, calls[k], Later(calls, k), k) \/ InsertsNew(calls[k], Later(calls, k))
  <2>1. CASE k = 2
    BY <1>3, <1>5, <2>1
  <2>2. CASE k # 2
    BY <1>3, <1>4, <2>2
  <2>. QED  BY <2>1, <2>2
<1>7. Suits(calls)
  BY <1>3, <1>6 DEF Suits
<1>8. AllNeutral(Pool, calls)
  BY <1>2, <1>3, NeutralLists
<1>. QED  BY <1>7, <1>8

\* The methods that read a row first, and getAccountStats.
LEMMA ReadersSuit ==
    ASSUME NEW i, NEW j, NEW e, NEW a
    PROVE  /\ Suits(UpdateTransaction(i, e)) /\ AllNeutral(Pool, UpdateTransaction(i, e))
           /\ Suits(DeleteTransaction(i)) /\ AllNeutral(Pool, DeleteTransaction(i))
           /\ Suits(LinkTransaction(i, j)) /\ AllNeutral(Pool, LinkTransaction(i, j))
           /\ Suits(UnlinkTransaction(i, j)) /\ AllNeutral(Pool, UnlinkTransaction(i, j))
           /\ Suits(GetAccountStats(a)) /\ AllNeutral(Pool, GetAccountStats(a))
           /\ Suits(UpdateAccount(a, "rename")) /\ AllNeutral(Pool, UpdateAccount(a, "rename"))
           /\ Suits(DeleteAccount(a)) /\ AllNeutral(Pool, DeleteAccount(a))
<1>1. ASSUME NEW c, Fit(Pool, c, {}, 1), Neutral(Pool, c)
      PROVE  Suits(<<c>>) /\ AllNeutral(Pool, <<c>>)
  <2>1. Len(<<c>>) = 1 /\ Later(<<c>>, 1) = {} /\ <<c>>[1] = c /\ \A k \in 1..1 : k = 1
    BY LaterShort
  <2>. QED  BY <1>1, <2>1, NeutralLists DEF Suits
<1>2. ASSUME NEW b, NEW c, b.q = "begin", Fit(Pool, c, {}, 2)
      PROVE  Suits(<<b, c>>) /\ AllNeutral(Pool, <<b, c>>)
  <2>1. /\ Len(<<b, c>>) = 2 /\ Later(<<b, c>>, 2) = {} /\ <<b, c>>[1] = b /\ <<b, c>>[2] = c
        /\ \A k \in 1..2 : k = 1 \/ k = 2
    BY LaterShort
  <2>2. \A A, k : Fit(Pool, b, A, k)
    BY <1>2, PlainFits
  <2>. QED  BY <1>2, <2>1, <2>2, NeutralLists, Zenon DEF Suits
<1>. SUFFICES ASSUME NEW b, b = Begin({"trx", "acc"}), NEW fe, fe = Find(i, "edit", e), NEW fd, fd = Find(i, "delete", i),
                     NEW fl, fl = Find(i, "linkFrom", j), NEW fu, fu = Find(i, "unlinkFrom", j),
                     NEW s, s = Stats(a, "trx", FALSE, "show"),
                     NEW ar, ar = FindAccount(a, "pool", "rename"), NEW ad, ad = FindAccount(a, "pool", "delete")
              PROVE  /\ Suits(<<b, fe>>) /\ AllNeutral(Pool, <<b, fe>>)
                     /\ Suits(<<b, fd>>) /\ AllNeutral(Pool, <<b, fd>>)
                     /\ Suits(<<fl>>) /\ AllNeutral(Pool, <<fl>>)
                     /\ Suits(<<fu>>) /\ AllNeutral(Pool, <<fu>>)
                     /\ Suits(<<s>>) /\ AllNeutral(Pool, <<s>>)
                     /\ Suits(<<ar>>) /\ AllNeutral(Pool, <<ar>>)
                     /\ Suits(<<ad>>) /\ AllNeutral(Pool, <<ad>>)
  BY Zenon DEF UpdateTransaction, DeleteTransaction, LinkTransaction, UnlinkTransaction, GetAccountStats,
         UpdateAccount, DeleteAccount
<1>3. /\ b.q = "begin" /\ fe.q = "find" /\ fe.how = "edit" /\ fd.q = "find" /\ fd.how = "delete"
      /\ fl.q = "find" /\ fl.how = "linkFrom" /\ fu.q = "find" /\ fu.how = "unlinkFrom"
      /\ s.q = "lookup" /\ s.use = "show" /\ "show" \notin Repos
      /\ ar.q = "findacc" /\ ar.use = "rename" /\ ad.q = "findacc" /\ ad.use = "delete"
  BY DEF Begin, Find, Stats, FindAccount, Repos
<1>4. Fit(Pool, fe, {}, 2)
  BY <1>3 DEF Fit, FitInsert, FitPut, FitRemove, FitFind, FitNew, FitSave
<1>5. Fit(Pool, fd, {}, 2) /\ Fit(Pool, fl, {}, 1) /\ Fit(Pool, fu, {}, 1)
  BY <1>3, PlainFits
<1>6. Fit(Pool, s, {}, 1) /\ Fit(Pool, ar, {}, 1) /\ Fit(Pool, ad, {}, 1)
  BY <1>3, PlainFits, Zenon
<1>7. Neutral(Pool, fl) /\ Neutral(Pool, fu)
  BY <1>3, PlainFits
<1>8. Neutral(Pool, s) /\ Neutral(Pool, ar) /\ Neutral(Pool, ad)
  BY <1>3, PlainFits, Zenon
<1>. QED  BY <1>1, <1>2, <1>3, <1>4, <1>5, <1>6, <1>7, <1>8, Zenon

LEMMA TransferSuits ==
    ASSUME NEW w \in Txns, NEW d \in Txns, w # d, NEW from \in Accounts, NEW to \in Accounts,
           NEW m \in Amounts, NEW n \in Amounts,
           RowAt(Pool, w) = NoRow, RowAt(Pool, d) = NoRow, w \in Born', d \in Born',
           NEW calls, calls = Transfer(w, d, from, to, m, n)
    PROVE  Suits(calls) /\ AllNeutral(Pool, calls)
<1>. SUFFICES ASSUME NEW f, f = FindAccount(from, "acc", "exists"), NEW g, g = FindAccount(to, "acc", "exists"),
                     NEW s, s = Stats(from, "trx", FALSE, "check"), NEW b, b = Begin({"trx", "acc"}),
                     NEW x, x = Insert(w, NewRow(from, m, {}), "trx"), NEW y, y = Insert(d, NewRow(to, n, {w}), "trx"),
                     NEW p, p = Put(w, NewRow(from, m, {d})), NEW u, u = SaveBalance(from), NEW v, v = SaveBalance(to)
              PROVE  Suits(calls) /\ AllNeutral(Pool, calls)
  BY Zenon
<1>1. calls = <<f, g, s, b, x, y, p, u, v>>
  BY DEF Transfer
<1>2. /\ f.q = "findacc" /\ f.use = "exists" /\ g.q = "findacc" /\ g.use = "exists"
      /\ s.q = "lookup" /\ s.use = "check" /\ "check" \notin Repos /\ b.q = "begin"
      /\ x.q = "insert" /\ x.id = w /\ x.row.acct = from /\ x.row.amt = m
      /\ y.q = "insert" /\ y.id = d /\ y.row.acct = to
      /\ p.q = "put" /\ p.id = w /\ p.row.acct = from /\ p.row.amt = m
      /\ u.q = "lookup" /\ u.acct = from /\ u.use = "acc" /\ u.fresh
      /\ v.q = "lookup" /\ v.acct = to /\ v.use = "acc" /\ v.fresh
  BY DEF FindAccount, Stats, Begin, Insert, Put, NewRow, SaveBalance, Repos
<1>3. /\ Len(calls) = 9
      /\ \A k \in 1..9 : k = 1 \/ k = 2 \/ k = 3 \/ k = 4 \/ k = 5 \/ k = 6 \/ k = 7 \/ k = 8 \/ k = 9
      /\ calls[1] = f /\ calls[2] = g /\ calls[3] = s /\ calls[4] = b /\ calls[5] = x
      /\ calls[6] = y /\ calls[7] = p /\ calls[8] = u /\ calls[9] = v
  BY <1>1
<1>4. Later(calls, 5) = {y, p, u, v} /\ Later(calls, 6) = {p, u, v}
  <2>1. /\ 6..9 = {6, 7, 8, 9} /\ 7..9 = {7, 8, 9} /\ 5 + 1 = 6 /\ 6 + 1 = 7
    OBVIOUS
  <2>2. /\ Later(calls, 5) = {calls[l] : l \in 6..9}
        /\ Later(calls, 6) = {calls[l] : l \in 7..9}
    BY <1>3, <2>1 DEF Later
  <2>3. /\ {calls[l] : l \in {6, 7, 8, 9}} = {calls[6], calls[7], calls[8], calls[9]}
        /\ {calls[l] : l \in {7, 8, 9}} = {calls[7], calls[8], calls[9]}
    OBVIOUS
  <2>. QED  BY <1>3, <2>1, <2>2, <2>3, Zenon
<1>5. ASSUME NEW A, NEW k
      PROVE  \A c \in {f, g, s, b, u, v} : Fit(Pool, c, A, k)
  <2>1. Fit(Pool, f, A, k) /\ Fit(Pool, g, A, k) /\ Fit(Pool, b, A, k)
    BY <1>2, PlainFits
  <2>2. Fit(Pool, s, A, k) /\ Fit(Pool, u, A, k) /\ Fit(Pool, v, A, k)
    BY <1>2, PlainFits, Zenon
  <2>. QED  BY <2>1, <2>2, Zenon
<1>6. \A A, k : Fit(Pool, p, A, k)
  BY <1>2, PlainFits
<1>7. InsertsNew(x, {y, p, u, v})
  BY <1>2 DEF InsertsNew, Saved, Saves, Leaves, SameMoney, Repos
<1>8. InsertsNew(y, {p, u, v})
  BY <1>2 DEF InsertsNew, Saved, Saves, Leaves, SameMoney, Repos
<1>9. Suits(calls)
  <2>. SUFFICES ASSUME NEW k \in 1..9
                PROVE  \/ Fit(Pool, calls[k], Later(calls, k), k)
                       \/ InsertsNew(calls[k], Later(calls, k))
    BY <1>3 DEF Suits
  <2>1. CASE k = 5
    BY <1>3, <1>4, <1>7, <2>1, Zenon
  <2>2. CASE k = 6
    BY <1>3, <1>4, <1>8, <2>2, Zenon
  <2>3. CASE k # 5 /\ k # 6
    <3>1. calls[k] \in {f, g, s, b, u, v} \/ calls[k] = p
      BY <1>3, <2>3, Zenon
    <3>. QED  BY <1>5, <1>6, <3>1, Zenon
  <2>. QED  BY <2>1, <2>2, <2>3
<1>10. AllNeutral(Pool, calls)
  <2>1. Neutral(Pool, f) /\ Neutral(Pool, g)
    BY <1>2, PlainFits
  <2>2. Neutral(Pool, s)
    BY <1>2, Zenon DEF Neutral
  <2>3. ASSUME NEW k \in 1..9
        PROVE  Neutral(Pool, calls[k]) \/ 4 \in 1..k
    <3>1. CASE k < 4
      <4>1. k = 1 \/ k = 2 \/ k = 3
        BY <3>1
      <4>. QED  BY <1>3, <2>1, <2>2, <4>1, Zenon
    <3>. QED  BY <3>1
  <2>. QED  BY <1>2, <1>3, <2>3 DEF AllNeutral
<1>. QED  BY <1>9, <1>10

LEMMA NewAccountSuits ==
    ASSUME NEW a \in Accounts, BalAt(Pool, a) = Gone, a \in Known'
    PROVE  /\ \A i \in Txns, m \in Amounts :
                 RowAt(Pool, i) = NoRow /\ i \in Born'
                 => Suits(CreateAccount(a, i, m)) /\ AllNeutral(Pool, CreateAccount(a, i, m))
           /\ Suits(CreateEmptyAccount(a)) /\ AllNeutral(Pool, CreateEmptyAccount(a))
<1>1. ASSUME NEW i \in Txns, NEW m \in Amounts, RowAt(Pool, i) = NoRow, i \in Born',
             NEW calls, calls = CreateAccount(a, i, m)
      PROVE  Suits(calls) /\ AllNeutral(Pool, calls)
  <2>. SUFFICES ASSUME NEW n, n = CountAccounts, NEW b, b = Begin({"ctl"}), NEW x, x = NewAccount(a, SumOf({<<i, m>>})),
                       NEW p, p = Aim({"ctl"}), NEW y, y = Insert(i, NewRow(a, m, {}), "own"),
                       NEW s, s = Stats(a, "own", TRUE, "ctl")
                PROVE  Suits(calls) /\ AllNeutral(Pool, calls)
    BY Zenon
  <2>1. calls = <<n, b, x, p, y, s>>
    BY <1>1 DEF CreateAccount
  <2>2. /\ n.q = "count" /\ b.q = "begin" /\ x.q = "newacc" /\ x.acct = a /\ p.q = "aim"
        /\ y.q = "insert" /\ y.id = i /\ y.row.acct = a
        /\ s.q = "lookup" /\ s.acct = a /\ s.use = "ctl" /\ s.fresh
    BY DEF CountAccounts, Begin, NewAccount, Aim, Insert, NewRow, Stats
  <2>3. /\ Len(calls) = 6
        /\ \A k \in 1..6 : k = 1 \/ k = 2 \/ k = 3 \/ k = 4 \/ k = 5 \/ k = 6
        /\ calls[1] = n /\ calls[2] = b /\ calls[3] = x /\ calls[4] = p /\ calls[5] = y /\ calls[6] = s
    BY <2>1
  <2>4. Later(calls, 3) = {p, y, s} /\ Later(calls, 5) = {s}
    <3>1. 4..6 = {4, 5, 6} /\ 6..6 = {6} /\ 3 + 1 = 4 /\ 5 + 1 = 6
      OBVIOUS
    <3>. QED  BY <2>3, <3>1, Zenon DEF Later
  <2>5. ASSUME NEW A, NEW k
        PROVE  Fit(Pool, n, A, k) /\ Fit(Pool, b, A, k) /\ Fit(Pool, p, A, k) /\ Fit(Pool, s, A, k)
    BY <2>2, PlainFits, Zenon
  <2>6. OpensNew(x, {p, y, s})
    BY <2>2, Zenon DEF OpensNew, Saved, Saves, Repos
  <2>7. InsertsNew(y, {s})
    BY <1>1, <2>2, Zenon DEF InsertsNew, Saved, Saves, Leaves, Repos
  <2>8. Suits(calls)
    <3>. SUFFICES ASSUME NEW k \in 1..6
                  PROVE  \/ Fit(Pool, calls[k], Later(calls, k), k)
                         \/ InsertsNew(calls[k], Later(calls, k))
                         \/ OpensNew(calls[k], Later(calls, k))
      BY <2>3 DEF Suits
    <3>1. CASE k = 3
      BY <2>3, <2>4, <2>6, <3>1, Zenon
    <3>2. CASE k = 5
      BY <2>3, <2>4, <2>7, <3>2, Zenon
    <3>3. CASE k # 3 /\ k # 5
      BY <2>3, <2>5, <3>3, Zenon
    <3>. QED  BY <3>1, <3>2, <3>3
  <2>9. AllNeutral(Pool, calls)
    <3>1. Neutral(Pool, n)
      BY <2>2, PlainFits
    <3>2. \A k \in 1..6 : Neutral(Pool, calls[k]) \/ 2 \in 1..k
      BY <2>3, <3>1
    <3>. QED  BY <2>2, <2>3, <3>2 DEF AllNeutral
  <2>. QED  BY <2>8, <2>9
<1>2. ASSUME NEW calls, calls = CreateEmptyAccount(a)
      PROVE  Suits(calls) /\ AllNeutral(Pool, calls)
  <2>. SUFFICES ASSUME NEW n, n = CountAccounts, NEW b, b = Begin({"ctl"}), NEW x, x = NewAccount(a, SumOf({}))
                PROVE  Suits(calls) /\ AllNeutral(Pool, calls)
    OBVIOUS
  <2>1. calls = <<n, b, x>>
    BY <1>2 DEF CreateEmptyAccount
  <2>2. n.q = "count" /\ b.q = "begin" /\ x.q = "newacc" /\ x.acct = a /\ x.bal = SumOf({})
    BY DEF CountAccounts, Begin, NewAccount
  <2>3. /\ Len(calls) = 3 /\ \A k \in 1..3 : k = 1 \/ k = 2 \/ k = 3
        /\ calls[1] = n /\ calls[2] = b /\ calls[3] = x /\ Later(calls, 3) = {}
    BY <2>1, LaterThreeFour
  <2>4. \A A, k : Fit(Pool, n, A, k) /\ Fit(Pool, b, A, k)
    BY <2>2, PlainFits
  <2>5. OpensNew(x, {})
    BY <2>2 DEF OpensNew
  <2>6. Suits(calls)
    BY <2>3, <2>4, <2>5 DEF Suits
  <2>7. AllNeutral(Pool, calls)
    <3>1. Neutral(Pool, n)
      BY <2>2, PlainFits
    <3>2. \A k \in 1..3 : Neutral(Pool, calls[k]) \/ 2 \in 1..k
      BY <2>3, <3>1
    <3>. QED  BY <2>2, <2>3, <3>2 DEF AllNeutral
  <2>. QED  BY <2>6, <2>7
<1>. QED  BY <1>1, <1>2

\* What has not been given an id is not there.
LEMMA UnbornIsNoRow ==
    ASSUME BInv
    PROVE  /\ \A i \in Txns : mate[i] = Unborn => RowAt(Pool, i) = NoRow
           /\ \A a \in Accounts : opening[a] = Unborn => BalAt(Pool, a) = Gone
BY DEF BInv, Whole

LEMMA GrowsOnly ==
    ASSUME IInv
    PROVE  /\ SameIds => Born \subseteq Born' /\ Known \subseteq Known'
           /\ \A i \in Txns : Bear(i) => Born \subseteq Born' /\ i \in Born'
           /\ UNCHANGED opening => Known \subseteq Known'
           /\ UNCHANGED mate => Born \subseteq Born'
           /\ \A w, d \in Txns : w # d /\ mate' = [mate EXCEPT ![w] = d, ![d] = w]
                                 => Born \subseteq Born' /\ w \in Born' /\ d \in Born'
           /\ \A a \in Accounts : \A i \in Txns \cup {Single} :
                 opening' = [opening EXCEPT ![a] = i] => Known \subseteq Known' /\ a \in Known'
<1>1. /\ mate \in [Txns -> Txns \cup {Unborn, Single}]
      /\ opening \in [Accounts -> Txns \cup {Unborn, Single}]
      /\ Unborn # Single /\ Unborn \notin Txns
  BY LedgerConstants DEF IInv, TypeOK
<1>2. ASSUME SameIds
      PROVE  Born \subseteq Born' /\ Known \subseteq Known'
  BY <1>2 DEF SameIds, Born, Known
<1>3. ASSUME NEW i \in Txns, Bear(i)
      PROVE  Born \subseteq Born' /\ i \in Born'
  BY <1>1, <1>3 DEF Bear, Born
<1>4. UNCHANGED opening => Known \subseteq Known'
  BY DEF Known
<1>5. UNCHANGED mate => Born \subseteq Born'
  BY DEF Born
<1>6. ASSUME NEW w \in Txns, NEW d \in Txns, mate' = [mate EXCEPT ![w] = d, ![d] = w]
      PROVE  Born \subseteq Born' /\ w \in Born' /\ d \in Born'
  BY <1>1, <1>6 DEF Born
<1>7. ASSUME NEW a \in Accounts, NEW i \in Txns \cup {Single}, opening' = [opening EXCEPT ![a] = i]
      PROVE  Known \subseteq Known' /\ a \in Known'
  BY <1>1, <1>7 DEF Known
<1>. QED  BY <1>2, <1>3, <1>4, <1>5, <1>6, <1>7

LEMMA AcceptRequestPaid ==
    ASSUME OneRequest, NothingTyped, IInv, BInv, NEW r \in Requests, AcceptRequest(r)
    PROVE  BInv'
<1>1. CASE AcceptCreate(r)
  <2>1. PICK i \in Txns, a \in Accounts, m \in Amounts, links \in SUBSET Txns :
           Bear(i) /\ UNCHANGED opening /\ Accept(r, "create", CreateTransaction(i, a, m, links))
    BY <1>1 DEF AcceptCreate
  <2>2. RowAt(Pool, i) = NoRow /\ i \in Born' /\ Born \subseteq Born' /\ Known \subseteq Known'
    BY <2>1, UnbornIsNoRow, GrowsOnly, Zenon DEF Bear
  <2>3. CreateTransaction(i, a, m, links) \in Seq(Calls)
    BY RowPrograms DEF Program
  <2>. QED  BY <2>1, <2>2, <2>3, CreateSuits, AcceptPaid
<1>2. CASE AcceptUpdate(r)
  <2>1. PICK i \in Txns, e \in Edits : Accept(r, "update", UpdateTransaction(i, e)) /\ SameIds
    BY <1>2 DEF AcceptUpdate
  <2>2. UpdateTransaction(i, e) \in Seq(Calls)
    BY RowPrograms DEF Program
  <2>. QED  BY <2>1, <2>2, ReadersSuit, GrowsOnly, AcceptPaid
<1>3. CASE AcceptDelete(r)
  <2>1. PICK i \in Txns : Accept(r, "delete", DeleteTransaction(i)) /\ SameIds
    BY <1>3 DEF AcceptDelete
  <2>2. DeleteTransaction(i) \in Seq(Calls)
    BY RowPrograms DEF Program
  <2>. QED  BY <2>1, <2>2, ReadersSuit, GrowsOnly, AcceptPaid
<1>4. CASE AcceptLink(r)
  <2>1. PICK i \in Txns, j \in Txns : Accept(r, "link", LinkTransaction(i, j)) /\ SameIds
    BY <1>4 DEF AcceptLink
  <2>2. LinkTransaction(i, j) \in Seq(Calls)
    BY RowPrograms DEF Program
  <2>. QED  BY <2>1, <2>2, ReadersSuit, GrowsOnly, AcceptPaid
<1>5. CASE AcceptUnlink(r)
  <2>1. PICK i \in Txns, j \in Txns : Accept(r, "unlink", UnlinkTransaction(i, j)) /\ SameIds
    BY <1>5 DEF AcceptUnlink
  <2>2. UnlinkTransaction(i, j) \in Seq(Calls)
    BY RowPrograms DEF Program
  <2>. QED  BY <2>1, <2>2, ReadersSuit, GrowsOnly, AcceptPaid
<1>6. CASE AcceptTransfer(r)
  <2>1. PICK w \in Txns, d \in Txns, from \in Accounts, to \in Accounts, m \in Amounts, n \in Amounts :
           /\ w # d /\ mate[w] = Unborn /\ mate[d] = Unborn
           /\ mate' = [mate EXCEPT ![w] = d, ![d] = w] /\ UNCHANGED opening
           /\ Accept(r, "transfer", Transfer(w, d, from, to, m, n))
    BY <1>6, Zenon DEF AcceptTransfer
  <2>2. RowAt(Pool, w) = NoRow /\ RowAt(Pool, d) = NoRow
    BY <2>1, UnbornIsNoRow
  <2>3. w \in Born' /\ d \in Born' /\ Born \subseteq Born' /\ Known \subseteq Known'
    BY <2>1, GrowsOnly, Zenon
  <2>4. Transfer(w, d, from, to, m, n) \in Seq(Calls)
    BY TransferProgram DEF Program
  <2>. QED  BY <2>1, <2>2, <2>3, <2>4, TransferSuits, AcceptPaid
<1>7. CASE AcceptGetStats(r)
  <2>1. PICK a \in Accounts : Accept(r, "stats", GetAccountStats(a)) /\ SameIds
    BY <1>7 DEF AcceptGetStats
  <2>2. GetAccountStats(a) \in Seq(Calls)
    BY AccountPrograms DEF Program
  <2>. QED  BY <2>1, <2>2, ReadersSuit, GrowsOnly, AcceptPaid
<1>8. CASE AcceptCreateAccount(r)
  <2>1. PICK a \in Accounts :
           /\ opening[a] = Unborn
           /\ \/ \E i \in Txns, m \in Amounts :
                    /\ Bear(i) /\ opening' = [opening EXCEPT ![a] = i]
                    /\ Accept(r, "createAccount", CreateAccount(a, i, m))
              \/ /\ opening' = [opening EXCEPT ![a] = Single] /\ UNCHANGED mate
                 /\ Accept(r, "createAccount", CreateEmptyAccount(a))
    BY <1>8 DEF AcceptCreateAccount
  <2>2. BalAt(Pool, a) = Gone
    BY <2>1, UnbornIsNoRow
  <2>3. ASSUME NEW i \in Txns, NEW m \in Amounts, Bear(i), opening' = [opening EXCEPT ![a] = i],
               Accept(r, "createAccount", CreateAccount(a, i, m))
        PROVE  BInv'
    <3>1. RowAt(Pool, i) = NoRow /\ i \in Born' /\ Born \subseteq Born' /\ Known \subseteq Known' /\ a \in Known'
      BY <2>3, UnbornIsNoRow, GrowsOnly, Zenon DEF Bear
    <3>2. CreateAccount(a, i, m) \in Seq(Calls)
      BY AccountPrograms DEF Program
    <3>. QED  BY <2>2, <2>3, <3>1, <3>2, NewAccountSuits, AcceptPaid
  <2>4. ASSUME opening' = [opening EXCEPT ![a] = Single], UNCHANGED mate,
               Accept(r, "createAccount", CreateEmptyAccount(a))
        PROVE  BInv'
    <3>1. Born \subseteq Born' /\ Known \subseteq Known' /\ a \in Known'
      BY <2>4, GrowsOnly, Zenon
    <3>2. CreateEmptyAccount(a) \in Seq(Calls)
      BY AccountPrograms DEF Program
    <3>. QED  BY <2>2, <2>4, <3>1, <3>2, NewAccountSuits, AcceptPaid
  <2>. QED  BY <2>1, <2>3, <2>4
<1>9. CASE AcceptUpdateAccount(r)
  <2>1. PICK a \in Accounts, u \in {"rename", "retype"} :
           /\ Accept(r, IF u = "rename" THEN "renameAccount" ELSE "typeBalance", UpdateAccount(a, u))
           /\ SameIds
    BY <1>9 DEF AcceptUpdateAccount
  <2>2. u = "rename"
    BY <2>1 DEF Accept, NothingTyped
  <2>3. UpdateAccount(a, "rename") \in Seq(Calls)
    BY AccountPrograms DEF Program
  <2>. QED  BY <2>1, <2>2, <2>3, ReadersSuit, GrowsOnly, AcceptPaid
<1>10. CASE AcceptDeleteAccount(r)
  <2>1. PICK a \in Accounts : Accept(r, "deleteAccount", DeleteAccount(a)) /\ SameIds
    BY <1>10 DEF AcceptDeleteAccount
  <2>2. DeleteAccount(a) \in Seq(Calls)
    BY AccountPrograms DEF Program
  <2>. QED  BY <2>1, <2>2, ReadersSuit, GrowsOnly, AcceptPaid
<1>. QED  BY <1>1, <1>2, <1>3, <1>4, <1>5, <1>6, <1>7, <1>8, <1>9, <1>10 DEF AcceptRequest

-----------------------------------------------------------------------------
(* The theorem for one request at a time.                                  *)

LEMMA InitPaid == Init => BInv
<1>. SUFFICES ASSUME Init
              PROVE  BInv
  OBVIOUS
<1>1. /\ \A i \in Txns : RowAt(Pool, i) = NoRow
      /\ \A a \in Accounts : BalAt(Pool, a) = (IF a \in Existing THEN SumOf({}) ELSE Gone)
  BY TargetsDiffer DEF Init, DbInit, RowAt, BalAt
<1>2. \A a \in Accounts : SumAt(Pool, a) = SumOf({})
  <2>1. \A a \in Accounts : RowsOf(Pool, a) = {}
    BY <1>1 DEF RowsOf
  <2>. QED  BY <2>1, Zenon DEF SumAt, SumOf
<1>3. Whole(Pool)
  BY <1>1, LedgerConstants DEF Whole, Init
<1>4. \A calls : Owing(Pool, calls)
  BY <1>1, <1>2 DEF Owing
<1>5. ASSUME NEW r \in Requests
      PROVE  Paying(r)
  <2>1. req[r].own = Pool /\ req[r].todo = <<>> /\ Len(<<>>) = 0 /\ 1..0 = {}
    BY DEF Init
  <2>. QED  BY <1>3, <1>4, <2>1 DEF Paying, AllFit, AllNeutral
<1>. QED  BY <1>3, <1>4, <1>5 DEF BInv

LEMMA StepPaid == OneRequest /\ NothingTyped /\ IInv /\ AInv /\ BInv /\ [Next]_vars => BInv'
<1>. SUFFICES ASSUME OneRequest, NothingTyped, IInv, AInv, BInv, [Next]_vars
              PROVE  BInv'
  OBVIOUS
<1>1. CASE UNCHANGED vars
  BY <1>1, OutsideBooks DEF vars, dbVars
<1>2. ASSUME NEW r \in Requests, AcceptRequest(r)
      PROVE  BInv'
  BY <1>2, AcceptRequestPaid
<1>3. ASSUME NEW r \in Requests, Progress(r)
      PROVE  BInv'
  BY <1>3, RunAimPaid, RunForEachPaid, LookupPaid, FillCachePaid, BeginPaid, FindRowPaid, WriteRowPaid,
     RemoveRowPaid, SumAccountPaid, UpdateBalancePaid, ReadAccountPaid, CheckLimitPaid, InsertAccountPaid,
     WriteAccountPaid, DeleteAccountRowPaid, FailuresPaid, CommitPaid, RollbackPaid
     DEF Progress, Serve
<1>4. ASSUME NEW p \in Procs, NEW a \in Accounts, Expire(p, a)
      PROVE  BInv'
  BY <1>4, OutsideBooks DEF Expire, dbVars, SameIds
<1>5. ASSUME NEW c \in Clients, CloseIdle(c)
      PROVE  BInv'
  BY <1>5, OutsideBooks DEF CloseIdle, dbVars, SameIds
<1>. QED  BY <1>1, <1>2, <1>3, <1>4, <1>5 DEF Next

\* Every account's committed balance is the sum of its committed transactions.
BooksBalance == \A a \in Accounts : bal[a] # Gone => bal[a] = SumAt(Pool, a)

\* With one request at a time, and no account form that types a balance, every reader finds,
\* at every moment and also between the statements of the request, balances that are the sums
\* of the transactions: create, update, delete, transfer and createAccount write both in one
\* transaction, and what link, unlink and renaming write outside one changes neither.
THEOREM BooksAlwaysBalance == OneRequest /\ NothingTyped /\ Spec => []BooksBalance
<1>1. OneRequest => OneEach
  BY DEF OneRequest, OneEach
<1>2. BInv => BooksBalance
  BY TargetsDiffer, LaterShort DEF BInv, Owing, Saved, BooksBalance, BalAt
<1>. SUFFICES ASSUME OneRequest, NothingTyped
              PROVE  Spec => []BooksBalance
  OBVIOUS
<1>3. Spec => []AInv
  BY <1>1, SteadyHolds
<1>4. IInv /\ AInv /\ BInv /\ [Next]_vars => BInv'
  BY StepPaid
<1>. QED  BY InitPaid, <1>2, <1>3, <1>4, InvariantHolds, PTL DEF Spec

\* So, whenever the request has been answered (with success, an error or a ROLLBACK), every
\* account's balance is the sum of its transactions: whatever a method writes, it recomputes
\* the balances of all the accounts concerned from what its own client sees, before it commits.
THEOREM BalancesAreKept == OneRequest /\ NothingTyped /\ Spec => []BalancesAgree
<1>1. BooksBalance => BalancesAgree
  BY DEF BooksBalance, BalancesAgree
<1>. QED  BY <1>1, BooksAlwaysBalance, PTL
=============================================================================
