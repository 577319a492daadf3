---------------------------- MODULE BooksProofs ----------------------------
(* Proofs about Books: deletions strip no category but of late rows, and objects match *)
(* their rows, for any number of requests, transactions, categories and files.         *)
EXTENDS Books, FiniteSetTheorems, TLAPS

-----------------------------------------------------------------------------
(* Attachments.                                                            *)

\* What a request knows of its file: an upload has a file of its own, and until its INSERT
\* nobody else can reach it.
Knows(r) ==
    LET f == file[r].file
        place == file[r].at
    IN  /\ place = "idle" => file[r] = Rest
        /\ place # "idle" => f \in Files
        /\ place = "put" => f \notin objects \cup files
        /\ place = "insert" => f \in objects \ files
        /\ place = "drop" => f \notin objects

\* Two requests share a file only to delete it.
Shared(r, s) ==
    file[r].file = file[s].file /\ file[r].at # "idle" => file[r].at \in {"remove", "drop"}

FInv ==
    /\ FilesTyped /\ ObjectsMatchRows
    /\ \A r \in Uploads : Knows(r)
    /\ \A r, s \in Uploads : r # s => Shared(r, s)

LEMMA FilesStart == InitFiles => FInv
BY AttachmentConstants DEF InitFiles, FInv, FilesTyped, ObjectsMatchRows, Knows, Shared, Rest, InHand

LEMMA FilesRest == FInv /\ UNCHANGED storage => FInv'
BY DEF storage, FInv, FilesTyped, ObjectsMatchRows, Knows, Shared, InHand

LEMMA UploadKeeps ==
    ASSUME FInv, NEW r \in Uploads, UploadFile(r) \/ PutObject(r) \/ InsertAttachment(r)
    PROVE  FInv'
<1> USE AttachmentConstants DEF FInv, FilesTyped, ObjectsMatchRows, Knows, Shared, InHand, Rest, GoOnWith, Finish
<1>1. CASE UploadFile(r)
  BY <1>1 DEF UploadFile, Drawn
<1>2. CASE PutObject(r)
  BY <1>2 DEF PutObject
<1>3. CASE InsertAttachment(r)
  BY <1>3 DEF InsertAttachment
<1> QED
  BY <1>1, <1>2, <1>3

LEMMA DeleteKeeps ==
    ASSUME FInv, NEW r \in Uploads,
           DeleteFile(r) \/ DeleteObject(r) \/ DropAttachment(r) \/ FileFails(r)
    PROVE  FInv'
<1> USE AttachmentConstants DEF FInv, FilesTyped, ObjectsMatchRows, Knows, Shared, InHand, Rest, GoOnWith, Finish
<1>1. CASE DeleteFile(r)
  BY <1>1 DEF DeleteFile
<1>2. CASE DeleteObject(r)
  BY <1>2 DEF DeleteObject
<1>3. CASE DropAttachment(r)
  BY <1>3 DEF DropAttachment
<1>4. CASE FileFails(r)
  BY <1>4 DEF FileFails
<1> QED
  BY <1>1, <1>2, <1>3, <1>4

LEMMA CloseKeeps == FInv /\ CloseWorkspace => FInv'
BY DEF CloseWorkspace, FInv, FilesTyped, ObjectsMatchRows, Knows, Shared, InHand

LEMMA FilesKeep == FInv /\ NextFile => FInv'
BY UploadKeeps, DeleteKeeps, CloseKeeps DEF NextFile

-----------------------------------------------------------------------------
(* Categories.                                                             *)

\* What a request holds: an edit holds a row, a deletion a category; what is still filed
\* under a category between the move and the deletion was written since the move.
Holds(r) ==
    LET place == req[r].at
        from  == req[r].from
    IN  /\ place = "idle" => req[r] = Idle
        /\ place = "txn.save" => req[r].held \in Row
        /\ place \in {"reassign", "category.delete"} => from \in Cats
        /\ place = "reassign" => req[r].to \in Cats
        /\ place = "category.delete" /\ req[r].to \notin {None, from} => Filed(from) \subseteq late

CInv == BooksTyped /\ StrippedWereLate /\ \A r \in Requests : Holds(r)

LEMMA BooksStart == InitBooks => CInv
BY CategoryConstants, RowConstants
   DEF InitBooks, CInv, BooksTyped, StrippedWereLate, Holds, Idle, Row, ReqType, Places, Existing

LEMMA BooksRest == CInv /\ UNCHANGED books => CInv'
BY DEF books, CInv, BooksTyped, StrippedWereLate, Holds, Filed, Existing

\* Moving rows to a category, or clearing them, keeps them rows.
LEMMA Refiled ==
    ASSUME BooksTyped, NEW ts \in SUBSET Existing, NEW c \in Cats \cup {None}, Refile(ts, c)
    PROVE  row' \in [Txns -> Row \cup {None}]
<1>1. ASSUME NEW t \in ts PROVE [row[t] EXCEPT !.cat = c] \in Row
  <2>1. row[t] \in Row
    BY <1>1 DEF BooksTyped, Existing
  <2> QED
    BY <2>1 DEF Row
<1>2. \A t \in Txns : row[t] \in Row \cup {None}
  BY DEF BooksTyped
<1> QED
  BY <1>1, <1>2 DEF Refile

\* Writing a row writes a row.
LEMMA Filing ==
    ASSUME BooksTyped, NEW t \in Txns, NEW x \in Row \cup {None}, row' = [row EXCEPT ![t] = x]
    PROVE  row' \in [Txns -> Row \cup {None}]
BY DEF BooksTyped

LEMMA Requested ==
    ASSUME BooksTyped, NEW r \in Requests, NEW x \in ReqType, req' = [req EXCEPT ![r] = x]
    PROVE  req' \in [Requests -> ReqType]
BY DEF BooksTyped

\* What requests may hold.
LEMMA Holdings ==
    /\ Idle \in ReqType
    /\ \A t \in Txns, x \in Row :
          [Idle EXCEPT !.at = "txn.save", !.txn = t, !.held = x] \in ReqType
    /\ \A p \in {"reassign", "category.delete"}, c \in Cats, d \in Cats \cup {None} :
          [Idle EXCEPT !.at = p, !.from = c, !.to = d] \in ReqType
    /\ \A x \in ReqType : [x EXCEPT !.at = "category.delete"] \in ReqType
BY DEF Idle, ReqType, Places

LEMMA TransactionsTyped ==
    ASSUME BooksTyped, \A q \in Requests : Holds(q), NEW r \in Requests,
           CreateTransaction(r) \/ UpdateTransaction(r) \/ SaveTransaction(r) \/ DeleteTransaction(r)
    PROVE  BooksTyped'
<1> USE CategoryConstants
<1>1. CASE CreateTransaction(r)
  <2>1. PICK t \in Txns, d \in Dates, c \in cats \cup {None} :
           row' = [row EXCEPT ![t] = [date |-> d, cat |-> c]]
           /\ used' = used \cup {t} /\ Written({t}) /\ UNCHANGED <<routes, cats, req, stripped>>
    BY <1>1 DEF CreateTransaction
  <2>2. [date |-> d, cat |-> c] \in Row
    BY DEF Row, BooksTyped
  <2> QED
    BY <2>1, <2>2, Filing DEF BooksTyped, Written
<1>2. CASE UpdateTransaction(r)
  <2>1. PICK t \in Existing :
           /\ req[r] = Idle
           /\ \E d \in Dates \cup {row[t].date}, c \in cats \cup {row[t].cat} :
                 req' = [req EXCEPT ![r].at = "txn.save", ![r].txn = t,
                                    ![r].held = [date |-> d, cat |-> c]]
    BY <1>2 DEF UpdateTransaction, Start
  <2>2. t \in Txns /\ row[t] \in Row
    BY DEF Existing, BooksTyped
  <2>3. PICK d \in Dates \cup {row[t].date}, c \in cats \cup {row[t].cat} :
           req' = [req EXCEPT ![r].at = "txn.save", ![r].txn = t,
                              ![r].held = [date |-> d, cat |-> c]]
    BY <2>1
  <2>4. [date |-> d, cat |-> c] \in Row
    BY <2>2 DEF Row, BooksTyped
  <2>5. req' = [req EXCEPT ![r] = [Idle EXCEPT !.at = "txn.save", !.txn = t,
                                               !.held = [date |-> d, cat |-> c]]]
    BY <2>1, <2>3 DEF BooksTyped
  <2>6. [Idle EXCEPT !.at = "txn.save", !.txn = t, !.held = [date |-> d, cat |-> c]] \in ReqType
    BY <2>2, <2>4, Holdings
  <2>7. req' \in [Requests -> ReqType]
    BY <2>5, <2>6, Requested
  <2> QED
    BY <1>2, <2>7 DEF UpdateTransaction, BooksTyped
<1>3. CASE SaveTransaction(r)
  <2>1. row' \in [Txns -> Row \cup {None}] /\ late' \subseteq Txns
    <3>1. req[r].held \in Row
      BY <1>3 DEF SaveTransaction, Holds
    <3> QED
      BY <1>3, <3>1, Filing DEF SaveTransaction, Written, BooksTyped, Existing
  <2>2. req' \in [Requests -> ReqType]
    BY <1>3, Requested, Holdings DEF SaveTransaction, Answer
  <2> QED
    BY <1>3, <2>1, <2>2 DEF SaveTransaction, BooksTyped
<1>4. CASE DeleteTransaction(r)
  BY <1>4 DEF DeleteTransaction, BooksTyped, Existing
<1> QED
  BY <1>1, <1>2, <1>3, <1>4

LEMMA CategoriesTyped ==
    ASSUME BooksTyped, \A q \in Requests : Holds(q), NEW r \in Requests,
           \/ CreateCategory(r) \/ DeleteCategory(r) \/ DeleteCategoryWithReassign(r)
           \/ ReassignTransactions(r) \/ DropCategory(r) \/ Fail(r)
    PROVE  BooksTyped'
<1> USE CategoryConstants
<1>1. CASE CreateCategory(r)
  BY <1>1 DEF CreateCategory, BooksTyped
<1>2. CASE DeleteCategory(r)
  <2>1. PICK c \in Given :
           /\ req[r] = Idle
           /\ req' = [req EXCEPT ![r].at = "category.delete", ![r].from = c]
    BY <1>2 DEF DeleteCategory, Start
  <2>2. c \in Cats
    BY DEF Given
  <2>3. req' = [req EXCEPT ![r] = [Idle EXCEPT !.at = "category.delete", !.from = c]]
    BY <2>1 DEF BooksTyped
  <2>4. req' \in [Requests -> ReqType]
    <3>1. [Idle EXCEPT !.at = "category.delete", !.from = c] \in ReqType
      BY <2>2 DEF Idle, ReqType, Places
    <3> QED
      BY <2>3, <3>1, Requested
  <2> QED
    BY <1>2, <2>4 DEF DeleteCategory, BooksTyped
<1>3. CASE DeleteCategoryWithReassign(r)
  <2>1. PICK c \in Given, d \in Given :
           /\ req[r] = Idle
           /\ req' = [req EXCEPT ![r].at = "reassign", ![r].from = c, ![r].to = d]
    BY <1>3 DEF DeleteCategoryWithReassign, Start
  <2>2. c \in Cats /\ d \in Cats
    BY DEF Given
  <2>3. req' = [req EXCEPT ![r] = [Idle EXCEPT !.at = "reassign", !.from = c, !.to = d]]
    BY <2>1 DEF BooksTyped
  <2>4. req' \in [Requests -> ReqType]
    BY <2>2, <2>3, Requested, Holdings
  <2> QED
    BY <1>3, <2>4 DEF DeleteCategoryWithReassign, BooksTyped
<1>4. CASE ReassignTransactions(r)
  <2>1. Filed(req[r].from) \subseteq Existing /\ Existing \subseteq Txns
    BY DEF Filed, Existing
  <2>2. row' \in [Txns -> Row \cup {None}]
    <3>1. CASE UNCHANGED row
      BY <3>1 DEF BooksTyped
    <3>2. CASE Refile(Filed(req[r].from), req[r].to)
      <4>1. req[r].to \in Cats \cup {None}
        BY <1>4 DEF ReassignTransactions, Holds
      <4> QED
        BY <3>2, <4>1, <2>1, Refiled
    <3> QED
      BY <1>4, <3>1, <3>2 DEF ReassignTransactions
  <2>3. late' \subseteq Txns
    BY <1>4, <2>1 DEF ReassignTransactions, Written, BooksTyped
  <2>4. req' \in [Requests -> ReqType]
    <3>1. CASE req' = [req EXCEPT ![r].at = "category.delete"]
      <4>1. req' = [req EXCEPT ![r] = [req[r] EXCEPT !.at = "category.delete"]]
        BY <3>1
      <4>2. req[r] \in ReqType
        BY DEF BooksTyped
      <4> QED
        BY <4>1, <4>2, Requested, Holdings
    <3>2. CASE Answer(r)
      BY <3>2, Requested, Holdings DEF Answer
    <3> QED
      BY <1>4, <3>1, <3>2 DEF ReassignTransactions
  <2> QED
    BY <1>4, <2>2, <2>3, <2>4 DEF ReassignTransactions, BooksTyped
<1>5. CASE DropCategory(r)
  <2>1. Filed(req[r].from) \subseteq Existing /\ Existing \subseteq Txns
    BY DEF Filed, Existing
  <2>2. row' \in [Txns -> Row \cup {None}]
    BY <1>5, <2>1, Refiled DEF DropCategory
  <2>3. req' \in [Requests -> ReqType]
    BY <1>5, Requested, Holdings DEF DropCategory, Answer
  <2>4. stripped' \subseteq Txns \X Cats \X Cats
    <3>1. req[r].from \in Cats /\ req[r].to \in Cats \cup {None} /\ stripped \subseteq Txns \X Cats \X Cats
      BY <1>5 DEF DropCategory, Holds, BooksTyped, ReqType
    <3> QED
      BY <1>5, <2>1, <3>1 DEF DropCategory
  <2>5. UNCHANGED <<routes, used, late>> /\ cats' \subseteq Cats
    BY <1>5 DEF DropCategory, BooksTyped
  <2> QED
    BY <2>2, <2>3, <2>4, <2>5 DEF BooksTyped
<1>6. CASE Fail(r)
  <2>1. req' \in [Requests -> ReqType]
    BY <1>6, Requested, Holdings DEF Fail, Answer
  <2> QED
    BY <1>6, <2>1 DEF Fail, BooksTyped
<1> QED
  BY <1>1, <1>2, <1>3, <1>4, <1>5, <1>6

LEMMA TransactionsKeep ==
    ASSUME CInv, NEW r \in Requests,
           CreateTransaction(r) \/ UpdateTransaction(r) \/ SaveTransaction(r) \/ DeleteTransaction(r)
    PROVE  CInv'
<1> USE CategoryConstants, RowConstants
    DEF StrippedWereLate, Holds, Idle, Row, ReqType, Places, Filed, Existing,
        Start, Answer, MayFile, Written, Between, CInv, BooksTyped
<1>1. StrippedWereLate'
  <2>1. UNCHANGED stripped /\ late \subseteq late'
    BY DEF CreateTransaction, UpdateTransaction, SaveTransaction, DeleteTransaction
  <2> QED
    BY <2>1
<1>2. ASSUME NEW q \in Requests PROVE Holds(q)'
  <2>1. CASE CreateTransaction(r)
    BY <2>1 DEF CreateTransaction
  <2>2. CASE UpdateTransaction(r)
    <3>1. CASE q = r
      <4>1. PICK t \in Existing :
              /\ req[r] = Idle
              /\ \E d \in Dates \cup {row[t].date}, c \in cats \cup {row[t].cat} :
                    req' = [req EXCEPT ![r].at = "txn.save", ![r].txn = t,
                                       ![r].held = [date |-> d, cat |-> c]]
        BY <2>2 DEF UpdateTransaction
      <4>2. row[t] \in Row /\ req \in [Requests -> ReqType]
        BY DEF CInv, BooksTyped, Existing
      <4>3. PICK d \in Dates \cup {row[t].date}, c \in cats \cup {row[t].cat} :
              req' = [req EXCEPT ![r].at = "txn.save", ![r].txn = t,
                                 ![r].held = [date |-> d, cat |-> c]]
        BY <4>1
      <4>4. [date |-> d, cat |-> c] \in Row
        BY <4>2
      <4>5. req'[r].at = "txn.save" /\ req'[r].held = [date |-> d, cat |-> c]
        <5> DEFINE x == [date |-> d, cat |-> c]
        <5>1. req'[r] = [req[r] EXCEPT !.at = "txn.save", !.txn = t, !.held = x] /\ req[r] \in ReqType
          BY <4>2, <4>3
        <5> HIDE DEF x, Row, Holds, CInv, BooksTyped, StrippedWereLate, Filed, Existing
        <5>2. req'[r].at = "txn.save" /\ req'[r].held = x
          BY <5>1
        <5> QED
          BY <5>2 DEF x
      <4> QED
        BY <3>1, <4>4, <4>5
    <3>2. CASE q # r
      BY <2>2, <3>2 DEF UpdateTransaction
    <3> QED
      BY <3>1, <3>2
  <2>3. CASE SaveTransaction(r)
    <3>1. CASE q = r
      BY <2>3, <3>1 DEF SaveTransaction
    <3>2. CASE q # r
      BY <2>3, <3>2 DEF SaveTransaction
    <3> QED
      BY <3>1, <3>2
  <2>4. CASE DeleteTransaction(r)
    BY <2>4 DEF DeleteTransaction
  <2> QED
    BY <2>1, <2>2, <2>3, <2>4
<1> QED
  BY <1>1, <1>2, TransactionsTyped

LEMMA CategoriesKeep ==
    ASSUME CInv, NEW r \in Requests,
           \/ CreateCategory(r) \/ DeleteCategory(r) \/ DeleteCategoryWithReassign(r)
           \/ ReassignTransactions(r) \/ DropCategory(r) \/ Fail(r)
    PROVE  CInv'
<1> USE CategoryConstants, RowConstants
    DEF StrippedWereLate, Holds, Idle, Row, ReqType, Places, Filed, Existing,
        Start, Answer, MayFile, Given, Written, Between, Refile, CInv, BooksTyped
<1>1. StrippedWereLate'
  <2>1. CASE DropCategory(r)
    <3>1. UNCHANGED late /\ \A x \in stripped : x[1] \in late \/ x[2] = x[3]
      BY <2>1 DEF DropCategory
    <3>2. ASSUME req[r].to # None, NEW x \in Filed(req[r].from) \X {req[r].from} \X {req[r].to}
          PROVE  x[1] \in late \/ x[2] = x[3]
      <4>1. x[1] \in Filed(req[r].from) /\ x[2] = req[r].from /\ x[3] = req[r].to
        BY ONLY <3>2
      <4>2. Holds(r) /\ req[r].at = "category.delete"
        BY <2>1 DEF DropCategory
      <4>3. req[r].to = req[r].from \/ Filed(req[r].from) \subseteq late
        BY ONLY <3>2, <4>2 DEF Holds
      <4> QED
        BY ONLY <4>1, <4>3
    <3>3. stripped' = IF req[r].to = None THEN stripped
                      ELSE stripped \cup (Filed(req[r].from) \X {req[r].from} \X {req[r].to})
      BY <2>1 DEF DropCategory
    <3> QED
      BY ONLY <3>1, <3>2, <3>3 DEF StrippedWereLate
  <2>2. CASE ~DropCategory(r)
    <3>1. UNCHANGED stripped /\ late \subseteq late'
      BY <2>2 DEF CreateCategory, DeleteCategory, DeleteCategoryWithReassign, ReassignTransactions, Fail
    <3> QED
      BY <3>1
  <2> QED
    BY <2>1, <2>2
<1>2. ASSUME NEW q \in Requests, q # r PROVE Holds(q)'
  <2>1. CASE ReassignTransactions(r)
    BY <1>2, <2>1 DEF ReassignTransactions
  <2>2. CASE DropCategory(r)
    BY <1>2, <2>2 DEF DropCategory
  <2> QED
    BY <1>2, <2>1, <2>2 DEF CreateCategory, DeleteCategory, DeleteCategoryWithReassign, Fail
<1>3. Holds(r)'
  <2>1. CASE CreateCategory(r)
    BY <2>1 DEF CreateCategory
  <2>2. CASE DeleteCategory(r)
    <3>1. PICK c \in Given :
            /\ req[r] = Idle
            /\ req' = [req EXCEPT ![r].at = "category.delete", ![r].from = c]
      BY <2>2 DEF DeleteCategory
    <3>2. req'[r].at = "category.delete" /\ req'[r].from = c /\ req'[r].to = None
      BY <3>1
    <3> QED
      BY <3>1, <3>2
  <2>3. CASE DeleteCategoryWithReassign(r)
    <3>1. PICK c \in Given, d \in Given :
            /\ req[r] = Idle
            /\ req' = [req EXCEPT ![r].at = "reassign", ![r].from = c, ![r].to = d]
      BY <2>3 DEF DeleteCategoryWithReassign
    <3>2. req'[r].at = "reassign" /\ req'[r].from = c /\ req'[r].to = d
      BY <3>1
    <3> QED
      BY <3>1, <3>2
  <2>4. CASE ReassignTransactions(r)
    BY <2>4 DEF ReassignTransactions
  <2>5. CASE DropCategory(r) \/ Fail(r)
    BY <2>5 DEF DropCategory, Fail
  <2> QED
    BY <2>1, <2>2, <2>3, <2>4, <2>5
<1> QED
  BY <1>1, <1>2, <1>3, CategoriesTyped

LEMMA BooksKeep == ASSUME CInv, NEW r \in Requests, NextBook(r) PROVE CInv'
BY TransactionsKeep, CategoriesKeep DEF NextBook

-----------------------------------------------------------------------------
(* Lists.                                                                  *)

\* What has stayed as it was is listed, and it has been given exactly if the cursor is not
\* before it.
ByCursor(q) ==
    /\ \A t \in reading[q].still : Matches(q, t)
    /\ reading[q].at = "reading" =>
          \A t \in reading[q].still :
              t \in reading[q].seen <=> t \notin Ahead(q, Listed(q))

\* While nothing changes, what has been given are as many rows as the offset says, from the top.
ByOffset(q) ==
    reading[q].quiet =>
        /\ reading[q].again = {}
        /\ reading[q].at = "reading" =>
              /\ reading[q].still = Listed(q)
              /\ reading[q].seen \subseteq Listed(q)
              /\ Cardinality(reading[q].seen) = reading[q].offset
              /\ \A t \in reading[q].seen, u \in Listed(q) \ reading[q].seen : Before(Key(t), Key(u))

Progress(q) == IF reading[q].by = "cursor" THEN ByCursor(q) ELSE ByOffset(q)
LInv        == PagesTyped /\ EachSeenOnce /\ \A q \in Readers : Progress(q)

\* The order of a list.
LEMMA Keys ==
    ASSUME BooksTyped
    PROVE  \A t \in Existing : Key(t) \in [date: Dates, id: Txns]
BY DEF BooksTyped, Existing, Key, Row

LEMMA Order ==
    ASSUME NEW k \in [date: Dates, id: Txns], NEW l \in [date: Dates, id: Txns],
           NEW m \in [date: Dates, id: Txns]
    PROVE  /\ ~Before(k, k)
           /\ Before(k, l) => ~Before(l, k)
           /\ Before(k, l) /\ Before(l, m) => Before(k, m)
<1>1. /\ k.date \in Nat /\ l.date \in Nat /\ m.date \in Nat
      /\ k.id \in Nat /\ l.id \in Nat /\ m.id \in Nat
  BY CategoryConstants
<1> QED
  BY <1>1 DEF Before

LEMMA ListsFinite ==
    ASSUME NEW q \in Readers
    PROVE  \A S \in SUBSET Listed(q) : IsFiniteSet(S) /\ Cardinality(S) \in Nat /\ S \subseteq Txns
<1>1. \A S \in SUBSET Txns : IsFiniteSet(S)
  BY CategoryConstants, FS_Subset
<1> QED
  BY <1>1, FS_CardinalityType DEF Listed

\* Two tops of a list with as many rows are the same.
LEMMA OneTop ==
    ASSUME BooksTyped, NEW q \in Readers, NEW S \in SUBSET Listed(q), NEW T \in SUBSET Listed(q),
           \A t \in S, u \in Listed(q) \ S : Before(Key(t), Key(u)),
           \A t \in T, u \in Listed(q) \ T : Before(Key(t), Key(u)),
           Cardinality(S) = Cardinality(T)
    PROVE  S = T
<1>1. Listed(q) \subseteq Existing
  BY DEF Listed, Matches
<1>2. ASSUME NEW t \in S \ T, NEW u \in T \ S PROVE FALSE
  <2>1. Before(Key(t), Key(u)) /\ Before(Key(u), Key(t))
    BY <1>2
  <2>2. Key(t) \in [date: Dates, id: Txns] /\ Key(u) \in [date: Dates, id: Txns]
    BY <1>1, <1>2, Keys
  <2> QED
    BY <2>1, <2>2, Order
<1>3. S \subseteq T \/ T \subseteq S
  BY <1>2
<1>4. IsFiniteSet(S) /\ IsFiniteSet(T)
  BY ListsFinite
<1> QED
  BY <1>3, <1>4, FS_Subset

ReaderType ==
    [at: {"none", "reading", "done"}, by: {"cursor", "offset"}, filter: Cats \cup {None},
     cursor: [date: Dates, id: Txns] \cup {None}, offset: Nat,
     seen: SUBSET Txns, again: SUBSET Txns, still: SUBSET Txns, quiet: BOOLEAN]

\* What a page changes.
LEMMA PageGiven ==
    ASSUME LInv, NEW q \in Readers, NEW page \in SUBSET Listed(q),
           NEW cursor \in [date: Dates, id: Txns] \cup {None}, NEW more \in BOOLEAN,
           GivenPage(q, page, cursor, more)
    PROVE  /\ PagesTyped'
           /\ \A p \in Readers \ {q} : reading'[p] = reading[p]
           /\ reading'[q].at = IF more THEN "reading" ELSE "done"
           /\ reading'[q].by = reading[q].by /\ reading'[q].filter = reading[q].filter
           /\ reading'[q].cursor = cursor
           /\ reading'[q].offset = reading[q].offset + Cardinality(page)
           /\ reading'[q].seen = reading[q].seen \cup page
           /\ reading'[q].again = reading[q].again \cup (page \cap reading[q].seen)
           /\ reading'[q].still = reading[q].still /\ reading'[q].quiet = reading[q].quiet
<1> DEFINE x == After(reading[q], page, cursor, more)
<1>1. reading \in [Readers -> ReaderType] /\ Cardinality(page) \in Nat /\ page \subseteq Txns
  BY ListsFinite DEF LInv, PagesTyped, ReaderType
<1>2. reading' = [reading EXCEPT ![q] = x]
  BY <1>1 DEF GivenPage
<1>3. /\ x \in ReaderType
      /\ x.at = IF more THEN "reading" ELSE "done"
      /\ x.by = reading[q].by /\ x.filter = reading[q].filter /\ x.cursor = cursor
      /\ x.offset = reading[q].offset + Cardinality(page)
      /\ x.seen = reading[q].seen \cup page
      /\ x.again = reading[q].again \cup (page \cap reading[q].seen)
      /\ x.still = reading[q].still /\ x.quiet = reading[q].quiet
  <2> DEFINE old   == reading[q]
             place == IF more THEN "reading" ELSE "done"
             count == old.offset + Cardinality(page)
             seen  == old.seen \cup page
             again == old.again \cup (page \cap old.seen)
  <2>1. /\ old \in ReaderType /\ place \in {"none", "reading", "done"} /\ count \in Nat
        /\ seen \in SUBSET Txns /\ again \in SUBSET Txns
    BY <1>1 DEF ReaderType
  <2>2. x = [old EXCEPT !.at = place, !.cursor = cursor, !.offset = count, !.seen = seen, !.again = again]
    BY DEF After
  <2>3. place = IF more THEN "reading" ELSE "done"
    OBVIOUS
  <2> HIDE DEF x, old, place, count, seen, again
  <2>4. /\ x \in ReaderType
        /\ x.at = place /\ x.cursor = cursor /\ x.offset = count /\ x.seen = seen /\ x.again = again
        /\ x.by = old.by /\ x.filter = old.filter /\ x.still = old.still /\ x.quiet = old.quiet
    BY <2>1, <2>2 DEF ReaderType
  <2> QED
    BY <2>3, <2>4 DEF old, count, seen, again
<1> HIDE DEF x
<1>4. reading' \in [Readers -> ReaderType] /\ reading'[q] = x
  BY <1>1, <1>2, <1>3
<1> QED
  BY <1>1, <1>2, <1>3, <1>4 DEF PagesTyped, ReaderType

\* What does not change about another reader.
LEMMA OtherReader ==
    ASSUME LInv, UNCHANGED books, NEW p \in Readers, reading'[p] = reading[p]
    PROVE  /\ Progress(p)'
           /\ reading'[p].by = "cursor" \/ reading'[p].quiet =>
                 /\ reading'[p].still \cap reading'[p].again = {}
                 /\ reading'[p].at = "done" => reading'[p].still \subseteq reading'[p].seen
<1>1. /\ UNCHANGED row
      /\ \A t \in Txns : Matches(p, t)' = Matches(p, t)
      /\ Listed(p)' = Listed(p) /\ Ahead(p, Listed(p))' = Ahead(p, Listed(p))
      /\ \A t : Key(t)' = Key(t)
  BY DEF books, Matches, Listed, Ahead, Key, Existing
<1>2. reading[p].still \subseteq Txns
  BY DEF LInv, PagesTyped
<1> QED
  BY <1>1, <1>2 DEF LInv, Progress, ByCursor, ByOffset, EachSeenOnce

LEMMA CursorKeeps ==
    ASSUME BooksTyped, LInv, NEW q \in Readers, reading[q].by = "cursor", CursorPage(q)
    PROVE  LInv'
<1> DEFINE rows == Ahead(q, Listed(q))
           x == reading[q]
<1>1. PICK page \in SUBSET rows :
         /\ IsTop(page, Limit, rows)
         /\ \/ page = rows /\ GivenPage(q, page, None, FALSE)
            \/ /\ page # rows
               /\ \E last \in page : /\ \A t \in page \ {last} : Before(Key(t), Key(last))
                                     /\ GivenPage(q, page, Key(last), TRUE)
  BY DEF CursorPage
<1>2. /\ UNCHANGED books /\ x.at = "reading" /\ UNCHANGED row
      /\ x.still \subseteq Txns
      /\ x.cursor \in [date: Dates, id: Txns] \cup {None}
  BY DEF CursorPage, books, LInv, PagesTyped
<1>3. rows \subseteq Listed(q) /\ Listed(q) \subseteq Existing /\ Existing \subseteq Txns
  BY DEF Ahead, Listed, Matches, Existing
<1>4. /\ \A t \in x.still : t \in Listed(q) /\ (t \in x.seen <=> t \notin rows)
      /\ x.still \cap x.again = {}
  BY <1>2 DEF LInv, Progress, ByCursor, EachSeenOnce, Listed
<1>5. page \in SUBSET Listed(q)
  BY <1>3
<1>6. \A t \in Existing : Key(t) \in [date: Dates, id: Txns]
  BY Keys
<1>7. CASE page = rows /\ GivenPage(q, page, None, FALSE)
  <2>1. /\ PagesTyped' /\ \A p \in Readers \ {q} : reading'[p] = reading[p]
        /\ reading'[q].at = "done" /\ reading'[q].by = "cursor" /\ reading'[q].filter = x.filter
        /\ reading'[q].seen = x.seen \cup page
        /\ reading'[q].again = x.again \cup (page \cap x.seen)
        /\ reading'[q].still = x.still
    BY <1>5, <1>7, PageGiven
  <2>2. \A t \in x.still : Matches(q, t)'
    BY <1>2, <2>1 DEF LInv, Progress, ByCursor, Matches, Existing
  <2>3. Progress(q)'
    BY <2>1, <2>2 DEF Progress, ByCursor
  <2>4. x.still \cap reading'[q].again = {} /\ x.still \subseteq reading'[q].seen
    BY <1>4, <1>7, <2>1
  <2> QED
    BY <1>2, <2>1, <2>3, <2>4, OtherReader DEF LInv, EachSeenOnce
<1>8. CASE page # rows /\ \E last \in page : /\ \A t \in page \ {last} : Before(Key(t), Key(last))
                                             /\ GivenPage(q, page, Key(last), TRUE)
  <2>1. PICK last \in page : /\ \A t \in page \ {last} : Before(Key(t), Key(last))
                             /\ GivenPage(q, page, Key(last), TRUE)
    BY <1>8
  <2>2. last \in Existing /\ Key(last) \in [date: Dates, id: Txns] /\ Key(last) # None
    <3>1. last \in Existing
      BY <1>3, <2>1
    <3>2. Key(last).date \in Dates
      BY <1>6, <3>1
    <3> QED
      BY <1>6, <3>1, <3>2, PageConstants
  <2>3. /\ PagesTyped' /\ \A p \in Readers \ {q} : reading'[p] = reading[p]
        /\ reading'[q].at = "reading" /\ reading'[q].by = "cursor" /\ reading'[q].filter = x.filter
        /\ reading'[q].cursor = Key(last)
        /\ reading'[q].seen = x.seen \cup page
        /\ reading'[q].again = x.again \cup (page \cap x.seen)
        /\ reading'[q].still = x.still
    BY <1>5, <2>1, <2>2, PageGiven
  <2>4. \A t \in x.still : Matches(q, t)'
    BY <1>2, <2>3 DEF LInv, Progress, ByCursor, Matches, Existing
  <2>5. ASSUME NEW t \in x.still
        PROVE  t \in reading'[q].seen <=> ~Before(Key(last), Key(t))
    <3>1. t \in Existing /\ Key(t) \in [date: Dates, id: Txns]
      BY <1>3, <1>4, <1>6
    <3>2. CASE t \in x.seen
      <4>1. x.cursor # None /\ ~Before(x.cursor, Key(t)) /\ Before(x.cursor, Key(last))
        BY <1>4, <2>1, <3>2 DEF Ahead
      <4> QED
        BY <1>2, <2>2, <2>3, <3>1, <3>2, <4>1, Order
    <3>3. CASE t \in page
      BY <2>1, <2>2, <2>3, <3>1, <3>3, Order
    <3>4. CASE t \notin x.seen /\ t \notin page
      <4>1. Before(Key(last), Key(t))
        BY <1>1, <1>4, <3>4 DEF IsTop
      <4> QED
        BY <2>3, <3>4, <4>1
    <3> QED
      BY <3>2, <3>3, <3>4
  <2>6. \A t \in x.still : t \in Ahead(q, Listed(q))' <=> Before(Key(last), Key(t))
    <3>1. \A t : Key(t)' = Key(t)
      BY <1>2 DEF Key
    <3> QED
      BY <1>2, <2>2, <2>3, <2>4, <3>1 DEF Ahead, Listed
  <2>7. Progress(q)'
    BY <2>3, <2>4, <2>5, <2>6 DEF Progress, ByCursor
  <2>8. x.still \cap reading'[q].again = {}
    BY <1>4, <2>3
  <2> QED
    BY <1>2, <2>3, <2>7, <2>8, OtherReader DEF LInv, EachSeenOnce
<1> QED
  BY <1>1, <1>7, <1>8

LEMMA OffsetKeeps ==
    ASSUME BooksTyped, LInv, NEW q \in Readers, reading[q].by = "offset", OffsetPage(q)
    PROVE  LInv'
<1> DEFINE rows == Listed(q)
           x == reading[q]
<1>1. PICK skipped \in SUBSET rows, page \in SUBSET rows :
         /\ IsTop(skipped, x.offset, rows)
         /\ skipped \cap page = {}
         /\ IsTop(page, Limit, rows \ skipped)
         /\ GivenPage(q, page, None, skipped \cup page # rows)
  BY DEF OffsetPage
<1>2. UNCHANGED books /\ UNCHANGED row /\ x.at = "reading" /\ x.offset \in Nat
  BY DEF OffsetPage, books, LInv, PagesTyped
<1>3. /\ PagesTyped' /\ \A p \in Readers \ {q} : reading'[p] = reading[p]
      /\ reading'[q].at = IF skipped \cup page # rows THEN "reading" ELSE "done"
      /\ reading'[q].by = "offset" /\ reading'[q].filter = x.filter
      /\ reading'[q].offset = x.offset + Cardinality(page)
      /\ reading'[q].seen = x.seen \cup page
      /\ reading'[q].again = x.again \cup (page \cap x.seen)
      /\ reading'[q].still = x.still /\ reading'[q].quiet = x.quiet
  BY <1>1, PageGiven
<1>4. rows' = rows /\ \A t : Key(t)' = Key(t)
  BY <1>2, <1>3 DEF Listed, Matches, Existing, Key
<1>5. ASSUME x.quiet
      PROVE  /\ ByOffset(q)' /\ x.still \cap reading'[q].again = {}
             /\ reading'[q].at = "done" => x.still \subseteq reading'[q].seen
  <2>1. /\ x.again = {} /\ x.still = rows /\ x.seen \in SUBSET rows /\ Cardinality(x.seen) = x.offset
        /\ \A t \in x.seen, u \in rows \ x.seen : Before(Key(t), Key(u))
    BY <1>2, <1>5 DEF LInv, Progress, ByOffset
  <2>2. skipped = x.seen
    <3>1. CASE Cardinality(rows) <= x.offset
      <4>1. skipped = rows
        BY <1>1, <3>1 DEF IsTop
      <4>2. IsFiniteSet(rows) /\ Cardinality(rows) \in Nat
        BY ListsFinite
      <4>3. Cardinality(x.seen) <= Cardinality(rows)
        BY <2>1, <4>2, FS_Subset
      <4>4. Cardinality(rows) = Cardinality(x.seen)
        BY <1>2, <2>1, <3>1, <4>2, <4>3
      <4> QED
        BY <2>1, <4>1, <4>2, <4>4, FS_Subset
    <3>2. CASE ~(Cardinality(rows) <= x.offset)
      <4>1. Cardinality(skipped) = Cardinality(x.seen)
        BY <1>1, <2>1, <3>2 DEF IsTop
      <4>2. \A t \in skipped, u \in rows \ skipped : Before(Key(t), Key(u))
        BY <1>1 DEF IsTop
      <4> QED
        BY <2>1, <4>1, <4>2, OneTop
    <3> QED
      BY <3>1, <3>2
  <2>3. Cardinality(x.seen \cup page) = x.offset + Cardinality(page)
    <3>1. IsFiniteSet(x.seen) /\ IsFiniteSet(page) /\ Cardinality(page) \in Nat
      BY <2>1, ListsFinite
    <3>2. Cardinality(x.seen \cup page) = Cardinality(x.seen) + Cardinality(page) - Cardinality({})
      BY <1>1, <2>2, <3>1, FS_Union
    <3>3. Cardinality({}) = 0
      BY FS_EmptySet
    <3> QED
      BY <1>2, <2>1, <3>1, <3>2, <3>3
  <2>4. \A t \in x.seen \cup page, u \in rows \ (x.seen \cup page) : Before(Key(t), Key(u))
    BY <1>1, <2>1, <2>2 DEF IsTop
  <2>5. reading'[q].again = {}
    BY <1>1, <1>3, <2>1, <2>2
  <2>6. ByOffset(q)'
    BY <1>3, <1>4, <2>1, <2>3, <2>4, <2>5 DEF ByOffset
  <2> QED
    BY <1>3, <2>1, <2>2, <2>5, <2>6
<1>6. Progress(q)'
  BY <1>3, <1>5 DEF Progress, ByOffset
<1> QED
  BY <1>2, <1>3, <1>5, <1>6, OtherReader DEF LInv, EachSeenOnce


LEMMA ListBegins == ASSUME BooksTyped, LInv, NEW q \in Readers, List(q) PROVE LInv'
<1>1. PICK kind \in {"cursor", "offset"}, c \in cats \cup {None} :
         reading' = [reading EXCEPT ![q] =
            [at |-> "reading", by |-> kind, filter |-> c, cursor |-> None, offset |-> 0,
             seen |-> {}, again |-> {}, still |-> {t \in Existing : c \in {None, row[t].cat}}, quiet |-> TRUE]]
  BY DEF List
<1>2. UNCHANGED books /\ UNCHANGED row /\ reading \in [Readers -> ReaderType] /\ c \in Cats \cup {None}
  BY DEF List, books, LInv, PagesTyped, ReaderType, BooksTyped
<1> DEFINE shown == {t \in Existing : c \in {None, row[t].cat}}
           new == [at |-> "reading", by |-> kind, filter |-> c, cursor |-> None, offset |-> 0,
                   seen |-> {}, again |-> {}, still |-> shown, quiet |-> TRUE]
<1>3. shown \subseteq Txns
  BY DEF Existing
<1> HIDE DEF shown
<1>4. /\ new \in ReaderType
      /\ new.at = "reading" /\ new.by = kind /\ new.filter = c /\ new.cursor = None /\ new.offset = 0
      /\ new.seen = {} /\ new.again = {} /\ new.still = shown
  BY <1>2, <1>3 DEF ReaderType
<1>5. reading' = [reading EXCEPT ![q] = new]
  BY <1>1 DEF shown
<1> HIDE DEF new
<1>6. /\ PagesTyped' /\ reading'[q] = new
      /\ \A p \in Readers \ {q} : reading'[p] = reading[p]
  BY <1>2, <1>4, <1>5 DEF PagesTyped, ReaderType
<1>7. Listed(q)' = shown /\ Ahead(q, Listed(q))' = shown
  BY <1>2, <1>4, <1>6 DEF Listed, Matches, Existing, Ahead, shown
<1>8. \A t \in shown : Matches(q, t)'
  BY <1>2, <1>4, <1>6 DEF Matches, Existing, shown
<1>9. Progress(q)'
  BY <1>4, <1>6, <1>7, <1>8, FS_EmptySet DEF Progress, ByCursor, ByOffset
<1> QED
  BY <1>2, <1>4, <1>6, <1>9, OtherReader DEF LInv, EachSeenOnce

\* What is disturbed is no longer expected.
LEMMA DisturbKeeps == ASSUME LInv, Disturb PROVE LInv'
<1>1. reading \in [Readers -> ReaderType]
  BY DEF LInv, PagesTyped, ReaderType
<1>2. ASSUME NEW q \in Readers
      PROVE  /\ reading'[q] \in ReaderType
             /\ reading'[q].still = {t \in reading[q].still : row'[t] = row[t]}
             /\ reading'[q].quiet => reading[q].quiet /\ row' = row
             /\ reading'[q].at = reading[q].at /\ reading'[q].by = reading[q].by
             /\ reading'[q].filter = reading[q].filter /\ reading'[q].cursor = reading[q].cursor
             /\ reading'[q].offset = reading[q].offset
             /\ reading'[q].seen = reading[q].seen /\ reading'[q].again = reading[q].again
  <2> DEFINE left == {t \in reading[q].still : row'[t] = row[t]}
             calmly == reading[q].quiet /\ row' = row
  <2>1. reading'[q] = [reading[q] EXCEPT !.still = left, !.quiet = calmly]
    BY DEF Disturb
  <2>2. reading[q] \in ReaderType /\ left \in SUBSET Txns /\ calmly \in BOOLEAN
    BY <1>1 DEF ReaderType
  <2>3. calmly => reading[q].quiet /\ row' = row
    OBVIOUS
  <2>4. left = {t \in reading[q].still : row'[t] = row[t]}
    OBVIOUS
  <2> HIDE DEF left, calmly
  <2>5. /\ reading'[q] \in ReaderType /\ reading'[q].still = left
        /\ reading'[q].at = reading[q].at /\ reading'[q].by = reading[q].by
        /\ reading'[q].filter = reading[q].filter /\ reading'[q].cursor = reading[q].cursor
        /\ reading'[q].offset = reading[q].offset
        /\ reading'[q].seen = reading[q].seen /\ reading'[q].again = reading[q].again
    BY <2>1, <2>2 DEF ReaderType
  <2>6. reading'[q].quiet = calmly
    BY <2>1, <2>2 DEF ReaderType
  <2> QED
    BY <2>3, <2>4, <2>5, <2>6
<1>3. PagesTyped'
  <2>1. reading' = [q \in Readers |-> reading'[q]]
    BY DEF Disturb
  <2> QED
    BY <1>2, <2>1 DEF PagesTyped, ReaderType
<1>4. ASSUME NEW q \in Readers PROVE Progress(q)'
  <2>1. CASE reading[q].by = "cursor"
    <3>1. reading[q].still \subseteq Txns
      BY <1>1 DEF ReaderType
    <3>2. \A t \in reading'[q].still :
             t \in reading[q].still /\ row'[t] = row[t] /\ Key(t)' = Key(t) /\ Matches(q, t)
      BY <1>2, <2>1 DEF LInv, Progress, ByCursor, Key
    <3>3. \A t \in reading'[q].still : Matches(q, t)'
      BY <1>2, <3>2 DEF Matches, Existing
    <3>4. \A t \in reading'[q].still : t \in Ahead(q, Listed(q))' <=> t \in Ahead(q, Listed(q))
      BY <1>2, <3>1, <3>2, <3>3 DEF Ahead, Listed
    <3> QED
      BY <1>2, <2>1, <3>2, <3>3, <3>4 DEF LInv, Progress, ByCursor
  <2>2. CASE reading[q].by # "cursor"
    <3>1. CASE reading'[q].quiet
      <4>1. row' = row /\ reading'[q].still = reading[q].still /\ reading[q].quiet
        BY <1>2, <3>1
      <4>2. Listed(q)' = Listed(q) /\ \A t : Key(t)' = Key(t)
        BY <1>2, <4>1 DEF Listed, Matches, Existing, Key
      <4> QED
        BY <1>2, <2>2, <4>1, <4>2 DEF LInv, Progress, ByOffset
    <3>2. CASE ~reading'[q].quiet
      BY <1>2, <2>2, <3>2 DEF Progress, ByOffset
    <3> QED
      BY <3>1, <3>2
  <2> QED
    BY <2>1, <2>2
<1>5. EachSeenOnce'
  BY <1>2 DEF LInv, EachSeenOnce
<1> QED
  BY <1>3, <1>4, <1>5 DEF LInv

LEMMA ListsStart == InitPages => LInv
<1> SUFFICES ASSUME InitPages PROVE LInv
  OBVIOUS
<1>1. PagesTyped
  BY DEF InitPages, PagesTyped
<1> QED
  BY <1>1 DEF InitPages, LInv, EachSeenOnce, Progress, ByCursor, ByOffset

LEMMA ListsRest == LInv /\ UNCHANGED <<row, reading>> => LInv'
BY DEF LInv, PagesTyped, EachSeenOnce, Progress, ByCursor, ByOffset, Listed, Matches, Ahead, Key, Existing

-----------------------------------------------------------------------------
(* Both of them, beside each other and the lists.                          *)

\* The invariant of the files and that of the rows, which share no variable.
THEOREM BooksInvariant == Spec => [](FInv /\ CInv)
<1>1. Init => FInv /\ CInv
  BY FilesStart, BooksStart DEF Init
<1>2. ASSUME FInv, CInv, [Next]_vars PROVE FInv' /\ CInv'
  <2>1. CASE UNCHANGED vars
    BY <1>2, <2>1, FilesRest, BooksRest DEF vars
  <2>2. CASE (\E r \in Requests : NextBook(r)) /\ Disturb /\ UNCHANGED storage
    BY <1>2, <2>2, FilesRest, BooksKeep
  <2>3. CASE (\E q \in Readers : List(q) \/ NextPage(q)) /\ UNCHANGED storage
    <3>1. UNCHANGED books
      BY <2>3 DEF List, NextPage, CursorPage, OffsetPage
    <3> QED
      BY <1>2, <2>3, <3>1, FilesRest, BooksRest
  <2>4. CASE NextFile /\ UNCHANGED <<books, reading>>
    BY <1>2, <2>4, FilesKeep, BooksRest
  <2> QED
    BY <1>2, <2>1, <2>2, <2>3, <2>4 DEF Next
<1> QED
  BY <1>1, <1>2, PTL DEF Spec

\* Objects, attachments and the requests about them keep their types.
THEOREM FilesAreTyped == Spec => []FilesTyped
<1>1. FInv => FilesTyped
  BY DEF FInv
<1> QED
  BY <1>1, BooksInvariant, PTL

\* However many uploads and deletions overlap, a row has its object and an object its row,
\* but for requests in flight or failed half-way, and a deleted workspace.
THEOREM ObjectsHaveRows == Spec => []ObjectsMatchRows
<1>1. FInv => ObjectsMatchRows
  BY DEF FInv
<1> QED
  BY <1>1, BooksInvariant, PTL

\* Categories, transactions and the requests about them keep their types.
THEOREM RowsAreTyped == Spec => []BooksTyped
<1>1. CInv => BooksTyped
  BY DEF CInv
<1> QED
  BY <1>1, BooksInvariant, PTL

\* Whatever runs beside it, deleting a category with a replacement takes the category of
\* no transaction but one that was written between its two statements, or all of them if the
\* category is its own replacement.
THEOREM NothingElseIsStripped == Spec => []StrippedWereLate
<1>1. CInv => StrippedWereLate
  BY DEF CInv
<1> QED
  BY <1>1, BooksInvariant, PTL

\* The invariant of the lists: what they give depends on the rows, which keep their types.
THEOREM ListsInvariant == Spec => []LInv
<1>1. Init => LInv
  BY ListsStart DEF Init
<1>2. ASSUME CInv, LInv, [Next]_vars PROVE LInv'
  <2>1. BooksTyped
    BY <1>2 DEF CInv
  <2>2. CASE UNCHANGED vars
    BY <1>2, <2>2, ListsRest DEF vars, books
  <2>3. CASE Disturb
    BY <1>2, <2>3, DisturbKeeps
  <2>4. ASSUME NEW q \in Readers, List(q) \/ NextPage(q) PROVE LInv'
    BY <1>2, <2>1, <2>4, ListBegins, CursorKeeps, OffsetKeeps DEF NextPage
  <2>5. CASE UNCHANGED <<books, reading>>
    BY <1>2, <2>5, ListsRest DEF books
  <2> QED
    BY <1>2, <2>2, <2>3, <2>4, <2>5 DEF Next
<1>3. CInv /\ LInv /\ [Next]_vars => LInv'
  BY <1>2
<1> QED
  BY <1>1, <1>3, BooksInvariant, PTL DEF Spec

\* For lists of any length, pages of any size and any writes between them: by cursor, each row
\* that stays as it is is given exactly once; by offset, if nothing changes.
THEOREM ListsAreWhole == Spec => []EachSeenOnce
<1>1. LInv => EachSeenOnce
  BY DEF LInv
<1> QED
  BY <1>1, ListsInvariant, PTL
=============================================================================
