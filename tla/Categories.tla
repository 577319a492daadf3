----------------------------- MODULE Categories -----------------------------
(***************************************************************************)
(* The categories of one workspace and the transactions filed under them.   *)
(* The rows are those of the ledger, seen here by date and category.        *)
(*                                                                         *)
(* Deleting a category with a replacement is two statements: the            *)
(* transactions are moved, then the row is deleted, and the foreign key     *)
(* clears the category of what is still filed there.  An edit writes back   *)
(* the category that it has read.                                          *)
(***************************************************************************)
EXTENDS Naturals, FiniteSets

CONSTANTS
    Requests,    \* concurrent requests
    RouteSets,   \* sets of endpoints that clients call together
    Txns,        \* ids of transactions, in the order of the database
    Dates,
    Cats,        \* ids of categories
    FirstCats,   \* those there are at first
    FirstRows,   \* the transactions there are at first
    None

ASSUME CategoryConstants ==
    /\ Txns \subseteq Nat /\ IsFiniteSet(Txns) /\ Dates \subseteq Nat
    /\ FirstCats \subseteq Cats /\ None \notin Cats

Row == [date: Dates, cat: Cats \cup {None}]
ASSUME RowConstants ==
    /\ None \notin Row
    /\ FirstRows \in [Txns -> [date: Dates, cat: FirstCats \cup {None}] \cup {None}]

VARIABLES
    routes,     \* what clients call in this behaviour
    cats,       \* categories
    row,        \* transactions: [Txns -> a row, or None]
    req,        \* per request: where it is and what it holds
    used,       \* ghost: ids of categories and transactions that have been given
    late,       \* ghost: rows written while a deletion was between its two statements
    stripped    \* ghost: the rows that a deletion with a replacement has left without
                \* category, with the category and its replacement

books == <<routes, cats, row, req, used, late, stripped>>

Places == {"idle", "txn.save", "reassign", "category.delete"}
Idle   == [at |-> "idle", txn |-> 0, held |-> None, from |-> None, to |-> None]

-----------------------------------------------------------------------------
Start(r, route) == route \in routes /\ req[r] = Idle
\* The method returns, or throws to the controller.
Answer(r)       == req' = [req EXCEPT ![r] = Idle]

Existing    == {t \in Txns : row[t] # None}
Filed(c)    == {t \in Existing : row[t].cat = c}
\* The foreign key of transactions.category_id
MayFile(c)  == c \in cats \cup {None}
\* What clients may name: an id that has been given, deleted since or not.
Given       == Cats \cap used
Refile(ts, c) == row' = [t \in Txns |-> IF t \in ts THEN [row[t] EXCEPT !.cat = c] ELSE row[t]]

\* Some deletion with a replacement has moved what there was, and not yet deleted.
Between == \E q \in Requests : req[q].at = "category.delete" /\ req[q].to # None
Written(ts) == late' = IF Between THEN late \cup ts ELSE late

-----------------------------------------------------------------------------
(* Transactions: what the ledger commits, as far as it matters here.       *)
CreateTransaction(r) ==
    \E t \in Txns \ used, d \in Dates, c \in cats \cup {None} :
        /\ Start(r, "create")
        /\ row' = [row EXCEPT ![t] = [date |-> d, cat |-> c]]
        /\ used' = used \cup {t}
        /\ Written({t})
        /\ UNCHANGED <<routes, cats, req, stripped>>

UpdateTransaction(r) ==
    \E t \in Existing :
        /\ Start(r, "edit")
        /\ \E d \in Dates \cup {row[t].date}, c \in cats \cup {row[t].cat} :
              req' = [req EXCEPT ![r].at = "txn.save", ![r].txn = t,
                                 ![r].held = [date |-> d, cat |-> c]]
        /\ UNCHANGED <<routes, cats, row, used, late, stripped>>

\* A row that is gone, or a category that is, rolls the edit back.
SaveTransaction(r) ==
    /\ req[r].at = "txn.save"
    /\ LET t == req[r].txn IN
       IF t \in Existing /\ MayFile(req[r].held.cat)
       THEN row' = [row EXCEPT ![t] = req[r].held] /\ Written({t})
       ELSE UNCHANGED <<row, late>>
    /\ Answer(r)
    /\ UNCHANGED <<routes, cats, used, stripped>>

DeleteTransaction(r) ==
    \E t \in Existing :
        /\ Start(r, "delete")
        /\ row' = [row EXCEPT ![t] = None]
        /\ UNCHANGED <<routes, cats, req, used, late, stripped>>

-----------------------------------------------------------------------------
(* Categories.  A deletion looks at neither the category nor its           *)
(* replacement, which may be gone, or the same.                            *)
CreateCategory(r) ==
    \E c \in Cats \ used :
        /\ Start(r, "newCategory")
        /\ cats' = cats \cup {c}
        /\ used' = used \cup {c}
        /\ UNCHANGED <<routes, row, req, late, stripped>>

DeleteCategory(r) ==
    \E c \in Given :
        /\ Start(r, "dropCategory")
        /\ req' = [req EXCEPT ![r].at = "category.delete", ![r].from = c]
        /\ UNCHANGED <<routes, cats, row, used, late, stripped>>

DeleteCategoryWithReassign(r) ==
    \E c, d \in Given :
        /\ Start(r, "replaceCategory")
        /\ req' = [req EXCEPT ![r].at = "reassign", ![r].from = c, ![r].to = d]
        /\ UNCHANGED <<routes, cats, row, used, late, stripped>>

\* A slip: only what is filed under the replacement already is looked at.
ReassignBackwards(r) ==
    /\ req[r].at = "reassign"
    /\ Refile(Filed(req[r].to), req[r].to)
    /\ req' = [req EXCEPT ![r].at = "category.delete"]
    /\ UNCHANGED <<routes, cats, used, late, stripped>>

\* One UPDATE, which fails if there are rows to move and no such replacement.
ReassignTransactions(r) ==
    /\ req[r].at = "reassign"
    /\ LET moved == Filed(req[r].from) IN
       IF moved = {} \/ MayFile(req[r].to)
       THEN /\ Refile(moved, req[r].to)
            /\ Written(moved)
            /\ req' = [req EXCEPT ![r].at = "category.delete"]
       ELSE Answer(r) /\ UNCHANGED <<row, late>>
    /\ UNCHANGED <<routes, cats, used, stripped>>

\* ON DELETE SET NULL
DropCategory(r) ==
    /\ req[r].at = "category.delete"
    /\ cats' = cats \ {req[r].from}
    /\ Refile(Filed(req[r].from), None)
    /\ stripped' = IF req[r].to = None THEN stripped
                   ELSE stripped \cup (Filed(req[r].from) \X {req[r].from} \X {req[r].to})
    /\ Answer(r)
    /\ UNCHANGED <<routes, used, late>>

\* A statement fails: the method throws, and what it has written stays.
Fail(r) ==
    /\ req[r].at # "idle"
    /\ Answer(r)
    /\ UNCHANGED <<routes, cats, row, used, late, stripped>>

InitBooks ==
    /\ routes \in RouteSets
    /\ cats = FirstCats /\ row = FirstRows
    /\ req = [r \in Requests |-> Idle]
    /\ used = FirstCats \cup Existing /\ late = {} /\ stripped = {}

NextBook(r) ==
    \/ CreateTransaction(r) \/ UpdateTransaction(r) \/ SaveTransaction(r) \/ DeleteTransaction(r)
    \/ CreateCategory(r) \/ DeleteCategory(r) \/ DeleteCategoryWithReassign(r)
    \/ ReassignTransactions(r) \/ DropCategory(r) \/ Fail(r)

-----------------------------------------------------------------------------
(* Properties.                                                             *)

ReqType == [at: Places, txn: Txns \cup {0}, held: Row \cup {None},
            from: Cats \cup {None}, to: Cats \cup {None}]

\* The type of the variables; the foreign key holds.
BooksTyped ==
    /\ routes \in RouteSets
    /\ cats \subseteq Cats
    /\ row \in [Txns -> Row \cup {None}]
    /\ req \in [Requests -> ReqType]
    /\ used \subseteq Cats \cup Txns
    /\ late \subseteq Txns /\ stripped \subseteq Txns \X Cats \X Cats

\* Deleting a category with another one as its replacement takes the category of no
\* transaction, except one that was written between the move and the deletion: created
\* there, edited back, or moved there by another deletion.  A category that is given as its
\* own replacement is deleted all the same, and all its transactions lose it.
StrippedWereLate == \A x \in stripped : x[1] \in late \/ x[2] = x[3]
=============================================================================
