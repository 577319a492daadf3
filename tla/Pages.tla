------------------------------- MODULE Pages -------------------------------
(***************************************************************************)
(* Lists of transactions, page by page, while they change: by cursor        *)
(* (findByAccountIdCursor, findByWorkspaceIdCursor) and by offset           *)
(* (findByWorkspaceId).  The order is by date and then by id, both          *)
(* descending.  The server keeps nothing between two pages: the client      *)
(* sends the cursor, or the offset, back.                                  *)
(***************************************************************************)
EXTENDS Categories

CONSTANTS
    Readers,   \* clients that list
    Limit      \* rows on a page

ASSUME PageConstants == Limit \in Nat \ {0} /\ None \notin [date: Dates, id: Txns]

VARIABLE reading   \* per reader: how it lists, its filter, where it is, and what it was given

Key(t) == [date |-> row[t].date, id |-> t]
\* k comes before l in a list.
Before(k, l) == k.date > l.date \/ (k.date = l.date /\ k.id > l.id)

Matches(q, t) == t \in Existing /\ reading[q].filter \in {None, row[t].cat}
Listed(q)     == {t \in Txns : Matches(q, t)}
Ahead(q, rows) == {t \in rows : reading[q].cursor = None \/ Before(reading[q].cursor, Key(t))}

\* The first n of them, or all.
IsTop(page, n, rows) ==
    /\ \A t \in page, u \in rows \ page : Before(Key(t), Key(u))
    /\ IF Cardinality(rows) <= n THEN page = rows ELSE Cardinality(page) = n

\* What becomes of a reader that is given a page and the cursor after it.
After(x, page, cursor, more) ==
    [x EXCEPT !.at = IF more THEN "reading" ELSE "done",
              !.cursor = cursor,
              !.offset = @ + Cardinality(page),
              !.seen = @ \cup page,
              !.again = @ \cup (page \cap x.seen)]
GivenPage(q, page, cursor, more) ==
    reading' = [reading EXCEPT ![q] = After(reading[q], page, cursor, more)]

-----------------------------------------------------------------------------
List(q) ==
    \E kind \in {"cursor", "offset"}, c \in cats \cup {None} :
        /\ kind \in routes
        /\ reading[q].at = "none"
        /\ reading' = [reading EXCEPT ![q] =
              [at |-> "reading", by |-> kind, filter |-> c, cursor |-> None, offset |-> 0,
               seen |-> {}, again |-> {}, still |-> {t \in Existing : c \in {None, row[t].cat}}, quiet |-> TRUE]]
        /\ UNCHANGED books

\* LIMIT and OFFSET
OffsetPage(q) ==
    /\ reading[q].at = "reading"
    /\ LET rows == Listed(q) IN
       \E skipped, page \in SUBSET rows :
          /\ IsTop(skipped, reading[q].offset, rows)
          /\ skipped \cap page = {}
          /\ IsTop(page, Limit, rows \ skipped)
          /\ GivenPage(q, page, None, skipped \cup page # rows)
    /\ UNCHANGED books

\* One row more than the limit is read, to know whether there are more.
CursorPage(q) ==
    /\ reading[q].at = "reading"
    /\ LET rows == Ahead(q, Listed(q)) IN
       \E page \in SUBSET rows :
          /\ IsTop(page, Limit, rows)
          /\ \/ page = rows /\ GivenPage(q, page, None, FALSE)
             \/ /\ page # rows
                /\ \E last \in page :
                      /\ \A t \in page \ {last} : Before(Key(t), Key(last))
                      /\ GivenPage(q, page, Key(last), TRUE)
    /\ UNCHANGED books

NextPage(q) ==
    \/ reading[q].by = "cursor" /\ CursorPage(q)
    \/ reading[q].by = "offset" /\ OffsetPage(q)

\* What has changed is not expected of a list in progress.
Disturb ==
    reading' = [q \in Readers |->
                   [reading[q] EXCEPT !.still = {t \in @ : row'[t] = row[t]},
                                      !.quiet = @ /\ row' = row]]

InitPages == reading = [q \in Readers |-> [at |-> "none", by |-> "cursor", filter |-> None,
                                           cursor |-> None, offset |-> 0, seen |-> {}, again |-> {},
                                           still |-> {}, quiet |-> TRUE]]

-----------------------------------------------------------------------------
(* Properties.                                                             *)

\* The type of the variable.
PagesTyped ==
    reading \in [Readers ->
        [at: {"none", "reading", "done"}, by: {"cursor", "offset"}, filter: Cats \cup {None},
         cursor: [date: Dates, id: Txns] \cup {None}, offset: Nat,
         seen: SUBSET Txns, again: SUBSET Txns, still: SUBSET Txns, quiet: BOOLEAN]]

\* A list by cursor gives each row that stays as it is exactly once, whatever is created,
\* edited, refiled or deleted around it between two pages. A list by offset does so
\* if nothing changes at all.
EachSeenOnce ==
    \A q \in Readers :
        reading[q].by = "cursor" \/ reading[q].quiet =>
            /\ reading[q].still \cap reading[q].again = {}
            /\ reading[q].at = "done" => reading[q].still \subseteq reading[q].seen
=============================================================================
