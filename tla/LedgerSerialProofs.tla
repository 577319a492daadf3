------------------------- MODULE LedgerSerialProofs -------------------------
(***************************************************************************)
(* Proofs about Ledger with one request at a time, for every number of     *)
(* accounts, transactions and clients: the links between transactions once *)
(* a request has been answered, whatever statements have failed.           *)
(***************************************************************************)
EXTENDS LedgerProofs

-----------------------------------------------------------------------------
(* The links, with one request at a time.                                  *)

\* No edit replaces a list of links.
LinksKept == \A e \in Edits : e.links = Keep

\* Statements may fail by chance only where they are inside a transaction: the routes that
\* link and unlink, whose two updates are in none, are not called.
LinksCovered == MayFail => Routes \cap {"link", "unlink"} = {}

Is(c, q, i)   == c.q = q /\ c.id = i
Some(A, q, i) == \E c \in A : Is(c, q, i)

\* Row i is x once the writes among the calls A have been made.
Ends(t, A, i, x) ==
    \/ x = NoRow /\ Some(A, "remove", i)
    \/ ~Some(A, "remove", i) /\ \E c \in A : Is(c, "put", i) /\ x = c.row
    \/ ~Some(A, "remove", i) /\ ~Some(A, "put", i) /\ \E c \in A : Is(c, "insert", i) /\ x = c.row
    \/ ~Some(A, "remove", i) /\ ~Some(A, "put", i) /\ ~Some(A, "insert", i) /\ x = RowAt(t, i)

\* Call c will read row j, and add o to its links or take o from them.
Visits(c, how, j, o) ==
    \/ c.q = "each" /\ c.how = how /\ c.other = o /\ j \in c.ids
    \/ c.q = "find" /\ c.how = how /\ c.arg = o /\ c.id = j
Seen(A, how, j, o) == \E c \in A : Visits(c, how, j, o)

\* Row i links to row j, which does not link back: one of the calls A makes the one link or
\* drops the other.
Mended(A, i, j) == Seen(A, "linkBack", j, i) \/ Seen(A, "linkDrop", i, j)

Given(i) == mate[i] # Unborn

(* With the writes among A made: a link that goes one way is still to be   *)
(* mended; links go to ids that have been given; and what is to be done to *)
(* a row is what the other row of the link asks for.                       *)
Sound(t, A) ==
    /\ \A i, j \in Txns : \A x, y \in Row :
          i # j /\ Ends(t, A, i, x) /\ Ends(t, A, j, y) /\ j \in x.links /\ i \notin y.links
          => Mended(A, i, j)
    /\ \A i \in Txns : \A x \in Row : Ends(t, A, i, x) => Given(i) /\ \A j \in x.links : Given(j)
    /\ \A j, o \in Txns : Seen(A, "linkBack", j, o)
          => Given(o) /\ \A x \in Row : Ends(t, A, o, x) => j \in x.links
    /\ \A j, o \in Txns : Seen(A, "linkDrop", j, o)
          => \A x \in Row : Ends(t, A, o, x) => j \notin x.links

Tidy(t) == Sound(t, {})

Reads(c) == c.q \in {"find", "each"}
Aside(c) == c.q \notin {"begin", "find", "each", "insert", "put", "remove"}
Last(c)  == c.q = "find" /\ c.how \in {"linkFrom", "linkTo", "unlinkFrom"}

\* What is known of a link that has been asked for.
Asked(t, c) ==
    /\ c.q = "find" /\ c.how = "linkFrom" => Given(c.id) /\ Given(c.arg)
    /\ c.q = "find" /\ c.how = "linkTo" =>
          Given(c.id) /\ Given(c.arg.id) /\ RowAt(t, c.arg.id) = c.arg.row

\* The order of calls: a row is read after the writes that are known, and before those that
\* depend on it.
Precedes(c, d) ==
    /\ c.q = "remove" => ~Is(d, "put", c.id) /\ ~Is(d, "insert", c.id)
    /\ c.q = "put" => ~Is(d, "insert", c.id)
    /\ Reads(c) => d.q \notin {"insert", "put"}
    /\ Reads(c) /\ Reads(d) => (c.how = "linkBack" <=> d.how = "linkBack")
    /\ ~Last(c) /\ ~Last(d)
    /\ ~Aside(c) => d.q # "begin"
Placed(c, L) == \A d \in L : Precedes(c, d)
AllPlaced(calls) == \A k \in 1..Len(calls) : Placed(calls[k], Later(calls, k))

\* A call that nothing refuses.
Light(t, c) ==
    \/ c.q = "find" /\ c.how = "linkDrop"
    \/ c.q = "put" /\ RowAt(t, c.id) # NoRow /\ SameMoney(RowAt(t, c.id), c.row)

\* Outside a transaction (link and unlink have none) at most the last of two writes is
\* left when the links are not mutual, and it cannot be refused.
Resting(calls) ==
    \/ \E c \in Later(calls, 0) : c.q = "begin"
    \/ \A c \in Later(calls, 0) : Aside(c)
    \/ ~MayFail /\ calls # <<>> /\ Last(calls[1])
Writing(calls) ==
    /\ ~MayFail /\ calls # <<>> /\ Light(Pool, calls[1])
    /\ \/ /\ Tidy(Pool) /\ calls[1].q = "put"
          /\ Later(calls, 2) = {} /\ \A c \in Later(calls, 1) : Light(Pool, c)
       \/ Later(calls, 1) = {}
Outside(r) ==
    \/ Tidy(Pool) /\ Resting(req[r].todo)
    \/ /\ Writing(req[r].todo) /\ req[r].on = ptr[Home[r]]["trx"]
       /\ Tidy(Pool) \/ req[r].on # Dead

Linked(r) ==
    /\ AllPlaced(req[r].todo)
    /\ ~req[r].err => Sound(req[r].own, Later(req[r].todo, 0))
    /\ ~req[r].err => \A c \in Later(req[r].todo, 0) : Asked(req[r].own, c)
    /\ req[r].own = Pool => Outside(r)
    /\ req[r].own # Pool => Tidy(Pool)

LInv ==
    /\ \A r \in Requests : Linked(r)
    /\ Requests = {} => \A i \in Txns : row[i] = NoRow

-----------------------------------------------------------------------------
(* What the writes that are left make of the rows.                         *)

\* A row will have the links that it would have had.
Narrows(u, B, t, A) ==
    \A i \in Txns : \A x \in Row :
        Ends(u, B, i, x)' => \E y \in Row : y.links = x.links /\ Ends(t, A, i, y)
SameVisits(A, B) ==
    \A how \in {"linkBack", "linkDrop"} : \A j, o : Seen(A, how, j, o) <=> Seen(B, how, j, o)
GivenStays == \A i \in Txns : Given(i) => Given(i)'
Writes(c) == c.q \in {"insert", "put", "remove"}
SameWrites(A, B) == \A c : Writes(c) => (c \in A <=> c \in B)

LEMMA SoundStill ==
    ASSUME NEW t, NEW u, NEW A, NEW B, Sound(t, A), Narrows(u, B, t, A), SameVisits(A, B), GivenStays
    PROVE  Sound(u, B)'
<1>1. ASSUME NEW i \in Txns, NEW j \in Txns, NEW x \in Row, NEW y \in Row,
             i # j, Ends(u, B, i, x)', Ends(u, B, j, y)', j \in x.links, i \notin y.links
      PROVE  Mended(B, i, j)
  <2>1. PICK v \in Row : v.links = x.links /\ Ends(t, A, i, v)
    BY <1>1 DEF Narrows
  <2>2. PICK w \in Row : w.links = y.links /\ Ends(t, A, j, w)
    BY <1>1 DEF Narrows
  <2>3. Mended(A, i, j)
    BY <1>1, <2>1, <2>2 DEF Sound
  <2>. QED  BY <2>3 DEF Mended, SameVisits
<1>2. ASSUME NEW i \in Txns, NEW x \in Row, Ends(u, B, i, x)'
      PROVE  Given(i)' /\ \A j \in x.links : Given(j)'
  <2>1. PICK v \in Row : v.links = x.links /\ Ends(t, A, i, v)
    BY <1>2 DEF Narrows
  <2>2. x.links \subseteq Txns
    BY DEF Row
  <2>. QED  BY <2>1, <2>2 DEF Sound, GivenStays
<1>3. ASSUME NEW j \in Txns, NEW o \in Txns, Seen(B, "linkBack", j, o)
      PROVE  Given(o)' /\ \A x \in Row : Ends(u, B, o, x)' => j \in x.links
  BY <1>3 DEF Sound, Narrows, GivenStays, SameVisits
<1>4. ASSUME NEW j \in Txns, NEW o \in Txns, Seen(B, "linkDrop", j, o)
      PROVE  \A x \in Row : Ends(u, B, o, x)' => j \notin x.links
  BY <1>4 DEF Sound, Narrows, SameVisits
<1>. QED  BY <1>1, <1>2, <1>3, <1>4 DEF Sound, Mended, Seen, Visits

\* Rows stay as they are, or vanish.
LEMMA NarrowsStill ==
    ASSUME NEW t, NEW u, NEW A, NEW B, SameWrites(A, B),
           \A i \in Txns : RowAt(u, i)' = RowAt(t, i) \/ RowAt(u, i)' = NoRow
    PROVE  Narrows(u, B, t, A)
<1>. SUFFICES ASSUME NEW i \in Txns, NEW x \in Row, Ends(u, B, i, x)'
              PROVE  Ends(t, A, i, x)
  BY DEF Narrows
<1>1. x # NoRow
  BY Sentinels
<1>2. \A q \in {"insert", "put", "remove"} :
          (Some(B, q, i) <=> Some(A, q, i)) /\ \A c : Is(c, q, i) => (c \in B <=> c \in A)
  BY DEF Some, Is, SameWrites, Writes
<1>3. RowAt(u, i)' = x => RowAt(t, i) = x
  BY <1>1
<1>. QED  BY <1>1, <1>2, <1>3 DEF Ends, Some

\* A write that was left has been made.
LEMMA NarrowsWritten ==
    ASSUME NEW t, NEW c, Writes(c), NEW L, Placed(c, L), NEW x, x = IF c.q = "remove" THEN NoRow ELSE c.row,
           \A i \in Txns : RowAt(t, i)' = IF i = c.id THEN x ELSE RowAt(t, i)
    PROVE  Narrows(t, L, t, {c} \cup L)
<1>. SUFFICES ASSUME NEW i \in Txns, NEW y \in Row, Ends(t, L, i, y)'
              PROVE  Ends(t, {c} \cup L, i, y)
  BY DEF Narrows
<1>1. y # NoRow
  BY Sentinels
<1>2. \A q : Some({c} \cup L, q, i) <=> Is(c, q, i) \/ Some(L, q, i)
  BY DEF Some
<1>3. CASE i # c.id
  <2>1. RowAt(t, i)' = RowAt(t, i) /\ \A q : ~Is(c, q, i)
    BY <1>3 DEF Is
  <2>. QED  BY <1>2, <2>1 DEF Ends
<1>4. CASE i = c.id
  <2>1. RowAt(t, i)' = x
    BY <1>4
  <2>2. CASE c.q = "insert"
    <3>1. Is(c, "insert", i) /\ ~Is(c, "put", i) /\ ~Is(c, "remove", i) /\ x = c.row
      BY <1>4, <2>2 DEF Is
    <3>. QED  BY <1>2, <2>1, <3>1 DEF Ends
  <2>3. CASE c.q = "put"
    <3>1. Is(c, "put", i) /\ ~Is(c, "insert", i) /\ ~Is(c, "remove", i) /\ x = c.row
      BY <1>4, <2>3 DEF Is
    <3>2. ~Some(L, "insert", i)
      BY <1>4, <2>3 DEF Placed, Precedes, Some
    <3>3. ~Some(L, "remove", i) /\ (y = c.row \/ \E d \in L : Is(d, "put", i) /\ y = d.row)
      BY <1>1, <2>1, <3>1, <3>2 DEF Ends, Some
    <3>4. \E d \in {c} \cup L : Is(d, "put", i) /\ y = d.row
      BY <3>1, <3>3
    <3>5. ~Some({c} \cup L, "remove", i)
      BY <1>2, <3>1, <3>3
    <3>. QED  BY <3>4, <3>5 DEF Ends
  <2>4. CASE c.q = "remove"
    <3>1. ~Some(L, "insert", i) /\ ~Some(L, "put", i)
      BY <1>4, <2>4 DEF Placed, Precedes, Some
    <3>2. x = NoRow
      BY <2>4
    <3>. QED  BY <1>1, <2>1, <3>1, <3>2 DEF Ends, Some
  <2>. QED  BY <2>2, <2>3, <2>4 DEF Writes
<1>. QED  BY <1>3, <1>4

LEMMA SoundMoved ==
    ASSUME NEW t, NEW u, NEW A, NEW B, Sound(t, A), SameWrites(A, B), SameVisits(A, B), GivenStays,
           \A i \in Txns : RowAt(u, i)' = RowAt(t, i) \/ RowAt(u, i)' = NoRow
    PROVE  Sound(u, B)'
BY NarrowsStill, SoundStill, Zenon

LEMMA TidyStill ==
    ASSUME GivenStays, Tidy(Pool), NEW u, \A i \in Txns : RowAt(u, i)' = RowAt(Pool, i) \/ RowAt(u, i)' = NoRow
    PROVE  Tidy(u)'
<1>1. SameWrites({}, {}) /\ SameVisits({}, {})
  BY DEF SameWrites, SameVisits
<1>2. Sound(u, {})'
  BY <1>1, SoundMoved DEF Tidy
<1>. QED  BY <1>2 DEF Tidy, Sound, Ends, Mended, Seen, Some

-----------------------------------------------------------------------------
(* Going on.                                                               *)

LEMMA LinkedInAll ==
    ASSUME OneRequest, NEW r \in Requests, Linked(r)'
    PROVE  LInv'
BY DEF OneRequest, LInv

\* The calls can come before those of L.
Placing(more, L) == \A k \in 1..Len(more) : Placed(more[k], Later(more, k) \cup L)
AllAsked(t, A) == \A c \in A : Asked(t, c)

\* What the list new is, when the first call of the list old is replaced by more.
Succeeds(new, old, more) ==
    /\ AllPlaced(new) /\ new \in Seq(Calls)
    /\ Later(new, 0) = Later(more, 0) \cup Later(old, 1)
    /\ new = <<>> => Later(old, 1) = {}
    /\ more # <<>> => new # <<>> /\ new[1] = more[1] /\ Later(new, 1) = Later(more, 1) \cup Later(old, 1)
    /\ more = <<>> /\ new # <<>> => new[1] \in Later(old, 1) /\ Later(new, 1) = Later(old, 2)

LEMMA ReplacedList ==
    ASSUME NEW old \in Seq(Calls), old # <<>>, AllPlaced(old), NEW more \in Seq(Calls),
           NEW L, L = Later(old, 1), NEW new, new = more \o Tail(old), Placing(more, L)
    PROVE  Succeeds(new, old, more)
<1>. SUFFICES ASSUME NEW rest, rest = Tail(old)
              PROVE  Succeeds(new, old, more)
  BY Zenon
<1>1. /\ rest \in Seq(Calls) /\ new \in Seq(Calls) /\ new = more \o rest
      /\ Len(new) = Len(more) + Len(rest) /\ Len(more) \in Nat /\ Len(rest) \in Nat
  OBVIOUS
<1>2. /\ \A k \in 1..Len(rest) : k + 1 \in 1..Len(old) /\ rest[k] = old[k + 1]
      /\ \A k \in 0..Len(rest) : Later(rest, k) = Later(old, k + 1)
      /\ Later(rest, 0) = L
  <2>1. 0 \in 0..Len(rest) /\ 0 + 1 = 1
    BY <1>1
  <2>. QED  BY <1>1, <2>1, LaterTail
<1>3. /\ \A k \in 1..Len(new) :
            \/ /\ k \in 1..Len(more) /\ new[k] = more[k]
               /\ Later(new, k) = Later(more, k) \cup L
            \/ /\ k - Len(more) \in 1..Len(rest) /\ new[k] = rest[k - Len(more)]
               /\ Later(new, k) = Later(rest, k - Len(more))
      /\ Later(new, 0) = Later(more, 0) \cup L
  <2>1. /\ \A k \in 1..Len(more \o rest) :
              \/ /\ k \in 1..Len(more) /\ (more \o rest)[k] = more[k]
                 /\ Later(more \o rest, k) = Later(more, k) \cup Later(rest, 0)
              \/ /\ k - Len(more) \in 1..Len(rest) /\ (more \o rest)[k] = rest[k - Len(more)]
                 /\ Later(more \o rest, k) = Later(rest, k - Len(more))
        /\ Later(more \o rest, 0) = Later(more, 0) \cup Later(rest, 0)
    BY <1>1, LaterMore, Zenon
  <2>. QED  BY <1>1, <1>2, <2>1
<1>4. \A k \in 1..Len(rest) : Placed(rest[k], Later(rest, k))
  <2>1. \A k \in 1..Len(rest) : k \in 0..Len(rest)
    BY <1>1
  <2>. QED  BY <1>2, <2>1 DEF AllPlaced
<1>5. AllPlaced(new)
  BY <1>3, <1>4, Zenon DEF AllPlaced, Placing
<1>6. new = <<>> => L = {}
  <2>1. ASSUME new = <<>>
        PROVE  Len(rest) = 0 /\ (0 + 1)..0 = {}
    <3>1. Len(new) = 0
      BY <2>1
    <3>2. (0 + 1)..0 = {}
      OBVIOUS
    <3>3. Len(new) = Len(more) + Len(rest) /\ Len(more) \in Nat /\ Len(rest) \in Nat
      BY <1>1
    <3>4. \A m, n \in Nat : 0 = m + n => n = 0
      OBVIOUS
    <3>. QED  BY <3>1, <3>2, <3>3, <3>4, Zenon
  <2>. QED  BY <1>2, <2>1, Zenon DEF Later
<1>7. more # <<>> => new # <<>> /\ new[1] = more[1] /\ Later(new, 1) = Later(more, 1) \cup L
  <2>1. ASSUME more # <<>>
        PROVE  /\ new # <<>> /\ 1 \in 1..Len(new) /\ new[1] = more[1]
               /\ 1 - Len(more) \notin 1..Len(rest)
    BY <1>1, <2>1
  <2>. QED  BY <1>3, <2>1
<1>8. ASSUME more = <<>>, new # <<>>
      PROVE  new[1] \in L /\ Later(new, 1) = Later(old, 2)
  <2>1. new = rest
    BY <1>1, <1>8
  <2>2. 1 \in 1..Len(rest) /\ 1 \in 0..Len(rest) /\ 1 \in (0 + 1)..Len(rest) /\ 1 + 1 = 2
    BY <1>1, <1>8, <2>1
  <2>3. Later(rest, 1) = Later(old, 2)
    BY <1>2, <2>2
  <2>4. rest[1] \in Later(rest, 0)
    BY <2>2, Zenon DEF Later
  <2>. QED  BY <1>2, <2>1, <2>3, <2>4, Zenon
<1>. QED  BY <1>1, <1>3, <1>5, <1>6, <1>7, <1>8, Zenon DEF Succeeds

LEMMA GoesOnLinked ==
    ASSUME IInv, NEW r \in Requests, Linked(r), req[r].todo # <<>>, Call(r).q # "begin",
           NEW more \in Seq(InnerCalls), Replaces(r, more), ~req'[r].err,
           NEW t, t = req[r].own, NEW L, L = Later(req[r].todo, 1),
           Placing(more, L), Sound(t, Later(more, 0) \cup L)', AllAsked(t, Later(more, 0))',
           t = Pool => Outside(r)', t # Pool => Tidy(Pool)'
    PROVE  Linked(r)'
<1>. SUFFICES ASSUME NEW old, old = req[r].todo, NEW new, new = more \o Tail(old)
              PROVE  Linked(r)'
  BY Zenon
<1>1. /\ old \in Seq(Calls) /\ more \in Seq(Calls) /\ old # <<>> /\ AllPlaced(old)
      /\ req'[r].todo = new /\ req'[r].own = t
  BY HeadIsCall, InnerIsNotBegin DEF IInv, Replaces, Linked
<1>2. Succeeds(new, old, more)
  <2>1. L = Later(old, 1) /\ Placing(more, L)
    OBVIOUS
  <2>. QED  BY <1>1, <2>1, ReplacedList, Zenon
<1>3. \A d \in L : ~Last(d)
  <2>1. 1 \in 1..Len(old)
    BY <1>1
  <2>. QED  BY <1>1, <2>1 DEF AllPlaced, Placed, Precedes
<1>4. AllPlaced(req[r].todo)'
  BY <1>1, <1>2 DEF AllPlaced, Succeeds
<1>5. Later(req[r].todo, 0)' = Later(more, 0) \cup L
  <2>1. Later(new, 0) = Later(more, 0) \cup L
    BY <1>2 DEF Succeeds
  <2>. QED  BY <1>1, <2>1, Zenon DEF Later
<1>6. Sound(req[r].own, Later(req[r].todo, 0))'
  BY <1>1, <1>5, Zenon
<1>7. \A c \in Later(req[r].todo, 0)' : Asked(req[r].own, c)'
  <2>1. \A c \in L : Asked(t, c)'
    BY <1>3 DEF Asked, Last
  <2>2. \A c \in Later(more, 0) \cup L : Asked(t, c)'
    BY <2>1 DEF AllAsked
  <2>. QED  BY <1>1, <1>5, <2>2 DEF Asked
<1>. QED  BY <1>1, <1>4, <1>6, <1>7 DEF Linked

\* What is known of request r, with database handle t, when call c is next and L are the
\* calls after it.
LinkedNow(r, t, c, L) ==
    /\ ~req[r].err /\ Linked(r) /\ Placed(c, L)
    /\ Sound(t, {c} \cup L) /\ Asked(t, c)
    /\ t = Pool => \/ Tidy(Pool) /\ ((\E d \in L : d.q = "begin") \/ (\A d \in {c} \cup L : Aside(d))
                                     \/ (~MayFail /\ Last(c)))
                   \/ /\ ~MayFail /\ Light(Pool, c) /\ req[r].on = ptr[Home[r]]["trx"]
                      /\ Tidy(Pool) \/ req[r].on # Dead
    /\ t # Pool => Tidy(Pool)

LEMMA HeadIsLinked ==
    ASSUME IInv, LInv, NEW r \in Requests, req[r].todo # <<>>, Call(r).q # "begin"
    PROVE  LinkedNow(r, req[r].own, Call(r), Later(req[r].todo, 1))
<1>. SUFFICES ASSUME NEW t, t = req[r].own, NEW L, L = Later(req[r].todo, 1), NEW c, c = Call(r)
              PROVE  LinkedNow(r, t, c, L)
  OBVIOUS
<1>1. ~req[r].err /\ Linked(r)
  BY DEF IInv, ErrInside, LInv
<1>2. /\ req[r].todo \in Seq(Calls) /\ c = req[r].todo[1] /\ c = Head(req[r].todo)
      /\ 1 \in 1..Len(req[r].todo)
  BY HeadIsCall DEF IInv, Call
<1>3. Later(req[r].todo, 0) = {c} \cup L
  BY <1>2, LaterTail
<1>4. Placed(c, L)
  BY <1>1, <1>2 DEF Linked, AllPlaced
<1>5. Sound(t, {c} \cup L) /\ Asked(t, c)
  BY <1>1, <1>3, Zenon DEF Linked
<1>6. t = Pool => \/ Tidy(Pool) /\ ((\E d \in L : d.q = "begin") \/ (\A d \in {c} \cup L : Aside(d))
                                    \/ (~MayFail /\ Last(c)))
                  \/ /\ ~MayFail /\ Light(Pool, c) /\ req[r].on = ptr[Home[r]]["trx"]
                     /\ Tidy(Pool) \/ req[r].on # Dead
  <2>1. t = Pool => Outside(r)
    BY <1>1 DEF Linked
  <2>2. Resting(req[r].todo) => (\E d \in L : d.q = "begin") \/ (\A d \in {c} \cup L : Aside(d))
                                 \/ (~MayFail /\ Last(c))
    BY <1>2, <1>3 DEF Resting
  <2>3. Writing(req[r].todo) => ~MayFail /\ Light(Pool, c)
    BY <1>2 DEF Writing
  <2>. QED  BY <2>1, <2>2, <2>3 DEF Outside
<1>7. t # Pool => Tidy(Pool)
  BY <1>1 DEF Linked
<1>. QED  BY <1>1, <1>4, <1>5, <1>6, <1>7 DEF LinkedNow

LEMMA NewList ==
    ASSUME IInv, LInv, NEW r \in Requests, req[r].todo # <<>>, Call(r).q # "begin",
           NEW more \in Seq(InnerCalls), Replaces(r, more), Placing(more, Later(req[r].todo, 1))
    PROVE  Succeeds(req'[r].todo, req[r].todo, more)
<1>. SUFFICES ASSUME NEW old, old = req[r].todo, NEW new, new = req'[r].todo, NEW L, L = Later(old, 1)
              PROVE  Succeeds(new, old, more)
  OBVIOUS
<1>1. /\ old \in Seq(Calls) /\ more \in Seq(Calls) /\ old # <<>> /\ AllPlaced(old)
      /\ new = more \o Tail(old)
  BY HeadIsCall, InnerIsNotBegin DEF IInv, Replaces, LInv, Linked
<1>2. L = Later(old, 1) /\ Placing(more, L)
  OBVIOUS
<1>. QED  BY <1>1, <1>2, ReplacedList, Zenon

LEMMA SameIdsGiven == UNCHANGED mate => GivenStays
BY DEF GivenStays, Given

\* A call that neither reads nor writes a transaction: rows stay as they are or, with their
\* account, vanish.
LEMMA AsideLinked ==
    ASSUME OneRequest, IInv, LInv, NEW r \in Requests, req[r].todo # <<>>, Aside(Call(r)),
           NEW more \in Seq(InnerCalls), Replaces(r, more), ~req'[r].err, UNCHANGED mate,
           \A k \in 1..Len(more) : Aside(more[k]), NEW t, t = req[r].own,
           \A i \in Txns : RowAt(t, i)' = RowAt(t, i) \/ RowAt(t, i)' = NoRow,
           \A i \in Txns : RowAt(Pool, i)' = RowAt(Pool, i) \/ RowAt(Pool, i)' = NoRow
    PROVE  LInv'
<1>. SUFFICES ASSUME NEW L, L = Later(req[r].todo, 1), NEW c, c = Call(r),
                     NEW M, M = Later(more, 0)
              PROVE  LInv'
  OBVIOUS
<1>1. Call(r).q # "begin" /\ ~Writes(c) /\ ~Reads(c) /\ ~Last(c)
  BY DEF Aside, Writes, Reads, Last
<1>2. /\ ~req[r].err /\ Linked(r) /\ Placed(c, L) /\ Sound(t, {c} \cup L)
      /\ t = Pool => Tidy(Pool) /\ ((\E d \in L : d.q = "begin") \/ (\A d \in {c} \cup L : Aside(d)))
      /\ t # Pool => Tidy(Pool)
  <2>1. LinkedNow(r, t, c, L)
    BY <1>1, HeadIsLinked
  <2>2. ~Light(Pool, c)
    BY DEF Light, Aside
  <2>. QED  BY <1>1, <2>1, <2>2 DEF LinkedNow
<1>3. \A d \in M : Aside(d)
  BY DEF Later
<1>4. SameWrites({c} \cup L, M \cup L)
  BY <1>1, <1>3 DEF SameWrites, Writes, Aside
<1>5. SameVisits({c} \cup L, M \cup L)
  BY <1>1, <1>3 DEF SameVisits, Seen, Visits, Reads, Aside
<1>6. Placing(more, L)
  <2>1. \A d \in L : ~Last(d)
    BY <1>2 DEF Placed, Precedes
  <2>2. ASSUME NEW k \in 1..Len(more), NEW d \in Later(more, k) \cup L
        PROVE  Precedes(more[k], d)
    <3>1. Later(more, k) \subseteq M
      BY DEF Later
    <3>2. ~Last(d)
      BY <1>3, <2>1, <3>1 DEF Aside, Last
    <3>. QED  BY <3>2 DEF Precedes, Aside, Reads, Last
  <2>. QED  BY <2>2 DEF Placing, Placed
<1>7. GivenStays
  BY SameIdsGiven
<1>8. Sound(t, M \cup L)'
  BY <1>2, <1>4, <1>5, <1>7, SoundMoved
<1>9. Tidy(Pool)'
  BY <1>2, <1>7, TidyStill
<1>10. AllAsked(t, M)'
  BY <1>3 DEF AllAsked, Asked, Aside
<1>11. t = Pool => Outside(r)'
  <2>1. Succeeds(req'[r].todo, req[r].todo, more)
    BY <1>1, <1>6, NewList
  <2>2. Later(req'[r].todo, 0) = M \cup L
    BY <2>1 DEF Succeeds
  <2>3. t = Pool => (\E d \in M \cup L : d.q = "begin") \/ (\A d \in M \cup L : Aside(d))
    BY <1>2, <1>3
  <2>4. t = Pool => Resting(req[r].todo)'
    BY <2>2, <2>3, Zenon DEF Resting, Later
  <2>. QED  BY <1>9, <2>4 DEF Outside
<1>12. Linked(r)'
  BY <1>1, <1>2, <1>6, <1>8, <1>9, <1>10, <1>11, GoesOnLinked, Zenon
<1>. QED  BY <1>12, LinkedInAll

LEMMA EmptyList ==
    /\ AllPlaced(<<>>) /\ Later(<<>>, 0) = {} /\ Resting(<<>>) /\ \A calls : calls = <<>> => ~Writing(calls)
<1>1. Len(<<>>) = 0 /\ 1..0 = {} /\ Later(<<>>, 0) = {}
  BY LaterShort
<1>. QED  BY <1>1 DEF AllPlaced, Resting, Writing

\* The request has no call left.
LEMMA EmptyLinked ==
    ASSUME OneRequest, NEW r \in Requests, req'[r].todo = <<>>, Tidy(Pool)',
           ~req'[r].err => req'[r].own = Pool
    PROVE  LInv'
<1>1. AllPlaced(req[r].todo)'
  BY EmptyList DEF AllPlaced
<1>2. Later(req[r].todo, 0)' = {}
  BY EmptyList DEF Later
<1>3. ~req'[r].err => Sound(req[r].own, Later(req[r].todo, 0))'
  <2>1. Sound(Pool, {})'
    BY DEF Tidy
  <2>. QED  BY <1>2, <2>1, Zenon
<1>4. Outside(r)'
  <2>1. Resting(req[r].todo)'
    BY <1>2, EmptyList DEF Resting, Later
  <2>. QED  BY <2>1 DEF Outside
<1>5. Linked(r)'
  BY <1>1, <1>2, <1>3, <1>4 DEF Linked
<1>. QED  BY <1>5, LinkedInAll

\* The request is refused, or fails.
LEMMA ThrowsLinked ==
    ASSUME OneRequest, IInv, NEW r \in Requests, Throw(r), Tidy(Pool)'
    PROVE  LInv'
<1>1. /\ req'[r].todo = <<>> /\ req'[r].own = req[r].own
      /\ req'[r].err = (req[r].own # Pool)
  BY DEF Throw, IInv, TypeOK
<1>. QED  BY <1>1, EmptyLinked, Zenon

LEMMA RefusedLinked ==
    ASSUME OneRequest, IInv, LInv, NEW r \in Requests, req[r].todo # <<>>, Call(r).q # "begin", Throw(r),
           UNCHANGED <<row, mate>>, ~Light(Pool, Call(r)) \/ req[r].own # Pool \/ req[r].on = Dead
    PROVE  LInv'
<1>1. Tidy(Pool)
  BY HeadIsLinked, Zenon DEF LinkedNow
<1>2. GivenStays
  BY SameIdsGiven
<1>3. \A i \in Txns : RowAt(Pool, i)' = RowAt(Pool, i)
  BY TargetsDiffer DEF RowAt
<1>4. Tidy(Pool)'
  BY <1>1, <1>2, <1>3, TidyStill
<1>. QED  BY <1>4, ThrowsLinked

-----------------------------------------------------------------------------
(* The steps that neither read nor write a transaction.                    *)

\* A request goes on with what concerns no transaction, and writes nothing.
LEMMA AsideReadLinked ==
    ASSUME OneRequest, IInv, LInv, NEW r \in Requests, req[r].todo # <<>>, Aside(Call(r)),
           NEW more \in Seq(InnerCalls), \A k \in 1..Len(more) : Aside(more[k]),
           Continue(r, more), UNCHANGED dbVars, SameIds
    PROVE  LInv'
<1>. SUFFICES ASSUME NEW t, t = req[r].own
              PROVE  LInv'
  OBVIOUS
<1>1. Call(r).q # "begin" /\ UNCHANGED mate /\ UNCHANGED <<row, tx>>
  BY DEF Aside, SameIds, dbVars
<1>2. Replaces(r, more) /\ ~req'[r].err
  BY <1>1, ContinueReplaces, Zenon DEF Continue, GoOn, IInv, TypeOK
<1>3. \A u, i : RowAt(u, i)' = RowAt(u, i)
  BY <1>1 DEF RowAt
<1>4. /\ \A i \in Txns : RowAt(t, i)' = RowAt(t, i) \/ RowAt(t, i)' = NoRow
      /\ \A i \in Txns : RowAt(Pool, i)' = RowAt(Pool, i) \/ RowAt(Pool, i)' = NoRow
  BY <1>3
<1>. QED  BY <1>1, <1>2, <1>4, AsideLinked

LEMMA OneAside ==
    /\ \A c \in InnerCalls : <<c>> \in Seq(InnerCalls) /\ (Aside(c) => \A k \in 1..Len(<<c>>) : Aside(<<c>>[k]))
    /\ <<>> \in Seq(InnerCalls) /\ \A k \in 1..Len(<<>>) : Aside(<<>>[k])
<1>1. ASSUME NEW c \in InnerCalls, Aside(c)
      PROVE  \A k \in 1..Len(<<c>>) : Aside(<<c>>[k])
  <2>1. Len(<<c>>) = 1 /\ <<c>>[1] = c /\ \A k \in 1..1 : k = 1
    OBVIOUS
  <2>. QED  BY <1>1, <2>1
<1>2. 1..Len(<<>>) = {}
  OBVIOUS
<1>. QED  BY <1>1, <1>2, SmallSeqs

\* A balance is written, or an account is deleted with its transactions.
LEMMA AsideWriteLinked ==
    ASSUME OneRequest, IInv, AInv, LInv, NEW r \in Requests, IsStatement(r), Aside(Call(r)),
           Continue(r, <<>>), SameIds,
           NEW dr \in [Txns -> Row \cup {NoRow, Same}], \A i \in Txns : dr[i] \in {Same, NoRow},
           NEW db \in [Accounts -> Balance \cup {Gone, Same}], Write(req[r].on, dr, db)
    PROVE  LInv'
<1>. SUFFICES ASSUME NEW t, t = req[r].own
              PROVE  LInv'
  OBVIOUS
<1>1. req[r].todo # <<>> /\ Call(r).q # "begin" /\ UNCHANGED mate
  BY DEF Aside, SameIds, IsStatement
<1>2. Replaces(r, <<>>) /\ ~req'[r].err
  BY <1>1, OneAside, ContinueReplaces, Zenon DEF Continue, GoOn, IInv, TypeOK
<1>3. /\ \A i \in Txns : RowAt(t, i)' = IF dr[i] = Same THEN RowAt(t, i) ELSE dr[i]
      /\ t # Pool => row' = row
  BY WriteIsSeen
<1>4. \A i \in Txns : RowAt(t, i)' = RowAt(t, i) \/ RowAt(t, i)' = NoRow
  BY <1>3
<1>5. \A i \in Txns : RowAt(Pool, i)' = RowAt(Pool, i) \/ RowAt(Pool, i)' = NoRow
  <2>1. t # Pool => \A i \in Txns : RowAt(Pool, i)' = RowAt(Pool, i)
    BY <1>3, TargetsDiffer DEF RowAt
  <2>. QED  BY <1>4, <2>1
<1>. QED  BY <1>1, <1>2, <1>4, <1>5, OneAside, AsideLinked, Zenon

LEMMA AsideIsHeavy == \A t, c : Aside(c) => ~Light(t, c)
BY DEF Aside, Light

LEMMA AsideRefusedLinked ==
    ASSUME OneRequest, IInv, LInv, NEW r \in Requests, req[r].todo # <<>>, Aside(Call(r)), Throw(r),
           UNCHANGED dbVars, SameIds
    PROVE  LInv'
<1>1. Call(r).q # "begin" /\ UNCHANGED <<row, mate>> /\ ~Light(Pool, Call(r))
  BY AsideIsHeavy DEF Aside, dbVars, SameIds
<1>. QED  BY <1>1, RefusedLinked

LEMMA RunAimLinked ==
    ASSUME OneRequest, IInv, LInv, NEW r \in Requests, RunAim(r)
    PROVE  LInv'
<1>. SUFFICES ASSUME NEW t, t = req[r].own
              PROVE  LInv'
  OBVIOUS
<1>1. req[r].todo # <<>> /\ Call(r).q = "aim" /\ Aside(Call(r))
  BY AtInner DEF RunAim, Aside
<1>2. /\ req'[r].todo = Tail(req[r].todo) /\ req'[r].own = req[r].own /\ ~req'[r].err
      /\ UNCHANGED <<row, tx, mate>>
  BY DEF RunAim, GoOn, dbVars, SameIds, IInv, TypeOK
<1>3. Tail(req[r].todo) \in Seq(Calls) /\ <<>> \o Tail(req[r].todo) = Tail(req[r].todo)
  BY <1>1, HeadIsCall DEF IInv
<1>4. Replaces(r, <<>>)
  BY <1>2, <1>3 DEF Replaces
<1>5. \A u, i : RowAt(u, i)' = RowAt(u, i)
  BY <1>2 DEF RowAt
<1>6. /\ \A i \in Txns : RowAt(t, i)' = RowAt(t, i) \/ RowAt(t, i)' = NoRow
      /\ \A i \in Txns : RowAt(Pool, i)' = RowAt(Pool, i) \/ RowAt(Pool, i)' = NoRow
  BY <1>5
<1>. QED  BY <1>1, <1>2, <1>4, <1>6, OneAside, AsideLinked, Zenon

LEMMA SumUsedLinked ==
    ASSUME OneRequest, IInv, LInv, NEW r \in Requests, req[r].todo # <<>>, Aside(Call(r)),
           NEW a \in Accounts, NEW b \in Balance, NEW use, UseSum(r, a, b, use), UNCHANGED dbVars, SameIds
    PROVE  LInv'
<1>1. CASE use \in Repos
  <2>. SUFFICES ASSUME NEW s, s = SetBalance(a, b, use)
                PROVE  LInv'
    OBVIOUS
  <2>1. s \in InnerCalls /\ Aside(s) /\ Continue(r, <<s>>)
    BY <1>1 DEF SetBalance, InnerCalls, Aside, UseSum, Repos
  <2>. QED  BY <2>1, OneAside, AsideReadLinked, Zenon
<1>2. CASE Continue(r, <<>>)
  BY <1>2, OneAside, AsideReadLinked, Zenon
<1>3. CASE Throw(r)
  BY <1>3, AsideRefusedLinked
<1>. QED  BY <1>1, <1>2, <1>3 DEF UseSum

LEMMA LookupLinked ==
    ASSUME OneRequest, IInv, LInv, NEW r \in Requests, Lookup(r)
    PROVE  LInv'
<1>. SUFFICES ASSUME NEW c, c = Call(r), NEW s, s = SumRows(c), NEW hit, hit = cache[Home[r]][c.acct]
              PROVE  LInv'
  OBVIOUS
<1>1. req[r].todo # <<>> /\ c.q = "lookup" /\ c \in InnerCalls /\ Aside(Call(r))
  BY AtInner DEF Lookup, Aside
<1>2. /\ UNCHANGED dbVars /\ SameIds /\ c.acct \in Accounts /\ s \in InnerCalls /\ Aside(s)
  BY <1>1, LookupFields DEF Lookup, SumRows, Aside
<1>3. CASE Continue(r, <<s>>)
  BY <1>1, <1>2, <1>3, OneAside, AsideReadLinked, Zenon
<1>4. CASE hit # Miss /\ UseSum(r, c.acct, hit, c.use)
  <2>1. hit \in Balance
    BY <1>2, <1>4, HomeType DEF IInv, TypeOK
  <2>. QED  BY <1>1, <1>2, <1>4, <2>1, SumUsedLinked
<1>. QED  BY <1>3, <1>4 DEF Lookup

LEMMA FillCacheLinked ==
    ASSUME OneRequest, IInv, LInv, NEW r \in Requests, FillCache(r)
    PROVE  LInv'
<1>. SUFFICES ASSUME NEW c, c = Call(r)
              PROVE  LInv'
  OBVIOUS
<1>1. req[r].todo # <<>> /\ c.q = "fill" /\ c \in InnerCalls /\ Aside(Call(r))
  BY AtInner DEF FillCache, Aside
<1>2. UNCHANGED dbVars /\ SameIds /\ UseSum(r, c.acct, c.seen, c.use) /\ c.acct \in Accounts /\ c.seen \in Balance
  BY <1>1, LookupFields DEF FillCache
<1>. QED  BY <1>1, <1>2, SumUsedLinked

LEMMA SumAccountLinked ==
    ASSUME OneRequest, IInv, LInv, NEW r \in Requests, SumAccount(r)
    PROVE  LInv'
<1>. SUFFICES ASSUME NEW c, c = Call(r), NEW b, b = SumAt(req[r].on, c.acct), NEW f, f = Fill(c, b)
              PROVE  LInv'
  OBVIOUS
<1>1. /\ Statement(r, "sum") /\ UNCHANGED dbVars /\ SameIds /\ Continue(r, <<f>>)
  BY DEF SumAccount, Otherwise
<1>2. c.q = "sum" /\ c \in InnerCalls /\ b \in Balance /\ req[r].todo # <<>> /\ Aside(Call(r))
  <2>1. c.q = "sum" /\ c \in InnerCalls /\ req[r].todo # <<>>
    BY <1>1, AtStatement
  <2>. QED  BY <2>1, LookupFields, ReadTypes, Zenon DEF IInv, Aside
<1>3. f \in InnerCalls /\ Aside(f)
  BY <1>2, LookupFields DEF Fill, Aside
<1>. QED  BY <1>1, <1>2, <1>3, OneAside, AsideReadLinked, Zenon

LEMMA ReadAccountLinked ==
    ASSUME OneRequest, IInv, LInv, NEW r \in Requests, ReadAccount(r)
    PROVE  LInv'
<1>. SUFFICES ASSUME NEW c, c = Call(r), NEW b, b = BalAt(req[r].on, c.acct)
              PROVE  LInv'
  OBVIOUS
<1>1. /\ Statement(r, "findacc") /\ UNCHANGED dbVars /\ SameIds
      /\ b = Gone => Throw(r)
      /\ b # Gone => Continue(r, CASE c.use = "rename" -> <<PutAccount(c.acct, b)>>
                                   [] c.use = "retype" -> <<PutAccount(c.acct, Typed)>>
                                   [] c.use = "delete" -> <<RemoveAccount(c.acct)>>
                                   [] OTHER -> <<>>)
  BY DEF ReadAccount, Otherwise
<1>2. /\ c.q = "findacc" /\ c \in InnerCalls /\ c.acct \in Accounts /\ Aside(Call(r)) /\ req[r].todo # <<>>
      /\ c.use \in {"exists", "rename", "retype", "delete"}
  <2>1. c.q = "findacc" /\ c \in InnerCalls /\ req[r].todo # <<>>
    BY <1>1, AtStatement
  <2>. QED  BY <2>1 DEF InnerCalls, Aside
<1>3. b \in Balance \cup {Gone} /\ Typed \in Balance
  BY <1>2, ReadTypes, Zenon DEF IInv, Typed, Balance
<1>4. CASE b = Gone
  BY <1>1, <1>2, <1>4, AsideRefusedLinked
<1>5. ASSUME NEW d \in InnerCalls, Aside(d), Continue(r, <<d>>)
      PROVE  LInv'
  BY <1>1, <1>2, <1>5, OneAside, AsideReadLinked, Zenon
<1>6. CASE b # Gone /\ c.use = "rename"
  <2>. SUFFICES ASSUME NEW d, d = PutAccount(c.acct, b)
                PROVE  LInv'
    OBVIOUS
  <2>1. Continue(r, <<d>>) /\ d \in InnerCalls /\ Aside(d)
    BY <1>1, <1>2, <1>3, <1>6, AccountCalls DEF PutAccount, Aside
  <2>. QED  BY <1>5, <2>1
<1>7. CASE b # Gone /\ c.use = "retype"
  <2>. SUFFICES ASSUME NEW d, d = PutAccount(c.acct, Typed)
                PROVE  LInv'
    OBVIOUS
  <2>1. Continue(r, <<d>>) /\ d \in InnerCalls /\ Aside(d)
    BY <1>1, <1>2, <1>3, <1>7, AccountCalls DEF PutAccount, Aside
  <2>. QED  BY <1>5, <2>1
<1>8. CASE b # Gone /\ c.use = "delete"
  <2>. SUFFICES ASSUME NEW d, d = RemoveAccount(c.acct)
                PROVE  LInv'
    OBVIOUS
  <2>1. Continue(r, <<d>>) /\ d \in InnerCalls /\ Aside(d)
    BY <1>1, <1>2, <1>8, AccountCalls DEF RemoveAccount, Aside
  <2>. QED  BY <1>5, <2>1
<1>9. CASE b # Gone /\ c.use = "exists"
  <2>1. Continue(r, <<>>)
    BY <1>1, <1>9
  <2>. QED  BY <1>1, <1>2, <2>1, OneAside, AsideReadLinked, Zenon
<1>. QED  BY <1>2, <1>4, <1>6, <1>7, <1>8, <1>9

LEMMA CheckLimitLinked ==
    ASSUME OneRequest, IInv, LInv, NEW r \in Requests, CheckLimit(r)
    PROVE  LInv'
<1>1. /\ Statement(r, "count") /\ UNCHANGED dbVars /\ SameIds
      /\ Continue(r, <<>>) \/ Throw(r)
  BY DEF CheckLimit, Otherwise
<1>2. req[r].todo # <<>> /\ Aside(Call(r))
  BY <1>1, AtStatement DEF Aside
<1>. QED  BY <1>1, <1>2, OneAside, AsideReadLinked, AsideRefusedLinked, Zenon

LEMMA BalanceWriteLinked ==
    ASSUME OneRequest, IInv, AInv, LInv, NEW r \in Requests, IsStatement(r), Aside(Call(r)),
           Continue(r, <<>>), SameIds, NEW a \in Accounts, NEW b \in Balance,
           Write(req[r].on, NoRows, OneBalance(a, b))
    PROVE  LInv'
<1>1. /\ NoRows \in [Txns -> Row \cup {NoRow, Same}] /\ \A i \in Txns : NoRows[i] \in {Same, NoRow}
      /\ OneBalance(a, b) \in [Accounts -> Balance \cup {Gone, Same}]
  BY OneIsWritten
<1>. QED  BY <1>1, AsideWriteLinked

LEMMA UpdateBalanceLinked ==
    ASSUME OneRequest, IInv, AInv, LInv, NEW r \in Requests, UpdateBalance(r)
    PROVE  LInv'
<1>. SUFFICES ASSUME NEW c, c = Call(r)
              PROVE  LInv'
  OBVIOUS
<1>1. /\ Statement(r, "setbal") /\ Continue(r, <<>>) /\ SameIds
      /\ BalAt(req[r].on, c.acct) = Gone => UNCHANGED dbVars
      /\ BalAt(req[r].on, c.acct) # Gone => Write(req[r].on, NoRows, OneBalance(c.acct, c.bal))
  BY DEF UpdateBalance, OneBalance, Otherwise
<1>2. /\ c.acct \in Accounts /\ c.bal \in Balance /\ Aside(Call(r)) /\ req[r].todo # <<>> /\ IsStatement(r)
  <2>1. c.q = "setbal" /\ c \in InnerCalls /\ req[r].todo # <<>>
    BY <1>1, AtStatement
  <2>. QED  BY <2>1, StatementFields DEF InnerCalls, Repos, Aside, IsStatement
<1>3. CASE BalAt(req[r].on, c.acct) = Gone
  BY <1>1, <1>2, <1>3, OneAside, AsideReadLinked, Zenon
<1>4. CASE BalAt(req[r].on, c.acct) # Gone
  BY <1>1, <1>2, <1>4, BalanceWriteLinked
<1>. QED  BY <1>3, <1>4

LEMMA InsertAccountLinked ==
    ASSUME OneRequest, IInv, AInv, LInv, NEW r \in Requests, InsertAccount(r)
    PROVE  LInv'
<1>. SUFFICES ASSUME NEW c, c = Call(r)
              PROVE  LInv'
  OBVIOUS
<1>1. /\ Statement(r, "newacc") /\ Continue(r, <<>>) /\ SameIds
      /\ Write(req[r].on, NoRows, OneBalance(c.acct, c.bal))
  BY DEF InsertAccount, OneBalance, Otherwise
<1>2. /\ c.acct \in Accounts /\ c.bal \in Balance /\ Aside(Call(r)) /\ IsStatement(r)
  <2>1. c.q = "newacc" /\ c \in InnerCalls /\ req[r].todo # <<>>
    BY <1>1, AtStatement
  <2>. QED  BY <2>1, StatementFields DEF InnerCalls, Aside, IsStatement
<1>. QED  BY <1>1, <1>2, BalanceWriteLinked

LEMMA WriteAccountLinked ==
    ASSUME OneRequest, IInv, AInv, LInv, NEW r \in Requests, WriteAccount(r)
    PROVE  LInv'
<1>. SUFFICES ASSUME NEW c, c = Call(r)
              PROVE  LInv'
  OBVIOUS
<1>1. /\ Statement(r, "putacc") /\ SameIds
      /\ BalAt(req[r].on, c.acct) = Gone => UNCHANGED dbVars /\ Throw(r)
      /\ BalAt(req[r].on, c.acct) # Gone
         => Write(req[r].on, NoRows, OneBalance(c.acct, c.bal)) /\ Continue(r, <<>>)
  BY DEF WriteAccount, OneBalance, Otherwise
<1>2. /\ c.acct \in Accounts /\ c.bal \in Balance /\ Aside(Call(r)) /\ IsStatement(r) /\ req[r].todo # <<>>
  <2>1. c.q = "putacc" /\ c \in InnerCalls /\ req[r].todo # <<>>
    BY <1>1, AtStatement
  <2>. QED  BY <2>1, StatementFields DEF InnerCalls, Aside, IsStatement
<1>3. CASE BalAt(req[r].on, c.acct) = Gone
  BY <1>1, <1>2, <1>3, AsideRefusedLinked
<1>4. CASE BalAt(req[r].on, c.acct) # Gone
  BY <1>1, <1>2, <1>4, BalanceWriteLinked
<1>. QED  BY <1>3, <1>4

LEMMA DeleteAccountRowLinked ==
    ASSUME OneRequest, IInv, AInv, LInv, NEW r \in Requests, DeleteAccountRow(r)
    PROVE  LInv'
<1>. SUFFICES ASSUME NEW c, c = Call(r), NEW S, S = RowsOf(req[r].on, c.acct)
              PROVE  LInv'
  OBVIOUS
<1>1. /\ Statement(r, "delacc") /\ Continue(r, <<>>) /\ SameIds
      /\ Write(req[r].on, OnlyRows(S), OneBalance(c.acct, Gone))
  BY DEF DeleteAccountRow, OnlyRows, OneBalance, Otherwise
<1>2. /\ c.acct \in Accounts /\ Aside(Call(r)) /\ IsStatement(r)
  <2>1. c.q = "delacc" /\ c \in InnerCalls /\ req[r].todo # <<>>
    BY <1>1, AtStatement
  <2>. QED  BY <2>1, StatementFields DEF InnerCalls, Aside, IsStatement
<1>3. /\ OnlyRows(S) \in [Txns -> Row \cup {NoRow, Same}]
      /\ \A i \in Txns : OnlyRows(S)[i] \in {Same, NoRow}
      /\ OneBalance(c.acct, Gone) \in [Accounts -> Balance \cup {Gone, Same}]
  BY <1>2, OneIsWritten, Sentinels DEF OnlyRows
<1>. QED  BY <1>1, <1>2, <1>3, AsideWriteLinked

-----------------------------------------------------------------------------
(* The statements that fail, and those that write a transaction.           *)

LEMMA RefuseRowLinked ==
    ASSUME OneRequest, IInv, AInv, BInv, LInv, NEW r \in Requests, RefuseRow(r)
    PROVE  LInv'
<1>. SUFFICES ASSUME NEW c, c = Call(r), NEW t, t = req[r].own, NEW L, L = Later(req[r].todo, 1)
              PROVE  LInv'
  OBVIOUS
<1>. PICK q \in {"insert", "put"} : Statement(r, q)
  BY DEF RefuseRow
<1>1. /\ Throw(r) /\ UNCHANGED <<row, mate>>
      /\ BalAt(req[r].on, c.row.acct) = Gone \/ (c.q = "put" /\ RowAt(req[r].on, c.id) = NoRow)
  BY DEF RefuseRow, StatementFails, Otherwise, SameIds, dbVars
<1>2. /\ c.q = q /\ c \in InnerCalls /\ c.id \in Txns /\ c.row \in Row /\ c.row.acct \in Accounts /\ c.via # "-"
  <2>1. c.q = q /\ c \in InnerCalls
    BY AtStatement
  <2>. QED  BY <2>1, StatementFields DEF InnerCalls, Row
<1>3. /\ req[r].todo # <<>> /\ Whole(t) /\ Call(r).q # "begin"
      /\ RowAt(req[r].on, c.id) = RowAt(t, c.id)
      /\ BalAt(req[r].on, c.row.acct) = BalAt(t, c.row.acct)
  BY <1>2, AtHead
<1>4. ~Light(t, c)
  BY <1>1, <1>2, <1>3 DEF Light, SameMoney, Whole
<1>. QED  BY <1>1, <1>3, <1>4, RefusedLinked

LEMMA FailLinked ==
    ASSUME OneRequest, IInv, LInv, NEW r \in Requests, Fail(r)
    PROVE  LInv'
<1>1. /\ IsStatement(r) /\ (MayFail \/ Broken(req[r].on)) /\ Throw(r) /\ UNCHANGED <<row, mate>>
  BY DEF Fail, StatementFails, Otherwise, SameIds
<1>2. req[r].todo # <<>> /\ Call(r).q # "begin"
  BY <1>1 DEF IsStatement
<1>3. CASE MayFail
  <2>1. LinkedNow(r, req[r].own, Call(r), Later(req[r].todo, 1))
    BY <1>2, HeadIsLinked
  <2>2. Tidy(Pool)
    BY <1>3, <2>1 DEF LinkedNow
  <2>3. \A i \in Txns : RowAt(Pool, i)' = RowAt(Pool, i)
    BY <1>1, TargetsDiffer DEF RowAt
  <2>4. Tidy(Pool)'
    BY <1>1, <2>2, <2>3, SameIdsGiven, TidyStill
  <2>. QED  BY <1>1, <2>4, ThrowsLinked
<1>4. CASE ~MayFail
  <2>1. req[r].own = Pool => req[r].on = Dead
    BY <1>1, <1>4, NothingOpen DEF Broken, Autocommit
  <2>. QED  BY <1>1, <1>2, <2>1, RefusedLinked
<1>. QED  BY <1>3, <1>4

LEMMA RowWriteLinked ==
    ASSUME OneRequest, IInv, AInv, LInv, NEW r \in Requests, NEW q \in {"insert", "put", "remove"},
           Statement(r, q), Continue(r, <<>>), Otherwise, NEW c, c = Call(r),
           NEW x \in Row \cup {NoRow}, x = IF c.q = "remove" THEN NoRow ELSE c.row,
           Write(req[r].on, OneRow(c.id, x), NoBalances)
    PROVE  LInv'
<1>. SUFFICES ASSUME NEW t, t = req[r].own, NEW old, old = req[r].todo, NEW L, L = Later(old, 1),
                     NEW new, new = req'[r].todo
              PROVE  LInv'
  OBVIOUS
<1>1. c.q = q /\ c \in InnerCalls /\ c.id \in Txns /\ Writes(c) /\ c.via # "-" /\ req[r].todo # <<>>
  <2>1. c.q = q /\ c \in InnerCalls /\ req[r].todo # <<>>
    BY AtStatement
  <2>. QED  BY <2>1, StatementFields DEF InnerCalls, Writes
<1>2. Call(r).q # "begin" /\ IsStatement(r)
  BY <1>1 DEF IsStatement
<1>3. /\ ~req[r].err /\ Linked(r) /\ Placed(c, L) /\ Sound(t, {c} \cup L)
      /\ t = Pool => Light(Pool, c)
      /\ t # Pool => Tidy(Pool)
  <2>1. LinkedNow(r, t, c, L)
    BY <1>1, <1>2, HeadIsLinked
  <2>2. ~Aside(c) /\ ~Last(c)
    BY <1>1 DEF Aside, Last, Writes
  <2>3. \A d \in L : d.q # "begin"
    BY <2>1, <2>2 DEF LinkedNow, Placed, Precedes
  <2>. QED  BY <2>1, <2>2, <2>3 DEF LinkedNow
<1>4. /\ \A j \in Txns : RowAt(t, j)' = IF j = c.id THEN x ELSE RowAt(t, j)
      /\ t # Pool => row' = row
  <2>1. /\ OneRow(c.id, x) \in [Txns -> Row \cup {NoRow, Same}]
        /\ NoBalances \in [Accounts -> Balance \cup {Gone, Same}]
    BY <1>1, OneIsWritten
  <2>. QED  BY <1>1, <1>2, <2>1, RowIsSeen, WriteIsSeen
<1>5. GivenStays
  BY SameIdsGiven DEF Otherwise, SameIds
<1>6. Sound(t, L)'
  <2>1. Narrows(t, L, t, {c} \cup L)
    BY <1>1, <1>3, <1>4, NarrowsWritten
  <2>2. SameVisits({c} \cup L, L)
    BY <1>1 DEF SameVisits, Seen, Visits, Writes
  <2>. QED  BY <1>3, <1>5, <2>1, <2>2, SoundStill
<1>7. Later(<<>>, 0) \cup L = L /\ Later(<<>>, 0) = {} /\ Placing(<<>>, L) /\ <<>> \in Seq(InnerCalls)
  BY NothingFollows, LaterShort DEF Placing
<1>8. Replaces(r, <<>>) /\ ~req'[r].err
  BY <1>1, <1>2, <1>7, ContinueReplaces, Zenon DEF Continue, GoOn, IInv, TypeOK
<1>9. t # Pool => Tidy(Pool)'
  <2>1. t # Pool => \A i \in Txns : RowAt(Pool, i)' = RowAt(Pool, i)
    BY <1>4, TargetsDiffer DEF RowAt
  <2>. QED  BY <1>3, <1>5, <2>1, TidyStill
<1>10. t = Pool => Outside(r)'
  <2>. SUFFICES ASSUME t = Pool
                PROVE  Outside(r)'
    OBVIOUS
  <2>1. Succeeds(new, old, <<>>)
    BY <1>1, <1>2, <1>7, <1>8, NewList, Zenon
  <2>2. CASE new = <<>>
    <3>1. L = {}
      BY <2>1, <2>2 DEF Succeeds
    <3>2. Tidy(Pool)'
      BY <1>6, <3>1, Zenon DEF Tidy
    <3>3. Resting(req[r].todo)'
      BY <2>2, EmptyList DEF Resting, Later
    <3>. QED  BY <3>2, <3>3 DEF Outside
  <2>3. CASE new # <<>>
    <3>1. new[1] \in L /\ Later(new, 1) = Later(old, 2) /\ new \in Seq(Calls) /\ Head(new) = new[1]
      BY <2>1, <2>3 DEF Succeeds
    <3>2. Writing(old) /\ req[r].on = ptr[Home[r]]["trx"]
      <4>1. Outside(r)
        BY <1>3 DEF Linked
      <4>2. old[1] = c /\ c \in Later(old, 0) /\ \A d \in Later(old, 0) : d.q # "begin"
        <5>1. old[1] = c /\ Later(old, 0) = {c} \cup L
          BY <1>1, HeadIsCall, LaterTail DEF IInv, Call
        <5>2. \A d \in L : d.q # "begin"
          BY <1>1, <1>3 DEF Placed, Precedes, Aside, Writes
        <5>. QED  BY <1>2, <5>1, <5>2
      <4>3. ~Resting(old)
        BY <1>1, <4>2 DEF Resting, Aside, Last, Writes
      <4>. QED  BY <4>1, <4>3 DEF Outside
    <3>3. Later(new, 1) = {} /\ \A d \in L : Light(Pool, d)
      BY <3>1, <3>2 DEF Writing
    <3>4. Light(Pool, new[1])'
      <4>1. \A d \in L : d \in Calls
        <5>1. old \in Seq(Calls)
          BY <1>1, HeadIsCall DEF IInv
        <5>. QED  BY <5>1 DEF Later
      <4>2. ASSUME NEW d \in L, d.q = "put"
            PROVE  RowAt(Pool, d.id)' # NoRow /\ SameMoney(RowAt(Pool, d.id)', d.row)
        <5>1. d.id \in Txns
          BY <4>1, <4>2, StatementFields DEF Calls
        <5>2. RowAt(Pool, d.id) # NoRow /\ SameMoney(RowAt(Pool, d.id), d.row)
          BY <3>3, <4>2 DEF Light
        <5>3. d.id = c.id => x # NoRow /\ SameMoney(x, d.row)
          <6>1. c.q = "put" /\ SameMoney(RowAt(Pool, c.id), c.row)
            BY <1>1, <1>3 DEF Light, Writes
          <6>2. x = c.row /\ x \in Row
            BY <1>1, <6>1, StatementFields
          <6>. QED  BY <5>2, <6>1, <6>2, Sentinels DEF SameMoney
        <5>. QED  BY <1>4, <5>1, <5>2, <5>3
      <4>3. ASSUME NEW d \in L
            PROVE  Light(Pool, d)'
        BY <3>3, <4>2 DEF Light, SameMoney
      <4>. QED  BY <3>1, <4>3 DEF Light
    <3>5. req'[r].on = ptr'[Home[r]]["trx"] /\ req'[r].on # Dead
      <4>1. new[1].via = "trx"
        <5>1. new[1] \in Calls
          BY <2>3, <3>1
        <5>2. new[1].q \in {"find", "put"}
          BY <3>1, <3>3 DEF Light
        <5>. QED  BY <5>1, <5>2 DEF Calls, InnerCalls
      <4>2. ptr' = ptr
        BY DEF Otherwise
      <4>3. new = <<>> \o Tail(old) /\ req'[r].on = IF new = <<>> THEN Pool ELSE Bound(Head(new), t, ptr[Home[r]])
        BY DEF Continue, GoOn, IInv, TypeOK
      <4>4. req'[r].on = ptr[Home[r]]["trx"]
        BY <2>3, <3>1, <4>1, <4>3, Zenon DEF Bound, Repos
      <4>5. req[r].on # Dead
        BY TargetsDiffer DEF Statement, Usable, Pool, Dead
      <4>. QED  BY <3>2, <4>2, <4>4, <4>5
    <3>6. Writing(req[r].todo)'
      <4>1. Writing(req[r].todo)' <=> /\ ~MayFail /\ new # <<>> /\ Light(Pool, new[1])'
                                      /\ \/ /\ Tidy(Pool)' /\ new[1].q = "put"
                                            /\ Later(new, 2) = {} /\ \A d \in Later(new, 1) : Light(Pool, d)'
                                         \/ Later(new, 1) = {}
        BY DEF Writing, Later, Light
      <4>2. ~MayFail
        BY <3>2 DEF Writing
      <4>. QED  BY <2>3, <3>3, <3>4, <4>1, <4>2
    <3>. QED  BY <3>5, <3>6 DEF Outside
  <2>. QED  BY <2>2, <2>3
<1>11. AllAsked(t, Later(<<>>, 0))'
  BY <1>7 DEF AllAsked
<1>12. Linked(r)'
  BY <1>1, <1>2, <1>3, <1>6, <1>7, <1>8, <1>9, <1>10, <1>11, GoesOnLinked, Zenon
<1>. QED  BY <1>12, LinkedInAll

LEMMA WriteRowLinked ==
    ASSUME OneRequest, IInv, AInv, LInv, NEW r \in Requests, WriteRow(r)
    PROVE  LInv'
<1>. SUFFICES ASSUME NEW c, c = Call(r), NEW x, x = c.row
              PROVE  LInv'
  OBVIOUS
<1>. PICK q \in {"insert", "put"} : Statement(r, q)
  BY DEF WriteRow
<1>1. Write(req[r].on, OneRow(c.id, x), NoBalances) /\ Continue(r, <<>>) /\ Otherwise
  BY DEF WriteRow, OneRow
<1>2. c.q = q /\ x \in Row
  BY AtStatement, StatementFields
<1>3. x = (IF c.q = "remove" THEN NoRow ELSE c.row) /\ q \in {"insert", "put", "remove"}
  BY <1>2
<1>. QED  BY <1>1, <1>2, <1>3, RowWriteLinked

LEMMA RemoveRowLinked ==
    ASSUME OneRequest, IInv, AInv, LInv, NEW r \in Requests, RemoveRow(r)
    PROVE  LInv'
<1>. SUFFICES ASSUME NEW c, c = Call(r), NEW x, x = NoRow
              PROVE  LInv'
  OBVIOUS
<1>1. /\ Statement(r, "remove") /\ Write(req[r].on, OneRow(c.id, x), NoBalances)
      /\ Continue(r, <<>>) /\ Otherwise
  BY DEF RemoveRow, OneRow
<1>2. c.q = "remove"
  BY <1>1, AtStatement
<1>3. x = (IF c.q = "remove" THEN NoRow ELSE c.row) /\ "remove" \in {"insert", "put", "remove"}
  BY <1>2
<1>. QED  BY <1>1, <1>2, <1>3, RowWriteLinked

-----------------------------------------------------------------------------
(* The steps that read.                                                    *)

LEMMA SameEnds ==
    ASSUME UNCHANGED <<row, tx, mate>>, NEW t, NEW A
    PROVE  /\ Sound(t, A) => Sound(t, A)'
           /\ AllAsked(t, A) => AllAsked(t, A)'
           /\ \A c : Light(t, c) => Light(t, c)'
<1>1. /\ SameWrites(A, A) /\ SameVisits(A, A) /\ GivenStays
      /\ \A i : RowAt(t, i)' = RowAt(t, i)
  BY SameIdsGiven DEF SameWrites, SameVisits, RowAt
<1>2. Sound(t, A) => Sound(t, A)'
  BY <1>1, SoundMoved
<1>3. AllAsked(t, A) => AllAsked(t, A)'
  BY <1>1 DEF AllAsked, Asked, Given
<1>4. \A c : Light(t, c) => Light(t, c)'
  BY <1>1 DEF Light, SameMoney
<1>. QED  BY <1>2, <1>3, <1>4

LEMMA ReadLinked ==
    ASSUME OneRequest, IInv, LInv, NEW r \in Requests, req[r].todo # <<>>, Call(r).q # "begin",
           NEW more \in Seq(InnerCalls), Continue(r, more), UNCHANGED dbVars, SameIds,
           NEW t, t = req[r].own, NEW L, L = Later(req[r].todo, 1),
           Placing(more, L), Sound(t, Later(more, 0) \cup L), AllAsked(t, Later(more, 0)),
           t = Pool => Outside(r)'
    PROVE  LInv'
<1>1. UNCHANGED <<row, tx, mate>>
  BY DEF dbVars, SameIds
<1>2. Replaces(r, more) /\ ~req'[r].err
  BY ContinueReplaces, Zenon DEF Continue, GoOn, IInv, TypeOK
<1>3. Sound(t, Later(more, 0) \cup L)' /\ AllAsked(t, Later(more, 0))'
  BY <1>1, SameEnds
<1>4. t # Pool => Tidy(Pool)'
  <2>1. t # Pool => Sound(Pool, {})
    BY HeadIsLinked, Zenon DEF LinkedNow, Tidy
  <2>. QED  BY <1>1, <2>1, SameEnds DEF Tidy
<1>5. Linked(r)
  BY DEF LInv
<1>6. Linked(r)'
  BY <1>2, <1>3, <1>4, <1>5, GoesOnLinked, Zenon
<1>. QED  BY <1>6, LinkedInAll

LEMMA PlacingShort ==
    ASSUME NEW L
    PROVE  /\ Placing(<<>>, L)
           /\ \A c : Placed(c, L) => Placing(<<c>>, L)
           /\ \A c, d : Placed(c, {d} \cup L) /\ Placed(d, L) => Placing(<<c, d>>, L)
           /\ \A c, d, e : Placed(c, {d, e} \cup L) /\ Placed(d, {e} \cup L) /\ Placed(e, L)
                           => Placing(<<c, d, e>>, L)
           /\ \A c, d, e, f : /\ Placed(c, {d, e, f} \cup L) /\ Placed(d, {e, f} \cup L)
                              /\ Placed(e, {f} \cup L) /\ Placed(f, L)
                              => Placing(<<c, d, e, f>>, L)
<1>1. Placing(<<>>, L)
  BY NothingFollows DEF Placing
<1>2. ASSUME NEW c, Placed(c, L)
      PROVE  Placing(<<c>>, L)
  <2>. DEFINE s == <<c>>
  <2>1. Len(s) = 1 /\ s[1] = c /\ Later(s, 1) \cup L = L
    BY LaterShort
  <2>2. \A k \in 1..1 : k = 1
    OBVIOUS
  <2>. HIDE DEF s
  <2>3. Placing(s, L)
    BY <1>2, <2>1, <2>2 DEF Placing
  <2>. QED  BY <2>3 DEF s
<1>3. ASSUME NEW c, NEW d, Placed(c, {d} \cup L), Placed(d, L)
      PROVE  Placing(<<c, d>>, L)
  <2>. DEFINE s == <<c, d>>
  <2>1. Len(s) = 2 /\ s[1] = c /\ s[2] = d /\ Later(s, 1) = {d} /\ Later(s, 2) \cup L = L
    BY LaterShort
  <2>2. \A k \in 1..2 : k = 1 \/ k = 2
    OBVIOUS
  <2>. HIDE DEF s
  <2>3. Placing(s, L)
    BY <1>3, <2>1, <2>2 DEF Placing
  <2>. QED  BY <2>3 DEF s
<1>4. ASSUME NEW c, NEW d, NEW e, Placed(c, {d, e} \cup L), Placed(d, {e} \cup L), Placed(e, L)
      PROVE  Placing(<<c, d, e>>, L)
  <2>. DEFINE s == <<c, d, e>>
  <2>1. /\ Len(s) = 3 /\ s[1] = c /\ s[2] = d /\ s[3] = e
        /\ Later(s, 1) = {d, e} /\ Later(s, 2) = {e} /\ Later(s, 3) \cup L = L
    BY LaterThreeFour
  <2>2. \A k \in 1..3 : k = 1 \/ k = 2 \/ k = 3
    OBVIOUS
  <2>. HIDE DEF s
  <2>3. Placing(s, L)
    BY <1>4, <2>1, <2>2 DEF Placing
  <2>. QED  BY <2>3 DEF s
<1>5. ASSUME NEW c, NEW d, NEW e, NEW f, Placed(c, {d, e, f} \cup L), Placed(d, {e, f} \cup L),
             Placed(e, {f} \cup L), Placed(f, L)
      PROVE  Placing(<<c, d, e, f>>, L)
  <2>. DEFINE s == <<c, d, e, f>>
  <2>1. /\ Len(s) = 4 /\ s[1] = c /\ s[2] = d /\ s[3] = e /\ s[4] = f
        /\ Later(s, 1) = {d, e, f} /\ Later(s, 2) = {e, f} /\ Later(s, 3) = {f} /\ Later(s, 4) \cup L = L
    BY LaterThreeFour
  <2>2. \A k \in 1..4 : k = 1 \/ k = 2 \/ k = 3 \/ k = 4
    OBVIOUS
  <2>. HIDE DEF s
  <2>3. Placing(s, L)
    BY <1>5, <2>1, <2>2 DEF Placing
  <2>. QED  BY <2>3 DEF s
<1>. QED  BY <1>1, <1>2, <1>3, <1>4, <1>5

\* The same writes and visits, seen by the same handle.
LEMMA SoundAlike ==
    ASSUME NEW t, NEW A, NEW B, Sound(t, A), SameVisits(A, B),
           \A i \in Txns : \A x \in Row : Ends(t, B, i, x) => \E y \in Row : y.links = x.links /\ Ends(t, A, i, y)
    PROVE  Sound(t, B)
<1>1. ASSUME NEW i \in Txns, NEW j \in Txns, NEW x \in Row, NEW y \in Row,
             i # j, Ends(t, B, i, x), Ends(t, B, j, y), j \in x.links, i \notin y.links
      PROVE  Mended(B, i, j)
  <2>1. PICK v \in Row : v.links = x.links /\ Ends(t, A, i, v)
    BY <1>1
  <2>2. PICK w \in Row : w.links = y.links /\ Ends(t, A, j, w)
    BY <1>1
  <2>3. Mended(A, i, j)
    BY <1>1, <2>1, <2>2 DEF Sound
  <2>. QED  BY <2>3 DEF Mended, SameVisits
<1>2. ASSUME NEW i \in Txns, NEW x \in Row, Ends(t, B, i, x)
      PROVE  Given(i) /\ \A j \in x.links : Given(j)
  BY <1>2 DEF Sound
<1>3. ASSUME NEW j \in Txns, NEW o \in Txns, Seen(B, "linkBack", j, o)
      PROVE  Given(o) /\ \A x \in Row : Ends(t, B, o, x) => j \in x.links
  BY <1>3 DEF Sound, SameVisits
<1>4. ASSUME NEW j \in Txns, NEW o \in Txns, Seen(B, "linkDrop", j, o)
      PROVE  \A x \in Row : Ends(t, B, o, x) => j \notin x.links
  BY <1>4 DEF Sound, SameVisits
<1>. QED  BY <1>1, <1>2, <1>3, <1>4 DEF Sound

LEMMA SameWritesEnd ==
    ASSUME NEW t, NEW A, NEW B, SameWrites(A, B)
    PROVE  \A i \in Txns : \A x \in Row : Ends(t, B, i, x) => Ends(t, A, i, x)
<1>. SUFFICES ASSUME NEW i \in Txns, NEW x \in Row, Ends(t, B, i, x)
              PROVE  Ends(t, A, i, x)
  OBVIOUS
<1>1. \A q \in {"insert", "put", "remove"} :
          (Some(B, q, i) <=> Some(A, q, i)) /\ \A c : Is(c, q, i) => (c \in B <=> c \in A)
  BY DEF Some, Is, SameWrites, Writes
<1>. QED  BY <1>1 DEF Ends, Some

LEMMA RunForEachLinked ==
    ASSUME OneRequest, IInv, LInv, NEW r \in Requests, RunForEach(r)
    PROVE  LInv'
<1>. SUFFICES ASSUME NEW c, c = Call(r), NEW t, t = req[r].own, NEW L, L = Later(req[r].todo, 1)
              PROVE  LInv'
  OBVIOUS
<1>1. /\ req[r].todo # <<>> /\ c.q = "each" /\ c \in InnerCalls /\ Call(r).q # "begin"
      /\ UNCHANGED dbVars /\ SameIds
  BY AtInner DEF RunForEach
<1>2. /\ c.ids \in SUBSET Txns /\ c.how \in {"linkBack", "linkDrop"} /\ c.other \in Txns
      /\ Reads(c) /\ ~Aside(c) /\ ~Last(c) /\ ~Writes(c) /\ ~Light(Pool, c)
  BY <1>1, StatementFields DEF Reads, Aside, Last, Writes, Light
<1>3. Placed(c, L) /\ Sound(t, {c} \cup L) /\ t # Pool
  <2>1. LinkedNow(r, t, c, L)
    BY <1>1, HeadIsLinked
  <2>2. \A d \in L : d.q # "begin"
    BY <1>2, <2>1 DEF LinkedNow, Placed, Precedes
  <2>. QED  BY <1>2, <2>1, <2>2 DEF LinkedNow
<1>4. CASE c.ids = {} /\ Continue(r, <<>>)
  <2>1. Sound(t, L)
    <3>1. SameWrites({c} \cup L, L) /\ SameVisits({c} \cup L, L)
      BY <1>1, <1>2, <1>4 DEF SameWrites, SameVisits, Seen, Visits
    <3>. QED  BY <1>3, <3>1, SameWritesEnd, SoundAlike
  <2>2. <<>> \in Seq(InnerCalls) /\ Later(<<>>, 0) = {} /\ Later(<<>>, 0) \cup L = L /\ Placing(<<>>, L)
    BY NothingFollows, LaterShort, PlacingShort
  <2>3. AllAsked(t, Later(<<>>, 0))
    BY <2>2 DEF AllAsked
  <2>. QED  BY <1>1, <1>3, <1>4, <2>1, <2>2, <2>3, ReadLinked, Zenon
<1>5. ASSUME NEW i \in c.ids, Continue(r, <<Find(i, c.how, c.other), ForEach(c.ids \ {i}, c.how, c.other)>>)
      PROVE  LInv'
  <2>. SUFFICES ASSUME NEW f, f = Find(i, c.how, c.other),
                       NEW e, e = ForEach(c.ids \ {i}, c.how, c.other), Continue(r, <<f, e>>)
                PROVE  LInv'
    BY <1>5
  <2>1. /\ f.q = "find" /\ f.how = c.how /\ f.id = i /\ f.arg = c.other /\ f \in InnerCalls
        /\ e.q = "each" /\ e.how = c.how /\ e.ids = c.ids \ {i} /\ e.other = c.other /\ e \in InnerCalls
    <3>1. f.q = "find" /\ f.how = c.how /\ f.id = i /\ f.arg = c.other
      BY DEF Find
    <3>2. e.q = "each" /\ e.how = c.how /\ e.ids = c.ids \ {i} /\ e.other = c.other
      BY DEF ForEach
    <3>3. f \in InnerCalls /\ e \in InnerCalls
      BY <1>2 DEF Find, ForEach, InnerCalls
    <3>. QED  BY <3>1, <3>2, <3>3, Zenon
  <2>2. /\ <<f, e>> \in Seq(InnerCalls) /\ Later(<<f, e>>, 0) = {f, e}
    <3>1. <<f, e>> \in Seq(InnerCalls)
      BY <2>1, SmallSeqs
    <3>2. Later(<<f, e>>, 0) = {f, e}
      BY LaterShort, Zenon
    <3>. QED  BY <3>1, <3>2, Zenon
  <2>3. Placed(e, L)
    BY <1>1, <1>2, <1>3, <2>1 DEF Placed, Precedes, Reads, Last, Aside
  <2>4. Placed(f, {e} \cup L)
    BY <1>1, <1>2, <1>3, <2>1 DEF Placed, Precedes, Reads, Last, Aside
  <2>5. Placing(<<f, e>>, L)
    BY <2>3, <2>4, PlacingShort, Zenon
  <2>6. Sound(t, {f, e} \cup L)
    <3>1. SameWrites({c} \cup L, {f, e} \cup L)
      BY <1>2, <2>1 DEF SameWrites, Writes
    <3>2. \A how, j, o : Visits(c, how, j, o) <=> Visits(f, how, j, o) \/ Visits(e, how, j, o)
      BY <1>1, <1>2, <2>1, Zenon DEF Visits
    <3>3. SameVisits({c} \cup L, {f, e} \cup L)
      BY <3>2 DEF SameVisits, Seen
    <3>. QED  BY <1>3, <3>1, <3>3, SameWritesEnd, SoundAlike
  <2>7. AllAsked(t, {f, e})
    BY <1>2, <2>1 DEF AllAsked, Asked
  <2>8. Sound(t, Later(<<f, e>>, 0) \cup L) /\ AllAsked(t, Later(<<f, e>>, 0))
    BY <2>2, <2>6, <2>7, Zenon
  <2>. QED  BY <1>1, <1>3, <2>2, <2>5, <2>8, ReadLinked, Zenon
<1>. QED  BY <1>4, <1>5, Zenon DEF RunForEach

-----------------------------------------------------------------------------
(* Rows that are read.                                                     *)

\* What is left to do with the links, when the calls more come before those of L.
LinksFollow(t, more, L) ==
    Placing(more, L) /\ Sound(t, Later(more, 0) \cup L) /\ AllAsked(t, Later(more, 0))

\* Call c has read row x, with handle t; L are the calls after it.
Reading(t, c, L, x) ==
    /\ c.q = "find" /\ c \in InnerCalls
    /\ x = RowAt(t, c.id) /\ x \in Row \cup {NoRow}
    /\ Placed(c, L) /\ Sound(t, {c} \cup L) /\ Asked(t, c)

\* Call d can come after a row is read, and back says what for.
After(d, back) ==
    /\ d.q \notin {"insert", "put", "begin"} /\ ~Last(d)
    /\ Reads(d) => (d.how = "linkBack" <=> back)

LEMMA AfterReading ==
    ASSUME NEW t, NEW c, NEW L, NEW x, Reading(t, c, L, x)
    PROVE  /\ \A d \in L : After(d, c.how = "linkBack")
           /\ Last(c) => L = {}
BY DEF Reading, Placed, Precedes, After, Reads, Aside, Last

\* Without an insert or an update, rows stay as they are or are removed.
LEMMA EndsRead ==
    ASSUME NEW t, NEW A, \A d \in A : d.q \notin {"insert", "put"}
    PROVE  \A i \in Txns : \A x \in Row : Ends(t, A, i, x) <=> ~Some(A, "remove", i) /\ x = RowAt(t, i)
<1>. SUFFICES ASSUME NEW i \in Txns, NEW x \in Row
              PROVE  Ends(t, A, i, x) <=> ~Some(A, "remove", i) /\ x = RowAt(t, i)
  OBVIOUS
<1>1. x # NoRow
  BY Sentinels
<1>2. ~Some(A, "put", i) /\ ~Some(A, "insert", i)
  BY DEF Some, Is
<1>3. (~\E d \in A : Is(d, "put", i) /\ x = d.row) /\ (~\E d \in A : Is(d, "insert", i) /\ x = d.row)
  BY <1>2 DEF Some
<1>. QED  BY <1>1, <1>2, <1>3 DEF Ends

\* One row is updated.
Updated(t, p, A, B) ==
    \A i \in Txns : \A x \in Row :
        Ends(t, B, i, x) <=> ~Some(A, "remove", i) /\ x = IF i = p.id THEN p.row ELSE RowAt(t, i)

LEMMA EndsPut ==
    ASSUME NEW t, NEW p, p.q = "put", NEW A, \A d \in A : d.q \notin {"insert", "put"}, NEW B, B = {p} \cup A
    PROVE  Updated(t, p, A, B)
<1>. SUFFICES ASSUME NEW i \in Txns, NEW x \in Row
              PROVE  Ends(t, B, i, x) <=>
                        ~Some(A, "remove", i) /\ x = IF i = p.id THEN p.row ELSE RowAt(t, i)
  BY DEF Updated
<1>1. x # NoRow
  BY Sentinels
<1>2. /\ Some(B, "put", i) <=> i = p.id
      /\ ~Some(B, "insert", i)
      /\ Some(B, "remove", i) <=> Some(A, "remove", i)
  BY DEF Some, Is
<1>3. (\E d \in B : Is(d, "put", i) /\ x = d.row) <=> i = p.id /\ x = p.row
  BY DEF Is
<1>4. ~\E d \in B : Is(d, "insert", i) /\ x = d.row
  BY <1>2 DEF Some
<1>. QED  BY <1>1, <1>2, <1>3, <1>4 DEF Ends

\* Two rows are updated.
LEMMA EndsPuts ==
    ASSUME NEW t, NEW p, NEW s, p.q = "put", s.q = "put"
    PROVE  \A i \in Txns : \A x \in Row :
              Ends(t, {p, s}, i, x) =>
                  \/ i = p.id /\ x = p.row
                  \/ i = s.id /\ x = s.row
                  \/ i \notin {p.id, s.id} /\ x = RowAt(t, i)
<1>. SUFFICES ASSUME NEW B, B = {p, s}, NEW i \in Txns, NEW x \in Row, Ends(t, B, i, x)
              PROVE  \/ i = p.id /\ x = p.row
                     \/ i = s.id /\ x = s.row
                     \/ i \notin {p.id, s.id} /\ x = RowAt(t, i)
  OBVIOUS
<1>1. x # NoRow
  BY Sentinels
<1>2. /\ Some(B, "put", i) <=> i \in {p.id, s.id}
      /\ ~Some(B, "insert", i) /\ ~Some(B, "remove", i)
  BY DEF Some, Is
<1>3. (\E d \in B : Is(d, "put", i) /\ x = d.row) <=> (i = p.id /\ x = p.row) \/ (i = s.id /\ x = s.row)
  BY DEF Is
<1>4. ~\E d \in B : Is(d, "insert", i) /\ x = d.row
  BY <1>2 DEF Some
<1>. QED  BY <1>1, <1>2, <1>3, <1>4 DEF Ends

\* What is sound of the rows that were read.
LEMMA SoundReading ==
    ASSUME NEW t, NEW A, \A d \in A : d.q \notin {"insert", "put"}, Sound(t, A)
    PROVE  /\ \A i, j \in Txns : \A x, y \in Row :
                i # j /\ x = RowAt(t, i) /\ y = RowAt(t, j) /\ ~Some(A, "remove", i) /\ ~Some(A, "remove", j)
                /\ j \in x.links /\ i \notin y.links => Mended(A, i, j)
           /\ \A i \in Txns : \A x \in Row :
                x = RowAt(t, i) /\ ~Some(A, "remove", i) => Given(i) /\ \A j \in x.links : Given(j)
           /\ \A j, o \in Txns : Seen(A, "linkBack", j, o)
                => Given(o) /\ \A x \in Row : x = RowAt(t, o) /\ ~Some(A, "remove", o) => j \in x.links
           /\ \A j, o \in Txns : Seen(A, "linkDrop", j, o)
                => \A x \in Row : x = RowAt(t, o) /\ ~Some(A, "remove", o) => j \notin x.links
BY EndsRead DEF Sound

LEMMA EditLinks ==
    ASSUME LinksKept, NEW t, NEW c, NEW L, NEW x, Reading(t, c, L, x), c.how = "edit", x # NoRow
    PROVE  LinksFollow(t, AfterEdit(c, x), L)
<1>. SUFFICES ASSUME NEW p, p = Put(c.id, Edited(x, c.arg)), NEW s, s = SaveBalance(x.acct),
                     NEW u, u = SaveBalance(c.arg.acct)
              PROVE  LinksFollow(t, AfterEdit(c, x), L)
  OBVIOUS
<1>1. /\ p.q = "put" /\ p.id = c.id /\ p.row = Edited(x, c.arg)
      /\ s.q = "lookup" /\ u.q = "lookup"
  BY DEF Put, SaveBalance, Stats
<1>2. /\ c.q = "find" /\ c \in InnerCalls /\ c.id \in Txns /\ x = RowAt(t, c.id) /\ x \in Row
      /\ Sound(t, {c} \cup L) /\ \A d \in L : After(d, FALSE)
  <2>1. c.q = "find" /\ c \in InnerCalls
    BY DEF Reading
  <2>. QED  BY <2>1, FindFields, AfterReading, Zenon DEF Reading
<1>3. p.row.links = x.links
  <2>1. c.arg \in Edits
    BY <1>2, FindFields
  <2>. QED  BY <1>1, <2>1 DEF LinksKept, Edited
<1>4. ASSUME NEW N, \A d \in N : d.q = "lookup"
      PROVE  Sound(t, {p} \cup N \cup L)
  <2>1. SameVisits({c} \cup L, {p} \cup N \cup L)
    BY <1>1, <1>2, <1>4 DEF SameVisits, Seen, Visits
  <2>2. ASSUME NEW i \in Txns, NEW y \in Row, Ends(t, {p} \cup N \cup L, i, y)
        PROVE  \E z \in Row : z.links = y.links /\ Ends(t, {c} \cup L, i, z)
    <3>1. ~Some(N \cup L, "remove", i) /\ y = IF i = p.id THEN p.row ELSE RowAt(t, i)
      <4>. SUFFICES ASSUME NEW A, A = N \cup L
                    PROVE  ~Some(A, "remove", i) /\ y = IF i = p.id THEN p.row ELSE RowAt(t, i)
        OBVIOUS
      <4>1. \A d \in A : d.q \notin {"insert", "put"}
        BY <1>2, <1>4 DEF After
      <4>2. {p} \cup N \cup L = {p} \cup A
        OBVIOUS
      <4>3. Updated(t, p, A, {p} \cup N \cup L)
        BY <1>1, <4>1, <4>2, EndsPut, Zenon
      <4>. QED  BY <2>2, <4>3 DEF Updated
    <3>2. ~Some({c} \cup L, "remove", i)
      BY <1>2, <3>1 DEF Some, Is
    <3>3. \A d \in {c} \cup L : d.q \notin {"insert", "put"}
      BY <1>2 DEF After
    <3>4. \E z \in Row : z.links = y.links /\ z = RowAt(t, i)
      BY <1>1, <1>2, <1>3, <3>1
    <3>. QED  BY <3>2, <3>3, <3>4, EndsRead
  <2>. QED  BY <1>2, <2>1, <2>2, SoundAlike, Zenon
<1>5. ASSUME NEW N, \A d \in N : d.q = "lookup"
      PROVE  Placed(p, N \cup L) /\ AllAsked(t, {p} \cup N)
  <2>1. \A d \in N \cup L : Precedes(p, d)
    BY <1>1, <1>2, <1>5 DEF Precedes, After, Reads, Last, Is
  <2>2. AllAsked(t, {p} \cup N)
    BY <1>1, <1>5 DEF AllAsked, Asked
  <2>. QED  BY <2>1, <2>2 DEF Placed
<1>6. Placed(s, L) /\ Placed(u, L) /\ Placed(s, {u} \cup L)
  BY <1>1, <1>2 DEF Placed, Precedes, After, Reads, Aside, Last
<1>7. CASE c.arg.acct \in {Keep, x.acct}
  <2>1. AfterEdit(c, x) = <<p, s>>
    BY <1>7 DEF AfterEdit
  <2>2. Placing(<<p, s>>, L)
    <3>1. Placed(p, {s} \cup L)
      BY <1>1, <1>5, Zenon
    <3>. QED  BY <1>6, <3>1, PlacingShort, Zenon
  <2>3. Later(<<p, s>>, 0) = {p, s}
    BY LaterShort
  <2>4. Sound(t, {p, s} \cup L) /\ AllAsked(t, {p, s})
    <3>1. {p, s} = {p} \cup {s} /\ \A d \in {s} : d.q = "lookup"
      BY <1>1
    <3>. QED  BY <1>4, <1>5, <3>1, Zenon
  <2>. QED  BY <2>1, <2>2, <2>3, <2>4 DEF LinksFollow
<1>8. CASE c.arg.acct \notin {Keep, x.acct}
  <2>1. AfterEdit(c, x) = <<p, s>> \o <<u>>
    BY <1>8 DEF AfterEdit
  <2>2. AfterEdit(c, x) = <<p, s, u>>
    BY <2>1, ThreeGlued, Zenon
  <2>3. Placing(<<p, s, u>>, L)
    <3>1. Placed(p, {s, u} \cup L)
      BY <1>1, <1>5, Zenon
    <3>. QED  BY <1>6, <3>1, PlacingShort, Zenon
  <2>4. Later(<<p, s, u>>, 0) = {p, s, u}
    BY LaterThreeFour
  <2>5. Sound(t, {p, s, u} \cup L) /\ AllAsked(t, {p, s, u})
    <3>1. {p, s, u} = {p} \cup {s, u} /\ \A d \in {s, u} : d.q = "lookup"
      BY <1>1
    <3>. QED  BY <1>4, <1>5, <3>1, Zenon
  <2>. QED  BY <2>2, <2>3, <2>4, <2>5 DEF LinksFollow
<1>. QED  BY <1>7, <1>8

LEMMA DeleteLinks ==
    ASSUME NEW t, NEW c, NEW L, NEW x, Reading(t, c, L, x), c.how = "delete"
    PROVE  LinksFollow(t, AfterDelete(c, x), L)
<1>. SUFFICES ASSUME NEW p, p = Aim({"trx"}), NEW f, f = Find(c.id, "unlinkAll", c.id),
                     NEW m, m = Remove(c.id), NEW s, s = SaveBalance(x.acct)
              PROVE  LinksFollow(t, AfterDelete(c, x), L)
  OBVIOUS
<1>1. /\ p.q = "aim" /\ f.q = "find" /\ f.how = "unlinkAll" /\ m.q = "remove" /\ s.q = "lookup"
  BY DEF Aim, Find, Remove, SaveBalance, Stats
<1>2. c.q = "find" /\ Sound(t, {c} \cup L) /\ \A d \in L : After(d, FALSE)
  BY AfterReading, Zenon DEF Reading
<1>3. ASSUME NEW N, N \subseteq {p, f, m, s}
      PROVE  Sound(t, N \cup L) /\ AllAsked(t, N)
  <2>1. SameVisits({c} \cup L, N \cup L)
    BY <1>1, <1>2, <1>3 DEF SameVisits, Seen, Visits
  <2>2. ASSUME NEW i \in Txns, NEW y \in Row, Ends(t, N \cup L, i, y)
        PROVE  Ends(t, {c} \cup L, i, y)
    <3>1. \A d \in N \cup L : d.q \notin {"insert", "put"}
      BY <1>1, <1>2, <1>3 DEF After
    <3>2. \A d \in {c} \cup L : d.q \notin {"insert", "put"}
      BY <1>2 DEF After
    <3>3. ~Some(N \cup L, "remove", i) /\ y = RowAt(t, i)
      BY <2>2, <3>1, EndsRead
    <3>4. ~Some({c} \cup L, "remove", i)
      BY <1>2, <3>3 DEF Some, Is
    <3>. QED  BY <3>2, <3>3, <3>4, EndsRead
  <2>3. Sound(t, N \cup L)
    BY <1>2, <2>1, <2>2, SoundAlike, Zenon
  <2>4. AllAsked(t, N)
    BY <1>1, <1>3 DEF AllAsked, Asked
  <2>. QED  BY <2>3, <2>4
<1>4. \A d \in L \cup {p, f, m, s} : d.q \notin {"insert", "put", "begin"} /\ ~Last(d)
  BY <1>1, <1>2 DEF After, Last
<1>5. /\ Placed(p, {f, m, s} \cup L) /\ Placed(f, {m, s} \cup L)
      /\ Placed(m, {s} \cup L) /\ Placed(s, L)
  BY <1>1, <1>2, <1>4 DEF Placed, Precedes, After, Reads, Aside, Is
<1>6. Placing(<<m, s>>, L) /\ Placing(<<p, f, m, s>>, L)
  BY <1>5, PlacingShort, Zenon
<1>7. Later(<<m, s>>, 0) = {m, s} /\ Later(<<p, f, m, s>>, 0) = {p, f, m, s}
  BY LaterShort, LaterThreeFour
<1>8. LinksFollow(t, <<m, s>>, L) /\ LinksFollow(t, <<p, f, m, s>>, L)
  <2>1. Sound(t, {m, s} \cup L) /\ AllAsked(t, {m, s})
    BY <1>3
  <2>2. Sound(t, {p, f, m, s} \cup L) /\ AllAsked(t, {p, f, m, s})
    BY <1>3
  <2>. QED  BY <1>6, <1>7, <2>1, <2>2, Zenon DEF LinksFollow
<1>9. CASE x.links = {}
  <2>1. AfterDelete(c, x) = <<>> \o <<m, s>>
    BY <1>9 DEF AfterDelete
  <2>2. <<>> \o <<m, s>> = <<m, s>>
    OBVIOUS
  <2>. QED  BY <1>8, <2>1, <2>2, Zenon
<1>10. CASE x.links # {}
  <2>1. AfterDelete(c, x) = <<p, f>> \o <<m, s>>
    BY <1>10 DEF AfterDelete
  <2>2. AfterDelete(c, x) = <<p, f, m, s>>
    BY <2>1, FourGlued, Zenon
  <2>. QED  BY <1>8, <2>2, Zenon
<1>. QED  BY <1>9, <1>10

LEMMA UnlinkAllLinks ==
    ASSUME NEW t, NEW c, NEW L, NEW x, Reading(t, c, L, x), c.how = "unlinkAll"
    PROVE  LinksFollow(t, AfterUnlinkAll(c, x), L)
<1>1. /\ c.q = "find" /\ c.id \in Txns /\ x = RowAt(t, c.id) /\ x \in Row \cup {NoRow}
      /\ Sound(t, {c} \cup L) /\ \A d \in L : After(d, FALSE)
  BY FindFields, AfterReading, Zenon DEF Reading
<1>2. \A d \in {c} \cup L : d.q \notin {"insert", "put"}
  BY <1>1 DEF After
<1>3. \A j, o : ~Seen({c} \cup L, "linkBack", j, o) /\ ~Seen(L, "linkBack", j, o)
  BY <1>1 DEF Seen, Visits, After, Reads
<1>4. \A i : Some({c} \cup L, "remove", i) <=> Some(L, "remove", i)
  BY <1>1 DEF Some, Is
<1>5. CASE x = NoRow
  <2>1. AfterUnlinkAll(c, x) = <<>> /\ Later(<<>>, 0) \cup L = L /\ Later(<<>>, 0) = {}
    BY <1>5, LaterShort DEF AfterUnlinkAll
  <2>2. SameWrites({c} \cup L, L) /\ SameVisits({c} \cup L, L)
    BY <1>1 DEF SameWrites, Writes, SameVisits, Seen, Visits
  <2>3. Sound(t, L)
    BY <1>1, <2>2, SameWritesEnd, SoundAlike
  <2>4. Placing(<<>>, L)
    BY PlacingShort
  <2>. QED  BY <2>1, <2>3, <2>4, Zenon DEF LinksFollow, AllAsked
<1>6. CASE x # NoRow
  <2>. SUFFICES ASSUME NEW p, p = Put(c.id, [x EXCEPT !.links = {}]),
                       NEW e, e = ForEach(x.links, "linkDrop", c.id)
                PROVE  LinksFollow(t, <<p, e>>, L)
    BY <1>6 DEF AfterUnlinkAll
  <2>1. /\ p.q = "put" /\ p.id = c.id /\ p.row.links = {} /\ p.row \in Row /\ x \in Row
        /\ e.q = "each" /\ e.ids = x.links /\ e.how = "linkDrop" /\ e.other = c.id
    BY <1>1, <1>6 DEF Put, ForEach, Row
  <2>2. Placing(<<p, e>>, L)
    <3>1. Placed(e, L)
      BY <1>1, <2>1 DEF Placed, Precedes, After, Reads, Last
    <3>2. Placed(p, {e} \cup L)
      BY <1>1, <2>1 DEF Placed, Precedes, After, Reads, Last, Is
    <3>. QED  BY <3>1, <3>2, PlacingShort, Zenon
  <2>3. AllAsked(t, {p, e}) /\ Later(<<p, e>>, 0) = {p, e}
    BY <2>1, LaterShort, Zenon DEF AllAsked, Asked
  <2>4. Sound(t, {p, e} \cup L)
    <3>. SUFFICES ASSUME NEW A, A = {c} \cup L, NEW B, B = {p, e} \cup L
                  PROVE  Sound(t, B)
      BY Zenon
    <3>1. ASSUME NEW i \in Txns, NEW y \in Row, Ends(t, B, i, y)
          PROVE  ~Some(A, "remove", i) /\ IF i = c.id THEN y.links = {} ELSE y = RowAt(t, i)
      <4>. SUFFICES ASSUME NEW N, N = {e} \cup L
                    PROVE  ~Some(A, "remove", i) /\ IF i = c.id THEN y.links = {} ELSE y = RowAt(t, i)
        BY Zenon
      <4>1. (\A d \in N : d.q \notin {"insert", "put"}) /\ B = {p} \cup N
        BY <1>2, <2>1
      <4>2. Updated(t, p, N, B)
        BY <2>1, <4>1, EndsPut, Zenon
      <4>3. ~Some(N, "remove", i) /\ y = IF i = p.id THEN p.row ELSE RowAt(t, i)
        BY <3>1, <4>2, Zenon DEF Updated
      <4>4. ~Some(A, "remove", i)
        BY <1>4, <4>3 DEF Some
      <4>. QED  BY <2>1, <4>3, <4>4, Zenon
    <3>2. /\ \A j, o : ~Seen(B, "linkBack", j, o) /\ ~Seen(A, "linkBack", j, o)
          /\ \A j, o : Seen(B, "linkDrop", j, o) <=> Seen(A, "linkDrop", j, o) \/ (o = c.id /\ j \in x.links)
      <4>1. \A how, j, o : ~Visits(p, how, j, o) /\ (how # "unlinkAll" => ~Visits(c, how, j, o))
        BY <1>1, <2>1 DEF Visits
      <4>2. \A how, j, o : Visits(e, how, j, o) <=> how = "linkDrop" /\ o = c.id /\ j \in x.links
        BY <2>1 DEF Visits
      <4>3. \A j, o : Seen(B, "linkDrop", j, o) <=> Seen(A, "linkDrop", j, o) \/ (o = c.id /\ j \in x.links)
        BY <4>1, <4>2 DEF Seen
      <4>4. \A j, o : ~Seen(B, "linkBack", j, o)
        BY <1>3, <4>1, <4>2 DEF Seen
      <4>. QED  BY <1>3, <4>3, <4>4, Zenon
    <3>3. /\ \A i, j \in Txns : \A y, z \in Row :
                i # j /\ y = RowAt(t, i) /\ z = RowAt(t, j) /\ ~Some(A, "remove", i) /\ ~Some(A, "remove", j)
                /\ j \in y.links /\ i \notin z.links => Mended(A, i, j)
          /\ \A i \in Txns : \A y \in Row :
                y = RowAt(t, i) /\ ~Some(A, "remove", i) => Given(i) /\ \A j \in y.links : Given(j)
          /\ \A j, o \in Txns : Seen(A, "linkDrop", j, o)
                => \A y \in Row : y = RowAt(t, o) /\ ~Some(A, "remove", o) => j \notin y.links
      BY <1>1, <1>2, SoundReading, Zenon
    <3>4. ASSUME NEW i \in Txns, NEW j \in Txns, NEW y \in Row, NEW z \in Row,
                 i # j, Ends(t, B, i, y), Ends(t, B, j, z), j \in y.links, i \notin z.links
          PROVE  Mended(B, i, j)
      <4>1. i # c.id /\ y = RowAt(t, i) /\ ~Some(A, "remove", i) /\ ~Some(A, "remove", j)
        BY <3>1, <3>4
      <4>2. CASE j = c.id
        <5>1. CASE i \in x.links
          BY <3>2, <4>2, <5>1, Zenon DEF Mended
        <5>2. CASE i \notin x.links
          <6>1. Mended(A, i, j)
            BY <1>1, <2>1, <3>3, <3>4, <4>1, <4>2, <5>2, Zenon
          <6>. QED  BY <3>2, <6>1, Zenon DEF Mended
        <5>. QED  BY <5>1, <5>2
      <4>3. CASE j # c.id
        <5>1. z = RowAt(t, j)
          BY <3>1, <3>4, <4>3
        <5>2. Mended(A, i, j)
          BY <3>3, <3>4, <4>1, <5>1, Zenon
        <5>. QED  BY <3>2, <5>2, Zenon DEF Mended
      <4>. QED  BY <4>2, <4>3
    <3>5. ASSUME NEW i \in Txns, NEW y \in Row, Ends(t, B, i, y)
          PROVE  Given(i) /\ \A j \in y.links : Given(j)
      BY <1>1, <2>1, <3>1, <3>3, <3>5, Zenon
    <3>6. ASSUME NEW j \in Txns, NEW o \in Txns, Seen(B, "linkDrop", j, o), NEW y \in Row, Ends(t, B, o, y)
          PROVE  j \notin y.links
      BY <3>1, <3>2, <3>3, <3>6, Zenon
    <3>. QED  BY <3>2, <3>4, <3>5, <3>6, Zenon DEF Sound
  <2>. QED  BY <2>2, <2>3, <2>4, Zenon DEF LinksFollow
<1>. QED  BY <1>5, <1>6

LEMMA LinkFromLinks ==
    ASSUME NEW t, NEW c, NEW L, NEW x, Reading(t, c, L, x), c.how = "linkFrom", NEW f,
           f = Find(c.arg, "linkTo", [id |-> c.id, row |-> x])
    PROVE  LinksFollow(t, <<f>>, L) /\ L = {}
<1>1. c.q = "find" /\ L = {} /\ x = RowAt(t, c.id) /\ Sound(t, {c} \cup L) /\ Given(c.id) /\ Given(c.arg)
  BY AfterReading DEF Reading, Last, Asked
<1>2. f.q = "find" /\ f.id = c.arg /\ f.how = "linkTo" /\ f.arg.id = c.id /\ f.arg.row = x
  BY DEF Find
<1>3. SameWrites({c} \cup L, {f} \cup L) /\ SameVisits({c} \cup L, {f} \cup L)
  BY <1>1, <1>2 DEF SameWrites, Writes, SameVisits, Seen, Visits
<1>4. Sound(t, {f} \cup L)
  BY <1>1, <1>3, SameWritesEnd, SoundAlike
<1>5. Placing(<<f>>, L) /\ Later(<<f>>, 0) = {f}
  BY <1>1, PlacingShort, LaterShort, Zenon DEF Placed
<1>6. AllAsked(t, {f})
  BY <1>1, <1>2 DEF AllAsked, Asked
<1>. QED  BY <1>1, <1>4, <1>5, <1>6 DEF LinksFollow

\* Nothing is left to be done to links when link and unlink write.
LEMMA SoundAlone ==
    ASSUME NEW t, NEW c, c.q = "find", Last(c), Sound(t, {c})
    PROVE  /\ \A i, j \in Txns : \A x, y \in Row :
                i # j /\ x = RowAt(t, i) /\ y = RowAt(t, j) /\ j \in x.links => i \in y.links
           /\ \A i \in Txns : \A x \in Row : x = RowAt(t, i) => Given(i) /\ \A j \in x.links : Given(j)
<1>. SUFFICES ASSUME NEW A, A = {c}
              PROVE  /\ \A i, j \in Txns : \A x, y \in Row :
                          i # j /\ x = RowAt(t, i) /\ y = RowAt(t, j) /\ j \in x.links => i \in y.links
                     /\ \A i \in Txns : \A x \in Row :
                          x = RowAt(t, i) => Given(i) /\ \A j \in x.links : Given(j)
  OBVIOUS
<1>1. /\ \A d \in A : d.q \notin {"insert", "put"}
      /\ \A i : ~Some(A, "remove", i)
      /\ \A i, j : ~Mended(A, i, j)
  BY DEF Some, Is, Mended, Seen, Visits, Last
<1>2. Sound(t, A)
  OBVIOUS
<1>3. /\ \A i, j \in Txns : \A x, y \in Row :
            i # j /\ x = RowAt(t, i) /\ y = RowAt(t, j) /\ ~Some(A, "remove", i) /\ ~Some(A, "remove", j)
            /\ j \in x.links /\ i \notin y.links => Mended(A, i, j)
      /\ \A i \in Txns : \A x \in Row :
            x = RowAt(t, i) /\ ~Some(A, "remove", i) => Given(i) /\ \A j \in x.links : Given(j)
  BY <1>1, <1>2, SoundReading
<1>. QED  BY <1>1, <1>3

\* Rows i and j, which were y and z, have been linked.
Joined(t, B, i, j, y, z) ==
    \A k \in Txns : \A x \in Row : Ends(t, B, k, x) =>
        /\ k = i => x.links = y.links \cup {j}
        /\ k # i /\ k = j => x.links = z.links \cup {i}
        /\ k \notin {i, j} => x = RowAt(t, k)

LEMMA LinkToLinks ==
    ASSUME NEW t, NEW c, NEW L, NEW x, Reading(t, c, L, x), c.how = "linkTo", x # NoRow, NEW p, NEW s,
           p = Put(c.arg.id, WithLink(c.arg.row, c.id)), s = Put(c.id, WithLink(x, c.arg.id))
    PROVE  /\ LinksFollow(t, <<p, s>>, L) /\ L = {}
           /\ c.arg.id \in x.links => LinksFollow(t, <<p>>, L)
<1>. SUFFICES ASSUME NEW i1, i1 = c.arg.id, NEW i2, i2 = c.id, NEW w, w = c.arg.row
              PROVE  /\ LinksFollow(t, <<p, s>>, L) /\ L = {}
                     /\ c.arg.id \in x.links => LinksFollow(t, <<p>>, L)
  OBVIOUS
<1>1. /\ c.q = "find" /\ Last(c) /\ L = {} /\ x = RowAt(t, i2) /\ x \in Row /\ Sound(t, {c} \cup L)
      /\ i1 \in Txns /\ i2 \in Txns /\ w \in Row /\ w = RowAt(t, i1) /\ Given(i1) /\ Given(i2)
  BY FindFields, AfterReading DEF Reading, Last, Asked
<1>2. /\ p.q = "put" /\ p.id = i1 /\ p.row = WithLink(w, i2)
      /\ s.q = "put" /\ s.id = i2 /\ s.row = WithLink(x, i1)
  BY DEF Put
<1>3. /\ p.row \in Row /\ p.row.links = w.links \cup {i2}
      /\ s.row \in Row /\ s.row.links = x.links \cup {i1}
  <2>1. WithLink(w, i2) \in Row /\ WithLink(x, i1) \in Row
    BY <1>1, LinkedRow, Zenon
  <2>2. WithLink(w, i2).links = w.links \cup {i2} /\ WithLink(x, i1).links = x.links \cup {i1}
    BY <1>1 DEF WithLink, Row
  <2>. QED  BY <1>2, <2>1, <2>2
<1>4. /\ \A i, j \in Txns : \A y, z \in Row :
            i # j /\ y = RowAt(t, i) /\ z = RowAt(t, j) /\ j \in y.links => i \in z.links
      /\ \A i \in Txns : \A y \in Row : y = RowAt(t, i) => Given(i) /\ \A j \in y.links : Given(j)
  <2>1. Sound(t, {c})
    BY <1>1
  <2>. QED  BY <1>1, <2>1, SoundAlone
<1>5. ASSUME NEW B, \A d \in B : d.q = "put", Joined(t, B, i1, i2, w, x)
      PROVE  Sound(t, B)
  <2>1. \A how, j, o : ~Seen(B, how, j, o)
    BY <1>5 DEF Seen, Visits
  <2>2. ASSUME NEW i \in Txns, NEW j \in Txns, NEW y \in Row, NEW z \in Row,
               i # j, Ends(t, B, i, y), Ends(t, B, j, z), j \in y.links
        PROVE  i \in z.links
    <3>1. CASE i = i1 /\ j = i2
      BY <1>1, <1>5, <2>2, <3>1 DEF Joined
    <3>2. CASE i = i1 /\ j # i2
      BY <1>1, <1>4, <1>5, <2>2, <3>2 DEF Joined
    <3>3. CASE i # i1 /\ i = i2 /\ j = i1
      BY <1>1, <1>5, <2>2, <3>3 DEF Joined
    <3>4. CASE i # i1 /\ i = i2 /\ j # i1
      BY <1>1, <1>4, <1>5, <2>2, <3>4 DEF Joined
    <3>5. CASE i \notin {i1, i2}
      BY <1>1, <1>4, <1>5, <2>2, <3>5 DEF Joined
    <3>. QED  BY <3>1, <3>2, <3>3, <3>4, <3>5
  <2>3. ASSUME NEW i \in Txns, NEW y \in Row, Ends(t, B, i, y)
        PROVE  Given(i) /\ \A j \in y.links : Given(j)
    BY <1>1, <1>4, <1>5, <2>3 DEF Joined
  <2>. QED  BY <2>1, <2>2, <2>3 DEF Sound
<1>6. /\ Placed(s, L) /\ Placed(p, {s} \cup L) /\ Placed(p, L)
      /\ AllAsked(t, {p, s}) /\ AllAsked(t, {p})
  BY <1>1, <1>2 DEF Placed, Precedes, Reads, Last, Is, AllAsked, Asked
<1>7. LinksFollow(t, <<p, s>>, L)
  <2>1. Sound(t, {p, s})
    <3>1. \A d \in {p, s} : d.q = "put"
      BY <1>2
    <3>2. ASSUME NEW i \in Txns, NEW y \in Row, Ends(t, {p, s}, i, y)
          PROVE  /\ i = i1 => y.links = w.links \cup {i2}
                 /\ i # i1 /\ i = i2 => y.links = x.links \cup {i1}
                 /\ i \notin {i1, i2} => y = RowAt(t, i)
      <4>1. \/ i = p.id /\ y = p.row
            \/ i = s.id /\ y = s.row
            \/ i \notin {p.id, s.id} /\ y = RowAt(t, i)
        BY <1>2, <3>2, EndsPuts
      <4>2. i1 = i2 => w = x
        BY <1>1
      <4>. QED  BY <1>2, <1>3, <4>1, <4>2
    <3>. QED  BY <1>5, <3>1, <3>2 DEF Joined
  <2>2. Placing(<<p, s>>, L)
    BY <1>6, PlacingShort, Zenon
  <2>3. Later(<<p, s>>, 0) = {p, s} /\ {p, s} \cup L = {p, s}
    BY <1>1, LaterShort
  <2>. QED  BY <1>6, <2>1, <2>2, <2>3 DEF LinksFollow
<1>8. ASSUME i1 \in x.links
      PROVE  LinksFollow(t, <<p>>, L)
  <2>1. Sound(t, {p})
    <3>1. \A d \in {p} : d.q = "put"
      BY <1>2
    <3>2. ASSUME NEW i \in Txns, NEW y \in Row, Ends(t, {p}, i, y)
          PROVE  /\ i = i1 => y.links = w.links \cup {i2}
                 /\ i # i1 /\ i = i2 => y.links = x.links \cup {i1}
                 /\ i \notin {i1, i2} => y = RowAt(t, i)
      <4>. SUFFICES ASSUME NEW A, A = {}
                    PROVE  /\ i = i1 => y.links = w.links \cup {i2}
                           /\ i # i1 /\ i = i2 => y.links = x.links \cup {i1}
                           /\ i \notin {i1, i2} => y = RowAt(t, i)
        BY Zenon
      <4>1. (\A d \in A : d.q \notin {"insert", "put"}) /\ {p} = {p} \cup A
        OBVIOUS
      <4>2. Updated(t, p, A, {p})
        BY <1>2, <4>1, EndsPut, Zenon
      <4>3. y = IF i = p.id THEN p.row ELSE RowAt(t, i)
        BY <3>2, <4>2 DEF Updated
      <4>4. x.links = x.links \cup {i1}
        BY <1>8
      <4>. QED  BY <1>1, <1>2, <1>3, <4>3, <4>4
    <3>. QED  BY <1>5, <3>1, <3>2 DEF Joined
  <2>2. Placing(<<p>>, L)
    BY <1>6, PlacingShort, Zenon
  <2>3. Later(<<p>>, 0) = {p} /\ {p} \cup L = {p}
    BY <1>1, LaterShort
  <2>. QED  BY <1>6, <2>1, <2>2, <2>3 DEF LinksFollow
<1>. QED  BY <1>1, <1>7, <1>8

\* What the rows become, when row i becomes z and no row that the calls A remove is left.
Rewritten(t, B, A, i, z) ==
    \A k \in Txns : \A y \in Row : Ends(t, B, k, y) =>
        ~Some(A, "remove", k) /\ y = IF k = i THEN z ELSE RowAt(t, k)

\* One row is read and written back with other links, the calls N being added.
LEMMA EndsWritten ==
    ASSUME NEW t, NEW c, NEW L, NEW x, Reading(t, c, L, x), x # NoRow, NEW p, p.q = "put", p.id = c.id,
           NEW N, \A d \in N : d.q \in {"find", "each"}, NEW B, B = {p} \cup N \cup L,
           NEW A, A = {c} \cup L
    PROVE  Rewritten(t, B, A, c.id, p.row)
<1>. SUFFICES ASSUME NEW i \in Txns, NEW y \in Row, Ends(t, B, i, y), NEW M, M = N \cup L
              PROVE  ~Some(A, "remove", i) /\ y = IF i = c.id THEN p.row ELSE RowAt(t, i)
  BY Zenon DEF Rewritten
<1>1. c.q = "find" /\ \A d \in L : d.q \notin {"insert", "put"}
  BY AfterReading DEF Reading, After
<1>2. (\A d \in M : d.q \notin {"insert", "put"}) /\ B = {p} \cup M
  BY <1>1
<1>3. Updated(t, p, M, B)
  BY <1>2, EndsPut, Zenon
<1>4. ~Some(M, "remove", i) /\ y = IF i = p.id THEN p.row ELSE RowAt(t, i)
  BY <1>3, Zenon DEF Updated
<1>5. ~Some(A, "remove", i)
  BY <1>1, <1>4 DEF Some, Is
<1>. QED  BY <1>4, <1>5

LEMMA UnlinkFromLinks ==
    ASSUME NEW t, NEW c, NEW L, NEW x, Reading(t, c, L, x), c.how = "unlinkFrom", x # NoRow, NEW p, NEW f,
           p = Put(c.id, WithoutLink(x, c.arg)), f = Find(c.arg, "linkDrop", c.id)
    PROVE  LinksFollow(t, <<p, f>>, L) /\ L = {}
<1>1. /\ c.q = "find" /\ Last(c) /\ L = {} /\ x = RowAt(t, c.id) /\ x \in Row /\ Sound(t, {c})
      /\ c.id \in Txns /\ c.arg \in Txns
  <2>1. c.q = "find" /\ Last(c) /\ c \in InnerCalls
    BY DEF Reading, Last
  <2>2. L = {}
    BY <2>1, AfterReading
  <2>3. {c} \cup L = {c}
    BY <2>2
  <2>. QED  BY <2>1, <2>2, <2>3, FindFields DEF Reading
<1>2. /\ p.q = "put" /\ p.id = c.id /\ p.row = WithoutLink(x, c.arg)
      /\ f.q = "find" /\ f.id = c.arg /\ f.how = "linkDrop" /\ f.arg = c.id /\ ~Last(f)
  BY DEF Put, Find, Last
<1>3. p.row.links = x.links \ {c.arg}
  BY <1>1, <1>2 DEF WithoutLink, Row
<1>4. /\ \A i, j \in Txns : \A y, z \in Row :
            i # j /\ y = RowAt(t, i) /\ z = RowAt(t, j) /\ j \in y.links => i \in z.links
      /\ \A i \in Txns : \A y \in Row : y = RowAt(t, i) => Given(i) /\ \A j \in y.links : Given(j)
  BY <1>1, SoundAlone
<1>5. Placed(f, L) /\ Placed(p, {f} \cup L)
  BY <1>1, <1>2 DEF Placed, Precedes, Reads, Last, Is
<1>6. Placing(<<p, f>>, L) /\ Later(<<p, f>>, 0) = {p, f} /\ AllAsked(t, {p, f})
  <2>1. Placing(<<p, f>>, L)
    BY <1>5, PlacingShort, Zenon
  <2>2. Later(<<p, f>>, 0) = {p, f}
    BY LaterShort
  <2>. QED  BY <1>2, <2>1, <2>2 DEF AllAsked, Asked
<1>7. Sound(t, {p, f} \cup L)
  <2>. SUFFICES ASSUME NEW B, B = {p} \cup {f} \cup L
                PROVE  Sound(t, B)
    OBVIOUS
  <2>1. \A i \in Txns : \A y \in Row : Ends(t, B, i, y) => y = IF i = c.id THEN p.row ELSE RowAt(t, i)
    <3>1. \A d \in {f} : d.q \in {"find", "each"}
      BY <1>2
    <3>2. Rewritten(t, B, {c} \cup L, c.id, p.row)
      BY <1>2, <3>1, EndsWritten, Zenon
    <3>. QED  BY <3>2 DEF Rewritten
  <2>2. /\ \A j, o : ~Seen(B, "linkBack", j, o)
        /\ \A j, o : Seen(B, "linkDrop", j, o) <=> j = c.arg /\ o = c.id
    <3>1. \A d \in B : d = p \/ d = f
      BY <1>1
    <3>2. \A how, j, o : ~Visits(p, how, j, o) /\ (Visits(f, how, j, o) <=> how = "linkDrop" /\ j = c.arg /\ o = c.id)
      BY <1>2 DEF Visits
    <3>. QED  BY <3>1, <3>2 DEF Seen
  <2>3. ASSUME NEW i \in Txns, NEW j \in Txns, NEW y \in Row, NEW z \in Row,
               i # j, Ends(t, B, i, y), Ends(t, B, j, z), j \in y.links, i \notin z.links
        PROVE  Mended(B, i, j)
    <3>1. CASE i = c.id
      BY <1>1, <1>3, <1>4, <2>1, <2>3, <3>1, Zenon
    <3>2. CASE i # c.id
      <4>1. y = RowAt(t, i) /\ z = IF j = c.id THEN p.row ELSE RowAt(t, j)
        BY <2>1, <2>3, <3>2, Zenon
      <4>2. j = c.id /\ i = c.arg
        BY <1>1, <1>3, <1>4, <2>3, <4>1
      <4>. QED  BY <2>2, <4>2 DEF Mended
    <3>. QED  BY <3>1, <3>2
  <2>4. ASSUME NEW i \in Txns, NEW y \in Row, Ends(t, B, i, y)
        PROVE  Given(i) /\ \A j \in y.links : Given(j)
    BY <1>1, <1>3, <1>4, <2>1, <2>4, Zenon
  <2>5. ASSUME NEW j \in Txns, NEW o \in Txns, Seen(B, "linkDrop", j, o), NEW y \in Row, Ends(t, B, o, y)
        PROVE  j \notin y.links
    BY <1>3, <2>1, <2>2, <2>5, Zenon
  <2>. QED  BY <2>2, <2>3, <2>4, <2>5, Zenon DEF Sound
<1>. QED  BY <1>1, <1>6, <1>7 DEF LinksFollow

\* Row c.id is written back with links S, or left: what row c.id becomes is known, and what is
\* still to be done is what was, but for c.
Mending(t, B, A, c, x, S) ==
    \A i \in Txns : \A y \in Row : Ends(t, B, i, y) =>
        /\ ~Some(A, "remove", i)
        /\ i = c.id => x # NoRow /\ y.links = S
        /\ i # c.id => y = RowAt(t, i)

LEMMA SoundMended ==
    ASSUME NEW t, NEW c, NEW L, NEW A, A = {c} \cup L, NEW B, NEW how, how \in {"linkBack", "linkDrop"},
           NEW x, Reading(t, c, L, x), c.how = how, c.arg \in Txns, c.id \in Txns,
           SameVisits(B, L), NEW S, Mending(t, B, A, c, x, S),
           x # NoRow => S = IF how = "linkBack" THEN x.links \cup {c.arg} ELSE x.links \ {c.arg}
    PROVE  Sound(t, B)
<1>0. /\ \A i \in Txns : \A y \in Row : Ends(t, B, i, y) =>
            /\ ~Some(A, "remove", i)
            /\ i = c.id => x # NoRow /\ y.links = S
            /\ i # c.id => y = RowAt(t, i)
      /\ \A j, o : /\ Seen(B, "linkBack", j, o) <=> Seen(L, "linkBack", j, o)
                   /\ Seen(B, "linkDrop", j, o) <=> Seen(L, "linkDrop", j, o)
  BY DEF Mending, SameVisits
<1>1. /\ c.q = "find" /\ x = RowAt(t, c.id) /\ x \in Row \cup {NoRow} /\ Sound(t, A)
      /\ \A d \in L : After(d, how = "linkBack")
  <2>1. c.q = "find" /\ x = RowAt(t, c.id) /\ x \in Row \cup {NoRow} /\ Sound(t, A)
    BY DEF Reading
  <2>. QED  BY <2>1, AfterReading
<1>2. \A d \in A : d.q \notin {"insert", "put"}
  BY <1>1 DEF After
<1>3. /\ \A i, j \in Txns : \A y, z \in Row :
            i # j /\ y = RowAt(t, i) /\ z = RowAt(t, j) /\ ~Some(A, "remove", i) /\ ~Some(A, "remove", j)
            /\ j \in y.links /\ i \notin z.links => Mended(A, i, j)
      /\ \A i \in Txns : \A y \in Row :
            y = RowAt(t, i) /\ ~Some(A, "remove", i) => Given(i) /\ \A j \in y.links : Given(j)
      /\ \A j, o \in Txns : Seen(A, "linkBack", j, o)
            => Given(o) /\ \A y \in Row : y = RowAt(t, o) /\ ~Some(A, "remove", o) => j \in y.links
      /\ \A j, o \in Txns : Seen(A, "linkDrop", j, o)
            => \A y \in Row : y = RowAt(t, o) /\ ~Some(A, "remove", o) => j \notin y.links
  BY <1>1, <1>2, SoundReading, Zenon
<1>4. \A h, j, o : Seen(A, h, j, o) <=> Seen(L, h, j, o) \/ (h = how /\ j = c.id /\ o = c.arg)
  <2>1. \A h, j, o : Visits(c, h, j, o) <=> h = how /\ j = c.id /\ o = c.arg
    BY <1>1 DEF Visits
  <2>. QED  BY <2>1 DEF Seen
<1>5. \A h, j, o : Seen(L, h, j, o) => (h = "linkBack" <=> how = "linkBack")
  BY <1>1 DEF Seen, Visits, After, Reads
<1>6. \A i, j : Mended(A, i, j) => \/ Mended(B, i, j)
                                   \/ how = "linkBack" /\ j = c.id /\ i = c.arg
                                   \/ how = "linkDrop" /\ i = c.id /\ j = c.arg
  BY <1>0, <1>4 DEF Mended
<1>7. ASSUME NEW i \in Txns, NEW j \in Txns, NEW y \in Row, NEW z \in Row,
             i # j, Ends(t, B, i, y), Ends(t, B, j, z), j \in y.links, i \notin z.links
      PROVE  Mended(B, i, j)
  <2>1. ~Some(A, "remove", i) /\ ~Some(A, "remove", j)
    BY <1>0, <1>7
  <2>2. CASE i = c.id
    <3>1. x \in Row /\ x # NoRow /\ y.links = S /\ z = RowAt(t, j)
      BY <1>0, <1>1, <1>7, <2>2
    <3>2. CASE how = "linkBack" /\ j = c.arg
      <4>1. Seen(A, "linkBack", c.id, c.arg)
        BY <1>4, <3>2, Zenon
      <4>. QED  BY <1>3, <1>7, <2>1, <2>2, <3>1, <3>2, <4>1, Zenon
    <3>3. CASE ~(how = "linkBack" /\ j = c.arg)
      <4>1. j \in x.links /\ j # c.arg
        BY <1>7, <3>1, <3>3
      <4>2. Mended(A, i, j)
        BY <1>1, <1>3, <1>7, <2>1, <2>2, <3>1, <4>1, Zenon
      <4>. QED  BY <1>6, <1>7, <2>2, <4>1, <4>2
    <3>. QED  BY <3>2, <3>3
  <2>3. CASE j = c.id
    <3>1. x \in Row /\ x # NoRow /\ z.links = S /\ y = RowAt(t, i)
      BY <1>0, <1>1, <1>7, <2>3
    <3>2. CASE how = "linkDrop" /\ i = c.arg
      <4>1. Seen(A, "linkDrop", c.id, c.arg)
        BY <1>4, <3>2
      <4>. QED  BY <1>3, <1>7, <2>1, <2>3, <3>1, <3>2, <4>1, Zenon
    <3>3. CASE ~(how = "linkDrop" /\ i = c.arg)
      <4>1. i \notin x.links /\ (how = "linkBack" => i # c.arg)
        BY <1>7, <3>1, <3>3
      <4>2. Mended(A, i, j)
        BY <1>1, <1>3, <1>7, <2>1, <2>3, <3>1, <4>1, Zenon
      <4>. QED  BY <1>6, <1>7, <2>3, <4>1, <4>2, Zenon
    <3>. QED  BY <3>2, <3>3
  <2>4. CASE i # c.id /\ j # c.id
    <3>1. y = RowAt(t, i) /\ z = RowAt(t, j)
      BY <1>0, <1>7, <2>4
    <3>2. Mended(A, i, j)
      BY <1>3, <1>7, <2>1, <3>1, Zenon
    <3>. QED  BY <1>6, <2>4, <3>2
  <2>. QED  BY <2>2, <2>3, <2>4
<1>8. ASSUME NEW i \in Txns, NEW y \in Row, Ends(t, B, i, y)
      PROVE  Given(i) /\ \A j \in y.links : Given(j)
  <2>1. ~Some(A, "remove", i)
    BY <1>0, <1>8, Zenon
  <2>2. CASE i # c.id
    BY <1>0, <1>3, <1>8, <2>1, <2>2, Zenon
  <2>3. CASE i = c.id
    <3>1. x \in Row /\ x # NoRow /\ y.links = S /\ Given(i) /\ \A j \in x.links : Given(j)
      BY <1>0, <1>1, <1>3, <1>8, <2>1, <2>3, Zenon
    <3>2. how = "linkBack" => Given(c.arg)
      BY <1>3, <1>4, Zenon
    <3>. QED  BY <3>1, <3>2
  <2>. QED  BY <2>2, <2>3
<1>9. ASSUME NEW j \in Txns, NEW o \in Txns, Seen(B, "linkBack", j, o)
      PROVE  Given(o) /\ \A y \in Row : Ends(t, B, o, y) => j \in y.links
  <2>1. Seen(A, "linkBack", j, o) /\ how = "linkBack"
    BY <1>0, <1>4, <1>5, <1>9, Zenon
  <2>2. ASSUME NEW y \in Row, Ends(t, B, o, y)
        PROVE  j \in y.links
    <3>1. CASE o # c.id
      BY <1>0, <1>3, <2>1, <2>2, <3>1, Zenon
    <3>2. CASE o = c.id
      BY <1>0, <1>1, <1>3, <2>1, <2>2, <3>2
    <3>. QED  BY <3>1, <3>2
  <2>. QED  BY <1>3, <2>1, <2>2, Zenon
<1>10. ASSUME NEW j \in Txns, NEW o \in Txns, Seen(B, "linkDrop", j, o), NEW y \in Row, Ends(t, B, o, y)
       PROVE  j \notin y.links
  <2>1. Seen(A, "linkDrop", j, o) /\ how = "linkDrop"
    BY <1>0, <1>4, <1>5, <1>10
  <2>2. CASE o # c.id
    BY <1>0, <1>3, <1>10, <2>1, <2>2, Zenon
  <2>3. CASE o = c.id
    <3>1. x \in Row /\ x # NoRow /\ y.links = S /\ ~Some(A, "remove", o)
      BY <1>0, <1>1, <1>10, <2>3, Zenon
    <3>2. j \notin x.links
      BY <1>1, <1>3, <2>1, <2>3, <3>1, Zenon
    <3>3. S = x.links \ {c.arg}
      BY <2>1, <3>1
    <3>. QED  BY <3>1, <3>2, <3>3
  <2>. QED  BY <2>2, <2>3
<1>. QED  BY <1>7, <1>8, <1>9, <1>10 DEF Sound

LEMMA MendLinks ==
    ASSUME NEW t, NEW c, NEW L, NEW x, Reading(t, c, L, x), c.how \in {"linkBack", "linkDrop"}
    PROVE  LinksFollow(t, AfterFind(c, x), L)
<1>. SUFFICES ASSUME NEW A, A = {c} \cup L, NEW how, how = c.how,
                     NEW y, y = IF how = "linkBack" THEN WithLink(x, c.arg) ELSE WithoutLink(x, c.arg),
                     NEW p, p = Put(c.id, y),
                     NEW S, S = IF how = "linkBack" THEN x.links \cup {c.arg} ELSE x.links \ {c.arg}
              PROVE  LinksFollow(t, AfterFind(c, x), L)
  BY Zenon
<1>1. /\ c.q = "find" /\ c.id \in Txns /\ c.arg \in Txns /\ x = RowAt(t, c.id) /\ x \in Row \cup {NoRow}
      /\ \A d \in L : After(d, how = "linkBack")
  <2>1. c.q = "find" /\ c \in InnerCalls /\ x = RowAt(t, c.id) /\ x \in Row \cup {NoRow}
    BY DEF Reading
  <2>. QED  BY <2>1, FindFields, AfterReading
<1>2. /\ p.q = "put" /\ p.id = c.id /\ p.row = y
      /\ x # NoRow => y.links = S
  <2>1. p.q = "put" /\ p.id = c.id /\ p.row = y
    BY DEF Put
  <2>2. x # NoRow => y.links = S
    BY <1>1 DEF WithLink, WithoutLink, Row
  <2>. QED  BY <2>1, <2>2
<1>3. \/ AfterFind(c, x) = <<>> /\ (x = NoRow \/ S = x.links)
      \/ AfterFind(c, x) = <<p>> /\ x # NoRow
  BY <1>1, Zenon DEF AfterFind
<1>4. CASE AfterFind(c, x) = <<>> /\ (x = NoRow \/ S = x.links)
  <2>1. /\ Placing(<<>>, L) /\ Later(<<>>, 0) \cup L = L /\ AllAsked(t, Later(<<>>, 0))
    BY PlacingShort, LaterShort DEF AllAsked
  <2>2. Mending(t, L, A, c, x, S)
    <3>. SUFFICES ASSUME NEW i \in Txns, NEW z \in Row, Ends(t, L, i, z)
                  PROVE  /\ ~Some(A, "remove", i)
                         /\ i = c.id => x # NoRow /\ z.links = S
                         /\ i # c.id => z = RowAt(t, i)
      BY Zenon DEF Mending
    <3>1. \A d \in L : d.q \notin {"insert", "put"}
      BY <1>1 DEF After
    <3>2. ~Some(L, "remove", i) /\ z = RowAt(t, i)
      BY <3>1, EndsRead
    <3>3. ~Some(A, "remove", i) /\ z # NoRow
      BY <1>1, <3>2, Sentinels DEF Some, Is
    <3>. QED  BY <1>1, <1>4, <3>2, <3>3
  <2>3. SameVisits(L, L)
    BY DEF SameVisits
  <2>4. Sound(t, L)
    BY <1>1, <2>2, <2>3, SoundMended, Zenon
  <2>. QED  BY <1>4, <2>1, <2>4, Zenon DEF LinksFollow
<1>5. CASE AfterFind(c, x) = <<p>> /\ x # NoRow
  <2>1. Placed(p, L)
    BY <1>1, <1>2 DEF Placed, Precedes, After, Reads, Last, Is
  <2>2. Placing(<<p>>, L) /\ Later(<<p>>, 0) = {p} /\ AllAsked(t, {p})
    <3>1. Placing(<<p>>, L)
      BY <2>1, PlacingShort, Zenon
    <3>. QED  BY <1>2, <3>1, LaterShort DEF AllAsked, Asked
  <2>3. Sound(t, {p} \cup L)
    <3>. SUFFICES ASSUME NEW B, B = {p} \cup L
                  PROVE  Sound(t, B)
      OBVIOUS
    <3>1. Mending(t, B, A, c, x, S)
      <4>1. (\A d \in {} : d.q \in {"find", "each"}) /\ B = {p} \cup {} \cup L
        OBVIOUS
      <4>2. Rewritten(t, B, A, c.id, p.row)
        BY <1>2, <1>5, <4>1, EndsWritten, Zenon
      <4>. QED  BY <1>2, <1>5, <4>2 DEF Rewritten, Mending
    <3>2. SameVisits(B, L)
      <4>1. \A h, j, o : ~Visits(p, h, j, o)
        BY <1>2 DEF Visits
      <4>. QED  BY <4>1 DEF Seen, SameVisits
    <3>. QED  BY <1>1, <3>1, <3>2, SoundMended, Zenon
  <2>. QED  BY <1>5, <2>2, <2>3 DEF LinksFollow
<1>. QED  BY <1>3, <1>4, <1>5

LEMMA AfterFindLinks ==
    ASSUME LinksKept, NEW t, NEW c, NEW L, NEW x, Reading(t, c, L, x), ~Refused(c, x)
    PROVE  LinksFollow(t, AfterFind(c, x), L)
<1>0. x \in Row \cup {NoRow} /\ c.how \in {"edit", "linkTo", "delete", "unlinkAll", "linkFrom",
                                           "unlinkFrom", "linkBack", "linkDrop"}
  <2>1. c \in InnerCalls /\ c.q = "find"
    BY DEF Reading
  <2>. QED  BY <2>1, FindFields DEF Reading
<1>1. CASE c.how = "edit"
  <2>1. AfterFind(c, x) = AfterEdit(c, x) /\ x # NoRow
    BY <1>1 DEF AfterFind, Refused
  <2>2. LinksFollow(t, AfterEdit(c, x), L)
    BY <1>1, <2>1, EditLinks
  <2>. QED  BY <2>1, <2>2, Zenon
<1>2. CASE c.how = "delete"
  <2>1. AfterFind(c, x) = AfterDelete(c, x)
    BY <1>2 DEF AfterFind
  <2>2. LinksFollow(t, AfterDelete(c, x), L)
    BY <1>2, DeleteLinks
  <2>. QED  BY <2>1, <2>2, Zenon
<1>3. CASE c.how = "unlinkAll"
  <2>1. AfterFind(c, x) = AfterUnlinkAll(c, x)
    BY <1>3 DEF AfterFind
  <2>2. LinksFollow(t, AfterUnlinkAll(c, x), L)
    BY <1>3, UnlinkAllLinks
  <2>. QED  BY <2>1, <2>2, Zenon
<1>4. CASE c.how = "linkFrom"
  <2>. SUFFICES ASSUME NEW f, f = Find(c.arg, "linkTo", [id |-> c.id, row |-> x])
                PROVE  LinksFollow(t, <<f>>, L)
    BY <1>4 DEF AfterFind
  <2>. QED  BY <1>4, LinkFromLinks
<1>5. CASE c.how = "linkTo"
  <2>. SUFFICES ASSUME NEW p, p = Put(c.arg.id, WithLink(c.arg.row, c.id)), NEW s, s = Put(c.id, WithLink(x, c.arg.id))
                PROVE  LinksFollow(t, AfterLinkTo(c, x), L)
    BY <1>5 DEF AfterFind
  <2>1. LinksFollow(t, <<p, s>>, L) /\ (c.arg.id \in x.links => LinksFollow(t, <<p>>, L))
    BY <1>5, LinkToLinks DEF Refused
  <2>2. CASE c.arg.id \in x.links
    <3>1. AfterLinkTo(c, x) = <<p>> \o <<>>
      BY <2>2 DEF AfterLinkTo
    <3>2. AfterLinkTo(c, x) = <<p>>
      BY <3>1
    <3>. QED  BY <2>1, <2>2, <3>2, Zenon
  <2>3. CASE c.arg.id \notin x.links
    <3>1. AfterLinkTo(c, x) = <<p>> \o <<s>>
      BY <2>3 DEF AfterLinkTo
    <3>2. AfterLinkTo(c, x) = <<p, s>>
      BY <3>1, TwoGlued, Zenon
    <3>. QED  BY <2>1, <3>2, Zenon
  <2>. QED  BY <2>2, <2>3
<1>6. CASE c.how = "unlinkFrom"
  <2>. SUFFICES ASSUME NEW p, p = Put(c.id, WithoutLink(x, c.arg)), NEW f, f = Find(c.arg, "linkDrop", c.id)
                PROVE  LinksFollow(t, <<p, f>>, L)
    BY <1>6 DEF AfterFind
  <2>. QED  BY <1>6, UnlinkFromLinks DEF Refused
<1>7. CASE c.how \in {"linkBack", "linkDrop"}
  BY <1>7, MendLinks
<1>. QED  BY <1>0, <1>1, <1>2, <1>3, <1>4, <1>5, <1>6, <1>7

\* Without a transaction, what link and unlink do next is to read once more or to write.
NextOutside(c, x, more) ==
    \/ \E f : more = <<f>> /\ Last(f)
    \/ \E p : more = <<p>> /\ p.q = "put" /\ Light(Pool, p)
    \/ \E p, s : more = <<p, s>> /\ p.q = "put" /\ Light(Pool, p) /\ Light(Pool, s)
    \/ more = <<>> /\ ~Last(c)

LEMMA LinksOutside ==
    ASSUME NEW c \in InnerCalls, c.q = "find", NEW x \in Row \cup {NoRow}, x = RowAt(Pool, c.id),
           ~Refused(c, x), Asked(Pool, c), Last(c) \/ c.how = "linkDrop"
    PROVE  /\ NextOutside(c, x, AfterFind(c, x))
           /\ ~Last(c) => ~\E f : AfterFind(c, x) = <<f>> /\ Last(f)
<1>1. CASE c.how = "linkFrom"
  <2>. SUFFICES ASSUME NEW f, f = Find(c.arg, "linkTo", [id |-> c.id, row |-> x])
                PROVE  NextOutside(c, x, <<f>>)
    BY <1>1 DEF AfterFind, Last
  <2>1. Last(f)
    BY DEF Find, Last
  <2>. QED  BY <2>1 DEF NextOutside
<1>2. CASE c.how = "linkTo"
  <2>. SUFFICES ASSUME NEW p, p = Put(c.arg.id, WithLink(c.arg.row, c.id)), NEW s, s = Put(c.id, WithLink(x, c.arg.id))
                PROVE  NextOutside(c, x, AfterLinkTo(c, x))
    BY <1>2 DEF AfterFind, Last
  <2>1. x \in Row /\ c.arg.row \in Row /\ RowAt(Pool, c.arg.id) = c.arg.row
    BY <1>2, FindFields DEF Refused, Asked
  <2>2. /\ p.q = "put" /\ p.id = c.arg.id /\ p.row = WithLink(c.arg.row, c.id)
        /\ s.q = "put" /\ s.id = c.id /\ s.row = WithLink(x, c.arg.id)
    BY DEF Put
  <2>3. Light(Pool, p) /\ Light(Pool, s)
    BY <2>1, <2>2, LinksAreNoMoney, Sentinels, Zenon DEF Light
  <2>4. AfterLinkTo(c, x) = <<p>> \/ AfterLinkTo(c, x) = <<p, s>>
    <3>1. CASE c.arg.id \in x.links
      <4>1. AfterLinkTo(c, x) = <<p>> \o <<>>
        BY <3>1 DEF AfterLinkTo
      <4>. QED  BY <4>1
    <3>2. CASE c.arg.id \notin x.links
      <4>1. AfterLinkTo(c, x) = <<p>> \o <<s>>
        BY <3>2 DEF AfterLinkTo
      <4>. QED  BY <4>1, TwoGlued, Zenon
    <3>. QED  BY <3>1, <3>2
  <2>. QED  BY <2>2, <2>3, <2>4 DEF NextOutside
<1>3. CASE c.how = "unlinkFrom"
  <2>. SUFFICES ASSUME NEW p, p = Put(c.id, WithoutLink(x, c.arg)), NEW f, f = Find(c.arg, "linkDrop", c.id)
                PROVE  NextOutside(c, x, <<p, f>>)
    BY <1>3 DEF AfterFind, Last
  <2>1. x \in Row
    BY <1>3 DEF Refused
  <2>2. /\ p.q = "put" /\ p.id = c.id /\ p.row = WithoutLink(x, c.arg)
        /\ f.q = "find" /\ f.how = "linkDrop"
    BY DEF Put, Find
  <2>3. Light(Pool, p) /\ Light(Pool, f)
    BY <2>1, <2>2, LinksAreNoMoney, Sentinels, Zenon DEF Light
  <2>. QED  BY <2>2, <2>3 DEF NextOutside
<1>4. CASE c.how = "linkDrop"
  <2>. SUFFICES ASSUME NEW s, s = Put(c.id, WithoutLink(x, c.arg))
                PROVE  NextOutside(c, x, AfterFind(c, x)) /\ ~\E f : AfterFind(c, x) = <<f>> /\ Last(f)
    OBVIOUS
  <2>1. AfterFind(c, x) = IF x = NoRow THEN <<>> ELSE <<s>>
    BY <1>4 DEF AfterFind
  <2>2. s.q = "put" /\ s.id = c.id /\ s.row = WithoutLink(x, c.arg) /\ ~Last(s) /\ ~Last(c)
    BY <1>4 DEF Put, Last
  <2>3. x # NoRow => Light(Pool, s)
    BY <2>2, LinksAreNoMoney, Zenon DEF Light
  <2>4. \A f : <<f>> # <<>> /\ (<<f>> = <<s>> => f = s)
    OBVIOUS
  <2>5. CASE x = NoRow
    <3>1. AfterFind(c, x) = <<>>
      BY <2>1, <2>5
    <3>. QED  BY <2>2, <2>4, <3>1 DEF NextOutside
  <2>6. CASE x # NoRow
    <3>1. AfterFind(c, x) = <<s>>
      BY <2>1, <2>6
    <3>. QED  BY <2>2, <2>3, <2>4, <2>6, <3>1 DEF NextOutside
  <2>. QED  BY <2>5, <2>6
<1>. QED  BY <1>1, <1>2, <1>3, <1>4 DEF Last

LEMMA FindOutside ==
    ASSUME OneRequest, IInv, LInv, NEW r \in Requests, Statement(r, "find"), UNCHANGED dbVars, Otherwise,
           NEW c, c = Call(r), c \in InnerCalls, c.q = "find", req[r].own = Pool,
           NEW x \in Row \cup {NoRow}, x = RowAt(Pool, c.id), ~Refused(c, x),
           NEW more \in Seq(InnerCalls), more = AfterFind(c, x), Continue(r, more),
           NEW L, L = Later(req[r].todo, 1), LinksFollow(Pool, more, L)
    PROVE  Outside(r)'
<1>. SUFFICES ASSUME NEW old, old = req[r].todo, NEW new, new = req'[r].todo
              PROVE  Outside(r)'
  OBVIOUS
<1>1. req[r].todo # <<>> /\ Call(r).q # "begin" /\ UNCHANGED <<row, tx, mate>> /\ ptr' = ptr
  BY DEF Statement, At, Otherwise, SameIds, dbVars
<1>2. LinkedNow(r, Pool, c, L)
  BY <1>1, HeadIsLinked
<1>3. \A d \in {c} \cup L : d.q # "begin"
  BY <1>2 DEF LinkedNow, Placed, Precedes, Aside
<1>4. /\ ~MayFail
      /\ \/ Last(c) /\ Tidy(Pool)
         \/ c.how = "linkDrop" /\ ~Last(c) /\ req[r].on = ptr[Home[r]]["trx"]
  BY <1>2, <1>3 DEF LinkedNow, Aside, Light, Last
<1>5. L = {}
  <2>1. CASE Last(c)
    BY <1>2, <2>1 DEF LinkedNow, Placed, Precedes
  <2>2. CASE ~Last(c)
    <3>1. old[1] = c /\ Later(old, 0) = {c} \cup L
      BY <1>1, HeadIsCall, LaterTail DEF IInv, Call
    <3>2. Outside(r)
      BY <1>2 DEF LinkedNow, Linked
    <3>3. ~Resting(old)
      BY <1>1, <1>3, <2>2, <3>1 DEF Resting, Aside
    <3>4. Writing(old)
      BY <3>2, <3>3 DEF Outside
    <3>. QED  BY <3>1, <3>4 DEF Writing
  <2>. QED  BY <2>1, <2>2
<1>6. Replaces(r, more) /\ Placing(more, L)
  BY <1>1, ContinueReplaces DEF LinksFollow
<1>7. Succeeds(new, old, more)
  BY <1>1, <1>6, NewList
<1>8. /\ Later(new, 0) = Later(more, 0)
      /\ more # <<>> => new # <<>> /\ new[1] = more[1] /\ Later(new, 1) = Later(more, 1)
      /\ new \in Seq(Calls)
  BY <1>5, <1>7, Zenon DEF Succeeds
<1>9. Tidy(Pool) => Tidy(Pool)'
  BY <1>1, SameEnds DEF Tidy
<1>10. NextOutside(c, x, more) /\ (~Last(c) => ~\E f : more = <<f>> /\ Last(f))
  <2>1. Asked(Pool, c)
    BY <1>2 DEF LinkedNow
  <2>. QED  BY <1>4, <2>1, LinksOutside
<1>11. \A d : Light(Pool, d) => Light(Pool, d)'
  BY <1>1, SameEnds, Zenon
<1>12. ASSUME NEW f, more = <<f>>, Last(f)
       PROVE  Outside(r)'
  <2>1. new # <<>> /\ new[1] = f
    BY <1>8, <1>12
  <2>2. Tidy(Pool)'
    BY <1>4, <1>9, <1>10, <1>12
  <2>3. Resting(req[r].todo)'
    BY <1>4, <1>12, <2>1 DEF Resting, Last
  <2>. QED  BY <2>2, <2>3 DEF Outside
<1>13. ASSUME NEW p, new # <<>>, new[1] = p, p.q = "put", Light(Pool, p)
       PROVE  req'[r].on = ptr'[Home[r]]["trx"] /\ (Tidy(Pool)' \/ req'[r].on # Dead)
  <2>1. p \in Calls
    BY <1>8, <1>13
  <2>2. p.via = "trx"
    BY <1>13, <2>1 DEF Calls, InnerCalls
  <2>3. new = more \o Tail(old) /\ req'[r].on = IF new = <<>> THEN Pool ELSE Bound(Head(new), Pool, ptr[Home[r]])
    BY Zenon DEF Continue, GoOn, IInv, TypeOK
  <2>4. Head(new) = p
    BY <1>8, <1>13
  <2>5. req'[r].on = ptr[Home[r]]["trx"]
    BY <1>13, <2>2, <2>3, <2>4, Zenon DEF Bound, Repos
  <2>6. req[r].on # Dead
    BY TargetsDiffer DEF Statement, Usable, Pool, Dead
  <2>. QED  BY <1>1, <1>4, <1>9, <2>5, <2>6
<1>14. ASSUME NEW p, more = <<p>>, p.q = "put", Light(Pool, p)
       PROVE  Outside(r)'
  <2>1. new # <<>> /\ new[1] = p /\ Later(new, 1) = {}
    <3>1. more # <<>> /\ more[1] = p /\ Later(more, 1) = {}
      BY <1>14, LaterShort
    <3>. QED  BY <1>8, <3>1
  <2>2. Light(Pool, p)'
    BY <1>11, <1>14
  <2>3. Writing(req[r].todo)'
    <3>1. ~MayFail /\ new # <<>> /\ Light(Pool, new[1])' /\ Later(new, 1) = {}
      BY <1>4, <2>1, <2>2 DEF Light
    <3>. QED  BY <3>1, Zenon DEF Writing, Later, Light
  <2>. QED  BY <1>13, <1>14, <2>1, <2>3 DEF Outside
<1>15. ASSUME NEW p, NEW s, more = <<p, s>>, p.q = "put", Light(Pool, p), Light(Pool, s)
       PROVE  Outside(r)'
  <2>1. new # <<>> /\ new[1] = p /\ Later(new, 1) = {s} /\ Later(new, 2) = {}
    <3>1. more # <<>> /\ more[1] = p /\ Later(more, 1) = {s} /\ Later(more, 2) = {}
      BY <1>15, LaterShort
    <3>2. Len(more) = 2 /\ Tail(old) = <<>> /\ new = more
      <4>1. Later(old, 1) = {} /\ old \in Seq(Calls) /\ old # <<>> /\ more \in Seq(InnerCalls)
        BY <1>1, <1>5, HeadIsCall DEF IInv
      <4>2. ASSUME Tail(old) # <<>>
            PROVE  FALSE
        <5>1. Len(old) \in (1 + 1)..Len(old)
          BY <4>1, <4>2
        <5>2. old[Len(old)] \in Later(old, 1)
          BY <5>1 DEF Later
        <5>. QED  BY <4>1, <5>2
      <4>5. Tail(old) = <<>>
        BY <4>2
      <4>6. new = more \o Tail(old)
        BY Zenon DEF Continue, GoOn, IInv, TypeOK
      <4>7. more \o <<>> = more /\ Len(more) = 2
        <5>1. more \o <<>> = more
          BY <4>1
        <5>. QED  BY <1>15, <5>1, LaterShort
      <4>. QED  BY <4>5, <4>6, <4>7, Zenon
    <3>. QED  BY <1>8, <3>1, <3>2
  <2>2. Light(Pool, p)' /\ Light(Pool, s)' /\ (Tidy(Pool) => Tidy(Pool)')
    BY <1>9, <1>11, <1>15
  <2>3. Last(c)
    <3>1. CASE c.how = "linkDrop"
      <4>1. \A d : <<p, s>> # <<d>> /\ <<p, s>> # <<>>
        OBVIOUS
      <4>2. more = <<>> \/ \E d : more = <<d>>
        BY <3>1 DEF AfterFind
      <4>. QED  BY <1>15, <4>1, <4>2
    <3>. QED  BY <1>4, <3>1
  <2>4. Writing(req[r].todo)'
    <3>1. /\ ~MayFail /\ new # <<>> /\ Light(Pool, new[1])' /\ Tidy(Pool)' /\ new[1].q = "put"
          /\ Later(new, 2) = {} /\ \A d \in Later(new, 1) : Light(Pool, d)'
      BY <1>4, <1>15, <2>1, <2>2, <2>3 DEF Light
    <3>. QED  BY <3>1, Zenon DEF Writing, Later, Light
  <2>. QED  BY <1>13, <1>15, <2>1, <2>4 DEF Outside
<1>16. ASSUME more = <<>>
       PROVE  Outside(r)'
  <2>1. Later(more, 0) = {} /\ Later(more, 0) \cup L = {}
    BY <1>5, <1>16, LaterShort
  <2>2. Tidy(Pool)'
    <3>1. Sound(Pool, {})
      BY <2>1, Zenon DEF LinksFollow
    <3>. QED  BY <1>9, <3>1 DEF Tidy
  <2>3. Resting(req[r].todo)'
    <3>1. Later(new, 0) = {}
      BY <1>8, <2>1
    <3>. QED  BY <3>1, Zenon DEF Resting, Later
  <2>. QED  BY <2>2, <2>3 DEF Outside
<1>. QED  BY <1>10, <1>12, <1>14, <1>15, <1>16 DEF NextOutside

LEMMA FindRowLinked ==
    ASSUME OneRequest, LinksKept, IInv, AInv, BInv, LInv, NEW r \in Requests, FindRow(r)
    PROVE  LInv'
<1>. SUFFICES ASSUME NEW c, c = Call(r), NEW t, t = req[r].own, NEW L, L = Later(req[r].todo, 1),
                     NEW x, x = RowAt(req[r].on, c.id), NEW more, more = AfterFind(c, x)
              PROVE  LInv'
  OBVIOUS
<1>1. /\ Statement(r, "find") /\ UNCHANGED dbVars /\ SameIds /\ Otherwise
      /\ IF Refused(c, x) THEN Throw(r) ELSE Continue(r, more)
  BY DEF FindRow, Otherwise
<1>2. c.q = "find" /\ c \in InnerCalls /\ c.via # "-" /\ c.id \in Txns
  <2>1. c.q = "find" /\ c \in InnerCalls
    BY <1>1, AtStatement
  <2>. QED  BY <2>1, FindFields DEF InnerCalls
<1>3. /\ req[r].todo # <<>> /\ Call(r).q # "begin"
      /\ x = RowAt(t, c.id) /\ x \in Row \cup {NoRow}
  BY <1>1, <1>2, AtHead
<1>4. CASE Refused(c, x)
  <2>1. ~Light(Pool, c)
    BY <1>2, <1>4 DEF Refused, Light
  <2>. QED  BY <1>1, <1>3, <1>4, <2>1, RefusedLinked DEF dbVars, SameIds
<1>5. CASE ~Refused(c, x)
  <2>1. LinkedNow(r, t, c, L)
    BY <1>3, HeadIsLinked
  <2>2. Reading(t, c, L, x)
    BY <1>2, <1>3, <2>1 DEF LinkedNow, Reading
  <2>3. more \in Seq(InnerCalls) /\ LinksFollow(t, more, L)
    BY <1>2, <1>3, <1>5, <2>2, AfterFindType, AfterFindLinks
  <2>4. t = Pool => Outside(r)'
    BY <1>1, <1>2, <1>3, <1>5, <2>3, FindOutside, Zenon
  <2>. QED  BY <1>1, <1>3, <1>5, <2>3, <2>4, ReadLinked, Zenon DEF LinksFollow
<1>. QED  BY <1>4, <1>5

-----------------------------------------------------------------------------
(* The links when transactions begin and end, and when only clients move.  *)

LEMMA BeginLinked ==
    ASSUME OneRequest, IInv, LInv, NEW r \in Requests, BeginTransaction(r)
    PROVE  LInv'
<1>. PICK c \in Clients : CheckOut(r, c) /\ \E p : GoOn(r, c, Tail(req[r].todo), p)
  BY DEF BeginTransaction
<1>. SUFFICES ASSUME NEW old, old = req[r].todo, NEW rest, rest = Tail(old),
                     NEW b, b = Call(r), NEW L, L = Later(old, 1)
              PROVE  LInv'
  BY Zenon
<1>1. req[r].todo # <<>> /\ b.q = "begin" /\ UNCHANGED mate
  BY DEF BeginTransaction, At, SameIds
<1>2. /\ old \in Seq(Calls) /\ rest \in Seq(Calls) /\ old # <<>>
      /\ req'[r].todo = rest /\ req'[r].own = c /\ req'[r].err = FALSE
  BY <1>1, HeadIsCall DEF GoOn, IInv, TypeOK
<1>3. /\ \A k \in 1..Len(rest) : k + 1 \in 1..Len(old) /\ rest[k] = old[k + 1]
      /\ \A k \in 0..Len(rest) : Later(rest, k) = Later(old, k + 1)
      /\ 1 \in 1..Len(old) /\ old[1] = b /\ Head(old) = b
  BY <1>1, <1>2, LaterTail DEF Call
<1>4. req[r].own = Pool
  BY <1>1, <1>3 DEF IInv, BeginsOnce
<1>5. /\ Linked(r) /\ AllPlaced(old) /\ Placed(b, L) /\ ~req[r].err
  BY <1>1, <1>3, <1>4, Zenon DEF LInv, Linked, AllPlaced, IInv, ErrInside
<1>6. Later(old, 0) = {b} \cup L
  BY <1>2, <1>3, LaterTail
<1>7. Sound(Pool, {b} \cup L)
  BY <1>4, <1>5, <1>6, Zenon DEF Linked
<1>8. Tidy(Pool)
  <2>1. ~Light(Pool, b)
    BY <1>1 DEF Light
  <2>2. ~Writing(old)
    BY <1>3, <2>1 DEF Writing
  <2>. QED  BY <1>4, <1>5, <2>2 DEF Linked, Outside
<1>9. UNCHANGED row /\ \A i \in Txns : RowAt(c, i)' = RowAt(Pool, i) /\ RowAt(Pool, i)' = RowAt(Pool, i)
  <2>1. tx[c] = Autocommit /\ tx \in [Clients -> Session]
    BY DEF CheckOut, IInv, PoolDiscipline, TypeOK, DbTypeOK
  <2>2. row' = row /\ tx'[c].row = NoRows
    BY <2>1 DEF CheckOut, Autocommit
  <2>. QED  BY <2>2, TargetsDiffer DEF RowAt, NoRows
<1>10. GivenStays
  BY <1>1, SameIdsGiven
<1>11. Sound(c, L)'
  <2>1. SameWrites({b} \cup L, L)
    BY <1>1 DEF SameWrites, Writes
  <2>2. SameVisits({b} \cup L, L)
    BY <1>1 DEF SameVisits, Seen, Visits
  <2>. QED  BY <1>7, <1>9, <1>10, <2>1, <2>2, SoundMoved
<1>12. Tidy(Pool)'
  BY <1>8, <1>9, <1>10, TidyStill
<1>13. Later(rest, 0) = L
  <2>1. 0 \in 0..Len(rest) /\ 0 + 1 = 1
    BY <1>2
  <2>. QED  BY <1>3, <2>1
<1>14. AllPlaced(rest)
  <2>1. \A k \in 1..Len(rest) : k \in 0..Len(rest)
    BY <1>2
  <2>. QED  BY <1>3, <1>5, <2>1 DEF AllPlaced
<1>15. Linked(r)'
  <2>1. AllPlaced(req[r].todo)'
    BY <1>2, <1>14 DEF AllPlaced
  <2>2. Later(req[r].todo, 0)' = L
    BY <1>2, <1>13, Zenon DEF Later
  <2>3. Sound(req[r].own, Later(req[r].todo, 0))'
    BY <1>2, <1>11, <2>2
  <2>4. \A d \in Later(req[r].todo, 0)' : Asked(req[r].own, d)'
    BY <1>5, <2>2 DEF Placed, Precedes, Last, Asked
  <2>. QED  BY <1>2, <1>12, <2>1, <2>3, <2>4, TargetsDiffer DEF Linked
<1>. QED  BY <1>15, LinkedInAll

LEMMA CommitLinked ==
    ASSUME OneRequest, IInv, AInv, LInv, NEW r \in Requests, Commit(r)
    PROVE  LInv'
<1>. SUFFICES ASSUME NEW c, c = req[r].own
              PROVE  LInv'
  OBVIOUS
<1>1. /\ c \in Clients /\ c # Pool /\ ~req[r].err /\ req[r].todo = <<>>
      /\ tx[c].state = "open" /\ UNCHANGED mate
  BY DEF Commit, Otherwise, SameIds, AInv, Steady, IInv, TypeOK, ReqType
<1>2. row' = Over(row, tx[c].row)
  BY <1>1 DEF Commit, CommitAndRelease
<1>3. \A i \in Txns : RowAt(Pool, i)' = RowAt(c, i)
  BY <1>1, <1>2, TargetsDiffer DEF RowAt, Over, IInv, TypeOK, DbTypeOK
<1>4. Tidy(c)
  <2>1. Sound(c, Later(<<>>, 0))
    BY <1>1 DEF LInv, Linked
  <2>. QED  BY <2>1, LaterShort, Zenon DEF Tidy
<1>5. GivenStays
  BY <1>1, SameIdsGiven
<1>6. SameWrites({}, {}) /\ SameVisits({}, {})
  BY DEF SameWrites, SameVisits
<1>7. Sound(Pool, {})'
  BY <1>3, <1>4, <1>5, <1>6, SoundMoved DEF Tidy
<1>8. Tidy(Pool)'
  BY <1>7 DEF Tidy, Sound, Ends, Mended, Seen, Some
<1>9. req'[r].todo = <<>> /\ req'[r].own = Pool
  BY DEF Commit, GoOn, IInv, TypeOK
<1>. QED  BY <1>8, <1>9, EmptyLinked

LEMMA RollbackLinked ==
    ASSUME OneRequest, IInv, LInv, NEW r \in Requests, Rollback(r)
    PROVE  LInv'
<1>1. UNCHANGED <<row, mate>> /\ req[r].err
  BY DEF Rollback, RollBackAndRelease, Otherwise, SameIds
<1>2. Tidy(Pool)
  BY <1>1 DEF IInv, ErrInside, LInv, Linked
<1>3. \A i \in Txns : RowAt(Pool, i)' = RowAt(Pool, i)
  BY <1>1, TargetsDiffer DEF RowAt
<1>4. GivenStays
  BY <1>1, SameIdsGiven
<1>5. Tidy(Pool)'
  BY <1>2, <1>3, <1>4, TidyStill
<1>6. req'[r].todo = <<>> /\ req'[r].own = Pool
  BY DEF Rollback, GoOn, IInv, TypeOK
<1>. QED  BY <1>5, <1>6, EmptyLinked

\* No request moves, and a write that is left outside a transaction keeps its handle.
LEMMA SameLinked ==
    ASSUME LInv, UNCHANGED <<row, tx, mate, req>>,
           \A r \in Requests : Writing(req[r].todo) /\ req[r].on = ptr[Home[r]]["trx"]
                               => ptr'[Home[r]]["trx"] = ptr[Home[r]]["trx"]
    PROVE  LInv'
<1>. SUFFICES ASSUME NEW r \in Requests
              PROVE  Linked(r)'
  BY DEF LInv
<1>. SUFFICES ASSUME NEW t, t = req[r].own, NEW calls, calls = req[r].todo, NEW A, A = Later(calls, 0)
              PROVE  Linked(r)'
  OBVIOUS
<1>1. Linked(r) /\ req'[r].own = t /\ req'[r].todo = calls /\ req'[r].err = req[r].err /\ req'[r].on = req[r].on
  BY DEF LInv
<1>2. /\ \A u, i : RowAt(u, i)' = RowAt(u, i)
      /\ \A i : Given(i)' <=> Given(i)
  BY DEF RowAt, Given
<1>3. SameWrites(A, A) /\ SameVisits(A, A) /\ GivenStays
  BY <1>2 DEF SameWrites, SameVisits, GivenStays
<1>4. ~req[r].err => Sound(t, A)'
  <2>1. ~req[r].err => Sound(t, A)
    BY <1>1 DEF Linked
  <2>. QED  BY <1>2, <1>3, <2>1, SoundMoved
<1>5. Tidy(Pool) => Tidy(Pool)'
  BY <1>2, <1>3, TidyStill
<1>6. \A c : Asked(t, c) => Asked(t, c)'
  BY <1>2 DEF Asked
<1>7. \A c : Light(Pool, c) => Light(Pool, c)'
  BY <1>2 DEF Light
<1>8. Writing(calls) => Writing(calls)'
  BY <1>5, <1>7 DEF Writing
<1>9. Outside(r) => Outside(r)'
  <2>1. Resting(calls) => Resting(req[r].todo)'
    BY <1>1 DEF Resting
  <2>2. Writing(calls)' => Writing(req[r].todo)'
    BY <1>1 DEF Writing
  <2>. QED  BY <1>1, <1>5, <1>8, <2>1, <2>2 DEF Outside
<1>10. AllPlaced(req[r].todo)' /\ Later(req[r].todo, 0)' = A
  <2>1. AllPlaced(calls)
    BY <1>1 DEF Linked
  <2>2. AllPlaced(req[r].todo)'
    BY <1>1, <2>1 DEF AllPlaced
  <2>3. Later(req[r].todo, 0)' = A
    BY <1>1 DEF Later
  <2>. QED  BY <2>2, <2>3
<1>11. ~req'[r].err => Sound(req[r].own, Later(req[r].todo, 0))'
  BY <1>1, <1>4, <1>10
<1>12. ~req'[r].err => \A c \in Later(req[r].todo, 0)' : Asked(req[r].own, c)'
  BY <1>1, <1>6, <1>10 DEF Linked
<1>. QED  BY <1>1, <1>5, <1>9, <1>10, <1>11, <1>12 DEF Linked

LEMMA ExpireLinked == LInv /\ (\E p \in Procs, a \in Accounts : Expire(p, a)) => LInv'
<1>1. ASSUME \E p \in Procs, a \in Accounts : Expire(p, a)
      PROVE  UNCHANGED <<row, tx, mate, req, ptr>>
  BY <1>1 DEF Expire, dbVars, SameIds
<1>. QED  BY <1>1, SameLinked

\* A client is closed only when no statement is about to use it.
LEMMA CloseIdleLinked ==
    ASSUME IInv, LInv, NEW c \in Clients, CloseIdle(c)
    PROVE  LInv'
<1>1. UNCHANGED <<row, tx, mate, req>>
  BY DEF CloseIdle, dbVars, SameIds
<1>2. ASSUME NEW r \in Requests, Writing(req[r].todo), req[r].on = ptr[Home[r]]["trx"]
      PROVE  ptr'[Home[r]]["trx"] = ptr[Home[r]]["trx"]
  <2>1. Call(r).q \in {"find", "put"} /\ req[r].todo # <<>>
    BY <1>2, HeadIsCall DEF Writing, Light, Call
  <2>2. Call(r).via # "-"
    BY <2>1, HeadIsCall, StatementFields DEF IInv, Calls, InnerCalls
  <2>3. IsStatement(r)
    BY <2>1, <2>2 DEF IsStatement
  <2>4. req[r].on # c
    BY <2>3 DEF CloseIdle
  <2>5. ptr \in [Procs -> [Repos -> Targets]] /\ Home[r] \in Procs /\ "trx" \in Repos
    BY HomeType DEF IInv, TypeOK, Targets, Repos
  <2>. QED  BY <1>2, <2>4, <2>5 DEF CloseIdle
<1>. QED  BY <1>1, <1>2, SameLinked

-----------------------------------------------------------------------------
(* The links when requests are accepted.                                   *)

InTurn(calls) == \A k, l \in 1..Len(calls) : k < l => Precedes(calls[k], calls[l])
Proper(c) == ~Last(c) /\ c.q # "begin"
Leads(c)  == \A d : Proper(d) => Precedes(c, d)

LEMMA TurnPlaces ==
    ASSUME NEW calls \in Seq(Calls), InTurn(calls)
    PROVE  AllPlaced(calls)
<1>1. \A k \in 1..Len(calls) : \A d \in Later(calls, k) : Precedes(calls[k], d)
  BY DEF Later, InTurn
<1>. QED  BY <1>1 DEF AllPlaced, Placed

LEMMA TurnShapes ==
    /\ \A c : InTurn(<<c>>)
    /\ \A b, c : Precedes(b, c) => InTurn(<<b, c>>)
    /\ \A b, c, d : Precedes(b, c) /\ Precedes(b, d) /\ Precedes(c, d) => InTurn(<<b, c, d>>)
    /\ \A b, c, d, e : /\ Leads(b) /\ Leads(c) /\ Leads(d)
                       /\ Proper(c) /\ Proper(d) /\ Proper(e)
                       => InTurn(<<b, c, d, e>>)
    /\ \A n, b, x, p, y, s :
          /\ Precedes(n, b) /\ Leads(n) /\ Leads(b) /\ Leads(x) /\ Leads(p) /\ Leads(y)
          /\ Proper(x) /\ Proper(p) /\ Proper(y) /\ Proper(s)
          => InTurn(<<n, b, x, p, y, s>>)
    /\ \A f, g, s, b, x, y, p, u, v :
          /\ Precedes(f, b) /\ Precedes(g, b) /\ Precedes(s, b) /\ Precedes(p, u) /\ Precedes(p, v)
          /\ Leads(f) /\ Leads(g) /\ Leads(s) /\ Leads(b) /\ Leads(x) /\ Leads(y) /\ Leads(u)
          /\ Proper(g) /\ Proper(s) /\ Proper(x) /\ Proper(y) /\ Proper(p) /\ Proper(u) /\ Proper(v)
          => InTurn(<<f, g, s, b, x, y, p, u, v>>)
BY DEF InTurn, Leads

LEMMA LaterSix ==
    ASSUME NEW n, NEW b, NEW x, NEW p, NEW y, NEW s
    PROVE  Later(<<n, b, x, p, y, s>>, 0) = {n, b, x, p, y, s}
<1>. DEFINE z == <<n, b, x, p, y, s>>
<1>1. /\ Len(z) = 6 /\ z[1] = n /\ z[2] = b /\ z[3] = x /\ z[4] = p /\ z[5] = y /\ z[6] = s
      /\ (0 + 1)..6 = {1, 2, 3, 4, 5, 6}
  OBVIOUS
<1>. HIDE DEF z
<1>2. Later(z, 0) = {n, b, x, p, y, s}
  BY <1>1 DEF Later
<1>. QED  BY <1>2 DEF z

LEMMA LaterNine ==
    ASSUME NEW f, NEW g, NEW s, NEW b, NEW x, NEW y, NEW p, NEW u, NEW v
    PROVE  Later(<<f, g, s, b, x, y, p, u, v>>, 0) = {f, g, s, b, x, y, p, u, v}
<1>. DEFINE z == <<f, g, s, b, x, y, p, u, v>>
<1>1. /\ Len(z) = 9 /\ z[1] = f /\ z[2] = g /\ z[3] = s /\ z[4] = b /\ z[5] = x /\ z[6] = y
      /\ z[7] = p /\ z[8] = u /\ z[9] = v
      /\ (0 + 1)..9 = {1, 2, 3, 4, 5, 6, 7, 8, 9}
  OBVIOUS
<1>. HIDE DEF z
<1>2. Later(z, 0) = {f, g, s, b, x, y, p, u, v}
  BY <1>1 DEF Later
<1>. QED  BY <1>2 DEF z

\* Calls that write no transaction and mend no link.
Unlinked(A) == \A c \in A : ~Writes(c) /\ c.q # "each" /\ (c.q = "find" => c.how \notin {"linkBack", "linkDrop"})

\* The calls A insert the rows new[k], whose ids no row can link to yet, with the links between
\* them, and make the links that lead back to them.
Inserts(A, S, new) ==
    /\ \A k \in Txns : \A y \in Row : Ends(Pool, A, k, y)' => IF k \in S THEN y = new[k] ELSE y = RowAt(Pool, k)
    /\ \A k \in S : new[k] \in Row /\ mate[k] = Unborn /\ Given(k)' /\ \A j \in new[k].links : Given(j)'
    /\ \A k \in S : \A j \in new[k].links :
          k # j => Seen(A, "linkBack", j, k) \/ (j \in S /\ k \in new[j].links)
    /\ \A j, o : Seen(A, "linkBack", j, o) => o \in S /\ j \in new[o].links
    /\ \A j, o : ~Seen(A, "linkDrop", j, o)

LEMMA SoundAdded ==
    ASSUME Tidy(Pool), GivenStays, NEW A, NEW S \in SUBSET Txns, NEW new, Inserts(A, S, new)
    PROVE  Sound(Pool, A)'
<1>1. /\ \A k \in S : \A y \in Row : Ends(Pool, A, k, y)' => y = new[k]
      /\ \A k \in Txns \ S : \A y \in Row : Ends(Pool, A, k, y)' => Ends(Pool, {}, k, y)
  BY DEF Inserts, Ends, Some
<1>2. /\ \A i, j \in Txns : \A x, y \in Row :
            i # j /\ Ends(Pool, {}, i, x) /\ Ends(Pool, {}, j, y) /\ j \in x.links => i \in y.links
      /\ \A i \in Txns : \A x \in Row : Ends(Pool, {}, i, x) => Given(i) /\ \A j \in x.links : Given(j)
  BY DEF Tidy, Sound, Mended, Seen
<1>3. ASSUME NEW i \in Txns, NEW j \in Txns, NEW x \in Row, NEW y \in Row,
             i # j, Ends(Pool, A, i, x)', Ends(Pool, A, j, y)', j \in x.links, i \notin y.links
      PROVE  Mended(A, i, j)
  <2>1. CASE i \in S
    <3>1. x = new[i] /\ (j \in S => y = new[j])
      BY <1>1, <1>3, <2>1
    <3>2. Seen(A, "linkBack", j, i)
      BY <1>3, <2>1, <3>1 DEF Inserts
    <3>. QED  BY <3>2 DEF Mended
  <2>2. CASE i \notin S
    <3>1. Ends(Pool, {}, i, x) /\ Given(j)
      BY <1>1, <1>2, <1>3, <2>2
    <3>2. j \notin S
      BY <3>1 DEF Inserts, Given
    <3>. QED  BY <1>1, <1>2, <1>3, <3>1, <3>2
  <2>. QED  BY <2>1, <2>2
<1>4. ASSUME NEW i \in Txns, NEW x \in Row, Ends(Pool, A, i, x)'
      PROVE  Given(i)' /\ \A j \in x.links : Given(j)'
  <2>1. CASE i \in S
    BY <1>1, <1>4, <2>1 DEF Inserts
  <2>2. CASE i \notin S
    <3>1. Given(i) /\ \A j \in x.links : j \in Txns /\ Given(j)
      BY <1>1, <1>2, <1>4, <2>2 DEF Row
    <3>. QED  BY <3>1 DEF GivenStays
  <2>. QED  BY <2>1, <2>2
<1>5. ASSUME NEW j \in Txns, NEW o \in Txns, Seen(A, "linkBack", j, o)
      PROVE  Given(o)' /\ \A x \in Row : Ends(Pool, A, o, x)' => j \in x.links
  BY <1>1, <1>5 DEF Inserts
<1>6. \A j, o \in Txns : ~Seen(A, "linkDrop", j, o)
  BY DEF Inserts
<1>. QED  BY <1>3, <1>4, <1>5, <1>6 DEF Sound, Mended, Seen, Visits

LEMMA AcceptLinked ==
    ASSUME OneRequest, IInv, LInv, NEW r \in Requests, NEW route, NEW calls \in Seq(Calls),
           Accept(r, route, calls), GivenStays, InTurn(calls), NEW A, A = Later(calls, 0), Resting(calls),
           AllAsked(Pool, A)',
           Unlinked(A) \/ (\E S \in SUBSET Txns : \E new : Inserts(A, S, new))
    PROVE  LInv'
<1>1. /\ req'[r].todo = calls /\ req'[r].own = Pool /\ req'[r].err = FALSE
      /\ UNCHANGED <<row, tx>>
      /\ req[r].own = Pool /\ req[r].todo = <<>>
  BY DEF Accept, Idle, GoOn, dbVars, IInv, TypeOK
<1>2. Tidy(Pool)
  <2>1. Outside(r)
    BY <1>1 DEF LInv, Linked
  <2>. QED  BY <1>1, <2>1, EmptyList DEF Outside
<1>3. \A i \in Txns : RowAt(Pool, i)' = RowAt(Pool, i)
  BY <1>1, TargetsDiffer DEF RowAt
<1>4. Tidy(Pool)'
  BY <1>2, <1>3, TidyStill
<1>5. Sound(Pool, A)'
  <2>1. ASSUME Unlinked(A)
        PROVE  Sound(Pool, A)'
    <3>1. SameWrites({}, A) /\ SameVisits({}, A)
      BY <2>1 DEF Unlinked, SameWrites, SameVisits, Seen, Visits
    <3>2. Sound(Pool, {})
      BY <1>2 DEF Tidy
    <3>. QED  BY <1>3, <3>1, <3>2, SoundMoved
  <2>. QED  BY <1>2, <2>1, SoundAdded
<1>6. AllPlaced(req[r].todo)'
  <2>1. AllPlaced(calls)
    BY TurnPlaces
  <2>. QED  BY <1>1, <2>1 DEF AllPlaced
<1>7. Later(req[r].todo, 0)' = A
  BY <1>1 DEF Later
<1>8. Sound(req[r].own, Later(req[r].todo, 0))'
  BY <1>1, <1>5, <1>7
<1>9. \A c \in Later(req[r].todo, 0)' : Asked(req[r].own, c)'
  BY <1>1, <1>7 DEF AllAsked, Asked
<1>10. Outside(r)'
  <2>1. Resting(req[r].todo)'
    BY <1>1 DEF Resting
  <2>. QED  BY <1>4, <2>1 DEF Outside
<1>11. Linked(r)'
  BY <1>1, <1>6, <1>8, <1>9, <1>10 DEF Linked
<1>. QED  BY <1>11, LinkedInAll

LEMMA InsertAdds ==
    ASSUME UNCHANGED row, NEW A, NEW n \in A, NEW i \in Txns, NEW x \in Row,
           n.q = "insert", n.id = i, n.row = x, \A c \in A : Writes(c) => c = n,
           mate[i] = Unborn, Given(i)', \A j \in x.links : Given(j)',
           \A j, o : Seen(A, "linkBack", j, o) <=> o = i /\ j \in x.links,
           \A j, o : ~Seen(A, "linkDrop", j, o)
    PROVE  \E S \in SUBSET Txns : \E new : Inserts(A, S, new)
<1>. DEFINE new == [k \in {i} |-> x]
<1>1. new[i] = x
  OBVIOUS
<1>2. ASSUME NEW k \in Txns, NEW y \in Row, Ends(Pool, A, k, y)'
      PROVE  IF k \in {i} THEN y = new[k] ELSE y = RowAt(Pool, k)
  <2>1. ~Some(A, "remove", k) /\ ~Some(A, "put", k) /\ (Some(A, "insert", k) <=> k = i)
    BY DEF Some, Is, Writes
  <2>2. RowAt(Pool, k)' = RowAt(Pool, k)
    BY TargetsDiffer DEF RowAt
  <2>3. y # NoRow
    BY Sentinels
  <2>4. CASE k = i
    <3>1. \E c \in A : Is(c, "insert", k) /\ y = c.row
      BY <1>2, <2>1, <2>3, <2>4 DEF Ends, Some
    <3>. QED  BY <1>1, <2>4, <3>1 DEF Is, Writes
  <2>5. CASE k # i
    BY <1>2, <2>1, <2>2, <2>3, <2>5 DEF Ends, Some
  <2>. QED  BY <2>4, <2>5
<1>. HIDE DEF new
<1>3. Inserts(A, {i}, new)
  BY <1>1, <1>2 DEF Inserts
<1>4. {i} \in SUBSET Txns
  OBVIOUS
<1>. QED  BY <1>3, <1>4

LEMMA CreateLinked ==
    ASSUME OneRequest, IInv, LInv, NEW r \in Requests, NEW i \in Txns, NEW a \in Accounts, NEW m \in Amounts,
           NEW links \in SUBSET Txns, \A j \in links : Given(j), Bear(i),
           Accept(r, "create", CreateTransaction(i, a, m, links))
    PROVE  LInv'
<1>. SUFFICES ASSUME NEW x, x = NewRow(a, m, links), NEW b, b = Begin({"trx", "acc"}), NEW n, n = Insert(i, x, "trx"),
                     NEW s, s = SaveBalance(a), NEW e, e = ForEach(links, "linkBack", i),
                     NEW calls, calls = <<b, n, s, e>>, NEW A, A = {b, n, s, e}
              PROVE  LInv'
  BY Zenon
<1>1. calls = CreateTransaction(i, a, m, links) /\ calls \in Seq(Calls) /\ x \in Row /\ x.links = links
  BY RowPrograms DEF CreateTransaction, Program, NewRow, Row
<1>2. /\ b.q = "begin" /\ s.q = "lookup"
      /\ n.q = "insert" /\ n.id = i /\ n.row = x
      /\ e.q = "each" /\ e.how = "linkBack" /\ e.ids = links /\ e.other = i
  BY DEF Begin, Insert, SaveBalance, Stats, ForEach
<1>3. InTurn(calls)
  <2>1. Leads(b) /\ Leads(n) /\ Leads(s) /\ Proper(n) /\ Proper(s) /\ Proper(e)
    BY <1>2 DEF Leads, Proper, Precedes, Last, Reads, Aside
  <2>. QED  BY <2>1, TurnShapes
<1>4. Later(calls, 0) = A
  BY LaterThreeFour
<1>5. Resting(calls)
  BY <1>2, <1>4 DEF Resting
<1>6. GivenStays /\ mate[i] = Unborn /\ Given(i)'
  BY LedgerConstants DEF Bear, Given, GivenStays, IInv, TypeOK
<1>7. AllAsked(Pool, A)'
  BY <1>2 DEF AllAsked, Asked
<1>8. \E S \in SUBSET Txns : \E new : Inserts(A, S, new)
  <2>1. \A c \in A : Writes(c) => c = n
    BY <1>2 DEF Writes
  <2>2. /\ \A j, o : Seen(A, "linkBack", j, o) <=> o = i /\ j \in x.links
        /\ \A j, o : ~Seen(A, "linkDrop", j, o)
    BY <1>1, <1>2 DEF Seen, Visits
  <2>3. UNCHANGED row /\ n \in A /\ \A j \in x.links : Given(j)'
    BY <1>1, <1>6 DEF Accept, dbVars, GivenStays
  <2>4. x \in Row /\ n.q = "insert" /\ n.id = i /\ n.row = x /\ mate[i] = Unborn /\ Given(i)'
    BY <1>1, <1>2, <1>6
  <2>. QED  BY <2>1, <2>2, <2>3, <2>4, InsertAdds, Zenon
<1>. QED  BY <1>1, <1>3, <1>4, <1>5, <1>6, <1>7, <1>8, AcceptLinked, Zenon

LEMMA NewAccountLinked ==
    ASSUME OneRequest, IInv, LInv, NEW r \in Requests, NEW a \in Accounts
    PROVE  /\ \A i \in Txns, m \in Amounts : Bear(i) /\ Accept(r, "createAccount", CreateAccount(a, i, m)) => LInv'
           /\ UNCHANGED mate /\ Accept(r, "createAccount", CreateEmptyAccount(a)) => LInv'
<1>1. ASSUME NEW i \in Txns, NEW m \in Amounts, Bear(i), Accept(r, "createAccount", CreateAccount(a, i, m))
      PROVE  LInv'
  <2>. SUFFICES ASSUME NEW x, x = NewRow(a, m, {}), NEW n, n = CountAccounts, NEW b, b = Begin({"ctl"}),
                       NEW z, z = NewAccount(a, SumOf({<<i, m>>})), NEW p, p = Aim({"ctl"}),
                       NEW y, y = Insert(i, x, "own"), NEW s, s = Stats(a, "own", TRUE, "ctl"),
                       NEW calls, calls = <<n, b, z, p, y, s>>, NEW A, A = {n, b, z, p, y, s}
                PROVE  LInv'
    BY Zenon
  <2>1. calls = CreateAccount(a, i, m) /\ calls \in Seq(Calls)
    BY AccountPrograms, Zenon DEF CreateAccount, Program
  <2>2. x \in Row /\ x.links = {}
    BY DEF NewRow, Row
  <2>3. /\ n.q = "count" /\ b.q = "begin" /\ z.q = "newacc" /\ p.q = "aim" /\ s.q = "lookup"
        /\ y.q = "insert" /\ y.id = i /\ y.row = x
    BY DEF CountAccounts, Begin, NewAccount, Aim, Stats, Insert
  <2>4. InTurn(calls)
    <3>1. /\ Precedes(n, b) /\ Leads(n) /\ Leads(b) /\ Leads(z) /\ Leads(p) /\ Leads(y)
          /\ Proper(z) /\ Proper(p) /\ Proper(y) /\ Proper(s)
      BY <2>3, Zenon DEF Leads, Proper, Precedes, Last, Reads, Aside
    <3>. QED  BY <3>1, TurnShapes, Zenon
  <2>5. Later(calls, 0) = A
    <3>1. Later(<<n, b, z, p, y, s>>, 0) = {n, b, z, p, y, s}
      BY ONLY LaterSix
    <3>. QED  BY <3>1, Zenon
  <2>6. Resting(calls)
    BY <2>3, <2>5, Zenon DEF Resting
  <2>7. GivenStays /\ mate[i] = Unborn /\ Given(i)'
    BY <1>1, LedgerConstants DEF Bear, Given, GivenStays, IInv, TypeOK
  <2>8. AllAsked(Pool, A)'
    BY <2>3, Zenon DEF AllAsked, Asked
  <2>9. \E S \in SUBSET Txns : \E new : Inserts(A, S, new)
    <3>1. \A c \in A : Writes(c) => c = y
      BY <2>3, Zenon DEF Writes
    <3>2. \A j, o : (Seen(A, "linkBack", j, o) <=> o = i /\ j \in x.links) /\ ~Seen(A, "linkDrop", j, o)
      BY <2>2, <2>3, Zenon DEF Seen, Visits
    <3>3. UNCHANGED row /\ y \in A /\ \A j \in x.links : Given(j)'
      BY <1>1, <2>2 DEF Accept, dbVars
    <3>. QED  BY <2>2, <2>3, <2>7, <3>1, <3>2, <3>3, InsertAdds, Zenon
  <2>10. Accept(r, "createAccount", calls)
    BY <1>1, <2>1, Zenon
  <2>. QED  BY <2>1, <2>4, <2>5, <2>6, <2>7, <2>8, <2>9, <2>10, AcceptLinked, Zenon
<1>2. ASSUME UNCHANGED mate, Accept(r, "createAccount", CreateEmptyAccount(a))
      PROVE  LInv'
  <2>. SUFFICES ASSUME NEW n, n = CountAccounts, NEW b, b = Begin({"ctl"}), NEW z, z = NewAccount(a, SumOf({})),
                       NEW calls, calls = <<n, b, z>>, NEW A, A = {n, b, z}
                PROVE  LInv'
    BY Zenon
  <2>1. calls = CreateEmptyAccount(a) /\ calls \in Seq(Calls)
    BY AccountPrograms DEF CreateEmptyAccount, Program
  <2>2. n.q = "count" /\ b.q = "begin" /\ z.q = "newacc"
    BY DEF CountAccounts, Begin, NewAccount
  <2>3. InTurn(calls)
    <3>1. Precedes(n, b) /\ Precedes(n, z) /\ Precedes(b, z)
      BY <2>2 DEF Precedes, Last, Reads, Aside
    <3>. QED  BY <3>1, TurnShapes
  <2>4. Later(calls, 0) = A
    BY LaterThreeFour
  <2>5. Resting(calls)
    BY <2>2, <2>4 DEF Resting
  <2>6. AllAsked(Pool, A)'
    BY <2>2 DEF AllAsked, Asked
  <2>7. Unlinked(A) /\ GivenStays
    BY <1>2, <2>2, SameIdsGiven DEF Unlinked, Writes
  <2>8. Accept(r, "createAccount", calls)
    BY <1>2, <2>1
  <2>. QED  BY <2>1, <2>3, <2>4, <2>5, <2>6, <2>7, <2>8, AcceptLinked, Zenon
<1>. QED  BY <1>1, <1>2

\* The two legs: the withdrawal is inserted without its link, which the whole-row update adds.
LEMMA LegsAdded ==
    ASSUME UNCHANGED row, NEW A, NEW w \in Txns, NEW d \in Txns, w # d,
           NEW x, NEW y, NEW p, {c \in A : Writes(c)} = {x, y, p},
           x.q = "insert", x.id = w, y.q = "insert", y.id = d, y.row \in Row, y.row.links = {w},
           p.q = "put", p.id = w, p.row \in Row, p.row.links = {d},
           mate[w] = Unborn, mate[d] = Unborn, Given(w)', Given(d)',
           \A j, o : ~Seen(A, "linkBack", j, o) /\ ~Seen(A, "linkDrop", j, o)
    PROVE  \E S \in SUBSET Txns : \E new : Inserts(A, S, new)
<1>. DEFINE new == [k \in {w, d} |-> IF k = w THEN p.row ELSE y.row]
<1>1. new[w] = p.row /\ new[d] = y.row
  OBVIOUS
<1>2. /\ \A c \in A : Writes(c) => c \in {x, y, p}
      /\ x \in A /\ y \in A /\ p \in A
  OBVIOUS
<1>3. ASSUME NEW k \in Txns, NEW z \in Row, Ends(Pool, A, k, z)'
      PROVE  IF k \in {w, d} THEN z = new[k] ELSE z = RowAt(Pool, k)
  <2>1. RowAt(Pool, k)' = RowAt(Pool, k)
    BY TargetsDiffer DEF RowAt
  <2>2. z # NoRow
    BY Sentinels
  <2>3. ~Some(A, "remove", k) /\ (Some(A, "put", k) <=> k = w) /\ (Some(A, "insert", k) <=> k \in {w, d})
    BY <1>2 DEF Some, Is, Writes
  <2>4. CASE k = w
    <3>1. \E c \in A : Is(c, "put", k) /\ z = c.row
      BY <1>3, <2>2, <2>3, <2>4 DEF Ends, Some
    <3>2. \A c \in A : Is(c, "put", k) => c = p
      BY <1>2 DEF Is, Writes
    <3>. QED  BY <1>1, <2>4, <3>1, <3>2
  <2>5. CASE k = d
    <3>1. \E c \in A : Is(c, "insert", k) /\ z = c.row
      BY <1>3, <2>2, <2>3, <2>5 DEF Ends, Some
    <3>2. \A c \in A : Is(c, "insert", k) => c = y
      BY <1>2, <2>5 DEF Is, Writes
    <3>. QED  BY <1>1, <2>5, <3>1, <3>2
  <2>6. CASE k \notin {w, d}
    BY <1>3, <2>1, <2>2, <2>3, <2>6 DEF Ends, Some
  <2>. QED  BY <2>4, <2>5, <2>6
<1>. HIDE DEF new
<1>4. Inserts(A, {w, d}, new)
  <2>1. \A k \in {w, d} : new[k] \in Row /\ mate[k] = Unborn /\ Given(k)' /\ \A j \in new[k].links : Given(j)'
    BY <1>1
  <2>2. \A k \in {w, d} : \A j \in new[k].links : j \in {w, d} /\ k \in new[j].links
    BY <1>1
  <2>. QED  BY <1>3, <2>1, <2>2 DEF Inserts
<1>5. {w, d} \in SUBSET Txns
  OBVIOUS
<1>. QED  BY <1>4, <1>5

LEMMA TransferLinked ==
    ASSUME OneRequest, IInv, LInv, NEW r \in Requests, NEW w \in Txns, NEW d \in Txns, w # d,
           NEW from \in Accounts, NEW to \in Accounts, NEW m \in Amounts, NEW n \in Amounts,
           mate[w] = Unborn, mate[d] = Unborn, mate' = [mate EXCEPT ![w] = d, ![d] = w],
           Accept(r, "transfer", Transfer(w, d, from, to, m, n))
    PROVE  LInv'
<1>. SUFFICES ASSUME NEW f, f = FindAccount(from, "acc", "exists"), NEW g, g = FindAccount(to, "acc", "exists"),
                     NEW s, s = Stats(from, "trx", FALSE, "check"), NEW b, b = Begin({"trx", "acc"}),
                     NEW x, x = Insert(w, NewRow(from, m, {}), "trx"), NEW y, y = Insert(d, NewRow(to, n, {w}), "trx"),
                     NEW p, p = Put(w, NewRow(from, m, {d})), NEW u, u = SaveBalance(from), NEW v, v = SaveBalance(to),
                     NEW calls, calls = <<f, g, s, b, x, y, p, u, v>>, NEW A, A = {f, g, s, b, x, y, p, u, v}
              PROVE  LInv'
  BY Zenon
<1>1. calls = Transfer(w, d, from, to, m, n) /\ calls \in Seq(Calls)
  BY TransferProgram, Zenon DEF Transfer, Program
<1>2. /\ f.q = "findacc" /\ g.q = "findacc" /\ s.q = "lookup" /\ b.q = "begin" /\ u.q = "lookup" /\ v.q = "lookup"
      /\ x.q = "insert" /\ x.id = w
      /\ y.q = "insert" /\ y.id = d /\ y.row \in Row /\ y.row.links = {w}
      /\ p.q = "put" /\ p.id = w /\ p.row \in Row /\ p.row.links = {d}
  BY DEF FindAccount, Stats, Begin, SaveBalance, Insert, Put, NewRow, Row
<1>3. InTurn(calls)
  <2>1. /\ Precedes(f, b) /\ Precedes(g, b) /\ Precedes(s, b) /\ Precedes(p, u) /\ Precedes(p, v)
        /\ Leads(f) /\ Leads(g) /\ Leads(s) /\ Leads(b) /\ Leads(x) /\ Leads(y) /\ Leads(u)
        /\ Proper(g) /\ Proper(s) /\ Proper(x) /\ Proper(y) /\ Proper(p) /\ Proper(u) /\ Proper(v)
    BY <1>2, Zenon DEF Leads, Proper, Precedes, Last, Reads, Aside, Is
  <2>. QED  BY <2>1, TurnShapes, Zenon
<1>4. Later(calls, 0) = A
  <2>1. Later(<<f, g, s, b, x, y, p, u, v>>, 0) = {f, g, s, b, x, y, p, u, v}
    BY ONLY LaterNine
  <2>. QED  BY <2>1, Zenon
<1>5. Resting(calls)
  BY <1>2, <1>4, Zenon DEF Resting
<1>6. GivenStays /\ Given(w)' /\ Given(d)'
  BY LedgerConstants DEF Given, GivenStays, IInv, TypeOK
<1>7. AllAsked(Pool, A)'
  BY <1>2, Zenon DEF AllAsked, Asked
<1>8. \E S \in SUBSET Txns : \E new : Inserts(A, S, new)
  <2>1. {c \in A : Writes(c)} = {x, y, p}
    BY <1>2, Zenon DEF Writes
  <2>2. \A j, o : ~Seen(A, "linkBack", j, o) /\ ~Seen(A, "linkDrop", j, o)
    <3>1. \A c \in A : c.q # "each" /\ c.q # "find"
      BY <1>2, Zenon
    <3>. QED  BY <3>1, Zenon DEF Seen, Visits
  <2>3. UNCHANGED row
    BY DEF Accept, dbVars
  <2>. QED  BY <1>2, <1>6, <2>1, <2>2, <2>3, LegsAdded, Zenon
<1>9. Accept(r, "transfer", calls)
  BY <1>1, Zenon
<1>. QED  BY <1>1, <1>3, <1>4, <1>5, <1>6, <1>7, <1>8, <1>9, AcceptLinked, Zenon

\* The methods that read a row first, in a transaction.
LEMMA ReadersLinked ==
    ASSUME OneRequest, IInv, LInv, NEW r \in Requests, NEW route, NEW c, NEW how,
           NEW b, b.q = "begin", c.q = "find", c.how = how, how \in {"edit", "delete"},
           <<b, c>> \in Seq(Calls), Accept(r, route, <<b, c>>), SameIds
    PROVE  LInv'
<1>. SUFFICES ASSUME NEW calls, calls = <<b, c>>, NEW A, A = {b, c}
              PROVE  LInv'
  BY Zenon
<1>1. InTurn(calls)
  <2>1. Precedes(b, c)
    BY DEF Precedes, Last, Reads, Aside
  <2>. QED  BY <2>1, TurnShapes
<1>2. Later(calls, 0) = A
  BY LaterShort
<1>3. Resting(calls)
  BY <1>2 DEF Resting
<1>4. Unlinked(A) /\ GivenStays
  BY SameIdsGiven DEF Unlinked, Writes, SameIds
<1>5. AllAsked(Pool, A)'
  BY DEF AllAsked, Asked
<1>6. calls \in Seq(Calls) /\ Accept(r, route, calls)
  OBVIOUS
<1>. QED  BY <1>1, <1>2, <1>3, <1>4, <1>5, <1>6, AcceptLinked, Zenon

\* Link and unlink, which have no transaction.
LEMMA LastLinked ==
    ASSUME OneRequest, IInv, LInv, NEW r \in Requests, NEW route, NEW c, NEW i \in Txns, NEW j \in Txns,
           c.q = "find", c.how \in {"linkFrom", "unlinkFrom"}, c.id = i, c.arg = j, Given(i), Given(j),
           ~MayFail, <<c>> \in Seq(Calls), Accept(r, route, <<c>>), SameIds
    PROVE  LInv'
<1>. SUFFICES ASSUME NEW calls, calls = <<c>>, NEW A, A = {c}
              PROVE  LInv'
  BY Zenon
<1>1. InTurn(calls)
  BY TurnShapes
<1>2. Later(calls, 0) = A
  BY LaterShort
<1>3. Resting(calls)
  <2>1. calls # <<>> /\ calls[1] = c
    OBVIOUS
  <2>. QED  BY <2>1 DEF Resting, Last
<1>4. Unlinked(A) /\ GivenStays
  BY SameIdsGiven DEF Unlinked, Writes, SameIds
<1>5. AllAsked(Pool, A)'
  BY <1>4 DEF AllAsked, Asked, GivenStays
<1>6. calls \in Seq(Calls) /\ Accept(r, route, calls)
  OBVIOUS
<1>. QED  BY <1>1, <1>2, <1>3, <1>4, <1>5, <1>6, AcceptLinked, Zenon

\* One call that neither reads nor writes a transaction.
LEMMA OneAsideLinked ==
    ASSUME OneRequest, IInv, LInv, NEW r \in Requests, NEW route, NEW c, Aside(c),
           <<c>> \in Seq(Calls), Accept(r, route, <<c>>), SameIds
    PROVE  LInv'
<1>. SUFFICES ASSUME NEW calls, calls = <<c>>, NEW A, A = {c}
              PROVE  LInv'
  BY Zenon
<1>1. InTurn(calls)
  BY TurnShapes
<1>2. Later(calls, 0) = A
  BY LaterShort
<1>3. Resting(calls)
  BY <1>2 DEF Resting
<1>4. Unlinked(A) /\ GivenStays
  BY SameIdsGiven DEF Unlinked, Writes, SameIds, Aside
<1>5. AllAsked(Pool, A)'
  BY DEF AllAsked, Asked, Aside
<1>6. calls \in Seq(Calls) /\ Accept(r, route, calls)
  OBVIOUS
<1>. QED  BY <1>1, <1>2, <1>3, <1>4, <1>5, <1>6, AcceptLinked, Zenon

LEMMA AcceptRequestLinked ==
    ASSUME OneRequest, LinksCovered, IInv, LInv, NEW r \in Requests, AcceptRequest(r)
    PROVE  LInv'
<1>1. CASE AcceptCreate(r)
  <2>1. PICK i \in Txns, a \in Accounts, m \in Amounts, links \in SUBSET Txns :
           /\ \A j \in links : Given(j)
           /\ Bear(i) /\ Accept(r, "create", CreateTransaction(i, a, m, links))
    BY <1>1 DEF AcceptCreate, Given
  <2>. QED  BY <2>1, CreateLinked
<1>2. CASE AcceptUpdate(r)
  <2>1. PICK i \in Txns, e \in Edits : Accept(r, "update", UpdateTransaction(i, e)) /\ SameIds
    BY <1>2 DEF AcceptUpdate
  <2>. SUFFICES ASSUME NEW b, b = Begin({"trx", "acc"}), NEW c, c = Find(i, "edit", e)
                PROVE  LInv'
    OBVIOUS
  <2>2. <<b, c>> \in Seq(Calls) /\ Accept(r, "update", <<b, c>>)
    BY <2>1, RowPrograms DEF Program, UpdateTransaction
  <2>3. b.q = "begin" /\ c.q = "find" /\ c.how = "edit"
    BY DEF Begin, Find
  <2>. QED  BY <2>1, <2>2, <2>3, ReadersLinked
<1>3. CASE AcceptDelete(r)
  <2>1. PICK i \in Txns : Accept(r, "delete", DeleteTransaction(i)) /\ SameIds
    BY <1>3 DEF AcceptDelete
  <2>. SUFFICES ASSUME NEW b, b = Begin({"trx", "acc"}), NEW c, c = Find(i, "delete", i)
                PROVE  LInv'
    OBVIOUS
  <2>2. <<b, c>> \in Seq(Calls) /\ Accept(r, "delete", <<b, c>>)
    BY <2>1, RowPrograms DEF Program, DeleteTransaction
  <2>3. b.q = "begin" /\ c.q = "find" /\ c.how = "delete"
    BY DEF Begin, Find
  <2>. QED  BY <2>1, <2>2, <2>3, ReadersLinked
<1>4. CASE AcceptLink(r)
  <2>1. PICK i \in Txns, j \in Txns :
           ~MayFail /\ Given(i) /\ Given(j) /\ Accept(r, "link", LinkTransaction(i, j)) /\ SameIds
    BY <1>4 DEF AcceptLink, Given, Accept, LinksCovered
  <2>. SUFFICES ASSUME NEW c, c = Find(i, "linkFrom", j)
                PROVE  LInv'
    OBVIOUS
  <2>2. <<c>> \in Seq(Calls) /\ Accept(r, "link", <<c>>)
    BY <2>1, RowPrograms DEF Program, LinkTransaction
  <2>3. c.q = "find" /\ c.how = "linkFrom" /\ c.id = i /\ c.arg = j
    BY DEF Find
  <2>. QED  BY <2>1, <2>2, <2>3, LastLinked
<1>5. CASE AcceptUnlink(r)
  <2>1. PICK i \in Txns, j \in Txns :
           ~MayFail /\ Given(i) /\ Given(j) /\ Accept(r, "unlink", UnlinkTransaction(i, j)) /\ SameIds
    BY <1>5 DEF AcceptUnlink, Given, Accept, LinksCovered
  <2>. SUFFICES ASSUME NEW c, c = Find(i, "unlinkFrom", j)
                PROVE  LInv'
    OBVIOUS
  <2>2. <<c>> \in Seq(Calls) /\ Accept(r, "unlink", <<c>>)
    BY <2>1, RowPrograms DEF Program, UnlinkTransaction
  <2>3. c.q = "find" /\ c.how = "unlinkFrom" /\ c.id = i /\ c.arg = j
    BY DEF Find
  <2>. QED  BY <2>1, <2>2, <2>3, LastLinked
<1>6. CASE AcceptTransfer(r)
  <2>1. PICK w \in Txns, d \in Txns, from \in Accounts, to \in Accounts, m \in Amounts, n \in Amounts :
           /\ w # d /\ mate[w] = Unborn /\ mate[d] = Unborn
           /\ mate' = [mate EXCEPT ![w] = d, ![d] = w]
           /\ Accept(r, "transfer", Transfer(w, d, from, to, m, n))
    BY <1>6, Zenon DEF AcceptTransfer
  <2>. QED  BY <2>1, TransferLinked, Zenon
<1>7. CASE AcceptGetStats(r)
  <2>1. PICK a \in Accounts : Accept(r, "stats", GetAccountStats(a)) /\ SameIds
    BY <1>7 DEF AcceptGetStats
  <2>. SUFFICES ASSUME NEW c, c = Stats(a, "trx", FALSE, "show")
                PROVE  LInv'
    BY Zenon
  <2>2. <<c>> \in Seq(Calls) /\ Accept(r, "stats", <<c>>)
    BY <2>1, AccountPrograms, Zenon DEF Program, GetAccountStats
  <2>3. Aside(c)
    BY DEF Stats, Aside
  <2>. QED  BY <2>1, <2>2, <2>3, OneAsideLinked, Zenon
<1>8. CASE AcceptCreateAccount(r)
  <2>1. PICK a \in Accounts :
           \/ \E i \in Txns, m \in Amounts : Bear(i) /\ Accept(r, "createAccount", CreateAccount(a, i, m))
           \/ UNCHANGED mate /\ Accept(r, "createAccount", CreateEmptyAccount(a))
    BY <1>8 DEF AcceptCreateAccount
  <2>. QED  BY <2>1, NewAccountLinked
<1>9. CASE AcceptUpdateAccount(r)
  <2>1. PICK a \in Accounts, u \in {"rename", "retype"} :
           /\ Accept(r, IF u = "rename" THEN "renameAccount" ELSE "typeBalance", UpdateAccount(a, u))
           /\ SameIds
    BY <1>9 DEF AcceptUpdateAccount
  <2>. SUFFICES ASSUME NEW c, c = FindAccount(a, "pool", u),
                       NEW route, route = IF u = "rename" THEN "renameAccount" ELSE "typeBalance"
                PROVE  LInv'
    OBVIOUS
  <2>2. <<c>> \in Seq(Calls) /\ Accept(r, route, <<c>>)
    BY <2>1, AccountPrograms, Zenon DEF Program, UpdateAccount
  <2>3. Aside(c)
    BY DEF FindAccount, Aside
  <2>. QED  BY <2>1, <2>2, <2>3, OneAsideLinked
<1>10. CASE AcceptDeleteAccount(r)
  <2>1. PICK a \in Accounts : Accept(r, "deleteAccount", DeleteAccount(a)) /\ SameIds
    BY <1>10 DEF AcceptDeleteAccount
  <2>. SUFFICES ASSUME NEW c, c = FindAccount(a, "pool", "delete")
                PROVE  LInv'
    OBVIOUS
  <2>2. <<c>> \in Seq(Calls) /\ Accept(r, "deleteAccount", <<c>>)
    BY <2>1, AccountPrograms DEF Program, DeleteAccount
  <2>3. Aside(c)
    BY DEF FindAccount, Aside
  <2>. QED  BY <2>1, <2>2, <2>3, OneAsideLinked
<1>. QED  BY <1>1, <1>2, <1>3, <1>4, <1>5, <1>6, <1>7, <1>8, <1>9, <1>10 DEF AcceptRequest

-----------------------------------------------------------------------------
(* The theorem of the links.                                               *)

LEMMA InitLinked == Init => LInv
<1>. SUFFICES ASSUME Init, NEW r \in Requests
              PROVE  Linked(r)
  BY DEF LInv, Init, DbInit
<1>1. req[r].own = Pool /\ req[r].todo = <<>> /\ ~req[r].err
  BY DEF Init
<1>2. \A i \in Txns : RowAt(Pool, i) = NoRow
  BY TargetsDiffer DEF Init, DbInit, RowAt
<1>3. Tidy(Pool)
  <2>1. \A i \in Txns : \A x \in Row : ~Ends(Pool, {}, i, x)
    BY <1>2, Sentinels DEF Ends, Some
  <2>. QED  BY <2>1 DEF Tidy, Sound, Seen
<1>4. Sound(Pool, Later(<<>>, 0))
  BY <1>3, EmptyList DEF Tidy
<1>5. AllPlaced(<<>>) /\ Resting(<<>>) /\ Later(<<>>, 0) = {}
  BY EmptyList
<1>. QED  BY <1>1, <1>3, <1>4, <1>5 DEF Linked, Outside

LEMMA StepLinked ==
    OneRequest /\ LinksKept /\ LinksCovered /\ IInv /\ AInv /\ BInv /\ LInv /\ [Next]_vars => LInv'
<1>. SUFFICES ASSUME OneRequest, LinksKept, LinksCovered, IInv, AInv, BInv, LInv, [Next]_vars
              PROVE  LInv'
  OBVIOUS
<1>1. CASE UNCHANGED vars
  <2>1. UNCHANGED <<row, tx, mate, req, ptr>>
    BY <1>1 DEF vars, dbVars
  <2>. QED  BY <2>1, SameLinked
<1>2. ASSUME NEW r \in Requests, AcceptRequest(r)
      PROVE  LInv'
  BY <1>2, AcceptRequestLinked
<1>3. ASSUME NEW r \in Requests, Progress(r)
      PROVE  LInv'
  BY <1>3, RunAimLinked, RunForEachLinked, LookupLinked, FillCacheLinked, BeginLinked, FindRowLinked, WriteRowLinked,
     RefuseRowLinked, RemoveRowLinked, SumAccountLinked, UpdateBalanceLinked, ReadAccountLinked, CheckLimitLinked,
     InsertAccountLinked, WriteAccountLinked, DeleteAccountRowLinked, FailLinked, CommitLinked, RollbackLinked
     DEF Progress, Serve
<1>4. ASSUME NEW p \in Procs, NEW a \in Accounts, Expire(p, a)
      PROVE  LInv'
  BY <1>4, ExpireLinked
<1>5. ASSUME NEW c \in Clients, CloseIdle(c)
      PROVE  LInv'
  BY <1>5, CloseIdleLinked
<1>. QED  BY <1>1, <1>2, <1>3, <1>4, <1>5 DEF Next

\* With one request at a time, no edit that replaces a list of links and no account form that
\* types a balance, whenever the request has been answered the links between the transactions
\* there are go both ways: what create, transfer and delete write to one row they write to
\* the other, whatever statements fail, because they do it inside db.transaction; and so do
\* link and unlink, whose two updates are in none, as long as nothing fails by chance.
THEOREM LinksAreMutual == OneRequest /\ NothingTyped /\ LinksKept /\ LinksCovered /\ Spec => []LinksMutual
<1>1. OneRequest => OneEach
  BY DEF OneRequest, OneEach
<1>2. OneRequest /\ IInv /\ LInv => LinksMutual
  <2>. SUFFICES ASSUME OneRequest, IInv, LInv, Quiet, NEW i \in Txns, NEW j \in Txns,
                       row[i] # NoRow, row[j] # NoRow, j \in row[i].links, i # j
                PROVE  i \in row[j].links
    BY DEF LinksMutual
  <2>1. PICK r \in Requests : TRUE
    BY DEF LInv
  <2>2. req[r].own = Pool /\ req[r].todo = <<>>
    BY DEF Quiet, Idle
  <2>3. Tidy(Pool)
    BY <2>2, EmptyList DEF LInv, Linked, Outside
  <2>4. RowAt(Pool, i) = row[i] /\ RowAt(Pool, j) = row[j] /\ row[i] \in Row /\ row[j] \in Row
    BY TargetsDiffer DEF RowAt, IInv, TypeOK, DbTypeOK
  <2>5. Ends(Pool, {}, i, row[i]) /\ Ends(Pool, {}, j, row[j])
    BY <2>4 DEF Ends, Some
  <2>. QED  BY <2>3, <2>4, <2>5 DEF Tidy, Sound, Mended, Seen
<1>. SUFFICES ASSUME OneRequest, NothingTyped, LinksKept, LinksCovered
              PROVE  Spec => []LinksMutual
  OBVIOUS
<1>3. Spec => []AInv
  BY <1>1, SteadyHolds
<1>4. IInv /\ AInv /\ BInv /\ [Next]_vars => BInv'
  BY StepPaid
<1>5. IInv /\ AInv /\ BInv /\ LInv /\ [Next]_vars => LInv'
  BY StepLinked
<1>6. IInv /\ LInv => LinksMutual
  BY <1>2
<1>. QED  BY InitPaid, InitLinked, <1>3, <1>4, <1>5, <1>6, InvariantHolds, PTL DEF Spec
=============================================================================
