------------------------- MODULE InvitationsProofs -------------------------
(***************************************************************************)
(* Proofs about Invitations, for any number of concurrent requests, with    *)
(* failures and with every route.                                          *)
(***************************************************************************)
EXTENDS Invitations, FiniteSetTheorems, TLAPS

AcceptPlaces == {"accept.user", "accept.member", "accept.create"}

(* What a request holds while it awaits a statement: rows are never        *)
(* deleted and their address never changes, so a row it has read, however  *)
(* stale, still has the address of the row in the table.                   *)
Held(r) ==
    /\ req[r].at \in {"invite.member", "invite.pending", "invite.create"} => req[r].user \in Users
    /\ req[r].at \in AcceptPlaces \cup {"save"} =>
          /\ req[r].id \in Existing
          /\ req[r].row \in Row
          /\ req[r].row.to = invite[req[r].id].to
    /\ req[r].at \in AcceptPlaces => req[r].user = req[r].row.to
    /\ req[r].at \in {"accept.member", "accept.create"} => req[r].user \in users
    /\ \A x \in req[r].rest : x[1] \in Existing /\ x[2].to = invite[x[1]].to

IInv == TypeOK /\ MembersWereInvited /\ \A r \in Requests : Held(r)

-----------------------------------------------------------------------------
(* A step of one request disturbs no other: it deletes no invitation and   *)
(* no account, and changes no address.                                     *)
Grows ==
    /\ users \subseteq users'
    /\ \A i \in Existing : invite'[i] # None /\ invite'[i].to = invite[i].to

LEMMA OthersHold ==
    ASSUME IInv, NEW s \in Requests, req'[s] = req[s], Grows, TypeOK'
    PROVE  Held(s)'
<1>1. Existing \subseteq Existing'
  BY DEF Grows, Existing
<1>2. \A i \in Existing : invite'[i].to = invite[i].to
  BY DEF Grows
<1>3. Held(s)
  BY DEF IInv
<1>. QED  BY <1>1, <1>2, <1>3 DEF Held, Grows

\* The step of request r that changes no table.
LEMMA Quietly ==
    ASSUME IInv, NEW r \in Requests, UNCHANGED Tables, NEW q \in ReqType,
           req' = [req EXCEPT ![r] = q], Held(r)'
    PROVE  IInv'
<1>1. TypeOK' /\ Grows /\ \A s \in Requests \ {r} : req'[s] = req[s]
  BY DEF IInv, TypeOK, Tables, Grows, Existing
<1>2. \A s \in Requests \ {r} : Held(s)'
  BY <1>1, OthersHold
<1>3. MembersWereInvited'
  BY DEF IInv, MembersWereInvited, Tables, Existing
<1>. QED  BY <1>1, <1>2, <1>3 DEF IInv

LEMMA IdleType == Idle \in ReqType /\ Idle.rest = {} /\ Idle.at = "idle"
BY InvitationConstants DEF Idle, ReqType, Places

LEMMA AnswerHolds ==
    ASSUME TypeOK, NEW r \in Requests, Answer(r)
    PROVE  Held(r)' /\ req'[r] = Idle
<1>1. req'[r] = Idle
  BY DEF Answer, TypeOK
<1>. QED  BY <1>1, IdleType DEF Held, AcceptPlaces

LEMMA AnswerKeeps ==
    ASSUME IInv, NEW r \in Requests, Answer(r), UNCHANGED Tables
    PROVE  IInv'
BY IdleType, AnswerHolds, Quietly DEF Answer, IInv

LEMMA RowHeld ==
    ASSUME IInv, NEW i \in Existing
    PROVE  /\ i \in Invites /\ invite[i] \in Row /\ invite[i].to \in Users
           /\ \A st \in Statuses : With(invite[i], st) \in Row /\ With(invite[i], st).to = invite[i].to
BY NoneIsNoRow DEF IInv, TypeOK, Existing, Row, With

\* Starting a method that goes on to updateInvitation at once.
LEMMA SaveKeeps ==
    ASSUME IInv, NEW r \in Requests, NEW i \in Existing, NEW row \in Row,
           row.to = invite[i].to, SaveNext(r, i, row), UNCHANGED Tables
    PROVE  IInv'
<1>. DEFINE q == [req[r] EXCEPT !.at = "save", !.id = i, !.row = row]
<1>1. TypeOK /\ Held(r) /\ req[r] \in ReqType /\ i \in Invites
  BY RowHeld DEF IInv, TypeOK
<1>2. q \in ReqType
  BY <1>1 DEF ReqType, Places
<1>3. req' = [req EXCEPT ![r] = q] /\ req'[r] = q
  BY <1>1 DEF SaveNext, TypeOK
<1>4. q.at = "save" /\ q.id = i /\ q.row = row /\ q.rest = req[r].rest
  BY <1>1 DEF ReqType
<1>5. invite' = invite /\ users' = users /\ Existing' = Existing
  BY DEF Tables, Existing
<1>. HIDE DEF q
<1>6. Held(r)'
  BY <1>1, <1>3, <1>4, <1>5 DEF Held, AcceptPlaces
<1>. QED  BY <1>2, <1>3, <1>6, Quietly

\* A step that only moves on, from a place where what it holds is right for the next.
LEMMA GoKeeps ==
    ASSUME IInv, NEW r \in Requests, NEW p \in Places, Go(r, p), UNCHANGED Tables,
           p \in {"invite.member", "invite.pending", "invite.create"} => req[r].user \in Users,
           p \in AcceptPlaces \cup {"save"} => req[r].at \in AcceptPlaces,
           p \in {"accept.member", "accept.create"} => req[r].user \in users
    PROVE  IInv'
<1>. DEFINE q == [req[r] EXCEPT !.at = p]
<1>1. TypeOK /\ Held(r) /\ req[r] \in ReqType
  BY DEF IInv, TypeOK
<1>2. q \in ReqType
  BY <1>1 DEF ReqType
<1>3. req' = [req EXCEPT ![r] = q] /\ req'[r] = q
  BY <1>1 DEF Go, TypeOK
<1>4. q.at = p /\ q.id = req[r].id /\ q.row = req[r].row /\ q.rest = req[r].rest /\ q.user = req[r].user
  BY <1>1 DEF ReqType
<1>5. invite' = invite /\ users' = users /\ Existing' = Existing
  BY DEF Tables, Existing
<1>. HIDE DEF q
<1>6. Held(r)'
  BY <1>1, <1>3, <1>4, <1>5 DEF Held, AcceptPlaces
<1>. QED  BY <1>2, <1>3, <1>6, Quietly

\* The step of one request that also changes a table.
LEMMA StepKeeps ==
    ASSUME IInv, NEW r \in Requests, Grows, TypeOK', Held(r)', MembersWereInvited',
           \A s \in Requests \ {r} : req'[s] = req[s]
    PROVE  IInv'
<1>1. \A s \in Requests \ {r} : Held(s)'
  BY OthersHold
<1>. QED  BY <1>1 DEF IInv

\* Members stay invited when none is added and nothing they rest on is lost.
LEMMA NobodyNew ==
    ASSUME IInv, Grows, members' \subseteq members, \A u \in members' : via'[u] = via[u]
    PROVE  MembersWereInvited'
BY DEF IInv, MembersWereInvited, Grows, Existing

-----------------------------------------------------------------------------
(* One step for each action.                                               *)
LEMMA InviteStep == ASSUME IInv, NEW r \in Requests, InviteMember(r) PROVE IInv'
<1>1. PICK u \in Users : req' = [req EXCEPT
                            ![r].at = IF u \in users THEN "invite.member" ELSE "invite.pending",
                            ![r].user = u]
  BY DEF InviteMember
<1>. DEFINE q == [req[r] EXCEPT !.at = IF u \in users THEN "invite.member" ELSE "invite.pending",
                                !.user = u]
<1>2. TypeOK /\ Held(r) /\ req[r] \in ReqType
  BY DEF IInv, TypeOK
<1>3. q \in ReqType /\ q.at \in {"invite.member", "invite.pending"} /\ q.user = u
      /\ q.rest = req[r].rest
  BY <1>2 DEF ReqType, Places
<1>4. req' = [req EXCEPT ![r] = q] /\ req'[r] = q
  BY <1>1, <1>2 DEF TypeOK
<1>5. UNCHANGED Tables /\ invite' = invite /\ Existing' = Existing
  BY DEF InviteMember, Tables, Existing
<1>. HIDE DEF q
<1>6. Held(r)'
  BY <1>2, <1>3, <1>4, <1>5 DEF Held, AcceptPlaces
<1>. QED  BY <1>3, <1>4, <1>5, <1>6, Quietly

LEMMA CheckNotMemberStep == ASSUME IInv, NEW r \in Requests, CheckNotMember(r) PROVE IInv'
<1>1. Held(r) /\ req[r].user \in Users
  BY DEF IInv, Held, CheckNotMember
<1>2. CASE Answer(r)
  BY <1>2, AnswerKeeps DEF CheckNotMember
<1>3. CASE Go(r, "invite.pending")
  BY <1>1, <1>3, GoKeeps DEF CheckNotMember, Places, AcceptPlaces
<1>. QED  BY <1>2, <1>3 DEF CheckNotMember

LEMMA CheckNotInvitedStep == ASSUME IInv, NEW r \in Requests, CheckNotInvited(r) PROVE IInv'
<1>1. Held(r) /\ req[r].user \in Users
  BY DEF IInv, Held, CheckNotInvited
<1>2. CASE Answer(r)
  BY <1>2, AnswerKeeps DEF CheckNotInvited
<1>3. CASE Go(r, "invite.create")
  BY <1>1, <1>3, GoKeeps DEF CheckNotInvited, Places, AcceptPlaces
<1>. QED  BY <1>2, <1>3 DEF CheckNotInvited

LEMMA CreateInvitationStep == ASSUME IInv, NEW r \in Requests, CreateInvitation(r) PROVE IInv'
<1>. DEFINE row(k) == [to |-> req[r].user, token |-> k, status |-> "pending"]
<1>1. PICK i \in Invites \ Existing, k \in Tokens :
         invite' = [invite EXCEPT ![i] = row(k)] /\ issued' = issued \cup {k} /\ stored' = stored \cup {k}
  BY DEF CreateInvitation
<1>2. TypeOK /\ Held(r) /\ req[r].user \in Users
  BY DEF IInv, Held, CreateInvitation
<1>3. row(k) \in Row
  BY <1>2 DEF Row, Statuses
<1>4. Held(r)' /\ req'[r] = Idle /\ \A s \in Requests \ {r} : req'[s] = req[s]
  BY <1>2, AnswerHolds DEF CreateInvitation, Answer, TypeOK
<1>. HIDE DEF row
<1>5. TypeOK'
  BY <1>1, <1>2, <1>3, IdleType DEF TypeOK, CreateInvitation, Answer
<1>6. Grows
  BY <1>1, <1>2, NoneIsNoRow DEF Grows, TypeOK, Existing, CreateInvitation
<1>7. MembersWereInvited'
  BY <1>6, NobodyNew DEF CreateInvitation
<1>. QED  BY <1>4, <1>5, <1>6, <1>7, StepKeeps

LEMMA ResendStep == ASSUME IInv, NEW r \in Requests, ResendInvitation(r) PROVE IInv'
<1>1. PICK i \in Existing :
         \/ SaveNext(r, i, With(invite[i], "expired")) /\ UNCHANGED issued
         \/ \E k \in Tokens : /\ SaveNext(r, i, [invite[i] EXCEPT !.token = k])
                               /\ issued' = issued \cup {k}
  BY DEF ResendInvitation
<1>2. CASE SaveNext(r, i, With(invite[i], "expired")) /\ UNCHANGED issued
  <2>1. UNCHANGED Tables
    BY <1>2 DEF ResendInvitation, Tables
  <2>. QED  BY <1>2, <2>1, RowHeld, SaveKeeps DEF Statuses
<1>3. ASSUME NEW k \in Tokens, SaveNext(r, i, [invite[i] EXCEPT !.token = k]),
             issued' = issued \cup {k}
      PROVE  IInv'
  <2>. DEFINE row == [invite[i] EXCEPT !.token = k]
              q == [req[r] EXCEPT !.at = "save", !.id = i, !.row = row]
  <2>1. TypeOK /\ Held(r) /\ req[r] \in ReqType /\ i \in Invites /\ invite[i] \in Row
    BY RowHeld DEF IInv, TypeOK
  <2>2. row \in Row /\ row.to = invite[i].to
    BY <2>1 DEF Row
  <2>. HIDE DEF row
  <2>3. q \in ReqType /\ q.at = "save" /\ q.id = i /\ q.row = row /\ q.rest = req[r].rest
    BY <2>1, <2>2 DEF ReqType, Places
  <2>4. req' = [req EXCEPT ![r] = q] /\ req'[r] = q
    BY <1>3, <2>1 DEF SaveNext, TypeOK, row
  <2>5. invite' = invite /\ users' = users /\ Existing' = Existing /\ members' = members /\ via' = via
        /\ lapsed' = lapsed /\ stored' = stored
    BY DEF ResendInvitation, Existing
  <2>. HIDE DEF q
  <2>6. Held(r)'
    BY <2>1, <2>2, <2>3, <2>4, <2>5 DEF Held, AcceptPlaces
  <2>7. TypeOK' /\ Grows /\ \A s \in Requests \ {r} : req'[s] = req[s]
    BY <1>3, <2>1, <2>3, <2>4, <2>5 DEF TypeOK, Grows, Existing
  <2>8. MembersWereInvited'
    BY <2>5, <2>7, NobodyNew
  <2>. QED  BY <2>6, <2>7, <2>8, StepKeeps
<1>. QED  BY <1>1, <1>2, <1>3

LEMMA CancelStep == ASSUME IInv, NEW r \in Requests, CancelInvitation(r) PROVE IInv'
BY RowHeld, SaveKeeps DEF CancelInvitation, Statuses

LEMMA ViewStep == ASSUME IInv, NEW r \in Requests, ViewInvitation(r) PROVE IInv'
BY RowHeld, SaveKeeps DEF ViewInvitation, Statuses

LEMMA DeclineStep == ASSUME IInv, NEW r \in Requests, DeclineInvitation(r) PROVE IInv'
<1>1. PICK i \in Existing :
         SaveNext(r, i, With(invite[i], IF Closed(invite[i]) THEN "expired" ELSE "declined"))
  BY DEF DeclineInvitation
<1>2. UNCHANGED Tables
  BY DEF DeclineInvitation
<1>. QED  BY <1>1, <1>2, RowHeld, SaveKeeps DEF Statuses

LEMMA ListMineStep == ASSUME IInv, NEW r \in Requests, ListMyInvitations(r) PROVE IInv'
<1>1. PICK u \in users :
         req' = [req EXCEPT ![r].at = "mine", ![r].rest = {<<i, invite[i]>> : i \in PendingFor(u)}]
  BY DEF ListMyInvitations
<1>. DEFINE mine == {<<i, invite[i]>> : i \in PendingFor(u)}
            q == [req[r] EXCEPT !.at = "mine", !.rest = mine]
<1>2. TypeOK /\ Held(r) /\ req[r] \in ReqType
  BY DEF IInv, TypeOK
<1>3. mine \in SUBSET (Invites \X Row) /\ \A x \in mine : x[1] \in Existing /\ x[2].to = invite[x[1]].to
  BY <1>2 DEF TypeOK, PendingFor, Existing
<1>. HIDE DEF mine
<1>4. q \in ReqType /\ q.at = "mine" /\ q.rest = mine
  BY <1>2, <1>3 DEF ReqType, Places
<1>5. req' = [req EXCEPT ![r] = q] /\ req'[r] = q
  BY <1>1, <1>2 DEF TypeOK, mine
<1>6. UNCHANGED Tables /\ invite' = invite /\ Existing' = Existing
  BY DEF ListMyInvitations, Tables, Existing
<1>. HIDE DEF q
<1>7. Held(r)'
  BY <1>3, <1>4, <1>5, <1>6 DEF Held, AcceptPlaces
<1>. QED  BY <1>4, <1>5, <1>6, <1>7, Quietly

LEMMA NextOfMineStep == ASSUME IInv, NEW r \in Requests, NextOfMine(r) PROVE IInv'
<1>0. UNCHANGED Tables
  BY DEF NextOfMine
<1>1. CASE req[r].rest = {} /\ Answer(r)
  BY <1>0, <1>1, AnswerKeeps
<1>2. ASSUME NEW x \in req[r].rest,
             req' = [req EXCEPT ![r].rest = @ \ {x},
                                ![r].at   = IF IsExpired(x[2]) THEN "save" ELSE "mine",
                                ![r].id   = x[1],
                                ![r].row  = With(x[2], "expired")]
      PROVE  IInv'
  <2>. DEFINE q == [req[r] EXCEPT !.rest = @ \ {x},
                                  !.at   = IF IsExpired(x[2]) THEN "save" ELSE "mine",
                                  !.id   = x[1],
                                  !.row  = With(x[2], "expired")]
  <2>1. TypeOK /\ Held(r) /\ req[r] \in ReqType
    BY DEF IInv, TypeOK
  <2>2. x[1] \in Existing /\ x[2].to = invite[x[1]].to /\ x[1] \in Invites /\ x[2] \in Row
    BY <2>1, <1>2 DEF Held, ReqType
  <2>3. With(x[2], "expired") \in Row /\ With(x[2], "expired").to = x[2].to
    BY <2>2 DEF Row, With, Statuses
  <2>4. q \in ReqType /\ q.rest = req[r].rest \ {x} /\ q.at \in {"save", "mine"} /\ q.id = x[1]
        /\ q.row = With(x[2], "expired")
    BY <2>1, <2>2, <2>3 DEF ReqType, Places
  <2>5. req' = [req EXCEPT ![r] = q] /\ req'[r] = q
    BY <1>2, <2>1 DEF TypeOK
  <2>6. invite' = invite /\ Existing' = Existing
    BY <1>0 DEF Tables, Existing
  <2>. HIDE DEF q
  <2>7. Held(r)'
    BY <2>1, <2>2, <2>3, <2>4, <2>5, <2>6 DEF Held, AcceptPlaces
  <2>. QED  BY <1>0, <2>4, <2>5, <2>7, Quietly
<1>. QED  BY <1>1, <1>2 DEF NextOfMine

LEMMA AcceptStep == ASSUME IInv, NEW r \in Requests, AcceptInvitation(r) PROVE IInv'
<1>0. UNCHANGED Tables
  BY DEF AcceptInvitation
<1>1. PICK i \in Existing : SaveNext(r, i, With(invite[i], "expired"))
                            \/ Hold(r, i, invite[i], "accept.user")
  BY DEF AcceptInvitation
<1>2. CASE SaveNext(r, i, With(invite[i], "expired"))
  BY <1>0, <1>2, RowHeld, SaveKeeps DEF Statuses
<1>3. CASE Hold(r, i, invite[i], "accept.user")
  <2>. DEFINE q == [req[r] EXCEPT !.at = "accept.user", !.user = invite[i].to, !.id = i,
                                  !.row = invite[i]]
  <2>1. TypeOK /\ Held(r) /\ req[r] \in ReqType
    BY DEF IInv, TypeOK
  <2>2. q \in ReqType /\ q.at = "accept.user" /\ q.user = invite[i].to /\ q.id = i
        /\ q.row = invite[i] /\ q.rest = req[r].rest
    BY <2>1, RowHeld DEF ReqType, Places
  <2>3. req' = [req EXCEPT ![r] = q] /\ req'[r] = q
    BY <1>3, <2>1 DEF Hold, TypeOK
  <2>4. invite' = invite /\ Existing' = Existing
    BY <1>0 DEF Tables, Existing
  <2>. HIDE DEF q
  <2>5. Held(r)'
    BY <2>1, <2>2, <2>3, <2>4, RowHeld DEF Held, AcceptPlaces
  <2>. QED  BY <1>0, <2>2, <2>3, <2>5, Quietly
<1>. QED  BY <1>1, <1>2, <1>3

LEMMA FindInviteeStep == ASSUME IInv, NEW r \in Requests, FindInvitee(r) PROVE IInv'
<1>1. req[r].at \in AcceptPlaces /\ UNCHANGED Tables
  BY DEF FindInvitee, AcceptPlaces
<1>2. CASE Answer(r)
  BY <1>1, <1>2, AnswerKeeps
<1>3. CASE req[r].user \in users /\ Go(r, "accept.member")
  BY <1>1, <1>3, GoKeeps DEF Places
<1>. QED  BY <1>2, <1>3 DEF FindInvitee

LEMMA FindMemberStep == ASSUME IInv, NEW r \in Requests, FindMember(r) PROVE IInv'
<1>1. UNCHANGED Tables /\ TypeOK /\ Held(r) /\ req[r].at = "accept.member"
  BY DEF IInv, FindMember
<1>2. CASE SaveNext(r, req[r].id, With(req[r].row, "expired"))
  <2>1. With(req[r].row, "expired") \in Row /\ With(req[r].row, "expired").to = req[r].row.to
    BY <1>1 DEF Held, AcceptPlaces, Row, With, Statuses
  <2>. QED  BY <1>1, <1>2, <2>1, SaveKeeps DEF Held, AcceptPlaces
<1>3. CASE Go(r, "accept.create")
  BY <1>1, <1>3, GoKeeps DEF Held, Places, AcceptPlaces
<1>. QED  BY <1>2, <1>3 DEF FindMember

LEMMA CreateMemberStep == ASSUME IInv, NEW r \in Requests, CreateMember(r) PROVE IInv'
<1>. DEFINE u == req[r].user
            i == req[r].id
            row == With(req[r].row, "accepted")
            q == [req[r] EXCEPT !.at = "save", !.id = i, !.row = row]
<1>1. TypeOK /\ Held(r) /\ req[r] \in ReqType /\ req[r].at = "accept.create"
  BY DEF IInv, TypeOK, CreateMember
<1>2. u \in users /\ u \in Users /\ i \in Existing /\ i \in Invites /\ u = invite[i].to
  BY <1>1 DEF Held, AcceptPlaces, Row, Existing
<1>3. row \in Row /\ row.to = invite[i].to
  BY <1>1 DEF Held, AcceptPlaces, Row, With, Statuses
<1>4. UNCHANGED <<invite, users, issued, stored, lapsed>> /\ members' = members \cup {u}
      /\ via' = [via EXCEPT ![u] = i] /\ Existing' = Existing
  BY DEF CreateMember, Existing
<1>5. q \in ReqType /\ q.at = "save" /\ q.id = i /\ q.row = row /\ q.rest = req[r].rest
  BY <1>1, <1>2, <1>3 DEF ReqType, Places
<1>6. req' = [req EXCEPT ![r] = q] /\ req'[r] = q
  BY <1>1 DEF CreateMember, SaveNext, TypeOK
<1>7. MembersWereInvited'
  BY <1>1, <1>2, <1>4 DEF IInv, MembersWereInvited, TypeOK
<1>. HIDE DEF q, row
<1>8. Held(r)'
  BY <1>1, <1>2, <1>3, <1>4, <1>5, <1>6 DEF Held, AcceptPlaces
<1>9. TypeOK' /\ Grows /\ \A s \in Requests \ {r} : req'[s] = req[s]
  BY <1>1, <1>2, <1>4, <1>5, <1>6 DEF TypeOK, Grows, Existing
<1>. QED  BY <1>7, <1>8, <1>9, StepKeeps

LEMMA UpdateStep == ASSUME IInv, NEW r \in Requests, UpdateInvitation(r) PROVE IInv'
<1>. DEFINE i == req[r].id
<1>1. TypeOK /\ Held(r) /\ req[r] \in ReqType /\ req[r].at = "save"
  BY DEF IInv, TypeOK, UpdateInvitation
<1>2. i \in Existing /\ req[r].row \in Row /\ req[r].row.to = invite[i].to
      /\ \A x \in req[r].rest : x[1] \in Existing /\ x[2].to = invite[x[1]].to
  BY <1>1 DEF Held
<1>3. /\ invite' = [invite EXCEPT ![i] = req[r].row] /\ UNCHANGED <<users, members, issued, lapsed, via>>
      /\ stored' = stored \cup {req[r].row.token}
  BY DEF UpdateInvitation
<1>4. Existing' = Existing /\ \A j \in Existing : invite'[j].to = invite[j].to
  BY <1>1, <1>2, <1>3, NoneIsNoRow DEF TypeOK, Existing
<1>5. Grows
  BY <1>3, <1>4 DEF Grows, Existing
<1>6. MembersWereInvited'
  BY <1>3, <1>5, NobodyNew
<1>9. stored' \subseteq Tokens
  BY <1>1, <1>2, <1>3 DEF TypeOK, Row
<1>7. CASE Answer(r)
  <2>1. TypeOK' /\ \A s \in Requests \ {r} : req'[s] = req[s]
    BY <1>1, <1>2, <1>3, <1>7, <1>9, IdleType DEF TypeOK, Answer
  <2>. QED  BY <1>1, <1>5, <1>6, <1>7, <2>1, AnswerHolds, StepKeeps
<1>8. CASE Go(r, "mine")
  <2>. DEFINE q == [req[r] EXCEPT !.at = "mine"]
  <2>1. q \in ReqType /\ q.at = "mine" /\ q.rest = req[r].rest
    BY <1>1 DEF ReqType, Places
  <2>2. req' = [req EXCEPT ![r] = q] /\ req'[r] = q
    BY <1>1, <1>8 DEF Go, TypeOK
  <2>. HIDE DEF q
  <2>3. Held(r)'
    BY <1>2, <1>4, <2>1, <2>2 DEF Held, AcceptPlaces
  <2>4. TypeOK' /\ \A s \in Requests \ {r} : req'[s] = req[s]
    BY <1>1, <1>2, <1>3, <1>9, <2>1, <2>2 DEF TypeOK
  <2>. QED  BY <1>5, <1>6, <2>3, <2>4, StepKeeps
<1>. QED  BY <1>7, <1>8 DEF UpdateInvitation

\* The steps that no request takes.
LEMMA OutsideStep ==
    ASSUME IInv, (\E u \in Users : RemoveMember(u) \/ Register(u)) \/ (\E k \in Tokens : Lapse(k))
    PROVE  IInv'
<1>1. req' = req /\ TypeOK /\ UNCHANGED <<invite, issued, stored>> /\ Grows
  BY DEF IInv, RemoveMember, Register, Lapse, Grows, Existing
<1>2. TypeOK'
  BY <1>1 DEF TypeOK, RemoveMember, Register, Lapse
<1>3. members' \subseteq members /\ \A u \in members' : via'[u] = via[u]
  BY <1>1 DEF TypeOK, RemoveMember, Register, Lapse
<1>4. MembersWereInvited'
  BY <1>1, <1>3, NobodyNew
<1>5. \A r \in Requests : Held(r)'
  BY <1>1, <1>2, OthersHold
<1>. QED  BY <1>2, <1>4, <1>5 DEF IInv

-----------------------------------------------------------------------------
LEMMA InitHolds == Init => IInv
<1>. SUFFICES ASSUME Init PROVE IInv
  OBVIOUS
<1>1. TypeOK
  BY InvitationConstants, IdleType DEF Init, TypeOK
<1>2. MembersWereInvited
  BY DEF Init, MembersWereInvited
<1>3. \A r \in Requests : Held(r)
  BY IdleType DEF Init, Held, AcceptPlaces
<1>. QED  BY <1>1, <1>2, <1>3 DEF IInv

LEMMA RequestStep == ASSUME IInv, NEW r \in Requests, Begin(r) \/ GoOn(r) PROVE IInv'
<1>1. CASE MemberExists(r) \/ Fail(r)
  BY <1>1, AnswerKeeps DEF MemberExists, Fail
<1>. QED  BY <1>1, InviteStep, ResendStep, CancelStep, ViewStep, ListMineStep, AcceptStep, DeclineStep,
             CheckNotMemberStep, CheckNotInvitedStep, CreateInvitationStep, NextOfMineStep,
             FindInviteeStep, FindMemberStep, CreateMemberStep, UpdateStep
          DEF Begin, GoOn

LEMMA StutterStep == ASSUME IInv, UNCHANGED vars PROVE IInv'
<1>1. UNCHANGED Tables /\ req' = req /\ Existing' = Existing
  BY DEF vars, Tables, Existing
<1>2. TypeOK' /\ Grows /\ MembersWereInvited'
  BY <1>1 DEF IInv, TypeOK, Tables, Grows, Existing, MembersWereInvited
<1>. QED  BY <1>1, <1>2, OthersHold DEF IInv

LEMMA InvariantHolds == Spec => []IInv
<1>1. IInv /\ [Next]_vars => IInv'
  BY RequestStep, OutsideStep, StutterStep DEF Next
<1>. QED  BY <1>1, InitHolds, PTL DEF Spec

\* Every variable keeps its type, whatever the number of requests and of failures.
THEOREM InvitationsTyped == Spec => []TypeOK
<1>1. IInv => TypeOK
  BY DEF IInv
<1>. QED  BY <1>1, InvariantHolds, PTL

\* acceptInvitation adds to a workspace only people who have an account and an
\* invitation in their own name, however its steps interleave with those of other
\* requests, and wherever a request stops half-way.
THEOREM OnlyTheInvitedJoin == Spec => []MembersWereInvited
<1>1. IInv => MembersWereInvited
  BY DEF IInv
<1>. QED  BY <1>1, InvariantHolds, PTL

-----------------------------------------------------------------------------
(* What goes on its way to updateInvitation: from every method but          *)
(* resendInvitation a row that is closed.                                  *)
LEMMA SaveCloses ==
    ASSUME IInv, NEW r \in Requests, NEW row \in Row, NEW i \in Existing,
           NEW st \in Statuses \ {"pending"}, SaveNext(r, i, With(row, st))
    PROVE  req'[r].row.status # "pending"
BY DEF IInv, TypeOK, ReqType, SaveNext, Row, With

LEMMA OthersWait ==
    ASSUME IInv, NEW r \in Requests, Begin(r) \/ GoOn(r)
    PROVE  \A s \in Requests \ {r} : req'[s] = req[s]
BY DEF IInv, TypeOK, Begin, GoOn, InviteMember, ResendInvitation, CancelInvitation, ViewInvitation,
       ListMyInvitations, AcceptInvitation, DeclineInvitation, CheckNotMember, CheckNotInvited,
       CreateInvitation, NextOfMine, FindInvitee, FindMember, CreateMember,
       MemberExists, UpdateInvitation, Fail, Go, Answer, SaveNext, Hold

LEMMA RowsToSaveAreClosed ==
    ASSUME IInv, NEW r \in Requests, Begin(r) \/ GoOn(r), ~ResendInvitation(r),
           req'[r].at = "save"
    PROVE  req'[r].row.status # "pending"
<1>0. TypeOK /\ Held(r) /\ req[r] \in ReqType
  BY DEF IInv, TypeOK
<1>1. CASE CancelInvitation(r) \/ ViewInvitation(r)
  BY <1>1, RowHeld, SaveCloses DEF CancelInvitation, ViewInvitation, Statuses
<1>2. CASE DeclineInvitation(r)
  <2>1. PICK i \in Existing :
           SaveNext(r, i, With(invite[i], IF Closed(invite[i]) THEN "expired" ELSE "declined"))
    BY <1>2 DEF DeclineInvitation
  <2>. QED  BY <2>1, RowHeld, SaveCloses DEF Statuses
<1>3. CASE AcceptInvitation(r)
  <2>1. PICK i \in Existing : SaveNext(r, i, With(invite[i], "expired"))
                              \/ Hold(r, i, invite[i], "accept.user")
    BY <1>3 DEF AcceptInvitation
  <2>2. CASE SaveNext(r, i, With(invite[i], "expired"))
    BY <2>2, RowHeld, SaveCloses DEF Statuses
  <2>3. CASE Hold(r, i, invite[i], "accept.user")
    BY <1>0, <2>3 DEF Hold, TypeOK, ReqType
  <2>. QED  BY <2>1, <2>2, <2>3
<1>4. CASE NextOfMine(r)
  <2>1. ~Answer(r)
    BY <1>0, AnswerHolds, IdleType
  <2>2. PICK x \in req[r].rest :
               req' = [req EXCEPT ![r].rest = @ \ {x},
                                  ![r].at   = IF IsExpired(x[2]) THEN "save" ELSE "mine",
                                  ![r].id   = x[1],
                                  ![r].row  = With(x[2], "expired")]
    BY <1>4, <2>1 DEF NextOfMine
  <2>3. x[2] \in Row /\ req'[r].row = With(x[2], "expired")
    BY <1>0, <2>2 DEF ReqType, TypeOK
  <2>. QED  BY <2>3 DEF Row, With
<1>5. CASE FindMember(r) \/ CreateMember(r)
  <2>1. req[r].row \in Row /\ req[r].id \in Existing
    BY <1>0, <1>5 DEF Held, AcceptPlaces, FindMember, CreateMember
  <2>2. CASE \E st \in {"expired", "accepted"} : SaveNext(r, req[r].id, With(req[r].row, st))
    BY <2>1, <2>2, SaveCloses DEF Statuses
  <2>3. CASE Go(r, "accept.create")
    BY <1>0, <2>3 DEF Go, TypeOK, ReqType
  <2>. QED  BY <1>5, <2>2, <2>3 DEF FindMember, CreateMember
<1>6. ~InviteMember(r) /\ ~ListMyInvitations(r)
  <2>1. ASSUME InviteMember(r) PROVE req'[r].at \in {"invite.member", "invite.pending"}
    BY <1>0, <2>1 DEF InviteMember, TypeOK, ReqType
  <2>2. ASSUME ListMyInvitations(r) PROVE req'[r].at = "mine"
    BY <1>0, <2>2 DEF ListMyInvitations, TypeOK, ReqType
  <2>. QED  BY <2>1, <2>2
<1>7. ~Answer(r)
  BY <1>0, AnswerHolds, IdleType
<1>8. \A p \in Places \ {"save"} : ~Go(r, p)
  BY <1>0 DEF Go, TypeOK, ReqType
<1>. QED  BY <1>1, <1>2, <1>3, <1>4, <1>5, <1>6, <1>7, <1>8
          DEF Begin, GoOn, CheckNotMember, CheckNotInvited, CreateInvitation, FindInvitee,
              MemberExists, UpdateInvitation, Fail, Places

\* invite changes in two ways only.
LEMMA TwoWriters ==
    ASSUME Next, invite' # invite
    PROVE  \E r \in Requests : CreateInvitation(r) \/ UpdateInvitation(r)
BY DEF Next, Begin, GoOn, RemoveMember, Register, Lapse, Tables, InviteMember, ResendInvitation,
       CancelInvitation, ViewInvitation, ListMyInvitations, AcceptInvitation, DeclineInvitation,
       CheckNotMember, CheckNotInvited, NextOfMine, FindInvitee, FindMember,
       CreateMember, MemberExists, Fail

\* A step outside the requests leaves both them and the invitations alone.
LEMMA RequestOrNot ==
    ASSUME [Next]_vars
    PROVE  (req' = req /\ invite' = invite) \/ \E r \in Requests : Begin(r) \/ GoOn(r)
BY DEF Next, RemoveMember, Register, Lapse, vars

-----------------------------------------------------------------------------
(* What a request holds has been in the table, but for the new token of a   *)
(* resend, which no one else has.                                          *)
Reviving(r) == req[r].at = "save" /\ req[r].row.status = "pending"

Known(r) ==
    /\ req[r].at \in AcceptPlaces \cup {"save"} /\ ~Reviving(r) => req[r].row.token \in stored
    /\ \A x \in req[r].rest : x[2].token \in stored
    /\ Reviving(r) => req[r].row.token \in issued \ stored

TokenInv ==
    /\ stored \subseteq issued
    /\ \A i \in Existing : invite[i].token \in stored
    /\ \A r \in Requests : Known(r)
    /\ \A r, s \in Requests : Reviving(r) /\ Reviving(s) /\ r # s => req[r].row.token # req[s].row.token

\* The tokens that a request can go on with: those in the table, and those it holds.
AtHand(r) ==
    {invite[i].token : i \in Existing} \cup {x[2].token : x \in req[r].rest}
        \cup IF req[r].at \in AcceptPlaces THEN {req[r].row.token} ELSE {}

LEMMA TokensHeld ==
    ASSUME IInv, NEW r \in Requests, Begin(r) \/ GoOn(r), ~ResendInvitation(r),
           req'[r].at \in AcceptPlaces \cup {"save"}
    PROVE  req'[r].row.token \in AtHand(r)
<1>0. TypeOK /\ Held(r) /\ req[r] \in ReqType
  BY DEF IInv, TypeOK
<1>1. ASSUME NEW i \in Existing, NEW st \in Statuses, SaveNext(r, i, With(invite[i], st))
      PROVE  req'[r].row.token \in AtHand(r)
  <2>1. req'[r].row.token = invite[i].token
    BY <1>0, <1>1, RowHeld DEF SaveNext, With, TypeOK, ReqType, Row
  <2>. QED  BY <2>1 DEF AtHand
<1>2. CASE CancelInvitation(r) \/ ViewInvitation(r) \/ DeclineInvitation(r)
  BY <1>1, <1>2 DEF CancelInvitation, ViewInvitation, DeclineInvitation, Statuses
<1>3. CASE AcceptInvitation(r)
  <2>1. PICK i \in Existing : SaveNext(r, i, With(invite[i], "expired"))
                              \/ Hold(r, i, invite[i], "accept.user")
    BY <1>3 DEF AcceptInvitation
  <2>2. CASE Hold(r, i, invite[i], "accept.user")
    <3>1. req'[r].row = invite[i]
      BY <1>0, <2>2 DEF Hold, TypeOK, ReqType
    <3>. QED  BY <3>1 DEF AtHand
  <2>. QED  BY <1>1, <2>1, <2>2 DEF Statuses
<1>4. CASE NextOfMine(r)
  <2>1. ~Answer(r)
    BY <1>0, AnswerHolds, IdleType DEF AcceptPlaces
  <2>2. PICK x \in req[r].rest :
               req' = [req EXCEPT ![r].rest = @ \ {x},
                                  ![r].at   = IF IsExpired(x[2]) THEN "save" ELSE "mine",
                                  ![r].id   = x[1],
                                  ![r].row  = With(x[2], "expired")]
    BY <1>4, <2>1 DEF NextOfMine
  <2>3. x[2] \in Row /\ req'[r].row = With(x[2], "expired")
    BY <1>0, <2>2 DEF ReqType, TypeOK
  <2>4. req'[r].row.token = x[2].token
    BY <2>3 DEF Row, With
  <2>. QED  BY <2>4 DEF AtHand
<1>5. CASE FindMember(r) \/ CreateMember(r) \/ FindInvitee(r)
  <2>1. req[r].row \in Row /\ req[r].at \in AcceptPlaces
    BY <1>0, <1>5 DEF Held, AcceptPlaces, FindMember, CreateMember, FindInvitee
  <2>2. CASE \E st \in {"expired", "accepted"} : SaveNext(r, req[r].id, With(req[r].row, st))
    BY <1>0, <2>1, <2>2 DEF SaveNext, With, TypeOK, ReqType, Row, AtHand
  <2>3. CASE \E p \in Places : Go(r, p)
    BY <1>0, <2>1, <2>3 DEF Go, TypeOK, ReqType, AtHand
  <2>4. ~Answer(r)
    BY <1>0, AnswerHolds, IdleType DEF AcceptPlaces
  <2>. QED  BY <1>5, <2>2, <2>3, <2>4 DEF FindMember, CreateMember, FindInvitee, Places
<1>6. ~InviteMember(r) /\ ~ListMyInvitations(r)
  <2>1. ASSUME InviteMember(r) PROVE req'[r].at \in {"invite.member", "invite.pending"}
    BY <1>0, <2>1 DEF InviteMember, TypeOK, ReqType
  <2>2. ASSUME ListMyInvitations(r) PROVE req'[r].at = "mine"
    BY <1>0, <2>2 DEF ListMyInvitations, TypeOK, ReqType
  <2>. QED  BY <2>1, <2>2 DEF AcceptPlaces
<1>7. ~Answer(r)
  BY <1>0, AnswerHolds, IdleType DEF AcceptPlaces
<1>8. \A p \in Places \ (AcceptPlaces \cup {"save"}) : ~Go(r, p)
  BY <1>0 DEF Go, TypeOK, ReqType
<1>. QED  BY <1>2, <1>3, <1>4, <1>5, <1>6, <1>7, <1>8
          DEF Begin, GoOn, CheckNotMember, CheckNotInvited, CreateInvitation,
              MemberExists, UpdateInvitation, Fail, Places, AcceptPlaces

LEMMA RestHeld ==
    ASSUME IInv, NEW r \in Requests, Begin(r) \/ GoOn(r)
    PROVE  req'[r].rest \subseteq req[r].rest \cup {<<i, invite[i]>> : i \in Existing}
<1>0. TypeOK /\ req[r] \in ReqType
  BY DEF IInv, TypeOK
<1>1. Answer(r) => req'[r].rest = {}
  BY <1>0, IdleType DEF Answer, TypeOK
<1>2. \A p : Go(r, p) => req'[r].rest = req[r].rest
  BY <1>0 DEF Go, TypeOK, ReqType
<1>3. \A i, row : SaveNext(r, i, row) \/ Hold(r, i, row, "accept.user") => req'[r].rest = req[r].rest
  BY <1>0 DEF SaveNext, Hold, TypeOK, ReqType
<1>4. InviteMember(r) => req'[r].rest = req[r].rest
  BY <1>0 DEF InviteMember, TypeOK, ReqType
<1>5. CASE ListMyInvitations(r)
  <2>1. PICK u \in users : req'[r].rest = {<<i, invite[i]>> : i \in PendingFor(u)}
    BY <1>0, <1>5 DEF ListMyInvitations, TypeOK, ReqType
  <2>. QED  BY <2>1 DEF PendingFor
<1>6. CASE NextOfMine(r) /\ ~Answer(r)
  <2>1. PICK x \in req[r].rest :
               req' = [req EXCEPT ![r].rest = @ \ {x},
                                  ![r].at   = IF IsExpired(x[2]) THEN "save" ELSE "mine",
                                  ![r].id   = x[1],
                                  ![r].row  = With(x[2], "expired")]
    BY <1>6 DEF NextOfMine
  <2>2. req'[r].rest = req[r].rest \ {x}
    BY <1>0, <2>1 DEF TypeOK, ReqType
  <2>. QED  BY <2>2
<1>7. (\E i, row : SaveNext(r, i, row)) \/ (\E i, row : Hold(r, i, row, "accept.user"))
      \/ (\E p : Go(r, p)) \/ Answer(r) \/ InviteMember(r) \/ ListMyInvitations(r)
      \/ (NextOfMine(r) /\ ~Answer(r))
  BY Zenon
  DEF Begin, GoOn, ResendInvitation, CancelInvitation, ViewInvitation, AcceptInvitation,
      DeclineInvitation, CheckNotMember, CheckNotInvited, CreateInvitation, FindInvitee,
      FindMember, CreateMember, MemberExists, UpdateInvitation, Fail
<1>. QED  BY <1>1, <1>2, <1>3, <1>4, <1>5, <1>6, <1>7

\* Who waits holds what it held; more tokens are known, and none of its own, if it revives.
LEMMA OthersKnown ==
    ASSUME NEW s \in Requests, Known(s), req'[s] = req[s],
           stored \subseteq stored', issued \subseteq issued',
           Reviving(s) => req[s].row.token \notin stored'
    PROVE  Known(s)'
BY DEF Known, Reviving

LEMMA TokenStep ==
    ASSUME IInv, TokenInv, NEW r \in Requests, Begin(r) \/ GoOn(r)
    PROVE  TokenInv'
<1>0. TypeOK /\ TypeOK' /\ Known(r) /\ req[r] \in ReqType /\ \A s \in Requests \ {r} : req'[s] = req[s]
  BY RequestStep, OthersWait DEF IInv, TypeOK, TokenInv
<1>1. AtHand(r) \subseteq stored /\ \A i \in Existing : invite[i].token \in stored
  BY DEF AtHand, TokenInv, Known, Reviving, AcceptPlaces
<1>2. \A x \in req'[r].rest : x[2].token \in stored
  BY <1>1, RestHeld DEF TokenInv, Known
<1>3. CASE ResendInvitation(r)
  <2>1. invite' = invite /\ stored' = stored /\ Existing' = Existing
    BY <1>3 DEF ResendInvitation, Existing
  <2>2. CASE issued' = issued /\ \E i \in Existing : SaveNext(r, i, With(invite[i], "expired"))
    <3>1. req'[r].row.token \in stored /\ req'[r].row.status # "pending"
      BY <1>0, <1>1, <2>2, RowHeld DEF SaveNext, With, TypeOK, ReqType, Row
    <3>2. Known(r)' /\ ~Reviving(r)'
      BY <1>2, <2>1, <3>1 DEF Known, Reviving
    <3>3. \A s \in Requests \ {r} : Known(s)' /\ Reviving(s)' = Reviving(s)
      BY <1>0, <2>1, <2>2 DEF TokenInv, Known, Reviving
    <3>. QED  BY <1>0, <2>1, <2>2, <3>2, <3>3 DEF TokenInv
  <2>3. ASSUME NEW k \in Tokens \ issued, NEW i \in Existing, issued' = issued \cup {k}, invite[i].status = "pending",
               SaveNext(r, i, [invite[i] EXCEPT !.token = k])
        PROVE  TokenInv'
    <3>1. req'[r].row.token = k
      BY <1>0, <2>3, RowHeld DEF SaveNext, TypeOK, ReqType, Row
    <3>2. k \in issued' \ stored' /\ req'[r].row.status = "pending" /\ req'[r].at = "save"
      <4>1. req'[r].row = [invite[i] EXCEPT !.token = k] /\ req'[r].at = "save"
        BY <1>0, <2>3 DEF SaveNext, TypeOK, ReqType
      <4>2. [invite[i] EXCEPT !.token = k].status = invite[i].status
        BY RowHeld DEF Row
      <4>3. k \in issued' \ stored'
        BY <2>1, <2>3 DEF TokenInv
      <4>. QED  BY <2>3, <4>1, <4>2, <4>3
    <3>5. Known(r)'
      BY <1>2, <2>1, <3>1, <3>2 DEF Known, Reviving
    <3>3. \A s \in Requests \ {r} : Known(s)' /\ (Reviving(s)' => req'[s].row.token \in issued)
      BY <1>0, <2>1, <2>3 DEF TokenInv, Known, Reviving
    <3>4. \A s, t \in Requests : Reviving(s)' /\ Reviving(t)' /\ s # t => req'[s].row.token # req'[t].row.token
      BY <1>0, <2>3, <3>1, <3>3 DEF TokenInv, Reviving
    <3>. QED  BY <1>0, <2>1, <2>3, <3>3, <3>4, <3>5 DEF TokenInv
  <2>. QED  BY <1>3, <2>2, <2>3 DEF ResendInvitation
<1>4. ASSUME ~ResendInvitation(r) PROVE TokenInv'
  <2>1. ~Reviving(r)' /\ (req'[r].at \in AcceptPlaces \cup {"save"} => req'[r].row.token \in stored)
    BY <1>1, <1>4, RowsToSaveAreClosed, TokensHeld DEF Reviving
  <2>2. \A s, t \in Requests : Reviving(s)' /\ Reviving(t)' /\ s # t => req'[s].row.token # req'[t].row.token
    BY <1>0, <2>1 DEF TokenInv, Reviving
  <2>3. ASSUME stored \subseteq stored', issued \subseteq issued', stored' \subseteq issued',
               \A s \in Requests \ {r} : Reviving(s) => req[s].row.token \notin stored',
               \A i \in Existing' : invite'[i].token \in stored'
        PROVE  TokenInv'
    <3>1. Known(r)'
      BY <1>2, <2>1, <2>3 DEF Known, Reviving
    <3>2. \A s \in Requests \ {r} : Known(s)'
      BY <1>0, <2>3, OthersKnown DEF TokenInv
    <3>. QED  BY <2>2, <2>3, <3>1, <3>2 DEF TokenInv
  <2>4. CASE CreateInvitation(r)
    <3>1. PICK i \in Invites \ Existing, k \in Tokens \ issued :
             /\ invite' = [invite EXCEPT ![i] = [to |-> req[r].user, token |-> k, status |-> "pending"]]
             /\ issued' = issued \cup {k} /\ stored' = stored \cup {k}
      BY <2>4 DEF CreateInvitation
    <3>2. \A j \in Existing' : invite'[j].token \in stored'
      BY <1>0, <1>1, <3>1 DEF Existing, TypeOK
    <3>. QED  BY <2>3, <3>1, <3>2 DEF TokenInv, Known
  <2>5. CASE UpdateInvitation(r)
    <3>. DEFINE i == req[r].id
                k == req[r].row.token
    <3>1. /\ invite' = [invite EXCEPT ![i] = req[r].row] /\ stored' = stored \cup {k} /\ issued' = issued
          /\ req[r].at = "save"
      BY <2>5 DEF UpdateInvitation
    <3>2. k \in issued /\ (~Reviving(r) => k \in stored)
      BY <1>0, <3>1 DEF Known, TokenInv
    <3>3. \A j \in Existing' : invite'[j].token \in stored'
      BY <1>0, <1>1, <3>1 DEF Existing, TypeOK
    <3>4. \A s \in Requests \ {r} : Reviving(s) => req[s].row.token \notin stored'
      BY <3>1, <3>2 DEF TokenInv, Known
    <3>. QED  BY <2>3, <3>1, <3>2, <3>3, <3>4 DEF TokenInv
  <2>6. CASE ~CreateInvitation(r) /\ ~UpdateInvitation(r)
    <3>1. UNCHANGED <<invite, issued, stored>>
      BY <1>4, <2>6, Zenon
      DEF Begin, GoOn, Tables, InviteMember, CancelInvitation, ViewInvitation, ListMyInvitations,
          AcceptInvitation, DeclineInvitation, CheckNotMember, CheckNotInvited, NextOfMine,
          FindInvitee, FindMember, CreateMember, MemberExists, Fail
    <3>. QED  BY <1>1, <2>3, <3>1 DEF TokenInv, Known, Existing
  <2>. QED  BY <2>4, <2>5, <2>6
<1>. QED  BY <1>3, <1>4

LEMMA TokensHold == Spec => []TokenInv
<1>1. Init => TokenInv
  BY IdleType DEF Init, TokenInv, Known, Reviving, Existing, AcceptPlaces
<1>2. IInv /\ TokenInv /\ [Next]_vars => TokenInv'
  <2>. SUFFICES ASSUME IInv, TokenInv, [Next]_vars PROVE TokenInv'
    OBVIOUS
  <2>1. ASSUME \A r \in Requests : ~Begin(r) /\ ~GoOn(r) PROVE TokenInv'
    <3>1. UNCHANGED <<req, invite, issued, stored>>
      BY <2>1 DEF Next, RemoveMember, Register, Lapse, vars
    <3>. QED  BY <3>1 DEF TokenInv, Known, Reviving, Existing
  <2>. QED  BY <2>1, TokenStep
<1>. QED  BY <1>1, <1>2, InvariantHolds, PTL DEF Spec

\* For any number of requests, with every route and whatever fails: an invitation that has been
\* accepted, declined, cancelled or has expired comes back only under a link that nobody has
\* had, so a resend that writes a stale row gives no old link a second life.
THEOREM NoLinkRevives == Spec => ReopenedAfresh
<1>. DEFINE Afresh == \A i \in Existing : invite[i].status # "pending" /\ invite'[i].status = "pending"
                                          => invite'[i].token \notin stored
<1>1. IInv /\ TokenInv /\ [Next]_vars => [Afresh]_vars
  <2>. SUFFICES ASSUME IInv, TokenInv, Next, invite' # invite PROVE Afresh
    OBVIOUS
  <2>1. ASSUME NEW r \in Requests, CreateInvitation(r) PROVE Afresh
    BY <2>1 DEF CreateInvitation, IInv, TypeOK, Existing
  <2>2. ASSUME NEW r \in Requests, UpdateInvitation(r) PROVE Afresh
    <3>1. req[r].at = "save" /\ (Reviving(r) => req[r].row.token \notin stored)
      BY <2>2 DEF UpdateInvitation, TokenInv, Known
    <3>. QED  BY <2>2, <3>1 DEF UpdateInvitation, IInv, TypeOK, Reviving, Existing
  <2>. QED  BY <2>1, <2>2, TwoWriters
<1>. HIDE DEF Afresh
<1>. QED  BY <1>1, InvariantHolds, TokensHold, PTL DEF Spec, ReopenedAfresh, Afresh

-----------------------------------------------------------------------------
(* How many invitations to one person can be pending at once: those that    *)
(* are or will be, by a resend on its way, and the requests that are about  *)
(* to insert one, are together no more than there are requests.            *)
Revivers(u) == {r \in Requests : Reviving(r) /\ req[r].row.to = u}
Live(u)     == PendingFor(u) \cup {req[r].id : r \in Revivers(u)}
Creators(u) == {r \in Requests : req[r].at = "invite.create" /\ req[r].user = u}

Few(u)  == IsFiniteSet(Live(u)) /\ Cardinality(Live(u)) + Cardinality(Creators(u)) <= Cardinality(Requests)
FewInv  == \A u \in Users : Few(u)

LEMMA FiniteRequests ==
    /\ IsFiniteSet(Requests) /\ Cardinality(Requests) \in Nat
    /\ \A S \in SUBSET Requests : IsFiniteSet(S) /\ Cardinality(S) \in Nat /\ Cardinality(S) <= Cardinality(Requests)
BY InvitationConstants, FS_CardinalityType, FS_Subset

LEMMA Room ==
    ASSUME NEW S \in SUBSET Requests, NEW C \in SUBSET Requests, S \cap C = {}, NEW f
    PROVE  LET T == {f[r] : r \in S}
           IN  IsFiniteSet(T) /\ Cardinality(T) + Cardinality(C) <= Cardinality(Requests)
<1>. DEFINE T == {f[r] : r \in S}
            g == [r \in S |-> f[r]]
<1>1. IsFiniteSet(S) /\ IsFiniteSet(C) /\ Cardinality(S) \in Nat /\ Cardinality(C) \in Nat
  BY FiniteRequests
<1>2. g \in Surjection(S, T)
  BY DEF Surjection
<1>. HIDE DEF g
<1>3. IsFiniteSet(T) /\ Cardinality(T) <= Cardinality(S)
  BY <1>1, <1>2, FS_Surjection
<1>. HIDE DEF T
<1>4. Cardinality(S \cap C) = 0
  BY FS_EmptySet
<1>5. Cardinality(S \cup C) = Cardinality(S) + Cardinality(C) - Cardinality(S \cap C)
  BY <1>1, FS_Union
<1>6. Cardinality(S \cup C) <= Cardinality(Requests)
  BY FiniteRequests
<1>7. Cardinality(T) \in Nat /\ Cardinality(Requests) \in Nat
  BY <1>3, FiniteRequests, FS_CardinalityType
<1>8. Cardinality(T) + Cardinality(C) <= Cardinality(Requests)
  BY <1>1, <1>3, <1>4, <1>5, <1>6, <1>7
<1>. QED  BY <1>3, <1>8 DEF T

\* When nothing is pending, all that can become so is held by a request that is not creating.
LEMMA FewAtFirst ==
    ASSUME NEW u \in Users, PendingFor(u) = {}
    PROVE  Few(u)
<1>. DEFINE f == [r \in Requests |-> req[r].id]
<1>1. Revivers(u) \in SUBSET Requests /\ Creators(u) \in SUBSET Requests /\ Revivers(u) \cap Creators(u) = {}
  BY DEF Revivers, Creators, Reviving
<1>2. Live(u) = {f[r] : r \in Revivers(u)}
  BY <1>1 DEF Live
<1>. HIDE DEF f
<1>. QED  BY <1>1, <1>2, Room DEF Few

LEMMA FewAfterwards ==
    ASSUME NEW u \in Users, PendingFor(u)' = {}
    PROVE  Few(u)'
<1>0. PICK f, S, C, L : /\ f = [r \in Requests |-> req'[r].id]
                        /\ S = Revivers(u)' /\ C = Creators(u)' /\ L = Live(u)'
  OBVIOUS
<1>1. S \in SUBSET Requests /\ C \in SUBSET Requests /\ S \cap C = {}
  BY <1>0 DEF Revivers, Creators, Reviving
<1>2. L = {req'[r].id : r \in S}
  BY <1>0 DEF Live
<1>3. L = {f[r] : r \in S}
  BY <1>0, <1>1, <1>2
<1>4. IsFiniteSet(L) /\ Cardinality(L) + Cardinality(C) <= Cardinality(Requests)
  BY <1>1, <1>3, Room
<1>. QED  BY <1>0, <1>4 DEF Few

LEMMA FewerStayFew ==
    ASSUME NEW u \in Users, Few(u), Live(u)' \subseteq Live(u), Creators(u)' \subseteq Creators(u)
    PROVE  Few(u)'
<1>1. IsFiniteSet(Live(u)') /\ Cardinality(Live(u)') <= Cardinality(Live(u))
  BY FS_Subset DEF Few
<1>2. Creators(u) \subseteq Requests
  BY DEF Creators
<1>3. Cardinality(Creators(u)') <= Cardinality(Creators(u))
  BY <1>2, FiniteRequests, FS_Subset
<1>4. /\ Cardinality(Live(u)') \in Nat /\ Cardinality(Live(u)) \in Nat
      /\ Cardinality(Creators(u)') \in Nat /\ Cardinality(Creators(u)) \in Nat
      /\ Cardinality(Requests) \in Nat
  BY <1>1, <1>2, FiniteRequests, FS_CardinalityType DEF Few
<1>. QED  BY <1>1, <1>3, <1>4 DEF Few

LEMMA CreateKeepsFew ==
    ASSUME NEW u \in Users, Few(u), NEW i, NEW r \in Creators(u),
           Live(u)' \subseteq Live(u) \cup {i}, Creators(u)' \subseteq Creators(u) \ {r}
    PROVE  Few(u)'
<1>1. IsFiniteSet(Live(u) \cup {i}) /\ Cardinality(Live(u) \cup {i}) <= Cardinality(Live(u)) + 1
  <2>1. IsFiniteSet(Live(u)) /\ Cardinality(Live(u)) \in Nat
    BY FS_CardinalityType DEF Few
  <2>2. IsFiniteSet(Live(u) \cup {i}) /\ Cardinality(Live(u) \cup {i}) =
            IF i \in Live(u) THEN Cardinality(Live(u)) ELSE Cardinality(Live(u)) + 1
    BY <2>1, FS_AddElement
  <2>. QED  BY <2>1, <2>2
<1>2. IsFiniteSet(Live(u)') /\ Cardinality(Live(u)') <= Cardinality(Live(u) \cup {i})
  BY <1>1, FS_Subset
<1>3. Creators(u) \subseteq Requests
  BY DEF Creators
<1>4. Cardinality(Creators(u) \ {r}) = Cardinality(Creators(u)) - 1
  BY <1>3, FiniteRequests, FS_RemoveElement
<1>5. Cardinality(Creators(u)') <= Cardinality(Creators(u) \ {r})
  BY <1>3, FiniteRequests, FS_Subset
<1>6. /\ Cardinality(Live(u)') \in Nat /\ Cardinality(Live(u)) \in Nat /\ Cardinality(Live(u) \cup {i}) \in Nat
      /\ Cardinality(Creators(u)') \in Nat /\ Cardinality(Creators(u)) \in Nat
      /\ Cardinality(Creators(u) \ {r}) \in Nat /\ Cardinality(Requests) \in Nat
  BY <1>1, <1>2, <1>3, FiniteRequests, FS_CardinalityType DEF Few
<1>. QED  BY <1>1, <1>2, <1>4, <1>5, <1>6 DEF Few

\* Only checkNotInvited makes a creator, and it has found nothing pending.
LEMMA NewCreators ==
    ASSUME IInv, NEW r \in Requests, Begin(r) \/ GoOn(r), req'[r].at = "invite.create"
    PROVE  PendingFor(req[r].user) = {} /\ UNCHANGED invite /\ req'[r].user = req[r].user
           /\ req[r].user \in Users /\ req[r].at # "save"
<1>0. TypeOK /\ Held(r) /\ req[r] \in ReqType
  BY DEF IInv, TypeOK
<1>1. ~Answer(r)
  BY <1>0, AnswerHolds, IdleType
<1>2. \A i, row : ~SaveNext(r, i, row) /\ ~Hold(r, i, row, "accept.user")
  BY <1>0 DEF SaveNext, Hold, TypeOK, ReqType
<1>3. \A p \in Places \ {"invite.create"} : ~Go(r, p)
  BY <1>0 DEF Go, TypeOK, ReqType
<1>4. ~InviteMember(r)
  <2>1. InviteMember(r) => req'[r].at \in {"invite.member", "invite.pending"}
    BY <1>0 DEF InviteMember, TypeOK, ReqType
  <2>. QED  BY <2>1
<1>5. ~ListMyInvitations(r)
  BY <1>0 DEF ListMyInvitations, TypeOK, ReqType
<1>6. ~NextOfMine(r)
  <2>1. ASSUME NEW x, req' = [req EXCEPT ![r].rest = @ \ {x},
                                         ![r].at   = IF IsExpired(x[2]) THEN "save" ELSE "mine",
                                         ![r].id   = x[1],
                                         ![r].row  = With(x[2], "expired")]
        PROVE  FALSE
    <3>1. req'[r].at \in {"save", "mine"}
      BY <1>0, <2>1 DEF TypeOK, ReqType
    <3>. QED  BY <3>1
  <2>. QED  BY <1>1, <2>1 DEF NextOfMine
<1>7. CheckNotInvited(r)
  BY <1>1, <1>2, <1>3, <1>4, <1>5, <1>6
  DEF Begin, GoOn, ResendInvitation, CancelInvitation, ViewInvitation, AcceptInvitation,
      DeclineInvitation, CheckNotMember, CreateInvitation, FindInvitee,
      FindMember, CreateMember, MemberExists, UpdateInvitation, Fail, Places
<1>. QED  BY <1>0, <1>1, <1>7 DEF CheckNotInvited, Go, TypeOK, ReqType, Tables, Held

\* Only a resend makes a reviver, of an invitation that it has read as pending.
LEMMA NewRevivers ==
    ASSUME IInv, NEW r \in Requests, Begin(r) \/ GoOn(r), Reviving(r)'
    PROVE  UNCHANGED invite /\ req'[r].id \in PendingFor(req'[r].row.to)
<1>0. TypeOK /\ req[r] \in ReqType
  BY DEF IInv, TypeOK
<1>1. ResendInvitation(r)
  BY RowsToSaveAreClosed DEF Reviving
<1>2. PICK i \in Existing : /\ invite[i].status = "pending"
                            /\ \/ SaveNext(r, i, With(invite[i], "expired"))
                               \/ \E k \in Tokens : SaveNext(r, i, [invite[i] EXCEPT !.token = k])
  BY <1>1 DEF ResendInvitation
<1>3. req'[r].id = i /\ req'[r].row.to = invite[i].to
  BY <1>0, <1>2, RowHeld DEF SaveNext, With, TypeOK, ReqType, Row
<1>. QED  BY <1>1, <1>2, <1>3 DEF ResendInvitation, PendingFor

LEMMA FewStep ==
    ASSUME IInv, FewInv, NEW r \in Requests, Begin(r) \/ GoOn(r), NEW u \in Users
    PROVE  Few(u)'
<1>0. TypeOK /\ Held(r) /\ req[r] \in ReqType /\ \A s \in Requests \ {r} : req'[s] = req[s]
  BY OthersWait DEF IInv, TypeOK
<1>1. CASE r \in Creators(u)'
  <2>1. PendingFor(u) = {} /\ UNCHANGED invite
    BY <1>1, NewCreators DEF Creators
  <2>2. PendingFor(u)' = {}
    BY <2>1 DEF PendingFor, Existing
  <2>. QED  BY <2>2, FewAfterwards
<1>2. CASE r \notin Creators(u)'
  <2>1. Creators(u)' \subseteq Creators(u) \ {r}
    BY <1>0, <1>2 DEF Creators
  <2>2. Revivers(u)' \subseteq Revivers(u) \cup {r} /\ \A s \in Revivers(u)' \ {r} : req'[s].id = req[s].id
    BY <1>0 DEF Revivers, Reviving
  <2>3. ASSUME UNCHANGED invite PROVE Few(u)'
    <3>1. PendingFor(u)' = PendingFor(u)
      BY <2>3 DEF PendingFor, Existing
    <3>2. r \in Revivers(u)' => req'[r].id \in PendingFor(u)
      BY NewRevivers DEF Revivers
    <3>3. Live(u)' \subseteq Live(u)
      BY <2>2, <3>1, <3>2 DEF Live
    <3>. QED  BY <2>1, <3>3, FewerStayFew DEF FewInv
  <2>4. ASSUME invite' # invite PROVE r \notin Revivers(u)'
    BY <2>4, NewRevivers DEF Revivers
  <2>5. CASE invite' # invite /\ CreateInvitation(r)
    <3>1. PICK i \in Invites \ Existing, k \in Tokens, v \in Users :
             /\ invite' = [invite EXCEPT ![i] = [to |-> v, token |-> k, status |-> "pending"]]
             /\ v = req[r].user
      BY <1>0, <2>5 DEF CreateInvitation, Held
    <3>2. PendingFor(u)' \subseteq PendingFor(u) \cup {i} /\ (u # v => i \notin PendingFor(u)')
      BY <1>0, <3>1 DEF PendingFor, Existing, TypeOK
    <3>3. Live(u)' \subseteq Live(u) \cup {i} /\ (u # v => Live(u)' \subseteq Live(u) \cup (PendingFor(u)' \ {i}))
      BY <2>2, <2>4, <2>5, <3>2 DEF Live
    <3>4. CASE u = v
      <4>1. r \in Creators(u)
        BY <2>5, <3>1, <3>4 DEF Creators, CreateInvitation
      <4>. QED  BY <2>1, <3>3, <4>1, CreateKeepsFew DEF FewInv
    <3>5. CASE u # v
      <4>1. Live(u)' \subseteq Live(u)
        BY <3>2, <3>3, <3>5 DEF Live
      <4>. QED  BY <2>1, <4>1, FewerStayFew DEF FewInv
    <3>. QED  BY <3>4, <3>5
  <2>6. CASE invite' # invite /\ UpdateInvitation(r)
    <3>. DEFINE i == req[r].id
    <3>1. /\ i \in Existing /\ req[r].row \in Row /\ req[r].row.to = invite[i].to
          /\ invite' = [invite EXCEPT ![i] = req[r].row] /\ req[r].at = "save"
      BY <1>0, <2>6 DEF Held, UpdateInvitation
    <3>2. PendingFor(u)' \subseteq PendingFor(u) \cup {i}
      BY <1>0, <3>1 DEF PendingFor, Existing, TypeOK
    <3>3. i \in PendingFor(u)' => r \in Revivers(u)
      BY <1>0, <3>1 DEF PendingFor, Existing, TypeOK, Revivers, Reviving
    <3>4. Live(u)' \subseteq Live(u)
      BY <2>2, <2>4, <2>6, <3>2, <3>3 DEF Live
    <3>. QED  BY <2>1, <3>4, FewerStayFew DEF FewInv
  <2>7. CASE invite' # invite /\ ~CreateInvitation(r) /\ ~UpdateInvitation(r)
    <3>1. invite' = invite
      BY <2>7, Zenon
      DEF Begin, GoOn, Tables, InviteMember, ResendInvitation, CancelInvitation, ViewInvitation,
          ListMyInvitations, AcceptInvitation, DeclineInvitation, CheckNotMember, CheckNotInvited,
          NextOfMine, FindInvitee, FindMember, CreateMember, MemberExists, Fail
    <3>. QED  BY <2>7, <3>1
  <2>. QED  BY <2>3, <2>5, <2>6, <2>7
<1>. QED  BY <1>1, <1>2

\* However many requests invite and resend at once, whatever fails, and whoever closes an
\* invitation in between: a person never has more pending ones than there are requests.
THEOREM PendingStaysBounded == Spec => []PendingBounded
<1>1. Init => FewInv
  <2>1. Init => \A u \in Users : PendingFor(u) = {}
    BY DEF Init, PendingFor, Existing
  <2>. QED  BY <2>1, FewAtFirst DEF FewInv
<1>2. IInv /\ FewInv /\ [Next]_vars => FewInv'
  <2>. SUFFICES ASSUME IInv, FewInv, [Next]_vars, NEW u \in Users PROVE Few(u)'
    BY DEF FewInv
  <2>1. CASE req' = req /\ invite' = invite
    <3>1. Live(u)' = Live(u) /\ Creators(u)' = Creators(u)
      BY <2>1 DEF Live, Creators, PendingFor, Existing, Revivers, Reviving
    <3>. QED  BY <3>1 DEF FewInv, Few
  <2>. QED  BY <2>1, FewStep, RequestOrNot
<1>3. FewInv => PendingBounded
  <2>. SUFFICES ASSUME FewInv, NEW u \in Users
                PROVE  Cardinality(PendingFor(u)) <= Cardinality(Requests)
    BY DEF PendingBounded
  <2>1. Few(u) /\ PendingFor(u) \subseteq Live(u) /\ Creators(u) \subseteq Requests
    BY DEF FewInv, Live, Creators
  <2>2. IsFiniteSet(PendingFor(u)) /\ Cardinality(PendingFor(u)) <= Cardinality(Live(u))
    BY <2>1, FS_Subset DEF Few
  <2>3. /\ Cardinality(PendingFor(u)) \in Nat /\ Cardinality(Live(u)) \in Nat
        /\ Cardinality(Creators(u)) \in Nat /\ Cardinality(Requests) \in Nat
    BY <2>1, <2>2, FiniteRequests, FS_CardinalityType DEF Few
  <2>. QED  BY <2>1, <2>2, <2>3 DEF Few
<1>. QED  BY <1>1, <1>2, <1>3, InvariantHolds, PTL DEF Spec
=============================================================================
