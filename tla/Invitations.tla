---------------------------- MODULE Invitations ----------------------------
(***************************************************************************)
(* Invitations to one workspace: the invitation methods of WorkspaceService *)
(* and WorkspaceInvitationsRepository.                                     *)
(*                                                                         *)
(* No method uses a transaction.  A method reads the invitation, awaits    *)
(* other statements, and ends with updateInvitation, which writes every    *)
(* column of the row it has read: status, token and all.  Each statement   *)
(* is a step; a request keeps the row it has read and the row it is going  *)
(* to write.  The permission and role look-ups that precede a method only  *)
(* refuse it and are left out.                                             *)
(***************************************************************************)
EXTENDS FiniteSets, Naturals

CONSTANTS
    Users,           \* people, each with one e-mail address
    Registered,      \* those with an account at the start
    Owners,          \* those who are members at the start
    Invites,         \* ids of workspace_invitations rows
    Tokens,          \* tokens that generateInviteToken can return
    Requests,        \* concurrent requests
    Routes,          \* the endpoints that clients call
    HasAcceptedBy,   \* the table has the column accepted_by, which no migration adds
    MayFail,         \* whether any statement may fail
    None             \* no row, no user, no invitation

ASSUME InvitationConstants ==
    /\ Owners \subseteq Registered /\ Registered \subseteq Users
    /\ HasAcceptedBy \in BOOLEAN /\ MayFail \in BOOLEAN
    /\ IsFiniteSet(Requests)
    /\ None \notin Users \cup Invites \cup Tokens

Statuses == {"pending", "accepted", "expired", "declined", "cancelled"}
\* expiresAt is always written together with the token, so the token stands for it
Row      == [to: Users, token: Tokens, status: Statuses]
ASSUME NoneIsNoRow == None \notin Row

VARIABLES
    invite,     \* workspace_invitations
    users,      \* people with an account
    members,    \* people with a workspace_members row (unique per user)
    issued,     \* tokens that have been generated
    stored,     \* ghost: tokens that have been in the table, and so in a link sent by mail
    lapsed,     \* tokens whose expiresAt has passed
    req,        \* per request: where it is and what it holds
    via         \* ghost: per user, the invitation that admitted them last

vars == <<invite, users, members, issued, stored, lapsed, req, via>>

Places == {"idle", "invite.member", "invite.pending", "invite.create", "accept.user",
           "accept.member", "accept.create", "save", "mine"}
ReqType == [at: Places, user: Users \cup {None}, id: Invites \cup {None},
            row: Row \cup {None}, rest: SUBSET (Invites \X Row)]
Idle    == [at |-> "idle", user |-> None, id |-> None, row |-> None, rest |-> {}]

-----------------------------------------------------------------------------
Start(r, route)  == route \in Routes /\ req[r] = Idle
Go(r, place)     == req' = [req EXCEPT ![r].at = place]
\* The method returns, or throws to the controller.
Answer(r)        == req' = [req EXCEPT ![r] = Idle]
\* Go on to updateInvitation with this row.
SaveNext(r, i, row) ==
    req' = [req EXCEPT ![r].at = "save", ![r].id = i, ![r].row = row]
Hold(r, i, row, place) ==
    req' = [req EXCEPT ![r].at = place, ![r].user = row.to, ![r].id = i, ![r].row = row]

With(row, status) == [row EXCEPT !.status = status]
IsExpired(row)    == row.token \in lapsed
Closed(row)       == row.status = "expired" \/ IsExpired(row)
Existing          == {i \in Invites : invite[i] # None}
Tables            == <<invite, users, members, issued, stored, lapsed, via>>

(* inviteMember: findByEmail, findByUserAndWorkspace if there is a user,   *)
(* findByWorkspaceAndEmail(..., 'pending'), INSERT.                        *)
InviteMember(r) ==
    \E u \in Users :
        /\ Start(r, "invite")
        /\ req' = [req EXCEPT ![r].at = IF u \in users THEN "invite.member" ELSE "invite.pending",
                              ![r].user = u]
        /\ UNCHANGED Tables

CheckNotMember(r) ==
    /\ req[r].at = "invite.member"
    /\ IF req[r].user \in members THEN Answer(r) ELSE Go(r, "invite.pending")
    /\ UNCHANGED Tables

PendingFor(u) == {i \in Existing : invite[i].to = u /\ invite[i].status = "pending"}

\* A slip: an invitation that the invitee has let lapse does not count.
CheckNoLiveInvitation(r) ==
    /\ req[r].at = "invite.pending"
    /\ IF \E i \in PendingFor(req[r].user) : ~IsExpired(invite[i])
       THEN Answer(r) ELSE Go(r, "invite.create")
    /\ UNCHANGED Tables

CheckNotInvited(r) ==
    /\ req[r].at = "invite.pending"
    /\ IF PendingFor(req[r].user) # {} THEN Answer(r) ELSE Go(r, "invite.create")
    /\ UNCHANGED Tables

\* A slip: the invitation is recorded without a token.
CreateTokenless(r) ==
    /\ req[r].at = "invite.create"
    /\ \E i \in Invites \ Existing :
          invite' = [invite EXCEPT ![i] = [to |-> req[r].user, token |-> None, status |-> "pending"]]
    /\ Answer(r)
    /\ UNCHANGED <<users, members, issued, stored, lapsed, via>>

CreateInvitation(r) ==
    /\ req[r].at = "invite.create"
    /\ \E i \in Invites \ Existing, k \in Tokens \ issued :
          /\ invite' = [invite EXCEPT ![i] = [to |-> req[r].user, token |-> k, status |-> "pending"]]
          /\ issued' = issued \cup {k}
          /\ stored' = stored \cup {k}
    /\ Answer(r)
    /\ UNCHANGED <<users, members, lapsed, via>>

\* A slip: the link that has been sent is sent again.
ResendSameToken(r) ==
    \E i \in Existing :
        /\ Start(r, "resend")
        /\ invite[i].status = "pending"
        /\ SaveNext(r, i, IF IsExpired(invite[i]) THEN With(invite[i], "expired") ELSE invite[i])
        /\ UNCHANGED Tables

(* resendInvitation: findById, then updateInvitation with a new token, or  *)
(* with status expired.                                                    *)
ResendInvitation(r) ==
    \E i \in Existing :
        /\ Start(r, "resend")
        /\ invite[i].status = "pending"
        /\ \/ /\ IsExpired(invite[i])
              /\ SaveNext(r, i, With(invite[i], "expired"))
              /\ UNCHANGED issued
           \/ /\ ~IsExpired(invite[i])
              /\ \E k \in Tokens \ issued :
                    /\ SaveNext(r, i, [invite[i] EXCEPT !.token = k])
                    /\ issued' = issued \cup {k}
        /\ UNCHANGED <<invite, users, members, stored, lapsed, via>>

\* cancelInvitation looks at no status.
CancelInvitation(r) ==
    \E i \in Existing :
        /\ Start(r, "cancel")
        /\ SaveNext(r, i, With(invite[i], "cancelled"))
        /\ UNCHANGED Tables

(* getInvitationByToken: the only one it changes is one past its date.     *)
ViewInvitation(r) ==
    \E i \in Existing :
        /\ Start(r, "view")
        /\ invite[i].status \notin {"accepted", "declined"} /\ Closed(invite[i])
        /\ SaveNext(r, i, With(invite[i], "expired"))
        /\ UNCHANGED Tables

(* getMyInvitations: the user's pending rows, one after the other.         *)
ListMyInvitations(r) ==
    \E u \in users :
        /\ Start(r, "mine")
        /\ PendingFor(u) # {}
        /\ req' = [req EXCEPT ![r].at = "mine", ![r].rest = {<<i, invite[i]>> : i \in PendingFor(u)}]
        /\ UNCHANGED Tables

NextOfMine(r) ==
    /\ req[r].at = "mine"
    /\ \/ req[r].rest = {} /\ Answer(r)
       \/ \E x \in req[r].rest :
             req' = [req EXCEPT
                 ![r].rest = @ \ {x},
                 ![r].at   = IF IsExpired(x[2]) THEN "save" ELSE "mine",
                 ![r].id   = x[1],
                 ![r].row  = With(x[2], "expired")]
    /\ UNCHANGED Tables

(* acceptInvitation: findByToken, findByEmail, findByUserAndWorkspace,      *)
(* INSERT the member, updateInvitation.                                    *)
AcceptInvitation(r) ==
    \E i \in Existing :
        /\ Start(r, "accept")
        /\ invite[i].status # "accepted"
        /\ IF Closed(invite[i]) THEN SaveNext(r, i, With(invite[i], "expired"))
                                ELSE Hold(r, i, invite[i], "accept.user")
        /\ UNCHANGED Tables

\* A slip: nobody looks whether there is an account.
FindNobody(r) ==
    /\ req[r].at = "accept.user"
    /\ Go(r, "accept.member")
    /\ UNCHANGED Tables

\* Somebody without an account is refused, with data to register or without: the
\* service that would register them is null.
FindInvitee(r) ==
    /\ req[r].at = "accept.user"
    /\ IF req[r].user \in users THEN Go(r, "accept.member") ELSE Answer(r)
    /\ UNCHANGED Tables

FindMember(r) ==
    /\ req[r].at = "accept.member"
    /\ IF req[r].user \in members
       THEN SaveNext(r, req[r].id, With(req[r].row, "expired"))
       ELSE Go(r, "accept.create")
    /\ UNCHANGED Tables

CreateMember(r) ==
    /\ req[r].at = "accept.create"
    /\ req[r].user \notin members
    /\ members' = members \cup {req[r].user}
    /\ via' = [via EXCEPT ![req[r].user] = req[r].id]
    /\ SaveNext(r, req[r].id, With(req[r].row, "accepted"))
    /\ UNCHANGED <<invite, users, issued, stored, lapsed>>

\* UNIQUE(workspace_id, user_id)
MemberExists(r) ==
    /\ req[r].at = "accept.create"
    /\ req[r].user \in members
    /\ Answer(r)
    /\ UNCHANGED Tables

DeclineInvitation(r) ==
    \E i \in Existing :
        /\ Start(r, "decline")
        /\ invite[i].status # "accepted"
        /\ SaveNext(r, i, With(invite[i], IF Closed(invite[i]) THEN "expired" ELSE "declined"))
        /\ UNCHANGED Tables

\* updateInvitation sets accepted_by, whatever the new status.
UpdateInvitation(r) ==
    /\ req[r].at = "save"
    /\ HasAcceptedBy
    /\ invite' = [invite EXCEPT ![req[r].id] = req[r].row]
    /\ stored' = stored \cup {req[r].row.token}
    /\ IF req[r].rest = {} THEN Answer(r) ELSE Go(r, "mine")
    /\ UNCHANGED <<users, members, issued, lapsed, via>>

\* A statement fails and the method throws; what it has written stays.
Fail(r) ==
    /\ req[r].at # "idle"
    /\ MayFail \/ (req[r].at = "save" /\ ~HasAcceptedBy)
    /\ Answer(r)
    /\ UNCHANGED Tables

\* removeMember, at its DELETE
RemoveMember(u) ==
    /\ "remove" \in Routes
    /\ u \in members \ Owners
    /\ members' = members \ {u}
    /\ UNCHANGED <<invite, users, issued, stored, lapsed, req, via>>

\* A user registers without an invitation.
Register(u) ==
    /\ "register" \in Routes
    /\ u \notin users
    /\ users' = users \cup {u}
    /\ UNCHANGED <<invite, members, issued, stored, lapsed, req, via>>

\* Seven days pass.
Lapse(k) ==
    /\ k \in issued \ lapsed
    /\ lapsed' = lapsed \cup {k}
    /\ UNCHANGED <<invite, users, members, issued, stored, req, via>>

-----------------------------------------------------------------------------
Init ==
    /\ invite = [i \in Invites |-> None]
    /\ users = Registered
    /\ members = Owners
    /\ issued = {} /\ stored = {} /\ lapsed = {}
    /\ req = [r \in Requests |-> Idle]
    /\ via = [u \in Users |-> None]

Begin(r) ==
    \/ InviteMember(r) \/ ResendInvitation(r) \/ CancelInvitation(r) \/ ViewInvitation(r)
    \/ ListMyInvitations(r) \/ AcceptInvitation(r) \/ DeclineInvitation(r)

GoOn(r) ==
    \/ CheckNotMember(r) \/ CheckNotInvited(r) \/ CreateInvitation(r)
    \/ NextOfMine(r)
    \/ FindInvitee(r) \/ FindMember(r) \/ CreateMember(r) \/ MemberExists(r)
    \/ UpdateInvitation(r) \/ Fail(r)

Next ==
    \/ \E r \in Requests : Begin(r) \/ GoOn(r)
    \/ \E u \in Users : RemoveMember(u) \/ Register(u)
    \/ \E k \in Tokens : Lapse(k)

Spec == Init /\ [][Next]_vars

-----------------------------------------------------------------------------
(* Properties.                                                             *)

\* The type of every variable.
TypeOK ==
    /\ invite \in [Invites -> Row \cup {None}]
    /\ users \subseteq Users /\ members \subseteq Users
    /\ lapsed \subseteq Tokens /\ issued \subseteq Tokens /\ stored \subseteq Tokens
    /\ req \in [Requests -> ReqType]
    /\ via \in [Users -> Invites \cup {None}]

\* Two requests can find no pending invitation at once and both send one, and a resend that
\* has read its row can bring one back that has been closed since; but there are never more
\* than there are requests, for all but those on their way have been seen.
PendingBounded == \A u \in Users : Cardinality(PendingFor(u)) <= Cardinality(Requests)

\* A resend that has read a pending row writes it back as pending though somebody may have
\* accepted, declined or cancelled it meanwhile; what it brings back then is reached only
\* by a new link, and a link that somebody has used or got before stays dead.
ReopenedAfresh ==
    [][\A i \in Existing :
          invite[i].status # "pending" /\ invite'[i].status = "pending"
              => invite'[i].token \notin stored]_vars

\* A member other than the first ones has been invited, and has an account.
MembersWereInvited ==
    \A u \in members \ Owners :
        u \in users /\ via[u] \in Existing /\ invite[via[u]].to = u

\* "Invitation already accepted": what has admitted a member does not admit one again.
AdmitsOnce ==
    [][\A u \in members' \ members : \A w \in Users : via[w] # via'[u]]_vars
=============================================================================
