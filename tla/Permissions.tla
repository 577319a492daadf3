---------------------------- MODULE Permissions ----------------------------
(***************************************************************************)
(* Members, roles and permissions of one workspace: checkPermission and    *)
(* the member and role methods of WorkspaceService, the requirePermission  *)
(* middleware in front of them, PermissionCache, and the save of           *)
(* BaseRepository that writes back a whole row read earlier.               *)
(*                                                                         *)
(* Each SQL statement and each piece of code between two awaits that       *)
(* touches the cache is a step.  Permissions on single accounts, statuses  *)
(* of members and descriptions of roles are left out: checkPermission      *)
(* looks at none of them.  Every role has a name of its own, so a name is  *)
(* an id.                                                                  *)
(***************************************************************************)
CONSTANTS
    Users,
    Owner,          \* workspaces.owner_id
    Ids,            \* ids of workspace_members rows
    CreatorId,      \* the row of the creator, is_default
    Roles,          \* ids of workspace_roles rows
    OwnerRole,      \* the system role Owner
    Perms,          \* permissions, "*" and the wildcards of resources among them
    Bodies,         \* the permission lists that clients send
    FirstMembers,   \* the members at the start, by id
    FirstRoles,     \* the roles at the start, by id
    Requests,       \* concurrent requests
    Routes,         \* [Requests -> the operations that a client asks for; "invite": that members join]
    None,           \* no row, no id
    Miss            \* no entry in the cache

MemberRow == [user: Users, roles: SUBSET Roles, default: BOOLEAN]
Creator   == [user |-> Owner, roles |-> {OwnerRole}, default |-> TRUE]

Ops == {"use", "updateRole", "createRole", "deleteRole", "assignRole", "updateMember", "removeMember"}

ASSUME PermissionConstants ==
    /\ "*" \in Perms /\ Bodies \subseteq SUBSET Perms
    /\ Owner \in Users /\ CreatorId \in Ids /\ OwnerRole \in Roles
    /\ FirstMembers \in [Ids -> MemberRow \cup {None}] /\ FirstMembers[CreatorId] = Creator
    /\ \A i \in Ids \ {CreatorId} :
          FirstMembers[i] # None => ~FirstMembers[i].default /\ FirstMembers[i].user # Owner
    /\ FirstRoles \in [Roles -> (SUBSET Perms) \cup {None}] /\ FirstRoles[OwnerRole] = {"*"}
    /\ None \notin MemberRow \cup Ids \cup Roles \cup Users
    /\ \A perms \in SUBSET Perms : None # perms /\ Miss # perms

VARIABLES
    member,     \* workspace_members
    role,       \* workspace_roles: the permissions of each
    invited,    \* per user, the role of a pending invitation
    cache,      \* PermissionCache of the process, per user
    req,        \* per request: where it is and what it holds
    born,       \* ghost: ids that have been generated
    had,        \* ghost: per user, the roles ever assigned
    gave        \* ghost: per role, the permissions it ever had

vars == <<member, role, invited, cache, req, born, had, gave>>

Places == {"idle", "member", "lookup", "roles", "fill", "target", "role", "count",
           "exists", "update", "insert", "delete", "forget"}
ReqType == [at: Places, gate: {"middleware", "service"}, op: Ops, user: Users \cup {None},
            id: Ids \cup {None}, role: Roles \cup {None}, body: SUBSET Perms,
            held: SUBSET Roles, perms: SUBSET Perms, row: MemberRow \cup {None}]
Idle == [at |-> "idle", gate |-> "middleware", op |-> "use", user |-> None, id |-> None,
         role |-> None, body |-> {}, held |-> {}, perms |-> {}, row |-> None]

-----------------------------------------------------------------------------
(* Permissions.                                                            *)

Needs == [use |-> "transaction:create", updateRole |-> "roles:edit", createRole |-> "roles:create",
          deleteRole |-> "roles:delete", assignRole |-> "members:edit",
          updateMember |-> "members:edit", removeMember |-> "members:delete"]
Wildcard(op) == IF op = "use" THEN "transaction:*"
                ELSE IF op \in {"updateRole", "createRole", "deleteRole"} THEN "roles:*" ELSE "members:*"

\* checkPermissionFromArray, hasPermissionFromArray
Allows(perms, op) == perms \cap {"*", Needs[op], Wildcard(op)} # {}

\* calculateUserPermissions of the rows that SELECT ... WHERE id = ANY(ids) returns
Live == {x \in Roles : role[x] # None}
Calculate(ids) ==
    LET all == UNION {role[x] : x \in ids \cap Live}
    IN  IF "*" \in all THEN {"*"} ELSE all

RowsOf(u)    == {i \in Ids : member[i] # None /\ member[i].user = u}
RoleIdsOf(u) == UNION {member[i].roles : i \in RowsOf(u)}
\* What a check that waits for nobody would find.
PermsOf(u)   == IF u = Owner THEN {"*"} ELSE Calculate(RoleIdsOf(u))

-----------------------------------------------------------------------------
Go(r, q)  == req' = [req EXCEPT ![r] = q]
To(r, p)  == Go(r, [req[r] EXCEPT !.at = p])
\* The method returns, or throws to the controller.
Answer(r) == Go(r, Idle)
Tables    == <<member, role, invited, born>>
Same      == UNCHANGED <<Tables, cache>>

\* The permission is there: the middleware calls the controller, whose method asks
\* checkPermission again; that done, the method begins.
Admit(q) ==
    LET p == [q EXCEPT !.held = {}, !.perms = {}]
    IN  IF q.gate = "middleware"
        THEN IF q.op = "use" THEN Idle ELSE [p EXCEPT !.gate = "service", !.at = "member"]
        ELSE [p EXCEPT !.at = CASE q.op \in {"updateRole", "deleteRole"} -> "role"
                                [] q.op = "createRole" -> "insert"
                                [] OTHER -> "target"]
Judge(q, perms) == IF Allows(perms, q.op) THEN Admit(q) ELSE Idle

\* What a request to op can name: a member, a role, permissions.
IdsFor(op)    == IF op \in {"assignRole", "updateMember", "removeMember"} THEN Ids ELSE {None}
RolesFor(op)  == CASE op \in {"use", "removeMember"} -> {None}
                   [] op = "updateMember"            -> Roles \cup {None}
                   [] op = "createRole"              -> Roles \ born
                   [] OTHER                          -> Roles
BodiesFor(op) == IF op \in {"updateRole", "createRole"} THEN Bodies ELSE {{}}

(* requirePermission up to its first await: a request comes in.            *)
Accept(r) ==
    \E op \in Routes[r] \cap Ops, u \in Users :
    \E i \in IdsFor(op), x \in RolesFor(op), b \in BodiesFor(op) :
        LET q == [Idle EXCEPT !.at = "member", !.op = op, !.user = u, !.id = i, !.role = x, !.body = b]
        IN  /\ req[r] = Idle
            /\ Go(r, IF cache[u] = Miss THEN q ELSE Judge(q, cache[u]))
            /\ Same

\* SELECT the member of the user; a user who is no member or has no role is refused.
\* (updateMember selects the member once more before it calls checkPermission.)
ReadMember(r) ==
    LET q == req[r]
    IN  /\ q.at = "member"
        /\ \/ /\ q.user = Owner
              /\ Go(r, IF q.gate = "middleware" THEN [q EXCEPT !.at = "fill", !.perms = {"*"}]
                                                ELSE Admit(q))
           \/ /\ q.user # Owner /\ RoleIdsOf(q.user) = {}
              /\ Answer(r)
           \/ /\ q.user # Owner /\ RoleIdsOf(q.user) # {}
              /\ Go(r, [q EXCEPT !.at = IF q.gate = "middleware" THEN "roles" ELSE "lookup",
                                 !.held = RoleIdsOf(q.user)])
        /\ Same

\* checkPermission looks into the cache once it has the member.
LookUp(r) ==
    LET hit == cache[req[r].user]
    IN  /\ req[r].at = "lookup"
        /\ IF hit = Miss THEN To(r, "roles") ELSE Go(r, Judge(req[r], hit))
        /\ Same

ReadRoles(r) ==
    /\ req[r].at = "roles"
    /\ Go(r, [req[r] EXCEPT !.at = "fill", !.held = {}, !.perms = Calculate(req[r].held)])
    /\ Same

\* A slip: the key of the entry does not name the user.
FillAll(r) ==
    /\ req[r].at = "fill"
    /\ cache' = [u \in Users |-> req[r].perms]
    /\ Go(r, Judge(req[r], req[r].perms))
    /\ UNCHANGED Tables

\* The middleware does not cache an empty list, checkPermission does.
FillCache(r) ==
    /\ req[r].at = "fill"
    /\ cache' = IF req[r].perms = {} /\ req[r].gate = "middleware" THEN cache
                ELSE [cache EXCEPT ![req[r].user] = req[r].perms]
    /\ Go(r, Judge(req[r], req[r].perms))
    /\ UNCHANGED Tables

-----------------------------------------------------------------------------
(* The methods.                                                            *)

\* updateMember need not name a role.
AfterTarget(q) ==
    IF q.op = "removeMember" THEN "delete" ELSE IF q.role # None THEN "role" ELSE "exists"

\* A slip: the creator is a member like any other.
FindAnyTarget(r) ==
    LET row == member[req[r].id]
    IN  /\ req[r].at = "target"
        /\ IF row = None THEN Answer(r)
           ELSE Go(r, [req[r] EXCEPT !.row = row, !.at = AfterTarget(req[r])])
        /\ Same

\* assignRole, updateMember, removeMember: findById of the member
FindTarget(r) ==
    LET row == member[req[r].id]
    IN  /\ req[r].at = "target"
        /\ IF row = None \/ row.default THEN Answer(r)
           ELSE Go(r, [req[r] EXCEPT !.row = row, !.at = AfterTarget(req[r])])
        /\ Same

\* assignRole, updateMember: the role by its id or name; addRole or setRoles
FindRoleToGive(r) ==
    LET q == req[r]
    IN  /\ q.at = "role" /\ q.op \in {"assignRole", "updateMember"}
        /\ IF role[q.role] = None THEN Answer(r)
           ELSE Go(r, [q EXCEPT !.at = "exists",
                                !.row.roles = {q.role} \cup IF q.op = "assignRole" THEN @ ELSE {}])
        /\ Same

\* updateRole, deleteRole: the system role is left alone
FindRoleToChange(r) ==
    LET q == req[r]
    IN  /\ q.at = "role" /\ q.op \in {"updateRole", "deleteRole"}
        /\ IF role[q.role] = None \/ q.role = OwnerRole THEN Answer(r)
           ELSE To(r, IF q.op = "deleteRole" THEN "count" ELSE "exists")
        /\ Same

\* countByRole
CountMembers(r) ==
    /\ req[r].at = "count"
    /\ IF \E i \in Ids : member[i] # None /\ req[r].role \in member[i].roles
       THEN Answer(r) ELSE To(r, "delete")
    /\ Same

DeleteMember(r) ==
    /\ req[r].at = "delete" /\ req[r].op = "removeMember"
    /\ member' = [member EXCEPT ![req[r].id] = None]
    /\ Answer(r)
    /\ UNCHANGED <<role, invited, born, cache>>

DeleteRole(r) ==
    /\ req[r].at = "delete" /\ req[r].op = "deleteRole"
    /\ role' = [role EXCEPT ![req[r].role] = None]
    /\ To(r, "forget")
    /\ UNCHANGED <<member, invited, born, cache>>

(* BaseRepository.save: findById, then UPDATE or INSERT.                   *)
SavesMember(r) == req[r].op \in {"assignRole", "updateMember"}
Stored(r)      == IF SavesMember(r) THEN member[req[r].id] # None ELSE role[req[r].role] # None

FindExisting(r) ==
    /\ req[r].at = "exists"
    /\ To(r, IF Stored(r) THEN "update" ELSE "insert")
    /\ Same

\* INSERT meets UNIQUE(workspace_id, user_id) or the primary key; UPDATE of no row throws.
Refused(r) ==
    \/ req[r].at = "update" /\ ~Stored(r)
    \/ req[r].at = "insert" /\ (Stored(r) \/ (SavesMember(r) /\ RowsOf(req[r].row.user) # {}))

RefuseWrite(r) == Refused(r) /\ Answer(r) /\ Same

WriteMember(r) ==
    /\ req[r].at \in {"update", "insert"} /\ SavesMember(r) /\ ~Refused(r)
    /\ member' = [member EXCEPT ![req[r].id] = req[r].row]
    /\ IF req[r].op = "assignRole" THEN To(r, "forget") ELSE Answer(r)
    /\ UNCHANGED <<role, invited, born, cache>>

\* createRole invalidates nothing.
WriteRole(r) ==
    /\ req[r].at \in {"update", "insert"} /\ ~SavesMember(r) /\ ~Refused(r)
    /\ role' = [role EXCEPT ![req[r].role] = req[r].body]
    /\ born' = born \cup {req[r].role}
    /\ IF req[r].op = "updateRole" THEN To(r, "forget") ELSE Answer(r)
    /\ UNCHANGED <<member, invited, cache>>

\* invalidate(member.userId), invalidateWorkspace
Forget(r) ==
    /\ req[r].at = "forget"
    /\ cache' = [u \in Users |-> IF req[r].op = "assignRole" /\ u # req[r].row.user
                                 THEN cache[u] ELSE Miss]
    /\ Answer(r)
    /\ UNCHANGED Tables

-----------------------------------------------------------------------------
(* Around them.                                                            *)

\* inviteMember, as far as it concerns the role that the invitation carries
Invite(u, x) ==
    /\ \E r \in Requests : "invite" \in Routes[r]
    /\ RowsOf(u) = {} /\ invited[u] = None /\ role[x] # None
    /\ invited' = [invited EXCEPT ![u] = x]
    /\ UNCHANGED <<member, role, born, cache, req>>

\* acceptInvitation, at its INSERT: the role is not looked up again.  The UPDATE that follows
\* closes the invitation, or fails and leaves it as it was.
Join(u, i) ==
    /\ invited[u] # None /\ RowsOf(u) = {} /\ i \notin born
    /\ member' = [member EXCEPT ![i] = [user |-> u, roles |-> {invited[u]}, default |-> FALSE]]
    /\ invited' = [invited EXCEPT ![u] = None] \/ UNCHANGED invited
    /\ born' = born \cup {i}
    /\ UNCHANGED <<role, cache, req>>

\* A slip: entries are swept out only when no request is in flight.
ExpireWhenQuiet(u) ==
    /\ cache[u] # Miss /\ \A r \in Requests : req[r] = Idle
    /\ cache' = [cache EXCEPT ![u] = Miss]
    /\ UNCHANGED <<Tables, req>>

\* An entry of the cache is older than an hour.
Expire(u) ==
    /\ cache[u] # Miss
    /\ cache' = [cache EXCEPT ![u] = Miss]
    /\ UNCHANGED <<Tables, req>>

-----------------------------------------------------------------------------
Known(f) == {x \in DOMAIN f : f[x] # None}

Init ==
    /\ member = FirstMembers /\ role = FirstRoles
    /\ invited = [u \in Users |-> None]
    /\ cache = [u \in Users |-> Miss]
    /\ req = [r \in Requests |-> Idle]
    /\ born = Known(FirstMembers) \cup Known(FirstRoles)
    /\ had = [u \in Users |-> RoleIdsOf(u)]
    /\ gave = [x \in Roles |-> IF role[x] = None THEN {} ELSE role[x]]

Progress(r) ==
    \/ ReadMember(r) \/ LookUp(r) \/ ReadRoles(r) \/ FillCache(r)
    \/ FindTarget(r) \/ FindRoleToGive(r) \/ FindRoleToChange(r) \/ CountMembers(r)
    \/ DeleteMember(r) \/ DeleteRole(r) \/ FindExisting(r) \/ RefuseWrite(r)
    \/ WriteMember(r) \/ WriteRole(r) \/ Forget(r)

\* What the ghosts remember.
Remember ==
    /\ had' = [u \in Users |-> had[u] \cup RoleIdsOf(u)']
    /\ gave' = [x \in Roles |-> gave[x] \cup IF role'[x] = None THEN {} ELSE role'[x]]

Next ==
    /\ \/ \E r \in Requests : Accept(r) \/ Progress(r)
       \/ \E u \in Users, x \in Roles : Invite(u, x)
       \/ \E u \in Users, i \in Ids : Join(u, i)
       \/ \E u \in Users : Expire(u)
    /\ Remember

Spec == Init /\ [][Next]_vars

\* Node and the database run on, and every entry of the cache gets too old.
FairSpec ==
    /\ Spec
    /\ \A r \in Requests : WF_vars(Progress(r) /\ Remember)
    /\ \A u \in Users : WF_vars(Expire(u) /\ Remember)

-----------------------------------------------------------------------------
(* Properties.                                                             *)

\* The type of every variable.
TypeOK ==
    /\ member \in [Ids -> MemberRow \cup {None}]
    /\ role \in [Roles -> (SUBSET Perms) \cup {None}]
    /\ invited \in [Users -> Roles \cup {None}]
    /\ cache \in [Users -> (SUBSET Perms) \cup {Miss}]
    /\ req \in [Requests -> ReqType]
    /\ born \subseteq Ids \cup Roles
    /\ had \in [Users -> SUBSET Roles]
    /\ gave \in [Roles -> SUBSET Perms]

\* A member that has been removed and a role that has been deleted do not come back:
\* the ids of later ones are new.
DeletedStaysDeleted ==
    [][/\ \A i \in Ids : i \in born /\ member[i] = None => member'[i] = None
       /\ \A x \in Roles : x \in born /\ role[x] = None => role'[x] = None]_vars

\* The creator keeps the member row and the Owner role, whatever requests write back.
CreatorStands == member[CreatorId] = Creator /\ role[OwnerRole] = {"*"}

\* The cache gives a user no permission that none of the user's roles, past or
\* present, ever had: however requests interleave, nobody gets another's.
CacheEarned ==
    \A u \in Users \ {Owner} :
        cache[u] # Miss => cache[u] \subseteq UNION {gave[x] : x \in had[u]}

\* Once members and roles change no more, the cache comes to agree with them for good.
StaleDiesOut ==
    <>[][FALSE]_<<member, role>> => <>[](\A u \in Users : cache[u] \in {Miss, PermsOf(u)})
=============================================================================
