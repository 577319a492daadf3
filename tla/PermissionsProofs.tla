------------------------- MODULE PermissionsProofs -------------------------
(***************************************************************************)
(* Proofs about Permissions, for any number of users, members, roles and   *)
(* requests: every variable keeps its type, no interleaving touches the    *)
(* creator's membership or the system role, and the cache never gives a    *)
(* user a permission that none of the user's roles ever had.               *)
(***************************************************************************)
EXTENDS Permissions, TLAPS

OnMember == {"assignRole", "updateMember", "removeMember"}
Saving   == {"assignRole", "updateMember"}
Changing == {"updateRole", "deleteRole"}

\* What a request that has come so far carries.
Fits(q) ==
    /\ q.at # "idle" => q.user \in Users
    /\ q.gate = "service" => q.op # "use"
    /\ q.at # "idle" /\ q.op \in OnMember => q.id \in Ids
    /\ q.at # "idle" /\ q.op \in Changing \cup {"assignRole", "createRole"} => q.role \in Roles
    /\ q.at # "idle" /\ q.op = "createRole" => q.role # OwnerRole
    /\ q.at = "target" => q.op \in OnMember
    /\ q.at = "role" => q.role \in Roles
    /\ q.at = "count" => q.op = "deleteRole"
    /\ q.at = "delete" => q.op \in {"removeMember", "deleteRole"}
    /\ q.at \in {"exists", "update", "insert"} => q.op \in Saving \cup {"updateRole", "createRole"}
    /\ q.at = "forget" => q.op \in Changing \cup {"assignRole"}

\* A row that is about to be written is neither the creator's nor the system role's.
Spares(q) ==
    /\ q.op \in Saving /\ q.at \in {"role", "exists", "update", "insert", "forget"}
          => q.row \in MemberRow /\ q.id # CreatorId
    /\ q.op = "removeMember" /\ q.at = "delete" => q.id # CreatorId
    /\ q.op \in Changing /\ q.at \in {"count", "exists", "update", "insert", "delete", "forget"}
          => q.role # OwnerRole

\* All permissions that the roles of a user ever had.
Given(u) == UNION {gave[z] : z \in had[u]}

\* The roles that a request has read and the permissions it has worked out.
Earned(q) ==
    q.at # "idle" /\ q.user # Owner =>
        /\ q.held \subseteq had[q.user]
        /\ q.at = "fill" => q.perms \subseteq Given(q.user)

Good(q) == q \in ReqType /\ Fits(q) /\ Spares(q) /\ Earned(q)

\* The ghosts know of everything that is there.
Remembered ==
    /\ \A u \in Users : RoleIdsOf(u) \subseteq had[u]
    /\ \A z \in Roles : role[z] # None => role[z] \subseteq gave[z]

IInv ==
    /\ TypeOK
    /\ CreatorStands
    /\ CacheEarned
    /\ Remembered
    /\ CreatorId \in born /\ OwnerRole \in born
    /\ \A r \in Requests : Good(req[r])

-----------------------------------------------------------------------------
\* The request at rest carries nothing.
LEMMA IdleGood == Good(Idle)
  BY PermissionConstants DEF Good, Idle, ReqType, Places, Ops, Fits, Spares, Earned

\* The ghosts only grow.
LEMMA GhostsGrow ==
  ASSUME TypeOK, Remember
  PROVE  /\ \A u \in Users : had[u] \subseteq had'[u]
         /\ \A z \in Roles : gave[z] \subseteq gave'[z]
         /\ \A u \in Users : Given(u) \subseteq Given(u)'
<1>1. \A u \in Users : had[u] \subseteq had'[u]
  BY DEF TypeOK, Remember
<1>2. \A z \in Roles : gave[z] \subseteq gave'[z]
  BY DEF TypeOK, Remember
<1>3. \A u \in Users : had[u] \subseteq Roles
  BY DEF TypeOK
<1>4. \A u \in Users : Given(u) \subseteq Given(u)'
  BY <1>1, <1>2, <1>3 DEF Given
<1> QED BY <1>1, <1>2, <1>4

\* What a step has to show so that the invariant holds after it: the tables are sound
\* and whatever was cached or read is earned by what the ghosts remember already.
LEMMA StepKeeps ==
  ASSUME IInv, Remember,
         member' \in [Ids -> MemberRow \cup {None}],
         role' \in [Roles -> (SUBSET Perms) \cup {None}],
         invited' \in [Users -> Roles \cup {None}],
         cache' \in [Users -> (SUBSET Perms) \cup {Miss}],
         born' \subseteq Ids \cup Roles, born \subseteq born',
         CreatorStands',
         \A u \in Users \ {Owner} : cache'[u] # Miss => cache'[u] \subseteq Given(u),
         req' \in [Requests -> ReqType],
         \A r \in Requests : Good(req'[r])
  PROVE  IInv'
<1>g. /\ \A u \in Users : had[u] \subseteq had'[u]
      /\ \A u \in Users : Given(u) \subseteq Given(u)'
  BY GhostsGrow DEF IInv
<1>1. \A u \in Users : RoleIdsOf(u)' \subseteq Roles
  BY PermissionConstants DEF RoleIdsOf, RowsOf, MemberRow
<1>2. had' \in [Users -> SUBSET Roles]
  BY <1>1 DEF Remember, IInv, TypeOK
<1>3. gave' \in [Roles -> SUBSET Perms]
  BY DEF Remember, IInv, TypeOK
<1>4. TypeOK'
  BY <1>2, <1>3 DEF TypeOK
<1>5. Remembered'
  <2>1. \A u \in Users : RoleIdsOf(u)' \subseteq had'[u]
    BY DEF Remember
  <2>2. \A z \in Roles : role'[z] # None => role'[z] \subseteq gave'[z]
    BY DEF Remember
  <2> QED BY <2>1, <2>2 DEF Remembered
<1>6. CacheEarned'
  <2>1. \A u \in Users \ {Owner} : cache'[u] # Miss => cache'[u] \subseteq Given(u)'
    BY <1>g
  <2> QED BY <2>1 DEF CacheEarned, Given
<1>7. (\A r \in Requests : Good(req[r]))'
  <2> SUFFICES ASSUME NEW r \in Requests PROVE Good(req[r])'
    OBVIOUS
  <2>1. PICK q : q = req'[r]
    OBVIOUS
  <2>2. q \in ReqType /\ Fits(q) /\ Spares(q) /\ Earned(q)
    BY <2>1 DEF Good
  <2>3. Earned(q)'
    BY <1>g, <2>2 DEF Earned, Fits
  <2>4. Good(q)'
    BY <2>2, <2>3 DEF Good, Fits, Spares
  <2> QED BY <2>1, <2>4 DEF Good, Fits, Spares, Earned
<1>8. CreatorId \in born' /\ OwnerRole \in born'
  BY DEF IInv
<1> QED BY <1>4, <1>5, <1>6, <1>7, <1>8 DEF IInv

\* The part that is the same for every step of a request.
LEMMA GoKeeps ==
  ASSUME IInv, NEW r \in Requests, NEW q, Good(q), Go(r, q)
  PROVE  /\ req' \in [Requests -> ReqType]
         /\ \A s \in Requests : Good(req'[s])
  BY DEF IInv, TypeOK, Go, Good

\* A step of a request that writes nothing.
LEMMA MoveKeeps ==
  ASSUME IInv, Remember, NEW r \in Requests, NEW q, Good(q), Go(r, q), Same
  PROVE  IInv'
<1>1. /\ req' \in [Requests -> ReqType]
      /\ \A s \in Requests : Good(req'[s])
  BY GoKeeps
<1>2. /\ member' \in [Ids -> MemberRow \cup {None}]
      /\ role' \in [Roles -> (SUBSET Perms) \cup {None}]
      /\ invited' \in [Users -> Roles \cup {None}]
      /\ cache' \in [Users -> (SUBSET Perms) \cup {Miss}]
      /\ born' \subseteq Ids \cup Roles /\ born \subseteq born'
      /\ CreatorStands'
      /\ \A u \in Users \ {Owner} : cache'[u] # Miss => cache'[u] \subseteq Given(u)
  BY DEF IInv, TypeOK, Same, Tables, CreatorStands, CacheEarned, Given
<1> QED BY <1>1, <1>2, StepKeeps

\* Admission leaves the request with nothing but what the client asked for.
LEMMA JudgeGood ==
  ASSUME NEW q, Good(q), q.at \in {"member", "lookup", "fill"}, NEW perms
  PROVE  Good(Judge(q, perms))
<1>1. CASE q.gate = "middleware" /\ q.op # "use"
  <2> DEFINE p == [q EXCEPT !.held = {}, !.perms = {}, !.gate = "service", !.at = "member"]
  <2>1. p \in ReqType
    BY <1>1 DEF Good, ReqType, Places
  <2>2. Good(p)
    BY <1>1, <2>1 DEF Good, ReqType, Fits, Spares, Earned, OnMember, Changing, Saving
  <2> QED BY <1>1, <2>2, IdleGood DEF Judge, Admit
<1>2. CASE q.gate = "service"
  <2> DEFINE p(at) == [q EXCEPT !.held = {}, !.perms = {}, !.at = at]
  <2>1. \A at \in Places : p(at) \in ReqType /\ p(at).at = at
    BY DEF Good, ReqType
  <2>2. q.op \in Changing \cup {"createRole"} \cup OnMember
    BY <1>2 DEF Good, ReqType, Ops, Fits, Changing, OnMember
  <2>3. q.op \in Changing => Good(p("role"))
    BY <1>2, <2>1 DEF Good, ReqType, Places, Fits, Spares, Earned, OnMember, Changing, Saving
  <2>4. q.op = "createRole" => Good(p("insert"))
    BY <1>2, <2>1 DEF Good, ReqType, Places, Fits, Spares, Earned, OnMember, Changing, Saving
  <2>5. q.op \in OnMember => Good(p("target"))
    BY <1>2, <2>1 DEF Good, ReqType, Places, Fits, Spares, Earned, OnMember, Changing, Saving
  <2>6. Admit(q) = p(CASE q.op \in {"updateRole", "deleteRole"} -> "role"
                       [] q.op = "createRole" -> "insert"
                       [] OTHER -> "target")
    BY <1>2 DEF Admit, Good, ReqType
  <2>7. Good(Admit(q))
    <3>1. CASE q.op \in Changing
      BY <2>3, <2>6, <3>1 DEF Changing
    <3>2. CASE q.op = "createRole"
      BY <2>4, <2>6, <3>2
    <3>3. CASE q.op \in OnMember
      BY <2>5, <2>6, <3>3 DEF OnMember
    <3> QED BY <2>2, <3>1, <3>2, <3>3
  <2> QED BY <2>7, IdleGood DEF Judge
<1>3. CASE q.gate = "middleware" /\ q.op = "use"
  BY <1>3, IdleGood DEF Judge, Admit
<1>4. q.gate \in {"middleware", "service"}
  BY DEF Good, ReqType
<1> QED BY <1>1, <1>2, <1>3, <1>4
\* What a list of roles permits was given by one of them.
LEMMA CalculateGiven ==
  ASSUME IInv, NEW ids \in SUBSET Roles
  PROVE  /\ Calculate(ids) \in SUBSET Perms
         /\ \A u \in Users : ids \subseteq had[u] => Calculate(ids) \subseteq Given(u)
<1> DEFINE all == UNION {role[z] : z \in ids \cap Live}
<1>1. Calculate(ids) \subseteq all
  BY DEF Calculate
<1>2. \A z \in ids \cap Live : role[z] \in SUBSET Perms /\ role[z] \subseteq gave[z]
  BY DEF IInv, TypeOK, Live, Remembered
<1>3. all \in SUBSET Perms
  BY <1>2
<1>4. ASSUME NEW u \in Users, ids \subseteq had[u] PROVE all \subseteq Given(u)
  BY <1>2, <1>4 DEF Given
<1> QED BY <1>1, <1>3, <1>4

-----------------------------------------------------------------------------
(* The steps of a request, one by one.                                     *)

\* What Accept makes of a request that comes in.
LEMMA AcceptedIs ==
  ASSUME IInv, NEW r \in Requests, Accept(r)
  PROVE  \E q \in ReqType :
            /\ Good(q) /\ q.at = "member" /\ q.op \in Routes[r] \cap Ops
            /\ Go(r, IF cache[q.user] = Miss THEN q ELSE Judge(q, cache[q.user]))
            /\ Same
<1> DEFINE Asked(op, u, i, z, b) ==
             [Idle EXCEPT !.at = "member", !.op = op, !.user = u, !.id = i, !.role = z, !.body = b]
           Comes(op, u, i, z, b) ==
             /\ Go(r, IF cache[u] = Miss THEN Asked(op, u, i, z, b)
                                         ELSE Judge(Asked(op, u, i, z, b), cache[u]))
             /\ Same
<1>a. PICK op \in Routes[r] \cap Ops, u \in Users :
        \E i \in IdsFor(op), z \in RolesFor(op), b \in BodiesFor(op) : Comes(op, u, i, z, b)
  BY Zenon DEF Accept
<1>0. PICK i \in IdsFor(op), z \in RolesFor(op), b \in BodiesFor(op) : Comes(op, u, i, z, b)
  BY <1>a, Zenon
<1> DEFINE q == Asked(op, u, i, z, b)
<1>1. /\ i \in Ids \cup {None} /\ (op \in OnMember => i \in Ids)
      /\ z \in Roles \cup {None}
      /\ op \in Changing \cup {"assignRole", "createRole"} => z \in Roles
      /\ op = "createRole" => z \notin born
      /\ b \in SUBSET Perms
  <2>1. i \in Ids \cup {None} /\ (op \in OnMember => i \in Ids)
    BY DEF OnMember, IdsFor
  <2>2. b \in SUBSET Perms
    BY PermissionConstants DEF BodiesFor
  <2>3. CASE op \in {"use", "removeMember"}
    BY <2>1, <2>2, <2>3 DEF Changing, RolesFor
  <2>4. CASE op = "updateMember"
    BY <2>1, <2>2, <2>4 DEF Changing, RolesFor
  <2>5. CASE op = "createRole"
    BY <2>1, <2>2, <2>5 DEF Changing, RolesFor
  <2>6. CASE op \in {"updateRole", "deleteRole", "assignRole"}
    BY <2>1, <2>2, <2>6 DEF Changing, RolesFor
  <2> QED BY <2>3, <2>4, <2>5, <2>6 DEF Ops
<1>2. z \in Roles /\ op = "createRole" => z # OwnerRole
  BY <1>1 DEF IInv
<1>3. q \in ReqType
  BY <1>1 DEF Idle, ReqType, Places
<1>4. Good(q)
  BY <1>1, <1>2, <1>3 DEF Good, Fits, Spares, Earned, Idle, OnMember, Changing, Saving
<1>5. q.at = "member" /\ q.op = op /\ q.user = u
  BY DEF Idle
<1>6. Go(r, IF cache[u] = Miss THEN q ELSE Judge(q, cache[u])) /\ Same
  BY <1>0
<1> HIDE DEF q
<1> QED BY <1>3, <1>4, <1>5, <1>6

LEMMA AcceptKeeps ==
  ASSUME IInv, Remember, NEW r \in Requests, Accept(r) PROVE IInv'
<1>1. PICK q \in ReqType :
        /\ Good(q) /\ q.at = "member"
        /\ Go(r, IF cache[q.user] = Miss THEN q ELSE Judge(q, cache[q.user]))
        /\ Same
  BY AcceptedIs
<1>2. Good(IF cache[q.user] = Miss THEN q ELSE Judge(q, cache[q.user]))
  BY <1>1, JudgeGood
<1> QED BY <1>1, <1>2, MoveKeeps

LEMMA ReadMemberKeeps ==
  ASSUME IInv, Remember, NEW r \in Requests, ReadMember(r) PROVE IInv'
<1> DEFINE q == req[r]
<1>1. Good(q) /\ q.at = "member" /\ q.user \in Users
  BY DEF IInv, Fits, Good, ReadMember
<1>2. RoleIdsOf(q.user) \in SUBSET Roles /\ RoleIdsOf(q.user) \subseteq had[q.user]
  BY <1>1 DEF IInv, Remembered, TypeOK
<1>3. Same
  BY DEF ReadMember
<1>4. CASE q.user = Owner
  <2> DEFINE p == [q EXCEPT !.at = "fill", !.perms = {"*"}]
  <2>1. p \in ReqType
    BY <1>1, PermissionConstants DEF Good, ReqType, Places
  <2>2. Good(p)
    BY <1>1, <1>4, <2>1 DEF Good, ReqType, Fits, Spares, Earned
  <2>3. q.gate # "middleware" => Good(Admit(q))
    <3>1. Allows({"*"}, q.op)
      BY DEF Allows
    <3> QED BY <1>1, <3>1, JudgeGood DEF Judge
  <2>4. Go(r, IF q.gate = "middleware" THEN p ELSE Admit(q))
    BY <1>4 DEF ReadMember
  <2>5. Good(IF q.gate = "middleware" THEN p ELSE Admit(q))
    BY <2>2, <2>3
  <2> HIDE DEF p
  <2> QED BY <1>3, <2>4, <2>5, MoveKeeps
<1>5. CASE q.user # Owner /\ RoleIdsOf(q.user) = {}
  <2>1. Go(r, Idle)
    BY <1>5 DEF ReadMember, Answer
  <2> QED BY <1>3, <2>1, IdleGood, MoveKeeps
<1>6. CASE q.user # Owner /\ RoleIdsOf(q.user) # {}
  <2> DEFINE p == [q EXCEPT !.at = IF q.gate = "middleware" THEN "roles" ELSE "lookup",
                            !.held = RoleIdsOf(q.user)]
  <2>1. p \in ReqType
    BY <1>1, <1>2 DEF Good, ReqType, Places
  <2>2. Good(p)
    BY <1>1, <1>2, <2>1 DEF Good, ReqType, Fits, Spares, Earned
  <2>3. Go(r, p)
    BY <1>6 DEF ReadMember
  <2> HIDE DEF p
  <2> QED BY <1>3, <2>2, <2>3, MoveKeeps
<1> QED BY <1>4, <1>5, <1>6

LEMMA LookUpKeeps ==
  ASSUME IInv, Remember, NEW r \in Requests, LookUp(r) PROVE IInv'
<1> DEFINE q == req[r]
           p == [q EXCEPT !.at = "roles"]
<1>1. Good(q) /\ q.at = "lookup"
  BY DEF IInv, LookUp
<1>2. p \in ReqType
  BY <1>1 DEF Good, ReqType, Places
<1>3. Good(p)
  BY <1>1, <1>2 DEF Good, ReqType, Fits, Spares, Earned
<1>4. Good(Judge(q, cache[q.user]))
  BY <1>1, JudgeGood
<1>5. Same /\ (Go(r, p) \/ Go(r, Judge(q, cache[q.user])))
  BY DEF LookUp, To
<1> HIDE DEF p
<1> QED BY <1>3, <1>4, <1>5, MoveKeeps

LEMMA ReadRolesKeeps ==
  ASSUME IInv, Remember, NEW r \in Requests, ReadRoles(r) PROVE IInv'
<1> DEFINE q == req[r]
           p == [q EXCEPT !.at = "fill", !.held = {}, !.perms = Calculate(q.held)]
<1>1. Good(q) /\ q.at = "roles"
  BY DEF IInv, ReadRoles
<1>2. Calculate(q.held) \in SUBSET Perms
  BY <1>1, CalculateGiven DEF Good, ReqType
<1>3. q.user \in Users /\ (q.user # Owner => Calculate(q.held) \subseteq Given(q.user))
  BY <1>1, CalculateGiven DEF Good, ReqType, Earned, Fits
<1>4. p \in ReqType
  BY <1>1, <1>2 DEF Good, ReqType, Places
<1>5. Good(p)
  BY <1>1, <1>3, <1>4 DEF Good, ReqType, Fits, Spares, Earned
<1>6. Go(r, p) /\ Same
  BY DEF ReadRoles
<1> HIDE DEF p
<1> QED BY <1>5, <1>6, MoveKeeps

LEMMA FillCacheKeeps ==
  ASSUME IInv, Remember, NEW r \in Requests, FillCache(r) PROVE IInv'
<1> DEFINE q == req[r]
<1>1. Good(q) /\ q.at = "fill"
  BY DEF IInv, FillCache
<1>2. q.user \in Users /\ q.perms \in SUBSET Perms
  BY <1>1 DEF Good, Fits, ReqType
<1>3. cache' \in [Users -> (SUBSET Perms) \cup {Miss}]
  BY <1>2 DEF FillCache, IInv, TypeOK
<1>4. \A u \in Users \ {Owner} : cache'[u] # Miss => cache'[u] \subseteq Given(u)
  <2>1. q.user # Owner => q.perms \subseteq Given(q.user)
    BY <1>1 DEF Good, Earned
  <2>2. \A u \in Users \ {Owner} : cache[u] # Miss => cache[u] \subseteq Given(u)
    BY DEF IInv, CacheEarned, Given
  <2>3. cache \in [Users -> (SUBSET Perms) \cup {Miss}]
    BY DEF IInv, TypeOK
  <2> QED BY <1>2, <2>1, <2>2, <2>3 DEF FillCache
<1>5. Good(Judge(q, q.perms))
  BY <1>1, JudgeGood
<1>6. /\ req' \in [Requests -> ReqType]
      /\ \A s \in Requests : Good(req'[s])
  BY <1>5, GoKeeps DEF FillCache
<1>7. UNCHANGED Tables
  BY DEF FillCache
<1> QED BY <1>3, <1>4, <1>6, <1>7, StepKeeps DEF IInv, TypeOK, Tables, CreatorStands

LEMMA FindTargetKeeps ==
  ASSUME IInv, Remember, NEW r \in Requests, FindTarget(r) PROVE IInv'
<1> DEFINE q == req[r]
           p == [q EXCEPT !.row = member[q.id], !.at = AfterTarget(q)]
<1>1. Good(q) /\ q.at = "target" /\ q.op \in OnMember /\ q.id \in Ids
  BY DEF IInv, FindTarget, Good, Fits
<1>2. CASE member[q.id] = None \/ member[q.id].default
  BY <1>2, IdleGood, MoveKeeps DEF FindTarget, Answer
<1>3. CASE member[q.id] # None /\ ~member[q.id].default
  <2>1. member[q.id] \in MemberRow
    BY <1>1, <1>3 DEF IInv, TypeOK
  <2>2. q.id # CreatorId
    BY <1>3 DEF IInv, CreatorStands, Creator
  <2>3. AfterTarget(q) \in {"delete", "role", "exists"}
    BY <1>1 DEF AfterTarget
  <2>4. /\ q.op = "removeMember" <=> AfterTarget(q) = "delete"
        /\ AfterTarget(q) = "role" => q.role \in Roles
    BY <1>1 DEF AfterTarget, Good, ReqType
  <2>5. p \in ReqType
    BY <1>1, <2>1, <2>3 DEF Good, ReqType, Places
  <2>6. p.at = AfterTarget(q) /\ p.row = member[q.id] /\ p.op = q.op /\ p.id = q.id
        /\ p.role = q.role /\ p.user = q.user /\ p.gate = q.gate /\ p.held = q.held
    BY <1>1 DEF Good, ReqType
  <2> HIDE DEF p
  <2>7. Fits(p)
    BY <1>1, <2>3, <2>4, <2>6 DEF Good, Fits, OnMember, Saving, Changing
  <2>8. Spares(p) /\ Earned(p)
    BY <1>1, <2>1, <2>2, <2>3, <2>4, <2>6 DEF Good, Spares, Earned, OnMember, Saving, Changing
  <2>9. Go(r, p) /\ Same
    BY <1>3 DEF FindTarget, p
  <2> QED BY <2>5, <2>7, <2>8, <2>9, MoveKeeps DEF Good
<1> QED BY <1>2, <1>3

LEMMA FindRoleToGiveKeeps ==
  ASSUME IInv, Remember, NEW r \in Requests, FindRoleToGive(r) PROVE IInv'
<1> DEFINE q == req[r]
           given == {q.role} \cup IF q.op = "assignRole" THEN q.row.roles ELSE {}
           p == [q EXCEPT !.at = "exists", !.row = [q.row EXCEPT !.roles = given]]
<1>1. Good(q) /\ q.at = "role" /\ q.op \in Saving /\ q.role \in Roles
  BY DEF IInv, FindRoleToGive, Good, Fits, Saving
<1>2. q.row \in MemberRow /\ q.id # CreatorId
  BY <1>1 DEF Good, Spares
<1>3. given \in SUBSET Roles
  BY <1>1, <1>2 DEF MemberRow
<1>4. [q.row EXCEPT !.roles = given] \in MemberRow
  BY <1>2, <1>3 DEF MemberRow
<1>5. p \in ReqType
  BY <1>1, <1>4 DEF Good, ReqType, Places
<1>6. Good(p)
  BY <1>1, <1>2, <1>4, <1>5 DEF Good, ReqType, Fits, Spares, Earned, OnMember, Saving, Changing
<1>7. Same /\ (Go(r, Idle) \/ Go(r, p))
  <2>1. p = [q EXCEPT !.at = "exists",
                      !.row.roles = {q.role} \cup IF q.op = "assignRole" THEN @ ELSE {}]
    BY <1>1 DEF Good, ReqType
  <2> QED BY <2>1 DEF FindRoleToGive, Answer
<1> HIDE DEF p
<1> QED BY <1>6, <1>7, IdleGood, MoveKeeps

LEMMA FindRoleToChangeKeeps ==
  ASSUME IInv, Remember, NEW r \in Requests, FindRoleToChange(r) PROVE IInv'
<1> DEFINE q == req[r]
           p(at) == [q EXCEPT !.at = at]
<1>1. Good(q) /\ q.at = "role" /\ q.op \in Changing /\ q.role \in Roles
  BY DEF IInv, FindRoleToChange, Good, Fits, Changing
<1>2. \A at \in {"count", "exists"} : p(at) \in ReqType
  BY <1>1 DEF Good, ReqType, Places
<1>3. q.role # OwnerRole /\ q.op = "deleteRole" => Good(p("count"))
  BY <1>1, <1>2 DEF Good, ReqType, Fits, Spares, Earned, OnMember, Saving, Changing
<1>4. q.role # OwnerRole /\ q.op # "deleteRole" => Good(p("exists"))
  BY <1>1, <1>2 DEF Good, ReqType, Fits, Spares, Earned, OnMember, Saving, Changing
<1>5. CASE role[q.role] = None \/ q.role = OwnerRole
  BY <1>5, IdleGood, MoveKeeps DEF FindRoleToChange, Answer
<1>6. CASE ~(role[q.role] = None \/ q.role = OwnerRole)
  <2>1. Same /\ Go(r, p(IF q.op = "deleteRole" THEN "count" ELSE "exists"))
    BY <1>6 DEF FindRoleToChange, To
  <2>2. Good(p(IF q.op = "deleteRole" THEN "count" ELSE "exists"))
    BY <1>3, <1>4, <1>6
  <2> HIDE DEF p
  <2> QED BY <2>1, <2>2, MoveKeeps
<1> QED BY <1>5, <1>6

LEMMA CountMembersKeeps ==
  ASSUME IInv, Remember, NEW r \in Requests, CountMembers(r) PROVE IInv'
<1> DEFINE q == req[r]
           p == [q EXCEPT !.at = "delete"]
<1>1. Good(q) /\ q.at = "count" /\ q.op = "deleteRole"
  BY DEF IInv, CountMembers, Good, Fits
<1>2. p \in ReqType
  BY <1>1 DEF Good, ReqType, Places
<1>3. Good(p)
  BY <1>1, <1>2 DEF Good, ReqType, Fits, Spares, Earned, OnMember, Saving, Changing
<1>4. Same /\ (Go(r, Idle) \/ Go(r, p))
  BY DEF CountMembers, Answer, To
<1> HIDE DEF p
<1> QED BY <1>3, <1>4, IdleGood, MoveKeeps

LEMMA FindExistingKeeps ==
  ASSUME IInv, Remember, NEW r \in Requests, FindExisting(r) PROVE IInv'
<1> DEFINE q == req[r]
           p(at) == [q EXCEPT !.at = at]
<1>1. Good(q) /\ q.at = "exists"
  BY DEF IInv, FindExisting
<1>2. \A at \in {"update", "insert"} : p(at) \in ReqType
  BY <1>1 DEF Good, ReqType, Places
<1>3. \A at \in {"update", "insert"} : Good(p(at))
  BY <1>1, <1>2 DEF Good, ReqType, Fits, Spares, Earned, OnMember, Saving, Changing
<1>4. Same /\ Go(r, p(IF Stored(r) THEN "update" ELSE "insert"))
  BY DEF FindExisting, To
<1> HIDE DEF p
<1> QED BY <1>3, <1>4, MoveKeeps

LEMMA RefuseWriteKeeps ==
  ASSUME IInv, Remember, NEW r \in Requests, RefuseWrite(r) PROVE IInv'
  BY IdleGood, MoveKeeps DEF RefuseWrite, Answer
LEMMA DeleteMemberKeeps ==
  ASSUME IInv, Remember, NEW r \in Requests, DeleteMember(r) PROVE IInv'
<1>1. req[r].id # CreatorId
  BY DEF IInv, DeleteMember, Good, Spares
<1>2. /\ req' \in [Requests -> ReqType]
      /\ \A s \in Requests : Good(req'[s])
  BY IdleGood, GoKeeps DEF DeleteMember, Answer
<1>3. member' \in [Ids -> MemberRow \cup {None}] /\ CreatorStands'
  BY <1>1, PermissionConstants DEF DeleteMember, IInv, TypeOK, CreatorStands
<1> QED BY <1>2, <1>3, StepKeeps DEF DeleteMember, IInv, TypeOK, CacheEarned, Given

LEMMA DeleteRoleKeeps ==
  ASSUME IInv, Remember, NEW r \in Requests, DeleteRole(r) PROVE IInv'
<1> DEFINE q == req[r]
           p == [q EXCEPT !.at = "forget"]
<1>1. Good(q) /\ q.at = "delete" /\ q.op = "deleteRole" /\ q.role # OwnerRole
  BY DEF IInv, DeleteRole, Good, Spares, Changing
<1>2. p \in ReqType
  BY <1>1 DEF Good, ReqType, Places
<1>3. Good(p)
  BY <1>1, <1>2 DEF Good, ReqType, Fits, Spares, Earned, OnMember, Saving, Changing
<1>4. Go(r, p)
  BY DEF DeleteRole, To
<1>5. /\ req' \in [Requests -> ReqType]
      /\ \A s \in Requests : Good(req'[s])
  <2> HIDE DEF p
  <2> QED BY <1>3, <1>4, GoKeeps
<1>6. role' \in [Roles -> (SUBSET Perms) \cup {None}] /\ CreatorStands'
  BY <1>1, PermissionConstants DEF DeleteRole, IInv, TypeOK, CreatorStands
<1> QED BY <1>5, <1>6, StepKeeps DEF DeleteRole, IInv, TypeOK, CacheEarned, Given

LEMMA WriteMemberKeeps ==
  ASSUME IInv, Remember, NEW r \in Requests, WriteMember(r) PROVE IInv'
<1> DEFINE q == req[r]
           p == [q EXCEPT !.at = "forget"]
<1>1. Good(q) /\ q.at \in {"update", "insert"} /\ q.op \in Saving
  BY DEF IInv, WriteMember, SavesMember, Saving
<1>2. q.row \in MemberRow /\ q.id # CreatorId
  BY <1>1 DEF Good, Spares
<1>3. p \in ReqType
  BY <1>1 DEF Good, ReqType, Places
<1>4. q.op = "assignRole" => Good(p)
  BY <1>1, <1>3 DEF Good, ReqType, Fits, Spares, Earned, OnMember, Saving, Changing
<1>5. \/ q.op = "assignRole" /\ Go(r, p)
      \/ Go(r, Idle)
  BY DEF WriteMember, To, Answer
<1>6. /\ req' \in [Requests -> ReqType]
      /\ \A s \in Requests : Good(req'[s])
  <2> HIDE DEF p
  <2> QED BY <1>4, <1>5, IdleGood, GoKeeps
<1>7. member' \in [Ids -> MemberRow \cup {None}] /\ CreatorStands'
  BY <1>2, PermissionConstants DEF WriteMember, IInv, TypeOK, CreatorStands
<1> QED BY <1>6, <1>7, StepKeeps DEF WriteMember, IInv, TypeOK, CacheEarned, Given

LEMMA WriteRoleKeeps ==
  ASSUME IInv, Remember, NEW r \in Requests, WriteRole(r) PROVE IInv'
<1> DEFINE q == req[r]
           p == [q EXCEPT !.at = "forget"]
<1>1. Good(q) /\ q.at \in {"update", "insert"} /\ q.op \in {"updateRole", "createRole"}
  BY DEF IInv, WriteRole, SavesMember, Good, Fits, Saving
<1>2. q.role \in Roles /\ q.role # OwnerRole /\ q.body \in SUBSET Perms
  BY <1>1 DEF Good, ReqType, Fits, Spares, Changing
<1>3. p \in ReqType
  BY <1>1 DEF Good, ReqType, Places
<1>4. q.op = "updateRole" => Good(p)
  BY <1>1, <1>3 DEF Good, ReqType, Fits, Spares, Earned, OnMember, Saving, Changing
<1>5. \/ q.op = "updateRole" /\ Go(r, p)
      \/ Go(r, Idle)
  BY DEF WriteRole, To, Answer
<1>6. /\ req' \in [Requests -> ReqType]
      /\ \A s \in Requests : Good(req'[s])
  <2> HIDE DEF p
  <2> QED BY <1>4, <1>5, IdleGood, GoKeeps
<1>7. role' \in [Roles -> (SUBSET Perms) \cup {None}] /\ CreatorStands'
  BY <1>2, PermissionConstants DEF WriteRole, IInv, TypeOK, CreatorStands
<1>8. born' \subseteq Ids \cup Roles /\ born \subseteq born'
  BY <1>2 DEF WriteRole, IInv, TypeOK
<1> QED BY <1>6, <1>7, <1>8, StepKeeps DEF WriteRole, IInv, TypeOK, CacheEarned, Given

LEMMA ForgetKeeps ==
  ASSUME IInv, Remember, NEW r \in Requests, Forget(r) PROVE IInv'
<1>1. /\ req' \in [Requests -> ReqType]
      /\ \A s \in Requests : Good(req'[s])
  BY IdleGood, GoKeeps DEF Forget, Answer
<1>2. cache' \in [Users -> (SUBSET Perms) \cup {Miss}]
  BY DEF Forget, IInv, TypeOK
<1>3. \A u \in Users : cache'[u] \in {cache[u], Miss}
  BY DEF Forget
<1>4. \A u \in Users \ {Owner} : cache'[u] # Miss => cache'[u] \subseteq Given(u)
  BY <1>3 DEF IInv, CacheEarned, Given
<1> QED BY <1>1, <1>2, <1>4, StepKeeps DEF Forget, Tables, IInv, TypeOK, CreatorStands

(* The steps around the requests.                                          *)

LEMMA InviteKeeps ==
  ASSUME IInv, Remember, NEW u \in Users, NEW z \in Roles, Invite(u, z) PROVE IInv'
<1>1. invited' \in [Users -> Roles \cup {None}]
  BY DEF Invite, IInv, TypeOK
<1> QED BY <1>1, StepKeeps DEF Invite, IInv, TypeOK, CreatorStands, CacheEarned, Given

LEMMA JoinKeeps ==
  ASSUME IInv, Remember, NEW u \in Users, NEW i \in Ids, Join(u, i) PROVE IInv'
<1>1. invited[u] \in Roles
  BY DEF Join, IInv, TypeOK
<1>2. invited' \in [Users -> Roles \cup {None}]
  BY DEF Join, IInv, TypeOK
<1>3. [user |-> u, roles |-> {invited[u]}, default |-> FALSE] \in MemberRow
  BY <1>1 DEF MemberRow
<1>4. member' \in [Ids -> MemberRow \cup {None}]
  BY <1>3 DEF Join, IInv, TypeOK
<1>5. i # CreatorId
  BY DEF Join, IInv
<1>6. CreatorStands'
  BY <1>5 DEF Join, IInv, TypeOK, CreatorStands
<1>7. born' \subseteq Ids \cup Roles /\ born \subseteq born'
  BY DEF Join, IInv, TypeOK
<1> QED BY <1>2, <1>4, <1>6, <1>7, StepKeeps DEF Join, IInv, TypeOK, CacheEarned, Given

LEMMA ExpireKeeps ==
  ASSUME IInv, Remember, NEW u \in Users, Expire(u) PROVE IInv'
<1>1. cache' \in [Users -> (SUBSET Perms) \cup {Miss}]
  BY DEF Expire, IInv, TypeOK
<1>2. \A v \in Users \ {Owner} : cache'[v] # Miss => cache'[v] \subseteq Given(v)
  BY DEF Expire, IInv, TypeOK, CacheEarned, Given
<1> QED BY <1>1, <1>2, StepKeeps DEF Expire, Tables, IInv, TypeOK, CreatorStands

-----------------------------------------------------------------------------
(* The invariant.                                                          *)

LEMMA InitHolds == ASSUME Init PROVE IInv
<1>1. member \in [Ids -> MemberRow \cup {None}] /\ role \in [Roles -> (SUBSET Perms) \cup {None}]
  BY PermissionConstants DEF Init
<1>2. \A u \in Users : RoleIdsOf(u) \subseteq Roles
  BY <1>1, PermissionConstants DEF RoleIdsOf, RowsOf, MemberRow
<1>3. had \in [Users -> SUBSET Roles] /\ gave \in [Roles -> SUBSET Perms]
  BY <1>1, <1>2 DEF Init
<1>4. born \subseteq Ids \cup Roles /\ CreatorId \in born /\ OwnerRole \in born
  <2>1. DOMAIN FirstMembers = Ids /\ DOMAIN FirstRoles = Roles
    BY PermissionConstants
  <2>2. FirstMembers[CreatorId] # None
    <3>1. Creator \in MemberRow
      BY PermissionConstants DEF Creator, MemberRow
    <3> QED BY <3>1, PermissionConstants
  <2>3. FirstRoles[OwnerRole] # None
    BY PermissionConstants
  <2> QED BY <2>1, <2>2, <2>3, PermissionConstants DEF Init, Known
<1>5. CreatorStands
  BY PermissionConstants DEF Init, CreatorStands
<1>6. CacheEarned /\ Remembered
  BY DEF Init, CacheEarned, Remembered
<1>7. \A r \in Requests : Good(req[r])
  BY IdleGood DEF Init
<1>8. TypeOK
  BY <1>1, <1>3, <1>4, <1>7 DEF Init, TypeOK, Good
<1> QED BY <1>4, <1>5, <1>6, <1>7, <1>8 DEF IInv

LEMMA StutterHolds == ASSUME IInv, UNCHANGED vars PROVE IInv'
  BY DEF IInv, vars, TypeOK, CreatorStands, CacheEarned, Remembered, RoleIdsOf, RowsOf,
         Good, Fits, Spares, Earned, Given

LEMMA NextHolds == ASSUME IInv, [Next]_vars PROVE IInv'
<1>1. CASE UNCHANGED vars
  BY <1>1, StutterHolds
<1>2. CASE Next
  <2>1. Remember
    BY <1>2 DEF Next
  <2>2. ASSUME NEW r \in Requests, Accept(r) \/ Progress(r) PROVE IInv'
    BY <2>1, <2>2, AcceptKeeps, ReadMemberKeeps, LookUpKeeps, ReadRolesKeeps, FillCacheKeeps,
       FindTargetKeeps, FindRoleToGiveKeeps, FindRoleToChangeKeeps, CountMembersKeeps,
       DeleteMemberKeeps, DeleteRoleKeeps, FindExistingKeeps, RefuseWriteKeeps,
       WriteMemberKeeps, WriteRoleKeeps, ForgetKeeps DEF Progress
  <2>3. ASSUME NEW u \in Users, NEW z \in Roles, Invite(u, z) PROVE IInv'
    BY <2>1, <2>3, InviteKeeps
  <2>4. ASSUME NEW u \in Users, NEW i \in Ids, Join(u, i) PROVE IInv'
    BY <2>1, <2>4, JoinKeeps
  <2>5. ASSUME NEW u \in Users, Expire(u) PROVE IInv'
    BY <2>1, <2>5, ExpireKeeps
  <2> QED BY <1>2, <2>2, <2>3, <2>4, <2>5 DEF Next
<1> QED BY <1>1, <1>2

LEMMA InvariantHolds == Spec => []IInv
<1>1. Init => IInv
  BY InitHolds
<1>2. IInv /\ [Next]_vars => IInv'
  BY NextHolds
<1> QED BY <1>1, <1>2, PTL DEF Spec

\* Every variable keeps its type: no step of any request carries, caches or writes
\* something of another kind.
THEOREM PermissionsTyped == Spec => []TypeOK
<1>1. IInv => TypeOK
  BY DEF IInv
<1> QED BY <1>1, InvariantHolds, PTL

\* The creator keeps the member row and the Owner role keeps "*": assignRole,
\* updateMember and removeMember refuse the default row, updateRole and deleteRole the
\* system role, and no row that was read earlier can be written back over them.
THEOREM CreatorKeepsAll == Spec => []CreatorStands
<1>1. IInv => CreatorStands
  BY DEF IInv
<1> QED BY <1>1, InvariantHolds, PTL

\* However requests, invalidations and expiries interleave, the cache holds for a user
\* only permissions that a role of that user had at some time: it can be out of date,
\* never another user's.
THEOREM CacheNeverInvents == Spec => []CacheEarned
<1>1. IInv => CacheEarned
  BY DEF IInv
<1> QED BY <1>1, InvariantHolds, PTL

=============================================================================
