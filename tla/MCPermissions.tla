--------------------------- MODULE MCPermissions ---------------------------
(* Instances of Permissions for TLC: the creator o, and a and b. *)
EXTENDS Permissions, TLC

CONSTANTS o, a, b, m0, m1, m2, m3, owner, x, y, r1, r2

AllPerms == {"*", "members:*", "roles:edit", "transaction:create"}

\* a is a member with role x; y exists as well
OneMember  == [i \in Ids |-> CASE i = m0 -> [user |-> o, roles |-> {owner}, default |-> TRUE]
                               [] i = m1 -> [user |-> a, roles |-> {x}, default |-> FALSE]
                               [] OTHER  -> None]
RoleX == [z \in Roles |-> CASE z = owner -> {"*"}
                            [] z = x     -> {"transaction:create"}
                            [] z = y     -> {"members:*"}
                            [] OTHER     -> None]
\* A workspace as create makes it.
OnlyCreator   == [i \in Ids |-> IF i = m0 THEN Creator ELSE None]
OnlyOwnerRole == [z \in Roles |-> IF z = owner THEN {"*"} ELSE None]

NoPerms  == {{}}
TwoLists == {{}, {"members:*"}}

\* one client uses the workspace while another changes members and roles
Apart == [r \in Requests |-> IF r = r1 THEN {"use"}
                             ELSE {"updateRole", "createRole", "updateMember", "assignRole",
                                   "deleteRole", "removeMember", "invite"}]
Races == [r \in Requests |-> {"assignRole", "removeMember"}]
=============================================================================
