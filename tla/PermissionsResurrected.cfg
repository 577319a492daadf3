SPECIFICATION Spec
CONSTANTS
    o = o
    a = a
    b = b
    m0 = m0
    m1 = m1
    m2 = m2
    m3 = m3
    owner = owner
    x = x
    y = y
    r1 = r1
    r2 = r2
    Users = {o, a}
    Owner = o
    Ids = {m0, m1}
    CreatorId = m0
    Roles = {owner, x, y}
    OwnerRole = owner
    Perms <- AllPerms
    Bodies <- NoPerms
    FirstMembers <- OneMember
    FirstRoles <- RoleX
    Requests = {r1, r2}
    Routes <- Races
    None = None
    Miss = Miss
PROPERTY DeletedStaysDeleted
CHECK_DEADLOCK FALSE
