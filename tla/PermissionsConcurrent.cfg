SPECIFICATION FairSpec
CONSTANTS
    o = o
    a = a
    b = b
    m0 = m0
    m1 = m1
    m2 = m2
    m3 = m3
    owner = owner
    x = x
    y = y
    r1 = r1
    r2 = r2
    Users = {o, a}
    Owner = o
    Ids = {m0, m1}
    CreatorId = m0
    Roles = {owner, x}
    OwnerRole = owner
    Perms <- AllPerms
    Bodies <- TwoLists
    FirstMembers <- OnlyCreator
    FirstRoles <- OnlyOwnerRole
    Requests = {r1, r2}
    Routes <- Apart
    None = None
    Miss = Miss
CHECK_DEADLOCK FALSE
INVARIANT CreatorStands
INVARIANT CacheEarned
PROPERTY StaleDiesOut
