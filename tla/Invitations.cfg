SPECIFICATION Spec
CONSTANTS
    u1 = u1
    u2 = u2
    i1 = i1
    i2 = i2
    i3 = i3
    k1 = k1
    k2 = k2
    k3 = k3
    r1 = r1
    r2 = r2
    Users = {u1, u2}
    Registered = {u1}
    Owners = {u1}
    Invites = {i1, i2, i3}
    Tokens = {k1, k2, k3}
    Requests = {r1, r2}
    Routes = {"invite", "resend", "cancel", "view", "mine", "accept", "decline", "remove", "register"}
    HasAcceptedBy = TRUE
    MayFail = TRUE
    None = None
INVARIANTS TypeOK MembersWereInvited PendingBounded
PROPERTY ReopenedAfresh
SYMMETRY SymmetricIds
CHECK_DEADLOCK FALSE
