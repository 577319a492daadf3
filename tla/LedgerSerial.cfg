SPECIFICATION Spec
CONSTANTS
    p1 = p1
    p2 = p2
    r1 = r1
    r2 = r2
    c1 = c1
    c2 = c2
    a1 = a1
    a2 = a2
    t1 = t1
    t2 = t2
    t3 = t3
    m1 = m1
    m2 = m2
    Procs = {p1}
    Requests = {r1}
    Clients = {c1}
    Home <- OneProcess
    Accounts = {a1, a2}
    Existing = {a1}
    Txns = {t1, t2}
    Amounts = {m1, m2}
    Edits <- MoveEdits
    Routes = {"create", "update", "delete", "link", "unlink", "transfer", "stats", "createAccount", "renameAccount", "deleteAccount"}
    MayFail = FALSE
    NoRow = NoRow
    Gone = Gone
    Same = Same
    Free = Free
    Miss = Miss
    Keep = Keep
    Unborn = Unborn
    Single = Single
INVARIANT BalancesAgree
INVARIANT LinksMutual
INVARIANT CacheTruthful
SYMMETRY SymmetricTxns
