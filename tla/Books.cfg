SPECIFICATION Spec
CONSTANTS
    r1 = r1
    r2 = r2
    q1 = q1
    k1 = k1
    k2 = k2
    k3 = k3
    f1 = f1
    f2 = f2
    g1 = g1
    g2 = g2
    Requests = {r1, r2}
    RouteSets <- Together
    Txns = {1, 2, 3}
    Dates = {1, 2}
    Cats = {k1, k2, k3}
    FirstCats = {k1, k2}
    FirstRows <- TwoRows
    None = None
    Readers = {q1}
    Limit = 1
    Uploads = {g1, g2}
    Files = {f1, f2}
    NoFile = NoFile
INVARIANTS StrippedWereLate EachSeenOnce ObjectsMatchRows
SYMMETRY Interchangeable
CHECK_DEADLOCK FALSE
