SPECIFICATION Spec
CONSTANTS
    r1 = r1
    r2 = r2
    free = free
    pro = pro
    b1 = b1
    b2 = b2
    mock = mock
    w1 = w1
    w2 = w2
    home = home
    shop = shop
    Requests = {r1, r2}
    RouteSets <- Together
    Plans = {free, pro}
    FreePlan = free
    Limits = {1, 2}
    Unlimited <- MinusOne
    Features <- AllFeatures
    Default <- OneByDefault
    Cap = 2
    MaxSubs = 2
    MaxThings = 4
    AtFirst <- NewWorkspace
    Careless = {b2}
    InitialOffer <- FirstOffer
    Bills = {b1, b2}
    MockBill = mock
    MayFail = TRUE
    None = None
    Spaces = {w1, w2}
    Slugs = {home, shop}
    HomeSlug = home
INVARIANTS SnapshotWasOffered ActiveIsCurrent CancelReachesGateway  WorkspaceWhole
PROPERTY VerifiedGetsHome
CHECK_DEADLOCK FALSE
