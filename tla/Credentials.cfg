SPECIFICATION Spec
CONSTANTS
    r1 = r1
    r2 = r2
    c1 = c1
    c2 = c2
    s1 = s1
    s2 = s2
    p1 = p1
    p2 = p2
    app = app
    email = email
    v1 = v1
    v2 = v2
    Requests = {r1, r2}
    RouteSets <- Together
    Codes = {c1, c2}
    Secrets = {s1, s2}
    Passwords = {p1, p2}
    App = app
    Mailed = {email}
    None = None
    Visits = {v1, v2}
    Fields = {"theme", "language"}
    Choices = {"usual", "other"}
    Unset = "unset"
    Default <- LightEnglish
    NoRow = NoRow
INVARIANTS TwoFactorWhole SingleUse ReuseBounded PasswordAsChosen PreferencesAsSaved
SYMMETRY Interchangeable
CHECK_DEADLOCK FALSE
