SPECIFICATION FairSpec
CONSTANTS
    c1 = c1
    c2 = c2
    e1 = e1
    p1 = p1
    h1 = h1
    q1 = q1
    usd = usd
    eur = eur
    inr = inr
    RouteSets <- Apart
    Calls = {c1, c2}
    Exports = {e1}
    MaxCrashes = 1
    None = None
    Currencies = {usd, eur, inr}
    USD = usd
    Bases = {usd}
    Procs = {p1}
    ByHand = {h1}
    Conversions = {q1}
INVARIANTS EntriesAreOpen AnswerIsTheirs RateStaysFound
PROPERTIES CallsAreSettled ExportIsTried
CHECK_DEADLOCK FALSE
