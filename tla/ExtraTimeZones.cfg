SPECIFICATION Spec
CONSTANTS
    None = None
    home = home
    east = east
    a1 = a1
    a2 = a2
    g1 = g1
    g2 = g2
    l1 = l1
    l2 = l2
    Tzs = {home, east}
    Offset <- TwoZones
    DayLen = 2
    Asks = {a1}
    Gifts = {g1}
    Gives = {}
    Takes = {}
    Ids = {a1, g1}
    Amount <- OneUnit
    SlowEvery = 1
    MaxCharge = 1
    Setups <- AlwaysManaged
    Routes = {"budget", "schedule"}
    MaxTime = 5
    MaxCrashes = 1
    MaxSaveFailures = 0
    MaxTzEdits = 1
INVARIANT YesterdaysTimeIsGone
