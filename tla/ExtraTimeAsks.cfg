SPECIFICATION FairSpec
CONSTANTS
    None = None
    home = home
    east = east
    a1 = a1
    a2 = a2
    g1 = g1
    g2 = g2
    l1 = l1
    l2 = l2
    Tzs = {home}
    Offset <- OneZone
    DayLen = 2
    Asks = {a1, a2}
    Gifts = {}
    Gives = {}
    Takes = {}
    Ids = {a1, a2}
    Amount <- OneUnit
    SlowEvery = 2
    MaxCharge = 1
    Setups <- ComesAndGoes
    Routes = {"time"}
    MaxTime = 2
    MaxCrashes = 1
    MaxSaveFailures = 0
    MaxTzEdits = 0
PROPERTY GrantsAreKept
PROPERTY EnactedReachesLedger
