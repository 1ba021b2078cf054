SPECIFICATION Spec
CONSTANTS
    None = None
    home = home
    east = east
    a1 = a1
    a2 = a2
    g1 = g1
    g2 = g2
    l1 = l1
    l2 = l2
    Tzs = {home}
    Offset <- OneZone
    DayLen = 2
    Asks = {}
    Gifts = {g1}
    Gives = {l1}
    Takes = {l2}
    Ids = {g1, l1, l2}
    Amount <- OneUnit
    SlowEvery = 2
    MaxCharge = 1
    Setups <- InOrOut
    Routes = {"schedule"}
    MaxTime = 3
    MaxCrashes = 1
    MaxSaveFailures = 1
    MaxTzEdits = 0
INVARIANT CreditedOnce
INVARIANT SpentWithinGiven
