SPECIFICATION PricingSpec
CONSTANTS
    m1 = m1
    r1 = r1
    r2 = r2
    Models = {m1}
    FamilyOf <- MCFamilyOf
    Builtin <- MCBuiltin
    Refreshes = {r1, r2}
    Scraped <- MCScraped
    Given <- MCGiven
    Edited <- MCEdited
    MaxRate = 2
    Interval = 1
    Tolerance = 1
    MaxTime = 1
    MaxBegun = 4
SYMMETRY Interchangeable
INVARIANT PricingTypeOK
PROPERTIES LaterRefreshesKeep EditsStand
