SPECIFICATION FairSpec
CONSTANTS
    g1 = g1
    g2 = g2
    p1 = p1
    k1 = k1
    k2 = k2
    e1 = e1
    e2 = e2
    t1 = t1
    t2 = t2
    Executions = {e1, e2}
    Tasks = {t1, t2}
    Kinds = {k1}
    Issued <- MCIssued
    TaskOf <- MCTaskOf
    Grants = {g1}
    Providers = {p1}
    Costs = {2}
    Spends = {1, 4}
    PeriodDays = {1}
    Limits = {4}
    NumPolicies = 1
    Plan = "one"
    MaxDay = 0
    MaxUsed = 9
    Ids = "own"
    MaxRestarts = 1
INVARIANTS TypeOK ReservationsAreOwned WorkIsFunded UsageIsSpend
PROPERTY ReservationsEnd
