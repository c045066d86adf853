SPECIFICATION Spec
CONSTANTS
    g1 = g1
    g2 = g2
    p1 = p1
    k1 = k1
    k2 = k2
    e1 = e1
    e2 = e2
    t1 = t1
    t2 = t2
    Executions = {e1, e2}
    Tasks = {t1, t2}
    Kinds = {k1, k2}
    Issued <- MCIssued
    TaskOf <- MCTaskOf
    Grants = {g1, g2}
    Providers = {p1}
    Costs = {2}
    Spends = {3}
    PeriodDays = {1}
    Limits = {3}
    NumPolicies = 2
    Plan = "next"
    MaxDay = 1
    MaxUsed = 9
    Ids = "own"
    MaxRestarts = 0
SYMMETRY Places
INVARIANTS WithinCeiling Conservation
PROPERTY KeepsSettlement
