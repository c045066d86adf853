SPECIFICATION Spec
CONSTANTS
    prov = prov
    mod = mod
    other = other
    Loop = loop
    Threads = {t1}
    None = None
    Policies <- MCPolicies
    Requests <- MCRequests
    Operations <- MCSuspensions
    MaxVersion = 4
    MaxCalls = 3
    MaxRestarts = 1
INVARIANT SuspensionHolds
CHECK_DEADLOCK FALSE
