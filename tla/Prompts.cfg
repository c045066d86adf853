SPECIFICATION Spec
CONSTANTS
    prov = prov
    mod = mod
    other = other
    Loop = loop
    Threads = {t1, t2}
    None = None
    Policies <- MCPolicies
    Requests <- MCRequests
    Operations <- MCOperations
    MaxVersion = 4
    MaxCalls = 3
    MaxRestarts = 1
SYMMETRY Pool
INVARIANTS TypeOK CurrentVersionExists AloneSticks
CHECK_DEADLOCK FALSE
