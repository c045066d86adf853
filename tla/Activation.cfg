SPECIFICATION FairSpec
CONSTANTS
    Calls = {"c1", "c2"}
    MaxTrusts = 2
    MaxCrashes = 1
    MaxAttempts = 2
    QuietWipes = TRUE
INVARIANTS TypeOK OperationalIsAccepted RestartsBounded
PROPERTY HealsItself
