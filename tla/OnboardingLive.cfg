SPECIFICATION FairSpec
CONSTANTS
  a1 = a1
  Apis = {a1}
  MaxRuns = 2
  MaxIds = 4
  MaxCrashes = 1
  MaxPollErrors = 2
  PreemptTransition = FALSE
INVARIANTS TypeOK PendingIsCurrentSession RegistrationIsDriven
PROPERTY RegistrationSettles
