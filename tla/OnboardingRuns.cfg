SPECIFICATION Spec
CONSTANTS
  a1 = a1
  Apis = {a1}
  MaxRuns = 3
  MaxIds = 2
  MaxCrashes = 0
  MaxPollErrors = 1
  PreemptTransition = TRUE
INVARIANT InflightIsCurrentRun
PROPERTY KeepsRunsPromise
