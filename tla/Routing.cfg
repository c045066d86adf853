SPECIFICATION RoutingSpec
CONSTANTS
    local = local
    openai = openai
    a = a
    b = b
    None = None
    Sorted <- MCSorted
    Openai = openai
    Models = {a, b}
    Verdicts = {"available", "unavailable"}
    ModelLists <- MCListings
    Preferences <- MCPreferences
    DefaultModel <- MCDefaultModel
    Limit <- MCLimit
    Retries = 1
    EnabledLists <- MCEnabledLists
    Bundles <- MCBundles
    Requests <- MCRequests
    Tasks = {1,2}
    RefreshJobs = {1}
    MaxRefreshes = 1
    MaxChanges = 1
    MaxRestarts = 1
INVARIANTS RoutingTypeOK SteadyAreTried ResolvesIfServed
PROPERTY ExecutionsEnd
CHECK_DEADLOCK FALSE
