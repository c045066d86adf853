SPECIFICATION CatalogSpec
CONSTANTS
    old = old
    new = new
    tts = tts
    beta = beta
    chat = chat
    code = code
    speech = speech
    Models = {old, new, tts, beta}
    PatternFamily <- MCFamilyOf
    TierOf <- MCTierOf
    Groups <- MCGroups
    Rank <- MCRank
    TaskKinds = {chat, code, speech}
    Graph <- MCGraph
    Listings <- MCListings
    Selections <- MCSelections
    Availables <- MCAvailables
    PricingFetch = TRUE
    j1 = j1
    j2 = j2
    Jobs = {j1, j2}
    MaxCalls = 4
SYMMETRY Alike
INVARIANTS CatalogTypeOK CapabilitiesMatch
PROPERTIES SelectedStayClassified
