CONSTANTS
    Calls = {c1}
    VendorIds <- MCVendorIds
    Adapters <- MCAdapters
    Registrable <- MCRegistrable
    Rpcs <- MCRpcs
    SentIds <- MCSentIds
    MaxFrames = 2
    Skew = 1
    Drift = 1
    Lifetime = 1
    MaxTime = 3
SPECIFICATION Spec
INVARIANTS TypeOK SameBothWays AdvertisedRuns ServedIsAdvertised AnswerTruthful StreamIntact 
PROPERTIES FreshAccepted OnlyValidAdmitted
