SPECIFICATION FairSpec
CONSTANTS
    d1 = d1
    d2 = d2
    e1 = e1
    e2 = e2
    e3 = e3
    NoEnv = NoEnv
    NoResponse = NoResponse
    Device <- TwoDevices
    Env <- TwoEnvs
    Author <- AuthorOf
    Sealed <- Nobody
    KeyHolders <- TwoDevices
    Quota = 2
    Demotable <- Nobody
    MaxRestore = 0
    MaxLoss = 1
    MaxCrash = 0
    OverlappingRestores = FALSE
PROPERTY SavedReachesStore
PROPERTY StoredReachesAll
PROPERTY AckedIsSettled
