SPECIFICATION FairSpec
CONSTANTS
    d1 = d1
    d2 = d2
    e1 = e1
    e2 = e2
    e3 = e3
    NoEnv = NoEnv
    NoResponse = NoResponse
    Device <- TwoDevices
    Env <- OneEnv
    Author <- AuthorOf
    Sealed <- Nobody
    KeyHolders <- TwoDevices
    Quota = 3
    Demotable <- Nobody
    MaxRestore = 0
    MaxLoss = 1
    MaxCrash = 1
    OverlappingRestores = FALSE
PROPERTY InflightIsResolved
