SPECIFICATION Spec
CONSTANTS
    d1 = d1
    d2 = d2
    e1 = e1
    e2 = e2
    e3 = e3
    NoEnv = NoEnv
    NoResponse = NoResponse
    Device <- TwoDevices
    Env <- OneEnv
    Author <- AuthorOf
    Sealed <- Nobody
    KeyHolders <- TwoDevices
    Quota = 3
    Demotable <- JustD1
    MaxRestore = 2
    MaxLoss = 0
    MaxCrash = 1
    OverlappingRestores = TRUE
INVARIANT RowInv
