SPECIFICATION Spec
CONSTANTS
    d1 = d1
    d2 = d2
    e1 = e1
    e2 = e2
    e3 = e3
    NoEnv = NoEnv
    NoResponse = NoResponse
    Device <- TwoDevices
    Env <- TwoEnvs
    Author <- AuthorOf
    Sealed <- JustE1
    KeyHolders <- JustD1
    Quota = 3
    Demotable <- JustD1
    MaxRestore = 0
    MaxLoss = 1
    MaxCrash = 1
    OverlappingRestores = FALSE
INVARIANT TypeOK
INVARIANT NoSilentSkip
INVARIANT AckedIsStored
INVARIANT MirrorSeqIsCurrent
PROPERTY NoFalseWriteLost
PROPERTY ImplementsLog
