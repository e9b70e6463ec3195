SPECIFICATION ProgramSpec
CONSTANTS
    kA = 3
    kM = 31
    kQ = 10
    kR = 1
    RxTxCount = 1
    Repeats = 2
    NumericalDistance = 2
    MaxDraws = 2
    ObjectPairs = 2
    Addresses = {1, 2, 3}
    ObjectRuns = 2
    StartingKernels <- MCStartingKernels
    OldFiles <- MCOldFiles
INVARIANTS
    RunsAreSeeded
    DrawsAreProducts
    SeedsServeTheRuns
    ObjectsAreOwned
CHECK_DEADLOCK FALSE
