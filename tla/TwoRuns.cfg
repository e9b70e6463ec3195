SPECIFICATION HistorySpec
CONSTANTS
    RxTxCount = 2
    AckMsgTime = 2
    InitDownCounter = 4
    ChannelCheckInterval = 2
    MaxRetranCount = 2
    TransmissionTimes = {2, 3}
    GenIntervals = {0, 3, 6}
    MaxPackets = 1
    TargetSimTime = 44
    InitialPhaseTime = 0
    Runs = 2
    TargetReceived = 2
    TargetLost = 1
    TargetPerPercent = 100
    TargetRetranPercent = 0
INVARIANTS
    TypeOK
    StatisticsInv
    BusyFlagIsSnapshot
    AttemptsCounted
    PacketsAreConserved
    ReportIsSound
PROPERTIES
    StartsAfterIdle
