SPECIFICATION HistorySpec
CONSTANTS
    RxTxCount = 2
    AckMsgTime = 2
    InitDownCounter = 2
    ChannelCheckInterval = 2
    MaxRetranCount = 2
    TransmissionTimes = {2}
    GenIntervals = {0, 6}
    MaxPackets = 2
    TargetSimTime = 26
    InitialPhaseTime = 6
    Runs = 2
    TargetReceived = 2
    TargetLost = 0
    TargetPerPercent = 0
    TargetRetranPercent = 100
INVARIANTS
    TotalsMatchReceived
    TargetReceivedIsExact
