SPECIFICATION HistorySpec
CONSTANTS
    RxTxCount = 3
    AckMsgTime = 2
    InitDownCounter = 4
    ChannelCheckInterval = 2
    MaxRetranCount = 2
    TransmissionTimes = {2, 3}
    GenIntervals = {0}
    MaxPackets = 1
    TargetSimTime = 26
    InitialPhaseTime = 26
    Runs = 1
    TargetReceived = 0
    TargetLost = 0
    TargetPerPercent = 0
    TargetRetranPercent = 0
INVARIANTS
    OverlapsStartTogether
PROPERTIES
    ReceptionMatchesOverlap
