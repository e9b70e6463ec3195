SPECIFICATION Spec
CONSTANTS
    RxTxCount = 2
    AckMsgTime = 2
    InitDownCounter = 2
    ChannelCheckInterval = 2
    MaxRetranCount = 2
    TransmissionTimes = {2}
    GenIntervals = {0, 6}
    MaxPackets = 1
    TargetSimTime = 30
    InitialPhaseTime = 4
    Runs = 1
    TargetReceived = 0
    TargetLost = 0
    TargetPerPercent = 0
    TargetRetranPercent = 0
PROPERTIES
    AwaitTimeOfReceivedOnly
