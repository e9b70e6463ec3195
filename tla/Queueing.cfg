SPECIFICATION Spec
CONSTANTS
    RxTxCount = 2
    AckMsgTime = 1
    InitDownCounter = 2
    ChannelCheckInterval = 2
    MaxRetranCount = 2
    TransmissionTimes = {2}
    GenIntervals = {0, 3}
    MaxPackets = 2
    TargetSimTime = 36
    InitialPhaseTime = 36
    Runs = 1
    TargetReceived = 0
    TargetLost = 0
    TargetPerPercent = 0
    TargetRetranPercent = 0
INVARIANTS
    TransmissionHasItsEnd
    ListeningCoversAck
    TimeoutMeansFailure
    TimestampsOrdered
PROPERTIES
    DeliverySpec
