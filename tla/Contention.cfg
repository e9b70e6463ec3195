SPECIFICATION FairSpec
CONSTANTS
    RxTxCount = 2
    AckMsgTime = 2
    InitDownCounter = 4
    ChannelCheckInterval = 2
    MaxRetranCount = 2
    TransmissionTimes = {2, 3}
    GenIntervals = {0, 4}
    MaxPackets = 1
    TargetSimTime = 50
    InitialPhaseTime = 50
    Runs = 2
    TargetReceived = 0
    TargetLost = 0
    TargetPerPercent = 0
    TargetRetranPercent = 0
INVARIANTS
    AckAlone
    OverlapIsRecorded
    CounterStartsTransmission
PROPERTIES
    PairUsesChannelOnce
    ProbeIsDecidedAtOnce
    NoStrandedTransmitter
    RunEnds
    EveryPacketLeaves
