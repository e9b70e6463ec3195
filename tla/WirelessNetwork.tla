-------------------------- MODULE WirelessNetwork --------------------------
(***************************************************************************)
(* The objects of the simulated network and the state they keep: the       *)
(* transmitters, the receivers, the shared channel, the statistics, and    *)
(* the timers of the timed events that are scheduled on them.              *)
(*                                                                         *)
(* Transmitter i and receiver i form the i-th pair: the network couples    *)
(* them when it is built and nothing couples them anew, so one index names *)
(* both and the pointers between them are not state.  A field of the class *)
(* Transmitter or Receiver is a function from the indices to its values.   *)
(***************************************************************************)
EXTENDS Integers, Sequences

CONSTANTS
    RxTxCount,              \* number of pairs on the channel
    AckMsgTime,             \* length of an ACK on the channel
    InitDownCounter,        \* idle time a transmitter counts down (DIFS + interval)
    ChannelCheckInterval,   \* time between two probes of the channel
    MaxRetranCount,         \* limit of the retransmission counter
    TransmissionTimes,      \* the packet lengths the generator may draw
    GenIntervals,           \* the inter-arrival times the generator may draw
    MaxPackets,             \* bound: packets generated per transmitter and run
    TargetSimTime,          \* a run simulates the clock values 0 .. TargetSimTime
    InitialPhaseTime        \* statistics are collected after this clock value

ASSUME NetworkAssumption ==
    /\ RxTxCount \in Nat \ {0}
    /\ AckMsgTime \in Nat \ {0}
    /\ InitDownCounter \in Nat \ {0}
    /\ ChannelCheckInterval \in Nat \ {0}
    /\ MaxRetranCount \in Nat \ {0}
    /\ TransmissionTimes \subseteq Nat \ {0}
    /\ GenIntervals \subseteq Nat
    /\ MaxPackets \in Nat
    /\ TargetSimTime \in Nat
    /\ InitialPhaseTime \in Nat

(* The reduction of the down counter subtracts whole check intervals and   *)
(* the transmission starts when the counter is exactly 0, so the program's *)
(* constants (55 and 5) have to divide.                                    *)
ASSUME CounterAssumption == InitDownCounter % ChannelCheckInterval = 0

(* The clock advances by one unit.                                         *)
MinimalTimeStep == 1

Pair == 0 .. RxTxCount - 1

Inactive == -1      \* the time of a timed event that is not scheduled

VARIABLES
    \* Transmitter
    buffer,             \* FIFO queue of packets; a packet is its generation time
    transmissionTime,   \* length drawn for the latest transmission
    downCounter,        \* curr_cln_time_down_counter_
    retranNum,          \* curr_retran_num_
    wasTranOk,          \* an ACK has arrived
    isBusy,             \* between the start of a transmission and its outcome
    wasChannelEmpty,    \* the previous probe found the channel idle
    isListeningFinished,\* the wait for the ACK timed out
    isActive,           \* FALSE during the back-off sleep
    isProbingActive,    \* a probe is due and not yet decided
    isChannelObserved,  \* probing has been started
    transmitTimestamp,  \* first attempt for the packet at the head, 0 if none
    \* Receiver
    wasPacketReceived, wasPacketUncorrupted, wasUncorruptedByChannel,
    \* Channel
    transmissions,      \* the transmissions in progress
    isUpdateEnabled, isChannelBusy, wasTransmitError,
    \* Statistics
    received, lost,     \* per receiver and per transmitter
    totRetranCount, totPacketAwaitTime, totPacketDelay,
    \* times of the timed events
    generatePacketTime, updateChannelTime, endPacketTime, endAckTime,
    endListeningTime, endSleepTime, probeTime,
    \* number of packets generated in this run (bounds the model only)
    generated

txVars == <<buffer, transmissionTime, downCounter, retranNum, wasTranOk, isBusy,
            wasChannelEmpty, isListeningFinished, isActive, isProbingActive,
            isChannelObserved, transmitTimestamp>>
rxVars == <<wasPacketReceived, wasPacketUncorrupted, wasUncorruptedByChannel>>
channelVars == <<transmissions, isUpdateEnabled, isChannelBusy, wasTransmitError>>
statVars == <<received, lost, totRetranCount, totPacketAwaitTime, totPacketDelay>>
timerVars == <<generatePacketTime, updateChannelTime, endPacketTime, endAckTime,
               endListeningTime, endSleepTime, probeTime>>
networkVars == <<txVars, rxVars, channelVars, statVars, timerVars, generated>>

-----------------------------------------------------------------------------
(* A transmission is a packet of transmitter i or an ACK to transmitter i. *)
(* The code keeps a vector of pointers; nothing reads its order, and a     *)
(* pair has at most one of each kind under way (PairUsesChannelOnce).      *)
PacketOf(i) == [kind |-> "packet", pair |-> i]
AckTo(i)    == [kind |-> "ack",    pair |-> i]
Transmission == [kind : {"packet", "ack"}, pair : Pair]

(* An inter-arrival time that falls beyond the end of the run; the only    *)
(* draw left once a transmitter has generated MaxPackets packets.          *)
BeyondRun == TargetSimTime + 1

GenDraws(count) == IF count < MaxPackets THEN GenIntervals \union {BeyondRun}
                                         ELSE {BeyondRun}

-----------------------------------------------------------------------------
(* A network as its constructors and the first reset leave it.             *)

TransmitterFresh ==
    /\ buffer = [i \in Pair |-> <<>>]
    /\ transmissionTime = [i \in Pair |-> -1]
    /\ downCounter = [i \in Pair |-> InitDownCounter]
    /\ retranNum = [i \in Pair |-> 0]
    /\ wasTranOk = [i \in Pair |-> FALSE]
    /\ isBusy = [i \in Pair |-> FALSE]
    /\ wasChannelEmpty = [i \in Pair |-> FALSE]
    /\ isListeningFinished = [i \in Pair |-> FALSE]
    /\ isActive = [i \in Pair |-> TRUE]
    /\ isProbingActive = [i \in Pair |-> FALSE]
    /\ isChannelObserved = [i \in Pair |-> FALSE]
    /\ transmitTimestamp = [i \in Pair |-> 0]

ReceiverFresh ==
    /\ wasPacketReceived = [i \in Pair |-> FALSE]
    /\ wasPacketUncorrupted = [i \in Pair |-> FALSE]
    /\ wasUncorruptedByChannel = [i \in Pair |-> FALSE]

ChannelFresh ==
    /\ transmissions = {}
    /\ isUpdateEnabled = FALSE
    /\ isChannelBusy = FALSE
    /\ wasTransmitError = FALSE

StatisticsFresh ==
    /\ received = [i \in Pair |-> 0]
    /\ lost = [i \in Pair |-> 0]
    /\ totRetranCount = 0
    /\ totPacketAwaitTime = 0
    /\ totPacketDelay = 0

TimersFresh ==
    /\ generatePacketTime \in [Pair -> GenDraws(0)]
    /\ updateChannelTime = 0
    /\ endPacketTime = [i \in Pair |-> Inactive]
    /\ endAckTime = [i \in Pair |-> Inactive]
    /\ endListeningTime = [i \in Pair |-> Inactive]
    /\ endSleepTime = [i \in Pair |-> Inactive]
    /\ probeTime = [i \in Pair |-> Inactive]

NetworkFresh ==
    /\ TransmitterFresh /\ ReceiverFresh /\ ChannelFresh
    /\ StatisticsFresh /\ TimersFresh
    /\ generated = [i \in Pair |-> 0]

-----------------------------------------------------------------------------
(* What the reset before every further run does to each object.            *)

TransmitterReset ==
    /\ buffer' = [i \in Pair |-> <<>>]
    /\ transmissionTime' = [i \in Pair |-> -1]
    /\ downCounter' = [i \in Pair |-> InitDownCounter]
    /\ retranNum' = [i \in Pair |-> 0]
    /\ wasTranOk' = [i \in Pair |-> FALSE]
    /\ isBusy' = [i \in Pair |-> FALSE]
    /\ wasChannelEmpty' = [i \in Pair |-> FALSE]
    /\ isListeningFinished' = [i \in Pair |-> FALSE]
    /\ isActive' = [i \in Pair |-> TRUE]
    /\ isProbingActive' = [i \in Pair |-> FALSE]
    /\ isChannelObserved' = [i \in Pair |-> FALSE]
    /\ transmitTimestamp' = [i \in Pair |-> 0]

ReceiverReset ==
    /\ wasPacketReceived' = [i \in Pair |-> FALSE]
    /\ wasPacketUncorrupted' = [i \in Pair |-> FALSE]
    /\ wasUncorruptedByChannel' = [i \in Pair |-> FALSE]

(* Seeded defect: the transmissions of the run before stay.                *)
ChannelResetKeeping ==
    /\ UNCHANGED transmissions
    /\ isUpdateEnabled' = FALSE
    /\ isChannelBusy' = FALSE
    /\ wasTransmitError' = FALSE

ChannelReset ==
    /\ transmissions' = {}
    /\ isUpdateEnabled' = FALSE
    /\ isChannelBusy' = FALSE
    /\ wasTransmitError' = FALSE

StatisticsReset ==
    /\ received' = [i \in Pair |-> 0]
    /\ lost' = [i \in Pair |-> 0]
    /\ totRetranCount' = 0
    /\ totPacketAwaitTime' = 0
    /\ totPacketDelay' = 0

(* Every generator draws its first arrival, the channel update is due at   *)
(* once, and every other timed event is switched off.                      *)
TimersReset ==
    /\ generatePacketTime' \in [Pair -> GenDraws(0)]
    /\ updateChannelTime' = 0
    /\ endPacketTime' = [i \in Pair |-> Inactive]
    /\ endAckTime' = [i \in Pair |-> Inactive]
    /\ endListeningTime' = [i \in Pair |-> Inactive]
    /\ endSleepTime' = [i \in Pair |-> Inactive]
    /\ probeTime' = [i \in Pair |-> Inactive]

NetworkReset ==
    /\ TransmitterReset /\ ReceiverReset /\ ChannelReset
    /\ StatisticsReset /\ TimersReset
    /\ generated' = [i \in Pair |-> 0]

-----------------------------------------------------------------------------
TransmitterTypeOK ==
    /\ buffer \in [Pair -> Seq(Nat)]
    /\ transmissionTime \in [Pair -> TransmissionTimes \union {-1}]
    /\ downCounter \in [Pair -> Int]
    /\ retranNum \in [Pair -> Nat]
    /\ wasTranOk \in [Pair -> BOOLEAN]
    /\ isBusy \in [Pair -> BOOLEAN]
    /\ wasChannelEmpty \in [Pair -> BOOLEAN]
    /\ isListeningFinished \in [Pair -> BOOLEAN]
    /\ isActive \in [Pair -> BOOLEAN]
    /\ isProbingActive \in [Pair -> BOOLEAN]
    /\ isChannelObserved \in [Pair -> BOOLEAN]
    /\ transmitTimestamp \in [Pair -> Nat]

ReceiverTypeOK ==
    /\ wasPacketReceived \in [Pair -> BOOLEAN]
    /\ wasPacketUncorrupted \in [Pair -> BOOLEAN]
    /\ wasUncorruptedByChannel \in [Pair -> BOOLEAN]

ChannelTypeOK ==
    /\ transmissions \subseteq Transmission
    /\ isUpdateEnabled \in BOOLEAN
    /\ isChannelBusy \in BOOLEAN
    /\ wasTransmitError \in BOOLEAN

StatisticsTypeOK ==
    /\ received \in [Pair -> Nat]
    /\ lost \in [Pair -> Nat]
    /\ totRetranCount \in Nat
    /\ totPacketAwaitTime \in Int
    /\ totPacketDelay \in Int

EventTime == Nat \union {Inactive}

TimersTypeOK ==
    /\ generatePacketTime \in [Pair -> Nat]
    /\ updateChannelTime \in Nat
    /\ endPacketTime \in [Pair -> EventTime]
    /\ endAckTime \in [Pair -> EventTime]
    /\ endListeningTime \in [Pair -> EventTime]
    /\ endSleepTime \in [Pair -> EventTime]
    /\ probeTime \in [Pair -> EventTime]

NetworkTypeOK ==
    /\ TransmitterTypeOK /\ ReceiverTypeOK /\ ChannelTypeOK
    /\ StatisticsTypeOK /\ TimersTypeOK
    /\ generated \in [Pair -> Nat]
=============================================================================
