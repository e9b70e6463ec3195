------------------------ MODULE SimulationProperties ------------------------
(***************************************************************************)
(* What the simulator has to get right, stated over the state of module    *)
(* Simulation alone.                                                       *)
(***************************************************************************)
EXTENDS Simulation

Sending(i) == PacketOf(i) \in transmissions
Acking(i)  == AckTo(i) \in transmissions

(* Time the packet of transmitter i has been on the channel.               *)
Elapsed(i) == transmissionTime[i] - endPacketTime[i]

(* The carrier-sense flag has been refreshed for the present clock value.  *)
Sensed == updateChannelTime # 0 /\ ~isUpdateEnabled

-----------------------------------------------------------------------------
(* The channel.                                                            *)

(* Every transmission on the channel has its end scheduled and every       *)
(* scheduled end has its transmission: none stays on the channel for ever  *)
(* and no end event uses a transmission that was deleted.                  *)
TransmissionHasItsEnd ==
    \A i \in Pair :
        /\ Sending(i) <=> endPacketTime[i] # Inactive
        /\ Acking(i) <=> endAckTime[i] # Inactive

(* A pair never starts a transmission while one of its own is under way,   *)
(* which would lose the end of the earlier one.                            *)
PairUsesChannelOnce ==
    [][\A i \in Pair :
          \/ TransmitAck(i)
          \/ StartRetransmission(i)
          \/ StartTransmission(i)
          => ~Sending(i) /\ ~Acking(i)]_vars

(* An ACK has the channel to itself from its first to its last moment,     *)
(* although nobody senses the channel before sending one: this is why      *)
(* EndAckTransmission does not look at the collision flag.                 *)
AckAlone ==
    \A i \in Pair : Acking(i) => transmissions = {AckTo(i)}

(* Packets that overlap were started at the same clock value: a            *)
(* transmitter never starts over a transmission it could have sensed.      *)
OverlapsStartTogether ==
    \A i, j \in Pair : Sending(i) /\ Sending(j) => Elapsed(i) = Elapsed(j)

(* A packet is found uncorrupted only if it is alone on the channel when   *)
(* it ends, and any overlap is recorded before the clock advances.         *)
OverlapIsRecorded ==
    Overlap => \/ wasTransmitError
               \/ \A i \in Pair : Sending(i) => Elapsed(i) = 0

(* The carrier-sense flag is clear only if nothing was on the channel when *)
(* the clock reached its value: what is there has started since.           *)
IdleFlagIsCurrent ==
    Sensed /\ ~isChannelBusy =>
        /\ \A i \in Pair : ~Acking(i) /\ (Sending(i) => Elapsed(i) = 0)
        /\ \A i \in Pair : ~TransmitAckTriggered(i)

-----------------------------------------------------------------------------
(* Stop and wait.                                                          *)

(* The wait for an ACK outlasts the packet and its ACK by one step, however *)
(* the scan orders the events of one clock value.                          *)
ListeningCoversAck ==
    \A i \in Pair :
        /\ Sending(i) => endListeningTime[i] = endPacketTime[i] + AckMsgTime + 1
        /\ TransmitAckTriggered(i) => endListeningTime[i] = AckMsgTime + 1
        /\ Acking(i) => endListeningTime[i] = endAckTime[i] + 1
        /\ wasTranOk[i] => endListeningTime[i] = 1

(* When the wait for the ACK ends no ACK is there, under way or to come:   *)
(* the transmitter gives up or repeats only packets that were not          *)
(* accepted.                                                               *)
TimeoutMeansFailure ==
    \A i \in Pair :
        isListeningFinished[i] =>
            /\ ~wasTranOk[i]
            /\ ~Sending(i) /\ ~Acking(i)
            /\ ~TransmitAckTriggered(i)

(* The head of the buffer exists whenever the code takes it, and it was    *)
(* generated before its first transmission: the unsigned differences added *)
(* to the statistics never wrap around.                                    *)
TimestampsOrdered ==
    \A i \in Pair :
        /\ isBusy[i] \/ retranNum[i] > 0 =>
              /\ buffer[i] # <<>>
              /\ Head(buffer[i]) < transmitTimestamp[i]
              /\ transmitTimestamp[i] <= clock
        /\ SuccessTriggered(i) => DelayTime(i) > AwaitTime(i)
        /\ transmitTimestamp[i] # 0 <=> isBusy[i] \/ retranNum[i] > 0

(* Whoever has a packet to send is waiting for something that will come:   *)
(* when the clock advances, a timer of its own is running.                 *)
NoStrandedTransmitter ==
    [][clock' > clock =>
          \A i \in Pair :
              buffer[i] # <<>> =>
                  \/ isBusy[i] /\ endListeningTime[i] > 0
                  \/ ~isActive[i] /\ endSleepTime[i] > 0
                  \/ isChannelObserved[i] /\ probeTime[i] > 0]_vars

(* A probe is decided within the clock value it is made in, on the channel *)
(* state of that clock value, and only by a transmitter that contends.     *)
ProbeIsDecidedAtOnce ==
    /\ [][clock' # clock => \A i \in Pair : ~isProbingActive[i]]_vars
    /\ [][\A i \in Pair : isProbingActive'[i] =>
              /\ isActive'[i] /\ ~isBusy'[i] /\ isChannelObserved'[i]
              /\ Sensed']_vars

(* The down counter reaches 0 exactly, in a scan that found the channel    *)
(* idle, and the transmission starts before the scan is over.              *)
CounterStartsTransmission ==
    \A i \in Pair :
        /\ downCounter[i] \in 0 .. InitDownCounter
        /\ downCounter[i] = 0 /\ ~isBusy[i] => /\ stage >= 17
                                               /\ Sensed /\ ~isChannelBusy

-----------------------------------------------------------------------------
(* The abstract view of a pair: its receiver has accepted the packet at    *)
(* the head if the ACK for it is on the channel or has arrived.            *)
headAccepted == [i \in Pair |-> Acking(i) \/ wasTranOk[i]]

Delivery == INSTANCE PacketDelivery
              WITH Packet <- 0 .. TargetSimTime,  \* the generation times
                   MaxFailures <- MaxRetranCount, queue <- buffer,
                   accepted <- headAccepted, failures <- retranNum

(* The simulator implements PacketDelivery: every packet is accepted at    *)
(* most once, in order, and is not given up once it was accepted.          *)
DeliverySpec == Delivery!Spec

-----------------------------------------------------------------------------
(* Runs.                                                                   *)

(* The target for received packets is looked at once per clock value, yet  *)
(* it is never overshot: no two packets are accepted at one clock value.   *)
TargetReceivedIsExact ==
    TargetReceived > 0 => Total(received) <= TargetReceived

-----------------------------------------------------------------------------
(* Under FairSpec.                                                         *)

(* Every scan comes to an end and every run reaches its last clock value.  *)
RunEnds == running ~> ~running

(* In a run that is long enough every packet leaves its transmitter, with  *)
(* an ACK or as lost.                                                      *)
EveryPacketLeaves == \A i \in Pair : buffer[i] # <<>> ~> buffer[i] = <<>>

-----------------------------------------------------------------------------
(* transmitter.h:61 says that a packet is removed when the counter is      *)
(* greater than the maximum number of permitted retransmissions.           *)
RemovedAboveLimitOnly ==
    [][\A i \in Pair : RemoveLostPacket(i) => retranNum[i] > MaxRetranCount]_vars

(* statistics.h:47 says that the await time is that of packets received.   *)
AwaitTimeOfReceivedOnly ==
    [][totPacketAwaitTime' # totPacketAwaitTime /\ running =>
          \E i \in Pair : SuccessfulPacketTransmission(i)]_vars
=============================================================================
