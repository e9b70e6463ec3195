------------------------ MODULE SimulationInvariant ------------------------
(***************************************************************************)
(* The inductive invariant behind the safety properties of module          *)
(* SimulationProperties.  LinkInv is about the timers and flags of one     *)
(* pair, ContendInv about how a transmitter contends for the channel,      *)
(* CarrierInv about the channel and the order of the scan, ProbeInv and    *)
(* CountInv about the probes of a transmitter and its count-down, AwaitInv *)
(* about the time a packet has waited.                                     *)
(***************************************************************************)
EXTENDS SimulationProperties

(* The wait for an ACK runs from the start of a transmission to its        *)
(* outcome, in step with the packet and then with its ACK.                 *)
Link(i) ==
    /\ Sending(i) <=> endPacketTime[i] # Inactive
    /\ Acking(i) <=> endAckTime[i] # Inactive
    /\ isBusy[i] <=> endListeningTime[i] # Inactive \/ isListeningFinished[i]
    /\ isListeningFinished[i] => endListeningTime[i] = Inactive
    /\ isBusy[i] => transmissionTime[i] \in TransmissionTimes
    /\ retranNum[i] <= MaxRetranCount
    /\ retranNum[i] = MaxRetranCount => isListeningFinished[i]
    /\ Sending(i) => /\ ~Acking(i) /\ ~wasTranOk[i] /\ ~TransmitAckTriggered(i)
                     /\ endListeningTime[i] = endPacketTime[i] + AckMsgTime + 1
                     /\ endPacketTime[i] <= transmissionTime[i]
    /\ TransmitAckTriggered(i) => /\ ~Acking(i) /\ ~wasTranOk[i]
                                  /\ endListeningTime[i] = AckMsgTime + 1
    /\ Acking(i) => /\ ~wasTranOk[i]
                    /\ endListeningTime[i] = endAckTime[i] + 1
    /\ wasTranOk[i] => endListeningTime[i] = 1

LinkInv == \A i \in Pair : Link(i)

(* Only an active, idle transmitter with a packet observes the channel,    *)
(* and only then does its counter leave the initial value.                 *)
Contend(i) ==
    /\ isChannelObserved[i] <=> probeTime[i] # Inactive
    /\ isChannelObserved[i] => isActive[i] /\ ~isBusy[i] /\ buffer[i] # <<>>
    /\ isProbingActive[i] => isChannelObserved[i]
    /\ ~isBusy[i] /\ downCounter[i] # InitDownCounter => isChannelObserved[i]
    /\ isBusy[i] \/ retranNum[i] > 0 => buffer[i] # <<>>
    /\ isActive[i] <=> endSleepTime[i] = Inactive
    /\ isBusy[i] => isActive[i]

ContendInv == \A i \in Pair : Contend(i)

(* These parts are inductive without the channel.                          *)
PairInv == TypeOK /\ LinkInv /\ ContendInv

(* The scan has still to look at event i of stage st in this pass.         *)
Ahead(st, i) == Before(stage, turn, st, i)

(* The stage at which a transmitter with a counter of 0 starts.            *)
StartStage(i) == IF transmitTimestamp[i] # 0 THEN 19 ELSE 20

(* The channel is sensed at stages 2 to 4 of the first pass.               *)
SenseInv ==
    /\ updateChannelTime \in {0, 1}
    /\ updateChannelTime = 0 => stage <= 1
    /\ isUpdateEnabled => stage = 2

(* An ACK is owed for a packet that was alone: at most one is owed, and    *)
(* the channel is empty until it starts.                                   *)
AirInv ==
    /\ IdleFlagIsCurrent
    /\ OverlapIsRecorded
    /\ AckAlone
    /\ OverlapsStartTogether
    /\ \A i \in Pair :
          TransmitAckTriggered(i) => Sensed /\ isChannelBusy /\ transmissions = {}
    /\ \A i, j \in Pair : TransmitAckTriggered(i) /\ TransmitAckTriggered(j) => i = j

(* A counter of 0 was reduced in this pass, on an idle channel, and its    *)
(* transmission starts before the pass is over.                            *)
Expired(i) ==
    downCounter[i] = 0 /\ ~isBusy[i] =>
        /\ ~Ahead(17, i) /\ Ahead(StartStage(i), i)
        /\ Sensed /\ ~isChannelBusy

ExpiredInv == \A i \in Pair : Expired(i)

CarrierInv == SenseInv /\ AirInv /\ ExpiredInv

(* A probe that is not yet decided will be at stage 15, 16 or 17 of this   *)
(* pass.                                                                   *)
ProbePending(i) ==
    /\ Sensed
    /\ probeTime[i] = ChannelCheckInterval
    /\ ~Ahead(14, i) /\ Ahead(17, i)
    /\ Ahead(15, i) \/ wasChannelEmpty[i] \/ isChannelBusy
    /\ Ahead(16, i) \/ ~isChannelBusy

(* The probes come at intervals, before anything starts at their clock     *)
(* value.                                                                  *)
Probe(i) ==
    /\ isProbingActive[i] => ProbePending(i)
    /\ probeTime[i] = 0 => Ahead(14, i)
    /\ probeTime[i] <= ChannelCheckInterval
    /\ isProbingActive[i] \/ probeTime[i] = 0 =>
          \A j \in Pair : Sending(j) => Elapsed(j) > 0

ProbeInv == \A i \in Pair : Probe(i)

(* After a first idle probe every further one takes a whole interval off   *)
(* the counter.                                                            *)
Count(i) ==
    /\ downCounter[i] \in 0 .. InitDownCounter
    /\ \E n \in 0 .. InitDownCounter : downCounter[i] = n * ChannelCheckInterval
    /\ ~isBusy[i] /\ downCounter[i] # InitDownCounter => wasChannelEmpty[i]
    /\ wasChannelEmpty[i] => isChannelObserved[i] \/ isBusy[i]

CountInv == \A i \in Pair : Count(i)

(* A run is scanned at the clock values 0 .. TargetSimTime only, and it    *)
(* ends between two scans.                                                 *)
ClockInv ==
    /\ running => clock <= TargetSimTime
    /\ ~running => stage = 0 /\ updateChannelTime = 0

(* How the transmitters get the channel.                                   *)
AccessInv == PairInv /\ CarrierInv /\ ProbeInv /\ CountInv /\ ClockInv

(* The packets in a buffer were generated before; the one at the head      *)
(* waits for the first probe, one step at least, and from its first        *)
(* transmission on the time it took is bounded from below.                 *)
Await(i) ==
    /\ \A k \in 1 .. Len(buffer[i]) : buffer[i][k] <= clock
    /\ isChannelObserved[i] =>
          \/ Head(buffer[i]) < clock
          \/ /\ probeTime[i] = 1
             /\ ~isProbingActive[i]
             /\ downCounter[i] = InitDownCounter
    /\ isListeningFinished[i] => retranNum[i] > 0
    /\ transmitTimestamp[i] # 0 <=> isBusy[i] \/ retranNum[i] > 0
    /\ transmitTimestamp[i] # 0 => /\ Head(buffer[i]) < transmitTimestamp[i]
                                  /\ transmitTimestamp[i] <= clock
    /\ Sending(i) => transmitTimestamp[i] + Elapsed(i) <= clock
    /\ TransmitAckTriggered(i) => transmitTimestamp[i] < clock
    /\ Acking(i) => transmitTimestamp[i] + AckMsgTime - endAckTime[i] < clock
    /\ wasTranOk[i] => transmitTimestamp[i] + AckMsgTime < clock

AwaitInv == \A i \in Pair : Await(i)

IInv == AccessInv /\ AwaitInv
=============================================================================
