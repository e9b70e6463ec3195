------------------------------- MODULE Events -------------------------------
(***************************************************************************)
(* The twenty kinds of event: when each is due and what it does.           *)
(*                                                                         *)
(* A timed event is due when its time is 0; a conditional event is due     *)
(* when its isTriggered holds.  The order in which a scan looks at them is *)
(* the business of module Simulation.  The outcomes of the random draws    *)
(* are the bound variables of \E, one draw per event as in the code.       *)
(***************************************************************************)
EXTENDS WirelessNetwork

VARIABLE clock      \* clock_, get_sim_clock()

IsInitialPhaseOver == clock > InitialPhaseTime

(* f with the value v at i.                                                *)
Put(f, i, v) == [f EXCEPT ![i] = v]

-----------------------------------------------------------------------------
(* Arrival of packets.                                                     *)

GeneratePacket(i) ==
    /\ generatePacketTime[i] = 0
    /\ buffer' = Put(buffer, i, Append(buffer[i], clock))
    /\ generated' = Put(generated, i, generated[i] + 1)
    /\ \E interval \in GenDraws(generated[i] + 1) :
           generatePacketTime' = Put(generatePacketTime, i, interval)
    /\ UNCHANGED <<transmissionTime, downCounter, retranNum, wasTranOk, isBusy,
                   wasChannelEmpty, isListeningFinished, isActive, isProbingActive,
                   isChannelObserved, transmitTimestamp,
                   rxVars, channelVars, statVars,
                   updateChannelTime, endPacketTime, endAckTime,
                   endListeningTime, endSleepTime, probeTime>>

-----------------------------------------------------------------------------
(* The carrier-sense flag of the channel, refreshed once per clock value,  *)
(* and the collision flag.                                                 *)

(* Seeded defects: the update is scheduled at the interval of the probes,  *)
(* or not moved on at all.                                                 *)
UpdateChannelStateSlowly ==
    /\ updateChannelTime = 0
    /\ isUpdateEnabled' = TRUE
    /\ updateChannelTime' = ChannelCheckInterval
    /\ UNCHANGED <<txVars, rxVars, transmissions, isChannelBusy, wasTransmitError,
                   statVars, generatePacketTime, endPacketTime, endAckTime,
                   endListeningTime, endSleepTime, probeTime, generated>>

UpdateChannelStateAgain ==
    /\ updateChannelTime = 0
    /\ isUpdateEnabled' = TRUE
    /\ UNCHANGED <<txVars, rxVars, transmissions, isChannelBusy, wasTransmitError,
                   statVars, timerVars, generated>>

UpdateChannelState ==
    /\ updateChannelTime = 0
    /\ isUpdateEnabled' = TRUE
    /\ updateChannelTime' = MinimalTimeStep
    /\ UNCHANGED <<txVars, rxVars, transmissions, isChannelBusy, wasTransmitError,
                   statVars, generatePacketTime, endPacketTime, endAckTime,
                   endListeningTime, endSleepTime, probeTime, generated>>

(* Seeded defect: a single transmission is overlooked.                     *)
ChannelEmptyOrNearlySo == isUpdateEnabled /\ \A s, t \in transmissions : s = t

ChannelEmptyTriggered == isUpdateEnabled /\ transmissions = {}

(* Seeded defect: the collision flag outlives the collision.               *)
ChannelEmptyKeepingError ==
    /\ ChannelEmptyTriggered
    /\ isUpdateEnabled' = FALSE
    /\ isChannelBusy' = FALSE
    /\ UNCHANGED <<txVars, rxVars, transmissions, wasTransmitError, statVars,
                   timerVars, generated>>

ChannelEmpty ==
    /\ ChannelEmptyTriggered
    /\ isUpdateEnabled' = FALSE
    /\ isChannelBusy' = FALSE
    /\ wasTransmitError' = FALSE
    /\ UNCHANGED <<txVars, rxVars, transmissions, statVars, timerVars, generated>>

(* Seeded defect: a single transmission does not make the channel busy.    *)
ChannelBusyByOverlap == isUpdateEnabled /\ \E s, t \in transmissions : s # t

ChannelBusyTriggered == isUpdateEnabled /\ transmissions # {}

ChannelBusy ==
    /\ ChannelBusyTriggered
    /\ isUpdateEnabled' = FALSE
    /\ isChannelBusy' = TRUE
    /\ UNCHANGED <<txVars, rxVars, transmissions, wasTransmitError, statVars,
                   timerVars, generated>>

(* More than one transmission.                                             *)
Overlap == \E s, t \in transmissions : s # t

(* Seeded defect: overlaps are looked for with the channel update only.    *)
CollisionWithUpdate == ~wasTransmitError /\ isUpdateEnabled /\ Overlap

CollisionTriggered == ~wasTransmitError /\ Overlap

Collision ==
    /\ CollisionTriggered
    /\ wasTransmitError' = TRUE
    /\ UNCHANGED <<txVars, rxVars, transmissions, isUpdateEnabled, isChannelBusy,
                   statVars, timerVars, generated>>

-----------------------------------------------------------------------------
(* Ends of transmissions and of waits.                                     *)

(* Seeded defects: the collision flag is not read, or the channel is       *)
(* cleared instead of one transmission being removed.                      *)
EndPacketUnconditionally(i) ==
    /\ endPacketTime[i] = 0
    /\ wasPacketReceived' = Put(wasPacketReceived, i, TRUE)
    /\ wasPacketUncorrupted' = Put(wasPacketUncorrupted, i, TRUE)
    /\ \E ok \in BOOLEAN :
           wasUncorruptedByChannel' = Put(wasUncorruptedByChannel, i, ok)
    /\ endPacketTime' = Put(endPacketTime, i, Inactive)
    /\ transmissions' = transmissions \ {PacketOf(i)}
    /\ UNCHANGED <<txVars, isUpdateEnabled, isChannelBusy, wasTransmitError, statVars,
                   generatePacketTime, updateChannelTime, endAckTime,
                   endListeningTime, endSleepTime, probeTime, generated>>

EndPacketClearingChannel(i) ==
    /\ endPacketTime[i] = 0
    /\ wasPacketReceived' = Put(wasPacketReceived, i, TRUE)
    /\ wasPacketUncorrupted' = Put(wasPacketUncorrupted, i, ~wasTransmitError)
    /\ \E ok \in BOOLEAN :
           wasUncorruptedByChannel' = Put(wasUncorruptedByChannel, i, ok)
    /\ endPacketTime' = Put(endPacketTime, i, Inactive)
    /\ transmissions' = {}
    /\ UNCHANGED <<txVars, isUpdateEnabled, isChannelBusy, wasTransmitError, statVars,
                   generatePacketTime, updateChannelTime, endAckTime,
                   endListeningTime, endSleepTime, probeTime, generated>>

(* The receiver stores that a packet arrived, whether it collided and      *)
(* whether the channel corrupted it (a draw).                              *)
EndPacketTransmission(i) ==
    /\ endPacketTime[i] = 0
    /\ wasPacketReceived' = Put(wasPacketReceived, i, TRUE)
    /\ wasPacketUncorrupted' = Put(wasPacketUncorrupted, i, ~wasTransmitError)
    /\ \E ok \in BOOLEAN :
           wasUncorruptedByChannel' = Put(wasUncorruptedByChannel, i, ok)
    /\ endPacketTime' = Put(endPacketTime, i, Inactive)
    /\ transmissions' = transmissions \ {PacketOf(i)}
    /\ UNCHANGED <<txVars, isUpdateEnabled, isChannelBusy, wasTransmitError, statVars,
                   generatePacketTime, updateChannelTime, endAckTime,
                   endListeningTime, endSleepTime, probeTime, generated>>

EndAckTransmission(i) ==
    /\ endAckTime[i] = 0
    /\ wasTranOk' = Put(wasTranOk, i, TRUE)
    /\ endAckTime' = Put(endAckTime, i, Inactive)
    /\ transmissions' = transmissions \ {AckTo(i)}
    /\ UNCHANGED <<buffer, transmissionTime, downCounter, retranNum, isBusy,
                   wasChannelEmpty, isListeningFinished, isActive, isProbingActive,
                   isChannelObserved, transmitTimestamp, rxVars,
                   isUpdateEnabled, isChannelBusy, wasTransmitError, statVars,
                   generatePacketTime, updateChannelTime, endPacketTime,
                   endListeningTime, endSleepTime, probeTime, generated>>

EndAckListening(i) ==
    /\ endListeningTime[i] = 0
    /\ retranNum' = Put(retranNum, i, retranNum[i] + 1)
    /\ isListeningFinished' = Put(isListeningFinished, i, TRUE)
    /\ endListeningTime' = Put(endListeningTime, i, Inactive)
    /\ UNCHANGED <<buffer, transmissionTime, downCounter, wasTranOk, isBusy,
                   wasChannelEmpty, isActive, isProbingActive, isChannelObserved,
                   transmitTimestamp, rxVars, channelVars, statVars,
                   generatePacketTime, updateChannelTime, endPacketTime, endAckTime,
                   endSleepTime, probeTime, generated>>

EndTxSleep(i) ==
    /\ endSleepTime[i] = 0
    /\ isActive' = Put(isActive, i, TRUE)
    /\ endSleepTime' = Put(endSleepTime, i, Inactive)
    /\ UNCHANGED <<buffer, transmissionTime, downCounter, retranNum, wasTranOk, isBusy,
                   wasChannelEmpty, isListeningFinished, isProbingActive,
                   isChannelObserved, transmitTimestamp, rxVars, channelVars, statVars,
                   generatePacketTime, updateChannelTime, endPacketTime, endAckTime,
                   endListeningTime, probeTime, generated>>

-----------------------------------------------------------------------------
(* Outcome of a transmission, decided by the transmitter.                  *)

(* Seeded defect: the retransmission counter is not put back.              *)
FinishPacketKeepingCount(i) ==
    /\ buffer' = Put(buffer, i, Tail(buffer[i]))
    /\ wasTranOk' = Put(wasTranOk, i, FALSE)
    /\ downCounter' = Put(downCounter, i, InitDownCounter)
    /\ wasChannelEmpty' = Put(wasChannelEmpty, i, FALSE)
    /\ isListeningFinished' = Put(isListeningFinished, i, FALSE)
    /\ isActive' = Put(isActive, i, TRUE)
    /\ isProbingActive' = Put(isProbingActive, i, FALSE)
    /\ isChannelObserved' = Put(isChannelObserved, i, FALSE)
    /\ transmitTimestamp' = Put(transmitTimestamp, i, 0)
    /\ isBusy' = Put(isBusy, i, FALSE)
    /\ UNCHANGED retranNum

(* Transmitter i is done with the packet at the head of its buffer: both   *)
(* outcomes remove the packet and put these fields back to their defaults. *)
FinishPacket(i) ==
    /\ buffer' = Put(buffer, i, Tail(buffer[i]))
    /\ wasTranOk' = Put(wasTranOk, i, FALSE)
    /\ downCounter' = Put(downCounter, i, InitDownCounter)
    /\ retranNum' = Put(retranNum, i, 0)
    /\ wasChannelEmpty' = Put(wasChannelEmpty, i, FALSE)
    /\ isListeningFinished' = Put(isListeningFinished, i, FALSE)
    /\ isActive' = Put(isActive, i, TRUE)
    /\ isProbingActive' = Put(isProbingActive, i, FALSE)
    /\ isChannelObserved' = Put(isChannelObserved, i, FALSE)
    /\ transmitTimestamp' = Put(transmitTimestamp, i, 0)
    /\ isBusy' = Put(isBusy, i, FALSE)

(* Seeded defect: the await time runs on until the packet leaves.          *)
AwaitTimeUntilNow(i) == clock - Head(buffer[i])

AwaitTime(i) == transmitTimestamp[i] - Head(buffer[i])
DelayTime(i) == clock - Head(buffer[i]) - AckMsgTime

SuccessTriggered(i) == wasTranOk[i] /\ isBusy[i]

SuccessfulPacketTransmission(i) ==
    /\ SuccessTriggered(i)
    /\ IF IsInitialPhaseOver
         THEN /\ totPacketAwaitTime' = totPacketAwaitTime + AwaitTime(i)
              /\ totPacketDelay' = totPacketDelay + DelayTime(i)
              /\ totRetranCount' = totRetranCount + retranNum[i]
         ELSE UNCHANGED <<totPacketAwaitTime, totPacketDelay, totRetranCount>>
    /\ FinishPacket(i)
    /\ endListeningTime' = Put(endListeningTime, i, Inactive)
    /\ UNCHANGED <<transmissionTime, rxVars, channelVars, received, lost,
                   generatePacketTime, updateChannelTime, endPacketTime, endAckTime,
                   endSleepTime, probeTime, generated>>

(* Seeded defects: the limit of the counter is missed by one either way.   *)
LostOneEarly(i) == /\ isListeningFinished[i]
                   /\ ~wasTranOk[i]
                   /\ retranNum[i] >= MaxRetranCount - 1
LostOneLate(i) == /\ isListeningFinished[i]
                  /\ ~wasTranOk[i]
                  /\ retranNum[i] > MaxRetranCount

LostTriggered(i) == /\ isListeningFinished[i]
                    /\ ~wasTranOk[i]
                    /\ retranNum[i] >= MaxRetranCount

RemoveLostPacket(i) ==
    /\ LostTriggered(i)
    /\ IF IsInitialPhaseOver
         THEN /\ totPacketAwaitTime' = totPacketAwaitTime + AwaitTime(i)
              /\ lost' = Put(lost, i, lost[i] + 1)
         ELSE UNCHANGED <<totPacketAwaitTime, lost>>
    /\ FinishPacket(i)
    /\ UNCHANGED <<transmissionTime, rxVars, channelVars, received, totRetranCount,
                   totPacketDelay, timerVars, generated>>

RetransmissionTriggered(i) == /\ isListeningFinished[i]
                              /\ ~wasTranOk[i]
                              /\ retranNum[i] < MaxRetranCount

(* The back-off is R transmission times, R drawn from 0 .. 2^retran - 1; a *)
(* draw of 0 wakes the transmitter at the next clock value.                *)
BackoffMultipliers(retran) == 0 .. (2 ^ retran - 1)

SleepTime(multiplier, time) ==
    IF multiplier * time = 0 THEN MinimalTimeStep ELSE multiplier * time

ScheduleRetransmission(i) ==
    /\ RetransmissionTriggered(i)
    /\ \E multiplier \in BackoffMultipliers(retranNum[i]) :
           endSleepTime' =
               Put(endSleepTime, i, SleepTime(multiplier, transmissionTime[i]))
    /\ probeTime' = Put(probeTime, i, Inactive)
    /\ wasChannelEmpty' = Put(wasChannelEmpty, i, FALSE)
    /\ isActive' = Put(isActive, i, FALSE)
    /\ isBusy' = Put(isBusy, i, FALSE)
    /\ isListeningFinished' = Put(isListeningFinished, i, FALSE)
    /\ isChannelObserved' = Put(isChannelObserved, i, FALSE)
    /\ downCounter' = Put(downCounter, i, InitDownCounter)
    /\ UNCHANGED <<buffer, transmissionTime, retranNum, wasTranOk, isProbingActive,
                   transmitTimestamp, rxVars, channelVars, statVars,
                   generatePacketTime, updateChannelTime, endPacketTime, endAckTime,
                   endListeningTime, generated>>

-----------------------------------------------------------------------------
(* Listening before talking.                                               *)

(* Seeded defects: an empty buffer is not noticed, or only the first       *)
(* attempt for a packet observes the channel.                              *)
ObservingWithoutPacket(i) == ~isChannelObserved[i] /\ isActive[i] /\ ~isBusy[i]
ObservingOnFirstAttempt(i) == /\ ~isChannelObserved[i]
                              /\ isActive[i]
                              /\ ~isBusy[i]
                              /\ buffer[i] # <<>>
                              /\ retranNum[i] = 0

ObservingTriggered(i) == /\ ~isChannelObserved[i]
                         /\ isActive[i]
                         /\ ~isBusy[i]
                         /\ buffer[i] # <<>>

StartChannelObserving(i) ==
    /\ ObservingTriggered(i)
    /\ isChannelObserved' = Put(isChannelObserved, i, TRUE)
    /\ probeTime' = Put(probeTime, i, MinimalTimeStep)
    /\ UNCHANGED <<buffer, transmissionTime, downCounter, retranNum, wasTranOk, isBusy,
                   wasChannelEmpty, isListeningFinished, isActive, isProbingActive,
                   transmitTimestamp, rxVars, channelVars, statVars,
                   generatePacketTime, updateChannelTime, endPacketTime, endAckTime,
                   endListeningTime, endSleepTime, generated>>

ProbeChannelState(i) ==
    /\ probeTime[i] = 0
    /\ isProbingActive' = Put(isProbingActive, i, TRUE)
    /\ probeTime' = Put(probeTime, i, ChannelCheckInterval)
    /\ UNCHANGED <<buffer, transmissionTime, downCounter, retranNum, wasTranOk, isBusy,
                   wasChannelEmpty, isListeningFinished, isActive, isChannelObserved,
                   transmitTimestamp, rxVars, channelVars, statVars,
                   generatePacketTime, updateChannelTime, endPacketTime, endAckTime,
                   endListeningTime, endSleepTime, generated>>

MarkEmptyTriggered(i) == /\ isProbingActive[i]
                         /\ ~wasChannelEmpty[i]
                         /\ ~isChannelBusy

(* Seeded defect: the first idle probe counts as an idle interval too.     *)
MarkEmptyAndReduce(i) ==
    /\ MarkEmptyTriggered(i)
    /\ wasChannelEmpty' = Put(wasChannelEmpty, i, TRUE)
    /\ downCounter' = Put(downCounter, i, downCounter[i] - ChannelCheckInterval)
    /\ isProbingActive' = Put(isProbingActive, i, FALSE)
    /\ UNCHANGED <<buffer, transmissionTime, retranNum, wasTranOk, isBusy,
                   isListeningFinished, isActive, isChannelObserved, transmitTimestamp,
                   rxVars, channelVars, statVars, timerVars, generated>>

MarkEmptyChannelState(i) ==
    /\ MarkEmptyTriggered(i)
    /\ wasChannelEmpty' = Put(wasChannelEmpty, i, TRUE)
    /\ isProbingActive' = Put(isProbingActive, i, FALSE)
    /\ UNCHANGED <<buffer, transmissionTime, downCounter, retranNum, wasTranOk, isBusy,
                   isListeningFinished, isActive, isChannelObserved, transmitTimestamp,
                   rxVars, channelVars, statVars, timerVars, generated>>

(* Seeded defect: a busy channel is noticed only after an idle one.        *)
ResetCounterAfterIdle(i) == /\ isProbingActive[i]
                            /\ isActive[i]
                            /\ ~isBusy[i]
                            /\ wasChannelEmpty[i]
                            /\ isChannelBusy

ResetCounterTriggered(i) == /\ isProbingActive[i]
                            /\ isActive[i]
                            /\ ~isBusy[i]
                            /\ isChannelBusy

(* Seeded defect: a busy channel interrupts the count-down only.           *)
ResetNothing(i) ==
    /\ ResetCounterTriggered(i)
    /\ isProbingActive' = Put(isProbingActive, i, FALSE)
    /\ UNCHANGED <<buffer, transmissionTime, downCounter, retranNum, wasTranOk, isBusy,
                   wasChannelEmpty, isListeningFinished, isActive, isChannelObserved,
                   transmitTimestamp, rxVars, channelVars, statVars, timerVars,
                   generated>>

ResetTXDownCounter(i) ==
    /\ ResetCounterTriggered(i)
    /\ wasChannelEmpty' = Put(wasChannelEmpty, i, FALSE)
    /\ downCounter' = Put(downCounter, i, InitDownCounter)
    /\ isProbingActive' = Put(isProbingActive, i, FALSE)
    /\ UNCHANGED <<buffer, transmissionTime, retranNum, wasTranOk, isBusy,
                   isListeningFinished, isActive, isChannelObserved, transmitTimestamp,
                   rxVars, channelVars, statVars, timerVars, generated>>

ReduceCounterTriggered(i) == /\ isProbingActive[i]
                             /\ isActive[i]
                             /\ ~isBusy[i]
                             /\ wasChannelEmpty[i]
                             /\ ~isChannelBusy

ReduceTXDownCounter(i) ==
    /\ ReduceCounterTriggered(i)
    /\ downCounter' = Put(downCounter, i, downCounter[i] - ChannelCheckInterval)
    /\ isProbingActive' = Put(isProbingActive, i, FALSE)
    /\ UNCHANGED <<buffer, transmissionTime, retranNum, wasTranOk, isBusy,
                   wasChannelEmpty, isListeningFinished, isActive, isChannelObserved,
                   transmitTimestamp, rxVars, channelVars, statVars, timerVars,
                   generated>>

-----------------------------------------------------------------------------
(* Starts of transmissions.                                                *)

TransmitAckTriggered(i) == /\ wasPacketReceived[i]
                           /\ wasPacketUncorrupted[i]
                           /\ wasUncorruptedByChannel[i]

TransmitAck(i) ==
    /\ TransmitAckTriggered(i)
    /\ received' = IF IsInitialPhaseOver THEN Put(received, i, received[i] + 1)
                                         ELSE received
    /\ transmissions' = transmissions \union {AckTo(i)}
    /\ endAckTime' = Put(endAckTime, i, AckMsgTime)
    /\ wasPacketReceived' = Put(wasPacketReceived, i, FALSE)
    /\ wasPacketUncorrupted' = Put(wasPacketUncorrupted, i, FALSE)
    /\ wasUncorruptedByChannel' = Put(wasUncorruptedByChannel, i, FALSE)
    /\ UNCHANGED <<txVars, isUpdateEnabled, isChannelBusy, wasTransmitError,
                   lost, totRetranCount, totPacketAwaitTime, totPacketDelay,
                   generatePacketTime, updateChannelTime, endPacketTime,
                   endListeningTime, endSleepTime, probeTime, generated>>

(* Seeded defects: the wait ends with the ACK, or takes no account of it.  *)
AckTimeoutWithAck(time) == time + AckMsgTime
AckTimeoutWithoutAck(time) == time + MinimalTimeStep

(* The wait for the ACK covers the packet, the ACK and one step more.      *)
AckTimeout(time) == time + AckMsgTime + MinimalTimeStep

(* What both kinds of start do: a packet of a drawn length goes on the     *)
(* channel and the ends of the packet and of the wait are scheduled.       *)
SendPacket(i) ==
    /\ \E time \in TransmissionTimes :
           /\ transmissionTime' = Put(transmissionTime, i, time)
           /\ endPacketTime' = Put(endPacketTime, i, time)
           /\ endListeningTime' = Put(endListeningTime, i, AckTimeout(time))
    /\ probeTime' = Put(probeTime, i, Inactive)
    /\ isProbingActive' = Put(isProbingActive, i, FALSE)
    /\ isBusy' = Put(isBusy, i, TRUE)
    /\ isChannelObserved' = Put(isChannelObserved, i, FALSE)
    /\ transmissions' = transmissions \union {PacketOf(i)}
    /\ UNCHANGED <<buffer, downCounter, retranNum, wasTranOk, wasChannelEmpty,
                   isListeningFinished, isActive, rxVars,
                   isUpdateEnabled, isChannelBusy, wasTransmitError, statVars,
                   generatePacketTime, updateChannelTime, endAckTime, endSleepTime,
                   generated>>

(* Seeded defect: a counter still at 0 starts the next transmission.       *)
StartRetransmissionWhileBusy(i) == downCounter[i] = 0 /\ transmitTimestamp[i] # 0

StartRetransmissionTriggered(i) ==
    downCounter[i] = 0 /\ transmitTimestamp[i] # 0 /\ ~isBusy[i]

StartRetransmission(i) ==
    /\ StartRetransmissionTriggered(i)
    /\ SendPacket(i)
    /\ UNCHANGED transmitTimestamp

(* Seeded defect: the start expects a probe to be active.                  *)
StartTransmissionOnProbe(i) ==
    downCounter[i] = 0 /\ transmitTimestamp[i] = 0 /\ ~isBusy[i] /\ isProbingActive[i]

StartTransmissionTriggered(i) ==
    downCounter[i] = 0 /\ transmitTimestamp[i] = 0 /\ ~isBusy[i]

StartTransmission(i) ==
    /\ StartTransmissionTriggered(i)
    /\ SendPacket(i)
    /\ transmitTimestamp' = Put(transmitTimestamp, i, clock)
=============================================================================
