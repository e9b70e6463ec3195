-------------------------- MODULE StatisticsReport --------------------------
(***************************************************************************)
(* What main writes to the results file after a run: the averages and      *)
(* rates computed by the getters of the class Statistics.  A rate is a     *)
(* fraction <<count, of>>; the code divides floats.                        *)
(***************************************************************************)
EXTENDS SimulationProperties

Zero == <<0, 1>>

LeqRate(p, q) == p[1] * q[2] <= q[1] * p[2]

(* A rate over nothing received is 0.                                      *)
PerReceived(count, receivedCount) ==
    IF receivedCount = 0 THEN Zero ELSE <<count, receivedCount>>

getPacketErrorRatePerRX == [i \in Pair |-> PerReceived(lost[i], received[i])]

getMaxPacketErrorRate ==
    LET rates == {getPacketErrorRatePerRX[i] : i \in Pair}
    IN  CHOOSE max \in rates : \A r \in rates : LeqRate(r, max)

getAvgPacketErrorRate  == PerReceived(Total(lost), Total(received))
getAvgRetransmissionCount == PerReceived(totRetranCount, Total(received))
getAvgPacketDelayTime  == PerReceived(totPacketDelay, Total(received))
getAvgPacketAwaitTime  == PerReceived(totPacketAwaitTime, Total(received))

(* The clock stands one step past the last value simulated.                *)
getTotalSystemThroughputPerSimQuant == <<Total(received), clock - MinimalTimeStep>>

-----------------------------------------------------------------------------
(* A run that is over; its results are written before the next reset.      *)
Reported == ~running

(* With statistics from the beginning no packet is counted twice and none  *)
(* is missed: what a transmitter generated was received, was lost, or is   *)
(* still in its buffer.  A packet is counted as received when its ACK      *)
(* starts and stays in the buffer until the ACK has arrived.               *)
PacketsAreConserved ==
    InitialPhaseTime = 0 =>
        \A i \in Pair :
            received[i] + lost[i] + Len(buffer[i]) =
                generated[i] + IF headAccepted[i] /\ buffer[i] # <<>> THEN 1 ELSE 0

(* The averages of one run agree with each other: if nothing was lost and  *)
(* no ACK was cut off, a packet awaits its first transmission for no more  *)
(* than its whole delay, and no packet that was received had been          *)
(* retransmitted more often than permitted.                                *)
AveragesAgree ==
    Reported /\ InitialPhaseTime = 0 /\ (\A i \in Pair : ~headAccepted[i]) =>
        /\ Total(lost) = 0 => LeqRate(getAvgPacketAwaitTime, getAvgPacketDelayTime)
        /\ LeqRate(getAvgRetransmissionCount, <<MaxRetranCount - 1, 1>>)

IsShortest(time) == \A t \in TransmissionTimes : time <= t

(* The least time a packet takes, from the channel's falling idle to the   *)
(* end of its ACK.                                                         *)
Exchange(time) == InitDownCounter + 1 + time + AckMsgTime

(* The throughput stays below what the channel can carry: every packet     *)
(* received took an idle count-down, its own length and its ACK, of which  *)
(* the last may have been cut off by the end of the run, and none of these *)
(* times is shared by two packets.  A run of the clock value 0 alone has   *)
(* no throughput.                                                          *)
ThroughputWithinCapacity ==
    LET throughput == getTotalSystemThroughputPerSimQuant
    IN  \A shortest \in TransmissionTimes :
           /\ Reported
           /\ TargetSimTime > 0
           /\ IsShortest(shortest)
           /\ shortest >= ChannelCheckInterval
           => /\ throughput[2] > 0
              /\ LeqRate(<<throughput[1], throughput[2] + AckMsgTime>>,
                         <<1, Exchange(shortest)>>)

(* The figures of the report fit together and fit the channel: averages    *)
(* taken from totals that different events add to, at different times.     *)
ReportIsSound == AveragesAgree /\ ThroughputWithinCapacity

(* statistics.cpp:63 and 84 call one getter the maximum of the error rates *)
(* of the receivers and the other their average for the whole system: an   *)
(* average is not above the maximum of what it averages.                   *)
AverageWithinMaximum ==
    Reported => LeqRate(getAvgPacketErrorRate, getMaxPacketErrorRate)
=============================================================================
