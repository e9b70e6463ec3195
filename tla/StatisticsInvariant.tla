------------------------ MODULE StatisticsInvariant -------------------------
(***************************************************************************)
(* The invariant behind the totals and the report.  OutcomeInv is about    *)
(* the ACK that has arrived, PhaseInv and TargetInv about when packets are *)
(* counted and when a run ends, AverageInv about the totals that make the  *)
(* averages, TotalsInv about the packets in the totals, CapacityInv about  *)
(* the time the packets received have taken.                               *)
(***************************************************************************)
EXTENDS SimulationHistory, StatisticsReport

(* Nothing starts between the end of an ACK and its transmitter's taking   *)
(* note of it.                                                             *)
Outcome(i) ==
    wasTranOk[i] =>
        /\ Sensed /\ isChannelBusy /\ transmissions = {}
        /\ \A j \in Pair : ~TransmitAckTriggered(j) /\ (wasTranOk[j] => j = i)

OutcomeInv == \A i \in Pair : Outcome(i)

(* A packet that was received is still in the buffer of its transmitter.   *)
Accepted == \E i \in Pair : headAccepted[i]

(* Nothing is counted in the initial phase, so that no target ends a run   *)
(* before its second clock value.                                          *)
PhaseInv ==
    /\ ~IsInitialPhaseOver => Total(received) = 0 /\ Total(lost) = 0
    /\ ~running /\ TargetSimTime > 0 => clock > MinimalTimeStep

(* An ACK that started at the present clock value.                         *)
NewAck(i) == endAckTime[i] = AckMsgTime

(* The packet that reaches the target is the last of its clock value, and  *)
(* of its run.                                                             *)
TargetInv ==
    /\ \A i \in Pair : endAckTime[i] <= AckMsgTime /\ (~running => ~NewAck(i))
    /\ TargetReceivedIsExact
    /\ TargetReceived > 0 /\ running /\ Total(received) = TargetReceived =>
          IsInitialPhaseOver /\ \E i \in Pair : NewAck(i)

(* What a packet adds to the totals, once its ACK has arrived.             *)
AverageInv ==
    /\ Total(lost) = 0 => totPacketAwaitTime <= totPacketDelay
    /\ InitialPhaseTime = 0 =>
          totRetranCount <= (MaxRetranCount - 1)
                              * (Total(received) - IF Accepted THEN 1 ELSE 0)

ReportInv == OutcomeInv /\ PhaseInv /\ TargetInv /\ AverageInv

(* At the end of the initial phase a packet may be in one total and not in *)
(* the other, and from then on one more while its ACK is on its way.       *)
TotalsInv ==
    LET difference == Total(received) - counted
    IN  /\ counted \in Nat
        /\ difference \in IF Accepted THEN {0, 1} ELSE {-1, 0}
        /\ ~IsInitialPhaseOver => difference = 0

(* Every packet received took an idle count-down, its own length, which is *)
(* the shortest at least, and its ACK; what has passed of the exchange     *)
(* under way has passed since the last of them.                            *)
Capacity(shortest) ==
    LET taken == Total(received) * Exchange(shortest)
    IN  /\ (\A i \in Pair : ~Acking(i)) => taken + idleTicks <= clock
        /\ \A i \in Pair :
              /\ Acking(i) => taken <= clock + endAckTime[i]
              /\ Sending(i) => taken + InitDownCounter + 1 + Elapsed(i) <= clock
              /\ TransmitAckTriggered(i) =>
                    taken + InitDownCounter + 1 + shortest <= clock

CapacityInv ==
    PacketsOutlastIntervals =>
        \A time \in TransmissionTimes : IsShortest(time) => Capacity(time)

StatisticsInv == HistoryInv /\ ReportInv /\ TotalsInv /\ CapacityInv
=============================================================================
