--------------------------- MODULE SimulationProofs ---------------------------
(***************************************************************************)
(* What holds of the simulator, for every number of pairs and every value  *)
(* of the other constants that the assumptions admit.                      *)
(*                                                                         *)
(* The first part is about every single pair: the types of all fields, the *)
(* timers and flags of a pair (LinkInv), and how its transmitter contends  *)
(* for the channel (ContendInv).  The second part is about the channel and *)
(* the order of the scan: an event finds the state that the events before  *)
(* it in the pass have left (AccessInv).  The third part is about packets: *)
(* how long they wait, that none is lost from the count, and that every    *)
(* pair delivers as PacketDelivery promises (IInv).  The fourth part is    *)
(* about what the simulator remembers against what happened: attempts,     *)
(* idle times and collisions (HistoryInv); the fifth, which rests on it,   *)
(* about the totals over all pairs and what the program reports of a run.  *)
(***************************************************************************)
EXTENDS SimulationInvariant, StatisticsInvariant, FiniteSetTheorems,
        WellFoundedInduction, TLAPS

USE NetworkAssumption, SimulationAssumption

-----------------------------------------------------------------------------
(* Types.                                                                  *)

(* Multiplication, the only nonlinear arithmetic of the proofs.            *)
LEMMA NatProduct == ASSUME NEW m \in Nat, NEW n \in Nat PROVE m * n \in Nat
  OBVIOUS

(* The back-off sleep lasts at least one step.                             *)
LEMMA SleepTimeType ==
  ASSUME NEW retran \in Nat, NEW m \in BackoffMultipliers(retran),
         NEW time \in TransmissionTimes
  PROVE  SleepTime(m, time) \in Nat \ {0}
<1>1. m \in Nat
  BY DEF BackoffMultipliers
<1>2. time \in Nat
  OBVIOUS
<1>3. m * time \in Nat
  BY <1>1, <1>2, NatProduct
<1> QED
  BY <1>3 DEF SleepTime, MinimalTimeStep

(* Counting down keeps a time in the range of event times.                 *)
LEMMA CountDownType ==
  /\ \A f \in [Pair -> Nat] : CountDown(f) \in [Pair -> Nat]
  /\ \A f \in [Pair -> EventTime] : CountDown(f) \in [Pair -> EventTime]
BY DEF CountDown, EventTime, MinimalTimeStep, Inactive

(* Every inter-arrival time the generator may draw is a natural number.    *)
LEMMA DrawsType == \A n \in Nat : GenDraws(n) \subseteq Nat
BY DEF GenDraws, BeyondRun

(* A network that is as good as new has well-typed state.                  *)
LEMMA FreshType == NetworkFresh => NetworkTypeOK
<1> SUFFICES ASSUME NetworkFresh PROVE NetworkTypeOK
  OBVIOUS
<1>1. generatePacketTime \in [Pair -> Nat]
  BY DrawsType DEF NetworkFresh, TimersFresh
<1>2. TransmitterTypeOK
  BY DEF NetworkFresh, TransmitterFresh, TransmitterTypeOK
<1>3. ReceiverTypeOK /\ StatisticsTypeOK
  BY DEF NetworkFresh, ReceiverFresh, StatisticsFresh, ReceiverTypeOK,
         StatisticsTypeOK
<1>4. ChannelTypeOK
  BY Zenon DEF NetworkFresh, ChannelFresh, ChannelTypeOK
<1>5. TimersTypeOK
  BY <1>1 DEF NetworkFresh, TimersFresh, TimersTypeOK, EventTime
<1> QED
  BY <1>2, <1>3, <1>4, <1>5 DEF NetworkTypeOK, NetworkFresh

(* The reset between two runs leaves nothing of the run before it.         *)
LEMMA ResetIsFresh == NetworkReset => NetworkFresh'
<1> SUFFICES ASSUME NetworkReset PROVE NetworkFresh'
  OBVIOUS
<1>1. TransmitterFresh' /\ ReceiverFresh'
  BY DEF NetworkReset, TransmitterReset, ReceiverReset, TransmitterFresh, ReceiverFresh
<1>2. ChannelFresh' /\ StatisticsFresh' /\ TimersFresh'
  BY DEF NetworkReset, ChannelReset, StatisticsReset, TimersReset, ChannelFresh,
         StatisticsFresh, TimersFresh
<1> QED
  BY <1>1, <1>2 DEF NetworkFresh, NetworkReset

-----------------------------------------------------------------------------
(* Type correctness.                                                       *)

(* A part of the network that a step leaves alone stays well typed.        *)
LEMMA TypeFrame ==
  ASSUME NetworkTypeOK
  PROVE  /\ UNCHANGED txVars => TransmitterTypeOK'
         /\ UNCHANGED rxVars => ReceiverTypeOK'
         /\ UNCHANGED channelVars => ChannelTypeOK'
         /\ UNCHANGED statVars => StatisticsTypeOK'
         /\ UNCHANGED timerVars => TimersTypeOK'
<1>1. UNCHANGED txVars => TransmitterTypeOK'
  BY DEF NetworkTypeOK, TransmitterTypeOK, txVars
<1>2. UNCHANGED rxVars => ReceiverTypeOK'
  BY DEF NetworkTypeOK, ReceiverTypeOK, rxVars
<1>3. UNCHANGED channelVars => ChannelTypeOK'
  BY DEF NetworkTypeOK, ChannelTypeOK, channelVars
<1>4. UNCHANGED statVars => StatisticsTypeOK'
  BY DEF NetworkTypeOK, StatisticsTypeOK, statVars
<1>5. UNCHANGED timerVars => TimersTypeOK'
  BY DEF NetworkTypeOK, TimersTypeOK, timerVars
<1> QED
  BY <1>1, <1>2, <1>3, <1>4, <1>5

(* Executing the event the scan has reached keeps its position in range.   *)
LEMMA ScanType ==
  ASSUME ScanTypeOK, NEW st \in Stages, NEW i \in Pair, Turn(st, i)
  PROVE  ScanTypeOK'
BY DEF ScanTypeOK, Stages, Turn

(* The packet an outcome is decided for is at the head of the buffer.      *)
LEMMA HeadExists ==
  ASSUME TypeOK, LinkInv, ContendInv, NEW i \in Pair,
         SuccessTriggered(i) \/ isListeningFinished[i]
  PROVE  /\ isBusy[i]
         /\ buffer[i] # <<>>
         /\ Head(buffer[i]) \in Nat
         /\ Tail(buffer[i]) \in Seq(Nat)
<1>1. isBusy[i]
  BY DEF LinkInv, Link, SuccessTriggered
<1>2. buffer[i] # <<>>
  BY <1>1 DEF ContendInv, Contend
<1>3. buffer[i] \in Seq(Nat)
  BY DEF TypeOK, NetworkTypeOK, TransmitterTypeOK
<1> QED
  BY <1>1, <1>2, <1>3

LEMMA AwaitTimeType ==
  ASSUME NEW i \in Pair, Head(buffer[i]) \in Nat, transmitTimestamp[i] \in Nat, clock \in Nat
  PROVE  AwaitTime(i) \in Int /\ DelayTime(i) \in Int
<1> DEFINE head == Head(buffer[i])
<1>1. head \in Nat
  OBVIOUS
<1>2. AwaitTime(i) = transmitTimestamp[i] - head /\ DelayTime(i) = clock - head - AckMsgTime
  BY DEF AwaitTime, DelayTime
<1> HIDE DEF head
<1> QED
  BY <1>1, <1>2

(* Every step keeps the types; the outcomes need a packet at the head of   *)
(* the buffer and the back-off a packet length that was drawn.             *)
LEMMA TypeStep ==
  ASSUME TypeOK, LinkInv, ContendInv, Next
  PROVE  TypeOK'
<1> USE DEF TypeOK, NetworkTypeOK, Put, EventTime, Inactive, MinimalTimeStep
<1>1. ASSUME NEW i \in Pair, GeneratePacket(i), Turn(1, i)
      PROVE  TypeOK'
  <2>1. TransmitterTypeOK'
    BY <1>1, SMTT(30) DEF TransmitterTypeOK, GeneratePacket, txVars, ScanTypeOK
  <2>2. TimersTypeOK'
    BY <1>1, DrawsType DEF TimersTypeOK, GeneratePacket, timerVars
  <2>3. generated' \in [Pair -> Nat] /\ ScanTypeOK'
    BY <1>1, ScanType DEF GeneratePacket, Stages
  <2> QED
    BY <1>1, <2>1, <2>2, <2>3, TypeFrame DEF GeneratePacket
<1>2. ASSUME NEW i \in Pair, EndPacketTransmission(i), Turn(6, i)
      PROVE  TypeOK'
  <2>1. ReceiverTypeOK'
    BY <1>2 DEF ReceiverTypeOK, EndPacketTransmission, rxVars
  <2>2. TimersTypeOK'
    BY <1>2 DEF TimersTypeOK, EndPacketTransmission, timerVars
  <2>3. ChannelTypeOK'
    BY <1>2 DEF ChannelTypeOK, EndPacketTransmission, channelVars
  <2>4. generated' \in [Pair -> Nat] /\ ScanTypeOK'
    BY <1>2, ScanType DEF EndPacketTransmission, Stages
  <2> QED
    BY <1>2, <2>1, <2>2, <2>3, <2>4, TypeFrame DEF EndPacketTransmission
<1>3. ASSUME NEW i \in Pair, EndAckTransmission(i), Turn(7, i)
      PROVE  TypeOK'
  <2>1. TransmitterTypeOK'
    BY <1>3 DEF TransmitterTypeOK, EndAckTransmission, txVars
  <2>2. TimersTypeOK'
    BY <1>3 DEF TimersTypeOK, EndAckTransmission, timerVars
  <2>3. ChannelTypeOK'
    BY <1>3 DEF ChannelTypeOK, EndAckTransmission, channelVars
  <2>4. generated' \in [Pair -> Nat] /\ ScanTypeOK'
    BY <1>3, ScanType DEF EndAckTransmission, Stages
  <2> QED
    BY <1>3, <2>1, <2>2, <2>3, <2>4, TypeFrame DEF EndAckTransmission
<1>4. ASSUME NEW i \in Pair, EndAckListening(i), Turn(8, i)
      PROVE  TypeOK'
  <2>1. TransmitterTypeOK'
    BY <1>4 DEF TransmitterTypeOK, EndAckListening, txVars
  <2>2. TimersTypeOK'
    BY <1>4 DEF TimersTypeOK, EndAckListening, timerVars
  <2>3. generated' \in [Pair -> Nat] /\ ScanTypeOK'
    BY <1>4, ScanType DEF EndAckListening, Stages
  <2> QED
    BY <1>4, <2>1, <2>2, <2>3, TypeFrame DEF EndAckListening
<1>5. ASSUME NEW i \in Pair, EndTxSleep(i), Turn(9, i)
      PROVE  TypeOK'
  <2>1. TransmitterTypeOK'
    BY <1>5 DEF TransmitterTypeOK, EndTxSleep, txVars
  <2>2. TimersTypeOK'
    BY <1>5 DEF TimersTypeOK, EndTxSleep, timerVars
  <2>3. generated' \in [Pair -> Nat] /\ ScanTypeOK'
    BY <1>5, ScanType DEF EndTxSleep, Stages
  <2> QED
    BY <1>5, <2>1, <2>2, <2>3, TypeFrame DEF EndTxSleep
<1>6. ASSUME NEW i \in Pair, SuccessfulPacketTransmission(i), Turn(10, i)
      PROVE  TypeOK'
  <2>1. TransmitterTypeOK'
    BY <1>6, HeadExists, SMTT(30) DEF TransmitterTypeOK, SuccessfulPacketTransmission,
           FinishPacket, txVars
  <2>2. Head(buffer[i]) \in Nat
    BY <1>6, HeadExists DEF SuccessfulPacketTransmission
  <2>3. AwaitTime(i) \in Int /\ DelayTime(i) \in Int
    BY <2>2, AwaitTimeType DEF TransmitterTypeOK, ScanTypeOK
  <2>4. totPacketAwaitTime' \in Int
    BY <1>6, <2>3 DEF StatisticsTypeOK, SuccessfulPacketTransmission
  <2>5. totPacketDelay' \in Int
    BY <1>6, <2>3 DEF StatisticsTypeOK, SuccessfulPacketTransmission
  <2>6. totRetranCount' \in Nat
    <3>1. retranNum[i] \in Nat /\ totRetranCount \in Nat
      BY DEF StatisticsTypeOK, TransmitterTypeOK
    <3> QED
      BY <1>6, <3>1 DEF SuccessfulPacketTransmission
  <2>7. StatisticsTypeOK'
    BY <1>6, <2>4, <2>5, <2>6 DEF StatisticsTypeOK, SuccessfulPacketTransmission,
           statVars
  <2>8. TimersTypeOK'
    BY <1>6 DEF TimersTypeOK, SuccessfulPacketTransmission, FinishPacket, timerVars
  <2>9. generated' \in [Pair -> Nat] /\ ScanTypeOK'
    BY <1>6, ScanType DEF SuccessfulPacketTransmission, FinishPacket, Stages
  <2> QED
    BY <1>6, <2>1, <2>7, <2>8, <2>9, TypeFrame DEF SuccessfulPacketTransmission,
       FinishPacket
<1>7. ASSUME NEW i \in Pair, RemoveLostPacket(i), Turn(11, i)
      PROVE  TypeOK'
  <2>1. TransmitterTypeOK'
    BY <1>7, HeadExists, SMTT(30) DEF TransmitterTypeOK, RemoveLostPacket, FinishPacket,
           txVars, LostTriggered
  <2>2. Head(buffer[i]) \in Nat
    BY <1>7, HeadExists DEF RemoveLostPacket, LostTriggered
  <2>3. AwaitTime(i) \in Int /\ DelayTime(i) \in Int
    BY <2>2, AwaitTimeType DEF TransmitterTypeOK, ScanTypeOK
  <2>4. totPacketAwaitTime' \in Int
    BY <1>7, <2>3 DEF StatisticsTypeOK, RemoveLostPacket
  <2>5. lost' \in [Pair -> Nat]
    BY <1>7, <2>3 DEF StatisticsTypeOK, RemoveLostPacket
  <2>6. StatisticsTypeOK'
    BY <1>7, <2>4, <2>5 DEF StatisticsTypeOK, RemoveLostPacket, statVars
  <2>7. generated' \in [Pair -> Nat] /\ ScanTypeOK'
    BY <1>7, ScanType DEF RemoveLostPacket, FinishPacket, Stages
  <2> QED
    BY <1>7, <2>1, <2>6, <2>7, TypeFrame DEF RemoveLostPacket, FinishPacket
<1>8. ASSUME NEW i \in Pair, ScheduleRetransmission(i), Turn(12, i)
      PROVE  TypeOK'
  <2>1. TransmitterTypeOK'
    BY <1>8 DEF TransmitterTypeOK, ScheduleRetransmission, txVars
  <2>2. isBusy[i]
    BY <1>8 DEF LinkInv, Link, ScheduleRetransmission, RetransmissionTriggered
  <2>3. transmissionTime[i] \in TransmissionTimes /\ retranNum[i] \in Nat
    BY <2>2 DEF LinkInv, Link, TransmitterTypeOK
  <2>4. PICK multiplier \in BackoffMultipliers(retranNum[i]) :
           endSleepTime' = Put(endSleepTime, i, SleepTime(multiplier, transmissionTime[i]))
    BY <1>8 DEF ScheduleRetransmission
  <2>5. SleepTime(multiplier, transmissionTime[i]) \in Nat
    BY <2>3, SleepTimeType
  <2>6. TimersTypeOK'
    BY <1>8, <2>4, <2>5 DEF TimersTypeOK, ScheduleRetransmission, timerVars
  <2>7. generated' \in [Pair -> Nat] /\ ScanTypeOK'
    BY <1>8, ScanType DEF ScheduleRetransmission, Stages
  <2> QED
    BY <1>8, <2>1, <2>6, <2>7, TypeFrame DEF ScheduleRetransmission
<1>9. ASSUME NEW i \in Pair, StartChannelObserving(i), Turn(13, i)
      PROVE  TypeOK'
  <2>1. TransmitterTypeOK'
    BY <1>9 DEF TransmitterTypeOK, StartChannelObserving, txVars
  <2>2. TimersTypeOK'
    BY <1>9 DEF TimersTypeOK, StartChannelObserving, timerVars
  <2>3. generated' \in [Pair -> Nat] /\ ScanTypeOK'
    BY <1>9, ScanType DEF StartChannelObserving, Stages
  <2> QED
    BY <1>9, <2>1, <2>2, <2>3, TypeFrame DEF StartChannelObserving
<1>10. ASSUME NEW i \in Pair, ProbeChannelState(i), Turn(14, i)
      PROVE  TypeOK'
  <2>1. TransmitterTypeOK'
    BY <1>10 DEF TransmitterTypeOK, ProbeChannelState, txVars
  <2>2. TimersTypeOK'
    BY <1>10 DEF TimersTypeOK, ProbeChannelState, timerVars
  <2>3. generated' \in [Pair -> Nat] /\ ScanTypeOK'
    BY <1>10, ScanType DEF ProbeChannelState, Stages
  <2> QED
    BY <1>10, <2>1, <2>2, <2>3, TypeFrame DEF ProbeChannelState
<1>11. ASSUME NEW i \in Pair, MarkEmptyChannelState(i), Turn(15, i)
      PROVE  TypeOK'
  <2>1. TransmitterTypeOK'
    BY <1>11 DEF TransmitterTypeOK, MarkEmptyChannelState, txVars
  <2>2. generated' \in [Pair -> Nat] /\ ScanTypeOK'
    BY <1>11, ScanType DEF MarkEmptyChannelState, Stages
  <2> QED
    BY <1>11, <2>1, <2>2, TypeFrame DEF MarkEmptyChannelState
<1>12. ASSUME NEW i \in Pair, ResetTXDownCounter(i), Turn(16, i)
      PROVE  TypeOK'
  <2>1. TransmitterTypeOK'
    BY <1>12 DEF TransmitterTypeOK, ResetTXDownCounter, txVars
  <2>2. generated' \in [Pair -> Nat] /\ ScanTypeOK'
    BY <1>12, ScanType DEF ResetTXDownCounter, Stages
  <2> QED
    BY <1>12, <2>1, <2>2, TypeFrame DEF ResetTXDownCounter
<1>13. ASSUME NEW i \in Pair, ReduceTXDownCounter(i), Turn(17, i)
      PROVE  TypeOK'
  <2>1. TransmitterTypeOK'
    BY <1>13 DEF TransmitterTypeOK, ReduceTXDownCounter, txVars
  <2>2. generated' \in [Pair -> Nat] /\ ScanTypeOK'
    BY <1>13, ScanType DEF ReduceTXDownCounter, Stages
  <2> QED
    BY <1>13, <2>1, <2>2, TypeFrame DEF ReduceTXDownCounter
<1>14. ASSUME NEW i \in Pair, TransmitAck(i), Turn(18, i)
      PROVE  TypeOK'
  <2>1. ReceiverTypeOK'
    BY <1>14 DEF ReceiverTypeOK, TransmitAck, rxVars
  <2>2. StatisticsTypeOK'
    BY <1>14 DEF StatisticsTypeOK, TransmitAck, statVars
  <2>3. TimersTypeOK'
    BY <1>14 DEF TimersTypeOK, TransmitAck, timerVars
  <2>4. ChannelTypeOK'
    BY <1>14 DEF ChannelTypeOK, TransmitAck, channelVars, AckTo, Transmission
  <2>5. generated' \in [Pair -> Nat] /\ ScanTypeOK'
    BY <1>14, ScanType DEF TransmitAck, Stages
  <2> QED
    BY <1>14, <2>1, <2>2, <2>3, <2>4, <2>5, TypeFrame DEF TransmitAck
<1>15. ASSUME NEW i \in Pair, StartRetransmission(i), Turn(19, i)
      PROVE  TypeOK'
  <2>1. TransmitterTypeOK'
    BY <1>15 DEF TransmitterTypeOK, StartRetransmission, SendPacket, txVars
  <2>2. TimersTypeOK'
    BY <1>15 DEF TimersTypeOK, StartRetransmission, SendPacket, timerVars,
           AckTimeout
  <2>3. ChannelTypeOK'
    BY <1>15 DEF ChannelTypeOK, StartRetransmission, SendPacket, channelVars,
           PacketOf, Transmission
  <2>4. generated' \in [Pair -> Nat] /\ ScanTypeOK'
    BY <1>15, ScanType DEF StartRetransmission, SendPacket, Stages
  <2> QED
    BY <1>15, <2>1, <2>2, <2>3, <2>4, TypeFrame DEF StartRetransmission, SendPacket
<1>16. ASSUME NEW i \in Pair, StartTransmission(i), Turn(20, i)
      PROVE  TypeOK'
  <2>1. TransmitterTypeOK'
    BY <1>16, SMTT(30) DEF TransmitterTypeOK, StartTransmission, SendPacket, txVars,
           ScanTypeOK
  <2>2. TimersTypeOK'
    BY <1>16 DEF TimersTypeOK, StartTransmission, SendPacket, timerVars, AckTimeout
  <2>3. ChannelTypeOK'
    BY <1>16 DEF ChannelTypeOK, StartTransmission, SendPacket, channelVars,
           PacketOf, Transmission
  <2>4. generated' \in [Pair -> Nat] /\ ScanTypeOK'
    BY <1>16, ScanType DEF StartTransmission, SendPacket, Stages
  <2> QED
    BY <1>16, <2>1, <2>2, <2>3, <2>4, TypeFrame DEF StartTransmission, SendPacket
<1>17. ASSUME UpdateChannelState, Turn(2, 0)
      PROVE  TypeOK'
  <2>1. ChannelTypeOK'
    BY <1>17 DEF ChannelTypeOK, UpdateChannelState, channelVars
  <2>2. TimersTypeOK'
    BY <1>17 DEF TimersTypeOK, UpdateChannelState, timerVars
  <2>3. generated' \in [Pair -> Nat] /\ ScanTypeOK'
    BY <1>17, ScanType DEF UpdateChannelState, Stages, Pair
  <2> QED
    BY <1>17, <2>1, <2>2, <2>3, TypeFrame DEF UpdateChannelState
<1>18. ASSUME ChannelEmpty, Turn(3, 0)
      PROVE  TypeOK'
  <2>1. ChannelTypeOK'
    BY <1>18 DEF ChannelTypeOK, ChannelEmpty, channelVars
  <2>2. generated' \in [Pair -> Nat] /\ ScanTypeOK'
    BY <1>18, ScanType DEF ChannelEmpty, Stages, Pair
  <2> QED
    BY <1>18, <2>1, <2>2, TypeFrame DEF ChannelEmpty
<1>19. ASSUME ChannelBusy, Turn(4, 0)
      PROVE  TypeOK'
  <2>1. ChannelTypeOK'
    BY <1>19 DEF ChannelTypeOK, ChannelBusy, channelVars
  <2>2. generated' \in [Pair -> Nat] /\ ScanTypeOK'
    BY <1>19, ScanType DEF ChannelBusy, Stages, Pair
  <2> QED
    BY <1>19, <2>1, <2>2, TypeFrame DEF ChannelBusy
<1>20. ASSUME Collision, Turn(5, 0)
      PROVE  TypeOK'
  <2>1. ChannelTypeOK'
    BY <1>20 DEF ChannelTypeOK, Collision, channelVars
  <2>2. generated' \in [Pair -> Nat] /\ ScanTypeOK'
    BY <1>20, ScanType DEF Collision, Stages, Pair
  <2> QED
    BY <1>20, <2>1, <2>2, TypeFrame DEF Collision
<1>21. ASSUME NewPass \/ Finished
      PROVE  TypeOK'
  <2>1. UNCHANGED networkVars
    BY <1>21 DEF NewPass, Finished, vars
  <2>2. ScanTypeOK'
    <3>1. CASE NewPass
      BY <3>1 DEF NewPass, ScanTypeOK, Pair
    <3>2. CASE Finished
      BY <3>2 DEF Finished, vars, scanVars, ScanTypeOK
    <3> QED
      BY <1>21, <3>1, <3>2
  <2> QED
    BY <2>1, <2>2, TypeFrame DEF networkVars
<1>22. ASSUME Tick
      PROVE  TypeOK'
  <2>1. TimersTypeOK'
    BY <1>22, CountDownType DEF TimersTypeOK, Tick, CountDownTimers
  <2>2. generated' \in [Pair -> Nat] /\ ScanTypeOK'
    BY <1>22 DEF Tick, ScanTypeOK, scanVars
  <2> QED
    BY <1>22, <2>1, <2>2, TypeFrame DEF Tick
<1>23. ASSUME ResetAndInitialize
      PROVE  TypeOK'
  <2>1. NetworkFresh'
    BY <1>23, ResetIsFresh DEF ResetAndInitialize
  <2>2. NetworkTypeOK'
    BY <2>1, FreshType, PTL
  <2>3. ScanTypeOK'
    BY <1>23 DEF ResetAndInitialize, ScanTypeOK, Pair
  <2> QED
    BY <2>2, <2>3
<1> QED
  BY <1>1, <1>2, <1>3, <1>4, <1>5, <1>6, <1>7, <1>8, <1>9, <1>10, <1>11, <1>12,
     <1>13, <1>14, <1>15, <1>16, <1>17, <1>18, <1>19, <1>20, <1>21, <1>22, <1>23 DEF
     Next, Scan

-----------------------------------------------------------------------------
(* The invariants of a single pair, LinkInv and ContendInv.                *)

(* When the clock advances nothing is due.                                 *)
LEMMA QuietFacts ==
  ASSUME TypeOK, stage = 0, NothingDueAfter
  PROVE  /\ updateChannelTime # 0
         /\ ~CollisionTriggered
         /\ \A i \in Pair :
               /\ endPacketTime[i] # 0 /\ endAckTime[i] # 0
               /\ endListeningTime[i] # 0 /\ endSleepTime[i] # 0
               /\ probeTime[i] # 0
               /\ ~SuccessTriggered(i)
               /\ ~TransmitAckTriggered(i)
               /\ ~StartRetransmissionTriggered(i)
               /\ ~StartTransmissionTriggered(i)
<1>1. \A s \in Stages, i \in Pair : ~Due(s, i)
  BY DEF NothingDueAfter, Before, Stages
<1>2. 0 \in Pair
  BY DEF Pair
<1>3. ~Due(2, 0) /\ ~Due(5, 0)
  BY <1>1, <1>2 DEF Stages
<1>4. ASSUME NEW i \in Pair
      PROVE  /\ ~Due(6, i) /\ ~Due(7, i) /\ ~Due(8, i) /\ ~Due(9, i) /\ ~Due(10, i)
             /\ ~Due(14, i) /\ ~Due(18, i) /\ ~Due(19, i) /\ ~Due(20, i)
  BY <1>1 DEF Stages
<1> QED
  BY <1>3, <1>4 DEF Due

-----------------------------------------------------------------------------
(* The events of a pair.                                                   *)

(* The events that neither begin nor end a transmission.                   *)
CalmEvent(st, i) ==
    \/ st = 1  /\ GeneratePacket(i)
    \/ st = 8  /\ EndAckListening(i)
    \/ st = 9  /\ EndTxSleep(i)
    \/ st = 10 /\ SuccessfulPacketTransmission(i)
    \/ st = 11 /\ RemoveLostPacket(i)
    \/ st = 12 /\ ScheduleRetransmission(i)
    \/ st = 13 /\ StartChannelObserving(i)
    \/ st = 14 /\ ProbeChannelState(i)
    \/ st = 15 /\ MarkEmptyChannelState(i)
    \/ st = 16 /\ ResetTXDownCounter(i)
    \/ st = 17 /\ ReduceTXDownCounter(i)

PairEvent(st, i) ==
    \/ CalmEvent(st, i)
    \/ st = 6  /\ EndPacketTransmission(i)
    \/ st = 7  /\ EndAckTransmission(i)
    \/ st = 18 /\ TransmitAck(i)
    \/ st = 19 /\ StartRetransmission(i)
    \/ st = 20 /\ StartTransmission(i)

(* A step of the simulator is one of these.                                *)
LEMMA StepCases ==
  ASSUME Next
  PROVE  \/ \E st \in Stages, i \in Pair : PairEvent(st, i)
         \/ UpdateChannelState \/ ChannelEmpty \/ ChannelBusy \/ Collision
         \/ NewPass \/ Finished \/ Tick \/ ResetAndInitialize
BY DEF Next, Scan, PairEvent, CalmEvent, Stages

(* The state of the pair i, but for its transmissions.                     *)
PairView(i) == <<buffer[i], transmissionTime[i], downCounter[i], retranNum[i],
                 wasTranOk[i], isBusy[i], wasChannelEmpty[i], isListeningFinished[i],
                 isActive[i], isProbingActive[i], isChannelObserved[i],
                 transmitTimestamp[i], wasPacketReceived[i], wasPacketUncorrupted[i],
                 wasUncorruptedByChannel[i], received[i], lost[i], endPacketTime[i],
                 endAckTime[i], endListeningTime[i], endSleepTime[i], probeTime[i],
                 generated[i]>>

(* An event of one pair leaves the state of the others alone.              *)
LEMMA OtherPairs ==
  ASSUME NetworkTypeOK, NEW st \in Stages, NEW i \in Pair, PairEvent(st, i),
         NEW j \in Pair, j # i
  PROVE  /\ UNCHANGED PairView(j)
         /\ Sending(j)' <=> Sending(j)
         /\ Acking(j)' <=> Acking(j)
<1>1. /\ buffer \in [Pair -> Seq(Nat)] /\ downCounter \in [Pair -> Int]
      /\ transmissionTime \in [Pair -> TransmissionTimes \union {-1}]
      /\ retranNum \in [Pair -> Nat] /\ wasTranOk \in [Pair -> BOOLEAN]
      /\ isBusy \in [Pair -> BOOLEAN] /\ wasChannelEmpty \in [Pair -> BOOLEAN]
      /\ isListeningFinished \in [Pair -> BOOLEAN] /\ isActive \in [Pair -> BOOLEAN]
      /\ isProbingActive \in [Pair -> BOOLEAN] /\ isChannelObserved \in [Pair -> BOOLEAN]
      /\ transmitTimestamp \in [Pair -> Nat]
  BY DEF NetworkTypeOK, TransmitterTypeOK
<1>2. /\ wasPacketReceived \in [Pair -> BOOLEAN] /\ wasPacketUncorrupted \in [Pair -> BOOLEAN]
      /\ wasUncorruptedByChannel \in [Pair -> BOOLEAN]
      /\ received \in [Pair -> Nat] /\ lost \in [Pair -> Nat]
      /\ endPacketTime \in [Pair -> EventTime] /\ endAckTime \in [Pair -> EventTime]
      /\ endListeningTime \in [Pair -> EventTime] /\ endSleepTime \in [Pair -> EventTime]
      /\ probeTime \in [Pair -> EventTime] /\ generated \in [Pair -> Nat]
  BY DEF NetworkTypeOK, ReceiverTypeOK, StatisticsTypeOK, TimersTypeOK
<1> USE DEF PairView, Put, txVars, rxVars, channelVars, statVars, timerVars, Sending, Acking
<1>3. CASE GeneratePacket(i)
  BY <1>1, <1>2, <1>3 DEF GeneratePacket
<1>4. CASE EndAckListening(i)
  BY <1>1, <1>2, <1>4 DEF EndAckListening
<1>5. CASE EndTxSleep(i)
  BY <1>1, <1>2, <1>5 DEF EndTxSleep
<1>6. CASE SuccessfulPacketTransmission(i)
  BY <1>1, <1>2, <1>6 DEF SuccessfulPacketTransmission, FinishPacket
<1>7. CASE RemoveLostPacket(i)
  BY <1>1, <1>2, <1>7 DEF RemoveLostPacket, FinishPacket
<1>8. CASE ScheduleRetransmission(i)
  BY <1>1, <1>2, <1>8 DEF ScheduleRetransmission
<1>9. CASE StartChannelObserving(i)
  BY <1>1, <1>2, <1>9 DEF StartChannelObserving
<1>10. CASE ProbeChannelState(i)
  BY <1>1, <1>2, <1>10 DEF ProbeChannelState
<1>11. CASE MarkEmptyChannelState(i)
  BY <1>1, <1>2, <1>11 DEF MarkEmptyChannelState
<1>12. CASE ResetTXDownCounter(i)
  BY <1>1, <1>2, <1>12 DEF ResetTXDownCounter
<1>13. CASE ReduceTXDownCounter(i)
  BY <1>1, <1>2, <1>13 DEF ReduceTXDownCounter
<1>14. CASE EndPacketTransmission(i)
  BY <1>1, <1>2, <1>14 DEF EndPacketTransmission, PacketOf, AckTo
<1>15. CASE EndAckTransmission(i)
  BY <1>1, <1>2, <1>15 DEF EndAckTransmission, PacketOf, AckTo
<1>16. CASE TransmitAck(i)
  BY <1>1, <1>2, <1>16 DEF TransmitAck, PacketOf, AckTo
<1>17. CASE StartRetransmission(i)
  <2>1. transmissions' = transmissions \union {PacketOf(i)}
    BY <1>17 DEF StartRetransmission, SendPacket
  <2>2. (Sending(j)' <=> Sending(j)) /\ (Acking(j)' <=> Acking(j))
    BY <2>1 DEF PacketOf, AckTo
  <2> QED
    BY <1>1, <1>2, <1>17, <2>2 DEF StartRetransmission, SendPacket
<1>18. CASE StartTransmission(i)
  <2>1. transmissions' = transmissions \union {PacketOf(i)}
    BY <1>18 DEF StartTransmission, SendPacket
  <2>2. (Sending(j)' <=> Sending(j)) /\ (Acking(j)' <=> Acking(j))
    BY <2>1 DEF PacketOf, AckTo
  <2> QED
    BY <1>1, <1>2, <1>18, <2>2 DEF StartTransmission, SendPacket
<1> QED
  BY <1>3, <1>4, <1>5, <1>6, <1>7, <1>8, <1>9, <1>10, <1>11, <1>12, <1>13, <1>14,
     <1>15, <1>16, <1>17, <1>18 DEF PairEvent, CalmEvent

-----------------------------------------------------------------------------
(* The state Link(i) depends on, but for the transmissions of the pair.    *)
LinkView(i) == <<isBusy[i], isListeningFinished[i], transmissionTime[i], retranNum[i],
                 wasTranOk[i], endListeningTime[i], endPacketTime[i], endAckTime[i],
                 wasPacketReceived[i], wasPacketUncorrupted[i],
                 wasUncorruptedByChannel[i]>>

(* A step that leaves what Link(i) depends on alone preserves it.          *)
LEMMA LinkFrame ==
  ASSUME NEW i \in Pair, Link(i), UNCHANGED LinkView(i),
         Sending(i)' <=> Sending(i), Acking(i)' <=> Acking(i)
  PROVE  Link(i)'
<1>1. TransmitAckTriggered(i)' <=> TransmitAckTriggered(i)
  BY DEF LinkView, TransmitAckTriggered
<1> QED
  BY <1>1 DEF Link, LinkView

(* Counting a time that is not 0 down.                                     *)
LEMMA CountDownValue ==
  ASSUME NEW time \in [Pair -> EventTime], NEW j \in Pair, time[j] # 0
  PROVE  /\ time[j] \in Nat \union {-1}
         /\ time[j] = -1 => CountDown(time)[j] = -1
         /\ time[j] # -1 => CountDown(time)[j] = time[j] - 1
BY DEF CountDown, EventTime, Inactive, MinimalTimeStep

(* When the clock advances the times of a pair advance together.           *)
LEMMA LinkTick ==
  ASSUME TypeOK, NEW j \in Pair, Link(j), Tick
  PROVE  Link(j)'
<1>1. /\ endPacketTime[j] # 0 /\ endAckTime[j] # 0 /\ endListeningTime[j] # 0
      /\ ~SuccessTriggered(j) /\ ~TransmitAckTriggered(j)
  BY QuietFacts DEF Tick
<1>2. /\ endPacketTime \in [Pair -> EventTime] /\ endAckTime \in [Pair -> EventTime]
      /\ endListeningTime \in [Pair -> EventTime]
      /\ transmissionTime \in [Pair -> TransmissionTimes \union {-1}]
  BY DEF TypeOK, NetworkTypeOK, TimersTypeOK, TransmitterTypeOK
<1>3. /\ endPacketTime' = CountDown(endPacketTime)
      /\ endAckTime' = CountDown(endAckTime)
      /\ endListeningTime' = CountDown(endListeningTime)
  BY DEF Tick, CountDownTimers
<1>4. /\ endPacketTime[j] \in Nat \union {-1}
      /\ endPacketTime[j] = -1 => endPacketTime'[j] = -1
      /\ endPacketTime[j] # -1 => endPacketTime'[j] = endPacketTime[j] - 1
  BY <1>1, <1>2, <1>3, CountDownValue
<1>5. /\ endAckTime[j] \in Nat \union {-1}
      /\ endAckTime[j] = -1 => endAckTime'[j] = -1
      /\ endAckTime[j] # -1 => endAckTime'[j] = endAckTime[j] - 1
  BY <1>1, <1>2, <1>3, CountDownValue
<1>6. /\ endListeningTime[j] \in Nat \union {-1}
      /\ endListeningTime[j] = -1 => endListeningTime'[j] = -1
      /\ endListeningTime[j] # -1 => endListeningTime'[j] = endListeningTime[j] - 1
  BY <1>1, <1>2, <1>3, CountDownValue
<1>7. transmissionTime[j] \in Int
  <2>1. TransmissionTimes \union {-1} \subseteq Int
    BY DEF NetworkAssumption
  <2>2. transmissionTime[j] \in TransmissionTimes \union {-1}
    BY <1>2
  <2> QED
    BY <2>1, <2>2
<1>8. /\ Sending(j)' <=> Sending(j)
      /\ Acking(j)' <=> Acking(j)
      /\ TransmitAckTriggered(j)' <=> TransmitAckTriggered(j)
  BY DEF Tick, channelVars, rxVars, Sending, Acking, PacketOf, AckTo, TransmitAckTriggered
<1>9. /\ isBusy'[j] = isBusy[j] /\ isListeningFinished'[j] = isListeningFinished[j]
      /\ transmissionTime'[j] = transmissionTime[j] /\ retranNum'[j] = retranNum[j]
      /\ wasTranOk'[j] = wasTranOk[j]
  BY DEF Tick, txVars
<1>10. ~wasTranOk[j] /\ ~TransmitAckTriggered(j)
  BY <1>1, <1>6 DEF Link, SuccessTriggered, Inactive
<1>11. endListeningTime'[j] # -1 <=> endListeningTime[j] # -1
  BY <1>1, <1>6
<1>12. /\ Sending(j)' <=> endPacketTime'[j] # Inactive
       /\ Acking(j)' <=> endAckTime'[j] # Inactive
  BY <1>1, <1>4, <1>5, <1>8 DEF Link, Inactive
<1>13. /\ isBusy'[j] <=> endListeningTime'[j] # Inactive \/ isListeningFinished'[j]
       /\ isListeningFinished'[j] => endListeningTime'[j] = Inactive
  BY <1>9, <1>11 DEF Link, Inactive
<1>14. ASSUME Sending(j)
       PROVE  /\ ~Acking(j)'
              /\ endListeningTime'[j] = endPacketTime'[j] + AckMsgTime + 1
              /\ endPacketTime'[j] <= transmissionTime'[j]
  <2>1. /\ ~Acking(j) /\ endPacketTime[j] # -1
        /\ endListeningTime[j] = endPacketTime[j] + AckMsgTime + 1
        /\ endPacketTime[j] <= transmissionTime[j]
    BY <1>14 DEF Link, Inactive
  <2>2. endListeningTime[j] # -1
    BY <1>4, <2>1
  <2>3. endPacketTime[j] - 1 <= transmissionTime[j]
    BY <1>4, <1>7, <2>1
  <2> QED
    BY <1>4, <1>6, <1>8, <1>9, <2>1, <2>2, <2>3
<1>15. ASSUME Acking(j)
       PROVE  endListeningTime'[j] = endAckTime'[j] + 1
  <2>1. endListeningTime[j] = endAckTime[j] + 1 /\ endAckTime[j] # -1
    BY <1>15 DEF Link, Inactive
  <2> QED
    BY <1>5, <1>6, <2>1
<1> QED
  BY <1>8, <1>9, <1>10, <1>12, <1>13, <1>14, <1>15 DEF Link

(* Every step preserves the invariant of the waits for ACKs.               *)
LEMMA LinkStep ==
  ASSUME TypeOK, LinkInv, ContendInv, Next
  PROVE  LinkInv'
<1> SUFFICES ASSUME NEW j \in Pair PROVE Link(j)'
  BY DEF LinkInv
<1>0. Link(j)
  BY DEF LinkInv
<1>others. ASSUME NEW st \in Stages, NEW i \in Pair, PairEvent(st, i), j # i
       PROVE  Link(j)'
  BY <1>0, <1>others, OtherPairs, LinkFrame DEF PairView, LinkView, TypeOK
<1> USE DEF TypeOK, NetworkTypeOK, TransmitterTypeOK, ReceiverTypeOK, ChannelTypeOK,
            TimersTypeOK, EventTime, Inactive, MinimalTimeStep, Put,
            txVars, rxVars, channelVars, timerVars, Sending, Acking, PacketOf, AckTo
<1>1. ASSUME GeneratePacket(j)
      PROVE  Link(j)'
  BY <1>0, <1>1, LinkFrame DEF LinkView, GeneratePacket
<1>2. ASSUME EndPacketTransmission(j)
      PROVE  Link(j)'
  BY <1>0, <1>2 DEF Link, TransmitAckTriggered, EndPacketTransmission
<1>3. ASSUME EndAckTransmission(j)
      PROVE  Link(j)'
  BY <1>0, <1>3 DEF Link, TransmitAckTriggered, EndAckTransmission
<1>4. ASSUME EndAckListening(j)
      PROVE  Link(j)'
  BY <1>0, <1>4 DEF Link, TransmitAckTriggered, EndAckListening
<1>5. ASSUME EndTxSleep(j)
      PROVE  Link(j)'
  BY <1>0, <1>5, LinkFrame DEF LinkView, EndTxSleep
<1>6. ASSUME SuccessfulPacketTransmission(j)
      PROVE  Link(j)'
  BY <1>0, <1>6 DEF Link, TransmitAckTriggered,
     SuccessfulPacketTransmission, FinishPacket, SuccessTriggered
<1>7. ASSUME RemoveLostPacket(j)
      PROVE  Link(j)'
  BY <1>0, <1>7 DEF Link, TransmitAckTriggered, RemoveLostPacket,
     FinishPacket, LostTriggered
<1>8. ASSUME ScheduleRetransmission(j)
      PROVE  Link(j)'
  BY <1>0, <1>8 DEF Link, TransmitAckTriggered, ScheduleRetransmission,
     RetransmissionTriggered
<1>9. ASSUME StartChannelObserving(j)
      PROVE  Link(j)'
  BY <1>0, <1>9, LinkFrame DEF LinkView, StartChannelObserving
<1>10. ASSUME ProbeChannelState(j)
      PROVE  Link(j)'
  BY <1>0, <1>10, LinkFrame DEF LinkView, ProbeChannelState
<1>11. ASSUME MarkEmptyChannelState(j)
      PROVE  Link(j)'
  BY <1>0, <1>11, LinkFrame DEF LinkView, MarkEmptyChannelState
<1>12. ASSUME ResetTXDownCounter(j)
      PROVE  Link(j)'
  BY <1>0, <1>12, LinkFrame DEF LinkView, ResetTXDownCounter
<1>13. ASSUME ReduceTXDownCounter(j)
      PROVE  Link(j)'
  BY <1>0, <1>13, LinkFrame DEF LinkView, ReduceTXDownCounter
<1>14. ASSUME TransmitAck(j)
      PROVE  Link(j)'
  BY <1>0, <1>14 DEF Link, TransmitAckTriggered, TransmitAck
<1>15. ASSUME StartRetransmission(j)
      PROVE  Link(j)'
  BY <1>0, <1>15 DEF Link, TransmitAckTriggered, StartRetransmission,
     SendPacket, StartRetransmissionTriggered, AckTimeout
<1>16. ASSUME StartTransmission(j)
      PROVE  Link(j)'
  BY <1>0, <1>16 DEF Link, TransmitAckTriggered, StartTransmission,
     SendPacket, StartTransmissionTriggered, AckTimeout
<1>17. ASSUME UpdateChannelState
      PROVE  Link(j)'
  BY <1>0, <1>17, LinkFrame DEF LinkView, UpdateChannelState
<1>18. ASSUME ChannelEmpty
      PROVE  Link(j)'
  BY <1>0, <1>18, LinkFrame DEF LinkView, ChannelEmpty
<1>19. ASSUME ChannelBusy
      PROVE  Link(j)'
  BY <1>0, <1>19, LinkFrame DEF LinkView, ChannelBusy
<1>20. ASSUME Collision
      PROVE  Link(j)'
  BY <1>0, <1>20, LinkFrame DEF LinkView, Collision
<1>21. ASSUME NewPass \/ Finished
      PROVE  Link(j)'
  <2>1. UNCHANGED networkVars
    BY <1>21 DEF NewPass, Finished, vars
  <2> QED
    BY <1>0, <2>1, LinkFrame DEF LinkView, networkVars
<1>22. ASSUME Tick
      PROVE  Link(j)'
  BY <1>0, <1>22, LinkTick
<1>23. ASSUME ResetAndInitialize
      PROVE  Link(j)'
  BY <1>23 DEF ResetAndInitialize, NetworkReset, TransmitterReset, ReceiverReset,
     ChannelReset, TimersReset, Link, TransmitAckTriggered
<1>own. ASSUME NEW st \in Stages, PairEvent(st, j)
       PROVE  Link(j)'
  BY <1>1, <1>2, <1>3, <1>4, <1>5, <1>6, <1>7, <1>8, <1>9, <1>10, <1>11, <1>12, <1>13,
     <1>14, <1>15, <1>16, <1>own DEF PairEvent, CalmEvent
<1> QED
  BY <1>17, <1>18, <1>19, <1>20, <1>21, <1>22, <1>23, <1>others, <1>own, StepCases

-----------------------------------------------------------------------------
(* The state Contend(i) depends on.                                        *)
ContendView(i) == <<buffer[i], isBusy[i], isChannelObserved[i], isProbingActive[i],
                    isActive[i], downCounter[i], retranNum[i], probeTime[i],
                    endSleepTime[i]>>

(* A step that leaves what Contend(i) depends on alone preserves it.       *)
LEMMA ContendFrame ==
  ASSUME NEW i \in Pair, Contend(i), UNCHANGED ContendView(i)
  PROVE  Contend(i)'
BY DEF Contend, ContendView

(* Every step preserves the invariant of the contention for the channel.   *)
LEMMA ContendStep ==
  ASSUME TypeOK, LinkInv, ContendInv, Next
  PROVE  ContendInv'
<1> SUFFICES ASSUME NEW j \in Pair PROVE Contend(j)'
  BY DEF ContendInv
<1>0. Contend(j) /\ Link(j)
  BY DEF ContendInv, LinkInv
<1>others. ASSUME NEW st \in Stages, NEW i \in Pair, PairEvent(st, i), j # i
       PROVE  Contend(j)'
  BY <1>0, <1>others, OtherPairs, ContendFrame DEF PairView, ContendView, TypeOK
<1> USE DEF TypeOK, NetworkTypeOK, TransmitterTypeOK, TimersTypeOK, EventTime,
            Inactive, MinimalTimeStep, Put, txVars, timerVars
<1>1. ASSUME GeneratePacket(j)
      PROVE  Contend(j)'
  BY <1>0, <1>1 DEF Contend, GeneratePacket
<1>2. ASSUME EndPacketTransmission(j)
      PROVE  Contend(j)'
  BY <1>0, <1>2, ContendFrame DEF ContendView, EndPacketTransmission
<1>3. ASSUME EndAckTransmission(j)
      PROVE  Contend(j)'
  BY <1>0, <1>3, ContendFrame DEF ContendView, EndAckTransmission
<1>4. ASSUME EndAckListening(j)
      PROVE  Contend(j)'
  BY <1>0, <1>4 DEF Contend, Link, EndAckListening
<1>5. ASSUME EndTxSleep(j)
      PROVE  Contend(j)'
  BY <1>0, <1>5 DEF Contend, EndTxSleep
<1>6. ASSUME SuccessfulPacketTransmission(j)
      PROVE  Contend(j)'
  BY <1>0, <1>6 DEF Contend, SuccessfulPacketTransmission, FinishPacket,
     SuccessTriggered
<1>7. ASSUME RemoveLostPacket(j)
      PROVE  Contend(j)'
  <2>1. isBusy[j]
    BY <1>0, <1>7 DEF Link, RemoveLostPacket, LostTriggered
  <2> QED
    BY <1>0, <1>7, <2>1 DEF Contend, RemoveLostPacket, FinishPacket
<1>8. ASSUME ScheduleRetransmission(j)
      PROVE  Contend(j)'
  <2>1. PICK multiplier \in BackoffMultipliers(retranNum[j]) :
           endSleepTime' = Put(endSleepTime, j, SleepTime(multiplier, transmissionTime[j]))
    BY <1>8 DEF ScheduleRetransmission
  <2>2. SleepTime(multiplier, transmissionTime[j]) \in Nat
    BY <1>0, <1>8, <2>1, SleepTimeType DEF Link, ScheduleRetransmission,
       RetransmissionTriggered
  <2>3. isBusy[j]
    BY <1>0, <1>8 DEF Link, ScheduleRetransmission, RetransmissionTriggered
  <2> QED
    BY <1>0, <1>8, <2>1, <2>2, <2>3 DEF Contend, ScheduleRetransmission
<1>9. ASSUME StartChannelObserving(j)
      PROVE  Contend(j)'
  BY <1>0, <1>9 DEF Contend, StartChannelObserving, ObservingTriggered
<1>10. ASSUME ProbeChannelState(j)
      PROVE  Contend(j)'
  BY <1>0, <1>10 DEF Contend, ProbeChannelState
<1>11. ASSUME MarkEmptyChannelState(j)
      PROVE  Contend(j)'
  BY <1>0, <1>11 DEF Contend, MarkEmptyChannelState
<1>12. ASSUME ResetTXDownCounter(j)
      PROVE  Contend(j)'
  BY <1>0, <1>12 DEF Contend, ResetTXDownCounter
<1>13. ASSUME ReduceTXDownCounter(j)
      PROVE  Contend(j)'
  BY <1>0, <1>13 DEF Contend, ReduceTXDownCounter, ReduceCounterTriggered
<1>14. ASSUME TransmitAck(j)
      PROVE  Contend(j)'
  BY <1>0, <1>14, ContendFrame DEF ContendView, TransmitAck
<1>15. ASSUME StartRetransmission(j)
      PROVE  Contend(j)'
  BY <1>0, <1>15 DEF Contend, StartRetransmission, SendPacket,
     StartRetransmissionTriggered
<1>16. ASSUME StartTransmission(j)
      PROVE  Contend(j)'
  BY <1>0, <1>16 DEF Contend, StartTransmission, SendPacket,
     StartTransmissionTriggered
<1>17. ASSUME UpdateChannelState
      PROVE  Contend(j)'
  BY <1>0, <1>17, ContendFrame DEF ContendView, UpdateChannelState
<1>18. ASSUME ChannelEmpty
      PROVE  Contend(j)'
  BY <1>0, <1>18, ContendFrame DEF ContendView, ChannelEmpty
<1>19. ASSUME ChannelBusy
      PROVE  Contend(j)'
  BY <1>0, <1>19, ContendFrame DEF ContendView, ChannelBusy
<1>20. ASSUME Collision
      PROVE  Contend(j)'
  BY <1>0, <1>20, ContendFrame DEF ContendView, Collision
<1>21. ASSUME NewPass \/ Finished
      PROVE  Contend(j)'
  <2>1. UNCHANGED networkVars
    BY <1>21 DEF NewPass, Finished, vars
  <2> QED
    BY <1>0, <2>1, ContendFrame DEF ContendView, networkVars
<1>22. ASSUME Tick
      PROVE  Contend(j)'
  <2>1. probeTime[j] # 0 /\ endSleepTime[j] # 0
    BY <1>22, QuietFacts DEF Tick
  <2> QED
    BY <1>0, <1>22, <2>1 DEF Contend, Tick, CountDownTimers, CountDown
<1>23. ASSUME ResetAndInitialize
      PROVE  Contend(j)'
  BY <1>23 DEF ResetAndInitialize, NetworkReset, TransmitterReset, TimersReset, Contend
<1>own. ASSUME NEW st \in Stages, PairEvent(st, j)
       PROVE  Contend(j)'
  BY <1>1, <1>2, <1>3, <1>4, <1>5, <1>6, <1>7, <1>8, <1>9, <1>10, <1>11, <1>12, <1>13,
     <1>14, <1>15, <1>16, <1>own DEF PairEvent, CalmEvent
<1> QED
  BY <1>17, <1>18, <1>19, <1>20, <1>21, <1>22, <1>23, <1>others, <1>own, StepCases

-----------------------------------------------------------------------------
(* The theorems.                                                           *)

(* A simulation that begins satisfies the invariants of the pairs.         *)
LEMMA InitPairInv == Init => PairInv
<1> SUFFICES ASSUME Init PROVE PairInv
  OBVIOUS
<1>1. NetworkTypeOK
  BY FreshType DEF Init
<1>2. TypeOK
  BY <1>1 DEF Init, TypeOK, ScanTypeOK, Pair
<1>3. LinkInv
  BY DEF Init, NetworkFresh, TransmitterFresh, ReceiverFresh, ChannelFresh, TimersFresh,
     LinkInv, Link, Sending, Acking, TransmitAckTriggered
<1>4. ContendInv
  BY DEF Init, NetworkFresh, TransmitterFresh, TimersFresh, ContendInv, Contend
<1> QED
  BY <1>2, <1>3, <1>4 DEF PairInv

(* Steps that leave every variable alone preserve them.                    *)
LEMMA StutterPairInv == PairInv /\ UNCHANGED vars => PairInv'
<1> SUFFICES ASSUME PairInv, UNCHANGED vars PROVE PairInv'
  OBVIOUS
<1>1. /\ UNCHANGED networkVars
      /\ UNCHANGED <<txVars, rxVars, channelVars, statVars, timerVars, generated>>
      /\ UNCHANGED <<clock, stage, turn, running, run>>
  BY DEF vars, scanVars, networkVars
<1>2. TypeOK'
  BY <1>1 DEF PairInv, TypeOK, NetworkTypeOK, TransmitterTypeOK, ReceiverTypeOK,
     ChannelTypeOK, StatisticsTypeOK, TimersTypeOK, ScanTypeOK,
     txVars, rxVars, channelVars, statVars, timerVars
<1>3. LinkInv'
  BY <1>1, LinkFrame DEF PairInv, LinkInv, LinkView, Sending, Acking, txVars, rxVars,
     channelVars, timerVars
<1>4. ContendInv'
  BY <1>1, ContendFrame DEF PairInv, ContendInv, ContendView, txVars, timerVars
<1> QED
  BY <1>2, <1>3, <1>4 DEF PairInv

(* In every state of every behaviour each variable has its type, the timers *)
(* and flags of a pair agree with what the pair has on the channel, and    *)
(* only a transmitter that may send contends for the channel.              *)
THEOREM PairsAreConsistent == Spec => []PairInv
<1>1. PairInv /\ [Next]_vars => PairInv'
  <2> SUFFICES ASSUME PairInv, Next PROVE PairInv'
    BY StutterPairInv
  <2> QED
    BY TypeStep, LinkStep, ContendStep DEF PairInv
<1> QED
  BY <1>1, InitPairInv, PTL DEF Spec

(* Type correctness: the fields of the classes and the times of the events *)
(* keep their types, in every stage of every scan.                         *)
THEOREM TypeCorrect == Spec => []TypeOK
<1>1. PairInv => TypeOK
  BY DEF PairInv
<1> QED
  BY <1>1, PairsAreConsistent, PTL

(* Every transmission on the channel has the end event that will delete    *)
(* it, and every end event its transmission.                               *)
THEOREM NoTransmissionIsLeftOver == Spec => []TransmissionHasItsEnd
<1>1. PairInv => TransmissionHasItsEnd
  BY DEF PairInv, LinkInv, Link, TransmissionHasItsEnd
<1> QED
  BY <1>1, PairsAreConsistent, PTL

(* However the scan orders the events of one clock value, the wait of a    *)
(* transmitter for its ACK outlasts the packet and the ACK by one step.    *)
THEOREM AckFitsInTheWait == Spec => []ListeningCoversAck
<1>1. PairInv => ListeningCoversAck
  BY DEF PairInv, LinkInv, Link, ListeningCoversAck
<1> QED
  BY <1>1, PairsAreConsistent, PTL

(* A transmitter whose wait timed out, and which will therefore repeat its *)
(* packet or drop it, has no ACK and will get none.                        *)
THEOREM TimeoutIsSound == Spec => []TimeoutMeansFailure
<1>1. PairInv => TimeoutMeansFailure
  <2> SUFFICES ASSUME TypeOK, NEW i \in Pair, Link(i), isListeningFinished[i]
               PROVE  ~wasTranOk[i] /\ ~Sending(i) /\ ~Acking(i) /\ ~TransmitAckTriggered(i)
    BY DEF PairInv, LinkInv, TimeoutMeansFailure
  <2>1. endListeningTime[i] = -1
    BY DEF Link, Inactive
  <2>2. endPacketTime[i] \in Nat \union {-1} /\ endAckTime[i] \in Nat \union {-1}
    BY DEF TypeOK, NetworkTypeOK, TimersTypeOK, EventTime, Inactive
  <2>3. ~wasTranOk[i] /\ ~TransmitAckTriggered(i)
    BY <2>1 DEF Link
  <2>4. ~Sending(i)
    BY <2>1, <2>2 DEF Link, Inactive
  <2>5. ~Acking(i)
    BY <2>1, <2>2 DEF Link, Inactive
  <2> QED
    BY <2>3, <2>4, <2>5
<1> QED
  BY <1>1, PairsAreConsistent, PTL

-----------------------------------------------------------------------------
(* The scan.                                                               *)

(* The scan may go on from its position to event k of stage st: no event   *)
(* in between is due.                                                      *)
Skipped(st, k) ==
    \A s \in stage .. 20, j \in Pair :
        Ahead(s, j) /\ Before(s, j, st, k) => ~Due(s, j)

(* An event that is executed was reached without passing one that is due.  *)
LEMMA TurnSkips ==
  ASSUME ScanTypeOK, NEW st \in Stages, NEW k \in Pair, Turn(st, k)
  PROVE  Skipped(st, k) /\ Ahead(st, k)
<1>1. ASSUME NEW s \in stage .. 20, NEW j \in Pair, Ahead(s, j), Before(s, j, st, k)
      PROVE  ~Due(s, j)
  <2>1. s \in stage .. st
    BY <1>1 DEF Before, Stages, ScanTypeOK
  <2> QED
    BY <1>1, <2>1 DEF Turn, Ahead
<1> QED
  BY <1>1 DEF Skipped, Turn, Ahead

(* At the end of a pass every event ahead has been passed.                 *)
LEMMA QuietSkips ==
  ASSUME NothingDueAfter
  PROVE  Skipped(21, 0)
BY DEF NothingDueAfter, Skipped, Ahead

(* From stage 5 on the channel has been sensed for this clock value.       *)
LEMMA SensedFromCollision ==
  ASSUME TypeOK, SenseInv, NEW st \in 5 .. 21, NEW k \in Pair, Skipped(st, k)
  PROVE  Sensed
<1>1. 0 \in Pair /\ stage \in 0 .. 20 /\ turn \in Pair
  BY DEF Pair, TypeOK, ScanTypeOK
<1>2. ASSUME updateChannelTime = 0 PROVE FALSE
  <2>1. stage \in 0 .. 1
    BY <1>1, <1>2 DEF SenseInv
  <2>2. ~Due(2, 0)
    BY <1>1, <2>1 DEF Skipped, Ahead, Before
  <2> QED
    BY <1>2, <2>2 DEF Due
<1>3. ASSUME isUpdateEnabled PROVE FALSE
  <2>1. stage = 2
    BY <1>3 DEF SenseInv
  <2>2. ~Due(3, 0) /\ ~Due(4, 0)
    BY <1>1, <2>1 DEF Skipped, Ahead, Before
  <2> QED
    BY <1>3, <2>2 DEF Due, ChannelEmptyTriggered, ChannelBusyTriggered
<1> QED
  BY <1>2, <1>3 DEF Sensed

(* A transmission whose counter is 0 is not passed over.                   *)
LEMMA StartIsNotSkipped ==
  ASSUME TypeOK, ExpiredInv, NEW st \in 1 .. 21, NEW k \in Pair, Skipped(st, k),
         NEW i \in Pair, downCounter[i] = 0, ~isBusy[i]
  PROVE  ~Before(StartStage(i), i, st, k)
<1>1. SUFFICES ASSUME Before(StartStage(i), i, st, k) PROVE FALSE
  OBVIOUS
<1>2. Ahead(StartStage(i), i)
  BY DEF ExpiredInv, Expired
<1>3. StartStage(i) \in stage .. 20
  BY <1>2 DEF StartStage, Ahead, Before, TypeOK, ScanTypeOK
<1>4. ~Due(StartStage(i), i)
  BY <1>1, <1>2, <1>3 DEF Skipped
<1> QED
  BY <1>4 DEF Due, StartStage, StartRetransmissionTriggered, StartTransmissionTriggered

(* A probe that is due is made, and a probe that is made is decided.       *)
LEMMA ProbeIsNotSkipped ==
  ASSUME TypeOK, ContendInv, ProbeInv, NEW st \in 1 .. 21, NEW k \in Pair,
         Skipped(st, k), NEW i \in Pair
  PROVE  /\ Before(14, i, st, k) => probeTime[i] # 0
         /\ Before(17, i, st, k) => ~isProbingActive[i]
<1>1. /\ stage \in 0 .. 20 /\ turn \in Pair
      /\ Probe(i)
      /\ isProbingActive[i] => isActive[i] /\ ~isBusy[i]
  BY DEF TypeOK, ScanTypeOK, ProbeInv, ContendInv, Contend
<1>2. ASSUME Before(14, i, st, k), probeTime[i] = 0 PROVE FALSE
  <2>1. Ahead(14, i)
    BY <1>1, <1>2 DEF Probe
  <2>2. 14 \in stage .. 20
    BY <1>1, <2>1 DEF Ahead, Before
  <2>3. ~Due(14, i)
    BY <1>2, <2>1, <2>2 DEF Skipped
  <2> QED
    BY <1>2, <2>3 DEF Due
<1>3. ASSUME Before(17, i, st, k), isProbingActive[i] PROVE FALSE
  <2>1. ProbePending(i)
    BY <1>1, <1>3 DEF Probe
  <2>2. 17 \in stage .. 20 /\ Ahead(17, i)
    BY <1>1, <2>1 DEF Ahead, Before, ProbePending
  <2>3. ~Due(17, i)
    BY <1>3, <2>2 DEF Skipped
  <2>4. ~wasChannelEmpty[i] \/ isChannelBusy
    BY <1>1, <1>3, <2>3 DEF Due, ReduceCounterTriggered
  <2>5. ~isChannelBusy
    <3>1. CASE Ahead(16, i)
      <4>1. 16 \in stage .. 20 /\ Before(16, i, st, k)
        BY <1>1, <1>3, <3>1 DEF Ahead, Before
      <4>2. ~Due(16, i)
        BY <3>1, <4>1 DEF Skipped
      <4> QED
        BY <1>1, <1>3, <4>2 DEF Due, ResetCounterTriggered
    <3>2. CASE ~Ahead(16, i)
      BY <2>1, <3>2 DEF ProbePending
    <3> QED
      BY <3>1, <3>2
  <2>6. wasChannelEmpty[i] \/ isChannelBusy
    <3>1. CASE Ahead(15, i)
      <4>1. 15 \in stage .. 20 /\ Before(15, i, st, k)
        BY <1>1, <1>3, <3>1 DEF Ahead, Before
      <4>2. ~Due(15, i)
        BY <3>1, <4>1 DEF Skipped
      <4> QED
        BY <1>3, <4>2 DEF Due, MarkEmptyTriggered
    <3>2. CASE ~Ahead(15, i)
      BY <2>1, <3>2 DEF ProbePending
    <3> QED
      BY <3>1, <3>2
  <2> QED
    BY <2>4, <2>5, <2>6
<1> QED
  BY <1>2, <1>3

-----------------------------------------------------------------------------
(* Steps that have nothing to do with the channel.                         *)

(* The state AirInv depends on.                                            *)
AirView == <<transmissions, endPacketTime, transmissionTime,
             wasPacketReceived, wasPacketUncorrupted, wasUncorruptedByChannel,
             updateChannelTime, isUpdateEnabled, isChannelBusy, wasTransmitError>>

(* The calm events leave the channel alone.                                *)
LEMMA CalmFrame ==
  ASSUME NEW st \in Stages, NEW i \in Pair, CalmEvent(st, i)
  PROVE  UNCHANGED AirView
<1> USE DEF AirView, rxVars, channelVars, timerVars
<1>1. CASE GeneratePacket(i) \/ EndAckListening(i) \/ EndTxSleep(i)
  BY <1>1 DEF GeneratePacket, EndAckListening, EndTxSleep
<1>2. CASE SuccessfulPacketTransmission(i) \/ RemoveLostPacket(i)
  BY <1>2 DEF SuccessfulPacketTransmission, RemoveLostPacket
<1>3. CASE ScheduleRetransmission(i) \/ StartChannelObserving(i) \/ ProbeChannelState(i)
  BY <1>3 DEF ScheduleRetransmission, StartChannelObserving, ProbeChannelState
<1>4. CASE MarkEmptyChannelState(i) \/ ResetTXDownCounter(i) \/ ReduceTXDownCounter(i)
  BY <1>4 DEF MarkEmptyChannelState, ResetTXDownCounter, ReduceTXDownCounter
<1> QED
  BY <1>1, <1>2, <1>3, <1>4 DEF CalmEvent

(* A step of the simulator is one of these.                                *)
LEMMA NextCases ==
  ASSUME Next
  PROVE  \/ \E st \in Stages, i \in Pair : CalmEvent(st, i) /\ Turn(st, i)
         \/ \E i \in Pair : \/ EndPacketTransmission(i) /\ Turn(6, i)
                            \/ EndAckTransmission(i) /\ Turn(7, i)
                            \/ TransmitAck(i) /\ Turn(18, i)
                            \/ StartRetransmission(i) /\ Turn(19, i)
                            \/ StartTransmission(i) /\ Turn(20, i)
         \/ UpdateChannelState /\ Turn(2, 0)
         \/ ChannelEmpty /\ Turn(3, 0)
         \/ ChannelBusy /\ Turn(4, 0)
         \/ Collision /\ Turn(5, 0)
         \/ NewPass \/ Tick \/ ResetAndInitialize \/ Finished
BY DEF Next, Scan, CalmEvent, Stages

LEMMA AirFrame == AirInv /\ UNCHANGED AirView => AirInv'
BY DEF AirInv, AirView, IdleFlagIsCurrent, OverlapIsRecorded, AckAlone,
   OverlapsStartTogether, Sensed, Sending, Acking, Elapsed, Overlap,
   TransmitAckTriggered

-----------------------------------------------------------------------------
(* The channel is sensed in the first pass, before everything else but the *)
(* arrivals.                                                               *)
LEMMA SenseTurn ==
  ASSUME TypeOK, SenseInv, NEW st \in Stages, NEW i \in Pair, Turn(st, i),
         st = 1 \/ st >= 5, UNCHANGED <<updateChannelTime, isUpdateEnabled>>
  PROVE  SenseInv' /\ (st >= 5 => Sensed /\ Sensed')
<1>1. Skipped(st, i) /\ Ahead(st, i)
  BY TurnSkips DEF TypeOK
<1>2. stage' = st
  BY DEF Turn
<1>3. CASE st = 1
  BY <1>1, <1>2, <1>3 DEF SenseInv, Ahead, Before, TypeOK, ScanTypeOK
<1>4. CASE st >= 5
  <2>1. Sensed
    BY <1>1, <1>4, SensedFromCollision DEF Stages
  <2> QED
    BY <2>1, <1>2, <1>4 DEF SenseInv, Sensed
<1> QED
  BY <1>3, <1>4

LEMMA SenseStep ==
  ASSUME TypeOK, SenseInv, Next
  PROVE  SenseInv'
<1> USE DEF SenseInv
<1>1. ASSUME NEW st \in Stages, NEW i \in Pair, CalmEvent(st, i), Turn(st, i)
      PROVE  SenseInv'
  <2>1. st = 1 \/ st >= 5
    BY <1>1 DEF CalmEvent
  <2> QED
    BY <1>1, <2>1, CalmFrame, SenseTurn DEF AirView
<1>2. ASSUME NEW i \in Pair, EndPacketTransmission(i), Turn(6, i)
      PROVE  SenseInv'
  BY <1>2, SenseTurn DEF EndPacketTransmission, Stages
<1>3. ASSUME NEW i \in Pair, EndAckTransmission(i), Turn(7, i)
      PROVE  SenseInv'
  BY <1>3, SenseTurn DEF EndAckTransmission, Stages
<1>4. ASSUME NEW i \in Pair, TransmitAck(i), Turn(18, i)
      PROVE  SenseInv'
  BY <1>4, SenseTurn DEF TransmitAck, Stages
<1>5. ASSUME NEW i \in Pair, StartRetransmission(i), Turn(19, i)
      PROVE  SenseInv'
  BY <1>5, SenseTurn DEF StartRetransmission, SendPacket, Stages
<1>6. ASSUME NEW i \in Pair, StartTransmission(i), Turn(20, i)
      PROVE  SenseInv'
  BY <1>6, SenseTurn DEF StartTransmission, SendPacket, Stages
<1>7. ASSUME UpdateChannelState, Turn(2, 0)
      PROVE  SenseInv'
  BY <1>7 DEF UpdateChannelState, Turn, MinimalTimeStep
<1>8. ASSUME ChannelEmpty \/ ChannelBusy, Turn(3, 0) \/ Turn(4, 0)
      PROVE  SenseInv'
  <2>1. isUpdateEnabled /\ ~isUpdateEnabled' /\ updateChannelTime' = updateChannelTime
    BY <1>8 DEF ChannelEmpty, ChannelBusy, ChannelEmptyTriggered, ChannelBusyTriggered,
       timerVars
  <2> QED
    BY <2>1
<1>9. ASSUME Collision, Turn(5, 0)
      PROVE  SenseInv'
  BY <1>9, SenseTurn DEF Collision, Stages, timerVars, Pair
<1>10. ASSUME NewPass
       PROVE  SenseInv'
  <2>1. Sensed
    BY <1>10, QuietSkips, SensedFromCollision DEF NewPass, Pair
  <2> QED
    BY <1>10, <2>1 DEF NewPass, Sensed, networkVars, channelVars, timerVars
<1>11. ASSUME Tick
       PROVE  SenseInv'
  <2>1. Sensed
    BY <1>11, QuietSkips, SensedFromCollision DEF Tick, Pair
  <2> QED
    BY <1>11, <2>1 DEF Tick, Sensed, CountDownTimers, channelVars, scanVars,
       MinimalTimeStep
<1>12. ASSUME ResetAndInitialize
       PROVE  SenseInv'
  BY <1>12 DEF ResetAndInitialize, NetworkReset, ChannelReset, TimersReset
<1>13. ASSUME Finished
       PROVE  SenseInv'
  BY <1>13 DEF Finished, vars, scanVars, networkVars, channelVars, timerVars
<1> QED
  BY NextCases, <1>1, <1>2, <1>3, <1>4, <1>5, <1>6, <1>7, <1>8, <1>9, <1>10, <1>11,
     <1>12, <1>13

-----------------------------------------------------------------------------
(* The channel.                                                            *)

(* What LinkInv says about a packet on the channel.                        *)
LEMMA SendingFacts ==
  ASSUME TypeOK, LinkInv, NEW i \in Pair, Sending(i)
  PROVE  /\ endPacketTime[i] \in Nat
         /\ transmissionTime[i] \in Nat \ {0}
         /\ Elapsed(i) \in Nat
         /\ endPacketTime[i] = 0 => Elapsed(i) > 0
         /\ isBusy[i] /\ ~Acking(i) /\ ~wasTranOk[i] /\ ~TransmitAckTriggered(i)
<1>1. endPacketTime[i] \in Nat \union {-1} /\ endListeningTime[i] \in Nat \union {-1}
  BY DEF TypeOK, NetworkTypeOK, TimersTypeOK, EventTime, Inactive
<1>2. /\ endPacketTime[i] # -1 /\ endPacketTime[i] <= transmissionTime[i]
      /\ endListeningTime[i] = endPacketTime[i] + AckMsgTime + 1
      /\ ~Acking(i) /\ ~wasTranOk[i] /\ ~TransmitAckTriggered(i)
      /\ endListeningTime[i] # -1 => isBusy[i]
      /\ isBusy[i] => transmissionTime[i] \in TransmissionTimes
  BY DEF LinkInv, Link, Inactive
<1>3. isBusy[i]
  BY <1>1, <1>2
<1>4. transmissionTime[i] \in Nat \ {0}
  BY <1>2, <1>3
<1> QED
  BY <1>1, <1>2, <1>3, <1>4 DEF Elapsed

(* An event that is executed while a packet ends or an ACK is on the       *)
(* channel finds the carrier-sense flag set.                               *)
LEMMA BusyFacts ==
  ASSUME TypeOK, LinkInv, AirInv, Sensed, NEW i \in Pair,
         \/ endPacketTime[i] = 0
         \/ endAckTime[i] = 0
         \/ TransmitAckTriggered(i)
  PROVE  /\ isChannelBusy
         /\ endPacketTime[i] = 0 => Sending(i) /\ Elapsed(i) > 0
         /\ endAckTime[i] = 0 => Acking(i)
<1>1. endPacketTime[i] = 0 => Sending(i) /\ Elapsed(i) > 0
  BY SendingFacts DEF LinkInv, Link, Inactive
<1>2. endAckTime[i] = 0 => Acking(i)
  BY DEF LinkInv, Link, Inactive
<1>3. isChannelBusy
  BY <1>1, <1>2 DEF AirInv, IdleFlagIsCurrent
<1> QED
  BY <1>1, <1>2, <1>3

(* A packet ends: an ACK will be owed only if the packet was alone.        *)
LEMMA AirEndPacket ==
  ASSUME TypeOK, LinkInv, AirInv, Sensed, NEW i \in Pair, EndPacketTransmission(i)
  PROVE  AirInv'
<1>1. isChannelBusy /\ Sending(i) /\ Elapsed(i) > 0 /\ endPacketTime[i] = 0
  BY BusyFacts DEF EndPacketTransmission
<1>2. /\ updateChannelTime' = updateChannelTime /\ isUpdateEnabled' = isUpdateEnabled
      /\ isChannelBusy' = isChannelBusy /\ wasTransmitError' = wasTransmitError
      /\ transmissionTime' = transmissionTime
      /\ transmissions' = transmissions \ {PacketOf(i)}
  BY DEF EndPacketTransmission, txVars
<1>3. Sensed' /\ isChannelBusy'
  BY <1>1, <1>2 DEF Sensed
<1>4. \A j \in Pair : ~TransmitAckTriggered(j) /\ ~Acking(j)
  <2>1. PacketOf(i) \in transmissions
    BY <1>1 DEF Sending
  <2>2. \A j \in Pair : PacketOf(i) # AckTo(j)
    BY DEF PacketOf, AckTo
  <2> QED
    BY <2>1, <2>2 DEF AirInv, AckAlone, Acking
<1>5. \A j \in Pair : /\ ~Acking(j)'
                      /\ Sending(j)' => j # i /\ Sending(j) /\ Elapsed(j)' = Elapsed(j)
  BY <1>2, <1>4 DEF Sending, Acking, PacketOf, AckTo, Elapsed, EndPacketTransmission, Put,
     TypeOK, NetworkTypeOK, TimersTypeOK
<1>6. Overlap' => Overlap
  BY <1>2 DEF Overlap
<1>7. Overlap => wasTransmitError
  BY <1>1 DEF AirInv, OverlapIsRecorded
<1>8. ASSUME NEW j \in Pair, TransmitAckTriggered(j)'
      PROVE  j = i /\ transmissions' = {}
  <2>1. j = i
    BY <1>4, <1>8 DEF TransmitAckTriggered, EndPacketTransmission, Put,
       TypeOK, NetworkTypeOK, ReceiverTypeOK
  <2>2. ~wasTransmitError
    BY <1>8, <2>1 DEF TransmitAckTriggered, EndPacketTransmission, Put,
       TypeOK, NetworkTypeOK, ReceiverTypeOK
  <2>3. \A s \in transmissions : s = PacketOf(i)
    BY <1>1, <1>7, <2>2 DEF Overlap, Sending
  <2> QED
    BY <1>2, <2>1, <2>3
<1>9. IdleFlagIsCurrent'
  BY <1>3 DEF IdleFlagIsCurrent
<1>10. OverlapIsRecorded' /\ AckAlone'
  BY <1>2, <1>5, <1>6, <1>7 DEF OverlapIsRecorded, AckAlone
<1>11. OverlapsStartTogether'
  BY <1>5 DEF AirInv, OverlapsStartTogether
<1> QED
  BY <1>3, <1>8, <1>9, <1>10, <1>11 DEF AirInv

(* An ACK ends: it was alone.                                              *)
LEMMA AirEndAck ==
  ASSUME TypeOK, LinkInv, AirInv, Sensed, NEW i \in Pair, EndAckTransmission(i)
  PROVE  AirInv'
<1>1. isChannelBusy /\ Acking(i)
  BY BusyFacts DEF EndAckTransmission
<1>2. transmissions' = {}
  BY <1>1 DEF AirInv, AckAlone, EndAckTransmission
<1>3. Sensed' /\ isChannelBusy'
  BY <1>1 DEF Sensed, EndAckTransmission
<1>4. \A j \in Pair : ~TransmitAckTriggered(j)
  BY <1>1 DEF AirInv, Acking
<1>5. \A j \in Pair : ~TransmitAckTriggered(j)'
  BY <1>4 DEF TransmitAckTriggered, EndAckTransmission, rxVars
<1> QED
  BY <1>2, <1>3, <1>5 DEF AirInv, IdleFlagIsCurrent, OverlapIsRecorded, AckAlone,
     OverlapsStartTogether, Overlap, Sending, Acking

(* An ACK starts on an empty channel, and no other ACK is owed.            *)
LEMMA AirTransmitAck ==
  ASSUME TypeOK, LinkInv, AirInv, NEW i \in Pair, TransmitAck(i)
  PROVE  AirInv'
<1>1. TransmitAckTriggered(i) /\ Sensed /\ isChannelBusy /\ transmissions = {}
  BY DEF TransmitAck, AirInv
<1>2. transmissions' = {AckTo(i)}
  BY <1>1 DEF TransmitAck
<1>3. Sensed' /\ isChannelBusy'
  BY <1>1 DEF Sensed, TransmitAck
<1>4. \A j \in Pair : j # i => ~TransmitAckTriggered(j)
  BY <1>1 DEF AirInv
<1>5. \A j \in Pair : ~TransmitAckTriggered(j)'
  BY <1>4 DEF TransmitAckTriggered, TransmitAck, Put, TypeOK, NetworkTypeOK,
     ReceiverTypeOK
<1>6. \A j \in Pair : ~Sending(j)' /\ (Acking(j)' => j = i)
  BY <1>2 DEF Sending, Acking, PacketOf, AckTo
<1> QED
  BY <1>2, <1>3, <1>5, <1>6 DEF AirInv, IdleFlagIsCurrent, OverlapIsRecorded, AckAlone,
     OverlapsStartTogether, Overlap

(* A packet starts only on a channel that was idle at this clock value, so *)
(* all packets on the channel have just been started.                      *)
LEMMA AirSendPacket ==
  ASSUME TypeOK, LinkInv, AirInv, NEW i \in Pair, SendPacket(i), Sensed, ~isChannelBusy
  PROVE  AirInv'
<1>1. \A j \in Pair : /\ ~Acking(j) /\ ~TransmitAckTriggered(j)
                      /\ Sending(j) => Elapsed(j) = 0
  BY DEF AirInv, IdleFlagIsCurrent
<1>2. \A j \in Pair : j # i => /\ Sending(j)' <=> Sending(j)
                               /\ Elapsed(j)' = Elapsed(j)
  BY DEF SendPacket, Sending, PacketOf, Elapsed, Put, TypeOK, NetworkTypeOK,
     TimersTypeOK, TransmitterTypeOK
<1>3. Elapsed(i)' = 0
  <2>1. PICK time \in TransmissionTimes :
           /\ transmissionTime' = Put(transmissionTime, i, time)
           /\ endPacketTime' = Put(endPacketTime, i, time)
    BY DEF SendPacket
  <2>2. transmissionTime'[i] = time /\ endPacketTime'[i] = time /\ time \in Nat
    BY <2>1 DEF Put, TypeOK, NetworkTypeOK, TimersTypeOK, TransmitterTypeOK
  <2> QED
    BY <2>2 DEF Elapsed
<1>4. \A j \in Pair : /\ ~Acking(j)' /\ ~TransmitAckTriggered(j)'
                      /\ Sending(j)' => Elapsed(j)' = 0
  <2>1. \A j \in Pair : ~TransmitAckTriggered(j)'
    BY <1>1 DEF SendPacket, TransmitAckTriggered, rxVars
  <2>2. \A j \in Pair : AckTo(j) # PacketOf(i)
    BY DEF PacketOf, AckTo
  <2>3. \A j \in Pair : ~Acking(j)'
    BY <1>1, <2>2 DEF SendPacket, Acking
  <2> QED
    BY <1>1, <1>2, <1>3, <2>1, <2>3
<1> QED
  BY <1>4 DEF AirInv, IdleFlagIsCurrent, OverlapIsRecorded, AckAlone,
     OverlapsStartTogether

(* When the clock advances, every packet on the channel has been there for *)
(* one step more.                                                          *)
LEMMA ElapsedTick ==
  ASSUME TypeOK, LinkInv, Tick, NEW i \in Pair
  PROVE  /\ Sending(i)' <=> Sending(i)
         /\ Acking(i)' <=> Acking(i)
         /\ TransmitAckTriggered(i)' <=> TransmitAckTriggered(i)
         /\ Sending(i) => Elapsed(i)' = Elapsed(i) + 1
<1>1. /\ transmissions' = transmissions
      /\ UNCHANGED rxVars
      /\ transmissionTime' = transmissionTime
      /\ endPacketTime' = CountDown(endPacketTime)
      /\ endPacketTime \in [Pair -> EventTime]
      /\ endPacketTime[i] # 0
  BY QuietFacts DEF Tick, channelVars, txVars, CountDownTimers, TypeOK, NetworkTypeOK,
     TimersTypeOK
<1>2. ASSUME Sending(i)
      PROVE  Elapsed(i)' = Elapsed(i) + 1
  <2>1. endPacketTime[i] \in Nat /\ transmissionTime[i] \in Nat
    BY <1>2, SendingFacts
  <2>2. endPacketTime'[i] = endPacketTime[i] - 1
    BY <1>1, <2>1, CountDownValue
  <2> QED
    BY <1>1, <2>1, <2>2 DEF Elapsed
<1> QED
  BY <1>1, <1>2 DEF Sending, Acking, PacketOf, AckTo, TransmitAckTriggered, rxVars

(* The clock advances only when no overlap is unrecorded.                  *)
LEMMA AirTick ==
  ASSUME TypeOK, LinkInv, SenseInv, AirInv, Tick
  PROVE  AirInv'
<1>1. /\ ~CollisionTriggered /\ updateChannelTime # 0
      /\ \A i \in Pair : ~TransmitAckTriggered(i)
  BY QuietFacts DEF Tick
<1>2. transmissions' = transmissions /\ wasTransmitError' = wasTransmitError
  BY DEF Tick, channelVars
<1>3. ~Sensed'
  BY <1>1 DEF SenseInv, Sensed, Tick, CountDownTimers, MinimalTimeStep
<1>4. Overlap' => wasTransmitError'
  BY <1>1, <1>2 DEF CollisionTriggered, Overlap
<1>5. IdleFlagIsCurrent' /\ OverlapIsRecorded' /\ AckAlone'
  BY <1>2, <1>3, <1>4, ElapsedTick DEF IdleFlagIsCurrent, OverlapIsRecorded, AckAlone,
     AirInv
<1>6. OverlapsStartTogether'
  BY ElapsedTick DEF AirInv, OverlapsStartTogether
<1>7. \A i \in Pair : ~TransmitAckTriggered(i)'
  BY <1>1, ElapsedTick
<1> QED
  BY <1>5, <1>6, <1>7 DEF AirInv

(* Every step preserves the invariant of the channel.                      *)
LEMMA AirStep ==
  ASSUME TypeOK, LinkInv, SenseInv, AirInv, ExpiredInv, Next
  PROVE  AirInv'
<1>1. ASSUME NEW st \in Stages, NEW i \in Pair, CalmEvent(st, i)
      PROVE  AirInv'
  BY <1>1, CalmFrame, AirFrame
<1>2. ASSUME NEW i \in Pair, EndPacketTransmission(i), Turn(6, i)
      PROVE  AirInv'
  <2>1. Sensed
    BY <1>2, SenseTurn DEF EndPacketTransmission, Stages
  <2> QED
    BY <1>2, <2>1, AirEndPacket
<1>3. ASSUME NEW i \in Pair, EndAckTransmission(i), Turn(7, i)
      PROVE  AirInv'
  <2>1. Sensed
    BY <1>3, SenseTurn DEF EndAckTransmission, Stages
  <2> QED
    BY <1>3, <2>1, AirEndAck
<1>4. ASSUME NEW i \in Pair, TransmitAck(i)
      PROVE  AirInv'
  BY <1>4, AirTransmitAck
<1>5. ASSUME NEW i \in Pair, StartRetransmission(i) \/ StartTransmission(i)
      PROVE  AirInv'
  <2>1. SendPacket(i) /\ downCounter[i] = 0 /\ ~isBusy[i]
    BY <1>5 DEF StartRetransmission, StartTransmission, StartRetransmissionTriggered,
       StartTransmissionTriggered
  <2>2. Sensed /\ ~isChannelBusy
    BY <2>1 DEF ExpiredInv, Expired
  <2> QED
    BY <2>1, <2>2, AirSendPacket
<1>6. ASSUME UpdateChannelState
      PROVE  AirInv'
  <2>1. ~Sensed /\ ~Sensed'
    BY <1>6 DEF UpdateChannelState, Sensed
  <2>2. \A i \in Pair : ~TransmitAckTriggered(i) /\ ~TransmitAckTriggered(i)'
    BY <1>6, <2>1 DEF AirInv, UpdateChannelState, TransmitAckTriggered, rxVars
  <2> QED
    BY <1>6, <2>1, <2>2 DEF AirInv, UpdateChannelState, IdleFlagIsCurrent,
       OverlapIsRecorded, AckAlone, OverlapsStartTogether, Overlap, Sending, Acking,
       Elapsed, txVars
<1>7. ASSUME ChannelEmpty
      PROVE  AirInv'
  <2>1. ~Sensed /\ transmissions = {} /\ transmissions' = {}
    BY <1>7 DEF ChannelEmpty, ChannelEmptyTriggered, Sensed
  <2>2. \A i \in Pair : ~TransmitAckTriggered(i)'
    BY <1>7, <2>1 DEF AirInv, ChannelEmpty, TransmitAckTriggered, rxVars
  <2> QED
    BY <2>1, <2>2 DEF AirInv, IdleFlagIsCurrent, OverlapIsRecorded, AckAlone,
       OverlapsStartTogether, Overlap, Sending, Acking
<1>8. ASSUME ChannelBusy
      PROVE  AirInv'
  <2>1. ~Sensed /\ isChannelBusy'
    BY <1>8 DEF ChannelBusy, ChannelBusyTriggered, Sensed
  <2>2. \A i \in Pair : ~TransmitAckTriggered(i)'
    BY <1>8, <2>1 DEF AirInv, ChannelBusy, TransmitAckTriggered, rxVars
  <2> QED
    BY <1>8, <2>1, <2>2 DEF AirInv, ChannelBusy, IdleFlagIsCurrent,
       OverlapIsRecorded, AckAlone, OverlapsStartTogether, Overlap, Sending, Acking,
       Elapsed, txVars, timerVars
<1>9. ASSUME Collision
      PROVE  AirInv'
  BY <1>9 DEF AirInv, Collision, IdleFlagIsCurrent, OverlapIsRecorded, AckAlone,
     OverlapsStartTogether, Overlap, Sensed, Sending, Acking, Elapsed,
     TransmitAckTriggered, txVars, rxVars, timerVars
<1>10. ASSUME NewPass \/ Finished
       PROVE  AirInv'
  <2>1. UNCHANGED networkVars
    BY <1>10 DEF NewPass, Finished, vars
  <2> QED
    BY <2>1, AirFrame DEF AirView, networkVars, txVars, rxVars, channelVars, timerVars
<1>11. ASSUME Tick
       PROVE  AirInv'
  BY <1>11, AirTick
<1>12. ASSUME ResetAndInitialize
       PROVE  AirInv'
  <2>1. transmissions' = {} /\ (\A i \in Pair : ~TransmitAckTriggered(i)')
    BY <1>12 DEF ResetAndInitialize, NetworkReset, ChannelReset, ReceiverReset,
       TransmitAckTriggered
  <2> QED
    BY <2>1 DEF AirInv, IdleFlagIsCurrent, OverlapIsRecorded, AckAlone,
       OverlapsStartTogether, Overlap, Sending, Acking
<1> QED
  BY NextCases, <1>1, <1>2, <1>3, <1>4, <1>5, <1>6, <1>7, <1>8, <1>9, <1>10, <1>11, <1>12

-----------------------------------------------------------------------------
(* Counters of 0.                                                          *)

(* An event of the scan does not pass a transmission that is to start.     *)
LEMMA ExpiredTurn ==
  ASSUME TypeOK, ExpiredInv, NEW st \in Stages, NEW i \in Pair, Turn(st, i),
         UNCHANGED <<updateChannelTime, isUpdateEnabled, isChannelBusy>>,
         NEW j \in Pair, st >= 18 => j # i,
         downCounter'[j] = downCounter[j], isBusy'[j] = isBusy[j],
         transmitTimestamp'[j] = transmitTimestamp[j]
  PROVE  Expired(j)'
<1>1. SUFFICES ASSUME downCounter[j] = 0, ~isBusy[j]
               PROVE  /\ ~Ahead(17, j)' /\ Ahead(StartStage(j), j)'
                      /\ Sensed' /\ ~isChannelBusy'
  BY DEF Expired
<1>2. /\ ~Ahead(17, j) /\ Ahead(StartStage(j), j) /\ Sensed /\ ~isChannelBusy
  BY <1>1 DEF ExpiredInv, Expired
<1>3. Skipped(st, i) /\ Ahead(st, i)
  BY TurnSkips DEF TypeOK
<1>4. ~Before(StartStage(j), j, st, i)
  BY <1>1, <1>3, StartIsNotSkipped DEF Stages
<1>5. /\ st \in 1 .. 20 /\ i \in Int /\ j \in Int
      /\ stage \in Int /\ turn \in Int /\ stage' = st /\ turn' = i
      /\ StartStage(j) \in 19 .. 20 /\ StartStage(j)' = StartStage(j)
  BY DEF Stages, Pair, TypeOK, ScanTypeOK, Turn, StartStage
<1>6. ~Ahead(17, j)'
  BY <1>2, <1>3, <1>5 DEF Ahead, Before
<1>7. Ahead(StartStage(j), j)'
  BY <1>4, <1>5 DEF Ahead, Before
<1> QED
  BY <1>2, <1>6, <1>7 DEF Sensed

(* Of the events that leave the channel alone only the reduction of the    *)
(* counter makes it 0, on an idle channel.                                 *)
LEMMA ExpiredCalm ==
  ASSUME TypeOK, SenseInv, ExpiredInv, NEW st \in Stages, NEW i \in Pair,
         CalmEvent(st, i), Turn(st, i), NEW j \in Pair
  PROVE  Expired(j)'
<1>1. /\ downCounter \in [Pair -> Int] /\ isBusy \in [Pair -> BOOLEAN]
      /\ transmitTimestamp \in [Pair -> Nat]
  BY DEF TypeOK, NetworkTypeOK, TransmitterTypeOK
<1>2. UNCHANGED <<updateChannelTime, isUpdateEnabled, isChannelBusy>>
  BY CalmFrame DEF AirView
<1>3. st < 18
  BY DEF CalmEvent
<1>4. CASE j # i
  <2>1. /\ downCounter'[j] = downCounter[j] /\ isBusy'[j] = isBusy[j]
        /\ transmitTimestamp'[j] = transmitTimestamp[j]
    <3>1. CASE st = 10 /\ SuccessfulPacketTransmission(i)
      BY <1>1, <1>4, <3>1 DEF SuccessfulPacketTransmission, FinishPacket, Put
    <3>2. CASE st = 11 /\ RemoveLostPacket(i)
      BY <1>1, <1>4, <3>2 DEF RemoveLostPacket, FinishPacket, Put
    <3>3. CASE st = 12 /\ ScheduleRetransmission(i)
      BY <1>1, <1>4, <3>3 DEF ScheduleRetransmission, Put
    <3>4. CASE st \in {1, 8, 9, 13, 14, 15, 16, 17}
      BY <1>1, <1>4, <3>4 DEF CalmEvent, GeneratePacket, EndAckListening, EndTxSleep,
         StartChannelObserving, ProbeChannelState, MarkEmptyChannelState,
         ResetTXDownCounter, ReduceTXDownCounter, txVars, Put
    <3> QED
      BY <3>1, <3>2, <3>3, <3>4 DEF CalmEvent
  <2> QED
    BY <1>2, <1>3, <2>1, ExpiredTurn DEF Stages
<1>5. CASE j = i /\ st \in {1, 8, 9, 13, 14, 15}
  <2>1. /\ downCounter'[j] = downCounter[j] /\ isBusy'[j] = isBusy[j]
        /\ transmitTimestamp'[j] = transmitTimestamp[j]
    <3>1. CASE GeneratePacket(i) \/ EndAckListening(i) \/ EndTxSleep(i)
      BY <3>1 DEF GeneratePacket, EndAckListening, EndTxSleep
    <3>2. CASE StartChannelObserving(i) \/ ProbeChannelState(i) \/ MarkEmptyChannelState(i)
      BY <3>2 DEF StartChannelObserving, ProbeChannelState, MarkEmptyChannelState
    <3> QED
      BY <1>5, <3>1, <3>2 DEF CalmEvent
  <2> QED
    BY <1>2, <1>3, <2>1, ExpiredTurn DEF Stages
<1>6. CASE j = i /\ st \in {10, 11, 12, 16}
  <2>1. downCounter'[j] = InitDownCounter
    BY <1>1, <1>6 DEF CalmEvent, SuccessfulPacketTransmission, RemoveLostPacket,
         FinishPacket, ScheduleRetransmission, ResetTXDownCounter, Put
  <2> QED
    BY <2>1 DEF Expired
<1>7. CASE j = i /\ st = 17
  <2>1. Sensed' /\ ~isChannelBusy'
    BY <1>2, <1>7, SenseTurn DEF CalmEvent, ReduceTXDownCounter, ReduceCounterTriggered
  <2>2. stage' = 17 /\ turn' = i /\ StartStage(j)' \in 19 .. 20 /\ i \in Int
    BY <1>7 DEF Turn, StartStage, Pair
  <2>3. ~Ahead(17, j)' /\ Ahead(StartStage(j), j)'
    BY <1>7, <2>2 DEF Ahead, Before
  <2> QED
    BY <2>1, <2>3 DEF Expired
<1> QED
  BY <1>4, <1>5, <1>6, <1>7 DEF CalmEvent

(* Every step keeps a counter of 0 in the pass that made it 0.             *)
LEMMA ExpiredStep ==
  ASSUME TypeOK, LinkInv, SenseInv, AirInv, ExpiredInv, Next
  PROVE  ExpiredInv'
<1> SUFFICES ASSUME NEW j \in Pair PROVE Expired(j)'
  BY DEF ExpiredInv
<1>0. /\ downCounter \in [Pair -> Int] /\ isBusy \in [Pair -> BOOLEAN]
      /\ transmitTimestamp \in [Pair -> Nat]
  BY DEF TypeOK, NetworkTypeOK, TransmitterTypeOK
<1>1. ASSUME NEW st \in Stages, NEW i \in Pair, CalmEvent(st, i), Turn(st, i)
      PROVE  Expired(j)'
  BY <1>1, ExpiredCalm
<1>2. ASSUME NEW i \in Pair, EndPacketTransmission(i), Turn(6, i)
      PROVE  Expired(j)'
  BY <1>2, ExpiredTurn DEF EndPacketTransmission, txVars, Stages
<1>3. ASSUME NEW i \in Pair, EndAckTransmission(i), Turn(7, i)
      PROVE  Expired(j)'
  BY <1>3, ExpiredTurn DEF EndAckTransmission, Stages
<1>4. ASSUME NEW i \in Pair, TransmitAck(i)
      PROVE  Expired(j)'
  <2>1. isChannelBusy
    BY <1>4 DEF TransmitAck, AirInv
  <2>2. ~(downCounter[j] = 0 /\ ~isBusy[j])
    BY <2>1 DEF ExpiredInv, Expired
  <2> QED
    BY <1>4, <2>2 DEF Expired, TransmitAck, txVars
<1>5. ASSUME NEW i \in Pair, NEW st \in {19, 20}, Turn(st, i),
             StartRetransmission(i) \/ StartTransmission(i)
      PROVE  Expired(j)'
  <2>1. CASE j = i
    BY <1>0, <1>5, <2>1 DEF Expired, StartRetransmission, StartTransmission, SendPacket,
       Put
  <2>2. CASE j # i
    <3>1. /\ downCounter'[j] = downCounter[j] /\ isBusy'[j] = isBusy[j]
          /\ transmitTimestamp'[j] = transmitTimestamp[j]
          /\ UNCHANGED <<updateChannelTime, isUpdateEnabled, isChannelBusy>>
      BY <1>0, <1>5, <2>2 DEF StartRetransmission, StartTransmission, SendPacket, Put
    <3> QED
      BY <1>5, <2>2, <3>1, ExpiredTurn DEF Stages
  <2> QED
    BY <2>1, <2>2
<1>6. ASSUME UpdateChannelState \/ ChannelEmpty \/ ChannelBusy
      PROVE  Expired(j)'
  <2>1. ~Sensed
    BY <1>6 DEF UpdateChannelState, ChannelEmpty, ChannelEmptyTriggered, ChannelBusy,
       ChannelBusyTriggered, Sensed
  <2>2. ~(downCounter[j] = 0 /\ ~isBusy[j])
    BY <2>1 DEF ExpiredInv, Expired
  <2> QED
    BY <1>6, <2>2 DEF Expired, UpdateChannelState, ChannelEmpty, ChannelBusy, txVars
<1>7. ASSUME Collision, Turn(5, 0)
      PROVE  Expired(j)'
  <2>1. 5 \in Stages /\ 0 \in Pair
    BY DEF Stages, Pair
  <2> QED
    BY <1>7, <2>1, ExpiredTurn DEF Collision, txVars, timerVars
<1>8. ASSUME NewPass \/ Tick
      PROVE  Expired(j)'
  <2>1. Skipped(21, 0)
    BY <1>8, QuietSkips DEF NewPass, Tick
  <2>2. Before(StartStage(j), j, 21, 0)
    BY DEF StartStage, Before
  <2>3. ~(downCounter[j] = 0 /\ ~isBusy[j])
    <3>1. 0 \in Pair
      BY DEF Pair
    <3> QED
      BY <2>1, <2>2, <3>1, StartIsNotSkipped
  <2>4. UNCHANGED txVars
    BY <1>8 DEF NewPass, Tick, networkVars
  <2> QED
    BY <2>3, <2>4 DEF Expired, txVars
<1>9. ASSUME ResetAndInitialize
      PROVE  Expired(j)'
  BY <1>9 DEF ResetAndInitialize, NetworkReset, TransmitterReset, Expired
<1>10. ASSUME Finished
       PROVE  Expired(j)'
  BY <1>10 DEF Finished, vars, networkVars, scanVars, txVars, channelVars, timerVars,
     ExpiredInv, Expired, Ahead, StartStage, Sensed
<1> QED
  BY NextCases, <1>1, <1>2, <1>3, <1>4, <1>5, <1>6, <1>7, <1>8, <1>9, <1>10

-----------------------------------------------------------------------------
(* Probes.                                                                 *)

(* An event of the scan does not pass a probe that is due or undecided.    *)
LEMMA ProbeTurn ==
  ASSUME TypeOK, ContendInv, ProbeInv, NEW st \in Stages, NEW i \in Pair, Turn(st, i),
         UNCHANGED <<updateChannelTime, isUpdateEnabled, isChannelBusy>>,
         NEW j \in Pair,
         isProbingActive'[j] =>
             /\ isProbingActive[j] /\ wasChannelEmpty'[j] = wasChannelEmpty[j]
             /\ probeTime'[j] = probeTime[j],
         j = i /\ st \in 14 .. 17 => ~isProbingActive'[j],
         probeTime'[j] \in {probeTime[j], -1, 1},
         j = i /\ st = 14 => probeTime'[j] # 0,
         st < 18 => \A k \in Pair : Sending(k)' => Sending(k) /\ Elapsed(k)' = Elapsed(k)
  PROVE  Probe(j)'
<1>1. /\ Skipped(st, i) /\ Ahead(st, i)
      /\ st \in 1 .. 20 /\ i \in Int /\ j \in Int
      /\ stage \in Int /\ turn \in Int /\ stage' = st /\ turn' = i
  BY TurnSkips DEF Stages, Pair, TypeOK, ScanTypeOK, Turn
<1>2. /\ Before(14, j, st, i) => probeTime[j] # 0
      /\ Before(17, j, st, i) => ~isProbingActive[j]
  BY <1>1, ProbeIsNotSkipped
<1>3. Probe(j) /\ Contend(j)
  BY DEF ProbeInv, ContendInv
<1>4. ASSUME isProbingActive'[j]
      PROVE  ProbePending(j)'
  <2>1. /\ ProbePending(j) /\ isActive[j] /\ ~isBusy[j] /\ isProbingActive[j]
        /\ probeTime'[j] = probeTime[j] /\ wasChannelEmpty'[j] = wasChannelEmpty[j]
        /\ ~(j = i /\ st \in 14 .. 17)
    BY <1>3, <1>4 DEF Probe, Contend
  <2>2. Sensed' /\ probeTime'[j] = ChannelCheckInterval
    BY <2>1 DEF ProbePending, Sensed
  <2>3. ~Ahead(14, j)'
    BY <1>1, <2>1 DEF ProbePending, Ahead, Before
  <2>4. Ahead(17, j)'
    BY <1>1, <1>2, <2>1 DEF Ahead, Before
  <2>5. Ahead(15, j)' \/ wasChannelEmpty'[j] \/ isChannelBusy'
    <3>1. CASE Ahead(15, j) /\ ~Ahead(15, j)'
      <4>1. 15 \in stage .. 20 /\ Before(15, j, st, i)
        BY <1>1, <2>1, <3>1 DEF Ahead, Before
      <4>2. ~Due(15, j)
        BY <3>1, <4>1, <1>1 DEF Skipped
      <4> QED
        BY <2>1, <4>2 DEF Due, MarkEmptyTriggered
    <3> QED
      BY <2>1, <3>1 DEF ProbePending
  <2>6. Ahead(16, j)' \/ ~isChannelBusy'
    <3>1. CASE Ahead(16, j) /\ ~Ahead(16, j)'
      <4>1. 16 \in stage .. 20 /\ Before(16, j, st, i)
        BY <1>1, <2>1, <3>1 DEF Ahead, Before
      <4>2. ~Due(16, j)
        BY <3>1, <4>1, <1>1 DEF Skipped
      <4> QED
        BY <2>1, <4>2 DEF Due, ResetCounterTriggered
    <3> QED
      BY <2>1, <3>1 DEF ProbePending
  <2> QED
    BY <2>2, <2>3, <2>4, <2>5, <2>6 DEF ProbePending
<1>5. ASSUME probeTime'[j] = 0
      PROVE  Ahead(14, j)' /\ probeTime[j] = 0
  <2>1. probeTime[j] = 0 /\ ~(j = i /\ st = 14)
    BY <1>5
  <2>2. ~Before(14, j, st, i)
    BY <1>2, <2>1
  <2> QED
    BY <1>1, <2>1, <2>2 DEF Ahead, Before
<1>6. probeTime'[j] <= ChannelCheckInterval
  BY <1>3 DEF Probe
<1>7. ASSUME isProbingActive'[j] \/ probeTime'[j] = 0, NEW k \in Pair, Sending(k)'
      PROVE  Elapsed(k)' > 0
  <2>1. isProbingActive[j] \/ probeTime[j] = 0
    BY <1>5, <1>7
  <2>2. st < 18
    BY <1>1, <1>2, <2>1 DEF Before
  <2>3. Sending(k) /\ Elapsed(k)' = Elapsed(k)
    BY <1>7, <2>2
  <2> QED
    BY <1>3, <2>1, <2>3 DEF Probe
<1> QED
  BY <1>4, <1>5, <1>6, <1>7 DEF Probe

(* The probes at the events that leave the channel alone.                  *)
LEMMA ProbeCalm ==
  ASSUME TypeOK, LinkInv, ContendInv, SenseInv, ProbeInv, NEW st \in Stages,
         NEW i \in Pair, CalmEvent(st, i), Turn(st, i), NEW j \in Pair
  PROVE  Probe(j)'
<1>1. /\ isProbingActive \in [Pair -> BOOLEAN] /\ wasChannelEmpty \in [Pair -> BOOLEAN]
      /\ probeTime \in [Pair -> EventTime]
  BY DEF TypeOK, NetworkTypeOK, TransmitterTypeOK, TimersTypeOK
<1>2. /\ UNCHANGED <<updateChannelTime, isUpdateEnabled, isChannelBusy>>
      /\ \A k \in Pair : Sending(k)' => Sending(k) /\ Elapsed(k)' = Elapsed(k)
  BY CalmFrame DEF AirView, Sending, Elapsed, PacketOf
<1>3. CASE j # i
  <2>1. /\ isProbingActive'[j] = isProbingActive[j]
        /\ wasChannelEmpty'[j] = wasChannelEmpty[j] /\ probeTime'[j] = probeTime[j]
    <3>1. CASE GeneratePacket(i) \/ EndAckListening(i) \/ EndTxSleep(i)
      BY <3>1 DEF GeneratePacket, EndAckListening, EndTxSleep
    <3>2. CASE SuccessfulPacketTransmission(i)
      BY <1>1, <1>3, <3>2 DEF SuccessfulPacketTransmission, FinishPacket, Put
    <3>3. CASE RemoveLostPacket(i)
      BY <1>1, <1>3, <3>3 DEF RemoveLostPacket, FinishPacket, Put, timerVars
    <3>4. CASE ScheduleRetransmission(i) \/ StartChannelObserving(i) \/ ProbeChannelState(i)
      BY <1>1, <1>3, <3>4 DEF ScheduleRetransmission, StartChannelObserving,
         ProbeChannelState, Put
    <3>5. CASE \/ MarkEmptyChannelState(i) \/ ResetTXDownCounter(i)
               \/ ReduceTXDownCounter(i)
      BY <1>1, <1>3, <3>5 DEF MarkEmptyChannelState, ResetTXDownCounter,
         ReduceTXDownCounter, timerVars, Put
    <3> QED
      BY <3>1, <3>2, <3>3, <3>4, <3>5 DEF CalmEvent
  <2> QED
    BY <1>2, <1>3, <2>1, ProbeTurn
<1>4. CASE j = i /\ st \in {1, 8, 9, 13}
  <2>1. /\ isProbingActive' = isProbingActive /\ wasChannelEmpty' = wasChannelEmpty
        /\ probeTime'[j] = probeTime[j] \/ (st = 13 /\ probeTime'[j] = 1)
    <3>1. CASE GeneratePacket(i) \/ EndAckListening(i) \/ EndTxSleep(i)
      <4>1. UNCHANGED <<isProbingActive, wasChannelEmpty, probeTime>>
        BY <3>1 DEF GeneratePacket, EndAckListening, EndTxSleep
      <4> QED
        BY <4>1
    <3>2. CASE st = 13 /\ StartChannelObserving(i)
      BY <1>1, <1>4, <3>2 DEF StartChannelObserving, Put, MinimalTimeStep
    <3> QED
      BY <1>4, <3>1, <3>2 DEF CalmEvent
  <2>2. st = 13 => ~isProbingActive[j]
    BY <1>4 DEF CalmEvent, StartChannelObserving, ObservingTriggered, ContendInv, Contend
  <2> QED
    BY <1>2, <1>4, <2>1, <2>2, ProbeTurn
<1>5. CASE j = i /\ st \in {10, 11, 12, 15, 16, 17}
  <2>1. ~isProbingActive'[j] /\ probeTime'[j] \in {probeTime[j], -1}
    <3>1. CASE SuccessfulPacketTransmission(i)
      BY <1>1, <1>5, <3>1 DEF SuccessfulPacketTransmission, FinishPacket, Put
    <3>2. CASE RemoveLostPacket(i)
      BY <1>1, <1>5, <3>2 DEF RemoveLostPacket, FinishPacket, Put, timerVars
    <3>3. CASE ScheduleRetransmission(i)
      <4>1. isBusy[i]
        BY <3>3 DEF ScheduleRetransmission, RetransmissionTriggered, LinkInv, Link
      <4>2. ~isProbingActive[i]
        BY <4>1 DEF ContendInv, Contend
      <4> QED
        BY <1>1, <1>5, <3>3, <4>2 DEF ScheduleRetransmission, Put, Inactive
    <3>4. CASE \/ MarkEmptyChannelState(i) \/ ResetTXDownCounter(i)
               \/ ReduceTXDownCounter(i)
      BY <1>1, <1>5, <3>4 DEF MarkEmptyChannelState, ResetTXDownCounter,
         ReduceTXDownCounter, timerVars, Put
    <3> QED
      BY <1>5, <3>1, <3>2, <3>3, <3>4 DEF CalmEvent
  <2> QED
    BY <1>2, <1>5, <2>1, ProbeTurn
<1>6. CASE j = i /\ st = 14
  <2>1. ProbeChannelState(i)
    BY <1>6 DEF CalmEvent
  <2>2. probeTime[j] = 0 /\ probeTime'[j] = ChannelCheckInterval
    BY <1>1, <1>6, <2>1 DEF ProbeChannelState, Put
  <2>3. Sensed'
    BY <1>2, <1>6, SenseTurn
  <2>4. stage' = 14 /\ turn' = j /\ j \in Int
    BY <1>6 DEF Turn, Pair
  <2>5. ProbePending(j)'
    BY <2>2, <2>3, <2>4 DEF ProbePending, Ahead, Before
  <2>6. \A k \in Pair : Sending(k)' => Elapsed(k)' > 0
    BY <1>2, <2>2 DEF ProbeInv, Probe
  <2> QED
    BY <2>2, <2>5, <2>6 DEF Probe
<1> QED
  BY <1>3, <1>4, <1>5, <1>6 DEF CalmEvent

(* Every step preserves the invariant of the probes.                       *)
LEMMA ProbeStep ==
  ASSUME TypeOK, LinkInv, ContendInv, CarrierInv, ProbeInv, Next
  PROVE  ProbeInv'
<1> SUFFICES ASSUME NEW j \in Pair PROVE Probe(j)'
  BY DEF ProbeInv
<1>0. /\ isProbingActive \in [Pair -> BOOLEAN] /\ probeTime \in [Pair -> EventTime]
      /\ transmissionTime \in [Pair -> TransmissionTimes \union {-1}]
      /\ endPacketTime \in [Pair -> EventTime]
      /\ Probe(j) /\ SenseInv /\ ExpiredInv
  BY DEF TypeOK, NetworkTypeOK, TransmitterTypeOK, TimersTypeOK, ProbeInv, CarrierInv
<1>1. ASSUME NEW st \in Stages, NEW i \in Pair, CalmEvent(st, i), Turn(st, i)
      PROVE  Probe(j)'
  BY <1>0, <1>1, ProbeCalm
<1>2. ASSUME NEW i \in Pair, EndPacketTransmission(i), Turn(6, i)
      PROVE  Probe(j)'
  <2>1. \A k \in Pair : Sending(k)' => Sending(k) /\ Elapsed(k)' = Elapsed(k)
    BY <1>0, <1>2 DEF EndPacketTransmission, Sending, PacketOf, Elapsed, Put, txVars
  <2>2. UNCHANGED <<isProbingActive, wasChannelEmpty, probeTime,
                    updateChannelTime, isUpdateEnabled, isChannelBusy>>
    BY <1>2 DEF EndPacketTransmission, txVars
  <2> QED
    BY <1>2, <2>1, <2>2, ProbeTurn DEF Stages
<1>3. ASSUME NEW i \in Pair, EndAckTransmission(i), Turn(7, i)
      PROVE  Probe(j)'
  <2>1. \A k \in Pair : Sending(k)' => Sending(k) /\ Elapsed(k)' = Elapsed(k)
    BY <1>3 DEF EndAckTransmission, Sending, Elapsed
  <2>2. UNCHANGED <<isProbingActive, wasChannelEmpty, probeTime,
                    updateChannelTime, isUpdateEnabled, isChannelBusy>>
    BY <1>3 DEF EndAckTransmission
  <2> QED
    BY <1>3, <2>1, <2>2, ProbeTurn DEF Stages
<1>4. ASSUME NEW i \in Pair, TransmitAck(i), Turn(18, i)
      PROVE  Probe(j)'
  <2>1. UNCHANGED <<isProbingActive, wasChannelEmpty, probeTime,
                    updateChannelTime, isUpdateEnabled, isChannelBusy>>
    BY <1>4 DEF TransmitAck, txVars
  <2> QED
    BY <1>4, <2>1, ProbeTurn DEF Stages
<1>5. ASSUME NEW i \in Pair, NEW st \in {19, 20}, Turn(st, i),
             StartRetransmission(i) \/ StartTransmission(i)
      PROVE  Probe(j)'
  <2>1. SendPacket(i)
    BY <1>5 DEF StartRetransmission, StartTransmission
  <2>2. UNCHANGED <<wasChannelEmpty, updateChannelTime, isUpdateEnabled, isChannelBusy>>
    BY <2>1 DEF SendPacket
  <2>3. /\ isProbingActive'[j] => isProbingActive[j] /\ probeTime'[j] = probeTime[j]
        /\ probeTime'[j] \in {probeTime[j], -1}
    BY <1>0, <2>1 DEF SendPacket, Put, Inactive
  <2> QED
    BY <1>5, <2>2, <2>3, ProbeTurn DEF Stages
<1>6. ASSUME NEW st \in 2 .. 4, Turn(st, 0),
             UpdateChannelState \/ ChannelEmpty \/ ChannelBusy
      PROVE  Probe(j)'
  <2>1. ~Sensed
    BY <1>6 DEF UpdateChannelState, ChannelEmpty, ChannelEmptyTriggered, ChannelBusy,
       ChannelBusyTriggered, Sensed
  <2>2. ~isProbingActive[j]
    BY <1>0, <2>1 DEF Probe, ProbePending
  <2>3. /\ isProbingActive' = isProbingActive /\ probeTime' = probeTime
        /\ transmissions' = transmissions /\ transmissionTime' = transmissionTime
        /\ endPacketTime' = endPacketTime
    BY <1>6 DEF UpdateChannelState, ChannelEmpty, ChannelBusy, txVars, timerVars
  <2>4. Ahead(14, j)'
    BY <1>6 DEF Turn, Ahead, Before
  <2> QED
    BY <1>0, <2>2, <2>3, <2>4 DEF Probe, Sending, Elapsed
<1>7. ASSUME Collision, Turn(5, 0)
      PROVE  Probe(j)'
  <2>1. 5 \in Stages /\ 0 \in Pair
    BY DEF Stages, Pair
  <2>2. \A k \in Pair : Sending(k)' => Sending(k) /\ Elapsed(k)' = Elapsed(k)
    BY <1>7 DEF Collision, Sending, Elapsed, txVars, timerVars
  <2> QED
    BY <1>7, <2>1, <2>2, ProbeTurn DEF Collision, txVars, timerVars
<1>8. ASSUME NewPass \/ Tick
      PROVE  ~isProbingActive[j] /\ probeTime[j] # 0
  <2>1. Skipped(21, 0) /\ 0 \in Pair
    <3>1. NothingDueAfter
      BY <1>8 DEF NewPass, Tick
    <3> QED
      BY <3>1, QuietSkips DEF Pair
  <2>2. Before(14, j, 21, 0) /\ Before(17, j, 21, 0)
    BY DEF Before
  <2> QED
    BY <2>1, <2>2, ProbeIsNotSkipped
<1>9. ASSUME NewPass
      PROVE  Probe(j)'
  <2>1. isProbingActive' = isProbingActive /\ probeTime' = probeTime
    BY <1>9 DEF NewPass, networkVars, txVars, timerVars
  <2> QED
    BY <1>0, <1>8, <1>9, <2>1 DEF Probe
<1>10. ASSUME Tick
       PROVE  Probe(j)'
  <2>1. ~isProbingActive'[j]
    BY <1>8, <1>10 DEF Tick, txVars
  <2>2. probeTime'[j] <= ChannelCheckInterval
    BY <1>0, <1>8, <1>10 DEF Tick, CountDownTimers, CountDown, Probe, EventTime, Inactive,
       MinimalTimeStep
  <2>3. Ahead(14, j)'
    BY <1>10 DEF Tick, scanVars, Ahead, Before
  <2>4. \A k \in Pair : Sending(k)' => Elapsed(k)' > 0
    BY <1>10, ElapsedTick, SendingFacts
  <2> QED
    BY <2>1, <2>2, <2>3, <2>4 DEF Probe
<1>11. ASSUME ResetAndInitialize
       PROVE  Probe(j)'
  BY <1>11 DEF ResetAndInitialize, NetworkReset, TransmitterReset, TimersReset, Probe,
     Inactive
<1>12. ASSUME Finished
       PROVE  Probe(j)'
  <2>1. UNCHANGED <<isProbingActive, wasChannelEmpty, probeTime, transmissions,
                    transmissionTime, endPacketTime, updateChannelTime, isUpdateEnabled,
                    isChannelBusy, stage, turn>>
    BY <1>12 DEF Finished, vars, networkVars, scanVars, txVars, channelVars, timerVars
  <2> QED
    BY <1>0, <2>1 DEF Probe, ProbePending, Ahead, Sensed, Sending, Elapsed
<1> QED
  BY NextCases, <1>1, <1>2, <1>3, <1>4, <1>5, <1>6, <1>7, <1>9, <1>10, <1>11, <1>12

-----------------------------------------------------------------------------
(* The count-down.                                                         *)

(* The initial value of the counter is a whole number of intervals.        *)
LEMMA WholeIntervals ==
  \E n \in 0 .. InitDownCounter : InitDownCounter = n * ChannelCheckInterval
<1>1. PICK n \in Nat : InitDownCounter = n * ChannelCheckInterval
  <2>1. InitDownCounter = (InitDownCounter \div ChannelCheckInterval) * ChannelCheckInterval
    BY CounterAssumption
  <2>2. InitDownCounter \div ChannelCheckInterval \in Nat
    OBVIOUS
  <2> QED
    BY <2>1, <2>2
<1>2. n * (ChannelCheckInterval - 1) \in Nat
  BY NatProduct
<1>3. n * (ChannelCheckInterval - 1) = n * ChannelCheckInterval - n
  OBVIOUS
<1>4. n * ChannelCheckInterval \in Nat
  BY NatProduct
<1>5. n <= InitDownCounter
  BY <1>1, <1>2, <1>3, <1>4
<1> QED
  BY <1>1, <1>5

(* Taking an interval off a counter that is not 0 leaves whole intervals.  *)
LEMMA IntervalTaken ==
  ASSUME NEW d \in 1 .. InitDownCounter, NEW n \in 0 .. InitDownCounter,
         d = n * ChannelCheckInterval
  PROVE  /\ d - ChannelCheckInterval \in 0 .. InitDownCounter
         /\ n - 1 \in 0 .. InitDownCounter
         /\ d - ChannelCheckInterval = (n - 1) * ChannelCheckInterval
<1>1. n # 0
  OBVIOUS
<1>2. d - ChannelCheckInterval = (n - 1) * ChannelCheckInterval
  OBVIOUS
<1>3. n - 1 \in Nat
  BY <1>1
<1>4. (n - 1) * ChannelCheckInterval \in Nat
  BY <1>3, NatProduct
<1> QED
  BY <1>2, <1>3, <1>4

(* The state Count(i) depends on.                                          *)
CountView(i) == <<downCounter[i], isBusy[i], wasChannelEmpty[i], isChannelObserved[i]>>

LEMMA CountFrame ==
  ASSUME NEW i \in Pair, Count(i), UNCHANGED CountView(i)
  PROVE  Count(i)'
BY DEF Count, CountView

(* Every step preserves the invariant of the count-down.                   *)
LEMMA CountStep ==
  ASSUME TypeOK, LinkInv, ContendInv, ExpiredInv, CountInv, Next
  PROVE  CountInv'
<1> SUFFICES ASSUME NEW j \in Pair PROVE Count(j)'
  BY DEF CountInv
<1>0. /\ downCounter \in [Pair -> Int] /\ isBusy \in [Pair -> BOOLEAN]
      /\ wasChannelEmpty \in [Pair -> BOOLEAN] /\ isChannelObserved \in [Pair -> BOOLEAN]
      /\ Count(j) /\ Contend(j)
  BY DEF TypeOK, NetworkTypeOK, TransmitterTypeOK, CountInv, ContendInv
<1>1. ASSUME NEW i \in Pair,
             \/ GeneratePacket(i) \/ EndPacketTransmission(i) \/ EndAckTransmission(i)
             \/ EndAckListening(i) \/ EndTxSleep(i) \/ ProbeChannelState(i)
             \/ TransmitAck(i)
      PROVE  Count(j)'
  <2>1. UNCHANGED <<downCounter, isBusy, wasChannelEmpty, isChannelObserved>>
    BY <1>1 DEF GeneratePacket, EndPacketTransmission, EndAckTransmission,
       EndAckListening, EndTxSleep, ProbeChannelState, TransmitAck, txVars
  <2> QED
    BY <1>0, <2>1, CountFrame DEF CountView
<1>2. ASSUME NEW i \in Pair, SuccessfulPacketTransmission(i) \/ RemoveLostPacket(i)
      PROVE  Count(j)'
  <2>1. FinishPacket(i)
    BY <1>2 DEF SuccessfulPacketTransmission, RemoveLostPacket
  <2>2. CASE j # i
    BY <1>0, <2>1, <2>2, CountFrame DEF CountView, FinishPacket, Put
  <2>3. CASE j = i
    <3>1. downCounter'[j] = InitDownCounter /\ ~wasChannelEmpty'[j]
      BY <1>0, <2>1, <2>3 DEF FinishPacket, Put
    <3> QED
      BY <3>1, WholeIntervals DEF Count
  <2> QED
    BY <2>2, <2>3
<1>3. ASSUME NEW i \in Pair, ScheduleRetransmission(i) \/ ResetTXDownCounter(i)
      PROVE  Count(j)'
  <2>1. CASE j # i
    BY <1>0, <1>3, <2>1, CountFrame DEF CountView, ScheduleRetransmission,
       ResetTXDownCounter, Put
  <2>2. CASE j = i
    <3>1. downCounter'[j] = InitDownCounter /\ ~wasChannelEmpty'[j]
      BY <1>0, <1>3, <2>2 DEF ScheduleRetransmission, ResetTXDownCounter, Put
    <3> QED
      BY <3>1, WholeIntervals DEF Count
  <2> QED
    BY <2>1, <2>2
<1>4. ASSUME NEW i \in Pair, StartChannelObserving(i)
      PROVE  Count(j)'
  BY <1>0, <1>4 DEF Count, StartChannelObserving, Put
<1>5. ASSUME NEW i \in Pair, MarkEmptyChannelState(i)
      PROVE  Count(j)'
  <2>1. isChannelObserved[i]
    BY <1>5 DEF MarkEmptyChannelState, MarkEmptyTriggered, ContendInv, Contend
  <2> QED
    BY <1>0, <1>5, <2>1 DEF Count, MarkEmptyChannelState, Put
<1>6. ASSUME NEW i \in Pair, ReduceTXDownCounter(i), Turn(17, i)
      PROVE  Count(j)'
  <2>1. CASE j # i
    BY <1>0, <1>6, <2>1, CountFrame DEF CountView, ReduceTXDownCounter, Put
  <2>2. CASE j = i
    <3>1. ~isBusy[j] /\ wasChannelEmpty[j] /\ Ahead(17, j)
      BY <1>6, <2>2 DEF ReduceTXDownCounter, ReduceCounterTriggered, Turn, Ahead
    <3>2. downCounter[j] # 0
      BY <3>1 DEF ExpiredInv, Expired
    <3>3. PICK n \in 0 .. InitDownCounter : downCounter[j] = n * ChannelCheckInterval
      BY <1>0 DEF Count
    <3>4. downCounter[j] \in 1 .. InitDownCounter
      BY <1>0, <3>2 DEF Count
    <3>5. /\ downCounter'[j] = downCounter[j] - ChannelCheckInterval
          /\ UNCHANGED <<isBusy, wasChannelEmpty, isChannelObserved>>
      BY <1>0, <1>6, <2>2 DEF ReduceTXDownCounter, Put
    <3>6. /\ downCounter'[j] \in 0 .. InitDownCounter
          /\ n - 1 \in 0 .. InitDownCounter
          /\ downCounter'[j] = (n - 1) * ChannelCheckInterval
      BY <3>3, <3>4, <3>5, IntervalTaken
    <3> QED
      BY <1>0, <3>1, <3>5, <3>6 DEF Count
  <2> QED
    BY <2>1, <2>2
<1>7. ASSUME NEW i \in Pair, StartRetransmission(i) \/ StartTransmission(i)
      PROVE  Count(j)'
  <2>1. SendPacket(i)
    BY <1>7 DEF StartRetransmission, StartTransmission
  <2>2. CASE j # i
    BY <1>0, <2>1, <2>2, CountFrame DEF CountView, SendPacket, Put
  <2>3. CASE j = i
    BY <1>0, <2>1, <2>3 DEF Count, SendPacket, Put
  <2> QED
    BY <2>2, <2>3
<1>8. ASSUME UpdateChannelState \/ ChannelEmpty \/ ChannelBusy \/ Collision \/ NewPass
                \/ Tick \/ Finished
      PROVE  Count(j)'
  <2>1. UNCHANGED txVars
    BY <1>8 DEF UpdateChannelState, ChannelEmpty, ChannelBusy, Collision, NewPass, Tick,
       Finished, networkVars, vars
  <2> QED
    BY <1>0, <2>1, CountFrame DEF CountView, txVars
<1>9. ASSUME ResetAndInitialize
      PROVE  Count(j)'
  <2>1. downCounter'[j] = InitDownCounter /\ ~wasChannelEmpty'[j]
    BY <1>9 DEF ResetAndInitialize, NetworkReset, TransmitterReset
  <2> QED
    BY <2>1, WholeIntervals DEF Count
<1> QED
  BY <1>1, <1>2, <1>3, <1>4, <1>5, <1>6, <1>7, <1>8, <1>9 DEF Next, Scan

-----------------------------------------------------------------------------
(* Runs.                                                                   *)

LEMMA ClockStep ==
  ASSUME TypeOK, SenseInv, ClockInv, Next
  PROVE  ClockInv'
<1> USE DEF ClockInv
<1>1. ASSUME Scan
      PROVE  ClockInv'
  <2>1. running' = running /\ running /\ clock' = clock
    BY <1>1 DEF Scan, Turn
  <2> QED
    BY <2>1
<1>2. ASSUME Tick
      PROVE  ClockInv'
  <2>1. updateChannelTime = 1
    BY <1>2, QuietFacts DEF Tick, SenseInv
  <2> QED
    BY <1>2, <2>1 DEF Tick, CountDownTimers, MinimalTimeStep, scanVars
<1>3. ASSUME NewPass \/ ResetAndInitialize
      PROVE  ClockInv'
  BY <1>3 DEF NewPass, ResetAndInitialize
<1>4. ASSUME Finished
      PROVE  ClockInv'
  BY <1>4 DEF Finished, vars, scanVars, networkVars, timerVars
<1> QED
  BY <1>1, <1>2, <1>3, <1>4 DEF Next

-----------------------------------------------------------------------------
(* The invariant and what follows from it.                                 *)

LEMMA InitAccessInv == Init => AccessInv
<1> SUFFICES ASSUME Init PROVE AccessInv
  OBVIOUS
<1> USE DEF Init, NetworkFresh, TransmitterFresh, ReceiverFresh, ChannelFresh, TimersFresh
<1>1. SenseInv /\ ClockInv
  BY DEF SenseInv, ClockInv
<1>2. AirInv
  BY DEF AirInv, IdleFlagIsCurrent, OverlapIsRecorded, AckAlone, OverlapsStartTogether,
     Overlap, Sensed, Sending, Acking, TransmitAckTriggered
<1>3. ExpiredInv
  BY DEF ExpiredInv, Expired
<1>4. ProbeInv
  BY DEF ProbeInv, Probe, Inactive
<1>5. CountInv
  BY WholeIntervals DEF CountInv, Count
<1> QED
  BY <1>1, <1>2, <1>3, <1>4, <1>5, InitPairInv DEF AccessInv, CarrierInv

LEMMA StutterAccessInv == AccessInv /\ UNCHANGED vars => AccessInv'
<1> SUFFICES ASSUME AccessInv, UNCHANGED vars PROVE AccessInv'
  OBVIOUS
<1> USE DEF AccessInv, vars, scanVars, networkVars, txVars, rxVars, channelVars, timerVars
<1>1. PairInv'
  BY StutterPairInv
<1>2. SenseInv' /\ ClockInv'
  BY DEF CarrierInv, SenseInv, ClockInv
<1>3. AirInv'
  BY AirFrame DEF CarrierInv, AirView
<1>4. ExpiredInv'
  BY DEF CarrierInv, ExpiredInv, Expired, Ahead, StartStage, Sensed
<1>5. ProbeInv'
  BY DEF ProbeInv, Probe, ProbePending, Ahead, Sensed, Sending, Elapsed
<1>6. CountInv'
  BY DEF CountInv, Count
<1> QED
  BY <1>1, <1>2, <1>3, <1>4, <1>5, <1>6 DEF CarrierInv

LEMMA AccessStep == AccessInv /\ [Next]_vars => AccessInv'
<1> SUFFICES ASSUME AccessInv, Next PROVE AccessInv'
  BY StutterAccessInv
<1>1. TypeOK /\ LinkInv /\ ContendInv /\ SenseInv /\ AirInv /\ ExpiredInv
  BY DEF AccessInv, PairInv, CarrierInv
<1>2. PairInv'
  BY <1>1, TypeStep, LinkStep, ContendStep DEF PairInv
<1>3. CarrierInv'
  BY <1>1, SenseStep, AirStep, ExpiredStep DEF CarrierInv
<1>4. ProbeInv' /\ CountInv' /\ ClockInv'
  BY <1>1, ProbeStep, CountStep, ClockStep DEF AccessInv
<1> QED
  BY <1>2, <1>3, <1>4 DEF AccessInv

(* In every state of every behaviour the scan has the channel sensed before *)
(* a probe is decided, has the probe decided before the pass is over, and  *)
(* starts a transmission whose counter is 0 in the pass that made it 0.    *)
THEOREM AccessIsOrdered == Spec => []AccessInv
BY InitAccessInv, AccessStep, PTL DEF Spec

(* The ACK, which is sent without sensing the channel, never meets another *)
(* transmission.                                                           *)
THEOREM AcksAreAlone == Spec => []AckAlone
<1>1. AccessInv => AckAlone
  BY DEF AccessInv, CarrierInv, AirInv
<1> QED
  BY <1>1, AccessIsOrdered, PTL

(* An overlap is recorded in the collision flag before the clock advances, *)
(* so that no packet that collided is found uncorrupted when it ends.      *)
THEOREM OverlapsAreRecorded == Spec => []OverlapIsRecorded
<1>1. AccessInv => OverlapIsRecorded
  BY DEF AccessInv, CarrierInv, AirInv
<1> QED
  BY <1>1, AccessIsOrdered, PTL

(* Packets collide only if they were started at the same clock value: no   *)
(* transmitter starts over a packet that it could have sensed.             *)
THEOREM CollisionsStartTogether == Spec => []OverlapsStartTogether
<1>1. AccessInv => OverlapsStartTogether
  BY DEF AccessInv, CarrierInv, AirInv
<1> QED
  BY <1>1, AccessIsOrdered, PTL

(* The counter, from which whole check intervals are taken, does not miss  *)
(* the value 0 for which the start of a transmission waits, and reaches it *)
(* on an idle channel.                                                     *)
THEOREM CountDownIsExact == Spec => []CounterStartsTransmission
<1>1. AccessInv => CounterStartsTransmission
  <2> SUFFICES ASSUME AccessInv, NEW i \in Pair
               PROVE  /\ downCounter[i] \in 0 .. InitDownCounter
                      /\ downCounter[i] = 0 /\ ~isBusy[i] =>
                            stage >= 17 /\ Sensed /\ ~isChannelBusy
    BY DEF CounterStartsTransmission
  <2>1. Expired(i) /\ Count(i) /\ stage \in 0 .. 20
    BY DEF AccessInv, CarrierInv, ExpiredInv, CountInv, PairInv, TypeOK, ScanTypeOK
  <2> QED
    BY <2>1 DEF Expired, Count, Ahead, Before
<1> QED
  BY <1>1, AccessIsOrdered, PTL

(* No transmission is started by a pair that has one on the channel, whose *)
(* end would be lost.                                                      *)
THEOREM OneTransmissionPerPair == Spec => PairUsesChannelOnce
<1>1. ASSUME AccessInv, [Next]_vars, NEW i \in Pair,
             TransmitAck(i) \/ StartRetransmission(i) \/ StartTransmission(i)
      PROVE  ~Sending(i) /\ ~Acking(i)
  <2>1. TypeOK /\ LinkInv /\ Link(i)
    BY <1>1 DEF AccessInv, PairInv, LinkInv
  <2>2. TransmitAckTriggered(i) \/ ~isBusy[i]
    BY <1>1 DEF TransmitAck, StartRetransmission, StartTransmission,
       StartRetransmissionTriggered, StartTransmissionTriggered
  <2>3. ~Sending(i)
    BY <2>1, <2>2, SendingFacts
  <2>4. endAckTime[i] \in Nat \union {-1}
    BY <2>1 DEF TypeOK, NetworkTypeOK, TimersTypeOK, EventTime, Inactive
  <2>5. ~Acking(i)
    BY <2>1, <2>2, <2>4 DEF Link, Inactive
  <2> QED
    BY <2>3, <2>5
<1>2. AccessInv /\ [Next]_vars =>
        [\A i \in Pair :
            \/ TransmitAck(i)
            \/ StartRetransmission(i)
            \/ StartTransmission(i)
            => ~Sending(i) /\ ~Acking(i)]_vars
  BY <1>1
<1> QED
  BY <1>2, AccessIsOrdered, PTL DEF Spec, PairUsesChannelOnce

(* The clock changes between two scans only, when every probe is decided.  *)
LEMMA ProbesAreDecided ==
  ASSUME AccessInv, [Next]_vars, clock' # clock, NEW i \in Pair
  PROVE  ~isProbingActive[i]
<1>1. TypeOK /\ ContendInv /\ ProbeInv /\ ClockInv
  BY DEF AccessInv, PairInv
<1>2. Tick \/ ResetAndInitialize
  BY DEF Next, Scan, Turn, NewPass, Finished, vars
<1>3. CASE Tick
  <2>1. Skipped(21, 0) /\ 0 \in Pair /\ Before(17, i, 21, 0)
    BY <1>3, QuietSkips DEF Tick, Pair, Before
  <2> QED
    BY <1>1, <2>1, ProbeIsNotSkipped
<1>4. CASE ResetAndInitialize
  <2>1. ~Sensed
    BY <1>1, <1>4 DEF ResetAndInitialize, ClockInv, Sensed
  <2> QED
    BY <1>1, <2>1 DEF ProbeInv, Probe, ProbePending
<1> QED
  BY <1>2, <1>3, <1>4

(* A probe is decided at the clock value it is made at, on what the channel *)
(* was at that clock value, and only by a transmitter that contends.       *)
THEOREM ProbesAreDecidedAtOnce == Spec => ProbeIsDecidedAtOnce
<1>1. AccessInv /\ [Next]_vars =>
        [clock' # clock => \A i \in Pair : ~isProbingActive[i]]_vars
  BY ProbesAreDecided
<1>2. ASSUME AccessInv', NEW i \in Pair, isProbingActive'[i]
      PROVE  isActive'[i] /\ ~isBusy'[i] /\ isChannelObserved'[i] /\ Sensed'
  BY <1>2 DEF AccessInv, PairInv, ContendInv, Contend, ProbeInv, Probe, ProbePending
<1>3. AccessInv' /\ [Next]_vars =>
        [\A i \in Pair : isProbingActive'[i] =>
              /\ isActive'[i] /\ ~isBusy'[i] /\ isChannelObserved'[i]
              /\ Sensed']_vars
  BY <1>2
<1> QED
  BY <1>1, <1>3, AccessIsOrdered, PTL DEF Spec, ProbeIsDecidedAtOnce

(* Whoever has a packet to send when the clock advances waits for a timer  *)
(* that is running: the end of its wait for an ACK, of its back-off sleep, *)
(* or its next probe.                                                      *)
THEOREM NobodyIsStranded == Spec => NoStrandedTransmitter
<1>1. ASSUME AccessInv, [Next]_vars, clock' > clock, NEW i \in Pair, buffer[i] # <<>>
      PROVE  \/ isBusy[i] /\ endListeningTime[i] > 0
             \/ ~isActive[i] /\ endSleepTime[i] > 0
             \/ isChannelObserved[i] /\ probeTime[i] > 0
  <2>1. TypeOK /\ Link(i) /\ Contend(i)
    BY <1>1 DEF AccessInv, PairInv, LinkInv, ContendInv
  <2>2. Tick
    BY <1>1, <2>1 DEF Next, Scan, Turn, NewPass, ResetAndInitialize, Finished, vars,
       TypeOK, ScanTypeOK
  <2>3. /\ endListeningTime[i] \in Nat \union {-1} /\ endSleepTime[i] \in Nat \union {-1}
        /\ probeTime[i] \in Nat \union {-1} /\ retranNum[i] \in Nat
    BY <2>1 DEF TypeOK, NetworkTypeOK, TransmitterTypeOK, TimersTypeOK, EventTime,
       Inactive
  <2>4. endListeningTime[i] # 0 /\ endSleepTime[i] # 0 /\ probeTime[i] # 0
    BY <2>1, <2>2, QuietFacts DEF Tick
  <2>5. ~Due(11, i) /\ ~Due(12, i) /\ ~Due(13, i)
    BY <2>2 DEF Tick, NothingDueAfter, Before
  <2>6. CASE isBusy[i]
    <3>1. ~isListeningFinished[i]
      <4>1. ASSUME isListeningFinished[i] PROVE FALSE
        <5>1. ~wasTranOk[i]
          BY <2>1, <4>1 DEF Link, Inactive
        <5> QED
          BY <2>3, <2>5, <4>1, <5>1 DEF Due, LostTriggered, RetransmissionTriggered
      <4> QED
        BY <4>1
    <3> QED
      BY <2>1, <2>3, <2>4, <2>6, <3>1 DEF Link, Inactive
  <2>7. CASE ~isActive[i]
    BY <2>1, <2>3, <2>4, <2>7 DEF Contend, Inactive
  <2>8. CASE ~isBusy[i] /\ isActive[i]
    <3>1. isChannelObserved[i]
      BY <1>1, <2>5, <2>8 DEF Due, ObservingTriggered
    <3> QED
      BY <2>1, <2>3, <2>4, <3>1 DEF Contend, Inactive
  <2> QED
    BY <2>6, <2>7, <2>8
<1>2. AccessInv /\ [Next]_vars =>
        [clock' > clock =>
          \A i \in Pair :
              buffer[i] # <<>> =>
                  \/ isBusy[i] /\ endListeningTime[i] > 0
                  \/ ~isActive[i] /\ endSleepTime[i] > 0
                  \/ isChannelObserved[i] /\ probeTime[i] > 0]_vars
  BY <1>1
<1> QED
  BY <1>2, AccessIsOrdered, PTL DEF Spec, NoStrandedTransmitter

-----------------------------------------------------------------------------
(* The time a packet waits.                                                *)

(* The types of what Await(i) reads.                                       *)
LEMMA AwaitTypes ==
  ASSUME TypeOK, NEW i \in Pair
  PROVE  /\ buffer[i] \in Seq(Nat) /\ retranNum[i] \in Nat
         /\ downCounter[i] \in Int /\ transmitTimestamp[i] \in Nat /\ clock \in Nat
         /\ endAckTime[i] \in Nat \union {-1} /\ probeTime[i] \in Nat \union {-1}
         /\ endListeningTime[i] \in Nat \union {-1}
         /\ endPacketTime[i] \in Nat \union {-1}
BY DEF TypeOK, NetworkTypeOK, TransmitterTypeOK, TimersTypeOK, ScanTypeOK, EventTime,
   Inactive

LEMMA AwaitFrame ==
  ASSUME NEW i \in Pair, Await(i), UNCHANGED PairView(i), UNCHANGED clock,
         Sending(i)' <=> Sending(i), Acking(i)' <=> Acking(i)
  PROVE  Await(i)'
<1>1. /\ Elapsed(i)' = Elapsed(i)
      /\ TransmitAckTriggered(i)' <=> TransmitAckTriggered(i)
  BY DEF PairView, Elapsed, TransmitAckTriggered
<1> QED
  BY <1>1 DEF Await, PairView

(* A transmission is over when its outcome is decided.                     *)
LEMMA OutcomeFacts ==
  ASSUME TypeOK, LinkInv, NEW i \in Pair, wasTranOk[i] \/ isListeningFinished[i]
  PROVE  ~Sending(i) /\ ~Acking(i) /\ ~TransmitAckTriggered(i)
<1>1. Link(i) /\ endAckTime[i] \in Nat \union {-1} /\ endPacketTime[i] \in Nat \union {-1}
  BY AwaitTypes DEF LinkInv
<1>2. CASE wasTranOk[i]
  BY <1>1, <1>2 DEF Link
<1>3. CASE isListeningFinished[i]
  BY <1>1, <1>3 DEF Link, Inactive
<1> QED
  BY <1>2, <1>3

(* An idle pair has nothing on the channel and owes no ACK.                *)
LEMMA IdleFacts ==
  ASSUME TypeOK, LinkInv, NEW i \in Pair, ~isBusy[i]
  PROVE  ~Sending(i) /\ ~Acking(i) /\ ~TransmitAckTriggered(i) /\ ~wasTranOk[i]
<1>1. Link(i) /\ endAckTime[i] \in Nat \union {-1} /\ endPacketTime[i] \in Nat \union {-1}
  BY AwaitTypes DEF LinkInv
<1> QED
  BY <1>1 DEF Link, Inactive

(* An arrival goes to the end of the buffer.                               *)
LEMMA AwaitGenerate ==
  ASSUME TypeOK, ContendInv, AwaitInv, NEW i \in Pair, GeneratePacket(i), UNCHANGED clock
  PROVE  Await(i)'
<1>1. /\ Await(i) /\ Contend(i) /\ buffer[i] \in Seq(Nat) /\ clock \in Nat
      /\ buffer \in [Pair -> Seq(Nat)]
  BY AwaitTypes DEF AwaitInv, ContendInv, TypeOK, NetworkTypeOK, TransmitterTypeOK
<1>2. buffer'[i] = Append(buffer[i], clock)
  BY <1>1 DEF GeneratePacket, Put
<1>3. \A k \in 1 .. Len(buffer'[i]) : buffer'[i][k] <= clock
  BY <1>1, <1>2 DEF Await
<1>4. buffer[i] # <<>> => Head(buffer'[i]) = Head(buffer[i])
  BY <1>1, <1>2
<1>5. /\ UNCHANGED <<isBusy, retranNum, transmitTimestamp, isChannelObserved,
                     isProbingActive, downCounter, wasTranOk, isListeningFinished,
                     probeTime, endAckTime, endPacketTime, transmissionTime,
                     transmissions, clock>>
      /\ TransmitAckTriggered(i)' <=> TransmitAckTriggered(i)
  BY DEF GeneratePacket, channelVars, rxVars, TransmitAckTriggered
<1>6. /\ Sending(i)' <=> Sending(i)
      /\ Acking(i)' <=> Acking(i)
      /\ Elapsed(i)' = Elapsed(i)
  BY <1>5 DEF Sending, Acking, Elapsed, PacketOf, AckTo
<1>7. isChannelObserved[i] \/ transmitTimestamp[i] # 0 => buffer[i] # <<>>
  BY <1>1 DEF Await, Contend
<1> QED
  BY <1>1, <1>3, <1>4, <1>5, <1>6, <1>7 DEF Await

(* The time on the channel is part of the time since the first attempt.    *)
LEMMA AwaitAir ==
  ASSUME TypeOK, LinkInv, AirInv, Sensed, AwaitInv, NEW i \in Pair, UNCHANGED clock,
         EndPacketTransmission(i) \/ EndAckTransmission(i) \/ TransmitAck(i)
  PROVE  Await(i)'
<1>1. /\ Await(i) /\ buffer[i] \in Seq(Nat) /\ clock \in Nat
      /\ transmitTimestamp[i] \in Nat /\ AckMsgTime \in Nat
  BY AwaitTypes DEF AwaitInv
<1>2. /\ endAckTime \in [Pair -> EventTime] /\ wasTranOk \in [Pair -> BOOLEAN]
      /\ wasPacketReceived \in [Pair -> BOOLEAN]
  BY DEF TypeOK, NetworkTypeOK, TransmitterTypeOK, ReceiverTypeOK, TimersTypeOK
<1>3. PacketOf(i) # AckTo(i)
  BY DEF PacketOf, AckTo
<1>4. UNCHANGED <<buffer, isBusy, retranNum, transmitTimestamp, isChannelObserved,
                  isProbingActive, downCounter, isListeningFinished,
                  probeTime, transmissionTime, clock>>
  BY DEF EndPacketTransmission, EndAckTransmission, TransmitAck, txVars
<1>5. CASE EndPacketTransmission(i)
  <2>1. Sending(i) /\ Elapsed(i) > 0 /\ Elapsed(i) \in Nat
    BY <1>5, BusyFacts, SendingFacts DEF EndPacketTransmission
  <2>2. transmitTimestamp[i] < clock
    BY <1>1, <2>1 DEF Await
  <2>3. UNCHANGED <<endAckTime, wasTranOk>> /\ ~Sending(i)' /\ (Acking(i)' <=> Acking(i))
    BY <1>3, <1>5 DEF EndPacketTransmission, txVars, Sending, Acking, PacketOf, AckTo
  <2> QED
    BY <1>1, <1>4, <2>2, <2>3 DEF Await
<1>6. CASE EndAckTransmission(i)
  <2>1. Acking(i) /\ endAckTime[i] = 0
    BY <1>6, BusyFacts DEF EndAckTransmission
  <2>2. transmitTimestamp[i] + AckMsgTime < clock
    BY <1>1, <2>1 DEF Await
  <2>3. /\ ~Acking(i)' /\ (Sending(i)' <=> Sending(i)) /\ endPacketTime' = endPacketTime
        /\ TransmitAckTriggered(i)' <=> TransmitAckTriggered(i)
    BY <1>3, <1>6 DEF EndAckTransmission, rxVars, Sending, Acking, PacketOf, AckTo,
       TransmitAckTriggered
  <2>4. Elapsed(i)' = Elapsed(i)
    BY <1>4, <2>3 DEF Elapsed
  <2> QED
    BY <1>1, <1>4, <2>2, <2>3, <2>4 DEF Await
<1>7. CASE TransmitAck(i)
  <2>1. transmitTimestamp[i] < clock
    BY <1>1, <1>7 DEF Await, TransmitAck
  <2>2. /\ endAckTime'[i] = AckMsgTime /\ ~TransmitAckTriggered(i)'
        /\ Sending(i)' <=> Sending(i)
        /\ endPacketTime' = endPacketTime /\ wasTranOk' = wasTranOk
    BY <1>2, <1>3, <1>7 DEF TransmitAck, Put, TransmitAckTriggered, Sending, PacketOf,
       AckTo, txVars
  <2>3. Elapsed(i)' = Elapsed(i)
    BY <1>4, <2>2 DEF Elapsed
  <2> QED
    BY <1>1, <1>4, <2>1, <2>2, <2>3 DEF Await
<1> QED
  BY <1>5, <1>6, <1>7

(* The times in a buffer are past times, and they stay so.                 *)
LEMMA PastTimes ==
  ASSUME NEW s \in Seq(Nat), NEW time \in Nat, \A k \in 1 .. Len(s) : s[k] <= time
  PROVE  /\ \A k \in 1 .. Len(s) : s[k] \in Nat /\ s[k] < time + 1
         /\ s # <<>> => Head(s) < time + 1
         /\ s # <<>> => \A k \in 1 .. Len(Tail(s)) : Tail(s)[k] <= time
<1>1. ASSUME NEW k \in 1 .. Len(s)
      PROVE  s[k] \in Nat /\ s[k] < time + 1
  OBVIOUS
<1>2. ASSUME s # <<>>
      PROVE  Head(s) = s[1] /\ 1 \in 1 .. Len(s)
  BY <1>2
<1>3. ASSUME s # <<>>, NEW k \in 1 .. Len(Tail(s))
      PROVE  Tail(s)[k] = s[k + 1] /\ k + 1 \in 1 .. Len(s)
  BY <1>3
<1> QED
  BY <1>1, <1>2, <1>3

(* An outcome leaves nothing to be timed, or one failure more.             *)
LEMMA AwaitOutcome ==
  ASSUME TypeOK, LinkInv, ContendInv, AwaitInv, NEW i \in Pair, UNCHANGED clock,
         \/ EndAckListening(i) \/ EndTxSleep(i) \/ ScheduleRetransmission(i)
         \/ SuccessfulPacketTransmission(i) \/ RemoveLostPacket(i)
  PROVE  Await(i)'
<1>1. /\ Await(i) /\ Link(i) /\ buffer[i] \in Seq(Nat) /\ clock \in Nat
      /\ retranNum[i] \in Nat
  BY AwaitTypes DEF AwaitInv, LinkInv
<1>2. /\ buffer \in [Pair -> Seq(Nat)] /\ retranNum \in [Pair -> Nat]
      /\ isListeningFinished \in [Pair -> BOOLEAN] /\ isBusy \in [Pair -> BOOLEAN]
      /\ isChannelObserved \in [Pair -> BOOLEAN] /\ wasTranOk \in [Pair -> BOOLEAN]
      /\ transmitTimestamp \in [Pair -> Nat]
  BY DEF TypeOK, NetworkTypeOK, TransmitterTypeOK
<1>3. UNCHANGED <<transmissions, rxVars, endPacketTime, endAckTime, transmissionTime>>
  BY DEF EndAckListening, EndTxSleep, ScheduleRetransmission, channelVars, timerVars,
     SuccessfulPacketTransmission, RemoveLostPacket
<1>4. /\ Sending(i)' <=> Sending(i)
      /\ Acking(i)' <=> Acking(i)
      /\ TransmitAckTriggered(i)' <=> TransmitAckTriggered(i)
      /\ Elapsed(i)' = Elapsed(i)
  BY <1>3 DEF Sending, Acking, PacketOf, AckTo, TransmitAckTriggered, Elapsed, rxVars
<1>5. CASE EndAckListening(i)
  <2>1. isBusy[i]
    BY <1>1, <1>5 DEF EndAckListening, Link, Inactive
  <2>2. /\ isListeningFinished'[i] /\ retranNum'[i] = retranNum[i] + 1
        /\ UNCHANGED <<buffer, isBusy, transmitTimestamp, isChannelObserved, wasTranOk,
                       isProbingActive, downCounter, probeTime>>
    BY <1>2, <1>5 DEF EndAckListening, Put
  <2> QED
    BY <1>1, <1>3, <1>4, <2>1, <2>2 DEF Await
<1>6. CASE EndTxSleep(i)
  <2>1. UNCHANGED <<buffer, isBusy, transmitTimestamp, isChannelObserved, wasTranOk,
                    isListeningFinished, retranNum, isProbingActive, downCounter,
                    probeTime>>
    BY <1>6 DEF EndTxSleep
  <2> QED
    BY <1>1, <1>3, <1>4, <2>1 DEF Await
<1>7. CASE ScheduleRetransmission(i)
  <2>1. retranNum[i] > 0 /\ isBusy[i]
    BY <1>1, <1>7 DEF Await, Link, ScheduleRetransmission, RetransmissionTriggered
  <2>2. /\ ~isBusy'[i] /\ ~isListeningFinished'[i] /\ ~isChannelObserved'[i]
        /\ UNCHANGED <<buffer, transmitTimestamp, retranNum, wasTranOk>>
    BY <1>2, <1>7 DEF ScheduleRetransmission, Put
  <2> QED
    BY <1>1, <1>3, <1>4, <2>1, <2>2 DEF Await
<1>8. CASE SuccessfulPacketTransmission(i) \/ RemoveLostPacket(i)
  <2>1. FinishPacket(i) /\ (SuccessTriggered(i) \/ isListeningFinished[i])
    BY <1>8 DEF SuccessfulPacketTransmission, RemoveLostPacket, LostTriggered
  <2>2. ~Sending(i) /\ ~Acking(i) /\ ~TransmitAckTriggered(i)
    BY <2>1, OutcomeFacts DEF SuccessTriggered
  <2>3. /\ buffer'[i] = Tail(buffer[i]) /\ ~isBusy'[i] /\ ~isListeningFinished'[i]
        /\ ~isChannelObserved'[i] /\ ~wasTranOk'[i] /\ retranNum'[i] = 0
        /\ transmitTimestamp'[i] = 0
    BY <1>2, <2>1 DEF FinishPacket, Put
  <2>4. \A k \in 1 .. Len(buffer'[i]) : buffer'[i][k] <= clock
    <3>1. buffer[i] # <<>>
      BY <2>1, HeadExists
    <3>2. \A k \in 1 .. Len(buffer[i]) : buffer[i][k] <= clock
      BY <1>1 DEF Await
    <3>3. \A k \in 1 .. Len(Tail(buffer[i])) : Tail(buffer[i])[k] <= clock
      BY <1>1, <3>1, <3>2, PastTimes
    <3> QED
      BY <2>3, <3>3
  <2> QED
    BY <1>4, <2>2, <2>3, <2>4 DEF Await
<1> QED
  BY <1>5, <1>6, <1>7, <1>8

(* A transmitter observes the channel for one step before its first probe. *)
LEMMA AwaitProbe ==
  ASSUME TypeOK, ContendInv, AwaitInv, NEW i \in Pair, UNCHANGED clock,
         \/ StartChannelObserving(i) \/ ProbeChannelState(i) \/ MarkEmptyChannelState(i)
         \/ ResetTXDownCounter(i) \/ ReduceTXDownCounter(i)
  PROVE  Await(i)'
<1>1. Await(i) /\ Contend(i)
  BY DEF AwaitInv, ContendInv
<1>2. /\ isChannelObserved \in [Pair -> BOOLEAN] /\ downCounter \in [Pair -> Int]
      /\ probeTime \in [Pair -> EventTime] /\ isProbingActive \in [Pair -> BOOLEAN]
  BY DEF TypeOK, NetworkTypeOK, TransmitterTypeOK, TimersTypeOK
<1>3. UNCHANGED <<buffer, isBusy, transmitTimestamp, wasTranOk, isListeningFinished,
                  retranNum, transmissions, rxVars, endPacketTime, endAckTime,
                  transmissionTime>>
  <2>1. CASE StartChannelObserving(i) \/ ProbeChannelState(i)
    BY <2>1 DEF StartChannelObserving, ProbeChannelState, channelVars
  <2>2. CASE MarkEmptyChannelState(i) \/ ResetTXDownCounter(i) \/ ReduceTXDownCounter(i)
    BY <2>2 DEF MarkEmptyChannelState, ResetTXDownCounter, ReduceTXDownCounter,
       channelVars, timerVars
  <2> QED
    BY <2>1, <2>2
<1>4. /\ Sending(i)' <=> Sending(i)
      /\ Acking(i)' <=> Acking(i)
      /\ TransmitAckTriggered(i)' <=> TransmitAckTriggered(i)
      /\ Elapsed(i)' = Elapsed(i)
  BY <1>3 DEF Sending, Acking, PacketOf, AckTo, TransmitAckTriggered, Elapsed, rxVars
<1>5. isChannelObserved'[i] =>
         \/ Head(buffer[i]) < clock
         \/ /\ probeTime'[i] = 1
            /\ ~isProbingActive'[i]
            /\ downCounter'[i] = InitDownCounter
  <2>1. CASE StartChannelObserving(i)
    <3>1. ~isProbingActive[i] /\ downCounter[i] = InitDownCounter
      BY <1>1, <2>1 DEF Contend, StartChannelObserving, ObservingTriggered
    <3> QED
      BY <1>2, <2>1, <3>1 DEF StartChannelObserving, Put, MinimalTimeStep
  <2>2. CASE ProbeChannelState(i)
    <3>1. isChannelObserved[i]
      BY <1>1, <2>2 DEF Contend, ProbeChannelState, Inactive
    <3>2. probeTime[i] # 1
      BY <2>2 DEF ProbeChannelState
    <3>3. Head(buffer[i]) < clock
      BY <1>1, <3>1, <3>2 DEF Await
    <3> QED
      BY <3>3
  <2>3. CASE MarkEmptyChannelState(i) \/ ResetTXDownCounter(i) \/ ReduceTXDownCounter(i)
    <3>1. isProbingActive[i]
      BY <2>3 DEF MarkEmptyChannelState, MarkEmptyTriggered, ResetTXDownCounter,
         ResetCounterTriggered, ReduceTXDownCounter, ReduceCounterTriggered
    <3> QED
      BY <1>1, <3>1 DEF Await, Contend
  <2> QED
    BY <2>1, <2>2, <2>3
<1> QED
  BY <1>1, <1>3, <1>4, <1>5 DEF Await

(* The first attempt is made after the arrival; the length of the packet   *)
(* has still to pass.                                                      *)
LEMMA AwaitStart ==
  ASSUME TypeOK, LinkInv, ContendInv, AwaitInv, NEW i \in Pair, UNCHANGED clock,
         StartRetransmission(i) \/ StartTransmission(i)
  PROVE  Await(i)'
<1>1. /\ Await(i) /\ Contend(i) /\ buffer[i] \in Seq(Nat) /\ clock \in Nat
      /\ transmitTimestamp[i] \in Nat
  BY AwaitTypes DEF AwaitInv, ContendInv
<1>2. SendPacket(i) /\ ~isBusy[i] /\ downCounter[i] = 0
  BY DEF StartRetransmission, StartTransmission, StartRetransmissionTriggered,
     StartTransmissionTriggered
<1>3. ~Sending(i) /\ ~Acking(i) /\ ~TransmitAckTriggered(i) /\ ~wasTranOk[i]
  BY <1>2, IdleFacts
<1>4. /\ isBusy \in [Pair -> BOOLEAN] /\ isChannelObserved \in [Pair -> BOOLEAN]
      /\ transmitTimestamp \in [Pair -> Nat]
      /\ transmissionTime \in [Pair -> TransmissionTimes \union {-1}]
      /\ endPacketTime \in [Pair -> EventTime]
  BY DEF TypeOK, NetworkTypeOK, TransmitterTypeOK, TimersTypeOK
<1>5. /\ isBusy'[i] /\ ~isChannelObserved'[i]
      /\ UNCHANGED <<buffer, retranNum, wasTranOk, isListeningFinished>>
  BY <1>2, <1>4 DEF SendPacket, Put
<1>6. Elapsed(i)' = 0
  <2>1. PICK time \in TransmissionTimes :
           /\ transmissionTime' = Put(transmissionTime, i, time)
           /\ endPacketTime' = Put(endPacketTime, i, time)
    BY <1>2 DEF SendPacket
  <2>2. transmissionTime'[i] = time /\ endPacketTime'[i] = time /\ time \in Nat
    BY <1>4, <2>1 DEF Put
  <2> QED
    BY <2>2 DEF Elapsed
<1>7. ~Acking(i)' /\ ~TransmitAckTriggered(i)' /\ ~wasTranOk'[i]
  <2>1. PacketOf(i) # AckTo(i)
    BY DEF PacketOf, AckTo
  <2> QED
    BY <1>2, <1>3, <2>1 DEF SendPacket, Acking, TransmitAckTriggered, rxVars, AckTo
<1>8. /\ transmitTimestamp'[i] # 0
      /\ Head(buffer[i]) < transmitTimestamp'[i]
      /\ transmitTimestamp'[i] <= clock
  <2>1. CASE StartRetransmission(i)
    BY <1>1, <2>1 DEF Await, StartRetransmission, StartRetransmissionTriggered
  <2>2. CASE StartTransmission(i)
    <3>1. downCounter[i] # InitDownCounter
      BY <1>2
    <3>2. isChannelObserved[i] /\ buffer[i] # <<>>
      BY <1>1, <1>2, <3>1 DEF Contend
    <3>3. Head(buffer[i]) < clock /\ Head(buffer[i]) \in Nat
      BY <1>1, <3>1, <3>2 DEF Await
    <3>4. transmitTimestamp'[i] = clock
      BY <1>4, <2>2 DEF StartTransmission, Put
    <3> QED
      BY <1>1, <3>3, <3>4
  <2> QED
    BY <2>1, <2>2
<1>9. /\ \A k \in 1 .. Len(buffer'[i]) : buffer'[i][k] <= clock'
      /\ isListeningFinished'[i] => retranNum'[i] > 0
      /\ Sending(i)' => transmitTimestamp'[i] + Elapsed(i)' <= clock'
  <2>1. transmitTimestamp'[i] \in Nat
    BY <1>1, <1>4 DEF StartRetransmission, StartTransmission, Put
  <2>2. \A k \in 1 .. Len(buffer'[i]) : buffer'[i][k] <= clock'
    BY <1>1, <1>5 DEF Await
  <2>3. transmitTimestamp'[i] + Elapsed(i)' <= clock'
    BY <1>1, <1>6, <1>8, <2>1
  <2> QED
    BY <1>1, <1>5, <2>2, <2>3 DEF Await
<1> QED
  BY <1>5, <1>7, <1>8, <1>9 DEF Await

(* When the clock advances, packets and ACKs on the channel advance too.   *)
LEMMA AwaitTick ==
  ASSUME TypeOK, LinkInv, ContendInv, AwaitInv, Tick, NEW i \in Pair
  PROVE  Await(i)'
<1>1. /\ Await(i) /\ Contend(i) /\ buffer[i] \in Seq(Nat) /\ clock \in Nat
      /\ transmitTimestamp[i] \in Nat
  BY AwaitTypes DEF AwaitInv, ContendInv
<1>2. /\ clock' = clock + 1
      /\ UNCHANGED txVars
      /\ endAckTime' = CountDown(endAckTime)
  BY DEF Tick, MinimalTimeStep, CountDownTimers
<1>3. UNCHANGED <<buffer, isBusy, transmitTimestamp, wasTranOk, isListeningFinished,
                  retranNum, isChannelObserved>>
  BY <1>2 DEF txVars
<1>4. /\ Sending(i)' <=> Sending(i)
      /\ Acking(i)' <=> Acking(i)
      /\ TransmitAckTriggered(i)' <=> TransmitAckTriggered(i)
      /\ Sending(i) => Elapsed(i)' = Elapsed(i) + 1 /\ Elapsed(i) \in Nat
  BY ElapsedTick, SendingFacts
<1>5. Acking(i) => endAckTime[i] \in Nat /\ endAckTime'[i] = endAckTime[i] - 1
  <2>1. Acking(i) => endAckTime[i] # -1
    BY DEF LinkInv, Link, Inactive
  <2>2. endAckTime[i] # 0 /\ endAckTime \in [Pair -> EventTime]
    BY QuietFacts DEF Tick, TypeOK, NetworkTypeOK, TimersTypeOK
  <2> QED
    BY <1>2, <2>1, <2>2, CountDownValue
<1>6. /\ \A k \in 1 .. Len(buffer[i]) : buffer[i][k] \in Nat /\ buffer[i][k] < clock'
      /\ buffer[i] # <<>> => Head(buffer[i]) < clock'
  <2>1. \A k \in 1 .. Len(buffer[i]) : buffer[i][k] <= clock
    BY <1>1 DEF Await
  <2> QED
    BY <1>1, <1>2, <2>1, PastTimes
<1>7. isChannelObserved[i] => Head(buffer[i]) < clock'
  BY <1>1, <1>6 DEF Contend
<1>8. transmitTimestamp[i] # 0 => /\ Head(buffer[i]) < transmitTimestamp[i]
                                 /\ transmitTimestamp[i] <= clock'
  BY <1>1, <1>2 DEF Await
<1>9. /\ Sending(i) => transmitTimestamp[i] + Elapsed(i)' <= clock'
      /\ TransmitAckTriggered(i) => transmitTimestamp[i] < clock'
      /\ wasTranOk[i] => transmitTimestamp[i] + AckMsgTime < clock'
  <2> DEFINE elapsed == Elapsed(i)
             started == transmitTimestamp[i]
  <2>1. /\ Sending(i) => started + elapsed <= clock
        /\ TransmitAckTriggered(i) => started < clock
        /\ wasTranOk[i] => started + AckMsgTime < clock
    BY <1>1 DEF Await
  <2>2. started \in Nat /\ (Sending(i) => elapsed \in Nat /\ Elapsed(i)' = elapsed + 1)
    BY <1>1, <1>4
  <2> HIDE DEF elapsed, started
  <2>3. clock \in Nat /\ clock' = clock + 1
    BY <1>1, <1>2
  <2>4. /\ Sending(i) => started + (elapsed + 1) <= clock + 1
        /\ TransmitAckTriggered(i) => started < clock + 1
        /\ wasTranOk[i] => started + AckMsgTime < clock + 1
    BY <2>1, <2>2, <2>3
  <2> QED
    BY <2>2, <2>3, <2>4 DEF started
<1>10. Acking(i) => transmitTimestamp[i] + AckMsgTime - endAckTime'[i] < clock'
  <2>1. Acking(i) => transmitTimestamp[i] + AckMsgTime - endAckTime[i] < clock
    BY <1>1 DEF Await
  <2> DEFINE left == endAckTime[i]
             started == transmitTimestamp[i]
  <2>2. /\ Acking(i) => started + AckMsgTime - left < clock /\ left \in Nat
        /\ Acking(i) => endAckTime'[i] = left - 1
        /\ started \in Nat /\ clock \in Nat
    BY <1>1, <1>5, <2>1
  <2> HIDE DEF left, started
  <2>3. Acking(i) => started + AckMsgTime - (left - 1) < clock + 1
    BY <2>2
  <2> QED
    BY <1>2, <2>2, <2>3 DEF started
<1>11. \A k \in 1 .. Len(buffer[i]) : buffer[i][k] <= clock'
  <2>1. clock' \in Nat
    BY <1>1, <1>2
  <2> QED
    BY <1>6, <2>1
<1>12. /\ isListeningFinished[i] => retranNum[i] > 0
       /\ transmitTimestamp[i] # 0 <=> isBusy[i] \/ retranNum[i] > 0
  BY <1>1 DEF Await
<1> QED
  BY <1>3, <1>4, <1>7, <1>8, <1>9, <1>10, <1>11, <1>12 DEF Await

(* Every step preserves the invariant of the waiting times.                *)
LEMMA AwaitStep ==
  ASSUME AccessInv, AwaitInv, Next
  PROVE  AwaitInv'
<1> SUFFICES ASSUME NEW j \in Pair PROVE Await(j)'
  BY DEF AwaitInv
<1>1. /\ TypeOK /\ NetworkTypeOK /\ LinkInv /\ ContendInv /\ SenseInv /\ AirInv
      /\ Await(j)
  BY DEF AccessInv, PairInv, CarrierInv, TypeOK, AwaitInv
<1>2. ASSUME NEW st \in Stages, NEW i \in Pair, PairEvent(st, i), Turn(st, i)
      PROVE  Await(j)'
  <2>1. UNCHANGED clock
    BY <1>2 DEF Turn
  <2>2. CASE j # i
    BY <1>1, <1>2, <2>1, <2>2, OtherPairs, AwaitFrame
  <2>3. CASE GeneratePacket(i) /\ j = i
    BY <1>1, <2>1, <2>3, AwaitGenerate
  <2>4. CASE /\ \/ st = 6  /\ EndPacketTransmission(i)
                \/ st = 7  /\ EndAckTransmission(i)
                \/ st = 18 /\ TransmitAck(i)
             /\ j = i
    <3>1. Skipped(st, i) /\ st \in 5 .. 21
      BY <1>1, <1>2, <2>4, TurnSkips DEF TypeOK
    <3>2. Sensed
      BY <1>1, <3>1, SensedFromCollision
    <3> QED
      BY <1>1, <2>1, <2>4, <3>2, AwaitAir
  <2>5. CASE (\/ EndAckListening(i) \/ EndTxSleep(i) \/ ScheduleRetransmission(i)
              \/ SuccessfulPacketTransmission(i) \/ RemoveLostPacket(i)) /\ j = i
    BY <1>1, <2>1, <2>5, AwaitOutcome
  <2>6. CASE (\/ StartChannelObserving(i) \/ ProbeChannelState(i)
              \/ MarkEmptyChannelState(i) \/ ResetTXDownCounter(i)
              \/ ReduceTXDownCounter(i)) /\ j = i
    BY <1>1, <2>1, <2>6, AwaitProbe
  <2>7. CASE (StartRetransmission(i) \/ StartTransmission(i)) /\ j = i
    BY <1>1, <2>1, <2>7, AwaitStart
  <2> QED
    BY <1>2, <2>2, <2>3, <2>4, <2>5, <2>6, <2>7 DEF PairEvent, CalmEvent
<1>3. ASSUME UpdateChannelState \/ ChannelEmpty \/ ChannelBusy \/ Collision,
             UNCHANGED clock
      PROVE  Await(j)'
  <2>1. UNCHANGED <<txVars, rxVars, transmissions, received, lost, generated,
                    endPacketTime, endAckTime, endListeningTime, endSleepTime, probeTime>>
    BY <1>3 DEF UpdateChannelState, ChannelEmpty, ChannelBusy, Collision, statVars,
       timerVars
  <2> QED
    BY <1>1, <1>3, <2>1, AwaitFrame DEF PairView, txVars, rxVars, Sending, Acking
<1>4. ASSUME NewPass \/ Finished
      PROVE  Await(j)'
  <2>1. UNCHANGED <<networkVars, clock>>
    BY <1>4 DEF NewPass, Finished, vars
  <2> QED
    BY <1>1, <2>1, AwaitFrame DEF PairView, networkVars, txVars, rxVars, channelVars,
       statVars, timerVars, Sending, Acking
<1>5. ASSUME Tick
      PROVE  Await(j)'
  BY <1>1, <1>5, AwaitTick
<1>6. ASSUME ResetAndInitialize
      PROVE  Await(j)'
  <2>1. NetworkFresh' /\ clock' = 0
    BY <1>6, ResetIsFresh DEF ResetAndInitialize
  <2> QED
    BY <2>1 DEF NetworkFresh, TransmitterFresh, ReceiverFresh, ChannelFresh, Await,
       Sending, Acking, TransmitAckTriggered
<1>7. CASE Scan
  <2>1. CASE \E st \in Stages, i \in Pair : PairEvent(st, i) /\ Turn(st, i)
    BY <1>2, <2>1
  <2>2. CASE /\ UpdateChannelState \/ ChannelEmpty \/ ChannelBusy \/ Collision
             /\ UNCHANGED clock
    BY <1>3, <2>2
  <2> QED
    BY <1>7, <2>1, <2>2 DEF Scan, PairEvent, CalmEvent, Stages, Turn
<1> QED
  BY <1>4, <1>5, <1>6, <1>7 DEF Next

LEMMA InitIInv == Init => IInv
<1> SUFFICES ASSUME Init PROVE IInv
  OBVIOUS
<1>1. AwaitInv
  BY DEF Init, NetworkFresh, TransmitterFresh, ReceiverFresh, ChannelFresh, AwaitInv,
     Await, Sending, Acking, TransmitAckTriggered
<1> QED
  BY <1>1, InitAccessInv DEF IInv

LEMMA IInvStep == IInv /\ [Next]_vars => IInv'
<1> SUFFICES ASSUME IInv, [Next]_vars PROVE IInv'
  OBVIOUS
<1>1. AccessInv'
  BY AccessStep DEF IInv
<1>2. AwaitInv'
  <2>1. CASE Next
    BY <2>1, AwaitStep DEF IInv
  <2>2. CASE UNCHANGED vars
    BY <2>2, AwaitFrame DEF IInv, AwaitInv, PairView, vars, networkVars, txVars, rxVars,
       channelVars, statVars, timerVars, Sending, Acking
  <2> QED
    BY <2>1, <2>2
<1> QED
  BY <1>1, <1>2 DEF IInv

(* The inductive invariant: what the flags, timers and counters of every   *)
(* transmitter, receiver and event agree on in every state of every scan.  *)
THEOREM InvariantHolds == Spec => []IInv
BY InitIInv, IInvStep, PTL DEF Spec

(* The unsigned differences of clock values in the statistics do not wrap  *)
(* around: a packet is sent after it was generated, and its ACK arrives    *)
(* later than its own length after that.                                   *)
THEOREM StatisticsDoNotWrap == Spec => []TimestampsOrdered
<1>1. IInv => TimestampsOrdered
  <2> SUFFICES ASSUME IInv, NEW i \in Pair
               PROVE  /\ isBusy[i] \/ retranNum[i] > 0 =>
                            /\ buffer[i] # <<>>
                            /\ Head(buffer[i]) < transmitTimestamp[i]
                            /\ transmitTimestamp[i] <= clock
                      /\ SuccessTriggered(i) => DelayTime(i) > AwaitTime(i)
                      /\ transmitTimestamp[i] # 0 <=> isBusy[i] \/ retranNum[i] > 0
    BY DEF TimestampsOrdered
  <2>1. /\ TypeOK /\ Await(i) /\ Contend(i)
        /\ buffer[i] \in Seq(Nat) /\ clock \in Nat /\ transmitTimestamp[i] \in Nat
    BY AwaitTypes DEF IInv, AccessInv, PairInv, AwaitInv, ContendInv
  <2>2. isBusy[i] \/ retranNum[i] > 0 => buffer[i] # <<>>
    BY <2>1 DEF Contend
  <2>3. ASSUME SuccessTriggered(i) PROVE DelayTime(i) > AwaitTime(i)
    <3> DEFINE head == Head(buffer[i])
               started == transmitTimestamp[i]
    <3>1. started + AckMsgTime < clock /\ head \in Nat /\ started \in Nat
      BY <2>1, <2>2, <2>3 DEF SuccessTriggered, Await
    <3>2. DelayTime(i) = clock - head - AckMsgTime /\ AwaitTime(i) = started - head
      BY DEF DelayTime, AwaitTime
    <3> HIDE DEF head, started
    <3>3. clock \in Nat
      BY <2>1
    <3>4. clock - head - AckMsgTime > started - head
      BY <3>1, <3>3
    <3> QED
      BY <3>2, <3>4
  <2> QED
    BY <2>1, <2>2, <2>3 DEF Await
<1> QED
  BY <1>1, InvariantHolds, PTL

-----------------------------------------------------------------------------
(* The packets of a pair: arrivals, acceptances, failures and departures,  *)
(* with what the statistics count of each.                                 *)

Arrival(i) ==
    /\ Delivery!Arrive(i)
    /\ generated' = Put(generated, i, generated[i] + 1)
    /\ UNCHANGED <<received, lost>>

Acceptance(i) ==
    /\ Delivery!Accept(i)
    /\ clock > InitialPhaseTime => received' = Put(received, i, received[i] + 1)
    /\ clock > 0
    /\ UNCHANGED <<lost, generated>>

Failure(i) ==
    /\ Delivery!Fail(i)
    /\ UNCHANGED <<received, lost, generated>>

Completion(i) ==
    /\ Delivery!Complete(i)
    /\ UNCHANGED <<received, lost, generated>>

GivingUp(i) ==
    /\ Delivery!GiveUp(i)
    /\ clock > InitialPhaseTime => lost' = Put(lost, i, lost[i] + 1)
    /\ clock > 0
    /\ UNCHANGED <<received, generated>>

deliveryView == <<buffer, headAccepted, retranNum, received, lost, generated>>

(* The flags of the other pairs are not touched by an event of pair i.     *)
LEMMA AcceptedFrame ==
  ASSUME NetworkTypeOK, NEW st \in Stages, NEW i \in Pair, PairEvent(st, i),
         NEW ok \in BOOLEAN, (Acking(i)' \/ wasTranOk'[i]) <=> ok
  PROVE  headAccepted' = [headAccepted EXCEPT ![i] = ok]
<1>1. \A j \in Pair : j # i => (Acking(j)' \/ wasTranOk'[j] <=> Acking(j) \/ wasTranOk[j])
  BY OtherPairs DEF PairView
<1>2. wasTranOk \in [Pair -> BOOLEAN]
  BY DEF NetworkTypeOK, TransmitterTypeOK
<1>3. \A j \in Pair : headAccepted'[j] = [headAccepted EXCEPT ![i] = ok][j]
  BY <1>1 DEF headAccepted
<1> QED
  BY <1>3 DEF headAccepted

(* An event that is neither the start of an ACK nor an outcome.            *)
LEMMA AcceptedKept ==
  ASSUME NetworkTypeOK, NEW st \in Stages, NEW i \in Pair, PairEvent(st, i),
         Acking(i)' \/ wasTranOk'[i] <=> Acking(i) \/ wasTranOk[i]
  PROVE  headAccepted' = headAccepted
<1>1. \A j \in Pair : (Acking(j)' \/ wasTranOk'[j] <=> Acking(j) \/ wasTranOk[j])
  BY OtherPairs DEF PairView
<1> QED
  BY <1>1 DEF headAccepted

(* What the events of a pair do to its packets.                            *)
LEMMA EventDelivers ==
  ASSUME IInv, NEW st \in Stages, NEW i \in Pair, PairEvent(st, i), Turn(st, i)
  PROVE  \/ UNCHANGED deliveryView
         \/ Arrival(i) \/ Acceptance(i) \/ Failure(i) \/ Completion(i) \/ GivingUp(i)
<1>1. /\ TypeOK /\ NetworkTypeOK /\ LinkInv /\ ContendInv /\ SenseInv /\ AirInv
      /\ Link(i) /\ Contend(i) /\ Await(i) /\ ClockInv
  BY DEF IInv, AccessInv, PairInv, CarrierInv, TypeOK, AwaitInv, LinkInv, ContendInv
<1>2. /\ buffer[i] \in Seq(Nat) /\ retranNum[i] \in Nat /\ clock \in Nat
      /\ transmitTimestamp[i] \in Nat
      /\ endAckTime[i] \in Nat \union {-1} /\ endPacketTime[i] \in Nat \union {-1}
      /\ endListeningTime[i] \in Nat \union {-1}
  BY <1>1, AwaitTypes
<1>3. /\ wasTranOk \in [Pair -> BOOLEAN] /\ retranNum \in [Pair -> Nat]
      /\ buffer \in [Pair -> Seq(Nat)]
  BY <1>1 DEF NetworkTypeOK, TransmitterTypeOK
<1>4. headAccepted[i] <=> Acking(i) \/ wasTranOk[i]
  BY DEF headAccepted
<1>5. CASE GeneratePacket(i)
  <2>1. /\ buffer' = [buffer EXCEPT ![i] = Append(@, clock)]
        /\ generated' = Put(generated, i, generated[i] + 1)
        /\ UNCHANGED <<retranNum, received, lost, wasTranOk, transmissions>>
    BY <1>5 DEF GeneratePacket, Put, statVars, channelVars
  <2>2. clock \in 0 .. TargetSimTime
    BY <1>1, <1>2 DEF Turn, ClockInv
  <2>3. Acking(i)' \/ wasTranOk'[i] <=> Acking(i) \/ wasTranOk[i]
    BY <2>1 DEF Acking, AckTo
  <2>4. headAccepted' = headAccepted
    BY <1>1, <2>3, AcceptedKept
  <2>5. Delivery!Arrive(i)
    BY <2>1, <2>2, <2>4 DEF Delivery!Arrive
  <2> QED
    BY <2>1, <2>5 DEF Arrival
<1>6. CASE EndPacketTransmission(i)
  <2>1. PacketOf(i) # AckTo(i)
    BY DEF PacketOf, AckTo
  <2>2. /\ UNCHANGED <<buffer, retranNum, received, lost, generated, wasTranOk>>
        /\ Acking(i)' <=> Acking(i)
    BY <1>6, <2>1 DEF EndPacketTransmission, txVars, statVars, Acking, AckTo
  <2>3. headAccepted' = headAccepted
    BY <1>1, <2>2, AcceptedKept
  <2> QED
    BY <2>2, <2>3 DEF deliveryView
<1>7. CASE EndAckTransmission(i)
  <2>1. Acking(i)
    BY <1>2, <1>1, <1>7 DEF EndAckTransmission, Link, Inactive
  <2>2. /\ UNCHANGED <<buffer, retranNum, received, lost, generated>>
        /\ wasTranOk'[i]
    BY <1>3, <1>7 DEF EndAckTransmission, Put, statVars
  <2>3. headAccepted' = headAccepted
    BY <1>1, <2>1, <2>2, AcceptedKept
  <2> QED
    BY <2>2, <2>3 DEF deliveryView
<1>8. CASE EndAckListening(i)
  <2>1. ~Acking(i) /\ ~wasTranOk[i]
    <3>1. endListeningTime[i] = 0
      BY <1>8 DEF EndAckListening
    <3>2. Acking(i) => endListeningTime[i] = endAckTime[i] + 1 /\ endAckTime[i] # -1
      BY <1>1 DEF Link, Inactive
    <3>3. wasTranOk[i] => endListeningTime[i] = 1
      BY <1>1 DEF Link
    <3> QED
      BY <1>1, <1>2, <3>1, <3>2, <3>3
  <2>2. isBusy[i] /\ ~isListeningFinished[i]
    BY <1>1, <1>8 DEF EndAckListening, Link, Inactive
  <2>3. buffer[i] # <<>> /\ retranNum[i] < MaxRetranCount
    BY <1>1, <1>2, <2>2 DEF Link, Contend
  <2>4. /\ UNCHANGED <<buffer, received, lost, generated, wasTranOk, transmissions>>
        /\ retranNum' = [retranNum EXCEPT ![i] = retranNum[i] + 1]
    BY <1>8 DEF EndAckListening, Put, statVars, channelVars
  <2>5. Acking(i)' \/ wasTranOk'[i] <=> Acking(i) \/ wasTranOk[i]
    BY <2>4 DEF Acking, AckTo
  <2>6. headAccepted' = headAccepted
    BY <1>1, <2>5, AcceptedKept
  <2>7. Delivery!Fail(i)
    BY <1>4, <2>1, <2>3, <2>4, <2>6 DEF Delivery!Fail
  <2> QED
    BY <2>4, <2>7 DEF Failure
<1>9. CASE SuccessfulPacketTransmission(i)
  <2>1. wasTranOk[i] /\ buffer[i] # <<>>
    BY <1>1, <1>9, HeadExists DEF SuccessfulPacketTransmission, SuccessTriggered
  <2>2. ~Acking(i)
    BY <1>1, <2>1, OutcomeFacts
  <2>3. /\ buffer' = [buffer EXCEPT ![i] = Tail(@)] /\ ~wasTranOk'[i]
        /\ retranNum' = [retranNum EXCEPT ![i] = 0]
        /\ UNCHANGED <<transmissions, received, lost, generated>>
    BY <1>3, <1>9 DEF SuccessfulPacketTransmission, FinishPacket, Put, channelVars
  <2>4. ~Acking(i)'
    BY <2>2, <2>3 DEF Acking, AckTo
  <2>5. headAccepted' = [headAccepted EXCEPT ![i] = FALSE]
    BY <1>1, <2>3, <2>4, AcceptedFrame
  <2>6. Delivery!Complete(i)
    BY <1>4, <2>1, <2>3, <2>5 DEF Delivery!Complete, Delivery!Leave
  <2> QED
    BY <2>3, <2>6 DEF Completion
<1>10. CASE RemoveLostPacket(i)
  <2>1. /\ isListeningFinished[i] /\ ~wasTranOk[i] /\ retranNum[i] >= MaxRetranCount
        /\ buffer[i] # <<>>
    BY <1>1, <1>10, HeadExists DEF RemoveLostPacket, LostTriggered
  <2>2. ~Acking(i) /\ retranNum[i] = MaxRetranCount
    BY <1>1, <1>2, <2>1, OutcomeFacts DEF Link
  <2>3. /\ buffer' = [buffer EXCEPT ![i] = Tail(@)] /\ ~wasTranOk'[i]
        /\ retranNum' = [retranNum EXCEPT ![i] = 0]
        /\ UNCHANGED <<transmissions, received, generated>>
        /\ clock > InitialPhaseTime => lost' = Put(lost, i, lost[i] + 1)
    BY <1>3, <1>10 DEF RemoveLostPacket, FinishPacket, Put, channelVars,
       IsInitialPhaseOver
  <2>4. ~Acking(i)'
    BY <2>2, <2>3 DEF Acking, AckTo
  <2>5. headAccepted' = [headAccepted EXCEPT ![i] = FALSE]
    BY <1>1, <2>3, <2>4, AcceptedFrame
  <2>6. Delivery!GiveUp(i)
    BY <1>4, <2>1, <2>2, <2>3, <2>5 DEF Delivery!GiveUp, Delivery!Leave
  <2>7. clock > 0
    <3>1. transmitTimestamp[i] # 0 /\ transmitTimestamp[i] <= clock
      BY <1>1, <2>1 DEF Await
    <3> QED
      BY <1>2, <3>1
  <2> QED
    BY <2>3, <2>6, <2>7 DEF GivingUp
<1>11. CASE TransmitAck(i)
  <2>1. TransmitAckTriggered(i) /\ ~Acking(i) /\ ~wasTranOk[i]
    BY <1>1, <1>11 DEF TransmitAck, Link
  <2>2. isBusy[i] /\ buffer[i] # <<>>
    BY <1>1, <2>1, IdleFacts DEF Contend
  <2>3. /\ UNCHANGED <<buffer, retranNum, lost, generated>> /\ Acking(i)'
        /\ clock > InitialPhaseTime => received' = Put(received, i, received[i] + 1)
    BY <1>11 DEF TransmitAck, txVars, IsInitialPhaseOver, Acking, AckTo
  <2>4. headAccepted' = [headAccepted EXCEPT ![i] = TRUE]
    BY <1>1, <2>3, AcceptedFrame
  <2>5. Delivery!Accept(i)
    BY <1>4, <2>1, <2>2, <2>3, <2>4 DEF Delivery!Accept
  <2>6. clock > 0
    BY <1>1, <1>2, <2>1 DEF Await
  <2> QED
    BY <2>3, <2>5, <2>6 DEF Acceptance
<1>12. CASE \/ EndTxSleep(i) \/ ScheduleRetransmission(i)
            \/ StartChannelObserving(i) \/ ProbeChannelState(i)
            \/ MarkEmptyChannelState(i) \/ ResetTXDownCounter(i)
            \/ ReduceTXDownCounter(i)
  <2>1. UNCHANGED <<buffer, retranNum, received, lost, generated, wasTranOk, transmissions>>
    <3>1. CASE EndTxSleep(i) \/ ScheduleRetransmission(i) \/ StartChannelObserving(i)
      BY <3>1 DEF EndTxSleep, ScheduleRetransmission, StartChannelObserving, statVars,
         channelVars
    <3>2. CASE ProbeChannelState(i) \/ MarkEmptyChannelState(i)
      BY <3>2 DEF ProbeChannelState, MarkEmptyChannelState, statVars, channelVars
    <3>3. CASE ResetTXDownCounter(i) \/ ReduceTXDownCounter(i)
      BY <3>3 DEF ResetTXDownCounter, ReduceTXDownCounter, statVars, channelVars
    <3> QED
      BY <1>12, <3>1, <3>2, <3>3
  <2>2. Acking(i)' \/ wasTranOk'[i] <=> Acking(i) \/ wasTranOk[i]
    BY <2>1 DEF Acking, AckTo
  <2>3. headAccepted' = headAccepted
    BY <1>1, <2>2, AcceptedKept
  <2> QED
    BY <2>1, <2>3 DEF deliveryView
<1>13. CASE StartRetransmission(i) \/ StartTransmission(i)
  <2>1. SendPacket(i)
    BY <1>13 DEF StartRetransmission, StartTransmission
  <2>2. PacketOf(i) # AckTo(i)
    BY DEF PacketOf, AckTo
  <2>3. /\ UNCHANGED <<buffer, retranNum, received, lost, generated, wasTranOk>>
        /\ Acking(i)' <=> Acking(i)
    BY <2>1, <2>2 DEF SendPacket, statVars, Acking, AckTo
  <2>4. headAccepted' = headAccepted
    BY <1>1, <2>3, AcceptedKept
  <2> QED
    BY <2>3, <2>4 DEF deliveryView
<1> QED
  BY <1>5, <1>6, <1>7, <1>8, <1>9, <1>10, <1>11, <1>12, <1>13 DEF PairEvent, CalmEvent

Restarted ==
    /\ Delivery!Restart
    /\ received' = [i \in Pair |-> 0]
    /\ lost' = [i \in Pair |-> 0]
    /\ generated' = [i \in Pair |-> 0]

(* Every other step does nothing to the packets, or begins a run.          *)
LEMMA StepDelivers ==
  ASSUME IInv, [Next]_vars
  PROVE  \/ UNCHANGED deliveryView
         \/ \E i \in Pair :
               Arrival(i) \/ Acceptance(i) \/ Failure(i) \/ Completion(i) \/ GivingUp(i)
         \/ Restarted
<1>1. CASE \E st \in Stages, i \in Pair : PairEvent(st, i) /\ Turn(st, i)
  BY <1>1, EventDelivers
<1>2. CASE ResetAndInitialize
  <2>1. NetworkFresh'
    BY <1>2, ResetIsFresh DEF ResetAndInitialize
  <2>2. headAccepted' = [i \in Pair |-> FALSE]
    BY <2>1 DEF NetworkFresh, TransmitterFresh, ChannelFresh, headAccepted, Acking
  <2> QED
    BY <2>1, <2>2 DEF NetworkFresh, TransmitterFresh, StatisticsFresh, Restarted,
       Delivery!Restart, Delivery!Init
<1>3. ASSUME UNCHANGED <<buffer, retranNum, received, lost, generated, wasTranOk,
                         transmissions>>
      PROVE  UNCHANGED deliveryView
  BY <1>3 DEF deliveryView, headAccepted, Acking
<1>4. CASE UpdateChannelState \/ ChannelEmpty \/ ChannelBusy \/ Collision
  BY <1>3, <1>4 DEF UpdateChannelState, ChannelEmpty, ChannelBusy, Collision, txVars,
     statVars
<1>5. CASE Tick \/ NewPass
  BY <1>3, <1>5 DEF Tick, NewPass, networkVars, txVars, statVars, channelVars
<1>6. CASE UNCHANGED vars
  BY <1>3, <1>6 DEF vars, networkVars, txVars, statVars, channelVars
<1> QED
  BY <1>1, <1>2, <1>4, <1>5, <1>6, NextCases DEF PairEvent, Finished, Stages

(* The simulator implements PacketDelivery: each pair delivers its packets *)
(* in order, accepts each at most once, never gives up one that was        *)
(* accepted, and gives up one that was not only after MaxRetranCount       *)
(* failed attempts.                                                        *)
THEOREM SimulatorImplementsDelivery == Spec => DeliverySpec
<1>1. Init => Delivery!Init
  BY DEF Init, NetworkFresh, TransmitterFresh, ChannelFresh, Delivery!Init, headAccepted,
     Acking
<1>2. IInv /\ [Next]_vars => [Delivery!Next]_(Delivery!deliveryVars)
  BY StepDelivers DEF deliveryView, Delivery!deliveryVars, Delivery!Next, Arrival,
     Acceptance, Failure, Completion, GivingUp, Restarted
<1> QED
  BY <1>1, <1>2, InvariantHolds, PTL DEF Spec, DeliverySpec, Delivery!Spec

-----------------------------------------------------------------------------
(* The packets counted.                                                    *)

(* What PacketsAreConserved says of one pair.                              *)
Conserved(i) ==
    received[i] + lost[i] + Len(buffer[i]) =
        generated[i] + IF headAccepted[i] /\ buffer[i] # <<>> THEN 1 ELSE 0

LEMMA AppendLength ==
  ASSUME NEW s \in Seq(Nat), NEW e \in Nat
  PROVE  Len(Append(s, e)) = Len(s) + 1 /\ Append(s, e) # <<>>
OBVIOUS

LEMMA TailLength ==
  ASSUME NEW s \in Seq(Nat), s # <<>>
  PROVE  Len(Tail(s)) = Len(s) - 1
OBVIOUS

(* A packet is counted twice between the start of its ACK and its departure. *)
One(i) == IF headAccepted[i] /\ buffer[i] # <<>> THEN 1 ELSE 0

LEMMA ConservedStep ==
  ASSUME IInv, [Next]_vars, InitialPhaseTime = 0, NEW j \in Pair, Conserved(j)
  PROVE  Conserved(j)'
<1>1. /\ buffer \in [Pair -> Seq(Nat)] /\ received \in [Pair -> Nat]
      /\ lost \in [Pair -> Nat] /\ generated \in [Pair -> Nat]
      /\ headAccepted \in [Pair -> BOOLEAN]
  BY DEF IInv, AccessInv, PairInv, TypeOK, NetworkTypeOK, TransmitterTypeOK,
     StatisticsTypeOK, headAccepted, Acking
<1>2. buffer[j] \in Seq(Nat)
  BY <1>1
<1>3. /\ received[j] \in Nat /\ lost[j] \in Nat /\ generated[j] \in Nat
      /\ Len(buffer[j]) \in Nat /\ One(j) \in Nat
  BY <1>1, <1>2 DEF One
<1>4. headAccepted[j] => buffer[j] # <<>>
  <2>1. ASSUME Acking(j) \/ wasTranOk[j] PROVE buffer[j] # <<>>
    BY <2>1, IdleFacts DEF IInv, AccessInv, PairInv, ContendInv, Contend
  <2> QED
    BY <2>1 DEF headAccepted
<1>5. received[j] + lost[j] + Len(buffer[j]) = generated[j] + One(j)
  BY DEF Conserved, One
<1>6. SUFFICES received'[j] + lost'[j] + Len(buffer'[j]) = generated'[j] + One(j)'
  BY DEF Conserved, One
<1>7. /\ received[j] + lost[j] + (Len(buffer[j]) + 1) = (generated[j] + 1) + One(j)
      /\ (received[j] + 1) + lost[j] + Len(buffer[j]) = generated[j] + (One(j) + 1)
      /\ received[j] + lost[j] + (Len(buffer[j]) - 1) = generated[j] + (One(j) - 1)
      /\ received[j] + (lost[j] + 1) + (Len(buffer[j]) - 1) = generated[j] + One(j)
  <2> DEFINE r == received[j]
             l == lost[j]
             n == Len(buffer[j])
             g == generated[j]
             one == One(j)
  <2>1. r \in Nat /\ l \in Nat /\ n \in Nat /\ g \in Nat /\ one \in Nat
    BY <1>3
  <2>2. r + l + n = g + one
    BY <1>5
  <2> HIDE DEF r, l, n, g, one
  <2>3. /\ r + l + (n + 1) = (g + 1) + one
        /\ (r + 1) + l + n = g + (one + 1)
        /\ r + l + (n - 1) = g + (one - 1)
        /\ r + (l + 1) + (n - 1) = g + one
    BY <2>1, <2>2
  <2> QED
    BY <2>3 DEF r, l, n, g, one
<1>8. CASE UNCHANGED deliveryView
  BY <1>5, <1>8 DEF deliveryView, One
<1>9. ASSUME NEW i \in Pair, Arrival(i)
      PROVE  received'[j] + lost'[j] + Len(buffer'[j]) = generated'[j] + One(j)'
  <2>1. UNCHANGED <<received, lost, headAccepted>>
    BY <1>9 DEF Arrival, Delivery!Arrive
  <2>2. PICK packet \in 0 .. TargetSimTime :
           buffer' = [buffer EXCEPT ![i] = Append(@, packet)]
    BY <1>9 DEF Arrival, Delivery!Arrive
  <2>3. CASE j # i
    BY <1>1, <1>5, <1>9, <2>1, <2>2, <2>3 DEF Arrival, Put, One
  <2>4. CASE j = i
    <3>1. buffer'[j] = Append(buffer[j], packet) /\ generated'[j] = generated[j] + 1
      BY <1>1, <1>9, <2>2, <2>4 DEF Arrival, Put
    <3>2. Len(buffer'[j]) = Len(buffer[j]) + 1 /\ buffer'[j] # <<>>
      BY <1>2, <3>1, AppendLength
    <3>3. One(j)' = One(j)
      BY <1>4, <2>1, <3>2 DEF One
    <3> QED
      BY <1>7, <2>1, <3>1, <3>2, <3>3
  <2> QED
    BY <2>3, <2>4
<1>10. ASSUME NEW i \in Pair, Acceptance(i)
       PROVE  received'[j] + lost'[j] + Len(buffer'[j]) = generated'[j] + One(j)'
  <2>1. /\ UNCHANGED <<buffer, lost, generated>>
        /\ received' = Put(received, i, received[i] + 1)
        /\ buffer[i] # <<>> /\ ~headAccepted[i]
        /\ headAccepted' = [headAccepted EXCEPT ![i] = TRUE]
    BY <1>10 DEF Acceptance, Delivery!Accept
  <2>2. CASE j # i
    BY <1>1, <1>5, <2>1, <2>2 DEF Put, One
  <2>3. CASE j = i
    <3>1. received'[j] = received[j] + 1 /\ headAccepted'[j]
      BY <1>1, <2>1, <2>3 DEF Put
    <3>2. One(j) = 0 /\ One(j)' = 1
      BY <2>1, <2>3, <3>1 DEF One
    <3> QED
      BY <1>7, <2>1, <3>1, <3>2
  <2> QED
    BY <2>2, <2>3
<1>11. ASSUME NEW i \in Pair, Failure(i)
       PROVE  received'[j] + lost'[j] + Len(buffer'[j]) = generated'[j] + One(j)'
  BY <1>5, <1>11 DEF Failure, Delivery!Fail, One
<1>12. ASSUME NEW i \in Pair, Completion(i) \/ GivingUp(i)
       PROVE  received'[j] + lost'[j] + Len(buffer'[j]) = generated'[j] + One(j)'
  <2>1. /\ buffer[i] # <<>> /\ UNCHANGED <<received, generated>>
        /\ buffer' = [buffer EXCEPT ![i] = Tail(@)]
        /\ headAccepted' = [headAccepted EXCEPT ![i] = FALSE]
    BY <1>12 DEF Completion, GivingUp, Delivery!Complete, Delivery!GiveUp, Delivery!Leave
  <2>2. lost' = IF headAccepted[i] THEN lost ELSE Put(lost, i, lost[i] + 1)
    BY <1>12 DEF Completion, GivingUp, Delivery!Complete, Delivery!GiveUp
  <2>3. CASE j # i
    BY <1>1, <1>5, <2>1, <2>2, <2>3 DEF Put, One
  <2>4. CASE j = i
    <3>1. buffer'[j] = Tail(buffer[j]) /\ ~headAccepted'[j] /\ buffer[j] # <<>>
      BY <1>1, <2>1, <2>4
    <3>2. Len(buffer'[j]) = Len(buffer[j]) - 1
      BY <1>2, <3>1, TailLength
    <3>3. One(j)' = 0
      BY <3>1 DEF One
    <3>4. CASE headAccepted[j]
      <4>1. One(j) = 1 /\ lost'[j] = lost[j]
        BY <2>2, <2>4, <3>1, <3>4 DEF One
      <4> QED
        BY <1>7, <2>1, <3>2, <3>3, <4>1
    <3>5. CASE ~headAccepted[j]
      <4>1. One(j) = 0 /\ lost'[j] = lost[j] + 1
        BY <1>1, <2>2, <2>4, <3>5 DEF One, Put
      <4> QED
        BY <1>7, <2>1, <3>2, <3>3, <4>1
    <3> QED
      BY <3>4, <3>5
  <2> QED
    BY <2>3, <2>4
<1>13. CASE Restarted
  <2>1. /\ received'[j] = 0 /\ lost'[j] = 0 /\ generated'[j] = 0 /\ buffer'[j] = <<>>
    BY <1>13 DEF Restarted, Delivery!Restart, Delivery!Init
  <2> QED
    BY <2>1 DEF One
<1> QED
  BY <1>8, <1>9, <1>10, <1>11, <1>12, <1>13, StepDelivers

(* With statistics from the beginning every packet generated is received,  *)
(* lost or still in a buffer, in every state of every scan: the events     *)
(* count each packet once.                                                 *)
THEOREM NoPacketIsMiscounted == Spec => []PacketsAreConserved
<1>1. Init => PacketsAreConserved
  BY DEF Init, NetworkFresh, TransmitterFresh, StatisticsFresh, PacketsAreConserved
<1>2. IInv /\ PacketsAreConserved /\ [Next]_vars => PacketsAreConserved'
  BY ConservedStep DEF PacketsAreConserved, Conserved
<1> QED
  BY <1>1, <1>2, InvariantHolds, PTL DEF Spec

-----------------------------------------------------------------------------
(* A step is recorded, or it begins a run and the record with it.          *)
LEMMA HistoryCases ==
  ASSUME TypeOK, HistoryNext
  PROVE  \/ ResetAndInitialize /\ HistoryReset
         \/ Next /\ ~ResetAndInitialize /\ run' = run /\ HistoryStep
<1>1. run \in Nat
  BY DEF TypeOK, ScanTypeOK
<1>2. CASE ResetAndInitialize
  BY <1>1, <1>2 DEF HistoryNext, ResetAndInitialize
<1>3. CASE ~ResetAndInitialize
  <2>1. run' = run
    BY <1>3 DEF HistoryNext, Next, Scan, Turn, NewPass, Tick, Finished, vars
  <2> QED
    BY <1>3, <2>1 DEF HistoryNext
<1> QED
  BY <1>2, <1>3

(* A behaviour that is watched is a behaviour of the simulator.            *)
LEMMA HistoryIsWatched == HistorySpec => Spec
<1>1. [HistoryNext]_<<vars, historyVars>> => [Next]_vars
  BY DEF HistoryNext
<1> QED
  BY <1>1, PTL DEF HistorySpec, Spec

(* Only the start of a transmission puts a packet on the channel.          *)
LEMMA NothingStarts ==
  ASSUME NEW j \in Pair, Sending(j)' => Sending(j)
  PROVE  ~Starts(j)
BY DEF Starts

-----------------------------------------------------------------------------
(* Attempts.                                                               *)

Attempts(i) ==
    /\ attempts[i] = retranNum[i] + (IF isBusy[i] /\ ~isListeningFinished[i]
                                       THEN 1 ELSE 0)
    /\ attempts[i] <= MaxRetranCount

LEMMA AttemptsFrame ==
  ASSUME NEW j \in Pair, Attempts(j), HistoryStep, buffer[j] \in Seq(Nat),
         UNCHANGED <<buffer[j], retranNum[j], isBusy[j], isListeningFinished[j]>>,
         Sending(j)' => Sending(j)
  PROVE  Attempts(j)'
<1>1. ~HeadLeaves(j) /\ ~Starts(j)
  BY DEF HeadLeaves, Starts
<1>2. attempts'[j] = attempts[j]
  BY <1>1 DEF HistoryStep
<1> QED
  BY <1>2 DEF Attempts

(* An event of a pair.                                                     *)
LEMMA AttemptsEvent ==
  ASSUME IInv, IInv', HistoryStep, NEW st \in Stages, NEW j \in Pair,
         PairEvent(st, j), Attempts(j)
  PROVE  Attempts(j)'
<1>1. /\ TypeOK /\ LinkInv /\ ContendInv /\ Link(j) /\ TypeOK' /\ LinkInv'
      /\ buffer[j] \in Seq(Nat) /\ retranNum[j] \in Nat /\ Len(buffer[j]) \in Nat
  BY AwaitTypes DEF IInv, AccessInv, PairInv, LinkInv
<1>2. /\ buffer \in [Pair -> Seq(Nat)] /\ retranNum \in [Pair -> Nat]
      /\ isBusy \in [Pair -> BOOLEAN] /\ isListeningFinished \in [Pair -> BOOLEAN]
  BY <1>1 DEF TypeOK, NetworkTypeOK, TransmitterTypeOK
<1>3. SUFFICES attempts'[j] = retranNum'[j] +
                   (IF isBusy'[j] /\ ~isListeningFinished'[j] THEN 1 ELSE 0)
  <2>1. /\ retranNum'[j] \in Nat /\ retranNum'[j] <= MaxRetranCount
        /\ retranNum'[j] = MaxRetranCount => isListeningFinished'[j]
    BY <1>1 DEF TypeOK, NetworkTypeOK, TransmitterTypeOK, LinkInv, Link
  <2> QED
    BY <2>1 DEF Attempts
<1>4. attempts'[j] = IF HeadLeaves(j) THEN 0
                     ELSE IF Starts(j) THEN attempts[j] + 1 ELSE attempts[j]
  BY DEF HistoryStep
<1>5. attempts[j] = retranNum[j] + (IF isBusy[j] /\ ~isListeningFinished[j] THEN 1 ELSE 0)
  BY DEF Attempts
<1>6. CASE GeneratePacket(j)
  <2>1. /\ UNCHANGED <<retranNum, isBusy, isListeningFinished, transmissions>>
        /\ buffer'[j] = Append(buffer[j], clock)
    BY <1>2, <1>6 DEF GeneratePacket, channelVars, Put
  <2>2. ~HeadLeaves(j) /\ ~Starts(j)
    <3>1. Len(buffer'[j]) = Len(buffer[j]) + 1
      BY <1>1, <2>1, AppendLength, AwaitTypes
    <3> QED
      BY <1>1, <2>1, <3>1 DEF HeadLeaves, Starts, Sending, PacketOf
  <2> QED
    BY <1>4, <1>5, <2>1, <2>2
<1>7. CASE EndAckListening(j)
  <2>1. /\ UNCHANGED <<buffer, isBusy, transmissions>> /\ isListeningFinished'[j]
        /\ retranNum'[j] = retranNum[j] + 1
    BY <1>2, <1>7 DEF EndAckListening, Put, channelVars
  <2>2. isBusy[j] /\ ~isListeningFinished[j]
    BY <1>1, <1>7 DEF EndAckListening, Link, Inactive
  <2>3. ~HeadLeaves(j) /\ ~Starts(j)
    BY <1>1, <2>1 DEF HeadLeaves, Starts, Sending, PacketOf
  <2> QED
    BY <1>1, <1>4, <1>5, <2>1, <2>2, <2>3
<1>8. CASE SuccessfulPacketTransmission(j) \/ RemoveLostPacket(j)
  <2>1. FinishPacket(j) /\ (SuccessTriggered(j) \/ isListeningFinished[j])
    BY <1>8 DEF SuccessfulPacketTransmission, RemoveLostPacket, LostTriggered
  <2>2. buffer'[j] = Tail(buffer[j]) /\ retranNum'[j] = 0 /\ ~isBusy'[j]
    BY <1>2, <2>1 DEF FinishPacket, Put
  <2>3. Len(buffer'[j]) = Len(buffer[j]) - 1
    BY <1>1, <2>1, <2>2, HeadExists, TailLength
  <2>4. HeadLeaves(j)
    BY <1>1, <2>3 DEF HeadLeaves
  <2> QED
    BY <1>4, <2>2, <2>4
<1>9. CASE ScheduleRetransmission(j)
  <2>1. /\ UNCHANGED <<buffer, retranNum, transmissions>> /\ ~isBusy'[j]
        /\ isListeningFinished[j]
    BY <1>2, <1>9 DEF ScheduleRetransmission, RetransmissionTriggered, Put, channelVars
  <2>2. ~HeadLeaves(j) /\ ~Starts(j)
    BY <1>1, <2>1 DEF HeadLeaves, Starts, Sending, PacketOf
  <2> QED
    BY <1>4, <1>5, <2>1, <2>2
<1>10. CASE StartRetransmission(j) \/ StartTransmission(j)
  <2>1. SendPacket(j) /\ ~isBusy[j]
    BY <1>10 DEF StartRetransmission, StartTransmission, StartRetransmissionTriggered,
       StartTransmissionTriggered
  <2>2. ~Sending(j) /\ ~isListeningFinished[j]
    BY <1>1, <2>1, IdleFacts DEF Link
  <2>3. /\ UNCHANGED <<buffer, retranNum, isListeningFinished>> /\ isBusy'[j]
        /\ Sending(j)'
    BY <1>2, <2>1 DEF SendPacket, Put, Sending, PacketOf
  <2>4. ~HeadLeaves(j) /\ Starts(j)
    BY <1>1, <2>2, <2>3 DEF HeadLeaves, Starts
  <2> QED
    BY <1>1, <1>4, <1>5, <2>1, <2>2, <2>3, <2>4
<1>11. CASE \/ EndPacketTransmission(j) \/ EndAckTransmission(j) \/ TransmitAck(j)
            \/ EndTxSleep(j) \/ StartChannelObserving(j) \/ ProbeChannelState(j)
            \/ MarkEmptyChannelState(j) \/ ResetTXDownCounter(j)
            \/ ReduceTXDownCounter(j)
  <2>1. /\ UNCHANGED <<buffer, retranNum, isBusy, isListeningFinished>>
        /\ Sending(j)' => Sending(j)
    <3>1. CASE EndPacketTransmission(j) \/ EndAckTransmission(j)
      BY <3>1 DEF EndPacketTransmission, EndAckTransmission, txVars, Sending, PacketOf
    <3>2. CASE TransmitAck(j)
      BY <3>2 DEF TransmitAck, txVars, Sending, PacketOf, AckTo
    <3>3. CASE EndTxSleep(j) \/ StartChannelObserving(j) \/ ProbeChannelState(j)
      BY <3>3 DEF EndTxSleep, StartChannelObserving, ProbeChannelState, channelVars,
         Sending, PacketOf
    <3>4. CASE \/ MarkEmptyChannelState(j) \/ ResetTXDownCounter(j)
               \/ ReduceTXDownCounter(j)
      BY <3>4 DEF MarkEmptyChannelState, ResetTXDownCounter, ReduceTXDownCounter,
         channelVars, Sending, PacketOf
    <3> QED
      BY <1>11, <3>1, <3>2, <3>3, <3>4
  <2>2. ~HeadLeaves(j) /\ ~Starts(j)
    BY <1>1, <2>1 DEF HeadLeaves, Starts
  <2> QED
    BY <1>4, <1>5, <2>1, <2>2
<1> QED
  BY <1>6, <1>7, <1>8, <1>9, <1>10, <1>11 DEF PairEvent, CalmEvent

(* The steps that are not events of a pair leave the transmitters and what *)
(* is on the channel alone.                                                *)
LEMMA ChannelStepFrame ==
  ASSUME \/ UpdateChannelState \/ ChannelEmpty \/ ChannelBusy \/ Collision
         \/ NewPass \/ Tick \/ Finished
  PROVE  UNCHANGED <<txVars, rxVars, transmissions>>
<1>1. CASE UpdateChannelState \/ ChannelEmpty \/ ChannelBusy \/ Collision \/ Tick
  BY <1>1 DEF UpdateChannelState, ChannelEmpty, ChannelBusy, Collision, Tick, channelVars
<1>2. CASE NewPass \/ Finished
  BY <1>2 DEF NewPass, Finished, vars, networkVars, channelVars
<1> QED
  BY <1>1, <1>2

LEMMA AttemptsStep ==
  ASSUME IInv, IInv', AttemptsCounted, HistoryNext
  PROVE  AttemptsCounted'
<1> SUFFICES ASSUME NEW j \in Pair PROVE Attempts(j)'
  BY DEF AttemptsCounted, Attempts
<1>1. TypeOK /\ NetworkTypeOK /\ Attempts(j) /\ buffer[j] \in Seq(Nat)
  BY AwaitTypes DEF IInv, AccessInv, PairInv, TypeOK, AttemptsCounted, Attempts
<1>2. CASE ResetAndInitialize /\ HistoryReset
  <2>1. attempts'[j] = 0 /\ retranNum'[j] = 0 /\ ~isBusy'[j]
    BY <1>2 DEF HistoryReset, ResetAndInitialize, NetworkReset, TransmitterReset
  <2> QED
    BY <2>1 DEF Attempts
<1>3. ASSUME HistoryStep, NEW st \in Stages, NEW i \in Pair, PairEvent(st, i)
      PROVE  Attempts(j)'
  <2>1. CASE j = i
    BY <1>1, <1>3, <2>1, AttemptsEvent
  <2>2. CASE j # i
    BY <1>1, <1>3, <2>2, OtherPairs, AttemptsFrame DEF PairView
  <2> QED
    BY <2>1, <2>2
<1>4. ASSUME HistoryStep,
             \/ UpdateChannelState \/ ChannelEmpty \/ ChannelBusy \/ Collision
             \/ NewPass \/ Tick \/ Finished
      PROVE  Attempts(j)'
  <2>1. UNCHANGED <<txVars, rxVars, transmissions>>
    BY <1>4, ChannelStepFrame
  <2> QED
    BY <1>1, <1>4, <2>1, AttemptsFrame DEF txVars, Sending, PacketOf
<1>5. CASE Next /\ ~ResetAndInitialize /\ HistoryStep
  BY <1>3, <1>4, <1>5, NextCases DEF PairEvent, Stages
<1> QED
  BY <1>1, <1>2, <1>5, HistoryCases

-----------------------------------------------------------------------------
(* The carrier-sense flag and the last tick.                               *)

SnapshotView == <<transmissions, updateChannelTime, isUpdateEnabled, isChannelBusy, clock>>

LEMMA SnapshotFrame ==
  ASSUME SnapshotInv, idleTicks' = idleTicks, UNCHANGED SnapshotView
  PROVE  SnapshotInv'
BY DEF SnapshotInv, SnapshotView, BusyFlagIsSnapshot, Sensed

(* While the clock stands the record of the idle time stands.              *)
LEMMA TicksStand ==
  ASSUME HistoryStep, UNCHANGED clock
  PROVE  idleTicks' = idleTicks
BY DEF HistoryStep

(* When the clock advances an idle channel adds to it.                     *)
LEMMA TicksAdvance ==
  ASSUME TypeOK, SnapshotInv, HistoryStep, Tick
  PROVE  /\ idleTicks' \in 0 .. IdleBound
         /\ idleTicks' = 0 <=> transmissions # {}
         /\ transmissions = {} => idleTicks' > idleTicks \/ idleTicks' = IdleBound
<1>1. clock' # clock /\ IdleBound \in Nat \ {0} /\ idleTicks \in 0 .. IdleBound
  BY DEF Tick, MinimalTimeStep, TypeOK, ScanTypeOK, IdleBound, SnapshotInv
<1> QED
  BY <1>1 DEF HistoryStep

LEMMA SnapshotStep ==
  ASSUME IInv, SnapshotInv, HistoryNext
  PROVE  SnapshotInv'
<1>1. TypeOK /\ SenseInv /\ clock \in Nat
  BY AwaitTypes DEF IInv, AccessInv, PairInv, CarrierInv, TypeOK, ScanTypeOK
<1>2. CASE ResetAndInitialize /\ HistoryReset
  <2>1. idleTicks' = 0 /\ clock' = 0
    BY <1>2 DEF HistoryReset, ResetAndInitialize
  <2> QED
    BY <2>1 DEF SnapshotInv, BusyFlagIsSnapshot, IdleBound
<1>3. ASSUME HistoryStep, NEW st \in Stages, NEW i \in Pair, PairEvent(st, i), Turn(st, i)
      PROVE  SnapshotInv'
  <2>1. idleTicks' = idleTicks /\ clock' = clock
    BY <1>3, TicksStand DEF Turn
  <2>2. CASE CalmEvent(st, i)
    BY <2>1, <2>2, CalmFrame, SnapshotFrame DEF AirView, SnapshotView
  <2>3. CASE ~CalmEvent(st, i)
    <3>1. /\ st >= 5
          /\ updateChannelTime' = updateChannelTime
          /\ isUpdateEnabled' = isUpdateEnabled
          /\ isChannelBusy' = isChannelBusy
      <4>1. CASE st = 6  /\ EndPacketTransmission(i)
        BY <4>1 DEF EndPacketTransmission
      <4>2. CASE st = 7  /\ EndAckTransmission(i)
        BY <4>2 DEF EndAckTransmission
      <4>3. CASE st = 18 /\ TransmitAck(i)
        BY <4>3 DEF TransmitAck
      <4>4. CASE st = 19 /\ StartRetransmission(i)
        BY <4>4 DEF StartRetransmission, SendPacket
      <4>5. CASE st = 20 /\ StartTransmission(i)
        BY <4>5 DEF StartTransmission, SendPacket
      <4> QED
        BY <1>3, <2>3, <4>1, <4>2, <4>3, <4>4, <4>5 DEF PairEvent
    <3>2. Sensed /\ Sensed'
      BY <1>1, <1>3, <3>1, SenseTurn
    <3> QED
      BY <2>1, <3>1, <3>2 DEF SnapshotInv, BusyFlagIsSnapshot
  <2> QED
    BY <2>2, <2>3
<1>4. ASSUME HistoryStep, UNCHANGED clock, UpdateChannelState
      PROVE  SnapshotInv'
  <2>1. ~Sensed /\ ~Sensed' /\ transmissions' = transmissions
    BY <1>4 DEF UpdateChannelState, Sensed
  <2> QED
    BY <1>4, <2>1, TicksStand DEF SnapshotInv, BusyFlagIsSnapshot
<1>5. ASSUME HistoryStep, UNCHANGED clock, ChannelEmpty \/ ChannelBusy
      PROVE  SnapshotInv'
  <2>1. /\ ~Sensed /\ transmissions' = transmissions
        /\ isChannelBusy' <=> transmissions # {}
        /\ updateChannelTime' = updateChannelTime
    BY <1>5 DEF ChannelEmpty, ChannelBusy, ChannelEmptyTriggered, ChannelBusyTriggered,
       Sensed, timerVars
  <2>2. idleTicks' = idleTicks
    BY <1>5, TicksStand
  <2> QED
    BY <1>5, <2>1, <2>2 DEF SnapshotInv, BusyFlagIsSnapshot
<1>6. ASSUME HistoryStep, UNCHANGED clock, Collision \/ NewPass \/ Finished
      PROVE  SnapshotInv'
  <2>1. UNCHANGED SnapshotView
    BY <1>6 DEF Collision, NewPass, Finished, vars, networkVars, channelVars, timerVars,
       SnapshotView
  <2> QED
    BY <1>6, <2>1, TicksStand, SnapshotFrame
<1>7. ASSUME HistoryStep, Tick
      PROVE  SnapshotInv'
  <2>1. ~Sensed'
    <3>1. updateChannelTime = 1
      BY <1>1, <1>7, QuietFacts DEF Tick, SenseInv
    <3> QED
      BY <1>7, <3>1 DEF Tick, CountDownTimers, MinimalTimeStep, Sensed
  <2>2. transmissions' = transmissions
    BY <1>7 DEF Tick, channelVars
  <2> QED
    BY <1>1, <1>7, <2>1, <2>2, TicksAdvance DEF SnapshotInv, BusyFlagIsSnapshot
<1> QED
  BY <1>1, <1>2, <1>3, <1>4, <1>5, <1>6, <1>7, HistoryCases, NextCases
     DEF PairEvent, Stages, Turn, NewPass, Finished, vars

-----------------------------------------------------------------------------
(* The collision flag and the overlaps of each packet.                     *)

LEMMA OverlappedValue ==
  ASSUME HistoryStep, NEW j \in Pair, ~Starts(j)
  PROVE  j \in overlapped' <=> j \in overlapped \/ (Overlap' /\ Sending(j)')
BY DEF HistoryStep

(* The packet of pair j stays on the channel, and the flag as it is.       *)
LEMMA ReceptionKept ==
  ASSUME HistoryStep, AirInv, NEW j \in Pair, Reception(j),
         Sending(j)' => Sending(j) /\ Elapsed(j)' = Elapsed(j),
         wasTransmitError' = wasTransmitError,
         Overlap' => Overlap,
         Overlap /\ Sending(j)' /\ ~(Elapsed(j) > 0) => Overlap'
  PROVE  Reception(j)'
<1> SUFFICES ASSUME Sending(j)'
             PROVE  IF Elapsed(j)' > 0 THEN wasTransmitError' <=> j \in overlapped'
                    ELSE (j \in overlapped' <=> Overlap') /\ (wasTransmitError' => Overlap')
  BY DEF Reception
<1>1. j \in overlapped' <=> j \in overlapped \/ Overlap'
  BY OverlappedValue, NothingStarts
<1>2. CASE Elapsed(j) > 0
  <2>1. wasTransmitError <=> j \in overlapped
    BY <1>2 DEF Reception
  <2>2. Overlap => wasTransmitError
    <3>1. Elapsed(j) # 0
      BY <1>2
    <3> QED
      BY <3>1 DEF AirInv, OverlapIsRecorded
  <2> QED
    BY <1>1, <1>2, <2>1, <2>2
<1>3. CASE ~(Elapsed(j) > 0)
  BY <1>1, <1>3 DEF Reception
<1> QED
  BY <1>2, <1>3

(* A packet starts beside others that have just started, or alone.         *)
LEMMA ReceptionStart ==
  ASSUME HistoryStep, TypeOK, LinkInv, AirInv, ReceptionInv, NEW i \in Pair,
         SendPacket(i), ~isBusy[i], Sensed, ~isChannelBusy
  PROVE  ReceptionInv'
<1>1. /\ wasTransmitError' = wasTransmitError
      /\ transmissions' = transmissions \union {PacketOf(i)}
  BY DEF SendPacket
<1>2. wasTransmitError => Overlap
  BY DEF ReceptionInv
<1>3. Overlap => Overlap'
  BY <1>1 DEF Overlap
<1>4. ASSUME NEW j \in Pair, Sending(j)'
      PROVE  Elapsed(j)' = 0 /\ (j \in overlapped' <=> Overlap')
  <2>1. CASE j # i
    <3>1. Sending(j) /\ Elapsed(j)' = Elapsed(j)
      BY <1>4, <2>1 DEF SendPacket, Sending, PacketOf, Elapsed, Put, TypeOK,
         NetworkTypeOK, TimersTypeOK, TransmitterTypeOK
    <3>2. Elapsed(j) = 0
      BY <3>1 DEF AirInv, IdleFlagIsCurrent
    <3>3. j \in overlapped <=> Overlap
      BY <3>1, <3>2 DEF ReceptionInv, Reception
    <3> QED
      BY <1>3, <1>4, <3>1, <3>2, <3>3, OverlappedValue, NothingStarts
  <2>2. CASE j = i
    <3>1. PICK time \in TransmissionTimes :
             /\ transmissionTime' = Put(transmissionTime, i, time)
             /\ endPacketTime' = Put(endPacketTime, i, time)
      BY DEF SendPacket
    <3>2. transmissionTime'[i] = time /\ endPacketTime'[i] = time /\ time \in Nat
      BY <3>1 DEF Put, TypeOK, NetworkTypeOK, TimersTypeOK, TransmitterTypeOK
    <3>3. Starts(i)
      BY <1>4, <2>2, IdleFacts DEF Starts
    <3>4. i \in overlapped' <=> Overlap'
      BY <1>4, <2>2, <3>3 DEF HistoryStep
    <3> QED
      BY <2>2, <3>2, <3>4 DEF Elapsed
  <2> QED
    BY <2>1, <2>2
<1>5. ASSUME NEW j \in Pair
      PROVE  Reception(j)'
  BY <1>1, <1>2, <1>3, <1>4 DEF Reception
<1> QED
  BY <1>1, <1>2, <1>3, <1>5 DEF ReceptionInv

(* A packet ends: the others on the channel started with it.               *)
LEMMA ReceptionEnd ==
  ASSUME HistoryStep, TypeOK, LinkInv, AirInv, ReceptionInv, NEW i \in Pair,
         EndPacketTransmission(i), Sensed
  PROVE  ReceptionInv'
<1>1. isChannelBusy /\ Sending(i) /\ Elapsed(i) > 0
  BY BusyFacts DEF EndPacketTransmission
<1>2. /\ isChannelBusy' = isChannelBusy /\ wasTransmitError' = wasTransmitError
      /\ transmissionTime' = transmissionTime
      /\ transmissions' = transmissions \ {PacketOf(i)}
  BY DEF EndPacketTransmission, txVars
<1>3. Overlap' => Overlap
  BY <1>2 DEF Overlap
<1>4. ASSUME NEW j \in Pair
      PROVE  Reception(j)'
  <2>1. Sending(j)' => Sending(j) /\ Elapsed(j)' = Elapsed(j)
    BY <1>2 DEF EndPacketTransmission, Sending, PacketOf, Elapsed, Put, TypeOK,
       NetworkTypeOK, TimersTypeOK
  <2>2. Sending(j) => Elapsed(j) > 0
    BY <1>1 DEF AirInv, OverlapsStartTogether
  <2>3. Reception(j)
    BY DEF ReceptionInv
  <2> QED
    BY <1>2, <1>3, <2>1, <2>2, <2>3, ReceptionKept
<1> QED
  BY <1>1, <1>2, <1>4 DEF ReceptionInv

(* When the clock advances every overlap has been recorded.                *)
LEMMA ReceptionTick ==
  ASSUME HistoryStep, TypeOK, LinkInv, SenseInv, AirInv, ReceptionInv, Tick
  PROVE  ReceptionInv'
<1>1. /\ wasTransmitError' = wasTransmitError /\ transmissions' = transmissions
      /\ Overlap' <=> Overlap
  BY DEF Tick, channelVars, Overlap
<1>2. Overlap => wasTransmitError
  BY QuietFacts DEF Tick, CollisionTriggered
<1>3. ~Sensed'
  <2>1. updateChannelTime = 1
    BY QuietFacts DEF Tick, SenseInv
  <2> QED
    BY <2>1 DEF Tick, CountDownTimers, MinimalTimeStep, Sensed
<1>4. ASSUME NEW j \in Pair, Sending(j)'
      PROVE  /\ Elapsed(j)' > 0
             /\ wasTransmitError' <=> j \in overlapped'
  <2>1. Sending(j) /\ Elapsed(j) \in Nat /\ Elapsed(j)' = Elapsed(j) + 1
    BY <1>4, ElapsedTick, SendingFacts
  <2>2. j \in overlapped' <=> j \in overlapped \/ Overlap
    BY <1>1, <1>4, <2>1, OverlappedValue, NothingStarts
  <2>3. IF Elapsed(j) > 0 THEN wasTransmitError <=> j \in overlapped
        ELSE (j \in overlapped <=> Overlap) /\ (wasTransmitError => Overlap)
    BY <2>1 DEF ReceptionInv, Reception
  <2> QED
    BY <1>1, <1>2, <2>1, <2>2, <2>3
<1> QED
  BY <1>3, <1>4 DEF ReceptionInv, Reception

(* A step that leaves the channel alone, and does not find it idle.        *)
LEMMA ReceptionFrame ==
  ASSUME HistoryStep, AirInv, ReceptionInv,
         UNCHANGED <<transmissions, endPacketTime, transmissionTime, wasTransmitError>>,
         Sensed' /\ ~isChannelBusy' => Sensed /\ ~isChannelBusy
  PROVE  ReceptionInv'
<1>1. Overlap' <=> Overlap
  BY DEF Overlap
<1>2. ASSUME NEW j \in Pair
      PROVE  Reception(j)'
  <2>1. Sending(j)' => Sending(j) /\ Elapsed(j)' = Elapsed(j)
    BY DEF Sending, PacketOf, Elapsed
  <2> QED
    BY <1>1, <2>1, ReceptionKept DEF ReceptionInv
<1> QED
  BY <1>1, <1>2 DEF ReceptionInv

(* A channel without packets.                                              *)
LEMMA ReceptionEmpty ==
  ASSUME \A j \in Pair : ~Sending(j)',
         Sensed' => isChannelBusy' \/ ~wasTransmitError'
  PROVE  ReceptionInv'
BY DEF ReceptionInv, Reception

LEMMA ReceptionStep ==
  ASSUME IInv, ReceptionInv, HistoryNext
  PROVE  ReceptionInv'
<1>1. TypeOK /\ LinkInv /\ SenseInv /\ AirInv /\ ExpiredInv
  BY DEF IInv, AccessInv, PairInv, CarrierInv
<1>2. CASE ResetAndInitialize
  BY <1>2, ReceptionEmpty DEF ResetAndInitialize, NetworkReset, ChannelReset, Sending
<1>3. ASSUME HistoryStep, NEW st \in Stages, NEW i \in Pair, CalmEvent(st, i)
      PROVE  ReceptionInv'
  BY <1>1, <1>3, CalmFrame, ReceptionFrame DEF AirView, Sensed
<1>4. ASSUME HistoryStep, NEW i \in Pair, EndPacketTransmission(i), Turn(6, i)
      PROVE  ReceptionInv'
  <2>1. Sensed
    BY <1>1, <1>4, SenseTurn DEF EndPacketTransmission, Stages
  <2> QED
    BY <1>1, <1>4, <2>1, ReceptionEnd
<1>5. ASSUME HistoryStep, NEW i \in Pair, EndAckTransmission(i), Turn(7, i)
      PROVE  ReceptionInv'
  <2>1. Sensed
    BY <1>1, <1>5, SenseTurn DEF EndAckTransmission, Stages
  <2>2. isChannelBusy /\ Acking(i)
    BY <1>1, <1>5, <2>1, BusyFacts DEF EndAckTransmission
  <2>3. transmissions' = {} /\ isChannelBusy'
    BY <1>1, <1>5, <2>2 DEF AirInv, AckAlone, EndAckTransmission
  <2> QED
    BY <2>3, ReceptionEmpty DEF Sending
<1>6. ASSUME HistoryStep, NEW i \in Pair, TransmitAck(i)
      PROVE  ReceptionInv'
  <2>1. transmissions' = {AckTo(i)} /\ isChannelBusy'
    BY <1>1, <1>6 DEF AirInv, TransmitAck
  <2>2. \A j \in Pair : PacketOf(j) # AckTo(i)
    BY DEF PacketOf, AckTo
  <2>3. \A j \in Pair : ~Sending(j)'
    BY <2>1, <2>2 DEF Sending, PacketOf
  <2> QED
    BY <2>1, <2>3, ReceptionEmpty
<1>7. ASSUME HistoryStep, NEW i \in Pair, StartRetransmission(i) \/ StartTransmission(i)
      PROVE  ReceptionInv'
  <2>1. SendPacket(i) /\ downCounter[i] = 0 /\ ~isBusy[i]
    BY <1>7 DEF StartRetransmission, StartTransmission, StartRetransmissionTriggered,
       StartTransmissionTriggered
  <2>2. Sensed /\ ~isChannelBusy
    BY <1>1, <2>1 DEF ExpiredInv, Expired
  <2> QED
    BY <1>1, <1>7, <2>1, <2>2, ReceptionStart
<1>8. ASSUME HistoryStep, UpdateChannelState \/ ChannelBusy
      PROVE  ReceptionInv'
  <2>1. /\ UNCHANGED <<transmissions, endPacketTime, transmissionTime, wasTransmitError>>
        /\ ~Sensed' \/ isChannelBusy'
    BY <1>8 DEF UpdateChannelState, ChannelBusy, txVars, timerVars, Sensed
  <2> QED
    BY <1>1, <1>8, <2>1, ReceptionFrame
<1>9. ASSUME HistoryStep, ChannelEmpty
      PROVE  ReceptionInv'
  BY <1>9, ReceptionEmpty DEF ChannelEmpty, ChannelEmptyTriggered, Sending
<1>10. ASSUME HistoryStep, Collision
       PROVE  ReceptionInv'
  <2>1. /\ ~wasTransmitError /\ wasTransmitError' /\ Overlap
        /\ UNCHANGED <<transmissions, endPacketTime, transmissionTime>>
    BY <1>10 DEF Collision, CollisionTriggered, txVars, timerVars
  <2>2. Overlap'
    BY <2>1 DEF Overlap
  <2>3. ASSUME NEW j \in Pair, Sending(j)'
        PROVE  Elapsed(j)' = 0 /\ j \in overlapped'
    <3>1. Sending(j) /\ Elapsed(j)' = Elapsed(j)
      BY <2>1, <2>3 DEF Sending, PacketOf, Elapsed
    <3>2. Elapsed(j) = 0
      BY <1>1, <2>1, <3>1 DEF AirInv, OverlapIsRecorded
    <3> QED
      BY <1>10, <2>2, <2>3, <3>1, <3>2, OverlappedValue, NothingStarts
  <2> QED
    BY <2>2, <2>3 DEF ReceptionInv, Reception
<1>11. ASSUME HistoryStep, NewPass \/ Finished
       PROVE  ReceptionInv'
  <2>1. /\ UNCHANGED <<transmissions, endPacketTime, transmissionTime, wasTransmitError>>
        /\ UNCHANGED <<updateChannelTime, isUpdateEnabled, isChannelBusy>>
    BY <1>11 DEF NewPass, Finished, vars, networkVars, txVars, channelVars, timerVars
  <2> QED
    BY <1>1, <1>11, <2>1, ReceptionFrame DEF Sensed
<1>12. ASSUME HistoryStep, Tick
       PROVE  ReceptionInv'
  BY <1>1, <1>12, ReceptionTick
<1> QED
  BY <1>1, <1>2, <1>3, <1>4, <1>5, <1>6, <1>7, <1>8, <1>9, <1>10, <1>11, <1>12,
     HistoryCases, NextCases

-----------------------------------------------------------------------------
(* The idle time before a start.                                           *)

(* What Idle(i) reads of the transmitter.                                  *)
IdleView(i) == <<wasChannelEmpty[i], isChannelObserved[i], isProbingActive[i],
                 probeTime[i], downCounter[i]>>

AckView == <<wasPacketReceived, wasPacketUncorrupted, wasUncorruptedByChannel>>

LEMMA IdleFrame ==
  ASSUME idleTicks' = idleTicks, NEW j \in Pair, Idle(j), UNCHANGED IdleView(j),
         UNCHANGED <<transmissions, endPacketTime, transmissionTime>>, UNCHANGED AckView,
         Sensed /\ isChannelBusy => Sensed' /\ isChannelBusy'
  PROVE  Idle(j)'
<1>1. /\ ProbeWait(j)' = ProbeWait(j) /\ downCounter'[j] = downCounter[j]
      /\ wasChannelEmpty'[j] = wasChannelEmpty[j]
      /\ isChannelObserved'[j] = isChannelObserved[j]
  BY DEF ProbeWait, IdleView
<1>2. \A k \in Pair : /\ Sending(k)' <=> Sending(k)
                      /\ Acking(k)' <=> Acking(k)
                      /\ Elapsed(k)' = Elapsed(k)
                      /\ endPacketTime'[k] = endPacketTime[k]
                      /\ TransmitAckTriggered(k)' <=> TransmitAckTriggered(k)
  BY DEF Sending, Acking, PacketOf, AckTo, Elapsed, TransmitAckTriggered, AckView
<1>3. Alarmed(j) => Alarmed(j)'
  BY <1>1 DEF Alarmed
<1>4. Unbroken(j) => Unbroken(j)'
  BY <1>1, <1>2 DEF Unbroken
<1>5. Idle(j)' <=> (wasChannelEmpty'[j] /\ isChannelObserved'[j] =>
                      Alarmed(j)' \/ Unbroken(j)')
  BY DEF Idle
<1> QED
  BY <1>1, <1>3, <1>4, <1>5 DEF Idle

(* What holds of a transmitter that observes the channel.                  *)
LEMMA ObserverFacts ==
  ASSUME IInv, NEW j \in Pair, isChannelObserved[j]
  PROVE  /\ ~isBusy[j]
         /\ probeTime[j] \in 0 .. ChannelCheckInterval /\ ProbeWait(j) \in Nat
         /\ downCounter[j] \in 0 .. InitDownCounter
         /\ isProbingActive[j] => /\ Sensed /\ clock > 0
                                  /\ probeTime[j] = ChannelCheckInterval
                                  /\ \A k \in Pair : Sending(k) => Elapsed(k) > 0
<1>1. /\ TypeOK /\ Contend(j) /\ Probe(j) /\ Count(j) /\ Await(j)
      /\ probeTime[j] \in Nat \union {-1} /\ buffer[j] \in Seq(Nat) /\ clock \in Nat
  BY AwaitTypes DEF IInv, AccessInv, PairInv, ContendInv, ProbeInv, CountInv, AwaitInv
<1>2. ~isBusy[j] /\ probeTime[j] \in 0 .. ChannelCheckInterval /\ buffer[j] # <<>>
  BY <1>1 DEF Contend, Probe, Inactive
<1>3. ASSUME isProbingActive[j]
      PROVE  /\ Sensed /\ clock > 0
             /\ probeTime[j] = ChannelCheckInterval
             /\ \A k \in Pair : Sending(k) => Elapsed(k) > 0
  <2>1. Head(buffer[j]) < clock
    BY <1>1, <1>3 DEF Await
  <2>2. clock > 0
    BY <1>1, <1>2, <2>1
  <2> QED
    BY <1>1, <1>3, <2>2 DEF Probe, ProbePending
<1> QED
  BY <1>1, <1>2, <1>3 DEF Count, ProbeWait

(* A probe is due, and is decided.                                         *)
LEMMA IdleProbe ==
  ASSUME IInv, SnapshotInv, NEW j \in Pair, Idle(j), idleTicks' = idleTicks,
         UNCHANGED clock,
         ProbeChannelState(j) \/ MarkEmptyChannelState(j) \/ ReduceTXDownCounter(j)
  PROVE  Idle(j)'
<1>1. /\ isProbingActive \in [Pair -> BOOLEAN] /\ downCounter \in [Pair -> Int]
      /\ probeTime \in [Pair -> EventTime] /\ wasChannelEmpty \in [Pair -> BOOLEAN]
      /\ ContendInv /\ Contend(j) /\ Count(j) /\ AirInv /\ probeTime[j] \in Nat \union {-1}
  BY AwaitTypes DEF IInv, AccessInv, PairInv, TypeOK, NetworkTypeOK, TransmitterTypeOK,
     TimersTypeOK, ContendInv, CountInv, CarrierInv
<1>2. /\ UNCHANGED <<isChannelObserved, transmissions, endPacketTime, transmissionTime>>
      /\ UNCHANGED <<updateChannelTime, isUpdateEnabled, isChannelBusy>>
      /\ UNCHANGED AckView
  BY DEF ProbeChannelState, MarkEmptyChannelState, ReduceTXDownCounter, channelVars,
     rxVars, timerVars, AckView
<1>3. isChannelObserved[j]
  <2>1. probeTime[j] = 0 \/ isProbingActive[j]
    BY DEF ProbeChannelState, MarkEmptyChannelState, MarkEmptyTriggered,
       ReduceTXDownCounter, ReduceCounterTriggered
  <2> QED
    BY <1>1, <2>1 DEF Contend, Inactive
<1>4. \A k \in Pair : /\ Sending(k)' <=> Sending(k)
                      /\ Acking(k)' <=> Acking(k)
                      /\ Elapsed(k)' = Elapsed(k)
                      /\ endPacketTime'[k] = endPacketTime[k]
                      /\ TransmitAckTriggered(k)' <=> TransmitAckTriggered(k)
  BY <1>2 DEF Sending, Acking, PacketOf, AckTo, Elapsed, TransmitAckTriggered, AckView
<1>5. Idle(j)' <=> (wasChannelEmpty'[j] /\ isChannelObserved'[j] =>
                      Alarmed(j)' \/ Unbroken(j)')
  BY DEF Idle
<1>6. CASE ProbeChannelState(j)
  <2>1. /\ probeTime[j] = 0 /\ isProbingActive'[j] /\ downCounter' = downCounter
        /\ wasChannelEmpty' = wasChannelEmpty
    BY <1>1, <1>6 DEF ProbeChannelState, Put
  <2>2. ProbeWait(j) = 0 /\ ProbeWait(j)' = 0
    BY <2>1 DEF ProbeWait
  <2>3. Alarmed(j) => Alarmed(j)'
    BY <1>2, <2>2 DEF Alarmed, Sensed
  <2>4. Unbroken(j) => Unbroken(j)'
    BY <1>4, <2>1, <2>2 DEF Unbroken
  <2> QED
    BY <1>2, <1>5, <2>1, <2>3, <2>4 DEF Idle
<1>7. CASE MarkEmptyChannelState(j) \/ ReduceTXDownCounter(j)
  <2>1. /\ isProbingActive[j] /\ ~isChannelBusy /\ ~isProbingActive'[j]
        /\ probeTime' = probeTime
    BY <1>1, <1>7 DEF MarkEmptyChannelState, MarkEmptyTriggered, ReduceTXDownCounter,
       ReduceCounterTriggered, Put, timerVars
  <2>2. /\ Sensed /\ clock > 0 /\ probeTime[j] = ChannelCheckInterval /\ ~isBusy[j]
        /\ \A k \in Pair : Sending(k) => Elapsed(k) > 0
    BY <1>3, <2>1, ObserverFacts
  <2>3. \A k \in Pair : ~Acking(k) /\ ~Sending(k) /\ ~TransmitAckTriggered(k)
    BY <1>1, <2>1, <2>2 DEF AirInv, IdleFlagIsCurrent
  <2>4. ProbeWait(j) = 0 /\ ProbeWait(j)' = ChannelCheckInterval
    BY <2>1, <2>2 DEF ProbeWait
  <2>5. idleTicks > InitDownCounter - downCounter'[j]
    <3>1. CASE MarkEmptyChannelState(j)
      <4>1. downCounter'[j] = InitDownCounter
        BY <1>1, <2>2, <3>1 DEF MarkEmptyChannelState, MarkEmptyTriggered, Count
      <4>2. idleTicks \in Nat /\ idleTicks # 0
        BY <2>1, <2>2 DEF SnapshotInv, BusyFlagIsSnapshot
      <4> QED
        BY <4>1, <4>2
    <3>2. CASE ReduceTXDownCounter(j)
      <4>1. wasChannelEmpty[j] /\ downCounter'[j] = downCounter[j] - ChannelCheckInterval
        BY <1>1, <3>2 DEF ReduceTXDownCounter, ReduceCounterTriggered, Put
      <4>2. Unbroken(j)
        BY <1>3, <2>1, <4>1 DEF Idle, Alarmed
      <4>3. idleTicks > InitDownCounter - downCounter[j] + ChannelCheckInterval - 0
        BY <2>3, <2>4, <4>2 DEF Unbroken
      <4>4. downCounter[j] \in Int /\ idleTicks \in Int
        BY <1>1 DEF SnapshotInv
      <4> QED
        BY <4>1, <4>3, <4>4
    <3> QED
      BY <1>7, <3>1, <3>2
  <2>6. downCounter'[j] \in Int /\ idleTicks \in Int
    BY <1>1, <1>7 DEF MarkEmptyChannelState, ReduceTXDownCounter, Put, SnapshotInv
  <2>7. idleTicks' > InitDownCounter - downCounter'[j]
                        + ChannelCheckInterval - ProbeWait(j)'
    BY <2>4, <2>5, <2>6
  <2>8. Unbroken(j)'
    BY <1>4, <2>3, <2>7 DEF Unbroken
  <2> QED
    BY <1>5, <2>8
<1> QED
  BY <1>6, <1>7

(* A transmission ends or an ACK starts: what is on the channel was there  *)
(* when it was sensed, so whoever is probing is alarmed.                   *)
LEMMA IdleEnd ==
  ASSUME IInv, Sensed, NEW i \in Pair, NEW j \in Pair, Idle(j),
         EndPacketTransmission(i) \/ EndAckTransmission(i) \/ TransmitAck(i)
  PROVE  Idle(j)'
<1>1. TypeOK /\ LinkInv /\ AirInv
  BY DEF IInv, AccessInv, PairInv, CarrierInv
<1>2. /\ UNCHANGED <<wasChannelEmpty, isChannelObserved, isProbingActive, probeTime>>
      /\ UNCHANGED <<updateChannelTime, isUpdateEnabled, isChannelBusy>>
  BY DEF EndPacketTransmission, EndAckTransmission, TransmitAck, txVars
<1>3. isChannelBusy
  BY <1>1, BusyFacts DEF EndPacketTransmission, EndAckTransmission, TransmitAck
<1>4. SUFFICES ASSUME wasChannelEmpty[j], isChannelObserved[j]
               PROVE  Alarmed(j)'
  BY <1>2 DEF Idle
<1>5. ProbeWait(j) \in Nat /\ endPacketTime[i] \in Nat \union {-1}
  BY <1>1, <1>4, ObserverFacts, AwaitTypes
<1>6. ASSUME Unbroken(j)
      PROVE  ProbeWait(j) = 0
  <2>1. /\ ~Acking(i) /\ ~TransmitAckTriggered(i)
        /\ Sending(i) => endPacketTime[i] >= ProbeWait(j)
    BY <1>6 DEF Unbroken
  <2>2. EndPacketTransmission(i)
    BY <1>1, <2>1, BusyFacts DEF EndAckTransmission, TransmitAck
  <2>3. endPacketTime[i] = 0 /\ Sending(i)
    BY <1>1, <2>2, BusyFacts DEF EndPacketTransmission
  <2> QED
    BY <1>5, <2>1, <2>3
<1>7. ProbeWait(j) = 0
  BY <1>4, <1>6 DEF Idle, Alarmed
<1> QED
  BY <1>2, <1>3, <1>7 DEF Alarmed, Sensed, ProbeWait

(* A packet that starts will still be there at the next probe.             *)
LEMMA IdleStart ==
  ASSUME IInv, PacketsOutlastIntervals, Sensed, ~isChannelBusy, idleTicks' = idleTicks,
         NEW i \in Pair, SendPacket(i), ~isBusy[i], NEW j \in Pair, Idle(j)
  PROVE  Idle(j)'
<1>1. TypeOK /\ LinkInv
  BY DEF IInv, AccessInv, PairInv
<1>2. /\ isChannelObserved \in [Pair -> BOOLEAN] /\ isProbingActive \in [Pair -> BOOLEAN]
      /\ probeTime \in [Pair -> EventTime] /\ endPacketTime \in [Pair -> EventTime]
      /\ transmissionTime \in [Pair -> TransmissionTimes \union {-1}]
  BY <1>1 DEF TypeOK, NetworkTypeOK, TransmitterTypeOK, TimersTypeOK
<1>3. /\ isChannelObserved' = Put(isChannelObserved, i, FALSE)
      /\ probeTime' = Put(probeTime, i, Inactive)
      /\ isProbingActive' = Put(isProbingActive, i, FALSE)
      /\ transmissions' = transmissions \union {PacketOf(i)}
      /\ downCounter' = downCounter /\ wasChannelEmpty' = wasChannelEmpty
      /\ UNCHANGED <<rxVars, updateChannelTime, isUpdateEnabled, isChannelBusy>>
  BY DEF SendPacket
<1>4. PICK time \in TransmissionTimes :
         /\ transmissionTime' = Put(transmissionTime, i, time)
         /\ endPacketTime' = Put(endPacketTime, i, time)
  BY DEF SendPacket
<1>5. SUFFICES ASSUME wasChannelEmpty'[j], isChannelObserved'[j]
               PROVE  Unbroken(j)'
  BY DEF Idle
<1>6. /\ j # i /\ isChannelObserved[j] /\ wasChannelEmpty[j]
      /\ ProbeWait(j)' = ProbeWait(j)
  BY <1>2, <1>3, <1>5 DEF Put, ProbeWait
<1>7. Unbroken(j)
  BY <1>6 DEF Idle, Alarmed
<1>8. time >= ProbeWait(j)
  <2>1. ProbeWait(j) \in 0 .. ChannelCheckInterval
    BY <1>6, ObserverFacts DEF ProbeWait
  <2>2. time >= ChannelCheckInterval /\ time \in Nat
    BY DEF PacketsOutlastIntervals
  <2> QED
    BY <2>1, <2>2
<1>9. ~Sending(i) /\ Elapsed(i)' = 0 /\ endPacketTime'[i] = time
  <2>1. time \in Nat
    OBVIOUS
  <2>2. endPacketTime'[i] = time /\ transmissionTime'[i] = time
    BY <1>2, <1>4 DEF Put
  <2> QED
    BY <1>1, <2>1, <2>2, IdleFacts DEF Elapsed
<1>10. \A k \in Pair : AckTo(k) # PacketOf(i)
  BY DEF AckTo, PacketOf
<1>11. \A k \in Pair : /\ Acking(k)' <=> Acking(k)
                       /\ TransmitAckTriggered(k)' <=> TransmitAckTriggered(k)
  BY <1>3, <1>10 DEF Acking, AckTo, TransmitAckTriggered, rxVars
<1>12. ASSUME NEW k \in Pair, k # i
       PROVE  /\ Sending(k)' <=> Sending(k)
              /\ Elapsed(k)' = Elapsed(k)
              /\ endPacketTime'[k] = endPacketTime[k]
  BY <1>2, <1>3, <1>4, <1>12 DEF Sending, PacketOf, Elapsed, Put
<1>13. \A k \in Pair : /\ ~Acking(k)' /\ ~TransmitAckTriggered(k)'
                       /\ Sending(k)' => endPacketTime'[k] >= ProbeWait(j)'
  BY <1>6, <1>7, <1>8, <1>9, <1>11, <1>12 DEF Unbroken
<1>14. (\A k \in Pair : Sending(k)' => Elapsed(k)' = 0) =>
           \A k \in Pair : Sending(k) => Elapsed(k) = 0
  BY <1>9, <1>12
<1>15. (\A k \in Pair : Sending(k)' => Elapsed(k)' = 0) =>
           idleTicks' > InitDownCounter - downCounter'[j]
                            + ChannelCheckInterval - ProbeWait(j)'
  BY <1>3, <1>6, <1>7, <1>14 DEF Unbroken
<1> QED
  BY <1>13, <1>15 DEF Unbroken

(* Whole intervals that are not 0 are one at least.                        *)
LEMMA IntervalAtLeast ==
  ASSUME NEW n \in Nat, n * ChannelCheckInterval # 0
  PROVE  n * ChannelCheckInterval >= ChannelCheckInterval
<1>1. n # 0 /\ n - 1 \in Nat
  OBVIOUS
<1>2. (n - 1) * ChannelCheckInterval \in Nat
  BY <1>1, NatProduct
<1>3. n * ChannelCheckInterval = (n - 1) * ChannelCheckInterval + ChannelCheckInterval
  OBVIOUS
<1> QED
  BY <1>2, <1>3

(* When the clock advances no probe is due, so whoever found the channel   *)
(* idle has still to wait for its next one.                                *)
LEMMA IdleTick ==
  ASSUME IInv, SnapshotInv, HistoryStep, Tick, NEW j \in Pair, Idle(j)
  PROVE  Idle(j)'
<1>1. /\ TypeOK /\ LinkInv /\ ContendInv /\ AccessInv /\ ExpiredInv /\ Count(j)
      /\ clock' # clock
  BY DEF IInv, AccessInv, PairInv, CarrierInv, CountInv, Tick, MinimalTimeStep, TypeOK,
     ScanTypeOK
<1>2. /\ UNCHANGED <<wasChannelEmpty, isChannelObserved, isProbingActive, downCounter>>
      /\ UNCHANGED transmissions
      /\ probeTime' = CountDown(probeTime) /\ endPacketTime' = CountDown(endPacketTime)
      /\ probeTime \in [Pair -> EventTime] /\ endPacketTime \in [Pair -> EventTime]
  BY <1>1 DEF Tick, txVars, channelVars, CountDownTimers, TypeOK, NetworkTypeOK,
     TimersTypeOK
<1>3. SUFFICES ASSUME wasChannelEmpty[j], isChannelObserved[j]
               PROVE  Unbroken(j)'
  BY <1>2 DEF Idle
<1>4. ~isProbingActive[j] /\ probeTime[j] # 0
  <2>1. Next
    BY DEF Next
  <2> QED
    BY <1>1, <2>1, ProbesAreDecided, QuietFacts DEF Tick
<1>5. /\ probeTime[j] \in 1 .. ChannelCheckInterval /\ ~isBusy[j]
      /\ ProbeWait(j) = probeTime[j]
  BY <1>3, <1>4, ObserverFacts DEF ProbeWait
<1>6. ProbeWait(j)' = ProbeWait(j) - 1
  <2>1. probeTime'[j] = probeTime[j] - 1
    BY <1>2, <1>5, CountDownValue
  <2> QED
    BY <1>2, <1>4, <1>5, <2>1 DEF ProbeWait
<1>7. Unbroken(j)
  <2>1. ProbeWait(j) # 0
    BY <1>5
  <2> QED
    BY <1>3, <2>1 DEF Idle, Alarmed
<1>8. ASSUME NEW k \in Pair
      PROVE  /\ ~Acking(k)' /\ ~TransmitAckTriggered(k)'
             /\ Sending(k)' => endPacketTime'[k] >= ProbeWait(j)'
  <2>1. ~Acking(k)' /\ ~TransmitAckTriggered(k)' /\ (Sending(k)' <=> Sending(k))
    BY <1>1, <1>7, ElapsedTick DEF Unbroken
  <2>2. ASSUME Sending(k)
        PROVE  endPacketTime'[k] >= ProbeWait(j)'
    <3>1. endPacketTime[k] \in Nat /\ endPacketTime[k] >= ProbeWait(j)
      BY <1>1, <1>7, <2>2, SendingFacts DEF Unbroken
    <3>2. endPacketTime[k] > 0
      BY <1>5, <3>1
    <3>3. endPacketTime'[k] = endPacketTime[k] - 1
      BY <1>2, <3>1, <3>2, CountDownValue
    <3> QED
      BY <1>5, <1>6, <3>1, <3>3
  <2> QED
    BY <2>1, <2>2
<1>9. ASSUME \A k \in Pair : Sending(k)' => Elapsed(k)' = 0
      PROVE  idleTicks' > InitDownCounter - downCounter'[j]
                              + ChannelCheckInterval - ProbeWait(j)'
  <2>1. \A k \in Pair : ~Sending(k) /\ ~Acking(k)
    <3> SUFFICES ASSUME NEW k \in Pair PROVE ~Sending(k) /\ ~Acking(k)
      OBVIOUS
    <3>1. ~Acking(k) /\ (Sending(k)' <=> Sending(k))
      BY <1>1, <1>7, ElapsedTick DEF Unbroken
    <3>2. Sending(k) => Elapsed(k) \in Nat /\ Elapsed(k)' = Elapsed(k) + 1
      BY <1>1, ElapsedTick, SendingFacts
    <3> QED
      BY <1>9, <3>1, <3>2
  <2>2. transmissions = {}
    <3>1. transmissions \subseteq Transmission
      BY <1>1 DEF TypeOK, NetworkTypeOK, ChannelTypeOK
    <3>2. ASSUME NEW t \in Transmission
          PROVE  \E k \in Pair : t = PacketOf(k) \/ t = AckTo(k)
      BY <3>2 DEF Transmission, PacketOf, AckTo
    <3> QED
      BY <2>1, <3>1, <3>2 DEF Sending, Acking
  <2>3. idleTicks > InitDownCounter - downCounter[j] + ChannelCheckInterval - ProbeWait(j)
    BY <1>7, <2>1 DEF Unbroken
  <2>4. downCounter[j] \in Nat /\ downCounter[j] >= ChannelCheckInterval
    <3>1. downCounter[j] # 0
      <4>1. Ahead(17, j)
        BY DEF Tick, Ahead, Before
      <4> QED
        BY <1>1, <1>5, <4>1 DEF ExpiredInv, Expired
    <3>2. PICK n \in 0 .. InitDownCounter : downCounter[j] = n * ChannelCheckInterval
      BY <1>1 DEF Count
    <3>3. n \in Nat
      OBVIOUS
    <3> QED
      BY <1>1, <3>1, <3>2, <3>3, IntervalAtLeast DEF Count
  <2>5. /\ idleTicks' \in Nat /\ idleTicks \in Nat
        /\ idleTicks' > idleTicks \/ idleTicks' = InitDownCounter + 2
    BY <1>1, <2>2, TicksAdvance DEF SnapshotInv, IdleBound
  <2> QED
    BY <1>2, <1>5, <1>6, <2>3, <2>4, <2>5
<1> QED
  BY <1>8, <1>9 DEF Unbroken

(* Events of a transmitter that leave its probes and the channel alone.    *)
LEMMA IdleEvent ==
  ASSUME IInv, SnapshotInv, idleTicks' = idleTicks, UNCHANGED clock, NEW st \in Stages,
         NEW j \in Pair, CalmEvent(st, j), Idle(j)
  PROVE  Idle(j)'
<1>1. /\ TypeOK /\ Count(j) /\ Contend(j) /\ UNCHANGED AirView
      /\ wasChannelEmpty \in [Pair -> BOOLEAN] /\ isChannelObserved \in [Pair -> BOOLEAN]
  BY CalmFrame DEF IInv, AccessInv, PairInv, CountInv, ContendInv, TypeOK, NetworkTypeOK,
     TransmitterTypeOK
<1>2. CASE GeneratePacket(j) \/ EndAckListening(j) \/ EndTxSleep(j)
  <2>1. UNCHANGED IdleView(j)
    BY <1>2 DEF GeneratePacket, EndAckListening, EndTxSleep, IdleView
  <2> QED
    BY <1>1, <2>1, IdleFrame DEF AirView, AckView, Sensed
<1>3. CASE \/ SuccessfulPacketTransmission(j) \/ RemoveLostPacket(j)
           \/ ScheduleRetransmission(j) \/ ResetTXDownCounter(j)
  <2>1. ~wasChannelEmpty'[j]
    BY <1>1, <1>3 DEF SuccessfulPacketTransmission, RemoveLostPacket, FinishPacket,
       ScheduleRetransmission, ResetTXDownCounter, Put
  <2> QED
    BY <2>1 DEF Idle
<1>4. CASE StartChannelObserving(j)
  <2>1. ~wasChannelEmpty'[j]
    BY <1>1, <1>4 DEF StartChannelObserving, ObservingTriggered, Count
  <2> QED
    BY <2>1 DEF Idle
<1>5. CASE \/ ProbeChannelState(j) \/ MarkEmptyChannelState(j)
           \/ ReduceTXDownCounter(j)
  BY <1>5, IdleProbe
<1> QED
  BY <1>2, <1>3, <1>4, <1>5 DEF CalmEvent

LEMMA IdleStep ==
  ASSUME IInv, SnapshotInv, PacketsOutlastIntervals, HistoryNext, NEW j \in Pair, Idle(j)
  PROVE  Idle(j)'
<1>1. /\ TypeOK /\ NetworkTypeOK /\ SenseInv /\ ExpiredInv
  BY DEF IInv, AccessInv, PairInv, CarrierInv, TypeOK
<1>2. CASE ResetAndInitialize
  <2>1. ~wasChannelEmpty'[j]
    BY <1>2 DEF ResetAndInitialize, NetworkReset, TransmitterReset
  <2> QED
    BY <2>1 DEF Idle
<1>3. ASSUME HistoryStep, NEW st \in Stages, NEW i \in Pair, CalmEvent(st, i), Turn(st, i)
      PROVE  Idle(j)'
  <2>1. idleTicks' = idleTicks /\ clock' = clock /\ UNCHANGED AirView
    BY <1>3, TicksStand, CalmFrame DEF Turn
  <2>2. CASE j = i
    BY <1>3, <2>1, <2>2, IdleEvent
  <2>3. CASE j # i
    <3>1. UNCHANGED PairView(j)
      BY <1>1, <1>3, <2>3, OtherPairs DEF PairEvent
    <3>2. UNCHANGED IdleView(j)
      BY <3>1 DEF PairView, IdleView
    <3> QED
      BY <2>1, <3>2, IdleFrame DEF AirView, AckView, Sensed
  <2> QED
    BY <2>2, <2>3
<1>4. ASSUME HistoryStep, NEW i \in Pair,
             \/ EndPacketTransmission(i) /\ Turn(6, i)
             \/ EndAckTransmission(i) /\ Turn(7, i)
             \/ TransmitAck(i) /\ Turn(18, i)
      PROVE  Idle(j)'
  <2>1. UNCHANGED <<updateChannelTime, isUpdateEnabled>>
    BY <1>4 DEF EndPacketTransmission, EndAckTransmission, TransmitAck
  <2>2. 6 \in Stages /\ 7 \in Stages /\ 18 \in Stages
    BY DEF Stages
  <2>3. Sensed
    BY <1>1, <1>4, <2>1, <2>2, SenseTurn
  <2> QED
    BY <1>4, <2>3, IdleEnd
<1>5. ASSUME HistoryStep, UNCHANGED clock, NEW i \in Pair,
             StartRetransmission(i) \/ StartTransmission(i)
      PROVE  Idle(j)'
  <2>1. SendPacket(i) /\ downCounter[i] = 0 /\ ~isBusy[i]
    BY <1>5 DEF StartRetransmission, StartTransmission, StartRetransmissionTriggered,
       StartTransmissionTriggered
  <2>2. Sensed /\ ~isChannelBusy
    BY <1>1, <2>1 DEF ExpiredInv, Expired
  <2> QED
    BY <1>5, <2>1, <2>2, IdleStart, TicksStand
<1>6. ASSUME HistoryStep, UNCHANGED clock,
             \/ UpdateChannelState \/ ChannelEmpty \/ ChannelBusy \/ Collision
             \/ NewPass \/ Finished
      PROVE  Idle(j)'
  <2>1. UNCHANGED <<txVars, rxVars, transmissions>>
    BY <1>6, ChannelStepFrame
  <2>2. /\ UNCHANGED <<endPacketTime, probeTime>>
        /\ Sensed /\ isChannelBusy => Sensed' /\ isChannelBusy'
    <3>1. CASE UpdateChannelState \/ ChannelEmpty \/ ChannelBusy
      BY <3>1 DEF UpdateChannelState, ChannelEmpty, ChannelEmptyTriggered, ChannelBusy,
         ChannelBusyTriggered, timerVars, Sensed
    <3>2. CASE Collision
      BY <3>2 DEF Collision, timerVars, Sensed
    <3>3. CASE NewPass \/ Finished
      BY <3>3 DEF NewPass, Finished, vars, networkVars, channelVars, timerVars, Sensed
    <3> QED
      BY <1>6, <3>1, <3>2, <3>3
  <2>3. /\ UNCHANGED IdleView(j) /\ UNCHANGED AckView
        /\ UNCHANGED <<transmissions, endPacketTime, transmissionTime>>
    BY <2>1, <2>2 DEF txVars, rxVars, IdleView, AckView
  <2>4. idleTicks' = idleTicks
    BY <1>6, TicksStand
  <2> QED
    BY <2>2, <2>3, <2>4, IdleFrame
<1>7. ASSUME HistoryStep, Tick
      PROVE  Idle(j)'
  BY <1>7, IdleTick
<1> QED
  BY <1>1, <1>2, <1>3, <1>4, <1>5, <1>6, <1>7, HistoryCases, NextCases
     DEF Turn, NewPass, Finished, vars

-----------------------------------------------------------------------------
(* The invariant of the simulator with its past.                           *)

LEMMA InitHistoryInv == Init /\ HistoryInit => HistoryInv
<1> SUFFICES ASSUME Init, HistoryInit PROVE HistoryInv
  OBVIOUS
<1> USE DEF Init, HistoryInit, NetworkFresh
<1>1. IInv
  BY InitIInv
<1>2. AttemptsCounted
  BY DEF AttemptsCounted, TransmitterFresh
<1>3. SnapshotInv
  BY DEF SnapshotInv, BusyFlagIsSnapshot, IdleBound
<1>4. ReceptionInv
  BY DEF ReceptionInv, Reception, Sending, ChannelFresh
<1>5. IdleInv
  BY DEF IdleInv, Idle, TransmitterFresh
<1> QED
  BY <1>1, <1>2, <1>3, <1>4, <1>5 DEF HistoryInv

LEMMA StutterHistoryInv ==
  HistoryInv /\ UNCHANGED <<vars, historyVars>> => HistoryInv'
<1> SUFFICES ASSUME HistoryInv, UNCHANGED <<vars, historyVars>> PROVE HistoryInv'
  OBVIOUS
<1>1. /\ UNCHANGED <<txVars, rxVars, channelVars, timerVars, clock>>
      /\ UNCHANGED <<overlapped, idleTicks, attempts, counted>>
  BY DEF vars, networkVars, historyVars
<1>2. IInv'
  BY IInvStep DEF HistoryInv
<1>3. AttemptsCounted'
  BY <1>1 DEF HistoryInv, AttemptsCounted, txVars
<1>4. SnapshotInv'
  BY <1>1, SnapshotFrame DEF HistoryInv, SnapshotView, channelVars, timerVars
<1>5. ReceptionInv'
  BY <1>1 DEF HistoryInv, ReceptionInv, Reception, Sending, Elapsed, Overlap, Sensed,
     txVars, channelVars, timerVars
<1>6. ASSUME PacketsOutlastIntervals, NEW j \in Pair
      PROVE  Idle(j)'
  <2>1. Idle(j)
    BY <1>6 DEF HistoryInv, IdleInv
  <2>2. /\ UNCHANGED IdleView(j) /\ UNCHANGED AckView
        /\ UNCHANGED <<transmissions, endPacketTime, transmissionTime>>
        /\ Sensed /\ isChannelBusy => Sensed' /\ isChannelBusy'
    BY <1>1 DEF IdleView, AckView, txVars, rxVars, channelVars, timerVars, Sensed
  <2> QED
    BY <1>1, <2>1, <2>2, IdleFrame
<1> QED
  BY <1>2, <1>3, <1>4, <1>5, <1>6 DEF HistoryInv, IdleInv

LEMMA HistoryInvStep ==
  HistoryInv /\ [HistoryNext]_<<vars, historyVars>> => HistoryInv'
<1>1. ASSUME HistoryInv, HistoryNext
      PROVE  HistoryInv'
  <2>1. IInv /\ AttemptsCounted /\ SnapshotInv /\ ReceptionInv /\ IdleInv
    BY <1>1 DEF HistoryInv
  <2>2. IInv'
    BY <1>1, <2>1, IInvStep DEF HistoryNext
  <2>3. AttemptsCounted' /\ SnapshotInv' /\ ReceptionInv'
    BY <1>1, <2>1, <2>2, AttemptsStep, SnapshotStep, ReceptionStep
  <2>4. IdleInv'
    BY <1>1, <2>1, IdleStep DEF IdleInv, PacketsOutlastIntervals
  <2> QED
    BY <2>2, <2>3, <2>4 DEF HistoryInv
<1> QED
  BY <1>1, StutterHistoryInv

(* In every behaviour the simulator's state and its past agree in the      *)
(* sense of HistoryInv, from which the properties below follow.            *)
THEOREM HistoryIsConsistent == HistorySpec => []HistoryInv
<1>1. Init /\ HistoryInit => HistoryInv
  BY InitHistoryInv
<1>2. HistoryInv /\ [HistoryNext]_<<vars, historyVars>> => HistoryInv'
  BY HistoryInvStep
<1> QED
  BY <1>1, <1>2, PTL DEF HistorySpec

(* The retransmission counter, which is what the statistics add up, tells  *)
(* the attempts made for the packet at the head of a buffer, and no packet *)
(* is attempted more often than MaxRetranCount times.                      *)
THEOREM AttemptsAreCounted == HistorySpec => []AttemptsCounted
<1>1. HistoryInv => AttemptsCounted
  BY DEF HistoryInv
<1> QED
  BY <1>1, HistoryIsConsistent, PTL

(* The carrier-sense flag tells, for the whole of a clock value, whether   *)
(* anything was on the channel when the clock reached it.                  *)
THEOREM CarrierSenseIsExact == HistorySpec => []BusyFlagIsSnapshot
<1>1. HistoryInv => BusyFlagIsSnapshot
  BY DEF HistoryInv, SnapshotInv
<1> QED
  BY <1>1, HistoryIsConsistent, PTL

(* A receiver finds a packet corrupted by a collision if and only if that  *)
(* packet shared the channel with another at some time: the flag, which    *)
(* all transmissions share, is never stale and never missing.              *)
THEOREM CollisionsAreExact == HistorySpec => ReceptionMatchesOverlap
<1>1. ASSUME HistoryInv, HistoryNext, NEW i \in Pair, EndPacketTransmission(i)
      PROVE  wasPacketUncorrupted'[i] <=> i \notin overlapped
  <2>1. TypeOK /\ LinkInv /\ SenseInv /\ AirInv /\ ReceptionInv
    BY <1>1 DEF HistoryInv, IInv, AccessInv, PairInv, CarrierInv
  <2>2. endPacketTime[i] = 0 /\ endPacketTime[i] \in Nat \union {-1}
    BY <1>1, <2>1, AwaitTypes DEF EndPacketTransmission
  <2>3. Sending(i) /\ Elapsed(i) > 0
    <3>1. Sending(i)
      BY <2>1, <2>2 DEF LinkInv, Link, Inactive
    <3> QED
      BY <2>1, <2>2, <3>1, SendingFacts
  <2>4. wasTransmitError <=> i \in overlapped
    BY <2>1, <2>3 DEF ReceptionInv, Reception
  <2>5. wasPacketUncorrupted'[i] <=> ~wasTransmitError
    BY <1>1, <2>1 DEF EndPacketTransmission, Put, TypeOK, NetworkTypeOK, ReceiverTypeOK
  <2> QED
    BY <2>4, <2>5
<1>2. HistoryInv /\ [HistoryNext]_<<vars, historyVars>> =>
        [\A i \in Pair :
            EndPacketTransmission(i) =>
                (wasPacketUncorrupted'[i] <=> i \notin overlapped)]_<<vars, historyVars>>
  BY <1>1
<1> QED
  BY <1>2, HistoryIsConsistent, PTL DEF HistorySpec, ReceptionMatchesOverlap

(* A packet starts when the counter has run out, after an idle time that   *)
(* the probes have not interrupted.                                        *)
LEMMA IdleBeforeStart ==
  ASSUME HistoryInv, HistoryNext, PacketsOutlastIntervals, NEW i \in Pair, Starts(i)
  PROVE  idleTicks > InitDownCounter
<1>1. /\ IInv /\ TypeOK /\ NetworkTypeOK /\ LinkInv /\ AirInv /\ ExpiredInv /\ Contend(i)
      /\ Count(i) /\ Probe(i) /\ Idle(i) /\ idleTicks \in Nat
  BY DEF HistoryInv, IInv, AccessInv, PairInv, CarrierInv, ContendInv, CountInv,
     ProbeInv, IdleInv, TypeOK, SnapshotInv
<1>2. StartRetransmission(i) \/ StartTransmission(i)
  <2>1. ASSUME NEW st \in Stages, NEW k \in Pair, PairEvent(st, k),
               ~(StartRetransmission(i) \/ StartTransmission(i))
        PROVE  FALSE
    <3>1. k = i
      BY <1>1, <2>1, OtherPairs DEF Starts
    <3>2. CASE CalmEvent(st, i)
      BY <3>2, CalmFrame DEF AirView, Starts, Sending
    <3>3. CASE EndPacketTransmission(i) \/ EndAckTransmission(i)
      BY <3>3 DEF EndPacketTransmission, EndAckTransmission, Starts, Sending
    <3>4. CASE TransmitAck(i)
      BY <3>4 DEF TransmitAck, Starts, Sending, PacketOf, AckTo
    <3> QED
      BY <2>1, <3>1, <3>2, <3>3, <3>4 DEF PairEvent
  <2>2. ASSUME \/ UpdateChannelState \/ ChannelEmpty \/ ChannelBusy \/ Collision
               \/ NewPass \/ Tick \/ Finished
        PROVE  FALSE
    BY <2>2, ChannelStepFrame DEF Starts, Sending
  <2>3. ~ResetAndInitialize
    BY DEF ResetAndInitialize, NetworkReset, ChannelReset, Starts, Sending
  <2> QED
    BY <1>1, <2>1, <2>2, <2>3, HistoryCases, NextCases DEF PairEvent, Stages
<1>3. downCounter[i] = 0 /\ ~isBusy[i]
  BY <1>2 DEF StartRetransmission, StartTransmission, StartRetransmissionTriggered,
     StartTransmissionTriggered
<1>4. Sensed /\ ~isChannelBusy
  BY <1>1, <1>3 DEF ExpiredInv, Expired
<1>5. isChannelObserved[i] /\ wasChannelEmpty[i]
  BY <1>1, <1>3 DEF Contend, Count
<1>6. Unbroken(i)
  BY <1>1, <1>4, <1>5 DEF Idle, Alarmed
<1>7. \A j \in Pair : Sending(j) => Elapsed(j) = 0
  BY <1>1, <1>4 DEF AirInv, IdleFlagIsCurrent
<1>8. ProbeWait(i) \in 0 .. ChannelCheckInterval
  BY <1>1, <1>5, ObserverFacts DEF ProbeWait
<1>9. idleTicks > InitDownCounter - 0 + ChannelCheckInterval - ProbeWait(i)
  BY <1>3, <1>6, <1>7 DEF Unbroken
<1> QED
  BY <1>1, <1>8, <1>9

(* If no packet is shorter than the interval between two probes, as in the *)
(* program, every packet starts after the channel was idle for more than   *)
(* the whole count-down, although a transmitter only samples it.           *)
THEOREM StartsFollowIdleTime == HistorySpec => StartsAfterIdle
<1>1. HistoryInv /\ [HistoryNext]_<<vars, historyVars>> =>
        [PacketsOutlastIntervals =>
            \A i \in Pair : Starts(i) => idleTicks > InitDownCounter]_<<vars, historyVars>>
  BY IdleBeforeStart
<1> QED
  BY <1>1, HistoryIsConsistent, PTL DEF HistorySpec, StartsAfterIdle

-----------------------------------------------------------------------------
(* Totals.  The recursion of Total is over the pairs; what it computes is  *)
(* proved by induction on their number.                                    *)

(* A set of natural numbers that is not empty has a least element: the     *)
(* intervals 0 .. n are finite sets, ordered by inclusion.                 *)
LEMMA NatLeast ==
  ASSUME NEW T, T \subseteq Nat, T # {}
  PROVE  \E x \in T : \A y \in T : ~(y < x)
<1> DEFINE U == {0 .. n : n \in T}
           R == StrictSubsetOrdering(Nat)
<1>1. IsWellFoundedOn(R, FiniteSubsetsOf(Nat))
  BY FS_StrictSubsetOrderingWellFounded
<1>2. U \subseteq FiniteSubsetsOf(Nat) /\ U # {}
  <2>1. ASSUME NEW n \in T
        PROVE  0 .. n \in FiniteSubsetsOf(Nat)
    BY FS_Interval DEF FiniteSubsetsOf
  <2> QED
    BY <2>1
<1>3. \E X \in U : \A Y \in U : ~(<<Y, X>> \in R)
  <2> HIDE DEF U, R
  <2> QED
    BY <1>1, <1>2, WFMin
<1>4. PICK x \in T : \A Y \in U : ~(<<Y, 0 .. x>> \in R)
  BY <1>3
<1>5. ASSUME NEW y \in T, y < x
      PROVE  FALSE
  <2>1. 0 .. y \subseteq 0 .. x /\ 0 .. y # 0 .. x
    <3>1. x \in 0 .. x /\ x \notin 0 .. y
      BY <1>5
    <3> QED
      BY <1>5, <3>1
  <2>2. <<0 .. y, 0 .. x>> \in R
    BY <2>1 DEF StrictSubsetOrdering
  <2> QED
    BY <1>4, <2>2
<1> QED
  BY <1>5

(* Induction, over a set instead of a predicate.                           *)
LEMMA SetInduction ==
  ASSUME NEW S, 0 \in S, \A n \in Nat : n \in S => n + 1 \in S
  PROVE  \A n \in Nat : n \in S
<1> DEFINE T == Nat \ S
<1>1. SUFFICES ASSUME T # {} PROVE FALSE
  OBVIOUS
<1>2. PICK x \in T : \A y \in T : ~(y < x)
  BY <1>1, NatLeast
<1>3. x # 0 /\ x - 1 \in Nat /\ x - 1 \notin T
  BY <1>2
<1> QED
  BY <1>3

(* g adds up the first values of f.                                        *)
Sums(g, f, m) == /\ g \in [0 .. m -> Int]
                 /\ g[0] = 0
                 /\ \A n \in 1 .. m : g[n] = g[n - 1] + f[n - 1]

(* There are such sums.                                                    *)
LEMMA SumsExist ==
  ASSUME NEW f \in [Pair -> Int]
  PROVE  \E g : Sums(g, f, RxTxCount)
<1> DEFINE S == {m \in Nat : m <= RxTxCount => \E g : Sums(g, f, m)}
<1>1. 0 \in S
  <2>1. Sums([n \in 0 .. 0 |-> 0], f, 0)
    BY DEF Sums
  <2> QED
    BY <2>1
<1>2. ASSUME NEW m \in Nat, m \in S, m + 1 <= RxTxCount
      PROVE  \E g : Sums(g, f, m + 1)
  <2>1. PICK g : Sums(g, f, m)
    BY <1>2
  <2>2. f[m] \in Int /\ g[m] \in Int
    BY <1>2, <2>1 DEF Sums, Pair
  <2> DEFINE h == [n \in 0 .. m + 1 |-> IF n = m + 1 THEN g[m] + f[m] ELSE g[n]]
  <2>3. h \in [0 .. m + 1 -> Int]
    BY <2>1, <2>2 DEF Sums
  <2>4. h[0] = 0
    BY <2>1 DEF Sums
  <2>5. ASSUME NEW n \in 1 .. m + 1
        PROVE  h[n] = h[n - 1] + f[n - 1]
    <3>1. CASE n = m + 1
      <4>1. h[n] = g[m] + f[m] /\ h[n - 1] = g[m]
        BY <2>5, <3>1
      <4> QED
        BY <3>1, <4>1
    <3>2. CASE n # m + 1
      <4>1. n \in 1 .. m /\ h[n] = g[n] /\ h[n - 1] = g[n - 1]
        BY <2>5, <3>2
      <4> QED
        BY <2>1, <4>1 DEF Sums
    <3> QED
      BY <3>1, <3>2
  <2>6. Sums(h, f, m + 1)
    BY <2>3, <2>4, <2>5 DEF Sums
  <2> QED
    BY <2>6
<1>3. \A m \in Nat : m \in S
  <2> HIDE DEF S
  <2>1. \A n \in Nat : n \in S => n + 1 \in S
    BY <1>2 DEF S
  <2> QED
    BY <1>1, <2>1, SetInduction
<1> QED
  BY <1>3

(* Total is the last of the sums.                                          *)
LEMMA TotalSums ==
  ASSUME NEW f \in [Pair -> Int]
  PROVE  \E g : Sums(g, f, RxTxCount) /\ Total(f) = g[RxTxCount]
<1> DEFINE sum == CHOOSE s : s = [n \in 0 .. RxTxCount |->
                                     IF n = 0 THEN 0 ELSE s[n - 1] + f[n - 1]]
<1>1. PICK g : Sums(g, f, RxTxCount)
  BY SumsExist
<1>2. g = [n \in 0 .. RxTxCount |-> IF n = 0 THEN 0 ELSE g[n - 1] + f[n - 1]]
  BY <1>1 DEF Sums
<1>3. sum = [n \in 0 .. RxTxCount |-> IF n = 0 THEN 0 ELSE sum[n - 1] + f[n - 1]]
  BY <1>2
<1>4. Total(f) = sum[RxTxCount]
  BY DEF Total
<1> HIDE DEF sum
<1> DEFINE S == {n \in Nat : n <= RxTxCount => sum[n] = g[n]}
<1>5. 0 \in S
  BY <1>1, <1>3 DEF Sums
<1>6. ASSUME NEW n \in Nat, n \in S, n + 1 <= RxTxCount
      PROVE  sum[n + 1] = g[n + 1]
  <2>1. sum[n + 1] = sum[n] + f[n]
    BY <1>3, <1>6
  <2>2. g[n + 1] = g[n] + f[n]
    BY <1>1, <1>6 DEF Sums
  <2> QED
    BY <1>6, <2>1, <2>2
<1>7. \A n \in Nat : n \in S
  <2>1. \A n \in Nat : n \in S => n + 1 \in S
    BY <1>6
  <2> HIDE DEF S
  <2> QED
    BY <1>5, <2>1, SetInduction
<1> QED
  BY <1>1, <1>4, <1>7

(* One of the numbers changes.                                             *)
LEMMA TotalPut ==
  ASSUME NEW f \in [Pair -> Int], NEW i \in Pair, NEW v \in Int
  PROVE  Total(Put(f, i, v)) = Total(f) - f[i] + v
<1> DEFINE p == Put(f, i, v)
<1>1. p \in [Pair -> Int] /\ p[i] = v /\ \A j \in Pair : j # i => p[j] = f[j]
  BY DEF Put
<1> HIDE DEF p
<1>2. PICK g : Sums(g, f, RxTxCount) /\ Total(f) = g[RxTxCount]
  BY TotalSums
<1>3. PICK h : Sums(h, p, RxTxCount) /\ Total(p) = h[RxTxCount]
  BY <1>1, TotalSums
<1> DEFINE S == {n \in Nat : n <= RxTxCount => h[n] = IF i < n THEN g[n] - f[i] + v ELSE g[n]}
<1>4. 0 \in S
  BY <1>2, <1>3 DEF Sums, Pair
<1>5. ASSUME NEW n \in Nat, n \in S, n + 1 <= RxTxCount
      PROVE  h[n + 1] = IF i < n + 1 THEN g[n + 1] - f[i] + v ELSE g[n + 1]
  <2>1. n \in Pair /\ f[n] \in Int /\ g[n] \in Int /\ f[i] \in Int
    BY <1>2, <1>5 DEF Pair, Sums
  <2>2. g[n + 1] = g[n] + f[n] /\ h[n + 1] = h[n] + p[n]
    BY <1>2, <1>3, <1>5 DEF Sums
  <2>3. i \in Nat /\ h[n] = IF i < n THEN g[n] - f[i] + v ELSE g[n]
    BY <1>5 DEF Pair
  <2>4. CASE i = n
    BY <1>1, <2>1, <2>2, <2>3, <2>4
  <2>5. CASE i # n
    <3>1. p[n] = f[n]
      BY <1>1, <2>1, <2>5
    <3>2. i < n <=> i < n + 1
      BY <2>3, <2>5
    <3> QED
      BY <2>1, <2>2, <2>3, <3>1, <3>2
  <2> QED
    BY <2>4, <2>5
<1>6. \A n \in Nat : n \in S
  <2>1. \A n \in Nat : n \in S => n + 1 \in S
    BY <1>5
  <2> HIDE DEF S
  <2> QED
    BY <1>4, <2>1, SetInduction
<1>7. h[RxTxCount] = g[RxTxCount] - f[i] + v
  BY <1>6 DEF Pair
<1> QED
  BY <1>2, <1>3, <1>7 DEF p

(* A total of natural numbers is one.                                      *)
LEMMA TotalType ==
  ASSUME NEW f \in [Pair -> Nat]
  PROVE  Total(f) \in Nat
<1>1. f \in [Pair -> Int]
  OBVIOUS
<1>2. PICK g : Sums(g, f, RxTxCount) /\ Total(f) = g[RxTxCount]
  BY <1>1, TotalSums
<1> DEFINE S == {n \in Nat : n <= RxTxCount => g[n] >= 0}
<1>3. 0 \in S
  BY <1>2 DEF Sums
<1>4. ASSUME NEW n \in Nat, n \in S, n + 1 <= RxTxCount
      PROVE  g[n + 1] >= 0
  <2>1. f[n] \in Nat /\ g[n] \in Int
    BY <1>2, <1>4 DEF Sums, Pair
  <2>2. g[n + 1] = g[n] + f[n]
    BY <1>2, <1>4 DEF Sums
  <2> QED
    BY <1>4, <2>1, <2>2
<1>5. \A n \in Nat : n \in S
  <2>1. \A n \in Nat : n \in S => n + 1 \in S
    BY <1>4
  <2> HIDE DEF S
  <2> QED
    BY <1>3, <2>1, SetInduction
<1> QED
  BY <1>2, <1>5 DEF Sums

(* Nothing adds up to 0.                                                   *)
LEMMA TotalZero == Total([i \in Pair |-> 0]) = 0
<1> DEFINE f == [i \in Pair |-> 0]
<1>1. f \in [Pair -> Int] /\ \A n \in Pair : f[n] = 0
  OBVIOUS
<1> HIDE DEF f
<1>2. PICK g : Sums(g, f, RxTxCount) /\ Total(f) = g[RxTxCount]
  BY <1>1, TotalSums
<1> DEFINE S == {n \in Nat : n <= RxTxCount => g[n] = 0}
<1>3. 0 \in S
  BY <1>2 DEF Sums
<1>4. ASSUME NEW n \in Nat, n \in S, n + 1 <= RxTxCount
      PROVE  g[n + 1] = 0
  <2>1. f[n] = 0
    BY <1>1, <1>4 DEF Pair
  <2>2. g[n + 1] = g[n] + f[n]
    BY <1>2, <1>4 DEF Sums
  <2> QED
    BY <1>4, <2>1, <2>2
<1>5. \A n \in Nat : n \in S
  <2>1. \A n \in Nat : n \in S => n + 1 \in S
    BY <1>4
  <2> HIDE DEF S
  <2> QED
    BY <1>3, <2>1, SetInduction
<1> QED
  BY <1>2, <1>5 DEF f

-----------------------------------------------------------------------------
(* An ACK that has arrived.                                                *)

(* What has been received is the packet whose ACK is next.                 *)
LEMMA OutcomeStep ==
  ASSUME IInv, OutcomeInv, Next
  PROVE  OutcomeInv'
<1>1. /\ TypeOK /\ NetworkTypeOK /\ LinkInv /\ SenseInv /\ AirInv /\ ExpiredInv
      /\ wasTranOk \in [Pair -> BOOLEAN]
  BY DEF IInv, AccessInv, PairInv, CarrierInv, TypeOK, NetworkTypeOK, TransmitterTypeOK
<1> DEFINE Settled(i) == /\ Sensed /\ isChannelBusy /\ transmissions = {}
                         /\ \A j \in Pair : ~TransmitAckTriggered(j)
                         /\ \A j \in Pair : wasTranOk[j] => j = i
<1>2. \A i \in Pair : wasTranOk[i] => Settled(i)
  BY DEF OutcomeInv, Outcome
<1>3. SUFFICES \A i \in Pair : wasTranOk'[i] => Settled(i)'
  BY DEF OutcomeInv, Outcome
<1>4. ASSUME NEW st \in Stages, NEW i \in Pair, CalmEvent(st, i)
      PROVE  \A k \in Pair : wasTranOk'[k] => Settled(k)'
  <2>1. \A k \in Pair : wasTranOk'[k] => wasTranOk[k]
    <3>1. CASE SuccessfulPacketTransmission(i) \/ RemoveLostPacket(i)
      BY <1>1, <3>1 DEF SuccessfulPacketTransmission, RemoveLostPacket, FinishPacket, Put
    <3>2. CASE ~(SuccessfulPacketTransmission(i) \/ RemoveLostPacket(i))
      BY <1>4, <3>2 DEF CalmEvent, GeneratePacket, EndAckListening, EndTxSleep,
         ScheduleRetransmission, StartChannelObserving, ProbeChannelState,
         MarkEmptyChannelState, ResetTXDownCounter, ReduceTXDownCounter
    <3> QED
      BY <3>1, <3>2
  <2>2. UNCHANGED AirView
    BY <1>4, CalmFrame
  <2> QED
    BY <1>2, <2>1, <2>2 DEF AirView, Sensed, TransmitAckTriggered
<1>5. ASSUME NEW i \in Pair, EndPacketTransmission(i) /\ Turn(6, i)
      PROVE  \A k \in Pair : wasTranOk'[k] => Settled(k)'
  <2>1. Sensed
    BY <1>1, <1>5, SenseTurn DEF EndPacketTransmission, Stages
  <2>2. transmissions # {}
    BY <1>1, <1>5, <2>1, BusyFacts DEF EndPacketTransmission, Sending
  <2>3. wasTranOk' = wasTranOk
    BY <1>5 DEF EndPacketTransmission, txVars
  <2> QED
    BY <1>2, <2>2, <2>3
<1>6. ASSUME NEW i \in Pair, EndAckTransmission(i) /\ Turn(7, i)
      PROVE  \A k \in Pair : wasTranOk'[k] => Settled(k)'
  <2>1. Sensed
    BY <1>1, <1>6, SenseTurn DEF EndAckTransmission, Stages
  <2>2. Acking(i) /\ isChannelBusy
    BY <1>1, <1>6, <2>1, BusyFacts DEF EndAckTransmission
  <2>3. /\ transmissions = {AckTo(i)}
        /\ \A k \in Pair : ~TransmitAckTriggered(k) /\ ~wasTranOk[k]
    BY <1>1, <1>2, <2>2 DEF AirInv, AckAlone, Acking
  <2>4. /\ transmissions' = {}
        /\ \A k \in Pair : wasTranOk'[k] => k = i
        /\ UNCHANGED <<rxVars, updateChannelTime, isUpdateEnabled, isChannelBusy>>
    BY <1>1, <1>6, <2>3 DEF EndAckTransmission, Put
  <2> QED
    BY <2>1, <2>2, <2>3, <2>4 DEF Sensed, TransmitAckTriggered, rxVars
<1>7. ASSUME NEW i \in Pair, TransmitAck(i)
      PROVE  \A k \in Pair : wasTranOk'[k] => Settled(k)'
  BY <1>2, <1>7 DEF TransmitAck, txVars
<1>8. ASSUME NEW i \in Pair, StartRetransmission(i) \/ StartTransmission(i)
      PROVE  \A k \in Pair : wasTranOk'[k] => Settled(k)'
  <2>1. downCounter[i] = 0 /\ ~isBusy[i] /\ wasTranOk' = wasTranOk
    BY <1>8 DEF StartRetransmission, StartTransmission, StartRetransmissionTriggered,
       StartTransmissionTriggered, SendPacket
  <2>2. ~isChannelBusy
    BY <1>1, <2>1 DEF ExpiredInv, Expired
  <2> QED
    BY <1>2, <2>1, <2>2
<1>9. CASE UpdateChannelState \/ ChannelEmpty \/ ChannelBusy
  <2>1. ~Sensed /\ wasTranOk' = wasTranOk
    BY <1>9 DEF UpdateChannelState, ChannelEmpty, ChannelBusy, ChannelEmptyTriggered,
       ChannelBusyTriggered, Sensed, txVars
  <2> QED
    BY <1>2, <2>1
<1>10. CASE Collision \/ NewPass \/ Finished
  <2>1. UNCHANGED <<wasTranOk, transmissions, rxVars, updateChannelTime, isUpdateEnabled,
                    isChannelBusy>>
    BY <1>10 DEF Collision, NewPass, Finished, vars, networkVars, txVars, channelVars,
       timerVars
  <2> QED
    BY <1>2, <2>1 DEF Sensed, TransmitAckTriggered, rxVars
<1>11. CASE Tick
  <2>1. \A k \in Pair : ~wasTranOk[k]
    BY <1>1, <1>11, QuietFacts, IdleFacts DEF Tick, SuccessTriggered
  <2> QED
    BY <1>11, <2>1 DEF Tick, txVars
<1>12. CASE ResetAndInitialize
  BY <1>12 DEF ResetAndInitialize, NetworkReset, TransmitterReset
<1> QED
  BY <1>4, <1>5, <1>6, <1>7, <1>8, <1>9, <1>10, <1>11, <1>12, NextCases

-----------------------------------------------------------------------------
(* What a step does to the statistics.                                     *)

totals == <<totRetranCount, totPacketAwaitTime, totPacketDelay>>

(* An ACK starts and its packet is counted as received.                    *)
Acknowledgement(i) ==
    /\ running /\ clock > 0 /\ transmissions = {} /\ ~Accepted /\ Accepted'
    /\ received' = IF IsInitialPhaseOver THEN Put(received, i, received[i] + 1)
                                         ELSE received
    /\ endAckTime' = Put(endAckTime, i, AckMsgTime)
    /\ UNCHANGED <<lost, totals, clock, running>>

(* It ends.                                                                *)
AckArrival(i) ==
    /\ Accepted /\ Accepted'
    /\ endAckTime[i] = 0
    /\ endAckTime' = Put(endAckTime, i, Inactive)
    /\ UNCHANGED <<received, lost, totals, clock, running>>

(* The transmitter adds the packet to the totals.                          *)
Accounting(i) ==
    /\ Accepted /\ ~Accepted'
    /\ clock > 0
    /\ retranNum[i] \in 0 .. MaxRetranCount - 1
    /\ AwaitTime(i) \in Nat \ {0} /\ DelayTime(i) \in Nat /\ DelayTime(i) > AwaitTime(i)
    /\ totPacketAwaitTime' = totPacketAwaitTime + (IF IsInitialPhaseOver THEN AwaitTime(i) ELSE 0)
    /\ totPacketDelay' = totPacketDelay + (IF IsInitialPhaseOver THEN DelayTime(i) ELSE 0)
    /\ totRetranCount' = totRetranCount + (IF IsInitialPhaseOver THEN retranNum[i] ELSE 0)
    /\ UNCHANGED <<received, lost, endAckTime, clock, running>>

(* The transmitter gives its packet up.                                    *)
Loss(i) ==
    /\ Accepted' <=> Accepted
    /\ lost' = IF IsInitialPhaseOver THEN Put(lost, i, lost[i] + 1) ELSE lost
    /\ IsInitialPhaseOver \/ UNCHANGED totPacketAwaitTime
    /\ UNCHANGED <<received, totRetranCount, totPacketDelay, endAckTime, clock, running>>

(* Nothing that is counted changes.                                        *)
NothingCounted ==
    /\ Accepted' <=> Accepted
    /\ UNCHANGED <<received, lost, totals, endAckTime, clock, running>>

(* A tick counts nothing either.                                           *)
CountingTick ==
    /\ Tick
    /\ Accepted' <=> Accepted
    /\ UNCHANGED <<received, lost, totals>>

LEMMA AcceptedEqual ==
  ASSUME wasTranOk' = wasTranOk, \A k \in Pair : Acking(k)' <=> Acking(k)
  PROVE  Accepted' <=> Accepted
BY DEF Accepted, headAccepted

(* An ACK is owed only while no packet received is left in a buffer.       *)
LEMMA AcknowledgementCase ==
  ASSUME IInv, OutcomeInv, NEW i \in Pair, TransmitAck(i), Turn(18, i)
  PROVE  Acknowledgement(i)
<1>1. /\ transmissions = {} /\ ~Accepted
  <2>1. transmissions = {} /\ TransmitAckTriggered(i)
    BY DEF IInv, AccessInv, CarrierInv, AirInv, TransmitAck
  <2>2. \A k \in Pair : ~wasTranOk[k] /\ ~Acking(k)
    BY <2>1 DEF OutcomeInv, Outcome, Acking
  <2> QED
    BY <2>1, <2>2 DEF Accepted, headAccepted
<1>2. Acking(i)'
  BY DEF TransmitAck, Acking
<1>3. Accepted'
  BY <1>2 DEF Accepted, headAccepted
<1>4. clock > 0
  <2>1. transmitTimestamp[i] < clock /\ transmitTimestamp[i] \in Nat /\ clock \in Nat
    BY AwaitTypes DEF IInv, AccessInv, PairInv, AwaitInv, Await, TransmitAck
  <2> QED
    BY <2>1
<1> QED
  BY <1>1, <1>3, <1>4 DEF Acknowledgement, TransmitAck, Turn, totals

LEMMA AckArrivalCase ==
  ASSUME IInv, NEW i \in Pair, EndAckTransmission(i), Turn(7, i)
  PROVE  AckArrival(i)
<1>1. LinkInv /\ wasTranOk \in [Pair -> BOOLEAN]
  BY DEF IInv, AccessInv, PairInv, TypeOK, NetworkTypeOK, TransmitterTypeOK
<1>2. Acking(i) /\ wasTranOk'[i]
  BY <1>1 DEF EndAckTransmission, LinkInv, Link, Inactive, Put
<1>3. Accepted /\ Accepted'
  BY <1>2 DEF Accepted, headAccepted
<1> QED
  BY <1>3 DEF AckArrival, EndAckTransmission, Turn, totals, statVars

(* The packet that leaves was the only one received that was left.         *)
LEMMA AccountingCase ==
  ASSUME IInv, OutcomeInv, NEW i \in Pair, SuccessfulPacketTransmission(i), Turn(10, i)
  PROVE  Accounting(i)
<1>1. /\ TypeOK /\ StatisticsTypeOK /\ Link(i) /\ Await(i) /\ wasTranOk[i] /\ isBusy[i]
      /\ wasTranOk \in [Pair -> BOOLEAN]
  BY DEF IInv, AccessInv, PairInv, LinkInv, AwaitInv, TypeOK, NetworkTypeOK,
     TransmitterTypeOK, SuccessfulPacketTransmission, SuccessTriggered
<1>2. Head(buffer[i]) \in Nat
  BY HeadExists DEF IInv, AccessInv, PairInv, SuccessfulPacketTransmission
<1>3. retranNum[i] \in Nat /\ transmitTimestamp[i] \in Nat /\ clock \in Nat
  BY <1>1, AwaitTypes
<1>4. Accepted
  BY <1>1 DEF Accepted, headAccepted
<1>5. ~Accepted'
  <2>1. transmissions' = {}
    BY <1>1 DEF SuccessfulPacketTransmission, channelVars, OutcomeInv, Outcome
  <2>2. \A k \in Pair : ~wasTranOk'[k]
    BY <1>1 DEF SuccessfulPacketTransmission, FinishPacket, Put, OutcomeInv, Outcome
  <2> QED
    BY <2>1, <2>2 DEF Accepted, headAccepted, Acking
<1>6. retranNum[i] \in 0 .. MaxRetranCount - 1
  <2>1. endListeningTime[i] # -1 /\ retranNum[i] <= MaxRetranCount
    BY <1>1 DEF Link
  <2>2. retranNum[i] # MaxRetranCount
    BY <1>1, <2>1 DEF Link, Inactive
  <2> QED
    BY <1>3, <2>1, <2>2
<1>7. /\ clock > 0 /\ DelayTime(i) > AwaitTime(i)
      /\ AwaitTime(i) \in Nat \ {0} /\ DelayTime(i) \in Nat
  <2> DEFINE head == Head(buffer[i])
             started == transmitTimestamp[i]
  <2>1. head < started /\ started + AckMsgTime < clock
    BY <1>1 DEF Await
  <2>2. AwaitTime(i) = started - head /\ DelayTime(i) = clock - head - AckMsgTime
    BY DEF AwaitTime, DelayTime
  <2>3. head \in Nat /\ started \in Nat
    BY <1>2, <1>3
  <2> HIDE DEF head, started
  <2> QED
    BY <1>3, <2>1, <2>2, <2>3
<1>8. UNCHANGED <<received, lost, endAckTime, clock, running>>
  BY DEF SuccessfulPacketTransmission, Turn
<1>9. /\ totPacketAwaitTime' = totPacketAwaitTime
                                 + (IF IsInitialPhaseOver THEN AwaitTime(i) ELSE 0)
      /\ totPacketDelay' = totPacketDelay + (IF IsInitialPhaseOver THEN DelayTime(i) ELSE 0)
      /\ totRetranCount' = totRetranCount + (IF IsInitialPhaseOver THEN retranNum[i] ELSE 0)
  BY <1>1 DEF SuccessfulPacketTransmission, StatisticsTypeOK
<1> QED
  BY <1>4, <1>5, <1>6, <1>7, <1>8, <1>9 DEF Accounting

LEMMA LossCase ==
  ASSUME IInv, NEW i \in Pair, RemoveLostPacket(i), Turn(11, i)
  PROVE  Loss(i)
<1>1. wasTranOk' = wasTranOk
  BY DEF IInv, AccessInv, PairInv, TypeOK, NetworkTypeOK, TransmitterTypeOK,
     RemoveLostPacket, LostTriggered, FinishPacket, Put
<1>2. transmissions' = transmissions
  BY DEF RemoveLostPacket, channelVars
<1>3. Accepted' <=> Accepted
  BY <1>1, <1>2, AcceptedEqual DEF Acking
<1> QED
  BY <1>3 DEF Loss, RemoveLostPacket, Turn, timerVars

(* Every step is one of these.                                             *)
LEMMA AccountCases ==
  ASSUME IInv, OutcomeInv, Next
  PROVE  \/ \E i \in Pair : \/ Acknowledgement(i) \/ AckArrival(i)
                            \/ Accounting(i) \/ Loss(i)
         \/ NothingCounted \/ CountingTick \/ ResetAndInitialize
<1>1. ASSUME NEW i \in Pair,
             \/ GeneratePacket(i) /\ Turn(1, i)
             \/ EndAckListening(i) /\ Turn(8, i)
             \/ EndTxSleep(i) /\ Turn(9, i)
             \/ ScheduleRetransmission(i) /\ Turn(12, i)
             \/ StartChannelObserving(i) /\ Turn(13, i)
             \/ ProbeChannelState(i) /\ Turn(14, i)
             \/ MarkEmptyChannelState(i) /\ Turn(15, i)
             \/ ResetTXDownCounter(i) /\ Turn(16, i)
             \/ ReduceTXDownCounter(i) /\ Turn(17, i)
      PROVE  NothingCounted
  <2>1. UNCHANGED <<wasTranOk, transmissions, statVars, endAckTime>>
    BY <1>1 DEF GeneratePacket, EndAckListening, EndTxSleep, ScheduleRetransmission,
       StartChannelObserving, ProbeChannelState, MarkEmptyChannelState,
       ResetTXDownCounter, ReduceTXDownCounter, channelVars, timerVars
  <2>2. UNCHANGED <<clock, running>>
    BY <1>1 DEF Turn
  <2> QED
    BY <2>1, <2>2, AcceptedEqual DEF NothingCounted, totals, statVars, Acking
<1>2. ASSUME NEW i \in Pair,
             \/ EndPacketTransmission(i) /\ Turn(6, i)
             \/ StartRetransmission(i) /\ Turn(19, i)
             \/ StartTransmission(i) /\ Turn(20, i)
      PROVE  NothingCounted
  <2>1. UNCHANGED <<wasTranOk, statVars, endAckTime>>
    BY <1>2 DEF EndPacketTransmission, StartRetransmission, StartTransmission, SendPacket,
       txVars
  <2>2. \A k \in Pair : PacketOf(i) # AckTo(k)
    BY DEF PacketOf, AckTo
  <2>3. \/ transmissions' = transmissions \ {PacketOf(i)}
        \/ transmissions' = transmissions \union {PacketOf(i)}
    BY <1>2 DEF EndPacketTransmission, StartRetransmission, StartTransmission, SendPacket
  <2>4. \A k \in Pair : Acking(k)' <=> Acking(k)
    BY <2>2, <2>3 DEF Acking, AckTo
  <2>5. UNCHANGED <<clock, running>>
    BY <1>2 DEF Turn
  <2> QED
    BY <2>1, <2>4, <2>5, AcceptedEqual DEF NothingCounted, totals, statVars
<1>3. ASSUME \/ UpdateChannelState /\ Turn(2, 0)
             \/ ChannelEmpty /\ Turn(3, 0)
             \/ ChannelBusy /\ Turn(4, 0)
             \/ Collision /\ Turn(5, 0)
             \/ NewPass \/ Finished
      PROVE  NothingCounted
  <2>1. UNCHANGED <<wasTranOk, transmissions, statVars, endAckTime>>
    BY <1>3 DEF UpdateChannelState, ChannelEmpty, ChannelBusy, Collision, NewPass,
       Finished, vars, networkVars, txVars, channelVars, timerVars
  <2>2. UNCHANGED <<clock, running>>
    BY <1>3 DEF Turn, NewPass, Finished, vars
  <2> QED
    BY <2>1, <2>2, AcceptedEqual DEF NothingCounted, totals, statVars, Acking
<1>4. ASSUME Tick
      PROVE  CountingTick
  BY <1>4, AcceptedEqual DEF CountingTick, Tick, totals, statVars, txVars, channelVars,
     Acking
<1> QED
  BY <1>1, <1>2, <1>3, <1>4, AcknowledgementCase, AckArrivalCase, AccountingCase,
     LossCase DEF Next, Scan

LEMMA TotalPlusOne ==
  ASSUME NEW f \in [Pair -> Nat], NEW i \in Pair
  PROVE  Total(Put(f, i, f[i] + 1)) = Total(f) + 1
<1>1. f \in [Pair -> Int] /\ f[i] \in Int /\ f[i] + 1 \in Int
  OBVIOUS
<1>2. Total(f) \in Nat
  BY TotalType
<1>3. Total(Put(f, i, f[i] + 1)) = Total(f) - f[i] + (f[i] + 1)
  BY <1>1, TotalPut
<1> QED
  BY <1>1, <1>2, <1>3

LEMMA TotalsTypes ==
  ASSUME TypeOK
  PROVE  /\ received \in [Pair -> Nat] /\ lost \in [Pair -> Nat]
         /\ Total(received) \in Nat /\ Total(lost) \in Nat
         /\ totRetranCount \in Nat /\ totPacketAwaitTime \in Int /\ totPacketDelay \in Int
         /\ clock \in Nat /\ running \in BOOLEAN
         /\ endAckTime \in [Pair -> EventTime]
BY TotalType DEF TypeOK, NetworkTypeOK, StatisticsTypeOK, ScanTypeOK, TimersTypeOK

(* How the totals change.                                                  *)
LEMMA TotalsChange ==
  ASSUME TypeOK
  PROVE  /\ \A i \in Pair : Acknowledgement(i) =>
                Total(received)' = Total(received) + (IF IsInitialPhaseOver THEN 1 ELSE 0)
         /\ \A i \in Pair : Loss(i) =>
                Total(lost)' = Total(lost) + (IF IsInitialPhaseOver THEN 1 ELSE 0)
         /\ ResetAndInitialize => Total(received)' = 0 /\ Total(lost)' = 0
<1>1. received \in [Pair -> Nat] /\ lost \in [Pair -> Nat]
      /\ Total(received) \in Nat /\ Total(lost) \in Nat
  BY TotalsTypes
<1>2. ASSUME NEW i \in Pair, Acknowledgement(i)
      PROVE  Total(received)' = Total(received) + (IF IsInitialPhaseOver THEN 1 ELSE 0)
  <2>1. Total(received)' = Total(received')
    BY DEF Total
  <2>2. received' = IF IsInitialPhaseOver THEN Put(received, i, received[i] + 1)
                                          ELSE received
    BY <1>2 DEF Acknowledgement
  <2> QED
    BY <1>1, <2>1, <2>2, TotalPlusOne
<1>3. ASSUME NEW i \in Pair, Loss(i)
      PROVE  Total(lost)' = Total(lost) + (IF IsInitialPhaseOver THEN 1 ELSE 0)
  <2>1. Total(lost)' = Total(lost')
    BY DEF Total
  <2>2. lost' = IF IsInitialPhaseOver THEN Put(lost, i, lost[i] + 1) ELSE lost
    BY <1>3 DEF Loss
  <2> QED
    BY <1>1, <2>1, <2>2, TotalPlusOne
<1>4. ASSUME ResetAndInitialize
      PROVE  Total(received)' = 0 /\ Total(lost)' = 0
  <2>1. received' = [i \in Pair |-> 0] /\ lost' = [i \in Pair |-> 0]
    BY <1>4 DEF ResetAndInitialize, NetworkReset, StatisticsReset
  <2>2. Total(received)' = Total(received') /\ Total(lost)' = Total(lost')
    BY DEF Total
  <2> QED
    BY <2>1, <2>2, TotalZero
<1> QED
  BY <1>2, <1>3, <1>4

(* A total stays as long as its function stays.                            *)
LEMMA TotalsStay ==
  /\ UNCHANGED received => Total(received)' = Total(received)
  /\ UNCHANGED lost => Total(lost)' = Total(lost)
BY DEF Total

-----------------------------------------------------------------------------
(* The initial phase and the target.                                       *)

LEMMA PhaseStep ==
  ASSUME IInv, OutcomeInv, PhaseInv, Next
  PROVE  PhaseInv'
<1>1. TypeOK
  BY DEF IInv, AccessInv, PairInv
<1>2. /\ Total(received) \in Nat /\ Total(lost) \in Nat /\ clock \in Nat
      /\ InitialPhaseTime \in Nat /\ TargetSimTime \in Nat
  BY <1>1, TotalsTypes
<1>3. ASSUME NEW i \in Pair, Acknowledgement(i) \/ Loss(i)
      PROVE  PhaseInv'
  <2>1. ~IsInitialPhaseOver => /\ Total(received)' = Total(received)
                               /\ Total(lost)' = Total(lost)
    BY <1>1, <1>2, <1>3, TotalsChange, TotalsStay DEF Acknowledgement, Loss
  <2>2. clock' = clock /\ running' = running
    BY <1>3 DEF Acknowledgement, Loss
  <2> QED
    BY <2>1, <2>2 DEF PhaseInv, IsInitialPhaseOver
<1>4. ASSUME NEW i \in Pair, AckArrival(i) \/ Accounting(i) \/ NothingCounted
      PROVE  PhaseInv'
  <2>1. UNCHANGED <<received, lost, clock, running>>
    BY <1>4 DEF AckArrival, Accounting, NothingCounted
  <2> QED
    BY <2>1, TotalsStay DEF PhaseInv, IsInitialPhaseOver
<1>5. CASE CountingTick
  <2>1. /\ Total(received)' = Total(received) /\ Total(lost)' = Total(lost)
        /\ clock' = clock + 1
    BY <1>5, TotalsStay DEF CountingTick, Tick, MinimalTimeStep
  <2>2. ~IsInitialPhaseOver' => ~IsInitialPhaseOver
    BY <1>2, <2>1 DEF IsInitialPhaseOver
  <2>3. ASSUME ~running', TargetSimTime > 0
        PROVE  clock' > MinimalTimeStep
    <3>1. SUFFICES ASSUME clock = 0 PROVE FALSE
      BY <1>2, <2>1 DEF MinimalTimeStep
    <3>2. IsTargetCriteriaMet
      BY <1>2, <1>5, <2>1, <2>3, <3>1 DEF CountingTick, Tick
    <3>3. Total(received) = 0 /\ Total(lost) = 0
      BY <1>2, <3>1 DEF PhaseInv, IsInitialPhaseOver
    <3> QED
      BY <3>2, <3>3 DEF IsTargetCriteriaMet, RateReached
  <2> QED
    BY <2>1, <2>2, <2>3 DEF PhaseInv
<1>6. CASE ResetAndInitialize
  <2>1. running'
    BY <1>6 DEF ResetAndInitialize
  <2> QED
    BY <1>1, <1>6, <2>1, TotalsChange DEF PhaseInv
<1>7. 0 \in Pair
  BY DEF Pair
<1> QED
  BY <1>3, <1>4, <1>5, <1>6, <1>7, AccountCases

LEMMA TargetStep ==
  ASSUME IInv, OutcomeInv, TargetInv, Next
  PROVE  TargetInv'
<1>1. TypeOK
  BY DEF IInv, AccessInv, PairInv
<1>2. /\ Total(received) \in Nat /\ clock \in Nat /\ AckMsgTime \in Nat \ {0}
      /\ InitialPhaseTime \in Nat /\ TargetReceived \in Nat
      /\ endAckTime \in [Pair -> EventTime] /\ running \in BOOLEAN
  BY <1>1, TotalsTypes
<1>3. /\ \A j \in Pair : endAckTime[j] <= AckMsgTime /\ (~running => ~NewAck(j))
      /\ TargetReceived > 0 => Total(received) <= TargetReceived
      /\ TargetReceived > 0 /\ running /\ Total(received) = TargetReceived =>
            IsInitialPhaseOver /\ \E j \in Pair : NewAck(j)
  BY DEF TargetInv, TargetReceivedIsExact
<1>4. SUFFICES /\ \A j \in Pair : endAckTime'[j] <= AckMsgTime /\ (~running' => ~NewAck(j)')
               /\ TargetReceived > 0 => Total(received)' <= TargetReceived
               /\ TargetReceived > 0 /\ running' /\ Total(received)' = TargetReceived =>
                     IsInitialPhaseOver' /\ \E j \in Pair : NewAck(j)'
  BY DEF TargetInv, TargetReceivedIsExact
<1> DEFINE Goal == /\ \A j \in Pair : endAckTime'[j] <= AckMsgTime /\ (~running' => ~NewAck(j)')
                   /\ TargetReceived > 0 => Total(received)' <= TargetReceived
                   /\ TargetReceived > 0 /\ running' /\ Total(received)' = TargetReceived =>
                         IsInitialPhaseOver' /\ \E j \in Pair : NewAck(j)'
<1>5. ASSUME NEW i \in Pair, Acknowledgement(i)
      PROVE  Goal
  <2>1. /\ running /\ running' /\ clock' = clock
        /\ endAckTime' = [endAckTime EXCEPT ![i] = AckMsgTime]
    BY <1>5 DEF Acknowledgement, Put
  <2>2. Total(received)' = Total(received) + (IF IsInitialPhaseOver THEN 1 ELSE 0)
    BY <1>1, <1>5, TotalsChange
  <2>3. \A j \in Pair : endAckTime[j] = -1
    <3>1. \A j \in Pair : ~Acking(j)
      BY <1>5 DEF Acknowledgement, Acking
    <3> QED
      BY <3>1 DEF IInv, AccessInv, PairInv, LinkInv, Link, Inactive
  <2>4. \A j \in Pair : ~NewAck(j)
    BY <1>2, <2>3 DEF NewAck
  <2>5. TargetReceived > 0 => Total(received) < TargetReceived
    BY <1>2, <1>3, <2>1, <2>4
  <2>6. endAckTime'[i] = AckMsgTime /\ \A j \in Pair : endAckTime'[j] <= AckMsgTime
    BY <1>2, <2>1, <2>3
  <2>7. NewAck(i)' /\ (IsInitialPhaseOver' <=> IsInitialPhaseOver)
    BY <2>1, <2>6 DEF NewAck, IsInitialPhaseOver
  <2> QED
    BY <1>2, <2>1, <2>2, <2>5, <2>6, <2>7
<1>6. ASSUME NEW i \in Pair, AckArrival(i)
      PROVE  Goal
  <2>1. /\ endAckTime[i] = 0 /\ endAckTime' = [endAckTime EXCEPT ![i] = -1]
        /\ UNCHANGED <<received, clock, running>>
    BY <1>6 DEF AckArrival, Put, Inactive
  <2>2. \A j \in Pair : NewAck(j)' <=> NewAck(j)
    BY <1>2, <2>1 DEF NewAck
  <2>3. \A j \in Pair : endAckTime'[j] <= AckMsgTime
    BY <1>2, <1>3, <2>1
  <2> QED
    BY <1>3, <2>1, <2>2, <2>3, TotalsStay DEF IsInitialPhaseOver
<1>7. ASSUME NEW i \in Pair, Accounting(i) \/ Loss(i) \/ NothingCounted
      PROVE  Goal
  <2>1. UNCHANGED <<received, endAckTime, clock, running>>
    BY <1>7 DEF Accounting, Loss, NothingCounted
  <2> QED
    BY <1>3, <2>1, TotalsStay DEF IsInitialPhaseOver, NewAck
<1>8. CASE CountingTick
  <2>1. \A j \in Pair : endAckTime'[j] <= AckMsgTime /\ ~NewAck(j)'
    <3>1. endAckTime' = CountDown(endAckTime)
      BY <1>8 DEF CountingTick, Tick, CountDownTimers
    <3>2. \A j \in Pair : endAckTime[j] \in Nat \union {-1} /\ endAckTime[j] <= AckMsgTime
      BY <1>2, <1>3 DEF EventTime, Inactive
    <3>3. \A j \in Pair : endAckTime'[j] = IF endAckTime[j] > 0 THEN endAckTime[j] - 1
                                                                ELSE endAckTime[j]
      BY <3>1 DEF CountDown, MinimalTimeStep
    <3>4. \A j \in Pair : endAckTime'[j] < AckMsgTime
      BY <1>2, <3>2, <3>3
    <3> QED
      BY <1>2, <3>2, <3>3, <3>4 DEF NewAck
  <2>2. UNCHANGED received /\ running
    BY <1>8 DEF CountingTick, Tick
  <2>3. Total(received)' = Total(received)
    BY <2>2, TotalsStay
  <2>4. TargetReceived > 0 /\ Total(received) = TargetReceived => ~running'
    <3>1. ASSUME TargetReceived > 0, Total(received) = TargetReceived
          PROVE  ~running'
      <4>1. clock' = clock + 1 /\ IsInitialPhaseOver
        BY <1>3, <1>8, <2>2, <3>1 DEF CountingTick, Tick, MinimalTimeStep
      <4>2. IsInitialPhaseOver'
        BY <1>2, <4>1 DEF IsInitialPhaseOver
      <4>3. IsTargetCriteriaMet
        BY <1>2, <3>1 DEF IsTargetCriteriaMet
      <4> QED
        BY <1>8, <4>2, <4>3 DEF CountingTick, Tick
    <3> QED
      BY <3>1
  <2> QED
    BY <1>3, <2>1, <2>3, <2>4
<1>9. CASE ResetAndInitialize
  <2>1. running' /\ \A j \in Pair : endAckTime'[j] = -1
    BY <1>9 DEF ResetAndInitialize, NetworkReset, TimersReset, Inactive
  <2>2. Total(received)' = 0
    BY <1>1, <1>9, TotalsChange
  <2> QED
    BY <1>2, <2>1, <2>2
<1>10. 0 \in Pair
  BY DEF Pair
<1> QED
  BY <1>5, <1>6, <1>7, <1>8, <1>9, <1>10, AccountCases

-----------------------------------------------------------------------------
(* The averages.                                                           *)

(* Multiplication once more: products grow with their factors.             *)
LEMMA ProductPlusOne ==
  ASSUME NEW m \in Int, NEW n \in Int
  PROVE  m * (n + 1) = m * n + m /\ m * (n + 1 - 1) = m * n /\ m * (n - 0) = m * n
OBVIOUS

LEMMA ProductOrder ==
  ASSUME NEW a \in Int, NEW b \in Int, NEW n \in Nat, a <= b
  PROVE  a * n <= b * n
<1>1. PICK d \in Nat : b = a + d
  <2>1. b - a \in Nat /\ b = a + (b - a)
    OBVIOUS
  <2> QED
    BY <2>1
<1>2. (a + d) * n = a * n + d * n /\ a * n \in Int
  OBVIOUS
<1>3. d * n \in Nat
  BY NatProduct
<1> QED
  BY <1>1, <1>2, <1>3

(* The retransmissions of the packets whose ACK has arrived.               *)
RetranBound == (MaxRetranCount - 1) * (Total(received) - IF Accepted THEN 1 ELSE 0)

LEMMA AverageStep ==
  ASSUME IInv, OutcomeInv, AverageInv, Next
  PROVE  AverageInv'
<1>1. TypeOK
  BY DEF IInv, AccessInv, PairInv
<1>2. /\ Total(received) \in Nat /\ Total(lost) \in Nat /\ clock \in Nat
      /\ totRetranCount \in Nat /\ totPacketAwaitTime \in Int /\ totPacketDelay \in Int
      /\ MaxRetranCount - 1 \in Nat
  BY <1>1, TotalsTypes
<1>3. /\ Total(lost) = 0 => totPacketAwaitTime <= totPacketDelay
      /\ InitialPhaseTime = 0 => totRetranCount <= RetranBound
  BY DEF AverageInv, RetranBound
<1>4. SUFFICES /\ Total(lost)' = 0 => totPacketAwaitTime' <= totPacketDelay'
               /\ InitialPhaseTime = 0 => totRetranCount' <= RetranBound'
  BY DEF AverageInv, RetranBound
<1> DEFINE Goal == /\ Total(lost)' = 0 => totPacketAwaitTime' <= totPacketDelay'
                   /\ InitialPhaseTime = 0 => totRetranCount' <= RetranBound'
<1>5. ASSUME NEW i \in Pair, Acknowledgement(i)
      PROVE  Goal
  <2>1. /\ Total(lost)' = Total(lost) /\ totPacketAwaitTime' = totPacketAwaitTime
        /\ totPacketDelay' = totPacketDelay /\ totRetranCount' = totRetranCount
        /\ ~Accepted /\ Accepted'
    BY <1>5, TotalsStay DEF Acknowledgement, totals
  <2>2. InitialPhaseTime = 0 => RetranBound' = RetranBound
    <3>1. SUFFICES ASSUME InitialPhaseTime = 0 PROVE RetranBound' = RetranBound
      OBVIOUS
    <3>2. IsInitialPhaseOver
      BY <1>5, <3>1 DEF Acknowledgement, IsInitialPhaseOver
    <3>3. Total(received)' = Total(received) + 1
      BY <1>1, <1>5, <3>2, TotalsChange
    <3> QED
      BY <1>2, <2>1, <3>3, ProductPlusOne DEF RetranBound
  <2> QED
    BY <1>3, <2>1, <2>2
<1>6. ASSUME NEW i \in Pair, Accounting(i)
      PROVE  Goal
  <2>1. /\ Total(lost)' = Total(lost) /\ Total(received)' = Total(received)
        /\ Accepted /\ ~Accepted'
    BY <1>6, TotalsStay DEF Accounting
  <2>2. Total(lost)' = 0 => totPacketAwaitTime' <= totPacketDelay'
    <3>1. AwaitTime(i) \in Int /\ DelayTime(i) \in Int
      BY <1>6 DEF Accounting
    <3> QED
      BY <1>2, <1>3, <1>6, <2>1, <3>1 DEF Accounting
  <2>3. ASSUME InitialPhaseTime = 0
        PROVE  totRetranCount' <= RetranBound'
    <3>1. IsInitialPhaseOver
      BY <1>6, <2>3 DEF Accounting, IsInitialPhaseOver
    <3>2. totRetranCount' = totRetranCount + retranNum[i]
      BY <1>6, <3>1 DEF Accounting
    <3> DEFINE m == MaxRetranCount - 1
               n == Total(received) - 1
    <3>3. totRetranCount <= m * n
      BY <1>3, <2>1, <2>3 DEF RetranBound
    <3>4. RetranBound' = m * (n + 1)
      BY <1>2, <2>1 DEF RetranBound
    <3>5. m * (n + 1) = m * n + m /\ m * n \in Int
      BY <1>2, ProductPlusOne
    <3>6. retranNum[i] \in Nat /\ retranNum[i] <= m
      BY <1>6 DEF Accounting
    <3>7. m \in Nat /\ totRetranCount \in Nat
      BY <1>2
    <3> HIDE DEF m, n
    <3> QED
      BY <3>7, <3>2, <3>3, <3>4, <3>5, <3>6
  <2> QED
    BY <2>2, <2>3
<1>7. ASSUME NEW i \in Pair, Loss(i)
      PROVE  Goal
  <2>1. /\ Total(lost)' = Total(lost) + (IF IsInitialPhaseOver THEN 1 ELSE 0)
        /\ Total(received)' = Total(received)
    BY <1>1, <1>7, TotalsChange, TotalsStay DEF Loss
  <2>2. /\ totRetranCount' = totRetranCount /\ totPacketDelay' = totPacketDelay
        /\ Accepted' <=> Accepted
        /\ ~IsInitialPhaseOver => totPacketAwaitTime' = totPacketAwaitTime
    BY <1>7 DEF Loss
  <2>3. RetranBound' = RetranBound
    BY <2>1, <2>2 DEF RetranBound
  <2> QED
    BY <1>2, <1>3, <2>1, <2>2, <2>3
<1>8. ASSUME NEW i \in Pair, AckArrival(i) \/ NothingCounted \/ CountingTick
      PROVE  Goal
  <2>1. UNCHANGED <<received, lost, totals>> /\ (Accepted' <=> Accepted)
    BY <1>8 DEF AckArrival, NothingCounted, CountingTick
  <2>2. Total(received)' = Total(received) /\ Total(lost)' = Total(lost)
    BY <2>1, TotalsStay
  <2>3. RetranBound' = RetranBound
    BY <2>1, <2>2 DEF RetranBound
  <2> QED
    BY <1>3, <2>1, <2>2, <2>3 DEF totals
<1>9. CASE ResetAndInitialize
  <2>1. /\ totRetranCount' = 0 /\ totPacketAwaitTime' = 0 /\ totPacketDelay' = 0
        /\ transmissions' = {} /\ \A k \in Pair : ~wasTranOk'[k]
    BY <1>9 DEF ResetAndInitialize, NetworkReset, StatisticsReset, ChannelReset,
       TransmitterReset
  <2>2. ~Accepted'
    BY <2>1 DEF Accepted, headAccepted, Acking
  <2>3. RetranBound' = (MaxRetranCount - 1) * (0 - 0)
    BY <1>1, <1>9, <2>2, TotalsChange DEF RetranBound
  <2>4. RetranBound' = 0
    BY <1>2, <2>3
  <2> QED
    BY <2>1, <2>4
<1>10. 0 \in Pair
  BY DEF Pair
<1> QED
  BY <1>5, <1>6, <1>7, <1>8, <1>9, <1>10, AccountCases

-----------------------------------------------------------------------------
(* The packets in the totals.                                              *)

LEMMA TotalsStep ==
  ASSUME IInv, OutcomeInv, TotalsInv, HistoryNext
  PROVE  TotalsInv'
<1>1. TypeOK /\ HistoryNext
  BY DEF IInv, AccessInv, PairInv
<1>2. /\ Total(received) \in Nat /\ totPacketDelay \in Int /\ counted \in Nat
      /\ clock \in Nat /\ InitialPhaseTime \in Nat
  BY <1>1, TotalsTypes DEF TotalsInv
<1>3. /\ Total(received) - counted \in IF Accepted THEN {0, 1} ELSE {-1, 0}
      /\ ~IsInitialPhaseOver => Total(received) - counted = 0
  BY DEF TotalsInv
<1>4. CASE ResetAndInitialize /\ HistoryReset
  <2>1. Total(received)' = 0 /\ counted' = 0
    BY <1>1, <1>4, TotalsChange DEF HistoryReset
  <2> QED
    BY <2>1 DEF TotalsInv
<1>5. ASSUME Next, ~ResetAndInitialize, HistoryStep
      PROVE  TotalsInv'
  <2>1. counted' = IF totPacketDelay' > totPacketDelay THEN counted + 1 ELSE counted
    BY <1>5 DEF HistoryStep
  <2>2. ASSUME NEW i \in Pair, Acknowledgement(i)
        PROVE  TotalsInv'
    <3>1. Total(received)' = Total(received) + (IF IsInitialPhaseOver THEN 1 ELSE 0)
      BY <1>1, <2>2, TotalsChange
    <3>2. /\ counted' = counted /\ ~Accepted /\ Accepted'
          /\ IsInitialPhaseOver' <=> IsInitialPhaseOver
      BY <1>2, <2>1, <2>2 DEF Acknowledgement, totals, IsInitialPhaseOver
    <3> QED
      BY <1>2, <1>3, <3>1, <3>2 DEF TotalsInv
  <2>3. ASSUME NEW i \in Pair, Accounting(i)
        PROVE  TotalsInv'
    <3>1. /\ Total(received)' = Total(received) /\ Accepted /\ ~Accepted'
          /\ IsInitialPhaseOver' <=> IsInitialPhaseOver
      BY <2>3, TotalsStay DEF Accounting, IsInitialPhaseOver
    <3>2. counted' = IF IsInitialPhaseOver THEN counted + 1 ELSE counted
      <4>1. DelayTime(i) \in Nat \ {0}
        BY <2>3 DEF Accounting
      <4>2. totPacketDelay' = totPacketDelay
                                + (IF IsInitialPhaseOver THEN DelayTime(i) ELSE 0)
        BY <2>3 DEF Accounting
      <4> QED
        BY <1>2, <2>1, <4>1, <4>2
    <3> QED
      BY <1>2, <1>3, <3>1, <3>2 DEF TotalsInv
  <2>4. ASSUME NEW i \in Pair,
               AckArrival(i) \/ Loss(i) \/ NothingCounted \/ CountingTick
        PROVE  TotalsInv'
    <3>1. /\ UNCHANGED <<received, totPacketDelay>> /\ (Accepted' <=> Accepted)
          /\ clock' = clock \/ clock' = clock + 1
      BY <2>4 DEF AckArrival, Loss, NothingCounted, CountingTick, totals, Tick,
         MinimalTimeStep
    <3>2. /\ Total(received)' = Total(received) /\ counted' = counted
          /\ ~IsInitialPhaseOver' => ~IsInitialPhaseOver
      BY <1>2, <2>1, <3>1, TotalsStay DEF IsInitialPhaseOver
    <3> QED
      BY <1>2, <1>3, <3>1, <3>2 DEF TotalsInv
  <2>5. 0 \in Pair
    BY DEF Pair
  <2> QED
    BY <1>5, <2>2, <2>3, <2>4, <2>5, AccountCases
<1> QED
  BY <1>1, <1>4, <1>5, HistoryCases

-----------------------------------------------------------------------------
(* The time the packets received have taken.                               *)

CapacityView == <<transmissions, endPacketTime, transmissionTime, wasPacketReceived,
                  wasPacketUncorrupted, wasUncorruptedByChannel, endAckTime, received,
                  clock, idleTicks>>

LEMMA CapacityFrame ==
  ASSUME NEW time \in TransmissionTimes, Capacity(time), UNCHANGED CapacityView
  PROVE  Capacity(time)'
BY DEF Capacity, CapacityView, Acking, Sending, Elapsed, TransmitAckTriggered, Total,
   Exchange

LEMMA ExchangeProduct ==
  ASSUME NEW time \in TransmissionTimes, NEW n \in Nat
  PROVE  /\ Exchange(time) \in Nat
         /\ n * Exchange(time) \in Nat
         /\ (n + 1) * Exchange(time) = n * Exchange(time) + Exchange(time)
         /\ 0 * Exchange(time) = 0
<1>1. Exchange(time) \in Nat
  BY DEF Exchange
<1> HIDE DEF Exchange
<1>2. n * Exchange(time) \in Nat
  BY <1>1, NatProduct
<1> QED
  BY <1>1, <1>2

(* What Capacity says, with the time taken as a number.                    *)
Taken(taken, shortest) ==
    /\ (\A i \in Pair : ~Acking(i)) => taken + idleTicks <= clock
    /\ \A i \in Pair :
          /\ Acking(i) => taken <= clock + endAckTime[i]
          /\ Sending(i) => taken + InitDownCounter + 1 + Elapsed(i) <= clock
          /\ TransmitAckTriggered(i) =>
                taken + InitDownCounter + 1 + shortest <= clock

LEMMA CapacityTaken ==
  ASSUME NEW time, NEW taken
  PROVE  /\ taken = Total(received) * Exchange(time) =>
               (Capacity(time) <=> Taken(taken, time))
         /\ taken = Total(received)' * Exchange(time) =>
               (Capacity(time)' <=> Taken(taken, time)')
BY DEF Capacity, Taken, Exchange

(* A packet has ended: it took the shortest time at least.                 *)
LEMMA TakenEndPacket ==
  ASSUME TypeOK, LinkInv, NEW i \in Pair, EndPacketTransmission(i), UNCHANGED <<clock, idleTicks>>,
         NEW time \in TransmissionTimes, IsShortest(time), NEW taken \in Nat,
         Taken(taken, time)
  PROVE  Taken(taken, time)'
<1>1. /\ Sending(i) /\ endPacketTime[i] = 0 /\ Elapsed(i) \in Nat /\ time <= Elapsed(i)
  <2>1. endPacketTime[i] = 0 /\ Sending(i)
    BY DEF EndPacketTransmission, LinkInv, Link, Inactive
  <2>2. /\ transmissionTime[i] \in TransmissionTimes /\ transmissionTime[i] \in Nat
        /\ Elapsed(i) \in Nat
    BY <2>1, SendingFacts DEF LinkInv, Link
  <2>3. Elapsed(i) = transmissionTime[i]
    BY <2>1, <2>2 DEF Elapsed
  <2> QED
    BY <2>1, <2>2, <2>3 DEF IsShortest
<1>2. taken + InitDownCounter + 1 + time <= clock
  <2>1. taken + InitDownCounter + 1 + Elapsed(i) <= clock
    BY <1>1 DEF Taken
  <2>2. clock \in Nat /\ time \in Nat
    BY DEF TypeOK, ScanTypeOK
  <2> QED
    BY <1>1, <2>1, <2>2
<1>3. /\ UNCHANGED <<clock, idleTicks, endAckTime, transmissionTime>>
      /\ \A j \in Pair : Acking(j)' <=> Acking(j)
      /\ \A j \in Pair : Sending(j)' => Sending(j) /\ j # i
      /\ \A j \in Pair : TransmitAckTriggered(j)' => TransmitAckTriggered(j) \/ j = i
      /\ \A j \in Pair : j # i => Elapsed(j)' = Elapsed(j)
  <2>1. UNCHANGED <<clock, idleTicks, endAckTime, transmissionTime>>
    BY DEF EndPacketTransmission, txVars
  <2>2. /\ \A j \in Pair : PacketOf(i) # AckTo(j)
        /\ \A j \in Pair : PacketOf(j) = PacketOf(i) => j = i
    BY DEF PacketOf, AckTo
  <2>3. transmissions' = transmissions \ {PacketOf(i)}
    BY DEF EndPacketTransmission
  <2>4. /\ \A j \in Pair : Acking(j)' <=> Acking(j)
        /\ \A j \in Pair : Sending(j)' => Sending(j) /\ j # i
    BY <2>2, <2>3 DEF Acking, Sending, AckTo, PacketOf
  <2>5. \A j \in Pair : j # i => /\ endPacketTime'[j] = endPacketTime[j]
                                 /\ TransmitAckTriggered(j)' <=> TransmitAckTriggered(j)
    BY DEF EndPacketTransmission, Put, TypeOK, NetworkTypeOK, ReceiverTypeOK, TimersTypeOK,
       TransmitAckTriggered
  <2> QED
    BY <2>1, <2>4, <2>5 DEF Elapsed
<1> QED
  BY <1>2, <1>3 DEF Taken

(* The ACK ends that the time was counted up to.                           *)
LEMMA TakenEndAck ==
  ASSUME TypeOK, LinkInv, AirInv, SnapshotInv, NEW i \in Pair, EndAckTransmission(i), Sensed,
         clock > 0, UNCHANGED <<clock, idleTicks>>,
         NEW time \in TransmissionTimes, NEW taken \in Nat, Taken(taken, time)
  PROVE  Taken(taken, time)'
<1>1. Acking(i) /\ isChannelBusy /\ endAckTime[i] = 0
  BY BusyFacts DEF EndAckTransmission
<1>2. transmissions = {AckTo(i)} /\ \A j \in Pair : ~TransmitAckTriggered(j)
  BY <1>1 DEF AirInv, AckAlone
<1>3. taken <= clock /\ idleTicks = 0
  <2>1. taken <= clock + endAckTime[i] /\ clock \in Nat
    BY <1>1 DEF Taken, TypeOK, ScanTypeOK
  <2> QED
    BY <1>1, <2>1 DEF SnapshotInv, BusyFlagIsSnapshot
<1>4. /\ transmissions' = {}
      /\ \A j \in Pair : ~TransmitAckTriggered(j)'
      /\ UNCHANGED <<clock, idleTicks>>
  BY <1>2 DEF EndAckTransmission, rxVars, TransmitAckTriggered
<1> QED
  BY <1>3, <1>4 DEF Taken, Acking, Sending

(* The ACK starts, and with it the packet is counted.                      *)
LEMMA TakenAck ==
  ASSUME TypeOK, AirInv, NEW i \in Pair, TransmitAck(i), UNCHANGED <<clock, idleTicks>>,
         NEW time \in TransmissionTimes, NEW taken \in Nat, NEW taken2 \in Nat,
         Taken(taken, time), taken2 = taken \/ taken2 = taken + Exchange(time)
  PROVE  Taken(taken2, time)'
<1>1. /\ TransmitAckTriggered(i) /\ transmissions = {}
      /\ \A j \in Pair : TransmitAckTriggered(j) => j = i
  BY DEF TransmitAck, AirInv
<1>2. taken2 <= clock + AckMsgTime
  <2>1. taken + InitDownCounter + 1 + time <= clock
    BY <1>1 DEF Taken
  <2>2. clock \in Nat /\ time \in Nat
    BY DEF TypeOK, ScanTypeOK
  <2> QED
    BY <2>1, <2>2 DEF Exchange
<1>3. /\ transmissions' = {AckTo(i)}
      /\ endAckTime'[i] = AckMsgTime
      /\ \A j \in Pair : ~TransmitAckTriggered(j)'
  <2>1. \A j \in Pair : j # i => (TransmitAckTriggered(j)' <=> TransmitAckTriggered(j))
    BY DEF TransmitAck, Put, TypeOK, NetworkTypeOK, ReceiverTypeOK, TransmitAckTriggered
  <2>2. ~TransmitAckTriggered(i)' /\ endAckTime'[i] = AckMsgTime
    BY DEF TransmitAck, Put, TypeOK, NetworkTypeOK, ReceiverTypeOK, TimersTypeOK,
       TransmitAckTriggered
  <2> QED
    BY <1>1, <2>1, <2>2 DEF TransmitAck
<1>4. /\ \A j \in Pair : ~Sending(j)' /\ (Acking(j)' => j = i)
      /\ Acking(i)'
  BY <1>3 DEF Sending, Acking, PacketOf, AckTo
<1> QED
  BY <1>2, <1>3, <1>4 DEF Taken

(* A packet starts after an idle count-down.                               *)
LEMMA TakenStart ==
  ASSUME TypeOK, LinkInv, AirInv, Sensed, ~isChannelBusy, NEW i \in Pair, SendPacket(i),
         idleTicks > InitDownCounter, idleTicks \in Nat, UNCHANGED <<clock, idleTicks>>,
         NEW time \in TransmissionTimes, NEW taken \in Nat, Taken(taken, time)
  PROVE  Taken(taken, time)'
<1>1. \A j \in Pair : ~Acking(j) /\ ~TransmitAckTriggered(j)
  BY DEF AirInv, IdleFlagIsCurrent
<1>2. taken + idleTicks <= clock /\ clock \in Nat
  BY <1>1 DEF Taken, TypeOK, ScanTypeOK
<1>3. /\ \A j \in Pair : ~Acking(j)' /\ ~TransmitAckTriggered(j)'
      /\ \A j \in Pair : Sending(j)' => Sending(j) \/ j = i
  BY <1>1 DEF SendPacket, rxVars, TransmitAckTriggered, Acking, Sending, PacketOf, AckTo
<1>4. Elapsed(i)' = 0
  <2>1. PICK t \in TransmissionTimes : transmissionTime'[i] = t /\ endPacketTime'[i] = t
    BY DEF SendPacket, Put, TypeOK, NetworkTypeOK, TransmitterTypeOK, TimersTypeOK
  <2>2. t \in Nat
    OBVIOUS
  <2> QED
    BY <2>1, <2>2 DEF Elapsed
<1>5. ASSUME NEW j \in Pair, j # i, Sending(j)
      PROVE  taken + InitDownCounter + 1 + Elapsed(j)' <= clock
  <2>1. Elapsed(j)' = Elapsed(j)
    BY <1>5 DEF SendPacket, Put, TypeOK, NetworkTypeOK, TransmitterTypeOK, TimersTypeOK,
       Elapsed
  <2> QED
    BY <1>5, <2>1 DEF Taken
<1>6. taken + InitDownCounter + 1 + Elapsed(i)' <= clock
  BY <1>2, <1>4
<1> QED
  BY <1>2, <1>3, <1>5, <1>6 DEF Taken

(* Everything is one step older.                                           *)
LEMMA TakenTick ==
  ASSUME TypeOK, LinkInv, SnapshotInv, HistoryStep, Tick,
         NEW time \in TransmissionTimes, NEW taken \in Nat, Taken(taken, time)
  PROVE  Taken(taken, time)'
<1>1. /\ clock' = clock + 1 /\ clock \in Nat /\ idleTicks \in Nat
      /\ idleTicks' \in Nat /\ idleTicks' <= idleTicks + 1
  <2>1. clock' = clock + 1 /\ clock \in Nat /\ clock' # clock
    BY DEF Tick, MinimalTimeStep, TypeOK, ScanTypeOK
  <2>2. idleTicks \in Nat /\ idleTicks <= IdleBound /\ IdleBound \in Nat
    BY DEF SnapshotInv, IdleBound
  <2>3. idleTicks' = IF transmissions = {} /\ idleTicks < IdleBound THEN idleTicks + 1
                     ELSE IF transmissions = {} THEN IdleBound ELSE 0
    BY <2>1 DEF HistoryStep
  <2> QED
    BY <2>1, <2>2, <2>3
<1>2. ASSUME \A i \in Pair : ~Acking(i)'
      PROVE  taken + idleTicks' <= clock'
  <2>1. taken + idleTicks <= clock
    BY <1>2, ElapsedTick DEF Taken
  <2>2. PICK n \in Nat : n = idleTicks' /\ n <= idleTicks + 1
    BY <1>1
  <2>3. taken + n <= clock + 1
    <3>1. clock \in Nat /\ idleTicks \in Nat /\ n <= idleTicks + 1
      BY <1>1, <2>2
    <3> QED
      BY <2>1, <3>1
  <2> QED
    BY <1>1, <2>2, <2>3
<1>3. ASSUME NEW i \in Pair, Acking(i)'
      PROVE  taken <= clock' + endAckTime'[i]
  <2>1. Acking(i) /\ endAckTime[i] # 0 /\ endAckTime[i] \in Nat \union {-1}
    BY <1>3, ElapsedTick, QuietFacts, AwaitTypes DEF Tick
  <2>2. endAckTime[i] \in Nat /\ endAckTime'[i] = endAckTime[i] - 1
    BY <2>1, CountDownValue DEF LinkInv, Link, Inactive, Tick, CountDownTimers, TypeOK,
       NetworkTypeOK, TimersTypeOK
  <2>3. taken <= clock + endAckTime[i]
    BY <2>1 DEF Taken
  <2> QED
    BY <1>1, <2>2, <2>3
<1>4. ASSUME NEW i \in Pair, Sending(i)'
      PROVE  taken + InitDownCounter + 1 + Elapsed(i)' <= clock'
  <2>1. Sending(i) /\ Elapsed(i)' = Elapsed(i) + 1
    BY <1>4, ElapsedTick
  <2>2. taken + InitDownCounter + 1 + Elapsed(i) <= clock /\ Elapsed(i) \in Nat
    BY <2>1, SendingFacts DEF Taken
  <2> QED
    BY <1>1, <2>1, <2>2
<1>5. \A i \in Pair : ~TransmitAckTriggered(i)'
  BY ElapsedTick, QuietFacts DEF Tick
<1> QED
  BY <1>2, <1>3, <1>4, <1>5 DEF Taken

LEMMA CapacityStep ==
  ASSUME HistoryInv, HistoryNext, PacketsOutlastIntervals,
         NEW time \in TransmissionTimes, IsShortest(time), Capacity(time)
  PROVE  Capacity(time)'
<1>1. /\ IInv /\ TypeOK /\ NetworkTypeOK /\ LinkInv /\ SenseInv /\ AirInv /\ ExpiredInv
      /\ SnapshotInv
  BY DEF HistoryInv, IInv, AccessInv, PairInv, CarrierInv, TypeOK
<1>2. Total(received) \in Nat /\ received \in [Pair -> Nat]
  BY <1>1, TotalsTypes
<1>3. PICK taken \in Nat : taken = Total(received) * Exchange(time)
  BY <1>2, ExchangeProduct
<1>4. Taken(taken, time)
  BY <1>3, CapacityTaken
<1>5. UNCHANGED received /\ Taken(taken, time)' => Capacity(time)'
  BY <1>3, TotalsStay, CapacityTaken
<1>6. CASE ResetAndInitialize /\ HistoryReset
  <2>1. Total(received)' = 0
    <3>1. received' = [k \in Pair |-> 0] /\ Total(received)' = Total(received')
      BY <1>6 DEF ResetAndInitialize, NetworkReset, StatisticsReset, Total
    <3> QED
      BY <3>1, TotalZero
  <2>2. Total(received)' * Exchange(time) = 0
    BY <2>1, ExchangeProduct
  <2>3. Taken(0, time)'
    BY <1>6 DEF ResetAndInitialize, NetworkReset, ChannelReset, ReceiverReset,
       HistoryReset, Taken, Sending, Acking, TransmitAckTriggered
  <2> QED
    BY <2>2, <2>3, CapacityTaken
<1>7. ASSUME HistoryStep, NEW st \in Stages, NEW i \in Pair, CalmEvent(st, i), Turn(st, i)
      PROVE  Capacity(time)'
  <2>1. clock' = clock /\ idleTicks' = idleTicks
    BY <1>7, TicksStand DEF Turn
  <2>2. UNCHANGED AirView
    BY <1>7, CalmFrame
  <2>3. UNCHANGED <<endAckTime, received>>
    <3>1. CASE GeneratePacket(i) \/ EndAckListening(i) \/ EndTxSleep(i)
      BY <3>1 DEF GeneratePacket, EndAckListening, EndTxSleep, statVars
    <3>2. CASE SuccessfulPacketTransmission(i) \/ RemoveLostPacket(i)
      BY <3>2 DEF SuccessfulPacketTransmission, RemoveLostPacket, timerVars
    <3>3. CASE ScheduleRetransmission(i) \/ StartChannelObserving(i) \/ ProbeChannelState(i)
      BY <3>3 DEF ScheduleRetransmission, StartChannelObserving, ProbeChannelState, statVars
    <3>4. CASE MarkEmptyChannelState(i) \/ ResetTXDownCounter(i) \/ ReduceTXDownCounter(i)
      BY <3>4 DEF MarkEmptyChannelState, ResetTXDownCounter, ReduceTXDownCounter, statVars,
         timerVars
    <3> QED
      BY <1>7, <3>1, <3>2, <3>3, <3>4 DEF CalmEvent
  <2> QED
    BY <2>1, <2>2, <2>3, CapacityFrame DEF AirView, CapacityView
<1>8. ASSUME HistoryStep,
             \/ UpdateChannelState /\ Turn(2, 0)
             \/ ChannelEmpty /\ Turn(3, 0)
             \/ ChannelBusy /\ Turn(4, 0)
             \/ Collision /\ Turn(5, 0)
             \/ NewPass \/ Finished
      PROVE  Capacity(time)'
  <2>1. clock' = clock /\ idleTicks' = idleTicks
    BY <1>8, TicksStand DEF Turn, NewPass, Finished, vars
  <2>2. UNCHANGED <<transmissions, endPacketTime, transmissionTime, wasPacketReceived,
                    wasPacketUncorrupted, wasUncorruptedByChannel, endAckTime, received>>
    <3>1. UNCHANGED <<txVars, rxVars, transmissions>>
      BY <1>8, ChannelStepFrame
    <3>2. UNCHANGED <<endPacketTime, endAckTime, received>>
      BY <1>8 DEF UpdateChannelState, ChannelEmpty, ChannelBusy, Collision, NewPass, Finished,
         vars, networkVars, statVars, timerVars
    <3> QED
      BY <3>1, <3>2 DEF txVars, rxVars
  <2> QED
    BY <2>1, <2>2, CapacityFrame DEF CapacityView
<1>9. ASSUME HistoryStep, NEW i \in Pair, EndPacketTransmission(i), Turn(6, i)
      PROVE  Capacity(time)'
  <2>1. UNCHANGED <<clock, idleTicks>>
    BY <1>9, TicksStand DEF Turn
  <2>2. Taken(taken, time)'
    BY <1>1, <1>4, <1>9, <2>1, TakenEndPacket
  <2> QED
    BY <1>5, <1>9, <2>2 DEF EndPacketTransmission, statVars
<1>10. ASSUME HistoryStep, NEW i \in Pair, EndAckTransmission(i), Turn(7, i)
       PROVE  Capacity(time)'
  <2>1. UNCHANGED <<clock, idleTicks>>
    BY <1>10, TicksStand DEF Turn
  <2>2. Sensed
    BY <1>1, <1>10, SenseTurn DEF EndAckTransmission, Stages
  <2>3. clock > 0
    <3>1. Acking(i) /\ Await(i) /\ endAckTime[i] = 0
      BY <1>1, <1>10 DEF EndAckTransmission, LinkInv, Link, Inactive, IInv, AwaitInv
    <3>2. transmitTimestamp[i] + AckMsgTime - endAckTime[i] < clock
      BY <3>1 DEF Await
    <3>3. transmitTimestamp[i] \in Nat /\ clock \in Nat
      BY <1>1, AwaitTypes
    <3> QED
      BY <3>1, <3>2, <3>3
  <2>4. Taken(taken, time)'
    BY <1>1, <1>4, <1>10, <2>1, <2>2, <2>3, TakenEndAck
  <2> QED
    BY <1>5, <1>10, <2>4 DEF EndAckTransmission, statVars
<1>11. ASSUME HistoryStep, NEW i \in Pair, TransmitAck(i), Turn(18, i)
       PROVE  Capacity(time)'
  <2>1. UNCHANGED <<clock, idleTicks>>
    BY <1>11, TicksStand DEF Turn
  <2>2. Total(received)' = Total(received) \/ Total(received)' = Total(received) + 1
    <3>1. received' = received \/ received' = Put(received, i, received[i] + 1)
      BY <1>11 DEF TransmitAck
    <3>2. Total(received)' = Total(received')
      BY DEF Total
    <3> QED
      BY <1>2, <3>1, <3>2, TotalPlusOne
  <2>3. PICK n \in Nat : n = Total(received)'
    BY <1>2, <2>2
  <2>4. PICK taken2 \in Nat : taken2 = n * Exchange(time)
    BY ExchangeProduct
  <2>5. taken2 = taken \/ taken2 = taken + Exchange(time)
    BY <1>2, <1>3, <2>2, <2>3, <2>4, ExchangeProduct
  <2>6. Taken(taken2, time)'
    BY <1>1, <1>4, <1>11, <2>1, <2>5, TakenAck
  <2> QED
    BY <2>3, <2>4, <2>6, CapacityTaken
<1>12. ASSUME HistoryStep, NEW i \in Pair,
              \/ StartRetransmission(i) /\ Turn(19, i)
              \/ StartTransmission(i) /\ Turn(20, i)
       PROVE  Capacity(time)'
  <2>1. UNCHANGED <<clock, idleTicks>>
    BY <1>12, TicksStand DEF Turn
  <2>2. downCounter[i] = 0 /\ ~isBusy[i] /\ SendPacket(i)
    BY <1>12 DEF StartRetransmission, StartTransmission, StartRetransmissionTriggered,
       StartTransmissionTriggered
  <2>3. Sensed /\ ~isChannelBusy
    BY <1>1, <2>2 DEF ExpiredInv, Expired
  <2>4. Starts(i)
    BY <1>1, <2>2, IdleFacts DEF Starts, SendPacket, Sending
  <2>5. idleTicks > InitDownCounter /\ idleTicks \in Nat
    BY <1>1, <2>4, IdleBeforeStart DEF SnapshotInv
  <2>6. Taken(taken, time)'
    BY <1>1, <1>4, <2>1, <2>2, <2>3, <2>5, TakenStart
  <2> QED
    BY <1>5, <2>2, <2>6 DEF SendPacket, statVars
<1>13. ASSUME HistoryStep, Tick
       PROVE  Capacity(time)'
  <2>1. Taken(taken, time)'
    BY <1>1, <1>4, <1>13, TakenTick
  <2> QED
    BY <1>5, <1>13, <2>1 DEF Tick, statVars
<1>14. CASE Next /\ ~ResetAndInitialize /\ HistoryStep
  <2>1. CASE \E st \in Stages, i \in Pair : CalmEvent(st, i) /\ Turn(st, i)
    BY <1>7, <1>14, <2>1
  <2>2. CASE \E i \in Pair : \/ EndPacketTransmission(i) /\ Turn(6, i)
                             \/ EndAckTransmission(i) /\ Turn(7, i)
                             \/ TransmitAck(i) /\ Turn(18, i)
                             \/ StartRetransmission(i) /\ Turn(19, i)
                             \/ StartTransmission(i) /\ Turn(20, i)
    BY <1>9, <1>10, <1>11, <1>12, <1>14, <2>2
  <2>3. CASE \/ UpdateChannelState /\ Turn(2, 0)
             \/ ChannelEmpty /\ Turn(3, 0)
             \/ ChannelBusy /\ Turn(4, 0)
             \/ Collision /\ Turn(5, 0)
             \/ NewPass \/ Finished
    BY <1>8, <1>14, <2>3
  <2>4. CASE Tick
    BY <1>13, <1>14, <2>4
  <2> QED
    BY <1>14, <2>1, <2>2, <2>3, <2>4, NextCases
<1> QED
  BY <1>1, <1>6, <1>14, HistoryCases

-----------------------------------------------------------------------------
(* The invariant.                                                          *)

LEMMA InitReportInv == Init => ReportInv /\ ~Accepted /\ Total(received) = 0
<1> SUFFICES ASSUME Init PROVE ReportInv /\ ~Accepted /\ Total(received) = 0
  OBVIOUS
<1>1. /\ transmissions = {} /\ running /\ clock = 0
      /\ \A i \in Pair : ~wasTranOk[i] /\ endAckTime[i] = -1
  BY DEF Init, NetworkFresh, TransmitterFresh, ChannelFresh, TimersFresh, Inactive
<1>2. ~Accepted
  BY <1>1 DEF Accepted, headAccepted, Acking
<1>3. /\ Total(received) = 0 /\ Total(lost) = 0
      /\ totRetranCount = 0 /\ totPacketAwaitTime = 0 /\ totPacketDelay = 0
  <2>1. received = [i \in Pair |-> 0] /\ lost = [i \in Pair |-> 0]
    BY DEF Init, NetworkFresh, StatisticsFresh
  <2> QED
    BY <2>1, TotalZero DEF Init, NetworkFresh, StatisticsFresh
<1>4. OutcomeInv
  BY <1>1 DEF OutcomeInv, Outcome
<1>5. PhaseInv /\ TargetInv
  BY <1>1, <1>3 DEF PhaseInv, TargetInv, TargetReceivedIsExact, NewAck
<1>6. AverageInv
  <2>1. (MaxRetranCount - 1) * (0 - 0) = 0
    OBVIOUS
  <2> QED
    BY <1>2, <1>3, <2>1 DEF AverageInv
<1> QED
  BY <1>2, <1>3, <1>4, <1>5, <1>6 DEF ReportInv

LEMMA InitStatisticsInv == Init /\ HistoryInit => StatisticsInv
<1> SUFFICES ASSUME Init, HistoryInit PROVE StatisticsInv
  OBVIOUS
<1>1. ReportInv /\ ~Accepted /\ Total(received) = 0
  BY InitReportInv
<1>2. /\ transmissions = {} /\ clock = 0 /\ counted = 0 /\ idleTicks = 0
      /\ \A i \in Pair : ~wasPacketReceived[i]
  BY DEF Init, HistoryInit, NetworkFresh, ReceiverFresh, ChannelFresh
<1>3. \A i \in Pair : ~Sending(i) /\ ~Acking(i) /\ ~TransmitAckTriggered(i)
  BY <1>2 DEF Sending, Acking, TransmitAckTriggered
<1>4. HistoryInv
  BY InitHistoryInv
<1>5. TotalsInv
  BY <1>1, <1>2 DEF TotalsInv
<1>6. ASSUME NEW time \in TransmissionTimes
      PROVE  Capacity(time)
  <2>1. Total(received) * Exchange(time) = 0
    BY <1>1, ExchangeProduct
  <2> QED
    BY <1>2, <1>3, <2>1 DEF Capacity
<1> QED
  BY <1>1, <1>4, <1>5, <1>6 DEF StatisticsInv, CapacityInv

LEMMA StutterReportInv == ReportInv /\ UNCHANGED vars => ReportInv'
<1> SUFFICES ASSUME ReportInv, UNCHANGED vars PROVE ReportInv'
  OBVIOUS
<1>1. UNCHANGED <<txVars, rxVars, channelVars, statVars, timerVars, clock, running>>
  BY DEF vars, scanVars, networkVars
<1>2. /\ Total(received)' = Total(received) /\ Total(lost)' = Total(lost)
      /\ Accepted' <=> Accepted
      /\ UNCHANGED <<totRetranCount, totPacketAwaitTime, totPacketDelay>>
      /\ UNCHANGED <<endAckTime, wasTranOk, transmissions>>
  BY <1>1, TotalsStay, AcceptedEqual DEF txVars, channelVars, statVars, timerVars, Acking
<1>3. OutcomeInv'
  BY <1>1, <1>2 DEF ReportInv, OutcomeInv, Outcome, Sensed, TransmitAckTriggered, rxVars,
     channelVars, timerVars
<1>4. PhaseInv' /\ TargetInv'
  BY <1>1, <1>2 DEF ReportInv, PhaseInv, TargetInv, TargetReceivedIsExact, NewAck,
     IsInitialPhaseOver
<1>5. AverageInv'
  BY <1>2 DEF ReportInv, AverageInv
<1> QED
  BY <1>3, <1>4, <1>5 DEF ReportInv

LEMMA ReportInvStep == IInv /\ ReportInv /\ [Next]_vars => ReportInv'
<1>1. ASSUME IInv, ReportInv, Next
      PROVE  ReportInv'
  <2>1. OutcomeInv /\ PhaseInv /\ TargetInv /\ AverageInv
    BY <1>1 DEF ReportInv
  <2> QED
    BY <1>1, <2>1, OutcomeStep, PhaseStep, TargetStep, AverageStep DEF ReportInv
<1> QED
  BY <1>1, StutterReportInv

LEMMA StatisticsInvStep ==
  StatisticsInv /\ [HistoryNext]_<<vars, historyVars>> => StatisticsInv'
<1>1. ASSUME StatisticsInv, [HistoryNext]_<<vars, historyVars>>
      PROVE  StatisticsInv'
  <2>1. /\ HistoryInv /\ ReportInv /\ TotalsInv /\ CapacityInv
        /\ IInv /\ OutcomeInv /\ [Next]_vars
    BY <1>1 DEF StatisticsInv, HistoryInv, ReportInv, HistoryNext
  <2>2. HistoryInv' /\ ReportInv'
    BY <1>1, <2>1, HistoryInvStep, ReportInvStep
  <2>3. TotalsInv' /\ CapacityInv'
    <3>1. CASE HistoryNext
      <4>1. TotalsInv'
        BY <2>1, <3>1, TotalsStep
      <4>2. ASSUME PacketsOutlastIntervals, NEW time \in TransmissionTimes, IsShortest(time)
            PROVE  Capacity(time)'
        BY <2>1, <3>1, <4>2, CapacityStep DEF CapacityInv
      <4>3. (PacketsOutlastIntervals' <=> PacketsOutlastIntervals)
            /\ \A time \in TransmissionTimes : IsShortest(time)' <=> IsShortest(time)
        BY DEF PacketsOutlastIntervals, IsShortest
      <4> QED
        BY <4>1, <4>2, <4>3 DEF CapacityInv
    <3>2. CASE UNCHANGED <<vars, historyVars>>
      <4>1. UNCHANGED <<counted, idleTicks, clock, received, wasTranOk, transmissions>>
        BY <3>2 DEF vars, historyVars, networkVars, txVars, channelVars, statVars
      <4>2. UNCHANGED CapacityView
        BY <3>2 DEF CapacityView, vars, historyVars, networkVars, txVars, rxVars, channelVars,
           statVars, timerVars
      <4>3. Total(received)' = Total(received) /\ (Accepted' <=> Accepted)
        BY <4>1, TotalsStay, AcceptedEqual DEF Acking
      <4>4. TotalsInv'
        BY <2>1, <4>1, <4>3 DEF TotalsInv, IsInitialPhaseOver
      <4>5. CapacityInv'
        BY <2>1, <4>2, CapacityFrame DEF CapacityInv, PacketsOutlastIntervals, IsShortest
      <4> QED
        BY <4>4, <4>5
    <3> QED
      BY <1>1, <3>1, <3>2
  <2> QED
    BY <2>2, <2>3 DEF StatisticsInv
<1> QED
  BY <1>1

-----------------------------------------------------------------------------
(* The theorems.                                                           *)

(* In every behaviour the totals and the state agree in the sense of       *)
(* StatisticsInv, from which the theorems below follow.                    *)
THEOREM StatisticsAreConsistent == HistorySpec => []StatisticsInv
<1>1. Init /\ HistoryInit => StatisticsInv
  BY InitStatisticsInv
<1>2. StatisticsInv /\ [HistoryNext]_<<vars, historyVars>> => StatisticsInv'
  BY StatisticsInvStep
<1> QED
  BY <1>1, <1>2, PTL DEF HistorySpec

(* A run that ends at a target number of received packets never counts one *)
(* packet more: the loop is left at the clock value at which the last of   *)
(* them was acknowledged, and no other ACK starts at that value.           *)
THEOREM TargetIsExact == Spec => []TargetReceivedIsExact
<1>1. Init => IInv /\ ReportInv
  BY InitIInv, InitReportInv
<1>2. IInv /\ ReportInv /\ [Next]_vars => IInv' /\ ReportInv'
  BY IInvStep, ReportInvStep
<1>3. ReportInv => TargetReceivedIsExact
  BY DEF ReportInv, TargetInv
<1> QED
  BY <1>1, <1>2, <1>3, PTL DEF Spec

(* The totals behind the averages and the number of packets received,      *)
(* which the averages divide them by, count the same packets but for one:  *)
(* around the end of the initial phase or while an ACK is on its way.      *)
THEOREM TotalsAreOfTheReceived == HistorySpec => []TotalsMatchReceived
<1>1. StatisticsInv => TotalsMatchReceived
  <2>1. ASSUME TypeOK, TotalsInv
        PROVE  TotalsMatchReceived
    <3>1. Total(received) \in Nat /\ counted \in Nat
      BY <2>1, TotalsTypes DEF TotalsInv
    <3>2. Total(received) - counted \in IF Accepted THEN {0, 1} ELSE {-1, 0}
      BY <2>1 DEF TotalsInv
    <3>3. counted > Total(received) => ~Accepted
      BY <3>1, <3>2
    <3>4. ~Accepted => \A i \in Pair : ~Acking(i) /\ ~wasTranOk[i]
      BY DEF Accepted, headAccepted
    <3> QED
      BY <3>1, <3>2, <3>3, <3>4 DEF TotalsMatchReceived
  <2> QED
    BY <2>1 DEF StatisticsInv, HistoryInv, IInv, AccessInv, PairInv
<1> QED
  BY <1>1, StatisticsAreConsistent, PTL

LEMMA AveragesFollow == TypeOK /\ AverageInv => AveragesAgree
<1> SUFFICES ASSUME TypeOK, AverageInv, InitialPhaseTime = 0,
                    \A i \in Pair : ~headAccepted[i]
             PROVE  /\ Total(lost) = 0 => LeqRate(getAvgPacketAwaitTime, getAvgPacketDelayTime)
                    /\ LeqRate(getAvgRetransmissionCount, <<MaxRetranCount - 1, 1>>)
  BY DEF AveragesAgree
<1> DEFINE number == Total(received)
           most == MaxRetranCount - 1
<1>1. /\ number \in Nat /\ most \in Nat /\ totRetranCount \in Nat
      /\ totPacketAwaitTime \in Int /\ totPacketDelay \in Int
  BY TotalsTypes
<1>2. /\ Total(lost) = 0 => totPacketAwaitTime <= totPacketDelay
      /\ totRetranCount <= most * (number - 0)
  BY DEF AverageInv, Accepted
<1>3. totRetranCount <= most * number
  BY <1>1, <1>2
<1>4. CASE number = 0
  BY <1>1, <1>4 DEF LeqRate, PerReceived, Zero, getAvgPacketAwaitTime,
     getAvgPacketDelayTime, getAvgRetransmissionCount
<1>5. CASE number # 0
  <2>1. Total(lost) = 0 => totPacketAwaitTime * number <= totPacketDelay * number
    BY <1>1, <1>2, ProductOrder
  <2>2. totRetranCount * 1 <= most * number
    BY <1>1, <1>3
  <2> QED
    BY <1>5, <2>1, <2>2 DEF LeqRate, PerReceived, getAvgPacketAwaitTime,
       getAvgPacketDelayTime, getAvgRetransmissionCount
<1> QED
  BY <1>4, <1>5

(* The time that is over when a run ends is the time of its exchanges at   *)
(* least, but for the rest of an ACK.                                      *)
LEMMA ThroughputFollows ==
  TypeOK /\ PhaseInv /\ TargetInv /\ SnapshotInv /\ CapacityInv => ThroughputWithinCapacity
<1> SUFFICES ASSUME TypeOK, PhaseInv, TargetInv, SnapshotInv, CapacityInv,
                    NEW shortest \in TransmissionTimes, ~running, TargetSimTime > 0,
                    IsShortest(shortest), shortest >= ChannelCheckInterval
             PROVE  LET throughput == getTotalSystemThroughputPerSimQuant
                    IN  /\ throughput[2] > 0
                        /\ LeqRate(<<throughput[1], throughput[2] + AckMsgTime>>,
                                   <<1, Exchange(shortest)>>)
  BY DEF ThroughputWithinCapacity, Reported
<1>1. Capacity(shortest)
  BY DEF CapacityInv, PacketsOutlastIntervals, IsShortest
<1> DEFINE taken == Total(received) * Exchange(shortest)
<1>2. /\ taken \in Nat /\ Total(received) \in Nat /\ Exchange(shortest) \in Nat
      /\ clock \in Nat /\ idleTicks \in Nat /\ AckMsgTime \in Nat \ {0}
  BY TotalsTypes, ExchangeProduct DEF SnapshotInv
<1>3. clock > 1
  BY DEF PhaseInv, MinimalTimeStep
<1>4. /\ (\A i \in Pair : ~Acking(i)) => taken + idleTicks <= clock
      /\ \A i \in Pair : Acking(i) => taken <= clock + endAckTime[i]
  BY <1>1 DEF Capacity
<1>5. taken <= clock - 1 + AckMsgTime
  <2> HIDE DEF taken
  <2>1. CASE \A i \in Pair : ~Acking(i)
    BY <1>2, <1>4, <2>1
  <2>2. ASSUME NEW i \in Pair, Acking(i)
        PROVE  taken <= clock - 1 + AckMsgTime
    <3>1. endAckTime[i] <= AckMsgTime /\ endAckTime[i] # AckMsgTime
      BY DEF TargetInv, NewAck
    <3>2. endAckTime[i] \in Int
      BY AwaitTypes
    <3>3. taken <= clock + endAckTime[i]
      BY <1>4, <2>2
    <3> QED
      BY <1>2, <3>1, <3>2, <3>3
  <2> QED
    BY <2>1, <2>2
<1>6. 1 * (clock - 1 + AckMsgTime) = clock - 1 + AckMsgTime
  BY <1>2
<1> QED
  BY <1>2, <1>3, <1>5, <1>6 DEF LeqRate, getTotalSystemThroughputPerSimQuant, MinimalTimeStep

(* The figures that a run reports fit together and fit the channel: the    *)
(* averages agree with each other, and no more packets were received than  *)
(* the channel can carry in the time of the run.                           *)
THEOREM ReportFitsTheRun == HistorySpec => []ReportIsSound
<1>1. StatisticsInv => ReportIsSound
  BY AveragesFollow, ThroughputFollows DEF StatisticsInv, HistoryInv, IInv, AccessInv,
     PairInv, ReportInv, ReportIsSound
<1> QED
  BY <1>1, StatisticsAreConsistent, PTL
=============================================================================
