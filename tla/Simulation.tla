----------------------------- MODULE Simulation -----------------------------
(***************************************************************************)
(* The activity-scanning loop of the simulator.                            *)
(*                                                                         *)
(* A pass looks at every event in a fixed order, kind by kind and within a *)
(* kind pair by pair, and executes those it finds due.  Passes are         *)
(* repeated until one executes nothing; then the timers of the scheduled   *)
(* events count down, the clock advances, and the scan starts again.       *)
(*                                                                         *)
(* The pass is not modelled check by check.  (stage, turn) is the event    *)
(* executed last in this pass, (0, 0) at the start of a pass; a check that *)
(* finds its event not due changes nothing, so the next step of the scan   *)
(* executes the first event after (stage, turn) that is due.  The flag     *)
(* was_event_triggered_ is stage # 0.                                      *)
(***************************************************************************)
EXTENDS Events

CONSTANTS
    Runs,               \* bound: runs of the program's main loop
    TargetReceived,     \* early termination: packets received,
    TargetLost,         \*   packets lost,
    TargetPerPercent,   \*   packet error rate,
    TargetRetranPercent \*   retransmissions per packet; 0 switches one off

ASSUME SimulationAssumption ==
    /\ Runs \in Nat \ {0}
    /\ TargetReceived \in Nat
    /\ TargetLost \in Nat
    /\ TargetPerPercent \in Nat
    /\ TargetRetranPercent \in Nat

VARIABLES
    stage, turn,    \* position of the scan
    running,        \* the loop of run() has not ended
    run             \* number of the run, counted from 1

scanVars == <<stage, turn>>
vars == <<networkVars, clock, scanVars, running, run>>

-----------------------------------------------------------------------------
(* The order of the scan: the event kind at each stage.  The kinds at      *)
(* stages 2 to 5 concern the channel and have a single event.              *)
Stages == 1 .. 20

Due(st, i) ==
    \/ st = 1  /\ generatePacketTime[i] = 0
    \/ st = 2  /\ i = 0 /\ updateChannelTime = 0
    \/ st = 3  /\ i = 0 /\ ChannelEmptyTriggered
    \/ st = 4  /\ i = 0 /\ ChannelBusyTriggered
    \/ st = 5  /\ i = 0 /\ CollisionTriggered
    \/ st = 6  /\ endPacketTime[i] = 0
    \/ st = 7  /\ endAckTime[i] = 0
    \/ st = 8  /\ endListeningTime[i] = 0
    \/ st = 9  /\ endSleepTime[i] = 0
    \/ st = 10 /\ SuccessTriggered(i)
    \/ st = 11 /\ LostTriggered(i)
    \/ st = 12 /\ RetransmissionTriggered(i)
    \/ st = 13 /\ ObservingTriggered(i)
    \/ st = 14 /\ probeTime[i] = 0
    \/ st = 15 /\ MarkEmptyTriggered(i)
    \/ st = 16 /\ ResetCounterTriggered(i)
    \/ st = 17 /\ ReduceCounterTriggered(i)
    \/ st = 18 /\ TransmitAckTriggered(i)
    \/ st = 19 /\ StartRetransmissionTriggered(i)
    \/ st = 20 /\ StartTransmissionTriggered(i)

Before(s, i, t, j) == s < t \/ (s = t /\ i < j)

(* No event after the scan's position is due.                              *)
NothingDueAfter ==
    \A s \in stage .. 20, j \in Pair :
        Before(stage, turn, s, j) => ~Due(s, j)

(* The scan reaches event i of stage st: every event it passes on the way  *)
(* is not due.                                                             *)
Turn(st, i) ==
    /\ running
    /\ Before(stage, turn, st, i)
    /\ \A s \in stage .. st, j \in Pair :
           Before(stage, turn, s, j) /\ Before(s, j, st, i) => ~Due(s, j)
    /\ stage' = st
    /\ turn' = i
    /\ UNCHANGED <<clock, running, run>>

NewPass ==
    /\ running
    /\ stage # 0
    /\ NothingDueAfter
    /\ stage' = 0
    /\ turn' = 0
    /\ UNCHANGED <<networkVars, clock, running, run>>

-----------------------------------------------------------------------------
Total(f) == LET sum[n \in 0 .. RxTxCount] ==
                    IF n = 0 THEN 0 ELSE sum[n - 1] + f[n - 1]
            IN  sum[RxTxCount]

(* A rate over the received packets is 0 as long as none was received.     *)
RateReached(count, percent) ==
    /\ percent > 0
    /\ Total(received) > 0
    /\ 100 * count >= percent * Total(received)

(* Seeded defect: the targets for packets have to be exceeded.             *)
IsTargetCriteriaExceeded ==
    \/ RateReached(Total(lost), TargetPerPercent)
    \/ RateReached(totRetranCount, TargetRetranPercent)
    \/ TargetReceived > 0 /\ Total(received) > TargetReceived
    \/ TargetLost > 0 /\ Total(lost) > TargetLost

IsTargetCriteriaMet ==
    \/ RateReached(Total(lost), TargetPerPercent)
    \/ RateReached(totRetranCount, TargetRetranPercent)
    \/ TargetReceived > 0 /\ Total(received) >= TargetReceived
    \/ TargetLost > 0 /\ Total(lost) >= TargetLost

(* Seeded defect: events that are not scheduled count down too.            *)
CountDownAll(time) == [i \in Pair |-> time[i] - MinimalTimeStep]

(* A scheduled event with time left comes one step closer.                 *)
CountDown(time) ==
    [i \in Pair |-> IF time[i] > 0 THEN time[i] - MinimalTimeStep ELSE time[i]]

CountDownTimers ==
    /\ generatePacketTime' = CountDown(generatePacketTime)
    /\ updateChannelTime' = IF updateChannelTime > 0
                              THEN updateChannelTime - MinimalTimeStep
                              ELSE updateChannelTime
    /\ endPacketTime' = CountDown(endPacketTime)
    /\ endAckTime' = CountDown(endAckTime)
    /\ endListeningTime' = CountDown(endListeningTime)
    /\ endSleepTime' = CountDown(endSleepTime)
    /\ probeTime' = CountDown(probeTime)

(* A pass executed nothing: the clock advances, and the loop goes on unless *)
(* the time is up or, after the initial phase, a target is reached.        *)
Tick ==
    /\ running
    /\ stage = 0
    /\ NothingDueAfter
    /\ CountDownTimers
    /\ clock' = clock + MinimalTimeStep
    /\ running' = /\ clock' <= TargetSimTime
                  /\ ~(IsInitialPhaseOver' /\ IsTargetCriteriaMet)
    /\ UNCHANGED <<txVars, rxVars, channelVars, statVars, generated, scanVars, run>>

(* The program's main loop starts the next run on the same objects.        *)
ResetAndInitialize ==
    /\ ~running
    /\ run < Runs
    /\ run' = run + 1
    /\ clock' = 0
    /\ stage' = 0
    /\ turn' = 0
    /\ running' = TRUE
    /\ NetworkReset

(* All runs are over.                                                      *)
Finished ==
    /\ ~running
    /\ run = Runs
    /\ UNCHANGED vars

-----------------------------------------------------------------------------
Init ==
    /\ NetworkFresh
    /\ clock = 0
    /\ stage = 0
    /\ turn = 0
    /\ running = TRUE
    /\ run = 1

Scan ==
    \/ UpdateChannelState /\ Turn(2, 0)
    \/ ChannelEmpty /\ Turn(3, 0)
    \/ ChannelBusy /\ Turn(4, 0)
    \/ Collision /\ Turn(5, 0)
    \/ \E i \in Pair :
          \/ GeneratePacket(i) /\ Turn(1, i)
          \/ EndPacketTransmission(i) /\ Turn(6, i)
          \/ EndAckTransmission(i) /\ Turn(7, i)
          \/ EndAckListening(i) /\ Turn(8, i)
          \/ EndTxSleep(i) /\ Turn(9, i)
          \/ SuccessfulPacketTransmission(i) /\ Turn(10, i)
          \/ RemoveLostPacket(i) /\ Turn(11, i)
          \/ ScheduleRetransmission(i) /\ Turn(12, i)
          \/ StartChannelObserving(i) /\ Turn(13, i)
          \/ ProbeChannelState(i) /\ Turn(14, i)
          \/ MarkEmptyChannelState(i) /\ Turn(15, i)
          \/ ResetTXDownCounter(i) /\ Turn(16, i)
          \/ ReduceTXDownCounter(i) /\ Turn(17, i)
          \/ TransmitAck(i) /\ Turn(18, i)
          \/ StartRetransmission(i) /\ Turn(19, i)
          \/ StartTransmission(i) /\ Turn(20, i)

Next == Scan \/ NewPass \/ Tick \/ ResetAndInitialize \/ Finished

Spec == Init /\ [][Next]_vars

(* The program is sequential and nothing in it waits for input or for      *)
(* another thread: as long as it has a step to take it takes it.           *)
FairSpec == Spec /\ WF_vars(Next)

ScanTypeOK ==
    /\ clock \in Nat
    /\ stage \in 0 .. 20
    /\ turn \in Pair
    /\ running \in BOOLEAN
    /\ run \in 1 .. Runs

TypeOK == NetworkTypeOK /\ ScanTypeOK
=============================================================================
