-------------------------- MODULE SimulationHistory --------------------------
(***************************************************************************)
(* The simulator together with a record of its past.  The four variables   *)
(* below are not in the code; they only watch it, and the properties       *)
(* compare what the code remembers with what happened.                     *)
(***************************************************************************)
EXTENDS SimulationInvariant

VARIABLES
    overlapped, \* pairs whose latest packet shared the channel at some time
    idleTicks,  \* clock ticks in a row with nothing on the channel
    attempts,   \* transmissions of the packet at the head of a buffer
    counted     \* packets whose retransmissions and delay are in the totals

historyVars == <<overlapped, idleTicks, attempts, counted>>

(* Bound: a longer idle time is not told apart.                            *)
IdleBound == InitDownCounter + 2

HistoryInit ==
    /\ overlapped = {}
    /\ idleTicks = 0
    /\ attempts = [i \in Pair |-> 0]
    /\ counted = 0

Starts(i) == ~Sending(i) /\ Sending(i)'
HeadLeaves(i) == Len(buffer'[i]) < Len(buffer[i])

HistoryStep ==
    /\ overlapped' = (overlapped \ {i \in Pair : Starts(i)})
                        \union {i \in Pair : Overlap' /\ Sending(i)'}
    /\ idleTicks' = IF clock' = clock THEN idleTicks
                    ELSE IF transmissions = {} /\ idleTicks < IdleBound
                    THEN idleTicks + 1
                    ELSE IF transmissions = {} THEN IdleBound ELSE 0
    /\ attempts' = [i \in Pair |-> IF HeadLeaves(i) THEN 0
                                   ELSE IF Starts(i) THEN attempts[i] + 1
                                   ELSE attempts[i]]
    /\ counted' = IF totPacketDelay' > totPacketDelay THEN counted + 1 ELSE counted

HistoryReset ==
    /\ overlapped' = {}
    /\ idleTicks' = 0
    /\ attempts' = [i \in Pair |-> 0]
    /\ counted' = 0

HistoryNext ==
    Next /\ IF run' = run THEN HistoryStep ELSE HistoryReset

HistorySpec ==
    Init /\ HistoryInit /\ [][HistoryNext]_<<vars, historyVars>>

-----------------------------------------------------------------------------
(* The collision flag is shared by all transmissions and outlives them; yet *)
(* a receiver finds its packet corrupted if and only if that very packet   *)
(* shared the channel: no collision is missed and no flag is stale.        *)
ReceptionMatchesOverlap ==
    [][\A i \in Pair :
          EndPacketTransmission(i) =>
              (wasPacketUncorrupted'[i] <=> i \notin overlapped)]_<<vars, historyVars>>

(* The carrier-sense flag tells, for the whole of a clock value, whether   *)
(* anything was on the channel when the clock reached it.                  *)
BusyFlagIsSnapshot ==
    Sensed /\ clock > 0 => (isChannelBusy <=> idleTicks = 0)

(* A transmitter probes the channel at intervals; if every packet is at    *)
(* least an interval long, as in the program, none is missed and every     *)
(* packet starts after the channel was idle for the whole count-down.      *)
PacketsOutlastIntervals == \A t \in TransmissionTimes : t >= ChannelCheckInterval

StartsAfterIdle ==
    [][PacketsOutlastIntervals =>
          \A i \in Pair : Starts(i) => idleTicks > InitDownCounter]_<<vars, historyVars>>

(* The retransmission counter, which is what the statistics add up, tells  *)
(* the attempts made for the packet at the head, and the last permitted    *)
(* attempt is number MaxRetranCount.                                       *)
AttemptsCounted ==
    \A i \in Pair :
        /\ attempts[i] = retranNum[i] + (IF isBusy[i] /\ ~isListeningFinished[i]
                                           THEN 1 ELSE 0)
        /\ attempts[i] <= MaxRetranCount

(* The averages divide totals taken when an ACK arrives by a count taken   *)
(* when it is sent; the two differ by one packet at most, around the end   *)
(* of the initial phase and while an ACK is on its way.                    *)
TotalsMatchReceived ==
    /\ Total(received) - counted \in -1 .. 1
    /\ counted > Total(received) => \A i \in Pair : ~Acking(i) /\ ~wasTranOk[i]

-----------------------------------------------------------------------------
(* The invariants behind these properties: what the record of the past     *)
(* says of the present state.                                              *)

(* Until the channel is sensed the last tick tells whether it is idle.     *)
SnapshotInv ==
    /\ idleTicks \in 0 .. IdleBound
    /\ clock > 0 /\ ~Sensed => (transmissions # {} <=> idleTicks = 0)
    /\ BusyFlagIsSnapshot

(* The collision flag tells the past of every packet that has been on the  *)
(* channel for a while, and the present of one that has just started.      *)
Reception(i) ==
    Sending(i) =>
        IF Elapsed(i) > 0 THEN wasTransmitError <=> i \in overlapped
        ELSE (i \in overlapped <=> Overlap) /\ (wasTransmitError => Overlap)

ReceptionInv ==
    /\ \A i \in Pair : Reception(i)
    /\ Sensed /\ ~isChannelBusy /\ wasTransmitError => Overlap

(* Time to the probe that is next or not yet decided.                      *)
ProbeWait(i) == IF isProbingActive[i] THEN 0 ELSE probeTime[i]

(* The transmitter is about to find the channel busy.                      *)
Alarmed(i) == Sensed /\ isChannelBusy /\ ProbeWait(i) = 0

(* Every packet on the channel will still be there at the next probe, and  *)
(* if all of them have just started the channel was idle all along.        *)
Unbroken(i) ==
    /\ \A j \in Pair : /\ ~Acking(j) /\ ~TransmitAckTriggered(j)
                       /\ Sending(j) => endPacketTime[j] >= ProbeWait(i)
    /\ (\A j \in Pair : Sending(j) => Elapsed(j) = 0) =>
          idleTicks > InitDownCounter - downCounter[i]
                          + ChannelCheckInterval - ProbeWait(i)

(* One or the other holds of a transmitter that found the channel idle.    *)
Idle(i) == wasChannelEmpty[i] /\ isChannelObserved[i] => Alarmed(i) \/ Unbroken(i)

IdleInv == PacketsOutlastIntervals => \A i \in Pair : Idle(i)

HistoryInv == IInv /\ AttemptsCounted /\ SnapshotInv /\ ReceptionInv /\ IdleInv
=============================================================================
