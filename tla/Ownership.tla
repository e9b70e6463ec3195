----------------------------- MODULE Ownership ------------------------------
(***************************************************************************)
(* Who deletes what: the objects main makes, those the scan loop makes and *)
(* deletes, the reset between two runs, and the destructors. Everything is *)
(* reached through plain pointers, so an object may be deleted twice, used *)
(* after it was deleted, or never deleted. What the scan loop does is      *)
(* reduced to its packets and packet transmissions; a new object gets any  *)
(* address that is free, also one a stale pointer still holds.             *)
(***************************************************************************)
EXTENDS Integers, Sequences, SequencesExt

CONSTANTS
    RxTxCount,      \* kRxTxCount
    Addresses,      \* addresses of packets and of transmissions
    Runs            \* bound: runs of the simulation

\* What the constants have to be.
OwnershipAssumption ==
    /\ RxTxCount \in Nat \ {0}
    /\ 0 \notin Addresses
    /\ Runs \in Nat \ {0}

Pair == 0..(RxTxCount - 1)

\* The vectors of events and of generators, with one for every pair, and the
\* events of the channel.
EventVectors ==
    {"generate_packet", "probe_channel_state", "start_channel_observing",
      "mark_empty_channel_state", "reset_tx_down_counter",
      "reduce_tx_down_counter", "end_ack_listening", "end_packet_transmission",
      "end_ack_transmission", "start_transmission", "start_retransmission",
      "successful_packet_transmission", "remove_lost_packet", "end_tx_sleep",
      "schedule_retransmission", "transmit_ack"}

RngVectors ==
    {"packet_generation_rng", "packet_transmit_time_rng", "sleep_time_rng"}

ChannelEvents ==
    {"update_channel_state", "channel_empty", "channel_busy", "collision"}

VARIABLES
    pc,         \* where main is
    live,       \* objects, <<kind, index>>, that were made and not deleted
    wrong,      \* history: objects that were deleted when they were not live
    buffer,     \* by pair: addresses of the packets of the transmitter
    channel,    \* transmissions_: how often each address is in it
    endTran,    \* by pair: transmission_ of its end event; 0 is nullptr
    endTime,    \* by pair: whether its end event is scheduled
    rngs,       \* the vectors of generators that were not erased
    runs

heap == <<live, wrong>>
runVars == <<buffer, channel, endTran, endTime>>
vars == <<pc, heap, runVars, rngs, runs>>

OfEveryPair(kinds) == kinds \X Pair
Alone(kinds) == kinds \X {0}

Init ==
    /\ pc = "make_statistics"
    /\ live = {} /\ wrong = {}
    /\ buffer = [i \in Pair |-> <<>>]
    /\ channel = [a \in Addresses |-> 0]
    /\ endTran = [i \in Pair |-> 0]
    /\ endTime = [i \in Pair |-> FALSE]
    /\ rngs = {}
    /\ runs = 0

Make(objects) == live' = live \union objects /\ UNCHANGED wrong
Delete(objects) ==
    /\ live' = live \ objects
    /\ wrong' = wrong \union (objects \ live)

MakeStatistics ==
    /\ pc = "make_statistics"
    /\ Make(Alone({"statistics"}))
    /\ pc' = "make_network"
    /\ UNCHANGED <<runVars, rngs, runs>>

MakeNetwork ==
    /\ pc = "make_network"
    /\ Make(Alone({"network", "channel"})
                \union OfEveryPair({"receiver", "transmitter"}))
    /\ pc' = "make_simulation"
    /\ UNCHANGED <<runVars, rngs, runs>>

MakeSimulation ==
    /\ pc = "make_simulation"
    /\ Make(Alone({"simulation", "msg_corrupted_rng"} \union ChannelEvents)
                \union OfEveryPair(RngVectors \union EventVectors))
    /\ rngs' = RngVectors
    /\ pc' = "reset_timers"
    /\ UNCHANGED <<runVars, runs>>

\* Seeded defect: the end events keep their times.
ResetNoTimers ==
    /\ pc = "reset_timers"
    /\ pc' = "reset_network"
    /\ UNCHANGED <<heap, runVars, rngs, runs>>

ResetTimers ==
    /\ pc = "reset_timers"
    /\ endTime' = [i \in Pair |-> FALSE]
    /\ pc' = "reset_network"
    /\ UNCHANGED <<heap, buffer, channel, endTran, rngs, runs>>

Packets == {<<"packet", a>> : a \in UNION {ToSet(buffer[i]) : i \in Pair}}
OnChannel == {a \in Addresses : channel[a] > 0}
Transmissions == {<<"transmission", a>> : a \in OnChannel}

\* Seeded defect: the channel deletes its transmissions and keeps the pointers.
ResetNetworkKeeping ==
    /\ pc = "reset_network"
    /\ Delete(Packets \union Transmissions)
    /\ buffer' = [i \in Pair |-> <<>>]
    /\ pc' = "run"
    /\ UNCHANGED <<channel, endTran, endTime, rngs, runs>>

ResetNetwork ==
    /\ pc = "reset_network"
    /\ Delete(Packets \union Transmissions)
    /\ buffer' = [i \in Pair |-> <<>>]
    /\ channel' = [a \in Addresses |-> 0]
    /\ pc' = "run"
    /\ UNCHANGED <<endTran, endTime, rngs, runs>>

Fresh(kind) == {a \in Addresses : <<kind, a>> \notin live}

GeneratePacket(i) ==
    /\ pc = "run"
    /\ \E a \in Fresh("packet") :
          /\ Make({<<"packet", a>>})
          /\ buffer' = [buffer EXCEPT ![i] = Append(@, a)]
    /\ UNCHANGED <<pc, channel, endTran, endTime, rngs, runs>>

StartTransmission(i) ==
    /\ pc = "run"
    /\ buffer[i] # <<>> /\ ~ endTime[i]
    /\ \E a \in Fresh("transmission") :
          /\ Make({<<"transmission", a>>})
          /\ channel' = [channel EXCEPT ![a] = @ + 1]
          /\ endTran' = [endTran EXCEPT ![i] = a]
    /\ endTime' = [endTime EXCEPT ![i] = TRUE]
    /\ UNCHANGED <<pc, buffer, rngs, runs>>

\* The first such pointer is erased from the vector, if there is one; that of
\* the event is not cleared.
EndTransmission(i) ==
    /\ pc = "run"
    /\ endTime[i]
    /\ endTime' = [endTime EXCEPT ![i] = FALSE]
    /\ channel' = IF endTran[i] \in OnChannel
                    THEN [channel EXCEPT ![endTran[i]] = @ - 1] ELSE channel
    /\ Delete({<<"transmission", endTran[i]>>})
    /\ UNCHANGED <<pc, buffer, endTran, rngs, runs>>

\* Seeded defect: the packet is taken from the queue and not deleted.
RemovePacketOnly(i) ==
    /\ pc = "run"
    /\ buffer[i] # <<>> /\ ~ endTime[i]
    /\ buffer' = [buffer EXCEPT ![i] = Tail(@)]
    /\ UNCHANGED <<pc, heap, channel, endTran, endTime, rngs, runs>>

\* A packet is received or lost.
RemovePacket(i) ==
    /\ pc = "run"
    /\ buffer[i] # <<>> /\ ~ endTime[i]
    /\ Delete({<<"packet", Head(buffer[i])>>})
    /\ buffer' = [buffer EXCEPT ![i] = Tail(@)]
    /\ UNCHANGED <<pc, channel, endTran, endTime, rngs, runs>>

\* The simulated time is over, with whatever is still queued or sent.
EndRun ==
    /\ pc = "run"
    /\ runs' = runs + 1
    /\ pc' = IF runs + 1 < Runs THEN "reset_timers" ELSE "delete_network"
    /\ UNCHANGED <<heap, runVars, rngs>>

\* Seeded defect: the packets in the queues are not deleted.
DeleteNetworkOnly ==
    /\ pc = "delete_network"
    /\ Delete(Alone({"network", "channel", "statistics"}) \union Transmissions
                \union OfEveryPair({"receiver", "transmitter"}))
    /\ pc' = "erase_rngs"
    /\ UNCHANGED <<runVars, rngs, runs>>

\* The network with its transmitters and their packets, its receivers, its
\* channel with the transmissions, and the statistics.
DeleteNetwork ==
    /\ pc = "delete_network"
    /\ Delete(Alone({"network", "channel", "statistics"})
                \union Packets \union Transmissions
                \union OfEveryPair({"receiver", "transmitter"}))
    /\ pc' = "erase_rngs"
    /\ UNCHANGED <<runVars, rngs, runs>>

EraseRngs ==
    /\ pc = "erase_rngs"
    /\ rngs' = {}
    /\ pc' = "delete_rngs"
    /\ UNCHANGED <<heap, runVars, runs>>

DeleteRngs ==
    /\ pc = "delete_rngs"
    /\ Delete(OfEveryPair(rngs) \union Alone({"msg_corrupted_rng"}))
    /\ pc' = "delete_events"
    /\ UNCHANGED <<runVars, rngs, runs>>

\* The vector of the events that reduce the counters is left out.
DeleteEvents ==
    /\ pc = "delete_events"
    /\ Delete(Alone(ChannelEvents) \union
              OfEveryPair(EventVectors \ {"reduce_tx_down_counter"}))
    /\ pc' = "delete_simulation"
    /\ UNCHANGED <<runVars, rngs, runs>>

DeleteSimulation ==
    /\ pc = "delete_simulation"
    /\ Delete(Alone({"simulation"}))
    /\ pc' = "end"
    /\ UNCHANGED <<runVars, rngs, runs>>

Next ==
    \/ MakeStatistics \/ MakeNetwork \/ MakeSimulation
    \/ ResetTimers \/ ResetNetwork \/ EndRun
    \/ \E i \in Pair : \/ GeneratePacket(i) \/ RemovePacket(i)
                       \/ StartTransmission(i) \/ EndTransmission(i)
    \/ DeleteNetwork \/ EraseRngs \/ DeleteRngs \/ DeleteEvents
    \/ DeleteSimulation

Spec == Init /\ [][Next]_vars

-----------------------------------------------------------------------------
TypeOK ==
    /\ pc \in {"make_statistics", "make_network", "make_simulation",
              "reset_timers", "reset_network", "run", "delete_network",
              "erase_rngs", "delete_rngs", "delete_events",
              "delete_simulation", "end"}
    /\ buffer \in [Pair -> Seq(Addresses)]
    /\ channel \in [Addresses -> Nat]
    /\ endTran \in [Pair -> Addresses \union {0}]
    /\ endTime \in [Pair -> BOOLEAN]
    /\ rngs \in {{}, RngVectors}
    /\ runs \in 0..Runs

\* Nothing is deleted twice, over any number of runs with whatever is left in
\* the queues and on the channel at the end of each.
NothingIsDeletedTwice == wrong = {}

\* What the queues and the channel point to is live, each object in one place,
\* and no other packets and transmissions are: nothing of a run is lost.
RunOwnsItsObjects ==
    pc \notin {"erase_rngs", "delete_rngs", "delete_events",
               "delete_simulation", "end"} =>
        /\ Packets \union Transmissions =
               {o \in live : o[1] \in {"packet", "transmission"}}
        /\ \A a \in Addresses : channel[a] <= 1
        /\ \A i, j \in Pair : \A m \in 1..Len(buffer[i]), n \in 1..Len(buffer[j]) :
              buffer[i][m] = buffer[j][n] => i = j /\ m = n

\* An end event that is scheduled ends the transmission it was given, which no
\* other one ends: the pointer it keeps from an earlier run is never used.
EndsItsTransmission ==
    pc = "run" =>
        \A i \in Pair : endTime[i] =>
            /\ <<"transmission", endTran[i]>> \in live
            /\ endTran[i] \in OnChannel
            /\ \A j \in Pair \ {i} : endTime[j] => endTran[j] # endTran[i]

\* When the program ends, what belongs to the network has been deleted.
NetworkIsDeleted ==
    pc = "end" =>
        \A o \in live : o[1] \notin {"network", "channel", "statistics", "receiver",
                                     "transmitter", "packet", "transmission"}
=============================================================================
