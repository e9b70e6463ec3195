--------------------------- MODULE PacketDelivery ---------------------------
(***************************************************************************)
(* What each transmitter-receiver pair promises, with no channel, no       *)
(* timers and no scan: packets leave a transmitter in the order of their   *)
(* arrival, the receiver accepts a packet at most once, an accepted packet *)
(* is never retried and never given up, and a packet is given up only      *)
(* after MaxFailures attempts that were not accepted.                      *)
(***************************************************************************)
EXTENDS Naturals, Sequences

CONSTANTS Pair, Packet, MaxFailures

VARIABLES
    queue,      \* packets that have not left the transmitter
    accepted,   \* the receiver has accepted the packet at the head
    failures    \* failed attempts to send the packet at the head

deliveryVars == <<queue, accepted, failures>>

Init ==
    /\ queue = [i \in Pair |-> <<>>]
    /\ accepted = [i \in Pair |-> FALSE]
    /\ failures = [i \in Pair |-> 0]

Arrive(i) ==
    /\ \E packet \in Packet : queue' = [queue EXCEPT ![i] = Append(@, packet)]
    /\ UNCHANGED <<accepted, failures>>

Accept(i) ==
    /\ queue[i] # <<>>
    /\ ~accepted[i]
    /\ accepted' = [accepted EXCEPT ![i] = TRUE]
    /\ UNCHANGED <<queue, failures>>

Fail(i) ==
    /\ queue[i] # <<>>
    /\ ~accepted[i]
    /\ failures[i] < MaxFailures
    /\ failures' = [failures EXCEPT ![i] = failures[i] + 1]
    /\ UNCHANGED <<queue, accepted>>

(* The packet at the head leaves the transmitter.                          *)
Leave(i) ==
    /\ queue[i] # <<>>
    /\ queue' = [queue EXCEPT ![i] = Tail(@)]
    /\ accepted' = [accepted EXCEPT ![i] = FALSE]
    /\ failures' = [failures EXCEPT ![i] = 0]

Complete(i) == accepted[i] /\ Leave(i)

GiveUp(i) == ~accepted[i] /\ failures[i] = MaxFailures /\ Leave(i)

(* The next run of the program.                                            *)
Restart == Init'

Next ==
    \/ \E i \in Pair : Arrive(i) \/ Accept(i) \/ Fail(i) \/ Complete(i) \/ GiveUp(i)
    \/ Restart

Spec == Init /\ [][Next]_deliveryVars
=============================================================================
