---------------------------- MODULE BoundedQueue ----------------------------
(***************************************************************************)
(* mpmc_bounded_queue: a bounded queue guarded by one mutex, with two      *)
(* condition variables: producers wait on pop_cv_ for room, consumers wait *)
(* on push_cv_, for a limited time, for items.                             *)
(*                                                                         *)
(* What a thread does while it holds the mutex is one step.  Notifying is  *)
(* a step of its own, since the code notifies after it gave the mutex up;  *)
(* so are waking up and taking the mutex again.  notify_one wakes one      *)
(* waiting thread, if there is one, and waits may end with no reason.      *)
(***************************************************************************)
EXTENDS Integers, Sequences, FiniteSets

CONSTANTS
    Producers, Consumers,   \* the threads
    MaxItems,               \* max_items_
    MaxCalls                \* bound: calls of a producer

\* What the constants have to be.
QueueAssumption ==
    /\ IsFiniteSet(Producers) /\ IsFiniteSet(Consumers)
    /\ Producers \intersect Consumers = {}
    /\ MaxItems \in Nat
    /\ MaxCalls \in Nat

Threads == Producers \union Consumers

VARIABLES
    q,          \* q_
    pc,         \* where each thread is
    calls,      \* calls a producer has made
    refused,    \* calls of enqueue_nowait that found no room
    pushed, popped  \* history: what went into the queue and came out

vars == <<q, pc, calls, refused, pushed, popped>>

Item == Producers \X (1 .. MaxCalls)

(* A thread is idle, waits in a condition variable, was woken and wants    *)
(* the mutex, has given up waiting and wants the mutex, or has left it and *)
(* is about to notify.                                                     *)
State == {"idle", "waiting", "woken", "timed_out", "notify"}

At(threads, state) == {t \in threads : pc[t] = state}

Init ==
    /\ q = <<>>
    /\ pc = [t \in Threads |-> "idle"]
    /\ calls = [p \in Producers |-> 0]
    /\ refused = 0
    /\ pushed = <<>>
    /\ popped = <<>>

Goto(t, state) == pc' = [pc EXCEPT ![t] = state]

-----------------------------------------------------------------------------
(* Seeded defect: a full queue is not noticed.                             *)
AlwaysRoom == TRUE

HasRoom == Len(q) < MaxItems
HasItems == q # <<>>

(* The item of a call is its producer and its number.                      *)
Push(p, n) ==
    /\ q' = Append(q, <<p, n>>)
    /\ pushed' = Append(pushed, <<p, n>>)
    /\ Goto(p, "notify")
    /\ UNCHANGED popped

(* enqueue: the first look at the queue, with the wait if there is no room, *)
(* and every further look after a wake-up.                                 *)
Enqueue(p) ==
    /\ pc[p] = "idle"
    /\ calls[p] < MaxCalls
    /\ calls' = [calls EXCEPT ![p] = @ + 1]
    /\ \/ HasRoom /\ Push(p, calls[p] + 1)
       \/ ~HasRoom /\ Goto(p, "waiting") /\ UNCHANGED <<q, pushed, popped>>
    /\ UNCHANGED refused

EnqueueAgain(p) ==
    /\ pc[p] = "woken"
    /\ \/ HasRoom /\ Push(p, calls[p])
       \/ ~HasRoom /\ Goto(p, "waiting") /\ UNCHANGED <<q, pushed, popped>>
    /\ UNCHANGED <<calls, refused>>

EnqueueNowait(p) ==
    /\ pc[p] = "idle"
    /\ calls[p] < MaxCalls
    /\ calls' = [calls EXCEPT ![p] = @ + 1]
    /\ \/ Len(q) = MaxItems /\ refused' = refused + 1 /\ UNCHANGED <<q, pc, pushed, popped>>
       \/ Len(q) # MaxItems /\ Push(p, calls[p] + 1) /\ UNCHANGED refused

(* Seeded defect: the item taken stays at the front.                       *)
PopKeeping(c) ==
    /\ q' = q
    /\ popped' = Append(popped, Head(q))
    /\ Goto(c, "notify")
    /\ UNCHANGED pushed

(* dequeue_for, likewise; the wait may also end by time, and the condition *)
(* is then looked at once more.                                            *)
Pop(c) ==
    /\ q' = Tail(q)
    /\ popped' = Append(popped, Head(q))
    /\ Goto(c, "notify")
    /\ UNCHANGED pushed

DequeueFor(c) ==
    /\ pc[c] \in {"idle", "woken"}
    /\ \/ HasItems /\ Pop(c)
       \/ ~HasItems /\ Goto(c, "waiting") /\ UNCHANGED <<q, pushed, popped>>
    /\ UNCHANGED <<calls, refused>>

TimeOut(c) ==
    /\ pc[c] = "waiting"
    /\ Goto(c, "timed_out")
    /\ UNCHANGED <<q, calls, refused, pushed, popped>>

DequeueAfterTimeOut(c) ==
    /\ pc[c] = "timed_out"
    /\ \/ HasItems /\ Pop(c)
       \/ ~HasItems /\ Goto(c, "idle") /\ UNCHANGED <<q, pushed, popped>>
    /\ UNCHANGED <<calls, refused>>

-----------------------------------------------------------------------------
(* Those who wait in the condition variable t notifies.                    *)
Notified(t) == At(IF t \in Producers THEN Consumers ELSE Producers, "waiting")

(* Seeded defect: the threads of the own side are notified.                *)
NotifyOwnSide(t) ==
    /\ pc[t] = "notify"
    /\ LET own == At(IF t \in Producers THEN Producers ELSE Consumers, "waiting")
       IN  \/ own = {} /\ Goto(t, "idle")
           \/ \E w \in own : pc' = [pc EXCEPT ![t] = "idle", ![w] = "woken"]
    /\ UNCHANGED <<q, calls, refused, pushed, popped>>

NotifyOne(t) ==
    /\ pc[t] = "notify"
    /\ \/ Notified(t) = {} /\ Goto(t, "idle")
       \/ \E w \in Notified(t) : pc' = [pc EXCEPT ![t] = "idle", ![w] = "woken"]
    /\ UNCHANGED <<q, calls, refused, pushed, popped>>

SpuriousWakeUp(t) ==
    /\ pc[t] = "waiting"
    /\ Goto(t, "woken")
    /\ UNCHANGED <<q, calls, refused, pushed, popped>>

ProducerStep(p) == Enqueue(p) \/ EnqueueNowait(p) \/ EnqueueAgain(p) \/ NotifyOne(p)
ConsumerStep(c) == DequeueFor(c) \/ DequeueAfterTimeOut(c) \/ NotifyOne(c)

Next ==
    \/ \E p \in Producers : ProducerStep(p)
    \/ \E c \in Consumers : ConsumerStep(c) \/ TimeOut(c)
    \/ \E t \in Threads : SpuriousWakeUp(t)

Spec == Init /\ [][Next]_vars

(* A thread that is not waiting goes on; how long a wait is, and whether   *)
(* it ends by itself, is left open.                                        *)
FairSpec ==
    /\ Spec
    /\ \A p \in Producers : WF_vars(EnqueueAgain(p) \/ NotifyOne(p))
    /\ \A c \in Consumers : WF_vars(ConsumerStep(c))

-----------------------------------------------------------------------------
TypeOK ==
    /\ q \in Seq(Item) /\ Len(q) <= MaxItems
    /\ pc \in [Threads -> State]
    /\ \A p \in Producers : pc[p] # "timed_out"
    /\ calls \in [Producers -> 0 .. MaxCalls]
    /\ \A p \in Producers : pc[p] \in {"waiting", "woken"} => calls[p] > 0
    /\ refused \in Nat
    /\ pushed \in Seq(Item)
    /\ popped \in Seq(Item)

(* Whatever the threads do, what comes out is what went in, in the same    *)
(* order: no item is lost, repeated or overtaken.                          *)
FirstInFirstOut == pushed = popped \o q

(* A producer's items come out in the order of its calls, and none twice:  *)
(* a call that waits keeps the producer from another one.                  *)
ProducersKeepOrder ==
    \A i, j \in 1 .. Len(popped \o q) :
        LET items == popped \o q
        IN  i < j /\ items[i][1] = items[j][1] => items[i][2] < items[j][2]

(* No wake-up is lost although notify_one comes after the mutex was given  *)
(* up: as long as a consumer waits, there is for every item a producer     *)
(* about to notify or a consumer on its way to look again; and as long as  *)
(* a producer waits, the same holds for every free place.                  *)
NoWakeUpIsLost ==
    /\ At(Consumers, "waiting") # {} =>
          Len(q) <= Cardinality(At(Producers, "notify"))
                      + Cardinality(At(Consumers, "woken"))
                      + Cardinality(At(Consumers, "timed_out"))
    /\ At(Producers, "waiting") # {} =>
          MaxItems - Len(q) <= Cardinality(At(Consumers, "notify"))
                                 + Cardinality(At(Producers, "woken"))

(* The threads never all wait for one another: whatever the order of waits, *)
(* notifications and time-outs, one of them can still act.                  *)
NotAllWait == \E t \in Threads : pc[t] # "waiting"

(* With a consumer that keeps asking, every producer gets its item in,     *)
(* even if no wait ever ends by time or without reason.                    *)
EnqueueReturns ==
    \A p \in Producers : pc[p] = "waiting" ~> pc[p] \notin {"waiting", "woken"}
=============================================================================
