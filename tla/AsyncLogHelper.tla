--------------------------- MODULE AsyncLogHelper ---------------------------
(***************************************************************************)
(* async_logger and its async_log_helper: clients put messages into a      *)
(* bounded queue, one worker thread takes them out and hands them to the   *)
(* sinks, and the destructor sends a last message that ends the worker.    *)
(*                                                                         *)
(* The queue is used as BoundedQueue shows it to be: putting an item in    *)
(* and taking one out are atomic, a call that blocks is one that is not    *)
(* enabled.  The sinks are used by the worker only, so that what it does   *)
(* with one message is a single step.                                      *)
(***************************************************************************)
EXTENDS Integers, Sequences, SequencesExt

CONSTANTS
    Clients,        \* threads that log
    Sinks,
    SinkLevel,      \* the level of each sink
    MayFail,        \* sinks whose log() and flush() may throw
    Levels,         \* levels of the messages, those the logger lets through
    FlushLevel,     \* _flush_level: messages from this level on ask for a flush
    MaxItems,       \* queue_size
    BlockRetry,     \* overflow policy: block_retry or discard_log_msg
    FlushInterval,  \* _flush_interval_ms, in time units; 0 for none
    MaxCalls        \* bound: calls of log() and flush() of a client

\* What the constants have to be.
HelperAssumption ==
    /\ IsFiniteSet(Clients) /\ IsFiniteSet(Sinks)
    /\ Levels \subseteq Nat
    /\ SinkLevel \in [Sinks -> Nat]
    /\ MayFail \subseteq Sinks
    /\ FlushLevel \in Nat
    /\ MaxItems \in Nat \ {0}
    /\ BlockRetry \in BOOLEAN
    /\ FlushInterval \in Nat
    /\ MaxCalls \in Nat

VARIABLES
    q,          \* _q
    calls,      \* calls each client has made
    pc,         \* "flush": the client logged a message that asks for a flush
    worker,     \* "waiting" in dequeue_for, "handling" a message, or "ended"
    current,    \* incoming_async_msg: at most one message, as a sequence
    owner,      \* "running", "joining" the worker, "destroyed"
    written,    \* what each sink has written
    flushed,    \* how much of it there was when the sink was last flushed
    elapsed,    \* time since _last_flush, up to FlushInterval
    \* history: messages that went into the queue, and how many of them were
    \* handed to the sinks; messages that found no room, and messages on
    \* which the formatter threw
    accepted, handled, discarded, unformatted

sinkVars == <<written, flushed, elapsed>>
history == <<accepted, handled, discarded, unformatted>>
vars == <<q, calls, pc, worker, current, owner, sinkVars, history>>

Message == [client : Clients, number : 1 .. MaxCalls, level : Levels]

(* What goes through the queue: a message, or a request.                   *)
LogMsg(m)  == [type |-> "log", msg |-> m]
Request(t) == [type |-> t]
AsyncMsg == [type : {"log"}, msg : Message] \union [type : {"flush", "terminate"}]

should_log(s, m) == m.level >= SinkLevel[s]

(* Seeded defect: the flush level itself does not flush.                   *)
ShouldFlushAbove(m) == m.level > FlushLevel

Off == 6    \* level::off, above all others
should_flush_on(m) == m.level >= FlushLevel /\ m.level # Off

Init ==
    /\ q = <<>>
    /\ calls = [c \in Clients |-> 0]
    /\ pc = [c \in Clients |-> "idle"]
    /\ worker = "waiting"
    /\ current = <<>>
    /\ owner = "running"
    /\ written = [s \in Sinks |-> <<>>]
    /\ flushed = [s \in Sinks |-> 0]
    /\ elapsed = 0
    /\ accepted = <<>>
    /\ handled = 0
    /\ discarded = {}
    /\ unformatted = {}

-----------------------------------------------------------------------------
(* The clients.                                                            *)

Room == Len(q) < MaxItems

(* Seeded defect: nobody looks whether there is room.                      *)
EnqueueUnbounded(x) == q' = Append(q, x)

(* Seeded defect: a message that finds no room takes the place of another. *)
EnqueueOverwriting(x) ==
    \/ Room /\ q' = Append(q, x)
    \/ ~BlockRetry /\ ~Room /\ q' = Append(Tail(q), x)

(* Putting a message into the queue waits for room or, by the other        *)
(* policy, does without.                                                   *)
enqueue_msg(x) ==
    \/ Room /\ q' = Append(q, x)
    \/ ~BlockRetry /\ ~Room /\ UNCHANGED q

CanCall(c) ==
    /\ owner = "running"
    /\ pc[c] = "idle"
    /\ calls[c] < MaxCalls
    /\ calls' = [calls EXCEPT ![c] = @ + 1]

(* _sink_it: the message, and then a request to flush if it is grave.      *)
Log(c) ==
    /\ CanCall(c)
    /\ \E level \in Levels :
          LET m == [client |-> c, number |-> calls[c] + 1, level |-> level]
          IN  /\ enqueue_msg(LogMsg(m))
              /\ accepted' = IF Room THEN Append(accepted, m) ELSE accepted
              /\ discarded' = IF Room THEN discarded ELSE discarded \union {m}
              /\ pc' = [pc EXCEPT ![c] = IF should_flush_on(m) THEN "flush" ELSE "idle"]
    /\ UNCHANGED <<worker, current, owner, sinkVars, handled, unformatted>>

FlushOnLevel(c) ==
    /\ pc[c] = "flush"
    /\ enqueue_msg(Request("flush"))
    /\ pc' = [pc EXCEPT ![c] = "idle"]
    /\ UNCHANGED <<calls, worker, current, owner, sinkVars, history>>

(* flush() of the logger only asks for one, too.                           *)
Flush(c) ==
    /\ CanCall(c)
    /\ enqueue_msg(Request("flush"))
    /\ UNCHANGED <<pc, worker, current, owner, sinkVars, history>>

-----------------------------------------------------------------------------
(* The worker.                                                             *)

(* A sink whose flush throws does not keep the others from theirs.         *)
FlushSinks ==
    /\ \E failing \in SUBSET MayFail :
          flushed' = [s \in Sinks |-> IF s \in failing THEN flushed[s] ELSE Len(written'[s])]
    /\ elapsed' = 0

(* handle_flush_interval: also when nothing came for two seconds.          *)
HandleFlushInterval ==
    IF FlushInterval # 0 /\ elapsed >= FlushInterval
      THEN FlushSinks
      ELSE UNCHANGED <<flushed, elapsed>>

Dequeue ==
    /\ worker = "waiting"
    /\ q # <<>>
    /\ q' = Tail(q)
    /\ current' = <<Head(q)>>
    /\ worker' = "handling"
    /\ UNCHANGED <<calls, pc, owner, sinkVars, history>>

(* Seeded defect: a wait in vain is just repeated.                         *)
DequeueAgain ==
    /\ worker = "waiting"
    /\ q = <<>>
    /\ UNCHANGED vars

DequeueTimeOut ==
    /\ worker = "waiting"
    /\ q = <<>>
    /\ UNCHANGED written
    /\ HandleFlushInterval
    /\ UNCHANGED <<q, calls, pc, worker, current, owner, history>>

Wanting(m) == {s \in Sinks : should_log(s, m)}

WriteTo(writing, m) ==
    written' = [s \in Sinks |-> IF s \in writing THEN Append(written[s], m)
                                                 ELSE written[s]]

(* Seeded defect: a sink that throws ends the loop over the sinks.         *)
ProcessLogUncaught ==
    /\ worker = "handling"
    /\ current[1].type = "log"
    /\ LET m == current[1].msg
       IN  \/ /\ WriteTo(Wanting(m), m)
              /\ HandleFlushInterval
              /\ UNCHANGED unformatted
           \/ /\ \E failing \in MayFail \intersect Wanting(m), writing \in SUBSET Wanting(m) :
                    failing \notin writing /\ WriteTo(writing, m)
              /\ UNCHANGED <<flushed, elapsed, unformatted>>
    /\ worker' = "waiting"
    /\ current' = <<>>
    /\ handled' = handled + 1
    /\ UNCHANGED <<q, calls, pc, owner, accepted, discarded>>

(* The message goes to every sink whose level lets it through.  A sink     *)
(* that throws is reported and the next one takes its turn; if the         *)
(* formatter throws no sink gets the message and the interval is not       *)
(* looked at.                                                              *)
ProcessLog ==
    /\ worker = "handling"
    /\ current[1].type = "log"
    /\ LET m == current[1].msg
       IN  \/ /\ \E failing \in SUBSET MayFail : WriteTo(Wanting(m) \ failing, m)
              /\ HandleFlushInterval
              /\ UNCHANGED unformatted
           \/ /\ unformatted' = unformatted \union {m}
              /\ UNCHANGED sinkVars
    /\ worker' = "waiting"
    /\ current' = <<>>
    /\ handled' = handled + 1
    /\ UNCHANGED <<q, calls, pc, owner, accepted, discarded>>

ProcessFlush ==
    /\ worker = "handling"
    /\ current[1].type = "flush"
    /\ UNCHANGED written
    /\ FlushSinks
    /\ worker' = "waiting"
    /\ current' = <<>>
    /\ UNCHANGED <<q, calls, pc, owner, history>>

(* Seeded defect: the last message ends the worker and nothing else.       *)
ProcessTerminateAtOnce ==
    /\ worker = "handling"
    /\ current[1].type = "terminate"
    /\ worker' = "ended"
    /\ current' = <<>>
    /\ UNCHANGED <<q, calls, pc, owner, sinkVars, history>>

ProcessTerminate ==
    /\ worker = "handling"
    /\ current[1].type = "terminate"
    /\ UNCHANGED written
    /\ FlushSinks
    /\ worker' = "ended"
    /\ current' = <<>>
    /\ UNCHANGED <<q, calls, pc, owner, history>>

-----------------------------------------------------------------------------
(* The destructor, once no client is inside a call.                        *)

(* Seeded defect: the last message may be discarded like any other.        *)
DestroyByPolicy ==
    /\ owner = "running"
    /\ \A c \in Clients : pc[c] = "idle"
    /\ enqueue_msg(Request("terminate"))
    /\ owner' = "joining"
    /\ UNCHANGED <<calls, pc, worker, current, sinkVars, history>>

Destroy ==
    /\ owner = "running"
    /\ \A c \in Clients : pc[c] = "idle"
    /\ Room
    /\ q' = Append(q, Request("terminate"))
    /\ owner' = "joining"
    /\ UNCHANGED <<calls, pc, worker, current, sinkVars, history>>

Joined ==
    /\ owner = "joining"
    /\ worker = "ended"
    /\ owner' = "destroyed"
    /\ UNCHANGED <<q, calls, pc, worker, current, sinkVars, history>>

TimePasses ==
    /\ elapsed < FlushInterval
    /\ elapsed' = elapsed + 1
    /\ UNCHANGED <<q, calls, pc, worker, current, owner, written, flushed, history>>

Worker == Dequeue \/ DequeueTimeOut \/ ProcessLog \/ ProcessFlush \/ ProcessTerminate

Next ==
    \/ \E c \in Clients : Log(c) \/ FlushOnLevel(c) \/ Flush(c)
    \/ Worker \/ Destroy \/ Joined \/ TimePasses

Spec == Init /\ [][Next]_vars

(* The worker runs, time passes, a client finishes the call it is in, and  *)
(* the destructor is not kept from its mutex for ever.  Nobody has to log  *)
(* or to destroy the logger.                                               *)
FairSpec ==
    /\ Spec
    /\ WF_vars(Worker)
    /\ WF_vars(TimePasses)
    /\ WF_vars(Joined)
    /\ \A c \in Clients : SF_vars(FlushOnLevel(c))

-----------------------------------------------------------------------------
(* Type invariant.  The queue keeps its bound (the queue_size handed to    *)
(* set_async_mode), the worker has a message while it handles one, and a   *)
(* sink has flushed at most what it has written.                           *)
TypeOK ==
    /\ q \in Seq(AsyncMsg) /\ Len(q) <= MaxItems
    /\ calls \in [Clients -> 0 .. MaxCalls]
    /\ pc \in [Clients -> {"idle", "flush"}]
    /\ worker \in {"waiting", "handling", "ended"}
    /\ current \in Seq(AsyncMsg) /\ Len(current) = IF worker = "handling" THEN 1 ELSE 0
    /\ owner \in {"running", "joining", "destroyed"}
    /\ written \in [Sinks -> Seq(Message)]
    /\ flushed \in [Sinks -> Nat]
    /\ \A s \in Sinks : flushed[s] <= Len(written[s])
    /\ elapsed \in 0 .. FlushInterval
    /\ accepted \in Seq(Message)
    /\ handled \in 0 .. Len(accepted)
    /\ discarded \subseteq Message
    /\ unformatted \subseteq Message

(* The places, up to the i-th, of the accepted messages that sink s lets   *)
(* through and the formatter does not throw on.                            *)
PlacesFor(s, i) ==
    {k \in 1 .. i : should_log(s, accepted[k]) /\ accepted[k] \notin unformatted}

(* A sink that does not fail has exactly the messages of its level that    *)
(* were handed on, in the order of their acceptance, whatever the other    *)
(* sinks throw: the catch is inside the loop of process_next_msg.          *)
SinksGetTheirMessages ==
    \A s \in Sinks \ MayFail :
        /\ Len(written[s]) = Cardinality(PlacesFor(s, handled))
        /\ \A i \in PlacesFor(s, handled) :
              written[s][Cardinality(PlacesFor(s, i))] = accepted[i]

(* "Upon destruction, logs all remaining messages in the queue before      *)
(* destructing" (async_logger.h:111): once the worker is joined, every     *)
(* message it was given went to the sinks and out of their buffers, and    *)
(* nobody's request is left in the queue.                                  *)
DestructionDrains ==
    owner = "destroyed" =>
        /\ q = <<>>
        /\ handled = Len(accepted)
        /\ \A s \in Sinks \ MayFail : flushed[s] = Len(written[s])

(* A message that asks for a flush is in the sinks' files as soon as the   *)
(* worker has come to the end of the queue, with the policy that waits     *)
(* for room: _sink_it sends the request after the message, and requests    *)
(* of other clients in between do no harm.                                 *)
GraveMessagesAreFlushed ==
    (BlockRetry /\ q = <<>> /\ current = <<>> /\ \A c \in Clients : pc[c] = "idle") =>
        \A s \in Sinks \ MayFail : \A i \in 1 .. Len(written[s]) :
            written[s][i].level \in FlushLevel .. Off - 1 => flushed[s] >= i

(* The destructor comes back: its message goes past a full queue as soon   *)
(* as the worker has made room, and the worker ends with it.               *)
DestructionEnds == (owner = "joining") ~> (owner = "destroyed")

(* With a flush interval what a sink has written does not stay in its      *)
(* buffer, even if nobody logs any more: the worker looks at the clock     *)
(* when it has waited in vain, too.                                        *)
WrittenIsFlushed ==
    \A s \in Sinks \ MayFail : \A n \in 1 .. Cardinality(Message) :
        (Len(written[s]) >= n) ~> (flushed[s] >= n)

(* The logger implements AsyncLogging: what clients, queue and worker do   *)
(* together is to accept messages, to hand them on in order, and to close  *)
(* when none is left.                                                      *)
Abstract == INSTANCE AsyncLogging WITH
                Wants <- should_log,
                closed <- (owner = "destroyed")

ImplementsAsyncLogging == Abstract!Spec
=============================================================================
