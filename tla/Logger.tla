------------------------------- MODULE Logger -------------------------------
(***************************************************************************)
(* The synchronous logger and its sinks: the thread that logs hands the    *)
(* message to one sink after the other.  A plain sink writes under its     *)
(* mutex, one message at a time, which makes a write a single step; a      *)
(* distribution sink holds its mutex while it hands the message on to the  *)
(* sinks of its own list.  What a call of log() is in the middle of is a   *)
(* stack of such loops.  An exception ends them all, and the error handler *)
(* is called.                                                              *)
(***************************************************************************)
EXTENDS Integers, SequencesExt

CONSTANTS
    Threads,
    Logger,     \* the logger, as the holder of the outermost loop
    Sinks,      \* sinks that write
    DistSink,   \* the distribution sink
    LoggerSinks,\* _sinks of the logger, in their order
    InitialList,\* _sinks of the distribution sink at first
    SinkLevel,  \* the level of each sink, the distribution sink included
    MayFail,    \* sinks whose log() may throw
    Levels,     \* levels of the messages
    FlushLevel,
    Minute,     \* the time between two reports of errors
    MaxTime,    \* bound: the time
    MaxCalls    \* bound: calls of each thread

\* What the constants have to be.
LoggerAssumption ==
    /\ DistSink \notin Sinks /\ Logger # DistSink
    /\ LoggerSinks \in Seq(Sinks \union {DistSink})
    /\ InitialList \in Seq(Sinks)
    /\ SinkLevel \in [Sinks \union {DistSink} -> Nat]
    /\ MayFail \subseteq Sinks
    /\ Levels \subseteq Nat /\ FlushLevel \in Nat
    /\ Minute \in Nat \ {0} /\ MaxTime \in Nat /\ Minute <= MaxTime
    /\ MaxCalls \in [Threads -> Nat]

VARIABLES
    level,      \* _level of the logger
    list,       \* _sinks of the distribution sink
    holder,     \* who has its mutex, <<>> or <<t>>
    stack,      \* per thread: the loops it is in, innermost first
    doing,      \* per thread: "idle", "log", "flush", "error" or "report"
    msg,        \* per thread: its message
    calls,      \* per thread: how many calls it has made
    out,        \* what each sink has written
    flushed,    \* how much of it was flushed
    now,
    lastErr,    \* _last_err_time
    seenTime,   \* per thread: the time the error handler saw
    \* history: messages whose call threw, and the times of the reports
    failed, reports

logVars == <<level, list, holder, stack, doing, msg, calls, out, flushed, failed>>
errVars == <<lastErr, seenTime, reports>>
vars == <<logVars, errVars, now>>

Message == [thread : Threads, number : Nat, level : Levels]
NoMessage == [thread |-> Logger, number |-> 0, level |-> 0]

Wants(s, m) == m.level >= SinkLevel[s]

(* Seeded defect: the flush level itself does not flush.                   *)
ShouldFlushAbove(m) == m.level > FlushLevel

Off == 6    \* level::off, above all others
should_flush_on(m) == m.level >= FlushLevel /\ m.level # Off

Init ==
    /\ level = 0
    /\ list = InitialList
    /\ holder = <<>>
    /\ stack = [t \in Threads |-> <<>>]
    /\ doing = [t \in Threads |-> "idle"]
    /\ msg = [t \in Threads |-> NoMessage]
    /\ calls = [t \in Threads |-> 0]
    /\ out = [s \in Sinks |-> <<>>]
    /\ flushed = [s \in Sinks |-> 0]
    /\ now = Minute
    /\ lastErr = 0
    /\ seenTime = [t \in Threads |-> 0]
    /\ failed = {}
    /\ reports = <<>>

-----------------------------------------------------------------------------
(* Calls.                                                                  *)

Call(t) ==
    /\ doing[t] = "idle"
    /\ calls[t] < MaxCalls[t]
    /\ calls' = [calls EXCEPT ![t] = @ + 1]

Loop(of, todo) == [of |-> of, todo |-> todo]

(* A message below the level of the logger goes nowhere.  The formatting   *)
(* of the text or of the line may throw before a sink sees the message.    *)
Log(t) ==
    /\ Call(t)
    /\ \E l \in Levels :
          LET m == [thread |-> t, number |-> calls[t] + 1, level |-> l]
          IN  /\ l >= level
              /\ msg' = [msg EXCEPT ![t] = m]
              /\ \/ /\ doing' = [doing EXCEPT ![t] = "log"]
                    /\ stack' = [stack EXCEPT ![t] = <<Loop(Logger, LoggerSinks)>>]
                    /\ UNCHANGED failed
                 \/ /\ doing' = [doing EXCEPT ![t] = "error"]
                    /\ failed' = failed \union {m}
                    /\ UNCHANGED stack
    /\ UNCHANGED <<level, list, holder, out, flushed, now, errVars>>

Flush(t) ==
    /\ Call(t)
    /\ msg' = [msg EXCEPT ![t] = NoMessage]
    /\ doing' = [doing EXCEPT ![t] = "flush"]
    /\ stack' = [stack EXCEPT ![t] = <<Loop(Logger, LoggerSinks)>>]
    /\ UNCHANGED <<level, list, holder, out, flushed, failed, now, errVars>>

SetLevel(t) ==
    /\ Call(t)
    /\ level' \in Levels
    /\ UNCHANGED <<list, holder, stack, doing, msg, out, flushed, failed, now, errVars>>

(* What is left of the list when every occurrence of a sink is removed:    *)
(* the others, in their order.                                             *)
RemoveSink(s) ==
    LET kept == {i \in DOMAIN list : list[i] # s}
    IN  \E n \in 0 .. Len(list) : \E place \in [1 .. n -> kept] :
           /\ kept \subseteq {place[k] : k \in 1 .. n}
           /\ \A j, k \in 1 .. n : j < k => place[j] < place[k]
           /\ list' = [k \in 1 .. n |-> list[place[k]]]

(* add_sink, remove_sink and remove_all_sinks.                             *)
ChangeList(t) ==
    /\ Call(t)
    /\ holder = <<>>
    /\ \E s \in Sinks \ ToSet(LoggerSinks) :
          \/ list' = Append(list, s)
          \/ RemoveSink(s)
          \/ list' = <<>>
    /\ UNCHANGED <<level, holder, stack, doing, msg, out, flushed, failed, now, errVars>>

-----------------------------------------------------------------------------
(* The loops.                                                              *)

Looping(t) == doing[t] \in {"log", "flush"}
NextSink(t) == Head(stack[t][1].todo)
More(t) == Looping(t) /\ stack[t] # <<>> /\ stack[t][1].todo # <<>>

(* The level of a sink is for messages: a flush goes to all.               *)
Takes(t, s) == doing[t] = "log" => Wants(s, msg[t])

Advanced(t) == [stack[t] EXCEPT ![1].todo = Tail(@)]

(* Seeded defect: a sink that does not want the message ends the loop.     *)
SkipTheRest(t) ==
    /\ More(t)
    /\ ~Takes(t, NextSink(t))
    /\ stack' = [stack EXCEPT ![t][1].todo = <<>>]
    /\ UNCHANGED <<level, list, holder, doing, msg, calls, out, flushed, failed, now, errVars>>

Skip(t) ==
    /\ More(t)
    /\ ~Takes(t, NextSink(t))
    /\ stack' = [stack EXCEPT ![t] = Advanced(t)]
    /\ UNCHANGED <<level, list, holder, doing, msg, calls, out, flushed, failed, now, errVars>>

(* A plain sink writes, or flushes, what it is given.                      *)
Write(t) ==
    /\ More(t)
    /\ LET s == NextSink(t)
       IN  /\ s \in Sinks /\ Takes(t, s)
           /\ IF doing[t] = "log"
                THEN out' = [out EXCEPT ![s] = Append(@, msg[t])] /\ UNCHANGED flushed
                ELSE flushed' = [flushed EXCEPT ![s] = Len(out[s])] /\ UNCHANGED out
    /\ stack' = [stack EXCEPT ![t] = Advanced(t)]
    /\ UNCHANGED <<level, list, holder, doing, msg, calls, failed, now, errVars>>

(* Seeded defect: the distribution sink does without the mutex of its      *)
(* base class.                                                             *)
EnterDistFreely(t) ==
    /\ More(t)
    /\ NextSink(t) = DistSink /\ Takes(t, DistSink)
    /\ stack' = [stack EXCEPT ![t] = <<Loop(DistSink, list)>> \o Advanced(t)]
    /\ UNCHANGED <<level, list, holder, doing, msg, calls, out, flushed, failed, now, errVars>>

EnterDist(t) ==
    /\ More(t)
    /\ NextSink(t) = DistSink /\ Takes(t, DistSink)
    /\ holder = <<>>
    /\ holder' = <<t>>
    /\ stack' = [stack EXCEPT ![t] = <<Loop(DistSink, list)>> \o Advanced(t)]
    /\ UNCHANGED <<level, list, doing, msg, calls, out, flushed, failed, now, errVars>>

Released(t) == IF holder = <<t>> THEN <<>> ELSE holder

(* The end of a loop.  The outermost one of log() is followed by a flush   *)
(* if the message asks for it.                                             *)
Leave(t) ==
    /\ Looping(t)
    /\ stack[t] # <<>> /\ stack[t][1].todo = <<>>
    /\ IF stack[t][1].of = DistSink
         THEN /\ holder' = Released(t)
              /\ stack' = [stack EXCEPT ![t] = Tail(@)]
              /\ UNCHANGED doing
         ELSE /\ UNCHANGED holder
              /\ IF doing[t] = "log" /\ should_flush_on(msg[t])
                   THEN /\ doing' = [doing EXCEPT ![t] = "flush"]
                        /\ stack' = [stack EXCEPT ![t] = <<Loop(Logger, LoggerSinks)>>]
                   ELSE /\ doing' = [doing EXCEPT ![t] = "idle"]
                        /\ stack' = [stack EXCEPT ![t] = <<>>]
    /\ UNCHANGED <<level, list, msg, calls, out, flushed, failed, now, errVars>>

(* Seeded defect: the exception leaves the mutex locked.                   *)
ThrowLocked(t) ==
    /\ More(t)
    /\ NextSink(t) \in MayFail /\ Takes(t, NextSink(t))
    /\ stack' = [stack EXCEPT ![t] = <<>>]
    /\ doing' = [doing EXCEPT ![t] = "error"]
    /\ failed' = failed \union {msg[t]}
    /\ UNCHANGED <<level, list, holder, msg, calls, out, flushed, now, errVars>>

(* An exception ends every loop, the one over the sinks of the logger      *)
(* included: log() and flush() catch it outside.                           *)
Throw(t) ==
    /\ More(t)
    /\ NextSink(t) \in MayFail /\ Takes(t, NextSink(t))
    /\ holder' = Released(t)
    /\ stack' = [stack EXCEPT ![t] = <<>>]
    /\ doing' = [doing EXCEPT ![t] = "error"]
    /\ failed' = failed \union {msg[t]}
    /\ UNCHANGED <<level, list, msg, calls, out, flushed, now, errVars>>

-----------------------------------------------------------------------------
(* The default error handler reads the clock and _last_err_time, and if    *)
(* the last report is old enough stores the time and prints.               *)
CheckErrorTime(t) ==
    /\ doing[t] = "error"
    /\ IF now - lastErr < Minute
         THEN doing' = [doing EXCEPT ![t] = "idle"] /\ UNCHANGED seenTime
         ELSE doing' = [doing EXCEPT ![t] = "report"] /\ seenTime' = [seenTime EXCEPT ![t] = now]
    /\ UNCHANGED <<level, list, holder, stack, msg, calls, out, flushed, failed, now, lastErr, reports>>

ReportError(t) ==
    /\ doing[t] = "report"
    /\ lastErr' = seenTime[t]
    /\ reports' = Append(reports, seenTime[t])
    /\ doing' = [doing EXCEPT ![t] = "idle"]
    /\ seenTime' = [seenTime EXCEPT ![t] = 0]
    /\ UNCHANGED <<level, list, holder, stack, msg, calls, out, flushed, failed, now>>

TimePasses ==
    /\ now < MaxTime
    /\ now' = now + 1
    /\ UNCHANGED <<logVars, errVars>>

Step(t) ==
    \/ Skip(t) \/ Write(t) \/ EnterDist(t) \/ Leave(t) \/ Throw(t)
    \/ CheckErrorTime(t) \/ ReportError(t)

Next ==
    \/ \E t \in Threads : Step(t) \/ Log(t) \/ Flush(t) \/ SetLevel(t) \/ ChangeList(t)
    \/ TimePasses

Spec == Init /\ [][Next]_vars

(* A thread goes on with its call; one that waits for the mutex gets it    *)
(* some time if it is free again and again.                                *)
FairSpec == Spec /\ \A t \in Threads : SF_vars(Step(t))

-----------------------------------------------------------------------------
(* Type invariant.  The mutex is held by a thread that is in the loop it   *)
(* guards, and a call that is over has left nothing behind.                *)
TypeOK ==
    /\ level \in Levels \union {0}
    /\ list \in Seq(Sinks)
    /\ doing \in [Threads -> {"idle", "log", "flush", "error", "report"}]
    /\ \A t \in Threads :
          /\ Looping(t) <=> stack[t] # <<>>
          /\ (holder = <<t>>) <=> \E i \in DOMAIN stack[t] : stack[t][i].of = DistSink
    /\ holder \in {<<>>} \union {<<t>> : t \in Threads}
    /\ msg \in [Threads -> Message \union {NoMessage}]
    /\ \A t \in Threads : calls[t] \in 0 .. MaxCalls[t]
    /\ out \in [Sinks -> Seq(Message)]
    /\ \A s \in Sinks : flushed[s] \in 0 .. Len(out[s])
    /\ now \in 0 .. MaxTime /\ lastErr \in 0 .. now
    /\ \A i \in DOMAIN reports : reports[i] <= now

Precedes(m1, m2, s) ==
    \E i, j \in DOMAIN out[s] : i < j /\ out[s][i] = m1 /\ out[s][j] = m2

(* The sinks behind a distribution sink agree on the order of what threads *)
(* log at the same time: its mutex is held for the whole loop.  (The sinks *)
(* of the logger itself need not agree.)                                   *)
DistSinkKeepsOrder ==
    \A s1, s2 \in Sinks \ ToSet(LoggerSinks) :
        \A i, j \in DOMAIN out[s1] :
            i < j => (\/ out[s1][i] = out[s1][j]
                      \/ ~Precedes(out[s1][j], out[s1][i], s2))

(* A call that is over and threw nothing has brought its message to every  *)
(* sink of the logger that wants it, whatever levels the sinks before it   *)
(* have.                                                                   *)
LoggedEverywhere ==
    \A t \in Threads :
        (doing[t] = "idle" /\ msg[t] # NoMessage /\ msg[t] \notin failed) =>
            \A s \in Sinks \intersect ToSet(LoggerSinks) :
                Wants(s, msg[t]) => \E i \in DOMAIN out[s] : out[s][i] = msg[t]

(* And if it asks for a flush it is flushed there, while other threads     *)
(* write and flush: flush() comes after the last sink has written.         *)
GraveMessagesAreFlushed ==
    \A t \in Threads :
        (doing[t] = "idle" /\ msg[t].level \in FlushLevel .. Off - 1 /\ msg[t] \notin failed) =>
            \A s \in Sinks : \A i \in DOMAIN out[s] :
                out[s][i] = msg[t] /\ s \in ToSet(LoggerSinks) => flushed[s] >= i

(* Every call returns, also when a sink throws while the distribution sink *)
(* is locked and others wait for it.                                       *)
CallsReturn == \A t \in Threads : (doing[t] # "idle") ~> (doing[t] = "idle")
=============================================================================
