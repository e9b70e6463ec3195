----------------------------- MODULE SinkProofs -----------------------------
(***************************************************************************)
(* A line and where it goes: what holds of the synchronous logger with its *)
(* distribution sink, of coloured console sinks and of the cached offset   *)
(* for any threads, sinks, levels and lists.                               *)
(*                                                                         *)
(* The three are proved about through instances.  The invariant of         *)
(* the logger says where every thread is in its loops over sinks, that     *)
(* each sink of the logger has a message or is still to come, and that     *)
(* each is flushed or is still to come in the loop that flushes.  That of  *)
(* the console says how far each message has come on the screen, and that  *)
(* somebody is about to put back attributes that are not those it began    *)
(* with.                                                                   *)
(***************************************************************************)
EXTENDS Integers, Sequences, SequenceTheorems, TLAPS

CONSTANTS
    Threads, LoggerName, Sinks, DistSink, LoggerSinks, InitialList, SinkLevel,
    MayFail, Levels, FlushLevel, Minute, MaxTime, MaxCalls,
    Kind, Foreground, Default, colors, ShouldDoColors, MaxMessages,
    cache_refresh, Bias, DaylightSaving, SummerStart, PatternTime

VARIABLES
    level, list, holder, stack, doing, msg, calls, out, flushed, now, lastErr,
    seenTime, failed, reports,
    attributes, screen, mutex, call, sent,
    msgTime, last_update, offset_minutes, line, newest

Sync == INSTANCE Logger WITH Logger <- LoggerName
Console == INSTANCE ConsoleSinks
Offset == INSTANCE OffsetFormatter

-----------------------------------------------------------------------------
(* The inductive invariant.                                                *)

Todo == {s \in Seq(Sinks \union {DistSink}) : Sync!ToSet(s) \subseteq Sync!ToSet(LoggerSinks)}

(* The loops a thread may be in: over the sinks of the logger, and within  *)
(* it over those of the distribution sink.                                 *)
Stacks ==
    {<<Sync!Loop(LoggerName, s)>> : s \in Todo}
      \union {<<Sync!Loop(DistSink, r), Sync!Loop(LoggerName, s)>> : r \in Seq(Sinks), s \in Todo}

InDist(t) == Len(stack[t]) = 2

(* The sinks of the logger a thread has not come to yet.                   *)
Remaining(t) == stack[t][Len(stack[t])].todo
Rest(t) == Sync!ToSet(Remaining(t))

Listed == Sinks \intersect Sync!ToSet(LoggerSinks)
Behind == Sinks \ Sync!ToSet(LoggerSinks)

StackInv ==
    /\ stack \in [Threads -> Stacks \union {<<>>}]
    /\ \A t \in Threads : /\ Sync!Looping(t) <=> stack[t] # <<>>
                          /\ InDist(t) <=> holder = <<t>>

(* What is kept of types, beside those of the loops.                       *)
States == {"idle", "log", "flush", "error", "report"}

Types ==
    /\ level \in Levels \union {0}
    /\ list \in Seq(Sinks)
    /\ holder \in {<<>>} \union {<<t>> : t \in Threads}
    /\ doing \in [Threads -> States]
    /\ msg \in [Threads -> Sync!Message \union {Sync!NoMessage}]
    /\ calls \in [Threads -> Nat] /\ \A t \in Threads : calls[t] <= MaxCalls[t]
    /\ out \in [Sinks -> Seq(Sync!Message)]
    /\ flushed \in [Sinks -> Nat] /\ \A s \in Sinks : flushed[s] <= Len(out[s])

TimeInv ==
    /\ now \in 0 .. MaxTime /\ lastErr \in 0 .. now
    /\ seenTime \in [Threads -> 0 .. now]
    /\ reports \in Seq(0 .. now)

(* Messages are those of the thread that logs them, numbered by its calls, *)
(* also where they have been written.                                      *)
NumberInv ==
    /\ \A t \in Threads : msg[t] # Sync!NoMessage =>
          msg[t].thread = t /\ msg[t].number \in 1 .. calls[t]
    /\ \A t \in Threads : doing[t] = "log" => msg[t] # Sync!NoMessage
    /\ \A s \in Sinks : \A i \in DOMAIN out[s] :
          out[s][i].number \in 1 .. calls[out[s][i].thread]

FailedInv == \A t \in Threads : doing[t] \in {"error", "report"} => msg[t] \in failed

(* A sink of the logger that wants a message has it, or is still to come;  *)
(* one that is to be flushed was, or the flush is still to come.           *)
Delivered(t) ==
    msg[t] # Sync!NoMessage /\ msg[t] \notin failed =>
        \A s \in Listed : Sync!Wants(s, msg[t]) =>
            \/ doing[t] = "log" /\ s \in Rest(t)
            \/ \E i \in DOMAIN out[s] : out[s][i] = msg[t]

Secured(t) ==
    msg[t] # Sync!NoMessage /\ msg[t] \notin failed /\ Sync!should_flush_on(msg[t]) =>
        \A s \in Listed :
            \/ doing[t] = "log"
            \/ doing[t] = "flush" /\ s \in Rest(t)
            \/ \A i \in DOMAIN out[s] : out[s][i] = msg[t] => i <= flushed[s]

LoggerInv ==
    /\ Types
    /\ StackInv
    /\ NumberInv
    /\ FailedInv
    /\ \A t \in Threads : Delivered(t) /\ Secured(t)

(* The stacks there are, and the empty one is none of them.                *)
LEMMA StacksAre ==
    /\ \A s \in Todo : <<Sync!Loop(LoggerName, s)>> \in Stacks
    /\ \A r \in Seq(Sinks), s \in Todo :
          <<Sync!Loop(DistSink, r), Sync!Loop(LoggerName, s)>> \in Stacks
    /\ <<>> \notin Stacks
BY DEF Stacks

(* Where a stack of one or two loops keeps what is left of the outer one.  *)
LEMMA LoopsOf ==
    ASSUME NEW o, NEW s, NEW l
    PROVE  /\ Len(<<Sync!Loop(o, s)>>) = 1 /\ <<Sync!Loop(o, s)>>[1].todo = s
           /\ Len(<<l, Sync!Loop(o, s)>>) = 2 /\ <<l, Sync!Loop(o, s)>>[2].todo = s
BY DEF Sync!Loop

(* A thread with a call is in one loop, or in two with the mutex.          *)
LEMMA Shapes ==
    ASSUME StackInv, NEW t \in Threads, Sync!Looping(t)
    PROVE  /\ Remaining(t) \in Todo
           /\ \/ /\ stack[t] = <<Sync!Loop(LoggerName, Remaining(t))>>
                 /\ ~InDist(t)
                 /\ stack[t][1].todo = Remaining(t)
                 /\ stack[t][1].of = LoggerName
              \/ \E r \in Seq(Sinks) :
                    /\ stack[t] = <<Sync!Loop(DistSink, r), Sync!Loop(LoggerName, Remaining(t))>>
                    /\ InDist(t)
                    /\ stack[t][1].todo = r
                    /\ stack[t][1].of = DistSink
<1>1. stack[t] \in Stacks
    BY DEF StackInv
<1>2. CASE \E s \in Todo : stack[t] = <<Sync!Loop(LoggerName, s)>>
  <2>1. PICK s \in Todo : stack[t] = <<Sync!Loop(LoggerName, s)>>
      BY <1>2
  <2>2. Len(stack[t]) = 1 /\ stack[t][1] = Sync!Loop(LoggerName, s)
      BY <2>1
  <2> QED BY <2>1, <2>2 DEF InDist, Remaining, Sync!Loop
<1>3. CASE \E s \in Todo, r \in Seq(Sinks) :
              stack[t] = <<Sync!Loop(DistSink, r), Sync!Loop(LoggerName, s)>>
  <2>1. PICK s \in Todo, r \in Seq(Sinks) :
              stack[t] = <<Sync!Loop(DistSink, r), Sync!Loop(LoggerName, s)>>
      BY <1>3
  <2>2. /\ Len(stack[t]) = 2 /\ stack[t][1] = Sync!Loop(DistSink, r)
        /\ stack[t][2] = Sync!Loop(LoggerName, s)
      BY <2>1
  <2> QED BY <2>1, <2>2 DEF InDist, Remaining, Sync!Loop
<1> QED BY <1>1, <1>2, <1>3 DEF Stacks

(* The rest of a loop.                                                     *)
LEMMA TailOfTodo ==
    ASSUME NEW s \in Todo, s # <<>>
    PROVE  /\ Tail(s) \in Todo
           /\ Head(s) \in Sinks \union {DistSink}
           /\ Head(s) \in Sync!ToSet(LoggerSinks)
           /\ Sync!ToSet(s) = Sync!ToSet(Tail(s)) \union {Head(s)}
<1>1. s \in Seq(Sinks \union {DistSink}) /\ Len(s) \in Nat \ {0}
    BY EmptySeq, LenProperties DEF Todo
<1>2. /\ Tail(s) \in Seq(Sinks \union {DistSink}) /\ Len(Tail(s)) = Len(s) - 1
      /\ \A i \in 1 .. Len(Tail(s)) : Tail(s)[i] = s[i + 1]
      /\ Head(s) = s[1] /\ Head(s) \in Sinks \union {DistSink}
    BY <1>1, HeadTailProperties
<1>3. DOMAIN s = 1 .. Len(s) /\ DOMAIN Tail(s) = 1 .. Len(Tail(s))
    BY <1>1, <1>2, LenProperties
<1>4. Sync!ToSet(s) = Sync!ToSet(Tail(s)) \union {Head(s)}
  <2>1. \A i \in 1 .. Len(s) : i = 1 \/ (i - 1 \in 1 .. Len(Tail(s)) /\ Tail(s)[i - 1] = s[i])
      BY <1>1, <1>2
  <2>2. \A i \in 1 .. Len(Tail(s)) : i + 1 \in 1 .. Len(s)
      BY <1>1, <1>2
  <2>3. 1 \in 1 .. Len(s)
      BY <1>1
  <2>4. ASSUME NEW x, x \in Sync!ToSet(s)
        PROVE  x \in Sync!ToSet(Tail(s)) \union {Head(s)}
    <3>1. PICK i \in 1 .. Len(s) : s[i] = x
        BY <1>3, <2>4 DEF Sync!ToSet
    <3>2. CASE i = 1
        BY <1>2, <3>1, <3>2
    <3>3. CASE i - 1 \in 1 .. Len(Tail(s)) /\ Tail(s)[i - 1] = s[i]
        BY <1>3, <3>1, <3>3 DEF Sync!ToSet
    <3> QED BY <2>1, <3>1, <3>2, <3>3
  <2>5. ASSUME NEW x, x \in Sync!ToSet(Tail(s))
        PROVE  x \in Sync!ToSet(s)
      BY <1>2, <1>3, <2>2, <2>5 DEF Sync!ToSet
  <2>6. Head(s) \in Sync!ToSet(s)
      BY <1>2, <1>3, <2>3 DEF Sync!ToSet
  <2> QED BY <2>4, <2>5, <2>6
<1> QED BY <1>2, <1>4 DEF Todo

(* The innermost of one or two loops goes on; one more begins.             *)
LEMMA LoopAdvanced ==
    ASSUME NEW o, NEW s
    PROVE  [Sync!Loop(o, s) EXCEPT !.todo = Tail(@)] = Sync!Loop(o, Tail(s))
<1>1. [Sync!Loop(o, s) EXCEPT !.todo = Tail(@)] \in [of : {o}, todo : {Tail(s)}]
    BY DEF Sync!Loop
<1>2. \A r \in [of : {o}, todo : {Tail(s)}] : r = Sync!Loop(o, Tail(s))
    BY DEF Sync!Loop
<1> QED BY <1>1, <1>2

(* The innermost loop of a stack has one sink less to come.                *)
LEMMA StackAdvanced ==
    ASSUME NEW t, NEW o, NEW s
    PROVE  /\ stack[t] = <<Sync!Loop(o, s)>> =>
                  Sync!Advanced(t) = <<Sync!Loop(o, Tail(s))>>
           /\ \A l : stack[t] = <<Sync!Loop(o, s), l>> =>
                  Sync!Advanced(t) = <<Sync!Loop(o, Tail(s)), l>>
<1>1. ASSUME stack[t][1] = Sync!Loop(o, s)
      PROVE  Sync!Advanced(t) = [stack[t] EXCEPT ![1] = Sync!Loop(o, Tail(s))]
  <2>1. [stack[t][1] EXCEPT !.todo = Tail(@)] = Sync!Loop(o, Tail(s))
      BY <1>1, LoopAdvanced
  <2> QED BY <2>1 DEF Sync!Advanced
<1>2. \A e, f : [<<e>> EXCEPT ![1] = f] = <<f>>
    OBVIOUS
<1>3. \A e, f, l : [<<e, l>> EXCEPT ![1] = f] = <<f, l>>
    OBVIOUS
<1>4. \A e, l : <<e>>[1] = e /\ <<e, l>>[1] = e
    OBVIOUS
<1>5. ASSUME stack[t] = <<Sync!Loop(o, s)>>
      PROVE  Sync!Advanced(t) = <<Sync!Loop(o, Tail(s))>>
    BY <1>1, <1>2, <1>4, <1>5
<1>6. ASSUME NEW l, stack[t] = <<Sync!Loop(o, s), l>>
      PROVE  Sync!Advanced(t) = <<Sync!Loop(o, Tail(s)), l>>
    BY <1>1, <1>3, <1>4, <1>6
<1> QED BY <1>5, <1>6

(* A loop is put in front of another.                                      *)
LEMMA StackOfTwo ==
    ASSUME NEW a, NEW b
    PROVE  <<a>> \o <<b>> = <<a, b>>
<1> DEFINE S == {a, b}
<1>1. <<a>> \in Seq(S) /\ <<b>> \in Seq(S) /\ <<a, b>> \in Seq(S)
    OBVIOUS
<1>2. Len(<<a>>) = 1 /\ Len(<<b>>) = 1 /\ Len(<<a, b>>) = 2
    OBVIOUS
<1>3. <<a>> \o <<b>> \in Seq(S) /\ Len(<<a>> \o <<b>>) = 2
    BY <1>1, <1>2, ConcatProperties
<1>4. (<<a>> \o <<b>>)[1] = a /\ (<<a>> \o <<b>>)[2] = b
    BY <1>1, <1>2, ConcatProperties
<1>5. \A i \in 1 .. 2 : (<<a>> \o <<b>>)[i] = <<a, b>>[i]
    BY <1>4
<1> QED BY ONLY <1>1, <1>2, <1>3, <1>5, SeqEqual

(* What a step of a loop does: the next sink is done with.                 *)
LEMMA Advance ==
    ASSUME StackInv, NEW t \in Threads, Sync!More(t),
           stack' = [stack EXCEPT ![t] = Sync!Advanced(t)], UNCHANGED <<doing, holder>>
    PROVE  /\ StackInv'
           /\ InDist(t) => Remaining(t)' = Remaining(t) /\ Sync!NextSink(t) \in Sinks
           /\ ~InDist(t) => /\ Remaining(t) \in Todo \ {<<>>}
                            /\ Remaining(t)' = Tail(Remaining(t))
                            /\ Sync!NextSink(t) = Head(Remaining(t))
           /\ \A u \in Threads \ {t} : stack'[u] = stack[u]
<1>1. Sync!Looping(t) /\ stack[t] # <<>> /\ stack[t][1].todo # <<>>
    BY DEF Sync!More
<1>2. stack'[t] = Sync!Advanced(t) /\ \A u \in Threads \ {t} : stack'[u] = stack[u]
    BY DEF StackInv
<1> DEFINE s == Remaining(t)
<1>3. /\ stack'[t] \in Stacks
      /\ InDist(t)' <=> InDist(t)
      /\ InDist(t) => Remaining(t)' = s /\ Sync!NextSink(t) \in Sinks
      /\ ~InDist(t) => /\ s \in Todo \ {<<>>}
                       /\ Remaining(t)' = Tail(s)
                       /\ Sync!NextSink(t) = Head(s)
  <2>1. CASE /\ stack[t] = <<Sync!Loop(LoggerName, s)>>
             /\ ~InDist(t)
             /\ stack[t][1].todo = s
    <3>1. s \in Todo
        BY <1>1, Shapes
    <3> HIDE DEF s
    <3>2. stack'[t] = <<Sync!Loop(LoggerName, Tail(s))>>
        BY <1>2, <2>1, StackAdvanced
    <3>3. Tail(s) \in Todo
        BY <1>1, <2>1, <3>1, TailOfTodo
    <3>4. Len(stack'[t]) = 1 /\ stack'[t][1].todo = Tail(s)
      <4>1. LET q == <<Sync!Loop(LoggerName, Tail(s))>> IN Len(q) = 1 /\ q[1].todo = Tail(s)
          BY LoopsOf
      <4> QED BY <3>2, <4>1
    <3>5. ~InDist(t)' /\ Remaining(t)' = Tail(s) /\ Sync!NextSink(t) = Head(s)
        BY <2>1, <3>4 DEF InDist, Remaining, Sync!NextSink
    <3> QED BY <1>1, <2>1, <3>1, <3>2, <3>3, <3>5, StacksAre
  <2>2. CASE \E r \in Seq(Sinks) :
                 /\ stack[t] = <<Sync!Loop(DistSink, r), Sync!Loop(LoggerName, s)>>
                 /\ InDist(t)
                 /\ stack[t][1].todo = r
    <3>0. s \in Todo
        BY <1>1, Shapes
    <3> HIDE DEF s
    <3>1. PICK r \in Seq(Sinks) :
                 /\ stack[t] = <<Sync!Loop(DistSink, r), Sync!Loop(LoggerName, s)>>
                 /\ InDist(t)
                 /\ stack[t][1].todo = r
        BY <2>2
    <3>2. stack'[t] = <<Sync!Loop(DistSink, Tail(r)), Sync!Loop(LoggerName, s)>>
        BY <1>2, <3>1, StackAdvanced
    <3>3. Tail(r) \in Seq(Sinks) /\ Head(r) \in Sinks
        BY <1>1, <3>1, HeadTailProperties
    <3>4. Len(stack'[t]) = 2 /\ stack'[t][2].todo = s
      <4>1. LET q == <<Sync!Loop(DistSink, Tail(r)), Sync!Loop(LoggerName, s)>>
            IN  Len(q) = 2 /\ q[2].todo = s
          BY LoopsOf
      <4> QED BY <3>2, <4>1
    <3>5. InDist(t)' /\ Remaining(t)' = s /\ Sync!NextSink(t) = Head(r)
        BY <3>1, <3>4 DEF InDist, Remaining, Sync!NextSink
    <3>6. stack'[t] \in Stacks
        BY <3>0, <3>2, <3>3, StacksAre
    <3> QED BY <3>1, <3>3, <3>5, <3>6
  <2> QED BY <1>1, <2>1, <2>2, Shapes
<1>4. StackInv'
  <2>1. stack' \in [Threads -> Stacks \union {<<>>}]
      BY <1>2, <1>3 DEF StackInv
  <2>2. stack'[t] # <<>>
      BY <1>3, StacksAre
  <2>3. \A u \in Threads : Sync!Looping(u)' <=> stack'[u] # <<>>
      BY <1>1, <1>2, <2>2 DEF StackInv, Sync!Looping
  <2>4. \A u \in Threads : InDist(u)' <=> holder' = <<u>>
      BY <1>2, <1>3 DEF StackInv, InDist
  <2> QED BY <2>1, <2>3, <2>4 DEF StackInv
<1> QED BY <1>2, <1>3, <1>4

(* The distribution sink begins its loop, with its mutex.                  *)
LEMMA Enter ==
    ASSUME StackInv, list \in Seq(Sinks), NEW t \in Threads, Sync!EnterDist(t)
    PROVE  /\ StackInv'
           /\ Remaining(t) \in Todo \ {<<>>}
           /\ Remaining(t)' = Tail(Remaining(t))
           /\ Head(Remaining(t)) = DistSink
           /\ \A u \in Threads \ {t} : stack'[u] = stack[u]
<1>1. /\ Sync!Looping(t) /\ stack[t] # <<>> /\ stack[t][1].todo # <<>>
      /\ Sync!NextSink(t) = DistSink /\ holder = <<>> /\ holder' = <<t>>
      /\ stack' = [stack EXCEPT ![t] = <<Sync!Loop(DistSink, list)>> \o Sync!Advanced(t)]
      /\ doing' = doing
    BY DEF Sync!EnterDist, Sync!More
<1>2. ~InDist(t)
    BY <1>1 DEF StackInv
<1> DEFINE s == Remaining(t)
<1>3. /\ stack[t] = <<Sync!Loop(LoggerName, s)>>
      /\ s \in Todo \ {<<>>}
      /\ Head(s) = DistSink
    BY <1>1, <1>2, Shapes DEF Sync!NextSink
<1> HIDE DEF s
<1>4. Sync!Advanced(t) = <<Sync!Loop(LoggerName, Tail(s))>>
    BY <1>3, StackAdvanced
<1>5. Tail(s) \in Todo
    BY <1>3, TailOfTodo
<1>6. /\ stack'[t] = <<Sync!Loop(DistSink, list), Sync!Loop(LoggerName, Tail(s))>>
      /\ \A u \in Threads \ {t} : stack'[u] = stack[u]
    BY <1>1, <1>4, StackOfTwo DEF StackInv
<1>7. stack'[t] \in Stacks
    BY <1>5, <1>6, StacksAre
<1>8. Len(stack'[t]) = 2 /\ stack'[t][2].todo = Tail(s) /\ stack'[t] # <<>>
    BY <1>6 DEF Sync!Loop
<1>9. StackInv'
  <2>1. stack' \in [Threads -> Stacks \union {<<>>}]
      BY <1>1, <1>7 DEF StackInv
  <2>2. \A u \in Threads : Sync!Looping(u)' <=> stack'[u] # <<>>
      BY <1>1, <1>6, <1>8 DEF StackInv, Sync!Looping
  <2>3. \A u \in Threads \ {t} : ~InDist(u) /\ holder' # <<u>>
      BY <1>1 DEF StackInv
  <2>4. \A u \in Threads : InDist(u)' <=> holder' = <<u>>
      BY <1>1, <1>6, <1>8, <2>3 DEF InDist
  <2> QED BY <2>1, <2>2, <2>4 DEF StackInv
<1>10. Remaining(t)' = Tail(s)
    BY <1>8 DEF Remaining
<1> QED BY <1>3, <1>6, <1>9, <1>10 DEF s

(* A thread goes from one loop to another, or to none, without the mutex.  *)
LEMMA NewStack ==
    ASSUME StackInv, NEW t \in Threads, NEW d, ~InDist(t),
           doing \in [Threads -> States], doing' = [doing EXCEPT ![t] = d], holder' = holder,
           \/ /\ d \in {"log", "flush"} /\ LoggerSinks \in Todo
              /\ stack' = [stack EXCEPT ![t] = <<Sync!Loop(LoggerName, LoggerSinks)>>]
           \/ /\ d \notin {"log", "flush"}
              /\ stack' = [stack EXCEPT ![t] = <<>>]
    PROVE  /\ StackInv'
           /\ d \in {"log", "flush"} => Remaining(t)' = LoggerSinks
           /\ \A u \in Threads \ {t} : stack'[u] = stack[u] /\ doing'[u] = doing[u]
           /\ doing'[t] = d
<1>1. /\ doing'[t] = d
      /\ \A u \in Threads \ {t} : stack'[u] = stack[u] /\ doing'[u] = doing[u]
    BY DEF StackInv
<1>2. /\ stack'[t] \in Stacks \union {<<>>}
      /\ stack'[t] # <<>> <=> d \in {"log", "flush"}
      /\ Len(stack'[t]) # 2
      /\ d \in {"log", "flush"} => Remaining(t)' = LoggerSinks
  <2>1. CASE d \in {"log", "flush"}
    <3>1. stack'[t] = <<Sync!Loop(LoggerName, LoggerSinks)>> /\ LoggerSinks \in Todo
        BY <2>1 DEF StackInv
    <3>2. /\ stack'[t] # <<>> /\ Len(stack'[t]) = 1
          /\ stack'[t][1].todo = LoggerSinks
        BY <3>1 DEF Sync!Loop
    <3> QED BY <2>1, <3>1, <3>2, StacksAre DEF Remaining
  <2>2. CASE d \notin {"log", "flush"}
    <3>1. stack'[t] = <<>> /\ Len(stack'[t]) = 0
        BY <2>2 DEF StackInv
    <3> QED BY <2>2, <3>1
  <2> QED BY <2>1, <2>2
<1>3. stack' \in [Threads -> Stacks \union {<<>>}]
    BY <1>2 DEF StackInv
<1>4. \A u \in Threads : Sync!Looping(u)' <=> stack'[u] # <<>>
    BY <1>1, <1>2 DEF StackInv, Sync!Looping
<1>5. \A u \in Threads : InDist(u)' <=> holder' = <<u>>
    BY <1>1, <1>2 DEF StackInv, InDist
<1> QED BY <1>1, <1>2, <1>3, <1>4, <1>5 DEF StackInv

(* A loop ends: that of the distribution sink, or that over the sinks of   *)
(* the logger, after which another one may flush.                          *)
LEMMA LoopEnds ==
    ASSUME StackInv, Sync!LoggerAssumption, doing \in [Threads -> States],
           NEW t \in Threads, Sync!Leave(t)
    PROVE  /\ StackInv'
           /\ \A u \in Threads \ {t} : stack'[u] = stack[u] /\ doing'[u] = doing[u]
           /\ \/ /\ InDist(t)
                 /\ Remaining(t)' = Remaining(t) /\ doing' = doing /\ holder' = <<>>
              \/ /\ Remaining(t) = <<>> /\ holder' = holder
                 /\ \/ /\ doing[t] = "log" /\ Sync!should_flush_on(msg[t])
                       /\ Remaining(t)' = LoggerSinks /\ doing'[t] = "flush"
                    \/ /\ doing[t] = "log" => ~Sync!should_flush_on(msg[t])
                       /\ doing'[t] = "idle"
<1>1. /\ Sync!Looping(t) /\ stack[t] # <<>> /\ stack[t][1].todo = <<>>
      /\ \/ /\ stack[t][1].of = DistSink
            /\ holder' = Sync!Released(t)
            /\ stack' = [stack EXCEPT ![t] = Tail(@)]
            /\ doing' = doing
         \/ /\ stack[t][1].of # DistSink
            /\ holder' = holder
            /\ \/ /\ doing[t] = "log" /\ Sync!should_flush_on(msg[t])
                  /\ doing' = [doing EXCEPT ![t] = "flush"]
                  /\ stack' = [stack EXCEPT ![t] = <<Sync!Loop(LoggerName, LoggerSinks)>>]
               \/ /\ ~(doing[t] = "log" /\ Sync!should_flush_on(msg[t]))
                  /\ doing' = [doing EXCEPT ![t] = "idle"]
                  /\ stack' = [stack EXCEPT ![t] = <<>>]
    BY DEF Sync!Leave
<1>2. LoggerName # DistSink /\ LoggerSinks \in Todo
    BY DEF Sync!LoggerAssumption, Todo
<1> DEFINE s == Remaining(t)
<1>3. CASE InDist(t)
  <2> HIDE DEF s
  <2>1. PICK r \in Seq(Sinks) :
               /\ stack[t] = <<Sync!Loop(DistSink, r), Sync!Loop(LoggerName, s)>>
               /\ s \in Todo
               /\ stack[t][1].of = DistSink
      BY <1>1, <1>3, Shapes DEF s
  <2>2. /\ holder = <<t>> /\ holder' = <<>> /\ doing' = doing
        /\ stack' = [stack EXCEPT ![t] = Tail(@)]
      BY <1>1, <1>3, <2>1 DEF StackInv, Sync!Released
  <2>3. Tail(stack[t]) = <<Sync!Loop(LoggerName, s)>>
      BY <2>1
  <2>4. /\ stack'[t] = <<Sync!Loop(LoggerName, s)>>
        /\ \A u \in Threads \ {t} : stack'[u] = stack[u]
      BY <2>2, <2>3 DEF StackInv
  <2>5. Len(stack'[t]) = 1 /\ stack'[t][1].todo = s /\ stack'[t] # <<>>
      BY <2>4, LoopsOf
  <2>6. StackInv'
    <3>1. stack' \in [Threads -> Stacks \union {<<>>}]
        BY <2>1, <2>2, <2>3, <2>4, StacksAre DEF StackInv
    <3>2. \A u \in Threads : Sync!Looping(u)' <=> stack'[u] # <<>>
        BY <1>1, <2>2, <2>4, <2>5 DEF StackInv, Sync!Looping
    <3>3. \A u \in Threads \ {t} : ~InDist(u)
        BY <2>2 DEF StackInv
    <3>4. \A u : <<>> # <<u>>
        OBVIOUS
    <3>5. \A u \in Threads : ~InDist(u)'
        BY <2>4, <2>5, <3>3 DEF InDist
    <3>6. \A u \in Threads : InDist(u)' <=> holder' = <<u>>
        BY <2>2, <3>4, <3>5
    <3> QED BY <3>1, <3>2, <3>6 DEF StackInv
  <2>7. Remaining(t)' = s
      BY <2>5 DEF Remaining
  <2> QED BY <1>3, <2>2, <2>4, <2>6, <2>7 DEF s
<1>4. CASE ~InDist(t)
  <2>1. s = <<>> /\ stack[t][1].of = LoggerName
      BY <1>1, <1>4, Shapes
  <2>2. CASE doing[t] = "log" /\ Sync!should_flush_on(msg[t])
    <3>1. /\ StackInv' /\ Remaining(t)' = LoggerSinks /\ doing'[t] = "flush"
          /\ \A u \in Threads \ {t} : stack'[u] = stack[u] /\ doing'[u] = doing[u]
        BY <1>1, <1>2, <1>4, <2>1, <2>2, NewStack
    <3> QED BY <1>1, <1>2, <2>1, <2>2, <3>1
  <2>3. CASE ~(doing[t] = "log" /\ Sync!should_flush_on(msg[t]))
    <3>1. /\ StackInv' /\ doing'[t] = "idle"
          /\ \A u \in Threads \ {t} : stack'[u] = stack[u] /\ doing'[u] = doing[u]
        BY <1>1, <1>2, <1>4, <2>1, <2>3, NewStack
    <3> QED BY <1>1, <1>2, <2>1, <2>3, <3>1
  <2> QED BY <2>2, <2>3
<1> QED BY <1>3, <1>4

(* An exception ends all of them.                                          *)
LEMMA LoopsThrown ==
    ASSUME StackInv, doing \in [Threads -> States], NEW t \in Threads, Sync!Throw(t)
    PROVE  /\ StackInv'
           /\ doing'[t] = "error"
           /\ \A u \in Threads \ {t} : stack'[u] = stack[u] /\ doing'[u] = doing[u]
<1>1. /\ stack' = [stack EXCEPT ![t] = <<>>]
      /\ doing' = [doing EXCEPT ![t] = "error"]
      /\ holder' = IF holder = <<t>> THEN <<>> ELSE holder
    BY DEF Sync!Throw, Sync!Released
<1>2. /\ stack'[t] = <<>> /\ doing'[t] = "error"
      /\ \A u \in Threads \ {t} : stack'[u] = stack[u] /\ doing'[u] = doing[u]
      /\ stack' \in [Threads -> Stacks \union {<<>>}]
    BY <1>1 DEF StackInv
<1>3. \A u \in Threads : Sync!Looping(u)' <=> stack'[u] # <<>>
    BY <1>2 DEF StackInv, Sync!Looping
<1>4. \A u \in Threads : InDist(u)' <=> holder' = <<u>>
  <2>1. Len(stack'[t]) = 0
      BY <1>2
  <2>2. \A u \in Threads : <<>> # <<u>> /\ (<<u>> = <<t>> => u = t)
      OBVIOUS
  <2>3. ~InDist(t)' /\ holder' # <<t>>
    <3>1. <<>> # <<t>>
        OBVIOUS
    <3>2. holder' # <<t>>
        BY <1>1, <3>1
    <3> QED BY <2>1, <3>2 DEF InDist
  <2>4. \A u \in Threads \ {t} : (InDist(u)' <=> InDist(u)) /\ (holder' = <<u>> <=> holder = <<u>>)
      BY <1>1, <1>2, <2>2 DEF InDist
  <2> QED BY <2>3, <2>4 DEF StackInv
<1> QED BY <1>2, <1>3, <1>4 DEF StackInv

-----------------------------------------------------------------------------
(* What sinks have written only grows, and by messages of one thread.      *)
Grown(t) ==
    \A s \in Sinks :
        /\ \A i \in DOMAIN out[s] : i \in DOMAIN out'[s] /\ out'[s][i] = out[s][i]
        /\ \A i \in DOMAIN out'[s] : i \in DOMAIN out[s] \/ out'[s][i] = msg[t]

(* A message is written behind those of its sink.                          *)
LEMMA Appended ==
    ASSUME Types, NEW t \in Threads, NEW s \in Sinks, msg[t] \in Sync!Message,
           out' = [out EXCEPT ![s] = Append(@, msg[t])]
    PROVE  /\ out' \in [Sinks -> Seq(Sync!Message)]
           /\ Grown(t)
           /\ \E i \in DOMAIN out'[s] : out'[s][i] = msg[t]
           /\ \A r \in Sinks : Len(out[r]) <= Len(out'[r])
<1>1. out[s] \in Seq(Sync!Message) /\ Len(out[s]) \in Nat
    BY LenProperties DEF Types
<1>2. /\ out'[s] = Append(out[s], msg[t])
      /\ \A r \in Sinks \ {s} : out'[r] = out[r]
    BY DEF Types
<1>3. /\ out'[s] \in Seq(Sync!Message) /\ Len(out'[s]) = Len(out[s]) + 1
      /\ \A i \in 1 .. Len(out[s]) : out'[s][i] = out[s][i]
      /\ out'[s][Len(out[s]) + 1] = msg[t]
    BY <1>1, <1>2, AppendProperties
<1>4. DOMAIN out[s] = 1 .. Len(out[s]) /\ DOMAIN out'[s] = 1 .. Len(out[s]) + 1
    BY <1>1, <1>3, LenProperties
<1>5. out' \in [Sinks -> Seq(Sync!Message)]
    BY <1>3 DEF Types
<1>6. Grown(t)
  <2>1. \A i \in 1 .. Len(out[s]) + 1 : i \in 1 .. Len(out[s]) \/ i = Len(out[s]) + 1
      BY <1>1
  <2>2. \A i \in 1 .. Len(out[s]) : i \in 1 .. Len(out[s]) + 1
      BY <1>1
  <2> QED BY <1>2, <1>3, <1>4, <2>1, <2>2 DEF Grown
<1>7. Len(out[s]) + 1 \in DOMAIN out'[s]
    BY <1>1, <1>4
<1>8. \A r \in Sinks : Len(out[r]) \in Nat
    BY LenProperties DEF Types
<1> QED BY <1>1, <1>2, <1>3, <1>5, <1>6, <1>7, <1>8

(* A thread that does nothing keeps what was promised of its message.      *)
LEMMA Bystander ==
    ASSUME LoggerInv, NEW t \in Threads, NEW u \in Threads \ {t}, Grown(t),
           doing[t] = "log" \/ out' = out,
           msg'[u] = msg[u], doing'[u] = doing[u], stack'[u] = stack[u],
           failed \subseteq failed', \A s \in Sinks : flushed[s] <= flushed'[s],
           flushed' \in [Sinks -> Nat]
    PROVE  Delivered(u)' /\ Secured(u)'
<1>1. Rest(u)' = Rest(u)
    BY DEF Rest, Remaining
<1>2. \A s \in Sinks : \A i \in DOMAIN out'[s] :
         out'[s][i] = msg[u] /\ msg[u] # Sync!NoMessage => i \in DOMAIN out[s]
    BY DEF LoggerInv, NumberInv, Grown
<1>3. Delivered(u)'
    BY <1>1 DEF LoggerInv, Delivered, Grown, Listed, Sync!Wants
<1>4. Secured(u)'
  <2>1. \A s \in Sinks : \A i \in DOMAIN out[s] :
           i <= flushed[s] => i <= flushed'[s]
    <3>1. \A s \in Sinks : DOMAIN out[s] = 1 .. Len(out[s]) /\ flushed[s] \in Nat
        BY LenProperties DEF LoggerInv, Types
    <3> QED BY <3>1
  <2> QED BY <1>1, <1>2, <2>1 DEF LoggerInv, Secured, Grown, Listed, Sync!should_flush_on
<1> QED BY <1>3, <1>4

(* What a sink has written are messages of threads.                        *)
LEMMA WrittenByThreads ==
    ASSUME Types, NEW s \in Sinks, NEW i \in DOMAIN out[s]
    PROVE  out[s][i] \in Sync!Message /\ out[s][i].thread \in Threads
<1>1. out[s] \in Seq(Sync!Message)
    BY DEF Types
<1>2. out[s][i] \in Sync!Message
    BY <1>1, LenProperties
<1> QED BY <1>2 DEF Sync!Message

(* Nothing is written: a call begins or ends, or the list changes.         *)
LEMMA NothingGrows ==
    ASSUME out' = out, NEW t
    PROVE  Grown(t)
BY DEF Grown

(* Steps between calls leave messages and loops as they are.               *)
LEMMA AsideKeepsInv ==
    ASSUME LoggerInv, Sync!LoggerAssumption,
           \/ \E t \in Threads : Sync!SetLevel(t) \/ Sync!ChangeList(t)
           \/ Sync!TimePasses
           \/ UNCHANGED Sync!vars
    PROVE  LoggerInv'
<1>1. /\ UNCHANGED <<holder, stack, doing, msg, out, flushed, failed>>
      /\ \/ calls' = calls
         \/ \E t \in Threads : /\ doing[t] = "idle" /\ calls[t] < MaxCalls[t]
                               /\ calls' = [calls EXCEPT ![t] = @ + 1]
    BY DEF Sync!SetLevel, Sync!ChangeList, Sync!TimePasses, Sync!vars, Sync!logVars, Sync!Call
<1>2. /\ calls' \in [Threads -> Nat]
      /\ \A t \in Threads : calls'[t] <= MaxCalls[t] /\ calls[t] <= calls'[t]
  <2>1. calls \in [Threads -> Nat] /\ MaxCalls \in [Threads -> Nat]
        /\ \A t \in Threads : calls[t] <= MaxCalls[t]
      BY DEF LoggerInv, Types, Sync!LoggerAssumption
  <2>2. CASE calls' = calls
      BY <2>1, <2>2
  <2>3. ASSUME NEW t \in Threads, calls[t] < MaxCalls[t], calls' = [calls EXCEPT ![t] = @ + 1]
        PROVE  /\ calls' \in [Threads -> Nat]
               /\ \A u \in Threads : calls'[u] <= MaxCalls[u] /\ calls[u] <= calls'[u]
      BY <2>1, <2>3
  <2> QED BY <1>1, <2>2, <2>3
<1>3. level' \in Levels \union {0} /\ list' \in Seq(Sinks)
  <2>1. CASE \E t \in Threads : Sync!SetLevel(t)
      BY <2>1 DEF LoggerInv, Types, Sync!SetLevel
  <2>2. ASSUME NEW t \in Threads, Sync!ChangeList(t)
        PROVE  level' \in Levels \union {0} /\ list' \in Seq(Sinks)
    <3>1. level' = level /\ list \in Seq(Sinks) /\ level \in Levels \union {0}
        BY <2>2 DEF LoggerInv, Types, Sync!ChangeList
    <3>2. PICK s \in Sinks : list' = Append(list, s) \/ Sync!RemoveSink(s) \/ list' = <<>>
        BY <2>2 DEF Sync!ChangeList
    <3>3. CASE list' = Append(list, s)
        BY <3>1, <3>3, AppendProperties
    <3>4. CASE Sync!RemoveSink(s)
      <4>1. PICK n \in 0 .. Len(list) :
                \E place \in [1 .. n -> {i \in DOMAIN list : list[i] # s}] :
                    list' = [k \in 1 .. n |-> list[place[k]]]
          BY <3>4 DEF Sync!RemoveSink
      <4>2. PICK place \in [1 .. n -> {i \in DOMAIN list : list[i] # s}] :
                list' = [k \in 1 .. n |-> list[place[k]]]
          BY <4>1
      <4>3. n \in Nat
          BY <3>1, LenProperties
      <4>4. \A k \in 1 .. n : list[place[k]] \in Sinks
          BY <3>1, <4>2, LenProperties
      <4> QED BY <3>1, <4>2, <4>3, <4>4
    <3>5. CASE list' = <<>>
        BY <3>1, <3>5
    <3> QED BY <3>2, <3>3, <3>4, <3>5
  <2>3. CASE Sync!TimePasses \/ UNCHANGED Sync!vars
      BY <2>3 DEF LoggerInv, Types, Sync!TimePasses, Sync!vars, Sync!logVars
  <2> QED BY <2>1, <2>2, <2>3
<1>4. Types'
    BY <1>1, <1>2, <1>3 DEF LoggerInv, Types
<1>5. StackInv' /\ FailedInv'
    BY <1>1 DEF LoggerInv, StackInv, FailedInv, InDist, Sync!Looping
<1>6. NumberInv'
  <2>1. \A t \in Threads : \A n \in 1 .. calls[t] : n \in 1 .. calls'[t]
      BY <1>2 DEF LoggerInv, Types
  <2>2. \A s \in Sinks : \A i \in DOMAIN out[s] : out[s][i].thread \in Threads
      BY WrittenByThreads DEF LoggerInv
  <2> QED BY <1>1, <2>1, <2>2 DEF LoggerInv, NumberInv
<1>7. \A t \in Threads : Delivered(t)' /\ Secured(t)'
    BY <1>1 DEF LoggerInv, Delivered, Secured, Listed, Rest, Remaining, Sync!Wants,
               Sync!should_flush_on
<1> QED BY <1>4, <1>5, <1>6, <1>7 DEF LoggerInv

(* A call begins.                                                          *)
LEMMA CallKeepsInv ==
    ASSUME LoggerInv, Sync!LoggerAssumption, NEW t \in Threads, Sync!Log(t) \/ Sync!Flush(t)
    PROVE  LoggerInv'
<1>1. /\ doing[t] = "idle" /\ calls[t] < MaxCalls[t]
      /\ calls' = [calls EXCEPT ![t] = @ + 1]
      /\ UNCHANGED <<level, list, holder, out, flushed>>
    BY DEF Sync!Log, Sync!Flush, Sync!Call
<1>2. \/ \E l \in Levels :
            LET m == [thread |-> t, number |-> calls[t] + 1, level |-> l]
            IN  /\ msg' = [msg EXCEPT ![t] = m]
                /\ \/ /\ doing' = [doing EXCEPT ![t] = "log"]
                      /\ stack' = [stack EXCEPT ![t] = <<Sync!Loop(LoggerName, LoggerSinks)>>]
                      /\ failed' = failed
                   \/ /\ doing' = [doing EXCEPT ![t] = "error"]
                      /\ stack' = stack
                      /\ failed' = failed \union {m}
      \/ /\ msg' = [msg EXCEPT ![t] = Sync!NoMessage]
         /\ doing' = [doing EXCEPT ![t] = "flush"]
         /\ stack' = [stack EXCEPT ![t] = <<Sync!Loop(LoggerName, LoggerSinks)>>]
         /\ failed' = failed
    BY DEF Sync!Log, Sync!Flush
<1>3. /\ calls' \in [Threads -> Nat] /\ calls'[t] = calls[t] + 1
      /\ \A u \in Threads \ {t} : calls'[u] = calls[u]
      /\ \A u \in Threads : calls'[u] <= MaxCalls[u] /\ calls[u] <= calls'[u]
    BY <1>1 DEF LoggerInv, Types, Sync!LoggerAssumption
<1>4. /\ \A u \in Threads \ {t} : msg'[u] = msg[u] /\ doing'[u] = doing[u]
      /\ doing'[t] \in {"log", "flush", "error"}
      /\ doing' \in [Threads -> States]
      /\ failed \subseteq failed'
    BY <1>2 DEF LoggerInv, Types, States
<1>5. /\ msg' \in [Threads -> Sync!Message \union {Sync!NoMessage}]
      /\ msg'[t] # Sync!NoMessage => msg'[t].thread = t /\ msg'[t].number = calls[t] + 1
      /\ doing'[t] = "log" => msg'[t] # Sync!NoMessage
      /\ doing'[t] = "error" => msg'[t] \in failed'
      /\ doing'[t] = "flush" => msg'[t] = Sync!NoMessage
  <2>1. msg \in [Threads -> Sync!Message \union {Sync!NoMessage}] /\ calls[t] \in Nat
      BY DEF LoggerInv, Types
  <2>2. ASSUME NEW l \in Levels, NEW m, m = [thread |-> t, number |-> calls[t] + 1, level |-> l],
               msg' = [msg EXCEPT ![t] = m]
        PROVE  /\ msg' \in [Threads -> Sync!Message \union {Sync!NoMessage}]
               /\ msg'[t] = m /\ m # Sync!NoMessage /\ m.thread = t /\ m.number = calls[t] + 1
    <3>1. m \in Sync!Message /\ m.number = calls[t] + 1 /\ m.thread = t
        BY <2>1, <2>2 DEF Sync!Message
    <3>2. m # Sync!NoMessage
        BY <2>1, <3>1 DEF Sync!NoMessage
    <3> QED BY <2>1, <2>2, <3>1, <3>2
  <2>3. CASE \E l \in Levels :
                LET m == [thread |-> t, number |-> calls[t] + 1, level |-> l]
                IN  /\ msg' = [msg EXCEPT ![t] = m]
                    /\ \/ doing' = [doing EXCEPT ![t] = "log"]
                       \/ doing' = [doing EXCEPT ![t] = "error"] /\ failed' = failed \union {m}
    <3>1. PICK l \in Levels :
                LET m == [thread |-> t, number |-> calls[t] + 1, level |-> l]
                IN  /\ msg' = [msg EXCEPT ![t] = m]
                    /\ \/ doing' = [doing EXCEPT ![t] = "log"]
                       \/ doing' = [doing EXCEPT ![t] = "error"] /\ failed' = failed \union {m}
        BY <2>3
    <3> DEFINE m == [thread |-> t, number |-> calls[t] + 1, level |-> l]
    <3>2. /\ msg' \in [Threads -> Sync!Message \union {Sync!NoMessage}]
          /\ msg'[t] = m /\ m # Sync!NoMessage /\ m.thread = t /\ m.number = calls[t] + 1
        BY <2>2, <3>1
    <3>3. \/ doing' = [doing EXCEPT ![t] = "log"]
          \/ doing' = [doing EXCEPT ![t] = "error"] /\ failed' = failed \union {m}
        BY <3>1
    <3> HIDE DEF m
    <3>4. doing'[t] = "log" \/ (doing'[t] = "error" /\ m \in failed')
        BY <3>3 DEF LoggerInv, Types
    <3> QED BY <3>2, <3>4
  <2>4. CASE /\ msg' = [msg EXCEPT ![t] = Sync!NoMessage]
             /\ doing' = [doing EXCEPT ![t] = "flush"]
      BY <2>1, <2>4 DEF LoggerInv, Types
  <2> QED BY <1>2, <2>3, <2>4
<1>6. /\ ~InDist(t) /\ LoggerSinks \in Todo
      /\ stack[t] = <<>> /\ stack \in [Threads -> Stacks \union {<<>>}]
  <2>1. stack[t] = <<>>
      BY <1>1 DEF LoggerInv, StackInv, Sync!Looping
  <2>2. LoggerSinks \in Todo
      BY DEF Sync!LoggerAssumption, Todo
  <2> QED BY <2>1, <2>2 DEF InDist, LoggerInv, StackInv
<1>7. /\ StackInv'
      /\ doing'[t] = "log" => Remaining(t)' = LoggerSinks
      /\ \A u \in Threads \ {t} : stack'[u] = stack[u]
  <2>1. stack = [stack EXCEPT ![t] = <<>>]
      BY <1>6
  <2>2. PICK d \in {"log", "flush", "error"} :
            /\ doing' = [doing EXCEPT ![t] = d]
            /\ \/ /\ d \in {"log", "flush"}
                  /\ stack' = [stack EXCEPT ![t] = <<Sync!Loop(LoggerName, LoggerSinks)>>]
               \/ /\ d \notin {"log", "flush"}
                  /\ stack' = [stack EXCEPT ![t] = <<>>]
      BY <1>2, <2>1
  <2>3. /\ StackInv'
        /\ d \in {"log", "flush"} => Remaining(t)' = LoggerSinks
        /\ \A u \in Threads \ {t} : stack'[u] = stack[u]
        /\ doing'[t] = d
      BY <1>1, <1>6, <2>2, NewStack DEF LoggerInv, Types
  <2> QED BY <2>3
<1>8. Types'
    BY <1>1, <1>3, <1>4, <1>5 DEF LoggerInv, Types
<1>9. FailedInv'
    BY <1>4, <1>5 DEF LoggerInv, FailedInv
<1>10. NumberInv'
  <2>1. \A u \in Threads : \A n \in 1 .. calls[u] : n \in 1 .. calls'[u]
      BY <1>3 DEF LoggerInv, Types
  <2>2. \A s \in Sinks : \A i \in DOMAIN out[s] : out[s][i].thread \in Threads
      BY WrittenByThreads DEF LoggerInv
  <2>3. calls[t] + 1 \in 1 .. calls'[t]
      BY <1>3 DEF LoggerInv, Types
  <2> QED BY <1>1, <1>4, <1>5, <2>1, <2>2, <2>3 DEF LoggerInv, NumberInv
<1>11. ASSUME NEW u \in Threads \ {t}
       PROVE  Delivered(u)' /\ Secured(u)'
  <2>1. Grown(t)
      BY <1>1, NothingGrows
  <2>2. \A s \in Sinks : flushed[s] <= flushed'[s]
      BY <1>1 DEF LoggerInv, Types
  <2> QED BY <1>1, <1>4, <1>7, <1>8, <2>1, <2>2, Bystander DEF Types
<1>12. Delivered(t)' /\ Secured(t)'
  <2>1. CASE doing'[t] = "log"
    <3>1. Rest(t)' = Sync!ToSet(LoggerSinks)
        BY <1>7, <2>1 DEF Rest
    <3> QED BY <2>1, <3>1 DEF Delivered, Secured, Listed
  <2>2. CASE doing'[t] # "log"
      BY <1>4, <1>5, <2>2 DEF Delivered, Secured
  <2> QED BY <2>1, <2>2
<1> QED BY <1>7, <1>8, <1>9, <1>10, <1>11, <1>12 DEF LoggerInv

-----------------------------------------------------------------------------
(* The steps of a call.                                                    *)

(* What those have in common that end no loop.                             *)
LEMMA SinkIsDone ==
    ASSUME LoggerInv, NEW t \in Threads, Sync!Skip(t) \/ Sync!Write(t)
    PROVE  /\ StackInv'
           /\ \A u \in Threads \ {t} : stack'[u] = stack[u]
           /\ Sync!Looping(t)
           /\ \A s \in Rest(t) : s \in Rest(t)' \/ (s = Sync!NextSink(t) /\ ~InDist(t))
           /\ UNCHANGED <<level, list, holder, doing, msg, calls, failed>>
<1>1. /\ Sync!More(t)
      /\ stack' = [stack EXCEPT ![t] = Sync!Advanced(t)]
      /\ UNCHANGED <<level, list, holder, doing, msg, calls, failed>>
    BY DEF Sync!Skip, Sync!Write
<1>2. /\ StackInv'
      /\ InDist(t) => Remaining(t)' = Remaining(t)
      /\ ~InDist(t) => /\ Remaining(t) \in Todo \ {<<>>}
                       /\ Remaining(t)' = Tail(Remaining(t))
                       /\ Sync!NextSink(t) = Head(Remaining(t))
      /\ \A u \in Threads \ {t} : stack'[u] = stack[u]
    BY <1>1, Advance DEF LoggerInv
<1>3. CASE InDist(t)
    BY <1>1, <1>2, <1>3 DEF Rest, Sync!More
<1>4. CASE ~InDist(t)
  <2>1. Rest(t) = Rest(t)' \union {Sync!NextSink(t)}
      BY <1>2, <1>4, TailOfTodo DEF Rest
  <2> QED BY <1>1, <1>2, <1>4, <2>1 DEF Sync!More
<1> QED BY <1>3, <1>4

(* A sink that is passed over did not want the message.                    *)
LEMMA SkipKeepsInv ==
    ASSUME LoggerInv, NEW t \in Threads, Sync!Skip(t)
    PROVE  LoggerInv'
<1>1. /\ StackInv'
      /\ \A u \in Threads \ {t} : stack'[u] = stack[u]
      /\ \A s \in Rest(t) : s \in Rest(t)' \/ s = Sync!NextSink(t)
      /\ UNCHANGED <<level, list, holder, doing, msg, calls, failed>>
    BY SinkIsDone
<1>2. /\ UNCHANGED <<out, flushed>>
      /\ doing[t] = "log" /\ ~Sync!Wants(Sync!NextSink(t), msg[t])
    BY DEF Sync!Skip, Sync!Takes
<1>3. Types' /\ NumberInv' /\ FailedInv'
    BY <1>1, <1>2 DEF LoggerInv, Types, NumberInv, FailedInv
<1>4. ASSUME NEW u \in Threads \ {t}
      PROVE  Delivered(u)' /\ Secured(u)'
  <2>1. \A s \in Sinks : flushed[s] <= flushed'[s]
      BY <1>2 DEF LoggerInv, Types
  <2> QED BY <1>1, <1>2, <1>3, <2>1, NothingGrows, Bystander DEF Types
<1>5. Delivered(t)' /\ Secured(t)'
    BY <1>1, <1>2 DEF LoggerInv, Delivered, Secured, Sync!Wants, Listed
<1> QED BY <1>1, <1>3, <1>4, <1>5 DEF LoggerInv

(* A sink that writes has the message; one that flushes has flushed it.    *)
LEMMA WriteKeepsInv ==
    ASSUME LoggerInv, NEW t \in Threads, Sync!Write(t)
    PROVE  LoggerInv'
<1> DEFINE s == Sync!NextSink(t)
<1>1. /\ StackInv'
      /\ \A u \in Threads \ {t} : stack'[u] = stack[u]
      /\ \A r \in Rest(t) : r \in Rest(t)' \/ r = s
      /\ UNCHANGED <<level, list, holder, doing, msg, calls, failed>>
      /\ Sync!Looping(t)
    BY SinkIsDone
<1>2. /\ s \in Sinks
      /\ \/ /\ doing[t] = "log"
            /\ out' = [out EXCEPT ![s] = Append(@, msg[t])] /\ flushed' = flushed
         \/ /\ doing[t] = "flush"
            /\ flushed' = [flushed EXCEPT ![s] = Len(out[s])] /\ out' = out
    BY <1>1 DEF Sync!Write, Sync!Looping
<1> HIDE DEF s
<1>3. CASE doing[t] = "log"
  <2>1. out' = [out EXCEPT ![s] = Append(@, msg[t])] /\ flushed' = flushed
      BY <1>2, <1>3
  <2>2. msg[t] \in Sync!Message
      BY <1>3 DEF LoggerInv, Types, NumberInv
  <2>3. /\ out' \in [Sinks -> Seq(Sync!Message)]
        /\ Grown(t)
        /\ \E i \in DOMAIN out'[s] : out'[s][i] = msg[t]
        /\ \A r \in Sinks : Len(out[r]) <= Len(out'[r])
      BY <1>2, <2>1, <2>2, Appended DEF LoggerInv
  <2>4. Types'
    <3>1. \A r \in Sinks : flushed'[r] <= Len(out'[r])
      <4>1. \A r \in Sinks : Len(out[r]) \in Nat /\ Len(out'[r]) \in Nat
          BY <2>3, LenProperties DEF LoggerInv, Types
      <4> QED BY <2>1, <2>3, <4>1 DEF LoggerInv, Types
    <3> QED BY <1>1, <2>1, <2>3, <3>1 DEF LoggerInv, Types
  <2>5. NumberInv'
      BY <1>1, <1>3, <2>3 DEF LoggerInv, NumberInv, Grown
  <2>6. FailedInv'
      BY <1>1 DEF LoggerInv, FailedInv
  <2>7. ASSUME NEW u \in Threads \ {t}
        PROVE  Delivered(u)' /\ Secured(u)'
    <3>1. \A r \in Sinks : flushed[r] <= flushed'[r]
        BY <2>1 DEF LoggerInv, Types
    <3> QED BY <1>1, <1>3, <2>3, <2>4, <3>1, Bystander DEF Types
  <2>8. Delivered(t)' /\ Secured(t)'
    <3>1. Secured(t)'
        BY <1>1, <1>3 DEF Secured
    <3>2. Delivered(t)'
      <4> SUFFICES ASSUME NEW r \in Listed, Sync!Wants(r, msg[t]),
                          msg[t] # Sync!NoMessage, msg[t] \notin failed
                   PROVE  r \in Rest(t)' \/ \E i \in DOMAIN out'[r] : out'[r][i] = msg[t]
          BY <1>1, <1>3 DEF Delivered, Sync!Wants
      <4>1. CASE r \in Rest(t)
          BY <1>1, <2>3, <4>1
      <4>2. CASE \E i \in DOMAIN out[r] : out[r][i] = msg[t]
          BY <2>3, <4>2 DEF Grown, Listed
      <4> QED BY <4>1, <4>2 DEF LoggerInv, Delivered
    <3> QED BY <3>1, <3>2
  <2> QED BY <1>1, <2>4, <2>5, <2>6, <2>7, <2>8 DEF LoggerInv
<1>4. CASE doing[t] = "flush"
  <2>1. flushed' = [flushed EXCEPT ![s] = Len(out[s])] /\ out' = out
      BY <1>2, <1>4
  <2>2. /\ flushed' \in [Sinks -> Nat]
        /\ flushed'[s] = Len(out[s])
        /\ \A r \in Sinks : flushed'[r] <= Len(out'[r]) /\ flushed[r] <= flushed'[r]
    <3>1. \A r \in Sinks : Len(out[r]) \in Nat
        BY LenProperties DEF LoggerInv, Types
    <3> QED BY <1>2, <2>1, <3>1 DEF LoggerInv, Types
  <2>3. Types' /\ NumberInv' /\ FailedInv'
      BY <1>1, <2>1, <2>2 DEF LoggerInv, Types, NumberInv, FailedInv
  <2>4. ASSUME NEW u \in Threads \ {t}
        PROVE  Delivered(u)' /\ Secured(u)'
      BY <1>1, <2>1, <2>2, NothingGrows, Bystander
  <2>5. Delivered(t)'
      BY <1>1, <1>4, <2>1 DEF LoggerInv, Delivered, Sync!Wants
  <2>6. Secured(t)'
    <3> SUFFICES ASSUME NEW r \in Listed, msg[t] # Sync!NoMessage, msg[t] \notin failed,
                        Sync!should_flush_on(msg[t])
                 PROVE  \/ r \in Rest(t)'
                        \/ \A i \in DOMAIN out[r] : out[r][i] = msg[t] => i <= flushed'[r]
        BY <1>1, <1>4, <2>1 DEF Secured, Sync!should_flush_on
    <3>0. r \in Sinks /\ DOMAIN out[r] = 1 .. Len(out[r]) /\ flushed[r] \in Nat
        BY LenProperties DEF Listed, LoggerInv, Types
    <3>1. CASE r = s
        BY <2>2, <3>0, <3>1
    <3>2. CASE r # s /\ r \in Rest(t)
        BY <1>1, <3>2
    <3>3. CASE \A i \in DOMAIN out[r] : out[r][i] = msg[t] => i <= flushed[r]
        BY <2>2, <3>0, <3>3
    <3> QED BY <1>4, <3>1, <3>2, <3>3 DEF LoggerInv, Secured
  <2> QED BY <1>1, <2>3, <2>4, <2>5, <2>6 DEF LoggerInv
<1> QED BY <1>2, <1>3, <1>4

(* The distribution sink takes the message and hands it on from now on; it *)
(* is none of the sinks that write.                                        *)
LEMMA EnterKeepsInv ==
    ASSUME LoggerInv, Sync!LoggerAssumption, NEW t \in Threads, Sync!EnterDist(t)
    PROVE  LoggerInv'
<1>1. /\ StackInv'
      /\ Remaining(t) \in Todo \ {<<>>}
      /\ Remaining(t)' = Tail(Remaining(t))
      /\ Head(Remaining(t)) = DistSink
      /\ \A u \in Threads \ {t} : stack'[u] = stack[u]
    BY Enter DEF LoggerInv, Types
<1>2. /\ UNCHANGED <<level, list, doing, msg, calls, out, flushed, failed>>
      /\ holder' = <<t>>
    BY DEF Sync!EnterDist
<1>3. Types' /\ NumberInv' /\ FailedInv'
    BY <1>2 DEF LoggerInv, Types, NumberInv, FailedInv
<1>4. \A s \in Listed : s \in Rest(t) => s \in Rest(t)'
  <2>1. Rest(t) = Rest(t)' \union {DistSink}
      BY <1>1, TailOfTodo DEF Rest
  <2> QED BY <2>1 DEF Listed, Sync!LoggerAssumption
<1>5. ASSUME NEW u \in Threads \ {t}
      PROVE  Delivered(u)' /\ Secured(u)'
  <2>1. \A s \in Sinks : flushed[s] <= flushed'[s]
      BY <1>2 DEF LoggerInv, Types
  <2> QED BY <1>1, <1>2, <1>3, <2>1, NothingGrows, Bystander DEF Types
<1>6. Delivered(t)' /\ Secured(t)'
    BY <1>2, <1>4 DEF LoggerInv, Delivered, Secured, Sync!Wants, Sync!should_flush_on
<1> QED BY <1>1, <1>3, <1>5, <1>6 DEF LoggerInv

(* A loop is over.  The last sink of the logger has had the message, and   *)
(* where it asks for a flush all of them are still to be flushed.          *)
LEMMA LeaveKeepsInv ==
    ASSUME LoggerInv, Sync!LoggerAssumption, NEW t \in Threads, Sync!Leave(t)
    PROVE  LoggerInv'
<1>1. /\ StackInv'
      /\ \A u \in Threads \ {t} : stack'[u] = stack[u] /\ doing'[u] = doing[u]
      /\ \/ /\ InDist(t)
            /\ Remaining(t)' = Remaining(t) /\ doing' = doing /\ holder' = <<>>
         \/ /\ Remaining(t) = <<>> /\ holder' = holder
            /\ \/ /\ doing[t] = "log" /\ Sync!should_flush_on(msg[t])
                  /\ Remaining(t)' = LoggerSinks /\ doing'[t] = "flush"
               \/ /\ doing[t] = "log" => ~Sync!should_flush_on(msg[t])
                  /\ doing'[t] = "idle"
    BY LoopEnds DEF LoggerInv, Types
<1>2. /\ UNCHANGED <<level, list, msg, calls, out, flushed, failed>>
      /\ Sync!Looping(t)
      /\ \/ doing' = doing \/ \E d \in {"flush", "idle"} : doing' = [doing EXCEPT ![t] = d]
    BY DEF Sync!Leave
<1>3. Types'
  <2>1. doing' \in [Threads -> States]
      BY <1>2 DEF LoggerInv, Types, States
  <2>2. holder' \in {<<>>} \union {<<u>> : u \in Threads}
      BY <1>1 DEF LoggerInv, Types
  <2> QED BY <1>2, <2>1, <2>2 DEF LoggerInv, Types
<1>4. NumberInv' /\ FailedInv'
    BY <1>1, <1>2 DEF LoggerInv, NumberInv, FailedInv
<1>5. ASSUME NEW u \in Threads \ {t}
      PROVE  Delivered(u)' /\ Secured(u)'
  <2>1. \A s \in Sinks : flushed[s] <= flushed'[s]
      BY <1>2 DEF LoggerInv, Types
  <2> QED BY <1>1, <1>2, <1>3, <2>1, NothingGrows, Bystander DEF Types
<1>6. Delivered(t)' /\ Secured(t)'
  <2>1. CASE Remaining(t)' = Remaining(t) /\ doing' = doing
      BY <1>2, <2>1 DEF LoggerInv, Delivered, Secured, Rest, Sync!Wants, Sync!should_flush_on
  <2>2. CASE Remaining(t) = <<>>
    <3>1. Rest(t) = {}
        BY <2>2 DEF Rest, Sync!ToSet
    <3>2. Delivered(t)'
        BY <1>2, <3>1 DEF LoggerInv, Delivered, Sync!Wants
    <3>3. CASE doing'[t] = "flush" /\ Remaining(t)' = LoggerSinks
      <4>1. Rest(t)' = Sync!ToSet(LoggerSinks)
          BY <3>3 DEF Rest
      <4> QED BY <3>2, <3>3, <4>1 DEF Secured, Listed
    <3>4. CASE doing[t] = "log" => ~Sync!should_flush_on(msg[t])
        BY <1>2, <3>1, <3>2, <3>4 DEF LoggerInv, Secured, Sync!Looping, Sync!should_flush_on
    <3> QED BY <1>1, <3>1, <3>2, <3>3, <3>4, <2>1
  <2> QED BY <1>1, <2>1, <2>2
<1> QED BY <1>1, <1>3, <1>4, <1>5, <1>6 DEF LoggerInv

(* A message whose call throws is among those that failed.                 *)
LEMMA ThrowKeepsInv ==
    ASSUME LoggerInv, NEW t \in Threads, Sync!Throw(t)
    PROVE  LoggerInv'
<1>1. /\ StackInv'
      /\ doing'[t] = "error"
      /\ \A u \in Threads \ {t} : stack'[u] = stack[u] /\ doing'[u] = doing[u]
    BY LoopsThrown DEF LoggerInv, Types
<1>2. /\ UNCHANGED <<level, list, msg, calls, out, flushed>>
      /\ failed' = failed \union {msg[t]}
      /\ doing' = [doing EXCEPT ![t] = "error"]
      /\ holder' = holder \/ holder' = <<>>
    BY DEF Sync!Throw, Sync!Released
<1>3. Types'
    BY <1>2 DEF LoggerInv, Types, States
<1>4. NumberInv' /\ FailedInv'
    BY <1>1, <1>2 DEF LoggerInv, NumberInv, FailedInv
<1>5. ASSUME NEW u \in Threads \ {t}
      PROVE  Delivered(u)' /\ Secured(u)'
  <2>1. \A s \in Sinks : flushed[s] <= flushed'[s]
      BY <1>2 DEF LoggerInv, Types
  <2> QED BY <1>1, <1>2, <1>3, <2>1, NothingGrows, Bystander DEF Types
<1>6. Delivered(t)' /\ Secured(t)'
    BY <1>2 DEF Delivered, Secured
<1> QED BY <1>1, <1>3, <1>4, <1>5, <1>6 DEF LoggerInv

(* The error handler changes no message.                                   *)
LEMMA ErrorKeepsInv ==
    ASSUME LoggerInv, NEW t \in Threads, Sync!CheckErrorTime(t) \/ Sync!ReportError(t)
    PROVE  LoggerInv'
<1>1. /\ UNCHANGED <<level, list, holder, stack, msg, calls, out, flushed, failed>>
      /\ doing[t] \in {"error", "report"}
      /\ \E d \in {"idle", "report"} : doing' = [doing EXCEPT ![t] = d]
    BY DEF Sync!CheckErrorTime, Sync!ReportError
<1>2. /\ doing'[t] \in {"idle", "report"} /\ doing' \in [Threads -> States]
      /\ \A u \in Threads \ {t} : doing'[u] = doing[u]
    BY <1>1 DEF LoggerInv, Types, States
<1>3. msg[t] \in failed
    BY <1>1 DEF LoggerInv, FailedInv
<1>4. Types' /\ NumberInv' /\ FailedInv'
    BY <1>1, <1>2, <1>3 DEF LoggerInv, Types, NumberInv, FailedInv
<1>5. StackInv'
    BY <1>1, <1>2 DEF LoggerInv, StackInv, InDist, Sync!Looping
<1>6. \A u \in Threads : Delivered(u)' /\ Secured(u)'
    BY <1>1, <1>2, <1>3 DEF LoggerInv, Delivered, Secured, Listed, Rest, Remaining,
                            Sync!Wants, Sync!should_flush_on
<1> QED BY <1>4, <1>5, <1>6 DEF LoggerInv

(* At first nothing is logged.                                             *)
LEMMA LoggerInitInv ==
    ASSUME Sync!LoggerAssumption, Sync!Init
    PROVE  LoggerInv
<1>1. Types
    BY DEF Types, States, Sync!Init, Sync!LoggerAssumption
<1>2. StackInv
    BY DEF StackInv, InDist, Sync!Looping, Sync!Init
<1>3. NumberInv /\ FailedInv /\ \A t \in Threads : Delivered(t) /\ Secured(t)
    BY DEF NumberInv, FailedInv, Delivered, Secured, Sync!Init
<1> QED BY <1>1, <1>2, <1>3 DEF LoggerInv

(* Every step of the logger keeps the invariant.                           *)
LEMMA LoggerNextInv ==
    ASSUME LoggerInv, Sync!LoggerAssumption, [Sync!Next]_(Sync!vars)
    PROVE  LoggerInv'
<1>1. CASE UNCHANGED Sync!vars \/ Sync!TimePasses
    BY <1>1, AsideKeepsInv
<1>2. ASSUME NEW t \in Threads, Sync!SetLevel(t) \/ Sync!ChangeList(t)
      PROVE  LoggerInv'
    BY <1>2, AsideKeepsInv
<1>3. ASSUME NEW t \in Threads, Sync!Log(t) \/ Sync!Flush(t)
      PROVE  LoggerInv'
    BY <1>3, CallKeepsInv
<1>4. ASSUME NEW t \in Threads, Sync!Step(t)
      PROVE  LoggerInv'
    BY <1>4, SkipKeepsInv, WriteKeepsInv, EnterKeepsInv, LeaveKeepsInv, ThrowKeepsInv,
       ErrorKeepsInv DEF Sync!Step
<1> QED BY <1>1, <1>2, <1>3, <1>4 DEF Sync!Next

(* The clock, and what the error handlers have seen of it.                 *)
LEMMA TimeInitInv ==
    ASSUME Sync!LoggerAssumption, Sync!Init
    PROVE  TimeInv
BY DEF TimeInv, Sync!Init, Sync!LoggerAssumption

(* A time that was stored or reported was read from the clock.             *)
LEMMA TimeNextInv ==
    ASSUME TimeInv, Sync!LoggerAssumption, [Sync!Next]_(Sync!vars)
    PROVE  TimeInv'
<1>1. CASE UNCHANGED <<now, Sync!errVars>>
    BY <1>1 DEF TimeInv, Sync!errVars
<1>2. CASE Sync!TimePasses
  <2>1. /\ now' = now + 1 /\ now' \in 0 .. MaxTime
        /\ UNCHANGED <<lastErr, seenTime, reports>>
        /\ \A n \in 0 .. now : n \in 0 .. now'
      BY <1>2 DEF TimeInv, Sync!TimePasses, Sync!errVars, Sync!LoggerAssumption
  <2>2. reports' \in Seq(0 .. now')
      BY <2>1 DEF TimeInv
  <2> QED BY <2>1, <2>2 DEF TimeInv
<1>3. ASSUME NEW t \in Threads, Sync!CheckErrorTime(t)
      PROVE  TimeInv'
    BY <1>3 DEF TimeInv, Sync!CheckErrorTime
<1>4. ASSUME NEW t \in Threads, Sync!ReportError(t)
      PROVE  TimeInv'
  <2>1. seenTime[t] \in 0 .. now /\ 0 \in 0 .. now /\ now' = now
      BY <1>4 DEF TimeInv, Sync!ReportError
  <2>2. reports' = Append(reports, seenTime[t])
      BY <1>4 DEF Sync!ReportError
  <2>3. reports' \in Seq(0 .. now)
      BY <2>1, <2>2, AppendProperties DEF TimeInv
  <2> QED BY <1>4, <2>1, <2>3 DEF TimeInv, Sync!ReportError
<1>5. ASSUME NEW t \in Threads,
             \/ Sync!Log(t) \/ Sync!Flush(t) \/ Sync!SetLevel(t) \/ Sync!ChangeList(t)
             \/ Sync!Skip(t) \/ Sync!Write(t) \/ Sync!EnterDist(t) \/ Sync!Leave(t)
             \/ Sync!Throw(t)
      PROVE  UNCHANGED <<now, Sync!errVars>>
    BY <1>5 DEF Sync!Log, Sync!Flush, Sync!SetLevel, Sync!ChangeList, Sync!Skip, Sync!Write,
                Sync!EnterDist, Sync!Leave, Sync!Throw, Sync!errVars
<1> QED BY <1>1, <1>2, <1>3, <1>4, <1>5 DEF Sync!Next, Sync!Step, Sync!vars

(* Where every thread is in its loops, and what is still to come there,    *)
(* holds of every state of the logger, and no handler has seen a time that *)
(* is yet to come.                                                         *)
THEOREM LoggerInvariantHolds ==
    ASSUME Sync!LoggerAssumption
    PROVE  Sync!Spec => [](LoggerInv /\ TimeInv)
<1>1. Sync!Init => LoggerInv /\ TimeInv
    BY LoggerInitInv, TimeInitInv
<1>2. LoggerInv /\ TimeInv /\ [Sync!Next]_(Sync!vars) => (LoggerInv /\ TimeInv)'
    BY LoggerNextInv, TimeNextInv
<1> QED BY <1>1, <1>2, PTL DEF Sync!Spec

-----------------------------------------------------------------------------
(* What follows.                                                           *)

(* A call that is over and threw nothing has brought its message to every  *)
(* sink of the logger that wants it.                                       *)
THEOREM MessagesReachTheirSinks ==
    ASSUME Sync!LoggerAssumption
    PROVE  Sync!Spec => []Sync!LoggedEverywhere
<1>1. LoggerInv => Sync!LoggedEverywhere
    BY DEF LoggerInv, Delivered, Listed, Sync!LoggedEverywhere
<1> QED BY <1>1, LoggerInvariantHolds, PTL

(* And if it asks for a flush it is flushed there.                         *)
THEOREM GraveMessagesAreSecured ==
    ASSUME Sync!LoggerAssumption
    PROVE  Sync!Spec => []Sync!GraveMessagesAreFlushed
<1>1. LoggerInv => Sync!GraveMessagesAreFlushed
  <2> SUFFICES ASSUME LoggerInv, NEW t \in Threads, doing[t] = "idle",
                      msg[t].level \in FlushLevel .. Sync!Off - 1, msg[t] \notin failed,
                      NEW s \in Sinks, NEW i \in DOMAIN out[s],
                      out[s][i] = msg[t], s \in Sync!ToSet(LoggerSinks)
               PROVE  flushed[s] >= i
      BY DEF Sync!GraveMessagesAreFlushed
  <2>1. out[s][i] \in Sync!Message /\ s \in Listed
      BY WrittenByThreads DEF LoggerInv, Listed
  <2>2. msg[t] # Sync!NoMessage
    <3>1. out[s][i].number \in 1 .. calls[out[s][i].thread]
        BY DEF LoggerInv, NumberInv
    <3> QED BY <3>1 DEF Sync!NoMessage
  <2>3. Sync!should_flush_on(msg[t])
      BY DEF Sync!should_flush_on, Sync!Off
  <2>4. i <= flushed[s]
      BY <2>1, <2>2, <2>3 DEF LoggerInv, Secured
  <2>5. i \in Nat /\ flushed[s] \in Nat
    <3>1. DOMAIN out[s] = 1 .. Len(out[s])
        BY LenProperties DEF LoggerInv, Types
    <3> QED BY <3>1 DEF LoggerInv, Types
  <2> QED BY <2>4, <2>5
<1> QED BY <1>1, LoggerInvariantHolds, PTL

(* Types, the mutex and the loops as the model states them.                *)
THEOREM LoggerTypes ==
    ASSUME Sync!LoggerAssumption
    PROVE  Sync!Spec => []Sync!TypeOK
<1>1. ASSUME LoggerInv, TimeInv
      PROVE  Sync!TypeOK
  <2>1. ASSUME NEW t \in Threads
        PROVE  (holder = <<t>>) <=> \E i \in DOMAIN stack[t] : stack[t][i].of = DistSink
    <3>1. CASE Sync!Looping(t)
      <4>1. InDist(t) <=> holder = <<t>>
          BY <1>1 DEF LoggerInv, StackInv
      <4>2. CASE stack[t] = <<Sync!Loop(LoggerName, Remaining(t))>> /\ ~InDist(t)
        <5>1. \A i \in DOMAIN stack[t] : stack[t][i].of = LoggerName
            BY <4>2 DEF Sync!Loop
        <5> QED BY <4>1, <4>2, <5>1 DEF Sync!LoggerAssumption
      <4>3. CASE InDist(t) /\ stack[t][1].of = DistSink
        <5>1. 1 \in DOMAIN stack[t]
          <6>1. \E r \in Seq(Sinks) :
                   stack[t] = <<Sync!Loop(DistSink, r), Sync!Loop(LoggerName, Remaining(t))>>
              BY <1>1, <3>1, <4>3, Shapes DEF LoggerInv
          <6> QED BY <6>1
        <5> QED BY <4>1, <4>3, <5>1
      <4> QED BY <1>1, <3>1, <4>2, <4>3, Shapes DEF LoggerInv
    <3>2. CASE ~Sync!Looping(t)
      <4>1. stack[t] = <<>>
          BY <1>1, <3>2 DEF LoggerInv, StackInv
      <4>2. ~InDist(t) /\ DOMAIN stack[t] = {}
          BY <4>1 DEF InDist
      <4> QED BY <1>1, <4>2 DEF LoggerInv, StackInv
    <3> QED BY <3>1, <3>2
  <2>2. \A t \in Threads : calls[t] \in 0 .. MaxCalls[t]
      BY <1>1 DEF LoggerInv, Types, Sync!LoggerAssumption
  <2>3. \A s \in Sinks : flushed[s] \in 0 .. Len(out[s])
    <3>1. \A s \in Sinks : Len(out[s]) \in Nat
        BY <1>1, LenProperties DEF LoggerInv, Types
    <3> QED BY <1>1, <3>1 DEF LoggerInv, Types
  <2>4. \A i \in DOMAIN reports : reports[i] <= now
    <3>1. \A i \in DOMAIN reports : reports[i] \in 0 .. now
        BY <1>1, LenProperties DEF TimeInv
    <3> QED BY <1>1, <3>1 DEF TimeInv
  <2> QED BY <1>1, <2>1, <2>2, <2>3, <2>4
          DEF Sync!TypeOK, LoggerInv, Types, States, StackInv, TimeInv
<1> QED BY <1>1, LoggerInvariantHolds, PTL

-----------------------------------------------------------------------------
(* The order behind the distribution sink.  It is handed a message once,   *)
(* if the logger lists it once.                                            *)
OnceIn(s) == \A i, j \in DOMAIN s : s[i] = DistSink /\ s[j] = DistSink => i = j

OnceInv ==
    \A t \in Threads : Sync!Looping(t) =>
        OnceIn(Remaining(t)) /\ (InDist(t) => DistSink \notin Rest(t))

(* A message that a sink behind it has is handed to it no more, and while  *)
(* its thread holds the mutex nothing else comes after it.                 *)
OrderInv ==
    \A t \in Threads : doing[t] = "log" =>
        \A s \in Behind : \A i \in DOMAIN out[s] : out[s][i] = msg[t] =>
            /\ DistSink \notin Rest(t)
            /\ holder = <<t>> => \A j \in DOMAIN out[s] : i < j => out[s][j] = msg[t]

(* A list with the distribution sink once has it no more behind it.        *)
LEMMA TailOnce ==
    ASSUME NEW s \in Todo, s # <<>>, OnceIn(s)
    PROVE  /\ OnceIn(Tail(s))
           /\ Head(s) = DistSink => DistSink \notin Sync!ToSet(Tail(s))
<1>1. s \in Seq(Sinks \union {DistSink}) /\ Len(s) \in Nat \ {0}
    BY EmptySeq, LenProperties DEF Todo
<1>2. /\ Tail(s) \in Seq(Sinks \union {DistSink}) /\ Len(Tail(s)) = Len(s) - 1
      /\ \A i \in 1 .. Len(Tail(s)) : Tail(s)[i] = s[i + 1]
      /\ Head(s) = s[1]
    BY <1>1, HeadTailProperties
<1>3. DOMAIN s = 1 .. Len(s) /\ DOMAIN Tail(s) = 1 .. Len(Tail(s))
    BY <1>1, <1>2, LenProperties
<1>4. \A i \in DOMAIN Tail(s) : i \in Nat \ {0} /\ i + 1 \in DOMAIN s /\ Tail(s)[i] = s[i + 1]
    BY <1>1, <1>2, <1>3
<1>5. OnceIn(Tail(s))
  <2> SUFFICES ASSUME NEW i \in DOMAIN Tail(s), NEW j \in DOMAIN Tail(s),
                      Tail(s)[i] = DistSink, Tail(s)[j] = DistSink
               PROVE  i = j
      BY DEF OnceIn
  <2>1. i + 1 = j + 1
      BY <1>4 DEF OnceIn
  <2> QED BY <1>4, <2>1
<1>6. ASSUME Head(s) = DistSink, NEW i \in DOMAIN Tail(s), Tail(s)[i] = DistSink
      PROVE  FALSE
  <2>1. 1 = i + 1
    <3>1. 1 \in DOMAIN s
        BY <1>1, <1>3
    <3> QED BY <1>2, <1>4, <1>6, <3>1 DEF OnceIn
  <2> QED BY <1>4, <2>1
<1> QED BY <1>5, <1>6 DEF Sync!ToSet

(* Where a call begins.                                                    *)
LEMMA CallBegins ==
    ASSUME LoggerInv, NEW t \in Threads, Sync!Log(t) \/ Sync!Flush(t)
    PROVE  /\ \/ Remaining(t)' = LoggerSinks /\ ~InDist(t)'
              \/ ~Sync!Looping(t)'
           /\ \A u \in Threads \ {t} :
                 stack'[u] = stack[u] /\ doing'[u] = doing[u] /\ msg'[u] = msg[u]
           /\ holder' = holder /\ out' = out
           /\ doing'[t] = "log" => msg'[t].thread = t /\ msg'[t].number = calls[t] + 1
<1>1. \/ /\ stack' = [stack EXCEPT ![t] = <<Sync!Loop(LoggerName, LoggerSinks)>>]
         /\ \E d \in {"log", "flush"} : doing' = [doing EXCEPT ![t] = d]
      \/ stack' = stack /\ doing' = [doing EXCEPT ![t] = "error"]
    BY DEF Sync!Log, Sync!Flush
<1>2. \A u \in Threads \ {t} : stack'[u] = stack[u] /\ doing'[u] = doing[u]
    BY <1>1 DEF LoggerInv, StackInv, Types
<1>3. \/ Remaining(t)' = LoggerSinks /\ ~InDist(t)'
      \/ ~Sync!Looping(t)'
  <2>1. CASE stack' = [stack EXCEPT ![t] = <<Sync!Loop(LoggerName, LoggerSinks)>>]
    <3>1. stack'[t] = <<Sync!Loop(LoggerName, LoggerSinks)>>
        BY <2>1 DEF LoggerInv, StackInv
    <3>2. Len(stack'[t]) = 1 /\ stack'[t][1].todo = LoggerSinks
        BY <3>1, LoopsOf
    <3> QED BY <3>2 DEF Remaining, InDist
  <2>2. CASE doing' = [doing EXCEPT ![t] = "error"]
      BY <2>2 DEF LoggerInv, Types, Sync!Looping
  <2> QED BY <1>1, <2>1, <2>2
<1>4. CASE Sync!Log(t)
  <2>1. PICK l \in Levels :
          msg' = [msg EXCEPT ![t] = [thread |-> t, number |-> calls[t] + 1, level |-> l]]
      BY <1>4 DEF Sync!Log
  <2>2. msg'[t] = [thread |-> t, number |-> calls[t] + 1, level |-> l]
      BY <2>1 DEF LoggerInv, Types
  <2>3. \A u \in Threads \ {t} : msg'[u] = msg[u]
      BY <2>1 DEF LoggerInv, Types
  <2> QED BY <1>2, <1>3, <1>4, <2>2, <2>3 DEF Sync!Log
<1>5. CASE Sync!Flush(t)
    BY <1>2, <1>3, <1>5 DEF Sync!Flush, LoggerInv, Types
<1> QED BY <1>4, <1>5

(* No thread comes to the distribution sink a second time.                 *)
LEMMA OnceNextInv ==
    ASSUME LoggerInv, Sync!LoggerAssumption, OnceIn(LoggerSinks), OnceInv,
           [Sync!Next]_(Sync!vars)
    PROVE  OnceInv'
<1>1. ASSUME NEW t \in Threads,
             \A u \in Threads \ {t} : stack'[u] = stack[u] /\ doing'[u] = doing[u],
             Sync!Looping(t)' =>
                 OnceIn(Remaining(t))' /\ (InDist(t)' => DistSink \notin Rest(t)')
      PROVE  OnceInv'
    BY <1>1 DEF OnceInv, OnceIn, InDist, Rest, Remaining, Sync!Looping
<1>2. ASSUME UNCHANGED <<stack, doing>>
      PROVE  OnceInv'
    BY <1>2 DEF OnceInv, OnceIn, InDist, Rest, Remaining, Sync!Looping
<1>3. \A q : q' = LoggerSinks => OnceIn(LoggerSinks)
    OBVIOUS
<1>4. ASSUME NEW t \in Threads, Sync!Log(t) \/ Sync!Flush(t)
      PROVE  OnceInv'
  <2>1. Sync!Looping(t)' => Remaining(t)' = LoggerSinks /\ ~InDist(t)'
      BY <1>4, CallBegins
  <2> QED BY <1>1, <1>4, <2>1, CallBegins DEF OnceIn
<1>5. ASSUME NEW t \in Threads, Sync!Skip(t) \/ Sync!Write(t)
      PROVE  OnceInv'
  <2>1. /\ Sync!More(t)
        /\ stack' = [stack EXCEPT ![t] = Sync!Advanced(t)]
        /\ UNCHANGED <<doing, holder>>
      BY <1>5 DEF Sync!Skip, Sync!Write
  <2>2. /\ StackInv'
        /\ InDist(t) => Remaining(t)' = Remaining(t)
        /\ ~InDist(t) => Remaining(t) \in Todo \ {<<>>} /\ Remaining(t)' = Tail(Remaining(t))
        /\ \A u \in Threads \ {t} : stack'[u] = stack[u]
      BY <2>1, Advance DEF LoggerInv
  <2>3. InDist(t)' <=> InDist(t)
      BY <2>1, <2>2 DEF LoggerInv, StackInv
  <2>4. OnceIn(Remaining(t)) /\ (InDist(t) => DistSink \notin Rest(t))
      BY <2>1 DEF OnceInv, Sync!More
  <2>5. OnceIn(Remaining(t))'
      BY <2>2, <2>4, TailOnce DEF OnceIn
  <2>6. InDist(t)' => DistSink \notin Rest(t)'
      BY <2>2, <2>3, <2>4 DEF Rest
  <2> QED BY <1>1, <2>1, <2>2, <2>5, <2>6
<1>6. ASSUME NEW t \in Threads, Sync!EnterDist(t)
      PROVE  OnceInv'
  <2>1. /\ Remaining(t) \in Todo \ {<<>>}
        /\ Remaining(t)' = Tail(Remaining(t))
        /\ Head(Remaining(t)) = DistSink
        /\ \A u \in Threads \ {t} : stack'[u] = stack[u]
      BY <1>6, Enter DEF LoggerInv, Types
  <2>2. Sync!Looping(t) /\ doing' = doing
      BY <1>6 DEF Sync!EnterDist, Sync!More
  <2>3. OnceIn(Remaining(t)')
      BY <2>1, <2>2, TailOnce DEF OnceInv
  <2>4. DistSink \notin Rest(t)'
      BY <2>1, <2>2, TailOnce DEF OnceInv, Rest
  <2> QED BY <1>1, <2>1, <2>2, <2>3, <2>4 DEF OnceIn
<1>7. ASSUME NEW t \in Threads, Sync!Leave(t)
      PROVE  OnceInv'
  <2>1. /\ StackInv'
        /\ \A u \in Threads \ {t} : stack'[u] = stack[u] /\ doing'[u] = doing[u]
        /\ \/ /\ InDist(t)
              /\ Remaining(t)' = Remaining(t) /\ doing' = doing /\ holder' = <<>>
           \/ /\ Remaining(t) = <<>> /\ holder' = holder
              /\ \/ /\ doing[t] = "log" /\ Sync!should_flush_on(msg[t])
                    /\ Remaining(t)' = LoggerSinks /\ doing'[t] = "flush"
                 \/ /\ doing[t] = "log" => ~Sync!should_flush_on(msg[t])
                    /\ doing'[t] = "idle"
      BY <1>7, LoopEnds DEF LoggerInv, Types
  <2>2. Sync!Looping(t)
      BY <1>7 DEF Sync!Leave
  <2>3. CASE InDist(t) /\ Remaining(t)' = Remaining(t)
    <3>1. OnceIn(Remaining(t)') /\ DistSink \notin Rest(t)'
        BY <2>2, <2>3 DEF OnceInv, Rest
    <3> QED BY <1>1, <2>1, <3>1 DEF OnceIn
  <2>4. CASE /\ holder' = holder /\ Remaining(t)' = LoggerSinks
             /\ doing[t] = "log" /\ doing'[t] = "flush"
    <3>1. CASE ~InDist(t)
      <4>1. ~InDist(t)'
          BY <2>1, <2>4, <3>1 DEF LoggerInv, StackInv
      <4> QED BY <1>1, <2>1, <2>4, <4>1 DEF OnceIn
    <3>2. CASE InDist(t)
      <4>1. stack[t][1].of = DistSink
          BY <2>2, <3>2, Shapes DEF LoggerInv
      <4>2. doing' = doing
          BY <1>7, <4>1 DEF Sync!Leave
      <4> QED BY <2>4, <4>2
    <3> QED BY <3>1, <3>2
  <2>5. CASE doing'[t] = "idle"
      BY <1>1, <2>1, <2>5 DEF Sync!Looping
  <2> QED BY <2>1, <2>3, <2>4, <2>5
<1>8. ASSUME NEW t \in Threads, Sync!Throw(t)
      PROVE  OnceInv'
  <2>1. /\ doing'[t] = "error"
        /\ \A u \in Threads \ {t} : stack'[u] = stack[u] /\ doing'[u] = doing[u]
      BY <1>8, LoopsThrown DEF LoggerInv, Types
  <2> QED BY <1>1, <2>1 DEF Sync!Looping
<1>9. ASSUME NEW t \in Threads, Sync!CheckErrorTime(t) \/ Sync!ReportError(t)
      PROVE  OnceInv'
  <2>1. /\ stack' = stack
        /\ \E d \in {"idle", "report"} : doing' = [doing EXCEPT ![t] = d]
      BY <1>9 DEF Sync!CheckErrorTime, Sync!ReportError
  <2>2. /\ doing'[t] \in {"idle", "report"}
        /\ \A u \in Threads \ {t} : stack'[u] = stack[u] /\ doing'[u] = doing[u]
      BY <2>1 DEF LoggerInv, Types
  <2> QED BY <1>1, <2>2 DEF Sync!Looping
<1>10. ASSUME \/ UNCHANGED Sync!vars \/ Sync!TimePasses
              \/ \E t \in Threads : Sync!SetLevel(t) \/ Sync!ChangeList(t)
       PROVE  OnceInv'
    BY <1>2, <1>10 DEF Sync!vars, Sync!logVars, Sync!TimePasses, Sync!SetLevel, Sync!ChangeList
<1> QED BY <1>4, <1>5, <1>6, <1>7, <1>8, <1>9, <1>10 DEF Sync!Next, Sync!Step

(* Nothing is written.                                                     *)
LEMMA OrderAside ==
    ASSUME OrderInv, Sync!DistSinkKeepsOrder, out' = out, NEW t \in Threads,
           \A u \in Threads \ {t} :
               /\ stack'[u] = stack[u] /\ doing'[u] = doing[u] /\ msg'[u] = msg[u]
               /\ holder' = <<u>> => holder = <<u>>,
           doing'[t] = "log" =>
               \/ /\ doing[t] = "log" /\ msg'[t] = msg[t]
                  /\ Rest(t)' \subseteq Rest(t)
                  /\ holder' = <<t>> => holder = <<t>> \/ DistSink \in Rest(t)
               \/ \A s \in Sinks : \A i \in DOMAIN out[s] : out[s][i] # msg'[t]
    PROVE  OrderInv' /\ Sync!DistSinkKeepsOrder'
<1>1. Sync!DistSinkKeepsOrder'
    BY DEF Sync!DistSinkKeepsOrder, Sync!Precedes
<1>2. ASSUME NEW u \in Threads \ {t}, doing'[u] = "log",
             NEW s \in Behind, NEW i \in DOMAIN out[s], out[s][i] = msg'[u]
      PROVE  /\ DistSink \notin Rest(u)'
             /\ holder' = <<u>> => \A j \in DOMAIN out[s] : i < j => out[s][j] = msg'[u]
  <2>1. Rest(u)' = Rest(u)
      BY DEF Rest, Remaining
  <2> QED BY <1>2, <2>1 DEF OrderInv
<1>3. ASSUME doing'[t] = "log",
             NEW s \in Behind, NEW i \in DOMAIN out[s], out[s][i] = msg'[t]
      PROVE  /\ DistSink \notin Rest(t)'
             /\ holder' = <<t>> => \A j \in DOMAIN out[s] : i < j => out[s][j] = msg'[t]
    BY <1>3 DEF OrderInv, Behind
<1>4. OrderInv'
    BY <1>2, <1>3 DEF OrderInv, Behind
<1> QED BY <1>1, <1>4

(* A sink behind the distribution sink is written to within its loop.      *)
LEMMA WrittenBehind ==
    ASSUME LoggerInv, OnceInv, NEW t \in Threads, Sync!Write(t), Sync!NextSink(t) \in Behind
    PROVE  holder = <<t>> /\ DistSink \notin Rest(t)
<1>1. /\ Sync!More(t) /\ Sync!Looping(t)
      /\ stack' = [stack EXCEPT ![t] = Sync!Advanced(t)]
      /\ UNCHANGED <<doing, holder>>
    BY DEF Sync!Write, Sync!More
<1>2. ~InDist(t) => /\ Remaining(t) \in Todo \ {<<>>}
                    /\ Sync!NextSink(t) = Head(Remaining(t))
    BY <1>1, Advance DEF LoggerInv
<1>3. InDist(t)
    BY <1>2, TailOfTodo DEF Behind
<1> QED BY <1>1, <1>3 DEF LoggerInv, StackInv, OnceInv

(* A message is written behind the distribution sink or elsewhere.         *)
LEMMA OrderWritten ==
    ASSUME LoggerInv, OnceInv, OrderInv, Sync!DistSinkKeepsOrder,
           NEW t \in Threads, Sync!Write(t), doing[t] = "log"
    PROVE  OrderInv' /\ Sync!DistSinkKeepsOrder'
<1> DEFINE s == Sync!NextSink(t)
           m == msg[t]
<1>1. /\ \A u \in Threads \ {t} : stack'[u] = stack[u]
      /\ \A r \in Rest(t)' : r \in Rest(t)
      /\ UNCHANGED <<holder, doing, msg>>
      /\ s \in Sinks
      /\ out' = [out EXCEPT ![s] = Append(@, m)]
  <2>1. /\ Sync!More(t)
        /\ stack' = [stack EXCEPT ![t] = Sync!Advanced(t)]
        /\ UNCHANGED <<holder, doing, msg>>
        /\ s \in Sinks
        /\ out' = [out EXCEPT ![s] = Append(@, m)]
      BY DEF Sync!Write
  <2>2. /\ \A u \in Threads \ {t} : stack'[u] = stack[u]
        /\ InDist(t) => Remaining(t)' = Remaining(t)
        /\ ~InDist(t) => Remaining(t) \in Todo \ {<<>>} /\ Remaining(t)' = Tail(Remaining(t))
      BY <2>1, Advance DEF LoggerInv
  <2>3. \A r \in Rest(t)' : r \in Rest(t)
      BY <2>2, TailOfTodo DEF Rest
  <2> QED BY <2>1, <2>2, <2>3
<1>2. m \in Sync!Message /\ m.thread = t
    BY DEF LoggerInv, NumberInv, Types
<1>3. s \in Behind => holder = <<t>> /\ DistSink \notin Rest(t)
    BY WrittenBehind
<1> HIDE DEF s, m
<1>4. out[s] \in Seq(Sync!Message) /\ Len(out[s]) \in Nat
    BY <1>1, LenProperties DEF LoggerInv, Types
<1>5. /\ \A r \in Sinks \ {s} : out'[r] = out[r]
      /\ DOMAIN out'[s] = 1 .. Len(out[s]) + 1 /\ DOMAIN out[s] = 1 .. Len(out[s])
      /\ \A i \in DOMAIN out[s] : out'[s][i] = out[s][i]
      /\ out'[s][Len(out[s]) + 1] = m
  <2>1. out'[s] = Append(out[s], m) /\ \A r \in Sinks \ {s} : out'[r] = out[r]
      BY <1>1 DEF LoggerInv, Types
  <2>2. /\ out'[s] \in Seq(Sync!Message) /\ Len(out'[s]) = Len(out[s]) + 1
        /\ \A i \in 1 .. Len(out[s]) : out'[s][i] = out[s][i]
        /\ out'[s][Len(out[s]) + 1] = m
      BY <1>2, <1>4, <2>1, AppendProperties
  <2> QED BY <1>4, <2>1, <2>2, LenProperties
<1>6. \A r \in Sinks : \A i \in DOMAIN out'[r] :
         \/ i \in DOMAIN out[r] /\ out'[r][i] = out[r][i]
         \/ /\ r = s /\ out'[r][i] = m
            /\ \A j \in DOMAIN out'[r] : ~(i < j)
    BY <1>4, <1>5
(* What a sink behind it has after a message of t is that message again.   *)
<1>7. \A r \in Behind : \A i, j \in DOMAIN out'[r] :
         i < j /\ out'[r][i] = m /\ holder = <<t>> => out'[r][j] = m
  <2> SUFFICES ASSUME NEW r \in Behind, NEW i \in DOMAIN out'[r], NEW j \in DOMAIN out'[r],
                      i < j, out'[r][i] = m, holder = <<t>>
               PROVE  out'[r][j] = m
      OBVIOUS
  <2>1. r \in Sinks
      BY DEF Behind
  <2>2. i \in DOMAIN out[r] /\ out'[r][i] = out[r][i]
      BY <1>6, <2>1
  <2>3. CASE j \in DOMAIN out[r] /\ out'[r][j] = out[r][j]
      BY <2>2, <2>3 DEF OrderInv, m
  <2> QED BY <1>6, <2>1, <2>3
<1>8. OrderInv'
  <2> SUFFICES ASSUME NEW u \in Threads, doing[u] = "log",
                      NEW r \in Behind, NEW i \in DOMAIN out'[r], out'[r][i] = msg[u]
               PROVE  /\ DistSink \notin Rest(u)'
                      /\ holder = <<u>> => \A j \in DOMAIN out'[r] : i < j => out'[r][j] = msg[u]
      BY <1>1 DEF OrderInv, Behind
  <2>1. r \in Sinks
      BY DEF Behind
  <2>2. CASE u = t
    <3>1. DistSink \notin Rest(t)
      <4>1. CASE r = s
          BY <1>3, <4>1
      <4>2. CASE r # s
          BY <1>5, <2>1, <2>2, <4>2 DEF OrderInv
      <4> QED BY <4>1, <4>2
    <3> QED BY <1>1, <1>7, <2>2, <3>1 DEF m
  <2>3. CASE u # t
    <3>1. msg[u] # m
        BY <1>2, <2>3 DEF LoggerInv, NumberInv
    <3>2. i \in DOMAIN out[r] /\ out[r][i] = msg[u]
        BY <1>6, <2>1, <3>1
    <3>3. DistSink \notin Rest(u)'
      <4>1. Rest(u)' = Rest(u)
          BY <1>1, <2>3 DEF Rest, Remaining
      <4> QED BY <3>2, <4>1 DEF OrderInv
    <3>4. ASSUME holder = <<u>>, NEW j \in DOMAIN out'[r], i < j
          PROVE  out'[r][j] = msg[u]
      <4>1. <<u>> # <<t>>
          BY <2>3
      <4>2. s \notin Behind
          BY <1>3, <3>4, <4>1
      <4>3. j \in DOMAIN out[r] /\ out'[r][j] = out[r][j]
          BY <1>6, <2>1, <4>2
      <4> QED BY <3>2, <3>4, <4>3 DEF OrderInv
    <3> QED BY <3>3, <3>4
  <2> QED BY <2>2, <2>3
<1>9. Sync!DistSinkKeepsOrder'
  <2> SUFFICES ASSUME NEW s1 \in Behind, NEW s2 \in Behind,
                      NEW i \in DOMAIN out'[s1], NEW j \in DOMAIN out'[s1], i < j,
                      NEW k \in DOMAIN out'[s2], NEW l \in DOMAIN out'[s2], k < l,
                      out'[s2][k] = out'[s1][j], out'[s2][l] = out'[s1][i]
               PROVE  out'[s1][i] = out'[s1][j]
      BY DEF Sync!DistSinkKeepsOrder, Sync!Precedes, Behind
  <2>1. s1 \in Sinks /\ s2 \in Sinks
      BY DEF Behind
  <2>2. i \in DOMAIN out[s1] /\ out'[s1][i] = out[s1][i]
      BY <1>6, <2>1
  <2>3. k \in DOMAIN out[s2] /\ out'[s2][k] = out[s2][k]
      BY <1>6, <2>1
  <2>4. CASE s1 = s /\ out'[s1][j] = m
      BY <1>3, <1>7, <2>4
  <2>5. CASE s2 = s /\ out'[s2][l] = m
      BY <1>3, <1>7, <2>5
  <2>6. CASE /\ j \in DOMAIN out[s1] /\ out'[s1][j] = out[s1][j]
             /\ l \in DOMAIN out[s2] /\ out'[s2][l] = out[s2][l]
    <3>1. /\ out[s2][k] = out[s1][j] /\ out[s2][l] = out[s1][i]
          /\ k \in DOMAIN out[s2] /\ l \in DOMAIN out[s2] /\ k < l
        BY <2>2, <2>3, <2>6
    <3>2. Sync!Precedes(out[s1][j], out[s1][i], s2)
        BY <3>1 DEF Sync!Precedes
    <3>3. out[s1][i] = out[s1][j]
        BY <2>2, <2>6, <3>2 DEF Sync!DistSinkKeepsOrder, Behind
    <3> QED BY <2>2, <2>6, <3>3
  <2> QED BY <1>6, <2>1, <2>4, <2>5, <2>6
<1> QED BY <1>8, <1>9

(* Every step keeps the order.                                             *)
LEMMA OrderNextInv ==
    ASSUME LoggerInv, Sync!LoggerAssumption, OnceInv, OrderInv, Sync!DistSinkKeepsOrder,
           [Sync!Next]_(Sync!vars)
    PROVE  OrderInv' /\ Sync!DistSinkKeepsOrder'
<1>0. \A u : <<>> # <<u>>
    OBVIOUS
<1>1. ASSUME UNCHANGED <<stack, doing, msg, holder, out>>
      PROVE  OrderInv' /\ Sync!DistSinkKeepsOrder'
    BY <1>1 DEF OrderInv, Behind, Rest, Remaining, Sync!DistSinkKeepsOrder, Sync!Precedes
<1>2. ASSUME NEW t \in Threads, Sync!Log(t) \/ Sync!Flush(t)
      PROVE  OrderInv' /\ Sync!DistSinkKeepsOrder'
  <2>1. /\ \A u \in Threads \ {t} :
              stack'[u] = stack[u] /\ doing'[u] = doing[u] /\ msg'[u] = msg[u]
        /\ holder' = holder /\ out' = out
        /\ doing'[t] = "log" => msg'[t].thread = t /\ msg'[t].number = calls[t] + 1
      BY <1>2, CallBegins
  <2>2. doing'[t] = "log" =>
            \A s \in Sinks : \A i \in DOMAIN out[s] : out[s][i] # msg'[t]
    <3>1. \A s \in Sinks : \A i \in DOMAIN out[s] :
             out[s][i].number \in 1 .. calls[out[s][i].thread]
        BY DEF LoggerInv, NumberInv
    <3>2. calls[t] + 1 \notin 1 .. calls[t]
        BY DEF LoggerInv, Types
    <3> QED BY <2>1, <3>1, <3>2
  <2> QED BY <2>1, <2>2, OrderAside
<1>3. ASSUME NEW t \in Threads, Sync!Skip(t) \/ (Sync!Write(t) /\ doing[t] # "log")
      PROVE  OrderInv' /\ Sync!DistSinkKeepsOrder'
  <2>1. /\ Sync!More(t)
        /\ stack' = [stack EXCEPT ![t] = Sync!Advanced(t)]
        /\ UNCHANGED <<doing, holder, msg, out>>
      BY <1>3 DEF Sync!Skip, Sync!Write
  <2>2. /\ InDist(t) => Remaining(t)' = Remaining(t)
        /\ ~InDist(t) => Remaining(t) \in Todo \ {<<>>} /\ Remaining(t)' = Tail(Remaining(t))
        /\ \A u \in Threads \ {t} : stack'[u] = stack[u]
      BY <2>1, Advance DEF LoggerInv
  <2>3. Rest(t)' \subseteq Rest(t)
      BY <2>2, TailOfTodo DEF Rest
  <2> QED BY <2>1, <2>2, <2>3, OrderAside
<1>4. ASSUME NEW t \in Threads, Sync!EnterDist(t)
      PROVE  OrderInv' /\ Sync!DistSinkKeepsOrder'
  <2>1. /\ Remaining(t) \in Todo \ {<<>>}
        /\ Remaining(t)' = Tail(Remaining(t))
        /\ Head(Remaining(t)) = DistSink
        /\ \A u \in Threads \ {t} : stack'[u] = stack[u]
      BY <1>4, Enter DEF LoggerInv, Types
  <2>2. UNCHANGED <<doing, msg, out>> /\ holder' = <<t>>
      BY <1>4 DEF Sync!EnterDist
  <2>3. Rest(t)' \subseteq Rest(t) /\ DistSink \in Rest(t)
      BY <2>1, TailOfTodo DEF Rest
  <2>4. \A u \in Threads \ {t} : <<u>> # <<t>>
      OBVIOUS
  <2> QED BY <2>1, <2>2, <2>3, <2>4, OrderAside
<1>5. ASSUME NEW t \in Threads, Sync!Leave(t)
      PROVE  OrderInv' /\ Sync!DistSinkKeepsOrder'
  <2>1. /\ \A u \in Threads \ {t} : stack'[u] = stack[u] /\ doing'[u] = doing[u]
        /\ \/ /\ InDist(t)
              /\ Remaining(t)' = Remaining(t) /\ doing' = doing /\ holder' = <<>>
           \/ /\ holder' = holder
              /\ doing'[t] \in {"flush", "idle"}
      BY <1>5, LoopEnds DEF LoggerInv, Types
  <2>2. msg' = msg /\ out' = out
      BY <1>5 DEF Sync!Leave
  <2>3. CASE Remaining(t)' = Remaining(t) /\ doing' = doing /\ holder' = <<>>
    <3>1. Rest(t)' = Rest(t)
        BY <2>3 DEF Rest
    <3> QED BY <1>0, <2>1, <2>2, <2>3, <3>1, OrderAside
  <2>4. CASE holder' = holder /\ doing'[t] \in {"flush", "idle"}
      BY <2>1, <2>2, <2>4, OrderAside
  <2> QED BY <2>1, <2>3, <2>4
<1>6. ASSUME NEW t \in Threads, Sync!Throw(t)
      PROVE  OrderInv' /\ Sync!DistSinkKeepsOrder'
  <2>1. /\ doing'[t] = "error"
        /\ \A u \in Threads \ {t} : stack'[u] = stack[u] /\ doing'[u] = doing[u]
      BY <1>6, LoopsThrown DEF LoggerInv, Types
  <2>2. msg' = msg /\ out' = out /\ (holder' = <<>> \/ holder' = holder)
      BY <1>6 DEF Sync!Throw, Sync!Released
  <2> QED BY <1>0, <2>1, <2>2, OrderAside
<1>7. ASSUME NEW t \in Threads, Sync!CheckErrorTime(t) \/ Sync!ReportError(t)
      PROVE  OrderInv' /\ Sync!DistSinkKeepsOrder'
  <2>1. /\ UNCHANGED <<stack, msg, out, holder>>
        /\ \E d \in {"idle", "report"} : doing' = [doing EXCEPT ![t] = d]
      BY <1>7 DEF Sync!CheckErrorTime, Sync!ReportError
  <2>2. /\ doing'[t] # "log"
        /\ \A u \in Threads \ {t} : doing'[u] = doing[u]
      BY <2>1 DEF LoggerInv, Types
  <2> QED BY <2>1, <2>2, OrderAside
<1>8. ASSUME \/ UNCHANGED Sync!vars \/ Sync!TimePasses
             \/ \E t \in Threads : Sync!SetLevel(t) \/ Sync!ChangeList(t)
      PROVE  OrderInv' /\ Sync!DistSinkKeepsOrder'
    BY <1>1, <1>8 DEF Sync!vars, Sync!logVars, Sync!TimePasses, Sync!SetLevel, Sync!ChangeList
<1> QED BY <1>2, <1>3, <1>4, <1>5, <1>6, <1>7, <1>8, OrderWritten DEF Sync!Next, Sync!Step

(* The sinks behind a distribution sink that the logger lists once agree   *)
(* on the order of what the threads log.                                   *)
THEOREM OrderIsKept ==
    ASSUME Sync!LoggerAssumption, OnceIn(LoggerSinks)
    PROVE  Sync!Spec => []Sync!DistSinkKeepsOrder
<1>1. Sync!Init => LoggerInv /\ OnceInv /\ OrderInv /\ Sync!DistSinkKeepsOrder
  <2> SUFFICES ASSUME Sync!Init
               PROVE  LoggerInv /\ OnceInv /\ OrderInv /\ Sync!DistSinkKeepsOrder
      OBVIOUS
  <2>1. \A s \in Sinks : out[s] = <<>>
      BY DEF Sync!Init
  <2>2. OnceInv /\ OrderInv
      BY DEF Sync!Init, OnceInv, OrderInv, Sync!Looping
  <2>3. Sync!DistSinkKeepsOrder
      BY <2>1 DEF Sync!DistSinkKeepsOrder
  <2> QED BY <2>2, <2>3, LoggerInitInv
<1>2. LoggerInv /\ OnceInv /\ OrderInv /\ Sync!DistSinkKeepsOrder /\ [Sync!Next]_(Sync!vars)
          => (LoggerInv /\ OnceInv /\ OrderInv /\ Sync!DistSinkKeepsOrder)'
    BY LoggerNextInv, OnceNextInv, OrderNextInv
<1> QED BY <1>1, <1>2, PTL DEF Sync!Spec

-----------------------------------------------------------------------------
(* The console and its coloured sinks.                                     *)

Bits == Foreground \union Default \union UNION {colors[l] : l \in Console!Levels}
Pieces == {"before", "range", "after"}
Labels == {"lock", "plain", "before", "color", "range", "reset", "after", "unlock"}

Writing ==
    [pc : Labels, sink : Sinks, id : Nat, level : Console!Levels, ranged : BOOLEAN,
     orig : SUBSET Bits]

Shown == [id : Nat, level : Console!Levels, part : Pieces, attributes : SUBSET Bits]

ConsoleTypes ==
    /\ attributes \subseteq Bits
    /\ screen \in Seq(Shown)
    /\ mutex \in [Sinks -> Threads \union {Console!NoThread}]
    /\ call \in [Threads -> {Console!Idle} \union Writing]
    /\ sent \in Nat

(* A thread that writes: it holds the mutex of its sink.                   *)
Holds(t) == ~Console!At(t, "idle") /\ ~Console!At(t, "lock")

Holding ==
    \A t \in Threads, s \in Sinks : mutex[s] = t <=> Holds(t) /\ call[t].sink = s

(* A message keeps its number to itself, and is on the screen as far as    *)
(* its thread has come.                                                    *)
NumbersInv ==
    /\ \A t \in Threads : ~Console!At(t, "idle") => call[t].id \in 1 .. sent
    /\ \A t, u \in Threads :
          ~Console!At(t, "idle") /\ ~Console!At(u, "idle") /\ call[t].id = call[u].id => t = u
    /\ \A i \in DOMAIN screen : screen[i].id \in 1 .. sent

ShownSoFar(label) ==
    CASE label \in {"lock", "plain", "before"} -> {}
      [] label \in {"color", "range"} -> {"before"}
      [] label \in {"reset", "after"} -> {"before", "range"}
      [] OTHER -> Pieces

PiecesInv ==
    \A t \in Threads : \A i \in DOMAIN screen :
        ~Console!At(t, "idle") /\ screen[i].id = call[t].id =>
            screen[i].part \in ShownSoFar(call[t].pc)

(* Somebody has set the attributes and not put them back.                  *)
Colouring(t) == Console!At(t, "range") \/ Console!At(t, "reset")

ColourInv == (\A t \in Threads : ~Colouring(t)) => attributes = Default

ConsoleInv ==
    ConsoleTypes /\ Holding /\ NumbersInv /\ PiecesInv /\ Console!PartsInOrder

(* Where the console has a single sink.                                    *)
OneSink == \A s1, s2 \in Sinks : s1 = s2

OrigInv == \A t \in Threads : Colouring(t) => call[t].orig = Default

(* What comes after a message that is being written is its own.            *)
WholeInv ==
    \A t \in Threads : Holds(t) =>
        \A i, k \in DOMAIN screen :
            i < k /\ screen[i].id = call[t].id => screen[k].id = call[t].id

(* What a step is of: a message begins, its thread goes on to a label, or  *)
(* it is over.                                                             *)
LEMMA Goes ==
    ASSUME ConsoleTypes, NEW t \in Threads, call[t] \in Writing, NEW label \in Labels,
           Console!Go(t, label)
    PROVE  /\ call' \in [Threads -> {Console!Idle} \union Writing]
           /\ call'[t] \in Writing /\ call'[t].pc = label
           /\ call'[t].sink = call[t].sink /\ call'[t].id = call[t].id
           /\ call'[t].orig = call[t].orig
           /\ \A u \in Threads \ {t} : call'[u] = call[u]
<1>1. call'[t] = [call[t] EXCEPT !.pc = label]
    BY DEF Console!Go, ConsoleTypes
<1>2. \A u \in Threads \ {t} : call'[u] = call[u]
    BY DEF Console!Go, ConsoleTypes
<1>3. /\ call'[t] \in Writing /\ call'[t].pc = label
      /\ call'[t].sink = call[t].sink /\ call'[t].id = call[t].id
      /\ call'[t].orig = call[t].orig
    BY <1>1 DEF Writing
<1>4. call' \in [Threads -> {Console!Idle} \union Writing]
    BY <1>2, <1>3 DEF Console!Go, ConsoleTypes
<1> QED BY <1>2, <1>3, <1>4

(* A thread has a message or is idle.                                      *)
LEMMA Busy ==
    ASSUME ConsoleTypes, NEW t \in Threads
    PROVE  ~Console!At(t, "idle") <=> call[t] \in Writing
BY DEF ConsoleTypes, Console!At, Console!Idle, Writing, Labels

(* What is printed comes after what is shown.                              *)
LEMMA Printed ==
    ASSUME ConsoleTypes, NEW t \in Threads, call[t] \in Writing,
           NEW p \in Seq(Pieces), Console!print_range(t, p)
    PROVE  /\ screen' \in Seq(Shown)
           /\ \A i \in DOMAIN screen' :
                 \/ i \in DOMAIN screen /\ screen'[i] = screen[i]
                 \/ /\ i > Len(screen) /\ i - Len(screen) \in DOMAIN p
                    /\ screen'[i].id = call[t].id
                    /\ screen'[i].part = p[i - Len(screen)]
                    /\ screen'[i].attributes = attributes
           /\ \A i \in DOMAIN screen' : i \in Nat
           /\ \A i \in DOMAIN screen : i <= Len(screen)
           /\ DOMAIN screen \subseteq DOMAIN screen' /\ Len(screen) \in Nat
<1> DEFINE e == [i \in DOMAIN p |-> [id |-> call[t].id, level |-> call[t].level,
                                     part |-> p[i], attributes |-> attributes]]
<1>1. Len(p) \in Nat /\ DOMAIN p = 1 .. Len(p) /\ \A i \in DOMAIN p : p[i] \in Pieces
    BY LenProperties
<1>2. \A i \in DOMAIN p : e[i] \in Shown
    BY <1>1 DEF Shown, Writing, ConsoleTypes
<1>3. e \in Seq(Shown) /\ Len(e) = Len(p)
  <2>1. e \in [1 .. Len(p) -> Shown]
      BY <1>1, <1>2
  <2> QED BY <1>1, <2>1
<1>4. screen \in Seq(Shown) /\ Len(screen) \in Nat /\ DOMAIN screen = 1 .. Len(screen)
    BY LenProperties DEF ConsoleTypes
<1>5. screen' = screen \o e
    BY DEF Console!print_range
<1>6. \A i \in DOMAIN p : e[i].id = call[t].id /\ e[i].part = p[i] /\ e[i].attributes = attributes
    OBVIOUS
<1> HIDE DEF e
<1>7. /\ screen' \in Seq(Shown) /\ Len(screen') = Len(screen) + Len(p)
      /\ \A i \in 1 .. Len(screen) + Len(p) :
            screen'[i] = IF i <= Len(screen) THEN screen[i] ELSE e[i - Len(screen)]
  <2>1. /\ screen \o e \in Seq(Shown) /\ Len(screen \o e) = Len(screen) + Len(e)
        /\ \A i \in 1 .. Len(screen) + Len(e) :
              (screen \o e)[i] = IF i <= Len(screen) THEN screen[i] ELSE e[i - Len(screen)]
      BY <1>3, <1>4, ConcatProperties
  <2> QED BY <1>3, <1>5, <2>1
<1>8. DOMAIN screen' = 1 .. Len(screen) + Len(p)
    BY <1>7, LenProperties
<1>9. ASSUME NEW i \in DOMAIN screen'
      PROVE  \/ i \in DOMAIN screen /\ screen'[i] = screen[i]
             \/ /\ i > Len(screen) /\ i - Len(screen) \in DOMAIN p
                /\ screen'[i].id = call[t].id
                /\ screen'[i].part = p[i - Len(screen)]
                /\ screen'[i].attributes = attributes
  <2>1. CASE i <= Len(screen)
      BY <1>4, <1>7, <1>8, <2>1
  <2>2. CASE ~(i <= Len(screen))
    <3>1. i - Len(screen) \in DOMAIN p /\ screen'[i] = e[i - Len(screen)] /\ i > Len(screen)
        BY <1>1, <1>4, <1>7, <1>8, <2>2
    <3> QED BY <1>6, <3>1
  <2> QED BY <2>1, <2>2
<1> QED BY <1>1, <1>4, <1>7, <1>8, <1>9

(* What a piece may come after.                                            *)
Order == {<<"before", "range">>, <<"range", "after">>, <<"before", "after">>}

Fits(from, p, to) ==
    /\ ShownSoFar(from) \subseteq ShownSoFar(to)
    /\ \A k \in DOMAIN p :
          /\ p[k] \in ShownSoFar(to)
          /\ \A x \in ShownSoFar(from) : <<x, p[k]>> \in Order
          /\ \A l \in DOMAIN p : k < l => <<p[k], p[l]>> \in Order

(* What the steps print comes after what was printed before.               *)
LEMMA PiecesFit ==
    /\ Fits("plain", <<"before", "range", "after">>, "unlock")
    /\ Fits("before", <<"before">>, "color")
    /\ Fits("range", <<"range">>, "reset")
    /\ Fits("after", <<"after">>, "unlock")
    /\ <<"before", "range", "after">> \in Seq(Pieces)
    /\ \A x \in Pieces : <<x>> \in Seq(Pieces)
<1>1. Fits("plain", <<"before", "range", "after">>, "unlock")
  <2> DEFINE p == <<"before", "range", "after">>
  <2>1. DOMAIN p = 1 .. 3 /\ p[1] = "before" /\ p[2] = "range" /\ p[3] = "after"
      OBVIOUS
  <2> HIDE DEF p
  <2>2. ShownSoFar("plain") = {} /\ ShownSoFar("unlock") = Pieces
      BY DEF ShownSoFar
  <2>3. ASSUME NEW k \in 1 .. 3, NEW l \in 1 .. 3, k < l
        PROVE  <<p[k], p[l]>> \in Order
      BY <2>1, <2>3 DEF Order
  <2>4. \A k \in 1 .. 3 : p[k] \in Pieces
      BY <2>1 DEF Pieces
  <2> QED BY <2>1, <2>2, <2>3, <2>4 DEF Fits, p
<1>2. \A x : DOMAIN <<x>> = {1} /\ <<x>>[1] = x
    OBVIOUS
<1>3. /\ ShownSoFar("before") = {} /\ ShownSoFar("color") = {"before"}
      /\ ShownSoFar("range") = {"before"} /\ ShownSoFar("reset") = {"before", "range"}
      /\ ShownSoFar("after") = {"before", "range"} /\ ShownSoFar("unlock") = Pieces
    BY DEF ShownSoFar
<1>4. Fits("before", <<"before">>, "color")
    BY <1>2, <1>3 DEF Fits
<1>5. Fits("range", <<"range">>, "reset")
    BY <1>2, <1>3 DEF Fits, Order
<1>6. Fits("after", <<"after">>, "unlock")
    BY <1>2, <1>3 DEF Fits, Order, Pieces
<1>7. <<"before", "range", "after">> \in Seq(Pieces)
    BY DEF Pieces
<1> QED BY <1>1, <1>4, <1>5, <1>6, <1>7

(* A thread that writes goes on.                                           *)
LEMMA Moves ==
    ASSUME ConsoleInv, NEW t \in Threads, call[t] \in Writing,
           call' \in [Threads -> {Console!Idle} \union Writing],
           call'[t] \in Writing, call'[t].id = call[t].id,
           \A u \in Threads \ {t} : call'[u] = call[u],
           sent' = sent, attributes' \subseteq Bits,
           mutex' \in [Sinks -> Threads \union {Console!NoThread}], Holding',
           \/ /\ screen' = screen
              /\ ShownSoFar(call[t].pc) \subseteq ShownSoFar(call'[t].pc)
           \/ \E p \in Seq(Pieces) :
                 Console!print_range(t, p) /\ Fits(call[t].pc, p, call'[t].pc)
    PROVE  ConsoleInv'
<1>1. \A u \in Threads : Console!At(u, "idle")' <=> Console!At(u, "idle")
  <2>1. ~Console!At(t, "idle")' /\ ~Console!At(t, "idle")
      BY DEF Console!At, Writing, Labels
  <2> QED BY <2>1 DEF Console!At
<1>2. \A u \in Threads : call'[u].id = call[u].id
    OBVIOUS
<1>3. CASE screen' = screen /\ ShownSoFar(call[t].pc) \subseteq ShownSoFar(call'[t].pc)
  <2>1. ConsoleTypes'
      BY <1>3 DEF ConsoleInv, ConsoleTypes, Bits, Console!Levels, Writing, Shown
  <2>2. NumbersInv'
      BY <1>1, <1>2, <1>3 DEF ConsoleInv, NumbersInv
  <2>3. PiecesInv'
      BY <1>1, <1>2, <1>3 DEF ConsoleInv, PiecesInv
  <2>4. Console!PartsInOrder'
      BY <1>3 DEF ConsoleInv, Console!PartsInOrder
  <2> QED BY <2>1, <2>2, <2>3, <2>4 DEF ConsoleInv
<1>4. ASSUME NEW p \in Seq(Pieces), Console!print_range(t, p),
             Fits(call[t].pc, p, call'[t].pc)
      PROVE  ConsoleInv'
  <2>1. /\ screen' \in Seq(Shown)
        /\ \A i \in DOMAIN screen' :
              \/ i \in DOMAIN screen /\ screen'[i] = screen[i]
              \/ /\ i > Len(screen) /\ i - Len(screen) \in DOMAIN p
                 /\ screen'[i].id = call[t].id
                 /\ screen'[i].part = p[i - Len(screen)]
        /\ \A i \in DOMAIN screen' : i \in Nat
        /\ \A i \in DOMAIN screen : i <= Len(screen)
        /\ Len(screen) \in Nat
      BY <1>4, Printed DEF ConsoleInv
  <2>2. ConsoleTypes'
      BY <2>1 DEF ConsoleInv, ConsoleTypes, Bits, Console!Levels, Writing, Shown
  <2>3. ~Console!At(t, "idle")
      BY Busy DEF ConsoleInv
  <2>4. NumbersInv'
    <3>1. \A i \in DOMAIN screen' : screen'[i].id \in 1 .. sent
        BY <2>1, <2>3 DEF ConsoleInv, NumbersInv
    <3> QED BY <1>1, <1>2, <3>1 DEF ConsoleInv, NumbersInv
  <2>5. PiecesInv'
    <3> SUFFICES ASSUME NEW u \in Threads, NEW i \in DOMAIN screen',
                        ~Console!At(u, "idle"), screen'[i].id = call[u].id
                 PROVE  screen'[i].part \in ShownSoFar(call'[u].pc)
        BY <1>1, <1>2 DEF PiecesInv
    <3>1. CASE i \in DOMAIN screen /\ screen'[i] = screen[i]
      <4>1. screen[i].part \in ShownSoFar(call[u].pc)
          BY <3>1 DEF ConsoleInv, PiecesInv
      <4>2. CASE u = t
          BY <1>4, <3>1, <4>1, <4>2 DEF Fits
      <4>3. CASE u # t
          BY <3>1, <4>1, <4>3
      <4> QED BY <4>2, <4>3
    <3>2. CASE /\ i - Len(screen) \in DOMAIN p /\ screen'[i].id = call[t].id
               /\ screen'[i].part = p[i - Len(screen)]
      <4>1. u = t
          BY <2>3, <3>2 DEF ConsoleInv, NumbersInv
      <4> QED BY <1>4, <3>2, <4>1 DEF Fits
    <3> QED BY <2>1, <3>1, <3>2
  <2>6. Console!PartsInOrder'
    <3> SUFFICES ASSUME NEW i \in DOMAIN screen', NEW j \in DOMAIN screen',
                        screen'[i].id = screen'[j].id, i < j
                 PROVE  <<screen'[i].part, screen'[j].part>> \in Order
        BY DEF Console!PartsInOrder, Order
    <3>1. CASE /\ i \in DOMAIN screen /\ screen'[i] = screen[i]
               /\ j \in DOMAIN screen /\ screen'[j] = screen[j]
        BY <3>1 DEF ConsoleInv, Console!PartsInOrder, Order
    <3>2. CASE /\ i \in DOMAIN screen /\ screen'[i] = screen[i]
               /\ j - Len(screen) \in DOMAIN p /\ screen'[j].id = call[t].id
               /\ screen'[j].part = p[j - Len(screen)]
      <4>1. screen[i].part \in ShownSoFar(call[t].pc)
          BY <2>3, <3>2 DEF ConsoleInv, PiecesInv
      <4> QED BY <1>4, <3>2, <4>1 DEF Fits
    <3>3. CASE /\ i - Len(screen) \in DOMAIN p
               /\ screen'[i].part = p[i - Len(screen)]
               /\ j - Len(screen) \in DOMAIN p
               /\ screen'[j].part = p[j - Len(screen)]
      <4>1. i - Len(screen) < j - Len(screen)
          BY <2>1
      <4> QED BY <1>4, <3>3, <4>1 DEF Fits
    <3>4. ~(i > Len(screen) /\ j \in DOMAIN screen)
        BY <2>1
    <3> QED BY <2>1, <3>1, <3>2, <3>3, <3>4
  <2> QED BY <2>2, <2>4, <2>5, <2>6 DEF ConsoleInv
<1> QED BY <1>3, <1>4

(* The steps of a thread that has the mutex: where it goes, what it        *)
(* prints.                                                                 *)
LEMMA Continues ==
    ASSUME ConsoleInv, NEW t \in Threads,
           \/ Console!PrintPlain(t) \/ Console!PrintBefore(t) \/ Console!SetColor(t)
           \/ Console!PrintRange(t) \/ Console!ResetColor(t) \/ Console!PrintAfter(t)
    PROVE  /\ call[t] \in Writing /\ Holds(t)
           /\ call' \in [Threads -> {Console!Idle} \union Writing]
           /\ call'[t] \in Writing /\ call'[t].id = call[t].id
           /\ call'[t].sink = call[t].sink
           /\ call'[t].pc \in Labels \ {"lock"}
           /\ \A u \in Threads \ {t} : call'[u] = call[u]
           /\ sent' = sent /\ mutex' = mutex
           /\ attributes' \subseteq Bits
           /\ \/ /\ screen' = screen
                 /\ ShownSoFar(call[t].pc) \subseteq ShownSoFar(call'[t].pc)
              \/ \E p \in Seq(Pieces) :
                    /\ Console!print_range(t, p) /\ Fits(call[t].pc, p, call'[t].pc)
                    /\ call[t].pc = "range" \/ attributes' = attributes
<1>0. ConsoleTypes
    BY DEF ConsoleInv
<1>1. call[t] \in Writing /\ Holds(t)
  <2>1. call[t].pc \in {"plain", "before", "color", "range", "reset", "after"}
      BY DEF Console!PrintPlain, Console!PrintBefore, Console!SetColor, Console!PrintRange,
             Console!ResetColor, Console!PrintAfter, Console!At
  <2> QED BY <1>0, <2>1, Busy DEF Holds, Console!At
<1>2. CASE Console!PrintPlain(t)
  <2>1. call[t].pc = "plain" /\ Console!Go(t, "unlock") /\ UNCHANGED <<attributes, mutex, sent>>
        /\ Console!print_range(t, <<"before", "range", "after">>)
      BY <1>2 DEF Console!PrintPlain, Console!At
  <2> QED BY <1>0, <1>1, <2>1, Goes, PiecesFit DEF ConsoleTypes, Labels
<1>3. CASE Console!PrintBefore(t)
  <2>1. call[t].pc = "before" /\ Console!Go(t, "color") /\ UNCHANGED <<attributes, mutex, sent>>
        /\ Console!print_range(t, <<"before">>)
      BY <1>3 DEF Console!PrintBefore, Console!At
  <2>2. <<"before">> \in Seq(Pieces)
      BY PiecesFit DEF Pieces
  <2> QED BY <1>0, <1>1, <2>1, <2>2, Goes, PiecesFit DEF ConsoleTypes, Labels
<1>4. CASE Console!PrintRange(t)
  <2>1. call[t].pc = "range" /\ Console!Go(t, "reset") /\ UNCHANGED <<attributes, mutex, sent>>
        /\ Console!print_range(t, <<"range">>)
      BY <1>4 DEF Console!PrintRange, Console!At
  <2>2. <<"range">> \in Seq(Pieces)
      BY PiecesFit DEF Pieces
  <2> QED BY <1>0, <1>1, <2>1, <2>2, Goes, PiecesFit DEF ConsoleTypes, Labels
<1>5. CASE Console!PrintAfter(t)
  <2>1. call[t].pc = "after" /\ Console!Go(t, "unlock") /\ UNCHANGED <<attributes, mutex, sent>>
        /\ Console!print_range(t, <<"after">>)
      BY <1>5 DEF Console!PrintAfter, Console!At
  <2>2. <<"after">> \in Seq(Pieces)
      BY PiecesFit DEF Pieces
  <2> QED BY <1>0, <1>1, <2>1, <2>2, Goes, PiecesFit DEF ConsoleTypes, Labels
<1>6. CASE Console!ResetColor(t)
  <2>1. call[t].pc = "reset" /\ Console!Go(t, "after") /\ UNCHANGED <<screen, mutex, sent>>
        /\ attributes' \in {call[t].orig, Default}
      BY <1>6 DEF Console!ResetColor, Console!At, Console!AfterCode, Console!ResetCode
  <2>2. attributes' \subseteq Bits
      BY <1>1, <2>1 DEF Writing, Bits
  <2>3. ShownSoFar("reset") \subseteq ShownSoFar("after")
      BY DEF ShownSoFar
  <2> QED BY <1>0, <1>1, <2>1, <2>2, <2>3, Goes DEF Labels
<1>7. CASE Console!SetColor(t)
  <2>1. /\ call[t].pc = "color" /\ UNCHANGED <<screen, mutex, sent>>
        /\ attributes' \in {colors[call[t].level] \union (attributes \ Foreground),
                            colors[call[t].level]}
        /\ call' = [call EXCEPT ![t].pc = "range", ![t].orig = attributes]
      BY <1>7 DEF Console!SetColor, Console!At, Console!AfterCode
  <2>2. attributes' \subseteq Bits
      BY <1>0, <1>1, <2>1 DEF Writing, Bits, ConsoleTypes
  <2>3. ShownSoFar("color") \subseteq ShownSoFar("range")
      BY DEF ShownSoFar
  <2>4. /\ call'[t] = [call[t] EXCEPT !.pc = "range", !.orig = attributes]
        /\ \A u \in Threads \ {t} : call'[u] = call[u]
        /\ DOMAIN call' = Threads
      BY <1>0, <2>1 DEF ConsoleTypes
  <2>5. /\ call'[t] \in Writing /\ call'[t].pc = "range"
        /\ call'[t].sink = call[t].sink /\ call'[t].id = call[t].id
      BY <1>0, <1>1, <2>4 DEF Writing, Labels, ConsoleTypes
  <2>6. call' \in [Threads -> {Console!Idle} \union Writing]
      BY <1>0, <2>1, <2>4, <2>5 DEF ConsoleTypes
  <2> QED BY <1>1, <2>1, <2>2, <2>3, <2>4, <2>5, <2>6 DEF Labels
<1> QED BY <1>2, <1>3, <1>4, <1>5, <1>6, <1>7

(* A thread that has the mutex goes on.                                    *)
LEMMA ContinuesInv ==
    ASSUME ConsoleInv, NEW t \in Threads,
           \/ Console!PrintPlain(t) \/ Console!PrintBefore(t) \/ Console!SetColor(t)
           \/ Console!PrintRange(t) \/ Console!ResetColor(t) \/ Console!PrintAfter(t)
    PROVE  ConsoleInv'
<1>1. Holding'
  <2>1. Holds(t)' /\ Holds(t)
      BY Continues DEF Holds, Console!At, Labels
  <2>2. \A u \in Threads : Holds(u)' <=> Holds(u)
      BY <2>1, Continues DEF Holds, Console!At
  <2>3. \A u \in Threads : call'[u].sink = call[u].sink
      BY Continues
  <2> QED BY <2>2, <2>3, Continues DEF ConsoleInv, Holding
<1>2. mutex' \in [Sinks -> Threads \union {Console!NoThread}]
    BY Continues DEF ConsoleInv, ConsoleTypes
<1> QED BY <1>1, <1>2, Continues, Moves

(* A thread gets the mutex of its sink, which nobody had.                  *)
LEMMA LocksInv ==
    ASSUME ConsoleInv, Console!ConsoleAssumption, NEW t \in Threads, Console!Lock(t)
    PROVE  ConsoleInv'
<1>1. /\ call[t].pc = "lock" /\ mutex[call[t].sink] = Console!NoThread
      /\ mutex' = [mutex EXCEPT ![call[t].sink] = t]
      /\ \E label \in {"before", "plain"} : Console!Go(t, label)
      /\ UNCHANGED <<attributes, screen, sent>>
    BY DEF Console!Lock, Console!At
<1>2. call[t] \in Writing
    BY <1>1, Busy DEF ConsoleInv, Console!At
<1>3. PICK label \in {"before", "plain"} : Console!Go(t, label)
    BY <1>1
<1>4. /\ call' \in [Threads -> {Console!Idle} \union Writing]
      /\ call'[t] \in Writing /\ call'[t].pc = label
      /\ call'[t].sink = call[t].sink /\ call'[t].id = call[t].id
      /\ \A u \in Threads \ {t} : call'[u] = call[u]
    BY <1>2, <1>3, Goes DEF ConsoleInv, Labels
<1>5. /\ call[t].sink \in Sinks
      /\ mutex' \in [Sinks -> Threads \union {Console!NoThread}]
      /\ mutex'[call[t].sink] = t
      /\ \A s \in Sinks \ {call[t].sink} : mutex'[s] = mutex[s]
    BY <1>1, <1>2 DEF ConsoleInv, ConsoleTypes, Writing
<1>6. Holding'
  <2> SUFFICES ASSUME NEW u \in Threads, NEW s \in Sinks
               PROVE  mutex'[s] = u <=> Holds(u)' /\ call'[u].sink = s
      BY DEF Holding
  <2>1. mutex[s] = u <=> Holds(u) /\ call[u].sink = s
      BY DEF ConsoleInv, Holding
  <2>2. u # Console!NoThread
      BY DEF Console!ConsoleAssumption
  <2>3. CASE u = t
    <3>1. Holds(t)' /\ ~Holds(t)
        BY <1>1, <1>4 DEF Holds, Console!At
    <3> QED BY <1>4, <1>5, <2>1, <2>3, <3>1
  <2>4. CASE u # t
    <3>1. Holds(u)' <=> Holds(u)
        BY <1>4, <2>4 DEF Holds, Console!At
    <3> QED BY <1>1, <1>4, <1>5, <2>1, <2>2, <2>4, <3>1
  <2> QED BY <2>3, <2>4
<1>7. ShownSoFar(call[t].pc) \subseteq ShownSoFar(call'[t].pc)
    BY <1>1, <1>4 DEF ShownSoFar
<1>8. attributes' \subseteq Bits
    BY <1>1 DEF ConsoleInv, ConsoleTypes
<1> QED BY <1>1, <1>2, <1>4, <1>5, <1>6, <1>7, <1>8, Moves

(* A message is over, and its mutex free.                                  *)
LEMMA UnlocksInv ==
    ASSUME ConsoleInv, Console!ConsoleAssumption, NEW t \in Threads, Console!Unlock(t)
    PROVE  ConsoleInv'
<1>1. /\ call[t].pc = "unlock"
      /\ mutex' = [mutex EXCEPT ![call[t].sink] = Console!NoThread]
      /\ call' = [call EXCEPT ![t] = Console!Idle]
      /\ UNCHANGED <<attributes, screen, sent>>
    BY DEF Console!Unlock, Console!At
<1>2. call[t] \in Writing
    BY <1>1, Busy DEF ConsoleInv, Console!At
<1>3. /\ call' \in [Threads -> {Console!Idle} \union Writing]
      /\ Console!At(t, "idle")'
      /\ \A u \in Threads \ {t} : call'[u] = call[u]
    BY <1>1 DEF ConsoleInv, ConsoleTypes, Console!At, Console!Idle
<1>4. /\ call[t].sink \in Sinks
      /\ mutex' \in [Sinks -> Threads \union {Console!NoThread}]
      /\ mutex'[call[t].sink] = Console!NoThread
      /\ \A s \in Sinks \ {call[t].sink} : mutex'[s] = mutex[s]
    BY <1>1, <1>2 DEF ConsoleInv, ConsoleTypes, Writing
<1>5. ConsoleTypes'
    BY <1>1, <1>3, <1>4 DEF ConsoleInv, ConsoleTypes, Bits, Console!Levels, Writing, Shown
<1>6. Holding'
  <2> SUFFICES ASSUME NEW u \in Threads, NEW s \in Sinks
               PROVE  mutex'[s] = u <=> Holds(u)' /\ call'[u].sink = s
      BY DEF Holding
  <2>1. mutex[s] = u <=> Holds(u) /\ call[u].sink = s
      BY DEF ConsoleInv, Holding
  <2>2. u # Console!NoThread
      BY DEF Console!ConsoleAssumption
  <2>3. mutex[call[t].sink] = t
      BY <1>1, <1>4 DEF ConsoleInv, Holding, Holds, Console!At
  <2>4. CASE u = t
    <3>1. ~Holds(t)'
        BY <1>3 DEF Holds
    <3>2. Holds(t)
        BY <1>1 DEF Holds, Console!At
    <3> QED BY <1>4, <2>1, <2>2, <2>4, <3>1, <3>2
  <2>5. CASE u # t
    <3>1. (Holds(u)' <=> Holds(u)) /\ call'[u] = call[u]
        BY <1>3, <2>5 DEF Holds, Console!At
    <3> QED BY <1>4, <2>1, <2>2, <2>3, <2>5, <3>1
  <2> QED BY <2>4, <2>5
<1>7. \A u \in Threads : ~Console!At(u, "idle")' => ~Console!At(u, "idle") /\ call'[u] = call[u]
    BY <1>3 DEF Console!At
<1>8. NumbersInv' /\ PiecesInv' /\ Console!PartsInOrder'
    BY <1>1, <1>7 DEF ConsoleInv, NumbersInv, PiecesInv, Console!PartsInOrder
<1> QED BY <1>5, <1>6, <1>8 DEF ConsoleInv

(* A message begins with a number nobody has had.                          *)
LEMMA LogsInv ==
    ASSUME ConsoleInv, Console!ConsoleAssumption, NEW t \in Threads, NEW s \in Sinks,
           NEW l \in Console!Levels, NEW ranged \in BOOLEAN, Console!Log(t, s, l, ranged)
    PROVE  ConsoleInv'
<1> DEFINE c == [pc |-> "lock", sink |-> s, id |-> sent + 1, level |-> l,
                 ranged |-> ranged, orig |-> Default]
<1>1. /\ Console!At(t, "idle") /\ sent' = sent + 1 /\ sent \in Nat
      /\ call' = [call EXCEPT ![t] = c]
      /\ UNCHANGED <<attributes, screen, mutex>>
    BY DEF Console!Log, ConsoleInv, ConsoleTypes
<1>2. c \in Writing /\ c.pc = "lock" /\ c.id = sent + 1
    BY <1>1 DEF Writing, Labels, Bits
<1> HIDE DEF c
<1>3. /\ call' \in [Threads -> {Console!Idle} \union Writing]
      /\ call'[t] = c
      /\ \A u \in Threads \ {t} : call'[u] = call[u]
    BY <1>1, <1>2 DEF ConsoleInv, ConsoleTypes
<1>4. ConsoleTypes'
    BY <1>1, <1>3 DEF ConsoleInv, ConsoleTypes, Bits, Console!Levels, Writing, Shown
<1>5. Holding'
  <2>1. ~Holds(t) /\ ~Holds(t)'
      BY <1>1, <1>2, <1>3 DEF Holds, Console!At
  <2>2. \A u \in Threads \ {t} : Holds(u)' <=> Holds(u)
      BY <1>3 DEF Holds, Console!At
  <2> QED BY <1>1, <1>3, <2>1, <2>2 DEF ConsoleInv, Holding
<1>6. \A n \in 1 .. sent : n \in 1 .. sent' /\ n # c.id /\ c.id \in 1 .. sent'
    BY <1>1, <1>2
<1>7. c.id \in 1 .. sent'
    BY <1>1, <1>2
<1>8. \A u \in Threads \ {t} : Console!At(u, "idle")' <=> Console!At(u, "idle")
    BY <1>3 DEF Console!At
<1>9. NumbersInv'
    BY <1>1, <1>3, <1>6, <1>7, <1>8 DEF ConsoleInv, NumbersInv
<1>10. PiecesInv'
    BY <1>1, <1>3, <1>6, <1>8 DEF ConsoleInv, NumbersInv, PiecesInv
<1>11. Console!PartsInOrder'
    BY <1>1 DEF ConsoleInv, Console!PartsInOrder
<1> QED BY <1>4, <1>5, <1>9, <1>10, <1>11 DEF ConsoleInv

(* Every step of the console sinks keeps the invariant.                    *)
LEMMA ConsoleNextInv ==
    ASSUME ConsoleInv, Console!ConsoleAssumption, [Console!Next]_(Console!vars)
    PROVE  ConsoleInv'
<1>1. CASE UNCHANGED Console!vars
  <2>1. ConsoleTypes'
      BY <1>1 DEF Console!vars, ConsoleInv, ConsoleTypes, Bits, Console!Levels, Writing, Shown
  <2> QED BY <1>1, <2>1 DEF Console!vars, ConsoleInv, Holding, Holds, NumbersInv, PiecesInv,
                            Console!PartsInOrder, Console!At
<1> QED BY <1>1, LogsInv, LocksInv, UnlocksInv, ContinuesInv DEF Console!Next

(* With a single sink, one thread at a time writes.                        *)
LEMMA Alone ==
    ASSUME ConsoleInv, OneSink, NEW t \in Threads, NEW u \in Threads, Holds(t), Holds(u)
    PROVE  t = u
<1>1. call[t].sink \in Sinks /\ call[u].sink \in Sinks
    BY Busy DEF ConsoleInv, Holds, Writing
<1>2. mutex[call[t].sink] = t /\ mutex[call[u].sink] = u
    BY <1>1 DEF ConsoleInv, Holding
<1> QED BY <1>1, <1>2 DEF OneSink

(* Who changes the attributes puts back what the console began with.       *)
LEMMA ColoursAndOrig ==
    ASSUME ConsoleInv, ColourInv, OneSink => OrigInv, OneSink \/ Kind = "ansicolor",
           Console!ConsoleAssumption, [Console!Next]_(Console!vars)
    PROVE  ColourInv' /\ (OneSink => OrigInv')
<1>1. ASSUME NEW t \in Threads, attributes' = attributes,
             call' \in [Threads -> {Console!Idle} \union Writing],
             \A u \in Threads \ {t} : call'[u] = call[u],
             \/ ~Colouring(t) /\ ~Colouring(t)'
             \/ Colouring(t) /\ Colouring(t)' /\ call'[t].orig = call[t].orig
      PROVE  ColourInv' /\ (OneSink => OrigInv')
    BY <1>1 DEF ColourInv, OrigInv, Colouring, Console!At
<1>2. CASE UNCHANGED Console!vars
    BY <1>2 DEF ColourInv, OrigInv, Colouring, Console!At, Console!vars
<1>3. ASSUME NEW t \in Threads, NEW from \in {"lock", "plain", "before", "after"},
             call[t].pc = from, NEW to \in {"plain", "before", "color", "after", "unlock"},
             Console!Go(t, to), attributes' = attributes
      PROVE  ColourInv' /\ (OneSink => OrigInv')
  <2>1. call[t] \in Writing
      BY <1>3, Busy DEF ConsoleInv, Console!At
  <2>2. /\ call' \in [Threads -> {Console!Idle} \union Writing] /\ call'[t].pc = to
        /\ \A u \in Threads \ {t} : call'[u] = call[u]
      BY <1>3, <2>1, Goes DEF ConsoleInv, Labels
  <2>3. ~Colouring(t) /\ ~Colouring(t)'
      BY <1>3, <2>2 DEF Colouring, Console!At
  <2> QED BY <1>1, <1>3, <2>2, <2>3
<1>4. ASSUME NEW t \in Threads,
             \/ Console!Lock(t) \/ Console!PrintPlain(t)
             \/ Console!PrintBefore(t) \/ Console!PrintAfter(t)
      PROVE  ColourInv' /\ (OneSink => OrigInv')
  <2>1. CASE Console!Lock(t)
      BY <1>3, <2>1 DEF Console!Lock, Console!At
  <2>2. CASE Console!PrintPlain(t)
      BY <1>3, <2>2 DEF Console!PrintPlain, Console!At
  <2>3. CASE Console!PrintBefore(t)
      BY <1>3, <2>3 DEF Console!PrintBefore, Console!At
  <2>4. CASE Console!PrintAfter(t)
      BY <1>3, <2>4 DEF Console!PrintAfter, Console!At
  <2> QED BY <1>4, <2>1, <2>2, <2>3, <2>4
<1>5. ASSUME NEW t \in Threads, Console!PrintRange(t)
      PROVE  ColourInv' /\ (OneSink => OrigInv')
  <2>1. call[t].pc = "range" /\ Console!Go(t, "reset") /\ attributes' = attributes
      BY <1>5 DEF Console!PrintRange, Console!At
  <2>2. call[t] \in Writing
      BY <2>1, Busy DEF ConsoleInv, Console!At
  <2>3. /\ call' \in [Threads -> {Console!Idle} \union Writing] /\ call'[t].pc = "reset"
        /\ call'[t].orig = call[t].orig
        /\ \A u \in Threads \ {t} : call'[u] = call[u]
      BY <2>1, <2>2, Goes DEF ConsoleInv, Labels
  <2>4. Colouring(t) /\ Colouring(t)'
      BY <2>1, <2>3 DEF Colouring, Console!At
  <2> QED BY <1>1, <2>1, <2>3, <2>4
<1>6. ASSUME NEW t \in Threads, Console!SetColor(t)
      PROVE  ColourInv' /\ (OneSink => OrigInv')
  <2>1. /\ call[t].pc = "color"
        /\ call' = [call EXCEPT ![t].pc = "range", ![t].orig = attributes]
      BY <1>6 DEF Console!SetColor, Console!At
  <2>2. call[t] \in Writing
      BY <2>1, Busy DEF ConsoleInv, Console!At
  <2>3. /\ call'[t] = [call[t] EXCEPT !.pc = "range", !.orig = attributes]
        /\ \A u \in Threads \ {t} : call'[u] = call[u]
      BY <2>1 DEF ConsoleInv, ConsoleTypes
  <2>4. call'[t].pc = "range" /\ call'[t].orig = attributes
      BY <2>2, <2>3 DEF Writing
  <2>5. Colouring(t)'
      BY <2>4 DEF Colouring, Console!At
  <2>6. ASSUME OneSink
        PROVE  OrigInv'
    <3>1. \A u \in Threads : ~Colouring(u)
      <4> SUFFICES ASSUME NEW u \in Threads, Colouring(u)
                   PROVE  FALSE
          OBVIOUS
      <4>1. Holds(u) /\ Holds(t)
          BY <2>1 DEF Holds, Colouring, Console!At
      <4>2. u = t
          BY <2>6, <4>1, Alone
      <4> QED BY <2>1, <4>2 DEF Colouring, Console!At
    <3>2. attributes = Default
        BY <3>1 DEF ColourInv
    <3> QED BY <2>3, <2>4, <3>1, <3>2 DEF OrigInv, Colouring, Console!At
  <2> QED BY <2>5, <2>6 DEF ColourInv
<1>7. ASSUME NEW t \in Threads, Console!ResetColor(t)
      PROVE  ColourInv' /\ (OneSink => OrigInv')
  <2>1. /\ call[t].pc = "reset" /\ Console!Go(t, "after")
        /\ attributes' = IF Kind = "wincolor" THEN call[t].orig ELSE Default
      BY <1>7 DEF Console!ResetColor, Console!At, Console!AfterCode, Console!ResetCode
  <2>2. call[t] \in Writing /\ Colouring(t)
      BY <2>1, Busy DEF ConsoleInv, Console!At, Colouring
  <2>3. /\ call'[t].pc = "after"
        /\ \A u \in Threads \ {t} : call'[u] = call[u]
      BY <2>1, <2>2, Goes DEF ConsoleInv, Labels
  <2>4. attributes' = Default
      BY <2>1, <2>2 DEF OrigInv, Console!ConsoleAssumption
  <2>5. \A u \in Threads : Colouring(u)' => Colouring(u) /\ call'[u] = call[u]
      BY <2>3 DEF Colouring, Console!At
  <2> QED BY <2>4, <2>5 DEF ColourInv, OrigInv
<1>8. ASSUME NEW t \in Threads, Console!Unlock(t)
      PROVE  ColourInv' /\ (OneSink => OrigInv')
  <2>1. /\ call[t].pc = "unlock" /\ call' = [call EXCEPT ![t] = Console!Idle]
        /\ attributes' = attributes
      BY <1>8 DEF Console!Unlock, Console!At
  <2>2. /\ call' \in [Threads -> {Console!Idle} \union Writing]
        /\ call'[t].pc = "idle"
        /\ \A u \in Threads \ {t} : call'[u] = call[u]
      BY <2>1 DEF ConsoleInv, ConsoleTypes, Console!Idle
  <2>3. ~Colouring(t) /\ ~Colouring(t)'
      BY <2>1, <2>2 DEF Colouring, Console!At
  <2> QED BY <1>1, <2>1, <2>2, <2>3
<1>9. ASSUME NEW t \in Threads, NEW s \in Sinks, NEW l \in Console!Levels,
             NEW ranged \in BOOLEAN, Console!Log(t, s, l, ranged)
      PROVE  ColourInv' /\ (OneSink => OrigInv')
  <2> DEFINE c == [pc |-> "lock", sink |-> s, id |-> sent + 1, level |-> l,
                   ranged |-> ranged, orig |-> Default]
  <2>1. /\ call[t].pc = "idle" /\ call' = [call EXCEPT ![t] = c] /\ attributes' = attributes
      BY <1>9 DEF Console!Log, Console!At
  <2>2. c \in Writing /\ c.pc = "lock"
      BY DEF Writing, Labels, Bits, ConsoleInv, ConsoleTypes
  <2> HIDE DEF c
  <2>3. /\ call' \in [Threads -> {Console!Idle} \union Writing]
        /\ call'[t].pc = "lock"
        /\ \A u \in Threads \ {t} : call'[u] = call[u]
      BY <2>1, <2>2 DEF ConsoleInv, ConsoleTypes
  <2>4. ~Colouring(t) /\ ~Colouring(t)'
      BY <2>1, <2>3 DEF Colouring, Console!At
  <2> QED BY <1>1, <2>1, <2>3, <2>4
<1> QED BY <1>2, <1>4, <1>5, <1>6, <1>7, <1>8, <1>9 DEF Console!Next

(* Pieces that are shown stay, and those of a step are its thread's.       *)
LEMMA Shows ==
    ASSUME ConsoleInv, [Console!Next]_(Console!vars)
    PROVE  \/ screen' = screen
           \/ \E t \in Threads : \E p \in Seq(Pieces) :
                 /\ call[t] \in Writing /\ Holds(t)
                 /\ Console!print_range(t, p)
                 /\ \A u \in Threads : call'[u].id = call[u].id /\ (Holds(u)' => Holds(u))
                 /\ Colouring(t) => \A k \in DOMAIN p : p[k] = "range"
<1>1. ASSUME NEW t \in Threads, Console!PrintPlain(t) \/ Console!PrintBefore(t)
                \/ Console!PrintRange(t) \/ Console!PrintAfter(t)
      PROVE  \E p \in Seq(Pieces) :
                 /\ call[t] \in Writing /\ Holds(t)
                 /\ Console!print_range(t, p)
                 /\ \A u \in Threads : call'[u].id = call[u].id /\ (Holds(u)' => Holds(u))
                 /\ Colouring(t) => \A k \in DOMAIN p : p[k] = "range"
  <2>1. /\ call[t] \in Writing /\ Holds(t)
        /\ \A u \in Threads : call'[u].id = call[u].id
        /\ \A u \in Threads \ {t} : call'[u] = call[u]
      BY <1>1, Continues
  <2>2. \A u \in Threads : Holds(u)' => Holds(u)
      BY <2>1 DEF Holds, Console!At
  <2>3. CASE Console!PrintPlain(t) \/ Console!PrintBefore(t) \/ Console!PrintAfter(t)
    <3>1. ~Colouring(t)
        BY <2>3 DEF Console!PrintPlain, Console!PrintBefore, Console!PrintAfter, Colouring,
                    Console!At
    <3>2. <<"before">> \in Seq(Pieces) /\ <<"after">> \in Seq(Pieces)
        BY PiecesFit DEF Pieces
    <3>3. \E p \in Seq(Pieces) : Console!print_range(t, p)
        BY <2>3, <3>2, PiecesFit
           DEF Console!PrintPlain, Console!PrintBefore, Console!PrintAfter
    <3> QED BY <2>1, <2>2, <3>1, <3>3
  <2>4. CASE Console!PrintRange(t)
    <3>1. Console!print_range(t, <<"range">>)
        BY <2>4 DEF Console!PrintRange
    <3>2. <<"range">> \in Seq(Pieces)
        BY PiecesFit DEF Pieces
    <3>3. \A k \in DOMAIN <<"range">> : <<"range">>[k] = "range"
        OBVIOUS
    <3> QED BY <2>1, <2>2, <3>1, <3>2, <3>3
  <2> QED BY <1>1, <2>3, <2>4
<1>2. ASSUME NEW t \in Threads, \/ Console!Lock(t) \/ Console!SetColor(t)
                                \/ Console!ResetColor(t) \/ Console!Unlock(t)
                                \/ \E s \in Sinks, l \in Console!Levels, ranged \in BOOLEAN :
                                      Console!Log(t, s, l, ranged)
      PROVE  screen' = screen
    BY <1>2 DEF Console!Lock, Console!SetColor, Console!ResetColor, Console!Unlock, Console!Log
<1>3. CASE UNCHANGED Console!vars
    BY <1>3 DEF Console!vars
<1> QED BY <1>1, <1>2, <1>3 DEF Console!Next

(* What is printed outside the range has the attributes of the console.    *)
LEMMA PlainNextInv ==
    ASSUME ConsoleInv, OneSink, ColourInv, Console!RestIsPlain, [Console!Next]_(Console!vars)
    PROVE  Console!RestIsPlain'
<1>1. CASE screen' = screen
    BY <1>1 DEF Console!RestIsPlain
<1>2. ASSUME NEW t \in Threads, NEW p \in Seq(Pieces), call[t] \in Writing, Holds(t),
             Console!print_range(t, p), Colouring(t) => \A k \in DOMAIN p : p[k] = "range"
      PROVE  Console!RestIsPlain'
  <2> SUFFICES ASSUME NEW i \in DOMAIN screen', screen'[i].part # "range"
               PROVE  screen'[i].attributes = Default
      BY DEF Console!RestIsPlain
  <2>1. \/ i \in DOMAIN screen /\ screen'[i] = screen[i]
        \/ /\ i - Len(screen) \in DOMAIN p /\ screen'[i].part = p[i - Len(screen)]
           /\ screen'[i].attributes = attributes
      BY <1>2, Printed DEF ConsoleInv
  <2>2. CASE i \in DOMAIN screen /\ screen'[i] = screen[i]
      BY <2>2 DEF Console!RestIsPlain
  <2>3. CASE /\ i - Len(screen) \in DOMAIN p /\ screen'[i].part = p[i - Len(screen)]
             /\ screen'[i].attributes = attributes
    <3>1. ~Colouring(t)
        BY <1>2, <2>3
    <3>2. \A u \in Threads : Colouring(u) => Holds(u)
        BY DEF Colouring, Holds, Console!At
    <3>3. \A u \in Threads : ~Colouring(u)
        BY <1>2, <3>1, <3>2, Alone
    <3> QED BY <2>3, <3>3 DEF ColourInv
  <2> QED BY <2>1, <2>2, <2>3
<1> QED BY <1>1, <1>2, Shows

(* Nothing is printed between the pieces of a message.                     *)
LEMMA WholeNextInv ==
    ASSUME ConsoleInv, OneSink, WholeInv, Console!MessagesAreWhole,
           [Console!Next]_(Console!vars)
    PROVE  WholeInv' /\ Console!MessagesAreWhole'
<1>1. ASSUME screen' = screen,
             \A t \in Threads : Holds(t)' => \/ Holds(t) /\ call'[t].id = call[t].id
                                             \/ Console!At(t, "lock") /\ call'[t].id = call[t].id
      PROVE  WholeInv' /\ Console!MessagesAreWhole'
  <2>1. Console!MessagesAreWhole'
      BY <1>1 DEF Console!MessagesAreWhole
  <2>2. ASSUME NEW t \in Threads, Console!At(t, "lock"), NEW i \in DOMAIN screen
        PROVE  screen[i].id # call[t].id
    <3>1. ShownSoFar("lock") = {}
        BY DEF ShownSoFar
    <3> QED BY <2>2, <3>1 DEF ConsoleInv, PiecesInv, Console!At
  <2>3. WholeInv'
      BY <1>1, <2>2 DEF WholeInv
  <2> QED BY <2>1, <2>3
<1>2. ASSUME NEW t \in Threads, NEW p \in Seq(Pieces), call[t] \in Writing, Holds(t),
             Console!print_range(t, p),
             \A u \in Threads : call'[u].id = call[u].id /\ (Holds(u)' => Holds(u))
      PROVE  WholeInv' /\ Console!MessagesAreWhole'
  <2>1. /\ screen' \in Seq(Shown)
        /\ \A i \in DOMAIN screen' :
              \/ i \in DOMAIN screen /\ screen'[i] = screen[i]
              \/ i > Len(screen) /\ screen'[i].id = call[t].id
        /\ \A i \in DOMAIN screen' : i \in Nat
        /\ \A i \in DOMAIN screen : i <= Len(screen)
        /\ Len(screen) \in Nat
      BY <1>2, Printed DEF ConsoleInv
  <2>2. DOMAIN screen' = 1 .. Len(screen') /\ Len(screen') \in Nat
      BY <2>1, LenProperties
  <2>3. ASSUME NEW i \in DOMAIN screen', NEW k \in DOMAIN screen', i < k,
               screen'[i].id = call[t].id
        PROVE  screen'[k].id = call[t].id
    <3>1. CASE i \in DOMAIN screen /\ screen'[i] = screen[i]
               /\ k \in DOMAIN screen /\ screen'[k] = screen[k]
        BY <1>2, <2>3, <3>1 DEF WholeInv
    <3>2. CASE screen'[k].id = call[t].id
        BY <3>2
    <3>3. ~(i > Len(screen) /\ k \in DOMAIN screen)
        BY <2>1, <2>3
    <3> QED BY <2>1, <3>1, <3>2, <3>3
  <2>4. WholeInv'
    <3> SUFFICES ASSUME NEW u \in Threads, Holds(u)',
                        NEW i \in DOMAIN screen', NEW k \in DOMAIN screen', i < k,
                        screen'[i].id = call[u].id
                 PROVE  screen'[k].id = call[u].id
        BY <1>2 DEF WholeInv
    <3>1. u = t
        BY <1>2, Alone
    <3> QED BY <2>3, <3>1
  <2>5. Console!MessagesAreWhole'
    <3> SUFFICES ASSUME NEW i \in DOMAIN screen', NEW j \in DOMAIN screen', i < j,
                        screen'[i].id = screen'[j].id, NEW k \in i .. j
                 PROVE  screen'[k].id = screen'[i].id
        BY DEF Console!MessagesAreWhole
    <3>1. k \in DOMAIN screen' /\ i <= k /\ k <= j
        BY <2>2
    <3>2. CASE j \in DOMAIN screen /\ screen'[j] = screen[j]
      <4>1. i \in DOMAIN screen /\ screen'[i] = screen[i]
          BY <2>1, <3>1, <3>2
      <4>2. k \in DOMAIN screen /\ screen'[k] = screen[k]
          BY <2>1, <3>1, <3>2
      <4> QED BY <3>1, <3>2, <4>1, <4>2 DEF Console!MessagesAreWhole
    <3>3. CASE screen'[j].id = call[t].id
        BY <2>1, <2>3, <3>1, <3>3
    <3> QED BY <2>1, <3>2, <3>3
  <2> QED BY <2>4, <2>5
<1>3. CASE UNCHANGED Console!vars
    BY <1>1, <1>3 DEF Console!vars, Holds, Console!At
<1>4. ASSUME NEW t \in Threads, Console!Lock(t)
      PROVE  WholeInv' /\ Console!MessagesAreWhole'
  <2>1. /\ Console!At(t, "lock") /\ screen' = screen
        /\ \E label \in {"before", "plain"} : Console!Go(t, label)
      BY <1>4 DEF Console!Lock
  <2>2. call[t] \in Writing
      BY <2>1, Busy DEF ConsoleInv, Console!At
  <2>3. call'[t].id = call[t].id /\ \A u \in Threads \ {t} : call'[u] = call[u]
      BY <2>1, <2>2, Goes DEF ConsoleInv, Labels
  <2>4. \A u \in Threads \ {t} : Holds(u)' => Holds(u)
      BY <2>3 DEF Holds, Console!At
  <2> QED BY <1>1, <2>1, <2>3, <2>4
<1>5. ASSUME NEW t \in Threads, Console!SetColor(t) \/ Console!ResetColor(t)
      PROVE  WholeInv' /\ Console!MessagesAreWhole'
  <2>1. screen' = screen
      BY <1>5 DEF Console!SetColor, Console!ResetColor
  <2>2. /\ Holds(t) /\ call'[t].id = call[t].id
        /\ \A u \in Threads \ {t} : call'[u] = call[u]
      BY <1>5, Continues
  <2>3. \A u \in Threads \ {t} : Holds(u)' => Holds(u)
      BY <2>2 DEF Holds, Console!At
  <2> QED BY <1>1, <2>1, <2>2, <2>3
<1>6. ASSUME NEW t \in Threads,
             \/ Console!Unlock(t)
             \/ \E s \in Sinks, l \in Console!Levels, ranged \in BOOLEAN :
                   Console!Log(t, s, l, ranged)
      PROVE  WholeInv' /\ Console!MessagesAreWhole'
  <2>1. /\ screen' = screen
        /\ call'[t].pc \in {"idle", "lock"}
        /\ \A u \in Threads \ {t} : call'[u] = call[u]
    <3>1. CASE Console!Unlock(t)
        BY <3>1 DEF Console!Unlock, ConsoleInv, ConsoleTypes, Console!Idle
    <3>2. ASSUME NEW s \in Sinks, NEW l \in Console!Levels, NEW ranged \in BOOLEAN,
                 Console!Log(t, s, l, ranged)
          PROVE  /\ screen' = screen
                 /\ call'[t].pc \in {"idle", "lock"}
                 /\ \A u \in Threads \ {t} : call'[u] = call[u]
        BY <3>2 DEF Console!Log, ConsoleInv, ConsoleTypes
    <3> QED BY <1>6, <3>1, <3>2
  <2>2. \A u \in Threads : Holds(u)' => Holds(u) /\ call'[u] = call[u]
      BY <2>1 DEF Holds, Console!At
  <2> QED BY <1>1, <2>1, <2>2
<1>7. CASE screen' # screen
    BY <1>2, <1>7, Shows
<1>8. ASSUME NEW t \in Threads, screen' = screen,
             Console!PrintPlain(t) \/ Console!PrintBefore(t)
                \/ Console!PrintRange(t) \/ Console!PrintAfter(t)
      PROVE  WholeInv' /\ Console!MessagesAreWhole'
  <2>1. /\ Holds(t) /\ call'[t].id = call[t].id
        /\ \A u \in Threads \ {t} : call'[u] = call[u]
      BY <1>8, Continues
  <2>2. \A u \in Threads \ {t} : Holds(u)' => Holds(u)
      BY <2>1 DEF Holds, Console!At
  <2> QED BY <1>1, <1>8, <2>1, <2>2
<1> QED BY <1>3, <1>4, <1>5, <1>6, <1>7, <1>8 DEF Console!Next

(* At first nobody writes.                                                 *)
LEMMA ConsoleInitInv ==
    ASSUME Console!ConsoleAssumption, Console!Init
    PROVE  ConsoleInv /\ ColourInv /\ OrigInv /\ WholeInv
<1>1. ConsoleTypes
    BY DEF ConsoleTypes, Console!Init, Bits
<1>2. \A t \in Threads : Console!At(t, "idle") /\ ~Holds(t) /\ ~Colouring(t)
    BY DEF Console!Init, Console!At, Holds, Colouring, Console!Idle
<1>3. Holding
    BY <1>2 DEF Holding, Console!Init, Console!ConsoleAssumption
<1>4. NumbersInv /\ PiecesInv /\ Console!PartsInOrder
    BY <1>2 DEF NumbersInv, PiecesInv, Console!PartsInOrder, Console!Init
<1>5. ColourInv /\ OrigInv /\ WholeInv
    BY <1>2 DEF ColourInv, OrigInv, WholeInv, Console!Init
<1> QED BY <1>1, <1>3, <1>4, <1>5 DEF ConsoleInv

(* A mutex is held by the thread that writes to its sink and by no other,  *)
(* and every message is shown once, its pieces in their order.             *)
THEOREM PiecesComeInOrder ==
    ASSUME Console!ConsoleAssumption
    PROVE  Console!Spec => [](Console!TypeOK /\ Console!PartsInOrder)
<1>1. ConsoleInv => Console!TypeOK /\ Console!PartsInOrder
    BY DEF ConsoleInv, ConsoleTypes, Holding, Holds, Console!TypeOK, Bits
<1> QED BY <1>1, ConsoleInitInv, ConsoleNextInv, PTL DEF Console!Spec

(* The console has its own attributes when nobody writes: of any number of *)
(* sinks with escape codes, and of a single one of Windows.                *)
THEOREM OrigColorsComeBack ==
    ASSUME Console!ConsoleAssumption, OneSink \/ Kind = "ansicolor"
    PROVE  Console!Spec => []Console!OrigColors
<1>1. ColourInv => Console!OrigColors
    BY DEF ColourInv, Colouring, Console!OrigColors, Console!At
<1>2. Console!Init => ConsoleInv /\ ColourInv /\ (OneSink => OrigInv)
    BY ConsoleInitInv
<1>3. ConsoleInv /\ ColourInv /\ (OneSink => OrigInv) /\ [Console!Next]_(Console!vars)
          => (ConsoleInv /\ ColourInv /\ (OneSink => OrigInv))'
    BY ConsoleNextInv, ColoursAndOrig
<1> QED BY <1>1, <1>2, <1>3, PTL DEF Console!Spec

(* With a single sink no message is interrupted by another, and only what  *)
(* is to be coloured is.                                                   *)
THEOREM OneSinkKeepsMessages ==
    ASSUME Console!ConsoleAssumption, OneSink
    PROVE  Console!Spec => [](Console!MessagesAreWhole /\ Console!RestIsPlain)
<1> DEFINE I == /\ ConsoleInv /\ ColourInv /\ (OneSink => OrigInv) /\ WholeInv
                /\ Console!MessagesAreWhole /\ Console!RestIsPlain
<1>1. Console!Init => I
    BY ConsoleInitInv DEF Console!Init, Console!MessagesAreWhole, Console!RestIsPlain
<1>2. I /\ [Console!Next]_(Console!vars) => I'
    BY ConsoleNextInv, ColoursAndOrig, WholeNextInv, PlainNextInv
<1>3. I => Console!MessagesAreWhole /\ Console!RestIsPlain
    OBVIOUS
<1> HIDE DEF I
<1> QED BY <1>1, <1>2, <1>3, PTL DEF Console!Spec

-----------------------------------------------------------------------------
(* The offset from UTC.  A message's time is at least what an offset is    *)
(* kept for, so that the first one finds the cache too old; and the cache  *)
(* is never newer than the newest message.                                 *)
OffsetInv ==
    /\ now \in cache_refresh .. MaxTime
    /\ msgTime \in [Threads -> {Offset!NoTime} \union cache_refresh .. MaxTime]
    /\ last_update \in 0 .. MaxTime
    /\ offset_minutes =
           IF last_update = 0 THEN 0 ELSE Offset!utc_minutes_offset(last_update)
    /\ newest \in {Offset!NoTime} \union 0 .. MaxTime
    /\ last_update # 0 => last_update <= newest
    /\ Offset!OffsetIsRecent

(* A line is formatted with an offset that is new or new enough.           *)
LEMMA OffsetFormats ==
    ASSUME OffsetInv, Offset!OffsetAssumption, NEW t \in Threads, Offset!Format(t)
    PROVE  OffsetInv'
<1> DEFINE time == msgTime[t]
<1>1. /\ time \in cache_refresh .. MaxTime /\ now' = now
      /\ Offset!get_cached_offset(time)
      /\ line' = [time |-> time, offset |-> offset_minutes']
      /\ newest' = IF time > newest THEN time ELSE newest
      /\ msgTime' = [msgTime EXCEPT ![t] = Offset!NoTime]
    BY DEF OffsetInv, Offset!Format
<1>2. cache_refresh \in Nat \ {0} /\ MaxTime \in Nat
    BY DEF Offset!OffsetAssumption
<1> HIDE DEF time
<1>3. /\ newest' \in 0 .. MaxTime /\ time <= newest'
      /\ \A n \in 0 .. MaxTime : n <= newest => n <= newest'
  <2>1. newest \in {-1} \union 0 .. MaxTime
      BY DEF OffsetInv, Offset!NoTime
  <2>2. CASE time > newest
      BY <1>1, <1>2, <2>1, <2>2
  <2>3. CASE ~(time > newest)
      BY <1>1, <1>2, <2>1, <2>3
  <2> QED BY <2>2, <2>3
<1>4. /\ last_update' \in 0 .. newest' /\ last_update' \in 1 .. MaxTime
      /\ last_update' > time - cache_refresh
      /\ offset_minutes' = Offset!utc_minutes_offset(last_update')
  <2>1. last_update \in 0 .. MaxTime
      BY DEF OffsetInv
  <2>2. CASE time - last_update >= cache_refresh
    <3>1. offset_minutes' = Offset!utc_minutes_offset(time) /\ last_update' = time
        BY <1>1, <2>2 DEF Offset!get_cached_offset
    <3>2. time \in Int /\ time >= 1 /\ time <= MaxTime /\ time > time - cache_refresh
        BY <1>1, <1>2
    <3> QED BY <1>2, <1>3, <3>1, <3>2
  <2>3. CASE ~(time - last_update >= cache_refresh)
    <3>1. offset_minutes' = offset_minutes /\ last_update' = last_update
        BY <1>1, <2>3 DEF Offset!get_cached_offset
    <3>2. last_update # 0 /\ last_update > time - cache_refresh
        BY <1>1, <1>2, <2>1, <2>3
    <3>3. last_update <= newest'
        BY <1>3, <2>1, <3>2 DEF OffsetInv
    <3> QED BY <1>2, <1>3, <2>1, <3>1, <3>2, <3>3 DEF OffsetInv
  <2> QED BY <2>2, <2>3
<1>5. Offset!OffsetIsRecent'
  <2>1. line'.time = time /\ line'.offset = offset_minutes'
      BY <1>1
  <2> QED BY <1>4, <2>1 DEF Offset!OffsetIsRecent
<1>6. msgTime' \in [Threads -> {Offset!NoTime} \union cache_refresh .. MaxTime]
    BY <1>1 DEF OffsetInv
<1>7. last_update' # 0 /\ last_update' \in 0 .. MaxTime /\ last_update' <= newest'
    BY <1>2, <1>3, <1>4
<1>8. now' \in cache_refresh .. MaxTime
    BY <1>1 DEF OffsetInv
<1> QED BY <1>3, <1>4, <1>5, <1>6, <1>7, <1>8 DEF OffsetInv

(* A line shows the offset of a time less than cache_refresh before that   *)
(* of its message, or of a later message that was formatted before it.     *)
THEOREM OffsetsAreRecent ==
    ASSUME Offset!OffsetAssumption
    PROVE  Offset!Spec => [](Offset!TypeOK /\ Offset!OffsetIsRecent)
<1>0. cache_refresh \in Nat \ {0} /\ MaxTime \in Nat
    BY DEF Offset!OffsetAssumption
<1>1. Offset!Init => OffsetInv
    BY <1>0 DEF Offset!Init, OffsetInv, Offset!OffsetIsRecent, Offset!Formatted, Offset!NoTime
<1>2. OffsetInv /\ [Offset!Next]_(Offset!vars) => OffsetInv'
  <2> SUFFICES ASSUME OffsetInv, [Offset!Next]_(Offset!vars) PROVE OffsetInv'
      OBVIOUS
  <2>1. CASE UNCHANGED Offset!vars
      BY <2>1 DEF Offset!vars, OffsetInv, Offset!OffsetIsRecent, Offset!Formatted,
                  Offset!utc_minutes_offset, Offset!IsDst
  <2>2. CASE Offset!TimePasses
    <3>1. now' \in cache_refresh .. MaxTime
        BY <1>0, <2>2 DEF Offset!TimePasses, OffsetInv
    <3> QED BY <2>2, <3>1 DEF Offset!TimePasses, OffsetInv, Offset!OffsetIsRecent,
               Offset!Formatted, Offset!utc_minutes_offset, Offset!IsDst
  <2>3. ASSUME NEW t \in Threads, Offset!Log(t)
        PROVE  OffsetInv'
    <3>1. msgTime' \in [Threads -> {Offset!NoTime} \union cache_refresh .. MaxTime]
        BY <2>3 DEF Offset!Log, OffsetInv
    <3> QED BY <2>3, <3>1 DEF Offset!Log, OffsetInv, Offset!OffsetIsRecent,
               Offset!Formatted, Offset!utc_minutes_offset, Offset!IsDst
  <2> QED BY <2>1, <2>2, <2>3, OffsetFormats DEF Offset!Next
<1>3. OffsetInv => Offset!TypeOK /\ Offset!OffsetIsRecent
  <2> SUFFICES ASSUME OffsetInv PROVE Offset!TypeOK /\ Offset!OffsetIsRecent
      OBVIOUS
  <2>1. \A n \in cache_refresh .. MaxTime : n \in 0 .. MaxTime
      BY <1>0
  <2> QED BY <2>1 DEF OffsetInv, Offset!TypeOK
<1> QED BY <1>1, <1>2, <1>3, PTL DEF Offset!Spec
=============================================================================
