----------------------------- MODULE MCLogging ------------------------------
(***************************************************************************)
(* The parts of the logging library that several threads use, in small     *)
(* instances. The parts have no state in common, so that a property of one *)
(* of them cannot tell whether the others take steps: in a behaviour one   *)
(* part does, whichever it is, and the others stay as they begin.          *)
(***************************************************************************)
EXTENDS Integers, Sequences, TLC

CONSTANTS
    ActiveParts,    \* the parts that may be the one that takes steps
    MaxItems,       \* size of the queue
    MaxCalls,       \* bound: calls of a thread of the queue or of a client
    MaxLogged,      \* bound: calls of the first thread of the logger, and of a
                    \* thread of the registry
    RegistryThreads,
    RegistryNames,
    MaxSetting      \* bound: values a setting of the registry may be given

VARIABLES
    part,
    q, pc, calls, refused, pushed, popped,
    asyncQ, clientCalls, clientPc, worker, current, owner, written, flushed,
    elapsed, accepted, handled, discarded, unformatted,
    mutex, loggers, settings, queueSize, obj, call, regCalls, thrown, files,
    own,
    level, list, holder, stack, doing, msg, logCalls, out, outFlushed, now,
    lastErr, seenTime, failed, reports,
    attributes, screen, sinkMutex, sinkCall, sent,
    offsetNow, msgTime, last_update, offset_minutes, line, newest

\* Producers that meet a full queue, and more than one consumer to wake up.
Queue == INSTANCE BoundedQueue WITH
    Producers <- {"p1", "p2"}, Consumers <- {"c1", "c2"}

\* Clients of an asynchronous logger with two sinks, of which one may throw and
\* only wants grave messages: two that wait for room, and one that does not.
AsyncSinkLevel == [console |-> 2, file |-> 1]

Waiting == INSTANCE AsyncLogHelper WITH
    Clients <- {"c1", "c2"}, Sinks <- {"console", "file"},
    SinkLevel <- AsyncSinkLevel, MayFail <- {"console"}, Levels <- {1, 2},
    FlushLevel <- 2, BlockRetry <- TRUE, FlushInterval <- 1,
    q <- asyncQ, calls <- clientCalls, pc <- clientPc

Discarding == INSTANCE AsyncLogHelper WITH
    Clients <- {"c1"}, MaxItems <- 1, MaxCalls <- MaxLogged + 1, Sinks <- {"console", "file"},
    SinkLevel <- AsyncSinkLevel, MayFail <- {"console"}, Levels <- {1, 2},
    FlushLevel <- 2, BlockRetry <- FALSE, FlushInterval <- 1,
    q <- asyncQ, calls <- clientCalls, pc <- clientPc

\* Threads that want the same name.
Registry == INSTANCE Registry WITH
    Threads <- RegistryThreads, NoThread <- "none", Names <- RegistryNames,
    MaxValue <- MaxSetting, MaxCalls <- MaxLogged, calls <- regCalls, written <- files

\* A logger with a distribution sink in front of two others; the first of
\* the sinks only takes grave messages, and one behind the distribution sink
\* may throw.
LoggerSinkLevel == [console |-> 2, dist |-> 1, file |-> 1, x |-> 1, y |-> 1]

LoggerThreads == {"t1", "t2"}

Logger == INSTANCE Logger WITH
    Threads <- LoggerThreads, Logger <- "logger", DistSink <- "dist",
    Sinks <- {"console", "file", "x", "y"},
    LoggerSinks <- <<"dist", "console", "file">>, InitialList <- <<"x", "y">>,
    SinkLevel <- LoggerSinkLevel, MayFail <- {"y"}, Levels <- {1, 2},
    FlushLevel <- 2, Minute <- 2, MaxTime <- 2,
    MaxCalls <- [t1 |-> MaxLogged, t2 |-> 1],
    calls <- logCalls, flushed <- outFlushed

\* Green on the background there is and white on red, on a console that
\* begins white on blue. Threads of one sink of Windows, and sinks of two
\* streams of a terminal with escape codes.
WinConsole == INSTANCE ConsoleSinks WITH
    Threads <- {"t1", "t2", "t3"}, Sinks <- {"out"}, Kind <- "wincolor",
    Foreground <- {"green", "white"}, Default <- {"white", "on blue"},
    colors <- [info |-> {"green"}, critical |-> {"white", "on red"}],
    ShouldDoColors <- FALSE, MaxMessages <- 3,
    mutex <- sinkMutex, call <- sinkCall

Terminal == INSTANCE ConsoleSinks WITH
    Threads <- {"t1", "t2", "t3"}, Sinks <- {"out", "err"}, Kind <- "ansicolor",
    Foreground <- {"green", "white"}, Default <- {"white", "on blue"},
    colors <- [info |-> {"green"}, critical |-> {"white", "on red"}],
    ShouldDoColors <- TRUE, MaxMessages <- 2,
    mutex <- sinkMutex, call <- sinkCall

\* The change to summer time, in a zone two hours behind UTC.
Offset == INSTANCE OffsetFormatter WITH
    Threads <- {"t1", "t2"}, cache_refresh <- 3, Bias <- 2,
    DaylightSaving <- 1, SummerStart <- 6, PatternTime <- "local",
    MaxTime <- 12, now <- offsetNow

ASSUME LoggingAssumption ==
    /\ Queue!QueueAssumption
    /\ Waiting!HelperAssumption /\ Discarding!HelperAssumption
    /\ Registry!RegistryAssumption
    /\ Logger!LoggerAssumption
    /\ WinConsole!ConsoleAssumption /\ Terminal!ConsoleAssumption
    /\ Offset!OffsetAssumption

queueVars == <<q, pc, calls, refused, pushed, popped>>
asyncVars == <<asyncQ, clientCalls, clientPc, worker, current, owner, written,
               flushed, elapsed, accepted, handled, discarded, unformatted>>
registryVars == <<mutex, loggers, settings, queueSize, obj, call, regCalls,
                  thrown, files, own>>
loggerVars == <<level, list, holder, stack, doing, msg, logCalls, out,
                outFlushed, now, lastErr, seenTime, failed, reports>>
consoleVars == <<attributes, screen, sinkMutex, sinkCall, sent>>
offsetVars == <<offsetNow, msgTime, last_update, offset_minutes, line, newest>>

vars == <<part, queueVars, asyncVars, registryVars, loggerVars, consoleVars,
          offsetVars>>

Init ==
    /\ part \in ActiveParts
    /\ Queue!Init
    /\ IF part = "discarding" THEN Discarding!Init ELSE Waiting!Init
    /\ Registry!Init
    /\ Logger!Init
    /\ IF part = "terminal" THEN Terminal!Init ELSE WinConsole!Init
    /\ Offset!Init
    /\ part # "offset" => offsetNow = 3

\* What the step of a part leaves as it is.
Others(p) ==
    /\ UNCHANGED part
    /\ p # "queue" => UNCHANGED queueVars
    /\ p # "async" => UNCHANGED asyncVars
    /\ p # "registry" => UNCHANGED registryVars
    /\ p # "logger" => UNCHANGED loggerVars
    /\ p # "console" => UNCHANGED consoleVars
    /\ p # "offset" => UNCHANGED offsetVars

Next ==
    \/ part = "queue" /\ Queue!Next /\ Others("queue")
    \/ part = "waiting" /\ Waiting!Next /\ Others("async")
    \/ part = "discarding" /\ Discarding!Next /\ Others("async")
    \/ part = "registry" /\ Registry!Next /\ Others("registry")
    \/ part = "logger" /\ Logger!Next /\ Others("logger")
    \/ part = "console" /\ WinConsole!Next /\ Others("console")
    \/ part = "terminal" /\ Terminal!Next /\ Others("console")
    \/ part = "offset" /\ Offset!Next /\ Others("offset")

Spec == Init /\ [][Next]_vars

-----------------------------------------------------------------------------
\* The bounded queue hands on every item in its order, no wake-up is lost
\* although notify_one comes after the mutex was given up, and the threads never
\* all wait for one another. The asynchronous
\* logger gives its sinks, whatever others of them throw, each message of their
\* level in order, flushes when a message asks for it, and leaves nothing
\* unwritten or unflushed when it is destroyed.
AsyncLoggingLosesNothing ==
    /\ Queue!TypeOK
    /\ Queue!FirstInFirstOut
    /\ Queue!ProducersKeepOrder
    /\ Queue!NoWakeUpIsLost
    /\ Queue!NotAllWait
    /\ IF part = "discarding"
       THEN /\ Discarding!TypeOK
            /\ Discarding!SinksGetTheirMessages
            /\ Discarding!DestructionDrains
       ELSE /\ Waiting!TypeOK
            /\ Waiting!SinksGetTheirMessages
            /\ Waiting!DestructionDrains
            /\ part = "waiting" => Waiting!GraveMessagesAreFlushed

\* The registry: a level, flush level or formatter set for all loggers reaches
\* the one that is being created, too.
SettingsReachEveryLogger ==
    /\ Registry!TypeOK
    /\ Registry!SettingsReachEveryLogger

\* The registry: of two threads that create a name at the same time one is told
\* so, and the name keeps its logger.
NoLoggerIsReplaced == [][Registry!LoggersStay]_vars

\* The logger: a call that threw nothing has reached every sink that wants it,
\* a grave message is flushed when its call is over, and the sinks behind a
\* distribution sink agree on the order of messages, while other threads write,
\* flush, and change its list. The UTC offset of a line is not older than the
\* cache may be.
LinesArrive ==
    /\ Logger!TypeOK
    /\ Logger!LoggedEverywhere
    /\ Logger!GraveMessagesAreFlushed
    /\ Logger!DistSinkKeepsOrder
    /\ Offset!TypeOK
    /\ Offset!OffsetIsRecent

\* The coloured sinks: the pieces of a message come in their order without
\* others in between, only the range is coloured, and the console gets its own
\* attributes back from sinks of either kind.
ConsoleIsRestored ==
    /\ IF part = "terminal" THEN Terminal!TypeOK /\ Terminal!OrigColors
       ELSE WinConsole!TypeOK /\ WinConsole!OrigColors
    /\ WinConsole!PartsInOrder
    /\ part = "console" => WinConsole!MessagesAreWhole /\ WinConsole!RestIsPlain

-----------------------------------------------------------------------------
\* The fairness that each part states for itself. Only one of them takes steps,
\* so that strong fairness of a thread of one and of another is one condition.
FairSpec ==
    /\ Spec
    /\ \A p \in {"p1", "p2"} :
          WF_vars(part = "queue" /\ (Queue!EnqueueAgain(p) \/ Queue!NotifyOne(p)) /\ Others("queue"))
    /\ \A c \in {"c1", "c2"} : WF_vars(part = "queue" /\ Queue!ConsumerStep(c) /\ Others("queue"))
    /\ WF_vars(part = "discarding" /\ Discarding!Worker /\ Others("async"))
    /\ WF_vars(part = "discarding" /\ Discarding!TimePasses /\ Others("async"))
    /\ WF_vars(part = "discarding" /\ Discarding!Joined /\ Others("async"))
    /\ \A t \in RegistryThreads :
          WF_vars(/\ part = "registry"
                  /\ Registry!Construct(t) \/ Registry!SetNext(t) \/ Registry!EndSetting(t)
                  /\ Others("registry"))
    /\ \A t \in RegistryThreads \union LoggerThreads :
          SF_vars(\/ /\ part = "registry" /\ t \in RegistryThreads
                     /\ Registry!CheckName(t) /\ Others("registry")
                  \/ /\ part = "logger" /\ t \in LoggerThreads
                     /\ Logger!Step(t) /\ Others("logger")
                  \/ /\ part = "discarding" /\ t = "t1"
                     /\ Discarding!FlushOnLevel("c1") /\ Others("async"))

\* Calls return and what is due happens: every producer gets its item into the
\* queue as long as a consumer keeps asking, the destructor of the asynchronous
\* logger comes back, what is written is flushed within the interval, and calls
\* of the registry and the logger end, also when they throw or a sink throws
\* while others wait for the distribution sink.
CallsReturn ==
    /\ Queue!EnqueueReturns
    /\ Discarding!DestructionEnds
    /\ Discarding!WrittenIsFlushed
    /\ Registry!CallsReturn
    /\ Logger!CallsReturn

\* The asynchronous logger implements AsyncLogging.
ImplementsAsyncLogging == Discarding!ImplementsAsyncLogging
=============================================================================
