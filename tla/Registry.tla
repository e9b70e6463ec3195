------------------------------ MODULE Registry ------------------------------
(***************************************************************************)
(* The registry of loggers: names, the loggers registered under them, and  *)
(* the settings every new logger starts with.  Threads call it; its mutex  *)
(* is held for the whole of every call but set_error_handler.              *)
(*                                                                         *)
(* Only what others can see between two steps of a call is a state of its  *)
(* own: the sink that exists before the logger does, the loop over the     *)
(* loggers, the logger under construction.                                 *)
(***************************************************************************)
EXTENDS Integers, Sequences, FiniteSets, Functions

CONSTANTS
    Threads,
    NoThread,   \* nobody holds the mutex
    Names,
    MaxValue,   \* bound: values a setting may be given
    MaxCalls    \* bound: calls of a thread

\* What the constants have to be.
RegistryAssumption ==
    /\ IsFiniteSet(Threads) /\ NoThread \notin Threads
    /\ IsFiniteSet(Names)
    /\ MaxValue \in Nat /\ MaxCalls \in Nat

VARIABLES
    mutex,      \* _mutex: its holder
    loggers,    \* _loggers: from names to positions in obj
    settings,   \* _formatter, _err_handler, _level, _flush_level
    queueSize,  \* _async_q_size in _async_mode, 0 in the other
    obj,        \* the loggers ever made, with what they are set to
    call,       \* what each thread is doing
    calls,      \* how many calls it has begun
    thrown,     \* threads whose last call threw
    written,    \* names whose file has something in it
    own         \* history: <<logger, setting>> set by the user of the logger

vars == <<mutex, loggers, settings, queueSize, obj, call, calls, thrown, written, own>>

Settings == {"formatter", "err_handler", "level", "flush_on"}
Value == 0 .. MaxValue  \* 0: what it is at first
Default == [k \in Settings |-> 0]

Registered == Range(loggers)

Idle == [op |-> "idle"]

Init ==
    /\ mutex = NoThread
    /\ loggers = <<>>
    /\ settings = Default
    /\ queueSize = 0
    /\ obj = <<>>
    /\ call = [t \in Threads |-> Idle]
    /\ calls = [t \in Threads |-> 0]
    /\ thrown = {}
    /\ written = {}
    /\ own = {}

Begin(t, c) ==
    /\ call[t] = Idle
    /\ calls[t] < MaxCalls
    /\ calls' = [calls EXCEPT ![t] = @ + 1]
    /\ call' = [call EXCEPT ![t] = c]

Free == mutex = NoThread

-----------------------------------------------------------------------------
(* create and create_async.  The queue size of a logger made by create is  *)
(* the registry's.                                                         *)

(* spdlog::create makes the sink, and basic_file_sink opens its file, with *)
(* truncate empties it, before the registry is asked.                      *)
CreateSink(t) ==
    /\ \E n \in Names, async \in BOOLEAN, truncate \in BOOLEAN :
          /\ Begin(t, [op |-> "create", name |-> n, async |-> async])
          /\ written' = IF truncate THEN written \ {n} ELSE written
    /\ UNCHANGED <<mutex, loggers, settings, queueSize, obj, thrown, own>>

(* Seeded defect: the name is looked up before the mutex is taken, and     *)
(* the mutex only guards the insertion.                                    *)
CheckNameUnlocked(t) ==
    /\ call[t].op = "create"
    /\ IF call[t].name \in DOMAIN loggers
         THEN /\ call' = [call EXCEPT ![t] = Idle]
              /\ thrown' = thrown \union {t}
         ELSE /\ call' = [call EXCEPT ![t].op = "construct"]
              /\ thrown' = thrown \ {t}
    /\ UNCHANGED <<mutex, loggers, settings, queueSize, obj, calls, written, own>>

(* Seeded defect: the mutex is unlocked by hand and not on this path.      *)
CheckNameKeepingMutex(t) ==
    /\ call[t].op = "create" /\ Free
    /\ mutex' = t
    /\ IF call[t].name \in DOMAIN loggers
         THEN /\ call' = [call EXCEPT ![t] = Idle]
              /\ thrown' = thrown \union {t}
         ELSE /\ call' = [call EXCEPT ![t].op = "construct"]
              /\ thrown' = thrown \ {t}
    /\ UNCHANGED <<loggers, settings, queueSize, obj, calls, written, own>>

(* throw_if_exists, under the mutex.                                       *)
CheckName(t) ==
    /\ call[t].op = "create" /\ Free
    /\ IF call[t].name \in DOMAIN loggers
         THEN /\ call' = [call EXCEPT ![t] = Idle]
              /\ thrown' = thrown \union {t}
              /\ UNCHANGED mutex
         ELSE /\ call' = [call EXCEPT ![t].op = "construct"]
              /\ thrown' = thrown \ {t}
              /\ mutex' = t
    /\ UNCHANGED <<loggers, settings, queueSize, obj, calls, written, own>>

(* A logger is registered at the end of the list of all there ever were.   *)
Add(n, logger) ==
    /\ obj' = Append(obj, logger)
    /\ loggers' = [m \in DOMAIN loggers \union {n} |->
                     IF m = n THEN Len(obj) + 1 ELSE loggers[m]]

(* A formatter or handler the registry does not have is not handed on,     *)
(* which leaves the logger with its own: 0 stands for either.              *)
New(size, set) ==
    [k \in Settings \union {"queue"} |-> IF k = "queue" THEN size ELSE set[k]]

Construct(t) ==
    /\ call[t].op = "construct"
    /\ LET size == IF call[t].async THEN 1 ELSE queueSize
       IN  Add(call[t].name, New(size, settings))
    /\ mutex' = NoThread
    /\ call' = [call EXCEPT ![t] = Idle]
    /\ UNCHANGED <<settings, queueSize, calls, thrown, written, own>>

(* A logger of the user's making comes with settings of its own.           *)
RegisterLogger(t) ==
    /\ Free
    /\ Begin(t, Idle)
    /\ \E n \in Names :
          IF n \in DOMAIN loggers
            THEN /\ thrown' = thrown \union {t}
                 /\ UNCHANGED <<loggers, obj, own>>
            ELSE /\ thrown' = thrown \ {t}
                 /\ Add(n, New(0, Default))
                 /\ own' = own \union ({Len(obj) + 1} \X Settings)
    /\ UNCHANGED <<mutex, settings, queueSize, written>>

Drop(t) ==
    /\ Free
    /\ Begin(t, Idle)
    /\ \E gone \in {{n} : n \in Names} \union {Names} :  \* drop(n) or drop_all()
          loggers' = Restrict(loggers, DOMAIN loggers \ gone)
    /\ thrown' = thrown \ {t}
    /\ UNCHANGED <<mutex, settings, queueSize, obj, written, own>>

-----------------------------------------------------------------------------
(* Settings for all loggers.                                               *)

(* Seeded defect: the level is set without the mutex, as the handler is.   *)
LockedSometimes(k) == k \notin {"err_handler", "level"}

Locked(k) == k # "err_handler"

LockFor(t, k) ==
    IF Locked(k) THEN Free /\ mutex' = t ELSE UNCHANGED mutex

(* formatter() and set_pattern() store the setting before the loop, the    *)
(* others after it; apply_all() stores nothing.                            *)
BeginSetting(t) ==
    /\ \E k \in Settings, v \in 1 .. MaxValue :
          /\ Begin(t, [op |-> "loop", key |-> k, value |-> v, stores |-> TRUE,
                       todo |-> Registered, seen |-> {}])
          /\ LockFor(t, k)
          /\ settings' = IF k = "formatter" THEN [settings EXCEPT ![k] = v] ELSE settings
    /\ thrown' = thrown \ {t}
    /\ UNCHANGED <<loggers, queueSize, obj, written, own>>

ApplyAll(t) ==
    /\ \E k \in Settings, v \in 1 .. MaxValue :
          Begin(t, [op |-> "loop", key |-> k, value |-> v, stores |-> FALSE,
                    todo |-> Registered, seen |-> {}])
    /\ Free /\ mutex' = t
    /\ thrown' = thrown \ {t}
    /\ UNCHANGED <<loggers, settings, queueSize, obj, written, own>>

(* One round of the loop.  Without the mutex the map may change meanwhile: *)
(* a logger that comes late may be met or missed.                          *)
SetNext(t) ==
    /\ call[t].op = "loop"
    /\ \E l \in Registered \ call[t].seen :
          /\ obj' = [obj EXCEPT ![l][call[t].key] = call[t].value]
          /\ call' = [call EXCEPT ![t].seen = @ \union {l}]
          /\ own' = IF call[t].stores THEN own \ {<<l, call[t].key>>}
                                      ELSE own \union {<<l, call[t].key>>}
    /\ UNCHANGED <<mutex, loggers, settings, queueSize, calls, thrown, written>>

EndSetting(t) ==
    /\ call[t].op = "loop"
    /\ call[t].todo \intersect Registered \subseteq call[t].seen
    /\ settings' = IF call[t].stores THEN [settings EXCEPT ![call[t].key] = call[t].value]
                                     ELSE settings
    /\ mutex' = IF mutex = t THEN NoThread ELSE mutex
    /\ call' = [call EXCEPT ![t] = Idle]
    /\ UNCHANGED <<loggers, queueSize, obj, calls, thrown, written, own>>

(* set_async_mode and set_sync_mode.                                       *)
SetMode(t) ==
    /\ Free
    /\ Begin(t, Idle)
    /\ queueSize' \in 0 .. 1
    /\ thrown' = thrown \ {t}
    /\ UNCHANGED <<mutex, loggers, settings, obj, written, own>>

(* The user of a logger sets it, or logs to its file.                      *)
SetLogger(t) ==
    /\ Begin(t, Idle)
    /\ \E l \in DOMAIN obj, k \in Settings, v \in 1 .. MaxValue :
          /\ obj' = [obj EXCEPT ![l][k] = v]
          /\ own' = own \union {<<l, k>>}
    /\ UNCHANGED <<mutex, loggers, settings, queueSize, thrown, written>>

Write ==
    /\ \E n \in DOMAIN loggers : written' = written \union {n}
    /\ UNCHANGED <<mutex, loggers, settings, queueSize, obj, call, calls, thrown, own>>

Step(t) == CheckName(t) \/ Construct(t) \/ SetNext(t) \/ EndSetting(t)

Next ==
    \/ \E t \in Threads :
          \/ Step(t) \/ CreateSink(t) \/ RegisterLogger(t) \/ Drop(t)
          \/ BeginSetting(t) \/ ApplyAll(t) \/ SetMode(t) \/ SetLogger(t)
    \/ Write

Spec == Init /\ [][Next]_vars

(* A thread inside a call goes on with it, and gets the mutex in the end;  *)
(* which thread is preferred is up to the system.                          *)
FairSpec ==
    /\ Spec
    /\ \A t \in Threads : SF_vars(CheckName(t)) /\ WF_vars(Construct(t) \/ SetNext(t) \/ EndSetting(t))

-----------------------------------------------------------------------------
(* Type invariant.  Every registered logger exists, and the holder of the  *)
(* mutex is inside a call.                                                 *)
TypeOK ==
    /\ mutex \in Threads \union {NoThread}
    /\ DOMAIN loggers \subseteq Names /\ Registered \subseteq 1 .. Len(obj)
    /\ settings \in [Settings -> Value]
    /\ queueSize \in 0 .. 1
    /\ obj \in Seq([Settings \union {"queue"} -> Value \union 0 .. 1])
    /\ \A t \in Threads : call[t].op \in {"idle", "create", "construct", "loop"}
    /\ mutex # NoThread => call[mutex].op \in {"construct", "loop"}
    /\ calls \in [Threads -> 0 .. MaxCalls]
    /\ thrown \subseteq Threads
    /\ written \subseteq Names
    /\ own \subseteq (1 .. Len(obj)) \X Settings

Agrees(k) ==
    (\A t \in Threads : ~(call[t].op = "loop" /\ call[t].key = k)) =>
        \A l \in Registered : <<l, k>> \notin own => obj[l][k] = settings[k]

(* Whenever nobody is in the middle of setting it, every registered logger *)
(* has the level, flush level and formatter set last for all, but for      *)
(* those its own user set: a logger created during the loop is neither     *)
(* forgotten by the loop nor given the old value.                          *)
SettingsReachEveryLogger == \A k \in Settings \ {"err_handler"} : Agrees(k)

(* A name keeps its logger until it is dropped: of two threads that create *)
(* it at the same time one is told so by an exception.                     *)
LoggersStay == \A n \in DOMAIN loggers : n \in DOMAIN loggers' => loggers'[n] = loggers[n]
NoLoggerIsReplaced == [][LoggersStay]_vars

(* Every call returns, whether it throws or not.                           *)
CallsReturn == \A t \in Threads : (call[t] # Idle) ~> (call[t] = Idle)
=============================================================================
