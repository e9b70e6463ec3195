---------------------------- MODULE LoggingProofs ---------------------------
(***************************************************************************)
(* Proofs about the parts of the logging library that several threads use, *)
(* as MCLogging puts them side by side.                                    *)
(*                                                                         *)
(* The registry is proved about here, for any threads, names, values and   *)
(* numbers of calls: a setting for all loggers reaches those that are      *)
(* being made, and a name keeps its logger.  Of the other parts the        *)
(* instances of MCLogging get what QueueProofs, AsyncLogProofs and         *)
(* SinkProofs show of any.  That calls return is a matter of fairness and  *)
(* left to the runs.                                                       *)
(***************************************************************************)
EXTENDS MCLogging, SequenceTheorems, TLAPS

-----------------------------------------------------------------------------
(* The inductive invariant.                                                *)

Call ==
    [op : {"idle"}]
      \union [op : {"create", "construct"}, name : RegistryNames, async : BOOLEAN]
      \union [op : {"loop"}, key : Registry!Settings, value : Registry!Value, stores : BOOLEAN,
              todo : SUBSET Nat, seen : SUBSET Nat]

CallsInv == call \in [RegistryThreads -> Call]

(* The calls that hold the mutex between two of their steps: a logger is   *)
(* under construction, or the loop is one that was begun with it.          *)
Exclusive(t) ==
    \/ call[t].op = "construct"
    \/ call[t].op = "loop" /\ (call[t].stores => Registry!Locked(call[t].key))

MutexInv ==
    /\ \A t \in RegistryThreads : Exclusive(t) => mutex = t
    /\ \A t \in RegistryThreads : call[t].op = "construct" => call[t].name \notin DOMAIN loggers

(* A loop that stores its value has given it to every logger it has seen;  *)
(* one that does not leaves the loggers to their users, and the others as  *)
(* they were.  With the mutex held no logger comes or goes meanwhile.      *)
LoopInv ==
    \A t \in RegistryThreads :
        LET k == call[t].key
        IN  call[t].op = "loop" /\ Registry!Locked(k) =>
               /\ call[t].todo = Registry!Registered
               /\ IF call[t].stores
                    THEN \A l \in Registry!Registered \intersect call[t].seen :
                             <<l, k>> \notin own => obj[l][k] = call[t].value
                    ELSE \A l \in Registry!Registered :
                             <<l, k>> \notin own => obj[l][k] = settings[k]

RegistryInv ==
    /\ Registry!TypeOK
    /\ CallsInv
    /\ MutexInv
    /\ LoopInv
    /\ Registry!SettingsReachEveryLogger

-----------------------------------------------------------------------------
(* Types.                                                                  *)

LogObj == [Registry!Settings \union {"queue"} -> Registry!Value \union 0 .. 1]

(* What a call in progress is made of, and what becomes of it.             *)
LEMMA CallTypes ==
    /\ Registry!Idle \in Call /\ Registry!Idle.op = "idle"
    /\ \A c \in Call : c.op \in {"idle", "create", "construct", "loop"}
    /\ \A c \in Call : c.op \in {"create", "construct"} => c.name \in RegistryNames /\ c.async \in BOOLEAN
    /\ \A c \in Call : c.op = "loop" =>
          /\ c.key \in Registry!Settings /\ c.value \in Registry!Value /\ c.stores \in BOOLEAN
          /\ c.todo \in SUBSET Nat /\ c.seen \in SUBSET Nat
<1>1. ASSUME NEW c \in Call
      PROVE  \/ c \in [op : {"idle"}]
             \/ c \in [op : {"create", "construct"}, name : RegistryNames, async : BOOLEAN]
             \/ c \in [op : {"loop"}, key : Registry!Settings, value : Registry!Value, stores : BOOLEAN,
                       todo : SUBSET Nat, seen : SUBSET Nat]
    BY DEF Call
<1> QED BY <1>1 DEF Registry!Idle, Call

LEMMA ConstructType ==
    ASSUME NEW c \in Call, c.op = "create"
    PROVE  /\ [c EXCEPT !.op = "construct"] \in Call
           /\ [c EXCEPT !.op = "construct"].op = "construct"
           /\ [c EXCEPT !.op = "construct"].name = c.name
<1>1. c \in [op : {"create", "construct"}, name : RegistryNames, async : BOOLEAN]
    BY DEF Call
<1> QED BY <1>1 DEF Call

LEMMA SeenType ==
    ASSUME NEW c \in Call, c.op = "loop", NEW l \in Nat
    PROVE  LET d == [c EXCEPT !.seen = @ \union {l}]
           IN  /\ d \in Call /\ d.op = "loop" /\ d.seen = c.seen \union {l}
               /\ d.key = c.key /\ d.value = c.value /\ d.stores = c.stores /\ d.todo = c.todo
<1>1. c \in [op : {"loop"}, key : Registry!Settings, value : Registry!Value, stores : BOOLEAN,
             todo : SUBSET Nat, seen : SUBSET Nat]
    BY DEF Call
<1> QED BY <1>1 DEF Call

LEMMA LoopType ==
    ASSUME NEW k \in Registry!Settings, NEW v \in Registry!Value, NEW s \in BOOLEAN,
           NEW T \in SUBSET Nat
    PROVE  [op |-> "loop", key |-> k, value |-> v, stores |-> s, todo |-> T, seen |-> {}] \in Call
BY DEF Call

(* A new name in the map, for the logger at the end of the list.           *)
LEMMA AddedLogger ==
    ASSUME Registry!TypeOK, NEW n \in RegistryNames, NEW logger \in LogObj,
           n \notin DOMAIN loggers, Registry!Add(n, logger)
    PROVE  /\ DOMAIN loggers' = DOMAIN loggers \union {n}
           /\ \A m \in DOMAIN loggers : loggers'[m] = loggers[m]
           /\ Registry!Registered' = Registry!Registered \union {Len(obj) + 1}
           /\ obj' \in Seq(LogObj) /\ Len(obj) \in Nat /\ Len(obj') = Len(obj) + 1
           /\ \A l \in 1 .. Len(obj) : obj'[l] = obj[l]
           /\ obj'[Len(obj) + 1] = logger
<1>1. loggers' = [m \in DOMAIN loggers \union {n} |->
                    IF m = n THEN Len(obj) + 1 ELSE loggers[m]]
    BY DEF Registry!Add
<1>2. obj \in Seq(LogObj) /\ obj' = Append(obj, logger)
    BY DEF Registry!TypeOK, LogObj, Registry!Add
<1>3. /\ obj' \in Seq(LogObj) /\ Len(obj) \in Nat /\ Len(obj') = Len(obj) + 1
      /\ \A l \in 1 .. Len(obj) : obj'[l] = obj[l]
      /\ obj'[Len(obj) + 1] = logger
    BY <1>2, AppendProperties, LenProperties
<1>4. /\ DOMAIN loggers' = DOMAIN loggers \union {n}
      /\ \A m \in DOMAIN loggers : loggers'[m] = loggers[m]
      /\ loggers'[n] = Len(obj) + 1
    BY <1>1
<1>5. Registry!Registered' = Registry!Registered \union {Len(obj) + 1}
    BY <1>4 DEF Registry!Registered, Registry!Range
<1> QED BY <1>3, <1>4, <1>5

LEMMA NewType ==
    ASSUME Registry!TypeOK, Registry!RegistryAssumption, NEW size \in 0 .. 1
    PROVE  /\ Registry!New(size, settings) \in LogObj
           /\ Registry!New(size, Registry!Default) \in LogObj
           /\ \A k \in Registry!Settings : Registry!New(size, settings)[k] = settings[k]
BY DEF Registry!New, LogObj, Registry!TypeOK, Registry!Settings, Registry!Value,
       Registry!Default, Registry!RegistryAssumption

LEMMA DroppedLoggers ==
    ASSUME NEW S, loggers' = Registry!Restrict(loggers, DOMAIN loggers \ S)
    PROVE  /\ DOMAIN loggers' \subseteq DOMAIN loggers
           /\ \A m \in DOMAIN loggers' : loggers'[m] = loggers[m]
           /\ Registry!Registered' \subseteq Registry!Registered
BY DEF Registry!Restrict, Registry!Registered, Registry!Range

(* A setting of one logger.                                                *)
LEMMA SetObject ==
    ASSUME Registry!TypeOK, Registry!RegistryAssumption, NEW l \in 1 .. Len(obj),
           NEW k \in Registry!Settings, NEW v \in Registry!Value,
           obj' = [obj EXCEPT ![l][k] = v]
    PROVE  /\ obj' \in Seq(LogObj) /\ Len(obj') = Len(obj)
           /\ obj'[l][k] = v
           /\ \A m \in 1 .. Len(obj), j \in Registry!Settings : m # l \/ j # k => obj'[m][j] = obj[m][j]
<1>1. obj \in Seq(LogObj)
    BY DEF Registry!TypeOK, LogObj
<1>2. obj[l] \in LogObj
    BY <1>1, ElementOfSeq
<1>3. [obj[l] EXCEPT ![k] = v] \in LogObj
    BY <1>2 DEF LogObj
<1>4. obj' = [obj EXCEPT ![l] = [obj[l] EXCEPT ![k] = v]]
    BY <1>1
<1>5. obj' \in Seq(LogObj) /\ Len(obj') = Len(obj)
    BY <1>1, <1>3, <1>4, ExceptSeq
<1>6. \A m \in 1 .. Len(obj) : obj'[m] = IF m = l THEN [obj[l] EXCEPT ![k] = v] ELSE obj[m]
    BY <1>1, <1>4, ExceptSeq
<1> QED BY <1>2, <1>5, <1>6 DEF LogObj

(* A thread goes on, or begins a call, and the others stay where they are. *)
LEMMA CallMoves ==
    ASSUME CallsInv, NEW t \in RegistryThreads, NEW c \in Call,
           call' = [call EXCEPT ![t] = c]
    PROVE  /\ CallsInv'
           /\ call'[t] = c
           /\ \A u \in RegistryThreads \ {t} : call'[u] = call[u]
BY DEF CallsInv

LEMMA BeginCall ==
    ASSUME Registry!TypeOK, Registry!RegistryAssumption, CallsInv,
           NEW t \in RegistryThreads, NEW c \in Call, Registry!Begin(t, c)
    PROVE  /\ regCalls' \in [RegistryThreads -> 0 .. MaxLogged]
           /\ CallsInv'
           /\ call[t] = Registry!Idle /\ mutex # t
           /\ call'[t] = c
           /\ \A u \in RegistryThreads \ {t} : call'[u] = call[u]
<1>1. call[t] = Registry!Idle /\ call' = [call EXCEPT ![t] = c]
    BY DEF Registry!Begin
<1>2. regCalls' \in [RegistryThreads -> 0 .. MaxLogged]
    BY DEF Registry!Begin, Registry!TypeOK, Registry!RegistryAssumption
<1>3. mutex # t
    BY <1>1, CallTypes DEF Registry!TypeOK, Registry!RegistryAssumption
<1> QED BY <1>1, <1>2, <1>3, CallMoves

LEMMA TypeInit ==
    ASSUME Registry!RegistryAssumption, Registry!Init
    PROVE  Registry!TypeOK /\ CallsInv
<1>1. Registry!Registered = {} /\ DOMAIN loggers = {}
    BY DEF Registry!Init, Registry!Registered, Registry!Range
<1>2. CallsInv
    BY CallTypes DEF Registry!Init, CallsInv
<1>3. \A t \in RegistryThreads : call[t].op = "idle"
    BY CallTypes DEF Registry!Init
<1>4. obj \in Seq(LogObj) /\ Len(obj) = 0
    BY EmptySeq DEF Registry!Init
<1> QED BY <1>1, <1>2, <1>3, <1>4
        DEF Registry!Init, Registry!TypeOK, LogObj, Registry!Default, Registry!Settings,
            Registry!Value, Registry!RegistryAssumption

(* Where the threads are, of the types.                                    *)
LEMMA OpType ==
    ASSUME CallsInv
    PROVE  \A t \in RegistryThreads : call[t] \in Call /\ call[t].op \in {"idle", "create", "construct", "loop"}
BY CallTypes DEF CallsInv

LEMMA TypeStep ==
    ASSUME Registry!RegistryAssumption, Registry!TypeOK, CallsInv, MutexInv,
           [Registry!Next]_(Registry!vars)
    PROVE  Registry!TypeOK' /\ CallsInv'
<1> DEFINE Holder == mutex # "none" => call[mutex].op \in {"construct", "loop"}
<1>0. /\ \A t \in RegistryThreads : t # "none"
      /\ obj \in Seq(LogObj) /\ Len(obj) \in Nat
      /\ Registry!Idle \in Call /\ Registry!Idle.op = "idle"
    BY LenProperties, CallTypes DEF Registry!TypeOK, LogObj, Registry!RegistryAssumption
<1>o. CallsInv' => \A t \in RegistryThreads : call'[t].op \in {"idle", "create", "construct", "loop"}
    BY CallTypes DEF CallsInv
<1>1. ASSUME NEW t \in RegistryThreads, Registry!CreateSink(t)
      PROVE  Registry!TypeOK' /\ CallsInv'
  <2>1. PICK n \in RegistryNames, async \in BOOLEAN, truncate \in BOOLEAN :
           /\ Registry!Begin(t, [op |-> "create", name |-> n, async |-> async])
           /\ files' = IF truncate THEN files \ {n} ELSE files
      BY <1>1 DEF Registry!CreateSink
  <2> DEFINE c == [op |-> "create", name |-> n, async |-> async]
  <2>2. c \in Call
      BY DEF Call
  <2>3. /\ regCalls' \in [RegistryThreads -> 0 .. MaxLogged] /\ CallsInv'
        /\ mutex # t /\ \A u \in RegistryThreads \ {t} : call'[u] = call[u]
      BY <2>1, <2>2, BeginCall
  <2> HIDE DEF c
  <2> QED BY <1>0, <1>o, <1>1, <2>1, <2>3 DEF Registry!CreateSink, Registry!TypeOK,
          Registry!Registered, Registry!Range
<1>2. ASSUME NEW t \in RegistryThreads, Registry!CheckName(t)
      PROVE  Registry!TypeOK' /\ CallsInv'
  <2>1. call[t] \in Call /\ call[t].op = "create" /\ mutex = "none"
      BY <1>2, OpType DEF Registry!CheckName, Registry!Free
  <2>2. PICK c \in Call :
          /\ call' = [call EXCEPT ![t] = c]
          /\ mutex' = mutex \/ (mutex' = t /\ c.op = "construct")
          /\ thrown' \subseteq RegistryThreads
    <3>1. CASE call[t].name \in DOMAIN loggers
        BY <1>0, <1>2, <3>1 DEF Registry!CheckName, Registry!TypeOK
    <3>2. CASE call[t].name \notin DOMAIN loggers
      <4> DEFINE c == [call[t] EXCEPT !.op = "construct"]
      <4>1. call' = [call EXCEPT ![t] = c]
          BY <1>2, <3>2 DEF Registry!CheckName
      <4>2. c \in Call /\ c.op = "construct"
          BY <2>1, ConstructType
      <4>3. mutex' = t /\ thrown' \subseteq RegistryThreads
          BY <1>2, <3>2 DEF Registry!CheckName, Registry!TypeOK
      <4> QED BY <4>1, <4>2, <4>3
    <3> QED BY <3>1, <3>2
  <2>3. CallsInv' /\ call'[t] = c
      BY <2>2, CallMoves
  <2> QED BY <1>0, <1>o, <1>2, <2>1, <2>2, <2>3 DEF Registry!CheckName, Registry!TypeOK,
          Registry!Registered, Registry!Range
<1>3. ASSUME NEW t \in RegistryThreads, Registry!Construct(t)
      PROVE  Registry!TypeOK' /\ CallsInv'
  <2> DEFINE size == IF call[t].async THEN 1 ELSE queueSize
             n == call[t].name
  <2>1. n \in RegistryNames /\ size \in 0 .. 1
      BY <1>3, OpType, CallTypes DEF Registry!Construct, Registry!TypeOK
  <2>2. Registry!Add(n, Registry!New(size, settings))
      BY <1>3 DEF Registry!Construct
  <2>3. Registry!New(size, settings) \in LogObj
      BY <2>1, NewType
  <2>4. n \notin DOMAIN loggers
      BY <1>3 DEF Registry!Construct, MutexInv
  <2> HIDE DEF size, n
  <2>5. /\ DOMAIN loggers' = DOMAIN loggers \union {n}
        /\ Registry!Registered' = Registry!Registered \union {Len(obj) + 1}
        /\ obj' \in Seq(LogObj) /\ Len(obj') = Len(obj) + 1
      BY <2>1, <2>2, <2>3, <2>4, AddedLogger
  <2>6. CallsInv'
      BY <1>0, <1>3, CallMoves DEF Registry!Construct
  <2>7. own' \subseteq (1 .. Len(obj')) \X Registry!Settings /\ Registry!Registered' \subseteq 1 .. Len(obj')
    <3>1. 1 .. Len(obj') = (1 .. Len(obj)) \union {Len(obj) + 1}
        BY <1>0, <2>5
    <3>2. own' = own
        BY <1>3 DEF Registry!Construct
    <3> QED BY <2>5, <3>1, <3>2 DEF Registry!TypeOK
  <2> QED BY <1>3, <1>o, <2>1, <2>5, <2>6, <2>7 DEF Registry!Construct, Registry!TypeOK,
             LogObj
<1>4. ASSUME NEW t \in RegistryThreads, Registry!RegisterLogger(t)
      PROVE  Registry!TypeOK' /\ CallsInv'
  <2>1. /\ regCalls' \in [RegistryThreads -> 0 .. MaxLogged] /\ CallsInv' /\ mutex = "none"
      BY <1>0, <1>4, BeginCall DEF Registry!RegisterLogger, Registry!Free
  <2>2. PICK n \in RegistryNames :
          IF n \in DOMAIN loggers
            THEN /\ thrown' = thrown \union {t}
                 /\ UNCHANGED <<loggers, obj, own>>
            ELSE /\ thrown' = thrown \ {t}
                 /\ Registry!Add(n, Registry!New(0, Registry!Default))
                 /\ own' = own \union ({Len(obj) + 1} \X Registry!Settings)
      BY <1>4 DEF Registry!RegisterLogger
  <2>3. CASE n \in DOMAIN loggers
      BY <1>4, <1>o, <2>1, <2>2, <2>3 DEF Registry!RegisterLogger, Registry!TypeOK,
             Registry!Registered, Registry!Range
  <2>4. CASE n \notin DOMAIN loggers
    <3>1. Registry!New(0, Registry!Default) \in LogObj
        BY NewType
    <3>2. /\ DOMAIN loggers' = DOMAIN loggers \union {n}
          /\ Registry!Registered' = Registry!Registered \union {Len(obj) + 1}
          /\ obj' \in Seq(LogObj) /\ Len(obj') = Len(obj) + 1
        BY <2>2, <2>4, <3>1, AddedLogger
    <3>3. own' \subseteq (1 .. Len(obj')) \X Registry!Settings /\ Registry!Registered' \subseteq 1 .. Len(obj')
      <4>1. 1 .. Len(obj') = (1 .. Len(obj)) \union {Len(obj) + 1}
          BY <1>0, <3>2
      <4>2. own' = own \union ({Len(obj) + 1} \X Registry!Settings)
          BY <2>2, <2>4
      <4> QED BY <3>2, <4>1, <4>2 DEF Registry!TypeOK
    <3> QED BY <1>4, <1>o, <2>1, <2>2, <2>4, <3>2, <3>3 DEF Registry!RegisterLogger,
            Registry!TypeOK, LogObj
  <2> QED BY <2>3, <2>4
<1>5. ASSUME NEW t \in RegistryThreads, Registry!Drop(t)
      PROVE  Registry!TypeOK' /\ CallsInv'
  <2>1. /\ regCalls' \in [RegistryThreads -> 0 .. MaxLogged] /\ CallsInv' /\ mutex = "none"
      BY <1>0, <1>5, BeginCall DEF Registry!Drop, Registry!Free
  <2>2. DOMAIN loggers' \subseteq DOMAIN loggers /\ Registry!Registered' \subseteq Registry!Registered
      BY <1>5, DroppedLoggers DEF Registry!Drop
  <2> QED BY <1>5, <1>o, <2>1, <2>2 DEF Registry!Drop, Registry!TypeOK
<1>6. ASSUME NEW t \in RegistryThreads, Registry!BeginSetting(t) \/ Registry!ApplyAll(t)
      PROVE  Registry!TypeOK' /\ CallsInv'
  <2>1. PICK k \in Registry!Settings, v \in 1 .. MaxSetting, stores \in BOOLEAN :
          /\ Registry!Begin(t, [op |-> "loop", key |-> k, value |-> v, stores |-> stores,
                       todo |-> Registry!Registered, seen |-> {}])
          /\ mutex' = mutex \/ mutex' = t
          /\ settings' = settings \/ settings' = [settings EXCEPT ![k] = v]
      BY <1>6 DEF Registry!BeginSetting, Registry!ApplyAll, Registry!LockFor
  <2> DEFINE c == [op |-> "loop", key |-> k, value |-> v, stores |-> stores,
                   todo |-> Registry!Registered, seen |-> {}]
  <2>2. v \in Registry!Value /\ Registry!Registered \in SUBSET Nat
      BY <1>0 DEF Registry!TypeOK, Registry!Value, Registry!RegistryAssumption
  <2>3. c \in Call /\ c.op = "loop"
      BY <2>2, LoopType
  <2>4. /\ regCalls' \in [RegistryThreads -> 0 .. MaxLogged] /\ CallsInv' /\ call'[t] = c
        /\ mutex # t /\ \A u \in RegistryThreads \ {t} : call'[u] = call[u]
      BY <2>1, <2>3, BeginCall
  <2> HIDE DEF c
  <2>5. settings' \in [Registry!Settings -> Registry!Value]
      BY <2>1, <2>2 DEF Registry!TypeOK
  <2>6. Holder'
      BY <1>0, <2>1, <2>3, <2>4 DEF Registry!TypeOK
  <2> QED BY <1>0, <1>o, <1>6, <2>1, <2>4, <2>5, <2>6
          DEF Registry!BeginSetting, Registry!ApplyAll, Registry!TypeOK,
              Registry!Registered, Registry!Range
<1>7. ASSUME NEW t \in RegistryThreads, Registry!SetNext(t)
      PROVE  Registry!TypeOK' /\ CallsInv'
  <2>1. PICK l \in Registry!Registered \ call[t].seen :
          /\ obj' = [obj EXCEPT ![l][call[t].key] = call[t].value]
          /\ call' = [call EXCEPT ![t].seen = @ \union {l}]
          /\ own' \subseteq own \union {<<l, call[t].key>>}
      BY <1>7 DEF Registry!SetNext
  <2>2. /\ call[t] \in Call /\ call[t].op = "loop" /\ l \in 1 .. Len(obj) /\ l \in Nat
        /\ call[t].key \in Registry!Settings /\ call[t].value \in Registry!Value
      BY <1>0, <1>7, OpType, CallTypes DEF Registry!SetNext, Registry!TypeOK
  <2>3. obj' \in Seq(LogObj) /\ Len(obj') = Len(obj)
      BY <2>1, <2>2, SetObject
  <2> DEFINE c == [call[t] EXCEPT !.seen = @ \union {l}]
  <2>4. c \in Call /\ c.op = "loop" /\ call' = [call EXCEPT ![t] = c]
      BY <2>1, <2>2, SeenType
  <2> HIDE DEF c
  <2>5. CallsInv' /\ call'[t] = c /\ \A u \in RegistryThreads \ {t} : call'[u] = call[u]
      BY <2>4, CallMoves
  <2>6. Holder'
      BY <1>7, <2>4, <2>5 DEF Registry!SetNext, Registry!TypeOK
  <2>7. own' \subseteq (1 .. Len(obj')) \X Registry!Settings
      BY <2>1, <2>2, <2>3 DEF Registry!TypeOK
  <2> QED BY <1>7, <1>o, <2>3, <2>5, <2>6, <2>7 DEF Registry!SetNext, Registry!TypeOK,
             LogObj,
          Registry!Registered, Registry!Range
<1>8. ASSUME NEW t \in RegistryThreads, Registry!EndSetting(t)
      PROVE  Registry!TypeOK' /\ CallsInv'
  <2>1. CallsInv' /\ \A u \in RegistryThreads \ {t} : call'[u] = call[u]
      BY <1>0, <1>8, CallMoves DEF Registry!EndSetting
  <2>2. Holder'
      BY <1>8, <2>1 DEF Registry!EndSetting, Registry!TypeOK
  <2>3. settings' \in [Registry!Settings -> Registry!Value]
      BY <1>8, OpType, CallTypes DEF Registry!EndSetting, Registry!TypeOK
  <2> QED BY <1>8, <1>o, <2>1, <2>2, <2>3 DEF Registry!EndSetting, Registry!TypeOK,
          Registry!Registered, Registry!Range
<1>9. ASSUME NEW t \in RegistryThreads, Registry!SetMode(t)
      PROVE  Registry!TypeOK' /\ CallsInv'
  <2>1. /\ regCalls' \in [RegistryThreads -> 0 .. MaxLogged] /\ CallsInv' /\ mutex = "none"
      BY <1>0, <1>9, BeginCall DEF Registry!SetMode, Registry!Free
  <2> QED BY <1>9, <1>o, <2>1 DEF Registry!SetMode, Registry!TypeOK, Registry!Registered,
          Registry!Range
<1>10. ASSUME NEW t \in RegistryThreads, Registry!SetLogger(t)
       PROVE  Registry!TypeOK' /\ CallsInv'
  <2>1. /\ regCalls' \in [RegistryThreads -> 0 .. MaxLogged] /\ CallsInv'
        /\ mutex # t /\ \A u \in RegistryThreads \ {t} : call'[u] = call[u]
      BY <1>0, <1>10, BeginCall DEF Registry!SetLogger
  <2>2. PICK l \in DOMAIN obj, k \in Registry!Settings, v \in 1 .. MaxSetting :
          obj' = [obj EXCEPT ![l][k] = v] /\ own' = own \union {<<l, k>>}
      BY <1>10 DEF Registry!SetLogger
  <2>3. l \in 1 .. Len(obj) /\ v \in Registry!Value
      BY <1>0, <2>2, LenProperties DEF Registry!Value, Registry!RegistryAssumption
  <2>4. obj' \in Seq(LogObj) /\ Len(obj') = Len(obj)
      BY <2>2, <2>3, SetObject
  <2>5. own' \subseteq (1 .. Len(obj')) \X Registry!Settings
      BY <2>2, <2>3, <2>4 DEF Registry!TypeOK
  <2>6. Holder'
      BY <1>10, <2>1 DEF Registry!SetLogger, Registry!TypeOK
  <2> QED BY <1>10, <1>o, <2>1, <2>4, <2>5, <2>6 DEF Registry!SetLogger, Registry!TypeOK,
          LogObj, Registry!Registered, Registry!Range
<1>11. CASE Registry!Write
    BY <1>11, <1>o DEF Registry!Write, Registry!TypeOK, CallsInv, Registry!Registered,
           Registry!Range
<1>12. CASE UNCHANGED Registry!vars
    BY <1>12 DEF Registry!vars, Registry!TypeOK, CallsInv, Registry!Registered,
       Registry!Range
<1> QED
    BY <1>1, <1>2, <1>3, <1>4, <1>5, <1>6, <1>7, <1>8, <1>9, <1>10, <1>11,
           <1>12 DEF Registry!Next, Registry!Step

-----------------------------------------------------------------------------
(* The mutex.                                                              *)

(* Whoever takes the mutex, or has it, is alone in what it guards.         *)
LEMMA OthersAreOut ==
    ASSUME Registry!RegistryAssumption, MutexInv, NEW t \in RegistryThreads,
           mutex = "none" \/ mutex = t
    PROVE  /\ \A u \in RegistryThreads \ {t} : ~Exclusive(u)
           /\ mutex = "none" => ~Exclusive(t)
BY DEF MutexInv, Registry!RegistryAssumption

(* A thread that is inside no locked call before and after a step leaves   *)
(* the mutex with the one that holds it, and names free.                   *)
LEMMA MutexUnchanged ==
    ASSUME MutexInv, NEW t \in RegistryThreads, mutex' = mutex,
           \A u \in RegistryThreads \ {t} : call'[u] = call[u],
           call'[t].op \notin {"construct", "loop"},
           DOMAIN loggers' \subseteq DOMAIN loggers
    PROVE  MutexInv'
BY DEF MutexInv, Exclusive

LEMMA MutexStep ==
    ASSUME Registry!RegistryAssumption, Registry!TypeOK, CallsInv, MutexInv,
           [Registry!Next]_(Registry!vars)
    PROVE  MutexInv'
<1>0. Registry!Idle \in Call /\ Registry!Idle.op = "idle"
    BY CallTypes
<1>1. ASSUME NEW t \in RegistryThreads, Registry!CreateSink(t)
      PROVE  MutexInv'
  <2>1. PICK n \in RegistryNames, async \in BOOLEAN :
           Registry!Begin(t, [op |-> "create", name |-> n, async |-> async])
      BY <1>1 DEF Registry!CreateSink
  <2> DEFINE c == [op |-> "create", name |-> n, async |-> async]
  <2>2. c \in Call /\ c.op = "create"
      BY DEF Call
  <2>3. call'[t] = c /\ \A u \in RegistryThreads \ {t} : call'[u] = call[u]
      BY <2>1, <2>2, BeginCall
  <2> HIDE DEF c
  <2> QED BY <1>1, <2>2, <2>3, MutexUnchanged DEF Registry!CreateSink
<1>2. ASSUME NEW t \in RegistryThreads, Registry!CheckName(t)
      PROVE  MutexInv'
  <2>1. call[t] \in Call /\ call[t].op = "create" /\ mutex = "none" /\ loggers' = loggers
      BY <1>2, OpType DEF Registry!CheckName, Registry!Free
  <2>2. CASE call[t].name \in DOMAIN loggers
    <3>1. call'[t] = Registry!Idle /\ \A u \in RegistryThreads \ {t} : call'[u] = call[u]
        BY <1>0, <1>2, <2>2, CallMoves DEF Registry!CheckName
    <3> QED BY <1>0, <1>2, <2>1, <2>2, <3>1, MutexUnchanged DEF Registry!CheckName
  <2>3. CASE call[t].name \notin DOMAIN loggers
    <3> DEFINE c == [call[t] EXCEPT !.op = "construct"]
    <3>1. c \in Call /\ c.op = "construct" /\ c.name = call[t].name
        BY <2>1, ConstructType
    <3>2. call' = [call EXCEPT ![t] = c] /\ mutex' = t
        BY <1>2, <2>3 DEF Registry!CheckName
    <3> HIDE DEF c
    <3>3. call'[t] = c /\ \A u \in RegistryThreads \ {t} : call'[u] = call[u]
        BY <3>1, <3>2, CallMoves
    <3>4. \A u \in RegistryThreads \ {t} : ~Exclusive(u)
        BY <2>1, OthersAreOut
    <3> QED BY <2>1, <2>3, <3>1, <3>2, <3>3, <3>4 DEF MutexInv, Exclusive
  <2> QED BY <2>2, <2>3
<1>3. ASSUME NEW t \in RegistryThreads, Registry!Construct(t)
      PROVE  MutexInv'
  <2>1. \A u \in RegistryThreads \ {t} : ~Exclusive(u)
      BY <1>3, OthersAreOut DEF Registry!Construct, Exclusive, MutexInv
  <2>2. call'[t] = Registry!Idle /\ \A u \in RegistryThreads \ {t} : call'[u] = call[u]
      BY <1>0, <1>3, CallMoves DEF Registry!Construct
  <2> QED BY <1>0, <2>1, <2>2 DEF MutexInv, Exclusive
<1>4. ASSUME NEW t \in RegistryThreads, Registry!RegisterLogger(t) \/ Registry!Drop(t)
      PROVE  MutexInv'
  <2>1. mutex = "none" /\ Registry!Begin(t, Registry!Idle)
      BY <1>4 DEF Registry!RegisterLogger, Registry!Drop, Registry!Free
  <2>2. call'[t] = Registry!Idle /\ \A u \in RegistryThreads \ {t} : call'[u] = call[u]
      BY <1>0, <2>1, BeginCall
  <2>3. \A u \in RegistryThreads \ {t} : ~Exclusive(u)
      BY <2>1, OthersAreOut
  <2> QED BY <1>0, <2>2, <2>3 DEF MutexInv, Exclusive
<1>5. ASSUME NEW t \in RegistryThreads, Registry!BeginSetting(t) \/ Registry!ApplyAll(t)
      PROVE  MutexInv'
  <2>1. PICK k \in Registry!Settings, v \in 1 .. MaxSetting, stores \in BOOLEAN :
          /\ Registry!Begin(t, [op |-> "loop", key |-> k, value |-> v, stores |-> stores,
                       todo |-> Registry!Registered, seen |-> {}])
          /\ IF stores => Registry!Locked(k) THEN mutex = "none" /\ mutex' = t ELSE mutex' = mutex
      BY <1>5 DEF Registry!BeginSetting, Registry!ApplyAll, Registry!LockFor,
         Registry!Free
  <2> DEFINE c == [op |-> "loop", key |-> k, value |-> v, stores |-> stores,
                   todo |-> Registry!Registered, seen |-> {}]
  <2>2. v \in Registry!Value /\ Registry!Registered \in SUBSET Nat
      BY LenProperties DEF Registry!TypeOK, Registry!Value, Registry!RegistryAssumption
  <2>3. c \in Call /\ c.op = "loop" /\ c.key = k /\ c.stores = stores
      BY <2>2, LoopType
  <2>4. call'[t] = c /\ mutex # t /\ \A u \in RegistryThreads \ {t} : call'[u] = call[u]
      BY <2>1, <2>3, BeginCall
  <2> HIDE DEF c
  <2>5. loggers' = loggers
      BY <1>5 DEF Registry!BeginSetting, Registry!ApplyAll
  <2>6. CASE stores => Registry!Locked(k)
    <3>1. \A u \in RegistryThreads \ {t} : ~Exclusive(u)
        BY <2>1, <2>6, OthersAreOut
    <3> QED BY <2>1, <2>3, <2>4, <2>5, <2>6, <3>1 DEF MutexInv, Exclusive
  <2>7. CASE ~(stores => Registry!Locked(k))
      BY <2>1, <2>3, <2>4, <2>5, <2>7 DEF MutexInv, Exclusive
  <2> QED BY <2>6, <2>7
<1>6. ASSUME NEW t \in RegistryThreads, Registry!SetNext(t)
      PROVE  MutexInv'
  <2>1. PICK l \in Registry!Registered : call' = [call EXCEPT ![t].seen = @ \union {l}]
      BY <1>6 DEF Registry!SetNext
  <2>2. l \in Nat /\ call[t] \in Call /\ call[t].op = "loop"
      BY <1>6, OpType, LenProperties DEF Registry!SetNext, Registry!TypeOK
  <2> DEFINE c == [call[t] EXCEPT !.seen = @ \union {l}]
  <2>3. /\ c \in Call /\ c.op = "loop" /\ call' = [call EXCEPT ![t] = c]
        /\ c.key = call[t].key /\ c.stores = call[t].stores
      BY <2>1, <2>2, SeenType
  <2> HIDE DEF c
  <2>4. call'[t] = c /\ \A u \in RegistryThreads \ {t} : call'[u] = call[u]
      BY <2>3, CallMoves
  <2> QED BY <1>6, <2>2, <2>3, <2>4 DEF Registry!SetNext, MutexInv, Exclusive
<1>7. ASSUME NEW t \in RegistryThreads, Registry!EndSetting(t)
      PROVE  MutexInv'
  <2>1. call'[t] = Registry!Idle /\ \A u \in RegistryThreads \ {t} : call'[u] = call[u]
      BY <1>0, <1>7, CallMoves DEF Registry!EndSetting
  <2> QED BY <1>0, <1>7, <2>1 DEF Registry!EndSetting, MutexInv, Exclusive
<1>8. ASSUME NEW t \in RegistryThreads, Registry!SetMode(t) \/ Registry!SetLogger(t)
      PROVE  MutexInv'
  <2>1. Registry!Begin(t, Registry!Idle) /\ UNCHANGED <<mutex, loggers>>
      BY <1>8 DEF Registry!SetMode, Registry!SetLogger
  <2>2. call'[t] = Registry!Idle /\ \A u \in RegistryThreads \ {t} : call'[u] = call[u]
      BY <1>0, <2>1, BeginCall
  <2> QED BY <1>0, <2>1, <2>2, MutexUnchanged
<1>9. CASE Registry!Write \/ UNCHANGED Registry!vars
    BY <1>9 DEF Registry!Write, Registry!vars, MutexInv, Exclusive
<1> QED BY <1>1, <1>2, <1>3, <1>4, <1>5, <1>6, <1>7, <1>8, <1>9 DEF Registry!Next,
           Registry!Step

-----------------------------------------------------------------------------
(* A name keeps its logger.                                                *)

LEMMA LoggersStayStep ==
    ASSUME Registry!RegistryAssumption, Registry!TypeOK, CallsInv, MutexInv,
           [Registry!Next]_(Registry!vars)
    PROVE  Registry!LoggersStay
<1>1. ASSUME NEW t \in RegistryThreads, Registry!Construct(t)
      PROVE  Registry!LoggersStay
  <2> DEFINE n == call[t].name
             size == IF call[t].async THEN 1 ELSE queueSize
  <2>1. n \in RegistryNames /\ n \notin DOMAIN loggers /\ size \in 0 .. 1
      BY <1>1, OpType, CallTypes DEF Registry!Construct, MutexInv, Registry!TypeOK
  <2>2. Registry!Add(n, Registry!New(size, settings)) /\ Registry!New(size, settings) \in LogObj
      BY <1>1, <2>1, NewType DEF Registry!Construct
  <2> HIDE DEF n, size
  <2> QED BY <2>1, <2>2, AddedLogger DEF Registry!LoggersStay
<1>2. ASSUME NEW t \in RegistryThreads, Registry!RegisterLogger(t)
      PROVE  Registry!LoggersStay
  <2>1. PICK n \in RegistryNames : \/ UNCHANGED loggers
                                   \/ n \notin DOMAIN loggers /\ Registry!Add(n, Registry!New(0, Registry!Default))
      BY <1>2 DEF Registry!RegisterLogger
  <2>2. Registry!New(0, Registry!Default) \in LogObj
      BY NewType
  <2> QED BY <2>1, <2>2, AddedLogger DEF Registry!LoggersStay
<1>3. ASSUME NEW t \in RegistryThreads, Registry!Drop(t)
      PROVE  Registry!LoggersStay
    BY <1>3, DroppedLoggers DEF Registry!Drop, Registry!LoggersStay
<1>4. CASE UNCHANGED loggers
    BY <1>4 DEF Registry!LoggersStay
<1> QED
    BY <1>1, <1>2, <1>3, <1>4
    DEF Registry!Next, Registry!Step, Registry!CreateSink, Registry!CheckName,
        Registry!BeginSetting, Registry!ApplyAll, Registry!SetNext, Registry!EndSetting,
        Registry!SetMode, Registry!SetLogger, Registry!Write, Registry!vars

-----------------------------------------------------------------------------
(* Settings for all loggers.                                               *)

Looping(t, k) == call[t].op = "loop" /\ call[t].key = k

(* No logger comes, goes or is set, no setting changes, and no loop begins *)
(* or ends.                                                                *)
LEMMA SettingsUnchanged ==
    ASSUME LoopInv, Registry!SettingsReachEveryLogger,
           UNCHANGED <<loggers, obj, settings, own>>,
           \A u \in RegistryThreads : \/ call'[u] = call[u]
                                      \/ call'[u].op # "loop" /\ call[u].op # "loop"
    PROVE  LoopInv' /\ Registry!SettingsReachEveryLogger'
BY DEF LoopInv, Registry!SettingsReachEveryLogger, Registry!Agrees, Registry!Registered,
       Registry!Range, Registry!Locked

(* Somebody who has the mutex, and is in no loop, changes the map.         *)
LEMMA NobodyLoops ==
    ASSUME Registry!RegistryAssumption, MutexInv, Registry!SettingsReachEveryLogger,
           NEW t \in RegistryThreads, mutex = "none" \/ mutex = t, call[t].op # "loop"
    PROVE  /\ \A u \in RegistryThreads, k \in Registry!Settings : Registry!Locked(k) => ~Looping(u, k)
           /\ \A k \in Registry!Settings, l \in Registry!Registered :
                 Registry!Locked(k) /\ <<l, k>> \notin own => obj[l][k] = settings[k]
<1>1. \A u \in RegistryThreads, k \in Registry!Settings : Registry!Locked(k) => ~Looping(u, k)
    BY OthersAreOut DEF Exclusive, Looping
<1> QED BY <1>1 DEF Registry!SettingsReachEveryLogger, Registry!Agrees, Looping,
           Registry!Locked

(* The map changes, and nobody loops then either: what is new has the      *)
(* present settings or its user's own.                                     *)
LEMMA SettingsAfterChange ==
    ASSUME Registry!RegistryAssumption, MutexInv, Registry!SettingsReachEveryLogger,
           NEW t \in RegistryThreads, mutex = "none" \/ mutex = t, call[t].op # "loop",
           call'[t].op # "loop", \A u \in RegistryThreads \ {t} : call'[u] = call[u],
           settings' = settings, own \subseteq own',
           \A l \in Registry!Registered' :
              \/ l \in Registry!Registered /\ obj'[l] = obj[l]
              \/ \A k \in Registry!Settings : <<l, k>> \in own' \/ obj'[l][k] = settings[k]
    PROVE  LoopInv' /\ Registry!SettingsReachEveryLogger'
<1>1. \A u \in RegistryThreads, k \in Registry!Settings : Registry!Locked(k) => ~(call'[u].op = "loop" /\ call'[u].key = k)
    BY NobodyLoops DEF Looping
<1>2. LoopInv'
  <2> SUFFICES ASSUME NEW u \in RegistryThreads, call'[u].op = "loop",
                      Registry!Locked(call'[u].key)
               PROVE  FALSE
      BY DEF LoopInv, Registry!Locked
  <2>1. ~Exclusive(u)
      BY OthersAreOut
  <2> QED BY <2>1 DEF Exclusive
<1>3. Registry!SettingsReachEveryLogger'
    BY NobodyLoops DEF Registry!SettingsReachEveryLogger, Registry!Agrees, Registry!Locked
<1> QED BY <1>2, <1>3

(* A loop begins: with the mutex, or for the handler of errors.            *)
LEMMA LoopBegins ==
    ASSUME Registry!RegistryAssumption, Registry!TypeOK, CallsInv, MutexInv, LoopInv,
           Registry!SettingsReachEveryLogger,
           NEW t \in RegistryThreads, Registry!BeginSetting(t) \/ Registry!ApplyAll(t)
    PROVE  LoopInv' /\ Registry!SettingsReachEveryLogger'
<1>1. PICK k \in Registry!Settings, v \in 1 .. MaxSetting, stores \in BOOLEAN :
        /\ Registry!Begin(t, [op |-> "loop", key |-> k, value |-> v, stores |-> stores,
                     todo |-> Registry!Registered, seen |-> {}])
        /\ (stores => Registry!Locked(k)) => mutex = "none"
        /\ settings' = IF stores /\ k = "formatter" THEN [settings EXCEPT ![k] = v] ELSE settings
    BY DEF Registry!BeginSetting, Registry!ApplyAll, Registry!LockFor, Registry!Free
<1> DEFINE c == [op |-> "loop", key |-> k, value |-> v, stores |-> stores,
                 todo |-> Registry!Registered, seen |-> {}]
<1>2. v \in Registry!Value /\ Registry!Registered \in SUBSET Nat
    BY LenProperties DEF Registry!TypeOK, Registry!Value, Registry!RegistryAssumption
<1>3. /\ c \in Call /\ c.op = "loop" /\ c.key = k /\ c.stores = stores
      /\ c.todo = Registry!Registered /\ c.seen = {}
    BY <1>2, LoopType
<1>4. /\ call'[t] = c /\ call[t] = Registry!Idle
      /\ \A u \in RegistryThreads \ {t} : call'[u] = call[u]
    BY <1>1, <1>3, BeginCall
<1> HIDE DEF c
<1>5. call[t].op # "loop"
    BY <1>4, CallTypes
<1>6. UNCHANGED <<loggers, obj, own>> /\ Registry!Registered' = Registry!Registered
    BY DEF Registry!BeginSetting, Registry!ApplyAll, Registry!Registered, Registry!Range
<1>7. \A j \in Registry!Settings \ {k} : settings'[j] = settings[j]
    BY <1>1 DEF Registry!TypeOK
<1>8. ASSUME NEW u \in RegistryThreads \ {t}, call[u].op = "loop",
             Registry!Locked(call[u].key)
      PROVE  settings' = settings
    BY <1>1, <1>8, OthersAreOut DEF Exclusive, Registry!Locked
<1>9. LoopInv'
  <2> SUFFICES ASSUME NEW u \in RegistryThreads, call'[u].op = "loop",
                      Registry!Locked(call'[u].key)
               PROVE  LET j == call'[u].key
                      IN  /\ call'[u].todo = Registry!Registered
                          /\ IF call'[u].stores
                               THEN \A l \in Registry!Registered \intersect call'[u].seen :
                                       <<l, j>> \notin own => obj[l][j] = call'[u].value
                               ELSE \A l \in Registry!Registered :
                                       <<l, j>> \notin own => obj[l][j] = settings'[j]
      BY <1>6 DEF LoopInv, Registry!Locked
  <2>1. CASE u # t
      BY <1>4, <1>8, <2>1 DEF LoopInv
  <2>2. CASE u = t /\ stores
      BY <1>3, <1>4, <2>2
  <2>3. CASE u = t /\ ~stores
    <3>1. mutex = "none" /\ settings' = settings /\ Registry!Locked(k)
        BY <1>1, <1>3, <1>4, <2>3
    <3>2. \A l \in Registry!Registered : <<l, k>> \notin own => obj[l][k] = settings[k]
        BY <1>5, <3>1, NobodyLoops
    <3> QED BY <1>3, <1>4, <2>3, <3>1, <3>2
  <2> QED BY <2>1, <2>2, <2>3
<1>10. Registry!SettingsReachEveryLogger'
  <2> SUFFICES ASSUME NEW j \in Registry!Settings \ {"err_handler"},
                      \A u \in RegistryThreads : ~(call'[u].op = "loop" /\ call'[u].key = j),
                      NEW l \in Registry!Registered, <<l, j>> \notin own
               PROVE  obj[l][j] = settings'[j]
      BY <1>6 DEF Registry!SettingsReachEveryLogger, Registry!Agrees
  <2>1. j # k
      BY <1>3, <1>4
  <2>2. \A u \in RegistryThreads : ~(call[u].op = "loop" /\ call[u].key = j)
      BY <1>4, <1>5
  <2> QED BY <1>7, <2>1, <2>2 DEF Registry!SettingsReachEveryLogger, Registry!Agrees
<1> QED BY <1>9, <1>10

(* One round of a loop.  A round of one that holds the mutex is alone;     *)
(* that of another one is about the handler of errors.                     *)
LEMMA LoopGoesOn ==
    ASSUME Registry!RegistryAssumption, Registry!TypeOK, CallsInv, MutexInv, LoopInv,
           Registry!SettingsReachEveryLogger,
           NEW t \in RegistryThreads, Registry!SetNext(t)
    PROVE  LoopInv' /\ Registry!SettingsReachEveryLogger'
<1> DEFINE k == call[t].key
<1>1. PICK l \in Registry!Registered \ call[t].seen :
        /\ obj' = [obj EXCEPT ![l][k] = call[t].value]
        /\ call' = [call EXCEPT ![t].seen = @ \union {l}]
        /\ own' = IF call[t].stores THEN own \ {<<l, k>>} ELSE own \union {<<l, k>>}
    BY DEF Registry!SetNext
<1>2. /\ call[t] \in Call /\ call[t].op = "loop" /\ l \in 1 .. Len(obj) /\ l \in Nat
      /\ k \in Registry!Settings /\ call[t].value \in Registry!Value
    BY OpType, CallTypes, LenProperties DEF Registry!SetNext, Registry!TypeOK
<1> DEFINE c == [call[t] EXCEPT !.seen = @ \union {l}]
<1>3. /\ c \in Call /\ c.op = "loop" /\ call' = [call EXCEPT ![t] = c]
      /\ c.seen = call[t].seen \union {l} /\ c.key = k /\ c.value = call[t].value
      /\ c.stores = call[t].stores /\ c.todo = call[t].todo
    BY <1>1, <1>2, SeenType
<1> HIDE DEF c
<1>4. call'[t] = c /\ \A u \in RegistryThreads \ {t} : call'[u] = call[u]
    BY <1>3, CallMoves
<1>5. /\ obj'[l][k] = call[t].value
      /\ \A m \in Registry!Registered, j \in Registry!Settings : m # l \/ j # k => obj'[m][j] = obj[m][j]
    BY <1>1, <1>2, SetObject DEF Registry!TypeOK
<1>6. \A m, j : m # l \/ j # k => (<<m, j>> \in own' <=> <<m, j>> \in own)
    BY <1>1
<1>7. UNCHANGED <<loggers, settings>> /\ Registry!Registered' = Registry!Registered
    BY DEF Registry!SetNext, Registry!Registered, Registry!Range
<1> HIDE DEF k
<1>8. LoopInv'
  <2> SUFFICES ASSUME NEW u \in RegistryThreads, call'[u].op = "loop",
                      Registry!Locked(call'[u].key)
               PROVE  LET j == call'[u].key
                      IN  /\ call'[u].todo = Registry!Registered
                          /\ IF call'[u].stores
                               THEN \A m \in Registry!Registered \intersect call'[u].seen :
                                       <<m, j>> \notin own' => obj'[m][j] = call'[u].value
                               ELSE \A m \in Registry!Registered :
                                       <<m, j>> \notin own' => obj'[m][j] = settings[j]
      BY <1>7 DEF LoopInv, Registry!Locked
  <2>1. CASE u # t
    <3>1. call'[u] = call[u] /\ Exclusive(u) /\ call[u].key \in Registry!Settings
        BY <1>4, <2>1, OpType, CallTypes DEF Exclusive
    <3>2. ~Exclusive(t)
        BY <2>1, <3>1 DEF MutexInv
    <3>3. call[u].key # k
        BY <1>2, <3>1, <3>2 DEF Exclusive, k
    <3> QED BY <1>5, <1>6, <3>1, <3>3 DEF LoopInv
  <2>2. CASE u = t
    <3>1. /\ call[t].todo = Registry!Registered
          /\ IF call[t].stores
               THEN \A m \in Registry!Registered \intersect call[t].seen :
                       <<m, k>> \notin own => obj[m][k] = call[t].value
               ELSE \A m \in Registry!Registered : <<m, k>> \notin own => obj[m][k] = settings[k]
        BY <1>2, <1>3, <1>4, <2>2 DEF LoopInv, k
    <3>2. CASE call[t].stores
      <4>1. ASSUME NEW m \in Registry!Registered \intersect (call[t].seen \union {l}),
                   <<m, k>> \notin own'
            PROVE  obj'[m][k] = call[t].value
        <5>1. CASE m = l
            BY <1>5, <5>1
        <5>2. CASE m # l
            BY <1>2, <1>5, <1>6, <3>1, <3>2, <4>1, <5>2
        <5> QED BY <5>1, <5>2
      <4>2. /\ call'[u].key = k /\ call'[u].todo = Registry!Registered /\ call'[u].stores
            /\ call'[u].seen = call[t].seen \union {l} /\ call'[u].value = call[t].value
          BY <1>3, <1>4, <2>2, <3>1, <3>2
      <4> QED BY <4>1, <4>2
    <3>3. CASE ~call[t].stores
      <4>1. <<l, k>> \in own'
          BY <1>1, <3>3 DEF k
      <4> QED BY <1>2, <1>3, <1>4, <1>5, <1>6, <2>2, <3>1, <3>3, <4>1
    <3> QED BY <3>2, <3>3
  <2> QED BY <2>1, <2>2
<1>9. Registry!SettingsReachEveryLogger'
  <2> SUFFICES ASSUME NEW j \in Registry!Settings \ {"err_handler"},
                      \A u \in RegistryThreads : ~(call'[u].op = "loop" /\ call'[u].key = j),
                      NEW m \in Registry!Registered, <<m, j>> \notin own'
               PROVE  obj'[m][j] = settings[j]
      BY <1>7 DEF Registry!SettingsReachEveryLogger, Registry!Agrees
  <2>1. j # k
      BY <1>3, <1>4
  <2>2. \A u \in RegistryThreads : ~(call[u].op = "loop" /\ call[u].key = j)
      BY <1>4, <2>1 DEF k
  <2> QED BY <1>5, <1>6, <2>1, <2>2 DEF Registry!SettingsReachEveryLogger, Registry!Agrees
<1> QED BY <1>8, <1>9

(* The loop ends, when it has seen every logger there is.                  *)
LEMMA LoopEnds ==
    ASSUME Registry!RegistryAssumption, Registry!TypeOK, CallsInv, MutexInv, LoopInv,
           Registry!SettingsReachEveryLogger,
           NEW t \in RegistryThreads, Registry!EndSetting(t)
    PROVE  LoopInv' /\ Registry!SettingsReachEveryLogger'
<1> DEFINE k == call[t].key
<1>1. call'[t] = Registry!Idle /\ \A u \in RegistryThreads \ {t} : call'[u] = call[u]
    BY CallTypes, CallMoves DEF Registry!EndSetting
<1>2. call[t].op = "loop" /\ k \in Registry!Settings /\ Registry!Idle.op # "loop"
    BY OpType, CallTypes DEF Registry!EndSetting
<1>3. UNCHANGED <<loggers, obj, own>> /\ Registry!Registered' = Registry!Registered
    BY DEF Registry!EndSetting, Registry!Registered, Registry!Range
<1>4. /\ \A j \in Registry!Settings : j # k => settings'[j] = settings[j]
      /\ settings'[k] = IF call[t].stores THEN call[t].value ELSE settings[k]
    BY <1>2 DEF Registry!EndSetting, Registry!TypeOK
<1>5. call[t].todo \intersect Registry!Registered \subseteq call[t].seen
    BY DEF Registry!EndSetting
<1> HIDE DEF k
<1>6. LoopInv'
  <2> SUFFICES ASSUME NEW u \in RegistryThreads, call'[u].op = "loop",
                      Registry!Locked(call'[u].key)
               PROVE  LET j == call'[u].key
                      IN  /\ call'[u].todo = Registry!Registered
                          /\ IF call'[u].stores
                               THEN \A m \in Registry!Registered \intersect call'[u].seen :
                                       <<m, j>> \notin own => obj[m][j] = call'[u].value
                               ELSE \A m \in Registry!Registered :
                                       <<m, j>> \notin own => obj[m][j] = settings'[j]
      BY <1>3 DEF LoopInv, Registry!Locked
  <2>1. u # t
      BY <1>1, <1>2
  <2>2. call'[u] = call[u] /\ Exclusive(u) /\ call[u].key \in Registry!Settings
      BY <1>1, <2>1, OpType, CallTypes DEF Exclusive
  <2>3. ~Exclusive(t)
      BY <2>1, <2>2 DEF MutexInv
  <2>4. call[u].key # k
      BY <1>2, <2>2, <2>3 DEF Exclusive, k
  <2> QED BY <1>4, <2>2, <2>4 DEF LoopInv
<1>7. Registry!SettingsReachEveryLogger'
  <2> SUFFICES ASSUME NEW j \in Registry!Settings \ {"err_handler"},
                      \A u \in RegistryThreads : ~(call'[u].op = "loop" /\ call'[u].key = j),
                      NEW m \in Registry!Registered, <<m, j>> \notin own
               PROVE  obj[m][j] = settings'[j]
      BY <1>3 DEF Registry!SettingsReachEveryLogger, Registry!Agrees
  <2>1. CASE j = k
    <3>1. /\ call[t].todo = Registry!Registered
          /\ IF call[t].stores
               THEN \A l \in Registry!Registered \intersect call[t].seen :
                       <<l, k>> \notin own => obj[l][k] = call[t].value
               ELSE \A l \in Registry!Registered : <<l, k>> \notin own => obj[l][k] = settings[k]
        BY <1>2, <2>1 DEF LoopInv, Registry!Locked, k
    <3> QED BY <1>4, <1>5, <2>1, <3>1
  <2>2. CASE j # k
    <3>1. \A u \in RegistryThreads : ~(call[u].op = "loop" /\ call[u].key = j)
        BY <1>1, <2>2 DEF k
    <3> QED BY <1>4, <2>2, <3>1 DEF Registry!SettingsReachEveryLogger, Registry!Agrees
  <2> QED BY <2>1, <2>2
<1> QED BY <1>6, <1>7

(* Every step keeps what the loops have done so far, and the settings of   *)
(* all loggers when nobody loops.                                          *)
LEMMA SettingsStep ==
    ASSUME Registry!RegistryAssumption, Registry!TypeOK, CallsInv, MutexInv, LoopInv,
           Registry!SettingsReachEveryLogger,
           [Registry!Next]_(Registry!vars)
    PROVE  LoopInv' /\ Registry!SettingsReachEveryLogger'
<1>0. Registry!Idle \in Call /\ Registry!Idle.op = "idle"
    BY CallTypes
<1>1. ASSUME NEW t \in RegistryThreads, Registry!CreateSink(t)
      PROVE  LoopInv' /\ Registry!SettingsReachEveryLogger'
  <2>1. PICK n \in RegistryNames, async \in BOOLEAN :
           Registry!Begin(t, [op |-> "create", name |-> n, async |-> async])
      BY <1>1 DEF Registry!CreateSink
  <2> DEFINE c == [op |-> "create", name |-> n, async |-> async]
  <2>2. c \in Call /\ c.op = "create"
      BY DEF Call
  <2>3. /\ call[t] = Registry!Idle /\ call'[t] = c
        /\ \A u \in RegistryThreads \ {t} : call'[u] = call[u]
      BY <2>1, <2>2, BeginCall
  <2> HIDE DEF c
  <2> QED BY <1>0, <1>1, <2>2, <2>3, SettingsUnchanged DEF Registry!CreateSink
<1>2. ASSUME NEW t \in RegistryThreads, Registry!CheckName(t)
      PROVE  LoopInv' /\ Registry!SettingsReachEveryLogger'
  <2>1. call[t] \in Call /\ call[t].op = "create"
      BY <1>2, OpType DEF Registry!CheckName
  <2>2. \E c \in Call : call' = [call EXCEPT ![t] = c] /\ c.op # "loop"
    <3> DEFINE c == [call[t] EXCEPT !.op = "construct"]
    <3>1. c \in Call /\ c.op = "construct"
        BY <2>1, ConstructType
    <3>2. call' = [call EXCEPT ![t] = Registry!Idle] \/ call' = [call EXCEPT ![t] = c]
        BY <1>2 DEF Registry!CheckName
    <3> HIDE DEF c
    <3> QED BY <1>0, <3>1, <3>2
  <2>3. call'[t].op # "loop" /\ \A u \in RegistryThreads \ {t} : call'[u] = call[u]
      BY <2>2, CallMoves
  <2> QED BY <1>2, <2>1, <2>3, SettingsUnchanged DEF Registry!CheckName
<1>3. ASSUME NEW t \in RegistryThreads, Registry!Construct(t)
      PROVE  LoopInv' /\ Registry!SettingsReachEveryLogger'
  <2> DEFINE n == call[t].name
             size == IF call[t].async THEN 1 ELSE queueSize
  <2>1. /\ n \in RegistryNames /\ n \notin DOMAIN loggers /\ size \in 0 .. 1
        /\ mutex = t /\ call[t].op # "loop"
      BY <1>3, OpType, CallTypes DEF Registry!Construct, MutexInv, Exclusive,
         Registry!TypeOK
  <2>2. Registry!Add(n, Registry!New(size, settings)) /\ UNCHANGED <<settings, own>>
      BY <1>3 DEF Registry!Construct
  <2>3. /\ Registry!New(size, settings) \in LogObj
        /\ \A k \in Registry!Settings : Registry!New(size, settings)[k] = settings[k]
      BY <2>1, NewType
  <2> HIDE DEF n, size
  <2>4. /\ Registry!Registered' = Registry!Registered \union {Len(obj) + 1}
        /\ \A l \in 1 .. Len(obj) : obj'[l] = obj[l]
        /\ obj'[Len(obj) + 1] = Registry!New(size, settings)
      BY <2>1, <2>2, <2>3, AddedLogger
  <2>5. call'[t] = Registry!Idle /\ \A u \in RegistryThreads \ {t} : call'[u] = call[u]
      BY <1>0, <1>3, CallMoves DEF Registry!Construct
  <2>6. Registry!Registered \subseteq 1 .. Len(obj)
      BY DEF Registry!TypeOK
  <2> QED BY <1>0, <2>1, <2>2, <2>3, <2>4, <2>5, <2>6, SettingsAfterChange
<1>4. ASSUME NEW t \in RegistryThreads, Registry!RegisterLogger(t)
      PROVE  LoopInv' /\ Registry!SettingsReachEveryLogger'
  <2>1. mutex = "none" /\ Registry!Begin(t, Registry!Idle) /\ settings' = settings
      BY <1>4 DEF Registry!RegisterLogger, Registry!Free
  <2>2. call[t] = Registry!Idle /\ call'[t] = Registry!Idle /\ \A u \in RegistryThreads \ {t} : call'[u] = call[u]
      BY <1>0, <2>1, BeginCall
  <2>3. PICK n \in RegistryNames :
          \/ UNCHANGED <<loggers, obj, own>>
          \/ /\ n \notin DOMAIN loggers
             /\ Registry!Add(n, Registry!New(0, Registry!Default))
             /\ own' = own \union ({Len(obj) + 1} \X Registry!Settings)
      BY <1>4 DEF Registry!RegisterLogger
  <2>4. CASE UNCHANGED <<loggers, obj, own>>
      BY <1>0, <2>1, <2>2, <2>4, SettingsUnchanged
  <2>5. CASE n \notin DOMAIN loggers /\ Registry!Add(n, Registry!New(0, Registry!Default))
               /\ own' = own \union ({Len(obj) + 1} \X Registry!Settings)
    <3>1. Registry!New(0, Registry!Default) \in LogObj
        BY NewType
    <3>2. /\ Registry!Registered' = Registry!Registered \union {Len(obj) + 1}
          /\ \A l \in 1 .. Len(obj) : obj'[l] = obj[l]
        BY <2>5, <3>1, AddedLogger
    <3>3. own \subseteq own' /\ \A k \in Registry!Settings : <<Len(obj) + 1, k>> \in own'
        BY <2>5
    <3>4. Registry!Registered \subseteq 1 .. Len(obj)
        BY DEF Registry!TypeOK
    <3> QED BY <1>0, <2>1, <2>2, <3>2, <3>3, <3>4, SettingsAfterChange
  <2> QED BY <2>3, <2>4, <2>5
<1>5. ASSUME NEW t \in RegistryThreads, Registry!Drop(t)
      PROVE  LoopInv' /\ Registry!SettingsReachEveryLogger'
  <2>1. mutex = "none" /\ Registry!Begin(t, Registry!Idle) /\ UNCHANGED <<settings, obj, own>>
      BY <1>5 DEF Registry!Drop, Registry!Free
  <2>2. call[t] = Registry!Idle /\ call'[t] = Registry!Idle /\ \A u \in RegistryThreads \ {t} : call'[u] = call[u]
      BY <1>0, <2>1, BeginCall
  <2>3. Registry!Registered' \subseteq Registry!Registered
      BY <1>5, DroppedLoggers DEF Registry!Drop
  <2> QED BY <1>0, <2>1, <2>2, <2>3, SettingsAfterChange
<1>6. ASSUME NEW t \in RegistryThreads, Registry!SetMode(t)
      PROVE  LoopInv' /\ Registry!SettingsReachEveryLogger'
  <2>1. call[t] = Registry!Idle /\ call'[t] = Registry!Idle /\ \A u \in RegistryThreads \ {t} : call'[u] = call[u]
      BY <1>0, <1>6, BeginCall DEF Registry!SetMode
  <2> QED BY <1>0, <1>6, <2>1, SettingsUnchanged DEF Registry!SetMode
<1>7. ASSUME NEW t \in RegistryThreads, Registry!SetLogger(t)
      PROVE  LoopInv' /\ Registry!SettingsReachEveryLogger'
  <2>1. call[t] = Registry!Idle /\ call'[t] = Registry!Idle /\ \A u \in RegistryThreads \ {t} : call'[u] = call[u]
      BY <1>0, <1>7, BeginCall DEF Registry!SetLogger
  <2>2. PICK l \in DOMAIN obj, k \in Registry!Settings, v \in 1 .. MaxSetting :
          obj' = [obj EXCEPT ![l][k] = v] /\ own' = own \union {<<l, k>>}
      BY <1>7 DEF Registry!SetLogger
  <2>3. l \in 1 .. Len(obj) /\ v \in Registry!Value
      BY <2>2, LenProperties DEF Registry!Value, Registry!RegistryAssumption,
         Registry!TypeOK
  <2>4. \A m \in Registry!Registered, j \in Registry!Settings :
          <<m, j>> \notin own' => <<m, j>> \notin own /\ obj'[m][j] = obj[m][j]
      BY <2>2, <2>3, SetObject DEF Registry!TypeOK
  <2>5. UNCHANGED <<loggers, settings>> /\ Registry!Registered' = Registry!Registered
      BY <1>7 DEF Registry!SetLogger, Registry!Registered, Registry!Range
  <2>6. \A u \in RegistryThreads : call'[u] = call[u]
      BY <2>1
  <2>7. LoopInv'
    <3> SUFFICES ASSUME NEW u \in RegistryThreads, call[u].op = "loop",
                        Registry!Locked(call[u].key)
                 PROVE  LET j == call[u].key
                        IN  /\ call[u].todo = Registry!Registered
                            /\ IF call[u].stores
                                 THEN \A m \in Registry!Registered \intersect call[u].seen :
                                         <<m, j>> \notin own' => obj'[m][j] = call[u].value
                                 ELSE \A m \in Registry!Registered :
                                         <<m, j>> \notin own' => obj'[m][j] = settings[j]
        BY <2>5, <2>6 DEF LoopInv, Registry!Locked
    <3>1. call[u].key \in Registry!Settings
        BY OpType, CallTypes
    <3> QED BY <2>4, <3>1 DEF LoopInv
  <2>8. Registry!SettingsReachEveryLogger'
      BY <2>4, <2>5, <2>6 DEF Registry!SettingsReachEveryLogger, Registry!Agrees
  <2> QED BY <2>7, <2>8
<1>8. CASE Registry!Write \/ UNCHANGED Registry!vars
    BY <1>8, SettingsUnchanged DEF Registry!Write, Registry!vars
<1> QED
    BY <1>1, <1>2, <1>3, <1>4, <1>5, <1>6, <1>7, <1>8, LoopBegins, LoopGoesOn, LoopEnds
    DEF Registry!Next, Registry!Step

-----------------------------------------------------------------------------
(* The theorems.                                                           *)

(* The invariant holds of every registry, with any threads, names, values  *)
(* and numbers of calls.                                                   *)
THEOREM RegistryInvariantHolds ==
    ASSUME Registry!RegistryAssumption
    PROVE  Registry!Spec => []RegistryInv
<1>1. Registry!Init => RegistryInv
  <2> SUFFICES ASSUME Registry!Init PROVE RegistryInv
      OBVIOUS
  <2>1. Registry!TypeOK /\ CallsInv
      BY TypeInit
  <2>2. Registry!Registered = {} /\ \A t \in RegistryThreads : call[t].op = "idle"
      BY CallTypes DEF Registry!Init, Registry!Registered, Registry!Range
  <2>3. MutexInv /\ LoopInv /\ Registry!SettingsReachEveryLogger
      BY <2>2 DEF MutexInv, Exclusive, LoopInv, Registry!SettingsReachEveryLogger,
             Registry!Agrees
  <2> QED BY <2>1, <2>3 DEF RegistryInv
<1>2. RegistryInv /\ [Registry!Next]_(Registry!vars) => RegistryInv'
    BY TypeStep, MutexStep, SettingsStep DEF RegistryInv
<1> QED BY <1>1, <1>2, PTL DEF Registry!Spec

(* The registry is one of the parts: its own steps are the only ones that  *)
(* change it.                                                              *)
LEMMA RegistryIsPart ==
    /\ Init => Registry!Init
    /\ [Next]_vars => [Registry!Next]_(Registry!vars)
BY DEF Init, Next, Others, vars, registryVars, Registry!vars

(* Whenever nobody is in the middle of setting it, level, flush level and  *)
(* formatter of every logger are those set last for all, or its user's     *)
(* own: also of a logger that was under construction when the loop ran.    *)
THEOREM SettingsReachAll ==
    ASSUME LoggingAssumption
    PROVE  Spec => []SettingsReachEveryLogger
<1>1. Registry!RegistryAssumption
    BY DEF LoggingAssumption
<1>2. RegistryInv => SettingsReachEveryLogger
    BY DEF RegistryInv, SettingsReachEveryLogger
<1> QED
    BY <1>1, <1>2, RegistryIsPart, RegistryInvariantHolds, PTL DEF Spec, Registry!Spec

(* A name keeps its logger until it is dropped, although the logger is     *)
(* made after its name was looked up: the mutex is held in between.        *)
THEOREM NamesKeepTheirLoggers ==
    ASSUME LoggingAssumption
    PROVE  Spec => NoLoggerIsReplaced
<1>1. Registry!RegistryAssumption
    BY DEF LoggingAssumption
<1>2. RegistryInv /\ [Next]_vars => [Registry!LoggersStay]_vars
    BY <1>1, RegistryIsPart, LoggersStayStep DEF RegistryInv, vars, registryVars,
       Registry!vars
<1> QED
    BY <1>1, <1>2, RegistryIsPart, RegistryInvariantHolds, PTL
    DEF Spec, Registry!Spec, NoLoggerIsReplaced

-----------------------------------------------------------------------------
(* The other parts, as instances of what is proved of any queue, logger,   *)
(* sink and formatter.  Definitions of a part and of the instance it is    *)
(* proved by say the same under two names.                                 *)

(* The bounded queue.                                                      *)
Queues == INSTANCE QueueProofs WITH
    Producers <- {"p1", "p2"}, Consumers <- {"c1", "c2"}

LEMMA QueueIsPart ==
    /\ Init => Queues!Init
    /\ [Next]_vars => [Queues!Next]_(Queues!vars)
<1>1. ASSUME Queue!Init PROVE Queues!Init
    BY <1>1, Zenon DEF Queue!Init, Queue!Threads, Queues!Init,
       Queues!Threads
<1>2. ASSUME Queue!Next PROVE Queues!Next
    BY <1>2, Zenon DEF Queue!Next, Queue!ProducerStep, Queue!ConsumerStep,
       Queue!TimeOut, Queue!Threads, Queue!SpuriousWakeUp, Queue!Enqueue,
       Queue!EnqueueNowait, Queue!EnqueueAgain, Queue!NotifyOne,
       Queue!DequeueFor, Queue!DequeueAfterTimeOut, Queue!Goto,
       Queue!HasRoom, Queue!Push, Queue!Notified, Queue!HasItems, Queue!Pop,
       Queue!At, Queues!Next, Queues!ProducerStep, Queues!ConsumerStep,
       Queues!TimeOut, Queues!Threads, Queues!SpuriousWakeUp,
       Queues!Enqueue, Queues!EnqueueNowait, Queues!EnqueueAgain,
       Queues!NotifyOne, Queues!DequeueFor, Queues!DequeueAfterTimeOut,
       Queues!Goto, Queues!HasRoom, Queues!Push, Queues!Notified,
       Queues!HasItems, Queues!Pop, Queues!At
<1> QED BY <1>1, <1>2 DEF Init, Next, Others, vars, queueVars, Queues!vars

(* The asynchronous logger, whose clients wait for room or do not: the     *)
(* variables are the same, and part says which it is.                      *)
Waiter == INSTANCE AsyncLogProofs WITH
    Clients <- {"c1", "c2"}, Sinks <- {"console", "file"},
    SinkLevel <- AsyncSinkLevel, MayFail <- {"console"}, Levels <- {1, 2},
    FlushLevel <- 2, BlockRetry <- TRUE, FlushInterval <- 1,
    q <- asyncQ, calls <- clientCalls, pc <- clientPc

Discarder == INSTANCE AsyncLogProofs WITH
    Clients <- {"c1"}, MaxItems <- 1, MaxCalls <- MaxLogged + 1, Sinks <- {"console", "file"},
    SinkLevel <- AsyncSinkLevel, MayFail <- {"console"}, Levels <- {1, 2},
    FlushLevel <- 2, BlockRetry <- FALSE, FlushInterval <- 1,
    q <- asyncQ, calls <- clientCalls, pc <- clientPc

LEMMA WaiterIsPart ==
    ASSUME part # "discarding"
    PROVE  /\ Init => Waiter!Init
           /\ [Next]_vars => part' # "discarding" /\ [Waiter!Next]_(Waiter!vars)
<1>1. ASSUME Waiting!Init PROVE Waiter!Init
    BY <1>1, Zenon DEF Waiting!Init, Waiter!Init
<1>2. ASSUME Waiting!Next PROVE Waiter!Next
    BY <1>2, Zenon DEF Waiting!Next, Waiting!Log, Waiting!FlushOnLevel,
       Waiting!Flush, Waiting!Worker, Waiting!Destroy, Waiting!Joined,
       Waiting!TimePasses, Waiting!CanCall, Waiting!enqueue_msg,
       Waiting!LogMsg, Waiting!Room, Waiting!should_flush_on,
       Waiting!sinkVars, Waiting!Request, Waiting!history, Waiting!Dequeue,
       Waiting!DequeueTimeOut, Waiting!ProcessLog, Waiting!ProcessFlush,
       Waiting!ProcessTerminate, Waiting!Off, Waiting!HandleFlushInterval,
       Waiting!WriteTo, Waiting!Wanting, Waiting!FlushSinks,
       Waiting!should_log, Waiter!Next, Waiter!Log, Waiter!FlushOnLevel,
       Waiter!Flush, Waiter!Worker, Waiter!Destroy, Waiter!Joined,
       Waiter!TimePasses, Waiter!CanCall, Waiter!enqueue_msg, Waiter!LogMsg,
       Waiter!Room, Waiter!should_flush_on, Waiter!sinkVars, Waiter!Request,
       Waiter!history, Waiter!Dequeue, Waiter!DequeueTimeOut,
       Waiter!ProcessLog, Waiter!ProcessFlush, Waiter!ProcessTerminate,
       Waiter!Off, Waiter!HandleFlushInterval, Waiter!WriteTo,
       Waiter!Wanting, Waiter!FlushSinks, Waiter!should_log
<1> QED BY <1>1, <1>2 DEF Init, Next, Others, vars, asyncVars, Waiter!vars,
           Waiter!sinkVars, Waiter!history

LEMMA DiscarderIsPart ==
    ASSUME part = "discarding"
    PROVE  /\ Init => Discarder!Init
           /\ [Next]_vars => part' = "discarding" /\ [Discarder!Next]_(Discarder!vars)
<1>1. ASSUME Discarding!Init PROVE Discarder!Init
    BY <1>1, Zenon DEF Discarding!Init, Discarder!Init
<1>2. ASSUME Discarding!Next PROVE Discarder!Next
    BY <1>2, Zenon DEF Discarding!Next, Discarding!Log,
       Discarding!FlushOnLevel, Discarding!Flush, Discarding!Worker,
       Discarding!Destroy, Discarding!Joined, Discarding!TimePasses,
       Discarding!CanCall, Discarding!enqueue_msg, Discarding!LogMsg,
       Discarding!Room, Discarding!should_flush_on, Discarding!sinkVars,
       Discarding!Request, Discarding!history, Discarding!Dequeue,
       Discarding!DequeueTimeOut, Discarding!ProcessLog,
       Discarding!ProcessFlush, Discarding!ProcessTerminate, Discarding!Off,
       Discarding!HandleFlushInterval, Discarding!WriteTo,
       Discarding!Wanting, Discarding!FlushSinks, Discarding!should_log,
       Discarder!Next, Discarder!Log, Discarder!FlushOnLevel,
       Discarder!Flush, Discarder!Worker, Discarder!Destroy,
       Discarder!Joined, Discarder!TimePasses, Discarder!CanCall,
       Discarder!enqueue_msg, Discarder!LogMsg, Discarder!Room,
       Discarder!should_flush_on, Discarder!sinkVars, Discarder!Request,
       Discarder!history, Discarder!Dequeue, Discarder!DequeueTimeOut,
       Discarder!ProcessLog, Discarder!ProcessFlush,
       Discarder!ProcessTerminate, Discarder!Off,
       Discarder!HandleFlushInterval, Discarder!WriteTo, Discarder!Wanting,
       Discarder!FlushSinks, Discarder!should_log
<1> QED BY <1>1, <1>2 DEF Init, Next, Others, vars, asyncVars, Discarder!vars,
           Discarder!sinkVars, Discarder!history

(* The bounded queue hands on every item in its order, no wake-up is lost  *)
(* and its threads do not all wait; and the asynchronous logger gives its  *)
(* sinks their messages, of which its destructor leaves none unwritten or  *)
(* unflushed.                                                              *)
THEOREM AsyncLoggingKeepsItsPromises ==
    ASSUME LoggingAssumption
    PROVE  Spec => []AsyncLoggingLosesNothing
<1> DEFINE Q == /\ Queues!QueueInv /\ Queues!ProducersKeepOrder /\ Queues!NotAllWait
           W == /\ Waiter!HelperInv /\ Waiter!SinksGetTheirMessages
                /\ Waiter!DestructionDrains /\ Waiter!GraveMessagesAreFlushed
           D == /\ Discarder!HelperInv /\ Discarder!SinksGetTheirMessages
                /\ Discarder!DestructionDrains
<1>1. Queues!Spec => []Q
  <2>0. Queue!QueueAssumption
      BY DEF LoggingAssumption
  <2>1. Queues!QueueAssumption
      BY <2>0 DEF Queue!QueueAssumption, Queues!QueueAssumption, Queue!IsFiniteSet,
                  Queues!IsFiniteSet
  <2>2. MaxItems # 0 /\ {"p1", "p2"} # {} /\ {"c1", "c2"} # {}
      BY DEF LoggingAssumption, Waiting!HelperAssumption
  <2>3. Queues!Spec => []Queues!NotAllWait
      BY <2>1, <2>2, Queues!ThreadsDoNotAllWait
  <2> QED BY <2>1, <2>3, Queues!QueueInvariantHolds, Queues!ProducersOrderIsKept,
             PTL
<1>2. Waiter!Spec => []W
  <2>0. Waiting!HelperAssumption
      BY DEF LoggingAssumption
  <2>1. Waiter!HelperAssumption
      BY <2>0 DEF Waiting!HelperAssumption, Waiter!HelperAssumption, Waiting!IsFiniteSet,
                  Waiter!IsFiniteSet
  <2> QED BY <2>1, Waiter!HelperInvariantHolds, Waiter!SinksHaveTheirMessages,
             Waiter!DestructionLeavesNothing, Waiter!GraveMessagesReachTheFiles, PTL
<1>3. Discarder!Spec => []D
  <2>0. Discarding!HelperAssumption
      BY DEF LoggingAssumption
  <2>1. Discarder!HelperAssumption
      BY <2>0 DEF Discarding!HelperAssumption, Discarder!HelperAssumption,
             Discarding!IsFiniteSet,
                  Discarder!IsFiniteSet
  <2> QED BY <2>1, Discarder!HelperInvariantHolds, Discarder!SinksHaveTheirMessages,
             Discarder!DestructionLeavesNothing, PTL
<1>4. ASSUME Q, part = "discarding" => D, part # "discarding" => W
      PROVE  AsyncLoggingLosesNothing
  <2>1. /\ Queue!TypeOK /\ Queue!FirstInFirstOut /\ Queue!ProducersKeepOrder
        /\ Queue!NoWakeUpIsLost /\ Queue!NotAllWait
    <3>1. /\ Queues!TypeOK /\ Queues!FirstInFirstOut /\ Queues!ProducersKeepOrder
          /\ Queues!NoWakeUpIsLost /\ Queues!NotAllWait
        BY <1>4 DEF Queues!QueueInv
    <3>2. Queue!TypeOK
        BY <3>1, Zenon DEF Queue!TypeOK, Queue!Item, Queue!Threads,
           Queue!State, Queues!TypeOK, Queues!Item, Queues!Threads,
           Queues!State
    <3>3. Queue!FirstInFirstOut
        BY <3>1, Zenon DEF Queue!FirstInFirstOut, Queues!FirstInFirstOut
    <3>4. Queue!ProducersKeepOrder
        BY <3>1, Zenon DEF Queue!ProducersKeepOrder,
           Queues!ProducersKeepOrder
    <3>5. Queue!NoWakeUpIsLost
        BY <3>1, Zenon DEF Queue!NoWakeUpIsLost, Queue!At,
           Queue!Cardinality, Queue!IsFiniteSet, Queues!NoWakeUpIsLost,
           Queues!At, Queues!Cardinality, Queues!IsFiniteSet
    <3>6. Queue!NotAllWait
        BY <3>1, Zenon DEF Queue!NotAllWait, Queue!Threads,
           Queues!NotAllWait, Queues!Threads
    <3> QED BY <3>2, <3>3, <3>4, <3>5, <3>6
  <2>2. ASSUME part = "discarding"
        PROVE  /\ Discarding!TypeOK /\ Discarding!SinksGetTheirMessages
               /\ Discarding!DestructionDrains
    <3>1. /\ Discarder!TypeOK /\ Discarder!SinksGetTheirMessages
          /\ Discarder!DestructionDrains
        BY <1>4, <2>2 DEF Discarder!HelperInv
    <3>2. Discarding!TypeOK
        BY <3>1, Zenon DEF Discarding!TypeOK, Discarding!AsyncMsg,
           Discarding!Message, Discarder!TypeOK, Discarder!AsyncMsg,
           Discarder!Message
    <3>3. Discarding!SinksGetTheirMessages
        BY <3>1, Zenon DEF Discarding!SinksGetTheirMessages,
           Discarding!PlacesFor, Discarding!should_log,
           Discarding!Cardinality, Discarding!IsFiniteSet,
           Discarder!SinksGetTheirMessages, Discarder!PlacesFor,
           Discarder!should_log, Discarder!Cardinality,
           Discarder!IsFiniteSet
    <3>4. Discarding!DestructionDrains
        BY <3>1, Zenon DEF Discarding!DestructionDrains,
           Discarder!DestructionDrains
    <3> QED BY <3>2, <3>3, <3>4
  <2>3. ASSUME part # "discarding"
        PROVE  /\ Waiting!TypeOK /\ Waiting!SinksGetTheirMessages
               /\ Waiting!DestructionDrains /\ Waiting!GraveMessagesAreFlushed
    <3>1. /\ Waiter!TypeOK /\ Waiter!SinksGetTheirMessages
          /\ Waiter!DestructionDrains /\ Waiter!GraveMessagesAreFlushed
        BY <1>4, <2>3 DEF Waiter!HelperInv
    <3>2. Waiting!TypeOK
        BY <3>1, Zenon DEF Waiting!TypeOK, Waiting!AsyncMsg,
           Waiting!Message, Waiter!TypeOK, Waiter!AsyncMsg, Waiter!Message
    <3>3. Waiting!SinksGetTheirMessages
        BY <3>1, Zenon DEF Waiting!SinksGetTheirMessages, Waiting!PlacesFor,
           Waiting!should_log, Waiting!Cardinality, Waiting!IsFiniteSet,
           Waiter!SinksGetTheirMessages, Waiter!PlacesFor,
           Waiter!should_log, Waiter!Cardinality, Waiter!IsFiniteSet
    <3>4. Waiting!DestructionDrains
        BY <3>1, Zenon DEF Waiting!DestructionDrains,
           Waiter!DestructionDrains
    <3>5. Waiting!GraveMessagesAreFlushed
        BY <3>1, Zenon DEF Waiting!GraveMessagesAreFlushed, Waiting!Off,
           Waiter!GraveMessagesAreFlushed, Waiter!Off
    <3> QED BY <3>2, <3>3, <3>4, <3>5
  <2> QED BY <2>1, <2>2, <2>3 DEF AsyncLoggingLosesNothing
<1> DEFINE A == part = "discarding"
<1>5. /\ A /\ Init => Discarder!Init
      /\ A /\ [Next]_vars => A' /\ [Discarder!Next]_(Discarder!vars)
    BY DiscarderIsPart
<1>6. /\ ~A /\ Init => Waiter!Init
      /\ ~A /\ [Next]_vars => ~A' /\ [Waiter!Next]_(Waiter!vars)
    BY WaiterIsPart
<1>7. Q /\ (A => D) /\ (~A => W) => AsyncLoggingLosesNothing
    BY <1>4
<1> HIDE DEF A, Q, W, D
<1> QED
    BY <1>1, <1>2, <1>3, <1>5, <1>6, <1>7, QueueIsPart, PTL
    DEF Spec, Queues!Spec, Waiter!Spec, Discarder!Spec

(* The logger, and the formatter of the offset.                            *)
Lines == INSTANCE SinkProofs WITH
    Threads <- LoggerThreads, LoggerName <- "logger", DistSink <- "dist",
    Sinks <- {"console", "file", "x", "y"},
    LoggerSinks <- <<"dist", "console", "file">>, InitialList <- <<"x", "y">>,
    SinkLevel <- LoggerSinkLevel, MayFail <- {"y"}, Levels <- {1, 2},
    FlushLevel <- 2, Minute <- 2, MaxTime <- 2,
    MaxCalls <- [t1 |-> MaxLogged, t2 |-> 1],
    Kind <- "wincolor", Foreground <- {"green", "white"},
    Default <- {"white", "on blue"},
    colors <- [info |-> {"green"}, critical |-> {"white", "on red"}],
    ShouldDoColors <- FALSE, MaxMessages <- 3,
    cache_refresh <- 3, Bias <- 2, DaylightSaving <- 1, SummerStart <- 6,
    PatternTime <- "local",
    calls <- logCalls, flushed <- outFlushed, mutex <- sinkMutex, call <- sinkCall

Zone == INSTANCE SinkProofs WITH
    Threads <- {"t1", "t2"}, LoggerName <- "logger", DistSink <- "dist",
    Sinks <- {"console", "file", "x", "y"},
    LoggerSinks <- <<"dist", "console", "file">>, InitialList <- <<"x", "y">>,
    SinkLevel <- LoggerSinkLevel, MayFail <- {"y"}, Levels <- {1, 2},
    FlushLevel <- 2, Minute <- 2, MaxTime <- 12,
    MaxCalls <- [t1 |-> MaxLogged, t2 |-> 1],
    Kind <- "wincolor", Foreground <- {"green", "white"},
    Default <- {"white", "on blue"},
    colors <- [info |-> {"green"}, critical |-> {"white", "on red"}],
    ShouldDoColors <- FALSE, MaxMessages <- 3,
    cache_refresh <- 3, Bias <- 2, DaylightSaving <- 1, SummerStart <- 6,
    PatternTime <- "local",
    calls <- logCalls, flushed <- outFlushed, mutex <- sinkMutex, call <- sinkCall,
    now <- offsetNow

LEMMA LoggerIsPart ==
    /\ Init => Lines!Sync!Init
    /\ [Next]_vars => [Lines!Sync!Next]_(Lines!Sync!vars)
<1>1. ASSUME Logger!Init PROVE Lines!Sync!Init
    BY <1>1, Zenon DEF Logger!Init, Logger!NoMessage, Logger!ToSet,
       Lines!Sync!Init, Lines!Sync!NoMessage, Lines!Sync!ToSet
<1>2. ASSUME Logger!Next PROVE Lines!Sync!Next
    BY <1>2, Zenon DEF Logger!Next, Logger!Step, Logger!Log, Logger!Flush,
       Logger!SetLevel, Logger!ChangeList, Logger!TimePasses, Logger!Skip,
       Logger!Write, Logger!EnterDist, Logger!Leave, Logger!Throw,
       Logger!CheckErrorTime, Logger!ReportError, Logger!Call, Logger!Loop,
       Logger!errVars, Logger!NoMessage, Logger!RemoveSink, Logger!logVars,
       Logger!More, Logger!Takes, Logger!NextSink, Logger!Advanced,
       Logger!Looping, Logger!Released, Logger!should_flush_on,
       Logger!Wants, Logger!Off, Logger!ToSet, Lines!Sync!Next,
       Lines!Sync!Step, Lines!Sync!Log, Lines!Sync!Flush,
       Lines!Sync!SetLevel, Lines!Sync!ChangeList, Lines!Sync!TimePasses,
       Lines!Sync!Skip, Lines!Sync!Write, Lines!Sync!EnterDist,
       Lines!Sync!Leave, Lines!Sync!Throw, Lines!Sync!CheckErrorTime,
       Lines!Sync!ReportError, Lines!Sync!Call, Lines!Sync!Loop,
       Lines!Sync!errVars, Lines!Sync!NoMessage, Lines!Sync!RemoveSink,
       Lines!Sync!logVars, Lines!Sync!More, Lines!Sync!Takes,
       Lines!Sync!NextSink, Lines!Sync!Advanced, Lines!Sync!Looping,
       Lines!Sync!Released, Lines!Sync!should_flush_on, Lines!Sync!Wants,
       Lines!Sync!Off, Lines!Sync!ToSet
<1> QED
    BY <1>1, <1>2 DEF Init, Next, Others, vars, loggerVars, Lines!Sync!vars,
       Lines!Sync!logVars, Lines!Sync!errVars

LEMMA OffsetIsPart ==
    /\ Init => Zone!Offset!Init
    /\ [Next]_vars => [Zone!Offset!Next]_(Zone!Offset!vars)
<1>1. ASSUME Offset!Init PROVE Zone!Offset!Init
    BY <1>1 DEF Offset!Init, Offset!NoTime, Zone!Offset!Init,
       Zone!Offset!NoTime
<1>2. ASSUME Offset!Next PROVE Zone!Offset!Next
    BY <1>2 DEF Offset!Next, Offset!TimePasses, Offset!Log, Offset!Format,
       Offset!NoTime, Offset!get_cached_offset, Offset!utc_minutes_offset,
       Offset!IsDst, Zone!Offset!Next, Zone!Offset!TimePasses,
       Zone!Offset!Log, Zone!Offset!Format, Zone!Offset!NoTime,
       Zone!Offset!get_cached_offset, Zone!Offset!utc_minutes_offset,
       Zone!Offset!IsDst
<1> QED
    BY <1>1, <1>2 DEF Init, Next, Others, vars, offsetVars, Zone!Offset!vars

(* A line reaches the sinks that want it and is flushed there if it asks   *)
(* for that, sinks behind a distribution sink agree on the order of lines, *)
(* and the UTC offset of a line is not older than the cache may be.        *)
THEOREM LinesReachTheirSinks ==
    ASSUME LoggingAssumption
    PROVE  Spec => []LinesArrive
<1> DEFINE L == /\ Lines!Sync!TypeOK /\ Lines!Sync!LoggedEverywhere
                /\ Lines!Sync!GraveMessagesAreFlushed /\ Lines!Sync!DistSinkKeepsOrder
           Z == Zone!Offset!TypeOK /\ Zone!Offset!OffsetIsRecent
<1>1. Lines!Sync!Spec => []L
  <2>1. Logger!LoggerAssumption
      BY DEF LoggingAssumption
  <2>2. Lines!Sync!LoggerAssumption
      BY <2>1 DEF Logger!LoggerAssumption, Lines!Sync!LoggerAssumption
  <2>3. Lines!OnceIn(<<"dist", "console", "file">>)
      BY DEF Lines!OnceIn
  <2> QED
      BY <2>2, <2>3, Lines!LoggerTypes, Lines!MessagesReachTheirSinks,
         Lines!GraveMessagesAreSecured, Lines!OrderIsKept, PTL
<1>2. Zone!Offset!Spec => []Z
  <2>1. Offset!OffsetAssumption
      BY DEF LoggingAssumption
  <2>2. Zone!Offset!OffsetAssumption
      BY <2>1 DEF Offset!OffsetAssumption, Zone!Offset!OffsetAssumption
  <2> QED BY <2>2, Zone!OffsetsAreRecent, PTL
<1>3. ASSUME L, Z
      PROVE  LinesArrive
  <2>1. /\ Lines!Sync!TypeOK /\ Lines!Sync!LoggedEverywhere
        /\ Lines!Sync!GraveMessagesAreFlushed /\ Lines!Sync!DistSinkKeepsOrder
        /\ Zone!Offset!TypeOK /\ Zone!Offset!OffsetIsRecent
      BY <1>3
  <2>2. Logger!TypeOK
      BY <2>1, Zenon DEF Logger!TypeOK, Logger!Looping, Logger!Message,
         Logger!NoMessage, Logger!ToSet, Lines!Sync!TypeOK,
         Lines!Sync!Looping, Lines!Sync!Message, Lines!Sync!NoMessage,
         Lines!Sync!ToSet
  <2>3. Logger!LoggedEverywhere
      BY <2>1, Zenon DEF Logger!LoggedEverywhere, Logger!NoMessage,
         Logger!Wants, Logger!ToSet, Lines!Sync!LoggedEverywhere,
         Lines!Sync!NoMessage, Lines!Sync!Wants, Lines!Sync!ToSet
  <2>4. Logger!GraveMessagesAreFlushed
      BY <2>1, Zenon DEF Logger!GraveMessagesAreFlushed, Logger!Off,
         Logger!ToSet, Lines!Sync!GraveMessagesAreFlushed, Lines!Sync!Off,
         Lines!Sync!ToSet
  <2>5. Logger!DistSinkKeepsOrder
      BY <2>1, Zenon DEF Logger!DistSinkKeepsOrder, Logger!Precedes,
         Logger!ToSet, Lines!Sync!DistSinkKeepsOrder, Lines!Sync!Precedes,
         Lines!Sync!ToSet
  <2>6. Offset!TypeOK
      BY <2>1 DEF Offset!TypeOK, Offset!NoTime, Offset!utc_minutes_offset,
         Offset!IsDst, Zone!Offset!TypeOK, Zone!Offset!NoTime,
         Zone!Offset!utc_minutes_offset, Zone!Offset!IsDst
  <2>7. Offset!OffsetIsRecent
      BY <2>1 DEF Offset!OffsetIsRecent, Offset!Formatted,
         Offset!utc_minutes_offset, Offset!NoTime, Offset!IsDst,
         Zone!Offset!OffsetIsRecent, Zone!Offset!Formatted,
         Zone!Offset!utc_minutes_offset, Zone!Offset!NoTime,
         Zone!Offset!IsDst
  <2> QED BY <2>2, <2>3, <2>4, <2>5, <2>6, <2>7 DEF LinesArrive
<1>4. L /\ Z => LinesArrive
    BY <1>3
<1> HIDE DEF L, Z
<1> QED
    BY <1>1, <1>2, <1>4, LoggerIsPart, OffsetIsPart, PTL
    DEF Spec, Lines!Sync!Spec, Zone!Offset!Spec

(* The coloured sinks: one of Windows, and two of a terminal.              *)
Windows == INSTANCE SinkProofs WITH
    Threads <- {"t1", "t2", "t3"}, LoggerName <- "logger", DistSink <- "dist",
    Sinks <- {"out"},
    LoggerSinks <- <<"dist", "console", "file">>, InitialList <- <<"x", "y">>,
    SinkLevel <- LoggerSinkLevel, MayFail <- {"y"}, Levels <- {1, 2},
    FlushLevel <- 2, Minute <- 2, MaxTime <- 2,
    MaxCalls <- [t1 |-> MaxLogged, t2 |-> 1],
    Kind <- "wincolor", Foreground <- {"green", "white"},
    Default <- {"white", "on blue"},
    colors <- [info |-> {"green"}, critical |-> {"white", "on red"}],
    ShouldDoColors <- FALSE, MaxMessages <- 3,
    cache_refresh <- 3, Bias <- 2, DaylightSaving <- 1, SummerStart <- 6,
    PatternTime <- "local",
    calls <- logCalls, flushed <- outFlushed, mutex <- sinkMutex, call <- sinkCall

Codes == INSTANCE SinkProofs WITH
    Threads <- {"t1", "t2", "t3"}, LoggerName <- "logger", DistSink <- "dist",
    Sinks <- {"out", "err"},
    LoggerSinks <- <<"dist", "console", "file">>, InitialList <- <<"x", "y">>,
    SinkLevel <- LoggerSinkLevel, MayFail <- {"y"}, Levels <- {1, 2},
    FlushLevel <- 2, Minute <- 2, MaxTime <- 2,
    MaxCalls <- [t1 |-> MaxLogged, t2 |-> 1],
    Kind <- "ansicolor", Foreground <- {"green", "white"},
    Default <- {"white", "on blue"},
    colors <- [info |-> {"green"}, critical |-> {"white", "on red"}],
    ShouldDoColors <- TRUE, MaxMessages <- 2,
    cache_refresh <- 3, Bias <- 2, DaylightSaving <- 1, SummerStart <- 6,
    PatternTime <- "local",
    calls <- logCalls, flushed <- outFlushed, mutex <- sinkMutex, call <- sinkCall

LEMMA WindowsIsPart ==
    ASSUME part # "terminal"
    PROVE  /\ Init => Windows!Console!Init
           /\ [Next]_vars => part' # "terminal" /\ [Windows!Console!Next]_(Windows!Console!vars)
<1>1. ASSUME WinConsole!Init PROVE Windows!Console!Init
    BY <1>1, Zenon DEF WinConsole!Init, WinConsole!NoThread,
       WinConsole!Idle, Windows!Console!Init, Windows!Console!NoThread,
       Windows!Console!Idle
<1>2. ASSUME WinConsole!Next PROVE Windows!Console!Next
    BY <1>2, Zenon DEF WinConsole!Next, WinConsole!Levels, WinConsole!Log,
       WinConsole!Lock, WinConsole!PrintPlain, WinConsole!PrintBefore,
       WinConsole!SetColor, WinConsole!PrintRange, WinConsole!ResetColor,
       WinConsole!PrintAfter, WinConsole!Unlock, WinConsole!At,
       WinConsole!NoThread, WinConsole!Go, WinConsole!Coloured,
       WinConsole!print_range, WinConsole!AfterCode, WinConsole!ResetCode,
       WinConsole!Idle, Windows!Console!Next, Windows!Console!Levels,
       Windows!Console!Log, Windows!Console!Lock,
       Windows!Console!PrintPlain, Windows!Console!PrintBefore,
       Windows!Console!SetColor, Windows!Console!PrintRange,
       Windows!Console!ResetColor, Windows!Console!PrintAfter,
       Windows!Console!Unlock, Windows!Console!At, Windows!Console!NoThread,
       Windows!Console!Go, Windows!Console!Coloured,
       Windows!Console!print_range, Windows!Console!AfterCode,
       Windows!Console!ResetCode, Windows!Console!Idle
<1> QED
    BY <1>1, <1>2 DEF Init, Next, Others, vars, consoleVars,
       Windows!Console!vars

LEMMA CodesIsPart ==
    ASSUME part = "terminal"
    PROVE  /\ Init => Codes!Console!Init
           /\ [Next]_vars => part' = "terminal" /\ [Codes!Console!Next]_(Codes!Console!vars)
<1>1. ASSUME Terminal!Init PROVE Codes!Console!Init
    BY <1>1, Zenon DEF Terminal!Init, Terminal!NoThread, Terminal!Idle,
       Codes!Console!Init, Codes!Console!NoThread, Codes!Console!Idle
<1>2. ASSUME Terminal!Next PROVE Codes!Console!Next
    BY <1>2, Zenon DEF Terminal!Next, Terminal!Levels, Terminal!Log,
       Terminal!Lock, Terminal!PrintPlain, Terminal!PrintBefore,
       Terminal!SetColor, Terminal!PrintRange, Terminal!ResetColor,
       Terminal!PrintAfter, Terminal!Unlock, Terminal!At, Terminal!NoThread,
       Terminal!Go, Terminal!Coloured, Terminal!print_range,
       Terminal!AfterCode, Terminal!ResetCode, Terminal!Idle,
       Codes!Console!Next, Codes!Console!Levels, Codes!Console!Log,
       Codes!Console!Lock, Codes!Console!PrintPlain,
       Codes!Console!PrintBefore, Codes!Console!SetColor,
       Codes!Console!PrintRange, Codes!Console!ResetColor,
       Codes!Console!PrintAfter, Codes!Console!Unlock, Codes!Console!At,
       Codes!Console!NoThread, Codes!Console!Go, Codes!Console!Coloured,
       Codes!Console!print_range, Codes!Console!AfterCode,
       Codes!Console!ResetCode, Codes!Console!Idle
<1> QED
    BY <1>1, <1>2 DEF Init, Next, Others, vars, consoleVars,
       Codes!Console!vars

(* The pieces of a message come in their order, and those of a sink        *)
(* of Windows with nothing in between; and the console gets its own        *)
(* attributes back from sinks of either kind.                              *)
THEOREM ConsoleGetsItsColoursBack ==
    ASSUME LoggingAssumption
    PROVE  Spec => []ConsoleIsRestored
<1> DEFINE A == part = "terminal"
           W == /\ Windows!Console!TypeOK /\ Windows!Console!PartsInOrder
                /\ Windows!Console!OrigColors /\ Windows!Console!MessagesAreWhole
                /\ Windows!Console!RestIsPlain
           T == /\ Codes!Console!TypeOK /\ Codes!Console!PartsInOrder
                /\ Codes!Console!OrigColors
<1>1. Windows!Console!Spec => []W
  <2>1. WinConsole!ConsoleAssumption
      BY DEF LoggingAssumption
  <2>2. Windows!Console!ConsoleAssumption
      BY <2>1 DEF WinConsole!ConsoleAssumption, WinConsole!NoThread,
         Windows!Console!ConsoleAssumption, Windows!Console!NoThread
  <2>3. Windows!OneSink
      BY DEF Windows!OneSink
  <2>4. Windows!Console!Spec => []Windows!Console!OrigColors
      BY <2>2, <2>3, Windows!OrigColorsComeBack
  <2> QED
      BY <2>2, <2>3, <2>4, Windows!PiecesComeInOrder, Windows!OneSinkKeepsMessages, PTL
<1>2. Codes!Console!Spec => []T
  <2>1. Terminal!ConsoleAssumption
      BY DEF LoggingAssumption
  <2>2. Codes!Console!ConsoleAssumption
      BY <2>1 DEF Terminal!ConsoleAssumption, Terminal!NoThread,
         Codes!Console!ConsoleAssumption, Codes!Console!NoThread
  <2>3. Codes!Console!Spec => []Codes!Console!OrigColors
      BY <2>2, Codes!OrigColorsComeBack
  <2> QED BY <2>2, <2>3, Codes!PiecesComeInOrder, PTL
<1>3. ASSUME ~A, W
      PROVE  ConsoleIsRestored
  <2>1. /\ Windows!Console!TypeOK /\ Windows!Console!PartsInOrder
        /\ Windows!Console!OrigColors /\ Windows!Console!MessagesAreWhole
        /\ Windows!Console!RestIsPlain
      BY <1>3
  <2>2. WinConsole!TypeOK
      BY <2>1, Zenon DEF WinConsole!TypeOK, WinConsole!Levels,
         WinConsole!At, Windows!Console!TypeOK, Windows!Console!Levels,
         Windows!Console!At
  <2>3. WinConsole!PartsInOrder
      BY <2>1, Zenon DEF WinConsole!PartsInOrder,
         Windows!Console!PartsInOrder
  <2>4. WinConsole!OrigColors
      BY <2>1, Zenon DEF WinConsole!OrigColors, WinConsole!At,
         Windows!Console!OrigColors, Windows!Console!At
  <2>5. WinConsole!MessagesAreWhole
      BY <2>1, Zenon DEF WinConsole!MessagesAreWhole,
         Windows!Console!MessagesAreWhole
  <2>6. WinConsole!RestIsPlain
      BY <2>1, Zenon DEF WinConsole!RestIsPlain, Windows!Console!RestIsPlain
  <2> QED BY <1>3, <2>2, <2>3, <2>4, <2>5, <2>6 DEF ConsoleIsRestored
<1>4. ASSUME A, T
      PROVE  ConsoleIsRestored
  <2>1. /\ Codes!Console!TypeOK /\ Codes!Console!PartsInOrder
        /\ Codes!Console!OrigColors
      BY <1>4
  <2>2. Terminal!TypeOK
      BY <2>1, Zenon DEF Terminal!TypeOK, Terminal!Levels, Terminal!At,
         Codes!Console!TypeOK, Codes!Console!Levels, Codes!Console!At
  <2>3. Terminal!OrigColors
      BY <2>1, Zenon DEF Terminal!OrigColors, Terminal!At,
         Codes!Console!OrigColors, Codes!Console!At
  <2>4. WinConsole!PartsInOrder
      BY <2>1, Zenon DEF WinConsole!PartsInOrder, Codes!Console!PartsInOrder
  <2> QED BY <1>4, <2>2, <2>3, <2>4 DEF ConsoleIsRestored
<1>5. /\ ~A /\ Init => Windows!Console!Init
      /\ ~A /\ [Next]_vars => ~A' /\ [Windows!Console!Next]_(Windows!Console!vars)
    BY WindowsIsPart
<1>6. /\ A /\ Init => Codes!Console!Init
      /\ A /\ [Next]_vars => A' /\ [Codes!Console!Next]_(Codes!Console!vars)
    BY CodesIsPart
<1>7. (~A => W) /\ (A => T) => ConsoleIsRestored
    BY <1>3, <1>4
<1> HIDE DEF A, W, T
<1> QED
    BY <1>1, <1>2, <1>5, <1>6, <1>7, PTL
    DEF Spec, Windows!Console!Spec, Codes!Console!Spec
=============================================================================
