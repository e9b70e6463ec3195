--------------------------- MODULE OffsetFormatter --------------------------
(***************************************************************************)
(* The formatter of %z as it is built for Windows: the offset from UTC is  *)
(* read from the system at most once in a number of seconds and kept in    *)
(* between. The formatter belongs to a logger that several threads use, so *)
(* messages may come to it in another order than that of their times.      *)
(***************************************************************************)
EXTENDS Integers

CONSTANTS
    Threads,
    cache_refresh,  \* time an offset is kept for
    Bias,           \* of the time zone: UTC is local time plus the bias
    DaylightSaving, \* what local time is ahead by in summer: less the DaylightBias
    SummerStart,    \* time at which summer begins
    PatternTime,    \* "local" or "utc"
    MaxTime         \* bound: the time

\* What the constants have to be.
OffsetAssumption ==
    /\ cache_refresh \in Nat \ {0}
    /\ Bias \in Int /\ DaylightSaving \in Int
    /\ SummerStart \in Nat /\ MaxTime \in Nat
    /\ PatternTime \in {"local", "utc"}

NoTime == -1

VARIABLES
    now,
    msgTime,        \* by thread: the time of its message, or NoTime
    last_update,
    offset_minutes,
    line,           \* the line formatted last: its message's time and offset
    newest          \* history: the newest time of a message formatted

vars == <<now, msgTime, last_update, offset_minutes, line, newest>>

\* What localtime and gmtime say of daylight saving.
IsDst(t) == PatternTime = "local" /\ t >= SummerStart

utc_minutes_offset(t) == -Bias - (IF IsDst(t) THEN -DaylightSaving ELSE 0)

Init ==
    /\ now \in cache_refresh..MaxTime
    /\ msgTime = [t \in Threads |-> NoTime]
    /\ last_update = 0
    /\ offset_minutes = 0
    /\ line = [time |-> NoTime, offset |-> 0]
    /\ newest = NoTime

Log(t) ==
    /\ msgTime[t] = NoTime
    /\ msgTime' = [msgTime EXCEPT ![t] = now]
    /\ UNCHANGED <<now, last_update, offset_minutes, line, newest>>

\* Seeded defect: the time of the update is the time it is made at.
GetCachedOffsetNow(time) ==
    IF time - last_update >= cache_refresh
    THEN /\ offset_minutes' = utc_minutes_offset(time)
         /\ last_update' = now
    ELSE UNCHANGED <<offset_minutes, last_update>>

\* Seeded defect: every use of the offset prolongs its life.
GetCachedOffsetSliding(time) ==
    /\ last_update' = time
    /\ offset_minutes' = IF time - last_update >= cache_refresh
                         THEN utc_minutes_offset(time) ELSE offset_minutes

get_cached_offset(time) ==
    IF time - last_update >= cache_refresh
    THEN /\ offset_minutes' = utc_minutes_offset(time)
         /\ last_update' = time
    ELSE UNCHANGED <<offset_minutes, last_update>>

Format(t) ==
    /\ msgTime[t] # NoTime
    /\ get_cached_offset(msgTime[t])
    /\ line' = [time |-> msgTime[t], offset |-> offset_minutes']
    /\ newest' = IF msgTime[t] > newest THEN msgTime[t] ELSE newest
    /\ msgTime' = [msgTime EXCEPT ![t] = NoTime]
    /\ UNCHANGED now

TimePasses ==
    /\ now < MaxTime
    /\ now' = now + 1
    /\ UNCHANGED <<msgTime, last_update, offset_minutes, line, newest>>

Next == TimePasses \/ \E t \in Threads : Log(t) \/ Format(t)

Spec == Init /\ [][Next]_vars

-----------------------------------------------------------------------------

\* Types; and the cache holds the offset of the time it was updated at, once it
\* was updated.
TypeOK ==
    /\ now \in 0..MaxTime
    /\ msgTime \in [Threads -> {NoTime} \union 0..MaxTime]
    /\ last_update \in 0..MaxTime
    /\ offset_minutes =
           IF last_update = 0 THEN 0 ELSE utc_minutes_offset(last_update)

Formatted == line.time # NoTime

\* An offset is not kept for longer than it may be: what a line shows was the
\* offset at a time less than cache_refresh before that of the message, or at
\* the time of a later message that was formatted before it.
OffsetIsRecent ==
    Formatted =>
        \E u \in 0..newest :
            /\ u > line.time - cache_refresh
            /\ line.offset = utc_minutes_offset(u)
=============================================================================
