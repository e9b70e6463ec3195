--------------------------- MODULE DailyFileSink ----------------------------
(***************************************************************************)
(* The file sink that begins a new file at a given time of the day.  The   *)
(* clock goes on between any two steps of a call, each of which reads it   *)
(* anew, and opening a file may fail.                                      *)
(***************************************************************************)
EXTENDS FileSystem, FiniteSets

CONSTANTS
    Day,        \* units of time in a day
    Rotation,   \* the time of the day at which a new file is begun
    MaxTime,    \* bound: the time
    MaxMessages,\* bound: messages
    MaxTrouble  \* bound: failures to open a file

\* What the constants have to be.
DailyAssumption ==
    /\ Day \in Nat \ {0} /\ Rotation \in 0 .. Day - 1
    /\ MaxTime \in Nat /\ Day <= MaxTime   \* the bound: a day, at least
    /\ MaxMessages \in Nat /\ MaxTrouble \in Nat

VARIABLES
    now,
    files,      \* files by name, which is the day it was begun
    rotationTp, \* _rotation_tp
    current,    \* _filename
    fd,         \* _fd is not null
    pc,         \* "new", "idle", "check", "open", "next" or "write"
    call,       \* the number of the call of log() and the time it began
    trouble,    \* history: failures to open
    opened,     \* history: the time from which the name of the file is,
    computed    \* and the one from which _rotation_tp is

vars == <<now, files, rotationTp, current, fd, pc, call, trouble, opened, computed>>

(* Seeded defect: the name repeats, as one without the month would.        *)
CalcRepeatingName == (now \div Day) % 2

(* dateonly_daily_file_name_calculator::calc_filename.                     *)
CalcFilename == now \div Day

(* Seeded defect: the next rotation is a day from now.                     *)
NextRotationFromNow == now + Day

(* The time of the day at which to rotate, on this day or on the next.     *)
NextRotationTp ==
    LET today == (now \div Day) * Day + Rotation
    IN  IF today > now THEN today ELSE today + Day

Init ==
    /\ now \in 0 .. Day - 1
    /\ files = <<>>
    /\ rotationTp = NextRotationTp
    /\ current = 0
    /\ fd = FALSE
    /\ pc = "new"
    /\ call = [number |-> 0, time |-> 0]
    /\ trouble = 0
    /\ opened = 0
    /\ computed = now

(* file_helper::open closes the old file before it tries, five times, to   *)
(* open the new one.                                                       *)
OpenCurrent ==
    /\ current' = CalcFilename
    /\ files' = OpenedToAppend(files, CalcFilename)
    /\ fd' = TRUE
    /\ opened' = now

OpenFails ==
    /\ trouble < MaxTrouble
    /\ trouble' = trouble + 1
    /\ current' = CalcFilename
    /\ fd' = FALSE
    /\ UNCHANGED <<files, opened>>

(* The constructor finds out when to rotate before it opens the file; if   *)
(* it cannot there is no sink.                                             *)
Construct ==
    /\ pc = "new"
    /\ OpenCurrent
    /\ pc' = "idle"
    /\ UNCHANGED <<now, rotationTp, call, trouble, computed>>

Log ==
    /\ pc = "idle"
    /\ call.number < MaxMessages
    /\ call' = [number |-> call.number + 1, time |-> now]
    /\ pc' = "check"
    /\ UNCHANGED <<now, files, rotationTp, current, fd, trouble, opened, computed>>

Check ==
    /\ pc = "check"
    /\ pc' = IF now >= rotationTp THEN "open" ELSE "write"
    /\ UNCHANGED <<now, files, rotationTp, current, fd, call, trouble, opened, computed>>

(* Seeded defect: the next rotation is set before the file is open.        *)
OpenAfterNext ==
    /\ pc = "open"
    /\ rotationTp' = NextRotationTp
    /\ computed' = now
    /\ \/ OpenCurrent /\ pc' = "write" /\ UNCHANGED trouble
       \/ OpenFails /\ pc' = "idle"
    /\ UNCHANGED <<now, call>>

Open ==
    /\ pc = "open"
    /\ \/ OpenCurrent /\ pc' = "next" /\ UNCHANGED trouble
       \/ OpenFails /\ pc' = "idle"
    /\ UNCHANGED <<now, rotationTp, call, computed>>

SetNextRotation ==
    /\ pc = "next"
    /\ rotationTp' = NextRotationTp
    /\ computed' = now
    /\ pc' = "write"
    /\ UNCHANGED <<now, files, current, fd, call, trouble, opened>>

Write ==
    /\ pc = "write"
    /\ files' = Written(files, current, call)
    /\ pc' = "idle"
    /\ UNCHANGED <<now, rotationTp, current, fd, call, trouble, opened, computed>>

TimePasses ==
    /\ now < MaxTime
    /\ now' = now + 1
    /\ UNCHANGED <<files, rotationTp, current, fd, pc, call, trouble, opened, computed>>

Next == Construct \/ Log \/ Check \/ Open \/ SetNextRotation \/ Write \/ TimePasses

Spec == Init /\ [][Next]_vars

-----------------------------------------------------------------------------
(* Type invariant.  The sink never writes without a file: one that could   *)
(* not be opened is opened by the next call, or not written to.            *)
TypeOK ==
    /\ now \in 0 .. MaxTime
    /\ rotationTp \in Nat
    /\ fd \in BOOLEAN
    /\ fd => Exists(files, current)
    /\ pc \in {"new", "idle", "check", "open", "next", "write"}
    /\ pc = "write" => fd
    /\ call.number \in 0 .. MaxMessages /\ call.time <= now
    /\ trouble \in 0 .. MaxTrouble

(* The last time at which to rotate, up to time t.                         *)
LastRotation(t) ==
    LET today == (t \div Day) * Day + Rotation
    IN  IF today <= t THEN today ELSE today - Day

(* What is logged after the time of the rotation goes to a file named      *)
(* since, through failures to open one and days without a message, unless  *)
(* the clock passed a rotation between the two steps that read it.         *)
RotatesOnTime ==
    [][Write => \/ opened >= LastRotation(call.time)
                \/ LastRotation(opened) < LastRotation(computed)]_vars

(* A message is in one file, once, and messages are in the order of their  *)
(* calls, in each file and from one file to the next.                      *)
InOrder ==
    \A d1, d2 \in DOMAIN files : \A i \in DOMAIN files[d1], j \in DOMAIN files[d2] :
        (d1 < d2 \/ (d1 = d2 /\ i < j)) => files[d1][i].number < files[d2][j].number
=============================================================================
