----------------------------- MODULE FileSinks ------------------------------
(***************************************************************************)
(* Sinks that write files, one of each kind: by size, by day and by step.  *)
(* They have no file in common, and each has a clock or a source of        *)
(* trouble of its own.                                                     *)
(***************************************************************************)
EXTENDS Naturals, Sequences

CONSTANTS
    \* By size: what messages and files hold, and how many old files stay.
    Sizes, FileSize, OldFileCount, RotatingMessages, RotatingTrouble,
    \* By day: the length of a day and when in it a new file is begun.
    Day, Rotation, DailyTime, DailyMessages, DailyTrouble,
    \* By step: seconds of a step, messages of a file.
    StepSeconds, StepFileSize, DeleteEmpty, StepTime, StepMessages, StepTrouble

VARIABLES
    files, fd, currentSize, flushed, rotatingPc, i, rotatingMsg, calls,
    logged, trouble,
    dayNow, dayFiles, rotationTp, current, dayFd, dayPc, call, dayTrouble,
    opened, computed,
    stepNow, stepFiles, tp, stepCurrent, stepSize, stepFd, stepPc, newName,
    sent, stepLogged, replaced, stepTrouble

Rotating == INSTANCE RotatingFileSink WITH
    MaxSize <- FileSize, MaxFiles <- OldFileCount, MaxMessages <- RotatingMessages,
    MaxTrouble <- RotatingTrouble,
    pc <- rotatingPc, msg <- rotatingMsg

Daily == INSTANCE DailyFileSink WITH
    MaxTime <- DailyTime, MaxMessages <- DailyMessages, MaxTrouble <- DailyTrouble,
    now <- dayNow, files <- dayFiles, fd <- dayFd, pc <- dayPc,
    trouble <- dayTrouble

Step == INSTANCE StepFileSink WITH
    Step <- StepSeconds, MaxSize <- StepFileSize, MaxTime <- StepTime,
    MaxMessages <- StepMessages, MaxTrouble <- StepTrouble,
    now <- stepNow, files <- stepFiles, current <- stepCurrent,
    currentSize <- stepSize, fd <- stepFd, pc <- stepPc,
    logged <- stepLogged, trouble <- stepTrouble

ASSUME FilesAssumption ==
    /\ Rotating!RotatingAssumption
    /\ Daily!DailyAssumption
    /\ Step!StepAssumption

rotatingVars == <<files, fd, currentSize, flushed, rotatingPc, i, rotatingMsg,
                  calls, logged, trouble>>
dailyVars == <<dayNow, dayFiles, rotationTp, current, dayFd, dayPc, call,
               dayTrouble, opened, computed>>
stepVars == <<stepNow, stepFiles, tp, stepCurrent, stepSize, stepFd, stepPc,
              newName, sent, stepLogged, replaced, stepTrouble>>
filesVars == <<rotatingVars, dailyVars, stepVars>>

-----------------------------------------------------------------------------
FilesInit == Rotating!Init /\ Daily!Init /\ Step!Init

RotatingStep == Rotating!Next /\ UNCHANGED <<dailyVars, stepVars>>
DailyStep == Daily!Next /\ UNCHANGED <<rotatingVars, stepVars>>
StepStep == Step!Next /\ UNCHANGED <<rotatingVars, dailyVars>>

FilesNext == RotatingStep \/ DailyStep \/ StepStep

FilesSpec == FilesInit /\ [][FilesNext]_filesVars

-----------------------------------------------------------------------------
\* Files by size hold the newest of what was written, without a gap, through
\* failures and crashes in the middle of a rotation; none outgrows the maximum
\* but for one large message, and without trouble a message goes only when all
\* files are full. Files by day are in the order of the calls, and files by step
\* lose nothing.
FilesKeepTheNewest ==
    /\ Rotating!TypeOK /\ Daily!TypeOK /\ Step!TypeOK
    /\ Rotating!KeepsTheNewest
    /\ Rotating!SizeBound
    /\ Rotating!LossOnlyWhenFull
    /\ Daily!InOrder
    /\ Step!NothingIsLost
=============================================================================
