----------------------------- MODULE TextProofs -----------------------------
(***************************************************************************)
(* Files, and the buffers texts are made in.  The sinks begin a new file   *)
(* by size, by day and by step, through failures, crashes and the passing  *)
(* of time, for any sizes and numbers of files and messages, any day, and  *)
(* any steps.  Buffers own every block of memory once and keep what was    *)
(* put into them, for any number of buffers and blocks and any texts.      *)
(***************************************************************************)
EXTENDS MemoryBuffer, FileSinks, SequenceTheorems, TLAPS

-----------------------------------------------------------------------------
(* Files by size.  The inductive invariant, part by part.                  *)

(* How far a rotation is: the place the next file moves to is free, and    *)
(* no file is open of which something could be flushed.                    *)
PlaceInv ==
    /\ flushed \in Nat
    /\ rotatingPc \in {"remove", "rename", "reopen"} => flushed = 0
    /\ rotatingPc \in {"remove", "rename"} => i \in 1 .. OldFileCount
    /\ rotatingPc = "remove" => i = OldFileCount \/ i \notin DOMAIN files
    /\ rotatingPc = "rename" => i \notin DOMAIN files
    /\ rotatingPc = "reopen" => i = 0 /\ (OldFileCount = 0 \/ 0 \notin DOMAIN files)

(* The message of a call is newer than what was written.                   *)
CallInv ==
    rotatingPc \notin {"idle", "down"} =>
        /\ rotatingMsg[1].number = calls
        /\ \A m \in logged : m < calls

(* Messages end one behind the other, and _current_size, which counts the  *)
(* message of the call as well and stays too large while there is no file, *)
(* is never less than the file.                                            *)
SizeInv ==
    /\ \A n \in DOMAIN files : \A j, k \in DOMAIN files[n] :
          j < k => files[n][j].end < files[n][k].end
    /\ rotatingPc = "idle" /\ fd => Rotating!SizeOf(files[0]) <= currentSize
    /\ rotatingPc = "idle" /\ ~fd => currentSize > FileSize
    /\ rotatingPc \in {"remove", "rename", "reopen"} => currentSize > FileSize
    /\ rotatingPc = "write" =>
          /\ Rotating!SizeOf(files[0]) + rotatingMsg[1].size <= currentSize
          /\ currentSize <= FileSize \/ files[0] = <<>>

(* As long as nothing fails the files have no gap but the place that a     *)
(* rotation has freed, and once a message was given up there are, but for  *)
(* that place, all the files there may be.                                 *)
FullInv ==
    trouble = 0 =>
        /\ rotatingPc = "idle" => fd
        /\ rotatingPc # "down"
        /\ \A n \in DOMAIN files : \A m \in 0 .. n :
              \/ m \in DOMAIN files
              \/ m = i /\ rotatingPc \in {"remove", "rename", "reopen"}
        /\ Rotating!Kept # logged =>
              \/ OldFileCount \in DOMAIN files
              \/ rotatingPc = "rename" /\ i = OldFileCount /\ OldFileCount - 1 \in DOMAIN files
              \/ rotatingPc = "reopen" /\ OldFileCount = 0

RotatingInv ==
    /\ Rotating!TypeOK
    /\ PlaceInv
    /\ CallInv
    /\ Rotating!KeepsTheNewest
    /\ SizeInv
    /\ Rotating!SizeBound
    /\ FullInv

-----------------------------------------------------------------------------
(* Files by day.                                                           *)

(* A sink without a file finds that it is time to open one.                *)
OpenInv ==
    /\ dayPc = "next" => dayFd
    /\ dayPc = "open" => rotationTp <= dayNow
    /\ ~dayFd => dayPc = "new" \/ rotationTp <= dayNow

(* The file being written to is the last one, and all messages are older   *)
(* than the one of the call.                                               *)
DailyInv ==
    /\ Daily!TypeOK
    /\ current \in Nat /\ current <= dayNow \div Day
    /\ DOMAIN dayFiles \subseteq 0 .. current
    /\ \A d \in DOMAIN dayFiles : dayFiles[d] \in Seq([number : Nat, time : Nat])
    /\ \A d \in DOMAIN dayFiles : \A k \in DOMAIN dayFiles[d] :
          /\ dayFiles[d][k].number <= call.number
          /\ dayPc \in {"check", "open", "next", "write"} => dayFiles[d][k].number < call.number
    /\ call \in [number : Nat, time : Nat]
    /\ Daily!InOrder
    /\ OpenInv

(* The time to rotate is the one after that it was computed at; who is     *)
(* about to write has either not reached it or opened a file in this call. *)
DueInv ==
    /\ opened \in 0 .. dayNow /\ computed \in 0 .. dayNow
    /\ rotationTp = Daily!LastRotation(computed) + Day
    /\ dayPc = "next" => opened >= call.time
    /\ dayPc = "write" => call.time < rotationTp \/ opened >= call.time

-----------------------------------------------------------------------------
(* Files by step.                                                          *)

(* Under a temporary name there is no file newer than the current one, of  *)
(* which the sink knows at least the size.                                 *)
StepFileInv ==
    /\ DOMAIN stepFiles \subseteq (0 .. stepNow) \X {"tmp", "log"}
    /\ \A n \in DOMAIN stepFiles : stepFiles[n] \in Seq(1 .. sent) /\ Len(stepFiles[n]) <= sent
    /\ \A s \in 0 .. stepNow : Step!Tmp(s) \in DOMAIN stepFiles => s <= stepCurrent
    /\ Step!Tmp(stepCurrent) \in DOMAIN stepFiles =>
          Len(stepFiles[Step!Tmp(stepCurrent)]) <= stepSize \/ stepPc = "down"

(* A sink without a file has nothing under its name, and a reason to begin *)
(* another one; a new name is not taken, and is not older.                 *)
StepCallInv ==
    /\ stepSize <= sent
    /\ stepPc \in {"log", "close", "open", "write"} => stepSize < sent
    /\ stepFd # <<>> => stepFd = Step!Tmp(stepCurrent)
    /\ stepPc \in {"close", "open"} =>
          stepCurrent <= newName /\ newName >= 0 /\ Step!Tmp(newName) \notin DOMAIN stepFiles
    /\ stepFd = <<>> /\ stepPc \in {"idle", "log", "close", "open"} =>
          Step!Tmp(stepCurrent) \notin DOMAIN stepFiles
    /\ stepPc \in {"log", "close", "open"} \/ (stepFd = <<>> /\ stepPc = "idle") =>
          tp <= stepNow \/ stepSize + 1 > StepFileSize
    /\ stepPc = "write" /\ stepSize >= StepFileSize => newName = stepCurrent

StepInv == Step!TypeOK /\ StepFileInv /\ StepCallInv /\ Step!NothingIsLost

-----------------------------------------------------------------------------
(* Files by size: the steps.                                               *)

Entry(n) == [number : 1 .. n, end : Nat]

(* What is known of files as far as their messages go.                     *)
LEMMA FileFacts ==
    ASSUME RotatingInv
    PROVE  /\ DOMAIN files \subseteq 0 .. OldFileCount
           /\ calls \in Nat
           /\ \A n \in DOMAIN files :
                 /\ files[n] \in Seq(Entry(calls))
                 /\ Len(files[n]) \in Nat
                 /\ DOMAIN files[n] = 1 .. Len(files[n])
                 /\ \A k \in 1 .. Len(files[n]) :
                       files[n][k].number \in 1 .. calls /\ files[n][k].end \in Nat
                 /\ files[n] = <<>> <=> Len(files[n]) = 0
                 /\ Rotating!SizeOf(files[n]) \in Nat
<1>1. calls \in Nat /\ DOMAIN files \subseteq 0 .. OldFileCount
  BY DEF RotatingInv, Rotating!TypeOK
<1>2. ASSUME NEW n \in DOMAIN files
      PROVE  /\ files[n] \in Seq(Entry(calls))
             /\ Len(files[n]) \in Nat
             /\ DOMAIN files[n] = 1 .. Len(files[n])
             /\ \A k \in 1 .. Len(files[n]) :
                   files[n][k].number \in 1 .. calls /\ files[n][k].end \in Nat
             /\ files[n] = <<>> <=> Len(files[n]) = 0
             /\ Rotating!SizeOf(files[n]) \in Nat
  <2>1. files[n] \in Seq(Entry(calls))
    BY DEF RotatingInv, Rotating!TypeOK, Entry
  <2>2. /\ Len(files[n]) \in Nat
        /\ DOMAIN files[n] = 1 .. Len(files[n])
        /\ files[n] = <<>> <=> Len(files[n]) = 0
    BY <2>1
  <2>3. ASSUME NEW k \in 1 .. Len(files[n])
        PROVE  files[n][k].number \in 1 .. calls /\ files[n][k].end \in Nat
    <3>1. files[n][k] \in Entry(calls)
      BY <2>1, ElementOfSeq
    <3> QED BY <3>1 DEF Entry
  <2>4. Rotating!SizeOf(files[n]) \in Nat
    <3>1. CASE files[n] = <<>>
      BY <3>1 DEF Rotating!SizeOf
    <3>2. CASE files[n] # <<>>
      <4>1. Len(files[n]) \in 1 .. Len(files[n])
        BY <2>2, <3>2
      <4> QED BY <3>2, <4>1, <2>3 DEF Rotating!SizeOf
    <3> QED BY <3>1, <3>2
  <2> QED BY <2>1, <2>2, <2>3, <2>4
<1> QED BY <1>1, <1>2

(* The message of a call has a number and a size.                          *)
LEMMA MessageFacts ==
    ASSUME RotatingInv, rotatingPc \notin {"idle", "down"}
    PROVE  /\ rotatingMsg[1] \in [number : 1 .. calls, size : Sizes]
           /\ rotatingMsg[1].number = calls
           /\ rotatingMsg[1].size \in Nat \ {0}
           /\ calls \in Nat \ {0}
<1>1. rotatingMsg \in Seq([number : 1 .. calls, size : Sizes]) /\ Len(rotatingMsg) = 1
  BY DEF RotatingInv, Rotating!TypeOK
<1>2. rotatingMsg[1] \in [number : 1 .. calls, size : Sizes]
  <2>1. 1 \in 1 .. Len(rotatingMsg)
    BY <1>1
  <2> QED BY <1>1, <2>1, ElementOfSeq
<1>3. rotatingMsg[1].number = calls
  BY DEF RotatingInv, CallInv
<1>4. rotatingMsg[1].size \in Sizes /\ rotatingMsg[1].number \in 1 .. calls
  BY <1>2
<1>5. calls \in Nat
  BY DEF RotatingInv, Rotating!TypeOK
<1>6. Sizes \subseteq Nat \ {0}
  BY FilesAssumption DEF Rotating!RotatingAssumption
<1>7. rotatingMsg[1].size \in Nat \ {0}
  BY <1>4, <1>6
<1>8. calls \in Nat \ {0}
  BY <1>3, <1>4, <1>5
<1> QED BY <1>2, <1>3, <1>7, <1>8

(* While the files stay and no message is written, what is kept stays.     *)
LEMMA KeptStays ==
    ASSUME Rotating!KeepsTheNewest, Rotating!SizeBound, files' = files, logged' = logged
    PROVE  Rotating!KeepsTheNewest' /\ Rotating!SizeBound' /\ Rotating!Kept' = Rotating!Kept
BY DEF Rotating!KeepsTheNewest, Rotating!SizeBound, Rotating!Kept, Rotating!Numbers,
       Rotating!SizeOf

(* rotating_file_sink::_sink_it: the call begins.                          *)
LEMMA LogKeepsInv ==
    ASSUME RotatingInv, Rotating!Log
    PROVE  RotatingInv'
<1> USE DEF Rotating!Log
<1>1. calls \in Nat /\ calls' = calls + 1 /\ calls' \in 0 .. RotatingMessages
  BY FilesAssumption DEF RotatingInv, Rotating!TypeOK, Rotating!RotatingAssumption
<1>2. PICK s \in Sizes :
        /\ rotatingMsg' = <<[number |-> calls + 1, size |-> s]>>
        /\ currentSize' = currentSize + s
        /\ IF currentSize + s > FileSize
             THEN /\ rotatingPc' = IF OldFileCount > 0 THEN "remove" ELSE "reopen"
                  /\ i' = OldFileCount
                  /\ fd' = FALSE
             ELSE /\ rotatingPc' = "write"
                  /\ UNCHANGED <<i, fd>>
  OBVIOUS
<1>3. s \in Nat \ {0} /\ OldFileCount \in Nat /\ FileSize \in Nat
  BY <1>2, FilesAssumption DEF Rotating!RotatingAssumption
<1>4. currentSize \in Nat /\ i \in 0 .. OldFileCount /\ fd \in BOOLEAN
  BY DEF RotatingInv, Rotating!TypeOK
<1>5. /\ rotatingPc = "idle" /\ files' = files /\ logged' = logged /\ trouble' = trouble
      /\ \/ rotatingPc' = "write" /\ fd' = fd /\ i' = i /\ flushed' = flushed
            /\ currentSize' <= FileSize
         \/ /\ currentSize' > FileSize /\ fd' = FALSE /\ i' = OldFileCount
            /\ \/ OldFileCount > 0 /\ rotatingPc' = "remove"
               \/ OldFileCount = 0 /\ rotatingPc' = "reopen"
  BY <1>2, <1>3, <1>4
<1>6. rotatingPc' = "write" => fd
  BY <1>3, <1>4, <1>5, <1>2 DEF RotatingInv, SizeInv
<1>7. Rotating!TypeOK'
  <2>1. ASSUME NEW n \in DOMAIN files PROVE files[n] \in Seq(Entry(calls'))
    <3>1. Entry(calls) \subseteq Entry(calls')
      BY <1>1 DEF Entry
    <3> QED BY <3>1, FileFacts, SeqMonotonic
  <2>2. /\ rotatingMsg' \in Seq([number : 1 .. calls', size : Sizes])
        /\ Len(rotatingMsg') = 1
    <3>1. [number |-> calls + 1, size |-> s] \in [number : 1 .. calls', size : Sizes]
      BY <1>1
    <3> QED BY <1>2, <3>1
  <2>3. currentSize' \in Nat
    BY <1>2, <1>3, <1>4
  <2>5. i' \in 0 .. OldFileCount
    BY <1>3, <1>4, <1>5
  <2>6. fd' \in BOOLEAN
    BY <1>4, <1>5
  <2>4. logged' \subseteq 1 .. calls'
    BY <1>1, <1>5 DEF RotatingInv, Rotating!TypeOK
  <2> QED BY <2>1, <2>2, <2>3, <2>4, <2>5, <2>6, <1>1, <1>5, <1>6
          DEF RotatingInv, Rotating!TypeOK, Entry, Rotating!Exists
<1>8. PlaceInv'
  BY <1>3, <1>5 DEF PlaceInv, RotatingInv
<1>9. CallInv'
  <2>1. \A m \in logged : m < calls'
    BY <1>1 DEF RotatingInv, Rotating!TypeOK
  <2>2. rotatingMsg'[1].number = calls'
    BY <1>1, <1>2
  <2> QED BY <2>1, <2>2, <1>5 DEF CallInv
<1>10. SizeInv'
  <2>1. rotatingPc' = "write" =>
          /\ Rotating!SizeOf(files[0]) + s <= currentSize'
          /\ currentSize' <= FileSize
    <3>1. HAVE rotatingPc' = "write"
    <3>2. fd /\ 0 \in DOMAIN files
      BY <3>1, <1>6 DEF RotatingInv, Rotating!TypeOK, Rotating!Exists
    <3>3. Rotating!SizeOf(files[0]) \in Nat /\ Rotating!SizeOf(files[0]) <= currentSize
      BY <3>2, <1>5, FileFacts DEF RotatingInv, SizeInv
    <3> QED BY <3>1, <3>3, <1>2, <1>3, <1>4, <1>5
  <2>2. rotatingMsg'[1].size = s
    BY <1>2
  <2> QED BY <2>1, <2>2, <1>5 DEF RotatingInv, SizeInv, Rotating!SizeOf
<1>11. FullInv'
  BY <1>5, <1>6, KeptStays DEF RotatingInv, FullInv
<1> QED BY <1>5, <1>7, <1>8, <1>9, <1>10, <1>11, KeptStays DEF RotatingInv

(* An exception leaves a call before it has written anything.              *)
LEMMA ThrowKeepsInv ==
    ASSUME RotatingInv, Rotating!Throw, rotatingPc \notin {"idle", "down"},
           UNCHANGED <<files, fd, currentSize, flushed, i, calls, logged>>
    PROVE  RotatingInv'
<1>1. /\ rotatingPc' = "idle" /\ rotatingMsg' = <<>> /\ trouble' = trouble + 1
      /\ trouble' \in 1 .. RotatingTrouble
  BY FilesAssumption DEF Rotating!Throw, RotatingInv, Rotating!TypeOK,
                         Rotating!RotatingAssumption
<1>2. Rotating!TypeOK'
  <2>1. rotatingMsg' \in Seq([number : 1 .. calls', size : Sizes]) /\ Len(rotatingMsg') = 0
    BY <1>1, EmptySeq
  <2>3. \A n \in DOMAIN files' : files'[n] \in Seq(Entry(calls'))
    BY FileFacts
  <2>2. trouble' \in 0 .. RotatingTrouble
    BY <1>1
  <2>4. /\ DOMAIN files' \subseteq 0 .. OldFileCount
        /\ fd' \in BOOLEAN /\ currentSize' \in Nat /\ i' \in 0 .. OldFileCount
        /\ fd' => 0 \in DOMAIN files' /\ flushed' <= Len(files'[0])
        /\ calls' \in 0 .. RotatingMessages /\ logged' \subseteq 1 .. calls'
    BY DEF RotatingInv, Rotating!TypeOK, Rotating!Exists
  <2>5. Len(rotatingMsg') = IF rotatingPc' \in {"idle", "down"} THEN 0 ELSE 1
    BY <1>1, <2>1
  <2>6. /\ rotatingPc' \in {"idle", "remove", "rename", "reopen", "write", "down"}
        /\ rotatingPc' = "write" => fd'
        /\ rotatingPc' \in {"remove", "rename", "reopen", "down"} => ~fd'
    BY <1>1
  <2> QED BY <2>1, <2>2, <2>3, <2>4, <2>5, <2>6 DEF Rotating!TypeOK, Rotating!Exists, Entry
<1>3. SizeInv'
  <2>1. rotatingPc = "write" => Rotating!SizeOf(files[0]) <= currentSize
    <3>1. HAVE rotatingPc = "write"
    <3>2. 0 \in DOMAIN files
      BY <3>1 DEF RotatingInv, Rotating!TypeOK, Rotating!Exists
    <3>3. /\ Rotating!SizeOf(files[0]) \in Nat /\ rotatingMsg[1].size \in Nat
          /\ currentSize \in Nat
          /\ Rotating!SizeOf(files[0]) + rotatingMsg[1].size <= currentSize
      BY <3>1, <3>2, FileFacts, MessageFacts DEF RotatingInv, SizeInv, Rotating!TypeOK
    <3> QED BY <3>3
  <2> QED BY <2>1, <1>1 DEF RotatingInv, SizeInv, Rotating!TypeOK, Rotating!SizeOf
<1>4. PlaceInv' /\ CallInv' /\ FullInv'
  BY <1>1 DEF PlaceInv, CallInv, FullInv, RotatingInv
<1> QED BY <1>1, <1>2, <1>3, <1>4, KeptStays DEF RotatingInv

(* Files that are moved in their order, some of them given up or new and   *)
(* empty: what is given up has to be older than what is left.              *)
Moves(p) ==
    /\ p \in [DOMAIN files' -> 0 .. OldFileCount]
    /\ \A n, o \in DOMAIN files' : n < o => p[n] < p[o]
    /\ \A n \in DOMAIN files' :
          files'[n] = <<>> \/ (p[n] \in DOMAIN files /\ files'[n] = files[p[n]])

Remains(p, n) ==
    files[n] = <<>> \/ \E o \in DOMAIN files' : p[o] = n /\ files'[o] = files[n]

LEMMA MovesKeep ==
    ASSUME RotatingInv, logged' = logged, calls' = calls, NEW p, Moves(p),
           \A n \in DOMAIN files :
              \/ Remains(p, n)
              \/ \A o \in DOMAIN files' : files'[o] = <<>> \/ p[o] < n
    PROVE  /\ \A n \in DOMAIN files' : files'[n] \in Seq(Entry(calls'))
           /\ \A n \in DOMAIN files' : \A j, k \in DOMAIN files'[n] :
                 j < k => files'[n][j].end < files'[n][k].end
           /\ Rotating!KeepsTheNewest'
           /\ Rotating!SizeBound'
           /\ (\A n \in DOMAIN files : Remains(p, n)) => Rotating!Kept' = Rotating!Kept
<1>0. /\ DOMAIN <<>> = {} /\ <<>> \in Seq(Entry(calls)) /\ Len(<<>>) = 0
      /\ Rotating!SizeOf(<<>>) = 0 /\ FileSize \in Nat
  BY EmptySeq, FilesAssumption DEF Rotating!SizeOf, Rotating!RotatingAssumption
<1>1. \A n \in DOMAIN files' : \A k \in DOMAIN files'[n] :
         p[n] \in DOMAIN files /\ files'[n] = files[p[n]]
  BY <1>0 DEF Moves
<1>2. \A n, o \in DOMAIN files' : \A j \in DOMAIN files'[o], k \in DOMAIN files'[n] :
         o > n \/ (o = n /\ j < k) => files'[o][j].number < files'[n][k].number
  <2>1. TAKE n, o \in DOMAIN files'
  <2>2. TAKE j \in DOMAIN files'[o], k \in DOMAIN files'[n]
  <2>3. HAVE o > n \/ (o = n /\ j < k)
  <2>4. p[o] > p[n] \/ (p[o] = p[n] /\ j < k)
    BY <2>1, <2>3, FileFacts DEF Moves
  <2>5. /\ p[o] \in DOMAIN files /\ p[n] \in DOMAIN files
        /\ files'[o] = files[p[o]] /\ files'[n] = files[p[n]]
    BY <2>2, <1>1
  <2> QED BY <2>2, <2>4, <2>5 DEF RotatingInv, Rotating!KeepsTheNewest
<1>3. Rotating!Kept' \subseteq Rotating!Kept
  BY <1>1 DEF Rotating!Kept, Rotating!Numbers
<1>4. ASSUME NEW n \in DOMAIN files, NEW k \in DOMAIN files[n], Remains(p, n)
      PROVE  files[n][k].number \in Rotating!Kept'
  <2>1. files[n] # <<>>
    BY <1>0, <1>4
  <2>2. PICK o \in DOMAIN files' : files'[o] = files[n]
    BY <2>1, <1>4 DEF Remains
  <2> QED BY <2>2, <1>4 DEF Rotating!Kept, Rotating!Numbers
<1>5. ASSUME NEW old \in logged \ Rotating!Kept', NEW m \in Rotating!Kept'
      PROVE  old < m
  <2>1. CASE old \notin Rotating!Kept
    BY <2>1, <1>3, <1>5 DEF RotatingInv, Rotating!KeepsTheNewest
  <2>2. CASE old \in Rotating!Kept
    <3>1. PICK n \in DOMAIN files : \E k \in DOMAIN files[n] : old = files[n][k].number
      BY <2>2 DEF Rotating!Kept, Rotating!Numbers
    <3>2. PICK k \in DOMAIN files[n] : old = files[n][k].number
      BY <3>1
    <3>3. PICK o \in DOMAIN files' : \E j \in DOMAIN files'[o] : m = files'[o][j].number
      BY DEF Rotating!Kept, Rotating!Numbers
    <3>4. PICK j \in DOMAIN files'[o] : m = files'[o][j].number
      BY <3>3
    <3>5. ~Remains(p, n)
      BY <1>4, <1>5, <3>2
    <3>6. p[o] < n /\ p[o] \in DOMAIN files /\ files'[o] = files[p[o]]
      BY <3>4, <3>5, <1>0, <1>1
    <3> QED BY <3>2, <3>4, <3>6, FileFacts DEF RotatingInv, Rotating!KeepsTheNewest
  <2> QED BY <2>1, <2>2
<1>6. Rotating!KeepsTheNewest'
  BY <1>2, <1>3, <1>5 DEF RotatingInv, Rotating!KeepsTheNewest
<1>7. \A n \in DOMAIN files' : files'[n] \in Seq(Entry(calls'))
  BY <1>0, FileFacts DEF Moves
<1>8. \A n \in DOMAIN files' : \A j, k \in DOMAIN files'[n] :
         j < k => files'[n][j].end < files'[n][k].end
  BY <1>1 DEF RotatingInv, SizeInv
<1>9. Rotating!SizeBound'
  BY <1>0 DEF Moves, RotatingInv, Rotating!SizeBound, Rotating!SizeOf
<1>10. (\A n \in DOMAIN files : Remains(p, n)) => Rotating!Kept \subseteq Rotating!Kept'
  BY <1>4 DEF Rotating!Kept, Rotating!Numbers
<1> QED BY <1>3, <1>6, <1>7, <1>8, <1>9, <1>10

(* rotating_file_sink::_rotate: the file a name is needed for is removed.  *)
LEMMA RemoveKeepsInv ==
    ASSUME RotatingInv, Rotating!RemoveTarget
    PROVE  RotatingInv'
<1>1. CASE Rotating!Exists(files, i) /\ Rotating!Throw /\ UNCHANGED files
  <2>1. rotatingPc = "remove"
    BY DEF Rotating!RemoveTarget
  <2>2. UNCHANGED <<files, fd, currentSize, flushed, i, calls, logged>>
    BY <1>1 DEF Rotating!RemoveTarget
  <2> QED BY <1>1, <2>1, <2>2, ThrowKeepsInv
<1>2. CASE files' = Rotating!Removed(files, i) /\ rotatingPc' = "rename"
           /\ UNCHANGED <<rotatingMsg, trouble>>
  <2>1. /\ rotatingPc = "remove" /\ rotatingPc' = "rename" /\ fd = FALSE
        /\ i \in 1 .. OldFileCount /\ OldFileCount \in Nat
        /\ UNCHANGED <<fd, currentSize, flushed, i, calls, logged, rotatingMsg, trouble>>
    BY <1>2, FilesAssumption DEF Rotating!RemoveTarget, RotatingInv, PlaceInv, Rotating!TypeOK,
                                 Rotating!RotatingAssumption
  <2>2. /\ DOMAIN files' = DOMAIN files \ {i}
        /\ \A n \in DOMAIN files' : files'[n] = files[n]
    BY <1>2 DEF Rotating!Removed, Rotating!Restrict
  <2> DEFINE p == [n \in DOMAIN files' |-> n]
  <2>3. Moves(p)
    BY <2>2, FileFacts DEF Moves
  <2>4. \A n \in DOMAIN files \ {i} : Remains(p, n)
    BY <2>2 DEF Remains
  <2>6. i = OldFileCount => \A o \in DOMAIN files' : p[o] < i
    BY <2>1, <2>2, FileFacts
  <2> HIDE DEF p
  <2>7. \A n \in DOMAIN files :
           \/ Remains(p, n)
           \/ \A o \in DOMAIN files' : files'[o] = <<>> \/ p[o] < n
    <3>1. CASE i = OldFileCount
      BY <3>1, <2>4, <2>6
    <3>2. CASE i # OldFileCount
      BY <3>2, <2>1, <2>4 DEF RotatingInv, PlaceInv
    <3> QED BY <3>1, <3>2
  <2>8. /\ \A n \in DOMAIN files' : files'[n] \in Seq(Entry(calls'))
        /\ \A n \in DOMAIN files' : \A j, k \in DOMAIN files'[n] :
              j < k => files'[n][j].end < files'[n][k].end
        /\ Rotating!KeepsTheNewest'
        /\ Rotating!SizeBound'
        /\ (\A n \in DOMAIN files : Remains(p, n)) => Rotating!Kept' = Rotating!Kept
    BY <2>1, <2>3, <2>7, MovesKeep
  <2>9. Rotating!TypeOK'
    <3>1. /\ DOMAIN files' \subseteq 0 .. OldFileCount
          /\ fd' = FALSE /\ currentSize' \in Nat /\ i' \in 0 .. OldFileCount
          /\ calls' \in 0 .. RotatingMessages /\ logged' \subseteq 1 .. calls'
          /\ trouble' \in 0 .. RotatingTrouble
      BY <2>1, <2>2 DEF RotatingInv, Rotating!TypeOK
    <3>2. /\ rotatingMsg' \in Seq([number : 1 .. calls', size : Sizes])
          /\ Len(rotatingMsg') = 1
      BY <2>1 DEF RotatingInv, Rotating!TypeOK
    <3> QED BY <2>1, <2>8, <3>1, <3>2 DEF Rotating!TypeOK, Entry
  <2>10. PlaceInv' /\ CallInv' /\ SizeInv'
    BY <2>1, <2>2, <2>8 DEF RotatingInv, PlaceInv, CallInv, SizeInv
  <2>11. FullInv'
    <3>1. SUFFICES ASSUME trouble = 0
                   PROVE  FullInv'
      BY <2>1 DEF FullInv
    <3>2. \A n \in DOMAIN files' : \A m \in 0 .. n : m \in DOMAIN files' \/ m = i'
      BY <2>1, <2>2, <3>1 DEF RotatingInv, FullInv
    <3>3. ASSUME Rotating!Kept' # logged'
          PROVE  \/ OldFileCount \in DOMAIN files'
                 \/ i = OldFileCount /\ OldFileCount - 1 \in DOMAIN files'
      <4>1. CASE i \in DOMAIN files
        <5>1. i = OldFileCount
          BY <4>1, <2>1 DEF RotatingInv, PlaceInv
        <5>2. OldFileCount - 1 \in 0 .. i /\ OldFileCount - 1 # i
          BY <5>1, <2>1
        <5> QED BY <4>1, <5>1, <5>2, <2>1, <2>2, <3>1 DEF RotatingInv, FullInv
      <4>2. CASE i \notin DOMAIN files
        <5>1. Rotating!Kept # logged
          BY <4>2, <3>3, <2>1, <2>4, <2>8
        <5> QED BY <4>2, <5>1, <2>1, <2>2, <3>1 DEF RotatingInv, FullInv
      <4> QED BY <4>1, <4>2
    <3> QED BY <2>1, <3>2, <3>3 DEF FullInv
  <2> QED BY <2>8, <2>9, <2>10, <2>11 DEF RotatingInv
<1> QED BY <1>1, <1>2 DEF Rotating!RemoveTarget

(* rotating_file_sink::_rotate: a file moves up by one.                    *)
LEMMA RenameKeepsInv ==
    ASSUME RotatingInv, Rotating!Rename
    PROVE  RotatingInv'
<1>1. CASE Rotating!Exists(files, i - 1) /\ Rotating!Throw /\ UNCHANGED <<files, i>>
  <2>1. rotatingPc = "rename"
    BY DEF Rotating!Rename
  <2>2. UNCHANGED <<files, fd, currentSize, flushed, i, calls, logged>>
    BY <1>1 DEF Rotating!Rename
  <2> QED BY <1>1, <2>1, <2>2, ThrowKeepsInv
<1>2. CASE /\ files' = IF Rotating!Exists(files, i - 1) THEN Rotating!Renamed(files, i - 1, i)
                                                       ELSE files
           /\ rotatingPc' = IF i > 1 THEN "remove" ELSE "reopen"
           /\ i' = i - 1
           /\ UNCHANGED <<rotatingMsg, trouble>>
  <2>1. /\ rotatingPc = "rename" /\ fd = FALSE
        /\ i \in 1 .. OldFileCount /\ OldFileCount \in Nat /\ i \notin DOMAIN files
        /\ UNCHANGED <<fd, currentSize, flushed, calls, logged, rotatingMsg, trouble>>
        /\ i' = i - 1
        /\ \/ i > 1 /\ rotatingPc' = "remove"
           \/ i = 1 /\ rotatingPc' = "reopen"
    BY <1>2, FilesAssumption DEF Rotating!Rename, RotatingInv, PlaceInv, Rotating!TypeOK,
                                 Rotating!RotatingAssumption
  <2>2. DOMAIN files \subseteq 0 .. OldFileCount
    BY FileFacts
  <2> DEFINE p == [n \in DOMAIN files' |-> IF n = i THEN i - 1 ELSE n]
  <2>3. CASE i - 1 \in DOMAIN files
    <3>1. /\ DOMAIN files' = (DOMAIN files \ {i - 1}) \union {i}
          /\ \A n \in DOMAIN files' : files'[n] = IF n = i THEN files[i - 1] ELSE files[n]
      BY <1>2, <2>3 DEF Rotating!Exists, Rotating!Renamed
    <3>2. /\ DOMAIN files' \subseteq 0 .. OldFileCount
          /\ i' \notin DOMAIN files'
      BY <2>1, <2>2, <3>1
    <3>3. Moves(p)
      <4>1. \A n \in DOMAIN files' : p[n] \in DOMAIN files /\ files'[n] = files[p[n]]
        BY <2>1, <2>3, <3>1
      <4>2. ASSUME NEW n \in DOMAIN files', NEW o \in DOMAIN files', n < o
            PROVE  p[n] < p[o]
        <5>1. n \in Nat /\ o \in Nat /\ i \in Nat /\ n # i - 1 /\ o # i - 1
          BY <2>1, <3>2
        <5>2. p[n] = (IF n = i THEN i - 1 ELSE n) /\ p[o] = (IF o = i THEN i - 1 ELSE o)
          OBVIOUS
        <5> HIDE DEF p
        <5> n < o
          BY <4>2
        <5>3. CASE n = i
          <6>1. p[n] = i - 1 /\ p[o] = o /\ i < o
            BY <5>1, <5>2, <5>3
          <6> QED BY <5>1, <6>1
        <5>4. CASE o = i
          <6>1. p[n] = n /\ p[o] = i - 1 /\ n < i
            BY <5>1, <5>2, <5>4
          <6> QED BY <5>1, <6>1
        <5>5. CASE n # i /\ o # i
          BY <5>2, <5>5
        <5> QED BY <5>3, <5>4, <5>5
      <4>3. p \in [DOMAIN files' -> 0 .. OldFileCount]
        BY <2>2, <4>1
      <4> QED BY <4>1, <4>2, <4>3 DEF Moves
    <3>4. \A n \in DOMAIN files : Remains(p, n)
      <4>1. TAKE n \in DOMAIN files
      <4>2. CASE n = i - 1
        <5>1. i \in DOMAIN files' /\ p[i] = n /\ files'[i] = files[n]
          BY <4>2, <3>1
        <5> QED BY <5>1 DEF Remains
      <4>3. CASE n # i - 1
        <5>1. n \in DOMAIN files' /\ p[n] = n /\ files'[n] = files[n]
          BY <4>3, <2>1, <3>1
        <5> QED BY <5>1 DEF Remains
      <4> QED BY <4>2, <4>3
    <3> HIDE DEF p
    <3>5. /\ \A n \in DOMAIN files' : files'[n] \in Seq(Entry(calls'))
          /\ \A n \in DOMAIN files' : \A j, k \in DOMAIN files'[n] :
                j < k => files'[n][j].end < files'[n][k].end
          /\ Rotating!KeepsTheNewest'
          /\ Rotating!SizeBound'
          /\ Rotating!Kept' = Rotating!Kept
      BY <2>1, <3>3, <3>4, MovesKeep
    <3>6. Rotating!TypeOK'
      <4>1. /\ DOMAIN files' \subseteq 0 .. OldFileCount
            /\ fd' = FALSE /\ currentSize' \in Nat /\ i' \in 0 .. OldFileCount
            /\ calls' \in 0 .. RotatingMessages /\ logged' \subseteq 1 .. calls'
            /\ trouble' \in 0 .. RotatingTrouble
        BY <2>1, <3>2 DEF RotatingInv, Rotating!TypeOK
      <4>2. /\ rotatingMsg' \in Seq([number : 1 .. calls', size : Sizes])
            /\ Len(rotatingMsg') = 1
        BY <2>1 DEF RotatingInv, Rotating!TypeOK
      <4> QED BY <2>1, <3>5, <4>1, <4>2 DEF Rotating!TypeOK, Entry
    <3>7. PlaceInv' /\ CallInv' /\ SizeInv'
      BY <2>1, <3>2, <3>5 DEF RotatingInv, PlaceInv, CallInv, SizeInv
    <3>8. FullInv'
      <4>1. SUFFICES ASSUME trouble = 0
                     PROVE  FullInv'
        BY <2>1 DEF FullInv
      <4>2. ASSUME NEW n \in DOMAIN files', NEW m \in 0 .. n
            PROVE  m \in DOMAIN files' \/ m = i'
        <5>1. CASE m = i
          BY <5>1, <3>1
        <5>2. CASE m # i /\ n # i
          BY <5>2, <4>1, <4>2, <2>1, <3>1 DEF RotatingInv, FullInv
        <5>3. CASE m # i /\ n = i
          <6>1. m \in 0 .. i - 1
            BY <5>3, <4>2, <2>1
          <6> QED BY <5>3, <6>1, <4>1, <2>1, <2>3, <3>1 DEF RotatingInv, FullInv
        <5> QED BY <5>1, <5>2, <5>3
      <4>3. Rotating!Kept' # logged' => OldFileCount \in DOMAIN files'
        BY <4>1, <2>1, <3>1, <3>5 DEF RotatingInv, FullInv
      <4> QED BY <2>1, <4>2, <4>3 DEF FullInv
    <3> QED BY <3>5, <3>6, <3>7, <3>8 DEF RotatingInv
  <2>4. CASE i - 1 \notin DOMAIN files
    <3>1. files' = files
      BY <1>2, <2>4 DEF Rotating!Exists
    <3>2. Rotating!TypeOK'
      <4>1. /\ DOMAIN files' \subseteq 0 .. OldFileCount
            /\ fd' = FALSE /\ currentSize' \in Nat /\ i' \in 0 .. OldFileCount
            /\ calls' \in 0 .. RotatingMessages /\ logged' \subseteq 1 .. calls'
            /\ trouble' \in 0 .. RotatingTrouble
        BY <2>1, <3>1 DEF RotatingInv, Rotating!TypeOK
      <4>2. /\ rotatingMsg' \in Seq([number : 1 .. calls', size : Sizes])
            /\ Len(rotatingMsg') = 1
        BY <2>1 DEF RotatingInv, Rotating!TypeOK
      <4>3. \A n \in DOMAIN files' : files'[n] \in Seq(Entry(calls'))
        BY <2>1, <3>1, FileFacts
      <4> QED BY <2>1, <4>1, <4>2, <4>3 DEF Rotating!TypeOK, Entry
    <3>3. PlaceInv' /\ CallInv' /\ SizeInv'
      BY <2>1, <2>4, <3>1 DEF RotatingInv, PlaceInv, CallInv, SizeInv
    <3>4. FullInv'
      <4>1. SUFFICES ASSUME trouble = 0
                     PROVE  FullInv'
        BY <2>1 DEF FullInv
      <4>2. ASSUME NEW n \in DOMAIN files
            PROVE  n < i - 1
        <5>1. ~(i - 1 \in 0 .. n)
          BY <4>1, <2>1, <2>4 DEF RotatingInv, FullInv
        <5> QED BY <5>1, <2>1, <2>2
      <4>3. \A n \in DOMAIN files : \A m \in 0 .. n : m \in DOMAIN files
        BY <4>1, <4>2, <2>1, <2>2 DEF RotatingInv, FullInv
      <4>4. Rotating!Kept = logged
        BY <4>1, <4>2, <2>1, <2>4 DEF RotatingInv, FullInv
      <4> QED BY <2>1, <3>1, <4>3, <4>4, KeptStays DEF FullInv, RotatingInv
    <3> QED BY <2>1, <3>1, <3>2, <3>3, <3>4, KeptStays DEF RotatingInv
  <2> QED BY <2>3, <2>4
<1> QED BY <1>1, <1>2 DEF Rotating!Rename

(* rotating_file_sink::_rotate: the file to write to is opened anew.       *)
LEMMA ReopenKeepsInv ==
    ASSUME RotatingInv, Rotating!Reopen
    PROVE  RotatingInv'
<1>1. CASE Rotating!Throw /\ UNCHANGED <<files, fd, currentSize>>
  <2>1. rotatingPc = "reopen"
    BY DEF Rotating!Reopen
  <2>2. UNCHANGED <<files, fd, currentSize, flushed, i, calls, logged>>
    BY <1>1 DEF Rotating!Reopen
  <2> QED BY <1>1, <2>1, <2>2, ThrowKeepsInv
<1>2. CASE /\ files' = Rotating!OpenedEmpty(files, 0)
           /\ fd' = TRUE /\ currentSize' = rotatingMsg[1].size /\ rotatingPc' = "write"
           /\ UNCHANGED <<rotatingMsg, trouble>>
  <2>1. /\ rotatingPc = "reopen" /\ i = 0 /\ flushed = 0 /\ OldFileCount \in Nat
        /\ OldFileCount = 0 \/ 0 \notin DOMAIN files
        /\ UNCHANGED <<flushed, i, calls, logged, rotatingMsg, trouble>>
    BY <1>2, FilesAssumption DEF Rotating!Reopen, RotatingInv, PlaceInv,
                                 Rotating!RotatingAssumption
  <2>2. /\ DOMAIN files' = DOMAIN files \union {0}
        /\ \A n \in DOMAIN files' : files'[n] = IF n = 0 THEN <<>> ELSE files[n]
    BY <1>2 DEF Rotating!OpenedEmpty
  <2>3. /\ DOMAIN files \subseteq 0 .. OldFileCount
        /\ DOMAIN files' \subseteq 0 .. OldFileCount
    BY <2>1, <2>2, FileFacts
  <2>4. files'[0] = <<>> /\ 0 \in DOMAIN files' /\ Len(files'[0]) = 0
        /\ Rotating!SizeOf(files'[0]) = 0
    BY <2>2, EmptySeq DEF Rotating!SizeOf
  <2> DEFINE p == [n \in DOMAIN files' |-> n]
  <2>5. Moves(p)
    BY <2>2, <2>3 DEF Moves
  <2>6. \A n \in DOMAIN files : n # 0 => Remains(p, n)
    BY <2>2 DEF Remains
  <2> HIDE DEF p
  <2>7. \A n \in DOMAIN files :
           \/ Remains(p, n)
           \/ \A o \in DOMAIN files' : files'[o] = <<>> \/ p[o] < n
    <3>1. TAKE n \in DOMAIN files
    <3>2. CASE n # 0
      BY <3>2, <2>6
    <3>3. CASE n = 0
      <4>1. OldFileCount = 0
        BY <3>3, <2>1
      <4>2. \A o \in DOMAIN files' : o = 0
        BY <4>1, <2>3
      <4> QED BY <4>2, <2>4
    <3> QED BY <3>2, <3>3
  <2>8. /\ \A n \in DOMAIN files' : files'[n] \in Seq(Entry(calls'))
        /\ \A n \in DOMAIN files' : \A j, k \in DOMAIN files'[n] :
              j < k => files'[n][j].end < files'[n][k].end
        /\ Rotating!KeepsTheNewest'
        /\ Rotating!SizeBound'
        /\ (\A n \in DOMAIN files : Remains(p, n)) => Rotating!Kept' = Rotating!Kept
    BY <2>1, <2>5, <2>7, MovesKeep
  <2>9. rotatingMsg[1].size \in Nat
    BY <2>1, MessageFacts
  <2>10. Rotating!TypeOK'
    <3>1. /\ i' \in 0 .. OldFileCount
          /\ calls' \in 0 .. RotatingMessages /\ logged' \subseteq 1 .. calls'
          /\ trouble' \in 0 .. RotatingTrouble
      BY <2>1 DEF RotatingInv, Rotating!TypeOK
    <3>2. /\ rotatingMsg' \in Seq([number : 1 .. calls', size : Sizes])
          /\ Len(rotatingMsg') = 1
      BY <2>1 DEF RotatingInv, Rotating!TypeOK
    <3>3. flushed' <= Len(files'[0])
      BY <2>1, <2>4
    <3> QED BY <1>2, <2>3, <2>4, <2>8, <2>9, <3>1, <3>2, <3>3
            DEF Rotating!TypeOK, Rotating!Exists, Entry
  <2>11. PlaceInv' /\ CallInv'
    BY <1>2, <2>1 DEF RotatingInv, PlaceInv, CallInv
  <2>12. SizeInv'
    <3>1. Rotating!SizeOf(files'[0]) + rotatingMsg'[1].size <= currentSize'
      BY <1>2, <2>4, <2>9
    <3> QED BY <1>2, <2>4, <2>8, <3>1 DEF SizeInv
  <2>13. FullInv'
    <3>1. SUFFICES ASSUME trouble = 0
                   PROVE  FullInv'
      BY <2>1 DEF FullInv
    <3>2. \A n \in DOMAIN files' : \A m \in 0 .. n : m \in DOMAIN files'
      <4>1. TAKE n \in DOMAIN files'
      <4>2. TAKE m \in 0 .. n
      <4>3. CASE n = 0
        BY <4>3, <2>4
      <4>4. CASE n # 0
        BY <4>4, <3>1, <2>1, <2>2 DEF RotatingInv, FullInv
      <4> QED BY <4>3, <4>4
    <3>3. Rotating!Kept' # logged' => OldFileCount \in DOMAIN files'
      <4>1. CASE OldFileCount = 0
        BY <4>1, <2>4
      <4>2. CASE OldFileCount # 0
        <5>1. Rotating!Kept' = Rotating!Kept
          BY <4>2, <2>1, <2>6, <2>8
        <5> QED BY <4>2, <5>1, <2>1, <2>2, <3>1 DEF RotatingInv, FullInv
      <4> QED BY <4>1, <4>2
    <3> QED BY <1>2, <3>2, <3>3 DEF FullInv
  <2> QED BY <2>8, <2>10, <2>11, <2>12, <2>13 DEF RotatingInv
<1> QED BY <1>1, <1>2 DEF Rotating!Reopen

(* file_helper::write: the message goes behind the others of the file.     *)
LEMMA WriteKeepsInv ==
    ASSUME RotatingInv, Rotating!Write
    PROVE  RotatingInv'
<1>1. CASE Rotating!Throw /\ UNCHANGED <<files, logged>>
  <2>1. rotatingPc = "write"
    BY DEF Rotating!Write
  <2>2. UNCHANGED <<files, fd, currentSize, flushed, i, calls, logged>>
    BY <1>1 DEF Rotating!Write
  <2> QED BY <1>1, <2>1, <2>2, ThrowKeepsInv
<1>2. CASE /\ files' = Rotating!Written(files, 0,
                  [number |-> rotatingMsg[1].number,
                   end |-> Rotating!SizeOf(files[0]) + rotatingMsg[1].size])
           /\ logged' = logged \union {rotatingMsg[1].number}
           /\ rotatingPc' = "idle" /\ rotatingMsg' = <<>>
           /\ UNCHANGED trouble
  <2> DEFINE old == Rotating!SizeOf(files[0])
             bytes == rotatingMsg[1].size
             e == [number |-> calls, end |-> old + bytes]
             L == Len(files[0])
  <2>1. /\ rotatingPc = "write" /\ fd = TRUE /\ 0 \in DOMAIN files
        /\ UNCHANGED <<fd, currentSize, flushed, i, calls, trouble>>
    BY <1>2 DEF Rotating!Write, RotatingInv, Rotating!TypeOK, Rotating!Exists
  <2>2. /\ rotatingMsg[1].number = calls /\ bytes \in Nat \ {0} /\ calls \in Nat \ {0}
        /\ old \in Nat /\ L \in Nat /\ files[0] \in Seq(Entry(calls))
        /\ DOMAIN files[0] = 1 .. L
    BY <2>1, MessageFacts, FileFacts
  <2>3. e \in Entry(calls) /\ e.number = calls /\ e.end = old + bytes
    BY <2>2 DEF Entry
  <2>4. files' = [files EXCEPT ![0] = Append(files[0], e)]
    BY <1>2, <2>1, <2>2 DEF Rotating!Written
  <2> HIDE DEF e
  <2>5. /\ DOMAIN files' = DOMAIN files
        /\ \A n \in DOMAIN files : n # 0 => files'[n] = files[n]
        /\ files'[0] = Append(files[0], e)
    BY <2>1, <2>4
  <2>6. /\ files'[0] \in Seq(Entry(calls)) /\ Len(files'[0]) = L + 1
        /\ DOMAIN files'[0] = 1 .. L + 1
        /\ \A k \in 1 .. L : files'[0][k] = files[0][k]
        /\ files'[0][L + 1] = e
        /\ files'[0] # <<>>
    <3>1. /\ Append(files[0], e) \in Seq(Entry(calls))
          /\ Append(files[0], e) # <<>>
          /\ Len(Append(files[0], e)) = Len(files[0]) + 1
          /\ \A k \in 1 .. Len(files[0]) : Append(files[0], e)[k] = files[0][k]
          /\ Append(files[0], e)[Len(files[0]) + 1] = e
      BY <2>2, <2>3, AppendProperties
    <3>2. DOMAIN Append(files[0], e) = 1 .. Len(Append(files[0], e))
      BY <3>1, LenProperties
    <3> QED BY <2>5, <3>1, <3>2
  <2>7. Rotating!SizeOf(files'[0]) = old + bytes
    BY <2>3, <2>6 DEF Rotating!SizeOf
  <2>8. \A n \in DOMAIN files : n \in Nat
    BY FileFacts
  <2> HIDE DEF old, bytes, L
  <2>9. \A n \in DOMAIN files' : \A k \in DOMAIN files'[n] :
           \/ n = 0 /\ k = L + 1 /\ files'[n][k] = e
           \/ /\ k \in DOMAIN files[n] /\ files'[n][k] = files[n][k]
              /\ n = 0 => k < L + 1
    BY <2>2, <2>5, <2>6
  <2>10. Rotating!Kept' = Rotating!Kept \union {calls}
    <3>1. Rotating!Kept' \subseteq Rotating!Kept \union {calls}
      BY <2>3, <2>5, <2>9 DEF Rotating!Kept, Rotating!Numbers
    <3>2. calls \in Rotating!Kept'
      <4>1. 0 \in DOMAIN files' /\ L + 1 \in DOMAIN files'[0]
            /\ files'[0][L + 1].number = calls
        BY <2>1, <2>2, <2>3, <2>5, <2>6
      <4> QED BY <4>1 DEF Rotating!Kept, Rotating!Numbers
    <3>3. ASSUME NEW n \in DOMAIN files, NEW k \in DOMAIN files[n]
          PROVE  files[n][k].number \in Rotating!Kept'
      <4>1. n \in DOMAIN files' /\ k \in DOMAIN files'[n] /\ files'[n][k] = files[n][k]
        BY <2>2, <2>5, <2>6
      <4> QED BY <4>1 DEF Rotating!Kept, Rotating!Numbers
    <3> QED BY <3>1, <3>2, <3>3 DEF Rotating!Kept, Rotating!Numbers
  <2>11. /\ \A m \in logged : m < calls
         /\ Rotating!Kept \subseteq logged
    BY <2>1 DEF RotatingInv, CallInv, Rotating!KeepsTheNewest
  <2>12. \A n \in DOMAIN files : \A k \in DOMAIN files[n] : files[n][k].number < calls
    BY <2>11 DEF Rotating!Kept, Rotating!Numbers
  <2>13. Rotating!KeepsTheNewest'
    <3>1. ASSUME NEW n \in DOMAIN files', NEW o \in DOMAIN files',
                 NEW j \in DOMAIN files'[o], NEW k \in DOMAIN files'[n],
                 o > n \/ (o = n /\ j < k)
          PROVE  files'[o][j].number < files'[n][k].number
      <4>1. CASE n = 0 /\ k = L + 1 /\ files'[n][k] = e
        <5>1. j \in DOMAIN files[o] /\ files'[o][j] = files[o][j]
          <6>1. ~(o = 0 /\ j = L + 1)
            BY <3>1, <4>1, <2>2
          <6> QED BY <6>1, <2>9
        <5> QED BY <4>1, <5>1, <2>3, <2>5, <2>12
      <4>2. CASE /\ k \in DOMAIN files[n] /\ files'[n][k] = files[n][k]
                 /\ n = 0 => k < L + 1
        <5>1. j \in DOMAIN files[o] /\ files'[o][j] = files[o][j]
          <6>1. ~(o = 0 /\ j = L + 1)
            <7>1. SUFFICES ASSUME o = 0, j = L + 1 PROVE FALSE
              OBVIOUS
            <7>2. n \in Nat
              BY <2>5, <2>8
            <7>3. n = 0 /\ k < L + 1 /\ j < k /\ k \in 1 .. L
              BY <7>1, <7>2, <3>1, <4>2, <2>2
            <7> QED BY <7>1, <7>3, <2>2
          <6> QED BY <6>1, <2>9
        <5> QED BY <3>1, <4>2, <5>1, <2>5 DEF RotatingInv, Rotating!KeepsTheNewest
      <4> QED BY <4>1, <4>2, <2>9
    <3>2. Rotating!Kept' \subseteq logged'
      BY <1>2, <2>2, <2>10, <2>11
    <3>3. \A lost \in logged' \ Rotating!Kept' : \A m \in Rotating!Kept' : lost < m
      BY <1>2, <2>2, <2>10, <2>11 DEF RotatingInv, Rotating!KeepsTheNewest
    <3> QED BY <3>1, <3>2, <3>3 DEF Rotating!KeepsTheNewest
  <2>14. Rotating!TypeOK'
    <3>1. \A n \in DOMAIN files' : files'[n] \in Seq(Entry(calls'))
      BY <2>1, <2>5, <2>6, FileFacts
    <3>2. rotatingMsg' \in Seq([number : 1 .. calls', size : Sizes]) /\ Len(rotatingMsg') = 0
      BY <1>2, EmptySeq
    <3>3. /\ DOMAIN files' \subseteq 0 .. OldFileCount
          /\ currentSize' \in Nat /\ i' \in 0 .. OldFileCount
          /\ calls' \in 0 .. RotatingMessages /\ trouble' \in 0 .. RotatingTrouble
      BY <2>1, <2>5 DEF RotatingInv, Rotating!TypeOK
    <3>4. logged' \subseteq 1 .. calls'
      BY <1>2, <2>1, <2>2 DEF RotatingInv, Rotating!TypeOK
    <3>5. flushed' <= Len(files'[0])
      <4>1. flushed \in Nat /\ flushed <= L
        BY <2>1 DEF L, RotatingInv, PlaceInv, Rotating!TypeOK
      <4> QED BY <4>1, <2>1, <2>2, <2>6
    <3>6. /\ rotatingPc' = "idle" /\ fd' = TRUE /\ 0 \in DOMAIN files'
          /\ Len(rotatingMsg') = IF rotatingPc' \in {"idle", "down"} THEN 0 ELSE 1
      BY <1>2, <2>1, <2>5, <3>2
    <3> QED BY <3>1, <3>2, <3>3, <3>4, <3>5, <3>6
            DEF Rotating!TypeOK, Rotating!Exists, Entry
  <2>15. PlaceInv' /\ CallInv'
    BY <1>2, <2>1 DEF PlaceInv, CallInv, RotatingInv
  <2>16. old + bytes <= currentSize /\ (currentSize <= FileSize \/ files[0] = <<>>)
    BY <2>1 DEF old, bytes, RotatingInv, SizeInv
  <2>17. SizeInv'
    <3>1. ASSUME NEW n \in DOMAIN files', NEW j \in DOMAIN files'[n],
                 NEW k \in DOMAIN files'[n], j < k
          PROVE  files'[n][j].end < files'[n][k].end
      <4>1. CASE n = 0 /\ k = L + 1 /\ files'[n][k] = e
        <5>1. j \in 1 .. L /\ files'[n][j] = files[0][j]
          BY <3>1, <4>1, <2>2, <2>6
        <5>2. old = files[0][L].end /\ L \in 1 .. L
          BY <5>1, <2>2 DEF old, L, Rotating!SizeOf
        <5>3. files[0][j].end \in Nat
          BY <5>1, <2>1, FileFacts DEF L
        <5>4. files[0][j].end <= old
          BY <5>1, <5>2, <5>3, <2>1, <2>2 DEF RotatingInv, SizeInv
        <5> QED BY <4>1, <5>1, <5>3, <5>4, <2>2, <2>3
      <4>2. CASE k \in DOMAIN files[n] /\ files'[n][k] = files[n][k] /\ (n = 0 => k < L + 1)
        <5>1. j \in DOMAIN files[n] /\ files'[n][j] = files[n][j]
          <6>1. ~(n = 0 /\ j = L + 1)
            BY <3>1, <4>2, <2>2
          <6> QED BY <6>1, <2>9
        <5> QED BY <3>1, <4>2, <5>1, <2>5 DEF RotatingInv, SizeInv
      <4> QED BY <4>1, <4>2, <2>9
    <3> QED BY <1>2, <2>1, <2>7, <2>16, <3>1 DEF SizeInv
  <2>18. Rotating!SizeBound'
    <3>1. SUFFICES ASSUME NEW n \in DOMAIN files'
                   PROVE  Rotating!SizeOf(files'[n]) <= FileSize \/ Len(files'[n]) <= 1
      BY DEF Rotating!SizeBound, Rotating!SizeOf
    <3>2. CASE n = 0
      <4>1. CASE currentSize <= FileSize
        <5>1. currentSize \in Nat /\ FileSize \in Nat
          BY FilesAssumption DEF RotatingInv, Rotating!TypeOK, Rotating!RotatingAssumption
        <5> QED BY <3>2, <4>1, <5>1, <2>2, <2>7, <2>16
      <4>2. CASE files[0] = <<>>
        <5>1. L = 0
          BY <4>2, EmptySeq DEF L
        <5> QED BY <3>2, <5>1, <2>6
      <4> QED BY <4>1, <4>2, <2>16
    <3>3. CASE n # 0
      BY <3>3, <2>5 DEF RotatingInv, Rotating!SizeBound, Rotating!SizeOf
    <3> QED BY <3>2, <3>3
  <2>19. FullInv'
    <3>1. Rotating!Kept' # logged' => Rotating!Kept # logged
      BY <1>2, <2>2, <2>10
    <3> QED BY <1>2, <2>1, <2>5, <3>1 DEF RotatingInv, FullInv
  <2> QED BY <2>13, <2>14, <2>15, <2>17, <2>18, <2>19 DEF RotatingInv
<1> QED BY <1>1, <1>2 DEF Rotating!Write

(* sink::flush: only what is in the buffer is not safe from a crash.       *)
LEMMA FlushKeepsInv ==
    ASSUME RotatingInv, Rotating!Flush
    PROVE  RotatingInv'
<1>1. /\ fd = TRUE /\ 0 \in DOMAIN files /\ flushed' = Len(files[0])
      /\ UNCHANGED <<files, fd, currentSize, rotatingPc, i, rotatingMsg, calls, logged, trouble>>
  BY DEF Rotating!Flush, RotatingInv, Rotating!TypeOK, Rotating!Exists
<1>2. flushed' \in Nat /\ flushed' <= Len(files'[0])
  BY <1>1, FileFacts
<1>3. Rotating!TypeOK'
  <2>1. \A n \in DOMAIN files' : files'[n] \in Seq(Entry(calls'))
    BY <1>1, FileFacts
  <2>2. /\ rotatingMsg' \in Seq([number : 1 .. calls', size : Sizes])
        /\ Len(rotatingMsg') = IF rotatingPc' \in {"idle", "down"} THEN 0 ELSE 1
        /\ DOMAIN files' \subseteq 0 .. OldFileCount
        /\ currentSize' \in Nat /\ i' \in 0 .. OldFileCount
        /\ calls' \in 0 .. RotatingMessages /\ trouble' \in 0 .. RotatingTrouble
        /\ logged' \subseteq 1 .. calls'
        /\ rotatingPc' \in {"idle", "remove", "rename", "reopen", "write", "down"}
        /\ rotatingPc' \in {"remove", "rename", "reopen", "down"} => ~fd'
    BY <1>1 DEF RotatingInv, Rotating!TypeOK
  <2> QED BY <1>1, <1>2, <2>1, <2>2 DEF Rotating!TypeOK, Rotating!Exists, Entry
<1>4. PlaceInv'
  BY <1>1, <1>2 DEF RotatingInv, PlaceInv, Rotating!Flush
<1>5. CallInv' /\ SizeInv'
  BY <1>1 DEF RotatingInv, CallInv, SizeInv, Rotating!SizeOf
<1>6. FullInv'
  BY <1>1, KeptStays DEF RotatingInv, FullInv
<1> QED BY <1>1, <1>3, <1>4, <1>5, <1>6, KeptStays DEF RotatingInv

(* The end of the process: of the last file a part is left, and what is    *)
(* lost was newer than all that is left.                                   *)
LEMMA CrashKeepsInv ==
    ASSUME RotatingInv, Rotating!Crash
    PROVE  RotatingInv'
<1>1. /\ rotatingPc' = "down" /\ rotatingMsg' = <<>> /\ fd' = FALSE
      /\ trouble' \in 1 .. RotatingTrouble
      /\ UNCHANGED <<currentSize, flushed, i, calls>>
  BY FilesAssumption DEF Rotating!Crash, RotatingInv, Rotating!TypeOK,
                         Rotating!RotatingAssumption
<1>2. /\ DOMAIN files' = DOMAIN files
      /\ \A n \in DOMAIN files' :
            /\ files'[n] \in Seq(Entry(calls))
            /\ Len(files'[n]) \in Nat /\ Len(files'[n]) <= Len(files[n])
            /\ DOMAIN files'[n] = 1 .. Len(files'[n])
            /\ \A k \in 1 .. Len(files'[n]) : files'[n][k] = files[n][k]
            /\ n # 0 => files'[n] = files[n]
      /\ logged' \subseteq logged
      /\ \A m \in logged \ logged' :
            0 \in DOMAIN files /\ \E k \in 1 .. Len(files[0]) :
               k > Len(files'[0]) /\ m = files[0][k].number
      /\ \A k \in 1 .. Len(files[0]) :
            0 \in DOMAIN files /\ k > Len(files'[0]) => files[0][k].number \notin logged'
  <2>1. CASE ~fd
    <3>1. files' = files /\ logged' = logged
      BY <2>1 DEF Rotating!Crash
    <3>2. \A n \in DOMAIN files : /\ files[n] \in Seq(Entry(calls)) /\ Len(files[n]) \in Nat
                                  /\ DOMAIN files[n] = 1 .. Len(files[n])
      BY FileFacts
    <3> QED BY <3>1, <3>2
  <2>2. CASE fd
    <3>1. 0 \in DOMAIN files
      BY <2>2 DEF RotatingInv, Rotating!TypeOK, Rotating!Exists
    <3> DEFINE L == Len(files[0])
    <3>2. PICK left \in flushed .. L :
            /\ files' = [files EXCEPT ![0] = SubSeq(files[0], 1, left)]
            /\ logged' = logged \ Rotating!Numbers(SubSeq(files[0], left + 1, L))
      BY <2>2, <3>1 DEF Rotating!Crash
    <3>3. /\ L \in Nat /\ flushed \in Nat /\ left \in 0 .. L
          /\ files[0] \in Seq(Entry(calls))
      BY <3>1, <3>2, FileFacts DEF RotatingInv, PlaceInv
    <3>4. \A k \in 1 .. L : files[0][k] \in Entry(calls)
      BY <3>3, ElementOfSeq
    <3>5. /\ SubSeq(files[0], 1, left) \in Seq(Entry(calls))
          /\ Len(SubSeq(files[0], 1, left)) = left
          /\ DOMAIN SubSeq(files[0], 1, left) = 1 .. left
          /\ \A k \in 1 .. left : SubSeq(files[0], 1, left)[k] = files[0][k]
      <4>1. /\ 1 \in Int /\ left \in Int /\ \A k \in 1 .. left : files[0][k] \in Entry(calls)
        BY <3>3, <3>4
      <4>2. /\ SubSeq(files[0], 1, left) \in Seq(Entry(calls))
            /\ Len(SubSeq(files[0], 1, left)) = IF 1 <= left THEN left - 1 + 1 ELSE 0
            /\ \A k \in 1 .. left - 1 + 1 : SubSeq(files[0], 1, left)[k] = files[0][1 + k - 1]
        BY <4>1, SubSeqProperties
      <4>3. Len(SubSeq(files[0], 1, left)) = left
        BY <4>2, <3>3
      <4>4. DOMAIN SubSeq(files[0], 1, left) = 1 .. Len(SubSeq(files[0], 1, left))
        BY <4>2, LenProperties
      <4>5. ASSUME NEW k \in 1 .. left PROVE SubSeq(files[0], 1, left)[k] = files[0][k]
        <5>1. k \in 1 .. left - 1 + 1 /\ 1 + k - 1 = k
          BY <3>3
        <5> QED BY <4>2, <5>1
      <4> QED BY <4>2, <4>3, <4>4, <4>5
    <3>6. /\ DOMAIN SubSeq(files[0], left + 1, L) = 1 .. L - left
          /\ \A k \in 1 .. L - left : SubSeq(files[0], left + 1, L)[k] = files[0][left + k]
      <4>1. /\ left + 1 \in Int /\ L \in Int
            /\ \A k \in left + 1 .. L : files[0][k] \in Entry(calls)
        BY <3>3, <3>4
      <4>2. /\ SubSeq(files[0], left + 1, L) \in Seq(Entry(calls))
            /\ Len(SubSeq(files[0], left + 1, L))
                  = IF left + 1 <= L THEN L - (left + 1) + 1 ELSE 0
            /\ \A k \in 1 .. L - (left + 1) + 1 :
                  SubSeq(files[0], left + 1, L)[k] = files[0][left + 1 + k - 1]
        BY <4>1, SubSeqProperties
      <4>3. Len(SubSeq(files[0], left + 1, L)) = L - left
        BY <4>2, <3>3
      <4>4. DOMAIN SubSeq(files[0], left + 1, L) = 1 .. Len(SubSeq(files[0], left + 1, L))
        BY <4>2, LenProperties
      <4>5. ASSUME NEW k \in 1 .. L - left
            PROVE  SubSeq(files[0], left + 1, L)[k] = files[0][left + k]
        <5>1. k \in 1 .. L - (left + 1) + 1 /\ left + 1 + k - 1 = left + k
          BY <3>3
        <5> QED BY <4>2, <5>1
      <4> QED BY <4>3, <4>4, <4>5
    <3>7. /\ DOMAIN files' = DOMAIN files
          /\ \A n \in DOMAIN files : n # 0 => files'[n] = files[n]
          /\ files'[0] = SubSeq(files[0], 1, left)
      BY <3>1, <3>2
    <3> HIDE DEF L
    <3>8. \A m : m \in Rotating!Numbers(SubSeq(files[0], left + 1, L))
                   <=> \E k \in 1 .. L : k > left /\ m = files[0][k].number
      <4>1. TAKE m
      <4>2. ASSUME NEW k \in 1 .. L, k > left, m = files[0][k].number
            PROVE  m \in Rotating!Numbers(SubSeq(files[0], left + 1, L))
        <5>1. k - left \in 1 .. L - left /\ left + (k - left) = k
          BY <4>2, <3>3
        <5> QED BY <4>2, <5>1, <3>6 DEF Rotating!Numbers
      <4>3. ASSUME m \in Rotating!Numbers(SubSeq(files[0], left + 1, L))
            PROVE  \E k \in 1 .. L : k > left /\ m = files[0][k].number
        <5>1. PICK k \in 1 .. L - left : m = files[0][left + k].number
          BY <4>3, <3>6 DEF Rotating!Numbers
        <5>2. left + k \in 1 .. L /\ left + k > left
          BY <3>3
        <5> QED BY <5>1, <5>2
      <4> QED BY <4>2, <4>3
    <3>9. \A n \in DOMAIN files :
             /\ files[n] \in Seq(Entry(calls)) /\ Len(files[n]) \in Nat
             /\ DOMAIN files[n] = 1 .. Len(files[n])
      BY FileFacts
    <3>10. \A n \in DOMAIN files' :
            /\ files'[n] \in Seq(Entry(calls))
            /\ Len(files'[n]) \in Nat /\ Len(files'[n]) <= Len(files[n])
            /\ DOMAIN files'[n] = 1 .. Len(files'[n])
            /\ \A k \in 1 .. Len(files'[n]) : files'[n][k] = files[n][k]
            /\ n # 0 => files'[n] = files[n]
      <4>1. TAKE n \in DOMAIN files'
      <4>2. CASE n # 0
        BY <4>2, <3>7, <3>9
      <4>3. CASE n = 0
        <5>1. Len(files'[0]) = left /\ left \in Nat /\ left <= Len(files[0])
          BY <3>3, <3>5, <3>7 DEF L
        <5> QED BY <4>3, <5>1, <3>5, <3>7
      <4> QED BY <4>2, <4>3
    <3>11. Len(files'[0]) = left
      BY <3>5, <3>7
    <3>12. \A m \in logged \ logged' : \E k \in 1 .. L : k > left /\ m = files[0][k].number
      BY <3>2, <3>8
    <3>13. \A k \in 1 .. L : k > left => files[0][k].number \notin logged'
      BY <3>2, <3>8
    <3> QED BY <3>1, <3>2, <3>7, <3>10, <3>11, <3>12, <3>13 DEF L
  <2> QED BY <2>1, <2>2
<1>3. Rotating!TypeOK'
  <2>1. rotatingMsg' \in Seq([number : 1 .. calls', size : Sizes]) /\ Len(rotatingMsg') = 0
    BY <1>1, EmptySeq
  <2>2. /\ DOMAIN files' \subseteq 0 .. OldFileCount
        /\ currentSize' \in Nat /\ i' \in 0 .. OldFileCount
        /\ calls' \in 0 .. RotatingMessages /\ trouble' \in 0 .. RotatingTrouble
        /\ logged' \subseteq 1 .. calls'
    BY <1>1, <1>2 DEF RotatingInv, Rotating!TypeOK
  <2>3. \A n \in DOMAIN files' : files'[n] \in Seq(Entry(calls'))
    BY <1>1, <1>2
  <2>4. Len(rotatingMsg') = IF rotatingPc' \in {"idle", "down"} THEN 0 ELSE 1
    BY <1>1, <2>1
  <2> QED BY <1>1, <2>1, <2>2, <2>3, <2>4 DEF Rotating!TypeOK, Rotating!Exists, Entry
<1>9. \A n \in DOMAIN files' : \A k \in DOMAIN files'[n] :
        /\ n \in DOMAIN files /\ k \in DOMAIN files[n] /\ files'[n][k] = files[n][k]
        /\ n \in Nat /\ k <= Len(files'[n]) /\ k \in Nat /\ Len(files'[n]) \in Nat
  <2>1. TAKE n \in DOMAIN files'
  <2>2. /\ n \in DOMAIN files /\ n \in Nat
        /\ Len(files[n]) \in Nat /\ DOMAIN files[n] = 1 .. Len(files[n])
    BY <1>2, FileFacts
  <2>3. /\ Len(files'[n]) \in Nat /\ Len(files'[n]) <= Len(files[n])
        /\ DOMAIN files'[n] = 1 .. Len(files'[n])
        /\ \A k \in 1 .. Len(files'[n]) : files'[n][k] = files[n][k]
    BY <1>2
  <2> QED BY <2>2, <2>3
<1>4. Rotating!Kept' \subseteq Rotating!Kept
  BY <1>9 DEF Rotating!Kept, Rotating!Numbers
<1>5. Rotating!KeepsTheNewest'
  <2>2. \A n, o \in DOMAIN files' : \A j \in DOMAIN files'[o], k \in DOMAIN files'[n] :
          o > n \/ (o = n /\ j < k) => files'[o][j].number < files'[n][k].number
    BY <1>9 DEF RotatingInv, Rotating!KeepsTheNewest
  <2>3. ASSUME NEW n \in DOMAIN files', NEW k \in DOMAIN files'[n]
        PROVE  files'[n][k].number \in logged'
    <3>1. SUFFICES ASSUME files'[n][k].number \notin logged' PROVE FALSE
      OBVIOUS
    <3>2. files[n][k].number \in logged
      BY <1>9 DEF RotatingInv, Rotating!KeepsTheNewest, Rotating!Kept, Rotating!Numbers
    <3>3. PICK j \in 1 .. Len(files[0]) :
            0 \in DOMAIN files /\ j > Len(files'[0]) /\ files[n][k].number = files[0][j].number
      BY <1>2, <1>9, <3>1, <3>2
    <3>4. j \in DOMAIN files[0] /\ files[0][j].number \in Nat /\ j \in Nat
      BY <3>3, FileFacts
    <3>5. n > 0 \/ (n = 0 /\ k < j)
      BY <1>9, <3>3, <3>4
    <3>6. files[n][k].number < files[0][j].number
      BY <1>9, <3>3, <3>4, <3>5 DEF RotatingInv, Rotating!KeepsTheNewest
    <3> QED BY <3>3, <3>4, <3>6
  <2>4. ASSUME NEW lost \in logged' \ Rotating!Kept', lost \in Rotating!Kept
        PROVE  FALSE
    <3>1. PICK n \in DOMAIN files : \E k \in DOMAIN files[n] : lost = files[n][k].number
      BY <2>4 DEF Rotating!Kept, Rotating!Numbers
    <3>2. PICK k \in DOMAIN files[n] : lost = files[n][k].number
      BY <3>1
    <3>3. k \in 1 .. Len(files[n]) /\ Len(files[n]) \in Nat
      BY FileFacts
    <3>4. CASE k \in DOMAIN files'[n]
      <4>1. files'[n][k].number = lost
        BY <3>2, <3>4, <1>2, <1>9
      <4> QED BY <4>1, <3>4, <1>2, <2>4 DEF Rotating!Kept, Rotating!Numbers
    <3>5. CASE k \notin DOMAIN files'[n]
      <4>1. n = 0
        BY <3>5, <1>2
      <4>2. k > Len(files'[0])
        BY <4>1, <3>3, <3>5, <1>2
      <4> QED BY <4>1, <4>2, <3>2, <3>3, <1>2, <2>4
    <3> QED BY <3>4, <3>5
  <2>5. Rotating!Kept' \subseteq logged'
    BY <2>3 DEF Rotating!Kept, Rotating!Numbers
  <2>6. \A lost \in logged' \ Rotating!Kept' : \A m \in Rotating!Kept' : lost < m
    BY <1>2, <1>4, <2>4 DEF RotatingInv, Rotating!KeepsTheNewest
  <2> QED BY <2>2, <2>5, <2>6 DEF Rotating!KeepsTheNewest
<1>6. PlaceInv' /\ CallInv' /\ FullInv'
  BY <1>1 DEF RotatingInv, PlaceInv, CallInv, FullInv
<1>7. SizeInv'
  BY <1>1, <1>9 DEF RotatingInv, SizeInv
<1>8. Rotating!SizeBound'
  <2>1. SUFFICES ASSUME NEW n \in DOMAIN files'
                 PROVE  Rotating!SizeOf(files'[n]) <= FileSize \/ Len(files'[n]) <= 1
    BY DEF Rotating!SizeBound, Rotating!SizeOf
  <2>2. /\ n \in DOMAIN files /\ Len(files'[n]) \in Nat /\ Len(files[n]) \in Nat
        /\ Len(files'[n]) <= Len(files[n])
        /\ \A k \in 1 .. Len(files'[n]) : files'[n][k] = files[n][k]
        /\ \A k \in 1 .. Len(files[n]) : files[n][k].end \in Nat
        /\ DOMAIN files[n] = 1 .. Len(files[n])
    BY <1>2, FileFacts
  <2>3. SUFFICES ASSUME Len(files'[n]) > 1
                 PROVE  Rotating!SizeOf(files'[n]) <= FileSize
    BY <2>2
  <2> DEFINE l == Len(files'[n])
             L == Len(files[n])
  <2>4. l \in 1 .. L /\ L \in 1 .. L /\ l \in 1 .. l /\ L > 1 /\ l <= L
    BY <2>2, <2>3
  <2>5. /\ Rotating!SizeOf(files'[n]) = files[n][l].end
        /\ Rotating!SizeOf(files[n]) = files[n][L].end
    BY <2>2, <2>4, EmptySeq DEF Rotating!SizeOf
  <2>6. Rotating!SizeOf(files[n]) <= FileSize
    BY <2>2, <2>4 DEF RotatingInv, Rotating!SizeBound
  <2>7. files[n][l].end \in Nat /\ files[n][L].end \in Nat /\ FileSize \in Nat
    BY <2>2, <2>4, FilesAssumption DEF Rotating!RotatingAssumption
  <2>8. files[n][l].end <= files[n][L].end
    <3>1. CASE l = L
      BY <3>1, <2>7
    <3>2. CASE l < L
      <4>1. files[n][l].end < files[n][L].end
        BY <3>2, <2>2, <2>4 DEF RotatingInv, SizeInv
      <4> QED BY <4>1, <2>7
    <3> QED BY <3>1, <3>2, <2>2, <2>4
  <2> HIDE DEF l, L
  <2> QED BY <2>5, <2>6, <2>7, <2>8
<1> QED BY <1>3, <1>5, <1>6, <1>7, <1>8 DEF RotatingInv

(* rotating_file_sink: the constructor goes on with the file it finds.     *)
LEMMA RestartKeepsInv ==
    ASSUME RotatingInv, Rotating!Restart
    PROVE  RotatingInv'
<1>1. /\ rotatingPc = "down" /\ rotatingPc' = "idle" /\ fd' = TRUE
      /\ currentSize' = Rotating!SizeOf(files'[0]) /\ flushed' = Len(files'[0])
      /\ UNCHANGED <<i, rotatingMsg, calls, logged, trouble>>
  BY DEF Rotating!Restart, Rotating!SizeOf
<1>2. /\ DOMAIN files' = DOMAIN files \union {0}
      /\ \A n \in DOMAIN files' : files'[n] = IF n \in DOMAIN files THEN files[n] ELSE <<>>
  BY DEF Rotating!Restart, Rotating!OpenedToAppend, Rotating!Exists
<1>3. /\ DOMAIN files \subseteq 0 .. OldFileCount /\ OldFileCount \in Nat
      /\ DOMAIN files' \subseteq 0 .. OldFileCount
  BY <1>2, FileFacts, FilesAssumption DEF Rotating!RotatingAssumption
<1> DEFINE p == [n \in DOMAIN files' |-> n]
<1>4. Moves(p)
  BY <1>2, <1>3 DEF Moves
<1>5. \A n \in DOMAIN files : Remains(p, n)
  BY <1>2 DEF Remains
<1> HIDE DEF p
<1>6. /\ \A n \in DOMAIN files' : files'[n] \in Seq(Entry(calls'))
      /\ \A n \in DOMAIN files' : \A j, k \in DOMAIN files'[n] :
            j < k => files'[n][j].end < files'[n][k].end
      /\ Rotating!KeepsTheNewest'
      /\ Rotating!SizeBound'
  BY <1>1, <1>4, <1>5, MovesKeep
<1>7. Len(files'[0]) \in Nat /\ Rotating!SizeOf(files'[0]) \in Nat
  <2>1. CASE 0 \in DOMAIN files
    <3>1. files'[0] = files[0]
      BY <2>1, <1>2
    <3> QED BY <2>1, <3>1, FileFacts DEF Rotating!SizeOf
  <2>2. CASE 0 \notin DOMAIN files
    <3>1. files'[0] = <<>>
      BY <2>2, <1>2
    <3> QED BY <3>1, EmptySeq DEF Rotating!SizeOf
  <2> QED BY <2>1, <2>2
<1>8. Rotating!TypeOK'
  <2>1. /\ rotatingMsg' \in Seq([number : 1 .. calls', size : Sizes])
        /\ Len(rotatingMsg') = 0
        /\ i' \in 0 .. OldFileCount /\ logged' \subseteq 1 .. calls'
        /\ calls' \in 0 .. RotatingMessages /\ trouble' \in 0 .. RotatingTrouble
    BY <1>1 DEF RotatingInv, Rotating!TypeOK
  <2>2. Len(rotatingMsg') = IF rotatingPc' \in {"idle", "down"} THEN 0 ELSE 1
    BY <1>1, <2>1
  <2>3. 0 \in DOMAIN files' /\ flushed' <= Len(files'[0]) /\ currentSize' \in Nat
    BY <1>1, <1>2, <1>7
  <2> QED BY <1>1, <1>3, <1>6, <2>1, <2>2, <2>3 DEF Rotating!TypeOK, Rotating!Exists, Entry
<1>9. PlaceInv' /\ CallInv'
  BY <1>1, <1>7 DEF PlaceInv, CallInv
<1>10. SizeInv'
  <2>1. Rotating!SizeOf(files'[0]) <= currentSize'
    BY <1>1, <1>7
  <2> QED BY <1>1, <1>6, <2>1 DEF SizeInv
<1>11. FullInv'
  BY <1>1 DEF RotatingInv, FullInv
<1> QED BY <1>6, <1>8, <1>9, <1>10, <1>11 DEF RotatingInv

LEMMA RotatingInit ==
    ASSUME Rotating!Init
    PROVE  RotatingInv
<1>1. /\ DOMAIN files = {0} /\ files[0] = <<>>
      /\ fd = TRUE /\ currentSize = 0 /\ flushed = 0 /\ rotatingPc = "idle" /\ i = 0
      /\ rotatingMsg = <<>> /\ calls = 0 /\ logged = {} /\ trouble = 0
  BY DEF Rotating!Init, Rotating!OpenedToAppend, Rotating!Exists
<1>2. /\ OldFileCount \in Nat /\ FileSize \in Nat
      /\ RotatingMessages \in Nat /\ RotatingTrouble \in Nat
  BY FilesAssumption DEF Rotating!RotatingAssumption
<1>3. /\ Len(<<>>) = 0 /\ DOMAIN <<>> = {} /\ Rotating!SizeOf(<<>>) = 0
      /\ files[0] \in Seq(Entry(0))
      /\ rotatingMsg \in Seq([number : 1 .. calls, size : Sizes])
  BY <1>1, EmptySeq DEF Rotating!SizeOf
<1>4. Rotating!TypeOK
  <2>1. DOMAIN files \subseteq 0 .. OldFileCount
        /\ \A n \in DOMAIN files : files[n] \in Seq([number : 1 .. calls, end : Nat])
    BY <1>1, <1>2, <1>3 DEF Entry
  <2>2. 0 \in DOMAIN files /\ flushed <= Len(files[0]) /\ currentSize \in Nat
    BY <1>1, <1>3
  <2>3. /\ Len(rotatingMsg) = 0 /\ i \in 0 .. OldFileCount /\ logged \subseteq 1 .. calls
        /\ calls \in 0 .. RotatingMessages /\ trouble \in 0 .. RotatingTrouble
    BY <1>1, <1>2, <1>3
  <2> QED BY <1>1, <1>3, <2>1, <2>2, <2>3 DEF Rotating!TypeOK, Rotating!Exists
<1>5. Rotating!Kept = {}
  BY <1>1, <1>3 DEF Rotating!Kept, Rotating!Numbers
<1>6. Rotating!KeepsTheNewest /\ Rotating!SizeBound
  BY <1>1, <1>2, <1>3, <1>5 DEF Rotating!KeepsTheNewest, Rotating!SizeBound
<1>7. PlaceInv /\ CallInv
  BY <1>1 DEF PlaceInv, CallInv
<1>8. SizeInv
  BY <1>1, <1>3 DEF SizeInv
<1>9. FullInv
  BY <1>1, <1>5 DEF FullInv
<1> QED BY <1>4, <1>6, <1>7, <1>8, <1>9 DEF RotatingInv

LEMMA RotatingNext ==
    ASSUME RotatingInv, [Rotating!Next]_rotatingVars
    PROVE  RotatingInv'
<1>1. CASE UNCHANGED rotatingVars
  <2>1. /\ files' = files /\ fd' = fd /\ currentSize' = currentSize /\ flushed' = flushed
        /\ rotatingPc' = rotatingPc /\ i' = i /\ rotatingMsg' = rotatingMsg
        /\ calls' = calls /\ logged' = logged /\ trouble' = trouble
    BY <1>1 DEF rotatingVars
  <2>2. Rotating!TypeOK'
    BY <2>1 DEF RotatingInv, Rotating!TypeOK, Rotating!Exists
  <2>3. PlaceInv' /\ CallInv'
    BY <2>1 DEF RotatingInv, PlaceInv, CallInv
  <2>4. SizeInv'
    BY <2>1 DEF RotatingInv, SizeInv, Rotating!SizeOf
  <2>5. FullInv'
    BY <2>1, KeptStays DEF RotatingInv, FullInv
  <2> QED BY <2>1, <2>2, <2>3, <2>4, <2>5, KeptStays DEF RotatingInv
<1>2. CASE Rotating!Next
  BY <1>2, LogKeepsInv, RemoveKeepsInv, RenameKeepsInv, ReopenKeepsInv, WriteKeepsInv,
     FlushKeepsInv, CrashKeepsInv, RestartKeepsInv DEF Rotating!Next
<1> QED BY <1>1, <1>2

(* As long as nothing fails a message is given up only when all the files  *)
(* there may be are there.                                                 *)
LEMMA FullWhenLost ==
    ASSUME RotatingInv
    PROVE  Rotating!LossOnlyWhenFull
<1>1. SUFFICES ASSUME trouble = 0, rotatingPc = "idle", Rotating!Kept # logged
               PROVE  DOMAIN files = 0 .. OldFileCount
  BY DEF Rotating!LossOnlyWhenFull
<1>2. OldFileCount \in DOMAIN files
  BY <1>1 DEF RotatingInv, FullInv
<1>3. 0 .. OldFileCount \subseteq DOMAIN files
  BY <1>1, <1>2 DEF RotatingInv, FullInv
<1> QED BY <1>3, FileFacts

(* A sequence begins with another one that is no longer and agrees with it.*)
LEMMA PrefixOf ==
    ASSUME NEW S, NEW s \in Seq(S), NEW t \in Seq(S), Len(s) <= Len(t),
           \A k \in 1 .. Len(s) : s[k] = t[k]
    PROVE  Rotating!IsPrefix(s, t)
<1> DEFINE l == Len(s)
<1>1. l \in Nat /\ Len(t) \in Nat /\ 1 \in Int /\ l \in Int
  OBVIOUS
<1>2. (\A k \in 1 .. l : s[k] \in S) /\ (\A k \in 1 .. l : t[k] \in S)
  BY <1>1, ElementOfSeq
<1> HIDE DEF l
<1>3. /\ SubSeq(s, 1, l) \in Seq(S)
      /\ Len(SubSeq(s, 1, l)) = IF 1 <= l THEN l - 1 + 1 ELSE 0
      /\ \A k \in 1 .. l - 1 + 1 : SubSeq(s, 1, l)[k] = s[1 + k - 1]
  BY <1>1, <1>2, SubSeqProperties
<1>4. /\ SubSeq(t, 1, l) \in Seq(S)
      /\ Len(SubSeq(t, 1, l)) = IF 1 <= l THEN l - 1 + 1 ELSE 0
      /\ \A k \in 1 .. l - 1 + 1 : SubSeq(t, 1, l)[k] = t[1 + k - 1]
  BY <1>1, <1>2, SubSeqProperties
<1>5. Len(SubSeq(s, 1, l)) = l /\ Len(SubSeq(t, 1, l)) = l
  BY <1>1, <1>3, <1>4
<1>6. ASSUME NEW k \in 1 .. l PROVE SubSeq(s, 1, l)[k] = SubSeq(t, 1, l)[k]
  <2>1. k \in 1 .. l - 1 + 1 /\ 1 + k - 1 = k
    BY <1>1
  <2>2. s[k] = t[k]
    BY DEF l
  <2> QED BY <2>1, <2>2, <1>3, <1>4
<1>7. SubSeq(s, 1, l) = SubSeq(t, 1, l)
  BY <1>3, <1>4, <1>5, <1>6, SeqEqual
<1> QED BY <1>7 DEF l, Rotating!IsPrefix

(* What happens to the contents of a file that is not the oldest one: they *)
(* stay, with more behind them, or move up by one, and only a crash cuts   *)
(* them.                                                                   *)
LEMMA OldestOnly ==
    ASSUME RotatingInv, Rotating!Next
    PROVE  \A n \in DOMAIN files : n < OldFileCount =>
             \E k \in {n, n + 1} \intersect DOMAIN files' :
                \/ Rotating!IsPrefix(files[n], files'[k])
                \/ rotatingPc' = "down" /\ Rotating!IsPrefix(files'[k], files[n])
<1>1. SUFFICES ASSUME NEW n \in DOMAIN files, n < OldFileCount
               PROVE  \E k \in {n, n + 1} \intersect DOMAIN files' :
                         \/ Rotating!IsPrefix(files[n], files'[k])
                         \/ rotatingPc' = "down" /\ Rotating!IsPrefix(files'[k], files[n])
  OBVIOUS
<1>2. /\ n \in Nat /\ OldFileCount \in Nat /\ n + 1 # n
      /\ Len(files[n]) \in Nat
      /\ files[n] \in Seq(Entry(calls))
      /\ DOMAIN files[n] = 1 .. Len(files[n])
  BY FileFacts, FilesAssumption DEF Rotating!RotatingAssumption
<1>3. Rotating!IsPrefix(files[n], files[n])
  BY <1>2, PrefixOf
<1>4. SUFFICES ASSUME ~(n \in DOMAIN files' /\ files'[n] = files[n])
               PROVE  \E k \in {n, n + 1} \intersect DOMAIN files' :
                         \/ Rotating!IsPrefix(files[n], files'[k])
                         \/ rotatingPc' = "down" /\ Rotating!IsPrefix(files'[k], files[n])
  BY <1>3
<1>5. CASE Rotating!Log \/ Rotating!Flush
  BY <1>4, <1>5 DEF Rotating!Log, Rotating!Flush
<1>6. CASE Rotating!RemoveTarget
  <2>1. files' = Rotating!Removed(files, i) /\ rotatingPc = "remove"
    BY <1>4, <1>6 DEF Rotating!RemoveTarget
  <2>2. n # i
    BY <1>1, <1>2, <2>1 DEF RotatingInv, PlaceInv
  <2> QED BY <1>4, <2>1, <2>2 DEF Rotating!Removed, Rotating!Restrict
<1>7. CASE Rotating!Rename
  <2>1. /\ i - 1 \in DOMAIN files /\ files' = Rotating!Renamed(files, i - 1, i)
        /\ rotatingPc = "rename"
    BY <1>4, <1>7 DEF Rotating!Rename, Rotating!Exists
  <2>2. i \in 1 .. OldFileCount /\ i \notin DOMAIN files
    BY <2>1 DEF RotatingInv, PlaceInv
  <2>3. /\ DOMAIN files' = (DOMAIN files \ {i - 1}) \union {i}
        /\ \A k \in DOMAIN files' : files'[k] = IF k = i THEN files[i - 1] ELSE files[k]
    BY <2>1 DEF Rotating!Renamed
  <2>4. n = i - 1
    BY <1>4, <2>2, <2>3
  <2>5. n + 1 = i
    BY <1>2, <2>2, <2>4
  <2>6. n + 1 \in DOMAIN files' /\ files'[n + 1] = files[n]
    BY <2>3, <2>4, <2>5
  <2> QED BY <1>3, <2>6
<1>8. CASE Rotating!Reopen
  <2>1. files' = Rotating!OpenedEmpty(files, 0) /\ rotatingPc = "reopen"
    BY <1>4, <1>8 DEF Rotating!Reopen
  <2>2. n = 0
    BY <1>4, <2>1 DEF Rotating!OpenedEmpty
  <2>3. OldFileCount = 0
    BY <2>1, <2>2 DEF RotatingInv, PlaceInv
  <2> QED BY <1>1, <2>2, <2>3
<1>9. CASE Rotating!Write
  <2>1. /\ rotatingPc = "write"
        /\ files' = Rotating!Written(files, 0,
                        [number |-> rotatingMsg[1].number,
                         end |-> Rotating!SizeOf(files[0]) + rotatingMsg[1].size])
    BY <1>4, <1>9 DEF Rotating!Write
  <2> DEFINE e == [number |-> calls, end |-> Rotating!SizeOf(files[0]) + rotatingMsg[1].size]
  <2>2. files' = [files EXCEPT ![0] = Append(files[0], e)]
    BY <2>1, MessageFacts DEF Rotating!Written
  <2>3. e \in Entry(calls)
    <3>1. 0 \in DOMAIN files
      BY <2>1 DEF RotatingInv, Rotating!TypeOK, Rotating!Exists
    <3>2. calls \in Nat \ {0} /\ rotatingMsg[1].size \in Nat /\ Rotating!SizeOf(files[0]) \in Nat
      BY <2>1, <3>1, MessageFacts, FileFacts
    <3> QED BY <3>2 DEF Entry
  <2> HIDE DEF e
  <2>4. n = 0 /\ files'[n] = Append(files[n], e) /\ n \in DOMAIN files'
    BY <1>4, <2>2
  <2>5. /\ files'[n] \in Seq(Entry(calls)) /\ Len(files'[n]) = Len(files[n]) + 1
        /\ \A k \in 1 .. Len(files[n]) : files'[n][k] = files[n][k]
    BY <1>2, <2>3, <2>4, AppendProperties
  <2>6. Rotating!IsPrefix(files[n], files'[n])
    BY <1>2, <2>5, PrefixOf
  <2> QED BY <2>4, <2>6
<1>10. CASE Rotating!Crash
  <2>1. fd /\ rotatingPc' = "down"
    BY <1>4, <1>10 DEF Rotating!Crash
  <2>2. PICK left \in flushed .. Len(files[0]) :
          files' = [files EXCEPT ![0] = SubSeq(files[0], 1, left)]
    BY <2>1, <1>10 DEF Rotating!Crash
  <2>3. n = 0 /\ n \in DOMAIN files' /\ files'[n] = SubSeq(files[n], 1, left)
    BY <1>4, <2>2
  <2>4. left \in 0 .. Len(files[n]) /\ left \in Int /\ 1 \in Int
    BY <1>2, <2>2, <2>3 DEF RotatingInv, PlaceInv
  <2>5. \A k \in 1 .. left : files[n][k] \in Entry(calls)
    BY <1>2, <2>4, ElementOfSeq
  <2>6. /\ SubSeq(files[n], 1, left) \in Seq(Entry(calls))
        /\ Len(SubSeq(files[n], 1, left)) = IF 1 <= left THEN left - 1 + 1 ELSE 0
        /\ \A k \in 1 .. left - 1 + 1 : SubSeq(files[n], 1, left)[k] = files[n][1 + k - 1]
    BY <2>4, <2>5, SubSeqProperties
  <2>7. Len(files'[n]) = left
    BY <2>3, <2>4, <2>6
  <2>8. ASSUME NEW k \in 1 .. left PROVE files'[n][k] = files[n][k]
    <3>1. k \in 1 .. left - 1 + 1 /\ 1 + k - 1 = k
      BY <2>4
    <3> QED BY <2>3, <2>6, <3>1
  <2>9. Rotating!IsPrefix(files'[n], files[n])
    BY <1>2, <2>3, <2>4, <2>6, <2>7, <2>8, PrefixOf
  <2> QED BY <2>1, <2>3, <2>9
<1>11. CASE Rotating!Restart
  <2>1. n \in DOMAIN files' /\ files'[n] = files[n]
    BY <1>11 DEF Rotating!Restart, Rotating!OpenedToAppend, Rotating!Exists
  <2> QED BY <1>4, <2>1
<1> QED BY <1>5, <1>6, <1>7, <1>8, <1>9, <1>10, <1>11 DEF Rotating!Next

-----------------------------------------------------------------------------
(* Files by day: the steps.                                                *)

(* Quotients and the times at which to rotate.                             *)
LEMMA Quotient ==
    ASSUME NEW a \in Nat
    PROVE  /\ a \div Day \in Nat
           /\ (a \div Day) * Day \in Nat
           /\ (a \div Day) * Day <= a /\ a < (a \div Day) * Day + Day
<1>1. Day \in Nat \ {0}
  BY FilesAssumption DEF Daily!DailyAssumption
<1> QED BY <1>1

LEMMA Multiples ==
    ASSUME NEW a \in Int, NEW b \in Int, a < b
    PROVE  /\ a * Day \in Int /\ b * Day \in Int
           /\ a * Day + Day <= b * Day
<1>1. Day \in Nat \ {0}
  BY FilesAssumption DEF Daily!DailyAssumption
<1>2. b - a - 1 \in Nat
  OBVIOUS
<1>3. (b - a - 1) * Day \in Nat
  BY <1>1, <1>2
<1>4. b * Day = a * Day + Day + (b - a - 1) * Day
  BY <1>1
<1>5. a * Day \in Int /\ b * Day \in Int
  BY <1>1
<1> QED BY <1>1, <1>3, <1>4, <1>5

LEMMA QuotientGrows ==
    ASSUME NEW a \in Nat, NEW b \in Nat, a <= b
    PROVE  a \div Day <= b \div Day
<1>1. SUFFICES ASSUME b \div Day < a \div Day PROVE FALSE
  BY Quotient
<1>2. /\ a \div Day \in Nat /\ b \div Day \in Nat
      /\ (a \div Day) * Day <= a /\ b < (b \div Day) * Day + Day
  BY Quotient
<1>3. (b \div Day) * Day + Day <= (a \div Day) * Day
  BY <1>1, <1>2, Multiples
<1>4. (b \div Day) * Day \in Nat /\ (a \div Day) * Day \in Nat /\ Day \in Nat
  BY Quotient, FilesAssumption DEF Daily!DailyAssumption
<1> QED BY <1>2, <1>3, <1>4

(* The last rotation up to a time is a day or less before it, and those of *)
(* two times are whole days apart.                                         *)
LEMMA LastRotationFacts ==
    ASSUME NEW t \in Nat
    PROVE  /\ Daily!LastRotation(t) \in Int
           /\ Daily!LastRotation(t) <= t /\ t < Daily!LastRotation(t) + Day
           /\ \E k \in Int : Daily!LastRotation(t) = k * Day + Rotation
<1>1. Day \in Nat \ {0} /\ Rotation \in Nat /\ Rotation < Day
  BY FilesAssumption DEF Daily!DailyAssumption
<1> DEFINE q == t \div Day
<1>2. q \in Nat /\ q * Day \in Nat /\ q * Day <= t /\ t < q * Day + Day
  BY Quotient
<1>3. Daily!LastRotation(t) = IF q * Day + Rotation <= t THEN q * Day + Rotation
                                                        ELSE q * Day + Rotation - Day
  BY <1>1, <1>2 DEF Daily!LastRotation
<1> HIDE DEF q
<1>4. CASE q * Day + Rotation <= t
  <2>1. Daily!LastRotation(t) = q * Day + Rotation
    BY <1>3, <1>4
  <2> QED BY <1>1, <1>2, <1>4, <2>1
<1>5. CASE ~(q * Day + Rotation <= t)
  <2>1. Daily!LastRotation(t) = q * Day + Rotation - Day
    BY <1>3, <1>5
  <2>2. (q - 1) * Day = q * Day - Day /\ q - 1 \in Int
    BY <1>1, <1>2
  <2>3. Daily!LastRotation(t) = (q - 1) * Day + Rotation
    BY <1>1, <1>2, <2>1, <2>2
  <2>4. /\ Daily!LastRotation(t) \in Int
        /\ Daily!LastRotation(t) <= t /\ t < Daily!LastRotation(t) + Day
    BY <1>1, <1>2, <1>5, <2>1
  <2> QED BY <2>2, <2>3, <2>4
<1> QED BY <1>4, <1>5

LEMMA LastRotationGrows ==
    ASSUME NEW a \in Nat, NEW b \in Nat, a < Daily!LastRotation(b) + Day
    PROVE  Daily!LastRotation(a) <= Daily!LastRotation(b)
<1>1. Day \in Nat \ {0} /\ Rotation \in Nat
  BY FilesAssumption DEF Daily!DailyAssumption
<1>2. PICK k \in Int : Daily!LastRotation(a) = k * Day + Rotation
  BY LastRotationFacts
<1>3. PICK l \in Int : Daily!LastRotation(b) = l * Day + Rotation
  BY LastRotationFacts
<1>4. /\ k * Day \in Int /\ l * Day \in Int
      /\ k * Day + Rotation <= a /\ a < l * Day + Rotation + Day
  BY <1>1, <1>2, <1>3, LastRotationFacts
<1>5. CASE l < k
  <2>1. l * Day + Day <= k * Day
    BY <1>5, Multiples
  <2> QED BY <1>1, <1>4, <2>1
<1>6. CASE k < l
  <2>1. k * Day + Day <= l * Day
    BY <1>6, Multiples
  <2> QED BY <1>1, <1>2, <1>3, <1>4, <2>1
<1>7. CASE k = l
  BY <1>1, <1>2, <1>3, <1>4, <1>7
<1> QED BY <1>5, <1>6, <1>7

(* daily_file_sink::_next_rotation_tp.                                     *)
LEMMA NextIsLastAndADay ==
    ASSUME dayNow \in Nat
    PROVE  /\ Daily!NextRotationTp = Daily!LastRotation(dayNow) + Day
           /\ Daily!NextRotationTp \in Nat
<1>1. Day \in Nat \ {0} /\ Rotation \in Nat
  BY FilesAssumption DEF Daily!DailyAssumption
<1> DEFINE today == (dayNow \div Day) * Day + Rotation
<1>2. today \in Nat
  BY <1>1, Quotient
<1>3. /\ Daily!NextRotationTp = IF today > dayNow THEN today ELSE today + Day
      /\ Daily!LastRotation(dayNow) = IF today <= dayNow THEN today ELSE today - Day
  BY DEF Daily!NextRotationTp, Daily!LastRotation
<1> HIDE DEF today
<1> QED BY <1>1, <1>2, <1>3

LEMMA DayFacts ==
    ASSUME DailyInv
    PROVE  /\ dayNow \in Nat /\ dayNow \div Day \in Nat /\ current <= dayNow \div Day
           /\ current \in Nat
           /\ \A d \in DOMAIN dayFiles :
                 /\ d \in Nat /\ d <= current
                 /\ dayFiles[d] \in Seq([number : Nat, time : Nat])
                 /\ Len(dayFiles[d]) \in Nat /\ DOMAIN dayFiles[d] = 1 .. Len(dayFiles[d])
                 /\ \A k \in DOMAIN dayFiles[d] : dayFiles[d][k].number \in Nat
           /\ call.number \in Nat /\ call.time \in Nat
<1>1. dayNow \in Nat /\ current \in Nat /\ DOMAIN dayFiles \subseteq 0 .. current
  BY FilesAssumption DEF DailyInv, Daily!TypeOK, Daily!DailyAssumption
<1>2. current <= dayNow \div Day /\ call \in [number : Nat, time : Nat]
  BY DEF DailyInv
<1>3. ASSUME NEW d \in DOMAIN dayFiles
      PROVE  /\ dayFiles[d] \in Seq([number : Nat, time : Nat])
             /\ Len(dayFiles[d]) \in Nat /\ DOMAIN dayFiles[d] = 1 .. Len(dayFiles[d])
             /\ \A k \in DOMAIN dayFiles[d] : dayFiles[d][k].number \in Nat
  <2>1. dayFiles[d] \in Seq([number : Nat, time : Nat])
    BY DEF DailyInv
  <2>2. Len(dayFiles[d]) \in Nat /\ DOMAIN dayFiles[d] = 1 .. Len(dayFiles[d])
    BY <2>1
  <2>3. ASSUME NEW k \in DOMAIN dayFiles[d] PROVE dayFiles[d][k].number \in Nat
    <3>1. dayFiles[d][k] \in [number : Nat, time : Nat]
      BY <2>1, <2>2, ElementOfSeq
    <3> QED BY <3>1
  <2> QED BY <2>1, <2>2, <2>3
<1> QED BY <1>1, <1>2, <1>3, Quotient

(* Opening a file leaves what there is, and the new file is the last one.  *)
LEMMA OpenedInOrder ==
    ASSUME DailyInv, Daily!OpenCurrent
    PROVE  /\ current' = dayNow \div Day /\ current' \in Nat /\ current' \in DOMAIN dayFiles'
           /\ DOMAIN dayFiles' \subseteq 0 .. current'
           /\ \A d \in DOMAIN dayFiles' : dayFiles'[d] \in Seq([number : Nat, time : Nat])
           /\ \A d \in DOMAIN dayFiles' : \A k \in DOMAIN dayFiles'[d] :
                 /\ d \in DOMAIN dayFiles /\ k \in DOMAIN dayFiles[d]
                 /\ dayFiles'[d][k] = dayFiles[d][k]
           /\ Daily!InOrder'
<1>1. /\ current' = dayNow \div Day
      /\ DOMAIN dayFiles' = DOMAIN dayFiles \union {current'}
      /\ \A d \in DOMAIN dayFiles' :
            dayFiles'[d] = IF d \in DOMAIN dayFiles THEN dayFiles[d] ELSE <<>>
  BY DEF Daily!OpenCurrent, Daily!CalcFilename, Daily!OpenedToAppend, Daily!Exists
<1>2. current' \in Nat /\ current <= current'
  BY <1>1, DayFacts
<1>3. ASSUME NEW d \in DOMAIN dayFiles' PROVE d \in 0 .. current'
  BY <1>1, <1>2, DayFacts
<1>4. DOMAIN <<>> = {} /\ <<>> \in Seq([number : Nat, time : Nat])
  BY EmptySeq
<1>5. \A d \in DOMAIN dayFiles' : dayFiles'[d] \in Seq([number : Nat, time : Nat])
  BY <1>1, <1>4, DayFacts
<1>6. \A d \in DOMAIN dayFiles' : \A k \in DOMAIN dayFiles'[d] :
         /\ d \in DOMAIN dayFiles /\ k \in DOMAIN dayFiles[d]
         /\ dayFiles'[d][k] = dayFiles[d][k]
  BY <1>1, <1>4
<1>7. Daily!InOrder'
  BY <1>6 DEF Daily!InOrder, DailyInv
<1> QED BY <1>1, <1>2, <1>3, <1>5, <1>6, <1>7

(* Whatever leaves the files and the call alone and forgets no step.       *)
LEMMA DayStays ==
    ASSUME DailyInv, dayFiles' = dayFiles, call' = call, current' \in Nat,
           current <= current', current' <= dayNow' \div Day,
           dayPc' \in {"check", "open", "next", "write"} =>
              dayPc \in {"check", "open", "next", "write"},
           Daily!TypeOK', OpenInv'
    PROVE  DailyInv'
<1>1. DOMAIN dayFiles' \subseteq 0 .. current'
  BY DayFacts
<1> QED BY <1>1 DEF DailyInv, Daily!InOrder

(* daily_file_sink: the constructor opens the first file.                  *)
LEMMA ConstructKeepsInv ==
    ASSUME DailyInv, Daily!Construct
    PROVE  DailyInv'
<1>1. /\ Daily!OpenCurrent /\ dayPc' = "idle" /\ dayFd' = TRUE
      /\ UNCHANGED <<dayNow, rotationTp, call, dayTrouble, computed>>
  BY DEF Daily!Construct, Daily!OpenCurrent
<1>2. /\ current' = dayNow \div Day /\ current' \in Nat /\ current' \in DOMAIN dayFiles'
      /\ DOMAIN dayFiles' \subseteq 0 .. current'
      /\ \A d \in DOMAIN dayFiles' : dayFiles'[d] \in Seq([number : Nat, time : Nat])
      /\ \A d \in DOMAIN dayFiles' : \A k \in DOMAIN dayFiles'[d] :
            /\ d \in DOMAIN dayFiles /\ k \in DOMAIN dayFiles[d]
            /\ dayFiles'[d][k] = dayFiles[d][k]
      /\ Daily!InOrder'
  BY <1>1, OpenedInOrder
<1>3. Daily!TypeOK'
  BY <1>1, <1>2 DEF DailyInv, Daily!TypeOK, Daily!Exists
<1>4. \A d \in DOMAIN dayFiles' : \A k \in DOMAIN dayFiles'[d] :
         dayFiles'[d][k].number <= call'.number
  BY <1>1, <1>2 DEF DailyInv
<1>5. call' \in [number : Nat, time : Nat] /\ current' <= dayNow' \div Day
  BY <1>1, <1>2, DayFacts DEF DailyInv
<1> QED BY <1>1, <1>2, <1>3, <1>4, <1>5 DEF DailyInv, OpenInv

(* daily_file_sink::_sink_it: the call begins.                             *)
LEMMA LogOnADayKeepsInv ==
    ASSUME DailyInv, Daily!Log
    PROVE  DailyInv'
<1>1. /\ dayPc = "idle" /\ dayPc' = "check"
      /\ call' = [number |-> call.number + 1, time |-> dayNow]
      /\ call.number < DailyMessages
      /\ UNCHANGED <<dayNow, dayFiles, rotationTp, current, dayFd, dayTrouble, opened, computed>>
  BY DEF Daily!Log
<1>2. /\ call'.number = call.number + 1 /\ call'.time = dayNow
      /\ call' \in [number : Nat, time : Nat]
  BY <1>1, DayFacts
<1>3. call'.number \in 0 .. DailyMessages /\ call'.time <= dayNow'
  BY <1>1, <1>2, DayFacts, FilesAssumption DEF Daily!DailyAssumption
<1>4. Daily!TypeOK'
  BY <1>1, <1>3 DEF DailyInv, Daily!TypeOK, Daily!Exists
<1>5. \A d \in DOMAIN dayFiles : \A k \in DOMAIN dayFiles[d] :
         dayFiles[d][k].number < call'.number
  <2>1. TAKE d \in DOMAIN dayFiles
  <2>2. TAKE k \in DOMAIN dayFiles[d]
  <2>3. dayFiles[d][k].number <= call.number
    BY DEF DailyInv
  <2>4. dayFiles[d][k].number \in Nat /\ call.number \in Nat
    BY DayFacts
  <2> QED BY <1>2, <2>3, <2>4
<1>6. \A d \in DOMAIN dayFiles : \A k \in DOMAIN dayFiles[d] :
         dayFiles[d][k].number <= call'.number
  <2>1. TAKE d \in DOMAIN dayFiles
  <2>2. TAKE k \in DOMAIN dayFiles[d]
  <2>3. dayFiles[d][k].number \in Nat /\ call'.number \in Nat
    BY <1>2, DayFacts
  <2> QED BY <1>5, <2>3
<1>7. OpenInv'
  BY <1>1 DEF DailyInv, OpenInv
<1> QED BY <1>1, <1>2, <1>4, <1>5, <1>6, <1>7 DEF DailyInv, Daily!InOrder

LEMMA CheckKeepsInv ==
    ASSUME DailyInv, Daily!Check
    PROVE  DailyInv'
<1>1. /\ dayPc = "check"
      /\ dayPc' = IF dayNow >= rotationTp THEN "open" ELSE "write"
      /\ UNCHANGED <<dayNow, dayFiles, rotationTp, current, dayFd, call, dayTrouble>>
  BY DEF Daily!Check
<1>2. Daily!TypeOK'
  <2>1. rotationTp \in Nat /\ dayNow \in Nat
    BY DayFacts DEF DailyInv, Daily!TypeOK
  <2>2. dayFd = TRUE \/ dayPc' = "open"
    BY <1>1, <2>1 DEF DailyInv, Daily!TypeOK, OpenInv
  <2> QED BY <1>1, <2>2 DEF DailyInv, Daily!TypeOK, Daily!Exists
<1>3. OpenInv'
  <2>1. rotationTp \in Nat /\ dayNow \in Nat
    BY DayFacts DEF DailyInv, Daily!TypeOK
  <2> QED BY <1>1, <2>1 DEF DailyInv, OpenInv
<1> QED BY <1>1, <1>2, <1>3, DayStays, DayFacts

(* daily_file_sink::_sink_it: a file is opened, or cannot be.              *)
LEMMA OpenKeepsInv ==
    ASSUME DailyInv, Daily!Open
    PROVE  DailyInv'
<1>1. CASE Daily!OpenCurrent /\ dayPc' = "next" /\ UNCHANGED dayTrouble
  <2>1. /\ dayPc = "open" /\ dayFd' = TRUE
        /\ UNCHANGED <<dayNow, rotationTp, call, dayTrouble>>
    BY <1>1 DEF Daily!Open, Daily!OpenCurrent
  <2>2. /\ current' = dayNow \div Day /\ current' \in Nat /\ current' \in DOMAIN dayFiles'
        /\ DOMAIN dayFiles' \subseteq 0 .. current'
        /\ \A d \in DOMAIN dayFiles' : dayFiles'[d] \in Seq([number : Nat, time : Nat])
        /\ \A d \in DOMAIN dayFiles' : \A k \in DOMAIN dayFiles'[d] :
              /\ d \in DOMAIN dayFiles /\ k \in DOMAIN dayFiles[d]
              /\ dayFiles'[d][k] = dayFiles[d][k]
        /\ Daily!InOrder'
    BY <1>1, OpenedInOrder
  <2>3. Daily!TypeOK'
    BY <1>1, <2>1, <2>2 DEF DailyInv, Daily!TypeOK, Daily!Exists
  <2>4. \A d \in DOMAIN dayFiles' : \A k \in DOMAIN dayFiles'[d] :
           dayFiles'[d][k].number <= call'.number /\ dayFiles'[d][k].number < call'.number
    BY <2>1, <2>2 DEF DailyInv
  <2>5. call' \in [number : Nat, time : Nat] /\ current' <= dayNow' \div Day
    BY <2>1, <2>2, DayFacts DEF DailyInv
  <2>6. OpenInv'
    BY <1>1, <2>1 DEF OpenInv
  <2> QED BY <1>1, <2>2, <2>3, <2>4, <2>5, <2>6 DEF DailyInv
<1>2. CASE Daily!OpenFails /\ dayPc' = "idle"
  <2>1. /\ dayPc = "open" /\ dayFd' = FALSE /\ current' = dayNow \div Day
        /\ dayTrouble < DailyTrouble /\ dayTrouble' = dayTrouble + 1
        /\ UNCHANGED <<dayNow, dayFiles, rotationTp, call>>
    BY <1>2 DEF Daily!Open, Daily!OpenFails, Daily!CalcFilename
  <2>2. dayTrouble' \in 0 .. DailyTrouble
    BY <2>1, FilesAssumption DEF DailyInv, Daily!TypeOK, Daily!DailyAssumption
  <2>3. Daily!TypeOK'
    BY <1>2, <2>1, <2>2 DEF DailyInv, Daily!TypeOK, Daily!Exists
  <2>4. OpenInv'
    BY <1>2, <2>1 DEF DailyInv, OpenInv
  <2> QED BY <1>2, <2>1, <2>3, <2>4, DayStays, DayFacts
<1> QED BY <1>1, <1>2 DEF Daily!Open

LEMMA SetNextKeepsInv ==
    ASSUME DailyInv, Daily!SetNextRotation
    PROVE  DailyInv'
<1>1. /\ dayPc = "next" /\ dayPc' = "write" /\ rotationTp' = Daily!NextRotationTp
      /\ UNCHANGED <<dayNow, dayFiles, current, dayFd, call, dayTrouble>>
  BY DEF Daily!SetNextRotation
<1>2. rotationTp' \in Nat
  BY <1>1, NextIsLastAndADay, DayFacts
<1>3. Daily!TypeOK'
  BY <1>1, <1>2 DEF DailyInv, Daily!TypeOK, Daily!Exists, OpenInv
<1>4. OpenInv'
  BY <1>1 DEF DailyInv, OpenInv
<1> QED BY <1>1, <1>3, <1>4, DayStays, DayFacts

(* file_helper::write: the message goes to the last file, behind the older *)
(* ones.                                                                   *)
LEMMA WriteOnADayKeepsInv ==
    ASSUME DailyInv, Daily!Write
    PROVE  DailyInv'
<1>1. /\ dayPc = "write" /\ dayPc' = "idle" /\ dayFd = TRUE /\ current \in DOMAIN dayFiles
      /\ dayFiles' = [dayFiles EXCEPT ![current] = Append(dayFiles[current], call)]
      /\ UNCHANGED <<dayNow, rotationTp, current, dayFd, call, dayTrouble>>
  BY DEF Daily!Write, Daily!Written, DailyInv, Daily!TypeOK, Daily!Exists
<1> DEFINE L == Len(dayFiles[current])
           longer == Append(dayFiles[current], call)
<1>2. /\ DOMAIN dayFiles' = DOMAIN dayFiles
      /\ dayFiles'[current] = longer
      /\ \A d \in DOMAIN dayFiles : d # current => dayFiles'[d] = dayFiles[d]
  BY <1>1
<1>3. /\ L \in Nat /\ DOMAIN dayFiles[current] = 1 .. L
      /\ dayFiles[current] \in Seq([number : Nat, time : Nat])
      /\ call \in [number : Nat, time : Nat]
  BY <1>1, DayFacts DEF DailyInv
<1>4. /\ longer \in Seq([number : Nat, time : Nat])
      /\ Len(longer) = L + 1
      /\ \A k \in 1 .. L : longer[k] = dayFiles[current][k]
      /\ longer[L + 1] = call
  BY <1>3, AppendProperties
<1>5. DOMAIN longer = 1 .. L + 1
  BY <1>4, LenProperties
<1> HIDE DEF L, longer
<1>6. \A d \in DOMAIN dayFiles' : \A k \in DOMAIN dayFiles'[d] :
         \/ d = current /\ k = L + 1 /\ dayFiles'[d][k] = call
         \/ /\ k \in DOMAIN dayFiles[d] /\ dayFiles'[d][k] = dayFiles[d][k]
            /\ d = current => k < L + 1
  <2>1. TAKE d \in DOMAIN dayFiles'
  <2>2. TAKE k \in DOMAIN dayFiles'[d]
  <2>3. CASE d # current
    BY <2>3, <1>2
  <2>4. CASE d = current
    <3>1. k \in 1 .. L + 1 /\ dayFiles'[d] = longer
      BY <2>4, <1>2, <1>5
    <3>2. CASE k = L + 1
      BY <2>4, <3>1, <3>2, <1>4
    <3>3. CASE k # L + 1
      <4>1. k \in 1 .. L /\ k < L + 1
        BY <3>1, <3>3, <1>3
      <4> QED BY <2>4, <3>1, <4>1, <1>3, <1>4
    <3> QED BY <3>2, <3>3
  <2> QED BY <2>3, <2>4
<1>7. \A d \in DOMAIN dayFiles : \A k \in DOMAIN dayFiles[d] :
         dayFiles[d][k].number < call.number
  BY <1>1 DEF DailyInv
<1>8. Daily!InOrder'
  <2>1. SUFFICES ASSUME NEW d1 \in DOMAIN dayFiles', NEW d2 \in DOMAIN dayFiles',
                        NEW j \in DOMAIN dayFiles'[d1], NEW k \in DOMAIN dayFiles'[d2],
                        d1 < d2 \/ (d1 = d2 /\ j < k)
                 PROVE  dayFiles'[d1][j].number < dayFiles'[d2][k].number
    BY DEF Daily!InOrder
  <2>2. d1 \in Nat /\ d2 \in Nat /\ d2 <= current /\ d1 <= current /\ current \in Nat
    BY <1>2, DayFacts
  <2>3. CASE d2 = current /\ k = L + 1 /\ dayFiles'[d2][k] = call
    <3>1. ~(d1 = current /\ j = L + 1)
      BY <2>1, <2>2, <2>3, <1>3
    <3> QED BY <2>3, <3>1, <1>2, <1>6, <1>7
  <2>4. CASE /\ k \in DOMAIN dayFiles[d2] /\ dayFiles'[d2][k] = dayFiles[d2][k]
             /\ d2 = current => k < L + 1
    <3>1. ~(d1 = current /\ j = L + 1)
      <4>1. SUFFICES ASSUME d1 = current, j = L + 1 PROVE FALSE
        OBVIOUS
      <4>2. d2 = current /\ j < k
        BY <4>1, <2>1, <2>2
      <4>3. k \in 1 .. L
        BY <4>2, <2>4, <1>3
      <4> QED BY <4>1, <4>2, <4>3, <1>3
    <3>2. j \in DOMAIN dayFiles[d1] /\ dayFiles'[d1][j] = dayFiles[d1][j]
      BY <3>1, <1>6
    <3> QED BY <2>1, <2>4, <3>2, <1>2 DEF DailyInv, Daily!InOrder
  <2> QED BY <2>3, <2>4, <1>6
<1>9. Daily!TypeOK'
  BY <1>1, <1>2 DEF DailyInv, Daily!TypeOK, Daily!Exists
<1>10. \A d \in DOMAIN dayFiles' : \A k \in DOMAIN dayFiles'[d] :
          dayFiles'[d][k].number <= call.number
  BY <1>2, <1>6, <1>7, DayFacts
<1>11. \A d \in DOMAIN dayFiles' : dayFiles'[d] \in Seq([number : Nat, time : Nat])
  BY <1>2, <1>4, DayFacts
<1>12. DOMAIN dayFiles' \subseteq 0 .. current'
  BY <1>1, <1>2 DEF DailyInv
<1>13. OpenInv'
  BY <1>1 DEF OpenInv
<1> QED BY <1>1, <1>8, <1>9, <1>10, <1>11, <1>12, <1>13 DEF DailyInv

LEMMA TimeOfDayKeepsInv ==
    ASSUME DailyInv, Daily!TimePasses
    PROVE  DailyInv'
<1>1. /\ dayNow < DailyTime /\ dayNow' = dayNow + 1
      /\ UNCHANGED <<dayFiles, rotationTp, current, dayFd, dayPc, call, dayTrouble>>
  BY DEF Daily!TimePasses
<1>2. dayNow' \in Nat /\ dayNow <= dayNow' /\ dayNow' \in 0 .. DailyTime /\ call'.time <= dayNow'
  BY <1>1, DayFacts, FilesAssumption DEF DailyInv, Daily!TypeOK, Daily!DailyAssumption
<1>3. current' <= dayNow' \div Day
  BY <1>1, <1>2, DayFacts, QuotientGrows, Quotient
<1>4. Daily!TypeOK'
  BY <1>1, <1>2 DEF DailyInv, Daily!TypeOK, Daily!Exists
<1>5. OpenInv'
  <2>1. rotationTp \in Nat /\ dayNow \in Nat
    BY DayFacts DEF DailyInv, Daily!TypeOK
  <2> QED BY <1>1, <2>1 DEF DailyInv, OpenInv
<1> QED BY <1>1, <1>3, <1>4, <1>5, DayStays, DayFacts

LEMMA DailyInit ==
    ASSUME Daily!Init
    PROVE  DailyInv /\ DueInv
<1>1. /\ dayNow \in 0 .. Day - 1 /\ dayFiles = <<>> /\ rotationTp = Daily!NextRotationTp
      /\ current = 0 /\ dayFd = FALSE /\ dayPc = "new"
      /\ call = [number |-> 0, time |-> 0] /\ dayTrouble = 0 /\ opened = 0 /\ computed = dayNow
  BY DEF Daily!Init
<1>2. /\ Day \in Nat \ {0} /\ dayNow \in Nat /\ DailyTime \in Nat
      /\ DailyMessages \in Nat /\ DailyTrouble \in Nat
  BY <1>1, FilesAssumption DEF Daily!DailyAssumption
<1>3. rotationTp = Daily!LastRotation(dayNow) + Day /\ rotationTp \in Nat
  BY <1>1, <1>2, NextIsLastAndADay
<1>4. DOMAIN dayFiles = {}
  BY <1>1
<1>5. current \in Nat /\ current <= dayNow \div Day
  BY <1>1, <1>2, Quotient
<1>6. call.number = 0 /\ call.time = 0 /\ call \in [number : Nat, time : Nat]
  BY <1>1
<1>7. Daily!TypeOK
  <2>1. dayNow \in 0 .. DailyTime
    BY <1>1, <1>2, FilesAssumption DEF Daily!DailyAssumption
  <2>2. call.number \in 0 .. DailyMessages /\ call.time <= dayNow /\ dayTrouble \in 0 .. DailyTrouble
    BY <1>1, <1>2, <1>6
  <2> QED BY <1>1, <1>3, <2>1, <2>2 DEF Daily!TypeOK
<1>8. DailyInv
  BY <1>1, <1>4, <1>5, <1>6, <1>7 DEF DailyInv, OpenInv, Daily!InOrder
<1>9. DueInv
  BY <1>1, <1>2, <1>3 DEF DueInv
<1> QED BY <1>8, <1>9

(* What is due: the steps that read the clock.                             *)
LEMMA DueStays ==
    ASSUME DailyInv, DueInv, Daily!Next
    PROVE  DueInv'
<1>0. /\ dayNow \in Nat /\ rotationTp \in Nat /\ call.time \in Nat /\ call.time <= dayNow
      /\ opened \in Nat /\ opened <= dayNow /\ computed \in Nat /\ computed <= dayNow
      /\ rotationTp = Daily!LastRotation(computed) + Day
  BY DayFacts DEF DailyInv, DueInv, Daily!TypeOK
<1>1. CASE Daily!Construct
  BY <1>0, <1>1 DEF Daily!Construct, Daily!OpenCurrent, DueInv, Daily!LastRotation
<1>2. CASE Daily!Log
  BY <1>0, <1>2 DEF Daily!Log, DueInv, Daily!LastRotation
<1>3. CASE Daily!Check
  BY <1>0, <1>3 DEF Daily!Check, DueInv, Daily!LastRotation
<1>4. CASE Daily!Open
  BY <1>0, <1>4 DEF Daily!Open, Daily!OpenCurrent, Daily!OpenFails, DueInv, Daily!LastRotation
<1>5. CASE Daily!SetNextRotation
  <2>1. /\ rotationTp' = Daily!LastRotation(computed') + Day /\ computed' = dayNow
        /\ dayPc = "next" /\ dayPc' = "write" /\ UNCHANGED <<dayNow, opened, call>>
    BY <1>0, <1>5, NextIsLastAndADay DEF Daily!SetNextRotation
  <2> QED BY <1>0, <2>1 DEF DueInv, Daily!LastRotation
<1>6. CASE Daily!Write
  BY <1>0, <1>6 DEF Daily!Write, DueInv, Daily!LastRotation
<1>7. CASE Daily!TimePasses
  BY <1>0, <1>7 DEF Daily!TimePasses, DueInv, Daily!LastRotation
<1> QED BY <1>1, <1>2, <1>3, <1>4, <1>5, <1>6, <1>7 DEF Daily!Next

LEMMA DailyNext ==
    ASSUME DailyInv, DueInv, [Daily!Next]_dailyVars
    PROVE  DailyInv' /\ DueInv'
<1>1. CASE UNCHANGED dailyVars
  <2>1. /\ dayNow' = dayNow /\ dayFiles' = dayFiles /\ rotationTp' = rotationTp
        /\ current' = current /\ dayFd' = dayFd /\ dayPc' = dayPc /\ call' = call
        /\ dayTrouble' = dayTrouble /\ opened' = opened /\ computed' = computed
    BY <1>1 DEF dailyVars
  <2>2. DailyInv'
    BY <2>1 DEF DailyInv, Daily!TypeOK, Daily!Exists, OpenInv, Daily!InOrder
  <2>3. DueInv'
    BY <2>1 DEF DueInv, Daily!LastRotation
  <2> QED BY <2>2, <2>3
<1>2. CASE Daily!Next
  BY <1>2, ConstructKeepsInv, LogOnADayKeepsInv, CheckKeepsInv, OpenKeepsInv, SetNextKeepsInv,
     WriteOnADayKeepsInv, TimeOfDayKeepsInv, DueStays DEF Daily!Next
<1> QED BY <1>1, <1>2

(* What is written after a rotation is due goes to a file named since.     *)
LEMMA WrittenOnTime ==
    ASSUME DailyInv, DueInv, Daily!Write
    PROVE  \/ opened >= Daily!LastRotation(call.time)
           \/ Daily!LastRotation(opened) < Daily!LastRotation(computed)
<1>0. /\ call.time \in Nat /\ opened \in Nat /\ computed \in Nat /\ dayPc = "write"
      /\ rotationTp = Daily!LastRotation(computed) + Day
  BY DayFacts DEF DailyInv, DueInv, Daily!Write
<1>1. /\ Daily!LastRotation(call.time) \in Int /\ Daily!LastRotation(call.time) <= call.time
      /\ Daily!LastRotation(opened) \in Int /\ Daily!LastRotation(opened) <= opened
      /\ Daily!LastRotation(computed) \in Int
  BY <1>0, LastRotationFacts
<1>2. CASE opened >= call.time
  BY <1>0, <1>1, <1>2
<1>3. CASE call.time < Daily!LastRotation(computed) + Day
  <2>1. Daily!LastRotation(call.time) <= Daily!LastRotation(computed)
    BY <1>0, <1>3, LastRotationGrows
  <2> QED BY <1>0, <1>1, <2>1
<1> QED BY <1>0, <1>2, <1>3 DEF DueInv

-----------------------------------------------------------------------------
(* Files by step: the steps.                                               *)

(* Names of files.                                                         *)
LEMMA Names ==
    ASSUME NEW s, NEW t
    PROVE  /\ Step!Tmp(s) = Step!Tmp(t) <=> s = t
           /\ Step!Final(s) = Step!Final(t) <=> s = t
           /\ Step!Tmp(s) # Step!Final(t)
           /\ Step!Tmp(s) # <<>>
           /\ \A a, b : Step!Tmp(s) \in (a .. b) \X {"tmp", "log"} <=> s \in a .. b
           /\ \A a, b : Step!Final(s) \in (a .. b) \X {"tmp", "log"} <=> s \in a .. b
BY DEF Step!Tmp, Step!Final

(* All that is in some file.                                               *)
InFiles == UNION {Step!ToSet(stepFiles[n]) : n \in DOMAIN stepFiles}

LEMMA StepFacts ==
    ASSUME StepInv
    PROVE  /\ stepNow \in Nat /\ tp \in Nat /\ stepCurrent \in Nat /\ stepCurrent <= stepNow
           /\ newName \in Int /\ newName <= stepNow
           /\ stepSize \in Nat /\ sent \in Nat /\ StepFileSize \in Nat \ {0}
           /\ stepPc = "write" => stepFd # <<>>
           /\ stepFd # <<>> => /\ stepFd = Step!Tmp(stepCurrent)
                               /\ stepPc # "open" => stepFd \in DOMAIN stepFiles
           /\ InFiles \subseteq stepLogged
           /\ \A n \in DOMAIN stepFiles :
                 /\ stepFiles[n] \in Seq(1 .. sent)
                 /\ Len(stepFiles[n]) \in Nat /\ Len(stepFiles[n]) <= sent
                 /\ DOMAIN stepFiles[n] = 1 .. Len(stepFiles[n])
                 /\ Len(stepFiles[n]) = 0 => stepFiles[n] = <<>>
<1>1. /\ StepFileSize \in Nat \ {0} /\ StepTime \in Nat /\ StepMessages \in Nat
      /\ StepSeconds \in Nat \ {0}
  BY FilesAssumption DEF Step!StepAssumption
<1>2. /\ stepNow \in Nat /\ tp \in Nat /\ stepCurrent \in Nat /\ stepCurrent <= stepNow
      /\ newName \in Int /\ newName <= stepNow
      /\ stepSize \in Nat /\ sent \in Nat
  BY <1>1 DEF StepInv, Step!TypeOK, Step!NoName
<1>3. /\ stepPc = "write" => stepFd # <<>>
      /\ stepFd # <<>> => /\ stepFd = Step!Tmp(stepCurrent)
                          /\ stepPc # "open" => stepFd \in DOMAIN stepFiles
  BY DEF StepInv, Step!TypeOK, Step!Exists, StepCallInv
<1>4. InFiles \subseteq stepLogged
  BY DEF StepInv, Step!NothingIsLost, InFiles
<1>5. ASSUME NEW n \in DOMAIN stepFiles
      PROVE  /\ stepFiles[n] \in Seq(1 .. sent)
             /\ Len(stepFiles[n]) \in Nat /\ Len(stepFiles[n]) <= sent
             /\ DOMAIN stepFiles[n] = 1 .. Len(stepFiles[n])
             /\ Len(stepFiles[n]) = 0 => stepFiles[n] = <<>>
  <2>1. stepFiles[n] \in Seq(1 .. sent) /\ Len(stepFiles[n]) <= sent
    BY DEF StepInv, StepFileInv
  <2>2. stepFiles[n] # <<>> => Len(stepFiles[n]) \in Nat \ {0}
    BY <2>1, EmptySeq
  <2> QED BY <2>1, <2>2
<1> QED BY <1>1, <1>2, <1>3, <1>4, <1>5

(* fopen: there is a new, empty file or an old one.                        *)
LEMMA OpenedFile ==
    ASSUME StepInv, NEW s \in 0 .. stepNow,
           stepFiles' = Step!OpenedToAppend(stepFiles, Step!Tmp(s)), sent' = sent
    PROVE  /\ DOMAIN stepFiles' = DOMAIN stepFiles \union {Step!Tmp(s)}
           /\ \A n \in DOMAIN stepFiles : stepFiles'[n] = stepFiles[n]
           /\ Step!Tmp(s) \notin DOMAIN stepFiles => Len(stepFiles'[Step!Tmp(s)]) = 0
           /\ \A n \in DOMAIN stepFiles' :
                 stepFiles'[n] \in Seq(1 .. sent') /\ Len(stepFiles'[n]) <= sent'
           /\ InFiles' = InFiles
           /\ DOMAIN stepFiles' \subseteq (0 .. stepNow) \X {"tmp", "log"}
<1>1. /\ DOMAIN stepFiles' = DOMAIN stepFiles \union {Step!Tmp(s)}
      /\ \A n \in DOMAIN stepFiles' :
            stepFiles'[n] = IF n \in DOMAIN stepFiles THEN stepFiles[n] ELSE <<>>
  BY DEF Step!OpenedToAppend, Step!Exists
<1>2. <<>> \in Seq(1 .. sent) /\ Len(<<>>) = 0 /\ DOMAIN <<>> = {}
  BY EmptySeq
<1>3. Step!ToSet(<<>>) = {}
  BY <1>2 DEF Step!ToSet
<1>4. InFiles' = InFiles
  <2>1. ASSUME NEW n \in DOMAIN stepFiles', NEW m \in Step!ToSet(stepFiles'[n])
        PROVE  m \in InFiles
    BY <1>1, <1>3, <2>1 DEF InFiles
  <2>2. ASSUME NEW n \in DOMAIN stepFiles, NEW m \in Step!ToSet(stepFiles[n])
        PROVE  m \in InFiles'
    BY <1>1, <2>2 DEF InFiles
  <2> QED BY <2>1, <2>2 DEF InFiles
<1>5. DOMAIN stepFiles' \subseteq (0 .. stepNow) \X {"tmp", "log"}
  <2>1. Step!Tmp(s) \in (0 .. stepNow) \X {"tmp", "log"}
    BY Names
  <2> QED BY <1>1, <2>1 DEF StepInv, StepFileInv
<1>6. \A n \in DOMAIN stepFiles' :
         stepFiles'[n] \in Seq(1 .. sent') /\ Len(stepFiles'[n]) <= sent'
  <2>1. TAKE n \in DOMAIN stepFiles'
  <2>2. CASE n \in DOMAIN stepFiles
    BY <2>2, <1>1, StepFacts
  <2>3. CASE n \notin DOMAIN stepFiles
    <3>1. stepFiles'[n] = <<>>
      BY <2>3, <1>1
    <3>2. Len(<<>>) <= sent'
      BY <1>2, StepFacts
    <3> QED BY <3>1, <3>2, <1>2
  <2> QED BY <2>2, <2>3
<1> QED BY <1>1, <1>2, <1>4, <1>5, <1>6

(* close_current_file: a file is deleted only when it is empty, and one    *)
(* that gets its final name takes it from another one, if it has it.       *)
LEMMA ClosedFile ==
    ASSUME StepInv, Step!CloseCurrentFile, stepPc # "down", sent' = sent
    PROVE  /\ Step!Tmp(stepCurrent) \notin DOMAIN stepFiles'
           /\ \A s : Step!Tmp(s) \in DOMAIN stepFiles' => Step!Tmp(s) \in DOMAIN stepFiles
           /\ \A n \in DOMAIN stepFiles' :
                 stepFiles'[n] \in Seq(1 .. sent') /\ Len(stepFiles'[n]) <= sent'
           /\ DOMAIN stepFiles' \subseteq (0 .. stepNow) \X {"tmp", "log"}
           /\ replaced' \subseteq stepLogged
           /\ stepLogged = replaced' \union InFiles'
           /\ stepTrouble' = stepTrouble
<1> DEFINE old == Step!Tmp(stepCurrent)
           new == Step!Final(stepCurrent)
<1>0. stepLogged = replaced \union InFiles
  BY DEF StepInv, Step!NothingIsLost, InFiles
<1>1. CASE /\ Step!Empty /\ old \in DOMAIN stepFiles
           /\ stepFiles' = Step!Removed(stepFiles, old)
           /\ replaced' = replaced
  <2>1. /\ DOMAIN stepFiles' = DOMAIN stepFiles \ {old}
        /\ \A n \in DOMAIN stepFiles' : stepFiles'[n] = stepFiles[n]
    BY <1>1 DEF Step!Removed, Step!Restrict
  <2>2. stepFiles[old] = <<>>
    <3>1. stepSize <= 0 /\ stepSize \in Nat
      BY <1>1, StepFacts DEF Step!Empty
    <3>2. Len(stepFiles[old]) <= stepSize /\ Len(stepFiles[old]) \in Nat
      BY <1>1, StepFacts DEF StepInv, StepFileInv
    <3> QED BY <1>1, <3>1, <3>2, StepFacts
  <2>3. Step!ToSet(stepFiles[old]) = {}
    <3>1. DOMAIN <<>> = {}
      OBVIOUS
    <3> QED BY <2>2, <3>1 DEF Step!ToSet
  <2> HIDE DEF old
  <2>4. InFiles' = InFiles
    BY <2>1, <2>3 DEF InFiles
  <2>5. \A n \in DOMAIN stepFiles' :
           stepFiles'[n] \in Seq(1 .. sent') /\ Len(stepFiles'[n]) <= sent'
    BY <2>1, StepFacts
  <2>6. DOMAIN stepFiles' \subseteq (0 .. stepNow) \X {"tmp", "log"}
    BY <2>1 DEF StepInv, StepFileInv
  <2>7. replaced' \subseteq stepLogged /\ stepLogged = replaced' \union InFiles'
    BY <1>0, <1>1, <2>4
  <2> QED BY <1>1, <2>1, <2>5, <2>6, <2>7 DEF old, Step!CloseCurrentFile
<1>2. CASE /\ old \in DOMAIN stepFiles
           /\ stepFiles' = Step!Renamed(stepFiles, old, new)
           /\ replaced' = replaced \union Step!Contents(new)
  <2>1. /\ DOMAIN stepFiles' = (DOMAIN stepFiles \ {old}) \union {new}
        /\ \A n \in DOMAIN stepFiles' :
              stepFiles'[n] = IF n = new THEN stepFiles[old] ELSE stepFiles[n]
    BY <1>2 DEF Step!Renamed
  <2>2. old # new /\ \A s : Step!Tmp(s) # new
    BY Names
  <2>3. Step!Contents(new) = IF new \in DOMAIN stepFiles THEN Step!ToSet(stepFiles[new]) ELSE {}
    BY DEF Step!Contents, Step!Exists
  <2>4. new \in (0 .. stepNow) \X {"tmp", "log"}
    BY Names, StepFacts
  <2>5. \A s : Step!Tmp(s) \in DOMAIN stepFiles' => Step!Tmp(s) \in DOMAIN stepFiles
    BY <2>1, <2>2
  <2> HIDE DEF old, new
  <2>6. \A n \in DOMAIN stepFiles' :
           stepFiles'[n] \in Seq(1 .. sent') /\ Len(stepFiles'[n]) <= sent'
    BY <1>2, <2>1, StepFacts
  <2>7. DOMAIN stepFiles' \subseteq (0 .. stepNow) \X {"tmp", "log"}
    BY <2>1, <2>4 DEF StepInv, StepFileInv
  <2>8. replaced' \subseteq stepLogged
    BY <1>0, <1>2, <2>3 DEF InFiles
  <2>9. InFiles' \subseteq InFiles
    BY <1>2, <2>1 DEF InFiles
  <2>10. InFiles \subseteq replaced' \union InFiles'
    <3>1. SUFFICES ASSUME NEW n \in DOMAIN stepFiles, NEW m \in Step!ToSet(stepFiles[n])
                   PROVE  m \in replaced' \union InFiles'
      BY DEF InFiles
    <3>2. CASE n = old
      BY <2>1, <3>1, <3>2 DEF InFiles
    <3>3. CASE n = new
      BY <1>2, <2>3, <3>1, <3>3
    <3>4. CASE n # old /\ n # new
      BY <2>1, <3>1, <3>4 DEF InFiles
    <3> QED BY <3>2, <3>3, <3>4
  <2>11. stepLogged = replaced' \union InFiles'
    BY <1>0, <1>2, <2>8, <2>9, <2>10
  <2>12. old \notin DOMAIN stepFiles'
    BY <2>1, <2>2
  <2> QED BY <1>2, <2>5, <2>6, <2>7, <2>8, <2>11, <2>12 DEF old, Step!CloseCurrentFile
<1>3. CASE old \notin DOMAIN stepFiles /\ stepFiles' = stepFiles /\ replaced' = replaced
  <2>1. InFiles' = InFiles
    BY <1>3 DEF InFiles
  <2> QED BY <1>0, <1>3, <2>1, StepFacts DEF StepInv, StepFileInv, Step!CloseCurrentFile
<1> QED BY <1>1, <1>2, <1>3 DEF Step!CloseCurrentFile, Step!Exists

(* step_file_sink: the constructor.                                        *)
LEMMA ConstructStepKeepsInv ==
    ASSUME StepInv, Step!Construct
    PROVE  StepInv'
<1> DEFINE new == Step!Tmp(stepNow)
<1>1. /\ stepPc = "down" /\ stepPc' = "idle" /\ tp' = stepNow + StepSeconds
      /\ stepCurrent' = stepNow /\ stepFd' = new
      /\ stepFiles' = Step!OpenedToAppend(stepFiles, new)
      /\ stepSize' = Len(stepFiles'[new])
      /\ UNCHANGED <<stepNow, newName, sent, stepLogged, replaced, stepTrouble>>
  BY DEF Step!Construct, Step!histVars
<1>2. /\ DOMAIN stepFiles' = DOMAIN stepFiles \union {new}
      /\ \A n \in DOMAIN stepFiles' :
            stepFiles'[n] \in Seq(1 .. sent') /\ Len(stepFiles'[n]) <= sent'
      /\ InFiles' = InFiles
      /\ DOMAIN stepFiles' \subseteq (0 .. stepNow) \X {"tmp", "log"}
  <2>1. stepNow \in 0 .. stepNow
    BY StepFacts
  <2> QED BY <1>1, <2>1, OpenedFile
<1>3. new \in DOMAIN stepFiles' /\ stepSize' \in Nat /\ stepSize' <= sent' /\ new # <<>>
  <2>1. stepFiles'[new] \in Seq(1 .. sent')
    BY <1>2
  <2> QED BY <1>1, <1>2, <2>1, Names
<1> HIDE DEF new
<1>4. stepSize' \in 0 .. StepMessages
  BY <1>1, <1>3, FilesAssumption DEF Step!StepAssumption, StepInv, Step!TypeOK
<1>5. tp' \in 0 .. StepTime + StepSeconds /\ stepCurrent' \in 0 .. stepNow'
  BY <1>1, FilesAssumption DEF Step!StepAssumption, StepInv, Step!TypeOK
<1>6. Step!TypeOK'
  BY <1>1, <1>3, <1>4, <1>5 DEF StepInv, Step!TypeOK, Step!Exists
<1>7. \A s \in 0 .. stepNow' : s <= stepCurrent'
  BY <1>1, StepFacts
<1>8. StepFileInv'
  BY <1>1, <1>2, <1>3, <1>7 DEF StepFileInv, new
<1>9. StepCallInv'
  BY <1>1, <1>3 DEF StepCallInv, new
<1>10. Step!NothingIsLost'
  BY <1>1, <1>2 DEF StepInv, Step!NothingIsLost, InFiles
<1> QED BY <1>6, <1>8, <1>9, <1>10 DEF StepInv

(* step_file_sink::_sink_it: the call begins.                              *)
LEMMA LogAStepKeepsInv ==
    ASSUME StepInv, Step!Log
    PROVE  StepInv'
<1>1. /\ stepPc = "idle" /\ sent < StepMessages /\ sent' = sent + 1 /\ newName' = -1
      /\ stepPc' = IF stepNow >= tp \/ stepSize + 1 > StepFileSize THEN "log" ELSE "write"
      /\ UNCHANGED <<stepNow, stepFiles, stepFd, tp, stepCurrent, stepSize, stepLogged,
                     replaced, stepTrouble>>
  BY DEF Step!Log, Step!NoName, Step!fileVars, Step!sinkVars
<1>2. sent' \in 0 .. StepMessages /\ sent <= sent'
  BY <1>1, StepFacts, FilesAssumption DEF Step!StepAssumption
<1>3. /\ stepNow \in Nat /\ tp \in Nat /\ stepSize \in Nat /\ sent \in Nat
      /\ StepFileSize \in Nat \ {0} /\ stepSize <= sent /\ stepCurrent \in Nat
  BY StepFacts DEF StepInv, StepCallInv
<1>4. stepPc' = "write" => stepFd # <<>> /\ stepSize < StepFileSize
  BY <1>1, <1>3 DEF StepInv, StepCallInv
<1>5. ASSUME NEW n \in DOMAIN stepFiles
      PROVE  stepFiles[n] \in Seq(1 .. sent') /\ Len(stepFiles[n]) <= sent'
  <2>1. 1 .. sent \subseteq 1 .. sent'
    BY <1>1, <1>3
  <2>2. stepFiles[n] \in Seq(1 .. sent) /\ Len(stepFiles[n]) \in Nat /\ Len(stepFiles[n]) <= sent
    BY StepFacts
  <2>3. stepFiles[n] \in Seq(1 .. sent')
    BY <2>1, <2>2, SeqMonotonic
  <2> QED BY <1>1, <1>3, <2>2, <2>3
<1>6. stepLogged' \subseteq 1 .. sent'
  BY <1>1, <1>3 DEF StepInv, Step!TypeOK
<1>7. newName' \in -1 .. stepNow'
  BY <1>1, <1>3
<1>8. Step!TypeOK'
  BY <1>1, <1>2, <1>4, <1>6, <1>7 DEF StepInv, Step!TypeOK, Step!Exists, Step!NoName
<1>9. StepFileInv'
  BY <1>1, <1>5 DEF StepInv, StepFileInv
<1>10. StepCallInv'
  <2>1. stepSize' < sent' /\ stepSize' <= sent'
    BY <1>1, <1>3
  <2>2. stepPc' \in {"log", "write"} /\ (stepPc' = "log" => tp <= stepNow \/ stepSize + 1 > StepFileSize)
    BY <1>1, <1>3
  <2>3. stepPc' = "write" => ~(stepSize' >= StepFileSize)
    BY <1>1, <1>3, <1>4
  <2> QED BY <1>1, <2>1, <2>2, <2>3 DEF StepInv, StepCallInv
<1>11. Step!NothingIsLost'
  BY <1>1 DEF StepInv, Step!NothingIsLost
<1> QED BY <1>8, <1>9, <1>10, <1>11 DEF StepInv

(* step_file_sink::_sink_it: is there a file of this second?               *)
LEMMA LookKeepsInv ==
    ASSUME StepInv, Step!Look
    PROVE  StepInv'
<1>1. /\ stepPc = "log" /\ newName' = stepNow
      /\ UNCHANGED <<stepNow, stepFiles, stepFd, stepCurrent, stepSize, sent, stepLogged,
                     replaced, stepTrouble>>
      /\ \/ /\ Step!Tmp(stepNow) \in DOMAIN stepFiles
            /\ stepPc' = "write" /\ tp' = stepNow + StepSeconds
         \/ /\ Step!Tmp(stepNow) \notin DOMAIN stepFiles
            /\ stepPc' = "close" /\ tp' = tp
  BY DEF Step!Look, Step!fileVars, Step!histVars, Step!Exists
<1>2. /\ stepNow \in Nat /\ stepCurrent \in Nat /\ stepCurrent <= stepNow
      /\ stepSize < sent
  BY <1>1, StepFacts DEF StepInv, StepCallInv
<1>3. stepPc' = "write" => stepCurrent = stepNow /\ stepFd # <<>>
  <2>1. stepPc' = "write" => stepNow <= stepCurrent
    BY <1>1, <1>2 DEF StepInv, StepFileInv
  <2>2. stepPc' = "write" => stepCurrent = stepNow
    BY <1>2, <2>1
  <2> QED BY <1>1, <2>2 DEF StepInv, StepCallInv
<1>4. tp' \in 0 .. StepTime + StepSeconds /\ newName' \in -1 .. stepNow'
  BY <1>1, <1>2, FilesAssumption DEF Step!StepAssumption, StepInv, Step!TypeOK
<1>5. Step!TypeOK'
  BY <1>1, <1>3, <1>4 DEF StepInv, Step!TypeOK, Step!Exists, Step!NoName
<1>6. StepFileInv'
  BY <1>1 DEF StepInv, StepFileInv
<1>7. StepCallInv'
  BY <1>1, <1>2, <1>3 DEF StepInv, StepCallInv
<1>8. Step!NothingIsLost'
  BY <1>1 DEF StepInv, Step!NothingIsLost
<1> QED BY <1>5, <1>6, <1>7, <1>8 DEF StepInv

(* close_current_file, called for a new name.                              *)
LEMMA CloseKeepsInv ==
    ASSUME StepInv, Step!Close
    PROVE  StepInv'
<1>1. /\ stepPc = "close"
      /\ UNCHANGED <<stepNow, stepFd, tp, stepCurrent, stepSize, newName, sent, stepLogged>>
  BY DEF Step!Close, Step!sinkVars
<1>2. CASE Step!CloseCurrentFile /\ stepPc' = "open"
  <2>1. /\ Step!Tmp(stepCurrent) \notin DOMAIN stepFiles'
        /\ \A s : Step!Tmp(s) \in DOMAIN stepFiles' => Step!Tmp(s) \in DOMAIN stepFiles
        /\ \A n \in DOMAIN stepFiles' :
              stepFiles'[n] \in Seq(1 .. sent') /\ Len(stepFiles'[n]) <= sent'
        /\ DOMAIN stepFiles' \subseteq (0 .. stepNow) \X {"tmp", "log"}
        /\ replaced' \subseteq stepLogged
        /\ stepLogged = replaced' \union InFiles'
        /\ stepTrouble' = stepTrouble
    BY <1>1, <1>2, ClosedFile
  <2>2. Step!TypeOK'
    BY <1>1, <1>2, <2>1 DEF StepInv, Step!TypeOK, Step!Exists
  <2>3. StepFileInv'
    BY <1>1, <2>1 DEF StepInv, StepFileInv
  <2>4. StepCallInv'
    BY <1>1, <1>2, <2>1 DEF StepInv, StepCallInv
  <2>5. Step!NothingIsLost'
    BY <1>1, <2>1 DEF Step!NothingIsLost, InFiles
  <2> QED BY <2>2, <2>3, <2>4, <2>5 DEF StepInv
<1>3. CASE Step!CloseFails
  <2>1. /\ UNCHANGED <<stepFiles, replaced>> /\ stepPc' = "idle"
        /\ stepTrouble' \in 0 .. StepTrouble
    BY <1>3, FilesAssumption DEF Step!CloseFails, Step!Throw, StepInv, Step!TypeOK,
                                 Step!StepAssumption
  <2>2. Step!TypeOK'
    BY <1>1, <2>1 DEF StepInv, Step!TypeOK, Step!Exists
  <2>3. StepFileInv'
    BY <1>1, <2>1 DEF StepInv, StepFileInv
  <2>4. StepCallInv'
    BY <1>1, <2>1 DEF StepInv, StepCallInv
  <2>5. Step!NothingIsLost'
    BY <1>1, <2>1 DEF StepInv, Step!NothingIsLost
  <2> QED BY <2>2, <2>3, <2>4, <2>5 DEF StepInv
<1> QED BY <1>2, <1>3 DEF Step!Close

(* The new file is opened, or cannot be.                                   *)
LEMMA OpenStepKeepsInv ==
    ASSUME StepInv, Step!Open
    PROVE  StepInv'
<1> DEFINE new == Step!Tmp(newName)
<1>1. /\ stepPc = "open" /\ stepCurrent' = newName
      /\ UNCHANGED <<stepNow, newName, sent, stepLogged, replaced>>
  BY DEF Step!Open
<1>2. /\ newName \in 0 .. stepNow /\ stepCurrent <= newName /\ stepCurrent \in Nat
      /\ new \notin DOMAIN stepFiles /\ new # <<>>
      /\ 0 < sent /\ stepSize < sent
      /\ tp <= stepNow \/ stepSize + 1 > StepFileSize
  <2>1. newName \in Int /\ newName <= stepNow /\ stepSize \in Nat /\ sent \in Nat
        /\ stepCurrent \in Nat /\ stepNow \in Nat
    BY StepFacts
  <2>2. /\ stepCurrent <= newName /\ newName >= 0 /\ new \notin DOMAIN stepFiles
        /\ stepSize < sent
        /\ tp <= stepNow \/ stepSize + 1 > StepFileSize
    BY <1>1 DEF StepInv, StepCallInv
  <2> QED BY <2>1, <2>2, Names
<1>3. CASE /\ stepFiles' = Step!OpenedToAppend(stepFiles, new)
           /\ stepFd' = new /\ tp' = stepNow + StepSeconds /\ stepSize' = 0 /\ stepPc' = "write"
           /\ UNCHANGED stepTrouble
  <2>1. /\ DOMAIN stepFiles' = DOMAIN stepFiles \union {new}
        /\ Len(stepFiles'[new]) = 0
        /\ \A n \in DOMAIN stepFiles' :
              stepFiles'[n] \in Seq(1 .. sent') /\ Len(stepFiles'[n]) <= sent'
        /\ InFiles' = InFiles
        /\ DOMAIN stepFiles' \subseteq (0 .. stepNow) \X {"tmp", "log"}
    BY <1>1, <1>2, <1>3, OpenedFile
  <2>2. tp' \in 0 .. StepTime + StepSeconds /\ stepSize' \in 0 .. StepMessages
    BY <1>3, FilesAssumption DEF Step!StepAssumption, StepInv, Step!TypeOK
  <2>3. Step!TypeOK'
    BY <1>1, <1>2, <1>3, <2>1, <2>2 DEF StepInv, Step!TypeOK, Step!Exists
  <2>4. \A s \in 0 .. stepNow : Step!Tmp(s) \in DOMAIN stepFiles' => s <= newName
    <3>1. TAKE s \in 0 .. stepNow
    <3>2. CASE Step!Tmp(s) = new
      BY <3>2, <1>2, Names
    <3>3. CASE Step!Tmp(s) \in DOMAIN stepFiles
      <4>1. s <= stepCurrent
        BY <3>3 DEF StepInv, StepFileInv
      <4> QED BY <4>1, <1>2
    <3> QED BY <3>2, <3>3, <2>1
  <2>5. StepFileInv'
    BY <1>1, <1>3, <2>1, <2>4 DEF StepFileInv
  <2>6. StepCallInv'
    <3>1. ~(stepSize' >= StepFileSize) /\ stepSize' < sent' /\ stepSize' <= sent'
      BY <1>1, <1>2, <1>3, StepFacts
    <3> QED BY <1>1, <1>2, <1>3, <3>1 DEF StepCallInv
  <2>7. Step!NothingIsLost'
    BY <1>1, <2>1 DEF StepInv, Step!NothingIsLost, InFiles
  <2> QED BY <2>3, <2>5, <2>6, <2>7 DEF StepInv
<1>4. CASE stepFd' = <<>> /\ Step!Throw /\ UNCHANGED <<stepFiles, tp, stepSize>>
  <2>1. stepPc' = "idle" /\ stepTrouble' \in 0 .. StepTrouble
    BY <1>4, FilesAssumption DEF Step!Throw, StepInv, Step!TypeOK, Step!StepAssumption
  <2>2. Step!TypeOK'
    BY <1>1, <1>2, <1>4, <2>1 DEF StepInv, Step!TypeOK, Step!Exists
  <2>3. \A s \in 0 .. stepNow : Step!Tmp(s) \in DOMAIN stepFiles => s <= newName
    <3>1. TAKE s \in 0 .. stepNow
    <3>2. HAVE Step!Tmp(s) \in DOMAIN stepFiles
    <3>3. s <= stepCurrent
      BY <3>2 DEF StepInv, StepFileInv
    <3> QED BY <3>3, <1>2
  <2>4. StepFileInv'
    BY <1>1, <1>2, <1>4, <2>1, <2>3 DEF StepInv, StepFileInv
  <2>5. StepCallInv'
    BY <1>1, <1>2, <1>4, <2>1 DEF StepInv, StepCallInv
  <2>6. Step!NothingIsLost'
    BY <1>1, <1>4 DEF StepInv, Step!NothingIsLost
  <2> QED BY <2>2, <2>4, <2>5, <2>6 DEF StepInv
<1> QED BY <1>3, <1>4 DEF Step!Open

(* file_helper::write: the message goes to the current file.               *)
LEMMA WriteAStepKeepsInv ==
    ASSUME StepInv, Step!Write
    PROVE  StepInv'
<1>1. /\ stepPc = "write" /\ stepPc' = "idle" /\ stepSize' = stepSize + 1
      /\ stepFd # <<>> /\ stepFd = Step!Tmp(stepCurrent) /\ stepFd \in DOMAIN stepFiles
      /\ UNCHANGED <<stepNow, stepFd, tp, stepCurrent, newName, sent, replaced>>
  BY StepFacts DEF Step!Write, Step!Throw
<1>2. /\ stepSize \in Nat /\ sent \in Nat /\ stepSize < sent
      /\ stepSize' \in Nat /\ stepSize' <= sent /\ sent \in 1 .. sent
  BY <1>1, StepFacts DEF StepInv, StepCallInv
<1>3. stepSize' \in 0 .. StepMessages
  BY <1>2, FilesAssumption DEF Step!StepAssumption, StepInv, Step!TypeOK
<1>4. StepCallInv'
  <2>1. stepFd' = Step!Tmp(stepCurrent')
    BY <1>1
  <2> QED BY <1>1, <1>2, <2>1 DEF StepCallInv
<1>5. CASE /\ stepFiles' = Step!Written(stepFiles, stepFd, sent)
           /\ stepLogged' = stepLogged \union {sent}
           /\ UNCHANGED stepTrouble
  <2> DEFINE longer == Append(stepFiles[stepFd], sent)
             L == Len(stepFiles[stepFd])
  <2>1. /\ DOMAIN stepFiles' = DOMAIN stepFiles
        /\ stepFiles'[stepFd] = longer
        /\ \A n \in DOMAIN stepFiles : n # stepFd => stepFiles'[n] = stepFiles[n]
    BY <1>1, <1>5 DEF Step!Written
  <2>2. /\ stepFiles[stepFd] \in Seq(1 .. sent) /\ L \in Nat
        /\ DOMAIN stepFiles[stepFd] = 1 .. L
    BY <1>1, StepFacts
  <2>3. L <= stepSize
    BY <1>1 DEF StepInv, StepFileInv
  <2>4. /\ longer \in Seq(1 .. sent) /\ Len(longer) = L + 1
        /\ \A k \in 1 .. L : longer[k] = stepFiles[stepFd][k]
        /\ longer[L + 1] = sent
    BY <1>2, <2>2, AppendProperties
  <2>5. DOMAIN longer = 1 .. L + 1
    BY <2>4, LenProperties
  <2>6. Step!ToSet(longer) = Step!ToSet(stepFiles[stepFd]) \union {sent}
    <3> HIDE DEF longer, L
    <3>1. Step!ToSet(longer) = {longer[k] : k \in 1 .. L + 1}
      BY <2>5 DEF Step!ToSet
    <3>2. Step!ToSet(stepFiles[stepFd]) = {stepFiles[stepFd][k] : k \in 1 .. L}
      BY <2>2 DEF Step!ToSet
    <3>3. \A k \in 1 .. L + 1 : k \in 1 .. L \/ k = L + 1
      BY <2>2
    <3>4. 1 .. L \subseteq 1 .. L + 1 /\ L + 1 \in 1 .. L + 1
      BY <2>2
    <3> QED BY <2>4, <3>1, <3>2, <3>3, <3>4
  <2> HIDE DEF longer
  <2>7. InFiles' = InFiles \union {sent}
    <3>1. ASSUME NEW n \in DOMAIN stepFiles', NEW m \in Step!ToSet(stepFiles'[n])
          PROVE  m \in InFiles \union {sent}
      BY <1>1, <2>1, <2>6 DEF InFiles
    <3>2. sent \in InFiles'
      BY <1>1, <2>1, <2>6 DEF InFiles
    <3>3. ASSUME NEW n \in DOMAIN stepFiles, NEW m \in Step!ToSet(stepFiles[n])
          PROVE  m \in InFiles'
      BY <1>1, <2>1, <2>6 DEF InFiles
    <3> QED BY <3>1, <3>2, <3>3 DEF InFiles
  <2>8. Step!NothingIsLost'
    BY <1>1, <1>5, <2>7 DEF StepInv, Step!NothingIsLost, InFiles
  <2>9. Step!TypeOK'
    <3>1. stepLogged' \subseteq 1 .. sent' /\ replaced' \subseteq stepLogged'
      BY <1>1, <1>2, <1>5 DEF StepInv, Step!TypeOK
    <3> QED BY <1>1, <1>3, <1>5, <2>1, <3>1 DEF StepInv, Step!TypeOK, Step!Exists
  <2>10. StepFileInv'
    <3>1. L + 1 <= stepSize' /\ L + 1 <= sent
      BY <1>1, <1>2, <2>2, <2>3
    <3>2. \A n \in DOMAIN stepFiles' :
             stepFiles'[n] \in Seq(1 .. sent') /\ Len(stepFiles'[n]) <= sent'
      BY <1>1, <2>1, <2>4, <3>1, StepFacts
    <3> QED BY <1>1, <2>1, <2>4, <3>1, <3>2 DEF StepInv, StepFileInv
  <2> QED BY <1>4, <2>8, <2>9, <2>10 DEF StepInv
<1>6. CASE Step!Throw /\ UNCHANGED <<stepFiles, stepLogged>>
  <2>1. stepTrouble' \in 0 .. StepTrouble
    BY <1>6, FilesAssumption DEF Step!Throw, StepInv, Step!TypeOK, Step!StepAssumption
  <2>2. Step!TypeOK'
    BY <1>1, <1>3, <1>6, <2>1 DEF StepInv, Step!TypeOK, Step!Exists
  <2>3. StepFileInv'
    <3>1. Len(stepFiles[stepFd]) <= stepSize'
      <4>1. Len(stepFiles[stepFd]) <= stepSize
        BY <1>1 DEF StepInv, StepFileInv
      <4> QED BY <1>1, <1>2, <4>1, StepFacts
    <3> QED BY <1>1, <1>6, <3>1 DEF StepInv, StepFileInv
  <2>4. Step!NothingIsLost'
    BY <1>1, <1>6 DEF StepInv, Step!NothingIsLost
  <2> QED BY <1>4, <2>2, <2>3, <2>4 DEF StepInv
<1> QED BY <1>5, <1>6 DEF Step!Write

(* step_file_sink: the destructor.                                         *)
LEMMA DestroyKeepsInv ==
    ASSUME StepInv, Step!Destroy
    PROVE  StepInv'
<1>1. /\ stepPc = "idle" /\ stepPc' = "down" /\ stepFd' = <<>>
      /\ UNCHANGED <<stepNow, tp, stepCurrent, stepSize, newName, sent, stepLogged>>
  BY DEF Step!Destroy, Step!sinkVars
<1>2. StepCallInv'
  BY <1>1 DEF StepInv, StepCallInv
<1>3. CASE Step!CloseCurrentFile
  <2>1. /\ Step!Tmp(stepCurrent) \notin DOMAIN stepFiles'
        /\ \A s : Step!Tmp(s) \in DOMAIN stepFiles' => Step!Tmp(s) \in DOMAIN stepFiles
        /\ \A n \in DOMAIN stepFiles' :
              stepFiles'[n] \in Seq(1 .. sent') /\ Len(stepFiles'[n]) <= sent'
        /\ DOMAIN stepFiles' \subseteq (0 .. stepNow) \X {"tmp", "log"}
        /\ replaced' \subseteq stepLogged
        /\ stepLogged = replaced' \union InFiles'
        /\ stepTrouble' = stepTrouble
    BY <1>1, <1>3, ClosedFile
  <2>2. Step!TypeOK'
    BY <1>1, <2>1 DEF StepInv, Step!TypeOK, Step!Exists
  <2>3. StepFileInv'
    BY <1>1, <2>1 DEF StepInv, StepFileInv
  <2>4. Step!NothingIsLost'
    BY <1>1, <2>1 DEF Step!NothingIsLost, InFiles
  <2> QED BY <1>2, <2>2, <2>3, <2>4 DEF StepInv
<1>4. CASE UNCHANGED <<stepFiles, replaced>> /\ stepTrouble' \in 0 .. StepTrouble
  <2>1. Step!TypeOK'
    BY <1>1, <1>4 DEF StepInv, Step!TypeOK, Step!Exists
  <2>2. StepFileInv'
    BY <1>1, <1>4 DEF StepInv, StepFileInv
  <2>3. Step!NothingIsLost'
    BY <1>1, <1>4 DEF StepInv, Step!NothingIsLost
  <2> QED BY <1>2, <2>1, <2>2, <2>3 DEF StepInv
<1>5. Step!CloseCurrentFile \/ (UNCHANGED <<stepFiles, replaced>> /\ stepTrouble' \in 0 .. StepTrouble)
  BY FilesAssumption DEF Step!Destroy, StepInv, Step!TypeOK, Step!StepAssumption
<1> QED BY <1>3, <1>4, <1>5

LEMMA SecondKeepsInv ==
    ASSUME StepInv, Step!TimePasses
    PROVE  StepInv'
<1>1. /\ stepNow < StepTime /\ stepNow' = stepNow + 1
      /\ UNCHANGED <<stepFiles, stepFd, tp, stepCurrent, stepSize, stepPc, newName, sent,
                     stepLogged, replaced, stepTrouble>>
  BY DEF Step!TimePasses, Step!fileVars, Step!sinkVars, Step!histVars
<1>2. /\ stepNow \in Nat /\ tp \in Nat /\ stepNow' \in 0 .. StepTime
      /\ 0 .. stepNow \subseteq 0 .. stepNow' /\ -1 .. stepNow \subseteq -1 .. stepNow'
  BY <1>1, StepFacts, FilesAssumption DEF Step!StepAssumption
<1>3. Step!TypeOK'
  BY <1>1, <1>2 DEF StepInv, Step!TypeOK, Step!Exists, Step!NoName
<1>4. StepFileInv'
  <2>1. DOMAIN stepFiles \subseteq (0 .. stepNow) \X {"tmp", "log"}
    BY DEF StepInv, StepFileInv
  <2>2. DOMAIN stepFiles' \subseteq (0 .. stepNow') \X {"tmp", "log"}
    BY <1>1, <1>2, <2>1
  <2>3. \A s \in 0 .. stepNow' : Step!Tmp(s) \in DOMAIN stepFiles => s \in 0 .. stepNow
    BY <2>1, Names
  <2> QED BY <1>1, <2>2, <2>3 DEF StepInv, StepFileInv
<1>5. StepCallInv'
  <2>1. tp <= stepNow => tp <= stepNow'
    BY <1>1, <1>2
  <2> QED BY <1>1, <2>1 DEF StepInv, StepCallInv
<1>6. Step!NothingIsLost'
  BY <1>1 DEF StepInv, Step!NothingIsLost
<1> QED BY <1>3, <1>4, <1>5, <1>6 DEF StepInv

LEMMA StepFileInit ==
    ASSUME Step!Init
    PROVE  StepInv
<1>1. /\ stepNow = 0 /\ stepFiles = <<>> /\ tp = 0 /\ stepCurrent = 0 /\ stepSize = 0
      /\ stepFd = <<>> /\ stepPc = "down" /\ newName = -1
      /\ sent = 0 /\ stepLogged = {} /\ replaced = {} /\ stepTrouble = 0
  BY DEF Step!Init, Step!NoName
<1>2. DOMAIN stepFiles = {}
  BY <1>1
<1>3. Step!TypeOK
  BY <1>1, FilesAssumption DEF Step!TypeOK, Step!StepAssumption, Step!NoName
<1>4. StepFileInv /\ StepCallInv
  BY <1>1, <1>2 DEF StepFileInv, StepCallInv
<1>5. Step!NothingIsLost
  BY <1>1, <1>2 DEF Step!NothingIsLost
<1> QED BY <1>3, <1>4, <1>5 DEF StepInv

LEMMA StepFileNext ==
    ASSUME StepInv, [Step!Next]_stepVars
    PROVE  StepInv'
<1>1. CASE UNCHANGED stepVars
  <2>1. /\ stepNow' = stepNow /\ stepFiles' = stepFiles /\ tp' = tp /\ stepCurrent' = stepCurrent
        /\ stepSize' = stepSize /\ stepFd' = stepFd /\ stepPc' = stepPc /\ newName' = newName
        /\ sent' = sent /\ stepLogged' = stepLogged /\ replaced' = replaced
        /\ stepTrouble' = stepTrouble
    BY <1>1 DEF stepVars
  <2>2. Step!TypeOK'
    BY <2>1 DEF StepInv, Step!TypeOK, Step!Exists
  <2>3. StepFileInv' /\ StepCallInv' /\ Step!NothingIsLost'
    BY <2>1 DEF StepInv, StepFileInv, StepCallInv, Step!NothingIsLost
  <2> QED BY <2>2, <2>3 DEF StepInv
<1>2. CASE Step!Next
  BY <1>2, ConstructStepKeepsInv, LogAStepKeepsInv, LookKeepsInv, CloseKeepsInv,
     OpenStepKeepsInv, WriteAStepKeepsInv, DestroyKeepsInv, SecondKeepsInv DEF Step!Next
<1> QED BY <1>1, <1>2

-----------------------------------------------------------------------------
(* What holds of the files.                                                *)

FileInv == RotatingInv /\ DailyInv /\ DueInv /\ StepInv

LEMMA FilesNextKeepsInv ==
    ASSUME FileInv, [FilesNext]_filesVars
    PROVE  /\ FileInv'
           /\ [Rotating!Next]_rotatingVars
           /\ [Daily!Next]_dailyVars
           /\ [Step!Next]_stepVars
<1>1. /\ [Rotating!Next]_rotatingVars
      /\ [Daily!Next]_dailyVars
      /\ [Step!Next]_stepVars
  <2>1. CASE UNCHANGED filesVars
    BY <2>1 DEF filesVars
  <2>2. CASE RotatingStep
    BY <2>2 DEF RotatingStep
  <2>3. CASE DailyStep
    BY <2>3 DEF DailyStep
  <2>4. CASE StepStep
    BY <2>4 DEF StepStep
  <2> QED BY <2>1, <2>2, <2>3, <2>4 DEF FilesNext
<1>2. RotatingInv' /\ DailyInv' /\ DueInv' /\ StepInv'
  BY <1>1, RotatingNext, DailyNext, StepFileNext DEF FileInv
<1> QED BY <1>1, <1>2 DEF FileInv

(* The inductive invariant of the files: how far each call is, what the    *)
(* files hold by then and what is due.                                     *)
THEOREM FileInvariantHolds == FilesSpec => []FileInv
<1>1. FilesInit => FileInv
  BY RotatingInit, DailyInit, StepFileInit DEF FilesInit, FileInv
<1>2. FileInv /\ [FilesNext]_filesVars => FileInv'
  BY FilesNextKeepsInv
<1> QED BY <1>1, <1>2, PTL DEF FilesSpec

(* Files by size hold the newest of what was written, without a gap, none  *)
(* outgrows the maximum but for one large message, and without trouble     *)
(* none goes while there is room; files by day are in order; files by step *)
(* lose nothing.  Whatever fails, wherever the process ends.               *)
THEOREM FilesAreSound == FilesSpec => []FilesKeepTheNewest
<1>1. FileInv => FilesKeepTheNewest
  <2>1. RotatingInv => /\ Rotating!TypeOK /\ Rotating!KeepsTheNewest
                       /\ Rotating!SizeBound /\ Rotating!LossOnlyWhenFull
    BY FullWhenLost DEF RotatingInv
  <2>2. DailyInv => Daily!TypeOK /\ Daily!InOrder
    BY DEF DailyInv
  <2>3. StepInv => Step!TypeOK /\ Step!NothingIsLost
    BY DEF StepInv
  <2> QED BY <2>1, <2>2, <2>3 DEF FileInv, FilesKeepTheNewest
<1> QED BY <1>1, FileInvariantHolds, PTL

(* Of the files by size only the oldest is deleted, and its contents alone *)
(* go, but for what a crash takes (RotatingFileSink.tla).                  *)
THEOREM OnlyTheOldestGoes == FilesSpec => Rotating!OnlyTheOldestIsDeleted
<1>1. FileInv /\ [FilesNext]_filesVars =>
        [\A n \in DOMAIN files : n < OldFileCount =>
            \E k \in {n, n + 1} \intersect DOMAIN files' :
               \/ Rotating!IsPrefix(files[n], files'[k])
               \/ rotatingPc' = "down" /\ Rotating!IsPrefix(files'[k], files[n])]_(Rotating!vars)
  <2>1. SUFFICES ASSUME FileInv, [FilesNext]_filesVars
                 PROVE  [\A n \in DOMAIN files : n < OldFileCount =>
                           \E k \in {n, n + 1} \intersect DOMAIN files' :
                              \/ Rotating!IsPrefix(files[n], files'[k])
                              \/ /\ rotatingPc' = "down"
                                 /\ Rotating!IsPrefix(files'[k], files[n])]_(Rotating!vars)
    OBVIOUS
  <2>2. RotatingInv /\ [Rotating!Next]_rotatingVars
    BY <2>1, FilesNextKeepsInv DEF FileInv
  <2>3. CASE UNCHANGED rotatingVars
    BY <2>3 DEF rotatingVars, Rotating!vars
  <2>4. CASE Rotating!Next
    BY <2>2, <2>4, OldestOnly
  <2> QED BY <2>2, <2>3, <2>4
<1> QED BY <1>1, FileInvariantHolds, PTL DEF FilesSpec, Rotating!OnlyTheOldestIsDeleted

(* What is logged after the time of a rotation is written to a file named  *)
(* since, unless the clock passed a rotation between the two steps that    *)
(* read it (DailyFileSink.tla).                                            *)
THEOREM RotationIsOnTime == FilesSpec => Daily!RotatesOnTime
<1>1. FileInv /\ [FilesNext]_filesVars =>
        [Daily!Write => \/ opened >= Daily!LastRotation(call.time)
                        \/ Daily!LastRotation(opened) < Daily!LastRotation(computed)]_(Daily!vars)
  BY WrittenOnTime DEF FileInv
<1> QED BY <1>1, FileInvariantHolds, PTL DEF FilesSpec, Daily!RotatesOnTime

(* What goes into a full file by step was logged in the second the file    *)
(* was begun in (StepFileSink.tla).                                        *)
THEOREM FullFilesGrowForASecond == FilesSpec => Step!FixedFileSizePerSecond
<1>1. FileInv /\ [FilesNext]_filesVars =>
        [Step!Write /\ stepSize >= StepFileSize => newName = stepCurrent]_(Step!vars)
  BY DEF FileInv, StepInv, StepCallInv, Step!Write
<1> QED BY <1>1, FileInvariantHolds, PTL DEF FilesSpec, Step!FixedFileSizePerSecond

-----------------------------------------------------------------------------
(* Buffers never share, lose or give up twice a block of memory.           *)

\* What ownership is about.
BufferTypes ==
    /\ live \subseteq Buffers
    /\ moved \subseteq live
    /\ ptr \in [Buffers -> Blocks \union {data_}]
    /\ allocated \subseteq Blocks

\* A buffer that is not constructed, or was moved from, has no block.
NoBlock == \A b \in Buffers : b \notin live \/ b \in moved => ptr[b] = data_

BufferInv == BufferTypes /\ NoBlock /\ OwnedOnce /\ NoneIsLost

USE DataAssumption

(* At first there are no blocks.                                           *)
LEMMA BufferInitInv == Init => BufferInv
BY DEF Init, BufferInv, BufferTypes, NoBlock, OwnedOnce, NoneIsLost

\* A buffer that grows changes its block for one nobody has.
LEMMA GrowInv ==
    ASSUME BufferInv, NEW b \in Buffers, b \in Usable, NEW n, NEW s, grow(b, n, s),
           UNCHANGED <<live, moved>>
    PROVE  BufferInv'
<1>1. PICK k \in Blocks \ allocated :
        /\ ptr' = [ptr EXCEPT ![b] = k]
        /\ allocated' = (allocated \ {ptr[b]}) \union {k}
  BY DEF grow, deallocate
<1>2. BufferTypes'
  BY <1>1 DEF BufferInv, BufferTypes
<1>3. NoBlock'
  BY <1>1 DEF BufferInv, BufferTypes, NoBlock, Usable
<1>4. OwnedOnce'
  BY <1>1 DEF BufferInv, BufferTypes, OwnedOnce, Usable
<1>5. NoneIsLost'
  BY <1>1 DEF BufferInv, BufferTypes, OwnedOnce, NoneIsLost, Usable
<1> QED
  BY <1>2, <1>3, <1>4, <1>5 DEF BufferInv

\* Nothing that ownership depends on changes.
LEMMA SameOwners ==
    ASSUME BufferInv, UNCHANGED <<live, moved, ptr, allocated>>
    PROVE  BufferInv'
BY DEF BufferInv, BufferTypes, NoBlock, OwnedOnce, NoneIsLost

(* Characters are put into a buffer, which may have to grow.               *)
LEMMA PutInv ==
    ASSUME BufferInv, NEW b \in Buffers, b \in Usable, NEW n, NEW s, Put(b, n, s),
           UNCHANGED <<live, moved>>
    PROVE  BufferInv'
<1>1. CASE n > capacity[b]
  BY <1>1, GrowInv DEF Put
<1>2. CASE ~(n > capacity[b])
  BY <1>2, SameOwners DEF Put, InPlace
<1> QED
  BY <1>1, <1>2

\* A block changes hands: one buffer's before, another's afterwards.
LEMMA MoveConstructInv ==
    ASSUME BufferInv, NEW b \in Buffers, NEW other \in Buffers,
           MoveConstruct(b, other)
    PROVE  BufferInv'
<1>1. /\ b \notin live /\ other \in live /\ other \notin moved /\ b # other
      /\ live' = live \union {b}
      /\ moved' = (moved \ {b}) \union {other}
      /\ allocated' = allocated
      /\ ptr' = IF ptr[other] = data_ THEN [ptr EXCEPT ![b] = data_]
                ELSE [ptr EXCEPT ![b] = ptr[other], ![other] = data_]
  BY DEF MoveConstruct, move, Usable
<1>2. BufferTypes'
  BY <1>1 DEF BufferInv, BufferTypes
<1>3. NoBlock'
  BY <1>1 DEF BufferInv, BufferTypes, NoBlock
<1>4. OwnedOnce'
  BY <1>1 DEF BufferInv, BufferTypes, NoBlock, OwnedOnce
<1>5. NoneIsLost'
  BY <1>1 DEF BufferInv, BufferTypes, NoBlock, OwnedOnce, NoneIsLost
<1> QED
  BY <1>2, <1>3, <1>4, <1>5 DEF BufferInv

(* The block of the target goes, and that of the source changes hands.     *)
LEMMA MoveAssignInv ==
    ASSUME BufferInv, NEW b \in Buffers, NEW other \in Buffers,
           MoveAssign(b, other)
    PROVE  BufferInv'
<1>1. /\ b \in live /\ other \in live /\ other \notin moved /\ b # other
      /\ live' = live
      /\ moved' = (moved \ {b}) \union {other}
      /\ allocated' = allocated \ {ptr[b]}
      /\ ptr' = IF ptr[other] = data_ THEN [ptr EXCEPT ![b] = data_]
                ELSE [ptr EXCEPT ![b] = ptr[other], ![other] = data_]
  BY DEF MoveAssign, move, Usable, deallocate
<1>2. BufferTypes'
  BY <1>1 DEF BufferInv, BufferTypes
<1>3. NoBlock'
  BY <1>1 DEF BufferInv, BufferTypes, NoBlock
<1>4. OwnedOnce'
  BY <1>1 DEF BufferInv, BufferTypes, NoBlock, OwnedOnce
<1>5. NoneIsLost'
  BY <1>1 DEF BufferInv, BufferTypes, NoBlock, OwnedOnce, NoneIsLost
<1> QED
  BY <1>2, <1>3, <1>4, <1>5 DEF BufferInv

(* A buffer that is destroyed gives up its block.                          *)
LEMMA DestroyInv ==
    ASSUME BufferInv, NEW b \in Buffers, Destroy(b)
    PROVE  BufferInv'
<1>1. /\ b \in live
      /\ live' = live \ {b}
      /\ moved' = moved \ {b}
      /\ allocated' = allocated \ {ptr[b]}
      /\ ptr' = [ptr EXCEPT ![b] = data_]
  BY DEF Destroy, deallocate
<1>2. BufferTypes' /\ NoBlock'
  BY <1>1 DEF BufferInv, BufferTypes, NoBlock
<1>3. OwnedOnce'
  BY <1>1 DEF BufferInv, BufferTypes, OwnedOnce
<1>4. NoneIsLost'
  BY <1>1 DEF BufferInv, BufferTypes, OwnedOnce, NoneIsLost
<1> QED
  BY <1>2, <1>3, <1>4 DEF BufferInv

\* Each operation of a buffer preserves the invariant.
LEMMA BufferNextInv == BufferInv /\ [Next]_vars => BufferInv'
<1> SUFFICES ASSUME BufferInv, [Next]_vars PROVE BufferInv'
  OBVIOUS
<1>1. CASE UNCHANGED vars
  BY <1>1, SameOwners DEF vars
<1>2. ASSUME NEW b \in Buffers, Construct(b) PROVE BufferInv'
  BY <1>2 DEF Construct, BufferInv, BufferTypes, NoBlock, OwnedOnce, NoneIsLost
<1>3. ASSUME NEW b \in Buffers, NEW s, append(b, s) PROVE BufferInv'
  BY <1>3, PutInv DEF append
<1>4. ASSUME NEW b \in Buffers, NEW n, resize(b, n) PROVE BufferInv'
  BY <1>4, PutInv DEF resize
<1>5. ASSUME NEW b \in Buffers, NEW n, reserve(b, n) PROVE BufferInv'
  BY <1>5, PutInv DEF reserve
<1>6. ASSUME NEW b \in Buffers, clear(b) PROVE BufferInv'
  BY <1>6, SameOwners DEF clear
<1>7. ASSUME NEW b \in Buffers, NEW other \in Buffers,
             MoveConstruct(b, other) \/ MoveAssign(b, other)
      PROVE  BufferInv'
  BY <1>7, MoveConstructInv, MoveAssignInv
<1>8. ASSUME NEW b \in Buffers, Destroy(b) PROVE BufferInv'
  BY <1>8, DestroyInv
<1> QED
  BY <1>1, <1>2, <1>3, <1>4, <1>5, <1>6, <1>7, <1>8 DEF Next, push_back

\* Every block has exactly one owner, so that deallocate (format.h,
\* MemoryBuffer) never gives one up twice and none gets out of reach.
THEOREM BlocksStayOwned == Spec => []BlocksAreOwned
<1>1. BufferInv => BlocksAreOwned
  BY DEF BufferInv, BlocksAreOwned
<1> QED
  BY BufferInitInv, BufferNextInv, <1>1, PTL DEF Spec

-----------------------------------------------------------------------------
(* What the buffers hold.                                                  *)

Char == Chars \union {Unwritten}

(* Characters kept in the buffer itself have their places, those in a      *)
(* block as many as the block has; nothing is in a buffer that is not      *)
(* constructed.                                                            *)
StorageTypes ==
    /\ size \in [Buffers -> Nat] /\ capacity \in [Buffers -> Nat]
    /\ data \in [Buffers -> [1 .. SIZE -> Char]]
    /\ heap \in [Blocks -> Seq(Char)]
    /\ text \in [Buffers -> Seq(Char)]
    /\ \A b \in Buffers \ live : size[b] = 0 /\ capacity[b] = SIZE /\ text[b] = <<>>

(* A buffer that may be used has its room, and in it its text.             *)
Holds(b) ==
    /\ Storage(b) \in [1 .. capacity[b] -> Char]
    /\ size[b] <= capacity[b]
    /\ size[b] = Len(text[b])
    /\ \A k \in 1 .. size[b] : text[b][k] # Unwritten => Storage(b)[k] = text[b][k]

ContentsInv == StorageTypes /\ \A b \in Usable : Holds(b)

(* A sequence is a function on its places, and the other way round.        *)
LEMMA SequencesAreFunctions ==
    ASSUME NEW S, NEW n \in Nat, NEW f
    PROVE  /\ f \in [1 .. n -> S] => f \in Seq(S) /\ Len(f) = n
           /\ f \in Seq(S) => f \in [1 .. Len(f) -> S] /\ Len(f) \in Nat
  BY LenProperties, IsASeq

(* What Copied and Repeated return.                                        *)
LEMMA CopiedType ==
    ASSUME NEW c \in Nat, NEW storage \in [1 .. c -> Char], NEW n \in Nat, NEW s \in Seq(Char)
    PROVE  /\ Copied(storage, n, s) \in [1 .. c -> Char]
           /\ \A k \in 1 .. n : k <= c => Copied(storage, n, s)[k] = storage[k]
           /\ \A k \in 1 .. Len(s) : n + k <= c => Copied(storage, n, s)[n + k] = s[k]
<1>1. DOMAIN storage = 1 .. c /\ Len(s) \in Nat
    BY SequencesAreFunctions
<1>2. \A k \in 1 .. c : k \in (n + 1) .. (n + Len(s)) => k - n \in 1 .. Len(s)
    BY <1>1
<1>3. \A k \in 1 .. Len(s) : s[k] \in Char
    BY ElementOfSeq
<1>4. /\ Copied(storage, n, s) \in [1 .. c -> Char]
      /\ \A k \in 1 .. c : Copied(storage, n, s)[k] =
            IF k \in (n + 1) .. (n + Len(s)) THEN s[k - n] ELSE storage[k]
    BY <1>1, <1>2, <1>3 DEF Copied
<1>5. \A k \in 1 .. n : k <= c => k \in 1 .. c /\ k \notin (n + 1) .. (n + Len(s))
    BY <1>1
<1>6. \A k \in 1 .. Len(s) : n + k <= c => /\ n + k \in 1 .. c
                                           /\ n + k \in (n + 1) .. (n + Len(s))
                                           /\ (n + k) - n = k
    BY <1>1
<1> QED BY <1>4, <1>5, <1>6

LEMMA CopiedAtFront ==
    ASSUME NEW c \in Nat, NEW storage \in [1 .. c -> Char], NEW s \in Seq(Char)
    PROVE  /\ Copied(storage, 0, s) \in [1 .. c -> Char]
           /\ \A k \in 1 .. Len(s) : k <= c => Copied(storage, 0, s)[k] = s[k]
<1>1. PICK n \in Nat : n = 0
    OBVIOUS
<1>2. /\ Copied(storage, n, s) \in [1 .. c -> Char]
      /\ \A k \in 1 .. Len(s) : n + k <= c => Copied(storage, n, s)[n + k] = s[k]
    BY CopiedType
<1>3. \A k \in 1 .. Len(s) : n + k = k
    BY <1>1, SequencesAreFunctions
<1> QED BY <1>1, <1>2, <1>3

LEMMA RepeatedType ==
    ASSUME NEW c \in Nat
    PROVE  /\ Repeated(Unwritten, c) \in [1 .. c -> Char]
           /\ \A k \in 1 .. c : Repeated(Unwritten, c)[k] = Unwritten
  BY DEF Repeated, Char

(* Buffers have their own blocks, all of them allocated.                   *)
LEMMA OwnBlock ==
    ASSUME BufferInv, NEW b \in Usable, ptr[b] # data_
    PROVE  /\ ptr[b] \in allocated /\ ptr[b] \in Blocks
           /\ \A other \in Buffers \ {b} : ptr[other] # ptr[b]
  BY DEF BufferInv, BufferTypes, NoBlock, OwnedOnce, Usable

(* Storage is that of the buffer or of its block.                          *)
LEMMA StorageType ==
    ASSUME BufferInv, ContentsInv, NEW b \in Usable
    PROVE  /\ b \in Buffers /\ b \in live
           /\ size[b] \in Nat /\ capacity[b] \in Nat /\ size[b] <= capacity[b]
           /\ Storage(b) \in [1 .. capacity[b] -> Char]
           /\ Len(Storage(b)) = capacity[b]
           /\ ptr[b] = data_ => Storage(b) = data[b] /\ capacity[b] = SIZE
<1>1. b \in Buffers /\ b \in live /\ size[b] \in Nat /\ capacity[b] \in Nat /\ Holds(b)
    BY DEF ContentsInv, StorageTypes, BufferInv, BufferTypes, Usable
<1>2. Storage(b) \in [1 .. capacity[b] -> Char] /\ Len(Storage(b)) = capacity[b]
    BY <1>1, SequencesAreFunctions DEF Holds
<1>3. ASSUME ptr[b] = data_
      PROVE  Storage(b) = data[b] /\ capacity[b] = SIZE
  <2>1. Storage(b) = data[b] /\ data[b] \in [1 .. SIZE -> Char] /\ SIZE \in Nat
      BY <1>1, <1>3, SizeAssumption DEF Storage, ContentsInv, StorageTypes
  <2>2. Len(data[b]) = SIZE
      BY <2>1, SequencesAreFunctions
  <2> QED BY <1>2, <2>1, <2>2
<1> QED BY <1>1, <1>2, <1>3 DEF Holds

(* Growing or not, a buffer that something is put into keeps what it has   *)
(* in use, gets what is put behind it, and has room for all it must hold;  *)
(* the other buffers keep what they have.                                  *)
PutResult(b, n, s) ==
    /\ capacity' \in [Buffers -> Nat]
    /\ data' \in [Buffers -> [1 .. SIZE -> Char]]
    /\ heap' \in [Blocks -> Seq(Char)]
    /\ n <= capacity'[b] /\ capacity[b] <= capacity'[b]
    /\ Storage(b)' \in [1 .. capacity'[b] -> Char]
    /\ \A k \in 1 .. size[b] : Storage(b)'[k] = Storage(b)[k]
    /\ \A k \in 1 .. Len(s) : Storage(b)'[size[b] + k] = s[k]
    /\ \A c \in Buffers \ {b} : capacity'[c] = capacity[c]
    /\ \A c \in Usable \ {b} : Storage(c)' = Storage(c)

LEMMA GrowResult ==
    ASSUME BufferInv, ContentsInv, NEW b \in Usable, NEW n \in Nat, NEW s \in Seq(Char),
           size[b] + Len(s) <= n, n > capacity[b], grow(b, n, s)
    PROVE  PutResult(b, n, s)
<1> DEFINE new == new_capacity(b, n)
<1> DEFINE kept == SubSeq(Storage(b), 1, size[b])
<1> DEFINE copy == Copied(Repeated(Unwritten, new), 0, kept)
<1>1. /\ b \in Buffers /\ size[b] \in Nat /\ capacity[b] \in Nat /\ size[b] <= capacity[b]
      /\ Storage(b) \in [1 .. capacity[b] -> Char]
      /\ Len(s) \in Nat /\ Storage(b) \in Seq(Char) /\ Len(Storage(b)) = capacity[b]
    BY StorageType, SequencesAreFunctions
<1>2. PICK k \in Blocks \ allocated :
        /\ heap' = [Freed(b) EXCEPT ![k] = Copied(copy, size[b], s)]
        /\ ptr' = [ptr EXCEPT ![b] = k]
        /\ capacity' = [capacity EXCEPT ![b] = new]
        /\ UNCHANGED data
    BY DEF grow
<1>3. new \in Nat /\ n <= new
  <2>1. capacity[b] \div 2 \in Nat
      BY <1>1
  <2> QED BY <1>1, <2>1 DEF new_capacity
<1> HIDE DEF new
<1>4. /\ kept \in Seq(Char) /\ Len(kept) = size[b]
      /\ \A j \in 1 .. size[b] : kept[j] = Storage(b)[j]
    BY <1>1, SubSeqProperties
<1> HIDE DEF kept
<1>5. /\ copy \in [1 .. new -> Char]
      /\ \A j \in 1 .. size[b] : copy[j] = Storage(b)[j]
  <2>1. Repeated(Unwritten, new) \in [1 .. new -> Char]
      BY <1>3, RepeatedType
  <2>2. /\ copy \in [1 .. new -> Char]
        /\ \A j \in 1 .. Len(kept) : j <= new => copy[j] = kept[j]
      BY <1>3, <1>4, <2>1, CopiedAtFront
  <2>3. \A j \in 1 .. size[b] : j <= new
      BY <1>1, <1>3
  <2> QED BY <1>4, <2>2, <2>3
<1> HIDE DEF copy
<1>6. /\ Copied(copy, size[b], s) \in [1 .. new -> Char]
      /\ \A j \in 1 .. size[b] : Copied(copy, size[b], s)[j] = Storage(b)[j]
      /\ \A j \in 1 .. Len(s) : Copied(copy, size[b], s)[size[b] + j] = s[j]
  <2>1. /\ Copied(copy, size[b], s) \in [1 .. new -> Char]
        /\ \A j \in 1 .. size[b] : j <= new => Copied(copy, size[b], s)[j] = copy[j]
        /\ \A j \in 1 .. Len(s) : size[b] + j <= new => Copied(copy, size[b], s)[size[b] + j] = s[j]
    <3>1. size[b] \in Nat /\ new \in Nat
        BY <1>1, <1>3
    <3> QED BY <1>5, <3>1, CopiedType
  <2>2. /\ \A j \in 1 .. size[b] : j <= new
        /\ \A j \in 1 .. Len(s) : size[b] + j <= new
      BY <1>1, <1>3
  <2> QED BY <1>5, <2>1, <2>2
<1>7. k \in Blocks /\ k # data_ /\ k \notin allocated
    BY <1>2
<1>8. Freed(b) \in [Blocks -> Seq(Char)] /\ \A j \in Blocks : j # ptr[b] => Freed(b)[j] = heap[j]
    BY EmptySeq DEF Freed, ContentsInv, StorageTypes
<1>9. Copied(copy, size[b], s) \in Seq(Char)
    BY <1>3, <1>6, SequencesAreFunctions
<1>10. Storage(b)' = Copied(copy, size[b], s)
    BY <1>1, <1>2, <1>7, <1>8 DEF Storage, BufferInv, BufferTypes
<1>11. capacity' \in [Buffers -> Nat] /\ capacity'[b] = new
       /\ \A c \in Buffers \ {b} : capacity'[c] = capacity[c]
    BY <1>1, <1>2, <1>3 DEF ContentsInv, StorageTypes
<1>12. ASSUME NEW c \in Usable \ {b}
       PROVE  Storage(c)' = Storage(c)
  <2>1. c \in Buffers /\ ptr'[c] = ptr[c]
      BY <1>2 DEF BufferInv, BufferTypes, Usable
  <2>2. CASE ptr[c] = data_
      BY <1>2, <2>1, <2>2 DEF Storage
  <2>3. CASE ptr[c] # data_
    <3>1. ptr[c] \in Blocks /\ ptr[c] # k /\ ptr[c] # ptr[b]
        BY <1>1, <1>7, <1>12, <2>3, OwnBlock
    <3>2. heap'[ptr[c]] = heap[ptr[c]]
        BY <1>2, <1>8, <3>1
    <3> QED BY <2>1, <2>3, <3>2 DEF Storage
  <2> QED BY <2>2, <2>3
<1>13. data' \in [Buffers -> [1 .. SIZE -> Char]] /\ heap' \in [Blocks -> Seq(Char)]
    BY <1>2, <1>8, <1>9 DEF ContentsInv, StorageTypes
<1> QED BY <1>1, <1>3, <1>6, <1>10, <1>11, <1>12, <1>13 DEF PutResult

LEMMA InPlaceResult ==
    ASSUME BufferInv, ContentsInv, NEW b \in Usable, NEW n \in Nat, NEW s \in Seq(Char),
           size[b] + Len(s) <= capacity[b], n <= capacity[b], InPlace(b, s)
    PROVE  PutResult(b, n, s)
<1>0. PICK old : old = Storage(b)
    OBVIOUS
<1> DEFINE copy == Copied(old, size[b], s)
<1>1. /\ b \in Buffers /\ size[b] \in Nat /\ capacity[b] \in Nat /\ size[b] <= capacity[b]
      /\ old \in [1 .. capacity[b] -> Char] /\ Len(s) \in Nat
      /\ ptr[b] = data_ => old = data[b] /\ capacity[b] = SIZE
    BY <1>0, StorageType, SequencesAreFunctions
<1>2. /\ copy \in [1 .. capacity[b] -> Char] /\ copy \in Seq(Char)
      /\ \A j \in 1 .. size[b] : copy[j] = old[j]
      /\ \A j \in 1 .. Len(s) : copy[size[b] + j] = s[j]
  <2>1. /\ copy \in [1 .. capacity[b] -> Char]
        /\ \A j \in 1 .. size[b] : j <= capacity[b] => copy[j] = old[j]
        /\ \A j \in 1 .. Len(s) : size[b] + j <= capacity[b] => copy[size[b] + j] = s[j]
    <3>1. PICK room, len : room = capacity[b] /\ len = size[b]
        OBVIOUS
    <3>2. room \in Nat /\ len \in Nat /\ old \in [1 .. room -> Char]
        BY <1>1, <3>1
    <3>3. Copied(old, len, s) \in [1 .. room -> Char]
        BY <3>2, CopiedType
    <3>4. \A j \in 1 .. len : j <= room => Copied(old, len, s)[j] = old[j]
        BY <3>2, CopiedType
    <3>5. \A j \in 1 .. Len(s) : len + j <= room => Copied(old, len, s)[len + j] = s[j]
        BY <3>2, CopiedType
    <3> QED BY <3>1, <3>3, <3>4, <3>5
  <2>2. /\ \A j \in 1 .. size[b] : j <= capacity[b]
        /\ \A j \in 1 .. Len(s) : size[b] + j <= capacity[b]
      BY <1>1
  <2> QED BY <1>1, <2>1, <2>2, SequencesAreFunctions
<1>3. /\ UNCHANGED <<ptr, capacity>>
      /\ IF ptr[b] = data_
           THEN data' = [data EXCEPT ![b] = copy] /\ UNCHANGED heap
           ELSE heap' = [heap EXCEPT ![ptr[b]] = copy] /\ UNCHANGED data
  <2>1. ptr[b] = data_ => data[b] = old
      BY <1>1
  <2>2. ptr[b] # data_ => heap[ptr[b]] = old
      BY <1>0 DEF Storage
  <2>3. ptr[b] # data_ => ptr[b] \in Blocks
      BY OwnBlock
  <2> QED BY <1>1, <2>1, <2>2, <2>3 DEF InPlace, ContentsInv, StorageTypes
<1> HIDE DEF copy
<1>4. ptr[b] # data_ => ptr[b] \in Blocks /\ \A c \in Buffers \ {b} : ptr[c] # ptr[b]
    BY OwnBlock
<1>5. data' \in [Buffers -> [1 .. SIZE -> Char]] /\ heap' \in [Blocks -> Seq(Char)]
    BY <1>1, <1>2, <1>3, <1>4 DEF ContentsInv, StorageTypes
<1>6. Storage(b)' = copy
    BY <1>1, <1>3, <1>4 DEF Storage, ContentsInv, StorageTypes
<1>7. ASSUME NEW c \in Usable \ {b}
      PROVE  Storage(c)' = Storage(c)
  <2>1. c \in Buffers
      BY <1>7 DEF BufferInv, BufferTypes, Usable
  <2>2. data'[c] = data[c]
      BY <1>3, <1>4, <1>7, <2>1 DEF ContentsInv, StorageTypes
  <2>3. ptr[c] # data_ => heap'[ptr[c]] = heap[ptr[c]]
      BY <1>3, <1>4, <1>7, <2>1, OwnBlock DEF ContentsInv, StorageTypes
  <2> QED BY <1>3, <2>2, <2>3 DEF Storage
<1> QED BY <1>0, <1>1, <1>2, <1>3, <1>5, <1>6, <1>7 DEF PutResult, ContentsInv, StorageTypes

LEMMA PutKeeps ==
    ASSUME BufferInv, ContentsInv, NEW b \in Usable, NEW n \in Nat, NEW s \in Seq(Char),
           size[b] + Len(s) <= n \/ s = <<>>, Put(b, n, s)
    PROVE  PutResult(b, n, s)
<1>1. size[b] \in Nat /\ capacity[b] \in Nat /\ size[b] <= capacity[b] /\ Len(s) \in Nat
    BY StorageType, SequencesAreFunctions
<1>2. s = <<>> => Len(s) = 0
    BY EmptySeq
<1>3. CASE n > capacity[b]
    BY <1>1, <1>2, <1>3, GrowResult DEF Put
<1>4. CASE ~(n > capacity[b])
    BY <1>1, <1>2, <1>4, InPlaceResult DEF Put
<1> QED BY <1>3, <1>4

-----------------------------------------------------------------------------
(* The steps.                                                              *)

(* A buffer nothing is done to holds what it held.                         *)
LEMMA OthersHold ==
    ASSUME BufferInv, ContentsInv, NEW c \in Usable,
           Storage(c)' = Storage(c), capacity'[c] = capacity[c], size'[c] = size[c],
           text'[c] = text[c]
    PROVE  Holds(c)'
  BY DEF Holds, ContentsInv

LEMMA AppendContents ==
    ASSUME BufferInv, ContentsInv, NEW b \in Buffers, NEW s \in Seq(Char), append(b, s)
    PROVE  ContentsInv'
<1>1. /\ b \in Usable /\ b \in live /\ Put(b, size[b] + Len(s), s)
      /\ size' = [size EXCEPT ![b] = @ + Len(s)]
      /\ text' = [text EXCEPT ![b] = @ \o s]
      /\ UNCHANGED <<live, moved>>
    BY StorageType DEF append
<1>2. /\ size[b] \in Nat /\ Len(s) \in Nat /\ size[b] + Len(s) \in Nat
      /\ text[b] \in Seq(Char) /\ size[b] = Len(text[b]) /\ Holds(b)
    BY <1>1, StorageType, SequencesAreFunctions DEF ContentsInv, StorageTypes, Holds
<1>3. PutResult(b, size[b] + Len(s), s)
    BY <1>1, <1>2, PutKeeps
<1>4. /\ text[b] \o s \in Seq(Char) /\ Len(text[b] \o s) = size[b] + Len(s)
      /\ \A k \in 1 .. size[b] : (text[b] \o s)[k] = text[b][k]
      /\ \A k \in 1 .. Len(s) : (text[b] \o s)[size[b] + k] = s[k]
    BY <1>2, ConcatProperties
<1>5. /\ text'[b] = text[b] \o s /\ size'[b] = size[b] + Len(s)
      /\ text' \in [Buffers -> Seq(Char)] /\ size' \in [Buffers -> Nat]
      /\ \A c \in Buffers \ {b} : text'[c] = text[c] /\ size'[c] = size[c]
    BY <1>1, <1>2, <1>4 DEF ContentsInv, StorageTypes
<1>6. StorageTypes'
    BY <1>1, <1>3, <1>5 DEF ContentsInv, StorageTypes, PutResult
<1>7. Holds(b)'
  <2>1. ASSUME NEW k \in 1 .. size'[b], text'[b][k] # Unwritten
        PROVE  Storage(b)'[k] = text'[b][k]
    <3>1. CASE k \in 1 .. size[b]
      <4>1. text'[b][k] = text[b][k]
          BY <1>4, <1>5, <3>1
      <4>2. Storage(b)'[k] = Storage(b)[k]
          BY <1>3, <3>1 DEF PutResult
      <4> QED BY <1>2, <2>1, <3>1, <4>1, <4>2 DEF Holds
    <3>2. CASE k \notin 1 .. size[b]
      <4>1. PICK j : j = k - size[b]
          OBVIOUS
      <4>2. j \in 1 .. Len(s) /\ size[b] + j = k
          BY <1>2, <1>5, <3>2, <4>1
      <4>3. Storage(b)'[size[b] + j] = s[j] /\ (text[b] \o s)[size[b] + j] = s[j]
          BY <1>3, <1>4, <4>2 DEF PutResult
      <4> QED BY <1>5, <4>2, <4>3
    <3> QED BY <3>1, <3>2
  <2> QED BY <1>3, <1>4, <1>5, <2>1 DEF Holds, PutResult
<1>8. ASSUME NEW c \in Usable', c # b
      PROVE  Holds(c)'
  <2>1. c \in Usable /\ c \in Buffers
      BY <1>1, <1>8, StorageType DEF Usable
  <2> QED BY <1>3, <1>5, <1>8, <2>1, OthersHold DEF PutResult
<1> QED BY <1>6, <1>7, <1>8 DEF ContentsInv

(* New characters are not initialised.                                     *)
LEMMA ResizeContents ==
    ASSUME BufferInv, ContentsInv, NEW b \in Buffers, NEW n \in Nat, resize(b, n)
    PROVE  ContentsInv'
<1> DEFINE new == [j \in 1 .. n |-> IF j <= Len(text[b]) THEN text[b][j] ELSE Unwritten]
<1>1. /\ b \in Usable /\ b \in live /\ Put(b, n, <<>>)
      /\ size' = [size EXCEPT ![b] = n] /\ text' = [text EXCEPT ![b] = new]
      /\ UNCHANGED <<live, moved>>
    BY StorageType DEF resize
<1>2. /\ size[b] \in Nat /\ text[b] \in Seq(Char) /\ size[b] = Len(text[b]) /\ Holds(b)
    BY <1>1, StorageType DEF ContentsInv, StorageTypes, Holds
<1>3. PutResult(b, n, <<>>)
  <2>1. <<>> \in Seq(Char)
      BY EmptySeq
  <2> QED BY <1>1, <2>1, PutKeeps
<1>4. new \in Seq(Char) /\ Len(new) = n
  <2>1. \A j \in 1 .. n : j <= size[b] => text[b][j] \in Char
    <3>1. \A j \in 1 .. n : j <= size[b] => j \in 1 .. Len(text[b])
        BY <1>2
    <3> QED BY <1>2, <3>1, ElementOfSeq
  <2>2. new \in [1 .. n -> Char]
      BY <1>2, <2>1 DEF Char
  <2> QED BY <2>2, SequencesAreFunctions
<1>5. \A k \in 1 .. n : new[k] # Unwritten => k \in 1 .. size[b] /\ new[k] = text[b][k]
    BY <1>2
<1> HIDE DEF new
<1>6. /\ text'[b] = new /\ size'[b] = n
      /\ text' \in [Buffers -> Seq(Char)] /\ size' \in [Buffers -> Nat]
      /\ \A c \in Buffers \ {b} : text'[c] = text[c] /\ size'[c] = size[c]
    BY <1>1, <1>2, <1>4 DEF ContentsInv, StorageTypes
<1>7. StorageTypes'
    BY <1>1, <1>3, <1>6 DEF ContentsInv, StorageTypes, PutResult
<1>8. Holds(b)'
  <2>1. ASSUME NEW k \in 1 .. n, new[k] # Unwritten
        PROVE  Storage(b)'[k] = new[k]
      BY <1>2, <1>3, <1>5, <2>1 DEF Holds, PutResult
  <2> QED BY <1>3, <1>4, <1>6, <2>1 DEF Holds, PutResult
<1>9. ASSUME NEW c \in Usable', c # b
      PROVE  Holds(c)'
  <2>1. c \in Usable /\ c \in Buffers
      BY <1>1, <1>9, StorageType DEF Usable
  <2> QED BY <1>3, <1>6, <1>9, <2>1, OthersHold DEF PutResult
<1> QED BY <1>7, <1>8, <1>9 DEF ContentsInv

LEMMA ReserveContents ==
    ASSUME BufferInv, ContentsInv, NEW b \in Buffers, NEW n \in Nat, reserve(b, n)
    PROVE  ContentsInv'
<1>1. /\ b \in Usable /\ b \in live /\ Put(b, n, <<>>)
      /\ UNCHANGED <<live, moved, size, text>>
    BY StorageType DEF reserve
<1>2. /\ size[b] \in Nat /\ size[b] = Len(text[b]) /\ Holds(b)
      /\ size[b] <= capacity[b] /\ capacity[b] \in Nat
    BY <1>1, StorageType DEF ContentsInv, StorageTypes, Holds
<1>3. PutResult(b, n, <<>>)
  <2>1. <<>> \in Seq(Char)
      BY EmptySeq
  <2> QED BY <1>1, <2>1, PutKeeps
<1>4. StorageTypes'
    BY <1>1, <1>3 DEF ContentsInv, StorageTypes, PutResult
<1>5. Holds(b)'
  <2>1. size[b] <= capacity'[b]
      BY <1>2, <1>3 DEF PutResult
  <2>2. \A k \in 1 .. size[b] : text[b][k] # Unwritten => Storage(b)'[k] = text[b][k]
      BY <1>2, <1>3 DEF PutResult, Holds
  <2> QED BY <1>1, <1>2, <1>3, <2>1, <2>2 DEF Holds, PutResult
<1>6. ASSUME NEW c \in Usable', c # b
      PROVE  Holds(c)'
  <2>1. c \in Usable /\ c \in Buffers
      BY <1>1, <1>6, StorageType DEF Usable
  <2> QED BY <1>1, <1>3, <1>6, <2>1, OthersHold DEF PutResult
<1> QED BY <1>4, <1>5, <1>6 DEF ContentsInv

LEMMA ClearContents ==
    ASSUME BufferInv, ContentsInv, NEW b \in Buffers, clear(b)
    PROVE  ContentsInv'
<1>1. /\ b \in Usable /\ b \in live
      /\ size' = [size EXCEPT ![b] = 0] /\ text' = [text EXCEPT ![b] = <<>>]
      /\ UNCHANGED <<live, moved, ptr, capacity, data, heap, allocated>>
    BY StorageType DEF clear
<1>2. \A c : Storage(c)' = Storage(c)
    BY <1>1 DEF Storage
<1>3. <<>> \in Seq(Char) /\ Len(<<>>) = 0
    BY EmptySeq
<1>4. StorageTypes'
    BY <1>1, <1>3 DEF ContentsInv, StorageTypes
<1>5. ASSUME NEW c \in Usable'
      PROVE  Holds(c)'
  <2>1. c \in Usable /\ c \in Buffers /\ Holds(c) /\ capacity[c] \in Nat
      BY <1>1, <1>5, StorageType DEF Usable, ContentsInv
  <2>2. CASE c = b
    <3>1. size'[b] = 0 /\ text'[b] = <<>>
        BY <1>1 DEF ContentsInv, StorageTypes
    <3> QED BY <1>1, <1>2, <1>3, <2>1, <2>2, <3>1 DEF Holds
  <2>3. CASE c # b
    <3>1. size'[c] = size[c] /\ text'[c] = text[c]
        BY <1>1, <2>1, <2>3 DEF ContentsInv, StorageTypes
    <3> QED BY <1>1, <1>2, <2>1, <3>1, OthersHold
  <2> QED BY <2>2, <2>3
<1> QED BY <1>4, <1>5 DEF ContentsInv

LEMMA ConstructContents ==
    ASSUME BufferInv, ContentsInv, NEW b \in Buffers, Construct(b)
    PROVE  ContentsInv'
<1>1. /\ b \notin live /\ live' = live \union {b}
      /\ UNCHANGED <<moved, ptr, size, capacity, data, heap, allocated, text>>
    BY DEF Construct
<1>2. \A c : Storage(c)' = Storage(c)
    BY <1>1 DEF Storage
<1>3. StorageTypes'
    BY <1>1 DEF ContentsInv, StorageTypes
<1>4. ASSUME NEW c \in Usable'
      PROVE  Holds(c)'
  <2>1. CASE c = b
    <3>1. /\ ptr[b] = data_ /\ Storage(b) = data[b] /\ data[b] \in [1 .. SIZE -> Char]
          /\ size[b] = 0 /\ capacity[b] = SIZE /\ text[b] = <<>>
        BY <1>1 DEF BufferInv, NoBlock, Storage, ContentsInv, StorageTypes
    <3>2. Len(text[b]) = 0 /\ SIZE \in Nat
        BY <3>1, EmptySeq, SizeAssumption
    <3> QED BY <1>1, <1>2, <2>1, <3>1, <3>2 DEF Holds
  <2>2. CASE c # b
      BY <1>1, <1>2, <1>4, <2>2, OthersHold DEF Usable
  <2> QED BY <2>1, <2>2
<1> QED BY <1>3, <1>4 DEF ContentsInv

(* The contents of a buffer change hands: the characters it keeps in       *)
(* itself are copied, a block goes to its new owner.  The buffers the      *)
(* contents neither come from nor go to keep theirs.                       *)
LEMMA MoveContents ==
    ASSUME BufferInv, ContentsInv, NEW b \in Buffers, NEW other \in Usable, b # other,
           move(b, other), live' = live \union {b},
           heap' \in [Blocks -> Seq(Char)],
           \A k \in Blocks : ~(b \in live /\ k = ptr[b]) => heap'[k] = heap[k]
    PROVE  ContentsInv'
<1> DEFINE n == size[other]
<1> DEFINE kept == SubSeq(data[other], 1, n)
<1> DEFINE copy == Copied(data[b], 0, kept)
<1>1. /\ other \in Buffers /\ other \in live /\ Holds(other)
      /\ n \in Nat /\ capacity[other] \in Nat /\ n <= capacity[other] /\ SIZE \in Nat
      /\ Storage(other) \in [1 .. capacity[other] -> Char]
      /\ ptr[other] = data_ => Storage(other) = data[other] /\ capacity[other] = SIZE
    BY StorageType, SizeAssumption DEF ContentsInv
<1>2. /\ size' = [size EXCEPT ![b] = n]
      /\ capacity' = [capacity EXCEPT ![b] = capacity[other]]
      /\ text' = [text EXCEPT ![b] = text[other]]
      /\ moved' = (moved \ {b}) \union {other}
      /\ IF ptr[other] = data_
           THEN ptr' = [ptr EXCEPT ![b] = data_] /\ data' = [data EXCEPT ![b] = copy]
           ELSE ptr' = [ptr EXCEPT ![b] = ptr[other], ![other] = data_] /\ UNCHANGED data
    BY DEF move, ContentsInv, StorageTypes
<1>3. /\ ptr \in [Buffers -> Blocks \union {data_}]
      /\ data \in [Buffers -> [1 .. SIZE -> Char]]
      /\ size \in [Buffers -> Nat] /\ capacity \in [Buffers -> Nat]
      /\ text \in [Buffers -> Seq(Char)]
    BY DEF BufferInv, BufferTypes, ContentsInv, StorageTypes
<1>4. ptr[other] = data_ =>
         /\ copy \in [1 .. SIZE -> Char]
         /\ \A k \in 1 .. n : copy[k] = data[other][k]
  <2> SUFFICES ASSUME ptr[other] = data_
               PROVE  /\ copy \in [1 .. SIZE -> Char]
                      /\ \A k \in 1 .. n : copy[k] = data[other][k]
      OBVIOUS
  <2>1. data[other] \in Seq(Char) /\ Len(data[other]) = SIZE /\ n <= SIZE
      BY <1>1, <1>3, SequencesAreFunctions
  <2>2. /\ kept \in Seq(Char) /\ Len(kept) = n
        /\ \A j \in 1 .. n : kept[j] = data[other][j]
      BY <1>1, <2>1, SubSeqProperties
  <2> HIDE DEF kept
  <2>3. /\ copy \in [1 .. SIZE -> Char]
        /\ \A j \in 1 .. Len(kept) : j <= SIZE => copy[j] = kept[j]
    <3>1. data[b] \in [1 .. SIZE -> Char] /\ SIZE \in Nat
        BY <1>1, <1>3
    <3> QED BY <2>2, <3>1, CopiedAtFront
  <2>4. \A j \in 1 .. n : j <= SIZE
      BY <1>1, <2>1
  <2> QED BY <2>2, <2>3, <2>4
<1> HIDE DEF copy
<1>5. /\ size'[b] = n /\ capacity'[b] = capacity[other] /\ text'[b] = text[other]
      /\ size' \in [Buffers -> Nat] /\ capacity' \in [Buffers -> Nat]
      /\ text' \in [Buffers -> Seq(Char)] /\ data' \in [Buffers -> [1 .. SIZE -> Char]]
      /\ \A c \in Buffers \ {b} : /\ size'[c] = size[c] /\ capacity'[c] = capacity[c]
                                  /\ text'[c] = text[c] /\ data'[c] = data[c]
      /\ \A c \in Buffers \ {b, other} : ptr'[c] = ptr[c]
  <2>1. /\ size'[b] = n /\ size' \in [Buffers -> Nat]
        /\ capacity'[b] = capacity[other] /\ capacity' \in [Buffers -> Nat]
        /\ \A c \in Buffers \ {b} : size'[c] = size[c] /\ capacity'[c] = capacity[c]
      BY <1>1, <1>2, <1>3
  <2>2. /\ text'[b] = text[other] /\ text' \in [Buffers -> Seq(Char)]
        /\ \A c \in Buffers \ {b} : text'[c] = text[c]
      BY <1>1, <1>2, <1>3
  <2>3. /\ data' \in [Buffers -> [1 .. SIZE -> Char]]
        /\ \A c \in Buffers \ {b} : data'[c] = data[c]
    <3>1. CASE ptr[other] = data_
      <4>1. data' = [data EXCEPT ![b] = copy] /\ copy \in [1 .. SIZE -> Char]
          BY <1>2, <1>4, <3>1
      <4> QED BY <1>3, <4>1
    <3>2. CASE ptr[other] # data_
        BY <1>2, <1>3, <3>2
    <3> QED BY <3>1, <3>2
  <2>4. \A c \in Buffers \ {b, other} : ptr'[c] = ptr[c]
      BY <1>2, <1>3
  <2> QED BY <2>1, <2>2, <2>3, <2>4
<1>6. StorageTypes'
    BY <1>5 DEF ContentsInv, StorageTypes
<1>7. Storage(b)' \in [1 .. capacity[other] -> Char]
      /\ \A k \in 1 .. n : Storage(b)'[k] = Storage(other)[k]
  <2>1. CASE ptr[other] = data_
    <3>1. Storage(b)' = copy
        BY <1>2, <1>3, <2>1 DEF Storage
    <3> QED BY <1>1, <1>4, <2>1, <3>1
  <2>2. CASE ptr[other] # data_
    <3>1. ptr[other] \in Blocks /\ ptr[b] # ptr[other]
        BY <2>2, OwnBlock
    <3>2. ptr'[b] = ptr[other] /\ heap'[ptr[other]] = heap[ptr[other]]
        BY <1>1, <1>2, <1>3, <2>2, <3>1
    <3>3. Storage(b)' = Storage(other)
        BY <2>2, <3>2 DEF Storage
    <3> QED BY <1>1, <3>3
  <2> QED BY <2>1, <2>2
<1>8. Holds(b)'
  <2>1. n = Len(text[other])
        /\ \A k \in 1 .. n : text[other][k] # Unwritten => Storage(other)[k] = text[other][k]
      BY <1>1 DEF Holds
  <2> QED BY <1>1, <1>5, <1>7, <2>1 DEF Holds
<1>9. ASSUME NEW c \in Usable', c # b
      PROVE  Holds(c)'
  <2>1. c \in Usable /\ c \in Buffers /\ c # other
      BY <1>2, <1>9, StorageType DEF Usable, BufferInv, BufferTypes
  <2>2. ptr'[c] = ptr[c] /\ data'[c] = data[c]
      BY <1>5, <1>9, <2>1
  <2>3. ptr[c] # data_ => ptr[c] \in Blocks /\ ptr[c] # ptr[b]
      BY <1>9, <2>1, OwnBlock
  <2>4. Storage(c)' = Storage(c)
      BY <2>2, <2>3 DEF Storage
  <2> QED BY <1>5, <1>9, <2>1, <2>4, OthersHold
<1> QED BY <1>6, <1>8, <1>9 DEF ContentsInv

(* What a block held is gone with it.                                      *)
LEMMA FreedType ==
    ASSUME ContentsInv, NEW b
    PROVE  Freed(b) \in [Blocks -> Seq(Char)] /\ \A k \in Blocks : k # ptr[b] => Freed(b)[k] = heap[k]
  BY EmptySeq DEF Freed, ContentsInv, StorageTypes

LEMMA MovesContents ==
    ASSUME BufferInv, ContentsInv, NEW b \in Buffers, NEW other \in Buffers,
           MoveConstruct(b, other) \/ MoveAssign(b, other)
    PROVE  ContentsInv'
<1>1. CASE MoveConstruct(b, other)
  <2>1. /\ b \notin live /\ other \in Usable /\ b # other
        /\ live' = live \union {b} /\ move(b, other) /\ UNCHANGED heap
      BY <1>1 DEF MoveConstruct, Usable
  <2>2. heap' \in [Blocks -> Seq(Char)] /\ \A k \in Blocks : heap'[k] = heap[k]
      BY <2>1 DEF ContentsInv, StorageTypes
  <2> QED BY <2>1, <2>2, MoveContents
<1>2. CASE MoveAssign(b, other)
  <2>1. /\ b \in live /\ other \in Usable /\ b # other
        /\ live' = live \union {b} /\ move(b, other) /\ heap' = Freed(b)
      BY <1>2 DEF MoveAssign, Usable
  <2> QED BY <2>1, FreedType, MoveContents
<1> QED BY <1>1, <1>2

LEMMA DestroyContents ==
    ASSUME BufferInv, ContentsInv, NEW b \in Buffers, Destroy(b)
    PROVE  ContentsInv'
<1>1. /\ b \in live /\ live' = live \ {b} /\ moved' = moved \ {b} /\ heap' = Freed(b)
      /\ ptr' = [ptr EXCEPT ![b] = data_] /\ size' = [size EXCEPT ![b] = 0]
      /\ capacity' = [capacity EXCEPT ![b] = SIZE]
      /\ data' = [data EXCEPT ![b] = Repeated(Unwritten, SIZE)]
      /\ text' = [text EXCEPT ![b] = <<>>]
    BY DEF Destroy
<1>2. /\ Repeated(Unwritten, SIZE) \in [1 .. SIZE -> Char] /\ SIZE \in Nat
      /\ <<>> \in Seq(Char)
    BY RepeatedType, SizeAssumption, EmptySeq
<1>3. StorageTypes'
    BY <1>1, <1>2, FreedType DEF ContentsInv, StorageTypes
<1>4. ASSUME NEW c \in Usable'
      PROVE  Holds(c)'
  <2>1. c \in Usable /\ c \in Buffers /\ c # b
      BY <1>1, <1>4, StorageType DEF Usable, BufferInv, BufferTypes
  <2>2. /\ ptr'[c] = ptr[c] /\ data'[c] = data[c] /\ size'[c] = size[c]
        /\ capacity'[c] = capacity[c] /\ text'[c] = text[c]
      BY <1>1, <2>1 DEF ContentsInv, StorageTypes, BufferInv, BufferTypes
  <2>3. ptr[c] # data_ => ptr[c] \in Blocks /\ ptr[c] # ptr[b]
      BY <2>1, OwnBlock
  <2>4. Storage(c)' = Storage(c)
      BY <1>1, <2>2, <2>3, FreedType DEF Storage
  <2> QED BY <2>1, <2>2, <2>4, OthersHold
<1> QED BY <1>3, <1>4 DEF ContentsInv

(* The texts put into a buffer are characters.                             *)
LEMMA TextsAreCharacters == \A s \in Texts : s \in Seq(Char)
<1> SUFFICES ASSUME NEW n \in 0 .. MaxAppend, NEW s \in [1 .. n -> Chars]
             PROVE  s \in Seq(Char)
    BY DEF Texts
<1>1. n \in Nat /\ s \in [1 .. n -> Char]
    BY SizeAssumption DEF Char
<1> QED BY <1>1, SequencesAreFunctions

LEMMA ContentsStep == BufferInv /\ ContentsInv /\ [Next]_vars => ContentsInv'
<1> SUFFICES ASSUME BufferInv, ContentsInv, [Next]_vars PROVE ContentsInv'
    OBVIOUS
<1>1. CASE UNCHANGED vars
    BY <1>1 DEF vars, ContentsInv, StorageTypes, Holds, Storage, Usable
<1>2. ASSUME NEW b \in Buffers, NEW c \in Chars, push_back(b, c)
      PROVE  ContentsInv'
  <2>1. <<c>> \in Seq(Char)
      BY DEF Char
  <2> QED BY <1>2, <2>1, AppendContents DEF push_back
<1>3. ASSUME NEW b \in Buffers, NEW s \in Texts, append(b, s)
      PROVE  ContentsInv'
    BY <1>3, TextsAreCharacters, AppendContents
<1>4. ASSUME NEW b \in Buffers, NEW n \in 0 .. MaxCapacity, resize(b, n) \/ reserve(b, n)
      PROVE  ContentsInv'
  <2>1. n \in Nat
      BY SizeAssumption
  <2> QED BY <1>4, <2>1, ResizeContents, ReserveContents
<1> QED BY <1>1, <1>2, <1>3, <1>4, ConstructContents, ClearContents, MovesContents,
           DestroyContents DEF Next

(* A buffer holds the texts put into it, in their order and whole, and has *)
(* the room it takes itself to have, through growth, moves and assignment, *)
(* whatever other buffers do with the same blocks before and after.        *)
THEOREM ContentsStay == Spec => [](TypeOK /\ CapacityIsStorage /\ ContentsKept)
<1>1. Init => ContentsInv
  <2> SUFFICES ASSUME Init PROVE ContentsInv
      OBVIOUS
  <2>1. /\ Repeated(Unwritten, SIZE) \in [1 .. SIZE -> Char] /\ SIZE \in Nat
        /\ <<>> \in Seq(Char)
      BY RepeatedType, SizeAssumption, EmptySeq
  <2> QED BY <2>1 DEF Init, ContentsInv, StorageTypes, Usable
<1>2. BufferInv /\ ContentsInv => TypeOK /\ CapacityIsStorage /\ ContentsKept
  <2> SUFFICES ASSUME BufferInv, ContentsInv
               PROVE  TypeOK /\ CapacityIsStorage /\ ContentsKept
      OBVIOUS
  <2>1. TypeOK
      BY DEF BufferInv, BufferTypes, ContentsInv, StorageTypes, TypeOK
  <2>2. CapacityIsStorage
      BY StorageType DEF CapacityIsStorage
  <2>3. ContentsKept
      BY DEF ContentsInv, Holds, ContentsKept
  <2> QED BY <2>1, <2>2, <2>3
<1> QED BY <1>1, <1>2, BufferInitInv, BufferNextInv, ContentsStep, PTL DEF Spec
=============================================================================
