-------------------------- MODULE RotatingFileSink --------------------------
(***************************************************************************)
(* The file sink that begins a new file when the old one is full, and      *)
(* keeps MaxFiles old ones.  Any call of the file system may fail, and the *)
(* process may end between any two, and be started again.                  *)
(***************************************************************************)
EXTENDS FileSystem

CONSTANTS
    Sizes,      \* sizes of messages
    MaxSize,    \* _max_size
    MaxFiles,   \* _max_files
    MaxMessages,\* bound: messages
    MaxTrouble  \* bound: failures and crashes

\* What the constants have to be.
RotatingAssumption ==
    /\ Sizes \subseteq Nat \ {0}
    /\ MaxSize \in Nat /\ MaxFiles \in Nat
    /\ MaxMessages \in Nat /\ MaxTrouble \in Nat

VARIABLES
    files,      \* files[i]: calc_filename(_base_filename, i)
    fd,         \* _fd is not null
    currentSize,\* _current_size
    flushed,    \* how much of the current file is out of the buffer
    pc,         \* "idle"; in _rotate() "remove", "rename" or "reopen"; "write"; "down"
    i,          \* the loop variable of _rotate()
    msg,        \* the number and the size of the message of the call, if any
    calls,
    logged,     \* history: the messages written and not lost in a crash,
    trouble     \* and how many failures and crashes there were

vars == <<files, fd, currentSize, flushed, pc, i, msg, calls, logged, trouble>>

(* A file is a sequence of messages, each with the place where it ends.    *)
SizeOf(text) == IF text = <<>> THEN 0 ELSE text[Len(text)].end

Numbers(text) == {text[k].number : k \in DOMAIN text}

Init ==
    /\ files = OpenedToAppend(<<>>, 0)
    /\ fd = TRUE
    /\ currentSize = 0
    /\ flushed = 0
    /\ pc = "idle"
    /\ i = 0
    /\ msg = <<>>
    /\ calls = 0
    /\ logged = {}
    /\ trouble = 0

(* An exception leaves the call; the file stays as it is, open or closed.  *)
Throw ==
    /\ trouble < MaxTrouble
    /\ trouble' = trouble + 1
    /\ pc' = "idle"
    /\ msg' = <<>>

(* Seeded defect: one old file less is kept.                               *)
LogOneFileLess ==
    /\ pc = "idle"
    /\ calls < MaxMessages
    /\ calls' = calls + 1
    /\ \E s \in Sizes :
          /\ msg' = <<[number |-> calls + 1, size |-> s]>>
          /\ currentSize' = currentSize + s
          /\ IF currentSize + s > MaxSize
               THEN /\ pc' = IF MaxFiles > 0 THEN "remove" ELSE "reopen"
                    /\ i' = MaxFiles - 1
                    /\ fd' = FALSE
               ELSE /\ pc' = "write"
                    /\ UNCHANGED <<i, fd>>
    /\ flushed' = IF pc' = "write" THEN flushed ELSE 0
    /\ UNCHANGED <<files, logged, trouble>>

(* Seeded defect: the files are renamed while one of them is open.         *)
LogKeepingOpen ==
    /\ pc = "idle"
    /\ calls < MaxMessages
    /\ calls' = calls + 1
    /\ \E s \in Sizes :
          /\ msg' = <<[number |-> calls + 1, size |-> s]>>
          /\ currentSize' = currentSize + s
          /\ IF currentSize + s > MaxSize
               THEN /\ pc' = IF MaxFiles > 0 THEN "remove" ELSE "reopen"
                    /\ i' = MaxFiles
                    /\ UNCHANGED fd
               ELSE /\ pc' = "write"
                    /\ UNCHANGED <<i, fd>>
    /\ flushed' = IF pc' = "write" THEN flushed ELSE 0
    /\ UNCHANGED <<files, logged, trouble>>

(* A message that does not fit begins the rotation.                        *)
Log ==
    /\ pc = "idle"
    /\ calls < MaxMessages
    /\ calls' = calls + 1
    /\ \E s \in Sizes :
          /\ msg' = <<[number |-> calls + 1, size |-> s]>>
          /\ currentSize' = currentSize + s
          /\ IF currentSize + s > MaxSize
               THEN /\ pc' = IF MaxFiles > 0 THEN "remove" ELSE "reopen"
                    /\ i' = MaxFiles
                    /\ fd' = FALSE
               ELSE /\ pc' = "write"
                    /\ UNCHANGED <<i, fd>>
    /\ flushed' = IF pc' = "write" THEN flushed ELSE 0
    /\ UNCHANGED <<files, logged, trouble>>

RemoveTarget ==
    /\ pc = "remove"
    /\ \/ /\ files' = Removed(files, i)
          /\ pc' = "rename"
          /\ UNCHANGED <<msg, trouble>>
       \/ Exists(files, i) /\ Throw /\ UNCHANGED files
    /\ UNCHANGED <<fd, currentSize, flushed, i, calls, logged>>

(* Seeded defect: a file that cannot be moved is left where it is, and the *)
(* next one takes its place.                                               *)
RenameIfPossible ==
    /\ pc = "rename"
    /\ \/ /\ files' = IF Exists(files, i - 1) THEN Renamed(files, i - 1, i) ELSE files
          /\ UNCHANGED trouble
       \/ /\ Exists(files, i - 1) /\ trouble < MaxTrouble
          /\ trouble' = trouble + 1
          /\ UNCHANGED files
    /\ pc' = IF i > 1 THEN "remove" ELSE "reopen"
    /\ i' = i - 1
    /\ UNCHANGED <<fd, currentSize, flushed, msg, calls, logged>>

Rename ==
    /\ pc = "rename"
    /\ \/ /\ files' = IF Exists(files, i - 1) THEN Renamed(files, i - 1, i) ELSE files
          /\ pc' = IF i > 1 THEN "remove" ELSE "reopen"
          /\ i' = i - 1
          /\ UNCHANGED <<msg, trouble>>
       \/ Exists(files, i - 1) /\ Throw /\ UNCHANGED <<files, i>>
    /\ UNCHANGED <<fd, currentSize, flushed, calls, logged>>

Reopen ==
    /\ pc = "reopen"
    /\ \/ /\ files' = OpenedEmpty(files, 0)
          /\ fd' = TRUE
          /\ currentSize' = msg[1].size
          /\ pc' = "write"
          /\ UNCHANGED <<msg, trouble>>
       \/ Throw /\ UNCHANGED <<files, fd, currentSize>>
    /\ UNCHANGED <<flushed, i, calls, logged>>

Write ==
    /\ pc = "write"
    /\ \/ /\ files' = Written(files, 0, [number |-> msg[1].number,
                                       end |-> SizeOf(files[0]) + msg[1].size])
          /\ logged' = logged \union {msg[1].number}
          /\ pc' = "idle" /\ msg' = <<>>
          /\ UNCHANGED trouble
       \/ Throw /\ UNCHANGED <<files, logged>>
    /\ UNCHANGED <<fd, currentSize, flushed, i, calls>>

Flush ==
    /\ pc = "idle" /\ fd
    /\ flushed' = Len(files[0])
    /\ UNCHANGED <<files, fd, currentSize, pc, i, msg, calls, logged, trouble>>

(* What is in the buffer is lost, or part of it.                           *)
Crash ==
    /\ pc # "down"
    /\ trouble < MaxTrouble
    /\ trouble' = trouble + 1
    /\ IF fd
         THEN \E left \in flushed .. Len(files[0]) :
                 /\ files' = [files EXCEPT ![0] = SubSeq(@, 1, left)]
                 /\ logged' = logged \ Numbers(SubSeq(files[0], left + 1, Len(files[0])))
         ELSE UNCHANGED <<files, logged>>
    /\ fd' = FALSE
    /\ pc' = "down" /\ msg' = <<>>
    /\ UNCHANGED <<currentSize, flushed, i, calls>>

(* Seeded defect: the size of the file found is not asked for.             *)
RestartFromZero ==
    /\ pc = "down"
    /\ files' = OpenedToAppend(files, 0)
    /\ fd' = TRUE
    /\ currentSize' = 0
    /\ flushed' = Len(files'[0])
    /\ pc' = "idle"
    /\ UNCHANGED <<i, msg, calls, logged, trouble>>

(* Seeded defect: the constructor begins with an empty file.               *)
RestartEmptying ==
    /\ pc = "down"
    /\ files' = OpenedEmpty(files, 0)
    /\ fd' = TRUE
    /\ currentSize' = SizeOf(files'[0])
    /\ flushed' = Len(files'[0])
    /\ pc' = "idle"
    /\ UNCHANGED <<i, msg, calls, logged, trouble>>

(* The constructor goes on with the file it finds.                         *)
Restart ==
    /\ pc = "down"
    /\ files' = OpenedToAppend(files, 0)
    /\ fd' = TRUE
    /\ currentSize' = SizeOf(files'[0])
    /\ flushed' = Len(files'[0])
    /\ pc' = "idle"
    /\ UNCHANGED <<i, msg, calls, logged, trouble>>

Next == Log \/ RemoveTarget \/ Rename \/ Reopen \/ Write \/ Flush \/ Crash \/ Restart

Spec == Init /\ [][Next]_vars

-----------------------------------------------------------------------------
(* Type invariant.  Nothing is written to a file that is not open, nor     *)
(* held open while it is renamed.                                          *)
TypeOK ==
    /\ DOMAIN files \subseteq 0 .. MaxFiles
    /\ \A n \in DOMAIN files : files[n] \in Seq([number : 1 .. calls, end : Nat])
    /\ fd \in BOOLEAN
    /\ currentSize \in Nat
    /\ pc \in {"idle", "remove", "rename", "reopen", "write", "down"}
    /\ pc = "write" => fd
    /\ pc \in {"remove", "rename", "reopen", "down"} => ~fd
    /\ fd => Exists(files, 0) /\ flushed <= Len(files[0])
    /\ i \in 0 .. MaxFiles
    /\ msg \in Seq([number : 1 .. calls, size : Sizes])
    /\ Len(msg) = IF pc \in {"idle", "down"} THEN 0 ELSE 1
    /\ calls \in 0 .. MaxMessages
    /\ logged \subseteq 1 .. calls
    /\ trouble \in 0 .. MaxTrouble

(* No file outgrows _max_size, but for one message that is too large by    *)
(* itself, whatever failed and wherever the process was restarted.         *)
SizeBound ==
    \A n \in DOMAIN files : SizeOf(files[n]) <= MaxSize \/ Len(files[n]) <= 1

Kept == UNION {Numbers(files[n]) : n \in DOMAIN files}

(* What the files hold is the newest of what was written, in order from    *)
(* the oldest file to the newest and without a gap, in the middle of a     *)
(* rotation that failed or was cut short as well.                          *)
KeepsTheNewest ==
    /\ \A n, o \in DOMAIN files : \A j \in DOMAIN files[o], k \in DOMAIN files[n] :
          o > n \/ (o = n /\ j < k) => files[o][j].number < files[n][k].number
    /\ Kept \subseteq logged
    /\ \A lost \in logged \ Kept : \A m \in Kept : lost < m

(* "log.3.txt -> delete" (file_sinks.h:120): the only file whose contents  *)
(* go is the oldest one, whatever fails; the others stay or move up by     *)
(* one.  (A crash takes what was in the buffer.)                           *)
OnlyTheOldestIsDeleted ==
    [][\A n \in DOMAIN files : n < MaxFiles =>
          \E k \in {n, n + 1} \intersect DOMAIN files' :
              \/ IsPrefix(files[n], files'[k])
              \/ pc' = "down" /\ IsPrefix(files'[k], files[n])]_vars

(* As long as nothing fails a message is given up only when all the old    *)
(* files there may be are full.                                            *)
LossOnlyWhenFull ==
    (trouble = 0 /\ pc = "idle" /\ Kept # logged) => DOMAIN files = 0 .. MaxFiles
=============================================================================
