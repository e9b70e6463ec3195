---------------------------- MODULE StepFileSink ----------------------------
(***************************************************************************)
(* The file sink that begins a new file after a number of seconds or when  *)
(* the old one is full. A file is written under a temporary name, made of  *)
(* the second it was begun in, and gets its final name when it is done;    *)
(* one with nothing but its header is deleted instead. Opening, writing to *)
(* and removing a file may fail, and the logger may be made anew at any    *)
(* time. Open files can be renamed and removed, as POSIX has it.           *)
(***************************************************************************)
EXTENDS FileSystem, Integers

CONSTANTS
    Step,       \* _step_seconds
    MaxSize,    \* _max_size, in messages; the header has size 0
    DeleteEmpty,\* _delete_empty_files
    MaxTime,    \* bound: the time, in seconds
    MaxMessages,\* bound: messages
    MaxTrouble  \* bound: failures

\* What the constants have to be.
StepAssumption ==
    /\ Step \in Nat \ {0} /\ MaxSize \in Nat \ {0}
    /\ DeleteEmpty \in BOOLEAN
    /\ MaxTime \in Nat /\ MaxMessages \in Nat /\ MaxTrouble \in Nat

VARIABLES
    now,
    files,      \* files by name: <<second, "tmp">> or <<second, "log">>
    tp,         \* _tp
    current,    \* the second in _current_filename
    currentSize,\* _current_size
    fd,         \* what _fd writes to: the name of the file, or <<>>
    pc,         \* "down", "idle", "log", "close", "open" or "write"
    newName,    \* new_filename, if the call needs one
    sent,       \* messages logged
    logged,     \* history: messages written,
    replaced,   \* and those in files another one took the name of
    trouble

fileVars == <<files, fd>>
sinkVars == <<tp, current, currentSize>>
histVars == <<sent, logged, replaced, trouble>>
vars == <<now, fileVars, sinkVars, pc, newName, histVars>>

Tmp(s) == <<s, "tmp">>
Final(s) == <<s, "log">>

NoName == -1

Init ==
    /\ now = 0
    /\ files = <<>>
    /\ tp = 0 /\ current = 0 /\ currentSize = 0
    /\ fd = <<>>
    /\ pc = "down"
    /\ newName = NoName
    /\ sent = 0 /\ logged = {} /\ replaced = {} /\ trouble = 0

Throw ==
    /\ trouble < MaxTrouble
    /\ trouble' = trouble + 1
    /\ pc' = "idle"

(* The constructor, for a file there is as well as for a new one.          *)
Construct ==
    /\ pc = "down"
    /\ tp' = now + Step
    /\ current' = now
    /\ files' = OpenedToAppend(files, Tmp(now))
    /\ currentSize' = Len(files'[Tmp(now)])
    /\ fd' = Tmp(now)
    /\ pc' = "idle"
    /\ UNCHANGED <<now, newName, histVars>>

(* Seeded defect: the limit is exceeded before anything is done.           *)
LogWhenOver ==
    /\ pc = "idle"
    /\ sent < MaxMessages
    /\ sent' = sent + 1
    /\ pc' = IF now >= tp \/ currentSize > MaxSize THEN "log" ELSE "write"
    /\ newName' = NoName
    /\ UNCHANGED <<now, fileVars, sinkVars, logged, replaced, trouble>>

Log ==
    /\ pc = "idle"
    /\ sent < MaxMessages
    /\ sent' = sent + 1
    /\ pc' = IF now >= tp \/ currentSize + 1 > MaxSize THEN "log" ELSE "write"
    /\ newName' = NoName
    /\ UNCHANGED <<now, fileVars, sinkVars, logged, replaced, trouble>>

(* Whether there is a file of the new name already decides if there is     *)
(* anything to be done but to set the time.                                *)
Look ==
    /\ pc = "log"
    /\ newName' = now
    /\ IF Exists(files, Tmp(now))
         THEN /\ tp' = now + Step
              /\ pc' = "write"
         ELSE /\ pc' = "close"
              /\ UNCHANGED tp
    /\ UNCHANGED <<now, fileVars, current, currentSize, histVars>>

Contents(n) == IF Exists(files, n) THEN ToSet(files[n]) ELSE {}

(* Seeded defect: a file with a single message is taken for empty.         *)
AlmostEmpty == DeleteEmpty /\ currentSize <= 1

Empty == DeleteEmpty /\ currentSize <= 0

(* close_current_file: an open file is renamed or removed.                 *)
CloseCurrentFile ==
    \/ /\ Empty
       /\ Exists(files, Tmp(current))
       /\ files' = Removed(files, Tmp(current))
       /\ UNCHANGED <<replaced, trouble>>
    \/ /\ ~Empty
       /\ Exists(files, Tmp(current))
       /\ files' = Renamed(files, Tmp(current), Final(current))
       /\ replaced' = replaced \union Contents(Final(current))
       /\ UNCHANGED trouble
    \/ /\ ~Empty
       /\ ~Exists(files, Tmp(current))
       /\ UNCHANGED <<files, replaced, trouble>>

(* Removing a file that is not there fails, and any call may.              *)
CloseFails ==
    /\ UNCHANGED <<files, replaced>>
    /\ \/ Throw
       \/ /\ Empty /\ ~Exists(files, Tmp(current))
          /\ pc' = "idle"
          /\ UNCHANGED trouble

Close ==
    /\ pc = "close"
    /\ \/ CloseCurrentFile /\ pc' = "open"
       \/ CloseFails
    /\ UNCHANGED <<now, fd, sinkVars, newName, sent, logged>>

(* Seeded defect: the time of the next step is set even if the file cannot *)
(* be opened.                                                              *)
OpenAfterStep ==
    /\ pc = "open"
    /\ current' = newName
    /\ tp' = now + Step
    /\ currentSize' = 0
    /\ \/ /\ files' = OpenedToAppend(files, Tmp(newName))
          /\ fd' = Tmp(newName)
          /\ pc' = "write"
          /\ UNCHANGED trouble
       \/ /\ fd' = <<>>
          /\ Throw
          /\ UNCHANGED files
    /\ UNCHANGED <<now, newName, sent, logged, replaced>>

Open ==
    /\ pc = "open"
    /\ current' = newName
    /\ \/ /\ files' = OpenedToAppend(files, Tmp(newName))
          /\ fd' = Tmp(newName)
          /\ tp' = now + Step
          /\ currentSize' = 0
          /\ pc' = "write"
          /\ UNCHANGED trouble
       \/ /\ fd' = <<>>
          /\ Throw
          /\ UNCHANGED <<files, tp, currentSize>>
    /\ UNCHANGED <<now, newName, sent, logged, replaced>>

Write ==
    /\ pc = "write"
    /\ fd # <<>>
    /\ currentSize' = currentSize + 1
    /\ \/ /\ files' = Written(files, fd, sent)
          /\ logged' = logged \union {sent}
          /\ pc' = "idle"
          /\ UNCHANGED trouble
       \/ Throw /\ UNCHANGED <<files, logged>>
    /\ UNCHANGED <<now, fd, tp, current, newName, sent, replaced>>

(* The destructor; what it throws it catches.                              *)
Destroy ==
    /\ pc = "idle"
    /\ \/ CloseCurrentFile
       \/ /\ UNCHANGED <<files, replaced>>
          /\ trouble < MaxTrouble /\ trouble' = trouble + 1
       \/ /\ Empty /\ ~Exists(files, Tmp(current))
          /\ UNCHANGED <<files, replaced, trouble>>
    /\ fd' = <<>>
    /\ pc' = "down"
    /\ UNCHANGED <<now, sinkVars, newName, sent, logged>>

TimePasses ==
    /\ now < MaxTime
    /\ now' = now + 1
    /\ UNCHANGED <<fileVars, sinkVars, pc, newName, histVars>>

Next ==
    \/ Construct \/ Log \/ Look \/ Close \/ Open \/ Write
    \/ Destroy \/ TimePasses

Spec == Init /\ [][Next]_vars

-----------------------------------------------------------------------------
(* Type invariant.  There is a file whenever something is to be written.   *)
TypeOK ==
    /\ now \in 0 .. MaxTime
    /\ tp \in 0 .. MaxTime + Step
    /\ current \in 0 .. now /\ newName \in NoName .. now
    /\ currentSize \in 0 .. MaxMessages
    /\ pc \in {"down", "idle", "log", "close", "open", "write"}
    /\ fd # <<>> /\ pc # "open" => Exists(files, fd)
    /\ pc = "write" => fd # <<>>
    /\ sent \in 0 .. MaxMessages
    /\ logged \subseteq 1 .. sent
    /\ replaced \subseteq logged
    /\ trouble \in 0 .. MaxTrouble

(* What was written is in some file, unless the logger was made anew in    *)
(* the same second, and its file took the name of the other: no file is    *)
(* deleted that is not empty, and no name is given twice.                  *)
NothingIsLost ==
    logged = replaced \union UNION {ToSet(files[n]) : n \in DOMAIN files}

(* What goes into a file that is full was logged in the second the file    *)
(* was begun in: the limit holds as soon as there is another name to be    *)
(* had.                                                                    *)
FixedFileSizePerSecond ==
    [][Write /\ currentSize >= MaxSize => newName = current]_vars
=============================================================================
