--------------------------- MODULE AsyncLogProofs ---------------------------
(***************************************************************************)
(* Proofs about AsyncLogHelper: for any clients, sinks, levels and sizes   *)
(* of the queue, under either overflow policy, messages are handed on in   *)
(* the order of their acceptance, each to the sinks that want it, the      *)
(* destructor leaves none behind, and one that asks for a flush gets it.   *)
(*                                                                         *)
(* Liveness is a matter of fairness and left to the runs.                  *)
(***************************************************************************)
EXTENDS AsyncLogHelper, SequenceTheorems, FiniteSetTheorems, TLAPS

-----------------------------------------------------------------------------
(* The inductive invariant.                                                *)

IsLog(x) == x.type = "log"

(* How many of the messages are with the worker.                           *)
InHand == IF worker = "handling" /\ IsLog(current[1]) THEN 1 ELSE 0

(* The messages not handed to the sinks yet are the one the worker has and *)
(* those in the queue, in the order of acceptance: n[i] of all accepted    *)
(* messages are through, with the worker, or in the first i places.        *)
Numbering(n) ==
    /\ n[0] = handled + InHand
    /\ n[Len(q)] = Len(accepted)
    /\ \A i \in 1 .. Len(q) :
          IF IsLog(q[i]) THEN n[i] = n[i - 1] + 1 /\ accepted[n[i]] = q[i].msg
                         ELSE n[i] = n[i - 1]

BacklogInv ==
    /\ \E n \in [0 .. Len(q) -> 0 .. Len(accepted)] : Numbering(n)
    /\ InHand = 1 => accepted[handled + 1] = current[1].msg

IsLast(x) == x.type = "terminate"

(* The last message is sent once, when nobody is in a call any more: it is *)
(* the last in the queue, then with the worker, and ends it.               *)
EndInv ==
    /\ owner = "running" =>
          /\ worker # "ended"
          /\ \A i \in 1 .. Len(q) : ~IsLast(q[i])
          /\ worker = "handling" => ~IsLast(current[1])
    /\ owner # "running" =>
          /\ \A c \in Clients : pc[c] = "idle"
          /\ \/ /\ worker # "ended"
                /\ q # <<>> /\ IsLast(q[Len(q)])
                /\ \A i \in 1 .. Len(q) - 1 : ~IsLast(q[i])
                /\ worker = "handling" => ~IsLast(current[1])
             \/ worker = "handling" /\ q = <<>> /\ IsLast(current[1])
             \/ worker = "ended" /\ q = <<>>
    /\ owner = "destroyed" => worker = "ended"
    /\ worker = "ended" => \A s \in Sinks \ MayFail : flushed[s] = Len(written[s])

(* After place i of the queue there is a request, which makes the worker   *)
(* flush, or a client is about to send one.                                *)
FlushAfter(i) ==
    \/ \E j \in i + 1 .. Len(q) : ~IsLog(q[j])
    \/ \E c \in Clients : pc[c] = "flush"

(* With the policy that waits for room: behind a message that asks for a   *)
(* flush, wherever it is, comes one.                                       *)
FlushInv ==
    BlockRetry =>
        /\ \A i \in 1 .. Len(q) : IsLog(q[i]) /\ should_flush_on(q[i].msg) => FlushAfter(i)
        /\ InHand = 1 /\ should_flush_on(current[1].msg) => FlushAfter(0)
        /\ \A s \in Sinks \ MayFail : \A k \in flushed[s] + 1 .. Len(written[s]) :
              should_flush_on(written[s][k]) =>
                  FlushAfter(0) \/ (worker = "handling" /\ ~IsLog(current[1]))

HelperInv == TypeOK /\ BacklogInv /\ EndInv /\ FlushInv

-----------------------------------------------------------------------------
(* Types.                                                                  *)

LEMMA QueueLength ==
    ASSUME HelperAssumption, TypeOK
    PROVE  /\ Len(q) \in Nat /\ Len(accepted) \in Nat /\ Len(q) <= MaxItems /\ MaxItems \in Nat
           /\ \A i \in 1 .. Len(q) : q[i] \in AsyncMsg
           /\ worker = "handling" => current[1] \in AsyncMsg
           /\ worker # "handling" => current = <<>>
           /\ \A s \in Sinks : Len(written[s]) \in Nat
<1>1. Len(q) \in Nat /\ Len(accepted) \in Nat
    BY LenProperties DEF TypeOK
<1>2. \A i \in 1 .. Len(q) : q[i] \in AsyncMsg
    BY ElementOfSeq DEF TypeOK
<1>3. worker = "handling" => current[1] \in AsyncMsg
  <2>1. worker = "handling" => 1 \in 1 .. Len(current)
      BY DEF TypeOK
  <2> QED BY <2>1, ElementOfSeq DEF TypeOK
<1>4. worker # "handling" => current = <<>>
    BY EmptySeq DEF TypeOK
<1>5. \A s \in Sinks : Len(written[s]) \in Nat
    BY LenProperties DEF TypeOK
<1> QED BY <1>1, <1>2, <1>3, <1>4, <1>5 DEF TypeOK, HelperAssumption

(* Either a message or a request.                                          *)
LEMMA MessageTypes ==
    /\ \A x \in AsyncMsg : IsLog(x) => x.msg \in Message /\ ~IsLast(x)
    /\ \A m \in Message : LogMsg(m) \in AsyncMsg /\ IsLog(LogMsg(m)) /\ LogMsg(m).msg = m
    /\ \A t \in {"flush", "terminate"} :
          Request(t) \in AsyncMsg /\ ~IsLog(Request(t)) /\ (IsLast(Request(t)) <=> t = "terminate")
  BY DEF AsyncMsg, IsLog, IsLast, LogMsg, Request

LEMMA TypeInit ==
    ASSUME HelperAssumption, Init
    PROVE  TypeOK
<1>1. \A S : <<>> \in Seq(S) /\ Len(<<>>) = 0
    BY EmptySeq
<1> QED BY <1>1 DEF HelperAssumption, Init, TypeOK

(* The queue after a message was put in, or not.                           *)
LEMMA EnqueueType ==
    ASSUME HelperAssumption, TypeOK, NEW x \in AsyncMsg, enqueue_msg(x)
    PROVE  q' \in Seq(AsyncMsg) /\ Len(q') <= MaxItems
<1>1. Append(q, x) \in Seq(AsyncMsg) /\ Len(Append(q, x)) = Len(q) + 1
    BY AppendProperties DEF TypeOK
<1>2. CASE Room /\ q' = Append(q, x)
    BY <1>1, <1>2, QueueLength DEF Room
<1>3. CASE UNCHANGED q
    BY <1>3 DEF TypeOK
<1> QED BY <1>2, <1>3 DEF enqueue_msg

(* What flushing does, for some sinks in vain.                             *)
LEMMA FlushType ==
    ASSUME HelperAssumption, TypeOK, written' \in [Sinks -> Seq(Message)],
           \A s \in Sinks : Len(written'[s]) >= Len(written[s]),
           FlushSinks \/ HandleFlushInterval
    PROVE  /\ flushed' \in [Sinks -> Nat] /\ \A s \in Sinks : flushed'[s] <= Len(written'[s])
           /\ elapsed' \in 0 .. FlushInterval
           /\ \A s \in Sinks \ MayFail : flushed'[s] = flushed[s] \/ flushed'[s] = Len(written'[s])
<1>1. \A s \in Sinks : Len(written'[s]) \in Nat /\ Len(written[s]) \in Nat
    BY LenProperties DEF TypeOK
<1>2. 0 \in 0 .. FlushInterval
    BY DEF HelperAssumption
<1>3. CASE FlushSinks
    BY <1>1, <1>2, <1>3 DEF FlushSinks, TypeOK
<1>4. CASE UNCHANGED <<flushed, elapsed>>
    BY <1>1, <1>4 DEF TypeOK
<1> QED BY <1>3, <1>4 DEF HandleFlushInterval

LEMMA WriteType ==
    ASSUME TypeOK, NEW m \in Message, NEW writing, WriteTo(writing, m)
    PROVE  /\ written' \in [Sinks -> Seq(Message)]
           /\ \A s \in Sinks : written'[s] = IF s \in writing THEN Append(written[s], m)
                                                             ELSE written[s]
           /\ \A s \in Sinks : Len(written'[s]) = IF s \in writing THEN Len(written[s]) + 1
                                                                  ELSE Len(written[s])
           /\ \A s \in Sinks : Len(written[s]) \in Nat
<1>1. \A s \in Sinks : /\ Append(written[s], m) \in Seq(Message)
                       /\ Len(Append(written[s], m)) = Len(written[s]) + 1
    BY AppendProperties DEF TypeOK
<1>2. \A s \in Sinks : Len(written[s]) \in Nat
    BY LenProperties DEF TypeOK
<1> QED BY <1>1, <1>2 DEF WriteTo, TypeOK

-----------------------------------------------------------------------------
(* The messages on their way.                                              *)

(* The next message is handed on: what is with the worker has a number.    *)
LEMMA NextIsAccepted ==
    ASSUME HelperAssumption, TypeOK, BacklogInv, InHand = 1
    PROVE  handled + 1 \in 1 .. Len(accepted) /\ accepted[handled + 1] = current[1].msg
<1>1. PICK n \in [0 .. Len(q) -> 0 .. Len(accepted)] : Numbering(n)
    BY DEF BacklogInv
<1>2. 0 \in 0 .. Len(q) /\ handled \in Nat
    BY QueueLength DEF TypeOK
<1>3. n[0] \in 0 .. Len(accepted) /\ n[0] = handled + 1
    BY <1>1, <1>2 DEF Numbering
<1> QED BY <1>2, <1>3, QueueLength DEF BacklogInv

(* Something is put into the queue, and accepted if it is a message.       *)
LEMMA BacklogAfterEnqueue ==
    ASSUME HelperAssumption, TypeOK, BacklogInv, NEW x \in AsyncMsg, q' = Append(q, x),
           accepted' = IF IsLog(x) THEN Append(accepted, x.msg) ELSE accepted,
           UNCHANGED <<worker, current, handled>>
    PROVE  BacklogInv'
<1>1. PICK n \in [0 .. Len(q) -> 0 .. Len(accepted)] : Numbering(n)
    BY DEF BacklogInv
<1> DEFINE len == Len(q)
<1> DEFINE all == Len(accepted)
<1>2. /\ len \in Nat /\ all \in Nat
      /\ Len(q') = len + 1
      /\ \A i \in 1 .. len : q'[i] = q[i]
      /\ q'[len + 1] = x
    BY QueueLength, AppendProperties DEF TypeOK
<1>3. /\ Len(accepted') = IF IsLog(x) THEN all + 1 ELSE all
      /\ \A i \in 1 .. all : accepted'[i] = accepted[i]
      /\ IsLog(x) => accepted'[all + 1] = x.msg
    BY MessageTypes, AppendProperties DEF TypeOK
<1>4. InHand' = InHand /\ InHand \in {0, 1}
    BY DEF InHand, IsLog
<1>5. PICK m : m = [i \in 0 .. len + 1 |-> IF i <= len THEN n[i] ELSE Len(accepted')]
    OBVIOUS
<1>6. \A i \in 0 .. len : n[i] \in 0 .. all /\ m[i] = n[i]
    BY <1>1, <1>2, <1>5
<1>7. m[len + 1] = Len(accepted')
    BY <1>2, <1>5
<1>8. m \in [0 .. Len(q') -> 0 .. Len(accepted')]
    BY <1>2, <1>3, <1>6, <1>7, <1>5
<1>9. Numbering(m)'
  <2>1. m[0] = handled' + InHand'
      BY <1>1, <1>2, <1>4, <1>6 DEF Numbering
  <2>2. m[Len(q')] = Len(accepted')
      BY <1>2, <1>7
  <2>3. ASSUME NEW i \in 1 .. Len(q')
        PROVE  IF IsLog(q'[i]) THEN m[i] = m[i - 1] + 1 /\ accepted'[m[i]] = q'[i].msg
                               ELSE m[i] = m[i - 1]
    <3>1. CASE i \in 1 .. len
      <4>1. i - 1 \in 0 .. len /\ m[i] = n[i] /\ m[i - 1] = n[i - 1] /\ q'[i] = q[i]
          BY <1>2, <1>6, <3>1
      <4>2. IF IsLog(q[i]) THEN n[i] = n[i - 1] + 1 /\ accepted[n[i]] = q[i].msg
                           ELSE n[i] = n[i - 1]
          BY <1>1, <3>1 DEF Numbering
      <4>3. n[i - 1] \in 0 .. all /\ n[i] \in 0 .. all
          BY <1>6, <3>1, <4>1
      <4>4. IsLog(q[i]) => n[i] \in 1 .. all
          BY <1>2, <4>2, <4>3
      <4> QED BY <1>3, <4>1, <4>2, <4>4
    <3>2. CASE i = len + 1
      <4>1. m[i] = Len(accepted') /\ m[i - 1] = n[len] /\ q'[i] = x /\ n[len] = all
          BY <1>1, <1>2, <1>6, <1>7, <3>2 DEF Numbering
      <4> QED BY <1>2, <1>3, <4>1
    <3>3. i \in 1 .. len \/ i = len + 1
        BY <1>2
    <3> QED BY <3>1, <3>2, <3>3
  <2> QED BY <2>1, <2>2, <2>3 DEF Numbering, IsLog
<1>10. InHand' = 1 => accepted'[handled' + 1] = current'[1].msg
    BY <1>3, <1>4, NextIsAccepted
<1> QED BY <1>8, <1>9, <1>10 DEF BacklogInv

(* The worker takes the first one out.                                     *)
LEMMA BacklogAfterDequeue ==
    ASSUME HelperAssumption, TypeOK, BacklogInv, Dequeue
    PROVE  BacklogInv'
<1>1. PICK n \in [0 .. Len(q) -> 0 .. Len(accepted)] : Numbering(n)
    BY DEF BacklogInv
<1> DEFINE len == Len(q)
<1> DEFINE all == Len(accepted)
<1>2. /\ len \in Nat \ {0} /\ all \in Nat /\ handled \in Nat
      /\ Len(q') = len - 1
      /\ \A i \in 1 .. len - 1 : q'[i] = q[i + 1]
    BY QueueLength, HeadTailProperties, EmptySeq DEF TypeOK, Dequeue
<1>3. /\ Head(q) = q[1] /\ current' = <<q[1]>> /\ current'[1] = q[1] /\ worker' = "handling"
      /\ UNCHANGED <<accepted, handled>>
    BY DEF Dequeue, history
<1>4. InHand = 0 /\ InHand' = IF IsLog(q[1]) THEN 1 ELSE 0
    BY <1>3 DEF Dequeue, InHand, IsLog
<1>5. PICK m : m = [i \in 0 .. len - 1 |-> n[i + 1]]
    OBVIOUS
<1>6. \A i \in 0 .. len - 1 : m[i] = n[i + 1] /\ n[i + 1] \in 0 .. all
    BY <1>1, <1>2, <1>5
<1>7. m \in [0 .. Len(q') -> 0 .. Len(accepted')]
    BY <1>2, <1>3, <1>6, <1>5
<1>8. /\ n[0] = handled
      /\ IF IsLog(q[1]) THEN n[1] = n[0] + 1 /\ accepted[n[1]] = q[1].msg ELSE n[1] = n[0]
    BY <1>1, <1>2, <1>4 DEF Numbering
<1>9. Numbering(m)'
  <2>1. m[0] = handled' + InHand'
      BY <1>2, <1>3, <1>4, <1>6, <1>8
  <2>2. m[Len(q')] = Len(accepted')
      BY <1>1, <1>2, <1>3, <1>6 DEF Numbering
  <2>3. ASSUME NEW i \in 1 .. Len(q')
        PROVE  IF IsLog(q'[i]) THEN m[i] = m[i - 1] + 1 /\ accepted'[m[i]] = q'[i].msg
                               ELSE m[i] = m[i - 1]
    <3>1. i + 1 \in 1 .. len /\ q'[i] = q[i + 1] /\ m[i] = n[i + 1] /\ m[i - 1] = n[i]
        BY <1>2, <1>6
    <3>2. IF IsLog(q[i + 1]) THEN n[i + 1] = n[(i + 1) - 1] + 1 /\ accepted[n[i + 1]] = q[i + 1].msg
                             ELSE n[i + 1] = n[(i + 1) - 1]
        BY <1>1, <3>1 DEF Numbering
    <3>3. (i + 1) - 1 = i
        BY <1>2
    <3> QED BY <1>3, <3>1, <3>2, <3>3
  <2> QED BY <2>1, <2>2, <2>3 DEF Numbering, IsLog
<1>10. InHand' = 1 => accepted'[handled' + 1] = current'[1].msg
    BY <1>2, <1>3, <1>4, <1>8
<1> QED BY <1>7, <1>9, <1>10 DEF BacklogInv

(* The worker is done with what it has.                                    *)
LEMMA BacklogAfterProcessing ==
    ASSUME HelperAssumption, TypeOK, BacklogInv, worker = "handling", worker' # "handling",
           UNCHANGED <<q, accepted>>, handled' = handled + InHand
    PROVE  BacklogInv'
<1>1. PICK n \in [0 .. Len(q) -> 0 .. Len(accepted)] : Numbering(n)
    BY DEF BacklogInv
<1>2. InHand' = 0 /\ InHand \in {0, 1} /\ handled \in Nat
    BY DEF InHand, IsLog, TypeOK
<1>3. Numbering(n)'
    BY <1>1, <1>2 DEF Numbering, IsLog
<1> QED BY <1>2, <1>3 DEF BacklogInv

LEMMA BacklogUnchanged ==
    ASSUME BacklogInv, UNCHANGED <<q, accepted, worker, current, handled>>
    PROVE  BacklogInv'
  BY DEF BacklogInv, Numbering, InHand, IsLog

-----------------------------------------------------------------------------
(* The steps.  Clients and destructor put something into the queue or go   *)
(* without, the worker takes something out and handles it.                 *)

(* What a client or the destructor does, as far as the others can see.     *)
Enqueues(x) ==
    /\ q' = Append(q, x)
    /\ accepted' = IF IsLog(x) THEN Append(accepted, x.msg) ELSE accepted
    /\ UNCHANGED <<worker, current, sinkVars, handled, unformatted>>

GoesWithout ==
    /\ ~BlockRetry
    /\ UNCHANGED <<q, accepted, worker, current, sinkVars, handled, unformatted>>

LEMMA LogCases ==
    ASSUME HelperAssumption, TypeOK, NEW c \in Clients, Log(c)
    PROVE  \E level \in Levels :
              LET m == [client |-> c, number |-> calls[c] + 1, level |-> level]
              IN  /\ m \in Message
                  /\ \/ Enqueues(LogMsg(m)) /\ UNCHANGED discarded /\ Room
                     \/ GoesWithout /\ discarded' = discarded \union {m}
                  /\ pc' = [pc EXCEPT ![c] = IF should_flush_on(m) THEN "flush" ELSE "idle"]
                  /\ owner = "running" /\ UNCHANGED owner /\ pc[c] = "idle"
                  /\ calls' = [calls EXCEPT ![c] = @ + 1] /\ calls[c] + 1 \in 1 .. MaxCalls
<1>1. /\ owner = "running" /\ pc[c] = "idle" /\ UNCHANGED owner
      /\ calls' = [calls EXCEPT ![c] = @ + 1] /\ calls[c] + 1 \in 1 .. MaxCalls
    BY DEF Log, CanCall, TypeOK, HelperAssumption
<1>2. PICK level \in Levels :
         LET m == [client |-> c, number |-> calls[c] + 1, level |-> level]
         IN  /\ enqueue_msg(LogMsg(m))
             /\ accepted' = IF Room THEN Append(accepted, m) ELSE accepted
             /\ discarded' = IF Room THEN discarded ELSE discarded \union {m}
             /\ pc' = [pc EXCEPT ![c] = IF should_flush_on(m) THEN "flush" ELSE "idle"]
    BY DEF Log
<1> DEFINE m == [client |-> c, number |-> calls[c] + 1, level |-> level]
<1>3. m \in Message
    BY <1>1 DEF Message
<1> HIDE DEF m
<1>4. IsLog(LogMsg(m)) /\ LogMsg(m).msg = m
    BY <1>3, MessageTypes
<1>5. UNCHANGED <<worker, current, sinkVars, handled, unformatted>>
    BY DEF Log
<1>6. \/ Enqueues(LogMsg(m)) /\ UNCHANGED discarded /\ Room
      \/ GoesWithout /\ discarded' = discarded \union {m}
  <2>1. /\ enqueue_msg(LogMsg(m))
        /\ accepted' = IF Room THEN Append(accepted, m) ELSE accepted
        /\ discarded' = IF Room THEN discarded ELSE discarded \union {m}
      BY <1>2 DEF m
  <2>2. CASE Room
    <3>1. q' = Append(q, LogMsg(m))
        BY <2>1, <2>2 DEF enqueue_msg
    <3>2. accepted' = IF IsLog(LogMsg(m)) THEN Append(accepted, LogMsg(m).msg) ELSE accepted
        BY <1>4, <2>1, <2>2
    <3> QED BY <1>5, <2>1, <2>2, <3>1, <3>2 DEF Enqueues
  <2>3. CASE ~Room
      BY <1>5, <2>1, <2>3 DEF enqueue_msg, GoesWithout
  <2> QED BY <2>2, <2>3
<1>7. pc' = [pc EXCEPT ![c] = IF should_flush_on(m) THEN "flush" ELSE "idle"]
    BY <1>2 DEF m
<1> QED BY <1>1, <1>3, <1>6, <1>7 DEF m

(* Requests of clients, and the last message.                              *)
LEMMA RequestCases ==
    ASSUME HelperAssumption, TypeOK
    PROVE  /\ \A c \in Clients : FlushOnLevel(c) =>
                 /\ (Enqueues(Request("flush")) /\ Room) \/ GoesWithout
                 /\ pc[c] = "flush" /\ pc' = [pc EXCEPT ![c] = "idle"]
                 /\ UNCHANGED <<calls, owner, discarded>>
           /\ \A c \in Clients : Flush(c) =>
                 /\ (Enqueues(Request("flush")) /\ Room) \/ GoesWithout
                 /\ owner = "running"
                 /\ calls' = [calls EXCEPT ![c] = @ + 1] /\ calls[c] + 1 \in 1 .. MaxCalls
                 /\ UNCHANGED <<pc, owner, discarded>>
           /\ Destroy =>
                 /\ Enqueues(Request("terminate")) /\ Room
                 /\ owner = "running" /\ owner' = "joining" /\ \A c \in Clients : pc[c] = "idle"
                 /\ UNCHANGED <<pc, calls, discarded>>
<1>1. \A t \in {"flush", "terminate"} : ~IsLog(Request(t))
    BY MessageTypes
<1>2. ASSUME NEW t \in {"flush", "terminate"}, enqueue_msg(Request(t)),
             UNCHANGED <<worker, current, sinkVars, history>>
      PROVE  (Enqueues(Request(t)) /\ Room) \/ GoesWithout
    BY <1>1, <1>2 DEF enqueue_msg, Enqueues, GoesWithout, history
<1>3. ASSUME NEW c \in Clients, FlushOnLevel(c)
      PROVE  /\ (Enqueues(Request("flush")) /\ Room) \/ GoesWithout
             /\ pc[c] = "flush" /\ pc' = [pc EXCEPT ![c] = "idle"]
             /\ UNCHANGED <<calls, owner, discarded>>
    BY <1>2, <1>3 DEF FlushOnLevel, history
<1>4. ASSUME NEW c \in Clients, Flush(c)
      PROVE  /\ (Enqueues(Request("flush")) /\ Room) \/ GoesWithout
             /\ owner = "running"
             /\ calls' = [calls EXCEPT ![c] = @ + 1] /\ calls[c] + 1 \in 1 .. MaxCalls
             /\ UNCHANGED <<pc, owner, discarded>>
  <2>1. calls[c] + 1 \in 1 .. MaxCalls
      BY <1>4 DEF Flush, CanCall, TypeOK, HelperAssumption
  <2> QED BY <1>2, <1>4, <2>1 DEF Flush, CanCall, history
<1>5. ASSUME Destroy
      PROVE  /\ Enqueues(Request("terminate")) /\ Room
             /\ owner = "running" /\ owner' = "joining" /\ \A c \in Clients : pc[c] = "idle"
             /\ UNCHANGED <<pc, calls, discarded>>
    BY <1>1, <1>5 DEF Destroy, Enqueues, history
<1> QED BY <1>3, <1>4, <1>5

(* What the worker does with the message it has.                           *)
LEMMA ProcessCases ==
    ASSUME HelperAssumption, TypeOK, ProcessLog \/ ProcessFlush \/ ProcessTerminate
    PROVE  /\ worker = "handling" /\ current' = <<>> /\ current[1] \in AsyncMsg
           /\ UNCHANGED <<q, calls, pc, owner, accepted, discarded>>
           /\ handled' = handled + InHand
           /\ written' \in [Sinks -> Seq(Message)]
           /\ \A s \in Sinks : Len(written'[s]) >= Len(written[s])
           /\ unformatted' \subseteq Message
           /\ UNCHANGED <<flushed, elapsed>> \/ FlushSinks \/ HandleFlushInterval
           /\ ProcessLog <=> IsLog(current[1])
           /\ ~IsLog(current[1]) => FlushSinks /\ UNCHANGED written
           /\ worker' = IF IsLast(current[1]) THEN "ended" ELSE "waiting"
<1>1. worker = "handling" /\ current[1] \in AsyncMsg /\ \A s \in Sinks : Len(written[s]) \in Nat
    BY QueueLength DEF ProcessLog, ProcessFlush, ProcessTerminate
<1>2. /\ ProcessLog => IsLog(current[1]) /\ ~IsLast(current[1])
      /\ ProcessFlush => ~IsLog(current[1]) /\ ~IsLast(current[1])
      /\ ProcessTerminate => ~IsLog(current[1]) /\ IsLast(current[1])
    BY DEF ProcessLog, ProcessFlush, ProcessTerminate, IsLog, IsLast
<1>3. CASE ProcessLog
  <2> DEFINE m == current[1].msg
  <2>1. m \in Message
      BY <1>1, <1>2, <1>3, MessageTypes
  <2>2. InHand = 1 /\ handled' = handled + 1
      BY <1>1, <1>2, <1>3 DEF InHand, ProcessLog
  <2>3. \/ /\ \E writing \in SUBSET Sinks : WriteTo(writing, m)
           /\ HandleFlushInterval /\ UNCHANGED unformatted
        \/ unformatted' = unformatted \union {m} /\ UNCHANGED sinkVars
      BY <1>3 DEF ProcessLog, Wanting
  <2>4. CASE /\ \E writing \in SUBSET Sinks : WriteTo(writing, m)
             /\ HandleFlushInterval /\ UNCHANGED unformatted
    <3>1. PICK writing \in SUBSET Sinks : WriteTo(writing, m)
        BY <2>4
    <3>2. /\ written' \in [Sinks -> Seq(Message)]
          /\ \A s \in Sinks : Len(written'[s]) >= Len(written[s])
        BY <2>1, <3>1, WriteType
    <3> QED BY <1>1, <1>2, <1>3, <2>2, <2>4, <3>2 DEF ProcessLog, TypeOK
  <2>5. CASE unformatted' = unformatted \union {m} /\ UNCHANGED sinkVars
      BY <1>1, <1>2, <1>3, <2>1, <2>2, <2>5 DEF ProcessLog, TypeOK, sinkVars
  <2> QED BY <2>3, <2>4, <2>5
<1>4. CASE ProcessFlush
  <2>1. InHand = 0 /\ handled \in Nat
      BY <1>1, <1>2, <1>4 DEF InHand, TypeOK
  <2> QED BY <1>1, <1>2, <1>4, <2>1 DEF ProcessFlush, TypeOK, history
<1>5. CASE ProcessTerminate
  <2>1. InHand = 0 /\ handled \in Nat
      BY <1>1, <1>2, <1>5 DEF InHand, TypeOK
  <2> QED BY <1>1, <1>2, <1>5, <2>1 DEF ProcessTerminate, TypeOK, history
<1> QED BY <1>3, <1>4, <1>5

(* Types are kept, given that the messages are in their order.             *)
LEMMA TypeAfterEnqueue ==
    ASSUME HelperAssumption, TypeOK, NEW x \in AsyncMsg, (Enqueues(x) /\ Room) \/ GoesWithout
    PROVE  /\ q' \in Seq(AsyncMsg) /\ Len(q') <= MaxItems
           /\ accepted' \in Seq(Message) /\ handled' \in 0 .. Len(accepted')
           /\ UNCHANGED <<worker, current, sinkVars, handled, unformatted>>
<1>1. CASE Enqueues(x) /\ Room
  <2>1. q' \in Seq(AsyncMsg) /\ Len(q') <= MaxItems
      BY <1>1, EnqueueType DEF Enqueues, enqueue_msg
  <2>2. /\ Len(accepted) \in Nat /\ handled \in 0 .. Len(accepted) /\ UNCHANGED handled
        /\ accepted \in Seq(Message)
      BY <1>1, QueueLength DEF TypeOK, Enqueues
  <2>3. IsLog(x) => Append(accepted, x.msg) \in Seq(Message)
                    /\ Len(Append(accepted, x.msg)) = Len(accepted) + 1
      BY <2>2, MessageTypes, AppendProperties
  <2>4. accepted' \in Seq(Message) /\ handled' \in 0 .. Len(accepted')
      BY <1>1, <2>2, <2>3 DEF Enqueues
  <2> QED BY <1>1, <2>1, <2>4 DEF Enqueues
<1>2. CASE GoesWithout
    BY <1>2 DEF GoesWithout, TypeOK
<1> QED BY <1>1, <1>2

LEMMA TypeStep ==
    ASSUME HelperAssumption, TypeOK, BacklogInv, [Next]_vars
    PROVE  TypeOK'
<1>1. ASSUME NEW c \in Clients, Log(c)
      PROVE  TypeOK'
  <2>1. PICK m \in Message :
           /\ \/ Enqueues(LogMsg(m)) /\ UNCHANGED discarded /\ Room
              \/ GoesWithout /\ discarded' = discarded \union {m}
           /\ pc' = [pc EXCEPT ![c] = IF should_flush_on(m) THEN "flush" ELSE "idle"]
           /\ owner = "running" /\ UNCHANGED owner
           /\ calls' = [calls EXCEPT ![c] = @ + 1] /\ calls[c] + 1 \in 1 .. MaxCalls
      BY <1>1, LogCases
  <2>2. LogMsg(m) \in AsyncMsg
      BY MessageTypes
  <2>3. /\ q' \in Seq(AsyncMsg) /\ Len(q') <= MaxItems
        /\ accepted' \in Seq(Message) /\ handled' \in 0 .. Len(accepted')
        /\ UNCHANGED <<worker, current, sinkVars, handled, unformatted>>
      BY <2>1, <2>2, TypeAfterEnqueue
  <2>4. pc' \in [Clients -> {"idle", "flush"}] /\ discarded' \subseteq Message
        /\ calls' \in [Clients -> 0 .. MaxCalls] /\ UNCHANGED owner
      BY <2>1 DEF TypeOK
  <2> QED BY <2>3, <2>4 DEF TypeOK, sinkVars
<1>2. ASSUME NEW c \in Clients, FlushOnLevel(c) \/ Flush(c)
      PROVE  TypeOK'
  <2>1. /\ (Enqueues(Request("flush")) /\ Room) \/ GoesWithout
        /\ UNCHANGED <<owner, discarded>>
        /\ pc' \in [Clients -> {"idle", "flush"}] /\ calls' \in [Clients -> 0 .. MaxCalls]
    <3>1. CASE FlushOnLevel(c)
        BY <3>1, RequestCases DEF TypeOK
    <3>2. CASE Flush(c)
      <4>1. /\ (Enqueues(Request("flush")) /\ Room) \/ GoesWithout
            /\ UNCHANGED <<pc, owner, discarded>>
            /\ calls' = [calls EXCEPT ![c] = @ + 1] /\ calls[c] + 1 \in 1 .. MaxCalls
          BY <3>2, RequestCases
      <4> QED BY <4>1 DEF TypeOK
    <3> QED BY <1>2, <3>1, <3>2
  <2>2. Request("flush") \in AsyncMsg
      BY MessageTypes
  <2>3. /\ q' \in Seq(AsyncMsg) /\ Len(q') <= MaxItems
        /\ accepted' \in Seq(Message) /\ handled' \in 0 .. Len(accepted')
        /\ UNCHANGED <<worker, current, sinkVars, handled, unformatted>>
      BY <2>1, <2>2, TypeAfterEnqueue
  <2> QED BY <2>1, <2>3 DEF TypeOK, sinkVars
<1>3. CASE Destroy
  <2>1. /\ Enqueues(Request("terminate")) /\ Room
        /\ owner' = "joining" /\ UNCHANGED <<pc, calls, discarded>>
      BY <1>3, RequestCases
  <2>2. Request("terminate") \in AsyncMsg
      BY MessageTypes
  <2>3. /\ q' \in Seq(AsyncMsg) /\ Len(q') <= MaxItems
        /\ accepted' \in Seq(Message) /\ handled' \in 0 .. Len(accepted')
        /\ UNCHANGED <<worker, current, sinkVars, handled, unformatted>>
      BY <2>1, <2>2, TypeAfterEnqueue
  <2> QED BY <2>1, <2>3 DEF TypeOK, sinkVars
<1>4. CASE Dequeue
  <2>1. q' \in Seq(AsyncMsg) /\ Len(q') <= MaxItems /\ Head(q) \in AsyncMsg
      BY <1>4, HeadTailProperties, QueueLength DEF Dequeue, TypeOK
  <2>2. <<Head(q)>> \in Seq(AsyncMsg) /\ Len(<<Head(q)>>) = 1
      BY <2>1
  <2> QED BY <1>4, <2>1, <2>2 DEF Dequeue, TypeOK, sinkVars, history
<1>5. CASE DequeueTimeOut
  <2>1. /\ written' \in [Sinks -> Seq(Message)]
        /\ \A s \in Sinks : Len(written'[s]) >= Len(written[s])
      BY <1>5, QueueLength DEF DequeueTimeOut, TypeOK
  <2>2. /\ flushed' \in [Sinks -> Nat] /\ \A s \in Sinks : flushed'[s] <= Len(written'[s])
        /\ elapsed' \in 0 .. FlushInterval
      BY <1>5, <2>1, FlushType DEF DequeueTimeOut
  <2> QED BY <1>5, <2>1, <2>2 DEF DequeueTimeOut, TypeOK, history
<1>6. CASE ProcessLog \/ ProcessFlush \/ ProcessTerminate
  <2>1. /\ worker = "handling" /\ current' = <<>>
        /\ UNCHANGED <<q, calls, pc, owner, accepted, discarded>>
        /\ handled' = handled + InHand
        /\ written' \in [Sinks -> Seq(Message)]
        /\ \A s \in Sinks : Len(written'[s]) >= Len(written[s])
        /\ unformatted' \subseteq Message
        /\ UNCHANGED <<flushed, elapsed>> \/ FlushSinks \/ HandleFlushInterval
        /\ worker' \in {"waiting", "ended"}
      BY <1>6, ProcessCases
  <2>2. /\ flushed' \in [Sinks -> Nat] /\ \A s \in Sinks : flushed'[s] <= Len(written'[s])
        /\ elapsed' \in 0 .. FlushInterval
    <3>1. CASE UNCHANGED <<flushed, elapsed>>
      <4>1. \A s \in Sinks : Len(written'[s]) \in Nat /\ Len(written[s]) \in Nat
          BY <2>1, LenProperties DEF TypeOK
      <4> QED BY <2>1, <3>1, <4>1 DEF TypeOK
    <3>2. CASE FlushSinks \/ HandleFlushInterval
        BY <2>1, <3>2, FlushType
    <3> QED BY <2>1, <3>1, <3>2
  <2>3. handled' \in 0 .. Len(accepted')
      BY <2>1, NextIsAccepted, QueueLength DEF InHand, TypeOK
  <2>4. current' \in Seq(AsyncMsg) /\ Len(current') = 0
      BY <2>1, EmptySeq
  <2> QED BY <2>1, <2>2, <2>3, <2>4 DEF TypeOK
<1>7. CASE Joined
    BY <1>7 DEF Joined, TypeOK, sinkVars, history
<1>8. CASE TimePasses
    BY <1>8 DEF TimePasses, TypeOK, history, HelperAssumption
<1>9. CASE UNCHANGED vars
    BY <1>9 DEF vars, TypeOK, sinkVars, history
<1> QED BY <1>1, <1>2, <1>3, <1>4, <1>5, <1>6, <1>7, <1>8, <1>9 DEF Next, Worker

LEMMA BacklogStep ==
    ASSUME HelperAssumption, TypeOK, BacklogInv, [Next]_vars
    PROVE  BacklogInv'
<1>1. ASSUME NEW x \in AsyncMsg, (Enqueues(x) /\ Room) \/ GoesWithout
      PROVE  BacklogInv'
    BY <1>1, BacklogAfterEnqueue, BacklogUnchanged DEF Enqueues, GoesWithout
<1>2. ASSUME NEW c \in Clients, Log(c)
      PROVE  BacklogInv'
  <2>1. PICK m \in Message : (Enqueues(LogMsg(m)) /\ Room) \/ GoesWithout
      BY <1>2, LogCases
  <2> QED BY <1>1, <2>1, MessageTypes
<1>3. ASSUME NEW c \in Clients, FlushOnLevel(c) \/ Flush(c)
      PROVE  BacklogInv'
  <2>1. (Enqueues(Request("flush")) /\ Room) \/ GoesWithout
      BY <1>3, RequestCases
  <2> QED BY <1>1, <2>1, MessageTypes
<1>4. CASE Destroy
  <2>1. Enqueues(Request("terminate")) /\ Room
      BY <1>4, RequestCases
  <2> QED BY <1>1, <2>1, MessageTypes
<1>5. CASE Dequeue
    BY <1>5, BacklogAfterDequeue
<1>6. CASE ProcessLog \/ ProcessFlush \/ ProcessTerminate
  <2>1. /\ worker = "handling" /\ worker' # "handling"
        /\ UNCHANGED <<q, accepted>> /\ handled' = handled + InHand
      BY <1>6, ProcessCases
  <2> QED BY <2>1, BacklogAfterProcessing
<1>7. CASE DequeueTimeOut \/ Joined \/ TimePasses \/ UNCHANGED vars
  <2>1. UNCHANGED <<q, accepted, worker, current, handled>>
      BY <1>7 DEF DequeueTimeOut, Joined, TimePasses, vars, history
  <2> QED BY <2>1, BacklogUnchanged
<1> QED BY <1>2, <1>3, <1>4, <1>5, <1>6, <1>7 DEF Next, Worker

-----------------------------------------------------------------------------
(* The end of the worker.                                                  *)

(* What the queue holds after something was put in.                        *)
LEMMA QueueAfterEnqueue ==
    ASSUME HelperAssumption, TypeOK, NEW x \in AsyncMsg, q' = Append(q, x)
    PROVE  /\ Len(q) \in Nat /\ Len(q') = Len(q) + 1 /\ q' # <<>>
           /\ \A i \in 1 .. Len(q) : q'[i] = q[i]
           /\ q'[Len(q')] = x
<1>1. q \in Seq(AsyncMsg)
    BY DEF TypeOK
<1> QED BY <1>1, AppendProperties, LenProperties

(* What the worker leaves when it takes one out.                           *)
LEMMA QueueAfterDequeue ==
    ASSUME HelperAssumption, TypeOK, Dequeue
    PROVE  /\ Len(q) \in Nat \ {0} /\ Len(q') = Len(q) - 1
           /\ \A i \in 1 .. Len(q) - 1 : q'[i] = q[i + 1]
           /\ q' = <<>> <=> Len(q) = 1
           /\ current'[1] = q[1] /\ worker = "waiting" /\ worker' = "handling"
           /\ UNCHANGED <<calls, pc, owner, sinkVars, history>>
<1>1. q \in Seq(AsyncMsg) /\ q # <<>> /\ q' = Tail(q)
    BY DEF TypeOK, Dequeue
<1>2. /\ Len(q) \in Nat \ {0} /\ Len(q') = Len(q) - 1 /\ q' \in Seq(AsyncMsg)
      /\ \A i \in 1 .. Len(q) - 1 : q'[i] = q[i + 1]
    BY <1>1, HeadTailProperties, EmptySeq
<1>3. q' = <<>> <=> Len(q') = 0
    BY <1>2, EmptySeq
<1>4. current'[1] = q[1]
    BY DEF Dequeue
<1> QED BY <1>2, <1>3, <1>4 DEF Dequeue

(* While there are clients, what they send is no last message.             *)
LEMMA EndAfterEnqueue ==
    ASSUME HelperAssumption, TypeOK, EndInv, owner = "running", UNCHANGED owner,
           NEW x \in AsyncMsg, ~IsLast(x), (Enqueues(x) /\ Room) \/ GoesWithout
    PROVE  EndInv'
<1>1. CASE Enqueues(x) /\ Room
  <2>1. UNCHANGED <<worker, current>>
      BY <1>1 DEF Enqueues
  <2>2. \A i \in 1 .. Len(q') : ~IsLast(q'[i])
    <3>1. q' = Append(q, x)
        BY <1>1 DEF Enqueues
    <3>2. \A i \in 1 .. Len(q') : i \in 1 .. Len(q) \/ i = Len(q')
        BY <3>1, QueueAfterEnqueue
    <3> QED BY <3>1, <3>2, QueueAfterEnqueue DEF EndInv
  <2> QED BY <2>1, <2>2 DEF EndInv, IsLast
<1>2. CASE GoesWithout
  <2>1. UNCHANGED <<q, worker, current>>
      BY <1>2 DEF GoesWithout
  <2> QED BY <2>1 DEF EndInv, IsLast
<1> QED BY <1>1, <1>2

LEMMA EndStep ==
    ASSUME HelperAssumption, TypeOK, EndInv, [Next]_vars
    PROVE  EndInv'
<1>1. ASSUME NEW c \in Clients, Log(c)
      PROVE  EndInv'
  <2>1. PICK m \in Message : /\ (Enqueues(LogMsg(m)) /\ Room) \/ GoesWithout
                             /\ owner = "running" /\ UNCHANGED owner
      BY <1>1, LogCases
  <2> QED BY <2>1, MessageTypes, EndAfterEnqueue
<1>2. ASSUME NEW c \in Clients, FlushOnLevel(c) \/ Flush(c)
      PROVE  EndInv'
  <2>1. (Enqueues(Request("flush")) /\ Room) \/ GoesWithout
      BY <1>2, RequestCases
  <2>2. owner = "running" /\ UNCHANGED owner
      BY <1>2, RequestCases DEF EndInv
  <2>3. Request("flush") \in AsyncMsg /\ ~IsLast(Request("flush"))
      BY MessageTypes
  <2> QED BY <2>1, <2>2, <2>3, EndAfterEnqueue
<1>3. CASE Destroy
  <2> DEFINE x == Request("terminate")
  <2>1. /\ q' = Append(q, x) /\ UNCHANGED <<worker, current, pc>>
        /\ owner = "running" /\ owner' = "joining" /\ \A c \in Clients : pc[c] = "idle"
      BY <1>3, RequestCases DEF Enqueues
  <2>2. x \in AsyncMsg /\ IsLast(x)
      BY MessageTypes
  <2> HIDE DEF x
  <2>3. /\ Len(q) \in Nat /\ Len(q') = Len(q) + 1 /\ q' # <<>>
        /\ \A i \in 1 .. Len(q) : q'[i] = q[i]
        /\ q'[Len(q')] = x
      BY <2>1, <2>2, QueueAfterEnqueue
  <2>4. IsLast(q'[Len(q')]) /\ \A i \in 1 .. Len(q') - 1 : ~IsLast(q'[i])
      BY <2>1, <2>2, <2>3 DEF EndInv
  <2>5. worker # "ended" /\ (worker = "handling" => ~IsLast(current[1]))
      BY <2>1 DEF EndInv
  <2> QED BY <2>1, <2>3, <2>4, <2>5 DEF EndInv, IsLast
<1>4. CASE Dequeue
  <2>1. /\ Len(q) \in Nat \ {0} /\ Len(q') = Len(q) - 1
        /\ \A i \in 1 .. Len(q) - 1 : q'[i] = q[i + 1]
        /\ q' = <<>> <=> Len(q) = 1
        /\ current'[1] = q[1] /\ worker = "waiting" /\ worker' = "handling"
        /\ UNCHANGED <<pc, owner>>
      BY <1>4, QueueAfterDequeue
  <2>2. CASE owner = "running"
    <3>1. ~IsLast(q[1]) /\ \A i \in 1 .. Len(q') : ~IsLast(q'[i])
        BY <2>1, <2>2 DEF EndInv
    <3> QED BY <2>1, <2>2, <3>1 DEF EndInv, IsLast
  <2>3. CASE owner # "running"
    <3>1. /\ q # <<>> /\ IsLast(q[Len(q)]) /\ \A i \in 1 .. Len(q) - 1 : ~IsLast(q[i])
          /\ \A c \in Clients : pc[c] = "idle"
          /\ owner # "destroyed"
      <4>1. q # <<>>
          BY <1>4 DEF Dequeue
      <4> QED BY <2>1, <2>3, <4>1 DEF EndInv
    <3>2. CASE Len(q) = 1
        BY <2>1, <2>3, <3>1, <3>2 DEF EndInv, IsLast
    <3>3. CASE Len(q) # 1
      <4>1. Len(q) - 1 \in 1 .. Len(q) - 1 /\ (Len(q) - 1) + 1 = Len(q) /\ 1 \in 1 .. Len(q) - 1
          BY <2>1, <3>3
      <4>2. q'[Len(q')] = q[Len(q)]
          BY <2>1, <4>1
      <4>3. ~IsLast(q[1])
          BY <3>1, <4>1
      <4>4. \A i \in 1 .. Len(q') - 1 : ~IsLast(q'[i])
        <5>1. \A i \in 1 .. Len(q') - 1 : i \in 1 .. Len(q) - 1 /\ i + 1 \in 1 .. Len(q) - 1
            BY <2>1
        <5> QED BY <2>1, <3>1, <5>1
      <4>5. IsLast(q'[Len(q')]) /\ q' # <<>> /\ ~IsLast(current'[1])
          BY <2>1, <3>1, <3>3, <4>2, <4>3
      <4> QED BY <2>1, <2>3, <3>1, <4>4, <4>5 DEF EndInv, IsLast
    <3> QED BY <3>2, <3>3
  <2> QED BY <2>2, <2>3
<1>5. CASE ProcessLog \/ ProcessFlush \/ ProcessTerminate
  <2>1. /\ worker = "handling"
        /\ UNCHANGED <<q, pc, owner>>
        /\ ~IsLog(current[1]) => FlushSinks /\ UNCHANGED written
        /\ worker' = IF IsLast(current[1]) THEN "ended" ELSE "waiting"
        /\ current[1] \in AsyncMsg
      BY <1>5, ProcessCases
  <2>2. CASE IsLast(current[1])
    <3>1. ~IsLog(current[1])
        BY <2>1, <2>2, MessageTypes
    <3>2. \A s \in Sinks \ MayFail : flushed'[s] = Len(written'[s])
        BY <2>1, <3>1 DEF FlushSinks
    <3>3. owner # "running" /\ q = <<>>
        BY <2>1, <2>2 DEF EndInv
    <3> QED BY <2>1, <2>2, <3>2, <3>3 DEF EndInv, IsLast
  <2>3. CASE ~IsLast(current[1])
      BY <2>1, <2>3 DEF EndInv, IsLast
  <2> QED BY <2>2, <2>3
<1>6. CASE DequeueTimeOut
    BY <1>6 DEF DequeueTimeOut, EndInv, IsLast
<1>7. CASE Joined
    BY <1>7 DEF Joined, EndInv, IsLast, sinkVars
<1>8. CASE TimePasses \/ UNCHANGED vars
    BY <1>8 DEF TimePasses, vars, sinkVars, EndInv, IsLast
<1> QED BY <1>1, <1>2, <1>3, <1>4, <1>5, <1>6, <1>7, <1>8 DEF Next, Worker

-----------------------------------------------------------------------------
(* Requests to flush.                                                      *)

(* With a request at its end, the queue owes nobody a flush.               *)
LEMMA FlushAfterRequest ==
    ASSUME HelperAssumption, TypeOK, NEW x \in AsyncMsg, ~IsLog(x), Enqueues(x)
    PROVE  FlushInv'
<1>1. q' = Append(q, x)
    BY DEF Enqueues
<1>2. /\ Len(q) \in Nat /\ Len(q') = Len(q) + 1
      /\ q'[Len(q')] = x
    BY <1>1, QueueAfterEnqueue
<1>3. \A i \in 0 .. Len(q) : FlushAfter(i)'
  <2> SUFFICES ASSUME NEW i \in 0 .. Len(q)
               PROVE  \E j \in i + 1 .. Len(q') : ~IsLog(q'[j])
      BY DEF FlushAfter, IsLog
  <2> QED BY <1>2
<1>4. \A i \in 1 .. Len(q') : IsLog(q'[i]) => i \in 0 .. Len(q)
    BY <1>2
<1>5. 0 \in 0 .. Len(q)
    BY <1>2
<1> QED BY <1>3, <1>4, <1>5 DEF FlushInv, IsLog

(* A client that logs is about to send a request, if its message asks for  *)
(* one.                                                                    *)
LEMMA FlushAfterLog ==
    ASSUME HelperAssumption, TypeOK, FlushInv, NEW m \in Message, Enqueues(LogMsg(m)),
           NEW c \in Clients, pc[c] = "idle",
           pc' = [pc EXCEPT ![c] = IF should_flush_on(m) THEN "flush" ELSE "idle"]
    PROVE  FlushInv'
<1> SUFFICES ASSUME BlockRetry PROVE FlushInv'
    BY DEF FlushInv
<1>1. q' = Append(q, LogMsg(m)) /\ UNCHANGED <<worker, current, written, flushed>>
    BY DEF Enqueues, sinkVars
<1>2. LogMsg(m) \in AsyncMsg /\ LogMsg(m).msg = m
    BY MessageTypes
<1>3. /\ Len(q) \in Nat /\ Len(q') = Len(q) + 1
      /\ \A i \in 1 .. Len(q) : q'[i] = q[i]
      /\ q'[Len(q')] = LogMsg(m)
    BY <1>1, <1>2, QueueAfterEnqueue
<1>4. \A d \in Clients : pc[d] = "flush" => pc'[d] = "flush"
    BY DEF TypeOK
<1>5. should_flush_on(m) => \E d \in Clients : pc'[d] = "flush"
    BY DEF TypeOK
<1>6. \A i \in 0 .. Len(q) : FlushAfter(i) => FlushAfter(i)'
  <2> SUFFICES ASSUME NEW i \in 0 .. Len(q), NEW j \in i + 1 .. Len(q), ~IsLog(q[j])
               PROVE  \E k \in i + 1 .. Len(q') : ~IsLog(q'[k])
      BY <1>4 DEF FlushAfter, IsLog
  <2>1. j \in i + 1 .. Len(q') /\ q'[j] = q[j]
      BY <1>3
  <2> QED BY <2>1
<1>7. ASSUME NEW i \in 1 .. Len(q'), IsLog(q'[i]), should_flush_on(q'[i].msg)
      PROVE  FlushAfter(i)'
  <2>1. CASE i \in 1 .. Len(q)
      BY <1>3, <1>6, <1>7, <2>1 DEF FlushInv
  <2>2. CASE i = Len(q')
      BY <1>2, <1>3, <1>5, <1>7, <2>2 DEF FlushAfter
  <2>3. i \in 1 .. Len(q) \/ i = Len(q')
      BY <1>3
  <2> QED BY <2>1, <2>2, <2>3
<1>8. 0 \in 0 .. Len(q)
    BY <1>3
<1>9. InHand' = InHand
    BY <1>1 DEF InHand, IsLog
<1>10. (InHand' = 1 /\ should_flush_on(current'[1].msg)) => FlushAfter(0)'
    BY <1>1, <1>6, <1>8, <1>9 DEF FlushInv
<1>11. ASSUME NEW s \in Sinks \ MayFail, NEW k \in flushed'[s] + 1 .. Len(written'[s]),
              should_flush_on(written'[s][k])
       PROVE  FlushAfter(0)' \/ (worker' = "handling" /\ ~IsLog(current'[1]))
    BY <1>1, <1>6, <1>8, <1>11 DEF FlushInv
<1> QED BY <1>7, <1>10, <1>11 DEF FlushInv, IsLog, should_flush_on

(* What is in the queue moves up, and a request that comes out is with the *)
(* worker.                                                                 *)
LEMMA FlushAfterDequeue ==
    ASSUME HelperAssumption, TypeOK, FlushInv, Dequeue
    PROVE  FlushInv'
<1> SUFFICES ASSUME BlockRetry PROVE FlushInv'
    BY DEF FlushInv
<1>1. /\ Len(q) \in Nat \ {0} /\ Len(q') = Len(q) - 1
      /\ \A i \in 1 .. Len(q) - 1 : q'[i] = q[i + 1]
      /\ current'[1] = q[1] /\ worker = "waiting" /\ worker' = "handling"
      /\ UNCHANGED <<pc, written, flushed>>
    BY QueueAfterDequeue DEF sinkVars
<1>2. \A i \in 1 .. Len(q) : FlushAfter(i) => FlushAfter(i - 1)'
  <2> SUFFICES ASSUME NEW i \in 1 .. Len(q), NEW j \in i + 1 .. Len(q), ~IsLog(q[j])
               PROVE  \E k \in (i - 1) + 1 .. Len(q') : ~IsLog(q'[k])
      BY <1>1 DEF FlushAfter, IsLog
  <2>1. j - 1 \in (i - 1) + 1 .. Len(q') /\ j - 1 \in 1 .. Len(q) - 1 /\ (j - 1) + 1 = j
      BY <1>1
  <2> QED BY <1>1, <2>1
<1>3. ASSUME NEW i \in 1 .. Len(q'), IsLog(q'[i]), should_flush_on(q'[i].msg)
      PROVE  FlushAfter(i)'
  <2>1. i + 1 \in 1 .. Len(q) /\ (i + 1) - 1 = i /\ q'[i] = q[i + 1]
      BY <1>1
  <2>2. FlushAfter(i + 1)
      BY <1>3, <2>1 DEF FlushInv
  <2>3. FlushAfter((i + 1) - 1)'
      BY <1>2, <2>1, <2>2
  <2> QED BY <2>1, <2>3
<1>4. 1 \in 1 .. Len(q) /\ 1 - 1 = 0
    BY <1>1
<1>5. (InHand' = 1 /\ should_flush_on(current'[1].msg)) => FlushAfter(0)'
  <2> SUFFICES ASSUME InHand' = 1, should_flush_on(current'[1].msg) PROVE FlushAfter(0)'
      OBVIOUS
  <2>1. IsLog(q[1]) /\ should_flush_on(q[1].msg)
      BY <1>1 DEF InHand, IsLog
  <2>2. FlushAfter(1)
      BY <1>4, <2>1 DEF FlushInv
  <2>3. FlushAfter(1 - 1)'
      BY <1>2, <1>4, <2>2
  <2> QED BY <1>4, <2>3
<1>6. FlushAfter(0) => FlushAfter(0)' \/ ~IsLog(q[1])
  <2> SUFFICES ASSUME NEW j \in 0 + 1 .. Len(q), ~IsLog(q[j]), j # 1
               PROVE  \E k \in 0 + 1 .. Len(q') : ~IsLog(q'[k])
      BY <1>1 DEF FlushAfter, IsLog
  <2>1. j - 1 \in 0 + 1 .. Len(q') /\ j - 1 \in 1 .. Len(q) - 1 /\ (j - 1) + 1 = j
      BY <1>1
  <2> QED BY <1>1, <2>1
<1>7. ASSUME NEW s \in Sinks \ MayFail, NEW k \in flushed'[s] + 1 .. Len(written'[s]),
             should_flush_on(written'[s][k])
      PROVE  FlushAfter(0)' \/ (worker' = "handling" /\ ~IsLog(current'[1]))
  <2>1. FlushAfter(0)
      BY <1>1, <1>7 DEF FlushInv
  <2> QED BY <1>1, <1>6, <2>1
<1> QED BY <1>3, <1>5, <1>7 DEF FlushInv, IsLog, should_flush_on

(* A sink has what it had before, and perhaps the message of now.          *)
LEMMA WrittenGrows ==
    ASSUME TypeOK, NEW m \in Message, NEW writing, WriteTo(writing, m), NEW s \in Sinks,
           NEW k \in 1 .. Len(written'[s])
    PROVE  \/ k \in 1 .. Len(written[s]) /\ written'[s][k] = written[s][k]
           \/ written'[s][k] = m
<1>1. /\ Len(written[s]) \in Nat
      /\ written'[s] = IF s \in writing THEN Append(written[s], m) ELSE written[s]
    BY WriteType
<1>2. /\ Len(Append(written[s], m)) = Len(written[s]) + 1
      /\ \A i \in 1 .. Len(written[s]) : Append(written[s], m)[i] = written[s][i]
      /\ Append(written[s], m)[Len(written[s]) + 1] = m
    BY AppendProperties DEF TypeOK
<1>3. CASE s \in writing
  <2>1. k \in 1 .. Len(written[s]) \/ k = Len(written[s]) + 1
      BY <1>1, <1>2, <1>3
  <2> QED BY <1>1, <1>2, <1>3, <2>1
<1>4. CASE s \notin writing
    BY <1>1, <1>4
<1> QED BY <1>3, <1>4

(* The worker goes on: what it has written for a sink that does not fail   *)
(* is flushed, or the request that follows it is still to come.            *)
LEMMA FlushAfterProcessing ==
    ASSUME HelperAssumption, TypeOK, FlushInv, ProcessLog \/ ProcessFlush \/ ProcessTerminate
    PROVE  FlushInv'
<1> SUFFICES ASSUME BlockRetry PROVE FlushInv'
    BY DEF FlushInv
<1>1. /\ worker = "handling" /\ worker' # "handling" /\ current[1] \in AsyncMsg
      /\ UNCHANGED <<q, pc>>
      /\ ProcessLog <=> IsLog(current[1])
      /\ ~IsLog(current[1]) => FlushSinks /\ UNCHANGED written
      /\ written' \in [Sinks -> Seq(Message)]
      /\ \A s \in Sinks : Len(written'[s]) >= Len(written[s])
    BY ProcessCases
<1>2. \A i : FlushAfter(i)' <=> FlushAfter(i)
    BY <1>1 DEF FlushAfter, IsLog
<1>3. \A i \in 1 .. Len(q') : IsLog(q'[i]) /\ should_flush_on(q'[i].msg) => FlushAfter(i)'
    BY <1>1, <1>2 DEF FlushInv
<1>4. InHand' = 0
    BY <1>1 DEF InHand
<1>5. ASSUME NEW s \in Sinks \ MayFail, NEW k \in flushed'[s] + 1 .. Len(written'[s]),
             should_flush_on(written'[s][k])
      PROVE  FlushAfter(0)'
  <2>1. CASE ~IsLog(current[1])
    <3>1. flushed'[s] = Len(written'[s])
        BY <1>1, <2>1 DEF FlushSinks
    <3>2. Len(written'[s]) \in Nat
        BY <1>1, LenProperties
    <3> QED BY <1>5, <3>1, <3>2
  <2>2. CASE IsLog(current[1])
    <3> DEFINE m == current[1].msg
    <3>1. m \in Message /\ InHand = 1
        BY <1>1, <2>2, MessageTypes DEF InHand
    <3>2. \/ HandleFlushInterval /\ \E writing \in SUBSET Sinks : WriteTo(writing, m)
          \/ UNCHANGED sinkVars
        BY <1>1, <2>2 DEF ProcessLog, Wanting
    <3>3. /\ Len(written[s]) \in Nat /\ Len(written'[s]) \in Nat
          /\ flushed[s] \in Nat /\ flushed'[s] \in Nat
          /\ flushed'[s] = flushed[s] \/ flushed'[s] = Len(written'[s])
      <4>1. Len(written[s]) \in Nat /\ Len(written'[s]) \in Nat /\ flushed[s] \in Nat
          BY <1>1, QueueLength, LenProperties DEF TypeOK
      <4>2. flushed'[s] = flushed[s] \/ flushed'[s] = Len(written'[s])
        <5>1. CASE HandleFlushInterval
            BY <1>1, <5>1, FlushType
        <5>2. CASE UNCHANGED sinkVars
            BY <5>2 DEF sinkVars
        <5> QED BY <3>2, <5>1, <5>2
      <4> QED BY <4>1, <4>2
    <3>4. flushed'[s] = flushed[s] /\ k \in 1 .. Len(written'[s])
        BY <1>5, <3>3
    <3>5. \/ k \in 1 .. Len(written[s]) /\ written'[s][k] = written[s][k]
          \/ written'[s][k] = m
      <4>1. CASE UNCHANGED sinkVars
          BY <3>4, <4>1 DEF sinkVars
      <4>2. ASSUME NEW writing \in SUBSET Sinks, WriteTo(writing, m)
            PROVE  \/ k \in 1 .. Len(written[s]) /\ written'[s][k] = written[s][k]
                   \/ written'[s][k] = m
          BY <3>1, <3>4, <4>2, WrittenGrows
      <4> QED BY <3>2, <4>1, <4>2
    <3>6. CASE k \in 1 .. Len(written[s]) /\ written'[s][k] = written[s][k]
      <4>1. k \in flushed[s] + 1 .. Len(written[s]) /\ should_flush_on(written[s][k])
          BY <1>5, <3>3, <3>4, <3>6
      <4>2. FlushAfter(0)
          BY <2>2, <4>1 DEF FlushInv
      <4> QED BY <1>2, <4>2
    <3>7. CASE written'[s][k] = m
      <4>1. should_flush_on(m)
          BY <1>5, <3>7
      <4>2. FlushAfter(0)
          BY <3>1, <4>1 DEF FlushInv
      <4> QED BY <1>2, <4>2
    <3> QED BY <3>5, <3>6, <3>7
  <2> QED BY <2>1, <2>2
<1> QED BY <1>3, <1>4, <1>5 DEF FlushInv, IsLog, should_flush_on

LEMMA FlushStep ==
    ASSUME HelperAssumption, TypeOK, EndInv, FlushInv, [Next]_vars
    PROVE  FlushInv'
<1>1. GoesWithout => FlushInv'
    BY DEF GoesWithout, FlushInv
<1>2. ASSUME NEW c \in Clients, Log(c)
      PROVE  FlushInv'
  <2>1. PICK m \in Message :
           /\ Enqueues(LogMsg(m)) \/ GoesWithout
           /\ pc' = [pc EXCEPT ![c] = IF should_flush_on(m) THEN "flush" ELSE "idle"]
           /\ pc[c] = "idle"
      BY <1>2, LogCases
  <2> QED BY <1>1, <2>1, FlushAfterLog
<1>3. ASSUME NEW c \in Clients, FlushOnLevel(c) \/ Flush(c)
      PROVE  FlushInv'
  <2>1. Enqueues(Request("flush")) \/ GoesWithout
      BY <1>3, RequestCases
  <2> QED BY <1>1, <2>1, MessageTypes, FlushAfterRequest
<1>4. CASE Destroy
  <2>1. Enqueues(Request("terminate"))
      BY <1>4, RequestCases
  <2> QED BY <2>1, MessageTypes, FlushAfterRequest
<1>5. CASE Dequeue
    BY <1>5, FlushAfterDequeue
<1>6. CASE ProcessLog \/ ProcessFlush \/ ProcessTerminate
    BY <1>6, FlushAfterProcessing
<1>7. CASE DequeueTimeOut
  <2>1. UNCHANGED <<q, pc, worker, current, written>> /\ HandleFlushInterval
      BY <1>7 DEF DequeueTimeOut
  <2>2. \A s \in Sinks \ MayFail : flushed'[s] = flushed[s] \/ flushed'[s] = Len(written'[s])
    <3>1. /\ written' \in [Sinks -> Seq(Message)]
          /\ \A s \in Sinks : Len(written'[s]) >= Len(written[s])
        BY <2>1, QueueLength DEF TypeOK
    <3> QED BY <2>1, <3>1, FlushType
  <2>3. \A i : FlushAfter(i)' <=> FlushAfter(i)
      BY <2>1 DEF FlushAfter, IsLog
  <2>4. ASSUME BlockRetry, NEW s \in Sinks \ MayFail,
               NEW k \in flushed'[s] + 1 .. Len(written'[s]), should_flush_on(written'[s][k])
        PROVE  FlushAfter(0)' \/ (worker' = "handling" /\ ~IsLog(current'[1]))
    <3>1. Len(written[s]) \in Nat
        BY QueueLength
    <3>2. k \in flushed[s] + 1 .. Len(written[s])
        BY <2>1, <2>2, <2>4, <3>1
    <3> QED BY <2>1, <2>3, <2>4, <3>2 DEF FlushInv
  <2>5. InHand' = InHand
      BY <2>1 DEF InHand, IsLog
  <2> QED BY <2>1, <2>3, <2>4, <2>5 DEF FlushInv, IsLog, should_flush_on
<1>8. CASE Joined \/ TimePasses \/ UNCHANGED vars
  <2>1. UNCHANGED <<q, pc, worker, current, written, flushed>>
      BY <1>8 DEF Joined, TimePasses, vars, sinkVars
  <2> QED BY <2>1 DEF FlushInv, FlushAfter, InHand, IsLog, should_flush_on
<1> QED BY <1>2, <1>3, <1>4, <1>5, <1>6, <1>7, <1>8 DEF Next, Worker

-----------------------------------------------------------------------------
(* What the sinks have.                                                    *)

(* A client numbers its messages, so that no two are the same; those the   *)
(* formatter threw on are among the ones handed on.                        *)
NumbersInv ==
    /\ \A i \in 1 .. Len(accepted) : accepted[i].number <= calls[accepted[i].client]
    /\ \A i, j \in 1 .. Len(accepted) : accepted[i] = accepted[j] => i = j
    /\ \A m \in unformatted : \E i \in 1 .. handled : accepted[i] = m

(* Messages a client has not made yet differ from those it has.            *)
LEMMA NumbersStep ==
    ASSUME HelperAssumption, TypeOK, BacklogInv, NumbersInv, [Next]_vars
    PROVE  NumbersInv'
<1> DEFINE all == Len(accepted)
<1>1. /\ all \in Nat /\ handled \in 0 .. all /\ accepted \in Seq(Message)
      /\ \A i \in 1 .. all : accepted[i] \in Message
      /\ calls \in [Clients -> 0 .. MaxCalls]
    BY QueueLength, ElementOfSeq DEF TypeOK
<1>2. ASSUME UNCHANGED <<accepted, handled, unformatted>>, calls' \in [Clients -> Nat],
             \A c \in Clients : calls'[c] >= calls[c]
      PROVE  NumbersInv'
  <2>1. ASSUME NEW i \in 1 .. all
        PROVE  accepted[i].number <= calls'[accepted[i].client]
    <3>1. /\ accepted[i].client \in Clients /\ accepted[i].number \in Nat
          /\ accepted[i].number <= calls[accepted[i].client]
        BY <1>1 DEF NumbersInv, Message
    <3>2. calls'[accepted[i].client] \in Nat /\ calls[accepted[i].client] \in Nat
        BY <1>1, <1>2, <3>1
    <3> QED BY <1>2, <3>1, <3>2
  <2> QED BY <1>2, <2>1 DEF NumbersInv
<1>3. ASSUME NEW c \in Clients, Log(c)
      PROVE  NumbersInv'
  <2>1. PICK level \in Levels :
           LET m == [client |-> c, number |-> calls[c] + 1, level |-> level]
           IN  /\ m \in Message
               /\ Enqueues(LogMsg(m)) \/ GoesWithout
               /\ calls' = [calls EXCEPT ![c] = @ + 1]
      BY <1>3, LogCases
  <2> DEFINE m == [client |-> c, number |-> calls[c] + 1, level |-> level]
  <2>2. /\ m \in Message /\ m.client = c /\ m.number = calls[c] + 1
        /\ Enqueues(LogMsg(m)) \/ GoesWithout
      BY <2>1
  <2> HIDE DEF m
  <2>3. /\ calls[c] \in Nat /\ calls'[c] = calls[c] + 1
        /\ \A d \in Clients \ {c} : calls'[d] = calls[d]
        /\ \A d \in Clients : calls[d] \in Nat /\ calls'[d] \in Nat /\ calls'[d] >= calls[d]
        /\ calls' \in [Clients -> Nat]
      BY <1>1, <2>1
  <2>4. CASE GoesWithout
      BY <1>2, <2>3, <2>4 DEF GoesWithout
  <2>5. CASE Enqueues(LogMsg(m))
    <3>1. /\ accepted' = Append(accepted, m) /\ UNCHANGED <<handled, unformatted>>
          /\ Len(accepted') = all + 1
          /\ \A i \in 1 .. all : accepted'[i] = accepted[i]
          /\ accepted'[all + 1] = m
        BY <1>1, <2>2, <2>5, MessageTypes, AppendProperties DEF Enqueues
    <3>2. \A i \in 1 .. all : /\ accepted[i] # m
                              /\ accepted[i].number <= calls'[accepted[i].client]
      <4> SUFFICES ASSUME NEW i \in 1 .. all
                   PROVE  /\ accepted[i] # m
                          /\ accepted[i].number <= calls'[accepted[i].client]
          OBVIOUS
      <4>1. /\ accepted[i].client \in Clients /\ accepted[i].number \in Nat
            /\ accepted[i].number <= calls[accepted[i].client]
          BY <1>1 DEF NumbersInv, Message
      <4> QED BY <2>2, <2>3, <4>1
    <3>3. \A i \in 1 .. all + 1 : i \in 1 .. all \/ i = all + 1
        BY <1>1
    <3>4. \A i \in 1 .. Len(accepted') : accepted'[i].number <= calls'[accepted'[i].client]
        BY <2>2, <2>3, <3>1, <3>2, <3>3
    <3>5. \A i, j \in 1 .. Len(accepted') : accepted'[i] = accepted'[j] => i = j
        BY <3>1, <3>2, <3>3 DEF NumbersInv
    <3>6. \A i \in 1 .. handled : i \in 1 .. all
        BY <1>1
    <3> QED BY <3>1, <3>4, <3>5, <3>6 DEF NumbersInv
  <2> QED BY <2>2, <2>4, <2>5
<1>4. ASSUME NEW c \in Clients, FlushOnLevel(c) \/ Flush(c)
      PROVE  NumbersInv'
  <2>1. /\ UNCHANGED <<accepted, handled, unformatted>>
        /\ UNCHANGED calls \/ calls' = [calls EXCEPT ![c] = @ + 1]
      BY <1>4 DEF FlushOnLevel, Flush, CanCall, history
  <2> QED BY <1>1, <1>2, <2>1
<1>5. CASE ProcessLog
  <2>1. /\ handled + 1 \in 1 .. all /\ accepted[handled + 1] = current[1].msg
        /\ handled' = handled + 1 /\ UNCHANGED <<accepted, calls>>
    <3>1. InHand = 1
        BY <1>5 DEF ProcessLog, InHand, IsLog
    <3> QED BY <1>5, <3>1, NextIsAccepted DEF ProcessLog
  <2>2. unformatted' \subseteq unformatted \union {accepted[handled + 1]}
      BY <1>5, <2>1 DEF ProcessLog
  <2>3. \A m \in unformatted' : \E i \in 1 .. handled + 1 : accepted[i] = m
    <3>1. 1 .. handled \subseteq 1 .. handled + 1 /\ handled + 1 \in 1 .. handled + 1
        BY <1>1
    <3> QED BY <2>2, <3>1 DEF NumbersInv
  <2> QED BY <2>1, <2>3 DEF NumbersInv
<1>6. CASE \/ Dequeue \/ DequeueTimeOut \/ ProcessFlush \/ ProcessTerminate
           \/ Destroy \/ Joined \/ TimePasses \/ UNCHANGED vars
  <2>1. UNCHANGED <<accepted, handled, unformatted, calls>>
      BY <1>6 DEF Dequeue, DequeueTimeOut, ProcessFlush, ProcessTerminate, Destroy, Joined,
                  TimePasses, vars, history
  <2> QED BY <1>1, <1>2, <2>1
<1> QED BY <1>3, <1>4, <1>5, <1>6 DEF Next, Worker

(* Places are counted one by one.                                          *)
LEMMA PlacesAreFinite ==
    ASSUME NEW s, NEW i \in Nat
    PROVE  IsFiniteSet(PlacesFor(s, i)) /\ Cardinality(PlacesFor(s, i)) \in 0 .. i
<1>1. IsFiniteSet(1 .. i) /\ Cardinality(1 .. i) = i
    BY FS_Interval
<1>2. PlacesFor(s, i) \subseteq 1 .. i
    BY DEF PlacesFor
<1>3. IsFiniteSet(PlacesFor(s, i)) /\ Cardinality(PlacesFor(s, i)) <= i
    BY <1>1, <1>2, FS_Subset
<1> QED BY <1>3, FS_CardinalityType

(* A step that hands on no message leaves what the sinks have.             *)
LEMMA ReceiptUnchanged ==
    ASSUME TypeOK, SinksGetTheirMessages, UNCHANGED <<written, handled, unformatted>>,
           \A i \in 1 .. Len(accepted) : accepted'[i] = accepted[i]
    PROVE  SinksGetTheirMessages'
<1>1. handled \in Nat /\ \A i \in 1 .. handled : accepted'[i] = accepted[i]
  <2>1. Len(accepted) \in Nat /\ handled \in 0 .. Len(accepted)
      BY LenProperties DEF TypeOK
  <2> QED BY <2>1
<1>2. ASSUME NEW s \in Sinks, NEW i \in 0 .. handled
      PROVE  PlacesFor(s, i)' = PlacesFor(s, i)
  <2>1. \A k \in 1 .. i : accepted'[k] = accepted[k]
      BY <1>1, <1>2
  <2> QED BY <2>1 DEF PlacesFor, should_log
<1> SUFFICES ASSUME NEW s \in Sinks \ MayFail
             PROVE  /\ Len(written[s]) = Cardinality(PlacesFor(s, handled)')
                    /\ \A i \in PlacesFor(s, handled)' :
                          written[s][Cardinality(PlacesFor(s, i)')] = accepted'[i]
    BY DEF SinksGetTheirMessages, PlacesFor, should_log
<1>3. PlacesFor(s, handled)' = PlacesFor(s, handled)
    BY <1>1, <1>2
<1>4. ASSUME NEW i \in PlacesFor(s, handled)
      PROVE  written[s][Cardinality(PlacesFor(s, i)')] = accepted'[i]
  <2>1. i \in 1 .. handled
      BY <1>4 DEF PlacesFor
  <2>2. PlacesFor(s, i)' = PlacesFor(s, i) /\ accepted'[i] = accepted[i]
      BY <1>1, <1>2, <2>1
  <2> QED BY <1>4, <2>2 DEF SinksGetTheirMessages
<1> QED BY <1>3, <1>4 DEF SinksGetTheirMessages

(* The next message is handed on: it comes behind what a sink has, unless  *)
(* the sink does not want it or the formatter throws.                      *)
LEMMA ReceiptAfterLog ==
    ASSUME HelperAssumption, TypeOK, BacklogInv, NumbersInv, SinksGetTheirMessages, ProcessLog
    PROVE  SinksGetTheirMessages'
<1>0. PICK h, m : h = handled /\ m = accepted[h + 1]
    OBVIOUS
<1> DEFINE next == h + 1
<1>1. /\ h = handled /\ h \in Nat /\ next \in 1 .. Len(accepted)
      /\ m = accepted[next] /\ m = current[1].msg
      /\ handled' = next /\ UNCHANGED accepted /\ m \in Message
  <2>1. InHand = 1
      BY DEF ProcessLog, InHand, IsLog
  <2>2. next \in 1 .. Len(accepted) /\ m = current[1].msg
      BY <1>0, <2>1, NextIsAccepted
  <2>3. m \in Message
      BY <1>0, <2>2, ElementOfSeq DEF TypeOK
  <2>4. handled \in Nat
      BY QueueLength DEF TypeOK
  <2> QED BY <1>0, <2>2, <2>3, <2>4 DEF ProcessLog
<1>2. /\ \A k \in 1 .. h : accepted[k] # m
      /\ m \notin unformatted
  <2>1. \A k \in 1 .. h : k \in 1 .. Len(accepted) /\ k # next
      BY <1>1
  <2> QED BY <1>1, <2>1 DEF NumbersInv
<1> SUFFICES ASSUME NEW s \in Sinks \ MayFail
             PROVE  /\ Len(written'[s]) = Cardinality(PlacesFor(s, next)')
                    /\ \A i \in PlacesFor(s, next)' :
                          written'[s][Cardinality(PlacesFor(s, i)')] = accepted[i]
    BY <1>1 DEF SinksGetTheirMessages, PlacesFor, should_log
<1> DEFINE gets == should_log(s, m) /\ m \notin unformatted'
<1>3. /\ unformatted' \subseteq unformatted \union {m}
      /\ written'[s] = IF gets THEN Append(written[s], m) ELSE written[s]
  <2>1. CASE unformatted' = unformatted \union {m} /\ UNCHANGED sinkVars
      BY <2>1 DEF sinkVars
  <2>2. CASE \E failing \in SUBSET MayFail : WriteTo(Wanting(m) \ failing, m) /\ UNCHANGED unformatted
    <3>1. PICK failing \in SUBSET MayFail : WriteTo(Wanting(m) \ failing, m)
        BY <2>2
    <3>2. s \in Wanting(m) \ failing <=> should_log(s, m)
        BY DEF Wanting
    <3> QED BY <1>2, <2>2, <3>1, <3>2 DEF WriteTo
  <2> QED BY <1>1, <2>1, <2>2 DEF ProcessLog
<1>4. ASSUME NEW i \in 0 .. h
      PROVE  PlacesFor(s, i)' = PlacesFor(s, i)
  <2>1. \A k \in 1 .. i : k \in 1 .. h
      BY <1>1
  <2>2. \A k \in 1 .. i : accepted[k] \in unformatted' <=> accepted[k] \in unformatted
    <3>1. unformatted \subseteq unformatted'
        BY DEF ProcessLog
    <3> QED BY <1>2, <1>3, <2>1, <3>1
  <2> QED BY <1>1, <2>2 DEF PlacesFor, should_log
<1>5. PlacesFor(s, next)' = IF gets THEN PlacesFor(s, h) \union {next}
                                     ELSE PlacesFor(s, h)
  <2>1. PlacesFor(s, h)' = PlacesFor(s, h)
      BY <1>1, <1>4
  <2>2. \A k \in 1 .. next : k \in 1 .. h \/ k = next
      BY <1>1
  <2>3. \A k \in 1 .. h : k \in 1 .. next
      BY <1>1
  <2>4. next \in 1 .. next
      BY <1>1
  <2> QED BY <1>1, <2>1, <2>2, <2>3, <2>4 DEF PlacesFor, should_log
<1>6. /\ Cardinality(PlacesFor(s, h)) \in Nat
      /\ Cardinality(PlacesFor(s, h) \union {next}) = Cardinality(PlacesFor(s, h)) + 1
  <2>1. IsFiniteSet(PlacesFor(s, h)) /\ Cardinality(PlacesFor(s, h)) \in Nat
      BY <1>1, PlacesAreFinite
  <2>2. next \notin PlacesFor(s, h)
      BY <1>1 DEF PlacesFor
  <2> QED BY <2>1, <2>2, FS_AddElement
<1>7. /\ Len(written[s]) = Cardinality(PlacesFor(s, h))
      /\ \A i \in PlacesFor(s, h) :
            written[s][Cardinality(PlacesFor(s, i))] = accepted[i]
    BY <1>1 DEF SinksGetTheirMessages
<1>8. /\ Len(Append(written[s], m)) = Len(written[s]) + 1
      /\ \A k \in 1 .. Len(written[s]) : Append(written[s], m)[k] = written[s][k]
      /\ Append(written[s], m)[Len(written[s]) + 1] = m
    BY <1>1, AppendProperties DEF TypeOK
<1>9. ASSUME NEW i \in PlacesFor(s, h)
      PROVE  written'[s][Cardinality(PlacesFor(s, i)')] = accepted[i]
  <2>1. i \in 1 .. h /\ PlacesFor(s, i)' = PlacesFor(s, i)
      BY <1>1, <1>4 DEF PlacesFor
  <2>2. Cardinality(PlacesFor(s, i)) \in 1 .. Len(written[s])
    <3>1. i \in PlacesFor(s, i) /\ PlacesFor(s, i) \subseteq PlacesFor(s, h)
        BY <1>1, <2>1 DEF PlacesFor
    <3>2. /\ IsFiniteSet(PlacesFor(s, h)) /\ IsFiniteSet(PlacesFor(s, i))
          /\ Cardinality(PlacesFor(s, i)) \in Nat
        BY <1>1, <2>1, PlacesAreFinite
    <3>3. Cardinality(PlacesFor(s, i)) <= Cardinality(PlacesFor(s, h))
        BY <3>1, <3>2, FS_Subset
    <3>4. Cardinality(PlacesFor(s, i)) # 0
        BY <3>1, <3>2, FS_EmptySet
    <3> QED BY <1>6, <1>7, <3>2, <3>3, <3>4
  <2> QED BY <1>3, <1>7, <1>8, <2>1, <2>2
<1>10. CASE ~gets
    BY <1>3, <1>5, <1>7, <1>9, <1>10
<1>11. CASE gets
  <2>1. Len(written'[s]) = Cardinality(PlacesFor(s, next)')
      BY <1>3, <1>5, <1>6, <1>7, <1>8, <1>11
  <2>2. written'[s][Cardinality(PlacesFor(s, next)')] = accepted[next]
      BY <1>1, <1>3, <1>5, <1>6, <1>7, <1>8, <1>11
  <2> QED BY <1>5, <1>9, <1>11, <2>1, <2>2
<1> QED BY <1>10, <1>11

LEMMA ReceiptStep ==
    ASSUME HelperAssumption, TypeOK, BacklogInv, NumbersInv, SinksGetTheirMessages, [Next]_vars
    PROVE  SinksGetTheirMessages'
<1>1. ASSUME NEW c \in Clients, Log(c)
      PROVE  SinksGetTheirMessages'
  <2>1. PICK m \in Message : Enqueues(LogMsg(m)) \/ GoesWithout
      BY <1>1, LogCases
  <2>2. CASE Enqueues(LogMsg(m))
    <3>1. accepted' = Append(accepted, m) /\ UNCHANGED <<written, handled, unformatted>>
        BY <2>2, MessageTypes DEF Enqueues, sinkVars
    <3>2. \A i \in 1 .. Len(accepted) : accepted'[i] = accepted[i]
        BY <3>1, AppendProperties DEF TypeOK
    <3> QED BY <3>1, <3>2, ReceiptUnchanged
  <2>3. CASE GoesWithout
      BY <2>3, ReceiptUnchanged DEF GoesWithout, sinkVars
  <2> QED BY <2>1, <2>2, <2>3
<1>2. CASE ProcessLog
    BY <1>2, ReceiptAfterLog
<1>3. CASE \/ \E c \in Clients : FlushOnLevel(c) \/ Flush(c)
           \/ Dequeue \/ DequeueTimeOut \/ ProcessFlush \/ ProcessTerminate
           \/ Destroy \/ Joined \/ TimePasses \/ UNCHANGED vars
  <2>1. UNCHANGED <<written, accepted, handled, unformatted>>
      BY <1>3 DEF FlushOnLevel, Flush, Dequeue, DequeueTimeOut, ProcessFlush, ProcessTerminate,
                  Destroy, Joined, TimePasses, vars, sinkVars, history
  <2> QED BY <2>1, ReceiptUnchanged
<1> QED BY <1>1, <1>2, <1>3 DEF Next, Worker

-----------------------------------------------------------------------------
(* The theorems.                                                           *)

(* The inductive invariant: types, the order of what is on its way, the    *)
(* last message, and the requests to flush.                                *)
THEOREM HelperInvariantHolds ==
    ASSUME HelperAssumption
    PROVE  Spec => []HelperInv
<1>1. Init => HelperInv
  <2> SUFFICES ASSUME Init PROVE HelperInv
      OBVIOUS
  <2>1. TypeOK
      BY TypeInit
  <2>2. /\ Len(q) = 0 /\ Len(accepted) = 0 /\ InHand = 0 /\ handled = 0
        /\ \A s \in Sinks : Len(written[s]) = 0 /\ flushed[s] = 0
      BY EmptySeq DEF Init, InHand
  <2>3. BacklogInv
    <3>1. PICK n : n = [i \in 0 .. 0 |-> 0]
        OBVIOUS
    <3>2. n \in [0 .. Len(q) -> 0 .. Len(accepted)] /\ Numbering(n)
        BY <2>2, <3>1 DEF Numbering
    <3> QED BY <2>2, <3>2 DEF BacklogInv
  <2>4. EndInv
      BY <2>2 DEF Init, EndInv
  <2>5. FlushInv
      BY <2>2 DEF Init, FlushInv
  <2> QED BY <2>1, <2>3, <2>4, <2>5 DEF HelperInv
<1>2. HelperInv /\ [Next]_vars => HelperInv'
    BY TypeStep, BacklogStep, EndStep, FlushStep DEF HelperInv
<1> QED BY <1>1, <1>2, PTL DEF Spec

(* When the worker has ended nothing is left.                              *)
LEMMA EndedIsDrained ==
    ASSUME HelperAssumption, HelperInv, worker = "ended"
    PROVE  /\ q = <<>> /\ handled = Len(accepted)
           /\ \A s \in Sinks \ MayFail : flushed[s] = Len(written[s])
<1>1. q = <<>> /\ \A s \in Sinks \ MayFail : flushed[s] = Len(written[s])
    BY DEF HelperInv, EndInv
<1>2. PICK n \in [0 .. Len(q) -> 0 .. Len(accepted)] : Numbering(n)
    BY DEF HelperInv, BacklogInv
<1>3. Len(q) = 0 /\ handled \in Nat
    BY <1>1, EmptySeq DEF HelperInv, TypeOK
<1>4. n[0] = handled
    BY <1>2, <1>3 DEF Numbering, InHand
<1> QED BY <1>1, <1>2, <1>3, <1>4 DEF Numbering

(* The destructor leaves no message in the queue, none with the worker and *)
(* none in a buffer, under either policy and however full the queue was.   *)
THEOREM DestructionLeavesNothing ==
    ASSUME HelperAssumption
    PROVE  Spec => []DestructionDrains
<1>1. HelperInv => DestructionDrains
    BY EndedIsDrained DEF HelperInv, EndInv, DestructionDrains
<1> QED BY <1>1, HelperInvariantHolds, PTL

(* When the worker has come to the end of the queue, every message that    *)
(* asked for a flush is out of the buffers of the sinks that do not fail,  *)
(* although the request is a message of its own and others come between.   *)
THEOREM GraveMessagesReachTheFiles ==
    ASSUME HelperAssumption
    PROVE  Spec => []GraveMessagesAreFlushed
<1>1. HelperInv => GraveMessagesAreFlushed
  <2> SUFFICES ASSUME HelperInv, BlockRetry, q = <<>>, current = <<>>,
                      \A c \in Clients : pc[c] = "idle",
                      NEW s \in Sinks \ MayFail, NEW i \in 1 .. Len(written[s]),
                      written[s][i].level \in FlushLevel .. Off - 1, ~(flushed[s] >= i)
               PROVE  FALSE
      BY DEF GraveMessagesAreFlushed
  <2>1. /\ Len(written[s]) \in Nat /\ flushed[s] \in Nat /\ Len(q) = 0
        /\ worker # "handling"
      BY QueueLength, EmptySeq DEF HelperInv, TypeOK
  <2>2. i \in flushed[s] + 1 .. Len(written[s])
      BY <2>1
  <2>3. should_flush_on(written[s][i])
      BY DEF should_flush_on, Off, HelperAssumption
  <2>4. FlushAfter(0)
      BY <2>1, <2>2, <2>3 DEF HelperInv, FlushInv
  <2> QED BY <2>1, <2>4 DEF FlushAfter
<1> QED BY <1>1, HelperInvariantHolds, PTL

(* A sink that does not fail has the messages of its level, in the order   *)
(* of their acceptance and each once: other sinks that throw, a queue that *)
(* is full and a formatter that throws cost it none but what it must miss. *)
THEOREM SinksHaveTheirMessages ==
    ASSUME HelperAssumption
    PROVE  Spec => []SinksGetTheirMessages
<1>1. Init => NumbersInv /\ SinksGetTheirMessages
  <2> SUFFICES ASSUME Init PROVE NumbersInv /\ SinksGetTheirMessages
      OBVIOUS
  <2>1. Len(accepted) = 0 /\ handled = 0 /\ unformatted = {}
      BY EmptySeq DEF Init
  <2>2. \A s \in Sinks : Len(written[s]) = 0
      BY EmptySeq DEF Init
  <2>3. NumbersInv
      BY <2>1 DEF NumbersInv
  <2>4. \A s \in Sinks : PlacesFor(s, handled) = {}
      BY <2>1 DEF PlacesFor
  <2>5. Cardinality({}) = 0
      BY FS_EmptySet
  <2>6. SinksGetTheirMessages
      BY <2>2, <2>4, <2>5 DEF SinksGetTheirMessages
  <2> QED BY <2>3, <2>6
<1>2. HelperInv /\ NumbersInv /\ SinksGetTheirMessages /\ [Next]_vars
         => NumbersInv' /\ SinksGetTheirMessages'
    BY NumbersStep, ReceiptStep DEF HelperInv
<1> QED BY <1>1, <1>2, HelperInvariantHolds, PTL DEF Spec

(* Step by step the logger does what AsyncLogging allows: a message that   *)
(* finds room is accepted, the worker hands on the next one, the joining   *)
(* of the worker closes, and every other step changes nothing there.       *)
THEOREM HelperImplementsLogging ==
    ASSUME HelperAssumption
    PROVE  Spec => Abstract!SafeSpec
<1>1. Init => Abstract!Init
    BY DEF Init, Abstract!Init
<1>2. ASSUME HelperInv, [Next]_vars
      PROVE  [Abstract!Next]_Abstract!vars
  <2> USE <1>2 DEF HelperInv
  <2> DEFINE Stutters == UNCHANGED <<accepted, handled, written>> /\
                         (owner' = "destroyed" <=> owner = "destroyed")
  <2>1. Stutters => UNCHANGED Abstract!vars
      BY DEF Abstract!vars
  <2>2. ASSUME NEW c \in Clients, Log(c)
        PROVE  Abstract!Accept \/ Stutters
    <3>1. PICK m \in Message :
             /\ Enqueues(LogMsg(m)) \/ GoesWithout
             /\ owner = "running" /\ UNCHANGED owner
        BY <2>2, LogCases
    <3>2. CASE Enqueues(LogMsg(m))
      <4>1. accepted' = Append(accepted, m)
          BY <3>2, MessageTypes DEF Enqueues
      <4> QED BY <3>1, <3>2, <4>1 DEF Enqueues, sinkVars, Abstract!Accept
    <3>3. CASE GoesWithout
        BY <3>1, <3>3 DEF GoesWithout, sinkVars
    <3> QED BY <3>1, <3>2, <3>3
  <2>3. ASSUME NEW c \in Clients, FlushOnLevel(c) \/ Flush(c)
        PROVE  Stutters
      BY <2>3 DEF FlushOnLevel, Flush, CanCall, sinkVars, history
  <2>4. ASSUME Dequeue \/ DequeueTimeOut \/ ProcessFlush \/ ProcessTerminate
        PROVE  Stutters
      BY <2>4 DEF Dequeue, DequeueTimeOut, ProcessFlush, ProcessTerminate, sinkVars, history
  <2>5. ASSUME Destroy \/ TimePasses \/ UNCHANGED vars
        PROVE  Stutters
      BY <2>5 DEF Destroy, TimePasses, vars, sinkVars, history
  <2>6. CASE Joined
    <3>1. handled = Len(accepted)
        BY <2>6, EndedIsDrained DEF Joined
    <3>2. (owner' = "destroyed") = TRUE
        BY <2>6 DEF Joined
    <3>3. UNCHANGED <<accepted, handled, written>>
        BY <2>6 DEF Joined, sinkVars, history
    <3>4. Abstract!Close
        BY <3>1, <3>2, <3>3 DEF Abstract!Close
    <3> QED BY <3>4 DEF Abstract!Next
  <2>7. CASE ProcessLog
    <3> DEFINE m == current[1].msg
    <3>1. InHand = 1
        BY <2>7 DEF ProcessLog, InHand, IsLog
    <3>2. handled + 1 \in 1 .. Len(accepted) /\ accepted[handled + 1] = m
        BY <3>1, NextIsAccepted
    <3>3. handled < Len(accepted) /\ handled' = handled + 1 /\ UNCHANGED <<accepted, owner>>
        BY <2>7, <3>2 DEF ProcessLog, TypeOK
    <3>4. \E writing \in SUBSET {s \in Sinks : should_log(s, m)} : WriteTo(writing, m)
      <4>1. CASE \E failing \in SUBSET MayFail : WriteTo(Wanting(m) \ failing, m)
          BY <4>1 DEF Wanting
      <4>2. CASE UNCHANGED sinkVars
        <5>1. WriteTo({}, m)
            BY <4>2 DEF WriteTo, TypeOK, sinkVars
        <5> QED BY <5>1
      <4> QED BY <2>7, <4>1, <4>2 DEF ProcessLog
    <3>5. (owner' = "destroyed") = (owner = "destroyed")
        BY <3>3
    <3>6. Abstract!Handle
        BY <3>2, <3>3, <3>4, <3>5 DEF WriteTo, Abstract!Handle
    <3> QED BY <3>6 DEF Abstract!Next
  <2> QED BY <2>1, <2>2, <2>3, <2>4, <2>5, <2>6, <2>7 DEF Next, Worker, Abstract!Next
<1> QED BY <1>1, <1>2, HelperInvariantHolds, PTL DEF Spec, Abstract!SafeSpec
=============================================================================
