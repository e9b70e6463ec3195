----------------------------- MODULE QueueProofs -----------------------------
(***************************************************************************)
(* Proofs about BoundedQueue: for any threads, any number of places and    *)
(* any number of calls, what comes out is what went in, in order, and no   *)
(* wake-up is lost.  Liveness under fairness is left to the runs.          *)
(***************************************************************************)
EXTENDS BoundedQueue, FiniteSetTheorems, SequenceTheorems, TLAPS

-----------------------------------------------------------------------------
(* Threads that move from one state to another.                            *)

(* Those of S in the state a, in any assignment of states to threads.      *)
In(S, f, a) == {u \in S : f[u] = a}

(* One element more, and one less, in a subset of a finite set.            *)
LEMMA OneMore ==
    ASSUME NEW S, IsFiniteSet(S), NEW x \in S, NEW f, NEW g, NEW a,
           \A u \in S \ {x} : g[u] = f[u], f[x] # a, g[x] = a
    PROVE  Cardinality(In(S, g, a)) = Cardinality(In(S, f, a)) + 1
<1>1. IsFiniteSet(In(S, f, a))
    BY FS_Subset DEF In
<1>2. x \notin In(S, f, a) /\ In(S, g, a) = In(S, f, a) \union {x}
    BY DEF In
<1>3. Cardinality(In(S, f, a) \union {x}) = Cardinality(In(S, f, a)) + 1
    BY <1>1, <1>2, FS_AddElement
<1> QED BY <1>2, <1>3

(* A thread t of S moves, and no other one of S does: what this does to    *)
(* the number of threads in a state a.                                     *)
LEMMA CountsAfterMove ==
    ASSUME NEW S, IsFiniteSet(S), NEW t \in S, NEW a,
           \A u \in S \ {t} : pc'[u] = pc[u]
    PROVE  /\ pc[t] # a /\ pc'[t] = a =>
                 Cardinality(At(S, a)') = Cardinality(At(S, a)) + 1
           /\ pc[t] = a /\ pc'[t] # a =>
                 Cardinality(At(S, a)) = Cardinality(At(S, a)') + 1
           /\ (pc[t] = a <=> pc'[t] = a) => At(S, a)' = At(S, a)
<1>1. At(S, a) = In(S, pc, a) /\ At(S, a)' = In(S, pc', a)
    BY DEF At, In
<1>2. pc[t] # a /\ pc'[t] = a =>
          Cardinality(In(S, pc', a)) = Cardinality(In(S, pc, a)) + 1
    BY OneMore
<1>3. pc[t] = a /\ pc'[t] # a =>
          Cardinality(In(S, pc, a)) = Cardinality(In(S, pc', a)) + 1
    BY OneMore
<1>4. (pc[t] = a <=> pc'[t] = a) => In(S, pc', a) = In(S, pc, a)
    BY DEF In
<1> QED BY <1>1, <1>2, <1>3, <1>4

-----------------------------------------------------------------------------
(* Types.                                                                  *)

LEMMA TypeInit ==
    ASSUME QueueAssumption, Init
    PROVE  TypeOK
<1>1. <<>> \in Seq(Item) /\ Len(<<>>) = 0
    BY EmptySeq
<1> QED BY <1>1 DEF QueueAssumption, Init, TypeOK, State, Threads

(* What a thread does to the queue, whatever it did before and whichever   *)
(* call it is in: it puts an item in, takes one out, or leaves the queue   *)
(* alone.                                                                  *)
LEMMA PushKeepsType ==
    ASSUME QueueAssumption, TypeOK, HasRoom,
           NEW p \in Producers, NEW n \in 1 .. MaxCalls, Push(p, n)
    PROVE  /\ q' \in Seq(Item) /\ Len(q') <= MaxItems
           /\ pushed' \in Seq(Item) /\ popped' \in Seq(Item)
           /\ pc' = [pc EXCEPT ![p] = "notify"]
           /\ Len(q') = Len(q) + 1
<1>1. <<p, n>> \in Item
    BY DEF Item
<1>2. q' \in Seq(Item) /\ Len(q') = Len(q) + 1
    BY <1>1, AppendProperties DEF Push, TypeOK
<1>3. pushed' \in Seq(Item)
    BY <1>1, AppendProperties DEF Push, TypeOK
<1>4. Len(q) \in Nat /\ Len(q) < MaxItems
    BY LenProperties DEF TypeOK, HasRoom
<1> QED BY <1>2, <1>3, <1>4 DEF Push, Goto, TypeOK, QueueAssumption

LEMMA PopKeepsType ==
    ASSUME QueueAssumption, TypeOK, HasItems, NEW c \in Consumers, Pop(c)
    PROVE  /\ q' \in Seq(Item) /\ Len(q') <= MaxItems
           /\ pushed' \in Seq(Item) /\ popped' \in Seq(Item)
           /\ pc' = [pc EXCEPT ![c] = "notify"]
           /\ Len(q) = Len(q') + 1
<1>1. Head(q) \in Item /\ q' \in Seq(Item) /\ Len(q') = Len(q) - 1
    BY HeadTailProperties DEF TypeOK, HasItems, Pop
<1>2. popped' \in Seq(Item)
    BY <1>1, AppendProperties DEF Pop, TypeOK
<1>3. Len(q) \in Nat
    BY LenProperties DEF TypeOK
<1> QED BY <1>1, <1>2, <1>3 DEF Pop, Goto, TypeOK, QueueAssumption

LEMMA TypeStep ==
    ASSUME QueueAssumption, TypeOK, [Next]_vars
    PROVE  TypeOK'
<1> USE DEF QueueAssumption
<1>0. Len(q) \in Nat
    BY LenProperties DEF TypeOK
<1>1. ASSUME NEW p \in Producers, Enqueue(p)
      PROVE  TypeOK'
  <2>1. calls[p] + 1 \in 1 .. MaxCalls /\ calls' \in [Producers -> 0 .. MaxCalls]
      BY <1>1 DEF Enqueue, TypeOK
  <2>2. calls'[p] > 0 /\ \A u \in Producers \ {p} : calls'[u] = calls[u]
      BY <1>1, <2>1 DEF Enqueue, TypeOK
  <2>3. CASE HasRoom /\ Push(p, calls[p] + 1)
      BY <1>1, <2>1, <2>2, <2>3, PushKeepsType DEF Enqueue, TypeOK, State, Threads
  <2>4. CASE ~HasRoom /\ Goto(p, "waiting") /\ UNCHANGED <<q, pushed, popped>>
      BY <1>1, <2>1, <2>2, <2>4 DEF Enqueue, Goto, TypeOK, State, Threads
  <2> QED BY <1>1, <2>3, <2>4 DEF Enqueue
<1>2. ASSUME NEW p \in Producers, EnqueueNowait(p)
      PROVE  TypeOK'
  <2>1. calls[p] + 1 \in 1 .. MaxCalls /\ calls' \in [Producers -> 0 .. MaxCalls]
      BY <1>2 DEF EnqueueNowait, TypeOK
  <2>2. calls'[p] > 0 /\ \A u \in Producers \ {p} : calls'[u] = calls[u]
      BY <1>2, <2>1 DEF EnqueueNowait, TypeOK
  <2>3. CASE Len(q) # MaxItems /\ Push(p, calls[p] + 1) /\ UNCHANGED refused
    <3>1. HasRoom
        BY <1>0, <2>3 DEF HasRoom, TypeOK
    <3> QED BY <1>2, <2>1, <2>2, <2>3, <3>1, PushKeepsType
            DEF EnqueueNowait, TypeOK, State, Threads
  <2>4. CASE UNCHANGED <<q, pc, pushed, popped>> /\ refused' = refused + 1
      BY <1>2, <2>1, <2>2, <2>4 DEF EnqueueNowait, TypeOK
  <2> QED BY <1>2, <2>3, <2>4 DEF EnqueueNowait
<1>3. ASSUME NEW p \in Producers, EnqueueAgain(p)
      PROVE  TypeOK'
  <2>1. calls[p] \in 1 .. MaxCalls /\ UNCHANGED <<calls, refused>>
      BY <1>3 DEF EnqueueAgain, TypeOK
  <2>2. CASE HasRoom /\ Push(p, calls[p])
      BY <2>1, <2>2, PushKeepsType DEF TypeOK, State, Threads
  <2>3. CASE ~HasRoom /\ Goto(p, "waiting") /\ UNCHANGED <<q, pushed, popped>>
      BY <2>1, <2>3 DEF Goto, TypeOK, State, Threads
  <2> QED BY <1>3, <2>2, <2>3 DEF EnqueueAgain
<1>4. ASSUME NEW c \in Consumers, DequeueFor(c)
      PROVE  TypeOK'
  <2>1. CASE HasItems /\ Pop(c)
      BY <1>4, <2>1, PopKeepsType DEF DequeueFor, TypeOK, State, Threads
  <2>2. CASE ~HasItems /\ Goto(c, "waiting") /\ UNCHANGED <<q, pushed, popped>>
      BY <1>4, <2>2 DEF DequeueFor, Goto, TypeOK, State, Threads
  <2> QED BY <1>4, <2>1, <2>2 DEF DequeueFor
<1>5. ASSUME NEW c \in Consumers, DequeueAfterTimeOut(c)
      PROVE  TypeOK'
  <2>1. CASE HasItems /\ Pop(c)
      BY <1>5, <2>1, PopKeepsType DEF DequeueAfterTimeOut, TypeOK, State, Threads
  <2>2. CASE ~HasItems /\ Goto(c, "idle") /\ UNCHANGED <<q, pushed, popped>>
      BY <1>5, <2>2 DEF DequeueAfterTimeOut, Goto, TypeOK, State, Threads
  <2> QED BY <1>5, <2>1, <2>2 DEF DequeueAfterTimeOut
<1>6. ASSUME NEW c \in Consumers, TimeOut(c)
      PROVE  TypeOK'
    BY <1>6 DEF TimeOut, Goto, TypeOK, State, Threads
<1>7. ASSUME NEW t \in Threads, NotifyOne(t)
      PROVE  TypeOK'
  <2>1. Notified(t) \subseteq Threads /\ \A w \in Notified(t) : pc[w] = "waiting"
      BY DEF Notified, At, Threads
  <2>2. CASE Goto(t, "idle")
      BY <1>7, <2>2 DEF NotifyOne, Goto, TypeOK, State, Threads
  <2>3. ASSUME NEW w \in Notified(t), pc' = [pc EXCEPT ![t] = "idle", ![w] = "woken"]
        PROVE  TypeOK'
      BY <1>7, <2>1, <2>3 DEF NotifyOne, TypeOK, State, Threads
  <2> QED BY <1>7, <2>2, <2>3 DEF NotifyOne
<1>8. ASSUME NEW t \in Threads, SpuriousWakeUp(t)
      PROVE  TypeOK'
    BY <1>8 DEF SpuriousWakeUp, Goto, TypeOK, State, Threads
<1>9. CASE UNCHANGED vars
    BY <1>9 DEF vars, TypeOK
<1> QED BY <1>1, <1>2, <1>3, <1>4, <1>5, <1>6, <1>7, <1>8, <1>9
        DEF Next, ProducerStep, ConsumerStep, Threads

-----------------------------------------------------------------------------
(* What comes out is what went in.                                         *)

LEMMA MoveHead ==
    ASSUME NEW S, NEW s \in Seq(S), NEW t \in Seq(S), t # <<>>
    PROVE  Append(s, Head(t)) \o Tail(t) = s \o t
<1>1. Head(t) \in S /\ Tail(t) \in Seq(S) /\ <<Head(t)>> \in Seq(S)
    BY HeadTailProperties
<1>2. Append(s, Head(t)) = s \o <<Head(t)>>
    BY <1>1, AppendIsConcat
<1>3. Append(s, Head(t)) \o Tail(t) = s \o (<<Head(t)>> \o Tail(t))
    BY <1>1, <1>2, ConcatAssociative
<1>4. <<Head(t)>> \o Tail(t) = t
  <2>1. /\ Len(Tail(t)) = Len(t) - 1 /\ Len(t) \in Nat
        /\ \A i \in 1 .. Len(Tail(t)) : Tail(t)[i] = t[i + 1]
      BY HeadTailProperties, LenProperties
  <2>2. /\ <<Head(t)>> \o Tail(t) \in Seq(S)
        /\ Len(<<Head(t)>> \o Tail(t)) = 1 + Len(Tail(t))
        /\ \A i \in 1 .. 1 + Len(Tail(t)) :
              (<<Head(t)>> \o Tail(t))[i] = IF i <= 1 THEN <<Head(t)>>[i] ELSE Tail(t)[i - 1]
      BY <1>1, ConcatProperties
  <2>3. Len(<<Head(t)>> \o Tail(t)) = Len(t)
      BY <2>1, <2>2
  <2>4. ASSUME NEW i \in 1 .. Len(<<Head(t)>> \o Tail(t))
        PROVE  (<<Head(t)>> \o Tail(t))[i] = t[i]
    <3>1. CASE i = 1
        BY <2>2, <2>3, <3>1
    <3>2. CASE i # 1
        BY <2>1, <2>2, <2>3, <3>2
    <3> QED BY <3>1, <3>2
  <2> QED BY <2>2, <2>3, <2>4, SeqEqual
<1> QED BY <1>3, <1>4

(* What a step does to the sequences: an item goes in, one comes out, or   *)
(* nothing moves.                                                          *)
LEMMA QueueCases ==
    ASSUME QueueAssumption, TypeOK, [Next]_vars
    PROVE  \/ \E p \in Producers, n \in 1 .. MaxCalls : HasRoom /\ Push(p, n)
           \/ \E c \in Consumers : HasItems /\ Pop(c)
           \/ UNCHANGED <<q, pushed, popped>>
<1> USE DEF QueueAssumption
<1>1. Len(q) \in Nat /\ Len(q) <= MaxItems
    BY LenProperties DEF TypeOK
<1>2. ASSUME NEW p \in Producers, ProducerStep(p)
      PROVE  \/ \E n \in 1 .. MaxCalls : HasRoom /\ Push(p, n)
             \/ UNCHANGED <<q, pushed, popped>>
  <2>1. calls[p] \in 0 .. MaxCalls /\ (pc[p] = "woken" => calls[p] \in 1 .. MaxCalls)
      BY DEF TypeOK
  <2>2. Len(q) # MaxItems => HasRoom
      BY <1>1 DEF HasRoom
  <2>3. CASE Enqueue(p)
      BY <2>1, <2>3 DEF Enqueue
  <2>4. CASE EnqueueNowait(p)
      BY <2>1, <2>2, <2>4 DEF EnqueueNowait
  <2>5. CASE EnqueueAgain(p)
      BY <2>1, <2>5 DEF EnqueueAgain
  <2>6. CASE NotifyOne(p)
      BY <2>6 DEF NotifyOne
  <2> QED BY <1>2, <2>3, <2>4, <2>5, <2>6 DEF ProducerStep
<1>3. ASSUME NEW c \in Consumers, ConsumerStep(c) \/ TimeOut(c)
      PROVE  (HasItems /\ Pop(c)) \/ UNCHANGED <<q, pushed, popped>>
    BY <1>3 DEF ConsumerStep, DequeueFor, DequeueAfterTimeOut, NotifyOne, TimeOut
<1>4. ASSUME NEW t \in Threads, SpuriousWakeUp(t)
      PROVE  UNCHANGED <<q, pushed, popped>>
    BY <1>4 DEF SpuriousWakeUp
<1> QED BY <1>2, <1>3, <1>4 DEF Next, vars

LEMMA OrderAfterAppend ==
    ASSUME popped \in Seq(Item), q \in Seq(Item), pushed = popped \o q, NEW x \in Item,
           q' = Append(q, x), pushed' = Append(pushed, x), popped' = popped
    PROVE  pushed' = popped' \o q'
<1>1. pushed \in Seq(Item) /\ <<x>> \in Seq(Item)
    BY ConcatProperties
<1>2. pushed' = pushed \o <<x>> /\ q' = q \o <<x>>
    BY <1>1, AppendIsConcat
<1>3. (popped \o q) \o <<x>> = popped \o (q \o <<x>>)
    BY <1>1, ConcatAssociative
<1> QED BY <1>2, <1>3

LEMMA OrderOfItemsStep ==
    ASSUME QueueAssumption, TypeOK, FirstInFirstOut, [Next]_vars
    PROVE  FirstInFirstOut'
<1>1. ASSUME NEW p \in Producers, NEW n \in 1 .. MaxCalls, Push(p, n)
      PROVE  FirstInFirstOut'
  <2>1. <<p, n>> \in Item
      BY DEF Item
  <2>2. PICK x \in Item : q' = Append(q, x) /\ pushed' = Append(pushed, x)
      BY <1>1, <2>1 DEF Push
  <2>3. popped \in Seq(Item) /\ q \in Seq(Item)
      BY DEF TypeOK
  <2> QED BY <1>1, <2>2, <2>3, OrderAfterAppend DEF Push, FirstInFirstOut
<1>2. ASSUME NEW c \in Consumers, HasItems, Pop(c)
      PROVE  FirstInFirstOut'
  <2>1. Append(popped, Head(q)) \o Tail(q) = popped \o q
      BY <1>2, MoveHead DEF TypeOK, HasItems
  <2> QED BY <1>2, <2>1 DEF Pop, FirstInFirstOut
<1>3. CASE UNCHANGED <<q, pushed, popped>>
    BY <1>3 DEF FirstInFirstOut
<1> QED BY <1>1, <1>2, <1>3, QueueCases

-----------------------------------------------------------------------------
(* The items of a producer keep their order.                               *)

(* The numbers of a producer's items grow, and a call that is still to put *)
(* its item in has a number of its own.                                    *)
ItemsAreNumbered ==
    /\ \A i \in 1 .. Len(pushed) : pushed[i][2] <= calls[pushed[i][1]]
    /\ \A i \in 1 .. Len(pushed) :
          pc[pushed[i][1]] \in {"waiting", "woken"} => pushed[i][2] < calls[pushed[i][1]]
    /\ \A i, j \in 1 .. Len(pushed) :
          i < j /\ pushed[i][1] = pushed[j][1] => pushed[i][2] < pushed[j][2]

LEMMA NumbersAfterPush ==
    ASSUME QueueAssumption, TypeOK, ItemsAreNumbered,
           NEW p \in Producers, NEW n \in 1 .. MaxCalls, Push(p, n), n = calls'[p],
           \A i \in 1 .. Len(pushed) : pushed[i][1] = p => pushed[i][2] < n,
           \A u \in Producers \ {p} : calls'[u] = calls[u]
    PROVE  ItemsAreNumbered'
<1>1. <<p, n>> \in Item /\ <<p, n>>[1] = p /\ <<p, n>>[2] = n
    BY DEF Item
<1>2. /\ Len(pushed) \in Nat /\ Len(pushed') = Len(pushed) + 1
      /\ \A i \in 1 .. Len(pushed) : pushed'[i] = pushed[i]
      /\ pushed'[Len(pushed) + 1] = <<p, n>>
    BY <1>1, AppendProperties, LenProperties DEF Push, TypeOK
<1>3. \A i \in 1 .. Len(pushed) : pushed[i] \in Item
    BY ElementOfSeq DEF TypeOK
<1>4. \A i \in 1 .. Len(pushed) :
         pushed[i][1] \in Producers /\ pushed[i][2] \in 1 .. MaxCalls
    BY <1>3 DEF Item
<1>5. /\ pc \in [Threads -> State] /\ p \in Threads
      /\ pc'[p] = "notify" /\ \A u \in Producers \ {p} : pc'[u] = pc[u]
    BY DEF Push, Goto, TypeOK, Threads
<1>6. \A i \in 1 .. Len(pushed') :
         i \in 1 .. Len(pushed) \/ (i = Len(pushed) + 1 /\ pushed'[i][1] = p /\ pushed'[i][2] = n)
    BY <1>1, <1>2
<1>7. \A i \in 1 .. Len(pushed') :
         /\ pushed'[i][2] <= calls'[pushed'[i][1]]
         /\ pc'[pushed'[i][1]] \in {"waiting", "woken"} => pushed'[i][2] < calls'[pushed'[i][1]]
  <2> SUFFICES ASSUME NEW i \in 1 .. Len(pushed')
               PROVE  /\ pushed'[i][2] <= calls'[pushed'[i][1]]
                      /\ pc'[pushed'[i][1]] \in {"waiting", "woken"}
                            => pushed'[i][2] < calls'[pushed'[i][1]]
      OBVIOUS
  <2>1. CASE i \in 1 .. Len(pushed) /\ pushed[i][1] # p
      BY <1>2, <1>4, <1>5, <2>1 DEF ItemsAreNumbered
  <2>2. CASE i \in 1 .. Len(pushed) /\ pushed[i][1] = p
      BY <1>2, <1>4, <1>5, <2>2
  <2>3. CASE i = Len(pushed) + 1
      BY <1>1, <1>2, <1>5, <2>3
  <2> QED BY <1>6, <2>1, <2>2, <2>3
<1>8. ASSUME NEW i \in 1 .. Len(pushed'), NEW j \in 1 .. Len(pushed'),
             i < j, pushed'[i][1] = pushed'[j][1]
      PROVE  pushed'[i][2] < pushed'[j][2]
  <2>1. i \in 1 .. Len(pushed)
      BY <1>2, <1>8
  <2>2. CASE j \in 1 .. Len(pushed)
      BY <1>2, <1>8, <2>1, <2>2 DEF ItemsAreNumbered
  <2>3. CASE j = Len(pushed) + 1
      BY <1>1, <1>2, <1>8, <2>1, <2>3
  <2> QED BY <1>6, <2>2, <2>3
<1> QED BY <1>7, <1>8 DEF ItemsAreNumbered

(* Every step keeps the numbering: a call that begins takes the next       *)
(* number, one that goes on has the last one, and no other thread touches  *)
(* either.                                                                 *)
LEMMA ItemsAreNumberedStep ==
    ASSUME QueueAssumption, TypeOK, ItemsAreNumbered, [Next]_vars
    PROVE  ItemsAreNumbered'
<1>1. \A i \in 1 .. Len(pushed) : pushed[i] \in Item
    BY ElementOfSeq DEF TypeOK
<1>2. \A i \in 1 .. Len(pushed) :
         pushed[i][1] \in Producers /\ pushed[i][2] \in 1 .. MaxCalls
    BY <1>1 DEF Item
<1>3. Producers \subseteq Threads /\ pc \in [Threads -> State]
    BY DEF TypeOK, Threads
\* A step that puts nothing in, and after which no call has begun or gone on.
<1>4. ASSUME UNCHANGED <<calls, pushed>>,
             \A u \in Producers : pc'[u] \in {"waiting", "woken"} => pc[u] \in {"waiting", "woken"}
      PROVE  ItemsAreNumbered'
    BY <1>2, <1>4 DEF ItemsAreNumbered
\* A call that begins and puts nothing in.
<1>5. ASSUME NEW p \in Producers, pushed' = pushed,
             calls[p] < MaxCalls, calls' = [calls EXCEPT ![p] = @ + 1],
             \A u \in Producers \ {p} : pc'[u] = pc[u]
      PROVE  ItemsAreNumbered'
  <2>1. /\ calls[p] \in Nat /\ calls'[p] = calls[p] + 1
        /\ \A u \in Producers \ {p} : calls'[u] = calls[u]
      BY <1>5 DEF TypeOK
  <2>2. \A i \in 1 .. Len(pushed) : pushed[i][1] = p => pushed[i][2] < calls'[p]
      BY <1>2, <2>1 DEF ItemsAreNumbered
  <2> QED BY <1>2, <1>5, <2>1, <2>2 DEF ItemsAreNumbered
\* A call that begins and puts its item in.
<1>6. ASSUME NEW p \in Producers, calls[p] < MaxCalls,
             calls' = [calls EXCEPT ![p] = @ + 1], Push(p, calls[p] + 1)
      PROVE  ItemsAreNumbered'
  <2>1. /\ calls[p] \in Nat /\ calls'[p] = calls[p] + 1 /\ calls'[p] \in 1 .. MaxCalls
        /\ \A u \in Producers \ {p} : calls'[u] = calls[u]
      BY <1>6 DEF TypeOK, QueueAssumption
  <2>2. \A i \in 1 .. Len(pushed) : pushed[i][1] = p => pushed[i][2] < calls'[p]
      BY <1>2, <2>1 DEF ItemsAreNumbered
  <2> QED BY <1>6, <2>1, <2>2, NumbersAfterPush
<1>7. ASSUME NEW p \in Producers, Enqueue(p) \/ EnqueueNowait(p)
      PROVE  ItemsAreNumbered'
  <2>1. calls[p] < MaxCalls /\ calls' = [calls EXCEPT ![p] = @ + 1]
      BY <1>7 DEF Enqueue, EnqueueNowait
  <2>2. CASE Push(p, calls[p] + 1)
      BY <1>6, <2>1, <2>2
  <2>3. CASE UNCHANGED pushed /\ \A u \in Producers \ {p} : pc'[u] = pc[u]
      BY <1>5, <2>1, <2>3
  <2> QED BY <1>3, <1>7, <2>2, <2>3 DEF Enqueue, EnqueueNowait, Goto
<1>8. ASSUME NEW p \in Producers, EnqueueAgain(p)
      PROVE  ItemsAreNumbered'
  <2>1. pc[p] = "woken" /\ calls' = calls /\ calls[p] \in 1 .. MaxCalls
      BY <1>8 DEF EnqueueAgain, TypeOK
  <2>2. CASE Push(p, calls[p])
    <3>1. \A i \in 1 .. Len(pushed) : pushed[i][1] = p => pushed[i][2] < calls[p]
        BY <2>1 DEF ItemsAreNumbered
    <3> QED BY <2>1, <2>2, <3>1, NumbersAfterPush
  <2>3. CASE Goto(p, "waiting") /\ UNCHANGED <<q, pushed, popped>>
      BY <1>3, <1>4, <2>1, <2>3 DEF Goto
  <2> QED BY <1>8, <2>2, <2>3 DEF EnqueueAgain
<1>9. ASSUME NEW c \in Consumers, DequeueFor(c) \/ DequeueAfterTimeOut(c) \/ TimeOut(c)
      PROVE  ItemsAreNumbered'
  <2>1. UNCHANGED <<calls, pushed>> /\ \A u \in Threads \ {c} : pc'[u] = pc[u]
      BY <1>3, <1>9 DEF DequeueFor, DequeueAfterTimeOut, TimeOut, Pop, Goto
  <2>2. c \notin Producers
      BY DEF QueueAssumption
  <2> QED BY <1>3, <1>4, <2>1, <2>2
<1>10. ASSUME NEW t \in Threads, NotifyOne(t) \/ SpuriousWakeUp(t)
       PROVE  ItemsAreNumbered'
  <2>1. \A w \in Notified(t) : w \in Threads /\ pc[w] = "waiting"
      BY DEF Notified, At, Threads
  <2>2. \A u \in Threads : pc'[u] \in {"waiting", "woken"} => pc[u] \in {"waiting", "woken"}
      BY <1>3, <1>10, <2>1 DEF NotifyOne, SpuriousWakeUp, Goto
  <2>3. UNCHANGED <<calls, pushed>>
      BY <1>10 DEF NotifyOne, SpuriousWakeUp
  <2> QED BY <1>3, <1>4, <2>2, <2>3
<1>11. CASE UNCHANGED vars
    BY <1>4, <1>11 DEF vars
<1> QED BY <1>7, <1>8, <1>9, <1>10, <1>11 DEF Next, ProducerStep, ConsumerStep, Threads

-----------------------------------------------------------------------------
(* No wake-up is lost.                                                     *)

(* Those who can still act on an item, and on a free place.                *)
Lookers == Cardinality(At(Producers, "notify")) + Cardinality(At(Consumers, "woken"))
             + Cardinality(At(Consumers, "timed_out"))
Fillers == Cardinality(At(Consumers, "notify")) + Cardinality(At(Producers, "woken"))

LEMMA CountsAreNumbers ==
    ASSUME QueueAssumption
    PROVE  /\ \A a : Cardinality(At(Producers, a)) \in Nat /\ Cardinality(At(Consumers, a)) \in Nat
           /\ \A a : Cardinality(At(Producers, a)') \in Nat /\ Cardinality(At(Consumers, a)') \in Nat
<1>1. ASSUME NEW S, IsFiniteSet(S), NEW a
      PROVE  Cardinality(At(S, a)) \in Nat /\ Cardinality(At(S, a)') \in Nat
  <2>1. At(S, a) \in SUBSET S /\ At(S, a)' \in SUBSET S
      BY DEF At
  <2> QED BY <1>1, <2>1, FS_Subset, FS_CardinalityType
<1> QED BY <1>1 DEF QueueAssumption

(* One thread of a side moves; those of the other side stay where they are. *)
LEMMA ProducerMoves ==
    ASSUME QueueAssumption, TypeOK, NEW x \in Producers, NEW b, Goto(x, b)
    PROVE  /\ \A a : At(Consumers, a)' = At(Consumers, a)
           /\ \A a : pc[x] # a /\ b = a =>
                        Cardinality(At(Producers, a)') = Cardinality(At(Producers, a)) + 1
           /\ \A a : pc[x] = a /\ b # a =>
                        Cardinality(At(Producers, a)) = Cardinality(At(Producers, a)') + 1
           /\ \A a : (pc[x] = a <=> b = a) => At(Producers, a)' = At(Producers, a)
<1>1. /\ pc'[x] = b /\ IsFiniteSet(Producers)
      /\ \A u \in Producers \ {x} : pc'[u] = pc[u]
      /\ \A u \in Consumers : pc'[u] = pc[u]
    BY DEF Goto, QueueAssumption, TypeOK, Threads
<1>2. \A a : At(Consumers, a)' = At(Consumers, a)
    BY <1>1 DEF At
<1>3. ASSUME NEW a
      PROVE  /\ pc[x] # a /\ b = a => Cardinality(At(Producers, a)') = Cardinality(At(Producers, a)) + 1
             /\ pc[x] = a /\ b # a => Cardinality(At(Producers, a)) = Cardinality(At(Producers, a)') + 1
             /\ (pc[x] = a <=> b = a) => At(Producers, a)' = At(Producers, a)
    BY <1>1, CountsAfterMove
<1> QED BY <1>2, <1>3

LEMMA ConsumerMoves ==
    ASSUME QueueAssumption, TypeOK, NEW x \in Consumers, NEW b, Goto(x, b)
    PROVE  /\ \A a : At(Producers, a)' = At(Producers, a)
           /\ \A a : pc[x] # a /\ b = a =>
                        Cardinality(At(Consumers, a)') = Cardinality(At(Consumers, a)) + 1
           /\ \A a : pc[x] = a /\ b # a =>
                        Cardinality(At(Consumers, a)) = Cardinality(At(Consumers, a)') + 1
           /\ \A a : (pc[x] = a <=> b = a) => At(Consumers, a)' = At(Consumers, a)
<1>1. /\ pc'[x] = b /\ IsFiniteSet(Consumers)
      /\ \A u \in Consumers \ {x} : pc'[u] = pc[u]
      /\ \A u \in Producers : pc'[u] = pc[u]
    BY DEF Goto, QueueAssumption, TypeOK, Threads
<1>2. \A a : At(Producers, a)' = At(Producers, a)
    BY <1>1 DEF At
<1>3. ASSUME NEW a
      PROVE  /\ pc[x] # a /\ b = a => Cardinality(At(Consumers, a)') = Cardinality(At(Consumers, a)) + 1
             /\ pc[x] = a /\ b # a => Cardinality(At(Consumers, a)) = Cardinality(At(Consumers, a)') + 1
             /\ (pc[x] = a <=> b = a) => At(Consumers, a)' = At(Consumers, a)
    BY <1>1, CountsAfterMove
<1> QED BY <1>2, <1>3

(* Of two threads of different sides one goes idle after having notified,  *)
(* and the other one wakes up.                                             *)
LEMMA ProducerWakesConsumer ==
    ASSUME QueueAssumption, TypeOK, NEW x \in Producers, NEW w \in Consumers,
           pc[x] = "notify", pc[w] = "waiting",
           pc' = [pc EXCEPT ![x] = "idle", ![w] = "woken"]
    PROVE  /\ Cardinality(At(Producers, "notify")) = Cardinality(At(Producers, "notify")') + 1
           /\ \A a \in {"waiting", "woken", "timed_out"} : At(Producers, a)' = At(Producers, a)
           /\ Cardinality(At(Consumers, "woken")') = Cardinality(At(Consumers, "woken")) + 1
           /\ \A a \in {"notify", "timed_out"} : At(Consumers, a)' = At(Consumers, a)
           /\ At(Consumers, "waiting")' \subseteq At(Consumers, "waiting")
<1>1. /\ pc'[x] = "idle" /\ pc'[w] = "woken"
      /\ IsFiniteSet(Producers) /\ IsFiniteSet(Consumers)
      /\ \A u \in Producers \ {x} : pc'[u] = pc[u]
      /\ \A u \in Consumers \ {w} : pc'[u] = pc[u]
    BY DEF QueueAssumption, TypeOK, Threads
<1>2. Cardinality(At(Producers, "notify")) = Cardinality(At(Producers, "notify")') + 1
    BY <1>1, CountsAfterMove
<1>3. \A a \in {"waiting", "woken", "timed_out"} : At(Producers, a)' = At(Producers, a)
    BY <1>1 DEF At
<1>4. Cardinality(At(Consumers, "woken")') = Cardinality(At(Consumers, "woken")) + 1
    BY <1>1, CountsAfterMove
<1>5. /\ \A a \in {"notify", "timed_out"} : At(Consumers, a)' = At(Consumers, a)
      /\ At(Consumers, "waiting")' \subseteq At(Consumers, "waiting")
    BY <1>1 DEF At
<1> QED BY <1>2, <1>3, <1>4, <1>5

LEMMA ConsumerWakesProducer ==
    ASSUME QueueAssumption, TypeOK, NEW x \in Consumers, NEW w \in Producers,
           pc[x] = "notify", pc[w] = "waiting",
           pc' = [pc EXCEPT ![x] = "idle", ![w] = "woken"]
    PROVE  /\ Cardinality(At(Consumers, "notify")) = Cardinality(At(Consumers, "notify")') + 1
           /\ \A a \in {"waiting", "woken", "timed_out"} : At(Consumers, a)' = At(Consumers, a)
           /\ Cardinality(At(Producers, "woken")') = Cardinality(At(Producers, "woken")) + 1
           /\ \A a \in {"notify", "timed_out"} : At(Producers, a)' = At(Producers, a)
           /\ At(Producers, "waiting")' \subseteq At(Producers, "waiting")
<1>1. /\ pc'[x] = "idle" /\ pc'[w] = "woken"
      /\ IsFiniteSet(Consumers) /\ IsFiniteSet(Producers)
      /\ \A u \in Consumers \ {x} : pc'[u] = pc[u]
      /\ \A u \in Producers \ {w} : pc'[u] = pc[u]
    BY DEF QueueAssumption, TypeOK, Threads
<1>2. Cardinality(At(Consumers, "notify")) = Cardinality(At(Consumers, "notify")') + 1
    BY <1>1, CountsAfterMove
<1>3. \A a \in {"waiting", "woken", "timed_out"} : At(Consumers, a)' = At(Consumers, a)
    BY <1>1 DEF At
<1>4. Cardinality(At(Producers, "woken")') = Cardinality(At(Producers, "woken")) + 1
    BY <1>1, CountsAfterMove
<1>5. /\ \A a \in {"notify", "timed_out"} : At(Producers, a)' = At(Producers, a)
      /\ At(Producers, "waiting")' \subseteq At(Producers, "waiting")
    BY <1>1 DEF At
<1> QED BY <1>2, <1>3, <1>4, <1>5

LEMMA NoWakeUpIsLostStep ==
    ASSUME QueueAssumption, TypeOK, NoWakeUpIsLost, [Next]_vars
    PROVE  NoWakeUpIsLost'
<1> USE DEF Lookers, Fillers
<1>1. /\ At(Consumers, "waiting") # {} => Len(q) <= Lookers
      /\ At(Producers, "waiting") # {} => MaxItems - Len(q) <= Fillers
    BY DEF NoWakeUpIsLost
<1>2. \/ At(Consumers, "waiting")' # {} /\ ~(Len(q') <= Lookers')
      \/ At(Producers, "waiting")' # {} /\ ~(MaxItems - Len(q') <= Fillers')
      \/ NoWakeUpIsLost'
    BY DEF NoWakeUpIsLost
<1>3. MaxItems \in Nat /\ Len(q) \in Nat /\ Len(q) <= MaxItems
    BY LenProperties DEF QueueAssumption, TypeOK
<1>4. /\ Lookers \in Nat /\ Fillers \in Nat /\ Lookers' \in Nat /\ Fillers' \in Nat
      /\ \A a : Cardinality(At(Producers, a)) \in Nat /\ Cardinality(At(Consumers, a)) \in Nat
      /\ \A a : Cardinality(At(Producers, a)') \in Nat /\ Cardinality(At(Consumers, a)') \in Nat
    BY CountsAreNumbers
\* A producer puts an item in and is about to notify.
<1>5. ASSUME NEW p \in Producers, NEW n \in 1 .. MaxCalls, HasRoom, Push(p, n),
             pc[p] \in {"idle", "woken"}
      PROVE  NoWakeUpIsLost'
  <2>1. Goto(p, "notify") /\ Len(q') = Len(q) + 1
      BY <1>5, PushKeepsType DEF Push
  <2>2. /\ Cardinality(At(Producers, "notify")') = Cardinality(At(Producers, "notify")) + 1
        /\ Cardinality(At(Producers, "woken")') >= Cardinality(At(Producers, "woken")) - 1
        /\ At(Producers, "waiting")' = At(Producers, "waiting")
        /\ \A a : At(Consumers, a)' = At(Consumers, a)
    <3>1. /\ \A a : At(Consumers, a)' = At(Consumers, a)
          /\ Cardinality(At(Producers, "notify")') = Cardinality(At(Producers, "notify")) + 1
          /\ At(Producers, "waiting")' = At(Producers, "waiting")
        BY <1>5, <2>1, ProducerMoves
    <3>2. CASE pc[p] = "idle"
      <4>1. At(Producers, "woken")' = At(Producers, "woken")
          BY <2>1, <3>2, ProducerMoves
      <4> QED BY <1>4, <3>1, <4>1
    <3>3. CASE pc[p] = "woken"
      <4>1. Cardinality(At(Producers, "woken")) = Cardinality(At(Producers, "woken")') + 1
          BY <2>1, <3>3, ProducerMoves
      <4> QED BY <1>4, <3>1, <4>1
    <3> QED BY <1>5, <3>2, <3>3
  <2>3. Lookers' = Lookers + 1 /\ Fillers' >= Fillers - 1
      BY <1>4, <2>2
  <2> HIDE DEF Lookers, Fillers
  <2>4. At(Consumers, "waiting")' # {} => Len(q') <= Lookers'
      BY <1>1, <1>3, <1>4, <2>1, <2>2, <2>3
  <2>5. At(Producers, "waiting")' # {} => MaxItems - Len(q') <= Fillers'
    <3>1. At(Producers, "waiting")' # {} => MaxItems - Len(q) <= Fillers
        BY <1>1, <2>2
    <3> QED BY <1>3, <1>4, <2>1, <2>3, <3>1
  <2> QED BY <1>2, <2>4, <2>5
\* A producer finds no room: there is no free place to be told about.
<1>6. ASSUME NEW p \in Producers, ~HasRoom, Goto(p, "waiting"), q' = q,
             pc[p] \in {"idle", "woken"}
      PROVE  NoWakeUpIsLost'
  <2>1. /\ \A a : At(Consumers, a)' = At(Consumers, a)
        /\ At(Producers, "notify")' = At(Producers, "notify")
      BY <1>6, ProducerMoves
  <2>2. Lookers' = Lookers
      BY <2>1
  <2>3. MaxItems - Len(q') <= 0
      BY <1>3, <1>6 DEF HasRoom
  <2> HIDE DEF Lookers, Fillers
  <2> QED BY <1>1, <1>2, <1>3, <1>4, <1>6, <2>1, <2>2, <2>3
\* A consumer takes an item and is about to notify.
<1>7. ASSUME NEW c \in Consumers, HasItems, Pop(c), pc[c] \in {"idle", "woken", "timed_out"}
      PROVE  NoWakeUpIsLost'
  <2>1. Goto(c, "notify") /\ Len(q) = Len(q') + 1 /\ Len(q') \in Nat
      BY <1>7, PopKeepsType, LenProperties DEF Pop
  <2>2. /\ \A a : At(Producers, a)' = At(Producers, a)
        /\ Cardinality(At(Consumers, "notify")') = Cardinality(At(Consumers, "notify")) + 1
        /\ At(Consumers, "waiting")' = At(Consumers, "waiting")
      BY <1>7, <2>1, ConsumerMoves
  <2>3. Cardinality(At(Consumers, "woken")') + Cardinality(At(Consumers, "timed_out")')
            >= Cardinality(At(Consumers, "woken")) + Cardinality(At(Consumers, "timed_out")) - 1
    <3>1. CASE pc[c] = "idle"
      <4>1. /\ At(Consumers, "woken")' = At(Consumers, "woken")
            /\ At(Consumers, "timed_out")' = At(Consumers, "timed_out")
          BY <2>1, <3>1, ConsumerMoves
      <4> QED BY <1>4, <4>1
    <3>2. CASE pc[c] = "woken"
      <4>1. /\ Cardinality(At(Consumers, "woken")) = Cardinality(At(Consumers, "woken")') + 1
            /\ At(Consumers, "timed_out")' = At(Consumers, "timed_out")
          BY <2>1, <3>2, ConsumerMoves
      <4> QED BY <1>4, <4>1
    <3>3. CASE pc[c] = "timed_out"
      <4>1. /\ At(Consumers, "woken")' = At(Consumers, "woken")
            /\ Cardinality(At(Consumers, "timed_out")) = Cardinality(At(Consumers, "timed_out")') + 1
          BY <2>1, <3>3, ConsumerMoves
      <4> QED BY <1>4, <4>1
    <3> QED BY <1>7, <3>1, <3>2, <3>3
  <2>4. Lookers' >= Lookers - 1 /\ Fillers' = Fillers + 1
      BY <1>4, <2>2, <2>3
  <2> HIDE DEF Lookers, Fillers
  <2> QED BY <1>1, <1>2, <1>3, <1>4, <2>1, <2>2, <2>4
\* A consumer finds nothing, and waits on or gives up.
<1>8. ASSUME NEW c \in Consumers, NEW b \in {"waiting", "idle"}, ~HasItems, Goto(c, b), q' = q,
             pc[c] \in {"idle", "woken", "timed_out"}
      PROVE  NoWakeUpIsLost'
  <2>1. /\ \A a : At(Producers, a)' = At(Producers, a)
        /\ At(Consumers, "notify")' = At(Consumers, "notify")
      BY <1>8, ConsumerMoves
  <2>2. Fillers' = Fillers
      BY <2>1
  <2>3. Len(q') = 0
      BY <1>8, EmptySeq DEF HasItems
  <2> HIDE DEF Lookers, Fillers
  <2> QED BY <1>1, <1>2, <1>3, <1>4, <1>8, <2>1, <2>2, <2>3
\* A consumer that waited looks again, because of the time or for no reason.
<1>9. ASSUME NEW c \in Consumers, NEW b \in {"timed_out", "woken"}, pc[c] = "waiting", Goto(c, b), q' = q
      PROVE  NoWakeUpIsLost'
  <2>1. /\ \A a : At(Producers, a)' = At(Producers, a)
        /\ At(Consumers, "notify")' = At(Consumers, "notify")
        /\ Cardinality(At(Consumers, b)') = Cardinality(At(Consumers, b)) + 1
        /\ \A a \in {"timed_out", "woken"} \ {b} : At(Consumers, a)' = At(Consumers, a)
      BY <1>9, ConsumerMoves
  <2>2. At(Consumers, "waiting")' # {} => At(Consumers, "waiting") # {}
      BY <1>9 DEF At
  <2>3. Lookers' = Lookers + 1
      BY <1>4, <2>1
  <2>4. Fillers' = Fillers
      BY <2>1
  <2> HIDE DEF Lookers, Fillers
  <2> QED BY <1>1, <1>2, <1>3, <1>4, <1>9, <2>1, <2>2, <2>3, <2>4
\* A producer wakes up for no reason.
<1>10. ASSUME NEW p \in Producers, pc[p] = "waiting", Goto(p, "woken"), q' = q
       PROVE  NoWakeUpIsLost'
  <2>1. /\ \A a : At(Consumers, a)' = At(Consumers, a)
        /\ At(Producers, "notify")' = At(Producers, "notify")
        /\ Cardinality(At(Producers, "woken")') = Cardinality(At(Producers, "woken")) + 1
      BY <1>10, ProducerMoves
  <2>2. At(Producers, "waiting")' # {} => At(Producers, "waiting") # {}
      BY <1>10 DEF At
  <2>3. Lookers' = Lookers /\ Fillers' = Fillers + 1
      BY <1>4, <2>1
  <2> HIDE DEF Lookers, Fillers
  <2> QED BY <1>1, <1>2, <1>3, <1>4, <1>10, <2>1, <2>2, <2>3
\* A thread has nobody to notify: then nobody of the other side waits.
<1>11. ASSUME NEW p \in Producers, pc[p] = "notify", At(Consumers, "waiting") = {},
              Goto(p, "idle"), q' = q
       PROVE  NoWakeUpIsLost'
  <2>1. /\ \A a : At(Consumers, a)' = At(Consumers, a)
        /\ At(Producers, "woken")' = At(Producers, "woken")
        /\ At(Producers, "waiting")' = At(Producers, "waiting")
      BY <1>11, ProducerMoves
  <2>2. Fillers' = Fillers
      BY <2>1
  <2> HIDE DEF Lookers, Fillers
  <2> QED BY <1>1, <1>2, <1>11, <2>1, <2>2
<1>12. ASSUME NEW c \in Consumers, pc[c] = "notify", At(Producers, "waiting") = {},
              Goto(c, "idle"), q' = q
       PROVE  NoWakeUpIsLost'
  <2>1. /\ \A a : At(Producers, a)' = At(Producers, a)
        /\ At(Consumers, "woken")' = At(Consumers, "woken")
        /\ At(Consumers, "timed_out")' = At(Consumers, "timed_out")
        /\ At(Consumers, "waiting")' = At(Consumers, "waiting")
      BY <1>12, ConsumerMoves
  <2>2. Lookers' = Lookers
      BY <2>1
  <2> HIDE DEF Lookers, Fillers
  <2> QED BY <1>1, <1>2, <1>12, <2>1, <2>2
\* A thread wakes one of the other side, which looks in its stead.
<1>13. ASSUME NEW p \in Producers, NEW w \in Consumers, pc[p] = "notify", pc[w] = "waiting",
              pc' = [pc EXCEPT ![p] = "idle", ![w] = "woken"], q' = q
       PROVE  NoWakeUpIsLost'
  <2>1. /\ Cardinality(At(Producers, "notify")) = Cardinality(At(Producers, "notify")') + 1
        /\ \A a \in {"waiting", "woken", "timed_out"} : At(Producers, a)' = At(Producers, a)
        /\ Cardinality(At(Consumers, "woken")') = Cardinality(At(Consumers, "woken")) + 1
        /\ \A a \in {"notify", "timed_out"} : At(Consumers, a)' = At(Consumers, a)
      BY <1>13, ProducerWakesConsumer
  <2>2. At(Consumers, "waiting")' # {} => At(Consumers, "waiting") # {}
      BY <1>13 DEF At
  <2>3. Lookers' = Lookers /\ Fillers' = Fillers
      BY <1>4, <2>1
  <2> HIDE DEF Lookers, Fillers
  <2> QED BY <1>1, <1>2, <1>13, <2>1, <2>2, <2>3
<1>14. ASSUME NEW c \in Consumers, NEW w \in Producers, pc[c] = "notify", pc[w] = "waiting",
              pc' = [pc EXCEPT ![c] = "idle", ![w] = "woken"], q' = q
       PROVE  NoWakeUpIsLost'
  <2>1. /\ Cardinality(At(Consumers, "notify")) = Cardinality(At(Consumers, "notify")') + 1
        /\ \A a \in {"waiting", "woken", "timed_out"} : At(Consumers, a)' = At(Consumers, a)
        /\ Cardinality(At(Producers, "woken")') = Cardinality(At(Producers, "woken")) + 1
        /\ \A a \in {"notify", "timed_out"} : At(Producers, a)' = At(Producers, a)
      BY <1>14, ConsumerWakesProducer
  <2>2. At(Producers, "waiting")' # {} => At(Producers, "waiting") # {}
      BY <1>14 DEF At
  <2>3. Lookers' = Lookers /\ Fillers' = Fillers + 0
      BY <1>4, <2>1
  <2> HIDE DEF Lookers, Fillers
  <2> QED BY <1>1, <1>2, <1>4, <1>14, <2>1, <2>2, <2>3
\* Nobody moves.
<1>15. ASSUME UNCHANGED <<q, pc>>
       PROVE  NoWakeUpIsLost'
    BY <1>15 DEF NoWakeUpIsLost, At
\* These are all the steps.
<1>16. ASSUME NEW p \in Producers, Enqueue(p) \/ EnqueueNowait(p) \/ EnqueueAgain(p)
       PROVE  NoWakeUpIsLost'
  <2>1. calls[p] \in 0 .. MaxCalls /\ (pc[p] = "woken" => calls[p] \in 1 .. MaxCalls)
      BY DEF TypeOK
  <2>2. CASE Enqueue(p)
      BY <1>5, <1>6, <2>1, <2>2 DEF Enqueue, QueueAssumption
  <2>3. CASE EnqueueNowait(p)
    <3>1. CASE Len(q) # MaxItems /\ Push(p, calls[p] + 1)
      <4>1. HasRoom /\ calls[p] + 1 \in 1 .. MaxCalls /\ pc[p] \in {"idle", "woken"}
        \* The call is made in the state idle.
          BY <1>3, <2>1, <2>3, <3>1 DEF HasRoom, EnqueueNowait, QueueAssumption
      <4> QED BY <1>5, <3>1, <4>1
    <3>2. CASE UNCHANGED <<q, pc>>
        BY <1>15, <3>2
    <3> QED BY <2>3, <3>1, <3>2 DEF EnqueueNowait
  <2>4. CASE EnqueueAgain(p)
      BY <1>5, <1>6, <2>1, <2>4 DEF EnqueueAgain
  <2> QED BY <1>16, <2>2, <2>3, <2>4
<1>17. ASSUME NEW c \in Consumers, DequeueFor(c) \/ DequeueAfterTimeOut(c) \/ TimeOut(c)
       PROVE  NoWakeUpIsLost'
  <2>1. CASE DequeueFor(c)
      BY <1>7, <1>8, <2>1 DEF DequeueFor
  <2>2. CASE DequeueAfterTimeOut(c)
      BY <1>7, <1>8, <2>2 DEF DequeueAfterTimeOut
  <2>3. CASE TimeOut(c)
      BY <1>9, <2>3 DEF TimeOut
  <2> QED BY <1>17, <2>1, <2>2, <2>3
<1>18. ASSUME NEW t \in Threads, SpuriousWakeUp(t)
       PROVE  NoWakeUpIsLost'
    BY <1>9, <1>10, <1>18 DEF SpuriousWakeUp, Threads
<1>19. ASSUME NEW p \in Producers, NotifyOne(p)
       PROVE  NoWakeUpIsLost'
  <2>1. Notified(p) = At(Consumers, "waiting")
      BY DEF Notified
  <2>2. \A w \in Notified(p) : w \in Consumers /\ pc[w] = "waiting"
      BY <2>1 DEF At
  <2> QED BY <1>11, <1>13, <1>19, <2>1, <2>2 DEF NotifyOne
<1>20. ASSUME NEW c \in Consumers, NotifyOne(c)
       PROVE  NoWakeUpIsLost'
  <2>1. Notified(c) = At(Producers, "waiting")
      BY DEF Notified, QueueAssumption
  <2>2. \A w \in Notified(c) : w \in Producers /\ pc[w] = "waiting"
      BY <2>1 DEF At
  <2> QED BY <1>12, <1>14, <1>20, <2>1, <2>2 DEF NotifyOne
<1> QED BY <1>15, <1>16, <1>17, <1>18, <1>19, <1>20
        DEF Next, ProducerStep, ConsumerStep, vars

-----------------------------------------------------------------------------
(* The theorems.                                                           *)

QueueInv ==
    /\ TypeOK
    /\ FirstInFirstOut
    /\ ItemsAreNumbered
    /\ NoWakeUpIsLost

(* The invariant holds of every queue: the types, the order of the items,  *)
(* their numbers, and the wake-ups on their way.                           *)
THEOREM QueueInvariantHolds ==
    ASSUME QueueAssumption
    PROVE  Spec => []QueueInv
<1>1. Init => QueueInv
  <2> SUFFICES ASSUME Init PROVE QueueInv
      OBVIOUS
  <2>1. TypeOK
      BY TypeInit
  <2>2. FirstInFirstOut
    <3>1. <<>> \o <<>> = <<>>
        BY EmptySeq, ConcatEmptySeq
    <3> QED BY <3>1 DEF Init, FirstInFirstOut
  <2>3. ItemsAreNumbered
      BY EmptySeq DEF Init, ItemsAreNumbered
  <2>4. NoWakeUpIsLost
      BY DEF Init, NoWakeUpIsLost, At, Threads
  <2> QED BY <2>1, <2>2, <2>3, <2>4 DEF QueueInv
<1>2. QueueInv /\ [Next]_vars => QueueInv'
    BY TypeStep, OrderOfItemsStep, ItemsAreNumberedStep, NoWakeUpIsLostStep DEF QueueInv
<1> QED BY <1>1, <1>2, PTL DEF Spec

(* What comes out of the queue is what went in, in the same order, for any *)
(* threads, places and calls, whatever blocks, gives up or is woken.       *)
THEOREM QueueIsFirstInFirstOut ==
    ASSUME QueueAssumption
    PROVE  Spec => []FirstInFirstOut
<1>1. QueueInv => FirstInFirstOut
    BY DEF QueueInv
<1> QED BY <1>1, QueueInvariantHolds, PTL

(* Items of one producer are neither repeated nor do they overtake each    *)
(* other, although a producer that waits puts its item in much later than  *)
(* it asked for room.                                                      *)
THEOREM ProducersOrderIsKept ==
    ASSUME QueueAssumption
    PROVE  Spec => []ProducersKeepOrder
<1>1. QueueInv => ProducersKeepOrder
  <2> SUFFICES ASSUME QueueInv PROVE ProducersKeepOrder
      OBVIOUS
  <2>1. popped \o q = pushed
      BY DEF QueueInv, FirstInFirstOut
  <2> QED BY <2>1 DEF QueueInv, ItemsAreNumbered, ProducersKeepOrder
<1> QED BY <1>1, QueueInvariantHolds, PTL

(* A notification comes after the mutex was given up, waits may end by     *)
(* time, and wake-ups may come for no reason: still, whoever waits for an  *)
(* item or a place that is there has somebody to wake him up, or to take   *)
(* it in his stead.                                                        *)
THEOREM WakeUpsAreNotLost ==
    ASSUME QueueAssumption
    PROVE  Spec => []NoWakeUpIsLost
<1>1. QueueInv => NoWakeUpIsLost
    BY DEF QueueInv
<1> QED BY <1>1, QueueInvariantHolds, PTL

(* The threads never all wait for one another: with a place at least, and  *)
(* a thread on either side, one of them can always act.  If all waited,    *)
(* nobody would be about to notify or to look, so that the queue would     *)
(* have to be empty for its consumers and full for its producers.          *)
THEOREM ThreadsDoNotAllWait ==
    ASSUME QueueAssumption, MaxItems # 0, Producers # {}, Consumers # {}
    PROVE  Spec => []NotAllWait
<1>1. QueueInv => NotAllWait
  <2> SUFFICES ASSUME QueueInv, \A t \in Threads : pc[t] = "waiting"
               PROVE  FALSE
      BY DEF NotAllWait
  <2>1. At(Producers, "waiting") # {} /\ At(Consumers, "waiting") # {}
      BY DEF At, Threads
  <2>2. /\ At(Producers, "notify") = {} /\ At(Producers, "woken") = {}
        /\ At(Consumers, "notify") = {} /\ At(Consumers, "woken") = {}
        /\ At(Consumers, "timed_out") = {}
      BY DEF At, Threads
  <2>3. Cardinality({}) = 0
      BY FS_EmptySet
  <2>4. Len(q) \in Nat /\ MaxItems \in Nat
      BY LenProperties DEF QueueInv, TypeOK, QueueAssumption
  <2>5. Len(q) <= 0 /\ MaxItems - Len(q) <= 0
    <3>1. /\ Cardinality(At(Producers, "notify")) = 0
          /\ Cardinality(At(Producers, "woken")) = 0
          /\ Cardinality(At(Consumers, "notify")) = 0
          /\ Cardinality(At(Consumers, "woken")) = 0
          /\ Cardinality(At(Consumers, "timed_out")) = 0
        BY <2>2, <2>3
    <3> QED BY <2>1, <2>4, <3>1 DEF QueueInv, NoWakeUpIsLost
  <2> QED BY <2>4, <2>5
<1> QED BY <1>1, QueueInvariantHolds, PTL
=============================================================================
