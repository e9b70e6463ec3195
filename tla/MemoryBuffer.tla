---------------------------- MODULE MemoryBuffer ----------------------------
(***************************************************************************)
(* The buffers texts are formatted in. A buffer keeps up to SIZE           *)
(* characters in itself and more of them in a block of memory of its own;  *)
(* moving a buffer hands the block on.                                     *)
(***************************************************************************)
EXTENDS Integers, Sequences, FiniteSets

CONSTANTS
    Buffers,        \* buffer objects
    Blocks,         \* blocks of memory the allocator can hand out
    SIZE,           \* how many characters a buffer keeps in itself
    Chars,
    MaxCapacity,    \* bound: the largest capacity
    MaxAppend       \* bound: the longest text appended at once

data_ == "data_"
Unwritten == "?"

ASSUME DataAssumption == data_ \notin Blocks
ASSUME SizeAssumption ==
    SIZE \in Nat /\ MaxCapacity \in Nat /\ MaxAppend \in Nat

VARIABLES
    live,       \* the buffers that are constructed and not destroyed
    moved,      \* those whose contents went to another one
    ptr,        \* where a buffer keeps its characters: data_ or a block
    size, capacity,
    data,       \* what a buffer holds in itself
    heap,       \* what a block holds
    allocated,  \* the blocks handed out
    text        \* what is to be in a buffer
\* (of a buffer that is not constructed: what it will start with)

vars == <<live, moved, ptr, size, capacity, data, heap, allocated, text>>

Repeated(c, n) == [i \in 1..n |-> c]

Usable == live \ moved

Storage(b) == IF ptr[b] = data_ THEN data[b] ELSE heap[ptr[b]]

Init ==
    /\ live = {}
    /\ moved = {}
    /\ ptr = [b \in Buffers |-> data_]
    /\ size = [b \in Buffers |-> 0]
    /\ capacity = [b \in Buffers |-> SIZE]
    /\ data = [b \in Buffers |-> Repeated(Unwritten, SIZE)]
    /\ heap = [k \in Blocks |-> <<>>]
    /\ allocated = {}
    /\ text = [b \in Buffers |-> <<>>]

Construct(b) ==
    /\ b \notin live
    /\ live' = live \union {b}
    /\ UNCHANGED <<moved, ptr, size, capacity, data, heap, allocated, text>>

\* The storage with s written behind the first n characters.
Copied(storage, n, s) ==
    [i \in DOMAIN storage |-> IF i \in (n + 1)..(n + Len(s)) THEN s[i - n]
                                                             ELSE storage[i]]

\* The blocks without the one that b gives up, if it has one. What a block
\* held is gone with it.
deallocate(b) == allocated \ {ptr[b]}
Freed(b) == [k \in Blocks |-> IF k = ptr[b] THEN <<>> ELSE heap[k]]

\* How large a buffer becomes that must hold n characters: half as large
\* again, or as large as that takes.
\* Seeded defect: the buffer grows by half, however much is asked for.
HalfAgain(b, n) == capacity[b] + capacity[b] \div 2

new_capacity(b, n) ==
    LET half_as_much_again == capacity[b] + capacity[b] \div 2
    IN  IF n > half_as_much_again THEN n ELSE half_as_much_again

\* Seeded defect: what is in use is not copied.
GrowKeeping(b, n, s) ==
    \E k \in Blocks \ allocated :
        /\ new_capacity(b, n) <= MaxCapacity
        /\ heap' = [Freed(b) EXCEPT ![k] =
                      Copied(Repeated(Unwritten, new_capacity(b, n)),
                             size[b], s)]
        /\ ptr' = [ptr EXCEPT ![b] = k]
        /\ capacity' = [capacity EXCEPT ![b] = new_capacity(b, n)]
        /\ allocated' = deallocate(b) \union {k}
        /\ UNCHANGED data

\* A larger block with what is in use, and s behind it.
grow(b, n, s) ==
    \E k \in Blocks \ allocated :
        /\ new_capacity(b, n) <= MaxCapacity
        /\ heap' = [Freed(b) EXCEPT ![k] =
                      Copied(Copied(Repeated(Unwritten, new_capacity(b, n)),
                                    0, SubSeq(Storage(b), 1, size[b])),
                             size[b], s)]
        /\ ptr' = [ptr EXCEPT ![b] = k]
        /\ capacity' = [capacity EXCEPT ![b] = new_capacity(b, n)]
        /\ allocated' = deallocate(b) \union {k}
        /\ UNCHANGED data

\* The storage b has, with s behind what is in use.
InPlace(b, s) ==
    /\ IF ptr[b] = data_
       THEN /\ data' = [data EXCEPT ![b] = Copied(@, size[b], s)]
            /\ UNCHANGED heap
       ELSE /\ heap' = [heap EXCEPT ![ptr[b]] = Copied(@, size[b], s)]
            /\ UNCHANGED data
    /\ UNCHANGED <<ptr, capacity, allocated>>

\* s is written behind what is in use, with room for n characters in all.
Put(b, n, s) ==
    IF n > capacity[b] THEN grow(b, n, s) ELSE InPlace(b, s)

append(b, s) ==
    /\ b \in Usable
    /\ Put(b, size[b] + Len(s), s)
    /\ size' = [size EXCEPT ![b] = @ + Len(s)]
    /\ text' = [text EXCEPT ![b] = @ \o s]
    /\ UNCHANGED <<live, moved>>

push_back(b, c) == append(b, <<c>>)

\* New characters are not initialised.
resize(b, n) ==
    /\ b \in Usable
    /\ Put(b, n, <<>>)
    /\ size' = [size EXCEPT ![b] = n]
    /\ text' = [text EXCEPT ![b] =
                  [i \in 1..n |-> IF i <= Len(@) THEN @[i] ELSE Unwritten]]
    /\ UNCHANGED <<live, moved>>

reserve(b, n) ==
    /\ b \in Usable
    /\ n > capacity[b]
    /\ Put(b, n, <<>>)
    /\ UNCHANGED <<live, moved, size, text>>

clear(b) ==
    /\ b \in Usable
    /\ size' = [size EXCEPT ![b] = 0]
    /\ text' = [text EXCEPT ![b] = <<>>]
    /\ UNCHANGED <<live, moved, ptr, capacity, data, heap, allocated>>

\* Seeded defect: the block stays with the buffer it was moved from, too.
MoveSharing(b, other) ==
    /\ size' = [size EXCEPT ![b] = size[other]]
    /\ capacity' = [capacity EXCEPT ![b] = capacity[other]]
    /\ text' = [text EXCEPT ![b] = text[other]]
    /\ moved' = (moved \ {b}) \union {other}
    /\ ptr' = [ptr EXCEPT ![b] = ptr[other]]
    /\ data' = IF ptr[other] = data_
               THEN [data EXCEPT ![b] = Copied(@, 0,
                       SubSeq(data[other], 1, size[other]))]
               ELSE data

\* What b takes over from other: characters other keeps in itself are
\* copied, a block changes hands.
move(b, other) ==
    /\ size' = [size EXCEPT ![b] = size[other]]
    /\ capacity' = [capacity EXCEPT ![b] = capacity[other]]
    /\ text' = [text EXCEPT ![b] = text[other]]
    /\ moved' = (moved \ {b}) \union {other}
    /\ IF ptr[other] = data_
       THEN /\ ptr' = [ptr EXCEPT ![b] = data_]
            /\ data' = [data EXCEPT ![b] = Copied(@, 0,
                          SubSeq(data[other], 1, size[other]))]
       ELSE /\ ptr' = [ptr EXCEPT ![b] = ptr[other], ![other] = data_]
            /\ UNCHANGED data

MoveConstruct(b, other) ==
    /\ b \notin live
    /\ other \in Usable
    /\ live' = live \union {b}
    /\ move(b, other)
    /\ UNCHANGED <<heap, allocated>>

\* Seeded defect: the block of the buffer assigned to is forgotten.
AssignOver(b, other) ==
    /\ b \in live
    /\ other \in Usable \ {b}
    /\ move(b, other)
    /\ UNCHANGED <<live, heap, allocated>>

MoveAssign(b, other) ==
    /\ b \in live
    /\ other \in Usable \ {b}
    /\ allocated' = deallocate(b)
    /\ heap' = Freed(b)
    /\ move(b, other)
    /\ UNCHANGED live

\* Seeded defect: whether the buffer was moved from is not forgotten.
DestroyMoved(b) ==
    /\ b \in live
    /\ live' = live \ {b}
    /\ allocated' = deallocate(b)
    /\ heap' = Freed(b)
    /\ UNCHANGED <<moved, ptr, size, capacity, data, text>>

Destroy(b) ==
    /\ b \in live
    /\ live' = live \ {b}
    /\ moved' = moved \ {b}
    /\ allocated' = deallocate(b)
    /\ heap' = Freed(b)
    /\ ptr' = [ptr EXCEPT ![b] = data_]
    /\ size' = [size EXCEPT ![b] = 0]
    /\ capacity' = [capacity EXCEPT ![b] = SIZE]
    /\ data' = [data EXCEPT ![b] = Repeated(Unwritten, SIZE)]
    /\ text' = [text EXCEPT ![b] = <<>>]

Texts == UNION {[1..n -> Chars] : n \in 0..MaxAppend}

Next ==
    \E b \in Buffers :
        \/ Construct(b)
        \/ \E c \in Chars : push_back(b, c)
        \/ \E s \in Texts : append(b, s)
        \/ \E n \in 0..MaxCapacity : resize(b, n) \/ reserve(b, n)
        \/ clear(b)
        \/ \E other \in Buffers : MoveConstruct(b, other) \/ MoveAssign(b, other)
        \/ Destroy(b)

Spec == Init /\ [][Next]_vars

-----------------------------------------------------------------------------
TypeOK ==
    /\ live \subseteq Buffers
    /\ moved \subseteq live
    /\ ptr \in [Buffers -> Blocks \union {data_}]
    /\ allocated \subseteq Blocks
    /\ size \in [Buffers -> Nat]
    /\ capacity \in [Buffers -> Nat]

\* A block in use is allocated and belongs to one buffer only: none is used
\* or given up after it was given up, and none is given up twice.
OwnedOnce ==
    \A b \in live : ptr[b] # data_ =>
        /\ ptr[b] \in allocated
        /\ \A c \in live : ptr[c] = ptr[b] => c = b

\* A block that is allocated belongs to some buffer: none is lost.
NoneIsLost == \A k \in allocated : \E b \in live : ptr[b] = k

\* Every block has exactly one owner from when grow allocates it until it is
\* given up, through moves, assignments and destruction: none is given up
\* twice, used afterwards, or lost.
BlocksAreOwned == OwnedOnce /\ NoneIsLost

\* What was put into a buffer is in it, however often it grew or moved; of
\* characters that were never written nothing is said.
ContentsKept ==
    \A b \in Usable :
        /\ size[b] = Len(text[b])
        /\ \A i \in 1..size[b] :
              text[b][i] # Unwritten => Storage(b)[i] = text[b][i]

\* A buffer that may be used has the storage it takes itself to have.
CapacityIsStorage ==
    \A b \in Usable : size[b] <= capacity[b]
                        /\ capacity[b] = Len(Storage(b))
=============================================================================
