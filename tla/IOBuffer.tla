------------------------------- MODULE IOBuffer -------------------------------
(***************************************************************************)
(* IO::Buffer (src/src/io-buffer.cc): one allocation of `capacity' bytes,  *)
(* of which [rstart, wstart) are readable and [wstart, capacity) writable. *)
(* The buffer is used by a reader, which drains, and a writer, which asks  *)
(* for room, takes wstart(), stores bytes there and then calls fill().     *)
(*                                                                         *)
(* A C++ pointer is an offset into the allocation.  The writer's pointer   *)
(* is state of its own, because the question the header leaves open is for *)
(* how long a wstart() result may be used: Retake is the set of operations *)
(* after which the writer fetches it again.  Every writer in src/ fetches  *)
(* it for each use, so Retake is all of Operations for this program.       *)
(***************************************************************************)
EXTENDS Integers, Sequences

CONSTANTS
    Byte,           \* what a writer may store
    Junk,           \* the content of memory nobody has written
    MaxCapacity,    \* bound on the allocation
    InitialSizes,   \* arguments of the constructor, 0 is the default one
    Retake          \* operations after which the writer's pointer is retaken

Operations == {"reserve", "fill", "drain"}
NoPointer == -1

ASSUME BufferAssumption ==
    /\ Junk \notin Byte
    /\ MaxCapacity \in Nat
    /\ InitialSizes \subseteq 0..MaxCapacity
    /\ Retake \subseteq Operations

VARIABLES
    data,       \* the allocation
    capacity,
    rstart,
    wstart,
    wptr        \* the wstart() result the writer holds, or NoPointer

vars == <<data, capacity, rstart, wstart, wptr>>

TypeOK ==
    /\ capacity \in 0..MaxCapacity
    /\ data \in [0..capacity - 1 -> Byte \cup {Junk}]
    /\ rstart \in 0..MaxCapacity
    /\ wstart \in 0..MaxCapacity
    /\ wptr \in 0..MaxCapacity \cup {NoPointer}

RSize == wstart - rstart
WSize == capacity - wstart
Empty == RSize = 0
Full  == WSize = 0

\* The bytes a reader sees from rstart() on.
Unread == [i \in 1..RSize |-> data[rstart + i - 1]]

\* The pointer the writer holds after operation op.
Pointer(op) == IF op \in Retake THEN NoPointer ELSE wptr

-------------------------------------------------------------------------------

\* grow() of the constructor: realloc() of a null pointer
Init ==
    /\ capacity \in InitialSizes
    /\ data = [i \in 0..capacity - 1 |-> Junk]
    /\ rstart = 0
    /\ wstart = 0
    /\ wptr = NoPointer

\* Mutant of Reclaimed: the positions move, the bytes do not.
ReclaimedInPlace == data

\* memmove() of the readable bytes to the front of the allocation
Reclaimed ==
    [i \in 0..capacity - 1 |-> IF i < RSize THEN data[rstart + i] ELSE data[i]]

\* The wsize() reserve() has left after its call of reclaim(): with rstart 0
\* there was nothing to reclaim and this is wsize() itself.
ReclaimedWSize == capacity - RSize

Reclaim ==
    /\ data' = Reclaimed
    /\ rstart' = 0
    /\ wstart' = RSize

ReserveIsNoop(size) ==
    /\ size = 0 \/ size <= WSize
    /\ UNCHANGED <<data, capacity, rstart, wstart>>

ReserveReclaims(size) ==
    /\ size > WSize
    /\ size <= ReclaimedWSize
    /\ Reclaim
    /\ UNCHANGED capacity

\* Mutant of ReserveGrows: the room there is does not count.
GrowsBySize(size) ==
    /\ size > WSize
    /\ size > ReclaimedWSize
    /\ capacity' = capacity + size
    /\ capacity' <= MaxCapacity
    /\ data' = [i \in 0..capacity' - 1 |->
                    IF i < capacity THEN Reclaimed[i] ELSE Junk]
    /\ rstart' = 0
    /\ wstart' = RSize

ReserveGrows(size) ==
    /\ size > WSize
    /\ size > ReclaimedWSize
    /\ capacity' = capacity + (size - ReclaimedWSize)
    /\ capacity' <= MaxCapacity
    /\ data' = [i \in 0..capacity' - 1 |->
                    IF i < capacity THEN Reclaimed[i] ELSE Junk]
    /\ rstart' = 0
    /\ wstart' = RSize

\* reserve(size), and the early returns on its way
Reserve(size) ==
    /\ \/ ReserveIsNoop(size)
       \/ ReserveReclaims(size)
       \/ ReserveGrows(size)
    /\ wptr' = Pointer("reserve")

\* realloc() fails in grow(): std::bad_alloc leaves reserve() after reclaim()
\* has moved the bytes.
ReserveThrows(size) ==
    /\ size > WSize
    /\ size > ReclaimedWSize
    /\ Reclaim
    /\ UNCHANGED capacity
    /\ wptr' = Pointer("reserve")

\* The writer calls wstart().
TakeWStart ==
    /\ wptr' = wstart
    /\ UNCHANGED <<data, capacity, rstart, wstart>>

\* Mutant of Write: more is stored than there is room for.
WriteUnchecked(bytes) ==
    /\ wptr # NoPointer
    /\ data' = [i \in 0..capacity - 1 |->
                    IF i \in wptr..wptr + Len(bytes) - 1
                    THEN bytes[i - wptr + 1] ELSE data[i]]
    /\ wstart' = wstart + Len(bytes)
    /\ wptr' = Pointer("fill")
    /\ UNCHANGED <<capacity, rstart>>

\* The writer stores at most wsize() bytes at its pointer and calls fill(),
\* whose assertion is the first guard.
Write(bytes) ==
    /\ wptr # NoPointer
    /\ wstart + Len(bytes) <= capacity
    /\ data' = [i \in 0..capacity - 1 |->
                    IF i \in wptr..wptr + Len(bytes) - 1
                    THEN bytes[i - wptr + 1] ELSE data[i]]
    /\ wstart' = wstart + Len(bytes)
    /\ wptr' = Pointer("fill")
    /\ UNCHANGED <<capacity, rstart>>

\* Mutant of Drain: the positions never go back to the front.
DrainKeepsPositions(size) ==
    /\ size <= RSize
    /\ rstart' = rstart + size
    /\ wptr' = Pointer("drain")
    /\ UNCHANGED <<data, capacity, wstart>>

\* The reader calls drain(size); a drain of everything moves both positions
\* back to the front of the allocation.
Drain(size) ==
    /\ size <= RSize
    /\ IF rstart + size = wstart
       THEN rstart' = 0 /\ wstart' = 0
       ELSE rstart' = rstart + size /\ UNCHANGED wstart
    /\ wptr' = Pointer("drain")
    /\ UNCHANGED <<data, capacity>>

-------------------------------------------------------------------------------

Sizes == 0..MaxCapacity
Strings == UNION {[1..n -> Byte] : n \in Sizes}

Next ==
    \/ \E size \in Sizes : Reserve(size)
    \/ \E size \in Sizes : ReserveThrows(size)
    \/ TakeWStart
    \/ \E bytes \in Strings : Write(bytes)
    \/ \E size \in Sizes : Drain(size)

Spec == Init /\ [][Next]_vars
-------------------------------------------------------------------------------
\* Properties

\* The readable bytes lie before the writable ones, inside the allocation, and
\* a buffer that has been drained has its whole allocation to write to again
\* (drain(), lines 47-50): a user that drains everything never runs out of
\* room by draining in small pieces, with no call of reserve().
Layout ==
    /\ rstart <= wstart
    /\ wstart <= capacity
    /\ Empty => WSize = capacity

\* After reserve(size) there is room for size bytes; the allocation grows only
\* if moving the bytes to its front is not enough, and then by no byte more
\* than is missing (reserve(), lines 73-92).
ReserveGivesRoom ==
    [][\A size \in Sizes :
        Reserve(size) =>
            /\ size <= WSize'
            /\ capacity' # capacity => /\ size > ReclaimedWSize
                                      /\ WSize' = size]_vars

\* What a reader sees is a FIFO of what the writer wrote: neither the move of
\* the bytes in reclaim(), nor a grow(), nor the reset of the positions by a
\* drain(), nor a failed allocation changes a readable byte or its order, and
\* no uninitialised byte is ever readable.
Queue == INSTANCE ByteQueue WITH queue <- Unread

ImplementsByteQueue == Queue!Spec

\* What buffer.h says of the pointer: of fill() and drain() its comments say
\* that they invalidate the results of rsize and wsize, and of reserve() alone
\* that it invalidates wstart too, so a pointer held across a drain() should
\* still be where the next byte goes.
WriterPointerCurrent == wptr # NoPointer => wptr = wstart

===============================================================================
