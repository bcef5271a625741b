--------------------------- MODULE IOBuffer_proofs ---------------------------
(***************************************************************************)
(* Proofs about IOBuffer, for every capacity, every set of bytes and, but  *)
(* for the refinement, every rule of when the writer's pointer is retaken. *)
(***************************************************************************)
EXTENDS IOBuffer, TLAPS

-----------------------------------------------------------------------------
(* The positions *)

\* Layout alone is not inductive: a drain must know that rstart is a natural
\* number, and a reset that an empty buffer has both positions at the front.
PositionsInv == TypeOK /\ Layout

LEMMA InitPositions == Init => PositionsInv
  BY BufferAssumption DEF Init, PositionsInv, TypeOK, Layout, Empty, RSize, WSize, NoPointer

\* A string of the model is a sequence of at most MaxCapacity bytes.
LEMMA StringLength ==
  ASSUME NEW bytes \in Strings
  PROVE  Len(bytes) \in Nat /\ bytes \in Seq(Byte)
  BY BufferAssumption DEF Strings, Sizes

\* Each disjunct of reserve(), and its failure, keeps the positions ordered.
LEMMA ReservePositions ==
  ASSUME PositionsInv, NEW size \in Sizes, Reserve(size) \/ ReserveThrows(size)
  PROVE  PositionsInv'
<1> USE BufferAssumption
    DEF PositionsInv, TypeOK, Layout, Empty, RSize, WSize, ReclaimedWSize, Sizes
<1>p. wptr' \in 0..MaxCapacity \cup {NoPointer}
  BY DEF Reserve, ReserveThrows, Pointer
<1>1. CASE ReserveIsNoop(size)
  BY <1>p, <1>1 DEF ReserveIsNoop
<1>2. CASE ReserveReclaims(size) \/ ReserveThrows(size)
  <2>1. data' \in [0..capacity' - 1 -> Byte \cup {Junk}]
    BY <1>2 DEF ReserveReclaims, ReserveThrows, Reclaim, Reclaimed
  <2> QED
    BY <1>p, <1>2, <2>1 DEF ReserveReclaims, ReserveThrows, Reclaim
<1>3. CASE ReserveGrows(size)
  <2>1. data' \in [0..capacity' - 1 -> Byte \cup {Junk}]
    BY <1>3 DEF ReserveGrows, Reclaimed
  <2> QED
    BY <1>p, <1>3, <2>1 DEF ReserveGrows
<1> QED
  BY <1>1, <1>2, <1>3 DEF Reserve

LEMMA WritePositions ==
  ASSUME PositionsInv, NEW bytes \in Strings, Write(bytes)
  PROVE  PositionsInv'
<1> USE BufferAssumption, StringLength
    DEF PositionsInv, TypeOK, Layout, Empty, RSize, WSize, Write
<1>1. data' \in [0..capacity' - 1 -> Byte \cup {Junk}]
  BY DEF NoPointer
<1>2. wptr' \in 0..MaxCapacity \cup {NoPointer}
  BY DEF Pointer
<1> QED
  BY <1>1, <1>2

LEMMA DrainPositions ==
  ASSUME PositionsInv, NEW size \in Sizes, Drain(size)
  PROVE  PositionsInv'
  BY BufferAssumption
     DEF PositionsInv, TypeOK, Layout, Empty, RSize, WSize, Sizes, Drain, Pointer

LEMMA NextPositions == PositionsInv /\ [Next]_vars => PositionsInv'
<1> SUFFICES ASSUME PositionsInv, [Next]_vars
             PROVE  PositionsInv'
  OBVIOUS
<1>1. ASSUME NEW size \in Sizes, Reserve(size) \/ ReserveThrows(size)
      PROVE  PositionsInv'
  BY <1>1, ReservePositions
<1>2. CASE TakeWStart
  BY <1>2 DEF TakeWStart, PositionsInv, TypeOK, Layout, Empty, RSize, WSize
<1>3. ASSUME NEW bytes \in Strings, Write(bytes)
      PROVE  PositionsInv'
  BY <1>3, WritePositions
<1>4. ASSUME NEW size \in Sizes, Drain(size)
      PROVE  PositionsInv'
  BY <1>4, DrainPositions
<1>5. CASE UNCHANGED vars
  BY <1>5 DEF vars, PositionsInv, TypeOK, Layout, Empty, RSize, WSize
<1> QED
  BY <1>1, <1>2, <1>3, <1>4, <1>5 DEF Next

LEMMA AlwaysPositions == Spec => []PositionsInv
  BY InitPositions, NextPositions, PTL DEF Spec

\* Every variable keeps its type, the memory the size of the allocation.
THEOREM TypeCorrect == Spec => []TypeOK
  BY AlwaysPositions, PTL DEF PositionsInv

\* Readable before writable, both inside the allocation, and all of it to
\* write to once the buffer is drained.
THEOREM LayoutHolds == Spec => []Layout
  BY AlwaysPositions, PTL DEF PositionsInv

\* reserve(size) leaves room for size bytes and grows by what is missing only.
THEOREM ReserveRoom == Spec => ReserveGivesRoom
<1>1. PositionsInv /\ [Next]_vars =>
        [\A size \in Sizes :
            Reserve(size) =>
                /\ size <= WSize'
                /\ capacity' # capacity => /\ size > ReclaimedWSize
                                          /\ WSize' = size]_vars
  BY BufferAssumption
     DEF PositionsInv, TypeOK, Layout, Empty, RSize, WSize, ReclaimedWSize, Sizes,
         Reserve, ReserveIsNoop, ReserveReclaims, ReserveGrows, Reclaim
<1> QED
  BY <1>1, AlwaysPositions, PTL DEF Spec, ReserveGivesRoom

-----------------------------------------------------------------------------
(* The bytes *)

\* What makes the buffer a queue: whatever is readable has been written, and a
\* pointer the writer holds is where the next byte belongs.
ContentInv ==
  /\ PositionsInv
  /\ \A i \in rstart..wstart - 1 : data[i] \in Byte
  /\ wptr # NoPointer => wptr = wstart

\* Unread is a sequence of bytes as long as the readable part.
LEMMA UnreadType ==
  ASSUME ContentInv
  PROVE  /\ RSize \in Nat
         /\ Unread \in Seq(Byte)
         /\ Len(Unread) = RSize
<1>1. RSize \in Nat
  BY DEF ContentInv, PositionsInv, TypeOK, Layout, RSize
<1>2. ASSUME NEW i \in 1..RSize
      PROVE  data[rstart + i - 1] \in Byte
  BY <1>1, <1>2 DEF ContentInv, PositionsInv, TypeOK, Layout, RSize
<1>3. Unread \in [1..RSize -> Byte]
  BY <1>2 DEF Unread
<1> QED
  BY <1>1, <1>3

LEMMA InitContent == Init => ContentInv /\ Unread = << >>
<1> SUFFICES ASSUME Init PROVE ContentInv /\ Unread = << >>
  OBVIOUS
<1>1. ContentInv
  BY InitPositions DEF Init, ContentInv
<1>2. Len(Unread) = 0
  BY <1>1, UnreadType DEF Init, RSize
<1> QED
  BY <1>1, <1>2, UnreadType

LEMMA RangeOffset ==
  ASSUME NEW r \in Int, NEW w \in Int, NEW i \in r..w - 1
  PROVE  \E k \in 1..w - r : i = r + k - 1
<1>1. i - r + 1 \in 1..w - r /\ i = r + (i - r + 1) - 1
  OBVIOUS
<1> QED
  BY <1>1

\* reserve() moves the readable bytes and changes none of them.
LEMMA ReserveKeepsUnread ==
  ASSUME Retake = Operations, ContentInv,
         NEW size \in Sizes, Reserve(size) \/ ReserveThrows(size)
  PROVE  ContentInv' /\ Unread' = Unread
<1>1. PositionsInv'
  BY ReservePositions DEF ContentInv
<1>2. wptr' = NoPointer
  BY DEF Reserve, ReserveThrows, Pointer, Operations
<1>3. RSize' = RSize
  BY DEF ContentInv, PositionsInv, TypeOK, Layout, RSize, Reserve, ReserveThrows,
         ReserveIsNoop, ReserveReclaims, ReserveGrows, Reclaim
<1>4. ASSUME NEW i \in 1..RSize
      PROVE  data'[rstart' + i - 1] = data[rstart + i - 1]
  <2> USE <1>4 DEF ContentInv, PositionsInv, TypeOK, Layout, RSize
  <2>1. CASE ReserveIsNoop(size)
    BY <2>1 DEF ReserveIsNoop
  <2>2. CASE ReserveReclaims(size) \/ ReserveThrows(size)
    BY <2>2 DEF ReserveReclaims, ReserveThrows, Reclaim, Reclaimed
  <2>3. CASE ReserveGrows(size)
    BY <2>3 DEF ReserveGrows, Reclaimed, ReclaimedWSize, Sizes
  <2> QED
    BY <2>1, <2>2, <2>3 DEF Reserve
<1>5. Unread' = Unread
  BY <1>3, <1>4 DEF Unread
<1>6. ASSUME NEW i \in rstart'..wstart' - 1
      PROVE  data'[i] \in Byte
  <2>1. PICK k \in 1..RSize : i = rstart' + k - 1
    <3>1. rstart' \in Int /\ wstart' \in Int
      BY <1>1, BufferAssumption DEF PositionsInv, TypeOK
    <3>2. RSize = wstart' - rstart'
      BY <1>3 DEF RSize
    <3> QED
      BY <1>6, <3>1, <3>2, RangeOffset
  <2>2. data'[i] = data[rstart + k - 1]
    BY <1>4, <2>1
  <2> QED
    BY <2>1, <2>2 DEF ContentInv, PositionsInv, TypeOK, Layout, RSize
<1> QED
  BY <1>1, <1>2, <1>5, <1>6 DEF ContentInv

\* A write through a current pointer appends to what is readable.
LEMMA WriteAppends ==
  ASSUME Retake = Operations, ContentInv, NEW bytes \in Strings, Write(bytes)
  PROVE  ContentInv' /\ Queue!Put
<1>1. PositionsInv'
  BY WritePositions DEF ContentInv
<1>2. wptr' = NoPointer
  BY DEF Write, Pointer, Operations
<1>3. ASSUME NEW i \in rstart'..wstart' - 1
      PROVE  /\ i < wstart => data'[i] = data[i]
             /\ data'[i] \in Byte
  <2>1. CASE i < wstart
    BY <1>3, <2>1, StringLength
       DEF Write, ContentInv, PositionsInv, TypeOK, Layout
  <2>2. CASE i >= wstart
    <3>1. i - wstart + 1 \in 1..Len(bytes)
      BY <1>3, <2>2, StringLength
         DEF Write, ContentInv, PositionsInv, TypeOK, Layout
    <3>2. data'[i] = bytes[i - wstart + 1]
      BY <1>3, <2>2, <3>1, StringLength
         DEF Write, ContentInv, PositionsInv, TypeOK, Layout
    <3> QED
      BY <2>2, <3>1, <3>2, StringLength
         DEF ContentInv, PositionsInv, TypeOK
  <2> QED
    BY <1>3, <2>1, <2>2 DEF ContentInv, PositionsInv, TypeOK, Write
<1>4. ContentInv'
  BY <1>1, <1>2, <1>3 DEF ContentInv
<1>5. /\ Unread \in Seq(Byte) /\ Len(Unread) = RSize /\ RSize \in Nat
      /\ Unread' \in Seq(Byte) /\ Len(Unread') = RSize' /\ RSize' \in Nat
  <2>1. Unread \in Seq(Byte) /\ Len(Unread) = RSize /\ RSize \in Nat
    BY UnreadType
  <2>2. (Unread \in Seq(Byte) /\ Len(Unread) = RSize /\ RSize \in Nat)'
    BY <1>4, UnreadType, PTL
  <2> QED
    BY <2>1, <2>2
<1>6. RSize <= RSize'
  BY StringLength DEF Write, ContentInv, PositionsInv, TypeOK, RSize
<1>7. ASSUME NEW i \in 1..RSize
      PROVE  Unread'[i] = Unread[i]
  BY <1>3, <1>5, <1>6, <1>7
     DEF Unread, ContentInv, PositionsInv, TypeOK, Layout, RSize, Write
<1>8. Unread = SubSeq(Unread', 1, Len(Unread))
  BY <1>5, <1>6, <1>7
<1> QED
  BY <1>4, <1>5, <1>6, <1>8 DEF Queue!Put

\* drain(size) removes the first size bytes.
LEMMA DrainTakes ==
  ASSUME Retake = Operations, ContentInv, NEW size \in Sizes, Drain(size)
  PROVE  ContentInv' /\ Queue!Take
<1>1. PositionsInv'
  BY DrainPositions DEF ContentInv
<1>2. wptr' = NoPointer
  BY DEF Drain, Pointer, Operations
<1>3. ContentInv'
  <2>1. ASSUME NEW i \in rstart'..wstart' - 1
        PROVE  i \in rstart..wstart - 1
    BY <2>1, BufferAssumption DEF ContentInv, PositionsInv, TypeOK, Layout, Drain, Sizes
  <2> QED
    BY <1>1, <1>2, <2>1 DEF ContentInv, Drain
<1>4. /\ Unread \in Seq(Byte) /\ Len(Unread) = RSize /\ RSize \in Nat
      /\ Unread' \in Seq(Byte) /\ Len(Unread') = RSize' /\ RSize' \in Nat
  <2>1. Unread \in Seq(Byte) /\ Len(Unread) = RSize /\ RSize \in Nat
    BY UnreadType
  <2>2. (Unread \in Seq(Byte) /\ Len(Unread) = RSize /\ RSize \in Nat)'
    BY <1>3, UnreadType, PTL
  <2> QED
    BY <2>1, <2>2
<1>5. size \in 0..RSize /\ RSize' = RSize - size
  BY DEF Drain, ContentInv, PositionsInv, TypeOK, Layout, RSize, Sizes
<1>6. ASSUME NEW i \in 1..RSize'
      PROVE  Unread'[i] = Unread[size + i]
  BY <1>4, <1>5, <1>6
     DEF Unread, Drain, ContentInv, PositionsInv, TypeOK, Layout, RSize
<1>7. Unread' = SubSeq(Unread, size + 1, Len(Unread))
  BY <1>4, <1>5, <1>6
<1> QED
  BY <1>3, <1>4, <1>5, <1>7 DEF Queue!Take

\* Every step of the buffer is a step of the queue, or changes nothing in it.
LEMMA NextContent ==
  ASSUME Retake = Operations, ContentInv, [Next]_vars
  PROVE  ContentInv' /\ [Queue!Next]_Unread
<1>1. ASSUME NEW size \in Sizes, Reserve(size) \/ ReserveThrows(size)
      PROVE  ContentInv' /\ [Queue!Next]_Unread
  BY <1>1, ReserveKeepsUnread
<1>2. CASE TakeWStart \/ UNCHANGED vars
  <2>1. PositionsInv'
    BY NextPositions, <1>2 DEF ContentInv
  <2>2. Unread' = Unread
    BY <1>2 DEF TakeWStart, vars, Unread, RSize
  <2> QED
    BY <1>2, <2>1, <2>2 DEF TakeWStart, vars, ContentInv
<1>3. ASSUME NEW bytes \in Strings, Write(bytes)
      PROVE  ContentInv' /\ [Queue!Next]_Unread
  BY <1>3, WriteAppends DEF Queue!Next
<1>4. ASSUME NEW size \in Sizes, Drain(size)
      PROVE  ContentInv' /\ [Queue!Next]_Unread
  BY <1>4, DrainTakes DEF Queue!Next
<1> QED
  BY <1>1, <1>2, <1>3, <1>4 DEF Next

\* With a writer that fetches wstart() for every use, IO::Buffer implements a
\* queue of bytes, whatever its capacity.
THEOREM BufferIsAQueue ==
  ASSUME Retake = Operations
  PROVE  Spec => ImplementsByteQueue
<1>1. Init => ContentInv /\ Queue!Init
  BY InitContent DEF Queue!Init
<1>2. ContentInv /\ [Next]_vars => ContentInv' /\ [Queue!Next]_Unread
  BY NextContent
<1> QED
  BY <1>1, <1>2, PTL DEF Spec, ImplementsByteQueue, Queue!Spec
==============================================================================
