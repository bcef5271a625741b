------------------------------ MODULE ByteQueue ------------------------------
(***************************************************************************)
(* What IO::Buffer promises to its two users, the ReadBuffer and the       *)
(* WriteBuffer interfaces of src/src/include/io/buffer.h: a FIFO of bytes. *)
(* A writer appends bytes at the end, a reader removes them at the front,  *)
(* and nothing else ever changes what is readable.  How much memory there  *)
(* is, and where in it the bytes lie, does not show.                       *)
(***************************************************************************)
EXTENDS Naturals, Sequences

CONSTANT Byte      \* what a writer may store

VARIABLE queue     \* the bytes written and not yet drained, oldest first

Init == queue = << >>

Put == /\ queue' \in Seq(Byte)
       /\ Len(queue) <= Len(queue')
       /\ queue = SubSeq(queue', 1, Len(queue))

Take == \E n \in 0..Len(queue) : queue' = SubSeq(queue, n + 1, Len(queue))

Next == Put \/ Take

Spec == Init /\ [][Next]_queue
==============================================================================
