------------------------ MODULE MCBufferedStreamSocket ------------------------
(***************************************************************************)
(* Bounds for BufferedStreamSocket.  A frame of n bytes takes n + 3 bytes  *)
(* of a buffer of six: the largest one used fits exactly.                  *)
(***************************************************************************)
EXTENDS BufferedStreamSocket

FrameOf(n) == <<n, Colon>> \o [i \in 1..n |-> CHOOSE x \in Other : TRUE] \o <<Comma>>

Sizes == 0..3

MCStreams ==
    {FrameOf(i) \o FrameOf(j) : i, j \in Sizes} \cup
    {FrameOf(i) \o FrameOf(j) \o FrameOf(0) : i, j \in Sizes} \cup
    {FrameOf(i) \o <<Comma>> : i \in Sizes} \cup
    {FrameOf(i) \o <<1, h>> \o FrameOf(j) : i, j \in Sizes, h \in HighByte} \cup
    {<<h>> \o FrameOf(i) \o FrameOf(j) : i, j \in Sizes, h \in HighByte}
===============================================================================
