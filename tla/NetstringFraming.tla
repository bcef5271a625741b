--------------------------- MODULE NetstringFraming ---------------------------
(***************************************************************************)
(* The framing of NetstringReader as a definition on whole streams, with   *)
(* no state and no chunks: a frame is a length in decimal digits, a colon, *)
(* that many bytes, and a comma.  NetstringReader is checked against it.   *)
(***************************************************************************)
EXTENDS NetstringReader, FiniteSetsExt

\* The number that the digits s[i..j] stand for.
Decimal(s, i, j) ==
    LET value[k \in i - 1..j] == IF k < i THEN 0 ELSE value[k - 1] * 10 + s[k]
    IN  value[j]

\* The first byte from i on that is no digit, or one past the end.
HeaderEnd(s, i) ==
    Min({k \in i..Len(s) : s[k] \notin Digit} \cup {Len(s) + 1})

\* The reader takes a missing length for a zero in all frames but the first:
\* after a message it goes on in state `length' instead of `start'.
MayBeEmpty(i, lax) == lax /\ i > 1

HeaderComplete(s, i, lax) ==
    LET e == HeaderEnd(s, i)
    IN  /\ e <= Len(s)
        /\ s[e] = Colon
        /\ e > i \/ MayBeEmpty(i, lax)

Size(s, i) == Decimal(s, i, HeaderEnd(s, i) - 1)
FrameEnd(s, i) == HeaderEnd(s, i) + Size(s, i) + 1

\* The largest size_t is no length: adding the delimiter to it overflows.
Frame(s, i, lax) ==
    /\ HeaderComplete(s, i, lax)
    /\ Size(s, i) < SizeMod - 1
    /\ FrameEnd(s, i) <= Len(s)
    /\ s[FrameEnd(s, i)] = Comma

Payload(s, i) == SubSeq(s, HeaderEnd(s, i) + 1, FrameEnd(s, i) - 1)

\* The payloads of the frames of s from i on, and where the first unfinished one
\* starts, for every i.
DecodeFrom(s, lax) ==
    LET from[i \in 1..Len(s) + 1] ==
          IF Frame(s, i, lax)
          THEN LET next == from[FrameEnd(s, i) + 1]
               IN  [payloads |-> <<Payload(s, i)>> \o next.payloads, rest |-> next.rest]
          ELSE [payloads |-> << >>, rest |-> i]
    IN  from

Decode(s, lax) == DecodeFrom(s, lax)[1]

\* No continuation of s makes a frame of what starts at i.
Broken(s, i, lax) ==
    LET e == HeaderEnd(s, i)
    IN  \/ e <= Len(s) /\ ~HeaderComplete(s, i, lax)
        \/ HeaderComplete(s, i, lax) /\ Size(s, i) = SizeMod - 1
        \/ /\ HeaderComplete(s, i, lax)
           /\ FrameEnd(s, i) <= Len(s)
           /\ s[FrameEnd(s, i)] # Comma

\* The streams the definition judges: those whose lengths are numbers a size_t
\* can hold, and that have no high byte in a header.
Judged(s, lax) ==
    LET i == Decode(s, lax).rest
        e == HeaderEnd(s, i)
    IN  /\ Size(s, i) < SizeMod
        /\ e <= Len(s) => s[e] \notin HighByte

-------------------------------------------------------------------------------

\* However the stream was cut into chunks, when parse() has returned false the
\* strings delivered are the payloads of all complete frames received so far,
\* and when it has thrown there is something that can never become a frame;
\* while it runs, or when the consumer of a string has thrown, it has delivered
\* a part of them.  (parse(), lines 19-49)
FramingFollowed ==
    Judged(fed, TRUE) =>
        LET decoded == Decode(fed, TRUE)
            broken == Broken(fed, decoded.rest, TRUE)
        IN  CASE pc = "idle"    -> out = decoded.payloads /\ ~broken
              [] pc = "failed"  -> out = decoded.payloads /\ broken
              [] pc \in {"parsing", "thrown"} -> out = SubSeq(decoded.payloads, 1, Len(out))

\* The test missing_length_test wants a frame without a length refused.
MissingLengthRejected ==
    Judged(fed, FALSE) /\ pc = "idle" => ~Broken(fed, Decode(fed, FALSE).rest, FALSE)
===============================================================================
