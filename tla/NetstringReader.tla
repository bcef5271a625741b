---------------------------- MODULE NetstringReader ----------------------------
(***************************************************************************)
(* Netstring::Reader (src/src/netstring-reader.cc) on its IO::StreamBuffer *)
(* (src/src/io-stream-buffer.cc), called as Baresip::Ctrl calls it: from   *)
(* on_fill, in a loop that ends when parse() returns false or throws.      *)
(*                                                                         *)
(* The buffer is the queue of ByteQueue, which IOBuffer implements.  One   *)
(* step is one turn of the loops of parse() and parse_length().  A digit   *)
(* is its value; the other bytes are model values.                         *)
(***************************************************************************)
EXTENDS Integers, Sequences

CONSTANTS
    Digit,      \* the digits that occur, as numbers
    Colon,
    Comma,
    Other,      \* bytes that mean nothing to the framing
    HighByte,   \* 0xff: a signed char of value -1, which is StreamBuffer::End
    SizeMod,    \* size_t arithmetic is modulo SizeMod
    MaxStream,  \* bound on the bytes fed into the buffer
    MaxChunk    \* bound on the bytes that arrive at once

Byte == Digit \cup {Colon, Comma} \cup Other \cup HighByte

ReaderConstants ==
    /\ Digit \subseteq 0..9
    /\ SizeMod \in Nat \ {0}
    /\ MaxStream \in Nat
    /\ MaxChunk \in Nat
    /\ Colon \notin Digit /\ Comma \notin Digit /\ Colon # Comma
    /\ HighByte \cap (Digit \cup {Colon, Comma} \cup Other) = {}
    /\ Other \cap (Digit \cup {Colon, Comma}) = {}

ASSUME ReaderAssumption == ReaderConstants

VARIABLES
    buf,    \* the unread bytes of the receive buffer
    state,  \* Reader::state_
    len,    \* Reader::len_
    pc,     \* "idle": waiting for on_fill, "parsing": in the loop, "failed": parse()
            \* has thrown, "thrown": the consumer of a string has
    out,    \* the strings parse() has returned
    fed     \* every byte that was ever in the buffer

vars == <<buf, state, len, pc, out, fed>>

TypeOK ==
    /\ buf \in Seq(Byte)
    /\ state \in {"start", "length", "string", "delim"}
    /\ len \in 0..SizeMod - 1
    /\ pc \in {"idle", "parsing", "failed", "thrown"}
    /\ out \in Seq(Seq(Byte))
    /\ fed \in Seq(Byte)

Init ==
    /\ buf = << >>
    /\ state = "start"
    /\ len = 0
    /\ pc = "idle"
    /\ out = << >>
    /\ fed = << >>

-------------------------------------------------------------------------------
(* StreamBuffer *)

\* get() returns End on an empty buffer, and it returns the same number for a
\* high byte, which it removes.
GetsEnd == buf # << >> => Head(buf) \in HighByte
Gets(c) == buf # << >> /\ Head(buf) = c

\* What get() leaves in the buffer.
Rest == IF buf = << >> THEN << >> ELSE Tail(buf)

\* Mutant of PeekComma: any byte will do for a delimiter.
PeekAny == len < Len(buf)

\* peek(len) is the byte behind the string, if there is one
PeekComma == len < Len(buf) /\ buf[len + 1] = Comma

-------------------------------------------------------------------------------
(* Reader *)

ParsingLength == pc = "parsing" /\ state \in {"start", "length"}

\* Mutant of LengthDigit: the length does not wrap around.
LengthDigitUnbounded ==
    /\ ParsingLength
    /\ \E d \in Digit :
          /\ Gets(d)
          /\ len' = len * 10 + d
    /\ buf' = Rest
    /\ state' = "length"
    /\ UNCHANGED <<pc, out, fed>>

LengthDigit ==
    /\ ParsingLength
    /\ \E d \in Digit :
          /\ Gets(d)
          /\ len' = (len * 10 + d) % SizeMod
    /\ buf' = Rest
    /\ state' = "length"
    /\ UNCHANGED <<pc, out, fed>>

LengthDone ==
    /\ ParsingLength
    /\ Gets(Colon)
    /\ state = "length"
    /\ buf' = Rest
    /\ state' = "string"
    /\ UNCHANGED <<len, pc, out, fed>>

LengthStarved ==
    /\ ParsingLength
    /\ GetsEnd
    /\ buf' = Rest
    /\ pc' = "idle"
    /\ UNCHANGED <<state, len, out, fed>>

LengthRejected ==
    /\ ParsingLength
    /\ ~GetsEnd
    /\ \A d \in Digit : ~Gets(d)
    /\ Gets(Colon) => state = "start"
    /\ buf' = Rest
    /\ pc' = "failed"
    /\ UNCHANGED <<state, len, out, fed>>

\* len_ + 1 is a size_t: for the largest length it is 0, and any buffer will do.
StringFits == Len(buf) >= (len + 1) % SizeMod

StringComplete ==
    /\ pc = "parsing"
    /\ state = "string"
    /\ StringFits
    /\ state' = "delim"
    /\ UNCHANGED <<buf, len, pc, out, fed>>

\* Mutant of StringStarved: it continues where it should break.
StringSpins ==
    /\ pc = "parsing"
    /\ state = "string"
    /\ ~StringFits
    /\ UNCHANGED vars

StringStarved ==
    /\ pc = "parsing"
    /\ state = "string"
    /\ ~StringFits
    /\ pc' = "idle"
    /\ UNCHANGED <<buf, state, len, out, fed>>

\* Mutant of Deliver: the length of the next frame starts from this one's.
DeliverKeepsLength ==
    /\ pc = "parsing"
    /\ state = "delim"
    /\ PeekComma
    /\ out' = Append(out, SubSeq(buf, 1, len))
    /\ buf' = SubSeq(buf, len + 2, Len(buf))
    /\ state' = "length"
    /\ pc' \in {"parsing", "thrown"}
    /\ UNCHANGED <<len, fed>>

\* parse() returns a string.  The loop goes on, or ends with an exception of
\* parse_object() or on_json().
Deliver ==
    /\ pc = "parsing"
    /\ state = "delim"
    /\ PeekComma
    /\ out' = Append(out, SubSeq(buf, 1, len))
    /\ buf' = SubSeq(buf, len + 2, Len(buf))
    /\ len' = 0
    /\ state' = "length"
    /\ pc' \in {"parsing", "thrown"}
    /\ UNCHANGED fed

DelimRejected ==
    /\ pc = "parsing"
    /\ state = "delim"
    /\ ~PeekComma
    /\ pc' = "failed"
    /\ UNCHANGED <<buf, state, len, out, fed>>

Parse ==
    \/ LengthDigit \/ LengthDone \/ LengthStarved \/ LengthRejected
    \/ StringComplete \/ StringStarved
    \/ Deliver \/ DelimRejected

\* New bytes arrive in the buffer, and on_fill starts to parse.
Fill(chunk) ==
    /\ pc = "idle"
    /\ Len(fed) + Len(chunk) <= MaxStream
    /\ buf' = buf \o chunk
    /\ fed' = fed \o chunk
    /\ pc' = "parsing"
    /\ UNCHANGED <<state, len, out>>

Chunks == UNION {[1..n -> Byte] : n \in 1..MaxChunk}

Next == Parse \/ \E chunk \in Chunks : Fill(chunk)

\* parse() runs to its end once it is called.
Spec == Init /\ [][Next]_vars /\ WF_vars(Parse)
-------------------------------------------------------------------------------
\* Properties

\* Whatever the length field says, even if it has wrapped around: a string
\* that parse() returns was received as it is, in one piece, right behind a
\* colon and before a comma.  (parse_delim() and get_str(), lines 36-43)
Delimited ==
    \A k \in 1..Len(out) :
        \E i \in 2..Len(fed) :
            /\ fed[i - 1] = Colon
            /\ i + Len(out[k]) <= Len(fed)
            /\ fed[i + Len(out[k])] = Comma
            /\ out[k] = SubSeq(fed, i, i + Len(out[k]) - 1)

\* What is in the buffer is a part of a string that is not yet complete; or it
\* stands behind a high byte, which parse_length() took for the end of the data.
InsideFrame ==
    \/ state = "string" /\ Len(buf) <= len
    \/ state \in {"start", "length"} /\ fed[Len(fed) - Len(buf)] \in HighByte

\* on_fill returns to the event loop: parse() does not turn in its loops
\* without end.
ParseReturns == pc = "parsing" ~> pc # "parsing"
===============================================================================
