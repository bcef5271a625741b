----------------------- MODULE BufferedStreamSocket_proofs -----------------------
(***************************************************************************)
(* Proofs about BufferedStreamSocket, for every capacity of the receive    *)
(* buffer and every set of streams the peer may send.                      *)
(***************************************************************************)
EXTENDS BufferedStreamSocket, TLAPS

ReaderProofs == INSTANCE NetstringReader_proofs

-----------------------------------------------------------------------------
(* The reader, as NetstringReader_proofs knows it *)

LEMMA SameConstants == ReaderProofs!ReaderConstants
  BY SocketAssumption DEF Reader!ReaderConstants, ReaderProofs!ReaderConstants

LEMMA SameByte == ReaderProofs!Byte = Reader!Byte
  BY DEF Reader!Byte, ReaderProofs!Byte

LEMMA SameType == ReaderProofs!TypeOK <=> Reader!TypeOK
  BY SameByte DEF Reader!TypeOK, ReaderProofs!TypeOK

LEMMA SameLengthSteps ==
  ReaderProofs!LengthDigit \/ ReaderProofs!LengthDone
  \/ ReaderProofs!LengthStarved \/ ReaderProofs!LengthRejected
  <=>
  Reader!LengthDigit \/ Reader!LengthDone
  \/ Reader!LengthStarved \/ Reader!LengthRejected
  BY DEF Reader!LengthDigit, Reader!LengthDone, Reader!LengthStarved, Reader!LengthRejected,
         Reader!ParsingLength, Reader!Gets, Reader!GetsEnd, Reader!Rest,
         ReaderProofs!LengthDigit, ReaderProofs!LengthDone, ReaderProofs!LengthStarved,
         ReaderProofs!LengthRejected, ReaderProofs!ParsingLength, ReaderProofs!Gets,
         ReaderProofs!GetsEnd, ReaderProofs!Rest

LEMMA SameOtherSteps ==
  ReaderProofs!StringComplete \/ ReaderProofs!StringStarved
  \/ ReaderProofs!Deliver \/ ReaderProofs!DelimRejected
  <=>
  Reader!StringComplete \/ Reader!StringStarved
  \/ Reader!Deliver \/ Reader!DelimRejected
  BY DEF Reader!StringComplete, Reader!StringStarved, Reader!Deliver, Reader!DelimRejected,
         Reader!StringFits, Reader!PeekComma,
         ReaderProofs!StringComplete, ReaderProofs!StringStarved, ReaderProofs!Deliver,
         ReaderProofs!DelimRejected, ReaderProofs!StringFits, ReaderProofs!PeekComma

LEMMA SameParse == ReaderProofs!Parse <=> Reader!Parse
  BY SameLengthSteps, SameOtherSteps DEF Reader!Parse, ReaderProofs!Parse

LEMMA ReaderKeepsType ==
  ASSUME Reader!TypeOK, Reader!Parse
  PROVE  Reader!TypeOK'
<1>1. ReaderProofs!TypeOK /\ ReaderProofs!Parse
  BY SameType, SameParse
<1>2. ReaderProofs!TypeOK'
  BY <1>1, SameConstants, ReaderProofs!ParseType
<1> QED
  BY <1>2, SameType, SameByte, PTL

\* A turn of the parser takes bytes off the buffer, or leaves it alone.
LEMMA ParseTakes ==
  ASSUME Reader!TypeOK, Reader!Parse
  PROVE  /\ buf' \in Seq(Reader!Byte)
         /\ Len(buf') <= Len(buf)
         /\ fed' = fed
<1>1. CASE Reader!LengthDigit \/ Reader!LengthDone
           \/ Reader!LengthStarved \/ Reader!LengthRejected
  <2>1. buf' = Reader!Rest /\ fed' = fed
    BY <1>1 DEF Reader!LengthDigit, Reader!LengthDone, Reader!LengthStarved,
                Reader!LengthRejected
  <2>2. CASE buf = << >>
    BY <2>1, <2>2 DEF Reader!Rest, Reader!TypeOK
  <2>3. CASE buf # << >>
    <3>1. buf' = Tail(buf) /\ buf \in Seq(Reader!Byte)
      BY <2>1, <2>3 DEF Reader!Rest, Reader!TypeOK
    <3>2. buf' \in Seq(Reader!Byte) /\ Len(buf') = Len(buf) - 1 /\ Len(buf) \in Nat
      BY <2>3, <3>1
    <3> QED
      BY <2>1, <3>2
  <2> QED
    BY <2>2, <2>3
<1>2. CASE Reader!StringComplete \/ Reader!StringStarved \/ Reader!DelimRejected
  BY <1>2 DEF Reader!StringComplete, Reader!StringStarved, Reader!DelimRejected, Reader!TypeOK
<1>3. CASE Reader!Deliver
  <2>1. len \in Nat /\ Len(buf) \in Nat /\ len < Len(buf)
    BY <1>3, SocketAssumption
       DEF Reader!Deliver, Reader!PeekComma, Reader!TypeOK, Reader!ReaderConstants
  <2>2. buf' = SubSeq(buf, len + 2, Len(buf)) /\ fed' = fed
    BY <1>3 DEF Reader!Deliver
  <2>3. buf' \in Seq(Reader!Byte) /\ Len(buf') = Len(buf) - len - 1
    BY <2>1, <2>2 DEF Reader!TypeOK
  <2> QED
    BY <2>1, <2>2, <2>3
<1> QED
  BY <1>1, <1>2, <1>3 DEF Reader!Parse

-----------------------------------------------------------------------------
(* The inductive invariant *)

\* Where the program is, and what that says of the socket and its interest:
\* before the handler runs for the first time the interest is what the
\* constructor computed, for an empty buffer.
LocationInv ==
  /\ loc = "constructor" => /\ sock = "init" /\ ev = {"In"} /\ conn = "none"
                            /\ pc = "idle" /\ buf = << >> /\ rstart = 0
  /\ loc = "wait" => pc = "idle" /\ sock \in {"in_progress", "connected"}
  /\ loc = "handler" => sock = "connected"
  /\ loc \in {"wait", "handler"} => registered = ev
  /\ loc = "wait" => ev = IF WSize > 0 THEN {"In"} ELSE {}

SocketInv == TypeOK /\ LocationInv /\ ClosedByPeer

LEMMA InitSocket == Init => SocketInv
<1> SUFFICES ASSUME Init PROVE SocketInv
  OBVIOUS
<1>1. Reader!TypeOK
  BY SocketAssumption DEF Init, Reader!Init, Reader!TypeOK, Reader!ReaderConstants
<1> QED
  BY <1>1, SocketAssumption
     DEF Init, Reader!Init, SocketInv, TypeOK, LocationInv, ClosedByPeer, PollEvents, WSize

LEMMA ConstructorSteps ==
  ASSUME SocketInv, Connect \/ ConnectThrows
  PROVE  SocketInv'
<1>1. Reader!TypeOK'
  BY DEF SocketInv, TypeOK, Connect, ConnectThrows, reader, Reader!TypeOK
<1>2. CASE Connect
  BY <1>1, <1>2, SocketAssumption
     DEF Connect, SocketInv, TypeOK, LocationInv, ClosedByPeer, reader, WSize
<1>3. CASE ConnectThrows
  BY <1>1, <1>3
     DEF ConnectThrows, Throw, SocketInv, TypeOK, LocationInv, ClosedByPeer, reader, kernel, WSize
<1> QED
  BY <1>2, <1>3

\* A wake-up of a socket whose connection has not failed and that is not closed
\* means that there are data, so read() returns 0 at the end of the stream only.
LEMMA NothingIsTheEnd ==
  ASSUME SocketInv, ReadNothing
  PROVE  rx = << >> /\ conn = "closed"
<1>1. loc = "wait" /\ "In" \in Reported /\ "Err" \notin Reported
  BY DEF ReadNothing, OnReadable, Woken
<1>2. "In" \in registered /\ registered = ev
  BY <1>1 DEF Reported, SocketInv, LocationInv
<1>3. WSize > 0
  BY <1>1, <1>2 DEF SocketInv, LocationInv
<1>4. rx = << >>
  BY <1>3 DEF ReadNothing
<1>5. ~Failed
  BY <1>1 DEF Reported, Ready
<1> QED
  BY <1>1, <1>4, <1>5 DEF Reported, Ready

\* The handler's steps that do not touch the buffer.
LEMMA OtherHandlerSteps ==
  ASSUME SocketInv,
         ConnectContinue \/ ConnectFails \/ Hangup \/ ReadNothing \/ HandlerReturns
  PROVE  SocketInv'
<1>1. Reader!TypeOK'
  BY DEF SocketInv, TypeOK, ConnectContinue, ConnectFails, Hangup, ReadNothing,
         HandlerReturns, reader, Reader!TypeOK
<1>2. CASE ConnectContinue
  BY <1>1, <1>2
     DEF ConnectContinue, Woken, UpdatePollEvents, PollEvents, SocketInv, TypeOK,
         LocationInv, ClosedByPeer, reader, kernel, WSize
<1>3. CASE ConnectFails \/ Hangup
  BY <1>1, <1>3
     DEF ConnectFails, Hangup, Woken, Throw, SocketInv, TypeOK, LocationInv,
         ClosedByPeer, reader, kernel, WSize
<1>4. CASE ReadNothing
  BY <1>1, <1>4, NothingIsTheEnd
     DEF ReadNothing, OnReadable, Woken, Throw, SocketInv, TypeOK, LocationInv,
         ClosedByPeer, reader, kernel, WSize
<1>5. CASE HandlerReturns
  BY <1>1, <1>5
     DEF HandlerReturns, UpdatePollEvents, PollEvents, SocketInv, TypeOK,
         LocationInv, ClosedByPeer, reader, kernel, WSize
<1> QED
  BY <1>2, <1>3, <1>4, <1>5

LEMMA SplitReceived ==
  ASSUME NEW S, NEW s \in Seq(S), NEW size \in 1..Len(s)
  PROVE  /\ SubSeq(s, 1, size) \in Seq(S)
         /\ Len(SubSeq(s, 1, size)) = size
         /\ SubSeq(s, size + 1, Len(s)) \in Seq(S)
  OBVIOUS

LEMMA ConcatType ==
  ASSUME NEW S, NEW s \in Seq(S), NEW t \in Seq(S)
  PROVE  s \o t \in Seq(S) /\ Len(s \o t) = Len(s) + Len(t)
  OBVIOUS

LEMMA ReadDataStep ==
  ASSUME SocketInv, ReadData
  PROVE  SocketInv'
<1>1. PICK size \in 1..Len(rx) :
        /\ size <= WSize
        /\ buf' = buf \o SubSeq(rx, 1, size)
        /\ fed' = fed \o SubSeq(rx, 1, size)
        /\ rx' = SubSeq(rx, size + 1, Len(rx))
  BY DEF ReadData
<1>2. /\ rx \in Seq(Reader!Byte) /\ buf \in Seq(Reader!Byte) /\ fed \in Seq(Reader!Byte)
      /\ rstart \in Nat
  BY DEF SocketInv, TypeOK, Reader!TypeOK
<1>3. /\ buf' \in Seq(Reader!Byte) /\ fed' \in Seq(Reader!Byte) /\ rx' \in Seq(Reader!Byte)
      /\ Len(buf') = Len(buf) + size
  <2> DEFINE got == SubSeq(rx, 1, size)
  <2>1. got \in Seq(Reader!Byte) /\ Len(got) = size /\ rx' \in Seq(Reader!Byte)
    BY <1>1, <1>2, SplitReceived
  <2>2. buf' = buf \o got /\ fed' = fed \o got
    BY <1>1
  <2> HIDE DEF got
  <2>3. /\ buf \o got \in Seq(Reader!Byte) /\ fed \o got \in Seq(Reader!Byte)
        /\ Len(buf \o got) = Len(buf) + Len(got)
    BY <1>2, <2>1, ConcatType
  <2> QED
    BY <2>1, <2>2, <2>3
<1>4. Reader!TypeOK'
  BY <1>3 DEF ReadData, SocketInv, TypeOK, Reader!TypeOK
<1>5. rstart' + Len(buf') <= Capacity /\ rstart' = rstart
  BY <1>1, <1>2, <1>3, SocketAssumption DEF WSize, ReadData
<1> QED
  BY <1>3, <1>4, <1>5
     DEF ReadData, OnReadable, Woken, SocketInv, TypeOK, LocationInv, ClosedByPeer, WSize

LEMMA ParseStep ==
  ASSUME SocketInv, ParseInFill
  PROVE  SocketInv'
<1>1. Reader!TypeOK /\ Reader!Parse
  BY DEF SocketInv, TypeOK, ParseInFill
<1>2. Reader!TypeOK'
  BY <1>1, ReaderKeepsType
<1>3. /\ Len(buf') \in Nat /\ Len(buf) \in Nat /\ Len(buf') <= Len(buf) /\ rstart \in Nat
      /\ buf' = << >> => Len(buf') = 0
  BY <1>1, <1>2, ParseTakes DEF Reader!TypeOK, SocketInv, TypeOK
<1>4. rstart' \in 0..Capacity /\ rstart' + Len(buf') <= Capacity
  BY <1>3, SocketAssumption DEF ParseInFill, SocketInv, TypeOK
<1>5. /\ ev' \subseteq {"In", "Out"} /\ registered' \subseteq {"In", "Out"}
      /\ registered' = ev'
  <2>1. CASE buf' = buf
    BY <2>1 DEF ParseInFill, SocketInv, TypeOK, LocationInv
  <2>2. CASE buf' # buf
    <3>1. ev' \subseteq {"In", "Out"}
      BY <2>2 DEF ParseInFill, UpdatePollEvents, PollEvents, SocketInv, LocationInv
    <3> QED
      BY <2>2, <3>1 DEF ParseInFill, UpdatePollEvents, SocketInv, LocationInv
  <2> QED
    BY <2>1, <2>2
<1>6. /\ sock' = sock /\ conn' = conn /\ rx' = rx /\ unsent' = unsent
      /\ \/ loc' = "handler" /\ error' = error
         \/ loc' = "exited" /\ error' = "protocol"
  BY DEF ParseInFill, Throw, kernel
<1> QED
  BY <1>2, <1>4, <1>5, <1>6 DEF ParseInFill, SocketInv, TypeOK, LocationInv, ClosedByPeer

LEMMA EnvironmentSteps ==
  ASSUME SocketInv, Environment
  PROVE  SocketInv'
<1>1. Reader!TypeOK'
  BY DEF SocketInv, TypeOK, Environment, reader, Reader!TypeOK
<1>2. CASE Establish \/ Refuse \/ Reset \/ PeerClose
  BY <1>1, <1>2
     DEF Environment, Establish, Refuse, Reset, PeerClose, SocketInv, TypeOK,
         LocationInv, ClosedByPeer, reader, WSize
<1>3. CASE Arrive
  <2>1. PICK size \in 1..Len(unsent) :
          /\ rx' = rx \o SubSeq(unsent, 1, size)
          /\ unsent' = SubSeq(unsent, size + 1, Len(unsent))
    BY <1>3 DEF Arrive
  <2>2. rx \in Seq(Reader!Byte) /\ unsent \in Seq(Reader!Byte)
    BY DEF SocketInv, TypeOK
  <2>3. rx' \in Seq(Reader!Byte) /\ unsent' \in Seq(Reader!Byte)
    BY <2>1, <2>2, SplitReceived
  <2> QED
    BY <1>1, <1>3, <2>3
       DEF Environment, Arrive, SocketInv, TypeOK, LocationInv, ClosedByPeer, reader, WSize
<1> QED
  BY <1>2, <1>3 DEF Environment

LEMMA NextSocket == SocketInv /\ [Next]_vars => SocketInv'
<1> SUFFICES ASSUME SocketInv, [Next]_vars PROVE SocketInv'
  OBVIOUS
<1>1. CASE UNCHANGED vars
  BY <1>1 DEF vars, reader, kernel, SocketInv, TypeOK, Reader!TypeOK, LocationInv,
              ClosedByPeer, WSize
<1> QED
  BY <1>1, ConstructorSteps, OtherHandlerSteps, ReadDataStep, ParseStep, EnvironmentSteps
     DEF Next, Program

LEMMA AlwaysSocket == Spec => []SocketInv
  BY InitSocket, NextSocket, PTL DEF Spec

\* Every variable keeps its type, and the receive buffer its bounds.
THEOREM SocketTypeCorrect == Spec => []TypeOK
  BY AlwaysSocket, PTL DEF SocketInv

\* Whenever the program waits it listens for data if and only if it has room
\* for them, and the epoll set agrees with ev_.
THEOREM InterestCorrect == Spec => []InterestMatchesRoom
<1>1. SocketInv => InterestMatchesRoom
  BY DEF SocketInv, LocationInv, InterestMatchesRoom
<1> QED
  BY <1>1, AlwaysSocket, PTL

\* No healthy connection is taken for a closed one, and nothing that was sent
\* before the end is left unread.
THEOREM ClosedCorrect == Spec => []ClosedByPeer
  BY AlwaysSocket, PTL DEF SocketInv

-----------------------------------------------------------------------------
(* The reader inside the socket *)

LEMMA ConcatTail ==
  ASSUME NEW S, NEW s \in Seq(S), NEW t \in Seq(S)
  PROVE  SubSeq(s \o t, Len(s) + 1, Len(s \o t)) = t
<1> DEFINE r == SubSeq(s \o t, Len(s) + 1, Len(s \o t))
<1>1. s \o t \in Seq(S) /\ Len(s \o t) = Len(s) + Len(t)
  BY ConcatType
<1>2. r \in Seq(S) /\ Len(r) = Len(t)
  BY <1>1
<1>3. ASSUME NEW i \in 1..Len(t)
      PROVE  r[i] = t[i]
  BY <1>1
<1> QED
  BY <1>2, <1>3

\* No byte is made up: what was fed, what is queued and what the peer has still
\* to send is no more than a stream.
StreamBound == Len(fed) + Len(rx) + Len(unsent) <= MaxStream

LEMMA InitBound == Init => StreamBound
  BY SocketAssumption DEF Init, Reader!Init, StreamBound, Reader!ReaderConstants

LEMMA SplitLength ==
  ASSUME NEW S, NEW s \in Seq(S), NEW size \in 1..Len(s)
  PROVE  Len(SubSeq(s, 1, size)) + Len(SubSeq(s, size + 1, Len(s))) = Len(s)
  OBVIOUS

\* What read() returns is a chunk for the reader.
LEMMA ReadDataFills ==
  ASSUME SocketInv, StreamBound, ReadData
  PROVE  StreamBound' /\ ReaderStep /\ Reader!Next
<1>1. PICK size \in 1..Len(rx) :
        /\ size <= WSize
        /\ buf' = buf \o SubSeq(rx, 1, size)
        /\ fed' = fed \o SubSeq(rx, 1, size)
        /\ rx' = SubSeq(rx, size + 1, Len(rx))
  BY DEF ReadData
<1> DEFINE chunk == SubSeq(rx, 1, size)
<1>2. /\ rx \in Seq(Reader!Byte) /\ buf \in Seq(Reader!Byte) /\ fed \in Seq(Reader!Byte)
      /\ unsent \in Seq(Reader!Byte) /\ rstart \in Nat /\ pc = "idle"
  BY DEF SocketInv, TypeOK, Reader!TypeOK, LocationInv, ReadData, OnReadable, Woken
<1>3. /\ chunk \in Seq(Reader!Byte) /\ Len(chunk) = size
      /\ Len(chunk) + Len(rx') = Len(rx) /\ rx' \in Seq(Reader!Byte)
  BY <1>1, <1>2, SplitReceived, SplitLength
<1>4. buf' = buf \o chunk /\ fed' = fed \o chunk
  BY <1>1
<1>5. size \in 1..MaxChunk
  BY <1>1, <1>2, SocketAssumption DEF WSize, Reader!ReaderConstants
<1> HIDE DEF chunk
<1>6. Len(fed') = Len(fed) + Len(chunk)
  BY <1>2, <1>3, <1>4, ConcatType
<1>7. Len(fed) + Len(chunk) <= MaxStream /\ StreamBound'
  <2>1. unsent' = unsent
    BY DEF ReadData
  <2>2. MaxStream \in Nat
    BY SocketAssumption DEF Reader!ReaderConstants
  <2> QED
    BY <1>2, <1>3, <1>6, <2>1, <2>2 DEF StreamBound
<1>8. Reader!Fill(chunk)
  BY <1>2, <1>4, <1>7 DEF Reader!Fill, ReadData
<1>9. chunk = SubSeq(fed', Len(fed) + 1, Len(fed'))
  BY <1>2, <1>3, <1>4, <1>6, ConcatTail
<1>10. ReaderStep
  BY <1>3, <1>5, <1>8, <1>9 DEF ReaderStep
<1>11. chunk \in Reader!Chunks
  <2>1. chunk \in [1..size -> Reader!Byte]
    BY <1>3
  <2> QED
    BY <2>1, <1>5 DEF Reader!Chunks
<1> QED
  BY <1>7, <1>8, <1>10, <1>11 DEF Reader!Next

LEMMA OthersLeaveReader ==
  ASSUME SocketInv, StreamBound,
         [Next]_vars, ~ReadData, ~ParseInFill
  PROVE  StreamBound' /\ UNCHANGED reader
<1>1. UNCHANGED reader
  BY DEF Next, Program, Environment, Connect, ConnectThrows, ConnectContinue, ConnectFails,
         Hangup, ReadNothing, HandlerReturns, vars
<1>2. (rx' = rx /\ unsent' = unsent) \/ Arrive
  BY DEF Next, Program, Environment, Connect, ConnectThrows, ConnectContinue, ConnectFails,
         Hangup, ReadNothing, HandlerReturns, Establish, Refuse, Reset, PeerClose, kernel, vars
<1>3. CASE Arrive
  <2>1. PICK size \in 1..Len(unsent) :
          /\ rx' = rx \o SubSeq(unsent, 1, size)
          /\ unsent' = SubSeq(unsent, size + 1, Len(unsent))
    BY <1>3 DEF Arrive
  <2> DEFINE sent == SubSeq(unsent, 1, size)
  <2>2. /\ rx \in Seq(Reader!Byte) /\ unsent \in Seq(Reader!Byte) /\ Len(fed) \in Nat
        /\ MaxStream \in Nat
    BY SocketAssumption DEF SocketInv, TypeOK, Reader!TypeOK, Reader!ReaderConstants
  <2>3. /\ sent \in Seq(Reader!Byte) /\ Len(sent) + Len(unsent') = Len(unsent)
        /\ unsent' \in Seq(Reader!Byte)
    BY <2>1, <2>2, SplitReceived, SplitLength
  <2>4. rx' = rx \o sent
    BY <2>1
  <2> HIDE DEF sent
  <2>5. Len(rx') = Len(rx) + Len(sent)
    BY <2>2, <2>3, <2>4, ConcatType
  <2> QED
    BY <1>1, <2>2, <2>3, <2>5 DEF StreamBound, reader
<1> QED
  BY <1>1, <1>2, <1>3 DEF StreamBound, reader

LEMMA StepOfReader ==
  ASSUME SocketInv, StreamBound, [Next]_vars
  PROVE  StreamBound' /\ [ReaderStep]_reader /\ [Reader!Next]_reader
<1>1. CASE ReadData
  BY <1>1, ReadDataFills
<1>2. CASE ParseInFill
  <2>1. Reader!Parse /\ fed' = fed /\ rx' = rx /\ unsent' = unsent
    BY <1>2, ParseTakes DEF ParseInFill, SocketInv, TypeOK, kernel
  <2> QED
    BY <2>1 DEF ReaderStep, Reader!Next, StreamBound
<1> QED
  BY <1>1, <1>2, OthersLeaveReader

\* The socket drives the reader as the reader's own specification allows, for
\* streams of any length and chunks up to the capacity of the buffer.
THEOREM SocketImplementsReader == Spec => ImplementsReader
<1>1. SocketInv /\ StreamBound /\ [Next]_vars => StreamBound' /\ [ReaderStep]_reader
  BY StepOfReader
<1>2. Init => Reader!Init
  BY DEF Init
<1> QED
  BY <1>1, <1>2, InitSocket, NextSocket, InitBound, PTL DEF Spec, ImplementsReader

-----------------------------------------------------------------------------
(* What holds of the reader holds of it inside the socket *)

LEMMA SameInit == Reader!Init => ReaderProofs!Init
  BY DEF Reader!Init, ReaderProofs!Init

LEMMA SameNext == Reader!Next => ReaderProofs!Next
<1>1. Reader!Chunks = ReaderProofs!Chunks
  BY SameByte DEF Reader!Chunks, ReaderProofs!Chunks
<1>2. ASSUME NEW chunk, Reader!Fill(chunk)
      PROVE  ReaderProofs!Fill(chunk)
  BY <1>2 DEF Reader!Fill, ReaderProofs!Fill
<1> QED
  BY <1>1, <1>2, SameParse DEF Reader!Next, ReaderProofs!Next

LEMMA SameDelimited == ReaderProofs!Delimited => Reader!Delimited
  BY DEF Reader!Delimited, ReaderProofs!Delimited

LEMMA RunsReader == Spec => ReaderProofs!Init /\ [][ReaderProofs!Next]_ReaderProofs!vars
<1>1. SocketInv /\ StreamBound /\ [Next]_vars =>
         StreamBound' /\ [ReaderProofs!Next]_ReaderProofs!vars
  BY StepOfReader, SameNext DEF reader, ReaderProofs!vars
<1>2. Init => ReaderProofs!Init
  BY SameInit DEF Init
<1> QED
  BY <1>1, <1>2, InitSocket, NextSocket, InitBound, PTL DEF Spec

\* Whatever the kernel does with the connection, and wherever in the buffer a
\* frame comes to lie, a delivered message stands in the received stream
\* between a colon and a comma.
THEOREM SocketMessagesDelimited == Spec => []Reader!Delimited
  BY RunsReader, SameConstants, ReaderProofs!SafetyDelimited, SameDelimited, PTL

LEMMA FitsInSize == SocketInv => ReaderProofs!BufferFits
<1> SUFFICES ASSUME SocketInv
             PROVE  Len(buf) < SizeMod
  BY DEF ReaderProofs!BufferFits
<1>1. Capacity \in Nat /\ SizeMod \in Nat /\ Capacity < SizeMod
  BY SocketAssumption DEF Reader!ReaderConstants
<1>2. rstart \in Nat /\ buf \in Seq(Reader!Byte) /\ rstart + Len(buf) <= Capacity
  BY DEF SocketInv, TypeOK, Reader!TypeOK
<1>3. Len(buf) \in Nat
  BY <1>2
<1> QED
  BY <1>1, <1>2, <1>3

\* However the kernel cuts the peer's bytes up, and however often the buffer runs
\* full or is drained to its front in between: of a stream that the definition
\* judges, the messages given to the program while it waits are the payloads of the
\* frames received, all of them and in order, and it fails exactly on what is broken.
THEOREM SocketFollowsFraming == Spec => []ReaderProofs!FramingFollowed
<1>1. Spec => []ReaderProofs!BufferFits
  BY AlwaysSocket, FitsInSize, PTL
<1> QED
  BY <1>1, RunsReader, SameConstants, ReaderProofs!SafetyFraming, PTL

\* A turn of the parser that the handler runs is one less to make.
FillUsesTurns ==
  ParseInFill => /\ ReaderProofs!TurnsLeft \in Nat /\ ReaderProofs!TurnsLeft' \in Nat
                 /\ ReaderProofs!TurnsLeft' < ReaderProofs!TurnsLeft

\* Every turn of the parser in the handler of the socket uses up one of those that the
\* bytes in its buffer allow, though each may call on_drain: the parser cannot keep
\* fill() from returning, whatever the peer sent.  (fill() and handle_drain())
THEOREM FillGetsOn == Spec => [][FillUsesTurns]_vars
<1>1. ASSUME SocketInv
      PROVE  FillUsesTurns
  <2>1. ReaderProofs!TypeOK
    BY <1>1, SameType DEF SocketInv, TypeOK
  <2>2. ReaderProofs!ParseGetsOn
    BY <2>1, SameConstants, ReaderProofs!ParseUsesTurns
  <2>3. ParseInFill => ReaderProofs!Parse
    BY SameParse DEF ParseInFill
  <2> QED
    BY <2>2, <2>3 DEF ReaderProofs!ParseGetsOn, FillUsesTurns
<1>2. SocketInv /\ [Next]_vars => [FillUsesTurns]_vars
  BY <1>1
<1> QED
  BY <1>2, AlwaysSocket, PTL DEF Spec

LEMMA SameLeaves ==
  ReaderProofs!LeavesNothingElse => (pc = "idle" => buf = << >> \/ Reader!InsideFrame)
  BY DEF ReaderProofs!LeavesNothingElse, ReaderProofs!InsideFrame, Reader!InsideFrame

-----------------------------------------------------------------------------
(* The full buffer *)

\* A buffer that is drained empty starts again at its front.
EmptyAtFront == buf = << >> => rstart = 0

LEMMA NextAtFront == SocketInv /\ EmptyAtFront /\ [Next]_vars => EmptyAtFront'
<1> SUFFICES ASSUME SocketInv, EmptyAtFront, [Next]_vars
             PROVE  EmptyAtFront'
  OBVIOUS
<1>1. CASE ReadData
  <2>1. PICK size \in 1..Len(rx) : buf' = buf \o SubSeq(rx, 1, size)
    BY <1>1 DEF ReadData
  <2>2. rx \in Seq(Reader!Byte) /\ buf \in Seq(Reader!Byte)
    BY DEF SocketInv, TypeOK, Reader!TypeOK
  <2>3. PICK got \in Seq(Reader!Byte) : got = SubSeq(rx, 1, size) /\ Len(got) = size
    BY <2>1, <2>2, SplitReceived
  <2>4. Len(buf') = Len(buf) + size
    BY <2>1, <2>2, <2>3, ConcatType
  <2>5. Len(buf) \in Nat /\ size > 0
    BY <2>1, <2>2
  <2> QED
    BY <2>4, <2>5 DEF EmptyAtFront
<1>2. CASE ParseInFill
  BY <1>2 DEF ParseInFill, EmptyAtFront
<1>3. CASE UNCHANGED <<reader, rstart>>
  BY <1>3 DEF reader, EmptyAtFront
<1> QED
  BY <1>1, <1>2, <1>3
  DEF Next, Program, Environment, Connect, ConnectThrows, ConnectContinue, ConnectFails,
      Hangup, ReadNothing, HandlerReturns, vars

\* The program stops listening on a connection only in the middle of a frame, or
\* behind a high byte in a header, for any streams and any size of the buffer.
THEOREM DeafOnlyInsideFrameHolds == Spec => []DeafOnlyInsideFrame
<1>1. /\ SocketInv /\ EmptyAtFront /\ ReaderProofs!LeavesNothingElse
      => DeafOnlyInsideFrame
  <2> SUFFICES ASSUME SocketInv, EmptyAtFront, ReaderProofs!LeavesNothingElse, Deaf
               PROVE  buf # << >> /\ Reader!InsideFrame
    BY DEF DeafOnlyInsideFrame
  <2>1. pc = "idle" /\ ~(WSize > 0)
    BY DEF Deaf, SocketInv, LocationInv
  <2>2. buf # << >>
    <3>1. SUFFICES ASSUME buf = << >> PROVE FALSE
      OBVIOUS
    <3>2. Len(buf) = 0 /\ rstart = 0
      BY <3>1 DEF EmptyAtFront
    <3> QED
      BY <2>1, <3>2, SocketAssumption DEF WSize
  <2> QED
    BY <2>1, <2>2, SameLeaves
<1>2. Init => EmptyAtFront
  BY DEF Init, EmptyAtFront
<1>3. Spec => []EmptyAtFront
  BY <1>2, InitSocket, NextSocket, NextAtFront, PTL DEF Spec
<1>4. Spec => []ReaderProofs!LeavesNothingElse
  BY RunsReader, SameConstants, ReaderProofs!SafetyLeaves, PTL
<1> QED
  BY <1>1, <1>3, <1>4, AlwaysSocket, PTL
=================================================================================
