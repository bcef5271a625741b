------------------------ MODULE NetstringReader_proofs ------------------------
(***************************************************************************)
(* Proofs about NetstringReader for streams and chunks of any length, any  *)
(* bytes and any width of size_t: types, where messages come from, that    *)
(* parse() ends, and that it follows the framing of NetstringFraming.      *)
(***************************************************************************)
EXTENDS NetstringReader, NetstringFraming, WellFoundedInduction, TLAPS

USE DEF ReaderConstants

-----------------------------------------------------------------------------

LEMMA ByteFacts ==
  /\ \A d \in Digit : d \in Byte /\ d \in Int
  /\ Colon \in Byte /\ Comma \in Byte
  BY ReaderAssumption DEF Byte

LEMMA RestType ==
  ASSUME buf \in Seq(Byte)
  PROVE  /\ Rest \in Seq(Byte)
         /\ buf = << >> => Rest = << >>
         /\ buf # << >> => /\ Len(Rest) = Len(buf) - 1
                           /\ \A i \in 1..Len(Rest) : Rest[i] = buf[i + 1]
  BY DEF Rest

LEMMA ChunkType == \A chunk \in Chunks : chunk \in Seq(Byte) /\ Len(chunk) \in Nat
  BY ReaderAssumption DEF Chunks

LEMMA DeliverType ==
  ASSUME TypeOK, Deliver
  PROVE  /\ len < Len(buf)
         /\ SubSeq(buf, 1, len) \in Seq(Byte)
         /\ Len(SubSeq(buf, 1, len)) = len
         /\ buf' \in Seq(Byte)
         /\ Len(buf') = Len(buf) - len - 1
         /\ \A i \in 1..Len(buf') : buf'[i] = buf[len + 1 + i]
  BY ReaderAssumption DEF TypeOK, Deliver, PeekComma

LEMMA ParseType ==
  ASSUME TypeOK, Parse
  PROVE  TypeOK'
<1> USE RestType DEF TypeOK
<1>1. CASE LengthDigit
  <2>1. PICK d \in Digit : len' = (len * 10 + d) % SizeMod
    BY <1>1 DEF LengthDigit
  <2>2. len * 10 + d \in Int
    BY <2>1, ReaderAssumption, ByteFacts
  <2>3. len' \in 0..SizeMod - 1
    BY <2>1, <2>2, ReaderAssumption
  <2> QED
    BY <1>1, <2>3 DEF LengthDigit, ParsingLength
<1>2. CASE LengthDone \/ LengthStarved \/ LengthRejected
  BY <1>2 DEF LengthDone, LengthStarved, LengthRejected, ParsingLength
<1>3. CASE StringComplete \/ StringStarved \/ DelimRejected
  BY <1>3 DEF StringComplete, StringStarved, DelimRejected
<1>4. CASE Deliver
  <2>1. len' \in 0..SizeMod - 1
    BY <1>4, ReaderAssumption DEF Deliver
  <2>2. out' \in Seq(Seq(Byte))
    BY <1>4, DeliverType DEF Deliver
  <2> QED
    BY <1>4, <2>1, <2>2, DeliverType DEF Deliver
<1> QED
  BY <1>1, <1>2, <1>3, <1>4 DEF Parse

LEMMA NextType == TypeOK /\ [Next]_vars => TypeOK'
<1> SUFFICES ASSUME TypeOK, [Next]_vars PROVE TypeOK'
  OBVIOUS
<1>1. CASE Parse
  BY <1>1, ParseType
<1>2. ASSUME NEW chunk \in Chunks, Fill(chunk)
      PROVE  TypeOK'
  BY <1>2, ChunkType DEF TypeOK, Fill
<1>3. CASE UNCHANGED vars
  BY <1>3 DEF vars, TypeOK
<1> QED
  BY <1>1, <1>2, <1>3 DEF Next

\* Every variable keeps its type; the length stays a size_t.
THEOREM ReaderTypeCorrect == Spec => []TypeOK
<1>1. Init => TypeOK
  BY ReaderAssumption DEF Init, TypeOK
<1> QED
  BY <1>1, NextType, PTL DEF Spec

-----------------------------------------------------------------------------
(* What is delivered *)

LEMMA SameElements ==
  ASSUME NEW S, NEW s \in Seq(S), NEW t \in Seq(S), Len(t) = Len(s),
         \A k \in 1..Len(s) : s[k] = t[k]
  PROVE  s = t
  OBVIOUS

\* How much of the stream is out of the buffer.
Consumed == Len(fed) - Len(buf)

\* One delivered string, cut out of the stream between its delimiters.
CutOut(string, stream) ==
  \E i \in 2..Len(stream) :
    /\ stream[i - 1] = Colon
    /\ i + Len(string) <= Len(stream)
    /\ stream[i + Len(string)] = Comma
    /\ string = SubSeq(stream, i, i + Len(string) - 1)

\* Delimited alone is not inductive: the buffer must be the end of the stream,
\* and from the colon to the delivery its first byte the one behind the colon.
StreamInv ==
  /\ TypeOK
  /\ Consumed \in Nat
  /\ \A i \in 1..Len(buf) : buf[i] = fed[Consumed + i]
  /\ state \in {"string", "delim"} => /\ Consumed > 0
                                      /\ fed[Consumed] = Colon

LEMMA InitStream == Init => StreamInv /\ Delimited
  BY ReaderAssumption DEF Init, StreamInv, TypeOK, Consumed, Delimited

\* get() takes the first byte of the buffer off the rest of the stream.
LEMMA GetConsumes ==
  ASSUME StreamInv, buf' = Rest, fed' = fed
  PROVE  /\ Consumed' \in Nat
         /\ \A i \in 1..Len(buf') : buf'[i] = fed'[Consumed' + i]
         /\ buf # << >> => Consumed' = Consumed + 1 /\ fed'[Consumed'] = Head(buf)
<1>1. CASE buf = << >>
  BY <1>1, RestType DEF StreamInv, TypeOK, Consumed
<1>2. CASE buf # << >>
  <2>1. Len(buf) \in Nat \ {0} /\ Len(fed) \in Nat /\ Head(buf) = buf[1]
    BY <1>2 DEF StreamInv, TypeOK
  <2>2. Consumed' = Consumed + 1
    <3>1. Len(buf') = Len(buf) - 1
      BY <1>2, RestType DEF StreamInv, TypeOK
    <3> QED
      BY <2>1, <3>1 DEF Consumed
  <2>3. ASSUME NEW i \in 1..Len(buf')
        PROVE  buf'[i] = fed'[Consumed' + i]
    <3>1. buf'[i] = buf[i + 1] /\ i + 1 \in 1..Len(buf)
      BY <1>2, <2>1, RestType DEF StreamInv, TypeOK
    <3>2. Consumed' + i = Consumed + (i + 1)
      BY <2>2 DEF StreamInv
    <3> QED
      BY <3>1, <3>2 DEF StreamInv
  <2> QED
    BY <2>1, <2>2, <2>3 DEF StreamInv
<1> QED
  BY <1>1, <1>2

\* A string that is cut out of the stream stays so when the stream goes on.
LEMMA CutOutStays ==
  ASSUME NEW string \in Seq(Byte), NEW stream \in Seq(Byte), NEW more \in Seq(Byte),
         CutOut(string, stream)
  PROVE  CutOut(string, stream \o more)
<1>1. PICK i \in 2..Len(stream) :
        /\ stream[i - 1] = Colon
        /\ i + Len(string) <= Len(stream)
        /\ stream[i + Len(string)] = Comma
        /\ string = SubSeq(stream, i, i + Len(string) - 1)
  BY DEF CutOut
<1> DEFINE longer == stream \o more
<1>2. /\ longer \in Seq(Byte) /\ Len(longer) >= Len(stream)
      /\ \A k \in 1..Len(stream) : longer[k] = stream[k]
  OBVIOUS
<1>3. SubSeq(longer, i, i + Len(string) - 1) = SubSeq(stream, i, i + Len(string) - 1)
  BY <1>1, <1>2
<1>4. longer[i - 1] = Colon /\ longer[i + Len(string)] = Comma
  BY <1>1, <1>2
<1>5. i \in 2..Len(longer) /\ i + Len(string) <= Len(longer)
  BY <1>1, <1>2
<1> HIDE DEF longer
<1>6. CutOut(string, longer)
  BY <1>1, <1>3, <1>4, <1>5 DEF CutOut
<1> QED
  BY <1>6 DEF longer

LEMMA ParseStream ==
  ASSUME StreamInv, Delimited, Parse
  PROVE  StreamInv' /\ Delimited'
<1>0. TypeOK'
  BY ParseType DEF StreamInv
<1>1. CASE LengthDigit \/ LengthDone \/ LengthStarved \/ LengthRejected
  <2>1. buf' = Rest /\ fed' = fed /\ out' = out
    BY <1>1 DEF LengthDigit, LengthDone, LengthStarved, LengthRejected
  <2>2. state' \in {"string", "delim"} => LengthDone
    BY <1>1 DEF LengthDigit, LengthDone, LengthStarved, LengthRejected,
                ParsingLength, StreamInv, TypeOK
  <2>3. LengthDone => buf # << >> /\ Head(buf) = Colon
    BY DEF LengthDone, Gets
  <2> QED
    BY <1>0, <2>1, <2>2, <2>3, GetConsumes DEF StreamInv, Delimited
<1>2. CASE StringComplete \/ StringStarved \/ DelimRejected
  <2>1. buf' = buf /\ fed' = fed /\ out' = out
    BY <1>2 DEF StringComplete, StringStarved, DelimRejected
  <2>2. state \in {"string", "delim"}
    BY <1>2 DEF StringComplete, StringStarved, DelimRejected
  <2> QED
    BY <1>0, <2>1, <2>2 DEF StreamInv, Delimited, Consumed
<1>3. CASE Deliver
  <2> DEFINE string == SubSeq(buf, 1, len)
             i == Consumed + 1
  <2>1. /\ len \in Nat /\ len < Len(buf) /\ Len(buf) \in Nat /\ Len(fed) \in Nat
        /\ buf[len + 1] = Comma /\ state = "delim" /\ fed' = fed
        /\ Consumed \in Nat /\ Consumed > 0 /\ Len(fed) = Consumed + Len(buf)
    BY <1>3, ReaderAssumption DEF Deliver, PeekComma, StreamInv, TypeOK, Consumed
  <2>2. string \in Seq(Byte) /\ Len(string) = len
    BY <1>3, DeliverType DEF StreamInv
  <2>3. i \in 2..Len(fed) /\ i + Len(string) <= Len(fed)
    BY <2>1, <2>2
  <2>4. fed[i - 1] = Colon /\ fed[i + Len(string)] = Comma
    <3>1. i - 1 = Consumed /\ i + len = Consumed + (len + 1)
      BY <2>1
    <3>2. fed[Consumed] = Colon
      BY <2>1 DEF StreamInv
    <3>3. len + 1 \in 1..Len(buf)
      BY <2>1
    <3>4. fed[Consumed + (len + 1)] = Comma
      BY <2>1, <3>3 DEF StreamInv
    <3> QED
      BY <2>2, <3>1, <3>2, <3>4
  <2>5. string = SubSeq(fed, i, i + Len(string) - 1)
    <3>1. ASSUME NEW k \in 1..len
          PROVE  string[k] = fed[i + k - 1]
      <4>1. k \in 1..Len(buf) /\ i + k - 1 = Consumed + k
        BY <2>1
      <4>2. string[k] = buf[k]
        BY <2>1 DEF StreamInv, TypeOK
      <4>3. buf[k] = fed[Consumed + k]
        BY <4>1 DEF StreamInv
      <4> QED
        BY <4>1, <4>2, <4>3
    <3>2. SubSeq(fed, i, i + len - 1) \in Seq(Byte)
          /\ Len(SubSeq(fed, i, i + len - 1)) = len
          /\ \A k \in 1..len : SubSeq(fed, i, i + len - 1)[k] = fed[i + k - 1]
      BY <2>1, <2>3, <2>2 DEF StreamInv, TypeOK
    <3> DEFINE piece == SubSeq(fed, i, i + len - 1)
    <3>3. piece \in Seq(Byte) /\ Len(piece) = Len(string)
      BY <2>2, <3>2
    <3>4. \A k \in 1..Len(string) : string[k] = piece[k]
      BY <2>2, <3>1, <3>2
    <3>5. string = piece
      <4> HIDE DEF string, piece
      <4> QED
        BY <2>2, <3>3, <3>4, SameElements
    <3> QED
      BY <2>2, <3>5
  <2>6. CutOut(string, fed)
    <3> HIDE DEF string, i
    <3> QED
      BY <2>3, <2>4, <2>5 DEF CutOut
  <2>7. out' = Append(out, string)
    BY <1>3 DEF Deliver
  <2>8. Delimited'
    <3>1. \A k \in 1..Len(out) : CutOut(out[k], fed)
      BY DEF Delimited, CutOut
    <3>2. ASSUME NEW k \in 1..Len(out')
          PROVE  CutOut(out'[k], fed)
      BY <2>6, <2>7, <2>2, <3>1 DEF StreamInv, TypeOK
    <3> QED
      BY <2>1, <3>2 DEF Delimited, CutOut
  <2>9. /\ Consumed' = Consumed + len + 1
        /\ \A k \in 1..Len(buf') : buf'[k] = fed'[Consumed' + k]
    <3>1. Consumed' = Consumed + len + 1
      <4>1. Len(buf') = Len(buf) - len - 1
        BY <1>3, DeliverType DEF StreamInv
      <4> QED
        BY <2>1, <4>1 DEF Consumed
    <3>2. ASSUME NEW k \in 1..Len(buf')
          PROVE  buf'[k] = fed'[Consumed' + k]
      <4>1. buf'[k] = buf[len + 1 + k] /\ len + 1 + k \in 1..Len(buf)
        BY <1>3, <2>1, DeliverType DEF StreamInv
      <4>2. Consumed' + k = Consumed + (len + 1 + k)
        BY <2>1, <3>1
      <4> QED
        BY <2>1, <4>1, <4>2 DEF StreamInv
    <3> QED
      BY <3>1, <3>2
  <2>10. state' = "length"
    BY <1>3 DEF Deliver
  <2> QED
    BY <1>0, <2>1, <2>8, <2>9, <2>10 DEF StreamInv
<1> QED
  BY <1>1, <1>2, <1>3 DEF Parse

LEMMA ConcatTail ==
  ASSUME NEW s \in Seq(Byte), NEW t \in Seq(Byte),
         NEW i \in Len(s) + 1..Len(s) + Len(t)
  PROVE  (s \o t)[i] = t[i - Len(s)]
  OBVIOUS

LEMMA FillStream ==
  ASSUME StreamInv, Delimited, NEW chunk \in Chunks, Fill(chunk)
  PROVE  StreamInv' /\ Delimited'
<1>1. chunk \in Seq(Byte) /\ buf \in Seq(Byte) /\ fed \in Seq(Byte)
      /\ out \in Seq(Seq(Byte))
  BY ChunkType DEF StreamInv, TypeOK
<1>2. buf' = buf \o chunk /\ fed' = fed \o chunk /\ out' = out /\ state' = state
  BY DEF Fill
<1>3. TypeOK'
  BY NextType DEF Next, StreamInv
<1>4. Consumed' = Consumed
  BY <1>1, <1>2 DEF Consumed
<1>5. ASSUME NEW i \in 1..Len(buf')
      PROVE  buf'[i] = fed'[Consumed + i]
  <2>1. /\ Len(fed) = Consumed + Len(buf) /\ Consumed \in Nat
        /\ Len(fed) \in Nat /\ Len(buf) \in Nat /\ Len(chunk) \in Nat
        /\ Len(buf') = Len(buf) + Len(chunk)
    BY <1>1, <1>2 DEF StreamInv, Consumed
  <2>2. CASE i \in 1..Len(buf)
    <3>1. buf'[i] = buf[i] /\ buf[i] = fed[Consumed + i]
      BY <1>1, <1>2, <2>2 DEF StreamInv
    <3>2. Consumed + i \in 1..Len(fed)
      BY <2>1, <2>2
    <3> QED
      BY <1>1, <1>2, <3>1, <3>2
  <2>3. CASE i \in Len(buf) + 1..Len(buf) + Len(chunk)
    <3>1. buf'[i] = chunk[i - Len(buf)]
      BY <1>1, <1>2, <2>1, <2>3, ConcatTail
    <3>2. /\ Consumed + i \in Len(fed) + 1..Len(fed) + Len(chunk)
          /\ Consumed + i - Len(fed) = i - Len(buf)
      BY <2>1, <2>3
    <3>3. fed'[Consumed + i] = chunk[Consumed + i - Len(fed)]
      BY <1>1, <1>2, <2>1, <3>2, ConcatTail
    <3> QED
      BY <3>1, <3>2, <3>3
  <2> QED
    BY <1>5, <2>1, <2>2, <2>3
<1>6. state \in {"string", "delim"} => fed'[Consumed] = Colon
  BY <1>1, <1>2 DEF StreamInv, Consumed
<1>7. StreamInv'
  BY <1>2, <1>3, <1>4, <1>5, <1>6 DEF StreamInv
<1>8. \A k \in 1..Len(out) : CutOut(out[k], fed')
  <2> SUFFICES ASSUME NEW k \in 1..Len(out) PROVE CutOut(out[k], fed')
    OBVIOUS
  <2>1. CutOut(out[k], fed)
    BY DEF Delimited, CutOut
  <2>2. out[k] \in Seq(Byte)
    BY <1>1
  <2> QED
    BY <1>1, <1>2, <2>1, <2>2, CutOutStays
<1> QED
  BY <1>2, <1>7, <1>8 DEF Delimited, CutOut

LEMMA NextStream == StreamInv /\ Delimited /\ [Next]_vars => (StreamInv /\ Delimited)'
<1> SUFFICES ASSUME StreamInv, Delimited, [Next]_vars
             PROVE  (StreamInv /\ Delimited)'
  OBVIOUS
<1>1. CASE UNCHANGED vars
  BY <1>1 DEF vars, StreamInv, TypeOK, Consumed, Delimited
<1> QED
  BY <1>1, ParseStream, FillStream DEF Next

\* The safety part of Spec suffices; a user of the reader may cite this.
LEMMA SafetyDelimited == Init /\ [][Next]_vars => []Delimited
  BY InitStream, NextStream, PTL

\* No message is anything but bytes received in one piece between a colon and
\* a comma, however its length was computed.
THEOREM MessagesDelimited == Spec => []Delimited
  BY SafetyDelimited, PTL DEF Spec

-----------------------------------------------------------------------------
(* What is left in the buffer *)

\* parse() returns false, and waits for more, only when it is out of data, or
\* inside a frame.
LeavesNothingElse == pc = "idle" => buf = << >> \/ InsideFrame

LEMMA ParseLeaves ==
  ASSUME StreamInv, Parse
  PROVE  LeavesNothingElse'
<1>1. CASE LengthStarved
  <2>1. buf' = Rest /\ fed' = fed /\ state' = state /\ state \in {"start", "length"}
    BY <1>1 DEF LengthStarved, ParsingLength
  <2>2. CASE buf = << >>
    BY <2>1, <2>2 DEF Rest, LeavesNothingElse
  <2>3. CASE buf # << >>
    <3>1. Consumed' = Consumed + 1 /\ fed'[Consumed'] = Head(buf)
      BY <2>1, <2>3, GetConsumes
    <3>2. fed'[Consumed'] \in HighByte
      BY <1>1, <2>3, <3>1 DEF LengthStarved, GetsEnd
    <3> QED
      BY <2>1, <3>2 DEF LeavesNothingElse, InsideFrame, Consumed
  <2> QED
    BY <2>2, <2>3
<1>2. CASE StringStarved
  <2>1. Len(buf) < (len + 1) % SizeMod /\ Len(buf) \in Nat /\ len \in 0..SizeMod - 1
    BY <1>2, ReaderAssumption
       DEF StringStarved, StringFits, StreamInv, TypeOK, ReaderConstants
  <2>2. len + 1 \in Nat /\ (len + 1 < SizeMod \/ len + 1 = SizeMod) /\ SizeMod \in Nat \ {0}
    BY <2>1, ReaderAssumption DEF ReaderConstants
  <2>3. (len + 1) % SizeMod <= len + 1
    BY <2>2
  <2>4. Len(buf) <= len
    BY <2>1, <2>2, <2>3, ReaderAssumption DEF ReaderConstants
  <2> QED
    BY <1>2, <2>4 DEF StringStarved, LeavesNothingElse, InsideFrame
<1>3. CASE LengthDigit \/ LengthDone \/ LengthRejected \/ StringComplete \/ Deliver \/ DelimRejected
  BY <1>3 DEF LengthDigit, LengthDone, LengthRejected, StringComplete, Deliver, DelimRejected,
              ParsingLength, LeavesNothingElse
<1> QED
  BY <1>1, <1>2, <1>3 DEF Parse

LEMMA NextLeaves == StreamInv /\ LeavesNothingElse /\ [Next]_vars => LeavesNothingElse'
<1> SUFFICES ASSUME StreamInv, LeavesNothingElse, [Next]_vars
             PROVE  LeavesNothingElse'
  OBVIOUS
<1>1. CASE UNCHANGED vars
  BY <1>1 DEF vars, LeavesNothingElse, InsideFrame
<1>2. CASE \E chunk \in Chunks : Fill(chunk)
  BY <1>2 DEF Fill, LeavesNothingElse
<1> QED
  BY <1>1, <1>2, ParseLeaves DEF Next

LEMMA SafetyLeaves == Init /\ [][Next]_vars => []LeavesNothingElse
<1>1. Init => LeavesNothingElse
  BY DEF Init, LeavesNothingElse
<1> QED
  BY <1>1, InitStream, NextStream, NextLeaves, PTL

\* When parse() waits for more, nothing is left in the buffer but a part of a
\* string whose length is known, or what a high byte in a header hides.
THEOREM LeavesNothingElseHolds == Spec => []LeavesNothingElse
  BY SafetyLeaves, PTL DEF Spec

-----------------------------------------------------------------------------
(* parse() comes to its end *)

\* A bound on the turns that the loops of parse() still have to make.
TurnsLeft ==
  IF pc = "parsing" THEN 2 * Len(buf) + (IF state = "string" THEN 2 ELSE 1) ELSE 0

ParseGetsOn == Parse => TurnsLeft \in Nat /\ TurnsLeft' \in Nat /\ TurnsLeft' < TurnsLeft

LEMMA ParseUsesTurns ==
  ASSUME TypeOK
  PROVE  ParseGetsOn
<1> SUFFICES ASSUME Parse
             PROVE  TurnsLeft \in Nat /\ TurnsLeft' \in Nat /\ TurnsLeft' < TurnsLeft
  BY DEF ParseGetsOn
<1>1. /\ pc = "parsing" /\ buf \in Seq(Byte) /\ Len(buf) \in Nat
  BY DEF TypeOK, Parse, LengthDigit, LengthDone, LengthStarved, LengthRejected, ParsingLength,
         StringComplete, StringStarved, Deliver, DelimRejected
<1>2. TurnsLeft \in Nat /\ TurnsLeft >= 2 * Len(buf) + 1
  BY <1>1 DEF TurnsLeft
<1>3. CASE LengthDigit \/ LengthDone
  <2>1. pc' = "parsing" /\ buf # << >> /\ buf' = Rest
    BY <1>1, <1>3 DEF LengthDigit, LengthDone, ParsingLength, Gets
  <2>2. Len(buf') = Len(buf) - 1
    BY <1>1, <2>1, RestType
  <2>3. 2 * Len(buf') + 2 < 2 * Len(buf) + 1 /\ Len(buf') \in Nat
    BY <1>1, <2>1, <2>2
  <2> QED
    BY <1>1, <1>2, <2>1, <2>3 DEF TurnsLeft
<1>4. CASE StringComplete
  BY <1>1, <1>4 DEF StringComplete, TurnsLeft
<1>5. CASE Deliver
  <2>1. pc' \in {"parsing", "thrown"} /\ state' = "length" /\ len < Len(buf)
        /\ Len(buf') = Len(buf) - len - 1
    BY <1>1, <1>5, DeliverType DEF Deliver
  <2>2. len \in Nat
    BY ReaderAssumption DEF TypeOK
  <2>3. 2 * Len(buf') + 1 < 2 * Len(buf) + 1 /\ Len(buf') \in Nat
    BY <1>1, <2>1, <2>2
  <2> QED
    BY <1>2, <2>1, <2>3 DEF TurnsLeft
<1>6. CASE LengthStarved \/ LengthRejected \/ StringStarved \/ DelimRejected
  <2>1. TurnsLeft' = 0
    BY <1>6 DEF LengthStarved, LengthRejected, StringStarved, DelimRejected, TurnsLeft
  <2> QED
    BY <1>1, <1>2, <2>1
<1> QED
  BY <1>3, <1>4, <1>5, <1>6 DEF Parse

\* Every turn of the loops of parse() and parse_length() uses up one of a number
\* of turns that the unread bytes bound: a call of parse() returns or throws,
\* whatever it reads.  (parse() and its helpers, lines 19-90)
THEOREM ParseTerminates == Spec => [][ParseGetsOn]_vars
<1>1. TypeOK /\ [Next]_vars => [ParseGetsOn]_vars
  BY ParseUsesTurns
<1> QED
  BY <1>1, ReaderTypeCorrect, PTL DEF Spec

-----------------------------------------------------------------------------
\* What the digits of a length stand for.

\* A set of natural numbers that is not empty has a least member.
LEMMA Least ==
  ASSUME NEW S, S \subseteq Nat, S # {}
  PROVE  \E m \in S : \A n \in S : m <= n
<1> DEFINE R == OpToRel(<, Nat)
<1>1. IsWellFoundedOn(R, Nat)
  BY NatLessThanWellFounded
<1>2. \A m, n \in Nat : n < m => <<n, m>> \in R
  BY DEF OpToRel
<1> HIDE DEF R
<1>3. PICK m \in S : \A n \in S : ~ (<<n, m>> \in R)
  BY <1>1, WFMin, Zenon
<1>4. ASSUME NEW n \in S PROVE m <= n
  <2>1. m \in Nat /\ n \in Nat
    OBVIOUS
  <2>2. ~ (n < m)
    BY <1>2, <1>3, <2>1
  <2> QED BY <2>1, <2>2
<1> QED BY <1>4

\* Induction over the natural numbers, for a set instead of a predicate: the form
\* that can be cited where the induction theorems of the library cannot.
LEMMA Induction ==
  ASSUME NEW S, 0 \in S, \A n \in Nat : n \in S => n + 1 \in S
  PROVE  Nat \subseteq S
<1> SUFFICES ASSUME Nat \ S # {} PROVE FALSE
  OBVIOUS
<1>1. PICK m \in Nat \ S : \A n \in Nat \ S : m <= n
  BY Least
<1>2. m - 1 \in Nat /\ m - 1 \notin Nat \ S
  BY <1>1
<1> QED BY <1>2, <1>1

LEMMA DigitIsNumber == \A d \in Digit : d \in Nat
  BY ReaderAssumption DEF ReaderConstants

\* All of s[i..j] is digits, and s and t are the same from i to j.
Digits(s, i, j) == \A k \in i..j : s[k] \in Digit
Same(s, t, i, j) == \A k \in i..j : s[k] = t[k]

\* f is the recursive function that Decimal is defined by.
Value(f, s, i, j) == f = [k \in i - 1..j |-> IF k < i THEN 0 ELSE f[k - 1] * 10 + s[k]]

\* Decimal chooses such a function, if there is one.
LEMMA DecimalIsValue ==
  ASSUME NEW s, NEW i, NEW j, NEW f, Value(f, s, i, j)
  PROVE  \E g : Value(g, s, i, j) /\ Decimal(s, i, j) = g[j]
<1> DEFINE g == CHOOSE g : g = [k \in i - 1..j |-> IF k < i THEN 0 ELSE g[k - 1] * 10 + s[k]]
<1>1. Decimal(s, i, j) = g[j]
  BY DEF Decimal
<1>2. Value(g, s, i, j)
  BY DEF Value
<1> QED BY <1>1, <1>2

\* The digits s[i..j] have a value, and so has every part from i on.
LEMMA ValueExists ==
  ASSUME NEW s, NEW i \in Nat, NEW j \in Int, j >= i - 1, Digits(s, i, j)
  PROVE  \E f \in [i - 1..j -> Nat] : Value(f, s, i, j)
<1> DEFINE T == {n \in Nat : n <= j - i + 1 =>
                   \E f \in [i - 1..i - 1 + n -> Nat] : Value(f, s, i, i - 1 + n)}
<1>1. 0 \in T
  <2> DEFINE f == [k \in i - 1..i - 1 + 0 |-> 0]
  <2>1. f \in [i - 1..i - 1 + 0 -> Nat]
    OBVIOUS
  <2>2. Value(f, s, i, i - 1 + 0)
    BY DEF Value
  <2> QED BY <2>1, <2>2
<1>2. ASSUME NEW n \in Nat, n \in T
      PROVE  n + 1 \in T
  <2> SUFFICES ASSUME n + 1 <= j - i + 1
               PROVE  \E f \in [i - 1..i - 1 + (n + 1) -> Nat] : Value(f, s, i, i - 1 + (n + 1))
    OBVIOUS
  <2> DEFINE e == i - 1 + n
  <2>0. e \in Int /\ e >= i - 1 /\ e + 1 = i - 1 + (n + 1) /\ e + 1 \in i..j
    OBVIOUS
  <2>1. PICK f \in [i - 1..e -> Nat] : Value(f, s, i, e)
    BY <1>2
  <2>2. s[e + 1] \in Nat
    <3>1. s[e + 1] \in Digit
      BY <2>0 DEF Digits
    <3> QED BY <3>1, DigitIsNumber
  <2> DEFINE g == [k \in i - 1..e + 1 |-> IF k = e + 1 THEN f[e] * 10 + s[e + 1] ELSE f[k]]
  <2>3. g \in [i - 1..e + 1 -> Nat]
    <3> SUFFICES ASSUME NEW k \in i - 1..e + 1
                 PROVE  (IF k = e + 1 THEN f[e] * 10 + s[e + 1] ELSE f[k]) \in Nat
      OBVIOUS
    <3>1. f[e] \in Nat
      BY <2>0
    <3> HIDE DEF e
    <3> QED BY <2>0, <2>2, <3>1
  <2>4. ASSUME NEW k \in i - 1..e + 1
        PROVE  g[k] = IF k < i THEN 0 ELSE g[k - 1] * 10 + s[k]
    <3> HIDE DEF e
    <3>1. CASE k = e + 1
      BY <2>0, <3>1
    <3>2. CASE k # e + 1
      <4>1. k \in i - 1..e /\ g[k] = f[k] /\ (k >= i => k - 1 \in i - 1..e /\ g[k - 1] = f[k - 1])
        BY <2>0, <3>2
      <4>2. f[k] = IF k < i THEN 0 ELSE f[k - 1] * 10 + s[k]
        BY <2>1, <4>1 DEF Value
      <4> HIDE DEF g
      <4> QED BY <4>1, <4>2
    <3> QED BY <3>1, <3>2
  <2>5. Value(g, s, i, e + 1)
    <3>1. g = [k \in i - 1..e + 1 |-> g[k]]
      OBVIOUS
    <3> HIDE DEF g, e
    <3> QED BY <2>4, <3>1 DEF Value
  <2>6. i - 1..i - 1 + (n + 1) = i - 1..e + 1
    BY <2>0
  <2> HIDE DEF g, e
  <2> QED BY <2>0, <2>3, <2>5, <2>6
<1>3. Nat \subseteq T
  <2> HIDE DEF T
  <2> QED BY <1>1, <1>2, Induction
<1>4. j - i + 1 \in Nat /\ i - 1 + (j - i + 1) = j
  OBVIOUS
<1>5. j - i + 1 \in T
  <2> HIDE DEF T
  <2> QED BY <1>3, <1>4
<1> QED BY <1>4, <1>5

\* Two values agree as far as the digits they are the values of.
LEMMA ValuesAgree ==
  ASSUME NEW s, NEW t, NEW i \in Nat, NEW j \in Int, NEW k \in i - 1..j, NEW f, NEW g,
         Same(s, t, i, k),
         Value(f, s, i, k), Value(g, t, i, j)
  PROVE  f[k] = g[k]
<1> DEFINE Bad == {n \in Nat : i - 1 + n <= k /\ f[i - 1 + n] # g[i - 1 + n]}
<1>1. ASSUME Bad # {}
      PROVE  FALSE
  <2>1. PICK n \in Bad : \A m \in Bad : n <= m
    BY <1>1, Least
  <2> DEFINE e == i - 1 + n
  <2>2. n \in Nat /\ e \in i - 1..k /\ e \in i - 1..j /\ f[e] # g[e]
    OBVIOUS
  <2>3. f[e] = IF e < i THEN 0 ELSE f[e - 1] * 10 + s[e]
    BY <2>2 DEF Value
  <2>4. g[e] = IF e < i THEN 0 ELSE g[e - 1] * 10 + t[e]
    BY <2>2 DEF Value
  <2>5. e >= i
    BY <2>2, <2>3, <2>4
  <2>6. n - 1 \in Nat /\ n - 1 \notin Bad /\ i - 1 + (n - 1) = e - 1 /\ e - 1 <= k
    BY <2>1, <2>2, <2>5
  <2>7. f[e - 1] = g[e - 1]
    BY <2>6
  <2>8. s[e] = t[e]
    BY <2>2, <2>5 DEF Same
  <2> QED BY <2>2, <2>3, <2>4, <2>7, <2>8
<1>2. PICK n \in Nat : i - 1 + n = k
  <2>1. k - i + 1 \in Nat /\ i - 1 + (k - i + 1) = k
    OBVIOUS
  <2> QED BY <2>1
<1>3. n \notin Bad
  BY <1>1
<1> QED BY <1>2, <1>3

\* What digits stand for is a number, and it is built as parse_length() builds len_.
LEMMA DecimalType ==
  ASSUME NEW s, NEW i \in Nat, NEW j \in Int, j >= i - 1, Digits(s, i, j)
  PROVE  /\ Decimal(s, i, j) \in Nat
         /\ j = i - 1 => Decimal(s, i, j) = 0
         /\ j >= i => /\ Decimal(s, i, j - 1) \in Nat
                      /\ Decimal(s, i, j) = Decimal(s, i, j - 1) * 10 + s[j]
<1>1. PICK f \in [i - 1..j -> Nat] : Value(f, s, i, j)
  BY ValueExists
<1>2. ASSUME NEW k \in i - 1..j
      PROVE  Decimal(s, i, k) = f[k]
  <2>1. Digits(s, i, k) /\ k \in Int /\ k >= i - 1
    BY DEF Digits
  <2>2. PICK h \in [i - 1..k -> Nat] : Value(h, s, i, k)
    BY <2>1, ValueExists
  <2>3. PICK g : Value(g, s, i, k) /\ Decimal(s, i, k) = g[k]
    BY <2>2, DecimalIsValue
  <2>4. Same(s, s, i, k)
    BY DEF Same
  <2>5. g[k] = f[k]
    BY <1>1, <2>3, <2>4, ValuesAgree
  <2> QED BY <2>3, <2>5
<1>3. f[j] = IF j < i THEN 0 ELSE f[j - 1] * 10 + s[j]
  BY <1>1 DEF Value
<1>4. j >= i => j - 1 \in i - 1..j
  OBVIOUS
<1> QED BY <1>2, <1>3, <1>4

\* The number depends on the digits alone.
LEMMA DecimalAgrees ==
  ASSUME NEW s, NEW t, NEW i \in Nat, NEW j \in Int, j >= i - 1, Digits(s, i, j),
         Same(s, t, i, j)
  PROVE  Decimal(s, i, j) = Decimal(t, i, j)
<1>1. Digits(t, i, j)
  BY DEF Digits, Same
<1>2. PICK f0 : Value(f0, s, i, j)
  BY ValueExists
<1>3. PICK f : Value(f, s, i, j) /\ Decimal(s, i, j) = f[j]
  BY <1>2, DecimalIsValue
<1>4. PICK g0 : Value(g0, t, i, j)
  BY <1>1, ValueExists
<1>5. PICK g : Value(g, t, i, j) /\ Decimal(t, i, j) = g[j]
  BY <1>4, DecimalIsValue
<1>6. f[j] = g[j]
  <2>1. j \in i - 1..j
    OBVIOUS
  <2> QED BY <1>3, <1>5, <2>1, ValuesAgree
<1> QED BY <1>3, <1>5, <1>6

\* More digits make no smaller number.
LEMMA DecimalGrows ==
  ASSUME NEW s, NEW i \in Nat, NEW j \in Int, NEW k \in Int, i - 1 <= j, j <= k,
         Digits(s, i, k)
  PROVE  Decimal(s, i, j) <= Decimal(s, i, k)
<1> DEFINE T == {n \in Nat : j + n <= k => Decimal(s, i, j) <= Decimal(s, i, j + n)}
<1>1. 0 \in T
  <2>1. Digits(s, i, j) /\ j + 0 = j
    BY DEF Digits
  <2>2. Decimal(s, i, j) \in Nat
    BY <2>1, DecimalType
  <2> QED BY <2>1, <2>2
<1>2. ASSUME NEW n \in Nat, n \in T
      PROVE  n + 1 \in T
  <2> SUFFICES ASSUME j + (n + 1) <= k
               PROVE  Decimal(s, i, j) <= Decimal(s, i, j + (n + 1))
    OBVIOUS
  <2> DEFINE e == j + (n + 1)
  <2>0. e \in Int /\ e >= i /\ e - 1 = j + n /\ e \in i..k
    OBVIOUS
  <2>1. Digits(s, i, e) /\ Digits(s, i, j)
    BY <2>0 DEF Digits
  <2>2. Decimal(s, i, j) <= Decimal(s, i, e - 1)
    BY <1>2, <2>0
  <2> HIDE DEF e
  <2>3. s[e] \in Nat
    <3>1. s[e] \in Digit
      BY <2>0 DEF Digits
    <3> QED BY <3>1, DigitIsNumber
  <2>4. /\ Decimal(s, i, e - 1) \in Nat
        /\ Decimal(s, i, e) = Decimal(s, i, e - 1) * 10 + s[e]
    BY <2>0, <2>1, DecimalType
  <2>5. Decimal(s, i, j) \in Nat
    BY <2>1, DecimalType
  <2>6. Decimal(s, i, j) <= Decimal(s, i, e)
    BY <2>2, <2>3, <2>4, <2>5
  <2> QED BY <2>6 DEF e
<1>3. Nat \subseteq T
  <2> HIDE DEF T
  <2> QED BY <1>1, <1>2, Induction
<1>4. k - j \in T /\ j + (k - j) = k
  BY <1>3
<1> QED BY <1>4

-----------------------------------------------------------------------------
\* The definition on whole streams: where a header ends, what a frame is, and that
\* Decode, a recursive function, exists and obeys its own equation.

\* A header ends at the first byte that is no digit, and at no other.
LEMMA HeaderEndFacts ==
  ASSUME NEW s \in Seq(Byte), NEW i \in 1..Len(s) + 1
  PROVE  /\ HeaderEnd(s, i) \in i..Len(s) + 1
         /\ Digits(s, i, HeaderEnd(s, i) - 1)
         /\ HeaderEnd(s, i) <= Len(s) => s[HeaderEnd(s, i)] \notin Digit
<1> DEFINE S == {k \in i..Len(s) : s[k] \notin Digit} \cup {Len(s) + 1}
           e == HeaderEnd(s, i)
<1>1. Len(s) \in Nat /\ i \in Nat /\ S \subseteq Nat /\ S # {} /\ S \subseteq i..Len(s) + 1
  OBVIOUS
<1>2. \E m \in S : \A n \in S : m <= n
  <2> HIDE DEF S
  <2> QED BY <1>1, Least
<1>3. e = Min(S)
  BY DEF HeaderEnd
<1>4. e \in S /\ \A n \in S : e <= n
  <2> HIDE DEF S, e
  <2> QED BY <1>2, <1>3 DEF Min
<1> HIDE DEF e
<1>5. ASSUME NEW k \in i..e - 1
      PROVE  s[k] \in Digit
  <2>1. k \in Int /\ e \in Int /\ k < e /\ k \in i..Len(s)
    BY <1>1, <1>4
  <2>2. k \notin S
    BY <1>4, <2>1
  <2> QED BY <2>1, <2>2
<1>6. e \in i..Len(s) + 1
  BY <1>1, <1>4
<1>7. e <= Len(s) => s[e] \notin Digit
  BY <1>1, <1>4
<1> QED BY <1>5, <1>6, <1>7 DEF e, Digits

LEMMA HeaderEndIs ==
  ASSUME NEW s \in Seq(Byte), NEW i \in 1..Len(s) + 1, NEW e \in i..Len(s) + 1,
         Digits(s, i, e - 1), e <= Len(s) => s[e] \notin Digit
  PROVE  HeaderEnd(s, i) = e
<1> DEFINE h == HeaderEnd(s, i)
<1>1. /\ h \in i..Len(s) + 1
      /\ \A k \in i..h - 1 : s[k] \in Digit
      /\ h <= Len(s) => s[h] \notin Digit
  BY HeaderEndFacts DEF Digits
<1> HIDE DEF h
<1>2. Len(s) \in Nat
  OBVIOUS
<1>3. ~ (h < e)
  BY <1>1, <1>2 DEF Digits
<1>4. ~ (e < h)
  BY <1>1, <1>2
<1>5. h = e
  BY <1>1, <1>2, <1>3, <1>4
<1> QED BY <1>5 DEF h

LEMMA SizeType ==
  ASSUME NEW s \in Seq(Byte), NEW i \in 1..Len(s) + 1
  PROVE  Size(s, i) \in Nat
<1>1. i \in Nat /\ HeaderEnd(s, i) - 1 \in Int /\ HeaderEnd(s, i) - 1 >= i - 1
  BY HeaderEndFacts
<1>2. Digits(s, i, HeaderEnd(s, i) - 1)
  BY HeaderEndFacts
<1> QED BY <1>1, <1>2, DecimalType DEF Size

\* A frame takes at least two bytes, and does not go beyond the stream.
LEMMA FrameBounds ==
  ASSUME NEW s \in Seq(Byte), NEW i \in 1..Len(s) + 1, NEW lax, Frame(s, i, lax)
  PROVE  /\ FrameEnd(s, i) \in i + 1..Len(s)
         /\ Payload(s, i) \in Seq(Byte)
<1>1. /\ HeaderEnd(s, i) \in i..Len(s) /\ HeaderEnd(s, i) \in Nat
  BY HeaderEndFacts DEF Frame, HeaderComplete
<1>2. Size(s, i) \in Nat
  BY SizeType
<1>3. FrameEnd(s, i) \in i + 1..Len(s) /\ FrameEnd(s, i) \in Nat
  BY <1>1, <1>2 DEF Frame, FrameEnd
<1>4. Payload(s, i) \in Seq(Byte)
  <2>1. \A k \in HeaderEnd(s, i) + 1..FrameEnd(s, i) - 1 : s[k] \in Byte
    BY <1>1, <1>3
  <2> QED BY <1>1, <1>3, <2>1 DEF Payload
<1> QED BY <1>3, <1>4

Decoding == [payloads : Seq(Seq(Byte)), rest : Nat]

\* One step of the recursion, for a function that follows it from position m on.
Step(f, s, lax, i) ==
  IF Frame(s, i, lax)
  THEN [payloads |-> <<Payload(s, i)>> \o f[FrameEnd(s, i) + 1].payloads,
        rest |-> f[FrameEnd(s, i) + 1].rest]
  ELSE [payloads |-> << >>, rest |-> i]

Follows(f, s, lax, m) == f = [i \in m..Len(s) + 1 |-> Step(f, s, lax, i)]

LEMMA StepType ==
  ASSUME NEW s \in Seq(Byte), NEW lax, NEW f, NEW i \in 1..Len(s) + 1,
         \A k \in i + 1..Len(s) + 1 : f[k] \in Decoding
  PROVE  Step(f, s, lax, i) \in Decoding
<1>1. CASE Frame(s, i, lax)
  <2> DEFINE q == FrameEnd(s, i) + 1
             pl == Payload(s, i)
  <2>1. q \in i + 1..Len(s) + 1 /\ pl \in Seq(Byte)
    BY <1>1, FrameBounds
  <2> HIDE DEF q, pl
  <2>2. f[q] \in Decoding
    BY <2>1
  <2>3. f[q].payloads \in Seq(Seq(Byte)) /\ f[q].rest \in Nat
    BY <2>2 DEF Decoding
  <2>4. <<pl>> \o f[q].payloads \in Seq(Seq(Byte))
    BY <2>1, <2>3
  <2>5. [payloads |-> <<pl>> \o f[q].payloads, rest |-> f[q].rest] \in Decoding
    BY <2>3, <2>4 DEF Decoding
  <2> QED BY <1>1, <2>5 DEF Step, q, pl
<1>2. CASE ~Frame(s, i, lax)
  BY <1>2 DEF Step, Decoding
<1> QED BY <1>1, <1>2

\* The recursion looks at later positions only.
LEMMA StepLooksAhead ==
  ASSUME NEW s \in Seq(Byte), NEW lax, NEW f, NEW g, NEW i \in 1..Len(s) + 1,
         \A k \in i + 1..Len(s) + 1 : f[k] = g[k]
  PROVE  Step(f, s, lax, i) = Step(g, s, lax, i)
<1>1. CASE Frame(s, i, lax)
  <2>1. FrameEnd(s, i) + 1 \in i + 1..Len(s) + 1
    BY <1>1, FrameBounds
  <2>2. f[FrameEnd(s, i) + 1] = g[FrameEnd(s, i) + 1]
    BY <2>1
  <2> QED BY <2>2 DEF Step
<1>2. CASE ~Frame(s, i, lax)
  BY <1>2 DEF Step
<1> QED BY <1>1, <1>2

\* The recursion of Decode has a solution: it is built from the end of the stream.
LEMMA FollowerExists ==
  ASSUME NEW s \in Seq(Byte), NEW lax
  PROVE  \E f : Follows(f, s, lax, 1)
<1> DEFINE N == Len(s) + 1
           T == {n \in Nat : n < N => \E f : Follows(f, s, lax, N - n)}
<1>0. N \in Nat /\ N >= 1 /\ Len(s) + 1 = N
  OBVIOUS
<1>1. 0 \in T
  <2> DEFINE f == [i \in N - 0..N |-> [payloads |-> << >>, rest |-> i]]
  <2>1. ASSUME NEW i \in N - 0..N
        PROVE  f[i] = Step(f, s, lax, i)
    <3>1. i \in 1..Len(s) + 1 /\ i = Len(s) + 1
      BY <1>0
    <3>2. ~Frame(s, i, lax)
      BY <3>1, FrameBounds
    <3> QED BY <3>2 DEF Step
  <2>2. f = [i \in N - 0..N |-> f[i]]
    OBVIOUS
  <2>3. Follows(f, s, lax, N - 0)
    <3> HIDE DEF f
    <3> QED BY <2>1, <2>2 DEF Follows
  <2> QED BY <2>3
<1>2. ASSUME NEW n \in Nat, n \in T
      PROVE  n + 1 \in T
  <2> SUFFICES ASSUME n + 1 < N
               PROVE  \E f : Follows(f, s, lax, N - (n + 1))
    OBVIOUS
  <2>1. PICK f : Follows(f, s, lax, N - n)
    BY <1>2, <1>0
  <2>2. PICK m \in 1..N : m = N - (n + 1) /\ m + 1 = N - n
    <3>1. N - (n + 1) \in 1..N /\ (N - (n + 1)) + 1 = N - n
      <4> HIDE DEF N
      <4> QED BY <1>0
    <3> QED BY <3>1
  <2> DEFINE g == [i \in m..N |-> IF i = m THEN Step(f, s, lax, i) ELSE f[i]]
  <2> HIDE DEF N
  <2>3. ASSUME NEW i \in m..N
        PROVE  g[i] = Step(g, s, lax, i)
    <3>1. \A k \in i + 1..Len(s) + 1 : f[k] = g[k]
      BY <1>0
    <3>2. i \in 1..Len(s) + 1
      BY <1>0
    <3>3. Step(f, s, lax, i) = Step(g, s, lax, i)
      <4> HIDE DEF g
      <4> QED BY <3>1, <3>2, StepLooksAhead
    <3>4. g[i] = Step(f, s, lax, i)
      <4>1. CASE i = m
        BY <4>1
      <4>2. CASE i # m
        <5>1. i \in m + 1..Len(s) + 1
          BY <1>0, <4>2
        <5>2. f[i] = Step(f, s, lax, i)
          BY <2>1, <2>2, <5>1 DEF Follows
        <5> QED BY <4>2, <5>2
      <4> QED BY <4>1, <4>2
    <3> QED BY <3>3, <3>4
  <2>4. g = [i \in m..N |-> g[i]]
    OBVIOUS
  <2>5. Follows(g, s, lax, m)
    <3> HIDE DEF g
    <3> QED BY <1>0, <2>3, <2>4 DEF Follows
  <2> QED BY <2>2, <2>5
<1>3. N - 1 \in T /\ N - (N - 1) = 1
  <2>1. Nat \subseteq T
    <3> HIDE DEF T
    <3> QED BY <1>1, <1>2, Induction
  <2> HIDE DEF T
  <2> QED BY <1>0, <2>1
<1> QED BY <1>0, <1>3

\* Decode chooses one, so that its equation holds, and its value has a type.
LEMMA DecodeFollows ==
  ASSUME NEW s \in Seq(Byte), NEW lax
  PROVE  Follows(DecodeFrom(s, lax), s, lax, 1)
<1> DEFINE from == CHOOSE from : Follows(from, s, lax, 1)
<1>1. DecodeFrom(s, lax) = from
  BY DEF DecodeFrom, Follows, Step
<1>2. Follows(from, s, lax, 1)
  BY FollowerExists
<1> QED BY <1>1, <1>2

LEMMA DecodeStep ==
  ASSUME NEW s \in Seq(Byte), NEW lax, NEW i \in 1..Len(s) + 1
  PROVE  /\ DecodeFrom(s, lax)[i] = Step(DecodeFrom(s, lax), s, lax, i)
         /\ DecodeFrom(s, lax)[i] \in Decoding
<1> DEFINE f == DecodeFrom(s, lax)
           N == Len(s) + 1
           Bad == {n \in Nat : N - n >= 1 /\ f[N - n] \notin Decoding}
<1>0. N \in Nat /\ N >= 1 /\ Len(s) + 1 = N
  OBVIOUS
<1>1. \A k \in 1..N : f[k] = Step(f, s, lax, k)
  <2>1. Follows(f, s, lax, 1)
    BY DecodeFollows
  <2> HIDE DEF f
  <2> QED BY <2>1 DEF Follows
<1> HIDE DEF f
<1>2. ASSUME Bad # {}
      PROVE  FALSE
  <2>1. PICK n \in Bad : \A m \in Bad : n <= m
    BY <1>2, Least
  <2>2. PICK k \in 1..N : k = N - n
    BY <1>0
  <2>3. \A j \in k + 1..N : f[j] \in Decoding
    <3> SUFFICES ASSUME NEW j \in k + 1..N, f[j] \notin Decoding PROVE FALSE
      OBVIOUS
    <3>1. PICK m \in Nat : m = N - j
      BY <1>0
    <3>2. N - m = j /\ N - m >= 1 /\ m < n
      BY <1>0, <2>2, <3>1
    <3>3. m \in Bad
      BY <3>2
    <3> QED BY <2>1, <3>2, <3>3
  <2>4. f[k] \in Decoding
    BY <1>0, <1>1, <2>3, StepType
  <2> QED BY <2>2, <2>4
<1>3. PICK m \in Nat : m = N - i /\ N - m = i
  BY <1>0
<1>4. f[i] \in Decoding
  <2>1. m \notin Bad
    BY <1>2
  <2> QED BY <1>3, <2>1
<1> QED BY <1>0, <1>1, <1>4 DEF f

-----------------------------------------------------------------------------
\* The reader and the definition: where in the stream the reader stands.

Prepend(delivered, d) == [payloads |-> delivered \o d.payloads, rest |-> d.rest]

\* However the stream goes on, it is what was delivered, and what it holds from p on.
Reached(p) ==
  \A t \in Seq(Byte) :
    Decode(fed \o t, TRUE) = Prepend(out, DecodeFrom(fed \o t, TRUE)[p])

\* However the stream goes on, the definition does not judge it.
Lost == \A t \in Seq(Byte) : ~Judged(fed \o t, TRUE)

\* The reader is in the header that starts at p: len_ is what its digits stand for.
InHeader(p) ==
  /\ state \in {"start", "length"} /\ pc # "failed"
  /\ p \in 1..Consumed + 1
  /\ Digits(fed, p, Consumed)
  /\ len = Decimal(fed, p, Consumed)
  /\ state = "start" => p = 1 /\ Consumed = 0
  /\ state = "length" => p > 1 \/ Consumed > 0
  /\ pc = "idle" => buf = << >>

\* The reader is behind the colon of the header that starts at p.
InBody(p) ==
  /\ state \in {"string", "delim"}
  /\ p \in 1..Consumed
  /\ Digits(fed, p, Consumed - 1)
  /\ len = Decimal(fed, p, Consumed - 1)
  /\ p > 1 \/ Consumed > p
  /\ state = "delim" => StringFits
  /\ pc = "idle" => state = "string" /\ len < SizeMod - 1 /\ Len(buf) <= len
  /\ pc = "failed" => \/ len = SizeMod - 1
                      \/ len < Len(buf) /\ buf[len + 1] # Comma

\* The reader has thrown on a byte that has no place in the header at p.
Refused(p) ==
  /\ state \in {"start", "length"} /\ pc = "failed"
  /\ p \in 1..Consumed
  /\ Digits(fed, p, Consumed - 1)
  /\ fed[Consumed] \notin Digit
  /\ fed[Consumed] = Colon => p = 1 /\ Consumed = 1

\* The inductive invariant: the stream is beyond judgement, or what the reader has
\* delivered are the frames before p, and it stands where it says in the one at p.
FramingInv ==
  \/ Lost
  \/ \E p \in Nat \ {0} : Reached(p) /\ (InHeader(p) \/ InBody(p) \/ Refused(p))

LEMMA Longer ==
  ASSUME NEW s \in Seq(Byte), NEW t \in Seq(Byte)
  PROVE  /\ s \o t \in Seq(Byte)
         /\ Len(s \o t) >= Len(s) /\ Len(s \o t) \in Nat /\ Len(s) \in Nat
         /\ \A k \in 1..Len(s) : (s \o t)[k] = s[k]
  OBVIOUS

\* What is known of a header stays true however the stream goes on.
LEMMA DigitsStay ==
  ASSUME NEW s \in Seq(Byte), NEW t \in Seq(Byte), NEW p \in Nat \ {0}, NEW j \in Int,
         p - 1 <= j, j <= Len(s), Digits(s, p, j)
  PROVE  /\ Digits(s \o t, p, j)
         /\ Decimal(s \o t, p, j) = Decimal(s, p, j)
<1>1. PICK u : u = s \o t
  OBVIOUS
<1>2. Same(s, u, p, j)
  BY <1>1, Longer DEF Same
<1>3. Digits(u, p, j)
  BY <1>2 DEF Same, Digits
<1>4. Decimal(s, p, j) = Decimal(u, p, j)
  BY <1>2, DecimalAgrees
<1> QED BY <1>1, <1>3, <1>4

\* Where no frame starts the payloads end.
LEMMA Unframed ==
  ASSUME NEW s \in Seq(Byte), NEW lax, NEW i \in 1..Len(s) + 1, ~Frame(s, i, lax),
         NEW o \in Seq(Seq(Byte)), Decode(s, lax) = Prepend(o, DecodeFrom(s, lax)[i])
  PROVE  Decode(s, lax).payloads = o /\ Decode(s, lax).rest = i
<1>1. DecodeFrom(s, lax)[i] = [payloads |-> << >>, rest |-> i]
  BY DecodeStep DEF Step
<1>2. o \o << >> = o
  OBVIOUS
<1>3. Prepend(o, DecodeFrom(s, lax)[i]) = [payloads |-> o \o << >>, rest |-> i]
  BY <1>1 DEF Prepend
<1> QED BY <1>2, <1>3

LEMMA NoFrame ==
  ASSUME fed \in Seq(Byte), NEW p, Reached(p), out \in Seq(Seq(Byte)),
         NEW t \in Seq(Byte), NEW u \in Seq(Byte), u = fed \o t,
         p \in 1..Len(u) + 1, ~Frame(u, p, TRUE)
  PROVE  Decode(u, TRUE).payloads = out /\ Decode(u, TRUE).rest = p
<1>1. Decode(u, TRUE) = Prepend(out, DecodeFrom(u, TRUE)[p])
  BY DEF Reached
<1> HIDE DEF Reached
<1> QED BY <1>1, Unframed

\* A length that a size_t cannot hold puts the stream beyond judgement.
LEMMA TooLong ==
  ASSUME fed \in Seq(Byte), NEW p \in Nat \ {0}, Reached(p), out \in Seq(Seq(Byte)),
         NEW j \in Int, p - 1 <= j, j <= Len(fed), Digits(fed, p, j),
         Decimal(fed, p, j) >= SizeMod
  PROVE  Lost
<1> SUFFICES ASSUME NEW t \in Seq(Byte) PROVE ~Judged(fed \o t, TRUE)
  BY DEF Lost
<1>1. PICK u \in Seq(Byte) : u = fed \o t
  BY Longer
<1>2. Digits(u, p, j) /\ Decimal(u, p, j) = Decimal(fed, p, j)
  BY <1>1, DigitsStay
<1>3. p \in 1..Len(u) + 1 /\ Len(u) >= Len(fed) /\ Len(u) \in Nat /\ Len(fed) \in Nat
  BY <1>1, Longer
<1> DEFINE e == HeaderEnd(u, p)
<1>4. e \in p..Len(u) + 1 /\ Digits(u, p, e - 1) /\ (e <= Len(u) => u[e] \notin Digit)
  BY <1>3, HeaderEndFacts
<1>5. Size(u, p) = Decimal(u, p, e - 1)
  BY DEF Size
<1> HIDE DEF e
<1>6. j <= e - 1
  BY <1>2, <1>3, <1>4 DEF Digits
<1>7. Decimal(u, p, j) <= Decimal(u, p, e - 1)
  <2>1. e - 1 \in Int
    BY <1>4
  <2> QED BY <1>4, <1>6, <2>1, DecimalGrows
<1>8. Size(u, p) \in Nat /\ Decimal(u, p, j) \in Nat
  <2>1. Size(u, p) \in Nat
    BY <1>3, SizeType
  <2>2. Decimal(u, p, j) \in Nat
    BY <1>2, DecimalType
  <2> QED BY <2>1, <2>2
<1>9. ~(Size(u, p) < SizeMod)
  <2>1. Decimal(u, p, j) >= SizeMod /\ SizeMod \in Nat
    BY <1>2, ReaderAssumption
  <2> QED BY <1>5, <1>7, <1>8, <2>1
<1>10. ~Frame(u, p, TRUE)
  <2>1. ~(Size(u, p) < SizeMod - 1)
    BY <1>8, <1>9, ReaderAssumption
  <2> QED BY <2>1 DEF Frame
<1>11. Decode(u, TRUE).rest = p
  BY <1>1, <1>3, <1>10, NoFrame
<1>12. ~Judged(u, TRUE)
  BY <1>9, <1>11 DEF Judged
<1> QED BY <1>1, <1>12

\* So does a high byte in a header.
LEMMA HighInHeader ==
  ASSUME fed \in Seq(Byte), NEW p \in Nat \ {0}, Reached(p), out \in Seq(Seq(Byte)),
         NEW e \in p..Len(fed), Digits(fed, p, e - 1), fed[e] \in HighByte
  PROVE  Lost
<1> SUFFICES ASSUME NEW t \in Seq(Byte) PROVE ~Judged(fed \o t, TRUE)
  BY DEF Lost
<1>1. PICK u \in Seq(Byte) : u = fed \o t
  BY Longer
<1>2. Digits(u, p, e - 1)
  BY <1>1, DigitsStay
<1>3. p \in 1..Len(u) + 1 /\ Len(u) >= Len(fed) /\ u[e] = fed[e] /\ e \in 1..Len(u)
  BY <1>1, Longer
<1>4. u[e] \notin Digit /\ u[e] # Colon
  BY <1>3, ReaderAssumption
<1>5. HeaderEnd(u, p) = e
  BY <1>2, <1>3, <1>4, HeaderEndIs
<1>6. ~Frame(u, p, TRUE)
  BY <1>4, <1>5 DEF Frame, HeaderComplete
<1>7. Decode(u, TRUE).rest = p
  BY <1>1, <1>3, <1>6, NoFrame
<1>8. ~Judged(u, TRUE)
  <2>1. HeaderEnd(u, p) <= Len(u) /\ u[HeaderEnd(u, p)] \in HighByte
    BY <1>3, <1>5
  <2> QED BY <1>7, <2>1 DEF Judged
<1> QED BY <1>1, <1>8

LEMMA MayBeEmptyIs == \A i : MayBeEmpty(i, TRUE) <=> i > 1
  BY DEF MayBeEmpty

\* The three things that the byte behind the digits of a header can be.
LEMMA HeaderOpen ==
  ASSUME NEW s \in Seq(Byte), NEW i, NEW lax, HeaderEnd(s, i) = Len(s) + 1
  PROVE  ~Frame(s, i, lax) /\ ~Broken(s, i, lax)
  BY DEF Frame, Broken, HeaderComplete

LEMMA HeaderWrong ==
  ASSUME NEW s \in Seq(Byte), NEW i, NEW lax, HeaderEnd(s, i) <= Len(s),
         s[HeaderEnd(s, i)] = Colon => ~(HeaderEnd(s, i) > i) /\ ~MayBeEmpty(i, lax)
  PROVE  ~Frame(s, i, lax) /\ Broken(s, i, lax)
  BY DEF Frame, Broken, HeaderComplete

LEMMA HeaderDone ==
  ASSUME NEW s \in Seq(Byte), NEW i \in 1..Len(s) + 1, NEW lax,
         HeaderEnd(s, i) <= Len(s), s[HeaderEnd(s, i)] = Colon,
         HeaderEnd(s, i) > i \/ MayBeEmpty(i, lax),
         NEW n \in Nat, Size(s, i) = n
  PROVE  /\ n = SizeMod - 1 => ~Frame(s, i, lax) /\ Broken(s, i, lax)
         /\ n < SizeMod - 1 /\ FrameEnd(s, i) > Len(s) =>
                ~Frame(s, i, lax) /\ ~Broken(s, i, lax)
         /\ FrameEnd(s, i) <= Len(s) /\ s[FrameEnd(s, i)] # Comma =>
                ~Frame(s, i, lax) /\ Broken(s, i, lax)
         /\ n < SizeMod - 1 /\ FrameEnd(s, i) <= Len(s) /\ s[FrameEnd(s, i)] = Comma =>
                Frame(s, i, lax)
<1>1. HeaderComplete(s, i, lax)
  BY DEF HeaderComplete
<1>2. FrameEnd(s, i) \in Int
  <2>1. HeaderEnd(s, i) \in Int
    BY HeaderEndFacts
  <2> QED BY <2>1 DEF FrameEnd
<1>3. SizeMod \in Nat /\ Len(s) \in Nat
  BY ReaderAssumption
<1>4. n = SizeMod - 1 => ~(n < SizeMod - 1)
  BY <1>3
<1>5. FrameEnd(s, i) > Len(s) => ~(FrameEnd(s, i) <= Len(s))
  BY <1>2, <1>3
<1> QED BY <1>1, <1>3, <1>4, <1>5 DEF Frame, Broken

\* What the definition calls broken no continuation of the stream makes a frame:
\* where the reader throws, waiting for more would not have helped.  (lines 68, 85-87)
THEOREM BrokenForGood ==
  ASSUME NEW s \in Seq(Byte), NEW t \in Seq(Byte), NEW i \in 1..Len(s) + 1, NEW lax,
         Broken(s, i, lax)
  PROVE  ~Frame(s \o t, i, lax)
<1>1. PICK u \in Seq(Byte) : u = s \o t
  BY Longer
<1>2. /\ Len(s) \in Nat /\ Len(u) \in Nat /\ Len(u) >= Len(s)
      /\ \A k \in 1..Len(s) : u[k] = s[k]
  BY <1>1, Longer
<1>3. PICK e \in i..Len(s) + 1 : e = HeaderEnd(s, i) /\ Digits(s, i, e - 1)
                               /\ (e <= Len(s) => s[e] \notin Digit)
  BY HeaderEndFacts
<1>4. e <= Len(s)
  BY <1>3 DEF Broken, HeaderComplete
<1>5. e \in 1..Len(s) /\ e \in i..Len(u) + 1 /\ i \in 1..Len(u) + 1 /\ u[e] = s[e]
  BY <1>2, <1>4
<1>6. Digits(u, i, e - 1) /\ Decimal(u, i, e - 1) = Decimal(s, i, e - 1)
  <2>1. i \in Nat \ {0} /\ e - 1 \in Int /\ i - 1 <= e - 1 /\ e - 1 <= Len(s)
    BY <1>2, <1>4
  <2> QED BY <1>1, <1>3, <2>1, DigitsStay
<1>7. HeaderEnd(u, i) = e
  BY <1>3, <1>5, <1>6, HeaderEndIs
<1>8. PICK end \in Int : end = FrameEnd(s, i) /\ end = FrameEnd(u, i)
                      /\ end >= 1 /\ Size(u, i) = Size(s, i)
  <2>1. Size(u, i) = Size(s, i)
    BY <1>3, <1>6, <1>7 DEF Size
  <2>2. Size(s, i) \in Nat
    BY SizeType
  <2> QED BY <1>3, <1>5, <1>7, <2>1, <2>2 DEF FrameEnd
<1>9. HeaderComplete(u, i, lax) <=> HeaderComplete(s, i, lax)
  BY <1>3, <1>4, <1>5, <1>7, <1>2 DEF HeaderComplete
<1>10. CASE ~HeaderComplete(s, i, lax)
  BY <1>1, <1>9, <1>10 DEF Frame
<1>11. CASE Size(s, i) = SizeMod - 1
  <2>1. ~(Size(u, i) < SizeMod - 1)
    BY <1>8, <1>11, ReaderAssumption
  <2> QED BY <1>1, <2>1 DEF Frame
<1>12. CASE FrameEnd(s, i) <= Len(s) /\ s[FrameEnd(s, i)] # Comma
  <2>1. end \in 1..Len(s) /\ s[end] # Comma
    BY <1>8, <1>12, <1>2
  <2>2. u[FrameEnd(u, i)] # Comma
    BY <1>2, <1>8, <2>1
  <2> QED BY <1>1, <2>2 DEF Frame
<1> QED BY <1>10, <1>11, <1>12 DEF Broken

\* What a sequence is after another one is appended to it.
Extends(u, s, t) ==
    /\ u \in Seq(Byte) /\ Len(u) = Len(s) + Len(t)
    /\ \A k \in 1..Len(s) : u[k] = s[k]
    /\ \A k \in 1..Len(t) : u[Len(s) + k] = t[k]

LEMMA Continued ==
  ASSUME NEW s \in Seq(Byte), NEW t \in Seq(Byte)
  PROVE  Extends(s \o t, s, t)
<1>1. s \o t \in Seq(Byte) /\ Len(s \o t) = Len(s) + Len(t)
  OBVIOUS
<1>2. \A k \in 1..Len(s) : (s \o t)[k] = s[k]
  OBVIOUS
<1>3. ASSUME NEW k \in 1..Len(t)
      PROVE  (s \o t)[Len(s) + k] = t[k]
  OBVIOUS
<1> QED BY <1>1, <1>2, <1>3 DEF Extends

\* The m bytes that are still to come, with the colon as the n-th of them if it
\* is missing: what they are between does not matter, a comma is the last.
Missing(m, n) == [k \in 1..m |-> IF k = n THEN Colon ELSE Comma]

LEMMA MissingType ==
  ASSUME NEW m \in Nat, NEW n
  PROVE  Missing(m, n) \in Seq(Byte) /\ Len(Missing(m, n)) = m
<1>1. Colon \in Byte /\ Comma \in Byte
  BY ReaderAssumption DEF Byte
<1>2. \A k \in 1..m : (IF k = n THEN Colon ELSE Comma) \in Byte
  BY <1>1
<1>3. Missing(m, n) \in [1..m -> Byte]
  BY <1>2 DEF Missing
<1> QED BY <1>3

\* And what is not broken, with a length that has a digit and is in range, some
\* continuation makes a frame: parse() waits only for what can still come.
\* (lines 65-66, 74)
THEOREM UnbrokenCanBeFrame ==
  ASSUME NEW s \in Seq(Byte), NEW i \in 1..Len(s) + 1, NEW lax,
         ~Broken(s, i, lax), Size(s, i) < SizeMod - 1,
         HeaderEnd(s, i) > i \/ MayBeEmpty(i, lax), FrameEnd(s, i) > Len(s)
  PROVE  \E t \in Seq(Byte) : Frame(s \o t, i, lax)
<1>1. PICK e \in i..Len(s) + 1 : e = HeaderEnd(s, i) /\ Digits(s, i, e - 1)
                               /\ (e <= Len(s) => s[e] \notin Digit)
  BY HeaderEndFacts
<1>2. PICK end : end = FrameEnd(s, i)
  OBVIOUS
<1>3. /\ Size(s, i) \in Nat /\ end = e + Size(s, i) + 1 /\ e \in Nat /\ Len(s) \in Nat
      /\ i \in Nat \ {0}
  BY <1>1, <1>2, SizeType DEF FrameEnd
<1>4. end \in Nat /\ e < end /\ Len(s) < end
  BY <1>2, <1>3
<1>5. Colon \in Byte /\ Comma \in Byte /\ Colon \notin Digit
  BY ReaderAssumption DEF Byte
<1>6. PICK t : t = Missing(end - Len(s), e - Len(s))
  OBVIOUS
<1>7. t \in Seq(Byte) /\ Len(t) = end - Len(s)
  <2>1. end - Len(s) \in Nat
    BY <1>3, <1>4
  <2> QED BY <1>6, <2>1, MissingType
<1>8. PICK u : u = s \o t
  OBVIOUS
<1>9. /\ u \in Seq(Byte) /\ Len(u) = Len(s) + Len(t)
      /\ \A k \in 1..Len(s) : u[k] = s[k]
      /\ \A k \in 1..Len(t) : u[Len(s) + k] = t[k]
  <2>1. s \in Seq(Byte) /\ t \in Seq(Byte)
    BY <1>7
  <2>2. Extends(s \o t, s, t)
    BY ONLY <2>1, Continued
  <2> QED BY <2>2, <1>8 DEF Extends
<1>10. Len(u) = end /\ i \in 1..Len(u) + 1 /\ e \in i..Len(u) + 1
  BY <1>1, <1>3, <1>4, <1>7, <1>9
<1>11. u[e] = Colon
  <2>1. CASE e <= Len(s)
    <3>1. s[e] = Colon
      BY <1>1, <2>1 DEF Broken, HeaderComplete
    <3>2. e \in 1..Len(s)
      BY <1>1, <1>3, <2>1
    <3> QED BY <1>9, <3>1, <3>2
  <2>2. CASE ~(e <= Len(s))
    <3>1. e = Len(s) + 1 /\ 1 \in 1..end - Len(s) /\ e - Len(s) = 1
      BY <1>1, <1>3, <1>4, <2>2
    <3>2. t[1] = Colon /\ 1 \in 1..Len(t)
      BY <1>6, <1>7, <3>1 DEF Missing
    <3> QED BY <1>9, <3>1, <3>2
  <2> QED BY <2>1, <2>2
<1>12. u[end] = Comma
  <2>1. PICK k : k = end - Len(s)
    OBVIOUS
  <2>2. k \in 1..end - Len(s) /\ k # e - Len(s) /\ Len(s) + k = end
    BY <1>3, <1>4, <2>1
  <2>3. t[k] = Comma /\ k \in 1..Len(t)
    BY <1>6, <1>7, <2>2 DEF Missing
  <2> QED BY <1>9, <2>2, <2>3
<1>13. Digits(u, i, e - 1) /\ Decimal(u, i, e - 1) = Decimal(s, i, e - 1)
  <2>1. e - 1 \in Int /\ i - 1 <= e - 1 /\ e - 1 <= Len(s)
    BY <1>1, <1>3
  <2> QED BY <1>1, <1>3, <1>7, <1>8, <2>1, DigitsStay
<1>14. HeaderEnd(u, i) = e
  BY <1>5, <1>9, <1>10, <1>11, <1>13, HeaderEndIs
<1>15. Size(u, i) = Size(s, i) /\ FrameEnd(u, i) = end
  <2>1. Size(u, i) = Size(s, i)
    BY <1>1, <1>13, <1>14 DEF Size
  <2> QED BY <1>3, <1>14, <2>1 DEF FrameEnd
<1>16. HeaderComplete(u, i, lax)
  BY <1>1, <1>3, <1>4, <1>10, <1>11, <1>14 DEF HeaderComplete
<1>17. Frame(u, i, lax)
  BY <1>4, <1>10, <1>12, <1>15, <1>16 DEF Frame
<1> QED BY <1>7, <1>8, <1>17

\* The invariant says what the property asks, when the stream ends here.
LEMMA FramingHolds ==
  ASSUME StreamInv, FramingInv
  PROVE  FramingFollowed
<1> SUFFICES ASSUME Judged(fed, TRUE)
             PROVE  CASE pc = "idle" -> /\ out = Decode(fed, TRUE).payloads
                                        /\ ~Broken(fed, Decode(fed, TRUE).rest, TRUE)
                      [] pc = "failed" -> /\ out = Decode(fed, TRUE).payloads
                                          /\ Broken(fed, Decode(fed, TRUE).rest, TRUE)
                      [] pc \in {"parsing", "thrown"} ->
                           out = SubSeq(Decode(fed, TRUE).payloads, 1, Len(out))
  BY DEF FramingFollowed
<1>0. /\ fed \in Seq(Byte) /\ buf \in Seq(Byte) /\ out \in Seq(Seq(Byte)) /\ << >> \in Seq(Byte)
      /\ Consumed \in Nat /\ Len(fed) = Consumed + Len(buf)
      /\ Len(buf) \in Nat /\ Len(fed) \in Nat /\ len \in Nat /\ len < SizeMod /\ SizeMod \in Nat
      /\ pc \in {"idle", "parsing", "failed", "thrown"}
  BY ReaderAssumption DEF StreamInv, TypeOK, Consumed
<1>a. fed \o << >> = fed
  BY <1>0
<1>1. PICK p \in Nat \ {0} : Reached(p) /\ (InHeader(p) \/ InBody(p) \/ Refused(p))
  <2>1. ~Lost
    BY <1>0, <1>a DEF Lost
  <2> QED BY <2>1 DEF FramingInv
<1>2. p \in 1..Len(fed) + 1
  BY <1>0, <1>1 DEF InHeader, InBody, Refused
<1>3. CASE pc \in {"parsing", "thrown"}
  <2>1. DecodeFrom(fed, TRUE)[p] \in Decoding
    BY <1>0, <1>2, DecodeStep
  <2>2. Decode(fed, TRUE) = Prepend(out, DecodeFrom(fed, TRUE)[p])
    BY <1>0, <1>a, <1>1 DEF Reached
  <2> DEFINE more == DecodeFrom(fed, TRUE)[p].payloads
  <2>3. more \in Seq(Seq(Byte)) /\ Decode(fed, TRUE).payloads = out \o more
    <3>1. more \in Seq(Seq(Byte))
      BY <2>1 DEF Decoding
    <3>2. Prepend(out, DecodeFrom(fed, TRUE)[p]).payloads = out \o more
      BY DEF Prepend
    <3>3. Decode(fed, TRUE).payloads = out \o more
      BY <2>2, <3>2
    <3> QED BY <3>1, <3>3
  <2> HIDE DEF more
  <2>4. SubSeq(out \o more, 1, Len(out)) = out
    BY <1>0
  <2> QED BY <1>3, <2>3, <2>4
<1>4. ASSUME ~Frame(fed, p, TRUE)
      PROVE  out = Decode(fed, TRUE).payloads /\ Decode(fed, TRUE).rest = p
  BY <1>0, <1>a, <1>1, <1>2, <1>4, NoFrame
<1>5. CASE InHeader(p) /\ pc \notin {"parsing", "thrown"}
  <2>1. pc = "idle" /\ Consumed = Len(fed) /\ Digits(fed, p, Len(fed))
    BY <1>0, <1>5 DEF InHeader
  <2> PICK e : e = Len(fed) + 1
    OBVIOUS
  <2>2. Digits(fed, p, e - 1) /\ e \in p..Len(fed) + 1 /\ ~(e <= Len(fed))
    <3>1. e - 1 = Len(fed)
      BY <1>0
    <3>2. e \in p..Len(fed) + 1 /\ ~(e <= Len(fed))
      BY <1>0, <1>2
    <3> QED BY <2>1, <3>1, <3>2
  <2>3. HeaderEnd(fed, p) = Len(fed) + 1
    <3>1. HeaderEnd(fed, p) = e
      BY <1>0, <1>2, <2>2, HeaderEndIs
    <3> QED BY <3>1
  <2>4. ~Frame(fed, p, TRUE) /\ ~Broken(fed, p, TRUE)
    BY <1>0, <2>3, HeaderOpen
  <2> QED BY <1>4, <2>1, <2>4
<1>6. CASE InBody(p) /\ pc \notin {"parsing", "thrown"}
  <2> PICK e : e = Consumed
    OBVIOUS
  <2>1. /\ e \in p..Len(fed) + 1 /\ e <= Len(fed) /\ Digits(fed, p, e - 1)
        /\ fed[e] = Colon /\ fed[e] \notin Digit
    BY <1>0, <1>6, ReaderAssumption DEF InBody, StreamInv
  <2>2. HeaderEnd(fed, p) = e
    BY <1>0, <1>2, <2>1, HeaderEndIs
  <2>3. Size(fed, p) = len /\ FrameEnd(fed, p) = Consumed + len + 1
    BY <1>6, <2>2 DEF Size, FrameEnd, InBody
  <2>4. HeaderEnd(fed, p) > p \/ MayBeEmpty(p, TRUE)
    BY <1>6, <2>2, MayBeEmptyIs DEF InBody
  <2>5. /\ HeaderEnd(fed, p) <= Len(fed) /\ fed[HeaderEnd(fed, p)] = Colon
    BY <2>1, <2>2
  <2>6. CASE pc = "idle"
    <3>1. FrameEnd(fed, p) > Len(fed) /\ len < SizeMod - 1
      BY <1>0, <1>6, <2>3, <2>6 DEF InBody
    <3>2. ~Frame(fed, p, TRUE) /\ ~Broken(fed, p, TRUE)
      BY <1>0, <1>2, <2>3, <2>4, <2>5, <3>1, HeaderDone
    <3> QED BY <1>4, <2>6, <3>2
  <2>7. CASE pc = "failed"
    <3>1. CASE len = SizeMod - 1
      <4>1. ~Frame(fed, p, TRUE) /\ Broken(fed, p, TRUE)
        BY <1>0, <1>2, <2>3, <2>4, <2>5, <3>1, HeaderDone
      <4> QED BY <1>4, <2>7, <4>1
    <3>2. CASE len < Len(buf) /\ buf[len + 1] # Comma
      <4>1. len + 1 \in 1..Len(buf) /\ FrameEnd(fed, p) = Consumed + (len + 1)
        BY <1>0, <2>3, <3>2
      <4>2. fed[FrameEnd(fed, p)] # Comma /\ FrameEnd(fed, p) <= Len(fed)
        BY <1>0, <3>2, <4>1 DEF StreamInv
      <4>3. ~Frame(fed, p, TRUE) /\ Broken(fed, p, TRUE)
        BY <1>0, <1>2, <2>3, <2>4, <2>5, <4>2, HeaderDone
      <4> QED BY <1>4, <2>7, <4>3
    <3> QED BY <1>6, <2>7, <3>1, <3>2 DEF InBody
  <2> QED BY <1>0, <1>6, <2>6, <2>7
<1>7. CASE Refused(p)
  <2> PICK e : e = Consumed
    OBVIOUS
  <2>1. /\ e \in p..Len(fed) + 1 /\ e <= Len(fed) /\ Digits(fed, p, e - 1)
        /\ fed[e] \notin Digit /\ (fed[e] = Colon => p = 1 /\ e = 1)
    BY <1>0, <1>7 DEF Refused
  <2>2. HeaderEnd(fed, p) = e
    BY <1>0, <1>2, <2>1, HeaderEndIs
  <2>3. /\ HeaderEnd(fed, p) <= Len(fed)
        /\ fed[HeaderEnd(fed, p)] = Colon => ~(HeaderEnd(fed, p) > p) /\ ~MayBeEmpty(p, TRUE)
    <3>1. ASSUME fed[e] = Colon
          PROVE  ~(e > p) /\ ~MayBeEmpty(p, TRUE)
      <4>1. p = 1 /\ e = 1
        BY <2>1, <3>1
      <4>2. ~(p > 1) /\ ~(e > p)
        BY <4>1
      <4> QED BY <4>2, MayBeEmptyIs
    <3> QED BY <2>1, <2>2, <3>1
  <2>4. ~Frame(fed, p, TRUE) /\ Broken(fed, p, TRUE)
    BY <1>0, <2>3, HeaderWrong
  <2> QED BY <1>4, <1>7, <2>4 DEF Refused
<1> QED BY <1>0, <1>1, <1>3, <1>5, <1>6, <1>7

-----------------------------------------------------------------------------
\* Every step keeps to the framing.

\* The buffer of a real machine is never longer than size() can say.
BufferFits == Len(buf) < SizeMod

LEMMA SmallMod ==
  ASSUME NEW m \in Nat, NEW a \in Nat, a < m
  PROVE  a % m = a
  OBVIOUS

LEMMA EmptyDecimal ==
  ASSUME NEW s, NEW i \in Nat, NEW j \in Int, j = i - 1
  PROVE  Digits(s, i, j) /\ Decimal(s, i, j) = 0
<1>1. Digits(s, i, j)
  BY DEF Digits
<1>2. j >= i - 1
  OBVIOUS
<1>3. j = i - 1 => Decimal(s, i, j) = 0
  BY <1>1, <1>2, DecimalType
<1> QED BY <1>1, <1>3

LEMMA InitFraming == Init => FramingInv
<1> SUFFICES ASSUME Init PROVE FramingInv
  OBVIOUS
<1>1. Consumed = 0 /\ fed = << >> /\ out = << >>
  BY DEF Init, Consumed
<1>2. InHeader(1)
  <2>1. Digits(fed, 1, 0)
    BY DEF Digits
  <2>2. Decimal(fed, 1, 0) = 0
    <3> PICK i \in Nat : i = 1
      OBVIOUS
    <3> PICK j \in Int : j = 0
      OBVIOUS
    <3>1. Decimal(fed, i, j) = 0
      BY EmptyDecimal
    <3> QED BY <3>1
  <2> QED BY <1>1, <2>1, <2>2 DEF Init, InHeader
<1>3. Reached(1)
  <2> SUFFICES ASSUME NEW t \in Seq(Byte)
               PROVE  Decode(fed \o t, TRUE) = Prepend(out, DecodeFrom(fed \o t, TRUE)[1])
    BY DEF Reached
  <2>1. PICK u \in Seq(Byte) : u = fed \o t
    BY <1>1
  <2>2. DecodeFrom(u, TRUE)[1] \in Decoding
    <3>1. 1 \in 1..Len(u) + 1
      OBVIOUS
    <3> QED BY <3>1, DecodeStep
  <2> DEFINE d == DecodeFrom(u, TRUE)[1]
  <2>3. Decode(u, TRUE) = d
    BY DEF Decode
  <2> HIDE DEF d
  <2>4. d = [payloads |-> d.payloads, rest |-> d.rest] /\ d.payloads \in Seq(Seq(Byte))
    BY <2>2 DEF d, Decoding
  <2>5. out \o d.payloads = d.payloads
    BY <1>1, <2>4
  <2>6. d = Prepend(out, d)
    BY <2>4, <2>5 DEF Prepend
  <2> QED BY <2>1, <2>3, <2>6 DEF d
<1> QED BY <1>2, <1>3 DEF FramingInv

LEMMA SameReached ==
  ASSUME fed' = fed, out' = out, NEW p, Reached(p)
  PROVE  Reached(p)'
  BY DEF Reached

LEMMA SameLost ==
  ASSUME fed' = fed, Lost
  PROVE  Lost'
  BY DEF Lost

\* What the stream invariant says, in the form the steps below need it.
LEMMA StreamFacts ==
  ASSUME StreamInv
  PROVE  /\ fed \in Seq(Byte) /\ buf \in Seq(Byte) /\ out \in Seq(Seq(Byte))
         /\ Len(buf) \in Nat /\ Len(fed) \in Nat /\ Consumed \in Nat
         /\ Len(fed) = Consumed + Len(buf)
         /\ len \in Nat /\ len < SizeMod /\ SizeMod \in Nat
         /\ pc \in {"idle", "parsing", "failed", "thrown"}
         /\ state \in {"start", "length", "string", "delim"}
         /\ \A i \in 1..Len(buf) : buf[i] = fed[Consumed + i]
  BY ReaderAssumption DEF StreamInv, TypeOK, Consumed

LEMMA GetNext ==
  ASSUME StreamInv, buf' = Rest, fed' = fed, buf # << >>
  PROVE  /\ Consumed' = Consumed + 1 /\ Consumed + 1 \in 1..Len(fed)
         /\ fed[Consumed + 1] = Head(buf)
<1>1. Consumed' = Consumed + 1 /\ fed'[Consumed'] = Head(buf)
  BY GetConsumes
<1>2. Len(buf) >= 1
  BY StreamFacts
<1> QED BY <1>1, <1>2, StreamFacts

\* A digit in the header, with the wrap-around of len_.
LEMMA DigitFraming ==
  ASSUME StreamInv, NEW p \in Nat \ {0}, Reached(p), InHeader(p), LengthDigit
  PROVE  FramingInv'
<1>1. PICK d \in Digit : Gets(d) /\ len' = (len * 10 + d) % SizeMod
  BY DEF LengthDigit
<1>2. buf # << >> /\ Head(buf) = d /\ d \in Nat
  BY <1>1, DigitIsNumber DEF Gets
<1>3. buf' = Rest /\ fed' = fed /\ out' = out /\ pc' = "parsing" /\ state' = "length"
  BY DEF LengthDigit, ParsingLength
<1> PICK j : j = Consumed + 1
  OBVIOUS
<1>4. Consumed' = j /\ j \in 1..Len(fed) /\ fed[j] = d
  BY <1>2, <1>3, GetNext
<1>5. p \in 1..j /\ j \in Int /\ p - 1 <= j /\ j <= Len(fed) /\ j >= p /\ j - 1 = Consumed
  <2>1. p \in 1..Consumed + 1 /\ Consumed \in Nat /\ Len(fed) \in Nat
    BY StreamFacts DEF InHeader
  <2> QED BY <1>4, <2>1
<1>6. Digits(fed, p, j)
  BY <1>4, <1>5 DEF InHeader, Digits
<1>7. Decimal(fed, p, j) = len * 10 + d /\ Decimal(fed, p, j) \in Nat
  <2>1. Decimal(fed, p, j) = Decimal(fed, p, j - 1) * 10 + fed[j] /\ Decimal(fed, p, j) \in Nat
    BY <1>5, <1>6, DecimalType
  <2> QED BY <1>4, <1>5, <2>1 DEF InHeader
<1>8. CASE Decimal(fed, p, j) >= SizeMod
  <2>1. Lost
    BY <1>5, <1>6, <1>8, StreamFacts, TooLong
  <2> QED BY <1>3, <2>1, SameLost DEF FramingInv
<1>9. CASE Decimal(fed, p, j) < SizeMod
  <2>1. len' = Decimal(fed, p, j)
    <3>1. len * 10 + d \in Nat /\ SizeMod \in Nat /\ len * 10 + d < SizeMod
      BY <1>2, <1>7, <1>9, StreamFacts
    <3>2. (len * 10 + d) % SizeMod = len * 10 + d
      BY <3>1, SmallMod
    <3> QED BY <1>1, <1>7, <3>2
  <2>2. InHeader(p)'
    BY <1>3, <1>4, <1>5, <1>6, <2>1 DEF InHeader
  <2> QED BY <1>3, <2>2, SameReached DEF FramingInv
<1> QED BY <1>7, <1>8, <1>9, StreamFacts

\* The byte behind the digits, or none.
LEMMA OtherHeaderFraming ==
  ASSUME StreamInv, NEW p \in Nat \ {0}, Reached(p), InHeader(p),
         LengthDone \/ LengthStarved \/ LengthRejected
  PROVE  FramingInv'
<1>1. buf' = Rest /\ fed' = fed /\ out' = out /\ len' = len
  BY DEF LengthDone, LengthStarved, LengthRejected
<1> PICK j : j = Consumed + 1
  OBVIOUS
<1>2. ASSUME buf # << >>
      PROVE  /\ Consumed' = j /\ j \in 1..Len(fed) /\ fed[j] = Head(buf)
             /\ p \in 1..j /\ j - 1 = Consumed /\ j \in Int
  <2>1. Consumed' = j /\ j \in 1..Len(fed) /\ fed[j] = Head(buf)
    BY <1>1, <1>2, GetNext
  <2> QED BY <2>1, StreamFacts DEF InHeader
<1>3. CASE LengthDone
  <2>1. buf # << >> /\ Head(buf) = Colon /\ state = "length" /\ state' = "string"
        /\ pc' = "parsing"
    BY <1>3 DEF LengthDone, Gets, ParsingLength
  <2>2. Digits(fed, p, j - 1) /\ len' = Decimal(fed, p, j - 1)
    BY <1>1, <1>2, <2>1 DEF InHeader
  <2>3. p > 1 \/ j > p
    BY <1>2, <2>1, StreamFacts DEF InHeader
  <2>4. InBody(p)'
    BY <1>1, <1>2, <2>1, <2>2, <2>3 DEF InBody
  <2> QED BY <1>1, <2>4, SameReached DEF FramingInv
<1>4. CASE LengthStarved /\ buf = << >>
  <2>1. buf' = << >> /\ pc' = "idle" /\ state' = state /\ Consumed' = Consumed
    BY <1>1, <1>4 DEF LengthStarved, Rest, Consumed
  <2>2. InHeader(p)'
    BY <1>1, <2>1 DEF InHeader
  <2> QED BY <1>1, <2>2, SameReached DEF FramingInv
<1>5. CASE LengthStarved /\ buf # << >>
  <2>1. fed[j] \in HighByte /\ Digits(fed, p, j - 1) /\ j \in p..Len(fed)
    BY <1>2, <1>5, StreamFacts DEF LengthStarved, GetsEnd, InHeader
  <2>2. Lost
    BY <2>1, StreamFacts, HighInHeader
  <2> QED BY <1>1, <2>2, SameLost DEF FramingInv
<1>6. CASE LengthRejected
  <2>1. buf # << >> /\ Head(buf) \notin Digit /\ (Head(buf) = Colon => state = "start")
        /\ pc' = "failed" /\ state' = state
    BY <1>6 DEF LengthRejected, GetsEnd, Gets
  <2>2. Digits(fed, p, j - 1) /\ state \in {"start", "length"}
    BY <1>2, <2>1 DEF InHeader
  <2>3. fed[j] = Colon => p = 1 /\ j = 1
    BY <1>2, <2>1 DEF InHeader
  <2>4. Refused(p)'
    BY <1>1, <1>2, <2>1, <2>2, <2>3 DEF Refused
  <2> QED BY <1>1, <2>4, SameReached DEF FramingInv
<1> QED BY <1>3, <1>4, <1>5, <1>6

\* The turns of the loop that wait for the string, and that refuse its delimiter.
LEMMA BodyFraming ==
  ASSUME StreamInv, NEW p \in Nat \ {0}, Reached(p), InBody(p),
         StringComplete \/ StringStarved \/ DelimRejected
  PROVE  FramingInv'
<1>1. buf' = buf /\ fed' = fed /\ out' = out /\ len' = len /\ Consumed' = Consumed
  BY DEF StringComplete, StringStarved, DelimRejected, Consumed
<1>2. StringFits' <=> StringFits
  BY <1>1 DEF StringFits
<1>3. CASE StringComplete
  <2>1. StringFits /\ state' = "delim" /\ pc' = "parsing"
    BY <1>3 DEF StringComplete
  <2>2. InBody(p)'
    BY <1>1, <1>2, <2>1 DEF InBody
  <2> QED BY <1>1, <2>2, SameReached DEF FramingInv
<1>4. CASE StringStarved
  <2>1. ~StringFits /\ state' = "string" /\ pc' = "idle"
    BY <1>4 DEF StringStarved
  <2>2. len < SizeMod - 1 /\ Len(buf) <= len
    <3>1. Len(buf) < (len + 1) % SizeMod
      BY <2>1, StreamFacts DEF StringFits
    <3>2. len + 1 # SizeMod
      BY <3>1, StreamFacts
    <3>3. len + 1 < SizeMod
      BY <3>2, StreamFacts
    <3>4. (len + 1) % SizeMod = len + 1
      BY <3>3, StreamFacts, SmallMod
    <3> QED BY <3>1, <3>3, <3>4, StreamFacts
  <2>3. InBody(p)'
    BY <1>1, <1>2, <2>1, <2>2 DEF InBody
  <2> QED BY <1>1, <2>3, SameReached DEF FramingInv
<1>5. CASE DelimRejected
  <2>1. ~PeekComma /\ state = "delim" /\ state' = "delim" /\ pc' = "failed" /\ StringFits
    BY <1>5 DEF DelimRejected, InBody
  <2>2. ASSUME len # SizeMod - 1
        PROVE  len < Len(buf) /\ buf[len + 1] # Comma
    <3>1. len + 1 < SizeMod
      <4>1. len \in Nat /\ SizeMod \in Nat /\ len < SizeMod
        BY StreamFacts
      <4> QED BY <2>2, <4>1
    <3>2. (len + 1) % SizeMod = len + 1
      BY <3>1, StreamFacts, SmallMod
    <3>3. len < Len(buf)
      BY <2>1, <3>2, StreamFacts DEF StringFits
    <3> QED BY <2>1, <3>3 DEF PeekComma
  <2>3. InBody(p)'
    BY <1>1, <1>2, <2>1, <2>2 DEF InBody
  <2> QED BY <1>1, <2>3, SameReached DEF FramingInv
<1> QED BY <1>3, <1>4, <1>5

-----------------------------------------------------------------------------
\* The step that delivers a message, and the theorem.

\* Names for operations on sequences, so that the provers take them as they are.
One(x) == <<x>>
String == Seq(Byte)

Cat(a, b) == a \o b
Plus(o, x) == Append(o, x)

LEMMA CatPlus ==
  ASSUME NEW T, NEW o \in Seq(T), NEW x \in T, NEW r \in Seq(T)
  PROVE  Cat(o, Cat(One(x), r)) = Cat(Plus(o, x), r)
  BY DEF Cat, Plus, One

LEMMA PrependCat ==
  ASSUME NEW o, NEW d
  PROVE  Prepend(o, d) = [payloads |-> Cat(o, d.payloads), rest |-> d.rest]
  BY DEF Prepend, Cat

LEMMA PrependMore ==
  ASSUME NEW T, NEW o \in Seq(T), NEW x \in T, NEW d, NEW e, d.payloads \in Seq(T),
         e.payloads = Cat(One(x), d.payloads), e.rest = d.rest
  PROVE  Prepend(o, e) = Prepend(Plus(o, x), d)
<1>1. PICK r \in Seq(T) : r = d.payloads
  OBVIOUS
<1>2. Cat(o, Cat(One(x), r)) = Cat(Plus(o, x), r)
  BY CatPlus
<1>3. Cat(o, e.payloads) = Cat(Plus(o, x), d.payloads)
  BY ONLY <1>1, <1>2, e.payloads = Cat(One(x), d.payloads)
<1>4. /\ Prepend(o, e) = [payloads |-> Cat(o, e.payloads), rest |-> e.rest]
      /\ Prepend(Plus(o, x), d) = [payloads |-> Cat(Plus(o, x), d.payloads), rest |-> d.rest]
  BY PrependCat
<1> QED BY ONLY <1>3, <1>4, e.rest = d.rest

LEMMA ConcatAssociates ==
  ASSUME NEW S, NEW a \in Seq(S), NEW b \in Seq(S), NEW c \in Seq(S)
  PROVE  (a \o b) \o c = a \o (b \o c) /\ b \o c \in Seq(S)
  OBVIOUS

LEMMA StepFrame ==
  ASSUME NEW s, NEW lax, NEW i, NEW f, NEW y, y = One(Payload(s, i)), Frame(s, i, lax)
  PROVE  /\ Step(f, s, lax, i).payloads = y \o f[FrameEnd(s, i) + 1].payloads
         /\ Step(f, s, lax, i).rest = f[FrameEnd(s, i) + 1].rest
<1>1. Step(f, s, lax, i) = [payloads |-> y \o f[FrameEnd(s, i) + 1].payloads,
                           rest |-> f[FrameEnd(s, i) + 1].rest]
  BY DEF Step, One
<1> QED BY ONLY <1>1

\* A part of a string, with its length and its bytes.
LEMMA PartOf ==
  ASSUME NEW s \in Seq(Byte), NEW c \in Nat, NEW n \in Nat, c + n <= Len(s)
  PROVE  /\ SubSeq(s, c + 1, c + n) \in Seq(Byte)
         /\ Len(SubSeq(s, c + 1, c + n)) = n
         /\ \A k \in 1..n : SubSeq(s, c + 1, c + n)[k] = s[c + k]
<1>1. \A k \in c + 1..c + n : s[k] \in Byte
  OBVIOUS
<1>2. SubSeq(s, c + 1, c + n) \in Seq(Byte)
  BY <1>1
<1>3. Len(SubSeq(s, c + 1, c + n)) = n
  OBVIOUS
<1>4. \A k \in 1..n : SubSeq(s, c + 1, c + n)[k] = s[c + k]
  OBVIOUS
<1> QED BY <1>2, <1>3, <1>4

\* What Deliver takes out of the buffer is the payload of the frame at p, in every stream
\* that goes on from here.
LEMMA DeliversFrame ==
  ASSUME StreamInv, BufferFits, NEW p \in Nat \ {0}, InBody(p), Deliver,
         NEW t \in Seq(Byte), NEW u \in Seq(Byte), u = fed \o t
  PROVE  /\ Frame(u, p, TRUE) /\ FrameEnd(u, p) = Consumed + len + 1
         /\ Payload(u, p) = SubSeq(buf, 1, len)
<1> PICK c : c = Consumed
  OBVIOUS
<1>1. /\ state = "delim" /\ len < Len(buf) /\ buf[len + 1] = Comma
  BY DEF Deliver, PeekComma
<1>2. /\ fed \in Seq(Byte) /\ buf \in Seq(Byte) /\ Len(buf) \in Nat /\ Len(fed) \in Nat
      /\ c \in Nat /\ Len(fed) = c + Len(buf) /\ len \in Nat /\ SizeMod \in Nat
      /\ len < SizeMod - 1
  BY <1>1, StreamFacts DEF BufferFits
<1>3. /\ Len(u) >= Len(fed) /\ Len(u) \in Nat /\ \A k \in 1..Len(fed) : u[k] = fed[k]
  BY <1>2, Longer
<1>4. /\ c \in p..Len(u) + 1 /\ c <= Len(u) /\ p \in 1..Len(u) + 1 /\ c \in 1..Len(fed)
      /\ c - 1 \in Int /\ p - 1 <= c - 1 /\ c - 1 <= Len(fed)
      /\ Digits(fed, p, c - 1) /\ fed[c] = Colon /\ Colon \notin Digit
      /\ len = Decimal(fed, p, c - 1) /\ (p > 1 \/ c > p)
  BY <1>2, <1>3, ReaderAssumption DEF InBody, StreamInv
<1>5. Digits(u, p, c - 1) /\ Decimal(u, p, c - 1) = len
  BY <1>2, <1>4, DigitsStay
<1>6. u[c] = Colon
  BY <1>3, <1>4
<1>7. HeaderEnd(u, p) = c
  BY <1>4, <1>5, <1>6, HeaderEndIs
<1>8. Size(u, p) = len /\ FrameEnd(u, p) = c + len + 1
  BY <1>5, <1>7 DEF Size, FrameEnd
<1>9. FrameEnd(u, p) <= Len(u) /\ u[FrameEnd(u, p)] = Comma
  <2>1. len + 1 \in 1..Len(buf) /\ c + len + 1 = c + (len + 1) /\ c + (len + 1) \in 1..Len(fed)
    BY <1>1, <1>2
  <2>2. fed[c + (len + 1)] = Comma
    BY <1>1, <2>1, StreamFacts
  <2> QED BY <1>3, <1>8, <2>1, <2>2
<1>10. Frame(u, p, TRUE)
  <2>1. HeaderEnd(u, p) > p \/ MayBeEmpty(p, TRUE)
    BY <1>4, <1>7, MayBeEmptyIs
  <2>2. HeaderEnd(u, p) <= Len(u) /\ u[HeaderEnd(u, p)] = Colon
    BY <1>4, <1>6, <1>7
  <2> QED BY <1>2, <1>4, <1>8, <1>9, <2>1, <2>2, HeaderDone
<1>11. Payload(u, p) = SubSeq(buf, 1, len)
  <2> DEFINE a == SubSeq(u, c + 1, c + len)
             b == SubSeq(buf, 1, len)
  <2>1. Payload(u, p) = a
    <3>1. HeaderEnd(u, p) + 1 = c + 1 /\ FrameEnd(u, p) - 1 = c + len
      BY <1>2, <1>7, <1>8
    <3> QED BY <3>1 DEF Payload
  <2>2. a \in Seq(Byte) /\ Len(a) = len /\ \A k \in 1..len : a[k] = u[c + k]
    <3>1. c + len <= Len(u)
      BY <1>1, <1>2, <1>3
    <3> QED BY <1>2, <3>1, PartOf
  <2>3. b \in Seq(Byte) /\ Len(b) = len /\ \A k \in 1..len : b[k] = buf[k]
    BY <1>1, <1>2
  <2>4. ASSUME NEW k \in 1..len
        PROVE  a[k] = b[k]
    <3>1. k \in 1..Len(buf) /\ c + k \in 1..Len(fed)
      BY <1>1, <1>2
    <3>2. buf[k] = fed[c + k] /\ fed[c + k] = u[c + k]
      BY <1>3, <3>1, StreamFacts
    <3> HIDE DEF a, b
    <3> QED BY <2>2, <2>3, <3>2
  <2>5. a = b
    <3> HIDE DEF a, b
    <3> QED BY <2>2, <2>3, <2>4, SameElements
  <2> QED BY <2>1, <2>5
<1> QED BY <1>8, <1>10, <1>11

\* The delivered string is the payload of the frame at p, and the reader goes on
\* behind it.
LEMMA DeliverFraming ==
  ASSUME StreamInv, BufferFits, NEW p \in Nat \ {0}, Reached(p), InBody(p), Deliver
  PROVE  FramingInv'
<1>0. PICK x : x = SubSeq(buf, 1, len)
  OBVIOUS
<1> PICK q : q = Consumed + len + 2
  OBVIOUS
<1>1. /\ out' = Append(out, x) /\ fed' = fed /\ len' = 0 /\ state' = "length"
      /\ pc' \in {"parsing", "thrown"} /\ x \in Seq(Byte)
      /\ len < Len(buf) /\ Len(buf') = Len(buf) - len - 1
  BY <1>0, DeliverType DEF Deliver, StreamInv
<1>a. /\ fed \in Seq(Byte) /\ out \in Seq(Seq(Byte)) /\ Consumed \in Nat /\ len \in Nat
      /\ Len(buf) \in Nat /\ Len(fed) = Consumed + Len(buf)
  BY StreamFacts
<1>2. /\ Consumed' = q - 1 /\ q \in Nat \ {0} /\ q > 1 /\ q - 1 <= Len(fed) /\ q \in 1..Len(fed) + 1
  <2>1. Consumed' = Len(fed) - Len(buf')
    BY <1>1 DEF Consumed
  <2>2. Consumed' = Consumed + len + 1
    BY <1>1, <1>a, <2>1
  <2> QED BY <1>1, <1>a, <2>2
<1>3. Digits(fed, q, q - 1) /\ Decimal(fed, q, q - 1) = 0
  <2>1. q - 1 \in Int
    BY <1>2
  <2> QED BY <1>2, <2>1, EmptyDecimal
<1>4. InHeader(q)'
  BY <1>1, <1>2, <1>3 DEF InHeader
<1>5. ASSUME NEW t \in Seq(Byte)
      PROVE  Decode(fed \o t, TRUE) = Prepend(out', DecodeFrom(fed \o t, TRUE)[q])
  <2>1. PICK u \in Seq(Byte) : u = fed \o t
    BY StreamFacts, Longer
  <2>2. Frame(u, p, TRUE) /\ FrameEnd(u, p) + 1 = q /\ Payload(u, p) = x
    <3>1. /\ Frame(u, p, TRUE) /\ FrameEnd(u, p) = Consumed + len + 1
          /\ Payload(u, p) = x
      BY <1>0, <2>1, DeliversFrame
    <3>2. (Consumed + len + 1) + 1 = q
      BY <1>2, <1>a
    <3> QED BY <3>1, <3>2
  <2>3. p \in 1..Len(u) + 1 /\ q \in 1..Len(u) + 1
    <3>1. Len(u) >= Len(fed) /\ Len(u) \in Nat
      BY <1>a, <2>1, Longer
    <3>2. p \in 1..Consumed
      BY DEF InBody
    <3> QED BY <1>2, <1>a, <3>1, <3>2
  <2>d. PICK d : d = DecodeFrom(u, TRUE)[q]
    OBVIOUS
  <2>e. PICK e : e = DecodeFrom(u, TRUE)[p]
    OBVIOUS
  <2>4. d.payloads \in Seq(Seq(Byte))
    BY <2>3, <2>d, DecodeStep DEF Decoding
  <2>y. PICK y : y = One(x)
    OBVIOUS
  <2>5. e.payloads = y \o d.payloads /\ e.rest = d.rest
    <3>1. e = Step(DecodeFrom(u, TRUE), u, TRUE, p)
      BY <2>3, <2>e, DecodeStep
    <3>2. PICK f : f = DecodeFrom(u, TRUE)
      OBVIOUS
    <3>3. y = One(Payload(u, p)) /\ Frame(u, p, TRUE)
      BY <2>2, <2>y
    <3>4. /\ Step(f, u, TRUE, p).payloads = y \o f[FrameEnd(u, p) + 1].payloads
          /\ Step(f, u, TRUE, p).rest = f[FrameEnd(u, p) + 1].rest
      BY <3>3, StepFrame
    <3> QED BY <2>2, <2>d, <3>1, <3>2, <3>4
  <2>6. Decode(u, TRUE) = Prepend(out, e)
    BY <2>1, <2>e DEF Reached
  <2>7. Prepend(out, e) = Prepend(out', d)
    <3>1. Prepend(out, e) = Prepend(Append(out, x), d)
      <4>1. out \in Seq(String) /\ x \in String /\ d.payloads \in Seq(String)
        BY <1>a, <1>1, <2>4 DEF String
      <4>2. e.payloads = Cat(One(x), d.payloads) /\ e.rest = d.rest
        BY <2>5, <2>y DEF Cat
      <4>3. PICK o : o = out
        OBVIOUS
      <4>4. PICK T : T = String
        OBVIOUS
      <4>5. o \in Seq(T) /\ x \in T /\ d.payloads \in Seq(T)
        BY ONLY <4>1, <4>3, <4>4
      <4>6. Prepend(o, e) = Prepend(Plus(o, x), d)
        BY ONLY <4>2, <4>5, PrependMore
      <4>7. Plus(o, x) = Append(out, x)
        BY <4>3 DEF Plus
      <4> QED BY ONLY <4>3, <4>6, <4>7
    <3> QED BY <1>1, <3>1
  <2> QED BY <2>1, <2>6, <2>7, <2>d
<1>6. Reached(q)'
  BY <1>1, <1>5 DEF Reached
<1> QED BY <1>2, <1>4, <1>6 DEF FramingInv

\* More bytes change nothing of what is known of all continuations.
LEMMA FillFraming ==
  ASSUME StreamInv, FramingInv, NEW chunk \in Chunks, Fill(chunk)
  PROVE  FramingInv'
<1>1. /\ chunk \in Seq(Byte) /\ fed' = fed \o chunk /\ buf' = buf \o chunk
      /\ pc = "idle" /\ pc' = "parsing" /\ state' = state /\ len' = len /\ out' = out
  BY ChunkType DEF Fill
<1>2. Consumed' = Consumed
  BY <1>1, StreamFacts DEF Consumed
<1>3. ASSUME NEW t \in Seq(Byte)
      PROVE  fed' \o t = fed \o (chunk \o t) /\ chunk \o t \in Seq(Byte)
  <2> PICK a \in Seq(Byte) : a = fed
    BY StreamFacts
  <2>1. (a \o chunk) \o t = a \o (chunk \o t) /\ chunk \o t \in Seq(Byte)
    BY <1>1, ConcatAssociates
  <2> QED BY <1>1, <2>1
<1>4. CASE Lost
  <2>1. ASSUME NEW t \in Seq(Byte)
        PROVE  ~Judged(fed' \o t, TRUE)
    BY <1>3, <1>4 DEF Lost
  <2> QED BY <2>1 DEF Lost, FramingInv
<1>5. ASSUME NEW p \in Nat \ {0}, Reached(p)
      PROVE  Reached(p)'
  <2>1. ASSUME NEW t \in Seq(Byte)
        PROVE  Decode(fed' \o t, TRUE) = Prepend(out', DecodeFrom(fed' \o t, TRUE)[p])
    <3>1. PICK r \in Seq(Byte) : r = chunk \o t /\ fed' \o t = fed \o r
      BY <1>3
    <3>2. Decode(fed \o r, TRUE) = Prepend(out, DecodeFrom(fed \o r, TRUE)[p])
      BY <1>5 DEF Reached
    <3> QED BY <1>1, <3>1, <3>2
  <2> QED BY <2>1 DEF Reached
<1>6. ASSUME NEW p \in Nat \ {0}, NEW j \in Int, p - 1 <= j, j <= Len(fed), Digits(fed, p, j)
      PROVE  Digits(fed', p, j) /\ Decimal(fed', p, j) = Decimal(fed, p, j)
  BY <1>1, <1>6, StreamFacts, DigitsStay
<1>7. ASSUME NEW p \in Nat \ {0}, InHeader(p)
      PROVE  InHeader(p)'
  <2>1. p - 1 <= Consumed /\ Consumed <= Len(fed) /\ Consumed \in Int
    BY <1>7, StreamFacts DEF InHeader
  <2> QED BY <1>1, <1>2, <1>6, <1>7, <2>1 DEF InHeader
<1>8. ASSUME NEW p \in Nat \ {0}, InBody(p)
      PROVE  InBody(p)'
  <2> PICK j : j = Consumed - 1
    OBVIOUS
  <2>1. p - 1 <= j /\ j <= Len(fed) /\ j \in Int
    BY <1>8, StreamFacts DEF InBody
  <2>2. Digits(fed', p, j) /\ Decimal(fed', p, j) = len
    BY <1>6, <1>8, <2>1 DEF InBody
  <2>3. state = "string"
    BY <1>1, <1>8 DEF InBody
  <2> QED BY <1>1, <1>2, <1>8, <2>2, <2>3 DEF InBody
<1>9. ASSUME NEW p \in Nat \ {0}
      PROVE  ~Refused(p)
  BY <1>1 DEF Refused
<1> QED BY <1>4, <1>5, <1>7, <1>8, <1>9 DEF FramingInv

LEMMA NextFraming ==
  ASSUME StreamInv, FramingInv, BufferFits, [Next]_vars
  PROVE  FramingInv'
<1>1. CASE UNCHANGED vars
  BY <1>1 DEF vars, FramingInv, Reached, Lost, InHeader, InBody, Refused, Consumed, StringFits
<1>2. CASE \E chunk \in Chunks : Fill(chunk)
  BY <1>2, FillFraming
<1>3. CASE Parse /\ Lost
  <2>1. fed' = fed
    BY <1>3 DEF Parse, LengthDigit, LengthDone, LengthStarved, LengthRejected,
                StringComplete, StringStarved, Deliver, DelimRejected
  <2> QED BY <1>3, <2>1, SameLost DEF FramingInv
<1>4. CASE Parse /\ ~Lost
  <2>1. PICK p \in Nat \ {0} : Reached(p) /\ (InHeader(p) \/ InBody(p) \/ Refused(p))
    BY <1>4 DEF FramingInv
  <2>2. CASE LengthDigit \/ LengthDone \/ LengthStarved \/ LengthRejected
    <3>1. InHeader(p)
      BY <2>1, <2>2 DEF LengthDigit, LengthDone, LengthStarved, LengthRejected,
                        ParsingLength, InBody, Refused
    <3> QED BY <2>1, <2>2, <3>1, DigitFraming, OtherHeaderFraming
  <2>3. CASE StringComplete \/ StringStarved \/ Deliver \/ DelimRejected
    <3>1. InBody(p)
      BY <2>1, <2>3 DEF StringComplete, StringStarved, Deliver, DelimRejected, InHeader, Refused
    <3> QED BY <2>1, <2>3, <3>1, BodyFraming, DeliverFraming
  <2> QED BY <1>4, <2>2, <2>3 DEF Parse
<1> QED BY <1>1, <1>2, <1>3, <1>4 DEF Next

LEMMA SafetyFraming == Init /\ [][Next]_vars /\ []BufferFits => []FramingFollowed
<1>1. StreamInv /\ FramingInv => FramingFollowed
  BY FramingHolds
<1>2. StreamInv /\ FramingInv /\ BufferFits /\ [Next]_vars => FramingInv'
  BY NextFraming
<1> QED BY <1>1, <1>2, InitStream, NextStream, InitFraming, PTL

\* However a stream that the definition judges is cut into chunks: the strings that
\* parse() has returned when it waits are the payloads of all the frames of the
\* stream so far, in order; it throws exactly on what is broken; and while it runs
\* it has returned the first of them.  BufferFits is what
\* size() of a vector gives: without it a length of SIZE_MAX would let a string
\* through that is longer than any buffer can be.  (parse(), lines 19-90)
THEOREM FramingIsFollowed == Spec /\ []BufferFits => []FramingFollowed
  BY SafetyFraming, PTL DEF Spec
===============================================================================
