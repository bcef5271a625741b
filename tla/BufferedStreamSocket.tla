-------------------------- MODULE BufferedStreamSocket --------------------------
(***************************************************************************)
(* BufferedStreamSocket (src/src/buffered-stream-socket.cc) composed with  *)
(* what it stands between: the kernel's TCP connection and epoll set below *)
(* it, and above it the on_fill handler of Baresip::Ctrl, which runs the   *)
(* netstring reader on the receive buffer.                                 *)
(*                                                                         *)
(* The program is one thread.  `loc' is where it is: in the constructor,   *)
(* in epoll_wait(), in the handler of the socket, or gone after an         *)
(* exception, which nothing on its way out of wait() catches.  The kernel  *)
(* and the peer take steps at any time.                                    *)
(*                                                                         *)
(* The receive buffer is the pair of its unread bytes and their offset in  *)
(* an allocation that never grows, because nobody calls reserve() on it.   *)
(* The send buffer stays empty: no code of the program fills it.           *)
(***************************************************************************)
EXTENDS Integers, Sequences

CONSTANTS
    Digit, Colon, Comma, Other, HighByte, SizeMod, MaxStream, MaxChunk,
    Capacity,   \* the size of the receive buffer
    Streams     \* what the peer may send over one connection

VARIABLES
    buf, state, len, pc, out, fed,  \* the reader, see NetstringReader
    rstart,     \* the offset of buf in the receive buffer
    sock,       \* StreamSocket::State
    ev,         \* ev_, the events the program believes it waits for
    registered, \* the events the epoll set waits for
    loc,
    error,      \* what the exception said
    conn,       \* the kernel's view of the connection
    rx,         \* the socket's receive queue
    unsent      \* what the peer has still to send

reader == <<buf, state, len, pc, out, fed>>
kernel == <<conn, rx, unsent>>
vars == <<reader, rstart, sock, ev, registered, loc, error, kernel>>

Reader == INSTANCE NetstringReader

ASSUME SocketAssumption ==
    /\ Reader!ReaderConstants
    /\ Capacity \in Nat \ {0}
    /\ Streams \subseteq Seq(Reader!Byte)
    /\ \A stream \in Streams : Len(stream) <= MaxStream
    /\ Capacity <= MaxChunk
    /\ Capacity < SizeMod       \* it is a size_t

TypeOK ==
    /\ Reader!TypeOK
    /\ rstart \in 0..Capacity
    /\ rstart + Len(buf) <= Capacity
    /\ sock \in {"init", "in_progress", "connected", "error"}
    /\ ev \subseteq {"In", "Out"}
    /\ registered \subseteq {"In", "Out"}
    /\ loc \in {"constructor", "wait", "handler", "exited"}
    /\ error \in {"none", "connect", "hangup", "closed", "protocol"}
    /\ conn \in {"none", "connecting", "established", "refused", "reset", "closed"}
    /\ rx \in Seq(Reader!Byte)
    /\ unsent \in Seq(Reader!Byte)

WSize == Capacity - (rstart + Len(buf))

\* Mutant of PollEvents: a full buffer does not matter.
PollAlways(socket, room) == IF socket = "in_progress" THEN {"Out"} ELSE {"In"}

\* poll_events(), for an empty send buffer
PollEvents(socket, room) ==
    IF socket = "in_progress" THEN {"Out"} ELSE IF room > 0 THEN {"In"} ELSE {}

\* update_poll_events(), called when the step has done the rest
UpdatePollEvents ==
    /\ ev' = PollEvents(sock', WSize')
    /\ registered' = IF ev' = ev THEN registered ELSE ev'

\* ev_ is computed in the initialiser list, before connect().
Init ==
    /\ Reader!Init
    /\ rstart = 0
    /\ sock = "init"
    /\ ev = PollEvents("init", Capacity)
    /\ registered = {}
    /\ loc = "constructor"
    /\ error = "none"
    /\ conn = "none"
    /\ rx = << >>
    /\ unsent \in Streams

Throw(what) ==
    /\ loc' = "exited"
    /\ error' = what

-------------------------------------------------------------------------------
(* The constructor *)

\* connect() succeeds or is in progress, and the socket is added to the poller.
Connect ==
    /\ loc = "constructor"
    /\ \/ sock' = "connected" /\ conn' = "established"
       \/ sock' = "in_progress" /\ conn' = "connecting"
    /\ registered' = ev
    /\ loc' = "wait"
    /\ UNCHANGED <<reader, rstart, ev, error, rx, unsent>>

ConnectThrows ==
    /\ loc = "constructor"
    /\ sock' = "error"
    /\ Throw("connect")
    /\ UNCHANGED <<reader, rstart, ev, registered, kernel>>

-------------------------------------------------------------------------------
(* The handler *)

Failed == conn \in {"refused", "reset"}

\* What the kernel has to tell of the socket: a socket that is connecting is
\* silent, and one that has failed reports everything.
Ready ==
    (IF Failed \/ conn = "closed" \/ rx # << >> THEN {"In"} ELSE {}) \cup
    (IF conn \in {"none", "connecting"} THEN {} ELSE {"Out"}) \cup
    (IF Failed THEN {"Err", "Hup"} ELSE {})

\* epoll_wait() reports Err and Hup to everyone.
Reported == Ready \cap (registered \cup {"Err", "Hup"})

Woken == loc = "wait" /\ Reported # {}

\* Mutant of ConnectContinue: the state stays in_progress.
ConnectContinueForgets ==
    /\ Woken
    /\ sock = "in_progress"
    /\ ~Failed
    /\ UNCHANGED vars

\* connect_continue(), and the handler returns without a look at the events.
ConnectContinue ==
    /\ Woken
    /\ sock = "in_progress"
    /\ ~Failed
    /\ sock' = "connected"
    /\ UNCHANGED <<reader, rstart>>
    /\ UpdatePollEvents
    /\ UNCHANGED <<loc, error, kernel>>

ConnectFails ==
    /\ Woken
    /\ sock = "in_progress"
    /\ Failed
    /\ Throw("connect")
    /\ UNCHANGED <<reader, rstart, sock, ev, registered, kernel>>

\* Mutant of Hangup: the handlers of Err and Hup do not throw.
HangupIgnored ==
    /\ Woken
    /\ sock = "connected"
    /\ Reported \cap {"Err", "Hup"} # {}
    /\ UNCHANGED vars

\* dispatch() goes through its list in order, and Err and Hup come before In.
\* (A connection reset after In was reported makes read() throw: no difference.)
Hangup ==
    /\ Woken
    /\ sock = "connected"
    /\ Reported \cap {"Err", "Hup"} # {}
    /\ Throw("hangup")
    /\ UNCHANGED <<reader, rstart, sock, ev, registered, kernel>>

OnReadable ==
    /\ Woken
    /\ sock = "connected"
    /\ Reported = {"In"}

\* Mutant of ReadData: more is read than there is room for.
ReadTooMuch ==
    /\ OnReadable
    /\ \E size \in 1..Len(rx) :
          /\ buf' = buf \o SubSeq(rx, 1, size)
          /\ fed' = fed \o SubSeq(rx, 1, size)
          /\ rx' = SubSeq(rx, size + 1, Len(rx))
    /\ pc' = "parsing"
    /\ loc' = "handler"
    /\ UNCHANGED <<state, len, out, rstart, sock, ev, registered, error, conn, unsent>>

\* Mutant of ReadData: fill() does not call on_fill.
ReadUnheard ==
    /\ OnReadable
    /\ \E size \in 1..Len(rx) :
          /\ size <= WSize
          /\ buf' = buf \o SubSeq(rx, 1, size)
          /\ fed' = fed \o SubSeq(rx, 1, size)
          /\ rx' = SubSeq(rx, size + 1, Len(rx))
    /\ loc' = "handler"
    /\ UNCHANGED <<pc, state, len, out, rstart, sock, ev, registered, error, conn, unsent>>

\* read() returns some of what has arrived, fill() calls on_fill.
ReadData ==
    /\ OnReadable
    /\ \E size \in 1..Len(rx) :
          /\ size <= WSize
          /\ buf' = buf \o SubSeq(rx, 1, size)
          /\ fed' = fed \o SubSeq(rx, 1, size)
          /\ rx' = SubSeq(rx, size + 1, Len(rx))
    /\ pc' = "parsing"
    /\ loc' = "handler"
    /\ UNCHANGED <<state, len, out, rstart, sock, ev, registered, error, conn, unsent>>

\* read() returns 0 at the end of the stream, and when it is asked for 0 bytes.
ReadNothing ==
    /\ OnReadable
    /\ rx = << >> \/ WSize = 0
    /\ Throw("closed")
    /\ UNCHANGED <<reader, rstart, sock, ev, registered, kernel>>

\* Mutant of ParseInFill: a drain of everything does not move to the front.
ParseDrainsForward ==
    /\ loc = "handler"
    /\ Reader!Parse
    /\ rstart' = rstart + (Len(buf) - Len(buf'))
    /\ UNCHANGED <<sock, kernel>>
    /\ IF buf' = buf THEN UNCHANGED <<ev, registered>> ELSE UpdatePollEvents
    /\ IF pc' \in {"failed", "thrown"} THEN Throw("protocol") ELSE UNCHANGED <<loc, error>>

\* One turn of the parser inside fill(): every drain() of the buffer moves
\* rstart and calls on_drain, and an exception of the parser or of the consumer
\* of a string ends the program.
ParseInFill ==
    /\ loc = "handler"
    /\ Reader!Parse
    /\ rstart' = IF buf' = << >> THEN 0 ELSE rstart + (Len(buf) - Len(buf'))
    /\ UNCHANGED <<sock, kernel>>
    /\ IF buf' = buf THEN UNCHANGED <<ev, registered>> ELSE UpdatePollEvents
    /\ IF pc' \in {"failed", "thrown"} THEN Throw("protocol") ELSE UNCHANGED <<loc, error>>

\* Mutant of HandlerReturns: no update_poll_events() at the end.
HandlerReturnsAtOnce ==
    /\ loc = "handler"
    /\ pc = "idle"
    /\ loc' = "wait"
    /\ UNCHANGED <<reader, rstart, sock, ev, registered, error, kernel>>

\* on_readable() is done, the handler ends with update_poll_events().
HandlerReturns ==
    /\ loc = "handler"
    /\ pc = "idle"
    /\ UNCHANGED <<reader, rstart, sock>>
    /\ UpdatePollEvents
    /\ loc' = "wait"
    /\ UNCHANGED <<error, kernel>>

-------------------------------------------------------------------------------
(* The kernel and the peer *)

Establish == conn = "connecting" /\ conn' = "established" /\ UNCHANGED <<rx, unsent>>
Refuse    == conn = "connecting" /\ conn' = "refused" /\ UNCHANGED <<rx, unsent>>
Reset     == conn \in {"established", "closed"} /\ conn' = "reset" /\ UNCHANGED <<rx, unsent>>
PeerClose == conn = "established" /\ conn' = "closed" /\ UNCHANGED <<rx, unsent>>

Arrive ==
    /\ conn = "established"
    /\ \E size \in 1..Len(unsent) :
          /\ rx' = rx \o SubSeq(unsent, 1, size)
          /\ unsent' = SubSeq(unsent, size + 1, Len(unsent))
    /\ UNCHANGED conn

Environment ==
    /\ Establish \/ Refuse \/ Reset \/ PeerClose \/ Arrive
    /\ UNCHANGED <<reader, rstart, sock, ev, registered, loc, error>>

-------------------------------------------------------------------------------

Program ==
    \/ Connect \/ ConnectThrows
    \/ ConnectContinue \/ ConnectFails \/ Hangup
    \/ ReadData \/ ReadNothing
    \/ ParseInFill \/ HandlerReturns

Next == Program \/ Environment

\* The loop calls wait() for as long as the program lives; what the network
\* and the peer do is up to them.
Spec == Init /\ [][Next]_vars /\ WF_vars(Program)

-------------------------------------------------------------------------------
(* Properties *)

\* While the program waits on a connection the epoll set listens for data if
\* and only if the receive buffer has room for some, whatever the nested calls
\* of update_poll_events() from on_drain did.
InterestMatchesRoom ==
    loc = "wait" /\ sock = "connected" =>
        /\ registered = ev
        /\ registered = IF WSize > 0 THEN {"In"} ELSE {}

\* The connection is reported closed only if the peer closed it, and not before
\* everything it had sent went through the buffer.  A read() into a full buffer
\* would return 0 and be taken for the end of the stream (lines 49-53).  (The
\* peer may have reset the connection since then.)
ClosedByPeer == error = "closed" => conn \in {"closed", "reset"} /\ rx = << >>

\* The program is connected and does not listen for data.
Deaf == loc = "wait" /\ sock = "connected" /\ "In" \notin registered

\* A deaf program is in the middle of a frame: nothing but an unfinished string
\* keeps the end of the buffer occupied.  (Or what follows a high byte in a
\* header does, which parse_length() takes for the end of the buffer.)
DeafOnlyInsideFrame == Deaf => buf # << >> /\ Reader!InsideFrame

\* buffer.h wants reserve() called before writing to the buffer.  Had
\* on_readable() done so, there would be room whenever the handler returns, and
\* the program would always listen.
NeverDeaf == ~Deaf

\* Whatever has arrived is read, or the program has ended, or it is deaf; also
\* if the connection was still in progress, for which the socket is not
\* registered: the first data completes the connection.
ArrivedIsRead == rx # << >> ~> (rx = << >> \/ loc = "exited" \/ Deaf)

\* The end of a connection ends the program, unless it has gone deaf, in which
\* case it waits on a connection its peer has closed, until the peer resets it.
EndIsNoticed ==
    /\ Failed ~> loc = "exited"
    /\ conn = "closed" ~> (loc = "exited" \/ Deaf)

\* The socket uses the reader as NetstringReader lets its buffer use it: fill()
\* is called on a reader that waits for it, never from inside parse().  What
\* holds of the reader on its own therefore holds here.
ReaderStep ==
    LET chunk == SubSeq(fed', Len(fed) + 1, Len(fed'))
    IN  \/ Reader!Parse
        \/ Len(chunk) \in 1..MaxChunk /\ Reader!Fill(chunk)

ImplementsReader == Reader!Init /\ [][ReaderStep]_reader
===============================================================================
