-------------------------------- MODULE Signals --------------------------------
(***************************************************************************)
(* Signal<T> and Connection (src/src/include/signals.h): a list of         *)
(* callbacks, emissions that call them, and what the callbacks may do to   *)
(* the signal while they run: connect, disconnect, copy a connection, emit *)
(* the same signal again.  There is one thread; what interleaves are the   *)
(* emissions on its stack.                                                 *)
(*                                                                         *)
(* A shared_ptr<Callback> is held by the signal's list and, while the      *)
(* callback runs, by the frame of the emission that called it; connections *)
(* and the frames' snapshots hold weak_ptrs.  Callbacks are numbered in    *)
(* the order of their connect().                                           *)
(***************************************************************************)
EXTENDS Naturals, SequencesExt, Selection

CONSTANTS
    Connection,     \* the variables of type Connection
    MaxCallbacks,   \* bound on the calls of connect()
    MaxDepth        \* bound on the emissions inside emissions

ASSUME SignalsAssumption == MaxCallbacks \in Nat /\ MaxDepth \in Nat

VARIABLES
    slots,      \* Signal::cb_
    bound,      \* the callbacks whose owner and fn are set
    created,    \* how many callbacks there have been
    cb,         \* Connection::cb_, the callback a connection refers to, or Nobody
    stack,      \* the emissions in progress, the innermost one last
    thrown      \* std::bad_function_call has left the emissions

vars == <<slots, bound, created, cb, stack, thrown>>

Nobody == 0
Callback == 1..MaxCallbacks

\* One run of call_each(): the weak_ptrs still to visit and the callback that
\* is locked and running.  The other fields are history: what the list held when
\* the emission began, how many callbacks there had been, and who was called.
Frame == [todo: Seq(Callback), running: Callback \cup {Nobody},
          members: SUBSET Callback, known: 0..MaxCallbacks, called: Seq(Callback)]

TypeOK ==
    /\ slots \in Seq(Callback)
    /\ bound \subseteq Callback
    /\ created \in 0..MaxCallbacks
    /\ cb \in [Connection -> Callback \cup {Nobody}]
    /\ stack \in Seq(Frame)
    /\ Len(stack) <= MaxDepth
    /\ thrown \in BOOLEAN

Top == stack[Len(stack)]

\* Mutant of Alive: connections and frames swap their kinds of pointer.
AliveByConnection(c) == c \in ToSet(slots) \/ \E conn \in Connection : cb[conn] = c

\* weak_ptr::expired() is false as long as a shared_ptr is left.
Alive(c) == c \in ToSet(slots) \/ \E i \in DOMAIN stack : stack[i].running = c

\* Connection::connected()
Connected(conn) == cb[conn] # Nobody /\ Alive(cb[conn])

Init ==
    /\ slots = << >>
    /\ bound = {}
    /\ created = 0
    /\ cb = [conn \in Connection |-> Nobody]
    /\ stack = << >>
    /\ thrown = FALSE

-------------------------------------------------------------------------------
(* What the program does outside of emissions, and in a running callback *)

MayAct == /\ ~thrown
          /\ stack # << >> => Top.running # Nobody

\* Mutant of Connect: the callback has the number of the one before it.
ConnectOffByOne(conn) ==
    /\ MayAct
    /\ created < MaxCallbacks
    /\ created' = created + 1
    /\ slots' = Append(slots, created)
    /\ bound' = bound \cup {created}
    /\ cb' = [cb EXCEPT ![conn] = created]
    /\ UNCHANGED <<stack, thrown>>

\* connect(), and the assignment of its result to a connection: what the
\* connection referred to before stays connected.
Connect(conn) ==
    /\ MayAct
    /\ created < MaxCallbacks
    /\ created' = created + 1
    /\ slots' = Append(slots, created')
    /\ bound' = bound \cup {created'}
    /\ cb' = [cb EXCEPT ![conn] = created']
    /\ UNCHANGED <<stack, thrown>>

Copy(conn, other) ==
    /\ MayAct
    /\ cb' = [cb EXCEPT ![other] = cb[conn]]
    /\ UNCHANGED <<slots, bound, created, stack, thrown>>

\* A moved connection leaves an empty one behind.
Move(conn, other) ==
    /\ MayAct
    /\ conn # other
    /\ cb' = [cb EXCEPT ![other] = cb[conn], ![conn] = Nobody]
    /\ UNCHANGED <<slots, bound, created, stack, thrown>>

\* Mutant of Disconnect: del_callback() does not erase.
DisconnectKeepsSlot(conn) ==
    /\ MayAct
    /\ Connected(conn)
    /\ bound' = bound \ {cb[conn]}
    /\ cb' = [cb EXCEPT ![conn] = Nobody]
    /\ UNCHANGED <<slots, created, stack, thrown>>

\* Mutant of Disconnect: the callback keeps its owner and fn.
DisconnectKeepsBound(conn) ==
    /\ MayAct
    /\ Connected(conn)
    /\ slots' = Only(slots, Callback \ {cb[conn]})
    /\ cb' = [cb EXCEPT ![conn] = Nobody]
    /\ UNCHANGED <<bound, created, stack, thrown>>

\* Connection::disconnect() of a callback that is alive; Callback::disconnect()
\* does nothing the second time.
Disconnect(conn) ==
    /\ MayAct
    /\ Connected(conn)
    /\ slots' = Only(slots, Callback \ {cb[conn]})
    /\ bound' = bound \ {cb[conn]}
    /\ cb' = [cb EXCEPT ![conn] = Nobody]
    /\ UNCHANGED <<created, stack, thrown>>

-------------------------------------------------------------------------------
(* Emissions *)

\* operator() copies the list into weak_ptrs, if it is not empty.
Emit ==
    /\ MayAct
    /\ slots # << >>
    /\ Len(stack) < MaxDepth
    /\ stack' = Append(stack, [todo |-> slots, running |-> Nobody,
                               members |-> ToSet(slots), known |-> created,
                               called |-> << >>])
    /\ UNCHANGED <<slots, bound, created, cb, thrown>>

InCallEach == ~thrown /\ stack # << >> /\ Top.running = Nobody

\* Mutant of Visited: the loop runs over the list instead of its copy.
VisitedLive(running) ==
    [stack EXCEPT ![Len(stack)] =
        [Top EXCEPT !.todo = SelectSeq(slots, LAMBDA c : c > Head(Top.todo)),
                    !.running = running,
                    !.called = IF running = Nobody THEN @ ELSE Append(@, running)]]

\* the innermost frame after its visit of the next callback
Visited(running) ==
    [stack EXCEPT ![Len(stack)] =
        [Top EXCEPT !.todo = Tail(@),
                    !.running = running,
                    !.called = IF running = Nobody THEN @ ELSE Append(@, running)]]

\* Mutant of Skip: a callback that is gone ends the emission.
SkipBreaks ==
    /\ InCallEach
    /\ Top.todo # << >>
    /\ ~Alive(Head(Top.todo))
    /\ stack' = [stack EXCEPT ![Len(stack)].todo = << >>]
    /\ UNCHANGED <<slots, bound, created, cb, thrown>>

Skip ==
    /\ InCallEach
    /\ Top.todo # << >>
    /\ ~Alive(Head(Top.todo))
    /\ stack' = Visited(Nobody)
    /\ UNCHANGED <<slots, bound, created, cb, thrown>>

Invoke ==
    /\ InCallEach
    /\ Top.todo # << >>
    /\ Alive(Head(Top.todo))
    /\ Head(Top.todo) \in bound
    /\ stack' = Visited(Head(Top.todo))
    /\ UNCHANGED <<slots, bound, created, cb, thrown>>

\* A callback that is alive, because it runs in an outer emission, but has been
\* disconnected, has no fn: std::invoke throws, through all emissions.
InvokeEmpty ==
    /\ InCallEach
    /\ Top.todo # << >>
    /\ Alive(Head(Top.todo))
    /\ Head(Top.todo) \notin bound
    /\ thrown' = TRUE
    /\ stack' = << >>
    /\ UNCHANGED <<slots, bound, created, cb>>

\* The callback returns, and the frame releases it.
Return ==
    /\ ~thrown
    /\ stack # << >>
    /\ Top.running # Nobody
    /\ stack' = [stack EXCEPT ![Len(stack)].running = Nobody]
    /\ UNCHANGED <<slots, bound, created, cb, thrown>>

EmissionEnds ==
    /\ InCallEach
    /\ Top.todo = << >>
    /\ stack' = SubSeq(stack, 1, Len(stack) - 1)
    /\ UNCHANGED <<slots, bound, created, cb, thrown>>

Next ==
    \/ \E conn \in Connection : Connect(conn) \/ Disconnect(conn)
    \/ \E conn, other \in Connection : Copy(conn, other) \/ Move(conn, other)
    \/ Emit \/ Skip \/ Invoke \/ InvokeEmpty \/ Return \/ EmissionEnds

Spec == Init /\ [][Next]_vars

-------------------------------------------------------------------------------
(* Properties *)

\* The list holds what is bound, in the order of connect(), once each: no
\* sequence of connects and disconnects, from inside emissions or not, leaves a
\* callback in the list that cannot be disconnected, or one that is not called.
ListIsBound ==
    /\ ToSet(slots) = bound
    /\ \A i, j \in DOMAIN slots : i < j => slots[i] < slots[j]

\* An emission calls callbacks in the order of connect(), each at most once,
\* and none that was connected after it began (comment at lines 187-188).
CalledInOrder ==
    \A i \in DOMAIN stack :
        /\ \A m, n \in DOMAIN stack[i].called :
              m < n => stack[i].called[m] < stack[i].called[n]
        /\ \A m \in DOMAIN stack[i].called : stack[i].called[m] <= stack[i].known

\* An emission leaves out nobody: whoever was connected when it began and still
\* is when it is through has been called.
NobodyForgotten ==
    \A i \in DOMAIN stack :
        \A c \in stack[i].members \cap bound :
            c \in ToSet(stack[i].called) \cup ToSet(stack[i].todo)

\* Once no emission is left, a connection says that it is connected if and only
\* if its callback is in the list; all copies agree (comment at lines 55-56).
ConnectionsAgree ==
    stack = << >> /\ ~thrown =>
        \A conn \in Connection : Connected(conn) <=> cb[conn] \in bound

\* Only an emission inside another one can meet a callback without a function:
\* what a callback does in a single emission never makes it throw.
ThrowsOnlyNested == [][thrown' # thrown => Len(stack) > 1]_vars

\* The test test_connection_disconnect_next wants a callback that is
\* disconnected before its turn to be skipped, and the emission to go on.
DisconnectedIsSkipped == ~thrown
===============================================================================
