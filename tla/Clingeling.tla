------------------------------- MODULE Clingeling ------------------------------
(***************************************************************************)
(* The program (src/src/clingeling.cc): its loop around the controller,    *)
(* and the EventPipe, a pipe that the thread writes to itself to end the   *)
(* loop.  The other descriptors stand for the socket and what may come:    *)
(* their callbacks may use the controller, trigger the pipe, or throw.     *)
(***************************************************************************)
EXTENDS EPollCtrl

CONSTANTS
    Pipe,       \* the end of the pipe that is read
    PipeSize    \* how many wakeups fit into the pipe

VARIABLES
    loop,       \* where clingeling() is
    wakeups     \* the wakeups in the pipe

vars == <<epollVars, loop, wakeups>>

ASSUME ClingelingAssumption ==
    /\ Pipe \in Fd
    /\ PipeSize \in Nat \ {0}
    /\ "In" \in Arrivals

TypeOK ==
    /\ EPollTypeOK
    /\ loop \in {"starting", "running", "stopping", "returned", "thrown", "blocked"}
    /\ wakeups \in 0..PipeSize
    /\ "In" \in ready[Pipe] <=> wakeups > 0

Init == EPollInit /\ loop = "starting" /\ wakeups = 0

PipeRuns == Pipe \in DOMAIN cb /\ running.ptr = cb[Pipe]

InLoop == loop \in {"running", "stopping"}

\* The code of a callback other than the pipe's runs.
UserRuns == InLoop /\ running # Idle /\ ~PipeRuns

Other == Fd \ {Pipe}

\* The socket adds itself; the bound leaves one callback for the pipe.
Setup ==
    /\ loop = "starting"
    /\ created + 1 < MaxCallbacks
    /\ \E f \in Other, ev \in Interests : Add(f, ev)
    /\ UNCHANGED <<loop, wakeups>>

UseCtrl ==
    /\ UserRuns
    /\ \E f \in Other :
          \/ \E ev \in Interests : Add(f, ev) \/ AddFailsLate(f, ev) \/ Mod(f, ev)
          \/ Del(f)
          \/ \E e \in Arrivals : Consume(f, e)
    /\ UNCHANGED <<loop, wakeups>>

\* trigger()
Trigger ==
    /\ UserRuns
    /\ ~undefined
    /\ wakeups < PipeSize
    /\ wakeups' = wakeups + 1
    /\ ready' = [ready EXCEPT ![Pipe] = @ \cup {"In"}]
    /\ rdlist' = IF Pending(interest, Pipe, {"In"}) = {} THEN rdlist ELSE Listed(rdlist, Pipe)
    /\ UNCHANGED <<ctrl, interest, batch, history, undefined, loop>>

\* The pipe is full, and its reader is the thread that writes.
TriggerBlocks ==
    /\ UserRuns
    /\ ~undefined
    /\ wakeups = PipeSize
    /\ loop' = "blocked"
    /\ UNCHANGED <<epollVars, wakeups>>

\* The pipe is added last, and the loop entered.
Start ==
    /\ loop = "starting"
    /\ Add(Pipe, {"In"})
    /\ loop' = "running"
    /\ UNCHANGED wakeups

\* Mutant of HandleWakeup: on_event is not emitted.
HandleWakeupSilently ==
    /\ InLoop
    /\ PipeRuns
    /\ ~undefined
    /\ wakeups' = wakeups - 1
    /\ ready' = [ready EXCEPT ![Pipe] = IF wakeups' = 0 THEN {} ELSE @]
    /\ running' = Idle
    /\ UNCHANGED <<ctrl, interest, rdlist, events, history, undefined, loop>>

\* handle_fd_event() reads one wakeup, on_event sets run to false.  The pipe's
\* event is In alone: the program holds both ends, so there is no Hup.
HandleWakeup ==
    /\ InLoop
    /\ PipeRuns
    /\ ~undefined
    /\ wakeups' = wakeups - 1
    /\ ready' = [ready EXCEPT ![Pipe] = IF wakeups' = 0 THEN {} ELSE @]
    /\ loop' = "stopping"
    /\ running' = Idle
    /\ UNCHANGED <<ctrl, interest, rdlist, events, history, undefined>>

UserUsesFreed ==
    /\ UserRuns
    /\ RunsFreed
    /\ UNCHANGED <<loop, wakeups>>

UserReturns ==
    /\ UserRuns
    /\ Return
    /\ UNCHANGED <<loop, wakeups>>

\* The exception leaves the loop and ends the program.
UserThrows ==
    /\ UserRuns
    /\ CallbackThrows
    /\ loop' = "thrown"
    /\ UNCHANGED wakeups

LoopWait ==
    /\ loop = "running"
    /\ Wait
    /\ UNCHANGED <<loop, wakeups>>

LoopDispatch ==
    /\ InLoop
    /\ Dispatch \/ DispatchFreed
    /\ UNCHANGED <<loop, wakeups>>

\* The loop looks at run when the batch has been dispatched.
LoopEnds ==
    /\ loop = "stopping"
    /\ running = Idle
    /\ events = << >>
    /\ ~undefined
    /\ loop' = "returned"
    /\ UNCHANGED <<epollVars, wakeups>>

Environment ==
    /\ \E f \in Other, e \in Arrivals : Arrive(f, e)
    /\ InLoop \/ loop = "starting"
    /\ UNCHANGED <<loop, wakeups>>

Next ==
    \/ Setup \/ UseCtrl \/ Trigger \/ TriggerBlocks \/ Start \/ HandleWakeup
    \/ UserUsesFreed \/ UserReturns \/ UserThrows \/ LoopWait \/ LoopDispatch \/ LoopEnds
    \/ Environment

\* Callbacks return; what their users ask of the controller is up to them.
Fairness ==
    /\ WF_vars(Start)
    /\ WF_vars(HandleWakeup)
    /\ WF_vars(LoopWait)
    /\ WF_vars(LoopDispatch)
    /\ WF_vars(LoopEnds)
    /\ WF_vars(UserReturns)

Spec == Init /\ [][Next]_vars /\ Fairness

-------------------------------------------------------------------------------
(* Properties *)

\* The controller keeps the promise of its interface: it calls a callback only
\* while it is registered, and breaks only in the batch in which a descriptor
\* was deleted (or after an add() that ran out of memory).
Promise == INSTANCE Poller WITH
    who <- cb,
    calling <- running.ptr,
    removed <- deleted # {},
    faulty <- lost # {},
    broken <- undefined
ImplementsPoller == Promise!Spec

Over == loop \notin {"running", "starting"} \/ undefined

\* A descriptor that stays ready is called again and again: neither a batch
\* that is too small nor another descriptor that is always ready starves it.
ReadyIsServed ==
    \A f \in Other :
        <>[](f \in DOMAIN cb /\ Pending(interest, f, ready[f]) # {})
            => []<>(Over \/ (f \in DOMAIN cb /\ running.ptr = cb[f]))

\* A wakeup ends the loop, however busy the other descriptors are and whatever is
\* left of the batch, with two exceptions: a callback that writes one wakeup more
\* than the pipe holds waits for its own thread, for ever; and nothing is said of
\* what follows the call of a callback that is gone.
WakeupEndsLoop ==
    wakeups > 0 ~>
        \/ loop \in {"returned", "thrown"}
        \/ loop = "blocked" /\ wakeups = PipeSize
        \/ undefined
===============================================================================
