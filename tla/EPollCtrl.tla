-------------------------------- MODULE EPollCtrl -------------------------------
(***************************************************************************)
(* EPoll::Ctrl (src/src/epoll-ctrl.cc): the map of callbacks in the        *)
(* program, the epoll set in the kernel that holds raw pointers to them,   *)
(* and the dispatch of one batch of events, during which a callback may    *)
(* add, delete and modify any descriptor.  Callbacks are numbered in the   *)
(* order of their creation: a number is an address that is never used      *)
(* again.  Flags<Event> (src/src/include/flags.h) is a set of events.      *)
(***************************************************************************)
EXTENDS Naturals, SequencesExt, Selection

CONSTANTS
    Fd,             \* the open descriptors
    Interests,      \* the sets of events a user asks for
    Arrivals,       \* the events the kernel may have for a descriptor
    MaxEvents,      \* the size of the array of wait(), 10 in the code
    MaxCallbacks    \* bound on the calls of add()

VARIABLES
    cb,         \* CtrlImpl::cb_, from descriptors to callbacks
    created,    \* how many callbacks there have been
    interest,   \* the epoll set: the pointer and the events of a descriptor
    ready,      \* the events that hold for a descriptor
    rdlist,     \* the kernel's list of descriptors that may be ready
    events,     \* the events of the batch that wait() has still to dispatch
    running,    \* the call in progress, or Idle
    deleted,    \* history: the callbacks deleted since the batch was taken
    lost,       \* history: the descriptors whose add() failed after the kernel had them
    undefined   \* a callback was called, or has gone on, that had been freed

ctrl == <<cb, created>>
kernel == <<interest, ready, rdlist>>
batch == <<events, running>>
history == <<deleted, lost>>
epollVars == <<ctrl, kernel, batch, history, undefined>>

Event == {"In", "Out", "RdHup", "Pri", "Err", "Hup"}
Events == SUBSET Event
Callback == 1..MaxCallbacks
Call == [ptr : Callback, ev : Events]
Idle == [ptr |-> 0, ev |-> {}]

ASSUME EPollAssumption ==
    /\ Interests \subseteq Events
    /\ Arrivals \subseteq Event
    /\ MaxEvents \in Nat \ {0}
    /\ MaxCallbacks \in Nat

EPollTypeOK ==
    /\ DOMAIN cb \subseteq Fd
    /\ \A f \in DOMAIN cb : cb[f] \in 1..created
    /\ created \in 0..MaxCallbacks
    /\ DOMAIN interest \subseteq Fd
    /\ \A f \in DOMAIN interest : interest[f] \in Call
    /\ ready \in [Fd -> SUBSET Arrivals]
    /\ rdlist \in Seq(Fd)
    /\ events \in Seq(Call)
    /\ Len(events) < MaxEvents \/ (Len(events) = MaxEvents /\ running = Idle)
    /\ running \in Call \cup {Idle}
    /\ deleted \subseteq Callback
    /\ lost \subseteq Fd
    /\ undefined \in BOOLEAN

Alive(ptr) == \E f \in DOMAIN cb : cb[f] = ptr

\* epoll_events(), from the flags to the kernel's bits and back
Bit == [In |-> "EPOLLIN", Out |-> "EPOLLOUT", RdHup |-> "EPOLLRDHUP",
        Pri |-> "EPOLLPRI", Err |-> "EPOLLERR", Hup |-> "EPOLLHUP"]
ToBits(ev) == {Bit[e] : e \in ev}
FromBits(bits) == {e \in Event : Bit[e] \in bits}

Without(map, f) == [g \in DOMAIN map \ {f} |-> map[g]]
With(map, f, x) == [g \in DOMAIN map \cup {f} |-> IF g = f THEN x ELSE map[g]]

EPollInit ==
    /\ cb = [f \in {} |-> 0]
    /\ created = 0
    /\ interest = [f \in {} |-> Idle]
    /\ ready = [f \in Fd |-> {}]
    /\ rdlist = << >>
    /\ events = << >>
    /\ running = Idle
    /\ deleted = {}
    /\ lost = {}
    /\ undefined = FALSE

-------------------------------------------------------------------------------
(* The kernel *)

\* What the kernel reports of a descriptor of the set; Err and Hup always.
Pending(set, f, holds) ==
    IF f \in DOMAIN set
    THEN holds \cap (FromBits(ToBits(set[f].ev)) \cup {"Err", "Hup"})
    ELSE {}

Listed(list, f) == IF f \in ToSet(list) THEN list ELSE Append(list, f)

\* EPOLL_CTL_ADD and EPOLL_CTL_MOD look whether the descriptor is ready.
EPollCtlSet(f, ptr, ev) ==
    /\ interest' = With(interest, f, [ptr |-> ptr, ev |-> ev])
    /\ rdlist' = IF Pending(interest', f, ready[f]) = {} THEN rdlist ELSE Listed(rdlist, f)
    /\ UNCHANGED ready

EPollCtlDel(f) ==
    /\ interest' = Without(interest, f)
    /\ rdlist' = Only(rdlist, Fd \ {f})
    /\ UNCHANGED ready

Arrive(f, e) ==
    /\ e \notin ready[f]
    /\ ready' = [ready EXCEPT ![f] = @ \cup {e}]
    /\ rdlist' = IF Pending(interest, f, {e}) = {} THEN rdlist ELSE Listed(rdlist, f)
    /\ UNCHANGED <<ctrl, interest, batch, history, undefined>>

-------------------------------------------------------------------------------
(* What the users of the controller do, from inside callbacks or not *)

InDispatch == running = Idle /\ events # << >>
MayAct == ~undefined /\ ~InDispatch

\* add(); a descriptor the kernel has already, or refuses, changes nothing.
Add(f, ev) ==
    /\ MayAct
    /\ f \notin DOMAIN interest
    /\ created < MaxCallbacks
    /\ created' = created + 1
    /\ EPollCtlSet(f, created', ev)
    /\ cb' = With(cb, f, created')
    /\ UNCHANGED <<batch, history, undefined>>

\* The kernel has the descriptor, but emplace() gets no memory: the callback is
\* freed, and its address stays in the epoll set.
AddFailsLate(f, ev) ==
    /\ MayAct
    /\ f \notin DOMAIN interest
    /\ created < MaxCallbacks
    /\ created' = created + 1
    /\ EPollCtlSet(f, created', ev)
    /\ lost' = lost \cup {f}
    /\ UNCHANGED <<cb, batch, deleted, undefined>>

\* Mutant of Del: the kernel is not told.
DelFromMapOnly(f) ==
    /\ MayAct
    /\ f \in DOMAIN cb
    /\ cb' = Without(cb, f)
    /\ deleted' = IF running = Idle THEN deleted ELSE deleted \cup {cb[f]}
    /\ UNCHANGED <<created, kernel, batch, lost, undefined>>

\* del(): the callback is freed before the kernel forgets it, and a batch that
\* has been taken is left as it is.
Del(f) ==
    /\ MayAct
    /\ f \in DOMAIN cb
    /\ cb' = Without(cb, f)
    /\ EPollCtlDel(f)
    /\ deleted' = IF running = Idle THEN deleted ELSE deleted \cup {cb[f]}
    /\ UNCHANGED <<created, batch, lost, undefined>>

\* Mutant of Mod: the pointer is that of the newest callback.
ModNewest(f, ev) ==
    /\ MayAct
    /\ f \in DOMAIN cb
    /\ EPollCtlSet(f, created, ev)
    /\ UNCHANGED <<ctrl, batch, history, undefined>>

Mod(f, ev) ==
    /\ MayAct
    /\ f \in DOMAIN cb
    /\ EPollCtlSet(f, cb[f], ev)
    /\ UNCHANGED <<ctrl, batch, history, undefined>>

\* A user reads or writes until the event does not hold any more.
Consume(f, e) ==
    /\ MayAct
    /\ e \in ready[f]
    /\ ready' = [ready EXCEPT ![f] = @ \ {e}]
    /\ UNCHANGED <<ctrl, interest, rdlist, batch, history, undefined>>

-------------------------------------------------------------------------------
(* wait() *)

\* Mutant of BatchSize: the array is one too short.
BatchOverflows(n) == IF n <= MaxEvents THEN n ELSE MaxEvents + 1

BatchSize(n) == IF n < MaxEvents THEN n ELSE MaxEvents

\* epoll_wait() goes through its list from the front; what it reports, it puts
\* at the end again, because the events are level triggered.  (\E of one value,
\* because TLC would evaluate a LET again at every use.)
Wait ==
    /\ MayAct
    /\ running = Idle
    /\ \E pending \in {Only(rdlist, {f \in Fd : Pending(interest, f, ready[f]) # {}})} :
          LET n == BatchSize(Len(pending))
              taken == SubSeq(pending, 1, n)
          IN  /\ n > 0
              /\ events' = [i \in 1..n |-> [ptr |-> interest[taken[i]].ptr,
                                            ev |-> Pending(interest, taken[i], ready[taken[i]])]]
              /\ rdlist' = SubSeq(pending, n + 1, Len(pending)) \o taken
    /\ deleted' = {}
    /\ UNCHANGED <<ctrl, interest, ready, running, lost, undefined>>

\* Mutant of Dispatch: only the first event of a batch is dispatched.
DispatchFirst ==
    /\ InDispatch
    /\ Alive(Head(events).ptr)
    /\ running' = Head(events)
    /\ events' = << >>
    /\ UNCHANGED <<ctrl, kernel, history, undefined>>

Dispatch ==
    /\ InDispatch
    /\ ~undefined
    /\ Alive(Head(events).ptr)
    /\ running' = Head(events)
    /\ events' = Tail(events)
    /\ UNCHANGED <<ctrl, kernel, history, undefined>>

\* The pointer is followed although the callback is gone.
DispatchFreed ==
    /\ InDispatch
    /\ ~undefined
    /\ ~Alive(Head(events).ptr)
    /\ undefined' = TRUE
    /\ UNCHANGED <<ctrl, kernel, batch, history>>

\* The callback that runs has deleted its own descriptor: its closure is gone,
\* and still it uses what it had captured.
RunsFreed ==
    /\ ~undefined
    /\ running # Idle
    /\ ~Alive(running.ptr)
    /\ undefined' = TRUE
    /\ UNCHANGED <<ctrl, kernel, batch, history>>

Return ==
    /\ ~undefined
    /\ running # Idle
    /\ running' = Idle
    /\ UNCHANGED <<ctrl, kernel, events, history, undefined>>

\* An exception leaves wait() and drops what it had still to dispatch.
CallbackThrows ==
    /\ ~undefined
    /\ running # Idle
    /\ running' = Idle
    /\ events' = << >>
    /\ UNCHANGED <<ctrl, kernel, history, undefined>>

-------------------------------------------------------------------------------
(* Properties *)

\* Program and kernel agree: the epoll set has the descriptors of the map, with
\* the pointers of the map, whatever callbacks add, delete and modify while a
\* batch is dispatched; of a descriptor whose add() ran out of memory nothing is
\* said.
KernelAgrees ==
    /\ DOMAIN interest \ lost = DOMAIN cb
    /\ \A f \in DOMAIN cb : interest[f].ptr = cb[f]

\* A freed callback is in no batch but the one that was being dispatched when
\* it was deleted; the one exception is an add() that ran out of memory, whose
\* pointer may come with any batch.
StaleOnlyInItsBatch ==
    \A i \in DOMAIN events :
        \/ Alive(events[i].ptr)
        \/ events[i].ptr \in deleted
        \/ \E f \in lost : interest[f].ptr = events[i].ptr
===============================================================================
