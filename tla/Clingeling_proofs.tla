---------------------------- MODULE Clingeling_proofs --------------------------
(***************************************************************************)
(* Proofs about EPollCtrl and Clingeling for any descriptors, interests    *)
(* and sizes of batches, of the pipe and of the bound on callbacks.        *)
(***************************************************************************)
EXTENDS Clingeling, Selection_proofs

\* Callbacks have addresses of their own, in the epoll set as well, and no
\* descriptor is twice in the kernel's list.  A descriptor whose add() failed
\* late stays in the epoll set.
PointersApart ==
    /\ \A f \in DOMAIN interest : interest[f].ptr <= created
    /\ \A f, g \in DOMAIN interest : interest[f].ptr = interest[g].ptr => f = g
    /\ \A i, j \in DOMAIN rdlist : rdlist[i] = rdlist[j] => i = j
    /\ lost \subseteq DOMAIN interest

\* The events of a batch are for different callbacks, and none is for the one
\* that runs.
BatchApart ==
    /\ \A i \in DOMAIN events : events[i].ptr <= created /\ events[i].ptr # running.ptr
    /\ \A i, j \in DOMAIN events : events[i].ptr = events[j].ptr => i = j

CtrlInv ==
    /\ EPollTypeOK
    /\ KernelAgrees
    /\ StaleOnlyInItsBatch
    /\ PointersApart
    /\ BatchApart

\* The pipe's callback runs, or has an event in the batch.
PipeCalled ==
    Pipe \in DOMAIN cb /\ cb[Pipe] \in {running.ptr} \cup {events[i].ptr : i \in DOMAIN events}

\* The pipe's callback reads a wakeup whenever it is called, so the wakeup has to
\* be there: the kernel reports the pipe for a wakeup alone, in a batch once, and
\* nobody else reads it or takes the pipe from the controller.
PipeInv ==
    /\ Pipe \notin lost
    /\ ready[Pipe] \subseteq {"In"}
    /\ ("In" \in ready[Pipe] <=> wakeups > 0)
    /\ (loop = "starting" => events = << >> /\ running = Idle)
    /\ (loop = "starting" <=> Pipe \notin DOMAIN cb)
    /\ Pipe \in DOMAIN cb => interest[Pipe].ev = {"In"}
    /\ PipeCalled => wakeups > 0

LoopTypeOK ==
    /\ loop \in {"starting", "running", "stopping", "returned", "thrown", "blocked"}
    /\ wakeups \in 0..PipeSize

ProgramInv == CtrlInv /\ LoopTypeOK /\ PipeInv

-------------------------------------------------------------------------------
(* Maps and lists *)

LEMMA WithoutFacts ==
  ASSUME NEW map, NEW f
  PROVE  /\ DOMAIN Without(map, f) = DOMAIN map \ {f}
         /\ \A g \in DOMAIN map : g # f => Without(map, f)[g] = map[g]
BY DEF Without

Distinct(s) == \A i, j \in DOMAIN s : s[i] = s[j] => i = j

LEMMA OnlyDistinct ==
  ASSUME NEW s \in Seq(Fd), Distinct(s), NEW T
  PROVE  Only(s, T) \in Seq(Fd) /\ Distinct(Only(s, T))
         /\ \A i \in DOMAIN Only(s, T) : Only(s, T)[i] \in T
<1>1. PICK o : o = Only(s, T)
  OBVIOUS
<1>2. o \in Seq(Fd \cap T) /\ o \in Seq(Fd)
  <2>1. o \in Seq(Fd \cap T)
    BY <1>1, OnlyType
  <2> QED
    BY <2>1
<1>3. PICK at \in [1..Len(o) -> 1..Len(s)] :
         /\ \A n \in 1..Len(o) : o[n] = s[at[n]]
         /\ \A m, n \in 1..Len(o) : m < n => at[m] < at[n]
  BY <1>1, OnlyPositions
<1>4. DOMAIN o = 1..Len(o) /\ DOMAIN s = 1..Len(s) /\ Len(o) \in Nat /\ Len(s) \in Nat
  BY <1>2
<1>5. \A m, n \in 1..Len(o) : at[m] = at[n] => m = n
  BY <1>3, <1>4
<1>6. Distinct(o)
  BY <1>3, <1>4, <1>5 DEF Distinct
<1>7. \A i \in DOMAIN o : o[i] \in T
  BY <1>2, <1>4
<1> QED
  BY <1>1, <1>2, <1>6, <1>7

LEMMA ListedDistinct ==
  ASSUME NEW s \in Seq(Fd), Distinct(s), NEW f \in Fd
  PROVE  Listed(s, f) \in Seq(Fd) /\ Distinct(Listed(s, f))
<1>1. CASE f \in ToSet(s)
  BY <1>1 DEF Listed
<1>2. CASE f \notin ToSet(s)
  <2>1. PICK t : t = Append(s, f)
    OBVIOUS
  <2>2. /\ t \in Seq(Fd) /\ Len(s) \in Nat /\ DOMAIN t = 1..Len(s) + 1 /\ DOMAIN s = 1..Len(s)
        /\ \A i \in 1..Len(s) : t[i] = s[i]
        /\ t[Len(s) + 1] = f
    BY <2>1
  <2>3. \A i \in DOMAIN s : s[i] # f
    BY <1>2 DEF ToSet
  <2>4. Distinct(t)
    BY <2>2, <2>3 DEF Distinct
  <2> QED
    BY <1>2, <2>1, <2>2, <2>4 DEF Listed
<1> QED
  BY <1>1, <1>2

LEMMA EventFacts ==
  ASSUME EPollTypeOK
  PROVE  /\ DOMAIN events = 1..Len(events) /\ Len(events) \in Nat /\ MaxEvents \in Nat \ {0}
         /\ \A i \in DOMAIN events : /\ events[i] \in Call
                                    /\ events[i].ptr \in Nat /\ events[i].ptr # 0
<1>1. /\ events \in Seq(Call) /\ DOMAIN events = 1..Len(events) /\ Len(events) \in Nat
      /\ MaxEvents \in Nat \ {0} /\ MaxCallbacks \in Nat
  BY EPollAssumption DEF EPollTypeOK
<1>2. \A i \in DOMAIN events : events[i] \in Call
  BY <1>1
<1>3. \A c \in Call : c.ptr \in Nat /\ c.ptr # 0
  BY <1>1 DEF Call, Callback
<1> QED
  BY <1>1, <1>2, <1>3

-------------------------------------------------------------------------------
(* The epoll set *)

LEMMA SetFacts ==
  ASSUME CtrlInv, NEW f \in Fd, NEW ptr, NEW ev, EPollCtlSet(f, ptr, ev)
  PROVE  /\ DOMAIN interest' = DOMAIN interest \cup {f}
         /\ interest'[f] = [ptr |-> ptr, ev |-> ev]
         /\ \A g \in DOMAIN interest : g # f => interest'[g] = interest[g]
         /\ rdlist' \in Seq(Fd) /\ Distinct(rdlist') /\ ready' = ready
<1>1. rdlist \in Seq(Fd) /\ Distinct(rdlist)
  BY DEF CtrlInv, EPollTypeOK, PointersApart, Distinct
<1>2. Listed(rdlist, f) \in Seq(Fd) /\ Distinct(Listed(rdlist, f))
  BY <1>1, ListedDistinct
<1>3. /\ interest' = With(interest, f, [ptr |-> ptr, ev |-> ev])
      /\ rdlist' = rdlist \/ rdlist' = Listed(rdlist, f)
      /\ ready' = ready
  BY DEF EPollCtlSet
<1>4. /\ DOMAIN interest' = DOMAIN interest \cup {f}
      /\ interest'[f] = [ptr |-> ptr, ev |-> ev]
      /\ \A g \in DOMAIN interest : g # f => interest'[g] = interest[g]
  BY <1>3 DEF With
<1> QED
  BY <1>1, <1>2, <1>3, <1>4

\* add(), as far as the kernel got, with a new pointer
LEMMA SetNew ==
  ASSUME CtrlInv, NEW f \in Fd, f \notin DOMAIN interest, NEW ev \in Events,
         created' = created + 1, created < MaxCallbacks, EPollCtlSet(f, created', ev)
  PROVE  /\ created' \in Callback
         /\ [ptr |-> created', ev |-> ev] \in Call
         /\ \A g \in DOMAIN interest' : interest'[g] \in Call /\ interest'[g].ptr <= created'
         /\ \A g, h \in DOMAIN interest' : interest'[g].ptr = interest'[h].ptr => g = h
         /\ DOMAIN interest' = DOMAIN interest \cup {f}
         /\ interest'[f].ptr = created'
         /\ \A g \in DOMAIN interest : interest'[g] = interest[g]
         /\ rdlist' \in Seq(Fd) /\ Distinct(rdlist') /\ ready' = ready
<1>1. created \in 0..MaxCallbacks /\ MaxCallbacks \in Nat
  BY EPollAssumption DEF CtrlInv, EPollTypeOK
<1>2. created' \in Callback
  BY <1>1 DEF Callback
<1>3. [ptr |-> created', ev |-> ev] \in Call
  BY <1>2, EPollAssumption DEF Call
<1>4. /\ DOMAIN interest' = DOMAIN interest \cup {f}
      /\ interest'[f] = [ptr |-> created', ev |-> ev]
      /\ \A g \in DOMAIN interest : g # f => interest'[g] = interest[g]
      /\ rdlist' \in Seq(Fd) /\ Distinct(rdlist') /\ ready' = ready
  BY SetFacts
<1>5. \A g \in DOMAIN interest : interest[g] \in Call /\ interest[g].ptr <= created
                                 /\ interest[g].ptr \in Nat
  BY DEF CtrlInv, EPollTypeOK, PointersApart, Call, Callback
<1>6. \A g \in DOMAIN interest' : interest'[g] \in Call /\ interest'[g].ptr <= created'
  BY <1>1, <1>3, <1>4, <1>5
<1>7. \A g, h \in DOMAIN interest' : interest'[g].ptr = interest'[h].ptr => g = h
  <2>1. \A g \in DOMAIN interest : interest'[g].ptr # created'
    BY <1>1, <1>4, <1>5
  <2>2. \A g, h \in DOMAIN interest : interest'[g].ptr = interest'[h].ptr => g = h
    BY <1>4 DEF CtrlInv, PointersApart
  <2> QED
    BY <1>4, <2>1, <2>2
<1> QED
  BY <1>2, <1>3, <1>4, <1>6, <1>7

\* Add() and what it keeps, with the callback in the map (add()) or only in the
\* epoll set (an add() that gets no memory)
LEMMA AddKeeps ==
  ASSUME CtrlInv, NEW f \in Fd, NEW ev \in Events, Add(f, ev)
  PROVE  CtrlInv' /\ f \notin DOMAIN cb /\ created' \in Callback
         /\ (\A g \in DOMAIN cb : cb[g] # created')
<1> USE DEF CtrlInv
<1>1. /\ f \notin DOMAIN interest /\ created < MaxCallbacks /\ created' = created + 1
      /\ EPollCtlSet(f, created', ev) /\ cb' = With(cb, f, created')
      /\ UNCHANGED <<batch, history, undefined>>
  BY DEF Add
<1>2. /\ created' \in Callback
      /\ [ptr |-> created', ev |-> ev] \in Call
      /\ \A g \in DOMAIN interest' : interest'[g] \in Call /\ interest'[g].ptr <= created'
      /\ \A g, h \in DOMAIN interest' : interest'[g].ptr = interest'[h].ptr => g = h
      /\ DOMAIN interest' = DOMAIN interest \cup {f}
      /\ interest'[f].ptr = created'
      /\ \A g \in DOMAIN interest : interest'[g] = interest[g]
      /\ rdlist' \in Seq(Fd) /\ Distinct(rdlist') /\ ready' = ready
  BY <1>1, SetNew
<1>3. /\ DOMAIN cb' = DOMAIN cb \cup {f}
      /\ cb'[f] = created'
      /\ \A g \in DOMAIN cb : g # f => cb'[g] = cb[g]
  BY <1>1 DEF With
<1>4. created \in 0..MaxCallbacks /\ MaxCallbacks \in Nat
  BY EPollAssumption DEF EPollTypeOK
<1>5. f \notin DOMAIN cb /\ f \notin lost /\ \A g \in DOMAIN cb : cb'[g] = cb[g]
  BY <1>1, <1>3 DEF KernelAgrees, PointersApart
<1>6. EPollTypeOK'
  <2>1. DOMAIN cb' \subseteq Fd /\ \A g \in DOMAIN cb' : cb'[g] \in 1..created'
    BY <1>1, <1>3, <1>4, <1>5 DEF EPollTypeOK
  <2>2. created' \in 0..MaxCallbacks /\ DOMAIN interest' \subseteq Fd
    BY <1>1, <1>2, <1>4 DEF EPollTypeOK
  <2> QED
    BY <1>1, <1>2, <2>1, <2>2 DEF EPollTypeOK, batch, history
<1>7. KernelAgrees'
  <2>1. DOMAIN interest' \ lost' = DOMAIN cb'
    BY <1>1, <1>2, <1>3, <1>5 DEF KernelAgrees, history
  <2>2. \A g \in DOMAIN cb' : interest'[g].ptr = cb'[g]
    BY <1>2, <1>3, <1>5 DEF KernelAgrees
  <2> QED
    BY <2>1, <2>2 DEF KernelAgrees
<1>8. StaleOnlyInItsBatch'
  <2>1. \A p : Alive(p) => Alive(p)'
    BY <1>3, <1>5 DEF Alive
  <2>2. lost \subseteq DOMAIN interest
    BY DEF PointersApart
  <2>3. \A g \in lost : interest'[g] = interest[g]
    BY <2>2, <1>2
  <2>4. events' = events /\ deleted' = deleted /\ lost' = lost
    BY <1>1 DEF batch, history
  <2> QED
    BY <2>1, <2>3, <2>4 DEF StaleOnlyInItsBatch, Alive
<1>9. PointersApart'
  BY <1>1, <1>2 DEF PointersApart, Distinct, history
<1>10. BatchApart'
  <2>1. \A i \in DOMAIN events : events[i].ptr \in Nat
    BY EventFacts
  <2> QED
    BY <1>1, <1>4, <2>1 DEF BatchApart, batch
<1>11. \A g \in DOMAIN cb : cb[g] # created'
  BY <1>1, <1>4 DEF EPollTypeOK
<1> QED
  BY <1>2, <1>5, <1>6, <1>7, <1>8, <1>9, <1>10, <1>11

LEMMA AddFailsKeeps ==
  ASSUME CtrlInv, NEW f \in Fd, NEW ev \in Events, AddFailsLate(f, ev)
  PROVE  CtrlInv'
<1> USE DEF CtrlInv
<1>1. /\ f \notin DOMAIN interest /\ created < MaxCallbacks /\ created' = created + 1
      /\ EPollCtlSet(f, created', ev) /\ lost' = lost \cup {f}
      /\ UNCHANGED <<cb, batch, deleted, undefined>>
  BY DEF AddFailsLate
<1>2. /\ created' \in Callback
      /\ \A g \in DOMAIN interest' : interest'[g] \in Call /\ interest'[g].ptr <= created'
      /\ \A g, h \in DOMAIN interest' : interest'[g].ptr = interest'[h].ptr => g = h
      /\ DOMAIN interest' = DOMAIN interest \cup {f}
      /\ \A g \in DOMAIN interest : interest'[g] = interest[g]
      /\ rdlist' \in Seq(Fd) /\ Distinct(rdlist') /\ ready' = ready
  BY <1>1, SetNew
<1>3. created \in 0..MaxCallbacks /\ MaxCallbacks \in Nat
  BY EPollAssumption DEF EPollTypeOK
<1>4. lost \subseteq DOMAIN interest /\ DOMAIN cb \subseteq DOMAIN interest
  BY DEF KernelAgrees, PointersApart
<1>5. EPollTypeOK'
  <2>1. created' \in 0..MaxCallbacks /\ DOMAIN interest' \subseteq Fd /\ lost' \subseteq Fd
    BY <1>1, <1>2, <1>3 DEF EPollTypeOK
  <2>2. \A g \in DOMAIN cb : cb[g] \in 1..created'
    BY <1>1, <1>3 DEF EPollTypeOK
  <2> QED
    BY <1>1, <1>2, <2>1, <2>2 DEF EPollTypeOK, batch
<1>6. KernelAgrees'
  <2>1. DOMAIN interest' \ lost' = DOMAIN cb'
    BY <1>1, <1>2, <1>4 DEF KernelAgrees
  <2>2. \A g \in DOMAIN cb' : interest'[g].ptr = cb'[g]
    BY <1>1, <1>2, <1>4 DEF KernelAgrees
  <2> QED
    BY <2>1, <2>2 DEF KernelAgrees
<1>7. StaleOnlyInItsBatch'
  <2>1. \A g \in lost : interest'[g] = interest[g]
    BY <1>2, <1>4
  <2>2. events' = events /\ deleted' = deleted /\ cb' = cb /\ lost \subseteq lost'
    BY <1>1 DEF batch
  <2> QED
    BY <2>1, <2>2 DEF StaleOnlyInItsBatch, Alive
<1>8. PointersApart'
  BY <1>1, <1>2, <1>4 DEF PointersApart, Distinct
<1>9. BatchApart'
  <2>1. \A i \in DOMAIN events : events[i].ptr \in Nat
    BY EventFacts
  <2> QED
    BY <1>1, <1>3, <2>1 DEF BatchApart, batch
<1> QED
  BY <1>5, <1>6, <1>7, <1>8, <1>9

LEMMA DelKeeps ==
  ASSUME CtrlInv, NEW f \in Fd, Del(f)
  PROVE  CtrlInv'
<1> USE DEF CtrlInv
<1>1. /\ f \in DOMAIN cb /\ cb' = Without(cb, f) /\ EPollCtlDel(f)
      /\ deleted' = IF running = Idle THEN deleted ELSE deleted \cup {cb[f]}
      /\ UNCHANGED <<created, batch, lost, undefined>>
      /\ (running = Idle => events = << >>)
  BY DEF Del, MayAct, InDispatch
<1>2. /\ DOMAIN cb' = DOMAIN cb \ {f}
      /\ \A g \in DOMAIN cb' : cb'[g] = cb[g]
      /\ DOMAIN interest' = DOMAIN interest \ {f}
      /\ \A g \in DOMAIN interest' : interest'[g] = interest[g]
      /\ ready' = ready
  BY <1>1, WithoutFacts DEF EPollCtlDel
<1>3. rdlist' \in Seq(Fd) /\ Distinct(rdlist')
  <2>1. rdlist \in Seq(Fd) /\ Distinct(rdlist)
    BY DEF EPollTypeOK, PointersApart, Distinct
  <2>2. rdlist' = Only(rdlist, Fd \ {f})
    BY <1>1 DEF EPollCtlDel
  <2> QED
    BY <2>1, <2>2, OnlyDistinct
<1>4. f \in DOMAIN interest /\ f \notin lost
  BY <1>1 DEF KernelAgrees
<1>5. cb[f] \in Callback
  BY <1>1, EPollAssumption DEF EPollTypeOK, Callback
<1>6. EPollTypeOK'
  <2>1. deleted' \subseteq Callback
    BY <1>1, <1>5 DEF EPollTypeOK
  <2> QED
    BY <1>1, <1>2, <1>3, <2>1 DEF EPollTypeOK, batch
<1>7. KernelAgrees'
  <2>1. DOMAIN interest' \ lost' = DOMAIN cb'
    BY <1>1, <1>2 DEF KernelAgrees
  <2>2. \A g \in DOMAIN cb' : interest'[g].ptr = cb'[g]
    BY <1>1, <1>2, <2>1 DEF KernelAgrees
  <2> QED
    BY <2>1, <2>2 DEF KernelAgrees
<1>8. StaleOnlyInItsBatch'
  <2>1. lost \subseteq DOMAIN interest'
    BY <1>2, <1>4 DEF PointersApart
  <2>2. \A g \in lost : interest'[g] = interest[g]
    BY <1>2, <2>1
  <2>3. events' = events /\ lost' = lost
    BY <1>1 DEF batch
  <2>4. \A p : Alive(p) => Alive(p)' \/ p = cb[f]
    BY <1>2 DEF Alive
  <2>5. events # << >> => deleted' = deleted \cup {cb[f]}
    BY <1>1
  <2>6. CASE events = << >>
    BY <2>3, <2>6 DEF StaleOnlyInItsBatch
  <2>7. CASE events # << >>
    BY <2>2, <2>3, <2>4, <2>5, <2>7 DEF StaleOnlyInItsBatch, Alive
  <2> QED
    BY <2>6, <2>7
<1>9. PointersApart'
  <2>1. lost' \subseteq DOMAIN interest'
    BY <1>1, <1>2, <1>4 DEF PointersApart
  <2> QED
    BY <1>1, <1>2, <1>3, <2>1 DEF PointersApart, Distinct
<1>10. BatchApart'
  BY <1>1 DEF BatchApart, batch
<1> QED
  BY <1>6, <1>7, <1>8, <1>9, <1>10

LEMMA ModKeeps ==
  ASSUME CtrlInv, NEW f \in Fd, NEW ev \in Events, Mod(f, ev)
  PROVE  CtrlInv'
<1> USE DEF CtrlInv
<1>1. /\ f \in DOMAIN cb /\ EPollCtlSet(f, cb[f], ev)
      /\ UNCHANGED <<ctrl, batch, history, undefined>>
  BY DEF Mod
<1>2. /\ DOMAIN interest' = DOMAIN interest \cup {f}
      /\ interest'[f] = [ptr |-> cb[f], ev |-> ev]
      /\ \A g \in DOMAIN interest : g # f => interest'[g] = interest[g]
      /\ rdlist' \in Seq(Fd) /\ Distinct(rdlist') /\ ready' = ready
  BY <1>1, SetFacts
<1>3. f \in DOMAIN interest /\ f \notin lost /\ interest[f].ptr = cb[f]
  BY <1>1 DEF KernelAgrees
<1>4. interest'[f] \in Call
  <2>1. cb[f] \in Callback
    BY <1>1, EPollAssumption DEF EPollTypeOK, Callback
  <2> QED
    BY <1>2, <2>1, EPollAssumption DEF Call
<1>5. /\ DOMAIN interest' = DOMAIN interest
      /\ \A g \in DOMAIN interest : interest'[g].ptr = interest[g].ptr
      /\ \A g \in DOMAIN interest : interest'[g] \in Call
  <2>1. DOMAIN interest' = DOMAIN interest
    BY <1>2, <1>3
  <2>2. interest'[f].ptr = interest[f].ptr
    BY <1>2, <1>3
  <2>3. \A g \in DOMAIN interest : interest[g] \in Call
    BY DEF EPollTypeOK
  <2> QED
    BY <1>2, <1>4, <2>1, <2>2, <2>3
<1>6. EPollTypeOK'
  BY <1>1, <1>2, <1>5 DEF EPollTypeOK, ctrl, batch, history
<1>7. KernelAgrees'
  BY <1>1, <1>5 DEF KernelAgrees, ctrl, history
<1>8. StaleOnlyInItsBatch'
  BY <1>1, <1>5 DEF StaleOnlyInItsBatch, Alive, PointersApart, ctrl, batch, history
<1>9. PointersApart'
  BY <1>1, <1>2, <1>5 DEF PointersApart, Distinct, ctrl, history
<1>10. BatchApart'
  BY <1>1 DEF BatchApart, batch, ctrl
<1> QED
  BY <1>6, <1>7, <1>8, <1>9, <1>10

-------------------------------------------------------------------------------
(* The kernel's side, and the batch *)

\* What holds of descriptors may change at any time, and its list with it.
LEMMA ReadyKeeps ==
  ASSUME CtrlInv, ready' \in [Fd -> SUBSET Arrivals],
         NEW f \in Fd, rdlist' = rdlist \/ rdlist' = Listed(rdlist, f),
         UNCHANGED <<ctrl, interest, batch, history, undefined>>
  PROVE  CtrlInv'
<1> USE DEF CtrlInv
<1>1. rdlist' \in Seq(Fd) /\ Distinct(rdlist')
  BY ListedDistinct DEF EPollTypeOK, PointersApart, Distinct
<1>2. EPollTypeOK'
  BY <1>1 DEF EPollTypeOK, ctrl, batch, history
<1>3. PointersApart'
  BY <1>1 DEF PointersApart, Distinct, ctrl, history
<1>4. BatchApart' /\ KernelAgrees' /\ StaleOnlyInItsBatch'
  BY DEF BatchApart, KernelAgrees, StaleOnlyInItsBatch, Alive, ctrl, batch, history
<1> QED
  BY <1>2, <1>3, <1>4

LEMMA WaitFacts ==
  ASSUME CtrlInv, Wait
  PROVE  /\ running = Idle /\ UNCHANGED <<ctrl, interest, ready, running, lost, undefined>>
         /\ deleted' = {}
         /\ rdlist' \in Seq(Fd) /\ Distinct(rdlist')
         /\ events' \in Seq(Call) /\ Len(events') <= MaxEvents
         /\ \E taken \in Seq(Fd) :
              /\ Distinct(taken) /\ DOMAIN taken = DOMAIN events'
              /\ \A i \in DOMAIN taken :
                   /\ taken[i] \in DOMAIN interest
                   /\ events'[i].ptr = interest[taken[i]].ptr
                   /\ Pending(interest, taken[i], ready[taken[i]]) # {}
<1> USE DEF CtrlInv
<1> DEFINE Held == {f \in Fd : Pending(interest, f, ready[f]) # {}}
           pending == Only(rdlist, Held)
           n == BatchSize(Len(pending))
           taken == SubSeq(pending, 1, n)
<1> HIDE DEF Held
<1>1. /\ running = Idle /\ deleted' = {} /\ n > 0
      /\ UNCHANGED <<ctrl, interest, ready, running, lost, undefined>>
      /\ events' = [i \in 1..n |-> [ptr |-> interest[taken[i]].ptr,
                                    ev |-> Pending(interest, taken[i], ready[taken[i]])]]
      /\ rdlist' = SubSeq(pending, n + 1, Len(pending)) \o taken
  BY DEF Wait, Held
<1>2. /\ pending \in Seq(Fd) /\ Distinct(pending)
      /\ \A i \in DOMAIN pending : pending[i] \in Held
  <2>1. rdlist \in Seq(Fd) /\ Distinct(rdlist)
    BY DEF EPollTypeOK, PointersApart, Distinct
  <2> QED
    BY <2>1, OnlyDistinct
<1> HIDE DEF pending
<1>3. n \in 1..Len(pending) /\ n <= MaxEvents /\ Len(pending) \in Nat
  BY <1>1, <1>2, EPollAssumption DEF BatchSize
<1> HIDE DEF n
<1>4. /\ taken \in Seq(Fd) /\ DOMAIN taken = 1..n /\ Len(taken) = n
      /\ \A i \in 1..n : taken[i] = pending[i]
  BY <1>2, <1>3
<1>5. Distinct(taken) /\ \A i \in 1..n : taken[i] \in Held
  BY <1>2, <1>3, <1>4 DEF Distinct
<1>6. \A f \in Held : f \in DOMAIN interest /\ Pending(interest, f, ready[f]) # {}
  BY DEF Held, Pending
<1>7. rdlist' \in Seq(Fd) /\ Distinct(rdlist')
  <2> DEFINE rest == SubSeq(pending, n + 1, Len(pending))
             m == Len(pending) - n
  <2>1. rest \in Seq(Fd) /\ Len(rest) = m /\ \A i \in 1..m : rest[i] = pending[n + i]
    BY <1>2, <1>3
  <2>2. m \in Nat /\ n \in Nat
    BY <1>3
  <2> HIDE DEF rest
  <2>3. PICK t : t = rest \o taken
    OBVIOUS
  <2>4. t \in Seq(Fd) /\ Len(t) = m + n
    BY <1>4, <2>1, <2>2, <2>3
  <2>5. /\ \A i \in 1..m : t[i] = pending[n + i]
        /\ \A i \in 1..n : t[m + i] = pending[i]
    BY <1>4, <2>1, <2>2, <2>3
  <2>6. \A i \in 1..(m + n) : t[i] = pending[IF i <= m THEN n + i ELSE i - m]
    <3> TAKE i \in 1..(m + n)
    <3>1. CASE i <= m
      BY <2>2, <2>5, <3>1
    <3>2. CASE ~(i <= m)
      <4>1. i - m \in 1..n /\ i = m + (i - m)
        BY <2>2, <3>2
      <4> QED
        BY <2>5, <3>2, <4>1
    <3> QED
      BY <3>1, <3>2
  <2>7. DOMAIN t = 1..(m + n) /\ DOMAIN pending = 1..(m + n)
    BY <1>2, <1>3, <2>4, <2>2
  <2>8. Distinct(t)
    <3> SUFFICES ASSUME NEW i \in DOMAIN t, NEW j \in DOMAIN t, t[i] = t[j]
                 PROVE  i = j
      BY DEF Distinct
    <3>1. pending[IF i <= m THEN n + i ELSE i - m] = pending[IF j <= m THEN n + j ELSE j - m]
      BY <2>6, <2>7
    <3>2. (IF i <= m THEN n + i ELSE i - m) \in 1..(m + n)
      BY <2>2, <2>7
    <3>3. (IF j <= m THEN n + j ELSE j - m) \in 1..(m + n)
      BY <2>2, <2>7
    <3>4. (IF i <= m THEN n + i ELSE i - m) = (IF j <= m THEN n + j ELSE j - m)
      BY <1>2, <2>7, <3>1, <3>2, <3>3 DEF Distinct
    <3> QED
      BY <2>2, <2>7, <3>4
  <2> QED
    BY <1>1, <2>3, <2>4, <2>8 DEF rest
<1> HIDE DEF taken
<1>8. \A i \in 1..n : [ptr |-> interest[taken[i]].ptr,
                       ev |-> Pending(interest, taken[i], ready[taken[i]])] \in Call
  <2> TAKE i \in 1..n
  <2>1. taken[i] \in DOMAIN interest /\ taken[i] \in Fd
    BY <1>5, <1>6 DEF EPollTypeOK
  <2>2. interest[taken[i]].ptr \in Callback
    BY <2>1 DEF EPollTypeOK, Call
  <2>3. Pending(interest, taken[i], ready[taken[i]]) \in Events
    BY <2>1, EPollAssumption DEF EPollTypeOK, Pending, Events
  <2> QED
    BY <2>2, <2>3 DEF Call
<1>9. events' \in Seq(Call) /\ Len(events') = n /\ DOMAIN events' = 1..n
  BY <1>1, <1>3, <1>8
<1>10. \A i \in 1..n : /\ taken[i] \in DOMAIN interest
                       /\ events'[i].ptr = interest[taken[i]].ptr
                       /\ Pending(interest, taken[i], ready[taken[i]]) # {}
  BY <1>1, <1>5, <1>6
<1> QED
  BY <1>1, <1>3, <1>4, <1>5, <1>7, <1>9, <1>10

LEMMA WaitKeeps ==
  ASSUME CtrlInv, Wait
  PROVE  CtrlInv'
<1> USE DEF CtrlInv
<1>1. PICK taken \in Seq(Fd) :
        /\ Distinct(taken) /\ DOMAIN taken = DOMAIN events'
        /\ \A i \in DOMAIN taken :
             /\ taken[i] \in DOMAIN interest
             /\ events'[i].ptr = interest[taken[i]].ptr
             /\ Pending(interest, taken[i], ready[taken[i]]) # {}
  BY WaitFacts
<1>2. /\ running = Idle /\ UNCHANGED <<ctrl, interest, ready, running, lost, undefined>>
      /\ deleted' = {}
      /\ rdlist' \in Seq(Fd) /\ Distinct(rdlist')
      /\ events' \in Seq(Call) /\ Len(events') <= MaxEvents
  BY WaitFacts
<1>3. EPollTypeOK'
  <2>1. Len(events') \in Nat /\ MaxEvents \in Nat
    BY <1>2, EPollAssumption
  <2> QED
    BY <1>2, <2>1 DEF EPollTypeOK, ctrl
<1>4. KernelAgrees'
  BY <1>2 DEF KernelAgrees, ctrl
<1>5. StaleOnlyInItsBatch'
  <2> SUFFICES ASSUME NEW i \in DOMAIN events'
               PROVE  \/ \E f \in DOMAIN cb : cb[f] = events'[i].ptr
                      \/ \E f \in lost : interest[f].ptr = events'[i].ptr
    BY <1>2 DEF StaleOnlyInItsBatch, Alive, ctrl
  <2>1. taken[i] \in DOMAIN interest /\ events'[i].ptr = interest[taken[i]].ptr
    BY <1>1
  <2> QED
    BY <2>1 DEF KernelAgrees
<1>6. PointersApart'
  BY <1>2 DEF PointersApart, Distinct, ctrl
<1>7. BatchApart'
  <2>1. \A i \in DOMAIN events' : events'[i].ptr <= created' /\ events'[i].ptr # running'.ptr
    <3> TAKE i \in DOMAIN events'
    <3>1. taken[i] \in DOMAIN interest /\ events'[i].ptr = interest[taken[i]].ptr
      BY <1>1
    <3>2. interest[taken[i]].ptr \in Callback /\ interest[taken[i]].ptr <= created
      BY <3>1 DEF EPollTypeOK, Call, PointersApart
    <3>3. running'.ptr = 0 /\ created' = created
      BY <1>2 DEF Idle, ctrl
    <3> QED
      BY <3>1, <3>2, <3>3 DEF Callback
  <2>2. \A i, j \in DOMAIN events' : events'[i].ptr = events'[j].ptr => i = j
    BY <1>1 DEF PointersApart, Distinct
  <2> QED
    BY <2>1, <2>2 DEF BatchApart
<1> QED
  BY <1>3, <1>4, <1>5, <1>6, <1>7

LEMMA DispatchKeeps ==
  ASSUME CtrlInv, Dispatch
  PROVE  CtrlInv'
<1> USE DEF CtrlInv
<1>1. /\ events # << >> /\ running' = Head(events) /\ events' = Tail(events)
      /\ UNCHANGED <<ctrl, kernel, history, undefined>>
  BY DEF Dispatch, InDispatch
<1>2. /\ events \in Seq(Call) /\ Len(events) \in Nat \ {0} /\ Len(events) <= MaxEvents
      /\ DOMAIN events = 1..Len(events) /\ MaxEvents \in Nat
  BY <1>1, EPollAssumption DEF EPollTypeOK
<1>3. /\ events' \in Seq(Call) /\ Len(events') = Len(events) - 1
      /\ DOMAIN events' = 1..(Len(events) - 1)
      /\ \A i \in DOMAIN events' : events'[i] = events[i + 1] /\ i + 1 \in DOMAIN events
  BY <1>1, <1>2
<1>4. running' = events[1] /\ 1 \in DOMAIN events /\ running' \in Call
  BY <1>1, <1>2
<1>5. EPollTypeOK'
  <2>1. Len(events') < MaxEvents
    BY <1>2, <1>3
  <2> QED
    BY <1>1, <1>3, <1>4, <2>1 DEF EPollTypeOK, ctrl, kernel, history
<1>6. KernelAgrees' /\ PointersApart'
  BY <1>1 DEF KernelAgrees, PointersApart, ctrl, kernel, history
<1>7. StaleOnlyInItsBatch'
  BY <1>1, <1>3 DEF StaleOnlyInItsBatch, Alive, ctrl, kernel, history
<1>8. BatchApart'
  <2>1. \A i \in DOMAIN events' : events'[i].ptr <= created' /\ events'[i].ptr # running'.ptr
    <3> TAKE i \in DOMAIN events'
    <3>1. events'[i] = events[i + 1] /\ i + 1 \in DOMAIN events /\ i + 1 # 1
      BY <1>2, <1>3
    <3>2. events[i + 1].ptr # events[1].ptr
      BY <1>4, <3>1 DEF BatchApart
    <3> QED
      BY <1>1, <1>4, <3>1, <3>2 DEF BatchApart, ctrl
  <2>2. \A i, j \in DOMAIN events' : events'[i].ptr = events'[j].ptr => i = j
    <3> TAKE i, j \in DOMAIN events'
    <3>1. events'[i].ptr = events'[j].ptr => i + 1 = j + 1
      BY <1>3 DEF BatchApart
    <3> QED
      BY <1>3, <1>2, <3>1
  <2> QED
    BY <2>1, <2>2 DEF BatchApart
<1> QED
  BY <1>5, <1>6, <1>7, <1>8

LEMMA DispatchFreedKeeps ==
  ASSUME CtrlInv, DispatchFreed
  PROVE  CtrlInv' /\ (deleted # {} \/ lost # {}) /\ running = Idle
<1> USE DEF CtrlInv
<1>1. /\ events # << >> /\ running = Idle /\ undefined' = TRUE /\ ~Alive(Head(events).ptr)
      /\ UNCHANGED <<ctrl, kernel, batch, history>>
  BY DEF DispatchFreed, InDispatch
<1>2. EPollTypeOK'
  BY <1>1 DEF EPollTypeOK, ctrl, kernel, batch, history
<1>3. KernelAgrees' /\ StaleOnlyInItsBatch' /\ PointersApart' /\ BatchApart'
  BY <1>1 DEF KernelAgrees, StaleOnlyInItsBatch, Alive, PointersApart, BatchApart,
              ctrl, kernel, batch, history
<1>4. 1 \in DOMAIN events /\ Head(events) = events[1]
  BY <1>1 DEF EPollTypeOK
<1>5. deleted # {} \/ lost # {}
  BY <1>1, <1>4 DEF StaleOnlyInItsBatch
<1> QED
  BY <1>1, <1>2, <1>3, <1>5

\* The end of a callback, with the rest of the batch or without it
LEMMA EndKeeps ==
  ASSUME CtrlInv, running' = Idle, running # Idle, events' = events \/ events' = << >>,
         UNCHANGED <<ctrl, kernel, history, undefined>>
  PROVE  CtrlInv'
<1> USE DEF CtrlInv
<1>1. events \in Seq(Call) /\ Len(events) < MaxEvents
  BY DEF EPollTypeOK
<1>2. events' \in Seq(Call) /\ Len(events') < MaxEvents
  <2>1. CASE events' = events
    BY <1>1, <2>1
  <2>2. CASE events' = << >>
    <3>1. Len(<< >>) = 0 /\ << >> \in Seq(Call)
      OBVIOUS
    <3> QED
      BY <2>2, <3>1, EventFacts
  <2> QED
    BY <2>1, <2>2
<1>3. DOMAIN events' \subseteq DOMAIN events /\ \A i \in DOMAIN events' : events'[i] = events[i]
  OBVIOUS
<1>4. EPollTypeOK'
  BY <1>2 DEF EPollTypeOK, ctrl, kernel, history
<1>5. KernelAgrees' /\ PointersApart'
  BY DEF KernelAgrees, PointersApart, ctrl, kernel, history
<1>6. StaleOnlyInItsBatch'
  BY <1>3 DEF StaleOnlyInItsBatch, Alive, ctrl, kernel, history
<1>7. BatchApart'
  <2>1. \A i \in DOMAIN events : events[i].ptr # 0
    BY EventFacts
  <2>2. running'.ptr = 0 /\ created' = created
    BY DEF Idle, ctrl
  <2> QED
    BY <1>3, <2>1, <2>2 DEF BatchApart
<1> QED
  BY <1>4, <1>5, <1>6, <1>7

-------------------------------------------------------------------------------
(* The program *)

LEMMA InitInv ==
  Init => ProgramInv
<1> SUFFICES ASSUME Init PROVE ProgramInv
  OBVIOUS
<1> USE DEF Init, EPollInit
<1>1. EPollTypeOK
  <2>1. Len(events) = 0 /\ events \in Seq(Call) /\ rdlist \in Seq(Fd)
    OBVIOUS
  <2>2. MaxCallbacks \in Nat /\ MaxEvents \in Nat \ {0}
    BY EPollAssumption
  <2>3. ready \in [Fd -> SUBSET Arrivals] /\ DOMAIN cb = {} /\ DOMAIN interest = {}
    OBVIOUS
  <2>4. created \in 0..MaxCallbacks /\ Len(events) < MaxEvents
    BY <2>1, <2>2
  <2> QED
    BY <2>1, <2>3, <2>4 DEF EPollTypeOK
<1>2. KernelAgrees /\ StaleOnlyInItsBatch /\ PointersApart /\ BatchApart
  BY DEF KernelAgrees, StaleOnlyInItsBatch, PointersApart, BatchApart
<1>3. LoopTypeOK
  BY ClingelingAssumption DEF LoopTypeOK
<1>4. PipeInv
  BY ClingelingAssumption DEF PipeInv, PipeCalled
<1> QED
  BY <1>1, <1>2, <1>3, <1>4 DEF ProgramInv, CtrlInv

\* What leaves the pipe's callback, its events and its readiness alone
LEMMA PipeKeeps ==
  ASSUME PipeInv, UNCHANGED <<batch, undefined, wakeups, loop>>,
         Pipe \notin lost', ready'[Pipe] = ready[Pipe],
         Pipe \in DOMAIN cb' <=> Pipe \in DOMAIN cb,
         Pipe \in DOMAIN cb => cb'[Pipe] = cb[Pipe] /\ interest'[Pipe].ev = interest[Pipe].ev
  PROVE  PipeInv'
<1>1. events' = events /\ running' = running
  BY DEF batch
<1>2. PipeCalled' => PipeCalled
  BY <1>1 DEF PipeCalled
<1> QED
  BY <1>1, <1>2 DEF PipeInv

LEMMA AddOther ==
  ASSUME ProgramInv, NEW f \in Other, NEW ev \in Interests, Add(f, ev),
         UNCHANGED <<loop, wakeups>>
  PROVE  ProgramInv'
<1>1. CtrlInv' /\ f \in Fd /\ f # Pipe
  BY AddKeeps, EPollAssumption DEF ProgramInv, Other
<1>2. /\ UNCHANGED <<batch, history, undefined, ready>>
      /\ cb' = With(cb, f, created') /\ interest' = With(interest, f, [ptr |-> created', ev |-> ev])
  BY DEF Add, EPollCtlSet
<1>3. Pipe \in DOMAIN cb => Pipe \in DOMAIN interest
  BY DEF ProgramInv, CtrlInv, KernelAgrees
<1>4. /\ Pipe \in DOMAIN cb' <=> Pipe \in DOMAIN cb
      /\ Pipe \in DOMAIN cb => cb'[Pipe] = cb[Pipe] /\ interest'[Pipe] = interest[Pipe]
  BY <1>1, <1>2, <1>3 DEF With
<1>5. Pipe \notin lost'
  BY <1>2 DEF ProgramInv, PipeInv, history
<1>6. PipeInv'
  BY <1>2, <1>4, <1>5, PipeKeeps DEF ProgramInv
<1> QED
  BY <1>1, <1>6 DEF ProgramInv, LoopTypeOK

LEMMA AddFailsOther ==
  ASSUME ProgramInv, NEW f \in Other, NEW ev \in Interests, AddFailsLate(f, ev),
         UNCHANGED <<loop, wakeups>>
  PROVE  ProgramInv'
<1>1. CtrlInv' /\ f \in Fd /\ f # Pipe
  BY AddFailsKeeps, EPollAssumption DEF ProgramInv, Other
<1>2. /\ UNCHANGED <<batch, undefined, ready, cb>> /\ lost' = lost \cup {f}
      /\ interest' = With(interest, f, [ptr |-> created', ev |-> ev])
  BY DEF AddFailsLate, EPollCtlSet
<1>3. Pipe \in DOMAIN cb => Pipe \in DOMAIN interest
  BY DEF ProgramInv, CtrlInv, KernelAgrees
<1>4. Pipe \in DOMAIN cb => interest'[Pipe] = interest[Pipe]
  BY <1>1, <1>2, <1>3 DEF With
<1>5. Pipe \notin lost'
  BY <1>1, <1>2 DEF ProgramInv, PipeInv
<1>6. PipeInv'
  BY <1>2, <1>4, <1>5, PipeKeeps DEF ProgramInv
<1> QED
  BY <1>1, <1>6 DEF ProgramInv, LoopTypeOK

LEMMA ModOther ==
  ASSUME ProgramInv, NEW f \in Other, NEW ev \in Interests, Mod(f, ev),
         UNCHANGED <<loop, wakeups>>
  PROVE  ProgramInv'
<1>1. CtrlInv' /\ f \in Fd /\ f # Pipe
  BY ModKeeps, EPollAssumption DEF ProgramInv, Other
<1>2. /\ UNCHANGED <<batch, history, undefined, ready, cb>>
      /\ interest' = With(interest, f, [ptr |-> cb[f], ev |-> ev])
  BY DEF Mod, EPollCtlSet, ctrl
<1>3. Pipe \in DOMAIN cb => Pipe \in DOMAIN interest
  BY DEF ProgramInv, CtrlInv, KernelAgrees
<1>4. Pipe \in DOMAIN cb => interest'[Pipe] = interest[Pipe]
  BY <1>1, <1>2, <1>3 DEF With
<1>5. Pipe \notin lost'
  BY <1>2 DEF ProgramInv, PipeInv, history
<1>6. PipeInv'
  BY <1>2, <1>4, <1>5, PipeKeeps DEF ProgramInv
<1> QED
  BY <1>1, <1>6 DEF ProgramInv, LoopTypeOK

LEMMA DelOther ==
  ASSUME ProgramInv, NEW f \in Other, Del(f), UNCHANGED <<loop, wakeups>>
  PROVE  ProgramInv'
<1>1. CtrlInv' /\ f \in Fd /\ f # Pipe
  BY DelKeeps DEF ProgramInv, Other
<1>2. /\ UNCHANGED <<batch, lost, undefined, ready>>
      /\ cb' = Without(cb, f) /\ interest' = Without(interest, f)
  BY DEF Del, EPollCtlDel
<1>3. Pipe \in DOMAIN cb => Pipe \in DOMAIN interest
  BY DEF ProgramInv, CtrlInv, KernelAgrees
<1>4. /\ Pipe \in DOMAIN cb' <=> Pipe \in DOMAIN cb
      /\ Pipe \in DOMAIN cb => cb'[Pipe] = cb[Pipe] /\ interest'[Pipe] = interest[Pipe]
  BY <1>1, <1>2, <1>3 DEF Without
<1>5. Pipe \notin lost'
  BY <1>2 DEF ProgramInv, PipeInv
<1>6. PipeInv'
  BY <1>2, <1>4, <1>5, PipeKeeps DEF ProgramInv
<1> QED
  BY <1>1, <1>6 DEF ProgramInv, LoopTypeOK

\* Consume() by a user, and what may come to a descriptor that is not the pipe
LEMMA ReadyOther ==
  ASSUME ProgramInv, NEW f \in Other, NEW e \in Arrivals, Consume(f, e) \/ Arrive(f, e),
         UNCHANGED <<loop, wakeups>>
  PROVE  ProgramInv'
<1>1. f \in Fd /\ f # Pipe /\ Pipe \in Fd
  BY ClingelingAssumption DEF Other
<1>2. /\ rdlist' = rdlist \/ rdlist' = Listed(rdlist, f)
      /\ UNCHANGED <<ctrl, interest, batch, history, undefined>>
  BY DEF Consume, Arrive
<1>3. ready' \in [Fd -> SUBSET Arrivals] /\ ready'[Pipe] = ready[Pipe]
  <2>1. ready \in [Fd -> SUBSET Arrivals]
    BY DEF ProgramInv, CtrlInv, EPollTypeOK
  <2> QED
    BY <1>1, <2>1 DEF Consume, Arrive
<1>4. CtrlInv'
  BY <1>1, <1>2, <1>3, ReadyKeeps DEF ProgramInv
<1>5. Pipe \notin lost' /\ cb' = cb
  BY <1>2 DEF ProgramInv, PipeInv, history, ctrl
<1>6. PipeInv'
  BY <1>2, <1>3, <1>5, PipeKeeps DEF ProgramInv
<1> QED
  BY <1>4, <1>6 DEF ProgramInv, LoopTypeOK

LEMMA TriggerKeeps ==
  ASSUME ProgramInv, Trigger
  PROVE  ProgramInv'
<1>1. /\ wakeups < PipeSize /\ wakeups' = wakeups + 1
      /\ ready' = [ready EXCEPT ![Pipe] = @ \cup {"In"}]
      /\ rdlist' = rdlist \/ rdlist' = Listed(rdlist, Pipe)
      /\ UNCHANGED <<ctrl, interest, batch, history, undefined, loop>>
  BY DEF Trigger
<1>2. wakeups \in 0..PipeSize /\ PipeSize \in Nat /\ Pipe \in Fd /\ "In" \in Arrivals
  BY ClingelingAssumption DEF ProgramInv, LoopTypeOK
<1>3. ready' \in [Fd -> SUBSET Arrivals] /\ ready'[Pipe] = {"In"}
  <2>1. ready \in [Fd -> SUBSET Arrivals] /\ ready[Pipe] \subseteq {"In"}
    BY DEF ProgramInv, CtrlInv, EPollTypeOK, PipeInv
  <2>2. ready'[Pipe] = ready[Pipe] \cup {"In"}
    BY <1>1, <1>2, <2>1
  <2>3. ready' \in [Fd -> SUBSET Arrivals]
    BY <1>1, <1>2, <2>1
  <2> QED
    BY <2>1, <2>2, <2>3
<1>4. CtrlInv'
  BY <1>1, <1>2, <1>3, ReadyKeeps DEF ProgramInv
<1>5. LoopTypeOK' /\ wakeups' > 0
  BY <1>1, <1>2 DEF ProgramInv, LoopTypeOK
<1>6. PipeInv'
  BY <1>1, <1>3, <1>5 DEF ProgramInv, PipeInv, batch, history, ctrl
<1> QED
  BY <1>4, <1>5, <1>6 DEF ProgramInv

LEMMA StartKeeps ==
  ASSUME ProgramInv, Start
  PROVE  ProgramInv'
<1>1. /\ loop = "starting" /\ loop' = "running" /\ wakeups' = wakeups
      /\ Add(Pipe, {"In"}) /\ Pipe \in Fd
  BY ClingelingAssumption DEF Start
<1>2. /\ UNCHANGED <<batch, history, undefined, ready>>
      /\ cb' = With(cb, Pipe, created')
      /\ interest' = With(interest, Pipe, [ptr |-> created', ev |-> {"In"}])
      /\ created < MaxCallbacks /\ created' = created + 1
      /\ EPollCtlSet(Pipe, created', {"In"}) /\ Pipe \notin DOMAIN interest
  BY <1>1 DEF Add, EPollCtlSet
<1>3. CtrlInv' /\ created' \in Callback
  <2>1. {"In"} \in Events
    BY DEF Events, Event
  <2> QED
    BY <1>1, <2>1, AddKeeps DEF ProgramInv
<1>4. /\ Pipe \in DOMAIN cb' /\ cb'[Pipe] = created' /\ interest'[Pipe].ev = {"In"}
  BY <1>2 DEF With
<1>5. events' = << >> /\ running' = Idle
  BY <1>1, <1>2 DEF ProgramInv, PipeInv, batch
<1>6. ~PipeCalled'
  <2>1. created' # 0
    BY <1>3 DEF Callback
  <2> QED
    BY <1>4, <1>5, <2>1 DEF PipeCalled, Idle
<1>7. PipeInv'
  BY <1>1, <1>2, <1>4, <1>5, <1>6 DEF ProgramInv, PipeInv, history
<1> QED
  BY <1>1, <1>3, <1>7 DEF ProgramInv, LoopTypeOK

\* The pipe's callback can read: the loop, and what it calls
LEMMA WakeupKeeps ==
  ASSUME ProgramInv, HandleWakeup
  PROVE  ProgramInv' /\ running # Idle
<1>1. /\ Pipe \in DOMAIN cb /\ running.ptr = cb[Pipe]
      /\ wakeups' = wakeups - 1 /\ loop' = "stopping" /\ running' = Idle /\ events' = events
      /\ ready' = [ready EXCEPT ![Pipe] = IF wakeups' = 0 THEN {} ELSE @]
      /\ UNCHANGED <<ctrl, interest, rdlist, history, undefined>>
  BY DEF HandleWakeup, PipeRuns
<1>2. wakeups > 0 /\ wakeups \in 0..PipeSize /\ PipeSize \in Nat
  BY <1>1, ClingelingAssumption DEF ProgramInv, PipeInv, PipeCalled, LoopTypeOK
<1>3. running # Idle
  <2>1. cb[Pipe] # 0
    BY <1>1, EPollAssumption DEF ProgramInv, CtrlInv, EPollTypeOK
  <2> QED
    BY <1>1, <2>1 DEF Idle
<1>4. /\ ready' \in [Fd -> SUBSET Arrivals] /\ Pipe \in Fd
      /\ ready'[Pipe] = IF wakeups' = 0 THEN {} ELSE ready[Pipe]
  <2>1. ready \in [Fd -> SUBSET Arrivals] /\ Pipe \in Fd
    BY ClingelingAssumption DEF ProgramInv, CtrlInv, EPollTypeOK
  <2> QED
    BY <1>1, <2>1
<1>5. CtrlInv'
  <2> USE DEF ProgramInv, CtrlInv
  <2>1. Len(events) < MaxEvents
    BY <1>3 DEF EPollTypeOK
  <2>2. EPollTypeOK'
    BY <1>1, <1>4, <2>1 DEF EPollTypeOK, ctrl, history
  <2>3. KernelAgrees' /\ StaleOnlyInItsBatch' /\ PointersApart'
    BY <1>1 DEF KernelAgrees, StaleOnlyInItsBatch, Alive, PointersApart, ctrl, history
  <2>4. BatchApart'
    <3>1. \A i \in DOMAIN events : events[i].ptr # 0
      BY EventFacts
    <3>2. running'.ptr = 0 /\ created' = created
      BY <1>1 DEF Idle, ctrl
    <3> QED
      BY <1>1, <3>1, <3>2 DEF BatchApart
  <2> QED
    BY <2>2, <2>3, <2>4
<1>6. LoopTypeOK'
  BY <1>1, <1>2 DEF LoopTypeOK
<1>7. ~PipeCalled'
  <2>1. \A i \in DOMAIN events : events[i].ptr # cb[Pipe]
    BY <1>1 DEF ProgramInv, CtrlInv, BatchApart
  <2>2. cb[Pipe] # 0
    BY <1>1, EPollAssumption DEF ProgramInv, CtrlInv, EPollTypeOK
  <2> QED
    BY <1>1, <2>1, <2>2 DEF PipeCalled, Idle, ctrl
<1>8. PipeInv'
  <2>1. "In" \in ready'[Pipe] <=> wakeups' > 0
    BY <1>1, <1>2, <1>4 DEF ProgramInv, PipeInv
  <2> QED
    BY <1>1, <1>4, <1>7, <2>1 DEF ProgramInv, PipeInv, ctrl, history
<1> QED
  BY <1>3, <1>5, <1>6, <1>8 DEF ProgramInv

LEMMA EndOther ==
  ASSUME ProgramInv, UserReturns \/ UserThrows
  PROVE  ProgramInv' /\ running # Idle
<1>1. /\ running' = Idle /\ running # Idle
      /\ events' = events \/ events' = << >>
      /\ loop \in {"running", "stopping"} /\ loop' \in {loop, "thrown"}
      /\ UNCHANGED <<ctrl, kernel, history, undefined, wakeups>>
  BY DEF UserReturns, UserThrows, UserRuns, InLoop, Return, CallbackThrows
<1>2. CtrlInv'
  BY <1>1, EndKeeps DEF ProgramInv
<1>3. LoopTypeOK'
  BY <1>1 DEF ProgramInv, LoopTypeOK
<1>4. PipeCalled' => PipeCalled
  <2>1. Pipe \in DOMAIN cb => cb[Pipe] # 0
    BY EPollAssumption DEF ProgramInv, CtrlInv, EPollTypeOK
  <2> QED
    BY <1>1, <2>1 DEF PipeCalled, Idle, ctrl
<1>5. PipeInv'
  BY <1>1, <1>4 DEF ProgramInv, PipeInv, ctrl, kernel, history
<1> QED
  BY <1>1, <1>2, <1>3, <1>5 DEF ProgramInv

LEMMA LoopWaitKeeps ==
  ASSUME ProgramInv, LoopWait
  PROVE  ProgramInv'
<1>1. Wait /\ loop = "running" /\ UNCHANGED <<loop, wakeups>>
  BY DEF LoopWait
<1>2. CtrlInv /\ CtrlInv'
  BY <1>1, WaitKeeps DEF ProgramInv
<1>3. PICK taken \in Seq(Fd) :
        /\ DOMAIN taken = DOMAIN events'
        /\ \A i \in DOMAIN taken :
             /\ taken[i] \in DOMAIN interest
             /\ events'[i].ptr = interest[taken[i]].ptr
             /\ Pending(interest, taken[i], ready[taken[i]]) # {}
  BY <1>1, <1>2, WaitFacts
<1>4. running = Idle /\ UNCHANGED <<ctrl, interest, ready, running, lost, undefined>>
  BY <1>1, <1>2, WaitFacts
<1>5. PipeCalled' => wakeups' > 0
  <2> SUFFICES ASSUME PipeCalled' PROVE "In" \in ready[Pipe]
    BY <1>1 DEF ProgramInv, PipeInv
  <2>1. Pipe \in DOMAIN cb /\ cb[Pipe] # 0
    BY <1>4, EPollAssumption DEF PipeCalled, ctrl, CtrlInv, ProgramInv, EPollTypeOK
  <2>2. PICK i \in DOMAIN events' : events'[i].ptr = cb[Pipe]
    BY <1>4, <2>1 DEF PipeCalled, ctrl, Idle
  <2>3. taken[i] \in DOMAIN interest /\ interest[taken[i]].ptr = cb[Pipe]
    BY <1>3, <2>2
  <2>4. Pipe \in DOMAIN interest /\ interest[Pipe].ptr = cb[Pipe]
    BY <2>1, <1>2 DEF CtrlInv, KernelAgrees
  <2>5. taken[i] = Pipe
    BY <2>3, <2>4, <1>2 DEF CtrlInv, PointersApart
  <2>6. Pending(interest, Pipe, ready[Pipe]) # {}
    BY <1>3, <2>2, <2>5
  <2>7. ready[Pipe] # {} /\ ready[Pipe] \subseteq {"In"}
    BY <2>6 DEF Pending, ProgramInv, PipeInv
  <2> QED
    BY <2>7
<1>6. PipeInv'
  BY <1>1, <1>4, <1>5 DEF ProgramInv, PipeInv, ctrl
<1> QED
  BY <1>1, <1>2, <1>6 DEF ProgramInv, LoopTypeOK

LEMMA LoopDispatchKeeps ==
  ASSUME ProgramInv, LoopDispatch
  PROVE  ProgramInv'
<1>1. UNCHANGED <<loop, wakeups>> /\ loop # "starting"
  BY DEF LoopDispatch, InLoop
<1>2. CASE Dispatch
  <2>1. CtrlInv'
    BY <1>2, DispatchKeeps DEF ProgramInv
  <2>2. /\ events # << >> /\ running' = Head(events) /\ events' = Tail(events) /\ ~undefined
        /\ UNCHANGED <<ctrl, kernel, history, undefined>>
    BY <1>2 DEF Dispatch, InDispatch
  <2>3. events \in Seq(Call)
    BY DEF ProgramInv, CtrlInv, EPollTypeOK
  <2>4. /\ running' = events[1] /\ 1 \in DOMAIN events
        /\ \A i \in DOMAIN events' : events'[i] = events[i + 1] /\ i + 1 \in DOMAIN events
    BY <2>2, <2>3
  <2>5. PipeCalled' => PipeCalled
    BY <2>2, <2>4 DEF PipeCalled, ctrl
  <2>6. PipeInv'
    BY <1>1, <2>2, <2>5 DEF ProgramInv, PipeInv, ctrl, kernel, history
  <2> QED
    BY <1>1, <2>1, <2>6 DEF ProgramInv, LoopTypeOK
<1>3. CASE DispatchFreed
  <2>1. CtrlInv' /\ running = Idle
    BY <1>3, DispatchFreedKeeps DEF ProgramInv
  <2>2. UNCHANGED <<ctrl, kernel, batch, history>>
    BY <1>3 DEF DispatchFreed
  <2>3. PipeInv'
    BY <1>1, <2>1, <2>2 DEF ProgramInv, PipeInv, PipeCalled, ctrl, kernel, history, batch
  <2> QED
    BY <1>1, <2>1, <2>3 DEF ProgramInv, LoopTypeOK
<1> QED
  BY <1>2, <1>3 DEF LoopDispatch

\* The callback that runs goes on without its closure.
LEMMA UsesFreedKeeps ==
  ASSUME ProgramInv, UserUsesFreed
  PROVE  ProgramInv'
<1>1. /\ UNCHANGED <<ctrl, kernel, batch, history>> /\ UNCHANGED <<loop, wakeups>>
      /\ undefined' = TRUE
  BY DEF UserUsesFreed, RunsFreed
<1>2. CtrlInv'
  BY <1>1 DEF ProgramInv, CtrlInv, EPollTypeOK, KernelAgrees, StaleOnlyInItsBatch, Alive,
              PointersApart, BatchApart, ctrl, kernel, batch, history
<1>3. PipeInv'
  BY <1>1 DEF ProgramInv, PipeInv, PipeCalled, ctrl, kernel, batch, history
<1> QED
  BY <1>1, <1>2, <1>3 DEF ProgramInv, LoopTypeOK

\* The loop alone: trigger() blocks, or the loop ends.
LEMMA LoopKeeps ==
  ASSUME ProgramInv, loop \in {"running", "stopping"}, loop' \in {"blocked", "returned"},
         UNCHANGED <<epollVars, wakeups>>
  PROVE  ProgramInv'
<1>1. CtrlInv'
  BY DEF ProgramInv, CtrlInv, EPollTypeOK, KernelAgrees, StaleOnlyInItsBatch, Alive,
         PointersApart, BatchApart, epollVars, ctrl, kernel, batch, history
<1>2. PipeInv'
  BY DEF ProgramInv, PipeInv, PipeCalled, epollVars, ctrl, kernel, batch, history
<1> QED
  BY <1>1, <1>2 DEF ProgramInv, LoopTypeOK

LEMMA NextKeeps ==
  ASSUME ProgramInv, [Next]_vars
  PROVE  ProgramInv'
<1>1. CASE Setup
  BY <1>1, AddOther DEF Setup
<1>2. CASE UseCtrl
  BY <1>2, AddOther, AddFailsOther, ModOther, DelOther, ReadyOther DEF UseCtrl
<1>3. CASE Trigger
  BY <1>3, TriggerKeeps
<1>4. CASE TriggerBlocks
  BY <1>4, LoopKeeps DEF TriggerBlocks, UserRuns, InLoop
<1>5. CASE Start
  BY <1>5, StartKeeps
<1>6. CASE HandleWakeup
  BY <1>6, WakeupKeeps
<1>7. CASE UserReturns \/ UserThrows
  BY <1>7, EndOther
<1>8. CASE LoopWait
  BY <1>8, LoopWaitKeeps
<1>9. CASE LoopDispatch
  BY <1>9, LoopDispatchKeeps
<1>10. CASE LoopEnds
  BY <1>10, LoopKeeps DEF LoopEnds
<1>11. CASE Environment
  BY <1>11, ReadyOther DEF Environment
<1>12. CASE UNCHANGED vars
  BY <1>12 DEF vars, ProgramInv, LoopTypeOK, PipeInv, PipeCalled, CtrlInv, EPollTypeOK,
               KernelAgrees, StaleOnlyInItsBatch, Alive, PointersApart, BatchApart,
               epollVars, ctrl, kernel, batch, history
<1>13. CASE UserUsesFreed
  BY <1>13, UsesFreedKeeps
<1> QED
  BY <1>1, <1>2, <1>3, <1>4, <1>5, <1>6, <1>7, <1>8, <1>9, <1>10, <1>11, <1>12, <1>13
  DEF Next

LEMMA AlwaysProgramInv ==
  Spec => []ProgramInv
<1>1. ProgramInv /\ [Next]_vars => ProgramInv'
  BY NextKeeps
<1> QED
  BY InitInv, <1>1, PTL DEF Spec

-------------------------------------------------------------------------------
(* Theorems *)

\* The state keeps its types, through any adding, deleting and modifying from
\* inside callbacks: a batch never exceeds the array of wait(), and the pipe is
\* readable exactly while a wakeup is in it.
THEOREM ClingelingTypeCorrect ==
  Spec => []TypeOK
<1>1. ProgramInv => TypeOK
  BY DEF ProgramInv, CtrlInv, LoopTypeOK, PipeInv, TypeOK
<1> QED
  BY AlwaysProgramInv, <1>1, PTL

\* The map of callbacks and the epoll set agree about descriptors and pointers,
\* but for an add() that got no memory (add(), del(), mod() of epoll-ctrl.cc).
THEOREM KernelAgreesHolds ==
  Spec => []KernelAgrees
<1>1. ProgramInv => KernelAgrees
  BY DEF ProgramInv, CtrlInv
<1> QED
  BY AlwaysProgramInv, <1>1, PTL

\* A pointer that wait() follows is that of a registered callback, or of one that
\* was deleted while this batch is dispatched, or of an add() that got no memory.
THEOREM StaleOnlyInItsBatchHolds ==
  Spec => []StaleOnlyInItsBatch
<1>1. ProgramInv => StaleOnlyInItsBatch
  BY DEF ProgramInv, CtrlInv
<1> QED
  BY AlwaysProgramInv, <1>1, PTL

-------------------------------------------------------------------------------
(* The promise of the interface *)

\* The callback that runs is registered, unless a callback was deleted meanwhile.
RunsAlive == running # Idle => Alive(running.ptr) \/ deleted # {}

\* The same callback runs, if any does, and callbacks were at most added.
LEMMA RunsOn ==
  ASSUME RunsAlive, running' = running \/ running' = Idle, deleted' = deleted,
         \A f \in DOMAIN cb : f \in DOMAIN cb' /\ cb'[f] = cb[f]
  PROVE  RunsAlive'
BY DEF RunsAlive, Alive

LEMMA AddRunsOn ==
  ASSUME ProgramInv, RunsAlive, NEW f, NEW ev, Add(f, ev)
  PROVE  RunsAlive'
<1>1. f \notin DOMAIN cb /\ cb' = With(cb, f, created') /\ running' = running /\ deleted' = deleted
  BY DEF Add, batch, history, ProgramInv, CtrlInv, KernelAgrees
<1> QED
  BY <1>1, RunsOn DEF With

LEMMA NextRunsAlive ==
  ASSUME ProgramInv, RunsAlive, [Next]_vars
  PROVE  RunsAlive'
<1> USE DEF ctrl, batch, history, epollVars
<1>1. CASE Setup
  BY <1>1, AddRunsOn DEF Setup
<1>2. CASE UseCtrl
  <2>1. PICK f \in Other :
          \/ \E ev \in Interests : Add(f, ev) \/ AddFailsLate(f, ev) \/ Mod(f, ev)
          \/ Del(f)
          \/ \E e \in Arrivals : Consume(f, e)
    BY <1>2 DEF UseCtrl
  <2>2. CASE \E ev \in Interests : Add(f, ev)
    BY <2>2, AddRunsOn
  <2>3. CASE \E ev \in Interests : AddFailsLate(f, ev)
    BY <2>3, RunsOn DEF AddFailsLate
  <2>4. CASE Del(f)
    <3>1. CASE running = Idle
      BY <2>4, <3>1 DEF Del, RunsAlive
    <3>2. CASE running # Idle
      BY <2>4, <3>2 DEF Del, RunsAlive
    <3> QED
      BY <3>1, <3>2
  <2>5. CASE (\E ev \in Interests : Mod(f, ev)) \/ (\E e \in Arrivals : Consume(f, e))
    BY <2>5, RunsOn DEF Mod, Consume
  <2> QED
    BY <2>1, <2>2, <2>3, <2>4, <2>5
<1>3. CASE Start
  BY <1>3, AddRunsOn DEF Start
<1>4. CASE LoopWait
  BY <1>4 DEF LoopWait, Wait, RunsAlive
<1>5. CASE LoopDispatch /\ Dispatch
  <2>1. Alive(running'.ptr) /\ cb' = cb
    BY <1>5 DEF Dispatch
  <2> QED
    BY <2>1 DEF RunsAlive, Alive
<1>6. CASE LoopDispatch /\ DispatchFreed
  BY <1>6, RunsOn DEF DispatchFreed
<1>7. CASE \/ Trigger \/ TriggerBlocks \/ HandleWakeup \/ UserUsesFreed \/ UserReturns
           \/ UserThrows \/ LoopEnds \/ Environment \/ UNCHANGED vars
  BY <1>7, RunsOn DEF Trigger, TriggerBlocks, HandleWakeup, UserUsesFreed, RunsFreed, UserReturns,
                      UserThrows, Return, CallbackThrows, LoopEnds, Environment, Arrive, vars
<1> QED
  BY <1>1, <1>2, <1>3, <1>4, <1>5, <1>6, <1>7 DEF Next, LoopDispatch

LEMMA AlwaysRunsAlive == Spec => []RunsAlive
<1>1. Init => RunsAlive
  BY DEF Init, EPollInit, RunsAlive
<1>2. ProgramInv /\ RunsAlive /\ [Next]_vars => RunsAlive'
  BY NextRunsAlive
<1> QED
  BY <1>1, <1>2, AlwaysProgramInv, PTL DEF Spec

Still == UNCHANGED <<cb, running, deleted, lost, undefined>>

\* What a step of the controller is to those who know the interface only
LEMMA AddRegisters ==
  ASSUME ProgramInv, NEW f \in Fd, NEW ev \in Events, Add(f, ev)
  PROVE  Promise!Next
<1>1. /\ f \notin DOMAIN cb /\ created' \in Callback /\ \A g \in DOMAIN cb : cb[g] # created'
  BY AddKeeps DEF ProgramInv
<1>2. /\ cb' = With(cb, f, created') /\ running' = running /\ deleted' = deleted /\ lost' = lost
      /\ ~undefined /\ undefined' = undefined
  BY DEF Add, MayAct, batch, history
<1>3. Promise!Register
  BY <1>1, <1>2 DEF Promise!Register, With
<1> QED
  BY <1>2, <1>3 DEF Promise!Next

LEMMA AddFailsFaults ==
  ASSUME NEW f, NEW ev, AddFailsLate(f, ev)
  PROVE  Promise!Next
<1>1. /\ cb' = cb /\ running' = running /\ deleted' = deleted /\ lost' = lost \cup {f}
      /\ ~undefined /\ undefined' = undefined
  BY DEF AddFailsLate, MayAct, batch
<1>2. lost' # {}
  BY <1>1
<1>3. Promise!Fault
  BY <1>1, <1>2 DEF Promise!Fault
<1> QED
  BY <1>1, <1>3 DEF Promise!Next

LEMMA DelUnregisters ==
  ASSUME NEW f, Del(f)
  PROVE  Promise!Next
<1>1. /\ f \in DOMAIN cb /\ cb' = Without(cb, f) /\ running' = running /\ lost' = lost
      /\ deleted' = deleted \/ deleted' = deleted \cup {cb[f]}
      /\ ~undefined /\ undefined' = undefined
  BY DEF Del, MayAct, batch
<1>2. (deleted' # {}) = (deleted # {}) \/ (deleted' # {}) = TRUE
  BY <1>1
<1>3. (deleted' # {}) \in {deleted # {}, TRUE}
  BY <1>2
<1>4. Promise!Unregister
  BY <1>1, <1>3 DEF Promise!Unregister, Without
<1> QED
  BY <1>1, <1>4 DEF Promise!Next

LEMMA DispatchCalls ==
  ASSUME ProgramInv, Dispatch
  PROVE  Promise!Next
<1>1. /\ running = Idle /\ Alive(Head(events).ptr) /\ running' = Head(events)
      /\ cb' = cb /\ deleted' = deleted /\ lost' = lost /\ ~undefined /\ undefined' = undefined
  BY DEF Dispatch, InDispatch, ctrl, history
<1>2. PICK f \in DOMAIN cb : cb[f] = running'.ptr
  BY <1>1 DEF Alive
<1>3. running.ptr = 0
  BY <1>1 DEF Idle
<1>4. Promise!Call
  BY <1>1, <1>2, <1>3 DEF Promise!Call
<1> QED
  BY <1>1, <1>4 DEF Promise!Next

LEMMA DispatchFreedBreaks ==
  ASSUME ProgramInv, DispatchFreed
  PROVE  Promise!Next
<1>1. deleted # {} \/ lost # {}
  BY DispatchFreedKeeps DEF ProgramInv
<1>2. /\ ~undefined /\ undefined' = TRUE
      /\ cb' = cb /\ running' = running /\ deleted' = deleted /\ lost' = lost
  BY DEF DispatchFreed, ctrl, batch, history
<1>3. Promise!Break
  BY <1>1, <1>2 DEF Promise!Break
<1> QED
  BY <1>2, <1>3 DEF Promise!Next

LEMMA UsesFreedBreaks ==
  ASSUME RunsAlive, RunsFreed
  PROVE  Promise!Next
<1>1. deleted # {} /\ ~undefined /\ undefined' = TRUE
  BY DEF RunsFreed, RunsAlive
<1>2. cb' = cb /\ running' = running /\ deleted' = deleted /\ lost' = lost
  BY DEF RunsFreed, ctrl, batch, history
<1>3. Promise!Break
  BY <1>1, <1>2 DEF Promise!Break
<1> QED
  BY <1>1, <1>3 DEF Promise!Next

LEMMA EndIsDone ==
  ASSUME ProgramInv, running # Idle, running' = Idle, UNCHANGED <<cb, deleted, lost, undefined>>,
         ~undefined
  PROVE  Promise!Next
<1>2. running \in Call
  BY DEF ProgramInv, CtrlInv, EPollTypeOK
<1>3. running.ptr # 0 /\ running'.ptr = 0
  BY <1>2, EPollAssumption DEF Call, Callback, Idle
<1>4. (deleted' # {}) \in {deleted # {}, FALSE}
  OBVIOUS
<1>5. Promise!Done
  BY <1>3, <1>4 DEF Promise!Done
<1> QED
  BY <1>5 DEF Promise!Next

LEMMA WaitIsNextBatch ==
  ASSUME Wait
  PROVE  Promise!Next
<1>1. /\ cb' = cb /\ running' = running /\ deleted' = {} /\ lost' = lost
      /\ ~undefined /\ undefined' = undefined
  BY DEF Wait, MayAct, ctrl
<1>2. Promise!NextBatch
  BY <1>1 DEF Promise!NextBatch
<1> QED
  BY <1>1, <1>2 DEF Promise!Next

LEMMA StillStutters ==
  Still => UNCHANGED Promise!vars
BY DEF Still, Promise!vars

LEMMA NextImplements ==
  ASSUME ProgramInv, RunsAlive, [Next]_vars
  PROVE  [Promise!Next]_(Promise!vars)
<1> USE DEF ctrl, kernel, batch, history, epollVars
<1>1. CASE Setup
  BY <1>1, AddRegisters, EPollAssumption DEF Setup, Other
<1>2. CASE UseCtrl
  <2>1. PICK f \in Other :
          \/ \E ev \in Interests : Add(f, ev) \/ AddFailsLate(f, ev) \/ Mod(f, ev)
          \/ Del(f)
          \/ \E e \in Arrivals : Consume(f, e)
    BY <1>2 DEF UseCtrl
  <2>2. CASE \E ev \in Interests : Add(f, ev)
    BY <2>2, AddRegisters, EPollAssumption DEF Other
  <2>3. CASE \E ev \in Interests : AddFailsLate(f, ev)
    BY <2>3, AddFailsFaults
  <2>4. CASE Del(f)
    BY <2>4, DelUnregisters
  <2>5. CASE (\E ev \in Interests : Mod(f, ev)) \/ (\E e \in Arrivals : Consume(f, e))
    BY <2>5, StillStutters DEF Still, Mod, Consume
  <2> QED
    BY <2>1, <2>2, <2>3, <2>4, <2>5
<1>3. CASE Trigger \/ TriggerBlocks \/ LoopEnds
  BY <1>3, StillStutters DEF Still, Trigger, TriggerBlocks, LoopEnds
<1>4. CASE Start
  <2>1. {"In"} \in Events
    BY DEF Events, Event
  <2> QED
    BY <1>4, <2>1, AddRegisters, ClingelingAssumption DEF Start
<1>5. CASE HandleWakeup
  <2>1. running # Idle
    BY <1>5, WakeupKeeps
  <2> QED
    BY <1>5, <2>1, EndIsDone DEF HandleWakeup
<1>6. CASE UserReturns \/ UserThrows
  <2>1. running # Idle
    BY <1>6, EndOther
  <2> QED
    BY <1>6, <2>1, EndIsDone DEF UserReturns, UserThrows, Return, CallbackThrows
<1>7. CASE LoopWait
  BY <1>7, WaitIsNextBatch DEF LoopWait
<1>8. CASE LoopDispatch
  BY <1>8, DispatchCalls, DispatchFreedBreaks DEF LoopDispatch
<1>9. CASE Environment
  BY <1>9, StillStutters DEF Still, Environment, Arrive
<1>10. CASE UNCHANGED vars
  BY <1>10, StillStutters DEF Still, vars
<1>11. CASE UserUsesFreed
  BY <1>11, UsesFreedBreaks DEF UserUsesFreed
<1> QED
  BY <1>1, <1>2, <1>3, <1>4, <1>5, <1>6, <1>7, <1>8, <1>9, <1>10, <1>11 DEF Next

\* The loop and its controller do what the interface promises: one callback at a
\* time, and only while it is registered.  They may break the promise only in a
\* batch in which a descriptor was deleted, or after an add() that got no memory.
THEOREM ClingelingImplementsPoller ==
  Spec => ImplementsPoller
<1>1. Init => Promise!Init
  BY DEF Init, EPollInit, Promise!Init, Idle
<1>2. ProgramInv /\ RunsAlive /\ [Next]_vars => [Promise!Next]_(Promise!vars)
  BY NextImplements
<1> QED
  BY AlwaysProgramInv, AlwaysRunsAlive, <1>1, <1>2, PTL DEF Spec, ImplementsPoller, Promise!Spec

-------------------------------------------------------------------------------
(* The order in which descriptors are served *)

\* The descriptors that are before f in a list.
InFrontOf(s, f) == {g \in Fd : \E i, j \in DOMAIN s : i < j /\ s[i] = g /\ s[j] = f}

IsReady(f) == f \in DOMAIN interest /\ Pending(interest, f, ready[f]) # {}

\* The kernel's list has every descriptor that has something to tell.
ReadyIsListed == \A f \in Fd : IsReady(f) => f \in ToSet(rdlist)

KeepsPlaces == \A f \in ToSet(rdlist) : InFrontOf(rdlist', f) \subseteq InFrontOf(rdlist, f)

\* The batch that wait() has just taken has an event for f.
TakenNow(f) == \E i \in DOMAIN events' : events'[i].ptr = interest[f].ptr

\* A ready descriptor that wait() does not take gets nearer to the front, and no
\* other step puts anyone before it.
NobodyOvertakes ==
  \A f \in Fd : IsReady(f) =>
     IF LoopWait
     THEN \/ TakenNow(f)
          \/ /\ InFrontOf(rdlist', f) \subseteq InFrontOf(rdlist, f)
             /\ InFrontOf(rdlist', f) # InFrontOf(rdlist, f)
     ELSE InFrontOf(rdlist', f) \subseteq InFrontOf(rdlist, f)

LEMMA OnlyKeepsPlaces ==
  ASSUME NEW s \in Seq(Fd), NEW T
  PROVE  /\ \A f \in ToSet(s) : f \in T => f \in ToSet(Only(s, T))
         /\ \A f : InFrontOf(Only(s, T), f) \subseteq InFrontOf(s, f)
<1>1. PICK o \in Seq(Fd) : o = Only(s, T)
  <2>1. Only(s, T) \in Seq(Fd \cap T)
    BY OnlyType
  <2> QED
    BY <2>1
<1>2. PICK at \in [1..Len(o) -> 1..Len(s)] :
         /\ \A n \in 1..Len(o) : o[n] = s[at[n]]
         /\ \A m, n \in 1..Len(o) : m < n => at[m] < at[n]
         /\ \A i \in 1..Len(s) : s[i] \in T => \E n \in 1..Len(o) : at[n] = i
  BY <1>1, OnlyPositions
<1>3. DOMAIN o = 1..Len(o) /\ DOMAIN s = 1..Len(s)
  OBVIOUS
<1>4. \A f \in ToSet(s) : f \in T => f \in ToSet(o)
  <2> SUFFICES ASSUME NEW i \in DOMAIN s, s[i] \in T
               PROVE  \E n \in DOMAIN o : o[n] = s[i]
    BY DEF ToSet
  <2> QED
    BY <1>2, <1>3
<1>5. ASSUME NEW f
      PROVE  InFrontOf(o, f) \subseteq InFrontOf(s, f)
  <2> SUFFICES ASSUME NEW i \in DOMAIN o, NEW j \in DOMAIN o, i < j, o[j] = f
               PROVE  \E k, l \in DOMAIN s : k < l /\ s[k] = o[i] /\ s[l] = f
    BY DEF InFrontOf
  <2>1. /\ at[i] \in DOMAIN s /\ at[j] \in DOMAIN s /\ at[i] < at[j]
        /\ o[i] = s[at[i]] /\ o[j] = s[at[j]]
    BY <1>2, <1>3
  <2> QED
    BY <2>1
<1> QED
  BY <1>1, <1>4, <1>5

LEMMA ListedKeepsPlaces ==
  ASSUME NEW s \in Seq(Fd), NEW f \in Fd
  PROVE  /\ f \in ToSet(Listed(s, f)) /\ ToSet(s) \subseteq ToSet(Listed(s, f))
         /\ \A g \in ToSet(s) : InFrontOf(Listed(s, f), g) \subseteq InFrontOf(s, g)
<1>1. CASE f \in ToSet(s)
  BY <1>1 DEF Listed
<1>2. CASE f \notin ToSet(s)
  <2>1. PICK t : t = Append(s, f)
    OBVIOUS
  <2>2. /\ Len(s) \in Nat /\ DOMAIN t = 1..Len(s) + 1 /\ DOMAIN s = 1..Len(s)
        /\ \A i \in 1..Len(s) : t[i] = s[i]
        /\ t[Len(s) + 1] = f
    BY <2>1
  <2>3. f \in ToSet(t) /\ ToSet(s) \subseteq ToSet(t)
    <3>1. \A i \in DOMAIN s : i \in DOMAIN t /\ t[i] = s[i]
      BY <2>2
    <3>2. Len(s) + 1 \in DOMAIN t
      BY <2>2
    <3> QED
      BY <2>2, <3>1, <3>2 DEF ToSet
  <2>4. ASSUME NEW g \in ToSet(s)
        PROVE  InFrontOf(t, g) \subseteq InFrontOf(s, g)
    <3> SUFFICES ASSUME NEW i \in DOMAIN t, NEW j \in DOMAIN t, i < j, t[j] = g
                 PROVE  \E k, l \in DOMAIN s : k < l /\ s[k] = t[i] /\ s[l] = g
      BY DEF InFrontOf
    <3>1. j # Len(s) + 1
      BY <1>2, <2>2, <2>4
    <3>2. i \in DOMAIN s /\ j \in DOMAIN s
      BY <2>2, <3>1
    <3> QED
      BY <2>2, <3>2
  <2> QED
    BY <1>2, <2>1, <2>3, <2>4 DEF Listed
<1> QED
  BY <1>1, <1>2

LEMMA ConcatFacts ==
  ASSUME NEW S, NEW a \in Seq(S), NEW b \in Seq(S), NEW c, c = a \o b
  PROVE  /\ c \in Seq(S) /\ Len(c) = Len(a) + Len(b)
         /\ \A i \in 1..Len(a) : c[i] = a[i]
         /\ \A i \in 1..Len(b) : c[Len(a) + i] = b[i]
  OBVIOUS

LEMMA PartFacts ==
  ASSUME NEW S, NEW s \in Seq(S), NEW n \in 1..Len(s)
  PROVE  /\ SubSeq(s, 1, n) \in Seq(S) /\ Len(SubSeq(s, 1, n)) = n
         /\ \A i \in 1..n : SubSeq(s, 1, n)[i] = s[i]
         /\ SubSeq(s, n + 1, Len(s)) \in Seq(S) /\ Len(SubSeq(s, n + 1, Len(s))) = Len(s) - n
         /\ \A i \in 1..Len(s) - n : SubSeq(s, n + 1, Len(s))[i] = s[n + i]
  OBVIOUS

\* t is s, with the first n moved behind the other m.
Turned(s, t, m, n) ==
  /\ t \in [1..(m + n) -> Fd] /\ s \in [1..(m + n) -> Fd]
  /\ \A i \in 1..m : t[i] = s[n + i]
  /\ \A i \in 1..n : t[m + i] = s[i]

\* All in s stay, and those that are not among the first n come nearer the front.
MovesOn(s, t, n) ==
  /\ ToSet(s) \subseteq ToSet(t)
  /\ \A f \in ToSet(s) :
       \/ \E i \in 1..n : s[i] = f
       \/ /\ InFrontOf(t, f) \subseteq InFrontOf(s, f)
          /\ InFrontOf(t, f) # InFrontOf(s, f)

LEMMA TurnFacts ==
  ASSUME NEW s \in Seq(Fd), NEW n \in 1..Len(s), NEW m, m = Len(s) - n, NEW t,
         t = SubSeq(s, n + 1, Len(s)) \o SubSeq(s, 1, n)
  PROVE  Turned(s, t, m, n)
<1>1. PICK a : a = SubSeq(s, n + 1, Len(s))
  OBVIOUS
<1>2. PICK b : b = SubSeq(s, 1, n)
  OBVIOUS
<1>4. m \in Nat /\ n \in Nat /\ Len(s) = m + n
  OBVIOUS
<1>5. /\ a \in Seq(Fd) /\ Len(a) = m /\ \A i \in 1..m : a[i] = s[n + i]
      /\ b \in Seq(Fd) /\ Len(b) = n /\ \A i \in 1..n : b[i] = s[i]
  <2>1. n \in 1..Len(s) /\ s \in Seq(Fd) /\ m = Len(s) - n
    OBVIOUS
  <2> QED
    BY ONLY <1>1, <1>2, <2>1, PartFacts
<1>6. t = a \o b
  BY <1>1, <1>2
<1>7. t \in Seq(Fd) /\ Len(t) = m + n
  BY ONLY <1>4, <1>5, <1>6, ConcatFacts
<1>8. \A i \in 1..m : t[i] = a[i]
  BY ONLY <1>4, <1>5, <1>6, ConcatFacts
<1>9. \A i \in 1..n : t[m + i] = b[i]
  BY ONLY <1>4, <1>5, <1>6, ConcatFacts
<1>10. t \in [1..(m + n) -> Fd] /\ s \in [1..(m + n) -> Fd]
  <2>1. t \in [1..Len(t) -> Fd]
    BY ONLY <1>7
  <2>2. s \in [1..Len(s) -> Fd]
    OBVIOUS
  <2> QED
    BY ONLY <1>4, <1>7, <2>1, <2>2
<1> QED
  BY ONLY <1>5, <1>8, <1>9, <1>10 DEF Turned

LEMMA Rotation ==
  ASSUME NEW m \in Nat, NEW n \in Nat \ {0}, NEW s, NEW t, Distinct(s), Turned(s, t, m, n)
  PROVE  MovesOn(s, t, n)
<1>1. s \in [1..(m + n) -> Fd] /\ t \in [1..(m + n) -> Fd]
  BY DEF Turned
<1>2. n >= 1
  OBVIOUS
<1>4. /\ \A i \in 1..m : t[i] = s[n + i]
      /\ \A i \in 1..n : t[m + i] = s[i]
  BY DEF Turned
<1>5. DOMAIN t = 1..(m + n) /\ DOMAIN s = 1..(m + n)
  BY <1>1
<1>6. ToSet(s) \subseteq ToSet(t)
  <2> SUFFICES ASSUME NEW i \in DOMAIN s
               PROVE  \E k \in DOMAIN t : t[k] = s[i]
    BY DEF ToSet
  <2>1. CASE i <= n
    <3>1. i \in 1..n /\ m + i \in DOMAIN t
      BY <1>2, <1>5, <2>1
    <3> QED
      BY <1>4, <3>1
  <2>2. CASE ~(i <= n)
    <3>1. i - n \in 1..m /\ i - n \in DOMAIN t /\ n + (i - n) = i
      BY <1>2, <1>5, <2>2
    <3>2. t[i - n] = s[n + (i - n)]
      BY <1>4, <3>1
    <3> QED
      BY <3>1, <3>2
  <2> QED
    BY <2>1, <2>2
<1>7. ASSUME NEW f \in ToSet(s), ~\E i \in 1..n : s[i] = f
      PROVE  /\ InFrontOf(t, f) \subseteq InFrontOf(s, f)
             /\ InFrontOf(t, f) # InFrontOf(s, f)
  <2>1. PICK k \in DOMAIN s : s[k] = f
    BY DEF ToSet
  <2>2. k > n
    BY <1>2, <1>5, <1>7, <2>1
  <2>3. ASSUME NEW j \in DOMAIN t, t[j] = f
        PROVE  j \in 1..m
    <3>1. CASE j > m
      <4>1. j - m \in 1..n /\ m + (j - m) = j
        BY <1>2, <1>5, <3>1
      <4>2. t[m + (j - m)] = s[j - m]
        BY <1>4, <4>1
      <4> QED
        BY <1>7, <2>3, <4>1, <4>2
    <3> QED
      BY <1>2, <1>5, <3>1
  <2>4. InFrontOf(t, f) \subseteq InFrontOf(s, f)
    <3> SUFFICES ASSUME NEW g \in InFrontOf(t, f)
                 PROVE  g \in InFrontOf(s, f)
      OBVIOUS
    <3>0. PICK i \in DOMAIN t, j \in DOMAIN t : i < j /\ t[i] = g /\ t[j] = f
      BY DEF InFrontOf
    <3>1. j \in 1..m /\ i \in 1..m
      BY <1>2, <1>5, <2>3, <3>0
    <3>2. n + i \in DOMAIN s /\ n + j \in DOMAIN s /\ n + i < n + j
      BY <1>2, <1>5, <3>0, <3>1
    <3>3. g = s[n + i] /\ f = s[n + j] /\ g \in Fd
      BY <1>4, <3>0, <3>1 DEF InFrontOf
    <3> QED
      BY <3>2, <3>3 DEF InFrontOf
  <2>5. s[1] \in InFrontOf(s, f)
    <3>1. 1 \in DOMAIN s /\ 1 < k /\ s[1] \in Fd
      BY <1>1, <1>2, <1>5, <2>2
    <3> QED
      BY <2>1, <3>1 DEF InFrontOf
  <2>6. s[1] \notin InFrontOf(t, f)
    <3> SUFFICES ASSUME s[1] \in InFrontOf(t, f)
                 PROVE  FALSE
      OBVIOUS
    <3>0. PICK i \in DOMAIN t, j \in DOMAIN t : i < j /\ t[i] = s[1] /\ t[j] = f
      BY DEF InFrontOf
    <3>1. i \in 1..m
      BY <1>2, <1>5, <2>3, <3>0
    <3>2. n + i \in DOMAIN s /\ 1 \in DOMAIN s /\ n + i # 1 /\ s[n + i] = s[1]
      BY <1>2, <1>4, <1>5, <3>0, <3>1
    <3> QED
      BY <3>2 DEF Distinct
  <2> QED
    BY <2>4, <2>5, <2>6
<1> QED
  BY <1>6, <1>7 DEF MovesOn

LEMMA TurnMovesOn ==
  ASSUME NEW s \in Seq(Fd), Distinct(s), NEW n \in 1..Len(s), NEW t,
         t = SubSeq(s, n + 1, Len(s)) \o SubSeq(s, 1, n)
  PROVE  MovesOn(s, t, n)
<1>0. PICK m \in Nat : m = Len(s) - n
  <2>1. Len(s) - n \in Nat
    OBVIOUS
  <2> QED
    BY <2>1
<1>1. Turned(s, t, m, n)
  BY <1>0, TurnFacts
<1>2. n \in Nat \ {0} /\ m \in Nat
  BY <1>0
<1> QED
  BY ONLY <1>1, <1>2, Distinct(s), Rotation

\* What every step but wait() does with the list.
Settles == ReadyIsListed' /\ KeepsPlaces

LEMMA ListFacts == CtrlInv => rdlist \in Seq(Fd) /\ Distinct(rdlist)
  BY DEF CtrlInv, EPollTypeOK, PointersApart, Distinct

LEMMA SetSettles ==
  ASSUME CtrlInv, ReadyIsListed, NEW f \in Fd, NEW ptr, NEW ev, EPollCtlSet(f, ptr, ev)
  PROVE  Settles
<1>1. /\ ready' = ready /\ rdlist \in Seq(Fd)
      /\ \A g \in DOMAIN interest' : g # f => g \in DOMAIN interest /\ interest'[g] = interest[g]
  <2>1. DOMAIN interest' = DOMAIN interest \cup {f}
    BY SetFacts
  <2>2. \A g \in DOMAIN interest : g # f => interest'[g] = interest[g]
    BY SetFacts
  <2>3. ready' = ready
    BY SetFacts
  <2> QED
    BY <2>1, <2>2, <2>3, ListFacts
<1>2. rdlist' = IF Pending(interest', f, ready[f]) = {} THEN rdlist ELSE Listed(rdlist, f)
  BY DEF EPollCtlSet
<1>3. ToSet(rdlist) \subseteq ToSet(rdlist') /\ KeepsPlaces
  BY <1>1, <1>2, ListedKeepsPlaces DEF KeepsPlaces
<1>4. ASSUME NEW g \in Fd, IsReady(g)'
      PROVE  g \in ToSet(rdlist')
  <2>0. g \in DOMAIN interest' /\ Pending(interest', g, ready[g]) # {}
    BY <1>1, <1>4 DEF IsReady
  <2>1. CASE g = f
    BY <1>1, <1>2, <2>0, <2>1, ListedKeepsPlaces
  <2>2. CASE g # f
    <3>1. IsReady(g)
      BY <1>1, <2>0, <2>2 DEF IsReady, Pending
    <3> QED
      BY <1>3, <3>1 DEF ReadyIsListed
  <2> QED
    BY <2>1, <2>2
<1> QED
  BY <1>3, <1>4 DEF Settles, ReadyIsListed

LEMMA DelSettles ==
  ASSUME CtrlInv, ReadyIsListed, NEW f \in Fd, EPollCtlDel(f)
  PROVE  Settles
<1>1. /\ ready' = ready /\ rdlist \in Seq(Fd) /\ interest' = Without(interest, f)
      /\ rdlist' = Only(rdlist, Fd \ {f})
  BY ListFacts DEF EPollCtlDel
<1>2. KeepsPlaces
  BY <1>1, OnlyKeepsPlaces DEF KeepsPlaces
<1>3. ASSUME NEW g \in Fd, IsReady(g)'
      PROVE  g \in ToSet(rdlist')
  <2>1. g # f /\ g \in DOMAIN interest /\ interest'[g] = interest[g]
    BY <1>1, <1>3 DEF IsReady, Without
  <2>2. IsReady(g)
    BY <1>1, <1>3, <2>1 DEF IsReady, Pending
  <2>3. g \in ToSet(rdlist) /\ g \in Fd \ {f}
    BY <2>1, <2>2 DEF ReadyIsListed
  <2> QED
    BY <1>1, <2>3, OnlyKeepsPlaces
<1> QED
  BY <1>2, <1>3 DEF Settles, ReadyIsListed

LEMMA EventSettles ==
  ASSUME CtrlInv, ReadyIsListed, NEW f \in Fd, NEW e,
         ready' = [ready EXCEPT ![f] = @ \cup {e}], interest' = interest,
         rdlist' = IF Pending(interest, f, {e}) = {} THEN rdlist ELSE Listed(rdlist, f)
  PROVE  Settles
<1>1. rdlist \in Seq(Fd) /\ DOMAIN ready = Fd
  BY ListFacts DEF CtrlInv, EPollTypeOK
<1>2. ToSet(rdlist) \subseteq ToSet(rdlist') /\ KeepsPlaces
  BY <1>1, ListedKeepsPlaces DEF KeepsPlaces
<1>3. ASSUME NEW g \in Fd, IsReady(g)'
      PROVE  g \in ToSet(rdlist')
  <2>1. CASE IsReady(g)
    BY <1>2, <2>1 DEF ReadyIsListed
  <2>2. CASE ~IsReady(g)
    <3>1. g \in DOMAIN interest /\ Pending(interest, g, ready'[g]) # {}
          /\ Pending(interest, g, ready[g]) = {}
      BY <1>3, <2>2 DEF IsReady
    <3>2. g = f
      BY <1>1, <3>1
    <3>3. ready'[f] = ready[f] \cup {e}
      BY <1>1
    <3>4. Pending(interest, f, {e}) # {}
      BY <3>1, <3>2, <3>3 DEF Pending
    <3> QED
      BY <1>1, <3>2, <3>4, ListedKeepsPlaces
  <2> QED
    BY <2>1, <2>2
<1> QED
  BY <1>2, <1>3 DEF Settles, ReadyIsListed

LEMMA LessSettles ==
  ASSUME CtrlInv, ReadyIsListed, interest' = interest, rdlist' = rdlist,
         \A g \in Fd : ready'[g] \subseteq ready[g]
  PROVE  Settles
<1>1. KeepsPlaces
  BY DEF KeepsPlaces
<1>2. ASSUME NEW g \in Fd, IsReady(g)'
      PROVE  g \in ToSet(rdlist')
  <2>1. IsReady(g)
    BY <1>2 DEF IsReady, Pending
  <2> QED
    BY <2>1 DEF ReadyIsListed
<1> QED
  BY <1>1, <1>2 DEF Settles, ReadyIsListed

\* wait() keeps what is ready in its list, and who is not in the batch moves on.
LEMMA WaitServes ==
  ASSUME CtrlInv, ReadyIsListed, Wait
  PROVE  /\ ReadyIsListed'
         /\ \A f \in Fd : IsReady(f) =>
              \/ TakenNow(f)
              \/ /\ InFrontOf(rdlist', f) \subseteq InFrontOf(rdlist, f)
                 /\ InFrontOf(rdlist', f) # InFrontOf(rdlist, f)
<1> DEFINE Held == {f \in Fd : Pending(interest, f, ready[f]) # {}}
<1> HIDE DEF Held
<1>1. PICK s : s = Only(rdlist, Held)
  OBVIOUS
<1>2. PICK n : n = BatchSize(Len(s))
  OBVIOUS
<1>3. /\ n > 0 /\ interest' = interest /\ ready' = ready
      /\ rdlist' = SubSeq(s, n + 1, Len(s)) \o SubSeq(s, 1, n)
  BY <1>1, <1>2 DEF Wait, Held
<1>4. events' = [i \in 1..n |-> [ptr |-> interest[SubSeq(s, 1, n)[i]].ptr,
                      ev |-> Pending(interest, SubSeq(s, 1, n)[i], ready[SubSeq(s, 1, n)[i]])]]
  BY <1>1, <1>2 DEF Wait, Held
<1>5. /\ rdlist \in Seq(Fd) /\ s \in Seq(Fd) /\ Distinct(s)
      /\ \A f \in ToSet(rdlist) : f \in Held => f \in ToSet(s)
      /\ \A f : InFrontOf(s, f) \subseteq InFrontOf(rdlist, f)
  BY <1>1, ListFacts, OnlyDistinct, OnlyKeepsPlaces
<1>6. n \in 1..Len(s)
  BY <1>2, <1>3, <1>5, EPollAssumption DEF BatchSize
<1>7. MovesOn(s, rdlist', n)
  BY <1>3, <1>5, <1>6, TurnMovesOn
<1>8. \A f \in Fd : IsReady(f) => f \in ToSet(s)
  BY <1>5 DEF ReadyIsListed, IsReady, Held
<1>9. ReadyIsListed'
  <2>1. \A f \in Fd : IsReady(f)' => IsReady(f)
    BY <1>3 DEF IsReady
  <2> QED
    BY <1>7, <1>8, <2>1 DEF ReadyIsListed, MovesOn
<1>10. \A i \in 1..n : i \in DOMAIN events' /\ events'[i].ptr = interest[s[i]].ptr
  <2> TAKE i \in 1..n
  <2>1. SubSeq(s, 1, n)[i] = s[i]
    BY <1>5, <1>6
  <2> QED
    BY <1>4, <2>1
<1>11. ASSUME NEW f \in Fd, IsReady(f), ~TakenNow(f)
       PROVE  /\ InFrontOf(rdlist', f) \subseteq InFrontOf(rdlist, f)
              /\ InFrontOf(rdlist', f) # InFrontOf(rdlist, f)
  <2>1. ~\E i \in 1..n : s[i] = f
    BY <1>10, <1>11 DEF TakenNow
  <2>2. /\ InFrontOf(rdlist', f) \subseteq InFrontOf(s, f)
        /\ InFrontOf(rdlist', f) # InFrontOf(s, f)
    BY <1>7, <1>8, <1>11, <2>1 DEF MovesOn
  <2> QED
    BY <1>5, <2>2
<1> QED
  BY <1>9, <1>11

LEMMA NextSettles ==
  ASSUME ProgramInv, ReadyIsListed, [Next]_vars, ~LoopWait
  PROVE  Settles
<1> USE DEF ProgramInv
<1>1. CASE \E f \in Fd : \E ev : Add(f, ev) \/ AddFailsLate(f, ev) \/ Mod(f, ev)
  BY <1>1, SetSettles DEF Add, AddFailsLate, Mod
<1>2. CASE \E f \in Fd : Del(f)
  BY <1>2, DelSettles DEF Del
<1>3. CASE \E f \in Fd : \E e : Consume(f, e)
  <2>0. PICK f \in Fd : \E e : Consume(f, e)
    BY <1>3
  <2>1. PICK e : Consume(f, e)
    BY <2>0
  <2>2. /\ ready' = [ready EXCEPT ![f] = @ \ {e}] /\ interest' = interest /\ rdlist' = rdlist
        /\ DOMAIN ready = Fd
    BY <2>1 DEF Consume, CtrlInv, EPollTypeOK
  <2> QED
    BY <2>2, LessSettles
<1>4. CASE UNCHANGED kernel
  BY <1>4, LessSettles DEF kernel
<1>5. CASE Trigger
  BY <1>5, EventSettles, ClingelingAssumption DEF Trigger
<1>6. CASE HandleWakeup
  <2>1. /\ ready' = [ready EXCEPT ![Pipe] = IF wakeups' = 0 THEN {} ELSE @]
        /\ interest' = interest /\ rdlist' = rdlist /\ DOMAIN ready = Fd
    BY <1>6 DEF HandleWakeup, CtrlInv, EPollTypeOK
  <2>2. \A g \in Fd : ready'[g] \subseteq ready[g]
    BY <2>1
  <2> QED
    BY <2>1, <2>2, LessSettles
<1>7. CASE \E f \in Other, e \in Arrivals : Arrive(f, e)
  BY <1>7, EventSettles DEF Arrive, Other
<1>8. CASE Setup \/ UseCtrl \/ Start
  BY <1>1, <1>2, <1>3, <1>8, ClingelingAssumption DEF Setup, UseCtrl, Start, Other
<1>9. CASE TriggerBlocks \/ UserUsesFreed \/ UserReturns \/ UserThrows \/ LoopDispatch \/ LoopEnds
           \/ UNCHANGED vars
  BY <1>4, <1>9 DEF TriggerBlocks, UserUsesFreed, RunsFreed, UserReturns, UserThrows, LoopDispatch, LoopEnds, vars,
                    epollVars, Return, CallbackThrows, Dispatch, DispatchFreed
<1>10. CASE Environment
  BY <1>7, <1>10 DEF Environment
<1> QED
  BY <1>5, <1>6, <1>8, <1>9, <1>10 DEF Next

LEMMA NextListed ==
  ASSUME ProgramInv, ReadyIsListed, [Next]_vars
  PROVE  ReadyIsListed' /\ NobodyOvertakes
<1>1. CASE LoopWait
  BY <1>1, WaitServes DEF LoopWait, ProgramInv, NobodyOvertakes
<1>2. CASE ~LoopWait
  <2>1. ReadyIsListed' /\ KeepsPlaces
    BY <1>2, NextSettles DEF Settles
  <2> QED
    BY <1>2, <2>1 DEF NobodyOvertakes, KeepsPlaces, ReadyIsListed
<1> QED
  BY <1>1, <1>2

LEMMA AlwaysListed == Spec => []ReadyIsListed
<1>1. Init => ReadyIsListed
  BY DEF Init, EPollInit, ReadyIsListed, IsReady
<1>2. ProgramInv /\ ReadyIsListed /\ [Next]_vars => ReadyIsListed'
  BY NextListed
<1> QED
  BY <1>1, <1>2, AlwaysProgramInv, PTL DEF Spec

\* The kernel's list has every descriptor with something to tell, so that wait()
\* does not sleep while an event is pending, whatever callbacks add, change and
\* delete (the epoll set as epoll-ctrl.cc uses it).
THEOREM ReadyIsListedHolds == Spec => []ReadyIsListed
  BY AlwaysListed

\* A descriptor that is ready is in the batch that wait() takes, or there are
\* fewer before it than there were; and nothing a callback does puts anyone before
\* it.  So it is served after finitely many batches, however small the array of
\* wait() is and however busy the others are (wait(), epoll-ctrl.cc).
THEOREM NobodyOvertakesHolds == Spec => [][NobodyOvertakes]_vars
<1>1. ProgramInv /\ ReadyIsListed /\ [Next]_vars => [NobodyOvertakes]_vars
  BY NextListed
<1> QED
  BY <1>1, AlwaysListed, AlwaysProgramInv, PTL DEF Spec

\* While the loop runs the kernel's list has the pipe if there is a wakeup in it.
WakeupIsListed == loop \in {"running", "stopping"} /\ wakeups > 0 => Pipe \in ToSet(rdlist)

\* A wakeup in the pipe is in the kernel's list until it is read: the wakeup that
\* is to end the loop is not lost, whoever writes it and when (trigger() and
\* handle_fd_event() of clingeling.cc).
THEOREM WakeupIsListedHolds == Spec => []WakeupIsListed
<1>1. ProgramInv /\ ReadyIsListed => WakeupIsListed
  <2> SUFFICES ASSUME ProgramInv, ReadyIsListed, loop \in {"running", "stopping"}, wakeups > 0
               PROVE  Pipe \in ToSet(rdlist)
    BY DEF WakeupIsListed
  <2>1. /\ Pipe \in DOMAIN cb /\ Pipe \in DOMAIN interest
        /\ "In" \in ready[Pipe] /\ interest[Pipe].ev = {"In"}
    BY DEF ProgramInv, PipeInv, CtrlInv, KernelAgrees
  <2>2. "In" \in FromBits(ToBits({"In"}))
    BY DEF FromBits, ToBits, Event
  <2>3. IsReady(Pipe)
    BY <2>1, <2>2 DEF IsReady, Pending
  <2> QED
    BY <2>3, ClingelingAssumption DEF ReadyIsListed
<1> QED
  BY <1>1, AlwaysListed, AlwaysProgramInv, PTL
===============================================================================
