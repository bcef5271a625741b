------------------------------ MODULE Slots_proofs -----------------------------
(***************************************************************************)
(* Proofs about Signals and Slots for any connections, any slots and any   *)
(* bounds on callbacks and on emissions inside emissions.                  *)
(***************************************************************************)
EXTENDS Slots, Selection_proofs

Rising(s) == \A i, j \in DOMAIN s : i < j => s[i] < s[j]

\* What holds of an emission in progress when there have been n callbacks, of
\* which those in b are bound: it has called, and will call, in order, and
\* whoever of the list's members is still bound is among them.
FrameOK(f, n, b) ==
    /\ f.known <= n
    /\ f.members \subseteq 1..f.known
    /\ Rising(f.todo) /\ Rising(f.called)
    /\ \A i \in DOMAIN f.todo : f.todo[i] <= f.known
    /\ \A i \in DOMAIN f.called : f.called[i] <= f.known
    /\ \A i \in DOMAIN f.called, j \in DOMAIN f.todo : f.called[i] < f.todo[j]
    /\ f.members \cap b \subseteq ToSet(f.called) \cup ToSet(f.todo)

FramesOK == \A i \in DOMAIN stack : FrameOK(stack[i], created, bound)

SignalInv ==
    /\ TypeOK
    /\ ListIsBound
    /\ bound \subseteq 1..created
    /\ FramesOK

-------------------------------------------------------------------------------
(* Lists of callbacks *)

LEMMA OnlyRising ==
  ASSUME NEW s \in Seq(Callback), NEW T, Rising(s)
  PROVE  /\ Only(s, T) \in Seq(Callback)
         /\ Rising(Only(s, T))
         /\ ToSet(Only(s, T)) = ToSet(s) \cap T
<1>1. PICK o : o = Only(s, T)
  OBVIOUS
<1>2. o \in Seq(Callback \cap T) /\ o \in Seq(Callback)
  <2>1. o \in Seq(Callback \cap T)
    BY <1>1, OnlyType
  <2> QED
    BY <2>1
<1>3. PICK at \in [1..Len(o) -> 1..Len(s)] :
         /\ \A n \in 1..Len(o) : o[n] = s[at[n]]
         /\ \A m, n \in 1..Len(o) : m < n => at[m] < at[n]
         /\ \A i \in 1..Len(s) : s[i] \in T => \E n \in 1..Len(o) : at[n] = i
  BY <1>1, OnlyPositions
<1>4. DOMAIN o = 1..Len(o) /\ DOMAIN s = 1..Len(s)
  BY <1>2
<1>5. Rising(o)
  BY <1>3, <1>4 DEF Rising
<1>6. ToSet(o) = ToSet(s) \cap T
  <2>1. \A n \in 1..Len(o) : at[n] \in 1..Len(s) /\ o[n] = s[at[n]] /\ o[n] \in T
    BY <1>2, <1>3
  <2>2. ToSet(o) \subseteq ToSet(s) \cap T
    BY <1>4, <2>1 DEF ToSet
  <2>3. ToSet(s) \cap T \subseteq ToSet(o)
    BY <1>3, <1>4, <2>1 DEF ToSet
  <2> QED
    BY <2>2, <2>3
<1> QED
  BY <1>1, <1>2, <1>5, <1>6

LEMMA AppendRising ==
  ASSUME NEW s \in Seq(Callback), NEW c \in Callback, Rising(s),
         \A i \in DOMAIN s : s[i] < c
  PROVE  /\ Append(s, c) \in Seq(Callback)
         /\ Rising(Append(s, c))
         /\ ToSet(Append(s, c)) = ToSet(s) \cup {c}
<1>1. PICK t : t = Append(s, c)
  OBVIOUS
<1>2. /\ t \in Seq(Callback) /\ Len(s) \in Nat /\ Len(t) = Len(s) + 1
      /\ DOMAIN t = 1..Len(s) + 1 /\ DOMAIN s = 1..Len(s)
      /\ \A i \in 1..Len(s) : t[i] = s[i]
      /\ t[Len(s) + 1] = c
  BY <1>1
<1>3. Rising(t)
  BY <1>2 DEF Rising, Callback
<1>4. ToSet(t) = ToSet(s) \cup {c}
  BY <1>2 DEF ToSet
<1> QED
  BY <1>1, <1>2, <1>3, <1>4

LEMMA TailRising ==
  ASSUME NEW s \in Seq(Callback), s # << >>, Rising(s)
  PROVE  /\ Head(s) \in Callback
         /\ Tail(s) \in Seq(Callback)
         /\ Rising(Tail(s))
         /\ ToSet(s) = ToSet(Tail(s)) \cup {Head(s)}
         /\ \A i \in DOMAIN Tail(s) : Head(s) < Tail(s)[i]
         /\ \A i \in DOMAIN Tail(s) : i + 1 \in DOMAIN s /\ Tail(s)[i] = s[i + 1]
         /\ 1 \in DOMAIN s /\ s[1] = Head(s)
<1>1. PICK t : t = Tail(s)
  OBVIOUS
<1>2. /\ t \in Seq(Callback) /\ Len(s) \in Nat \ {0} /\ Len(t) = Len(s) - 1
      /\ DOMAIN s = 1..Len(s) /\ DOMAIN t = 1..Len(s) - 1
      /\ \A i \in 1..Len(t) : t[i] = s[i + 1]
  BY <1>1
<1>3. Head(s) = s[1] /\ s[1] \in Callback
  BY <1>2
<1>4. \A i \in DOMAIN t : i + 1 \in DOMAIN s /\ t[i] = s[i + 1]
  BY <1>2
<1>5. Rising(t) /\ \A i \in DOMAIN t : Head(s) < t[i]
  <2>1. \A i, j \in DOMAIN s : i < j => s[i] < s[j]
    BY DEF Rising
  <2>2. \A i, j \in DOMAIN t : i < j => t[i] < t[j]
    BY <1>2, <1>4, <2>1
  <2>3. \A i \in DOMAIN t : 1 < i + 1 /\ 1 \in DOMAIN s
    BY <1>2
  <2> QED
    BY <1>3, <1>4, <2>1, <2>2, <2>3 DEF Rising
<1>6. ToSet(s) = ToSet(t) \cup {Head(s)}
  <2>1. \A i \in DOMAIN s : s[i] = Head(s) \/ s[i] \in ToSet(t)
    <3> SUFFICES ASSUME NEW i \in DOMAIN s, i # 1 PROVE s[i] \in ToSet(t)
      BY <1>3
    <3>1. i - 1 \in DOMAIN t /\ t[i - 1] = s[i]
      BY <1>2
    <3> QED
      BY <3>1 DEF ToSet
  <2> QED
    BY <1>2, <1>3, <1>4, <2>1 DEF ToSet
<1> QED
  BY <1>1, <1>2, <1>3, <1>4, <1>5, <1>6

-------------------------------------------------------------------------------
(* The list *)

\* Whoever is disconnected, the list stays what is bound.
LEMMA ListAfterDrop ==
  ASSUME TypeOK, ListIsBound, NEW D,
         slots' = Only(slots, Callback \ D), bound' = bound \ D
  PROVE  slots' \in Seq(Callback) /\ bound' \subseteq bound /\ ListIsBound'
<1>1. slots \in Seq(Callback) /\ Rising(slots) /\ ToSet(slots) = bound /\ bound \subseteq Callback
  BY DEF TypeOK, ListIsBound, Rising
<1>2. slots' \in Seq(Callback) /\ Rising(slots') /\ ToSet(slots') = ToSet(slots) \cap (Callback \ D)
  BY <1>1, OnlyRising
<1> QED
  BY <1>1, <1>2 DEF ListIsBound, Rising

LEMMA ListAfterConnect ==
  ASSUME SignalInv, NEW conn \in Connection, Connect(conn)
  PROVE  /\ created' \in Callback /\ created' = created + 1
         /\ slots' \in Seq(Callback) /\ bound' = bound \cup {created'} /\ ListIsBound'
<1>1. /\ slots \in Seq(Callback) /\ Rising(slots) /\ ToSet(slots) = bound
      /\ created \in 0..MaxCallbacks /\ bound \subseteq 1..created
  BY DEF SignalInv, TypeOK, ListIsBound, Rising
<1>2. created' \in Callback /\ created' = created + 1 /\ MaxCallbacks \in Nat
  BY <1>1, SignalsAssumption DEF Connect, Callback
<1>3. \A i \in DOMAIN slots : slots[i] < created'
  <2>1. \A i \in DOMAIN slots : slots[i] \in 1..created
    BY <1>1 DEF ToSet
  <2> QED
    BY <1>1, <1>2, <2>1
<1>4. /\ slots' \in Seq(Callback) /\ Rising(slots')
      /\ ToSet(slots') = ToSet(slots) \cup {created'}
  BY <1>1, <1>2, <1>3, AppendRising DEF Connect
<1> QED
  BY <1>1, <1>2, <1>4 DEF ListIsBound, Rising, Connect
-------------------------------------------------------------------------------
(* Frames *)

\* Callbacks that are connected after an emission began, and those that are
\* disconnected, do not matter to it.
LEMMA FrameStays ==
  ASSUME NEW f \in Frame, NEW n \in Nat, NEW m \in Nat, n <= m, NEW b, NEW d,
         d \cap (1..n) \subseteq b, FrameOK(f, n, b)
  PROVE  FrameOK(f, m, d)
<1>1. f.known \in Nat /\ f.known <= m
  BY DEF FrameOK, Frame
<1>2. f.members \subseteq 1..n
  BY <1>1 DEF FrameOK
<1>3. f.members \cap d \subseteq f.members \cap b
  BY <1>2
<1> QED
  BY <1>1, <1>3 DEF FrameOK

\* A new emission has all of the list to visit.
LEMMA FrameBegins ==
  ASSUME SignalInv,
         NEW f, f = [todo |-> slots, running |-> Nobody, members |-> ToSet(slots),
                     known |-> created, called |-> << >>]
  PROVE  f \in Frame /\ FrameOK(f, created, bound)
<1>1. /\ slots \in Seq(Callback) /\ Rising(slots) /\ ToSet(slots) = bound
      /\ created \in 0..MaxCallbacks /\ bound \subseteq 1..created /\ bound \subseteq Callback
  BY DEF SignalInv, TypeOK, ListIsBound, Rising
<1>2. f \in Frame
  BY <1>1 DEF Frame
<1>3. \A i \in DOMAIN slots : slots[i] <= created
  <2>1. \A i \in DOMAIN slots : slots[i] \in 1..created
    BY <1>1 DEF ToSet
  <2> QED
    BY <1>1, <2>1
<1>4. Rising(f.called) /\ DOMAIN f.called = {}
  BY DEF Rising
<1>5. created \in Nat /\ created <= created
  BY <1>1
<1> QED
  BY <1>1, <1>2, <1>3, <1>4, <1>5 DEF FrameOK

\* A visit moves the first one from todo to called, or drops it if it is gone.
LEMMA FrameVisits ==
  ASSUME NEW f \in Frame, NEW n \in Nat, NEW b, FrameOK(f, n, b), f.todo # << >>,
         NEW r \in {Nobody, Head(f.todo)}, r = Nobody => Head(f.todo) \notin b,
         NEW g, g = [f EXCEPT !.todo = Tail(@), !.running = r,
                              !.called = IF r = Nobody THEN @ ELSE Append(@, r)]
  PROVE  g \in Frame /\ FrameOK(g, n, b)
<1> DEFINE h == Head(f.todo)
<1>1. /\ f.todo \in Seq(Callback) /\ f.called \in Seq(Callback) /\ Rising(f.todo)
      /\ Rising(f.called) /\ f.known \in Nat
  BY DEF FrameOK, Frame
<1>2. /\ h \in Callback /\ Tail(f.todo) \in Seq(Callback)
      /\ Rising(Tail(f.todo))
      /\ ToSet(f.todo) = ToSet(Tail(f.todo)) \cup {h}
      /\ \A i \in DOMAIN Tail(f.todo) : h < Tail(f.todo)[i]
      /\ \A i \in DOMAIN Tail(f.todo) :
            i + 1 \in DOMAIN f.todo /\ Tail(f.todo)[i] = f.todo[i + 1]
      /\ 1 \in DOMAIN f.todo /\ f.todo[1] = h
  BY <1>1, TailRising
<1>3. \A i \in DOMAIN f.called : f.called[i] < h
  BY <1>2 DEF FrameOK
<1>4. /\ g.todo = Tail(f.todo) /\ g.running = r /\ g.members = f.members
      /\ g.known = f.known
      /\ g.called = IF r = Nobody THEN f.called ELSE Append(f.called, r)
      /\ g = [todo |-> g.todo, running |-> g.running, members |-> g.members,
              known |-> g.known, called |-> g.called]
  BY DEF Frame
<1>5. g.members \subseteq 1..g.known /\ g.known <= n
  BY <1>4 DEF FrameOK
<1>6. \A i \in DOMAIN g.todo : g.todo[i] <= g.known
  BY <1>2, <1>4 DEF FrameOK
<1>7. h <= f.known
  BY <1>2 DEF FrameOK
<1>8. CASE r = Nobody
  <2>1. g.called = f.called
    BY <1>4, <1>8
  <2>2. g \in Frame
    BY <1>2, <1>4, <2>1, <1>8 DEF Frame
  <2>3. \A i \in DOMAIN g.called, j \in DOMAIN g.todo : g.called[i] < g.todo[j]
    BY <1>2, <1>4, <2>1 DEF FrameOK
  <2>4. g.members \cap b \subseteq ToSet(g.called) \cup ToSet(g.todo)
    BY <1>2, <1>4, <1>8, <2>1 DEF FrameOK
  <2>5. \A i \in DOMAIN g.called : g.called[i] <= g.known
    BY <1>4, <2>1 DEF FrameOK
  <2> QED
    BY <1>1, <1>2, <1>4, <1>5, <1>6, <2>1, <2>2, <2>3, <2>4, <2>5 DEF FrameOK
<1>9. CASE r # Nobody
  <2>1. r = h /\ g.called = Append(f.called, h)
    BY <1>4, <1>9
  <2>2. /\ g.called \in Seq(Callback) /\ Rising(g.called)
        /\ ToSet(g.called) = ToSet(f.called) \cup {h}
    BY <1>1, <1>2, <1>3, <2>1, AppendRising
  <2>3. g \in Frame
    BY <1>2, <1>4, <2>1, <2>2 DEF Frame
  <2>4. \A i \in DOMAIN g.called :
           g.called[i] = h \/ \E k \in DOMAIN f.called : g.called[i] = f.called[k]
    BY <2>2 DEF ToSet
  <2>5. \A i \in DOMAIN g.called, j \in DOMAIN g.todo : g.called[i] < g.todo[j]
    BY <1>2, <1>4, <2>4 DEF FrameOK
  <2>6. \A i \in DOMAIN g.called : g.called[i] <= g.known
    BY <1>4, <1>7, <2>4 DEF FrameOK
  <2>7. g.members \cap b \subseteq ToSet(g.called) \cup ToSet(g.todo)
    BY <1>2, <1>4, <2>2 DEF FrameOK
  <2> QED
    BY <1>2, <1>4, <1>5, <1>6, <2>2, <2>3, <2>5, <2>6, <2>7 DEF FrameOK
<1> QED
  BY <1>8, <1>9

\* The frames stay as they are while callbacks are connected and disconnected.
LEMMA FramesStay ==
  ASSUME SignalInv, stack' = stack, created' \in Nat, created <= created',
         bound' \cap (1..created) \subseteq bound
  PROVE  FramesOK'
<1>1. stack \in Seq(Frame) /\ created \in Nat
  BY DEF SignalInv, TypeOK
<1>2. ASSUME NEW i \in DOMAIN stack
      PROVE  FrameOK(stack[i], created', bound')
  <2>1. stack[i] \in Frame /\ FrameOK(stack[i], created, bound)
    BY <1>1 DEF SignalInv, FramesOK
  <2> QED
    BY <1>1, <2>1, FrameStays
<1> QED
  BY <1>2 DEF FramesOK

\* A step that replaces the innermost frame by a good one
LEMMA TopReplaced ==
  ASSUME SignalInv, stack # << >>, NEW g \in Frame, FrameOK(g, created, bound),
         stack' = [stack EXCEPT ![Len(stack)] = g], UNCHANGED <<slots, bound, created, cb, thrown>>
  PROVE  SignalInv'
<1>1. stack \in Seq(Frame) /\ Len(stack) \in 1..MaxDepth
  BY SignalsAssumption DEF SignalInv, TypeOK
<1>2. stack' \in Seq(Frame) /\ Len(stack') = Len(stack) /\ DOMAIN stack' = DOMAIN stack
  BY <1>1
<1>3. \A i \in DOMAIN stack : stack'[i] = IF i = Len(stack) THEN g ELSE stack[i]
  BY <1>1
<1>4. FramesOK'
  BY <1>2, <1>3 DEF FramesOK, SignalInv
<1>5. TypeOK'
  BY <1>1, <1>2 DEF SignalInv, TypeOK
<1> QED
  BY <1>4, <1>5 DEF SignalInv, ListIsBound
-------------------------------------------------------------------------------
(* Steps *)

LEMMA ConnectKeeps ==
  ASSUME SignalInv, NEW conn \in Connection, Connect(conn)
  PROVE  SignalInv'
<1>1. created' \in Callback /\ created' = created + 1 /\ slots' \in Seq(Callback)
      /\ bound' = bound \cup {created'} /\ ListIsBound'
  BY ListAfterConnect
<1>2. created \in 0..MaxCallbacks /\ MaxCallbacks \in Nat /\ bound \subseteq 1..created
  BY SignalsAssumption DEF SignalInv, TypeOK
<1>3. created' \in 0..MaxCallbacks /\ bound' \subseteq 1..created' /\ bound' \subseteq Callback
  BY <1>1, <1>2 DEF Callback
<1>4. TypeOK'
  BY <1>1, <1>3 DEF Connect, SignalInv, TypeOK
<1>5. FramesOK'
  <2>1. bound' \cap (1..created) \subseteq bound
    BY <1>1, <1>2
  <2> QED
    BY <1>1, <1>2, <2>1, FramesStay DEF Connect
<1> QED
  BY <1>1, <1>3, <1>4, <1>5 DEF SignalInv

\* The disconnection of any set of callbacks, of one as of many
LEMMA DropKeeps ==
  ASSUME SignalInv, NEW D, slots' = Only(slots, Callback \ D), bound' = bound \ D,
         cb' \in [Connection -> Callback \cup {Nobody}], UNCHANGED <<created, stack, thrown>>
  PROVE  SignalInv'
<1>1. slots' \in Seq(Callback) /\ bound' \subseteq bound /\ ListIsBound'
  BY ListAfterDrop DEF SignalInv
<1>2. TypeOK'
  BY <1>1 DEF SignalInv, TypeOK
<1>3. FramesOK'
  BY <1>1, FramesStay DEF SignalInv, TypeOK
<1> QED
  BY <1>1, <1>2, <1>3 DEF SignalInv

LEMMA CopyMoveKeeps ==
  ASSUME SignalInv, NEW conn \in Connection, NEW other \in Connection,
         Copy(conn, other) \/ Move(conn, other)
  PROVE  SignalInv'
<1>1. cb' \in [Connection -> Callback \cup {Nobody}]
  BY DEF SignalInv, TypeOK, Copy, Move
<1>2. UNCHANGED <<slots, bound, created, stack, thrown>>
  BY DEF Copy, Move
<1> QED
  BY <1>1, <1>2 DEF SignalInv, TypeOK, ListIsBound, FramesOK

LEMMA EmitKeeps ==
  ASSUME SignalInv, Emit
  PROVE  SignalInv'
<1> DEFINE f == [todo |-> slots, running |-> Nobody, members |-> ToSet(slots),
                 known |-> created, called |-> << >>]
<1>1. stack \in Seq(Frame) /\ Len(stack) < MaxDepth /\ stack' = Append(stack, f)
      /\ UNCHANGED <<slots, bound, created, cb, thrown>>
  BY DEF SignalInv, TypeOK, Emit
<1>2. f \in Frame /\ FrameOK(f, created, bound)
  BY FrameBegins
<1> HIDE DEF f
<1>3. stack' \in Seq(Frame) /\ Len(stack') = Len(stack) + 1 /\ DOMAIN stack' = 1..Len(stack) + 1
      /\ \A i \in 1..Len(stack) + 1 : stack'[i] = IF i = Len(stack) + 1 THEN f ELSE stack[i]
  BY <1>1, <1>2
<1>4. FramesOK'
  <2> SUFFICES ASSUME NEW i \in 1..Len(stack) + 1 PROVE FrameOK(stack'[i], created, bound)
    BY <1>1, <1>3 DEF FramesOK
  <2>1. i # Len(stack) + 1 => i \in DOMAIN stack
    BY <1>1
  <2> QED
    BY <1>2, <1>3, <2>1 DEF SignalInv, FramesOK
<1>5. TypeOK'
  BY <1>1, <1>3, SignalsAssumption DEF SignalInv, TypeOK
<1> QED
  BY <1>1, <1>4, <1>5 DEF SignalInv, ListIsBound

LEMMA TopFrame ==
  ASSUME SignalInv, stack # << >>
  PROVE  Top \in Frame /\ FrameOK(Top, created, bound)
<1>1. Len(stack) \in DOMAIN stack
  BY DEF SignalInv, TypeOK
<1> QED
  BY <1>1 DEF Top, SignalInv, TypeOK, FramesOK

\* A bound callback is alive, so a visit skips only callbacks that are not bound.
LEMMA VisitKeeps ==
  ASSUME SignalInv, Skip \/ Invoke
  PROVE  SignalInv'
<1> DEFINE h == Head(Top.todo)
<1>1. /\ stack # << >> /\ Top.todo # << >> /\ UNCHANGED <<slots, bound, created, cb, thrown>>
      /\ \/ stack' = Visited(Nobody) /\ h \notin bound
         \/ stack' = Visited(h)
  <2>1. ~Alive(h) => h \notin bound
    BY DEF Alive, SignalInv, ListIsBound
  <2> QED
    BY <2>1 DEF Skip, Invoke, InCallEach
<1>2. PICK r \in {Nobody, h} : stack' = Visited(r) /\ (r = Nobody => h \notin bound)
  <2>1. h # Nobody
    <3>1. Top \in Frame
      BY <1>1, TopFrame
    <3>2. Top.todo \in Seq(Callback)
      BY <3>1 DEF Frame
    <3>3. h \in Callback
      BY <1>1, <3>2
    <3> QED
      BY <3>3 DEF Callback, Nobody
  <2> QED
    BY <1>1, <2>1
<1>3. PICK g : g = [Top EXCEPT !.todo = Tail(@), !.running = r,
                               !.called = IF r = Nobody THEN @ ELSE Append(@, r)]
  OBVIOUS
<1>4. stack' = [stack EXCEPT ![Len(stack)] = g]
  BY <1>2, <1>3 DEF Visited, Top
<1>5. created \in Nat
  BY DEF SignalInv, TypeOK
<1>6. g \in Frame /\ FrameOK(g, created, bound)
  BY <1>1, <1>2, <1>3, <1>5, TopFrame, FrameVisits
<1> QED
  BY <1>1, <1>4, <1>6, TopReplaced

LEMMA ReturnKeeps ==
  ASSUME SignalInv, Return
  PROVE  SignalInv'
<1>1. PICK g : g = [Top EXCEPT !.running = Nobody]
  OBVIOUS
<1>2. stack # << >> /\ UNCHANGED <<slots, bound, created, cb, thrown>>
  BY DEF Return
<1>3. Top \in Frame /\ FrameOK(Top, created, bound)
  BY <1>2, TopFrame
<1>4. /\ g \in Frame /\ g.todo = Top.todo /\ g.called = Top.called
      /\ g.members = Top.members /\ g.known = Top.known
  BY <1>1, <1>3 DEF Frame
<1>5. FrameOK(g, created, bound)
  BY <1>3, <1>4 DEF FrameOK
<1>6. stack' = [stack EXCEPT ![Len(stack)] = g]
  BY <1>1 DEF Return, Top
<1> QED
  BY <1>2, <1>4, <1>5, <1>6, TopReplaced

LEMMA EndKeeps ==
  ASSUME SignalInv, EmissionEnds \/ InvokeEmpty
  PROVE  SignalInv'
<1>1. CASE EmissionEnds
  <2>1. /\ stack \in Seq(Frame) /\ stack # << >> /\ Len(stack) <= MaxDepth
        /\ stack' = SubSeq(stack, 1, Len(stack) - 1)
        /\ UNCHANGED <<slots, bound, created, cb, thrown>>
    BY <1>1 DEF EmissionEnds, InCallEach, SignalInv, TypeOK
  <2>2. Len(stack) \in Nat \ {0} /\ MaxDepth \in Nat
    BY <2>1, SignalsAssumption
  <2>3. /\ stack' \in Seq(Frame) /\ Len(stack') = Len(stack) - 1
        /\ DOMAIN stack' = 1..Len(stack) - 1
        /\ \A i \in 1..Len(stack) - 1 : i \in DOMAIN stack /\ stack'[i] = stack[i]
    <3>1. PICK k \in Nat : k = Len(stack) - 1 /\ k <= Len(stack)
      <4>1. Len(stack) - 1 \in Nat /\ Len(stack) - 1 <= Len(stack)
        BY <2>2
      <4> QED
        BY <4>1, Zenon
    <3>2. stack' = SubSeq(stack, 1, k)
      BY <2>1, <3>1
    <3>3. /\ stack' \in Seq(Frame) /\ Len(stack') = k
          /\ \A i \in 1..k : i \in 1..Len(stack) /\ stack'[i] = stack[i]
      BY <2>1, <3>1, <3>2
    <3> QED
      BY <2>1, <3>1, <3>3
  <2>4. FramesOK'
    BY <2>1, <2>3 DEF SignalInv, FramesOK
  <2>5. TypeOK'
    BY <2>1, <2>2, <2>3 DEF SignalInv, TypeOK
  <2> QED
    BY <2>1, <2>4, <2>5 DEF SignalInv, ListIsBound
<1>2. CASE InvokeEmpty
  <2>1. stack' = << >> /\ thrown' = TRUE /\ UNCHANGED <<slots, bound, created, cb>>
    BY <1>2 DEF InvokeEmpty
  <2>2. stack' \in Seq(Frame) /\ Len(stack') = 0 /\ DOMAIN stack' = {}
    BY <2>1
  <2>3. TypeOK' /\ FramesOK'
    BY <2>1, <2>2, SignalsAssumption DEF SignalInv, TypeOK, FramesOK
  <2> QED
    BY <2>1, <2>3 DEF SignalInv, ListIsBound
<1> QED
  BY <1>1, <1>2

LEMMA SignalStep ==
  ASSUME SignalInv, [Next]_vars
  PROVE  SignalInv'
<1>1. ASSUME NEW conn \in Connection, Connect(conn) PROVE SignalInv'
  BY <1>1, ConnectKeeps
<1>2. ASSUME NEW conn \in Connection, Disconnect(conn) PROVE SignalInv'
  <2>1. cb' \in [Connection -> Callback \cup {Nobody}]
    BY <1>2 DEF Disconnect, SignalInv, TypeOK
  <2> QED
    BY <1>2, <2>1, DropKeeps DEF Disconnect
<1>3. ASSUME NEW conn \in Connection, NEW other \in Connection,
             Copy(conn, other) \/ Move(conn, other)
      PROVE  SignalInv'
  BY <1>3, CopyMoveKeeps
<1>4. CASE Emit
  BY <1>4, EmitKeeps
<1>5. CASE Skip \/ Invoke
  BY <1>5, VisitKeeps
<1>6. CASE Return
  BY <1>6, ReturnKeeps
<1>7. CASE EmissionEnds \/ InvokeEmpty
  BY <1>7, EndKeeps
<1>8. CASE UNCHANGED vars
  BY <1>8 DEF vars, SignalInv, TypeOK, ListIsBound, FramesOK
<1> QED
  BY <1>1, <1>2, <1>3, <1>4, <1>5, <1>6, <1>7, <1>8 DEF Next

LEMMA SignalInit == Init => SignalInv
<1> SUFFICES ASSUME Init PROVE SignalInv
  OBVIOUS
<1>1. slots = << >> /\ stack = << >> /\ bound = {} /\ created = 0
      /\ cb = [conn \in Connection |-> Nobody] /\ thrown = FALSE
  BY DEF Init
<1>2. TypeOK
  <2>1. slots \in Seq(Callback) /\ stack \in Seq(Frame) /\ Len(stack) = 0
    BY <1>1
  <2>2. created \in 0..MaxCallbacks /\ Len(stack) <= MaxDepth
    BY <1>1, <2>1, SignalsAssumption
  <2>3. cb \in [Connection -> Callback \cup {Nobody}]
    BY <1>1
  <2> QED
    BY <1>1, <2>1, <2>2, <2>3 DEF TypeOK
<1>3. ListIsBound /\ FramesOK
  BY <1>1 DEF ListIsBound, FramesOK, ToSet
<1> QED
  BY <1>1, <1>2, <1>3 DEF SignalInv
-------------------------------------------------------------------------------
(* The properties, as consequences of the invariant *)

LEMMA InvCalledInOrder ==
  ASSUME SignalInv
  PROVE  CalledInOrder
BY DEF SignalInv, FramesOK, FrameOK, Rising, CalledInOrder

LEMMA InvNobodyForgotten ==
  ASSUME SignalInv
  PROVE  NobodyForgotten
BY DEF SignalInv, FramesOK, FrameOK, NobodyForgotten

\* Without emissions a callback is alive exactly if it is in the list.
LEMMA InvConnectionsAgree ==
  ASSUME SignalInv
  PROVE  ConnectionsAgree
<1> SUFFICES ASSUME stack = << >>, NEW conn \in Connection
             PROVE  Connected(conn) <=> cb[conn] \in bound
  BY DEF ConnectionsAgree
<1>1. DOMAIN stack = {}
  OBVIOUS
<1>2. Alive(cb[conn]) <=> cb[conn] \in bound
  BY <1>1 DEF Alive, SignalInv, ListIsBound
<1>3. Nobody \notin bound
  BY DEF SignalInv, TypeOK, Callback, Nobody
<1> QED
  BY <1>2, <1>3 DEF Connected

\* A callback without a function is held by a frame, and not by the innermost.
LEMMA ThrowNeedsNesting ==
  ASSUME SignalInv, InvokeEmpty
  PROVE  Len(stack) > 1
<1> DEFINE h == Head(Top.todo)
<1>1. stack # << >> /\ Top.running = Nobody /\ Top.todo # << >> /\ Alive(h) /\ h \notin bound
  BY DEF InvokeEmpty, InCallEach
<1>2. Top \in Frame /\ stack \in Seq(Frame)
  BY <1>1, TopFrame DEF SignalInv, TypeOK
<1>3. h \in Callback
  <2>1. Top.todo \in Seq(Callback)
    BY <1>2 DEF Frame
  <2> QED
    BY <1>1, <2>1
<1>4. PICK i \in DOMAIN stack : stack[i].running = h
  BY <1>1 DEF Alive, SignalInv, ListIsBound
<1>5. i # Len(stack)
  BY <1>1, <1>3, <1>4 DEF Top, Callback, Nobody
<1> QED
  BY <1>2, <1>4, <1>5

-------------------------------------------------------------------------------
(* Slots *)

\* The slots' part of the invariant: connections of slots and references to
\* slots belong to callbacks that have been made.
SlotsInv ==
    /\ SignalInv
    /\ SlotsTypeOK
    /\ \A s \in Slot : conns[s] \subseteq 1..created
    /\ \A c \in Callback : c > created => target[c] = NoSlot
    /\ OwnedOnce

LEMMA SlotsInitInv == SlotsInit => SlotsInv
<1> SUFFICES ASSUME SlotsInit PROVE SlotsInv
  OBVIOUS
<1>1. SignalInv /\ bound = {}
  BY SignalInit DEF SlotsInit, Init
<1>2. SlotsTypeOK
  BY <1>1 DEF SignalInv, SlotsInit, SlotsTypeOK
<1>3. OwnedOnce
  BY <1>1 DEF OwnedOnce
<1> QED
  BY <1>1, <1>2, <1>3 DEF SlotsInv, SlotsInit

\* What the signal does by itself leaves the slots' connections to it.
LEMMA SignalOfSlots ==
  ASSUME SlotsInv, [Next]_vars, UNCHANGED slotVars
  PROVE  SlotsInv'
<1>1. SignalInv'
  BY SignalStep DEF SlotsInv
<1>2. created \in Nat /\ created' \in Nat /\ created <= created'
      /\ bound' \subseteq bound \cup {c \in Callback : c > created}
  <2>1. created \in Nat /\ created' \in Nat /\ bound' \subseteq Callback
    BY <1>1 DEF SlotsInv, SignalInv, TypeOK
  <2>2. ASSUME NEW conn \in Connection, Connect(conn)
        PROVE  created' = created + 1 /\ bound' = bound \cup {created'}
    BY <2>2, ListAfterConnect DEF SlotsInv
  <2>3. ASSUME NEW conn \in Connection, Disconnect(conn)
        PROVE  created' = created /\ bound' \subseteq bound
    BY <2>3 DEF Disconnect
  <2>4. ASSUME NEW conn \in Connection, NEW other \in Connection,
               Copy(conn, other) \/ Move(conn, other)
        PROVE  created' = created /\ bound' = bound
    BY <2>4 DEF Copy, Move
  <2>5. Emit \/ Skip \/ Invoke \/ Return \/ EmissionEnds \/ InvokeEmpty \/ UNCHANGED vars
           => created' = created /\ bound' = bound
    BY DEF Emit, Skip, Invoke, Return, EmissionEnds, InvokeEmpty, vars
  <2> QED
    BY <2>1, <2>2, <2>3, <2>4, <2>5 DEF Next
<1>3. living' = living /\ conns' = conns /\ target' = target
  BY DEF slotVars
<1>4. OwnedOnce'
  <2> SUFFICES ASSUME NEW c \in bound', target[c] # NoSlot
               PROVE  \E s \in living : {o \in Slot : c \in conns[o]} = {s}
    BY <1>3 DEF OwnedOnce
  <2>1. c \in bound
    BY <1>2 DEF SlotsInv
  <2> QED
    BY <2>1 DEF SlotsInv, OwnedOnce
<1>5. \A s \in Slot : conns[s] \subseteq 1..created'
  BY <1>2 DEF SlotsInv
<1>6. \A c \in Callback : c > created' => target[c] = NoSlot
  BY <1>2 DEF SlotsInv, Callback
<1>7. SlotsTypeOK'
  BY <1>1, <1>3 DEF SlotsInv, SlotsTypeOK, SignalInv
<1> QED
  BY <1>1, <1>3, <1>4, <1>5, <1>6, <1>7 DEF SlotsInv

\* A new connection belongs to the slot it was made for.
LEMMA ConnectSlotKeeps ==
  ASSUME SlotsInv, NEW s \in Slot, NEW conn \in Connection, ConnectSlot(s, conn)
  PROVE  SlotsInv'
<1>1. /\ SignalInv' /\ created' \in Callback /\ created' = created + 1
      /\ bound' = bound \cup {created'} /\ created \in Nat /\ bound \subseteq 1..created
  <2>1. SignalInv /\ Connect(conn)
    BY DEF SlotsInv, ConnectSlot
  <2> QED
    BY <2>1, ConnectKeeps, ListAfterConnect DEF SignalInv, TypeOK
<1>2. /\ s \in living /\ living' = living
      /\ target' = [target EXCEPT ![created'] = s]
      /\ conns' = [conns EXCEPT ![s] = @ \cup {created'}]
  BY DEF ConnectSlot
<1>3. /\ conns \in [Slot -> SUBSET Callback]
      /\ target \in [Callback -> Slot \cup {NoSlot}]
      /\ \A o \in Slot : conns[o] \subseteq 1..created
  BY DEF SlotsInv, SlotsTypeOK
<1>4. SlotsTypeOK'
  BY <1>1, <1>2, <1>3 DEF SlotsInv, SlotsTypeOK, SignalInv
<1>5. \A o \in Slot : conns'[o] \subseteq 1..created'
  BY <1>1, <1>2, <1>3
<1>6. \A c \in Callback : c > created' => target'[c] = NoSlot
  BY <1>1, <1>2, <1>3 DEF SlotsInv, Callback
<1>7. OwnedOnce'
  <2> SUFFICES ASSUME NEW c \in bound', target'[c] # NoSlot
               PROVE  \E o \in living : {p \in Slot : c \in conns'[p]} = {o}
    BY <1>2 DEF OwnedOnce
  <2>1. CASE c = created'
    <3>1. \A p \in Slot : c \in conns'[p] <=> p = s
      BY <1>1, <1>2, <1>3, <2>1
    <3> QED
      BY <1>2, <3>1
  <2>2. CASE c # created'
    <3>1. c \in bound /\ c \in Callback
      BY <1>1, <2>2 DEF SlotsInv, SignalInv, TypeOK
    <3>2. target'[c] = target[c] /\ \A p \in Slot : c \in conns'[p] <=> c \in conns[p]
      BY <1>2, <1>3, <2>2, <3>1
    <3>3. \E o \in living : {p \in Slot : c \in conns[p]} = {o}
      BY <3>1, <3>2 DEF SlotsInv, OwnedOnce
    <3> QED
      BY <3>2, <3>3
  <2> QED
    BY <2>1, <2>2
<1> QED
  BY <1>1, <1>4, <1>5, <1>6, <1>7 DEF SlotsInv

\* The callbacks of a slot are disconnected, and it has none any more.  Whoever
\* takes over those of another slot has been disconnected before.
LEMMA DropOfSlots ==
  ASSUME SlotsInv, NEW D, Disconnected(D)
  PROVE  SignalInv' /\ created' = created /\ bound' = bound \ D
<1>1. cb' \in [Connection -> Callback \cup {Nobody}]
  BY DEF Disconnected, SlotsInv, SignalInv, TypeOK
<1> QED
  BY <1>1, DropKeeps DEF Disconnected, SlotsInv

LEMMA DisconnectSlotKeeps ==
  ASSUME SlotsInv, NEW s \in Slot, DisconnectSlot(s) \/ Destroy(s)
  PROVE  SlotsInv'
<1>1. /\ SignalInv' /\ created' = created /\ bound' = bound \ conns[s]
      /\ conns' = [conns EXCEPT ![s] = {}] /\ target' = target
      /\ living \ {s} \subseteq living' /\ living' \subseteq living
      /\ s \in living
  BY DropOfSlots DEF DisconnectSlot, Destroy
<1>2. conns \in [Slot -> SUBSET Callback]
  BY DEF SlotsInv, SlotsTypeOK
<1>3. SlotsTypeOK'
  BY <1>1, <1>2 DEF SlotsInv, SlotsTypeOK, SignalInv
<1>4. \A o \in Slot : conns'[o] \subseteq 1..created'
  BY <1>1, <1>2 DEF SlotsInv
<1>5. OwnedOnce'
  <2> SUFFICES ASSUME NEW c \in bound', target[c] # NoSlot
               PROVE  \E o \in living' : {p \in Slot : c \in conns'[p]} = {o}
    BY <1>1 DEF OwnedOnce
  <2>1. PICK o \in living : {p \in Slot : c \in conns[p]} = {o}
    BY <1>1 DEF SlotsInv, OwnedOnce
  <2>2. c \notin conns[s]
    BY <1>1
  <2>3. o # s
    BY <2>1, <2>2
  <2>4. \A p \in Slot : c \in conns'[p] <=> c \in conns[p]
    BY <1>1, <1>2, <2>2
  <2> QED
    BY <1>1, <2>1, <2>3, <2>4
<1> QED
  BY <1>1, <1>3, <1>4, <1>5 DEF SlotsInv

LEMMA MoveSlotKeeps ==
  ASSUME SlotsInv, NEW s \in Slot, NEW other \in Slot, MoveSlot(s, other)
  PROVE  SlotsInv'
<1>1. /\ SignalInv' /\ created' = created /\ bound' = bound \ conns[other]
      /\ conns' = [conns EXCEPT ![other] = conns[s], ![s] = {}] /\ target' = target
      /\ living' = living /\ s # other /\ s \in living /\ other \in living
  BY DropOfSlots DEF MoveSlot
<1>2. conns \in [Slot -> SUBSET Callback]
  BY DEF SlotsInv, SlotsTypeOK
<1>3. \A p \in Slot : conns'[p] = IF p = s THEN {} ELSE IF p = other THEN conns[s] ELSE conns[p]
  BY <1>1, <1>2
<1>4. SlotsTypeOK'
  BY <1>1, <1>2, <1>3 DEF SlotsInv, SlotsTypeOK, SignalInv
<1>5. \A o \in Slot : conns'[o] \subseteq 1..created'
  <2>1. \A o \in Slot : conns[o] \subseteq 1..created
    BY DEF SlotsInv
  <2>2. s # other /\ created' = created
    BY <1>1
  <2> SUFFICES ASSUME NEW p \in Slot PROVE conns'[p] \subseteq 1..created
    BY <2>2
  <2>3. conns'[p] = {} \/ \E o \in Slot : conns'[p] = conns[o]
    BY <1>3
  <2> QED
    BY <2>1, <2>3
<1>6. OwnedOnce'
  <2> SUFFICES ASSUME NEW c \in bound', target[c] # NoSlot
               PROVE  \E o \in living : {p \in Slot : c \in conns'[p]} = {o}
    BY <1>1 DEF OwnedOnce
  <2>1. PICK o \in living : {p \in Slot : c \in conns[p]} = {o}
    BY <1>1 DEF SlotsInv, OwnedOnce
  <2>2. c \notin conns[other]
    BY <1>1
  <2>3. CASE o = s
    <3>1. c \in conns[s] /\ \A p \in Slot : c \in conns[p] => p = s
      BY <2>1, <2>3
    <3>2. \A p \in Slot : c \in conns'[p] <=> p = other
      <4>1. s # other
        BY <1>1
      <4> QED
        BY <1>3, <3>1, <4>1
    <3> QED
      BY <1>1, <3>2
  <2>4. CASE o # s
    <3>1. c \notin conns[s]
      BY <2>1, <2>4
    <3>2. \A p \in Slot : c \in conns'[p] <=> c \in conns[p]
      BY <1>3, <2>2, <3>1
    <3> QED
      BY <2>1, <3>2
  <2> QED
    BY <2>3, <2>4
<1> QED
  BY <1>1, <1>4, <1>5, <1>6 DEF SlotsInv

LEMMA SlotsStep ==
  ASSUME SlotsInv, [SlotsNext]_<<vars, slotVars>>
  PROVE  SlotsInv'
<1>1. ASSUME NEW s \in Slot, NEW conn \in Connection, ConnectSlot(s, conn) PROVE SlotsInv'
  BY <1>1, ConnectSlotKeeps
<1>2. ASSUME NEW s \in Slot, DisconnectSlot(s) \/ Destroy(s) PROVE SlotsInv'
  BY <1>2, DisconnectSlotKeeps
<1>3. ASSUME NEW s \in Slot, NEW other \in Slot, MoveSlot(s, other) PROVE SlotsInv'
  BY <1>3, MoveSlotKeeps
<1>4. CASE Act \/ Call \/ GoOn
  <2>1. Next /\ UNCHANGED slotVars
    BY <1>4 DEF Act, Call, GoOn, Next
  <2> QED
    BY <2>1, SignalOfSlots
<1>5. CASE UNCHANGED <<vars, slotVars>>
  BY <1>5, SignalOfSlots
<1> QED
  BY <1>1, <1>2, <1>3, <1>4, <1>5 DEF SlotsNext

LEMMA SlotsInvariant == SlotsSpec => []SlotsInv
<1>1. SlotsInv /\ [SlotsNext]_<<vars, slotVars>> => SlotsInv'
  BY SlotsStep
<1> QED
  BY <1>1, SlotsInitInv, PTL DEF SlotsSpec
-------------------------------------------------------------------------------
(* Theorems *)

\* Whatever callbacks do to the signal, and their slots to their connections,
\* every variable keeps its type, and a slot that is gone has no connection.
THEOREM SlotsTypeCorrect == SlotsSpec => []SlotsTypeOK
<1>1. SlotsInv => SlotsTypeOK
  BY DEF SlotsInv
<1> QED
  BY <1>1, SlotsInvariant, PTL

\* The list holds the bound callbacks, once each and in the order of connect()
\* (add_callback, del_callback), also while emissions run through copies of it.
THEOREM ListIsBoundHolds == SlotsSpec => []ListIsBound
<1>1. SlotsInv => ListIsBound
  BY DEF SlotsInv, SignalInv
<1> QED
  BY <1>1, SlotsInvariant, PTL

\* No emission (call_each) calls anybody twice, out of order, or who was
\* connected after it began, however deep emissions are nested.
THEOREM CalledInOrderHolds == SlotsSpec => []CalledInOrder
<1>1. SlotsInv => CalledInOrder
  BY InvCalledInOrder DEF SlotsInv
<1> QED
  BY <1>1, SlotsInvariant, PTL

\* No emission (call_each) leaves out a callback that was connected when it
\* began and still is.
THEOREM NobodyForgottenHolds == SlotsSpec => []NobodyForgotten
<1>1. SlotsInv => NobodyForgotten
  BY InvNobodyForgotten DEF SlotsInv
<1> QED
  BY <1>1, SlotsInvariant, PTL

\* Between emissions connected() is true exactly of the callbacks in the list.
THEOREM ConnectionsAgreeHolds == SlotsSpec => []ConnectionsAgree
<1>1. SlotsInv => ConnectionsAgree
  BY InvConnectionsAgree DEF SlotsInv
<1> QED
  BY <1>1, SlotsInvariant, PTL

\* Moved, assigned or destroyed, slots share no connection and lose none: a
\* callback made for a slot stays connected only as long as one slot has it.
THEOREM OwnedOnceHolds == SlotsSpec => []OwnedOnce
<1>1. SlotsInv => OwnedOnce
  BY DEF SlotsInv
<1> QED
  BY <1>1, SlotsInvariant, PTL

\* An emission throws std::bad_function_call only inside another emission.
THEOREM ThrowsOnlyNestedHolds == SlotsSpec => ThrowsOnlyNested
<1>1. SlotsInv /\ [SlotsNext]_<<vars, slotVars>> => [thrown' # thrown => Len(stack) > 1]_vars
  <2> SUFFICES ASSUME SlotsInv, [SlotsNext]_<<vars, slotVars>>, thrown' # thrown
               PROVE  Len(stack) > 1
    OBVIOUS
  <2>1. \A conn \in Connection : ~Connect(conn) /\ ~Disconnect(conn)
    BY DEF Connect, Disconnect
  <2>2. \A conn, other \in Connection : ~Copy(conn, other) /\ ~Move(conn, other)
    BY DEF Copy, Move
  <2>3. ~Emit /\ ~Skip /\ ~Invoke /\ ~Return /\ ~EmissionEnds
    BY DEF Emit, Skip, Invoke, Return, EmissionEnds
  <2>4. \A D : ~Disconnected(D)
    BY DEF Disconnected
  <2>5. InvokeEmpty
    BY <2>1, <2>2, <2>3, <2>4
       DEF SlotsNext, ConnectSlot, DisconnectSlot, MoveSlot, Destroy, Act, Call, GoOn, vars
  <2> QED
    BY <2>5, ThrowNeedsNesting DEF SlotsInv
<1> QED
  BY <1>1, SlotsInvariant, PTL DEF SlotsSpec, ThrowsOnlyNested
===============================================================================
