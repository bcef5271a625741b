----------------------------- MODULE Baresip_proofs ----------------------------
(***************************************************************************)
(* Proofs about Ctrl and Model for any messages and observers, and for any *)
(* events that observers feed.                                             *)
(***************************************************************************)
EXTENDS Baresip, Selection_proofs

IsEvent(ev) ==
    \/ /\ ev.class = "call"
       /\ ev.type \in State /\ ev.direction \in {"Incoming", "Outgoing"}
    \/ /\ ev.class = "register"
       /\ ev.type \in {"Ok", "Fail", "Unregistering"}

\* Every call has its own id, and the emissions in progress are about calls.
CallsApart ==
    /\ \A i, j \in DOMAIN calls : calls[i].id = calls[j].id => i = j
    /\ \A k \in DOMAIN stack : stack[k].call \in DOMAIN calls

\* Some emission in progress, of this signal, will tell o of the i-th call.
HasTurn(o, i, signals) ==
    \E k \in DOMAIN stack :
        stack[k].signal \in signals /\ stack[k].call = i /\ o \in ToSet(stack[k].todo)

\* An observer that is not yet connected to a call will hear of it.
Connected ==
    \A o \in Observer, i \in DOMAIN calls :
        o \in ToSet(listeners[calls[i].id]) \/ HasTurn(o, i, {"on_call"})

UpToDate ==
    \A o \in Observer, i \in DOMAIN calls :
        \/ told[o][calls[i].id] = calls[i].state
        \/ HasTurn(o, i, {"on_call", "on_state_change"})

\* Emissions are over when on_json() goes on.
Emissions ==
    /\ loc \in {"idle", "response"} => stack = << >>
    /\ loc # "idle" => seen # << >>

TurnsInv ==
    /\ TypeOK
    /\ CallsApart
    /\ Connected
    /\ UpToDate
    /\ Emissions

-------------------------------------------------------------------------------
(* The messages *)

LEMMA ParseKinds ==
  ASSUME NEW m
  PROVE  \/ ParseEvent(m) = Skipped
         \/ ParseEvent(m) = Throws
         \/ /\ ParseEvent(m) = Parsed(ParseEvent(m).what)
            /\ IsEvent(ParseEvent(m).what)
            /\ ParseEvent(m).kind = "parsed"
            /\ Says(m, ParseEvent(m).what)
<1>1. IsTrue(m, "event") \/ ParseEvent(m) = Skipped
  BY DEF ParseEvent
<1>2. CASE IsTrue(m, "event") /\ Lacks(m, {"class"})
  BY <1>2 DEF ParseEvent
<1>3. CASE IsTrue(m, "event") /\ ~Lacks(m, {"class"}) /\ m.class.v = "register"
  <2>1. ParseEvent(m) = ParseRegisterEvent(m)
    BY <1>3 DEF ParseEvent
  <2>2. CASE ParseRegisterEvent(m) \in {Skipped, Throws}
    BY <2>1, <2>2
  <2>3. CASE ParseRegisterEvent(m) \notin {Skipped, Throws}
    <3> DEFINE ev == [class |-> "register", type |-> RegisterType[m.type.v]]
    <3>1. /\ ~Lacks(m, {"type"}) /\ ~Lacks(m, {"accountaor"}) /\ m.type.v \in DOMAIN RegisterType
          /\ ParseRegisterEvent(m) = Parsed(ev)
      BY <2>3 DEF ParseRegisterEvent
    <3>2. ParseEvent(m).what = ev /\ ParseEvent(m).kind = "parsed" /\ ParseEvent(m) = Parsed(ev)
      BY <2>1, <3>1 DEF Parsed
    <3>3. IsEvent(ev)
      BY <3>1 DEF IsEvent, RegisterType
    <3>4. Says(m, ev)
      BY <1>3, <3>1 DEF Says, Means, Lacks
    <3> QED
      BY <3>2, <3>3, <3>4
  <2> QED
    BY <2>2, <2>3
<1>4. CASE IsTrue(m, "event") /\ ~Lacks(m, {"class"}) /\ m.class.v = "call"
  <2>1. ParseEvent(m) = ParseCallEvent(m)
    BY <1>4 DEF ParseEvent
  <2>2. CASE ParseCallEvent(m) \in {Skipped, Throws}
    BY <2>1, <2>2
  <2>3. CASE ParseCallEvent(m) \notin {Skipped, Throws}
    <3> DEFINE ev == [class |-> "call", type |-> CallType[m.type.v], id |-> m.id.v,
                      direction |-> Direction[m.direction.v]]
    <3>1. /\ ~Lacks(m, {"type"}) /\ ~Lacks(m, {"accountaor", "direction", "peeruri", "id"})
          /\ m.type.v \in DOMAIN CallType /\ m.direction.v \in DOMAIN Direction
          /\ ParseCallEvent(m) = Parsed(ev)
      BY <2>3 DEF ParseCallEvent
    <3>2. ParseEvent(m).what = ev /\ ParseEvent(m).kind = "parsed" /\ ParseEvent(m) = Parsed(ev)
      BY <2>1, <3>1 DEF Parsed
    <3>3. IsEvent(ev)
      BY <3>1 DEF IsEvent, CallType, Direction, State
    <3>4. Says(m, ev)
      BY <1>4, <3>1 DEF Says, Means, Lacks
    <3> QED
      BY <3>2, <3>3, <3>4
  <2> QED
    BY <2>2, <2>3
<1>5. CASE /\ IsTrue(m, "event") /\ ~Lacks(m, {"class"})
           /\ m.class.v # "register" /\ m.class.v # "call"
  BY <1>5 DEF ParseEvent
<1> QED
  BY <1>1, <1>2, <1>3, <1>4, <1>5

LEMMA KindsDiffer ==
  /\ Skipped.kind = "skipped" /\ Throws.kind = "throws"
  /\ \A what : Parsed(what).kind = "parsed" /\ Parsed(what).what = what
BY DEF Skipped, Throws, Parsed

\* The events have the types of their structures, and calls have ids.
LEMMA EventFacts ==
  /\ \A ev \in Event : IsEvent(ev) /\ (ev.class = "call" => ev.id \in Id)
  /\ \A m \in Messages : ParseEvent(m).kind = "parsed" => ParseEvent(m).what \in Event
  /\ Fed \subseteq Event
<1>1. ASSUME NEW ev \in Event PROVE IsEvent(ev)
  <2>1. CASE ev \in Fed
    BY <2>1, BaresipAssumption DEF IsEvent
  <2>2. CASE ev \notin Fed
    <3>1. PICK m \in Messages : ParseEvent(m) \notin {Skipped, Throws} /\ ev = ParseEvent(m).what
      BY <2>2 DEF Event
    <3> QED
      BY <3>1, ParseKinds
  <2> QED
    BY <2>1, <2>2
<1>2. ASSUME NEW m \in Messages, ParseEvent(m).kind = "parsed"
      PROVE  ParseEvent(m).what \in Event
  <2>1. ParseEvent(m) \notin {Skipped, Throws}
    BY <1>2, KindsDiffer
  <2> QED
    BY <2>1 DEF Event
<1>3. \A ev \in Event : ev.class = "call" => ev.id \in Id
  BY DEF Id
<1>4. Fed \subseteq Event
  BY DEF Event
<1> QED
  BY <1>1, <1>2, <1>3, <1>4

\* What says an event is parsed, as that event.
LEMMA SaidIsParsed ==
  ASSUME NEW m \in Messages, NEW ev \in Event, Says(m, ev)
  PROVE  ParseEvent(m).kind = "parsed"
<1>1. IsTrue(m, "event") /\ ~Lacks(m, {"class"}) /\ ~Lacks(m, {"type"}) /\ ~Lacks(m, {"accountaor"})
  BY DEF Says, Lacks
<1>2. CASE ev.class = "register" /\ m.type.v \in DOMAIN RegisterType
  <2>1. ParseEvent(m) = ParseRegisterEvent(m)
    BY <1>1, <1>2 DEF ParseEvent, Says
  <2>2. \E what : ParseRegisterEvent(m) = Parsed(what)
    BY <1>1, <1>2 DEF ParseRegisterEvent
  <2> QED
    BY <2>1, <2>2, KindsDiffer
<1>3. CASE /\ ev.class = "call" /\ m.type.v \in DOMAIN CallType
           /\ ~Lacks(m, {"id", "direction", "peeruri"}) /\ m.direction.v \in DOMAIN Direction
  <2>1. ParseEvent(m) = ParseCallEvent(m)
    BY <1>1, <1>3 DEF ParseEvent, Says
  <2>2. ~Lacks(m, {"accountaor", "direction", "peeruri", "id"})
    BY <1>1, <1>3 DEF Lacks
  <2>3. \E what : ParseCallEvent(m) = Parsed(what)
    BY <1>1, <1>3, <2>2 DEF ParseCallEvent
  <2> QED
    BY <2>1, <2>3, KindsDiffer
<1> QED
  BY <1>2, <1>3 DEF Says, Means

\* A message says an event if and only if it is parsed as one.
LEMMA SaysIffParsed ==
  ASSUME NEW m \in Messages
  PROVE  /\ m \in SaysEvent <=> ParseEvent(m).kind = "parsed"
         /\ ParseEvent(m).kind = "parsed" => Says(m, ParseEvent(m).what)
<1>1. m \in SaysEvent => ParseEvent(m).kind = "parsed"
  BY SaidIsParsed DEF SaysEvent
<1>2. ParseEvent(m).kind = "parsed" => Says(m, ParseEvent(m).what)
  BY ParseKinds, KindsDiffer
<1>3. ParseEvent(m).kind = "parsed" => m \in SaysEvent
  BY <1>2, EventFacts DEF SaysEvent
<1> QED
  BY <1>1, <1>2, <1>3

\* Something that is no JSON object is not parsed.
LEMMA NotJsonIsSkipped ==
  ParseEvent(NotJson) = Skipped
<1>1. ~IsTrue(NotJson, "event")
  BY DEF NotJson, IsTrue, Has
<1> QED
  BY <1>1 DEF ParseEvent

-------------------------------------------------------------------------------
(* The stack of emissions *)

Fresh == {e \in Emission : e.running = None /\ e.stale = FALSE}
Grow(s, e) == s \o Begin(e.signal, e.call, e.todo)

\* An emission is put on the stack, if there is somebody to tell.
LEMMA GrowFacts ==
  ASSUME NEW s \in Seq(Emission), NEW e \in Fresh
  PROVE  /\ Grow(s, e) \in Seq(Emission)
         /\ \A k \in DOMAIN s : k \in DOMAIN Grow(s, e) /\ Grow(s, e)[k] = s[k]
         /\ \A k \in DOMAIN Grow(s, e) : k \notin DOMAIN s => Grow(s, e)[k] = e
         /\ e.todo # << >> => \E k \in DOMAIN Grow(s, e) : k \notin DOMAIN s
<1>1. Len(s) \in Nat /\ DOMAIN s = 1..Len(s)
  OBVIOUS
<1>2. CASE e.todo = << >>
  <2>1. Grow(s, e) = s
    BY <1>2 DEF Grow, Begin
  <2> QED
    BY <1>2, <2>1
<1>3. CASE e.todo # << >>
  <2>1. /\ e \in Emission
        /\ e = [signal |-> e.signal, call |-> e.call, todo |-> e.todo, running |-> None,
                stale |-> FALSE]
    BY DEF Emission, Fresh
  <2>2. PICK t : t = Append(s, e)
    OBVIOUS
  <2>3. Grow(s, e) = t
    BY <1>3, <2>1, <2>2 DEF Grow, Begin
  <2>4. /\ t \in Seq(Emission) /\ DOMAIN t = 1..(Len(s) + 1)
        /\ \A k \in 1..Len(s) : t[k] = s[k]
        /\ t[Len(s) + 1] = e
    BY <1>1, <2>1, <2>2
  <2>5. Len(s) + 1 \in DOMAIN t /\ Len(s) + 1 \notin DOMAIN s
    BY <1>1, <2>4
  <2>6. \A k \in DOMAIN t : k \notin DOMAIN s => k = Len(s) + 1
    BY <1>1, <2>4
  <2> QED
    BY <1>1, <2>3, <2>4, <2>5, <2>6
<1> QED
  BY <1>2, <1>3

\* The emission on top has told one more observer, that now runs.
LEMMA ToldFacts ==
  ASSUME TypeOK, stack # << >>, Top.todo # << >>, stack' = Told
  PROVE  /\ stack' \in Seq(Emission) /\ DOMAIN stack' = DOMAIN stack
         /\ Len(stack) \in DOMAIN stack /\ Top \in Emission
         /\ Head(Top.todo) \in Observer
         /\ \A k \in DOMAIN stack :
               /\ stack'[k].signal = stack[k].signal /\ stack'[k].call = stack[k].call
               /\ stack'[k].stale = stack[k].stale
               /\ k # Len(stack) => stack'[k].todo = stack[k].todo
               /\ \A o \in ToSet(stack[k].todo) :
                     o \in ToSet(stack'[k].todo) \/ (k = Len(stack) /\ o = Head(Top.todo))
<1> DEFINE n == Len(stack)
<1>1. /\ stack \in Seq(Emission) /\ n \in DOMAIN stack /\ n \in Nat /\ DOMAIN stack = 1..n
      /\ Top = stack[n] /\ Top \in Emission
  BY DEF TypeOK, Top
<1>2. Top.todo \in Seq(Observer)
  BY <1>1 DEF Emission
<1>3. PICK x \in Observer, rest \in Seq(Observer) :
         /\ x = Head(Top.todo) /\ rest = Tail(Top.todo)
         /\ \A o \in ToSet(Top.todo) : o \in ToSet(rest) \/ o = x
  <2>1. PICK todo \in Seq(Observer) : todo = Top.todo /\ todo # << >>
    BY <1>2
  <2>2. Head(todo) \in Observer /\ Tail(todo) \in Seq(Observer)
    BY <2>1
  <2>3. PICK rest \in Seq(Observer) : rest = Tail(todo)
    BY <2>2
  <2>4. /\ Len(todo) \in Nat \ {0} /\ DOMAIN todo = 1..Len(todo) /\ Head(todo) = todo[1]
        /\ Len(rest) = Len(todo) - 1 /\ DOMAIN rest = 1..(Len(todo) - 1)
        /\ \A i \in DOMAIN rest : rest[i] = todo[i + 1]
    BY <2>1, <2>3
  <2>5. ASSUME NEW o \in ToSet(todo) PROVE o \in ToSet(rest) \/ o = Head(todo)
    <3>1. PICK i \in DOMAIN todo : o = todo[i]
      BY DEF ToSet
    <3>2. CASE i = 1
      BY <2>4, <3>1, <3>2
    <3>3. CASE i # 1
      <4>1. i - 1 \in DOMAIN rest /\ rest[i - 1] = o
        BY <2>4, <3>1, <3>3
      <4> QED
        BY <4>1 DEF ToSet
    <3> QED
      BY <3>2, <3>3
  <2> QED
    BY <2>1, <2>2, <2>3, <2>5
<1>4. stack' = [stack EXCEPT ![n] = [stack[n] EXCEPT !.todo = rest, !.running = x]]
  BY <1>1, <1>3 DEF Told, Top
<1>5. PICK e : e = [stack[n] EXCEPT !.todo = rest, !.running = x]
  OBVIOUS
<1>6. /\ e \in Emission
      /\ e.todo = rest /\ e.signal = stack[n].signal
      /\ e.call = stack[n].call /\ e.stale = stack[n].stale
  <2>1. stack[n] \in Emission
    BY <1>1
  <2> QED
    BY <1>3, <1>5, <2>1 DEF Emission
<1>7. stack' \in Seq(Emission) /\ DOMAIN stack' = DOMAIN stack
  BY <1>1, <1>4, <1>5, <1>6
<1>8. stack'[n] = e /\ \A k \in DOMAIN stack : k # n => stack'[k] = stack[k]
  BY <1>1, <1>4, <1>5
<1> QED
  BY <1>1, <1>3, <1>6, <1>7, <1>8

-------------------------------------------------------------------------------
(* on_event of the model *)

\* What an event leaves true.
EventInv ==
    /\ calls \in Seq(Call) /\ registration \in {"Unknown", "Ok", "Fail"}
    /\ stack \in Seq(Emission)
    /\ CallsApart /\ Connected /\ UpToDate

\* A reference becomes stale only when a call is added and the vector grows.
StaleSince(ev) ==
    \A k \in DOMAIN stack' :
        stack'[k].stale = TRUE =>
            /\ k \in DOMAIN stack /\ stack'[k].call = stack[k].call
            /\ \/ stack[k].stale = TRUE
               \/ ev.class = "call" /\ OnNewCall(ev) /\ Reallocates(Len(calls))

LEMMA NewCallKeeps ==
  ASSUME TypeOK, CallsApart, Connected, UpToDate,
         NEW ev \in Event, ev.class = "call", OnNewCall(ev), UNCHANGED <<observers, registration>>
  PROVE  EventInv' /\ StaleSince(ev)
<1> DEFINE c == NewCall(ev)
           grown == Reallocates(Len(calls))
<1>0. PICK n, s : /\ n = Len(calls) + 1
                  /\ s = [k \in DOMAIN stack |-> [stack[k] EXCEPT !.stale = @ \/ grown]]
  OBVIOUS
<1>1. /\ \A i \in DOMAIN calls : calls[i].id # ev.id
      /\ calls' = Append(calls, c)
      /\ stack' = s \o Begin("on_call", Len(calls'), Observers)
      /\ listeners' = listeners /\ told' = told /\ registration' = registration
  BY <1>0 DEF OnNewCall, observers
<1>2. c \in Call /\ c.id = ev.id
  BY EventFacts DEF NewCall, Call, IsEvent
<1> HIDE DEF c
<1>3. /\ calls \in Seq(Call) /\ calls' \in Seq(Call) /\ Len(calls) \in Nat
      /\ n = Len(calls) + 1 /\ Len(calls') = n
      /\ DOMAIN calls = 1..Len(calls) /\ DOMAIN calls' = 1..n
      /\ \A i \in DOMAIN calls : calls'[i] = calls[i]
      /\ calls'[n] = c
  BY <1>0, <1>1, <1>2 DEF TypeOK
<1> HIDE DEF grown
<1>4. /\ s \in Seq(Emission) /\ DOMAIN s = DOMAIN stack
      /\ \A k \in DOMAIN stack : /\ s[k].signal = stack[k].signal /\ s[k].call = stack[k].call
                                /\ s[k].todo = stack[k].todo
  <2>1. stack \in Seq(Emission) /\ Len(stack) \in Nat /\ DOMAIN stack = 1..Len(stack)
    BY DEF TypeOK
  <2>2. ASSUME NEW k \in DOMAIN stack
        PROVE  /\ s[k] \in Emission
               /\ s[k].signal = stack[k].signal /\ s[k].call = stack[k].call
               /\ s[k].todo = stack[k].todo
    <3>1. stack[k] \in Emission
      BY <2>1
    <3>2. PICK stale \in BOOLEAN : stale = (stack[k].stale \/ grown)
      OBVIOUS
    <3>3. s[k] = [stack[k] EXCEPT !.stale = stale]
      BY <1>0, <3>2
    <3> QED
      BY <3>1, <3>3 DEF Emission
  <2> QED
    BY <1>0, <2>1, <2>2
<1>5. ASSUME NEW k \in DOMAIN stack, s[k].stale = TRUE
      PROVE  stack[k].stale = TRUE \/ grown
  <2>1. stack[k] \in Emission
    BY DEF TypeOK
  <2>2. PICK was \in BOOLEAN : was = stack[k].stale
    BY <2>1 DEF Emission
  <2>3. PICK stale \in BOOLEAN : stale = (was \/ grown)
    OBVIOUS
  <2>4. s[k] = [stack[k] EXCEPT !.stale = stale]
    BY <1>0, <2>2, <2>3
  <2>5. s[k].stale = stale
    BY <2>1, <2>4 DEF Emission
  <2>6. was = TRUE \/ grown
    BY <1>5, <2>3, <2>5, Zenon
  <2> QED
    BY <2>2, <2>6
<1>6. /\ stack' \in Seq(Emission)
      /\ \A k \in DOMAIN s : k \in DOMAIN stack' /\ stack'[k] = s[k]
      /\ \A k \in DOMAIN stack' : k \notin DOMAIN s =>
            /\ stack'[k].signal = "on_call" /\ stack'[k].call = n
            /\ stack'[k].todo = Observers /\ stack'[k].stale = FALSE
      /\ Observers # << >> => \E k \in DOMAIN stack' : k \notin DOMAIN s
  <2>1. PICK e : e = [signal |-> "on_call", call |-> n, todo |-> Observers, running |-> None,
                      stale |-> FALSE]
    OBVIOUS
  <2>2. /\ e \in Fresh /\ e.stale = FALSE
        /\ e.signal = "on_call" /\ e.call = n /\ e.todo = Observers
    BY <1>3, <2>1, BaresipAssumption DEF Emission, Fresh
  <2>3. stack' = Grow(s, e)
    BY <1>1, <1>3, <2>2 DEF Grow
  <2>4. /\ Grow(s, e) \in Seq(Emission)
        /\ \A k \in DOMAIN s : k \in DOMAIN Grow(s, e) /\ Grow(s, e)[k] = s[k]
        /\ \A k \in DOMAIN Grow(s, e) : k \notin DOMAIN s => Grow(s, e)[k] = e
        /\ e.todo # << >> => \E k \in DOMAIN Grow(s, e) : k \notin DOMAIN s
    BY <1>4, <2>2, GrowFacts
  <2> QED
    BY <2>2, <2>3, <2>4
<1>7. \A o, i : \A signals : HasTurn(o, i, signals) => HasTurn(o, i, signals)'
  BY <1>4, <1>6 DEF HasTurn
<1>8. \A o \in Observer : /\ HasTurn(o, n, {"on_call"})'
                          /\ HasTurn(o, n, {"on_call", "on_state_change"})'
  <2> TAKE o \in Observer
  <2>1. o \in ToSet(Observers) /\ Observers # << >>
    BY BaresipAssumption DEF Observer, ToSet
  <2>2. PICK k \in DOMAIN stack' : k \notin DOMAIN s
    BY <1>6, <2>1
  <2> QED
    BY <1>6, <2>1, <2>2 DEF HasTurn
<1>9. CallsApart'
  <2>1. \A i, j \in DOMAIN calls' : calls'[i].id = calls'[j].id => i = j
    BY <1>1, <1>2, <1>3 DEF CallsApart
  <2>2. \A k \in DOMAIN stack' : stack'[k].call \in DOMAIN calls'
    BY <1>3, <1>4, <1>6 DEF CallsApart
  <2> QED
    BY <2>1, <2>2 DEF CallsApart
<1>10. Connected' /\ UpToDate'
  <2> SUFFICES ASSUME NEW o \in Observer, NEW i \in DOMAIN calls'
               PROVE  /\ o \in ToSet(listeners[calls'[i].id]) \/ HasTurn(o, i, {"on_call"})'
                      /\ \/ told[o][calls'[i].id] = calls'[i].state
                         \/ HasTurn(o, i, {"on_call", "on_state_change"})'
    BY <1>1 DEF Connected, UpToDate
  <2>1. CASE i = n
    BY <1>8, <2>1
  <2>2. CASE i # n
    <3>1. i \in DOMAIN calls /\ calls'[i] = calls[i]
      BY <1>3, <2>2
    <3>2. /\ o \in ToSet(listeners[calls[i].id]) \/ HasTurn(o, i, {"on_call"})
          /\ \/ told[o][calls[i].id] = calls[i].state
             \/ HasTurn(o, i, {"on_call", "on_state_change"})
      BY <3>1 DEF Connected, UpToDate
    <3> QED
      BY <1>7, <3>1, <3>2
  <2> QED
    BY <2>1, <2>2
<1>11. StaleSince(ev)
  <2> SUFFICES ASSUME NEW k \in DOMAIN stack', stack'[k].stale = TRUE
               PROVE  /\ k \in DOMAIN stack /\ stack'[k].call = stack[k].call
                      /\ stack[k].stale = TRUE \/ grown
    BY DEF StaleSince, grown
  <2>1. k \in DOMAIN s
    BY <1>6
  <2>2. k \in DOMAIN stack /\ stack'[k] = s[k] /\ s[k].call = stack[k].call
    BY <1>4, <1>6, <2>1
  <2> QED
    BY <1>5, <2>2
<1> QED
  BY <1>1, <1>3, <1>6, <1>9, <1>10, <1>11 DEF EventInv, TypeOK

LEMMA KnownCallKeeps ==
  ASSUME TypeOK, CallsApart, Connected, UpToDate,
         NEW ev \in Event, ev.class = "call", NEW i \in DOMAIN calls, OnKnownCall(ev, i),
         UNCHANGED <<observers, registration>>
  PROVE  EventInv' /\ StaleSince(ev)
<1>1. /\ calls[i].id = ev.id
      /\ calls' = [calls EXCEPT ![i].state = ev.type]
      /\ stack' = IF calls[i].state = ev.type THEN stack
                  ELSE stack \o Begin("on_state_change", i, listeners[ev.id])
      /\ listeners' = listeners /\ told' = told /\ registration' = registration
  BY DEF OnKnownCall, observers
<1>2. /\ calls \in Seq(Call) /\ stack \in Seq(Emission) /\ i \in Nat
      /\ calls[i] \in Call
  BY DEF TypeOK
<1>3. ev.type \in State /\ ev.id \in Id
  BY EventFacts DEF IsEvent
<1>4. /\ calls' \in Seq(Call) /\ DOMAIN calls' = DOMAIN calls
      /\ \A j \in DOMAIN calls : /\ calls'[j].id = calls[j].id
                                 /\ j # i => calls'[j] = calls[j]
      /\ calls'[i].state = ev.type
  <2>1. PICK c : c = [calls[i] EXCEPT !.state = ev.type]
    OBVIOUS
  <2>2. c \in Call /\ c.id = calls[i].id /\ c.state = ev.type
    BY <1>2, <1>3, <2>1 DEF Call
  <2>3. calls' = [calls EXCEPT ![i] = c]
    BY <1>1, <2>1
  <2> QED
    BY <1>2, <2>2, <2>3
<1>5. /\ stack' \in Seq(Emission)
      /\ \A k \in DOMAIN stack : k \in DOMAIN stack' /\ stack'[k] = stack[k]
      /\ \A k \in DOMAIN stack' : k \notin DOMAIN stack =>
            stack'[k].signal = "on_state_change" /\ stack'[k].call = i /\ stack'[k].stale = FALSE
      /\ calls[i].state # ev.type /\ listeners[ev.id] # << >> =>
            \E k \in DOMAIN stack' : /\ stack'[k].signal = "on_state_change" /\ stack'[k].call = i
                                     /\ stack'[k].todo = listeners[ev.id]
  <2>1. CASE calls[i].state = ev.type
    BY <1>1, <1>2, <2>1
  <2>2. CASE calls[i].state # ev.type
    <3>1. listeners[ev.id] \in Seq(Observer)
      BY <1>3 DEF TypeOK
    <3>2. PICK e : e = [signal |-> "on_state_change", call |-> i, todo |-> listeners[ev.id],
                        running |-> None, stale |-> FALSE]
      OBVIOUS
    <3>3. /\ e \in Fresh /\ e.stale = FALSE
          /\ e.signal = "on_state_change" /\ e.call = i /\ e.todo = listeners[ev.id]
      BY <1>2, <3>1, <3>2 DEF Emission, Fresh
    <3>4. stack' = Grow(stack, e)
      BY <1>1, <2>2, <3>3 DEF Grow
    <3>5. /\ Grow(stack, e) \in Seq(Emission)
          /\ \A k \in DOMAIN stack : k \in DOMAIN Grow(stack, e) /\ Grow(stack, e)[k] = stack[k]
          /\ \A k \in DOMAIN Grow(stack, e) : k \notin DOMAIN stack => Grow(stack, e)[k] = e
          /\ e.todo # << >> => \E k \in DOMAIN Grow(stack, e) : k \notin DOMAIN stack
      BY <1>2, <3>3, GrowFacts
    <3> QED
      BY <2>2, <3>3, <3>4, <3>5
  <2> QED
    BY <2>1, <2>2
<1>6. \A o, j : \A signals : HasTurn(o, j, signals) => HasTurn(o, j, signals)'
  BY <1>5 DEF HasTurn
<1>7. CallsApart'
  <2>1. \A j, k \in DOMAIN calls' : calls'[j].id = calls'[k].id => j = k
    BY <1>4 DEF CallsApart
  <2>2. \A k \in DOMAIN stack' : stack'[k].call \in DOMAIN calls'
    BY <1>4, <1>5 DEF CallsApart
  <2> QED
    BY <2>1, <2>2 DEF CallsApart
<1>8. Connected'
  BY <1>1, <1>4, <1>6 DEF Connected
<1>9. UpToDate'
  <2> SUFFICES ASSUME NEW o \in Observer, NEW j \in DOMAIN calls
               PROVE  \/ told[o][calls[j].id] = calls'[j].state
                      \/ HasTurn(o, j, {"on_call", "on_state_change"})'
    BY <1>1, <1>4 DEF UpToDate
  <2>1. CASE j # i \/ calls[i].state = ev.type
    <3>1. calls'[j].state = calls[j].state
      BY <1>4, <2>1
    <3> QED
      BY <1>6, <3>1 DEF UpToDate
  <2>2. CASE j = i /\ calls[i].state # ev.type
    <3>1. CASE o \in ToSet(listeners[ev.id])
      <4>1. listeners[ev.id] # << >>
        BY <3>1, <1>3 DEF ToSet, TypeOK
      <4> QED
        BY <1>5, <2>2, <3>1, <4>1 DEF HasTurn
    <3>2. CASE o \notin ToSet(listeners[ev.id])
      <4>1. HasTurn(o, i, {"on_call"})
        BY <1>1, <3>2 DEF Connected
      <4>2. HasTurn(o, i, {"on_call", "on_state_change"})
        BY <4>1 DEF HasTurn
      <4> QED
        BY <1>6, <2>2, <4>2
    <3> QED
      BY <3>1, <3>2
  <2> QED
    BY <2>1, <2>2
<1>10. StaleSince(ev)
  BY <1>5 DEF StaleSince
<1> QED
  BY <1>1, <1>4, <1>5, <1>7, <1>8, <1>9, <1>10 DEF EventInv, TypeOK

LEMMA EventKeeps ==
  ASSUME TypeOK, CallsApart, Connected, UpToDate, NEW ev \in Event, OnEvent(ev),
         UNCHANGED observers
  PROVE  EventInv' /\ StaleSince(ev)
<1>1. CASE ev.class = "call" /\ OnNewCall(ev) /\ UNCHANGED registration
  BY <1>1, NewCallKeeps
<1>2. CASE /\ ev.class = "call" /\ UNCHANGED registration
           /\ \E i \in DOMAIN calls : OnKnownCall(ev, i)
  BY <1>2, KnownCallKeeps
<1>3. CASE ev.class = "register" /\ OnRegisterEvent(ev)
  <2>1. calls' = calls /\ stack' = stack /\ listeners' = listeners /\ told' = told
    BY <1>3 DEF OnRegisterEvent, observers
  <2>2. registration' \in {"Unknown", "Ok", "Fail"}
    BY <1>3, EventFacts DEF OnRegisterEvent, IsEvent
  <2>3. CallsApart' /\ Connected' /\ UpToDate'
    BY <2>1 DEF CallsApart, Connected, UpToDate, HasTurn
  <2>4. StaleSince(ev)
    BY <2>1 DEF StaleSince
  <2> QED
    BY <2>1, <2>2, <2>3, <2>4 DEF EventInv, TypeOK
<1> QED
  BY <1>1, <1>2, <1>3 DEF OnEvent

-------------------------------------------------------------------------------
(* The steps *)

\* An event that was applied is in the history.
LEMMA AppliedFacts ==
  ASSUME applied \in Seq(Application), NEW ev \in Event, NEW fed \in BOOLEAN,
         applied' = Append(applied, [ev |-> ev, fed |-> fed])
  PROVE  /\ applied' \in Seq(Application)
         /\ DOMAIN applied = 1..Len(applied) /\ Len(applied) \in Nat
         /\ \A i \in DOMAIN applied : i \in DOMAIN applied' /\ applied'[i] = applied[i]
<1>1. PICK a \in Application : a = [ev |-> ev, fed |-> fed]
  BY DEF Application
<1>3. applied' = Append(applied, a) /\ Len(applied) \in Nat /\ DOMAIN applied = 1..Len(applied)
  BY <1>1
<1>4. /\ applied' \in Seq(Application) /\ DOMAIN applied' = 1..(Len(applied) + 1)
      /\ applied'[Len(applied) + 1] = a
      /\ \A i \in DOMAIN applied : applied'[i] = applied[i]
  BY <1>3
<1>5. DOMAIN applied \subseteq DOMAIN applied'
  BY <1>3, <1>4
<1> QED
  BY <1>3, <1>4, <1>5

LEMMA OnMessageKeeps ==
  ASSUME TurnsInv, NEW m \in Messages, OnMessage(m)
  PROVE  TurnsInv'
<1> DEFINE event == ParseEvent(m)
<1>1. /\ loc = "idle" /\ stack = << >> /\ listeners' = listeners /\ told' = told
      /\ responses' = responses /\ UNCHANGED observers
  BY DEF OnMessage, TurnsInv, Emissions, observers
<1>2. seen' \in Seq(Messages) /\ seen' # << >>
  <2>1. seen \in Seq(Messages) /\ seen' = Append(seen, m)
    BY DEF OnMessage, TurnsInv, TypeOK
  <2> QED
    BY <2>1
<1>3. CASE UNCHANGED <<model, stack, applied>> /\ loc' \in {"thrown", "response"}
  <2>1. calls' = calls /\ registration' = registration /\ stack' = stack /\ applied' = applied
    BY <1>3 DEF model
  <2>2. TypeOK'
    BY <1>1, <1>2, <1>3, <2>1 DEF TurnsInv, TypeOK
  <2>3. CallsApart' /\ Connected' /\ UpToDate'
    BY <1>1, <2>1 DEF TurnsInv, CallsApart, Connected, UpToDate, HasTurn
  <2>4. Emissions'
    BY <1>1, <1>2, <1>3, <2>1 DEF TurnsInv, Emissions
  <2> QED
    BY <2>2, <2>3, <2>4 DEF TurnsInv
<1>4. CASE /\ event.kind = "parsed" /\ OnEvent(event.what) /\ loc' = "event"
           /\ applied' = Append(applied, [ev |-> event.what, fed |-> FALSE])
  <2>1. event.what \in Event
    BY <1>4, EventFacts
  <2>2. EventInv'
    BY <1>1, <1>4, <2>1, EventKeeps DEF TurnsInv
  <2>3. applied' \in Seq(Application)
    BY <1>4, <2>1, AppliedFacts DEF TurnsInv, TypeOK
  <2>4. TypeOK'
    BY <1>1, <1>2, <1>4, <2>2, <2>3 DEF TurnsInv, TypeOK, EventInv
  <2>5. Emissions'
    BY <1>1, <1>2, <1>4, <2>2 DEF Emissions
  <2> QED
    BY <2>2, <2>4, <2>5 DEF TurnsInv, EventInv
<1> QED
  BY <1>3, <1>4 DEF OnMessage

LEMMA ObserverFeedsKeeps ==
  ASSUME TurnsInv, ObserverFeeds
  PROVE  TurnsInv'
<1>1. PICK ev \in Fed : OnEvent(ev) /\ applied' = Append(applied, [ev |-> ev, fed |-> TRUE])
  BY DEF ObserverFeeds
<1>2. /\ loc = "event" /\ loc' = loc /\ stack # << >> /\ listeners' = listeners /\ told' = told
      /\ responses' = responses /\ seen' = seen /\ UNCHANGED observers
  BY DEF ObserverFeeds, ObserverRuns, observers
<1>3. ev \in Event
  BY EventFacts
<1>4. EventInv'
  BY <1>1, <1>2, <1>3, EventKeeps DEF TurnsInv
<1>5. applied' \in Seq(Application)
  <2>1. applied \in Seq(Application) /\ TRUE \in BOOLEAN
    BY DEF TurnsInv, TypeOK
  <2> QED
    BY <1>1, <1>3, <2>1, AppliedFacts
<1>6. TypeOK'
  BY <1>2, <1>4, <1>5 DEF TurnsInv, TypeOK, EventInv
<1>7. Emissions'
  BY <1>2, <1>5 DEF TurnsInv, Emissions
<1> QED
  BY <1>4, <1>6, <1>7 DEF TurnsInv, EventInv

\* The observer on top of the stack is told the state of its call.
LEMMA TellKeeps ==
  ASSUME TurnsInv, Emitting, Top.todo # << >>, stack' = Told, UNCHANGED <<model, loc, history>>,
         NEW c, c = calls[Top.call],
         told' = [told EXCEPT ![Head(Top.todo)][c.id] = c.state],
         listeners' \in [Id -> Seq(Observer)],
         \A id \in Id : ToSet(listeners[id]) \subseteq ToSet(listeners'[id]),
         Top.signal = "on_call" => Head(Top.todo) \in ToSet(listeners'[c.id])
  PROVE  TurnsInv'
<1>1. /\ calls' = calls /\ registration' = registration /\ loc' = loc /\ loc = "event"
      /\ seen' = seen /\ applied' = applied /\ responses' = responses /\ stack # << >>
  BY DEF model, history, Emitting
<1>2. PICK x, top : x = Head(Top.todo) /\ top = Top /\ top = stack[Len(stack)]
  BY DEF Top
<1>3. /\ stack' \in Seq(Emission) /\ DOMAIN stack' = DOMAIN stack
      /\ Len(stack) \in DOMAIN stack /\ top \in Emission /\ x \in Observer
      /\ \A k \in DOMAIN stack :
            /\ stack'[k].signal = stack[k].signal /\ stack'[k].call = stack[k].call
            /\ stack'[k].stale = stack[k].stale
            /\ k # Len(stack) => stack'[k].todo = stack[k].todo
            /\ \A o \in ToSet(stack[k].todo) :
                  o \in ToSet(stack'[k].todo) \/ (k = Len(stack) /\ o = x)
  BY <1>1, <1>2, ToldFacts DEF TurnsInv
<1>4. /\ top.call \in DOMAIN calls /\ c = calls[top.call] /\ c \in Call
      /\ c.id \in Id /\ c.state \in State
  <2>1. top.call \in DOMAIN calls /\ c = calls[top.call]
    BY <1>2, <1>3 DEF TurnsInv, CallsApart
  <2>2. c \in Call
    BY <2>1 DEF TurnsInv, TypeOK
  <2> QED
    BY <2>1, <2>2 DEF Call
<1>5. /\ told' \in [Observer -> [Id -> State \cup {None}]]
      /\ told'[x][c.id] = c.state
      /\ \A o \in Observer, id \in Id : ~(o = x /\ id = c.id) => told'[o][id] = told[o][id]
  <2>1. PICK row : row = [told[x] EXCEPT ![c.id] = c.state]
    OBVIOUS
  <2>2. told' = [told EXCEPT ![x] = row]
    BY <1>2, <2>1
  <2>3. told \in [Observer -> [Id -> State \cup {None}]]
    BY DEF TurnsInv, TypeOK
  <2>4. /\ row \in [Id -> State \cup {None}] /\ row[c.id] = c.state
        /\ \A id \in Id : id # c.id => row[id] = told[x][id]
    BY <1>3, <1>4, <2>1, <2>3
  <2> QED
    BY <1>3, <2>2, <2>3, <2>4
<1>6. ASSUME NEW o, NEW i, NEW signals, HasTurn(o, i, signals)
      PROVE  HasTurn(o, i, signals)' \/ (o = x /\ i = top.call /\ top.signal \in signals)
  BY <1>2, <1>3, <1>6 DEF HasTurn
<1>7. \A i \in DOMAIN calls : calls[i] \in Call /\ calls[i].id \in Id
  <2> TAKE i \in DOMAIN calls
  <2>1. calls[i] \in Call
    BY DEF TurnsInv, TypeOK
  <2> QED
    BY <2>1 DEF Call
<1>8. TypeOK'
  BY <1>1, <1>3, <1>5 DEF TurnsInv, TypeOK
<1>9. CallsApart'
  BY <1>1, <1>3 DEF TurnsInv, CallsApart
<1>10. Connected'
  <2> SUFFICES ASSUME NEW o \in Observer, NEW i \in DOMAIN calls
               PROVE  o \in ToSet(listeners'[calls[i].id]) \/ HasTurn(o, i, {"on_call"})'
    BY <1>1 DEF Connected
  <2>1. CASE o \in ToSet(listeners[calls[i].id])
    BY <1>7, <2>1
  <2>2. CASE HasTurn(o, i, {"on_call"})
    <3>1. HasTurn(o, i, {"on_call"})' \/ (o = x /\ i = top.call /\ top.signal \in {"on_call"})
      BY <1>6, <2>2
    <3>2. CASE o = x /\ i = top.call /\ top.signal \in {"on_call"}
      <4>1. top.signal = "on_call"
        BY <3>2
      <4> QED
        BY <1>2, <1>4, <3>2, <4>1
    <3> QED
      BY <3>1, <3>2
  <2> QED
    BY <2>1, <2>2 DEF TurnsInv, Connected
<1>11. UpToDate'
  <2> SUFFICES ASSUME NEW o \in Observer, NEW i \in DOMAIN calls
               PROVE  \/ told'[o][calls[i].id] = calls[i].state
                      \/ HasTurn(o, i, {"on_call", "on_state_change"})'
    BY <1>1 DEF UpToDate
  <2>1. CASE o = x /\ i = top.call
    BY <1>4, <1>5, <2>1
  <2>2. CASE ~(o = x /\ i = top.call)
    <3>1. told'[o][calls[i].id] = told[o][calls[i].id]
      <4>1. ~(o = x /\ calls[i].id = c.id)
        BY <1>4, <2>2 DEF TurnsInv, CallsApart
      <4> QED
        BY <1>5, <1>7, <4>1
    <3>2. HasTurn(o, i, {"on_call", "on_state_change"}) =>
             HasTurn(o, i, {"on_call", "on_state_change"})'
      BY <1>6, <2>2
    <3> QED
      BY <3>1, <3>2 DEF TurnsInv, UpToDate
  <2> QED
    BY <2>1, <2>2
<1>12. Emissions'
  BY <1>1, <1>3 DEF TurnsInv, Emissions
<1> QED
  BY <1>8, <1>9, <1>10, <1>11, <1>12 DEF TurnsInv

LEMMA TellCallKeeps ==
  ASSUME TurnsInv, TellCall
  PROVE  TurnsInv'
<1>1. PICK c, x : c = calls[Top.call] /\ x = Head(Top.todo)
  OBVIOUS
<1>2. /\ told' = [told EXCEPT ![x][c.id] = c.state]
      /\ listeners' = [listeners EXCEPT ![c.id] = Append(@, x)]
      /\ Emitting /\ Top.todo # << >> /\ stack' = Told /\ UNCHANGED <<model, loc, history>>
      /\ stack # << >>
  BY <1>1 DEF TellCall, Emitting
<1>3. x \in Observer /\ c.id \in Id
  <2>1. Len(stack) \in DOMAIN stack /\ Top = stack[Len(stack)] /\ x \in Observer
    BY <1>1, <1>2, ToldFacts DEF TurnsInv, Top
  <2>2. c \in Call
    BY <1>1, <2>1 DEF TurnsInv, CallsApart, TypeOK
  <2> QED
    BY <2>1, <2>2 DEF Call
<1>4. /\ listeners' \in [Id -> Seq(Observer)]
      /\ \A id \in Id : ToSet(listeners[id]) \subseteq ToSet(listeners'[id])
      /\ x \in ToSet(listeners'[c.id])
  <2>1. listeners \in [Id -> Seq(Observer)]
    BY DEF TurnsInv, TypeOK
  <2>2. PICK s : s = listeners[c.id] /\ s \in Seq(Observer)
    BY <1>3, <2>1
  <2>3. PICK t : t = Append(s, x)
    OBVIOUS
  <2>4. /\ t \in Seq(Observer) /\ Len(s) \in Nat /\ DOMAIN s = 1..Len(s)
        /\ DOMAIN t = 1..(Len(s) + 1) /\ t[Len(s) + 1] = x
        /\ \A k \in DOMAIN s : t[k] = s[k]
    BY <1>3, <2>2, <2>3
  <2>5. ToSet(s) \subseteq ToSet(t) /\ x \in ToSet(t)
    <3>1. Len(s) + 1 \in DOMAIN t /\ DOMAIN s \subseteq DOMAIN t
      BY <2>4
    <3> QED
      BY <2>4, <3>1 DEF ToSet
  <2>6. listeners' = [listeners EXCEPT ![c.id] = t]
    BY <1>2, <2>2, <2>3
  <2>7. listeners'[c.id] = t /\ \A id \in Id : id # c.id => listeners'[id] = listeners[id]
    BY <1>3, <2>1, <2>6
  <2>8. listeners' \in [Id -> Seq(Observer)]
    BY <2>1, <2>4, <2>6
  <2> QED
    BY <2>2, <2>5, <2>7, <2>8
<1> QED
  BY <1>1, <1>2, <1>4, TellKeeps

LEMMA TellStateKeeps ==
  ASSUME TurnsInv, TellState
  PROVE  TurnsInv'
<1>1. PICK c : c = calls[Top.call]
  OBVIOUS
<1>2. /\ told' = [told EXCEPT ![Head(Top.todo)][c.id] = c.state] /\ listeners' = listeners
      /\ Emitting /\ Top.todo # << >> /\ stack' = Told /\ UNCHANGED <<model, loc, history>>
      /\ Top.signal # "on_call"
  BY <1>1 DEF TellState
<1>3. listeners' \in [Id -> Seq(Observer)]
  BY <1>2 DEF TurnsInv, TypeOK
<1>4. \A id \in Id : ToSet(listeners[id]) \subseteq ToSet(listeners'[id])
  BY <1>2
<1> QED
  BY <1>1, <1>2, <1>3, <1>4, TellKeeps

\* Emissions lose nobody whose turn is still to come.
LEMMA FewerEmissionsKeep ==
  ASSUME TurnsInv, UNCHANGED <<model, observers, history>>,
         loc' = loc, loc = "event", stack' \in Seq(Emission),
         \A k \in DOMAIN stack' :
            /\ k \in DOMAIN stack
            /\ stack'[k].call = stack[k].call /\ stack'[k].stale = stack[k].stale,
         \A o, i : \A signals : HasTurn(o, i, signals) => HasTurn(o, i, signals)'
  PROVE  TurnsInv'
<1>1. /\ calls' = calls /\ registration' = registration /\ listeners' = listeners /\ told' = told
      /\ seen' = seen /\ applied' = applied /\ responses' = responses
  BY DEF model, observers, history
<1>2. TypeOK'
  BY <1>1 DEF TurnsInv, TypeOK
<1>3. CallsApart'
  BY <1>1 DEF TurnsInv, CallsApart
<1>4. Connected' /\ UpToDate'
  BY <1>1 DEF TurnsInv, Connected, UpToDate
<1>5. Emissions'
  BY <1>1 DEF TurnsInv, Emissions
<1> QED
  BY <1>2, <1>3, <1>4, <1>5 DEF TurnsInv

LEMMA EmissionEndsKeeps ==
  ASSUME TurnsInv, EmissionEnds
  PROVE  TurnsInv'
<1>1. /\ stack \in Seq(Emission) /\ Len(stack) \in Nat \ {0} /\ DOMAIN stack = 1..Len(stack)
      /\ loc = "event" /\ loc' = loc /\ UNCHANGED <<model, observers, history>>
  BY DEF EmissionEnds, Emitting, TurnsInv, TypeOK
<1>2. PICK n : n = Len(stack) - 1
  OBVIOUS
<1>3. /\ stack' \in Seq(Emission) /\ DOMAIN stack' = 1..n
      /\ \A k \in 1..n : k \in DOMAIN stack /\ stack'[k] = stack[k]
      /\ \A k \in DOMAIN stack : k \in 1..n \/ k = Len(stack)
  BY <1>1, <1>2 DEF EmissionEnds
<1>4. ASSUME NEW o, NEW i, NEW signals, HasTurn(o, i, signals)
      PROVE  HasTurn(o, i, signals)'
  <2>1. PICK k \in DOMAIN stack : /\ stack[k].signal \in signals /\ stack[k].call = i
                                  /\ o \in ToSet(stack[k].todo)
    BY <1>4 DEF HasTurn
  <2>2. k # Len(stack)
    <3>1. ToSet(<< >>) = {}
      BY DEF ToSet
    <3> QED
      BY <2>1, <3>1 DEF EmissionEnds, Top
  <2>3. k \in DOMAIN stack' /\ stack'[k] = stack[k]
    BY <1>3, <2>2
  <2> QED
    BY <2>1, <2>3 DEF HasTurn
<1>5. \A k \in DOMAIN stack' :
         /\ k \in DOMAIN stack
         /\ stack'[k].call = stack[k].call /\ stack'[k].stale = stack[k].stale
  BY <1>3
<1> QED
  BY <1>1, <1>3, <1>4, <1>5, FewerEmissionsKeep

LEMMA ObserverReturnsKeeps ==
  ASSUME TurnsInv, ObserverReturns
  PROVE  TurnsInv'
<1>1. /\ stack \in Seq(Emission) /\ Len(stack) \in DOMAIN stack
      /\ loc = "event" /\ loc' = loc /\ UNCHANGED <<model, observers, history>>
  BY DEF ObserverReturns, ObserverRuns, TurnsInv, TypeOK
<1>2. PICK e : e = [stack[Len(stack)] EXCEPT !.running = None]
  OBVIOUS
<1>3. stack' = [stack EXCEPT ![Len(stack)] = e]
  BY <1>2 DEF ObserverReturns
<1>4. PICK top \in Emission : top = stack[Len(stack)]
  BY <1>1
<1>5. /\ e \in Emission /\ e.signal = top.signal /\ e.call = top.call
      /\ e.todo = top.todo /\ e.stale = top.stale
  BY <1>2, <1>4 DEF Emission
<1>6. /\ stack' \in Seq(Emission) /\ DOMAIN stack' = DOMAIN stack
      /\ \A k \in DOMAIN stack :
            /\ stack'[k].signal = stack[k].signal /\ stack'[k].call = stack[k].call
            /\ stack'[k].todo = stack[k].todo /\ stack'[k].stale = stack[k].stale
  BY <1>1, <1>3, <1>4, <1>5
<1>7. \A o, i : \A signals : HasTurn(o, i, signals) => HasTurn(o, i, signals)'
  BY <1>6 DEF HasTurn
<1> QED
  BY <1>1, <1>6, <1>7, FewerEmissionsKeep

\* Where on_json() is, or how it ended, is all that changes, or a response is told.
LEMMA OtherStepsKeep ==
  ASSUME TurnsInv, EventDone \/ OnResponse \/ TellCallStale \/ ObserverThrows
  PROVE  TurnsInv'
<1>1. /\ calls' = calls /\ registration' = registration /\ listeners' = listeners /\ told' = told
      /\ stack' = stack /\ seen' = seen /\ applied' = applied
  BY DEF EventDone, OnResponse, TellCallStale, ObserverThrows, model, observers, history
<1>2. /\ loc # "idle"
      /\ loc' \in {"idle", "response", "thrown", "undefined"}
      /\ loc' \in {"idle", "response"} => stack = << >>
  <2>1. CASE EventDone
    BY <2>1 DEF EventDone
  <2>2. CASE OnResponse
    BY <2>2 DEF OnResponse, TurnsInv, Emissions
  <2>3. CASE TellCallStale
    BY <2>3 DEF TellCallStale, Emitting
  <2>4. CASE ObserverThrows
    BY <2>4 DEF ObserverThrows, ObserverRuns
  <2> QED
    BY <2>1, <2>2, <2>3, <2>4
<1>3. responses' \in Seq([ok : BOOLEAN])
  <2>1. CASE responses' = responses
    BY <2>1 DEF TurnsInv, TypeOK
  <2>2. CASE responses' # responses
    <3>1. PICK m \in Messages : /\ m = Message /\ ParseResponse(m).kind = "parsed"
                                /\ responses' = Append(responses, ParseResponse(m).what)
      <4>1. OnResponse
        BY <2>2 DEF EventDone, TellCallStale, ObserverThrows, history
      <4>2. Message \in Messages
        <5>1. seen \in Seq(Messages) /\ seen # << >>
          BY <4>1 DEF OnResponse, TurnsInv, TypeOK, Emissions
        <5> QED
          BY <5>1 DEF Message
      <4> QED
        BY <2>2, <4>1, <4>2 DEF OnResponse
    <3>2. Has(m, "ok", "bool") /\ ParseResponse(m).what = [ok |-> m.ok.v]
      BY <3>1, KindsDiffer DEF ParseResponse
    <3>3. m["ok"].v \in BOOLEAN
      BY <3>2, BaresipAssumption DEF Has
    <3>4. ParseResponse(m).what \in [ok : BOOLEAN]
      BY <3>2, <3>3
    <3>5. responses \in Seq([ok : BOOLEAN])
      BY DEF TurnsInv, TypeOK
    <3> QED
      BY <3>1, <3>4, <3>5
  <2> QED
    BY <2>1, <2>2
<1>4. TypeOK'
  BY <1>1, <1>2, <1>3 DEF TurnsInv, TypeOK
<1>5. CallsApart' /\ Connected' /\ UpToDate'
  BY <1>1 DEF TurnsInv, CallsApart, Connected, UpToDate, HasTurn
<1>6. Emissions'
  BY <1>1, <1>2 DEF TurnsInv, Emissions
<1> QED
  BY <1>4, <1>5, <1>6 DEF TurnsInv

LEMMA InitTurns ==
  ASSUME Init
  PROVE  TurnsInv
<1>1. TypeOK
  BY DEF Init, TypeOK
<1>2. CallsApart /\ Connected /\ UpToDate /\ Emissions
  BY DEF Init, CallsApart, Connected, UpToDate, Emissions
<1> QED
  BY <1>1, <1>2 DEF TurnsInv

LEMMA TurnsPreserved == TurnsInv /\ [Next]_vars => TurnsInv'
<1> SUFFICES ASSUME TurnsInv, [Next]_vars
             PROVE  TurnsInv'
  OBVIOUS
<1>1. CASE \E m \in Messages : OnMessage(m)
  BY <1>1, OnMessageKeeps
<1>2. CASE EventDone \/ OnResponse \/ TellCallStale \/ ObserverThrows
  BY <1>2, OtherStepsKeep
<1>3. CASE TellCall
  BY <1>3, TellCallKeeps
<1>4. CASE TellState
  BY <1>4, TellStateKeeps
<1>5. CASE EmissionEnds
  BY <1>5, EmissionEndsKeeps
<1>6. CASE ObserverFeeds
  BY <1>6, ObserverFeedsKeeps
<1>7. CASE ObserverReturns
  BY <1>7, ObserverReturnsKeeps
<1>8. CASE UNCHANGED vars
  BY <1>8 DEF vars, model, observers, history, TurnsInv, TypeOK, CallsApart, Connected, UpToDate,
              HasTurn, Emissions
<1> QED
  BY <1>1, <1>2, <1>3, <1>4, <1>5, <1>6, <1>7, <1>8 DEF Next

-------------------------------------------------------------------------------
(* The model and the events it was given *)

\* The events, of which there are some, make the call.
Sums(c, events) ==
    /\ events # << >>
    /\ c.direction = Head(events).ev.direction
    /\ c.state = Last(events).ev.type

Replayed ==
    /\ \A i \in DOMAIN calls : Sums(calls[i], CallEvents(calls[i].id))
    /\ \A id \in Id : CallEvents(id) # << >> => \E i \in DOMAIN calls : calls[i].id = id

\* Each message is matched by what the model was given for it.
InOrder(given, saying) ==
    /\ Len(given) = Len(saying)
    /\ \A i \in DOMAIN given : Says(saying[i], given[i].ev)

Ordered == InOrder(Only(applied, FromMessage), Only(seen, SaysEvent))

\* The calls are in the order of their first events, and a reference is stale
\* only since a call that an observer has fed made the vector grow.
InOrderOfBegin == \A i, j \in DOMAIN calls : i < j => BegunBefore(i, j)

StaleIfOutgrown == \A k \in DOMAIN stack : stack[k].stale = TRUE => Outgrown(stack[k].call)

Dated == InOrderOfBegin /\ StaleIfOutgrown /\ UndefinedOnlyIfFed

BaresipInv == TurnsInv /\ Replayed /\ Ordered /\ Dated

LEMMA SumsGrow ==
  ASSUME NEW s \in Seq(Application), NEW a \in Application, NEW c, NEW d,
         d.state = a.ev.type,
         IF s = << >> THEN d.direction = a.ev.direction
         ELSE Sums(c, s) /\ d.direction = c.direction
  PROVE  Sums(d, Append(s, a))
<1>1. PICK t : t = Append(s, a)
  OBVIOUS
<1>2. /\ t \in Seq(Application) /\ Len(s) \in Nat /\ Len(t) = Len(s) + 1 /\ t[Len(s) + 1] = a
      /\ \A i \in 1..Len(s) : t[i] = s[i]
      /\ s = << >> <=> Len(s) = 0
  BY <1>1
<1>3. t # << >> /\ Last(t) = a
  BY <1>2 DEF Last
<1>4. d.direction = Head(t).ev.direction
  <2>1. Head(t) = t[1]
    BY <1>2, <1>3
  <2>2. CASE s = << >>
    BY <1>2, <2>1, <2>2
  <2>3. CASE s # << >>
    <3>1. Head(s) = s[1] /\ 1 \in 1..Len(s)
      BY <1>2, <2>3
    <3> QED
      BY <1>2, <2>1, <2>3, <3>1 DEF Sums
  <2> QED
    BY <2>2, <2>3
<1> QED
  BY <1>1, <1>3, <1>4 DEF Sums

LEMMA CallEventsGrow ==
  ASSUME applied \in Seq(Application), NEW a \in Application, applied' = Append(applied, a)
  PROVE  \A id \in Id :
            /\ CallEvents(id) \in Seq(Application)
            /\ CallEvents(id)' = IF a.ev.class = "call" /\ a.ev.id = id
                                 THEN Append(CallEvents(id), a) ELSE CallEvents(id)
<1> TAKE id \in Id
<1>1. PICK of : of = OfCall[id]
  OBVIOUS
<1>2. a \in of <=> (a.ev.class = "call" /\ a.ev.id = id)
  BY <1>1 DEF OfCall
<1>3. CallEvents(id) = Only(applied, of) /\ CallEvents(id)' = Only(applied', of)
  BY <1>1 DEF CallEvents
<1>4. Only(applied', of) = IF a \in of THEN Append(Only(applied, of), a) ELSE Only(applied, of)
  BY OnlyAppend
<1>5. Only(applied, of) \in Seq(Application)
  <2>1. Only(applied, of) \in Seq(Application \cap of)
    BY OnlyType
  <2> QED
    BY <2>1
<1> QED
  BY <1>2, <1>3, <1>4, <1>5

\* An event makes the model what its events say, one more included.
LEMMA EventReplayed ==
  ASSUME TurnsInv, Replayed, NEW ev \in Event, NEW fed \in BOOLEAN, OnEvent(ev),
         applied' = Append(applied, [ev |-> ev, fed |-> fed])
  PROVE  Replayed'
<1>0. PICK new : new = [id \in Id |-> Only(applied', OfCall[id])]
  OBVIOUS
<1>1. PICK a \in Application : a = [ev |-> ev, fed |-> fed]
  BY DEF Application
<1>2. a.ev = ev
  BY <1>1
<1>3. /\ applied \in Seq(Application) /\ applied' = Append(applied, a)
      /\ calls \in Seq(Call)
      /\ \A i \in DOMAIN calls : calls[i] \in Call /\ calls[i].id \in Id
  <2>1. calls \in Seq(Call)
    BY DEF TurnsInv, TypeOK
  <2>2. \A i \in DOMAIN calls : calls[i] \in Call
    BY <2>1
  <2> QED
    BY <1>1, <2>1, <2>2 DEF TurnsInv, TypeOK, Call
<1>4. \A id \in Id :
         /\ CallEvents(id) \in Seq(Application)
         /\ new[id] = IF ev.class = "call" /\ ev.id = id
                       THEN Append(CallEvents(id), a) ELSE CallEvents(id)
  BY <1>0, <1>2, <1>3, CallEventsGrow DEF CallEvents
<1> SUFFICES /\ \A i \in DOMAIN calls' : calls'[i].id \in Id /\ Sums(calls'[i], new[calls'[i].id])
             /\ \A id \in Id : new[id] # << >> => \E i \in DOMAIN calls' : calls'[i].id = id
  BY <1>0 DEF Replayed, CallEvents
<1>5. CASE ev.class = "register" /\ OnRegisterEvent(ev)
  <2>1. calls' = calls /\ \A id \in Id : new[id] = CallEvents(id)
    BY <1>4, <1>5 DEF OnRegisterEvent
  <2> QED
    BY <1>3, <2>1 DEF Replayed
<1>6. CASE ev.class = "call" /\ OnNewCall(ev)
  <2>1. PICK c, n : c = NewCall(ev) /\ n = Len(calls) + 1
    OBVIOUS
  <2>2. c \in Call /\ c.id = ev.id /\ c.state = ev.type /\ c.direction = ev.direction
    BY <1>6, <2>1, EventFacts DEF NewCall, Call, IsEvent
  <2>3. calls' = Append(calls, c) /\ \A i \in DOMAIN calls : calls[i].id # ev.id
    BY <1>6, <2>1 DEF OnNewCall
  <2>4. /\ DOMAIN calls' = DOMAIN calls \cup {n} /\ n \notin DOMAIN calls
        /\ \A i \in DOMAIN calls : calls'[i] = calls[i]
        /\ calls'[n] = c
    <3>1. Len(calls) \in Nat /\ DOMAIN calls = 1..Len(calls) /\ DOMAIN calls' = 1..n
      BY <1>3, <2>1, <2>2, <2>3
    <3>2. \A i \in DOMAIN calls : calls'[i] = calls[i]
      BY <1>3, <2>2, <2>3
    <3>3. calls'[n] = c
      BY <1>3, <2>1, <2>2, <2>3
    <3> QED
      BY <2>1, <3>1, <3>2, <3>3
  <2>5. ev.id \in Id /\ CallEvents(ev.id) = << >>
    <3>1. ev.id \in Id
      BY <2>2 DEF Call
    <3> QED
      BY <2>3, <3>1 DEF Replayed
  <2>6. new[ev.id] = Append(CallEvents(ev.id), a)
    BY <1>4, <1>6, <2>5
  <2>7. Sums(c, Append(CallEvents(ev.id), a))
    BY <1>2, <1>4, <2>2, <2>5, SumsGrow
  <2>8. \A i \in DOMAIN calls' : calls'[i].id \in Id /\ Sums(calls'[i], new[calls'[i].id])
    <3> SUFFICES ASSUME NEW i \in DOMAIN calls'
                 PROVE  calls'[i].id \in Id /\ Sums(calls'[i], new[calls'[i].id])
      OBVIOUS
    <3>1. CASE i = n
      BY <2>2, <2>4, <2>5, <2>6, <2>7, <3>1
    <3>2. CASE i # n
      <4>1. i \in DOMAIN calls /\ calls'[i] = calls[i] /\ calls[i].id \in Id /\ calls[i].id # ev.id
        BY <1>3, <2>3, <2>4, <3>2
      <4>2. new[calls[i].id] = CallEvents(calls[i].id)
        BY <1>4, <4>1
      <4> QED
        BY <4>1, <4>2 DEF Replayed
    <3> QED
      BY <3>1, <3>2
  <2>9. \A id \in Id : new[id] # << >> => \E i \in DOMAIN calls' : calls'[i].id = id
    <3> SUFFICES ASSUME NEW id \in Id, new[id] # << >>
                 PROVE  \E i \in DOMAIN calls' : calls'[i].id = id
      OBVIOUS
    <3>1. CASE id = ev.id
      BY <2>2, <2>4, <3>1
    <3>2. CASE id # ev.id
      <4>1. CallEvents(id) # << >>
        BY <1>4, <3>2
      <4>2. PICK i \in DOMAIN calls : calls[i].id = id
        BY <4>1 DEF Replayed
      <4> QED
        BY <2>4, <4>2
    <3> QED
      BY <3>1, <3>2
  <2> QED
    BY <2>8, <2>9
<1>7. CASE /\ ev.class = "call"
           /\ \E i \in DOMAIN calls : OnKnownCall(ev, i)
  <2>1. PICK i \in DOMAIN calls : OnKnownCall(ev, i)
    BY <1>7
  <2>2. PICK d : d = [calls[i] EXCEPT !.state = ev.type]
    OBVIOUS
  <2>3. PICK c \in Call : c = calls[i]
    BY <1>3
  <2>4. /\ d.id = c.id /\ d.state = ev.type /\ d.direction = c.direction
        /\ c.id = ev.id /\ ev.id \in Id
    BY <1>3, <2>1, <2>2, <2>3 DEF OnKnownCall, Call
  <2>5. /\ DOMAIN calls' = DOMAIN calls /\ calls'[i] = d
        /\ \A j \in DOMAIN calls : j # i => calls'[j] = calls[j]
    BY <1>3, <2>1, <2>2 DEF OnKnownCall
  <2>6. Sums(c, CallEvents(ev.id))
    BY <2>3, <2>4 DEF Replayed
  <2>7. new[ev.id] = Append(CallEvents(ev.id), a)
    BY <1>4, <1>7, <2>4
  <2>8. Sums(d, Append(CallEvents(ev.id), a))
    <3>1. CallEvents(ev.id) # << >>
      BY <2>6 DEF Sums
    <3> QED
      BY <1>2, <1>4, <2>4, <2>6, <3>1, SumsGrow
  <2>9. \A j \in DOMAIN calls' : calls'[j].id \in Id /\ Sums(calls'[j], new[calls'[j].id])
    <3> SUFFICES ASSUME NEW j \in DOMAIN calls'
                 PROVE  calls'[j].id \in Id /\ Sums(calls'[j], new[calls'[j].id])
      OBVIOUS
    <3>1. CASE j = i
      BY <2>4, <2>5, <2>7, <2>8, <3>1
    <3>2. CASE j # i
      <4>1. /\ j \in DOMAIN calls /\ calls'[j] = calls[j] /\ calls[j].id \in Id
            /\ calls[j].id # ev.id
        BY <1>3, <2>3, <2>4, <2>5, <3>2 DEF TurnsInv, CallsApart
      <4>2. new[calls[j].id] = CallEvents(calls[j].id)
        BY <1>4, <4>1
      <4> QED
        BY <4>1, <4>2 DEF Replayed
    <3> QED
      BY <3>1, <3>2
  <2>10. \A id \in Id : new[id] # << >> => \E j \in DOMAIN calls' : calls'[j].id = id
    <3> SUFFICES ASSUME NEW id \in Id, new[id] # << >>
                 PROVE  \E j \in DOMAIN calls' : calls'[j].id = id
      OBVIOUS
    <3>1. CASE id = ev.id
      BY <2>4, <2>5, <3>1
    <3>2. CASE id # ev.id
      <4>1. CallEvents(id) # << >>
        BY <1>4, <3>2
      <4>2. PICK j \in DOMAIN calls : calls[j].id = id
        BY <4>1 DEF Replayed
      <4>3. j # i
        BY <2>3, <2>4, <3>2, <4>2
      <4> QED
        BY <2>5, <4>2, <4>3
    <3> QED
      BY <3>1, <3>2
  <2> QED
    BY <2>9, <2>10
<1> QED
  BY <1>5, <1>6, <1>7 DEF OnEvent

-------------------------------------------------------------------------------
(* The messages and what the model was given *)

LEMMA InOrderGrow ==
  ASSUME NEW s \in Seq(Application), NEW t \in Seq(Messages), InOrder(s, t),
         NEW a \in Application, NEW m \in Messages, Says(m, a.ev)
  PROVE  InOrder(Append(s, a), Append(t, m))
<1>1. PICK u, v : u = Append(s, a) /\ v = Append(t, m)
  OBVIOUS
<1>2. /\ Len(s) \in Nat /\ Len(t) = Len(s)
      /\ Len(u) = Len(s) + 1 /\ Len(v) = Len(s) + 1 /\ DOMAIN u = 1..(Len(s) + 1)
      /\ u[Len(s) + 1] = a /\ v[Len(s) + 1] = m
      /\ \A i \in 1..Len(s) : u[i] = s[i] /\ v[i] = t[i] /\ i \in DOMAIN s
  BY <1>1 DEF InOrder
<1>3. ASSUME NEW i \in DOMAIN u PROVE Says(v[i], u[i].ev)
  <2>1. CASE i = Len(s) + 1
    BY <1>2, <2>1
  <2>2. CASE i # Len(s) + 1
    <3>1. i \in 1..Len(s)
      BY <1>2, <2>2
    <3> QED
      BY <1>2, <3>1 DEF InOrder
  <2> QED
    BY <2>1, <2>2
<1> QED
  BY <1>1, <1>2, <1>3 DEF InOrder

LEMMA MessageOrdered ==
  ASSUME TurnsInv, Ordered, NEW m \in Messages, OnMessage(m)
  PROVE  Ordered'
<1> DEFINE event == ParseEvent(m)
<1>1. seen \in Seq(Messages) /\ seen' = Append(seen, m) /\ applied \in Seq(Application)
  BY DEF OnMessage, TurnsInv, TypeOK
<1>2. PICK s, t : s = Only(applied, FromMessage) /\ t = Only(seen, SaysEvent)
  OBVIOUS
<1>3. /\ s \in Seq(Application) /\ t \in Seq(Messages) /\ InOrder(s, t)
      /\ Only(seen', SaysEvent) = IF m \in SaysEvent THEN Append(t, m) ELSE t
  <2>1. s \in Seq(Application \cap FromMessage) /\ t \in Seq(Messages \cap SaysEvent)
    BY <1>1, <1>2, OnlyType
  <2>2. Only(seen', SaysEvent) = IF m \in SaysEvent THEN Append(t, m) ELSE t
    BY <1>1, <1>2, OnlyAppend
  <2> QED
    BY <1>2, <2>1, <2>2 DEF Ordered
<1>4. CASE (m = NotJson \/ event \in {Throws, Skipped}) /\ applied' = applied
  <2>1. m \notin SaysEvent
    BY <1>4, SaysIffParsed, NotJsonIsSkipped, KindsDiffer
  <2> QED
    BY <1>2, <1>3, <1>4, <2>1 DEF Ordered
<1>5. CASE /\ event.kind = "parsed"
           /\ applied' = Append(applied, [ev |-> event.what, fed |-> FALSE])
  <2>1. m \in SaysEvent /\ Says(m, event.what) /\ event.what \in Event
    BY <1>5, SaysIffParsed, EventFacts
  <2>2. PICK a \in Application : a = [ev |-> event.what, fed |-> FALSE]
    BY <2>1 DEF Application
  <2>3. a \in FromMessage /\ a.ev = event.what
    BY <2>2 DEF FromMessage
  <2>4. Only(applied', FromMessage) = Append(s, a)
    <3>1. applied' = Append(applied, a)
      BY <1>5, <2>2
    <3> QED
      BY <1>1, <1>2, <2>3, <3>1, OnlyAppend
  <2>5. InOrder(Append(s, a), Append(t, m))
    BY <1>3, <2>1, <2>3, InOrderGrow
  <2> QED
    BY <1>3, <2>1, <2>4, <2>5 DEF Ordered
<1> QED
  BY <1>4, <1>5 DEF OnMessage

LEMMA FedOrdered ==
  ASSUME TurnsInv, Ordered, ObserverFeeds
  PROVE  Ordered'
<1>1. PICK ev \in Fed : applied' = Append(applied, [ev |-> ev, fed |-> TRUE])
  BY DEF ObserverFeeds
<1>2. PICK a \in Application : a = [ev |-> ev, fed |-> TRUE]
  BY EventFacts DEF Application
<1>3. a \notin FromMessage
  BY <1>2 DEF FromMessage
<1>4. seen' = seen /\ applied \in Seq(Application) /\ applied' = Append(applied, a)
  BY <1>1, <1>2 DEF ObserverFeeds, TurnsInv, TypeOK
<1>5. Only(applied', FromMessage) = Only(applied, FromMessage)
  BY <1>3, <1>4, OnlyAppend
<1> QED
  BY <1>4, <1>5 DEF Ordered

-------------------------------------------------------------------------------
(* The order of the calls, and stale references *)

\* Nothing is selected if and only if nothing is in the set.
LEMMA OnlyNothing ==
  ASSUME NEW S, NEW s \in Seq(S), NEW T
  PROVE  Only(s, T) = << >> <=> \A i \in DOMAIN s : s[i] \notin T
<1>1. Len(s) \in Nat /\ DOMAIN s = 1..Len(s)
  OBVIOUS
<1>2. PICK only : only = Only(s, T)
  OBVIOUS
<1>3. only \in Seq(S \cap T)
  BY <1>2, OnlyType
<1>4. /\ Len(only) \in Nat /\ only = << >> <=> Len(only) = 0
      /\ \A n \in 1..Len(only) : only[n] \in T
  BY <1>3
<1>0. PICK at \in [1..Len(Only(s, T)) -> 1..Len(s)] :
         /\ \A n \in 1..Len(Only(s, T)) : Only(s, T)[n] = s[at[n]]
         /\ \A m, n \in 1..Len(Only(s, T)) : m < n => at[m] < at[n]
         /\ \A i \in 1..Len(s) : s[i] \in T => \E n \in 1..Len(Only(s, T)) : at[n] = i
  <2>1. Len(s) \in Nat
    BY <1>1
  <2> QED
    BY ONLY <2>1, OnlyPositions
<1>5. /\ \A n \in 1..Len(only) : only[n] = s[at[n]] /\ at[n] \in 1..Len(s)
      /\ \A i \in 1..Len(s) : s[i] \in T => \E n \in 1..Len(only) : at[n] = i
  BY <1>0, <1>2
<1>6. only = << >> => \A i \in 1..Len(s) : s[i] \notin T
  BY <1>4, <1>5
<1>7. only # << >> => \E i \in 1..Len(s) : s[i] \in T
  <2>1. only # << >> => 1 \in 1..Len(only)
    BY <1>4
  <2> QED
    BY <1>4, <1>5, <2>1
<1> QED
  BY <1>1, <1>2, <1>6, <1>7

\* Calls keep their ids, and a new one is the last.
LEMMA EventIds ==
  ASSUME calls \in Seq(Call), NEW ev \in Event, OnEvent(ev)
  PROVE  /\ Len(calls) \in Nat /\ DOMAIN calls = 1..Len(calls)
         /\ \A i \in DOMAIN calls : i \in DOMAIN calls' /\ calls'[i].id = calls[i].id
         /\ \A i \in DOMAIN calls' : i \notin DOMAIN calls =>
               /\ i = Len(calls) + 1 /\ calls'[i].id = ev.id
               /\ ev.class = "call" /\ OnNewCall(ev)
         /\ ev.class = "call" /\ OnNewCall(ev) => Len(calls) + 1 \in DOMAIN calls'
<1>1. Len(calls) \in Nat /\ DOMAIN calls = 1..Len(calls)
  OBVIOUS
<1>2. CASE ev.class = "call" /\ OnNewCall(ev)
  <2>1. PICK c, s : c = NewCall(ev) /\ s = Append(calls, c)
    OBVIOUS
  <2>2. c \in Call /\ c.id = ev.id /\ calls' = s
    BY <1>2, <2>1, EventFacts DEF NewCall, Call, IsEvent, OnNewCall
  <2>3. /\ DOMAIN s = 1..(Len(calls) + 1) /\ s[Len(calls) + 1] = c
        /\ \A i \in DOMAIN calls : s[i] = calls[i]
    BY <1>1, <2>1, <2>2
  <2> QED
    BY <1>1, <1>2, <2>2, <2>3
<1>3. CASE ev.class = "call" /\ \E i \in DOMAIN calls : OnKnownCall(ev, i)
  <2>1. PICK i \in DOMAIN calls : OnKnownCall(ev, i)
    BY <1>3
  <2>2. PICK c \in Call : c = calls[i]
    OBVIOUS
  <2>3. PICK d : d = [c EXCEPT !.state = ev.type]
    OBVIOUS
  <2>4. d.id = c.id /\ calls' = [calls EXCEPT ![i] = d]
    BY <2>1, <2>2, <2>3 DEF OnKnownCall, Call
  <2>5. DOMAIN calls' = DOMAIN calls /\ \A j \in DOMAIN calls : calls'[j].id = calls[j].id
    BY <2>2, <2>4
  <2>6. ~OnNewCall(ev)
    BY <2>1 DEF OnNewCall, OnKnownCall
  <2> QED
    BY <1>1, <2>5, <2>6
<1>4. CASE ev.class = "register" /\ OnRegisterEvent(ev)
  BY <1>1, <1>4 DEF OnRegisterEvent
<1> QED
  BY <1>2, <1>3, <1>4 DEF OnEvent

\* An event keeps the order: the first one of a new call is the newest of all.
LEMMA EventKeepsOrder ==
  ASSUME TurnsInv, Replayed, InOrderOfBegin, NEW ev \in Event, NEW a \in Application,
         a.ev = ev, OnEvent(ev), applied' = Append(applied, a)
  PROVE  InOrderOfBegin'
<1>1. calls \in Seq(Call) /\ applied \in Seq(Application)
  BY DEF TurnsInv, TypeOK
<1>2. /\ Len(calls) \in Nat /\ DOMAIN calls = 1..Len(calls)
      /\ \A i \in DOMAIN calls : i \in DOMAIN calls' /\ calls'[i].id = calls[i].id
      /\ \A i \in DOMAIN calls' : i \notin DOMAIN calls =>
            i = Len(calls) + 1 /\ calls'[i].id = ev.id /\ OnNewCall(ev) /\ ev.class = "call"
  BY <1>1, EventIds
<1>3. /\ Len(applied) \in Nat /\ DOMAIN applied = 1..Len(applied)
      /\ \A k \in 1..Len(applied) : k \in DOMAIN applied' /\ applied'[k] = applied[k]
  <2>1. Len(applied) \in Nat /\ DOMAIN applied = 1..Len(applied)
    BY <1>1
  <2>2. /\ DOMAIN applied' = 1..(Len(applied) + 1)
        /\ \A k \in 1..Len(applied) : applied'[k] = applied[k]
    BY <1>1
  <2> QED
    BY <2>1, <2>2
<1> SUFFICES ASSUME NEW i \in DOMAIN calls', NEW j \in DOMAIN calls', i < j
             PROVE  \E k \in DOMAIN applied' :
                       /\ applied'[k] \in OfCall[calls'[i].id]
                       /\ \A l \in 1..k : applied'[l] \notin OfCall[calls'[j].id]
  BY DEF InOrderOfBegin, BegunBefore
<1>4. i \in DOMAIN calls
  <2>1. j \in 1..(Len(calls) + 1) /\ i \in 1..(Len(calls) + 1)
    BY <1>2
  <2> QED
    BY <1>2, <2>1
<1>5. PICK k \in 1..Len(applied) :
         /\ applied[k] \in OfCall[calls'[i].id]
         /\ \A l \in 1..k : applied[l] \notin OfCall[calls'[j].id]
  <2>1. CASE j \in DOMAIN calls
    <3>1. BegunBefore(i, j) /\ calls'[i].id = calls[i].id /\ calls'[j].id = calls[j].id
      BY <1>2, <1>4, <2>1 DEF InOrderOfBegin
    <3> QED
      BY <1>3, <3>1 DEF BegunBefore
  <2>2. CASE j \notin DOMAIN calls
    <3>1. ev.id \in Id /\ calls'[j].id = ev.id /\ calls'[i].id = calls[i].id
      BY <1>2, <1>4, <2>2, EventFacts
    <3>2. CallEvents(ev.id) = << >>
      BY <1>2, <2>2, <3>1 DEF OnNewCall, Replayed
    <3>3. CallEvents(calls[i].id) # << >>
      BY <1>4 DEF Replayed, Sums
    <3>4. \A l \in DOMAIN applied : applied[l] \notin OfCall[ev.id]
      BY <1>1, <3>2, OnlyNothing DEF CallEvents
    <3>5. \E k \in DOMAIN applied : applied[k] \in OfCall[calls[i].id]
      BY <1>1, <3>3, OnlyNothing DEF CallEvents
    <3>6. PICK k \in DOMAIN applied : applied[k] \in OfCall[calls[i].id]
      BY <3>5
    <3>7. \A l \in 1..k : l \in DOMAIN applied
      BY <1>3, <3>6
    <3> QED
      BY <1>3, <3>1, <3>4, <3>6, <3>7
  <2> QED
    BY <2>1, <2>2
<1>6. \A l \in 1..k : l \in 1..Len(applied)
  BY <1>3, <1>5
<1> QED
  BY <1>3, <1>5, <1>6

\* What an event makes stale was outgrown by the call it begins.
LEMMA EventKeepsStale ==
  ASSUME TurnsInv, Replayed, StaleIfOutgrown, NEW ev \in Event, NEW a \in Application,
         a.ev = ev, OnEvent(ev), applied' = Append(applied, a), StaleSince(ev),
         stack # << >> => a.fed = TRUE
  PROVE  StaleIfOutgrown'
<1>1. calls \in Seq(Call) /\ applied \in Seq(Application)
  BY DEF TurnsInv, TypeOK
<1>2. /\ Len(calls) \in Nat /\ DOMAIN calls = 1..Len(calls)
      /\ \A i \in DOMAIN calls : i \in DOMAIN calls' /\ calls'[i].id = calls[i].id
      /\ \A i \in DOMAIN calls' : i \notin DOMAIN calls => calls'[i].id = ev.id
      /\ ev.class = "call" /\ OnNewCall(ev) => Len(calls) + 1 \in DOMAIN calls'
  BY <1>1, EventIds
<1>3. PICK old, new : /\ old = [id \in Id |-> CallEvents(id)]
                      /\ new = [id \in Id |-> Only(applied', OfCall[id])]
  OBVIOUS
<1>4. \A id \in Id :
         /\ old[id] = CallEvents(id) /\ old[id] \in Seq(Application)
         /\ new[id] = IF ev.class = "call" /\ ev.id = id THEN Append(old[id], a) ELSE old[id]
  BY <1>1, <1>3, CallEventsGrow DEF CallEvents
<1> SUFFICES ASSUME NEW k \in DOMAIN stack', stack'[k].stale = TRUE
             PROVE  \E j \in DOMAIN calls' :
                       /\ j > stack'[k].call /\ Reallocates(j - 1)
                       /\ calls'[j].id \in Id
                       /\ Head(new[calls'[j].id]).fed
  BY <1>3 DEF StaleIfOutgrown, Outgrown, CallEvents
<1>5. /\ k \in DOMAIN stack /\ stack'[k].call = stack[k].call
      /\ \/ stack[k].stale = TRUE
         \/ ev.class = "call" /\ OnNewCall(ev) /\ Reallocates(Len(calls))
      /\ stack[k].call \in DOMAIN calls
  BY DEF StaleSince, TurnsInv, CallsApart
<1>6. CASE stack[k].stale = TRUE
  <2>1. PICK j \in DOMAIN calls : /\ j > stack[k].call /\ Reallocates(j - 1)
                                  /\ Head(CallEvents(calls[j].id)).fed
    BY <1>5, <1>6 DEF StaleIfOutgrown, Outgrown
  <2>2. PICK c \in Call : c = calls[j]
    BY <1>1
  <2>3. PICK id \in Id : id = calls[j].id
    BY <2>2 DEF Call
  <2>4. old[id] # << >> /\ Head(old[id]).fed
    BY <1>4, <2>1, <2>3 DEF Replayed, Sums
  <2>5. Head(new[id]) = Head(old[id])
    <3>1. PICK events \in Seq(Application) : events = old[id]
      BY <1>4
    <3>2. new[id] \in {events, Append(events, a)}
      BY <1>4, <3>1
    <3>3. Head(Append(events, a)) = Head(events)
      BY <2>4, <3>1
    <3> QED
      BY <3>1, <3>2, <3>3
  <2> QED
    BY <1>2, <1>5, <2>1, <2>3, <2>4, <2>5
<1>7. CASE ev.class = "call" /\ OnNewCall(ev) /\ Reallocates(Len(calls))
  <2>1. PICK j : j = Len(calls) + 1
    OBVIOUS
  <2>2. /\ j \in DOMAIN calls' /\ j > stack[k].call /\ Reallocates(j - 1)
        /\ calls'[j].id = ev.id /\ ev.id \in Id
    BY <1>2, <1>5, <1>7, <2>1, EventFacts
  <2>3. old[ev.id] = << >>
    BY <1>4, <1>7, <2>2 DEF OnNewCall, Replayed
  <2>4. new[ev.id] = Append(<< >>, a)
    BY <1>4, <1>7, <2>2, <2>3
  <2>5. Head(new[ev.id]) = a
    BY <2>4
  <2>6. a.fed = TRUE
    BY <1>5 DEF TurnsInv, TypeOK
  <2> QED
    BY <1>5, <2>2, <2>5, <2>6
<1> QED
  BY <1>5, <1>6, <1>7

LEMMA EventDated ==
  ASSUME TurnsInv, Replayed, Dated, NEW ev \in Event, NEW fed \in BOOLEAN, OnEvent(ev),
         applied' = Append(applied, [ev |-> ev, fed |-> fed]), UNCHANGED observers,
         loc' # "undefined", stack # << >> => fed = TRUE
  PROVE  Dated'
<1>1. PICK a \in Application : a = [ev |-> ev, fed |-> fed]
  BY DEF Application
<1>2. a.ev = ev /\ a.fed = fed /\ applied' = Append(applied, a)
  BY <1>1
<1>3. StaleSince(ev)
  BY EventKeeps DEF TurnsInv
<1>4. InOrderOfBegin'
  BY <1>2, EventKeepsOrder DEF Dated
<1>5. StaleIfOutgrown'
  BY <1>2, <1>3, EventKeepsStale DEF Dated
<1> QED
  BY <1>4, <1>5 DEF Dated, UndefinedOnlyIfFed

\* Emissions go on with their calls, and no reference becomes stale.
LEMMA QuietDated ==
  ASSUME Dated, calls' = calls, applied' = applied,
         \A k \in DOMAIN stack' :
            /\ k \in DOMAIN stack
            /\ stack'[k].call = stack[k].call /\ stack'[k].stale = stack[k].stale,
         loc' # "undefined"
  PROVE  Dated'
<1>1. InOrderOfBegin'
  BY DEF Dated, InOrderOfBegin, BegunBefore
<1>2. \A i : Outgrown(i)' <=> Outgrown(i)
  BY DEF Outgrown, CallEvents
<1>3. StaleIfOutgrown'
  BY <1>2 DEF Dated, StaleIfOutgrown
<1> QED
  BY <1>1, <1>3 DEF Dated, UndefinedOnlyIfFed

\* The steps that give the model no event
Quiet ==
    \/ EventDone \/ OnResponse \/ TellCall \/ TellState \/ EmissionEnds
    \/ ObserverReturns \/ ObserverThrows

LEMMA QuietKeepsDated ==
  ASSUME TurnsInv, Dated, Quiet
  PROVE  Dated'
<1>1. calls' = calls /\ applied' = applied /\ loc' # "undefined"
  BY DEF Quiet, EventDone, OnResponse, TellCall, TellState, EmissionEnds, ObserverReturns,
         ObserverThrows, Emitting, ObserverRuns, model, history
<1>2. stack \in Seq(Emission)
  BY DEF TurnsInv, TypeOK
<1>3. CASE stack' = stack
  BY <1>1, <1>3, QuietDated
<1>4. CASE TellCall \/ TellState
  <2>1. TypeOK /\ stack # << >> /\ Top.todo # << >> /\ stack' = Told
    BY <1>4 DEF TellCall, TellState, Emitting, TurnsInv
  <2> QED
    BY <1>1, <2>1, ToldFacts, QuietDated
<1>5. CASE EmissionEnds
  <2>1. Len(stack) \in Nat \ {0} /\ DOMAIN stack = 1..Len(stack)
    BY <1>2, <1>5 DEF EmissionEnds, Emitting
  <2>2. /\ DOMAIN stack' = 1..(Len(stack) - 1)
        /\ \A k \in 1..(Len(stack) - 1) : stack'[k] = stack[k]
    BY <1>2, <1>5, <2>1 DEF EmissionEnds
  <2> QED
    BY <1>1, <2>1, <2>2, QuietDated
<1>6. CASE ObserverReturns
  <2>1. Len(stack) \in DOMAIN stack
    BY <1>2, <1>6 DEF ObserverReturns, ObserverRuns
  <2>2. PICK top \in Emission : top = stack[Len(stack)]
    BY <1>2, <2>1
  <2>3. PICK e : e = [top EXCEPT !.running = None]
    OBVIOUS
  <2>4. e.call = top.call /\ e.stale = top.stale /\ stack' = [stack EXCEPT ![Len(stack)] = e]
    BY <1>6, <2>2, <2>3 DEF ObserverReturns, Emission
  <2> QED
    BY <1>1, <1>2, <2>2, <2>4, QuietDated
<1> QED
  BY <1>3, <1>4, <1>5, <1>6
  DEF Quiet, EventDone, OnResponse, ObserverThrows

\* The emission whose reference is followed has been outgrown.
LEMMA StaleKeepsDated ==
  ASSUME TurnsInv, Dated, TellCallStale
  PROVE  Dated'
<1>1. calls' = calls /\ applied' = applied /\ stack' = stack
  BY DEF TellCallStale, model, history
<1>2. stack \in Seq(Emission) /\ stack # << >>
  BY DEF TellCallStale, Emitting, TurnsInv, TypeOK
<1>3. PICK k \in DOMAIN stack : k = Len(stack)
  BY <1>2
<1>4. Top = stack[k] /\ stack[k] \in Emission
  BY <1>2, <1>3 DEF Top
<1>5. Outgrown(Top.call)
  <2>1. stack[k].stale = TRUE
    BY <1>4 DEF TellCallStale, Emission
  <2> QED
    BY <1>4, <2>1 DEF Dated, StaleIfOutgrown
<1>6. Outgrown(Top.call)'
  BY <1>1, <1>5 DEF Outgrown, CallEvents, Top
<1>7. InOrderOfBegin' /\ StaleIfOutgrown'
  BY <1>1 DEF Dated, InOrderOfBegin, StaleIfOutgrown, BegunBefore, Outgrown, CallEvents
<1> QED
  BY <1>6, <1>7 DEF Dated, UndefinedOnlyIfFed

-------------------------------------------------------------------------------
(* The invariant *)

LEMMA InitBaresip == Init => BaresipInv
<1> SUFFICES ASSUME Init
             PROVE  BaresipInv
  OBVIOUS
<1>1. applied = << >> /\ seen = << >> /\ calls = << >>
  BY DEF Init
<1>2. Replayed
  <2>1. \A id \in Id : CallEvents(id) = << >>
    BY <1>1, OnlyEmpty DEF CallEvents
  <2> QED
    BY <1>1, <2>1 DEF Replayed
<1>3. Ordered
  <2>1. Only(applied, FromMessage) = << >> /\ Only(seen, SaysEvent) = << >>
    BY <1>1, OnlyEmpty
  <2> QED
    BY <2>1 DEF Ordered, InOrder
<1>4. Dated
  BY <1>1 DEF Init, Dated, InOrderOfBegin, StaleIfOutgrown, UndefinedOnlyIfFed
<1> QED
  BY <1>2, <1>3, <1>4, InitTurns DEF BaresipInv

LEMMA BaresipPreserved == BaresipInv /\ [Next]_vars => BaresipInv'
<1> SUFFICES ASSUME BaresipInv, [Next]_vars
             PROVE  BaresipInv'
  OBVIOUS
<1>1. TurnsInv'
  BY TurnsPreserved DEF BaresipInv
<1>2. CASE \E m \in Messages : OnMessage(m)
  <2>1. PICK m \in Messages : OnMessage(m)
    BY <1>2
  <2>2. CASE UNCHANGED <<model, stack, applied>>
    <3>1. calls' = calls /\ applied' = applied
      BY <2>2 DEF model
    <3>2. Replayed'
      BY <3>1 DEF BaresipInv, Replayed, CallEvents
    <3>3. stack' = stack /\ loc' # "undefined"
      BY <2>1, <2>2 DEF OnMessage
    <3>4. Dated'
      BY <3>1, <3>3, QuietDated DEF BaresipInv
    <3> QED
      BY <1>1, <2>1, <3>2, <3>4, MessageOrdered DEF BaresipInv
  <2>3. CASE /\ ParseEvent(m).kind = "parsed" /\ OnEvent(ParseEvent(m).what)
             /\ applied' = Append(applied, [ev |-> ParseEvent(m).what, fed |-> FALSE])
    <3>1. ParseEvent(m).what \in Event
      BY <2>3, EventFacts
    <3>2. FALSE \in BOOLEAN
      OBVIOUS
    <3>3. Replayed'
      BY <2>3, <3>1, <3>2, EventReplayed DEF BaresipInv
    <3>4. stack = << >> /\ loc' # "undefined" /\ UNCHANGED observers
      BY <2>1 DEF OnMessage, BaresipInv, TurnsInv, Emissions
    <3>5. Dated'
      BY <2>3, <3>1, <3>2, <3>4, EventDated DEF BaresipInv
    <3> QED
      BY <1>1, <2>1, <3>3, <3>5, MessageOrdered DEF BaresipInv
  <2> QED
    BY <2>1, <2>2, <2>3 DEF OnMessage
<1>3. CASE ObserverFeeds
  <2>1. PICK ev \in Fed : OnEvent(ev) /\ applied' = Append(applied, [ev |-> ev, fed |-> TRUE])
    BY <1>3 DEF ObserverFeeds
  <2>2. ev \in Event /\ TRUE \in BOOLEAN
    BY EventFacts
  <2>3. Replayed'
    BY <2>1, <2>2, EventReplayed DEF BaresipInv
  <2>4. loc' # "undefined" /\ UNCHANGED observers
    BY <1>3 DEF ObserverFeeds, ObserverRuns
  <2>5. Dated'
    BY <2>1, <2>2, <2>4, EventDated DEF BaresipInv
  <2> QED
    BY <1>1, <1>3, <2>3, <2>5, FedOrdered DEF BaresipInv
<1>4. CASE calls' = calls /\ applied' = applied /\ seen' = seen /\ Dated'
  <2>1. Replayed' /\ Ordered'
    BY <1>4 DEF BaresipInv, Replayed, Ordered, CallEvents
  <2> QED
    BY <1>1, <1>4, <2>1 DEF BaresipInv
<1>5. CASE Quiet \/ TellCallStale
  <2>1. calls' = calls /\ applied' = applied /\ seen' = seen
    BY <1>5 DEF Quiet, EventDone, OnResponse, TellCall, TellCallStale, TellState, EmissionEnds,
                ObserverReturns, ObserverThrows, model, history
  <2>2. Dated'
    BY <1>5, QuietKeepsDated, StaleKeepsDated DEF BaresipInv
  <2> QED
    BY <1>4, <2>1, <2>2
<1>6. CASE UNCHANGED vars
  <2>1. calls' = calls /\ applied' = applied /\ seen' = seen /\ stack' = stack /\ loc' = loc
    BY <1>6 DEF vars, model, history
  <2>2. Dated'
    BY <2>1 DEF BaresipInv, Dated, InOrderOfBegin, StaleIfOutgrown, UndefinedOnlyIfFed,
                BegunBefore, Outgrown, CallEvents, Top
  <2> QED
    BY <1>4, <2>1, <2>2
<1> QED
  BY <1>2, <1>3, <1>5, <1>6 DEF Next, Quiet

LEMMA BaresipInvariant == Spec => []BaresipInv
BY InitBaresip, BaresipPreserved, PTL DEF Spec

-------------------------------------------------------------------------------
(* Theorems *)

\* Ctrl, the model and its observers keep their types: what a message is parsed
\* to is an event or a response, for any JSON object that may arrive.
THEOREM BaresipTypeCorrect == Spec => []TypeOK
<1>1. BaresipInv => TypeOK
  BY DEF BaresipInv, TurnsInv
<1> QED
  BY <1>1, BaresipInvariant, PTL

\* Whatever observers of the model do in their turn, feed events to it included,
\* each of them knows the state of every call or has its turn to come.
THEOREM NobodyLeftBehindHolds == Spec => []NobodyLeftBehind
<1>1. BaresipInv => NobodyLeftBehind
  <2>1. UpToDate => NobodyLeftBehind
    BY DEF UpToDate, HasTurn, NobodyLeftBehind
  <2> QED
    BY <2>1 DEF BaresipInv, TurnsInv
<1> QED
  BY <1>1, BaresipInvariant, PTL

\* A dangling reference to a call is followed only if an observer has fed a later
\* call to the model, and the vector of calls had to grow for it.
THEOREM UndefinedOnlyIfFedHolds == Spec => []UndefinedOnlyIfFed
<1>1. BaresipInv => UndefinedOnlyIfFed
  BY DEF BaresipInv, Dated
<1> QED
  BY <1>1, BaresipInvariant, PTL

\* The calls of the model are what the events it was given say, in the order in
\* which they began.
THEOREM ModelIsReplayHolds == Spec => []ModelIsReplay
<1>1. BaresipInv => ModelIsReplay
  <2> SUFFICES ASSUME BaresipInv
               PROVE  ModelIsReplay
    OBVIOUS
  <2>1. \A i \in DOMAIN calls : calls[i].id \in Id /\ Sums(calls[i], CallEvents(calls[i].id))
    <3> TAKE i \in DOMAIN calls
    <3>1. calls[i] \in Call
      BY DEF BaresipInv, TurnsInv, TypeOK
    <3> QED
      BY <3>1 DEF Call, BaresipInv, Replayed
  <2>2. {calls[i].id : i \in DOMAIN calls} = {id \in Id : CallEvents(id) # << >>}
    <3>1. \A i \in DOMAIN calls : CallEvents(calls[i].id) # << >>
      BY <2>1 DEF Sums
    <3>2. \A id \in Id : CallEvents(id) # << >> => \E i \in DOMAIN calls : calls[i].id = id
      BY DEF BaresipInv, Replayed
    <3> QED
      BY <2>1, <3>1, <3>2
  <2>3. \A i \in DOMAIN calls :
          \E events \in {CallEvents(calls[i].id)} :
             /\ calls[i].direction = Head(events).ev.direction
             /\ calls[i].state = Last(events).ev.type
    BY <2>1 DEF Sums
  <2>4. \A i, j \in DOMAIN calls : i < j => BegunBefore(i, j)
    BY DEF BaresipInv, Dated, InOrderOfBegin
  <2> QED
    BY <2>2, <2>3, <2>4 DEF ModelIsReplay
<1> QED
  BY <1>1, BaresipInvariant, PTL

\* The model is given the events that messages say, one for one and in order.
THEOREM MessagesInOrderHolds == Spec => []MessagesInOrder
<1>1. BaresipInv => MessagesInOrder
  BY DEF BaresipInv, Ordered, InOrder, MessagesInOrder
<1> QED
  BY <1>1, BaresipInvariant, PTL
===============================================================================
