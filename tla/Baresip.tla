--------------------------------- MODULE Baresip -------------------------------
(***************************************************************************)
(* Baresip::Ctrl::on_json() (src/src/baresip-ctrl.cc) and Baresip::Model   *)
(* (src/src/baresip-model.cc), connected as the program connects them, with*)
(* observers of the model: each is connected to on_call, and to            *)
(* on_state_change of every call it hears of.  While it runs, an observer  *)
(* may feed an event to the model itself, or throw.                        *)
(*                                                                         *)
(* An emission passes its arguments on by reference: on_state_change tells *)
(* the state that the call has when an observer's turn comes, and on_call  *)
(* keeps a reference to an element of the vector of calls, which is gone   *)
(* when the vector grows.                                                  *)
(***************************************************************************)
EXTENDS BaresipProto, Naturals, SequencesExt, Selection

CONSTANTS
    Messages,       \* the JSON objects that may arrive
    Fed,            \* the events an observer may feed to the model
    Observers,      \* the observers, in the order of their connection
    MaxMessages,    \* bound on the messages
    MaxFed          \* bound on the events that observers feed

VARIABLES
    calls,          \* ModelImpl::calls_
    registration,   \* ModelImpl::registration_
    listeners,      \* the observers connected to on_state_change of a call
    told,           \* what each observer has been told of each call
    stack,          \* the emissions in progress, the innermost one last
    loc,            \* where on_json() is, or how it ended
    seen,           \* history: the messages so far
    applied,        \* history: the events the model was given, and by whom
    responses       \* history: what on_response was emitted with

model == <<calls, registration>>
observers == <<listeners, told>>
history == <<seen, applied, responses>>
vars == <<model, observers, stack, loc, history>>

NotJson == [event |-> [t |-> "not JSON"]]

Observer == ToSet(Observers)
Event == {e.what : e \in {ParseEvent(m) : m \in Messages} \ {Skipped, Throws}} \cup Fed
Id == {e.id : e \in {e \in Event : e.class = "call"}}
State == {"Established", "Incoming", "Ringing", "Closed"}
Call == [id : Id, state : State, direction : {"Incoming", "Outgoing"}]
Application == [ev : Event, fed : BOOLEAN]
None == "None"

\* An emission of on_call or on_state_change: the call, who has still to be
\* told, who is running, and whether the reference to the element is stale.
Emission == [signal : {"on_call", "on_state_change"}, call : Nat, todo : Seq(Observer),
             running : Observer \cup {None}, stale : BOOLEAN]

\* JSON values and events have the types of their C++ structures.
ASSUME BaresipAssumption ==
    /\ \A m \in Messages : \A name \in DOMAIN m : m[name].t = "bool" => m[name].v \in BOOLEAN
    /\ \A ev \in Fed :
          \/ /\ ev.class = "call"
             /\ ev.type \in State /\ ev.direction \in {"Incoming", "Outgoing"}
          \/ /\ ev.class = "register"
             /\ ev.type \in {"Ok", "Fail", "Unregistering"}
    /\ Observers \in Seq(Observer)
    /\ None \notin Observer
    /\ MaxMessages \in Nat /\ MaxFed \in Nat

TypeOK ==
    /\ calls \in Seq(Call)
    /\ registration \in {"Unknown", "Ok", "Fail"}
    /\ listeners \in [Id -> Seq(Observer)]
    /\ told \in [Observer -> [Id -> State \cup {None}]]
    /\ stack \in Seq(Emission)
    /\ loc \in {"idle", "event", "response", "thrown", "undefined"}
    /\ seen \in Seq(Messages)
    /\ applied \in Seq(Application)
    /\ responses \in Seq([ok : BOOLEAN])

Init ==
    /\ calls = << >>
    /\ registration = "Unknown"
    /\ listeners = [id \in Id |-> << >>]
    /\ told = [o \in Observer |-> [id \in Id |-> None]]
    /\ stack = << >>
    /\ loc = "idle"
    /\ seen = << >>
    /\ applied = << >>
    /\ responses = << >>

Top == stack[Len(stack)]
Message == seen[Len(seen)]

-------------------------------------------------------------------------------
(* Model *)

\* call_state() and call_direction() keep the names.
NewCall(ev) == [id |-> ev.id, state |-> ev.type, direction |-> ev.direction]

\* A vector grows by doubling, from 1: push_back() moves its elements.
Reallocates(size) == \E n \in 0..size : size = 2 ^ n \/ size = 0

Begin(signal, call, todo) ==
    IF todo = << >> THEN << >>
    ELSE <<[signal |-> signal, call |-> call, todo |-> todo, running |-> None, stale |-> FALSE]>>

\* CallImpl::on_event() of the call with the id, which ends none_of()
OnKnownCall(ev, i) ==
    /\ calls[i].id = ev.id
    /\ calls' = [calls EXCEPT ![i].state = ev.type]
    /\ stack' = IF calls[i].state = ev.type THEN stack
                ELSE stack \o Begin("on_state_change", i, listeners[ev.id])

\* Mutant of OnNewCall: the newest call is the first.
OnNewCallInFront(ev) ==
    /\ \A i \in DOMAIN calls : calls[i].id # ev.id
    /\ calls' = <<NewCall(ev)>> \o calls
    /\ stack' = [i \in DOMAIN stack |->
                    [stack[i] EXCEPT !.call = @ + 1, !.stale = @ \/ Reallocates(Len(calls))]]
                \o Begin("on_call", 1, Observers)

\* Mutant of OnNewCall: the reference is taken before the vector grows.
OnNewCallEarly(ev) ==
    /\ \A i \in DOMAIN calls : calls[i].id # ev.id
    /\ calls' = Append(calls, NewCall(ev))
    /\ LET emissions == stack \o Begin("on_call", Len(calls'), Observers)
       IN  stack' = [i \in DOMAIN emissions |->
                        [emissions[i] EXCEPT !.stale = @ \/ Reallocates(Len(calls))]]

OnNewCall(ev) ==
    /\ \A i \in DOMAIN calls : calls[i].id # ev.id
    /\ calls' = Append(calls, NewCall(ev))
    /\ stack' = [i \in DOMAIN stack |->
                    [stack[i] EXCEPT !.stale = @ \/ Reallocates(Len(calls))]]
                \o Begin("on_call", Len(calls'), Observers)

\* Mutant of OnRegisterEvent: the type is taken as it is.
OnRegisterEventRaw(ev) ==
    /\ registration' = ev.type
    /\ UNCHANGED <<calls, stack>>

OnRegisterEvent(ev) ==
    /\ registration' = IF ev.type = "Unregistering" THEN "Unknown" ELSE ev.type
    /\ UNCHANGED <<calls, stack>>

\* on_event of the model
OnEvent(ev) ==
    \/ /\ ev.class = "call"
       /\ OnNewCall(ev) \/ \E i \in DOMAIN calls : OnKnownCall(ev, i)
       /\ UNCHANGED registration
    \/ /\ ev.class = "register"
       /\ OnRegisterEvent(ev)

-------------------------------------------------------------------------------
(* Ctrl *)

\* A message is parsed as an event; the frame may hold no JSON object at all.
OnMessage(m) ==
    /\ loc = "idle"
    /\ Len(seen) < MaxMessages
    /\ seen' = Append(seen, m)
    /\ UNCHANGED <<observers, responses>>
    /\ LET event == ParseEvent(m) IN
       \/ /\ m = NotJson \/ event = Throws
          /\ loc' = "thrown"
          /\ UNCHANGED <<model, stack, applied>>
       \/ /\ m # NotJson /\ event = Skipped
          /\ loc' = "response"
          /\ UNCHANGED <<model, stack, applied>>
       \/ /\ event.kind = "parsed"
          /\ OnEvent(event.what)
          /\ loc' = "event"
          /\ applied' = Append(applied, [ev |-> event.what, fed |-> FALSE])

EventDone ==
    /\ loc = "event"
    /\ stack = << >>
    /\ loc' = "response"
    /\ UNCHANGED <<model, observers, stack, history>>

\* The same message is parsed as a response.
OnResponse ==
    /\ loc = "response"
    /\ LET response == ParseResponse(Message) IN
          /\ loc' = IF response = Throws THEN "thrown" ELSE "idle"
          /\ responses' = IF response.kind = "parsed" THEN Append(responses, response.what)
                          ELSE responses
    /\ UNCHANGED <<model, observers, stack, seen, applied>>

-------------------------------------------------------------------------------
(* Emissions and observers *)

Emitting == loc = "event" /\ stack # << >> /\ Top.running = None

Told ==
    [stack EXCEPT ![Len(stack)].todo = Tail(@), ![Len(stack)].running = Head(Top.todo)]

\* An observer of on_call looks at the state of the call and connects to it.
TellCall ==
    /\ Emitting
    /\ Top.signal = "on_call"
    /\ Top.todo # << >>
    /\ ~Top.stale
    /\ LET c == calls[Top.call] IN
          /\ told' = [told EXCEPT ![Head(Top.todo)][c.id] = c.state]
          /\ listeners' = [listeners EXCEPT ![c.id] = Append(@, Head(Top.todo))]
    /\ stack' = Told
    /\ UNCHANGED <<model, loc, history>>

\* The reference to the element of calls_ is followed into freed memory.
TellCallStale ==
    /\ Emitting
    /\ Top.signal = "on_call"
    /\ Top.todo # << >>
    /\ Top.stale
    /\ loc' = "undefined"
    /\ UNCHANGED <<model, observers, stack, history>>

\* Mutant of TellState: the outermost emission passes a copy of the state.
TellStateCopy ==
    /\ Emitting
    /\ Top.signal = "on_state_change"
    /\ Top.todo # << >>
    /\ LET c == calls[Top.call]
           sent == ParseEvent(Message).what.type
       IN  told' = [told EXCEPT ![Head(Top.todo)][c.id] =
                       IF Len(stack) = 1 THEN sent ELSE c.state]
    /\ stack' = Told
    /\ UNCHANGED <<model, listeners, loc, history>>

TellState ==
    /\ Emitting
    /\ Top.signal = "on_state_change"
    /\ Top.todo # << >>
    /\ LET c == calls[Top.call] IN told' = [told EXCEPT ![Head(Top.todo)][c.id] = c.state]
    /\ stack' = Told
    /\ UNCHANGED <<model, listeners, loc, history>>

EmissionEnds ==
    /\ Emitting
    /\ Top.todo = << >>
    /\ stack' = SubSeq(stack, 1, Len(stack) - 1)
    /\ UNCHANGED <<model, observers, loc, history>>

ObserverRuns == loc = "event" /\ stack # << >> /\ Top.running # None

ObserverFeeds ==
    /\ ObserverRuns
    /\ Cardinality({i \in DOMAIN applied : applied[i].fed}) < MaxFed
    /\ \E ev \in Fed :
          /\ OnEvent(ev)
          /\ applied' = Append(applied, [ev |-> ev, fed |-> TRUE])
    /\ UNCHANGED <<observers, loc, seen, responses>>

ObserverReturns ==
    /\ ObserverRuns
    /\ stack' = [stack EXCEPT ![Len(stack)].running = None]
    /\ UNCHANGED <<model, observers, loc, history>>

ObserverThrows ==
    /\ ObserverRuns
    /\ loc' = "thrown"
    /\ UNCHANGED <<model, observers, stack, history>>

Next ==
    \/ \E m \in Messages : OnMessage(m)
    \/ EventDone \/ OnResponse \/ TellCall \/ TellCallStale \/ TellState \/ EmissionEnds
    \/ ObserverFeeds \/ ObserverReturns \/ ObserverThrows

Spec == Init /\ [][Next]_vars

-------------------------------------------------------------------------------
(* Properties *)

\* Whatever observers do in their turn, an observer that is behind will be told:
\* what it knows of a call is the call's state, or it has its turn to come.
NobodyLeftBehind ==
    loc \in {"idle", "event", "response"} =>
        \A o \in Observer, i \in DOMAIN calls :
            \/ told[o][calls[i].id] = calls[i].state
            \/ \E k \in DOMAIN stack :
                  stack[k].call = i /\ o \in ToSet(stack[k].todo)

OfCall == [id \in Id |-> {a \in Application : a.ev.class = "call" /\ a.ev.id = id}]
CallEvents(id) == Only(applied, OfCall[id])

\* Some event of the i-th call is older than all events of the j-th.
BegunBefore(i, j) ==
    \E k \in DOMAIN applied :
        /\ applied[k] \in OfCall[calls[i].id]
        /\ \A l \in 1..k : applied[l] \notin OfCall[calls[j].id]

\* The model is what its events say, also when observers feed events in the
\* middle of others: one call for each id, in the order of their first events
\* (and so no two with one id), with the direction of the first and the state
\* of the last of its events.  (on_call_event(), baresip-model.cc)
ModelIsReplay ==
    /\ {calls[i].id : i \in DOMAIN calls} = {id \in Id : CallEvents(id) # << >>}
    /\ \A i \in DOMAIN calls :
          \E events \in {CallEvents(calls[i].id)} :
             /\ calls[i].direction = Head(events).ev.direction
             /\ calls[i].state = Last(events).ev.type
    /\ \A i, j \in DOMAIN calls : i < j => BegunBefore(i, j)

Means(table, word, value) == word \in DOMAIN table /\ table[word] = value

\* The message says the event, by the names of the protocol.
Says(m, ev) ==
    /\ IsTrue(m, "event") /\ ~Lacks(m, {"class", "type", "accountaor"})
    /\ m.class.v = ev.class
    /\ \/ /\ ev.class = "register"
          /\ Means(RegisterType, m.type.v, ev.type)
       \/ /\ ev.class = "call"
          /\ Means(CallType, m.type.v, ev.type)
          /\ ~Lacks(m, {"id", "direction", "peeruri"})
          /\ m.id.v = ev.id /\ Means(Direction, m.direction.v, ev.direction)

FromMessage == {a \in Application : ~a.fed}
SaysEvent == {m \in Messages : \E ev \in Event : Says(m, ev)}

\* The model gets the events of the messages in their order, none skipped and
\* none made up, until a message of a known type lacks something.
MessagesInOrder ==
    \E given \in {Only(applied, FromMessage)}, saying \in {Only(seen, SaysEvent)} :
        /\ Len(given) = Len(saying)
        /\ \A i \in DOMAIN given : Says(saying[i], given[i].ev)

\* A call that was made after the i-th had its first event from an observer, and
\* the vector of calls had to grow for it.
Outgrown(i) ==
    \E j \in DOMAIN calls :
        /\ j > i /\ Reallocates(j - 1)
        /\ Head(CallEvents(calls[j].id)).fed

\* An observer gets a dangling reference only if an observer has fed a new call
\* to the model since the emission began, and at a size at which the vector
\* grows: events that arrive in messages never do that, and other events that
\* are fed do not either.  (push_back() and on_call_ in on_call_event())
UndefinedOnlyIfFed == loc = "undefined" => Outgrown(Top.call)
===============================================================================
