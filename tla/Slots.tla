--------------------------------- MODULE Slots ---------------------------------
(***************************************************************************)
(* Slot<T> and AutoConnection (src/src/include/signals.h) on the signal of *)
(* module Signals: objects that hold a function and the connections that   *)
(* they were connected with, and disconnect them when they die.  Both      *)
(* EventPipe and Baresip::Model receive their events through a Slot.       *)
(*                                                                         *)
(* What connect() gives to the signal is a reference to the slot.  A slot  *)
(* can be moved, and then its connections go with it, but the reference    *)
(* does not.  An AutoConnection is moved as a Connection is, forgetting    *)
(* the old one, and its destruction is a Disconnect.                       *)
(*                                                                         *)
(* A slot's function, fn_, is no variable: it may do anything, or nothing, *)
(* which is what a slot does that has none, or has lost it in a move or a  *)
(* reset().                                                                *)
(***************************************************************************)
EXTENDS Signals

CONSTANTS
    Slot,       \* the variables of type Slot
    NoSlot      \* what the callbacks refer to that are no slots

VARIABLES
    living,     \* the slots that have not been destroyed
    conns,      \* SlotProxy::conn_, the callbacks its connections refer to
    target      \* the slot that a callback refers to

slotVars == <<living, conns, target>>

SlotsTypeOK ==
    /\ TypeOK
    /\ living \subseteq Slot
    /\ conns \in [Slot -> SUBSET Callback]
    /\ \A s \in Slot \ living : conns[s] = {}
    /\ target \in [Callback -> Slot \cup {NoSlot}]

SlotsInit ==
    /\ Init
    /\ living = Slot
    /\ conns = [s \in Slot |-> {}]
    /\ target = [c \in Callback |-> NoSlot]

\* AutoConnections are destroyed that refer to these callbacks.
Disconnected(callbacks) ==
    /\ slots' = Only(slots, Callback \ callbacks)
    /\ bound' = bound \ callbacks
    /\ UNCHANGED <<created, cb, stack, thrown>>

\* connect(slot, signal)
ConnectSlot(s, conn) ==
    /\ s \in living
    /\ Connect(conn)
    /\ target' = [target EXCEPT ![created'] = s]
    /\ conns' = [conns EXCEPT ![s] = @ \cup {created'}]
    /\ UNCHANGED living

\* Slot::disconnect()
DisconnectSlot(s) ==
    /\ MayAct
    /\ s \in living
    /\ Disconnected(conns[s])
    /\ conns' = [conns EXCEPT ![s] = {}]
    /\ UNCHANGED <<living, target>>

\* Mutant of MoveSlot: the connections of the slot that is assigned to are
\* replaced one by one, by AutoConnection's assignment.
MoveSlotForgets(s, other) ==
    /\ MayAct
    /\ s # other /\ {s, other} \subseteq living
    /\ Disconnected({})
    /\ conns' = [conns EXCEPT ![other] = conns[s], ![s] = {}]
    /\ UNCHANGED <<living, target>>

\* The default move constructor and assignment: the vector of connections that
\* is assigned to is cleared; the callbacks go on referring to s.
MoveSlot(s, other) ==
    /\ MayAct
    /\ s # other /\ {s, other} \subseteq living
    /\ Disconnected(conns[other])
    /\ conns' = [conns EXCEPT ![other] = conns[s], ![s] = {}]
    /\ UNCHANGED <<living, target>>

Destroy(s) ==
    /\ MayAct
    /\ s \in living
    /\ Disconnected(conns[s])
    /\ living' = living \ {s}
    /\ conns' = [conns EXCEPT ![s] = {}]
    /\ UNCHANGED target

\* What the program may do to the signal and its connections
Act ==
    /\ \/ \E conn \in Connection : Connect(conn) \/ Disconnect(conn)
       \/ \E conn, other \in Connection : Copy(conn, other) \/ Move(conn, other)
       \/ Emit
    /\ UNCHANGED slotVars

\* A call through the reference to a slot that is gone is undefined: nothing
\* that follows it is modelled.
Call ==
    /\ Invoke
    /\ target[Head(Top.todo)] # NoSlot => target[Head(Top.todo)] \in living
    /\ UNCHANGED slotVars

GoOn == (Skip \/ InvokeEmpty \/ Return \/ EmissionEnds) /\ UNCHANGED slotVars

SlotsNext ==
    \/ \E s \in Slot, conn \in Connection : ConnectSlot(s, conn)
    \/ \E s \in Slot : DisconnectSlot(s) \/ Destroy(s)
    \/ \E s, other \in Slot : MoveSlot(s, other)
    \/ Act \/ Call \/ GoOn

SlotsSpec == SlotsInit /\ [][SlotsNext]_<<vars, slotVars>>

-------------------------------------------------------------------------------
(* Properties *)

\* Every callback that was made for a slot and is still connected belongs to
\* exactly one slot that lives, however the slots were moved or assigned, and
\* from whichever emission.  So a slot that was never moved is not called once it
\* is gone; one that was moved while it was connected may be.
OwnedOnce ==
    \A c \in bound :
        target[c] # NoSlot =>
            \E s \in living : {o \in Slot : c \in conns[o]} = {s}
===============================================================================
