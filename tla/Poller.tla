--------------------------------- MODULE Poller --------------------------------
(***************************************************************************)
(* What EPoll::Ctrl (src/src/include/epoll/ctrl.h) promises its users: a   *)
(* callback is called only while it is registered, one at a time.  The     *)
(* promise has a price that the interface does not name: it is void in the *)
(* batch in which a descriptor is deleted, and after an add() that got no  *)
(* memory.                                                                 *)
(***************************************************************************)
EXTENDS Naturals

CONSTANTS Fd, Callback

VARIABLES
    who,        \* the registered descriptors and their callbacks
    calling,    \* the callback that runs, or 0
    removed,    \* a descriptor was deleted since the batch was taken
    faulty,     \* an add() got no memory
    broken      \* anything may happen now

vars == <<who, calling, removed, faulty, broken>>

Init ==
    /\ who = [f \in {} |-> 0]
    /\ calling = 0
    /\ removed = FALSE
    /\ faulty = FALSE
    /\ broken = FALSE

Register ==
    \E f \in Fd \ DOMAIN who, c \in Callback :
        /\ \A g \in DOMAIN who : who[g] # c
        /\ who' = [g \in DOMAIN who \cup {f} |-> IF g = f THEN c ELSE who[g]]
        /\ UNCHANGED <<calling, removed, faulty, broken>>

Unregister ==
    \E f \in DOMAIN who :
        /\ who' = [g \in DOMAIN who \ {f} |-> who[g]]
        /\ removed' \in {removed, TRUE}
        /\ UNCHANGED <<calling, faulty, broken>>

Call ==
    \E f \in DOMAIN who :
        /\ calling = 0
        /\ calling' = who[f]
        /\ UNCHANGED <<who, removed, faulty, broken>>

Done ==
    /\ calling # 0
    /\ calling' = 0
    /\ removed' \in {removed, FALSE}
    /\ UNCHANGED <<who, faulty, broken>>

NextBatch ==
    /\ removed' = FALSE
    /\ UNCHANGED <<who, calling, faulty, broken>>

Fault ==
    /\ faulty' = TRUE
    /\ UNCHANGED <<who, calling, removed, broken>>

Break ==
    /\ removed \/ faulty
    /\ broken' = TRUE
    /\ UNCHANGED <<who, calling, removed, faulty>>

Next ==
    /\ ~broken
    /\ Register \/ Unregister \/ Call \/ Done \/ NextBatch \/ Fault \/ Break

Spec == Init /\ [][Next]_vars
===============================================================================
