------------------------------- MODULE MCBaresip -------------------------------
(* Small sets of messages and events for the model of Ctrl and Model.       *)
EXTENDS Baresip

CallMessage(type, id, direction) ==
    [event |-> Bool(TRUE), class |-> Str("call"), type |-> Str(type), accountaor |-> Str("a"),
     direction |-> Str(direction), peeruri |-> Str("p"), id |-> Str(id)]

RegisterMessage(type) ==
    [event |-> Bool(TRUE), class |-> Str("register"), type |-> Str(type),
     accountaor |-> Str("a"), param |-> Num]

ResponseMessage == [response |-> Bool(TRUE), ok |-> Bool(TRUE), data |-> Str("d")]

\* m with one member left out, of another type, or of another value
Damaged(m) ==
    {[g \in DOMAIN m \ {f} |-> m[g]] : f \in DOMAIN m} \cup
    {[m EXCEPT ![f] = Num] : f \in DOMAIN m} \cup
    {[m EXCEPT ![f] = Str("other")] : f \in DOMAIN m \cap {"class", "type", "direction"}} \cup
    {[m EXCEPT ![f] = Bool(FALSE)] : f \in DOMAIN m \cap {"event", "response"}}

MCMessages ==
    {CallMessage("CALL_INCOMING", "x", "incoming"), CallMessage("CALL_CLOSED", "x", "outgoing"),
     CallMessage("CALL_RINGING", "y", "outgoing"), CallMessage("CALL_ESTABLISHED", "y", "outgoing"),
     RegisterMessage("REGISTER_OK"), RegisterMessage("REGISTER_FAIL"),
     RegisterMessage("UNREGISTERING"), NotJson} \cup
    Damaged(CallMessage("CALL_INCOMING", "x", "incoming") @@ ResponseMessage)

MCFed ==
    {[class |-> "call", type |-> "Established", id |-> "x", direction |-> "Incoming"],
     [class |-> "call", type |-> "Ringing", id |-> "z", direction |-> "Outgoing"]}

MCObservers == <<"o1", "o2">>
===============================================================================
