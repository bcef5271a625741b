------------------------------ MODULE BaresipProto -----------------------------
(***************************************************************************)
(* The messages of baresip and what the program makes of them              *)
(* (src/src/baresip-proto-parser.cc): a message is a JSON object, here a   *)
(* function from the names of its members to values [t, v] of a JSON type. *)
(* An object that is not an event, or an event of a class or type that is  *)
(* not known, is skipped; one of a known type that lacks a member throws.  *)
(***************************************************************************)

Str(s) == [t |-> "string", v |-> s]
Bool(b) == [t |-> "bool", v |-> b]
Num == [t |-> "number", v |-> "0"]

\* get_member()
Has(obj, name, type) == name \in DOMAIN obj /\ obj[name].t = type
IsTrue(obj, name) == Has(obj, name, "bool") /\ obj[name].v
Lacks(obj, names) == \E name \in names : ~Has(obj, name, "string")

Skipped == [kind |-> "skipped"]
Throws == [kind |-> "throws"]
Parsed(what) == [kind |-> "parsed", what |-> what]

RegisterType ==
    [REGISTER_OK |-> "Ok", REGISTER_FAIL |-> "Fail", UNREGISTERING |-> "Unregistering"]

CallType ==
    [CALL_CLOSED |-> "Closed", CALL_ESTABLISHED |-> "Established",
     CALL_INCOMING |-> "Incoming", CALL_RINGING |-> "Ringing"]

Direction == [incoming |-> "Incoming", outgoing |-> "Outgoing"]

ParseRegisterEvent(obj) ==
    IF Lacks(obj, {"type"}) THEN Throws
    ELSE IF obj.type.v \notin DOMAIN RegisterType THEN Skipped
    ELSE IF Lacks(obj, {"accountaor"}) THEN Throws
    ELSE Parsed([class |-> "register", type |-> RegisterType[obj.type.v]])

\* Of the strings of a call only its id is kept apart; accountaor and peeruri
\* have to be there, param need not.
ParseCallEvent(obj) ==
    IF Lacks(obj, {"type"}) THEN Throws
    ELSE IF obj.type.v \notin DOMAIN CallType THEN Skipped
    ELSE IF Lacks(obj, {"accountaor", "direction", "peeruri", "id"}) THEN Throws
    ELSE IF obj.direction.v \notin DOMAIN Direction THEN Throws
    ELSE Parsed([class |-> "call", type |-> CallType[obj.type.v], id |-> obj.id.v,
                 direction |-> Direction[obj.direction.v]])

\* Mutant of ParseEvent: an unknown class is taken for a call.
ParseEventLax(obj) ==
    IF ~IsTrue(obj, "event") THEN Skipped
    ELSE IF Lacks(obj, {"class"}) THEN Throws
    ELSE IF obj.class.v = "register" THEN ParseRegisterEvent(obj)
    ELSE ParseCallEvent(obj)

\* Event::parse()
ParseEvent(obj) ==
    IF ~IsTrue(obj, "event") THEN Skipped
    ELSE IF Lacks(obj, {"class"}) THEN Throws
    ELSE IF obj.class.v = "register" THEN ParseRegisterEvent(obj)
    ELSE IF obj.class.v = "call" THEN ParseCallEvent(obj)
    ELSE Skipped

\* Command::parse()
ParseResponse(obj) ==
    IF ~IsTrue(obj, "response") THEN Skipped
    ELSE IF ~Has(obj, "ok", "bool") \/ Lacks(obj, {"data"}) THEN Throws
    ELSE Parsed([ok |-> obj.ok.v])
===============================================================================
