---------------------------------- MODULE Json ---------------------------------
(***************************************************************************)
(* The JSON parser (src/src/json-parser.cc) as a machine that reads one    *)
(* symbol at a time, and the serializer (src/src/json-serializer.cc).  The *)
(* recursion of the parser is the stack of the containers it is inside of; *)
(* `pc' is the function that reads next.  A symbol is a character, except  *)
(* that "w" is one of the words true, false and null, "1" a digit, "-" a   *)
(* sign, "x" any other character; a word that is cut short counts as "x".  *)
(* Values (src/src/include/json/types.h) are pairs of a type and what it   *)
(* holds; objects are functions from keys to values.                       *)
(***************************************************************************)
EXTENDS Naturals, SequencesExt

CONSTANTS
    MaxDepth,   \* how deep values may be nested, 256 in the code
    MaxDigits   \* how many digits an int64_t holds

Quote == "quote"
Eof == "eof"
Symbol == {"{", "}", "[", "]", ":", ",", Quote, "sp", "w", "1", "-", "x"}

Word == <<"word", << >>>>
Number(s) == <<"number", s>>
String(s) == <<"string", s>>
Array(items) == <<"array", items>>
Object(members) == <<"object", members>>

NoMembers == [k \in {} |-> Word]

\* entry: parse_object(), or parse_document(), which allows an array, too
Start(entry) == [pc |-> entry, stack |-> << >>, buf |-> << >>, value |-> Word]

Top(p) == p.stack[Len(p.stack)]
Throw(p) == [p EXCEPT !.pc = "thrown"]
Goto(p, pc) == [p EXCEPT !.pc = pc]
Begin(p, pc) == [p EXCEPT !.pc = pc, !.buf = << >>]
Closer(p) == IF Top(p).is_object THEN "}" ELSE "]"

\* parse_object() and parse_array() after their first character
Push(p, is_object) ==
    [p EXCEPT !.pc = "open",
              !.stack = Append(@, [is_object |-> is_object, key |-> << >>,
                                   items |-> IF is_object THEN NoMembers ELSE << >>])]

\* Mutant of Inserted: the last of several members with one key is kept.
InsertedLast(members, key, value) ==
    [k \in DOMAIN members \cup {key} |-> IF k = key THEN value ELSE members[k]]

\* insert() keeps the first of several members with one key.
Inserted(members, key, value) ==
    [k \in DOMAIN members \cup {key} |-> IF k \in DOMAIN members THEN members[k] ELSE value]

\* A value is complete: it goes into the container around it.
Deliver(p, value) ==
    IF p.stack = << >> THEN [p EXCEPT !.pc = "done", !.value = value]
    ELSE [p EXCEPT !.pc = "after",
                   !.stack[Len(p.stack)].items =
                        IF Top(p).is_object THEN Inserted(@, Top(p).key, value)
                        ELSE Append(@, value)]

Close(p) ==
    Deliver([p EXCEPT !.stack = Front(@)],
            IF Top(p).is_object THEN Object(Top(p).items) ELSE Array(Top(p).items))

-------------------------------------------------------------------------------
(* What each function does with the next symbol *)

ReadStart(p, c) ==
    CASE c = "sp" -> p
      [] c = "{" -> Push(p, TRUE)
      [] c = "[" /\ p.pc = "document" -> Push(p, FALSE)
      [] OTHER -> Throw(p)

\* parse_string() for a key, which does not skip whitespace
ReadKey(p, c) == IF c = Quote THEN Begin(p, "key") ELSE Throw(p)

\* Mutant of ReadValue: the depth is not limited.
ReadValueDeep(p, c) ==
    CASE c = "sp" -> Goto(p, "value")
      [] c = "{" -> Push(p, TRUE)
      [] c = "[" -> Push(p, FALSE)
      [] c = Quote -> Begin(p, "string")
      [] c = "w" -> Deliver(p, Word)
      [] c \in {"1", "-"} -> [p EXCEPT !.pc = "number", !.buf = <<c>>]
      [] OTHER -> Throw(p)

\* parse_value()
ReadValue(p, c) ==
    IF Len(p.stack) > MaxDepth THEN Throw(p)
    ELSE CASE c = "sp" -> Goto(p, "value")
           [] c = "{" -> Push(p, TRUE)
           [] c = "[" -> Push(p, FALSE)
           [] c = Quote -> Begin(p, "string")
           [] c = "w" -> Deliver(p, Word)
           [] c \in {"1", "-"} -> [p EXCEPT !.pc = "number", !.buf = <<c>>]
           [] OTHER -> Throw(p)

ReadOpen(p, c) ==
    CASE c = "sp" -> p
      [] c = Closer(p) -> Close(p)
      [] OTHER -> IF Top(p).is_object THEN ReadKey(p, c) ELSE ReadValue(p, c)

\* parse_string() goes on for ever at the end of the stream.
ReadString(p, c) ==
    CASE c = Eof -> p
      [] c = Quote /\ p.pc = "key" ->
            [p EXCEPT !.pc = "colon", !.stack[Len(p.stack)].key = p.buf]
      [] c = Quote /\ p.pc = "string" -> Deliver(p, String(p.buf))
      [] OTHER -> [p EXCEPT !.buf = Append(@, c)]

\* parse_member()
ReadColon(p, c) ==
    CASE c = "sp" -> p
      [] c = ":" -> Goto(p, "value")
      [] OTHER -> Throw(p)

\* Mutant of ReadAfter: a container may end after a comma.
ReadAfterComma(p, c) ==
    CASE c = "sp" -> p
      [] c = "," -> Goto(p, "open")
      [] c = Closer(p) -> Close(p)
      [] OTHER -> Throw(p)

\* Mutant of ReadAfter: the end of the text is skipped like whitespace.
ReadAfterSkips(p, c) ==
    CASE c \in {"sp", Eof} -> p
      [] c = "," -> Goto(p, IF Top(p).is_object THEN "member" ELSE "value")
      [] c = Closer(p) -> Close(p)
      [] OTHER -> Throw(p)


\* parse_comma(), and the check for the end of the container
ReadAfter(p, c) ==
    CASE c = "sp" -> p
      [] c = "," -> Goto(p, IF Top(p).is_object THEN "member" ELSE "value")
      [] c = Closer(p) -> Close(p)
      [] OTHER -> Throw(p)

Digits(s) == SelectSeq(s, LAMBDA c : c = "1")

\* what operator>> stores when it fails, 0 or a limit of the type
NoNumber == Number(<< >>)

\* Mutant of ReadNumber: the failbit is cleared, and the text is read on.
ReadNumberClears(p, c) ==
    CASE c = "1" -> [p EXCEPT !.buf = Append(@, c)]
      [] c # "1" /\ Len(Digits(p.buf)) \in 1..MaxDigits ->
            ReadAfter(Deliver(p, Number(p.buf)), c)
      [] OTHER -> ReadAfter(Deliver(p, NoNumber), c)

\* parse_number(): a number that is out of range, or a sign alone, is delivered
\* all the same, but it sets the failbit: the next read sees the end of the text.
ReadNumber(p, c) ==
    CASE c = "1" -> [p EXCEPT !.buf = Append(@, c)]
      [] c # "1" /\ Len(Digits(p.buf)) \in 1..MaxDigits ->
            ReadAfter(Deliver(p, Number(p.buf)), c)
      [] OTHER -> ReadAfter(Deliver(p, NoNumber), Eof)

Step(p, c) ==
    CASE p.pc \in {"object", "document"} -> ReadStart(p, c)
      [] p.pc = "open" -> ReadOpen(p, c)
      [] p.pc = "member" -> ReadKey(p, c)
      [] p.pc \in {"key", "string"} -> ReadString(p, c)
      [] p.pc = "colon" -> ReadColon(p, c)
      [] p.pc = "value" -> ReadValue(p, c)
      [] p.pc = "number" -> ReadNumber(p, c)
      [] p.pc = "after" -> ReadAfter(p, c)
      [] p.pc \in {"done", "thrown"} -> p

\* the parser applied to a text
Run(entry, text) == FoldLeft(Step, Start(entry), text)

-------------------------------------------------------------------------------
(* The serializer *)

Joined(parts, separator) ==
    FoldLeft(LAMBDA text, part : IF text = << >> THEN part ELSE text \o separator \o part,
             << >>, parts)

Quoted(s) == <<Quote>> \o s \o <<Quote>>

\* The places between the parts of a text where there may be whitespace: in front
\* of everything, behind an opener, before a closer, before a comma, behind the
\* comma of an array, before and behind a colon, and behind the comma of an object.
Place == {"start", "open", "close", "comma", "item", "colon", "value", "member"}

\* A value written with whitespace at the places of the style.
RECURSIVE Written(_, _)
Written(value, style) ==
    LET At(place) == IF place \in style THEN <<"sp">> ELSE << >>
        held == value[2]
        Around(opener, parts, next, closer) ==
            <<opener>> \o At("open")
            \o Joined(parts, At("comma") \o <<",">> \o At(next))
            \o At("close") \o <<closer>>
    IN  CASE value[1] = "word" -> <<"w">>
          [] value[1] = "number" -> held
          [] value[1] = "string" -> Quoted(held)
          [] value[1] = "array" ->
                Around("[", [i \in DOMAIN held |-> Written(held[i], style)], "item", "]")
          [] value[1] = "object" ->
                LET keys == SetToSeq(DOMAIN held)
                    member == [i \in DOMAIN keys |->
                                Quoted(keys[i]) \o At("colon") \o <<":">> \o At("value")
                                \o Written(held[keys[i]], style)]
                IN  Around("{", member, "member", "}")

\* how to_string() writes
SerializerStyle == {"item", "value", "member"}
===============================================================================
