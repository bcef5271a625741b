------------------------------ MODULE JsonRoundTrip ----------------------------
(***************************************************************************)
(* Module JsonParser, with two kinds of texts: those that are made up      *)
(* while they are read, and those that say a value.  The value is one that *)
(* a program has built, written as to_string() does or in any other style. *)
(***************************************************************************)
EXTENDS JsonParser

CONSTANTS
    MaxParts,   \* bound on the values that a value is made of, itself included
    InWritten   \* what the strings and keys of written values are made of

VARIABLES
    value,  \* the value that is written, or None if the text is made up
    style   \* the places where it is written with whitespace

vars == <<parserVars, value, style>>

None == << >>

Strings == SeqOf(InWritten, MaxString)

\* Numbers of an int64_t, and one of a uint64_t that is too large for that
Numbers == {<<"1">>, <<"-", "1">>, [i \in 1..(MaxDigits + 1) |-> "1"]}

Leaf == {Word} \cup {Number(n) : n \in Numbers} \cup {String(s) : s \in Strings}

RECURSIVE Values(_), Rows(_)

\* the values of n parts
Values(n) ==
    (IF n = 1 THEN Leaf ELSE {})
    \cup {Array(row) : row \in Rows(n - 1)}
    \cup UNION {{Object([k \in keys |-> row[CHOOSE i \in DOMAIN row : SetToSeq(keys)[i] = k]]) :
                    keys \in kSubset(Len(row), Strings)} : row \in Rows(n - 1)}

\* the sequences of values of n parts altogether
Rows(n) ==
    IF n = 0 THEN {<< >>}
    ELSE UNION {{<<v>> \o row : v \in Values(m), row \in Rows(n - m)} : m \in 1..n}

\* a word inside of n arrays or objects
Nested(n) ==
    LET nest[i \in 0..n] ==
          IF i = 0 THEN {Word}
          ELSE UNION {{Array(<<v>>), Object([k \in {<< >>} |-> v])} : v \in nest[i - 1]}
    IN  nest[n]

Documents ==
    (UNION {Values(n) : n \in 1..MaxParts} \ Leaf)
    \cup Nested(MaxDepth + 1) \cup Nested(MaxDepth + 2)

ASSUME RoundTripAssumption ==
    /\ MaxDigits \in Nat \ {0} /\ MaxParts \in Nat /\ MaxString \in Nat
    /\ InWritten \subseteq Symbol

Init ==
    \/ ParserInit /\ value = None /\ style = {}
    \/ /\ value \in Documents
       /\ style \in SUBSET Place
       /\ entry = IF value[1] = "object" THEN "object" ELSE "document"
       /\ p = Start(entry)
       /\ text = << >>
       /\ ended = FALSE

\* A text nobody has written, read one symbol after the other.
ReadMadeUp == value = None /\ ReadNext /\ UNCHANGED <<value, style>>

\* to_string() and parse_object() or parse_document()
WriteAndRead ==
    /\ value # None /\ ~ended
    /\ \E written \in {Written(value, style)} :
          /\ p' = Run(entry, Append(written, Eof))
          /\ text' = IF p'.pc = "thrown" THEN << >> ELSE written
    /\ ended' = TRUE
    /\ UNCHANGED <<entry, value, style>>

Next == ReadMadeUp \/ WriteAndRead

\* A parser that was called goes on, with text or its end.
Spec == Init /\ [][Next]_vars /\ WF_vars(ReadMadeUp)

-------------------------------------------------------------------------------
(* Properties *)

IsRead == value # None /\ ended
ReadBack == p.pc = "done" /\ p.value = value

\* a value and what is inside of it
RECURSIVE Parts(_)
Parts(v) ==
    {v} \cup IF v[1] \in {"array", "object"} THEN UNION {Parts(v[2][i]) : i \in DOMAIN v[2]}
            ELSE {}

HasQuote(v) ==
    \/ v[1] = "string" /\ Contains(v[2], Quote)
    \/ v[1] = "object" /\ \E k \in DOMAIN v[2] : Contains(k, Quote)
IsTooLong(v) == v[1] = "number" /\ Len(Digits(v[2])) > MaxDigits
IsPair(v) == v[1] = "object" /\ Cardinality(DOMAIN v[2]) > 1

\* There is a value inside of more than n containers.
RECURSIVE Deeper(_, _)
Deeper(v, n) ==
    v[1] \in {"array", "object"} /\ \E i \in DOMAIN v[2] : n = 0 \/ Deeper(v[2][i], n - 1)

Quoting == \E v \in Parts(value) : HasQuote(v)
Pairing == \E v \in Parts(value) : IsPair(v)
Readable == ~Quoting /\ ~Deeper(value, MaxDepth) /\ \A v \in Parts(value) : ~IsTooLong(v)


\* What the serializer writes is read again as the same value, except: an object
\* of two members, behind whose comma the parser wants no space; a number above
\* the range of int64_t; a value that is too deep.  These are refused.  A quote in
\* a string or key is written as it is, and what is read then is never the value.
ReadsOwnOutput ==
    IsRead /\ style = SerializerStyle =>
        /\ ReadBack <=> Readable /\ ~Pairing
        /\ ReadBack \/ Quoting \/ p.pc = "thrown"
===============================================================================
