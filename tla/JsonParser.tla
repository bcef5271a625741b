------------------------------- MODULE JsonParser ------------------------------
(***************************************************************************)
(* The parser of module Json reading texts that are made up while it reads *)
(* them, and what it should make of them: the grammar, as a definition     *)
(* that cuts a text into parts instead of reading it.  The behaviours are  *)
(* in module JsonRoundTrip, which adds texts that somebody has written.    *)
(***************************************************************************)
EXTENDS Json

CONSTANTS
    MaxText,        \* bound on the length of a text
    MaxSpaces,      \* bound on the whitespace in a text
    MaxString,      \* bound on the length of a string
    InString        \* what the strings are made of

VARIABLES
    entry,  \* the function that was called
    p,      \* the parser
    text,   \* what it has read, as long as it has not thrown
    ended   \* it has seen the end of the text

parserVars == <<entry, p, text, ended>>

ASSUME JsonAssumption == MaxDepth \in Nat /\ MaxDigits \in Nat /\ InString \subseteq Symbol

TypeOK ==
    /\ entry \in {"object", "document"}
    /\ p.pc \in {entry, "open", "member", "key", "string", "colon", "value", "number",
                 "after", "done", "thrown"}
    /\ Len(p.stack) <= MaxDepth + 1
    /\ text \in Seq(Symbol)
    /\ ended \in BOOLEAN

ParserInit ==
    /\ entry \in {"object", "document"}
    /\ p = Start(entry)
    /\ text = << >>
    /\ ended = FALSE

Over == p.pc \in {"done", "thrown"}
ReadsString == p.pc \in {"key", "string"}
Spaces == Len(SelectSeq(text, LAMBDA c : c = "sp"))

ReadSymbol ==
    /\ ~Over /\ ~ended
    /\ Len(text) < MaxText
    /\ \E c \in Symbol :
          /\ c = "sp" => Spaces < MaxSpaces
          /\ ReadsString /\ c # Quote => c \in InString /\ Len(p.buf) < MaxString
          /\ p' = Step(p, c)
          /\ text' = IF p'.pc = "thrown" THEN << >> ELSE Append(text, c)
    /\ UNCHANGED <<entry, ended>>

ReadEnd ==
    /\ ~Over
    /\ ended' = TRUE
    /\ p' = Step(p, Eof)
    /\ UNCHANGED <<entry, text>>

ReadNext == ReadSymbol \/ ReadEnd

-------------------------------------------------------------------------------
(* The grammar *)

Blank(s) == ToSet(s) \subseteq {"sp"}

\* s without whitespace at its front, at both ends
Trimmed(s) ==
    IF Blank(s) THEN << >>
    ELSE LET first == CHOOSE i \in DOMAIN s : s[i] # "sp" /\ Blank(SubSeq(s, 1, i - 1))
         IN  SubSeq(s, first, Len(s))
Stripped(s) == Reverse(Trimmed(Reverse(Trimmed(s))))

Inner(s) == SubSeq(s, 2, Len(s) - 1)
Within(s, first, last) == Len(s) > 1 /\ Head(s) = first /\ Last(s) = last
Before(s, i) == SubSeq(s, 1, i - 1)
After(s, i) == SubSeq(s, i + 1, Len(s))
At(s, c) == {i \in DOMAIN s : s[i] = c}

IsNumber(s) == /\ s # << >>
               /\ Len(Digits(s)) \in 1..MaxDigits
               /\ Digits(s) = IF Head(s) = "-" THEN Tail(s) ELSE s

RECURSIVE Says(_), Lists(_), Members(_)

\* the values that a text says
Says(s) ==
    {Word : x \in {s} \cap {<<"w">>}} \cup
    {Number(n) : n \in {n \in {s} : IsNumber(n)}} \cup
    {String(Inner(n)) : n \in {n \in {s} : Within(n, Quote, Quote) /\ At(Inner(n), Quote) = {}}} \cup
    (IF ~Within(s, "[", "]") THEN {}
     ELSE IF Blank(Inner(s)) THEN {Array(<< >>)} ELSE {Array(l) : l \in Lists(Inner(s))}) \cup
    (IF ~Within(s, "{", "}") THEN {}
     ELSE IF Blank(Inner(s)) THEN {Object(NoMembers)}
     ELSE {Object(m) : m \in Members(Trimmed(Inner(s)))})

\* the lists that a text with commas says
Lists(s) ==
    {<<v>> : v \in Says(Stripped(s))} \cup
    UNION {{<<v>> \o l : v \in Says(Stripped(Before(s, i))), l \in Lists(After(s, i))} :
              i \in At(s, ",")}

\* A key has no whitespace before it, a member that has been there is ignored.
Member(s) ==
    UNION {{<<Inner(Stripped(Before(s, i))), v>> : v \in Says(Stripped(After(s, i)))} :
              i \in {i \in At(s, ":") : /\ Head(s) = Quote
                                        /\ Within(Stripped(Before(s, i)), Quote, Quote)
                                        /\ At(Inner(Stripped(Before(s, i))), Quote) = {}}}

Members(s) ==
    {Inserted(NoMembers, m[1], m[2]) : m \in Member(s)} \cup
    UNION {{[k \in DOMAIN rest \cup {m[1]} |-> IF k = m[1] THEN m[2] ELSE rest[k]] :
                m \in Member(Before(s, i)), rest \in Members(After(s, i))} : i \in At(s, ",")}

-------------------------------------------------------------------------------
(* Properties *)

\* What the parser accepts is JSON, and it returns what the text says; of
\* several members with the same key the first counts.
AcceptsOnlyJson == p.pc = "done" => Says(Trimmed(text)) = {p.value}

\* A text that ends ends the parser, except inside a string.
EndOfTextStops == ended ~> Over \/ ReadsString
===============================================================================
