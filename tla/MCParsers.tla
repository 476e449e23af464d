----------------------------- MODULE MCParsers -----------------------------
(***************************************************************************)
(* The two readers of text: _parse_json_objects over every body, as in     *)
(* FalcoReading, and the selector parser over every selector of at most    *)
(* MaxPieces pieces, as in SelectorReading.  The two share nothing; the    *)
(* selector is written while the body is the empty one.                    *)
(***************************************************************************)
EXTENDS FalcoReading, SelectorReading, FiniteSets

CONSTANT MaxPieces   \* bound: pieces of one selector

VARIABLES
    written,   \* pieces written so far
    hopeless   \* nothing that follows could make a selector of them

Nothing == [shape |-> "array", lead |-> FALSE, lone |-> {}, chunks |-> <<>>]

\* One regular expression that does not compile, and one for any number of x;
\* "x" and "xy" hold an x, and start with it; all hold the empty text.
MCInvalid == {"/(/"}
MCWithin(op, text, value) ==
    IF text = "" THEN TRUE
    ELSE IF op = "matches" THEN value \in {"", "x"}
    ELSE value \in (IF text = "y" /\ op = "startsWith" THEN {} ELSE {"xy"})
                     \cup (IF text = "x" /\ op # "endsWith" THEN {"x", "xy"} ELSE {})

\* The labels of a pod: a, b, both or none of them.
MCLabels == UNION {[keys -> {"x", "xy"}] : keys \in SUBSET {"a", "b"}}
-----------------------------------------------------------------------------
Word(w) == Token("IDENT", w)
Text(t) == Token("STRING", t)
Mark(k) == Token(k, k)

MCTests ==
    {<<Word("all"), Mark("LPAREN"), Mark("RPAREN")>>,
     <<Text("a")>>,
     <<Word("has"), Mark("LPAREN"), Word("b"), Mark("RPAREN")>>,
     <<Text("a"), Mark("EQ"), Text("x")>>,
     <<Word("b"), Mark("NE"), Text("xy")>>,
     <<Word("b"), Word("not"), Word("in"), Mark("LBRACE"), Text("x"), Mark("COMMA"),
       Text("y"), Mark("RBRACE")>>,
     <<Word("a"), Word("endsWith"), Text("")>>,
     <<Word("b"), Word("matches"), Token("REGEX", "/^x*$/")>>,
     <<Word("a"), Word("not"), Word("contains"), Text("x")>>}

MCWrong ==
    {<<Word("a"), Word("not"), Mark("EQ"), Text("x")>>,
     <<Word("a"), Mark("EQ"), Word("x")>>,
     <<Word("a"), Word("in"), Mark("LBRACE"), Mark("COMMA"), Text("x"), Mark("RBRACE")>>,
     <<Word("b"), Word("in"), Mark("LBRACE"), Text("x")>>,
     <<Word("has"), Mark("LPAREN"), Mark("RPAREN")>>,
     <<Word("b"), Word("matches"), Token("REGEX", "/(/")>>}

MCPieces == MCTests \cup MCWrong \cup {<<Mark(k)>> : k \in {"NOT", "AND", "OR", "LPAREN", "RPAREN"}}

MCTexts == UNION {{piece[i].text : i \in DOMAIN piece} : piece \in MCPieces}

Count(kind, ts) == Cardinality({i \in DOMAIN ts : ts[i].kind = kind})

\* Whether a test, and not a connective between tests, comes next.
WantsTest(ts) == ts = <<>> \/ ts[Len(ts)].kind \in {"NOT", "AND", "OR", "LPAREN"}

Misplaced(piece) ==
    \/ piece \in MCWrong
    \/ WantsTest(selector) # (piece \in MCTests \cup {<<Mark("NOT")>>, <<Mark("LPAREN")>>})
    \/ Count("LPAREN", selector \o piece) < Count("RPAREN", selector \o piece)

ParsersInit == ReadingInit /\ SelectorInit /\ written = 0 /\ hopeless = FALSE

Read == Decode /\ UNCHANGED <<selector, written, hopeless>>

Lengthen ==
    /\ returned /\ body = Nothing
    /\ written < MaxPieces /\ ~hopeless
    /\ written' = written + 1
    /\ \E piece \in Pieces : Write(piece) /\ hopeless' = Misplaced(piece)
    /\ UNCHANGED readingVars

ParsersSpec == ParsersInit /\ [][Read \/ Lengthen]_<<readingVars, selector, written, hopeless>>
=============================================================================
