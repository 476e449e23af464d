--------------------------- MODULE SelectorReading ---------------------------
(***************************************************************************)
(* A policy's selector as it is written, piece by piece, and what it says  *)
(* by the grammar that services/utils.py:24-40 lists: "&&", "||", "!" and  *)
(* parentheses in arbitrary nesting around tests of labels.  The grammar   *)
(* says of every stretch of the text all that it may mean; the parser      *)
(* reads from left to right.                                               *)
(***************************************************************************)
EXTENDS Selectors

CONSTANTS
    Texts,   \* the texts of tokens
    Pieces   \* sequences of tokens that are written at once

Kinds  == {"AND", "OR", "EQ", "NE", "ASSIGN", "LPAREN", "RPAREN", "LBRACE", "RBRACE",
           "COMMA", "NOT", "STRING", "REGEX", "IDENT"}
Tokens == [kind : Kinds, text : Texts]

ASSUME SelectorAssumption == Pieces \subseteq Seq(Tokens)

VARIABLE selector

SelectorInit == selector = <<>>
Write(piece) == selector' = selector \o piece
SelectorNext == \E piece \in Pieces : Write(piece)
SelectorSpec == SelectorInit /\ [][SelectorNext]_selector
-----------------------------------------------------------------------------
(* The grammar.  A stretch begins at token i and has n of them; what it may *)
(* mean is a set of meanings, each the labels that the stretch is true of.  *)

With(name, values)     == {labels \in Has(name) : labels[name] \in values}
Like(op, name, text)   == {labels \in Labels :
                              Within(op, text, IF name \in DOMAIN labels THEN labels[name] ELSE "")}

IsName(ts, i) == Kind(ts, i) \in {"IDENT", "STRING"}

\* Strings between the braces of "in", with or without commas behind them.
IsList(ts, i, n) ==
    \A j \in i..(i + n - 1) :
        \/ Kind(ts, j) = "STRING"
        \/ Kind(ts, j) = "COMMA" /\ j > i /\ Kind(ts, j - 1) = "STRING"

Listed(ts, i, n) == {ts[j].text : j \in {k \in i..(i + n - 1) : Kind(ts, k) = "STRING"}}

\* A word, and a "not" before it, behind a name; o is where the word stands.
Compares(ts, i, o, words) ==
    /\ IsWord(ts, o, words)
    /\ o = i + 1 \/ (o = i + 2 /\ IsWord(ts, i + 1, {"not"}))

Signed(i, o, meaning) == IF o = i + 1 THEN meaning ELSE Labels \ meaning

Comparisons(ts, i, n) ==
    LET name == ts[i].text
        end  == i + n - 1
    IN  {Signed(i, o, Like(ts[o].text, name, ts[end].text)) :
            o \in {o \in {i + 1, i + 2} :
                      /\ end = o + 1
                      /\ \/ /\ Compares(ts, i, o, {"contains", "startsWith", "endsWith"})
                            /\ Kind(ts, end) = "STRING"
                         \/ /\ Compares(ts, i, o, {"matches"})
                            /\ Kind(ts, end) = "REGEX" /\ ts[end].text \notin Invalid}}
        \cup
        {Signed(i, o, With(name, Listed(ts, o + 2, end - o - 2))) :
            o \in {o \in {i + 1, i + 2} :
                      /\ end >= o + 2
                      /\ Compares(ts, i, o, {"in"})
                      /\ Kind(ts, o + 1) = "LBRACE" /\ Kind(ts, end) = "RBRACE"
                      /\ IsList(ts, o + 2, end - o - 2)}}

Bare(ts, i, n) == IF n = 1 THEN {Has(ts[i].text)} ELSE {}
All(ts, i, n)  == IF n = 3 /\ ts[i].text = "all" /\ Kind(ts, i + 1) = "LPAREN" /\ Kind(ts, i + 2) = "RPAREN"
                  THEN {Labels} ELSE {}
HasOf(ts, i, n) == IF /\ n = 4 /\ ts[i].text = "has" /\ Kind(ts, i + 1) = "LPAREN"
                      /\ IsName(ts, i + 2) /\ Kind(ts, i + 3) = "RPAREN"
                   THEN {Has(ts[i + 2].text)} ELSE {}
Equal(ts, i, n) == IF n = 3 /\ Kind(ts, i + 1) \in {"EQ", "ASSIGN"} /\ Kind(ts, i + 2) = "STRING"
                   THEN {With(ts[i].text, {ts[i + 2].text})} ELSE {}
Unequal(ts, i, n) == IF n = 3 /\ Kind(ts, i + 1) = "NE" /\ Kind(ts, i + 2) = "STRING"
                     THEN {Labels \ With(ts[i].text, {ts[i + 2].text})} ELSE {}

TestReadings(ts, i, n) ==
    IF ~IsName(ts, i) THEN {}
    ELSE Bare(ts, i, n) \cup All(ts, i, n) \cup HasOf(ts, i, n) \cup Equal(ts, i, n)
           \cup Unequal(ts, i, n) \cup Comparisons(ts, i, n)

\* A test, "!" before a unary, or an or in parentheses.
UnaryReadings(ts, short, i, n) ==
    TestReadings(ts, i, n)
      \cup (IF n > 1 /\ Kind(ts, i) = "NOT"
            THEN {Labels \ m : m \in short[n - 1][i + 1].unary} ELSE {})
      \cup (IF n > 2 /\ Kind(ts, i) = "LPAREN" /\ Kind(ts, i + n - 1) = "RPAREN"
            THEN short[n - 2][i + 1].or ELSE {})

\* A unary, "&&", and more of the chain behind it; ands likewise with "||".
AndChains(ts, short, i, n) ==
    UNION {{a \cap b : a \in short[k][i].unary, b \in short[n - k - 1][i + k + 1].and} :
              k \in {k \in 1..(n - 2) : Kind(ts, i + k) = "AND"}}
OrChains(ts, short, i, n) ==
    UNION {{a \cup b : a \in short[k][i].and, b \in short[n - k - 1][i + k + 1].or} :
              k \in {k \in 1..(n - 2) : Kind(ts, i + k) = "OR"}}

StretchReadings(ts, short, i, n) ==
    LET unary == UnaryReadings(ts, short, i, n)
        and   == unary \cup AndChains(ts, short, i, n)
    IN  [unary |-> unary, and |-> and, or |-> and \cup OrChains(ts, short, i, n)]

\* Stretches of n tokens, from what the shorter ones mean.
Grammar(ts) ==
    LET short[n \in 0..Len(ts)] ==
          [i \in 1..(Len(ts) + 1 - n) |-> StretchReadings(ts, short, i, n)]
    IN  short

Readings(ts) == Grammar(ts)[Len(ts)][1].or
-----------------------------------------------------------------------------
\* What the text of a selector may mean: of no tokens it selects nothing, or, if
\* there are spaces in it, everything (utils.py:385-386, :355).
Meanings(spaced) ==
    IF selector # <<>> THEN Readings(selector) ELSE IF spaced THEN {Labels} ELSE {{}}

\* The coverage report (compute_policy_coverage, find_unsupported_selectors)
\* says of a policy what its selector says: it selects the pods the selector
\* is true of -- "!" before "&&" before "||"; a label that the pod does not have
\* is in no set and equal to nothing, and compares as the empty text -- within
\* its namespace, and it is reported as unsupported exactly when the selector
\* says nothing, so that no pod is called exposed without a warning.  No selector
\* says two things.
CoverageIsHonest ==
    LET policy(scoped, spaced) == [selector   |-> selector, spaced    |-> spaced,
                                   namespaced |-> scoped,   namespace |-> "here"]
        pods == [labels : Labels, namespace : {"here", "there"}]
    IN  \A scoped, spaced \in BOOLEAN :
            LET meanings == Meanings(spaced)
            IN  /\ \A m1, m2 \in meanings : m1 = m2
                /\ (Unsupported({policy(scoped, spaced)}) = {}) <=> (meanings # {})
                /\ Selected(policy(scoped, spaced), pods)
                     = {pod \in pods : /\ \E m \in meanings : pod.labels \in m
                                       /\ scoped => pod.namespace = "here"}
=============================================================================
