------------------------------ MODULE Selectors ------------------------------
(***************************************************************************)
(* Calico policy selectors (services/utils.py): the recursive-descent      *)
(* parser over the tokens of a selector, and the evaluation of its tree    *)
(* against the labels of a pod.  A token is its kind and its text; how the *)
(* tokens are cut from the string is left out.  A node of the tree stands  *)
(* for the labels of which _eval says True of it: nothing else is done     *)
(* with a tree, and nothing of it depends on how a chain is nested.        *)
(***************************************************************************)
EXTENDS Integers, Sequences

CONSTANTS
    Labels,           \* what the labels of a pod may be: functions from names to values
    Invalid,          \* regular expressions that do not compile
    Within(_, _, _)   \* Within(op, text, value): contains, startsWith, endsWith, matches

Token(kind, text) == [kind |-> kind, text |-> text]

\* _peek: past the last token stands EOF.
Kind(ts, i) == IF i <= Len(ts) THEN ts[i].kind ELSE "EOF"

Negatable == {"in", "contains", "startsWith", "endsWith", "matches"}

\* _NEGATABLE_OPS, as words that stand after a label or after its "not".
IsWord(ts, i, words) == Kind(ts, i) = "IDENT" /\ ts[i].text \in words

\* What a parse returns: the tree and where it stopped; or SelectorParseError.
Parsed(node, at) == [ok |-> TRUE, node |-> node, at |-> at]
Failed           == [ok |-> FALSE]

\* neg is "neg" for the operators that negate, and "" for the others.
Test(op, neg, name, arg) == [op |-> op, neg |-> neg, name |-> name, arg |-> arg]
-----------------------------------------------------------------------------
(* Slips: what a definition would be after a plausible mistake in its code. *)

\* A test of a label that the pod does not have fails, negated or not.
HoldsIfPresent(t, labels) ==
    /\ t.name \in DOMAIN labels
    /\ CASE t.op = "in" -> (labels[t.name] \in t.arg) # (t.neg = "neg")
         [] t.op = "is" -> (labels[t.name] = t.arg) # (t.neg = "neg")
         [] OTHER -> Within(t.op, t.arg, labels[t.name]) # (t.neg = "neg")
-----------------------------------------------------------------------------
(* _eval *)

\* A label the pod does not have is in no set, is no text, and reads as "".
Holds(t, labels) ==
    LET there == t.name \in DOMAIN labels
        found == CASE t.op = "in" -> there /\ labels[t.name] \in t.arg
                   [] t.op = "is" -> there /\ labels[t.name] = t.arg
                   [] OTHER -> Within(t.op, t.arg, IF there THEN labels[t.name] ELSE "")
    IN  IF t.neg = "neg" THEN ~found ELSE found

Has(name)     == {labels \in Labels : name \in DOMAIN labels}
Passing(test) == {labels \in Labels : Holds(test, labels)}
-----------------------------------------------------------------------------
(* _parse_predicate *)

\* The braces of "in": strings, each with at most one comma behind it.
ParseValues(ts, i, neg, name) ==
    LET closing == {j \in i..Len(ts) : Kind(ts, j) = "RBRACE"}
        last    == CHOOSE j \in closing : \A k \in closing : j <= k
    IN  IF /\ closing # {}
           /\ \A j \in i..(last - 1) :
                 \/ Kind(ts, j) = "STRING"
                 \/ Kind(ts, j) = "COMMA" /\ j > i /\ Kind(ts, j - 1) = "STRING"
        THEN Parsed(Passing(Test("in", neg, name,
                         {ts[j].text : j \in {k \in i..(last - 1) : Kind(ts, k) = "STRING"}})),
                    last + 1)
        ELSE Failed

\* What follows an operator.
ParseOperand(ts, i, op, neg, name) ==
    CASE op = "in" ->
            IF Kind(ts, i) = "LBRACE" THEN ParseValues(ts, i + 1, neg, name) ELSE Failed
      [] op = "matches" ->
            IF Kind(ts, i) = "REGEX" /\ ts[i].text \notin Invalid
            THEN Parsed(Passing(Test(op, neg, name, ts[i].text)), i + 1)
            ELSE Failed
      [] OTHER ->
            IF Kind(ts, i) = "STRING"
            THEN Parsed(Passing(Test(op, neg, name, ts[i].text)), i + 1)
            ELSE Failed

ParsePredicate(ts, i) ==
    LET name == ts[i].text
        next == Kind(ts, i + 1)
    IN  IF name = "all" /\ next = "LPAREN"
        THEN IF Kind(ts, i + 2) = "RPAREN" THEN Parsed(Labels, i + 3) ELSE Failed
        ELSE IF name = "has" /\ next = "LPAREN"
        THEN IF Kind(ts, i + 2) \in {"IDENT", "STRING"} /\ Kind(ts, i + 3) = "RPAREN"
             THEN Parsed(Has(ts[i + 2].text), i + 4)
             ELSE Failed
        ELSE IF next \in {"AND", "OR", "RPAREN", "RBRACE", "COMMA", "EOF"} THEN Parsed(Has(name), i + 1)
        ELSE IF next \in {"EQ", "ASSIGN"} THEN ParseOperand(ts, i + 2, "is", "", name)
        ELSE IF next = "NE" THEN ParseOperand(ts, i + 2, "is", "neg", name)
        ELSE IF IsWord(ts, i + 1, Negatable)
        THEN ParseOperand(ts, i + 2, ts[i + 1].text, "", name)
        ELSE IF IsWord(ts, i + 1, {"not"}) /\ IsWord(ts, i + 2, Negatable)
        THEN ParseOperand(ts, i + 3, ts[i + 2].text, "neg", name)
        ELSE Failed
-----------------------------------------------------------------------------
(* _parse_or, _parse_and, _parse_unary, _parse_primary.  from[i] is what    *)
(* the calls return that start at token i; each calls on from further ones. *)

ParsePrimary(ts, from, i) ==
    IF Kind(ts, i) = "LPAREN"
    THEN LET inner == from[i + 1].or
         IN  IF inner.ok /\ Kind(ts, inner.at) = "RPAREN" THEN Parsed(inner.node, inner.at + 1)
             ELSE Failed
    ELSE IF Kind(ts, i) \in {"IDENT", "STRING"} THEN ParsePredicate(ts, i) ELSE Failed

ParseUnary(ts, from, i) ==
    IF Kind(ts, i) # "NOT" THEN ParsePrimary(ts, from, i)
    ELSE LET inner == from[i + 1].unary
         IN  IF inner.ok THEN Parsed(Labels \ inner.node, inner.at) ELSE Failed

\* The while loops: behind the first operand and a connective stands the rest
\* of the chain.
ParseAnd(ts, from, first) ==
    IF ~first.ok \/ Kind(ts, first.at) # "AND" THEN first
    ELSE LET rest == from[first.at + 1].and
         IN  IF rest.ok THEN Parsed(first.node \cap rest.node, rest.at) ELSE Failed

ParseOr(ts, from, first) ==
    IF ~first.ok \/ Kind(ts, first.at) # "OR" THEN first
    ELSE LET rest == from[first.at + 1].or
         IN  IF rest.ok THEN Parsed(first.node \cup rest.node, rest.at) ELSE Failed

ParseAt(ts, from, i) ==
    LET unary == ParseUnary(ts, from, i)
        and   == ParseAnd(ts, from, unary)
    IN  [unary |-> unary, and |-> and, or |-> ParseOr(ts, from, and)]

Parser(ts) == LET from[i \in 1..(Len(ts) + 1)] == ParseAt(ts, from, i) IN from

\* parse: nothing may be left.
ParseSelector(ts) ==
    LET tree == Parser(ts)[1].or
    IN  IF tree.ok /\ Kind(ts, tree.at) = "EOF" THEN tree ELSE Failed
-----------------------------------------------------------------------------
\* selector_is_supported; the labels that calico_selector_matches is True of
IsSupported(ts) == ts = <<>> \/ ParseSelector(ts).ok

Matching(ts) == IF ts = <<>> THEN Labels
                ELSE LET tree == ParseSelector(ts) IN IF tree.ok THEN tree.node ELSE {}
-----------------------------------------------------------------------------
(* compute_policy_coverage: a namespaced policy stays in its namespace, and  *)
(* one with an empty selector selects no pod.                                *)

\* A selector of no tokens is the empty text, or nothing but spaces.
IsEmpty(policy) == policy.selector = <<>> /\ ~policy.spaced

Selected(policy, pods) ==
    LET matching == Matching(policy.selector)
    IN  {pod \in pods : /\ ~IsEmpty(policy)
                        /\ pod.labels \in matching
                        /\ policy.namespaced => policy.namespace = pod.namespace}

\* find_unsupported_selectors
Unsupported(policies) ==
    {policy \in policies : ~IsEmpty(policy) /\ ~IsSupported(policy.selector)}
=============================================================================
