------------------------------ MODULE FalcoBody ------------------------------
(***************************************************************************)
(* What POST /api/threats/falco makes of the bytes it receives: the three  *)
(* ways _parse_json_objects reads a body.  A body is the sequence of the   *)
(* top-level chunks it is made of, each abstracted to its kind.            *)
(***************************************************************************)
EXTENDS Naturals, Sequences, FiniteSets

CONSTANT MaxBatch   \* bound: chunks in one body

ASSUME MaxBatchAssumption == MaxBatch \in Nat \ {0}

\* An object FalcoEvent accepts; one whose rule is in _NOISY_RULES; a decoded value
\* the loop passes over (a number, an array inside a stream, an empty object, an
\* object FalcoEvent refuses); an object whose rule is itself a list or an object,
\* which no set can be asked for; text that is not JSON.
Decoded == {"event", "noisy", "ignored", "unhashable"}
Chunk   == Decoded \cup {"garbage"}

BoundedSeqs(S) == UNION {[1..n -> S] : n \in 0..MaxBatch}

(***************************************************************************)
(* shape "array": one JSON array without damage.  shape "text": anything   *)
(* else, as the values and the pieces of damage it consists of, one after  *)
(* the other -- a single value, NDJSON, concatenated values, an array that *)
(* is damaged, whose brackets and commas are damage around its values.     *)
(* "lone" tells which of them have one line to themselves; the others      *)
(* share a line or stretch over several.  "lead" is white space before the *)
(* first.                                                                  *)
(***************************************************************************)
Bodies ==
    [shape : {"array"}, lead : BOOLEAN, lone : {{}}, chunks : BoundedSeqs(Decoded)]
      \cup [shape : {"text"}, lead : BOOLEAN, lone : SUBSET (1..MaxBatch),
            chunks : BoundedSeqs(Chunk)]

IsJson(c) == c # "garbage"

\* Slips in the reading of a body, which no specification uses: the text after
\* the damage is kept, the last value is lost.
AfterDamage(cs) ==
    LET bad == {i \in DOMAIN cs : ~IsJson(cs[i])} \cup {0}
    IN  SubSeq(cs, (CHOOSE n \in bad : \A m \in bad : m <= n) + 1, Len(cs))

AllButLast(cs) ==
    LET clean == {n \in 1..Len(cs) : \A i \in 1..n : IsJson(cs[i])}
    IN  SubSeq(cs, 1, Cardinality(clean) - 1)

\* The values raw_decode reads one after the other before the first error.
DecodablePrefix(cs) ==
    LET stops == {n \in 0..Len(cs) : \A i \in 1..n : IsJson(cs[i])}
    IN  SubSeq(cs, 1, CHOOSE n \in stops : \A m \in stops : m <= n)

\* The lines that can be decoded; the others are skipped, with whatever values
\* share them.
DecodableLines(cs, lone) ==
    LET upTo[n \in 0..Len(cs)] ==
            IF n = 0 THEN <<>>
            ELSE IF n \in lone /\ IsJson(cs[n]) THEN Append(upTo[n - 1], cs[n])
            ELSE upTo[n - 1]
    IN  upTo[Len(cs)]

(***************************************************************************)
(* _parse_json_objects.  json.loads skips leading white space, so a single *)
(* value and an array are always read.  Otherwise the error decides: "Extra*)
(* data" (the first value is JSON, more follows) leads to raw_decode from  *)
(* offset 0, which does not skip leading white space and stops at the      *)
(* first error; any other error leads to the line-by-line reading, which   *)
(* skips the lines it cannot decode.                                       *)
(***************************************************************************)
Parse(body) ==
    LET cs == body.chunks IN
    CASE body.shape = "array" -> cs
      [] body.shape = "text" /\ Len(cs) = 1 /\ IsJson(cs[1]) -> cs
      [] body.shape = "text" /\ Len(cs) > 1 /\ IsJson(cs[1]) ->
            IF body.lead THEN <<>> ELSE DecodablePrefix(cs)
      [] OTHER -> DecodableLines(cs, body.lone)

\* What Parse may return: an array yields any of them, no body anything else.
Batches == BoundedSeqs(Decoded)
=============================================================================
