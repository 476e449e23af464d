---------------------------- MODULE FalcoReading ----------------------------
(***************************************************************************)
(* _parse_json_objects over every body of at most MaxBatch chunks, against *)
(* what the lay-out of the values in the text allows it to read.           *)
(***************************************************************************)
EXTENDS FalcoBody

VARIABLES
    body,      \* the request body
    decoded,   \* what _parse_json_objects returned
    returned   \* whether it has returned

readingVars == <<body, decoded, returned>>

ReadingInit == body \in Bodies /\ decoded = <<>> /\ returned = FALSE

Decode == /\ ~returned
          /\ returned' = TRUE
          /\ decoded' = Parse(body)
          /\ UNCHANGED body

ReadingSpec == ReadingInit /\ [][Decode]_readingVars

\* Where values stand in the body, and what stands before the first damage.
Clean     == {i \in DOMAIN body.chunks : IsJson(body.chunks[i])}
Undamaged == {i \in Clean : 1..i \subseteq Clean}

\* What stands at the places read, in the order of the text.
ReadAt(read) ==
    \E at \in [DOMAIN decoded -> read] :
        /\ \A i \in read : \E k \in DOMAIN decoded : at[k] = i
        /\ \A k \in DOMAIN decoded : decoded[k] = body.chunks[at[k]]
        /\ \A k, l \in DOMAIN decoded : k < l => at[k] < at[l]

\* _parse_json_objects returns values in the order of the text and none twice.  A
\* body that begins with a value yields every value before the first damage and
\* nothing after it (or, behind white space, nothing at all); a body that begins
\* with damage yields exactly the values that have a line to themselves, so that
\* earlier ones which share a line are lost and later ones are not.
ReadsUpToDamage ==
    returned => IF 1 \in Clean
                THEN ReadAt(Undamaged) \/ (body.lead /\ ReadAt({}))
                ELSE ReadAt(Clean \cap body.lone)

\* threats.py:26-28: "Parse one or more JSON objects from *text*, handling
\* NDJSON and concatenated JSON": a body without damage is read completely.
CleanBodyIsRead ==
    returned /\ Clean = DOMAIN body.chunks => decoded = body.chunks
=============================================================================
