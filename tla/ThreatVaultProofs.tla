-------------------------- MODULE ThreatVaultProofs --------------------------
(***************************************************************************)
(* The ingestion of Falco events, for any number of requests, any batch    *)
(* size and any cap of the vault; first how the body of a request is read. *)
(***************************************************************************)
EXTENDS ThreatVault, FalcoReading, FiniteSetTheorems, WellFoundedInduction, TLAPS

-----------------------------------------------------------------------------
(***************************************************************************)
(* The three readings.  result is what stands in cs at the places read; at *)
(* says where each value of result comes from.  The line-by-line reading   *)
(* is a loop: that it has read the values of the first n lines, for every  *)
(* n, is shown for the least n of which it would not be true.              *)
(***************************************************************************)
\* Among natural numbers there is a least one.
LEMMA LeastOf ==
    ASSUME NEW S, S \subseteq Nat, S # {}
    PROVE  \E n \in S : \A k \in S : n <= k
<1>1. IsWellFoundedOn(OpToRel(<, Nat), Nat)
  BY NatLessThanWellFounded
<1>2. PICK n \in S : \A k \in S : ~(<<k, n>> \in OpToRel(<, Nat))
  BY <1>1, WFMin
<1>3. ASSUME NEW k \in S
      PROVE  n <= k
  <2>1. n \in Nat /\ k \in Nat
    OBVIOUS
  <2>2. ~(k < n)
    BY <1>2, <2>1 DEF OpToRel
  <2> QED
    BY <2>1, <2>2
<1> QED
  BY <1>3

Places(cs) == {i \in DOMAIN cs : IsJson(cs[i])}

Comes(at, result, cs, read) ==
    /\ at \in [DOMAIN result -> read]
    /\ \A i \in read : \E k \in DOMAIN result : at[k] = i
    /\ \A k \in DOMAIN result : result[k] = cs[at[k]]
    /\ \A k, l \in DOMAIN result : k < l => at[k] < at[l]

ReadFrom(result, cs, read) == \E at : Comes(at, result, cs, read)

\* All of a text without damage.
LEMMA AllIsRead ==
    ASSUME NEW cs \in Seq(Chunk)
    PROVE  ReadFrom(cs, cs, DOMAIN cs)
<1>1. Comes([k \in DOMAIN cs |-> k], cs, cs, DOMAIN cs)
  BY DEF Comes
<1> QED
  BY <1>1 DEF ReadFrom

\* Nothing.
LEMMA NothingIsRead ==
    ASSUME NEW cs
    PROVE  ReadFrom(<<>>, cs, {})
<1>1. DOMAIN <<>> = {}
  OBVIOUS
<1>2. Comes([k \in {} |-> k], <<>>, cs, {})
  BY <1>1 DEF Comes
<1> QED
  BY <1>2 DEF ReadFrom

\* What raw_decode reads before the first error.
LEMMA PrefixIsRead ==
    ASSUME NEW cs \in Seq(Chunk)
    PROVE  /\ ReadFrom(DecodablePrefix(cs), cs, {i \in Places(cs) : 1..i \subseteq Places(cs)})
           /\ DecodablePrefix(cs) \in Seq(Decoded)
           /\ Len(DecodablePrefix(cs)) <= Len(cs)
<1> DEFINE len   == Len(cs)
           stops == {n \in 0..len : \A i \in 1..n : IsJson(cs[i])}
           back  == {len - n : n \in stops}
<1>1. len \in Nat /\ DOMAIN cs = 1..len
  OBVIOUS
<1>2. 0 \in stops /\ stops \subseteq 0..len
  BY <1>1
<1>3. \E n \in stops : \A m \in stops : m <= n
  <2>1. back \subseteq Nat /\ back # {}
    <3> HIDE DEF len
    <3> QED
      BY <1>1, <1>2
  <2>2. PICK b \in back : \A c \in back : b <= c
    BY <2>1, LeastOf
  <2>3. PICK n \in stops : b = len - n
    OBVIOUS
  <2>4. ASSUME NEW m \in stops
        PROVE  m <= n
    <3>1. len - n <= len - m
      BY <2>2, <2>3
    <3> HIDE DEF len, stops
    <3> QED
      BY <1>1, <1>2, <3>1
  <2> QED
    BY <2>4
<1> DEFINE last == CHOOSE n \in stops : \A m \in stops : m <= n
<1>4. last \in stops /\ \A m \in stops : m <= last
  BY <1>3
<1>5. DecodablePrefix(cs) = SubSeq(cs, 1, last)
  BY DEF DecodablePrefix
<1>6. /\ last \in 0..len /\ \A i \in 1..last : IsJson(cs[i])
      /\ \A m \in 0..len : (\A i \in 1..m : IsJson(cs[i])) => m <= last
  BY <1>4
<1> HIDE DEF last, stops
<1>7. /\ DOMAIN SubSeq(cs, 1, last) = 1..last
      /\ Len(SubSeq(cs, 1, last)) = last
      /\ \A k \in 1..last : SubSeq(cs, 1, last)[k] = cs[k]
  BY <1>1, <1>6
<1>8. {i \in Places(cs) : 1..i \subseteq Places(cs)} = 1..last
  <2>1. ASSUME NEW i \in Places(cs), 1..i \subseteq Places(cs)
        PROVE  i \in 1..last
    <3>1. i \in 1..len /\ \A j \in 1..i : IsJson(cs[j])
      BY <1>1, <2>1 DEF Places
    <3> HIDE DEF len
    <3>2. i <= last
      BY <1>1, <1>6, <3>1
    <3> QED
      BY <1>1, <1>6, <3>1, <3>2
  <2>2. ASSUME NEW i \in 1..last
        PROVE  i \in Places(cs) /\ 1..i \subseteq Places(cs)
    <3>1. 1..i \subseteq 1..last /\ 1..last \subseteq 1..len
      <4> HIDE DEF len
      <4> QED
        BY <1>1, <1>6
    <3> QED
      BY <1>1, <1>6, <3>1 DEF Places
  <2> QED
    BY <2>1, <2>2 DEF Places
<1>9. Comes([k \in 1..last |-> k], SubSeq(cs, 1, last), cs, 1..last)
  BY <1>7 DEF Comes
<1>10. SubSeq(cs, 1, last) \in Seq(Decoded)
  <2>1. \A k \in 1..last : SubSeq(cs, 1, last)[k] \in Decoded
    BY <1>1, <1>6, <1>7 DEF IsJson, Chunk
  <2>2. SubSeq(cs, 1, last) \in Seq(Chunk)
    BY <1>1, <1>6
  <2> QED
    BY <1>6, <1>7, <2>1, <2>2
<1>11. last <= len
  BY <1>1, <1>6
<1> QED
  BY <1>5, <1>7, <1>8, <1>9, <1>10, <1>11 DEF ReadFrom

\* The loop of the line-by-line reading: what it has after line n.
Line(g, cs, lone, n) == IF n = 0 THEN <<>>
                  ELSE IF n \in lone /\ IsJson(cs[n]) THEN Append(g[n - 1], cs[n])
                  ELSE g[n - 1]

Loop(g, cs, lone, m) == g = [n \in 0..m |-> Line(g, cs, lone, n)]

LEMMA LoopGoesOn ==
    ASSUME NEW cs, NEW lone, NEW m \in Nat, NEW g, Loop(g, cs, lone, m)
    PROVE  \E h : Loop(h, cs, lone, m + 1)
<1> DEFINE h == [n \in 0..(m + 1) |-> IF n = m + 1 THEN Line(g, cs, lone, m + 1) ELSE g[n]]
<1>1. \A n \in 0..m : g[n] = Line(g, cs, lone, n)
  BY DEF Loop
<1>2. ASSUME NEW n \in 0..(m + 1)
      PROVE  h[n] = Line(h, cs, lone, n)
  <2>1. n = 0 \/ (n - 1 \in 0..(m + 1) /\ n - 1 # m + 1)
    OBVIOUS
  <2>2. Line(h, cs, lone, n) = Line(g, cs, lone, n)
    BY <2>1 DEF Line
  <2>3. n = m + 1 \/ n \in 0..m
    OBVIOUS
  <2> QED
    BY <1>1, <2>2, <2>3
<1>3. h = [n \in 0..(m + 1) |-> h[n]]
  OBVIOUS
<1> HIDE DEF h
<1>4. h = [n \in 0..(m + 1) |-> Line(h, cs, lone, n)]
  BY <1>2, <1>3
<1> QED
  BY <1>4 DEF Loop

LEMMA LoopExists ==
    ASSUME NEW cs, NEW lone, NEW len \in Nat
    PROVE  \E g : Loop(g, cs, lone, len)
<1> DEFINE missing == {m \in Nat : ~\E g : Loop(g, cs, lone, m)}
<1>1. SUFFICES ASSUME missing # {}
               PROVE  FALSE
  OBVIOUS
<1>2. PICK m \in missing : \A k \in missing : m <= k
  BY <1>1, LeastOf
<1>3. m # 0
  <2>1. Loop([n \in 0..0 |-> <<>>], cs, lone, 0)
    BY DEF Loop, Line
  <2> QED
    BY <2>1
<1>4. m - 1 \in Nat /\ m - 1 \notin missing /\ (m - 1) + 1 = m
  BY <1>2, <1>3
<1>5. \E h : Loop(h, cs, lone, (m - 1) + 1)
  BY <1>4, LoopGoesOn
<1> QED
  BY <1>4, <1>5

LEMMA LinesAreTheLoop ==
    ASSUME NEW cs, NEW lone, Len(cs) \in Nat
    PROVE  \E g : Loop(g, cs, lone, Len(cs)) /\ DecodableLines(cs, lone) = g[Len(cs)]
<1> DEFINE g == CHOOSE f : Loop(f, cs, lone, Len(cs))
<1>1. Loop(g, cs, lone, Len(cs))
  BY LoopExists
<1>2. DecodableLines(cs, lone) = g[Len(cs)]
  BY DEF DecodableLines, Loop, Line
<1> QED
  BY <1>1, <1>2

\* One line that can be decoded, and one that cannot.
LEMMA LineIsRead ==
    ASSUME NEW cs \in Seq(Chunk), NEW n \in 1..Len(cs), IsJson(cs[n]), NEW spots, n \in spots,
           NEW result \in Seq(Decoded), ReadFrom(result, cs, spots \cap 1..(n - 1))
    PROVE  /\ Append(result, cs[n]) \in Seq(Decoded)
           /\ ReadFrom(Append(result, cs[n]), cs, spots \cap 1..n)
<1> DEFINE old  == spots \cap 1..(n - 1)
           read == spots \cap 1..n
           len  == Len(result)
           next == Append(result, cs[n])
<1>1. PICK at : Comes(at, result, cs, old)
  BY DEF ReadFrom
<1> DEFINE to == [k \in 1..(len + 1) |-> IF k = len + 1 THEN n ELSE at[k]]
<1>2. cs[n] \in Decoded
  BY DEF IsJson, Chunk
<1>3. /\ len \in Nat /\ DOMAIN result = 1..len
      /\ next \in Seq(Decoded) /\ DOMAIN next = 1..(len + 1)
      /\ next[len + 1] = cs[n] /\ \A k \in 1..len : next[k] = result[k]
  BY <1>2
<1>4. n \in Nat /\ \A i \in old : i \in Nat /\ i < n
  OBVIOUS
<1>5. read = old \cup {n} /\ n \notin old
  <2>1. n \in spots
    OBVIOUS
  <2>2. 1..n = 1..(n - 1) \cup {n}
    OBVIOUS
  <2> QED
    BY <1>4, <2>1, <2>2
<1> HIDE DEF old, read, next, len
<1>6. /\ at \in [1..len -> old]
      /\ \A i \in old : \E k \in 1..len : at[k] = i
      /\ \A k \in 1..len : result[k] = cs[at[k]]
      /\ \A k, l \in 1..len : k < l => at[k] < at[l]
  BY <1>1, <1>3 DEF Comes
<1>7. /\ to[len + 1] = n /\ DOMAIN to = 1..(len + 1)
      /\ \A k \in 1..len : to[k] = at[k] /\ k \in 1..(len + 1)
      /\ \A k \in 1..(len + 1) : k \in 1..len \/ k = len + 1
      /\ len + 1 \in 1..(len + 1)
  BY <1>3
<1>8. to \in [1..(len + 1) -> read]
  BY <1>5, <1>6, <1>7
<1> HIDE DEF to
<1>9. \A i \in read : \E k \in 1..(len + 1) : to[k] = i
  BY <1>5, <1>6, <1>7
<1>10. \A k \in 1..(len + 1) : next[k] = cs[to[k]]
  BY <1>3, <1>6, <1>7
<1>11. ASSUME NEW k \in 1..(len + 1), NEW l \in 1..(len + 1), k < l
       PROVE  to[k] < to[l]
  <2>1. k \in 1..len
    BY <1>3, <1>11
  <2>2. CASE l \in 1..len
    BY <1>6, <1>7, <1>11, <2>1, <2>2
  <2>3. CASE l = len + 1
    BY <1>4, <1>6, <1>7, <2>1, <2>3
  <2> QED
    BY <1>7, <2>2, <2>3
<1>12. Comes(to, next, cs, read)
  BY <1>3, <1>8, <1>9, <1>10, <1>11 DEF Comes
<1> QED
  BY <1>3, <1>12 DEF ReadFrom, next, read

LEMMA LineIsSkipped ==
    ASSUME NEW n \in Nat \ {0}, NEW spots, n \notin spots
    PROVE  spots \cap 1..n = spots \cap 1..(n - 1)
<1>1. 1..n = 1..(n - 1) \cup {n}
  OBVIOUS
<1> QED
  BY <1>1

HasRead(g, cs, spots, n) == /\ g[n] \in Seq(Decoded) /\ Len(g[n]) <= n
                            /\ ReadFrom(g[n], cs, spots \cap 1..n)

\* The values that have a line to themselves.
LEMMA LinesAreRead ==
    ASSUME NEW cs \in Seq(Chunk), NEW lone
    PROVE  /\ ReadFrom(DecodableLines(cs, lone), cs, Places(cs) \cap lone)
           /\ DecodableLines(cs, lone) \in Seq(Decoded)
           /\ Len(DecodableLines(cs, lone)) <= Len(cs)
<1>1. PICK g : Loop(g, cs, lone, Len(cs)) /\ DecodableLines(cs, lone) = g[Len(cs)]
  BY LinesAreTheLoop
<1> DEFINE spots == Places(cs) \cap lone
           bad   == {n \in 0..Len(cs) : ~HasRead(g, cs, spots, n)}
<1>0. spots = Places(cs) \cap lone
  OBVIOUS
<1> HIDE DEF spots
<1>2. \A n \in 0..Len(cs) : g[n] = Line(g, cs, lone, n)
  BY <1>1 DEF Loop
<1>3. ASSUME bad # {}
      PROVE  FALSE
  <2>0. bad \subseteq Nat
    OBVIOUS
  <2>1. PICK n \in bad : \A k \in bad : n <= k
    <3> HIDE DEF bad
    <3> QED
      BY <1>3, <2>0, LeastOf
  <2>2. n # 0
    <3>1. g[0] = <<>> /\ 1..0 = {}
      BY <1>2 DEF Line
    <3>2. <<>> \in Seq(Decoded) /\ Len(<<>>) = 0
      OBVIOUS
    <3> QED
      BY <2>1, <3>1, <3>2, NothingIsRead DEF HasRead
  <2>3. n \in 1..Len(cs) /\ n - 1 \in 0..Len(cs) /\ n - 1 < n
    BY <2>1, <2>2
  <2>4. HasRead(g, cs, spots, n - 1)
    BY <2>1, <2>3
  <2>5. CASE n \in lone /\ IsJson(cs[n])
    <3>1. g[n] = Append(g[n - 1], cs[n])
      BY <1>2, <2>2, <2>3, <2>5 DEF Line
    <3>2. Len(Append(g[n - 1], cs[n])) = Len(g[n - 1]) + 1 /\ Len(g[n - 1]) \in Nat
      BY <2>4 DEF HasRead
    <3>3. Len(g[n]) <= n
      BY <2>3, <2>4, <3>1, <3>2 DEF HasRead
    <3>4. /\ Append(g[n - 1], cs[n]) \in Seq(Decoded)
          /\ ReadFrom(Append(g[n - 1], cs[n]), cs, spots \cap 1..n)
      <4>1. n \in spots
        BY <1>0, <2>3, <2>5 DEF Places
      <4> QED
        BY <2>3, <2>4, <2>5, <4>1, LineIsRead DEF HasRead
    <3> QED
      BY <2>1, <3>1, <3>3, <3>4 DEF HasRead
  <2>6. CASE ~(n \in lone /\ IsJson(cs[n]))
    <3>1. g[n] = g[n - 1]
      BY <1>2, <2>2, <2>3, <2>6 DEF Line
    <3>2. spots \cap 1..n = spots \cap 1..(n - 1)
      <4>1. n \notin spots
        BY <1>0, <2>6 DEF Places
      <4> QED
        BY <2>3, <4>1, LineIsSkipped
    <3>3. Len(g[n - 1]) <= n
      <4>1. Len(g[n - 1]) \in Nat /\ Len(g[n - 1]) <= n - 1
        BY <2>4 DEF HasRead
      <4> QED
        BY <2>3, <4>1
    <3> QED
      BY <2>1, <2>4, <3>1, <3>2, <3>3 DEF HasRead
  <2> QED
    BY <2>5, <2>6
<1>4. HasRead(g, cs, spots, Len(cs))
  BY <1>3
<1>5. spots \cap 1..Len(cs) = Places(cs) \cap lone
  BY <1>0 DEF Places
<1> QED
  BY <1>1, <1>4, <1>5 DEF HasRead

\* One body.
LEMMA TextFacts ==
    ASSUME NEW b \in Bodies
    PROVE  /\ b.chunks \in Seq(Chunk) /\ Len(b.chunks) \in 0..MaxBatch
           /\ b.lead \in BOOLEAN
           /\ b.shape = "array" => b.chunks \in Seq(Decoded)
           /\ b.shape \in {"array", "text"}
<1>1. b.chunks \in BoundedSeqs(Chunk) /\ b.shape \in {"array", "text"} /\ b.lead \in BOOLEAN
  BY DEF Bodies, BoundedSeqs, Chunk
<1>2. b.shape = "array" => b.chunks \in BoundedSeqs(Decoded)
  BY DEF Bodies
<1>3. PICK n \in 0..MaxBatch : b.chunks \in [1..n -> Chunk]
  BY <1>1 DEF BoundedSeqs
<1>4. n \in Nat /\ n \in 0..MaxBatch
  BY MaxBatchAssumption
<1>5. b.chunks \in Seq(Chunk) /\ Len(b.chunks) = n
  BY <1>3, <1>4
<1>6. ASSUME b.shape = "array"
      PROVE  b.chunks \in Seq(Decoded)
  <2>1. PICK m \in 0..MaxBatch : b.chunks \in [1..m -> Decoded]
    BY <1>2, <1>6 DEF BoundedSeqs
  <2> QED
    BY <2>1, MaxBatchAssumption
<1> QED
  BY <1>1, <1>4, <1>5, <1>6

LEMMA DecodedSeq ==
    ASSUME NEW s \in Seq(Chunk), \A k \in 1..Len(s) : s[k] \in Decoded
    PROVE  s \in Seq(Decoded)
<1>1. Len(s) \in Nat /\ s = [k \in 1..Len(s) |-> s[k]]
  OBVIOUS
<1>2. s \in [1..Len(s) -> Decoded]
  BY <1>1
<1> QED
  BY <1>1, <1>2

Intact(cs) == {i \in Places(cs) : 1..i \subseteq Places(cs)}

\* What _parse_json_objects may return of a text.
ReadingOf(result, b) ==
    IF 1 \in Places(b.chunks)
    THEN ReadFrom(result, b.chunks, Intact(b.chunks)) \/ (b.lead /\ ReadFrom(result, b.chunks, {}))
    ELSE ReadFrom(result, b.chunks, Places(b.chunks) \cap b.lone)

LEMMA ParsedFacts ==
    ASSUME NEW b \in Bodies
    PROVE  /\ Parse(b) \in Seq(Decoded) /\ Len(Parse(b)) <= MaxBatch
           /\ ReadingOf(Parse(b), b)
<1> DEFINE cs == b.chunks
<1>1. cs \in Seq(Chunk) /\ Len(cs) \in 0..MaxBatch /\ b.shape \in {"array", "text"}
  BY TextFacts
<1>2. Len(cs) <= MaxBatch /\ Len(cs) \in Nat /\ MaxBatch \in Nat
  BY <1>1, MaxBatchAssumption
<1>3. DOMAIN cs = 1..Len(cs)
  BY <1>1
<1>a. CASE b.shape = "array" \/ (b.shape = "text" /\ Len(cs) = 1 /\ IsJson(cs[1]))
  <2>1. Parse(b) = cs
    <3>1. CASE b.shape = "array"
      BY <3>1 DEF Parse
    <3>2. CASE b.shape = "text" /\ Len(cs) = 1 /\ IsJson(cs[1])
      <4>1. ~(Len(cs) > 1) /\ b.shape # "array"
        BY <3>2
      <4> QED
        BY <3>2, <4>1 DEF Parse
    <3> QED
      BY <1>a, <3>1, <3>2
  <2>2. cs \in Seq(Decoded)
    <3>1. CASE b.shape = "array"
      BY <3>1, TextFacts
    <3>2. CASE Len(cs) = 1 /\ IsJson(cs[1])
      <4>1. cs[1] \in Decoded
        BY <1>1, <3>2 DEF IsJson, Chunk
      <4>2. \A i \in 1..Len(cs) : cs[i] \in Decoded
        BY <3>2, <4>1
      <4> QED
        BY <1>1, <4>2, DecodedSeq
    <3> QED
      BY <1>a, <3>1, <3>2
  <2>3. Places(cs) = DOMAIN cs
    <3>1. \A i \in DOMAIN cs : cs[i] \in Decoded
      BY <2>2
    <3> QED
      BY <3>1 DEF Places, IsJson, Decoded
  <2>4. ReadFrom(cs, cs, DOMAIN cs)
    BY <1>1, AllIsRead
  <2>5. CASE 1 \in Places(cs)
    <3>1. Intact(cs) = DOMAIN cs
      BY <1>2, <1>3, <2>3 DEF Intact
    <3> QED
      BY <1>2, <2>1, <2>2, <2>4, <2>5, <3>1 DEF ReadingOf
  <2>6. CASE 1 \notin Places(cs)
    <3>1. DOMAIN cs = {} /\ Places(cs) \cap b.lone = DOMAIN cs
      BY <1>2, <1>3, <2>3, <2>6
    <3> QED
      BY <1>2, <2>1, <2>2, <2>4, <2>6, <3>1 DEF ReadingOf
  <2> QED
    BY <2>5, <2>6
<1>f. ASSUME Len(cs) > 1, IsJson(cs[1])
      PROVE  1 \in Places(cs)
  BY <1>2, <1>3, <1>f DEF Places
<1>b. CASE b.shape = "text" /\ Len(cs) > 1 /\ IsJson(cs[1]) /\ b.lead
  <2>1. Parse(b) = <<>>
    BY <1>1, <1>b DEF Parse
  <2>2. <<>> \in Seq(Decoded) /\ Len(<<>>) = 0
    OBVIOUS
  <2> QED
    BY <1>2, <1>b, <1>f, <2>1, <2>2, NothingIsRead DEF ReadingOf
<1>c. CASE b.shape = "text" /\ Len(cs) > 1 /\ IsJson(cs[1]) /\ ~b.lead
  <2>1. Parse(b) = DecodablePrefix(cs)
    BY <1>1, <1>c DEF Parse
  <2>2. /\ ReadFrom(Parse(b), cs, Intact(cs))
        /\ Parse(b) \in Seq(Decoded) /\ Len(Parse(b)) <= Len(cs)
    BY <1>1, <2>1, PrefixIsRead DEF Intact
  <2>3. Len(Parse(b)) \in Nat
    BY <2>2
  <2> QED
    BY <1>2, <1>c, <1>f, <2>2, <2>3 DEF ReadingOf
<1>d. CASE b.shape = "text" /\ ~(Len(cs) >= 1 /\ IsJson(cs[1]))
  <2>1. Parse(b) = DecodableLines(cs, b.lone)
    BY <1>1, <1>d DEF Parse
  <2>2. /\ ReadFrom(Parse(b), cs, Places(cs) \cap b.lone)
        /\ Parse(b) \in Seq(Decoded) /\ Len(Parse(b)) <= Len(cs)
    BY <1>1, <2>1, LinesAreRead
  <2>3. Len(Parse(b)) \in Nat
    BY <2>2
  <2>4. 1 \notin Places(cs)
    BY <1>2, <1>3, <1>d DEF Places
  <2> QED
    BY <1>2, <2>2, <2>3, <2>4 DEF ReadingOf
<1> QED
  <2>1. Len(cs) >= 1 => Len(cs) = 1 \/ Len(cs) > 1
    <3> DEFINE len == Len(cs)
    <3>1. len \in Nat
      BY <1>2
    <3> HIDE DEF len
    <3>2. len >= 1 => len = 1 \/ len > 1
      BY <3>1
    <3> QED
      BY <3>2 DEF len
  <2> QED
    BY <1>1, <2>1, <1>a, <1>b, <1>c, <1>d

\* The handler goes on with a batch of decoded values whatever body it is sent, and
\* there is a body for every batch: the batches of ThreatVault are all there are.
THEOREM BodiesBecomeBatches == {Parse(b) : b \in Bodies} = Batches
<1>1. ASSUME NEW b \in Bodies
      PROVE  Parse(b) \in Batches
  <2>1. Parse(b) \in Seq(Decoded) /\ Len(Parse(b)) <= MaxBatch
    BY ParsedFacts
  <2>2. Len(Parse(b)) \in 0..MaxBatch /\ Parse(b) \in [1..Len(Parse(b)) -> Decoded]
    BY <2>1, MaxBatchAssumption
  <2> QED
    BY <2>2 DEF Batches, BoundedSeqs
<1>2. ASSUME NEW cs \in Batches
      PROVE  \E b \in Bodies : Parse(b) = cs
  <2> DEFINE b == [shape |-> "array", lead |-> FALSE, lone |-> {}, chunks |-> cs]
  <2>1. b \in Bodies
    BY DEF Bodies, Batches
  <2>2. Parse(b) = cs
    BY DEF Parse
  <2> QED
    BY <2>1, <2>2
<1> QED
  BY <1>1, <1>2

\* _parse_json_objects returns the values of every body in the order of its text:
\* those before the first damage when the body begins with a value (or none, behind
\* white space), those with a line to themselves when it begins with damage.
THEOREM BodiesAreRead == ReadingSpec => []ReadsUpToDamage
<1> DEFINE Read == body \in Bodies /\ (returned => decoded = Parse(body))
<1>1. ReadingInit => Read
  BY DEF ReadingInit
<1>2. Read /\ [Decode]_readingVars => Read'
  BY DEF Decode, readingVars
<1>3. Read => ReadsUpToDamage
  <2> SUFFICES ASSUME Read, returned
               PROVE  IF 1 \in Clean
                      THEN ReadAt(Undamaged) \/ (body.lead /\ ReadAt({}))
                      ELSE ReadAt(Clean \cap body.lone)
    BY DEF ReadsUpToDamage
  <2>1. Clean = Places(body.chunks) /\ Undamaged = Intact(body.chunks)
    BY DEF Clean, Undamaged, Places, Intact
  <2>2. \A read : ReadFrom(decoded, body.chunks, read) => ReadAt(read)
    BY DEF ReadFrom, Comes, ReadAt
  <2>3. ReadingOf(decoded, body)
    BY ParsedFacts
  <2> HIDE DEF Read
  <2> QED
    BY <2>1, <2>2, <2>3 DEF ReadingOf
<1> QED
  BY <1>1, <1>2, <1>3, PTL DEF ReadingSpec

\* The body falls to raw_decode, which starts at offset 0 and so does not get past
\* the white space a body starts with.
StopsAtLead ==
    /\ body.shape = "text" /\ body.lead
    /\ Len(body.chunks) > 1 /\ IsJson(body.chunks[1])

LEMMA CleanPrefix ==
    ASSUME NEW cs \in Seq(Chunk), Places(cs) = DOMAIN cs
    PROVE  DecodablePrefix(cs) = cs
<1> DEFINE len   == Len(cs)
           stops == {n \in 0..len : \A i \in 1..n : IsJson(cs[i])}
           last  == CHOOSE n \in stops : \A m \in stops : m <= n
<1>1. len \in Nat /\ \A i \in 1..len : IsJson(cs[i])
  BY DEF Places
<1>2. len \in stops /\ stops \subseteq 0..len
  <2> HIDE DEF len
  <2> QED
    BY <1>1
<1>3. \A m \in stops : m <= len
  <2> HIDE DEF len
  <2> QED
    BY <1>1, <1>2
<1>4. last \in stops /\ \A m \in stops : m <= last
  BY <1>2, <1>3
<1>5. last = len
  <2>1. last \in 0..len /\ len <= last /\ last <= len
    BY <1>2, <1>3, <1>4
  <2> HIDE DEF last, len
  <2> QED
    BY <1>1, <2>1
<1>6. DecodablePrefix(cs) = SubSeq(cs, 1, last)
  BY DEF DecodablePrefix
<1>7. SubSeq(cs, 1, Len(cs)) = cs
  OBVIOUS
<1> HIDE DEF last
<1> QED
  BY <1>5, <1>6, <1>7

LEMMA CleanIsParsed ==
    ASSUME NEW b \in Bodies, Places(b.chunks) = DOMAIN b.chunks,
           ~(/\ b.shape = "text" /\ b.lead
             /\ Len(b.chunks) > 1 /\ IsJson(b.chunks[1]))
    PROVE  Parse(b) = b.chunks
<1> DEFINE cs  == b.chunks
           len == Len(cs)
<1>1. cs \in Seq(Chunk) /\ len \in Nat /\ b.shape \in {"array", "text"}
  BY TextFacts
<1>2. CASE b.shape = "array"
  BY <1>2 DEF Parse
<1>3. CASE b.shape = "text" /\ len = 0
  <2>1. ~(Len(cs) = 1) /\ ~(Len(cs) > 1)
    BY <1>3
  <2>2. Parse(b) = DecodableLines(cs, b.lone)
    BY <1>3, <2>1 DEF Parse
  <2>3. DecodableLines(cs, b.lone) \in Seq(Decoded) /\ Len(DecodableLines(cs, b.lone)) <= Len(cs)
    BY <1>1, LinesAreRead
  <2>4. Len(DecodableLines(cs, b.lone)) = 0
    BY <1>3, <2>3
  <2> QED
    BY <1>1, <1>3, <2>2, <2>3, <2>4
<1>4. CASE b.shape = "text" /\ len >= 1
  <2>1. IsJson(cs[1])
    <3>1. 1 \in DOMAIN cs
      BY <1>1, <1>4
    <3> QED
      BY <3>1 DEF Places
  <2>2. CASE len = 1
    <3>1. ~(Len(cs) > 1) /\ b.shape # "array"
      BY <1>4, <2>2
    <3> QED
      BY <1>4, <2>1, <2>2, <3>1 DEF Parse
  <2>3. CASE len > 1
    <3>1. ~(Len(cs) = 1) /\ b.shape # "array" /\ ~b.lead
      <4>1. ~(len = 1)
        <5> HIDE DEF len
        <5> QED
          BY <1>1, <2>3
      <4> QED
        BY <1>4, <2>1, <2>3, <4>1
    <3>2. Parse(b) = DecodablePrefix(cs)
      BY <1>4, <2>1, <2>3, <3>1 DEF Parse
    <3> QED
      BY <1>1, <3>2, CleanPrefix
  <2>4. len = 1 \/ len > 1
    <3> HIDE DEF len
    <3> QED
      BY <1>1, <1>4
  <2> QED
    BY <2>2, <2>3, <2>4
<1>5. len = 0 \/ len >= 1
  <2> HIDE DEF len
  <2> QED
    BY <1>1
<1> QED
  BY <1>1, <1>2, <1>3, <1>4, <1>5

\* "handling NDJSON and concatenated JSON" is true of exactly the bodies without
\* damage that do not reach raw_decode behind white space; of those that do,
\* _parse_json_objects returns nothing at all.
THEOREM CleanBodiesAreRead ==
    ReadingSpec => [](IF StopsAtLead THEN returned => decoded = <<>> ELSE CleanBodyIsRead)
<1> DEFINE Read == body \in Bodies /\ (returned => decoded = Parse(body))
<1>1. ReadingInit => Read
  BY DEF ReadingInit
<1>2. Read /\ [Decode]_readingVars => Read'
  BY DEF Decode, readingVars
<1>3. Read => IF StopsAtLead THEN returned => decoded = <<>> ELSE CleanBodyIsRead
  <2>1. ASSUME Read, returned, StopsAtLead
        PROVE  decoded = <<>>
    <3> DEFINE len == Len(body.chunks)
    <3>1. len \in Nat /\ len > 1 /\ body.shape = "text"
      BY <2>1, TextFacts DEF StopsAtLead
    <3>2. ~(len = 1)
      <4> HIDE DEF len
      <4> QED
        BY <3>1
    <3>3. body.shape # "array"
      BY <3>1
    <3> QED
      BY <2>1, <3>2, <3>3 DEF StopsAtLead, Parse
  <2>2. ASSUME Read, ~StopsAtLead
        PROVE  CleanBodyIsRead
    <3>1. Clean = Places(body.chunks)
      BY DEF Clean, Places
    <3> QED
      BY <2>2, <3>1, CleanIsParsed DEF StopsAtLead, CleanBodyIsRead
  <2> QED
    BY <2>1, <2>2
<1> QED
  BY <1>1, <1>2, <1>3, PTL DEF ReadingSpec
-----------------------------------------------------------------------------

LEMMA BatchFacts ==
    ASSUME NEW b \in Batches
    PROVE  /\ DOMAIN b \subseteq 1..MaxBatch
           /\ \A kind : /\ Indexes(b, kind) \subseteq DOMAIN b
                        /\ Cardinality(Indexes(b, kind)) \in Nat
<1>1. PICK n \in 0..MaxBatch : b \in [1..n -> Decoded]
  BY DEF Batches, BoundedSeqs
<1>2. DOMAIN b = 1..n /\ DOMAIN b \subseteq 1..MaxBatch
  BY <1>1, MaxBatchAssumption
<1>3. IsFiniteSet(DOMAIN b)
  BY <1>1, <1>2, FS_Interval
<1>4. ASSUME NEW kind
      PROVE  /\ Indexes(b, kind) \subseteq DOMAIN b
             /\ Cardinality(Indexes(b, kind)) \in Nat
  <2>1. Indexes(b, kind) \subseteq DOMAIN b
    BY DEF Indexes
  <2> QED
    BY <2>1, <1>3, FS_Subset, FS_CardinalityType
<1> QED
  BY <1>2, <1>4

LEMMA InTrimFinite == IsFiniteSet(InTrim) /\ Cardinality(InTrim) \in Nat
<1>1. InTrim \subseteq Deliveries
  BY DEF InTrim
<1> QED
  BY <1>1, VaultAssumption, FS_Subset, FS_CardinalityType

\* The name of the event a handler works on.
LEMMA CurrentIsEvent ==
    ASSUME TypeOK, NEW d \in Deliveries, NEW i \in todo[d]
    PROVE  <<d, i>> \in Event /\ i \in 1..MaxBatch
  BY DEF TypeOK, Event

(***************************************************************************)
(* Every step of the handlers is a step of the ring buffer, or none.       *)
(***************************************************************************)
LEMMA StepIsRingStep ==
    TypeOK /\ [Next]_vars => [Ring!Next]_(Ring!ringVars)
<1> SUFFICES ASSUME TypeOK, [Next]_vars
             PROVE  [Ring!Next]_(Ring!ringVars)
  OBVIOUS
<1> USE DEF Ring!Next, Ring!ringVars
<1>1. ASSUME NEW d \in Deliveries, NEW i \in todo[d], Push(d, i)
      PROVE  Ring!Next
  BY <1>1, CurrentIsEvent DEF Push
<1>2. ASSUME NEW d \in Deliveries, NEW i \in todo[d], Trim(d, i)
      PROVE  Ring!Next
  BY <1>2 DEF Trim
<1>3. ASSUME NEW d \in Deliveries, NEW i \in todo[d], NEW applied \in BOOLEAN,
             PushFails(d, i, applied)
      PROVE  Ring!Next \/ UNCHANGED Ring!ringVars
  BY <1>3, CurrentIsEvent DEF PushFails
<1>4. ASSUME NEW d \in Deliveries, NEW i \in todo[d], NEW applied \in BOOLEAN,
             TrimFails(d, i, applied)
      PROVE  Ring!Next \/ UNCHANGED Ring!ringVars
  BY <1>4 DEF TrimFails
<1>5. ASSUME NEW d \in Deliveries, NEW i \in todo[d],
             Publish(d, i) \/ \E applied \in BOOLEAN : PublishFails(d, i, applied)
      PROVE  UNCHANGED Ring!ringVars
  BY <1>5 DEF Publish, PublishFails
<1>6. ASSUME NEW d \in Deliveries,
             \/ Refuse(d) \/ Answer(d) \/ Raise(d)
             \/ \E b \in Batches : RejectBody(d, b) \/ Accept(d, b)
      PROVE  UNCHANGED Ring!ringVars
  BY <1>6 DEF Refuse, Answer, Raise, RejectBody, Accept, redisVars
<1>7. CASE Crash
  BY <1>7 DEF Crash
<1>8. CASE RedisForgets
  BY <1>8 DEF RedisForgets
<1>9. CASE UNCHANGED vars
  BY <1>9 DEF vars, redisVars
<1> QED
  BY <1>1, <1>2, <1>3, <1>4, <1>5, <1>6, <1>7, <1>8, <1>9 DEF Next, Handle, Work

LEMMA InitTypeOK == Init => TypeOK
<1> SUFFICES ASSUME Init PROVE TypeOK
  OBVIOUS
<1>1. <<>> \in Batches
  BY MaxBatchAssumption DEF Batches, BoundedSeqs
<1> QED
  BY <1>1 DEF Init, Ring!Init, TypeOK, Commands, Ends

\* What LTRIM leaves is a list of events.
LEMMA TrimmedType ==
    ASSUME vault \in Seq(Event)
    PROVE  Ring!Trimmed(vault) \in Seq(Event)
  BY VaultAssumption DEF Ring!Trimmed

LEMMA NextTypeOK == TypeOK /\ [Next]_vars => TypeOK'
<1> SUFFICES ASSUME TypeOK, [Next]_vars
             PROVE  TypeOK'
  OBVIOUS
<1> USE DEF TypeOK, Commands, Ends
<1>1. ASSUME NEW d \in Deliveries, Refuse(d)
      PROVE  TypeOK'
  BY <1>1 DEF Refuse, redisVars
<1>2. ASSUME NEW d \in Deliveries, NEW b \in Batches, RejectBody(d, b)
      PROVE  TypeOK'
  BY <1>2 DEF RejectBody, redisVars
<1>3. ASSUME NEW d \in Deliveries, NEW b \in Batches, Accept(d, b)
      PROVE  TypeOK'
  <2>1. Indexes(b, "event") \subseteq DOMAIN b /\ DOMAIN b \subseteq 1..MaxBatch
    BY BatchFacts
  <2>2. batch' \in [Deliveries -> Batches] /\ todo' \in [Deliveries -> SUBSET (1..MaxBatch)]
    BY <1>3, <2>1 DEF Accept
  <2>3. \A e \in Deliveries : todo'[e] \subseteq DOMAIN batch'[e]
    BY <1>3, <2>1 DEF Accept
  <2> QED
    BY <1>3, <2>2, <2>3 DEF Accept, redisVars
<1>4. ASSUME NEW d \in Deliveries, NEW i \in todo[d], Publish(d, i)
      PROVE  TypeOK'
  BY <1>4, CurrentIsEvent DEF Publish
<1>5. ASSUME NEW d \in Deliveries, NEW i \in todo[d], Push(d, i)
      PROVE  TypeOK'
  BY <1>5, CurrentIsEvent DEF Push, Ring!Push
<1>6. ASSUME NEW d \in Deliveries, NEW i \in todo[d], Trim(d, i)
      PROVE  TypeOK'
  BY <1>6, TrimmedType DEF Trim, Ring!Trim
<1>7. ASSUME NEW d \in Deliveries, NEW i \in todo[d], NEW applied \in BOOLEAN,
             PublishFails(d, i, applied)
      PROVE  TypeOK'
  BY <1>7, CurrentIsEvent DEF PublishFails, Skip
<1>8. ASSUME NEW d \in Deliveries, NEW i \in todo[d], NEW applied \in BOOLEAN,
             PushFails(d, i, applied)
      PROVE  TypeOK'
  <2>1. <<d, i>> \in Event
    BY CurrentIsEvent
  <2>2. pushed' \in Seq(Event) /\ vault' \in Seq(Event) /\ untrimmed' \in Nat
    <3>1. CASE applied
      <4>1. Ring!Push(<<d, i>>) /\ untrimmed' = untrimmed + 1
        BY <1>8, <3>1 DEF PushFails
      <4> QED
        BY <2>1, <4>1 DEF Ring!Push
    <3>2. CASE ~applied
      BY <1>8, <3>2 DEF PushFails
    <3> QED
      BY <3>1, <3>2
  <2> QED
    BY <1>8, <2>2 DEF PushFails, Skip
<1>9. ASSUME NEW d \in Deliveries, NEW i \in todo[d], NEW applied \in BOOLEAN,
             TrimFails(d, i, applied)
      PROVE  TypeOK'
  BY <1>9, TrimmedType DEF TrimFails, Skip, Ring!Trim
<1>14. ASSUME NEW d \in Deliveries, Raise(d)
       PROVE  TypeOK'
  BY <1>14 DEF Raise, redisVars
<1>10. ASSUME NEW d \in Deliveries, Answer(d)
       PROVE  TypeOK'
  <2>1. Cardinality(Indexes(batch[d], "noisy")) \in Nat
    BY BatchFacts
  <2> QED
    BY <1>10, <2>1 DEF Answer, redisVars
<1>11. CASE Crash
  BY <1>11, InTrimFinite DEF Crash
<1>12. CASE RedisForgets
  BY <1>12 DEF RedisForgets, Ring!Forget, handlerVars
<1>13. CASE UNCHANGED vars
  BY <1>13 DEF vars, handlerVars, redisVars
<1> QED
  BY <1>1, <1>2, <1>3, <1>4, <1>5, <1>6, <1>7, <1>8, <1>9, <1>10, <1>11, <1>12, <1>13, <1>14
  DEF Next, Handle, Work

\* Type correctness of falco_webhook and of the vault.
THEOREM TypeCorrect == Spec => []TypeOK
<1>1. Init => TypeOK
  BY InitTypeOK
<1>2. TypeOK /\ [Next]_vars => TypeOK'
  BY NextTypeOK
<1> QED
  BY <1>1, <1>2, PTL DEF Spec

LEMMA WebhookKeepsRing == Spec => Ring!Spec
<1>1. Init => Ring!Init
  BY DEF Init
<1>2. TypeOK /\ [Next]_vars => [Ring!Next]_(Ring!ringVars)
  BY StepIsRingStep
<1> QED
  BY <1>1, <1>2, TypeCorrect, PTL DEF Spec, Ring!Spec

Proved == INSTANCE RingVaultProofs WITH Entry <- Event, Cap <- MaxHistory

\* The history of alerts is the newest MaxHistory events or more, newest first,
\* whatever handlers and failures come between LPUSH and LTRIM.
THEOREM HistoryIsNewest == Spec => []VaultIsNewest
<1>1. Ring!Init <=> Proved!Init
  BY DEF Ring!Init, Proved!Init
<1>2. [Ring!Next]_(Ring!ringVars) <=> [Proved!Next]_(Proved!ringVars)
  BY DEF Ring!Next, Ring!Push, Ring!Trim, Ring!Trimmed, Ring!Forget, Ring!ringVars,
         Proved!Next, Proved!Push, Proved!Trim, Proved!Trimmed, Proved!Forget, Proved!ringVars
<1>3. VaultIsNewest <=> Proved!VaultIsNewest
  BY DEF VaultIsNewest, Ring!VaultIsNewest, Proved!VaultIsNewest
<1>4. Proved!Spec => [](Proved!TypeOK /\ Proved!VaultIsNewest)
  BY VaultAssumption, Proved!RingIsNewest DEF Proved!PositiveCap
<1> QED
  BY <1>1, <1>2, <1>3, <1>4, WebhookKeepsRing, PTL
  DEF Ring!Spec, Proved!Spec

-----------------------------------------------------------------------------
(***************************************************************************)
(* Published first, stored second.  What is inductive: an event whose      *)
(* handler has reached LPUSH or LTRIM is already on the channel.           *)
(***************************************************************************)
Stored(d) == step[d] \in {"lpush", "ltrim"}

InFlightWasStreamed ==
    \A d \in Deliveries : \A i \in todo[d] :
        Stored(d) /\ IsCurrent(d, i) => <<d, i>> \in Elements(channel)

StreamedFirst == TypeOK /\ StoredWasStreamed /\ InFlightWasStreamed

LEMMA ElementsOfAppend ==
    ASSUME NEW S, NEW s \in Seq(S), NEW e \in S
    PROVE  Elements(Append(s, e)) = Elements(s) \cup {e}
<1>1. /\ DOMAIN Append(s, e) = DOMAIN s \cup {Len(s) + 1}
      /\ Append(s, e)[Len(s) + 1] = e
      /\ \A k \in DOMAIN s : Append(s, e)[k] = s[k]
  OBVIOUS
<1> QED
  BY <1>1 DEF Elements

LEMMA ElementsOfAppendedEvent ==
    ASSUME TypeOK, NEW d \in Deliveries, NEW i \in todo[d], NEW s \in Seq(Event)
    PROVE  Elements(Append(s, <<d, i>>)) = Elements(s) \cup {<<d, i>>}
<1>1. <<d, i>> \in Event
  BY CurrentIsEvent
<1> QED
  BY <1>1, ElementsOfAppend

LEMMA CurrentIsUnique ==
    ASSUME TypeOK, NEW d \in Deliveries, NEW i, NEW j, IsCurrent(d, i), IsCurrent(d, j)
    PROVE  i = j
<1>1. i \in Int /\ j \in Int /\ i <= j /\ j <= i
  BY DEF IsCurrent, TypeOK
<1> QED
  BY <1>1

\* A step that touches neither the channel nor the vault, and leaves every
\* handler that is on its way to the vault where it is.
LEMMA QuietStepStreamedFirst ==
    ASSUME StreamedFirst, TypeOK',
           UNCHANGED channel,
           Elements(pushed') \subseteq Elements(pushed),
           \A d \in Deliveries :
              Stored(d)' => step'[d] = step[d] /\ todo'[d] = todo[d]
    PROVE  StreamedFirst'
<1>1. StoredWasStreamed'
  BY DEF StreamedFirst, StoredWasStreamed, Elements
<1>2. InFlightWasStreamed'
  BY DEF StreamedFirst, InFlightWasStreamed, Stored, IsCurrent, Elements
<1> QED
  BY <1>1, <1>2 DEF StreamedFirst

LEMMA NextStreamedFirst == StreamedFirst /\ [Next]_vars => StreamedFirst'
<1> SUFFICES ASSUME StreamedFirst, [Next]_vars
             PROVE  StreamedFirst'
  OBVIOUS
<1>t. TypeOK /\ TypeOK'
  BY NextTypeOK DEF StreamedFirst
<1>1. ASSUME NEW d \in Deliveries,
             \/ Refuse(d) \/ Answer(d) \/ Raise(d)
             \/ \E b \in Batches : RejectBody(d, b) \/ Accept(d, b)
      PROVE  StreamedFirst'
  <2>1. UNCHANGED <<channel, pushed>>
    BY <1>1 DEF Refuse, Answer, Raise, RejectBody, Accept, redisVars
  <2>2. \A e \in Deliveries : Stored(e)' => step'[e] = step[e] /\ todo'[e] = todo[e]
    BY <1>1, <1>t DEF Refuse, Answer, Raise, RejectBody, Accept, Stored, TypeOK
  <2> QED
    BY <1>t, <2>1, <2>2, QuietStepStreamedFirst DEF Elements
<1>2. ASSUME NEW d \in Deliveries, NEW i \in todo[d], Publish(d, i)
      PROVE  StreamedFirst'
  <2>1. Elements(channel') = Elements(channel) \cup {<<d, i>>}
    <3>1. channel' = Append(channel, <<d, i>>) /\ channel \in Seq(Event)
      BY <1>2, <1>t DEF Publish, TypeOK
    <3> QED
      BY <1>t, <3>1, ElementsOfAppendedEvent
  <2>2. StoredWasStreamed'
    BY <1>2, <2>1 DEF StreamedFirst, StoredWasStreamed, Publish, Elements
  <2>3. ASSUME NEW e \in Deliveries, NEW j \in todo'[e], Stored(e)', IsCurrent(e, j)'
        PROVE  <<e, j>> \in Elements(channel')
    <3>1. todo' = todo /\ IsCurrent(e, j)
      BY <1>2, <2>3 DEF Publish, IsCurrent
    <3>2. CASE e = d
      BY <1>2, <1>t, <2>1, <3>1, <3>2, CurrentIsUnique DEF Publish
    <3>3. CASE e # d
      <4>1. Stored(e)
        BY <1>2, <1>t, <2>3, <3>3 DEF Publish, Stored, TypeOK
      <4> QED
        BY <2>1, <3>1, <4>1 DEF StreamedFirst, InFlightWasStreamed
    <3> QED
      BY <3>2, <3>3
  <2>4. InFlightWasStreamed'
    BY <2>3 DEF InFlightWasStreamed, Elements
  <2> QED
    BY <1>t, <2>2, <2>4 DEF StreamedFirst
<1>3. ASSUME NEW d \in Deliveries, NEW i \in todo[d], Push(d, i)
      PROVE  StreamedFirst'
  <2>1. <<d, i>> \in Elements(channel)
    BY <1>3 DEF Push, StreamedFirst, InFlightWasStreamed, Stored
  <2>2. Elements(pushed') = Elements(pushed) \cup {<<d, i>>}
    <3>1. pushed' = Append(pushed, <<d, i>>) /\ pushed \in Seq(Event)
      BY <1>3, <1>t DEF Push, Ring!Push, TypeOK
    <3> QED
      BY <1>t, <3>1, ElementsOfAppendedEvent
  <2>3. StoredWasStreamed'
    BY <1>3, <2>1, <2>2 DEF StreamedFirst, StoredWasStreamed, Push, Elements
  <2>4. ASSUME NEW e \in Deliveries, NEW j \in todo'[e], Stored(e)', IsCurrent(e, j)'
        PROVE  <<e, j>> \in Elements(channel)
    <3>1. todo' = todo /\ IsCurrent(e, j)
      BY <1>3, <2>4 DEF Push, IsCurrent
    <3>2. Stored(e)
      BY <1>3, <1>t, <2>4 DEF Push, Stored, TypeOK
    <3> QED
      BY <3>1, <3>2 DEF StreamedFirst, InFlightWasStreamed
  <2>5. InFlightWasStreamed'
    BY <1>3, <2>4 DEF InFlightWasStreamed, Push, Elements
  <2> QED
    BY <1>t, <2>3, <2>5 DEF StreamedFirst
<1>4. ASSUME NEW d \in Deliveries, NEW i \in todo[d], Trim(d, i)
      PROVE  StreamedFirst'
  <2>1. UNCHANGED <<channel, pushed>>
    BY <1>4 DEF Trim, Ring!Trim
  <2>2. \A e \in Deliveries : Stored(e)' => step'[e] = step[e] /\ todo'[e] = todo[e]
    BY <1>4, <1>t DEF Trim, Stored, TypeOK
  <2> QED
    BY <1>t, <2>1, <2>2, QuietStepStreamedFirst DEF Elements
<1>5. ASSUME NEW d \in Deliveries, NEW i \in todo[d], Skip(d, i)
      PROVE  \A e \in Deliveries : Stored(e)' => step'[e] = step[e] /\ todo'[e] = todo[e]
  BY <1>5, <1>t DEF Skip, Stored, TypeOK
<1>6. ASSUME NEW d \in Deliveries, NEW i \in todo[d], NEW applied \in BOOLEAN,
             PublishFails(d, i, applied)
      PROVE  StreamedFirst'
  <2>1. Elements(channel) \subseteq Elements(channel') /\ pushed' = pushed
    BY <1>6, <1>t, CurrentIsEvent, ElementsOfAppend DEF PublishFails, TypeOK
  <2>2. StoredWasStreamed'
    BY <2>1 DEF StreamedFirst, StoredWasStreamed, Elements
  <2>3. InFlightWasStreamed'
    BY <1>5, <1>6, <2>1
    DEF StreamedFirst, InFlightWasStreamed, PublishFails, Stored, IsCurrent, Elements
  <2> QED
    BY <1>t, <2>2, <2>3 DEF StreamedFirst
<1>7. ASSUME NEW d \in Deliveries, NEW i \in todo[d], NEW applied \in BOOLEAN,
             PushFails(d, i, applied)
      PROVE  StreamedFirst'
  <2>1. IsCurrent(d, i) /\ <<d, i>> \in Elements(channel)
    BY <1>7 DEF PushFails, Skip, StreamedFirst, InFlightWasStreamed, Stored
  <2>2. Elements(pushed') \subseteq Elements(pushed) \cup {<<d, i>>}
    <3>1. pushed' \in {pushed, Append(pushed, <<d, i>>)} /\ pushed \in Seq(Event)
      BY <1>7, <1>t DEF PushFails, Ring!Push, TypeOK
    <3>2. Elements(Append(pushed, <<d, i>>)) = Elements(pushed) \cup {<<d, i>>}
      BY <1>t, <3>1, ElementsOfAppendedEvent
    <3> QED
      BY <3>1, <3>2
  <2>3. StoredWasStreamed' /\ channel' = channel
    BY <1>7, <2>1, <2>2 DEF StreamedFirst, StoredWasStreamed, PushFails, Elements
  <2>4. InFlightWasStreamed'
    BY <1>5, <1>7, <2>3
    DEF StreamedFirst, InFlightWasStreamed, PushFails, Stored, IsCurrent, Elements
  <2> QED
    BY <1>t, <2>3, <2>4 DEF StreamedFirst
<1>8. ASSUME NEW d \in Deliveries, NEW i \in todo[d], NEW applied \in BOOLEAN,
             TrimFails(d, i, applied)
      PROVE  StreamedFirst'
  <2>1. UNCHANGED <<channel, pushed>>
    BY <1>8 DEF TrimFails, Ring!Trim
  <2> QED
    BY <1>t, <1>5, <1>8, <2>1, QuietStepStreamedFirst DEF TrimFails, Elements
<1>9. CASE Crash
  <2>1. \A e \in Deliveries : Stored(e)' => step'[e] = step[e] /\ todo'[e] = todo[e]
    BY <1>9, <1>t DEF Crash, Stored, Running, Commands, TypeOK
  <2> QED
    BY <1>9, <1>t, <2>1, QuietStepStreamedFirst DEF Crash, Elements
<1>10. CASE RedisForgets
  <2>1. Elements(pushed') = {}
    BY <1>10 DEF RedisForgets, Ring!Forget, Elements
  <2> QED
    BY <1>10, <1>t, <2>1, QuietStepStreamedFirst DEF RedisForgets, handlerVars
<1>11. CASE UNCHANGED vars
  BY <1>11, <1>t, QuietStepStreamedFirst DEF vars, handlerVars, redisVars, Elements
<1> QED
  BY <1>1, <1>2, <1>3, <1>4, <1>6, <1>7, <1>8, <1>9, <1>10, <1>11 DEF Next, Handle, Work

LEMMA StreamedFirstIsInvariant == Spec => []StreamedFirst
<1>1. Init => StreamedFirst
  BY InitTypeOK
  DEF Init, Ring!Init, StreamedFirst, StoredWasStreamed, InFlightWasStreamed, Stored, Elements
<1>2. StreamedFirst /\ [Next]_vars => StreamedFirst'
  BY NextStreamedFirst
<1> QED
  BY <1>1, <1>2, PTL DEF Spec

\* falco_webhook publishes an event before it stores it, so the history never
\* shows an alert that was not streamed, whatever command fails.
THEOREM StoredIsStreamed == Spec => []StoredWasStreamed
<1>1. StreamedFirst => StoredWasStreamed
  BY DEF StreamedFirst
<1> QED
  BY <1>1, StreamedFirstIsInvariant, PTL

-----------------------------------------------------------------------------
(***************************************************************************)
(* The order of a batch survives into the channel and into the vault.  What*)
(* is inductive: an entry of a running request lies before everything that *)
(* request has still to do, except the event in hand, once its command     *)
(* (busy) has been run.                                                    *)
(***************************************************************************)
Past(log, busy, at, left) ==
    \A k \in DOMAIN log :
        LET d == log[k][1]
            n == log[k][2]
        IN  /\ at[d] # "new"
            /\ at[d] \in Commands =>
                  \A i \in left[d] : n < i \/ (n = i /\ at[d] \in busy)

Streamed == {"lpush", "ltrim"}
Kept     == {"ltrim"}

OrderKept ==
    /\ TypeOK
    /\ BatchOrderKept
    /\ Past(channel, Streamed, step, todo)
    /\ Past(pushed, Kept, step, todo)

\* What a step may do to a request without disturbing Past.
Advances(busy, at, at2, left, left2) ==
    \A d \in Deliveries :
        at[d] # "new" =>
            /\ at2[d] # "new"
            /\ at2[d] \in Commands =>
                  /\ at[d] \in Commands
                  /\ left2[d] \subseteq left[d]
                  /\ \A i \in left2[d] :
                        at[d] \in busy /\ (\A k \in left[d] : i <= k) => at2[d] \in busy

LEMMA EventParts ==
    ASSUME NEW log \in Seq(Event), NEW k \in DOMAIN log
    PROVE  /\ log[k][1] \in Deliveries
           /\ log[k][2] \in 1..MaxBatch /\ log[k][2] \in Int
<1>1. log[k] \in Event
  OBVIOUS
<1> QED
  BY <1>1, MaxBatchAssumption DEF Event

LEMMA PastAdvances ==
    ASSUME NEW log \in Seq(Event), NEW busy, NEW at, NEW at2, NEW left2,
           NEW left \in [Deliveries -> SUBSET (1..MaxBatch)],
           Past(log, busy, at, left), Advances(busy, at, at2, left, left2)
    PROVE  Past(log, busy, at2, left2)
<1> SUFFICES ASSUME NEW k \in DOMAIN log
             PROVE  /\ at2[log[k][1]] # "new"
                    /\ at2[log[k][1]] \in Commands =>
                          \A i \in left2[log[k][1]] :
                             \/ log[k][2] < i
                             \/ log[k][2] = i /\ at2[log[k][1]] \in busy
  BY DEF Past
<1> DEFINE d == log[k][1]
           n == log[k][2]
<1>1. d \in Deliveries /\ n \in Int
  BY EventParts
<1>2. at[d] # "new" /\ (at[d] \in Commands => \A i \in left[d] : n < i \/ (n = i /\ at[d] \in busy))
  BY DEF Past
<1>3. at2[d] # "new"
  BY <1>1, <1>2 DEF Advances
<1>4. ASSUME at2[d] \in Commands, NEW i \in left2[d]
      PROVE  n < i \/ (n = i /\ at2[d] \in busy)
  <2>1. at[d] \in Commands /\ i \in left[d]
    BY <1>1, <1>2, <1>4 DEF Advances
  <2>2. n < i \/ (n = i /\ at[d] \in busy)
    BY <1>2, <2>1
  <2>3. ASSUME n = i, at[d] \in busy
        PROVE  at2[d] \in busy
    <3>1. \A j \in left[d] : i <= j
      <4>1. \A j \in left[d] : n < j \/ n = j
        BY <1>2, <2>1
      <4>2. left[d] \subseteq Int
        BY <1>1, MaxBatchAssumption
      <4> QED
        BY <1>1, <2>3, <4>1, <4>2
    <3> QED
      BY <1>1, <1>2, <1>4, <2>3, <3>1 DEF Advances
  <2> QED
    BY <2>2, <2>3
<1> QED
  BY <1>3, <1>4

LEMMA AppendFacts ==
    ASSUME NEW log \in Seq(Event), NEW e \in Event
    PROVE  /\ Append(log, e) \in Seq(Event)
           /\ DOMAIN Append(log, e) = 1..(Len(log) + 1)
           /\ DOMAIN log = 1..Len(log)
           /\ Append(log, e)[Len(log) + 1] = e
           /\ \A k \in DOMAIN log : Append(log, e)[k] = log[k]
  OBVIOUS

LEMMA AppendPast ==
    ASSUME NEW log \in Seq(Event), NEW busy, NEW at, NEW left,
           NEW d \in Deliveries, NEW i \in 1..MaxBatch,
           Past(log, busy, at, left), at[d] # "new",
           at[d] \in Commands => \A j \in left[d] : i < j \/ (i = j /\ at[d] \in busy)
    PROVE  Past(Append(log, <<d, i>>), busy, at, left)
<1>1. <<d, i>> \in Event /\ <<d, i>>[1] = d /\ <<d, i>>[2] = i
  BY DEF Event
<1>2. ASSUME NEW k \in DOMAIN Append(log, <<d, i>>)
      PROVE  k \in DOMAIN log \/ Append(log, <<d, i>>)[k] = <<d, i>>
  BY <1>1, AppendFacts
<1>3. \A k \in DOMAIN log : Append(log, <<d, i>>)[k] = log[k]
  BY <1>1, AppendFacts
<1> QED
  BY <1>1, <1>2, <1>3 DEF Past

LEMMA AppendInOrder ==
    ASSUME NEW log \in Seq(Event), NEW busy, NEW at, NEW left,
           NEW d \in Deliveries, NEW i \in left[d], i \in 1..MaxBatch,
           Past(log, busy, at, left), InOrder(log),
           at[d] \in Commands, at[d] \notin busy
    PROVE  InOrder(Append(log, <<d, i>>))
<1>1. <<d, i>> \in Event /\ <<d, i>>[1] = d /\ <<d, i>>[2] = i
  BY DEF Event
<1> DEFINE new == Append(log, <<d, i>>)
<1>2. \A k \in DOMAIN log : new[k] = log[k] /\ (log[k][1] = d => log[k][2] < i)
  BY <1>1, AppendFacts DEF Past
<1>3. \A k, l \in DOMAIN new : k < l => k \in DOMAIN log /\ (l \in DOMAIN log \/ new[l] = <<d, i>>)
  BY <1>1, AppendFacts
<1> HIDE DEF new
<1>4. \A k, l \in DOMAIN new : k < l /\ new[k][1] = new[l][1] => new[k][2] < new[l][2]
  BY <1>1, <1>2, <1>3 DEF InOrder
<1> QED
  BY <1>4 DEF InOrder, new

\* A step that leaves both logs as they are, or empties the vault's.
LEMMA QuietStepOrderKept ==
    ASSUME OrderKept, TypeOK',
           UNCHANGED channel, pushed' = pushed \/ pushed' = <<>>,
           Advances(Streamed, step, step', todo, todo'),
           Advances(Kept, step, step', todo, todo')
    PROVE  OrderKept'
<1>1. /\ channel \in Seq(Event) /\ pushed \in Seq(Event)
      /\ todo \in [Deliveries -> SUBSET (1..MaxBatch)]
  BY DEF OrderKept, TypeOK
<1>2. Past(channel, Streamed, step', todo') /\ Past(pushed, Kept, step', todo')
  BY <1>1, PastAdvances DEF OrderKept, Streamed, Kept
<1>3. Past(pushed', Kept, step', todo')
  BY <1>2 DEF Past
<1>4. InOrder(channel) /\ InOrder(pushed')
  BY DEF OrderKept, BatchOrderKept, InOrder
<1> QED
  BY <1>2, <1>3, <1>4 DEF OrderKept, BatchOrderKept, Streamed, Kept, InOrder, Past

\* A step that appends the event in hand to the channel.
LEMMA StreamingStepOrderKept ==
    ASSUME OrderKept, TypeOK',
           NEW d \in Deliveries, NEW i \in todo[d],
           step[d] = "publish",
           channel' = Append(channel, <<d, i>>), UNCHANGED pushed,
           Advances(Streamed, step, step', todo, todo'),
           Advances(Kept, step, step', todo, todo'),
           step'[d] # "new",
           \A j \in todo'[d] : i < j \/ (i = j /\ step'[d] \in Streamed)
    PROVE  OrderKept'
<1>1. /\ channel \in Seq(Event) /\ pushed \in Seq(Event) /\ i \in 1..MaxBatch
      /\ todo \in [Deliveries -> SUBSET (1..MaxBatch)]
  BY DEF OrderKept, TypeOK
<1>2. Past(channel, Streamed, step', todo') /\ Past(pushed, Kept, step', todo')
  BY <1>1, PastAdvances DEF OrderKept, Streamed, Kept
<1>3. Past(Append(channel, <<d, i>>), Streamed, step', todo')
  BY <1>1, <1>2, AppendPast
<1>4. InOrder(Append(channel, <<d, i>>))
  <2>1. step[d] \in Commands /\ step[d] \notin Streamed
    BY DEF Commands, Streamed
  <2>2. Past(channel, Streamed, step, todo) /\ InOrder(channel)
    BY DEF OrderKept, BatchOrderKept, Streamed
  <2> QED
    BY <1>1, <2>1, <2>2, AppendInOrder
<1>5. InOrder(channel') /\ InOrder(pushed')
  BY <1>4 DEF OrderKept, BatchOrderKept
<1> QED
  BY <1>2, <1>3, <1>5 DEF OrderKept, BatchOrderKept, Streamed, Kept, InOrder, Past

\* A step that appends the event in hand to the vault.
LEMMA StoringStepOrderKept ==
    ASSUME OrderKept, TypeOK',
           NEW d \in Deliveries, NEW i \in todo[d],
           step[d] = "lpush",
           pushed' = Append(pushed, <<d, i>>), UNCHANGED channel,
           Advances(Streamed, step, step', todo, todo'),
           Advances(Kept, step, step', todo, todo'),
           step'[d] # "new",
           \A j \in todo'[d] : i < j \/ (i = j /\ step'[d] \in Kept)
    PROVE  OrderKept'
<1>1. /\ channel \in Seq(Event) /\ pushed \in Seq(Event) /\ i \in 1..MaxBatch
      /\ todo \in [Deliveries -> SUBSET (1..MaxBatch)]
  BY DEF OrderKept, TypeOK
<1>2. Past(channel, Streamed, step', todo') /\ Past(pushed, Kept, step', todo')
  BY <1>1, PastAdvances DEF OrderKept, Streamed, Kept
<1>3. Past(Append(pushed, <<d, i>>), Kept, step', todo')
  BY <1>1, <1>2, AppendPast
<1>4. InOrder(Append(pushed, <<d, i>>))
  <2>1. step[d] \in Commands /\ step[d] \notin Kept
    BY DEF Commands, Kept
  <2>2. Past(pushed, Kept, step, todo) /\ InOrder(pushed)
    BY DEF OrderKept, BatchOrderKept, Kept
  <2> QED
    BY <1>1, <2>1, <2>2, AppendInOrder
<1>5. InOrder(channel') /\ InOrder(pushed')
  BY <1>4 DEF OrderKept, BatchOrderKept
<1> QED
  BY <1>2, <1>3, <1>5 DEF OrderKept, BatchOrderKept, Streamed, Kept, InOrder, Past

\* Whatever becomes of the event in hand, the loop only ever goes forward.
LEMMA SkipAdvances ==
    ASSUME TypeOK, NEW d \in Deliveries, NEW i \in todo[d], NEW busy, IsCurrent(d, i),
           step[d] \in Commands,
           todo' = [todo EXCEPT ![d] = @ \ {i}],
           step' = [step EXCEPT ![d] = "publish"]
    PROVE  /\ Advances(busy, step, step', todo, todo')
           /\ step'[d] # "new"
           /\ \A j \in todo'[d] : i < j
<1>1. todo[d] \subseteq Int /\ \A k \in todo[d] : i <= k
  BY MaxBatchAssumption DEF TypeOK, IsCurrent
<1>2. /\ todo'[d] = todo[d] \ {i} /\ step'[d] = "publish"
      /\ \A e \in Deliveries \ {d} : todo'[e] = todo[e] /\ step'[e] = step[e]
  BY DEF TypeOK
<1>3. \A j \in todo'[d] : i < j /\ ~(j <= i)
  BY <1>1, <1>2
<1>4. Advances(busy, step, step', todo, todo')
  BY <1>2, <1>3 DEF Advances
<1> QED
  BY <1>2, <1>3, <1>4

\* The next command for the event in hand.
LEMMA NextCommandAdvances ==
    ASSUME TypeOK, NEW d \in Deliveries, NEW i \in todo[d], IsCurrent(d, i), NEW next,
           \/ step[d] = "publish" /\ next = "lpush"
           \/ step[d] = "lpush" /\ next = "ltrim",
           UNCHANGED todo, step' = [step EXCEPT ![d] = next]
    PROVE  /\ Advances(Streamed, step, step', todo, todo')
           /\ Advances(Kept, step, step', todo, todo')
           /\ step'[d] = next
           /\ \A j \in todo'[d] : i < j \/ i = j
<1>1. todo[d] \subseteq Int /\ \A k \in todo[d] : i <= k
  BY MaxBatchAssumption DEF TypeOK, IsCurrent
<1>2. step'[d] = next /\ \A e \in Deliveries \ {d} : step'[e] = step[e]
  BY DEF TypeOK
<1> QED
  BY <1>1, <1>2 DEF Advances, Streamed, Kept, Commands

LEMMA NextOrderKept == OrderKept /\ [Next]_vars => OrderKept'
<1> SUFFICES ASSUME OrderKept, [Next]_vars
             PROVE  OrderKept'
  OBVIOUS
<1>t. TypeOK /\ TypeOK'
  BY NextTypeOK DEF OrderKept
<1>1. ASSUME NEW d \in Deliveries,
             \/ Refuse(d) \/ Answer(d) \/ Raise(d)
             \/ \E b \in Batches : RejectBody(d, b) \/ Accept(d, b)
      PROVE  OrderKept'
  <2>1. UNCHANGED <<channel, pushed>>
    BY <1>1 DEF Refuse, Answer, Raise, RejectBody, Accept, redisVars
  <2>2. \A busy : Advances(busy, step, step', todo, todo')
    BY <1>1, <1>t DEF Refuse, Answer, Raise, RejectBody, Accept, Advances, Commands, TypeOK
  <2> QED
    BY <1>t, <2>1, <2>2, QuietStepOrderKept
<1>2. ASSUME NEW d \in Deliveries, NEW i \in todo[d], Publish(d, i)
      PROVE  OrderKept'
  <2>1. /\ step[d] = "publish" /\ IsCurrent(d, i)
        /\ channel' = Append(channel, <<d, i>>) /\ UNCHANGED <<pushed, todo>>
        /\ step' = [step EXCEPT ![d] = "lpush"]
    BY <1>2 DEF Publish
  <2>2. /\ Advances(Streamed, step, step', todo, todo')
        /\ Advances(Kept, step, step', todo, todo')
        /\ step'[d] = "lpush"
        /\ \A j \in todo'[d] : i < j \/ i = j
    BY <1>t, <2>1, NextCommandAdvances
  <2>3. step'[d] # "new" /\ step'[d] \in Streamed
    BY <2>2 DEF Streamed
  <2> QED
    BY <1>t, <2>1, <2>2, <2>3, StreamingStepOrderKept
<1>3. ASSUME NEW d \in Deliveries, NEW i \in todo[d], Push(d, i)
      PROVE  OrderKept'
  <2>1. /\ step[d] = "lpush" /\ IsCurrent(d, i)
        /\ pushed' = Append(pushed, <<d, i>>) /\ UNCHANGED <<channel, todo>>
        /\ step' = [step EXCEPT ![d] = "ltrim"]
    BY <1>3 DEF Push, Ring!Push
  <2>2. /\ Advances(Streamed, step, step', todo, todo')
        /\ Advances(Kept, step, step', todo, todo')
        /\ step'[d] = "ltrim"
        /\ \A j \in todo'[d] : i < j \/ i = j
    BY <1>t, <2>1, NextCommandAdvances
  <2>3. step'[d] # "new" /\ step'[d] \in Kept
    BY <2>2 DEF Kept
  <2> QED
    BY <1>t, <2>1, <2>2, <2>3, StoringStepOrderKept
<1>4. ASSUME NEW d \in Deliveries, NEW i \in todo[d], Trim(d, i)
      PROVE  OrderKept'
  <2>1. /\ step[d] \in Commands /\ IsCurrent(d, i)
        /\ UNCHANGED <<channel, pushed>>
        /\ todo' = [todo EXCEPT ![d] = @ \ {i}]
        /\ step' = [step EXCEPT ![d] = "publish"]
    BY <1>4 DEF Trim, Ring!Trim, Commands
  <2>2. \A busy : Advances(busy, step, step', todo, todo')
    BY <1>t, <2>1, SkipAdvances
  <2> QED
    BY <1>t, <2>1, <2>2, QuietStepOrderKept
<1>5. ASSUME NEW d \in Deliveries, NEW i \in todo[d], Skip(d, i), step[d] \in Commands
      PROVE  /\ \A busy : Advances(busy, step, step', todo, todo')
             /\ step'[d] # "new"
             /\ \A j \in todo'[d] : i < j
  <2>1. /\ IsCurrent(d, i)
        /\ todo' = [todo EXCEPT ![d] = @ \ {i}]
        /\ step' = [step EXCEPT ![d] = "publish"]
    BY <1>5 DEF Skip
  <2> QED
    BY <1>5, <1>t, <2>1, SkipAdvances
<1>6. ASSUME NEW d \in Deliveries, NEW i \in todo[d], NEW applied \in BOOLEAN,
             PublishFails(d, i, applied)
      PROVE  OrderKept'
  <2>1. /\ step[d] = "publish" /\ step[d] \in Commands /\ Skip(d, i)
        /\ channel' \in {channel, Append(channel, <<d, i>>)} /\ UNCHANGED pushed
    BY <1>6 DEF PublishFails, Commands
  <2>2. CASE channel' = channel
    BY <1>t, <1>5, <2>1, <2>2, QuietStepOrderKept
  <2>3. CASE channel' = Append(channel, <<d, i>>)
    BY <1>t, <1>5, <2>1, <2>3, StreamingStepOrderKept
  <2> QED
    BY <2>1, <2>2, <2>3
<1>7. ASSUME NEW d \in Deliveries, NEW i \in todo[d], NEW applied \in BOOLEAN,
             PushFails(d, i, applied)
      PROVE  OrderKept'
  <2>1. /\ step[d] = "lpush" /\ step[d] \in Commands /\ Skip(d, i)
        /\ pushed' \in {pushed, Append(pushed, <<d, i>>)} /\ UNCHANGED channel
    BY <1>7 DEF PushFails, Ring!Push, Commands
  <2>2. CASE pushed' = pushed
    BY <1>t, <1>5, <2>1, <2>2, QuietStepOrderKept
  <2>3. CASE pushed' = Append(pushed, <<d, i>>)
    BY <1>t, <1>5, <2>1, <2>3, StoringStepOrderKept
  <2> QED
    BY <2>1, <2>2, <2>3
<1>8. ASSUME NEW d \in Deliveries, NEW i \in todo[d], NEW applied \in BOOLEAN,
             TrimFails(d, i, applied)
      PROVE  OrderKept'
  <2>1. step[d] \in Commands /\ Skip(d, i) /\ UNCHANGED <<channel, pushed>>
    BY <1>8 DEF TrimFails, Ring!Trim, Commands
  <2> QED
    BY <1>t, <1>5, <2>1, QuietStepOrderKept
<1>9. CASE Crash
  <2>1. \A busy : Advances(busy, step, step', todo, todo')
    BY <1>9, <1>t DEF Crash, Advances, Running, Commands, TypeOK
  <2> QED
    BY <1>9, <1>t, <2>1, QuietStepOrderKept DEF Crash
<1>10. CASE RedisForgets
  <2>1. UNCHANGED <<channel, step, todo>> /\ pushed' = <<>>
    BY <1>10 DEF RedisForgets, Ring!Forget, handlerVars
  <2>2. \A busy : Advances(busy, step, step', todo, todo')
    BY <2>1 DEF Advances
  <2> QED
    BY <1>t, <2>1, <2>2, QuietStepOrderKept
<1>11. CASE UNCHANGED vars
  <2>1. UNCHANGED <<channel, pushed, step, todo>>
    BY <1>11 DEF vars, handlerVars, redisVars
  <2>2. \A busy : Advances(busy, step, step', todo, todo')
    BY <2>1 DEF Advances
  <2> QED
    BY <1>t, <2>1, <2>2, QuietStepOrderKept
<1> QED
  BY <1>1, <1>2, <1>3, <1>4, <1>6, <1>7, <1>8, <1>9, <1>10, <1>11 DEF Next, Handle, Work

LEMMA OrderIsInvariant == Spec => []OrderKept
<1>1. Init => OrderKept
  BY InitTypeOK DEF Init, Ring!Init, OrderKept, BatchOrderKept, InOrder, Past
<1>2. OrderKept /\ [Next]_vars => OrderKept'
  BY NextOrderKept
<1> QED
  BY <1>1, <1>2, PTL DEF Spec

\* The events of a request are streamed, and stored, at most once each and in
\* the order of its body, whatever else goes on and whatever fails.
THEOREM OrderIsKept == Spec => []BatchOrderKept
<1>1. OrderKept => BatchOrderKept
  BY DEF OrderKept
<1> QED
  BY <1>1, OrderIsInvariant, PTL

-----------------------------------------------------------------------------
(***************************************************************************)
(* The webhook implements the history of alerts.  What the mapping needs   *)
(* of the reachable states: an alert on its way to the list was streamed   *)
(* (StreamedFirst), and both logs are behind what is still to come         *)
(* (OrderKept).  A trim cuts only what no reader sees.                     *)
(***************************************************************************)
Cut(s) == IF Len(s) > MaxHistory THEN SubSeq(s, 1, MaxHistory) ELSE s

LEMMA CutTwice ==
    ASSUME NEW v \in Seq(Event), NEW e \in Event
    PROVE  /\ Cut(Cut(v)) = Cut(v)
           /\ Cut(<<e>> \o v) = Cut(<<e>> \o Cut(v))
<1> DEFINE cap == MaxHistory
<1>c. cap \in Nat \ {0}
  BY VaultAssumption
<1>1. CASE Len(v) <= cap
  <2>1. Cut(v) = v
    BY <1>c, <1>1 DEF Cut
  <2> QED
    BY <2>1
<1>2. CASE Len(v) > cap
  <2>1. /\ Cut(v) = SubSeq(v, 1, cap) /\ Cut(v) \in Seq(Event) /\ Len(Cut(v)) = cap
        /\ \A k \in 1..cap : Cut(v)[k] = v[k]
    BY <1>c, <1>2 DEF Cut
  <2>2. Cut(Cut(v)) = Cut(v)
    <3> DEFINE w == Cut(v)
    <3>1. Len(w) = cap
      BY <2>1
    <3> HIDE DEF w
    <3>2. ~(Len(w) > cap)
      BY <1>c, <3>1
    <3>3. Cut(w) = w
      BY <3>2 DEF Cut
    <3> QED
      BY <3>3 DEF w
  <2> DEFINE long  == <<e>> \o v
             short == <<e>> \o Cut(v)
  <2>3. /\ long \in Seq(Event) /\ Len(long) = Len(v) + 1 /\ long[1] = e
        /\ \A k \in 2..Len(long) : long[k] = v[k - 1]
    OBVIOUS
  <2>4. /\ short \in Seq(Event) /\ Len(short) = cap + 1 /\ short[1] = e
        /\ \A k \in 2..(cap + 1) : short[k] = Cut(v)[k - 1]
    BY <2>1
  <2>5. Len(long) > cap /\ Len(short) > cap /\ cap <= Len(long) /\ cap <= Len(short)
    BY <1>c, <1>2, <2>3, <2>4
  <2>6. \A k \in 1..cap : long[k] = short[k]
    <3> SUFFICES ASSUME NEW k \in 1..cap
                 PROVE  long[k] = short[k]
      OBVIOUS
    <3>1. CASE k = 1
      BY <2>3, <2>4, <3>1
    <3>2. CASE k # 1
      <4>1. k \in 2..Len(long) /\ k \in 2..(cap + 1) /\ k - 1 \in 1..cap
        BY <1>c, <2>3, <2>5, <3>2
      <4> QED
        BY <2>1, <2>3, <2>4, <4>1
    <3> QED
      BY <3>1, <3>2
  <2> HIDE DEF long, short
  <2>7. SubSeq(long, 1, cap) = SubSeq(short, 1, cap)
    <3>1. /\ SubSeq(long, 1, cap) = [k \in 1..cap |-> long[k]]
          /\ SubSeq(short, 1, cap) = [k \in 1..cap |-> short[k]]
      BY <1>c, <2>3, <2>4, <2>5
    <3> QED
      BY <2>6, <3>1
  <2>8. Cut(long) = Cut(short)
    BY <2>5, <2>7 DEF Cut
  <2> QED
    BY <2>2, <2>8 DEF long, short
<1>3. Len(v) <= cap \/ Len(v) > cap
  <2> DEFINE n == Len(v)
  <2>1. n \in Nat
    OBVIOUS
  <2> HIDE DEF n, cap
  <2>2. n <= cap \/ n > cap
    BY <1>c, <2>1
  <2> QED
    BY <2>2 DEF n
<1> QED
  BY <1>1, <1>2, <1>3

\* The alert in hand comes after everything of its request that a log holds.
LEMMA InHandIsInTurn ==
    ASSUME NEW log \in Seq(Event), NEW busy, NEW d \in Deliveries, NEW i \in todo[d],
           Past(log, busy, step, todo), step[d] \in Commands, step[d] \notin busy
    PROVE  History!InTurn(<<d, i>>, Elements(log))
  BY DEF History!InTurn, Elements, Past

LEMMA StreamsNext ==
    ASSUME TypeOK, OrderKept, NEW d \in Deliveries, NEW i \in todo[d], step[d] = "publish",
           channel' = Append(channel, <<d, i>>), UNCHANGED <<pushed, vault>>
    PROVE  History!Next
<1>1. <<d, i>> \in Event /\ channel \in Seq(Event)
  BY CurrentIsEvent DEF TypeOK
<1>2. History!InTurn(<<d, i>>, Elements(channel))
  <2>1. step[d] \in Commands /\ step[d] \notin Streamed
    BY DEF Commands, Streamed
  <2>2. Past(channel, Streamed, step, todo)
    BY DEF OrderKept, Streamed
  <2> QED
    BY <1>1, <2>1, <2>2, InHandIsInTurn
<1>3. Elements(channel)' = Elements(channel) \cup {<<d, i>>}
  <2>1. Elements(Append(channel, <<d, i>>)) = Elements(channel) \cup {<<d, i>>}
    BY <1>1, ElementsOfAppend
  <2> QED
    BY <2>1 DEF Elements
<1>4. UNCHANGED <<Elements(pushed), Ring!Trimmed(vault)>>
  BY DEF Elements, Ring!Trimmed
<1>5. History!Stream(<<d, i>>)
  BY <1>2, <1>3, <1>4 DEF History!Stream
<1> QED
  BY <1>1, <1>5 DEF History!Next, History!Alert, Event

LEMMA RecordsNext ==
    ASSUME TypeOK, StreamedFirst, OrderKept, NEW d \in Deliveries, NEW i \in todo[d],
           step[d] = "lpush", IsCurrent(d, i), Ring!Push(<<d, i>>), UNCHANGED channel
    PROVE  History!Next
<1>1. <<d, i>> \in Event /\ pushed \in Seq(Event) /\ vault \in Seq(Event)
  BY CurrentIsEvent DEF TypeOK
<1>2. <<d, i>> \in Elements(channel)
  BY DEF StreamedFirst, InFlightWasStreamed, Stored
<1>3. History!InTurn(<<d, i>>, Elements(pushed))
  <2>1. step[d] \in Commands /\ step[d] \notin Kept
    BY DEF Commands, Kept
  <2>2. Past(pushed, Kept, step, todo)
    BY DEF OrderKept, Kept
  <2> QED
    BY <1>1, <2>1, <2>2, InHandIsInTurn
<1>4. Elements(pushed)' = Elements(pushed) \cup {<<d, i>>}
  <2>1. Elements(Append(pushed, <<d, i>>)) = Elements(pushed) \cup {<<d, i>>}
    BY <1>1, ElementsOfAppend
  <2> QED
    BY <2>1 DEF Elements, Ring!Push
<1>5. Ring!Trimmed(vault)' = History!Newest(<<<<d, i>>>> \o Ring!Trimmed(vault))
  <2>1. Cut(<<<<d, i>>>> \o vault) = Cut(<<<<d, i>>>> \o Cut(vault))
    BY <1>1, CutTwice
  <2>2. vault' = <<<<d, i>>>> \o vault
    BY DEF Ring!Push
  <2>3. Ring!Trimmed(vault)' = Cut(vault')
    BY DEF Ring!Trimmed, Cut
  <2>4. Ring!Trimmed(vault) = Cut(vault)
    BY DEF Ring!Trimmed, Cut
  <2>5. \A s : History!Newest(s) = Cut(s)
    BY DEF History!Newest, Cut
  <2> QED
    BY <2>1, <2>2, <2>3, <2>4, <2>5
<1>6. UNCHANGED Elements(channel)
  BY DEF Elements
<1>7. History!Record(<<d, i>>)
  BY <1>2, <1>3, <1>4, <1>5, <1>6 DEF History!Record
<1> QED
  BY <1>1, <1>7 DEF History!Next, History!Alert, Event

LEMMA TrimIsUnseen ==
    ASSUME TypeOK, Ring!Trim
    PROVE  UNCHANGED <<Elements(pushed), Ring!Trimmed(vault)>>
<1>1. vault \in Seq(Event) /\ vault' = Ring!Trimmed(vault) /\ pushed' = pushed
  BY DEF TypeOK, Ring!Trim
<1>2. ASSUME vault = <<>>
      PROVE  vault' = vault
  <2>1. Len(vault) = 0 /\ ~(0 > MaxHistory)
    BY <1>2, VaultAssumption
  <2> QED
    BY <1>1, <2>1 DEF Ring!Trimmed
<1>3. ASSUME vault # <<>>
      PROVE  Cut(Cut(vault)) = Cut(vault)
  <2>1. vault[1] \in Event
    BY <1>1, <1>3
  <2> QED
    BY <1>1, <2>1, CutTwice
<1>4. Ring!Trimmed(vault)' = Cut(vault') /\ Ring!Trimmed(vault) = Cut(vault)
  BY DEF Ring!Trimmed, Cut
<1>5. Ring!Trimmed(vault)' = Ring!Trimmed(vault)
  <2>1. CASE vault = <<>>
    BY <1>2, <1>4, <2>1
  <2>2. CASE vault # <<>>
    BY <1>1, <1>3, <1>4, <2>2
  <2> QED
    BY <2>1, <2>2
<1> QED
  BY <1>1, <1>5 DEF Elements

LEMMA UnseenStep ==
    ASSUME UNCHANGED <<channel, pushed, vault>>
    PROVE  UNCHANGED History!historyVars
  BY DEF History!historyVars, Elements, Ring!Trimmed

LEMMA StepIsHistoryStep ==
    StreamedFirst /\ OrderKept /\ [Next]_vars => [History!Next]_(History!historyVars)
<1> SUFFICES ASSUME StreamedFirst, OrderKept, [Next]_vars
             PROVE  History!Next \/ UNCHANGED History!historyVars
  OBVIOUS
<1>t. TypeOK
  BY DEF OrderKept
<1>1. ASSUME NEW d \in Deliveries, NEW i \in todo[d], Publish(d, i)
      PROVE  History!Next
  BY <1>1, <1>t, StreamsNext DEF Publish
<1>2. ASSUME NEW d \in Deliveries, NEW i \in todo[d], NEW applied \in BOOLEAN,
             PublishFails(d, i, applied)
      PROVE  History!Next \/ UNCHANGED History!historyVars
  <2>1. /\ channel' \in {channel, Append(channel, <<d, i>>)} /\ step[d] = "publish"
        /\ UNCHANGED <<pushed, vault>>
    BY <1>2 DEF PublishFails
  <2> QED
    BY <1>t, <2>1, StreamsNext, UnseenStep
<1>3. ASSUME NEW d \in Deliveries, NEW i \in todo[d], Push(d, i)
      PROVE  History!Next
  BY <1>3, <1>t, RecordsNext DEF Push
<1>4. ASSUME NEW d \in Deliveries, NEW i \in todo[d], NEW applied \in BOOLEAN,
             PushFails(d, i, applied)
      PROVE  History!Next \/ UNCHANGED History!historyVars
  <2>1. /\ Ring!Push(<<d, i>>) \/ UNCHANGED <<pushed, vault>>
        /\ step[d] = "lpush" /\ IsCurrent(d, i) /\ UNCHANGED channel
    BY <1>4 DEF PushFails, Skip
  <2> QED
    BY <1>t, <2>1, RecordsNext, UnseenStep
<1>5. ASSUME NEW d \in Deliveries, NEW i \in todo[d],
             Trim(d, i) \/ \E applied \in BOOLEAN : TrimFails(d, i, applied)
      PROVE  UNCHANGED History!historyVars
  <2>1. UNCHANGED channel /\ (Ring!Trim \/ UNCHANGED <<pushed, vault>>)
    BY <1>5 DEF Trim, TrimFails
  <2>2. CASE Ring!Trim
    BY <1>t, <2>1, <2>2, TrimIsUnseen DEF History!historyVars, Elements
  <2>3. CASE UNCHANGED <<pushed, vault>>
    BY <2>1, <2>3, UnseenStep
  <2> QED
    BY <2>1, <2>2, <2>3
<1>6. ASSUME NEW d \in Deliveries,
             \/ Refuse(d) \/ Answer(d) \/ Raise(d)
             \/ \E b \in Batches : RejectBody(d, b) \/ Accept(d, b)
      PROVE  UNCHANGED History!historyVars
  BY <1>6, UnseenStep DEF Refuse, Answer, Raise, RejectBody, Accept, redisVars
<1>7. CASE Crash \/ UNCHANGED vars
  BY <1>7, UnseenStep DEF Crash, vars, redisVars
<1>8. CASE RedisForgets
  <2>1. pushed' = <<>> /\ vault' = <<>> /\ channel' = channel
    BY <1>8 DEF RedisForgets, Ring!Forget
  <2>2. Elements(pushed)' = {} /\ Elements(channel)' = Elements(channel)
    BY <2>1 DEF Elements
  <2>3. Ring!Trimmed(vault)' = <<>>
    <3>1. Len(<<>>) = 0 /\ ~(0 > MaxHistory)
      BY VaultAssumption
    <3> QED
      BY <2>1, <3>1 DEF Ring!Trimmed
  <2> QED
    BY <2>2, <2>3 DEF History!Next, History!Forget
<1> QED
  BY <1>1, <1>2, <1>3, <1>4, <1>5, <1>6, <1>7, <1>8 DEF Next, Handle, Work

LEMMA InitIsHistoryInit == Init => History!Init
<1> SUFFICES ASSUME Init PROVE History!Init
  OBVIOUS
<1>1. channel = <<>> /\ pushed = <<>> /\ vault = <<>>
  BY DEF Init, Ring!Init
<1>2. Elements(channel) = {} /\ Elements(pushed) = {}
  BY <1>1 DEF Elements
<1>3. Len(<<>>) = 0 /\ ~(0 > MaxHistory)
  BY VaultAssumption
<1>4. Ring!Trimmed(vault) = <<>>
  BY <1>1, <1>3 DEF Ring!Trimmed
<1> QED
  BY <1>2, <1>4 DEF History!Init

\* For a reader of the history or of the channel, whatever the number of requests,
\* the size of their batches and the cap: an alert is recorded in one step, after it
\* was streamed and in the order of its request, although store_falco_event needs two
\* commands, of several requests at once, either of which may fail with or without
\* taking effect, or never come because the process died.
THEOREM WebhookImplementsHistory == Spec => ImplementsHistory
<1>1. Init => History!Init
  BY InitIsHistoryInit
<1>2. StreamedFirst /\ OrderKept /\ [Next]_vars => [History!Next]_(History!historyVars)
  BY StepIsHistoryStep
<1> QED
  BY <1>1, <1>2, StreamedFirstIsInvariant, OrderIsInvariant, PTL
  DEF Spec, ImplementsHistory, History!Spec

-----------------------------------------------------------------------------
(***************************************************************************)
(* What leaves the ring buffer does not come back: the only event a step   *)
(* can add to the vault is the one in hand, which was never pushed before. *)
(***************************************************************************)
LEMMA InHandIsNew ==
    ASSUME OrderKept, NEW d \in Deliveries, NEW i \in todo[d], step[d] = "lpush"
    PROVE  <<d, i>> \notin Elements(pushed)
<1> SUFFICES ASSUME NEW k \in DOMAIN pushed, pushed[k] = <<d, i>>
             PROVE  FALSE
  BY DEF Elements
<1>1. pushed \in Seq(Event) /\ i \in Int /\ i \in 1..MaxBatch
  BY MaxBatchAssumption DEF OrderKept, TypeOK
<1>2. pushed[k][1] = d /\ pushed[k][2] = i
  OBVIOUS
<1>3. step[d] \in Commands /\ step[d] \notin Kept
  BY DEF Commands, Kept
<1>4. i < i
  BY <1>2, <1>3 DEF OrderKept, Past, Kept
<1> QED
  BY <1>1, <1>4

LEMMA PushedInFront ==
    ASSUME vault \in Seq(Event), NEW e \in Event, vault' = <<e>> \o vault
    PROVE  Elements(vault') \subseteq Elements(vault) \cup {e}
<1> SUFFICES ASSUME NEW k \in DOMAIN vault'
             PROVE  vault'[k] = e \/ vault'[k] \in Elements(vault)
  BY DEF Elements
<1>1. DOMAIN vault' = 1..(Len(vault) + 1) /\ vault'[1] = e
  OBVIOUS
<1>2. CASE k = 1
  BY <1>1, <1>2
<1>3. CASE k # 1
  <2>1. k - 1 \in DOMAIN vault /\ vault'[k] = vault[k - 1]
    BY <1>1, <1>3
  <2> QED
    BY <2>1 DEF Elements
<1> QED
  BY <1>2, <1>3

LEMMA TrimmedKeepsNothingElse ==
    ASSUME vault \in Seq(Event)
    PROVE  Elements(Ring!Trimmed(vault)) \subseteq Elements(vault)
<1> SUFFICES ASSUME NEW k \in DOMAIN Ring!Trimmed(vault)
             PROVE  k \in DOMAIN vault /\ Ring!Trimmed(vault)[k] = vault[k]
  BY DEF Elements
<1> QED
  BY VaultAssumption DEF Ring!Trimmed

LEMMA NextEvicts ==
    ASSUME OrderKept, [Next]_vars,
           NEW e \in Elements(pushed) \ Elements(vault)
    PROVE  e \notin Elements(vault')
<1>t. TypeOK /\ vault \in Seq(Event)
  BY DEF OrderKept, TypeOK
<1>g. ASSUME NEW d \in Deliveries, NEW i \in todo[d], step[d] = "lpush",
             Ring!Push(<<d, i>>)
      PROVE  e \notin Elements(vault')
  BY <1>t, <1>g, CurrentIsEvent, InHandIsNew, PushedInFront DEF Ring!Push
<1>s. ASSUME Ring!Trim PROVE e \notin Elements(vault')
  BY <1>t, <1>s, TrimmedKeepsNothingElse DEF Ring!Trim
<1>q. ASSUME UNCHANGED vault PROVE e \notin Elements(vault')
  BY <1>q DEF Elements
<1>1. ASSUME NEW d \in Deliveries, NEW i \in todo[d],
             Push(d, i) \/ \E applied \in BOOLEAN : PushFails(d, i, applied)
      PROVE  e \notin Elements(vault')
  BY <1>1, <1>g, <1>q DEF Push, PushFails
<1>2. ASSUME NEW d \in Deliveries, NEW i \in todo[d],
             Trim(d, i) \/ \E applied \in BOOLEAN : TrimFails(d, i, applied)
      PROVE  e \notin Elements(vault')
  BY <1>2, <1>s, <1>q DEF Trim, TrimFails
<1>3. ASSUME NEW d \in Deliveries, NEW i \in todo[d],
             Publish(d, i) \/ \E applied \in BOOLEAN : PublishFails(d, i, applied)
      PROVE  e \notin Elements(vault')
  BY <1>3, <1>q DEF Publish, PublishFails
<1>4. ASSUME NEW d \in Deliveries,
             \/ Refuse(d) \/ Answer(d) \/ Raise(d)
             \/ \E b \in Batches : RejectBody(d, b) \/ Accept(d, b)
      PROVE  e \notin Elements(vault')
  BY <1>4, <1>q DEF Refuse, Answer, Raise, RejectBody, Accept, redisVars
<1>5. CASE Crash \/ UNCHANGED vars
  BY <1>5, <1>q DEF Crash, vars, redisVars
<1>6. CASE RedisForgets
  BY <1>6 DEF RedisForgets, Ring!Forget, Elements
<1> QED
  BY <1>1, <1>2, <1>3, <1>4, <1>5, <1>6 DEF Next, Handle, Work

\* An alert LTRIM dropped from the history never comes back into it, however
\* many requests push and trim at once and whatever fails.
THEOREM EvictedForGood == Spec => EvictedStaysEvicted
<1>1. OrderKept /\ [Next]_vars
        => [\A e \in Elements(pushed) \ Elements(vault) : e \notin Elements(vault')]_vars
  BY NextEvicts
<1> QED
  BY <1>1, OrderIsInvariant, PTL DEF Spec, EvictedStaysEvicted

-----------------------------------------------------------------------------
(***************************************************************************)
(* What the ingestion counts: the length of the vault and the              *)
(* events_processed of each answer.                                        *)
(***************************************************************************)
\* A handler that reaches LTRIM, or leaves it.
LEMMA InTrimMoves ==
    ASSUME TypeOK, NEW d \in Deliveries, NEW to, step' = [step EXCEPT ![d] = to]
    PROVE  /\ step[d] # "ltrim" /\ to = "ltrim" =>
                  Cardinality(InTrim') = Cardinality(InTrim) + 1
           /\ step[d] = "ltrim" /\ to # "ltrim" =>
                  Cardinality(InTrim') = Cardinality(InTrim) - 1
           /\ step[d] # "ltrim" /\ to # "ltrim" => InTrim' = InTrim
<1>1. CASE step[d] # "ltrim" /\ to = "ltrim"
  <2>1. InTrim' = InTrim \cup {d} /\ d \notin InTrim
    BY <1>1 DEF InTrim, TypeOK
  <2> QED
    BY <1>1, <2>1, InTrimFinite, FS_AddElement
<1>2. CASE step[d] = "ltrim" /\ to # "ltrim"
  <2>1. InTrim' = InTrim \ {d} /\ d \in InTrim
    BY <1>2 DEF InTrim, TypeOK
  <2> QED
    BY <1>2, <2>1, InTrimFinite, FS_RemoveElement
<1>3. CASE step[d] # "ltrim" /\ to # "ltrim"
  <2>1. InTrim' = InTrim
    BY <1>3 DEF InTrim, TypeOK
  <2> QED
    BY <1>3, <2>1
<1> QED
  BY <1>1, <1>2, <1>3

LEMMA TrimmedLength ==
    ASSUME vault \in Seq(Event)
    PROVE  Len(Ring!Trimmed(vault)) \in Nat /\ Len(Ring!Trimmed(vault)) <= MaxHistory
  BY VaultAssumption DEF Ring!Trimmed

LEMMA NextOverflowBounded ==
    TypeOK /\ OverflowBounded /\ [Next]_vars => OverflowBounded'
<1> SUFFICES ASSUME TypeOK, OverflowBounded, [Next]_vars
             PROVE  OverflowBounded'
  OBVIOUS
<1>t. TypeOK'
  BY NextTypeOK
<1>n. /\ MaxHistory \in Nat /\ untrimmed \in Nat /\ Len(vault) \in Nat
      /\ Cardinality(InTrim) \in Nat
      /\ untrimmed' \in Nat /\ Len(vault') \in Nat
  BY <1>t, VaultAssumption, InTrimFinite DEF TypeOK
<1>m. Cardinality(InTrim') \in Nat
  <2>1. InTrim' \subseteq Deliveries
    BY DEF InTrim
  <2> QED
    BY <2>1, VaultAssumption, FS_Subset, FS_CardinalityType
<1>q. ASSUME UNCHANGED <<vault, untrimmed>>, InTrim' = InTrim
      PROVE  OverflowBounded'
  BY <1>q DEF OverflowBounded
<1>1. ASSUME NEW d \in Deliveries,
             \/ Refuse(d) \/ Answer(d) \/ Raise(d)
             \/ \E b \in Batches : RejectBody(d, b) \/ Accept(d, b)
      PROVE  OverflowBounded'
  <2>1. UNCHANGED <<vault, untrimmed>>
    BY <1>1 DEF Refuse, Answer, Raise, RejectBody, Accept, redisVars
  <2>2. InTrim' = InTrim
    BY <1>1 DEF Refuse, Answer, Raise, RejectBody, Accept, InTrim, TypeOK
  <2> QED
    BY <2>1, <2>2, <1>q
<1>2. ASSUME NEW d \in Deliveries, NEW i \in todo[d],
             Publish(d, i) \/ \E applied \in BOOLEAN : PublishFails(d, i, applied)
      PROVE  OverflowBounded'
  <2>1. UNCHANGED <<vault, untrimmed>>
    BY <1>2 DEF Publish, PublishFails
  <2>2. InTrim' = InTrim
    BY <1>2 DEF Publish, PublishFails, Skip, InTrim, TypeOK
  <2> QED
    BY <2>1, <2>2, <1>q
<1>3. ASSUME NEW d \in Deliveries, NEW i \in todo[d], Push(d, i)
      PROVE  OverflowBounded'
  <2>1. /\ step[d] = "lpush" /\ step' = [step EXCEPT ![d] = "ltrim"]
        /\ vault' = <<(<<d, i>>)>> \o vault /\ untrimmed' = untrimmed
    BY <1>3 DEF Push, Ring!Push
  <2>2. Len(vault') = Len(vault) + 1
    BY <2>1, CurrentIsEvent DEF TypeOK
  <2>3. Cardinality(InTrim') = Cardinality(InTrim) + 1
    BY <2>1, InTrimMoves
  <2> QED
    BY <1>n, <2>1, <2>2, <2>3 DEF OverflowBounded
<1>4. ASSUME NEW d \in Deliveries, NEW i \in todo[d], Trim(d, i)
      PROVE  OverflowBounded'
  <2>1. Len(vault') <= MaxHistory
    BY <1>4, TrimmedLength DEF Trim, Ring!Trim, TypeOK
  <2> QED
    BY <1>n, <1>m, <2>1 DEF OverflowBounded
<1>5. ASSUME NEW d \in Deliveries, NEW i \in todo[d], NEW applied \in BOOLEAN,
             PushFails(d, i, applied)
      PROVE  OverflowBounded'
  <2>1. InTrim' = InTrim
    BY <1>5 DEF PushFails, Skip, InTrim, TypeOK
  <2>2. CASE applied
    <3>1. vault' = <<(<<d, i>>)>> \o vault /\ untrimmed' = untrimmed + 1
      BY <1>5, <2>2 DEF PushFails, Ring!Push
    <3>2. Len(vault') = Len(vault) + 1
      BY <3>1, CurrentIsEvent DEF TypeOK
    <3> QED
      BY <1>n, <2>1, <3>1, <3>2 DEF OverflowBounded
  <2>3. CASE ~applied
    BY <1>5, <1>q, <2>1, <2>3 DEF PushFails
  <2> QED
    BY <2>2, <2>3
<1>6. ASSUME NEW d \in Deliveries, NEW i \in todo[d], NEW applied \in BOOLEAN,
             TrimFails(d, i, applied)
      PROVE  OverflowBounded'
  <2>1. CASE applied
    <3>1. Len(vault') <= MaxHistory
      BY <1>6, <2>1, TrimmedLength DEF TrimFails, Ring!Trim, TypeOK
    <3> QED
      BY <1>n, <1>m, <3>1 DEF OverflowBounded
  <2>2. CASE ~applied
    <3>1. step[d] = "ltrim" /\ step' = [step EXCEPT ![d] = "publish"]
      BY <1>6 DEF TrimFails, Skip
    <3>2. Cardinality(InTrim') = Cardinality(InTrim) - 1
      <4>1. "publish" # "ltrim"
        OBVIOUS
      <4> QED
        BY <3>1, <4>1, InTrimMoves, Zenon
    <3>3. vault' = vault /\ untrimmed' = untrimmed + 1
      BY <1>6, <2>2 DEF TrimFails
    <3> QED
      BY <1>n, <3>2, <3>3 DEF OverflowBounded
  <2> QED
    BY <2>1, <2>2
<1>7. CASE Crash
  <2>1. InTrim' = {}
    BY <1>7 DEF Crash, InTrim, Running, Commands, TypeOK
  <2>2. Cardinality(InTrim') = 0
    BY <2>1, FS_EmptySet
  <2>3. vault' = vault /\ untrimmed' = untrimmed + Cardinality(InTrim)
    BY <1>7 DEF Crash
  <2> QED
    BY <1>n, <2>2, <2>3 DEF OverflowBounded
<1>8. CASE RedisForgets
  <2>1. Len(vault') = 0
    BY <1>8 DEF RedisForgets, Ring!Forget
  <2> QED
    BY <1>n, <1>m, <2>1 DEF OverflowBounded
<1>9. CASE UNCHANGED vars
  <2>1. UNCHANGED <<vault, untrimmed>> /\ InTrim' = InTrim
    BY <1>9 DEF vars, handlerVars, redisVars, InTrim
  <2> QED
    BY <2>1, <1>q
<1> QED
  BY <1>1, <1>2, <1>3, <1>4, <1>5, <1>6, <1>7, <1>8, <1>9 DEF Next, Handle, Work

\* The vault outgrows MAX_HISTORY by no more than the pushes whose LTRIM is
\* still to come or did not come, however many requests overlap.
THEOREM OverflowIsBounded == Spec => []OverflowBounded
<1>1. Init => OverflowBounded
  <2> SUFFICES ASSUME Init PROVE OverflowBounded
    OBVIOUS
  <2>1. Len(vault) = 0 /\ untrimmed = 0
    BY DEF Init, Ring!Init
  <2> QED
    BY <2>1, VaultAssumption, InTrimFinite DEF OverflowBounded
<1> QED
  BY <1>1, NextOverflowBounded, TypeCorrect, PTL DEF Spec

-----------------------------------------------------------------------------
(***************************************************************************)
(* events_processed.  What is inductive: the events counted are among      *)
(* those the loop has finished and the channel has carried.                *)
(***************************************************************************)
Finished(d) == {i \in DOMAIN batch[d] : i \notin todo[d] /\ <<d, i>> \in Elements(channel)}

CountInv ==
    /\ StreamedFirst
    /\ \A d \in Deliveries : count[d] <= Cardinality(Finished(d))
    /\ \A d \in Deliveries : step[d] = "new" => count[d] = 0

LEMMA BatchIsFinite ==
    ASSUME TypeOK, NEW d \in Deliveries, NEW S, S \subseteq DOMAIN batch[d]
    PROVE  IsFiniteSet(S) /\ Cardinality(S) \in Nat
<1>1. DOMAIN batch[d] \subseteq 1..MaxBatch
  BY BatchFacts DEF TypeOK
<1>2. IsFiniteSet(1..MaxBatch)
  BY MaxBatchAssumption, FS_Interval
<1> QED
  BY <1>1, <1>2, FS_Subset, FS_CardinalityType

\* A step that counts nothing, and only adds to what a request has finished.
LEMMA QuietStepCount ==
    ASSUME CountInv, StreamedFirst', UNCHANGED count,
           \A d \in Deliveries : step'[d] = "new" => step[d] = "new",
           \A d \in Deliveries : count[d] = 0 \/ Finished(d) \subseteq Finished(d)'
    PROVE  CountInv'
<1>t. TypeOK /\ TypeOK'
  BY DEF CountInv, StreamedFirst
<1>1. ASSUME NEW d \in Deliveries
      PROVE  count'[d] <= Cardinality(Finished(d)')
  <2>1. count[d] \in Nat
    BY <1>t DEF TypeOK
  <2>2. IsFiniteSet(Finished(d)') /\ Cardinality(Finished(d)') \in Nat
    <3>1. DOMAIN batch'[d] \subseteq 1..MaxBatch
      BY <1>t, BatchFacts DEF TypeOK
    <3>2. Finished(d)' \subseteq 1..MaxBatch
      BY <3>1 DEF Finished
    <3>3. IsFiniteSet(1..MaxBatch)
      BY MaxBatchAssumption, FS_Interval
    <3> QED
      BY <3>2, <3>3, FS_Subset, FS_CardinalityType
  <2>3. CASE count[d] = 0
    BY <2>1, <2>2, <2>3
  <2>4. CASE Finished(d) \subseteq Finished(d)'
    <3>1. Cardinality(Finished(d)) <= Cardinality(Finished(d)')
      BY <2>2, <2>4, FS_Subset
    <3>2. Cardinality(Finished(d)) \in Nat
      BY <2>2, <2>4, FS_Subset, FS_CardinalityType
    <3> QED
      BY <2>1, <2>2, <3>1, <3>2 DEF CountInv
  <2> QED
    BY <2>3, <2>4
<1> QED
  BY <1>1 DEF CountInv

\* A request stays where it is in its batch, or goes on in it.
LEMMA FinishedGrows ==
    ASSUME UNCHANGED batch, NEW d \in Deliveries, todo'[d] \subseteq todo[d],
           Elements(channel) \subseteq Elements(channel')
    PROVE  Finished(d) \subseteq Finished(d)'
  BY DEF Finished, Elements

LEMMA NextCount == CountInv /\ [Next]_vars => CountInv'
<1> SUFFICES ASSUME CountInv, [Next]_vars
             PROVE  CountInv'
  OBVIOUS
<1>t. TypeOK /\ TypeOK' /\ StreamedFirst'
  BY NextTypeOK, NextStreamedFirst DEF CountInv, StreamedFirst
<1>q. ASSUME UNCHANGED <<batch, count>>,
             \A d \in Deliveries : step'[d] = "new" => step[d] = "new",
             \A d \in Deliveries : todo'[d] \subseteq todo[d],
             Elements(channel) \subseteq Elements(channel')
      PROVE  CountInv'
  <2>1. \A d \in Deliveries : Finished(d) \subseteq Finished(d)'
    BY <1>q, FinishedGrows
  <2> QED
    BY <1>q, <1>t, <2>1, QuietStepCount
<1>1. ASSUME NEW d \in Deliveries, Refuse(d) \/ Answer(d) \/ Raise(d) \/ \E b \in Batches : RejectBody(d, b)
      PROVE  CountInv'
  <2>1. UNCHANGED <<batch, count, todo, channel>>
    BY <1>1 DEF Refuse, Answer, Raise, RejectBody, redisVars
  <2>2. \A e \in Deliveries : step'[e] = "new" => step[e] = "new"
    BY <1>1, <1>t DEF Refuse, Answer, Raise, RejectBody, TypeOK
  <2> QED
    BY <1>q, <2>1, <2>2
<1>2. ASSUME NEW d \in Deliveries, NEW b \in Batches, Accept(d, b)
      PROVE  CountInv'
  <2>1. UNCHANGED <<count, channel>> /\ count[d] = 0
    BY <1>2 DEF Accept, redisVars, CountInv
  <2>2. \A e \in Deliveries : step'[e] = "new" => step[e] = "new"
    BY <1>2, <1>t DEF Accept, TypeOK
  <2>3. \A e \in Deliveries \ {d} : batch'[e] = batch[e] /\ todo'[e] = todo[e]
    BY <1>2, <1>t DEF Accept, TypeOK
  <2>4. \A e \in Deliveries : count[e] = 0 \/ Finished(e) \subseteq Finished(e)'
    BY <2>1, <2>3 DEF Finished, Elements
  <2> QED
    BY <1>t, <2>1, <2>2, <2>4, QuietStepCount
<1>3. ASSUME NEW d \in Deliveries, NEW i \in todo[d],
             \/ Publish(d, i) \/ Push(d, i)
             \/ \E applied \in BOOLEAN : PublishFails(d, i, applied)
             \/ \E applied \in BOOLEAN : PushFails(d, i, applied)
             \/ \E applied \in BOOLEAN : TrimFails(d, i, applied)
      PROVE  CountInv'
  <2>1. UNCHANGED <<batch, count>> /\ channel' \in {channel, Append(channel, <<d, i>>)}
    BY <1>3 DEF Publish, Push, PublishFails, PushFails, TrimFails, Skip
  <2>2. Elements(channel) \subseteq Elements(channel')
    <3>1. channel \in Seq(Event)
      BY <1>t DEF TypeOK
    <3>2. Elements(Append(channel, <<d, i>>)) = Elements(channel) \cup {<<d, i>>}
      BY <1>t, <3>1, ElementsOfAppendedEvent
    <3> QED
      BY <2>1, <3>2
  <2>s. /\ \E at \in {"publish", "lpush", "ltrim"} : step' = [step EXCEPT ![d] = at]
        /\ todo' = todo \/ todo' = [todo EXCEPT ![d] = @ \ {i}]
    BY <1>3 DEF Publish, Push, PublishFails, PushFails, TrimFails, Skip
  <2>t. todo \in [Deliveries -> SUBSET (1..MaxBatch)] /\ DOMAIN step = Deliveries
    BY <1>t DEF TypeOK
  <2>3. \A e \in Deliveries : step'[e] = "new" => step[e] = "new"
    <3>1. PICK at \in {"publish", "lpush", "ltrim"} : step' = [step EXCEPT ![d] = at]
      BY <2>s
    <3>2. at # "new"
      OBVIOUS
    <3> QED
      BY <2>t, <3>1, <3>2
  <2>4. \A e \in Deliveries : todo'[e] \subseteq todo[e]
    <3>1. CASE todo' = todo
      BY <3>1
    <3>2. CASE todo' = [todo EXCEPT ![d] = @ \ {i}]
      <4>1. \A e \in Deliveries : todo'[e] = IF e = d THEN todo[d] \ {i} ELSE todo[e]
        BY <2>t, <3>2
      <4> QED
        BY <4>1
    <3> QED
      BY <2>s, <3>1, <3>2
  <2> QED
    BY <1>q, <2>1, <2>2, <2>3, <2>4
<1>4. ASSUME NEW d \in Deliveries, NEW i \in todo[d], Trim(d, i)
      PROVE  CountInv'
  <2>1. /\ UNCHANGED <<batch, channel>>
        /\ todo' = [todo EXCEPT ![d] = @ \ {i}]
        /\ count' = [count EXCEPT ![d] = @ + 1]
        /\ step' = [step EXCEPT ![d] = "publish"]
    BY <1>4 DEF Trim
  <2>2. <<d, i>> \in Elements(channel)
    BY <1>4 DEF Trim, CountInv, StreamedFirst, InFlightWasStreamed, Stored
  <2>3. i \in DOMAIN batch[d]
    BY <1>t DEF TypeOK
  <2>4. Finished(d)' = Finished(d) \cup {i} /\ i \notin Finished(d)
    <3>1. todo'[d] = todo[d] \ {i}
      BY <1>t, <2>1 DEF TypeOK
    <3> QED
      BY <2>1, <2>2, <2>3, <3>1 DEF Finished, Elements
  <2>5. Cardinality(Finished(d)') = Cardinality(Finished(d)) + 1
    <3>1. Finished(d) \subseteq DOMAIN batch[d]
      BY DEF Finished
    <3> QED
      BY <1>t, <2>4, <3>1, BatchIsFinite, FS_AddElement
  <2>6. ASSUME NEW e \in Deliveries
        PROVE  count'[e] <= Cardinality(Finished(e)')
    <3>1. CASE e = d
      <4>1. count'[d] = count[d] + 1 /\ count[d] \in Nat
        BY <1>t, <2>1 DEF TypeOK
      <4>2. Cardinality(Finished(d)) \in Nat
        BY <1>t, BatchIsFinite DEF Finished
      <4> QED
        BY <2>5, <3>1, <4>1, <4>2 DEF CountInv
    <3>2. CASE e # d
      <4>1. count'[e] = count[e] /\ todo'[e] = todo[e]
        BY <1>t, <2>1, <3>2 DEF TypeOK
      <4>2. Finished(e)' = Finished(e)
        BY <2>1, <4>1 DEF Finished, Elements
      <4> QED
        BY <4>1, <4>2 DEF CountInv
    <3> QED
      BY <3>1, <3>2
  <2>7. \A e \in Deliveries : step'[e] = "new" => count'[e] = 0
    BY <1>t, <2>1 DEF CountInv, TypeOK
  <2> QED
    BY <1>t, <2>6, <2>7 DEF CountInv
<1>5. CASE Crash
  <2>1. UNCHANGED <<batch, count, todo, channel>>
    BY <1>5 DEF Crash
  <2>2. \A e \in Deliveries : step'[e] = "new" => step[e] = "new"
    BY <1>5, <1>t DEF Crash, TypeOK
  <2> QED
    BY <1>q, <2>1, <2>2
<1>6. CASE RedisForgets \/ UNCHANGED vars
  <2>1. UNCHANGED <<batch, count, todo, channel, step>>
    BY <1>6 DEF RedisForgets, vars, handlerVars, redisVars
  <2> QED
    BY <1>q, <2>1
<1> QED
  BY <1>1, <1>2, <1>3, <1>4, <1>5, <1>6 DEF Next, Handle, Work

\* The answer of falco_webhook never claims more events_processed than events
\* of the request that went out to the browsers.
THEOREM CountedIsStreamed == Spec => []CountedWasStreamed
<1>1. Init => CountInv
  <2> SUFFICES ASSUME Init PROVE CountInv
    OBVIOUS
  <2>1. StreamedFirst
    BY InitTypeOK
    DEF Init, Ring!Init, StreamedFirst, StoredWasStreamed, InFlightWasStreamed, Stored, Elements
  <2>2. ASSUME NEW d \in Deliveries
        PROVE  count[d] = 0 /\ Cardinality(Finished(d)) \in Nat
    BY <2>1, BatchIsFinite DEF Init, StreamedFirst, Finished
  <2> QED
    BY <2>1, <2>2 DEF CountInv
<1>2. CountInv /\ [Next]_vars => CountInv'
  BY NextCount
<1>3. CountInv => CountedWasStreamed
  <2> SUFFICES ASSUME CountInv, NEW d \in Deliveries
               PROVE  count[d] <= Cardinality({i \in DOMAIN batch[d] : <<d, i>> \in Elements(channel)})
    BY DEF CountedWasStreamed
  <2> DEFINE S == {i \in DOMAIN batch[d] : <<d, i>> \in Elements(channel)}
  <2>1. TypeOK /\ count[d] \in Nat
    BY DEF CountInv, StreamedFirst, TypeOK
  <2>2. IsFiniteSet(S) /\ Cardinality(S) \in Nat /\ Finished(d) \subseteq S
    BY <2>1, BatchIsFinite DEF Finished
  <2>3. Cardinality(Finished(d)) <= Cardinality(S) /\ Cardinality(Finished(d)) \in Nat
    BY <2>2, FS_Subset, FS_CardinalityType
  <2> QED
    BY <2>1, <2>2, <2>3 DEF CountInv
<1> QED
  BY <1>1, <1>2, <1>3, PTL DEF Spec

-----------------------------------------------------------------------------
(***************************************************************************)
(* No request runs for ever.  How many commands it still needs at most is  *)
(* three for each event left, less those the current one has behind it,    *)
(* and one for the answer: every step of its handler lowers that, failures *)
(* included, and nobody else's step raises it.                             *)
(***************************************************************************)
Behind(at) == IF at = "lpush" THEN 1 ELSE IF at = "ltrim" THEN 2 ELSE 0

Needed(at, events) == IF at \in Commands THEN 3 * events + 1 - Behind(at) ELSE 0

CommandsLeft(d) == Needed(step[d], Cardinality(todo[d]))

\* There is a command to run: one for the current event, or the answer.
HasACommand(d) == (step[d] = "publish" /\ todo[d] = {}) \/ \E i \in todo[d] : IsCurrent(d, i)

NeverStuck ==
    \A d \in Deliveries :
        Running(d) => CommandsLeft(d) \in 1..(3 * MaxBatch + 1) /\ HasACommand(d)

CountsDown ==
    [][\A d \in Deliveries :
          /\ Running(d) => CommandsLeft(d)' <= CommandsLeft(d)
          /\ Work(d)    => CommandsLeft(d)' < CommandsLeft(d)]_vars

\* What is inductive: a request on its way to the vault has an event.
HasItsEvent == TypeOK /\ \A d \in Deliveries : Stored(d) => todo[d] # {}

LEMMA TodoFacts ==
    ASSUME TypeOK, NEW d \in Deliveries
    PROVE  /\ IsFiniteSet(todo[d]) /\ todo[d] \subseteq 1..MaxBatch
           /\ Cardinality(todo[d]) \in 0..MaxBatch
<1>1. todo[d] \subseteq 1..MaxBatch
  BY DEF TypeOK
<1>2. IsFiniteSet(1..MaxBatch) /\ Cardinality(1..MaxBatch) = MaxBatch
  BY MaxBatchAssumption, FS_Interval
<1>3. IsFiniteSet(todo[d]) /\ Cardinality(todo[d]) <= Cardinality(1..MaxBatch)
  BY <1>1, <1>2, FS_Subset
<1>4. Cardinality(todo[d]) \in Nat
  BY <1>3, FS_CardinalityType
<1> QED
  BY <1>1, <1>2, <1>3, <1>4, MaxBatchAssumption

\* What one step of a handler does to its request.
GoesOn(d) == /\ UNCHANGED todo
             /\ \/ step[d] = "publish" /\ step' = [step EXCEPT ![d] = "lpush"]
                \/ step[d] = "lpush" /\ step' = [step EXCEPT ![d] = "ltrim"]

Drops(d, i) == /\ step[d] \in Commands /\ step' = [step EXCEPT ![d] = "publish"]
               /\ todo' = [todo EXCEPT ![d] = @ \ {i}]

Ending(d) == /\ UNCHANGED todo
             /\ step[d] = "publish"
             /\ \E end \in {"200", "500"} : step' = [step EXCEPT ![d] = end]

LEMMA WorkEffect ==
    ASSUME NEW d \in Deliveries, Work(d)
    PROVE  Ending(d) \/ \E i \in todo[d] : GoesOn(d) \/ Drops(d, i)
<1>1. ASSUME Answer(d) \/ Raise(d)
      PROVE  Ending(d)
  BY <1>1 DEF Answer, Raise, Ending
<1>2. ASSUME NEW i \in todo[d], Publish(d, i) \/ Push(d, i)
      PROVE  GoesOn(d)
  BY <1>2 DEF Publish, Push, GoesOn
<1>3. ASSUME NEW i \in todo[d],
             \/ Trim(d, i)
             \/ \E applied \in BOOLEAN :
                   PublishFails(d, i, applied) \/ PushFails(d, i, applied) \/ TrimFails(d, i, applied)
      PROVE  Drops(d, i)
  BY <1>3 DEF Trim, PublishFails, PushFails, TrimFails, Skip, Drops, Commands
<1> QED
  BY <1>1, <1>2, <1>3 DEF Work

\* The arithmetic of the three.
LEMMA NeededFacts ==
    ASSUME NEW n \in Nat
    PROVE  /\ Needed("lpush", n) = 3 * n /\ Needed("publish", n) = 3 * n + 1
           /\ Needed("ltrim", n) = 3 * n - 1
           /\ Needed("200", n) = 0 /\ Needed("500", n) = 0 /\ Needed("aborted", n) = 0
  BY DEF Needed, Behind, Commands

LEMMA WorkCounts ==
    ASSUME HasItsEvent, NEW d \in Deliveries, Work(d)
    PROVE  /\ CommandsLeft(d)' < CommandsLeft(d)
           /\ Stored(d)' => todo'[d] # {}
           /\ \A e \in Deliveries \ {d} : step'[e] = step[e] /\ todo'[e] = todo[e]
<1> DEFINE n == Cardinality(todo[d])
<1>t. TypeOK
  BY DEF HasItsEvent
<1>n. n \in Nat
  BY <1>t, TodoFacts
<1>1. CASE Ending(d)
  <2>1. step'[d] \in {"200", "500"} /\ step[d] = "publish" /\ todo' = todo
    BY <1>1, <1>t DEF Ending, TypeOK
  <2>2. CommandsLeft(d)' = 0 /\ CommandsLeft(d) = 3 * n + 1
    BY <1>n, <2>1, NeededFacts DEF CommandsLeft
  <2>3. CommandsLeft(d)' < CommandsLeft(d)
    <3> HIDE DEF n
    <3> QED
      BY <1>n, <2>2
  <2> QED
    BY <1>1, <1>t, <2>1, <2>3 DEF Ending, Stored, TypeOK
<1>2. ASSUME NEW i \in todo[d], GoesOn(d)
      PROVE  /\ CommandsLeft(d)' < CommandsLeft(d)
             /\ Stored(d)' => todo'[d] # {}
             /\ \A e \in Deliveries \ {d} : step'[e] = step[e] /\ todo'[e] = todo[e]
  <2>1. /\ todo' = todo
        /\ (step[d] = "publish" /\ step'[d] = "lpush") \/ (step[d] = "lpush" /\ step'[d] = "ltrim")
        /\ \A e \in Deliveries \ {d} : step'[e] = step[e]
    BY <1>2, <1>t DEF GoesOn, TypeOK
  <2>2. \/ CommandsLeft(d) = 3 * n + 1 /\ CommandsLeft(d)' = 3 * n
        \/ CommandsLeft(d) = 3 * n /\ CommandsLeft(d)' = 3 * n - 1
    BY <1>n, <2>1, NeededFacts DEF CommandsLeft
  <2>3. CommandsLeft(d)' < CommandsLeft(d)
    <3> HIDE DEF n
    <3> QED
      BY <1>n, <2>2
  <2> QED
    BY <2>1, <2>3
<1>3. ASSUME NEW i \in todo[d], Drops(d, i)
      PROVE  /\ CommandsLeft(d)' < CommandsLeft(d)
             /\ Stored(d)' => todo'[d] # {}
             /\ \A e \in Deliveries \ {d} : step'[e] = step[e] /\ todo'[e] = todo[e]
  <2>1. /\ todo'[d] = todo[d] \ {i}
        /\ step[d] \in {"publish", "lpush", "ltrim"} /\ step'[d] = "publish"
        /\ \A e \in Deliveries \ {d} : step'[e] = step[e] /\ todo'[e] = todo[e]
    BY <1>3, <1>t DEF Drops, Commands, TypeOK
  <2>2. Cardinality(todo'[d]) = n - 1 /\ n - 1 \in Nat
    <3>1. IsFiniteSet(todo[d])
      BY <1>t, TodoFacts
    <3>2. IsFiniteSet(todo'[d]) /\ Cardinality(todo'[d]) = n - 1
      BY <1>3, <2>1, <3>1, FS_RemoveElement
    <3> QED
      BY <3>2, FS_CardinalityType
  <2>3. CommandsLeft(d)' = 3 * (n - 1) + 1
    BY <2>1, <2>2, NeededFacts DEF CommandsLeft
  <2>4. CommandsLeft(d) \in {3 * n + 1, 3 * n, 3 * n - 1}
    BY <1>n, <2>1, NeededFacts DEF CommandsLeft
  <2>5. CommandsLeft(d)' < CommandsLeft(d)
    <3> HIDE DEF n
    <3> QED
      BY <1>n, <2>3, <2>4
  <2> QED
    BY <2>1, <2>5 DEF Stored
<1> QED
  BY <1>1, <1>2, <1>3, WorkEffect

\* A step of another kind leaves a request alone, starts it or ends it.
LEMMA OtherSteps ==
    ASSUME HasItsEvent, [Next]_vars, ~\E d \in Deliveries : Work(d), NEW e \in Deliveries
    PROVE  /\ Running(e) => CommandsLeft(e)' <= CommandsLeft(e)
           /\ Stored(e)' => todo'[e] # {}
<1>t. TypeOK
  BY DEF HasItsEvent
<1>n. Cardinality(todo[e]) \in Nat
  BY <1>t, TodoFacts
<1>s. CommandsLeft(e) \in Nat
  <2>1. CASE step[e] = "ltrim"
    <3>1. todo[e] # {}
      BY <2>1 DEF HasItsEvent, Stored
    <3> DEFINE n == Cardinality(todo[e])
    <3>2. n # 0
      BY <1>t, <3>1, TodoFacts, FS_EmptySet
    <3>3. CommandsLeft(e) = 3 * n - 1
      BY <1>n, <2>1, NeededFacts DEF CommandsLeft
    <3>4. n \in Nat
      BY <1>n
    <3>5. 3 * n - 1 \in Nat
      <4> HIDE DEF n
      <4> QED
        BY <3>2, <3>4
    <3> QED
      BY <3>3, <3>5
  <2>2. CASE step[e] # "ltrim"
    BY <1>n, <2>2 DEF CommandsLeft, Needed, Behind
  <2> QED
    BY <2>1, <2>2
<1>1. ASSUME step'[e] = step[e], todo'[e] = todo[e]
      PROVE  /\ Running(e) => CommandsLeft(e)' <= CommandsLeft(e)
             /\ Stored(e)' => todo'[e] # {}
  BY <1>1, <1>s DEF CommandsLeft, HasItsEvent, Stored
<1>2. ASSUME NEW d \in Deliveries, \/ Refuse(d) \/ \E b \in Batches : RejectBody(d, b) \/ Accept(d, b)
      PROVE  /\ Running(e) => CommandsLeft(e)' <= CommandsLeft(e)
             /\ Stored(e)' => todo'[e] # {}
  <2>1. step[d] = "new" /\ step'[d] \in {"refused", "422", "publish"}
    BY <1>2, <1>t DEF Refuse, RejectBody, Accept, TypeOK
  <2>2. \A x \in Deliveries \ {d} : step'[x] = step[x] /\ todo'[x] = todo[x]
    BY <1>2, <1>t DEF Refuse, RejectBody, Accept, TypeOK
  <2>3. CASE e = d
    BY <2>1, <2>3 DEF Running, Commands, Stored
  <2>4. CASE e # d
    BY <1>1, <2>2, <2>4
  <2> QED
    BY <2>3, <2>4
<1>3. CASE Crash
  <2>1. todo'[e] = todo[e] /\ step'[e] = (IF Running(e) THEN "aborted" ELSE step[e])
    BY <1>3 DEF Crash
  <2>2. CASE Running(e)
    <3>1. CommandsLeft(e)' = 0
      BY <1>n, <2>1, <2>2, NeededFacts DEF CommandsLeft
    <3> QED
      BY <1>s, <2>1, <2>2, <3>1 DEF Stored
  <2>3. CASE ~Running(e)
    BY <1>1, <2>1, <2>3
  <2> QED
    BY <2>2, <2>3
<1>4. CASE RedisForgets \/ UNCHANGED vars
  BY <1>1, <1>4 DEF RedisForgets, vars, handlerVars
<1> QED
  BY <1>2, <1>3, <1>4 DEF Next, Handle

\* A request that has been accepted needs at most three commands for each event
\* and one step for the answer, whatever fails, crashes or overlaps; until then
\* there is always a command for it to run.
THEOREM RequestsCountDown == Spec => []NeverStuck /\ CountsDown
<1>1. Init => HasItsEvent
  BY InitTypeOK DEF Init, HasItsEvent, Stored
<1>2. HasItsEvent /\ [Next]_vars => HasItsEvent'
  <2> SUFFICES ASSUME HasItsEvent, [Next]_vars, NEW e \in Deliveries, Stored(e)'
               PROVE  todo'[e] # {}
    BY NextTypeOK DEF HasItsEvent
  <2>1. ASSUME NEW d \in Deliveries, Work(d)
        PROVE  todo'[e] # {}
    <3>1. CASE e = d
      BY <2>1, <3>1, WorkCounts
    <3>2. CASE e # d
      <4>1. step'[e] = step[e] /\ todo'[e] = todo[e]
        BY <2>1, <3>2, WorkCounts
      <4> QED
        BY <4>1 DEF HasItsEvent, Stored
    <3> QED
      BY <3>1, <3>2
  <2> QED
    BY <2>1, OtherSteps
<1>3. HasItsEvent => NeverStuck
  <2> SUFFICES ASSUME HasItsEvent, NEW d \in Deliveries, Running(d)
               PROVE  CommandsLeft(d) \in 1..(3 * MaxBatch + 1) /\ HasACommand(d)
    BY DEF NeverStuck
  <2> DEFINE n == Cardinality(todo[d])
  <2>1. n \in 0..MaxBatch /\ IsFiniteSet(todo[d]) /\ todo[d] \subseteq Nat
    BY TodoFacts DEF HasItsEvent
  <2>2. step[d] \in {"publish", "lpush", "ltrim"}
    BY DEF Running, Commands
  <2>3. step[d] \in {"lpush", "ltrim"} => todo[d] # {}
    BY DEF HasItsEvent, Stored
  <2>4. todo[d] # {} => n # 0
    BY <2>1, FS_EmptySet
  <2>5. MaxBatch \in Nat /\ n \in Nat /\ n <= MaxBatch
    BY <2>1, MaxBatchAssumption
  <2>6. /\ step[d] = "publish" => CommandsLeft(d) = 3 * n + 1
        /\ step[d] = "lpush"   => CommandsLeft(d) = 3 * n
        /\ step[d] = "ltrim"   => CommandsLeft(d) = 3 * n - 1
    BY <2>5, NeededFacts DEF CommandsLeft
  <2>7. CommandsLeft(d) \in 1..(3 * MaxBatch + 1)
    <3> HIDE DEF n
    <3> QED
      BY <2>2, <2>3, <2>4, <2>5, <2>6
  <2>8. todo[d] # {} => \E i \in todo[d] : IsCurrent(d, i)
    BY <2>1, LeastOf DEF IsCurrent
  <2> QED
    BY <2>2, <2>3, <2>7, <2>8 DEF HasACommand
<1>4. HasItsEvent /\ [Next]_vars
        => \A d \in Deliveries : /\ Running(d) => CommandsLeft(d)' <= CommandsLeft(d)
                                 /\ Work(d)    => CommandsLeft(d)' < CommandsLeft(d)
  <2> SUFFICES ASSUME HasItsEvent, [Next]_vars, NEW d \in Deliveries
               PROVE  /\ Running(d) => CommandsLeft(d)' <= CommandsLeft(d)
                      /\ Work(d)    => CommandsLeft(d)' < CommandsLeft(d)
    OBVIOUS
  <2>1. ASSUME NEW x \in Deliveries, Work(x)
        PROVE  Running(d) => CommandsLeft(d)' <= CommandsLeft(d)
    <3> DEFINE was == CommandsLeft(d)
               now == CommandsLeft(d)'
    <3>1. was \in Int /\ now \in Int
      <4>1. TypeOK /\ TypeOK'
        BY NextTypeOK DEF HasItsEvent
      <4>2. Cardinality(todo[d]) \in Nat
        BY <4>1, TodoFacts
      <4>3. Cardinality(todo'[d]) \in Nat
        <5>1. todo'[d] \subseteq 1..MaxBatch
          BY <4>1 DEF TypeOK
        <5>2. IsFiniteSet(1..MaxBatch)
          BY MaxBatchAssumption, FS_Interval
        <5>3. IsFiniteSet(todo'[d])
          BY <5>1, <5>2, FS_Subset
        <5> QED
          BY <5>3, FS_CardinalityType
      <4> QED
        BY <4>2, <4>3 DEF CommandsLeft, Needed, Behind
    <3>2. CASE x = d
      <4>1. now < was
        BY <2>1, <3>2, WorkCounts
      <4> HIDE DEF was, now
      <4>2. now <= was
        BY <3>1, <4>1
      <4> QED
        BY <4>2 DEF was, now
    <3>3. CASE x # d
      <4>1. now = was
        BY <2>1, <3>3, WorkCounts DEF CommandsLeft
      <4> HIDE DEF was, now
      <4>2. now <= was
        BY <3>1, <4>1
      <4> QED
        BY <4>2 DEF was, now
    <3> QED
      BY <3>2, <3>3
  <2>2. Work(d) => CommandsLeft(d)' < CommandsLeft(d)
    BY WorkCounts
  <2>3. ASSUME ~\E x \in Deliveries : Work(x)
        PROVE  Running(d) => CommandsLeft(d)' <= CommandsLeft(d)
    BY <2>3, OtherSteps
  <2> QED
    BY <2>1, <2>2, <2>3
<1> QED
  BY <1>1, <1>2, <1>3, <1>4, PTL DEF Spec, CountsDown
=============================================================================
