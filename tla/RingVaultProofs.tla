--------------------------- MODULE RingVaultProofs ---------------------------
(***************************************************************************)
(* The ring buffer keeps the newest entries, for every set of entries and  *)
(* every cap.  TypeOK /\ VaultIsNewest is inductive as it stands.          *)
(***************************************************************************)
EXTENDS RingVault, SequenceTheorems, TLAPS

LEMMA InitEstablishes ==
    ASSUME PositiveCap PROVE Init => TypeOK /\ VaultIsNewest
  BY PositiveCap DEF PositiveCap, Init, TypeOK, VaultIsNewest

LEMMA PushPreserves ==
    ASSUME PositiveCap, TypeOK, VaultIsNewest, NEW e \in Entry, Push(e)
    PROVE  TypeOK' /\ VaultIsNewest'
<1>1. /\ Len(vault') = Len(vault) + 1 /\ vault'[1] = e
      /\ \A k \in 2..Len(vault') : vault'[k] = vault[k - 1]
      /\ vault' \in Seq(Entry)
  BY DEF Push, TypeOK
<1>2. /\ Len(pushed') = Len(pushed) + 1 /\ pushed'[Len(pushed')] = e
      /\ \A k \in 1..Len(pushed) : pushed'[k] = pushed[k]
      /\ pushed' \in Seq(Entry)
  BY DEF Push, TypeOK
<1>3. ASSUME NEW k \in 1..Len(vault')
      PROVE  vault'[k] = pushed'[Len(pushed') + 1 - k]
  <2>1. CASE k = 1
    BY <1>1, <1>2, <2>1 DEF TypeOK
  <2>2. CASE k # 1
    <3>1. k - 1 \in 1..Len(vault)
      BY <1>1, <2>2 DEF TypeOK
    <3>2. /\ Len(pushed) + 1 - (k - 1) = Len(pushed') + 1 - k
          /\ Len(pushed') + 1 - k \in 1..Len(pushed)
      BY <1>1, <1>2, <3>1 DEF TypeOK, VaultIsNewest
    <3>3. vault'[k] = pushed[Len(pushed') + 1 - k]
      BY <1>1, <2>2, <3>1, <3>2 DEF VaultIsNewest
    <3> QED
      BY <1>2, <3>2, <3>3
  <2> QED
    BY <2>1, <2>2
<1>4. /\ Len(vault') <= Len(pushed')
      /\ Len(vault') >= Cap \/ Len(vault') = Len(pushed')
  BY <1>1, <1>2, PositiveCap DEF PositiveCap, TypeOK, VaultIsNewest
<1> QED
  BY <1>1, <1>2, <1>3, <1>4 DEF TypeOK, VaultIsNewest

\* LTRIM keeps an initial part of the list, of at most Cap entries.
LEMMA TrimmedIsPrefix ==
    ASSUME PositiveCap, NEW v \in Seq(Entry)
    PROVE  /\ Trimmed(v) \in Seq(Entry)
           /\ Len(Trimmed(v)) = IF Len(v) > Cap THEN Cap ELSE Len(v)
           /\ \A k \in 1..Len(Trimmed(v)) : Trimmed(v)[k] = v[k]
  BY PositiveCap DEF PositiveCap, Trimmed

LEMMA TrimPreserves ==
    ASSUME PositiveCap, TypeOK, VaultIsNewest, Trim
    PROVE  TypeOK' /\ VaultIsNewest'
<1>1. vault' = Trimmed(vault) /\ pushed' = pushed
  BY DEF Trim
<1>2. /\ vault' \in Seq(Entry)
      /\ Len(vault') = IF Len(vault) > Cap THEN Cap ELSE Len(vault)
      /\ \A k \in 1..Len(vault') : vault'[k] = vault[k]
  BY <1>1, TrimmedIsPrefix DEF TypeOK
<1>3. \A k \in 1..Len(vault') : k \in 1..Len(vault)
  BY <1>2, PositiveCap DEF PositiveCap, TypeOK
<1> QED
  BY <1>1, <1>2, <1>3, PositiveCap DEF PositiveCap, TypeOK, VaultIsNewest

LEMMA NextPreserves ==
    ASSUME PositiveCap
    PROVE  TypeOK /\ VaultIsNewest /\ [Next]_ringVars => TypeOK' /\ VaultIsNewest'
<1> SUFFICES ASSUME TypeOK, VaultIsNewest, [Next]_ringVars
             PROVE  TypeOK' /\ VaultIsNewest'
  OBVIOUS
<1>1. ASSUME NEW e \in Entry, Push(e)
      PROVE  TypeOK' /\ VaultIsNewest'
  BY <1>1, PushPreserves
<1>2. CASE Trim
  BY <1>2, TrimPreserves
<1>3. CASE Forget
  BY <1>3, PositiveCap DEF PositiveCap, Forget, TypeOK, VaultIsNewest
<1>4. CASE UNCHANGED ringVars
  BY <1>4 DEF ringVars, TypeOK, VaultIsNewest
<1> QED
  BY <1>1, <1>2, <1>3, <1>4 DEF Next

\* A Redis vault filled with LPUSH and cut with LTRIM holds the newest entries,
\* newest first and without a gap, however the commands of its writers follow
\* each other (store_falco_event, log_audit).
THEOREM RingIsNewest ==
    ASSUME PositiveCap PROVE Spec => [](TypeOK /\ VaultIsNewest)
<1>1. Init => TypeOK /\ VaultIsNewest
  BY InitEstablishes
<1>2. TypeOK /\ VaultIsNewest /\ [Next]_ringVars => (TypeOK /\ VaultIsNewest)'
  BY NextPreserves
<1> QED
  BY <1>1, <1>2, PTL DEF Spec
=============================================================================
