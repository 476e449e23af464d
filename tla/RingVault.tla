------------------------------ MODULE RingVault ------------------------------
(***************************************************************************)
(* What a Redis vault of this system promises: a capped list that keeps    *)
(* the newest entries, newest first.  The threat vault (falco:vault) and   *)
(* the audit log (audit:vault) both fill one with LPUSH and cut it with    *)
(* LTRIM, as two commands; any number of writers may stand between them.   *)
(***************************************************************************)
EXTENDS Naturals, Sequences

CONSTANTS
    Entry,   \* what the list holds
    Cap      \* the length LTRIM cuts it to

\* What whoever instantiates the module has to assume of its cap.
PositiveCap == Cap \in Nat \ {0}

VARIABLES
    pushed,  \* every entry pushed since Redis last lost its data, oldest first
    vault    \* the list itself, newest first

ringVars == <<pushed, vault>>

Init == pushed = <<>> /\ vault = <<>>

Push(e) ==
    /\ vault'  = <<e>> \o vault
    /\ pushed' = Append(pushed, e)

\* LTRIM key 0 Cap-1.
Trimmed(v) == IF Len(v) > Cap THEN SubSeq(v, 1, Cap) ELSE v

Trim == vault' = Trimmed(vault) /\ UNCHANGED pushed

\* Redis keeps nothing on disk (--save "" --appendonly no) and may evict the
\* key under memory pressure (allkeys-lru).
Forget == pushed' = <<>> /\ vault' = <<>>

Next == (\E e \in Entry : Push(e)) \/ Trim \/ Forget

Spec == Init /\ [][Next]_ringVars
-----------------------------------------------------------------------------
TypeOK == pushed \in Seq(Entry) /\ vault \in Seq(Entry)

Elements(s) == {s[k] : k \in DOMAIN s}

\* The vault is a ring buffer: it always holds the newest pushes, newest first,
\* without a gap, and never fewer of them than the cap allows.
VaultIsNewest ==
    /\ Len(vault) <= Len(pushed)
    /\ \A k \in 1..Len(vault) : vault[k] = pushed[Len(pushed) + 1 - k]
    /\ Len(vault) >= Cap \/ Len(vault) = Len(pushed)
=============================================================================
