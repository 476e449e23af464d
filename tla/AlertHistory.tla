----------------------------- MODULE AlertHistory -----------------------------
(***************************************************************************)
(* What the alert feed and its history promise whoever looks at them, with *)
(* no handler, command or failure in sight: an alert is streamed, later it *)
(* may be recorded, and the history shows the newest Cap recorded alerts   *)
(* at every moment.  Recording is one step here; the backend needs two     *)
(* Redis commands for it (store_falco_event), between which the list it    *)
(* keeps may be longer than what it shows.                                 *)
(***************************************************************************)
EXTENDS Naturals, Sequences

CONSTANTS
    Delivery,   \* the requests alerts come from
    Place,      \* the places of the alerts in a request
    Cap         \* how many alerts the history shows at most

VARIABLES
    streamed,   \* the alerts that went out to the subscribers
    recorded,   \* those recorded since Redis last lost its data
    recent      \* the history, newest first

historyVars == <<streamed, recorded, recent>>

Alert == Delivery \X Place

\* The newest of a list that is kept newest first.
Newest(s) == IF Len(s) > Cap THEN SubSeq(s, 1, Cap) ELSE s

\* No alert of the request at the same or a later place has come before.
InTurn(e, alerts) == \A a \in alerts : a[1] = e[1] => a[2] < e[2]

Init == streamed = {} /\ recorded = {} /\ recent = <<>>

Stream(e) ==
    /\ InTurn(e, streamed)
    /\ streamed' = streamed \cup {e}
    /\ UNCHANGED <<recorded, recent>>

Record(e) ==
    /\ e \in streamed
    /\ InTurn(e, recorded)
    /\ recorded' = recorded \cup {e}
    /\ recent'   = Newest(<<e>> \o recent)
    /\ UNCHANGED streamed

Forget == recorded' = {} /\ recent' = <<>> /\ UNCHANGED streamed

Next == (\E e \in Alert : Stream(e) \/ Record(e)) \/ Forget

Spec == Init /\ [][Next]_historyVars
=============================================================================
