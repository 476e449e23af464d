---------------------------- MODULE ThreatClient ----------------------------
(***************************************************************************)
(* The browser's end of the threat feed (context/DashboardContext.tsx):    *)
(* the WebSocket kept in wsRef with its reconnect timers, and the list of  *)
(* alerts that live messages and the answers of /api/threats/history fill. *)
(* Every callback runs to its end; callbacks of old and new sockets, timers*)
(* and late answers come in any order.                                     *)
(***************************************************************************)
EXTENDS Naturals, Sequences, FiniteSets

CONSTANTS
    Sockets,       \* WebSocket objects that may exist at the same time
    MaxAttempts,   \* MAX_RECONNECT_ATTEMPTS
    MaxShown,      \* 50, the cut of the list when a live alert comes in
    MaxVault,      \* the longest answer of /api/threats/history
    MaxMessages,   \* bound: live messages
    MaxPending     \* bound: reconnect timers, and history requests, under way

None == "none"

ASSUME ClientAssumption ==
    /\ None \notin Sockets
    /\ {MaxAttempts, MaxShown, MaxVault, MaxMessages, MaxPending} \subseteq Nat \ {0}

VARIABLES
    ready,      \* ready[s]: readyState of s; "none" when no such object exists
    hooked,     \* the sockets that still have their onclose handler
    wsRef,      \* wsRef.current
    attempt,    \* reconnectRef.current
    timers,     \* reconnect timers not yet fired
    connected,  \* wsConnected, the badge "Live"
    mounted,    \* whether the provider is mounted
    wanted,     \* whether the tab has been opened
    retries,    \* automatic connections since the last one that opened, or
                \* since the user last asked for one
    threats,    \* the list of alerts, newest first
    nextId,     \* threatIdRef.current
    cleared,    \* nextId when the list was last cleared
    requests    \* requests for the history under way

socketVars == <<ready, hooked, wsRef, attempt, timers, connected, mounted, wanted, retries>>
listVars   == <<threats, nextId, cleared, requests>>
vars       == <<socketVars, listVars>>

Live(n)    == [from |-> "live", id |-> n]
History(n) == [from |-> "history", id |-> n]

Init ==
    /\ ready     = [s \in Sockets |-> "none"]
    /\ hooked    = {}
    /\ wsRef     = None
    /\ attempt   = 0
    /\ timers    = 0
    /\ connected = FALSE
    /\ mounted   = TRUE
    /\ wanted    = FALSE
    /\ retries   = 0
    /\ threats   = <<>>
    /\ nextId    = 1
    /\ cleared   = 1
    /\ requests  = 0

Busy(s) == ready[s] \in {"connecting", "open"}

Lesser(a, b) == IF a < b THEN a ELSE b
-----------------------------------------------------------------------------
(* Slips: what an action would be after a plausible mistake in its code.    *)
(* No specification uses them; each breaks a property below.                *)

NewSocketUnchecked(s) ==
    /\ ready[s] = "none"
    /\ ready'   = [ready EXCEPT ![s] = "connecting"]
    /\ hooked'  = (hooked \ {wsRef}) \cup {s}
    /\ wsRef'   = s
    /\ attempt' = 0

NewSocketNoReset(s) ==
    /\ wsRef # None => ~Busy(wsRef)
    /\ ready[s] = "none"
    /\ ready'   = [ready EXCEPT ![s] = "connecting"]
    /\ hooked'  = (hooked \ {wsRef}) \cup {s}
    /\ wsRef'   = s
    /\ UNCHANGED attempt

HistoryReplaces(n) ==
    /\ requests > 0
    /\ requests' = requests - 1
    /\ threats' = [i \in 1..n |-> History(i)]
    /\ UNCHANGED <<socketVars, nextId, cleared>>

HistoryAppends(n) ==
    /\ requests > 0
    /\ requests' = requests - 1
    /\ threats' = threats \o [i \in 1..n |-> History(i)]
    /\ UNCHANGED <<socketVars, nextId, cleared>>
-----------------------------------------------------------------------------
(* The socket *)

\* connectWebSocket: a socket that connects or is open stays.
KeepSocket == /\ wsRef # None /\ Busy(wsRef)
              /\ UNCHANGED <<ready, hooked, wsRef, attempt>>

\* connectWebSocket: the old socket, if any, loses its onclose and is closed.
NewSocket(s) ==
    /\ wsRef # None => ~Busy(wsRef)
    /\ ready[s] = "none"
    /\ ready'   = [ready EXCEPT ![s] = "connecting"]
    /\ hooked'  = (hooked \ {wsRef}) \cup {s}
    /\ wsRef'   = s
    /\ attempt' = 0

ConnectWebSocket == KeepSocket \/ \E s \in Sockets : NewSocket(s)

\* App: the tab "threats" becomes active.
OpenTab ==
    /\ mounted
    /\ timers < MaxPending
    /\ ConnectWebSocket
    /\ wanted'  = TRUE
    /\ retries' = 0
    /\ UNCHANGED <<timers, connected, mounted, listVars>>

\* The timer that onclose set; nothing cancels it.
TimerFires ==
    /\ timers > 0
    /\ timers' = timers - 1
    /\ ConnectWebSocket
    /\ retries' = IF wsRef' = wsRef THEN retries ELSE Lesser(retries + 1, MaxAttempts + 1)
    /\ UNCHANGED <<connected, mounted, wanted, listVars>>

\* onopen.
Opens(s) ==
    /\ ready[s] = "connecting"
    /\ ready'     = [ready EXCEPT ![s] = "open"]
    /\ attempt'   = 0
    /\ connected' = TRUE
    /\ retries'   = 0
    /\ UNCHANGED <<hooked, wsRef, timers, mounted, wanted, listVars>>

\* The server starts the closing handshake; no callback runs.
StartsClosing(s) ==
    /\ ready[s] = "open"
    /\ ready' = [ready EXCEPT ![s] = "closing"]
    /\ UNCHANGED <<hooked, wsRef, attempt, timers, connected, mounted, wanted, retries, listVars>>

\* onclose of the socket in wsRef: forget it, and try again after a delay.
Reconnect ==
    /\ wsRef'     = None
    /\ connected' = FALSE
    /\ IF attempt < MaxAttempts
       THEN attempt' = attempt + 1 /\ timers' = timers + 1
       ELSE UNCHANGED <<attempt, timers>>

\* The connection ends: onerror when it failed, then onclose.
Closes(s, failed) ==
    /\ Busy(s) \/ ready[s] = "closing"
    /\ ready[s] = "connecting" => failed
    /\ ready'  = [ready EXCEPT ![s] = "none"]
    /\ hooked' = hooked \ {s}
    /\ IF s \in hooked /\ wsRef = s
       THEN Reconnect
       ELSE /\ connected' = (connected /\ ~failed)
            /\ UNCHANGED <<wsRef, attempt, timers>>
    /\ UNCHANGED <<mounted, wanted, retries, listVars>>

\* The clean-up effect: the socket goes; the timers stay.
Unmount ==
    /\ mounted
    /\ mounted' = FALSE
    /\ ready'   = [s \in Sockets |-> IF s = wsRef /\ Busy(s) THEN "closing" ELSE ready[s]]
    /\ hooked'  = hooked \ {wsRef}
    /\ wsRef'   = None
    /\ UNCHANGED <<attempt, timers, connected, wanted, retries, listVars>>
-----------------------------------------------------------------------------
(* The list *)

\* onmessage: in front of the list, which is cut to its newest MaxShown.
Receive(s) ==
    /\ ready[s] = "open"
    /\ nextId <= MaxMessages
    /\ threats' = SubSeq(<<Live(nextId)>> \o threats, 1, Lesser(MaxShown, Len(threats) + 1))
    /\ nextId'  = nextId + 1
    /\ UNCHANGED <<socketVars, cleared, requests>>

\* fetchThreatHistory: the tab is opened again after 30 s, or a manual refresh.
RequestHistory ==
    /\ mounted
    /\ requests < MaxPending
    /\ requests' = requests + 1
    /\ UNCHANGED <<socketVars, threats, nextId, cleared>>

\* The answer, of n events, seeds a list only while that is empty; n = 0 is
\* also a request that failed.
HistoryArrives(n) ==
    /\ requests > 0
    /\ requests' = requests - 1
    /\ threats' = IF threats # <<>> THEN threats ELSE [i \in 1..n |-> History(i)]
    /\ UNCHANGED <<socketVars, nextId, cleared>>

\* clearThreats.
Clear ==
    /\ mounted
    /\ threats' = <<>>
    /\ cleared' = nextId
    /\ UNCHANGED <<socketVars, nextId, requests>>

Next ==
    \/ OpenTab \/ TimerFires \/ Unmount
    \/ \E s \in Sockets :
          \/ Opens(s) \/ StartsClosing(s) \/ Receive(s)
          \/ \E failed \in BOOLEAN : Closes(s, failed)
    \/ RequestHistory \/ (\E n \in 0..MaxVault : HistoryArrives(n)) \/ Clear

Spec == Init /\ [][Next]_vars

\* The browser fires its timers and ends every closing handshake; a server that
\* is tried again and again accepts a connection in the end.
FairSpec ==
    /\ Spec
    /\ WF_vars(TimerFires)
    /\ \A s \in Sockets :
          /\ WF_vars(ready[s] = "closing" /\ \E failed \in BOOLEAN : Closes(s, failed))
          /\ WF_vars(Opens(s) \/ \E failed \in BOOLEAN : ready[s] = "connecting" /\ Closes(s, failed))
    /\ SF_vars(\E s \in Sockets : Opens(s))
-----------------------------------------------------------------------------
TypeOK ==
    /\ ready \in [Sockets -> {"none", "connecting", "open", "closing"}]
    /\ hooked \subseteq Sockets
    /\ wsRef \in Sockets \cup {None}
    /\ attempt \in 0..MaxAttempts
    /\ timers \in Nat
    /\ connected \in BOOLEAN
    /\ mounted \in BOOLEAN
    /\ wanted \in BOOLEAN
    /\ retries \in 0..(MaxAttempts + 1)
    /\ threats \in Seq([from : {"live", "history"}, id : Nat])
    /\ nextId \in Nat
    /\ cleared \in Nat
    /\ requests \in Nat

\* However closes, timers and tab changes interleave, one page holds at most one
\* connection to the feed, so no alert is shown twice by two sockets.
OneLiveSocket ==
    /\ \A s \in Sockets : Busy(s) => s = wsRef
    /\ wsRef # None => wsRef \in hooked

\* The badge never says "Live" while the page holds no socket at all.
BadgeNeedsSocket == mounted /\ wsRef = None => ~connected

\* A page that lost its socket always has a reconnect timer pending: the feed
\* is never given up while the provider is mounted.
NeverStranded == mounted /\ wanted /\ wsRef = None => timers > 0

\* The refs, the timers, the badge and the sockets themselves, which change in
\* callbacks of their own, never contradict each other.
SocketsAgree == TypeOK /\ OneLiveSocket /\ BadgeNeedsSocket /\ NeverStranded

\* The list shows exactly the newest MaxShown of the alerts that came in since
\* it was last cleared, newest first, and never a history answer that came late
\* in front of them or in their place ("history is only meant to seed an empty
\* tab").
LiveAlertsAreKept ==
    LET shown == Lesser(MaxShown, nextId - cleared)
    IN  /\ Len(threats) >= shown
        /\ \A k \in 1..shown : threats[k] = Live(nextId - k)
        /\ \A k \in (shown + 1)..Len(threats) : threats[k].from = "history"

\* The ids are the keys of the rows: no two rows share one.
UniqueIds == \A k, l \in DOMAIN threats : threats[k] = threats[l] => k = l

\* Once the tab was opened, an open connection always comes back, however often
\* the server drops it or refuses it first, as long as the provider is mounted.
FeedComesBack ==
    (mounted /\ wanted)
        ~> (~mounted \/ (wsRef # None /\ \E s \in Sockets : s = wsRef /\ ready[s] = "open"))

\* DashboardContext.tsx:448: MAX_RECONNECT_ATTEMPTS bounds the connections that
\* are tried in a row without one that opens.
RetriesAreCapped == retries <= MaxAttempts
=============================================================================
