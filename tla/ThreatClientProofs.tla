------------------------- MODULE ThreatClientProofs -------------------------
(***************************************************************************)
(* The browser's end of the threat feed, for any number of sockets, of     *)
(* attempts, of rows shown, of alerts and of answers.                      *)
(***************************************************************************)
EXTENDS ThreatClient, SequenceTheorems, TLAPS

LEMMA BoundsAreNumbers ==
    /\ None \notin Sockets
    /\ MaxAttempts \in Nat /\ MaxAttempts >= 1
    /\ MaxShown \in Nat /\ MaxShown >= 1
    /\ MaxPending \in Nat /\ MaxVault \in Nat
  BY ClientAssumption DEF ClientAssumption

(***************************************************************************)
(* The socket.  What is inductive beside the property: while there is a    *)
(* socket no attempt has been counted yet, so that a close always sets a   *)
(* timer.                                                                  *)
(***************************************************************************)
SocketTypeOK ==
    /\ ready \in [Sockets -> {"none", "connecting", "open", "closing"}]
    /\ hooked \subseteq Sockets
    /\ wsRef \in Sockets \cup {None}
    /\ attempt \in 0..MaxAttempts
    /\ timers \in Nat
    /\ connected \in BOOLEAN /\ mounted \in BOOLEAN /\ wanted \in BOOLEAN
    /\ retries \in 0..(MaxAttempts + 1)

Uncounted == wsRef # None => attempt = 0

SocketInv == SocketTypeOK /\ Uncounted /\ OneLiveSocket /\ BadgeNeedsSocket /\ NeverStranded

\* connectWebSocket leaves a socket in wsRef, and no other that is live.
LEMMA ConnectFacts ==
    ASSUME SocketTypeOK, Uncounted, OneLiveSocket, ConnectWebSocket
    PROVE  /\ ready' \in [Sockets -> {"none", "connecting", "open", "closing"}]
           /\ hooked' \subseteq Sockets
           /\ wsRef' \in Sockets /\ wsRef' # None
           /\ attempt' = 0
           /\ OneLiveSocket'
<1>1. CASE KeepSocket
  BY <1>1 DEF KeepSocket, SocketTypeOK, Uncounted, OneLiveSocket, Busy
<1>2. ASSUME NEW s \in Sockets, NewSocket(s)
      PROVE  /\ ready' \in [Sockets -> {"none", "connecting", "open", "closing"}]
             /\ hooked' \subseteq Sockets
             /\ wsRef' \in Sockets /\ wsRef' # None
             /\ attempt' = 0
             /\ OneLiveSocket'
  <2>1. \A q \in Sockets : ~Busy(q)
    BY <1>2, BoundsAreNumbers DEF NewSocket, OneLiveSocket
  <2>2. /\ ready' = [ready EXCEPT ![s] = "connecting"] /\ wsRef' = s /\ attempt' = 0
        /\ hooked' = (hooked \ {wsRef}) \cup {s}
    BY <1>2 DEF NewSocket
  <2> QED
    BY <2>1, <2>2, BoundsAreNumbers DEF SocketTypeOK, OneLiveSocket, Busy
<1> QED
  BY <1>1, <1>2 DEF ConnectWebSocket

LEMMA NextSocketInv == SocketInv /\ [Next]_vars => SocketInv'
<1> SUFFICES ASSUME SocketInv, [Next]_vars PROVE SocketInv'
  OBVIOUS
<1> USE BoundsAreNumbers DEF SocketInv, SocketTypeOK, Uncounted, OneLiveSocket, BadgeNeedsSocket,
                             NeverStranded, Busy
<1>1. CASE OpenTab
  <2>1. /\ UNCHANGED <<timers, connected, mounted>> /\ wanted' = TRUE /\ retries' = 0
    BY <1>1 DEF OpenTab
  <2>2. ConnectWebSocket
    BY <1>1 DEF OpenTab
  <2> QED
    BY <2>1, <2>2, ConnectFacts
<1>2. CASE TimerFires
  <2>1. /\ timers > 0 /\ timers' = timers - 1 /\ UNCHANGED <<connected, mounted, wanted>>
        /\ retries' \in 0..(MaxAttempts + 1)
    BY <1>2 DEF TimerFires, Lesser
  <2>2. ConnectWebSocket
    BY <1>2 DEF TimerFires
  <2> QED
    BY <2>1, <2>2, ConnectFacts
<1>3. CASE Unmount
  BY <1>3 DEF Unmount
<1>4. ASSUME NEW s \in Sockets, Opens(s)
      PROVE  SocketInv'
  BY <1>4 DEF Opens
<1>5. ASSUME NEW s \in Sockets, StartsClosing(s)
      PROVE  SocketInv'
  BY <1>5 DEF StartsClosing
<1>6. ASSUME NEW s \in Sockets, NEW failed \in BOOLEAN, Closes(s, failed)
      PROVE  SocketInv'
  <2>1. /\ ready' = [ready EXCEPT ![s] = "none"] /\ hooked' = hooked \ {s}
        /\ UNCHANGED <<mounted, wanted, retries>>
    BY <1>6 DEF Closes
  <2>2. CASE wsRef = s
    <3>1. wsRef' = None /\ connected' = FALSE /\ attempt' = 1 /\ timers' = timers + 1
      BY <1>6, <2>2 DEF Closes, Reconnect
    <3>2. 1 \in 0..MaxAttempts /\ timers + 1 \in Nat
      OBVIOUS
    <3>3. SocketTypeOK' /\ Uncounted'
      BY <2>1, <3>1, <3>2
    <3>4. OneLiveSocket'
      BY <2>1, <2>2, <3>1
    <3>5. BadgeNeedsSocket' /\ NeverStranded'
      BY <3>1
    <3> QED
      BY <3>3, <3>4, <3>5
  <2>3. CASE wsRef # s
    <3>1. UNCHANGED <<wsRef, attempt, timers>> /\ connected' \in BOOLEAN
          /\ (connected' => connected)
      BY <1>6, <2>3 DEF Closes
    <3>2. SocketTypeOK' /\ Uncounted'
      BY <2>1, <3>1
    <3>3. OneLiveSocket'
      BY <2>1, <2>3, <3>1
    <3>4. BadgeNeedsSocket' /\ NeverStranded'
      BY <2>1, <3>1
    <3> QED
      BY <3>2, <3>3, <3>4
  <2> QED
    BY <2>2, <2>3
<1>7. CASE UNCHANGED socketVars
  BY <1>7 DEF socketVars
<1> QED
  BY <1>1, <1>2, <1>3, <1>4, <1>5, <1>6, <1>7
  DEF Next, vars, Receive, RequestHistory, HistoryArrives, Clear

LEMMA InitSocketInv == Init => SocketInv
<1> SUFFICES ASSUME Init PROVE SocketInv
  OBVIOUS
<1>1. SocketTypeOK
  <2>1. 0 \in 0..MaxAttempts /\ 0 \in 0..(MaxAttempts + 1)
    BY BoundsAreNumbers
  <2>2. ready \in [Sockets -> {"none", "connecting", "open", "closing"}]
    BY DEF Init
  <2> QED
    BY <2>1, <2>2 DEF Init, SocketTypeOK
<1>2. Uncounted /\ OneLiveSocket /\ BadgeNeedsSocket /\ NeverStranded
  BY DEF Init, Uncounted, OneLiveSocket, BadgeNeedsSocket, NeverStranded, Busy
<1> QED
  BY <1>1, <1>2 DEF SocketInv

-----------------------------------------------------------------------------
(***************************************************************************)
(* The list.  The alerts in front and the history behind them stay in      *)
(* their order; a new alert has an id of its own.                          *)
(***************************************************************************)
Alerts == [from : {"live", "history"}, id : Nat]

ListTypeOK ==
    /\ threats \in Seq(Alerts)
    /\ nextId \in Nat /\ cleared \in Nat /\ requests \in Nat
    /\ cleared <= nextId

ListInv == ListTypeOK /\ LiveAlertsAreKept /\ UniqueIds

LEMMA ReceiveKeepsList ==
    ASSUME ListInv, NEW s \in Sockets, Receive(s)
    PROVE  ListInv'
<1> DEFINE top   == Lesser(MaxShown, Len(threats) + 1)
           shown == Lesser(MaxShown, nextId - cleared)
<1>1. /\ threats \in Seq(Alerts) /\ Len(threats) \in Nat /\ nextId \in Nat /\ cleared \in Nat
      /\ cleared <= nextId
  BY DEF ListInv, ListTypeOK
<1>2. /\ top \in Nat /\ top >= 1 /\ top <= MaxShown /\ top <= Len(threats) + 1
      /\ top = MaxShown \/ top = Len(threats) + 1
      /\ shown \in Nat /\ shown <= Len(threats)
      /\ shown = MaxShown \/ shown = nextId - cleared
      /\ shown <= MaxShown /\ shown <= nextId - cleared
  BY <1>1, BoundsAreNumbers DEF Lesser, ListInv, LiveAlertsAreKept
<1>3. nextId' = nextId + 1 /\ cleared' = cleared /\ requests' = requests
  BY DEF Receive
<1>4. /\ threats' \in Seq(Alerts) /\ Len(threats') = top
      /\ threats'[1] = Live(nextId)
      /\ \A k \in 2..top : threats'[k] = threats[k - 1] /\ k - 1 \in 1..Len(threats)
  <2> DEFINE longer == <<Live(nextId)>> \o threats
  <2>1. Live(nextId) \in Alerts
    BY <1>1 DEF Live, Alerts
  <2>2. /\ longer \in Seq(Alerts) /\ Len(longer) = Len(threats) + 1 /\ longer[1] = Live(nextId)
        /\ \A k \in 2..Len(longer) : longer[k] = threats[k - 1]
    BY <1>1, <2>1
  <2>3. threats' = SubSeq(longer, 1, top)
    BY DEF Receive
  <2> HIDE DEF longer, top
  <2>4. /\ threats' \in Seq(Alerts) /\ Len(threats') = top
        /\ \A k \in 1..top : threats'[k] = longer[k]
    BY <1>1, <1>2, <2>2, <2>3
  <2> QED
    BY <1>1, <1>2, <2>2, <2>4
<1> HIDE DEF top, shown
<1>5. /\ \A k \in 1..shown : threats[k] = Live(nextId - k)
      /\ \A k \in (shown + 1)..Len(threats) : threats[k].from = "history"
  BY DEF ListInv, LiveAlertsAreKept, shown
<1>6. LiveAlertsAreKept'
  <2> DEFINE newShown == Lesser(MaxShown, nextId + 1 - cleared)
  <2>1. /\ newShown \in Nat /\ newShown >= 1
        /\ newShown <= shown + 1 /\ newShown <= MaxShown
        /\ newShown = shown + 1 \/ (newShown = MaxShown /\ shown = MaxShown)
    BY <1>1, <1>2, BoundsAreNumbers DEF Lesser, shown
  <2> HIDE DEF newShown
  <2>2. top >= newShown
    BY <1>1, <1>2, <2>1, BoundsAreNumbers
  <2>3. \A k \in 1..newShown : threats'[k] = Live(nextId + 1 - k)
    <3> SUFFICES ASSUME NEW k \in 1..newShown PROVE threats'[k] = Live(nextId + 1 - k)
      OBVIOUS
    <3>1. CASE k = 1
      BY <1>1, <1>4, <3>1
    <3>2. CASE k # 1
      <4>1. k \in 2..top /\ k - 1 \in 1..shown
        BY <1>2, <2>1, <2>2, <3>2
      <4>2. threats'[k] = Live(nextId - (k - 1))
        BY <1>4, <1>5, <4>1
      <4> QED
        BY <1>1, <2>1, <4>2
    <3> QED
      BY <3>1, <3>2
  <2>4. \A k \in (newShown + 1)..top : threats'[k].from = "history"
    <3> SUFFICES ASSUME NEW k \in (newShown + 1)..top PROVE threats'[k].from = "history"
      OBVIOUS
    <3>1. k \in 2..top /\ k - 1 \in (shown + 1)..Len(threats)
      BY <1>1, <1>2, <2>1, BoundsAreNumbers
    <3> QED
      BY <1>4, <1>5, <3>1
  <2>5. Lesser(MaxShown, nextId' - cleared') = newShown
    BY <1>1, <1>3, BoundsAreNumbers DEF Lesser, newShown
  <2>6. /\ Len(threats') >= newShown
        /\ \A k \in 1..newShown : threats'[k] = Live(nextId' - k)
        /\ \A k \in (newShown + 1)..Len(threats') : threats'[k].from = "history"
    <3>1. Len(threats') = top /\ nextId' = nextId + 1
      BY <1>3, <1>4
    <3>2. \A k \in 1..newShown : threats'[k] = Live(nextId' - k)
      BY <1>1, <2>1, <2>3, <3>1 DEF Live
    <3> QED
      BY <2>2, <2>4, <3>1, <3>2
  <2> QED
    BY <2>5, <2>6 DEF LiveAlertsAreKept
<1>7. UniqueIds'
  <2>1. DOMAIN threats' = 1..top /\ DOMAIN threats = 1..Len(threats)
    BY <1>1, <1>4
  <2>2. \A k \in 1..Len(threats) : threats[k] # Live(nextId)
    <3> SUFFICES ASSUME NEW k \in 1..Len(threats) PROVE threats[k] # Live(nextId)
      OBVIOUS
    <3>1. CASE k \in 1..shown
      <4>1. threats[k] = Live(nextId - k) /\ nextId - k # nextId
        BY <1>1, <1>2, <1>5, <3>1
      <4> QED
        BY <4>1 DEF Live
    <3>2. CASE k \in (shown + 1)..Len(threats)
      BY <1>5, <3>2 DEF Live
    <3> QED
      BY <1>1, <1>2, <3>1, <3>2
  <2>3. \A k, l \in 1..Len(threats) : threats[k] = threats[l] => k = l
    BY <2>1 DEF ListInv, UniqueIds
  <2> SUFFICES ASSUME NEW k \in 1..top, NEW l \in 1..top, threats'[k] = threats'[l]
               PROVE  k = l
    BY <2>1 DEF UniqueIds
  <2>4. CASE k = 1 \/ l = 1
    BY <1>2, <1>4, <2>2, <2>4
  <2>5. CASE k # 1 /\ l # 1
    <3>1. /\ k \in 2..top /\ l \in 2..top
          /\ k - 1 \in 1..Len(threats) /\ l - 1 \in 1..Len(threats)
      BY <1>2, <1>4, <2>5
    <3>2. k - 1 = l - 1
      BY <1>4, <2>3, <3>1
    <3> QED
      BY <3>2
  <2> QED
    BY <2>4, <2>5
<1> QED
  BY <1>1, <1>3, <1>4, <1>6, <1>7 DEF ListInv, ListTypeOK

\* The answer of a history request seeds an empty list and leaves any other.
LEMMA HistoryKeepsList ==
    ASSUME ListInv, NEW n \in 0..MaxVault, HistoryArrives(n)
    PROVE  ListInv'
<1>1. /\ UNCHANGED <<nextId, cleared>> /\ requests' \in Nat
  BY DEF HistoryArrives, ListInv, ListTypeOK
<1>2. CASE threats # <<>>
  <2>1. threats' = threats
    BY <1>2 DEF HistoryArrives
  <2> QED
    BY <1>1, <2>1 DEF ListInv, ListTypeOK, LiveAlertsAreKept, UniqueIds
<1>3. CASE threats = <<>>
  <2>1. nextId \in Nat /\ cleared \in Nat /\ cleared <= nextId /\ n \in Nat
    BY BoundsAreNumbers DEF ListInv, ListTypeOK
  <2>2. Lesser(MaxShown, nextId - cleared) = 0
    BY <1>3, <2>1, BoundsAreNumbers DEF Lesser, ListInv, LiveAlertsAreKept
  <2>3. threats' = [i \in 1..n |-> History(i)]
    BY <1>3 DEF HistoryArrives
  <2>4. \A i \in 1..n : History(i) \in Alerts
    BY <2>1 DEF History, Alerts
  <2>5. threats' \in Seq(Alerts) /\ Len(threats') = n /\ DOMAIN threats' = 1..n
    BY <2>1, <2>3, <2>4
  <2>6. LiveAlertsAreKept'
    BY <1>1, <2>1, <2>2, <2>3, <2>5 DEF LiveAlertsAreKept, History
  <2>7. UniqueIds'
    BY <2>3, <2>5 DEF UniqueIds, History
  <2> QED
    BY <1>1, <2>1, <2>5, <2>6, <2>7 DEF ListInv, ListTypeOK
<1> QED
  BY <1>2, <1>3

LEMMA NextListInv == ListInv /\ [Next]_vars => ListInv'
<1> SUFFICES ASSUME ListInv, [Next]_vars PROVE ListInv'
  OBVIOUS
<1>1. ASSUME NEW s \in Sockets, Receive(s) PROVE ListInv'
  BY <1>1, ReceiveKeepsList
<1>2. ASSUME NEW n \in 0..MaxVault, HistoryArrives(n) PROVE ListInv'
  BY <1>2, HistoryKeepsList
<1>3. CASE Clear
  <2>1. threats' = <<>> /\ cleared' = nextId /\ UNCHANGED <<nextId, requests>>
    BY <1>3 DEF Clear
  <2> QED
    BY <2>1, BoundsAreNumbers
    DEF ListInv, ListTypeOK, LiveAlertsAreKept, UniqueIds, Lesser
<1>4. CASE UNCHANGED <<threats, nextId, cleared>> /\ requests' \in Nat
  BY <1>4 DEF ListInv, ListTypeOK, LiveAlertsAreKept, UniqueIds
<1>5. CASE RequestHistory \/ UNCHANGED listVars
  BY <1>4, <1>5 DEF RequestHistory, listVars, ListInv, ListTypeOK
<1> QED
  BY <1>1, <1>2, <1>3, <1>5
  DEF Next, vars, OpenTab, TimerFires, Unmount, Opens, StartsClosing, Closes

LEMMA InitListInv == Init => ListInv
  BY BoundsAreNumbers DEF Init, ListInv, ListTypeOK, LiveAlertsAreKept, UniqueIds, Lesser

-----------------------------------------------------------------------------
LEMMA AlwaysBoth == Spec => [](SocketInv /\ ListInv)
  BY InitSocketInv, NextSocketInv, InitListInv, NextListInv, PTL DEF Spec

\* The page has at most one live socket, its badge never says "Live" without
\* one, and a page that lost its socket has a reconnect timer, whatever order
\* closes, timers, tab changes and answers come in (connectWebSocket, onclose).
THEOREM SocketsAlwaysAgree == Spec => []SocketsAgree
<1>1. SocketInv /\ ListInv => SocketsAgree
  BY DEF SocketInv, SocketTypeOK, ListInv, ListTypeOK, Alerts, SocketsAgree, TypeOK
<1> QED
  BY <1>1, AlwaysBoth, PTL

\* The list shows exactly the newest alerts since it was cleared, and what a
\* history answer brought only behind them (onmessage, fetchThreatHistory).
THEOREM AlertsAreKept == Spec => []LiveAlertsAreKept
<1>1. ListInv => LiveAlertsAreKept
  BY DEF ListInv
<1> QED
  BY <1>1, AlwaysBoth, PTL

\* No two rows of the list have the same key (threatIdRef).
THEOREM RowsHaveKeys == Spec => []UniqueIds
<1>1. ListInv => UniqueIds
  BY DEF ListInv
<1> QED
  BY <1>1, AlwaysBoth, PTL

-----------------------------------------------------------------------------
(***************************************************************************)
(* Why RetriesAreCapped fails, and what holds in its place: connecting sets*)
(* the counter back, so that a close always finds it at zero and the cap   *)
(* is out of reach.                                                        *)
(***************************************************************************)
CapIsOutOfReach == attempt <= 1 /\ (wsRef # None => attempt < MaxAttempts)

LossesAreRetried ==
    [][wsRef # None /\ wsRef' = None /\ mounted' => timers' = timers + 1]_vars

\* Whatever number of connections failed before, a page that loses its socket
\* sets a reconnect timer, and MAX_RECONNECT_ATTEMPTS is never reached
\* (connectWebSocket resets reconnectRef, onclose counts on from there).
THEOREM EveryLossIsRetried == Spec => []CapIsOutOfReach /\ LossesAreRetried
<1> DEFINE FewAttempts == SocketInv /\ attempt <= 1
<1>1. Init => FewAttempts
  BY InitSocketInv DEF Init
<1>2. FewAttempts /\ [Next]_vars => FewAttempts'
  <2> SUFFICES ASSUME SocketInv, attempt <= 1, [Next]_vars
               PROVE  attempt' <= 1
    BY NextSocketInv
  <2>1. CASE ConnectWebSocket
    BY <2>1, ConnectFacts DEF SocketInv
  <2>2. ASSUME NEW s \in Sockets, NEW failed \in BOOLEAN, Closes(s, failed)
        PROVE  attempt' <= 1
    <3>1. CASE attempt' = attempt
      BY <3>1
    <3>2. CASE Reconnect
      <4>1. wsRef # None => attempt = 0
        BY DEF SocketInv, Uncounted
      <4>2. CASE wsRef = s
        BY <2>2, <3>2, <4>1, <4>2, BoundsAreNumbers DEF Reconnect
      <4>3. CASE wsRef # s
        BY <2>2, <4>3 DEF Closes
      <4> QED
        BY <4>2, <4>3
    <3> QED
      BY <2>2, <3>1, <3>2 DEF Closes
  <2>3. CASE \E s \in Sockets : Opens(s)
    BY <2>3 DEF Opens
  <2> QED
    BY <2>1, <2>2, <2>3
    DEF Next, vars, socketVars, OpenTab, TimerFires, Unmount, StartsClosing, Receive,
        RequestHistory, HistoryArrives, Clear
<1>3. FewAttempts => CapIsOutOfReach
  <2> SUFFICES ASSUME SocketInv, attempt <= 1
               PROVE  CapIsOutOfReach
    OBVIOUS
  <2>1. wsRef # None => attempt = 0
    BY DEF SocketInv, Uncounted
  <2> QED
    BY <2>1, BoundsAreNumbers DEF CapIsOutOfReach
<1>4. SocketInv /\ [Next]_vars
        => (wsRef # None /\ wsRef' = None /\ mounted' => timers' = timers + 1)
  <2> SUFFICES ASSUME SocketInv, [Next]_vars, wsRef # None, wsRef' = None, mounted'
               PROVE  timers' = timers + 1
    OBVIOUS
  <2>1. CASE ConnectWebSocket
    BY <2>1, ConnectFacts DEF SocketInv
  <2>2. ASSUME NEW s \in Sockets, NEW failed \in BOOLEAN, Closes(s, failed)
        PROVE  timers' = timers + 1
    <3>1. attempt = 0
      BY DEF SocketInv, Uncounted
    <3>2. Reconnect
      BY <2>2 DEF Closes
    <3> QED
      BY <3>1, <3>2, BoundsAreNumbers DEF Reconnect
  <2> QED
    BY <2>1, <2>2
    DEF Next, vars, socketVars, OpenTab, TimerFires, Unmount, Opens, StartsClosing, Receive,
        RequestHistory, HistoryArrives, Clear
<1> HIDE DEF FewAttempts
<1>5. Spec => []FewAttempts
  BY <1>1, <1>2, PTL DEF Spec
<1>6. Spec => []SocketInv
  BY InitSocketInv, NextSocketInv, PTL DEF Spec
<1> QED
  BY <1>3, <1>4, <1>5, <1>6, PTL DEF Spec, LossesAreRetried

\* A page that was left, with no socket and no timer.
Abandoned == ~mounted /\ wsRef = None /\ timers = 0

\* A page that is left while no reconnect timer is pending, or whose timers
\* have all fired, never connects again; only a timer that was pending at the
\* unmount can bring the feed back (the clean-up effect cancels none).
THEOREM LeftPagesStayClosed ==
    Spec => [][(Unmount /\ timers = 0) \/ Abandoned => Abandoned']_vars
<1>1. [Next]_vars => ((Unmount /\ timers = 0) \/ Abandoned => Abandoned')
  <2> SUFFICES ASSUME [Next]_vars, (Unmount /\ timers = 0) \/ Abandoned
               PROVE  Abandoned'
    OBVIOUS
  <2>1. CASE Unmount /\ timers = 0
    BY <2>1 DEF Unmount, Abandoned
  <2>2. CASE Abandoned
    <3>1. ASSUME NEW s \in Sockets, NEW failed \in BOOLEAN, Closes(s, failed)
          PROVE  UNCHANGED <<mounted, wsRef, timers>>
      BY <2>2, <3>1, BoundsAreNumbers DEF Closes, Abandoned
    <3>2. UNCHANGED <<mounted, wsRef, timers>>
      BY <2>2, <3>1
      DEF Next, vars, socketVars, Abandoned, OpenTab, TimerFires, Unmount, Opens, StartsClosing,
          Receive, RequestHistory, HistoryArrives, Clear
    <3> QED
      BY <2>2, <3>2 DEF Abandoned
  <2> QED
    BY <2>1, <2>2
<1> QED
  BY <1>1, PTL DEF Spec
=============================================================================
