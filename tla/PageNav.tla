------------------------------ MODULE PageNav ------------------------------
(***************************************************************************)
(* Moving about in the page (App.tsx, SecuritySection.tsx, ToolsSection.tsx*)
(* DashboardPanel.tsx, ErrorBoundary.tsx): the active tab, which survives  *)
(* a reload, the section it belongs to, the views of the sections, which   *)
(* do not touch the tab, and what hangs on the tab: the stream of alerts   *)
(* and the subscriptions of the panels (useTabSubscription).  The threat   *)
(* panel (ThreatPanel.tsx) with its pause is a part of it.                 *)
(***************************************************************************)
EXTENDS Naturals, Sequences

CONSTANT MaxAlerts   \* alerts the list may hold

ASSUME PageAssumption == MaxAlerts \in Nat

VARIABLES
    tab,          \* activeTab, and the item of the local storage
    sub,          \* sub[s]: activeView of section s
    streaming,    \* whether this page called connectWebSocket
    subscribed,   \* tabs whose subscription fetched since the page was loaded
    failed,       \* the panel whose error the boundary shows, or none
    alerts,       \* how many alerts are listed
    paused,
    snapshot      \* pausedSnapshot: how many alerts it holds, or none

pageVars   == <<tab, sub, streaming, subscribed, failed, alerts, paused, snapshot>>
threatVars == <<paused, snapshot>>

Sections == <<"overview", "network", "security", "tools">>
NoPanel  == "none"
Absent   == MaxAlerts + 1

\* activeSection
Section(t) ==
    CASE t \in {"cni-health", "ipam", "topology", "policies"} -> "network"
      [] t \in {"threats", "security"}                        -> "security"
      [] t \in {"diagnostics", "config"}                      -> "tools"
      [] OTHER                                                -> "overview"

\* handleSectionClick: the tab a section opens with.
Default == [overview |-> "dashboard", network |-> "cni-health",
            security |-> "threats", tools |-> "diagnostics"]

\* The panels of each section, the first of them at first.
PanelsOf == [overview |-> <<"dashboard">>,
             network  |-> <<"cni-health", "ipam", "topology", "endpoints", "policies">>,
             security |-> <<"threats", "audit">>,
             tools    |-> <<"diagnostics", "configure">>]

FirstViews == [s \in DOMAIN PanelsOf |-> PanelsOf[s][1]]

\* The tab whose fetch a panel subscribes to; the policies start with their
\* definitions, which subscribe to nothing.
Subscription == [p \in {"dashboard", "cni-health", "topology", "endpoints", "threats", "audit"} |->
                    IF p = "endpoints" THEN "policies" ELSE IF p = "audit" THEN "security" ELSE p]

\* The panel on the page: the one of the active section, or an error in its place.
PanelAt(t, views, error) == IF error # NoPanel THEN NoPanel ELSE views[Section(t)]
Panel == PanelAt(tab, sub, failed)

PageInit ==
    /\ tab = "dashboard"
    /\ sub = FirstViews
    /\ streaming = FALSE
    /\ subscribed = {"dashboard"}
    /\ failed = NoPanel
    /\ alerts = 0
    /\ paused = FALSE /\ snapshot = Absent
-----------------------------------------------------------------------------
(* Rendering *)

\* The page shows tab t with these views: a panel that is there now and whose tab
\* is active fetches; one that has gone loses its state.
ShowPage(t, views, error) ==
    /\ tab'    = t
    /\ sub'    = views
    /\ failed' = error
    /\ LET panel == PanelAt(t, views, error)
       IN  /\ subscribed' = subscribed \cup
                 (IF panel \in DOMAIN Subscription /\ Subscription[panel] = t THEN {t} ELSE {})
           /\ IF panel = "threats" /\ Panel = "threats"
              THEN UNCHANGED threatVars
              ELSE paused' = FALSE /\ snapshot' = Absent

\* The effect of App: the tab "threats" asks for the stream, whichever panel shows.
StreamAsked(t) == streaming \/ t = "threats"

\* setActiveTab: another section is mounted anew, the same one stays as it is.
Activate(t) ==
    /\ ShowPage(t, IF Section(t) = Section(tab) THEN sub ELSE FirstViews, failed)
    /\ streaming' = StreamAsked(t)
    /\ UNCHANGED alerts
-----------------------------------------------------------------------------
(* Slips: what a definition would be after a plausible mistake in its code. *)

\* The effect waits for the tab to change and sleeps through the first render.
ReloadedWithoutEffect == FALSE
-----------------------------------------------------------------------------
(* The user *)

\* handleSectionClick
ClickSection(s) == Activate(Default[s])

\* handleSidebarKeyDown: from the active section, around the ends.
ArrowKey(n) ==
    LET i == CHOOSE k \in DOMAIN Sections : Sections[k] = Section(tab)
    IN  Activate(Default[Sections[((i - 1 + n) % Len(Sections)) + 1]])

\* handleCardClick: three cards name a section where a tab is meant; the card of
\* the threats is there with them, that of the topology always.
ClickCard(t) ==
    /\ Panel = "dashboard"
    /\ t \in {"cni-health", "network"} \/ (t = "security" /\ alerts > 0)
    /\ Activate(t)

\* A button of the sub-navigation of the section on the page; the overview has none.
ChooseView(view) ==
    /\ failed = NoPanel /\ Section(tab) # "overview"
    /\ \E i \in DOMAIN PanelsOf[Section(tab)] : PanelsOf[Section(tab)][i] = view
    /\ ShowPage(tab, [sub EXCEPT ![Section(tab)] = view], failed)
    /\ UNCHANGED <<streaming, alerts>>

\* A panel throws as it renders: all sections give way to the error.
PanelThrows ==
    /\ failed = NoPanel
    /\ ShowPage(tab, sub, Panel)
    /\ UNCHANGED <<streaming, alerts>>

\* handleReload: the section, whichever is active by then, is mounted anew.
TryAgain ==
    /\ failed # NoPanel
    /\ ShowPage(tab, FirstViews, NoPanel)
    /\ UNCHANGED <<streaming, alerts>>

\* What the first render after a reload asks for.
ReloadedStream == tab = "threats"

\* The browser loads the page again: only the tab is kept.
ReloadPage ==
    /\ sub' = FirstViews
    /\ failed' = NoPanel
    /\ streaming' = ReloadedStream
    /\ subscribed' = LET panel == FirstViews[Section(tab)]
                     IN  IF panel \in DOMAIN Subscription /\ Subscription[panel] = tab
                         THEN {tab} ELSE {}
    /\ alerts' = 0
    /\ paused' = FALSE /\ snapshot' = Absent
    /\ UNCHANGED tab
-----------------------------------------------------------------------------
(* Alerts *)

\* Alerts come by the stream, once it was asked for, or by a fetch of the history:
\* the subscription of the panel, or the refresh button of the top bar.
AlertsCome ==
    /\ alerts' \in (alerts + 1)..MaxAlerts
    /\ UNCHANGED <<tab, sub, streaming, subscribed, failed, threatVars>>

\* handlePauseToggle
TogglePause ==
    /\ Panel = "threats"
    /\ paused'   = ~paused
    /\ snapshot' = IF paused THEN snapshot ELSE alerts
    /\ UNCHANGED <<tab, sub, streaming, subscribed, failed, alerts>>

\* handleClear
ClearThreats ==
    /\ Panel = "threats"
    /\ paused' = FALSE /\ snapshot' = Absent
    /\ alerts' = 0
    /\ UNCHANGED <<tab, sub, streaming, subscribed, failed>>

PageNext ==
    \/ \E i \in DOMAIN Sections : ClickSection(Sections[i])
    \/ \E n \in {1, Len(Sections) - 1} : ArrowKey(n)
    \/ \E t \in {"cni-health", "network", "security"} : ClickCard(t)
    \/ \E s \in DOMAIN PanelsOf : \E i \in DOMAIN PanelsOf[s] : ChooseView(PanelsOf[s][i])
    \/ PanelThrows \/ TryAgain \/ ReloadPage
    \/ AlertsCome \/ TogglePause \/ ClearThreats

PageSpec == PageInit /\ [][PageNext]_pageVars
-----------------------------------------------------------------------------
\* Tabs that only a card of the dashboard makes active: names of sections.
CardTabs == {"network", "security"}

\* The section on the page shows the panel it opens with.
OpensAsItShould == failed = NoPanel /\ sub[Section(tab)] = FirstViews[Section(tab)]

\* In whatever order the user takes the sidebar, the arrow keys, a card, a button of
\* the sub-navigation, a reload and the way back from an error: a section that opens
\* with its first panel has the data of that panel and, for the threats, the stream,
\* unless a card put the name of a section where a tab is meant.  And no pause
\* outlives the panel that it was set in, to hide alerts when the user comes back.
SectionsOpenFed ==
    /\ tab \notin CardTabs /\ OpensAsItShould =>
          /\ Panel \in DOMAIN Subscription => Subscription[Panel] \in subscribed
          /\ Panel = "threats" => streaming
    /\ paused \/ snapshot # Absent => Panel = "threats"

\* "Each panel calls this on mount to subscribe to its supplementary data"
\* (DashboardContext.tsx:85): a panel on the page has fetched its data.
PanelsSubscribe ==
    Panel \in DOMAIN Subscription => Subscription[Panel] \in subscribed
=============================================================================
