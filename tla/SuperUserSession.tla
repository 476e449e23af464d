-------------------------- MODULE SuperUserSession --------------------------
(***************************************************************************)
(* The super-user session of the configuration panel                       *)
(* (ClusterConfigPanel.tsx, SuperUserModal.tsx): the token and the session *)
(* flag, which belong to the page and outlive the panel, the panel's bar,  *)
(* its prompt, the action that waits for the prompt, and the 15-minute     *)
(* timers.  An answered login runs the closure of the render its prompt    *)
(* was submitted in: it knows the action that was pending then.            *)
(***************************************************************************)
EXTENDS Naturals, FiniteSets

CONSTANTS
    MaxActions,   \* bound: actions the user starts
    MaxLogins,    \* bound: passwords submitted
    MaxPanels     \* bound: times the panel is mounted

ASSUME SessionAssumption == {MaxActions, MaxLogins, MaxPanels} \subseteq Nat

None == 0

VARIABLES
    session,      \* the login that opened the session, None when _superUserSession is false
    panel,        \* the panel mounted last
    mounted,      \* whether it still is
    active,       \* superUserActive, what its bar says
    showAuth,     \* whether its prompt is open
    pending,      \* pendingAction
    asking,       \* the login the open prompt waits for ("loading")
    logins,       \* logins under way
    timers,       \* session timers set and neither fired nor cleared
    runs,         \* runs[a]: how often action a ran
    nextAction,
    nextLogin,
    dismissed,    \* logins that went on after their prompt was dismissed or replaced
    lockedAt,     \* nextLogin when the session was locked last
    strayed       \* whether a login was answered after its panel was gone

sessionVars == <<session, panel, mounted, active, showAuth, pending, asking, logins, timers,
                 runs, nextAction, nextLogin, dismissed, lockedAt, strayed>>
history     == <<nextAction, nextLogin, dismissed, lockedAt, strayed>>

Actions == 1..MaxActions
Logins  == 1..MaxLogins
Panels  == 1..MaxPanels
Login   == [id : Logins, panel : Panels, action : Actions \cup {None}]
Timer   == [panel : Panels, login : Logins]

SessionInit ==
    /\ session    = None
    /\ panel      = 0
    /\ mounted    = FALSE
    /\ active     = FALSE
    /\ showAuth   = FALSE
    /\ pending    = None
    /\ asking     = None
    /\ logins     = {}
    /\ timers     = {}
    /\ runs       = [a \in Actions |-> 0]
    /\ nextAction = 1
    /\ nextLogin  = 1
    /\ dismissed  = {}
    /\ lockedAt   = 1
    /\ strayed    = FALSE

\* Whether login l was submitted in the panel that is on the page now.
AtHome(l) == mounted /\ l.panel = panel

Ran(a) == IF a = None THEN runs ELSE [runs EXCEPT ![a] = @ + 1]
-----------------------------------------------------------------------------
(* Slips: what a definition would be after a plausible mistake in its code. *)

RestartedKeepingOld(l) == timers \cup {[panel |-> l.panel, login |-> l.id]}

ForgottenNever(l) == pending

LockBarOnly ==
    /\ mounted /\ active /\ ~showAuth
    /\ active'   = FALSE
    /\ timers'   = {t \in timers : t.panel # panel}
    /\ lockedAt' = nextLogin
    /\ UNCHANGED <<session, panel, mounted, showAuth, pending, asking, logins, runs, nextAction,
                   nextLogin, dismissed, strayed>>
-----------------------------------------------------------------------------
(* The panel *)

Mount ==
    /\ ~mounted /\ panel < MaxPanels
    /\ mounted' = TRUE
    /\ panel'   = panel + 1
    /\ UNCHANGED <<session, active, showAuth, pending, asking, logins, timers, runs, history>>

\* The clean-up effect clears the timer; the token and the session flag stay.
Unmount ==
    /\ mounted
    /\ mounted'   = FALSE
    /\ active'    = FALSE
    /\ showAuth'  = FALSE
    /\ pending'   = None
    /\ asking'    = None
    /\ timers'    = {t \in timers : t.panel # panel}
    /\ dismissed' = dismissed \cup {l \in logins : l.id = asking}
    /\ UNCHANGED <<session, panel, logins, runs, nextAction, nextLogin, lockedAt, strayed>>

\* requireAuth and withAuth, in a session: the action runs at once.
RunAtOnce ==
    /\ mounted /\ ~showAuth /\ nextAction <= MaxActions
    /\ session # None
    /\ runs'       = Ran(nextAction)
    /\ nextAction' = nextAction + 1
    /\ UNCHANGED <<session, panel, mounted, active, showAuth, pending, asking, logins, timers,
                   nextLogin, dismissed, lockedAt, strayed>>

\* requireAuth and withAuth, without a session: the action waits for the prompt.
AskFirst ==
    /\ mounted /\ ~showAuth /\ nextAction <= MaxActions
    /\ session = None
    /\ pending'    = nextAction
    /\ showAuth'   = TRUE
    /\ nextAction' = nextAction + 1
    /\ UNCHANGED <<session, panel, mounted, active, asking, logins, timers, runs, nextLogin,
                   dismissed, lockedAt, strayed>>

\* The button Unlock of the bar; a pending action stays as it is.
Unlock ==
    /\ mounted /\ ~active /\ ~showAuth
    /\ showAuth' = TRUE
    /\ UNCHANGED <<session, panel, mounted, active, pending, asking, logins, timers, runs, history>>

\* The button Lock of the bar; a pending action stays as it is.
Lock ==
    /\ mounted /\ active /\ ~showAuth
    /\ session'  = None
    /\ active'   = FALSE
    /\ timers'   = {t \in timers : t.panel # panel}
    /\ lockedAt' = nextLogin
    /\ UNCHANGED <<panel, mounted, showAuth, pending, asking, logins, runs, nextAction,
                   nextLogin, dismissed, strayed>>
-----------------------------------------------------------------------------
(* The prompt *)

\* handleSubmit: the button is disabled while a login of this prompt is under way.
Submit ==
    /\ showAuth /\ asking = None /\ nextLogin <= MaxLogins
    /\ logins'    = logins \cup {[id |-> nextLogin, panel |-> panel, action |-> pending]}
    /\ asking'    = nextLogin
    /\ nextLogin' = nextLogin + 1
    /\ UNCHANGED <<session, panel, mounted, active, showAuth, pending, timers, runs, nextAction,
                   dismissed, lockedAt, strayed>>

\* handleAuthCancel, by a click beside the prompt: also while a login is under
\* way, which goes on, and the pending action stays.
Dismiss ==
    /\ showAuth
    /\ showAuth'  = FALSE
    /\ asking'    = None
    /\ dismissed' = dismissed \cup {l \in logins : l.id = asking}
    /\ UNCHANGED <<session, panel, mounted, active, pending, logins, timers, runs, nextAction,
                   nextLogin, lockedAt, strayed>>

\* clearTimeout, then setTimeout, on the ref of the login's panel.
Restarted(l) ==
    {t \in timers : t.panel # l.panel} \cup {[panel |-> l.panel, login |-> l.id]}

\* setPendingAction(null), when there was an action to run.
Forgotten(l) == IF l.action # None /\ AtHome(l) THEN None ELSE pending

\* handleAuthenticated: the page gets its session, and the action that was
\* pending at the submission runs.  Where the panel is gone, its part is lost.
LoginSucceeds(l) ==
    /\ l \in logins
    /\ logins'    = logins \ {l}
    /\ session'   = l.id
    /\ timers'    = Restarted(l)
    /\ runs'      = Ran(l.action)
    /\ pending'   = Forgotten(l)
    /\ active'    = (active \/ AtHome(l))
    /\ showAuth'  = (showAuth /\ ~AtHome(l))
    /\ asking'    = IF AtHome(l) THEN None ELSE asking
    /\ dismissed' = dismissed \cup {k \in logins : AtHome(l) /\ k.id = asking /\ k # l}
    /\ strayed'   = (strayed \/ ~AtHome(l))
    /\ UNCHANGED <<panel, mounted, nextAction, nextLogin, lockedAt>>

\* A wrong password, too many attempts, or no answer: the prompt shows it.
LoginFails(l) ==
    /\ l \in logins
    /\ logins'    = logins \ {l}
    /\ dismissed' = dismissed \ {l}
    /\ asking'    = IF asking = l.id THEN None ELSE asking
    /\ UNCHANGED <<session, panel, mounted, active, showAuth, pending, timers, runs, nextAction,
                   nextLogin, lockedAt, strayed>>

\* The 15 minutes of a login are over.
TimerFires(t) ==
    /\ t \in timers
    /\ timers'  = timers \ {t}
    /\ session' = None
    /\ active'  = (active /\ ~AtHome(t))
    /\ UNCHANGED <<panel, mounted, showAuth, pending, asking, logins, runs, history>>

SessionNext ==
    \/ Mount \/ Unmount \/ RunAtOnce \/ AskFirst \/ Unlock \/ Lock \/ Submit \/ Dismiss
    \/ \E l \in logins : LoginSucceeds(l) \/ LoginFails(l)
    \/ \E t \in timers : TimerFires(t)

SessionSpec == SessionInit /\ [][SessionNext]_sessionVars
-----------------------------------------------------------------------------
SessionTypeOK ==
    /\ session \in Logins \cup {None}
    /\ panel \in 0..MaxPanels
    /\ mounted \in BOOLEAN
    /\ active \in BOOLEAN
    /\ showAuth \in BOOLEAN
    /\ pending \in Actions \cup {None}
    /\ asking \in Logins \cup {None}
    /\ logins \subseteq Login
    /\ timers \subseteq Timer
    /\ runs \in [Actions -> Nat]
    /\ nextAction \in 1..(MaxActions + 1)
    /\ nextLogin \in 1..(MaxLogins + 1)
    /\ dismissed \subseteq Login
    /\ lockedAt \in 1..(MaxLogins + 1)
    /\ strayed \in BOOLEAN

\* However prompts, late logins and tab changes interleave, an action the user
\* started once runs once.  Only a login that goes on after its prompt was
\* dismissed or replaced may run it again, and each such login at most once.
RunsOnce ==
    \A a \in Actions : runs[a] <= 1 + Cardinality({l \in dismissed : l.action = a})

\* While the bar says "Super User Active" there is a session, and its one timer,
\* of the login that opened it, is set: no older timer ends it early and it does
\* not stay for ever.  A login that is answered after its panel was left spoils
\* this for the next panel, which does not know its timer.
ActiveBarIsTimed ==
    active /\ ~strayed =>
        /\ session # None
        /\ timers = {[panel |-> panel, login |-> session]}

\* Lock is final: a session that is open now was opened by a login submitted
\* after the last Lock, or by one whose prompt was dismissed while it was under
\* way.
LockIsFinal ==
    session # None => session >= lockedAt \/ \E l \in dismissed : l.id = session
=============================================================================
