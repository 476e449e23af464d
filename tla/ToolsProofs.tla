---------------------------- MODULE ToolsProofs ----------------------------
(***************************************************************************)
(* The tools of the page, which share no state.  The configuration panel:  *)
(* its super-user session, for any number of actions, logins and visits of *)
(* the panel, and its editors, for any objects, types and number of saves. *)
(* The assistant, for any number of questions, any length of the context   *)
(* and any number of tool calls and rounds.  The connectivity tests, for   *)
(* any targets, ports, tests and seconds that the endpoint waits.          *)
(***************************************************************************)
EXTENDS SuperUserSession, ConfigForms, AiChat, Diagnostics, FiniteSetTheorems, SequenceTheorems,
        TLAPS

-----------------------------------------------------------------------------
(* The session.                                                            *)

LEMMA BoundsAreNumbers == MaxActions \in Nat /\ MaxLogins \in Nat /\ MaxPanels \in Nat
  BY SessionAssumption

\* A bar and a prompt are those of a panel that is on the page.
OnThePage ==
    /\ mounted => panel \in Panels
    /\ active \/ showAuth => mounted

SessionTyped == SessionTypeOK /\ OnThePage

LEMMA InitTyped == SessionInit => SessionTyped
<1> SUFFICES ASSUME SessionInit PROVE SessionTyped
  OBVIOUS
<1>1. 0 \in 0..MaxPanels /\ 1 \in 1..(MaxActions + 1) /\ 1 \in 1..(MaxLogins + 1)
  BY BoundsAreNumbers
<1>2. runs \in [Actions -> Nat]
  BY DEF SessionInit
<1> QED
  BY <1>1, <1>2 DEF SessionInit, SessionTypeOK, SessionTyped, OnThePage

\* What a login leads to, whatever its panel.
LEMMA AnswerTypeOK ==
    ASSUME SessionTypeOK, NEW l \in logins
    PROVE  /\ l \in Login /\ l.id \in Logins
           /\ Restarted(l) \subseteq Timer
           /\ Ran(l.action) \in [Actions -> Nat]
           /\ Forgotten(l) \in Actions \cup {None}
<1>1. l \in Login /\ l.id \in Logins /\ l.panel \in Panels
  BY DEF SessionTypeOK, Login
<1>2. [panel |-> l.panel, login |-> l.id] \in Timer
  BY <1>1 DEF Timer
<1>3. Ran(l.action) \in [Actions -> Nat]
  BY <1>1 DEF Ran, SessionTypeOK, Login
<1> QED
  BY <1>1, <1>2, <1>3 DEF SessionTypeOK, Restarted, Forgotten

LEMMA NextTyped == SessionTyped /\ [SessionNext]_sessionVars => SessionTyped'
<1> SUFFICES ASSUME SessionTyped, [SessionNext]_sessionVars PROVE SessionTyped'
  OBVIOUS
<1> USE DEF SessionTyped, SessionTypeOK, OnThePage, Panels, history
<1>1. CASE Mount
  BY BoundsAreNumbers, <1>1 DEF Mount
<1>2. CASE Unmount
  BY <1>2 DEF Unmount
<1>3. CASE RunAtOnce
  BY BoundsAreNumbers, <1>3 DEF RunAtOnce, Ran, Actions
<1>4. CASE AskFirst
  BY BoundsAreNumbers, <1>4 DEF AskFirst, Actions
<1>5. CASE Unlock
  BY <1>5 DEF Unlock
<1>6. CASE Lock
  BY <1>6 DEF Lock
<1>7. CASE Submit
  <2>1. panel \in Panels
    BY <1>7 DEF Submit
  <2> QED
    BY BoundsAreNumbers, <1>7, <2>1 DEF Submit, Login, Logins
<1>8. CASE Dismiss
  BY <1>8 DEF Dismiss
<1>9. ASSUME NEW l \in logins, LoginSucceeds(l)
      PROVE  SessionTyped'
  BY <1>9, AnswerTypeOK DEF LoginSucceeds, AtHome
<1>10. ASSUME NEW l \in logins, LoginFails(l)
       PROVE  SessionTyped'
  BY <1>10 DEF LoginFails
<1>11. ASSUME NEW t \in timers, TimerFires(t)
       PROVE  SessionTyped'
  BY <1>11 DEF TimerFires
<1>12. CASE UNCHANGED sessionVars
  BY <1>12 DEF sessionVars
<1> QED
  BY <1>1, <1>2, <1>3, <1>4, <1>5, <1>6, <1>7, <1>8, <1>9, <1>10, <1>11, <1>12 DEF SessionNext

\* The state of the page's session is always of its type (ClusterConfigPanel).
THEOREM SessionTypeCorrect == SessionSpec => []SessionTypeOK
<1>1. SessionTyped => SessionTypeOK
  BY DEF SessionTyped
<1> QED
  BY <1>1, InitTyped, NextTyped, PTL DEF SessionSpec

-----------------------------------------------------------------------------
(***************************************************************************)
(* Lock.  What is inductive beside the property: a login that is under way *)
(* is the one its prompt waits for, on the page and submitted after the    *)
(* last Lock, or its prompt was dismissed; and no number is used twice.    *)
(***************************************************************************)
Numbered ==
    /\ session < nextLogin /\ lockedAt <= nextLogin
    /\ \A l \in logins \cup dismissed : l.id < nextLogin
    /\ \A l \in logins : l.id # session
    /\ \A k, l \in logins : k.id = l.id => k = l

Awaited ==
    /\ asking # None => showAuth /\ asking >= lockedAt
    /\ \A l \in logins : l \in dismissed \/ (l.id = asking /\ AtHome(l))

Orderly == SessionTyped /\ Numbered /\ Awaited

LEMMA NextOrderly ==
    ASSUME Orderly, LockIsFinal, [SessionNext]_sessionVars
    PROVE  Numbered' /\ Awaited' /\ LockIsFinal'
<1>0. /\ nextLogin \in Nat /\ lockedAt \in Nat /\ session \in Nat /\ asking \in Nat
      /\ nextLogin >= 1 /\ lockedAt >= 1 /\ None = 0
      /\ \A l \in logins \cup dismissed : l.id \in Nat /\ l.id >= 1
  BY BoundsAreNumbers DEF Orderly, SessionTyped, SessionTypeOK, Login, Logins, None
<1>00. showAuth => mounted
  BY DEF Orderly, SessionTyped, OnThePage
<1> USE <1>0, <1>00 DEF Orderly, Numbered, Awaited, LockIsFinal, AtHome, history
<1>1. CASE Mount
  BY <1>1 DEF Mount
<1>2. CASE Unmount
  BY <1>2 DEF Unmount
<1>3. CASE RunAtOnce
  BY <1>3 DEF RunAtOnce
<1>4. CASE AskFirst
  BY <1>4 DEF AskFirst
<1>5. CASE Unlock
  BY <1>5 DEF Unlock
<1>6. CASE Lock
  BY <1>6 DEF Lock
<1>7. CASE Submit
  <2> DEFINE new == [id |-> nextLogin, panel |-> panel, action |-> pending]
  <2>1. /\ logins' = logins \cup {new} /\ new.id = nextLogin /\ new.panel = panel
        /\ asking' = nextLogin /\ nextLogin' = nextLogin + 1 /\ asking = None /\ showAuth
        /\ UNCHANGED <<session, panel, mounted, showAuth, dismissed, lockedAt>>
    BY <1>7 DEF Submit
  <2> HIDE DEF new
  <2> QED
    BY <2>1
<1>8. CASE Dismiss
  BY <1>8 DEF Dismiss
<1>9. ASSUME NEW l \in logins, LoginSucceeds(l)
      PROVE  Numbered' /\ Awaited' /\ LockIsFinal'
  BY <1>9 DEF LoginSucceeds
<1>10. ASSUME NEW l \in logins, LoginFails(l)
       PROVE  Numbered' /\ Awaited' /\ LockIsFinal'
  BY <1>10 DEF LoginFails
<1>11. ASSUME NEW t \in timers, TimerFires(t)
       PROVE  Numbered' /\ Awaited' /\ LockIsFinal'
  BY <1>11 DEF TimerFires
<1>12. CASE UNCHANGED sessionVars
  BY <1>12 DEF sessionVars
<1> QED
  BY <1>1, <1>2, <1>3, <1>4, <1>5, <1>6, <1>7, <1>8, <1>9, <1>10, <1>11, <1>12 DEF SessionNext

LEMMA InitOrderly == SessionInit => Orderly /\ LockIsFinal
  BY InitTyped DEF SessionInit, Orderly, Numbered, Awaited, LockIsFinal, None

LEMMA AlwaysOrderly == SessionSpec => [](Orderly /\ LockIsFinal)
<1>1. (Orderly /\ LockIsFinal) /\ [SessionNext]_sessionVars => (Orderly /\ LockIsFinal)'
  BY NextTyped, NextOrderly DEF Orderly
<1> QED
  BY <1>1, InitOrderly, PTL DEF SessionSpec

\* Lock is final: no session is open that a login before the last Lock opened,
\* but for a login that went on after its prompt was dismissed (handleLock,
\* handleAuthCancel, handleAuthenticated).
THEOREM LockEndsTheSession == SessionSpec => []LockIsFinal
  BY AlwaysOrderly, PTL

-----------------------------------------------------------------------------
(***************************************************************************)
(* The bar and its timer.  What is inductive beside the property: while no *)
(* login was answered after its panel was gone, every timer is one of the  *)
(* panel on the page.                                                      *)
(***************************************************************************)
TimersAtHome == ~strayed => \A t \in timers : AtHome(t)

LEMMA NextTimed ==
    ASSUME SessionTyped, ActiveBarIsTimed, TimersAtHome, [SessionNext]_sessionVars
    PROVE  ActiveBarIsTimed' /\ TimersAtHome'
<1>0. active => mounted
  BY DEF SessionTyped, OnThePage
<1> USE <1>0 DEF ActiveBarIsTimed, TimersAtHome, AtHome, history
<1>1. CASE Mount
  BY <1>1 DEF Mount
<1>2. CASE Unmount
  BY <1>2 DEF Unmount
<1>3. CASE RunAtOnce
  BY <1>3 DEF RunAtOnce
<1>4. CASE AskFirst
  BY <1>4 DEF AskFirst
<1>5. CASE Unlock
  BY <1>5 DEF Unlock
<1>6. CASE Lock
  BY <1>6 DEF Lock
<1>7. CASE Submit
  BY <1>7 DEF Submit
<1>8. CASE Dismiss
  BY <1>8 DEF Dismiss
<1>9. ASSUME NEW l \in logins, LoginSucceeds(l)
      PROVE  ActiveBarIsTimed' /\ TimersAtHome'
  <2>1. l.id # None
    BY DEF SessionTyped, SessionTypeOK, Login, Logins, None
  <2>2. CASE strayed \/ ~AtHome(l)
    BY <1>9, <2>2 DEF LoginSucceeds
  <2>3. CASE ~strayed /\ AtHome(l)
    <3>1. timers' = {[panel |-> panel, login |-> l.id]}
      BY <1>9, <2>3 DEF LoginSucceeds, Restarted
    <3> QED
      BY <1>9, <2>1, <2>3, <3>1 DEF LoginSucceeds
  <2> QED
    BY <2>2, <2>3
<1>10. ASSUME NEW l \in logins, LoginFails(l)
       PROVE  ActiveBarIsTimed' /\ TimersAtHome'
  BY <1>10 DEF LoginFails
<1>11. ASSUME NEW t \in timers, TimerFires(t)
       PROVE  ActiveBarIsTimed' /\ TimersAtHome'
  BY <1>11 DEF TimerFires
<1>12. CASE UNCHANGED sessionVars
  BY <1>12 DEF sessionVars
<1> QED
  BY <1>1, <1>2, <1>3, <1>4, <1>5, <1>6, <1>7, <1>8, <1>9, <1>10, <1>11, <1>12 DEF SessionNext

\* While the bar says "Super User Active" the session is open and its own timer
\* is the only one, as long as no login was answered after its panel was left
\* (startSessionTimer, the clean-up effect).
THEOREM BarIsTimed == SessionSpec => []ActiveBarIsTimed
<1>1. SessionInit => ActiveBarIsTimed /\ TimersAtHome
  BY DEF SessionInit, ActiveBarIsTimed, TimersAtHome
<1>2. SessionTyped /\ ActiveBarIsTimed /\ TimersAtHome /\ [SessionNext]_sessionVars
          => SessionTyped' /\ ActiveBarIsTimed' /\ TimersAtHome'
  BY NextTyped, NextTimed
<1> QED
  BY <1>1, <1>2, InitTyped, PTL DEF SessionSpec

-----------------------------------------------------------------------------
(***************************************************************************)
(* An action runs once.  What is inductive beside the property: each run   *)
(* but one is paid for by a login that was answered after its prompt was   *)
(* dismissed, and while an action waits, in the panel or with the login    *)
(* the prompt waits for, each of its runs is.                              *)
(***************************************************************************)
Strays(a) == {l \in dismissed \ logins : l.action = a}

Waiting(a) == pending = a \/ \E l \in logins : l.id = asking /\ l.action = a

Started ==
    /\ IsFiniteSet(dismissed) /\ IsFiniteSet(logins)
    /\ pending < nextAction
    /\ \A l \in logins : l.action < nextAction

RunsPaid ==
    \A a \in Actions :
        /\ runs[a] <= 1 + Cardinality(Strays(a))
        /\ Waiting(a) => runs[a] <= Cardinality(Strays(a))
        /\ a >= nextAction => runs[a] = 0

StraysCounted == \A a \in Actions : IsFiniteSet(Strays(a)) /\ Cardinality(Strays(a)) \in Nat

LEMMA NextStarted ==
    ASSUME Orderly, Started, [SessionNext]_sessionVars
    PROVE  Started' /\ StraysCounted'
<1>0. /\ nextAction \in Nat /\ nextAction >= 1 /\ None = 0 /\ pending \in Nat
      /\ \A l \in logins : l.action \in Nat
  BY BoundsAreNumbers DEF Orderly, SessionTyped, SessionTypeOK, Login, Actions, None
<1>1. IsFiniteSet(logins')
  <2>1. CASE Submit
    <3>1. IsFiniteSet({[id |-> nextLogin, panel |-> panel, action |-> pending]})
      BY FS_Singleton
    <3> QED
      BY <2>1, <3>1, FS_Union DEF Submit, Started
  <2>2. CASE logins' \subseteq logins
    BY <2>2, FS_Subset DEF Started
  <2> QED
    BY <2>1, <2>2
    DEF SessionNext, sessionVars, history, Mount, Unmount, RunAtOnce, AskFirst, Unlock, Lock,
        Dismiss, LoginSucceeds, LoginFails, TimerFires
<1>2. IsFiniteSet(dismissed')
  <2>1. dismissed' \subseteq dismissed \cup logins
    BY DEF SessionNext, sessionVars, history, Mount, Unmount, RunAtOnce, AskFirst, Unlock, Lock,
           Submit, Dismiss, LoginSucceeds, LoginFails, TimerFires
  <2>2. IsFiniteSet(dismissed \cup logins)
    BY FS_Union DEF Started
  <2> QED
    BY <2>1, <2>2, FS_Subset
<1>3. pending' < nextAction' /\ \A l \in logins' : l.action < nextAction'
  <2>1. CASE Submit
    <3> DEFINE new == [id |-> nextLogin, panel |-> panel, action |-> pending]
    <3>1. /\ logins' = logins \cup {new} /\ new.action = pending
          /\ UNCHANGED <<pending, nextAction>>
      BY <2>1 DEF Submit
    <3> HIDE DEF new
    <3> QED
      BY <3>1 DEF Started
  <2>2. CASE ~Submit
    <3>1. /\ logins' \subseteq logins
          /\ nextAction' \in {nextAction, nextAction + 1}
          /\ pending' \in {pending, None} \/ (pending' = nextAction /\ nextAction' = nextAction + 1)
      BY <2>2 DEF SessionNext, sessionVars, history, Mount, Unmount, RunAtOnce, AskFirst, Unlock,
                  Lock, Dismiss, LoginSucceeds, Forgotten, LoginFails, TimerFires
    <3> QED
      BY <1>0, <3>1 DEF Started
  <2> QED
    BY <2>1, <2>2
<1>4. StraysCounted'
  <2> SUFFICES ASSUME NEW a \in Actions
               PROVE  IsFiniteSet(Strays(a)') /\ Cardinality(Strays(a)') \in Nat
    BY DEF StraysCounted
  <2>1. Strays(a)' \subseteq dismissed'
    BY DEF Strays
  <2>2. IsFiniteSet(Strays(a)')
    BY <1>2, <2>1, FS_Subset
  <2> QED
    BY <2>2, FS_CardinalityType
<1> QED
  BY <1>1, <1>2, <1>3, <1>4 DEF Started

\* A step that runs nothing and lets nothing new wait leaves the account as it is.
LEMMA QuietStep ==
    ASSUME RunsPaid, StraysCounted, StraysCounted', SessionTyped,
           UNCHANGED <<runs, nextAction>>,
           \A a \in Actions : Strays(a) \subseteq Strays(a)' /\ (Waiting(a)' => Waiting(a))
    PROVE  RunsPaid'
<1> SUFFICES ASSUME NEW a \in Actions
             PROVE  /\ runs'[a] <= 1 + Cardinality(Strays(a)')
                    /\ Waiting(a)' => runs'[a] <= Cardinality(Strays(a)')
                    /\ a >= nextAction' => runs'[a] = 0
  BY DEF RunsPaid
<1>1. Cardinality(Strays(a)) <= Cardinality(Strays(a)')
  BY FS_Subset DEF StraysCounted
<1>2. /\ Cardinality(Strays(a)) \in Nat /\ Cardinality(Strays(a)') \in Nat
      /\ runs[a] \in Nat
  BY DEF StraysCounted, SessionTyped, SessionTypeOK
<1> QED
  BY <1>1, <1>2 DEF RunsPaid

LEMMA SuccessPaid ==
    ASSUME Orderly, Started, StraysCounted, StraysCounted', RunsPaid,
           NEW l \in logins, LoginSucceeds(l)
    PROVE  RunsPaid'
<1> SUFFICES ASSUME NEW a \in Actions
             PROVE  /\ runs'[a] <= 1 + Cardinality(Strays(a)')
                    /\ Waiting(a)' => runs'[a] <= Cardinality(Strays(a)')
                    /\ a >= nextAction' => runs'[a] = 0
  BY DEF RunsPaid
<1>1. /\ Cardinality(Strays(a)) \in Nat /\ Cardinality(Strays(a)') \in Nat
      /\ runs[a] \in Nat /\ nextAction \in Nat /\ a \in Nat /\ a # None
      /\ l.action \in Actions \cup {None} /\ l.action \in Nat /\ l.id # None
  BY BoundsAreNumbers
  DEF StraysCounted, Orderly, SessionTyped, SessionTypeOK, Login, Logins, Actions, None
<1>2. nextAction' = nextAction /\ (a >= nextAction => l.action # a)
  BY <1>1 DEF LoginSucceeds, Started
<1>3. Strays(a) \subseteq Strays(a)'
  BY DEF LoginSucceeds, Strays
<1>4. Cardinality(Strays(a)) <= Cardinality(Strays(a)')
  BY <1>3, FS_Subset DEF StraysCounted
<1>5. Waiting(a)' => Waiting(a)
  <2>1. /\ pending' \in {pending, None} /\ asking' \in {asking, None} /\ logins' \subseteq logins
    BY DEF LoginSucceeds, Forgotten
  <2>2. \A k \in logins : k.id # None
    BY DEF Orderly, SessionTyped, SessionTypeOK, Login, Logins, None
  <2> QED
    BY <1>1, <2>1, <2>2 DEF Waiting
<1>6. CASE l.action # a
  <2>1. runs'[a] = runs[a]
    BY <1>1, <1>6 DEF LoginSucceeds, Ran, Orderly, SessionTyped, SessionTypeOK
  <2> QED
    BY <1>1, <1>2, <1>4, <1>5, <2>1 DEF RunsPaid
<1>7. CASE l.action = a
  <2>1. runs'[a] = runs[a] + 1
    BY <1>1, <1>7 DEF LoginSucceeds, Ran, Orderly, SessionTyped, SessionTypeOK
  <2>2. CASE l \in dismissed
    <3>1. l \notin Strays(a) /\ Strays(a) \cup {l} \subseteq Strays(a)'
      BY <1>3, <1>7, <2>2 DEF LoginSucceeds, Strays
    <3>2. /\ IsFiniteSet(Strays(a) \cup {l})
          /\ Cardinality(Strays(a) \cup {l}) = Cardinality(Strays(a)) + 1
      BY <3>1, FS_AddElement DEF StraysCounted
    <3>3. Cardinality(Strays(a)) + 1 <= Cardinality(Strays(a)')
      BY <3>1, <3>2, FS_Subset DEF StraysCounted
    <3> QED
      BY <1>1, <1>2, <1>5, <1>7, <2>1, <3>3 DEF RunsPaid
  <2>3. CASE l \notin dismissed
    <3>1. l.id = asking /\ AtHome(l)
      BY <2>3 DEF Orderly, Awaited
    <3>2. runs[a] <= Cardinality(Strays(a))
      BY <1>7, <3>1 DEF RunsPaid, Waiting
    <3>3. ~Waiting(a)'
      <4>1. pending' = None /\ asking' = None /\ logins' \subseteq logins
        BY <1>1, <1>7, <3>1 DEF LoginSucceeds, Forgotten
      <4>2. \A k \in logins : k.id # None
        BY DEF Orderly, SessionTyped, SessionTypeOK, Login, Logins, None
      <4> QED
        BY <1>1, <4>1, <4>2 DEF Waiting
    <3> QED
      BY <1>1, <1>2, <1>4, <1>7, <2>1, <3>2, <3>3
  <2> QED
    BY <2>2, <2>3
<1> QED
  BY <1>6, <1>7

LEMMA NextPaid ==
    ASSUME Orderly, Started, StraysCounted, StraysCounted', RunsPaid, [SessionNext]_sessionVars
    PROVE  RunsPaid'
<1>0. /\ nextAction \in Nat /\ nextAction >= 1 /\ None = 0
      /\ \A a \in Actions : a \in Nat /\ runs[a] \in Nat /\ Cardinality(Strays(a)) \in Nat
      /\ \A l \in logins : l.id # None
  BY BoundsAreNumbers
  DEF StraysCounted, Orderly, SessionTyped, SessionTypeOK, Login, Logins, Actions, None
<1>1. CASE RunAtOnce
  <2>1. /\ runs' = [runs EXCEPT ![nextAction] = @ + 1]
        /\ nextAction' = nextAction + 1 /\ nextAction \in Actions
        /\ UNCHANGED <<pending, asking, logins, dismissed>>
    BY <1>0, <1>1, BoundsAreNumbers DEF RunAtOnce, Ran, Actions
  <2>2. \A a \in Actions : Strays(a)' = Strays(a) /\ (Waiting(a)' <=> Waiting(a))
    BY <2>1 DEF Strays, Waiting
  <2>3. ~Waiting(nextAction)
    BY <1>0 DEF Waiting, Started, Orderly, SessionTyped, SessionTypeOK, Login, Actions
  <2>4. runs[nextAction] = 0 /\ \A a \in Actions \ {nextAction} : runs'[a] = runs[a]
    BY <1>0, <2>1 DEF RunsPaid, Orderly, SessionTyped, SessionTypeOK
  <2>5. runs'[nextAction] = 1
    BY <2>1, <2>4 DEF Orderly, SessionTyped, SessionTypeOK
  <2> QED
    BY <1>0, <2>1, <2>2, <2>3, <2>4, <2>5 DEF RunsPaid
<1>2. CASE AskFirst
  <2>1. /\ pending' = nextAction /\ nextAction' = nextAction + 1 /\ asking = None
        /\ UNCHANGED <<runs, asking, logins, dismissed>>
    BY <1>2 DEF AskFirst, Orderly, Awaited
  <2>2. \A a \in Actions : Strays(a)' = Strays(a) /\ (Waiting(a)' => a = nextAction)
    BY <1>0, <2>1 DEF Strays, Waiting
  <2> QED
    BY <1>0, <2>1, <2>2 DEF RunsPaid
<1>3. CASE Submit
  <2> DEFINE new == [id |-> nextLogin, panel |-> panel, action |-> pending]
  <2>1. /\ logins' = logins \cup {new} /\ new.id = nextLogin /\ new.action = pending
        /\ asking' = nextLogin /\ UNCHANGED <<runs, nextAction, pending, dismissed>>
    BY <1>3 DEF Submit
  <2> HIDE DEF new
  <2>2. \A l \in logins \cup dismissed : l.id # nextLogin
    BY BoundsAreNumbers DEF Orderly, SessionTyped, Numbered, SessionTypeOK, Login, Logins
  <2>3. \A a \in Actions : Strays(a) \subseteq Strays(a)' /\ (Waiting(a)' => Waiting(a))
    BY <2>1, <2>2 DEF Strays, Waiting
  <2> QED
    BY <2>1, <2>3, QuietStep DEF Orderly
<1>4. ASSUME NEW l \in logins, LoginSucceeds(l)
      PROVE  RunsPaid'
  BY <1>4, SuccessPaid
<1>5. CASE Mount \/ Unmount \/ Unlock \/ Lock \/ Dismiss \/ UNCHANGED sessionVars
           \/ (\E l \in logins : LoginFails(l)) \/ (\E t \in timers : TimerFires(t))
  <2>1. /\ UNCHANGED <<runs, nextAction>>
        /\ pending' \in {pending, None} /\ asking' \in {asking, None} /\ logins' \subseteq logins
    BY <1>5 DEF Mount, Unmount, Unlock, Lock, Dismiss, LoginFails, TimerFires, sessionVars, history
  <2>2. \A a \in Actions : Strays(a) \subseteq Strays(a)'
    BY <1>5 DEF Mount, Unmount, Unlock, Lock, Dismiss, LoginFails, TimerFires, sessionVars, history,
                Strays
  <2>3. \A a \in Actions : Waiting(a)' => Waiting(a)
    BY <1>0, <2>1 DEF Waiting, Actions
  <2> QED
    BY <2>1, <2>2, <2>3, QuietStep DEF Orderly
<1> QED
  BY <1>1, <1>2, <1>3, <1>4, <1>5 DEF SessionNext

\* An action the user starts once runs once, but for logins that went on after
\* their prompt was dismissed or replaced, each of which may run it once more
\* (withAuth, requireAuth, handleAuthenticated, handleAuthCancel).
THEOREM ActionsRunOnce == SessionSpec => []RunsOnce
<1>1. SessionInit => Started /\ StraysCounted /\ RunsPaid
  <2> SUFFICES ASSUME SessionInit PROVE Started /\ StraysCounted /\ RunsPaid
    OBVIOUS
  <2>1. Started
    BY FS_EmptySet DEF SessionInit, Started, None
  <2>2. \A a \in Actions : Strays(a) = {}
    BY DEF SessionInit, Strays
  <2> QED
    BY <2>1, <2>2, FS_EmptySet DEF SessionInit, StraysCounted, RunsPaid
<1>2. Orderly /\ Started /\ StraysCounted /\ RunsPaid /\ [SessionNext]_sessionVars
          => Started' /\ StraysCounted' /\ RunsPaid'
  BY NextStarted, NextPaid
<1>3. Orderly /\ Started /\ StraysCounted /\ RunsPaid => RunsOnce
  <2> SUFFICES ASSUME Orderly, Started, StraysCounted, RunsPaid, NEW a \in Actions
               PROVE  runs[a] <= 1 + Cardinality({l \in dismissed : l.action = a})
    BY DEF RunsOnce
  <2> DEFINE D == {l \in dismissed : l.action = a}
  <2>1. IsFiniteSet(D) /\ Strays(a) \subseteq D
    BY FS_Subset DEF Started, Strays
  <2>2. Cardinality(Strays(a)) <= Cardinality(D) /\ Cardinality(D) \in Nat
    BY <2>1, FS_Subset, FS_CardinalityType
  <2>3. runs[a] \in Nat /\ Cardinality(Strays(a)) \in Nat
    BY DEF Orderly, SessionTyped, SessionTypeOK, StraysCounted
  <2>4. runs[a] <= 1 + Cardinality(Strays(a))
    BY DEF RunsPaid
  <2> QED
    BY <2>2, <2>3, <2>4
<1> QED
  BY <1>1, <1>2, <1>3, AlwaysOrderly, PTL DEF SessionSpec

-----------------------------------------------------------------------------
(***************************************************************************)
(* The editors.  What is inductive beside the property, in two parts.  As  *)
(* long as every detail came in time, the details under way are those of   *)
(* the open editor, and the lines in the form, in a closure that waits or  *)
(* that a login holds, and in a sent save are of the object they are for.  *)
(***************************************************************************)
AtMostOne(S) == S = {} \/ \E x : S = {x}

Values == Objects \cup {Typed}

OwnLines(w) == w.lines \subseteq {w.object, Typed}

EditorTyped ==
    /\ editor \in Objects \cup {Nobody}
    /\ shown \subseteq Values
    /\ \A d \in details : d.object \in Objects
    /\ hurried \in BOOLEAN /\ opens \in Nat

EditorCalm ==
    /\ shown \subseteq {editor, Typed}
    /\ editor = Nobody => shown = {}
    /\ \A d \in details : d.object = editor

\* The closures that wait for the prompt, and those that a login will run.
WaitTyped(w) == w.object \in Objects /\ (w.do = "save" => w.lines \subseteq Values)
WaitCalm(w)  == w.do = "save" => OwnLines(w)

HeldTyped ==
    /\ \A w \in waiting : WaitTyped(w)
    /\ \A l \in awaited \cup late : \A w \in l.action : WaitTyped(w)

HeldCalm ==
    /\ \A w \in waiting : WaitCalm(w)
    /\ \A l \in awaited \cup late : \A w \in l.action : WaitCalm(w)

SavesTyped ==
    /\ \A w \in saves : w.object \in Objects /\ w.lines \subseteq Values
    /\ data \in [Objects -> SUBSET Values]
    /\ saving \in BOOLEAN /\ presses \in Nat /\ sends \in Nat

SavesCalm ==
    /\ \A w \in saves : OwnLines(w)
    /\ \A o \in Objects : data[o] \subseteq {o, Typed}

LinesInv ==
    /\ EditorTyped /\ HeldTyped /\ SavesTyped
    /\ ~hurried => EditorCalm /\ HeldCalm /\ SavesCalm

\* What a step leaves alone stays as it was.
LEMMA LeftAlone ==
    /\ EditorTyped /\ UNCHANGED editorVars => EditorTyped' /\ (EditorCalm => EditorCalm')
    /\ HeldTyped /\ UNCHANGED <<waiting, awaited, late>> => HeldTyped' /\ (HeldCalm => HeldCalm')
    /\ SavesTyped /\ UNCHANGED saveVars => SavesTyped' /\ (SavesCalm => SavesCalm')
<1>1. EditorTyped /\ UNCHANGED editorVars => EditorTyped' /\ (EditorCalm => EditorCalm')
  BY DEF editorVars, EditorTyped, EditorCalm
<1>2. HeldTyped /\ UNCHANGED <<waiting, awaited, late>> => HeldTyped' /\ (HeldCalm => HeldCalm')
  BY DEF HeldTyped, HeldCalm, WaitTyped, WaitCalm, OwnLines
<1>3. SavesTyped /\ UNCHANGED saveVars => SavesTyped' /\ (SavesCalm => SavesCalm')
  BY DEF saveVars, SavesTyped, SavesCalm, OwnLines
<1> QED
  BY <1>1, <1>2, <1>3

\* An editor opens, on a form that starts empty.
LEMMA OpenFacts ==
    ASSUME EditorTyped, NEW o \in Objects, OpenModal(o)
    PROVE  EditorTyped' /\ (~hurried' => ~hurried /\ EditorCalm')
<1>1. editor' = o /\ shown' = {} /\ opens' = opens + 1
      /\ hurried' = (hurried \/ details # {}) /\ details' = details \cup Detail(o)
  BY DEF OpenModal
<1>2. \A d \in Detail(o) : d.object = o
  BY DEF Detail
<1>3. EditorTyped'
  BY <1>1, <1>2 DEF EditorTyped
<1>4. ~hurried' => ~hurried /\ EditorCalm'
  BY <1>1, <1>2 DEF EditorCalm
<1> QED
  BY <1>3, <1>4

\* It closes.
LEMMA CloseFacts ==
    ASSUME EditorTyped, CloseModal
    PROVE  EditorTyped' /\ (~hurried' => ~hurried /\ EditorCalm')
<1>1. editor' = Nobody /\ shown' = {} /\ hurried' = (hurried \/ details # {})
      /\ UNCHANGED <<details, opens>>
  BY DEF CloseModal
<1>2. EditorTyped'
  BY <1>1 DEF EditorTyped
<1>3. ~hurried' => ~hurried /\ EditorCalm'
  BY <1>1 DEF EditorCalm
<1> QED
  BY <1>2, <1>3

\* A closure starts to wait.
LEMMA AskFacts ==
    ASSUME HeldTyped, NEW w, WaitTyped(w), AskFor(w)
    PROVE  HeldTyped' /\ (HeldCalm /\ WaitCalm(w) => HeldCalm')
<1>1. waiting' = {w} /\ UNCHANGED <<awaited, late>>
  BY DEF AskFor
<1>2. WaitTyped(w)'  <=> WaitTyped(w)
  BY DEF WaitTyped
<1> QED
  BY <1>1 DEF HeldTyped, HeldCalm, WaitTyped, WaitCalm, OwnLines

\* What Save sends is fixed when it is pressed.
LEMMA SaveFacts ==
    ASSUME EditorTyped, editor # Nobody
    PROVE  /\ Save(editor).object \in Objects /\ Save(editor).lines \subseteq Values
           /\ WaitTyped(Save(editor)) /\ Save(editor).do = "save"
           /\ EditorCalm => OwnLines(Save(editor)) /\ WaitCalm(Save(editor))
<1>1. Save(editor).lines \in {shown, {Typed}} /\ Save(editor).object = editor
      /\ Save(editor).do = "save"
  BY DEF Save
<1> QED
  BY <1>1 DEF EditorTyped, EditorCalm, WaitTyped, WaitCalm, OwnLines, Values

\* A save is sent.
LEMMA ExecuteFacts ==
    ASSUME SavesTyped, NEW w, w.object \in Objects, w.lines \subseteq Values,
           Execute(w), data' = data, presses' \in Nat
    PROVE  SavesTyped' /\ (SavesCalm /\ OwnLines(w) => SavesCalm')
<1> DEFINE x == [object |-> w.object, lines |-> w.lines, id |-> sends + 1]
<1>1. saving' = TRUE /\ saves' = saves \cup {x} /\ sends' = sends + 1
  BY DEF Execute
<1>2. x.object = w.object /\ x.lines = w.lines
  OBVIOUS
<1> HIDE DEF x
<1>3. SavesTyped'
  BY <1>1, <1>2 DEF SavesTyped
<1>4. SavesCalm /\ OwnLines(w) => SavesCalm'
  BY <1>1, <1>2 DEF SavesCalm, OwnLines
<1> QED
  BY <1>3, <1>4

\* A patch adds to one object the lines of its save.
LEMMA MergedFacts ==
    ASSUME SavesTyped, NEW w \in saves
    PROVE  /\ Merged(w) \in [Objects -> SUBSET Values]
           /\ SavesCalm => \A o \in Objects : Merged(w)[o] \subseteq {o, Typed}
<1>1. w.object \in Objects /\ w.lines \subseteq Values
  BY DEF SavesTyped
<1>2. \A o \in Objects :
         Merged(w)[o] = IF o = w.object THEN data[o] \cup w.lines ELSE data[o]
  BY <1>1 DEF Merged, SavesTyped
<1>3. Merged(w) \in [Objects -> SUBSET Values]
  BY <1>1 DEF Merged, SavesTyped
<1> QED
  BY <1>2, <1>3 DEF SavesCalm, OwnLines

\* A save is answered.
LEMMA AnsweredFacts ==
    ASSUME SavesTyped, NEW w \in saves, saves' = saves \ {w}, saving' = FALSE,
           data' \in {data, Merged(w)}, UNCHANGED <<presses, sends>>
    PROVE  SavesTyped' /\ (SavesCalm => SavesCalm')
<1>1. /\ data' \in [Objects -> SUBSET Values]
      /\ SavesCalm => \A o \in Objects : data'[o] \subseteq {o, Typed}
  BY MergedFacts DEF SavesTyped, SavesCalm
<1>2. SavesTyped'
  BY <1>1 DEF SavesTyped
<1>3. SavesCalm => SavesCalm'
  BY <1>1 DEF SavesCalm, OwnLines
<1> QED
  BY <1>2, <1>3

\* What a login runs.
LEMMA RunFacts ==
    ASSUME LinesInv, NEW ws, \A w \in ws : WaitTyped(w), Run(ws)
    PROVE  /\ EditorTyped' /\ SavesTyped'
           /\ ~hurried' => ~hurried
           /\ ~hurried' /\ (\A w \in ws : WaitCalm(w)) => EditorCalm' /\ SavesCalm'
<1> USE LeftAlone
<1>1. CASE ws = {} /\ UNCHANGED <<editorVars, saveVars>>
  BY <1>1 DEF LinesInv, editorVars
<1>2. ASSUME NEW w \in ws, OpenModal(w.object), UNCHANGED saveVars
      PROVE  /\ EditorTyped' /\ SavesTyped'
             /\ ~hurried' => ~hurried /\ EditorCalm' /\ SavesCalm'
  BY <1>2, OpenFacts DEF LinesInv, WaitTyped
<1>3. ASSUME NEW w \in ws, w.do = "save", Execute(Deferred(w)),
             UNCHANGED <<editorVars, data, presses>>
      PROVE  /\ EditorTyped' /\ SavesTyped' /\ hurried' = hurried
             /\ ~hurried /\ WaitCalm(w) => EditorCalm' /\ SavesCalm'
  <2>1. Execute(w) /\ w.object \in Objects /\ w.lines \subseteq Values
    BY <1>3 DEF Deferred, WaitTyped
  <2>2. data' = data /\ presses' \in Nat /\ SavesTyped
    BY <1>3 DEF LinesInv, SavesTyped
  <2>3. SavesTyped' /\ (SavesCalm /\ OwnLines(w) => SavesCalm')
    BY <2>1, <2>2, ExecuteFacts
  <2>4. EditorTyped' /\ (EditorCalm => EditorCalm') /\ hurried' = hurried
    BY <1>3 DEF LinesInv, editorVars
  <2> QED
    BY <1>3, <2>3, <2>4 DEF LinesInv, WaitCalm
<1> QED
  BY <1>1, <1>2, <1>3 DEF Run

LEMMA NextLinesInv == LinesInv /\ [FormNext]_formVars => LinesInv'
<1> SUFFICES ASSUME LinesInv, [FormNext]_formVars
             PROVE  LinesInv'
  OBVIOUS
<1>i. EditorTyped /\ HeldTyped /\ SavesTyped /\ (~hurried => EditorCalm /\ HeldCalm /\ SavesCalm)
  BY DEF LinesInv
<1> USE LeftAlone
<1>p. UNCHANGED promptVars => UNCHANGED <<waiting, awaited, late>>
  BY DEF promptVars
<1>e. UNCHANGED editorVars => hurried' = hurried
  BY DEF editorVars
<1>o. ASSUME NEW o \in Objects, OpenModal(o), UNCHANGED <<promptVars, saveVars>>
      PROVE  LinesInv'
  BY <1>o, <1>i, <1>p, OpenFacts DEF LinesInv
<1>w. ASSUME NEW o \in Objects, AskFor(Open(o)), UNCHANGED <<editorVars, saveVars>>
      PROVE  LinesInv'
  <2>1. WaitTyped(Open(o)) /\ WaitCalm(Open(o))
    BY DEF Open, WaitTyped, WaitCalm
  <2> QED
    BY <1>w, <1>i, <1>e, <2>1, AskFacts DEF LinesInv
<1>1. ASSUME NEW o \in Objects, Edit(o)
      PROVE  LinesInv'
  BY <1>1, <1>o, <1>w DEF Edit
<1>2. CASE Create
  BY <1>2, <1>o, <1>w, FormAssumption DEF Create
<1>3. CASE Type
  <2>1. /\ editor # Nobody /\ shown' = shown \cup {Typed}
        /\ UNCHANGED <<editor, details, opens, hurried>> /\ UNCHANGED <<promptVars, saveVars>>
    BY <1>3 DEF Type
  <2>2. EditorTyped' /\ (EditorCalm => EditorCalm')
    BY <1>i, <2>1 DEF EditorTyped, EditorCalm, Values
  <2> QED
    BY <1>i, <1>p, <2>1, <2>2 DEF LinesInv
<1>4. ASSUME NEW d \in details, DetailArrives(d) \/ DetailFails(d)
      PROVE  LinesInv'
  <2>1. /\ details' = details \ {d} /\ shown' \in {shown, {}, {d.object}}
        /\ UNCHANGED <<editor, opens, hurried>> /\ UNCHANGED <<promptVars, saveVars>>
    BY <1>4 DEF DetailArrives, DetailFails
  <2>2. EditorTyped'
    BY <1>i, <2>1 DEF EditorTyped, Values
  <2>3. EditorCalm => EditorCalm'
    <3>1. EditorCalm => d.object = editor /\ editor # Nobody
      BY <1>i, FormAssumption DEF EditorTyped, EditorCalm
    <3> QED
      BY <2>1, <3>1 DEF EditorCalm
  <2> QED
    BY <1>i, <1>p, <2>1, <2>2, <2>3 DEF LinesInv
<1>5. CASE Cancel
  BY <1>5, <1>i, <1>p, CloseFacts DEF Cancel, LinesInv
<1>6. CASE PressSave
  <2>1. /\ editor # Nobody /\ presses' = presses + 1 /\ UNCHANGED <<editorVars, data>>
        /\ \/ Execute(Save(editor)) /\ UNCHANGED promptVars
           \/ AskFor(Save(editor)) /\ UNCHANGED <<saving, saves, sends>>
    BY <1>6 DEF PressSave
  <2>2. /\ Save(editor).object \in Objects /\ Save(editor).lines \subseteq Values
        /\ WaitTyped(Save(editor))
        /\ EditorCalm => OwnLines(Save(editor)) /\ WaitCalm(Save(editor))
    BY <1>i, <2>1, SaveFacts
  <2>3. presses' \in Nat
    BY <1>i, <2>1 DEF SavesTyped
  <2> DEFINE w == Save(editor)
  <2> HIDE DEF w
  <2>4. CASE Execute(w) /\ UNCHANGED promptVars
    <3>1. SavesTyped' /\ (SavesCalm /\ OwnLines(w) => SavesCalm')
      BY <1>i, <2>1, <2>2, <2>3, <2>4, ExecuteFacts DEF w
    <3> QED
      BY <1>i, <1>p, <1>e, <2>1, <2>2, <2>4, <3>1 DEF LinesInv, w
  <2>5. CASE AskFor(w) /\ UNCHANGED <<saving, saves, sends>>
    <3>1. HeldTyped' /\ (HeldCalm /\ WaitCalm(w) => HeldCalm')
      BY <1>i, <2>2, <2>5, AskFacts DEF w
    <3>2. SavesTyped' /\ (SavesCalm => SavesCalm')
      BY <1>i, <2>1, <2>3, <2>5 DEF SavesTyped, SavesCalm, OwnLines
    <3> QED
      BY <1>i, <1>e, <2>1, <2>2, <3>1, <3>2 DEF LinesInv, w
  <2> QED
    BY <2>1, <2>4, <2>5 DEF w
<1>7. ASSUME NEW w \in saves, SaveSucceeds(w) \/ SaveFails(w)
      PROVE  LinesInv'
  <2>1. SavesTyped' /\ (SavesCalm => SavesCalm')
    BY <1>7, <1>i, AnsweredFacts DEF SaveSucceeds, SaveFails
  <2>2. UNCHANGED promptVars /\ (CloseModal \/ UNCHANGED editorVars)
    BY <1>7 DEF SaveSucceeds, SaveFails
  <2> QED
    BY <1>i, <1>p, <1>e, <2>1, <2>2, CloseFacts DEF LinesInv
<1>8. CASE PressUnlock \/ SubmitPassword \/ DismissPrompt \/ SessionEnds
           \/ \E l \in awaited \cup late : PasswordIsWrong(l)
  <2>1. UNCHANGED <<editorVars, saveVars>>
    BY <1>8 DEF PressUnlock, SubmitPassword, DismissPrompt, SessionEnds, PasswordIsWrong
  <2>2. /\ waiting' = waiting
        /\ \A l \in awaited' \cup late' : l \in awaited \cup late \/ l.action = waiting
    BY <1>8 DEF PressUnlock, SubmitPassword, DismissPrompt, SessionEnds, PasswordIsWrong, ClosePrompt
  <2>3. HeldTyped' /\ (HeldCalm => HeldCalm')
    BY <1>i, <2>2 DEF HeldTyped, HeldCalm, WaitTyped, WaitCalm, OwnLines
  <2> QED
    BY <1>i, <1>e, <2>1, <2>3 DEF LinesInv
<1>9. ASSUME NEW l \in awaited \cup late, PasswordIsRight(l)
      PROVE  LinesInv'
  <2>1. /\ waiting' \in {{}, waiting} /\ awaited' = {} /\ late' \subseteq awaited \cup late
        /\ Run(l.action)
    BY <1>9 DEF PasswordIsRight, ClosePrompt
  <2>2. HeldTyped' /\ (HeldCalm => HeldCalm')
    BY <1>i, <2>1 DEF HeldTyped, HeldCalm, WaitTyped, WaitCalm, OwnLines
  <2>3. (\A w \in l.action : WaitTyped(w)) /\ (HeldCalm => \A w \in l.action : WaitCalm(w))
    BY <1>i DEF HeldTyped, HeldCalm
  <2>4. /\ EditorTyped' /\ SavesTyped' /\ (~hurried' => ~hurried)
        /\ ~hurried' /\ (\A w \in l.action : WaitCalm(w)) => EditorCalm' /\ SavesCalm'
    BY <2>1, <2>3, RunFacts
  <2> QED
    BY <1>i, <2>2, <2>3, <2>4 DEF LinesInv
<1>10. CASE UNCHANGED formVars
  BY <1>10, <1>i, <1>p, <1>e DEF formVars, LinesInv
<1> QED
  BY <1>1, <1>2, <1>3, <1>4, <1>5, <1>6, <1>7, <1>8, <1>9, <1>10 DEF FormNext

LEMMA InitLinesInv == FormInit => LinesInv
<1> SUFFICES ASSUME FormInit PROVE LinesInv
  OBVIOUS
<1>1. EditorTyped /\ HeldTyped /\ SavesTyped
  BY DEF FormInit, EditorTyped, HeldTyped, SavesTyped, Values
<1>2. EditorCalm /\ HeldCalm /\ SavesCalm
  BY DEF FormInit, EditorCalm, HeldCalm, SavesCalm
<1> QED
  BY <1>1, <1>2 DEF LinesInv

(***************************************************************************)
(* The second part counts: n saves under way, m logins without a prompt, w *)
(* saves that wait, and k logins that ever lost their prompt.  A login     *)
(* without a prompt may yet send a save of its own, so each counts once;   *)
(* with the button Save disabled one save more is spoken for, and so is    *)
(* the one that waits in a locked session.                                 *)
(***************************************************************************)
InTurn(n, m, w, k, busy, open) ==
    /\ n \in Nat /\ m \in Nat /\ w \in {0, 1} /\ k \in Nat
    /\ ~busy => n + m <= k
    /\ ~busy /\ open => n + m + w <= k
    /\ n + m + w <= k + 1

SaveWaits == IF \E w \in waiting : w.do = "save" THEN 1 ELSE 0

PromptTyped ==
    /\ unlocked \in BOOLEAN /\ bar \in BOOLEAN /\ prompt \in BOOLEAN /\ saving \in BOOLEAN
    /\ AtMostOne(waiting) /\ AtMostOne(awaited)
    /\ \A l \in awaited : prompt /\ l.action = waiting
    /\ IsFiniteSet(saves) /\ IsFiniteSet(late)
    /\ tries \in Nat

TurnsInv == PromptTyped /\ InTurn(Cardinality(saves), Cardinality(late), SaveWaits, strays, saving, unlocked)

LEMMA AtMostOneCounts ==
    ASSUME NEW S, AtMostOne(S)
    PROVE  IsFiniteSet(S) /\ Cardinality(S) \in {0, 1} /\ (S # {} => Cardinality(S) = 1)
<1>1. CASE S = {}
  BY <1>1, FS_EmptySet
<1>2. ASSUME NEW x, S = {x} PROVE IsFiniteSet(S) /\ Cardinality(S) = 1
  BY <1>2, FS_Singleton
<1> QED
  BY <1>1, <1>2 DEF AtMostOne

LEMMA OneMore ==
    ASSUME NEW S, IsFiniteSet(S), NEW x
    PROVE  /\ IsFiniteSet(S \cup {x}) /\ Cardinality(S) \in Nat
           /\ Cardinality(S \cup {x}) \in Nat
           /\ Cardinality(S \cup {x}) <= Cardinality(S) + 1
<1>1. IsFiniteSet(S \cup {x}) /\ Cardinality(S) \in Nat /\ Cardinality(S \cup {x}) \in Nat
  BY FS_AddElement, FS_CardinalityType
<1>2. Cardinality(S \cup {x}) = Cardinality(S) \/ Cardinality(S \cup {x}) = Cardinality(S) + 1
  BY FS_AddElement
<1> QED
  BY <1>1, <1>2

LEMMA OneFewer ==
    ASSUME NEW S, IsFiniteSet(S), NEW x \in S
    PROVE  /\ IsFiniteSet(S \ {x}) /\ Cardinality(S) \in Nat
           /\ Cardinality(S \ {x}) \in Nat
           /\ Cardinality(S) = Cardinality(S \ {x}) + 1
<1>1. IsFiniteSet(S \ {x}) /\ Cardinality(S \ {x}) = Cardinality(S) - 1
  BY FS_RemoveElement
<1>2. Cardinality(S) \in Nat /\ Cardinality(S \ {x}) \in Nat
  BY <1>1, FS_CardinalityType
<1> QED
  BY <1>1, <1>2

\* What a login sends: at most its own save.
LEMMA RunSends ==
    ASSUME IsFiniteSet(saves), NEW ws, Run(ws)
    PROVE  /\ IsFiniteSet(saves') /\ Cardinality(saves') \in Nat
           /\ \/ UNCHANGED <<saves, saving>>
              \/ /\ saving' = TRUE /\ Cardinality(saves') <= Cardinality(saves) + 1
                 /\ \E w \in ws : w.do = "save"
<1>1. CASE UNCHANGED saveVars
  BY <1>1, FS_CardinalityType DEF saveVars
<1>2. ASSUME NEW w \in ws, w.do = "save", Execute(Deferred(w))
      PROVE  /\ IsFiniteSet(saves') /\ Cardinality(saves') \in Nat
             /\ saving' = TRUE /\ Cardinality(saves') <= Cardinality(saves) + 1
  <2>1. PICK x : saves' = saves \cup {x}
    BY <1>2 DEF Execute
  <2> QED
    BY <1>2, <2>1, OneMore DEF Execute
<1> QED
  BY <1>1, <1>2 DEF Run

LEMMA NextTurns == TurnsInv /\ [FormNext]_formVars => TurnsInv'
<1> SUFFICES ASSUME TurnsInv, [FormNext]_formVars
             PROVE  TurnsInv'
  OBVIOUS
<1> DEFINE n == Cardinality(saves)
           m == Cardinality(late)
<1>i. PromptTyped /\ InTurn(n, m, SaveWaits, strays, saving, unlocked)
  BY DEF TurnsInv
<1>n. n \in Nat /\ m \in Nat /\ SaveWaits \in {0, 1} /\ strays \in Nat
      /\ saving \in BOOLEAN /\ unlocked \in BOOLEAN
  BY <1>i DEF InTurn, PromptTyped
<1>s. UNCHANGED saveVars => UNCHANGED <<saving, saves>>
  BY DEF saveVars
<1>u. ASSUME UNCHANGED promptVars, UNCHANGED <<saving, saves>>
      PROVE  TurnsInv'
  BY <1>i, <1>u DEF promptVars, TurnsInv, PromptTyped, AtMostOne, InTurn, SaveWaits
<1>a. ASSUME NEW w, ~prompt, AskFor(w), UNCHANGED <<saving, saves>>, w.do = "save" => ~saving,
             ~unlocked
      PROVE  TurnsInv'
  <2>1. waiting' = {w} /\ UNCHANGED <<unlocked, bar, awaited, late, tries, strays>> /\ prompt' = TRUE
    BY <1>a DEF AskFor
  <2>2. awaited = {}
    BY <1>a, <1>i DEF PromptTyped
  <2>3. PromptTyped'
    BY <1>a, <1>i, <2>1, <2>2 DEF PromptTyped, AtMostOne
  <2>4. SaveWaits' = IF w.do = "save" THEN 1 ELSE 0
    BY <2>1 DEF SaveWaits
  <2>5. n' = n /\ m' = m /\ strays' = strays /\ saving' = saving /\ unlocked' = unlocked
    BY <1>a, <2>1
  <2>6. InTurn(n', m', SaveWaits', strays', saving', unlocked')
    BY <1>a, <1>i, <1>n, <2>4, <2>5 DEF InTurn
  <2> QED
    BY <2>3, <2>6 DEF TurnsInv
<1>1. ASSUME NEW o \in Objects, Edit(o) \/ Create
      PROVE  TurnsInv'
  <2>1. /\ UNCHANGED <<saving, saves>> /\ ~prompt
        /\ \/ UNCHANGED promptVars
           \/ ~unlocked /\ \E x : AskFor(Open(x))
    BY <1>1, <1>s DEF Edit, Create
  <2>2. \A x : Open(x).do # "save"
    BY DEF Open
  <2> QED
    BY <1>u, <1>a, <2>1, <2>2
<1>2. CASE Type \/ Cancel \/ \E d \in details : DetailArrives(d) \/ DetailFails(d)
  BY <1>2, <1>u, <1>s DEF Type, Cancel, DetailArrives, DetailFails
<1>3. CASE PressSave
  <2>1. ~prompt /\ ~saving
    BY <1>3 DEF PressSave
  <2>2. CASE unlocked
    <3>1. Execute(Save(editor)) /\ UNCHANGED promptVars
      BY <1>3, <2>2 DEF PressSave
    <3>2. PICK x : saves' = saves \cup {x}
      BY <3>1 DEF Execute
    <3>3. IsFiniteSet(saves') /\ n' \in Nat /\ n' <= n + 1 /\ saving' = TRUE
      BY <1>i, <3>1, <3>2, OneMore DEF Execute, PromptTyped
    <3>4. m' = m /\ SaveWaits' = SaveWaits /\ strays' = strays
      BY <3>1 DEF promptVars, SaveWaits
    <3>5. InTurn(n', m', SaveWaits', strays', saving', unlocked')
      BY <1>i, <1>n, <2>1, <2>2, <3>3, <3>4 DEF InTurn
    <3>6. PromptTyped'
      BY <1>i, <3>1, <3>3 DEF promptVars, PromptTyped, AtMostOne
    <3> QED
      BY <3>5, <3>6 DEF TurnsInv
  <2>3. CASE ~unlocked
    <3>1. AskFor(Save(editor)) /\ UNCHANGED <<saving, saves>>
      BY <1>3, <2>3 DEF PressSave
    <3> QED
      BY <1>a, <2>1, <2>3, <3>1
  <2> QED
    BY <2>2, <2>3
<1>4. ASSUME NEW w \in saves, SaveSucceeds(w) \/ SaveFails(w)
      PROVE  TurnsInv'
  <2>1. saves' = saves \ {w} /\ saving' = FALSE /\ UNCHANGED promptVars
    BY <1>4 DEF SaveSucceeds, SaveFails
  <2>2. IsFiniteSet(saves') /\ n' \in Nat /\ n = n' + 1
    BY <1>i, <2>1, OneFewer DEF PromptTyped
  <2>3. m' = m /\ SaveWaits' = SaveWaits /\ strays' = strays /\ unlocked' = unlocked
    BY <2>1 DEF promptVars, SaveWaits
  <2>4. InTurn(n', m', SaveWaits', strays', saving', unlocked')
    BY <1>i, <1>n, <2>1, <2>2, <2>3 DEF InTurn
  <2>5. PromptTyped'
    BY <1>i, <2>1, <2>2 DEF promptVars, PromptTyped, AtMostOne
  <2> QED
    BY <2>4, <2>5 DEF TurnsInv
<1>5. CASE PressUnlock
  <2>1. prompt' = TRUE /\ UNCHANGED <<unlocked, bar, waiting, awaited, late, tries, strays, saving, saves>>
    BY <1>5, <1>s DEF PressUnlock
  <2> QED
    BY <1>i, <2>1 DEF TurnsInv, PromptTyped, AtMostOne, InTurn, SaveWaits
<1>6. CASE SubmitPassword
  <2> DEFINE l == [id |-> tries + 1, action |-> waiting]
  <2>1. /\ prompt /\ awaited' = {l} /\ tries' = tries + 1
        /\ UNCHANGED <<unlocked, bar, prompt, waiting, late, strays, saving, saves>>
    BY <1>6, <1>s DEF SubmitPassword
  <2>2. l.action = waiting
    OBVIOUS
  <2> HIDE DEF l
  <2>3. AtMostOne(awaited') /\ \A x \in awaited' : prompt' /\ x.action = waiting'
    BY <2>1, <2>2 DEF AtMostOne
  <2>7. AtMostOne(waiting) /\ tries \in Nat
    BY <1>i DEF PromptTyped
  <2>8. waiting' = waiting /\ tries' = tries + 1
    BY <2>1
  <2>5. AtMostOne(waiting') /\ tries' \in Nat
    <3>1. tries' \in Nat
      BY <2>7, <2>8
    <3>2. AtMostOne(waiting')
      BY <2>7, <2>8 DEF AtMostOne
    <3> QED
      BY <3>1, <3>2
  <2>6. PromptTyped'
    BY <1>i, <2>1, <2>3, <2>5 DEF PromptTyped
  <2>4. InTurn(n', m', SaveWaits', strays', saving', unlocked')
    BY <1>i, <2>1 DEF InTurn, SaveWaits
  <2> QED
    BY <2>4, <2>6 DEF TurnsInv
<1>7. CASE DismissPrompt
  <2>1. /\ prompt' = FALSE /\ awaited' = {} /\ strays' = strays + Cardinality(awaited)
        /\ late' = late \cup awaited
        /\ UNCHANGED <<unlocked, bar, waiting, tries, saving, saves>>
    BY <1>7, <1>s DEF DismissPrompt, ClosePrompt
  <2>0. IsFiniteSet(late) /\ AtMostOne(awaited)
    BY <1>i DEF PromptTyped
  <2>2. /\ IsFiniteSet(late') /\ m' \in Nat /\ strays' \in Nat
        /\ \/ m' = m /\ strays' = strays
           \/ m' <= m + 1 /\ strays' = strays + 1
    <3>1. CASE awaited = {}
      <4>1. late' = late /\ Cardinality(awaited) = 0
        BY <2>1, <3>1, FS_EmptySet
      <4>2. m' = m /\ IsFiniteSet(late')
        BY <2>0, <4>1
      <4>3. strays' = strays
        BY <1>n, <2>1, <4>1
      <4> QED
        BY <1>n, <4>2, <4>3
    <3>2. ASSUME NEW x, awaited = {x}
          PROVE  IsFiniteSet(late') /\ m' \in Nat /\ m' <= m + 1 /\ strays' = strays + 1
      <4>1. Cardinality(awaited) = 1
        BY <3>2, FS_Singleton
      <4> QED
        BY <1>i, <1>n, <2>1, <3>2, <4>1, OneMore DEF PromptTyped
    <3>3. awaited = {} \/ \E x : awaited = {x}
      BY <2>0 DEF AtMostOne
    <3> QED
      BY <1>n, <3>1, <3>2, <3>3
  <2>3. PromptTyped'
    BY <1>i, <2>1, <2>2 DEF PromptTyped, AtMostOne
  <2>4. n' = n /\ SaveWaits' = SaveWaits
    BY <2>1 DEF SaveWaits
  <2>5. InTurn(n', m', SaveWaits', strays', saving', unlocked')
    BY <1>i, <1>n, <2>1, <2>2, <2>4 DEF InTurn
  <2> QED
    BY <2>3, <2>5 DEF TurnsInv
<1>8. CASE SessionEnds
  <2>1. unlocked' = FALSE /\ bar' = FALSE
        /\ UNCHANGED <<prompt, waiting, awaited, late, tries, strays, saving, saves>>
    BY <1>8, <1>s DEF SessionEnds
  <2> QED
    BY <1>i, <2>1 DEF TurnsInv, PromptTyped, AtMostOne, InTurn, SaveWaits
<1>9. ASSUME NEW l \in awaited \cup late, PasswordIsWrong(l)
      PROVE  TurnsInv'
  <2>1. /\ awaited' = awaited \ {l} /\ late' = late \ {l}
        /\ UNCHANGED <<unlocked, bar, prompt, waiting, tries, strays, saving, saves>>
    BY <1>9, <1>s DEF PasswordIsWrong
  <2>2. IsFiniteSet(late') /\ m' \in Nat /\ m' <= m
    BY <1>i, <2>1, FS_Subset, FS_CardinalityType DEF PromptTyped
  <2>3. PromptTyped'
    BY <1>i, <2>1, <2>2 DEF PromptTyped, AtMostOne
  <2>4. InTurn(n', m', SaveWaits', strays', saving', unlocked')
    BY <1>i, <1>n, <2>1, <2>2 DEF InTurn, SaveWaits
  <2> QED
    BY <2>3, <2>4 DEF TurnsInv
<1>10. ASSUME NEW l \in awaited \cup late, PasswordIsRight(l)
       PROVE  TurnsInv'
  <2>1. /\ unlocked' = TRUE /\ bar' = TRUE /\ prompt' = FALSE /\ awaited' = {}
        /\ strays' = strays + Cardinality(awaited \ {l})
        /\ late' = (late \cup awaited) \ {l}
        /\ waiting' = IF l.action # {} THEN {} ELSE waiting
        /\ Run(l.action) /\ tries' = tries
    BY <1>10 DEF PasswordIsRight, ClosePrompt
  <2>2. /\ IsFiniteSet(saves') /\ n' \in Nat
        /\ \/ UNCHANGED <<saves, saving>>
           \/ saving' = TRUE /\ n' <= n + 1 /\ \E w \in l.action : w.do = "save"
    BY <1>i, <2>1, RunSends DEF PromptTyped
  <2>3. saving' \in BOOLEAN
    BY <1>n, <2>2
  <2>4. \/ SaveWaits' = 0
        \/ SaveWaits' = SaveWaits /\ l.action = {} /\ SaveWaits' \in {0, 1}
    BY <1>n, <2>1 DEF SaveWaits
  <2>5. CASE l \in awaited
    <3>1. awaited = {l} /\ l.action = waiting
      BY <1>i, <2>5 DEF PromptTyped, AtMostOne
    <3>2. strays' = strays
      <4>1. awaited \ {l} = {}
        BY <3>1
      <4>2. Cardinality(awaited \ {l}) = 0
        BY <4>1, FS_EmptySet
      <4> QED
        BY <1>n, <2>1, <4>2
    <3>3. IsFiniteSet(late') /\ m' \in Nat /\ m' <= m
      <4>1. late' \subseteq late
        BY <2>1, <3>1
      <4>2. IsFiniteSet(late)
        BY <1>i DEF PromptTyped
      <4> QED
        BY <4>1, <4>2, FS_Subset, FS_CardinalityType
    <3>4. SaveWaits' = 0
      BY <2>1, <3>1 DEF SaveWaits
    <3>5. (\E w \in l.action : w.do = "save") => SaveWaits = 1
      BY <3>1 DEF SaveWaits
    <3>6. InTurn(n', m', SaveWaits', strays', saving', unlocked')
      BY <1>i, <1>n, <2>1, <2>2, <3>2, <3>3, <3>4, <3>5 DEF InTurn
    <3>7. PromptTyped'
      BY <1>i, <2>1, <2>2, <2>3, <3>3 DEF PromptTyped, AtMostOne
    <3> QED
      BY <3>6, <3>7 DEF TurnsInv
  <2>6. CASE l \notin awaited
    <3>1. l \in late /\ awaited \ {l} = awaited
      BY <2>6
    <3>2. /\ IsFiniteSet(late') /\ m' \in Nat
          /\ \/ m' = m - 1 /\ strays' = strays
             \/ m' <= m /\ strays' = strays + 1
      <4>1. CASE awaited = {}
        <5>0. Cardinality(awaited \ {l}) = 0
          BY <3>1, <4>1, FS_EmptySet
        <5>1. late' = late \ {l} /\ strays' = strays
          BY <1>n, <2>1, <4>1, <5>0
        <5> QED
          BY <1>i, <3>1, <5>1, OneFewer DEF PromptTyped
      <4>2. ASSUME NEW x, awaited = {x}
            PROVE  IsFiniteSet(late') /\ m' \in Nat /\ m' <= m /\ strays' = strays + 1
        <5> DEFINE both == late \cup {x}
        <5>1. IsFiniteSet(both) /\ Cardinality(both) \in Nat /\ Cardinality(both) <= m + 1
          BY <1>i, OneMore DEF PromptTyped
        <5>2. l \in both /\ late' = both \ {l}
          BY <2>1, <3>1, <4>2
        <5> HIDE DEF both
        <5>3. IsFiniteSet(late') /\ m' \in Nat /\ Cardinality(both) = m' + 1
          BY <5>1, <5>2, OneFewer
        <5>4. strays' = strays + 1
          BY <1>n, <2>1, <3>1, <4>2, FS_Singleton
        <5>5. m' <= m
          BY <1>n, <5>1, <5>3
        <5> QED
          BY <5>3, <5>4, <5>5
      <4> QED
        BY <1>i, <4>1, <4>2 DEF PromptTyped, AtMostOne
    <3>3. SaveWaits' \in {0, 1} /\ SaveWaits' <= SaveWaits
          /\ ((\E w \in l.action : w.do = "save") => SaveWaits' = 0)
      BY <1>n, <2>4 DEF SaveWaits
    <3>4. InTurn(n', m', SaveWaits', strays', saving', unlocked')
      BY <1>i, <1>n, <2>1, <2>2, <3>2, <3>3 DEF InTurn
    <3>5. PromptTyped'
      BY <1>i, <2>1, <2>2, <2>3, <3>2 DEF PromptTyped, AtMostOne
    <3> QED
      BY <3>4, <3>5 DEF TurnsInv
  <2> QED
    BY <2>5, <2>6
<1>11. CASE UNCHANGED formVars
  BY <1>11, <1>u, <1>s DEF formVars
<1> QED
  BY <1>1, <1>2, <1>3, <1>4, <1>5, <1>6, <1>7, <1>8, <1>9, <1>10, <1>11, FormAssumption DEF FormNext

LEMMA InitTurns == FormInit => TurnsInv
<1> SUFFICES ASSUME FormInit PROVE TurnsInv
  OBVIOUS
<1>1. PromptTyped
  BY FS_EmptySet DEF FormInit, PromptTyped, AtMostOne
<1>2. Cardinality(saves) = 0 /\ Cardinality(late) = 0 /\ SaveWaits = 0 /\ strays = 0
  BY FS_EmptySet DEF FormInit, SaveWaits
<1> QED
  BY <1>1, <1>2 DEF TurnsInv, InTurn

\* For any objects, editors, saves and logins: two saves of the configuration panel
\* are under way at once only by a login that outlived its prompt, one more for
\* each; and as long as every editor's detail came before the editor closed, an
\* object only ever gets its own values and what the user typed - also by a save
\* that waited for the prompt, whichever editor was open when it ran.
THEOREM EditorsKeepApart == FormSpec => []CalmEditorsKeepApart
<1>1. LinesInv /\ TurnsInv => CalmEditorsKeepApart
  <2> SUFFICES ASSUME LinesInv, TurnsInv PROVE CalmEditorsKeepApart
    OBVIOUS
  <2>1. FormTypeOK
    <3>1. Cardinality(waiting) <= 1 /\ Cardinality(awaited) <= 1
      <4>1. Cardinality(waiting) \in {0, 1} /\ Cardinality(awaited) \in {0, 1}
        BY AtMostOneCounts DEF TurnsInv, PromptTyped
      <4> QED
        BY <4>1
    <3> QED
      BY <3>1 DEF LinesInv, EditorTyped, HeldTyped, WaitTyped, SavesTyped, Values, TurnsInv,
                  PromptTyped, InTurn, FormTypeOK
  <2>2. Cardinality(saves) <= 1 + strays
    BY DEF TurnsInv, InTurn
  <2> QED
    BY <2>1, <2>2 DEF LinesInv, SavesCalm, CalmEditorsKeepApart
<1> QED
  BY <1>1, InitLinesInv, NextLinesInv, InitTurns, NextTurns, PTL DEF FormSpec

\* "Fetch full detail (with values) for editing" is true of every editor until the
\* first one closes, or gives way to another, before its own detail has come.
THEOREM CalmEditorsShowTheirs == FormSpec => [](~hurried => EditorShowsItsObject)
<1>1. LinesInv => (~hurried => EditorShowsItsObject)
  BY DEF LinesInv, EditorCalm, EditorShowsItsObject
<1> QED
  BY <1>1, InitLinesInv, NextLinesInv, PTL DEF FormSpec

-----------------------------------------------------------------------------
(* The context of the assistant.                                           *)

Messages == [role : {"user", "assistant"}, question : Nat]
Chats    == [question : Nat, first : Nat, sent : Seq(Messages), tools : BOOLEAN, rounds : Nat,
             calls : Nat]

ChatTypeOK ==
    /\ messages \in Seq(Messages)
    /\ loading \in BOOLEAN
    /\ chats \subseteq Chats
    /\ asked \in Nat /\ first \in Nat

(***************************************************************************)
(* What is inductive beside the property: one question at a time is asked, *)
(* and the page shows its conversation, or has just been cleared.  So only *)
(* the message after the welcome can be an answer to an older question.    *)
(***************************************************************************)
OneAtATime ==
    /\ ~loading => chats = {}
    /\ \A c, d \in chats : c = d

PageIsThisConversation ==
    /\ first <= asked + 1
    /\ Len(messages) >= 1
    /\ \A i \in 2..Len(messages) :
          messages[i].question >= first \/ (i = 2 /\ messages[i].role = "assistant")
    /\ \A c \in chats : c.question <= asked /\ (c.question >= first \/ Len(messages) = 1)

ThisConversation ==
    /\ ChatTypeOK /\ OneAtATime /\ PageIsThisConversation
    /\ ContextIsThisConversation

\* What is sent is the end of the page and the question.
LEMMA ContextFacts ==
    ASSUME ThisConversation, NEW m \in Messages
    PROVE  /\ Context(m) \in Seq(Messages)
           /\ Len(Context(m)) \in Nat /\ Len(Context(m)) >= 1 /\ Len(Context(m)) <= MaxContext
           /\ Context(m)[Len(Context(m))] = m
           /\ \A i \in 1..(Len(Context(m)) - 1) :
                 \E k \in 2..Len(messages) : k > i /\ Context(m)[i] = messages[k]
<1> DEFINE start == IF Len(messages) < MaxContext THEN 2 ELSE Len(messages) - MaxContext + 2
           part  == SubSeq(messages, start, Len(messages))
<1>1. /\ Len(messages) \in Nat /\ Len(messages) >= 1 /\ MaxContext \in Nat /\ MaxContext >= 1
      /\ messages \in Seq(Messages)
  BY ChatAssumption DEF ThisConversation, ChatTypeOK, PageIsThisConversation
<1>2. /\ start \in Nat /\ start >= 2 /\ start <= Len(messages) + 1
      /\ Len(messages) + 2 - start <= MaxContext
  BY <1>1
<1> HIDE DEF start
<1>3. /\ part \in Seq(Messages)
      /\ Len(part) = Len(messages) + 1 - start
      /\ \A i \in 1..Len(part) : part[i] = messages[start + i - 1]
  BY <1>1, <1>2
<1>4. Context(m) = Append(part, m)
  BY DEF Context, start
<1> HIDE DEF part
<1>5. /\ Context(m) \in Seq(Messages)
      /\ Len(Context(m)) = Len(part) + 1 /\ Context(m)[Len(part) + 1] = m
      /\ \A i \in 1..Len(part) : Context(m)[i] = part[i]
  BY <1>3, <1>4
<1>6. ASSUME NEW i \in 1..Len(part)
      PROVE  \E k \in 2..Len(messages) : k > i /\ Context(m)[i] = messages[k]
  <2>1. start + i - 1 \in 2..Len(messages) /\ start + i - 1 > i
    BY <1>1, <1>2, <1>3
  <2> QED
    BY <1>3, <1>5, <2>1
<1>7. Len(part) \in Nat /\ Len(part) + 1 <= MaxContext /\ Len(Context(m)) - 1 = Len(part)
  BY <1>1, <1>2, <1>3, <1>5
<1> QED
  BY <1>5, <1>6, <1>7

LEMMA SendKeeps ==
    ASSUME ThisConversation, SendMessage
    PROVE  ThisConversation'
<1> DEFINE m == Message("user", asked + 1)
           c == Chat(asked + 1)
<1>1. /\ asked \in Nat /\ first \in Nat /\ messages \in Seq(Messages) /\ chats = {}
      /\ m \in Messages /\ m.question = asked + 1 /\ m.role = "user"
  BY DEF ThisConversation, ChatTypeOK, OneAtATime, SendMessage, Message, Messages
<1>2. /\ c.question = asked + 1 /\ c.first = first /\ c.sent = Context(m)
      /\ c \in Chats
  BY <1>1, ContextFacts DEF Chat, Chats
<1> HIDE DEF m, c
<1>3. /\ chats' = {c} /\ messages' = Append(messages, m) /\ asked' = asked + 1
      /\ first' = first /\ loading' = TRUE
  BY <1>1 DEF SendMessage, m, c
<1>4. /\ Len(messages') = Len(messages) + 1 /\ messages'[Len(messages) + 1] = m
      /\ messages' \in Seq(Messages)
      /\ \A i \in 1..Len(messages) : messages'[i] = messages[i]
  BY <1>1, <1>3
<1>5. ChatTypeOK' /\ OneAtATime'
  BY <1>1, <1>2, <1>3, <1>4 DEF ChatTypeOK, OneAtATime
<1>6. PageIsThisConversation'
  BY <1>1, <1>2, <1>3, <1>4 DEF ThisConversation, PageIsThisConversation
<1>7. ContextIsThisConversation'
  <2>1. \A i \in 1..(Len(c.sent) - 1) :
            c.sent[i].question >= first \/ (i = 1 /\ c.sent[i].role = "assistant")
    <3> SUFFICES ASSUME NEW i \in 1..(Len(c.sent) - 1)
                 PROVE  c.sent[i].question >= first \/ (i = 1 /\ c.sent[i].role = "assistant")
      OBVIOUS
    <3>1. PICK k \in 2..Len(messages) : k > i /\ c.sent[i] = messages[k]
      <4>1. \A j \in 1..(Len(Context(m)) - 1) :
                \E k \in 2..Len(messages) : k > j /\ Context(m)[j] = messages[k]
        BY <1>1, ContextFacts
      <4> QED
        BY <1>2, <4>1
    <3> QED
      BY <3>1 DEF ThisConversation, PageIsThisConversation
  <2>2. /\ Len(c.sent) <= MaxContext /\ c.sent[Len(c.sent)] = m /\ DOMAIN c.sent = 1..Len(c.sent)
        /\ Len(c.sent) \in Nat
    BY <1>1, <1>2, ContextFacts
  <2>3. m.question >= first
    BY <1>1 DEF ThisConversation, PageIsThisConversation
  <2>4. \A i \in DOMAIN c.sent :
            c.sent[i].question >= c.first \/ (i = 1 /\ c.sent[i].role = "assistant")
    BY <1>2, <2>1, <2>2, <2>3
  <2> QED
    BY <1>2, <1>3, <2>2, <2>4 DEF ContextIsThisConversation, m
<1> QED
  BY <1>5, <1>6, <1>7 DEF ThisConversation

LEMMA ReplyKeeps ==
    ASSUME ThisConversation, NEW c \in chats, Reply(c)
    PROVE  ThisConversation'
<1> DEFINE m == Message("assistant", c.question)
<1>1. /\ messages \in Seq(Messages) /\ m \in Messages
      /\ m.question = c.question /\ m.role = "assistant" /\ c.question \in Nat
      /\ c.question <= asked /\ (c.question >= first \/ Len(messages) = 1)
  BY DEF ThisConversation, ChatTypeOK, PageIsThisConversation, Chats, Messages, Message
<1>2. chats' = {} /\ messages' = Append(messages, m) /\ loading' = FALSE /\ UNCHANGED <<asked, first>>
  BY DEF Reply, ThisConversation, OneAtATime
<1> HIDE DEF m
<1>3. /\ Len(messages') = Len(messages) + 1 /\ messages'[Len(messages) + 1] = m
      /\ messages' \in Seq(Messages)
      /\ \A i \in 1..Len(messages) : messages'[i] = messages[i]
  BY <1>1, <1>2
<1>4. PageIsThisConversation'
  BY <1>1, <1>2, <1>3 DEF ThisConversation, PageIsThisConversation
<1> QED
  BY <1>2, <1>3, <1>4
  DEF ThisConversation, ChatTypeOK, OneAtATime, ContextIsThisConversation

\* A step of the tool loop keeps what was sent, and for which question.
LEMMA LoopKeeps ==
    ASSUME ThisConversation, NEW c \in chats, NEW next \in Chats, Become(c, next),
           next.question = c.question, next.first = c.first, next.sent = c.sent
    PROVE  ThisConversation'
<1>1. chats = {c} /\ chats' = {next} /\ UNCHANGED <<messages, loading, asked, first>>
  BY DEF Become, ThisConversation, OneAtATime
<1>2. ChatTypeOK' /\ OneAtATime' /\ PageIsThisConversation'
  BY <1>1 DEF ThisConversation, ChatTypeOK, OneAtATime, PageIsThisConversation
<1>3. ContextIsThisConversation'
  BY <1>1 DEF ThisConversation, ContextIsThisConversation
<1> QED
  BY <1>2, <1>3 DEF ThisConversation

LEMMA NextKeeps == ThisConversation /\ [ChatNext]_chatVars => ThisConversation'
<1> SUFFICES ASSUME ThisConversation, [ChatNext]_chatVars PROVE ThisConversation'
  OBVIOUS
<1>0. chats \subseteq Chats
  BY DEF ThisConversation, ChatTypeOK
<1>1. CASE SendMessage
  BY <1>1, SendKeeps
<1>2. CASE ClearChat
  BY <1>2 DEF ClearChat, ThisConversation, ChatTypeOK, OneAtATime, PageIsThisConversation,
              ContextIsThisConversation, Welcome, Message, Messages
<1>3. ASSUME NEW c \in chats, Answer(c) \/ BackendLost(c)
      PROVE  ThisConversation'
  BY <1>3, ReplyKeeps DEF Answer, BackendLost
<1>4. ASSUME NEW c \in chats, NEW n \in 1..MaxCalls, ModelCalls(c, n)
      PROVE  ThisConversation'
  <2> DEFINE next == [c EXCEPT !.rounds = @ + 1, !.calls = n]
  <2>1. next \in Chats /\ next.question = c.question /\ next.first = c.first /\ next.sent = c.sent
    <3>1. c \in Chats /\ c.rounds + 1 \in Nat /\ n \in Nat
      BY <1>0 DEF Chats
    <3> DEFINE counted == [c EXCEPT !.rounds = @ + 1]
    <3>2. /\ counted \in Chats
          /\ counted.question = c.question /\ counted.first = c.first /\ counted.sent = c.sent
      BY <3>1 DEF Chats
    <3>3. next = [counted EXCEPT !.calls = n]
      BY <3>1 DEF Chats
    <3> HIDE DEF counted, next
    <3> QED
      BY <3>1, <3>2, <3>3 DEF Chats
  <2> HIDE DEF next
  <2> QED
    BY <1>4, <2>1, LoopKeeps DEF ModelCalls, next
<1>5. ASSUME NEW c \in chats, RunTool(c)
      PROVE  ThisConversation'
  <2> DEFINE next == [c EXCEPT !.calls = @ - 1]
  <2>1. next \in Chats /\ next.question = c.question /\ next.first = c.first /\ next.sent = c.sent
    <3>1. c.calls \in Nat /\ c.calls > 0 /\ c \in Chats
      BY <1>0, <1>5 DEF Chats, RunTool
    <3>2. c.calls - 1 \in Nat
      BY <3>1
    <3>3. next = [question |-> c.question, first |-> c.first, sent |-> c.sent, tools |-> c.tools,
                  rounds |-> c.rounds, calls |-> c.calls - 1]
      BY <3>1 DEF Chats
    <3> HIDE DEF next
    <3> QED
      BY <3>1, <3>2, <3>3 DEF Chats
  <2> HIDE DEF next
  <2> QED
    BY <1>5, <2>1, LoopKeeps DEF RunTool, next
<1>6. ASSUME NEW c \in chats, ProviderRefuses(c)
      PROVE  ThisConversation'
  <2> DEFINE next == [c EXCEPT !.tools = FALSE, !.rounds = 0]
  <2>1. next \in Chats /\ next.question = c.question /\ next.first = c.first /\ next.sent = c.sent
    BY <1>0 DEF Chats
  <2> HIDE DEF next
  <2> QED
    BY <1>6, <2>1, LoopKeeps DEF ProviderRefuses, next
<1>7. CASE UNCHANGED chatVars
  BY <1>7 DEF chatVars, ThisConversation, ChatTypeOK, OneAtATime, PageIsThisConversation,
              ContextIsThisConversation
<1> QED
  BY <1>1, <1>2, <1>3, <1>4, <1>5, <1>6, <1>7 DEF ChatNext, ServerStep

LEMMA InitKeeps == ChatInit => ThisConversation
<1> SUFFICES ASSUME ChatInit PROVE ThisConversation
  OBVIOUS
<1>1. Welcome \in Messages
  BY DEF Welcome, Message, Messages
<1>2. messages \in Seq(Messages) /\ Len(messages) = 1
  BY <1>1 DEF ChatInit
<1>3. ChatTypeOK
  BY <1>2 DEF ChatInit, ChatTypeOK
<1>4. OneAtATime /\ PageIsThisConversation /\ ContextIsThisConversation
  BY <1>2 DEF ChatInit, OneAtATime, PageIsThisConversation, ContextIsThisConversation
<1> QED
  BY <1>3, <1>4 DEF ThisConversation

\* What is sent with a question belongs to the conversation the user sees, but
\* for at most a late answer at its start, and is never longer than the context
\* (sendMessage, clearChat).
THEOREM ContextIsCurrent == ChatSpec => []ContextIsThisConversation
<1>1. ThisConversation => ContextIsThisConversation
  BY DEF ThisConversation
<1> QED
  BY <1>1, InitKeeps, NextKeeps, PTL DEF ChatSpec

-----------------------------------------------------------------------------
(***************************************************************************)
(* A question does not keep the panel for ever.  How many steps the server *)
(* still needs at most: what is left of this pass of the tool loop, and a  *)
(* whole pass more while a refused payload may still be tried again.       *)
(***************************************************************************)
OneRound == MaxCalls + 1
OnePass  == MaxToolIterations * OneRound

StepsToAnswer(c) ==
    (IF c.tools THEN OnePass + 1 ELSE 0)
      + (MaxToolIterations - c.rounds) * OneRound + c.calls + 1

LoopsAreBounded ==
    /\ loading <=> chats # {}
    /\ \A c, d \in chats : c = d
    /\ \A c \in chats : StepsToAnswer(c) \in 1..(2 * OnePass + 2)

ComesNearer ==
    [][\A c \in chats : \A next \in chats' :
          /\ StepsToAnswer(next) <= StepsToAnswer(c)
          /\ ServerStep(c) => StepsToAnswer(next) < StepsToAnswer(c)]_chatVars

\* What is inductive: the page waits for a chat, and the loop is in its bounds.
InLoop(c) == /\ c.rounds <= MaxToolIterations
             /\ StepsToAnswer(c) \in 1..(2 * OnePass + 2)

LoopInv == /\ ThisConversation
           /\ loading => chats # {}
           /\ \A c \in chats : InLoop(c)

LEMMA OneRoundLess ==
    ASSUME NEW k \in Nat, NEW r \in Nat, r < k, NEW w \in Nat
    PROVE  /\ (k - (r + 1)) * w = (k - r) * w - w
           /\ (k - r) * w \in Nat /\ (k - (r + 1)) * w \in Nat
<1>1. PICK a \in Nat : k - r = a + 1 /\ k - (r + 1) = a
  <2>1. k - (r + 1) \in Nat /\ k - r = (k - (r + 1)) + 1
    OBVIOUS
  <2> QED
    BY <2>1
<1>2. (a + 1) * w = a * w + w /\ a * w \in Nat
  OBVIOUS
<1> QED
  BY <1>1, <1>2

LEMMA PassFacts ==
    /\ OneRound \in Nat /\ OneRound >= 1 /\ OnePass \in Nat
    /\ \A r \in Nat : r <= MaxToolIterations => (MaxToolIterations - r) * OneRound \in Nat
<1>1. MaxToolIterations \in Nat /\ MaxCalls \in Nat
  BY ChatAssumption
<1>2. OneRound \in Nat /\ OneRound >= 1
  BY <1>1 DEF OneRound
<1>3. ASSUME NEW k \in Nat, NEW w \in Nat
      PROVE  k * w \in Nat
  OBVIOUS
<1>4. \A r \in Nat : r <= MaxToolIterations => MaxToolIterations - r \in Nat
  BY <1>1
<1> QED
  BY <1>1, <1>2, <1>3, <1>4 DEF OnePass

LEMMA StepsAreNumbers ==
    ASSUME NEW c \in Chats, c.rounds <= MaxToolIterations
    PROVE  StepsToAnswer(c) \in Nat /\ StepsToAnswer(c) >= 1
<1> DEFINE left == (MaxToolIterations - c.rounds) * OneRound
<1>1. left \in Nat /\ OnePass \in Nat /\ c.calls \in Nat
  BY PassFacts DEF Chats
<1>2. StepsToAnswer(c) = (IF c.tools THEN OnePass + 1 ELSE 0) + left + c.calls + 1
  BY DEF StepsToAnswer
<1> HIDE DEF left
<1> QED
  BY <1>1, <1>2

\* The three steps of the loop that do not answer, each nearer to the answer.
LEMMA CallsComeNearer ==
    ASSUME NEW c \in Chats, c.calls = 0, c.rounds < MaxToolIterations, NEW n \in 1..MaxCalls,
           NEW next \in Chats, next.tools = c.tools, next.rounds = c.rounds + 1, next.calls = n
    PROVE  StepsToAnswer(next) < StepsToAnswer(c) /\ next.rounds <= MaxToolIterations
<1> DEFINE now   == (MaxToolIterations - c.rounds) * OneRound
           later == (MaxToolIterations - (c.rounds + 1)) * OneRound
           again == IF c.tools THEN OnePass + 1 ELSE 0
<1>1. c.rounds \in Nat /\ MaxToolIterations \in Nat /\ MaxCalls \in Nat
  BY ChatAssumption DEF Chats
<1>2. later = now - OneRound /\ now \in Nat /\ later \in Nat
  BY <1>1, PassFacts, OneRoundLess
<1>3. again \in Nat /\ OneRound = MaxCalls + 1 /\ n \in Nat /\ n <= MaxCalls
  BY <1>1, PassFacts DEF OneRound
<1>4. StepsToAnswer(c) = again + now + 0 + 1 /\ StepsToAnswer(next) = again + later + n + 1
  BY DEF StepsToAnswer
<1>5. next.rounds <= MaxToolIterations
  BY <1>1
<1> HIDE DEF now, later, again
<1> QED
  BY <1>1, <1>2, <1>3, <1>4, <1>5

LEMMA ToolsComeNearer ==
    ASSUME NEW c \in Chats, c.calls > 0, c.rounds <= MaxToolIterations, NEW next \in Chats,
           next.tools = c.tools, next.rounds = c.rounds, next.calls = c.calls - 1
    PROVE  StepsToAnswer(next) < StepsToAnswer(c)
<1> DEFINE now   == (MaxToolIterations - c.rounds) * OneRound
           again == IF c.tools THEN OnePass + 1 ELSE 0
<1>1. c.calls \in Nat /\ now \in Nat /\ again \in Nat
  BY PassFacts DEF Chats
<1>2. /\ StepsToAnswer(c) = again + now + c.calls + 1
      /\ StepsToAnswer(next) = again + now + (c.calls - 1) + 1
  BY DEF StepsToAnswer
<1> HIDE DEF now, again
<1> QED
  BY <1>1, <1>2

LEMMA RetryComesNearer ==
    ASSUME NEW c \in Chats, c.tools, c.calls = 0, c.rounds <= MaxToolIterations, NEW next \in Chats,
           next.tools = FALSE, next.rounds = 0, next.calls = c.calls
    PROVE  StepsToAnswer(next) < StepsToAnswer(c)
<1> DEFINE now == (MaxToolIterations - c.rounds) * OneRound
<1>1. now \in Nat /\ OnePass \in Nat /\ MaxToolIterations \in Nat
  BY PassFacts, ChatAssumption DEF Chats
<1>2. (MaxToolIterations - 0) * OneRound = OnePass
  BY <1>1 DEF OnePass
<1>3. StepsToAnswer(c) = (OnePass + 1) + now + 0 + 1
  BY DEF StepsToAnswer
<1>4. StepsToAnswer(next) = 0 + OnePass + 0 + 1
  BY <1>2 DEF StepsToAnswer
<1> HIDE DEF now
<1> QED
  BY <1>1, <1>3, <1>4

\* A new question starts with both passes before it.
LEMMA ChatStarts ==
    ASSUME ThisConversation, NEW question \in Nat
    PROVE  InLoop(Chat(question))
<1> DEFINE c == Chat(question)
<1>1. c.tools = TRUE /\ c.rounds = 0 /\ c.calls = 0
  BY DEF Chat
<1>2. MaxToolIterations \in Nat /\ (MaxToolIterations - 0) * OneRound = OnePass /\ OnePass \in Nat
  BY ChatAssumption, PassFacts DEF OnePass
<1> HIDE DEF c
<1>3. StepsToAnswer(c) = (OnePass + 1) + OnePass + 0 + 1
  BY <1>1, <1>2 DEF StepsToAnswer
<1>4. StepsToAnswer(c) \in 1..(2 * OnePass + 2)
  BY <1>2, <1>3
<1> QED
  BY <1>1, <1>2, <1>4 DEF InLoop, c

\* One step of the server.
LEMMA ServerStepNearer ==
    ASSUME LoopInv, NEW c \in chats, ServerStep(c) \/ BackendLost(c)
    PROVE  \/ chats' = {} /\ loading' = FALSE
           \/ /\ loading' = loading
              /\ \E next \in Chats : /\ chats' = {next} /\ next.rounds <= MaxToolIterations
                                     /\ StepsToAnswer(next) < StepsToAnswer(c)
<1>0. /\ c \in Chats /\ chats = {c} /\ c.rounds <= MaxToolIterations /\ c.rounds \in Nat
      /\ MaxToolIterations \in Nat
  BY ChatAssumption DEF LoopInv, ThisConversation, ChatTypeOK, OneAtATime, InLoop, Chats
<1>1. CASE Answer(c) \/ BackendLost(c)
  BY <1>0, <1>1 DEF Answer, BackendLost, Reply
<1>2. ASSUME NEW n \in 1..MaxCalls, ModelCalls(c, n)
      PROVE  /\ loading' = loading
             /\ \E next \in Chats : /\ chats' = {next} /\ next.rounds <= MaxToolIterations
                                    /\ StepsToAnswer(next) < StepsToAnswer(c)
  <2> DEFINE next == [question |-> c.question, first |-> c.first, sent |-> c.sent, tools |-> c.tools,
                      rounds |-> c.rounds + 1, calls |-> n]
  <2>1. next \in Chats
    BY <1>0, ChatAssumption DEF Chats
  <2>2. chats' = {next} /\ loading' = loading /\ c.calls = 0 /\ c.rounds < MaxToolIterations
    <3> DEFINE counted == [c EXCEPT !.rounds = @ + 1]
    <3>1. counted = [question |-> c.question, first |-> c.first, sent |-> c.sent, tools |-> c.tools,
                     rounds |-> c.rounds + 1, calls |-> c.calls]
      BY <1>0 DEF Chats
    <3>2. [c EXCEPT !.rounds = @ + 1, !.calls = n] = [counted EXCEPT !.calls = n]
      BY <1>0 DEF Chats
    <3> HIDE DEF counted
    <3>3. [counted EXCEPT !.calls = n] = next
      BY <3>1
    <3> HIDE DEF next
    <3> QED
      BY <1>0, <1>2, <3>2, <3>3 DEF ModelCalls, Become, Posting, counted
  <2>3. next.tools = c.tools /\ next.rounds = c.rounds + 1 /\ next.calls = n
    OBVIOUS
  <2> HIDE DEF next
  <2>4. StepsToAnswer(next) < StepsToAnswer(c) /\ next.rounds <= MaxToolIterations
    BY <1>0, <2>1, <2>2, <2>3, CallsComeNearer
  <2> QED
    BY <2>1, <2>2, <2>4
<1>3. CASE RunTool(c)
  <2> DEFINE next == [question |-> c.question, first |-> c.first, sent |-> c.sent, tools |-> c.tools,
                      rounds |-> c.rounds, calls |-> c.calls - 1]
  <2>1. next \in Chats /\ c.calls > 0
    BY <1>0, <1>3 DEF Chats, RunTool
  <2>2. chats' = {next} /\ loading' = loading
    BY <1>0, <1>3 DEF RunTool, Become, Chats
  <2>3. next.tools = c.tools /\ next.rounds = c.rounds /\ next.calls = c.calls - 1
    OBVIOUS
  <2> HIDE DEF next
  <2>4. StepsToAnswer(next) < StepsToAnswer(c)
    BY <1>0, <2>1, <2>3, ToolsComeNearer
  <2> QED
    BY <1>0, <2>1, <2>2, <2>3, <2>4
<1>4. CASE ProviderRefuses(c)
  <2> DEFINE next == [c EXCEPT !.tools = FALSE, !.rounds = 0]
  <2>1. next \in Chats /\ c.tools /\ c.calls = 0
    BY <1>0, <1>4 DEF Chats, ProviderRefuses, Retries, Posting
  <2>2. chats' = {next} /\ loading' = loading
    BY <1>0, <1>4 DEF ProviderRefuses, Become
  <2>3. next.tools = FALSE /\ next.rounds = 0 /\ next.calls = c.calls
    BY <1>0 DEF Chats
  <2> HIDE DEF next
  <2>4. StepsToAnswer(next) < StepsToAnswer(c)
    BY <1>0, <2>1, <2>3, RetryComesNearer
  <2> QED
    BY <1>0, <2>1, <2>2, <2>3, <2>4
<1> QED
  BY <1>1, <1>2, <1>3, <1>4 DEF ServerStep

LEMMA NextInLoop ==
    ASSUME LoopInv, [ChatNext]_chatVars
    PROVE  /\ LoopInv'
           /\ \A c \in chats : \A next \in chats' :
                 /\ StepsToAnswer(next) <= StepsToAnswer(c)
                 /\ ServerStep(c) => StepsToAnswer(next) < StepsToAnswer(c)
<1>0. ThisConversation' /\ chats \subseteq Chats /\ \A c, d \in chats : c = d
  BY NextKeeps DEF LoopInv, ThisConversation, ChatTypeOK, OneAtATime
<1>n. \A c \in chats : StepsToAnswer(c) \in Nat
  BY <1>0, StepsAreNumbers DEF LoopInv, InLoop
<1>1. ASSUME NEW c \in chats, ServerStep(c) \/ BackendLost(c)
      PROVE  /\ LoopInv'
             /\ \A next \in chats' : StepsToAnswer(next) < StepsToAnswer(c)
  <2>1. CASE chats' = {} /\ loading' = FALSE
    BY <1>0, <2>1 DEF LoopInv
  <2>2. ASSUME loading' = loading,
               NEW next \in Chats, chats' = {next}, next.rounds <= MaxToolIterations,
               StepsToAnswer(next) < StepsToAnswer(c)
        PROVE  /\ LoopInv'
               /\ \A other \in chats' : StepsToAnswer(other) < StepsToAnswer(c)
    <3>1. /\ StepsToAnswer(next) \in Nat /\ StepsToAnswer(next) >= 1
          /\ StepsToAnswer(c) \in 1..(2 * OnePass + 2) /\ OnePass \in Nat
      BY <2>2, StepsAreNumbers, PassFacts DEF LoopInv, InLoop
    <3>2. StepsToAnswer(next) \in 1..(2 * OnePass + 2)
      <4> DEFINE s == StepsToAnswer(next)
                 t == StepsToAnswer(c)
      <4>1. s \in Nat /\ s >= 1 /\ s < t /\ t \in 1..(2 * OnePass + 2)
        BY <2>2, <3>1
      <4> HIDE DEF s, t
      <4>2. s \in 1..(2 * OnePass + 2)
        BY <3>1, <4>1
      <4> QED
        BY <4>2 DEF s
    <3>3. InLoop(next)
      BY <2>2, <3>2 DEF InLoop
    <3>4. \A other \in chats' : InLoop(other)'
      BY <2>2, <3>3 DEF InLoop, StepsToAnswer
    <3> QED
      BY <1>0, <2>2, <3>4 DEF LoopInv
  <2> QED
    BY <1>1, <2>1, <2>2, ServerStepNearer
<1>2. ASSUME SendMessage
      PROVE  LoopInv' /\ chats = {}
  <2>1. chats = {} /\ asked \in Nat
    BY <1>2 DEF SendMessage, LoopInv, ThisConversation, ChatTypeOK, OneAtATime
  <2>2. InLoop(Chat(asked + 1)) /\ chats' = {Chat(asked + 1)}
    BY <1>2, <2>1, ChatStarts DEF SendMessage, LoopInv
  <2> HIDE DEF InLoop
  <2>3. \A c \in chats' : InLoop(c)'
    BY <2>2 DEF InLoop, StepsToAnswer
  <2> QED
    BY <1>0, <2>1, <2>2, <2>3 DEF LoopInv
<1>3. ASSUME ClearChat \/ UNCHANGED chatVars
      PROVE  LoopInv' /\ chats' = chats
  <2>1. chats' = chats /\ loading' = loading
    BY <1>3 DEF ClearChat, chatVars
  <2> QED
    BY <1>0, <2>1 DEF LoopInv, InLoop, StepsToAnswer
<1>4. LoopInv'
  BY <1>1, <1>2, <1>3 DEF ChatNext
<1>5. ASSUME NEW c \in chats, NEW next \in chats'
      PROVE  StepsToAnswer(next) <= StepsToAnswer(c)
  <2>1. ASSUME NEW d \in chats, ServerStep(d) \/ BackendLost(d)
        PROVE  StepsToAnswer(next) <= StepsToAnswer(c)
    <3> DEFINE s == StepsToAnswer(next)
               t == StepsToAnswer(c)
    <3>1. s < t
      BY <1>0, <1>1, <2>1
    <3>2. s \in Int /\ t \in Int
      <4>1. next \in Chats /\ next.rounds <= MaxToolIterations
        BY <1>4, <1>5 DEF LoopInv, ThisConversation, ChatTypeOK, InLoop
      <4> QED
        BY <1>n, <4>1, StepsAreNumbers
    <3> HIDE DEF s, t
    <3>3. s <= t
      BY <3>1, <3>2
    <3> QED
      BY <3>3 DEF s, t
  <2>2. ASSUME chats' = chats
        PROVE  StepsToAnswer(next) <= StepsToAnswer(c)
    BY <1>0, <1>n, <2>2
  <2> QED
    BY <1>2, <1>3, <2>1, <2>2 DEF ChatNext
<1> QED
  BY <1>1, <1>4, <1>5

\* The panel waits for exactly one request; that request needs at most two passes of
\* the tool loop, one of them without tools, and every step of the server brings
\* its answer nearer, whatever the model asks for and however often the
\* conversation is cleared.
THEOREM QuestionsCountDown == ChatSpec => []LoopsAreBounded /\ ComesNearer
<1>1. ChatInit => LoopInv
  BY InitKeeps DEF ChatInit, LoopInv
<1>2. LoopInv /\ [ChatNext]_chatVars
        => /\ LoopInv'
           /\ \A c \in chats : \A next \in chats' :
                 /\ StepsToAnswer(next) <= StepsToAnswer(c)
                 /\ ServerStep(c) => StepsToAnswer(next) < StepsToAnswer(c)
  BY NextInLoop
<1>3. LoopInv => LoopsAreBounded
  BY DEF LoopInv, InLoop, ThisConversation, OneAtATime, LoopsAreBounded
<1> QED
  BY <1>1, <1>2, <1>3, PTL DEF ChatSpec, ComesNearer

-----------------------------------------------------------------------------
(* The connectivity tests.                                                 *)

IsSequence(s) == \E S : s \in Seq(S)

LEMMA AppendFacts ==
    ASSUME NEW s, IsSequence(s), NEW e
    PROVE  /\ IsSequence(Append(s, e))
           /\ Len(s) \in Nat /\ DOMAIN s = 1..Len(s)
           /\ Len(Append(s, e)) = Len(s) + 1 /\ DOMAIN Append(s, e) = 1..(Len(s) + 1)
           /\ \A k \in 1..Len(s) : Append(s, e)[k] = s[k]
           /\ Append(s, e)[Len(s) + 1] = e
<1>1. PICK S : s \in Seq(S)
  BY DEF IsSequence
<1>2. s \in Seq(S \cup {e})
  BY <1>1
<1>3. Append(s, e) \in Seq(S \cup {e})
  BY <1>2
<1> QED
  BY <1>1, <1>2, <1>3 DEF IsSequence

(***************************************************************************)
(* The pod of a test.  What is inductive beside the property: there is no  *)
(* pod of a test that is still to come or has not created it, and none     *)
(* once its delete returned.                                               *)
(***************************************************************************)
TestsAreSent ==
    /\ IsSequence(tests)
    /\ running <=> stage # "idle"
    /\ running => Test >= 1

PodsAreCreated ==
    /\ \A p \in diagPods : p \in Nat /\ p <= Test
    /\ stage \in {"resolve", "create"} => Test \notin diagPods
    /\ stage = "answer" => Test \notin diagPods \/ Test \in excused

PodsAccounted == TestsAreSent /\ PodsAreCreated /\ PodGoesWithItsTest

LEMMA NextPodsAccounted ==
    ASSUME PodsAccounted, [DiagNext]_diagVars
    PROVE  PodsAccounted'
<1>0. Len(tests) \in Nat
  BY AppendFacts DEF PodsAccounted, TestsAreSent
<1> USE <1>0 DEF PodsAccounted, TestsAreSent, PodsAreCreated, PodGoesWithItsTest, Test, form, endpoint
<1>1. CASE RunTest
  <2> DEFINE new == [space |-> space, target |-> chosen[kind], port |-> port,
                     tested |-> ResolvedTargetPort]
  <2>1. /\ ~running /\ running' = TRUE /\ tests' = Append(tests, new) /\ stage' = "resolve"
        /\ UNCHANGED <<diagPods, excused>>
    BY <1>1 DEF RunTest
  <2> HIDE DEF new
  <2>2. IsSequence(tests') /\ Len(tests') = Len(tests) + 1
    BY <2>1, AppendFacts
  <2> QED
    BY <2>1, <2>2
<1>2. CASE ChooseSource \/ ChooseKind \/ ClearLogs \/ UNCHANGED diagVars
           \/ (\E s \in DiagSpaces : ChooseSpace(s))
           \/ (\E t \in DiagPods \cup DiagServices : ChooseTarget(t))
           \/ (\E t \in Fickle : ListingChanges(t))
           \/ (\E p \in TypedPorts \cup UNION {PortsOf[t] : t \in DiagPods \cup DiagServices} :
                  ChoosePort(p))
           \/ (\E p \in diagPods : PodEnds(p))
  BY <1>2 DEF ChooseSource, ChooseKind, ClearLogs, diagVars, ChooseSpace, ChooseTarget,
              ListingChanges, ChoosePort, PodEnds
<1>3. CASE Resolve
  BY <1>3 DEF Resolve, Goto, TestEnds
<1>4. CASE CreatePod
  BY <1>4 DEF CreatePod, Goto
<1>5. CASE CreateFails
  BY <1>5 DEF CreateFails, TestEnds
<1>6. CASE Poll \/ StopPolling \/ ReadLogs
  BY <1>6 DEF Poll, StopPolling, ReadLogs, AfterLogs, Goto
<1>7. CASE DeletePod
  BY <1>7 DEF DeletePod, Goto
<1>8. CASE DeleteFails
  BY <1>8 DEF DeleteFails, Goto
<1>9. CASE Answered
  BY <1>9 DEF Answered, TestEnds
<1>10. CASE BackendDies
  BY <1>10 DEF BackendDies, TestEnds
<1> QED
  BY <1>1, <1>2, <1>3, <1>4, <1>5, <1>6, <1>7, <1>8, <1>9, <1>10 DEF DiagNext, EndpointStep

LEMMA InitPodsAccounted == DiagInit => PodsAccounted
<1>1. IsSequence(<<>>)
  BY DEF IsSequence
<1> QED
  BY <1>1 DEF DiagInit, PodsAccounted, TestsAreSent, PodsAreCreated, PodGoesWithItsTest

\* A test leaves no pod behind, however it ends, unless a create or a delete
\* failed or the backend died (connectivity_diagnostics).
THEOREM PodsAreDeleted == DiagSpec => []PodGoesWithItsTest
<1>1. PodsAccounted => PodGoesWithItsTest
  BY DEF PodsAccounted
<1> QED
  BY <1>1, InitPodsAccounted, NextPodsAccounted, PTL DEF DiagSpec

-----------------------------------------------------------------------------
(***************************************************************************)
(* The line of a result.  What is inductive beside the property: a request *)
(* tests the port of the form, unless that port was not on offer.          *)
(***************************************************************************)
Fields == {"space", "target", "port", "tested"}

PortIsTested(t) == t.port = t.tested \/ t.port \notin PortsOf[t.target]

RequestsAreTrue ==
    /\ \A k \in DOMAIN tests : DOMAIN tests[k] = Fields /\ PortIsTested(tests[k])
    /\ \A r \in results : r.tested \in DOMAIN tests

LEMMA NextNamesItsTest ==
    ASSUME PodsAccounted, RequestsAreTrue, ResultNamesItsTest, [DiagNext]_diagVars
    PROVE  RequestsAreTrue' /\ ResultNamesItsTest'
<1>0. Len(tests) \in Nat /\ DOMAIN tests = 1..Len(tests)
  BY AppendFacts DEF PodsAccounted, TestsAreSent
<1>1. CASE RunTest
  <2> DEFINE new == [space |-> space, target |-> chosen[kind], port |-> port,
                     tested |-> ResolvedTargetPort]
  <2>1. tests' = Append(tests, new) /\ results' = results
    BY <1>1 DEF RunTest
  <2>2. DOMAIN new = Fields /\ PortIsTested(new)
    <3>1. PortOptions = {} \/ port \in PortOptions => new.tested = new.port
      BY DEF ResolvedTargetPort
    <3>2. PortOptions # {} => PortOptions = PortsOf[new.target]
      BY DEF PortOptions
    <3> QED
      BY <3>1, <3>2 DEF PortIsTested, Fields
  <2> HIDE DEF new
  <2>3. /\ DOMAIN tests' = 1..(Len(tests) + 1) /\ tests'[Len(tests) + 1] = new
        /\ \A k \in DOMAIN tests : tests'[k] = tests[k]
    BY <2>1, AppendFacts DEF PodsAccounted, TestsAreSent
  <2>4. RequestsAreTrue'
    BY <1>0, <2>1, <2>2, <2>3 DEF RequestsAreTrue
  <2> QED
    BY <2>1, <2>3, <2>4 DEF RequestsAreTrue, ResultNamesItsTest
<1>2. CASE Answered
  <2> DEFINE line == [tests[Test] EXCEPT !.tested = Test]
  <2>1. tests' = tests /\ results' = results \cup {line}
    BY <1>2 DEF Answered, TestEnds, Named, form
  <2>2. Test \in DOMAIN tests
    BY <1>0, <1>2 DEF Answered, PodsAccounted, TestsAreSent, Test
  <2>3. DOMAIN tests[Test] = Fields /\ PortIsTested(tests[Test])
    BY <2>2 DEF RequestsAreTrue
  <2>4. /\ line.space = tests[Test].space /\ line.target = tests[Test].target
        /\ line.port = tests[Test].port /\ line.tested = Test
    BY <2>3 DEF Fields
  <2> HIDE DEF line
  <2> QED
    BY <2>1, <2>2, <2>3, <2>4 DEF RequestsAreTrue, ResultNamesItsTest, PortIsTested
<1>3. CASE tests' = tests /\ results' \subseteq results
  BY <1>3 DEF RequestsAreTrue, ResultNamesItsTest
<1> QED
  BY <1>1, <1>2, <1>3
  DEF DiagNext, EndpointStep, diagVars, form, endpoint, ChooseSource, ChooseKind, ClearLogs,
      ChooseSpace, ChooseTarget, ListingChanges, ChoosePort, PodEnds, Resolve, CreatePod,
      CreateFails, Poll, StopPolling, ReadLogs, DeletePod, DeleteFails, BackendDies, Goto, TestEnds

\* A result in the log names the target that was tested, and the port that was
\* tested unless the form's was not on offer, whatever is changed in the form
\* while the test runs (handleRunTest, resolvedTargetPort).
THEOREM ResultsNameTheirTest == DiagSpec => []ResultNamesItsTest
<1>1. DiagInit => RequestsAreTrue /\ ResultNamesItsTest
  BY DEF DiagInit, RequestsAreTrue, ResultNamesItsTest
<1>2. PodsAccounted /\ RequestsAreTrue /\ ResultNamesItsTest /\ [DiagNext]_diagVars
          => RequestsAreTrue' /\ ResultNamesItsTest'
  BY NextNamesItsTest
<1> QED
  BY <1>1, <1>2, InitPodsAccounted, NextPodsAccounted, PTL DEF DiagSpec

-----------------------------------------------------------------------------
(***************************************************************************)
(* A test does not hold its pod, or the panel, for ever: how many steps    *)
(* the endpoint still needs at most, the seconds it waits included.        *)
(***************************************************************************)
StepsToResult(at, waited) ==
    CASE at = "resolve" -> MaxPolls + 6
      [] at = "create"  -> MaxPolls + 5
      [] at = "poll"    -> (MaxPolls - waited) + 4
      [] at = "logs"    -> 3
      [] at = "delete"  -> 2
      [] at = "answer"  -> 1
      [] OTHER          -> 0

Stages == {"idle", "resolve", "create", "poll", "logs", "delete", "answer"}

WaitsInBounds == stage \in Stages /\ polls \in 0..MaxPolls

TestIsBounded ==
    /\ StepsToResult(stage, polls) \in 0..(MaxPolls + 6)
    /\ running <=> StepsToResult(stage, polls) > 0

GetsNearer ==
    [][/\ running => StepsToResult(stage', polls') <= StepsToResult(stage, polls)
       /\ EndpointStep => StepsToResult(stage', polls') < StepsToResult(stage, polls)]_diagVars

LEMMA ResultSteps ==
    ASSUME NEW at \in Stages, NEW waited \in 0..MaxPolls
    PROVE  /\ StepsToResult(at, waited) \in 0..(MaxPolls + 6)
           /\ StepsToResult(at, waited) > 0 <=> at # "idle"
<1>1. MaxPolls \in Nat /\ waited \in Nat /\ waited <= MaxPolls
  BY DiagAssumption
<1>2. /\ StepsToResult("resolve", waited) = MaxPolls + 6
      /\ StepsToResult("create", waited) = MaxPolls + 5
      /\ StepsToResult("poll", waited) = (MaxPolls - waited) + 4
      /\ StepsToResult("logs", waited) = 3 /\ StepsToResult("delete", waited) = 2
      /\ StepsToResult("answer", waited) = 1 /\ StepsToResult("idle", waited) = 0
  BY DEF StepsToResult
<1> QED
  BY <1>1, <1>2 DEF Stages

\* Where a step of the endpoint leads, and how long it has waited by then.
LEMMA EndpointStepNearer ==
    ASSUME WaitsInBounds, EndpointStep
    PROVE  /\ WaitsInBounds'
           /\ StepsToResult(stage', polls') < StepsToResult(stage, polls)
<1>1. MaxPolls \in Nat /\ polls \in 0..MaxPolls
  BY DiagAssumption DEF WaitsInBounds
<1>2. \/ /\ polls' = polls
         /\ \/ stage = "resolve" /\ stage' \in {"create", "idle"}
            \/ stage = "create"  /\ stage' \in {"poll", "idle"}
            \/ stage = "poll"    /\ stage' = "logs"
            \/ stage = "logs"    /\ stage' = "delete"
            \/ stage = "delete"  /\ stage' = "answer"
            \/ stage = "answer"  /\ stage' = "idle"
      \/ /\ stage = "poll" /\ stage' \in {"poll", "logs"}
         /\ polls < MaxPolls /\ polls' = polls + 1
  BY DEF EndpointStep, Resolve, CreatePod, CreateFails, Poll, StopPolling, ReadLogs, DeletePod,
         DeleteFails, Answered, Goto, TestEnds, AfterLogs
<1>3. polls' \in 0..MaxPolls
  BY <1>1, <1>2
<1>4. WaitsInBounds'
  BY <1>2, <1>3 DEF WaitsInBounds, Stages
<1>5. \A w : /\ StepsToResult("resolve", w) = MaxPolls + 6
             /\ StepsToResult("create", w) = MaxPolls + 5
             /\ StepsToResult("poll", w) = (MaxPolls - w) + 4
             /\ StepsToResult("logs", w) = 3 /\ StepsToResult("delete", w) = 2
             /\ StepsToResult("answer", w) = 1 /\ StepsToResult("idle", w) = 0
  BY DEF StepsToResult
<1>6. StepsToResult(stage', polls') < StepsToResult(stage, polls)
  BY <1>1, <1>2, <1>3, <1>5
<1> QED
  BY <1>4, <1>6

LEMMA OtherStepsNearer ==
    ASSUME WaitsInBounds, PodsAccounted, [DiagNext]_diagVars, ~EndpointStep
    PROVE  /\ WaitsInBounds'
           /\ running => StepsToResult(stage', polls') <= StepsToResult(stage, polls)
<1>1. \/ UNCHANGED <<stage, polls>>
      \/ ~running /\ stage' = "resolve" /\ polls' = 0
      \/ stage' = "idle" /\ polls' = polls
  BY DEF DiagNext, diagVars, form, endpoint, ChooseSource, ChooseKind, RunTest, ClearLogs,
         ChooseSpace, ChooseTarget, ListingChanges, ChoosePort, PodEnds, BackendDies, TestEnds
<1>2. WaitsInBounds'
  BY <1>1, DiagAssumption DEF WaitsInBounds, Stages
<1>3. StepsToResult(stage, polls) \in 0..(MaxPolls + 6) /\ MaxPolls \in Nat
  BY ResultSteps, DiagAssumption DEF WaitsInBounds
<1>4. StepsToResult("idle", polls') = 0
  BY DEF StepsToResult
<1>5. ASSUME UNCHANGED <<stage, polls>>
      PROVE  StepsToResult(stage', polls') <= StepsToResult(stage, polls)
  BY <1>3, <1>5
<1>6. ASSUME stage' = "idle"
      PROVE  StepsToResult(stage', polls') <= StepsToResult(stage, polls)
  BY <1>3, <1>4, <1>6
<1> QED
  BY <1>1, <1>2, <1>5, <1>6

\* While a test runs the endpoint has at most MaxPolls + 6 steps before it, the wait
\* for the pod included, and every step of it is one less: failures and the user,
\* who may change the form meanwhile, never put the test back.
THEOREM TestsCountDown == DiagSpec => []TestIsBounded /\ GetsNearer
<1>1. DiagInit => WaitsInBounds
  BY DiagAssumption DEF DiagInit, WaitsInBounds, Stages
<1>2. PodsAccounted /\ WaitsInBounds /\ [DiagNext]_diagVars
        => /\ WaitsInBounds'
           /\ running => StepsToResult(stage', polls') <= StepsToResult(stage, polls)
           /\ EndpointStep => StepsToResult(stage', polls') < StepsToResult(stage, polls)
  <2> SUFFICES ASSUME PodsAccounted, WaitsInBounds, [DiagNext]_diagVars
               PROVE  /\ WaitsInBounds'
                      /\ running => StepsToResult(stage', polls') <= StepsToResult(stage, polls)
                      /\ EndpointStep => StepsToResult(stage', polls') < StepsToResult(stage, polls)
    OBVIOUS
  <2>1. ASSUME EndpointStep
        PROVE  StepsToResult(stage', polls') <= StepsToResult(stage, polls)
    <3> DEFINE now == StepsToResult(stage', polls')
               was == StepsToResult(stage, polls)
    <3>1. now < was
      BY <2>1, EndpointStepNearer
    <3>2. was \in 0..(MaxPolls + 6)
      BY ResultSteps DEF WaitsInBounds
    <3>3. now \in 0..(MaxPolls + 6)
      <4>1. stage' \in Stages /\ polls' \in 0..MaxPolls
        BY <2>1, EndpointStepNearer DEF WaitsInBounds
      <4> QED
        BY <4>1, ResultSteps
    <3> HIDE DEF now, was
    <3>4. now <= was
      BY <3>1, <3>2, <3>3, DiagAssumption
    <3> QED
      BY <3>4 DEF now, was
  <2>2. CASE EndpointStep
    BY <2>1, <2>2, EndpointStepNearer
  <2>3. CASE ~EndpointStep
    BY <2>3, OtherStepsNearer
  <2> QED
    BY <2>2, <2>3
<1>3. PodsAccounted /\ WaitsInBounds => TestIsBounded
  BY ResultSteps DEF PodsAccounted, TestsAreSent, WaitsInBounds, TestIsBounded
<1> QED
  BY <1>1, <1>2, <1>3, InitPodsAccounted, NextPodsAccounted, PTL DEF DiagSpec, GetsNearer
=============================================================================
