---------------------------- MODULE ConfigForms ----------------------------
(***************************************************************************)
(* The editors of the configuration panel (ClusterConfigPanel.tsx): one    *)
(* modal form for six types of objects, the detail fetch that fills the    *)
(* form of a config map or a secret, the save, and the prompt that an open *)
(* or a save may have to wait for.  What a field holds is abstracted to    *)
(* where it comes from: an object's detail, or the user.  A visit of the   *)
(* panel: SuperUserSession has the timers, and what outlives a visit.      *)
(***************************************************************************)
EXTENDS Naturals, FiniteSets

CONSTANTS
    Objects,    \* objects of the cluster, and the one a create form names
    TypeOf,     \* TypeOf[o]: the type of o
    MaxOpens,   \* bound: editors opened
    MaxSaves,   \* bound: saves pressed
    MaxPrompts  \* bound: passwords submitted

New   == "new"      \* the object that a create form makes
Typed == "typed"
Nobody == "nobody"

\* The create form makes an object; a closed modal edits none.
ASSUME FormAssumption == New \in Objects /\ Nobody \notin Objects

\* Types whose editor fetches a detail, and whose values the cluster keeps.
WithData  == {"configmap", "secret"}
\* Types without an editor, and whose editor asks for the session first.
NoEditor  == {"namespace", "service", "node"}
GatedEdit == {"secret"}

VARIABLES
    unlocked,   \* _superUserSession
    bar,        \* superUserActive
    prompt,     \* showAuth
    waiting,    \* pendingAction: a set with at most one deferred open or save
    awaited,    \* the login the open prompt waits for, if any
    late,       \* logins under way whose prompt was dismissed or replaced
    editor,     \* the object of the modal, Nobody when it is closed
    shown,      \* where the lines in the form come from
    details,    \* detail fetches under way
    saving,     \* "saving"
    saves,      \* saves under way
    data,       \* data[o]: where the values of o in the cluster come from
    opens,
    presses,
    tries,      \* logins submitted
    sends,      \* saves sent
    hurried,    \* whether an editor closed, or gave way, before its detail came
    strays      \* how many logins went on without their prompt

promptVars == <<unlocked, bar, prompt, waiting, awaited, late, tries, strays>>
editorVars == <<editor, shown, details, opens, hurried>>
saveVars   == <<saving, saves, data, presses, sends>>
formVars   == <<promptVars, editorVars, saveVars>>

Open(o) == [do |-> "open", object |-> o]
Save(o) == [do |-> "save", object |-> o,
            lines |-> IF TypeOf[o] \in WithData THEN shown ELSE {Typed}]

FormInit ==
    /\ unlocked \in BOOLEAN
    /\ bar = FALSE /\ prompt = FALSE
    /\ waiting = {} /\ awaited = {} /\ late = {}
    /\ editor  = Nobody
    /\ shown   = {}
    /\ details = {}
    /\ saving  = FALSE
    /\ saves   = {}
    /\ data    = [o \in Objects |-> IF o = New THEN {} ELSE {o}]
    /\ opens = 0 /\ presses = 0 /\ tries = 0 /\ sends = 0 /\ strays = 0
    /\ hurried = FALSE

\* What openModal asks the backend for.
Detail(o) == IF o # New /\ TypeOf[o] \in WithData
             THEN {[object |-> o, id |-> opens + 1]}
             ELSE {}

\* Validation: an existing object can be saved as it is; a new one needs a name.
Valid == editor # New \/ Typed \in shown
-----------------------------------------------------------------------------
(* Slips: what a definition would be after a plausible mistake in its code. *)

\* The closure reads the form when it runs, not when Save was pressed.
DeferredFromForm(w) == IF w.do = "save" THEN [w EXCEPT !.lines = shown] ELSE w
-----------------------------------------------------------------------------
(* openModal and executeWithAuth *)

\* The form starts empty, whatever it held; a detail is on its way.
OpenModal(o) ==
    /\ editor'  = o
    /\ shown'   = {}
    /\ details' = details \cup Detail(o)
    /\ opens'   = opens + 1
    /\ hurried' = (hurried \/ details # {})

Execute(w) ==
    /\ saving' = TRUE
    /\ saves'  = saves \cup {[object |-> w.object, lines |-> w.lines, id |-> sends + 1]}
    /\ sends'  = sends + 1

\* setPendingAction and setShowAuth.
AskFor(w) ==
    /\ waiting' = {w}
    /\ prompt'  = TRUE
    /\ UNCHANGED <<unlocked, bar, awaited, late, tries, strays>>

\* The edit buttons of the tables, which the prompt and the modal cover.
Edit(o) ==
    /\ ~prompt /\ editor = Nobody /\ o # New /\ TypeOf[o] \notin NoEditor /\ opens < MaxOpens
    /\ IF TypeOf[o] \in GatedEdit /\ ~unlocked
       THEN AskFor(Open(o)) /\ UNCHANGED editorVars
       ELSE OpenModal(o) /\ UNCHANGED promptVars
    /\ UNCHANGED saveVars

\* The create buttons of the sections.
Create ==
    /\ ~prompt /\ editor = Nobody /\ opens < MaxOpens
    /\ IF unlocked
       THEN OpenModal(New) /\ UNCHANGED promptVars
       ELSE AskFor(Open(New)) /\ UNCHANGED editorVars
    /\ UNCHANGED saveVars

\* A field of the form.
Type ==
    /\ ~prompt /\ editor # Nobody
    /\ shown' = shown \cup {Typed}
    /\ UNCHANGED <<promptVars, editor, details, opens, hurried, saveVars>>

\* The answer fills the form that is there now; with none, the next open empties it.
DetailArrives(d) ==
    /\ d \in details
    /\ details' = details \ {d}
    /\ shown'   = {d.object}
    /\ UNCHANGED <<promptVars, editor, opens, hurried, saveVars>>

\* The answer to a config map is used whatever its status: an error empties the form.
DetailFails(d) ==
    /\ d \in details
    /\ details' = details \ {d}
    /\ shown' \in {shown} \cup (IF TypeOf[d.object] = "configmap" THEN {{}} ELSE {})
    /\ UNCHANGED <<promptVars, editor, opens, hurried, saveVars>>

CloseModal ==
    /\ editor'  = Nobody
    /\ shown'   = {}
    /\ hurried' = (hurried \/ details # {})
    /\ UNCHANGED <<details, opens>>

\* Cancel, the cross, or a click beside the form: also while it is saved.
Cancel ==
    /\ ~prompt /\ editor # Nobody
    /\ CloseModal
    /\ UNCHANGED <<promptVars, saveVars>>

\* handleSave, withAuth: what is sent is fixed now.
PressSave ==
    /\ ~prompt /\ editor # Nobody /\ ~saving /\ Valid /\ presses < MaxSaves
    /\ IF unlocked
       THEN Execute(Save(editor)) /\ UNCHANGED promptVars
       ELSE AskFor(Save(editor)) /\ UNCHANGED <<saving, saves, sends>>
    /\ presses' = presses + 1
    /\ UNCHANGED <<editorVars, data>>

\* The cluster merges a patch.
Merged(w) == [data EXCEPT ![w.object] = @ \cup w.lines]

\* Whichever form is open closes.
SaveSucceeds(w) ==
    /\ w \in saves
    /\ saves'  = saves \ {w}
    /\ saving' = FALSE
    /\ data'   = Merged(w)
    /\ CloseModal
    /\ UNCHANGED <<promptVars, presses, sends>>

\* The form stays open with the error; the patch may have been applied.
SaveFails(w) ==
    /\ w \in saves
    /\ saves'  = saves \ {w}
    /\ saving' = FALSE
    /\ data'  \in {data, Merged(w)}
    /\ UNCHANGED <<promptVars, editorVars, presses, sends>>
-----------------------------------------------------------------------------
(* The prompt and the bar *)

\* The button Unlock of the bar, which a returning visitor has in a session too.
PressUnlock ==
    /\ ~prompt /\ editor = Nobody /\ ~bar
    /\ prompt' = TRUE
    /\ UNCHANGED <<unlocked, bar, waiting, awaited, late, tries, strays, editorVars, saveVars>>

\* handleSubmit: the login will run what waits now.
SubmitPassword ==
    /\ prompt /\ awaited = {} /\ tries < MaxPrompts
    /\ awaited' = {[id |-> tries + 1, action |-> waiting]}
    /\ tries'  = tries + 1
    /\ UNCHANGED <<unlocked, bar, prompt, waiting, late, strays, editorVars, saveVars>>

\* The prompt goes; the logins "ls" go on without one.
ClosePrompt(ls) ==
    /\ prompt' = FALSE
    /\ awaited' = {}
    /\ strays' = strays + Cardinality(ls)

\* handleAuthCancel: what waits goes on waiting.
DismissPrompt ==
    /\ prompt
    /\ ClosePrompt(awaited)
    /\ late' = late \cup awaited
    /\ UNCHANGED <<unlocked, bar, waiting, tries, editorVars, saveVars>>

\* What the deferred closure holds when it runs.
Deferred(w) == w

Run(ws) ==
    \/ ws = {} /\ UNCHANGED <<editorVars, saveVars>>
    \/ \E w \in ws : /\ w.do = "open" /\ OpenModal(w.object)
                     /\ UNCHANGED saveVars
    \/ \E w \in ws : /\ w.do = "save" /\ Execute(Deferred(w))
                     /\ UNCHANGED <<editorVars, data, presses>>

\* handleAuthenticated, of any login, also one of an earlier prompt: it runs the
\* action its own closure holds, whatever waits now or is being saved.
PasswordIsRight(l) ==
    /\ l \in awaited \cup late
    /\ unlocked' = TRUE
    /\ bar'      = TRUE
    /\ ClosePrompt(awaited \ {l})
    /\ late'     = (late \cup awaited) \ {l}
    /\ waiting'  = IF l.action # {} THEN {} ELSE waiting
    /\ Run(l.action)
    /\ UNCHANGED tries

PasswordIsWrong(l) ==
    /\ l \in awaited \cup late
    /\ awaited' = awaited \ {l}
    /\ late'   = late \ {l}
    /\ UNCHANGED <<unlocked, bar, prompt, waiting, tries, strays, editorVars, saveVars>>

\* The button Lock of the bar, or the end of the 15 minutes.
SessionEnds ==
    /\ bar
    /\ unlocked' = FALSE
    /\ bar'      = FALSE
    /\ UNCHANGED <<prompt, waiting, awaited, late, tries, strays, editorVars, saveVars>>

FormNext ==
    \/ \E o \in Objects : Edit(o)
    \/ Create \/ Type \/ Cancel \/ PressSave
    \/ \E d \in details : DetailArrives(d) \/ DetailFails(d)
    \/ \E w \in saves : SaveSucceeds(w) \/ SaveFails(w)
    \/ PressUnlock \/ SubmitPassword \/ DismissPrompt \/ SessionEnds
    \/ \E l \in awaited \cup late : PasswordIsRight(l) \/ PasswordIsWrong(l)

FormSpec == FormInit /\ [][FormNext]_formVars
-----------------------------------------------------------------------------
FormTypeOK ==
    /\ unlocked \in BOOLEAN /\ saving \in BOOLEAN /\ hurried \in BOOLEAN
    /\ bar \in BOOLEAN /\ prompt \in BOOLEAN
    /\ editor \in Objects \cup {Nobody}
    /\ shown \subseteq Objects \cup {Typed}
    /\ data \in [Objects -> SUBSET (Objects \cup {Typed})]
    /\ \A d \in details : d.object \in Objects
    /\ \A w \in saves \cup waiting : w.object \in Objects
    /\ Cardinality(waiting) <= 1 /\ Cardinality(awaited) <= 1
    /\ {opens, presses, tries, sends, strays} \subseteq Nat

\* Save is disabled while a save is under way, and a save that waits for the
\* prompt is replaced by the next one: two are under way at once only when a login
\* goes on whose prompt was dismissed or replaced, one more for each such login.
\* And whatever saves wait, fail, or answer when another editor is open, an object
\* only ever gets its own values and what the user typed - as long as every
\* editor's detail came before the editor closed.
CalmEditorsKeepApart ==
    /\ FormTypeOK
    /\ Cardinality(saves) <= 1 + strays
    /\ ~hurried => \A o \in Objects : data[o] \subseteq {o, Typed}

\* ClusterConfigPanel.tsx:368, "Fetch full detail (with values) for editing": the
\* values in an editor are those of the object it edits.
EditorShowsItsObject ==
    editor # Nobody /\ TypeOf[editor] \in WithData => shown \subseteq {editor, Typed}
=============================================================================
