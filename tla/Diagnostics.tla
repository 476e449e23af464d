---------------------------- MODULE Diagnostics ----------------------------
(***************************************************************************)
(* Connectivity tests: the form and the log of the panel                   *)
(* (DiagnosticsPanel.tsx), and the endpoint that creates a pod, waits for  *)
(* it, reads it and deletes it (connectivity_diagnostics in cni.py).  Of   *)
(* the log only the lines that state a result are kept; a test that the    *)
(* validation refuses adds a line and does nothing else.                   *)
(***************************************************************************)
EXTENDS Naturals, Sequences

CONSTANTS
    DiagPods, DiagServices,  \* what can be tested
    DiagSpaces,              \* namespaces
    SpaceOf,                 \* SpaceOf[t]: the namespace of target t
    PortsOf,                 \* PortsOf[t]: the ports that the dashboard knows for t
    TypedPorts,              \* ports the user may type; 80 is there at first
    Fickle,                  \* bound: targets that may come and go
    MaxTests,                \* bound: tests run
    MaxPolls                 \* seconds that the endpoint waits (5 to 60)

ASSUME DiagAssumption == MaxPolls \in Nat

VARIABLES
    source,     \* whether a source pod is chosen
    kind,       \* targetType
    space,      \* targetNs
    chosen,     \* chosen[k]: targetPod and targetService
    port,       \* targetPort
    listed,     \* the targets that the dashboard lists now
    running,
    tests,      \* the requests sent, in order
    results,    \* the results in the log
    stage,      \* where the endpoint is
    polls,
    diagPods,   \* diagnostic pods in the cluster, by test
    ended,      \* those that have come to an end
    excused     \* tests with a failed create or delete, or whose backend died

form     == <<source, kind, space, chosen, port, listed>>
endpoint == <<stage, polls, diagPods, ended, excused>>
diagVars == <<form, running, tests, results, endpoint>>

Nothing == ""
Targets == [pod |-> DiagPods, service |-> DiagServices]
Test    == Len(tests)      \* the test under way

DiagInit ==
    /\ source = FALSE /\ kind = "pod"
    /\ space = "default"
    /\ chosen = [k \in {"pod", "service"} |-> Nothing]
    /\ port = 80
    /\ listed = DiagPods \cup DiagServices
    /\ running = FALSE
    /\ tests = <<>> /\ results = {}
    /\ stage = "idle" /\ polls = 0
    /\ diagPods = {} /\ ended = {} /\ excused = {}

\* podsInTargetNs, servicesInTargetNs
Listed(k) == {t \in listed \cap Targets[k] : SpaceOf[t] = space}

\* portOptions: what the chosen target offers.
PortOptions ==
    IF chosen[kind] \in Listed(kind) THEN PortsOf[chosen[kind]] ELSE {}

Smallest(S) == CHOOSE p \in S : \A q \in S : p <= q

\* resolvedTargetPort: a port that is not on offer gives way to the first one.
ResolvedTargetPort ==
    IF PortOptions = {} \/ port \in PortOptions THEN port ELSE Smallest(PortOptions)
-----------------------------------------------------------------------------
(* Slips: what a definition would be after a plausible mistake in its code. *)

\* Without useCallback the names are those in the form when the answer comes.
NamedLate(t) == [t EXCEPT !.space = space, !.target = chosen[kind], !.port = port]

\* A failed read of the logs ends the handler.
OnlyWithLogs(read) == IF read THEN "delete" ELSE "answer"
-----------------------------------------------------------------------------
(* The form.  Nothing in it is disabled while a test runs. *)

ChooseSource ==
    /\ source' = ~source
    /\ UNCHANGED <<kind, space, chosen, port, listed, running, tests, results, endpoint>>

ChooseKind ==
    /\ kind' = IF kind = "pod" THEN "service" ELSE "pod"
    /\ UNCHANGED <<source, space, chosen, port, listed, running, tests, results, endpoint>>

ChooseSpace(s) ==
    /\ s # space
    /\ space'  = s
    /\ chosen' = [k \in {"pod", "service"} |-> Nothing]
    /\ UNCHANGED <<source, kind, port, listed, running, tests, results, endpoint>>

\* Choosing a service forgets the pod; the name of one that is not listed is typed,
\* and the pod stays.
ChooseTarget(t) ==
    \/ /\ t \in Listed(kind)
       /\ chosen' = IF kind = "service" THEN [pod |-> Nothing, service |-> t]
                    ELSE [chosen EXCEPT !.pod = t]
       /\ UNCHANGED <<source, kind, space, port, listed, running, tests, results, endpoint>>
    \/ /\ kind = "service" /\ t \in DiagServices /\ Listed("service") = {}
       /\ chosen' = [chosen EXCEPT !.service = t]
       /\ UNCHANGED <<source, kind, space, port, listed, running, tests, results, endpoint>>

ChoosePort(p) ==
    /\ p \in (IF PortOptions # {} THEN PortOptions ELSE TypedPorts)
    /\ port' = p
    /\ UNCHANGED <<source, kind, space, chosen, listed, running, tests, results, endpoint>>

\* A refresh of the dashboard loses or finds a target.
ListingChanges(t) ==
    /\ listed' = IF t \in listed THEN listed \ {t} ELSE listed \cup {t}
    /\ UNCHANGED <<source, kind, space, chosen, port, running, tests, results, endpoint>>

\* handleRunTest, up to its fetch
RunTest ==
    /\ ~running /\ Test < MaxTests
    /\ source /\ chosen[kind] # Nothing
    /\ running' = TRUE
    /\ tests'   = Append(tests, [space |-> space, target |-> chosen[kind], port |-> port,
                                 tested |-> ResolvedTargetPort])
    /\ stage'   = "resolve"
    /\ polls'   = 0
    /\ UNCHANGED <<form, results, diagPods, ended, excused>>

ClearLogs ==
    /\ results # {}
    /\ results' = {}
    /\ UNCHANGED <<form, running, tests, endpoint>>

\* The line with the result is written with the fields of the press.
Named(t) == t

\* handleRunTest, from the answer on; only an answer of the endpoint's own has a result.
TestEnds(withResult) ==
    /\ running' = FALSE
    /\ stage'   = "idle"
    /\ results' = IF withResult THEN results \cup {[Named(tests[Test]) EXCEPT !.tested = Test]}
                  ELSE results
    /\ UNCHANGED <<form, tests>>
-----------------------------------------------------------------------------
(* The endpoint *)

Goto(next) == stage' = next /\ UNCHANGED <<form, running, tests, results>>

\* Validation, and the address of the target pod; otherwise 400.
Resolve ==
    /\ stage = "resolve"
    /\ \/ Goto("create")
       \/ TestEnds(FALSE)
    /\ UNCHANGED <<polls, diagPods, ended, excused>>

CreatePod ==
    /\ stage = "create"
    /\ diagPods' = diagPods \cup {Test}
    /\ Goto("poll")
    /\ UNCHANGED <<polls, ended, excused>>

\* The call raises; it may have taken effect.
CreateFails ==
    /\ stage = "create"
    /\ \E effect \in {{}, {Test}} : diagPods' = diagPods \cup effect
    /\ excused' = excused \cup {Test}
    /\ TestEnds(FALSE)
    /\ UNCHANGED <<polls, ended>>

\* One round of the loop: a second, then a look at the pod, which may fail.
Poll ==
    /\ stage = "poll" /\ polls < MaxPolls
    /\ polls' = polls + 1
    /\ \/ Test \in ended /\ Goto("logs")
       \/ Test \notin ended /\ Goto("poll")
       \/ Goto("logs")
    /\ UNCHANGED <<diagPods, ended, excused>>

StopPolling ==
    /\ stage = "poll" /\ polls = MaxPolls
    /\ Goto("logs")
    /\ UNCHANGED <<polls, diagPods, ended, excused>>

\* Where a read that failed goes on.
AfterLogs(read) == "delete"

ReadLogs ==
    /\ stage = "logs"
    /\ \E read \in BOOLEAN : Goto(AfterLogs(read))
    /\ UNCHANGED <<polls, diagPods, ended, excused>>

DeletePod ==
    /\ stage = "delete"
    /\ diagPods' = diagPods \ {Test}
    /\ ended'    = ended \ {Test}
    /\ Goto("answer")
    /\ UNCHANGED <<polls, excused>>

\* Swallowed; the call may have taken effect.
DeleteFails ==
    /\ stage = "delete"
    /\ diagPods' \in {diagPods, diagPods \ {Test}}
    /\ ended'    = ended \cap diagPods'
    /\ excused'  = excused \cup {Test}
    /\ Goto("answer")
    /\ UNCHANGED polls

Answered ==
    /\ stage = "answer"
    /\ TestEnds(TRUE)
    /\ UNCHANGED <<polls, diagPods, ended, excused>>

\* The kubelet, or activeDeadlineSeconds
PodEnds(p) ==
    /\ p \in diagPods \ ended
    /\ ended' = ended \cup {p}
    /\ UNCHANGED <<form, running, tests, results, stage, polls, diagPods, excused>>

\* The browser gets a network error.
BackendDies ==
    /\ stage # "idle"
    /\ excused' = excused \cup {Test}
    /\ TestEnds(FALSE)
    /\ UNCHANGED <<polls, diagPods, ended>>

EndpointStep ==
    \/ Resolve \/ CreatePod \/ CreateFails \/ Poll \/ StopPolling
    \/ ReadLogs \/ DeletePod \/ DeleteFails \/ Answered

DiagNext ==
    \/ ChooseSource \/ ChooseKind \/ RunTest \/ ClearLogs
    \/ \E s \in DiagSpaces : ChooseSpace(s)
    \/ \E t \in DiagPods \cup DiagServices : ChooseTarget(t)
    \/ \E t \in Fickle : ListingChanges(t)
    \/ \E p \in TypedPorts \cup UNION {PortsOf[t] : t \in DiagPods \cup DiagServices} : ChoosePort(p)
    \/ EndpointStep
    \/ \E p \in diagPods : PodEnds(p)
    \/ BackendDies

DiagSpec == DiagInit /\ [][DiagNext]_diagVars
-----------------------------------------------------------------------------
\* The diagnostic pod is gone with the test, however the pod ends, the loop is
\* left and its reads fail: only a failed create or delete, or the death of the
\* backend, leaves one behind.
PodGoesWithItsTest ==
    \A p \in diagPods : p \in excused \/ (running /\ p = Test)

\* A result in the log names the target that was tested, also when the form was
\* changed while the test ran; its port is the one tested, unless the port in the
\* form was not on offer.
ResultNamesItsTest ==
    \A r \in results :
        LET t == tests[r.tested]
        IN  /\ r.space = t.space /\ r.target = t.target
            /\ r.port = t.tested \/ t.port \notin PortsOf[t.target]
=============================================================================
