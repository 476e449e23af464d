--------------------------- MODULE DashboardFetch ---------------------------
(***************************************************************************)
(* How the dashboard gets its data (context/DashboardContext.tsx, App.tsx):*)
(* the initial load, the background refresh of the interval and of each    *)
(* tab change, the refresh button and the fetches of a tab overlap freely. *)
(* Each first awaits the core sources together, then its extra sources,    *)
(* each of which is applied when it comes.  An answer is a version of the  *)
(* cluster, between the one at the request and the one at the arrival.     *)
(***************************************************************************)
EXTENDS Integers, Sequences, FiniteSets

CONSTANTS
    Core,        \* the core sources, in the order their answers are applied
    Extras,      \* the supplementary sources
    Unlabelled,  \* sources without a status (pods, BGP peers, coverage)
    Tabs,
    FetcherOf,   \* FetcherOf[t]: the source tab t subscribes to
    Silents,     \* bound: background refreshes that overlap
    MockUntil,   \* the backend serves versions below it in mock mode
    MaxVersion   \* bound: changes of the cluster

ASSUME FetchAssumption ==
    /\ MaxVersion \in Nat
    /\ FetcherOf \in [Tabs -> Extras]
    /\ Extras # {}
    /\ Silents \cap {"initial", "refresh", "orphan"} = {}

VARIABLES
    version,     \* the cluster's
    healthy,     \* whether the backend answers properly from now on
    shown,       \* shown[k]: the version of source k on the page
    status,      \* status[k]
    core,        \* core[j]: the version at the core request of j, None without one
    tasks,       \* requests for extra sources under way, each of a job or of none
    started,     \* whether the initial load has begun
    loading,     \* the overlay
    refreshing,  \* the refresh button
    fresh        \* tabs whose stamp is younger than STALE_MS

fetchVars == <<version, healthy, shown, status, core, tasks, started,
               loading, refreshing, fresh>>
backend == <<version, healthy>>

Sources  == {Core[i] : i \in DOMAIN Core} \cup Extras
Versions == 0..MaxVersion
None     == -1      \* no version: nothing shown yet, no core request

\* Answers that are no version: an error status; a body that is no JSON; and
\* an answer that reads well, says "error" and has no data.
Refused == -2
Damaged == -3
Emptied == -4

Orphan == "orphan"   \* the job of a task that nobody waits for

Task(j, k) == [job |-> j, source |-> k, since |-> version]
TasksOf(j) == {t \in tasks : t.job = j}

\* fetchData, refreshView, and the calls of silentRefresh.
Jobs    == {"initial", "refresh"} \cup Silents
Busy(j) == core[j] # None \/ TasksOf(j) # {}

\* What each kind of job fetches after the core, and marks when it fails.
ExtrasOf(j) == IF j \in Silents THEN Extras \cap {"felix"} ELSE Extras
Marked(j) ==
    CASE j = "initial"  -> {}
      [] j \in Silents -> {"nodes", "ippools", "ipam", "policies", "felix", "topology"}
      [] j = "refresh"  -> {"nodes", "ippools", "ipam", "policies", "felix", "topology", "matrix"}

\* fetchWithRetry: what its last attempt got.
Answers(since) == since..version \cup (IF healthy THEN {} ELSE {Refused, Damaged, Emptied})

Label(v) == IF v < MockUntil THEN "mock" ELSE "live"

FetchInit ==
    /\ version     = 0
    /\ healthy     = FALSE
    /\ shown       = [k \in Sources |-> None]
    /\ status      = [k \in Sources |-> "unknown"]
    /\ core        = [j \in Jobs |-> None]
    /\ tasks       = {}
    /\ started     = FALSE
    /\ loading     = FALSE
    /\ refreshing  = FALSE
    /\ fresh       = {}
-----------------------------------------------------------------------------
(* Slips: what a definition would be after a plausible mistake in its code. *)

\* The status is set before the body was read.
LabelledEarly(k, a, old) ==
    IF k \in Unlabelled THEN old
    ELSE IF a \in {Refused, Emptied} THEN "error" ELSE Label(version)

\* Without finally: the flags stay when the fetch failed.
EndedOnSuccess(j, failed) ==
    /\ loading'    = (loading /\ (j # "initial" \/ failed))
    /\ refreshing' = (refreshing /\ (j # "refresh" \/ failed))

\* The interval pauses while a source shows an error.
TicksWithoutError(j) == ~Busy(j) /\ \A k \in Sources : status[k] # "error"
-----------------------------------------------------------------------------
(* The backend *)

ClusterChanges ==
    /\ version < MaxVersion
    /\ version' = version + 1
    /\ UNCHANGED <<healthy, shown, status, core, tasks, started, loading,
                   refreshing, fresh>>

Recovers ==
    /\ ~healthy
    /\ healthy' = TRUE
    /\ UNCHANGED <<version, shown, status, core, tasks, started, loading,
                   refreshing, fresh>>
-----------------------------------------------------------------------------
(* Starting a job *)

Begin(j) ==
    /\ core' = [core EXCEPT ![j] = version]
    /\ UNCHANGED <<backend, shown, status, tasks, fresh>>

\* The effect of the first render: fetchData.
InitialLoad ==
    /\ ~started
    /\ Begin("initial")
    /\ started' = TRUE
    /\ loading' = TRUE
    /\ UNCHANGED refreshing

\* silentRefresh, called by the interval, by App on each change of the tab and by
\* a button: nothing holds it back.
CanTick(j) == ~Busy(j)

SilentRefresh(j) ==
    /\ CanTick(j)
    /\ Begin(j)
    /\ UNCHANGED <<started, loading, refreshing>>

\* handleRefresh, refreshView: the button is disabled while one is under way.
PressRefresh ==
    /\ ~refreshing
    /\ Begin("refresh")
    /\ refreshing' = TRUE
    /\ UNCHANGED <<started, loading>>

\* subscribeTab, when tab t opens, on its interval and on focus: the stamp is
\* set before the answer is known, and nobody waits for the fetch.
Subscribe(t) ==
    /\ t \notin fresh
    /\ fresh' = fresh \cup {t}
    /\ tasks' = tasks \cup {Task(Orphan, FetcherOf[t])}
    /\ UNCHANGED <<backend, shown, status, core, started, loading, refreshing>>

StampAges(t) ==
    /\ t \in fresh
    /\ fresh' = fresh \ {t}
    /\ UNCHANGED <<backend, shown, status, core, tasks, started, loading, refreshing>>
-----------------------------------------------------------------------------
(* Answers *)

Applied(a, old) == IF a \in Versions THEN a ELSE IF a = Emptied THEN None ELSE old

\* The status is set after the body was read; sources without one have none.
Labelled(k, a, old) ==
    IF k \in Unlabelled \/ a = Damaged THEN old
    ELSE IF a \in {Refused, Emptied} THEN "error" ELSE Label(a)

\* The finally of fetchData and of handleRefresh.
Ended(j, failed) ==
    /\ loading'    = (loading /\ j # "initial")
    /\ refreshing' = (refreshing /\ j # "refresh")

\* The catch: sources are marked, and requests of the job under way go on alone.
Fail(j, newStatus, rest) ==
    /\ status' = [k \in Sources |-> IF k \in Marked(j) THEN "error" ELSE newStatus[k]]
    /\ tasks'  = {IF t.job = j THEN [t EXCEPT !.job = Orphan] ELSE t : t \in rest}
    /\ Ended(j, TRUE)

\* fetchCoreData: all answers are there; they are applied in order up to the
\* first one that cannot be read.
CoreArrives(j) ==
    /\ core[j] # None
    /\ core' = [core EXCEPT ![j] = None]
    /\ \E answer \in [DOMAIN Core -> Answers(core[j])] :
          LET reached(i) == \A n \in 1..(i - 1) : answer[n] # Damaged
              At(k)      == {i \in DOMAIN Core : Core[i] = k /\ reached(i)}
              newStatus  == [k \in Sources |->
                               IF At(k) = {} THEN status[k]
                               ELSE Labelled(k, answer[CHOOSE i \in At(k) : TRUE], status[k])]
          IN  /\ shown' = [k \in Sources |->
                              IF At(k) = {} THEN shown[k]
                              ELSE Applied(answer[CHOOSE i \in At(k) : TRUE], shown[k])]
              /\ IF \E i \in DOMAIN Core : answer[i] = Damaged
                 THEN Fail(j, newStatus, tasks)
                 ELSE /\ status' = newStatus
                      /\ tasks'  = tasks \cup {Task(j, k) : k \in ExtrasOf(j)}
                      /\ UNCHANGED <<loading, refreshing>>
    /\ UNCHANGED <<backend, started, fresh>>

\* The fetcher of an extra source goes on; its job is over with the last one.
ExtraArrives(t) ==
    /\ t \in tasks
    /\ \E a \in Answers(t.since) :
          LET rest      == tasks \ {t}
              newStatus == [status EXCEPT ![t.source] = Labelled(t.source, a, @)]
          IN  /\ shown' = [shown EXCEPT ![t.source] = Applied(a, @)]
              /\ IF t.job # Orphan /\ a = Damaged
                 THEN Fail(t.job, newStatus, rest)
                 ELSE /\ status' = newStatus
                      /\ tasks'  = rest
                      /\ IF t.job # Orphan /\ TasksOf(t.job) = {t}
                         THEN Ended(t.job, FALSE)
                         ELSE UNCHANGED <<loading, refreshing>>
    /\ UNCHANGED <<backend, core, started, fresh>>

FetchNext ==
    \/ ClusterChanges \/ Recovers
    \/ InitialLoad \/ PressRefresh
    \/ \E j \in Silents : SilentRefresh(j)
    \/ \E j \in Jobs : CoreArrives(j)
    \/ \E t \in Tabs : Subscribe(t) \/ StampAges(t)
    \/ \E t \in tasks : ExtraArrives(t)

\* Every fetch answers or fails and its continuation runs; the interval goes on.
FetchFairness ==
    /\ \A j \in Jobs : WF_fetchVars(CoreArrives(j))
    /\ \A j \in Jobs, k \in Extras :
          WF_fetchVars(\E t \in TasksOf(j) : t.source = k /\ ExtraArrives(t))
    /\ \A k \in Extras, v \in Versions :
          WF_fetchVars(ExtraArrives([job |-> Orphan, source |-> k, since |-> v]))
    /\ \A j \in Silents : WF_fetchVars(SilentRefresh(j))

FetchSpec == FetchInit /\ [][FetchNext]_fetchVars /\ FetchFairness
-----------------------------------------------------------------------------
FetchTypeOK ==
    /\ version \in Versions
    /\ shown \in [Sources -> Versions \cup {None}]
    /\ status \in [Sources -> {"unknown", "live", "mock", "error"}]
    /\ core \in [Jobs -> Versions \cup {None}]
    /\ tasks \subseteq [job : Jobs \cup {Orphan}, source : Extras, since : Versions]
    /\ {healthy, started, loading, refreshing} \subseteq BOOLEAN
    /\ fresh \subseteq Tabs

\* However refreshes overlap and fail half-way, a source labelled "Live Data"
\* shows data of a live backend, and one labelled "Mock Data" shows mock data.
LabelMatchesData ==
    /\ FetchTypeOK
    /\ \A k \in Sources :
          status[k] \in {"live", "mock"} => shown[k] # None /\ status[k] = Label(shown[k])

\* The overlay and the spinning button go away, whatever fails.
FlagsEnd == (loading ~> ~loading) /\ (refreshing ~> ~refreshing)

\* Once the backend answers properly and the cluster stays as it is, the sources
\* of the background refresh come to show it, and no answer that is still on its
\* way takes them back for good.
CatchesUp ==
    (healthy /\ version = MaxVersion) ~>
        [](\A k \in Sources \ (Extras \ {"felix"}) : shown[k] = version)
=============================================================================
