----------------------------- MODULE PageProofs -----------------------------
(***************************************************************************)
(* The page around its sections: the fetches of the dashboard, for any     *)
(* sources, tabs and number of changes of the cluster, and the navigation, *)
(* for any number of alerts.  They share no state.                         *)
(***************************************************************************)
EXTENDS DashboardFetch, PageNav, TLAPS

-----------------------------------------------------------------------------
(***************************************************************************)
(* The fetches.  LabelMatchesData is inductive with one addition: a source *)
(* without a label of its own is never called live or mock.                *)
(***************************************************************************)
Statuses == {"unknown", "live", "mock", "error"}
TaskSet  == [job : Jobs \cup {Orphan}, source : Extras, since : Versions]

FetchTyped ==
    /\ version \in Versions
    /\ shown \in [Sources -> Versions \cup {None}]
    /\ status \in [Sources -> Statuses]
    /\ core \in [Jobs -> Versions \cup {None}]
    /\ tasks \subseteq TaskSet
    /\ healthy \in BOOLEAN /\ started \in BOOLEAN /\ loading \in BOOLEAN /\ refreshing \in BOOLEAN
    /\ fresh \subseteq Tabs

\* What the page says of a source, st, fits what it shows of it, sh.
Fits(k, st, sh) ==
    st \in {"live", "mock"} => k \notin Unlabelled /\ sh # None /\ st = Label(sh)

LabelInv == FetchTyped /\ \A k \in Sources : Fits(k, status[k], shown[k])

LEMMA VersionFacts ==
    /\ Versions \subseteq Nat
    /\ Refused \notin Versions /\ Damaged \notin Versions /\ Emptied \notin Versions
    /\ None \notin Versions
    /\ Refused # Damaged /\ None # Refused /\ None # Damaged
    /\ Emptied # Refused /\ Emptied # Damaged /\ Emptied # None
  BY FetchAssumption DEF Versions, Refused, Damaged, Emptied, None

LEMMA AnswerFacts ==
    ASSUME FetchTyped, NEW since \in Versions, NEW a \in Answers(since)
    PROVE  a \in Versions \/ a \in {Refused, Damaged, Emptied}
<1>1. \A n \in since..version : n \in Versions
  BY FetchAssumption DEF FetchTyped, Versions
<1> QED
  BY <1>1 DEF Answers

\* One answer of source k, applied to what the page has of it.
LEMMA AppliedFits ==
    ASSUME NEW k, NEW a, a \in Versions \/ a \in {Refused, Damaged, Emptied},
           NEW st \in Statuses, NEW sh \in Versions \cup {None}, Fits(k, st, sh)
    PROVE  /\ Applied(a, sh) \in Versions \cup {None}
           /\ Labelled(k, a, st) \in Statuses
           /\ Fits(k, Labelled(k, a, st), Applied(a, sh))
  BY VersionFacts DEF Applied, Labelled, Fits, Label, Statuses

\* A failed job marks sources, and lets go of its requests.
LEMMA FailFacts ==
    ASSUME NEW j, NEW newStatus \in [Sources -> Statuses], NEW newShown,
           \A k \in Sources : Fits(k, newStatus[k], newShown[k]),
           NEW rest, rest \subseteq TaskSet,
           loading \in BOOLEAN, refreshing \in BOOLEAN, Fail(j, newStatus, rest)
    PROVE  /\ status' \in [Sources -> Statuses]
           /\ \A k \in Sources : Fits(k, status'[k], newShown[k])
           /\ tasks' \subseteq TaskSet
           /\ loading' \in BOOLEAN /\ refreshing' \in BOOLEAN
<1>1. status' = [k \in Sources |-> IF k \in Marked(j) THEN "error" ELSE newStatus[k]]
  BY DEF Fail
<1>2. status' \in [Sources -> Statuses] /\ \A k \in Sources : Fits(k, status'[k], newShown[k])
  BY <1>1 DEF Statuses, Fits
<1>3. \A t \in rest : [t EXCEPT !.job = Orphan] \in TaskSet
  BY DEF TaskSet
<1>4. tasks' \subseteq TaskSet
  BY <1>3 DEF Fail
<1>5. loading' \in BOOLEAN /\ refreshing' \in BOOLEAN
  BY DEF Fail, Ended
<1> QED
  BY <1>2, <1>4, <1>5

LEMMA NextLabelInv == LabelInv /\ [FetchNext]_fetchVars => LabelInv'
<1> SUFFICES ASSUME LabelInv, [FetchNext]_fetchVars
             PROVE  LabelInv'
  OBVIOUS
<1>i. FetchTyped /\ \A k \in Sources : Fits(k, status[k], shown[k])
  BY DEF LabelInv
<1>q. ASSUME UNCHANGED <<shown, status>>, FetchTyped'
      PROVE  LabelInv'
  BY <1>i, <1>q DEF LabelInv, Fits
<1>1. CASE ClusterChanges \/ Recovers
  <2>1. version' \in Versions
    <3>1. version \in 0..MaxVersion /\ MaxVersion \in Nat
      BY <1>i, FetchAssumption DEF FetchTyped, Versions
    <3>2. version' = version \/ (version < MaxVersion /\ version' = version + 1)
      BY <1>1 DEF ClusterChanges, Recovers
    <3> QED
      BY <3>1, <3>2 DEF Versions
  <2>3. healthy' \in BOOLEAN
    BY <1>1, <1>i DEF ClusterChanges, Recovers, FetchTyped
  <2>2. UNCHANGED <<shown, status, core, tasks, started, loading, refreshing, fresh>>
    BY <1>1 DEF ClusterChanges, Recovers
  <2> QED
    BY <1>i, <1>q, <2>1, <2>3, <2>2 DEF FetchTyped
<1>2. CASE InitialLoad \/ PressRefresh \/ \E j \in Silents : SilentRefresh(j)
  <2>1. PICK j \in Jobs : core' = [core EXCEPT ![j] = version]
    BY <1>2 DEF InitialLoad, PressRefresh, SilentRefresh, Begin, Jobs
  <2>2. UNCHANGED <<version, healthy, shown, status, tasks, fresh>>
    BY <1>2 DEF InitialLoad, PressRefresh, SilentRefresh, Begin, backend
  <2>3. started' \in BOOLEAN /\ loading' \in BOOLEAN /\ refreshing' \in BOOLEAN
    BY <1>2, <1>i DEF InitialLoad, PressRefresh, SilentRefresh, FetchTyped
  <2>4. core' \in [Jobs -> Versions \cup {None}]
    BY <1>i, <2>1 DEF FetchTyped
  <2> QED
    BY <1>i, <1>q, <2>2, <2>3, <2>4 DEF FetchTyped
<1>3. ASSUME NEW t \in Tabs, Subscribe(t) \/ StampAges(t)
      PROVE  LabelInv'
  <2>1. Task(Orphan, FetcherOf[t]) \in TaskSet
    BY <1>i, FetchAssumption DEF Task, TaskSet, FetchTyped
  <2>2. tasks' \subseteq TaskSet /\ fresh' \subseteq Tabs
    BY <1>3, <1>i, <2>1 DEF Subscribe, StampAges, FetchTyped
  <2>3. UNCHANGED <<version, healthy, shown, status, core, started, loading, refreshing>>
    BY <1>3 DEF Subscribe, StampAges, backend
  <2> QED
    BY <1>i, <1>q, <2>2, <2>3 DEF FetchTyped
<1>4. ASSUME NEW j \in Jobs, CoreArrives(j)
      PROVE  LabelInv'
  <2>1. core[j] \in Versions
    BY <1>4, <1>i DEF CoreArrives, FetchTyped
  <2>2. PICK answer \in [DOMAIN Core -> Answers(core[j])] :
          LET reached(i) == \A n \in 1..(i - 1) : answer[n] # Damaged
              At(k)      == {i \in DOMAIN Core : Core[i] = k /\ reached(i)}
              newStatus  == [k \in Sources |->
                               IF At(k) = {} THEN status[k]
                               ELSE Labelled(k, answer[CHOOSE i \in At(k) : TRUE], status[k])]
          IN  /\ shown' = [k \in Sources |->
                              IF At(k) = {} THEN shown[k]
                              ELSE Applied(answer[CHOOSE i \in At(k) : TRUE], shown[k])]
              /\ IF \E i \in DOMAIN Core : answer[i] = Damaged
                 THEN Fail(j, newStatus, tasks)
                 ELSE /\ status' = newStatus
                      /\ tasks'  = tasks \cup {Task(j, k) : k \in ExtrasOf(j)}
                      /\ UNCHANGED <<loading, refreshing>>
    BY <1>4, Zenon DEF CoreArrives
  <2> DEFINE reached(i) == \A n \in 1..(i - 1) : answer[n] # Damaged
             At(k)      == {i \in DOMAIN Core : Core[i] = k /\ reached(i)}
             first(k)   == CHOOSE i \in At(k) : TRUE
             newStatus  == [k \in Sources |-> IF At(k) = {} THEN status[k]
                                              ELSE Labelled(k, answer[first(k)], status[k])]
             newShown   == [k \in Sources |-> IF At(k) = {} THEN shown[k]
                                              ELSE Applied(answer[first(k)], shown[k])]
  <2>3. ASSUME NEW k \in Sources, At(k) # {}
        PROVE  answer[first(k)] \in Answers(core[j])
    <3>1. first(k) \in At(k)
      BY <2>3
    <3> QED
      BY <3>1
  <2>4. ASSUME NEW k \in Sources
        PROVE  /\ newShown[k] \in Versions \cup {None} /\ newStatus[k] \in Statuses
               /\ Fits(k, newStatus[k], newShown[k])
    <3>1. status[k] \in Statuses /\ shown[k] \in Versions \cup {None} /\ Fits(k, status[k], shown[k])
      BY <1>i DEF FetchTyped
    <3>2. CASE At(k) = {}
      BY <3>1, <3>2
    <3>3. CASE At(k) # {}
      <4> DEFINE a == answer[first(k)]
      <4>1. a \in Versions \/ a \in {Refused, Damaged, Emptied}
        BY <1>i, <2>1, <2>3, <3>3, AnswerFacts
      <4> HIDE DEF a
      <4>2. /\ Applied(a, shown[k]) \in Versions \cup {None}
            /\ Labelled(k, a, status[k]) \in Statuses
            /\ Fits(k, Labelled(k, a, status[k]), Applied(a, shown[k]))
        BY <3>1, <4>1, AppliedFits
      <4>3. newShown[k] = Applied(a, shown[k]) /\ newStatus[k] = Labelled(k, a, status[k])
        BY <3>3 DEF a
      <4> QED
        BY <4>2, <4>3
    <3> QED
      BY <3>2, <3>3
  <2>5. /\ shown' = newShown
        /\ \/ Fail(j, newStatus, tasks)
           \/ /\ status' = newStatus /\ tasks' = tasks \cup {Task(j, k) : k \in ExtrasOf(j)}
              /\ UNCHANGED <<loading, refreshing>>
    BY <2>2, Zenon
  <2>6. newStatus \in [Sources -> Statuses] /\ newShown \in [Sources -> Versions \cup {None}]
    BY <2>4
  <2> HIDE DEF newStatus, newShown
  <2>7. /\ status' \in [Sources -> Statuses] /\ tasks' \subseteq TaskSet
        /\ loading' \in BOOLEAN /\ refreshing' \in BOOLEAN
        /\ \A k \in Sources : Fits(k, status'[k], newShown[k])
    <3>1. CASE Fail(j, newStatus, tasks)
      BY <1>i, <2>4, <2>6, <3>1, FailFacts DEF FetchTyped
    <3>2. CASE /\ status' = newStatus /\ tasks' = tasks \cup {Task(j, k) : k \in ExtrasOf(j)}
               /\ UNCHANGED <<loading, refreshing>>
      <4>1. \A k \in ExtrasOf(j) : Task(j, k) \in TaskSet
        BY <1>i DEF ExtrasOf, Task, TaskSet, FetchTyped
      <4> QED
        BY <1>i, <2>4, <2>6, <3>2, <4>1 DEF FetchTyped
    <3> QED
      BY <2>5, <3>1, <3>2
  <2>8. core' \in [Jobs -> Versions \cup {None}] /\ UNCHANGED <<version, healthy, started, fresh>>
    BY <1>4, <1>i DEF CoreArrives, FetchTyped, backend
  <2> QED
    BY <1>i, <2>5, <2>6, <2>7, <2>8 DEF LabelInv, FetchTyped
<1>5. ASSUME NEW t \in tasks, ExtraArrives(t)
      PROVE  LabelInv'
  <2> DEFINE s == t.source
  <2>1. t \in TaskSet /\ s \in Sources /\ t.since \in Versions
    BY <1>i DEF FetchTyped, TaskSet, Sources
  <2>2. PICK a \in Answers(t.since) :
          LET rest      == tasks \ {t}
              newStatus == [status EXCEPT ![t.source] = Labelled(t.source, a, @)]
          IN  /\ shown' = [shown EXCEPT ![t.source] = Applied(a, @)]
              /\ IF t.job # Orphan /\ a = Damaged
                 THEN Fail(t.job, newStatus, rest)
                 ELSE /\ status' = newStatus
                      /\ tasks'  = rest
                      /\ IF t.job # Orphan /\ TasksOf(t.job) = {t}
                         THEN Ended(t.job, FALSE)
                         ELSE UNCHANGED <<loading, refreshing>>
    BY <1>5, Zenon DEF ExtraArrives
  <2> DEFINE newStatus == [status EXCEPT ![s] = Labelled(s, a, @)]
             newShown  == [shown EXCEPT ![s] = Applied(a, @)]
             rest      == tasks \ {t}
  <2>3. a \in Versions \/ a \in {Refused, Damaged, Emptied}
    BY <1>i, <2>1, AnswerFacts
  <2>4. /\ Applied(a, shown[s]) \in Versions \cup {None}
        /\ Labelled(s, a, status[s]) \in Statuses
        /\ Fits(s, Labelled(s, a, status[s]), Applied(a, shown[s]))
    BY <1>i, <2>1, <2>3, AppliedFits DEF FetchTyped
  <2>5. /\ newStatus \in [Sources -> Statuses] /\ newShown \in [Sources -> Versions \cup {None}]
        /\ \A k \in Sources : Fits(k, newStatus[k], newShown[k])
    BY <1>i, <2>1, <2>4 DEF FetchTyped
  <2>6. /\ shown' = newShown
        /\ \/ Fail(t.job, newStatus, rest)
           \/ status' = newStatus /\ tasks' = rest
                /\ (Ended(t.job, FALSE) \/ UNCHANGED <<loading, refreshing>>)
    BY <2>2, Zenon
  <2>7. rest \subseteq TaskSet
    BY <1>i DEF FetchTyped
  <2> HIDE DEF newStatus, newShown, rest
  <2>8. /\ status' \in [Sources -> Statuses] /\ tasks' \subseteq TaskSet
        /\ loading' \in BOOLEAN /\ refreshing' \in BOOLEAN
        /\ \A k \in Sources : Fits(k, status'[k], newShown[k])
    <3>1. loading \in BOOLEAN /\ refreshing \in BOOLEAN
      BY <1>i DEF FetchTyped
    <3>2. CASE Fail(t.job, newStatus, rest)
      BY <2>5, <2>7, <3>1, <3>2, FailFacts
    <3>3. CASE /\ status' = newStatus /\ tasks' = rest
               /\ (Ended(t.job, FALSE) \/ UNCHANGED <<loading, refreshing>>)
      BY <2>5, <2>7, <3>1, <3>3 DEF Ended
    <3> QED
      BY <2>6, <3>2, <3>3
  <2>9. UNCHANGED <<version, healthy, core, started, fresh>>
    BY <1>5 DEF ExtraArrives, backend
  <2> QED
    BY <1>i, <2>5, <2>6, <2>8, <2>9 DEF LabelInv, FetchTyped
<1>6. CASE UNCHANGED fetchVars
  BY <1>6, <1>i, <1>q DEF fetchVars, FetchTyped
<1> QED
  BY <1>1, <1>2, <1>3, <1>4, <1>5, <1>6 DEF FetchNext

LEMMA InitLabelInv == FetchInit => LabelInv
<1> SUFFICES ASSUME FetchInit PROVE LabelInv
  OBVIOUS
<1>1. 0 \in Versions
  BY FetchAssumption DEF Versions
<1>2. FetchTyped
  BY <1>1 DEF FetchInit, FetchTyped, Statuses
<1> QED
  BY <1>2 DEF FetchInit, LabelInv, Fits

\* However the fetches of the dashboard overlap, answer out of order and fail
\* half-way, a source labelled live or mock shows data of that kind.
THEOREM LabelsMatchData == FetchSpec => []LabelMatchesData
<1>1. LabelInv => LabelMatchesData
  BY DEF LabelInv, Fits, FetchTyped, TaskSet, Statuses, LabelMatchesData, FetchTypeOK
<1> QED
  BY <1>1, InitLabelInv, NextLabelInv, PTL DEF FetchSpec
-----------------------------------------------------------------------------
(***************************************************************************)
(* The flags.  A job awaits its core first and then its extra sources, one *)
(* set of tasks that only shrinks, and never both at once.                 *)
(***************************************************************************)
CoreBeforeExtras == \A j \in Jobs : core[j] # None => TasksOf(j) = {}

\* The overlay and the spinning button show exactly the jobs under way.
FlagsShowJobs ==
    /\ loading    <=> Busy("initial")
    /\ refreshing <=> Busy("refresh")

\* An answer of job j: of its core, or of an extra source it waits for.
AnswerOf(j) == CoreArrives(j) \/ \E t \in TasksOf(j) : ExtraArrives(t)

\* Job j has one thing less to wait for: the core, or a request after it.
ComesNearer(j) ==
    \/ core[j] # None /\ core'[j] = None
    \/ /\ core'[j] = core[j]
       /\ TasksOf(j)' \subseteq TasksOf(j) /\ TasksOf(j)' # TasksOf(j)

JobsComeNearer ==
    [][\A j \in Jobs : Busy(j) =>
          /\ ComesNearer(j) \/ (core'[j] = core[j] /\ TasksOf(j)' = TasksOf(j))
          /\ AnswerOf(j) => ComesNearer(j)]_fetchVars

FlagsInv == LabelInv /\ CoreBeforeExtras /\ FlagsShowJobs /\ (~started => ~loading)

LEMMA JobNames == Orphan \notin Jobs /\ "initial" \in Jobs /\ "refresh" \in Jobs
  BY FetchAssumption DEF Orphan, Jobs

\* What a failed job leaves under way belongs to no job.
LEMMA FailLetsGo ==
    ASSUME tasks \subseteq TaskSet, NEW j \in Jobs, NEW newStatus,
           NEW rest, rest \subseteq tasks, Fail(j, newStatus, rest)
    PROVE  /\ TasksOf(j)' = {}
           /\ \A i \in Jobs \ {j} : TasksOf(i)' = {t \in rest : t.job = i}
<1> DEFINE Let(t) == IF t.job = j THEN [t EXCEPT !.job = Orphan] ELSE t
<1>1. tasks' = {Let(t) : t \in rest}
  BY DEF Fail
<1>2. ASSUME NEW t \in rest
      PROVE  Let(t).job = (IF t.job = j THEN Orphan ELSE t.job)
  BY DEF TaskSet
<1>3. \A t \in rest : t.job # j => Let(t) = t
  OBVIOUS
<1> HIDE DEF Let
<1>4. \A t \in tasks' : t.job # j
  BY <1>1, <1>2, JobNames
<1>5. ASSUME NEW i \in Jobs \ {j}, NEW t
      PROVE  t \in tasks' /\ t.job = i <=> t \in rest /\ t.job = i
  BY <1>1, <1>2, <1>3, JobNames
<1> QED
  BY <1>4, <1>5 DEF TasksOf

\* What one answer does to the jobs and to the flags.
LEMMA AnswerCounts ==
    ASSUME FetchTyped, CoreBeforeExtras, NEW j \in Jobs, AnswerOf(j)
    PROVE  /\ \A i \in Jobs \ {j} : core'[i] = core[i] /\ TasksOf(i)' = TasksOf(i)
           /\ core'[j] = None /\ ComesNearer(j)
           /\ \/ TasksOf(j)' # {} /\ UNCHANGED <<loading, refreshing>>
              \/ TasksOf(j)' = {} /\ Ended(j, TRUE)
           /\ started' = started
<1>1. CASE CoreArrives(j)
  <2>1. /\ core[j] # None /\ core' = [core EXCEPT ![j] = None]
        /\ started' = started
    BY <1>1 DEF CoreArrives
  <2>2. \/ \E newStatus : Fail(j, newStatus, tasks)
        \/ /\ tasks' = tasks \cup {Task(j, k) : k \in ExtrasOf(j)}
           /\ UNCHANGED <<loading, refreshing>>
    BY <1>1, Zenon DEF CoreArrives
  <2>3. core'[j] = None /\ \A i \in Jobs \ {j} : core'[i] = core[i]
    BY <2>1 DEF FetchTyped
  <2>4. CASE \E newStatus : Fail(j, newStatus, tasks)
    <3>1. PICK newStatus : Fail(j, newStatus, tasks)
      BY <2>4
    <3>2. TasksOf(j)' = {} /\ \A i \in Jobs \ {j} : TasksOf(i)' = TasksOf(i)
      BY <3>1, FailLetsGo DEF FetchTyped, TasksOf
    <3>3. Ended(j, TRUE)
      BY <3>1 DEF Fail
    <3> QED
      BY <2>1, <2>3, <3>2, <3>3 DEF ComesNearer
  <2>5. CASE /\ tasks' = tasks \cup {Task(j, k) : k \in ExtrasOf(j)}
             /\ UNCHANGED <<loading, refreshing>>
    <3>1. \A k \in ExtrasOf(j) : Task(j, k).job = j
      BY DEF Task
    <3>2. \A i \in Jobs \ {j} : TasksOf(i)' = TasksOf(i)
      BY <2>5, <3>1 DEF TasksOf
    <3>3. core'[j] = None /\ ComesNearer(j)
      BY <2>1, <2>3 DEF ComesNearer
    <3>4. CASE ExtrasOf(j) # {}
      <4>1. TasksOf(j)' # {}
        BY <2>5, <3>1, <3>4 DEF TasksOf
      <4> QED
        BY <2>1, <2>3, <2>5, <3>2, <3>3, <4>1
    <3>5. CASE ExtrasOf(j) = {}
      <4>1. j # "initial" /\ j # "refresh"
        BY <3>5, FetchAssumption DEF ExtrasOf
      <4>2. tasks' = tasks
        BY <2>5, <3>5
      <4>3. TasksOf(j)' = {}
        BY <2>1, <4>2 DEF CoreBeforeExtras, TasksOf
      <4>4. Ended(j, TRUE)
        BY <2>5, <4>1 DEF Ended, FetchTyped
      <4> QED
        BY <2>1, <2>3, <3>2, <3>3, <4>3, <4>4
    <3> QED
      BY <3>4, <3>5
  <2> QED
    BY <2>2, <2>4, <2>5
<1>2. ASSUME NEW t \in TasksOf(j), ExtraArrives(t)
      PROVE  /\ \A i \in Jobs \ {j} : core'[i] = core[i] /\ TasksOf(i)' = TasksOf(i)
             /\ core'[j] = None /\ ComesNearer(j)
             /\ \/ TasksOf(j)' # {} /\ UNCHANGED <<loading, refreshing>>
                \/ TasksOf(j)' = {} /\ Ended(j, TRUE)
             /\ started' = started
  <2>1. t \in tasks /\ t.job = j /\ t.job # Orphan
    BY JobNames DEF TasksOf
  <2>2. core' = core /\ started' = started
    BY <1>2 DEF ExtraArrives
  <2>3. core[j] = None
    BY <1>2 DEF CoreBeforeExtras
  <2>4. \/ \E newStatus : Fail(j, newStatus, tasks \ {t})
        \/ /\ tasks' = tasks \ {t}
           /\ IF TasksOf(j) = {t} THEN Ended(j, FALSE) ELSE UNCHANGED <<loading, refreshing>>
    BY <1>2, <2>1, Zenon DEF ExtraArrives
  <2>5. CASE \E newStatus : Fail(j, newStatus, tasks \ {t})
    <3>1. PICK newStatus : Fail(j, newStatus, tasks \ {t})
      BY <2>5
    <3>2. TasksOf(j)' = {} /\ \A i \in Jobs \ {j} : TasksOf(i)' = {u \in tasks \ {t} : u.job = i}
      BY <3>1, FailLetsGo DEF FetchTyped
    <3>3. \A i \in Jobs \ {j} : TasksOf(i)' = TasksOf(i)
      BY <2>1, <3>2 DEF TasksOf
    <3>4. Ended(j, TRUE)
      BY <3>1 DEF Fail
    <3> QED
      BY <2>2, <2>3, <3>2, <3>3, <3>4 DEF ComesNearer
  <2>6. CASE /\ tasks' = tasks \ {t}
             /\ IF TasksOf(j) = {t} THEN Ended(j, FALSE) ELSE UNCHANGED <<loading, refreshing>>
    <3>1. TasksOf(j)' = TasksOf(j) \ {t} /\ \A i \in Jobs \ {j} : TasksOf(i)' = TasksOf(i)
      BY <2>1, <2>6 DEF TasksOf
    <3>2. ComesNearer(j)
      BY <2>2, <3>1 DEF ComesNearer
    <3>3. CASE TasksOf(j) = {t}
      BY <2>2, <2>3, <2>6, <3>1, <3>2, <3>3 DEF Ended
    <3>4. CASE TasksOf(j) # {t}
      <4>1. TasksOf(j)' # {}
        BY <3>1, <3>4
      <4> QED
        BY <2>2, <2>3, <2>6, <3>1, <3>2, <3>4, <4>1
    <3> QED
      BY <3>3, <3>4
  <2> QED
    BY <2>4, <2>5, <2>6
<1> QED
  BY <1>1, <1>2 DEF AnswerOf

\* The steps that are no answer of a job leave the jobs alone, but for one that
\* begins, which was not under way.
LEMMA OtherStepsLeaveJobs ==
    ASSUME FlagsInv, [FetchNext]_fetchVars, \A j \in Jobs : ~AnswerOf(j)
    PROVE  /\ \A i \in Jobs : TasksOf(i)' = TasksOf(i)
           /\ \/ /\ core' = core /\ UNCHANGED <<loading, refreshing, started>>
              \/ \E j \in Jobs :
                    /\ ~Busy(j) /\ core' = [core EXCEPT ![j] = version]
                    /\ loading' = (loading \/ j = "initial")
                    /\ refreshing' = (refreshing \/ j = "refresh")
                    /\ started' = (started \/ j = "initial")
<1>t. FetchTyped
  BY DEF FlagsInv, LabelInv
<1>1. CASE ClusterChanges \/ Recovers \/ UNCHANGED fetchVars
  BY <1>1 DEF ClusterChanges, Recovers, fetchVars, TasksOf
<1>2. CASE InitialLoad
  <2>1. ~Busy("initial")
    BY <1>2 DEF InitialLoad, FlagsInv, FlagsShowJobs
  <2>2. tasks' = tasks /\ core' = [core EXCEPT !["initial"] = version]
        /\ started' = TRUE /\ loading' = TRUE /\ refreshing' = refreshing
    BY <1>2 DEF InitialLoad, Begin
  <2>3. loading' = (loading \/ "initial" = "initial")
        /\ refreshing' = (refreshing \/ "initial" = "refresh")
        /\ started' = (started \/ "initial" = "initial")
    BY <1>t, <2>2 DEF FetchTyped
  <2> QED
    BY <2>1, <2>2, <2>3, JobNames DEF TasksOf
<1>3. CASE PressRefresh
  <2>1. ~Busy("refresh")
    BY <1>3 DEF PressRefresh, FlagsInv, FlagsShowJobs
  <2>2. tasks' = tasks /\ core' = [core EXCEPT !["refresh"] = version]
        /\ started' = started /\ loading' = loading /\ refreshing' = TRUE
    BY <1>3 DEF PressRefresh, Begin
  <2>3. loading' = (loading \/ "refresh" = "initial")
        /\ refreshing' = (refreshing \/ "refresh" = "refresh")
        /\ started' = (started \/ "refresh" = "initial")
    BY <1>t, <2>2 DEF FetchTyped
  <2> QED
    BY <2>1, <2>2, <2>3, JobNames DEF TasksOf
<1>4. ASSUME NEW j \in Silents, SilentRefresh(j)
      PROVE  /\ \A i \in Jobs : TasksOf(i)' = TasksOf(i)
             /\ j \in Jobs /\ ~Busy(j) /\ core' = [core EXCEPT ![j] = version]
             /\ loading' = (loading \/ j = "initial")
             /\ refreshing' = (refreshing \/ j = "refresh")
             /\ started' = (started \/ j = "initial")
  <2>1. j \in Jobs /\ j # "initial" /\ j # "refresh"
    BY FetchAssumption DEF Jobs
  <2>2. tasks' = tasks /\ core' = [core EXCEPT ![j] = version]
        /\ UNCHANGED <<started, loading, refreshing>> /\ ~Busy(j)
    BY <1>4 DEF SilentRefresh, CanTick, Begin
  <2>3. loading' = (loading \/ j = "initial") /\ refreshing' = (refreshing \/ j = "refresh")
        /\ started' = (started \/ j = "initial")
    BY <1>t, <2>1, <2>2 DEF FetchTyped
  <2> QED
    BY <2>1, <2>2, <2>3 DEF TasksOf
<1>5. ASSUME NEW t \in Tabs, Subscribe(t) \/ StampAges(t)
      PROVE  /\ \A i \in Jobs : TasksOf(i)' = TasksOf(i)
             /\ core' = core /\ UNCHANGED <<loading, refreshing, started>>
  <2>1. core' = core /\ UNCHANGED <<loading, refreshing, started>>
    BY <1>5 DEF Subscribe, StampAges
  <2>2. tasks' = tasks \/ tasks' = tasks \cup {Task(Orphan, FetcherOf[t])}
    BY <1>5 DEF Subscribe, StampAges
  <2>3. Task(Orphan, FetcherOf[t]).job = Orphan
    BY DEF Task
  <2> QED
    BY <2>1, <2>2, <2>3, JobNames DEF TasksOf
<1>6. ASSUME NEW t \in tasks, ExtraArrives(t)
      PROVE  /\ \A i \in Jobs : TasksOf(i)' = TasksOf(i)
             /\ core' = core /\ UNCHANGED <<loading, refreshing, started>>
  <2>1. t.job = Orphan
    <3>1. t \in TaskSet
      BY <1>t DEF FetchTyped
    <3>2. t.job \in Jobs \cup {Orphan}
      BY <3>1 DEF TaskSet
    <3>3. \A j \in Jobs : t \notin TasksOf(j)
      BY <1>6 DEF AnswerOf
    <3> QED
      BY <3>2, <3>3 DEF TasksOf
  <2>2. tasks' = tasks \ {t} /\ UNCHANGED <<loading, refreshing>>
    BY <1>6, <2>1, Zenon DEF ExtraArrives
  <2>3. core' = core /\ started' = started
    BY <1>6 DEF ExtraArrives
  <2> QED
    BY <2>1, <2>2, <2>3, JobNames DEF TasksOf
<1>7. CASE \E j \in Jobs : CoreArrives(j)
  BY <1>7 DEF AnswerOf
<1> QED
  BY <1>1, <1>2, <1>3, <1>4, <1>5, <1>6, <1>7 DEF FetchNext

LEMMA NextFlagsInv == FlagsInv /\ [FetchNext]_fetchVars => FlagsInv'
<1> SUFFICES ASSUME FlagsInv, [FetchNext]_fetchVars
             PROVE  FlagsInv'
  OBVIOUS
<1>t. FetchTyped /\ CoreBeforeExtras /\ (loading <=> Busy("initial"))
      /\ (refreshing <=> Busy("refresh")) /\ (~started => ~loading) /\ LabelInv'
  BY NextLabelInv DEF FlagsInv, LabelInv, FlagsShowJobs
<1>v. version # None
  BY <1>t, VersionFacts DEF FetchTyped
<1>1. ASSUME NEW j \in Jobs, AnswerOf(j)
      PROVE  FlagsInv'
  <2>1. /\ \A i \in Jobs \ {j} : core'[i] = core[i] /\ TasksOf(i)' = TasksOf(i)
        /\ core'[j] = None
        /\ \/ TasksOf(j)' # {} /\ UNCHANGED <<loading, refreshing>>
           \/ TasksOf(j)' = {} /\ Ended(j, TRUE)
        /\ started' = started
    BY <1>1, <1>t, AnswerCounts
  <2>2. Busy(j)
    BY <1>1 DEF AnswerOf, CoreArrives, Busy
  <2>3. CoreBeforeExtras'
    BY <1>t, <2>1 DEF CoreBeforeExtras
  <2>4. \A i \in Jobs \ {j} : Busy(i)' <=> Busy(i)
    BY <2>1 DEF Busy
  <2>5. Busy(j)' <=> TasksOf(j)' # {}
    BY <2>1 DEF Busy
  <2>6. loading' <=> Busy("initial")'
    <3>1. CASE j # "initial"
      <4>1. loading' <=> loading
        <5>1. CASE UNCHANGED <<loading, refreshing>>
          BY <5>1
        <5>2. CASE Ended(j, TRUE)
          BY <3>1, <5>2, Zenon DEF Ended
        <5> QED
          BY <2>1, <5>1, <5>2
      <4> QED
        BY <1>t, <2>4, <3>1, <4>1, JobNames
    <3>2. CASE j = "initial"
      <4>1. loading
        BY <1>t, <2>2, <3>2
      <4>2. loading' <=> TasksOf(j)' # {}
        BY <2>1, <3>2, <4>1 DEF Ended
      <4> QED
        BY <2>5, <3>2, <4>2
    <3> QED
      BY <3>1, <3>2
  <2>7. refreshing' <=> Busy("refresh")'
    <3>1. CASE j # "refresh"
      <4>1. refreshing' <=> refreshing
        <5>1. CASE UNCHANGED <<loading, refreshing>>
          BY <5>1
        <5>2. CASE Ended(j, TRUE)
          BY <3>1, <5>2, Zenon DEF Ended
        <5> QED
          BY <2>1, <5>1, <5>2
      <4> QED
        BY <1>t, <2>4, <3>1, <4>1, JobNames
    <3>2. CASE j = "refresh"
      <4>1. refreshing
        BY <1>t, <2>2, <3>2
      <4>2. refreshing' <=> TasksOf(j)' # {}
        BY <2>1, <3>2, <4>1 DEF Ended
      <4> QED
        BY <2>5, <3>2, <4>2
    <3> QED
      BY <3>1, <3>2
  <2>8. loading' => loading
    BY <2>1 DEF Ended
  <2> QED
    BY <1>t, <2>1, <2>3, <2>6, <2>7, <2>8 DEF FlagsInv, FlagsShowJobs
<1>2. CASE \A j \in Jobs : ~AnswerOf(j)
  <2>1. \A i \in Jobs : TasksOf(i)' = TasksOf(i)
    BY <1>2, OtherStepsLeaveJobs
  <2>2. CASE core' = core /\ UNCHANGED <<loading, refreshing, started>>
    <3>1. \A i \in Jobs : Busy(i)' <=> Busy(i)
      BY <2>1, <2>2 DEF Busy
    <3>2. CoreBeforeExtras'
      BY <1>t, <2>1, <2>2 DEF CoreBeforeExtras
    <3> QED
      BY <1>t, <2>2, <3>1, <3>2, JobNames DEF FlagsInv, FlagsShowJobs
  <2>3. ASSUME NEW j \in Jobs, ~Busy(j), core' = [core EXCEPT ![j] = version],
               loading' = (loading \/ j = "initial"), refreshing' = (refreshing \/ j = "refresh"),
               started' = (started \/ j = "initial")
        PROVE  FlagsInv'
    <3>1. core'[j] # None /\ \A i \in Jobs \ {j} : core'[i] = core[i]
      BY <1>t, <1>v, <2>3 DEF FetchTyped
    <3>2. TasksOf(j)' = {}
      BY <2>1, <2>3 DEF Busy
    <3>3. CoreBeforeExtras'
      BY <1>t, <2>1, <3>1, <3>2 DEF CoreBeforeExtras
    <3>4. Busy(j)' /\ \A i \in Jobs \ {j} : Busy(i)' <=> Busy(i)
      BY <2>1, <3>1 DEF Busy
    <3>5. loading' <=> Busy("initial")'
      BY <1>t, <2>3, <3>4, JobNames
    <3>6. refreshing' <=> Busy("refresh")'
      BY <1>t, <2>3, <3>4, JobNames
    <3>7. ~started' => ~loading'
      BY <1>t, <2>3
    <3> QED
      BY <1>t, <3>3, <3>5, <3>6, <3>7 DEF FlagsInv, FlagsShowJobs
  <2> QED
    BY <1>2, <2>2, <2>3, OtherStepsLeaveJobs
<1> QED
  BY <1>1, <1>2

\* The overlay and the spinning button are shown exactly while a job of theirs
\* waits for an answer, and each of its answers brings that job nearer to its
\* end, which nothing else puts off: whatever fails, is damaged or overlaps,
\* neither flag outlives its job nor ends before it (the finally of fetchData
\* and handleRefresh).
THEOREM FlagsFollowJobs == FetchSpec => []FlagsShowJobs /\ JobsComeNearer
<1>1. FetchInit => FlagsInv
  BY InitLabelInv, JobNames, FetchAssumption
  DEF FetchInit, FlagsInv, CoreBeforeExtras, FlagsShowJobs, Busy, TasksOf
<1>2. FlagsInv => FlagsShowJobs
  BY DEF FlagsInv
<1>3. FlagsInv /\ [FetchNext]_fetchVars =>
        \A j \in Jobs : Busy(j) =>
          /\ ComesNearer(j) \/ (core'[j] = core[j] /\ TasksOf(j)' = TasksOf(j))
          /\ AnswerOf(j) => ComesNearer(j)
  <2> SUFFICES ASSUME FlagsInv, [FetchNext]_fetchVars, NEW j \in Jobs, Busy(j)
               PROVE  /\ ComesNearer(j) \/ (core'[j] = core[j] /\ TasksOf(j)' = TasksOf(j))
                      /\ AnswerOf(j) => ComesNearer(j)
    OBVIOUS
  <2>t. FetchTyped /\ CoreBeforeExtras
    BY DEF FlagsInv, LabelInv
  <2>1. AnswerOf(j) => ComesNearer(j)
    BY <2>t, AnswerCounts
  <2>2. ASSUME NEW i \in Jobs \ {j}, AnswerOf(i)
        PROVE  core'[j] = core[j] /\ TasksOf(j)' = TasksOf(j)
    BY <2>t, <2>2, AnswerCounts
  <2>3. CASE \A i \in Jobs : ~AnswerOf(i)
    <3>1. TasksOf(j)' = TasksOf(j)
      BY <2>3, OtherStepsLeaveJobs
    <3>2. core'[j] = core[j]
      <4>1. ASSUME NEW i \in Jobs, ~Busy(i), core' = [core EXCEPT ![i] = version]
            PROVE  core'[j] = core[j]
        BY <2>t, <4>1 DEF FetchTyped
      <4> QED
        BY <2>3, <4>1, OtherStepsLeaveJobs
    <3> QED
      BY <2>3, <3>1, <3>2
  <2> QED
    BY <2>1, <2>2, <2>3
<1> QED
  BY <1>1, <1>2, <1>3, NextFlagsInv, PTL DEF FetchSpec, JobsComeNearer

-----------------------------------------------------------------------------
(***************************************************************************)
(* The page.  The tab is one of six, "threats" is never active without the *)
(* stream, and a section shows one of its own panels.                      *)
(***************************************************************************)
Tabset == {"dashboard", "cni-health", "threats", "diagnostics", "network", "security"}

PanelSet == {"dashboard", "cni-health", "ipam", "topology", "endpoints", "policies", "threats",
             "audit", "diagnostics", "configure"}

OwnViews(views) ==
    \A s \in {"overview", "network", "security", "tools"} : views[s] = "threats" => s = "security"

PageInv ==
    /\ tab \in Tabset
    /\ sub \in [{"overview", "network", "security", "tools"} -> PanelSet]
    /\ OwnViews(sub)
    /\ tab = "threats" => streaming

\* A panel is that of one section only.
LEMMA PanelsOfFacts ==
    /\ DOMAIN PanelsOf = {"overview", "network", "security", "tools"}
    /\ \A s \in DOMAIN PanelsOf : /\ 1 \in DOMAIN PanelsOf[s]
                                 /\ \A i \in DOMAIN PanelsOf[s] :
                                       /\ PanelsOf[s][i] \in PanelSet
                                       /\ PanelsOf[s][i] = "threats" => s = "security"
<1>1. DOMAIN PanelsOf = {"overview", "network", "security", "tools"}
  BY DEF PanelsOf
<1>2. /\ PanelsOf["overview"] = <<"dashboard">>
      /\ PanelsOf["network"] = <<"cni-health", "ipam", "topology", "endpoints", "policies">>
      /\ PanelsOf["security"] = <<"threats", "audit">>
      /\ PanelsOf["tools"] = <<"diagnostics", "configure">>
  BY DEF PanelsOf
<1> DEFINE OwnPanels(s, v) ==
             1 \in DOMAIN v /\ \A i \in DOMAIN v : v[i] \in PanelSet /\ (v[i] = "threats" => s = "security")
           Own(s) == OwnPanels(s, PanelsOf[s])
<1>3. OwnPanels("overview", <<"dashboard">>)
  BY DEF PanelSet
<1>4. OwnPanels("network", <<"cni-health", "ipam", "topology", "endpoints", "policies">>)
  BY DEF PanelSet
<1>5. OwnPanels("security", <<"threats", "audit">>)
  BY DEF PanelSet
<1>6. OwnPanels("tools", <<"diagnostics", "configure">>)
  BY DEF PanelSet
<1> HIDE DEF OwnPanels
<1>7. Own("overview") /\ Own("network") /\ Own("security") /\ Own("tools")
  BY <1>2, <1>3, <1>4, <1>5, <1>6, Zenon
<1> HIDE DEF Own
<1>8. \A s \in DOMAIN PanelsOf : Own(s)
  BY <1>1, <1>7
<1> QED
  BY <1>1, <1>8 DEF Own, OwnPanels

LEMMA FirstViewsFacts ==
    /\ FirstViews \in [{"overview", "network", "security", "tools"} -> PanelSet]
    /\ OwnViews(FirstViews)
  BY PanelsOfFacts DEF FirstViews, OwnViews

LEMMA SectionFacts ==
    ASSUME NEW t \in Tabset
    PROVE  /\ Section(t) \in {"overview", "network", "security", "tools"}
           /\ Section(t) = "security" => t \in {"threats", "security"}
  BY DEF Section, Tabset

LEMMA ActivateFacts ==
    ASSUME PageInv, NEW t \in Tabset, Activate(t)
    PROVE  PageInv'
<1>1. /\ tab' = t /\ sub' \in {sub, FirstViews}
      /\ streaming' = (streaming \/ t = "threats")
  BY DEF Activate, ShowPage, StreamAsked
<1> QED
  BY <1>1, FirstViewsFacts DEF PageInv, OwnViews

LEMMA NextPageInv == PageInv /\ [PageNext]_pageVars => PageInv'
<1> SUFFICES ASSUME PageInv, [PageNext]_pageVars
             PROVE  PageInv'
  OBVIOUS
<1>d. \A s \in {"overview", "network", "security", "tools"} : Default[s] \in Tabset
  BY DEF Default, Tabset
<1>s. /\ Sections = <<"overview", "network", "security", "tools">>
      /\ \A i \in DOMAIN Sections : Sections[i] \in {"overview", "network", "security", "tools"}
  BY DEF Sections
<1>1. ASSUME NEW i \in DOMAIN Sections, ClickSection(Sections[i])
      PROVE  PageInv'
  BY <1>1, <1>d, <1>s, ActivateFacts DEF ClickSection
<1>2. ASSUME NEW n \in {1, Len(Sections) - 1}, ArrowKey(n)
      PROVE  PageInv'
  <2> DEFINE i == CHOOSE k \in DOMAIN Sections : Sections[k] = Section(tab)
             j == ((i - 1 + n) % Len(Sections)) + 1
  <2>1. Section(tab) \in {"overview", "network", "security", "tools"}
    BY SectionFacts DEF PageInv
  <2>2. i \in 1..4 /\ Len(Sections) = 4
    BY <2>1, <1>s
  <2>3. n \in {1, 3}
    BY <2>2
  <2>4. j \in DOMAIN Sections
    <3> HIDE DEF i
    <3> QED BY <2>2, <2>3, <1>s
  <2>5. Activate(Default[Sections[j]])
    BY <1>2 DEF ArrowKey
  <2> QED
    BY <2>4, <2>5, <1>d, <1>s, ActivateFacts
<1>3. ASSUME NEW t \in {"cni-health", "network", "security"}, ClickCard(t)
      PROVE  PageInv'
  BY <1>3, ActivateFacts DEF ClickCard, Tabset
<1>4. ASSUME NEW s \in DOMAIN PanelsOf, NEW i \in DOMAIN PanelsOf[s], ChooseView(PanelsOf[s][i])
      PROVE  PageInv'
  <2> DEFINE v == PanelsOf[s][i]
             here == Section(tab)
  <2>1. here \in {"overview", "network", "security", "tools"}
    BY SectionFacts DEF PageInv
  <2>2. PICK k \in DOMAIN PanelsOf[here] : PanelsOf[here][k] = v
    BY <1>4 DEF ChooseView
  <2>3. v \in PanelSet /\ (v = "threats" => here = "security")
    BY <2>1, <2>2, PanelsOfFacts
  <2>4. tab' = tab /\ streaming' = streaming /\ sub' = [sub EXCEPT ![here] = v]
    BY <1>4 DEF ChooseView, ShowPage
  <2> HIDE DEF v, here
  <2> QED
    BY <2>1, <2>3, <2>4 DEF PageInv, OwnViews
<1>5. CASE PanelThrows \/ TryAgain
  BY <1>5, FirstViewsFacts DEF PanelThrows, TryAgain, ShowPage, PageInv, OwnViews
<1>6. CASE ReloadPage
  BY <1>6, FirstViewsFacts DEF ReloadPage, ReloadedStream, PageInv, OwnViews
<1>7. CASE AlertsCome \/ TogglePause \/ ClearThreats \/ UNCHANGED pageVars
  BY <1>7 DEF AlertsCome, TogglePause, ClearThreats, pageVars, PageInv, OwnViews
<1> QED
  BY <1>1, <1>2, <1>3, <1>4, <1>5, <1>6, <1>7 DEF PageNext

-----------------------------------------------------------------------------
(* The subscriptions.                                                      *)

\* The panel on the page is the one whose fetch belongs to the active tab.
UnderItsTab == Panel \in DOMAIN Subscription /\ Subscription[Panel] = tab

Fed ==
    /\ UnderItsTab => tab \in subscribed
    /\ paused \/ snapshot # Absent => Panel = "threats"

LEMMA ShownIsFed ==
    ASSUME NEW t, NEW views, NEW error, ShowPage(t, views, error)
    PROVE  Fed'
<1> DEFINE panel == PanelAt(t, views, error)
<1>1. tab' = t /\ Panel' = panel
  BY DEF ShowPage, Panel, PanelAt
<1>2. subscribed' = subscribed \cup
         (IF panel \in DOMAIN Subscription /\ Subscription[panel] = t THEN {t} ELSE {})
  BY DEF ShowPage
<1>3. panel = "threats" \/ (paused' = FALSE /\ snapshot' = Absent)
  BY DEF ShowPage
<1>4. Absent' = Absent
  BY DEF Absent
<1> HIDE DEF panel
<1>5. UnderItsTab' => tab' \in subscribed'
  BY <1>1, <1>2 DEF UnderItsTab
<1>6. (paused \/ snapshot # Absent)' => Panel' = "threats"
  BY <1>1, <1>3, <1>4
<1> QED
  BY <1>5, <1>6 DEF Fed

LEMMA NextFed == Fed /\ [PageNext]_pageVars => Fed'
<1> SUFFICES ASSUME Fed, [PageNext]_pageVars
             PROVE  Fed'
  OBVIOUS
<1>1. ASSUME NEW t, NEW views, NEW error, ShowPage(t, views, error)
      PROVE  Fed'
  BY <1>1, ShownIsFed
<1>2. ASSUME NEW t, Activate(t)
      PROVE  Fed'
  <2>1. \E views : ShowPage(t, views, failed)
    BY <1>2 DEF Activate
  <2> QED
    BY <1>1, <2>1
<1>3. ASSUME \/ \E i \in DOMAIN Sections : ClickSection(Sections[i])
             \/ \E n \in {1, Len(Sections) - 1} : ArrowKey(n)
             \/ \E t \in {"cni-health", "network", "security"} : ClickCard(t)
      PROVE  Fed'
  BY <1>2, <1>3 DEF ClickSection, ArrowKey, ClickCard
<1>4. ASSUME NEW view, ChooseView(view)
      PROVE  Fed'
  <2>1. \E views : ShowPage(tab, views, failed)
    BY <1>4 DEF ChooseView
  <2> QED
    BY <1>1, <2>1
<1>5. CASE PanelThrows \/ TryAgain
  <2>1. \E views, error : ShowPage(tab, views, error)
    BY <1>5 DEF PanelThrows, TryAgain
  <2> QED
    BY <1>1, <2>1
<1>6. CASE ReloadPage
  <2> DEFINE panel == FirstViews[Section(tab)]
  <2>1. tab' = tab /\ Panel' = panel /\ paused' = FALSE /\ snapshot' = Absent /\ Absent' = Absent
    BY <1>6 DEF ReloadPage, Panel, PanelAt, Absent
  <2>2. subscribed' = IF panel \in DOMAIN Subscription /\ Subscription[panel] = tab
                      THEN {tab} ELSE {}
    BY <1>6 DEF ReloadPage
  <2> QED
    BY <2>1, <2>2 DEF Fed, UnderItsTab
<1>7. CASE AlertsCome \/ TogglePause \/ ClearThreats \/ UNCHANGED pageVars
  <2>1. /\ UNCHANGED <<tab, sub, failed, subscribed>>
        /\ UNCHANGED threatVars \/ Panel = "threats"
    BY <1>7 DEF AlertsCome, TogglePause, ClearThreats, pageVars, threatVars
  <2>2. Panel' = Panel /\ Absent' = Absent
    BY <2>1 DEF Panel, PanelAt, Absent
  <2> QED
    BY <2>1, <2>2 DEF Fed, UnderItsTab, threatVars
<1> QED
  BY <1>3, <1>4, <1>5, <1>6, <1>7 DEF PageNext

\* "Each panel calls this on mount to subscribe to its supplementary data" is true
\* of every panel under the tab it belongs to, however the user came there: by a
\* click, a key, a card, a reload or the way back from an error.
THEOREM PanelsUnderTheirTabSubscribe == PageSpec => [](UnderItsTab => PanelsSubscribe)
<1>1. PageInit => Fed
  BY DEF PageInit, Fed
<1>2. Fed => (UnderItsTab => PanelsSubscribe)
  BY DEF Fed, UnderItsTab, PanelsSubscribe
<1> QED
  BY <1>1, <1>2, NextFed, PTL DEF PageSpec

\* The panel a section opens with belongs to the tab that the sidebar sets; the first
\* of the tools subscribes to nothing.
LEMMA FirstPanelIsUnderItsTab ==
    ASSUME PageInv, tab \notin CardTabs, OpensAsItShould, Panel \in DOMAIN Subscription
    PROVE  UnderItsTab
<1>1. FirstViews = [s \in DOMAIN PanelsOf |-> PanelsOf[s][1]]
  BY DEF FirstViews
<1>2. /\ FirstViews["overview"] = "dashboard" /\ FirstViews["network"] = "cni-health"
      /\ FirstViews["security"] = "threats" /\ FirstViews["tools"] = "diagnostics"
  BY <1>1 DEF PanelsOf
<1>3. tab \in {"dashboard", "cni-health", "threats", "diagnostics"}
  BY DEF PageInv, Tabset, CardTabs
<1>4. /\ Section("dashboard") = "overview" /\ Section("cni-health") = "network"
      /\ Section("threats") = "security" /\ Section("diagnostics") = "tools"
  BY DEF Section
<1>5. Panel = tab
  BY <1>2, <1>3, <1>4 DEF OpensAsItShould, Panel, PanelAt
<1>6. /\ "diagnostics" \notin DOMAIN Subscription
      /\ Subscription["dashboard"] = "dashboard" /\ Subscription["cni-health"] = "cni-health"
      /\ Subscription["threats"] = "threats"
  BY DEF Subscription
<1> QED
  BY <1>3, <1>5, <1>6 DEF UnderItsTab

\* For any number of alerts: whichever way the user takes, a section that opens with
\* its first panel has its data and its stream, unless a card named the section where
\* a tab is meant, and a pause ends with the panel it was set in.
THEOREM PageOpensFed == PageSpec => []SectionsOpenFed
<1>1. PageInit => PageInv /\ Fed
  BY FirstViewsFacts DEF PageInit, PageInv, Tabset, Fed
<1>2. PageInv /\ Fed => SectionsOpenFed
  <2> SUFFICES ASSUME PageInv, Fed
               PROVE  SectionsOpenFed
    OBVIOUS
  <2>1. ASSUME tab \notin CardTabs, OpensAsItShould, Panel \in DOMAIN Subscription
        PROVE  Subscription[Panel] \in subscribed /\ (Panel = "threats" => streaming)
    <3>1. UnderItsTab
      BY <2>1, FirstPanelIsUnderItsTab
    <3>2. Subscription["threats"] = "threats"
      BY DEF Subscription
    <3> QED
      BY <3>1, <3>2 DEF Fed, UnderItsTab, PageInv
  <2>2. "threats" \in DOMAIN Subscription
    BY DEF Subscription
  <2> QED
    BY <2>1, <2>2 DEF Fed, SectionsOpenFed
<1> QED
  BY <1>1, <1>2, NextPageInv, NextFed, PTL DEF PageSpec
=============================================================================
