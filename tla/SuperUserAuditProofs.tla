------------------------ MODULE SuperUserAuditProofs ------------------------
(***************************************************************************)
(* Super-user requests and their audit log, for any number of requests     *)
(* and any length of the log.                                              *)
(***************************************************************************)
EXTENDS SuperUserAudit, SequenceTheorems, TLAPS

LEMMA AppendedElements ==
    ASSUME NEW S, NEW s \in Seq(S), NEW e \in S
    PROVE  Elements(Append(s, e)) = Elements(s) \cup {e}
<1>1. /\ Len(Append(s, e)) = Len(s) + 1
      /\ DOMAIN Append(s, e) = 1..(Len(s) + 1) /\ DOMAIN s = 1..Len(s)
      /\ \A k \in 1..Len(s) : Append(s, e)[k] = s[k]
      /\ Append(s, e)[Len(s) + 1] = e
  OBVIOUS
<1>2. 1..(Len(s) + 1) = 1..Len(s) \cup {Len(s) + 1}
  OBVIOUS
<1> QED
  BY <1>1, <1>2 DEF Elements

(***************************************************************************)
(* A step of a request pushes an entry, trims the log, or leaves it alone. *)
(* What a push logs is the request at LPUSH and what it has decided.       *)
(***************************************************************************)
Pushes(r) ==
    /\ step[r] = "lpush"
    /\ Ring!Push(<<r, outcome[r] = "success">>)

LEMMA LogSteps ==
    ASSUME NEW r \in Requests, Handle(r)
    PROVE  \/ Pushes(r) /\ step' \in {[step EXCEPT ![r] = "ltrim"], [step EXCEPT ![r] = "answered"]}
           \/ Ring!Trim
           \/ UNCHANGED auditVars
  BY DEF Handle, Admit, DenyWrite, DenyRead, Login, Write, RefuseBody, ReadSecret, LogPush, LogTrim,
         LogFails, Decide, Goto, Pushes

-----------------------------------------------------------------------------
LEMMA InitTypeOK == Init => TypeOK
  BY DEF Init, Ring!Init, TypeOK

LEMMA HandleTypeOK ==
    ASSUME TypeOK, NEW r \in Requests, Handle(r)
    PROVE  TypeOK'
<1> USE DEF TypeOK, Running
<1>1. CASE Admit(r)
  BY <1>1 DEF Admit, Goto, worldVars, auditVars
<1>2. CASE DenyWrite(r)
  BY <1>2 DEF DenyWrite, Decide, Goto, worldVars, auditVars
<1>3. CASE DenyRead(r)
  BY <1>3 DEF DenyRead, Goto, worldVars, auditVars
<1>4. CASE Login(r)
  BY <1>4 DEF Login, Decide, Goto, worldVars, auditVars
<1>5. ASSUME NEW effect \in BOOLEAN, NEW raises \in BOOLEAN, Write(r, effect, raises)
      PROVE  TypeOK'
  BY <1>5 DEF Write, Decide, Goto, worldVars, auditVars
<1>6. ASSUME NEW success \in BOOLEAN, RefuseBody(r, success)
      PROVE  TypeOK'
  BY <1>6 DEF RefuseBody, Goto, worldVars, auditVars
<1>7. CASE ReadSecret(r)
  BY <1>7 DEF ReadSecret, Goto, worldVars, auditVars
<1>8. <<r, outcome[r] = "success">> \in Entry
  BY DEF Entry
<1>9. CASE LogPush(r)
  BY <1>8, <1>9 DEF LogPush, Ring!Push, Goto, worldVars
<1>10. Ring!Trimmed(vault) \in Seq(Entry)
  BY AuditAssumption DEF Ring!Trimmed
<1>11. CASE LogTrim(r)
  BY <1>10, <1>11 DEF LogTrim, Ring!Trim, Goto, worldVars
<1>12. ASSUME NEW applied \in BOOLEAN, LogFails(r, applied)
       PROVE  TypeOK'
  <2>1. pushed' \in Seq(Entry) /\ vault' \in Seq(Entry)
    <3>1. \/ Ring!Push(<<r, outcome[r] = "success">>)
          \/ Ring!Trim
          \/ UNCHANGED <<pushed, vault>>
      BY <1>12 DEF LogFails, auditVars
    <3>2. CASE Ring!Push(<<r, outcome[r] = "success">>)
      BY <3>2, <1>8 DEF Ring!Push
    <3>3. CASE Ring!Trim
      BY <3>3, <1>10 DEF Ring!Trim
    <3> QED
      BY <3>1, <3>2, <3>3
  <2>2. /\ step' = [step EXCEPT ![r] = "answered"]
        /\ UNCHANGED <<worldVars, kind, credential, outcome, answer, performed>>
    BY <1>12 DEF LogFails, Goto
  <2> QED
    BY <2>1, <2>2 DEF worldVars
<1> QED
  BY <1>1, <1>2, <1>3, <1>4, <1>5, <1>6, <1>7, <1>9, <1>11, <1>12 DEF Handle

LEMMA NextTypeOK == TypeOK /\ [Next]_vars => TypeOK'
<1> SUFFICES ASSUME TypeOK, [Next]_vars PROVE TypeOK'
  OBVIOUS
<1>1. CASE \E r \in Requests : Handle(r)
  BY <1>1, HandleTypeOK
<1>2. CASE Crash
  <2>1. step' \in [Requests -> {"new", "answered", "aborted"} \cup Running]
    BY <1>2 DEF Crash, TypeOK
  <2>2. performed' \in Seq(Requests)
    <3>1. PICK late \in Requests \cup {"none"} :
              \/ late \in Requests /\ performed' = Append(performed, late)
              \/ performed' = performed
      BY <1>2 DEF Crash
    <3>2. CASE late \in Requests /\ performed' = Append(performed, late)
      BY <3>2 DEF TypeOK
    <3> QED
      BY <3>1, <3>2 DEF TypeOK
  <2> QED
    BY <1>2, <2>1, <2>2 DEF Crash, TypeOK, worldVars, auditVars
<1>3. CASE RedisForgets
  BY <1>3 DEF RedisForgets, Ring!Forget, TypeOK, worldVars, requestVars
<1>4. CASE UNCHANGED vars
  BY <1>4 DEF vars, worldVars, requestVars, auditVars, TypeOK
<1> QED
  BY <1>1, <1>2, <1>3, <1>4 DEF Next

\* The state of the handlers and of the log is always of its type
\* (require_super_user, log_audit).
THEOREM AuditTypeCorrect == Spec => []TypeOK
<1> QED
  BY InitTypeOK, NextTypeOK, PTL DEF Spec

-----------------------------------------------------------------------------
(***************************************************************************)
(* The log is a ring buffer of its own pushes.                             *)
(***************************************************************************)
LEMMA StepIsRingStep == [Next]_vars => [Ring!Next]_(Ring!ringVars)
<1> SUFFICES ASSUME [Next]_vars PROVE Ring!Next \/ UNCHANGED <<pushed, vault>>
  BY DEF Ring!ringVars
<1>1. ASSUME NEW r \in Requests, Handle(r)
      PROVE  Ring!Next \/ UNCHANGED <<pushed, vault>>
  <2>1. <<r, outcome[r] = "success">> \in Entry
    BY DEF Entry
  <2> QED
    BY <1>1, <2>1, LogSteps DEF Pushes, Ring!Next, auditVars
<1>2. CASE Crash
  BY <1>2 DEF Crash, auditVars
<1>3. CASE RedisForgets
  BY <1>3 DEF RedisForgets, Ring!Next
<1> QED
  BY <1>1, <1>2, <1>3 DEF Next, vars, auditVars

Proved == INSTANCE RingVaultProofs WITH Cap <- MaxAudit

\* The audit log shows the newest entries, newest first, for any number of
\* overlapping requests and any cap (log_audit).
THEOREM LogIsNewest == Spec => []AuditIsNewest
<1>1. Init => Proved!Init
  BY DEF Init, Ring!Init, Proved!Init
<1>2. [Ring!Next]_(Ring!ringVars) <=> [Proved!Next]_(Proved!ringVars)
  BY DEF Ring!Next, Ring!Push, Ring!Trim, Ring!Trimmed, Ring!Forget, Ring!ringVars,
         Proved!Next, Proved!Push, Proved!Trim, Proved!Trimmed, Proved!Forget, Proved!ringVars
<1>3. AuditIsNewest <=> Proved!VaultIsNewest
  BY DEF AuditIsNewest, Ring!VaultIsNewest, Proved!VaultIsNewest
<1>4. Proved!Spec => [](Proved!TypeOK /\ Proved!VaultIsNewest)
  BY AuditAssumption, Proved!RingIsNewest DEF Proved!PositiveCap
<1> QED
  BY <1>1, <1>2, <1>3, <1>4, StepIsRingStep, PTL DEF Spec, Proved!Spec
-----------------------------------------------------------------------------
(***************************************************************************)
(* The gate.  What is inductive beside the property: only a trusted        *)
(* request reaches its endpoint.                                           *)
(***************************************************************************)
GateHolds == \A r \in Requests : step[r] = "endpoint" => Trusted(r)

GuardedWrites == TypeOK /\ OnlyTrustedWrites /\ GateHolds

LEMMA HandleGuarded ==
    ASSUME GuardedWrites, NEW r \in Requests, Handle(r)
    PROVE  OnlyTrustedWrites' /\ GateHolds'
<1> USE DEF GuardedWrites, OnlyTrustedWrites, GateHolds, Trusted, TypeOK, Goto, Decide, worldVars
<1>1. /\ UNCHANGED <<passwordSet, kind, credential>>
      /\ \A q \in Requests \ {r} : step'[q] = step[q]
  BY DEF Handle, Admit, DenyWrite, DenyRead, Login, Write, RefuseBody, ReadSecret, LogPush,
         LogTrim, LogFails
<1>2. step'[r] = "endpoint" => Trusted(r)
  BY DEF Handle, Admit, DenyWrite, DenyRead, Login, Write, RefuseBody, ReadSecret, LogPush,
         LogTrim, LogFails
<1>3. GateHolds'
  BY <1>1, <1>2
<1>4. \/ performed' = performed
      \/ performed' = Append(performed, r) /\ step[r] = "endpoint" /\ kind[r] = "write"
  BY DEF Handle, Admit, DenyWrite, DenyRead, Login, Write, RefuseBody, ReadSecret, LogPush,
         LogTrim, LogFails
<1>5. Elements(performed') \subseteq Elements(performed) \cup {r}
  <2>1. Elements(Append(performed, r)) = Elements(performed) \cup {r}
    BY AppendedElements
  <2> QED
    BY <1>4, <2>1
<1>6. OnlyTrustedWrites'
  BY <1>1, <1>4, <1>5
<1> QED
  BY <1>3, <1>6

LEMMA CrashGuarded ==
    ASSUME GuardedWrites, Crash
    PROVE  OnlyTrustedWrites' /\ GateHolds'
<1> USE DEF GuardedWrites, OnlyTrustedWrites, GateHolds, Trusted, TypeOK, worldVars
<1>1. /\ UNCHANGED <<passwordSet, kind, credential>>
      /\ \A q \in Requests : step'[q] # "endpoint"
  BY DEF Crash, Running
<1>2. PICK late \in Requests \cup {"none"} :
          \/ performed' = performed
          \/ /\ late \in Requests /\ performed' = Append(performed, late)
             /\ step[late] = "endpoint" /\ kind[late] = "write"
  BY DEF Crash
<1>3. \/ Elements(performed') = Elements(performed)
      \/ /\ Elements(performed') = Elements(performed) \cup {late}
         /\ late \in Requests /\ step[late] = "endpoint" /\ kind[late] = "write"
  <2>1. ASSUME late \in Requests
        PROVE  Elements(Append(performed, late)) = Elements(performed) \cup {late}
    BY <2>1, AppendedElements
  <2> QED
    BY <1>2, <2>1
<1> QED
  BY <1>1, <1>3

\* Kubernetes performs no write for a request without a good token, however
\* requests overlap, fail, or are cut off by a crash (require_super_user).
THEOREM WritesAreTrusted == Spec => []OnlyTrustedWrites
<1>1. Init => GuardedWrites
  BY InitTypeOK DEF Init, GuardedWrites, OnlyTrustedWrites, GateHolds, Elements
<1>2. GuardedWrites /\ [Next]_vars => GuardedWrites'
  <2> SUFFICES ASSUME GuardedWrites, [Next]_vars
               PROVE  OnlyTrustedWrites' /\ GateHolds'
    BY NextTypeOK DEF GuardedWrites
  <2>1. CASE \E r \in Requests : Handle(r)
    BY <2>1, HandleGuarded
  <2>2. CASE Crash
    BY <2>2, CrashGuarded
  <2>3. CASE RedisForgets \/ UNCHANGED vars
    BY <2>3 DEF RedisForgets, vars, worldVars, requestVars, GuardedWrites, OnlyTrustedWrites,
                GateHolds, Trusted, Elements
  <2> QED
    BY <2>1, <2>2, <2>3 DEF Next
<1>3. GuardedWrites => OnlyTrustedWrites
  BY DEF GuardedWrites
<1> QED
  BY <1>1, <1>2, <1>3, PTL DEF Spec
-----------------------------------------------------------------------------
(***************************************************************************)
(* The truth of the log.  What is inductive beside the property: a write   *)
(* whose handler is about to log a success is in the cluster.              *)
(***************************************************************************)
LogsTheTruth ==
    \A r \in Requests :
        kind[r] = "write" /\ step[r] = "lpush" /\ outcome[r] = "success" => r \in Elements(performed)

TrueLog == TypeOK /\ SuccessEntryIsTrue /\ LogsTheTruth

\* What Kubernetes has performed is never taken back.
LEMMA PerformedGrows ==
    ASSUME TypeOK, [Next]_vars
    PROVE  Elements(performed) \subseteq Elements(performed')
<1>1. PICK r \in Requests \cup {"none"} :
          \/ performed' = performed
          \/ r \in Requests /\ performed' = Append(performed, r)
  <2>1. ASSUME NEW r \in Requests, Handle(r)
        PROVE  performed' \in {performed, Append(performed, r)}
    BY <2>1 DEF Handle, Admit, DenyWrite, DenyRead, Login, Write, RefuseBody, ReadSecret, LogPush,
                LogTrim, LogFails
  <2>2. CASE Crash
    BY <2>2 DEF Crash
  <2> QED
    BY <2>1, <2>2 DEF Next, RedisForgets, vars, requestVars
<1>2. ASSUME r \in Requests
      PROVE  Elements(Append(performed, r)) = Elements(performed) \cup {r}
  BY <1>2, AppendedElements DEF TypeOK
<1> QED
  BY <1>1, <1>2

\* What a step adds to the log is the entry of the request at LPUSH.
LEMMA LogGrowsByEntry ==
    ASSUME TypeOK, NEW r \in Requests, Handle(r)
    PROVE  \/ Elements(pushed') = Elements(pushed)
           \/ /\ step[r] = "lpush"
              /\ pushed' = Append(pushed, <<r, outcome[r] = "success">>)
              /\ Elements(pushed') = Elements(pushed) \cup {<<r, outcome[r] = "success">>}
<1>1. <<r, outcome[r] = "success">> \in Entry
  BY DEF Entry
<1>2. Elements(Append(pushed, <<r, outcome[r] = "success">>))
         = Elements(pushed) \cup {<<r, outcome[r] = "success">>}
  BY <1>1, AppendedElements DEF TypeOK
<1> QED
  BY <1>2, LogSteps DEF Pushes, Ring!Push, Ring!Trim, auditVars

LEMMA HandleTrueLog ==
    ASSUME TrueLog, NEW r \in Requests, Handle(r), Elements(performed) \subseteq Elements(performed')
    PROVE  SuccessEntryIsTrue' /\ LogsTheTruth'
<1> USE DEF TrueLog, TypeOK
<1>1. SuccessEntryIsTrue'
  <2> SUFFICES ASSUME NEW q \in Requests, kind[q] = "write", <<q, TRUE>> \in Elements(pushed')
               PROVE  q \in Elements(performed')
    BY DEF SuccessEntryIsTrue, Handle, Admit, DenyWrite, DenyRead, Login, Write, RefuseBody,
           ReadSecret, LogPush, LogTrim, LogFails
  <2>1. \/ <<q, TRUE>> \in Elements(pushed)
        \/ step[q] = "lpush" /\ outcome[q] = "success"
    <3>1. ASSUME <<q, TRUE>> = <<r, outcome[r] = "success">>
          PROVE  q = r /\ outcome[r] = "success"
      BY <3>1
    <3> QED
      BY <3>1, LogGrowsByEntry
  <2> QED
    BY <2>1 DEF SuccessEntryIsTrue, LogsTheTruth
<1>2. \A q \in Requests \ {r} :
          UNCHANGED <<kind[q], step[q], outcome[q]>>
  BY DEF Handle, Admit, DenyWrite, DenyRead, Login, Write, RefuseBody, ReadSecret, LogPush, LogTrim,
         LogFails, Decide, Goto
<1>3. ASSUME kind'[r] = "write", step'[r] = "lpush", outcome'[r] = "success"
      PROVE  r \in Elements(performed')
  <2>1. PICK effect \in BOOLEAN, raises \in BOOLEAN : Write(r, effect, raises)
    BY <1>3 DEF Handle, Admit, DenyWrite, DenyRead, Login, RefuseBody, ReadSecret, LogPush, LogTrim,
                LogFails, Decide, Goto, IsWrite
  <2>2. performed' = Append(performed, r)
    BY <1>3, <2>1 DEF Write, Decide, Goto
  <2> QED
    BY <2>2, AppendedElements
<1> QED
  BY <1>1, <1>2, <1>3 DEF LogsTheTruth

\* An audit entry of success is true: the write it tells of was performed before
\* (require_super_user, the write endpoints of config.py).
THEOREM SuccessIsTrue == Spec => []SuccessEntryIsTrue
<1>1. Init => TrueLog
  BY InitTypeOK
  DEF Init, Ring!Init, TrueLog, SuccessEntryIsTrue, LogsTheTruth, Elements
<1>2. TrueLog /\ [Next]_vars => TrueLog'
  <2> SUFFICES ASSUME TrueLog, [Next]_vars
               PROVE  SuccessEntryIsTrue' /\ LogsTheTruth'
    BY NextTypeOK DEF TrueLog
  <2>1. Elements(performed) \subseteq Elements(performed')
    BY PerformedGrows DEF TrueLog
  <2>2. CASE \E r \in Requests : Handle(r)
    BY <2>1, <2>2, HandleTrueLog
  <2>3. CASE Crash
    <3>1. UNCHANGED <<kind, outcome, pushed>>
          /\ \A r \in Requests : step'[r] = "lpush" => step[r] = "lpush"
      BY <2>3 DEF Crash, TrueLog, TypeOK, Running, auditVars, worldVars
    <3>2. SuccessEntryIsTrue'
      BY <2>1, <3>1 DEF TrueLog, SuccessEntryIsTrue, Elements
    <3>3. LogsTheTruth'
      BY <2>1, <3>1 DEF TrueLog, LogsTheTruth
    <3> QED
      BY <3>2, <3>3
  <2>4. CASE RedisForgets
    <3>1. Elements(pushed') = {}
      BY <2>4 DEF RedisForgets, Ring!Forget, Elements
    <3> QED
      BY <2>1, <2>4, <3>1 DEF RedisForgets, TrueLog, SuccessEntryIsTrue, LogsTheTruth, requestVars
  <2>5. CASE UNCHANGED vars
    BY <2>5 DEF vars, requestVars, auditVars, TrueLog, SuccessEntryIsTrue, LogsTheTruth, Elements
  <2> QED
    BY <2>2, <2>3, <2>4, <2>5 DEF Next
<1>3. TrueLog => SuccessEntryIsTrue
  BY DEF TrueLog
<1> QED
  BY <1>1, <1>2, <1>3, PTL DEF Spec
-----------------------------------------------------------------------------
(***************************************************************************)
(* One entry for a request.  What is inductive beside the property: a      *)
(* request with an entry has left LPUSH for good.                          *)
(***************************************************************************)
PastPush == {"ltrim", "answered", "aborted"}

LoggedHasMovedOn == \A k \in DOMAIN pushed : step[pushed[k][1]] \in PastPush

LoggedOnce == TypeOK /\ OneEntryPerRequest /\ LoggedHasMovedOn

LEMMA HandleLoggedOnce ==
    ASSUME LoggedOnce, NEW r \in Requests, Handle(r)
    PROVE  OneEntryPerRequest' /\ LoggedHasMovedOn'
<1> USE DEF LoggedOnce, TypeOK
<1>1. /\ \A q \in Requests \ {r} : step'[q] = step[q]
      /\ step[r] \in PastPush => step'[r] \in PastPush
  BY DEF Handle, Admit, DenyWrite, DenyRead, Login, Write, RefuseBody, ReadSecret, LogPush, LogTrim,
         LogFails, Decide, Goto, PastPush
<1>2. \A k \in DOMAIN pushed : pushed[k][1] \in Requests
  BY DEF Entry
<1>3. CASE pushed' = pushed
  BY <1>1, <1>2, <1>3 DEF OneEntryPerRequest, LoggedHasMovedOn
<1>4. CASE /\ step[r] = "lpush"
           /\ pushed' = Append(pushed, <<r, outcome[r] = "success">>)
           /\ step'[r] \in PastPush
  <2>1. /\ Len(pushed') = Len(pushed) + 1
        /\ DOMAIN pushed' = 1..(Len(pushed) + 1) /\ DOMAIN pushed = 1..Len(pushed)
        /\ \A k \in 1..Len(pushed) : pushed'[k] = pushed[k]
        /\ pushed'[Len(pushed) + 1][1] = r
    BY <1>4
  <2>2. \A k \in 1..Len(pushed) : pushed[k][1] # r
    BY <1>4, <2>1 DEF LoggedHasMovedOn, PastPush
  <2>3. LoggedHasMovedOn'
    BY <1>1, <1>2, <1>4, <2>1 DEF LoggedHasMovedOn
  <2>4. OneEntryPerRequest'
    BY <2>1, <2>2 DEF OneEntryPerRequest
  <2> QED
    BY <2>3, <2>4
<1> QED
  BY <1>3, <1>4, LogSteps DEF Pushes, Ring!Push, Ring!Trim, auditVars, PastPush

\* A request leaves at most one entry in the log, also when a command of the
\* log takes effect and its answer is lost (log_audit).
THEOREM EntriesAreSingle == Spec => []OneEntryPerRequest
<1>1. Init => LoggedOnce
  BY InitTypeOK DEF Init, Ring!Init, LoggedOnce, OneEntryPerRequest, LoggedHasMovedOn
<1>2. LoggedOnce /\ [Next]_vars => LoggedOnce'
  <2> SUFFICES ASSUME LoggedOnce, [Next]_vars
               PROVE  OneEntryPerRequest' /\ LoggedHasMovedOn'
    BY NextTypeOK DEF LoggedOnce
  <2>1. CASE \E r \in Requests : Handle(r)
    BY <2>1, HandleLoggedOnce
  <2>2. CASE Crash
    BY <2>2 DEF Crash, LoggedOnce, TypeOK, Entry, OneEntryPerRequest, LoggedHasMovedOn, PastPush,
                Running, auditVars
  <2>3. CASE RedisForgets
    BY <2>3 DEF RedisForgets, Ring!Forget, OneEntryPerRequest, LoggedHasMovedOn
  <2>4. CASE UNCHANGED vars
    BY <2>4 DEF vars, requestVars, auditVars, LoggedOnce, OneEntryPerRequest, LoggedHasMovedOn
  <2> QED
    BY <2>1, <2>2, <2>3, <2>4 DEF Next
<1>3. LoggedOnce => OneEntryPerRequest
  BY DEF LoggedOnce
<1> QED
  BY <1>1, <1>2, <1>3, PTL DEF Spec

-----------------------------------------------------------------------------
(***************************************************************************)
(* The log and the answers.  What is inductive beside the property: the    *)
(* entry is there from LPUSH on, and what a write's handler hands to the   *)
(* log is what it answers.                                                 *)
(***************************************************************************)
Logged(r) == <<r, answer[r] = "ok">> \in Elements(pushed)

EntryIsTheAnswer ==
    \A r \in Requests :
        kind[r] = "write" /\ step[r] = "lpush" => (outcome[r] = "success" <=> answer[r] = "ok")

LoggedBeforeTrim ==
    redisSteady => \A r \in Requests : kind[r] = "write" /\ step[r] = "ltrim" => Logged(r)

CompleteLog == TypeOK /\ AnsweredWriteIsLogged /\ EntryIsTheAnswer /\ LoggedBeforeTrim

LEMMA HandleCompleteLog ==
    ASSUME CompleteLog, NEW r \in Requests, Handle(r)
    PROVE  AnsweredWriteIsLogged' /\ EntryIsTheAnswer' /\ LoggedBeforeTrim'
<1> USE DEF CompleteLog, TypeOK
<1>1. /\ UNCHANGED <<redisSteady, kind>>
      /\ \A q \in Requests \ {r} : UNCHANGED <<step[q], outcome[q], answer[q]>>
  BY DEF Handle, Admit, DenyWrite, DenyRead, Login, Write, RefuseBody, ReadSecret, LogPush, LogTrim,
         LogFails, Decide, Goto, worldVars
<1>2. Elements(pushed) \subseteq Elements(pushed')
  BY LogGrowsByEntry
<1>3. EntryIsTheAnswer'
  <2>1. kind[r] = "write" /\ step'[r] = "lpush" => (outcome'[r] = "success" <=> answer'[r] = "ok")
    BY DEF Handle, Admit, DenyWrite, DenyRead, Login, Write, RefuseBody, ReadSecret, LogPush,
           LogTrim, LogFails, Decide, Goto, IsWrite
  <2> QED
    BY <1>1, <2>1 DEF EntryIsTheAnswer
<1>4. ASSUME redisSteady, kind[r] = "write", step'[r] \in {"ltrim", "answered"}
      PROVE  Logged(r)'
  <2>1. LogPush(r) \/ LogTrim(r)
    BY <1>4 DEF Handle, Admit, DenyWrite, DenyRead, Login, Write, RefuseBody, ReadSecret, LogFails,
                Decide, Goto, IsWrite
  <2>2. answer' = answer
    BY <2>1 DEF LogPush, LogTrim
  <2>3. CASE LogTrim(r)
    BY <1>2, <1>4, <2>2, <2>3 DEF LogTrim, LoggedBeforeTrim, Logged
  <2>4. CASE LogPush(r)
    <3>1. <<r, outcome[r] = "success">> \in Entry
      BY DEF Entry
    <3>2. <<r, outcome[r] = "success">> \in Elements(pushed')
      BY <2>4, <3>1, AppendedElements DEF LogPush, Ring!Push
    <3>3. (outcome[r] = "success") = (answer[r] = "ok")
      BY <1>4, <2>4 DEF LogPush, EntryIsTheAnswer
    <3> QED
      BY <2>2, <3>2, <3>3 DEF Logged
  <2> QED
    BY <2>1, <2>3, <2>4
<1>5. ASSUME redisSteady, NEW q \in Requests \ {r}, kind[q] = "write",
             step'[q] \in {"ltrim", "answered"}
      PROVE  Logged(q)'
  BY <1>1, <1>2, <1>5 DEF AnsweredWriteIsLogged, LoggedBeforeTrim, Logged
<1> QED
  BY <1>1, <1>3, <1>4, <1>5 DEF AnsweredWriteIsLogged, LoggedBeforeTrim, Logged

\* With Redis working, a write the client got an answer for is in the log with
\* that outcome, whatever else the server does meanwhile (require_super_user,
\* log_audit).
THEOREM AnswersAreLogged == Spec => []AnsweredWriteIsLogged
<1>1. Init => CompleteLog
  BY InitTypeOK
  DEF Init, CompleteLog, AnsweredWriteIsLogged, EntryIsTheAnswer, LoggedBeforeTrim
<1>2. CompleteLog /\ [Next]_vars => CompleteLog'
  <2> SUFFICES ASSUME CompleteLog, [Next]_vars
               PROVE  AnsweredWriteIsLogged' /\ EntryIsTheAnswer' /\ LoggedBeforeTrim'
    BY NextTypeOK DEF CompleteLog
  <2> USE DEF CompleteLog, AnsweredWriteIsLogged, EntryIsTheAnswer, LoggedBeforeTrim, Logged
  <2>1. CASE \E r \in Requests : Handle(r)
    BY <2>1, HandleCompleteLog
  <2>2. CASE Crash
    BY <2>2 DEF Crash, TypeOK, Running, Elements, worldVars, auditVars
  <2>3. CASE RedisForgets
    BY <2>3 DEF RedisForgets, worldVars, requestVars
  <2>4. CASE UNCHANGED vars
    BY <2>4 DEF vars, worldVars, requestVars, auditVars, Elements
  <2> QED
    BY <2>1, <2>2, <2>3, <2>4 DEF Next
<1>3. CompleteLog => AnsweredWriteIsLogged
  BY DEF CompleteLog
<1> QED
  BY <1>1, <1>2, <1>3, PTL DEF Spec

-----------------------------------------------------------------------------
\* Before its handler has made up its mind a request has no answer.
NoAnswerYet == \A r \in Requests : step[r] \in {"new", "endpoint"} => answer[r] = "none"

LEMMA HandleKeepsAnswers ==
    ASSUME TypeOK, NoAnswerYet, NEW r \in Requests, Handle(r)
    PROVE  /\ NoAnswerYet'
           /\ \A q \in Requests : answer[q] # "none" => answer'[q] = answer[q]
<1>1. \A q \in Requests \ {r} : UNCHANGED <<step[q], answer[q]>>
  BY DEF TypeOK, Handle, Admit, DenyWrite, DenyRead, Login, Write, RefuseBody, ReadSecret, LogPush,
         LogTrim, LogFails, Decide, Goto
<1>2. /\ step'[r] \in {"new", "endpoint"} => answer'[r] = "none"
      /\ answer[r] # "none" => answer'[r] = answer[r]
  BY DEF TypeOK, NoAnswerYet, Handle, Admit, DenyWrite, DenyRead, Login, Write, RefuseBody,
         ReadSecret, LogPush, LogTrim, LogFails, Decide, Goto
<1> QED
  BY <1>1, <1>2 DEF NoAnswerYet

\* The log never changes what a client is told: an answer once decided stays,
\* whether the entry is written, lost, or cut off by a crash (log_audit).
THEOREM AnswersStand == Spec => AnswerIsTheWrites
<1>1. Init => TypeOK /\ NoAnswerYet
  BY InitTypeOK DEF Init, NoAnswerYet
<1>2. TypeOK /\ NoAnswerYet /\ [Next]_vars =>
          /\ TypeOK' /\ NoAnswerYet'
          /\ \A r \in Requests : answer[r] # "none" => answer'[r] = answer[r]
  <2> SUFFICES ASSUME TypeOK, NoAnswerYet, [Next]_vars
               PROVE  /\ NoAnswerYet'
                      /\ \A r \in Requests : answer[r] # "none" => answer'[r] = answer[r]
    BY NextTypeOK
  <2>1. CASE \E r \in Requests : Handle(r)
    BY <2>1, HandleKeepsAnswers
  <2>2. CASE Crash
    BY <2>2 DEF Crash, TypeOK, NoAnswerYet, Running
  <2>3. CASE RedisForgets \/ UNCHANGED vars
    BY <2>3 DEF RedisForgets, vars, requestVars, NoAnswerYet
  <2> QED
    BY <2>1, <2>2, <2>3 DEF Next
<1> QED
  BY <1>1, <1>2, PTL DEF Spec, AnswerIsTheWrites

-----------------------------------------------------------------------------
(***************************************************************************)
(* The writes and the answers.  What is inductive: a write that Kubernetes *)
(* has performed belongs to a request that has left its endpoint.          *)
(***************************************************************************)
NoWriteTwice == \A k, l \in DOMAIN performed : performed[k] = performed[l] => k = l

OkIsPerformed ==
    \A r \in Requests : kind[r] = "write" /\ answer[r] = "ok" => r \in Elements(performed)

Decided == {"lpush", "ltrim", "answered", "aborted"}

PerformedHasMovedOn == \A k \in DOMAIN performed : step[performed[k]] \in Decided

WritesOnce == TypeOK /\ NoAnswerYet /\ PerformedHasMovedOn /\ NoWriteTwice /\ OkIsPerformed

\* The write of one request is performed as that request leaves its endpoint.
LEMMA PerformedOnce ==
    ASSUME WritesOnce, NEW r \in Requests, step[r] = "endpoint",
           step' \in [Requests -> {"new", "answered", "aborted"} \cup Running],
           step'[r] \in Decided,
           \A q \in Requests : step[q] \in Decided => step'[q] \in Decided,
           performed' = Append(performed, r)
    PROVE  /\ PerformedHasMovedOn' /\ NoWriteTwice'
           /\ Elements(performed') = Elements(performed) \cup {r}
<1>1. /\ performed \in Seq(Requests)
      /\ DOMAIN performed' = 1..(Len(performed) + 1) /\ DOMAIN performed = 1..Len(performed)
      /\ \A k \in 1..Len(performed) : performed'[k] = performed[k]
      /\ performed'[Len(performed) + 1] = r
  BY DEF WritesOnce, TypeOK
<1>2. \A k \in 1..Len(performed) : performed[k] # r /\ performed[k] \in Requests
  BY <1>1 DEF WritesOnce, PerformedHasMovedOn, Decided
<1>3. PerformedHasMovedOn'
  BY <1>1, <1>2 DEF WritesOnce, PerformedHasMovedOn
<1>4. NoWriteTwice'
  BY <1>1, <1>2 DEF WritesOnce, NoWriteTwice
<1> QED
  BY <1>1, <1>3, <1>4, AppendedElements

\* A step that performs no write and answers none.
LEMMA NoWriteStep ==
    ASSUME WritesOnce, UNCHANGED performed,
           \A q \in Requests : step[q] \in Decided => step'[q] \in Decided,
           \A q \in Requests : kind'[q] = "write" /\ answer'[q] = "ok"
                                  => kind[q] = "write" /\ answer[q] = "ok"
    PROVE  PerformedHasMovedOn' /\ NoWriteTwice' /\ OkIsPerformed'
<1>1. \A k \in DOMAIN performed : performed[k] \in Requests
  BY DEF WritesOnce, TypeOK
<1> QED
  BY <1>1 DEF WritesOnce, PerformedHasMovedOn, NoWriteTwice, OkIsPerformed, Elements

LEMMA HandleWritesOnce ==
    ASSUME WritesOnce, NEW r \in Requests, Handle(r)
    PROVE  PerformedHasMovedOn' /\ NoWriteTwice' /\ OkIsPerformed'
<1>t. TypeOK /\ TypeOK'
  BY HandleTypeOK DEF WritesOnce
<1>1. /\ \A q \in Requests \ {r} : step'[q] = step[q] /\ answer'[q] = answer[q]
      /\ step[r] \in Decided => step'[r] \in Decided
      /\ UNCHANGED kind
  BY <1>t DEF TypeOK, Handle, Admit, DenyWrite, DenyRead, Login, Write, RefuseBody, ReadSecret,
         LogPush, LogTrim, LogFails, Decide, Goto, Decided
<1>2. \A q \in Requests : step[q] \in Decided => step'[q] \in Decided
  BY <1>1
<1>3. ASSUME NEW effect \in BOOLEAN, NEW raises \in BOOLEAN, Write(r, effect, raises)
      PROVE  PerformedHasMovedOn' /\ NoWriteTwice' /\ OkIsPerformed'
  <2>1. /\ step[r] = "endpoint" /\ kind[r] = "write" /\ step'[r] \in Decided
        /\ answer'[r] = "ok" => effect
        /\ answer[r] = "none"
    BY <1>3, <1>t DEF Write, Decide, Goto, Decided, TypeOK, WritesOnce, NoAnswerYet
  <2>2. CASE effect
    <3>1. performed' = Append(performed, r)
      BY <1>3, <2>2 DEF Write
    <3>2. /\ PerformedHasMovedOn' /\ NoWriteTwice'
          /\ Elements(performed') = Elements(performed) \cup {r}
      BY <1>2, <1>t, <2>1, <3>1, PerformedOnce DEF TypeOK
    <3>3. OkIsPerformed'
      <4> SUFFICES ASSUME NEW q \in Requests, kind'[q] = "write", answer'[q] = "ok"
                   PROVE  q \in Elements(performed')
        BY DEF OkIsPerformed, Elements
      <4>1. CASE q = r
        BY <3>2, <4>1
      <4>2. CASE q # r
        BY <1>1, <3>2, <4>2 DEF WritesOnce, OkIsPerformed
      <4> QED
        BY <4>1, <4>2
    <3> QED
      BY <3>2, <3>3
  <2>3. CASE ~effect
    <3>1. performed' = performed
      BY <1>3, <2>3 DEF Write
    <3> QED
      BY <1>1, <1>2, <2>1, <2>3, <3>1, NoWriteStep
  <2> QED
    BY <2>2, <2>3
<1>4. ASSUME \/ Admit(r) \/ DenyWrite(r) \/ DenyRead(r) \/ Login(r)
             \/ \E success \in BOOLEAN : RefuseBody(r, success)
             \/ ReadSecret(r) \/ LogPush(r) \/ LogTrim(r)
             \/ \E applied \in BOOLEAN : LogFails(r, applied)
      PROVE  PerformedHasMovedOn' /\ NoWriteTwice' /\ OkIsPerformed'
  <2>1. UNCHANGED performed
    BY <1>4 DEF Admit, DenyWrite, DenyRead, Login, RefuseBody, ReadSecret, LogPush, LogTrim, LogFails
  <2>2. kind[r] = "write" /\ answer'[r] = "ok" => answer[r] = "ok"
    BY <1>4, <1>t DEF Admit, DenyWrite, DenyRead, Login, RefuseBody, ReadSecret, LogPush, LogTrim,
                      LogFails, Decide, TypeOK
  <2> QED
    BY <1>1, <1>2, <2>1, <2>2, NoWriteStep
<1> QED
  BY <1>3, <1>4 DEF Handle

LEMMA CrashWritesOnce ==
    ASSUME WritesOnce, TypeOK', Crash
    PROVE  PerformedHasMovedOn' /\ NoWriteTwice' /\ OkIsPerformed'
<1>1. \A q \in Requests : step[q] \in Decided => step'[q] \in Decided
  BY DEF Crash, WritesOnce, TypeOK, Decided, Running
<1>2. kind' = kind /\ answer' = answer
  BY DEF Crash
<1>3. ASSUME NEW late \in Requests, step[late] = "endpoint", performed' = Append(performed, late)
      PROVE  PerformedHasMovedOn' /\ NoWriteTwice' /\ OkIsPerformed'
  <2>1. step'[late] \in Decided
    BY <1>3 DEF Crash, Decided, Running
  <2>2. /\ PerformedHasMovedOn' /\ NoWriteTwice'
        /\ Elements(performed') = Elements(performed) \cup {late}
    BY <1>1, <1>3, <2>1, PerformedOnce DEF TypeOK
  <2> QED
    BY <1>2, <2>2 DEF WritesOnce, OkIsPerformed, Elements
<1>4. CASE UNCHANGED performed
  BY <1>1, <1>2, <1>4, NoWriteStep
<1> QED
  BY <1>3, <1>4 DEF Crash

\* A write reaches Kubernetes at most once for a request, also when the backend
\* dies in the middle of it; and a client that is told of success is told the
\* truth, whether the entry of the log is there or not.
THEOREM WritesRunOnce == Spec => [](NoWriteTwice /\ OkIsPerformed)
<1>1. Init => WritesOnce
  <2> SUFFICES ASSUME Init PROVE WritesOnce
    OBVIOUS
  <2>1. TypeOK /\ NoAnswerYet /\ DOMAIN performed = {} /\ \A r \in Requests : answer[r] = "none"
    BY InitTypeOK DEF Init, NoAnswerYet
  <2> QED
    BY <2>1 DEF WritesOnce, PerformedHasMovedOn, NoWriteTwice, OkIsPerformed
<1>2. WritesOnce /\ [Next]_vars => WritesOnce'
  <2> SUFFICES ASSUME WritesOnce, [Next]_vars
               PROVE  NoAnswerYet' /\ PerformedHasMovedOn' /\ NoWriteTwice' /\ OkIsPerformed'
    BY NextTypeOK DEF WritesOnce
  <2>t. TypeOK' /\ TypeOK /\ NoAnswerYet
    BY NextTypeOK DEF WritesOnce
  <2>1. CASE \E r \in Requests : Handle(r)
    BY <2>1, <2>t, HandleWritesOnce, HandleKeepsAnswers
  <2>2. CASE Crash
    <3>1. NoAnswerYet'
      BY <2>2, <2>t DEF Crash, TypeOK, NoAnswerYet, Running
    <3> QED
      BY <2>2, <2>t, <3>1, CrashWritesOnce
  <2>3. CASE RedisForgets \/ UNCHANGED vars
    <3>1. UNCHANGED <<kind, step, answer, performed>>
      BY <2>3 DEF RedisForgets, vars, requestVars
    <3> QED
      BY <2>t, <3>1, NoWriteStep DEF NoAnswerYet
  <2> QED
    BY <2>1, <2>2, <2>3 DEF Next
<1>3. WritesOnce => NoWriteTwice /\ OkIsPerformed
  BY DEF WritesOnce
<1> QED
  BY <1>1, <1>2, <1>3, PTL DEF Spec

-----------------------------------------------------------------------------
(* Every handler goes forward only.                                        *)

StepsLeft(at) ==
    CASE at = "new"      -> 4
      [] at = "endpoint" -> 3
      [] at = "lpush"    -> 2
      [] at = "ltrim"    -> 1
      [] OTHER           -> 0

GoesForward ==
    [][\A r \in Requests :
          /\ StepsLeft(step'[r]) <= StepsLeft(step[r])
          /\ Handle(r) => StepsLeft(step'[r]) < StepsLeft(step[r])]_vars

LEMMA HandleGoesForward ==
    ASSUME TypeOK, NEW r \in Requests, Handle(r)
    PROVE  /\ StepsLeft(step'[r]) < StepsLeft(step[r])
           /\ StepsLeft(step'[r]) <= StepsLeft(step[r])
           /\ \A q \in Requests \ {r} : step'[q] = step[q]
<1>1. \A q \in Requests \ {r} : step'[q] = step[q]
  BY DEF TypeOK, Handle, Admit, DenyWrite, DenyRead, Login, Write, RefuseBody, ReadSecret,
         LogPush, LogTrim, LogFails, Decide, Goto
<1>2. \/ step[r] = "new"      /\ step'[r] \in {"endpoint", "lpush", "answered"}
      \/ step[r] = "endpoint" /\ step'[r] \in {"lpush", "answered"}
      \/ step[r] = "lpush"    /\ step'[r] \in {"ltrim", "answered"}
      \/ step[r] = "ltrim"    /\ step'[r] = "answered"
  BY DEF TypeOK, Handle, Admit, DenyWrite, DenyRead, Login, Write, RefuseBody, ReadSecret,
         LogPush, LogTrim, LogFails, Decide, Goto
<1>3. /\ StepsLeft("new") = 4 /\ StepsLeft("endpoint") = 3 /\ StepsLeft("lpush") = 2
      /\ StepsLeft("ltrim") = 1 /\ StepsLeft("answered") = 0
  BY DEF StepsLeft
<1> QED
  BY <1>1, <1>2, <1>3

\* A super-user request is answered after at most four steps of its handler, the
\* two commands of the log included: nothing is tried again, nobody else's step
\* and no failure sends it back.
THEOREM RequestsGoForward == Spec => GoesForward
<1>1. TypeOK /\ [Next]_vars
        => \A r \in Requests : /\ StepsLeft(step'[r]) <= StepsLeft(step[r])
                               /\ Handle(r) => StepsLeft(step'[r]) < StepsLeft(step[r])
  <2> SUFFICES ASSUME TypeOK, [Next]_vars, NEW r \in Requests
               PROVE  /\ StepsLeft(step'[r]) <= StepsLeft(step[r])
                      /\ Handle(r) => StepsLeft(step'[r]) < StepsLeft(step[r])
    OBVIOUS
  <2>1. \A at : StepsLeft(at) \in 0..4
    BY DEF StepsLeft
  <2>2. step'[r] = step[r] => StepsLeft(step'[r]) <= StepsLeft(step[r])
    BY <2>1
  <2>3. Handle(r) => StepsLeft(step'[r]) < StepsLeft(step[r])
    BY HandleGoesForward
  <2>4. ASSUME NEW q \in Requests, Handle(q)
        PROVE  StepsLeft(step'[r]) <= StepsLeft(step[r])
    <3>1. ASSUME q = r
          PROVE  StepsLeft(step'[r]) <= StepsLeft(step[r])
      <4>1. Handle(r)
        BY <2>4, <3>1
      <4> QED
        BY <4>1, HandleGoesForward
    <3>2. ASSUME q # r
          PROVE  StepsLeft(step'[r]) <= StepsLeft(step[r])
      <4>1. step'[r] = step[r]
        BY <2>4, <3>2, HandleGoesForward
      <4> QED
        BY <2>2, <4>1
    <3> QED
      BY <3>1, <3>2
  <2>5. ASSUME Crash
        PROVE  StepsLeft(step'[r]) <= StepsLeft(step[r])
    <3>1. step'[r] = "aborted" \/ step'[r] = step[r]
      BY <2>5 DEF Crash
    <3>2. StepsLeft("aborted") <= StepsLeft(step[r])
      <4> DEFINE left == StepsLeft(step[r])
      <4>1. StepsLeft("aborted") = 0 /\ left \in 0..4
        BY <2>1 DEF StepsLeft
      <4> HIDE DEF left
      <4>2. 0 <= left
        BY <4>1
      <4> QED
        BY <4>1, <4>2 DEF left
    <3>3. CASE step'[r] = "aborted"
      BY <3>2, <3>3
    <3> QED
      BY <2>2, <3>1, <3>3
  <2>6. ASSUME RedisForgets \/ UNCHANGED vars
        PROVE  StepsLeft(step'[r]) <= StepsLeft(step[r])
    BY <2>2, <2>6 DEF RedisForgets, vars, requestVars
  <2>7. StepsLeft(step'[r]) <= StepsLeft(step[r])
    BY <2>4, <2>5, <2>6 DEF Next
  <2> QED
    BY <2>3, <2>7
<1> QED
  BY <1>1, AuditTypeCorrect, PTL DEF Spec, GoesForward
=============================================================================
