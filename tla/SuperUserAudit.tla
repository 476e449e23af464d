--------------------------- MODULE SuperUserAudit ---------------------------
(***************************************************************************)
(* Super-user requests on the server: the gate require_super_user, the     *)
(* login endpoint, the Kubernetes call in between, and the audit log       *)
(* (services/audit_service.py), a RingVault in Redis.  Requests overlap at *)
(* each await; the Kubernetes call may take effect although it raises, the *)
(* audit commands may fail, the process may die at any point.              *)
(***************************************************************************)
EXTENDS Naturals, Sequences, FiniteSets

CONSTANTS
    Requests,     \* requests to /api/config
    MaxAudit      \* MAX_AUDIT_ENTRIES

ASSUME AuditAssumption == MaxAudit \in Nat \ {0}

VARIABLES
    passwordSet, \* whether SUPER_USER_PASSWORD is configured; never changes
    redisSteady, \* whether Redis serves every command and keeps its data; never
                 \* changes
    kind,       \* kind[r]: what r asks for
    credential, \* credential[r]: whether its token or password is good
    step,       \* step[r]: where its handler is
    outcome,    \* outcome[r]: what the handler hands to log_audit
    answer,     \* answer[r]: what the client gets when it is answered
    performed,  \* the writes Kubernetes has performed, in that order
    pushed,     \* every audit entry, oldest first
    vault       \* the list audit:vault, newest first

worldVars   == <<passwordSet, redisSteady>>
requestVars == <<kind, credential, step, outcome, answer, performed>>
auditVars   == <<pushed, vault>>
vars        == <<worldVars, requestVars, auditVars>>

\* A "malformed" request is a write whose body FastAPI refuses (422).
Kinds   == {"write", "malformed", "secret", "login"}
Running == {"endpoint", "lpush", "ltrim"}

\* An audit entry, without its time and wording: the request and "success".
Entry == Requests \X BOOLEAN

Ring == INSTANCE RingVault WITH Cap <- MaxAudit

Init ==
    /\ passwordSet \in BOOLEAN /\ redisSteady \in BOOLEAN
    /\ kind       \in [Requests -> Kinds]
    /\ credential \in [Requests -> {"good", "bad"}]
    /\ step       = [r \in Requests |-> "new"]
    /\ outcome    = [r \in Requests |-> "none"]
    /\ answer     = [r \in Requests |-> "none"]
    /\ performed  = <<>>
    /\ Ring!Init

Goto(r, next) == step' = [step EXCEPT ![r] = next]

\* The handler has made up its mind: what to audit and what to answer.
Decide(r, success) ==
    /\ outcome' = [outcome EXCEPT ![r] = IF success THEN "success" ELSE "failure"]
    /\ answer'  = [answer EXCEPT ![r] = IF success THEN "ok" ELSE "error"]
    /\ Goto(r, "lpush")

IsWrite(r) == kind[r] \in {"write", "malformed"}

Trusted(r) == ~passwordSet \/ credential[r] = "good"
-----------------------------------------------------------------------------
(* Slips: what an action would be after a plausible mistake in its code.    *)
(* No specification uses them; each breaks a property below.                *)

AdmitAnyToken(r) ==
    /\ step[r] = "new" /\ (IsWrite(r) \/ kind[r] = "secret")
    /\ Goto(r, "endpoint")
    /\ UNCHANGED <<worldVars, kind, credential, outcome, answer, performed, auditVars>>

DenyWriteUnlogged(r) ==
    /\ step[r] = "new" /\ IsWrite(r)
    /\ ~Trusted(r)
    /\ answer' = [answer EXCEPT ![r] = "error"]
    /\ Goto(r, "answered")
    /\ UNCHANGED <<worldVars, kind, credential, outcome, performed, auditVars>>

WriteAuditedInFinally(r, effect, raises) ==
    /\ step[r] = "endpoint" /\ kind[r] = "write"
    /\ raises \/ effect
    /\ performed' = IF effect THEN Append(performed, r) ELSE performed
    /\ Decide(r, TRUE)
    /\ UNCHANGED <<worldVars, kind, credential, auditVars>>

LogTrimOldest(r) ==
    /\ step[r] = "ltrim"
    /\ vault' = SubSeq(vault, IF Len(vault) > MaxAudit THEN 2 ELSE 1, Len(vault))
    /\ Goto(r, "answered")
    /\ UNCHANGED <<worldVars, kind, credential, outcome, answer, performed, pushed>>

LogFailsRetries(r, applied) ==
    /\ ~redisSteady
    /\ \/ step[r] = "lpush" /\ applied /\ Ring!Push(<<r, outcome[r] = "success">>)
       \/ step[r] = "ltrim" /\ applied /\ Ring!Trim
       \/ step[r] \in {"lpush", "ltrim"} /\ ~applied /\ UNCHANGED auditVars
    /\ UNCHANGED <<worldVars, requestVars>>

LogFailsRaises(r, applied) ==
    /\ ~redisSteady
    /\ step[r] \in {"lpush", "ltrim"} /\ ~applied /\ UNCHANGED auditVars
    /\ answer' = [answer EXCEPT ![r] = "error"]
    /\ Goto(r, "answered")
    /\ UNCHANGED <<worldVars, kind, credential, outcome, performed>>
-----------------------------------------------------------------------------
\* require_super_user lets the request through to its endpoint.
Admit(r) ==
    /\ step[r] = "new" /\ (IsWrite(r) \/ kind[r] = "secret")
    /\ Trusted(r)
    /\ Goto(r, "endpoint")
    /\ UNCHANGED <<worldVars, kind, credential, outcome, answer, performed, auditVars>>

\* require_super_user: a write with a bad token is audited, then refused.
DenyWrite(r) ==
    /\ step[r] = "new" /\ IsWrite(r)
    /\ ~Trusted(r)
    /\ Decide(r, FALSE)
    /\ UNCHANGED <<worldVars, kind, credential, performed, auditVars>>

\* require_super_user: a read is refused without an entry.
DenyRead(r) ==
    /\ step[r] = "new" /\ kind[r] = "secret"
    /\ ~Trusted(r)
    /\ answer' = [answer EXCEPT ![r] = "error"]
    /\ Goto(r, "answered")
    /\ UNCHANGED <<worldVars, kind, credential, outcome, performed, auditVars>>

\* verify_super_user.
Login(r) ==
    /\ step[r] = "new" /\ kind[r] = "login"
    /\ IF passwordSet
       THEN Decide(r, credential[r] = "good")
       ELSE /\ answer' = [answer EXCEPT ![r] = "ok"]
            /\ Goto(r, "answered")
            /\ UNCHANGED outcome
    /\ UNCHANGED <<worldVars, kind, credential, performed, auditVars>>

\* A write endpoint: no client for the API server (503), or the service call
\* returns, or raises -- before or after Kubernetes performed the write.
Write(r, effect, raises) ==
    /\ step[r] = "endpoint" /\ kind[r] = "write"
    /\ raises \/ effect
    /\ performed' = IF effect THEN Append(performed, r) ELSE performed
    /\ Decide(r, ~raises)
    /\ UNCHANGED <<worldVars, kind, credential, auditVars>>

\* FastAPI validates the body after it has entered the gate, and answers 422.
\* Whether it then resumes the gate normally or with the error is its affair.
RefuseBody(r, success) ==
    /\ step[r] = "endpoint" /\ kind[r] = "malformed"
    /\ outcome' = [outcome EXCEPT ![r] = IF success THEN "success" ELSE "failure"]
    /\ answer'  = [answer EXCEPT ![r] = "error"]
    /\ Goto(r, "lpush")
    /\ UNCHANGED <<worldVars, kind, credential, performed, auditVars>>

\* get_secret_detail: any outcome is a 200 with a status, and no entry.
ReadSecret(r) ==
    /\ step[r] = "endpoint" /\ kind[r] = "secret"
    /\ answer' = [answer EXCEPT ![r] = "ok"]
    /\ Goto(r, "answered")
    /\ UNCHANGED <<worldVars, kind, credential, outcome, performed, auditVars>>
-----------------------------------------------------------------------------
(* log_audit, which never raises *)

LogPush(r) ==
    /\ step[r] = "lpush"
    /\ Ring!Push(<<r, outcome[r] = "success">>)
    /\ Goto(r, "ltrim")
    /\ UNCHANGED <<worldVars, kind, credential, outcome, answer, performed>>

LogTrim(r) ==
    /\ step[r] = "ltrim"
    /\ Ring!Trim
    /\ Goto(r, "answered")
    /\ UNCHANGED <<worldVars, kind, credential, outcome, answer, performed>>

\* LPUSH or LTRIM raises, having taken effect or not: the failure is swallowed.
LogFails(r, applied) ==
    /\ ~redisSteady
    /\ \/ step[r] = "lpush" /\ applied /\ Ring!Push(<<r, outcome[r] = "success">>)
       \/ step[r] = "ltrim" /\ applied /\ Ring!Trim
       \/ step[r] \in {"lpush", "ltrim"} /\ ~applied /\ UNCHANGED auditVars
    /\ Goto(r, "answered")
    /\ UNCHANGED <<worldVars, kind, credential, outcome, answer, performed>>
-----------------------------------------------------------------------------
\* The backend dies; Kubernetes may still perform the write it was sent.
Crash ==
    /\ step' = [r \in Requests |-> IF step[r] \in Running THEN "aborted" ELSE step[r]]
    /\ \E late \in Requests \cup {"none"} :
          IF late \in Requests
          THEN /\ step[late] = "endpoint" /\ kind[late] = "write"
               /\ performed' = Append(performed, late)
          ELSE UNCHANGED performed
    /\ UNCHANGED <<worldVars, kind, credential, outcome, answer, auditVars>>

\* Redis restarts empty or evicts the list.
RedisForgets ==
    /\ ~redisSteady
    /\ Ring!Forget
    /\ UNCHANGED <<worldVars, requestVars>>

Handle(r) ==
    \/ Admit(r) \/ DenyWrite(r) \/ DenyRead(r) \/ Login(r)
    \/ \E effect, raises \in BOOLEAN : Write(r, effect, raises)
    \/ \E success \in BOOLEAN : RefuseBody(r, success)
    \/ ReadSecret(r)
    \/ LogPush(r) \/ LogTrim(r)
    \/ \E applied \in BOOLEAN : LogFails(r, applied)

Next == (\E r \in Requests : Handle(r)) \/ Crash \/ RedisForgets

Spec == Init /\ [][Next]_vars
-----------------------------------------------------------------------------
Elements(s) == {s[k] : k \in DOMAIN s}

TypeOK ==
    /\ passwordSet \in BOOLEAN /\ redisSteady \in BOOLEAN
    /\ kind \in [Requests -> Kinds]
    /\ credential \in [Requests -> {"good", "bad"}]
    /\ step \in [Requests -> {"new", "answered", "aborted"} \cup Running]
    /\ outcome \in [Requests -> {"none", "success", "failure"}]
    /\ answer \in [Requests -> {"none", "ok", "error"}]
    /\ performed \in Seq(Requests)
    /\ pushed \in Seq(Entry)
    /\ vault \in Seq(Entry)

\* The audit log mirrors the threat-event vault (audit_service.py:3-4): with
\* requests interleaving between LPUSH and LTRIM it shows the newest entries.
AuditIsNewest == Ring!VaultIsNewest

\* require_super_user: Kubernetes performs a write only for a request that
\* presented a good token, or when no password is configured.
OnlyTrustedWrites ==
    \A r \in Elements(performed) : kind[r] = "write" /\ Trusted(r)

\* An entry that says a write succeeded is true: the write is in the cluster,
\* and was there before the entry.
SuccessEntryIsTrue ==
    \A r \in Requests :
        kind[r] = "write" /\ <<r, TRUE>> \in Elements(pushed) => r \in Elements(performed)

\* A request leaves at most one entry: never a success and a failure, never the
\* same twice, also when a command is lost half way.
OneEntryPerRequest ==
    \A k, l \in DOMAIN pushed : pushed[k][1] = pushed[l][1] => k = l

\* With Redis working, "all writes audited" (README): a write the client got an
\* answer for is in the log with that outcome, refused ones included.
AnsweredWriteIsLogged ==
    redisSteady =>
        \A r \in Requests :
            kind[r] = "write" /\ step[r] = "answered"
                => <<r, answer[r] = "ok">> \in Elements(pushed)

\* "auditing must never break a write operation": what the client is told is
\* decided by the write alone, and never changed by the log.
AnswerIsTheWrites ==
    [][\A r \in Requests : answer[r] # "none" => answer'[r] = answer[r]]_vars
=============================================================================
