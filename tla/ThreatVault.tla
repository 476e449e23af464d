----------------------------- MODULE ThreatVault -----------------------------
(***************************************************************************)
(* Ingestion of Falco events: the webhook handler (routers/threats.py) and *)
(* the Redis vault it fills (services/threat_service.py).  Several         *)
(* deliveries are handled at once by the asyncio loop; they interleave at  *)
(* each Redis command.  A command may fail with or without having taken    *)
(* effect, the process may crash between two commands, and Redis, which    *)
(* runs without persistence, may lose its data.                            *)
(***************************************************************************)
EXTENDS FalcoBody

CONSTANTS
    Deliveries,   \* POST requests to /api/threats/falco
    MaxHistory    \* MAX_HISTORY, the cap of the list falco:vault

ASSUME VaultAssumption == MaxHistory \in Nat \ {0} /\ IsFiniteSet(Deliveries)

VARIABLES
    batch,      \* batch[d]: the decoded values of the request body
    todo,       \* todo[d]: indexes of the events the loop has not finished
    step,       \* step[d]: the command the handler runs next, or how it ended
    count,      \* count[d]: events_processed so far
    filtered,   \* filtered[d]: events_filtered in the answer
    channel,    \* what was published on falco:events, oldest first
    pushed,     \* what was pushed on falco:vault, oldest first
    vault,      \* the list falco:vault, newest first
    untrimmed   \* pushes whose LTRIM never came, since the last one that did

handlerVars == <<batch, todo, step, count, filtered>>
redisVars   == <<channel, pushed, vault, untrimmed>>
vars        == <<handlerVars, redisVars>>

\* An event is named by its delivery and its place in it.
Event == Deliveries \X (1..MaxBatch)

Elements(s) == {s[k] : k \in DOMAIN s}

Ring == INSTANCE RingVault WITH Entry <- Event, Cap <- MaxHistory

Commands == {"publish", "lpush", "ltrim"}
Ends     == {"refused", "422", "200", "500", "aborted"}

Indexes(b, kind) == {i \in DOMAIN b : b[i] = kind}

\* The loop asks _NOISY_RULES for the rule outside its try: an unhashable rule
\* ends the request there, and what comes after it in the batch is lost.
Reached(b) == {i \in DOMAIN b : \A k \in Indexes(b, "unhashable") : i < k}

Running(d) == step[d] \in Commands

\* Slip: any of the events, not the next one.
IsWaiting(d, i) == i \in todo[d]

\* The loop of falco_webhook takes the decoded values in order.
IsCurrent(d, i) == i \in todo[d] /\ \A k \in todo[d] : i <= k

InTrim == {d \in Deliveries : step[d] = "ltrim"}

Init ==
    /\ batch     = [d \in Deliveries |-> <<>>]
    /\ todo      = [d \in Deliveries |-> {}]
    /\ step      = [d \in Deliveries |-> "new"]
    /\ count     = [d \in Deliveries |-> 0]
    /\ filtered  = [d \in Deliveries |-> 0]
    /\ channel   = <<>>
    /\ Ring!Init
    /\ untrimmed = 0
-----------------------------------------------------------------------------
(* Slips: what an operator would be after a plausible mistake in its code.  *)
(* No specification uses them; each breaks a property below.                *)

AcceptFromZero(d, b) ==
    /\ step[d] = "new"
    /\ b # <<>>
    /\ batch' = [batch EXCEPT ![d] = b]
    /\ todo'  = [todo EXCEPT ![d] = {i - 1 : i \in Indexes(b, "event")}]
    /\ step'  = [step EXCEPT ![d] = "publish"]
    /\ UNCHANGED <<count, filtered, redisVars>>

PushAtTail(d, i) ==
    /\ step[d] = "lpush"
    /\ IsCurrent(d, i)
    /\ vault'  = Append(vault, <<d, i>>)
    /\ pushed' = Append(pushed, <<d, i>>)
    /\ step' = [step EXCEPT ![d] = "ltrim"]
    /\ UNCHANGED <<batch, todo, count, filtered, channel, untrimmed>>

TrimTo(n, d, i) ==
    /\ step[d] = "ltrim"
    /\ IsCurrent(d, i)
    /\ vault'     = IF Len(vault) > n THEN SubSeq(vault, 1, n) ELSE vault
    /\ untrimmed' = 0
    /\ count'     = [count EXCEPT ![d] = @ + 1]
    /\ todo'      = [todo EXCEPT ![d] = @ \ {i}]
    /\ step'      = [step EXCEPT ![d] = "publish"]
    /\ UNCHANGED <<batch, filtered, channel, pushed>>

TrimOneTooMany(d, i) == TrimTo(MaxHistory - 1, d, i)
TrimOneTooFew(d, i)  == TrimTo(MaxHistory + 1, d, i)

PublishFailsCounted(d, i, applied) ==
    /\ step[d] = "publish"
    /\ IsCurrent(d, i)
    /\ count'   = [count EXCEPT ![d] = @ + 1]
    /\ todo'    = [todo EXCEPT ![d] = @ \ {i}]
    /\ channel' = IF applied THEN Append(channel, <<d, i>>) ELSE channel
    /\ UNCHANGED <<batch, step, filtered, pushed, vault, untrimmed>>

PublishFailsStores(d, i, applied) ==
    /\ step[d] = "publish"
    /\ IsCurrent(d, i)
    /\ step'    = [step EXCEPT ![d] = "lpush"]
    /\ channel' = IF applied THEN Append(channel, <<d, i>>) ELSE channel
    /\ UNCHANGED <<batch, todo, count, filtered, pushed, vault, untrimmed>>

PushFailsRetries(d, i, applied) ==
    /\ step[d] = "lpush"
    /\ IsCurrent(d, i)
    /\ applied /\ Ring!Push(<<d, i>>) /\ untrimmed' = untrimmed + 1
    /\ Cardinality({k \in DOMAIN pushed : pushed[k] = <<d, i>>}) < 2
    /\ UNCHANGED <<handlerVars, channel>>

AnswerWhenAllStored(d) ==
    /\ step[d] = "publish"
    /\ todo[d] = {}
    /\ Indexes(batch[d], "unhashable") = {}
    /\ count[d] = Cardinality(Indexes(batch[d], "event"))
    /\ step' = [step EXCEPT ![d] = "200"]
    /\ UNCHANGED <<batch, todo, count, filtered, redisVars>>
-----------------------------------------------------------------------------
\* falco_webhook: over the rate limit (429), or a wrong signature (401).
Refuse(d) ==
    /\ step[d] = "new"
    /\ step' = [step EXCEPT ![d] = "refused"]
    /\ UNCHANGED <<batch, todo, count, filtered, redisVars>>

\* falco_webhook: nothing in the body decodes.
RejectBody(d, b) ==
    /\ step[d] = "new"
    /\ b = <<>>
    /\ step' = [step EXCEPT ![d] = "422"]
    /\ UNCHANGED <<batch, todo, count, filtered, redisVars>>

\* falco_webhook: the loop starts; values that are no events and noisy events
\* are passed over without a command.
Accept(d, b) ==
    /\ step[d] = "new"
    /\ b # <<>>
    /\ batch' = [batch EXCEPT ![d] = b]
    /\ todo'  = [todo EXCEPT ![d] = Indexes(b, "event") \cap Reached(b)]
    /\ step'  = [step EXCEPT ![d] = "publish"]
    /\ UNCHANGED <<count, filtered, redisVars>>

\* publish_falco_event.
Publish(d, i) ==
    /\ step[d] = "publish"
    /\ IsCurrent(d, i)
    /\ channel' = Append(channel, <<d, i>>)
    /\ step' = [step EXCEPT ![d] = "lpush"]
    /\ UNCHANGED <<batch, todo, count, filtered, pushed, vault, untrimmed>>

\* store_falco_event: LPUSH.
Push(d, i) ==
    /\ step[d] = "lpush"
    /\ IsCurrent(d, i)
    /\ Ring!Push(<<d, i>>)
    /\ step' = [step EXCEPT ![d] = "ltrim"]
    /\ UNCHANGED <<batch, todo, count, filtered, channel, untrimmed>>

\* store_falco_event: LTRIM; the loop counts the event and goes on.
Trim(d, i) ==
    /\ step[d] = "ltrim"
    /\ IsCurrent(d, i)
    /\ Ring!Trim
    /\ untrimmed' = 0
    /\ count'     = [count EXCEPT ![d] = @ + 1]
    /\ todo'      = [todo EXCEPT ![d] = @ \ {i}]
    /\ step'      = [step EXCEPT ![d] = "publish"]
    /\ UNCHANGED <<batch, filtered, channel>>

(***************************************************************************)
(* A command raises: the loop logs "skipped" and goes on to the next       *)
(* event.  When only the answer was lost, the command still took effect.   *)
(***************************************************************************)
Skip(d, i) ==
    /\ IsCurrent(d, i)
    /\ todo' = [todo EXCEPT ![d] = @ \ {i}]
    /\ step' = [step EXCEPT ![d] = "publish"]
    /\ UNCHANGED <<batch, count, filtered>>

PublishFails(d, i, applied) ==
    /\ step[d] = "publish"
    /\ Skip(d, i)
    /\ channel' = IF applied THEN Append(channel, <<d, i>>) ELSE channel
    /\ UNCHANGED <<pushed, vault, untrimmed>>

PushFails(d, i, applied) ==
    /\ step[d] = "lpush"
    /\ Skip(d, i)
    /\ IF applied
       THEN Ring!Push(<<d, i>>) /\ untrimmed' = untrimmed + 1
       ELSE UNCHANGED <<vault, pushed, untrimmed>>
    /\ UNCHANGED channel

TrimFails(d, i, applied) ==
    /\ step[d] = "ltrim"
    /\ Skip(d, i)
    /\ IF applied
       THEN Ring!Trim /\ untrimmed' = 0
       ELSE UNCHANGED <<vault, pushed>> /\ untrimmed' = untrimmed + 1
    /\ UNCHANGED channel

\* falco_webhook: the loop is over, the sender gets 200 whatever was skipped.
Answer(d) ==
    /\ step[d] = "publish"
    /\ todo[d] = {} /\ Indexes(batch[d], "unhashable") = {}
    /\ filtered' = [filtered EXCEPT ![d] = Cardinality(Indexes(batch[d], "noisy"))]
    /\ step'     = [step EXCEPT ![d] = "200"]
    /\ UNCHANGED <<batch, todo, count, redisVars>>

\* falco_webhook: the loop has come to an unhashable rule; the TypeError ends the
\* request.
Raise(d) ==
    /\ step[d] = "publish"
    /\ todo[d] = {} /\ Indexes(batch[d], "unhashable") # {}
    /\ step' = [step EXCEPT ![d] = "500"]
    /\ UNCHANGED <<batch, todo, count, filtered, redisVars>>
-----------------------------------------------------------------------------
\* The backend process dies; the requests it was handling get no answer.
Crash ==
    /\ step' = [d \in Deliveries |-> IF Running(d) THEN "aborted" ELSE step[d]]
    /\ untrimmed' = untrimmed + Cardinality(InTrim)
    /\ UNCHANGED <<batch, todo, count, filtered, channel, pushed, vault>>

\* Redis restarts empty (no persistence) or evicts the key (allkeys-lru).
RedisForgets ==
    /\ Ring!Forget
    /\ untrimmed' = 0
    /\ UNCHANGED <<handlerVars, channel>>

\* What the loop does with a request it has accepted.
Work(d) ==
    \/ \E i \in todo[d] :
          \/ Publish(d, i) \/ Push(d, i) \/ Trim(d, i)
          \/ \E applied \in BOOLEAN :
                \/ PublishFails(d, i, applied)
                \/ PushFails(d, i, applied)
                \/ TrimFails(d, i, applied)
    \/ Answer(d) \/ Raise(d)

Handle(d) ==
    \/ Refuse(d)
    \/ \E b \in Batches : RejectBody(d, b) \/ Accept(d, b)
    \/ Work(d)

Next == (\E d \in Deliveries : Handle(d)) \/ Crash \/ RedisForgets

Spec == Init /\ [][Next]_vars

\* asyncio resumes every handler whose Redis command has returned or raised,
\* and redis-py raises when the connection is lost, so a command does end.
FairSpec == Spec /\ \A d \in Deliveries : WF_vars(Work(d))
-----------------------------------------------------------------------------
TypeOK ==
    /\ batch \in [Deliveries -> Batches]
    /\ step \in [Deliveries -> {"new"} \cup Commands \cup Ends]
    /\ count \in [Deliveries -> Nat]
    /\ filtered \in [Deliveries -> Nat]
    /\ todo \in [Deliveries -> SUBSET (1..MaxBatch)]
    /\ \A d \in Deliveries : todo[d] \subseteq DOMAIN batch[d]
    /\ channel \in Seq(Event)
    /\ pushed \in Seq(Event)
    /\ vault \in Seq(Event)
    /\ untrimmed \in Nat

\* The vault (store_falco_event) is a ring buffer of the newest events, however
\* the LPUSH and LTRIM of several requests interleave.
VaultIsNewest == Ring!VaultIsNewest

\* "oldest events are trimmed when this is exceeded": the list outgrows the cap
\* only by the pushes whose LTRIM is under way or failed since the last trim.
OverflowBounded ==
    Len(vault) <= MaxHistory + Cardinality(InTrim) + untrimmed

\* events_processed never overstates: that many events of the request went out
\* on the channel (falco_webhook counts after publish and store returned).
CountedWasStreamed ==
    \A d \in Deliveries :
        count[d] <= Cardinality({i \in DOMAIN batch[d] : <<d, i>> \in Elements(channel)})

\* falco_webhook publishes before it stores: whatever the history shows was
\* streamed first, even when commands fail.
StoredWasStreamed == Elements(pushed) \subseteq Elements(channel)

\* The events of one request are published, and stored, at most once and in the
\* order of its body.
InOrder(log) ==
    \A k, l \in DOMAIN log :
        k < l /\ log[k][1] = log[l][1] => log[k][2] < log[l][2]

BatchOrderKept == InOrder(channel) /\ InOrder(pushed)

\* An event the ring buffer dropped never comes back into the history.
EvictedStaysEvicted ==
    [][\A e \in Elements(pushed) \ Elements(vault) : e \notin Elements(vault')]_vars

\* Who reads the history (get_recent_events, which asks for no more than MaxHistory
\* entries) or the channel sees whole alerts only: however LPUSH and LTRIM of several
\* requests interleave, whichever of them fails and however long the list is by then,
\* an alert enters the history in one step, after it was streamed and in the order of
\* its request, and pushes the oldest one out; a trim changes nothing that is shown.
History == INSTANCE AlertHistory
    WITH Delivery <- Deliveries, Place <- 1..MaxBatch, Cap <- MaxHistory,
         streamed <- Elements(channel), recorded <- Elements(pushed),
         recent <- Ring!Trimmed(vault)

ImplementsHistory == History!Spec

\* Every request the webhook accepts is answered, whatever fails in between.
EveryDeliveryEnds ==
    \A d \in Deliveries : (step[d] = "publish") ~> (step[d] \in {"200", "500", "aborted"})
=============================================================================
