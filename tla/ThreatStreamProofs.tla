------------------------- MODULE ThreatStreamProofs -------------------------
(***************************************************************************)
(* The live side of the threat feed, for any number of requests and        *)
(* sockets, any pool, and whether or not Redis may fail.                   *)
(***************************************************************************)
EXTENDS ThreatStream, ThreatVaultProofs

(***************************************************************************)
(* Every step of the stream is a step of the vault, or none.               *)
(***************************************************************************)
LEMMA FailsIsWork ==
    ASSUME NEW d \in Deliveries, NEW i \in todo[d], NEW applied \in BOOLEAN, Fails(d, i, applied)
    PROVE  Next
  BY DEF Fails, Next, Handle, Work

LEMMA StepIsVaultStep == [StreamNext]_streamVars => [Next]_vars
<1> SUFFICES ASSUME [StreamNext]_streamVars
             PROVE  [Next]_vars
  OBVIOUS
<1>1. ASSUME NEW d \in Deliveries, WithoutRedis(d)
      PROVE  Next
  BY <1>1 DEF WithoutRedis, Next, Handle, Work
<1>2. ASSUME NEW d \in Deliveries, FetchFails(d)
      PROVE  Next
  BY <1>2, FailsIsWork DEF FetchFails
<1>3. ASSUME NEW d \in Deliveries, Command(d)
      PROVE  Next
  BY <1>3 DEF Command, Next, Handle, Work
<1>4. ASSUME NEW d \in Deliveries, NEW applied \in BOOLEAN, CommandFails(d, applied)
      PROVE  Next
  BY <1>4, FailsIsWork DEF CommandFails
<1>5. ASSUME NEW d \in Deliveries, Fetch(d)
      PROVE  UNCHANGED vars
  BY <1>5 DEF Fetch
<1>6. ASSUME NEW s \in Sockets, Open(s) \/ HandlerStep(s) \/ ClientLeaves(s)
      PROVE  UNCHANGED vars
  BY <1>6 DEF Open, HandlerStep, ClientLeaves, Subscribe, SubscribeFails, Relay, RelayFails,
              PollFails, Leave
<1>7. CASE ReadHistory \/ RedisStops \/ UNCHANGED streamVars
  BY <1>7 DEF ReadHistory, RedisStops, streamVars
<1>8. CASE RedisReturns \/ BackendRestarts
  BY <1>8 DEF RedisReturns, BackendRestarts, Next
<1> QED
  BY <1>1, <1>2, <1>3, <1>4, <1>5, <1>6, <1>7, <1>8 DEF StreamNext, WebhookNext

LEMMA StreamKeepsSpec == StreamSpec => Spec
<1>1. StreamInit => Init
  BY DEF StreamInit
<1> QED
  BY <1>1, StepIsVaultStep, PTL DEF StreamSpec, Spec

LEMMA VaultTypeOK == StreamSpec => []TypeOK
  BY StreamKeepsSpec, TypeCorrect, PTL

\* The history, the order of each request and what left the history for good
\* are as ThreatVault promises, also while sockets and webhooks share the pool.
THEOREM StreamKeepsTheVault ==
    StreamSpec => /\ [](VaultIsNewest /\ BatchOrderKept /\ StoredWasStreamed)
                  /\ [](CountedWasStreamed /\ OverflowBounded)
                  /\ EvictedStaysEvicted
  BY StreamKeepsSpec, HistoryIsNewest, OrderIsKept, StoredIsStreamed, CountedIsStreamed,
     OverflowIsBounded, EvictedForGood, PTL

\* Readers still see the history of AlertHistory when the webhook has to compete for
\* connections with the subscriptions and Redis comes and goes.
THEOREM StreamImplementsHistory == StreamSpec => ImplementsHistory
  BY StreamKeepsSpec, WebhookImplementsHistory, PTL

\* Waiting for a connection, or failing to get one, never leaves a request with
\* no command to run, nor adds one to those it may still need.
THEOREM StreamRequestsCountDown == StreamSpec => []NeverStuck /\ CountsDown
  BY StreamKeepsSpec, RequestsCountDown, PTL

-----------------------------------------------------------------------------
(***************************************************************************)
(* The channel: a step publishes at most one event, and only a command of  *)
(* the webhook does; Redis then delivers it.                               *)
(***************************************************************************)
Published == \E e \in Event : channel' = Append(channel, e)

LEMMA ChannelSteps ==
    ASSUME TypeOK, NEW d \in Deliveries, NEW i \in todo[d],
           \/ Publish(d, i) \/ Push(d, i) \/ Trim(d, i)
           \/ \E applied \in BOOLEAN : Fails(d, i, applied)
    PROVE  channel' = channel \/ Published
  BY CurrentIsEvent
  DEF Published, Publish, Push, Trim, Fails, PublishFails, PushFails, TrimFails

\* What a subscription holds after a command.
LEMMA Delivered ==
    ASSUME TypeOK, inbox \in [Sockets -> Seq(Event)],
           Deliver, channel' = channel \/ Published
    PROVE  /\ inbox' \in [Sockets -> Seq(Event)]
           /\ UNCHANGED channel => UNCHANGED inbox
           /\ \A e \in Event : channel' = Append(channel, e) =>
                 \A s \in Sockets :
                    inbox'[s] = IF s \in Listening THEN Append(inbox[s], e) ELSE inbox[s]
<1>1. ASSUME channel' = channel
      PROVE  inbox' = inbox
  BY <1>1 DEF Deliver
<1>2. ASSUME NEW e \in Event, channel' = Append(channel, e)
      PROVE  /\ inbox' = [s \in Sockets |-> IF s \in Listening THEN Append(inbox[s], e)
                                                               ELSE inbox[s]]
             /\ inbox' \in [Sockets -> Seq(Event)]
  <2>1. channel' # channel /\ channel'[Len(channel')] = e
    <3>1. channel \in Seq(Event) /\ Len(channel') = Len(channel) + 1
      BY <1>2 DEF TypeOK
    <3> QED
      BY <1>2, <3>1
  <2>2. inbox' = [s \in Sockets |-> IF s \in Listening THEN Append(inbox[s], e) ELSE inbox[s]]
    BY <2>1 DEF Deliver
  <2>3. \A s \in Sockets : Append(inbox[s], e) \in Seq(Event)
    BY <1>2
  <2> QED
    BY <2>2, <2>3
<1> QED
  BY <1>1, <1>2 DEF Published

LEMMA InitStreamTypeOK == StreamInit => StreamTypeOK
  BY InitTypeOK DEF StreamInit, StreamTypeOK

LEMMA NextStreamTypeOK == StreamTypeOK /\ [StreamNext]_streamVars => StreamTypeOK'
<1> SUFFICES ASSUME StreamTypeOK, [StreamNext]_streamVars
             PROVE  StreamTypeOK'
  OBVIOUS
<1>t. TypeOK /\ TypeOK' /\ channel \in Seq(Event)
  BY StepIsVaultStep, NextTypeOK DEF StreamTypeOK, TypeOK
<1> USE DEF StreamTypeOK, poolVars, socketVars
<1>1. ASSUME NEW d \in Deliveries, WithoutRedis(d) \/ Fetch(d) \/ FetchFails(d)
      PROVE  StreamTypeOK'
  BY <1>1, <1>t DEF WithoutRedis, Fetch, FetchFails
<1>2. ASSUME NEW d \in Deliveries,
             Command(d) \/ \E applied \in BOOLEAN : CommandFails(d, applied)
      PROVE  StreamTypeOK'
  <2>1. /\ Deliver /\ Release(d) /\ UNCHANGED <<redisUp, leaked, history>>
        /\ channel' = channel \/ Published
    BY <1>2, <1>t, ChannelSteps DEF Command, CommandFails
  <2>2. inbox' \in [Sockets -> Seq(Event)]
    BY <1>t, <2>1, Delivered
  <2> QED
    BY <1>t, <2>1, <2>2 DEF Release, Deliver
<1>3. ASSUME NEW s \in Sockets, Open(s) \/ ClientLeaves(s)
      PROVE  StreamTypeOK'
  <2>1. ws' \in [Sockets -> {"none", "accepted", "streaming", "leaving", "ended"}]
    BY <1>3 DEF Open, ClientLeaves, Become
  <2>2. client' \in [Sockets -> {"present", "gone"}]
    BY <1>3 DEF Open, ClientLeaves
  <2> QED
    BY <1>3, <1>t, <2>1, <2>2 DEF Open, ClientLeaves
<1>4. ASSUME NEW s \in Sockets, Subscribe(s)
      PROVE  StreamTypeOK'
  <2>1. ws' \in [Sockets -> {"none", "accepted", "streaming", "leaving", "ended"}]
    BY <1>4 DEF Subscribe, Become
  <2>2. since' \in [Sockets -> Nat]
    BY <1>4, <1>t DEF Subscribe
  <2> QED
    BY <1>4, <1>t, <2>1, <2>2 DEF Subscribe
<1>5. ASSUME NEW s \in Sockets, SubscribeFails(s) \/ Leave(s)
      PROVE  StreamTypeOK'
  <2>1. ws' \in [Sockets -> {"none", "accepted", "streaming", "leaving", "ended"}]
    BY <1>5 DEF SubscribeFails, Leave, Become
  <2>2. leaked' \in Nat
    BY <1>5 DEF SubscribeFails, Leave
  <2> QED
    BY <1>5, <1>t, <2>1, <2>2 DEF SubscribeFails, Leave, Release
<1>6. ASSUME NEW s \in Sockets, Relay(s)
      PROVE  StreamTypeOK'
  <2>1. Head(inbox[s]) \in Event /\ Tail(inbox[s]) \in Seq(Event)
    BY <1>6 DEF Relay
  <2>2. Append(feed[s], Head(inbox[s])) \in Seq(Event)
    BY <2>1
  <2> QED
    BY <1>6, <1>t, <2>1, <2>2 DEF Relay
<1>7. ASSUME NEW s \in Sockets, RelayFails(s) \/ PollFails(s)
      PROVE  StreamTypeOK'
  <2>1. ws' \in [Sockets -> {"none", "accepted", "streaming", "leaving", "ended"}]
    BY <1>7 DEF RelayFails, PollFails, Become
  <2>2. inbox' \in [Sockets -> Seq(Event)]
    <3>1. <<>> \in Seq(Event) /\ inbox' = [inbox EXCEPT ![s] = <<>>]
      BY <1>7 DEF RelayFails, PollFails
    <3> QED
      BY <3>1
  <2> QED
    BY <1>7, <1>t, <2>1, <2>2 DEF RelayFails, PollFails
<1>8. CASE ReadHistory
  BY <1>8, <1>t DEF ReadHistory
<1>9. CASE RedisStops \/ RedisReturns
  BY <1>9, <1>t DEF RedisStops, RedisReturns
<1>10. CASE BackendRestarts
  <2>1. ws' \in [Sockets -> {"none", "accepted", "streaming", "leaving", "ended"}]
    BY <1>10 DEF BackendRestarts
  <2> QED
    BY <1>10, <1>t, <2>1 DEF BackendRestarts
<1>11. CASE UNCHANGED streamVars
  BY <1>11, <1>t DEF streamVars
<1> QED
  BY <1>1, <1>2, <1>3, <1>4, <1>5, <1>6, <1>7, <1>8, <1>9, <1>10, <1>11
  DEF StreamNext, WebhookNext, HandlerStep

-----------------------------------------------------------------------------
(***************************************************************************)
(* The pool.  Inductive beside the property: only finitely many handlers   *)
(* hold a connection, so that taking and giving back one is counted.       *)
(***************************************************************************)
PoolInv == PoolAccounting /\ IsFiniteSet(inUse)

LEMMA GivenBack ==
    ASSUME IsFiniteSet(inUse), NEW x, Release(x)
    PROVE  /\ IsFiniteSet(inUse') /\ Cardinality(inUse') <= Cardinality(inUse)
           /\ Cardinality(inUse') \in Nat /\ Cardinality(inUse) \in Nat
           /\ x \in inUse => Cardinality(inUse') = Cardinality(inUse) - 1
<1>1. inUse' \subseteq inUse
  BY DEF Release
<1> QED
  BY <1>1, FS_Subset, FS_CardinalityType, FS_RemoveElement DEF Release

LEMMA TakenFromThePool ==
    ASSUME IsFiniteSet(inUse), leaked \in Nat, NEW x, Free,
           inUse' = inUse \cup {x}, UNCHANGED leaked
    PROVE  IsFiniteSet(inUse') /\ Taken' <= PoolSize
<1>1. Cardinality(inUse) \in Nat /\ PoolSize \in Nat
  BY FS_CardinalityType, PoolAssumption
<1>2. IsFiniteSet(inUse') /\ Cardinality(inUse') <= Cardinality(inUse) + 1
  BY <1>1, FS_AddElement
<1>3. Cardinality(inUse') \in Nat
  BY <1>2, FS_CardinalityType
<1> QED
  BY <1>1, <1>2, <1>3 DEF Free, Taken

\* A step that takes no connection and moves no handler that holds one.
LEMMA QuietStepPool ==
    ASSUME PoolInv, StreamTypeOK', UNCHANGED poolVars, subs' \subseteq subs,
           \A s \in Sockets :
              ws[s] \in {"streaming", "leaving"} <=> ws'[s] \in {"streaming", "leaving"},
           \A d \in inUse \cap Deliveries : UNCHANGED <<step[d], todo[d]>>
    PROVE  PoolInv'
<1>1. (inUse \cap Sockets = {s \in Sockets : ws[s] \in {"streaming", "leaving"}})'
  BY DEF PoolInv, PoolAccounting, poolVars
<1>2. (\A d \in inUse \cap Deliveries : Running(d) /\ todo[d] # {})'
  BY DEF PoolInv, PoolAccounting, poolVars, Running
<1> QED
  BY <1>1, <1>2 DEF PoolInv, PoolAccounting, poolVars, Taken

\* A step of one request leaves the others where they are.
LEMMA OthersStay ==
    ASSUME TypeOK, NEW d \in Deliveries,
           \/ Refuse(d) \/ Answer(d) \/ Raise(d)
           \/ \E b \in Batches : RejectBody(d, b) \/ Accept(d, b)
           \/ \E i \in todo[d], applied \in BOOLEAN : Fails(d, i, applied)
    PROVE  \A e \in Deliveries \ {d} : UNCHANGED <<step[e], todo[e]>>
  BY DEF TypeOK, Refuse, Answer, Raise, RejectBody, Accept, Fails, PublishFails, PushFails, TrimFails,
         Skip

LEMMA NextPoolInv == PoolInv /\ [StreamNext]_streamVars => PoolInv'
<1> SUFFICES ASSUME PoolInv, [StreamNext]_streamVars
             PROVE  PoolInv'
  OBVIOUS
<1>t. StreamTypeOK /\ StreamTypeOK' /\ TypeOK
  BY NextStreamTypeOK DEF PoolInv, PoolAccounting, StreamTypeOK
<1>f. IsFiniteSet(inUse) /\ Cardinality(inUse) \in Nat /\ leaked \in Nat /\ PoolSize \in Nat
  BY <1>t, PoolAssumption, FS_CardinalityType DEF PoolInv, StreamTypeOK
<1>1. ASSUME NEW d \in Deliveries, WithoutRedis(d)
      PROVE  PoolInv'
  <2>1. d \notin inUse
    BY <1>1 DEF PoolInv, PoolAccounting, WithoutRedis, Refuse, Answer, Raise, RejectBody, Accept,
                Running, Commands
  <2>2. \A e \in Deliveries \ {d} : UNCHANGED <<step[e], todo[e]>>
    BY <1>1, <1>t, <2>1, OthersStay DEF WithoutRedis
  <2> QED
    BY <1>1, <1>t, <2>1, <2>2, QuietStepPool DEF WithoutRedis, socketVars
<1>2. ASSUME NEW d \in Deliveries, Fetch(d)
      PROVE  PoolInv'
  <2>1. /\ Running(d) /\ todo[d] # {} /\ Free /\ inUse' = inUse \cup {d}
        /\ UNCHANGED <<vars, leaked, socketVars>> /\ d \notin Sockets
    BY <1>2, PoolAssumption DEF Fetch, CanFetch
  <2>2. IsFiniteSet(inUse') /\ Taken' <= PoolSize
    BY <1>f, <2>1, TakenFromThePool
  <2>3. UNCHANGED <<ws, subs, step, todo>>
    BY <2>1 DEF vars, handlerVars, socketVars
  <2>4. (inUse \cap Sockets = {s \in Sockets : ws[s] \in {"streaming", "leaving"}})'
    BY <2>1, <2>3 DEF PoolInv, PoolAccounting
  <2>5. (\A e \in inUse \cap Deliveries : Running(e) /\ todo[e] # {})'
    BY <2>1, <2>3 DEF PoolInv, PoolAccounting, Running
  <2> QED
    BY <1>t, <2>1, <2>2, <2>3, <2>4, <2>5 DEF PoolInv, PoolAccounting
<1>3. ASSUME NEW d \in Deliveries, FetchFails(d)
      PROVE  PoolInv'
  <2>1. \A e \in Deliveries \ {d} : UNCHANGED <<step[e], todo[e]>>
    BY <1>3, <1>t, OthersStay DEF FetchFails
  <2> QED
    BY <1>3, <1>t, <2>1, QuietStepPool DEF FetchFails, socketVars
<1>4. ASSUME NEW d \in Deliveries,
             Command(d) \/ \E applied \in BOOLEAN : CommandFails(d, applied)
      PROVE  PoolInv'
  <2>1. Release(d) /\ UNCHANGED <<leaked, ws, subs>> /\ d \in inUse /\ d \notin Sockets
    BY <1>4, PoolAssumption DEF Command, CommandFails, Deliver
  <2>2. \A e \in Deliveries \ {d} : UNCHANGED <<step[e], todo[e]>>
    BY <1>4, <1>t
    DEF TypeOK, Command, CommandFails, Publish, Push, Trim, Fails, PublishFails, PushFails,
        TrimFails, Skip
  <2>3. IsFiniteSet(inUse') /\ Taken' <= PoolSize
    BY <1>f, <2>1, GivenBack DEF Taken, PoolInv, PoolAccounting
  <2>4. (inUse \cap Sockets = {s \in Sockets : ws[s] \in {"streaming", "leaving"}})'
    BY <2>1 DEF PoolInv, PoolAccounting, Release
  <2>5. (\A e \in inUse \cap Deliveries : Running(e) /\ todo[e] # {})'
    BY <2>1, <2>2 DEF PoolInv, PoolAccounting, Running, Release
  <2>6. subs' \subseteq inUse'
    BY <1>t, <2>1 DEF PoolInv, PoolAccounting, StreamTypeOK, Release
  <2> QED
    BY <1>t, <2>3, <2>4, <2>5, <2>6 DEF PoolInv, PoolAccounting
<1>5. ASSUME NEW s \in Sockets, Open(s) \/ Relay(s) \/ RelayFails(s) \/ PollFails(s) \/ ClientLeaves(s)
      PROVE  PoolInv'
  <2>1. UNCHANGED <<inUse, leaked, subs, step, todo>>
    BY <1>5 DEF Open, Relay, RelayFails, PollFails, ClientLeaves, poolVars, vars, handlerVars
  <2>2. \A r \in Sockets : ws[r] \in {"streaming", "leaving"} <=> ws'[r] \in {"streaming", "leaving"}
    <3>1. CASE UNCHANGED ws
      BY <3>1
    <3>2. CASE \E to \in {"accepted", "ended"} : ws[s] = "none" /\ Become(s, to)
      BY <1>t, <3>2 DEF Become, StreamTypeOK
    <3>3. CASE ws[s] = "streaming" /\ Become(s, "leaving")
      BY <1>t, <3>3 DEF Become, StreamTypeOK
    <3> QED
      BY <1>5, <3>1, <3>2, <3>3 DEF Open, Relay, RelayFails, PollFails, ClientLeaves
  <2> QED
    BY <1>t, <2>1, <2>2, QuietStepPool DEF poolVars
<1>6. ASSUME NEW s \in Sockets, Subscribe(s)
      PROVE  PoolInv'
  <2>1. /\ Free /\ inUse' = inUse \cup {s} /\ subs' = subs \cup {s} /\ UNCHANGED leaked
        /\ UNCHANGED <<step, todo>> /\ Become(s, "streaming") /\ s \notin Deliveries
    BY <1>6, PoolAssumption DEF Subscribe, CanFetch, vars, handlerVars
  <2>2. IsFiniteSet(inUse') /\ Taken' <= PoolSize
    BY <1>f, <2>1, TakenFromThePool
  <2>3. (inUse \cap Sockets = {r \in Sockets : ws[r] \in {"streaming", "leaving"}})'
    BY <1>t, <2>1 DEF PoolInv, PoolAccounting, Become, StreamTypeOK
  <2>4. (\A e \in inUse \cap Deliveries : Running(e) /\ todo[e] # {})'
    BY <2>1 DEF PoolInv, PoolAccounting, Running
  <2> QED
    BY <1>t, <2>1, <2>2, <2>3, <2>4 DEF PoolInv, PoolAccounting
<1>7. ASSUME NEW s \in Sockets, SubscribeFails(s)
      PROVE  PoolInv'
  <2>1. UNCHANGED <<inUse, subs, step, todo>> /\ ws[s] = "accepted" /\ Become(s, "ended")
    BY <1>7 DEF SubscribeFails, vars, handlerVars
  <2>2. Taken' <= PoolSize
    BY <1>7, <1>f DEF SubscribeFails, CanFetch, Free, Taken, PoolInv, PoolAccounting
  <2>3. (inUse \cap Sockets = {r \in Sockets : ws[r] \in {"streaming", "leaving"}})'
    BY <1>t, <2>1 DEF PoolInv, PoolAccounting, Become, StreamTypeOK
  <2> QED
    BY <1>t, <2>1, <2>2, <2>3 DEF PoolInv, PoolAccounting, Running
<1>8. ASSUME NEW s \in Sockets, Leave(s)
      PROVE  PoolInv'
  <2>1. /\ UNCHANGED <<step, todo>> /\ ws[s] = "leaving" /\ Become(s, "ended")
        /\ Release(s) /\ subs' = subs \ {s} /\ leaked' \in {leaked, leaked + 1}
    BY <1>8 DEF Leave, vars, handlerVars
  <2>2. s \in inUse
    BY <2>1 DEF PoolInv, PoolAccounting
  <2>3. IsFiniteSet(inUse') /\ Taken' <= PoolSize
    BY <1>f, <2>1, <2>2, GivenBack DEF Taken, PoolInv, PoolAccounting
  <2>4. (inUse \cap Sockets = {r \in Sockets : ws[r] \in {"streaming", "leaving"}})'
    BY <1>t, <2>1 DEF PoolInv, PoolAccounting, Become, StreamTypeOK, Release
  <2>5. (\A e \in inUse \cap Deliveries : Running(e) /\ todo[e] # {})' /\ subs' \subseteq inUse'
    BY <2>1 DEF PoolInv, PoolAccounting, Running, Release
  <2> QED
    BY <1>t, <2>3, <2>4, <2>5 DEF PoolInv, PoolAccounting
<1>9. CASE ReadHistory \/ RedisStops \/ RedisReturns \/ UNCHANGED streamVars
  <2>1. UNCHANGED <<inUse, leaked, ws, step, todo>> /\ subs' \subseteq subs
    BY <1>9 DEF ReadHistory, RedisStops, RedisReturns, RedisForgets, streamVars, poolVars,
                socketVars, vars, handlerVars
  <2> QED
    BY <1>t, <2>1, QuietStepPool DEF poolVars
<1>10. CASE BackendRestarts
  <2>1. inUse' = {} /\ leaked' = 0 /\ subs' = {}
    BY <1>10 DEF BackendRestarts
  <2>2. \A s \in Sockets : ws'[s] \in {"none", "ended"}
    BY <1>10 DEF BackendRestarts
  <2>3. Taken' <= PoolSize /\ IsFiniteSet(inUse')
    BY <1>f, <2>1, FS_EmptySet DEF Taken
  <2> QED
    BY <1>t, <2>1, <2>2, <2>3 DEF PoolInv, PoolAccounting
<1> QED
  BY <1>1, <1>2, <1>3, <1>4, <1>5, <1>6, <1>7, <1>8, <1>9, <1>10
  DEF StreamNext, WebhookNext, HandlerStep

LEMMA AlwaysPoolInv == StreamSpec => []PoolInv
<1>1. StreamInit => PoolInv
  <2> SUFFICES ASSUME StreamInit PROVE PoolInv
    OBVIOUS
  <2>1. inUse = {} /\ leaked = 0 /\ subs = {} /\ \A s \in Sockets : ws[s] = "none"
    BY DEF StreamInit
  <2>2. Taken = 0 /\ IsFiniteSet(inUse)
    BY <2>1, FS_EmptySet DEF Taken
  <2> QED
    BY <2>1, <2>2, InitStreamTypeOK, PoolAssumption DEF PoolInv, PoolAccounting
<1> QED
  BY <1>1, NextPoolInv, PTL DEF StreamSpec

\* The shared pool of ThreatService never exceeds max_connections, a socket's
\* handler holds a connection exactly while it streams or cleans up, a webhook
\* only inside a command, whatever leaks and whatever fails.
THEOREM PoolIsAccounted == StreamSpec => []PoolAccounting
<1>1. PoolInv => PoolAccounting
  BY DEF PoolInv
<1> QED
  BY <1>1, AlwaysPoolInv, PTL

-----------------------------------------------------------------------------
(***************************************************************************)
(* The feed.  Inductive beside the two properties: a handler that has not  *)
(* subscribed has received nothing.  What a browser got and what its       *)
(* subscription still holds is one run of the channel.                     *)
(***************************************************************************)
Run(got, queue, from, log) ==
    /\ from + Len(got) + Len(queue) <= Len(log)
    /\ \A k \in 1..Len(got) : got[k] = log[from + k]
    /\ \A k \in 1..Len(queue) : queue[k] = log[from + Len(got) + k]

Unopened(s) == ws[s] \in {"none", "accepted"}

FeedInv ==
    /\ StreamTypeOK
    /\ \A s \in Sockets : Run(feed[s], inbox[s], since[s], channel)
    /\ \A s \in Sockets : Unopened(s) => feed[s] = <<>> /\ inbox[s] = <<>>
    /\ LiveFeedIsComplete

LEMMA RunIsContiguous ==
    ASSUME NEW got \in Seq(Event), NEW queue \in Seq(Event), NEW from \in Nat,
           NEW log \in Seq(Event), Run(got, queue, from, log)
    PROVE  /\ from + Len(got \o queue) <= Len(log)
           /\ \A k \in 1..Len(got \o queue) : (got \o queue)[k] = log[from + k]
<1>1. /\ Len(got \o queue) = Len(got) + Len(queue)
      /\ \A k \in 1..Len(got) : (got \o queue)[k] = got[k]
      /\ \A k \in (Len(got) + 1)..(Len(got) + Len(queue)) : (got \o queue)[k] = queue[k - Len(got)]
  OBVIOUS
<1>2. Len(got) \in Nat /\ Len(queue) \in Nat
  OBVIOUS
<1>3. ASSUME NEW k \in 1..Len(got \o queue)
      PROVE  (got \o queue)[k] = log[from + k]
  <2>1. CASE k <= Len(got)
    BY <1>1, <1>2, <2>1 DEF Run
  <2>2. CASE k > Len(got)
    <3>1. k - Len(got) \in 1..Len(queue) /\ from + Len(got) + (k - Len(got)) = from + k
      BY <1>1, <1>2, <2>2
    <3> QED
      BY <1>1, <1>2, <2>2, <3>1 DEF Run
  <2> QED
    BY <1>2, <2>1, <2>2
<1> QED
  BY <1>1, <1>2, <1>3 DEF Run

\* What is published later does not disturb what was received.
LEMMA RunWhenLogGrows ==
    ASSUME NEW got \in Seq(Event), NEW queue \in Seq(Event), NEW from \in Nat,
           NEW log \in Seq(Event), NEW e \in Event, Run(got, queue, from, log)
    PROVE  Run(got, queue, from, Append(log, e))
<1>1. /\ Len(Append(log, e)) = Len(log) + 1
      /\ \A k \in 1..Len(log) : Append(log, e)[k] = log[k]
      /\ Len(got) \in Nat /\ Len(queue) \in Nat /\ Len(log) \in Nat
  OBVIOUS
<1>2. /\ \A k \in 1..Len(got) : from + k \in 1..Len(log)
      /\ \A k \in 1..Len(queue) : from + Len(got) + k \in 1..Len(log)
  BY <1>1 DEF Run
<1> QED
  BY <1>1, <1>2 DEF Run

\* A subscription that had everything has everything again.
LEMMA RunWhenDelivered ==
    ASSUME NEW got \in Seq(Event), NEW queue \in Seq(Event), NEW from \in Nat,
           NEW log \in Seq(Event), NEW e \in Event, Run(got, queue, from, log),
           from + Len(got) + Len(queue) = Len(log)
    PROVE  /\ Run(got, Append(queue, e), from, Append(log, e))
           /\ from + Len(got) + Len(Append(queue, e)) = Len(Append(log, e))
<1>1. /\ Len(Append(log, e)) = Len(log) + 1
      /\ Append(log, e)[Len(log) + 1] = e
      /\ Len(Append(queue, e)) = Len(queue) + 1
      /\ Append(queue, e)[Len(queue) + 1] = e
      /\ \A k \in 1..Len(queue) : Append(queue, e)[k] = queue[k]
      /\ Len(got) \in Nat /\ Len(queue) \in Nat /\ Len(log) \in Nat
  OBVIOUS
<1>2. Run(got, queue, from, Append(log, e))
  BY RunWhenLogGrows
<1>3. ASSUME NEW k \in 1..Len(Append(queue, e))
      PROVE  Append(queue, e)[k] = Append(log, e)[from + Len(got) + k]
  <2>1. CASE k \in 1..Len(queue)
    BY <1>1, <1>2, <2>1 DEF Run
  <2>2. CASE k = Len(queue) + 1
    <3>1. from + Len(got) + k = Len(log) + 1
      BY <1>1, <2>2
    <3> QED
      BY <1>1, <2>2, <3>1
  <2>3. k \in 1..Len(queue) \/ k = Len(queue) + 1
    <3>1. k \in 1..(Len(queue) + 1)
      BY <1>1
    <3> DEFINE q == Len(queue)
    <3>2. q \in Nat /\ k \in 1..(q + 1)
      BY <1>1, <3>1
    <3> HIDE DEF q
    <3>3. k \in 1..q \/ k = q + 1
      BY <3>2
    <3> QED
      BY <3>3 DEF q
  <2> QED
    BY <2>1, <2>2, <2>3, Zenon
<1> DEFINE queue2 == Append(queue, e)
           log2   == Append(log, e)
<1>4. /\ Len(queue2) = Len(queue) + 1 /\ Len(log2) = Len(log) + 1
      /\ \A k \in 1..Len(got) : got[k] = log2[from + k]
      /\ \A k \in 1..Len(queue2) : queue2[k] = log2[from + Len(got) + k]
  BY <1>1, <1>2, <1>3 DEF Run
<1> HIDE DEF queue2, log2
<1>5. from + Len(got) + Len(queue2) = Len(log2)
  <2>1. /\ Len(got) \in Nat /\ Len(queue) \in Nat /\ Len(log) \in Nat
        /\ Len(queue2) = Len(queue) + 1 /\ Len(log2) = Len(log) + 1
    BY <1>1, <1>4
  <2>2. from + Len(got) + (Len(queue) + 1) = Len(log) + 1
    <3> DEFINE g == Len(got)
               q == Len(queue)
               l == Len(log)
    <3>1. g \in Nat /\ q \in Nat /\ l \in Nat /\ from + g + q = l
      BY <2>1
    <3> HIDE DEF g, q, l
    <3>2. from + g + (q + 1) = l + 1
      BY <3>1
    <3> QED
      BY <3>2 DEF g, q, l
  <2> QED
    BY <2>1, <2>2, Zenon
<1>6. Run(got, queue2, from, log2)
  BY <1>1, <1>4, <1>5 DEF Run
<1> QED
  BY <1>5, <1>6 DEF queue2, log2

\* A message goes from the subscription to the browser.
LEMMA RunWhenRelayed ==
    ASSUME NEW got \in Seq(Event), NEW queue \in Seq(Event), NEW from \in Nat,
           NEW log \in Seq(Event), Run(got, queue, from, log), queue # <<>>
    PROVE  /\ Run(Append(got, Head(queue)), Tail(queue), from, log)
           /\ Len(Append(got, Head(queue))) + Len(Tail(queue)) = Len(got) + Len(queue)
<1>1. /\ Len(queue) >= 1 /\ Head(queue) = queue[1] /\ Head(queue) \in Event
      /\ Len(Tail(queue)) = Len(queue) - 1
      /\ \A k \in 1..Len(Tail(queue)) : Tail(queue)[k] = queue[k + 1]
      /\ Len(got) \in Nat /\ Len(queue) \in Nat /\ Len(log) \in Nat
  OBVIOUS
<1>2. /\ Len(Append(got, Head(queue))) = Len(got) + 1
      /\ Append(got, Head(queue))[Len(got) + 1] = queue[1]
      /\ \A k \in 1..Len(got) : Append(got, Head(queue))[k] = got[k]
  BY <1>1
<1>3. queue[1] = log[from + Len(got) + 1] /\ from + Len(got) + 1 = from + (Len(got) + 1)
  BY <1>1 DEF Run
<1>4. ASSUME NEW k \in 1..(Len(got) + 1)
      PROVE  Append(got, Head(queue))[k] = log[from + k]
  <2>1. CASE k \in 1..Len(got)
    BY <1>2, <2>1 DEF Run
  <2>2. CASE k = Len(got) + 1
    BY <1>2, <1>3, <2>2
  <2> QED
    BY <1>1, <2>1, <2>2
<1>5. ASSUME NEW k \in 1..Len(Tail(queue))
      PROVE  Tail(queue)[k] = log[from + (Len(got) + 1) + k]
  <2>1. k + 1 \in 1..Len(queue) /\ from + Len(got) + (k + 1) = from + (Len(got) + 1) + k
    BY <1>1
  <2> QED
    BY <1>1, <2>1 DEF Run
<1>6. from + (Len(got) + 1) + (Len(queue) - 1) = from + Len(got) + Len(queue)
  BY <1>1
<1> QED
  BY <1>1, <1>2, <1>4, <1>5, <1>6 DEF Run

\* What a handler had not read goes with its subscription.
LEMMA RunWhenDropped ==
    ASSUME NEW got \in Seq(Event), NEW queue \in Seq(Event), NEW from \in Nat,
           NEW log \in Seq(Event), Run(got, queue, from, log)
    PROVE  Run(got, <<>>, from, log)
<1>1. Len(got) \in Nat /\ Len(queue) \in Nat /\ Len(log) \in Nat /\ Len(<<>>) = 0
  OBVIOUS
<1> QED
  BY <1>1 DEF Run

\* A step that publishes nothing and moves no message; handlers may only stop
\* listening, and none comes before its subscription.
LEMMA QuietStepFeed ==
    ASSUME FeedInv, StreamTypeOK', UNCHANGED <<channel, feed, inbox, since>>,
           Listening' \subseteq Listening,
           \A s \in Sockets : Unopened(s)' => Unopened(s)
    PROVE  FeedInv'
  BY DEF FeedInv, LiveFeedIsComplete, Listening

\* A command of the webhook.
LEMMA DeliveryFeed ==
    ASSUME FeedInv, StreamTypeOK', Deliver, channel' = channel \/ Published
    PROVE  FeedInv'
<1>t. /\ TypeOK /\ channel \in Seq(Event) /\ inbox \in [Sockets -> Seq(Event)]
      /\ feed \in [Sockets -> Seq(Event)] /\ since \in [Sockets -> Nat]
  BY DEF FeedInv, StreamTypeOK, TypeOK
<1>1. UNCHANGED <<ws, client, subs, since, feed>> /\ Listening' = Listening
  BY DEF Deliver, Listening
<1>2. CASE channel' = channel
  <2>1. UNCHANGED inbox
    BY <1>t, <1>2, Delivered
  <2> QED
    BY <1>1, <1>2, <2>1, QuietStepFeed DEF Unopened
<1>3. ASSUME NEW e \in Event, channel' = Append(channel, e)
      PROVE  FeedInv'
  <2>1. \A s \in Sockets :
           inbox'[s] = IF s \in Listening THEN Append(inbox[s], e) ELSE inbox[s]
    BY <1>t, <1>3, Delivered DEF Published
  <2>2. ASSUME NEW s \in Sockets, s \in Listening
        PROVE  /\ Run(feed[s], inbox'[s], since[s], channel')
               /\ since[s] + Len(feed[s]) + Len(inbox'[s]) = Len(channel')
    <3>1. /\ feed[s] \in Seq(Event) /\ inbox[s] \in Seq(Event) /\ since[s] \in Nat
          /\ inbox'[s] = Append(inbox[s], e)
      BY <1>t, <2>1, <2>2
    <3>2. /\ Run(feed[s], inbox[s], since[s], channel)
          /\ since[s] + Len(feed[s]) + Len(inbox[s]) = Len(channel)
      BY <2>2 DEF FeedInv, LiveFeedIsComplete
    <3> QED
      BY <1>t, <1>3, <3>1, <3>2, RunWhenDelivered
  <2>3. ASSUME NEW s \in Sockets, s \notin Listening
        PROVE  inbox'[s] = inbox[s] /\ Run(feed[s], inbox'[s], since[s], channel')
    BY <1>t, <1>3, <2>1, <2>3, RunWhenLogGrows DEF FeedInv
  <2>4. \A s \in Sockets : Run(feed'[s], inbox'[s], since'[s], channel')
    BY <1>1, <2>2, <2>3
  <2>5. Listening \subseteq Sockets
    BY DEF FeedInv, StreamTypeOK, Listening
  <2>6. LiveFeedIsComplete'
    BY <1>1, <2>2, <2>5 DEF LiveFeedIsComplete
  <2>7. \A s \in Sockets : Unopened(s)' => feed'[s] = <<>> /\ inbox'[s] = <<>>
    BY <1>1, <2>3 DEF FeedInv, Unopened, Listening
  <2> QED
    BY <2>4, <2>6, <2>7 DEF FeedInv
<1> QED
  BY <1>2, <1>3 DEF Published

LEMMA NextFeedInv == FeedInv /\ [StreamNext]_streamVars => FeedInv'
<1> SUFFICES ASSUME FeedInv, [StreamNext]_streamVars
             PROVE  FeedInv'
  OBVIOUS
<1>t. StreamTypeOK /\ StreamTypeOK' /\ TypeOK
  BY NextStreamTypeOK DEF FeedInv, StreamTypeOK
<1>s. /\ ws \in [Sockets -> {"none", "accepted", "streaming", "leaving", "ended"}]
      /\ channel \in Seq(Event) /\ inbox \in [Sockets -> Seq(Event)]
      /\ feed \in [Sockets -> Seq(Event)] /\ since \in [Sockets -> Nat] /\ subs \subseteq Sockets
  BY <1>t DEF StreamTypeOK, TypeOK
<1>1. ASSUME NEW d \in Deliveries, WithoutRedis(d) \/ Fetch(d) \/ FetchFails(d)
      PROVE  FeedInv'
  <2>1. UNCHANGED <<channel, ws, subs, feed, inbox, since>>
    BY <1>1 DEF WithoutRedis, Fetch, FetchFails, Fails, PublishFails, PushFails, TrimFails,
                Refuse, Answer, Raise, RejectBody, Accept, redisVars, vars, socketVars
  <2> QED
    BY <1>t, <2>1, QuietStepFeed DEF Listening, Unopened
<1>2. ASSUME NEW d \in Deliveries,
             Command(d) \/ \E applied \in BOOLEAN : CommandFails(d, applied)
      PROVE  FeedInv'
  <2>1. Deliver /\ (channel' = channel \/ Published)
    BY <1>2, <1>t, ChannelSteps DEF Command, CommandFails
  <2> QED
    BY <1>t, <2>1, DeliveryFeed
<1>3. ASSUME NEW s \in Sockets, Open(s) \/ SubscribeFails(s) \/ Leave(s) \/ ClientLeaves(s)
      PROVE  FeedInv'
  <2>1. UNCHANGED <<channel, feed, inbox, since>>
    BY <1>3 DEF Open, SubscribeFails, Leave, ClientLeaves, vars, redisVars
  <2>2. subs' \subseteq subs /\ \A r \in Sockets : /\ Unopened(r)' => Unopened(r)
                                                   /\ ws'[r] = "streaming" => ws[r] = "streaming"
    BY <1>3, <1>s DEF Open, SubscribeFails, Leave, ClientLeaves, Become, Unopened
  <2>3. Listening' \subseteq Listening
    BY <1>s, <2>2 DEF Listening
  <2> QED
    BY <1>t, <2>1, <2>2, <2>3, QuietStepFeed
<1>4. ASSUME NEW s \in Sockets, Subscribe(s)
      PROVE  FeedInv'
  <2>1. /\ UNCHANGED <<channel, feed, inbox>> /\ ws[s] = "accepted"
        /\ ws' = [ws EXCEPT ![s] = "streaming"] /\ since' = [since EXCEPT ![s] = Len(channel)]
        /\ subs' = subs \cup {s}
    BY <1>4 DEF Subscribe, Become, vars, redisVars
  <2>2. feed[s] = <<>> /\ inbox[s] = <<>>
    BY <2>1 DEF FeedInv, Unopened
  <2>3. ASSUME NEW r \in Sockets
        PROVE  /\ Run(feed'[r], inbox'[r], since'[r], channel')
               /\ Unopened(r)' => feed'[r] = <<>> /\ inbox'[r] = <<>>
               /\ r \in Listening' => since'[r] + Len(feed'[r]) + Len(inbox'[r]) = Len(channel')
    <3>1. CASE r = s
      <4>1. since'[s] = Len(channel) /\ Len(<<>>) = 0 /\ Len(channel) \in Nat
        BY <1>s, <2>1
      <4> QED
        BY <2>1, <2>2, <3>1, <4>1 DEF Run
    <3>2. CASE r # s
      <4>1. since'[r] = since[r] /\ ws'[r] = ws[r]
        BY <1>s, <2>1, <3>2
      <4> QED
        BY <2>1, <3>2, <4>1 DEF FeedInv, LiveFeedIsComplete, Listening, Unopened
    <3> QED
      BY <3>1, <3>2
  <2>4. Listening' \subseteq Sockets
    BY <1>s, <2>1 DEF Listening
  <2> QED
    BY <1>t, <2>3, <2>4 DEF FeedInv, LiveFeedIsComplete
<1>5. ASSUME NEW s \in Sockets, Relay(s)
      PROVE  FeedInv'
  <2>1. /\ UNCHANGED <<channel, ws, subs, since>> /\ inbox[s] # <<>> /\ ws[s] = "streaming"
        /\ feed' = [feed EXCEPT ![s] = Append(@, Head(inbox[s]))]
        /\ inbox' = [inbox EXCEPT ![s] = Tail(@)]
    BY <1>5 DEF Relay, vars, redisVars
  <2>2. feed'[s] = Append(feed[s], Head(inbox[s])) /\ inbox'[s] = Tail(inbox[s])
    BY <1>s, <2>1
  <2>3. /\ Run(feed'[s], inbox'[s], since[s], channel)
        /\ Len(feed'[s]) + Len(inbox'[s]) = Len(feed[s]) + Len(inbox[s])
    BY <1>s, <2>1, <2>2, RunWhenRelayed DEF FeedInv
  <2>4. \A r \in Sockets \ {s} : feed'[r] = feed[r] /\ inbox'[r] = inbox[r]
    BY <1>s, <2>1
  <2>5. \A r \in Sockets : Run(feed'[r], inbox'[r], since'[r], channel')
    BY <2>1, <2>3, <2>4 DEF FeedInv
  <2>6. \A r \in Sockets : Unopened(r)' => feed'[r] = <<>> /\ inbox'[r] = <<>>
    BY <2>1, <2>4 DEF FeedInv, Unopened
  <2>7. Listening' = Listening /\ Listening \subseteq Sockets
    BY <1>s, <2>1 DEF Listening
  <2>8. ASSUME NEW r \in Listening
        PROVE  since'[r] + Len(feed'[r]) + Len(inbox'[r]) = Len(channel')
    <3>1. since[r] + Len(feed[r]) + Len(inbox[r]) = Len(channel) /\ r \in Sockets
      BY <2>7 DEF FeedInv, LiveFeedIsComplete
    <3>2. CASE r = s
      <4>1. /\ since[s] \in Nat /\ Len(feed[s]) \in Nat /\ Len(inbox[s]) \in Nat
            /\ Len(feed'[s]) \in Nat /\ Len(inbox'[s]) \in Nat
        BY <1>s, <1>t DEF StreamTypeOK
      <4>2. since[s] + Len(feed'[s]) + Len(inbox'[s]) = since[s] + Len(feed[s]) + Len(inbox[s])
        <5> DEFINE n == since[s]
                   a == Len(feed[s])
                   b == Len(inbox[s])
                   a2 == Len(feed'[s])
                   b2 == Len(inbox'[s])
        <5>1. n \in Nat /\ a \in Nat /\ b \in Nat /\ a2 \in Nat /\ b2 \in Nat /\ a2 + b2 = a + b
          BY <2>3, <4>1
        <5> HIDE DEF n, a, b, a2, b2
        <5>2. n + a2 + b2 = n + a + b
          BY <5>1
        <5> QED
          BY <5>2 DEF n, a, b, a2, b2
      <4>3. since'[s] = since[s] /\ channel' = channel
        BY <2>1
      <4> QED
        BY <3>1, <3>2, <4>2, <4>3
    <3>3. CASE r # s
      BY <2>1, <2>4, <3>1, <3>3
    <3> QED
      BY <3>2, <3>3
  <2> QED
    BY <1>t, <2>5, <2>6, <2>7, <2>8 DEF FeedInv, LiveFeedIsComplete
<1>6. ASSUME NEW s \in Sockets, RelayFails(s) \/ PollFails(s)
      PROVE  FeedInv'
  <2>1. /\ UNCHANGED <<channel, subs, since, feed>>
        /\ ws' = [ws EXCEPT ![s] = "leaving"] /\ inbox' = [inbox EXCEPT ![s] = <<>>]
    BY <1>6 DEF RelayFails, PollFails, Become, vars, redisVars
  <2>2. /\ ws'[s] = "leaving" /\ inbox'[s] = <<>>
        /\ \A r \in Sockets \ {s} : ws'[r] = ws[r] /\ inbox'[r] = inbox[r]
    BY <1>s, <2>1
  <2>3. Run(feed[s], inbox'[s], since[s], channel)
    BY <1>s, <2>2, RunWhenDropped DEF FeedInv
  <2>4. \A r \in Sockets : Run(feed'[r], inbox'[r], since'[r], channel')
    BY <2>1, <2>2, <2>3 DEF FeedInv
  <2>5. \A r \in Sockets : Unopened(r)' => feed'[r] = <<>> /\ inbox'[r] = <<>>
    BY <2>1, <2>2 DEF FeedInv, Unopened
  <2>6. Listening' \subseteq Listening \ {s} /\ Listening \subseteq Sockets
    BY <1>s, <2>1, <2>2 DEF Listening
  <2>7. LiveFeedIsComplete'
    BY <2>1, <2>2, <2>6 DEF FeedInv, LiveFeedIsComplete
  <2> QED
    BY <1>t, <2>4, <2>5, <2>7 DEF FeedInv
<1>7. CASE ReadHistory \/ RedisStops \/ RedisReturns \/ UNCHANGED streamVars
  <2>1. UNCHANGED <<channel, ws, feed, inbox, since>> /\ subs' \subseteq subs
    BY <1>7 DEF ReadHistory, RedisStops, RedisReturns, RedisForgets, streamVars, socketVars,
                vars, redisVars
  <2> QED
    BY <1>t, <2>1, QuietStepFeed DEF Listening, Unopened
<1>8. CASE BackendRestarts
  <2>1. UNCHANGED <<channel, feed, inbox, since>> /\ Listening' = {}
    BY <1>8 DEF BackendRestarts, Crash, Listening
  <2>2. \A s \in Sockets : Unopened(s)' => Unopened(s)
    BY <1>8 DEF BackendRestarts, Unopened
  <2> QED
    BY <1>t, <2>1, <2>2, QuietStepFeed
<1> QED
  BY <1>1, <1>2, <1>3, <1>4, <1>5, <1>6, <1>7, <1>8 DEF StreamNext, WebhookNext, HandlerStep

LEMMA AlwaysFeedInv == StreamSpec => []FeedInv
<1>1. StreamInit => FeedInv
  <2> SUFFICES ASSUME StreamInit PROVE FeedInv
    OBVIOUS
  <2>1. /\ channel = <<>> /\ Len(<<>>) = 0 /\ Listening = {}
        /\ \A s \in Sockets : feed[s] = <<>> /\ inbox[s] = <<>> /\ since[s] = 0
    BY DEF StreamInit, Init, Listening
  <2> QED
    BY <2>1, InitStreamTypeOK DEF FeedInv, Run, LiveFeedIsComplete
<1> QED
  BY <1>1, NextFeedInv, PTL DEF StreamSpec

\* What a browser receives of the channel has no gap, no repetition and no swap,
\* for any number of sockets and requests, whatever Redis loses.
THEOREM FeedsAreContiguous == StreamSpec => []FeedIsContiguous
<1>1. FeedInv => FeedIsContiguous
  BY RunIsContiguous DEF FeedInv, StreamTypeOK, TypeOK, FeedIsContiguous
<1> QED
  BY <1>1, AlwaysFeedInv, PTL

\* A handler whose subscription lives has, read or unread, everything that was
\* published since it subscribed.
THEOREM LiveFeedsAreComplete == StreamSpec => []LiveFeedIsComplete
<1>1. FeedInv => LiveFeedIsComplete
  BY DEF FeedInv
<1> QED
  BY <1>1, AlwaysFeedInv, PTL
=============================================================================
