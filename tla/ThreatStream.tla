---------------------------- MODULE ThreatStream ----------------------------
(***************************************************************************)
(* The live side of the threat feed: the WebSocket handlers of             *)
(* routers/threats.py, each holding a Redis subscription, next to the      *)
(* webhook handlers of ThreatVault.  All of them draw their connections    *)
(* from the one pool of ThreatService, so a subscription that is not given *)
(* back is a connection the webhook cannot have.                           *)
(***************************************************************************)
EXTENDS ThreatVault

CONSTANTS
    Sockets,        \* connections to /api/threats/ws/threats
    PoolSize,       \* max_connections of the shared redis.ConnectionPool
    RedisMayFail    \* whether Redis may go away or a connection may drop

\* A handler of the webhook is not a handler of a socket.
ASSUME PoolAssumption ==
    PoolSize \in Nat \ {0} /\ RedisMayFail \in BOOLEAN /\ Sockets \cap Deliveries = {}

VARIABLES
    redisUp,   \* whether Redis can be reached
    inUse,     \* the handlers that hold a connection of the pool
    leaked,    \* connections of the pool no handler will give back
    ws,        \* ws[s]: where the handler ws_threats of s is
    client,    \* client[s]: whether the browser is still at the other end
    subs,      \* the sockets Redis has a subscription for
    since,     \* since[s]: how much was published before s subscribed
    inbox,     \* inbox[s]: messages of the subscription not yet read
    feed,      \* feed[s]: messages sent to the browser
    history    \* the last answer of /api/threats/history, and whether Redis was up

poolVars   == <<inUse, leaked>>
socketVars == <<ws, client, subs, since, inbox, feed>>
streamVars == <<vars, redisUp, poolVars, socketVars, history>>

Taken    == Cardinality(inUse) + leaked
Free     == Taken < PoolSize
CanFetch == redisUp /\ Free

StreamInit ==
    /\ Init
    /\ redisUp = TRUE
    /\ inUse   = {}
    /\ leaked  = 0
    /\ ws      = [s \in Sockets |-> "none"]
    /\ client  = [s \in Sockets |-> "present"]
    /\ subs    = {}
    /\ since   = [s \in Sockets |-> 0]
    /\ inbox   = [s \in Sockets |-> <<>>]
    /\ feed    = [s \in Sockets |-> <<>>]
    /\ history = [events |-> "none", up |-> TRUE]

Become(s, to) == ws' = [ws EXCEPT ![s] = to]

Release(x) == inUse' = inUse \ {x}

\* The sockets whose handler still reads its subscription.
Listening == {s \in subs : ws[s] = "streaming"}
-----------------------------------------------------------------------------
(* Slips: what an action would be after a plausible mistake in its code.    *)
(* No specification uses them; each breaks a property below.                *)

\* get_message is called once for the test and once more for the payload.
RelaySecond(s) ==
    /\ ws[s] = "streaming" /\ Len(inbox[s]) > 1
    /\ client[s] = "present"
    /\ feed'  = [feed EXCEPT ![s] = Append(@, inbox[s][2])]
    /\ inbox' = [inbox EXCEPT ![s] = SubSeq(@, 3, Len(@))]
    /\ UNCHANGED <<vars, redisUp, poolVars, ws, client, subs, since, history>>

\* The failed send is swallowed inside the loop, which goes on polling.
RelayFailsQuietly(s) ==
    /\ ws[s] = "streaming" /\ inbox[s] # <<>>
    /\ client[s] = "gone"
    /\ inbox' = [inbox EXCEPT ![s] = Tail(@)]
    /\ UNCHANGED <<vars, redisUp, poolVars, ws, client, subs, since, feed, history>>

RelayNewest(s) ==
    /\ ws[s] = "streaming" /\ inbox[s] # <<>>
    /\ client[s] = "present"
    /\ feed'  = [feed EXCEPT ![s] = Append(@, inbox[s][Len(inbox[s])])]
    /\ inbox' = [inbox EXCEPT ![s] = SubSeq(@, 1, Len(@) - 1)]
    /\ UNCHANGED <<vars, redisUp, poolVars, ws, client, subs, since, history>>

RelayInPairs(s) ==
    /\ ws[s] = "streaming" /\ Len(inbox[s]) > 1
    /\ client[s] = "present"
    /\ feed'  = [feed EXCEPT ![s] = @ \o inbox[s]]
    /\ inbox' = [inbox EXCEPT ![s] = <<>>]
    /\ UNCHANGED <<vars, redisUp, poolVars, ws, client, subs, since, history>>

PollFailsForGood(s) ==
    /\ ws[s] = "streaming" /\ s \notin subs
    /\ Become(s, "ended")
    /\ inbox' = [inbox EXCEPT ![s] = <<>>]
    /\ UNCHANGED <<vars, redisUp, poolVars, client, subs, since, feed, history>>

-----------------------------------------------------------------------------
(* The webhook: every Redis command takes a connection, runs, gives it back *)

\* ConnectionPool.get_connection for the next command of the webhook.
Fetch(d) ==
    /\ Running(d) /\ todo[d] # {}
    /\ d \notin inUse
    /\ CanFetch
    /\ inUse' = inUse \cup {d}
    /\ UNCHANGED <<vars, redisUp, leaked, socketVars, history>>

Fails(d, i, applied) ==
    \/ PublishFails(d, i, applied)
    \/ PushFails(d, i, applied)
    \/ TrimFails(d, i, applied)

\* get_connection raises: Redis refuses, or "Too many connections".
FetchFails(d) ==
    /\ d \notin inUse
    /\ ~CanFetch
    /\ \E i \in todo[d] : Fails(d, i, FALSE)
    /\ UNCHANGED <<redisUp, poolVars, socketVars, history>>

\* Redis hands what was just published to each subscription.
Deliver ==
    /\ inbox' = [s \in Sockets |->
                    IF s \in Listening /\ channel' # channel
                    THEN Append(inbox[s], channel'[Len(channel')])
                    ELSE inbox[s]]
    /\ UNCHANGED <<ws, client, subs, since, feed>>

Command(d) ==
    /\ d \in inUse /\ redisUp
    /\ \E i \in todo[d] : Publish(d, i) \/ Push(d, i) \/ Trim(d, i)
    /\ Deliver
    /\ Release(d)
    /\ UNCHANGED <<redisUp, leaked, history>>

\* The connection drops while the command runs.
CommandFails(d, applied) ==
    /\ RedisMayFail
    /\ d \in inUse
    /\ applied => redisUp
    /\ \E i \in todo[d] : Fails(d, i, applied)
    /\ Deliver
    /\ Release(d)
    /\ UNCHANGED <<redisUp, leaked, history>>

\* The parts of the webhook that need no Redis.
WithoutRedis(d) ==
    /\ Refuse(d) \/ Answer(d) \/ Raise(d) \/ \E b \in Batches : RejectBody(d, b) \/ Accept(d, b)
    /\ UNCHANGED <<redisUp, poolVars, socketVars, history>>
-----------------------------------------------------------------------------
(* ws_threats *)

\* The origin check, then accept.
Open(s) ==
    /\ ws[s] = "none"
    /\ Become(s, "accepted") \/ Become(s, "ended")
    /\ UNCHANGED <<vars, redisUp, poolVars, client, subs, since, inbox, feed, history>>

\* subscribe_events: the subscription keeps its connection.
Subscribe(s) ==
    /\ ws[s] = "accepted"
    /\ CanFetch
    /\ Become(s, "streaming")
    /\ inUse' = inUse \cup {s}
    /\ subs'  = subs \cup {s}
    /\ since' = [since EXCEPT ![s] = Len(channel)]
    /\ UNCHANGED <<vars, redisUp, leaked, client, inbox, feed, history>>

\* subscribe_events raises before the handler has a pubsub to close: when the
\* connection was already taken, nobody gives it back.
SubscribeFails(s) ==
    /\ ws[s] = "accepted"
    /\ \/ ~CanFetch /\ UNCHANGED leaked
       \/ RedisMayFail /\ CanFetch /\ leaked' = leaked + 1
    /\ Become(s, "ended")
    /\ UNCHANGED <<vars, redisUp, inUse, client, subs, since, inbox, feed, history>>

\* get_message returns a message and send_text takes it to the browser.
Relay(s) ==
    /\ ws[s] = "streaming" /\ inbox[s] # <<>>
    /\ client[s] = "present"
    /\ feed'  = [feed EXCEPT ![s] = Append(@, Head(inbox[s]))]
    /\ inbox' = [inbox EXCEPT ![s] = Tail(@)]
    /\ UNCHANGED <<vars, redisUp, poolVars, ws, client, subs, since, history>>

\* send_text raises: the only way the handler learns that the browser has left.
\* What it has not read yet goes with the subscription.
RelayFails(s) ==
    /\ ws[s] = "streaming" /\ inbox[s] # <<>>
    /\ client[s] = "gone"
    /\ Become(s, "leaving")
    /\ inbox' = [inbox EXCEPT ![s] = <<>>]
    /\ UNCHANGED <<vars, redisUp, poolVars, client, subs, since, feed, history>>

\* get_message raises: the subscription's connection is lost.
PollFails(s) ==
    /\ ws[s] = "streaming" /\ s \notin subs
    /\ Become(s, "leaving")
    /\ inbox' = [inbox EXCEPT ![s] = <<>>]
    /\ UNCHANGED <<vars, redisUp, poolVars, client, subs, since, feed, history>>

\* The finally block: unsubscribe, then close.  When unsubscribe raises, close
\* is skipped and the connection stays taken.
Leave(s) ==
    /\ ws[s] = "leaving"
    /\ Become(s, "ended")
    /\ Release(s)
    /\ subs' = subs \ {s}
    /\ \/ redisUp /\ UNCHANGED leaked
       \/ (~redisUp \/ RedisMayFail) /\ leaked' = leaked + 1
    /\ UNCHANGED <<vars, redisUp, client, since, inbox, feed, history>>

\* The browser closes the socket, reloads the page or loses the network.
ClientLeaves(s) ==
    /\ ws[s] \in {"accepted", "streaming"} /\ client[s] = "present"
    /\ client' = [client EXCEPT ![s] = "gone"]
    /\ UNCHANGED <<vars, redisUp, poolVars, ws, subs, since, inbox, feed, history>>
-----------------------------------------------------------------------------
\* get_threat_history: any failure to read the vault is answered as empty.
ReadHistory ==
    /\ history' = [events |-> IF CanFetch THEN "vault" ELSE "empty", up |-> redisUp]
    /\ UNCHANGED <<vars, redisUp, poolVars, socketVars>>

\* Redis goes away with every subscription it had.
RedisStops ==
    /\ RedisMayFail /\ redisUp
    /\ redisUp' = FALSE
    /\ subs' = {}
    /\ UNCHANGED <<vars, poolVars, ws, client, since, inbox, feed, history>>

\* Redis is back, after a restart without its data or after a network failure.
RedisReturns ==
    /\ ~redisUp
    /\ redisUp' = TRUE
    /\ RedisForgets \/ UNCHANGED vars
    /\ UNCHANGED <<poolVars, socketVars, history>>

\* The backend process restarts: a new pool, no handlers.
BackendRestarts ==
    /\ Crash
    /\ inUse' = {} /\ leaked' = 0 /\ subs' = {}
    /\ ws' = [s \in Sockets |-> IF ws[s] = "none" THEN "none" ELSE "ended"]
    /\ UNCHANGED <<redisUp, client, since, inbox, feed, history>>

WebhookNext(d) ==
    \/ WithoutRedis(d) \/ Fetch(d) \/ FetchFails(d) \/ Command(d)
    \/ \E applied \in BOOLEAN : CommandFails(d, applied)

\* What the event loop runs for a socket, once it is accepted.
HandlerStep(s) ==
    \/ Subscribe(s) \/ SubscribeFails(s)
    \/ Relay(s) \/ RelayFails(s) \/ PollFails(s)
    \/ Leave(s)

StreamNext ==
    \/ \E d \in Deliveries : WebhookNext(d)
    \/ \E s \in Sockets : Open(s) \/ HandlerStep(s) \/ ClientLeaves(s)
    \/ ReadHistory \/ RedisStops \/ RedisReturns \/ BackendRestarts

StreamSpec == StreamInit /\ [][StreamNext]_streamVars

\* The event loop keeps polling each subscription (get_message has a timeout)
\* and resumes each handler whose command has ended.
StreamFairSpec ==
    /\ StreamSpec
    /\ \A s \in Sockets : WF_streamVars(HandlerStep(s))
    /\ \A d \in Deliveries :
          WF_streamVars(Fetch(d) \/ FetchFails(d) \/ Command(d)
                        \/ \E applied \in BOOLEAN : CommandFails(d, applied))
-----------------------------------------------------------------------------
StreamTypeOK ==
    /\ TypeOK
    /\ redisUp \in BOOLEAN
    /\ inUse \subseteq Deliveries \cup Sockets
    /\ leaked \in Nat
    /\ ws \in [Sockets -> {"none", "accepted", "streaming", "leaving", "ended"}]
    /\ client \in [Sockets -> {"present", "gone"}]
    /\ subs \subseteq Sockets
    /\ since \in [Sockets -> Nat]
    /\ inbox \in [Sockets -> Seq(Event)]
    /\ feed \in [Sockets -> Seq(Event)]
    /\ history \in [events : {"none", "vault", "empty"}, up : BOOLEAN]

\* A WebSocket handler holds a connection of the shared pool exactly while it
\* streams or cleans up, a webhook only inside a command, Redis delivers only
\* to handlers that hold one, and the pool never exceeds max_connections.
PoolAccounting ==
    /\ StreamTypeOK
    /\ inUse \cap Sockets = {s \in Sockets : ws[s] \in {"streaming", "leaving"}}
    /\ \A d \in inUse \cap Deliveries : Running(d) /\ todo[d] # {}
    /\ subs \subseteq inUse
    /\ Taken <= PoolSize

\* What a browser receives is a contiguous run of what was published since its
\* handler subscribed: no alert missing between two it shows, none twice, none
\* out of order, whatever happens to Redis (pub/sub is at most once).
FeedIsContiguous ==
    \A s \in Sockets :
        LET got == feed[s] \o inbox[s]
        IN  /\ since[s] + Len(got) <= Len(channel)
            /\ \A k \in 1..Len(got) : got[k] = channel[since[s] + k]

\* While the subscription lives, nothing published is missing at its end.
LiveFeedIsComplete ==
    \A s \in Listening :
        since[s] + Len(feed[s]) + Len(inbox[s]) = Len(channel)

\* A published alert reaches every browser that stays, as long as Redis and the
\* backend do.
AlertReachesClient ==
    \A s \in Sockets :
        (ws[s] = "streaming" /\ inbox[s] # <<>>)
            ~> (inbox[s] = <<>> \/ client[s] = "gone" \/ s \notin subs)

\* A browser that has left does not hold its handler's connection beyond the next
\* alert, or the loss of the subscription: either makes the handler leave its loop,
\* and whatever its finally block runs into, the handler ends (the connection may
\* be lost to the pool on the way: leaked).
GoneIsReleased ==
    \A s \in Sockets :
        (client[s] = "gone" /\ ws[s] = "streaming" /\ (inbox[s] # <<>> \/ s \notin subs))
            ~> s \notin inUse
=============================================================================
