# A TLA+ model of the CNI Command Center

This directory holds a specification of the dashboard in this repository: a
FastAPI backend (`src/backend`) that reads a Kubernetes cluster with Calico,
edits some of its configuration and keeps a feed of Falco alerts in Redis, and a
React frontend (`src/frontend`) that shows them. Paths below are relative to
`src/`.

Contents: [the system](#the-system) · [the modules](#the-modules) ·
[the runs](#the-runs) · [fairness](#fairness) · [the proofs](#the-proofs) ·
[findings](#findings) · [remarks](#remarks) ·
[what is left out](#what-is-not-modelled) · [the plan](#the-plan)

## The system

| Component | State it keeps | Operations | Hard behaviour | What makes it correct |
|---|---|---|---|---|
| Falco body parsing (`backend/routers/threats.py`, `_parse_json_objects`) | none | three readings of a body: JSON document, concatenated values, line by line | which error leads to which reading; where a reading stops | values come out in the order of the text; a body that begins with a value is read up to the first damage, any other by the lines that hold one value |
| Threat ingestion (`falco_webhook`, `services/threat_service.py`) | the Redis list `falco:vault`, the channel `falco:events`; per request: position in the batch, counters | signature and body checks, then per event PUBLISH, LPUSH, LTRIM; failures skip the event; a rule that is no string ends the request | requests interleave between commands; a command raises before or after its effect; the process dies; Redis forgets | the history shows the newest alerts at every moment; stored implies streamed; order kept; counters never overstate; each request answered |
| Threat streaming (`ws_threats`, `get_threat_history`) | the shared `ConnectionPool` (20), one subscription per socket | accept, subscribe, poll, send, the `finally` block | a subscription keeps a connection; a gone browser shows only on the next send; `unsubscribe` may raise before `close` | the pool is accounted for; a gone browser's connection comes back; each browser gets a contiguous run of alerts |
| Threat feed in the browser (`frontend/src/context/DashboardContext.tsx`) | `wsRef`, `reconnectRef`, timers, `wsConnected`, `threats`, `threatIdRef` | `connectWebSocket` and its callbacks, `fetchThreatHistory`, `clearThreats`, clean-up | callbacks of old and new sockets, timers and late answers in any order | one live socket; no live alert lost to a late history answer, none listed twice by it; the connection comes back |
| Super-user gate and audit log (`routers/config.py`, `services/auth_service.py`, `services/audit_service.py`) | the Redis list `audit:vault`; per request: outcome, answer | login, gate, write endpoints, `log_audit` | the audit entry comes after the cluster changed; every step may fail | only trusted writes; the log is true and newest-first; a failing log changes no answer |
| Super-user session in the browser (`ClusterConfigPanel.tsx`, `SuperUserModal.tsx`) | module-level token and flag, the bar, the prompt, the pending action, the 15-minute timer | login, execute with auth, lock, cancel, unmount and mount | a login answered after its prompt or its panel is gone; an action that outlives its prompt | an action runs once; an open bar has its timer; Lock is final |
| Configuration editors (`ClusterConfigPanel.tsx`) | the modal form, detail fetches, the prompt and its logins, saves under way | open, detail, type, save, deferral to a login, a login without its prompt | a late detail, save or login meets another editor | an object gets its own values and what was typed; saves overlap only where a login lost its prompt |
| Kubernetes configuration (`services/config_service.py`) | the cluster | create, patch, delete of pools, BGP peers, namespaces, services, config maps, secrets, deployments, nodes | a call that took effect and raised | nothing claimed that did not happen |
| AI assistant (`services/ai_service.py`, `ChatPanel.tsx`) | the conversation; per request the round of the tool loop | send, clear, tool loop, one retry without tools | a reply after a clear; a model that asks for tools without end | the context is the conversation on the page; each question is answered |
| Connectivity diagnostics (`routers/cni.py`, `DiagnosticsPanel.tsx`) | a pod in the cluster; the form and its log | create, wait, read logs, delete | failure between create and delete; a form that changes while a test runs | the pod goes with its test; a result names what was tested |
| Dashboard data fetching (`DashboardContext.tsx`, `App.tsx`) | loading flags, data, labels, staleness stamps | initial load, silent refresh, refresh button, tab subscription | overlapping refreshes, half-failed ones, late answers | labels fit the data; no flag stuck; the page catches up |
| Page navigation and threat panel (`App.tsx`, `SecuritySection.tsx`, `ToolsSection.tsx`, `DashboardPanel.tsx`, `ThreatPanel.tsx`, `ErrorBoundary.tsx`) | active tab, the sections' views, pause, the boundary's error | sidebar, cards, arrow keys, reload, pause, clear | the tab and the views are set by different controls | a section that opens with its first panel has that panel's data, and the threats their stream; no pause outlives its panel |
| Network section (`NetworkSection.tsx` and its panels) | view, jump target, filters, saved scroll offset | sub-navigation, jumps, the way back, a matrix fetched again | effects that clear their own flag and run again; a container that clamps | the link back is there after a jump, and leads to the rows and the place that were left |
| Topology diagram (`Topology.tsx`, `CniTopologyPanel.tsx`, `get_cni_topology`) | the listings of one answer; positions | list, adapt, place | listings of different moments; numbers at which a line is full | every edge has its ends; nothing overlaps |
| Policy engine and selectors (`services/utils.py`, `services/policy_engine.py`) | none | parse, evaluate, coverage | precedence, negation, missing labels, malformed text | a policy selects what its selector says, or is reported |
| Calico, network and security services | none; they read the cluster | IPAM utilisation, policy listing | one listing fails and the rest is used | failure is not emptiness |
| Mode and fallback (`dependencies.py`, routers) | configuration | live, mock or error envelope | partial failure | live and mock data are never mixed |
| Metrics services, cluster connection, other presentation, deployment | little | scraping, client construction, rendering, manifests | | |

How they interact. Falco posts to the webhook, which publishes each alert on a
Redis channel and stores it in a Redis list. Each browser holds a WebSocket whose
handler subscribes to the channel, and reads the list over HTTP to seed its tab.
Webhook, WebSocket handlers, history and audit log take their connections from
one `redis.ConnectionPool` of 20. The configuration panel logs in for a
15-minute token and sends writes through `require_super_user`, which calls
Kubernetes and then writes an audit entry. All backend handlers run on one
asyncio loop: they interleave at each `await` and nowhere else. The browser runs
each callback to its end, so a browser model has one action per callback.

## The modules

| Module | What it models | Extends or instantiates |
|---|---|---|
| `FalcoBody` | `_parse_json_objects` as an operator over bodies made of chunks | |
| `FalcoReading` | the reading of one body, and what it must return | extends `FalcoBody` |
| `AlertHistory` | **abstract**: what the alert feed and its history promise: an alert is streamed, later recorded in one step, and the history shows the newest | |
| `RingVault` | a Redis list filled by LPUSH and cut by LTRIM, as any number of writers see it | |
| `ThreatVault` | `falco_webhook` and `ThreatService` | extends `FalcoBody`; instantiates `RingVault`; implements `AlertHistory` |
| `ThreatStream` | WebSocket handlers, history and the shared connection pool around the webhook | extends `ThreatVault` |
| `ThreatClient` | the browser's end of the feed | |
| `SuperUserAudit` | gate, login, write endpoints, audit log | instantiates `RingVault` |
| `SuperUserSession` | token, bar, prompt, pending action and timers of the configuration panel | |
| `ConfigForms` | the editors of the configuration panel, detail fetches and saves | |
| `AiChat` | chat panel and tool loop | |
| `Diagnostics` | connectivity tests: form, log, endpoint, pod | |
| `DashboardFetch` | the overlapping loads of the dashboard | |
| `PageNav` | tabs, sections, reload, error boundary, threat panel | |
| `NetworkNav` | views and jumps of the network section, scroll position | |
| `ClusterGraph` | the listings of `get_cni_topology` and the graph adapted from them | |
| `ClusterLayout` | `computePositions` | |
| `Selectors` | selector parser, evaluation, which pods a policy selects | |
| `SelectorReading` | a selector as it is written, and what the grammar says of it | extends `Selectors` |
| `RingVaultProofs`, `ThreatVaultProofs`, `ThreatStreamProofs`, `ThreatClientProofs`, `SuperUserAuditProofs` | theorems and proofs about the module of that name (`ThreatVaultProofs` also about `FalcoReading`) | extend it |
| `ToolsProofs` | theorems about `SuperUserSession`, `ConfigForms`, `AiChat` and `Diagnostics` | extends the four |
| `PageProofs` | theorems about `DashboardFetch` and `PageNav` | extends both |
| `NetworkProofs` | theorems about `NetworkNav`, `ClusterGraph`, `ClusterLayout` and `SelectorReading` | extends the four |
| `MC...` | instances for TLC, with the bounds; `MCParsers` reads bodies and selectors, `MCConfiguration` has the editors and the gate, `MCConsole` the other parts of the page | extend what they check |

**`FalcoBody`.** A body is a sequence of chunks, each a Falco event, an event of
a rule the backend filters out (`_NOISY_RULES`), a JSON value that is no event, an
event whose `rule` is a list or an object, or text that is not JSON; plus whether
white space leads it and which chunks are `lone`, with a line to themselves. The
others share a line (`{..}{..}`) or stretch over several. An array is a shape of its
own while it is undamaged; a damaged one is text like any other, with its
brackets and commas as the damage around its values. `Parse` follows the three
readings of the code: `json.loads`, then on "Extra data" `raw_decode` from offset 0
up to the first error, else line by line, where a line with more than one
value is skipped as a whole. `FalcoReading` reads one body and says what comes of
it: `ReadAt(read)` holds when the result is what stands at the places `read`, in the
order of the text. Left out: the line separators of `splitlines` other than line
ends, nesting deep enough for a `RecursionError`, integers too long to convert.

**`ThreatVault`.** A delivery `d` is one POST. `step[d]` is the command its
handler runs next (`publish`, `lpush`, `ltrim`) or how it ended (`200`, `422`,
`refused`, `aborted`); `todo[d]` the indexes of the loop still ahead;
`count[d]` and `filtered[d]` the two numbers of the answer; `channel`, `pushed`
and `vault` what Redis was told and what it holds. `Accept` is the handler up to
its first `await`. `PublishFails`, `PushFails`, `TrimFails` are the `except` of the
loop, each with a command that took effect or did not. `Raise` is the event whose
rule cannot be looked up in `_NOISY_RULES`: the look-up stands before the `try`, so
the request ends in a `500` and the rest of its batch is lost. `Crash` ends every running
handler; `RedisForgets` is a restart without persistence
(`k8s/deploy-redis.yaml`) or an eviction. `untrimmed` is a ghost. `ImplementsHistory`
maps the state to `AlertHistory`: streamed is what is on the channel, recorded what
was pushed, and the history is the list cut to its cap as `get_recent_events`
returns it, also while a trim is still to come. `AlertHistory` knows no handler,
command or failure; that its steps are all that can be seen of them is a
consequence of the order of publish, push and trim.

**`ThreatStream`.** Adds the pool (`inUse`, `leaked`), the handlers (`ws`), the
subscriptions (`subs`, `inbox`), what the browsers got (`feed`) and the last
history answer. A webhook command first takes a connection (`Fetch`), then runs
and gives it back (`Command`, `CommandFails`), or raises because the pool is used
up or Redis is away (`FetchFails`). `Subscribe` keeps its connection until
`Leave`, the `finally` block, in which a failing `unsubscribe` skips `close` and
leaks the connection. `since[s]` is a ghost.

**`ThreatClient`.** `ready[s]` is the `readyState` of a WebSocket object,
`hooked` the sockets whose `onclose` was not removed, `wsRef` and `attempt` the
two refs, `timers` the pending reconnect timers. `OpenTab` and `TimerFires` call
`ConnectWebSocket`; `Closes` is `onerror` and `onclose`. `RequestHistory` may
happen at any time, which covers the tab's 30-second staleness gate and the
manual refresh. `retries` and `cleared` are ghosts.

**`SuperUserAudit`.** A request is a write, a write with a malformed body, a
read of a secret or a login, with a good or a bad credential. `Write` is a write
endpoint around one Kubernetes call, which takes effect or not and returns or
raises. The code after the `yield` of `require_super_user` is `Decide` followed
by `LogPush`/`LogTrim`/`LogFails`. FastAPI resumes the gate in its own way after a
422, so `RefuseBody` leaves the recorded outcome open. `passwordSet` and
`redisSteady` are chosen at the start and never change: one run covers a backend
with and without a password, and a Redis that never fails next to one that may.

**`SuperUserSession`.** The token and the flag belong to the page, the rest to the
panel that is mounted; a login answered late runs the closures of the panel and
the render it was submitted in (`panel`, `action` of a login). Logins are numbered
in the order they were submitted. `dismissed`, `lockedAt` and `strayed` are ghosts:
logins whose prompt was cancelled or replaced, the first login after the last
Lock, and whether a login was answered to a panel no longer there.

**`ConfigForms`.** What a field holds is abstracted to where it comes from, an
object's detail or the user; `shown` is the set of origins in the form and
`data[o]` that in the cluster. A save or an open that needs a login waits
(`waiting`) with the form of the moment it was pressed. A login carries the action that waited
when its password was submitted: `awaited` is the one the open prompt waits for,
`late` are those whose prompt was cancelled or answered by another, and which run
their action all the same. What `SuperUserSession` knows besides (timers, other
panels, writes that are no saves) stays there. Two ghosts: `hurried`, an editor closed, or
gave way to another, before its detail came; `strays`, how many logins went on
without their prompt.

**`AiChat`.** A message is the question it asks or answers. A request carries the
last `MaxContext` messages and goes through rounds of tool calls
(`MAX_TOOL_ITERATIONS`); a refused payload is tried again without tools.

**`Diagnostics`.** The form, one test at a time, the endpoint's stages from create
to delete with every call failing, and the death of the backend. `excused` is a
ghost: tests with a failed create or delete, or whose backend died.

**`DashboardFetch`.** A job (initial load, silent refresh, refresh button) awaits the
core sources together and then its extra sources; a tab's subscription fetches
alone. An answer is a version of the cluster between the request and the arrival,
live, mock or failed as the backend is then; `Refused` is an error status, `Damaged` a
body that is no JSON, `Emptied` an answer with status 200 that says "error" and has no
data. The code awaits the bodies of the core answers one by one; here they are
applied in one step, since the headers of all have come by then and each sets its
own data and label together.

**`PageNav`, `NetworkNav`.** One action per control: tabs, sub-navigation, cards,
keys, reload, tags, links, filters. The restored scroll position is an effect with a
flag, an animation frame and a clean-up, each of which is state. How far the
container reaches down (`reach`) changes with every view, every filter and a matrix that
is fetched again (`Refetched`), and the browser clamps the position to it. Two ghosts: `left`, the filter,
the search and the place a tag left the endpoints with; `squeezed`, whether the
table was too short for that place at the frame or since.

**`ClusterGraph`, `ClusterLayout`.** The first lists nodes, pods, services and peers
one after the other while machines join and leave and pods move, and adapts the
answer; the second computes rectangles in half pixels, since the code halves odd
numbers.

**`Selectors`.** A selector is its tokens, of a kind and a text each. `ParseOr`,
`ParseAnd`, `ParseUnary`, `ParsePrimary` and `ParsePredicate` are the methods of
`_SelectorParser` and return a node and the token where they stopped, or that they
raised. A node stands for the labels that `_eval` says `True` of, since nothing else
is ever done with a tree. The methods call each other from later tokens only, so
`Parser` is a function over the tokens: `Parser(ts)[i]` holds what the three methods
return from token `i`. A selector without tokens is the empty one or one of white space
(`spaced`): the coverage report skips the first, which is falsy, and the second
matches everything.

**`SelectorReading`.** The other side, the grammar in the docstring of `utils.py`, as a
chart: `Grammar(ts)[n][i]` is the set of all that the `n` tokens from `i` on may mean
as a unary, a chain of `&&` and a chain of `||`. It looks at every way to cut the
stretch and knows nothing of a position, a lookahead or an error. What a comparison says of a
pod without the label is the code's own rule, that a missing label counts as
the empty text: `contains`, `startsWith` and `endsWith` of the empty text and
an expression that matches it hold of such a pod. `CoverageIsHonest` compares the two.

Operators under a heading "Slips" are what an action would be after a plausible
mistake; no specification uses them, and each was seen to break the property it is
paired with in `PROJECT.json`.

## The runs

| Run | Checks | Instance | Why it is enough |
|---|---|---|---|
| `parsers` | `ReadsUpToDamage`: a body that begins with a value yields all values before the first damage, or none because white space leads it; any other the values with a line to themselves; in order and none twice; `CoverageIsHonest`: a policy selects exactly what the grammar says its selector means, or is reported as unsupported when it means nothing, and no selector means two things | every body of up to 3 chunks, with every choice of lone ones; every selector of up to 6 pieces out of 9 tests, 6 malformed tests and 5 connectives, against every pod with two labels, each absent or with one of two values, in and out of the policy's namespace (202 612 states) | three chunks put damage first, in the middle, last, and on both sides of a value; six pieces hold `a && b \|\| c`, `!(a \|\| b)`, an unclosed parenthesis, two tests side by side; the tests hold the empty text and an expression that matches it; both are proved for all values |
| `vault_webhook` | `VaultIsNewest`, `OverflowBounded`, `CountedWasStreamed`, `StoredWasStreamed`, `BatchOrderKept`, `ImplementsHistory`, `EvictedStaysEvicted`, `EveryDeliveryEnds` | 2 requests of up to 2 values, cap 2 | up to four pushes pass the cap twice, trims of one request meet pushes of the other, a rule that raises stands before and after an alert; the safety properties are also proved for all values |
| `stream_safety` | `PoolAccounting`, `FeedIsContiguous`, `LiveFeedIsComplete` | 1 request of up to 2 events, 2 sockets, pool of 2, Redis failing (1 175 306 states) | three handlers compete for two connections; two events make an order and a gap possible |
| `stream_roomy` | `AlertReachesClient`; `GoneIsReleased`: the connection of a browser that left comes back once there is something to send to it, or its subscription is lost | the same, pool of 3, Redis not failing | the smallest pool with a connection for everyone |
| `client_feed` | `SocketsAgree`, `LiveAlertsAreKept`, `UniqueIds`, `FeedComesBack` | 3 sockets, 2 attempts, list of 2, history of up to 3, 4 messages, 2 timers and 2 requests pending | one socket in use and two still closing; the list overflows by live alerts and by history; more failures than attempts |
| `configuration` | server: `AuditIsNewest`, `OnlyTrustedWrites`, `SuccessEntryIsTrue`, `OneEntryPerRequest`, `AnsweredWriteIsLogged`, `AnswerIsTheWrites`; panel: `CalmEditorsKeepApart` | `MCConfiguration` (1 594 458 states): 3 requests of every kind and credential, log of 1; a config map, a secret, a pool and a new object, 2 opens, 2 saves, 2 passwords | three writers of a list of one: two entries wait for a trim while a third is pushed; a login answered, one dismissed and still under way, a save from each and an editor that gives way to another |
| `dashboard_fetch` | `LabelMatchesData`, `FlagsEnd`, `CatchesUp` | one core and one extra source, one tab that fetches the extra one too, initial load, refresh button and one background refresh, a cluster that changes once, from mock to live (69 696 states) | two jobs and a tab's request for the same source overlap, each before, across and after the change |
| `console` | session: `RunsOnce`, `ActiveBarIsTimed`, `LockIsFinal`; assistant: `ContextIsThisConversation`, `EveryQuestionIsAnswered`; tests: `PodGoesWithItsTest`, `ResultNamesItsTest`; network section: `WayBackHolds`; graph and diagram: `EdgesHaveEnds`, `DiagramIsClear`; page: `SectionsOpenFed` | `MCConsole`, one scene per part (1 027 828 states): 3 actions, 3 logins, 2 panels; 4 questions, context of 4, 2 rounds of 2 calls; a pod and a service with two ports that may be unlisted, one test; 3 policies, two of one name, views that reach down 0 to 2; 2 machines, 2 pods; rows of up to 3 boxes with 0 to 21 pods at four widths | three logins: one answered, one dismissed, one under way; the context overflows; two places below the top, so that a table too short for one still has the other; the box sizes stand beside the numbers at which a line is full |
| `falco_lead`, `client_capped`, `config_mixup`, `page_panels` | one documented claim each, which the code does not keep | small | see [findings](#findings) |

`MCConsole` puts parts of the page that share no state into one state machine: a
behaviour chooses its scene at the start and the other parts keep their initial
values, so each part is checked as it is alone, and their numbers of states add up
and do not multiply. `MCConfiguration` does the same with the editors of the panel and the
gate on the server.

The type invariants of `ThreatStream` (`PoolAccounting`), `ThreatClient`
(`SocketsAgree`), `DashboardFetch` (`LabelMatchesData`) and `ConfigForms`
(`CalmEditorsKeepApart`) are conjuncts of the properties in brackets, and proved with
them; those of `ThreatVault`, `SuperUserAudit` and `SuperUserSession` have theorems of
their own. The caps are 1 or 2
where the code has 50, 200 or 1000: the code compares lengths with the cap and
never looks at its value, so overflow behaves alike. Constants whose names start
with `Max` and have no counterpart in the code (`MaxBatch`, `MaxMessages`,
`MaxPending`, `MaxLogins`, `MaxPanels`, `MaxOpens`, `MaxSaves`, `MaxPrompts`, `MaxQuestions`,
`MaxTests`, `MaxPolls`, `MaxPieces`, `MaxReach`, ...) are bounds of the model; each stands in a
guard or in a set of inputs, and they only stop the state space from growing.

Three properties say less than the hazard next to them, on purpose. `PoolAccounting`
allows a pool that is used up, and connections that leak: both happen in the code, and the
property says that nothing else does. `LockIsFinal` excepts logins under way when Lock is
pressed, which may open the session again: no sentence of the code says they
may not. `CatchesUp` is about the page in the long run; a refresh that failed half-way is
made good by the next interval, and the property says no more than that.

Deadlock is checked in the runs of `ThreatVault`, `ThreatStream`, `DashboardFetch`
and, on the server's side, `MCConfiguration`, whose panel may stop (`Stops`) where
the bounds on the user end. It is off for the parsers, which stop when they have read,
for `ThreatClient`, where a page whose provider was unmounted does nothing more,
and for the console, where a diagram once drawn stays, and where the bounds on what
the user does end a scene.

## Fairness

- `ThreatVault!FairSpec`: weak fairness of `Work(d)`. asyncio resumes a handler
  whose command returned or raised, and redis-py raises when the connection is
  lost, so no command stays pending for ever. Nothing is assumed of the senders, of
  success, or of Redis.
- `ThreatStream!StreamFairSpec`: weak fairness of each handler's next step.
  `get_message` has a timeout, so the loop keeps polling.
- `ThreatClient!FairSpec`: the browser fires its timers, ends each closing
  handshake, and a connection attempt ends. Strong fairness of `Opens` says that a
  server which is tried again and again accepts once: without it
  `FeedComesBack` would be a claim about the server.
- `AiChat!ChatFairness`: weak fairness of the server's next step for a chat. The
  request to the provider has a timeout of 30 seconds and tools return or raise.
  What the model asks for is left open; that it stops is the loop's doing.
- `DashboardFetch!FetchFairness`: each request for a source is answered or fails,
  and the interval of the background refresh goes on. `CatchesUp` needs the
  interval: after a failure only the user's own steps ask again.

`SuperUserAudit`, `SuperUserSession`, `ConfigForms`, `Diagnostics` and the
navigation modules state no fairness: what they promise is safety, and what the
user does next is the user's.

## The proofs

TLAPS proves, for every value of the constants that the named assumptions allow:

| Theorem | Module | Statement |
|---|---|---|
| `RingIsNewest` | `RingVaultProofs` | the abstract ring buffer holds the newest entries |
| `BodiesAreRead` | `ThreatVaultProofs` | `ReadingSpec => []ReadsUpToDamage` |
| `CleanBodiesAreRead` | `ThreatVaultProofs` | `CleanBodyIsRead` (finding 1) for every body that `raw_decode` does not meet behind white space; of the others nothing is read |
| `BodiesBecomeBatches` | `ThreatVaultProofs` | what `Parse` makes of all bodies is `Batches`, the input of `ThreatVault` |
| `TypeCorrect` | `ThreatVaultProofs` | `Spec => []TypeOK` |
| `WebhookImplementsHistory` | `ThreatVaultProofs` | `Spec => ImplementsHistory`: whatever fails and interleaves, what is seen of the webhook is alerts streamed, recorded in the order of their request, and a history of the newest |
| `HistoryIsNewest` | `ThreatVaultProofs` | `Spec => []VaultIsNewest` |
| `StoredIsStreamed` | `ThreatVaultProofs` | `Spec => []StoredWasStreamed` |
| `OrderIsKept` | `ThreatVaultProofs` | `Spec => []BatchOrderKept` |
| `OverflowIsBounded` | `ThreatVaultProofs` | `Spec => []OverflowBounded` |
| `CountedIsStreamed` | `ThreatVaultProofs` | `Spec => []CountedWasStreamed` |
| `EvictedForGood` | `ThreatVaultProofs` | `Spec => EvictedStaysEvicted` |
| `RequestsCountDown` | `ThreatVaultProofs` | `Spec => []NeverStuck /\ CountsDown`: an accepted request always has a command to run, and each one leaves fewer |
| `StreamKeepsTheVault` | `ThreatStreamProofs` | the vault's safety properties, for `StreamSpec` |
| `StreamImplementsHistory`, `StreamRequestsCountDown` | `ThreatStreamProofs` | the alert history and the countdown, for `StreamSpec`, in which a command may also find no connection |
| `PoolIsAccounted`, `FeedsAreContiguous`, `LiveFeedsAreComplete` | `ThreatStreamProofs` | `PoolAccounting`, `FeedIsContiguous`, `LiveFeedIsComplete` |
| `AuditTypeCorrect`, `LogIsNewest`, `WritesAreTrusted`, `SuccessIsTrue`, `EntriesAreSingle`, `AnswersAreLogged`, `AnswersStand` | `SuperUserAuditProofs` | `TypeOK`, `AuditIsNewest`, `OnlyTrustedWrites`, `SuccessEntryIsTrue`, `OneEntryPerRequest`, `AnsweredWriteIsLogged`, `AnswerIsTheWrites` |
| `WritesRunOnce` | `SuperUserAuditProofs` | no write reaches Kubernetes twice for a request, and one answered as done was performed |
| `RequestsGoForward` | `SuperUserAuditProofs` | a request has at most four steps, and no step leads back |
| `SocketsAlwaysAgree`, `AlertsAreKept`, `RowsHaveKeys` | `ThreatClientProofs` | `SocketsAgree`, `LiveAlertsAreKept`, `UniqueIds` |
| `EveryLossIsRetried` | `ThreatClientProofs` | every lost socket sets a timer, and the counter of attempts stays at most 1 (finding 2) |
| `LeftPagesStayClosed` | `ThreatClientProofs` | a page left while no timer is pending never connects again |
| `SessionTypeCorrect`, `LockEndsTheSession`, `BarIsTimed`, `ActionsRunOnce` | `ToolsProofs` | `SessionTypeOK`, `LockIsFinal`, `ActiveBarIsTimed`, `RunsOnce` |
| `EditorsKeepApart` | `ToolsProofs` | `CalmEditorsKeepApart` |
| `CalmEditorsShowTheirs` | `ToolsProofs` | `EditorShowsItsObject` (finding 3) until the first editor is left before its detail came |
| `ContextIsCurrent` | `ToolsProofs` | `ContextIsThisConversation` |
| `QuestionsCountDown` | `ToolsProofs` | the panel waits for one request, and each step of the server brings its answer nearer |
| `PodsAreDeleted`, `ResultsNameTheirTest` | `ToolsProofs` | `PodGoesWithItsTest`, `ResultNamesItsTest` |
| `TestsCountDown` | `ToolsProofs` | a test has at most `MaxPolls + 6` steps before it, and each is one less |
| `LabelsMatchData` | `PageProofs` | `LabelMatchesData` |
| `FlagsFollowJobs` | `PageProofs` | overlay and spinner are shown exactly while their job waits for an answer, and each answer brings it nearer to its end |
| `PageOpensFed` | `PageProofs` | `SectionsOpenFed` |
| `PanelsUnderTheirTabSubscribe` | `PageProofs` | `PanelsSubscribe` (finding 4) while the panel's own tab is the active one |
| `WayBackIsFound` | `NetworkProofs` | `WayBackHolds` |
| `GraphHasEnds` | `NetworkProofs` | `EdgesHaveEnds` |
| `EveryDiagramIsClear` | `NetworkProofs` | `DiagramIsClear` |
| `SelectorsAreRead` | `NetworkProofs` | `SelectorSpec => []CoverageIsHonest` |

Assumptions are those the component's module names and TLC evaluates
(`MaxBatchAssumption`, `VaultAssumption`, `ClientAssumption`, `SessionAssumption`,
`ChatAssumption`, `DiagAssumption`, ...): bounds and caps are naturals, mostly
positive, and the set of deliveries is finite. Some say what kind of thing a constant is:
`PoolAssumption` that a handler of a socket is none of the webhook,
`FormAssumption` that the form of a new object is an object of its own,
`FetchAssumption` that each tab fetches one extra source, that there is one, and that
background refreshes are not named like the three jobs there is one of each,
`SelectorAssumption` that a selector is written in pieces made of tokens, `NavAssumption` that the
listed impacts are a sequence of policies and that the empty search names nothing,
`LayoutAssumption` that numbers of pods and widths are naturals. In `RingVault` a
positive cap is a hypothesis of the theorem (`PositiveCap`), which each instance
discharges from its own assumption.

The arguments:

- *The list.* `TypeOK /\ VaultIsNewest` is inductive for `RingVault`: a push shifts
  the list by one against the history of pushes, a trim keeps a prefix that still
  reaches the cap. Every step of the webhook is a push, a trim, a loss or none of
  them (`StepIsRingStep`), whatever failed, so the theorem carries over. The audit
  log uses the same ring and the same theorem.
- *The alert history.* A step of the webhook maps to a step of `AlertHistory` or to
  none (`StepIsHistoryStep`). That an alert is recorded only after it was streamed is
  `StreamedFirst`, that it comes after the earlier ones of its request `OrderKept`,
  both below; a push shows the new alert and drops the oldest also when the list
  is still too long by alerts that wait for their trim, and a trim is invisible
  because the list cut to the cap is the same before and after.
- *Bodies.* Each reading is shown to return what stands at certain places of the text,
  in order (`ReadFrom`): those before the first damage, or those with a line to themselves. The line-by-line reading is a recursive function: that it
  exists (`LoopExists`) and has read the values of the first `n` lines for every `n`
  (`LinesAreRead`) is induction, done by the least `n` of which it is not true
  (`LeastOf`, from the well-foundedness of the naturals), since the library's induction
  theorems cannot be used here.
- *Stored means streamed.* `StoredWasStreamed` alone is not inductive: LPUSH adds an
  event whose publication lies in the past. `StreamedFirst` adds that the current
  event of a handler at LPUSH or LTRIM is on the channel.
- *Order.* `OrderKept` adds to `BatchOrderKept` that all events of a request already
  on the channel or in the list come before those its loop has still to handle, the
  current one excepted once its command was sent.
- *Overflow.* Each push without a trim is either waiting in a handler (`InTrim`) or
  counted by the ghost `untrimmed`; moving between the two keeps the sum.
- *Eviction.* By `OrderKept` all that was pushed for a request comes before the event
  its handler is about to push, so that event is new: what was pushed and is gone is
  never pushed again, and no other step adds to the list.
- *Counters.* `CountInv` compares `count[d]` with the finished events of `d` that are
  on the channel; a count grows only when an event already streamed leaves `todo`.
- *Streaming.* Each step of `ThreatStream` is a step of `ThreatVault` or leaves its
  variables alone (`StepIsVaultStep`): a webhook command that finds no connection is
  one of the vault's failures. So every theorem about the vault carries over.
- *Pool.* `PoolInv` adds to `PoolAccounting` that the set of holders is finite, so that
  taking and giving back move `Taken` by one; the leak moves a holder to `leaked`.
- *Feeds.* `FeedInv`: what a browser got and what its subscription still holds are one
  `Run` of the channel, from the point of its subscription. A publication extends the
  run of those who listen and leaves the others' as a run of a longer channel; what is
  lost, is lost from the end. `LiveFeedIsComplete` is part of the invariant: only a run
  that reaches the end may be extended.
- *Audit.* `GuardedWrites`: a request at the endpoint has passed the gate.
  `TrueLog`: the outcome a request is about to log is true of what it performed, and
  `performed` only grows. `LoggedOnce`: an entry's request is past its push, which
  it never comes back to. `CompleteLog`: between the answer being decided and the
  push the recorded outcome is the answer.
- *Session.* Lock and timers: `Orderly` numbers logins below `nextLogin` and ties
  the login an open prompt waits for to the ones under way; `TimersAtHome` says that
  the timers are of the panel on the page. `ActionsRunOnce` counts: an action has been
  run at most as often as logins strayed with it (`Strays`), plus one that is used up
  unless the action still waits (`Waiting`); each step moves at most one between them
  (`RunsPaid`). The closure is the difficulty: a login carries the action that was
  pending when its prompt was submitted, not the one that is pending at the answer.
- *Editors.* Two invariants. `LinesInv`: as long as no detail came late (`Calm`) the
  details under way are those of the open editor (`EditorCalm`), and the lines in the form, in
  an action that waits or that a login carries (`HeldCalm`) and in a sent save
  (`SavesCalm`) are of the object itself or typed. `TurnsInv` counts: of the saves
  under way, the logins without their prompt, the save that waits and the logins that
  ever went on without their prompt (`InTurn`). The first three are together at most one
  more than the last, and at most as many while nothing is being saved
  and the session is open; a login that loses its prompt moves both sides, a login
  that is answered turns itself into at most one save. Without the case distinction
  on "saving" the count is not inductive: Save is only disabled while the flag is up,
  and the flag goes down with the first of two saves.
- *Diagnostics.* `PodsAreCreated` ties each pod to the stage of the endpoint that
  created it; `RequestsAreTrue` says of the tests sent what the results say later.
- *Assistant.* `ThisConversation` adds that at most one request is under way and that
  the messages on the page belong to the conversation, the first excepted when it
  is a late answer. Keeping the last `MaxContext` messages only ever drops from the
  front, so the exception stays first.
- *Feed.* `SocketInv` adds that the counter is 0 while a socket is in use
  (`Uncounted`): with it the guard of the retry always holds, which is why nobody is
  stranded. `ListInv` is the shape of the list: live alerts by descending id, then
  history.

- *Fetching.* `LabelInv` relates each source's label to what it shows (`Fits`), whatever
  jobs are under way: an answer sets both in one step, a failed job sets labels to
  "error" only, and sources without a label are never live nor mock.
- *Page.* `PageInv`: the tab "threats" is active only with the stream, and a section's
  view is one of its own panels (`OwnViews`). `Fed`: a panel under the tab it belongs to
  has subscribed, and a pause is only there with the threat panel; every control that
  shows a page keeps both (`ShownIsFed`). The panel a section opens with is under its tab,
  unless a card named the section instead (`FirstPanelIsUnderItsTab`).
- *Network section.* `NavInv` follows each place that was left (`Leads`): in
  the saved state while the policies are shown, then in the animation frame, then in the
  container, or `squeezed`; that the clean-up of an earlier run of the effect does not
  cancel the frame is the part `hooked = FALSE`. `Linked` says that a link back is only
  shown with a place behind it.
- *Graph.* `GraphInv`: once the nodes are listed, whatever machine a pod is on, or is
  listed on, is in the list or has moved since.
- *Diagram.* Each rectangle is placed by a formula in its row, its place in the row and
  its index; boxes of a row are apart because they have one width, rows because the
  first is as tall as its tallest box (`TallestFacts`), elements of a grid because
  quotient and remainder of their indexes differ (`GridFacts`). That a tallest box
  exists is induction over the length of a row, again by a least counterexample.

- *Counting down.* For each component whose liveness TLC checks, or whose steps could
  lead in a circle, a measure in the naturals: commands and events still ahead
  (`RequestsCountDown`), passes of the tool loop (`QuestionsCountDown`), stages and polls
  (`TestsCountDown`), sources still awaited (`FlagsFollowJobs`), steps of the gate
  (`RequestsGoForward`). Every own step lowers it and nobody else's raises it; of a webhook
  request it is also shown that there is a command to run until it has ended. This is the safety half of `EveryDeliveryEnds`,
  `EveryQuestionIsAnswered` and `FlagsEnd`; that an enabled step is taken is the
  fairness, and stays with TLC.
- *Exact conditions.* Each finding is a claim the code does not keep; four theorems say
  when it does (`CleanBodiesAreRead`, `EveryLossIsRetried` for the cause,
  `CalmEditorsShowTheirs`, `PanelsUnderTheirTabSubscribe`), so that the
  counterexamples are the only kind there is.
- *Selectors.* Parser and grammar are two recursive functions in opposite directions: the
  parser's entry for a token is made of the entries for later tokens, the grammar's for a
  stretch of those for shorter stretches. That both exist is shown once each
  (`ParserIs`, `GrammarIs`), with functions that satisfy the equation on a part and a least
  part without one. A test is read as it says (`TestsAreRead`), and each stretch that
  says something as a test is read to its end (`TestsAreFound`); then soundness, that
  what the parser returns is a reading of the tokens it passed (`ParserIsSound`), goes
  by the last token it fails for, and completeness (`ParserIsComplete`) by the
  shortest stretch. Completeness needs what may follow: a unary is read to its end
  whenever a connective, a closing parenthesis or nothing follows, a chain of `&&`
  unless another `&&` follows, and so on, which is why a greedy parser without
  backtracking misses no reading. Since the parser returns one node, the grammar is
  unambiguous, a statement that is nowhere put into its rules.

What stays with TLC: liveness under fairness (`EveryDeliveryEnds`,
`AlertReachesClient`, `GoneIsReleased`, `FeedComesBack`, `FlagsEnd`, `CatchesUp`,
`EveryQuestionIsAnswered`) and `ENABLED`, which are out of the provers' reach. Every
safety property of the passing runs is a theorem.

## Findings

1. **Leading white space** (`falco_lead`). `raw_decode` starts at offset 0 and does
   not skip white space, so an NDJSON body of two or more values that starts with a
   newline is read as empty and answered 422. `CleanBodiesAreRead`: no other undamaged
   body is read otherwise than as its text.
2. **Reconnect cap** (`client_capped`). `connectWebSocket` resets the counter on
   each attempt, so `MAX_RECONNECT_ATTEMPTS` never takes effect and the delay
   stays at its first value. `EveryLossIsRetried` holds for that very reason.
3. **Editors mixed up** (`config_mixup`). The detail of an object whose editor was
   closed arrives late and fills the editor of another; Save then writes one
   object's values to the other. `CalmEditorsShowTheirs` and `EditorsKeepApart`
   prove that nothing else mixes them.
4. **Panels that never fetch** (`page_panels`). `useTabSubscription` waits for an
   active tab that the views of the sections never set.
   `PanelsUnderTheirTabSubscribe`: under the tab of its own every panel fetches.

## Remarks

Behaviour the models show that contradicts no sentence of the repository, or that
lies outside what they check:

- For an event whose `rule` is a list or an object, `rule in _NOISY_RULES`
  (`backend/routers/threats.py:146`) raises, and it stands before the `try`: the
  request is answered 500 and the events after it are lost.
- Of a body that begins with damage a line with two values is skipped as a whole, while
  later lines are read.
- When the pool of 20 is used up, `get_threat_history` answers an empty feed
  although Redis is up.
- The reconnect timer is not cancelled at unmount and opens a socket nobody closes; a
  page left without one stays closed (`LeftPagesStayClosed`).
- A performed and answered write leaves no audit entry when LPUSH fails
  (`AnsweredWriteIsLogged` has `redisSteady` as its condition).
- A login answered after its prompt was dismissed runs its action again, or drops
  the one pending by then; a cancelled prompt leaves its action behind for the next
  login. `RunsOnce` bounds the damage by the number of such logins. In the editors two
  saves may then be under way at once, although Save is disabled during one.
- Token and flag survive the panel, its timer does not: the next panel says "Read
  Only" while writes go through without a prompt, and no timer ends that session.
- The result line of a connectivity test shows the port of the form, also when the
  endpoint resolved another; "Tests Run" counts lines of the log.
  `ttlSecondsAfterFinished` is not a field of a pod, so a pod left behind stays.
- Through the sub-navigation the scroll position is restored every other time; a
  policy of a name used twice opens the first. A position restored into a table that
  has become shorter is clamped, as the comment at `NetworkSection.tsx:73-76` says.
- The dashboard's cards for IP pools, policies and edges lead to the overview of the
  network section; the threats card leads to a panel that says "Connecting to threat
  stream..." while nothing connects.
- An error stays in the boundary when another section is opened, until Reload.
- `get_cni_topology` says "Fetch all resources in parallel"
  (`backend/services/calico_service.py:351`) and lists them in turn; the graph may
  then lack a machine, and one missing end makes the diagram an error message.
  `EdgesHaveEnds` exempts an edge to a BGP peer as a whole, since the peer may name a machine
  that is not in the cluster.
- Cytoscape sizes a compound box by its children, so a box full of pods may be drawn a few
  pixels larger than `computePositions` takes it to be; `DiagramIsClear` is about the computed
  ones.
- `calico_selector_matches` lets an empty selector match everything, the coverage
  report lets it select nothing (`Selected`) and does not report it; a selector of white
  space selects everything in both. `in {'a' 'b'}`
  without commas and with a trailing comma parses, and so does `'all'()`.

## What is not modelled

- The content of alerts and entries, signatures (a request is refused or not),
  rate limiting as a mechanism (a refused request), timestamps, logging, HTTP
  framing.
- The server's expiry of a token: an expired token is a bad credential in
  `SuperUserAudit`. Back-off delays and the 15 minutes: a timer fires at any time.
- The manifests `config_service.py` builds; a write is one Kubernetes call.
- How a selector string is cut into tokens, and the rule digests of
  `policy_engine.py`, which count and format what `Selected` selects.
- IPAM, RBAC and pod listings: single reads that are reshaped and returned. Live,
  mock or error is decided once per request; its outcome is an input of
  `DashboardFetch`.
- In the browser: zoom, keyboard and tooltips of the diagram, its inventory list, the
  search fields of the impact and the threat panel, the read-only configuration
  tables, IPAM, health, coverage and RBAC tables, icons: rendering, sorting and
  filtering of data the context holds.
- Metrics scraping, client construction and CA files, manifests and `nginx.conf`:
  I/O and library configuration with little state of their own.
- How FastAPI resumes a `yield` dependency after a 422, how browsers order the
  `error` event of a closing socket: both are left open.

## The plan

Done: the threat pipeline with its browser end; gate, audit log and session; the
editors; assistant; diagnostics; dashboard fetching; navigation; topology;
selectors; proofs of every safety property of the runs.

Next, in this order:

1. `SuperUserSession` composed with `SuperUserAudit`, with the server's expiry next
   to the browser's timer.
2. The digests of `policy_engine.py` and the IPAM numbers as operators, each against
   a reference definition, in the run with the parsers.
3. A second extra source and a second background refresh in `dashboard_fetch`, if
   liveness stays within reach.
