# ClawBotManager in TLA+

ClawBotManager runs AI bots as Docker containers. Its backend (`src/apps/api`) is one
NestJS process: HTTP handlers, cron jobs, Docker event handlers and WebSocket callbacks
share an event loop, PostgreSQL (Prisma), Redis, the Docker daemon, the file system and a
few maps in memory. There are almost no transactions and no locks: every `await` is a place
where anything else may run, and where the process may die.

The specifications here model the parts whose correctness depends on that. A step of a
model runs **from one `await` to the next**. What the code reads before an `await` and uses
after it is a local variable of the request in the model; a write by id that does not look
at what is stored is an unconditional write in the model.

## 1. The system

### Components, their state and how they interact

| Component | State | Operations | Hard because |
|---|---|---|---|
| Bot lifecycle (`bot-api.service`, `docker.service`, `docker-event.service`, `health-check.service`, `reconciliation.service`) | `Bot` row (status, containerId, soft deletion), containers in the daemon | create, configure, start, stop, delete, list, event handlers, stuck-state cron, startup reconciliation | six writers of one status column, containers outlive the process |
| Ports and orphan cleanup (`bot-api.service`, `docker.service`, `workspace.service`) | ports and hostnames of rows, containers by name, workspaces, OpenClaw data, secrets | createBot, createBotSimple, startBot, stopBot, deleteBot, cleanupOrphans | choose from a list, write later; one user's list decides about shared resources; a removal may fail half-way |
| Health statuses (`health-check.service`) | `healthStatus`, a map of failure counts in memory | checkAllBots every 30 s, handleStuckStates every minute | a round works on the list it read at its start, and two jobs write one column |
| Pending configuration (`bot-api.service`) | a bot's settings and `pendingConfig` | updateBot, clearPendingConfig, applyPendingConfig, startBot | merge, copy and clear are separate queries |
| Bot providers (`bot-api.service`, `bot-config-resolver.service`) | `BotProviderKey` rows | createBot's loop, addBotProvider, removeBotProvider, deleteProviderKey, startBot's resolution | one primary per bot kept by three queries; key and vendor are looked up one after the other |
| Key proxy tokens (`keyring-proxy.service`, `proxy-admin.controller`) | `ProxyToken` rows, the token hash of the row, what a container was created with | registerBot, revokeBot, deleteByBotId, admin register, validateToken | read, delete and insert in three queries; fallback to the real key |
| Proxy pipeline and quota (`proxy.service`, `keyring.service`, `upstream.service`, `quota.service`) | round-robin indices, usage log, messages to users | one call through token, key, vendor, route, upstream, log, quota check | values computed before a later step replaces what they came from; unawaited checks |
| Complexity routing (`configuration.service`, `bot-complexity-routing.service`, `routing-admin.controller`, classifier) | configurations in a table, a copy of the first enabled one in memory | create, update, delete, refresh, the refresh timer, routeByComplexity | a call uses both the copy and the table |
| Model routing (`model-router.service`, `model-routing.service`) | `BotModelRouting` rows, round-robin index per routing | routeRequest, testRoute, executeWithFailover, create, update and delete of routings | index in memory, targets in the database |
| Feishu channels (`bot-channel-api.service`, `bot-channel-startup.service`, `feishu-client.service`, `feishu-sdk.client`) | `BotChannel` rows, map of connections, open WebSockets | create, update, connect, disconnect, delete, startup with retries | row, map and socket are three records of one fact |
| Feishu messages (`feishu-message-handler.service`) | ids of handled messages with a lifetime | one handler call per delivery | Feishu delivers at least once |
| Streaming speech recognition (`streaming-asr.service`, `volcengine-streaming.provider`, session guard) | a session in memory and its record in Redis, a connection with a buffer, sockets, heartbeats, attempts | connect, sendAudio, results, heartbeats, reconnect, poll, ping, complete, cancel, the sweep, restart | callbacks of sockets, timers and Redis that nobody orders |
| Authentication, mail, skills, files, accounts, catalogue, RabbitMQ, web client | one row or key per call | create, read, update, delete | see "Not modelled" |

Interactions: startBot and createBot call the key proxy (`registerBot`), then Docker;
deleteBot calls Docker, the key proxy, erases channels and then the row. Docker calls back
through its event stream. A container calls the proxy with the token it was given. Feishu
calls back through sockets that the channel service opens; the handler asks the bot's
container and answers through the same client. Model routing and `startBot` read the bot's
providers, which name provider keys that can be deleted under them. The proxy asks
complexity routing for a model, and the key of the model's vendor. `PROJECT.json` lists every
component with its sources and its status, and every hazard with the line where it bites.

### What makes each component correct

- **Lifecycle**: a row's containerId is a container made for that row; deleteBot leaves no
  container; nothing stays `starting` for ever; whatever late events wrote, the status comes
  back to the container's; after a restart nothing is reported running that is not.
- **Resources**: bots of a user share no name, port or memory; cleanup removes what no bot
  has, and only that.
- **Health**: unhealthy takes failures in a row or a start that was given up, and the column
  becomes right.
- **Settings**: what a user saved is in force or pending, and a start puts all of it, and the
  key last made primary, into the container.
- **Key proxy**: a bot's container never gets the real API key; an erased bot has no usable
  token; a token that stopped being accepted is never accepted again; a call goes out only for
  an accepted token, with a key of the vendor called or routed to, and is logged; the keys of a
  list take turns; a limit that is reached is told.
- **Complexity routing**: a call is classified by the configuration its model comes from; a
  harder request gets no weaker model; memory comes back to what the table says.
- **Channels and messages**: CONNECTED means a socket is open; a channel has one socket;
  startup decides every enabled channel and ends; a message is acknowledged in the end and
  not answered twice.
- **Routing**: the index points into the list; every target has its turn; failover gives up
  only when every attempt at every target failed.
- **Speech**: one socket per break; audio arrives once; a client is shown the end and never
  loses text it was shown; sessions leave memory.

## 2. Modules

| Module | Models | Variables and the code they stand for |
|---|---|---|
| `BotLifecycle` | bot rows, containers, requests, events, cron, reconciliation | `row` the Bot table; `ctr` the daemon; `req` requests in flight with their pc and locals; `ev` calls of `handleContainerEvent` in flight; `stream` the event stream; `cron` rows `handleStuckStates` has listed; `boot` reconciliation's snapshot and progress |
| `BotResources` | hostnames, ports, directories, cleanup | `row` the Bot table; `box` containers by name; `dirs` workspaces and secrets; `memory` whose conversations the OpenClaw directory of a hostname holds; `req` the request under way |
| `HealthCheck` | rounds of probes over any set of bots, and what `handleStuckStates` writes in the same column | `health` the column; `fails` the map of counts; `round` rounds under way; `stuck` bots listed as overdue and not yet written; `streak` a history of failures in a row. The bots are parameters (`running`, `existing`, `answering`, `overdue`) |
| `BotFleet` | `BotResources` with `HealthCheck` over its rows and containers | adds what makes a container hang and a start overdue |
| `BotProviders` | provider rows and the primary flag | `link` rows, `keys`, `req` requests, `born` whether createBot ran, `asked` a history of the key last made primary |
| `PendingConfig` | a bot's settings, as requests save, discard and apply them | `row`, `pending` the two copies; `req` requests; `want` a history of what users saved and did not discard |
| `BotSettings` | startBot from `PendingConfig` and `BotProviders` to a container | `box` what the container was created with; `run` what a start has looked up |
| `ProxyToken` | tokens from registration to deletion | `bot`, `keys`, `tok` the tables; `issued` tokens generated; `hash` the row's proxyTokenHash; `env` and `secrets` what a container and its directory were given; `req` requests |
| `TokenLease` | what a bot is promised of its access to the key proxy | `lease` of each holder, `granted` those used up |
| `ProxyPipeline` | calls of a container through the proxy, over `ProxyToken` | `call` a call with its pc and locals; `index` the round-robin indices; `log` the usage log by call; `sent` messages by kind, bot, period and day; `uses` a history for the turns of keys; `day` |
| `ComplexityRouting` | configurations, their copy in memory, and the model of a call | `table` rows; `engine` what memory holds; `req` administrators; `timer` the refresh; `listening`; `keys` the bot's keys; `call` calls |
| `ModelRouter` | routings, round-robin index, failover | `row` routings, `keys` provider keys, `lb` the index, `round` a history of whose turn it was, `req` requests |
| `FeishuChannel` | rows, connections, SDK clients, sockets | `row` the table; `conn` the map `connections`; `client` each client's `isStarted` and WSClient; `sock` the WSClients; `proc` requests and the startup service; `boot` what startup has left |
| `ChannelLines` | what users are promised of the lines of their channels | `open` the open lines of a channel; `shown` whether it is taken, has a line or none; `orderly`, `steady` the environment |
| `FeishuMessages` | deliveries and handler calls | `seen` the set of handled ids, `unacked` what Feishu redelivers, `call` handler calls, `replies` what the chat saw, `running` the bot |
| `MessageDelivery` | what a user of the chat is promised | `state`, `answers`: a message is answered or dropped, for good; `reliable`: whether an answer can be repeated |
| `AsrSession` | a session in memory and its record | `sess`, `store`; `cmds` commands on their way to Redis, answered in order; `told` what the client was shown; `since`, `over`, `timer`, `finished` |
| `AsrConnection` | the connection to the provider | `conn` status, buffer, retry count; `sock` sockets; `att` attempts to connect; `task` calls of `sendAudio` and flushes; `greeting`, `inbox` callbacks not run yet; `beats` the heartbeat; `heard` what the provider heard; `torn` packets on their way when a socket broke |
| `StreamingAsr` | the two together, with client, sweep, crash and shutdown | none of its own |

Each `MC*` module instantiates one of them for TLC; each `*_proofs` module holds the theorems of
the module it is named after and of the modules that one is composed of (`PendingConfig` and
`BotProviders` in `BotSettings_proofs`, `BotResources` in `BotFleet_proofs`, `ProxyToken` in
`ProxyPipeline_proofs`, `AsrSession` and `AsrConnection` in `StreamingAsr_proofs`);
`Feishu_proofs` holds those of `FeishuChannel` and of `FeishuMessages`. In every module an
action carries the name of the operation, or of the step of it, that it models; the comment
above it names the code, and the `map` of `PROJECT.json` gives the lines.

Composition: `BotFleet` instantiates `HealthCheck` over the rows of `BotResources`;
`BotSettings` extends `BotProviders` and instantiates `PendingConfig`; `ProxyPipeline` extends
`ProxyToken`; `StreamingAsr` extends `AsrConnection`, which extends `AsrSession`. Both Feishu
modules extend `FeishuWorld`, the environments they share. Refinement: `FeishuMessages`
implements `MessageDelivery` (`DeliveryHolds`), `FeishuChannel` implements `ChannelLines`
(`LinesHold`), `ProxyToken` implements `TokenLease` (`TokensAreLeases`), and `BotSettings`
implements `PendingConfig` (`KeepsToConfig`); all four are checked and proved. The mappings:
a bot's lease is its token while `validateToken` accepts it (`Granted`); a channel's line is its
open WebSocket, and `Sight` says what is to be seen of it, which while a request or the startup is
busy with the channel is only that.

### How the code's awaits became steps

- *BotLifecycle.* `startBot` is mark → inspect → stop old → remove old → clear the name →
  create → launch → record the id → finish, with `fail` reachable from every Docker call.
  `handleContainerEvent` is called without `await`, so each event is a looked-up handler in
  a **set**: handlers finish in any order. Kill and die of one stop are one handler
  element, since both write the same value. Docker events between the loss of the
  stream and its reconnection do not exist. `Crash` empties every variable of the process
  and keeps rows and containers; `ReconcileKeys`, `ReconcileBot` and `Listen` are
  `onModuleInit`, which NestJS awaits before it listens. Container ids are handed out in a
  fixed order (`FreshId`): they are interchangeable until they are handed out. The daemon
  refuses to start a container whose host port another one has (`PortTaken`), and startBot
  leaves it behind, created and not recorded.
- *BotResources.* The same requests, by ports, names and directories: list the ports, choose
  one, create directories, create the container under its name, launch, record. `Pass` is
  what each of the three passes of `cleanupOrphans` finds, and `RemoveOrphan` one removal.
  Requests of this module come one by one; overlapping ones are `BotLifecycle`'s subject.
- *HealthCheck.* A round is the listing, then per bot the probe, the `getById`, the `update`;
  beside it `handleStuckStates` lists (`ListStuck`) and writes (`WriteStuck`), which in `BotFleet`
  is one write of status and health (`TimeOut`).
- *PendingConfig, BotProviders, BotSettings.* One step per query.
- *ProxyToken.* Every query of `registerBot` (check the bot, check the key, read the existing
  token, delete it, insert the new one) is a step, `StoreHash` is the update of the row, and
  `FallBack` is the `catch` that decrypts the provider key and creates the container with it.
- *ProxyPipeline.* Token, key of the token, bot, route, list of keys, turn, send, answer or
  timeout, log, and then the quota check: bot, usage of that bot, look for a message, send it.
  Only the index is advanced without an `await` after the list was read. A crash ends every
  call and every check under way (`LoseCalls`) and sets the indices back.
- *ComplexityRouting.* A refresh is a listing and an assignment; an administrator's change is
  a read, a write and a refresh; a call reads one key after the other, then the table, and
  takes the classifier from memory when the row has arrived.
- *ModelRouter.* `updateRouting` is the write and, a step later, the reset of the index;
  `routeRequest` is the listing, the choice and the resolution of the key.
- *FeishuChannel.* `createConnection` and `connect` are separate steps, and `connect` looks
  the connection up again, as in the code. `WSClient.start` is the step in which another
  request may meet a client that is not yet `isStarted`.
- *FeishuMessages.* The mark is set before the first `await`; the reply, the acknowledgement
  and the expiry of the mark are steps of their own.
- *AsrSession, AsrConnection.* Every callback of a socket, timer or Redis is a step. A command
  is executed and answered in one step, in the order of sending. Unpacking a message and
  packing audio are delays in which other callbacks run.

### Environments

Every specification has a variable `world`, which no step changes: a record that says what
its environment may do. `Init` picks it from the constant `Worlds`, so that one run checks a
property in several environments, and a theorem holds in all of them. `serial` says that
users wait for one mutating request before they send the next; it restricts users and never
the code: event handlers, crons, polling and crashes go on. `faults`, `deaths`, `drops`,
`crashes`, `slow`, `hangs` let calls fail, containers exit, the event stream break, the
process die, a call outlast its timeout, a container stop answering. The other fields choose
what users do (which bots they create, which requests they send). A property that needs an
environment says so in its own antecedent (`Serial /\ ~Faults => ...`), in the weakest one in
which it holds. `vars` leaves `world` out, since it is what steps may change; `Spec` keeps it
constant. (`PendingConfig` has its two switches, `serial` and `faults`, as variables of its
own, which `BotSettings` maps to its world.)

## 3. What the runs check

`b`, `k`, `c`, `r`, `t` count bots, keys, containers, requests and tokens. The environments
are the operators of the MC modules that the `.cfg` names.

| Run | Instance and environments | Shows |
|---|---|---|
| `lifecycle` | 2 rows of one hostname, 2 c: serial requests with dying containers; with crashes; on one row with both; bots of two users on one port, without and with crashes; 2 overlapping r that start, stop and delete one bot with slow starts and crashes | `RecordedContainerIsOwn`; `ReconciledRunningIsReal`: a bot that startup reconciliation leaves as running has a running container, while Docker answers; `NoContainerAfterDelete`; `NoStartFailsAlone`: while Docker works a start fails only over a port that another bot's running container has, never over what a crash left under its name |
| `lifecycle_progress` | 1 b, 2 c: Docker faults, slow starts and crashes; serial requests beside a polled list with lost events (and no deletes) | `StartingResolves` (liveness); `PollingConverges` (liveness): when users stop, every status but `error` becomes its container's |
| `fleet` | 2 b of one user with cleanups, and crashes or failing removals; 3 b of one user with crashes and of two users; one round of probes beside starts that are given up, with crashes and hanging containers, on 2 b, and with faults too on 1 b; two overlapping rounds on 1 b | `BotsShareNothing`; `CleanupRemovesOrphans` (both directions); `UnhealthyIsEarned`; `HealthConverges` (liveness) |
| `settings` | provider rows of 3 k of 3 vendors; 2 k, 2 settings and starts; 1 r after the other, without and with failing queries and crashes | `PrimaryIsNewest`; `NoUpdateLost`; `StartUsesSettings`; `ContainerAsksItsVendor`; `KeepsToConfig` (refinement of `PendingConfig`) |
| `proxy` | 2 b one by one, with admin calls and crashes; 1 b with 2 overlapping r, faults, crashes and admin; 2 calls of a bot's container while the bot is started, stopped and deleted: with routing over 3 k of 2 vendors, with admin calls, in direct mode over 3 k with crashes, of 2 b over midnight, with faults | `ZeroTrustHolds`; `TokensFollowBots`; `KeysGoWhereTheyMay`; `KeysTakeTurns`; `ForwardedIsLogged`; `LimitIsReported`; `TokensAreLeases` (refinement of `TokenLease`) |
| `complexity` | 2 rows, 2 settings, 4 models, 3 k: one administrator at a time with crashes and calls; failing queries and deleted keys; 2 overlapping administrators, without and with failing queries | `ClassifierBelongs`; `HarderGetsStronger`; `RoutingConverges` (liveness) |
| `router` | 2 r, lists of 2 and 3 targets, rules, a failover of 2 targets and 2 attempts: writers alone on 2 routings; everything at once on 1 with faults: rules with no key or with a first key, a failover with a first key or with a primary key | `IndexInRange`; `EachTargetOncePerRound`; `FailoverEnds` (liveness): every request ends, failover only after every attempt |
| `channel` | 3 clients, 3 sockets, failing connections: 2 channels one request at a time, without and with crashes; 1 channel with 2 overlapping r and crashes | `SocketsAreTrue`; `StartupSettles` and `DeletedBotCloses` (liveness); `LinesHold` (refinement of `ChannelLines`) |
| `messages` | 2 messages, 3 calls, faults: a reliable process, and one that crashes and outlasts its marks | `NoDoubleReply`; `DeliveryHolds` (refinement of `MessageDelivery`); `AllFinished` (liveness) |
| `asr` | 1 session, 2 texts, 3 packets, 2 attempts to reconnect, a buffer of 3: what clients and restarts do to the session; what breaks, refusals, silence and reordered callbacks do to the connection; audio one by one and all at once over breaking sockets | `SocketsFollowBreaks`; `EndIsShown`; `SeenSurvivesRestart`; `AudioArrivesOnce`; `SessionsLeave` (liveness) |
| `claim_orphans` | 2 users with a bot each | the violation described below |
| `claim_restart` | the session worlds of `asr` | the violation described below |

Where a property is a conjunction (`TokensFollowBots`, `KeysGoWhereTheyMay`,
`BotsShareNothing`, `CleanupRemovesOrphans`, `PrimaryIsNewest`, `SocketsAreTrue`,
`IndexInRange`, `StartupSettles`, `FailoverEnds`, `SocketsFollowBreaks`, `AudioArrivesOnce`),
its parts are stated, named and commented right before it; the type invariant of a module is
a part of one of them or, in `BotLifecycle`, `FeishuMessages` and `ComplexityRouting`, proved.

Two runs check a sentence of the repository, and TLC finds a behaviour of the code that
contradicts it, in an environment in which nothing fails:

| Run | The sentence | What happens |
|---|---|---|
| `claim_orphans` | docker.service.ts:908, orphans are "containers without corresponding database entries" | `cleanupOrphans` passes the isolation keys of the calling user's bots only (bot-api.service.ts:1045): every other user's containers, workspaces and secrets are removed |
| `claim_restart` | streaming-asr.service.ts:1120, the record is kept so that a restart loses no text | `onModuleDestroy` runs `forceCleanupSession` on every session, which deletes the records (:1214): only a crash leaves them |

### Where the code does less than one may think

The following is in the models, and is why the properties above carry the conditions they
carry.

- *Overlapping requests.* Two `addBotProvider` leave two primaries; an index of a longer list
  is past the end of a shorter one when `updateRouting` overlaps, and one moved on by a list
  of another length takes a target twice in a round; two connects of one channel dial two
  sockets, of which one is never closed; two `registerBot` of one bot make one throw, and the
  fallback puts the real key into the container; a start under way inserts a token
  after `deleteByBotId`; two updates of one bot can lose a pending setting.
- *Events and crons.* Late handlers of an old container mark a running bot as error or
  stopped; `handleStuckStates` overwrites a bot that became running after the listing; a
  container started right before a crash is removed by name at the next start and not
  connected to its row. Failure counts survive a stop and a start; rounds that overlap count
  one bot's failures twice.
- *Ports.* Ports are kept apart per user, and Docker binds them on one host: of two users'
  first bots only one can run. The other's start fails with everything in order, and leaves
  a container behind that was created, never ran, and is recorded nowhere: it outlives
  deleteBot, until the next start of the name or a cleanup.
- *Bots.* createBot marks every key of the primary vendor as primary. `soul.md` is never
  written again after creation. OpenClaw data of a hostname survives cleanup, and a deletion
  that failed to remove it shows it to the next bot of that name. deleteBot leaves Feishu
  sockets open until the next message.
- *Proxy.* Complexity routing replaces key, base URL and API type (proxy.service.ts:227-233)
  after the vendor configuration was taken (:199): a routed call takes the new vendor's key out
  with the old vendor's form of authentication and, where neither the routing target nor the
  key has a base URL, to the old vendor's host. A token is accepted for 24 hours and as long as its provider key exists; after that
  a running container is refused until its bot is started again. Lists of keys have the keys of
  a vendor, whoever they belong to, and a selected provider key is not used
  (`selectKeyForBot(vendor, [])` takes the vendor's next). A call that read the list before a
  key was added or deleted moves the shared index by the old length, so that the turns of the
  new list start anew. A quota notice is looked for as NOTIFICATION and created as SYSTEM, so
  that it is repeated; a check that spans midnight may report a limit of a new day; a check
  that a crash took is made up for only by the bot's next call.
- *Complexity routing.* A refresh that listed before a change and ends after it puts the old
  configuration back for up to five minutes. A configured "gpt-4o" is taken to be available
  when "gpt-4o-mini" is and is listed first. What memory holds of models and of whether
  routing is on is used only by `selectRouteWithComplexity`, which has no caller.
- *Speech.* A failed attempt starts a second chain of attempts, from its own catch and from
  the close of its socket; a failed first connect goes on reconnecting with nobody owning it;
  a disconnect during a reconnect leaves an open socket of a deleted connection. Audio that
  a client sends during a flush overtakes the buffer, the buffered last packet loses its
  flag, a socket that breaks in a flush loses the rest of the buffer, and with a final result
  or a failed attempt in between a packet may be sent twice. A last result that comes in on a
  connection whose heartbeat timed out makes later audio begin an attempt beside that of the
  close: two sockets. A completed or disconnected connection accepts audio
  and never becomes active again. A reconnected socket that is closed normally tells nobody.
  A save that arrives after the sweep has deleted the record brings the record back, and a
  client's poll then the session: it is shown as active, though its connection has ended.
  A result saved after a deletion brings the record back. A meeting longer than four hours is
  never cleaned up. The service is imported by no module of the application.

### Why the bounds are enough

- Two requests in flight show every pairwise race; no handler waits for two others. One
  request with `Serial` is enough where requests do not overlap, because events, crons,
  polls and reconciliation are not requests. `BotResources` has one request at a time by
  construction, and its crashes end it at any step.
- Two containers are a bot's old one and its new one. Two rows that share a hostname are the
  only way in which two rows meet at one container name: a name is reused when its bot is
  erased. A third row, of another user and with a name of its own, is the least that can take
  a port away. Container ids, tokens, SDK clients and sockets are used up and bound how often a
  run creates something; three or four allow a creation, a replacement of it by one request
  and another replacement by an overlapping one. Where none is free the request waits.
- Three bots and two hostnames of a user give a name a second and a third owner, and a port a
  gap. `Threshold` is 2 where the code says 3: the least at which "in a row" means something.
- Two attempts and two targets are the least in which "next attempt" and "next target"
  differ. Lists of two and three targets make an index outlive a shorter list; the third
  target of the longer list is the first again, so that positions and targets differ.
- Two calls are the least that share an index and cross a limit together; a warning at 1 and
  limits of 2 are reached by the first and by the second. With 2 bots, one's calls must not
  count for the other. Where requests overlap beside everything else, three tokens are enough
  for a registration, one that replaces it and one that comes too late. Indices are counted modulo
  `Wrap` = 2, a multiple of the length of every list of an instance.
- Two configurations of which one is older, both on or off, with different classifiers, and
  five levels with scores on both sides of every minimum.
- `MaxReplies` bounds only the counter of replies: a third copy of an answer is one more
  than the second that a crash or a late delivery makes possible.
- `MaxRetries` is 2 where the code says 3: one retry that fails and a last one. A buffer of 3
  holds all packets of an instance, so that nothing is dropped because it is full.

Symmetry is used only for requests and calls, which are interchangeable, and in no run with
liveness. `CHECK_DEADLOCK FALSE` is set where a system really stops: the ids of the instance
are used up and every request has ended. No run is cut short: TLC exhausts every state space.

### Fairness

- Every step of a request, handler or cron in progress is weakly fair: Node runs whatever is
  ready, and the calls awaited are assumed to end with an answer or an error (a call that
  ends late is what `slow` stands for).
- `StreamConnect` is weakly fair because of its 5 s timer; `CronList`, the rounds of
  `HealthCheck`, the refresh of `ComplexityRouting` and the sweep of `AsrSession` because a
  scheduler fires them; a restarting container because of Docker's restart policy; the
  answers of Redis because a command ends.
- In a polled environment reading the bot list is weakly fair: an open page of the web
  client does it every 5 s. Only `PollingConverges` needs it.
- Feishu redelivers what is not acknowledged (weak fairness of `Deliver`), and messages keep
  coming in for `DeletedBotCloses`, which is true only of channels that are written to.
- No fairness of users' requests, of faults, of crashes or of `MessageDelivery`.

### Assumptions about what is not in `src/`

Read and write clients of the database reach one database, and Prisma accepts null for the
JSON column `pendingConfig`. A user has fewer bots than a page of the list holds (500).
Docker creates directories it is asked to bind, refuses a name or a host port in use, and
does not reuse ids; a container that it restarts by itself keeps its port meanwhile. At most 500
Feishu channels are enabled, since startup reads one page of them. The Feishu library reopens
a socket that breaks (`autoReconnect`), and a socket of the model is open from its start to its
close, whether the library is just reopening it or not. No vendor is called "none". Redis executes commands in the order they were sent. Packing and
unpacking a message of the speech protocol ends before a timer of a second fires, and
microtasks run before callbacks of sockets. Definitions that model such code are marked
`external` in the map.

## 4. What is proved

tlapm checks every proof, for all values of the constants that satisfy the modules' named
assumptions, and so for every set of environments. The assumptions say that keys of bots are
keys, that `None` is not an id, a number or the name of an operation, that environments are
records of their type, with sockets, packets and texts that exist, that there are finitely many
provider keys, routings and rounds of checks, that retries, limits and thresholds are positive
numbers, and that `Wrap` is a multiple of the length of every list of keys (the index is only
ever used modulo such a length). TLC evaluates them in the runs of the same modules.

**Lifecycle** (`BotLifecycle_proofs`)
- `TypeCorrect`: `Spec => []TypeOK`.
- `OwnContainers`: a row never records a container that was made for another row, in *every*
  environment: overlapping requests, late events, faults, crashes. The property is not
  inductive. A request carries the id of the container it made through two awaits before it
  records it, and ids of rows would mean nothing if the daemon could hand the same id out
  twice. The inductive invariant is
  `IInv == TypeOK /\ Labelled /\ InFlight /\ RecordedContainerIsOwn`: containers in use carry
  an owner (`Labelled`), a request at `launch` or `record` holds a container of its own bot
  (`InFlight`). The lemma `Frame` reduces every step that leaves owners alone to its effect
  on rows and requests; the steps that create, launch and record are proved by themselves.
- `StartsSucceed`: `Spec => []NoStartFailsAlone`, for any ports, with crashes, dying containers
  and late events. With `Serial` at most one request changes anything (`Sole`), so what it has
  cleared stays cleared: `OnTrack(r)` says that at `create` nothing has the bot's name, that at
  `launch` and `record` the container still exists, and that at `fail` another's running
  container has the port: no other request stops that one before this one has reported its
  failure, and one that dies is restarted on its port.
- `DeletedLeavesNothing`: `Spec => []NoContainerAfterDelete`, for a process that does not
  crash. Owed to its row is every container that ran and, where no two names share a port
  (`PortsDiffer`), every one that exists (`Owed`). `Tracked` says of every container that it has a home (`Homed`: its row is live and
  records it, or a request between creation and record holds it) and of a deletion that it
  knows the container its row records; a crash between creation and record breaks exactly
  this, and reconciliation does not repair it.
- `ReconciliationIsTrue`: `Spec => []ReconciledRunningIsReal`, with overlapping requests before
  the crash and containers that die during the startup. `Waking` describes the startup: no
  cron is under way, every event is of a container that runs and that the row looked up
  records, the list of keys has those of all containers, and a row still to be synced is as
  listed but for an event of its running container. A listing that fails breaks it: the run
  and the theorem leave that out, and the property does not hold then (a row loses its
  `containerId` and an event in flight writes `running` on it).

**Key proxy and quota** (`ProxyPipeline_proofs`)
- `StaysDead`: `Spec => DeadTokenStaysDead`, in every environment. A token stops being
  accepted by revocation, expiry, deletion or the deletion of its key; the argument is the
  lemma `RowsOnlyDie`: a row that a step leaves valid was valid before or holds a token never
  issued, and no step brings a key back. That an insert takes a token never issued is the
  randomness of `registerBot`. The run checks the stronger `TokensAreLeases`.
- `TokensLeased`: `Spec => TokensAreLeases`, in every environment: the tokens implement
  `TokenLease`. What ends a token ends leases, of several bots at once if their key is deleted
  (`LeasesEnd`); only an insert begins one (`OnlyInserts`, `Inserted`), of a token never issued,
  and only where the bot has no row, for botId is unique in the table: two registrations that
  overlap do not make two leases. `PipelineLeasesTokens` says the same of the composition.
- `ZeroTrust`: `Spec => []ZeroTrustHolds`. The key leaves only through the fallback, and the
  fallback is reached only when a query of the registration is refused. `Provided(r)` says
  that none is: a create or start under way has a live bot, from the check of the key on a
  live key, at the delete the row it read and at the insert no row. This needs that requests
  come one at a time, which is part of `Zero`; expiry and crashes may come in at any step.
- `DeletedHasNoToken`: `Spec => []NoTokenAfterDelete`, from `Zero` and `Tidy`: the row of a bot
  that is gone, or that a deletion has passed, is gone or revoked.
- `ContainersHoldCurrentTokens`: `Spec => []ContainerTokenIsCurrent`, from `Zero` and `Matched`,
  which follows the token from the insert through the write of its hash to the container. What
  it excludes is that a request locks a running bot out; expiry and the deletion of the key
  do, and the property says so. The part about the table leaves out worlds with the admin
  endpoints, which replace and revoke tokens of running bots (`AdminMatched` is the rest).
- `TokensAsSpecified`: `PipelineSpec => Spec`. Calls leave tokens alone, so these theorems hold
  of the composition, which is what the run `proxy` checks; `TokensFollow` is the last two of
  them with the types of the composition.
- `EveryCallIsLogged`: `PipelineSpec => []ForwardedIsLogged`, in every environment: the log has
  one entry of a call from the moment it is over, and none before (`Entered`). What a crash
  does to a call (`CallsAreLost`, `LostOrOver`) is one step of every invariant of calls.
- `KeysStayHome`: `PipelineSpec => []KeysGoWhereTheyMay`, in every environment, for routed calls
  too. `Barred(c)` follows a call whose token was dead when it came in: it is refused, or its
  token is still not accepted (`RowsOnlyDie` again), or its key is gone for good. `Bound(c)`
  follows key, vendor and vendor configuration of a call through lookup, routing and the choice
  of a key; the choice is a member of the list (`NthIsListed`) because the shared index is taken
  modulo the length. `Given`, that a token in a container was issued, connects the two. That the
  configuration is of the vendor of the *key* is not so for a routed call, and whose a key of a
  list is, no code asks: neither is part of the property.
- `KeysInTurn`: `PipelineSpec => []KeysTakeTurns`, in every environment. The inductive form
  (`TurnInv`) fixes whose turn it is: for some `a` and `q`, the keys of the list from the `a`-th
  to the one before the index were taken `q + 1` times and the others `q` times. `OneMore` is the
  step of a round; the rest is arithmetic of an index that counts on for ever and is used modulo
  the length. A call that still holds a list of another length breaks the turn, and a restart
  sets the index back; both begin a new round (`FreshRounds`), which is why `uses` starts anew.
- `LimitsAreTold`: `PipelineSpec => []LimitIsReported`, bot by bot. While a limit that the log has
  reached is not told, some call of the bot has still to read the usage, or has read it and has
  still to tell the user, or was lost in a crash (`Reported`). A row enters the log before its
  call reads, so the last to read has seen every row; `Counted` and `Born` say that the rows it
  counts are those of its bot, which exists. The conditions (no query fails, the bot is there,
  the day is not over, no check of this bot was lost) are those of the property.

**Feishu messages** (`Feishu_proofs`)
- `RepliesOnce`: no message is answered twice, for any number of messages, redeliveries and
  concurrent calls, when the process does not crash and no mark expires while its message is
  about (`Reliable`, the antecedent of `NoDoubleReply`). What keeps a second reply away is the
  mark: `Handled(m)` says that at most one call has the message, that a message in the hands
  of a call or answered is marked or no longer delivered, and that nobody has replied before
  that call does. `HandlerInv` is `HandlerTypeOK` and, if `Reliable`, `Handled(m)` of every message.
- `Implements`: `HandlerSpec => DeliveryHolds`, in every environment: the handler implements
  `MessageDelivery`, where `state` is `Outcome` (pending while Feishu or a call has the message
  and nobody has answered), `answers` the replies and `reliable` the environment's. Lemma
  `DropsClosed` covers every step without a reply at once; `ReplyAnswers` is where the
  invariant is needed: a second reply is a `Repeat`, which a reliable process has not.

**Settings** (`BotSettings_proofs`)
- `SettingsKept`: in `PendingConfig`, `Spec => []NoUpdateLost`. What is in force overlaid with
  what is pending is what users want. The strengthening is `Alone`: one request at a time, and
  what it read of `pendingConfig` is still so. `OverlayTwice` is the algebra of merging.
- `Refines`: `SettingsSpec => KeepsToConfig`, for serial and overlapping requests: startBot
  with everything it does beside its settings implements `PendingConfig`. A request is in the
  rest of startBot only when its settings are done (`InStart`).
- `SettingsSurviveStarts`: hence `SettingsSpec => []NoUpdateLost`.
- `PrimaryStaysNewest`: `SettingsSpec => []PrimaryIsNewest`. One request at a time, the primary is
  the key last asked for but while a request that makes its key primary has unset the old one and
  not yet written the new (`Replacing`); `RowsInTurn` says what each such request has found out,
  and that it is still so when it writes.
- `VendorFitsKey` and `ContainersFollowSettings`: `[]ContainerAsksItsVendor` and
  `StartUsesSettings`. `Prepared(r)` follows a start through its four lookups: the settings it
  holds are those of the row, with nothing pending, and key, provider row and vendor belong
  together, because while it runs nobody else does. `SettingsTyped` gives the types.
- The last three are stated for keys of different vendors (`DistinctVendors`), as in the run:
  createBot marks every key of the primary vendor as primary, and with two of them a bot has two
  primaries from the beginning.

**Ports, names, cleanup, health** (`BotFleet_proofs`)
- `NothingIsShared`: `FleetSpec => []BotsShareNothing`, for any number of bots, names and users.
  createBot and startBot list the ports, choose one and write it later: `Arriving` and `Serving`
  say that the one chosen is still free and the bot still there, `Rows` that it stays its own, and
  `Remembered` whose conversations a directory holds. That a bot is never without a port is part
  of the property, and a pigeonhole argument over the ports of a user's bots.
- `CleanupIsExact`: `FleetSpec => CleanupRemovesOrphans`. `Cleaning` says, pass by pass, that what
  is left of containers, workspaces and secrets is known or still on the list, and, with one
  user, that every bot is known: its container stays, on its port, up or down as it was.
- `UnhealthyAfterFailures`: `FleetSpec => []UnhealthyIsEarned`, when rounds do not overlap. A
  restart forgets the count, so `Counted` is an inequality: the count in memory is at most
  the failures in a row; and the verdict of a round is about the bot it probed last. The other
  writer of the column, `handleStuckStates`, is the other case of the property: it says `error`
  in the same write.

**Feishu channels** (`Feishu_proofs`)
- `SocketsAreSingle`: `Spec => []OneSocketPerChannel`, when requests wait for one another, with
  retries, aborted connections and crashes. An open socket is the one of the client which the
  map has for its channel (`Owned`). A connection attempt holds a socket that is not yet open
  across an `await`; `Stage(p)` says how far the request under way has come with its channel, its
  client and that socket.
- `StatusHolds`: `Spec => []StatusIsTruth`. The row of a channel that nobody is busy with says
  CONNECTED exactly if it has a socket (`Truthful`); only a crash leaves it wrong. The two
  together are `SocketsStayTrue`: `Spec => []SocketsAreTrue`.
- `StartupLeavesNoneUndecided`: `Spec => StartupDecides`, the safety half of `StartupSettles`, with
  requests that overlapped before the crash: a channel that startup is to connect is on its
  list, or the one it is busy with, or decided (`Starting`). Startup runs alone, so that the rest
  of the invariant (`InTurn`) begins to hold with it whatever came before (`Calm`).
- `LinesAreKept`: `Spec => LinesHold`, in every environment: the channels implement
  `ChannelLines`. `Linked` holds whatever overlaps: a client is of one channel, its socket too,
  and a socket being opened is of the channel of whoever awaits it. So a step disturbs the
  sockets, the row and the process of one channel only (`Apart`), which is all that
  `ChannelLines` promises of changes that overlap (`Overlaps`). While they wait for one another,
  `Stage` and `Truthful` make every step one of the moves (`Moves`): a request takes a channel
  that nobody has taken, hangs up before it connects, and what it writes at the end is so; the
  line of a bot that is gone is only hung up. A crash is the `Restart`.

**Model routing** (`ModelRouter_proofs`)
- `IndexStaysInRange` and `TargetsTakeTurns`: `[]IndexInRange` and `[]EachTargetOncePerRound`, when
  writers are alone or lists have one length (`OneCount`). The index lives in memory and the list in
  the table: `Fits` says that an index is one of the list stored, or about to be cleared by the
  request that changed the list; `Current` that what a request has read is still what is stored;
  `InTurn` that the targets taken in this round are exactly those before the index.
- `FailoverTriesAll`: `Spec => FailoverIsThorough`, the safety half of `FailoverEnds`, in every
  environment: `Trying(q)` says that every target before the one under trial was tried
  `MaxAttempts` times or has lost its key, and none behind it was tried.

**Complexity routing** (`ComplexityRouting_proofs`)
- `TypeCorrect`, and with it that a call with a model has a configuration and was classified.
- `HarderIsNotWeaker`: `Spec => []HarderGetsStronger`, for any models, scores, costs and
  configurations; the lemmas are about the maximum and minimum over the available models.
- `ClassifierIsOfTheConfiguration`: `Spec => []ClassifierBelongs`. One change at a time
  (`OneAtATime`) means that what a copy has listed is still in force when it is assigned
  (`CopiesFresh`), so that memory is what the table says between changes (`MemoryCurrent`), and
  so that a call that nothing overlapped sees both agree (`CallsCalm`).

**Speech** (`StreamingAsr_proofs`)
- `AsrTyped`: `Spec => []AsrTypeOK`, in every environment. Not inductive: a flush reads its
  packet from the array by position after an `await`, and another flush may have put a new
  array into the connection by then. `InArray(t)` says that the position is within the array
  a flush goes through, and `Blank` that before connect there is nothing to go through.
- `SeenIsKept`: `Spec => []SeenSurvivesRestart`, across crashes and the reads of the record after
  them, when Redis answers and messages are unpacked in order. What a client was shown, what
  each save on its way carries, what memory has, what the connection has and what is still to
  be unpacked never get shorter in this order (`SavesGrow`, `TextsGrow`); a read of the record is
  on its way only before there is one or when nothing else is (`Reading`); a session memory
  lost at a crash has nothing under way (`Absent`, `Still`), so that the record alone, which
  `Recorded` compares with what was shown, is what it comes back from.

- `RetriesBoundSockets`: `Spec => []SocketsAreBounded`, and `SocketsFollow`:
  `Spec => []SocketsFollowBreaks`. `Base` holds in every environment: attempts are used up in
  order and `retryCount` has counted all but the one that the close of an ungreeted first
  socket makes (`Counted`), a flush never waits for an attempt (`FlushesGoOn`), and a socket is
  that of an attempt whose delay is over (`Linked`). `Sole` needs that the provider accepts
  connections and that what falls silent brings no last result: at most one socket is there or
  about to be opened (`OneBusy`), it is opened and greeted when nothing else is done
  (`Dialing`, `Greeted`), and a connection that is over has no other than its own (`Over`), so
  that audio that begins an attempt finds no attempt of a close beside it.
- `EndsAreShown`: `Spec => []EndIsShown`. `Carried`, where nothing was torn: what is being
  greeted, packed or unpacked has its socket, and an active connection has a socket or an
  attempt to go on with. `Fate`: a connection that ended has told its session. `Kept`: until
  someone ends the session its record does not replace what memory has; the late save that
  section 3 tells of comes after such an end.
- `AudioIsSent`: `Spec => []AudioArrivesOnce`. Sent once: a packet is on its way, or has been
  heard, or waits at one of the places of the buffer that a flush has not passed (`New`,
  `Queue`), and one flush at a time goes through the buffer (`Lone`), which `Sole` gives. A
  flush that finds its socket gone puts what it reads into the buffer a second time, but it
  then empties the buffer unsent (`Doomed`): this is where audio is lost and never doubled.
  Sent at all, where only the first socket breaks: `Course` follows the connection from its
  first socket to the second, and every accepted packet was torn, has been heard or is still
  to be reached in the buffer (`Settles`), which has room for it because the places of what
  waits are distinct (`Room`).

Only model-checked: all liveness (`StartingResolves`, `PollingConverges`, `HealthConverges`,
`RoutingConverges`, `DeletedBotCloses`, `AllFinished`, `SessionsLeave`, and the halves of
`StartupSettles` and `FailoverEnds` that say that something ends), which is out of the
prover's reach. Every safety property of a passing run is proved.

## 5. What is left

1. An abstract specification of provider rows (`BotProviders`: a primary key per bot); its
   content is proved as the invariant `PrimaryIsNewest`.
2. Sessions of users and verification codes, whose steps are listed below.
3. Larger instances where a proof does not follow: three overlapping requests in
   `BotLifecycle`, two rounds of probes over two bots.

## 6. Not modelled, and why

- *Sign-in, sessions, verification codes.* Mostly one query or one Redis key per call. What
  has steps: signOut removes the latest refresh token only; a code is read and then deleted;
  a registration that fails between its two rows leaves an account that cannot sign in. No
  other component depends on them, and they come next.
- *RabbitMQ.* What happens after a connection breaks depends on when amqplib emits which
  event, which the repository does not show; two of its queues have no consumer.
- *Fallback chains, cost tracker, the routing engine's own route selection.* Loaded and listed
  by the admin API, but nothing calls what decides with them. The same holds of the rate
  limiter, transaction, cache and feature-flag decorators.
- *Skill synchronisation.* Upserts by a unique slug: order and repetition change only counts.
- *Catalogue, account and file APIs, clients of outside services.* A query, or a request and
  its answer, per call.
- *Database access.* Generated; soft deletion and unique columns are part of the modules
  that meet them.
- *Scoring of prompts, usage analytics, prices.* Arithmetic on stored rows and constants.
- *Web client and shared packages.* Rendering, forms and types. What the server sees of the
  client, its polling, is part of `BotLifecycle`, and its speech client of `AsrSession`.
- *Inside modelled components*: usage counters of a token, the models listed in a provider
  row, testing of channels, operation logs, notifications to the browser and the wording of
  messages: no property depends on them.
