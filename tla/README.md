# Bonsai-Bot-V2 in TLA+

Bonsai-Bot-V2 is a Discord bot for EVE Online corporations. A user types a slash
command; a *master* process publishes it to the Redis stream of the user's tenant; the
tenant's *worker* runs it and publishes a result; the master edits the Discord reply. This
directory holds a model of that system in TLA+, the TLC configurations that check it on
small instances, and theorems about it checked by TLAPS.

## 1. Inventory

### Processes

| process | code | one per |
|---|---|---|
| master | `apps/master`, `packages/master` | deployment (prod), developer (dev) |
| worker | `apps/tenants`, `packages/worker` | tenant |
| worker-global | the same code with tenant key `global` | deployment |
| orchestrator | `apps/global`, `packages/orchestrator` | deployment |
| api | `packages/api` | deployment |

They share Redis (streams, lists, hashes, locks), a MySQL database per tenant, Discord,
SNS/SQS (between the prod master and the developers' machines) and the EVE Swagger
Interface (ESI). Every process runs under pm2 with `autorestart: false`
(`infra/pm2/*.cjs`): a process that exits stays down until someone starts it.

### Components, their state and operations

| component | state | operations | hard behaviour | what makes it correct |
|---|---|---|---|---|
| Command path | `pendingMap`, streams `bonsai:cmd:{tenant}`, `bonsai:result`, their groups | `routeInteraction`, `publishProdCommand`, `runRedisStreamsCommandConsumer`, `publishToGlobalCmdStream`, `runRedisStreamsResultConsumer`, `handleResult` | three concurrent loops, crashes, NOGROUP recovery at `$`, PEL never re-read, two flows editing one reply | a command runs at most once, its result answers its own interaction, nothing vanishes unrecorded, the answer is final |
| Dev bridge | `pendingMap`, the developer's SQS queue, the result queue | `publishDevCommand`, `runDevSqsCommandConsumer`, `startDevBridge`, `startSqsResultPolling` | at-least-once queues, delete after publish, a message kept when nobody waits | a command reaches the developer, a result is not lost or answered twice |
| Autocomplete | list `bonsai:ac:{tenant}`, keys `bonsai:ac:res:*` | `handleAutocomplete`, `runAutocompleteConsumer` | 2.5 s deadline against a late answer, fire-and-forget delete | the choices shown are those of this keystroke |
| Migration lock | key `bonsai:migrate:lock:{tenant}`, `_prisma_migrations` | `acquireMigrateLock`, `releaseMigrateLock`, `ensureTenantDbAndMigrate`, worker boot with retries | lock expiry, unconditional DEL, crash of the holder | at most one migration at a time, boot eventually succeeds |
| Pajama monitor | hashes/sets per tenant of online, docking, target characters, token failures | `targetPoller`, `onlinePoller` (three crons), `dockingPoller`, `hotUserScheduler`, `state.js`, `tokenHealth.js` | five timers reading snapshots before awaits and writing after | a character is monitored consistently and alerted once |
| Structure-attack alerts | keys `bonsai:structure_alert:max_notification_id:{tenant}:{char}` | `processCharacterNotifications`, cron over `EVE_ANCHOR_CHARIDS` | several characters see one notification, a failed post | an attack is announced, once |
| Stock sync | MySQL `StockLog`, `StockTarget`, `StockDivisionRule`, the map `nextSyncAt` | `scheduleNext`, `fetchAllCorpAssets`, `aggregateHangarStock`, `syncStructure`, `getAssetNames` | partial failures without a transaction, overlapping ticks | the page shows the hangar, only history that should go is deleted |
| ESI registration | Redis nonces, `EsiRegistration` and `EveCharacter` rows | `esiSignup`, `handleCallback`, `esiComplete` | duplicate and late callbacks, check outside the transaction | a nonce is used once, one main character |
| Access tokens | `EveCharacter.accessToken/refreshToken` | `getAccessTokenForCharacter`, `refreshEveToken` | concurrent refreshes of a rotating token, crash after the exchange | the stored refresh token is the valid one |
| Market prices | keys `mkt:{tenant}:esi:*` with locks, the queue of ESI requests | `getMarketPrice`, `fetchStationOrders`, `runWithLimit` | lock of 30 s against slow fetches, DEL in `finally`, two lists in one paging loop | one fetch per miss, the best price of the pages, every row ends |
| Fleet command | the fleet in the game | `fleetCommander` (members, move the commander, promote) | two requests without a transaction, other commands and players | the fleet keeps a commander |
| Downtime notices | keys `bonsai:dedup:dt:{day}:*`, the intervals of one process | `dtScheduler` | dedup before post, timers that fire twice, keys of twelve hours, midnight, restarts | an opening is announced, and once under one key |
| Orchestrator bus | stream `bonsai:cmd:global-orchestrator` and schedulers | `redisStreamsGlobalConsumer`, `fuelCheckScheduler`, `pajamaHotScheduler`, `alertSkillPoint` | publishes at boot, before the workers' groups exist | each due job reaches each tenant |
| Magic link and session | key `bonsai:api:magiclink:*`, session cookie | `issue`, `consume`, `requireSession`, `auth.js` routes | single use under concurrent clicks | a link opens one session |
| Stock pages | MySQL reads | `routes/stock.js`, `burnRate.js` | rows of a sample added up per filter | the page shows what lies in the hangar |
| Command registry, embeds, logging, configuration, secrets, ESI HTTP wrappers | none | rendering, deployment, I/O | none | not modelled |

### How they interact

The master and the workers share nothing but streams: an interaction's only link to its
result is the envelope id, the key of `pendingMap`. The orchestrator's schedulers publish
to the same command streams, without a `pendingMap` entry; their results go to a channel
(`meta.broadcastToChannel`). A market command goes through two workers: the tenant's
forwards the envelope to the global one under the same id. The dev bridge replaces the two
streams by SNS/SQS and uses the same `pendingMap` and `handleResult`.

## 2. Plan

Ordered by what the bot can least afford to get wrong. *Done* means modelled and checked;
the proofs that exist are listed in section 6.

| # | module | models | state |
|---|---|---|---|
| 1 | `CommandBus`, abstract specification `RequestReply` | the command path | done, six theorems |
| 2 | `WorkerBoot` | boot, migration lock, TenantMeta check | done, four theorems |
| 3 | `PajamaMonitor` | the six loops of the monitor | done, two theorems |
| 4 | `EsiLink` | links, callbacks, `esi-complete`, token refreshes | done, four theorems |
| 5 | `StockSync` | `syncStructure`, name lookup, clean-ups, schedule | done, three theorems |
| 6 | `HangarStock` | `aggregateHangarStock`, `isTracked`, the merge by name, the rows and the sums of the page, against a reference definition | done, one theorem |
| 7 | `DevBridge` | the developer's SQS queue, the result queue, redelivery, the second use of `handleResult` | done, one theorem |
| 8 | `Autocomplete`, `WebLogin`, `FleetCommand`, `AttackAlert`, `MarketCache`, `StationOrders`, `DowntimeNotice` | one small service each | done, eight theorems |
| 9 | `Faults`, `MCServices` | the shared fault budget, and the run of all modules of 6 to 8 | done, one theorem |

`CommandBus` is the module the others are read against: a handler is one step there, and
`PajamaMonitor`, `EsiLink`, `StockSync`, `FleetCommand` and `MarketCache` say what happens
inside the handlers and timers that are more than one.

`MCServices` puts nine modules side by side. They share processes, Redis, ESI and Discord but
no key and no message, so all of them together do nothing to one that it does not do
alone: `focus`, chosen initially, says which of them moves, and the state spaces add up
instead of multiplying.

Runs: one passing run per component (one for the nine services), two for the command path,
whose liveness is asked without faults, and one small run for each of five places where the
code does other than a comment or the README says: twelve.

The proofs stand in eight modules of their own: `CommandBusProofs`, `WorkerBootProofs`,
`PajamaProofs`, `EsiLinkProofs` and `StockSyncProofs` for the module each is named after,
`NoticeProofs` for `AttackAlert` and `DowntimeNotice`, `ServiceProofs` for the other services, and
`ServiceTypes` for the types of all nine and of `MCServices`, which puts them together. Every
safety invariant and action property that a passing run checks is stated by a theorem.

## 3. Modules and code

Every module splits a function at its `await`s: what runs between two of them is one
action, because a Node process runs it without interruption; other loops of the same
process and other processes act in between. A rejected call is an action of its own that
counts against `MaxFaults`. Definitions marked *Seeded bug* are not part of any
specification: each is a variant of the definition after it with a plausible error, kept
to show that a property notices it.

### CommandBus

| state | code |
|---|---|
| `route` | where `routeInteraction` is; `accepted` after `deferReply`, `published` once Redis has the entry, `phrasing` while the waiting phrase is being set, `closing` while the catch block's text is |
| `pending` | the keys of `pendingMap` |
| `edits`, `reply` | the `editReply` calls Discord has not answered, per interaction, and what the user sees |
| `cmdGroup`, `cmdQueue`, `cmdPel` | `bonsai:cmd:{tenant}`: does the group exist, the entries beyond its last-delivered id, its PEL |
| `resGroup`, `resQueue`, `resPel` | `bonsai:result` |
| `wpc`, `wbatch`, `wout` | a worker's loop: step, rest of the batch, outcome of `execute()` |
| `mpc`, `mbatch` | the result loop |
| `asked`, `executed`, `answered`, `posts`, `handled`, `lost` | history, read by properties only |

Notes. Discord applies the edits of one interaction in the order they were sent. A group
is created at `$`, so an entry added while there is none is never delivered: the model
records that as `lost` instead of keeping the entry. No consumer reads its own PEL or
claims one, so a PEL is a set that only acknowledgements shrink. Malformed entries and
entries of another tenant, which the loop acknowledges and skips, do not occur: every
publisher builds its envelope with `buildCmdEnvelope`. `followUp` messages and the
choice between public and private replies are part of the one edit. What a handler computes
is a nondeterministic outcome. `RequestReply` is the abstract specification: commands are
asked, run at most once, and answered at most once with something that is justified.

### WorkerBoot

`pc` is where `initializeWorker` is; `lock` and `ttl` are the Redis keys; `children` are the
processes whose `prisma migrate deploy` is running (a child survives its worker). The upsert of
`TenantMeta` has two steps: Prisma generates the id of a row that is missing (`FindMeta`:
`minted` counts the ids, `id` is the one a process holds), and the database commits the row with
it later (`InsertMeta`; `meta` has the id of each tenant's row). Ids are cuids, which begin with the time;
the model orders them as they were generated and leaves the skew of the workers' clocks out. A crashed
worker's insert was committed before its end or is not at all. `raced` is history: the tenants
whose row was between its id and its commit when a process passed the check. Time passes in `Tick`, in units of the retry delay. `process.exit(1)` in the TenantMeta check does not run the
`finally` block, so the lock stays until it expires. `MaxHold` bounds how long a process may
stay between SET NX and DEL, or its child may run; the code has no such bound.

### PajamaMonitor

`phase`, `todo`, `known`, `found`, `also`, `skip` are what a loop holds between its snapshot and
its writes; `hot`, `target`, `online`, `docking`, `structures` are the Redis sets; `tokenfail` and
`recent` are the failure counters and `lastSuccessAt`. The loops answer character by character in
any order (`Promise.allSettled`). HINCRBY and the purge that may follow are one step, as are the
reads at the start of a loop. `others` says whether other characters of the tenant get tokens,
on which the purge of a revoked one depends (`recentlyHealthy`). `last_login` and the choice
between clone and active implants are constants. `blind` records that the structure list was
replaced by one in which a structure is missing: `WriteStructures` accepts what ESI returned,
including nothing, and the undock loop then takes everybody for gone; that is why
`NoFalseAlarm` excludes it.

### EsiLink

`reg` is the table `EsiRegistration`, `nonces` the Redis keys, `request` the browser returns being
served by the orchestrator, `queue` the `esi-complete` entries (in order: one worker per
tenant), `working` the entry in hand, `owner`, `isMain`, `token`, `fresh` the table `EveCharacter`,
`caller` the running `getAccessTokenForCharacter`, `valid` the refresh tokens EVE accepts. EVE
either rotates refresh tokens or does not (`rotates`). The duration of a link is one step,
`LinkExpires`. The signature of the state and the decoding of the JWT are left out.

### StockSync

`hangar` is what is in the game, `log` the last sample of every type and name, `targets` the table
`StockTarget`, `due` the comparison with `nextSyncAt`. `pc` follows `syncStructure` from await to
await, `batches` are the requests of `getAssetNames` that are under way at once. `sampledAt` is taken when
the rows are written, so the order of `Insert`s is the order of samples. An item counts one
and lies in the open hangar; containers, divisions and rules are in `HangarStock`. What is missing from a sample leaves no row,
so goods that ran out keep their last quantity on the page: `Settles` says nothing of them, and
nothing of unnamed ships of a type that left for good.

### HangarStock

One sync from the assets to the page, for every hangar of the instance. `hsRows` is the list ESI
returned: an item, what it lies in, its flag; the items of `Listed2` may be listed twice, because
ESI pages and the game goes on. `hsFrontier` is the worklist of `aggregateHangarStock` with the
division and the parent that each entry inherits, `hsStock` is `stockByKey`, `hsVisited` the set
that keeps an item from being counted twice, `hsRules` the table `StockDivisionRule`, `hsLog` what
`createMany` writes after `isTracked` and the merge by name. `PlacesOf` is the reference
definition: it looks at the chains of rows between the structure and an item and knows
neither worklist nor visited set. `Stocked` is the sum of `routes/stock.js`.

### DevBridge

| state | code |
|---|---|
| `dbRouter`, `dbPending`, `dbReply` | `routeInteraction` in the branch of `/dev`, `pendingMap`, what the user sees |
| `dbSqs`, `dbBatch`, `dbStep` | the developer's queue, the messages `runDevSqsCommandConsumer` has yet to handle and whether the first is to be forwarded or deleted |
| `dbStream`, `dbResults` | the developer's own Redis, between his master and his worker |
| `dbQueue`, `dbHold`, `dbHandled` | the result queue, the message `startSqsResultPolling` handles, what `handleResult` returned |
| `dbLost` | history: what a step dropped for good |

A message of a queue stays there until it is deleted; receiving it changes nothing that lasts. The
messages of a batch do not come back before the batch is handled, and one result message
is handled at a time. The developer's worker, which `CommandBus` has in full, is one step that
answers or loses the command. The broadcast of a result into a channel is left out.

### Autocomplete

`acPc` and `acShown` are the request in `handleAutocomplete` and what Discord got; `acList` is the
list, `acKey` the answer keys (10 s), `acDel` the DEL commands that were sent and that nobody
waits for, `acTaken` and `acFound` the request the worker popped and its choices. A
keystroke is a request with an id of its own. The worker dies with what it popped.

### WebLogin

`wlKey` holds the tokens in Redis, `wlPc` and `wlPayload` a request of `/auth/consume` between
GETDEL and the cookie, `wlCookie` the browser's session. Tokens expire and sessions end.

### FleetCommand

`fcMembers` and `fcSeat` are the fleet, which players change too; `fcPc` is a command between
its requests (find the fleet, list the members, move the commander, promote) and `fcFound` the
commander among the members it was shown.

### AttackAlert

| state | code |
|---|---|
| `aaNotes`, `aaOld` | the notifications of a character in the order of their ids, and up to which they are more than an hour old |
| `aaMark` | the watermark in Redis |
| `aaStep`, `aaNext` | a tick: its step, the characters still to come |
| `aaTop`, `aaSeen`, `aaTodo` | what a tick holds of the current character: newest id, watermark, ids to announce |
| `aaPosts`, `aaBase`, `aaExcused` | history: announcements, first watermark, ids that were too old or whose webhook failed |

The first run of a character sets the watermark and announces nothing. Two ticks may run at
once. Every id is one notification of one character; that several anchors receive a
notification of the same attack, and announce it each, is what the code does.

### MarketCache and StationOrders

`mcPc` is `getMarketPrice` for each item of a command, all under one `Promise.all`; `mcTries` counts
the attempts on the lock, `mcQueue` and `mcRunning` are the request queue of the process,
`mcCached` and `mcLock` the keys. `mcSlow` records that a lock expired while its holder lived.
`StationOrders` is the loop of one fetch: `soSell` and `soBuy` are the lists ESI would return, a page
being the set of the station's prices on it; `soAt`, `soBest`, `soHit` are the loop's variables.
Every turn reads the next page of each list that is not done.

### DowntimeNotice

`dtDay` and `dtEleven` are the clock, `dtServer` and `dtStart` what `/status` says, `dtUp` the
orchestrator. `dtOf` is the `date` an interval closed over, `dtStep` what its poll is about to do,
`dtKeys` the keys of the two phases, `dtClaims` how often each was set on this date, `dtPosts` the
notices of an opening by the day of the server's start and by that of the key; `dtFailed` and `dtLate` are
history. Midnight falls anywhere, also in the VIP phase or before the poll that would have seen the
opening: such an opening is in `dtLate`. A key lives for twelve hours while its intervals go on
polling. What the model takes from that is that within twelve hours a post under way has
ended and an interval has polled successfully (`DtKeyExpires`), so that it has seen an opening before the key of the
opening goes, and that a key is set twice on one date at most. The server stops once a day, hours
after midnight.

## 4. What is checked

| run | instance | states | shows |
|---|---|---|---|
| `command_faults` | a market command of a user and a scheduled one, both announced, two workers, batches of 2, any two faults, from processes not started yet | 1.19 million | `AtMostOneExecution`, `NothingVanishes`, `BroadcastOnce`, and that the path implements `RequestReply` (`KeepsPromise`) |
| `command_fair` | an unknown command, a market command, one from an unmapped channel, no fault | 33 thousand | `AnswerIsFinal`, and that every published command is answered or recorded as lost (`AnsweredOrLost`) |
| `command_lost` | one command, everything up | violated after 13 states | finding 1 |
| `boot` | two instances of a tenant, one worker of another tenant on the same database, one fault, lock of 2 units, holders of at most 1 | 197 thousand | `MigrationsExclusive`, `HoldersOwnLock`, `OneTenantUnlessRaced`, `BootEnds`, `LockGoesAway` |
| `boot_slow_migration` | two instances, the code's values (lock 30 delays, 10 attempts), no crash | violated after 39 states | finding 2 |
| `pajama_watch` | one character, one structure, one move, one fault of any of seven kinds | 287 thousand | `NoFalseAlarm`, `WorldIsSeen` |
| `pajama_twice` | one character, two moves, no fault | violated after 23 states | finding 3 |
| `esi_link` | two users, two characters, two registrations, two browser returns, two refreshes, one rotation, one fault | 433 thousand | `OneLoginPerLink`, `OneMainPerUser`, `TokenSurvives`, `ToldIsConfirmed` |
| `esi_owner` | two users, no fault | violated after 17 states | finding 4 |
| `services` | nine small instances, each with any two faults; see the next table | 182 thousand | fifteen properties |
| `downtime_once` | one interval, one day, no fault | violated after 8 states | finding 5 |
| `stock_sync` | a ship and a blueprint copy, two overlapping syncs, batches of 2, one change, one fault | 396 thousand | `LookupExact`, `HistoryKept`, `Settles` |

| in `services` | instance | shows |
|---|---|---|
| `Autocomplete` | two keystrokes | `AcOwnChoices`, `AcLeavesNothing` |
| `WebLogin` | two links, three browsers | `WlOneLogin` |
| `DevBridge` | two commands, batches of up to 2 | `DbCommandKept`, `DbAnswered` |
| `AttackAlert` | two anchors, two notifications between them, two ticks | `AaWatermark`, `AaAnnounced` |
| `MarketCache` | a worker that asks for two goods and one that asks for one of them, two commands, one slot, two attempts on a lock | `McOneFetch`, `McAllRows` |
| `StationOrders` | lists of up to 4 pages, the other one of at most 1, `PAGE_CAP` 3, 1 page after a hit, pages with any of two prices, no fault | `SoBestPrice` |
| `DowntimeNotice` | two days with one start of the server each, midnight and the end of a key at any moment, two intervals | `DtOneNotice`, `DtAnnounced` |
| `FleetCommand` | three pilots, two commands for different ones | `FcSeatFilled` |
| `HangarStock` | every hangar of two ships of one name and a piece of ammunition, two divisions, three sets of rules, no fault | `HsPageExact` |

Each passing run also checks its module's `TypeOK` (in `services` all of them). Deadlock checking
is off where a finite workload simply ends (`CommandBus`, `EsiLink`, `StockSync`, the services); in `WorkerBoot` and
`PajamaMonitor` time and the loops never stop, and it is on.

Bounds, and why they suffice for what is asked:

- *Commands*: the entries of one stream interact only through batches, a shared worker and
  the shared result loop; two commands that go through two workers meet in all of them. A
  batch of 2 has a rest that an aborted batch strands. The theorems lift the bound.
- *Faults*: two in `command_faults`, since the interesting cases pair an error with a crash
  during its recovery (an `xAck` that fails, then an exit; a deleted stream and a group that
  cannot be recreated). One in the runs of the other components but
  `services`, where every recovery is a single step.
- *Boot*: three processes are the least that has two of a tenant and a stranger. One
  unit of holding and a lock of two is the shortest `MaxHold < TTL`; the slow run uses
  the code's own numbers. Two attempts reach both branches of `Retry`.
- *Pajama*: characters meet only in the counters of `others`, which the model keeps apart
  from them; one character and one structure show every order of the six loops' reads and
  writes. The threshold is 2, so that one failure and two differ (3 in the code).
- *Links*: two of everything is what a conflict needs; the third registration of a user adds
  only another main candidate.
- *Stock*: the ship goes through all of its looks, the copy is the id that ESI rejects, and
  together they make a batch that has to be split.
- *Services*: two faults, because a fault and its recovery can meet a second one (a lock
  left by a crash and an error while waiting for it; a failed post and a restart). Two
  ticks, intervals, browsers or commands are what a race needs. One of the two lists of
  `StationOrders` may pass `PAGE_CAP` while the other ends on its first page: the loop keeps the
  lists apart in every other respect. Three items are the least that has a container in a
  container. A downtime notice needs a second day for an
  interval, or a VIP phase, that outlives the first. Who has the commander's seat initially is chosen only where
  `FleetCommand` moves.

### Fairness

Weak fairness, everywhere, on the continuations of awaits: Redis, MySQL, Discord and ESI
answer in the end (with an error if they must: node-redis rejects commands when a connection
ends, `fetch` rejects). A loop is fair because its next turn is scheduled unconditionally:
`while (!signal.aborted)` around a blocking read in the stream consumers, the `finally` of
`makeScheduler` in the pajama pollers, node-cron in `StockSync`. In `WorkerBoot` time passes and a child
process ends. In `services` the same holds: the loops, the awaits' continuations, the intervals and the expiry
of the answers of `Autocomplete` are weakly fair. Strong fairness is used once, for the result queue of
`DevBridge`: SQS goes on handing out what is not deleted, each message again and again, although
one that is being handled hides the rest for a moment. The liveness properties there
have the form `<>[]P`: once nothing new comes, `P` holds and stays.

Nothing else is fair: no user types, no game moves, no link expires, no fault happens because
it has to. Crashes are of two kinds. In `CommandBus`, `WorkerBoot` and `DowntimeNotice` a process
that exits stays down until a step of its own starts it, which is not fair: it may stay down for
ever, as pm2's `autorestart: false` has it; that is why `AnsweredOrLost` is asked without faults, and
why a crash is an exception of `DtAnnounced`. In `StockSync`, and in `Autocomplete`, `DevBridge`,
`AttackAlert` and `MarketCache`, a crash is one step with the start of the process that follows: whoever
forgot everything goes on. What is promised there in the end (`Settles`, `AcLeavesNothing`,
`DbAnswered`, `AaAnnounced`, `McAllRows`) is promised to a bot whose processes are started again.
`OthersSucceed` is the only fairness about the world in `PajamaMonitor` (a tenant's other
characters go on obtaining tokens, unless there is an outage, and then `WorldIsSeen` allows a dead
token to stay).

## 5. Findings

1. `command_lost`: the interaction is registered in `pendingMap` after the `xAdd` was
   answered (`interactionRouter.js:98`), while the README has the registration before the
   wait. A result that overtakes the continuation is acknowledged and dropped, and the user
   keeps the waiting phrase.
2. `boot_slow_migration`: the lock is not renewed and the migration has no timeout; a
   migration of 300 s or more is joined by a second one, and the first one's DEL then
   removes the second one's lock.
3. `pajama_twice`: the atomic SADD and SREM do not remove the race between a snapshot and
   a write; the docking poll puts back a character that the undock loop has alerted.
4. `esi_owner`: a character that was linked by another Discord user keeps its owner, although
   the comment has it belong to the user of the registration.
5. `downtime_once`: a comment has the VIP and the opening notice idempotent per date, but the
   key of the VIP notice lives for twelve hours and the interval polls until the opening: a
   VIP phase that lasts longer is announced a second time.

Seen while modelling, and not counted as findings, since nothing in the repository says
otherwise:

- a Discord error on the waiting phrase makes the catch block edit "failed" over the
  reply of a command that is published, possibly after its result
  (`interactionRouter.js:99-107`; `AnswerIsFinal` is therefore checked without faults; by the theorem `AnswerStays` this is
  the only way to lose an answer);
- a market command whose forward succeeds and whose `xAck` fails is reported as not routed, and runs
  (`redisStreamsCommandConsumer.js:122-142`);
- the ten boot attempts take 90 s, the lock of a crashed worker lasts up to 300 s: a restart
  right after a crash during a migration may give up (`BootEnds` allows `exit`);
- an ESI error on a character's implants is read as "no implant", and the undock is forgotten
  (`onlinePoller.js:225`);
- a structure list that came back empty replaces the known one, and the undock loop, unlike
  the docking poll, goes on with it (`hotUserScheduler.js:124`);
- a ship without a target is absent from the page between a sync's deletion and its
  insertion, and until the next one if the process dies there;
- a ship that leaves between the assets request and the names request is answered 404 and
  recorded as unnamed;
- an item that is not in a sample writes no row, and the page shows its last sample for up to
  30 days; an item listed twice, once outside a hangar, may be missed for one sync;
- a dev result that nobody waits for is put back by not deleting it, and its announcement in a
  channel is posted again each time (`startProdBridge.js`); a result whose `editReply` fails is
  answered by nobody, since its `pendingMap` entry is gone, and comes back until SQS drops it;
- the opening of the server is announced under the date on which an interval was started,
  while a poll compares `start_time` with its own date: an interval that lived on to the next day
  announces that day's opening next to that day's interval (`dtScheduler.js:104`; `DtOneNotice` is
  therefore about one key), and a VIP phase that crosses midnight, or an opening no poll
  claims before, is not announced at all (`dtScheduler.js:123`; `dtLate` in `DtAnnounced`). An orchestrator
  started after 11:00 does not look on that day;
- the fail-fast check reads the row with the lowest id, and an id is older than its row
  (`schema.prisma:91`, `prisma.js:119-124`): a worker that generated its id first and commits its
  row after the worker of another tenant has passed the check passes it too, and both
  serve one database. TLC finds that after 19 states if `OneTenantUnlessRaced` is asked without its
  exception, with two workers, one attempt each and no fault. The locks do not help, since each tenant
  has its own. On the next boot the check ends the worker with the younger id;
- a refresh token that EVE has rotated is lost with the process, or the update, that should have
  stored it (`getAccessTokenForCharacter.js:52`): the character needs a new link. By `TokenSurvives` there
  is no other way to lose one;
- a browser is told that it is registered although the publication of `esi-complete` was rejected
  (`esiCallbackServer.js:138`); the link is spent;
- the clean-up of rows without a name does not look at targets (`stockSyncScheduler.js:415`),
  although a comment has them keep their rows (`stockSyncScheduler.js:354`): the target on
  the unnamed ships of a type does not save their history once a ship of the type has a name
  and none without one is left (`HistoryKept` promises it to types no ship of which was named);
- a market lock left by a crash makes every request for that price fail as "delayed" until it
  expires (30 s); with one global worker, as the pm2 files have it, that is the only way
  two workers ever meet in a lock;
- each anchor character announces the attacks it is told of, so one attack may be
  announced several times; of two overlapping first runs the higher watermark wins, and what
  lies between is not announced;
- the mark "capped" is also set when a list has exactly `PAGE_CAP` pages;
- the fleet command demotes the commander before it promotes the new one: a failed promotion
  leaves the fleet without (`FcSeatFilled` is therefore about fault-free behaviours);
- nothing publishes `dt.notify`, and nothing calls `getRegionHistory` or `getTypeNames`.

## 6. What is proved

Checked by TLAPS for every value of the constants that satisfies the modules' assumptions:

- `CommandAssumption`: interactions and jobs are disjoint, "global" is not a tenant, a scheduled
  command has a tenant, a batch has at least one entry;
- `StockAssumption`, `HangarAssumption`, `StationOrdersAssumption`, `DevBridgeAssumption`: the items of
  a hangar, the prices of a list and the commands of a developer are finitely many; ids and
  prices are positive, a division is none of the other location flags, and an item that does
  not come singly has no name;
- the others (`BootAssumption`, `LinkAssumption`, `PajamaAssumption`, `MarketCacheAssumption`,
  `AttackAlertAssumption`, `DowntimeAssumption`, `FleetAssumption`, `WebLoginAssumption`,
  `AutocompleteAssumption`, `FaultsAssumption`): the constants' types, and that a placeholder such as
  "nobody" is not one of the real values.

Four theorems have a hypothesis besides, and each is needed:

- `MaxHold < TTL` in `MigrationsNeverOverlap` and `DelIsOwn`: a migration ends before its lock
  expires. Finding 2 is what happens otherwise.
- `Distinct` in `WatermarkHolds`: no character is listed twice in `EVE_ANCHOR_CHARIDS`.
  `parseAnchorCharIds` removes no duplicates, and with one a single overlapping pair of ticks
  announces an attack three times after one failed watermark: TLC finds `NoneRepeated` violated.
  The half that loses no attack (`NeverPassed`) does not need it.
- `PhraseInTime` in `AnswerStays`: the edit with the waiting phrase does not fail after the result
  overtook it. Without it TLC finds `AnswerIsFinal` violated as soon as faults are allowed; with
  it, and two faults, it holds (1.16 million states).

The theorems of the services are about the module's own `AcInit` and `AcNext`
(and so on) without `focus`: what `MCServices` leaves out does not restrict them.
`ServicesTypeCorrect` is about `MCServices` itself.

| theorem | module | states |
|---|---|---|
| `TypeCorrect` | `CommandBusProofs` | type correctness of the command path |
| `NoCommandVanishes` | `CommandBusProofs` | `NothingVanishes` |
| `NoDoubleExecution` | `CommandBusProofs` | `AtMostOneExecution` |
| `PromiseKept` | `CommandBusProofs` | `KeepsPromise`: the command path implements `RequestReply` |
| `OneAnnouncement` | `CommandBusProofs` | `BroadcastOnce` |
| `AnswerStays` | `CommandBusProofs` | `AnswerIsFinal`, if the phrase's edit does not fail late |
| `BootTypeCorrect` | `WorkerBootProofs` | type correctness of the boot |
| `MigrationsNeverOverlap` | `WorkerBootProofs` | `MigrationsExclusive`, if `MaxHold < TTL` |
| `DelIsOwn` | `WorkerBootProofs` | `HoldersOwnLock`, if `MaxHold < TTL` |
| `FailFastUnlessRaced` | `WorkerBootProofs` | `OneTenantUnlessRaced`, without any such condition |
| `MonitorTypeCorrect` | `PajamaProofs` | type correctness of the monitor |
| `NobodyAlarmedFalsely` | `PajamaProofs` | `NoFalseAlarm` |
| `LinkTypeCorrect` | `EsiLinkProofs` | type correctness of links and tokens |
| `LinkUsedOnce` | `EsiLinkProofs` | `OneLoginPerLink` |
| `OneMain` | `EsiLinkProofs` | `OneMainPerUser` |
| `RefreshTokenSurvives` | `EsiLinkProofs` | `TokenSurvives` |
| `StockTypeCorrect` | `StockSyncProofs` | type correctness of the sync |
| `HistoryStays` | `StockSyncProofs` | `HistoryKept` |
| `LookupsExact` | `StockSyncProofs` | `LookupExact` |
| `OneLogin` | `ServiceProofs` | `WlOneLogin` |
| `OwnChoices` | `ServiceProofs` | `AcOwnChoices` |
| `SeatFilled` | `ServiceProofs` | `FcSeatFilled` |
| `OneFetch` | `ServiceProofs` | `McOneFetch` |
| `BestPriceHolds` | `ServiceProofs` | `SoBestPrice` |
| `CommandKept` | `ServiceProofs` | `DbCommandKept` |
| `PagesExact` | `ServiceProofs` | `HsPageExact` |
| `NeverPassed` | `NoticeProofs` | `NonePassed`, the half of `AaWatermark` that loses no attack |
| `WatermarkHolds` | `NoticeProofs` | `AaWatermark`, if no character is listed twice |
| `OpeningOnce` | `NoticeProofs` | `DtOneNotice` |
| `ServicesTypeCorrect` | `ServiceTypes` | `ServicesTypeOK`: the types of all nine services, composed |

The arguments.

- *Types of the command path.* `TypeOK` alone is not inductive: `Head(wbatch[w])` has a type
  only if the batch is not empty. `BatchInHand` says when it is not, and that at most one
  result edit is under way, which is the one the result loop waits for.
- *Nothing vanishes.* Only acknowledgements and deletions remove entries; deletions
  record what they remove. `SafeToAck` says that whatever a worker or the result loop is about
  to acknowledge is already somewhere else: its result is in the result stream, or was
  handled, or its forward is in the global stream.
- *No double execution.* What a worker may still execute is the undelivered part of its
  stream and the rest of its batch, and not its PEL, since nobody reads a PEL. `OneHolder` says
  that a command is in at most one of these places, of one worker, once, and in none after
  it was executed; the publication is the only step that creates such an entry, and the forward
  the only one that moves it.
- *The promise.* Publications, executions and deliveries are the steps of `RequestReply`, every other
  step is none. A publication is the first one and an execution the only one by `OneHolder`. What
  a delivery says is true, because every result on its way, and the outcome in a worker's hand,
  already was when it was made and executions are not undone (`Sincere`); and the interaction
  was not answered before, because it is in `pendingMap` only until then and gets there only
  once (`Open`).
- *One announcement.* A result that asks for an announcement is in one place at most: with the
  worker, in the stream, or in the rest of the master's batch, and in none after it was
  posted (`OneCast`). A command that is also refused by a worker whose `xAck` failed has two
  results, but only the one of its execution can ask.
- *The answer stays.* Of the edits of an interaction that Discord has not applied yet, a result
  is the last (`AnswerLast`): whoever passes it to `editReply` took the interaction out of
  `pendingMap` before, which only one can do, and the router adds nothing behind it, except in the
  catch block of the waiting phrase.
- *The lock.* Whoever holds it, or whose child runs, owns the key, and the time held plus
  the time left is `TTL` (`Owned`): time passes for both alike. With `MaxHold < TTL` the key
  is then there for as long as its owner is busy. Finding 2 shows that the condition is needed.
- *Fail fast.* Ids are generated in order, so a row that is older than the one a process has found
  to be the oldest can only be a row whose id had been generated and that was not committed yet, and
  its tenant is in `raced`. `MetaInv` says so: no row has an id that was not generated (`Generated`), and past the
  check a process's row is there and only rows of raced tenants are older (`OwnRow`). Of two tenants'
  rows one is older, so of their processes past the check one raced the other. The lock plays no part.
- *No false alarm.* The hash of docked characters, the two copies that a check of the offline
  and the docking loop holds, and what an undock check has left to ask (`Inside`) name only
  characters that are docked or have undocked since (`Docked`). An alert is due only to somebody
  who was `Inside` and is seen elsewhere, and the list of structures it is compared with is
  complete, unless the monitor was blind (`Complete`).
- *Links.* For every link there is either its nonce or at most one place that took it: a
  request, an entry of the queue, the worker's hand, the confirmed registration (`Once`). From
  that, a registration gets one login. `Mains` follows the one main character through
  `esiComplete`: the worker looks for another one in the step that would create it.
- *Refresh tokens.* If EVE rotates tokens, a new one invalidates the older ones of its grant.
  `TokenInv` says that a token that was not issued is nowhere, that a token belongs to one
  grant and so to one character, that a caller holding a new token is the only one who does,
  and that nothing held is newer than the valid token of its grant. A late write is harmless,
  although nothing compares the row with what was read: EVE refuses a replaced token, so
  of several refreshes of one grant only the one with the valid token gets to write, and a token
  of an older grant, written over a newer link's, is valid in its own grant. The stored token
  therefore stays usable, or its successor is held by a caller about to write it, until that
  caller loses it (`RefreshLost`); without rotation nothing ends it (`Kept`).
- *Stock history.* A name is held, in the hangar, in a sync or in the log, only of types that
  were named, so the clean-up of rows without a name passes plain goods by (`Known`); and a
  target that stayed since a sync began is among those the sync read (`Spared`). A sync that gets to the
  clean-up of named ships had a lookup without failures (`CleanInv`), which is exact if the hangar did not
  change: a ship that is there is then in its sample. None of this says anything of the other
  syncs, so any number may overlap.
- *Name lookup.* While the hangar stays as it was, no name is wrong, and an id is answered or
  in a request that is pending (`Pending`). The lemmas on batches say that cutting a list and
  halving a rejected batch loses no id and ends with batches of one.
- *Magic link.* A token that somebody read is not in Redis, because reading deletes it.
- *Choices.* A key holds the choices of its own request or none: `AcSet` writes the key of
  the request that was popped with what was computed for it.
- *Fleet.* Without faults the seat is emptied only by a command that is then about to promote.
- *Dev commands.* What is about to be deleted is in the next place already (`Forwarded`, `Held`), and
  an interaction that is not registered yet has its router on the way (`Routed`).
- *Market lock.* Who fetches has the lock, while no lock ran out under him (`Locks`); who waits
  for a slot is in the queue, and who has one is counted (`Queues`).
- *Best price.* Of each list the loop knows the best price of the pages read and the first page with
  an order (`SoSide`); at the end the pages not read are beyond `PAGE_CAP` or beyond the extra
  pages. `FoldBest` says that the fold over a page yields its best price.
- *Pages.* What the walk finds of an item is what the chain of rows from it up to the structure says
  (`Walk`): a chain can be cut, is the only one, and ends as the frontier's entry that came down it.
  The model numbers a container before its content, as nothing in the game lies in itself, so no
  chain is a cycle. The page then adds up the rows
  of one kind, which `PageSum` shows to be the number of items of that kind.
- *Watermark, no attack lost.* What a tick is going to set is covered by what it has announced, what
  is still in its list and what lies below the mark it read (`Posting`), and marks and first runs
  are related for all ticks at once (`Marks`), since a tick may set a mark that another one read.
- *Watermark, no attack repeated.* Every tick that may still announce an id, or put the mark back
  below it, is charged for it in advance (`Charged`). The announcements made and the ticks
  charged are together at most one more than the faults so far (`Budget`); once the mark has passed
  the id only those count that are about to post, as long as nobody lowers the mark again.
- *Opening notice.* A key is taken once a notice was made under it for the start of the day, or an interval is about
  to make it. What is taken stays taken until the date changes: its key is set, or none of its
  intervals is left and none is to come (`DtClosed`), because a key goes only when the intervals of its
  date have seen the opening and ended. A claim needs a free key, so it is the first one and is alone
  (`DtPending`). After midnight the start is not of the day, and no poll looks at it.
- *Types of the services.* `McTypeOK` bounds the requests under way and the attempts on a lock, so it
  needs that `esiRunning` is the number of fetches under way, and that the queue is empty while a
  slot is free (`Slots`). In the composition only the service in focus has its invariant; the
  others rest in their initial states (`InFocus`).

Two of these arguments are inductions over data: that a fold yields the best price, and that
a sum over rows counts the items. The library's induction theorems cannot be used here, since they take an
operator as a parameter. Each is written out instead from the smallest counterexample (lemmas
`Least` and `Smallest`): of the finite subsets of a finite set that violate the claim one is
minimal, and taking one element away from it leaves a set that does not. A function defined
recursively is handled the same way, from a closed form that satisfies its equation.

What TLC alone shows is liveness: `AnsweredOrLost`, `BootEnds`, `LockGoesAway`, `WorldIsSeen`,
`ToldIsConfirmed`, `Settles`, `AcLeavesNothing`, `DbAnswered`, `AaAnnounced`, `McAllRows` and
`DtAnnounced`. TLAPS 1.4.5 has no rule for ENABLED, so fairness is out of its reach.

## 7. Not modelled

- When the orchestrator's timers for fuel, hot users and skill points fire: `PublishJob` of
  `CommandBus` is what they do to the bus.
- What handlers compute and how replies look, among them the texts of alerts and notices,
  `getRegionHistory`, the cache of type names, burn rate, days left and the history route:
  numbers and words from a single read.
- `dtNotify.js`, whose command nothing publishes, and the webhook a notice goes to besides
  the first.
- A cache entry in Redis that is not JSON: only `getMarketPrice` writes them.
- An empty `EVE_ANCHOR_CHARIDS`: every tick ends at once.
- A webhook that is not configured, among them that of the attack alerts.
- Logging, configuration, secrets, deployment, the HTTP wrappers around ESI and SNS, and the
  signing of states, sessions and tokens.
- Two workers of one tenant in one consumer group, which do not occur with the repository's
  pm2 files; `WorkerBoot` has them, because the README's lock is about them.
