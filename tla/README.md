# TLA+ models of CryptoryCoreServer

This directory holds a formal model of the parts of CryptoryCoreServer that carry
state across `await`s, timers, sockets and database calls. Each component has a
module of its own. TLC checks it on a small instance, and for each of them but
`Translations` TLAPS proves the properties that matter most for every instance. The
modules are translated from the TypeScript source, not from the documents under
`docs/` (paths below are relative to the repository root; where they begin with
`src/`, that is the server's own `src/`).

    tlc -workers 2 -config MCWsClient.cfg WsClient.tla     # check one instance
    tlapm WsClientProofs.tla                               # check the proofs

## 1. Inventory

The server collects public market data of five exchanges (upbit, bithumb, korbit,
coinone, binance), keeps it in memory and in Redis, serves it over HTTP and a public
websocket, holds users' exchange credentials, polls their private data for a private
websocket, and runs accounts, price alerts, community and content services on
PostgreSQL through Prisma. It is one Node process: a callback runs to its next
`await` undisturbed, and everything interesting happens between two of those.

### 1.1 Components and how far they are modelled

"Modelled" means that every operation which changes the component's state is an
action; "in part" says what is left out.

| Component | State | Hard part | Correct when | Module |
|---|---|---|---|---|
| WebSocketClientManager `src/core/exchange/websocket.client-manager.ts` | tracked socket, flags, two timers, attempts | late events of earlier sockets, `stop` during an await, several failure paths for one loss | one connection; nothing left after stop; always a wake-up; a reopen resyncs | `WsClient` |
| Provider request cache `src/providers/exchanges/base-exchange.provider.ts` | entry, in-flight promise | overlapping calls, background refresh, late failure | one load; bounded age; failure only without a usable entry | `RequestCache` |
| REST client `src/core/exchange/rest.client.ts` | attempt, timer, delay | the timer ends at the headers; what is retried | a call is bounded; nothing is sent after it was settled | `RestClient` |
| Market streaming orchestrator `src/domains/market-data/market-streaming.orchestrator.ts` | mode, timers, suppression | silence without an error, overlapping polls, `stop` during `start` | stream or polls cover an exchange; a failing endpoint is asked again; quiet after stop | `StreamOrchestrator` |
| Market data store, trend projection `src/modules/public-market/market.data.store.ts`, `market-trend.projection.ts` | ticker, trades, trend, write-behind queue | any order of timestamps, failing pipelines | the trend is ordered; no update forgotten; Redis catches up | `MarketDataStore` |
| Public websocket, `market.candle` `src/websocket/wsServer.ts` | subscriptions, interval, in-flight flag, live candles | clients come and go during the poll's await | interval iff needed; a client's candles never go back | `MarketCandleFeed` |
| Private websocket `src/websocket/wsServer.ts` | subscriptions, interval, digests, known fills | loops over live collections across awaits, bounded memory | nothing goes backwards; the newest arrives; fills are not repeated | `PrivateStreams` |
| Websocket lifecycle, fan-out `src/websocket/wsServer.ts` | upgrades, clients, heartbeat; topics and snapshots | an upgrade verified while the server closes; snapshot against stream | nobody left open; a subscriber is up to date | `ServerLifecycle`, `PublicFanout` |
| Process start and shutdown `src/index.ts`, `src/jobs/tickerCollector.ts` | what runs, the stage of the shutdown | each awaited part may hang | a shutdown ends | `ServerLifecycle` |
| Price alerts; push tokens (in part) `src/domains/alerts/`, `src/domains/push/` | rows, tokens, running flag, the tick's snapshot | a tick decides on rows read many awaits ago | ticks do not overlap; every push is due; what stays due is delivered | `PriceAlerts` |
| Authentication sessions `src/modules/auth/` | `AuthSession` rows | read and write of a refresh are two steps | a replaced token is dead; a closed session stays closed; the newest token works | `AuthSessions` |
| Accounts (in part: verification of social tokens left out) `src/modules/auth/auth.service.ts` | `User`, `AuthIdentity` rows | two first logins at once, conflicts on different unique keys | one account per identity; everyone gets in | `Accounts` |
| Exchange connections; trading and portfolio (in part: no aggregation) `src/modules/private-account/`, `src/domains/trading/`, `src/domains/portfolio/` | row, history, order records | an exchange is awaited between read and write | verdict, mask and fingerprint belong to the stored keys; accepted orders are on record | `PrivateOperations` |
| Legacy paper orders (in part: no averages) `src/modules/orders/orders.service.ts` | cash, holdings | absolute writes computed before the lock | the books balance for orders that do not overlap | `PaperOrders` |
| Candle snapshots and charts `src/domains/charts/` | memory, Redis copy, queue, cooldown, marks; live candle | refreshes shared and replaced; seeds against prices | nothing is shown too late or called fresher than it is; candles are whole | `CandleSnapshots`, `LiveCandles` |
| Market data service (in part: no coverage audit, no layout) `src/domains/market-data/market-data.service.ts` | snapshot entry, rows of graphs | refresh and stream change one entry in turn | answers account for what was asked; pages cover the list; a failing load loses nothing | `MarketSnapshots`, `MarketSparklines`, `MarketLists`, `MarketSections` |
| Market data contracts (in part: no wire formats) `src/domains/market-data/contracts/` | slots, caches of graphs, cursors, chunks | slots are reserved before they are waited for; lists move between pages | a request ends in its budget; steady rows are shown once; rows are markets that exist | `CandleSlots`, `SparklineGraphs`, `SparklineBatches`, `TickerPages`, `ExchangeTickers`, `ContractCandles` |
| Kimchi premium (in part: no arithmetic of the premium) `src/domains/kimchi-premium/` | three components, last known good, snapshots | parts fail one by one; the cache is read again after awaits | what is labelled live is; cold only when nothing is kept; every symbol is accounted for | `KimchiRows`, `KimchiSnapshots`, `KimchiBatches` |
| Trends and themes (in part) `src/domains/market-data/market-trends.service.ts` | snapshots, daily points, table | overlapping fetches return in any order | series in the order of time, one point a day | `MarketTrends` |
| Asset images (in part: no identity fields) `src/domains/assets/asset-metadata.service.ts` | memory, Redis, queue, batch, negative cache | the timer fires while a batch runs | queued keys are carried on; an image is not replaced by a placeholder | `AssetImages` |
| News (in part: no wording, no cursors) `src/domains/news/news.service.ts` | memory, row per key | rows land late, restarts go back to them | fresh means young; stale instead of nothing | `NewsFeed` |
| Translation, coin information (in part) `src/domains/translation/`, `src/domains/coins/` | memory over a table | a batch that cannot translate stores that | a description without Korean says why (it does not, see 4.2) | `Translations` |
| Community, relationships (in part: no reports) `src/domains/coins/coin-community.service.ts`, `src/domains/users/user-relationship.service.ts` | posts, likes, votes; memory over two tables | memory is changed first and the table later | no follow across a block; nothing left of a deleted user; walks repeat nothing | `Community`, `Relationships` |

How they interact: a provider's `startPublicStream` builds a
`WebSocketClientManager`; its messages reach the orchestrator's `onTicker`, which
feeds the store; where the stream is silent or absent the orchestrator polls the
provider, whose REST calls go through the request cache to the REST client; the
store's event bus feeds the public websocket and the live candles; snapshots, lists
and contract answers are cut from the store and from providers; the candle feed and
the alert worker ask the market-data service for prices; the private websocket and
every authenticated route first run the access check on a session; private routes
read the exchange connection's keys; account deletion cascades to sessions, alerts,
push tokens, relationships and posts; a shutdown stops the collector, the sockets,
the HTTP server and the database one after the other.

### 1.2 Not modelled

| Component | Why |
|---|---|
| Provider streams (`src/providers/exchanges/*.provider.ts`) | parsing of what exchanges send; their sockets are `WsClient`, starting and stopping them is part of `StreamOrchestrator` |
| Stream subscription plan, exchange registries | constant tables and a plan computed from them in one pass |
| Legacy public market module | a façade over the orchestrator, and a reader of the store |
| Calculators and rates | arithmetic on reals with a cached rate |
| Credential encryption, social token verification | cryptography and third parties; their verdicts are inputs of `Accounts` and `PrivateOperations` |
| HTTP routes, schemas, configuration | validation and wiring; the models take validated inputs |
| Development adapters and generators | mock data |

`PROJECT.json` lists the components with their files, and every hazard of the code
at its line with the properties that would notice it going wrong. Two hazards have
no property because the code gives nothing to check:

- an attempt's abort timer is cleared when the headers arrive, and `Retry-After` is
  slept whole, so that a stalled body or a long header keeps every caller who joined
  the call (`rest.client.ts:278`). `CallsAreBounded` exempts exactly these calls;
- a slow ticker poll rewinds a ticker that a stream has moved on
  (`market.data.store.ts:40`).

## 2. Modules

Conventions. A module is named after its component and an action after its handler;
an action is what runs between two awaits (or one Prisma call, which the database
makes atomic, with read-committed transactions split where they read and then
write). Variables keep the names of the fields. A variable that the code does not
have is marked *history* and appears only in properties and in counters. An operator
commented `Variant:` is the definition it precedes with one plausible mistake in it;
`PROJECT.json` pairs it with the property that notices the mistake. `map` in
`PROJECT.json` gives the source lines of every definition. Where the code tries conditions in
order, the model is an IF chain: `CASE` chooses among guards that hold together in no
order, and is used only for guards that exclude each other. The modules that are extended
together have the component in the names of their `Init`, `Next`, `Spec`, `vars` and
`TypeOK` (`StoreInit`, `RestNext`, `ServerTypeOK`).

| Module | Models | Notable abstractions |
|---|---|---|
| `WsClient` | the connection manager | sockets are slots; payloads, pings and diagnostics are left out |
| `BoundedStaleness` | abstract: what a cached read promises | |
| `RequestCache` | `withRequestCache` for one key | a value is the instant the exchange had it |
| `RestClient` | one call of `requestDetailed` | the service performs the request or not, and answers, fails or says nothing |
| `StreamOrchestrator` | the orchestrator for one exchange, ticker capability | units of five seconds |
| `MarketDataStore` | the store and the trend projection for one market | a quote is a price and a timestamp |
| `MarketCandleFeed` | the `market.candle` channel | |
| `LiveCandles` | the live candle of a market and the `candles` channel | |
| `PublicFanout` | tickers, orderbook and trades channels, inbound budget | what is published on a topic is numbered |
| `PrivateStreams` | one client of `/ws/trading` | an order or portfolio is its version, fills are numbered |
| `ServerLifecycle` | upgrades, heartbeat, close; start and shutdown | |
| `PriceAlerts` | alerts, worker, push tokens | the price is whether a condition is met |
| `AuthSessions` | refresh sessions | the n-th token of a session is n; its hash is itself |
| `Accounts` | users and identities | e-mails and accounts are members of small sets |
| `PrivateOperations` | an exchange connection and what uses it | keys are numbers; a pair matches or not |
| `PaperOrders` | `createOrder` at READ COMMITTED | |
| `CandleSnapshots` | the snapshot cache of one market and interval | candles are counted |
| `MarketSnapshots`, `MarketSparklines`, `MarketLists`, `MarketSections` | the market-data service: snapshot entry, graphs of the list, ordered pages, the answers when providers fail | a ticker is the time it carries |
| `CandleSlots`, `SparklineGraphs`, `SparklineBatches` | the small graphs of the contract: slots and warm-ups, where a graph comes from, one batch request | points are counted in steps |
| `TickerPages`, `ExchangeTickers`, `ContractCandles` | the contract's list pages and cursor, the exchange adapters, aggregated candles | markets are numbers; a spelling is a sequence of tokens |
| `KimchiRows`, `KimchiSnapshots`, `KimchiBatches` | one premium row, the snapshot caches, a batch request | a component is its timestamp |
| `MarketTrends` | the dashboard's figures of one currency | the market figures are one value |
| `AssetImages`, `NewsFeed`, `Translations` | content caches over Redis or a table | an image is its kind, a translation whether it has text |
| `Community`, `Relationships` | posts, comments, likes, votes; follows and blocks | |
| `*Proofs` | theorems about the module they are named after, and about instances of related ones: `RequestCacheProofs` (`KimchiSnapshots`, `KimchiRows`, `AssetImages`, `NewsFeed`), `MarketCandleFeedProofs` (`LiveCandles`, `CandleSnapshots`, `MarketSparklines`, `MarketSections`, `MarketSnapshots`, `MarketLists`, `TickerPages`, `ExchangeTickers`), `StreamOrchestratorProofs` (`CandleSlots`, `SparklineGraphs`, `MarketTrends`, `SparklineBatches`, `KimchiBatches`, `ContractCandles`), `AccountsProofs` (`Relationships`, `Community`) | |
| `PartsProofs` | theorems about `ServerLifecycle`, `MarketDataStore`, `RestClient` and `PrivateOperations`, which it extends together, and about instances of `PublicFanout`, `PaperOrders` and `PrivateStreams`; it also has the lemmas about sums over sets | |
| `MCParts`, `MCPromises` | the instances TLC checks together | see section 3 |

### Where awaits cut handlers into actions

*WsClient.* `connect()` is split at its two awaits. `Start` and `ReconnectTimerFires`
run it up to `await buildConnectionRequest()` (`BeginConnect` inside both, guarded by
`CanConnect`); `CreateSocket` is what follows, `AbandonConnect` its early return when
the client was stopped, `ConnectThrows` and `LeaveCatch` the catch branch on both
sides of its await and the `finally`. The socket events include those of sockets the
manager no longer tracks (`IsForeign`, `IsStale`). The handles (`reconnectTimer`,
`heartbeatTimer`) and the timers armed in the event loop (`armedReconnects`,
`armedHeartbeats`) are separate variables, so that a timer armed twice, or left armed
without a handle, can be seen.

`RestartInCatch` says whether a caller may call `start()` in the microtask gap
between `connect()`'s catch and its `finally`. In that gap `connecting` is still set,
so that `start()` returns without an attempt; the `finally` then clears the flag, and
the client would be running with nothing to wake it. No caller in the repository
does this: the providers start each manager once, right after they made it (for
example `upbit.provider.ts:263,373`), and drop it when they stop it. `NeverStranded`
and `EventuallyConnected` are therefore checked, and the former proved, for
`RestartInCatch = FALSE`; all other theorems hold with either value.

*RequestCache and BoundedStaleness.* `Asks` is the call; `HitFresh`, `ServeStale`,
`JoinLoad` and `LoadOnMiss` its four ways on; `LoaderResolves` and `LoaderRejects`
the `.then` and `.catch`, `LoadFinishes` the `.finally` that forgets the promise (a
microtask of its own, during which a call may still join a settled promise). The
refinement mapping is the identity on `now` and `answers`, with
`MaxAge <- StaleTtl + 2 * MaxLoad - 1`: an entry may be used until `StaleTtl` after
it was cached, its data may be one load older than that, and whoever joins a refresh
that fails late gets it another load later. `KimchiSnapshots` implements the same
abstract module twice, once for each of its caches, with its own mapping: there an
answer is what a caller holds after it has read the cache again behind its awaits.

*StreamOrchestrator.* `Start`, `Lists`, `OpensStream`, `StreamStarts` or
`StreamStartFails`, and `StartHealthMonitor` are the awaits of `start()`; `Message`
and `HealthFires` drive the choice between stream and polling; `PollFires` begins a
run, which may overlap earlier ones, and `CallSucceeds`/`CallFails` end it with the
capability's suppression; `StopBegins` and `StopEnds` are `stop()` on both sides of
the providers' await. `overtaken` remembers that `stop()` came while `start()` ran:
the code does not handle that, and `index.ts` leaves the process right after.

*MarketDataStore.* `UpsertTicker` and `AppendTrade` are the whole methods; `Flush`
takes the batch and hands it to a pipeline; `Exec` and `ExecFails` end the oldest
pipeline, any subset of whose commands may have failed. Orderbook, candle and status
keys are scheduled the same way and are not repeated.

*MarketCandleFeed and PrivateStreams.* Both are channels with an interval, an
in-flight flag and a guarded poll; subscribing polls at once and arms the interval.
In `MarketCandleFeed` a poll captures its keys, awaits prices (`Samples`) and then
folds and sends (`Applies`) or gives up (`Fails`). In `PrivateStreams` the three loops
of a poll walk side by side over the *live* sets of their channels, one exchange at a
time (`Answers`, `Fails`, `Delivers`, then `PollEnds`). A client leaves by
unsubscribing, closing, a failed send, a missed heartbeat or the closing of the
server. A second poll slot exists so that a guard which fails to hold is visible.

*PriceAlerts.* `IntervalFires`/`StartWorker` begin a tick behind the `running` flag;
`PricesArrive`, `SkipAlert`, `TriggerAlert`, `Send`, `RecordDelivery` and
`UpdateTriggered` are its steps; `TickFails` and `UpdateMissesRow` the throws that
abort it. Users act between any two of them.

*AuthSessions and Accounts.* A call is a record with its operation, what it read and
which calls had finished when it began. `RefreshReads`/`RefreshWrites` are the two
database calls of a refresh. `SocialBegins`, `Touches`, `FindsLegacy`, `Claims`,
`FindsEmail`, `Links`, `Creates` and `Resolves` are the steps of
`findOrCreateSocialUser`; unique and foreign keys are checked when a row is written
(`MayWrite`, `Creates`).

*PrivateOperations.* A change of a connection reads the row, awaits the exchange's
verdict on the keys and writes in a transaction; an operation that uses one reads the
keys, calls the exchange, marks the connection and, for an order, keeps a record. The
classification of the exchange's failures is in operators (`Codes` and what it is
made of).

The other modules are laid out the same way; each begins with a comment on what it
covers and what it leaves out.

## 3. Runs

Every run that passes explores its whole state space. States are distinct states.

| Run | Question | Instance and bounds | States |
|---|---|---|---|
| `ws_client` | does any interleaving leak a connection or strand a running client? | 2 socket slots, backoff saturating at 1, heartbeat on | 6 thousand |
| `price_alerts` | do ticks on old snapshots push only what is due, and all of it? | 1 alert, 1 token, 2 tick slots, cooldown 2, clock to 2, 2 row ids | 41 thousand |
| `auth_sessions` | do rotation, logout, deletion and expiry hold under overlap? | 4 calls, 2 sessions, 3 tokens each, clock to 1, lifetime 1 | 1.0 million |
| `candle_feed` | is every subscriber fed, and never backwards? | 2 clients, 1 market, 2 buckets, 2 prices, 2 poll slots | 434 thousand |
| `orchestrator` | is an exchange always covered, and quiet after stop? | the periods of upbit/binance, 2 overlapping runs, both configurations | 1.2 million |
| `private_streams` | does a client learn the newest orders and portfolio in order? | 1 exchange, 2 channels, 2 poll slots | 30 thousand |
| `promises` | does what was begun end, and is everyone answered? | six parts under fairness, `MCPromises` | 47 thousand |
| `parts` | are 27 parts safe against everything that can happen in them? | `MCParts`, constants in its instances and its cfg | 1.7 million |
| `price_alerts_once` | is a ONCE alert inactive after a push? **no** | 1 alert, 1 tick | violation |
| `auth_sessions_logout` | does a logout with a current token close the session? **no** | 3 calls, 1 session | violation |
| `private_operations_verified` | are only verified keys used? **no** | `MCParts`, 3 requests on a connection | violation |
| `translations` | does a description without Korean text say why? **no** | 2 callers, 3 texts, 1 restart | violation |

`MCParts` has 27 parts and lets TLC choose one of them in the initial state
(`chosen`); only its actions are taken from then on. Each module has what the
rest of the server does to its part among its own actions (a price that arrives, a
provider that fails, a client that leaves), so that nothing is lost by running them
apart, and the state space is the sum of theirs and not their product. As only one
part has state in a behaviour, 25 of the parts keep theirs in the same variables `x1`
to `x13`, assigned in the `INSTANCE` statements; those a part does not need stay 0. A
property of such a part is stated for the behaviours that chose it
(`chosen = ".." => ..`). The other two, `PrivateOperations` and `RestClient`, are
extended: their variables stay as they begin while another part acts, and the run
checks the very definitions the theorems are about. `MCPromises` is such a sum too, but
under fairness, and there each part has variables of its own: fairness is stated with
the part's `vars`, and a part that is not chosen stays in its initial state; it extends
`Accounts`, `ServerLifecycle` and `MarketDataStore`.

Why these bounds are enough to be interesting:

- *ws_client*: two slots are one tracked socket and one that is still closing; a
  third would be a second stale one, whose handlers do the same nothing. The proofs
  cover any number. The backoff only affects the length of a delay.
- *price_alerts*: one row suffices for every race of a tick with its user, since ticks
  handle rows one after another; a second tick slot shows overlap; a second row id
  shows deletion and re-creation; the clock reaches the cooldown.
- *auth_sessions*: four calls are login, two overlapping refreshes and a closing call,
  or login, refresh, closing call and check. Expiry falls inside the clock.
- *candle_feed*, *private_streams*: one client in the poll and one joining, leaving or
  being dropped; a boundary between two buckets.
- *orchestrator*: the periods are the code's, so the countdowns are exact; the failure
  count saturates where the longest pause is reached. The orderbook and trade
  capabilities run the same code beside the ticker's.
- *promises*: two devices per identity race with each other, a shared e-mail makes
  them race with the sign-up and the other provider; two calls through the cache are a
  loader and a joiner; two connections are one that answers and one that is gone.
- *parts*: the requests on a connection are three (symmetric), with one fault, keys
  that match, that are mixed and that are refused; three cache calls are a loader, a
  joiner and a latecomer; clocks run past the longest retention of the part where ages
  matter, and stop at one where only a boundary does; the fills run through a memory
  of three with four distinct fills; lists are a page longer than their page size;
  three timestamps give every order of a point before, between and after two others.
  What a part's bounds are is read off its `INSTANCE`.

Deadlock is checked where the model has no end of its own: in `ws_client` and
`price_alerts`. The others that pass stop when their clock, calls or clients are used up, or the
process has ended, and have `CHECK_DEADLOCK FALSE`.

## 4. What the properties say

### 4.1 Properties that hold

- **`ws_client`.** `NoLeakedConnection`: a connecting or open socket is the tracked
  one. `StoppedIsQuiet`: after `stop()` no socket is tracked and no timer armed.
  `HeartbeatWhileOpen`: a late close never takes the new socket's heartbeat.
  `NeverStranded`: a running client has something pending that will wake it.
  `ReopenIsAReconnect`: the flag captured at creation is still right at the open.
  `EventuallyConnected`: a client left running connects.
- **`price_alerts`.** `TicksAreSound`: ticks do not overlap and the flag says whether
  one runs. `PushesAreDue`: a push respects the cooldown of the row as it *is*, and a
  spent ONCE alert stays quiet until its user revives it. `DueIsDelivered`.
- **`auth_sessions`.** `TokensSound`: of two refreshes that both succeed with one
  token neither began after the other ended, and the newest token is refused only
  when its session had ended. `SessionsStayClosed`: no call gets through with a
  session that was closed before it began, and none gets a token after the account
  was deleted.
- **`candle_feed`.** `PollsIffSubscribed`, `FeedMonotone`, `EverySubscriberFed`.
- **`orchestrator`.** `QuietAfterStop`, `CoveredByStreamOrPolls`, `RetriedInTime`.
- **`private_streams`.** `CaughtUp`: never backwards, and in the end the newest, a
  portfolio on every new subscription included.
- **`promises`.** `AccountsStay`, `EveryoneSignsIn`; `KeepsPromise`, the refinement of
  `BoundedStaleness` by the provider cache and the Kimchi snapshots, everyone
  answered; `NobodyLeftOpen`; `NothingForgotten`; `WorkEnds`: shutdowns, dead clients, warm-ups, writes to
  Redis.
- **`parts`.** `VerdictOfStoredKeys`, `LedgersBalance` (an exchange's orders and paper
  orders), `SlotsKeepTime`, `CallsAreBounded`, `LabelsAreTrue`, `SnapshotsKeepPromise`,
  `NothingUsableWasKept` (who is refused or told "cold" could not have been given what
  was kept), `NothingLost`, `ImagesResolved`, `PushedOnceAndUpToDate`, `ListsSound`,
  `AnswersAddUp`, `NewsSound`, `CommunityHolds`, `TrendsInOrder`,
  `CandlesWhole`. Each is a property of one part, or a conjunction of properties of
  several, stated and commented in their modules.

Some exclude what the code does not promise, by a history variable that names it:
`QuietAfterStop` (a `stop` during `start`), `NothingForgotten` (values lost with a
failed pipeline, which is not retried), `CaughtUp` (a portfolio sent late to a
subscription that ended meanwhile), `OrderLedger` (an order whose record failed),
`VerdictOfStoredKeys` and `BooksBalance` (requests that overlapped a change).
The fills part speaks of the last `MaxKnown` fills, since the code remembers no
more; it forgets in the order of insertion, so a fill of a quiet market may indeed
come again after 2048 others.

### 4.2 Where the code and its documents differ

Found while modelling, each shown by a run of its own:

1. `docs/api-contracts.md:496` says a ONCE alert is deactivated after a successful
   send. The worker deactivates by the mode of the row it *read* at the start of the
   tick; an alert changed from REPEAT to ONCE meanwhile stays active
   (`price_alerts_once`).
2. `docs/api-contracts.md:61` says logout with a refresh token revokes its session. It
   revokes the row that still has this token's hash; if a refresh of the same
   device rotates the token between the arrival of the logout and its update, no row
   matches, the answer is `loggedOut: true` with count 0, and the session stays open
   (`auth_sessions_logout`).
3. `user-exchange-credentials.service.ts:92` refuses a connection that is not
   verified. `validateStoredExchangeConnection` awaits the exchange and then writes
   its verdict by id (`exchange-connections.service.ts:692`), so that a positive
   verdict on keys that were replaced meanwhile makes the new, refused keys usable
   (`private_operations_verified`).
4. `docs/api-contracts.md:1109` says a description that could not be translated
   carries a reason. `translateBatch` stores an empty translation for each text of a
   failed batch; a later description is served it as a translation, without text
   and without reason (`translations`).

Others were met and are modelled as the code does it, without a run of their own:

- candle snapshots answer `unavailable` in cases where a last known good snapshot
  exists, against `tests/candle-cache-resilience.test.ts:213`;
- a premium computed with the configured fallback rate is not marked
  `FX_RATE_UNAVAILABLE`;
- an item's graph falls back to the ring buffer before the stale previous graph,
  the other way round in `docs/api-contracts.md:394`;
- ecosystem items count as related news of a coin (`docs/api-contracts.md:1222`);
- the cursor of the community's posts and comments is the first item of the next
  page, which the next page then skips (`coin-community.service.ts:525-531`). The walk
  of `Community` therefore misses what its cursors name, and nothing else;
- comments of a deleted author are shown as of '사용자', not '탈퇴한 사용자'
  (`docs/api-contracts.md:110`);
- an Apple login never links by e-mail (`auth.service.ts:697`) and gets a placeholder
  where the e-mail is missing or taken (`:682`), against `docs/api-contracts.md:117-118`;
- a read of a block's row that is under way puts a block that was lifted meanwhile
  back into memory, and a follow that is written after a block's transaction leaves
  its row in the table.

## 5. Fairness

Nothing is assumed that the event loop, the database or a bounded timeout does not
give:

- what is due runs: timers, intervals, settled awaits and microtasks are weakly fair
  (`Flush`, `IntervalFires`, `LeaveCatch`, `LoadFinishes`, ...); where a macrotask is
  disabled only while a microtask is pending, it is strongly fair, since microtasks
  do not starve it (`ReconnectTimerFires`, `StopTimeout`);
- calls end: the REST client has a timeout and a retry budget
  (`LoaderResolves \/ LoaderRejects`, `Samples \/ Fails`, `Answers \/ Fails`);
- the outside world does not fail for ever: a connection attempt, a price, a push and
  a query that are tried again and again succeed at some point (strong fairness of
  `CreateSocket`, `SocketOpens`, `Prices`, `Send(SUCCESS)`, `Answers`). These are
  assumptions on the exchanges and on FCM, needed by the liveness properties only;
- a shutdown's forced exit is a timer of the process (`Forced`), a closing socket
  closes (`Closed`);
- users and operators are under no fairness: nobody has to start, stop, log out,
  subscribe or leave. `Accounts` lets a client try again, which is its premise;
- `CaughtUp` holds once the client has ceased to change its subscriptions
  (`<>[][~ClientActs]_vars`), `RedisCatchesUp` once pipelines have ceased to fail
  (`<>[][~ExecFails]_vars`).

`auth_sessions`, `orchestrator` and `parts` check safety only and have no fairness. In
`StreamOrchestrator`, `CandleSlots` and `RestClient` the clock does not pass a timer
that is due, so their bounded-time properties are safety properties.

## 6. Proofs

Each proof module proves, for every value of its component's constants that meets
the named assumptions, an inductive invariant `IInv` (`Init => IInv`,
`IInv /\ [Next]_vars => IInv'`) and from it the properties the runs check. There is
one lemma per action, with a step per part of the invariant that the action can
disturb. The theorems:

| Module | Theorem | States | Hypotheses |
|---|---|---|---|
| `WsClientProofs` | `TypeCorrect`, `NoConnectionLeaks`, `StopIsFinal`, `OpenKeepsHeartbeat`, `ReopensAreReconnects` | the run's safety properties | `NoSocket` is no slot, a positive backoff limit, Boolean flags |
| | `RunningClientWillWake` | `NeverStranded` | `~RestartInCatch` |
| | `NoDuplicateTimers`, `ConnectsAreExclusive`, `ResyncFollowsReopen` | handles agree with timers; the flag counts the connects; a resync follows a reopen only | |
| `MarketCandleFeedProofs` | `PollsIffSubscribedHolds`, `OnePollHolds`, `FeedMonotoneHolds` | also that at most one poll runs | positive bucket lengths, prices and limit |
| | `LiveCandlesHold` | the live candles' part of `CandlesWhole`, which `CandlesWholeHolds` completes | `LiveAssumption`: a positive length, prices are numbers |
| | `CandlesInTimeHold` | the candle snapshots' part of `LabelsAreTrue` | `CandleAssumption`: natural times |
| | `LastGraphShownHolds` | the list graphs' part of `LabelsAreTrue` | `SparklineAssumption`: fresh no longer than stale, stale no longer than usable (`MARKET_SPARKLINE_*_TTL_MS`) |
| | `TickersNotLostHolds` | the sections' part of `NothingLost` | none |
| | `SnapshotAnswersAddUp` | the snapshots' part of `AnswersAddUp` | none |
| | `PagesCoverHolds` | the lists' part of `ListsSound` | `ListAssumption`: finitely many symbols, what is compared are numbers |
| | `SteadyShownOnceHolds` | the ticker pages' part of `ListsSound` | `PagesAssumption`: finitely many markets, values are numbers, a page has room |
| | `RowsAreMarketsHolds` | the exchange adapters' part of `ListsSound`, all of which is proved with it | `ExchangeAssumption`: finitely many markets; a base is not empty and has no separator in it, a quote currency is none |
| `StreamOrchestratorProofs` | `QuietAfterStopHolds`, `CoveredHolds`, `RetriedInTimeHolds` | the run's three invariants | positive periods, `PeriodAssumption` |
| | `AnsweredInTimeHolds`, `SlotsKeepTimeHolds` | the first part of `SlotsKeepTime`, and all of it | `SlotAssumption`: calls may run, natural times, finitely many markets |
| | `CandlesNotTooOldHolds` | the small graphs' part of `LabelsAreTrue`, and types; with the other parts all of it | `GraphAssumption`: natural sizes and times |
| | `TrendsInOrderHolds` | the trends' part of `TrendsInOrder`, and types; with `TrendOrderedHolds` all of it | `TrendsAssumption`: a day has a length, natural bounds, zero is a figure |
| | `BatchAddsUpHolds` | the small graphs' part of `AnswersAddUp` | `BatchAssumption`: no input is of the market "none", which marks what is unsupported |
| | `EveryTokenAccountedForHolds` | the Kimchi part of `AnswersAddUp`, all of which is proved with it | `KimchiBatchAssumption`: a chunk has room; "all", which a coin without a row is asked for with, is no symbol |
| | `CandlesWholeHolds` | the contract's part of `CandlesWhole` | `ContractAssumption`: a bucket has a length, a limit is at least 1, prices are numbers |
| `AuthSessionsProofs` | `TokensSoundHolds`, `SessionsStayClosedHolds` | an invariant and an action property | `Nobody` is no one, positive bounds |
| `PriceAlertsProofs` | `TicksAreSoundHolds`, `PushesAreDueHolds` | an invariant and an action property | `Nothing` is nothing, natural bounds |
| `RequestCacheProofs` | `SingleLoadHolds`, `ErrorOnlyWithoutStaleHolds`, `ImplementsPromise` | that each step is a step of `BoundedStaleness` or leaves clock and answers alone | `CacheAssumption`: fresh no longer than stale |
| | `SnapshotsImplementPromise`, `ReadyWhileAnyUsableHolds` | `SnapshotsKeepPromise`: the same refinement, for both caches of Kimchi snapshots; the snapshots' part of `NothingUsableWasKept` | `KimchiAssumption`: fresh no longer than stale |
| | `LoadedIsLiveHolds`, `ColdMeansNothingKeptHolds` | the premium rows' parts of `LabelsAreTrue` and `NothingUsableWasKept` | `RowsAssumption`: natural times |
| | `PendingIsCarriedHolds` | the queue's part of `ImagesResolved` | none |
| | `ImagesResolvedHolds`, `ImagesKeptHolds` | all of `ImagesResolved`, types included; the images' part of `NothingLost`, all of which is proved with it | `ImagesAssumption`: the times of the entries lie in the usable one; the clock of the model ends before an entry that is usable expires |
| | `NewsSoundHolds` | `NewsSound` | `NewsAssumption`: a natural time |
| `AccountsProofs` | `AccountsStayHolds` | action property and invariant | `ClientAssumption`, `LegacyAssumption` |
| | `BlockForbidsFollowHolds`, `GoneLeaveNoTraceHolds` | the relationships' parts of `CommunityHolds` | `RelationAssumption`: calls ask for what there is to ask for |
| | `GoneAreNotNamedHolds` | the community's part of `CommunityHolds` that is about deleted users | `CommunityAssumption`: `Nobody` is no user, natural capacity and limit |
| | `WalkAddsUpHolds` | the walk through the posts, with which all of `CommunityHolds` is proved | `CommunityAssumption` |
| `PartsProofs` | `NobodyLeftOpenHolds` | the run's invariant, for any number of connections | none |
| | `NothingForgottenHolds`, `TrendOrderedHolds` | the run's invariant, and the store's part of `TrendsInOrder` | `StoreAssumption`: positive gaps and limits |
| | `SubscribersUpToDateHold` | the public topics' part of `PushedOnceAndUpToDate`, for any number of clients, markets and channels | none |
| | `FillsNotRepeatedHolds`, `NeverToldEarlier` | the fills' part of `PushedOnceAndUpToDate`, all of which is proved with it, and types; the safety in `CaughtUp` | `FillsAssumption`: the channels are the code's, memory and answers of an exchange have room |
| | `CallsAreBoundedHolds` | the run's invariant | `RestAssumption`: at least one attempt, a positive timeout, natural delays |
| | `VerdictOfStoredKeysHolds`, `OrderLedgerHolds`, `OperationsTyped` | the run's invariant, the exchange's part of `LedgersBalance`, and types | `OpAssumption`: finitely many requests, failures of known classes |
| | `PaperBooksBalance` | the paper orders' part of `LedgersBalance`, all of which is proved with it | `PaperAssumption`: finitely many orders, at least one coin, prices and quantities are numbers, natural cash |

The assumptions are on constants only and each is evaluated by TLC in a run. Those
whose modules are instantiated or extended together are definitions that the theorems
take as hypotheses (`CacheAssumption`, `StoreAssumption`, `RestAssumption`,
`OpAssumption` and all of those about an instance); TLC evaluates them as
`PartsAssumption` and `InstancesAssumption` of `MCParts`, `PromisesAssumption` of
`MCPromises` and a part of `KeepsPromise`.
`RestAssumption` says of the powers in the backoff that they are natural numbers,
since `^` means nothing to the provers; the bound itself does not depend on them. The
bounds that a model has for TLC (`MaxTime`, `MaxTokens`, `MaxId`, `MaxFlight`,
`MaxFaults`) are constants too: the theorems hold for any value of them.

Why the invariants are what they are:

- **`WsClient`.** That a live socket is the tracked one is not inductive: a
  `connect()` that awaits its request could create a second one. `ConnectIsExclusive`
  excludes that: while a request is awaited no socket is live. `TimerInv`: handles
  agree with armed timers, and what `stop()` cleared stays cleared until `start()`, as
  no path that could arm anything passes its `stopped` check in between. `AttemptInv`:
  the flag `connecting` counts the calls between guard and `finally`, and a call in
  its catch has left a reconnect behind, which carries `NeverStranded` through the
  `finally`. `ResyncInv`: the captured flag agrees with the opens processed so far
  while a socket is connecting, since only one socket can be live.
- **`MarketCandleFeed`.** A client's candles stay in order because everything it was
  sent is behind the live candle (`ReceivedBehind`), and a live candle is folded from
  prices no older than its own (`CandlesBehind`, `PricesBehind`), which needs that
  there is one poll at a time (`OnePoll`). The interval's part needs that who has
  gone has no subscription (`SubsRegistered`).
- **`StreamOrchestrator`.** `StageInv` ties the two timers to the stages of start and
  stop; `CoverInv` counts down to the monitor's next look: the silence so far and
  what is left of the period stay below the threshold and one period; `AttemptInv`
  does the same for the last attempt, the pause and the poller's next run. The
  longest pause is a lemma of its own (`SuppressBounded`).
- **`AuthSessions`.** `RotationInv` orders the tokens that rotations replaced: what
  a finished one replaced is smaller than what any later one found. `NewestInv` and
  `ClosedInv` carry what was true when a call began or failed to the moment it ends;
  `OwnerInv` that a login's session belongs to who logged in.
- **`PriceAlerts`.** `SnapshotInv` is the heart: of each alert that a tick has yet to
  handle, the row it read is of an id that is not spent, and if the row still exists,
  its last push is the one the tick knows, whatever users did to it. `RowInv` says ids
  are not used again. It is why one tick at a time is not only tidy: a second tick
  would break it.
- **`RequestCache`.** `MapInv` says that the load in the map is the only one and that
  who waits, waits on it; `EntryInv` that nothing newer than the entry was handed out;
  `LoadInv` that the entry does not change under a load and what its promise was
  resolved with is the entry's data. From these each action is a step of the abstract
  module: an answer that is not older than what its caller could know of.
- **`Accounts`.** `Lasts`: what a sign-in returned is what the identity's row says, if
  there is such a user still. It rests on unique e-mails, on identities of users that
  exist, and on ids that are not used again.

- **`ServerLifecycle`.** `ServerInv` ties the server's state to the stage of the
  shutdown. When the servers close, all clients are made to close and the maps are
  cleared at once; from then on a verified upgrade finds a server that is not running
  and welcomes nobody, so that what is closed stays empty.
- **`MarketDataStore`.** `StoreInv` looks at Redis, the pipelines under way and the
  pending batch as one queue: of each key that was not lost, the last entry that is not
  empty is the newest value. A flush appends to the queue, an update replaces in its
  last entry, a pipeline merges its first two, and each keeps that. A pipeline that
  fails can only take the newest value of a key that no later batch carries, which is
  when the key is counted as lost. The trend rests on a lemma about `Recorded`: a point
  is moved only if it is the last one, and never back.
- **`PublicFanout`.** `FanoutInv` adds two things to the property: what was published
  of a topic is never newer than what the store holds, so that a snapshot on subscribing
  is at least as new, and who has yet to connect subscribes to nothing. A client that is
  too slow leaves `open` in the step in which it misses a message.
- **`RestClient`.** `RestInv` bounds the time by what the attempts so far may have
  spent (`Spent`), from which the running timer or delay takes its share. Multiplication
  is the only difficulty, and has two lemmas (`TimesGrow`, `SpentInAttempts`).
- **`PrivateOperations`.** `PrivateInv` has a part per request, which says what a
  request knows at each stage of it (`RequestInv`), and parts for the row (`RowInv`),
  the ids (`IdsInv`: the removed ones are 1 to n, and there are no more of them than
  requests that are done, which is why an id is never used again) and the books
  (`BooksInv`). Two lemmas about frames (`OthersStay`, `KnownStays`) carry the requests
  that do not act through every step of one that does. That a row which tells its user
  to sign in again was refused (`Refused`) stays true because a request that is past its
  mark never changes. The proof of the mark did not go through at first: the
  classification was a `CASE` with overlapping guards, which leaves open in which order
  they are tried. It is an IF chain now, here and in the other modules.

- **`KimchiSnapshots`.** `SnapInv` has the argument of `RequestCache` once for each
  kind: nothing in a cache was old when it was stored (`CacheOk`), the snapshot does not
  change under a load (`LoadOk`), and nothing newer than it was handed out (`CallOk`).
  A step is first a step in terms of all answers (`PromiseKept`), then one of
  `BoundedStaleness` for the kind it is about and a stutter for the other.
- **`KimchiRows`.** `KeptInv`: what was received last is what is kept, the provider's
  memory always has a rate, and a load that goes on without one has found that it could
  get none. A row that is cold found nothing, since what it could find is what is kept.
- **`LiveCandles`.** That the candle in the store is the live one and contains its
  prices (`LiveInv`) is inductive; that a client is shown no other is about the one
  step in which a snapshot that was awaited is compared with the store.
- **`CandleSnapshots`.** `SnapshotInv` is little more than types: every source looks
  at the age when it answers, and the proof goes through all of them.
- **`MarketSparklines`.** What a caller is owed is the graphs that were usable when it
  asked. `Owes` says where each is: shown already, or in the fallback the call keeps,
  whichever refresh overwrites the cache meanwhile; `Paid`, that it is in the answer;
  `InItsTime`, that nothing else is older than its source allows.
- **`MarketSections`.** `TickersNotLost` is about one step and needs no invariant: it
  rests on the order in which store and provider are asked, for any set of exchanges.
- **`CandleSlots`.** A list is due at a time that was fixed when it began. A call of it
  that sleeps does so until a slot inside that time, and one that was made was made
  inside it (`JobInTime`), however far ahead others have pushed the next slot.
  `FlightInv`: each key in flight is held by one, the queue of what is deferred or one
  warm-up (`OneHolder`), since what a warm-up is given repeats no target and a key is
  taken when it is given.
- **`SparklineGraphs`.** `CacheInv` bounds until when an entry is used by the time of
  the candles in it, one call's timeout and the usable time. `JobSound` says what a
  call holds: what it has in reserve is of the ring buffer, never candles, and the row
  it would be given is young enough.
- **`Relationships`.** `CallOk` is what is true of a request under way. Its heart: of
  the blocks that were in a follow's way when it began, those that memory lost in a
  restart have been in the table ever since, so that a read that succeeds finds them;
  those that memory did not lose it has. No request that takes a block away is under
  way while the block stands. `GoneInv` says of a deleted user nobody named since that
  no table names it, and that memory does not either once no call is left to forget it.
- **`AssetImages`.** `QueueInv`: whoever empties the queue's timer begins a batch, and
  whoever ends a batch looks at the queue again. `ImagesInv`: memory is written before
  Redis, so that as long as memory has nothing for a key, each reply of Redis that is on
  its way agrees with what Redis has; a key that an eager call lacks is in the queue or
  in the batch, and after each pass of a call it is in the batch the call waits for.
- **`MarketSnapshots`.** `EntryInv`: the failures kept beside the items of an entry are
  those of its items, so that what an answer projects out of the entry accounts for each
  symbol, whichever refresh made it.
- **`MarketLists`.** `WalkInv`: a walk has shown what is placed before its offset, once.
  A page goes on where the last one ended, and the last one shows the rest because no
  item has as many before it as the list is long, which rests on no item coming before
  itself (`PlacedInList`).
- **`TickerPages`.** `PagesInv`: a market that did not move while a reader walked was
  shown if and only if it is not behind the cursor. It rests on the places being in a
  strict order, ties broken by the market.
- **`ExchangeTickers`.** `RowsInv`: of the markets that were asked for each is to come, in
  the rows once, missed with its chunk or without a price. It rests on the spellings: what
  an exchange is asked for is parsed back to the market it was spelled from
  (`ParsedBack`, `SpellingsDiffer`).
- **`ContractCandles`.** `CandlesInv` says that what is kept in the short cache, as the
  last good answer or in the load is right for the time it was fetched at, and
  `RightStays` that it remains so, as the trades of that time do not change. What a fetch
  gives is a lemma of its own (`FetchedWhole`): the candles are added one by one, and
  after each the buckets are the sums of those so far (`BucketsAre`); a bucket that is not
  the first of the newest hours has all of its own (`LaterIsNewer`); and unless the cap
  cuts in, the hours that were asked for fill more buckets than are shown, as no bucket
  has more hours than its length (`FewPerBucket`), so that the first is not shown.
- **`MarketTrends`.** `TrendInv` has types, the order of both series and a point a day.
  Places are given by how many come before, which makes the order of what is sorted a
  matter of counting.
- **`SparklineBatches`.** `BatchInv`: what was taken from the targets and no worker has is
  done, at its place. That the inputs add up rests on each key having one first place.
- **`KimchiBatches`.** `KimchiInv`: a chunk that is settled has a row for each of its
  symbols, or tells why not.
- **`PrivateStreams`.** `StreamInv`: while the client is connected, what it was sent is
  what the server remembers, so that the memory is what decides. One poll runs at a time
  (`OnePollInv`), and what it waits with is not older than what the client has. What a
  poll sends is a recursive function over what the exchange returned; that it exists
  (`AfterExists`) and what it keeps at each place is argued by a smallest counterexample.
- **`NewsFeed`.** `NewsInv`: what is kept expires when its time is over, what a call
  writes it fetched since it began, however many calls overlap, and the items that are
  kept are pairwise apart in url and title.
- **`Community`.** `NamedInv` is the property and types. A deletion that ends takes the
  user's name off the posts that are kept and off what is kept under posts that are not;
  a request that names the user afterwards was authenticated before it, and makes the
  user `late`. `WalkInv`: what was seen is ahead of the cursor, what is not behind it is
  accounted for (shown, named by a cursor, or hidden since its author was blocked).
- **`PaperOrders`.** `PaperInv` has what a call knows at each stage (`PaperCallOk`): a buy
  past its check can pay from the cash it read, a sell past its check has what it sells
  in the holding it read, so that the absolute values they write are not negative even
  when they are out of date. While no two orders overlapped, what was read is what is
  committed (`ReadIsCommitted`), and each commit adds one order to the sums. That needs
  what a sum over a set is when one is added to it or left out (`SumOverFacts`), for the
  fold of the library that the model uses. There is no induction theorem to cite, as
  they all take an operator; the lemmas argue by a smallest counterexample instead
  (`Least`, from the well-foundedness of the natural numbers), first that the recursive
  function of the fold exists at all (`SumExists`), then what it computes. The same
  argument carries the recursive functions of `PrivateStreams` and `ContractCandles`.

What is only model-checked, and why:

- liveness (`EventuallyConnected`, `DueIsDelivered`, `EverySubscriberFed`, `CaughtUp`,
  `EveryoneSignsIn`, `WorkEnds`, the part of `KeepsPromise` that everyone is answered):
  fairness and `ENABLED` are out of the prover's reach;
- what becomes of an image after its entry has expired: `ImagesAssumption` ends the clock
  before that, as the run does. No time passes in the model while a reply of Redis is on
  its way, and a proof over an expiry would be about that clock and not about the code;
- the four runs that find a violation, which show one behaviour each.

Each safety property of a passing run is proved, the conjunctions part by part as the
table says, but for the `TypeOK` of `Relationships`, `Community` and `ExchangeTickers`
that stands beside others in `CommunityHolds` and `ListsSound`. What folds over a sequence, sorts or selects in the code is written by ranks,
sets, closed forms or recursive functions in `MarketTrends`, `CandleSlots`,
`PrivateStreams`, `NewsFeed`, `Community`, `TickerPages`, `ExchangeTickers`,
`SparklineBatches`, `KimchiBatches` and `ContractCandles`, since `SelectSeq`, `SortSeq`
and the folds of the library over sequences mean nothing to the prover. `Ordered` of
`ContractCandles`, for example, is the sequence whose n-th element has n elements of the
set up to it. The runs check these definitions too.

The run of `ContractCandles` has a limit that the exchange's cap cuts into, the case with
an exception; the theorem has both.

## 7. Plan

1. Models: the orderbook and trade capabilities in `StreamOrchestrator`, the
   subscription plan as an operator against a reference definition, the exchange
   providers' parsing.
2. `AssetImages` past the expiry of an entry, with time passing while Redis is asked.
