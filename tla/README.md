# A TLA+ model of the trading platform

The repository is a leveraged CFD trading platform: a trading engine without matching
that keeps all balances and positions in memory, fed by one Redis stream, and a set
of services around it. This directory holds TLA+ modules translated from the source,
TLC configurations that check them on small instances, and proofs that TLAPS checks
for every value of the constants.

    tlc -config MCTrading.cfg MCTrading      # one of the runs below
    tlapm TradingProofs.tla                  # the proofs of one component

## 1. Inventory

| Part | State | Operations | Talks to |
|---|---|---|---|
| **Price poller** `apps/price-poller` | none | on each Binance trade: quote = trade -/+ 0.1 %, append to the request stream, publish on `market:*` | request stream, pub/sub |
| **HTTP backend** `apps/http-backend` | waiters by request id (`packages/redis-client/subscriber.ts`) | sign-up (create user, register in engine, roll back), sign-in, ticket, place / close / query order: check engine status, register waiter, append request, await answer or 5 s timeout | request stream, response queue, engine status key, PostgreSQL |
| **Liquidation engine** `apps/liquidation-engine` | users, orders (memory); `currentStreamId`; status key and `market:` keys in Redis; snapshots in PostgreSQL | consumer loop, six request handlers, price pass with automatic closing, snapshot timer, cleanup timer, recovery, shutdown | request stream, response queue, response stream |
| **Database worker** `apps/db-worker` | position in the response stream | upsert every closing it sees | response stream, PostgreSQL |
| **Batch uploader** `apps/batch-uploader` | position, buffer | collect trades, insert by the hundred, trim the request stream | request stream, TimescaleDB |
| **Realtime server** `apps/realtime-server` | connections by client id | authenticate by JWT or one-time ticket, replace, broadcast, heartbeat | pub/sub, Redis tickets |
| **Price utilities**, **stream types**, **validation** `packages/*` | none | fixed-point arithmetic, message shapes, Zod schemas | |
| **Web application** `apps/web` | session cookie; order lists, socket (trade page) | sign in and out, redirects, poll orders and balance, close an order, price feed with a ticket | HTTP backend, realtime server |
| Docs site, landing page, UI kit, Prisma schema, SQL views, containers | | rendering, declarations, configuration | |

What is hard in it:

* **One thread, many awaits.** The engine's consumer takes one message at a time, but
  wherever it awaits Redis the snapshot timer, the cleanup timer and the signal
  handlers run. The close handler reads an order, awaits the price and pays by the
  order it read; the price pass captures a list of orders and awaits between them.
* **Recovery.** Memory is rebuilt from the newest snapshot and the stream after it.
  Correctness rests on `lastStreamId`, on the replay repeating what the consumer did,
  and on where the consumer starts afterwards.
* **Three sinks.** The same event changes memory, goes to the response queue and to the
  response stream; a crash or a failure may fall between any two.
* **Integer arithmetic.** Margin, liquidation fraction, liquidation price and profit
  are truncated one by one.
* **Timeouts, restarts and trimming** in the services around the engine.

What makes each component correct:

* engine memory: the two indexes agree; an order's life is open -> closed or
  liquidated -> removed and its terms never change; money moves only by grant, margin
  and settlement; each position due at a price is closed at it; every closing is
  published; a response is true when it is sent;
* arithmetic: the margin call is neither late nor early and comes before the margin is
  gone; a fresh order survives its own spread;
* engine process: each request applied once, in order, and answered; nothing skipped by
  a recovery but what had been cut from the stream; margin calls caught up with; a
  snapshot holds what its position says; a start completes; a shutdown loses nothing;
* backend: a waiter is registered exactly while its promise is pending, no answer is
  passed over, every handler returns, a failed sign-up is rolled back, and what a caller
  is told is what the engine did, one of the times it applied the request;
* worker and trade page: the table holds first closings, nothing read is lost without a
  failure, a page shows no order as closed that was not, and one that stays open comes
  to show what the engine and the table say;
* realtime server: a connection that is authenticated gets the prices, one that is not
  does not stay, one that has vanished is dropped;
* uploader: every trade read is in one place.

The full list of hazards, each at its line, is in `PROJECT.json`.

## 2. Modules

| Module | Stands for | Notes |
|---|---|---|
| `PriceMath` | `packages/price-utils`, `utils/liquidation.ts`, `utils/validation.ts`, the poller's quote | operators only; `PRICE_SCALE` is a constant (10^8 in the source) |
| `Maps` | JavaScript `Map` | empty, put, delete |
| `Ledger` | nothing: abstract specification | what each user is owed, and what a close may pay |
| `Trading` | `StateManager`, `RequestHandlers`, `PriceMonitor` | messages come from an arbitrary environment |
| `Engine` | `index.ts`, `SnapshotManager` | extends `Trading`: stream and its cutting, recovery, snapshots, shutdown, crash |
| `RemoteCall` | nothing: abstract specification | what a caller of the HTTP backend may rely on |
| `Backend` | `http-backend`, `redis-client/subscriber.ts` | implements `RemoteCall`; its environment is an engine that may apply a request again |
| `Realtime` | `realtime-server`, ticket controller, the page's socket | |
| `DbWorker` | `db-worker` | its environment is an engine that restarts and may lose publications |
| `History` | trade page (orders, session), sign-in page, web middleware, closed-orders query | extends `DbWorker`: the page shows what the engine and the worker's table say |
| `Uploader` | `batch-uploader` | with the request stream |
| `TradingProofs`, `EngineProofs`, `BackendProofs`, `RealtimeProofs`, `DbWorkerProofs`, `UploaderProofs` | | theorems, one module per component; `EngineProofs` extends `MoneyProofs` and that `TradingProofs`, as `Engine` extends `Trading`, and `DbWorkerProofs` covers `DbWorker` and `History` |
| `MoneyProofs` | | `Trading` implements `Ledger`; the margin call and what it leaves of the margin |
| `Extrema` | | every nonempty set of naturals has a smallest, every bounded one a largest member |
| `MCTrading`, `MCEngine`, `MCBackend`, `MCRealtime`, `MCHistory`, `MCUploader` | | instances for TLC |

### Trading

`users`, `orders` and `market` are the maps of `StateManager` and the `market:` keys in
Redis. `pc` is where the consumer loop stands; each await at which the environment can
change something the code reads later is a value of it: `"price"` (the close handler
awaits the price), `"respond"` (the response is being published), `"pass"` and
`"publishLiquidation"` (inside `processMarketUpdate`). `closing` is the closure of the
close handler, `tick` and `scan` that of the price pass, `response` the message being
published, `published` what the response stream has carried. The place handler also
awaits the price, but reads nothing before the await that could change during it, so it
is one step.

`HandleRequest` is the router, with one disjunct per request type. `CloseAtPrice` is
the second half of the close handler. `ProcessMarketUpdate` captures the open orders;
`SkipOrder`, `LiquidateOrder` and `PublishLiquidation` treat the first one left. The
timers are `AgeOrder` (an order reaches the retention age, which the code counts from
its creation, not from its closing) and `CleanupOldClosedOrders`.

Abstractions: order identifiers are 1, 2, 3, ... (random and never reused in the
source); a price or quantity is an exact decimal, where the source has a double; a
response carries the ids it shows and the closing it reports instead of whole orders;
time is only "older than the retention period or not".

### Ledger

Each user has `cash`; each order is an account that is `locked`, `paid` (closed by its
owner), or `auto` (closed by the engine). `Trading` implements it through
`AccountOf`/`HeldOrders`: a close request in flight keeps the order it has read alive
after the cleanup has dropped it. `PayAgain` is what the code really does with an order
that was closed automatically; `PaidOnce` says it should not.

### Engine

`stream` is the request stream, its identifiers are positions. `TrimStream` cuts it from
its start at any moment (`trimmed`), down to `KeepLength` messages: the backend's XADD
does so at about 100000 (`stream.ts:11`, `:38-54`), the uploader at about 10000
(`processor.ts:84`), which is the limit that counts. A read finds what is left
(`ReadFrom`). `phase` is where
`initialize()` and `main()` stand: `loading`, `replaying`, `seeding` (the orders are
checked once at the last prices), `announcing`, `running`. `batch` is what is left of
the XRANGE or XREAD result. `saving` are snapshots captured whose insert has not
committed, `snapshots` the rows. A crash keeps what is in Redis and PostgreSQL and lets
any subset of the inserts in flight have reached the table. `stopping` and `final` are
where `shutdown()` stands: its final snapshot may come in any phase, and the timers run on
until it clears them (`TimersRun`), or for good when the signal came before `main()` has
started them. What may fail is the publication of a response, that of a liquidation, the
write of a price (`PriceFails`) and the insert of a snapshot.

`applied` and `unread` are history variables: the requests this memory was built from, and
the messages no read has given it, because they lay before its first start or had been cut
by the time of the read. They are saved and restored with the memory. `met`, the assets
whose orders this process has checked at their last price, or will at the end of the
replay, is history too, and is lost with it.

Not in `Engine`: malformed messages (skipped with a log line), overlapping signals, a
second engine process.

### Backend and RemoteCall

A call is one invocation of a handler; a sign-up call is named by its user. `stage` is
the await a handler stands at, `promise` the state of the promise of its waiter,
`callbacks` the subscriber's map. `sendRequest` is four steps: `CheckEngineStatus`
(which also registers the waiter), `AppendRequest` and `PublishRequest` (the XADD takes
effect, then resolves) and `TakeAnswer`; `PublicationFails` is the XADD rejected,
executed or not. The subscriber's `runLoop` is `ReadQueue`, `DispatchAnswer` and
`DeleteAnswer`, one entry at a time, with `ReadFails` for a broken connection; a reader
that is blocked gets a new entry from `EngineAnswers` in the same step, as Redis serves
it. `Timeout` of a waiter nobody awaits is an unhandled rejection and stops the server.
`Signal`, `Exit`, `Crash`, `Restart` are the process. A new process listens before its
first XREAD has reached Redis: `since` is what `"$"` stood for once it has.

Of the engine a backend sees what it decides and when it answers. `EngineDecides` applies
a request, in any order or never; `verdict` is the set of the error codes it came to,
because it may apply a request again: after a publication that failed as the last of a
batch (`index.ts:316`) or in the replay after a restart. The response in its hands
(`reply`) is published or given up. What the codes may be (`ErrorsOf`, `Possible`) is
that of `RequestHandlers.ts`; that a request is taken from the stream, by which batch and
in which life, is the business of `Engine`.

Abstractions: statuses of a handler are the HTTP codes, bodies are left out; of the
engine's error codes those that a handler treats alike are one; a request is in the stream
or not; the queue is not cut (its XADD keeps about 1000 entries, which a reader that
deletes what it reads does not reach). The database of users is `rows`, a session is
membership in `tokens`.

`RemoteCall` has a set of effects and an outcome per call. An outcome is "done" or
"refused" only when an answer of the engine was taken, and then one of the effects; every
other status maps to "unknown". That both effects are possible is what the code allows,
and the first of the weaknesses below.

### Realtime

`conn` is the socket's readyState, `clients` the map by client id, `task` where
`handleTicketAuthentication` stands between its two awaits. Both sides may close; the
"close" event (`HandleClientDisconnect`) comes any time after. A silent socket is one
whose peer is gone without a word: only the heartbeat finds it. `Receivers` is whom the
broadcast of a price reaches. Trade pages draw a client id of their own
(`RealtimeAssumption`); API clients may reuse one. Prices themselves, statistics and the
welcome messages are left out.

### DbWorker and History

A closing is its place in the response stream, the table maps orders to closings. The
worker begins at the end of the stream each time it starts, so its position is lost with
the process. The stream is cut by every XADD (`stream.ts:80-86`): a worker that lags finds
what is left (`Cuts`), and `unread` is what it can no longer come by.

Of the engine the module keeps the status of each order and what is published of it. A
publication may fail after the status has changed. `EngineRestarts` goes back to the last
snapshot and replays: `Recovered` says what may become of each order, and `reopened`
remembers those that were closed and are open again. The close price it computes is not
carried: see the weaknesses below.

`History` puts the trade page beside it. `FetchOrders` starts a poll; its two requests
are answered in any order (`GetOpenOrders` by the engine, `GetClosedOrders` by the
table), `ShowOrders` sets both lists when both are there, `FetchFails` leaves them.
`HandleCloseOrder` moves an order on the page when its close request is answered. The
session is `cookie`, `route` is where the browser is, `Redirected` the web middleware.
One tab; the order form and the chart are left out.

### Uploader

The positions of the request stream are numbers; entries up to `trimmed` are gone. XREAD
from `"$"` is resolved anew until the first entry arrives (`ReadLatest`, `ReadNothing`).
The flush by time is a free choice when something was read, as in the code it is only
looked at then. `XTRIM MAXLEN ~` may leave more than asked. The history variables
`seen`, `dropped` and `overtaken` account for the trades.

## 3. Runs

| Run | Instance | Shows |
|---|---|---|
| `trading` | 2 users, 1 asset, 2 prices, 2 orders, every kind of request | book, life cycle, freshness of what is read before an await, completeness of a pass, publication, truth of responses, return of the consumer (liveness), refinement of `Ledger` |
| `prices` | 1 user, 1 order, 11 prices, leverages 1, 3, 7, 50, 100, quantities 0.37, 1, 2.5, `PRICE_SCALE` 1000 | the arithmetic |
| `steady` | 1 user, 5 messages in batches of 2, one life, no failure | once, in order, answered (liveness), `Engine` implements `Trading` |
| `shutdown` | 3 messages on a stream cut to 2, 2 lives, 1 signal, 2 snapshots of which 1 is kept, an order that is stopped at the first tick | nothing skipped; the final snapshot is what the next start restores and loses nothing that was not cut, also after a signal in `initialize()` and with overlapping inserts; the start completes (liveness) |
| `restart` | 4 messages (sign-ups, orders, prices 9 and 10) on a stream cut to 3, 2 lives, 1 snapshot, 1 failure | nothing skipped by the consumer or a snapshot, book consistent after a restore, every life trades as `Trading` allows; once a recovery has checked the orders no margin call is outstanding |
| `backend` | 1 server, 1 sign-up, 1 call (close, or closed orders), 1 fault, 1 upset (failed read, signal, crash or request applied again) | waiters, no answer missed, sign-up with rollback, every handler returns (liveness), refinement of `RemoteCall` |
| `realtime` | 1 trade page, 2 sockets of one client, 2 authentications, 1 failure | broadcast reaches everybody it should, nobody stays unauthenticated, vanished peers are dropped (liveness) |
| `history` | 1 order, 2 polls in flight, 2 responses on a stream cut to 1, 1 failed insert or poll, 1 upset (restart of the engine, end of the worker, lost publication) | the table is faithful, the page shows no order as closed that was not and converges to its two sources, a session that is gone leaves the page (liveness) |
| `uploader` | 5 entries, batches of 2, trimming to 2, 1 failure, 1 stop | every trade read is accounted for |
| `paid_once` | as `trading` | **violated**: a liquidated order is paid again |
| `resume` | 2 lives | **violated**: the consumer restarts from `0-0` |
| `scaled` | 2 servers, 2 sign-ups | **violated**: a server deletes the answer another one waits for |

Why the bounds are enough. Two orders are the least for a pass with something left to do
after a publication, and for one user's order to be touched through another's. Two prices
make a 10x position due and not due. In `shutdown` the shortest interesting stream is
sign-up, price, order; its stop loss is due at the very price that opened it, so the
seeding of the recovery and the consumer both liquidate. In `restart` a 10x position is
opened at 10, saved or replayed, and called at the 9 that the replay only stores; the
scale of 1000 satisfies `LargePrices`, on which the proof of the property rests. Two
snapshots are the least for inserts that overlap. A stream that keeps one message fewer
than are ever appended (`KeepLength`) can lose the first of them, the sign-up, before or
after it was read, saved or replayed. Five messages in `steady` allow sign-up, price,
order, a price that closes it, and a request after it. The engine's instances stop when
their bounds are used up (`MaxStream`, `MaxStarts`, `MaxStops`, `MaxSnapshots`,
`MaxFailures`): their configurations switch the deadlock check off for that reason and for
no other. `trading` and `prices` check it. In `backend` a handler returns once and
processes end; in `realtime` the server exits when all sockets have closed; in `history`
and `uploader` the bounds and the end of a process stop the system: they switch the check
off too.

One server and one call are enough for a waiter to meet a timeout, a stop, a late answer
and a second one; two servers are what `scaled` needs. Two sockets under one id are the
least for a replacement whose close event comes late, and the page beside them has an id
of its own. In `history` two responses are an opening and a closing, a liquidation closed
again, or a closing before and one after a restart, with `KeepLength` 1 the first of them
may be cut, and two polls are the least that can overtake each other. Five entries let the
uploader trim twice around a batch that failed.

`PRICE_SCALE` is 100 or 1000 for TLC; every constant of the arithmetic is scaled with
it, and small scales make roundings larger, not smaller.

Fairness. `FairSpec` assumes that once the consumer has taken a message it goes on: the
awaits of one thread resolve. `EngineFairSpec` assumes the same of `initialize()` and
of the consumer, and that the process is started (the container restarts it). Nothing
is assumed of users, prices, timers, signals, crashes or failures there.
`Backend.FairSpec`: Redis and the database reply or reject, so a handler goes on, and
the five-second timers fire; nothing of the engine, the other servers or the subscriber,
so a handler returns even if no answer ever comes. `Realtime.FairSpec`: timers fire, the
two Redis calls of a ticket reply or reject, and the socket library emits the close
event of what was closed. `HistoryFairSpec`: the page's polls go on and its awaits
resolve; nothing is assumed of the worker, the engine, the user or the session, which is
why `PageConverges` is about pages that stay open in a valid session.

### What the violations mean

1. `PaidOnce`. Only `CLOSED` is rejected at `RequestHandlers.ts:273`; a `LIQUIDATED`
   order stays in memory for up to two minutes and can be closed for margin and profit
   again.
2. `ConsumerResumes`. `currentStreamId` is never set from the snapshot. If no request
   follows the snapshot, the consumer applies the whole stream again.
3. `ScalesOut`. All servers read one response queue from their own position and delete
   every entry they have dispatched (`subscriber.ts:104`), with or without a waiter for
   it. A server that reads later does not find its answer and its caller times out,
   while `README.md:446` of the repository promises horizontal scaling.

### Known weaknesses

Visible in the models or met while writing them. Some are the exceptions that a property
names; on the others no property is spent.

The engine and what its callers hear:

* A request is applied again when its publication fails as the last of a batch
  (`index.ts:316`) and when a restart replays it. A close that took effect is then
  answered `ORDER_ALREADY_CLOSED` (`RequestHandlers.ts:273`), a 400 for what was done; a
  sign-up is told of an existing user and deletes the row of one that the engine keeps.
  Failing earlier in the batch, the request is passed over and never answered.
* The replay skips the price checks (`index.ts:144`): a liquidated order is open again,
  until the check before `READY` takes what is due at the last price of the replay. If the
  price has recovered by then it stays open, while the table has it as closed and the page
  shows it in both lists. An asset without a price in the replay is not checked before its
  next price. The replay also drops its responses (`index.ts:183`): closings not sent
  before the crash never reach the database.
* A signal while `initialize()` loads saves an empty memory at `0-0` as the newest snapshot.
  The next start replays the whole stream, and of a stream that has been cut only the rest:
  the users and balances of the older snapshot are gone.
* The replay window is the uploader's 10000 entries (`processor.ts:84`), read or unread,
  and not the 100000 that `stream.ts:11` keeps as the "event replay safety limit".
* Order identifiers are drawn when a request is applied (`RequestHandlers.ts:206`): the
  replay gives acknowledged orders new names.
* A snapshot between the effect of a request and the move of `currentStreamId` makes the
  replay apply the request twice; `initialize()` may overwrite `SHUTDOWN` with `READY`.
* When the write of a price fails, the pass over its orders is skipped (`index.ts:277`,
  `:328`) until the next price.
* A stop loss is compared with a profit (`liquidation.ts:191`): it is an amount, while
  its callers treat it as a price.

The services around it:

* `subscriber.stop()` says it rejects the waiters and resolves them: order handlers
  answer 400 for a request the engine may carry out. The branch for 504 looks for
  "timeout" in a message that says "Timeout" and never runs. QUIT waits behind the
  blocked XREAD of its own connection. A server listens before its first XREAD has reached
  Redis; an answer added in between is not read (`subscriber.ts:55`).
* Closings published while the database worker is down are never persisted, nor is one
  whose insert failed (`db-worker/index.ts:161`, `:77`), whose publication failed
  (`PriceMonitor.ts:91`), or which the stream had lost when a lagging worker came to it
  (about 10000 responses, `stream.ts:83`). The close price of a row
  (`db-worker/index.ts:43`) leaves out the price scale and hardly differs from the
  execution price.
* An expired token is a 403, which the trade page ignores, and the web middleware sends
  `/signin` back to `/trade` while the cookie lasts.
* The uploader's flush timeout is only looked at when messages arrive.
* The realtime server stops its heartbeat and then waits for every client to close. Two
  connections with one ticket may both look it up before either deletes it; the second
  look-up is not modelled.

## 4. Proofs

`TradingProofs` proves, for any sets of users, assets, payloads, requests and prices and
any bound on the orders:

* `TypeCorrect`, `BookAlwaysConsistent`, `AwaitedReadsAlwaysFresh`: state invariants of the
  run `trading`;
* `OrderLifecycleHolds`: the action property;
* `ClosingsAlwaysPublished`: no closing is lost;
* `PassAlwaysComplete`: a price tick reaches every position of its asset;
* `ResponseAlwaysSound`: a success tells its user his balance and orders of his own;
* `ZeroSumHolds`: the two sides of a price are mirror images to the last unit, since
  BigInt division truncates toward zero (`TruncDivOdd`).

The assumptions are `PriceScaleAssumption`, `TradingAssumption` and `NoneAssumption`:
the scale is positive, payloads and prices have their types, and "null" is not a
closing. TLC evaluates them in every run.

The argument. None of these is inductive alone. `ScanFresh` needs to know that in a pass
no close request is in flight and that the tick is a tick (`ControlOK`: what the closure
variables hold at each `pc`); the book needs that a new identifier is not in use
(`IdsFresh`); `OrderLifecycle` needs `CloseCallFresh`, since the close handler overwrites
the order in memory by what it read before the await; that in turn needs that the cleanup
removes no open order. `TradingInv` is the conjunction; the proof has one lemma per
action. Types of the arithmetic are lemmas of their own (`TruncDiv` on integers,
`ToInteger` on decimals). `ClosingsPublished` is proved on top of `TradingInv`, since an
order leaves the open state only in a step that puts its closing in `response`.
`PassAlwaysComplete` needs what the pass has done so far: an open order of the asset that
is neither in `scan` nor in hand is not due at the tick (`PassInv`). `ResponseAlwaysSound`
needs that nothing changes a balance while a response waits for its publication.

`MoneyProofs` proves `TradingImplementsLedger` under the mapping of `Trading`: the
users' balances, and for every order in memory (or in the hand of a close request) what
it holds. The step that is hard is the payment of a close request whose order was
liquidated and cleaned up during its await: the ledger must know it as a second payment
(`PayAgain`, what the run `paid_once` is about), never as the loss of an open account.
`HeldLiquidated`, an order that a request holds and memory has dropped is a liquidated
one, decides it.

It also proves what the arithmetic promises. `MarginCallNeverEarly` holds for every price,
leverage and scale. `LossesAlwaysCovered` (a position left open has lost less than 90 % of
its exact margin at the last quote, and the margin as rounded covers it) and
`FreshOrderAlwaysSurvives` hold under `LargePrices`: the scale is at least 1000 and no
price is below 400 of its units, that is 0.000004 at the source's 10^8. The instance of
the run `prices` satisfies it. The hypothesis is needed: at a few units the poller's
spread, rounded, is a large part of the price, and an order at leverage 100 is due at the
quote that opened it. The argument goes rounding by rounding. Each division is bounded by
its remainder (`FloorBounds`), the fraction and the liquidation price by two such bounds
(`FractionBounds`, `CallPriceBounds`); an exit price on the safe side of the liquidation
price bounds the loss (`NoCallBoundsLoss`), one on the other side shows that it was there
(`CallNeedsLoss`). `TermsInv` says that every order still has the entry price, margin and
liquidation price that were computed together when it was accepted; `LossInv` that every
open order the pass in hand is not about to examine is bounded at the last quote: a new
one because its spread is narrow (`MarketInv`), an old one because the tick that set the
quote would have taken it (`PassInv`).

`EngineProofs` proves `NothingEverSkipped` (`NoRequestSkipped` of the memory,
`SnapshotCovers` of the snapshots) and `ShutdownNeverLoses` from `EngineAssumption`, over
crashes, failed publications, snapshots that commit out of order and a stream that is cut
at any time. `NoRequestSkipped` is not inductive, since a message is applied before the
position passes it: `BatchCovered` says that everything before the batch, and the message
in hand once its handler has started, is in memory. What was cut is no hole in this
because it goes into `unread` at the read that jumps over it. A snapshot may be taken
between any two awaits, so `SnapshotCovers` follows from it (`StorageInv`). `FinalOK`
follows the final snapshot from `stop()` to the database, in whatever phase it was taken:
every snapshot from then on keeps what memory holds or leaves it after its position, to be
replayed. That a replay also finds it needs that nothing after the final snapshot's
position was cut, the hypothesis of the property's second part. The newest snapshot is a
`CHOOSE`, which means something only if there is a largest timestamp; `Extrema` derives
that from the well-foundedness of `<`.

Five theorems carry the properties of `Trading` over any number of lives, with crashes,
restores, replays, the re-reading of the stream after `resume`, failed publications and
shutdowns: `BookConsistentOverLives`, `EveryLifeTrades` (`LivesTrade`),
`ResponsesSoundOverLives`, `PassesCompleteOverLives`, and `EngineTypeCorrect`. They are
not corollaries of the theorems about `Trading`, since a restore is not a step of
`Trading` and a failed publication abandons a handler or a pass half-way. `LivesInv` says
that memory satisfies `TradingInv` in every phase, that every snapshot is a book
`TradingInv` allows (`SavedOK`: it was captured in one go, though with a closure in hand),
and that the prices of a replay are prices (`SeedsOK`); outside the consumer and the
seeding no closure is in hand. Each step of the process then is a step of `Trading`, an
abandoned one (`Departs`), or one that builds memory; responses and passes are followed
through all three. For the types, `ShapeInv` says what a row and an insert in flight look
like, and `RowsInv` bounds the table by `KeepCount`, which needs the newest rows to be
that many (`NewestIsBounded`).

`MarginCallsAlwaysCaughtUp` carries `LossesAlwaysCovered` over lives, under `LargePrices`,
for the assets whose orders the process has checked at their last price. A replay opens
positions again and moves the price without looking at them, and a restore brings back
positions from before a fall of the price, so what `LossInv` says of `Trading` is not true
of memory then. `LossInvOn` states it for a set of assets, and `CaughtUpInv` for
`CheckedAssets`: what the process has met (`met`) less what it met in the replay and the
seeding has not yet taken (`lastKnownPrices`). The set grows only at a tick of an asset
and at its check in the seeding, and the pass in hand is then about to examine every order
of it; a price that is written while its pass is skipped takes its asset out
(`PriceFails`). A failed publication does not interrupt it: the position is closed before
it is published, and the pass goes on to the next. `SavedTerms` keeps the terms of orders
in snapshots, so that a restored order is called at the price computed when it was
accepted, and `MetOK` says that the prices to seed are of assets met. The lemmas about one
step of `Trading` (`StepLoss`, `TickLoss`) are those of `MoneyProofs`.

`AppliedAlwaysInOrder` and `EngineImplementsTrading` are about one life in which nothing
is stopped or fails (`OneLife`, a hypothesis of both, and the instance of `steady`); in a
second life the model and the code give them up (a replay repeats requests and skips the
price checks, and only `LivesTrade` is left). `LifeInv` says that such a process never
restores, replays or seeds, and that what memory was given lies before `Edge`, the last
message it can have been given. Every step then is one of `Trading` or leaves its
variables alone (`LifeStepIsTrading`): the theorems about `Trading` hold in the process,
behind its stream and its batches.

`UploaderProofs` proves `TradesAlwaysAccounted` from `UploaderAssumption`, for every batch
size and length kept. What a read returns is a prefix of what is there (`BatchIsPrefix`),
so that the position passes over nothing that the uploader's own trimming has not removed.

`BackendProofs` proves, for any servers, users, calls, kinds of calls and bounds on
faults, `BackendTypeCorrect`, `WaitersAlwaysReleased`, `SignupAlwaysConsistent` and
`BackendImplementsRemoteCall`, from `BackendAssumption`. `WaitersReleased` and
`SignupConsistent` need `ControlOK`: before a handler turns to the engine it has no
promise and no request; what is queued, read or taken was sent and is one of the verdicts
the engine came to; a handler that returned while its waiter was pending returned an
error. They also need `SignupOK`: a sign-up in progress has its row, and it is rolled back
with its request in the stream only after a timeout, a stop, or the refusal of a user the
engine had registered before. The refinement rests on the same invariant. A step is
invisible when the engine decides nothing, nobody returns, and a promise changes only
where it was pending (`SilentStep`); a handler that returns is a `Report` (`ReturnStep`),
and `ResponseStatusMeaning` ties 200 to the engine's success. The theorem holds for any
number of servers: `scaled` is about answers that do not arrive, never about wrong ones.

`AnswersNeverMissed` is about the reader. An answer that is ahead of the reader now must
be shown to stay so, hence `LoopOK`: a batch is in hand exactly while it is dispatched, no
waiter is left for the entry being deleted, a server that is down reads nothing and has no
handler. `ReachOK` says the rest, of a single server, for the answers added after Redis
first knew what its `"$"` stood for (`since`): such an answer is in its batch or after it.
A read of `"$"` that fails gives up what `since` was, and so do a restart and its first
read. Most steps are `Quiet`: they leave the queue and the loop alone and add no waiter
for a call that is answered (`QuietKeepsLoop`).

`RealtimeProofs` proves `RealtimeTypeCorrect`, `AuthenticatedAlwaysHeard` and
`PagesAlwaysHeard` from `RealtimeAssumption`. `AuthenticatedAreHeard` is not inductive: a
socket may be open and in nobody's way and yet out of the map unless one knows who may
take it out. `OpenAreRegistered` says so: an open authenticated socket is the entry of
its id, or another has authenticated under that id. `AuthenticationOK` keeps a timer
from being armed while a ticket is looked up.

`DbWorkerProofs` proves `WorkerTypeCorrect` and `HistoryAlwaysFaithful` of `WorkerSpec`
from `DbWorkerAssumption`. `RowsBehind`, no row is ahead of a running worker, is what
makes the first of two closings the one that is kept. Of `HistorySpec`, the worker with
the trade page beside it, it proves `HistoryTypeCorrect`, `HistoryFaithfulWithPage` and
`PageAlwaysTruthful`. A step of `History` is one of the worker, or one of the page that
leaves the worker alone but for the count of failures. What the page shows as closed has
come a long way: engine, stream, worker, table, a poll that may be the older of two, or
the answer of a close request. `PageInv` therefore says of each of these that it names
past orders only, those that are no longer open or that a restart of the engine has opened
again (`Past`): `ClosingsPast` of the stream, and through `RowsBehind` of the table, and
`ListsOK` of the polls, the close requests and the lists. Everything rests on a past order
staying past (`Onward`), which a restart would break if it were about open orders alone:
hence `reopened`, which is also the exception that `PageTruthful` names.

Only model-checked is liveness (`ConsumerReturns`, `RequestsAnswered`, `StartCompletes`,
`CallsReturn`, `AuthenticatedOrClosed`, `VanishedAreDropped`, `PageConverges`,
`SignedOutLeavesPage`), which is out of the prover's reach. Every safety property of the
passing runs is a theorem.

## 5. Not modelled

* Documentation site, landing page, UI package, chart and order form: rendering.
* Candle queries, Prisma schema, SQL views: reads and declarations. E-mail: only the
  verification of its link is in `History`.
* Binance socket and pub/sub of the poller: it reconnects and keeps no state.
* Build files and containers: that a container restarts its process is an assumption of
  the runs.

Worth adding next: the second look-up of one ticket in `Realtime`.
