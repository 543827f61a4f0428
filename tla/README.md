# A verification project for Thornado

Thornado is a trading terminal for the Nado exchange: a React client, a Go edge
gateway that signs users in, and Rust gateways that follow the exchange and
serve order books, market lists, candles, portfolios and orders. This
directory models the parts where concurrency, ordering and failure decide
whether the terminal shows the truth; TLC checks the models on small instances
and TLAPS proves the most important results for every instance.

    tlasany  <Module>.tla                       parse
    tlc -config <Config>.cfg <MC module>.tla    model-check
    tlapm <Module>_proofs.tla                   check the proofs

Line numbers below are those of the repository under `src/`.

## 1. Inventory

| Component | State | Operations | Hard behaviour | What makes it correct |
|---|---|---|---|---|
| Orderbook gateway (`gateway/orderbook`) | a worker task per market with the local book (two price maps, `last_max_timestamp`), the counter `seq`, the subscribers map; a queue per browser | `run_worker_loop`, `run_upstream_session`, `handle_upstream_json_text`, `subscribe`, `unsubscribe`, `emit`, `handle_ws_client` | events overlap the snapshot, gaps, reconnects, `subscribe` in two steps against the worker's three, browsers that vanish | the book is the engine's at its timestamp; a browser sees only true views, in order, and misses none; the worker always recovers |
| Markets gateway (`gateway/markets`) | three payload maps, joined rows, `seq`, all under one RwLock; a broadcast channel | three pollers (`refresh_*`, `rebuild_and_publish`), `bootstrap`, `handle_ws_client` | the lock is taken twice by a refresh and released before the broadcast; consumers lag | rows are the join of the maps; each change is published once; consumers converge |
| Chart gateway, supervisor (`gateway/chart`) | the map from series to handle | `ensure_series`, called by the snapshot route and the websocket | a call may be dropped at each `await`, fail, or wait for ever for the archive, while others get its handle | one filler, one worker, nobody left with a dead series |
| Chart gateway, series | Postgres table, cache, worker, subscribers | `bootstrap`, `run_worker_loop`, `backfill_from_archive`, `run_stream_once`, `apply_row`, `upsert_many`, `load_recent` | crash between store, cache and send; a backfill that fails half way; late or repeated candles; an archive that lags | the cache is the table's tail but for what is known to be on its way or missed; nothing shown is lost; no candle goes back; charts stay whole |
| SDK subscriptions client (`nado-rust-sdk/src/subscriptions.rs`) | the pending map, two bounded channels, the worker task | requests, `next_event`, `close`, drop, `connection_worker` | timeouts, answers in any order, full channels, close against a blocked worker | each answer to its request; nobody stranded; no event lost |
| Portfolio gateway (`gateway/portfolio`) | per websocket: two tasks, a bounded channel between them, the debounce clock; `active_ws_clients` | `get_snapshot`, `handle_ws_client`, `spawn_upstream_event_channel`, `run_upstream_event_session` | debounced events, two transports, stamps taken at different moments, tasks that outlive their browser | the page never goes back and ends with the newest portfolio; tasks end |
| Execution gateway (`gateway/execution`) | per request: the linked signers read so far; the links live in the engine | `post_execute`, `post_execute_trigger`, validation part by part, forwarding | the signer changes between check and use; a timed-out order may have been accepted | only the session's, supported, correctly signed orders are forwarded; statuses tell the truth |
| Edge gateway (`gateway/main.go` and proxies) | nonces in memory, a JWT cookie | nonce, verify, logout, `requireAuth`, proxies with a timeout | tabs that sign in at once, expiry, restart, repeated posts, lost answers | a nonce counts once and while fresh; no session outlives its token |
| Web client (`client/src`) | per page: book, candles, portfolio, session | hooks over the gateways | snapshot answers race websocket messages | the page follows the newest source |
| SDK values (`place_order.rs`, `eip712_structs.rs`, `math.rs`, `fee_calculator.rs`) | none | packing an order's options into 128 bits and reading them, fixed-point arithmetic, fees | fields that spill, overflow, rounding, signs | values read back as built; results exact within stated limits |
| Other SDK builders, generated bindings, configuration, landing page, scripts | — | — | no behaviour over time | — |

How they interact: the browser talks HTTP and websocket to the orderbook,
markets and chart gateways, and through the edge gateway (with the session
cookie) to portfolio and execution. Each Rust gateway holds its own websocket
and HTTP connections to Nado; the portfolio gateway uses the SDK's subscriptions
client when its own websocket fails. Inside a gateway, tasks share state by
locks, atomic counters and tokio channels; the models keep every point where
one of these lets another task in.

`PROJECT.json` lists every hazard found, at its line, with the properties that
watch it or the reason why none does yet.

## 2. Modules

| Module | Models | Composed with |
|---|---|---|
| `OrderBookState` | the pure book: `reset_from_snapshot`, `apply_delta`, `depth_view` | extended by `OrderbookMarket` |
| `OrderbookMarket` | one market: engine, stream, worker, subscribers, browsers | — |
| `MarketsService` | pollers, joined rows, broadcast channel, websocket tasks and consumers | — |
| `ChartSupervisor` | the calls of `ensure_series` for one key | gives `ChartSeries` its bootstrap |
| `ChartCandles` | cache and table as pure operators | extended by `ChartSeries` |
| `ChartSeries` | exchange, archive, table, cache, worker, browsers with their HTTP request and websocket | — |
| `RequestReply` | abstract: what a multiplexing client promises its callers | implemented by `SdkSubscriptions` |
| `SdkSubscriptions` | the client's owner, `connection_worker`, the server | — |
| `LatestView` | abstract: what a page that follows an account promises its reader | implemented by `PortfolioStream` |
| `PortfolioStream` | one account: Nado's engine and indexer, the gateway's tasks, the page | — |
| `SessionAuth` | tabs, nonces, cookie, gateway restart | extended by `ExecutionGateway` |
| `OrderAppendix` | the 128-bit appendix of an order: builder and readers | extended by `ExecutionGateway`, `SdkValues` |
| `ExecutionGateway` | session check, proxy with timeout, validation, forwarding, engine | composes the two above |
| `FixedPoint` | `math.rs` and the fee calculator in integers of a given width | extended by `SdkValues` |
| `SdkValues` | feeds inputs to the two pure modules | — |
| `MC*` | constants for TLC | extend the module they check |
| `*_proofs` | theorems | extend the module they are about |

A definition whose name starts with `Slip` is the definition after it with a
plausible mistake. No specification uses it; substituted for the original, it
must make a property fail, which shows that the property says something.

### Orderbook (`OrderBookState`, `OrderbookMarket`)

`bookAt` is the engine's history: a timestamp is an index into it. The engine
is external: it changes a level, publishes an event that lists what was
touched since the last one, acknowledges the subscription some time after it
was asked for, loses events for a slow reader, closes the socket, and answers
the liquidity query with the best `Depth` levels of the moment it answers.

The worker's program counter `pc` follows `run_worker_loop` and
`run_upstream_session`: announce, connect, connected, fetch, reset, snapshot,
(stamp,) emit, stream, failed. Applying an event, taking its number and
emitting it are three steps, as the code releases the state lock before
`next_seq` and takes the subscribers lock after it. The snapshot's view and
number are one step because the code takes both under one lock guard. The
drain loop and the main loop handle an event alike and are one action each for
applied, skipped and fatal messages. `subscribe` is two steps (registration,
then the snapshot message); a browser may leave in an orderly way or die
without unsubscribing, in which case the next `emit` forgets it.

Sizes are small integers, 0 for an absent level; prices are integers. The
conversion from x18 strings, TLS and the websocket handshake are left out: a
text the parser refuses is an `error` event.

### Markets (`MarketsService`)

Each poller is idle, between its two critical sections (`rebuild`) or between
the lock and the broadcast (`send`). `source` holds the payload of each with the
time it was stored, `Build` is `build_market_rows`, `Updated` and `Removed` are
`diff_market_rows`. The tokio broadcast channel is kept per consumer: what it
still holds for that consumer, and whether something unread was dropped
(`lagged`). A consumer subscribes, takes a snapshot, applies deltas, and takes a
new snapshot after a lag. `replica` is a consumer that merges what it is sent,
as the delta protocol intends. `sent` and `inverted` are history variables.

### Chart (`ChartSupervisor`, `ChartCandles`, `ChartSeries`)

`ChartSupervisor` has one action per stretch between two awaits of
`ensure_series`; `Cancel` drops the future at an await, which is what the HTTP
server does when the browser aborts its request (Terminal.jsx:882). `BootstrapHangs`
is a bootstrap that never returns: neither the archive's client (the SDK's `RestClient`,
utils/rest.rs:20) nor the database queries have a timeout.

In `ChartSeries` a candle is its bucket and its submission index; the exchange
changes only its current bucket, so the two determine the content. `store` is
the table, which outlives a crash; cache, subscribers and queues do not. `bootstrap` and
`backfill_from_archive` have an action per `await`: `load_recent`, the archive's query,
`upsert_many`, `load_recent` again, the lock of the cache. Each may fail by itself, an upsert also
after it has been committed, and a failed backfill is only logged (market.rs:422). `written`
and `missed` are history variables: the buckets whose rows the worker's upsert changed, while they
are on their way to the cache, and after the worker gave up half way. With a candle of the stream the
worker stores, then caches, then sends, in three actions. A browser asks twice
for its candles, as `useChartCandles` does: by HTTP, whose answer is fixed when
the cache is read and arrives any time later, and by websocket. `streamed` is a
history variable, what the websocket alone told the browser.

### SDK subscriptions (`RequestReply`, `SdkSubscriptions`)

Requests are ids. Rust's borrow rules shape the owner: requests (`&self`) may
overlap each other, while `next_event`, `close` and drop never overlap a
request. `WorkerEvent` and `WorkerForward` are two actions because
`events_tx.send` is awaited inside the arm of the `select!`, and nothing else is
served meanwhile. The server answers a request once, in any order, or never.
`close` waits at most two seconds for its acknowledgement and ignores the
result, so the wait is not a state.

`RequestReply` is the client without its queues, tables and timers: a call ends
once, with the peer's verdict on that very request or with an error. The
mapping reads a call from what its caller sees and a verdict from what the server
decided; channels, pending map and socket vanish.

### Portfolio (`LatestView`, `PortfolioStream`)

A portfolio is two version numbers, because `fetch_portfolio_payload` reads two
sources: `sum` from the engine, first and mandatory, `rest` from the indexer,
which lags, last and optional (`.ok()` turns a failure into an empty list, here
`Missing`). Each read is an action, since the account may change in between.
The HTTP answer is stamped before its reads and the websocket's envelope after
them, as in the code.

Behind a websocket `handle_ws_client` (`task`) alternates between its `select!`
and a fetch; the upstream task (`up`) goes from the gateway's own websocket to
the SDK's client to the report and round again, and learns only from the bounded
channel that the first task has ended. An event inside the debounce window is
dropped. Elapsed time is a choice: `recent` says that an event has been followed
by a refresh, and an event then may or may not be within the window of it.
Polling is always possible at the `select!`. Faults are a failed query, a broken
connection, a failed upstream session, or an outage that fails both transports
one after the other.

The page (`usePortfolioData.js`) keeps two envelopes and shows the one with the
later stamp; it opens a new socket only after `onclose`, which it may be told
long before the gateway notices. `LatestView` is its promise: a view never goes
back, shows what was true, and ends with the newest.

### Signing in and trading (`SessionAuth`, `OrderAppendix`, `ExecutionGateway`)

`SessionAuth` has one action per handler of `main.go` and per step of
`siweAuth.js`. `nonceStore.put` and `take` clean up expired nonces first, as
`Cleaned` does. A nonce is taken before its signature is verified. The
cookie belongs to the browser, so a tab's answer replaces what another tab's
sign-in left. The signature is abstract: it verifies or does not. `born`,
`spent` and `lastIn` are history variables.

`ExecutionGateway` extends it: a request is let in with the account of the
cookie at that moment. The handler of the execution gateway waits for the contracts and
then for the linked signer of each part's sender, one `CheckPart` per part;
between two of them the engine may change a link, which `linked_signers`
(`known`) does not notice for a sender already read. `EdgeTimeout` tells the
page 502 while the handler goes on until the server drops it or it answers;
either gateway may restart. The engine checks signatures itself and may reject
for reasons of its own. `cancel_orders` stands for the ten transactions without an order:
they pass through the same lines.

An appendix is the set of its one-bits, `|=` is union and a field read back is
a set of bits, so that no number exceeds TLC's integers. `Start` is the appendix that the
caller of the builder set, used as it is, or else the version; `Options` is what the builder or-s
into it. The payloads of `ExecutionGateway` carry any 128 bits: pages pack their orders with
@nadohq/client, and the gateway takes whatever is posted.

### SDK values (`FixedPoint`, `SdkValues`)

`FixedPoint` follows `math.rs` line by line in integers of `Width` bits and a
scale of `10^Digits`; what exceeds the width wraps, as in a release build.
`SdkValues` enumerates inputs: an order, a pair of numbers, or a text.

## 3. Runs

All runs use small sets and name their bounds. `expect: violation` marks a
disagreement between the code and what a document or comment says of it.

| Run | Checks | Bounds | Shows |
|---|---|---|---|
| `orderbook_stream` | `BookExact` | two prices per side, one shown level, 4 timestamps, 1 fault | the bridge from stream to snapshot neither loses nor invents a level, at the edge of the depth and through a reconnect |
| `orderbook_browsers` | `TypeOK`, `ViewsSound`, `QueueOrdered`, `NoLostUpdate`, `CatchesUp` | one price per side, 3 timestamps, one browser, 1 fault, the engine's book full at first | a browser that comes or goes anywhere in the worker's loop, and catches up after any fault |
| `markets_service` | `TypeOK`, `RowsCurrent`, `EverySeqPublished`, `OrderedReplica` | one product, two contents, two clock readings, 3 numbers, channel of 2, one consumer | overlapping refreshes and a lagging consumer |
| `markets_inversion` | `Replica` (violated) | as above | see findings |
| `chart_calls` | `FillingOwnsTheEntry`, `OneWorker`, `StartedUnlessAborted` | three requests, four handles | every interleaving of calls, failures, dropped and hanging calls |
| `chart_orphan` | `HeldIsStarted` (violated) | three requests, two handles | see findings |
| `chart_series` | `TypeOK`, `CacheIsStoreTail`, `CacheNeverGoesBack`, `ServedIsStored`, `KeepsStreaming` | 3 buckets, 3 submissions, history of 1, cache of 2, one browser, 1 fault | the worker's life, await by await, with a crash, a lost socket, a refusing archive or database, or one that commits and whose answer is lost |
| `chart_late_answer` | `PageFollowsStream` (violated) | 2 buckets, 2 submissions, no fault | see findings |
| `sdk_subscriptions` | `TypeOK`, `NoCallStranded`, `EventsWhole`, `ReturnsUnlessBlocked`, `AnswersOnce` | 3 requests, 2 events, channels of 1 | requests against events, timeouts, failure, close; the client implements `RequestReply` |
| `portfolio_stream` | `TypeOK`, `ShownKeepsLive`, `OrphanBounded`, `LiveInOrder`, `PageCatchesUp`, `LiveFollows` | two websockets, one change of the account told by up to 3 events, one GET, two clock readings, a channel of 1, 1 fault | tasks of an old and a new socket, stamps, dropped and lost events; the websocket side implements `LatestView`, liveness included |
| `trading_path` | `TypeOK`, `NonceOnce`, `SessionRecent`, `OwnOrdersOnly`, `SignerWasLinked`, `PolicyKept`, `StatusTruthful`, `NonceFresh` | two accounts, two tabs, three subaccounts, one key, 13 payloads with appendices no builder packs among them, 1 request, 1 change of link, 2 nonces of one tick, tokens of one tick, 2 ticks, 1 fault | sign-ins, validation and timeouts against restarts, repeated posts and changing links |
| `sdk_values` | `AppendixReadsBack`, `FixedPointExact`, `FeesSound` | 12,096 orders begun with none or one of six starting appendices, all pairs of 8-bit numbers at a scale of ten, 8,888 texts of up to three decimals | each function against its mathematical definition, with the limits within which it agrees |

Why the bounds are enough. Four timestamps allow an event before the snapshot,
one across it, one after it and a gap; two prices per side with one shown level
make a level leave and re-enter the visible depth. Browsers do not interact with
each other except through `seq`, and one is enough for each property, which is
about one browser. Three numbers in the markets run are a snapshot and two
deltas, the fewest that can be inverted, and a channel of two is overrun by the
third. A cache of two over three buckets trims; three submissions of one
bucket leave an old, a current and a late one. In the SDK run each channel has
one place: two events and three requests fill both while a third request waits
outside. In the portfolio run three events are one more than an orphaned task may
read, a channel of one makes the upstream task wait, and two sockets give
an old task that still fetches while the new one sends; one change has both
sources before and after it. In the trading run one request is enough, as
requests share nothing but the links, which change from outside as well; two tabs
with two nonces sign in at once, two ticks let a nonce and a token expire one after the
other, and the one fault is a restart of either gateway, a lost answer or a
repeated post (that nonces count once, and what reaches the engine, is also
proved for any number of faults). The payloads have each kind of refusal and each kind that passes. In the SDK's values the orders take
each numeric field at its limit and beyond it, and at 8 bits and a scale of
ten the intermediate sums of a multiplication overflow as they do at 128 bits
and 10^18 (`One * One` fits, as it does there).
Where a theorem covers a property, the bound does not matter.

Deadlock is not checked: every model stops when its bounds are used up, and
the liveness properties say what must not stop.

Symmetry is used only in the markets runs, over the contents of payloads, and
in `trading_path`, over the tabs; no definition tells these apart and none of
these runs checks liveness.

### Fairness

* `OrderbookMarket.Fairness`: the worker and the browser tasks are polled by the
  runtime, and the engine acknowledges and answers what it is asked. The
  engine need not trade, and browsers come and go as they like. Faults are
  bounded by `MaxFaults`: recovery is claimed once faults stop. `FairFromFull`
  only chooses the engine's first book.
* `ChartSupervisor.FairSpec`: a call that nobody drops is polled to its end, and its bootstrap returns
  or, as `BootstrapHangs` may choose, never does; `StartedUnlessAborted` excepts that, like
  drops and failures.
* `ChartSeries.FairSpec`: the worker is polled and its awaits end, one way or the
  other; failures are bounded. That the archive and the database answer at all is an
  assumption, as the archive's client has no timeout: a query that hangs stops the worker for good.
* `SdkSubscriptions.FairSpec`: the worker is polled, a call and `close`, once begun,
  are polled and their timers fire. Nobody has to read events.
* `PortfolioStream.FairSpec`: the task that serves a websocket is polled and its
  queries return; the page handles `onclose` and reconnects, as its timer does;
  the indexer catches up with the engine. The upstream tasks need never run,
  nobody has to ask for a snapshot, events may all be dropped, and the clock may
  stand still (envelopes with equal stamps replace each other). The last websocket
  of the bound is not lost, as the page has no bound on its attempts.
* `MarketsService`, `ExecutionGateway` and `SdkValues` claim no liveness and state none:
  the execution gateway's own clients have no timeout, so a request need not end.

### Findings

1. **Markets deltas can be broadcast out of order** (`markets_inversion`,
   service.rs:369). The number is assigned under the write lock, the broadcast
   follows its release. Two pollers can publish n+1 before n, and a consumer that
   applies rows as they come keeps the older row until it changes again. With
   broadcasts in order the replica converges (`OrderedReplica`).
2. **A dropped call orphans a series** (`chart_orphan`, market.rs:165): the handle
   enters the map before bootstrap and the worker starts after it. A browser that
   goes away in between leaves an entry whose worker nobody starts; a failed or hanging
   bootstrap does the same to those who got the handle meanwhile.
3. **A late HTTP answer replaces newer candles** (`chart_late_answer`,
   Terminal.jsx:866), against the comment that the websocket stays the source of
   truth.

Further facts the models show, for which no document says otherwise; the
properties have exactly these exceptions:

* a total outage leaves market rows marked fresh (service.rs:514): only a
  successful refresh computes `stale`;
* a browser whose greeting is taken while an update waits in its queue shows the greeting and then,
  until the next message, the older book: the page ignores `seq`, which tells the two apart
  (`OnlyNumbersGoBack`);
* a backfill whose `load_recent` fails after its upsert was committed (market.rs:678-687) leaves
  the cache behind the table until the next backfill, although the worker streams on;
* candles missed during an outage reach the chart's cache and never an open
  chart (chart/market.rs:690), and a second request during bootstrap is answered
  at once with an empty series (market.rs:144);
* the SDK's `close`, or a request that finds the command channel full, waits for
  ever when the worker is blocked on a full event channel;
* an upstream task of the portfolio gateway whose browser has gone opens the SDK
  fallback although nobody listens, and ends only with an event: an account
  that does not change keeps it for ever;
* 502 leaves an order's outcome unknown: it may be accepted after the page was told;
* a link revoked while a batch is validated still counts for its later parts, as
  the linked signer is read once per sender; the engine's own check decides;
* a builder fee above 1023 or a builder id above 65535 spills into its neighbour
  in the appendix; never into the order type, trigger or flags;
* an appendix that the caller of `place_order` set is or-ed with the options (place_order.rs:142):
  an IOC bit in it turns an FOK order into a post-only one, and it gets no version;
* `str_to_x18` adds the fraction to the whole also when the number is negative,
  and `try_sqrt_x18` squares numbers that overflow for values in the top
  three quarters of the range.

## 4. Proofs

Every theorem holds for all values of the constants that satisfy the named
assumptions (`BookAssumption`, `MarketAssumption`, `MarketsAssumption`,
`SdkAssumption`, `PortfolioAssumption`, `AuthAssumption`, ...): non-negative bounds,
positive capacities and lifetimes, names that are not each other's. None limits the
number of clients, requests, products, prices, tabs or payloads. TLC evaluates
the assumptions in the runs.

* `OrderbookMarket_proofs.TypeCorrect`: `Spec => []TypeOK`, one lemma for each of
  engine, worker and browser.
* `OrderbookMarket_proofs.BookAlwaysExact`: `Spec => []BookExact`. `BookExact` is not
  inductive: an event could lie about the engine. `BookInv` adds that every queued
  event tells the truth about the engine's history between its two timestamps
  (`ChanTrue`), that the answer about to be loaded does (`AnswerTrue`), and that
  the timestamps are ordered (`StampsInOrder`). `ResetExact` and `ApplyExact` are
  the two steps that matter: loading a cut snapshot, and applying an event that
  overlaps the book but leaves no gap; `EventStaysTrue` and `HistoryGrows` say
  that the growth of the history disturbs nothing.
* The second half of `OrderbookMarket_proofs` goes on from `BookInv` to the browsers. `ViewsAreSound`
  (`ViewsSound`): between two books the worker's message carries the view and the
  timestamp of the current book (`OutCurrent`; only the worker writes the state, so releasing
  the lock before `emit` does no harm), and the history only grows. `QueuesAreOrdered`
  (`QueueOrdered`): what a queue holds is behind the message the worker builds next, and ends
  in a book while the worker follows the stream (`QueueInv`, `Ready`). `NothingIsLost`
  (`NoLostUpdate`): outside the worker's publishing steps the last book in a queue, or the
  greeting, or what is shown if neither holds a book, is the gateway's (`ToldInv`).
  `NumbersFollowTime` (`NumbersNameBooks`): each book in circulation was numbered once, before the
  counter's value and for a moment not after the gateway's book (`NumbersInv`), as a step numbers at
  most one book (`StepBooks`). `OnlyNumbersGoBack` draws the consequence for a page.
* `MarketsService_proofs.RowsAlwaysCurrent`: the rows are the join of the maps
  whenever no refresh is between its critical sections. `NoDifference` (an empty
  diff means equal rows) and `JoinedBuild` (the clock moves only the stale mark)
  carry it.
* `MarketsService_proofs.EverySeqIsPublished`: a number is broadcast, or held by
  exactly one poller that is about to. The strengthening bounds the numbers in
  hand by `seq`.
* `MarketsService_proofs.TypeCorrect`: the types, and that the broadcast channel keeps its capacity.
  `OrderedReplicas`: a replica is the sum of all messages, but the invariant (`ReplayInv`) needs
  no induction over the queue. It speaks of one key at a time: the last message that mentions a
  key, in a poller's hand, in the queue or already applied, gives it the service's row,
  since every rebuild mentions each key whose row changed (`DeltaGives`) and merging
  a message decides exactly the keys it mentions (`MergeMentioned`, `MergeUnmentioned`).
* `ChartSupervisor_proofs.FillingAlwaysOwnsTheEntry`, `AlwaysOneWorker`: inductive
  together with the types: a worker's handle is filled, a filling call's is not,
  and both would have to be the map's entry. `HeldAlwaysInHand` is the safety under
  `StartedUnlessAborted`: until a call is dropped, fails or hangs, the entry is started or a call is filling it
  (`EntryInHand`). `WorkersStay` is the action property of `OneWorker`.
* `SdkSubscriptions_proofs.AnswersReachTheirRequest`, `NoCallIsStranded`: the
  strengthening follows a request from its caller to the queue and to the
  server, in one place at a time and without a verdict until it is answered
  (`UnsentFresh`, `QueuedFresh`, `QueuedOnce`, `AskedFresh`), and says that the wire
  carries what the server decided (`AnswersTrue`). `EndAnswers` shows that the end
  of the loop leaves nobody waiting.
* `SdkSubscriptions_proofs.EventsStayWhole` (`EventsWhole`): the events that were returned, queued and
  held are 1, 2, ... in this order (`EventsInv`), and the wire holds the rest in order, so the
  first one on it is the next number (`WireRead`, `WireWritten`). `TypeCorrect` adds the
  capacities of both channels.
* `SdkSubscriptions_proofs.ClientImplementsRequestReply`: the refinement. Each step
  maps to a step of `RequestReply` or a stutter; that a return carries the
  verdict of its own request comes from the invariant above.
* `PortfolioStream_proofs.ShownNeverBehindLive` and `LiveNeverGoesBack`: the
  invariant (`OrderInv`) orders the versions that are on their way. A GET that has
  read its summary has read one no older than any envelope with a smaller stamp
  (`GetInv`), and so has its answer (`SnapInv`); at most one socket is open, and the
  task behind it holds nothing older than the page (`TaskInv`).
  `LiveImplementsView` is the safety part of the refinement, `TypeCorrect` the types.
* `PortfolioStream_proofs.OrphanTasksEnd`: each transport spends one event (`Budget`).
  `ActiveAlwaysCounts`: `active_ws_clients` is the number of running tasks.
* `ExecutionGateway_proofs` begins with the invariant of signing in (`AuthInv`): a nonce in the store is
  unused and not generated later (`StoreClean`), a tab's nonce expires `NonceTTL` after it
  was born if it is still stored (`FlowsTrue`), and every token, in a cookie or on its
  way, is backed by a verification (`TokensBacked`). `AuthInvStep` says that every step keeps it.
* `ExecutionGateway_proofs.NoncesAreUsedOnce`, `SessionsAreRecent`, `NoncesAreFresh`
  carry that over to the composition: `AuthSteps` shows that each of its steps is
  one of signing in, or leaves it alone but for the count of faults.
* `ExecutionGateway_proofs.OnlyOwnOrders`, `SignersWereLinked`: a statement about what was
  sent, so the invariant follows a request through its validation: what the handler
  remembers of links was true since the request came (`Remembers`), and the parts
  before the one in hand are vetted (`Progressed`). `CheckKeeps` is the step that matters: the
  key it compares is remembered, linked now, or the owner's.
* `ExecutionGateway_proofs.StatusesAreTruthful`: with `Unsent`, what is still validated is
  unknown to the engine. `TypeCorrect` comes with the same invariant.
* `ExecutionGateway_proofs.PolicyIsKept`: whatever an appendix holds, what was sent is vetted, so
  the engine reads no FOK and no TWAP in it. `BuiltPolicyIsKept` says the same of the options of
  an order that the SDK's builder packed: by `DecidingBits` the bits of type and trigger are what it
  was built of, whatever spills over the fields beside them, if the caller's starting appendix does
  not contradict them.
* `ChartSeries_proofs.CacheFollowsStore`, `BrowsersAreStored`: `IInv` adds to the properties
  that the row in the worker's hand is stored (`RowInHand`), that only a row's upsert is on its way
  while a row is, and that a loaded list is still what the table says when it is cached
  (`WrittenInHand`; nobody else writes the table), and that
  whatever a browser holds or is being sent is not newer than the table's row of its
  bucket (`BrowsersHaveStored`). `CacheIsStoreTail` names a table that the cache is the tail of, which lacks
  no more than the changes on their way or missed; `TailKept` keeps it while an upsert succeeds,
  fails or is committed unseen, and `FillStep` makes it the table itself. The cache is a sequence and the table a function of the
  bucket; `TailByBuckets` restates the one by the other, and
  `ApplyFollowsUpsert` is the step that matters: `apply_row`, which replaces, inserts or trims in the
  sequence, gives the tail of the table after the upsert. `OrderedLists` (a set of buckets
  has one ordered list) is shown by induction over a set of naturals. `SeriesTypes` are
  the types and the cache's capacity; `CacheForwardOnly` and `TableForwardOnly` say that no
  step, a crash or a reload from a lagging archive included, takes a row back.
* `SdkValues_proofs.AppendixIsReadBack`: `OptionBits` says bit by bit what the options set
  (`HasBit`), `BitsBelow` that a number is below `2^w` exactly when its bits from `w` on are zero. A
  number is therefore read back from the options if it fits its field (`NumbersRead`); a field of the
  appendix is what it was begun with and what the options say (`FieldsJoin`), so an order is
  read back if it also began with nothing that contradicts its options (`InRangeReadsBack`), and only then
  (`OnlyInRange`); the bits that control the order are out of the reach of all numbers (`ControlBits`).
* `SdkValues_proofs.FixedPointIsExact`: for every width and scale, with `One * One` in the range.
  `MulStepsExact` and `DivStepsExact` bound each product on the way by the result; a result that fits
  is then its own low bits (`SignedFits`). The search of `try_sqrt_x18` is a recursive
  function: that it exists (`SearchExists`) and returns the root of a range that encloses it
  (`SearchFinds`) are inductions over the gap between its bounds, `CeilingFacts` that the first loop
  ends with such a range. `ValueCut` and `ScaledText` say the same of the digits of a text
  and of the place where `str_to_x18` cuts them; `RoundIsSound` that the nearest multiple is
  moved to by less than the threshold.
* `SdkValues_proofs.FeesAreSound`: what is received loses what `mul_x18` cuts off (`ReceivedFee`), what
  is paid is the quotient that, less its fee, covers the amount (`PaidFee`).

The provers know a power only of numerals. `PowersAssumption` and the last conjunct of
`TextsAssumption` therefore state that powers of two and ten are positive and multiply: arithmetic,
which holds of every number and which TLC evaluates for those of the run. `PairsAssumption` leaves
out the least integer, which has no negative in the code either, and
`OrdersAssumption` bounds the numbers of an order by the bound of `Bit`, TLC's integers.

The library's induction theorems take a predicate, which the installed provers cannot
instantiate. Where an induction was needed it is one over a set: `EveryNatural` (a set with 0 and
the successors of its elements has every natural) follows from the well-foundedness of
`<` on the naturals, and the set is defined from what is to be shown.

Only model-checked: the liveness properties (`CatchesUp`, `StartedUnlessAborted`,
`KeepsStreaming`, `ReturnsUnlessBlocked`, `PageCatchesUp`, `LiveFollows`), as liveness under
fairness is outside the prover's reach, and the counterexamples of the three findings. Every
invariant and every action property that a passing run checks is the statement of a
theorem; `NumbersNameBooks`, `HeldIsInHand` and `BuiltPolicyKept` are theorems that no run needs.

## 5. Not modelled

* About 35,000 of the repository's 53,700 lines of code are Solidity bindings that a
  generator wrote (`nado_utils/bindings/`) and the data types beside them: declarations
  without state, order or algorithm. They bound the share of the code that the map
  can cover; nothing in them could be an action or a property.
* `ensure_market` of the orderbook gateway and its routes `/health` and `/symbols`; delays and
  back-off lengths (a wait is a step of arbitrary length).
* Markets: `/health`, `/symbols`, name and number normalisation, two products that
  claim one ticker id.
* Chart: status messages, the `seq` counter, x18 parsing, two series over the same
  table rows (a symbol and its alias), candles without a submission index.
* Portfolio: the `map_*` functions that reshape account data, pings and unknown
  commands.
* Execution: `/v1/context` and `/v1/capabilities` (reads), the EIP-712 digest and
  the recovery of a signature, which here recovers to a key or to nobody.
* Edge: the texts of the SIWE message and the JWT; the avatar upload (one database row);
  the portfolio proxy, which forwards a stream and keeps no state.
* SDK: builders other than `place_order` fill one request and send it; the
  floating-point functions of `math.rs` are beyond TLC's numbers.
* Client: forms, wallet library, layout, landing page.
* Configuration, TLS, legacy server and scripts: no behaviour over time.

## 6. What is left

1. `ensure_market` as an instance of the supervisor's pattern, and two series
   over one table (a symbol and its alias).
2. The page's cache under the wallet's address against the cookie's
   (usePortfolioData.js:169), which needs the wallet as a second actor beside the tabs of
   `SessionAuth`.
