# AstraX in TLA+

A verification project for the AstraX exchange: TLA+ modules of its core logic,
TLC runs that check them on small instances, and theorems that TLAPS proves for
every instance.  Paths are those of the repository (`engine/…` is
`src/engine/…` in `PROJECT.json`).

It covers the order book and the matching engine, the code every other component
depends on; the order service that puts them behind a database; the two ways
market data reaches a client; the alerts; and the programs that drive simulated
and learning agents against the engine.

## 1. Inventory

### Engine (C++, `engine/src`)

| Component | State | Operations | What makes it correct |
|---|---|---|---|
| Order book (`order_book.{hpp,cpp}`, `types.hpp`) | `bids_`, `asks_` (price to level: linked list of nodes, cached `total_quantity`), `order_map_` (id to side, price, node) | `add`, `cancel`, `best_bid`, `best_ask` | the two indexes agree; totals equal the sum of the queue; no empty level; FIFO at a price |
| Matching engine (`matching_engine.{hpp,cpp}`) | `book_`, `stop_orders_`, `pegged_orders_`, `phase_`, `last_trade_price_` | `submit` (limit, market, iceberg, stop, pegged; GTC, IOC, FOK), `cancel`, `set_phase`, `uncross` | price and time priority; limits respected; quantity conserved; FOK is all or nothing; stops fire once and none is missed; no crossed book; every call returns |
| Multi-asset engine (`multi_asset_engine.*`) | one engine per symbol, `order_to_symbol_` | `submit`, `submit_parallel` (a thread per symbol), `cancel` | a cancel reaches the engine that has the order; parallel submission equals some sequential one |
| SPSC ring buffer (`ring_buffer.hpp`) | `head_`, `tail_`, raw slots | `try_push`, `try_pop`, `size`, `empty`, `full` | a bounded FIFO queue for one producer and one consumer |
| Pools (`memory_pool.hpp`, `allocators.hpp`) | free list, slabs, arena | `allocate`, `deallocate`, `create`, `destroy` | a slot has one owner at a time |
| Binary protocol (`binary_protocol.hpp`) | none | encode, decode | round trip |

### Back end (Python, `backend`)

| Component | State | Operations | What makes it correct |
|---|---|---|---|
| Order service (`main.py`, `models.py`, `database.py`) | one engine `core` under `engine_lock`; accounts, orders, positions, fills in the database | `place_order`, `cancel_order`, `replace_order`, `delete_account`, `_apply_fills`, `_risk_check` | database and engine agree on what is open; cash and positions follow the fills once; a key is used once; risk limits hold under concurrent requests |
| Feed bridge (`feed_bridge.py`, `main.py:_feed_changed`) | a TCP client of simulated order flow | submit under the lock, apply the fills to the database after it | as above, for orders nobody owns |
| Session tokens (`security.py`) | refresh tokens, families and user sets in Redis | issue, consume, revoke, rate limit | access control; not a subject of this project |
| Market gateway and publisher (`main.py`) | `sequence` per symbol, Redis channels, a filter per socket | publish, snapshot, forward, subscribe | no delta older than the snapshot a client got; a client that stays sees the last change |
| Push worker (`push_worker.py`) | Redis stream and its pending entries | read, send, acknowledge | every alert is delivered at least once, across restarts |

### Clients

| Component | State | What makes it correct |
|---|---|---|
| iOS market data (`ios/Packages/MarketData`) | the hub's consumers, socket, reader and reconnect timer, `OrderBookStore` sequence, candles | the hub never forgets to reconnect while a screen is open, and comes to show the book there is |
| iOS order manager (`ios/Packages/Trading`) | optimistic orders by client id | an order never goes back to an earlier state |
| iOS networking (`APIClient.swift`) | tokens, one refresh at a time | access control; as above |
| Public simulator API (`dashboard/server/mobile_api.py`) | an actor with a bounded queue per symbol, a one-frame queue per socket | commands run in order; each answer belongs to its command; a slow client misses frames and not the last one |
| Legacy dashboard (`dashboard/server/app.py`, `trading.py`, `ai.py`) | a demonstration of its own | see section 6 |

### Simulation and learning

| Component | State | What makes it correct |
|---|---|---|
| Agents and loop (`agents`, `simulation/loop.py`) | inventories, cash, a market maker's outstanding ids | every fill is credited once to both sides; quotes are cancelled before new ones |
| Backtest (`data/backtest.py`) | snapshots of profits and inventories | the series end with the final figures |
| RL environments (`rl/trading_env.py`, `rl/self_play_env.py`) | an engine, noise traders, an opponent, profit at the last reward | the rewards of an episode add up to its profit |
| Self-play (`rl/self_play.py`, `rl/evaluate.py`) | a pool of checkpoints in memory and on disk, the opponents of the environment | pool and directory agree; a result belongs to the opponent it names |

### How they interact

The engine takes no lock.  The back end calls one engine under `engine_lock`
from request threads; the feed thread and the simulation call theirs from one
thread.  `submit` is a single call that may run several matching loops: the
order's own, one for each stop its fills trigger, and one pass over the pegged
orders.  Between any two of its statements the book must be consistent, because
the next statement reads it again, by way of raw `PriceLevel` pointers and of two
indexes that different pieces of code keep up to date.

### What is hard here

* Inside a call: a best level that is fetched again after it was emptied, an
  iceberg that leaves and re-enters the book under the same id, stops that set
  off stops while their vector is scanned, pegs whose reference is other pegs.
* Over a history of calls: 32-bit quantities that wrap in cached totals, a
  cancel between any two calls, copies of an order that live in `pegged_orders_`
  after the original changed.
* Between components: the engine, the database and the message bus are updated in
  separate steps of concurrent requests, any of which may fail, and a session
  writes back what it read before others wrote.
* On the way to a client: a frame takes its number before it takes its book, the
  lock makes it wait in between, and messages, sockets and the numbers themselves
  may be lost.
* In the phone: an actor that lets others in at every `await`, so that what was
  looked at before one (a stopped hub, a timer, a socket) is something else after it.
* In the asynchronous servers: tasks of one loop that give way at each `await`,
  clients that leave in the middle, queues that are full.
* In learning: state that outlives an episode (profit, opponents) or a process
  (files of checkpoints).

`PROJECT.json` lists each hazard at its line, with the properties that watch it.

## 2. Modules

| Module | Models |
|---|---|
| `BookOps` | the book as a value and the operators on it: `BookAdd`, `BookCancel`, `BookFill`, `AddIceberg`, `Refill`, `FillMaker`, `AvailableQuantity`, `PegPrices` |
| `MatchingEngine` | `submit` and `cancel` in continuous trading, one action per loop step; its safety, action and liveness properties |
| `Auction` | `set_phase`, pre-open `submit`, and `uncross` with its execution loop, on top of `MatchingEngine` |
| `OrderLedger` | what an exchange promises of orders, with no book at all |
| `EngineLedger` | the refinement mapping under which `MatchingEngine` implements `OrderLedger` |
| `OrderService` | concurrent requests of the REST back end for orders of every type, the feed, failures of commits and restarts, against the database and an engine bound by a contract |
| `MarketFeed` | changes of the book, publisher, Redis channel and gateway, towards a client that sends text frames, with faults |
| `MarketHub` | the phone's hub: the tasks of its actor from await to await, on top of `MarketFeed` |
| `PushWorker` | the alerts worker and its Redis stream |
| `MobileApi` | the public simulator API: calls, actors, publisher, sockets |
| `TickBook` | the engine as the Python drivers use it: each call one value |
| `Simulation` | the loop, the backtest and both RL environments, on top of `TickBook` |
| `League` | self-play training and evaluation over a directory of checkpoints |
| `MCMatching`, `MCAuction`, `MCOrders`, `MCFeed`, `MCMobile`, `MCSimulation`, `MCLeague` | instances for TLC (`PushWorker` needs none) |
| `FoldProofs` | what the folds, sums and sequences of the community modules compute |
| `MatchingEngineProofs`, `EngineSafetyProofs` | lemmas and theorems about the book and the engine, and that it implements the ledger |
| `OrderProofs`, `FeedProofs`, `MobileApiProofs`, `SimulationProofs`, `LeagueProofs` | theorems about `OrderService`, `MarketFeed` with `MarketHub`, `MobileApi`, `Simulation` and `League` |

### The engine

| Model | Code |
|---|---|
| `book.level["Buy"]`, `book.level["Sell"]` | `bids_`, `asks_`; a price is in the domain when the map has the key |
| `book.level[s][p].queue` | the linked list of a level, as the ids in list order; `order_count` is its length |
| `book.level[s][p].total_quantity` | the cached total, modulo `QuantityModulus` |
| `book.order_map` | `order_map_` and the order in its node |
| `stop_orders`, `pegged_orders`, `last_trade_price` | the members of the same name |
| `taker`, `fills`, `it` | `order`, the fills vector and the loop index of the running call |
| `mark` | how many fills there were when the running match began (its own `fills` vector starts empty) |
| `pc` | which loop the running call is in |
| `submitted`, `traded`, `cancelled` | history variables, read by properties only |

`Submit…` and `Cancel` begin a call, so they need `pc = "idle"`: callers run one
call at a time.  A limit or market order goes to `"levels"`; `EnterLevel`,
`FillFront`, `LeaveLevel` are the two nested loops of `match_against_book`,
`EndMatch` its return into `match_limit` (where a remainder may rest) and into
`submit`.  With fills, `submit` goes on to `"stops"` (`TriggerStop`, `SkipStop`,
`EndStopMatch`, `EndScan`) and `"pegs"` (`Reprice`, `EndReprice`).  `FillFront`
is one turn of the inner loop whole: the fill, the maker's removal, the refill of
an iceberg and the second look at the best level.  The buy and the sell half of
`match_against_book` and of the pegged code are mirror images and are written
once, with `Opposite` and `Better`.

What is abstracted in the engine:

* Prices are integers.  The only price arithmetic is a best price plus or minus a
  peg offset, which `schemas.py` does not bound: offsets that overflow 2^63 are
  outside the model (listed as a hazard).  Pegged prices below zero are in it.
* Linked lists are sequences; pointers and pool slots are left out.  `node_pool_.create` never returns null: the arena
  throws `bad_alloc` or grows.
* Timestamps are left out: nothing in the engine reads them.
* Ids are not reused.  The back end takes them from the nanosecond clock
  (`backend/main.py:85`) and the agents from counters; the engine does not
  check, and a repeated id would overwrite `order_map_` (listed as a hazard).
* Quantities of requests are positive.  `schemas.py` enforces it for the REST
  interface; nothing checks the frames of the TCP feed (`feed_bridge.py:15`), and
  an order of no quantity is outside the model.
* A stop that is named `StopLimit` is stored and triggered exactly as `Stop` is.

### The order service

A request is a thread with a database session; `pc` says between which of its
statements it is.  What it asks for is a `Job`: any order `schemas.py` admits, of every
type and time in force (peg offsets and visible sizes do not matter here).

| Model | Code |
|---|---|
| `left`, `pegged`, `lock` | `core` (what is left of each order, in the book or among the stops, and its list of pegs) and `engine_lock` |
| `exists`, `cash`, `position`, `status`, `filled` | the rows of accounts, positions and orders, as committed |
| `executed`, `spent` | the rows of executions: their quantities and price times quantity, added up for each order |
| `seen` | what a session has loaded: SQLAlchemy does not read a row again, and writes changed columns as absolute values |
| `targets`, `got`, `owed` | the orders a request still has to cancel; what each order traded in its call of the engine, and for how much |
| `Arrive`, `PlaceRead`, `Trade`, `PlaceCommit`, `Refuse` | `place_order`: the look-ups before the lock; the second look-up, risk check and engine call under it; `_apply_fills` and the commit, after which the lock is free |
| `CancelRead`, `EngineCancel`, `CancelCommit` | `cancel_order`, and the first half of `replace_order`, which then places |
| `DeleteRead`, `DeleteCancel`, `DeleteCommit` | `delete_account` |
| `FeedSubmit`, `FeedRead`, `FeedCommit`, `FeedFails` | `serve_tcp_feed` and `_feed_changed`: the engine under the lock, its fills after it |
| `PlaceFails`, `CancelFails`, `Restart` | a commit that fails; the process ends, the engine forgets, the database does not |

Matching is `MatchingEngine`'s subject.  Here a call of the engine may do whatever its
contract allows, and the contract is as weak as the properties need:

* `Call`: no order trades more than it has left, and one that is not a stop set off by
  the call trades only against the taker, on the other side; dormant stops (`Dormant`) do
  not trade unless the call's fills set them off.
* `Taker`: what becomes of the order itself, by its type: a limit order or an iceberg
  rests, unless it is IOC or FOK; a market order leaves nothing whatever its time in
  force; a stop waits; a peg rests, or is refused when it finds no reference.  What has
  come to rest may trade again in its own call, with a stop that goes off.
* `Remains`: a stop that went off is gone, whatever it traded; every peg on the list, which
  a cancel or a fill does not shorten, comes back whole, or not at all without a reference.
* `Floating`, `Worth`, `Markups`: a resting limit order trades at its own price; the taker,
  stops and pegs trade at any price between `LeastPrice` and `GreatestPrice`.

Who is matched with whom, and the orders of the seed and of the feed, which have no rows,
are left open by it.  The best prices that the risk check looks at are any of `Quotes`.
`_risk_check` itself is kept term by term: `Policy`, `Reference` (the best ask, else the
best bid, else no check, for an order without a price), `Pending` (open buys at their
price, which is 0 for market, stop and pegged orders), `WithinLimits`.  So is
`_apply_fills`: `Raised` is the guard and the cap of `main.py:130-131`.

`stale`, `raced`, `reopened`, `undone`, `killed`, `missed` and `excess` are history
variables.  They name or measure the cases of section 4 in which the code does not keep
rows and engine together, so that the properties can say what holds outside them.

Assumed, and checked nowhere in the code: ids of the TCP feed's orders are not those of
a row.  Simplified: a session reads the rows it will write in one go, when it has the
engine's answer, where the code reads each when its fill comes up; the lock keeps other
requests out in between, and what the feed commits in between is in `raced`.

### The market feed and the phone

`MarketFeed`: `frame` is the frame the event loop is making: it has read
`sequence[symbol]` and waits for `engine_lock`, and while it does the loop runs nothing
else.  `channel` is what Redis holds for the gateway's subscription, `filter` its last
number, `up` and `down` the socket.  `Publish` and `Published` are `_market_publisher`;
`GatewaySubscribe`, `GatewaySnapshot`, `GatewayResync`, `GatewayUnsubscribe`,
`GatewayAnswers` and `GatewayForward` are `market_gateway`; `Place`, `Placed`, `Cancel`,
`Feed` and `FeedChanged` are what the request threads and the feed do to book and number.
A book is known by a version no code reads, which grows with every change and restart.
The client, which sends any message at any time, is the one the documents describe
(`backend/README.md:30`, `openapi.yaml:166`): it sends text frames.

`MarketHub` is the repository's own client.  `MarketDataHub` is a Swift actor, so a step
is what a task does between two awaits, and any other task or call may run at each of
them.  `at[t]` is the await at which task `t` is, `socket`, `reader` and `timer` the fields
`socket`, `reader` and `reconnectTask`, `got[t]` the book a task's GET has brought and
nobody has seen yet, `shown` the book of `latest`.

| Action | Code |
|---|---|
| `Connect`, `Disconnect` | `connect` by any screen in any state of the hub, `disconnect` |
| `OpenSocket`, `NoToken`, `Sent`, `SendFails` | `openSocket`, which looks at `stopped` once, before its first await |
| `ReadLoop`, `ReadFails` | the reader, whose `catch` stops the socket there is, be it another task's |
| `Wake`, `ReconnectNow`, `Answer`, `FetchFails`, `Consume` | the timer of `scheduleReconnect` and `reconnectNow`, which clears `reconnectTask` before its GET: the GET is past cancelling, and what follows it looks at nothing but, in `openSocket`, at `stopped` |

The hub sends its messages as binary frames (`MarketDataHub.swift:87`, `89`), the gateway
reads text (`main.py:497`), and the `KeyError` ends the connection (`main.py:550`).  So
in `MarketHub` a send or the read fails sooner or later without a fault of the network,
no frame comes down, and the store only ever applies the snapshots of GETs, all of which
it takes; `OrderBookStore`'s look at numbers is never reached and is not modelled.

### The push worker

`stream`, `given` and `pending` are Redis's stream, the last id its group has been
given, and the entries not yet acknowledged; `ReadOwn`, `ReadNew`, `Send`, `Ack`,
`NextBatch` are the statements of `run`.

### The public simulator API

Everything runs on one asyncio loop, so an action is what a task does between two
awaits.  `Receive`, `Resume`, `Abandon` are a call (`submit`, `submit_batch`), with
its answers in `results`; `Work` is a turn of the actor's `_run`; `Connect`,
`Deliver`, `Take`, `Drop` are `market_stream` and `Publish` is `market_publisher`.
The book after `n` commands is known by `n`.

### Simulation and learning

In `Simulation`, `driver` says which of the four programs runs.  A step gives each
participant of its roster a turn (`NoiseTurn`, `MakerTurn`, `PlayerTurn`), the
orders it returns wait in `pending`, and `SubmitNext` submits one and credits its
fills as that driver does (`Heard`, by `known`, its table of ids).  `Event`, `EndStep`
and `Finish` are the backtest's history and snapshots; `EndStep` and `Reset` an
environment's reward and reset.  Random draws and policies are choices.

In `League`, weights are numbers in the order in which they come to be.  `TrainStep`
is one step of training with the callback and the reset of a finished episode,
`AddCheckpoint` the pool's eviction, `SetOpponent`, `BeginEpisode`, `PlayStep`,
`EndEpisode` an evaluation, `Exit` and `KilledSaving` the ends of a process.  `disk`
outlives them.

## 3. Runs

| Run | Instance | Shows |
|---|---|---|
| `MCLimits` | 5 orders from a menu of 9 (limits on both sides at prices 10 and 11, two icebergs, IOC, FOK, a market order, a stop), modulus 4; 156,145 distinct states | `TypeOK`, `BookIndexed`, `LevelTotals`, `NotCrossed`, `Conserved`, `FillOrKill`, `CancelIsFinal`, `TimePriority`, and the refinement `ImplementsLedger` |
| `MCTriggers` | 5 orders from a menu of 9 (three stops, four limits, two pegs), modulus 16, fairness; 909,464 distinct states | `NotCrossed`, `NoOverfill`, `StopsSwept`, `StopsDormant`, and the liveness property `CallReturns` |
| `MCAuction` | 4 orders from a menu of 9 with both phases; 66,550 distinct states | `VolumeTraded`, `Uncrossed` |
| `MCOrders` | 3 requests of 2 accounts out of 8 jobs (limits, FOK, a stop, an iceberg, a market order, a peg; replace, delete, cancel), and one feed order or one mishap; 605,555 distinct states | `TypeOK`, `KeyOnce`, `LedgerExact`, `StatusAgrees`, `Solvent` |
| `MCFeed` | numbers up to 2, 2 changes of the book, 3 messages of a client or 2 connects of a phone with two screens, one fault of any kind; 1,012,803 distinct states | `TypeOK`, `SentInOrder`, `Alive`, and the liveness properties `Fresh`, `Settles` |
| `MCMobile` | a batch of 3 and 2 single calls at a queue of 2, a client that connects twice; 174,004 distinct states | `TypeOK`, `FirstInFirstOut`, `AnswersMatch`, `NeverBackwards`, and the liveness properties `Answered`, `Fresh` |
| `MCSimulation` | all four drivers, a market maker, a noise trader, an agent and an opponent; 626,451 distinct states | `BooksExact`, `QuotesCurrent`, `WashesOnlyShort`, `SeriesEnd`, `RewardsAddUp` |
| `MCLeague` | a pool of 2, up to 4 processes over one directory; 41,497 distinct states | `PoolKept`, `PlaysItsPast`, `EvaluatedAsNamed` |
| `ClaimLimit` | | violates `LimitRespected` |
| `ClaimPegFill` | | violates `PegsNoOverfill` |
| `ClaimAuctionIceberg` | | violates `IcebergSurvives` |
| `ClaimPush` | 2 alerts, one crash | violates `Delivered` |

`ImplementsLedger` says that, whatever the book does, an outside observer sees
only orders that come in, trade in pairs of opposite sides by equal amounts, and
are closed.  What an order may still trade is nowhere in one place in the code:
the mapping adds a resting slice and the quantity hidden behind it, or takes the
matched order's remainder, or a dormant stop's whole quantity.  Pegged orders are
left out of that run because the code does let them trade again (below).

Bounds, and why they are enough:

* `OrderId` bounds the orders of a behaviour.  Five let a cancelled or refilled
  iceberg, two orders behind it, and two takers meet, and let three stops cascade
  through two makers.
* The menus (`LimitMenu`, `TriggerMenu`, `AuctionMenu`) fix what may be sent.
  Prices are adjacent ticks, so that capped pegs, crossing remainders and the
  second level of a sweep all occur.
* `QuantityModulus = 4` in `MCLimits` makes level totals and the fill-or-kill sum
  wrap; 16 elsewhere keeps volumes true.
* Ids are interchangeable: `MCLimits` uses them as a symmetry set.  Where liveness
  is checked symmetry is unsound, and `MCTriggers` uses the action constraint
  `IdsInOrder` instead, which only fixes the order in which ids are taken.
* `MCOrders`: three requests let a retry, the request it repeats and a third that
  changes the same rows all be under way at once, as seller and buyer or as owner and
  canceller.  The jobs have each way an order can leave the engine behind its row: a
  market order's remainder, a fill-or-kill, a replaced order, a stop that another trade
  sets off, a peg that comes back.  Every behaviour has either an order of the feed,
  beside any of the requests, or a mishap (both together triple the states).
  Prices are 1 and 2, so that fills cost more than the price of their orders;
  `InitialCash` and `MaxPosition` are small enough that the risk check refuses some of
  the jobs.  Requests are a symmetry set.
* `MCFeed`: two changes let one fall between a frame's number and its book while the
  other is published already.  Three messages are a subscription, another and a resync,
  or one that is taken back; two connects of two screens give two chains of reconnects
  with two sockets, one of which the other stops.  The client and the phone share only
  the book, which neither changes, so each behaviour has one of them.  Fewer calls and
  faults than the bounds are behaviours too, from `Init`.
* `MCMobile`: a queue of two is full in the middle of a batch of three.
* `MCSimulation`: prices are a few ticks, quantities one or two, so that quotes meet,
  are partly filled and cross; the market maker reaches its `max_inventory` of 1 and
  unwinds; a backtest ends on, before and after a snapshot; an environment is reset
  after an episode.
* `MCLeague`: the pool of two overflows within a run; rollouts of 4, episodes of 2 and
  snapshots every 3 steps fall in and out of step; four processes let training follow
  a run that was killed and evaluation follow both.

The deadlock check is on in the engine's runs, where a caller may always try a
cancel.  It is off in the others, whose bounded inputs run out: requests and calls
are made once, changes, faults, steps and processes are counted.

Fairness, where liveness is checked, is that of the schedulers:

* `FairSpec` of `MatchingEngine` is weak fairness of `CallStep` alone, the statements
  of one thread in the middle of a call.  Nothing is assumed of callers.
* `MobileApi` has it for the actor, the publisher's timer, each waiting call and each
  socket's task: an asyncio loop runs every task that is ready.  That a send ends one
  way or the other (`Deliver` or `Drop`) is all that is assumed of a client.
* `MarketFeed` has it for the thread that holds the lock, for each task of the loop and
  for a client that reads its socket; `MarketHub` for each task of the hub, whose sockets
  fail, timers run out and requests are answered one way or the other.  No change of the
  book, message, call of a screen or fault is fair.
* `PushWorker` has it for the worker, and its crashes are not fair.

## 4. Where the code and its documents disagree

Each of these four has a run with a counterexample.

1. *Limits.*  `match_against_book` checks the limit in its outer loop (line 124)
   and moves on to the next level in its inner loop (line 164).  A limit order
   that empties its best level trades on beyond its limit.
   `docs/cpp_explanation.md:41` says it executes "at prices no worse than the
   limit".  A fill-or-kill order is not affected, which `FillOrKill` shows: the
   check before the match guarantees that it is filled within its limit.
2. *Pegs.*  `reprice_pegged_orders` puts back the order as it was submitted, with
   nothing filled, so a peg that traded trades again.  `docs/cpp_explanation.md:47` says
   that "price is recalculated" and that repricing "affects queue priority", and nothing
   of what is left to trade.
3. *Auction and icebergs.*  `uncross` removes a filled order without a refill.
   `docs/cpp_explanation.md:45` has "When that slice fills, a refill is inserted".
4. *Alerts.*  `push_worker.py:35` reads the worker's own pending entries first and new
   ones "if not batches".  Redis answers a read from an id with the stream and an empty
   list, which is not empty itself, so a worker with nothing pending never reads a new
   alert.  `push_worker.py:1` calls it the "consumer that delivers simulated-fill APNs
   alerts"; the run needs no crash for it.

Seen while modelling, without a run of their own.  Engine: a market order ignores
fill-or-kill (`matching_engine.cpp:112`); a cancelled peg returns at the next
fill, since cancel does not touch `pegged_orders_` (line 277); `uncross` moves the
last trade price and looks at no stop (line 487); the comment at line 375 says that
pegs sent before the opening go on the book "as limit", but `OrderBook::add` refuses
them; `set_phase(Continuous)` without `uncross` leaves a crossed book.

Order service, between concurrent steps: the account is read before the lock is taken
(`main.py:306`) and its cash written back, so that of two requests at once one undoes the
other's cash (`stale`); the feed applies its fills outside the lock (`main.py:579`)
beside a request that applies others (`raced`), and may write "partially filled" over a
row that was cancelled (`reopened`); when `delete_account` comes between another's trade
and its commit, that commit fails with the trade done (`undone`).

Order service, with no concurrency at all:

* A cancelled or filled peg is live again, whole, at the next repricing
  (`matching_engine.cpp:277`): behind a row that says "cancelled" or "filled", and it may
  execute more than its quantity, which `filled_quantity` does not follow
  (`main.py:130-131`).
* What a market order (whose time in force is GTC unless it says otherwise), an IOC or FOK
  order, a stop that went off or a peg that found no reference did not trade is nowhere in
  the engine, and its row stays "open" for good (`main.py:327`).  A dormant stop cannot be
  cancelled.
* The risk check counts pending market, stop and pegged buys as nothing
  (`main.py:182`), values a market or pegged buy at the best price only, and does not
  check it when both sides are empty (`main.py:179-183`).  An account may be overdrawn by
  what such fills cost, and by what a limit or stop-limit order pays above its limit (item 1 of
  this section): `excess`.
* What an order trades as a maker within its own call, when its remainder has come to rest
  and sets off a stop, is executed and not filled: the new row takes its quantity from the
  engine's copy of the order (`main.py:325`), and `_apply_fills` leaves that row alone
  (`missed`).

`LedgerExact`, `StatusAgrees` and `Solvent` leave out these cases, by name, and say what
holds in all others that the model has.  A retry of a request whose commit failed enters
the engine a second time (`KeyOnce` leaves out `killed`).  Executions are published under
the account's id and subscribed to under the user's (`main.py:335`, `513`).

Feed: a cancel moves no sequence number, so a client learns of it with the publisher's
next beat; an order moves the number without a frame, and the gateway's filter lets the
next frame through all the same (`Fresh`).  The phone's messages are binary and end each
of its connections (above).  It shows what its reconnects fetch: at most one book
for each delay of `scheduleReconnect`, and since no GET is cancelled, after a quick
disconnect and connect for a while an older one than before; two chains of reconnects may
go on side by side.  `Settles` says that the book it shows is right in the end.

Simulation: `TradingEnv` passes fills on to the taker's agent only
(`trading_env.py:237`), so that noise traders who made the market miss theirs; a market
maker that buys to unwind a short position may take its own ask
(`market_maker.py:239`); a backtest whose last event makes no order misses its final
snapshot when one was due (`backtest.py:139`); `LobsterEvent.to_order` makes of a
cancellation a new order under the same id.  Self-play: opponents are named by their
place in the pool, so names move when the pool evicts (`self_play.py:172`); the
directory keeps the files an earlier run left (`self_play.py:37`); the docstring's
snapshots "every N episodes" are every N steps; `record_result`, `get_win_rates` and the
pool's `sample` are never called.

## 5. Proofs

Every theorem holds for all values of the constants that meet the named assumptions of
its modules.  For the engine that is any set of ids, any subset of `Request` and any
modulus above 1 (`RequestsAssumption`, `QuantityModulusAssumption`); for the order
service any finite set of requests, any accounts and jobs, and any prices and limits
(`RequestsAssumption`, `JobsAssumption`, `PricesAssumption`, `LimitsAssumption`); for the
feed, the hub and the simulator API any bounds, screens, orders and queue
(`BoundsAssumption`, `HubAssumption`, `OrdersAssumption`, `CapacityAssumption`,
`MaxConnectsAssumption`); for the drivers any
rosters in which an environment seats its players first and no market maker, any
positive ticks and quantities and any history (`ParticipantAssumption`,
`RosterAssumption`, `PriceAssumption`, `HistoryAssumption`); for the pool
`LeagueAssumption`.  TLC evaluates each of them in a run.  Two theorems have a
hypothesis of their own, named in the table.

| Module | Theorem | Of |
|---|---|---|
| `MatchingEngineProofs` | `EngineInvariant` | `EngineInv`, the inductive invariant |
| | `TypeCorrect` | `TypeOK` |
| | `IndexesAgree` | `BookIndexed` |
| `EngineSafetyProofs` | `NeverCrossed` | `NotCrossed` |
| | `QuantityConserved`, `NeverOverfilled` | `Conserved`, `NoOverfill` |
| | `CancelsAreFinal` | `CancelIsFinal` |
| | `StopsFireOnce`, `NoStopMissed` | `StopsDormant`, `StopsSwept` |
| | `LevelTotalsRight`, `FillsOrKills` | `LevelTotals`, `FillOrKill` |
| | `FirstComeFirstServed` | `TimePriority` |
| | `EngineImplementsLedger` | `ImplementsLedger`, for callers that send no pegged orders (`NoPegs`) |
| `OrderProofs` | `KeyInvariant` | `KeyInv`, the inductive invariant of the keys |
| | `KeysSubmittedOnce` | `KeyOnce` |
| | `OrdersTyped` | `TypeOK` |
| | `LedgerIsExact` | `LedgerExact` |
| | `StatusesAgree` | `StatusAgrees` |
| | `AccountsSolvent` | `Solvent` |
| `FeedProofs` | `FeedInvariant` | `FeedInv`, the inductive invariant |
| | `FramesInOrder` | `SentInOrder` |
| | `HubInvariant` | `HubInv`, the inductive invariant of the phone's hub |
| | `HubAlive` | `Alive` |
| | `FeedTypeCorrect` | `TypeOK` |
| `MobileApiProofs` | `ApiInvariant`, `ApiTypeCorrect` | `ApiInv`, the inductive invariant; `TypeOK` |
| | `CommandsInOrder` | `FirstInFirstOut` |
| | `AnswersBelong` | `AnswersMatch` |
| | `ViewsOnlyGrow` | `NeverBackwards` |
| `SimulationProofs` | `StateTyped` | `Typed`, the types of the state |
| | `BooksExactRight` | `BooksExact` |
| | `QuotesRight` | `QuotesCurrent` |
| | `WashesRight` | `WashesOnlyShort`, when no price can be below a tick (`PricesAboveTick`) |
| | `SeriesEndRight`, `RewardsRight` | `SeriesEnd`, `RewardsAddUp` |
| `LeagueProofs` | `LeagueInvariant` | `LeagueInv`, the inductive invariant |
| | `PoolIsKept` | `PoolKept` |
| | `MeetsItsPast` | `PlaysItsPast` |
| | `EvaluationsNamed` | `EvaluatedAsNamed` |

### The engine

`TypeOK` and `BookIndexed` are not inductive, not even together.  A fill keeps
the book typed only if the id at the front of a queue is located in
`order_map_`, which is `BookIndexed`; `BookAdd` keeps `BookIndexed` only if the id
is not in the book yet; and that holds for a remainder because the order being
matched is not resting (`TakerKnown`), for a triggered stop because resting orders
were submitted as limits or pegs (`RestingKnown`, `StopsKnown`), for a peg because
it is cancelled first.  A refill keeps it because a slice with something hidden
behind it has a positive slice size (`Live`).  `EngineInv` is the conjunction.

The argument about the engine goes in layers:

* `FoldProofs`: the library chooses a fold to be a function that satisfies a recursive
  equation.  That there is one, and that any two agree, is shown by the least
  counterexample: the strict subsets of a finite set are well founded.  From this come
  the sums over a set (`SumAdds`, `SumChange`, `SumNotMore`) and over a sequence
  (`SeqSumAppend`, `SeqSumRemove`, `SeqSumChange`) that the proofs of the engine, the
  order service and the drivers use.
* `MatchingEngineProofs`, first half: what `add`, `cancel` and a fill change (`AddShape`, `CancelShape`,
  `FillShape`), that each keeps the book typed and indexed (`AddKeeps`,
  `CancelKeeps`, `FillKeeps`), and what a fill with its refill does to quantities
  and prices (`FillMakerKeeps`).
* `MatchingEngineProofs`, second half: one lemma per action that it keeps `EngineInv`.
* `EngineSafetyProofs`: `NotCrossed` is inductive on top of `EngineInv`, by two
  facts: a remainder rests only at the end of the outer loop, where the best
  opposite price is beyond its limit, and a capped peg is short of every opposite
  price.  `Accounts` adds to `Conserved` and `NoOverfill` what has traded of the
  matched order and of the stops, and that stops are apart from one another and
  from the matched order.  `SweepInv` adds to `StopsSwept` that all stops before
  the scan's index have been passed at the present price.  `TimePriority` follows
  from what each operation does to the queues: `AddKeepsPlaces`, `CancelKeepsPlaces`
  and `FillMakerPlaces`, where an id that is queued once, at the end of its level, is
  before no one.  `LevelTotals` is inductive on top of `EngineInv`: the fold of the
  property is the sum of the queue (`FoldedSum`), `add` appends one term to it, `cancel`
  removes one, a fill changes one, and the cached total makes the same change modulo
  `QuantityModulus` (`AddTotals`, `CancelTotals`, `FillTotals`).  An id that stood in
  two queues, or twice in one, would break it, which is why it needs `BookIndexed`.
  `FillOrKill` follows from `KillInv`, in which a fill-or-kill order that is being matched
  is offered, by the resting orders within its limit, all that it still needs.
  `available_quantity` lets it in on that condition: its fold counts each total once
  (`AvailableCounts`), a total that has wrapped is no more than what the orders of its
  level have left (`LevelLeft`), a sum that wraps is no more than it was, and hidden
  quantity only adds to what is offered (`CountedLeft`, `AvailableOffered`).  A fill takes
  the same off the offer as off the need, a refill moves hidden quantity into sight
  (`OfferFalls`), so while the order needs something the best price is within its limit,
  and when the match is over it needs nothing (`NothingOffered`, `MatchOverKill`).

`EngineImplementsLedger` is the refinement, for every set of requests without pegs
(with them it is false: a peg trades again, section 4).  Each action is mapped:
`Submit…` to `Accept` (with nothing left when a fill-or-kill order is refused),
`Cancel` to `Close`, `FillFront` to `Trade`, the end of a match to `Close` or, when
the remainder rests, to a stutter; the rest are stutters.  It rests on `Accounts`, on
`FillMakerKeeps` (a maker's slice and hidden quantity lose exactly what was traded,
through a refill too), and on `SidesKnown`, that an order has one side wherever it is
kept.  The menu of `MCLimits` meets the assumption.

### The order service

`KeyOnce`, that one key of an account reaches the engine at most once, is about two
look-ups that a request makes far apart: one before it has the lock, and one under it
that it relies on.  The second is sound only because the order of an earlier request
with that key is a committed row by the time the lock is free.  `KeyInv` says it in
parts: `LockHeld` (who writes the row of an order holds the lock), `RowFollows` (an order
that reached the engine is about to get its row under the lock, or has it, unless the
process ended or the account was deleted before), `RowsOwned` (a row belongs to such an
order), `KeysApart` (no two rows have one key, nor a row and an order on its way to one).

The other four properties rest on `OrderInv`, which adds to `KeyInv`:

* `Typed`, `Engaged`, `Targeted`: only an order that reached the engine is there or has
  traded, and what a request is about to cancel has had a row.
* `Locked`, `Budget`: what is left of an order in the engine, what is on its way to its
  row and what it has executed are together no more than its quantity, unless it is a peg,
  which has no such budget.
* `Behind`: the `filled_quantity` that is there, and the one any session has read and will
  add to, is no more than what was executed and than the order's quantity.  It holds in
  races too, for every type, and it is what `filled <= quantity` needs.
* `Current`: a session that is about to commit has seen the positions and fills that are
  there, and the cash unless its account is in `stale`; so its absolute values are
  increments.  `Booked` then says that positions and cash are what the executions come to
  and what they cost, and that a row is filled by what it executed up to its quantity,
  less `missed`.  `LedgerExact` is `Booked` and `Behind`.
* `StatusFits`: pegs apart, a filled order has executed its quantity, and one that is called
  off, or is about to be, is out of the engine.  `Wholes`: for an order that rests and that
  nobody is about to close, `Budget` is an equality.  `StatusAgrees` is both, with nothing
  under way.
* `Covered`: cash and `excess` of an account are at least what its open and pending priced
  buys may still cost at their prices.  The risk check establishes it for the new order,
  which is why it must count the pending ones; an execution takes its cost from the cash
  and its price from the sum, and adds the difference to `excess`.  `Solvent` follows.

What is left of an order is not in one place while the lock is held, so the proofs of
`Trade`, `PlaceCommit` and the feed's steps each come in two halves: what the step does to
the quantities of one order (`TradeOf`, `RowsFilled`), and what it does to the sums of an
account (`AccountsFilled`, with the sums of `FoldProofs`).

### The market feed and the phone

A frame takes its number, waits for the lock, and takes its book under it.  Numbers and
versions of the books are each in order (`SentInOrder`), and neither alone shows what a
client needs: the gateway's filter compares numbers, and the property is about versions.
`FeedInv` carries the order along the whole pipe, from the frame being made through the
channel and the socket to the client (`Numbers`, `Versions`, `Sequenced`); a number that
passes the filter then belongs to a version that is no older.

`Alive` says that some task of the hub goes on while a screen is open.  It is not enough
that `scheduleReconnect` starts one, since it does nothing when there is a timer: `HubInv`
adds to the types that the task of `reconnectTask` sleeps or has slept, so that a task that
leaves the work to it may end.  Who cancels that task has closed the last screen, or is
opening a socket.

### The simulator API, the drivers and the pool

`ApiInv` relates each waiting call to what its actor has in its queue and has answered,
so that commands that are queued while a client leaves still keep their places.

The theorems about the drivers start from `Typed`, in which the folds of `TickBook` over
a queue of any length keep each side of the book to limit orders of that side.
`BooksExact` needs that every fill finds its owner's id in the table of its driver
(`Owners`); `RewardsAddUp` that the agent has nothing at stake while the noise traders
warm the market up (`Rewards`); `SeriesEnd` where a step of the backtest may stand
(`Idle`, `Snapshots`); `QuotesCurrent` is inductive as it is.  `WashesOnlyShort` has the
longest argument (`WashInv`): both sides of the book are sorted and do not cross, all
prices are a tick or more, and of the orders a market maker is about to submit each
either meets nothing in the book or among its own earlier ones, or trades with others
only, unless the market maker is short.  Without `PricesAboveTick` the property is
false: a bid is raised to a tick, and a best ask below a tick would then be crossed by
the market maker's own orders.

`LeagueInv` relates the pool in memory to the files: `Kept` (the pool holds the latest
checkpoints in order, each has its file, and the files of evicted ones are gone),
`FromItsPast` (an opponent has weights that training has had, or is the baseline),
`ForcedKnown` and `EvaluationKnown` (training sets no opponent; an evaluation has faced
the ones it was told to, episode by episode).

### Only model-checked

* Liveness under fairness, which the prover does not do: `CallReturns`, `Answered`,
  `Settles`, and `Fresh` of both modules.
* The auction's `VolumeTraded` and `Uncrossed`, whose price is a choice over sums of
  cached totals, for which the invariants of the continuous phase are not enough (its
  book may be crossed, and its loop trades two resting orders); and the counterexamples
  of section 4.

## 6. Not modelled

Outside what a model of this kind says anything about: the binary codec (pure, with a
round-trip test), the Python bindings, migrations, benches and the document builder, the
web page and its text assistant, the iOS screens, storage and candles, the random and
historical market data sources, and training without self-play (floating-point
numerics).

Left out for a reason of their own:

* *Multi-asset engine.*  Only its tests run it: one symbol's engine is what the back end,
  the simulator and the agents use.
* *Ring buffer.*  No component includes it but its test.
* *Pools and linked lists.*  Below the abstraction of the book, whose queues are
  sequences.
* *Session tokens and iOS networking.*  Access control.
* *iOS order manager.*  It keeps one phone's optimistic view of its own orders; nothing
  else reads it.
* *Legacy dashboard* (`dashboard/server/app.py`, `trading.py`).  Its `tick` uses names
  that no import or assignment defines (`order_rate_samples`, `benchmark_active`,
  `benchmark_tasks`, `pathlib`), so it stops at the first submitted order; its reset
  makes a new engine while the trading view keeps the old one; and it credits takers
  and not makers (`trading.py:139`).  There is no running behaviour to be faithful to.

In the components that are modelled: metrics, heartbeats, notifications of executions,
observations of an environment and rewards other than profit are left out; a
database is its committed rows and what each session has read of them; average prices and
realised profits are left out.

## 7. What is left to do

* The auction: `EngineInv` for its pre-open phase and its loop, which reuses the fills of
  the engine, and then `Uncrossed`.
* `PriceLevelList` and `Pool`, the linked list and the free list, refining the sequences
  of `BookOps`.
* `OrderManager`, and the multi-asset engine and the ring buffer if a program comes to
  use them.
