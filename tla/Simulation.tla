----------------------------- MODULE Simulation -----------------------------
(***************************************************************************)
(* The programs that drive trading agents against the engine, one process  *)
(* and one thread each:                                                    *)
(*   loop      simulation/loop.py: the agents in turn, for a fixed number  *)
(*             of steps;                                                   *)
(*   backtest  data/backtest.py: the same after each event of a history,   *)
(*             with snapshots of profits and inventories;                  *)
(*   trading   rl/trading_env.py: an RL agent and noise traders;           *)
(*   selfplay  rl/self_play_env.py: an RL agent, an opponent that is a     *)
(*             frozen policy, and noise traders.                           *)
(* A step gives each participant of the driver's roster a turn: it reads   *)
(* the book and makes orders, which are submitted one by one, the fills of *)
(* each going to those the driver finds for them.                          *)
(*                                                                         *)
(* Random draws and policies are choices.  Observations, timestamps, names *)
(* and the market maker's reservation price and optimal spread (which no   *)
(* quote uses) are left out.                                               *)
(***************************************************************************)
EXTENDS TickBook, FiniteSetsExt

CONSTANTS
  Roster,           (* Roster[d]: the participants of driver d, in turn     *)
  MarketMakers,     (* participants that are MarketMakerAgents              *)
  NoiseTraders,     (* participants that are RandomAgents                   *)
  BasePrice,        (* 100_0000                                             *)
  Tick,             (* 100: unit of random offsets, and the lowest price    *)
  TickRange,        (* tick_range, 5                                        *)
  MaxQuantity,      (* 10: random quantities are 1 .. MaxQuantity           *)
  SeedOffset,       (* 500: the market maker's quotes without a market      *)
  Quote,            (* its quantity, 5                                      *)
  MaxInventory,     (* its max_inventory, 15                                *)
  EdgeTicks,        (* its edge_ticks, 2                                    *)
  SkewUnit,         (* 5: inventory per tick of skew                        *)
  History,          (* what a history holds: orders without their ids       *)
  SnapshotInterval, (* snapshot_interval                                    *)
  MaxSteps,         (* by driver: num_steps, max_events, episode_length     *)
  Warmup,           (* warm-up rounds of an episode: 50                     *)
  MaxEpisodes       (* bound: episodes of an environment                    *)

Drivers == {"loop", "backtest", "trading", "selfplay"}
Environments == {"trading", "selfplay"}
Players == {"agent", "opponent"}
Participants == MarketMakers \cup NoiseTraders \cup Players
Source == "history"

\* An environment seats its players before its noise traders.
Seats(d) == CASE d = "trading" -> 1 [] d = "selfplay" -> 2 [] OTHER -> 0

ASSUME ParticipantAssumption ==
  /\ MarketMakers \cap NoiseTraders = {} /\ Source \notin Participants
  /\ Players \cap (MarketMakers \cup NoiseTraders) = {}
ASSUME RosterAssumption ==
  /\ Roster \in [Drivers -> Seq(Participants)]
  /\ \A d \in Drivers :
       /\ Seats(d) <= Len(Roster[d])
       /\ \A k \in DOMAIN Roster[d] :
            /\ Roster[d][k] \in Players <=> k <= Seats(d)
            /\ d \in Environments => Roster[d][k] \notin MarketMakers
  /\ \A k \in DOMAIN Roster["trading"] : Roster["trading"][k] # "opponent"
ASSUME PriceAssumption ==
  /\ {BasePrice, Tick, TickRange, MaxQuantity, SeedOffset, Quote, SkewUnit,
      SnapshotInterval} \subseteq Nat \ {0}
  /\ {MaxInventory, EdgeTicks, Warmup, MaxEpisodes} \subseteq Nat
  /\ MaxSteps \in [Drivers -> Nat \ {0}]
ASSUME HistoryAssumption ==
  \A h \in History : /\ h.side \in Side /\ h.quantity \in Nat \ {0}
                     /\ h.price \in Nat /\ h.kind \in {"GTC", "Market"}

VARIABLES
  driver,       (* which program this is                                    *)
  book,         (* the engine                                               *)
  pending,      (* orders that were returned and are not yet submitted      *)
  known,        (* ids fills are routed by: order_to_agent, my_order_ids    *)
  turn,         (* who is next: an index of the roster; 0 between steps     *)
  steps,        (* step, event_count or step_count                          *)
  warm,         (* warm-up rounds the episode has left                      *)
  inventory, pnl,         (* of each participant                            *)
  counter,      (* its order ids                                            *)
  outstanding,  (* a market maker's _outstanding_order_ids                  *)
  bought,       (* its _total_buy_cost and _total_buy_qty                   *)
  prev_pnl,     (* the RL agent's pnl at the last reward                    *)
  captured,     (* backtest: the last snapshot                              *)
  finished,     (* the run has returned                                     *)
  episodes,     (* bound: resets of an environment                          *)
  owned,        (* history: what the fills so far amount to                 *)
  paid,         (* history: the pnl_deltas of this episode, added up        *)
  skipped       (* history: the last event made no order                    *)

market == <<book, pending, known>>
agents == <<inventory, pnl, counter, outstanding, bought>>
history == <<owned, paid, skipped>>
progress == <<turn, steps, warm, finished, episodes>>
vars == <<driver, market, agents, progress, prev_pnl, captured, history>>

Nobody == [p \in Participants |-> 0]
NoShares == [p \in Participants |-> [shares |-> 0, cash |-> 0]]
Figures == [p \in Participants |-> <<inventory[p], pnl[p]>>]

\* Agents of an environment are made anew by each reset.
FreshAgents ==
  /\ inventory' = Nobody /\ pnl' = Nobody
  /\ counter' = [p \in Participants \cup {Source} |-> 0]
  /\ UNCHANGED <<outstanding, bought>>

Init ==
  /\ driver \in Drivers
  /\ book = EmptyBook /\ pending = <<>> /\ known = {}
  /\ turn = 0 /\ steps = 0 /\ warm = 0
  /\ inventory = Nobody /\ pnl = Nobody
  /\ counter = [p \in Participants \cup {Source} |-> 0]
  /\ outstanding = [m \in MarketMakers |-> {}]
  /\ bought = [m \in MarketMakers |-> [cost |-> 0, quantity |-> 0]]
  /\ prev_pnl = 0 /\ captured = Figures
  /\ finished = FALSE /\ episodes = 0
  /\ owned = NoShares /\ paid = 0 /\ skipped = FALSE

-----------------------------------------------------------------------------
(* What the agents want of book b: side, price, quantity and kind.         *)

Limit(s, price, quantity) ==
  [side |-> s, price |-> price, quantity |-> quantity, kind |-> "GTC"]

Away(s, price, offset) == IF s = "Buy" THEN price - offset ELSE price + offset

\* RandomAgent.on_market_data: one order for each side that is missing, or
\* else one near the middle.
RandomWishes(b) ==
  LET missing == Missing(b)
      mid == (Best(b, "Buy") + Best(b, "Sell")) \div 2
  IN  IF missing # <<>>
      THEN {[k \in DOMAIN missing |->
               Limit(missing[k], Away(missing[k], BasePrice, Tick * d[k]), q[k])] :
              d \in [DOMAIN missing -> 1 .. TickRange],
              q \in [DOMAIN missing -> 1 .. MaxQuantity]}
      ELSE {<<Limit(s, Max({Away(s, mid, Tick * d), Tick}), q)>> :
              s \in Side, d \in 0 .. TickRange, q \in 1 .. MaxQuantity}

\* A quote is a tick of one better than the best price if there is room.
Spread(b) == Best(b, "Sell") - Best(b, "Buy")
Improvement(b) == IF Spread(b) > 2 THEN 1 ELSE 0

\* Step 4: the bid moves up when short and down when long.
BidPrice(b, q) ==
  LET skew == Min({Max({q, -q}) \div SkewUnit, Spread(b) \div 3})
  IN  Max({Best(b, "Buy") + Improvement(b) - IF q > 0 THEN skew ELSE -skew, Tick})

\* Step 5: the ask does not depend on the inventory.
AskPrice(b) == Best(b, "Sell") - Improvement(b)

\* The orders that unwind: at a loss far over the limit, at a profit over it,
\* and, when far too short, a buy at the best ask.
Unwind(b, m, q) ==
  LET bid == Best(b, "Buy")
      average == IF bought[m].quantity = 0 THEN 0
                 ELSE bought[m].cost \div bought[m].quantity
      profitable == average = 0 \/ bid >= average + EdgeTicks
  IN  CASE q > 2 * MaxInventory ->
             <<Limit("Sell", bid, Min({Quote, q - MaxInventory}))>>
        [] q \in MaxInventory + 1 .. 2 * MaxInventory /\ profitable ->
             <<Limit("Sell", bid, Min({Quote, q - MaxInventory \div 2}))>>
        [] q < -2 * MaxInventory ->
             <<Limit("Buy", Best(b, "Sell"), Min({Quote, -q - MaxInventory}))>>
        [] OTHER -> <<>>

\* MarketMakerAgent.on_market_data.
MakerWishes(b, m) ==
  LET q == inventory[m]
      missing == Missing(b)
  IN  IF missing # <<>>
      THEN [k \in DOMAIN missing |->
              Limit(missing[k], Away(missing[k], BasePrice, SeedOffset), Quote)]
      ELSE (IF q < MaxInventory THEN <<Limit("Buy", BidPrice(b, q), Quote)>> ELSE <<>>)
           \o <<Limit("Sell", AskPrice(b), Quote)>> \o Unwind(b, m, q)

\* _execute_action of both environments: hold, or one order of one share, at
\* the own best price to rest or at the opposite one to trade at once.
PlayerWishes(b) ==
  {<<>>} \cup
  IF Missing(b) # <<>> THEN {}
  ELSE {<<Limit(s, Best(b, s), 1)>> : s \in Side}
       \cup {<<[Limit(s, Best(b, Opposite(s)), 1) EXCEPT !.kind = "IOC"]>> : s \in Side}

\* make_order: wishes become orders with the next ids of p.
Made(p, wishes) ==
  [k \in DOMAIN wishes |->
     Order(<<p, counter[p] + k>>, wishes[k].side, wishes[k].price,
           wishes[k].quantity, wishes[k].kind)]

Ids(orders) == {orders[k].id : k \in DOMAIN orders}

-----------------------------------------------------------------------------
(* Turns.                                                                  *)

\* It is the turn of p, who returns orders to be submitted.
Turn(p, wishes) ==
  /\ turn \in 1 .. Len(Roster[driver])
  /\ pending = <<>>
  /\ p = Roster[driver][turn]
  /\ turn' = turn + 1
  /\ pending' = Made(p, wishes)
  /\ counter' = [counter EXCEPT ![p] = @ + Len(wishes)]
  /\ UNCHANGED <<driver, known, inventory, pnl, bought, steps, warm, finished,
                 episodes, prev_pnl, captured, history>>

NoiseTurn(p) ==
  /\ p \in NoiseTraders
  /\ \E wishes \in RandomWishes(book) : Turn(p, wishes)
  /\ UNCHANGED <<book, outstanding>>

PlayerTurn(p) ==
  /\ p \in Players
  /\ \E wishes \in PlayerWishes(book) : Turn(p, wishes)
  /\ UNCHANGED <<book, outstanding>>

\* Faulty: the quotes that open a market are not remembered.
MakerTurnForgetting(m) ==
  /\ m \in MarketMakers
  /\ LET b == Cancel(book, outstanding[m])
         wishes == MakerWishes(b, m)
     IN  /\ Turn(m, wishes)
         /\ book' = b
         /\ outstanding' = [outstanding EXCEPT
              ![m] = IF Missing(b) = <<>> THEN Ids(Made(m, wishes)) ELSE {}]

\* Faulty: the old quotes are left in the market.
MakerTurnLeavingQuotes(m) ==
  /\ m \in MarketMakers
  /\ LET wishes == MakerWishes(book, m)
     IN  /\ Turn(m, wishes)
         /\ outstanding' = [outstanding EXCEPT ![m] = Ids(Made(m, wishes))]
  /\ UNCHANGED book

\* A market maker cancels all it has in the market, and quotes again.
MakerTurn(m) ==
  /\ m \in MarketMakers
  /\ LET b == Cancel(book, outstanding[m])
         wishes == MakerWishes(b, m)
     IN  /\ Turn(m, wishes)
         /\ book' = b
         /\ outstanding' = [outstanding EXCEPT ![m] = Ids(Made(m, wishes))]

-----------------------------------------------------------------------------
(* Submission and routing.                                                 *)

\* Faulty: only the taker is told.
HeardByTaker(f, ids) == {f.taker} \cap ids

\* The orders of fill f whose owners hear of it.  In TradingEnv the fills of
\* the RL agent's own order go to it alone: the noise traders miss theirs.
Heard(f, ids) ==
  {i \in {f.taker, f.maker} \cap ids :
     driver = "trading" /\ Owner(f.taker) = "agent" => Owner(i) = "agent"}

BothSides(f) == {f.taker, f.maker}

\* What fills bring p, who is told of its orders in told[k] for the k-th.
SharesOf(p, fills, told) ==
  SumFunction([k \in DOMAIN fills |-> Shares(p, fills[k], told[k])])
CashOf(p, fills, told) ==
  -SumFunction([k \in DOMAIN fills |-> fills[k].price * Shares(p, fills[k], told[k])])

\* MarketMakerAgent.on_fill: what m buys enters its cost basis, once for each
\* time it is told.
BuysOf(m, fills) ==
  FoldLeft(LAMBDA b, f :
             LET told == IF Owner(f.taker) = Owner(f.maker) THEN 2 ELSE 1
                 buyer == IF f.aggressor_side = "Buy" THEN f.taker ELSE f.maker
                 x == IF Owner(buyer) = m THEN told * f.quantity ELSE 0
             IN  [cost |-> b.cost + x * f.price, quantity |-> b.quantity + x],
           bought[m], fills)

\* The driver notes whose the next order is, submits it and routes its fills.
SubmitNext ==
  /\ pending # <<>>
  /\ LET o == Head(pending)
         result == Submit(book, o)
         ids == IF Owner(o.id) = Source THEN known ELSE known \cup {o.id}
         told == [k \in DOMAIN result.fills |-> Heard(result.fills[k], ids)]
         all == [k \in DOMAIN result.fills |-> BothSides(result.fills[k])]
     IN  /\ book' = result.book
         /\ pending' = Tail(pending)
         /\ known' = ids
         /\ inventory' = [p \in Participants |->
                            inventory[p] + SharesOf(p, result.fills, told)]
         /\ pnl' = [p \in Participants |->
                      pnl[p] + CashOf(p, result.fills, told)]
         /\ bought' = [m \in MarketMakers |-> BuysOf(m, result.fills)]
         /\ owned' = [p \in Participants |->
              [shares |-> owned[p].shares + SharesOf(p, result.fills, all),
               cash |-> owned[p].cash + CashOf(p, result.fills, all)]]
  /\ UNCHANGED <<driver, counter, outstanding, progress, prev_pnl, captured, paid, skipped>>

-----------------------------------------------------------------------------
(* Steps.                                                                  *)

Between == turn = 0 /\ pending = <<>> /\ ~finished

\* loop and environments: the next round.  Only noise traders take part in the
\* warm-up of an episode.
BeginStep ==
  /\ Between
  /\ driver # "backtest"
  /\ driver \in Environments => episodes > 0
  /\ IF warm > 0
     THEN /\ turn' = Seats(driver) + 1
          /\ UNCHANGED steps
     ELSE steps < MaxSteps[driver] /\ turn' = 1 /\ steps' = steps + 1
  /\ UNCHANGED <<driver, market, agents, warm, finished, episodes, prev_pnl,
                 captured, history>>

\* backtest: the next event of the history, an order nobody owns.
Event ==
  /\ Between
  /\ driver = "backtest" /\ steps < MaxSteps[driver]
  /\ steps' = steps + 1
  /\ turn' = 1
  /\ \E h \in History : pending' = Made(Source, <<h>>)
  /\ counter' = [counter EXCEPT ![Source] = @ + 1]
  /\ skipped' = FALSE
  /\ UNCHANGED <<driver, book, known, inventory, pnl, outstanding, bought, warm,
                 finished, episodes, prev_pnl, captured, owned, paid>>

\* An event that is no order (to_order returns None) is only counted.
EventWithoutOrder ==
  /\ Between
  /\ driver = "backtest" /\ steps < MaxSteps[driver]
  /\ steps' = steps + 1
  /\ skipped' = TRUE
  /\ UNCHANGED <<driver, market, agents, turn, warm, finished, episodes, prev_pnl,
                 captured, owned, paid>>

\* The round is over: a snapshot is due, or the RL agent's reward.  The
\* penalty on its inventory and the opponent's part in it are left out.
EndStep ==
  /\ turn = Len(Roster[driver]) + 1 /\ pending = <<>>
  /\ turn' = 0
  /\ captured' = IF driver = "backtest" /\ steps % SnapshotInterval = 0
                 THEN Figures ELSE captured
  /\ IF driver \in Environments /\ warm = 0
     THEN /\ paid' = paid + (pnl["agent"] - prev_pnl)
          /\ prev_pnl' = pnl["agent"]
     ELSE UNCHANGED <<paid, prev_pnl>>
  /\ warm' = IF warm > 0 THEN warm - 1 ELSE 0
  /\ UNCHANGED <<driver, market, agents, steps, finished, episodes, owned, skipped>>

\* Faulty: no snapshot at the end.
FinishUncaptured ==
  /\ Between
  /\ \/ driver = "loop" /\ steps = MaxSteps[driver]
     \/ driver = "backtest"
  /\ finished' = TRUE
  /\ UNCHANGED <<driver, market, agents, turn, steps, warm, episodes, prev_pnl,
                 captured, history>>

\* run and run_backtest return: the number of steps is reached, or the history
\* has ended.  What the last snapshot has missed is captured.
Finish ==
  /\ Between
  /\ \/ driver = "loop" /\ steps = MaxSteps[driver]
     \/ driver = "backtest"
  /\ finished' = TRUE
  /\ captured' = IF driver = "backtest" /\ steps % SnapshotInterval # 0
                 THEN Figures ELSE captured
  /\ UNCHANGED <<driver, market, agents, turn, steps, warm, episodes, prev_pnl,
                 history>>

\* Faulty: the pnl of the last reward is kept.
ResetKeepingPrevious ==
  /\ Between
  /\ driver \in Environments /\ episodes < MaxEpisodes
  /\ episodes' = episodes + 1
  /\ book' = EmptyBook /\ known' = {}
  /\ steps' = 0 /\ warm' = Warmup
  /\ FreshAgents
  /\ paid' = 0 /\ owned' = NoShares
  /\ UNCHANGED <<driver, pending, turn, finished, captured, skipped, prev_pnl>>

\* reset: a new engine, new noise traders, everything of the players at 0.
Reset ==
  /\ Between
  /\ driver \in Environments /\ episodes < MaxEpisodes
  /\ episodes' = episodes + 1
  /\ book' = EmptyBook /\ known' = {}
  /\ steps' = 0 /\ warm' = Warmup
  /\ FreshAgents
  /\ prev_pnl' = 0 /\ paid' = 0 /\ owned' = NoShares
  /\ UNCHANGED <<driver, pending, turn, finished, captured, skipped>>

Next ==
  \/ BeginStep \/ Event \/ EventWithoutOrder \/ EndStep \/ Finish \/ Reset
  \/ SubmitNext
  \/ \E p \in Participants : NoiseTurn(p) \/ PlayerTurn(p) \/ MakerTurn(p)

Spec == Init /\ [][Next]_vars

-----------------------------------------------------------------------------
(* Properties.                                                             *)

\* Every participant's inventory and pnl are what the fills of its orders come
\* to, whosever call returned the fill; only the noise traders of TradingEnv
\* miss some (the fills of rl/trading_env.py:237 are not passed on to them).
BooksExact ==
  \A p \in Participants :
    \/ driver = "trading" /\ p \in NoiseTraders
    \/ inventory[p] = owned[p].shares /\ pnl[p] = owned[p].cash

\* A market maker has nothing in the market that it will not cancel in its next
\* turn, and no more than a bid, an ask and one order that unwinds.
QuotesCurrent ==
  \A m \in MarketMakers :
    /\ {i \in RestingIds(book) \cup Ids(pending) : Owner(i) = m} \subseteq outstanding[m]
    /\ Cardinality(outstanding[m]) <= 3

\* No price that is drawn or read is below a tick: a condition on the constants
\* that the agents' own prices meet (agents/random_agent.py:49,
\* agents/market_maker.py:131), and a history with prices of a tick or more.
PricesAboveTick ==
  /\ BasePrice - Tick * TickRange >= Tick
  /\ BasePrice - SeedOffset >= Tick
  /\ \A h \in History : h.kind = "GTC" => h.price >= Tick

\* A market maker trades with itself only while it is short: its bid and its
\* ask do not meet, nor does what it sells to unwind meet a bid of its own.  It
\* is so while PricesAboveTick: a bid is raised to a tick even where the best ask
\* is below one.
WashesOnlyShort ==
  pending # <<>> =>
    \A k \in DOMAIN Submit(book, Head(pending)).fills :
      LET f == Submit(book, Head(pending)).fills[k]
          m == Owner(f.taker)
      IN  Owner(f.maker) = m /\ m \in MarketMakers => inventory[m] < 0

\* When a backtest returns, its series end with the final figures, unless the
\* last event was one that made no order and was due a snapshot.
SeriesEnd ==
  finished /\ driver = "backtest" /\ steps > 0 =>
    captured = Figures \/ (skipped /\ steps % SnapshotInterval = 0)

\* Between two steps of an episode the RL agent has been paid, in pnl_deltas,
\* exactly what it has made since the reset.
RewardsAddUp == Between /\ driver \in Environments => paid = pnl["agent"]
=============================================================================
