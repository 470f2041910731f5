---------------------------- MODULE MatchingEngine ----------------------------
(***************************************************************************)
(* The matching engine of one symbol in its continuous phase, the phase it *)
(* starts in and the only one the services use: submit and cancel of       *)
(* engine/src/matching_engine.cpp with everything they call.               *)
(*                                                                         *)
(* A call of submit is a sequence of steps.  pc says which loop the call   *)
(* is in:                                                                  *)
(*   "idle"    no call is running; only then does a caller start one       *)
(*   "levels"  the outer loop of match_against_book, at its limit check    *)
(*   "queue"   its inner loop, at the front of the best level              *)
(*   "stops"   the scan of check_stop_triggers, at index it                *)
(*   "pegs"    the loop of reprice_pegged_orders, at index it              *)
(* The engine takes no lock: its callers run one call at a time (the       *)
(* backend under engine_lock, the simulation on one thread), which is what *)
(* "only when idle" says.                                                  *)
(***************************************************************************)
EXTENDS BookOps

CONSTANTS
  Requests,         (* the orders callers may send                          *)
  NoOrder           (* taker when no order is being matched                 *)

ASSUME RequestsAssumption == Requests \subseteq Request
ASSUME NoOrderAssumption == NoOrder \notin Order

VARIABLES
  book,             (* book_                                                *)
  stop_orders,      (* stop_orders_: dormant stops, in order of arrival     *)
  pegged_orders,    (* pegged_orders_: every pegged order ever placed       *)
  last_trade_price, (* last_trade_price_                                    *)
  pc,               (* where the running call is                            *)
  taker,            (* the order match_against_book is matching             *)
  fills,            (* the fills vector of the running submit               *)
  mark,             (* fills there were when the running match began        *)
  it,               (* index of the stop or pegged-order loop, from 1       *)
  submitted,        (* history: the request of every id                     *)
  traded,           (* history: how much each id has traded, in all         *)
  cancelled         (* history: ids whose cancel returned Success           *)

engine == <<book, stop_orders, pegged_orders, last_trade_price>>
call == <<pc, taker, fills, mark, it>>
history == <<submitted, traded, cancelled>>
vars == <<engine, call, history>>

Fill == [maker : OrderId, taker : OrderId, price : Price,
         quantity : Quantity, aggressor_side : Side]

TypeOK ==
  /\ stop_orders \in Seq(Order)
  /\ pegged_orders \in Seq(Order)
  /\ last_trade_price \in Price
  /\ pc \in {"idle", "levels", "queue", "stops", "pegs"}
  /\ taker \in Order \cup {NoOrder}
  /\ (taker = NoOrder) <=> (pc \in {"idle", "stops", "pegs"})
  /\ fills \in Seq(Fill)
  /\ mark \in 0 .. Len(fills)
  /\ it \in Nat \ {0}
  /\ DOMAIN submitted \subseteq OrderId
  /\ \A i \in DOMAIN submitted : submitted[i] \in Request
  /\ traded \in [DOMAIN submitted -> Nat]
  /\ cancelled \subseteq DOMAIN submitted
  /\ BookType(book)
  /\ Resting(book) \subseteq DOMAIN submitted

Init ==
  /\ book = EmptyBook
  /\ stop_orders = <<>>
  /\ pegged_orders = <<>>
  /\ last_trade_price = 0
  /\ pc = "idle"
  /\ taker = NoOrder
  /\ fills = <<>>
  /\ mark = 0
  /\ it = 1
  /\ submitted = <<>>
  /\ traded = <<>>
  /\ cancelled = {}

-----------------------------------------------------------------------------
(* submit: one action per case of its switch on the type of the order.       *)

Fresh == OrderId \ DOMAIN submitted

\* A caller starts submit with request r under the fresh id i.
Call(i, r) ==
  /\ pc = "idle"
  /\ submitted' = PutKey(submitted, i, r)
  /\ traded' = PutKey(traded, i, 0)
  /\ UNCHANGED cancelled

\* The call goes into match_against_book with order o.
BeginMatch(o) ==
  /\ pc' = "levels"
  /\ taker' = o
  /\ mark' = Len(fills)

SubmitLimit(i, r) ==
  /\ Call(i, r)
  /\ r.type = "Limit"
  /\ LET o == NewOrder(i, r)
     IN  IF o.tif = "FOK" /\ AvailableQuantity(book, o) < o.quantity
         THEN UNCHANGED call
         ELSE BeginMatch(o) /\ UNCHANGED <<fills, it>>
  /\ UNCHANGED engine

SubmitMarket(i, r) ==
  /\ Call(i, r)
  /\ r.type = "Market"
  /\ BeginMatch(NewOrder(i, r))
  /\ UNCHANGED <<engine, fills, it>>

SubmitStop(i, r) ==
  /\ Call(i, r)
  /\ r.type \in {"Stop", "StopLimit"}
  /\ stop_orders' = Append(stop_orders, NewOrder(i, r))
  /\ UNCHANGED <<book, pegged_orders, last_trade_price, call>>

\* A pegged order needs a best price on its own side; it never matches here.
SubmitPegged(i, r) ==
  /\ Call(i, r)
  /\ r.type = "Pegged"
  /\ LET o == NewOrder(i, r)
     IN  \/ /\ Prices(book, o.side) = {}
            /\ UNCHANGED <<book, pegged_orders>>
         \/ \E p \in PegPrices(book, o) :
              /\ book' = BookAdd(book, PegAsLimit(o, p))
              /\ pegged_orders' = Append(pegged_orders, o)
  /\ UNCHANGED <<stop_orders, last_trade_price, call>>

\* Faulty: the next slice of a cancelled iceberg takes its place.
CancelSlice(i) ==
  /\ pc = "idle"
  /\ book' = IF i \in Resting(book) /\ book.order_map[i].hidden_quantity > 0
             THEN AddIceberg(BookCancel(book, i), Refill(book.order_map[i]))
             ELSE BookCancel(book, i)
  /\ cancelled' = IF CancelResult(book, i) = "Success"
                  THEN cancelled \cup {i} ELSE cancelled
  /\ UNCHANGED <<stop_orders, pegged_orders, last_trade_price, call,
                 submitted, traded>>

\* cancel: the book only; dormant stops and pegged_orders_ are not searched.
Cancel(i) ==
  /\ pc = "idle"
  /\ book' = BookCancel(book, i)
  /\ cancelled' = IF CancelResult(book, i) = "Success"
                  THEN cancelled \cup {i} ELSE cancelled
  /\ UNCHANGED <<stop_orders, pegged_orders, last_trade_price, call,
                 submitted, traded>>

-----------------------------------------------------------------------------
(* match_against_book.                                                       *)

\* The outer loop goes on: the best opposite level is within the limit.
EnterLevel ==
  /\ pc = "levels"
  /\ Remaining(taker) > 0
  /\ \E p \in BestPrices(book, Opposite(taker.side)) : ~Beyond(taker, p)
  /\ pc' = "queue"
  /\ UNCHANGED <<engine, taker, fills, mark, it, history>>

\* One turn of the inner loop: the front order of the best level trades.  best
\* is fetched again after a maker has left, and the limit is not.
FillFront ==
  /\ pc = "queue"
  /\ Remaining(taker) > 0
  /\ \E p \in BestPrices(book, Opposite(taker.side)) :
       LET queue == book.level[Opposite(taker.side)][p].queue
           maker == book.order_map[Head(queue)]
           qty == Least(Remaining(taker), Remaining(maker))
       IN  /\ queue # <<>>
           /\ book' = FillMaker(book, maker.id, qty)
           /\ taker' = [taker EXCEPT !.filled_quantity = @ + qty]
           /\ fills' = Append(fills, [maker |-> maker.id, taker |-> taker.id,
                                      price |-> maker.price, quantity |-> qty,
                                      aggressor_side |-> taker.side])
           /\ traded' = [traded EXCEPT ![maker.id] = @ + qty,
                                       ![taker.id] = @ + qty]
  /\ UNCHANGED <<stop_orders, pegged_orders, last_trade_price, pc, mark, it,
                 submitted, cancelled>>

\* The inner loop ends: the taker is filled, or there is no order to trade with.
LeaveLevel ==
  /\ pc = "queue"
  /\ \/ Remaining(taker) = 0
     \/ Prices(book, Opposite(taker.side)) = {}
     \/ \E p \in BestPrices(book, Opposite(taker.side)) :
          book.level[Opposite(taker.side)][p].queue = <<>>
  /\ pc' = "levels"
  /\ UNCHANGED <<engine, taker, fills, mark, it, history>>

\* The outer loop ends.
MatchOver ==
  /\ pc = "levels"
  /\ \/ Remaining(taker) = 0
     \/ Prices(book, Opposite(taker.side)) = {}
     \/ \E p \in BestPrices(book, Opposite(taker.side)) : Beyond(taker, p)

\* The end of match_limit: a GTC remainder rests, any other is discarded.
Rest(o) ==
  IF o.type = "Limit" /\ o.tif = "GTC" /\ Remaining(o) > 0
  THEN IF IsIceberg(o) THEN AddIceberg(book, o) ELSE BookAdd(book, o)
  ELSE book

\* Faulty: the matched order is left behind.
ReturnKeepingTaker ==
  /\ pc' = "idle"
  /\ fills' = <<>>
  /\ mark' = 0
  /\ it' = 1
  /\ UNCHANGED taker

Return ==
  /\ pc' = "idle"
  /\ taker' = NoOrder
  /\ fills' = <<>>
  /\ mark' = 0
  /\ it' = 1

\* The scan of the stops (re)starts after fills, at the price of the last one.
StartScan ==
  /\ last_trade_price' = fills[Len(fills)].price
  /\ pc' = "stops"
  /\ taker' = NoOrder
  /\ it' = 1

NewFills == Len(fills) > mark

\* The match of the submitted order is over (it is the only one that began
\* with no fills): submit returns, or goes on to the stops.
EndMatch ==
  /\ MatchOver
  /\ mark = 0
  /\ book' = Rest(taker)
  /\ IF NewFills THEN StartScan /\ UNCHANGED <<fills, mark>>
                 ELSE Return /\ UNCHANGED last_trade_price
  /\ UNCHANGED <<stop_orders, pegged_orders, history>>

-----------------------------------------------------------------------------
(* check_stop_triggers and reprice_pegged_orders.                            *)

Triggers(o, price) ==
  IF o.side = "Buy" THEN price >= o.stop_price ELSE price =< o.stop_price

TriggeredMarket(o) == [o EXCEPT !.type = "Market", !.price = 0, !.stop_price = 0]

\* Faulty: the stop is matched and not erased.
TriggerStopKept ==
  /\ pc = "stops"
  /\ it =< Len(stop_orders)
  /\ Triggers(stop_orders[it], last_trade_price)
  /\ BeginMatch(TriggeredMarket(stop_orders[it]))
  /\ UNCHANGED <<engine, fills, it, history>>

\* A stop whose price is reached is erased and matched as a market order.
TriggerStop ==
  /\ pc = "stops"
  /\ it =< Len(stop_orders)
  /\ Triggers(stop_orders[it], last_trade_price)
  /\ BeginMatch(TriggeredMarket(stop_orders[it]))
  /\ stop_orders' = RemoveAt(stop_orders, it)
  /\ UNCHANGED <<book, pegged_orders, last_trade_price, fills, it, history>>

SkipStop ==
  /\ pc = "stops"
  /\ it =< Len(stop_orders)
  /\ ~Triggers(stop_orders[it], last_trade_price)
  /\ it' = it + 1
  /\ UNCHANGED <<engine, pc, taker, fills, mark, history>>

\* Faulty: fills move the last trade price and the scan goes on where it was.
EndStopMatchGoingOn ==
  /\ MatchOver
  /\ mark > 0
  /\ pc' = "stops"
  /\ taker' = NoOrder
  /\ last_trade_price' = IF NewFills THEN fills[Len(fills)].price
                         ELSE last_trade_price
  /\ UNCHANGED <<book, stop_orders, pegged_orders, fills, mark, it, history>>

\* The match of a triggered stop is over: with fills the scan starts again,
\* without any it goes on where it was, and the stop is gone either way.
EndStopMatch ==
  /\ MatchOver
  /\ mark > 0
  /\ IF NewFills
     THEN StartScan
     ELSE /\ pc' = "stops"
          /\ taker' = NoOrder
          /\ UNCHANGED <<it, last_trade_price>>
  /\ UNCHANGED <<book, stop_orders, pegged_orders, fills, mark, history>>

EndScan ==
  /\ pc = "stops"
  /\ it > Len(stop_orders)
  /\ pc' = "pegs"
  /\ it' = 1
  /\ UNCHANGED <<engine, taker, fills, mark, history>>

\* A pegged order is taken out of the book, whether or not it is still there,
\* and put back whole at its new price if there is a price to peg it to.
Reprice ==
  /\ pc = "pegs"
  /\ it =< Len(pegged_orders)
  /\ LET o == pegged_orders[it]
         without == BookCancel(book, o.id)
     IN  \/ /\ Prices(without, o.side) = {}
            /\ book' = without
         \/ \E p \in PegPrices(without, o) :
              book' = BookAdd(without, PegAsLimit(o, p))
  /\ it' = it + 1
  /\ UNCHANGED <<stop_orders, pegged_orders, last_trade_price, pc, taker,
                 fills, mark, history>>

EndReprice ==
  /\ pc = "pegs"
  /\ it > Len(pegged_orders)
  /\ Return
  /\ UNCHANGED <<engine, history>>

-----------------------------------------------------------------------------
Submit(i, r) ==
  SubmitLimit(i, r) \/ SubmitMarket(i, r) \/ SubmitStop(i, r) \/ SubmitPegged(i, r)

CallStep ==
  \/ EnterLevel \/ FillFront \/ LeaveLevel \/ EndMatch
  \/ TriggerStop \/ SkipStop \/ EndStopMatch \/ EndScan
  \/ Reprice \/ EndReprice

Next ==
  \/ \E i \in Fresh, r \in Requests : Submit(i, r)
  \/ \E i \in OrderId : Cancel(i)
  \/ CallStep

Spec == Init /\ [][Next]_vars

\* A call that has begun keeps running: its steps are one thread's statements.
FairSpec == Spec /\ WF_vars(CallStep)

-----------------------------------------------------------------------------
(* Properties.                                                               *)

Pegged(i) == submitted[i].type = "Pegged"
IsTaker(i) == taker # NoOrder /\ taker.id = i

\* After every step of every call, whichever of add, fill, refill, cancel and
\* reprice it makes (order_book.cpp:6-56), the two indexes of the book agree.
BookIndexed == Indexed(book)

\* The cached total of a level (order_book.hpp:22), kept up to date by add,
\* cancel and every fill apart, is the wrapped sum of what its orders have left.
LevelTotals ==
  \A s \in Side : \A p \in Prices(book, s) :
    book.level[s][p].total_quantity =
      Wrap(FoldLeft(LAMBDA sum, i : sum + Remaining(book.order_map[i]),
                    0, book.level[s][p].queue))

\* The best bid is below the best ask after every step of continuous trading,
\* with pegs that chase the best prices and remainders that rest.
NotCrossed ==
  \A p \in Prices(book, "Buy"), q \in Prices(book, "Sell") : p < q

\* A resting order that is not pegged has, with its hidden slices, exactly what
\* it was submitted with less what it has traded: no fill, refill or remainder
\* makes or loses quantity.
Conserved ==
  \A i \in Resting(book) : ~Pegged(i) =>
    traded[i] + Remaining(book.order_map[i]) + book.order_map[i].hidden_quantity
      = submitted[i].quantity

\* No order that is not pegged ever trades more than it was submitted with.
NoOverfill ==
  \A i \in DOMAIN submitted : ~Pegged(i) => traded[i] =< submitted[i].quantity

\* A fill-or-kill limit order trades all or nothing, and within its limit,
\* although the check before the match reads totals that wrap and leave out
\* hidden quantity (matching_engine.cpp:90-95).
FillOrKill ==
  /\ \A i \in DOMAIN submitted :
       submitted[i].type = "Limit" /\ submitted[i].tif = "FOK" /\ ~IsTaker(i)
         => traded[i] \in {0, submitted[i].quantity}
  /\ taker # NoOrder /\ taker.tif = "FOK"
       => \A k \in mark + 1 .. Len(fills) : ~Beyond(taker, fills[k].price)

\* An order that a cancel took out of the book is out for good, unless it is
\* pegged: no iceberg slice, remainder or running match brings it back.
CancelIsFinal ==
  \A i \in cancelled : ~Pegged(i) => i \notin Resting(book) /\ ~IsTaker(i)

\* When a call reaches the pegs, no stop that the last trade triggers is left
\* dormant, however the fills of the stops it set off moved the price.
StopsSwept ==
  pc = "pegs" =>
    \A k \in DOMAIN stop_orders : ~Triggers(stop_orders[k], last_trade_price)

\* A stop is dormant, or has been triggered once: while it waits it is queued
\* once, has not traded, and is neither in the book nor being matched.
StopsDormant ==
  \A k \in DOMAIN stop_orders :
    LET i == stop_orders[k].id
    IN  /\ traded[i] = 0
        /\ i \notin Resting(book) /\ ~IsTaker(i)
        /\ \A m \in DOMAIN stop_orders : stop_orders[m].id = i => m = k

Before(b, i, j) ==
  \E s \in Side : \E p \in Prices(b, s) :
    \E k, m \in DOMAIN b.level[s][p].queue :
      k < m /\ b.level[s][p].queue[k] = i /\ b.level[s][p].queue[m] = j

\* Order i loses its place in this step: its last slice trades, or it is pegged
\* and repriced.
Requeued(i) ==
  \/ /\ pc = "queue" /\ fills' # fills
     /\ fills'[Len(fills')].maker = i
     /\ fills'[Len(fills')].quantity = Remaining(book.order_map[i])
  \/ pc = "pegs" /\ it =< Len(pegged_orders) /\ pegged_orders[it].id = i

\* Time priority at a price: two orders of a queue keep their order as long as
\* they are in it, and an iceberg that refills or a peg that is put back at the
\* same price goes behind everyone there.
TimePriority ==
  [][\A i, j \in Resting(book) \cap Resting(book)' :
       Before(book, i, j) =>
         IF Requeued(i) THEN ~Before(book, i, j)'
         ELSE Requeued(j) \/ Before(book, i, j)']_vars

\* Every call returns: the match runs out of quantity, prices or orders, stops
\* that set off stops run out, and the pegs are gone through once.
CallReturns == pc # "idle" ~> pc = "idle"

-----------------------------------------------------------------------------
(* Claims of the documentation that the engine does not keep; each has a run *)
(* that shows how.                                                           *)

\* docs/cpp_explanation.md:79, "no fill at an impermissible limit": a limit order
\* never trades at a price beyond its limit, at any level its match goes on to.
LimitRespected ==
  taker # NoOrder =>
    \A k \in mark + 1 .. Len(fills) : ~Beyond(taker, fills[k].price)

\* docs/cpp_explanation.md:79, "no negative remainder": a pegged order, like any
\* other, trades no more than its quantity, however often it is repriced.
PegsNoOverfill ==
  \A i \in DOMAIN submitted : Pegged(i) => traded[i] =< submitted[i].quantity

=============================================================================
