------------------------------- MODULE BookOps -------------------------------
(***************************************************************************)
(* The order book of one symbol as a value, and the operators that read    *)
(* and change it: engine/src/order_book.{hpp,cpp}, the order and quantity  *)
(* types of engine/src/types.hpp, and the read-only helpers that           *)
(* engine/src/matching_engine.cpp computes over a book.                    *)
(*                                                                         *)
(* A book has the two sorted price maps bids_ and asks_ (level["Buy"] and  *)
(* level["Sell"]), each a function whose DOMAIN is the set of prices that  *)
(* have a PriceLevel, and order_map_, from the ids of the resting orders   *)
(* to the order in their node.  The linked list of nodes of a level is the *)
(* sequence of their ids, in list order; order_count is its length.        *)
(***************************************************************************)
EXTENDS Integers, SequencesExt

CONSTANTS
  OrderId,          (* ids of orders; the callers never reuse one           *)
  QuantityModulus   (* quantities are unsigned and wrap at this value:      *)
                    (* 2^32 in the code (types.hpp:11)                      *)

ASSUME QuantityModulusAssumption == QuantityModulus \in Nat \ {0, 1}

-----------------------------------------------------------------------------
(* Types.  Prices are signed 64-bit fixed point, taken as integers.          *)

Side == {"Buy", "Sell"}
OrderType == {"Limit", "Market", "Stop", "StopLimit", "Pegged"}
TimeInForce == {"GTC", "IOC", "FOK"}
Price == Int
Quantity == 0 .. QuantityModulus - 1

\* What a caller supplies; NewOrder completes it.
Request == [side : Side, type : OrderType, tif : TimeInForce,
            price : Price, stop_price : Price, peg_offset : Price,
            quantity : Quantity \ {0}, visible_quantity : Quantity]

Order == [id : OrderId, side : Side, type : OrderType, tif : TimeInForce,
          price : Price, stop_price : Price, peg_offset : Price,
          quantity : Quantity, filled_quantity : Quantity,
          visible_quantity : Quantity, hidden_quantity : Quantity]

\* hidden_quantity is 0 for every caller but the API's icebergs, and of those
\* the engine overwrites it before it reads it.
NewOrder(i, r) ==
  [id |-> i, side |-> r.side, type |-> r.type, tif |-> r.tif,
   price |-> r.price, stop_price |-> r.stop_price, peg_offset |-> r.peg_offset,
   quantity |-> r.quantity, filled_quantity |-> 0,
   visible_quantity |-> r.visible_quantity, hidden_quantity |-> 0]

Remaining(o) == o.quantity - o.filled_quantity
IsFilled(o) == o.filled_quantity >= o.quantity
IsIceberg(o) == o.visible_quantity > 0

Wrap(n) == n % QuantityModulus
Least(m, n) == IF m =< n THEN m ELSE n

-----------------------------------------------------------------------------
(* The maps and their levels.                                                *)

PutKey(f, k, v) == [x \in DOMAIN f \cup {k} |-> IF x = k THEN v ELSE f[x]]
DropKey(f, k) == [x \in DOMAIN f \ {k} |-> f[x]]

Opposite(s) == IF s = "Buy" THEN "Sell" ELSE "Buy"

\* Price p comes before price q in the map of side s.
Better(s, p, q) == IF s = "Buy" THEN p > q ELSE p < q

Prices(b, s) == DOMAIN b.level[s]

\* best_bid / best_ask: the first key of the map, none when it is empty.
BestPrices(b, s) ==
  {p \in Prices(b, s) : \A q \in Prices(b, s) : q = p \/ Better(s, p, q)}

Resting(b) == DOMAIN b.order_map

EmptyLevel == [queue |-> <<>>, total_quantity |-> 0]
EmptyBook == [level |-> [s \in Side |-> <<>>], order_map |-> <<>>]

\* operator[] of the price map: the level, made on first use.
LevelAt(b, s, p) == IF p \in Prices(b, s) THEN b.level[s][p] ELSE EmptyLevel

Level == [queue : Seq(OrderId), total_quantity : Quantity]

BookType(b) ==
  /\ DOMAIN b.level = Side
  /\ \A s \in Side : \A p \in Prices(b, s) : p \in Price /\ b.level[s][p] \in Level
  /\ \A i \in Resting(b) : b.order_map[i] \in Order

\* The price maps and order_map_ hold the same orders: a located order is in
\* the queue of the level of its own side and price; a queued id is located
\* there, and is queued once; and no level outlives its last order (an empty
\* one would be the best price for ever, with no order to trade with).
Indexed(b) ==
  /\ \A i \in Resting(b) :
       LET o == b.order_map[i]
       IN  /\ o.id = i
           /\ o.price \in Prices(b, o.side)
           /\ \E k \in DOMAIN b.level[o.side][o.price].queue :
                b.level[o.side][o.price].queue[k] = i
  /\ \A s \in Side : \A p \in Prices(b, s) :
       LET q == b.level[s][p].queue
       IN  /\ q # <<>>
           /\ \A k \in DOMAIN q :
                /\ q[k] \in Resting(b)
                /\ b.order_map[q[k]].side = s
                /\ b.order_map[q[k]].price = p
           /\ \A k, m \in DOMAIN q : q[k] = q[m] => k = m

-----------------------------------------------------------------------------
(* OrderBook::add and OrderBook::cancel.                                     *)

\* Faulty: the order goes to the front of its level.
BookAddInFront(b, o) ==
  LET old == LevelAt(b, o.side, o.price)
      new == [queue |-> <<o.id>> \o old.queue,
              total_quantity |-> Wrap(old.total_quantity + Remaining(o))]
  IN  IF o.type # "Limit"
      THEN b
      ELSE [level |-> [b.level EXCEPT ![o.side] = PutKey(@, o.price, new)],
            order_map |-> PutKey(b.order_map, o.id, o)]

BookAdd(b, o) ==
  LET old == LevelAt(b, o.side, o.price)
      new == [queue |-> Append(old.queue, o.id),
              total_quantity |-> Wrap(old.total_quantity + Remaining(o))]
  IN  IF o.type # "Limit"
      THEN b
      ELSE [level |-> [b.level EXCEPT ![o.side] = PutKey(@, o.price, new)],
            order_map |-> PutKey(b.order_map, o.id, o)]

\* PriceLevel::erase: the node leaves its list, the others keep their order.
Unlink(q, i) == RemoveAt(q, CHOOSE k \in DOMAIN q : q[k] = i)

\* Faulty: a level that has lost its last order stays in the map.
SideWithEmptyLevel(m, o) ==
  PutKey(m, o.price,
         [queue |-> Unlink(m[o.price].queue, o.id),
          total_quantity |-> Wrap(m[o.price].total_quantity - Remaining(o))])

\* The map of one side once the node of order o is erased from it: a level
\* that has no order left is erased too.
SideWithout(m, o) ==
  LET q == Unlink(m[o.price].queue, o.id)
      new == [queue |-> q,
              total_quantity |-> Wrap(m[o.price].total_quantity - Remaining(o))]
  IN  IF q = <<>> THEN DropKey(m, o.price) ELSE PutKey(m, o.price, new)

BookCancel(b, i) ==
  IF i \notin Resting(b)
  THEN b
  ELSE [level |-> [b.level EXCEPT ![b.order_map[i].side] =
                      SideWithout(@, b.order_map[i])],
        order_map |-> DropKey(b.order_map, i)]

CancelResult(b, i) == IF i \in Resting(b) THEN "Success" ELSE "OrderNotFound"

-----------------------------------------------------------------------------
(* What a fill does to the book.                                             *)

\* Faulty: the cached total of the level is not kept up to date.
BookFillStaleTotal(b, i, qty) ==
  [b EXCEPT !.order_map[i].filled_quantity = @ + qty]

\* Faulty: the maker is not charged with the fill.
BookFillTotalOnly(b, i, qty) ==
  LET o == b.order_map[i]
  IN  [b EXCEPT !.level[o.side][o.price].total_quantity = Wrap(@ - qty)]

\* total_quantity and filled_quantity after qty of resting order i trades.
BookFill(b, i, qty) ==
  LET o == b.order_map[i]
  IN  [level |-> [b.level EXCEPT ![o.side][o.price].total_quantity =
                     Wrap(@ - qty)],
       order_map |-> [b.order_map EXCEPT ![i].filled_quantity = @ + qty]]

\* Faulty: the visible slice is hidden as well.
AddIcebergHidingAll(b, o) ==
  LET slice == Least(o.visible_quantity, Remaining(o))
  IN  BookAdd(b, [o EXCEPT !.quantity = slice, !.filled_quantity = 0,
                           !.hidden_quantity = Remaining(o)])

\* add_iceberg_to_book: the visible slice rests, the rest hides behind it.
AddIceberg(b, o) ==
  LET slice == Least(o.visible_quantity, Remaining(o))
  IN  BookAdd(b, [o EXCEPT !.quantity = slice, !.filled_quantity = 0,
                           !.hidden_quantity = Remaining(o) - slice])

\* make_iceberg_refill: what is left of an iceberg whose slice has traded.
Refill(o) == [o EXCEPT !.stop_price = 0, !.peg_offset = 0,
                       !.quantity = o.hidden_quantity,
                       !.filled_quantity = 0, !.hidden_quantity = 0]

\* A fill of qty against resting order i: a maker that is filled leaves the
\* book, and the next slice of an iceberg joins the back of the queue.
FillMaker(b, i, qty) ==
  LET filled == BookFill(b, i, qty)
      maker == filled.order_map[i]
      gone == BookCancel(filled, i)
  IN  IF ~IsFilled(maker) THEN filled
      ELSE IF maker.hidden_quantity = 0 THEN gone
      ELSE AddIceberg(gone, Refill(maker))

-----------------------------------------------------------------------------
(* Limits, fill-or-kill and pegs.                                            *)

\* Faulty: an order does not trade at its own limit.
BeyondOrAt(o, p) == o.type = "Limit" /\ (p = o.price \/ Better(o.side, p, o.price))

\* The outer loop's test: price p is worse than order o may trade at.
Beyond(o, p) == o.type = "Limit" /\ Better(o.side, p, o.price)

\* Faulty: every level of the opposite side is counted.
AvailableAnywhere(b, o) ==
  Wrap(MapThenSumSet(LAMBDA p : b.level[Opposite(o.side)][p].total_quantity,
                     Prices(b, Opposite(o.side))))

\* The price of a set that comes last in the map of side s.
Worst(s, prices) == CHOOSE p \in prices : \A q \in prices : q = p \/ Better(s, q, p)

\* available_quantity: the totals of the permitted levels, the worst added last,
\* until the sum (which wraps) reaches what the order asks for.
AvailableQuantity(b, o) ==
  LET opp == Opposite(o.side)
      Count(p, sum) == IF sum >= o.quantity THEN sum
                       ELSE Wrap(sum + b.level[opp][p].total_quantity)
  IN  MapThenFoldSet(Count, 0, LAMBDA p : p, LAMBDA prices : Worst(opp, prices),
                     {p \in Prices(b, opp) : ~Beyond(o, p)})

\* Faulty: the price stops at the opposite best, not a tick inside.
CappedAtBest(s, p, opp_best) ==
  IF Better(s, p, opp_best) THEN opp_best ELSE p

\* A pegged price that would reach the opposite best stops one tick inside.
Capped(s, p, opp_best) ==
  IF p = opp_best \/ Better(s, p, opp_best)
  THEN IF s = "Buy" THEN opp_best - 1 ELSE opp_best + 1
  ELSE p

\* The price of pegged order o on book b: none without a reference price.
PegPrices(b, o) ==
  LET raw == {IF o.side = "Buy" THEN p - o.peg_offset ELSE p + o.peg_offset
                : p \in BestPrices(b, o.side)}
      opp == Opposite(o.side)
  IN  IF Prices(b, opp) = {} THEN raw
      ELSE {Capped(o.side, p, q) : p \in raw, q \in BestPrices(b, opp)}

\* The limit order that stands in the book for pegged order o at price p.
PegAsLimit(o, p) == [o EXCEPT !.price = p, !.type = "Limit", !.tif = "GTC"]

=============================================================================
