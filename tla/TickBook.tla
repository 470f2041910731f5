------------------------------ MODULE TickBook ------------------------------
(***************************************************************************)
(* The matching engine as the Python drivers use it: limit orders that     *)
(* rest or are discarded, market orders, and cancels, each call one value. *)
(* The engine itself is the subject of MatchingEngine and BookOps; what    *)
(* these drivers never send (stops, pegs, icebergs, fill-or-kill) is left  *)
(* out here.                                                               *)
(*                                                                         *)
(* Each side of a book is the sequence of its orders in price-time order.  *)
(* The id of an order is <<owner, n>>, the n-th order of its owner.        *)
(***************************************************************************)
EXTENDS Integers, SequencesExt

Side == {"Buy", "Sell"}
EmptyBook == [s \in Side |-> <<>>]

Order(id, side, price, quantity, kind) ==
  [id |-> id, side |-> side, price |-> price, quantity |-> quantity, kind |-> kind]
Owner(id) == id[1]

Opposite(s) == IF s = "Buy" THEN "Sell" ELSE "Buy"
Better(s, p, q) == IF s = "Buy" THEN p > q ELSE p < q

\* best_bid_price / best_ask_price of a side that has orders.
Best(book, s) == Head(book[s]).price
Missing(book) == (IF book["Buy"] = <<>> THEN <<"Buy">> ELSE <<>>)
                   \o (IF book["Sell"] = <<>> THEN <<"Sell">> ELSE <<>>)

\* The limit is looked at once: an order that may trade with the best price
\* goes on through the other side until one of the two is used up.
Marketable(book, o) ==
  LET opp == Opposite(o.side)
  IN  /\ book[opp] # <<>>
      /\ o.kind = "Market" \/ ~Better(o.side, Best(book, opp), o.price)

\* What resting order r leaves of order o after the orders before it in its
\* queue: [left of o, the queue so far, the fills so far].
Take(m, r, o) ==
  LET x == IF r.quantity < m.left THEN r.quantity ELSE m.left
  IN  [left |-> m.left - x,
       queue |-> IF x = r.quantity THEN m.queue
                 ELSE Append(m.queue, [r EXCEPT !.quantity = @ - x]),
       fills |-> IF x = 0 THEN m.fills
                 ELSE Append(m.fills, [maker |-> r.id, taker |-> o.id,
                                       price |-> r.price, quantity |-> x,
                                       aggressor_side |-> o.side])]

\* What order o takes from a queue.
Sweep(queue, o) ==
  FoldLeft(LAMBDA m, r : Take(m, r, o),
           [left |-> o.quantity, queue |-> <<>>, fills |-> <<>>], queue)

\* An order rests behind all that are at its price or a better one.
Rest(queue, o) ==
  LET k == Cardinality({i \in DOMAIN queue : ~Better(o.side, o.price, queue[i].price)})
  IN  InsertAt(queue, k + 1, o)

\* submit: the book after order o, and the fills it returns.
Submit(book, o) ==
  LET m == IF Marketable(book, o) THEN Sweep(book[Opposite(o.side)], o)
           ELSE [left |-> o.quantity, queue |-> book[Opposite(o.side)], fills |-> <<>>]
  IN  [book |-> [s \in Side |->
                   IF s # o.side THEN m.queue
                   ELSE IF o.kind = "GTC" /\ m.left > 0
                        THEN Rest(book[s], [o EXCEPT !.quantity = m.left])
                        ELSE book[s]],
       fills |-> m.fills]

Without(queue, ids) ==
  FoldLeft(LAMBDA q, r : IF r.id \in ids THEN q ELSE Append(q, r), <<>>, queue)
Cancel(book, ids) == [s \in Side |-> Without(book[s], ids)]

RestingIds(book) == UNION {{book[s][k].id : k \in DOMAIN book[s]} : s \in Side}

\* What p gains in shares from a fill when it hears of it for the orders ids:
\* as the taker, and as the maker, who is on the other side.
Shares(p, f, ids) ==
  LET taken == IF f.aggressor_side = "Buy" THEN f.quantity ELSE -f.quantity
  IN  (IF f.taker \in ids /\ Owner(f.taker) = p THEN taken ELSE 0)
      - (IF f.maker \in ids /\ Owner(f.maker) = p THEN taken ELSE 0)
=============================================================================
