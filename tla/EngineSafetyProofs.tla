-------------------------- MODULE EngineSafetyProofs --------------------------
(***************************************************************************)
(* The safety properties of MatchingEngine, proved on top of EngineInv,    *)
(* and the refinement of EngineLedger, proved for every set of ids, every  *)
(* set of requests without pegged orders, and every quantity modulus: each *)
(* step of the engine is a step of the ledger or leaves it alone.          *)
(***************************************************************************)
EXTENDS EngineLedger, MatchingEngineProofs, FoldProofs

-----------------------------------------------------------------------------
(* The book is never crossed.                                                *)

\* NotCrossed of any book.
Uncrossed(b) == \A p \in Prices(b, "Buy"), q \in Prices(b, "Sell") : p < q

\* Cancels and fills (order_book.cpp:32-56, matching_engine.cpp:142-161) bring
\* no new price into the book, and so do not cross it.
LEMMA FewerPricesUncrossed ==
  ASSUME NEW b, NEW c, Uncrossed(b),
         \A s \in Side : Prices(c, s) \subseteq Prices(b, s)
  PROVE  Uncrossed(c)
BY DEF Uncrossed, Side

\* A side may gain a price that every price of the other side is beyond.
LEMMA NewPriceUncrossed ==
  ASSUME NEW b, NEW c, Uncrossed(b), NEW s \in Side, NEW p,
         \A x \in Side : Prices(c, x) = IF x = s THEN Prices(b, x) \cup {p}
                                        ELSE Prices(b, x),
         \A q \in Prices(b, Opposite(s)) : Better(s, q, p)
  PROVE  Uncrossed(c)
<1>1. CASE s = "Buy"
  BY <1>1 DEF Uncrossed, Side, Opposite, Better
<1>2. CASE s = "Sell"
  BY <1>2 DEF Uncrossed, Side, Opposite, Better
<1> QED BY <1>1, <1>2 DEF Side

\* The price of a pegged order (matching_engine.cpp:286-304) stops short of every
\* price of the other side.
LEMMA PegPricesShort ==
  ASSUME NEW b, BookType(b), NEW o \in Order, NEW p \in PegPrices(b, o),
         NEW q \in Prices(b, Opposite(o.side))
  PROVE  Better(o.side, q, p)
<1>1. o.side \in Side /\ Opposite(o.side) \in Side /\ o.peg_offset \in Int
  BY OrderFields DEF Opposite, Side
<1>2. \A s \in Side : Prices(b, s) \subseteq Int
  BY DEF BookType, Price
<1> DEFINE raw == {IF o.side = "Buy" THEN r - o.peg_offset ELSE r + o.peg_offset
                     : r \in BestPrices(b, o.side)}
<1>3. raw \subseteq Int
  BY <1>1, <1>2 DEF BestPrices
<1>4. PegPrices(b, o) =
        IF Prices(b, Opposite(o.side)) = {} THEN raw
        ELSE {Capped(o.side, r, x) : r \in raw,
                                     x \in BestPrices(b, Opposite(o.side))}
  BY DEF PegPrices
<1> HIDE DEF raw
<1>5. PICK r \in raw, best \in BestPrices(b, Opposite(o.side)) :
        p = Capped(o.side, r, best)
  BY <1>4
<1>6. /\ r \in Int /\ best \in Int /\ q \in Int
      /\ q = best \/ Better(Opposite(o.side), best, q)
  BY <1>1, <1>2, <1>3 DEF BestPrices
<1>7. CASE o.side = "Buy"
  BY <1>5, <1>6, <1>7 DEF Capped, Better, Opposite
<1>8. CASE o.side = "Sell"
  BY <1>5, <1>6, <1>8 DEF Capped, Better, Opposite
<1> QED BY <1>1, <1>7, <1>8 DEF Side

\* A pegged order that comes into the book does not cross it.
LEMMA AddPegUncrossed ==
  ASSUME NEW b, BookType(b), Uncrossed(b), NEW o \in Order,
         o.filled_quantity = 0, o.quantity > 0, o.hidden_quantity = 0,
         NEW p \in PegPrices(b, o)
  PROVE  Uncrossed(BookAdd(b, PegAsLimit(o, p)))
<1> DEFINE x == PegAsLimit(o, p)
<1>1. p \in Price
  BY PegPricesType
<1>2. x \in Order /\ x.side = o.side /\ x.price = p /\ Tradable(x)
  BY <1>1, PegAsLimitShape
<1> HIDE DEF x
<1>3. x.type = "Limit"
  BY <1>2 DEF Tradable
<1>4. \A s \in Side : Prices(BookAdd(b, x), s) =
        IF s = o.side THEN Prices(b, s) \cup {p} ELSE Prices(b, s)
  BY <1>2, <1>3, AddShape
<1>5. \A q \in Prices(b, Opposite(o.side)) : Better(o.side, q, p)
  BY PegPricesShort
<1> QED BY <1>4, <1>5, OrderFields, NewPriceUncrossed DEF x

\* What is left of a limit order rests only when the other side has run out or is
\* beyond its limit (matching_engine.cpp:100-124).
LEMMA RestUncrossed ==
  ASSUME EngineInv, Uncrossed(book), MatchOver
  PROVE  Uncrossed(Rest(taker))
<1> DEFINE b == Rest(taker)
<1>1. taker # NoOrder /\ taker \in Order /\ BookType(book)
  BY DEF MatchOver, EngineInv, TypeOK
<1>2. \/ b = book
      \/ /\ taker.type = "Limit" /\ Remaining(taker) > 0
         /\ \A s \in Side :
              Prices(b, s) = IF s = taker.side
                             THEN Prices(book, s) \cup {taker.price}
                             ELSE Prices(book, s)
  BY <1>1, RestKeeps
<1> HIDE DEF b
<1>3. CASE b = book
  BY <1>3 DEF b
<1>4. CASE b # book
  <2>1. /\ taker.type = "Limit" /\ Remaining(taker) # 0
        /\ \A s \in Side :
              Prices(b, s) = IF s = taker.side
                             THEN Prices(book, s) \cup {taker.price}
                             ELSE Prices(book, s)
    BY <1>2, <1>4, <1>1, OrderFields
  <2>2. ASSUME NEW q \in Prices(book, Opposite(taker.side))
        PROVE  Better(taker.side, q, taker.price)
    <3>1. PICK p \in BestPrices(book, Opposite(taker.side)) : Beyond(taker, p)
      BY <2>1, <2>2 DEF MatchOver
    <3>2. /\ taker.side \in Side /\ Opposite(taker.side) \in Side
          /\ taker.price \in Int
          /\ \A s \in Side : Prices(book, s) \subseteq Int
      BY <1>1, OrderFields DEF BookType, Price, Opposite, Side
    <3>3. /\ p \in Int /\ q \in Int /\ Better(taker.side, p, taker.price)
          /\ q = p \/ Better(Opposite(taker.side), p, q)
      BY <2>2, <3>1, <3>2 DEF BestPrices, Beyond
    <3>4. CASE taker.side = "Buy"
      BY <3>2, <3>3, <3>4 DEF Better, Opposite
    <3>5. CASE taker.side = "Sell"
      BY <3>2, <3>3, <3>5 DEF Better, Opposite
    <3> QED BY <3>2, <3>4, <3>5 DEF Side
  <2>3. Uncrossed(b)
    BY <1>1, <2>1, <2>2, OrderFields, NewPriceUncrossed
  <2> QED BY <2>3 DEF b
<1> QED BY <1>3, <1>4

\* Every step of the engine keeps its book uncrossed.
LEMMA StepKeepsNotCrossed ==
  ASSUME EngineInv, NotCrossed, [Next]_vars
  PROVE  NotCrossed'
<1>1. /\ Uncrossed(book) /\ BookType(book) /\ Indexed(book) /\ Live(book)
      /\ NotCrossed' = Uncrossed(book')
  BY DEF NotCrossed, Uncrossed, EngineInv, TypeOK, BookIndexed, RestingKnown
<1>2. CASE UNCHANGED book
  BY <1>1, <1>2
<1>3. ASSUME NEW i \in Fresh, NEW r \in Requests, SubmitPegged(i, r)
      PROVE  Uncrossed(book')
  <2> DEFINE o == NewOrder(i, r)
  <2>1. i \in OrderId /\ r \in Request
    BY <1>3, RequestsAssumption DEF Fresh
  <2>2. /\ o \in Order /\ o.quantity > 0
        /\ o.filled_quantity = 0 /\ o.hidden_quantity = 0
    BY <2>1, NewOrderShape
  <2>3. \/ book' = book
        \/ \E p \in PegPrices(book, o) : book' = BookAdd(book, PegAsLimit(o, p))
    BY <1>3 DEF SubmitPegged
  <2> HIDE DEF o
  <2> QED BY <1>1, <2>2, <2>3, AddPegUncrossed
<1>4. ASSUME NEW i \in OrderId, Cancel(i)
      PROVE  Uncrossed(book')
  <2>1. \A s \in Side : Prices(book', s) \subseteq Prices(book, s)
    BY <1>1, <1>4, CancelKeeps DEF Cancel
  <2> QED BY <1>1, <2>1, FewerPricesUncrossed
<1>5. CASE FillFront
  <2>1. taker # NoOrder /\ Remaining(taker) > 0
    BY Zenon, <1>5 DEF FillFront, EngineInv, TypeOK
  <2>2. PICK p \in BestPrices(book, Opposite(taker.side)) :
          LET queue == book.level[Opposite(taker.side)][p].queue
              maker == book.order_map[Head(queue)]
              qty == Least(Remaining(taker), Remaining(maker))
          IN  queue # <<>> /\ book' = FillMaker(book, maker.id, qty)
    BY Zenon, <1>5 DEF FillFront
  <2> DEFINE maker == book.order_map[Head(book.level[Opposite(taker.side)][p].queue)]
             qty == Least(Remaining(taker), Remaining(maker))
  <2>3. /\ maker.id \in Resting(book) /\ maker = book.order_map[maker.id]
        /\ qty \in Nat /\ qty =< Remaining(maker)
    BY Zenon, <2>1, <2>2, FrontShape
  <2>4. book' = FillMaker(book, maker.id, qty)
    BY <2>2
  <2> HIDE DEF maker, qty
  <2>5. \A s \in Side : Prices(book', s) \subseteq Prices(book, s)
    <3>1. qty =< Remaining(book.order_map[maker.id])
      BY <2>3
    <3> HIDE <2>3
    <3> QED BY <1>1, <2>3, <2>4, <3>1, FillMakerKeeps
  <2> QED BY <1>1, <2>5, FewerPricesUncrossed
<1>6. CASE EndMatch
  BY <1>1, <1>6, RestUncrossed DEF EndMatch
<1>7. CASE Reprice
  <2> DEFINE o == pegged_orders[it]
             without == BookCancel(book, o.id)
  <2>1. /\ it =< Len(pegged_orders)
        /\ \/ book' = without
           \/ \E p \in PegPrices(without, o) :
                book' = BookAdd(without, PegAsLimit(o, p))
    BY <1>7 DEF Reprice
  <2>2. /\ o \in Order /\ o.filled_quantity = 0 /\ o.quantity > 0
        /\ o.hidden_quantity = 0
    BY <2>1 DEF EngineInv, TypeOK, PegsKnown
  <2>3. /\ BookType(without)
        /\ \A s \in Side : Prices(without, s) \subseteq Prices(book, s)
    BY <1>1, CancelKeeps
  <2> HIDE DEF without, o
  <2>4. Uncrossed(without)
    BY <1>1, <2>3, FewerPricesUncrossed
  <2>5. \A p \in PegPrices(without, o) :
          Uncrossed(BookAdd(without, PegAsLimit(o, p)))
    BY <2>2, <2>3, <2>4, AddPegUncrossed
  <2> QED BY <1>1, <2>1, <2>4, <2>5
<1> QED
  BY <1>1, <1>2, <1>3, <1>4, <1>5, <1>6, <1>7
  DEF Next, Submit, SubmitLimit, SubmitMarket, SubmitStop, CallStep, EnterLevel,
      LeaveLevel, TriggerStop, SkipStop, EndStopMatch, EndScan, EndReprice,
      engine, vars

\* The best bid stays below the best ask after every step of every call, for
\* every set of requests: remainders rest and pegs are priced without crossing.
THEOREM NeverCrossed == Spec => []NotCrossed
<1>1. Init => NotCrossed
  BY DEF Init, NotCrossed, Prices, EmptyBook, Side
<1>2. EngineInv /\ NotCrossed /\ [Next]_vars => NotCrossed'
  BY StepKeepsNotCrossed
<1> QED BY <1>1, <1>2, EngineInvariant, PTL DEF Spec

-----------------------------------------------------------------------------
(* No quantity is made or lost, and what is cancelled stays out.             *)

\* Conserved for the order being matched and for the dormant stops.
TakerAccounts ==
  taker # NoOrder =>
    /\ traded[taker.id] = taker.filled_quantity
    /\ taker.quantity = submitted[taker.id].quantity

StopAccounts ==
  \A k \in DOMAIN stop_orders :
    LET o == stop_orders[k]
    IN  /\ traded[o.id] = 0
        /\ o.quantity = submitted[o.id].quantity

\* A dormant stop is in its list once, and is not the order being matched.
StopsApart ==
  /\ \A k, m \in DOMAIN stop_orders :
       stop_orders[k].id = stop_orders[m].id => k = m
  /\ taker # NoOrder =>
       \A k \in DOMAIN stop_orders : stop_orders[k].id # taker.id

\* Only what rests can be cancelled, and no order that may rest is a stop.
CancelledKnown ==
  /\ CancelIsFinal
  /\ \A i \in cancelled : submitted[i].type \in {"Limit", "Pegged"}

Accounts ==
  /\ Conserved
  /\ TakerAccounts
  /\ StopAccounts
  /\ StopsApart
  /\ CancelledKnown
  /\ NoOverfill

\* The engine starts with nothing to account for.
LEMMA InitAccounts == Init => Accounts
BY DEF Init, Accounts, Conserved, TakerAccounts, StopAccounts,
       StopsApart, CancelledKnown, CancelIsFinal, NoOverfill, Resting, EmptyBook

\* Steps that change neither the book, the stops nor the history, and leave the
\* order being matched alone or let it go.
LEMMA QuietStepAccounts ==
  ASSUME EngineInv, Accounts,
         UNCHANGED <<book, stop_orders, submitted, traded, cancelled>>,
         taker' = taker \/ taker' = NoOrder
  PROVE  Accounts'
BY DEF Accounts, Conserved, TakerAccounts, StopAccounts,
       StopsApart, CancelledKnown, CancelIsFinal, NoOverfill, IsTaker, Pegged

\* What was accounted for is accounted for when a call has begun, and nothing is
\* in the engine or its history under the new id.
LEMMA CallAccounts ==
  ASSUME EngineInv, Accounts, NEW i \in Fresh, NEW r \in Requests, Call(i, r)
  PROVE  /\ \A j \in Resting(book) : submitted'[j].type # "Pegged" =>
              traded'[j] + Remaining(book.order_map[j])
                + book.order_map[j].hidden_quantity = submitted'[j].quantity
         /\ \A k \in DOMAIN stop_orders :
              /\ traded'[stop_orders[k].id] = 0
              /\ stop_orders[k].quantity = submitted'[stop_orders[k].id].quantity
              /\ stop_orders[k].id # i
         /\ \A k, m \in DOMAIN stop_orders :
              stop_orders[k].id = stop_orders[m].id => k = m
         /\ \A j \in cancelled' :
              /\ j # i
              /\ submitted'[j].type \in {"Limit", "Pegged"}
              /\ submitted'[j].type # "Pegged" => j \notin Resting(book)
         /\ NoOverfill'
<1>1. /\ i \notin DOMAIN submitted
      /\ DOMAIN submitted' = DOMAIN submitted \cup {i}
      /\ \A j \in DOMAIN submitted : submitted'[j] = submitted[j]
      /\ traded'[i] = 0
      /\ \A j \in DOMAIN submitted : traded'[j] = traded[j]
      /\ cancelled' = cancelled
      /\ submitted'[i] \in Request
  BY CallKeeps
<1>2. /\ Resting(book) \subseteq DOMAIN submitted
      /\ cancelled \subseteq DOMAIN submitted
      /\ \A k \in DOMAIN stop_orders : stop_orders[k].id \in DOMAIN submitted
  BY DEF EngineInv, TypeOK, StopsKnown
<1>3. 0 =< submitted'[i].quantity
  BY <1>1, QuantityModulusAssumption DEF Request, Quantity
<1>4. NoOverfill'
  BY <1>1, <1>3 DEF Accounts, NoOverfill, Pegged
<1> QED
  BY <1>1, <1>2, <1>4
  DEF Accounts, Conserved, StopAccounts, StopsApart, CancelledKnown,
      CancelIsFinal, Pegged

\* A limit or market order is submitted: nothing has traded, so all of it is left.
LEMMA SubmitMatchedAccounts ==
  ASSUME EngineInv, Accounts, NEW i \in Fresh, NEW r \in Requests,
         SubmitLimit(i, r) \/ SubmitMarket(i, r)
  PROVE  Accounts'
<1> DEFINE o == NewOrder(i, r)
<1>1. /\ Call(i, r) /\ UNCHANGED <<book, stop_orders>>
      /\ taker' = taker \/ taker' = o
  BY DEF SubmitLimit, SubmitMarket, BeginMatch, engine, call
<1>2. /\ i \in OrderId /\ r \in Request /\ submitted'[i] = r
      /\ traded'[i] = 0 /\ taker = NoOrder
  BY <1>1, CallKeeps
<1>3. o.id = i /\ o.quantity = r.quantity /\ o.filled_quantity = 0
  BY <1>2, NewOrderShape
<1> HIDE DEF o
<1>4. Conserved' /\ StopAccounts' /\ NoOverfill'
  BY <1>1, CallAccounts DEF Conserved, StopAccounts, Pegged
<1>5. TakerAccounts' /\ StopsApart' /\ CancelledKnown'
  <2>1. taker' # NoOrder => taker' = o /\ taker'.id = i
    BY <1>1, <1>2, <1>3
  <2>2. TakerAccounts'
    BY <2>1, <1>2, <1>3 DEF TakerAccounts
  <2>3. StopsApart'
    BY <2>1, <1>1, CallAccounts DEF StopsApart
  <2>4. CancelledKnown'
    BY <2>1, <1>1, CallAccounts DEF CancelledKnown, CancelIsFinal, IsTaker, Pegged
  <2> QED BY <2>2, <2>3, <2>4
<1> QED BY <1>4, <1>5 DEF Accounts

\* A stop is submitted: its id is new to the list.
LEMMA SubmitStopAccounts ==
  ASSUME EngineInv, Accounts, NEW i \in Fresh, NEW r \in Requests, SubmitStop(i, r)
  PROVE  Accounts'
<1> DEFINE o == NewOrder(i, r)
<1>1. /\ Call(i, r) /\ stop_orders' = Append(stop_orders, o)
      /\ UNCHANGED <<book, taker>>
  BY DEF SubmitStop, call
<1>2. /\ i \in OrderId /\ r \in Request /\ submitted'[i] = r
      /\ traded'[i] = 0 /\ taker = NoOrder
  BY <1>1, CallKeeps
<1>3. o.id = i /\ o.quantity = r.quantity
  BY <1>2, NewOrderShape
<1> HIDE DEF o
<1>4. /\ DOMAIN stop_orders = 1 .. Len(stop_orders)
      /\ DOMAIN stop_orders' = 1 .. Len(stop_orders) + 1
      /\ \A k \in DOMAIN stop_orders : stop_orders'[k] = stop_orders[k]
      /\ stop_orders'[Len(stop_orders) + 1] = o
      /\ Len(stop_orders) \in Nat
  BY <1>1 DEF EngineInv, TypeOK
<1>5. ASSUME NEW k \in DOMAIN stop_orders'
      PROVE  \/ k \in DOMAIN stop_orders /\ stop_orders'[k] = stop_orders[k]
             \/ k = Len(stop_orders) + 1 /\ stop_orders'[k] = o
  BY <1>4
<1>6. Conserved' /\ NoOverfill' /\ CancelledKnown' /\ TakerAccounts'
  BY <1>1, <1>2, CallAccounts
  DEF Conserved, CancelledKnown, CancelIsFinal, TakerAccounts, IsTaker, Pegged
<1>7. StopAccounts'
  BY <1>1, <1>2, <1>3, <1>5, CallAccounts DEF StopAccounts
<1>8. StopsApart'
  <2>1. ASSUME NEW k \in DOMAIN stop_orders', NEW m \in DOMAIN stop_orders',
               stop_orders'[k].id = stop_orders'[m].id
        PROVE  k = m
    BY <2>1, <1>1, <1>3, <1>5, CallAccounts
  <2> QED BY <2>1, <1>1, <1>2 DEF StopsApart
<1> QED BY <1>6, <1>7, <1>8 DEF Accounts

\* A pegged order is submitted: pegged orders are not accounted for.
LEMMA SubmitPeggedAccounts ==
  ASSUME EngineInv, Accounts, NEW i \in Fresh, NEW r \in Requests,
         SubmitPegged(i, r)
  PROVE  Accounts'
<1> DEFINE o == NewOrder(i, r)
<1>1. /\ Call(i, r) /\ r.type = "Pegged" /\ UNCHANGED <<stop_orders, taker>>
      /\ \/ book' = book
         \/ \E p \in PegPrices(book, o) : book' = BookAdd(book, PegAsLimit(o, p))
  BY DEF SubmitPegged, call
<1>2. /\ i \in OrderId /\ r \in Request /\ submitted'[i] = r
      /\ i \notin Resting(book) /\ taker = NoOrder
  BY <1>1, CallKeeps
<1>3. /\ o \in Order /\ o.id = i /\ o.quantity > 0
      /\ o.filled_quantity = 0 /\ o.hidden_quantity = 0
  BY <1>2, NewOrderShape
<1> HIDE DEF o
<1>4. BookType(book)
  BY DEF EngineInv, TypeOK
<1>5. /\ Resting(book') \subseteq Resting(book) \cup {i}
      /\ \A j \in Resting(book) : j # i => book'.order_map[j] = book.order_map[j]
  <2>1. ASSUME NEW p \in PegPrices(book, o)
        PROVE  LET c == BookAdd(book, PegAsLimit(o, p))
               IN  /\ Resting(c) = Resting(book) \cup {i}
                   /\ \A j \in Resting(book) : j # i =>
                        c.order_map[j] = book.order_map[j]
    <3> DEFINE x == PegAsLimit(o, p)
    <3>1. p \in Price
      BY <1>3, <1>4, PegPricesType
    <3>2. x \in Order /\ x.id = i /\ x.type = "Limit"
      BY <1>3, <3>1, PegAsLimitShape DEF Tradable
    <3> HIDE DEF x
    <3> QED BY <1>4, <3>2, AddShape DEF x
  <2> QED BY <1>1, <2>1
<1>6. Conserved' /\ NoOverfill' /\ CancelledKnown' /\ TakerAccounts'
  BY <1>1, <1>2, <1>5, CallAccounts
  DEF Conserved, CancelledKnown, CancelIsFinal, TakerAccounts, IsTaker, Pegged
<1>7. StopAccounts' /\ StopsApart'
  BY <1>1, <1>2, CallAccounts DEF StopAccounts, StopsApart
<1> QED BY <1>6, <1>7 DEF Accounts

\* cancel: the order leaves the book, and was not being matched.
LEMMA CancelAccounts ==
  ASSUME EngineInv, Accounts, NEW i \in OrderId, Cancel(i)
  PROVE  Accounts'
<1>1. /\ book' = BookCancel(book, i) /\ pc = "idle"
      /\ UNCHANGED <<stop_orders, taker, submitted, traded>>
      /\ cancelled' = cancelled \/ (i \in Resting(book) /\ cancelled' = cancelled \cup {i})
  BY DEF Cancel, call, CancelResult
<1>2. /\ Resting(book') = Resting(book) \ {i}
      /\ \A j \in Resting(book') : book'.order_map[j] = book.order_map[j]
  BY <1>1, CancelKeeps DEF EngineInv, TypeOK, BookIndexed
<1>3. taker = NoOrder /\ (i \in Resting(book) => submitted[i].type \in {"Limit", "Pegged"})
  BY <1>1 DEF EngineInv, TypeOK, RestingKnown
<1>4. Conserved' /\ NoOverfill' /\ CancelledKnown'
  BY <1>1, <1>2, <1>3
  DEF Accounts, Conserved, NoOverfill, CancelledKnown, CancelIsFinal, IsTaker, Pegged
<1>5. TakerAccounts' /\ StopAccounts' /\ StopsApart'
  BY <1>1, <1>3 DEF Accounts, TakerAccounts, StopAccounts, StopsApart
<1> QED BY <1>4, <1>5 DEF Accounts

\* A repricing moves one pegged order and no other.
LEMMA RepriceAccounts ==
  ASSUME EngineInv, Accounts, Reprice
  PROVE  Accounts'
<1> DEFINE o == pegged_orders[it]
           without == BookCancel(book, o.id)
<1>1. /\ UNCHANGED <<stop_orders, taker, submitted, traded, cancelled>>
      /\ pc = "pegs" /\ it =< Len(pegged_orders)
      /\ \/ book' = without
         \/ \E p \in PegPrices(without, o) :
              book' = BookAdd(without, PegAsLimit(o, p))
  BY DEF Reprice, history
<1>2. /\ o \in Order /\ submitted[o.id].type = "Pegged"
      /\ o.filled_quantity = 0 /\ o.quantity > 0 /\ o.hidden_quantity = 0
      /\ taker = NoOrder
  BY <1>1 DEF EngineInv, TypeOK, PegsKnown
<1>3. /\ BookType(without)
      /\ Resting(without) = Resting(book) \ {o.id}
      /\ \A j \in Resting(without) : without.order_map[j] = book.order_map[j]
  BY CancelKeeps DEF EngineInv, TypeOK, BookIndexed
<1> HIDE DEF without, o
<1>4. /\ Resting(book') \subseteq Resting(book) \cup {o.id}
      /\ \A j \in Resting(book') : j # o.id =>
           book'.order_map[j] = book.order_map[j]
  <2>1. ASSUME NEW p \in PegPrices(without, o)
        PROVE  LET c == BookAdd(without, PegAsLimit(o, p))
               IN  /\ Resting(c) = Resting(without) \cup {o.id}
                   /\ \A j \in Resting(without) : j # o.id =>
                        c.order_map[j] = without.order_map[j]
    <3> DEFINE x == PegAsLimit(o, p)
    <3>1. p \in Price
      BY <1>2, <1>3, PegPricesType
    <3>2. x \in Order /\ x.id = o.id /\ x.type = "Limit"
      BY <1>2, <3>1, PegAsLimitShape DEF Tradable
    <3> HIDE DEF x
    <3> QED BY <1>3, <3>2, AddShape DEF x
  <2>2. CASE book' = without
    BY <2>2, <1>3
  <2>3. ASSUME NEW p \in PegPrices(without, o),
               book' = BookAdd(without, PegAsLimit(o, p))
        PROVE  /\ Resting(book') \subseteq Resting(book) \cup {o.id}
               /\ \A j \in Resting(book') : j # o.id =>
                    book'.order_map[j] = book.order_map[j]
    BY <2>1, <2>3, <1>3
  <2> QED BY <1>1, <2>2, <2>3
<1>5. Conserved' /\ NoOverfill' /\ CancelledKnown'
  BY <1>1, <1>2, <1>4
  DEF Accounts, Conserved, NoOverfill, CancelledKnown, CancelIsFinal, IsTaker, Pegged
<1>6. TakerAccounts' /\ StopAccounts' /\ StopsApart'
  BY <1>1, <1>2 DEF Accounts, TakerAccounts, StopAccounts, StopsApart
<1> QED BY <1>5, <1>6 DEF Accounts

\* The match of the submitted order is over: what is left of it rests whole.
LEMMA EndMatchAccounts ==
  ASSUME EngineInv, Accounts, EndMatch
  PROVE  Accounts'
<1>1. /\ UNCHANGED <<stop_orders, submitted, traded, cancelled>>
      /\ book' = Rest(taker) /\ taker # NoOrder /\ taker' = NoOrder
      /\ taker \in Order
  BY DEF EndMatch, MatchOver, StartScan, Return, history, EngineInv, TypeOK
<1>2. \/ book' = book
      \/ /\ Resting(book') = Resting(book) \cup {taker.id}
         /\ Remaining(book'.order_map[taker.id])
              + book'.order_map[taker.id].hidden_quantity = Remaining(taker)
         /\ \A j \in Resting(book) : book'.order_map[j] = book.order_map[j]
  BY <1>1, RestKeeps
<1>3. /\ traded[taker.id] = taker.filled_quantity
      /\ taker.quantity = submitted[taker.id].quantity
      /\ taker.id \in cancelled => submitted[taker.id].type = "Pegged"
      /\ submitted[taker.id].type # "Pegged"
  BY <1>1 DEF Accounts, TakerAccounts, CancelledKnown, CancelIsFinal, Pegged,
              IsTaker, EngineInv, TakerKnown
<1>4. NoOverfill' /\ TakerAccounts' /\ StopAccounts' /\ StopsApart'
  BY <1>1
  DEF Accounts, NoOverfill, TakerAccounts, StopAccounts, StopsApart, Pegged
<1>5. CancelledKnown'
  BY <1>1, <1>2, <1>3
  DEF Accounts, CancelledKnown, CancelIsFinal, Pegged, IsTaker
<1>6. Conserved'
  <2>1. CASE book' = book
    BY <1>1, <2>1 DEF Accounts, Conserved, Pegged
  <2>2. CASE book' # book
    <3> DEFINE x == book'.order_map[taker.id]
    <3>1. Remaining(x) + x.hidden_quantity = taker.quantity - taker.filled_quantity
      BY <1>2, <2>2 DEF Remaining
    <3>2. x \in Order
      BY <1>1, <1>2, <2>2, RestKeeps DEF BookType
    <3> HIDE DEF x
    <3>3. traded[taker.id] + Remaining(x) + x.hidden_quantity
            = submitted[taker.id].quantity
      <4>1. /\ taker.quantity \in Nat /\ taker.filled_quantity \in Nat
            /\ Remaining(x) \in Int /\ x.hidden_quantity \in Nat
        BY <1>1, <3>2, OrderFields
      <4> QED BY <1>3, <3>1, <4>1
    <3> QED BY <1>1, <1>2, <2>2, <3>3 DEF Accounts, Conserved, Pegged, x
  <2> QED BY <2>1, <2>2
<1> QED BY <1>4, <1>5, <1>6 DEF Accounts

\* A stop is triggered: it is out of the list before it is matched, and nothing
\* of it has traded.
LEMMA TriggerStopAccounts ==
  ASSUME EngineInv, Accounts, TriggerStop
  PROVE  Accounts'
<1> DEFINE o == stop_orders[it]
           stops == RemoveAt(stop_orders, it)
<1>1. /\ UNCHANGED <<book, submitted, traded, cancelled>>
      /\ it =< Len(stop_orders) /\ taker' = TriggeredMarket(o)
      /\ stop_orders' = stops
  BY DEF TriggerStop, BeginMatch, history
<1>2. it \in 1 .. Len(stop_orders) /\ stop_orders \in Seq(Order)
  BY <1>1 DEF EngineInv, TypeOK
<1>3. /\ stops \in Seq(Order) /\ Len(stops) = Len(stop_orders) - 1
      /\ \A k \in 1 .. Len(stop_orders) - 1 :
           stops[k] = IF k < it THEN stop_orders[k] ELSE stop_orders[k + 1]
  BY <1>2, RemoveAtShape
<1> HIDE DEF stops
<1>4. /\ o \in Order /\ submitted[o.id].type \in {"Stop", "StopLimit"}
      /\ o.filled_quantity = 0
      /\ traded[o.id] = 0 /\ o.quantity = submitted[o.id].quantity
  BY <1>2 DEF EngineInv, StopsKnown, Accounts, StopAccounts
<1>5. /\ taker'.id = o.id /\ taker'.filled_quantity = 0
      /\ taker'.quantity = o.quantity
  <2> HIDE DEF o
  <2> QED BY <1>1, <1>4, TriggeredMarketShape
<1> DEFINE At(k) == IF k < it THEN k ELSE k + 1
<1>6. ASSUME NEW k \in DOMAIN stops
      PROVE  /\ At(k) \in DOMAIN stop_orders /\ At(k) # it
             /\ stops[k] = stop_orders[At(k)]
  BY <1>2, <1>3
<1>7. ASSUME NEW k \in DOMAIN stops, NEW m \in DOMAIN stops, At(k) = At(m)
      PROVE  k = m
  BY <1>2, <1>3, <1>7
<1> HIDE DEF At
<1>8. StopsApart'
  <2>1. ASSUME NEW k \in DOMAIN stops, NEW m \in DOMAIN stops,
               stops[k].id = stops[m].id
        PROVE  k = m
    BY <2>1, <1>6, <1>7 DEF Accounts, StopsApart
  <2>2. ASSUME NEW k \in DOMAIN stops
        PROVE  stops[k].id # o.id
    BY <1>2, <1>6 DEF Accounts, StopsApart
  <2> QED BY <1>1, <1>5, <2>1, <2>2 DEF StopsApart
<1>9. StopAccounts'
  BY <1>1, <1>6 DEF Accounts, StopAccounts
<1>10. TakerAccounts'
  BY <1>1, <1>4, <1>5 DEF TakerAccounts
<1>11. Conserved' /\ NoOverfill'
  BY <1>1 DEF Accounts, Conserved, NoOverfill, Pegged
<1>12. CancelledKnown'
  <2>1. o.id \notin cancelled
    BY <1>4 DEF Accounts, CancelledKnown
  <2> QED BY <1>1, <1>5, <2>1
          DEF Accounts, CancelledKnown, CancelIsFinal, IsTaker, Pegged
<1> QED BY <1>8, <1>9, <1>10, <1>11, <1>12 DEF Accounts

\* A trade of the inner loop: the maker and the order being matched trade the
\* same, and the maker's slice and hidden quantity lose just that.
LEMMA FillFrontAccounts ==
  ASSUME EngineInv, Accounts, FillFront
  PROVE  Accounts'
<1>1. /\ Remaining(taker) > 0 /\ taker # NoOrder
      /\ UNCHANGED <<stop_orders, submitted, cancelled>>
  BY Zenon DEF FillFront, EngineInv, TypeOK
<1>2. PICK p \in BestPrices(book, Opposite(taker.side)) :
       LET queue == book.level[Opposite(taker.side)][p].queue
           maker == book.order_map[Head(queue)]
           qty == Least(Remaining(taker), Remaining(maker))
       IN  /\ queue # <<>>
           /\ book' = FillMaker(book, maker.id, qty)
           /\ taker' = [taker EXCEPT !.filled_quantity = @ + qty]
           /\ traded' = [traded EXCEPT ![maker.id] = @ + qty,
                                       ![taker.id] = @ + qty]
  BY Zenon DEF FillFront
<1> DEFINE maker == book.order_map[Head(book.level[Opposite(taker.side)][p].queue)]
           qty == Least(Remaining(taker), Remaining(maker))
<1>3. /\ taker \in Order /\ maker \in Order
      /\ maker.id \in Resting(book) /\ maker = book.order_map[maker.id]
      /\ maker.id # taker.id
      /\ qty \in Nat /\ qty > 0
      /\ qty =< Remaining(maker) /\ qty =< Remaining(taker)
  BY Zenon, <1>1, <1>2, FrontShape
<1>4. /\ book' = FillMaker(book, maker.id, qty)
      /\ taker' = [taker EXCEPT !.filled_quantity = taker.filled_quantity + qty]
      /\ traded' = [traded EXCEPT ![maker.id] = @ + qty, ![taker.id] = @ + qty]
  BY Zenon, <1>2
<1> HIDE DEF maker, qty
<1>5. BookType(book) /\ Indexed(book) /\ Live(book)
  BY DEF EngineInv, TypeOK, BookIndexed, RestingKnown
<1> DEFINE i == maker.id
           after == book'.order_map[i]
<1>6. /\ Resting(book') \subseteq Resting(book)
      /\ \A j \in Resting(book) : j # i => book'.order_map[j] = book.order_map[j]
      /\ i \in Resting(book') =>
           Remaining(after) + after.hidden_quantity
             = Remaining(maker) + maker.hidden_quantity - qty
      /\ BookType(book')
  <2>1. /\ i \in Resting(book) /\ qty \in Nat
        /\ qty =< Remaining(book.order_map[i])
        /\ Remaining(book.order_map[i]) = Remaining(maker)
        /\ book.order_map[i].hidden_quantity = maker.hidden_quantity
    BY <1>3
  <2>2. book' = FillMaker(book, i, qty)
    BY <1>4
  <2> HIDE <1>3, <1>4
  <2> HIDE DEF i
  <2> QED BY <2>1, <2>2, <1>5, FillMakerKeeps
<1>7. /\ traded \in [DOMAIN submitted -> Nat]
      /\ i \in DOMAIN submitted /\ submitted[i].type \in {"Limit", "Pegged"}
      /\ taker.id \in DOMAIN submitted /\ taker.id \notin Resting(book)
  BY <1>1, <1>3 DEF EngineInv, TypeOK, RestingKnown, TakerKnown
<1>8. /\ traded'[i] = traded[i] + qty
      /\ traded'[taker.id] = traded[taker.id] + qty
      /\ \A j \in DOMAIN submitted : j # i /\ j # taker.id =>
           traded'[j] = traded[j]
  BY <1>3, <1>4, <1>7
<1>9. /\ taker'.id = taker.id /\ taker'.quantity = taker.quantity
      /\ taker'.filled_quantity = taker.filled_quantity + qty
      /\ traded[taker.id] = taker.filled_quantity
      /\ taker.quantity = submitted[taker.id].quantity
  BY <1>1, <1>3, <1>4 DEF Order, Accounts, TakerAccounts
<1>10. ~Pegged(i) => traded[i] + Remaining(maker) + maker.hidden_quantity
                       = submitted[i].quantity
  BY <1>3 DEF Accounts, Conserved
<1>11. /\ Remaining(maker) \in Int /\ maker.hidden_quantity \in Nat
       /\ taker.quantity \in Nat /\ taker.filled_quantity \in Nat
       /\ traded[i] \in Nat
  BY <1>3, <1>7, OrderFields
<1>12. Conserved'
  <2>1. ASSUME NEW j \in Resting(book'), submitted[j].type # "Pegged"
        PROVE  traded'[j] + Remaining(book'.order_map[j])
                 + book'.order_map[j].hidden_quantity = submitted[j].quantity
    <3>1. CASE j = i
      <4>1. /\ after \in Order
            /\ Remaining(after) + after.hidden_quantity
                 = Remaining(maker) + maker.hidden_quantity - qty
        BY <2>1, <3>1, <1>6 DEF BookType
      <4>2. Remaining(after) \in Int /\ after.hidden_quantity \in Nat
        BY <4>1, OrderFields
      <4>3. traded[i] + Remaining(maker) + maker.hidden_quantity
              = submitted[i].quantity
        BY <2>1, <3>1, <1>10 DEF Pegged
      <4> HIDE DEF after
      <4>4. traded'[i] + Remaining(after) + after.hidden_quantity
              = submitted[i].quantity
        BY <4>1, <4>2, <4>3, <1>3, <1>8, <1>11
      <4> QED BY <3>1, <4>4 DEF after
    <3>2. CASE j # i
      <4>1. j \in Resting(book) /\ j \in DOMAIN submitted /\ j # taker.id
        BY <2>1, <1>6, <1>7 DEF EngineInv, TypeOK
      <4>2. traded'[j] = traded[j] /\ book'.order_map[j] = book.order_map[j]
        BY <3>2, <4>1, <1>6, <1>8
      <4> QED BY <2>1, <4>1, <4>2 DEF Accounts, Conserved, Pegged
    <3> QED BY <3>1, <3>2
  <2> QED BY <2>1, <1>1 DEF Conserved, Pegged
<1>13. NoOverfill'
  <2>1. ~Pegged(i) => traded'[i] =< submitted[i].quantity
    BY <1>3, <1>8, <1>10, <1>11
  <2>2. traded'[taker.id] =< submitted[taker.id].quantity
    BY <1>3, <1>8, <1>9, <1>11 DEF Remaining
  <2> QED BY <2>1, <2>2, <1>1, <1>8 DEF Accounts, NoOverfill, Pegged
<1>14. TakerAccounts'
  BY <1>1, <1>8, <1>9 DEF TakerAccounts
<1>15. StopAccounts' /\ StopsApart'
  <2>1. ASSUME NEW k \in DOMAIN stop_orders
        PROVE  /\ stop_orders[k].id \in DOMAIN submitted
               /\ stop_orders[k].id # i /\ stop_orders[k].id # taker.id
    BY <1>1, <1>7 DEF EngineInv, StopsKnown, Accounts, StopsApart
  <2> QED BY <2>1, <1>1, <1>8, <1>9 DEF Accounts, StopAccounts, StopsApart
<1>16. CancelledKnown'
  BY <1>1, <1>6, <1>9
  DEF Accounts, CancelledKnown, CancelIsFinal, IsTaker, Pegged
<1> QED BY <1>12, <1>13, <1>14, <1>15, <1>16 DEF Accounts

\* Every step of the engine keeps the accounts.
LEMMA StepKeepsAccounts ==
  ASSUME EngineInv, Accounts, [Next]_vars
  PROVE  Accounts'
<1>1. ASSUME NEW i \in Fresh, NEW r \in Requests, Submit(i, r)
      PROVE  Accounts'
  BY <1>1, SubmitMatchedAccounts, SubmitStopAccounts, SubmitPeggedAccounts
  DEF Submit
<1>2. ASSUME NEW i \in OrderId, Cancel(i)
      PROVE  Accounts'
  BY <1>2, CancelAccounts
<1>3. CASE FillFront
  BY <1>3, FillFrontAccounts
<1>4. CASE EndMatch
  BY <1>4, EndMatchAccounts
<1>5. CASE TriggerStop
  BY <1>5, TriggerStopAccounts
<1>6. CASE Reprice
  BY <1>6, RepriceAccounts
<1>7. CASE \/ UNCHANGED vars
           \/ EnterLevel \/ LeaveLevel \/ SkipStop \/ EndStopMatch
           \/ EndScan \/ EndReprice
  <2>1. /\ UNCHANGED <<book, stop_orders, submitted, traded, cancelled>>
        /\ taker' = taker \/ taker' = NoOrder
    BY <1>7
    DEF vars, engine, call, history, EnterLevel, LeaveLevel, SkipStop,
        EndStopMatch, StartScan, EndScan, EndReprice, Return
  <2> QED BY <2>1, QuietStepAccounts
<1> QED
  BY <1>1, <1>2, <1>3, <1>4, <1>5, <1>6, <1>7 DEF Next, CallStep

\* Accounts holds in every reachable state.
THEOREM AccountsInvariant == Spec => []Accounts
<1>1. Init => Accounts
  BY InitAccounts
<1>2. EngineInv /\ Accounts /\ [Next]_vars => Accounts'
  BY StepKeepsAccounts
<1> QED BY <1>1, <1>2, EngineInvariant, PTL DEF Spec

\* No fill, refill or remainder makes or loses quantity of an order that is not
\* pegged, for every set of requests and every modulus.
THEOREM QuantityConserved == Spec => []Conserved
<1>1. Accounts => Conserved
  BY DEF Accounts
<1> QED BY <1>1, AccountsInvariant, PTL

\* No order that is not pegged trades more than it was submitted with
\* (matching_engine.cpp:130-146).
THEOREM NeverOverfilled == Spec => []NoOverfill
<1>1. Accounts => NoOverfill
  BY DEF Accounts
<1> QED BY <1>1, AccountsInvariant, PTL

\* An order that a cancel took out of the book, and that is not pegged, never
\* comes back (matching_engine.cpp:84-86, 148-161).
THEOREM CancelsAreFinal == Spec => []CancelIsFinal
<1>1. Accounts => CancelIsFinal
  BY DEF Accounts, CancelledKnown
<1> QED BY <1>1, AccountsInvariant, PTL

\* A stop is triggered once: as long as it is dormant it has not traded and is
\* nowhere else (matching_engine.cpp:341-349).
THEOREM StopsFireOnce == Spec => []StopsDormant
<1>1. EngineInv /\ Accounts => StopsDormant
  BY DEF EngineInv, RestingKnown, StopsKnown, Accounts, StopAccounts, StopsApart,
         StopsDormant, IsTaker
<1> QED BY <1>1, EngineInvariant, AccountsInvariant, PTL

-----------------------------------------------------------------------------
(* The scan of the stops misses none.                                        *)

Untriggered(k) == ~Triggers(stop_orders[k], last_trade_price)

\* The stops before index it were passed at the price there is now: the price
\* moves only when a match that had fills is over, and it is 1 again then.  The
\* match of a submitted order is told from that of a stop by mark.
SweepInv ==
  /\ StopsSwept
  /\ (pc = "stops" \/ (pc \in {"levels", "queue"} /\ mark > 0))
       => \A k \in DOMAIN stop_orders : k < it => Untriggered(k)
  /\ pc = "idle" => fills = <<>>

\* Every step of the engine keeps SweepInv.
LEMMA StepKeepsSweepInv ==
  ASSUME EngineInv, SweepInv, [Next]_vars
  PROVE  SweepInv'
<1>1. /\ stop_orders \in Seq(Order) /\ it \in Nat \ {0}
      /\ \A k \in DOMAIN stop_orders : k \in Nat \ {0}
      /\ DOMAIN stop_orders = 1 .. Len(stop_orders)
  BY DEF EngineInv, TypeOK
<1>2. ASSUME pc = "idle",
             \/ UNCHANGED <<pc, fills>>
             \/ pc' = "levels" /\ mark' = Len(fills)
      PROVE  SweepInv'
  BY <1>2 DEF SweepInv, StopsSwept
<1>3. ASSUME NEW i \in Fresh, NEW r \in Requests, Submit(i, r)
      PROVE  SweepInv'
  BY <1>2, <1>3
  DEF Submit, SubmitLimit, SubmitMarket, SubmitStop, SubmitPegged, Call,
      BeginMatch, call
<1>4. ASSUME NEW i \in OrderId, Cancel(i)
      PROVE  SweepInv'
  BY <1>2, <1>4 DEF Cancel, call
<1>5. CASE UNCHANGED vars
  BY <1>5 DEF vars, engine, call, SweepInv, StopsSwept, Untriggered
<1>6. CASE EnterLevel \/ LeaveLevel \/ FillFront
  <2>1. /\ UNCHANGED <<stop_orders, last_trade_price, mark, it>>
        /\ pc \in {"levels", "queue"} /\ pc' \in {"levels", "queue"}
    BY Zenon, <1>6 DEF EnterLevel, LeaveLevel, FillFront, engine
  <2> QED BY <2>1 DEF SweepInv, StopsSwept, Untriggered
<1>7. ASSUME \/ pc' = "stops" /\ it' = 1 /\ UNCHANGED stop_orders
             \/ pc' = "idle" /\ fills' = <<>>
      PROVE  SweepInv'
  BY <1>1, <1>7 DEF SweepInv, StopsSwept
<1>8. CASE EndMatch
  BY <1>7, <1>8 DEF EndMatch, StartScan, Return
<1>9. CASE EndStopMatch
  <2>1. CASE NewFills
    BY <1>7, <1>9, <2>1 DEF EndStopMatch, StartScan
  <2>2. CASE ~NewFills
    <3>1. /\ UNCHANGED <<stop_orders, last_trade_price, it>>
          /\ pc = "levels" /\ mark > 0 /\ pc' = "stops"
      BY <1>9, <2>2 DEF EndStopMatch, MatchOver
    <3> QED BY <3>1 DEF SweepInv, StopsSwept, Untriggered
  <2> QED BY <2>1, <2>2
<1>10. CASE TriggerStop
  <2>1. /\ UNCHANGED <<last_trade_price, it>> /\ it =< Len(stop_orders)
        /\ stop_orders' = RemoveAt(stop_orders, it)
        /\ pc = "stops" /\ pc' = "levels"
    BY <1>10 DEF TriggerStop, BeginMatch
  <2>2. ASSUME NEW k \in DOMAIN stop_orders', k < it
        PROVE  k \in DOMAIN stop_orders /\ stop_orders'[k] = stop_orders[k]
    <3>1. it \in 1 .. Len(stop_orders)
      BY <1>1, <2>1
    <3>2. /\ stop_orders' \in Seq(Order)
          /\ Len(stop_orders') = Len(stop_orders) - 1
          /\ \A n \in 1 .. Len(stop_orders) - 1 : n < it =>
               stop_orders'[n] = stop_orders[n]
      BY <1>1, <2>1, <3>1, RemoveAtShape
    <3>3. k \in 1 .. Len(stop_orders) - 1
      BY <1>1, <2>2, <3>2
    <3> QED BY SMTT(20), <1>1, <2>2, <3>2, <3>3
  <2> QED BY <2>1, <2>2 DEF SweepInv, StopsSwept, Untriggered
<1>11. CASE SkipStop
  <2>1. /\ UNCHANGED <<stop_orders, last_trade_price>>
        /\ pc = "stops" /\ pc' = "stops" /\ it' = it + 1
        /\ Untriggered(it)
    BY <1>11 DEF SkipStop, engine, Untriggered
  <2>2. \A k \in DOMAIN stop_orders : k < it + 1 => k < it \/ k = it
    BY <1>1
  <2> QED BY <2>1, <2>2 DEF SweepInv, StopsSwept, Untriggered
<1>12. CASE EndScan
  <2>1. /\ UNCHANGED <<stop_orders, last_trade_price>>
        /\ pc = "stops" /\ pc' = "pegs" /\ it > Len(stop_orders)
    BY <1>12 DEF EndScan, engine
  <2>2. \A k \in DOMAIN stop_orders : k < it
    BY <1>1, <2>1
  <2> QED BY <2>1, <2>2 DEF SweepInv, StopsSwept, Untriggered
<1>13. CASE Reprice
  BY <1>13 DEF Reprice, SweepInv, StopsSwept
<1>14. CASE EndReprice
  BY <1>7, <1>14 DEF EndReprice, Return
<1> QED
  BY <1>3, <1>4, <1>5, <1>6, <1>8, <1>9, <1>10, <1>11, <1>12, <1>13, <1>14
  DEF Next, CallStep

\* When a call reaches the pegs it has left no stop dormant that the last trade
\* triggers, however many stops set each other off (matching_engine.cpp:324-362).
THEOREM NoStopMissed == Spec => []StopsSwept
<1>1. Init => SweepInv
  BY DEF Init, SweepInv, StopsSwept
<1>2. EngineInv /\ SweepInv /\ [Next]_vars => SweepInv'
  BY StepKeepsSweepInv
<1>3. SweepInv => StopsSwept
  BY DEF SweepInv
<1> QED BY <1>1, <1>2, <1>3, EngineInvariant, PTL DEF Spec

-----------------------------------------------------------------------------
(* Time priority.                                                            *)

\* An order that joins its level joins it behind everyone, and nobody else moves
\* (order_book.cpp:6-30).
LEMMA AddKeepsPlaces ==
  ASSUME NEW b, BookType(b), Indexed(b),
         NEW o \in Order, o.type = "Limit", o.id \notin Resting(b)
  PROVE  LET c == BookAdd(b, o)
         IN  /\ \A i, j : Before(b, i, j) => Before(c, i, j)
             /\ \A j : ~Before(c, o.id, j)
<1> DEFINE c == BookAdd(b, o)
           old == LevelAt(b, o.side, o.price).queue
<1>1. /\ \A s \in Side :
           Prices(c, s) = IF s = o.side THEN Prices(b, s) \cup {o.price}
                          ELSE Prices(b, s)
      /\ \A s \in Side : \A p \in Prices(c, s) :
           ~(s = o.side /\ p = o.price) => c.level[s][p] = b.level[s][p]
      /\ old \in Seq(OrderId)
      /\ c.level[o.side][o.price].queue = Append(old, o.id)
      /\ c.order_map[o.id] = o
  BY AddShape DEF Level
<1>2. Indexed(c)
  BY AddKeeps
<1> HIDE DEF c, old
<1>3. ASSUME NEW i, NEW j, Before(b, i, j)
      PROVE  Before(c, i, j)
  <2>1. PICK s, p : s \in Side /\ p \in Prices(b, s) /\
          \E k, m \in DOMAIN b.level[s][p].queue :
            k < m /\ b.level[s][p].queue[k] = i /\ b.level[s][p].queue[m] = j
    BY <1>3 DEF Before
  <2>2. p \in Prices(c, s)
    BY <1>1, <2>1
  <2>3. CASE s = o.side /\ p = o.price
    <3>1. old = b.level[s][p].queue
      BY <2>1, <2>3 DEF LevelAt, old
    <3>2. \A k \in DOMAIN old : /\ k \in DOMAIN c.level[s][p].queue
                                /\ c.level[s][p].queue[k] = old[k]
      BY <1>1, <2>3
    <3> QED BY <2>1, <2>2, <3>1, <3>2 DEF Before
  <2>4. CASE ~(s = o.side /\ p = o.price)
    <3>1. c.level[s][p] = b.level[s][p]
      BY <1>1, <2>1, <2>2, <2>4
    <3> QED BY <2>1, <2>2, <3>1 DEF Before
  <2> QED BY <2>3, <2>4
<1>4. ASSUME NEW j, Before(c, o.id, j)
      PROVE  FALSE
  <2>1. PICK s, p : s \in Side /\ p \in Prices(c, s) /\
          \E k, m \in DOMAIN c.level[s][p].queue :
            k < m /\ c.level[s][p].queue[k] = o.id
    BY <1>4 DEF Before
  <2> DEFINE q == c.level[s][p].queue
  <2>2. PICK k \in DOMAIN q, m \in DOMAIN q : k < m /\ q[k] = o.id
    BY <2>1
  <2>3. s = o.side /\ p = o.price
    <3>1. c.order_map[q[k]].side = s /\ c.order_map[q[k]].price = p
      BY <1>2, <2>1, <2>2, IndexedQueue
    <3> HIDE DEF q
    <3> QED BY SMTT(20), <1>1, <2>2, <3>1
  <2>4. q = Append(old, o.id)
    BY <1>1, <2>3
  <2>5. \A x, y \in DOMAIN q : q[x] = q[y] => x = y
    BY <1>2, <2>1, IndexedQueue
  <2> HIDE DEF q
  <2>6. Len(old) + 1 \in DOMAIN q /\ q[Len(old) + 1] = o.id
    BY <1>1, <2>4
  <2>7. m =< Len(old) + 1
    BY <1>1, <2>2, <2>4
  <2> QED BY <1>1, <2>2, <2>4, <2>5, <2>6, <2>7
<1> QED BY <1>3, <1>4 DEF c

\* An order that leaves the book moves no other (order_book.cpp:32-56), and is
\* before no one.
LEMMA CancelKeepsPlaces ==
  ASSUME NEW b, BookType(b), Indexed(b), NEW x
  PROVE  LET c == BookCancel(b, x)
         IN  /\ \A i, j : i # x /\ j # x /\ Before(b, i, j) => Before(c, i, j)
             /\ \A j : ~Before(c, x, j)
<1> DEFINE c == BookCancel(b, x)
<1>1. Indexed(c) /\ x \notin Resting(c)
  BY CancelKeeps
<1>2. \A j : ~Before(c, x, j)
  <2> HIDE DEF c
  <2> QED BY <1>1, IndexedQueue DEF Before
<1>3. ASSUME NEW i, NEW j, i # x, j # x, Before(b, i, j)
      PROVE  Before(c, i, j)
  <2>1. CASE x \notin Resting(b)
    BY <1>3, <2>1 DEF BookCancel
  <2>2. CASE x \in Resting(b)
    <3> DEFINE o == b.order_map[x]
               old == b.level[o.side][o.price].queue
               u == Unlink(old, x)
    <3>1. /\ o.side \in Side
          /\ \A s \in Side :
               Prices(c, s) = IF s = o.side /\ u = <<>>
                              THEN Prices(b, s) \ {o.price} ELSE Prices(b, s)
          /\ \A s \in Side : \A p \in Prices(c, s) :
               ~(s = o.side /\ p = o.price) => c.level[s][p] = b.level[s][p]
          /\ old \in Seq(OrderId)
          /\ u # <<>> => c.level[o.side][o.price].queue = u
      BY <2>2, CancelShape
    <3>2. /\ \A k, m \in DOMAIN old : old[k] = old[m] => k = m
          /\ \E k \in DOMAIN old : old[k] = x
      <4>1. /\ o.side \in Side /\ o.price \in Prices(b, o.side)
            /\ \E k \in DOMAIN old : old[k] = x
        BY <2>2, IndexedOrder
      <4> HIDE DEF o
      <4> QED BY SMTT(20), <4>1, IndexedQueue
    <3> HIDE DEF c, o, old
    <3>3. /\ u \in Seq(OrderId)
          /\ \A k, m \in DOMAIN old :
               k < m /\ old[k] # x /\ old[m] # x =>
                 \E y, z \in DOMAIN u : y < z /\ u[y] = old[k] /\ u[z] = old[m]
      BY <3>1, <3>2, UnlinkElements
    <3> HIDE DEF u
    <3>4. PICK s, p : s \in Side /\ p \in Prices(b, s) /\
            \E k, m \in DOMAIN b.level[s][p].queue :
              k < m /\ b.level[s][p].queue[k] = i /\ b.level[s][p].queue[m] = j
      BY <1>3 DEF Before
    <3>5. CASE s = o.side /\ p = o.price
      <4>1. \E y, z \in DOMAIN u : y < z /\ u[y] = i /\ u[z] = j
        BY <1>3, <3>3, <3>4, <3>5 DEF old
      <4>2. u # <<>>
        BY <4>1
      <4>3. p \in Prices(c, s) /\ c.level[s][p].queue = u
        BY <3>1, <3>4, <3>5, <4>2
      <4> QED BY <3>4, <4>1, <4>3 DEF Before
    <3>6. CASE ~(s = o.side /\ p = o.price)
      <4>1. p \in Prices(c, s) /\ c.level[s][p] = b.level[s][p]
        BY <3>1, <3>4, <3>6
      <4> QED BY <3>4, <4>1 DEF Before
    <3> QED BY SMTT(20), <3>5, <3>6
  <2> QED BY <2>1, <2>2
<1> QED BY <1>2, <1>3

\* A fill of a maker (matching_engine.cpp:142-161): it stays where it is as long
\* as something of its slice is left; when it is not, it leaves, and its next
\* slice goes behind everyone.  Nobody else moves.
LEMMA FillMakerPlaces ==
  ASSUME NEW b, BookType(b), Indexed(b), Live(b),
         NEW x \in Resting(b), NEW qty \in Nat,
         qty =< Remaining(b.order_map[x])
  PROVE  LET c == FillMaker(b, x, qty)
         IN  /\ \A i, j : /\ Before(b, i, j)
                          /\ qty # Remaining(b.order_map[x]) \/ (i # x /\ j # x)
                          => Before(c, i, j)
             /\ qty = Remaining(b.order_map[x]) => \A j : ~Before(c, x, j)
<1> DEFINE before == b.order_map[x]
           filled == BookFill(b, x, qty)
           maker == filled.order_map[x]
           gone == BookCancel(filled, x)
           c == FillMaker(b, x, qty)
<1>1. before \in Order /\ before.id = x /\ Tradable(before)
  BY IndexedOrder DEF Live
<1>2. /\ \A s \in Side : Prices(filled, s) = Prices(b, s)
      /\ \A s \in Side : \A p \in Prices(b, s) :
           filled.level[s][p].queue = b.level[s][p].queue
      /\ maker = [before EXCEPT !.filled_quantity = before.filled_quantity + qty]
      /\ maker \in Order
  BY FillShape
<1>3. BookType(filled) /\ Indexed(filled)
  BY FillKeeps
<1>4. c = IF ~IsFilled(maker) THEN filled
          ELSE IF maker.hidden_quantity = 0 THEN gone
          ELSE AddIceberg(gone, Refill(maker))
  BY DEF FillMaker
<1>5. /\ BookType(gone) /\ Indexed(gone) /\ x \notin Resting(gone)
      /\ \A i, j : i # x /\ j # x /\ Before(filled, i, j) => Before(gone, i, j)
      /\ \A j : ~Before(gone, x, j)
  BY <1>3, CancelKeeps, CancelKeepsPlaces
<1> HIDE DEF before, filled, gone, c
<1>6. \A i, j : Before(b, i, j) => Before(filled, i, j)
  BY <1>2 DEF Before
<1>7. IsFilled(maker) <=> qty = Remaining(before)
  <2>1. /\ before.quantity \in Nat /\ before.filled_quantity \in Nat
        /\ qty =< Remaining(before)
    BY <1>1, OrderFields DEF before
  <2>2. /\ maker.quantity = before.quantity
        /\ maker.filled_quantity = before.filled_quantity + qty
    BY <1>1, <1>2 DEF Order
  <2> HIDE DEF maker
  <2> QED BY <2>1, <2>2 DEF IsFilled, Remaining
<1>8. CASE ~IsFilled(maker)
  BY <1>4, <1>6, <1>7, <1>8 DEF c, before
<1>9. CASE IsFilled(maker) /\ maker.hidden_quantity = 0
  BY <1>4, <1>5, <1>6, <1>7, <1>9 DEF c, before
<1>10. CASE IsFilled(maker) /\ maker.hidden_quantity # 0
  <2> DEFINE r == Refill(maker)
  <2>1. c = AddIceberg(gone, r)
    BY <1>4, <1>10
  <2>2. /\ maker.id = x /\ maker.type = "Limit"
        /\ maker.visible_quantity = before.visible_quantity
        /\ maker.hidden_quantity = before.hidden_quantity
        /\ maker.hidden_quantity \in Nat
    BY <1>1, <1>2, OrderFields DEF Order, Tradable
  <2>3. /\ r \in Order /\ r.id = x /\ r.type = "Limit"
        /\ r.visible_quantity = before.visible_quantity
        /\ Remaining(r) = maker.hidden_quantity
    BY <1>2, <2>2, RefillShape
  <2> HIDE DEF r, maker
  <2>4. Remaining(r) > 0 /\ r.visible_quantity > 0
    BY <1>1, <1>10, <2>2, <2>3 DEF Tradable
  <2>5. PICK y \in Order :
          c = BookAdd(gone, y) /\ y.id = x /\ Tradable(y)
    BY <2>1, <2>3, <2>4, SliceShape
  <2>6. /\ \A i, j : Before(gone, i, j) => Before(c, i, j)
        /\ \A j : ~Before(c, x, j)
    BY <1>5, <2>5, AddKeepsPlaces DEF Tradable
  <2> QED BY <1>5, <1>6, <1>7, <1>10, <2>6 DEF c, before
<1> QED BY <1>8, <1>9, <1>10


\* Outside the inner loop's fill and the pegs' loop, no order loses its place.
LEMMA NoneRequeued ==
  ASSUME pc # "queue" \/ fills' = fills, pc # "pegs" \/ it > Len(pegged_orders),
         it \in Nat, pegged_orders \in Seq(Order), NEW i
  PROVE  ~Requeued(i)
BY DEF Requeued

\* Every step keeps the order of every queue but for those that lose their place.
LEMMA StepKeepsPriority ==
  ASSUME EngineInv, Next,
         NEW i \in Resting(book) \cap Resting(book'),
         NEW j \in Resting(book) \cap Resting(book'), Before(book, i, j)
  PROVE  IF Requeued(i) THEN ~Before(book', i, j)
         ELSE Requeued(j) \/ Before(book', i, j)
<1> DEFINE Goal == IF Requeued(i) THEN ~Before(book', i, j)
                   ELSE Requeued(j) \/ Before(book', i, j)
<1> SUFFICES Goal
  OBVIOUS
<1>1. /\ BookType(book) /\ Indexed(book) /\ Live(book)
      /\ it \in Nat /\ pegged_orders \in Seq(Order)
  BY DEF EngineInv, TypeOK, BookIndexed, RestingKnown
<1>2. ASSUME ~Requeued(i), Before(book', i, j)
      PROVE  Goal
  BY <1>2
<1>3. ASSUME NEW n \in Fresh, NEW r \in Requests, Submit(n, r)
      PROVE  Goal
  <2> DEFINE o == NewOrder(n, r)
  <2>1. Call(n, r)
    BY <1>3 DEF Submit, SubmitLimit, SubmitMarket, SubmitStop, SubmitPegged
  <2>2. n \in OrderId /\ r \in Request /\ n \notin Resting(book) /\ pc = "idle"
    BY <2>1, CallKeeps
  <2>3. /\ o \in Order /\ o.id = n /\ o.quantity > 0
        /\ o.filled_quantity = 0 /\ o.hidden_quantity = 0
    BY <2>2, NewOrderShape
  <2>4. \/ book' = book
        \/ \E p \in PegPrices(book, o) : book' = BookAdd(book, PegAsLimit(o, p))
    BY <1>3 DEF Submit, SubmitLimit, SubmitMarket, SubmitStop, SubmitPegged, engine
  <2> HIDE DEF o
  <2>5. ASSUME NEW p \in PegPrices(book, o), book' = BookAdd(book, PegAsLimit(o, p))
        PROVE  Before(book', i, j)
    <3> DEFINE x == PegAsLimit(o, p)
    <3>1. x \in Order /\ x.id = n /\ x.type = "Limit"
      BY <1>1, <2>3, PegPricesType, PegAsLimitShape DEF Tradable
    <3> HIDE DEF x
    <3> QED BY <1>1, <2>2, <2>5, <3>1, AddKeepsPlaces DEF x
  <2>6. ~Requeued(i)
    BY <1>1, <2>2, NoneRequeued
  <2> HIDE DEF Goal
  <2> QED BY <1>2, <2>4, <2>5, <2>6
<1>4. ASSUME NEW n \in OrderId, Cancel(n)
      PROVE  Goal
  <2>1. book' = BookCancel(book, n) /\ pc = "idle"
    BY <1>4 DEF Cancel
  <2>2. n \notin Resting(book')
    BY <1>1, <2>1, CancelKeeps
  <2>3. Before(book', i, j)
    BY <1>1, <2>1, <2>2, CancelKeepsPlaces
  <2>4. ~Requeued(i)
    BY <1>1, <2>1, NoneRequeued
  <2> QED BY <1>2, <2>3, <2>4
<1>5. CASE FillFront
  <2>1. taker # NoOrder /\ Remaining(taker) > 0 /\ pc = "queue"
    BY Zenon, <1>5 DEF FillFront, EngineInv, TypeOK
  <2>2. PICK p \in BestPrices(book, Opposite(taker.side)) :
         LET queue == book.level[Opposite(taker.side)][p].queue
             maker == book.order_map[Head(queue)]
             qty == Least(Remaining(taker), Remaining(maker))
         IN  /\ queue # <<>>
             /\ book' = FillMaker(book, maker.id, qty)
             /\ fills' = Append(fills, [maker |-> maker.id, taker |-> taker.id,
                                        price |-> maker.price, quantity |-> qty,
                                        aggressor_side |-> taker.side])
    BY Zenon, <1>5 DEF FillFront
  <2> DEFINE maker == book.order_map[Head(book.level[Opposite(taker.side)][p].queue)]
             qty == Least(Remaining(taker), Remaining(maker))
             x == maker.id
  <2>3. /\ x \in Resting(book) /\ maker = book.order_map[x]
        /\ qty \in Nat /\ qty =< Remaining(maker)
    BY Zenon, <2>1, <2>2, FrontShape
  <2>4. /\ book' = FillMaker(book, x, qty)
        /\ fills' # fills
        /\ fills'[Len(fills')].maker = x /\ fills'[Len(fills')].quantity = qty
    <3>1. fills \in Seq(Fill)
      BY DEF EngineInv, TypeOK
    <3> DEFINE f == [maker |-> x, taker |-> taker.id, price |-> maker.price,
                     quantity |-> qty, aggressor_side |-> taker.side]
    <3>2. book' = FillMaker(book, x, qty) /\ fills' = Append(fills, f)
      BY Zenon, <2>2
    <3>3. f.maker = x /\ f.quantity = qty
      OBVIOUS
    <3> HIDE DEF maker, qty, x, f
    <3>4. /\ Len(fills') = Len(fills) + 1 /\ Len(fills) \in Nat
          /\ fills'[Len(fills) + 1] = f
      BY <3>1, <3>2
    <3>5. fills' # fills
      BY <3>4
    <3> QED BY <3>2, <3>3, <3>4, <3>5
  <2>5. qty =< Remaining(book.order_map[x])
    BY Zenon, <2>3
  <2> HIDE DEF maker, qty, x
  <2>6. \A k \in Resting(book) :
          Requeued(k) <=> k = x /\ qty = Remaining(book.order_map[x])
    BY <2>1, <2>4 DEF Requeued
  <2>7. /\ qty # Remaining(book.order_map[x]) \/ (i # x /\ j # x)
             => Before(book', i, j)
        /\ qty = Remaining(book.order_map[x]) => ~Before(book', x, j)
    <3>1. qty \in Nat /\ x \in Resting(book)
      BY <2>3
    <3> HIDE <2>3
    <3> QED BY <1>1, <2>4, <2>5, <3>1, FillMakerPlaces
  <2> QED BY <2>6, <2>7
<1>6. CASE EndMatch
  <2>1. book' = Rest(taker) /\ taker # NoOrder /\ pc = "levels"
    BY <1>6 DEF EndMatch, MatchOver, EngineInv, TypeOK
  <2>2. taker.id \notin Resting(book)
    BY <2>1 DEF EngineInv, TakerKnown
  <2>3. \/ book' = book
        \/ \E x \in Order : /\ book' = BookAdd(book, x)
                            /\ x.id = taker.id /\ x.type = "Limit"
    BY <2>1, RestKeeps
  <2>4. Before(book', i, j)
    BY <1>1, <2>2, <2>3, AddKeepsPlaces
  <2>5. ~Requeued(i)
    BY <1>1, <2>1, NoneRequeued
  <2> QED BY <1>2, <2>4, <2>5
<1>7. CASE Reprice
  <2> DEFINE o == pegged_orders[it]
             without == BookCancel(book, o.id)
  <2>1. /\ it =< Len(pegged_orders) /\ pc = "pegs"
        /\ \/ book' = without
           \/ \E p \in PegPrices(without, o) :
                book' = BookAdd(without, PegAsLimit(o, p))
    BY <1>7 DEF Reprice
  <2>2. /\ o \in Order /\ o.filled_quantity = 0 /\ o.quantity > 0
        /\ o.hidden_quantity = 0
    BY <2>1 DEF EngineInv, TypeOK, PegsKnown
  <2>3. \A k : Requeued(k) <=> k = o.id
    BY <2>1 DEF Requeued
  <2> DEFINE u == o.id
  <2>4. /\ BookType(without) /\ Indexed(without)
        /\ u \notin Resting(without)
        /\ i # u /\ j # u => Before(without, i, j)
        /\ ~Before(without, u, j)
    BY <1>1, CancelKeeps, CancelKeepsPlaces
  <2> HIDE DEF without, o
  <2>5. /\ Before(without, i, j) => Before(book', i, j)
        /\ ~Before(book', u, j)
    <3>1. ASSUME NEW p \in PegPrices(without, o),
                 book' = BookAdd(without, PegAsLimit(o, p))
          PROVE  /\ Before(without, i, j) => Before(book', i, j)
                 /\ ~Before(book', u, j)
      <4> DEFINE x == PegAsLimit(o, p)
      <4>1. x \in Order /\ x.id = u /\ x.type = "Limit"
        BY <2>2, <2>4, PegPricesType, PegAsLimitShape DEF Tradable
      <4> HIDE DEF x, u
      <4> QED BY <2>4, <3>1, <4>1, AddKeepsPlaces DEF x
    <3> QED BY <2>1, <2>4, <3>1
  <2> QED BY <2>3, <2>4, <2>5
<1>8. CASE \/ EnterLevel \/ LeaveLevel \/ TriggerStop \/ SkipStop \/ EndStopMatch
           \/ EndScan \/ EndReprice
  <2>1. /\ book' = book
        /\ pc # "queue" \/ fills' = fills
        /\ pc # "pegs" \/ it > Len(pegged_orders)
    BY <1>8
    DEF engine, EnterLevel, LeaveLevel, TriggerStop, SkipStop, EndStopMatch,
        MatchOver, EndScan, EndReprice
  <2>2. ~Requeued(i)
    BY <1>1, <2>1, NoneRequeued
  <2> QED BY <1>2, <2>1, <2>2
<1> HIDE DEF Goal
<1> QED BY <1>3, <1>4, <1>5, <1>6, <1>7, <1>8 DEF Next, CallStep

\* Time priority at a price (order_book.hpp:27-61, matching_engine.cpp:148-161):
\* in every step of every call, orders of a queue keep their order, and an iceberg
\* that refills or a peg that is repriced goes behind everyone.
THEOREM FirstComeFirstServed == Spec => TimePriority
<1> DEFINE Kept ==
      \A i, j \in Resting(book) \cap Resting(book)' :
        Before(book, i, j) =>
          IF Requeued(i) THEN ~Before(book, i, j)'
          ELSE Requeued(j) \/ Before(book, i, j)'
<1>1. EngineInv /\ [Next]_vars => [Kept]_vars
  BY StepKeepsPriority
<1> QED BY <1>1, EngineInvariant, PTL DEF Spec, TimePriority

-----------------------------------------------------------------------------
(* The advertised quantity of a level is that of its orders.                 *)

\* What each resting order has left to trade.
LeftOf(b) == [i \in Resting(b) |-> Remaining(b.order_map[i])]

\* LevelTotals of any book, as a sum over each queue.
Totalled(b) ==
  \A s \in Side : \A p \in Prices(b, s) :
    b.level[s][p].total_quantity = Wrap(SeqSum(LeftOf(b), b.level[s][p].queue))

\* The fold of LevelTotals adds up what the orders of a queue have left.
LEMMA FoldedSum ==
  ASSUME NEW S, NEW m, \A i \in S : Remaining(m[i]) \in Int, NEW q \in Seq(S)
  PROVE  FoldLeft(LAMBDA sum, i : sum + Remaining(m[i]), 0, q)
           = SeqSum([i \in S |-> Remaining(m[i])], q)
<1> DEFINE n == Len(q)
           w == [i \in S |-> Remaining(m[i])]
           step == [k \in 1 .. n |-> [v \in Int |-> v + w[q[k]]]]
           Eqn(f) == f = [s \in SUBSET (DOMAIN q) |->
                            IF s = {} THEN 0 ELSE f[s \ {Max(s)}] + Remaining(m[q[Max(s)]])]
<1>1. /\ n \in Nat /\ DOMAIN q = 1 .. n /\ w \in [S -> Int]
      /\ \A k \in 1 .. n : q[k] \in S /\ w[q[k]] = Remaining(m[q[k]]) /\ w[q[k]] \in Int
  OBVIOUS
<1>2. \A k \in 1 .. n : \A v \in Int :
        step[k][v] = v + Remaining(m[q[k]]) /\ step[k][v] \in Int
  BY <1>1
<1>3. \E f : Eqn(f)
  <2>1. 0 \in Int
    OBVIOUS
  <2>2. PICK f : LeftFolds(f, n, 0, step) /\ \A s \in SUBSET (1 .. n) : f[s] \in Int
    <3> HIDE DEF step, n
    <3> QED BY <1>1, <1>2, <2>1, FoldLeftExists
  <2>3. ASSUME NEW s \in SUBSET (1 .. n), s # {}
        PROVE  step[Max(s)][f[s \ {Max(s)}]] = f[s \ {Max(s)}] + Remaining(m[q[Max(s)]])
    <3>1. Max(s) \in 1 .. n
      BY <1>1, <2>3, GreatestIndex
    <3>2. f[s \ {Max(s)}] \in Int
      BY <2>2
    <3> HIDE DEF step
    <3> QED BY <1>2, <3>1, <3>2
  <2>4. f = [s \in SUBSET (1 .. n) |->
               IF s = {} THEN 0 ELSE f[s \ {Max(s)}] + Remaining(m[q[Max(s)]])]
    <3>1. f = [s \in SUBSET (1 .. n) |->
                 IF s = {} THEN 0 ELSE step[Max(s)][f[s \ {Max(s)}]]]
      BY <2>2 DEF LeftFolds
    <3> HIDE DEF step
    <3> QED BY <2>3, <3>1
  <2> QED BY <1>1, <2>4
<1> DEFINE c == CHOOSE f : Eqn(f)
<1>4. FoldLeft(LAMBDA sum, i : sum + Remaining(m[i]), 0, q) = c[DOMAIN q]
  BY DEF FoldLeft, MapThenFoldSet
<1>5. Eqn(c)
  <2> HIDE DEF Eqn
  <2> QED BY <1>3
<1> HIDE DEF c
<1>6. \A s \in SUBSET (1 .. n) :
        c[s] = IF s = {} THEN 0 ELSE c[s \ {Max(s)}] + Remaining(m[q[Max(s)]])
  BY <1>1, <1>5
<1> DEFINE p == [k \in 0 .. n |-> c[1 .. k]]
<1>7. p[0] = 0
  <2>1. 1 .. 0 = {} /\ {} \in SUBSET (1 .. n)
    OBVIOUS
  <2>2. c[{}] = 0
    BY <1>6
  <2> QED BY <1>1, <2>1, <2>2
<1>8. ASSUME NEW k \in 1 .. n PROVE p[k] = p[k - 1] + w[q[k]]
  <2>1. /\ 1 .. k \in SUBSET (1 .. n) /\ 1 .. k # {}
        /\ Max(1 .. k) = k /\ (1 .. k) \ {Max(1 .. k)} = 1 .. (k - 1)
    BY SMTT(20), LastIndex
  <2>2. c[1 .. k] = c[1 .. (k - 1)] + Remaining(m[q[k]])
    BY <1>6, <2>1
  <2>3. p[k] = c[1 .. k] /\ p[k - 1] = c[1 .. (k - 1)]
    BY <1>1
  <2> QED BY <1>1, <2>2, <2>3
<1>9. p \in [0 .. n -> Int]
  <2> DEFINE T == {k \in 0 .. n : p[k] \notin Int}
  <2>1. T = {}
    <3> SUFFICES ASSUME T # {} PROVE FALSE
      OBVIOUS
    <3>1. PICK k \in T : \A j \in T : k =< j
      <4>1. T \in SUBSET Nat
        BY <1>1
      <4> HIDE DEF T
      <4> QED BY <4>1, LeastNumber
    <3> HIDE DEF p, w
    <3>2. k # 0
      BY <1>7
    <3>3. k \in 1 .. n /\ k - 1 \in 0 .. n /\ k - 1 < k
      BY <1>1, <3>2
    <3>4. p[k - 1] \in Int
      BY <3>1, <3>3
    <3> QED BY <1>1, <1>8, <3>3, <3>4
  <2> HIDE DEF p
  <2>2. \A k \in 0 .. n : p[k] \in Int
    BY <2>1
  <2>3. p = [k \in 0 .. n |-> p[k]]
    BY DEF p
  <2> QED BY <2>2, <2>3
<1>10. PartialSums(p, w, q)
  <2> HIDE DEF p, w
  <2> QED BY <1>7, <1>8, <1>9 DEF PartialSums
<1>11. SeqSum(w, q) = p[Len(q)]
  <2> HIDE DEF p, w
  <2> QED BY <1>1, <1>10, SeqSumIs
<1>12. p[Len(q)] = c[DOMAIN q]
  BY <1>1
<1> QED
  BY <1>4, <1>11, <1>12

\* A wrapped number can be taken for the number itself where a sum is wrapped.
LEMMA WrapSum ==
  ASSUME NEW m \in Int, NEW n \in Int
  PROVE  Wrap(Wrap(m) + n) = Wrap(m + n)
<1> DEFINE M == QuantityModulus
           r == (m + n) % M
           d == (m + n) \div M
           e == m \div M
<1>1. M \in Nat \ {0}
  BY QuantityModulusAssumption
<1>2. m = M * e + (m % M) /\ e \in Int /\ m % M \in 0 .. M - 1
  BY <1>1
<1>3. m + n = M * d + r /\ d \in Int /\ r \in 0 .. M - 1
  BY <1>1
<1>4. (m % M) + n = M * (d - e) + r
  BY <1>1, <1>2, <1>3
<1> DEFINE f == d - e
           x == m % M
<1>6. x + n = M * f + r /\ f \in Int
  BY <1>1, <1>2, <1>3, <1>4
<1> HIDE DEF M, r, d, e, f, x
<1>7. (M * f + r) % M = r
  BY <1>1, <1>3, <1>6, Remainder
<1>5. (x + n) % M = r
  BY <1>6, <1>7
<1> QED
  BY <1>5 DEF Wrap, M, r, x

\* What the queue of a level of an indexed book adds up to.
LEMMA QueueSum ==
  ASSUME NEW b, BookType(b), Indexed(b), NEW s \in Side, NEW p \in Prices(b, s)
  PROVE  LET q == b.level[s][p].queue
         IN  /\ LeftOf(b) \in [Resting(b) -> Int]
             /\ q \in Seq(Resting(b))
             /\ SeqSum(LeftOf(b), q) \in Int
             /\ b.level[s][p].total_quantity \in Int
<1> DEFINE q == b.level[s][p].queue
<1>1. q \in Seq(OrderId) /\ b.level[s][p].total_quantity \in Int
  BY DEF BookType, Level, Quantity
<1>2. \A k \in DOMAIN q : q[k] \in Resting(b)
  BY IndexedQueue
<1>3. q \in Seq(Resting(b))
  BY <1>1, <1>2
<1>4. \A i \in Resting(b) : Remaining(b.order_map[i]) \in Int
  BY OrderFields DEF BookType
<1>5. LeftOf(b) \in [Resting(b) -> Int]
  BY <1>4 DEF LeftOf
<1>6. PICK f : PartialSums(f, LeftOf(b), q)
  <2> HIDE DEF q
  <2> QED BY <1>3, <1>5, PartialSumsExist
<1>7. SeqSum(LeftOf(b), q) \in Int
  <2> HIDE DEF q
  <2> QED BY <1>3, <1>5, <1>6, SeqSumIs
<1> QED
  BY <1>1, <1>3, <1>5, <1>7

\* A level whose queue and orders stay as they are.
Untouched(b, c, s, p) ==
  /\ c.level[s][p].queue = b.level[s][p].queue
  /\ \A k \in DOMAIN b.level[s][p].queue :
       LET i == b.level[s][p].queue[k] IN c.order_map[i] = b.order_map[i]

\* It keeps its sum.
LEMMA SameSum ==
  ASSUME NEW b, BookType(b), Indexed(b), NEW c, BookType(c), Indexed(c),
         NEW s \in Side, NEW p \in Prices(b, s), p \in Prices(c, s),
         Untouched(b, c, s, p)
  PROVE  SeqSum(LeftOf(c), c.level[s][p].queue) = SeqSum(LeftOf(b), b.level[s][p].queue)
<1> DEFINE q == b.level[s][p].queue
<1>0. q = c.level[s][p].queue
  BY DEF Untouched
<1>1. /\ LeftOf(b) \in [Resting(b) -> Int] /\ q \in Seq(Resting(b))
      /\ LeftOf(c) \in [Resting(c) -> Int] /\ q \in Seq(Resting(c))
  BY <1>0, QueueSum
<1>2. \A k \in 1 .. Len(q) : LeftOf(c)[q[k]] = LeftOf(b)[q[k]]
  <2> SUFFICES ASSUME NEW k \in 1 .. Len(q) PROVE LeftOf(c)[q[k]] = LeftOf(b)[q[k]]
    OBVIOUS
  <2>1. q[k] \in Resting(b) /\ q[k] \in Resting(c) /\ k \in DOMAIN q
    BY <1>1
  <2>2. c.order_map[q[k]] = b.order_map[q[k]]
    BY <2>1 DEF Untouched
  <2> QED BY <2>1, <2>2 DEF LeftOf
<1>3. Alike(LeftOf(c), q, LeftOf(b), q, Len(q))
  BY <1>1, <1>2 DEF Alike
<1> HIDE DEF q
<1>4. SeqSum(LeftOf(c), q) = SeqSum(LeftOf(b), q)
  BY <1>1, <1>3, SeqSumSame
<1> QED
  BY <1>0, <1>4 DEF q

\* OrderBook::add (order_book.cpp) keeps the totals right.
LEMMA AddTotals ==
  ASSUME NEW b, BookType(b), Indexed(b), Totalled(b),
         NEW o \in Order, o.type = "Limit", o.id \notin Resting(b)
  PROVE  Totalled(BookAdd(b, o))
<1> DEFINE c == BookAdd(b, o)
           old == LevelAt(b, o.side, o.price)
<1>1. BookType(c) /\ Indexed(c)
  BY AddKeeps
<1>2. /\ \A s \in Side : Prices(c, s) = IF s = o.side THEN Prices(b, s) \cup {o.price}
                                        ELSE Prices(b, s)
      /\ \A s \in Side : \A p \in Prices(c, s) :
           ~(s = o.side /\ p = o.price) => c.level[s][p] = b.level[s][p]
      /\ old \in Level
      /\ c.level[o.side][o.price].queue = Append(old.queue, o.id)
      /\ Resting(c) = Resting(b) \cup {o.id}
      /\ c.order_map[o.id] = o
      /\ \A i \in Resting(b) : i # o.id => c.order_map[i] = b.order_map[i]
  BY AddShape
<1>3. o.side \in Side /\ Remaining(o) \in Int /\ o.id \in OrderId
  BY OrderFields
<1>4. c.level[o.side][o.price].total_quantity = Wrap(old.total_quantity + Remaining(o))
  BY <1>3 DEF BookAdd, PutKey, BookType
<1> HIDE DEF c
<1>5. ASSUME NEW s \in Side, NEW p \in Prices(c, s), ~(s = o.side /\ p = o.price)
      PROVE  c.level[s][p].total_quantity = Wrap(SeqSum(LeftOf(c), c.level[s][p].queue))
  <2>1. p \in Prices(b, s) /\ c.level[s][p] = b.level[s][p]
    BY <1>2, <1>5
  <2>2. Untouched(b, c, s, p)
    <3> SUFFICES ASSUME NEW k \in DOMAIN b.level[s][p].queue
                 PROVE  LET i == b.level[s][p].queue[k] IN c.order_map[i] = b.order_map[i]
      BY <2>1 DEF Untouched
    <3>1. b.level[s][p].queue[k] \in Resting(b)
      BY <2>1, IndexedQueue
    <3> QED BY <1>2, <3>1
  <2>3. SeqSum(LeftOf(c), c.level[s][p].queue) = SeqSum(LeftOf(b), b.level[s][p].queue)
    BY <1>1, <2>1, <2>2, SameSum
  <2> QED BY <2>1, <2>3 DEF Totalled
<1>6. o.price \in Prices(c, o.side)
  BY <1>2, <1>3
<1>7. c.level[o.side][o.price].total_quantity
        = Wrap(SeqSum(LeftOf(c), c.level[o.side][o.price].queue))
  <2> DEFINE q == old.queue
  <2>1. /\ q \in Seq(Resting(b))
        /\ SeqSum(LeftOf(b), q) \in Int
        /\ old.total_quantity = Wrap(SeqSum(LeftOf(b), q))
        /\ LeftOf(b) \in [Resting(b) -> Int]
    <3>1. LeftOf(b) \in [Resting(b) -> Int]
      BY OrderFields DEF LeftOf, BookType
    <3>2. CASE o.price \in Prices(b, o.side)
      <4>1. old = b.level[o.side][o.price]
        BY <3>2 DEF LevelAt
      <4> QED BY <1>3, <3>1, <3>2, <4>1, QueueSum DEF Totalled
    <3>3. CASE o.price \notin Prices(b, o.side)
      <4>1. q = <<>> /\ old.total_quantity = 0
        BY <3>3 DEF LevelAt, EmptyLevel
      <4>2. SeqSum(LeftOf(b), <<>>) = 0
        BY <3>1, SeqSumEmpty
      <4>3. Wrap(0) = 0
        BY QuantityModulusAssumption DEF Wrap
      <4>4. <<>> \in Seq(Resting(b))
        OBVIOUS
      <4> HIDE DEF q
      <4> QED BY <3>1, <4>1, <4>2, <4>3, <4>4
    <3> QED BY <3>2, <3>3
  <2>2. LeftOf(c) \in [Resting(c) -> Int] /\ o.id \in Resting(c)
    BY <1>1, <1>2, OrderFields DEF LeftOf, BookType
  <2>3. q \in Seq(Resting(c))
    BY <2>1, <1>2
  <2>4. LeftOf(c)[o.id] = Remaining(o)
    BY <1>2, <2>2 DEF LeftOf
  <2>5. \A k \in 1 .. Len(q) : LeftOf(c)[q[k]] = LeftOf(b)[q[k]]
    <3> SUFFICES ASSUME NEW k \in 1 .. Len(q) PROVE LeftOf(c)[q[k]] = LeftOf(b)[q[k]]
      OBVIOUS
    <3>1. q[k] \in Resting(b) /\ q[k] \in Resting(c)
      BY <2>1, <2>3
    <3> HIDE DEF q
    <3> QED BY <1>2, <3>1 DEF LeftOf
  <2> HIDE DEF q
  <2>6. SeqSum(LeftOf(c), q) = SeqSum(LeftOf(b), q)
    <3>1. q \in Seq(Resting(b)) /\ LeftOf(b) \in [Resting(b) -> Int]
      BY <2>1
    <3>2. LeftOf(c) \in [Resting(c) -> Int]
      BY <2>2
    <3>3. Alike(LeftOf(c), q, LeftOf(b), q, Len(q))
      BY <3>1, <2>5 DEF Alike
    <3> QED BY <3>1, <3>2, <3>3, <2>3, SeqSumSame
  <2>7. SeqSum(LeftOf(c), Append(q, o.id)) = SeqSum(LeftOf(b), q) + Remaining(o)
    BY <2>2, <2>3, <2>4, <2>6, SeqSumAppend
  <2>8. Wrap(old.total_quantity + Remaining(o)) = Wrap(SeqSum(LeftOf(b), q) + Remaining(o))
    BY <1>3, <2>1, WrapSum
  <2>9. c.level[o.side][o.price].queue = Append(q, o.id)
    BY <1>2 DEF q
  <2> QED BY <1>4, <2>7, <2>8, <2>9
<1>8. \A s \in Side : \A p \in Prices(c, s) :
        c.level[s][p].total_quantity = Wrap(SeqSum(LeftOf(c), c.level[s][p].queue))
  BY <1>5, <1>7
<1> QED
  BY <1>8 DEF Totalled, c

\* PriceLevel::erase takes what its order has left out of the sum of the queue.
LEMMA UnlinkSum ==
  ASSUME NEW S, NEW w \in [S -> Int], NEW q \in Seq(S), NEW i,
         \E k \in DOMAIN q : q[k] = i
  PROVE  /\ Unlink(q, i) \in Seq(S)
         /\ SeqSum(w, Unlink(q, i)) = SeqSum(w, q) - w[i]
<1> DEFINE n == CHOOSE k \in DOMAIN q : q[k] = i
           r == RemoveAt(q, n)
<1>1. n \in 1 .. Len(q) /\ q[n] = i
  OBVIOUS
<1>2. Unlink(q, i) = r
  BY DEF Unlink
<1> HIDE DEF n
<1>3. /\ r \in Seq(S) /\ Len(r) = Len(q) - 1
      /\ \A k \in 1 .. Len(r) : r[k] = IF k < n THEN q[k] ELSE q[k + 1]
  BY <1>1, RemoveAtShape
<1> HIDE DEF r
<1>4. Drops(q, r, n)
  BY <1>1, <1>3 DEF Drops
<1>5. SeqSum(w, r) = SeqSum(w, q) - w[q[n]]
  <2>1. r \in Seq(S)
    BY <1>3
  <2> QED BY SMTT(20), <2>1, <1>4, SeqSumRemove
<1> QED
  BY <1>1, <1>2, <1>3, <1>5

\* OrderBook::cancel (order_book.cpp) keeps the totals right.
LEMMA CancelTotals ==
  ASSUME NEW b, BookType(b), Indexed(b), Totalled(b), NEW i \in Resting(b)
  PROVE  Totalled(BookCancel(b, i))
<1> DEFINE c == BookCancel(b, i)
           o == b.order_map[i]
           q == b.level[o.side][o.price].queue
           u == Unlink(q, i)
<1>1. BookType(c) /\ Indexed(c)
  BY CancelKeeps
<1>2. /\ o \in Order /\ o.id = i /\ o.side \in Side
      /\ \A s \in Side : Prices(c, s) = IF s = o.side /\ u = <<>>
                                        THEN Prices(b, s) \ {o.price} ELSE Prices(b, s)
      /\ \A s \in Side : \A p \in Prices(c, s) :
           ~(s = o.side /\ p = o.price) => c.level[s][p] = b.level[s][p]
      /\ u # <<>> => c.level[o.side][o.price].queue = u
      /\ Resting(c) = Resting(b) \ {i}
      /\ \A j \in Resting(c) : c.order_map[j] = b.order_map[j]
  BY SMTT(20), CancelShape
<1>3. /\ o.price \in Prices(b, o.side)
      /\ \E k \in DOMAIN q : q[k] = i
  BY IndexedOrder
<1>4. Remaining(o) \in Int
  BY <1>2, OrderFields
<1>5. u # <<>> => c.level[o.side][o.price].total_quantity
                    = Wrap(b.level[o.side][o.price].total_quantity - Remaining(o))
  BY Zenon, <1>2 DEF BookCancel, SideWithout, PutKey, Prices, BookType
<1> HIDE DEF c, u, o
<1>6. ASSUME NEW s \in Side, NEW p \in Prices(c, s), ~(s = o.side /\ p = o.price)
      PROVE  c.level[s][p].total_quantity = Wrap(SeqSum(LeftOf(c), c.level[s][p].queue))
  <2>1. p \in Prices(b, s) /\ c.level[s][p] = b.level[s][p]
    BY <1>2, <1>6
  <2>2. Untouched(b, c, s, p)
    <3> SUFFICES ASSUME NEW k \in DOMAIN c.level[s][p].queue
                 PROVE  LET j == c.level[s][p].queue[k] IN c.order_map[j] = b.order_map[j]
      BY <2>1 DEF Untouched
    <3>1. c.level[s][p].queue[k] \in Resting(c)
      BY <1>1, IndexedQueue
    <3> QED BY <1>2, <3>1
  <2>3. SeqSum(LeftOf(c), c.level[s][p].queue) = SeqSum(LeftOf(b), b.level[s][p].queue)
    BY <1>1, <2>1, <2>2, SameSum
  <2> QED BY <2>1, <2>3 DEF Totalled
<1>7. ASSUME o.price \in Prices(c, o.side)
      PROVE  c.level[o.side][o.price].total_quantity
               = Wrap(SeqSum(LeftOf(c), c.level[o.side][o.price].queue))
  <2>1. u # <<>>
    BY <1>2, <1>7
  <2>2. c.level[o.side][o.price].queue = u
    BY <1>2, <2>1
  <2>3. /\ LeftOf(b) \in [Resting(b) -> Int] /\ q \in Seq(Resting(b))
        /\ SeqSum(LeftOf(b), q) \in Int
        /\ b.level[o.side][o.price].total_quantity = Wrap(SeqSum(LeftOf(b), q))
    BY <1>2, <1>3, QueueSum DEF Totalled
  <2>4. LeftOf(b)[i] = Remaining(o)
    BY DEF LeftOf, o
  <2>5. /\ u \in Seq(Resting(b))
        /\ SeqSum(LeftOf(b), u) = SeqSum(LeftOf(b), q) - Remaining(o)
    <3>1. /\ Unlink(q, i) \in Seq(Resting(b))
          /\ SeqSum(LeftOf(b), Unlink(q, i)) = SeqSum(LeftOf(b), q) - LeftOf(b)[i]
      <4> HIDE DEF q
      <4> QED BY <1>3, <2>3, UnlinkSum
    <3> QED BY <2>4, <3>1 DEF u
  <2>6. LeftOf(c) \in [Resting(c) -> Int] /\ u \in Seq(Resting(c))
    BY <1>1, <1>2, <1>7, <2>2, QueueSum
  <2>7. Alike(LeftOf(c), u, LeftOf(b), u, Len(u))
    <3>1. ASSUME NEW k \in 1 .. Len(u) PROVE LeftOf(c)[u[k]] = LeftOf(b)[u[k]]
      <4>1. u[k] \in Resting(c) /\ u[k] \in Resting(b)
        BY <2>5, <2>6
      <4> QED BY <1>2, <4>1 DEF LeftOf
    <3> QED BY <2>5, <3>1 DEF Alike
  <2>8. SeqSum(LeftOf(c), u) = SeqSum(LeftOf(b), u)
    <3>1. LeftOf(b) \in [Resting(b) -> Int] /\ u \in Seq(Resting(b))
      BY <2>3, <2>5
    <3> QED BY <3>1, <2>6, <2>7, SeqSumSame
  <2>9. Wrap(b.level[o.side][o.price].total_quantity - Remaining(o))
          = Wrap(SeqSum(LeftOf(b), q) - Remaining(o))
    <3> DEFINE m == SeqSum(LeftOf(b), q)
               n == -Remaining(o)
    <3>1. m \in Int /\ n \in Int
      BY <1>4, <2>3
    <3>2. Wrap(Wrap(m) + n) = Wrap(m + n)
      <4> HIDE DEF m, n
      <4> QED BY <3>1, WrapSum
    <3>3. Wrap(m) \in Int
      BY <3>1, WrapType DEF Quantity
    <3> HIDE DEF m
    <3>4. Wrap(m) + n = Wrap(m) - Remaining(o) /\ m + n = m - Remaining(o)
      BY <1>4, <3>1, <3>3
    <3> QED BY <2>3, <3>2, <3>4 DEF m
  <2> QED BY <1>5, <2>1, <2>2, <2>5, <2>8, <2>9
<1>8. \A s \in Side : \A p \in Prices(c, s) :
        c.level[s][p].total_quantity = Wrap(SeqSum(LeftOf(c), c.level[s][p].queue))
  BY <1>6, <1>7
<1> QED
  BY <1>8 DEF Totalled, c

\* A fill of a resting order (matching_engine.cpp:142-147) takes the same
\* quantity out of the order and of the total of its level.
LEMMA FillTotals ==
  ASSUME NEW b, BookType(b), Indexed(b), Totalled(b), NEW i \in Resting(b),
         NEW qty \in Nat, qty =< Remaining(b.order_map[i])
  PROVE  Totalled(BookFill(b, i, qty))
<1> DEFINE c == BookFill(b, i, qty)
           o == b.order_map[i]
           q == b.level[o.side][o.price].queue
           total == b.level[o.side][o.price].total_quantity
<1>1. BookType(c) /\ Indexed(c)
  BY FillKeeps
<1>2. /\ \A s \in Side : Prices(c, s) = Prices(b, s)
      /\ \A s \in Side : \A p \in Prices(b, s) :
           c.level[s][p].queue = b.level[s][p].queue
      /\ Resting(c) = Resting(b)
      /\ c.order_map[i] = [o EXCEPT !.filled_quantity = o.filled_quantity + qty]
      /\ \A j \in Resting(b) : j # i => c.order_map[j] = b.order_map[j]
  BY SMTT(20), FillShape
<1>3. /\ o \in Order /\ o.side \in Side /\ o.price \in Prices(b, o.side)
      /\ \E k \in DOMAIN q : q[k] = i
  BY IndexedOrder, OrderFields
<1>4. /\ c.level[o.side][o.price].total_quantity = Wrap(total - qty)
      /\ \A s \in Side : \A p \in Prices(b, s) :
           ~(s = o.side /\ p = o.price) =>
             c.level[s][p].total_quantity = b.level[s][p].total_quantity
  BY <1>3 DEF BookFill, Prices, BookType
<1>5. Remaining(c.order_map[i]) = Remaining(o) - qty /\ Remaining(o) \in Int
  BY <1>2, <1>3, OrderFields DEF Remaining, Order
<1> HIDE DEF c, o
<1>6. ASSUME NEW s \in Side, NEW p \in Prices(c, s), ~(s = o.side /\ p = o.price)
      PROVE  c.level[s][p].total_quantity = Wrap(SeqSum(LeftOf(c), c.level[s][p].queue))
  <2>1. p \in Prices(b, s) /\ c.level[s][p].queue = b.level[s][p].queue
    BY <1>2
  <2>2. Untouched(b, c, s, p)
    <3> SUFFICES ASSUME NEW k \in DOMAIN b.level[s][p].queue
                 PROVE  LET j == b.level[s][p].queue[k] IN c.order_map[j] = b.order_map[j]
      BY <2>1 DEF Untouched
    <3> DEFINE j == b.level[s][p].queue[k]
    <3>1. j \in Resting(b) /\ b.order_map[j].side = s /\ b.order_map[j].price = p
      BY <2>1, IndexedQueue
    <3>2. j # i
      BY <1>6, <3>1 DEF o
    <3> QED BY <1>2, <3>1, <3>2
  <2>3. SeqSum(LeftOf(c), c.level[s][p].queue) = SeqSum(LeftOf(b), b.level[s][p].queue)
    BY <1>1, <2>1, <2>2, SameSum
  <2> QED BY <1>4, <1>6, <2>1, <2>3 DEF Totalled
<1>7. c.level[o.side][o.price].total_quantity
        = Wrap(SeqSum(LeftOf(c), c.level[o.side][o.price].queue))
  <2>1. /\ LeftOf(b) \in [Resting(b) -> Int] /\ q \in Seq(Resting(b))
        /\ SeqSum(LeftOf(b), q) \in Int
        /\ total = Wrap(SeqSum(LeftOf(b), q))
    BY <1>3, QueueSum DEF Totalled
  <2>2. c.level[o.side][o.price].queue = q /\ o.price \in Prices(c, o.side)
    BY <1>2, <1>3
  <2>3. LeftOf(c) \in [Resting(c) -> Int]
    BY <1>1, <1>3, <2>2, QueueSum
  <2>4. LeftOf(b)[i] = Remaining(o) /\ LeftOf(c)[i] = Remaining(o) - qty
    BY <1>2, <1>5 DEF LeftOf, o
  <2>5. PICK k \in DOMAIN q : q[k] = i
    BY <1>3
  <2>6. Differs(LeftOf(c), LeftOf(b), q, k)
    <3>1. \A x, y \in DOMAIN q : q[x] = q[y] => x = y
      BY <1>3, IndexedQueue
    <3>2. k \in 1 .. Len(q)
      BY SMTT(20), <2>1, <2>5
    <3>3. ASSUME NEW j \in 1 .. Len(q), j # k
          PROVE  LeftOf(c)[q[j]] = LeftOf(b)[q[j]]
      <4>1. q[j] \in Resting(b) /\ q[j] # i
        BY SMTT(20), <2>1, <2>5, <3>1, <3>3
      <4> HIDE DEF q
      <4> QED BY <1>2, <4>1 DEF LeftOf
    <3> QED BY SMTT(20), <3>2, <3>3 DEF Differs
  <2> HIDE DEF q, total
  <2>7. SeqSum(LeftOf(c), q) = SeqSum(LeftOf(b), q) - LeftOf(b)[q[k]] + LeftOf(c)[q[k]]
    <3>1. /\ LeftOf(b) \in [Resting(b) -> Int] /\ q \in Seq(Resting(b))
          /\ q \in Seq(Resting(c))
      BY <1>2, <2>1
    <3> QED BY <2>3, <2>6, <3>1, SeqSumChange
  <2> DEFINE m == SeqSum(LeftOf(b), q)
             n == -qty
  <2>8. SeqSum(LeftOf(c), q) = m + n
    BY <1>5, <2>1, <2>4, <2>5, <2>7
  <2>9. Wrap(Wrap(m) + n) = Wrap(m + n)
    <3>1. m \in Int /\ n \in Int
      BY <2>1
    <3> HIDE DEF m, n
    <3> QED BY <3>1, WrapSum
  <2>10. total - qty = Wrap(m) + n
    <3>1. Wrap(m) \in Int
      BY <2>1, WrapType DEF Quantity
    <3> QED BY <2>1, <3>1
  <2>11. c.level[o.side][o.price].total_quantity = Wrap(Wrap(m) + n)
    BY <1>4, <2>10 DEF total
  <2> QED BY <2>2, <2>8, <2>9, <2>11
<1>8. \A s \in Side : \A p \in Prices(c, s) :
        c.level[s][p].total_quantity = Wrap(SeqSum(LeftOf(c), c.level[s][p].queue))
  BY <1>6, <1>7
<1> QED
  BY <1>8 DEF Totalled, c

\* So does the whole of what happens to a maker: filled, gone, or refilled and
\* put behind the others (matching_engine.cpp:142-161).
LEMMA FillMakerTotals ==
  ASSUME NEW b, BookType(b), Indexed(b), Live(b), Totalled(b),
         NEW x \in Resting(b), NEW qty \in Nat,
         qty =< Remaining(b.order_map[x])
  PROVE  Totalled(FillMaker(b, x, qty))
<1> DEFINE before == b.order_map[x]
           filled == BookFill(b, x, qty)
           maker == filled.order_map[x]
           gone == BookCancel(filled, x)
           c == FillMaker(b, x, qty)
<1>1. before \in Order /\ before.id = x /\ Tradable(before)
  BY IndexedOrder DEF Live
<1>2. /\ maker = [before EXCEPT !.filled_quantity = before.filled_quantity + qty]
      /\ maker \in Order
      /\ Resting(filled) = Resting(b)
  BY FillShape
<1>3. BookType(filled) /\ Indexed(filled) /\ Totalled(filled)
  BY FillKeeps, FillTotals
<1>4. c = IF ~IsFilled(maker) THEN filled
          ELSE IF maker.hidden_quantity = 0 THEN gone
          ELSE AddIceberg(gone, Refill(maker))
  BY DEF FillMaker
<1> HIDE DEF before, filled, c
<1>5. x \in Resting(filled)
  BY <1>2
<1>6. BookType(gone) /\ Indexed(gone) /\ Totalled(gone) /\ x \notin Resting(gone)
  BY <1>3, <1>5, CancelKeeps, CancelTotals
<1> HIDE DEF gone
<1>7. CASE ~IsFilled(maker)
  BY <1>3, <1>4, <1>7 DEF c
<1>8. CASE IsFilled(maker) /\ maker.hidden_quantity = 0
  BY <1>4, <1>6, <1>8 DEF c
<1>9. CASE IsFilled(maker) /\ maker.hidden_quantity # 0
  <2> DEFINE r == Refill(maker)
  <2>1. c = AddIceberg(gone, r)
    BY <1>4, <1>9
  <2>2. /\ maker.id = x /\ maker.type = "Limit"
        /\ maker.visible_quantity = before.visible_quantity
        /\ maker.hidden_quantity = before.hidden_quantity
        /\ maker.hidden_quantity \in Nat
    BY <1>1, <1>2, OrderFields DEF Order, Tradable
  <2>3. /\ r \in Order /\ r.id = x /\ r.type = "Limit"
        /\ r.visible_quantity = before.visible_quantity
        /\ Remaining(r) = maker.hidden_quantity
    BY <1>2, <2>2, RefillShape
  <2> HIDE DEF r, maker
  <2>4. Remaining(r) > 0 /\ r.visible_quantity > 0
    BY <1>1, <1>9, <2>2, <2>3 DEF Tradable
  <2>5. PICK y \in Order :
          c = BookAdd(gone, y) /\ y.id = x /\ Tradable(y)
    BY <2>1, <2>3, <2>4, SliceShape
  <2>6. y.type = "Limit" /\ y.id \notin Resting(gone)
    BY <1>6, <2>5 DEF Tradable
  <2> QED BY <1>6, <2>5, <2>6, AddTotals DEF c
<1> QED BY <1>7, <1>8, <1>9

\* What LevelTotals says of the book, as a sum over each queue.
LEMMA TotalsAreSums ==
  ASSUME NEW b, BookType(b), Indexed(b)
  PROVE  Totalled(b) <=>
           \A s \in Side : \A p \in Prices(b, s) :
             b.level[s][p].total_quantity =
               Wrap(FoldLeft(LAMBDA sum, i : sum + Remaining(b.order_map[i]),
                             0, b.level[s][p].queue))
<1>1. ASSUME NEW s \in Side, NEW p \in Prices(b, s)
      PROVE  FoldLeft(LAMBDA sum, i : sum + Remaining(b.order_map[i]),
                      0, b.level[s][p].queue)
               = SeqSum(LeftOf(b), b.level[s][p].queue)
  <2> DEFINE S == Resting(b)
             m == b.order_map
             q == b.level[s][p].queue
  <2>1. q \in Seq(S)
    BY QueueSum
  <2>2. \A i \in S : Remaining(m[i]) \in Int
    BY OrderFields DEF BookType
  <2>3. FoldLeft(LAMBDA sum, i : sum + Remaining(m[i]), 0, q)
          = SeqSum([i \in S |-> Remaining(m[i])], q)
    <3> HIDE DEF S, m, q
    <3> QED BY <2>1, <2>2, FoldedSum
  <2> QED BY <2>3 DEF LeftOf
<1> QED BY <1>1 DEF Totalled

\* Every step of the engine keeps the totals of its levels right.
LEMMA StepKeepsTotals ==
  ASSUME EngineInv, Totalled(book), [Next]_vars
  PROVE  Totalled(book')
<1>1. BookType(book) /\ Indexed(book) /\ Live(book) /\ Totalled(book)
  BY DEF EngineInv, TypeOK, BookIndexed, RestingKnown
<1>2. CASE UNCHANGED book
  BY <1>1, <1>2
<1>3. ASSUME NEW i \in Fresh, NEW r \in Requests, SubmitPegged(i, r)
      PROVE  Totalled(book')
  <2> DEFINE o == NewOrder(i, r)
  <2>1. Call(i, r)
    BY <1>3 DEF SubmitPegged
  <2>2. i \in OrderId /\ r \in Request /\ i \notin Resting(book)
    BY <2>1, CallKeeps
  <2>3. o \in Order /\ o.id = i /\ o.quantity > 0
        /\ o.filled_quantity = 0 /\ o.hidden_quantity = 0
    BY <2>2, NewOrderShape
  <2>4. \/ book' = book
        \/ \E p \in PegPrices(book, o) : book' = BookAdd(book, PegAsLimit(o, p))
    BY <1>3 DEF SubmitPegged
  <2> HIDE DEF o
  <2>5. ASSUME NEW p \in PegPrices(book, o), book' = BookAdd(book, PegAsLimit(o, p))
        PROVE  Totalled(book')
    <3> DEFINE x == PegAsLimit(o, p)
    <3>1. x \in Order /\ x.id = i /\ x.type = "Limit"
      BY <1>1, <2>3, PegPricesType, PegAsLimitShape DEF Tradable
    <3> HIDE DEF x
    <3> QED BY <1>1, <2>2, <2>5, <3>1, AddTotals DEF x
  <2> QED BY <1>1, <2>4, <2>5
<1>4. ASSUME NEW i \in OrderId, Cancel(i)
      PROVE  Totalled(book')
  <2>1. book' = BookCancel(book, i)
    BY <1>4 DEF Cancel
  <2>2. CASE i \in Resting(book)
    BY <1>1, <2>1, <2>2, CancelTotals
  <2>3. CASE i \notin Resting(book)
    BY <1>1, <2>1, <2>3 DEF BookCancel
  <2> QED BY <2>2, <2>3
<1>5. CASE FillFront
  <2>1. taker # NoOrder /\ Remaining(taker) > 0
    BY Zenon, <1>5 DEF FillFront, EngineInv, TypeOK
  <2>2. PICK p \in BestPrices(book, Opposite(taker.side)) :
          LET queue == book.level[Opposite(taker.side)][p].queue
              maker == book.order_map[Head(queue)]
              qty == Least(Remaining(taker), Remaining(maker))
          IN  queue # <<>> /\ book' = FillMaker(book, maker.id, qty)
    BY Zenon, <1>5 DEF FillFront
  <2> DEFINE maker == book.order_map[Head(book.level[Opposite(taker.side)][p].queue)]
             qty == Least(Remaining(taker), Remaining(maker))
             x == maker.id
  <2>3. /\ x \in Resting(book) /\ maker = book.order_map[x]
        /\ qty \in Nat /\ qty =< Remaining(maker)
    BY Zenon, <2>1, <2>2, FrontShape
  <2>4. book' = FillMaker(book, x, qty)
    BY <2>2
  <2>5. qty =< Remaining(book.order_map[x])
    BY Zenon, <2>3
  <2>6. qty \in Nat /\ x \in Resting(book)
    BY <2>3
  <2> HIDE DEF maker, qty, x
  <2> HIDE <2>3
  <2> QED BY <1>1, <2>4, <2>5, <2>6, FillMakerTotals
<1>6. CASE EndMatch
  <2>1. book' = Rest(taker) /\ taker # NoOrder
    BY <1>6 DEF EndMatch, MatchOver, EngineInv, TypeOK
  <2>2. taker.id \notin Resting(book)
    BY <2>1 DEF EngineInv, TakerKnown
  <2>3. \/ book' = book
        \/ \E x \in Order : /\ book' = BookAdd(book, x)
                            /\ x.id = taker.id /\ x.type = "Limit"
    BY <2>1, RestKeeps
  <2> QED BY <1>1, <2>2, <2>3, AddTotals
<1>7. CASE Reprice
  <2> DEFINE o == pegged_orders[it]
             u == o.id
             without == BookCancel(book, u)
  <2>1. /\ it =< Len(pegged_orders)
        /\ \/ book' = without
           \/ \E p \in PegPrices(without, o) :
                book' = BookAdd(without, PegAsLimit(o, p))
    BY <1>7 DEF Reprice
  <2>2. /\ o \in Order /\ o.filled_quantity = 0 /\ o.quantity > 0
        /\ o.hidden_quantity = 0
    BY <2>1 DEF EngineInv, TypeOK, PegsKnown
  <2>3. /\ BookType(without) /\ Indexed(without)
        /\ u \notin Resting(without)
    BY <1>1, CancelKeeps
  <2> HIDE DEF o
  <2>4. Totalled(without)
    <3> HIDE DEF u
    <3>1. CASE u \in Resting(book)
      BY <1>1, <3>1, CancelTotals
    <3>2. CASE u \notin Resting(book)
      BY <1>1, <3>2 DEF BookCancel
    <3> QED BY <3>1, <3>2
  <2> HIDE DEF without
  <2>5. ASSUME NEW p \in PegPrices(without, o),
               book' = BookAdd(without, PegAsLimit(o, p))
        PROVE  Totalled(book')
    <3> DEFINE x == PegAsLimit(o, p)
    <3>1. x \in Order /\ x.id = u /\ x.type = "Limit"
      BY <2>2, <2>3, PegPricesType, PegAsLimitShape DEF Tradable
    <3> HIDE DEF x, u
    <3> QED BY <2>3, <2>4, <2>5, <3>1, AddTotals DEF x
  <2> QED BY <2>1, <2>4, <2>5
<1> QED
  BY <1>1, <1>2, <1>3, <1>4, <1>5, <1>6, <1>7
  DEF Next, Submit, SubmitLimit, SubmitMarket, SubmitStop, CallStep, EnterLevel,
      LeaveLevel, TriggerStop, SkipStop, EndStopMatch, EndScan, EndReprice,
      engine, vars

\* The quantity a level advertises is, modulo the width of its counter, what the
\* orders of its queue have left to trade, after every step of every call, for
\* queues of any length: adds, cancels, fills, refills and repricings move both
\* by the same amount (order_book.cpp:6-56, matching_engine.cpp:142-161).
THEOREM LevelTotalsRight == Spec => []LevelTotals
<1>1. Init => Totalled(book)
  BY DEF Init, Totalled, Prices, EmptyBook
<1>2. EngineInv /\ Totalled(book) /\ [Next]_vars => Totalled(book)'
  BY StepKeepsTotals
<1>3. EngineInv /\ Totalled(book) => LevelTotals
  BY TotalsAreSums DEF LevelTotals, EngineInv, TypeOK, BookIndexed
<1> QED BY <1>1, <1>2, <1>3, EngineInvariant, PTL DEF Spec

-----------------------------------------------------------------------------
(* Fill or kill.                                                             *)

\* A finite set of prices has one that comes last.
LEMMA WorstIn ==
  ASSUME NEW E, IsFiniteSet(E), NEW s \in Side
  PROVE  E \subseteq Int => \A U \in SUBSET E : U # {} => Worst(s, U) \in U
<1> DEFINE LastOf(U, p) == \A q \in U : q = p \/ Better(s, q, p)
           T == {U \in SUBSET E : U # {} /\ ~ \E p \in U : LastOf(U, p)}
<1>0. SUFFICES ASSUME E \subseteq Int PROVE \A U \in SUBSET E : U # {} => Worst(s, U) \in U
  OBVIOUS
<1>1. T = {}
  <2> SUFFICES ASSUME T # {} PROVE FALSE
    OBVIOUS
  <2>1. T \subseteq SUBSET E
    OBVIOUS
  <2>2. PICK U \in T : \A W \in SUBSET U : W \in T => W = U
    <3>1. IsFiniteSet(E) /\ T # {} /\ T \subseteq SUBSET E
      BY <2>1
    <3> HIDE DEF T
    <3> QED BY <3>1, SmallestSet
  <2>3. U \in SUBSET E /\ U # {} /\ ~ \E p \in U : LastOf(U, p)
    OBVIOUS
  <2>4. PICK x \in U : TRUE
    BY <2>3
  <2> DEFINE W == U \ {x}
  <2>5. W \in SUBSET U /\ W # U /\ W \in SUBSET E /\ x \in Int /\ U = W \cup {x}
    BY <1>0, <2>3, <2>4
  <2>6. CASE W = {}
    <3>1. LastOf(U, x)
      BY <2>5, <2>6
    <3> QED BY <2>3, <2>4, <3>1
  <2>7. CASE W # {}
    <3>1. W \notin T
      <4> HIDE DEF T, W
      <4> QED BY <2>2, <2>5
    <3>2. PICK p \in W : LastOf(W, p)
      <4> HIDE DEF W, LastOf
      <4> QED BY <2>5, <2>7, <3>1 DEF T
    <3>3. p \in Int /\ p \in U /\ p # x /\ \A q \in W : q \in Int
      BY <1>0, <2>3, <3>2
    <3>4. CASE Better(s, x, p)
      <4>1. LastOf(U, p)
        <5> HIDE DEF W
        <5> QED BY <2>5, <3>2, <3>4
      <4> QED BY <2>3, <3>3, <4>1
    <3>5. CASE ~Better(s, x, p)
      <4>1. Better(s, p, x)
        BY <2>5, <3>3, <3>5 DEF Better
      <4>2. ASSUME NEW q \in W PROVE Better(s, q, x)
        <5>1. q = p \/ Better(s, q, p)
          BY <3>2
        <5>2. q \in Int
          BY <3>3
        <5> HIDE DEF W, LastOf
        <5> QED BY <2>5, <3>3, <4>1, <5>1, <5>2 DEF Better
      <4>3. LastOf(U, x)
        <5> HIDE DEF W
        <5> QED BY <2>5, <4>2
      <4> QED BY <2>3, <2>4, <4>3
    <3> QED BY <3>4, <3>5
  <2> QED BY <2>6, <2>7
<1>2. ASSUME NEW U \in SUBSET E, U # {} PROVE Worst(s, U) \in U
  <2>1. \E p \in U : \A q \in U : q = p \/ Better(s, q, p)
    BY <1>1, <1>2
  <2> QED BY <2>1 DEF Worst
<1> QED BY <1>2

\* A book with finitely many orders has finitely many levels.
LEMMA PricesFinite ==
  ASSUME NEW b, BookType(b), Indexed(b), IsFiniteSet(Resting(b)), NEW s \in Side
  PROVE  IsFiniteSet(Prices(b, s))
<1> DEFINE R == Resting(b)
           f == [i \in R |-> b.order_map[i].price]
           T == {b.order_map[i].price : i \in R}
<1>1. f \in Surjection(R, T)
  BY DEF Surjection
<1>2. IsFiniteSet(T)
  <2> HIDE DEF f, R, T
  <2> QED BY <1>1, FS_Surjection DEF R
<1>3. ASSUME NEW p \in Prices(b, s) PROVE p \in T
  <2> DEFINE q == b.level[s][p].queue
  <2>1. q # <<>> /\ \A k \in DOMAIN q : q[k] \in R /\ b.order_map[q[k]].price = p
    BY IndexedQueue
  <2>2. q \in Seq(OrderId)
    BY DEF BookType, Level
  <2>3. 1 \in DOMAIN q
    <3> HIDE DEF q
    <3> QED BY <2>1, <2>2
  <2>4. q[1] \in R /\ b.order_map[q[1]].price = p
    BY <2>1, <2>3
  <2> HIDE DEF q
  <2> QED BY <2>4
<1>4. Prices(b, s) \in SUBSET T
  BY <1>3
<1> HIDE DEF T
<1> QED BY <1>2, <1>4, FS_Subset

\* The opposite levels that order o may trade with.
InLimit(b, o) == {p \in Prices(b, Opposite(o.side)) : ~Beyond(o, p)}

TotalAt(b, s, p) == b.level[s][p].total_quantity

\* f[E] counts totals of prices, each once and no more of it than there is.
Counted(f, E, b, s) ==
  /\ f[{}] = 0
  /\ \A U \in SUBSET E : f[U] \in Nat
  /\ \A U \in SUBSET E : U # {} =>
       \E p \in U : \/ f[U] = f[U \ {p}]
                    \/ f[U] = Wrap(f[U \ {p}] + TotalAt(b, s, p))

\* available_quantity counts totals of the levels within the limit.
LEMMA AvailableCounts ==
  ASSUME NEW b, BookType(b), Indexed(b), IsFiniteSet(Resting(b)), NEW o \in Order
  PROVE  \E f : /\ Counted(f, InLimit(b, o), b, Opposite(o.side))
                /\ AvailableQuantity(b, o) = f[InLimit(b, o)]
<1> DEFINE opp == Opposite(o.side)
           E == InLimit(b, o)
           worst(U) == Worst(opp, U)
           count(p, sum) == IF sum >= o.quantity THEN sum ELSE Wrap(sum + TotalAt(b, opp, p))
           pick == [U \in SUBSET E |-> worst(U)]
           step == [p \in E |-> [v \in Nat |-> count(p, v)]]
           Eqn(f) == f = [U \in SUBSET E |->
                            IF U = {} THEN 0 ELSE count(worst(U), f[U \ {worst(U)}])]
           c == CHOOSE f : Eqn(f)
<1>1. opp \in Side /\ o.side \in Side
  BY OrderFields DEF Opposite, Side
<1>2. E \subseteq Prices(b, opp) /\ Prices(b, opp) \subseteq Int /\ E \subseteq Int
  BY <1>1 DEF InLimit, BookType, Price
<1>3. IsFiniteSet(E)
  <2>1. IsFiniteSet(Prices(b, opp))
    <3> HIDE DEF opp
    <3> QED BY <1>1, PricesFinite
  <2> HIDE DEF E, opp
  <2> QED BY <1>2, <2>1, FS_Subset
<1>4. \A U \in SUBSET E : U # {} => worst(U) \in U
  <2> HIDE DEF E, opp
  <2> QED BY <1>1, <1>2, <1>3, WorstIn
<1>5. ASSUME NEW p \in E, NEW v \in Nat PROVE count(p, v) \in Nat
  <2>1. TotalAt(b, opp, p) \in Nat
    BY <1>1, <1>2 DEF BookType, Level, Quantity, TotalAt
  <2>2. Wrap(v + TotalAt(b, opp, p)) \in Nat
    <3> HIDE DEF opp
    <3> QED BY <2>1, WrapType, QuantityModulusAssumption DEF Quantity
  <2> QED BY <2>2
<1>6. ASSUME NEW p \in E, NEW v \in Nat PROVE step[p][v] = count(p, v) /\ step[p][v] \in Nat
  <2>1. step[p][v] = count(p, v)
    OBVIOUS
  <2> QED BY <1>5, <2>1
<1> HIDE DEF step, count
<1>7. PICK f : /\ f = [U \in SUBSET E |-> f[U]] /\ Folds(f, E, 0, step, pick)
               /\ \A U \in SUBSET E : f[U] \in Nat
  <2>1. 0 \in Nat
    OBVIOUS
  <2>2. \A U \in SUBSET E : U # {} => pick[U] \in U
    BY <1>4
  <2>3. \A x \in E : \A v \in Nat : step[x][v] \in Nat
    BY <1>6
  <2> HIDE DEF pick, E
  <2> QED BY <1>3, <2>1, <2>2, <2>3, FoldWithin
<1>8. Eqn(f)
  <2>1. ASSUME NEW U \in SUBSET E
        PROVE  f[U] = IF U = {} THEN 0 ELSE count(worst(U), f[U \ {worst(U)}])
    <3>1. f[U] = IF U = {} THEN 0 ELSE step[pick[U]][f[U \ {pick[U]}]]
      BY <1>7 DEF Folds
    <3>2. pick[U] = worst(U)
      OBVIOUS
    <3>3. U # {} => worst(U) \in E /\ f[U \ {worst(U)}] \in Nat
      BY <1>4, <1>7
    <3> HIDE DEF pick, E, worst
    <3> QED BY <1>6, <3>1, <3>2, <3>3
  <2> HIDE DEF E, worst
  <2> QED BY <1>7, <2>1
<1>9. AvailableQuantity(b, o) = c[E]
  BY DEF AvailableQuantity, MapThenFoldSet, InLimit, count, TotalAt
<1>10. Eqn(c)
  <2> HIDE DEF Eqn
  <2> QED BY <1>8
<1> HIDE DEF c
<1>11. \A U \in SUBSET E :
         c[U] = IF U = {} THEN 0 ELSE count(worst(U), c[U \ {worst(U)}])
  <2> HIDE DEF E, worst
  <2> QED BY <1>10
<1> DEFINE T == {U \in SUBSET E : c[U] \notin Nat}
<1>12. T = {}
  <2> SUFFICES ASSUME T # {} PROVE FALSE
    OBVIOUS
  <2>1. T \subseteq SUBSET E
    OBVIOUS
  <2>2. PICK U \in T : \A W \in SUBSET U : W \in T => W = U
    <3> HIDE DEF T, E
    <3> QED BY <2>1, <1>3, SmallestSet
  <2>3. U \in SUBSET E /\ c[U] \notin Nat
    OBVIOUS
  <2> HIDE DEF E, worst
  <2>4. U # {}
    BY <1>11, <2>3
  <2> DEFINE x == worst(U)
             W == U \ {x}
  <2>5. x \in U /\ x \in E /\ W \in SUBSET U /\ W \in SUBSET E /\ W # U
    BY <1>4, <2>3, <2>4
  <2>6. c[W] \in Nat
    BY <2>2, <2>5
  <2>7. c[U] = count(x, c[W])
    BY <1>11, <2>3, <2>4
  <2>8. count(x, c[W]) \in Nat
    <3> HIDE DEF x, W
    <3> QED BY <1>5, <2>5, <2>6
  <2> QED BY <2>3, <2>7, <2>8
<1>13. Counted(c, E, b, opp)
  <2>1. c[{}] = 0
    BY <1>11
  <2>2. \A U \in SUBSET E : c[U] \in Nat
    BY <1>12
  <2>3. ASSUME NEW U \in SUBSET E, U # {}
        PROVE  \E p \in U : \/ c[U] = c[U \ {p}]
                            \/ c[U] = Wrap(c[U \ {p}] + TotalAt(b, opp, p))
    <3>1. worst(U) \in U
      BY <1>4, <2>3
    <3>2. c[U] = count(worst(U), c[U \ {worst(U)}])
      BY <1>11, <2>3
    <3> HIDE DEF worst, E, opp
    <3> QED BY <3>1, <3>2 DEF count
  <2> HIDE DEF E, opp
  <2> QED BY <2>1, <2>2, <2>3 DEF Counted
<1> QED BY <1>9, <1>13

\* What the orders of side s at the prices of P have left, hidden or not.
LeftAt(b, s, P, S) ==
  [i \in S |-> IF i \in Resting(b) /\ b.order_map[i].side = s /\ b.order_map[i].price \in P
               THEN Remaining(b.order_map[i]) + b.order_map[i].hidden_quantity
               ELSE 0]

AllAt(b, s, P, S) == SumFunctionOnSet(LeftAt(b, s, P, S), S)

\* It is a number of lots.
LEMMA LeftAtType ==
  ASSUME NEW b, BookType(b), Live(b), NEW S, IsFiniteSet(S), NEW s, NEW P
  PROVE  /\ \A i \in S : LeftAt(b, s, P, S)[i] \in Int /\ LeftAt(b, s, P, S)[i] >= 0
         /\ AllAt(b, s, P, S) \in Int /\ AllAt(b, s, P, S) >= 0
<1>1. ASSUME NEW i \in S
      PROVE  LeftAt(b, s, P, S)[i] \in Int /\ LeftAt(b, s, P, S)[i] >= 0
  <2>1. CASE i \in Resting(b)
    <3> DEFINE o == b.order_map[i]
    <3>1. o \in Order /\ o.filled_quantity < o.quantity
      BY <2>1 DEF BookType, Live, Tradable
    <3>2. o.quantity \in Nat /\ o.filled_quantity \in Nat /\ o.hidden_quantity \in Nat
      BY <3>1, OrderFields
    <3> DEFINE x == Remaining(o) + o.hidden_quantity
    <3>3. x \in Int /\ x >= 0
      <4> HIDE DEF o
      <4> QED BY <3>1, <3>2 DEF Remaining
    <3>4. LeftAt(b, s, P, S)[i] \in {x, 0}
      BY DEF LeftAt
    <3> HIDE DEF x
    <3> QED BY <3>3, <3>4
  <2>2. CASE i \notin Resting(b)
    BY <2>2 DEF LeftAt
  <2> QED BY <2>1, <2>2
<1> DEFINE w == LeftAt(b, s, P, S)
<1>2. SumFunctionOnSet(w, S) \in Int /\ SumFunctionOnSet(w, S) >= 0
  <2>1. \A i \in S : w[i] \in Int /\ w[i] >= 0
    BY <1>1
  <2> HIDE DEF w
  <2> QED BY <2>1, SumType, SumNotBelow
<1> QED BY <1>1, <1>2 DEF AllAt

\* The total of a level is no more than its orders have left.
LEMMA LevelLeft ==
  ASSUME NEW b, BookType(b), Indexed(b), Live(b), Totalled(b),
         NEW S, IsFiniteSet(S), Resting(b) \subseteq S,
         NEW s \in Side, NEW p \in Prices(b, s)
  PROVE  TotalAt(b, s, p) \in Nat /\ TotalAt(b, s, p) =< AllAt(b, s, {p}, S)
<1> DEFINE q == b.level[s][p].queue
           w == LeftOf(b)
           u == LeftAt(b, s, {p}, S)
<1>1. w \in [Resting(b) -> Int] /\ q \in Seq(Resting(b))
  BY QueueSum
<1>2. /\ \A k \in DOMAIN q : /\ q[k] \in Resting(b)
                            /\ b.order_map[q[k]].side = s
                            /\ b.order_map[q[k]].price = p
      /\ \A k, m \in DOMAIN q : q[k] = q[m] => k = m
  BY IndexedQueue
<1>3. ASSUME NEW k \in 1 .. Len(q)
      PROVE  q[k] \in S /\ w[q[k]] >= 0 /\ w[q[k]] =< u[q[k]]
  <2> DEFINE i == q[k]
             o == b.order_map[i]
  <2>1. i \in Resting(b) /\ i \in S /\ o.side = s /\ o.price = p
    <3>1. k \in DOMAIN q
      BY <1>1
    <3> QED BY <1>2, <3>1
  <2>2. o \in Order /\ o.filled_quantity < o.quantity
    BY SMTT(20), <2>1 DEF BookType, Live, Tradable
  <2>3. o.quantity \in Nat /\ o.filled_quantity \in Nat /\ o.hidden_quantity \in Nat
    BY <2>2, OrderFields
  <2>4. w[i] = Remaining(o)
    BY SMTT(20), <2>1 DEF LeftOf
  <2>5. u[i] = Remaining(o) + o.hidden_quantity
    BY <2>1 DEF LeftAt
  <2> HIDE DEF o, i, u, w
  <2>6. i \in S /\ w[i] >= 0 /\ w[i] =< u[i]
    BY <2>1, <2>2, <2>3, <2>4, <2>5 DEF Remaining
  <2> QED BY <2>6 DEF i
<1>4. Within(q, w, S, u)
  <2>1. \A k, m \in 1 .. Len(q) : q[k] = q[m] => k = m
    <3>1. DOMAIN q = 1 .. Len(q)
      BY <1>1
    <3> QED BY <1>2, <3>1
  <2> HIDE DEF q, w, u
  <2> QED BY <1>3, <2>1 DEF Within
<1>5. \A i \in S : u[i] \in Int /\ u[i] >= 0
  BY LeftAtType
<1> DEFINE x == SeqSum(w, q)
<1>6. x \in Nat /\ x =< SumFunctionOnSet(u, S)
  <2>1. \A k \in 1 .. Len(q) : w[q[k]] >= 0
    BY <1>3
  <2> HIDE DEF q, w, u
  <2>2. x \in Int /\ x >= 0
    BY <1>1, <2>1, SeqSumNotBelow
  <2>3. x =< SumFunctionOnSet(u, S)
    BY <1>1, <1>4, <1>5, SeqSumWithin
  <2> HIDE DEF x
  <2> QED BY <2>2, <2>3
<1>7. TotalAt(b, s, p) = Wrap(x)
  BY DEF Totalled, TotalAt
<1>8. SumFunctionOnSet(u, S) \in Int /\ SumFunctionOnSet(u, S) = AllAt(b, s, {p}, S)
  BY LeftAtType DEF AllAt
<1> HIDE DEF x, u
<1>9. Wrap(x) =< x /\ Wrap(x) \in Nat
  BY <1>6, RemainderNotMore, QuantityModulusAssumption DEF Wrap
<1> QED BY <1>6, <1>7, <1>8, <1>9

\* So a sum that counts each total once is no more either.
LEMMA CountedLeft ==
  ASSUME NEW b, BookType(b), Indexed(b), Live(b), Totalled(b),
         NEW S, IsFiniteSet(S), Resting(b) \subseteq S,
         NEW s \in Side, NEW E, E \subseteq Prices(b, s), IsFiniteSet(E),
         NEW f, Counted(f, E, b, s)
  PROVE  f[E] \in Nat /\ f[E] =< AllAt(b, s, E, S)
<1> DEFINE T == {U \in SUBSET E : ~(f[U] =< AllAt(b, s, U, S))}
<1>1. T = {}
  <2> SUFFICES ASSUME T # {} PROVE FALSE
    OBVIOUS
  <2>1. T \subseteq SUBSET E
    OBVIOUS
  <2>2. PICK U \in T : \A W \in SUBSET U : W \in T => W = U
    <3> HIDE DEF T
    <3> QED BY <2>1, SmallestSet
  <2>3. U \in SUBSET E /\ ~(f[U] =< AllAt(b, s, U, S))
    OBVIOUS
  <2>4. U # {}
    <3>1. f[{}] = 0
      BY DEF Counted
    <3>2. AllAt(b, s, {}, S) \in Int /\ AllAt(b, s, {}, S) >= 0
      BY LeftAtType
    <3> HIDE DEF T
    <3> QED BY <2>3, <3>1, <3>2
  <2>5. PICK p \in U : \/ f[U] = f[U \ {p}]
                       \/ f[U] = Wrap(f[U \ {p}] + TotalAt(b, s, p))
    BY <2>3, <2>4 DEF Counted
  <2> DEFINE W == U \ {p}
             all(P) == AllAt(b, s, P, S)
  <2>6. W \in SUBSET U /\ W \in SUBSET E /\ W # U /\ p \in Prices(b, s)
    BY <2>3, <2>5
  <2>7. f[W] =< all(W)
    <3>1. W \notin T
      <4> HIDE DEF T, W
      <4> QED BY <2>2, <2>6
    <3> QED BY <2>6, <3>1
  <2>8. all(U) = all(W) + all({p})
    <3> DEFINE u == LeftAt(b, s, U, S)
               v == LeftAt(b, s, W, S)
               w == LeftAt(b, s, {p}, S)
    <3>1. ASSUME NEW i \in S PROVE u[i] = v[i] + w[i]
      <4>1. v[i] \in Int /\ w[i] \in Int
        BY LeftAtType
      <4>2. CASE i \in Resting(b) /\ b.order_map[i].side = s /\ b.order_map[i].price = p
        <5>1. u[i] = w[i] /\ v[i] = 0
          BY <2>5, <4>2 DEF LeftAt
        <5> HIDE DEF u, v, w
        <5> QED BY <4>1, <5>1
      <4>3. CASE ~(i \in Resting(b) /\ b.order_map[i].side = s /\ b.order_map[i].price = p)
        <5>1. u[i] = v[i] /\ w[i] = 0
          BY <4>3 DEF LeftAt
        <5> HIDE DEF u, v, w
        <5> QED BY <4>1, <5>1
      <4> QED BY <4>2, <4>3
    <3>2. \A i \in S : v[i] \in Int
      BY LeftAtType
    <3>3. \A i \in S : w[i] \in Int
      BY LeftAtType
    <3>4. Adds(u, v, w, S)
      BY <3>1 DEF Adds
    <3> HIDE DEF u, v, w
    <3>5. SumFunctionOnSet(u, S) = SumFunctionOnSet(v, S) + SumFunctionOnSet(w, S)
      BY <3>2, <3>3, <3>4, SumAdds
    <3> QED BY <3>5 DEF AllAt, u, v, w
  <2>9. all(W) \in Int /\ all({p}) \in Int /\ all({p}) >= 0
    BY LeftAtType
  <2>10. TotalAt(b, s, p) \in Nat /\ TotalAt(b, s, p) =< all({p})
    BY <2>6, LevelLeft
  <2>11. f[W] \in Nat
    BY <2>6 DEF Counted
  <2> HIDE DEF W, T
  <2>12. Wrap(f[W] + TotalAt(b, s, p)) =< f[W] + TotalAt(b, s, p)
    BY <2>10, <2>11, RemainderNotMore, QuantityModulusAssumption DEF Wrap
  <2>13. Wrap(f[W] + TotalAt(b, s, p)) \in Nat
    BY <2>10, <2>11, RemainderNotMore, QuantityModulusAssumption DEF Wrap
  <2>14. ~(f[U] =< all(U)) /\ (f[U] = f[W] \/ f[U] = Wrap(f[W] + TotalAt(b, s, p)))
    BY <2>3, <2>5 DEF W
  <2> HIDE DEF all
  <2> QED BY <2>7, <2>8, <2>9, <2>10, <2>11, <2>12, <2>13, <2>14
<1>2. f[E] \in Nat
  BY DEF Counted
<1> QED BY <1>1, <1>2

\* The prices at which order o may trade, and what it is offered there.
Permitted(o) == {p \in Int : ~Beyond(o, p)}
Offered(b, o, S) == AllAt(b, Opposite(o.side), Permitted(o), S)

\* What available_quantity finds is there, though its sum wraps and leaves out
\* what is hidden.
LEMMA AvailableOffered ==
  ASSUME NEW b, BookType(b), Indexed(b), Live(b), Totalled(b),
         NEW S, IsFiniteSet(S), Resting(b) \subseteq S, NEW o \in Order
  PROVE  AvailableQuantity(b, o) \in Nat /\ AvailableQuantity(b, o) =< Offered(b, o, S)
<1> DEFINE s == Opposite(o.side)
           E == InLimit(b, o)
<1>1. s \in Side
  BY OrderFields DEF Opposite, Side
<1>2. IsFiniteSet(Resting(b))
  BY FS_Subset
<1>3. E \subseteq Prices(b, s)
  BY DEF InLimit
<1>4. IsFiniteSet(E)
  <2>1. IsFiniteSet(Prices(b, s))
    <3> HIDE DEF s
    <3> QED BY <1>1, <1>2, PricesFinite
  <2> HIDE DEF E, s
  <2> QED BY <1>3, <2>1, FS_Subset
<1>5. PICK f : Counted(f, E, b, s) /\ AvailableQuantity(b, o) = f[E]
  BY <1>2, AvailableCounts
<1>6. f[E] \in Nat /\ f[E] =< AllAt(b, s, E, S)
  <2> HIDE DEF E, s
  <2> QED BY <1>1, <1>3, <1>4, <1>5, CountedLeft
<1>7. AllAt(b, s, E, S) = AllAt(b, s, Permitted(o), S)
  <2> DEFINE v == LeftAt(b, s, E, S)
             w == LeftAt(b, s, Permitted(o), S)
  <2>1. ASSUME NEW i \in Resting(b), b.order_map[i].side = s
        PROVE  b.order_map[i].price \in E <=> b.order_map[i].price \in Permitted(o)
    <3>1. b.order_map[i].price \in Prices(b, s) /\ b.order_map[i].price \in Int
      BY <2>1, IndexedOrder, OrderFields
    <3> QED BY <3>1 DEF InLimit, Permitted
  <2>2. v = w
    <3> HIDE DEF E, s
    <3> QED BY <2>1 DEF LeftAt
  <2> QED BY <2>2 DEF AllAt
<1> QED BY <1>5, <1>6, <1>7 DEF Offered

\* A fill of an order that is offered takes as much off the offer.
LEMMA OfferFalls ==
  ASSUME NEW b, BookType(b), Indexed(b), Live(b),
         NEW S, IsFiniteSet(S), Resting(b) \subseteq S,
         NEW i \in Resting(b), NEW qty \in Nat, qty =< Remaining(b.order_map[i]),
         NEW s, NEW P, b.order_map[i].side = s, b.order_map[i].price \in P
  PROVE  AllAt(FillMaker(b, i, qty), s, P, S) = AllAt(b, s, P, S) - qty
<1> DEFINE c == FillMaker(b, i, qty)
           before == b.order_map[i]
           after == c.order_map[i]
           w == LeftAt(b, s, P, S)
           v == LeftAt(c, s, P, S)
<1>1. /\ BookType(c) /\ Live(c)
      /\ Resting(c) \subseteq Resting(b)
      /\ \A j \in Resting(b) : j # i => j \in Resting(c) /\ c.order_map[j] = b.order_map[j]
      /\ i \in Resting(c) =>
           /\ after.side = before.side /\ after.price = before.price
           /\ Remaining(after) + after.hidden_quantity =
                Remaining(before) + before.hidden_quantity - qty
      /\ i \notin Resting(c) => qty = Remaining(before) + before.hidden_quantity
  BY FillMakerKeeps
<1>2. i \in S
  OBVIOUS
<1> HIDE DEF c
<1>3. w[i] = Remaining(before) + before.hidden_quantity
  BY <1>2 DEF LeftAt
<1>4. /\ \A j \in S : w[j] \in Int
      /\ \A j \in S : v[j] \in Int
  BY <1>1, LeftAtType
<1>5. v[i] = w[i] - qty
  <2>1. CASE i \in Resting(c)
    <3>1. v[i] = Remaining(after) + after.hidden_quantity
      BY <1>1, <1>2, <2>1 DEF LeftAt
    <3>2. Remaining(after) + after.hidden_quantity =
            Remaining(before) + before.hidden_quantity - qty
      BY <1>1, <2>1
    <3>3. /\ Remaining(before) \in Int /\ before.hidden_quantity \in Nat
          /\ Remaining(after) \in Int /\ after.hidden_quantity \in Nat
      BY <1>1, <2>1, OrderFields DEF BookType
    <3> HIDE DEF v, w, before, after
    <3>4. v[i] = Remaining(before) + before.hidden_quantity - qty
      BY <3>1, <3>2
    <3> QED BY <1>3, <3>3, <3>4
  <2>2. CASE i \notin Resting(c)
    <3>1. v[i] = 0
      BY <1>2, <2>2 DEF LeftAt
    <3>2. w[i] \in Int /\ w[i] = qty
      BY <1>1, <1>2, <1>3, <1>4, <2>2
    <3> HIDE DEF v, w
    <3> QED BY <3>1, <3>2
  <2> QED BY <2>1, <2>2
<1>6. ChangedAt(v, w, S, i)
  <2> SUFFICES ASSUME NEW j \in S, j # i PROVE v[j] = w[j]
    BY DEF ChangedAt
  <2>1. j \in Resting(b) <=> j \in Resting(c)
    BY <1>1
  <2>2. j \in Resting(b) => c.order_map[j] = b.order_map[j]
    BY <1>1
  <2> QED BY <2>1, <2>2 DEF LeftAt
<1>7. /\ SumFunctionOnSet(v, S) = SumFunctionOnSet(w, S) - w[i] + v[i]
      /\ SumFunctionOnSet(w, S) \in Int
  <2> HIDE DEF v, w
  <2> QED BY <1>2, <1>4, <1>6, SumChange, SumType
<1>8. SumFunctionOnSet(v, S) = SumFunctionOnSet(w, S) - qty
  <2>1. w[i] \in Int
    BY <1>2, <1>4
  <2> HIDE DEF v, w
  <2> QED BY <1>5, <1>7, <2>1
<1> QED BY <1>8 DEF AllAt, c

\* Where the best price is beyond the limit, or there is none, nothing is offered.
LEMMA NothingOffered ==
  ASSUME NEW b, BookType(b), Indexed(b), Live(b),
         NEW S, IsFiniteSet(S), Resting(b) \subseteq S, NEW o \in Order,
         \/ Prices(b, Opposite(o.side)) = {}
         \/ \E p \in BestPrices(b, Opposite(o.side)) : Beyond(o, p)
  PROVE  Offered(b, o, S) =< 0
<1> DEFINE s == Opposite(o.side)
           w == LeftAt(b, s, Permitted(o), S)
<1>1. s \in Side /\ o.side \in Side /\ o.price \in Int
  BY OrderFields DEF Opposite, Side
<1>2. \A q \in Prices(b, s) : q \in Int
  BY <1>1 DEF BookType, Price
<1>3. ASSUME NEW q \in Prices(b, s) PROVE Beyond(o, q)
  <2>1. PICK p \in BestPrices(b, s) : Beyond(o, p)
    BY <1>3
  <2>2. p \in Int /\ q \in Int /\ (q = p \/ Better(s, p, q))
    BY <1>2, <2>1 DEF BestPrices
  <2> QED BY <1>1, <2>1, <2>2 DEF Beyond, Better, Opposite, Side
<1>4. ASSUME NEW i \in S PROVE w[i] = 0
  <2>1. ~(i \in Resting(b) /\ b.order_map[i].side = s /\ b.order_map[i].price \in Permitted(o))
    <3> SUFFICES ASSUME i \in Resting(b), b.order_map[i].side = s
                 PROVE  b.order_map[i].price \notin Permitted(o)
      OBVIOUS
    <3>1. b.order_map[i].price \in Prices(b, s)
      BY IndexedOrder
    <3>2. Beyond(o, b.order_map[i].price)
      BY <1>3, <3>1
    <3> QED BY <3>2 DEF Permitted
  <2> QED BY <2>1 DEF LeftAt
<1>5. SumFunctionOnSet(w, S) = 0
  <2>1. \A i \in S : w[i] = 0
    BY <1>4
  <2> HIDE DEF w
  <2> QED BY <2>1, SumOfZeros
<1>6. Offered(b, o, S) = 0
  BY <1>5 DEF Offered, AllAt
<1> QED BY <1>6

\* Order i was submitted as a fill-or-kill limit order.
KillOrdered(i) == submitted[i].type = "Limit" /\ submitted[i].tif = "FOK"

FillsOrDies(o) == o.type = "Limit" /\ o.tif = "FOK"

\* It never rests, and is matched as what it was submitted as.
NoneRests == \A i \in Resting(book) : ~KillOrdered(i)
TakerKills == taker # NoOrder => (KillOrdered(taker.id) => FillsOrDies(taker))

\* While it is matched it is offered, within its limit, all that it still needs.
Promised ==
  taker # NoOrder /\ FillsOrDies(taker) =>
    /\ Remaining(taker) =< Offered(book, taker, DOMAIN submitted)
    /\ \A k \in mark + 1 .. Len(fills) : ~Beyond(taker, fills[k].price)

\* Otherwise it has traded all or nothing.
Settled ==
  \A i \in DOMAIN submitted :
    KillOrdered(i) /\ ~IsTaker(i) => traded[i] \in {0, submitted[i].quantity}

KillInv ==
  IsFiniteSet(DOMAIN submitted) /\ NoneRests /\ TakerKills /\ Promised /\ Settled

\* A call leaves what was settled as it was.
LEMMA CallKeepsSettled ==
  ASSUME EngineInv, KillInv, NEW i \in Fresh, NEW r \in Requests, Call(i, r),
         Resting(book') \subseteq Resting(book) \cup {i},
         i \in Resting(book') => r.type # "Limit"
  PROVE  IsFiniteSet(DOMAIN submitted') /\ NoneRests' /\ Settled' /\ Resting(book) \subseteq DOMAIN submitted'
<1>1. /\ DOMAIN submitted' = DOMAIN submitted \cup {i} /\ submitted'[i] = r
      /\ \A j \in DOMAIN submitted : submitted'[j] = submitted[j]
      /\ traded'[i] = 0 /\ \A j \in DOMAIN submitted : traded'[j] = traded[j]
      /\ taker = NoOrder
  BY CallKeeps
<1>2. Resting(book) \subseteq DOMAIN submitted
  BY DEF EngineInv, TypeOK
<1>3. IsFiniteSet(DOMAIN submitted')
  BY <1>1, FS_AddElement DEF KillInv
<1>4. NoneRests'
  BY <1>1, <1>2 DEF KillInv, NoneRests, KillOrdered
<1>5. Settled'
  BY <1>1 DEF KillInv, Settled, KillOrdered, IsTaker
<1> QED BY <1>1, <1>2, <1>3, <1>4, <1>5

\* A fill-or-kill order is matched only when all of it is offered.
LEMMA SubmitMatchedKill ==
  ASSUME EngineInv, KillInv, Totalled(book), NEW i \in Fresh, NEW r \in Requests,
         SubmitLimit(i, r) \/ SubmitMarket(i, r)
  PROVE  KillInv'
<1> DEFINE o == NewOrder(i, r)
<1>1. /\ Call(i, r) /\ book' = book
      /\ taker' = taker \/ (taker' = o /\ mark' = Len(fills) /\ fills' = fills)
      /\ taker' = o /\ taker' # taker /\ o.type = "Limit" /\ o.tif = "FOK"
           => ~(AvailableQuantity(book, o) < o.quantity)
  <2>1. CASE SubmitMarket(i, r)
    <3>1. o.type = r.type
      BY DEF NewOrder
    <3> HIDE DEF o
    <3> QED BY <2>1, <3>1 DEF SubmitMarket, BeginMatch, engine, o
  <2>2. CASE SubmitLimit(i, r)
    <3> HIDE DEF o
    <3> QED BY <2>2 DEF SubmitLimit, BeginMatch, engine, call, o
  <2> QED BY <2>1, <2>2
<1>2. /\ i \in OrderId /\ r \in Request /\ submitted'[i] = r /\ taker = NoOrder
      /\ i \notin Resting(book)
  BY <1>1, CallKeeps
<1>3. /\ o \in Order /\ o.id = i /\ o.type = r.type /\ o.tif = r.tif
      /\ o.filled_quantity = 0 /\ o.quantity \in Nat
  BY <1>2, NewOrderShape, OrderFields
<1> HIDE DEF o
<1>4. IsFiniteSet(DOMAIN submitted') /\ NoneRests' /\ Settled' /\ Resting(book) \subseteq DOMAIN submitted'
  BY <1>1, <1>2, CallKeepsSettled
<1>5. TakerKills'
  BY <1>1, <1>2, <1>3 DEF TakerKills, KillOrdered, FillsOrDies
<1>6. Promised'
  <2> SUFFICES ASSUME taker' # NoOrder, FillsOrDies(taker')
               PROVE  /\ Remaining(taker') =< Offered(book', taker', DOMAIN submitted')
                      /\ \A k \in mark' + 1 .. Len(fills') : ~Beyond(taker', fills'[k].price)
    BY DEF Promised
  <2>1. taker' = o /\ mark' = Len(fills) /\ fills' = fills /\ o.type = "Limit" /\ o.tif = "FOK"
    BY <1>1, <1>2 DEF FillsOrDies
  <2>2. ~(AvailableQuantity(book, o) < o.quantity)
    BY <1>1, <1>2, <2>1
  <2> DEFINE S == DOMAIN submitted'
  <2>3. BookType(book) /\ Indexed(book) /\ Live(book) /\ Totalled(book)
    BY DEF EngineInv, TypeOK, BookIndexed, RestingKnown
  <2>4. IsFiniteSet(S) /\ Resting(book) \subseteq S
    BY <1>4
  <2>5. /\ AvailableQuantity(book, o) \in Nat
        /\ AvailableQuantity(book, o) =< Offered(book, o, S)
    <3> HIDE DEF S
    <3> QED BY <1>3, <2>3, <2>4, AvailableOffered
  <2>6. Offered(book, o, S) \in Int
    <3> HIDE DEF S
    <3> QED BY <2>3, <2>4, LeftAtType DEF Offered
  <2>7. Remaining(o) =< Offered(book, o, S)
    <3> HIDE DEF S
    <3> QED BY <1>3, <2>2, <2>5, <2>6 DEF Remaining
  <2>8. ~ \E k \in mark' + 1 .. Len(fills') : TRUE
    <3>1. Len(fills) \in Nat
      BY DEF EngineInv, TypeOK
    <3> QED BY <2>1, <3>1
  <2> QED BY <1>1, <2>1, <2>7, <2>8
<1> QED BY <1>4, <1>5, <1>6 DEF KillInv

\* While nothing is matched, only orders that are not limit orders join the book.
LEMMA IdleKill ==
  ASSUME KillInv, UNCHANGED <<submitted, traded>>, taker = NoOrder, taker' = NoOrder,
         \A j \in Resting(book') : j \in Resting(book) \/ submitted[j].type # "Limit"
  PROVE  KillInv'
BY DEF KillInv, NoneRests, TakerKills, Promised, Settled, KillOrdered, IsTaker

\* Steps that leave the book, the history and the match as they are.
LEMMA QuietStepKill ==
  ASSUME KillInv, UNCHANGED <<book, submitted, traded, taker>>,
         taker # NoOrder => UNCHANGED <<mark, fills>>
  PROVE  KillInv'
BY DEF KillInv, NoneRests, TakerKills, Promised, Settled, KillOrdered, IsTaker

\* Stops and pegged orders are not fill-or-kill limit orders.
LEMMA SubmitDormantKill ==
  ASSUME EngineInv, KillInv, NEW i \in Fresh, NEW r \in Requests,
         SubmitStop(i, r) \/ SubmitPegged(i, r)
  PROVE  KillInv'
<1> DEFINE o == NewOrder(i, r)
<1>1. Call(i, r) /\ taker' = taker /\ r.type # "Limit"
  BY DEF SubmitStop, SubmitPegged, call
<1>2. i \in OrderId /\ r \in Request /\ taker = NoOrder
  BY <1>1, CallKeeps
<1>3. Resting(book') \subseteq Resting(book) \cup {i}
  <2>1. /\ o \in Order /\ o.id = i /\ o.filled_quantity = 0
        /\ o.quantity > 0 /\ o.hidden_quantity = 0
    BY <1>2, NewOrderShape
  <2>2. \/ book' = book
        \/ \E p \in PegPrices(book, o) : book' = BookAdd(book, PegAsLimit(o, p))
    BY DEF SubmitStop, SubmitPegged
  <2>3. BookType(book)
    BY DEF EngineInv, TypeOK
  <2> HIDE DEF o
  <2>4. ASSUME NEW p \in PegPrices(book, o)
        PROVE  Resting(BookAdd(book, PegAsLimit(o, p))) = Resting(book) \cup {i}
    <3> DEFINE x == PegAsLimit(o, p)
    <3>1. x \in Order /\ x.id = i /\ x.type = "Limit"
      BY <2>1, <2>3, PegPricesType, PegAsLimitShape DEF Tradable
    <3> HIDE DEF x
    <3>2. Resting(BookAdd(book, x)) = Resting(book) \cup {i}
      BY <2>3, <3>1, AddShape
    <3> QED BY <3>2 DEF x
  <2> QED BY <2>2, <2>4
<1>4. IsFiniteSet(DOMAIN submitted') /\ NoneRests' /\ Settled'
  BY <1>1, <1>3, CallKeepsSettled
<1>5. TakerKills' /\ Promised'
  BY <1>1, <1>2 DEF TakerKills, Promised
<1> QED BY <1>4, <1>5 DEF KillInv

\* When the match is over, a fill-or-kill order has nothing left to trade.
LEMMA MatchOverKill ==
  ASSUME EngineInv, KillInv, MatchOver
  PROVE  FillsOrDies(taker) => Remaining(taker) = 0
<1> SUFFICES ASSUME FillsOrDies(taker) PROVE Remaining(taker) = 0
  OBVIOUS
<1> DEFINE S == DOMAIN submitted
<1>1. /\ taker # NoOrder /\ taker \in Order
      /\ taker.filled_quantity =< taker.quantity
  BY DEF MatchOver, EngineInv, TypeOK, TakerKnown
<1>2. Remaining(taker) \in Int /\ Remaining(taker) >= 0
  BY <1>1, OrderFields DEF Remaining
<1>3. BookType(book) /\ Indexed(book) /\ Live(book)
  BY DEF EngineInv, TypeOK, BookIndexed, RestingKnown
<1>4. IsFiniteSet(S) /\ Resting(book) \subseteq S
  BY DEF KillInv, EngineInv, TypeOK
<1>5. Remaining(taker) =< Offered(book, taker, S)
  BY <1>1 DEF KillInv, Promised
<1> HIDE DEF S
<1>6. Offered(book, taker, S) \in Int
  BY <1>3, <1>4, LeftAtType DEF Offered
<1>7. CASE Remaining(taker) # 0
  <2>1. \/ Prices(book, Opposite(taker.side)) = {}
        \/ \E p \in BestPrices(book, Opposite(taker.side)) : Beyond(taker, p)
    BY <1>7 DEF MatchOver
  <2>2. Offered(book, taker, S) =< 0
    BY <1>1, <1>3, <1>4, <2>1, NothingOffered
  <2> QED BY <1>2, <1>5, <1>6, <2>2
<1> QED BY <1>7

\* So it is settled when its match ends, and what rests is good till cancelled.
LEMMA EndMatchKill ==
  ASSUME EngineInv, KillInv, Accounts, EndMatch \/ EndStopMatch
  PROVE  KillInv'
<1>1. /\ MatchOver /\ UNCHANGED <<submitted, traded>> /\ taker' = NoOrder
      /\ book' = book \/ book' = Rest(taker)
      /\ taker # NoOrder /\ taker \in Order
  BY DEF EndMatch, EndStopMatch, MatchOver, StartScan, Return, history, EngineInv, TypeOK
<1>2. /\ traded[taker.id] = taker.filled_quantity
      /\ taker.quantity = submitted[taker.id].quantity
  BY <1>1 DEF Accounts, TakerAccounts
<1>3. KillOrdered(taker.id) => FillsOrDies(taker)
  BY <1>1 DEF KillInv, TakerKills
<1>4. FillsOrDies(taker) => traded[taker.id] = submitted[taker.id].quantity
  <2>1. FillsOrDies(taker) => Remaining(taker) = 0
    BY <1>1, MatchOverKill
  <2>2. taker.quantity \in Nat /\ taker.filled_quantity \in Nat
    BY <1>1, OrderFields
  <2> QED BY <1>2, <2>1, <2>2 DEF Remaining
<1>5. \A j \in Resting(book') : j \in Resting(book) \/ (j = taker.id /\ ~FillsOrDies(taker))
  <2>1. CASE book' = book
    BY <2>1
  <2>2. CASE book' # book
    <3>1. book' = Rest(taker)
      BY <1>1, <2>2
    <3>2. Resting(book') = Resting(book) \cup {taker.id}
      BY <1>1, <2>2, <3>1, RestKeeps
    <3>3. taker.tif = "GTC"
      BY <2>2, <3>1 DEF Rest
    <3> QED BY <3>2, <3>3 DEF FillsOrDies
  <2> QED BY <2>1, <2>2
<1>6. NoneRests'
  BY <1>1, <1>3, <1>5 DEF KillInv, NoneRests, KillOrdered
<1>7. Settled'
  BY <1>1, <1>3, <1>4 DEF KillInv, Settled, KillOrdered, IsTaker
<1>8. TakerKills' /\ Promised' /\ IsFiniteSet(DOMAIN submitted')
  BY <1>1 DEF KillInv, TakerKills, Promised
<1> QED BY <1>6, <1>7, <1>8 DEF KillInv

\* A stop that fires is matched as a market order, which no limit binds.
LEMMA TriggerStopKill ==
  ASSUME EngineInv, KillInv, TriggerStop
  PROVE  KillInv'
<1>1. /\ taker = NoOrder /\ taker' = TriggeredMarket(stop_orders[it])
      /\ UNCHANGED <<book, submitted, traded>>
      /\ it \in DOMAIN stop_orders /\ stop_orders[it] \in Order
  BY DEF TriggerStop, BeginMatch, history, EngineInv, TypeOK
<1>2. taker'.id = stop_orders[it].id /\ taker'.type = "Market"
  BY <1>1, TriggeredMarketShape
<1>3. submitted[taker'.id].type # "Limit"
  BY <1>1, <1>2 DEF EngineInv, StopsKnown
<1>4. TakerKills' /\ Promised'
  BY <1>1, <1>2, <1>3 DEF TakerKills, Promised, KillOrdered, FillsOrDies
<1>5. IsFiniteSet(DOMAIN submitted') /\ NoneRests' /\ Settled'
  BY <1>1 DEF KillInv, NoneRests, Settled, KillOrdered, IsTaker
<1> QED BY <1>4, <1>5 DEF KillInv

\* A fill takes as much off what the order needs as off what it is offered, and
\* is made within its limit.
LEMMA FillFrontKill ==
  ASSUME EngineInv, KillInv, FillFront
  PROVE  KillInv'
<1>1. /\ Remaining(taker) > 0 /\ taker # NoOrder
      /\ UNCHANGED <<submitted, mark>>
  BY Zenon DEF FillFront, EngineInv, TypeOK
<1>2. PICK p \in BestPrices(book, Opposite(taker.side)) :
       LET queue == book.level[Opposite(taker.side)][p].queue
           maker == book.order_map[Head(queue)]
           qty == Least(Remaining(taker), Remaining(maker))
       IN  /\ queue # <<>>
           /\ book' = FillMaker(book, maker.id, qty)
           /\ taker' = [taker EXCEPT !.filled_quantity = @ + qty]
           /\ fills' = Append(fills, [maker |-> maker.id, taker |-> taker.id,
                                      price |-> maker.price, quantity |-> qty,
                                      aggressor_side |-> taker.side])
           /\ traded' = [traded EXCEPT ![maker.id] = @ + qty,
                                       ![taker.id] = @ + qty]
  BY Zenon DEF FillFront
<1> DEFINE maker == book.order_map[Head(book.level[Opposite(taker.side)][p].queue)]
           qty == Least(Remaining(taker), Remaining(maker))
<1>3. /\ taker \in Order /\ maker \in Order
      /\ maker.id \in Resting(book) /\ maker = book.order_map[maker.id]
      /\ maker.side = Opposite(taker.side) /\ maker.price = p
      /\ maker.id # taker.id
      /\ qty \in Nat /\ qty > 0
      /\ qty =< Remaining(maker) /\ qty =< Remaining(taker)
  BY Zenon, <1>1, <1>2, FrontShape
<1>4. /\ book' = FillMaker(book, maker.id, qty)
      /\ taker' = [taker EXCEPT !.filled_quantity = taker.filled_quantity + qty]
      /\ traded' = [traded EXCEPT ![maker.id] = @ + qty, ![taker.id] = @ + qty]
      /\ fills' = Append(fills, [maker |-> maker.id, taker |-> taker.id,
                                 price |-> maker.price, quantity |-> qty,
                                 aggressor_side |-> taker.side])
  BY Zenon, <1>2
<1> HIDE DEF maker, qty
<1> DEFINE i == maker.id
           S == DOMAIN submitted
<1>5. /\ BookType(book) /\ Indexed(book) /\ Live(book)
      /\ IsFiniteSet(S) /\ Resting(book) \subseteq S
  BY DEF EngineInv, TypeOK, BookIndexed, RestingKnown, KillInv
<1>6. i \in Resting(book) /\ qty =< Remaining(book.order_map[i])
  BY <1>3
<1>7. /\ taker' \in Order /\ taker' # NoOrder /\ taker'.id = taker.id
      /\ taker'.type = taker.type /\ taker'.tif = taker.tif
      /\ taker'.side = taker.side /\ taker'.price = taker.price
      /\ Remaining(taker') = Remaining(taker) - qty
  <2>1. taker.quantity \in Nat /\ taker.filled_quantity \in Nat
    BY <1>3, OrderFields
  <2>2. taker.filled_quantity + qty \in Quantity
    BY <1>3, QuantityModulusAssumption DEF Order, Quantity, Remaining
  <2>3. /\ taker' \in Order /\ taker'.id = taker.id
        /\ taker'.type = taker.type /\ taker'.tif = taker.tif
        /\ taker'.side = taker.side /\ taker'.price = taker.price
        /\ taker'.quantity = taker.quantity
        /\ taker'.filled_quantity = taker.filled_quantity + qty
    BY <1>3, <1>4, <2>2 DEF Order
  <2>4. Remaining(taker') = Remaining(taker) - qty
    BY <1>3, <2>1, <2>3 DEF Remaining
  <2> QED BY <2>3, <2>4, NoOrderAssumption
<1>8. Resting(book') \subseteq Resting(book)
  BY <1>3, <1>4, <1>5, <1>6, FillMakerKeeps
<1>9. NoneRests' /\ TakerKills' /\ IsFiniteSet(DOMAIN submitted')
  BY <1>1, <1>7, <1>8
  DEF KillInv, NoneRests, TakerKills, KillOrdered, FillsOrDies
<1>10. Settled'
  <2>1. ASSUME NEW j \in DOMAIN submitted, KillOrdered(j), j # taker.id
        PROVE  traded'[j] \in {0, submitted[j].quantity}
    <3>1. j # i
      BY <1>6, <2>1 DEF KillInv, NoneRests
    <3>2. traded'[j] = traded[j]
      <4>1. traded \in [DOMAIN submitted -> Nat]
        BY DEF EngineInv, TypeOK
      <4> QED BY <1>4, <2>1, <3>1, <4>1
    <3>3. traded[j] \in {0, submitted[j].quantity}
      BY <2>1 DEF KillInv, Settled, IsTaker
    <3> QED BY <3>2, <3>3
  <2> QED BY <1>1, <1>7, <2>1 DEF Settled, KillOrdered, IsTaker
<1>11. ASSUME FillsOrDies(taker)
       PROVE  /\ Remaining(taker') =< Offered(book', taker', S)
              /\ \A k \in mark + 1 .. Len(fills') : ~Beyond(taker', fills'[k].price)
  <2>1. /\ Remaining(taker) =< Offered(book, taker, S)
        /\ \A k \in mark + 1 .. Len(fills) : ~Beyond(taker, fills[k].price)
    BY <1>1, <1>11 DEF KillInv, Promised
  <2>2. Offered(book, taker, S) \in Int
    <3> HIDE DEF S
    <3> QED BY <1>5, LeftAtType DEF Offered
  <2>3. Remaining(taker) \in Int
    BY <1>3, OrderFields
  <2>4. ~Beyond(taker, p)
    <3> SUFFICES ASSUME Beyond(taker, p) PROVE FALSE
      OBVIOUS
    <3>1. Offered(book, taker, S) =< 0
      <4> HIDE DEF S
      <4> QED BY <1>3, <1>5, NothingOffered
    <3> QED BY <1>1, <2>1, <2>2, <2>3, <3>1
  <2>5. p \in Permitted(taker)
    <3>1. p \in Int
      BY <1>3, OrderFields
    <3> QED BY <2>4, <3>1 DEF Permitted
  <2>6. Permitted(taker') = Permitted(taker) /\ \A x : Beyond(taker', x) <=> Beyond(taker, x)
    BY <1>7 DEF Permitted, Beyond
  <2>7. Offered(book', taker', S) = Offered(book, taker, S) - qty
    <3> DEFINE s == Opposite(taker.side)
               P == Permitted(taker)
    <3>1. book.order_map[i].side = s /\ book.order_map[i].price \in P
      BY <1>3, <2>5
    <3>2. AllAt(FillMaker(book, i, qty), s, P, S) = AllAt(book, s, P, S) - qty
      <4> HIDE DEF S, s, P, i
      <4>1. qty \in Nat
        BY <1>3
      <4> QED BY <1>5, <1>6, <3>1, <4>1, OfferFalls
    <3> QED BY <1>4, <1>7, <2>6, <3>2 DEF Offered
  <2>8. Remaining(taker') =< Offered(book', taker', S)
    BY <1>3, <1>7, <2>1, <2>2, <2>3, <2>7
  <2>9. ASSUME NEW k \in mark + 1 .. Len(fills') PROVE ~Beyond(taker', fills'[k].price)
    <3>1. fills \in Seq(Fill) /\ mark \in 0 .. Len(fills)
      BY DEF EngineInv, TypeOK
    <3>2. Len(fills') = Len(fills) + 1
      BY <1>4, <3>1
    <3>3. CASE k = Len(fills) + 1
      <4>1. fills'[k].price = p
        BY <1>3, <1>4, <3>1, <3>3
      <4> QED BY <2>4, <2>6, <4>1
    <3>4. CASE k # Len(fills) + 1
      <4>1. k \in mark + 1 .. Len(fills) /\ k \in 1 .. Len(fills)
        BY <3>1, <3>2, <3>4
      <4>2. fills'[k] = fills[k]
        BY <1>4, <3>1, <4>1
      <4> QED BY <2>1, <2>6, <4>1, <4>2
    <3> QED BY <3>3, <3>4
  <2> QED BY <2>8, <2>9
<1>12. Promised'
  BY <1>1, <1>7, <1>11 DEF Promised, FillsOrDies
<1> QED BY <1>9, <1>10, <1>12 DEF KillInv

\* Every step of the engine keeps KillInv.
LEMMA StepKeepsKill ==
  ASSUME EngineInv, Accounts, Totalled(book), KillInv, [Next]_vars
  PROVE  KillInv'
<1>1. CASE UNCHANGED vars \/ EnterLevel \/ LeaveLevel \/ SkipStop \/ EndScan \/ EndReprice
  <2>1. /\ UNCHANGED <<book, submitted, traded, taker>>
        /\ taker # NoOrder => UNCHANGED <<mark, fills>>
    <3>1. pc = "pegs" => taker = NoOrder
      BY DEF EngineInv, TypeOK
    <3> QED BY <1>1, <3>1
            DEF vars, engine, call, history, EnterLevel, LeaveLevel, SkipStop,
                EndScan, EndReprice, Return
  <2> QED BY <2>1, QuietStepKill
<1>2. ASSUME NEW i \in Fresh, NEW r \in Requests, Submit(i, r)
      PROVE  KillInv'
  BY <1>2, SubmitMatchedKill, SubmitDormantKill DEF Submit
<1>3. ASSUME NEW i \in OrderId, Cancel(i)
      PROVE  KillInv'
  <2>1. /\ UNCHANGED <<submitted, traded>> /\ taker = NoOrder /\ taker' = NoOrder
        /\ book' = BookCancel(book, i)
    BY <1>3 DEF Cancel, call, EngineInv, TypeOK
  <2>2. Resting(book') \subseteq Resting(book)
    BY <2>1, CancelKeeps DEF EngineInv, TypeOK, BookIndexed
  <2> QED BY <2>1, <2>2, IdleKill
<1>4. CASE FillFront
  BY <1>4, FillFrontKill
<1>5. CASE EndMatch \/ EndStopMatch
  BY <1>5, EndMatchKill
<1>6. CASE TriggerStop
  BY <1>6, TriggerStopKill
<1>7. CASE Reprice
  <2> DEFINE o == pegged_orders[it]
             without == BookCancel(book, o.id)
  <2>1. /\ UNCHANGED <<submitted, traded>> /\ taker = NoOrder /\ taker' = NoOrder
        /\ it \in DOMAIN pegged_orders
        /\ \/ book' = without
           \/ \E p \in PegPrices(without, o) :
                book' = BookAdd(without, PegAsLimit(o, p))
    BY <1>7 DEF Reprice, history, EngineInv, TypeOK
  <2>2. /\ o \in Order /\ o.filled_quantity = 0 /\ o.quantity > 0
        /\ o.hidden_quantity = 0 /\ submitted[o.id].type = "Pegged"
    BY <2>1 DEF EngineInv, TypeOK, PegsKnown
  <2>3. BookType(without) /\ Resting(without) \subseteq Resting(book)
    BY CancelKeeps DEF EngineInv, TypeOK, BookIndexed
  <2> HIDE DEF without, o
  <2>4. ASSUME NEW p \in PegPrices(without, o)
        PROVE  Resting(BookAdd(without, PegAsLimit(o, p))) = Resting(without) \cup {o.id}
    <3> DEFINE x == PegAsLimit(o, p)
    <3>1. x \in Order /\ x.id = o.id /\ x.type = "Limit"
      BY <2>2, <2>3, PegPricesType, PegAsLimitShape DEF Tradable
    <3> HIDE DEF x
    <3>2. Resting(BookAdd(without, x)) = Resting(without) \cup {o.id}
      BY <2>3, <3>1, AddShape
    <3> QED BY <3>2 DEF x
  <2>5. \A j \in Resting(book') : j \in Resting(book) \/ submitted[j].type # "Limit"
    BY <2>1, <2>2, <2>3, <2>4
  <2> QED BY <2>1, <2>5, IdleKill
<1> QED
  BY <1>1, <1>2, <1>3, <1>4, <1>5, <1>6, <1>7 DEF Next, CallStep

\* A fill-or-kill limit order trades all or nothing, and within its limit,
\* although the check before the match reads totals that wrap and leave out
\* what is hidden (matching_engine.cpp:90-95).
THEOREM FillsOrKills == Spec => []FillOrKill
<1>1. Init => KillInv /\ Totalled(book)
  <2>1. Init => KillInv
    BY FS_EmptySet
    DEF Init, KillInv, NoneRests, TakerKills, Promised, Settled, Resting, EmptyBook
  <2> QED BY <2>1 DEF Init, Totalled, Prices, EmptyBook
<1>2. EngineInv /\ Totalled(book) /\ [Next]_vars => Totalled(book)'
  BY StepKeepsTotals
<1>3. EngineInv /\ Accounts /\ Totalled(book) /\ KillInv /\ [Next]_vars => KillInv'
  BY StepKeepsKill
<1>4. EngineInv /\ KillInv => FillOrKill
  <2> SUFFICES ASSUME EngineInv, KillInv PROVE FillOrKill
    OBVIOUS
  <2>1. \A i \in DOMAIN submitted :
          submitted[i].type = "Limit" /\ submitted[i].tif = "FOK" /\ ~IsTaker(i)
            => traded[i] \in {0, submitted[i].quantity}
    BY DEF KillInv, Settled, KillOrdered
  <2>2. taker # NoOrder /\ taker.tif = "FOK"
          => \A k \in mark + 1 .. Len(fills) : ~Beyond(taker, fills[k].price)
    BY DEF KillInv, Promised, FillsOrDies, Beyond
  <2> QED BY <2>1, <2>2 DEF FillOrKill
<1> QED
  BY <1>1, <1>2, <1>3, <1>4, EngineInvariant, AccountsInvariant, PTL DEF Spec

-----------------------------------------------------------------------------
(* The refinement of the ledger.                                             *)

\* With pegged orders the refinement is false: a peg that has traded is put back
\* whole (matching_engine.cpp:306-311).
NoPegs == \A r \in Requests : r.type # "Pegged"

-----------------------------------------------------------------------------
(* What the mapping needs besides EngineInv and Accounts.                    *)

\* An order keeps the side it was submitted with wherever it is kept, and none
\* that came in is pegged.
SidesKnown ==
  /\ \A i \in DOMAIN submitted : submitted[i].type # "Pegged"
  /\ \A i \in Resting(book) : book.order_map[i].side = submitted[i].side
  /\ taker # NoOrder => taker.side = submitted[taker.id].side
  /\ \A k \in DOMAIN stop_orders :
       stop_orders[k].side = submitted[stop_orders[k].id].side

\* The engine starts with no order.
LEMMA InitSidesKnown == Init => SidesKnown
BY DEF Init, SidesKnown, Resting, EmptyBook

\* Without pegs the list of pegged orders is empty, and no step reprices one
\* (matching_engine.cpp:272-315).
LEMMA NothingToReprice ==
  ASSUME EngineInv, SidesKnown
  PROVE  ~Reprice
<1> SUFFICES ASSUME Reprice PROVE FALSE
  OBVIOUS
<1>1. it \in DOMAIN pegged_orders
  BY DEF Reprice, EngineInv, TypeOK
<1> QED BY <1>1 DEF EngineInv, PegsKnown, SidesKnown

\* What a fill changes: the maker is charged or leaves, the order being matched
\* is charged, and both by the same amount, which neither exceeds
\* (matching_engine.cpp:130-161).
LEMMA FillFrontShape ==
  ASSUME EngineInv, FillFront
  PROVE  \E i \in Resting(book), qty \in Nat :
           LET before == book.order_map[i]
               after == book'.order_map[i]
           IN  /\ taker # NoOrder /\ taker' # NoOrder
               /\ taker \in Order /\ taker' \in Order
               /\ taker'.id = taker.id /\ taker'.side = taker.side
               /\ Remaining(taker') = Remaining(taker) - qty
               /\ qty > 0 /\ qty =< Remaining(before) /\ qty =< Remaining(taker)
               /\ i # taker.id /\ before.side = Opposite(taker.side)
               /\ BookType(book')
               /\ Resting(book') \subseteq Resting(book)
               /\ \A j \in Resting(book) : j # i =>
                    j \in Resting(book') /\ book'.order_map[j] = book.order_map[j]
               /\ i \in Resting(book') =>
                    /\ after.side = before.side
                    /\ Remaining(after) + after.hidden_quantity
                         = Remaining(before) + before.hidden_quantity - qty
               /\ i \notin Resting(book') =>
                    qty = Remaining(before) + before.hidden_quantity
<1>1. Remaining(taker) > 0 /\ taker # NoOrder
  BY Zenon DEF FillFront, EngineInv, TypeOK
<1>2. PICK p \in BestPrices(book, Opposite(taker.side)) :
       LET queue == book.level[Opposite(taker.side)][p].queue
           maker == book.order_map[Head(queue)]
           qty == Least(Remaining(taker), Remaining(maker))
       IN  /\ queue # <<>>
           /\ book' = FillMaker(book, maker.id, qty)
           /\ taker' = [taker EXCEPT !.filled_quantity = @ + qty]
  BY Zenon DEF FillFront
<1> DEFINE maker == book.order_map[Head(book.level[Opposite(taker.side)][p].queue)]
           qty == Least(Remaining(taker), Remaining(maker))
<1>3. /\ taker \in Order /\ maker \in Order
      /\ maker.id \in Resting(book) /\ maker = book.order_map[maker.id]
      /\ maker.id # taker.id /\ maker.side = Opposite(taker.side)
      /\ qty \in Nat /\ qty > 0
      /\ qty =< Remaining(maker) /\ qty =< Remaining(taker)
  BY Zenon, <1>1, <1>2, FrontShape
<1>4. /\ book' = FillMaker(book, maker.id, qty)
      /\ taker' = [taker EXCEPT !.filled_quantity = taker.filled_quantity + qty]
  BY Zenon, <1>2
<1> HIDE DEF maker, qty
<1>5. BookType(book) /\ Indexed(book) /\ Live(book)
  BY DEF EngineInv, TypeOK, BookIndexed, RestingKnown
<1> DEFINE i == maker.id
           before == book.order_map[i]
           after == book'.order_map[i]
<1>6. /\ i \in Resting(book) /\ before = maker /\ qty =< Remaining(before)
  BY <1>3
<1>7. /\ BookType(book')
      /\ Resting(book') \subseteq Resting(book)
      /\ \A j \in Resting(book) : j # i =>
           j \in Resting(book') /\ book'.order_map[j] = book.order_map[j]
      /\ i \in Resting(book') =>
           /\ after.side = before.side
           /\ Remaining(after) + after.hidden_quantity
                = Remaining(before) + before.hidden_quantity - qty
      /\ i \notin Resting(book') =>
           qty = Remaining(before) + before.hidden_quantity
  <2>1. book' = FillMaker(book, i, qty) /\ qty \in Nat
    BY <1>3, <1>4
  <2> HIDE <1>3, <1>4 DEF i
  <2> QED BY <2>1, <1>5, <1>6, FillMakerKeeps
<1>8. /\ taker'.id = taker.id /\ taker'.side = taker.side
      /\ Remaining(taker') = Remaining(taker) - qty
  <2>1. taker.quantity \in Nat /\ taker.filled_quantity \in Nat
    BY <1>3, OrderFields
  <2> QED BY <2>1, <1>3, <1>4 DEF Order, Remaining
<1>9. taker' \in Order /\ taker' # NoOrder
  <2>1. taker.quantity \in 0 .. QuantityModulus - 1
        /\ taker.filled_quantity + qty \in Quantity
    BY <1>3, QuantityModulusAssumption DEF Order, Quantity, Remaining
  <2> QED BY <2>1, <1>3, <1>4, NoOrderAssumption DEF Order
<1> QED
  <2>1. i \in Resting(book) /\ qty \in Nat /\ i # taker.id
    BY <1>3
  <2>2. qty =< Remaining(before) /\ before.side = Opposite(taker.side)
    BY <1>3, <1>6
  <2> HIDE DEF i, before, after
  <2> QED BY <2>1, <2>2, <1>1, <1>3, <1>7, <1>8, <1>9 DEF before, after

\* Every step keeps the sides.
LEMMA StepKeepsSidesKnown ==
  ASSUME NoPegs, EngineInv, SidesKnown, [Next]_vars
  PROVE  SidesKnown'
<1>1. /\ Resting(book) \subseteq DOMAIN submitted
      /\ \A k \in DOMAIN stop_orders : stop_orders[k].id \in DOMAIN submitted
      /\ taker # NoOrder => taker \in Order /\ taker.id \in DOMAIN submitted
      /\ taker # NoOrder => taker.id \notin Resting(book)
  BY DEF EngineInv, TypeOK, StopsKnown, TakerKnown
<1>2. ASSUME NEW i \in Fresh, NEW r \in Requests, Submit(i, r)
      PROVE  SidesKnown'
  <2> DEFINE o == NewOrder(i, r)
  <2>1. Call(i, r) /\ r.type # "Pegged"
    BY <1>2
    DEF NoPegs, Submit, SubmitLimit, SubmitMarket, SubmitStop, SubmitPegged
  <2>2. /\ i \in OrderId /\ r \in Request /\ i \notin DOMAIN submitted
        /\ DOMAIN submitted' = DOMAIN submitted \cup {i}
        /\ submitted'[i] = r /\ taker = NoOrder
        /\ \A j \in DOMAIN submitted : submitted'[j] = submitted[j]
    BY <2>1, CallKeeps
  <2>3. o.id = i /\ o.side = r.side
    BY <2>2, NewOrderShape
  <2>4. /\ book' = book
        /\ taker' = NoOrder \/ taker' = o
        /\ stop_orders' = stop_orders \/ stop_orders' = Append(stop_orders, o)
    BY <1>2, <2>1, <2>2
    DEF Submit, SubmitLimit, SubmitMarket, SubmitStop, SubmitPegged, BeginMatch,
        engine, call
  <2> HIDE DEF o
  <2>5. \A k \in DOMAIN stop_orders' :
          stop_orders'[k].side = submitted'[stop_orders'[k].id].side
    <3>1. ASSUME NEW k \in DOMAIN stop_orders'
          PROVE  \/ k \in DOMAIN stop_orders /\ stop_orders'[k] = stop_orders[k]
                 \/ stop_orders'[k] = o
      <4>1. stop_orders \in Seq(Order)
        BY DEF EngineInv, TypeOK
      <4> QED BY <2>4, <4>1
    <3> QED BY <3>1, <1>1, <2>2, <2>3 DEF SidesKnown
  <2> QED BY <1>1, <2>1, <2>2, <2>3, <2>4, <2>5 DEF SidesKnown
<1>3. ASSUME NEW i \in OrderId, Cancel(i)
      PROVE  SidesKnown'
  <2>1. /\ Resting(book') = Resting(book) \ {i}
        /\ \A j \in Resting(book') : book'.order_map[j] = book.order_map[j]
    BY <1>3, CancelKeeps DEF Cancel, EngineInv, TypeOK, BookIndexed
  <2>2. UNCHANGED <<taker, stop_orders, submitted>>
    BY <1>3 DEF Cancel, call
  <2> QED BY <2>1, <2>2 DEF SidesKnown
<1>4. CASE FillFront
  <2>1. UNCHANGED <<stop_orders, submitted>>
    BY Zenon, <1>4 DEF FillFront
  <2> QED BY <1>1, <1>4, <2>1, FillFrontShape DEF SidesKnown
<1>5. CASE EndMatch
  <2>1. /\ book' = Rest(taker) /\ taker # NoOrder /\ taker' = NoOrder
        /\ UNCHANGED <<stop_orders, submitted>>
    BY <1>5 DEF EndMatch, MatchOver, StartScan, Return, history, EngineInv, TypeOK
  <2>2. \/ book' = book
        \/ /\ Resting(book') = Resting(book) \cup {taker.id}
           /\ book'.order_map[taker.id].side = taker.side
           /\ \A j \in Resting(book) : book'.order_map[j] = book.order_map[j]
    BY <2>1, RestKeeps
  <2> QED BY <2>1, <2>2 DEF SidesKnown
<1>6. CASE TriggerStop
  <2>1. /\ taker' = TriggeredMarket(stop_orders[it])
        /\ stop_orders' = RemoveAt(stop_orders, it)
        /\ UNCHANGED <<book, submitted>>
        /\ it \in DOMAIN stop_orders /\ stop_orders \in Seq(Order)
    BY <1>6 DEF TriggerStop, BeginMatch, history, EngineInv, TypeOK
  <2>2. \A k \in DOMAIN stop_orders' :
          \E m \in DOMAIN stop_orders : stop_orders'[k] = stop_orders[m]
    <3> DEFINE n == Len(stop_orders)
               stops == RemoveAt(stop_orders, it)
    <3>1. /\ stops \in Seq(Order) /\ Len(stops) = n - 1 /\ n \in Nat
          /\ \A k \in 1 .. n - 1 :
               stops[k] = IF k < it THEN stop_orders[k] ELSE stop_orders[k + 1]
      BY <2>1, RemoveAtShape
    <3> HIDE DEF stops
    <3>2. \A k \in DOMAIN stops :
            k \in DOMAIN stop_orders /\ k + 1 \in DOMAIN stop_orders
      BY <3>1, <2>1
    <3> QED BY <2>1, <3>1, <3>2 DEF stops
  <2>3. stop_orders[it] \in Order
    BY <2>1
  <2>4. /\ taker'.id = stop_orders[it].id
        /\ taker'.side = stop_orders[it].side
    BY <2>1, <2>3, TriggeredMarketShape
  <2> QED BY <2>1, <2>2, <2>4 DEF SidesKnown
<1>7. CASE \/ UNCHANGED vars
           \/ EnterLevel \/ LeaveLevel \/ SkipStop \/ EndStopMatch
           \/ EndScan \/ EndReprice
  <2>1. /\ UNCHANGED <<book, stop_orders, submitted>>
        /\ taker' = taker \/ taker' = NoOrder
    BY <1>7
    DEF vars, engine, call, history, EnterLevel, LeaveLevel, SkipStop,
        EndStopMatch, StartScan, EndScan, EndReprice, Return
  <2> QED BY <2>1 DEF SidesKnown
<1> QED
  BY <1>2, <1>3, <1>4, <1>5, <1>6, <1>7, NothingToReprice DEF Next, CallStep

-----------------------------------------------------------------------------
(* The mapping, action by action.                                            *)

\* What the mapping says an order has left, by the place the order is in.
LEMMA LeftByPlace ==
  ASSUME EngineInv, Accounts, NEW i \in DOMAIN submitted
  PROVE  /\ i \in Resting(book) =>
              Left(i) = Remaining(book.order_map[i])
                          + book.order_map[i].hidden_quantity
         /\ taker # NoOrder /\ i = taker.id => Left(i) = Remaining(taker)
         /\ Dormant(i) => Left(i) = submitted[i].quantity
<1>1. Dormant(i) => i \notin Resting(book) /\ ~IsTaker(i)
  BY DEF Dormant, EngineInv, RestingKnown, StopsKnown, Accounts, StopsApart, IsTaker
<1>2. taker # NoOrder => taker.id \notin Resting(book)
  BY DEF EngineInv, TakerKnown
<1> QED BY <1>1, <1>2 DEF Left, IsTaker

\* A step of the engine that changes nothing the ledger sees.
LEMMA LedgerStutters ==
  ASSUME submitted' = submitted, \A j \in DOMAIN submitted : Left(j)' = Left(j)
  PROVE  UNCHANGED Ledger!vars
BY DEF Ledger!vars

\* A step after which one order has nothing left.
LEMMA LedgerCloses ==
  ASSUME NEW i \in DOMAIN submitted, submitted' = submitted, Left(i)' = 0,
         \A j \in DOMAIN submitted : j # i => Left(j)' = Left(j)
  PROVE  Ledger!Next
<1>1. Ledger!Close(i)
  BY DEF Ledger!Close
<1> QED BY <1>1 DEF Ledger!Next, Ledger!Orders

\* Submit: the order comes in with all of its quantity, or with none when it is
\* fill-or-kill and refused (matching_engine.cpp:21-115).
LEMMA SubmitRefines ==
  ASSUME NoPegs, EngineInv, Accounts, NEW i \in Fresh, NEW r \in Requests,
         Submit(i, r)
  PROVE  Ledger!Next
<1> DEFINE o == NewOrder(i, r)
<1>1. Call(i, r) /\ r.type # "Pegged"
  BY DEF NoPegs, Submit, SubmitLimit, SubmitMarket, SubmitStop, SubmitPegged
<1>2. /\ i \in OrderId /\ r \in Request /\ i \notin DOMAIN submitted
      /\ i \notin Resting(book)
      /\ DOMAIN submitted' = DOMAIN submitted \cup {i}
      /\ submitted'[i] = r /\ taker = NoOrder
      /\ \A j \in DOMAIN submitted : submitted'[j] = submitted[j]
  BY <1>1, CallKeeps
<1>3. /\ o \in Order /\ o.id = i /\ o.quantity = r.quantity /\ o.filled_quantity = 0
      /\ r.side \in Side /\ r.quantity \in Quantity /\ 0 \in Quantity
  BY <1>2, NewOrderShape, QuantityModulusAssumption DEF Request, Quantity
<1>4. /\ book' = book
      /\ \/ stop_orders' = stop_orders /\ taker' \in {NoOrder, o}
         \/ stop_orders' = Append(stop_orders, o) /\ taker' = NoOrder
  BY <1>1, <1>2
  DEF Submit, SubmitLimit, SubmitMarket, SubmitStop, SubmitPegged, BeginMatch,
      engine, call
<1>5. \A k \in DOMAIN stop_orders : stop_orders[k].id \in DOMAIN submitted
  BY DEF EngineInv, StopsKnown
<1> HIDE DEF o
<1>6. \A j : Dormant(j)' => Dormant(j) \/ j = i
  <2>1. ASSUME NEW k \in DOMAIN stop_orders'
        PROVE  \/ k \in DOMAIN stop_orders /\ stop_orders'[k] = stop_orders[k]
               \/ stop_orders'[k] = o
    <3>1. stop_orders \in Seq(Order)
      BY DEF EngineInv, TypeOK
    <3> QED BY <1>4, <3>1
  <2> QED BY <2>1, <1>3 DEF Dormant
<1>7. \A j : Dormant(j) => Dormant(j)'
  <2>1. stop_orders \in Seq(Order)
    BY DEF EngineInv, TypeOK
  <2>2. \A k \in DOMAIN stop_orders :
          k \in DOMAIN stop_orders' /\ stop_orders'[k] = stop_orders[k]
    BY <1>4, <2>1
  <2> QED BY <2>2 DEF Dormant
<1>8. ASSUME NEW j \in DOMAIN submitted
      PROVE  Left(j)' = Left(j)
  <2>1. j # i /\ ~IsTaker(j) /\ ~IsTaker(j)'
    BY <1>2, <1>3, <1>4 DEF IsTaker
  <2>2. Dormant(j)' <=> Dormant(j)
    BY <2>1, <1>6, <1>7
  <2> QED BY <2>1, <2>2, <1>2, <1>4 DEF Left
<1>9. Left(i)' \in Quantity
  <2>1. IsTaker(i)' => Left(i)' = r.quantity
    <3>1. ASSUME taker' = o PROVE Remaining(taker') = r.quantity
      <4>1. r.quantity - 0 = r.quantity
        BY <1>3, QuantityModulusAssumption DEF Quantity
      <4> QED BY <4>1, <3>1, <1>3 DEF Remaining
    <3> QED BY <3>1, <1>2, <1>4 DEF Left, IsTaker
  <2>2. ~IsTaker(i)' => Left(i)' \in {0, r.quantity}
    BY <1>2, <1>4 DEF Left
  <2> QED BY <2>1, <2>2, <1>3
<1>10. PICK amount \in Quantity : Left(i)' = amount
  BY <1>9
<1>11. Ledger!Accept(i, r.side, amount)
  BY <1>2, <1>8, <1>10 DEF Ledger!Accept, Ledger!Orders
<1> QED BY <1>2, <1>3, <1>11 DEF Ledger!Next

\* Cancel: what the order has left is withdrawn, slices still hidden included
\* (order_book.cpp:32-56).
LEMMA CancelRefines ==
  ASSUME EngineInv, Accounts, NEW i \in OrderId, Cancel(i)
  PROVE  Ledger!Next \/ UNCHANGED Ledger!vars
<1>1. /\ book' = BookCancel(book, i) /\ taker = NoOrder
      /\ UNCHANGED <<stop_orders, taker, submitted>>
  BY DEF Cancel, call, EngineInv, TypeOK
<1>2. /\ Resting(book') = Resting(book) \ {i}
      /\ \A j \in Resting(book') : book'.order_map[j] = book.order_map[j]
  BY <1>1, CancelKeeps DEF EngineInv, TypeOK, BookIndexed
<1>3. \A j : Dormant(j)' <=> Dormant(j)
  BY <1>1 DEF Dormant
<1>4. \A j \in DOMAIN submitted : j # i => Left(j)' = Left(j)
  BY <1>1, <1>2, <1>3 DEF Left, IsTaker
<1>5. CASE i \in Resting(book)
  <2>1. i \in DOMAIN submitted /\ ~Dormant(i)
    BY <1>5 DEF Dormant, EngineInv, TypeOK, RestingKnown, StopsKnown
  <2>2. Left(i)' = 0
    BY <2>1, <1>1, <1>2, <1>3 DEF Left, IsTaker
  <2> QED BY <2>1, <2>2, <1>1, <1>4, LedgerCloses
<1>6. CASE i \notin Resting(book)
  <2>1. Left(i)' = Left(i)
    BY <1>1, <1>2, <1>3, <1>6 DEF Left, IsTaker
  <2> QED BY <2>1, <1>1, <1>4, LedgerStutters
<1> QED BY <1>5, <1>6

\* One turn of the inner loop: maker and matched order trade, the maker out of its
\* slice and what hides behind it (matching_engine.cpp:126-161).
LEMMA FillFrontRefines ==
  ASSUME EngineInv, Accounts, SidesKnown, FillFront
  PROVE  Ledger!Next
<1>1. UNCHANGED <<stop_orders, submitted>>
  BY Zenon DEF FillFront
<1>2. PICK i \in Resting(book), qty \in Nat :
        LET before == book.order_map[i]
            after == book'.order_map[i]
        IN  /\ taker # NoOrder /\ taker' # NoOrder
            /\ taker \in Order
            /\ taker'.id = taker.id
            /\ Remaining(taker') = Remaining(taker) - qty
            /\ qty > 0 /\ qty =< Remaining(before) /\ qty =< Remaining(taker)
            /\ i # taker.id /\ before.side = Opposite(taker.side)
            /\ Resting(book') \subseteq Resting(book)
            /\ \A j \in Resting(book) : j # i =>
                 j \in Resting(book') /\ book'.order_map[j] = book.order_map[j]
            /\ i \in Resting(book') =>
                 Remaining(after) + after.hidden_quantity
                   = Remaining(before) + before.hidden_quantity - qty
            /\ i \notin Resting(book') =>
                 qty = Remaining(before) + before.hidden_quantity
  BY FillFrontShape
<1> DEFINE before == book.order_map[i]
           after == book'.order_map[i]
<1>3. PICK t \in OrderId : t = taker.id
  BY <1>2, OrderFields
<1>4. /\ i \in DOMAIN submitted /\ t \in DOMAIN submitted
      /\ t \notin Resting(book) /\ t # i
      /\ taker.side = submitted[t].side /\ before.side = submitted[i].side
  BY <1>3, <1>2 DEF EngineInv, TypeOK, TakerKnown, SidesKnown
<1>5. /\ Remaining(before) \in Int /\ before.hidden_quantity \in Nat
      /\ Remaining(taker) \in Int /\ taker.side \in Side
  <2>1. before \in Order /\ taker \in Order
    BY <1>2 DEF EngineInv, TypeOK, BookType
  <2> HIDE DEF before
  <2> QED BY <2>1, OrderFields
<1>6. \A j : Dormant(j)' <=> Dormant(j)
  BY <1>1 DEF Dormant
<1>7. ~Dormant(i) /\ ~Dormant(t)
  BY <1>3, <1>2, <1>4
  DEF Dormant, EngineInv, RestingKnown, StopsKnown, Accounts, StopsApart
<1>8. /\ Left(i) = Remaining(before) + before.hidden_quantity
      /\ Left(t) = Remaining(taker)
  BY <1>3, <1>2, <1>4, LeftByPlace
<1>9. Left(i)' = Left(i) - qty
  <2>1. CASE i \in Resting(book')
    <3>1. Left(i)' = Remaining(after) + after.hidden_quantity
      BY <2>1 DEF Left
    <3>2. Remaining(after) + after.hidden_quantity
            = Remaining(before) + before.hidden_quantity - qty
      BY <2>1, <1>2
    <3> HIDE DEF before, after
    <3> QED BY <3>1, <3>2, <1>5, <1>8
  <2>2. CASE i \notin Resting(book')
    <3>1. Left(i)' = 0
      BY <2>2, <1>3, <1>2, <1>4, <1>6, <1>7 DEF Left, IsTaker
    <3>2. Left(i) - qty = 0
      <4>1. Left(i) = qty
        BY <2>2, <1>2, <1>8
      <4> QED BY <4>1, <1>2
    <3> QED BY <3>1, <3>2
  <2> QED BY <2>1, <2>2
<1>10. Left(t)' = Left(t) - qty
  <2>1. Left(t)' = Remaining(taker')
    BY <1>3, <1>2, <1>4 DEF Left, IsTaker
  <2> QED BY <2>1, <1>2, <1>8
<1>11. ASSUME NEW j \in DOMAIN submitted, j # i, j # t
       PROVE  Left(j)' = Left(j)
  <2>1. ~IsTaker(j) /\ ~IsTaker(j)'
    BY <1>3, <1>2, <1>11 DEF IsTaker
  <2>2. CASE j \in Resting(book)
    BY <2>2, <1>2, <1>11 DEF Left
  <2>3. CASE j \notin Resting(book)
    BY <2>1, <2>3, <1>1, <1>2, <1>6 DEF Left
  <2> QED BY <2>2, <2>3
<1> HIDE DEF before, after
<1>12. qty \in 1 .. Left(i) /\ qty =< Left(t)
  <2>1. qty =< Remaining(before) /\ qty =< Remaining(taker) /\ qty > 0
    BY <1>2 DEF before
  <2>2. qty =< Left(i) /\ Left(i) \in Int
    BY <2>1, <1>2, <1>5, <1>8
  <2> QED BY <2>1, <2>2, <1>2, <1>8
<1>13. submitted[i].side # submitted[t].side
  BY <1>2, <1>4, <1>5 DEF Opposite, Side, before
<1>14. Ledger!Trade(i, t, qty)
  <2> DEFINE left == [j \in DOMAIN submitted |-> Left(j)]
  <2>1. [j \in DOMAIN submitted |-> Left(j)']
          = [left EXCEPT ![i] = @ - qty, ![t] = @ - qty]
    <3>1. t # i
      BY <1>4
    <3> QED BY <3>1, <1>4, <1>9, <1>10, <1>11
  <2>2. qty > 0 /\ qty =< Left(i) /\ qty =< Left(t)
    BY <1>2, <1>12
  <2> QED BY <2>1, <2>2, <1>1, <1>4, <1>13 DEF Ledger!Trade
<1> QED BY <1>4, <1>12, <1>14 DEF Ledger!Next, Ledger!Orders

\* The end of a match: what is left of the matched order rests, hidden slices
\* included, or is discarded (matching_engine.cpp:97-115, 341-352).
LEMMA MatchEndRefines ==
  ASSUME EngineInv, Accounts, EndMatch \/ EndStopMatch
  PROVE  Ledger!Next \/ UNCHANGED Ledger!vars
<1>1. /\ taker # NoOrder /\ taker' = NoOrder
      /\ UNCHANGED <<stop_orders, submitted>>
      /\ book' = Rest(taker) \/ book' = book
  BY DEF EndMatch, EndStopMatch, MatchOver, StartScan, Return, history,
         EngineInv, TypeOK
<1>2. PICK t \in DOMAIN submitted :
        t = taker.id /\ t \notin Resting(book) /\ ~Dormant(t)
  BY <1>1 DEF EngineInv, TakerKnown, Dormant, Accounts, StopsApart
<1>3. \A j : Dormant(j)' <=> Dormant(j)
  BY <1>1 DEF Dormant
<1>4. CASE book' = book
  <2>1. \A j \in DOMAIN submitted : j # t => Left(j)' = Left(j)
    BY <1>1, <1>2, <1>3, <1>4 DEF Left, IsTaker
  <2>2. Left(t)' = 0
    BY <1>1, <1>2, <1>3, <1>4 DEF Left, IsTaker
  <2> QED BY <2>1, <2>2, <1>1, <1>2, LedgerCloses
<1>5. CASE book' # book
  <2>1. /\ Resting(book') = Resting(book) \cup {t}
        /\ Remaining(book'.order_map[t]) + book'.order_map[t].hidden_quantity
             = Remaining(taker)
        /\ \A j \in Resting(book) : book'.order_map[j] = book.order_map[j]
    BY <1>1, <1>2, <1>5, RestKeeps
  <2>2. \A j \in DOMAIN submitted : j # t => Left(j)' = Left(j)
    BY <2>1, <1>1, <1>2, <1>3 DEF Left, IsTaker
  <2>3. Left(t)' = Remaining(taker)
    BY <2>1 DEF Left
  <2>4. Left(t) = Remaining(taker)
    BY <1>1, <1>2, LeftByPlace
  <2> QED BY <2>2, <2>3, <2>4, <1>1, LedgerStutters
<1> QED BY <1>4, <1>5

\* A triggered stop leaves its list and is matched with all of its quantity
\* (matching_engine.cpp:341-349).
LEMMA TriggerStopRefines ==
  ASSUME EngineInv, Accounts, TriggerStop
  PROVE  UNCHANGED Ledger!vars
<1> DEFINE o == stop_orders[it]
           n == Len(stop_orders)
           stops == RemoveAt(stop_orders, it)
<1>1. /\ taker = NoOrder /\ taker' = TriggeredMarket(o)
      /\ stop_orders' = stops
      /\ UNCHANGED <<book, submitted>>
      /\ stop_orders \in Seq(Order) /\ it \in 1 .. n /\ n \in Nat
  BY DEF TriggerStop, BeginMatch, history, EngineInv, TypeOK
<1>2. /\ stops \in Seq(Order) /\ Len(stops) = n - 1
      /\ \A k \in 1 .. n - 1 :
           stops[k] = IF k < it THEN stop_orders[k] ELSE stop_orders[k + 1]
  BY <1>1, RemoveAtShape
<1> HIDE DEF stops
<1>3. /\ o \in Order /\ o.id \in DOMAIN submitted /\ o.filled_quantity = 0
      /\ o.quantity = submitted[o.id].quantity /\ o.id \notin Resting(book)
  BY <1>1 DEF EngineInv, StopsKnown, RestingKnown, Accounts, StopAccounts
<1> HIDE DEF o
<1>4. PICK u \in DOMAIN submitted : u = o.id
  BY <1>3
<1>5. /\ taker' \in Order /\ taker'.id = u
      /\ Remaining(taker') = submitted[u].quantity
  <2>1. /\ taker' \in Order /\ taker'.id = u /\ taker'.quantity = o.quantity
        /\ taker'.filled_quantity = 0
    BY <1>1, <1>3, <1>4, TriggeredMarketShape
  <2>2. o.quantity - 0 = o.quantity
    BY <1>3, OrderFields
  <2> QED BY <2>1, <2>2, <1>3, <1>4 DEF Remaining
<1>6. taker' # NoOrder
  BY <1>5, NoOrderAssumption
<1>7. Left(u) = submitted[u].quantity
  BY <1>1, <1>3, <1>4, LeftByPlace DEF Dormant, o
<1>8. Left(u)' = submitted[u].quantity
  BY <1>1, <1>3, <1>5, <1>6, <1>4 DEF Left, IsTaker
<1>9. ASSUME NEW j \in DOMAIN submitted, j # u
      PROVE  Left(j)' = Left(j)
  <2>1. ~IsTaker(j) /\ ~IsTaker(j)'
    BY <1>1, <1>5, <1>9 DEF IsTaker
  <2>2. ASSUME NEW k \in DOMAIN stop_orders, stop_orders[k].id = j
        PROVE  \E m \in DOMAIN stops : stops[m].id = j
    <3>1. k # it /\ k \in 1 .. n
      BY <2>2, <1>1, <1>9, <1>4 DEF o
    <3>2. CASE k < it
      <4>1. k \in 1 .. n - 1 /\ stops[k] = stop_orders[k]
        BY <3>1, <3>2, <1>1, <1>2
      <4> QED BY <4>1, <2>2, <1>2
    <3>3. CASE k > it
      <4>1. k - 1 \in 1 .. n - 1 /\ stops[k - 1] = stop_orders[k]
        BY <3>1, <3>3, <1>1, <1>2
      <4> QED BY <4>1, <2>2, <1>2
    <3> QED BY <3>1, <3>2, <3>3, <1>1
  <2>3. ASSUME NEW m \in DOMAIN stops, stops[m].id = j
        PROVE  \E k \in DOMAIN stop_orders : stop_orders[k].id = j
    <3>1. /\ m \in DOMAIN stop_orders /\ m + 1 \in DOMAIN stop_orders
          /\ stops[m] \in {stop_orders[m], stop_orders[m + 1]}
      BY <1>1, <1>2
    <3> QED BY <2>3, <3>1
  <2>4. Dormant(j)' <=> Dormant(j)
    BY <2>2, <2>3, <1>1 DEF Dormant
  <2> QED BY <2>1, <2>4, <1>1 DEF Left
<1> QED BY <1>1, <1>7, <1>8, <1>9, LedgerStutters

\* Every step of the engine is a step of the ledger or a stutter.
LEMMA StepRefines ==
  ASSUME NoPegs, EngineInv, Accounts, SidesKnown, [Next]_vars
  PROVE  [Ledger!Next]_(Ledger!vars)
<1>1. ASSUME NEW i \in Fresh, NEW r \in Requests, Submit(i, r)
      PROVE  Ledger!Next
  BY <1>1, SubmitRefines
<1>2. ASSUME NEW i \in OrderId, Cancel(i)
      PROVE  Ledger!Next \/ UNCHANGED Ledger!vars
  BY <1>2, CancelRefines
<1>3. CASE FillFront
  BY <1>3, FillFrontRefines
<1>4. CASE EndMatch \/ EndStopMatch
  BY <1>4, MatchEndRefines
<1>5. CASE TriggerStop
  BY <1>5, TriggerStopRefines
<1>6. CASE \/ UNCHANGED vars
           \/ EnterLevel \/ LeaveLevel \/ SkipStop \/ EndScan \/ EndReprice
  <2>1. UNCHANGED <<book, stop_orders, taker, submitted>>
    <3>1. pc = "pegs" => taker = NoOrder
      BY DEF EngineInv, TypeOK
    <3> QED BY <1>6, <3>1
            DEF vars, engine, call, history, EnterLevel, LeaveLevel, SkipStop,
                EndScan, EndReprice, Return
  <2>2. \A j \in DOMAIN submitted : Left(j)' = Left(j)
    BY <2>1 DEF Left, IsTaker, Dormant
  <2> QED BY <2>1, <2>2, LedgerStutters
<1> QED
  BY <1>1, <1>2, <1>3, <1>4, <1>5, <1>6, NothingToReprice DEF Next, CallStep

\* Without pegged orders, an observer of the engine sees only what the ledger
\* promises: orders come in, trade in pairs of opposite sides by equal amounts
\* that both still have, and are closed for good (matching_engine.cpp:117-252).
THEOREM EngineImplementsLedger == NoPegs => (Spec => ImplementsLedger)
<1> SUFFICES ASSUME NoPegs PROVE Spec => ImplementsLedger
  OBVIOUS
<1>1. Init => SidesKnown /\ Ledger!Init
  <2>1. Init => Ledger!Init
    BY DEF Init, Ledger!Init
  <2> QED BY <2>1, InitSidesKnown
<1>2. EngineInv /\ SidesKnown /\ [Next]_vars => SidesKnown'
  BY StepKeepsSidesKnown
<1>3. EngineInv /\ Accounts /\ SidesKnown /\ [Next]_vars
        => [Ledger!Next]_(Ledger!vars)
  BY StepRefines
<1> QED
  BY <1>1, <1>2, <1>3, EngineInvariant, AccountsInvariant, PTL
  DEF Spec, ImplementsLedger, Ledger!Spec

=============================================================================
