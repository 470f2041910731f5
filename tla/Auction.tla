-------------------------------- MODULE Auction --------------------------------
(***************************************************************************)
(* The engine with its two phases: the pre-open phase, in which orders     *)
(* collect in the book without matching (add_to_book_no_match), and        *)
(* uncross, which trades the crossed book at one price and opens           *)
(* continuous trading (engine/src/matching_engine.cpp:13-16, 364-492).     *)
(* uncross is a call like submit; pc = "uncross" is its execution loop.    *)
(***************************************************************************)
EXTENDS MatchingEngine

VARIABLES
  phase,     (* phase_                                                       *)
  auction    (* best_price and remaining_volume of the running uncross       *)

auction_vars == <<vars, phase, auction>>

Idle == [price |-> 0, volume |-> 0]

AuctionInit == Init /\ phase = "Continuous" /\ auction = Idle

-----------------------------------------------------------------------------
\* set_phase: the book is left as it is.
SetPhase(p) ==
  /\ pc = "idle"
  /\ phase' = p
  /\ UNCHANGED <<vars, auction>>

\* add_to_book_no_match: market orders are dropped, stops kept, the rest goes to
\* the book, which takes limit orders only.
SubmitPreOpen(i, r) ==
  /\ phase = "PreOpen"
  /\ Call(i, r)
  /\ LET o == NewOrder(i, r)
     IN  IF r.type \in {"Stop", "StopLimit"}
         THEN stop_orders' = Append(stop_orders, o) /\ UNCHANGED book
         ELSE /\ UNCHANGED stop_orders
              /\ book' = IF r.type = "Market" THEN book
                         ELSE IF IsIceberg(o) THEN AddIceberg(book, o)
                         ELSE BookAdd(book, o)
  /\ UNCHANGED <<pegged_orders, last_trade_price, call, phase, auction>>

-----------------------------------------------------------------------------
(* uncross.                                                                  *)

Candidates(b) == Prices(b, "Buy") \cup Prices(b, "Sell")

\* Faulty: the whole side is counted, the levels the price excludes with it.
VolumeOfSide(b, s, p) ==
  Wrap(MapThenSumSet(LAMBDA q : b.level[s][q].total_quantity, Prices(b, s)))

\* What side s would trade at price p, from the totals of its levels; it wraps.
VolumeAt(b, s, p) ==
  Wrap(MapThenSumSet(LAMBDA q : b.level[s][q].total_quantity,
                     {q \in Prices(b, s) : q = p \/ Better(s, q, p)}))

ExecutableAt(b, p) == Least(VolumeAt(b, "Buy", p), VolumeAt(b, "Sell", p))

ImbalanceAt(b, p) ==
  LET d == VolumeAt(b, "Buy", p) - VolumeAt(b, "Sell", p)
  IN  IF d > 0 THEN d ELSE -d

\* Faulty: least imbalance comes first.
PreferredBalance(b, p, q) ==
  \/ ImbalanceAt(b, p) < ImbalanceAt(b, q)
  \/ /\ ImbalanceAt(b, p) = ImbalanceAt(b, q)
     /\ \/ ExecutableAt(b, p) > ExecutableAt(b, q)
        \/ ExecutableAt(b, p) = ExecutableAt(b, q) /\ p =< q

\* Most volume, then least imbalance, then the lowest price.
Preferred(b, p, q) ==
  \/ ExecutableAt(b, p) > ExecutableAt(b, q)
  \/ /\ ExecutableAt(b, p) = ExecutableAt(b, q)
     /\ \/ ImbalanceAt(b, p) < ImbalanceAt(b, q)
        \/ ImbalanceAt(b, p) = ImbalanceAt(b, q) /\ p =< q

BestAuctionPrices(b) ==
  {p \in Candidates(b) : \A q \in Candidates(b) : Preferred(b, p, q)}

\* With nothing to trade, uncross only opens continuous trading.
UncrossNothing ==
  /\ pc = "idle"
  /\ \A p \in Candidates(book) : ExecutableAt(book, p) = 0
  /\ phase' = "Continuous"
  /\ UNCHANGED <<vars, auction>>

BeginUncross ==
  /\ pc = "idle"
  /\ \E p \in BestAuctionPrices(book) :
       /\ ExecutableAt(book, p) > 0
       /\ auction' = [price |-> p, volume |-> ExecutableAt(book, p)]
  /\ pc' = "uncross"
  /\ UNCHANGED <<engine, taker, fills, mark, it, history, phase>>

Matchable(p, q) == p >= auction.price /\ q =< auction.price

AuctionQuantity(buyer, seller) ==
  Least(Least(Remaining(buyer), Remaining(seller)), auction.volume)

\* A filled order leaves the book; here no iceberg is refilled.
AuctionFill(b, i, qty) ==
  LET filled == BookFill(b, i, qty)
  IN  IF IsFilled(filled.order_map[i]) THEN BookCancel(filled, i) ELSE filled

UncrossFill ==
  /\ pc = "uncross"
  /\ auction.volume > 0
  /\ \E p \in BestPrices(book, "Buy"), q \in BestPrices(book, "Sell") :
       LET buyer == book.order_map[Head(book.level["Buy"][p].queue)]
           seller == book.order_map[Head(book.level["Sell"][q].queue)]
           qty == AuctionQuantity(buyer, seller)
       IN  /\ Matchable(p, q)
           /\ book' = AuctionFill(AuctionFill(book, buyer.id, qty), seller.id, qty)
           /\ fills' = Append(fills, [maker |-> buyer.id, taker |-> seller.id,
                                      price |-> auction.price, quantity |-> qty,
                                      aggressor_side |-> "Buy"])
           /\ traded' = [traded EXCEPT ![buyer.id] = @ + qty,
                                       ![seller.id] = @ + qty]
           /\ auction' = [auction EXCEPT !.volume = @ - qty]
  /\ UNCHANGED <<stop_orders, pegged_orders, last_trade_price, pc, taker, mark,
                 it, submitted, cancelled, phase>>

\* The loop ends with its volume traded, or for want of orders at the price;
\* uncross returns without a look at the stops or the pegs.
EndUncross ==
  /\ pc = "uncross"
  /\ \/ auction.volume = 0
     \/ \A p \in BestPrices(book, "Buy"), q \in BestPrices(book, "Sell") :
          ~Matchable(p, q)
  /\ last_trade_price' = IF fills = <<>> THEN last_trade_price ELSE auction.price
  /\ phase' = "Continuous"
  /\ auction' = Idle
  /\ Return
  /\ UNCHANGED <<book, stop_orders, pegged_orders, history>>

-----------------------------------------------------------------------------
UncrossStep == UncrossFill \/ EndUncross

AuctionNext ==
  \/ \E p \in {"PreOpen", "Continuous"} : SetPhase(p)
  \/ \E i \in Fresh, r \in Requests : SubmitPreOpen(i, r)
  \/ UncrossNothing \/ BeginUncross \/ UncrossStep
  \/ /\ phase = "Continuous"
     /\ \E i \in Fresh, r \in Requests : Submit(i, r)
     /\ UNCHANGED <<phase, auction>>
  \/ /\ \/ \E i \in OrderId : Cancel(i)
        \/ CallStep
     /\ UNCHANGED <<phase, auction>>

AuctionSpec == AuctionInit /\ [][AuctionNext]_auction_vars

-----------------------------------------------------------------------------
(* Properties.                                                               *)

Uncrossing == pc = "uncross" /\ pc' = "idle"

\* uncross trades all the volume it computed from the level totals: its loop
\* never stops early for want of orders at the price (matching_engine.cpp:444-452).
VolumeTraded == [][Uncrossing => auction.volume = 0]_auction_vars

\* The price uncross chooses leaves no crossed book: what does not trade in the
\* auction cannot trade at any price (matching_engine.cpp:407-437).
Uncrossed == [][Uncrossing => NotCrossed']_auction_vars

\* An iceberg whose slice trades in the auction keeps its hidden quantity.
IcebergSurvives ==
  [][\A i \in Resting(book) :
       pc = "uncross" /\ book.order_map[i].hidden_quantity > 0
         => i \in Resting(book)']_auction_vars

=============================================================================
