------------------------------- MODULE MCAuction -------------------------------
(***************************************************************************)
(* Auction for TLC.                                                        *)
(***************************************************************************)
EXTENDS Auction, MCMatching

\* Bids and asks that cross at several prices with unequal volume, an iceberg,
\* a stop and a peg.
AuctionMenu ==
  {LimitRequest("Buy", "GTC", 9, 1, 0), LimitRequest("Buy", "GTC", 10, 2, 0),
   LimitRequest("Buy", "GTC", 11, 1, 0), LimitRequest("Sell", "GTC", 9, 2, 0),
   LimitRequest("Sell", "GTC", 10, 1, 0), LimitRequest("Sell", "GTC", 10, 3, 1),
   MarketRequest("Buy", "GTC", 1), StopRequest("Buy", 10, 1),
   PegRequest("Buy", 1, 1)}

=============================================================================
