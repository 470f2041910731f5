------------------------------ MODULE MCMatching ------------------------------
(***************************************************************************)
(* Instances of MatchingEngine for TLC.  Each run gives Requests one of    *)
(* the menus below; OrderId bounds the orders of a behaviour.              *)
(***************************************************************************)
EXTENDS EngineLedger

CONSTANTS o1, o2, o3, o4, o5

ThreeIds == {o1, o2, o3}
FourIds == {o1, o2, o3, o4}
FiveIds == {o1, o2, o3, o4, o5}

\* The engine compares ids for equality only, so orders may be named in one
\* order: as a symmetry, or, where liveness is checked, as a constraint.
SymmetricIds == Permutations(OrderId)
IdsInOrder ==
  LET named == <<o1, o2, o3, o4, o5>>
  IN  \A k \in 2 .. 5 : named[k] \in DOMAIN submitted' =>
                          named[k - 1] \in DOMAIN submitted'

\* The fields a request of the given kind does not use are 0.
LimitRequest(s, tif, p, qty, vis) ==
  [side |-> s, type |-> "Limit", tif |-> tif, price |-> p, stop_price |-> 0,
   peg_offset |-> 0, quantity |-> qty, visible_quantity |-> vis]
MarketRequest(s, tif, qty) ==
  [LimitRequest(s, tif, 0, qty, 0) EXCEPT !.type = "Market"]
StopRequest(s, p, qty) ==
  [LimitRequest(s, "GTC", 0, qty, 0) EXCEPT !.type = "Stop", !.stop_price = p]
PegRequest(s, offset, qty) ==
  [LimitRequest(s, "GTC", 0, qty, 0) EXCEPT !.type = "Pegged",
                                            !.peg_offset = offset]

\* Limits on both sides at adjacent and at crossing prices, icebergs, the three
\* times in force and a stop; the quantities at a price add up past 4.
LimitMenu ==
  {LimitRequest("Sell", "GTC", 10, 2, 0), LimitRequest("Sell", "GTC", 11, 1, 0),
   LimitRequest("Sell", "GTC", 10, 3, 1), LimitRequest("Buy", "GTC", 10, 1, 0),
   LimitRequest("Buy", "GTC", 11, 3, 2), LimitRequest("Buy", "FOK", 10, 3, 0),
   LimitRequest("Buy", "IOC", 11, 2, 0), MarketRequest("Sell", "GTC", 2),
   StopRequest("Buy", 10, 1)}

\* Stops of both sides whose fills move the last trade onto each other, and pegs
\* of both sides, one that would cross if it were not capped.
TriggerMenu ==
  {StopRequest("Buy", 10, 1), StopRequest("Buy", 11, 1), StopRequest("Sell", 10, 2),
   LimitRequest("Sell", "GTC", 10, 1, 0), LimitRequest("Sell", "GTC", 11, 2, 0),
   LimitRequest("Buy", "GTC", 9, 2, 0), LimitRequest("Buy", "GTC", 10, 1, 0),
   PegRequest("Buy", -3, 1), PegRequest("Sell", 1, 1)}

\* Limits, and a peg with a market order that trades with it, small enough for
\* short traces.
ClaimMenu ==
  {LimitRequest("Sell", "GTC", 10, 1, 0), LimitRequest("Sell", "GTC", 11, 1, 0),
   LimitRequest("Buy", "GTC", 10, 2, 0), PegRequest("Sell", 1, 1),
   LimitRequest("Buy", "GTC", 11, 2, 0)}

=============================================================================
