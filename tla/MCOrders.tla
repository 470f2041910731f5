------------------------------ MODULE MCOrders ------------------------------
(***************************************************************************)
(* Three requests of two accounts, and an order of the feed or a mishap.   *)
(***************************************************************************)
EXTENDS OrderService, TLC

CONSTANTS alice, bob, r1, r2, r3

MCAccounts == {alice, bob}
MCRequests == {r1, r2, r3}

\* Prices go with the type: 1, or 2 for the stop of a stop order.
JobOf(op, a, type, side, quantity, tif, key) ==
  [op |-> op, account |-> a, type |-> type, side |-> side, quantity |-> quantity,
   price |-> IF type \in Priced THEN 1 ELSE 0, stop |-> IF type \in Stops THEN 2 ELSE 0,
   tif |-> tif, key |-> key]

\* Alice buys at her limit, for a rest or for now or never, with a key that is
\* sent twice, replaces by a stop and deletes; Bob sells by an iceberg, at the
\* market and by a peg, and cancels.
MCJobs ==
  {JobOf("place", alice, "limit", "buy", 2, "GTC", 1),
   JobOf("place", alice, "limit", "buy", 1, "FOK", 2),
   JobOf("replace", alice, "stop", "buy", 1, "GTC", 3),
   JobOf("delete", alice, "market", "buy", 1, "GTC", 9),
   JobOf("place", bob, "iceberg", "sell", 2, "GTC", 1),
   JobOf("place", bob, "market", "sell", 1, "GTC", 2),
   JobOf("place", bob, "pegged", "sell", 1, "GTC", 3),
   JobOf("cancel", bob, "market", "sell", 1, "GTC", 9)}

MCInit == Init /\ (feeds = MaxFeeds \/ mishaps = MaxMishaps)
MCSpec == MCInit /\ [][Next]_vars

\* Requests are alike.
Alike == Permutations(MCRequests)
=============================================================================
