---------------------------- MODULE MCSimulation ----------------------------
(***************************************************************************)
(* An instance of Simulation for TLC: one market maker and noise traders,  *)
(* a few steps, and a history whose orders trade with all of them.         *)
(***************************************************************************)
EXTENDS Simulation

Rosters ==
  [loop |-> <<"maker", "random">>, backtest |-> <<"maker", "random">>,
   trading |-> <<"agent", "random">>, selfplay |-> <<"agent", "opponent", "random">>]

Steps == [loop |-> 4, backtest |-> 3, trading |-> 2, selfplay |-> 2]

Events ==
  {[side |-> "Buy", price |-> 12, quantity |-> 2, kind |-> "GTC"],
   [side |-> "Sell", price |-> 9, quantity |-> 1, kind |-> "GTC"],
   [side |-> "Buy", price |-> 0, quantity |-> 3, kind |-> "Market"]}

ASSUME FloorAssumption == PricesAboveTick
=============================================================================
