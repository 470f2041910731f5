----------------------------- MODULE EngineLedger -----------------------------
(***************************************************************************)
(* The matching engine, for callers that send no pegged orders, implements *)
(* OrderLedger.                                                            *)
(***************************************************************************)
EXTENDS MatchingEngine

Dormant(i) == \E k \in DOMAIN stop_orders : stop_orders[k].id = i

\* What order i may still trade: its slice and hidden quantity in the book, what
\* the running match has left of it, all of it while it is a dormant stop.
Left(i) ==
  IF i \in Resting(book)
  THEN Remaining(book.order_map[i]) + book.order_map[i].hidden_quantity
  ELSE IF IsTaker(i) THEN Remaining(taker)
  ELSE IF Dormant(i) THEN submitted[i].quantity
  ELSE 0

Ledger == INSTANCE OrderLedger WITH
  side <- [i \in DOMAIN submitted |-> submitted[i].side],
  left <- [i \in DOMAIN submitted |-> Left(i)],
  Amount <- Quantity

\* Every step of the engine is a step of the ledger or leaves it alone: orders
\* trade in pairs of opposite sides by equal amounts, never above what they have
\* left, and none comes back after it was filled, discarded or cancelled.  The
\* code keeps no such account: it is spread over nodes, slices, the matched order
\* and the dormant stops (matching_engine.cpp:117-252, 324-362).
ImplementsLedger == Ledger!Spec

=============================================================================
