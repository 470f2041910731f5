------------------------------ MODULE OrderLedger ------------------------------
(***************************************************************************)
(* What an exchange promises of the orders of one symbol, whatever its     *)
(* book looks like: an order comes in once with a side and an amount, it   *)
(* trades only with orders of the other side, both by the same amount and  *)
(* neither by more than it has left, and what is withdrawn or discarded    *)
(* never trades again.  docs/cpp_explanation.md:79 lists these promises.   *)
(***************************************************************************)
EXTENDS Integers

CONSTANTS OrderId, Side, Amount

VARIABLES
  side,   (* the side of every order that has come in                       *)
  left    (* how much each of them may still trade; 0 once it is finished   *)

vars == <<side, left>>

Orders == DOMAIN left

Init == side = <<>> /\ left = <<>>

\* A new order comes in; with amount 0 it is refused.
Accept(i, s, amount) ==
  /\ i \notin Orders
  /\ side' = [j \in Orders \cup {i} |-> IF j = i THEN s ELSE side[j]]
  /\ left' = [j \in Orders \cup {i} |-> IF j = i THEN amount ELSE left[j]]

Trade(i, j, amount) ==
  /\ side[i] # side[j]
  /\ amount > 0 /\ amount =< left[i] /\ amount =< left[j]
  /\ left' = [left EXCEPT ![i] = @ - amount, ![j] = @ - amount]
  /\ UNCHANGED side

\* What an order has left is withdrawn or discarded.
Close(i) ==
  /\ left' = [left EXCEPT ![i] = 0]
  /\ UNCHANGED side

Next ==
  \/ \E i \in OrderId, s \in Side : \E amount \in Amount : Accept(i, s, amount)
  \/ \E i, j \in Orders : \E amount \in 1 .. left[i] : Trade(i, j, amount)
  \/ \E i \in Orders : Close(i)

Spec == Init /\ [][Next]_vars

=============================================================================
