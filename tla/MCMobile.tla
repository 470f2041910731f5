------------------------------ MODULE MCMobile ------------------------------
(***************************************************************************)
(* A batch of three orders, the second for an unknown symbol, and two      *)
(* single orders at a queue of two; a client that connects twice.          *)
(***************************************************************************)
EXTENDS MobileApi

CONSTANTS batch, single1, single2, client

MCCalls == {batch, single1, single2}
MCOrders == [c \in MCCalls |-> IF c = batch THEN <<TRUE, FALSE, TRUE>> ELSE <<TRUE>>]
MCSockets == {client}

\* Refreshed for every version the four commands can reach.
Fresh == \A n \in 1 .. 4 : Refreshed(n)
=============================================================================
