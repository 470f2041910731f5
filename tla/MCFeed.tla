------------------------------- MODULE MCFeed -------------------------------
(***************************************************************************)
(* A client that sends text, or a phone with two screens, with a few       *)
(* changes of the book and a few faults.                                   *)
(***************************************************************************)
EXTENDS MarketHub

\* The client and the phone share only the book, so one of them is enough.
MCInit == Init /\ (asked = MaxAsks \/ connects = MaxConnects)
MCSpec == MCInit /\ [][Next]_vars /\ Fairness
=============================================================================
