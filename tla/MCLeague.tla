------------------------------ MODULE MCLeague ------------------------------
(* A pool of two that overflows, rollouts and episodes out of step with      *)
(* the snapshots, and four processes over one directory.                    *)
EXTENDS League

\* What evaluate.py evaluates against if it is not told otherwise.
Defaults == <<"random", "market_maker">>

=============================================================================
