---------------------------- MODULE MCMarketData ----------------------------
(***************************************************************************)
(* MarketData with one pool of each kind of exchange between two tokens:   *)
(* a Uniswap pool, a Curve quote and two Balancer quotes.                  *)
(***************************************************************************)
EXTENDS MarketData

MCReverse == [p \in {"univ3"} |-> p \o "_rev"]

MCBalancerEdges == <<"balancer_0_1", "balancer_1_0">>

MCCycles ==
  {{"univ3", "balancer_1_0"}, {"balancer_0_1", "univ3_rev"},
   {"curve_0_1", "univ3_rev"}, {"curve_0_1", "balancer_1_0"}}
=============================================================================
