------------------------------ MODULE MCMarketFeed ------------------------------
(* Small instances of MarketFeed for TLC: a minute of two seconds, a week of two minutes. *)
EXTENDS MarketFeed

CONSTANTS M1, W1, k1

Lengths == [tf \in {M1, W1} |-> IF tf = M1 THEN 2 ELSE 4]

Charts == [k \in {k1} |-> W1]
=============================================================================
