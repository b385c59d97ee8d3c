-------------------------- MODULE MCMarketRuntime --------------------------
(* One market, three loop slots, six incident rows, a window of two        *)
(* failures: every chain of MaxFaults faults, in every order.               *)
EXTENDS MarketRuntime

MCLoops == 1..3
MCRows == 1..6
=============================================================================
