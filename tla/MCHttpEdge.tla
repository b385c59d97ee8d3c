----------------------------- MODULE MCHttpEdge -----------------------------
(* Three requests or engine callbacks over a single KR buy (1) and a US OCO *)
(* pair (2, 3), through two processes. Quote 3 is of process 1, quote 4 of   *)
(* process 2, and the same header asks process 1 for both.                  *)
EXTENDS HttpEdge, TLC

Ask(kind, key, order, cash, header, via) ==
    [kind |-> kind, key |-> key, order |-> order, cash |-> cash, whole |-> TRUE,
     header |-> header, via |-> via, issuer |-> IF key = 4 THEN 2 ELSE 1]

MCMarketOf == <<1, 2, 2>>
MCLegs == <<<<1>>, <<2, 3>>, <<2, 3>>>>
MCRequests ==
    {Ask("place", 1, 0, TRUE, 1, 1), Ask("oco", 1, 0, FALSE, 1, 1),
     Ask("convert", 3, 0, TRUE, 3, 1), Ask("convert", 4, 0, TRUE, 3, 1),
     Ask("cancel", 0, 1, TRUE, 5, 1), Ask("cancel", 0, 3, FALSE, 5, 1),
     Ask("touch", 0, 0, FALSE, 0, 2), Ask("fill", 0, 1, TRUE, 0, 0),
     Ask("trigger", 0, 2, FALSE, 0, 0), Ask("expire", 0, 0, FALSE, 0, 0)}

Symmetry == Permutations(Tx)
=============================================================================
