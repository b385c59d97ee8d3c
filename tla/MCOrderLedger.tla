--------------------------- MODULE MCOrderLedger ---------------------------
(***************************************************************************)
(* A small session: three order ids, one OCO group, two request keys, one  *)
(* quote, one symbol on the KR market and an empty US wallet.              *)
(***************************************************************************)
EXTENDS OrderLedger, TLC

CONSTANTS o1, o2, o3, k1, k2, g1, KR, US, S, x1

MCMarketOf == [s \in {S} |-> KR]

\* Fees that are not additive in the quantity, as rounding makes them.
MCFee == [c \in Sides \X Prices \X Quantities |->
            IF c[1] = "BUY" THEN 1 ELSE c[3]]

MCQuoteTerms == [x \in {x1} |-> [from |-> KR, to |-> US,
                                 source |-> 20, target |-> 1]]

\* Cash for two units at the lower price or one at the higher, and one share.
MCOpening == [a \in {KR, US, S} |->
                CASE a = KR -> 45 [] a = US -> 0 [] a = S -> 1]

OrderSymmetry == Permutations({o1, o2, o3}) \cup Permutations({k1, k2})
=============================================================================
