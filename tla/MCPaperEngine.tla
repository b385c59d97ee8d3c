--------------------------- MODULE MCPaperEngine ---------------------------
(* Two processes, two orders in three combinations, three books and two    *)
(* trade prices: partial fills, the protection band, a book that fills     *)
(* nothing, an unusable book, and trades on either side of a trigger.      *)
EXTENDS PaperEngine, TLC

Level(price, volume) == [price |-> price, volume |-> volume]

Thin == [bids |-> <<Level(1, 2)>>, asks |-> <<Level(2, 1), Level(5, 1)>>]
Far == [bids |-> <<Level(2, 1), Level(1, 1)>>, asks |-> <<Level(4, 2)>>]
OneSided == [bids |-> <<>>, asks |-> <<Level(2, 2)>>]

LimitBuy == [type |-> "LIMIT", side |-> "BUY", quantity |-> 2, price |-> 3,
             watch |-> None, group |-> None]
LimitOne == [LimitBuy EXCEPT !.quantity = 1]
MarketBuy == [LimitBuy EXCEPT !.type = "MARKET"]
StopSell == [type |-> "STOP", side |-> "SELL", quantity |-> 2, price |-> 1,
             watch |-> "STOP", group |-> None]
StopLeg == [StopSell EXCEPT !.group = "oco"]
\* The LIMIT leg of an OCO is registered as a TAKE_PROFIT watcher.
LimitLeg == [type |-> "LIMIT", side |-> "SELL", quantity |-> 2, price |-> 4,
             watch |-> "TAKE_PROFIT", group |-> "oco"]

\* Two resting orders over two books meet one fault; a stop beside a limit,
\* and the two legs of an OCO, meet two.
MCScenarios == {
  [orders |-> <<LimitBuy, MarketBuy>>, books |-> {Thin, Far}, trades |-> {}, maxFaults |-> 1],
  [orders |-> <<StopSell, LimitOne>>, books |-> {Thin}, trades |-> {1}, maxFaults |-> 2],
  [orders |-> <<StopLeg, LimitLeg>>, books |-> {OneSided}, trades |-> {1, 4}, maxFaults |-> 2]}

Symmetry == Permutations(Nodes)
=============================================================================
