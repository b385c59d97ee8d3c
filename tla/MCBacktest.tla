----------------------------- MODULE MCBacktest -----------------------------
(* A grid of three slots under prices 1 to 4 and a position limit of two, *)
(* averages of one and two prices, and the kinds of decisions a strategy   *)
(* of one's own may return, two on a tick and a malformed one included.    *)
EXTENDS Backtest

Order(type, side, quantity, limit, stop, listed) ==
    [kind |-> "place", type |-> type, side |-> side, quantity |-> quantity,
     limit |-> limit, stop |-> stop, listed |-> listed]

\* The second list spends the whole balance on shares, fees included, the third
\* sells one for less than its fee.
MCCallerDecisions ==
    {<<>>,
     <<[kind |-> "cancel", side |-> "none"]>>,
     <<Order("LIMIT", "BUY", 1, 1, 0, TRUE), Order("LIMIT", "BUY", 2, 2, 0, TRUE)>>,
     <<Order("LIMIT", "SELL", 1, 2, 0, TRUE), Order("MARKET", "SELL", 1, 0, 0, TRUE)>>,
     <<Order("LIMIT", "BUY", 2, 2, 0, TRUE), Order("LIMIT", "SELL", 1, 3, 0, TRUE)>>,
     <<Order("MARKET", "BUY", 1, 2, 0, TRUE)>>,
     <<Order("STOP", "BUY", 1, 0, 3, TRUE), Order("MARKET", "BUY", 1, 0, 0, FALSE)>>}

\* The crossover needs its window and a tick beyond its ring; the grid a saved
\* state that was itself restored; a strategy of one's own keeps no state.
MCMaxTicks == [grid |-> 4, sma |-> 5, caller |-> 4]
MCMaxRestarts == [grid |-> 2, sma |-> 1, caller |-> 0]
=============================================================================
