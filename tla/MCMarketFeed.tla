---------------------------- MODULE MCMarketFeed ----------------------------
(* One instrument: the races are those of the stream and the two passes    *)
(* over one cursor.                                                        *)
EXTENDS MarketFeed
MCOneInstrument == {1}
=============================================================================
