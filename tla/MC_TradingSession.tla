------------------------- MODULE MC_TradingSession -------------------------
(* TradingSession with named tickers.                                      *)
EXTENDS TradingSession

CONSTANTS A
=============================================================================
