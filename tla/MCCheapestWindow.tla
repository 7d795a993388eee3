-------------------------- MODULE MCCheapestWindow --------------------------
(***************************************************************************)
(* Small instances of CheapestWindow for TLC: up to five half-hours of two *)
(* units, any of them missing, one of two prices, and intervals that cut a *)
(* half-hour or are empty.                                                 *)
(***************************************************************************)
EXTENDS CheapRunsProperties

MCStarts    == {0, 2, 4, 6, 8}
MCPrices    == {-1, 2}
MCIntervals == {<<0, 10>>, <<1, 9>>, <<4, 4>>}
=============================================================================
