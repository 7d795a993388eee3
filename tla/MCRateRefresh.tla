--------------------------- MODULE MCRateRefresh ---------------------------
(***************************************************************************)
(* Small instances of RateRefresh for TLC.                                 *)
(***************************************************************************)
EXTENDS RateRefreshProperties
=============================================================================
