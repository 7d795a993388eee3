--------------------------- MODULE MCPriceAlerts ---------------------------
(***************************************************************************)
(* Small instances of PriceAlerts for TLC.  The constants keep the order   *)
(* of the real ones: 0 < 9 min lead <= 12 min lead < 30 min half-hour, and *)
(* a period of one minute.                                                 *)
(***************************************************************************)
EXTENDS PriceAlertsProperties, TLC

\* Two half-hours.  In region 1 a run starts at the second, in region 2 at the
\* first.
TwoStarts == {0, 4}
TwoPrices == <<0 :> 20 @@ 4 :> 10, 0 :> 10 @@ 4 :> 10>>

\* One region, cheap from the second of three half-hours on.
ThreeStarts == {0, 4, 8}
OnePrice == <<0 :> 20 @@ 4 :> 10 @@ 8 :> 10>>
=============================================================================
