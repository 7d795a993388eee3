------------------------ MODULE MCPriceAlertsSteady ------------------------
(***************************************************************************)
(* A small instance of PriceAlertsSteady, where the lead window leaves a   *)
(* slack of one time unit beside the period (in the code: two minutes).    *)
(***************************************************************************)
EXTENDS PriceAlertsSteady, TLC

\* Three half-hours.  Region 1 is cheap from the second on; region 2 is cheap,
\* dear, cheap; with the threshold 21 both are cheap throughout.
ThreeStarts == {0, 4, 8}
TwoPrices == <<0 :> 20 @@ 4 :> 10 @@ 8 :> 10, 0 :> 10 @@ 4 :> 20 @@ 8 :> 10>>
=============================================================================
