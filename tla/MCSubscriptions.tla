-------------------------- MODULE MCSubscriptions --------------------------
(***************************************************************************)
(* Small instances of Subscriptions for TLC.                               *)
(***************************************************************************)
EXTENDS SubscriptionsProperties

\* Two times of day, in days of two instants.
MCTimes == {{0, 2, 4}, {1, 3, 5}}
=============================================================================
