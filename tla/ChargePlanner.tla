--------------------------- MODULE ChargePlanner ---------------------------
(***************************************************************************)
(* The instant charge planner's "by" (service.SuggestCharge): the charge   *)
(* lies between now and the deadline.  Which window it is, CheapestWindow  *)
(* says.                                                                   *)
(***************************************************************************)
EXTENDS LocalTime

\* Mutant: a day is twenty-four hours.
DeadlineByHours(t, hm) ==
    LET today == FromLocal(LocalDay(t) * Day + hm)
    IN  IF t < today THEN today ELSE today + Day

\* The instant for "by hm", asked at t: today's, or if that is not ahead the same
\* clock reading of tomorrow (AddDate, in local time).
Deadline(t, hm) ==
    LET today == FromLocal(LocalDay(t) * Day + hm)
    IN  IF t < today THEN today ELSE FromLocal(LocalClock(today) + Day)
=============================================================================
