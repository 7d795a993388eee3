----------------------------- MODULE LocalTime -----------------------------
(***************************************************************************)
(* Civil time in one zone, as Go's time package computes it, over one      *)
(* stretch of summer time: instants (UTC) and local clock readings are     *)
(* both counted from the UTC midnight of day 0, and while summer time      *)
(* lasts the local reading is Shift ahead.                                 *)
(***************************************************************************)
EXTENDS Integers

CONSTANTS Day,      \* units in a day
          Shift,    \* how far the clocks go forward
          SpringAt, \* the instant they do
          FallAt    \* the instant they go back

\* Summer time lasts for days.
ASSUME ZoneAssumption == /\ Day \in Nat /\ Shift \in Nat
                         /\ SpringAt \in Nat /\ FallAt \in Nat
                         /\ 0 < Shift /\ 2 * Shift <= Day
                         /\ SpringAt + 2 * Day <= FallAt

Offset(u) == IF SpringAt <= u /\ u < FallAt THEN Shift ELSE 0

LocalClock(u) == u + Offset(u)

LocalDay(u) == LocalClock(u) \div Day

\* time.Date: the offset is looked up at the local reading taken for UTC; if it
\* is not zero and leads to an instant outside its own zone, it is looked up
\* again at that instant.  A reading the clocks skip comes out Shift later, of
\* one they repeat the second is taken.
FromLocal(l) == LET u == l - Offset(l)
                IN  IF Offset(l) # 0 /\ ~(SpringAt <= u /\ u < FallAt)
                    THEN l - Offset(u)
                    ELSE u

Midnight(d) == FromLocal(d * Day)

\* Format("2006-01-02") of an instant, in UTC.
UTCDate(u) == u \div Day
=============================================================================
