----------------------- MODULE ChargePlansProperties -----------------------
(***************************************************************************)
(* What the daily charge-plan dispatch must and must not do.               *)
(***************************************************************************)
EXTENDS ChargePlans, ChargePlanner, FiniteSetsExt

\* The job has logged (id, date) and not yet sent, nor failed to.
InFlight(id, date) == pc = "notify" /\ win.id = id /\ date = TargetDate(at)

\* No plan is announced twice for one target date, across crashes, restarts,
\* the change of clocks, and cancelled and new plans.
PlanAtMostOnce == \A k \in Keys : delivered[k] <= 1

\* A new plan is nobody's successor: no row stands for a day of it (nothing
\* removes the rows of a cancelled plan), and no run under way that listed a
\* cancelled plan takes the new one for it.
NewPlanIsUnknown ==
    [][\A i \in Ids : plans[i] = NoPlan /\ plans'[i] # NoPlan =>
           /\ \A row \in log : row.id # i
           /\ \A p \in todo : p.id # i
           /\ win.id # i]_vars

\* The clocks go forward over local midnight of day d: it is a reading they skip.
MidnightSkipped(d) == LocalClock(Midnight(d)) # d * Day

\* A plan found already logged was logged by a run of the same local day - or of
\* the day before, if the clocks went forward between the two local midnights, or
\* over the first of them.
SkipExplained ==
    pc = "mark" =>
        \A row \in log : row.id = win.id /\ row.date = TargetDate(at) =>
            LET d == row.day  e == LocalDay(at)
            IN  \/ d = e
                \/ /\ d + 1 = e
                   /\ Offset(Midnight(d)) < Offset(Midnight(e)) \/ MidnightSkipped(d)

\* The job implements OnceOnly, with (plan, target date) for subject.
Settled == {k \in Keys : Logged(k[1], k[2]) /\ ~InFlight(k[1], k[2])}
Promise == INSTANCE OnceOnly WITH settled <- Settled
ImplementsOnceOnly == Promise!Spec

\* The clock shows hm at instant u, or has just jumped over it.
Reaches(u, hm) == \E l \in (LocalClock(u - 1) + 1)..LocalClock(u) \cup {LocalClock(u)} :
                      l % Day = hm

\* The clock shows reading l never, or twice.
Odd(l) == Cardinality({u \in {l, l - Shift} : LocalClock(u) = l}) # 1

\* The clocks will go back over a midnight, and t is before that in the day after it:
\* its local day is to begin a second time.
DayTakenBack(t) == t < FallAt /\ LocalDay(FallAt) < LocalDay(t)

\* A charge asked for "by hm" is over the next time the clock shows hm, on the days
\* around a change of the clocks too.  The deadline may be another one only if they
\* skip hm or show it twice today or tomorrow, and is late by their shift at most -
\* or in a day that is taken back.
DeadlineIsNextTime ==
    \A hm \in 0..(Day - 1) :
        LET d    == Deadline(now, hm)
            next == Min({u \in (now + 1)..(now + 2 * Day) : Reaches(u, hm)})
        IN  /\ now < d
            /\ \/ DayTakenBack(now)
               \/ /\ d <= next + Shift
                  /\ d # next => \E e \in {LocalDay(now), LocalDay(now) + 1} : Odd(e * Day + hm)

-----------------------------------------------------------------------------
(* A process that does not crash.  Refreshes and the list may fail, and    *)
(* the plan that comes first may fail at any of its calls; what the others *)
(* call comes back with an answer.                                         *)
Unlucky == CHOOSE i \in Ids : \A j \in Ids : i <= j

UnluckyFails == \/ SkipPlan(TRUE) /\ \E p \in todo : p.id = Unlucky
                \/ (MarkFails \/ NotifyFails) /\ win.id = Unlucky

CalmNext == \/ Tick \/ Fire \/ JobStep \/ UserStep
            \/ RefreshExhausted \/ ListFails \/ UnluckyFails
            \/ \E last \in Horizons : RefreshStopsShort(last) \/ StartupRefresh(last)
            \/ StartupRefreshFails

\* Only the steps of the job at work are owed.
CalmSpec == Init /\ [][CalmNext]_vars /\ WF_vars(JobStep)

\* The job is still to come to plan k[1], and there is a window for it.
Fits(k) == /\ pc = "plan" /\ k[2] = TargetDate(at)
           /\ \E p \in todo : p.id = k[1] /\ Candidates(p.offer, LocalDay(at)) # {}

\* One plan's failure is not another's: whatever becomes of the plan before it (no
\* window, a failed read, row or send, a row found), whatever users cancel and make, a
\* plan that the job has listed and a window fits is announced for the date.
FailuresStayApart == \A k \in Keys : k[1] # Unlucky => (Fits(k) ~> delivered[k] = 1)

-----------------------------------------------------------------------------
(* What the repository's texts say and the code does not do.               *)

\* service.go on the row found by MarkChargePlanDispatched: "already
\* dispatched today".  The row was written on the sweep's local day.
SkippedMeansSentToday ==
    pc = "mark" =>
        \A row \in log : row.id = win.id /\ row.date = TargetDate(at) =>
            row.day = LocalDay(at)

\* README, point 2: "every enabled charge_plan is evaluated for tonight".
\* The window announced was not over when the job was started, at 16:15.
AnnouncesTonight == pc = "notify" => lastRun < win.end
=============================================================================
