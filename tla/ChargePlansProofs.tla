------------------------- MODULE ChargePlansProofs -------------------------
(***************************************************************************)
(* Theorems about ChargePlans for every zone, job time, set of plans and   *)
(* bound.                                                                  *)
(***************************************************************************)
EXTENDS ChargePlansProperties, Induction

-----------------------------------------------------------------------------
(* Civil time.                                                             *)

LEMMA OffsetBounds ==
    ASSUME NEW u \in Int
    PROVE  Offset(u) \in Nat /\ Offset(u) <= Shift
BY ZoneAssumption DEF Offset

\* time.Date never leaves the era, and is not later than the reading in UTC.
LEMMA FromLocalBounds ==
    ASSUME NEW l \in Nat
    PROVE  FromLocal(l) \in Nat /\ FromLocal(l) <= l
BY ZoneAssumption DEF FromLocal, Offset

\* Quotients are natural, and a multiple of the divisor is found again.
LEMMA DivBounds ==
    ASSUME NEW a \in Nat, NEW D \in Nat, D > 0
    PROVE  /\ a \div D \in Nat
           /\ (a \div D) * D \in Nat
           /\ (a \div D) * D <= a
OBVIOUS

LEMMA DivMonotone ==
    ASSUME NEW a \in Nat, NEW b \in Nat, NEW D \in Nat, D > 0, a <= b
    PROVE  a \div D <= b \div D
OBVIOUS

LEMMA LocalDayNat ==
    ASSUME NEW t \in Nat
    PROVE  /\ LocalDay(t) \in Nat
           /\ LocalDay(t) * Day \in Nat
           /\ LocalDay(t) * Day <= t + Shift
<1>1. LocalClock(t) \in Nat /\ LocalClock(t) <= t + Shift
  BY OffsetBounds, ZoneAssumption DEF LocalClock
<1>2. Day \in Nat /\ Day > 0 /\ Shift \in Nat
  BY ZoneAssumption
<1>3. /\ LocalClock(t) \div Day \in Nat
      /\ (LocalClock(t) \div Day) * Day \in Nat
      /\ (LocalClock(t) \div Day) * Day <= LocalClock(t)
  BY <1>1, <1>2, DivBounds
<1>4. (LocalClock(t) \div Day) * Day <= t + Shift
  BY <1>1, <1>2, <1>3
<1> QED BY <1>3, <1>4 DEF LocalDay

\* The date of a sweep is one of Dates.
LEMMA TargetDateTyped ==
    ASSUME NEW t \in 0..MaxTime
    PROVE  TargetDate(t) \in Dates
<1>1. t \in Nat /\ MaxTime \in Nat /\ t <= MaxTime
  BY PlanAssumption
<1>2. Day \in Nat /\ Day > 0 /\ Shift \in Nat /\ Shift <= Day
  BY ZoneAssumption
<1> DEFINE m == Midnight(LocalDay(t))
<1>3. m \in Nat /\ m <= t + Shift
  <2>1. LocalDay(t) * Day \in Nat /\ LocalDay(t) * Day <= t + Shift
    BY <1>1, LocalDayNat
  <2>2. m \in Nat /\ m <= LocalDay(t) * Day
    BY <2>1, FromLocalBounds DEF Midnight
  <2> HIDE DEF m
  <2>3. t + Shift \in Nat
    BY <1>1, <1>2
  <2> QED BY <2>1, <2>2, <2>3
<1> HIDE DEF m
<1>4. m <= MaxTime + Day /\ MaxTime + Day \in Nat
  BY <1>1, <1>2, <1>3
<1>5. m \div Day \in Nat /\ m \div Day <= (MaxTime + Day) \div Day
  BY <1>2, <1>3, <1>4, DivBounds, DivMonotone
<1>6. (MaxTime + Day) \div Day \in Nat
  BY <1>2, <1>4, DivBounds
<1>7. UTCDate(m) \in Dates
  BY <1>5, <1>6 DEF Dates, UTCDate
<1> QED BY <1>7 DEF m, TargetDate

LEMMA NextRunTyped ==
    ASSUME NEW t \in Nat
    PROVE  NextRunAfter(t) \in Nat
<1>1. LocalDay(t) \in Nat /\ LocalDay(t) * Day \in Nat
  BY LocalDayNat
<1>2. RefreshAt \in Nat /\ Day \in Nat
  BY PlanAssumption, ZoneAssumption
<1>3. LocalDay(t) * Day + RefreshAt \in Nat /\ (LocalDay(t) + 1) * Day + RefreshAt \in Nat
  BY <1>1, <1>2
<1>4. /\ FromLocal(LocalDay(t) * Day + RefreshAt) \in Nat
      /\ FromLocal((LocalDay(t) + 1) * Day + RefreshAt) \in Nat
  BY <1>3, FromLocalBounds
<1> QED BY <1>4 DEF NextRunAfter

-----------------------------------------------------------------------------
(* Types.                                                                  *)

LEMMA ListedTyped ==
    ASSUME TypeOK
    PROVE  {[id |-> i, offer |-> plans[i]] : i \in {j \in Ids : plans[j] # NoPlan}}
             \subseteq Listed
BY DEF TypeOK, Listed

LEMMA WindowTyped ==
    ASSUME TypeOK, NEW p \in todo, NEW f \in Candidates(p.offer, LocalDay(at))
    PROVE  [id |-> p.id, start |-> f, end |-> f + p.offer.slots] \in Found
<1>1. p.id \in Ids /\ p.offer \in Offers
  BY DEF TypeOK, Listed
<1>2. f \in Nat
  BY DEF TypeOK, Candidates, Slots
<1>3. p.offer.slots \in Nat
  BY <1>1, PlanAssumption
<1> QED BY <1>1, <1>2, <1>3 DEF Found

\* While a window is being logged or announced it is set.
WindowSet == pc \in {"mark", "notify"} => win \in Found

Typed == TypeOK /\ WindowSet

\* Going on to the next plan keeps the job's locals typed.
LEMMA NextPlanTyped ==
    ASSUME Typed, NEW rest \in SUBSET todo, NextPlan(rest), MaxTime \in Nat
    PROVE  /\ pc' \in {"idle", "plan"}
           /\ at' \in 0..MaxTime
           /\ todo' \subseteq Listed
           /\ win' = NoWindow
BY DEF Typed, TypeOK, NextPlan

LEMMA InitTyped == Init => Typed
<1> SUFFICES ASSUME Init PROVE Typed
  OBVIOUS
<1>1. MaxTime \in Nat
  BY PlanAssumption
<1>2. NextRunAfter(0) \in Nat
  BY NextRunTyped
<1> QED BY <1>1, <1>2 DEF Init, Typed, TypeOK, WindowSet

LEMMA StepTyped == Typed /\ [Next]_vars => Typed'
<1> SUFFICES ASSUME Typed, [Next]_vars
             PROVE  Typed'
  OBVIOUS
<1>0. MaxTime \in Nat
  BY PlanAssumption
<1>n. NextRunAfter(now) \in Nat
  BY <1>0, NextRunTyped DEF Typed, TypeOK
<1> USE DEF Typed, TypeOK, WindowSet, timeVars, dbVars, jobVars
<1>1. CASE Tick
  BY <1>0, <1>1 DEF Tick
<1>2. CASE Fire
  BY <1>0, <1>n, <1>2 DEF Fire
<1>3. ASSUME NEW last \in Horizons, RefreshSucceeds(last) \/ RefreshStopsShort(last)
      PROVE  Typed'
  BY <1>3 DEF RefreshSucceeds, RefreshStopsShort, Fetched
<1>4. CASE RefreshExhausted
  BY <1>4 DEF RefreshExhausted
<1>5. CASE ListEnabledChargePlans
  BY <1>5, ListedTyped DEF ListEnabledChargePlans, LocalOnly
<1>6. CASE ListFails
  BY <1>6 DEF ListFails, LocalOnly
<1>7. CASE ReadClock
  BY <1>7 DEF ReadClock, LocalOnly
<1>8. CASE FindWindow
  <2>1. PICK p \in todo : \E f \in Candidates(p.offer, LocalDay(at)) :
              /\ win' = [id |-> p.id, start |-> f, end |-> f + p.offer.slots]
              /\ todo' = todo \ {p}
    BY <1>8 DEF FindWindow
  <2>2. win' \in Found /\ todo' \subseteq Listed
    BY <2>1, WindowTyped
  <2> QED BY <1>8, <2>2 DEF FindWindow, LocalOnly
<1>9. ASSUME NEW e \in BOOLEAN, SkipPlan(e) PROVE Typed'
  <2>1. PICK p \in todo : NextPlan(todo \ {p})
    BY <1>9 DEF SkipPlan
  <2>2. /\ pc' \in {"idle", "plan"} /\ at' \in 0..MaxTime
        /\ todo' \subseteq Listed /\ win' = NoWindow
    BY <1>0, <2>1, NextPlanTyped
  <2> QED BY <1>9, <2>2 DEF SkipPlan, LocalOnly
<1>10. CASE MarkChargePlanDispatched
  <2>1. win \in Found /\ TargetDate(at) \in Dates /\ LocalDay(at) \in Nat
    BY <1>0, <1>10, TargetDateTyped, LocalDayNat DEF MarkChargePlanDispatched
  <2>2. [id |-> win.id, date |-> TargetDate(at), day |-> LocalDay(at)] \in LogRow
    BY <2>1 DEF Found, LogRow
  <2>3. CASE Logged(win.id, TargetDate(at))
    <3>1. /\ pc' \in {"idle", "plan"} /\ at' \in 0..MaxTime
          /\ todo' \subseteq Listed /\ win' = NoWindow
      BY <1>0, <1>10, <2>3, NextPlanTyped DEF MarkChargePlanDispatched
    <3> QED BY <1>10, <2>3, <3>1 DEF MarkChargePlanDispatched
  <2>4. CASE ~Logged(win.id, TargetDate(at))
    BY <1>10, <2>1, <2>2, <2>4 DEF MarkChargePlanDispatched
  <2> QED BY <2>3, <2>4
<1>11. CASE MarkFails \/ NotifyFails
  <2>1. /\ pc' \in {"idle", "plan"} /\ at' \in 0..MaxTime
        /\ todo' \subseteq Listed /\ win' = NoWindow
    BY <1>0, <1>11, NextPlanTyped DEF MarkFails, NotifyFails
  <2> QED BY <1>11, <2>1 DEF MarkFails, NotifyFails, LocalOnly
<1>12. CASE Notify
  <2>1. /\ pc' \in {"idle", "plan"} /\ at' \in 0..MaxTime
        /\ todo' \subseteq Listed /\ win' = NoWindow
    BY <1>0, <1>12, NextPlanTyped DEF Notify
  <2>2. <<win.id, TargetDate(at)>> \in Keys
    BY <1>0, <1>12, TargetDateTyped DEF Notify, Found, Keys
  <2>3. delivered[<<win.id, TargetDate(at)>>] + 1 \in Nat
    BY <2>2
  <2>4. delivered' \in [Keys -> Nat]
    BY <1>12, <2>2, <2>3 DEF Notify
  <2> QED BY <1>12, <2>1, <2>4 DEF Notify
<1>13. ASSUME NEW o \in Offers, CreateChargePlan(o) PROVE Typed'
  BY <1>13 DEF CreateChargePlan
<1>14. ASSUME NEW i \in Ids, CancelChargePlan(i) PROVE Typed'
  BY <1>14 DEF CancelChargePlan
<1>15. CASE Crash
  <2>1. 0 \in 0..MaxTime
    BY <1>0
  <2> QED BY <1>15, <2>1 DEF Crash
<1>16. CASE Restart
  BY <1>n, <1>16 DEF Restart
<1>17. ASSUME NEW last \in Horizons, StartupRefresh(last) PROVE Typed'
  BY <1>17 DEF StartupRefresh, Fetched
<1>18. CASE StartupRefreshFails
  BY <1>18 DEF StartupRefreshFails
<1>19. CASE UNCHANGED vars
  BY <1>19 DEF vars
<1> QED BY <1>1, <1>2, <1>3, <1>4, <1>5, <1>6, <1>7, <1>8, <1>9, <1>10, <1>11, <1>12,
           <1>13, <1>14, <1>15, <1>16, <1>17, <1>18, <1>19
        DEF Next, JobStep, JobFails, UserStep

\* Every variable of the daily job and its tables stays in its type: dates stay
\* in the range of the log, windows and runs of the job in natural time.
THEOREM TypeCorrect == Spec => []TypeOK
<1>1. Typed => TypeOK
  BY DEF Typed
<1> QED BY <1>1, InitTyped, StepTyped, PTL DEF Spec

-----------------------------------------------------------------------------
(* At most once.                                                           *)

\* A message was sent only about a logged subject, never twice; what is being
\* announced is logged and not sent yet.
OnceInv == /\ \A k \in Keys : /\ delivered[k] <= 1
                              /\ delivered[k] = 1 => Logged(k[1], k[2])
           /\ pc = "notify" => /\ Logged(win.id, TargetDate(at))
                               /\ delivered[<<win.id, TargetDate(at)>>] = 0

\* The kinds of steps: one that logs and sends nothing and takes nobody on, one
\* that inserts a row, and one that sends.
Quiet == UNCHANGED <<log, delivered>> /\ (pc' = "notify" => UNCHANGED <<pc, at, win>>)
Claim == MarkChargePlanDispatched /\ ~Logged(win.id, TargetDate(at))

LEMMA StepKinds == [Next]_vars => Quiet \/ Claim \/ Notify
<1> SUFFICES ASSUME [Next]_vars, ~Claim, ~Notify
             PROVE  Quiet
  OBVIOUS
<1>1. CASE \/ Tick \/ Fire \/ RefreshExhausted \/ ListEnabledChargePlans \/ ListFails
           \/ ReadClock \/ FindWindow \/ Crash \/ Restart \/ StartupRefreshFails
           \/ \E last \in Horizons : RefreshSucceeds(last) \/ RefreshStopsShort(last) \/ StartupRefresh(last)
           \/ UserStep \/ UNCHANGED vars
  BY <1>1 DEF Quiet, Tick, Fire, RefreshExhausted, ListEnabledChargePlans, ListFails, ReadClock,
              FindWindow, Crash, Restart, StartupRefreshFails, RefreshSucceeds, RefreshStopsShort,
              StartupRefresh, UserStep, CreateChargePlan, CancelChargePlan,
              LocalOnly, vars, timeVars, dbVars, jobVars
<1>2. CASE SkipPlan(FALSE) \/ SkipPlan(TRUE) \/ MarkFails \/ NotifyFails
  BY <1>2 DEF Quiet, SkipPlan, MarkFails, NotifyFails, NextPlan, LocalOnly, dbVars
<1>3. CASE MarkChargePlanDispatched
  BY <1>3 DEF Claim, Quiet, MarkChargePlanDispatched, NextPlan
<1> QED BY <1>1, <1>2, <1>3 DEF Next, JobStep, JobFails

\* What a claim does: the row is there afterwards, and nothing was sent for it.
LEMMA ClaimEffect ==
    ASSUME Typed, OnceInv, Claim
    PROVE  \E id \in Ids, date \in Dates :
              /\ id = win.id /\ date = TargetDate(at)
              /\ pc = "mark" /\ pc' = "notify" /\ UNCHANGED <<at, win, delivered>>
              /\ ~Logged(id, date) /\ delivered[<<id, date>>] = 0
              /\ \A i \in Ids, d \in Dates :
                    Logged(i, d)' <=> Logged(i, d) \/ (i = id /\ d = date)
<1>0. PICK id \in Ids, date \in Dates : id = win.id /\ date = TargetDate(at)
  BY PlanAssumption, TargetDateTyped
     DEF Claim, MarkChargePlanDispatched, Typed, TypeOK, WindowSet, Found
<1> DEFINE new == [id |-> id, date |-> date, day |-> LocalDay(at)]
<1>1. /\ pc = "mark" /\ pc' = "notify" /\ UNCHANGED <<at, win, delivered>>
      /\ ~Logged(id, date) /\ log' = log \cup {new}
  BY <1>0 DEF Claim, MarkChargePlanDispatched
<1>2. new.id = id /\ new.date = date
  OBVIOUS
<1> HIDE DEF new
<1>3. ASSUME NEW i \in Ids, NEW d \in Dates
      PROVE  Logged(i, d)' <=> Logged(i, d) \/ (i = id /\ d = date)
  <2>1. Logged(i, d)' <=> \E row \in log \cup {new} : row.id = i /\ row.date = d
    BY <1>1 DEF Logged
  <2> QED BY <2>1, <1>2 DEF Logged
<1>4. delivered[<<id, date>>] = 0
  <2>1. <<id, date>> \in Keys
    BY DEF Keys
  <2>2. delivered[<<id, date>>] \in Nat /\ delivered[<<id, date>>] <= 1
    BY <2>1 DEF Typed, TypeOK, OnceInv
  <2>3. delivered[<<id, date>>] # 1
    BY <1>1, <2>1 DEF OnceInv
  <2> QED BY <2>2, <2>3
<1> QED BY <1>0, <1>1, <1>3, <1>4

\* What a send does.
LEMMA SendEffect ==
    ASSUME Typed, OnceInv, Notify
    PROVE  \E id \in Ids, date \in Dates :
              /\ id = win.id /\ date = TargetDate(at)
              /\ pc = "notify" /\ pc' # "notify" /\ UNCHANGED log
              /\ Logged(id, date)
              /\ delivered[<<id, date>>] = 0
              /\ delivered' = [delivered EXCEPT ![<<id, date>>] = 1]
<1>0. PICK id \in Ids, date \in Dates : id = win.id /\ date = TargetDate(at)
  BY PlanAssumption, TargetDateTyped DEF Notify, Typed, TypeOK, WindowSet, Found
<1>1. /\ delivered[<<id, date>>] = 0 /\ Logged(id, date)
      /\ delivered' = [delivered EXCEPT ![<<id, date>>] = delivered[<<id, date>>] + 1]
  BY <1>0 DEF Notify, OnceInv
<1>2. delivered' = [delivered EXCEPT ![<<id, date>>] = 1]
  BY <1>1
<1>3. pc = "notify" /\ pc' # "notify" /\ UNCHANGED log
  BY DEF Notify, NextPlan, dbVars
<1> QED BY <1>0, <1>1, <1>2, <1>3

LEMMA OnceStep == Typed /\ OnceInv /\ [Next]_vars => OnceInv'
<1> SUFFICES ASSUME Typed, OnceInv, [Next]_vars
             PROVE  OnceInv'
  OBVIOUS
<1>1. CASE Quiet
  BY <1>1 DEF Quiet, OnceInv, Logged
<1>2. CASE Claim
  <2>1. PICK id \in Ids, date \in Dates :
              /\ id = win.id /\ date = TargetDate(at)
              /\ pc = "mark" /\ pc' = "notify" /\ UNCHANGED <<at, win, delivered>>
              /\ ~Logged(id, date) /\ delivered[<<id, date>>] = 0
              /\ \A i \in Ids, d \in Dates :
                    Logged(i, d)' <=> Logged(i, d) \/ (i = id /\ d = date)
    BY <1>2, ClaimEffect
  <2> QED BY <2>1 DEF OnceInv, Keys
<1>3. CASE Notify
  <2>1. PICK id \in Ids, date \in Dates :
              /\ id = win.id /\ date = TargetDate(at)
              /\ pc = "notify" /\ pc' # "notify" /\ UNCHANGED log
              /\ Logged(id, date)
              /\ delivered[<<id, date>>] = 0
              /\ delivered' = [delivered EXCEPT ![<<id, date>>] = 1]
    BY <1>3, SendEffect
  <2>2. ASSUME NEW k \in Keys
        PROVE  delivered'[k] <= 1 /\ (delivered'[k] = 1 => Logged(k[1], k[2])')
    <3>1. CASE k = <<id, date>>
      BY <2>1, <3>1 DEF Logged, Typed, TypeOK
    <3>2. CASE k # <<id, date>>
      BY <2>1, <3>2 DEF Logged, OnceInv, Typed, TypeOK
    <3> QED BY <3>1, <3>2
  <2> QED BY <2>1, <2>2 DEF OnceInv
<1> QED BY <1>1, <1>2, <1>3, StepKinds

LEMMA OnceInit == Init => OnceInv
BY DEF Init, OnceInv

\* No plan is announced twice for one target date, whatever crashes, restarts,
\* fails or is cancelled, and wherever the clocks change: the row is inserted
\* before the message is sent, and only a new row leads to a message.
THEOREM PlanAtMostOnceHolds == Spec => []PlanAtMostOnce
<1>1. OnceInv => PlanAtMostOnce
  BY DEF OnceInv, PlanAtMostOnce
<1> QED BY <1>1, InitTyped, StepTyped, OnceInit, OnceStep, PTL DEF Spec

-----------------------------------------------------------------------------
(* The job implements OnceOnly.                                            *)

LEMMA PromiseInit == Init => Promise!Init
BY DEF Init, Promise!Init, Settled, Logged

LEMMA PromiseStep == Typed /\ OnceInv /\ [Next]_vars => [Promise!Next]_Promise!vars
<1> SUFFICES ASSUME Typed, OnceInv, [Next]_vars
             PROVE  [Promise!Next]_Promise!vars
  OBVIOUS
<1>1. CASE Quiet
  <2> DEFINE lost == Settled' \ Settled
  <2>1. Settled \subseteq Settled'
    BY <1>1 DEF Quiet, Settled, Logged, InFlight
  <2>2. Promise!Abandon(lost)
    BY <1>1, <2>1 DEF Quiet, Promise!Abandon
  <2>3. lost \in SUBSET Keys
    BY DEF Settled
  <2> QED BY <2>2, <2>3 DEF Promise!Next
<1>2. CASE Claim
  <2>1. PICK id \in Ids, date \in Dates :
              /\ id = win.id /\ date = TargetDate(at)
              /\ pc = "mark" /\ pc' = "notify" /\ UNCHANGED <<at, win, delivered>>
              /\ ~Logged(id, date) /\ delivered[<<id, date>>] = 0
              /\ \A i \in Ids, d \in Dates :
                    Logged(i, d)' <=> Logged(i, d) \/ (i = id /\ d = date)
    BY <1>2, ClaimEffect
  <2>2. Settled' = Settled
    BY <2>1 DEF Settled, InFlight, Keys
  <2> QED BY <2>1, <2>2 DEF Promise!vars
<1>3. CASE Notify
  <2>1. PICK id \in Ids, date \in Dates :
              /\ id = win.id /\ date = TargetDate(at)
              /\ pc = "notify" /\ pc' # "notify" /\ UNCHANGED log
              /\ Logged(id, date)
              /\ delivered[<<id, date>>] = 0
              /\ delivered' = [delivered EXCEPT ![<<id, date>>] = 1]
    BY <1>3, SendEffect
  <2> DEFINE k == <<id, date>>
  <2>2. k \in Keys /\ k \notin Settled /\ Settled' = Settled \cup {k}
    BY <2>1 DEF Settled, InFlight, Keys, Logged
  <2>3. delivered' = [delivered EXCEPT ![k] = delivered[k] + 1]
    BY <2>1
  <2>4. Promise!Deliver(k)
    BY <2>2, <2>3 DEF Promise!Deliver
  <2> QED BY <2>2, <2>4 DEF Promise!Next
<1> QED BY <1>1, <1>2, <1>3, StepKinds

\* The daily job keeps the promise of OnceOnly to the owner of every plan on
\* every date: a send is the Deliver step, a failed send or a crash after the
\* row was inserted is Abandon, everything else is invisible.
THEOREM JobImplementsOnceOnly == Spec => ImplementsOnceOnly
BY InitTyped, StepTyped, OnceInit, OnceStep, PromiseInit, PromiseStep, PTL
   DEF Spec, ImplementsOnceOnly, Promise!Spec

-----------------------------------------------------------------------------
(* New plans.                                                              *)

\* AUTOINCREMENT's counter is an upper bound of every id that is anywhere.
SeqBound == /\ seq \in Nat
            /\ \A i \in Ids : plans[i] # NoPlan => i <= seq
            /\ \A row \in log : row.id <= seq
            /\ \A p \in todo : p.id <= seq
            /\ win # NoWindow => win.id <= seq

LEMMA SeqInit == Init => SeqBound
BY DEF Init, SeqBound

LEMMA SeqStep == Typed /\ SeqBound /\ [Next]_vars => SeqBound'
<1> SUFFICES ASSUME Typed, SeqBound, [Next]_vars
             PROVE  SeqBound'
  OBVIOUS
<1> USE DEF SeqBound, timeVars, dbVars, jobVars
<1>1. CASE Tick \/ Fire \/ RefreshExhausted \/ ListFails \/ ReadClock \/ Crash \/ Restart
           \/ StartupRefreshFails \/ UNCHANGED vars
           \/ \E last \in Horizons : RefreshSucceeds(last) \/ RefreshStopsShort(last) \/ StartupRefresh(last)
  BY <1>1 DEF Tick, Fire, RefreshExhausted, ListFails, ReadClock, Crash, Restart,
              StartupRefreshFails, RefreshSucceeds, RefreshStopsShort, StartupRefresh, LocalOnly, vars
<1>2. CASE ListEnabledChargePlans
  BY <1>2 DEF ListEnabledChargePlans, LocalOnly
<1>3. CASE FindWindow
  BY <1>3 DEF FindWindow, LocalOnly
<1>4. CASE SkipPlan(FALSE) \/ SkipPlan(TRUE) \/ MarkFails \/ NotifyFails \/ Notify
  BY <1>4 DEF SkipPlan, MarkFails, NotifyFails, Notify, NextPlan, LocalOnly
<1>5. CASE MarkChargePlanDispatched
  <2>1. win.id <= seq
    BY <1>5 DEF MarkChargePlanDispatched, Typed, WindowSet, Found, NoWindow
  <2> QED BY <1>5, <2>1 DEF MarkChargePlanDispatched, NextPlan
<1>6. ASSUME NEW o \in Offers, CreateChargePlan(o) PROVE SeqBound'
  <2>1. PICK n \in Ids : /\ seq < n /\ seq' = n /\ plans' = [plans EXCEPT ![n] = o]
                         /\ UNCHANGED <<log, todo, win>>
    BY <1>6 DEF CreateChargePlan, NewId
  <2>2. n \in Nat /\ Ids \subseteq Nat /\ seq <= n
    BY <2>1, PlanAssumption
  <2>3. ASSUME NEW j \in Nat, j <= seq PROVE j <= seq'
    BY <2>1, <2>2, <2>3
  <2>4. \A j \in Ids : plans'[j] # NoPlan => j <= seq'
    <3> SUFFICES ASSUME NEW j \in Ids, plans'[j] # NoPlan PROVE j <= seq'
      OBVIOUS
    <3>1. CASE j = n
      BY <2>1, <2>2, <3>1
    <3>2. CASE j # n
      <4>1. plans[j] # NoPlan /\ j \in Nat
        BY <2>1, <2>2, <3>2 DEF Typed, TypeOK
      <4> QED BY <2>3, <4>1
    <3> QED BY <3>1, <3>2
  <2>5. \A row \in log' : row.id <= seq'
    <3>1. \A row \in log : row.id \in Nat
      BY <2>2 DEF Typed, TypeOK, LogRow
    <3> QED BY <2>1, <2>3, <3>1
  <2>6. \A p \in todo' : p.id <= seq'
    <3>1. \A p \in todo : p.id \in Nat
      BY <2>2 DEF Typed, TypeOK, Listed
    <3> QED BY <2>1, <2>3, <3>1
  <2>7. win' # NoWindow => win'.id <= seq'
    <3>1. win # NoWindow => win.id \in Nat
      BY <2>2 DEF Typed, TypeOK, Found
    <3> QED BY <2>1, <2>3, <3>1
  <2> QED BY <2>1, <2>2, <2>4, <2>5, <2>6, <2>7
<1>7. ASSUME NEW i \in Ids, CancelChargePlan(i) PROVE SeqBound'
  BY <1>7 DEF CancelChargePlan, Typed, TypeOK
<1> QED BY <1>1, <1>2, <1>3, <1>4, <1>5, <1>6, <1>7
        DEF Next, JobStep, JobFails, UserStep

\* A step that puts a plan under an id takes an id above every id in use.
LEMMA NewPlanStep ==
    ASSUME Typed, SeqBound, Next
    PROVE  \A i \in Ids : plans[i] = NoPlan /\ plans'[i] # NoPlan =>
              (\A row \in log : row.id # i) /\ (\A p \in todo : p.id # i) /\ win.id # i
<1> SUFFICES ASSUME NEW i \in Ids, plans[i] = NoPlan, plans'[i] # NoPlan
             PROVE  (\A row \in log : row.id # i) /\ (\A p \in todo : p.id # i) /\ win.id # i
  OBVIOUS
<1>1. PICK o \in Offers : CreateChargePlan(o)
  BY DEF Next, JobStep, JobFails, UserStep, Tick, Fire, RefreshExhausted, ListFails, ReadClock,
         Crash, Restart, StartupRefreshFails, RefreshSucceeds, RefreshStopsShort, StartupRefresh, LocalOnly,
         ListEnabledChargePlans, FindWindow, SkipPlan, MarkFails, NotifyFails, Notify,
         MarkChargePlanDispatched, CancelChargePlan, timeVars, dbVars, jobVars, Typed, TypeOK
<1>2. seq < i /\ i \in Nat /\ seq \in Nat
  BY <1>1, PlanAssumption DEF CreateChargePlan, NewId, Typed, TypeOK, SeqBound
<1>3. (\A row \in log : row.id # i) /\ (\A p \in todo : p.id # i)
  BY <1>2 DEF SeqBound
<1>4. win.id # i
  BY <1>2 DEF SeqBound, NoWindow
<1> QED BY <1>3, <1>4

\* The id of a new plan is in no row of the log and in no hands of a running
\* job: cancelling plans and making new ones never silences a plan, nor sends
\* one plan's message under another's name.
THEOREM NewPlanIsUnknownHolds == Spec => NewPlanIsUnknown
<1>1. Typed /\ SeqBound /\ [Next]_vars =>
        [\A i \in Ids : plans[i] = NoPlan /\ plans'[i] # NoPlan =>
           /\ \A row \in log : row.id # i
           /\ \A p \in todo : p.id # i
           /\ win.id # i]_vars
  BY NewPlanStep
<1> QED BY <1>1, InitTyped, StepTyped, SeqInit, SeqStep, PTL DEF Spec, NewPlanIsUnknown

-----------------------------------------------------------------------------
(* Two local days of one date.                                             *)

\* What a quotient is, from its bounds.
LEMMA DivOf ==
    ASSUME NEW a \in Nat, NEW D \in Nat, D > 0, NEW k \in Nat,
           k * D <= a, a < (k + 1) * D
    PROVE  a \div D = k
<1> DEFINE q == a \div D
<1>1. q \in Nat /\ q * D <= a /\ a < (q + 1) * D
  OBVIOUS
<1> HIDE DEF q
<1>2. CASE q < k
  <2>1. (q + 1) * D <= k * D
    BY <1>1, <1>2
  <2> QED BY <1>1, <2>1
<1>3. CASE k < q
  <2>1. (k + 1) * D <= q * D
    BY <1>1, <1>3
  <2> QED BY <1>1, <2>1
<1>4. q = k
  BY <1>1, <1>2, <1>3
<1> QED BY <1>4 DEF q

\* Local midnight is UTC midnight in winter, and where the clocks skip it; in summer
\* it is Shift earlier, and its date in UTC that of the day before.
LEMMA MidnightCases ==
    ASSUME NEW d \in Nat, NEW l, l = d * Day
    PROVE  \/ Midnight(d) = l /\ Offset(l) = 0 /\ UTCDate(Midnight(d)) = d
           \/ Midnight(d) = l /\ MidnightSkipped(d) /\ UTCDate(Midnight(d)) = d
           \/ /\ Midnight(d) = l - Shift /\ SpringAt <= l - Shift /\ l < FallAt
              /\ 1 <= d /\ UTCDate(Midnight(d)) = d - 1
<1>1. /\ Day \in Nat /\ Shift \in Nat /\ SpringAt \in Nat /\ FallAt \in Nat
      /\ 0 < Shift /\ Shift < Day /\ SpringAt + Day <= FallAt /\ l \in Nat
  BY ZoneAssumption
<1>2. Midnight(d) = l => UTCDate(Midnight(d)) = d
  <2>1. d * Day <= l /\ l < (d + 1) * Day
    BY <1>1
  <2>2. l \div Day = d
    BY <1>1, <2>1, DivOf
  <2> QED BY <2>2 DEF UTCDate
<1>3. CASE Offset(l) = 0
  BY <1>1, <1>2, <1>3 DEF Midnight, FromLocal
<1>4. CASE Offset(l) # 0 /\ l - Shift < SpringAt
  <2>1. SpringAt <= l /\ l < FallAt /\ Offset(l) = Shift /\ Offset(l - Shift) = 0
    BY <1>1, <1>4 DEF Offset
  <2>2. Midnight(d) = l
    BY <1>1, <1>4, <2>1 DEF Midnight, FromLocal
  <2>3. MidnightSkipped(d)
    BY <1>1, <2>1, <2>2 DEF MidnightSkipped, LocalClock
  <2> QED BY <1>2, <2>2, <2>3
<1>5. CASE Offset(l) # 0 /\ SpringAt <= l - Shift
  <2>1. l < FallAt /\ Offset(l) = Shift
    BY <1>1, <1>5 DEF Offset
  <2>2. Midnight(d) = l - Shift
    BY <1>1, <1>5, <2>1 DEF Midnight, FromLocal
  <2>3. d # 0
    BY <1>1, <1>5
  <2>4. /\ d - 1 \in Nat /\ l - Shift \in Nat
        /\ (d - 1) * Day <= l - Shift /\ l - Shift < ((d - 1) + 1) * Day
    BY <1>1, <1>5, <2>3
  <2>5. (l - Shift) \div Day = d - 1
    BY <1>1, <2>4, DivOf
  <2> QED BY <1>5, <2>1, <2>2, <2>3, <2>5 DEF UTCDate
<1> QED BY <1>1, <1>3, <1>4, <1>5 DEF Offset

\* Local days of one date are the same, or adjacent: the later one is in summer time
\* and the clocks went forward since the earlier one's midnight, or over it.
LEMMA SameDate ==
    ASSUME NEW d \in Nat, NEW e \in Nat, UTCDate(Midnight(d)) = UTCDate(Midnight(e)), d < e
    PROVE  /\ e = d + 1 /\ Midnight(e) = e * Day - Shift
           /\ SpringAt <= Midnight(e) /\ e * Day < FallAt
           /\ Offset(Midnight(d)) < Offset(Midnight(e)) \/ MidnightSkipped(d)
<1> DEFINE l == d * Day
           m == e * Day
<1>1. /\ Day \in Nat /\ Shift \in Nat /\ SpringAt \in Nat /\ FallAt \in Nat
      /\ 0 < Shift /\ Shift < Day /\ l \in Nat /\ m \in Nat
  BY ZoneAssumption
<1>2. \/ Midnight(d) = l /\ Offset(l) = 0 /\ UTCDate(Midnight(d)) = d
      \/ Midnight(d) = l /\ MidnightSkipped(d) /\ UTCDate(Midnight(d)) = d
      \/ /\ Midnight(d) = l - Shift /\ SpringAt <= l - Shift /\ l < FallAt
         /\ 1 <= d /\ UTCDate(Midnight(d)) = d - 1
  BY MidnightCases
<1>3. \/ Midnight(e) = m /\ Offset(m) = 0 /\ UTCDate(Midnight(e)) = e
      \/ Midnight(e) = m /\ MidnightSkipped(e) /\ UTCDate(Midnight(e)) = e
      \/ /\ Midnight(e) = m - Shift /\ SpringAt <= m - Shift /\ m < FallAt
         /\ 1 <= e /\ UTCDate(Midnight(e)) = e - 1
  BY MidnightCases
<1>4. /\ e = d + 1 /\ UTCDate(Midnight(d)) = d
      /\ Midnight(e) = m - Shift /\ SpringAt <= m - Shift /\ m < FallAt
  BY <1>2, <1>3
<1>5. m = l + Day
  BY <1>1, <1>4
<1> HIDE DEF l, m
<1>6. CASE MidnightSkipped(d)
  BY <1>4, <1>6 DEF m
<1>7. CASE ~MidnightSkipped(d)
  <2>1. Midnight(d) = l /\ Offset(l) = 0
    BY <1>2, <1>4, <1>7
  <2>2. Offset(Midnight(e)) = Shift
    BY <1>1, <1>4 DEF Offset
  <2> QED BY <1>1, <1>4, <2>1, <2>2 DEF m
<1> QED BY <1>6, <1>7

\* A later instant is on a later local day, or the same; it is on an earlier one only
\* when the clocks go back over a midnight, and then the two days differ in date.
LEMMA DaysOfOneDate ==
    ASSUME NEW t \in Nat, NEW u \in Nat, t <= u, TargetDate(t) = TargetDate(u)
    PROVE  LET d == LocalDay(t)  e == LocalDay(u)
           IN  \/ d = e
               \/ /\ d + 1 = e
                  /\ Offset(Midnight(d)) < Offset(Midnight(e)) \/ MidnightSkipped(d)
<1> DEFINE d == LocalDay(t)
           e == LocalDay(u)
<1>1. d \in Nat /\ e \in Nat /\ UTCDate(Midnight(d)) = UTCDate(Midnight(e))
  BY LocalDayNat DEF TargetDate
<1>2. ~(e < d)
  <2> SUFFICES ASSUME e < d PROVE FALSE
    OBVIOUS
  <2>1. d = e + 1 /\ d * Day < FallAt
    BY <1>1, SameDate
  <2>2. /\ Day \in Nat /\ Day > 0 /\ Shift \in Nat /\ SpringAt \in Nat /\ FallAt \in Nat
    BY ZoneAssumption
  <2>3. /\ LocalClock(t) \in Nat /\ LocalClock(u) \in Nat
    BY OffsetBounds DEF LocalClock
  <2>4. d * Day <= LocalClock(t) /\ d * Day \in Nat
    BY <2>2, <2>3, DivBounds DEF LocalDay
  <2>5. LocalClock(u) < d * Day
    <3>1. CASE LocalClock(u) < d * Day
      BY <3>1
    <3>2. CASE d * Day <= LocalClock(u)
      <4>1. (d * Day) \div Day <= LocalClock(u) \div Day
        BY <2>2, <2>3, <2>4, <3>2, DivMonotone
      <4>2. (d * Day) \div Day = d
        BY <1>1, <2>2, <2>4, DivOf
      <4> QED BY <1>1, <2>1, <4>1, <4>2 DEF LocalDay
    <3> QED BY <2>3, <2>4, <3>1, <3>2
  <2> HIDE DEF d, e
  <2>6. d * Day < FallAt /\ d * Day <= t + Offset(t) /\ u + Offset(u) < d * Day
    BY <2>1, <2>4, <2>5 DEF LocalClock
  <2> QED BY <2>2, <2>4, <2>6 DEF Offset
<1>3. CASE d < e
  BY <1>1, <1>3, SameDate
<1> QED BY <1>1, <1>2, <1>3

\* Every row was written by a run that looked at the clock no later than the one that
\* is under way, or than now.
Looked == IF pc \in {"plan", "mark", "notify"} THEN at ELSE now

RowInv == /\ at <= now
          /\ \A row \in log : \E t \in 0..Looked :
                row.day = LocalDay(t) /\ row.date = TargetDate(t)

LEMMA RowInit == Init => RowInv
BY DEF Init, RowInv

LEMMA RowStep == Typed /\ RowInv /\ [Next]_vars => RowInv'
<1> SUFFICES ASSUME Typed, RowInv, [Next]_vars PROVE RowInv'
  OBVIOUS
<1>0. now \in Nat /\ at \in Nat /\ MaxTime \in Nat /\ now <= MaxTime
  BY PlanAssumption DEF Typed, TypeOK
<1>1. CASE MarkChargePlanDispatched /\ ~Logged(win.id, TargetDate(at))
  <2>1. /\ log' = log \cup {[id |-> win.id, date |-> TargetDate(at), day |-> LocalDay(at)]}
        /\ pc = "mark" /\ pc' = "notify" /\ UNCHANGED <<at, now>>
    BY <1>1 DEF MarkChargePlanDispatched, timeVars
  <2>2. Looked = at /\ Looked' = at
    BY <2>1 DEF Looked
  <2>3. ASSUME NEW row \in log'
        PROVE  \E t \in 0..at : row.day = LocalDay(t) /\ row.date = TargetDate(t)
    <3>1. CASE row \in log
      BY <2>2, <3>1 DEF RowInv
    <3>2. CASE row \notin log
      <4>1. row.day = LocalDay(at) /\ row.date = TargetDate(at) /\ at \in 0..at
        BY <1>0, <2>1, <3>2
      <4> QED BY <4>1
    <3> QED BY <3>1, <3>2
  <2>4. \A row \in log' : \E t \in 0..Looked' :
           (row.day = LocalDay(t) /\ row.date = TargetDate(t))'
    BY <2>2, <2>3
  <2> QED BY <2>1, <2>4 DEF RowInv
<1>2. CASE ~(MarkChargePlanDispatched /\ ~Logged(win.id, TargetDate(at)))
  <2>1. log' = log
    BY <1>2, StepKinds DEF Claim, Quiet, Notify, dbVars
  <2>2. now' \in Nat /\ now <= now' /\ at' \in Nat /\ at' <= now' /\ Looked <= Looked'
    <3> USE DEF RowInv, Looked, timeVars, jobVars
    <3>1. CASE \/ Tick \/ Fire \/ RefreshExhausted \/ ListEnabledChargePlans \/ ListFails
               \/ ReadClock \/ FindWindow \/ Crash \/ Restart \/ StartupRefreshFails
               \/ \E last \in Horizons : RefreshSucceeds(last) \/ RefreshStopsShort(last) \/ StartupRefresh(last)
               \/ UserStep \/ UNCHANGED vars
      BY <1>0, <3>1
         DEF Tick, Fire, RefreshExhausted, ListEnabledChargePlans, ListFails, ReadClock,
             FindWindow, Crash, Restart, StartupRefreshFails, RefreshSucceeds, RefreshStopsShort,
             StartupRefresh, UserStep, CreateChargePlan, CancelChargePlan, LocalOnly, vars
    <3>2. CASE SkipPlan(FALSE) \/ SkipPlan(TRUE) \/ MarkFails \/ NotifyFails
               \/ MarkChargePlanDispatched \/ Notify
      BY <1>0, <1>2, <3>2
         DEF SkipPlan, MarkFails, NotifyFails, MarkChargePlanDispatched, Notify, NextPlan,
             LocalOnly
    <3> QED BY <3>1, <3>2 DEF Next, JobStep, JobFails
  <2>3. Looked \in Nat /\ Looked' \in Nat
    BY <1>0, <2>2 DEF Looked
  <2>4. 0..Looked \subseteq 0..Looked'
    BY <2>2, <2>3
  <2>5. ASSUME NEW row \in log
        PROVE  \E t \in 0..Looked' : (row.day = LocalDay(t) /\ row.date = TargetDate(t))'
    <3>1. PICK t \in 0..Looked : row.day = LocalDay(t) /\ row.date = TargetDate(t)
      BY DEF RowInv
    <3> QED BY <2>4, <3>1
  <2> QED BY <2>1, <2>2, <2>5 DEF RowInv
<1> QED BY <1>1, <1>2

\* A plan is only passed over as dispatched if it was on the same local day - or on the
\* day before, when the clocks went forward between the two midnights or over the first:
\* no other two days share a date, and clocks that go back do not make a day of them.
THEOREM SkipExplainedHolds == Spec => []SkipExplained
<1>1. Typed /\ RowInv => SkipExplained
  <2> SUFFICES ASSUME Typed, RowInv, pc = "mark",
                      NEW row \in log, row.id = win.id, row.date = TargetDate(at)
               PROVE  LET d == row.day  e == LocalDay(at)
                      IN  \/ d = e
                          \/ /\ d + 1 = e
                             /\ \/ Offset(Midnight(d)) < Offset(Midnight(e))
                                \/ MidnightSkipped(d)
    BY DEF SkipExplained
  <2>1. at \in Nat
    BY PlanAssumption DEF Typed, TypeOK
  <2>2. PICK t \in 0..at : row.day = LocalDay(t) /\ row.date = TargetDate(t)
    BY DEF RowInv, Looked
  <2>3. t \in Nat /\ t <= at /\ TargetDate(t) = TargetDate(at)
    BY <2>1, <2>2
  <2> QED BY <2>1, <2>2, <2>3, DaysOfOneDate
<1> QED BY <1>1, InitTyped, StepTyped, RowInit, RowStep, PTL DEF Spec

-----------------------------------------------------------------------------
(* The next time the clock shows a time of day.                            *)

\* The readings that show h on a clock of D units a day: that of day k, and from the
\* next day's on.
LEMMA ReadingsOf ==
    ASSUME NEW D \in Nat, D > 0, NEW h \in Nat, h < D, NEW k \in Nat
    PROVE  /\ (k * D + h) % D = h
           /\ \A l \in Nat : l % D = h /\ k * D <= l => l = k * D + h \/ k * D + h + D <= l
<1>1. ASSUME NEW l \in Nat
      PROVE  l \div D \in Nat /\ l = (l \div D) * D + (l % D)
  OBVIOUS
<1>2. (k * D + h) % D = h
  <2> DEFINE l == k * D + h
  <2>1. k * D \in Nat /\ l \in Nat /\ k * D <= l /\ l < (k + 1) * D
    OBVIOUS
  <2>2. l \div D = k
    BY <2>1, DivOf
  <2>3. l = k * D + (l % D)
    BY <1>1, <2>1, <2>2
  <2> HIDE DEF l
  <2>4. l % D \in Nat
    BY <2>1
  <2> QED BY <2>1, <2>3, <2>4 DEF l
<1>3. ASSUME NEW l \in Nat, l % D = h, k * D <= l
      PROVE  l = k * D + h \/ k * D + h + D <= l
  <2> DEFINE m == l \div D
  <2>1. m \in Nat /\ l = m * D + h
    BY <1>1, <1>3
  <2> HIDE DEF m
  <2>2. CASE m < k
    <3>1. (m + 1) * D <= k * D
      BY <2>1, <2>2
    <3> QED BY <1>3, <2>1, <3>1
  <2>3. CASE m = k
    BY <2>1, <2>3
  <2>4. CASE k < m
    <3>1. (k + 1) * D <= m * D
      BY <2>1, <2>4
    <3> QED BY <2>1, <3>1
  <2> QED BY <2>1, <2>2, <2>3, <2>4
<1> QED BY <1>2, <1>3

\* The zone's constants as numbers.
LEMMA ZoneNumbers ==
    /\ Day \in Nat /\ Shift \in Nat /\ SpringAt \in Nat /\ FallAt \in Nat
    /\ 0 < Shift /\ Shift + Shift <= Day /\ 0 < Day /\ SpringAt + Day + Day <= FallAt
BY ZoneAssumption

\* Where time.Date puts a reading.
LEMMA FromLocalCases ==
    ASSUME NEW l \in Nat
    PROVE  \/ /\ l < SpringAt \/ FallAt <= l
              /\ FromLocal(l) = l /\ LocalClock(FromLocal(l)) = l
           \/ /\ SpringAt <= l /\ l < SpringAt + Shift
              /\ FromLocal(l) = l /\ LocalClock(FromLocal(l)) = l + Shift
           \/ /\ SpringAt + Shift <= l /\ l < FallAt
              /\ FromLocal(l) = l - Shift /\ LocalClock(FromLocal(l)) = l
BY ZoneNumbers DEF FromLocal, LocalClock, Offset

\* Readings the clocks skip or repeat are odd.
LEMMA OddReadings ==
    ASSUME NEW l \in Nat,
           \/ SpringAt <= l /\ l < SpringAt + Shift
           \/ FallAt <= l /\ l < FallAt + Shift
    PROVE  Odd(l)
<1> DEFINE U == {u \in {l, l - Shift} : LocalClock(u) = l}
<1>1. CASE SpringAt <= l /\ l < SpringAt + Shift
  <2>1. LocalClock(l) # l /\ LocalClock(l - Shift) # l
    BY <1>1, ZoneNumbers DEF LocalClock, Offset
  <2>2. U = {}
    BY <2>1
  <2> QED BY <2>2, FS_EmptySet DEF Odd
<1>2. CASE FallAt <= l /\ l < FallAt + Shift
  <2>1. LocalClock(l) = l /\ LocalClock(l - Shift) = l /\ l # l - Shift
    BY <1>2, ZoneNumbers DEF LocalClock, Offset
  <2>2. U = {l - Shift} \cup {l} /\ l \notin {l - Shift}
    BY <2>1
  <2>3. IsFiniteSet({l - Shift}) /\ Cardinality({l - Shift}) = 1
    BY FS_Singleton
  <2>4. Cardinality(U) = 2
    BY <2>2, <2>3, FS_AddElement
  <2> QED BY <2>4 DEF Odd
<1> QED BY <1>1, <1>2

\* The clock shows reading x at u, or has just jumped over it.
Shows(u, x) == x = LocalClock(u) \/ (LocalClock(u - 1) < x /\ x <= LocalClock(u))

LEMMA ReachesReading ==
    ASSUME NEW u \in Nat, 0 < u, NEW h
    PROVE  Reaches(u, h) <=> \E x \in Nat : Shows(u, x) /\ x % Day = h
<1>1. /\ LocalClock(u) \in Nat /\ LocalClock(u - 1) \in Nat
  <2>1. u - 1 \in Nat
    OBVIOUS
  <2> QED BY <2>1, ZoneNumbers DEF LocalClock, Offset
<1>2. \A x : x \in (LocalClock(u - 1) + 1)..LocalClock(u) \cup {LocalClock(u)}
             <=> x \in Nat /\ Shows(u, x)
  BY <1>1 DEF Shows
<1> QED BY <1>2 DEF Reaches

\* A reading the clock has not come to is reached, no later than the same instant of UTC.
LEMMA ReachedAhead ==
    ASSUME NEW t \in Nat, NEW l \in Nat, LocalClock(t) < l
    PROVE  \E u \in Nat : t < u /\ u <= l /\ Shows(u, l)
<1> USE ZoneNumbers
<1>1. CASE SpringAt <= l /\ l < SpringAt + Shift
  <2>1. t < SpringAt /\ Shows(SpringAt, l)
    BY <1>1 DEF Shows, LocalClock, Offset
  <2> QED BY <1>1, <2>1
<1>2. CASE l < SpringAt \/ FallAt <= l
  <2>1. t < l /\ Shows(l, l)
    BY <1>2 DEF Shows, LocalClock, Offset
  <2> QED BY <2>1
<1>3. CASE SpringAt + Shift <= l /\ l < FallAt
  <2>1. l - Shift \in Nat /\ t < l - Shift /\ Shows(l - Shift, l)
    BY <1>3 DEF Shows, LocalClock, Offset
  <2> QED BY <2>1
<1> QED BY <1>1, <1>2, <1>3

\* After the instant time.Date finds for it, a reading is not shown again.
LEMMA NotShownAgain ==
    ASSUME NEW l \in Nat, NEW u \in Nat, FromLocal(l) < u
    PROVE  ~Shows(u, l)
BY FromLocalCases, ZoneNumbers DEF Shows, LocalClock, Offset

\* A reading that is not odd, and whatever comes after it, is not shown before that
\* instant, and is shown then.
LEMMA NotShownBefore ==
    ASSUME NEW l \in Nat, ~Odd(l), NEW u \in Nat, NEW x \in Nat, l <= x, Shows(u, x)
    PROVE  FromLocal(l) <= u /\ Shows(FromLocal(l), l)
<1>1. /\ ~(SpringAt <= l /\ l < SpringAt + Shift)
      /\ ~(FallAt <= l /\ l < FallAt + Shift)
  BY OddReadings
<1> QED BY <1>1, FromLocalCases, ZoneNumbers DEF Shows, LocalClock, Offset

\* Unless its day is taken back, the clock shows no reading of an earlier day after t.
LEMMA NoEarlierDay ==
    ASSUME NEW t \in Nat, NEW u \in Nat, t <= u, ~DayTakenBack(t)
    PROVE  LocalDay(t) * Day <= LocalClock(u)
<1>1. LocalClock(t) \in Nat /\ LocalClock(u) \in Nat /\ LocalClock(FallAt) = FallAt
  BY ZoneNumbers DEF LocalClock, Offset
<1>2. /\ LocalDay(t) \in Nat /\ LocalDay(t) * Day \in Nat /\ LocalDay(t) * Day <= LocalClock(t)
      /\ LocalDay(FallAt) \in Nat /\ LocalDay(FallAt) * Day \in Nat
      /\ LocalDay(FallAt) * Day <= FallAt
  BY <1>1, ZoneNumbers, DivBounds DEF LocalDay
<1>3. CASE LocalClock(t) <= LocalClock(u)
  BY <1>1, <1>2, <1>3
<1>4. CASE LocalClock(u) < LocalClock(t)
  <2>1. t < FallAt /\ FallAt <= LocalClock(u)
    BY <1>4, ZoneNumbers DEF LocalClock, Offset
  <2>2. LocalDay(t) <= LocalDay(FallAt)
    BY <1>2, <2>1 DEF DayTakenBack
  <2>3. LocalDay(t) * Day <= LocalDay(FallAt) * Day
    BY <1>2, <2>2, ZoneNumbers
  <2> QED BY <1>1, <1>2, <2>1, <2>3, ZoneNumbers
<1> QED BY <1>1, <1>3, <1>4

\* The deadline is the instant of today's reading a, if that is ahead, and otherwise
\* that of the same reading a day later - a + Day even if today's is skipped.
LEMMA DeadlineCases ==
    ASSUME NEW t \in Nat, NEW h \in 0..(Day - 1), NEW a, a = LocalDay(t) * Day + h
    PROVE  /\ a \in Nat /\ LocalClock(t) \in Nat /\ LocalClock(t) < a + Day
           /\ LocalDay(t) \in Nat /\ (LocalDay(t) + 1) * Day + h = a + Day
           /\ Deadline(t, h) \in Nat /\ t < Deadline(t, h)
           /\ \/ t < FromLocal(a) /\ Deadline(t, h) = FromLocal(a)
              \/ /\ FromLocal(a) <= t /\ Deadline(t, h) <= a + Day
                 /\ ~Odd(a) => Deadline(t, h) = FromLocal(a + Day)
<1>1. /\ LocalClock(t) \in Nat /\ LocalDay(t) \in Nat /\ LocalDay(t) * Day \in Nat
      /\ h \in Nat /\ h < Day
  BY LocalDayNat, ZoneNumbers DEF LocalClock, Offset
<1>2. /\ a \in Nat /\ a + Day \in Nat /\ (LocalDay(t) + 1) * Day + h = a + Day
  BY <1>1, ZoneNumbers
<1>3. LocalClock(t) < LocalDay(t) * Day + Day
  <2>1. CASE LocalDay(t) * Day + Day <= LocalClock(t)
    <3> DEFINE k == LocalDay(t) + 1
    <3>1. k \in Nat /\ k * Day <= LocalClock(t) /\ k * Day \in Nat
      BY <1>1, <2>1, ZoneNumbers
    <3>2. (k * Day) \div Day = k
      <4>1. k * Day < (k + 1) * Day
        BY <3>1, ZoneNumbers
      <4> QED BY <3>1, <4>1, ZoneNumbers, DivOf
    <3>3. k <= LocalDay(t)
      BY <1>1, <3>1, <3>2, ZoneNumbers, DivMonotone DEF LocalDay
    <3> QED BY <1>1, <3>3
  <2> QED BY <1>1, <2>1, ZoneNumbers
<1>4. LocalClock(t) < a + Day
  BY <1>1, <1>3, ZoneNumbers
<1>5. FromLocal(a) \in Nat
  BY <1>2, FromLocalBounds
<1>6. t < FromLocal(a) \/ FromLocal(a) <= t
  BY <1>5
<1>7. Deadline(t, h) \in Nat
  <2>1. LocalClock(FromLocal(a)) + Day \in Nat
    BY <1>5, ZoneNumbers DEF LocalClock, Offset
  <2>2. FromLocal(LocalClock(FromLocal(a)) + Day) \in Nat
    BY <2>1, FromLocalBounds
  <2> QED BY <1>5, <2>2 DEF Deadline
<1>8. CASE t < FromLocal(a)
  BY <1>1, <1>2, <1>4, <1>7, <1>8 DEF Deadline
<1>9. CASE FromLocal(a) <= t
  <2> DEFINE b == a + Day
  <2>1. Deadline(t, h) = FromLocal(LocalClock(FromLocal(a)) + Day)
    BY <1>1, <1>2, <1>9, FromLocalBounds DEF Deadline
  <2>2. CASE SpringAt <= a /\ a < SpringAt + Shift
    <3>1. FromLocal(a) = a /\ LocalClock(FromLocal(a)) = a + Shift
      BY <1>2, <2>2, FromLocalCases, ZoneNumbers
    <3>2. a + Shift + Day \in Nat /\ FromLocal(a + Shift + Day) = a + Day
      BY <1>2, <2>2, ZoneNumbers DEF FromLocal, Offset
    <3>3. Deadline(t, h) = b
      BY <2>1, <3>1, <3>2
    <3>4. t < b
      BY <1>4, ZoneNumbers DEF LocalClock, Offset
    <3>5. Odd(a)
      BY <1>2, <2>2, OddReadings
    <3> QED BY <1>1, <1>2, <1>4, <1>7, <1>9, <3>3, <3>4, <3>5
  <2>3. CASE ~(SpringAt <= a /\ a < SpringAt + Shift)
    <3>1. LocalClock(FromLocal(a)) = a
      BY <1>2, <2>3, FromLocalCases
    <3>2. Deadline(t, h) = FromLocal(b)
      BY <2>1, <3>1
    <3>3. FromLocal(b) \in Nat /\ FromLocal(b) <= b
      BY <1>2, FromLocalBounds
    <3>4. t < FromLocal(b)
      BY <1>2, <1>4, FromLocalCases, ZoneNumbers DEF LocalClock, Offset
    <3> QED BY <1>1, <1>2, <1>4, <1>7, <1>9, <3>2, <3>3, <3>4
  <2> QED BY <2>2, <2>3
<1> QED BY <1>6, <1>8, <1>9

\* The least element of a set of numbers is its Min.
LEMMA MinIsLeast ==
    ASSUME NEW T \in SUBSET Nat, T # {}
    PROVE  Min(T) \in T /\ \A x \in T : Min(T) <= x
<1>1. \E x \in T : \A y \in T : x <= y
  BY LeastExists
<1> QED BY <1>1 DEF Min

\* The first time after t that the clock shows h.
NextShown(t, h) == Min({u \in (t + 1)..(t + 2 * Day) : Reaches(u, h)})

LEMMA NextIsReached ==
    ASSUME NEW t \in Nat, NEW h \in 0..(Day - 1), NEW n, n = NextShown(t, h)
    PROVE  /\ n \in Nat /\ t < n /\ n <= t + 2 * Day /\ Reaches(n, h)
           /\ \A u \in Nat : t < u /\ Reaches(u, h) => n <= u
<1> DEFINE T == {u \in (t + 1)..(t + 2 * Day) : Reaches(u, h)}
           a == LocalDay(t) * Day + h
<1>1. /\ a \in Nat /\ LocalClock(t) \in Nat /\ LocalClock(t) < a + Day
      /\ LocalDay(t) \in Nat /\ (LocalDay(t) + 1) * Day + h = a + Day
      /\ h \in Nat /\ h < Day
  BY DeadlineCases, ZoneNumbers
<1>2. a % Day = h /\ (a + Day) % Day = h
  <2>1. a % Day = h
    BY <1>1, ZoneNumbers, ReadingsOf
  <2>2. ((LocalDay(t) + 1) * Day + h) % Day = h
    <3>1. LocalDay(t) + 1 \in Nat
      BY <1>1
    <3> QED BY <1>1, <3>1, ZoneNumbers, ReadingsOf
  <2> QED BY <1>1, <2>1, <2>2
<1>3. LocalDay(t) * Day <= LocalClock(t) /\ LocalClock(t) <= t + Shift
  BY <1>1, ZoneNumbers, DivBounds DEF LocalDay, LocalClock, Offset
<1>4. ASSUME NEW l \in Nat, l % Day = h, LocalClock(t) < l, l <= t + 2 * Day
      PROVE  T # {}
  <2>1. PICK u \in Nat : t < u /\ u <= l /\ Shows(u, l)
    BY <1>4, ReachedAhead
  <2>2. Reaches(u, h)
    BY <1>4, <2>1, ReachesReading
  <2>3. u \in (t + 1)..(t + 2 * Day)
    BY <1>4, <2>1, ZoneNumbers
  <2> QED BY <2>2, <2>3
<1>5. LocalDay(t) * Day \in Nat
  BY LocalDayNat
<1>6. T # {}
  <2>1. CASE LocalClock(t) < a
    <3>1. a <= t + 2 * Day
      BY <1>1, <1>3, <1>5, ZoneNumbers
    <3> HIDE DEF a, T
    <3> QED BY <1>1, <1>2, <1>4, <2>1, <3>1
  <2>2. CASE a <= LocalClock(t)
    <3> HIDE DEF a, T
    <3>1. a + Day \in Nat /\ a + Day <= t + 2 * Day
      BY <1>1, <1>3, <2>2, ZoneNumbers
    <3> QED BY <1>1, <1>2, <1>4, <3>1
  <2> QED BY <1>1, <2>1, <2>2
<1>7. T \in SUBSET Nat
  BY ZoneNumbers
<1>8. n \in T /\ \A u \in T : n <= u
  BY <1>6, <1>7, MinIsLeast DEF NextShown
<1>9. ASSUME NEW u \in Nat, t < u, Reaches(u, h) PROVE n <= u
  <2>1. CASE u <= t + 2 * Day
    <3>1. u \in T
      BY <1>9, <2>1, ZoneNumbers
    <3> QED BY <1>8, <3>1
  <2>2. CASE ~(u <= t + 2 * Day)
    BY <1>8, <2>2, ZoneNumbers
  <2> QED BY <2>1, <2>2
<1> QED BY <1>8, <1>9, ZoneNumbers

LEMMA DeadlineIsNext ==
    ASSUME NEW t \in Nat, NEW h \in 0..(Day - 1), NEW n, n = NextShown(t, h),
           ~DayTakenBack(t)
    PROVE  /\ Deadline(t, h) <= n + Shift
           /\ Deadline(t, h) # n =>
                 \E e \in {LocalDay(t), LocalDay(t) + 1} : Odd(e * Day + h)
<1> DEFINE a == LocalDay(t) * Day + h
           d == Deadline(t, h)
<1>0. a = LocalDay(t) * Day + h
  OBVIOUS
<1> HIDE DEF a
<1>1. /\ a \in Nat /\ d \in Nat /\ a + Day \in Nat /\ LocalDay(t) \in Nat
      /\ (LocalDay(t) + 1) * Day + h = a + Day /\ h \in Nat /\ h < Day
      /\ \/ t < FromLocal(a) /\ d = FromLocal(a)
         \/ /\ FromLocal(a) <= t /\ d <= a + Day
            /\ ~Odd(a) => d = FromLocal(a + Day)
  <2>1. h \in Nat /\ h < Day
    BY ZoneNumbers
  <2>2. /\ a \in Nat /\ d \in Nat /\ LocalDay(t) \in Nat
        /\ (LocalDay(t) + 1) * Day + h = a + Day
        /\ \/ t < FromLocal(a) /\ d = FromLocal(a)
           \/ /\ FromLocal(a) <= t /\ d <= a + Day
              /\ ~Odd(a) => d = FromLocal(a + Day)
    <3>1. /\ a \in Nat /\ Deadline(t, h) \in Nat /\ LocalDay(t) \in Nat
          /\ (LocalDay(t) + 1) * Day + h = a + Day
          /\ \/ t < FromLocal(a) /\ Deadline(t, h) = FromLocal(a)
             \/ /\ FromLocal(a) <= t /\ Deadline(t, h) <= a + Day
                /\ ~Odd(a) => Deadline(t, h) = FromLocal(a + Day)
      BY <1>0, DeadlineCases, SMTT(30)
    <3> QED BY <3>1
  <2>3. d \in Nat /\ a + Day \in Nat
    <3>1. Day \in Nat
      BY ZoneNumbers
    <3>2. d \in Nat
      BY <2>2
    <3> QED BY <2>2, <3>1, <3>2
  <2> QED BY <2>1, <2>2, <2>3
<1>2. /\ n \in Nat /\ t < n /\ Reaches(n, h)
      /\ \A u \in Nat : t < u /\ Reaches(u, h) => n <= u
  BY NextIsReached
<1>3. FromLocal(a) \in Nat /\ FromLocal(a) <= a /\ FromLocal(a + Day) \in Nat
  BY <1>1, FromLocalBounds
<1>4. PICK x \in Nat : Shows(n, x) /\ x % Day = h
  BY <1>2, ReachesReading
<1>5. x = a \/ a + Day <= x
  <2>1. LocalDay(t) * Day <= LocalClock(n) /\ LocalDay(t) * Day <= LocalClock(n - 1)
    <3>1. n - 1 \in Nat /\ t <= n - 1
      BY <1>2
    <3> QED BY <1>2, <3>1, NoEarlierDay
  <2>2. LocalDay(t) * Day <= x
    <3>1. /\ LocalDay(t) * Day \in Nat /\ LocalClock(n) \in Nat /\ LocalClock(n - 1) \in Nat
      BY <1>2, LocalDayNat, ZoneNumbers DEF LocalClock, Offset
    <3> QED BY <1>4, <2>1, <3>1 DEF Shows
  <2> QED BY <1>0, <1>1, <1>4, <2>2, ReadingsOf, ZoneNumbers
<1>6. x <= n + Shift
  BY <1>2, <1>4, ZoneNumbers DEF Shows, LocalClock, Offset
<1>7. FromLocal(a) <= t => x # a
  BY <1>1, <1>2, <1>3, <1>4, NotShownAgain
<1> HIDE DEF d
<1>8. d <= n + Shift
  BY <1>1, <1>2, <1>3, <1>5, <1>6, <1>7, ZoneNumbers
<1>9. ASSUME ~Odd(a), ~Odd(a + Day) PROVE d = n
  <2> DEFINE b == IF t < FromLocal(a) THEN a ELSE a + Day
  <2>1. b \in Nat /\ ~Odd(b) /\ b <= x /\ d = FromLocal(b) /\ b % Day = h
    <3>1. a % Day = h /\ (a + Day) % Day = h
      <4>1. a % Day = h
        BY <1>0, <1>1, ReadingsOf, ZoneNumbers
      <4>2. LocalDay(t) + 1 \in Nat
        BY <1>1
      <4>3. ((LocalDay(t) + 1) * Day + h) % Day = h
        BY <1>1, <4>2, ReadingsOf, ZoneNumbers
      <4> QED BY <1>1, <4>1, <4>3
    <3> QED BY <1>1, <1>3, <1>5, <1>7, <1>9, <3>1, ZoneNumbers
  <2>2. d \in Nat /\ d <= n /\ Shows(d, b)
    BY <1>1, <1>2, <1>3, <1>4, <2>1, NotShownBefore, FromLocalBounds
  <2>3. t < d
    BY <1>0, DeadlineCases DEF d
  <2>4. Reaches(d, h)
    BY <2>1, <2>2, <2>3, ReachesReading
  <2> QED BY <1>2, <2>2, <2>3, <2>4
<1> QED BY <1>0, <1>1, <1>8, <1>9 DEF d

\* "By hm" is the next time the clock shows hm, in every zone with a summer time: it is
\* ahead, and it is another instant, later by no more than the shift of the clocks, only
\* if they skip or repeat hm today or tomorrow - or are about to take the day back.
THEOREM DeadlineIsNextTimeHolds == Spec => []DeadlineIsNextTime
<1>1. Typed => DeadlineIsNextTime
  <2> SUFFICES ASSUME Typed, NEW hm \in 0..(Day - 1),
                      NEW next, next = Min({u \in (now + 1)..(now + 2 * Day) : Reaches(u, hm)})
               PROVE  /\ now < Deadline(now, hm)
                      /\ \/ DayTakenBack(now)
                         \/ /\ Deadline(now, hm) <= next + Shift
                            /\ Deadline(now, hm) # next =>
                                  \E e \in {LocalDay(now), LocalDay(now) + 1} :
                                      Odd(e * Day + hm)
    BY DEF DeadlineIsNextTime
  <2>1. now \in Nat
    BY PlanAssumption DEF Typed, TypeOK
  <2> QED BY <2>1, DeadlineCases, DeadlineIsNext DEF NextShown
<1> QED BY <1>1, InitTyped, StepTyped, PTL DEF Spec
=============================================================================
