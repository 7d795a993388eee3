---------------------------- MODULE ChargePlans ----------------------------
(***************************************************************************)
(* The daily job: scheduler.runRefreshAndDispatch at 16:15 local time, and *)
(* service.DispatchTodaysChargePlans behind it, against the charge_plans,  *)
(* rates and charge_dispatch_log tables, while users create and cancel     *)
(* plans and the process crashes and restarts, over a summer-time change.  *)
(*                                                                         *)
(* One step is one storage call, one clock read or one send.  The plans    *)
(* are one chat's: a plan never changes its chat, so the chat is left out  *)
(* of the keys.  The chat is in the zone of the job (no code gives it      *)
(* another one) and in one region.  Time is counted in rate slots.  Which  *)
(* of the windows that fit is the cheapest is open here.                   *)
(***************************************************************************)
EXTENDS LocalTime, FiniteSets

CONSTANTS Ids,          \* plan ids in the order AUTOINCREMENT gives them (bound)
          Offers,       \* the [start, end, slots] users may ask for (bound)
          NoPlan,
          RefreshAt,    \* local clock reading of the daily job
          JobMax,       \* how long a run of the job may last
          Horizons,     \* last slots Octopus may have published (bound)
          MaxTime       \* the clock stops here (bound)

ASSUME PlanAssumption ==
          /\ Ids \subseteq Nat /\ IsFiniteSet(Ids)
          /\ 0 \notin Ids
          /\ Offers \subseteq [start : 0..(Day - 1), end : 0..(Day - 1), slots : Nat \ {0}]
          /\ NoPlan \notin Offers
          /\ RefreshAt \in 0..(Day - 1) /\ JobMax \in Nat
          /\ Horizons \subseteq Nat /\ MaxTime \in Nat

VARIABLES now, up, cold,             \* clock, process, its refresh at start due
          lastRun, nextRun,          \* the daily job's runs
          plans, seq, log, cache,    \* the tables; seq: the last id given out
          delivered,                 \* messages sent per (plan, target date)
          pc, at, todo, win          \* the job's locals

dbVars  == <<plans, seq, log, cache>>
jobVars == <<pc, at, todo, win>>
timeVars == <<now, up, cold, lastRun, nextRun>>
vars    == <<timeVars, dbVars, delivered, jobVars>>

Dates    == 0..UTCDate(MaxTime + Day)
Keys     == Ids \X Dates
Slots    == 0..(MaxTime + 3 * Day)
LogRow   == [id : Ids, date : Dates, day : Nat]   \* day: of the run that wrote it
Listed   == [id : Ids, offer : Offers]
Found    == [id : Ids, start : Nat, end : Nat]
NoWindow == [id |-> -1]

TypeOK == /\ now \in 0..MaxTime /\ up \in BOOLEAN /\ cold \in BOOLEAN
          /\ lastRun \in Nat /\ nextRun \in Nat
          /\ plans \in [Ids -> Offers \cup {NoPlan}]
          /\ seq \in Ids \cup {0}
          /\ log \subseteq LogRow
          /\ cache \subseteq Slots
          /\ delivered \in [Keys -> Nat]
          /\ pc \in {"idle", "refresh", "list", "stamp", "plan", "mark", "notify"}
          /\ at \in 0..MaxTime
          /\ todo \subseteq Listed
          /\ win \in Found \cup {NoWindow}

\* The first run of the daily job after t.
NextRunAfter(t) == LET today == FromLocal(LocalDay(t) * Day + RefreshAt)
                   IN  IF t < today THEN today
                       ELSE FromLocal((LocalDay(t) + 1) * Day + RefreshAt)

Init == /\ now = 0 /\ up = TRUE /\ cold = TRUE
        /\ lastRun = 0 /\ nextRun = NextRunAfter(0)
        /\ plans = [i \in Ids |-> NoPlan] /\ seq = 0
        /\ log = {} /\ cache = {}
        /\ delivered = [k \in Keys |-> 0]
        /\ pc = "idle" /\ at = 0 /\ todo = {} /\ win = NoWindow

-----------------------------------------------------------------------------
(* The allowed window of a plan, and the row that stands for its day.      *)

From(o, d) == FromLocal(d * Day + o.start)

\* An end that is not after the start is tomorrow's (AddDate, in local time).
To(o, d) == LET e == FromLocal(d * Day + o.end)
            IN  IF From(o, d) < e THEN e ELSE FromLocal(LocalClock(e) + Day)

\* The windows agile.CheapestWindow chooses from.
Candidates(o, d) == {f \in cache : /\ From(o, d) <= f /\ f + o.slots <= To(o, d)
                                   /\ f..(f + o.slots - 1) \subseteq cache}

\* Mutants: the offset of now taken for midnight's; the day before.
TargetDateByPresentOffset(t) == UTCDate(LocalDay(t) * Day - Offset(t))
TargetDateOfDayBefore(t) == UTCDate(Midnight(LocalDay(t)) - Day)

\* Local midnight of the sweep's day, formatted in UTC.
TargetDate(t) == UTCDate(Midnight(LocalDay(t)))

Logged(id, date) == \E row \in log : row.id = id /\ row.date = date

-----------------------------------------------------------------------------
(* The clock and the scheduler.                                            *)

\* A run of the job is retried and waited for no longer than its deadline.
Tick == /\ now < MaxTime
        /\ up => now < nextRun
        /\ pc # "idle" => now < lastRun + JobMax
        /\ now' = now + 1
        /\ UNCHANGED <<up, cold, lastRun, nextRun, dbVars, delivered, jobVars>>

Fire == /\ up /\ now = nextRun /\ pc = "idle"
        /\ lastRun' = now
        /\ nextRun' = NextRunAfter(now)
        /\ pc' = "refresh"
        /\ UNCHANGED <<now, up, cold, dbVars, delivered, at, todo, win>>

\* A refresh stores what is published from the current slot on.
Fetched(last) == cache' = cache \cup {f \in Slots : now <= f /\ f <= last}

RefreshSucceeds(last) == /\ pc = "refresh"
                         /\ pc' = "list"
                         /\ Fetched(last)
                         /\ UNCHANGED <<timeVars, plans, seq, log, delivered,
                                        at, todo, win>>

\* A try stores the rates of the region, and fails at a later one; what is stored
\* stays, whether the next try succeeds or the job gives up.
RefreshStopsShort(last) == /\ pc = "refresh"
                           /\ Fetched(last)
                           /\ UNCHANGED <<timeVars, plans, seq, log, delivered, jobVars>>

RefreshExhausted == /\ pc = "refresh"
                    /\ pc' = "idle"
                    /\ UNCHANGED <<timeVars, dbVars, delivered, at, todo, win>>

-----------------------------------------------------------------------------
(* The steps of DispatchTodaysChargePlans.                                 *)

LocalOnly == UNCHANGED <<timeVars, dbVars, delivered>>

\* The loop goes on to its next plan, or the job ends.
NextPlan(rest) == /\ pc' = IF rest = {} THEN "idle" ELSE "plan"
                  /\ at' = IF rest = {} THEN 0 ELSE at
                  /\ todo' = rest
                  /\ win' = NoWindow

ListEnabledChargePlans ==
    LET enabled == {[id |-> i, offer |-> plans[i]] :
                      i \in {j \in Ids : plans[j] # NoPlan}}
    IN  /\ pc = "list"
        /\ todo' = enabled
        /\ pc' = IF enabled = {} THEN "idle" ELSE "stamp"
        /\ UNCHANGED <<at, win>>
        /\ LocalOnly

ListFails == /\ pc = "list" /\ pc' = "idle"
             /\ UNCHANGED <<at, todo, win>>
             /\ LocalOnly

ReadClock == /\ pc = "stamp" /\ pc' = "plan"
             /\ at' = now
             /\ UNCHANGED <<todo, win>>
             /\ LocalOnly

First(p) == p \in todo /\ \A q \in todo : p.id <= q.id

\* Reads the chat and the rates of the plan's window, and picks a window.  Of these
\* only the rates change while the job is at work, so it is one step.
FindWindow == /\ pc = "plan"
              /\ \E p \in todo : /\ First(p)
                                 /\ \E f \in Candidates(p.offer, LocalDay(at)) :
                                      win' = [id |-> p.id, start |-> f,
                                              end |-> f + p.offer.slots]
                                 /\ todo' = todo \ {p}
              /\ pc' = "mark"
              /\ UNCHANGED at
              /\ LocalOnly

\* Mutant: the loop is left instead of continued.
ReturnAtMisfit(onError) == /\ pc = "plan"
                           /\ \E p \in todo : /\ First(p)
                                              /\ onError \/ Candidates(p.offer, LocalDay(at)) = {}
                                              /\ NextPlan({})
                           /\ LocalOnly

\* No window fits what is cached, or a read fails: no row, no message.
SkipPlan(onError) == /\ pc = "plan"
                     /\ \E p \in todo : /\ First(p)
                                        /\ onError \/ Candidates(p.offer, LocalDay(at)) = {}
                                        /\ NextPlan(todo \ {p})
                     /\ LocalOnly

\* Mutant: INSERT OR REPLACE, which reports every row as new.
MarkAlwaysFresh ==
    /\ pc = "mark"
    /\ log' = log \cup {[id |-> win.id, date |-> TargetDate(at), day |-> LocalDay(at)]}
    /\ pc' = "notify"
    /\ UNCHANGED <<at, todo, win, timeVars, plans, seq, cache, delivered>>

MarkChargePlanDispatched ==
    /\ pc = "mark"
    /\ IF Logged(win.id, TargetDate(at))
       THEN log' = log /\ NextPlan(todo)     \* "already dispatched today"
       ELSE /\ log' = log \cup {[id |-> win.id, date |-> TargetDate(at), day |-> LocalDay(at)]}
            /\ pc' = "notify"
            /\ UNCHANGED <<at, todo, win>>
    /\ UNCHANGED <<timeVars, plans, seq, cache, delivered>>

MarkFails == /\ pc = "mark" /\ NextPlan(todo) /\ LocalOnly

\* Mutant: a send is repeated, as if its answer had been lost.
NotifyAgain == /\ pc = "notify"
               /\ delivered[<<win.id, TargetDate(at)>>] < 2
               /\ delivered' = [delivered EXCEPT ![<<win.id, TargetDate(at)>>] = @ + 1]
               /\ UNCHANGED <<timeVars, dbVars, jobVars>>

Notify == /\ pc = "notify"
          /\ delivered' = [delivered EXCEPT ![<<win.id, TargetDate(at)>>] = @ + 1]
          /\ NextPlan(todo)
          /\ UNCHANGED <<timeVars, dbVars>>

NotifyFails == /\ pc = "notify" /\ NextPlan(todo) /\ LocalOnly

-----------------------------------------------------------------------------
(* Users and the process.                                                  *)

\* Mutant: without AUTOINCREMENT SQLite takes the id after the largest in use.
IdAfterLargest(i) == /\ \A j \in Ids : plans[j] # NoPlan => j < i
                     /\ \A k \in Ids : k < i =>
                            \E j \in Ids : plans[j] # NoPlan /\ k <= j

\* AUTOINCREMENT: an id is larger than every id ever given out.
NewId(i) == /\ seq < i
            /\ \A j \in Ids : seq < j => i <= j

CreateChargePlan(o) ==
    /\ up
    /\ \E i \in Ids : /\ NewId(i)
                      /\ seq' = i
                      /\ plans' = [plans EXCEPT ![i] = o]
    /\ UNCHANGED <<timeVars, log, cache, delivered, jobVars>>

CancelChargePlan(i) == /\ up
                       /\ plans' = [plans EXCEPT ![i] = NoPlan]
                       /\ UNCHANGED <<timeVars, seq, log, cache, delivered, jobVars>>

Crash == /\ up /\ up' = FALSE
         /\ pc' = "idle" /\ at' = 0 /\ todo' = {} /\ win' = NoWindow
         /\ UNCHANGED <<now, cold, lastRun, nextRun, dbVars, delivered>>

\* The job is registered anew, for its next time of day.
Restart == /\ ~up /\ up' = TRUE /\ cold' = TRUE
           /\ nextRun' = NextRunAfter(now)
           /\ UNCHANGED <<now, lastRun, dbVars, delivered, jobVars>>

\* The goroutine Run starts: a refresh that dispatches nothing.
StartupRefresh(last) == /\ up /\ cold /\ cold' = FALSE
                        /\ Fetched(last)
                        /\ UNCHANGED <<now, up, lastRun, nextRun, plans, seq, log,
                                       delivered, jobVars>>

\* (One that fails after it has stored the rates of the region is a StartupRefresh.)
StartupRefreshFails == /\ up /\ cold /\ cold' = FALSE
                       /\ UNCHANGED <<now, up, lastRun, nextRun, dbVars, delivered, jobVars>>

-----------------------------------------------------------------------------
JobStep == \/ \E last \in Horizons : RefreshSucceeds(last)
           \/ ListEnabledChargePlans \/ ReadClock
           \/ FindWindow \/ SkipPlan(FALSE)
           \/ MarkChargePlanDispatched \/ Notify

JobFails == \/ \E last \in Horizons : RefreshStopsShort(last)
            \/ RefreshExhausted \/ ListFails \/ SkipPlan(TRUE) \/ MarkFails \/ NotifyFails

UserStep == \/ \E o \in Offers : CreateChargePlan(o)
            \/ \E i \in Ids : CancelChargePlan(i)

Next == \/ Tick \/ Fire \/ JobStep \/ JobFails \/ UserStep \/ Crash \/ Restart
        \/ \E last \in Horizons : StartupRefresh(last)
        \/ StartupRefreshFails

Spec == Init /\ [][Next]_vars
=============================================================================
