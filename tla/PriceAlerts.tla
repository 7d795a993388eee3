---------------------------- MODULE PriceAlerts ----------------------------
(***************************************************************************)
(* The per-minute price-alert sweep: service.DispatchPriceAlerts, run by   *)
(* the scheduler's one-minute job, against the chats, price_alerts, rates  *)
(* and price_alert_log tables, while users change their settings, rate     *)
(* refreshes land, sweeps overlap and the process crashes and restarts.    *)
(*                                                                         *)
(* One step is one storage call, one clock read or one send; the Go code   *)
(* between two of them touches only the sweep's locals.  Times are         *)
(* minutes.  Price is what Octopus publishes: a rate does not change once  *)
(* it is published, so the cache of a region is the set of half-hours it   *)
(* holds, and a table is a function with an entry for "no row".            *)
(***************************************************************************)
EXTENDS Integers

CONSTANTS Chats,      \* chat ids; alerts are read in their order
          Regions, NoRegion,
          Thresholds, Off,
          Sweeps,     \* sweeps that may run at once (bound)
          Starts,     \* the half-hours considered, by start (bound)
          Price,      \* Price[r][f]: the rate of half-hour f in region r
          Slot, LeadMin, LeadMax, Period,
          MaxTime     \* the clock stops here (bound)

ASSUME EntityAssumption == /\ Chats \subseteq Nat
                           /\ NoRegion \notin Regions
                           /\ Thresholds \subseteq Int /\ Off \notin Thresholds
                           /\ Price \in [Regions -> [Starts -> Int]]
ASSUME StartsAssumption == /\ Starts \subseteq Nat
                           /\ \A f, g \in Starts : f < g => f + Slot <= g
                           /\ \A f \in Starts : f >= Slot => f - Slot \in Starts
ASSUME TimingAssumption == /\ Slot \in Nat /\ LeadMin \in Nat /\ LeadMax \in Nat
                           /\ Period \in Nat /\ MaxTime \in Nat
                           /\ 0 < LeadMin /\ LeadMin <= LeadMax /\ LeadMax < Slot
                           /\ 0 < Period

VARIABLES now, up, nextFire,                  \* clock, process, job timer
          region, alert, cache, log,          \* the tables
          delivered,                          \* messages sent per (chat, start)
          pc, at, todo, cur, due, run         \* each sweep's locals

dbVars    == <<region, alert, cache, log>>
sweepVars == <<pc, at, todo, cur, due, run>>
vars      == <<now, up, nextFire, region, alert, cache, log, delivered,
               pc, at, todo, cur, due, run>>

Keys    == Chats \X Starts
Alert   == [chat : Chats, threshold : Thresholds]
Target  == [chat : Chats, threshold : Thresholds, region : Regions]
Run     == [start : Starts, end : Nat]
NoAlert == [chat |-> -1]
NoRun   == [start |-> -1]

SystemTypeOK == /\ now \in Nat /\ up \in BOOLEAN /\ nextFire \in Nat
                /\ region \in [Chats -> Regions \cup {NoRegion}]
                /\ alert \in [Chats -> Thresholds \cup {Off}]
                /\ cache \in [Regions -> SUBSET Starts]
                /\ log \subseteq Keys
                /\ delivered \in [Keys -> Nat]

SweepTypeOK == /\ pc \in [Sweeps -> {"idle", "list", "stamp", "chat", "rates",
                                      "mark", "notify"}]
               /\ at \in [Sweeps -> Nat]
               /\ todo \in [Sweeps -> SUBSET Alert]
               /\ cur \in [Sweeps -> Target \cup {NoAlert}]
               /\ due \in [Sweeps -> SUBSET Run]
               /\ run \in [Sweeps -> Run \cup {NoRun}]

TypeOK == SystemTypeOK /\ SweepTypeOK

\* A process that has just started at time 0, whatever is in the database.
ProcessInit == /\ now = 0 /\ up = TRUE /\ nextFire = Period
               /\ log = {}
               /\ delivered = [k \in Keys |-> 0]
               /\ pc = [s \in Sweeps |-> "idle"]
               /\ at = [s \in Sweeps |-> 0]
               /\ todo = [s \in Sweeps |-> {}]
               /\ cur = [s \in Sweeps |-> NoAlert]
               /\ due = [s \in Sweeps |-> {}]
               /\ run = [s \in Sweeps |-> NoRun]

Init == /\ ProcessInit
        /\ region = [c \in Chats |-> NoRegion]
        /\ alert = [c \in Chats |-> Off]
        /\ cache = [r \in Regions |-> {}]

-----------------------------------------------------------------------------
(* Reading the rates: what one sweep sees of a region's cache.             *)

\* (Mutant of Visible: only half-hours that begin after the sweep did.)
VisibleFromNow(r, t) == {f \in cache[r] : f >= t /\ f < t + LeadMax + Slot}

\* Rates(now, lookAhead): the cached half-hours that overlap the interval.
Visible(r, t) == {f \in cache[r] : f + Slot > t /\ f < t + LeadMax + Slot}

Below(r, T, t) == {f \in Visible(r, t) : Price[r][f] < T}

\* (Mutant of ContiguousRunsBelow: a run starts just before its half-hour.)
RunsOneEarly(r, T, t) ==
    {[start |-> f - 1, end |-> f + Slot] : f \in Below(r, T, t)}

\* Every maximal block of adjacent half-hours below T, first start to last
\* end.  A half-hour that is not visible ends a block as a dear one does.
ContiguousRunsBelow(r, T, t) ==
    LET B == Below(r, T, t)
    IN  {[start |-> p[1], end |-> p[2] + Slot] : p \in
           {q \in B \X B : /\ q[1] <= q[2]
                           /\ \A h \in Starts : q[1] <= h /\ h <= q[2] => h \in B
                           /\ q[1] - Slot \notin B
                           /\ q[2] + Slot \notin B}}

\* (Mutant of InLeadWindow: its ends left out.)
InsideLeadWindow(f, t) == t + LeadMin < f /\ f < t + LeadMax

InLeadWindow(f, t) == t + LeadMin <= f /\ f <= t + LeadMax

-----------------------------------------------------------------------------
(* The clock and the scheduler's one-minute job.                           *)

\* A running process's timer fires on time: the clock waits for Fire.
Tick == /\ now < MaxTime
        /\ up => now < nextFire
        /\ now' = now + 1
        /\ UNCHANGED <<up, nextFire, dbVars, delivered, sweepVars>>

\* The job has no singleton mode: a sweep starts even if others still run.
Fire(s) == /\ up /\ now = nextFire
           /\ pc[s] = "idle"
           /\ nextFire' = now + Period
           /\ pc' = [pc EXCEPT ![s] = "list"]
           /\ UNCHANGED <<now, up, dbVars, delivered, at, todo, cur, due, run>>

-----------------------------------------------------------------------------
(* The steps of DispatchPriceAlerts.                                       *)

\* (Mutant of NextAlert: the loop's end is not noticed.)
NeverReturn(s, rest) == /\ pc' = [pc EXCEPT ![s] = "chat"]
                        /\ todo' = [todo EXCEPT ![s] = rest]
                        /\ UNCHANGED <<at, cur, due, run>>

\* The alert loop goes on to its next alert, or returns.
NextAlert(s, rest) == /\ pc' = [pc EXCEPT ![s] = IF rest = {} THEN "idle" ELSE "chat"]
                      /\ at' = [at EXCEPT ![s] = IF rest = {} THEN 0 ELSE @]
                      /\ todo' = [todo EXCEPT ![s] = rest]
                      /\ cur' = [cur EXCEPT ![s] = NoAlert]
                      /\ due' = [due EXCEPT ![s] = {}]
                      /\ run' = [run EXCEPT ![s] = NoRun]

\* The run loop goes on to its next run, or the alert loop to its next alert.
NextRun(s, rest) == IF rest = {} THEN NextAlert(s, todo[s])
                    ELSE /\ pc' = [pc EXCEPT ![s] = "mark"]
                         /\ due' = [due EXCEPT ![s] = rest]
                         /\ run' = [run EXCEPT ![s] = NoRun]
                         /\ UNCHANGED <<at, todo, cur>>

LocalOnly == UNCHANGED <<now, up, nextFire, dbVars, delivered>>

ListEnabledPriceAlerts(s) ==
    LET enabled == {[chat |-> c, threshold |-> alert[c]] :
                      c \in {d \in Chats : alert[d] # Off}}
    IN  /\ pc[s] = "list"
        /\ todo' = [todo EXCEPT ![s] = enabled]
        /\ pc' = [pc EXCEPT ![s] = IF enabled = {} THEN "idle" ELSE "stamp"]
        /\ UNCHANGED <<at, cur, due, run>>
        /\ LocalOnly

ListFails(s) == /\ pc[s] = "list"
                /\ pc' = [pc EXCEPT ![s] = "idle"]
                /\ UNCHANGED <<at, todo, cur, due, run>>
                /\ LocalOnly

\* s.clock.Now(), once for the whole sweep, after the list was read.
ReadClock(s) == /\ pc[s] = "stamp"
                /\ at' = [at EXCEPT ![s] = now]
                /\ pc' = [pc EXCEPT ![s] = "chat"]
                /\ UNCHANGED <<todo, cur, due, run>>
                /\ LocalOnly

\* The head of the loop: alerts in chat-id order; a chat without a row is skipped.
GetChat(s) ==
    /\ pc[s] = "chat"
    /\ \E a \in todo[s] :
         /\ \A b \in todo[s] : a.chat <= b.chat
         /\ IF region[a.chat] = NoRegion
            THEN NextAlert(s, todo[s] \ {a})
            ELSE /\ pc' = [pc EXCEPT ![s] = "rates"]
                 /\ todo' = [todo EXCEPT ![s] = @ \ {a}]
                 /\ cur' = [cur EXCEPT ![s] = [chat |-> a.chat, threshold |-> a.threshold,
                                               region |-> region[a.chat]]]
                 /\ UNCHANGED <<at, due, run>>
    /\ LocalOnly

GetChatFails(s) == /\ pc[s] = "chat"
                   /\ \E a \in todo[s] : /\ \A b \in todo[s] : a.chat <= b.chat
                                         /\ NextAlert(s, todo[s] \ {a})
                   /\ LocalOnly

\* Reads the rates, groups them, and keeps the runs that start in the lead window.
Rates(s) == /\ pc[s] = "rates"
            /\ NextRun(s, {u \in ContiguousRunsBelow(cur[s].region, cur[s].threshold, at[s]) :
                             InLeadWindow(u.start, at[s])})
            /\ LocalOnly

RatesFails(s) == /\ pc[s] = "rates"
                 /\ NextAlert(s, todo[s])
                 /\ LocalOnly

\* (Mutant of MarkPriceAlertDispatched: an existing row does not stop the sweep.)
MarkAlwaysFresh(s) ==
    /\ pc[s] = "mark"
    /\ \E u \in due[s] : /\ log' = log \cup {<<cur[s].chat, u.start>>}
                         /\ due' = [due EXCEPT ![s] = @ \ {u}]
                         /\ run' = [run EXCEPT ![s] = u]
    /\ pc' = [pc EXCEPT ![s] = "notify"]
    /\ UNCHANGED <<now, up, nextFire, region, alert, cache, delivered, at, todo, cur>>

\* INSERT OR IGNORE of (chat_id, run_start): only a fresh row goes on to Notify.
MarkPriceAlertDispatched(s) ==
    /\ pc[s] = "mark"
    /\ \E u \in due[s] :
         /\ \A v \in due[s] : u.start <= v.start
         /\ log' = log \cup {<<cur[s].chat, u.start>>}
         /\ IF <<cur[s].chat, u.start>> \in log
            THEN NextRun(s, due[s] \ {u})
            ELSE /\ pc' = [pc EXCEPT ![s] = "notify"]
                 /\ due' = [due EXCEPT ![s] = @ \ {u}]
                 /\ run' = [run EXCEPT ![s] = u]
                 /\ UNCHANGED <<at, todo, cur>>
    /\ UNCHANGED <<now, up, nextFire, region, alert, cache, delivered>>

\* (Mutant of MarkFails: the error is ignored, and the message sent.)
MarkErrorIgnored(s) ==
    /\ pc[s] = "mark"
    /\ pc' = [pc EXCEPT ![s] = "notify"]
    /\ \E u \in due[s] : run' = [run EXCEPT ![s] = u]
    /\ UNCHANGED <<at, todo, cur, due>>
    /\ LocalOnly

MarkFails(s) == /\ pc[s] = "mark"
                /\ \E u \in due[s] : /\ \A v \in due[s] : u.start <= v.start
                                     /\ NextRun(s, due[s] \ {u})
                /\ LocalOnly

\* (Mutant of Notify: the sweep does not move on from what it has sent.)
NotifyAgain(s) == /\ pc[s] = "notify" /\ delivered[<<cur[s].chat, run[s].start>>] < 2
                  /\ delivered' = [delivered EXCEPT ![<<cur[s].chat, run[s].start>>] = @ + 1]
                  /\ UNCHANGED <<now, up, nextFire, dbVars, sweepVars>>

\* The message reaches the chat (whatever answer the bot gets to its send).
Notify(s) == /\ pc[s] = "notify"
             /\ delivered' = [delivered EXCEPT ![<<cur[s].chat, run[s].start>>] = @ + 1]
             /\ NextRun(s, due[s])
             /\ UNCHANGED <<now, up, nextFire, dbVars>>

\* (Mutant of NotifyFails: the row is taken back, for the next sweep to retry.)
NotifyFailsUnmark(s) == /\ pc[s] = "notify"
                        /\ log' = log \ {<<cur[s].chat, run[s].start>>}
                        /\ NextRun(s, due[s])
                        /\ UNCHANGED <<now, up, nextFire, region, alert, cache, delivered>>

NotifyFails(s) == /\ pc[s] = "notify"
                  /\ NextRun(s, due[s])
                  /\ LocalOnly

-----------------------------------------------------------------------------
(* Users, the rate refresh, and the process.                               *)

\* /region, the web form, and the placeholder of an account link.
UpsertChatRegion(c, r) == /\ up
                          /\ region' = [region EXCEPT ![c] = r]
                          /\ UNCHANGED <<now, up, nextFire, alert, cache, log,
                                         delivered, sweepVars>>

\* (Mutant of SetPriceAlert: no foreign key.)
SetAnyPriceAlert(c, T) == /\ up
                          /\ alert' = [alert EXCEPT ![c] = T]
                          /\ UNCHANGED <<now, up, nextFire, region, cache, log,
                                         delivered, sweepVars>>

\* price_alerts.chat_id references chats: without a chat row the insert fails.
SetPriceAlert(c, T) == /\ up /\ region[c] # NoRegion
                       /\ alert' = [alert EXCEPT ![c] = T]
                       /\ UNCHANGED <<now, up, nextFire, region, cache, log,
                                      delivered, sweepVars>>

DisablePriceAlert(c) == /\ up
                        /\ alert' = [alert EXCEPT ![c] = Off]
                        /\ UNCHANGED <<now, up, nextFire, region, cache, log,
                                       delivered, sweepVars>>

\* (Mutant of UpsertRates: the current half-hour is rounded up, not down.)
UpsertRoundedUp(r, from, last) == /\ up /\ from <= now
                                  /\ cache' = [cache EXCEPT ![r] = @ \cup
                                                 {f \in Starts : from < f /\ f <= last}]
                                  /\ UNCHANGED <<now, up, nextFire, region, alert, log,
                                                 delivered, sweepVars>>

\* A refresh asks for the rates from the half-hour it began in, and stores as
\* many as are published.  It may have begun in an earlier half-hour than now.
UpsertRates(r, from, last) == /\ up /\ from <= now
                              /\ cache' = [cache EXCEPT ![r] = @ \cup
                                             {f \in Starts : from <= f /\ f <= last}]
                              /\ UNCHANGED <<now, up, nextFire, region, alert, log,
                                             delivered, sweepVars>>

\* The database survives; the sweeps and the timer do not.
Crash == /\ up /\ up' = FALSE
         /\ pc' = [s \in Sweeps |-> "idle"]
         /\ at' = [s \in Sweeps |-> 0]
         /\ todo' = [s \in Sweeps |-> {}]
         /\ cur' = [s \in Sweeps |-> NoAlert]
         /\ due' = [s \in Sweeps |-> {}]
         /\ run' = [s \in Sweeps |-> NoRun]
         /\ UNCHANGED <<now, nextFire, dbVars, delivered>>

Restart == /\ ~up /\ up' = TRUE
           /\ nextFire' = now + Period
           /\ UNCHANGED <<now, dbVars, delivered, sweepVars>>

-----------------------------------------------------------------------------
SweepStep(s) == \/ ListEnabledPriceAlerts(s) \/ ReadClock(s) \/ GetChat(s)
                \/ Rates(s) \/ MarkPriceAlertDispatched(s) \/ Notify(s)

StepFails(s) == \/ ListFails(s) \/ GetChatFails(s) \/ RatesFails(s)
                \/ MarkFails(s) \/ NotifyFails(s)

UserStep == \E c \in Chats : \/ \E r \in Regions : UpsertChatRegion(c, r)
                             \/ \E T \in Thresholds : SetPriceAlert(c, T)
                             \/ DisablePriceAlert(c)

RefreshStep == \E r \in Regions, from, last \in Starts : UpsertRates(r, from, last)

Next == \/ Tick \/ Crash \/ Restart \/ UserStep \/ RefreshStep
        \/ \E s \in Sweeps : Fire(s) \/ SweepStep(s) \/ StepFails(s)

\* The steps of a sweep at work are owed, or an error or a crash in their place: a goroutine
\* that is not blocked is scheduled, and storage and Telegram calls come back.
Spec == Init /\ [][Next]_vars /\ \A s \in Sweeps : WF_vars(SweepStep(s))
=============================================================================
