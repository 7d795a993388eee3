---------------------------- MODULE RateRefresh ----------------------------
(***************************************************************************)
(* How rates get into the cache.  Three kinds of goroutine fetch them from *)
(* Octopus, beside each other: the daily job of the scheduler, which tries *)
(* again for an hour; the refresh at process start; and a user's change of *)
(* region, which primes the new region.  All calls may fail, Octopus may   *)
(* publish late, and the process may stop at any point.                    *)
(*                                                                         *)
(* One step is one call, with the reads of the clock that follow it.       *)
(* Regions are numbered in the order of their letters.  Half-hours pass on *)
(* their own; the time a run of the daily job takes is counted in units of *)
(* its first delay, and the two clocks are not related to each other: the  *)
(* time a try takes is told when it fails.                                 *)
(***************************************************************************)
EXTENDS Naturals, FiniteSets

CONSTANTS Chats, Regions, NoRegion,
          Movers,         \* the chats that change their region (bound)
          Default,        \* DEFAULT_REGION
          Daily, Startup, \* the refreshes of all regions
          Setters,        \* changes of region
          AtOnce,         \* how many goroutines are at work at once (bound)
          Span,           \* half-hours a fetch asks for
          Deadline,       \* how long the daily job tries
          MaxBackoff,     \* the longest delay between two tries
          Durations,      \* how long a try of the daily job may take (bound)
          Last            \* last half-hour (bound)

Refreshers == {Daily, Startup}
Procs      == Refreshers \cup Setters
Slots      == 0..Last

ASSUME RefreshAssumption ==
          /\ Regions \subseteq Nat /\ Default \in Regions
          /\ NoRegion \notin Regions /\ Movers \subseteq Chats
          /\ Daily # Startup /\ Daily \notin Setters /\ Startup \notin Setters
          /\ Span \in Nat \ {0} /\ Last \in Nat
          /\ Deadline \in Nat /\ MaxBackoff \in Nat \ {0}
          /\ Durations \subseteq Nat /\ AtOnce \in Nat

VARIABLES now, published, up,               \* clock, Octopus, process
          region, cache,                    \* the tables chats and rates
          pc, todo, from, got,              \* each goroutine's locals
          elapsed, backoff, attempt,        \* the daily job's timers
          asof, stay                        \* history, see below

worldVars == <<now, published, up>>
dbVars    == <<region, cache>>
callVars  == <<pc, todo, from, got>>
timerVars == <<elapsed, backoff, attempt>>
histVars  == <<asof, stay>>
vars      == <<worldVars, dbVars, callVars, timerVars, histVars>>

Steps == {"idle", "list", "check", "product", "fetch", "upsert", "done", "nap"}

TypeOK == /\ now \in Slots /\ published \in Slots /\ up \in BOOLEAN
          /\ region \in [Chats -> Regions \cup {NoRegion}]
          /\ cache \in [Regions -> SUBSET Slots]
          /\ pc \in [Procs -> Steps]
          /\ todo \in [Procs -> SUBSET Regions]
          /\ from \in [Procs -> Slots]
          /\ got \in [Procs -> SUBSET Slots]
          /\ elapsed \in 0..(Deadline + 1)
          /\ backoff \in 1..MaxBackoff
          /\ attempt \in 0..(Deadline + 2)
          /\ asof \in [Procs -> Slots]
          /\ stay \in [Procs -> SUBSET Chats]

Init == /\ now = 0 /\ published \in Slots /\ published < Span
        /\ up = FALSE
        /\ region = [c \in Chats |-> NoRegion]
        /\ cache = [r \in Regions |-> {}]
        /\ pc = [p \in Procs |-> "idle"]
        /\ todo = [p \in Procs |-> {}]
        /\ from = [p \in Procs |-> 0]
        /\ got = [p \in Procs |-> {}]
        /\ elapsed = 0 /\ backoff = 1 /\ attempt = 0
        /\ asof = [p \in Procs |-> 0]
        /\ stay = [p \in Procs |-> {}]

-----------------------------------------------------------------------------
(* What the code asks the database and Octopus for.                        *)

DistinctRegions == {region[c] : c \in Chats} \ {NoRegion}

\* A chat without a row has the default region.
ResolveChat(c) == IF region[c] = NoRegion THEN Default ELSE region[c]

\* The half-hours a question of chat c is answered from.
Rates(c) == cache[ResolveChat(c)] \cap now..(now + Span)

\* Mutant: the half-hour under way left out.
UnitRatesFromNext(f) == {s \in Slots : f < s /\ s < f + Span /\ s <= published}

StandardUnitRates(f) == {s \in Slots : f <= s /\ s < f + Span /\ s <= published}

\* Mutant: rates of any time will do.
HaveAny(r, f, reach) == cache[r] # {}

\* refreshRegion's query: what overlaps [clock, clock + 1 h], which is half-hour
\* f and the next, and one more unless the clock is right on the half-hour.
Have(r, f, reach) == cache[r] \cap f..(f + reach) # {}

NextRegion(p) == CHOOSE r \in todo[p] : \A q \in todo[p] : r <= q

-----------------------------------------------------------------------------
(* The world.                                                              *)

HalfHour == /\ now < Last
            /\ now' = now + 1
            /\ UNCHANGED <<published, up, dbVars, callVars, timerVars, histVars>>

\* Octopus publishes when it likes, never further ahead than a fetch looks.
Publish == /\ \E last \in (published + 1)..Last :
                 last < now + Span /\ published' = last
           /\ UNCHANGED <<now, up, dbVars, callVars, timerVars, histVars>>

Room == Cardinality({p \in Procs : pc[p] # "idle"}) < AtOnce

Start == /\ ~up /\ up' = TRUE
         /\ pc' = [pc EXCEPT ![Startup] = "list"]
         /\ UNCHANGED <<now, published, dbVars, todo, from, got, timerVars, histVars>>

\* A shutdown or a crash: what is in the database stays.
Crash == /\ up /\ up' = FALSE
         /\ pc' = [p \in Procs |-> "idle"]
         /\ todo' = [p \in Procs |-> {}]
         /\ from' = [p \in Procs |-> 0]
         /\ got' = [p \in Procs |-> {}]
         /\ elapsed' = 0 /\ backoff' = 1 /\ attempt' = 0
         /\ asof' = [p \in Procs |-> 0]
         /\ stay' = [p \in Procs |-> {}]
         /\ UNCHANGED <<now, published, dbVars>>

\* Goroutine p goes on to step s, having forgotten what it worked on.
Forget(p, s) == /\ pc' = [pc EXCEPT ![p] = s]
                /\ todo' = [todo EXCEPT ![p] = {}]
                /\ from' = [from EXCEPT ![p] = 0]
                /\ got' = [got EXCEPT ![p] = {}]
                /\ asof' = [asof EXCEPT ![p] = 0]
                /\ stay' = [stay EXCEPT ![p] = {}]

\* The row of chat c gets region r, and is made if need be.
UpsertChatRegion(c, r) == region' = [region EXCEPT ![c] = r]

\* Linking an Octopus account gives a chat without a row the default region, and
\* primes nothing.  (AccountLink has the race with a change of region.)
LinkUpsertsDefault(c) == /\ up /\ region[c] = NoRegion
                         /\ UpsertChatRegion(c, Default)
                         /\ UNCHANGED <<worldVars, cache, callVars, timerVars, histVars>>

-----------------------------------------------------------------------------
(* RefreshRates, for the daily job and at process start.                   *)

Fire == /\ up /\ pc[Daily] = "idle" /\ Room
        /\ pc' = [pc EXCEPT ![Daily] = "list"]
        /\ elapsed' = 0 /\ backoff' = 1 /\ attempt' = 1
        /\ UNCHANGED <<worldVars, dbVars, todo, from, got, histVars>>

\* History: what is published by now, and for whom it will be fetched.
List(p) == /\ pc[p] = "list"
           /\ pc' = [pc EXCEPT ![p] = "product"]
           /\ todo' = [todo EXCEPT ![p] = IF DistinctRegions = {} THEN {Default}
                                          ELSE DistinctRegions]
           /\ asof' = [asof EXCEPT ![p] = published]
           /\ stay' = [stay EXCEPT ![p] =
                          IF DistinctRegions = {} THEN Chats
                          ELSE {c \in Chats : region[c] # NoRegion}]
           /\ UNCHANGED <<worldVars, dbVars, from, got, timerVars>>

\* The clock is read after the product is known.
LatestAgileProduct(p) ==
    /\ pc[p] = "product"
    /\ pc' = [pc EXCEPT ![p] = "fetch"]
    /\ from' = [from EXCEPT ![p] = now]
    /\ UNCHANGED <<worldVars, dbVars, todo, got, timerVars, histVars>>

Fetch(p) == /\ pc[p] = "fetch"
            /\ pc' = [pc EXCEPT ![p] = "upsert"]
            /\ got' = [got EXCEPT ![p] = StandardUnitRates(from[p])]
            /\ UNCHANGED <<worldVars, dbVars, todo, from, timerVars, histVars>>

\* Goroutine p leaves the next region with the rates new, and goes on.
Store(p, new) == LET r == NextRegion(p)  rest == todo[p] \ {r} IN
    /\ pc[p] = "upsert"
    /\ cache' = [cache EXCEPT ![r] = new]
    /\ pc' = [pc EXCEPT ![p] = IF rest = {} THEN "done" ELSE "fetch"]
    /\ todo' = [todo EXCEPT ![p] = rest]
    /\ got' = [got EXCEPT ![p] = {}]
    /\ UNCHANGED <<worldVars, region, from, timerVars, histVars>>

\* Mutants: an error is logged and the loop goes on; old rates are cleared away.
UpsertOrSkip(p) == Store(p, cache[NextRegion(p)])
UpsertCleared(p) == Store(p, got[p])

UpsertRates(p) == Store(p, cache[NextRegion(p)] \cup got[p])

\* A call fails: what p has stored stays, and p goes no further.
Calling(p) == pc[p] \in {"list", "check", "product", "fetch", "upsert"}

Fails(p) == /\ Calling(p) /\ p # Daily
            /\ Forget(p, "idle")
            /\ UNCHANGED <<worldVars, dbVars, timerVars>>

Return(p) == /\ pc[p] = "done" /\ p # Daily
             /\ Forget(p, "idle")
             /\ UNCHANGED <<worldVars, dbVars, timerVars>>

-----------------------------------------------------------------------------
(* runRefreshAndDispatch: try again until an hour is over.                 *)

\* Mutant: the deadline is set anew for every try.
AfterThisTry(t) == t

\* Time t later, as far as it is told apart.
After(t) == IF elapsed + t <= Deadline THEN elapsed + t ELSE Deadline + 1

RetryLater == /\ Calling(Daily)
              /\ \E t \in Durations : After(t) <= Deadline /\ elapsed' = After(t)
              /\ Forget(Daily, "nap")
              /\ UNCHANGED <<worldVars, dbVars, backoff, attempt>>

JobOver == /\ Forget(Daily, "idle")
           /\ elapsed' = 0 /\ backoff' = 1 /\ attempt' = 0
           /\ UNCHANGED <<worldVars, dbVars>>

RetriesExhausted == /\ Calling(Daily)
                    /\ \E t \in Durations : After(t) > Deadline
                    /\ JobOver

\* The job goes on to the charge plans (module ChargePlans), and ends.
Dispatch == pc[Daily] = "done" /\ JobOver

\* Mutants: no longest delay; always the same one.
DoubledForEver(b) == 2 * b
NotDoubled(b) == b

Doubled(b) == IF 2 * b <= MaxBackoff THEN 2 * b ELSE MaxBackoff

\* Tries are counted up to one more than the hour has room for.
NextAttempt == /\ pc[Daily] = "nap"
               /\ pc' = [pc EXCEPT ![Daily] = "list"]
               /\ elapsed' = After(backoff)
               /\ backoff' = Doubled(backoff)
               /\ attempt' = IF attempt < Deadline + 2 THEN attempt + 1 ELSE attempt
               /\ UNCHANGED <<worldVars, dbVars, todo, from, got, histVars>>

-----------------------------------------------------------------------------
(* SetRegion and refreshRegion.                                            *)

\* History: what others fetch for c's former region does not count for c any more.
SetRegion(s, c, r) ==
    /\ up /\ pc[s] = "idle" /\ Room
    /\ pc' = [pc EXCEPT ![s] = "check"]
    /\ UpsertChatRegion(c, r)
    /\ todo' = [todo EXCEPT ![s] = {r}]
    /\ from' = [from EXCEPT ![s] = now]
    /\ asof' = [asof EXCEPT ![s] = published]
    /\ stay' = [p \in Procs |-> IF p = s THEN {c}
                               ELSE IF ResolveChat(c) = r THEN stay[p]
                               ELSE stay[p] \ {c}]
    /\ UNCHANGED <<worldVars, cache, got, timerVars>>

\* A miss asks for the product next: that reads nothing of the model, and is
\* part of the fetch.
CheckCache(s) == LET r == NextRegion(s) IN
    /\ pc[s] = "check"
    /\ \E reach \in {1, 2} :
         pc' = [pc EXCEPT ![s] = IF Have(r, from[s], reach) THEN "done" ELSE "fetch"]
    /\ UNCHANGED <<worldVars, dbVars, todo, from, got, timerVars, histVars>>

-----------------------------------------------------------------------------
Step(p) == \/ List(p) \/ LatestAgileProduct(p) \/ Fetch(p) \/ UpsertRates(p)
           \/ Fails(p) \/ Return(p)

DailyStep == \/ Step(Daily) \/ Dispatch
             \/ RetryLater \/ RetriesExhausted \/ NextAttempt

Users == \/ \E s \in Setters, c \in Movers, r \in Regions : SetRegion(s, c, r)
         \/ \E s \in Setters : CheckCache(s)
         \/ \E c \in Chats : LinkUpsertsDefault(c)

Next == \/ HalfHour \/ Publish \/ Start \/ Crash \/ Fire
        \/ DailyStep \/ \E p \in Procs \ {Daily} : Step(p)
        \/ Users

\* Every call of the job comes back, those to Octopus after ten seconds, and a
\* delay ends.  Nothing else is owed by anyone.
Spec == Init /\ [][Next]_vars /\ WF_vars(DailyStep)
=============================================================================
