------------------------- MODULE RateRefreshProofs -------------------------
(***************************************************************************)
(* Theorems about RateRefresh for every value of its constants: any number *)
(* of chats, regions and changes of region at once, any horizon and any    *)
(* failures.                                                               *)
(***************************************************************************)
EXTENDS RateRefreshProperties, Induction

-----------------------------------------------------------------------------
(* The kinds of steps.                                                     *)

\* A refresh begins, or tries again.
Begins(p) == /\ pc[p] \in {"idle", "nap"}
             /\ pc' = [pc EXCEPT ![p] = "list"]
             /\ up' = TRUE
             /\ UNCHANGED <<now, published, dbVars, todo, from, got, histVars>>

\* A refresh or a change of region ends, or has failed.
Drops(p, s) == /\ Forget(p, s)
               /\ pc[p] # "idle"
               /\ UNCHANGED <<worldVars, dbVars>>

\* Nothing is at work in a process that is not; refreshes and changes of region
\* each keep to their steps.
Roles == /\ ~up => \A p \in Procs : pc[p] = "idle"
         /\ \A p \in Refreshers : pc[p] # "check"
         /\ \A s \in Setters : pc[s] \in {"idle", "check", "fetch", "upsert", "done"}

LEMMA NextCases ==
    ASSUME TypeOK, Roles, Next
    PROVE  \/ HalfHour \/ Publish \/ Crash
           \/ \E p \in Refreshers : Begins(p)
           \/ \E p \in Procs : List(p) \/ LatestAgileProduct(p) \/ Fetch(p) \/ UpsertRates(p)
           \/ \E p \in Procs : Drops(p, "idle")
           \/ Drops(Daily, "nap")
           \/ \E s \in Setters, c \in Movers, r \in Regions : SetRegion(s, c, r)
           \/ \E s \in Setters : CheckCache(s)
           \/ \E c \in Chats : LinkUpsertsDefault(c)
<1>1. Daily \in Procs /\ Daily \in Refreshers /\ Startup \in Procs /\ Startup \in Refreshers
  BY DEF Procs, Refreshers
<1>2. CASE Start
  BY <1>1, <1>2 DEF Start, Begins, Roles
<1>3. CASE Fire
  BY <1>1, <1>3 DEF Fire, Begins, worldVars, TypeOK
<1>4. CASE NextAttempt
  BY <1>1, <1>4 DEF NextAttempt, Begins, worldVars, Roles, TypeOK
<1>5. ASSUME NEW p \in Procs, Fails(p) \/ Return(p)
      PROVE  Drops(p, "idle")
  BY <1>5 DEF Fails, Return, Drops, Calling
<1>6. CASE RetryLater
  BY <1>6 DEF RetryLater, Drops, Calling
<1>7. CASE RetriesExhausted \/ Dispatch
  <2>1. Drops(Daily, "idle")
    BY <1>7 DEF RetriesExhausted, Dispatch, JobOver, Drops, Calling
  <2> QED BY <1>1, <2>1
<1>8. ASSUME NEW p \in Procs, Step(p)
      PROVE  \/ List(p) \/ LatestAgileProduct(p) \/ Fetch(p) \/ UpsertRates(p)
             \/ Drops(p, "idle")
  BY <1>8, <1>5 DEF Step
<1>9. CASE DailyStep
  BY <1>1, <1>4, <1>6, <1>7, <1>8, <1>9 DEF DailyStep
<1>10. CASE \E p \in Procs \ {Daily} : Step(p)
  BY <1>8, <1>10
<1>11. CASE Users
  BY <1>11 DEF Users
<1> QED BY <1>2, <1>3, <1>9, <1>10, <1>11 DEF Next

-----------------------------------------------------------------------------
(* Types.                                                                  *)

LEMMA SlotsAreNat == 0 \in Slots /\ Slots \subseteq Nat
BY RefreshAssumption DEF Slots

LEMMA InitTyped == Init => TypeOK /\ Roles
<1> SUFFICES ASSUME Init PROVE TypeOK /\ Roles
  OBVIOUS
<1>1. /\ elapsed \in 0..(Deadline + 1) /\ backoff \in 1..MaxBackoff
      /\ attempt \in 0..(Deadline + 2)
  BY RefreshAssumption DEF Init
<1>2. /\ now \in Slots /\ published \in Slots /\ up \in BOOLEAN
      /\ region \in [Chats -> Regions \cup {NoRegion}]
      /\ cache \in [Regions -> SUBSET Slots]
  BY SlotsAreNat DEF Init
<1>3. /\ pc \in [Procs -> Steps] /\ todo \in [Procs -> SUBSET Regions]
      /\ got \in [Procs -> SUBSET Slots] /\ stay \in [Procs -> SUBSET Chats]
  BY DEF Init, Steps
<1>4. from \in [Procs -> Slots] /\ asof \in [Procs -> Slots]
  BY SlotsAreNat DEF Init
<1>5. Roles
  BY DEF Init, Roles, Procs
<1> QED BY <1>1, <1>2, <1>3, <1>4, <1>5 DEF TypeOK

\* The job's timers stay in their bounds.
TimersOK == /\ elapsed \in 0..(Deadline + 1)
            /\ backoff \in 1..MaxBackoff
            /\ attempt \in 0..(Deadline + 2)

LEMMA StepTimers == TimersOK /\ [Next]_vars => TimersOK'
<1> SUFFICES ASSUME TimersOK, [Next]_vars
             PROVE  TimersOK'
  OBVIOUS
<1>1. CASE UNCHANGED timerVars
  BY <1>1 DEF TimersOK, timerVars
<1>2. CASE elapsed' = 0 /\ backoff' = 1 /\ attempt' \in {0, 1}
  BY <1>2, RefreshAssumption DEF TimersOK
<1>3. ASSUME NEW t \in Nat
      PROVE  After(t) \in 0..(Deadline + 1)
  BY RefreshAssumption DEF After, TimersOK
<1>4. CASE RetryLater
  BY <1>3, <1>4, RefreshAssumption DEF RetryLater, TimersOK
<1>5. CASE NextAttempt
  <2>1. Doubled(backoff) \in 1..MaxBackoff /\ backoff \in Nat
    BY RefreshAssumption DEF TimersOK, Doubled
  <2>2. attempt' \in 0..(Deadline + 2)
    BY <1>5, RefreshAssumption DEF NextAttempt, TimersOK
  <2> QED BY <1>3, <1>5, <2>1, <2>2 DEF NextAttempt, TimersOK
<1>6. CASE Start \/ HalfHour \/ Publish
  BY <1>1, <1>6 DEF Start, HalfHour, Publish
<1>7. CASE Crash \/ Fire
  BY <1>2, <1>7 DEF Crash, Fire
<1>8. CASE RetriesExhausted \/ Dispatch
  BY <1>2, <1>8 DEF RetriesExhausted, Dispatch, JobOver
<1>9. ASSUME NEW p, Step(p)
      PROVE  TimersOK'
  BY <1>1, <1>9 DEF Step, List, LatestAgileProduct, Fetch, UpsertRates, Store, Fails, Return
<1>10. CASE Users
  BY <1>1, <1>10 DEF Users, SetRegion, CheckCache, LinkUpsertsDefault
<1>11. CASE UNCHANGED vars
  BY <1>1, <1>11 DEF vars
<1> QED BY <1>4, <1>5, <1>6, <1>7, <1>8, <1>9, <1>10, <1>11 DEF Next, DailyStep

LEMMA StepTyped == TypeOK /\ Roles /\ [Next]_vars => TypeOK'
<1> SUFFICES ASSUME TypeOK, Roles, [Next]_vars
             PROVE  TypeOK'
  OBVIOUS
<1> DEFINE Rest == /\ now \in Slots /\ published \in Slots /\ up \in BOOLEAN
                   /\ region \in [Chats -> Regions \cup {NoRegion}]
                   /\ cache \in [Regions -> SUBSET Slots]
                   /\ pc \in [Procs -> Steps]
                   /\ todo \in [Procs -> SUBSET Regions]
                   /\ from \in [Procs -> Slots]
                   /\ got \in [Procs -> SUBSET Slots]
                   /\ asof \in [Procs -> Slots]
                   /\ stay \in [Procs -> SUBSET Chats]
<1>1. TimersOK'
  BY StepTimers DEF TypeOK, TimersOK
<1>2. Rest
  BY DEF TypeOK
<1> SUFFICES Rest'
  BY <1>1 DEF TypeOK, TimersOK
<1> USE <1>2, SlotsAreNat DEF worldVars, dbVars, callVars, histVars, Steps
<1>3. CASE HalfHour
  BY <1>3, RefreshAssumption DEF HalfHour, Slots
<1>4. CASE Publish
  BY <1>4, RefreshAssumption DEF Publish, Slots
<1>5. CASE Crash
  BY <1>5 DEF Crash
<1>6. ASSUME NEW p \in Refreshers, Begins(p)
      PROVE  Rest'
  BY <1>6 DEF Begins
<1>7. ASSUME NEW p \in Procs, List(p)
      PROVE  Rest'
  <2>1. DistinctRegions \subseteq Regions /\ {Default} \subseteq Regions
    BY RefreshAssumption DEF DistinctRegions
  <2>2. todo' \in [Procs -> SUBSET Regions]
    BY <1>7, <2>1 DEF List
  <2>3. stay' \in [Procs -> SUBSET Chats]
    BY <1>7 DEF List
  <2>4. pc' \in [Procs -> Steps] /\ asof' \in [Procs -> Slots]
    BY <1>7 DEF List
  <2> QED BY <1>7, <2>2, <2>3, <2>4 DEF List
<1>8. ASSUME NEW p \in Procs, LatestAgileProduct(p)
      PROVE  Rest'
  BY <1>8 DEF LatestAgileProduct
<1>9. ASSUME NEW p \in Procs, Fetch(p)
      PROVE  Rest'
  <2>1. StandardUnitRates(from[p]) \in SUBSET Slots
    BY DEF StandardUnitRates
  <2> QED BY <1>9, <2>1 DEF Fetch
<1>10. ASSUME NEW p \in Procs, UpsertRates(p)
       PROVE  Rest'
  <2>1. pc' \in [Procs -> Steps]
    BY <1>10 DEF UpsertRates, Store
  <2>2. todo' \in [Procs -> SUBSET Regions]
    BY <1>10 DEF UpsertRates, Store
  <2>3. cache' \in [Regions -> SUBSET Slots]
    BY <1>10 DEF UpsertRates, Store
  <2>4. got' \in [Procs -> SUBSET Slots]
    BY <1>10 DEF UpsertRates, Store
  <2> QED BY <1>10, <2>1, <2>2, <2>3, <2>4 DEF UpsertRates, Store
<1>11. ASSUME NEW p \in Procs, NEW s \in {"idle", "nap"}, Drops(p, s)
       PROVE  Rest'
  BY <1>11 DEF Drops, Forget
<1>12. ASSUME NEW s \in Setters, NEW c \in Movers, NEW r \in Regions, SetRegion(s, c, r)
       PROVE  Rest'
  <2>1. c \in Chats
    BY RefreshAssumption
  <2>2. stay' \in [Procs -> SUBSET Chats]
    BY <1>12, <2>1 DEF SetRegion
  <2>3. region' \in [Chats -> Regions \cup {NoRegion}]
    BY <1>12, <2>1 DEF SetRegion, UpsertChatRegion
  <2>4. /\ pc' \in [Procs -> Steps] /\ todo' \in [Procs -> SUBSET Regions]
        /\ from' \in [Procs -> Slots] /\ asof' \in [Procs -> Slots]
    BY <1>12 DEF SetRegion
  <2> QED BY <1>12, <2>2, <2>3, <2>4 DEF SetRegion
<1>13. ASSUME NEW s \in Setters, CheckCache(s)
       PROVE  Rest'
  BY <1>13 DEF CheckCache
<1>14. ASSUME NEW c \in Chats, LinkUpsertsDefault(c)
       PROVE  Rest'
  BY <1>14, RefreshAssumption DEF LinkUpsertsDefault, UpsertChatRegion
<1>15. CASE UNCHANGED vars
  BY <1>15 DEF vars
<1>16. Daily \in Procs
  BY DEF Procs, Refreshers
<1> HIDE DEF Rest
<1> QED BY <1>3, <1>4, <1>5, <1>6, <1>7, <1>8, <1>9, <1>10, <1>11, <1>12, <1>13, <1>14,
           <1>15, <1>16, NextCases

LEMMA StepRoles == TypeOK /\ Roles /\ [Next]_vars => Roles'
<1> SUFFICES ASSUME TypeOK, Roles, [Next]_vars
             PROVE  Roles'
  OBVIOUS
<1>1. CASE UNCHANGED <<pc, up>>
  BY <1>1 DEF Roles
<1>2. CASE Crash
  BY <1>2 DEF Crash, Roles, Procs
<1>3. ASSUME NEW p \in Refreshers, Begins(p)
      PROVE  Roles'
  BY <1>3, RefreshAssumption DEF Begins, Roles, TypeOK, Procs, Refreshers
<1>4. ASSUME NEW p \in Procs, List(p) \/ LatestAgileProduct(p)
      PROVE  Roles'
  BY <1>4 DEF List, LatestAgileProduct, Roles, TypeOK, Procs, worldVars
<1>5. ASSUME NEW p \in Procs, Fetch(p)
      PROVE  Roles'
  BY <1>5 DEF Fetch, Roles, TypeOK, Procs, worldVars
<1>6. ASSUME NEW p \in Procs, UpsertRates(p)
      PROVE  Roles'
  BY <1>6 DEF UpsertRates, Store, Roles, TypeOK, Procs, worldVars
<1>7. ASSUME NEW p \in Procs, NEW s \in {"idle", "nap"}, Drops(p, s),
             s = "nap" => p = Daily
      PROVE  Roles'
  <2>1. Roles /\ up' = up /\ pc' = [pc EXCEPT ![p] = s] /\ pc \in [Procs -> Steps]
    BY <1>7 DEF Drops, Forget, TypeOK, worldVars
  <2>2. up
    BY <1>7 DEF Drops, Roles
  <2>3. \A q \in Setters : pc'[q] \in {"idle", "check", "fetch", "upsert", "done"}
    BY <1>7, <2>1, RefreshAssumption DEF Roles, Procs
  <2>4. \A q \in Refreshers : pc'[q] # "check"
    BY <1>7, <2>1 DEF Roles, Procs
  <2> QED BY <2>1, <2>2, <2>3, <2>4 DEF Roles
<1>8. ASSUME NEW s \in Setters, NEW c \in Movers, NEW r \in Regions, SetRegion(s, c, r)
      PROVE  Roles'
  BY <1>8, RefreshAssumption DEF SetRegion, Roles, TypeOK, Procs, Refreshers, worldVars
<1>9. ASSUME NEW s \in Setters, CheckCache(s)
      PROVE  Roles'
  BY <1>9 DEF CheckCache, Roles, TypeOK, Procs, worldVars
<1>10. CASE HalfHour \/ Publish \/ (\E c \in Chats : LinkUpsertsDefault(c))
  BY <1>1, <1>10 DEF HalfHour, Publish, LinkUpsertsDefault, callVars, worldVars
<1>11. CASE UNCHANGED vars
  BY <1>1, <1>11 DEF vars, callVars, worldVars
<1>12. Daily \in Procs
  BY DEF Procs, Refreshers
<1> QED BY <1>2, <1>3, <1>4, <1>5, <1>6, <1>7, <1>8, <1>9, <1>10, <1>11, <1>12, NextCases

TInv == TypeOK /\ Roles

LEMMA StepTInv == TInv /\ [Next]_vars => TInv'
BY StepTyped, StepRoles DEF TInv

\* Every variable has its type; in particular no delay of the daily job is longer
\* than the longest, and only regions and half-hours get into the table.
THEOREM TypeCorrect == Spec => []TypeOK
<1>1. Init => TInv
  BY InitTyped DEF TInv
<1>2. TInv => TypeOK
  BY DEF TInv
<1> QED BY <1>1, <1>2, StepTInv, PTL DEF Spec

-----------------------------------------------------------------------------
(* What is fetched.                                                        *)

\* What Octopus has published is within the reach of a fetch, and what a fetch holds
\* is a gapless stretch from a half-hour that has begun, with all that was published
\* when the refresh began.
Batches ==
    /\ published < now + Span
    /\ \A p \in Procs :
         /\ asof[p] <= published
         /\ pc[p] \in {"check", "fetch", "upsert"} =>
               from[p] <= now /\ asof[p] < from[p] + Span
         /\ pc[p] = "upsert" => \E u \in asof[p]..published : got[p] = from[p]..u

LEMMA FetchedStretch ==
    ASSUME TypeOK, NEW f \in Slots, NEW a \in Slots, a <= published, a < f + Span
    PROVE  \E u \in a..published : StandardUnitRates(f) = f..u
<1> USE RefreshAssumption DEF TypeOK, Slots, StandardUnitRates
<1>1. CASE f + Span - 1 <= published
  <2>1. StandardUnitRates(f) = f..(f + Span - 1)
    BY <1>1
  <2>2. f + Span - 1 \in a..published
    BY <1>1
  <2> QED BY <2>1, <2>2
<1>2. CASE published < f + Span - 1
  <2>1. StandardUnitRates(f) = f..published
    BY <1>2
  <2>2. published \in a..published
    OBVIOUS
  <2> QED BY <2>1, <2>2
<1> QED BY <1>1, <1>2

LEMMA StepBatches == TInv /\ Batches /\ [Next]_vars => Batches'
<1> SUFFICES ASSUME TypeOK, Roles, Batches, [Next]_vars
             PROVE  Batches'
  BY DEF TInv
<1> DEFINE Loose(p) ==
             /\ asof[p] <= published
             /\ pc[p] \in {"check", "fetch", "upsert"} =>
                   from[p] <= now /\ asof[p] < from[p] + Span
             /\ pc[p] = "upsert" => \E u \in asof[p]..published : got[p] = from[p]..u
<1>1. /\ now \in Nat /\ published \in Nat /\ Span \in Nat /\ 0 < Span
      /\ pc \in [Procs -> Steps] /\ from \in [Procs -> Nat] /\ asof \in [Procs -> Nat]
      /\ got \in [Procs -> SUBSET Slots]
  <2>1. /\ pc \in [Procs -> Steps] /\ got \in [Procs -> SUBSET Slots]
        /\ from \in [Procs -> Slots] /\ asof \in [Procs -> Slots]
        /\ now \in Slots /\ published \in Slots
    BY DEF TypeOK
  <2>2. Span \in Nat /\ 0 < Span
    BY RefreshAssumption
  <2>3. from \in [Procs -> Nat] /\ asof \in [Procs -> Nat]
    BY <2>1, SlotsAreNat
  <2> QED BY <2>1, <2>2, <2>3, SlotsAreNat
<1>2. published < now + Span /\ \A p \in Procs : Loose(p)
  BY DEF Batches
<1>3. CASE HalfHour
  <2>1. now' = now + 1 /\ UNCHANGED <<published, callVars, asof>>
    BY <1>3 DEF HalfHour, histVars
  <2>2. published' < now' + Span
    BY <1>1, <1>2, <2>1
  <2>3. ASSUME NEW p \in Procs PROVE Loose(p)'
    BY <1>1, <1>2, <2>1 DEF callVars
  <2> QED BY <2>2, <2>3 DEF Batches
<1>4. CASE Publish
  <2>1. PICK last \in (published + 1)..Last : last < now + Span /\ published' = last
    BY <1>4 DEF Publish
  <2>2. published' \in Nat /\ published < published' /\ published' < now + Span
    BY <1>1, <2>1, RefreshAssumption
  <2>3. UNCHANGED <<now, callVars, asof>>
    BY <1>4 DEF Publish, histVars
  <2>4. ASSUME NEW p \in Procs PROVE Loose(p)'
    <3>1. UNCHANGED <<now, pc[p], from[p], got[p], asof[p]>>
      BY <2>3 DEF callVars
    <3>2. pc[p] = "upsert" => \E u \in asof[p]..published' : got[p] = from[p]..u
      BY <1>1, <1>2, <2>2
    <3>3. asof[p] <= published'
      BY <1>1, <1>2, <2>2
    <3> QED BY <1>2, <3>1, <3>2, <3>3
  <2> QED BY <2>2, <2>3, <2>4 DEF Batches
<1>5. CASE Crash
  <2>1. ASSUME NEW p \in Procs PROVE Loose(p)'
    BY <1>1, <1>5 DEF Crash
  <2> QED BY <1>2, <1>5, <2>1 DEF Crash, Batches
<1>6. ASSUME NEW p \in Refreshers, Begins(p)
      PROVE  Batches'
  <2>1. ASSUME NEW q \in Procs PROVE Loose(q)'
    BY <1>1, <1>2, <1>6 DEF Begins, histVars, Procs
  <2> QED BY <1>2, <1>6, <2>1 DEF Begins, Batches
<1>7. ASSUME NEW p \in Procs, List(p)
      PROVE  Batches'
  <2>1. ASSUME NEW q \in Procs PROVE Loose(q)'
    BY <1>1, <1>2, <1>7 DEF List, worldVars
  <2> QED BY <1>2, <1>7, <2>1 DEF List, Batches, worldVars
<1>8. ASSUME NEW p \in Procs, LatestAgileProduct(p)
      PROVE  Batches'
  <2>1. ASSUME NEW q \in Procs PROVE Loose(q)'
    BY <1>1, <1>2, <1>8 DEF LatestAgileProduct, worldVars, histVars
  <2> QED BY <1>2, <1>8, <2>1 DEF LatestAgileProduct, Batches, worldVars
<1>9. ASSUME NEW p \in Procs, Fetch(p)
      PROVE  Batches'
  <2>1. \E u \in asof[p]..published : StandardUnitRates(from[p]) = from[p]..u
    BY <1>2, <1>9, FetchedStretch DEF Fetch, TypeOK
  <2>2. ASSUME NEW q \in Procs PROVE Loose(q)'
    BY <1>1, <1>2, <1>9, <2>1 DEF Fetch, worldVars, histVars
  <2> QED BY <1>2, <1>9, <2>2 DEF Fetch, Batches, worldVars
<1>10. ASSUME NEW p \in Procs, UpsertRates(p)
       PROVE  Batches'
  <2>1. ASSUME NEW q \in Procs PROVE Loose(q)'
    BY <1>1, <1>2, <1>10 DEF UpsertRates, Store, worldVars, histVars
  <2> QED BY <1>2, <1>10, <2>1 DEF UpsertRates, Store, Batches, worldVars
<1>11. ASSUME NEW p \in Procs, NEW s \in {"idle", "nap"}, Drops(p, s)
       PROVE  Batches'
  <2>1. ASSUME NEW q \in Procs PROVE Loose(q)'
    BY <1>1, <1>2, <1>11 DEF Drops, Forget, worldVars
  <2> QED BY <1>2, <1>11, <2>1 DEF Drops, Batches, worldVars
<1>12. ASSUME NEW s \in Setters, NEW c \in Movers, NEW r \in Regions, SetRegion(s, c, r)
       PROVE  Batches'
  <2>1. ASSUME NEW q \in Procs PROVE Loose(q)'
    BY <1>1, <1>2, <1>12 DEF SetRegion, worldVars
  <2> QED BY <1>2, <1>12, <2>1 DEF SetRegion, Batches, worldVars
<1>13. ASSUME NEW s \in Setters, CheckCache(s)
       PROVE  Batches'
  <2>1. PICK t \in {"done", "fetch"} : pc' = [pc EXCEPT ![s] = t]
    BY <1>13 DEF CheckCache
  <2>2. ASSUME NEW q \in Procs PROVE Loose(q)'
    BY <1>1, <1>2, <1>13, <2>1 DEF CheckCache, worldVars, histVars
  <2> QED BY <1>2, <1>13, <2>2 DEF CheckCache, Batches, worldVars
<1>14. CASE UNCHANGED <<now, published, callVars, asof>>
  BY <1>14 DEF Batches, callVars
<1>15. CASE (\E c \in Chats : LinkUpsertsDefault(c)) \/ UNCHANGED vars
  BY <1>14, <1>15 DEF LinkUpsertsDefault, vars, worldVars, histVars
<1>16. Daily \in Procs
  BY DEF Procs, Refreshers
<1> QED BY <1>3, <1>4, <1>5, <1>6, <1>7, <1>8, <1>9, <1>10, <1>11, <1>12, <1>13, <1>15,
           <1>16, NextCases

LEMMA InitBatches == Init => Batches
BY RefreshAssumption, SlotsAreNat DEF Init, Batches, Slots

BInv == TInv /\ Batches

LEMMA BInvInvariant == (Init => BInv) /\ (BInv /\ [Next]_vars => BInv')
BY InitTyped, InitBatches, StepTInv, StepBatches DEF BInv, TInv

-----------------------------------------------------------------------------
(* The cache.                                                              *)

\* A store of a batch is a fill of the abstract cache.
LEMMA StoreIsFill ==
    ASSUME BInv, NEW p \in Procs, UpsertRates(p)
    PROVE  \E f \in 0..now, u \in 0..published :
              cache' = [cache EXCEPT ![NextRegion(p)] = cache[NextRegion(p)] \cup f..u]
<1>1. PICK u \in asof[p]..published : got[p] = from[p]..u
  BY DEF BInv, Batches, UpsertRates, Store
<1>2. from[p] \in 0..now /\ u \in 0..published
  <2>1. from[p] \in Nat /\ asof[p] \in Nat /\ now \in Nat /\ published \in Nat
    BY SlotsAreNat DEF BInv, TInv, TypeOK
  <2>2. from[p] <= now
    BY DEF BInv, Batches, UpsertRates, Store
  <2> QED BY <1>1, <2>1, <2>2
<1> QED BY <1>1, <1>2 DEF UpsertRates, Store

\* Nothing else touches the cache, and time only goes on.
LEMMA CacheSteps ==
    ASSUME BInv, [Next]_vars
    PROVE  \/ UNCHANGED <<now, published, cache>>
           \/ HalfHour \/ Publish
           \/ \E p \in Procs : UpsertRates(p)
<1>1. ASSUME NEW p, \/ Begins(p) \/ List(p) \/ LatestAgileProduct(p) \/ Fetch(p)
                    \/ (\E s \in {"idle", "nap"} : Drops(p, s)) \/ CheckCache(p)
                    \/ LinkUpsertsDefault(p)
                    \/ (\E c \in Movers, r \in Regions : SetRegion(p, c, r))
      PROVE  UNCHANGED <<now, published, cache>>
  BY <1>1 DEF Begins, List, LatestAgileProduct, Fetch, Drops, CheckCache,
              LinkUpsertsDefault, SetRegion, worldVars, dbVars
<1>2. CASE Crash \/ UNCHANGED vars
  BY <1>2 DEF Crash, vars, worldVars, dbVars
<1> QED BY <1>1, <1>2, NextCases DEF BInv, TInv

LEMMA StepNoHole == BInv /\ NoHoleAhead /\ [Next]_vars => NoHoleAhead'
<1> SUFFICES ASSUME BInv, NoHoleAhead, [Next]_vars,
                    NEW r \in Regions, NEW s \in cache'[r], NEW t \in now'..s
             PROVE  t \in cache'[r]
  BY DEF NoHoleAhead
<1>1. now \in Nat /\ published \in Nat /\ cache \in [Regions -> SUBSET Slots]
  BY SlotsAreNat DEF BInv, TInv, TypeOK
<1>2. ASSUME UNCHANGED cache, s \in Nat, now' = now \/ now' = now + 1
      PROVE  t \in cache'[r]
  <2>1. t \in now..s
    BY <1>1, <1>2
  <2> QED BY <1>2, <2>1 DEF NoHoleAhead
<1>3. UNCHANGED cache => s \in Nat
  BY <1>1, SlotsAreNat
<1>4. CASE UNCHANGED <<now, published, cache>>
  BY <1>2, <1>3, <1>4
<1>5. CASE HalfHour \/ Publish
  BY <1>2, <1>3, <1>5 DEF HalfHour, Publish, dbVars
<1>6. ASSUME NEW p \in Procs, UpsertRates(p)
      PROVE  t \in cache'[r]
  <2> DEFINE q == NextRegion(p)
  <2>1. PICK f \in 0..now, u \in 0..published :
              cache' = [cache EXCEPT ![q] = cache[q] \cup f..u]
    BY <1>6, StoreIsFill
  <2>2. now' = now
    BY <1>6 DEF UpsertRates, Store, worldVars
  <2>3. CASE s \in cache[r]
    <3>1. t \in cache[r]
      BY <2>2, <2>3 DEF NoHoleAhead
    <3> QED BY <1>1, <2>1, <3>1
  <2>4. CASE s \notin cache[r]
    <3>1. q = r /\ s \in f..u /\ cache'[r] = cache[r] \cup f..u
      BY <1>1, <2>1, <2>4
    <3>2. t \in f..u
      BY <1>1, <2>1, <2>2, <3>1
    <3> QED BY <3>1, <3>2
  <2> QED BY <2>3, <2>4
<1> QED BY <1>4, <1>5, <1>6, CacheSteps

\* In whatever order refreshes land, the rates ahead of the clock have no hole.
THEOREM NoHoleAheadHolds == Spec => []NoHoleAhead
<1>1. Init => NoHoleAhead
  BY DEF Init, NoHoleAhead
<1> QED BY <1>1, BInvInvariant, StepNoHole, PTL DEF Spec

\* The refreshes fill the cache as the models of its readers assume: every store is
\* a Fill, the world's steps are the world's, and everything else is invisible.
THEOREM RefreshesFillAsPromised == Spec => FillsAsPromised
<1>1. Init => Abstract!Init
  BY DEF Init, Abstract!Init, Slots
<1>2. BInv /\ [Next]_vars => [Abstract!Next]_Abstract!vars
  <2> SUFFICES ASSUME BInv, [Next]_vars
               PROVE  [Abstract!Next]_Abstract!vars
    OBVIOUS
  <2>1. CASE UNCHANGED <<now, published, cache>>
    BY <2>1 DEF Abstract!vars
  <2>2. CASE HalfHour
    BY <2>2 DEF HalfHour, dbVars, Abstract!HalfHour, Abstract!Next
  <2>3. CASE Publish
    BY <2>3 DEF Publish, dbVars, Abstract!Publish, Abstract!Next
  <2>4. ASSUME NEW p \in Procs, UpsertRates(p)
        PROVE  [Abstract!Next]_Abstract!vars
    <3> DEFINE q == NextRegion(p)
    <3>1. PICK f \in 0..now, u \in 0..published :
                cache' = [cache EXCEPT ![q] = cache[q] \cup f..u]
      BY <2>4, StoreIsFill
    <3>2. UNCHANGED <<now, published>>
      BY <2>4 DEF UpsertRates, Store, worldVars
    <3>3. CASE q \in Regions
      <4>1. Abstract!Fill(q)
        BY <3>1, <3>2 DEF Abstract!Fill
      <4> QED BY <3>3, <4>1 DEF Abstract!Next
    <3>4. CASE q \notin Regions
      <4>1. cache' = cache
        BY <3>1, <3>4 DEF BInv, TInv, TypeOK
      <4> QED BY <3>2, <4>1 DEF Abstract!vars
    <3> QED BY <3>3, <3>4
  <2> QED BY <2>1, <2>2, <2>3, <2>4, CacheSteps
<1> QED BY <1>1, <1>2, BInvInvariant, PTL DEF Spec, FillsAsPromised, Abstract!Spec

-----------------------------------------------------------------------------
(* Chats are served.                                                       *)

\* A step p takes itself, but for a change of region.
Acts(p) == \/ (p \in Refreshers /\ Begins(p)) \/ (p \in Setters /\ CheckCache(p))
           \/ List(p) \/ LatestAgileProduct(p) \/ Fetch(p) \/ UpsertRates(p)
           \/ \E s \in {"idle", "nap"} : Drops(p, s)

\* For p nothing happens but that it may lose chats that have moved.
Stands(p) == /\ UNCHANGED <<pc[p], todo[p], from[p], got[p], asof[p]>>
             /\ stay'[p] \subseteq stay[p]
             /\ \A c \in stay'[p] : ResolveChat(c)' = ResolveChat(c)

LEMMA Bystanders ==
    ASSUME BInv, [Next]_vars, NEW p \in Procs
    PROVE  \/ Stands(p) \/ Acts(p) \/ Crash
           \/ \E c \in Movers, r \in Regions : p \in Setters /\ SetRegion(p, c, r)
<1> USE DEF BInv, TInv, TypeOK
<1>1. CASE HalfHour \/ Publish \/ UNCHANGED vars
  BY <1>1 DEF HalfHour, Publish, vars, Stands, dbVars, callVars, histVars, ResolveChat
<1>2. ASSUME NEW q \in Procs, Acts(q), q # p
      PROVE  Stands(p)
  <2>1. region' = region
    BY <1>2 DEF Acts, Begins, CheckCache, List, LatestAgileProduct, Fetch, UpsertRates,
                Store, Drops, dbVars
  <2>2. UNCHANGED <<pc[p], todo[p], from[p], got[p], asof[p], stay[p]>>
    <3>1. CASE Begins(q)
      BY <1>2, <3>1 DEF Begins, histVars
    <3>2. CASE CheckCache(q)
      BY <1>2, <3>2 DEF CheckCache, histVars
    <3>3. CASE List(q)
      BY <1>2, <3>3 DEF List
    <3>4. CASE LatestAgileProduct(q) \/ Fetch(q)
      BY <1>2, <3>4 DEF LatestAgileProduct, Fetch, histVars
    <3>5. CASE UpsertRates(q)
      BY <1>2, <3>5 DEF UpsertRates, Store, histVars
    <3>6. CASE \E s \in {"idle", "nap"} : Drops(q, s)
      BY <1>2, <3>6 DEF Drops, Forget
    <3> QED BY <1>2, <3>1, <3>2, <3>3, <3>4, <3>5, <3>6 DEF Acts
  <2> QED BY <2>1, <2>2 DEF Stands, ResolveChat
<1>3. ASSUME NEW s \in Setters, NEW c \in Movers, NEW r \in Regions, SetRegion(s, c, r), s # p
      PROVE  Stands(p)
  <2>1. UNCHANGED <<pc[p], todo[p], from[p], got[p], asof[p]>> /\ s \in Procs
    BY <1>3 DEF SetRegion, Procs
  <2>2. stay'[p] = IF ResolveChat(c) = r THEN stay[p] ELSE stay[p] \ {c}
    BY <1>3 DEF SetRegion
  <2>3. stay'[p] \subseteq stay[p] /\ stay[p] \subseteq Chats /\ c \in Chats
    BY <2>2, RefreshAssumption
  <2>4. ASSUME NEW d \in stay'[p]
        PROVE  ResolveChat(d)' = ResolveChat(d)
    <3>1. region' = [region EXCEPT ![c] = r] /\ r # NoRegion
      BY <1>3, RefreshAssumption DEF SetRegion, UpsertChatRegion
    <3>2. CASE d = c
      BY <2>2, <2>3, <3>1, <3>2 DEF ResolveChat
    <3>3. CASE d # c
      BY <2>3, <3>1, <3>3 DEF ResolveChat
    <3> QED BY <3>2, <3>3
  <2> QED BY <2>1, <2>3, <2>4 DEF Stands
<1>4. ASSUME NEW c \in Chats, LinkUpsertsDefault(c)
      PROVE  Stands(p)
  BY <1>4, RefreshAssumption
     DEF LinkUpsertsDefault, UpsertChatRegion, Stands, callVars, histVars, ResolveChat
<1>5. CASE Crash
  BY <1>5
<1>6. ASSUME NEW q \in Procs, Acts(q)
      PROVE  Stands(p) \/ Acts(p)
  BY <1>2, <1>6
<1>7. ASSUME NEW s \in Setters, NEW c \in Movers, NEW r \in Regions, SetRegion(s, c, r)
      PROVE  Stands(p) \/ (p \in Setters /\ SetRegion(p, c, r))
  BY <1>3, <1>7
<1>8. CASE Next
  <2>1. CASE \E q \in Refreshers : Begins(q)
    BY <2>1, <1>6 DEF Acts, Procs
  <2>2. CASE \E q \in Procs : List(q) \/ LatestAgileProduct(q) \/ Fetch(q) \/ UpsertRates(q)
    BY <2>2, <1>6 DEF Acts
  <2>3. CASE (\E q \in Procs : Drops(q, "idle")) \/ Drops(Daily, "nap")
    BY <2>3, <1>6 DEF Acts, Procs, Refreshers
  <2>4. CASE \E s \in Setters : CheckCache(s)
    BY <2>4, <1>6 DEF Acts, Procs
  <2>5. TypeOK /\ Roles
    OBVIOUS
  <2> HIDE DEF TypeOK
  <2> QED BY <1>1, <1>4, <1>5, <1>7, <1>8, <2>1, <2>2, <2>3, <2>4, <2>5, NextCases
<1> QED BY <1>1, <1>8

LEMMA Growth ==
    ASSUME BInv, [Next]_vars
    PROVE  /\ now \in Nat /\ now' \in Nat /\ now <= now'
           /\ \A r \in Regions : cache[r] \subseteq cache'[r]
<1>1. now \in Nat /\ cache \in [Regions -> SUBSET Slots]
  BY SlotsAreNat DEF BInv, TInv, TypeOK
<1>2. CASE UNCHANGED <<now, cache>>
  BY <1>1, <1>2
<1>3. CASE HalfHour \/ Publish
  BY <1>1, <1>3 DEF HalfHour, Publish, dbVars
<1>4. ASSUME NEW p \in Procs, UpsertRates(p)
      PROVE  now' = now /\ \A r \in Regions : cache[r] \subseteq cache'[r]
  BY <1>1, <1>4 DEF UpsertRates, Store, worldVars
<1> QED BY <1>1, <1>2, <1>3, <1>4, CacheSteps

\* A chat a refresh is for is in a region still to be done, or is served.
ServedAt(p) ==
    /\ pc[p] \in {"product", "fetch", "upsert", "done"} =>
          \A c \in stay[p] : \/ ResolveChat(c) \in todo[p]
                             \/ now..asof[p] \subseteq cache[ResolveChat(c)]
    /\ pc[p] = "done" => todo[p] = {}

Served == \A p \in Refreshers : ServedAt(p)

LEMMA ChatRegions == TypeOK => \A c \in Chats : ResolveChat(c) \in Regions
BY RefreshAssumption DEF TypeOK, ResolveChat

LEMMA StepServed == BInv /\ Served /\ [Next]_vars => Served'
<1> SUFFICES ASSUME BInv, Served, [Next]_vars, NEW p \in Refreshers
             PROVE  ServedAt(p)'
  BY DEF Served
<1>1. /\ p \in Procs /\ ServedAt(p) /\ p \notin Setters
      /\ stay[p] \subseteq Chats /\ asof[p] \in Nat /\ todo[p] \subseteq Regions
  BY SlotsAreNat, RefreshAssumption DEF Served, Procs, Refreshers, BInv, TInv, TypeOK
<1>2. \A c \in stay[p] : ResolveChat(c) \in Regions
  BY <1>1, ChatRegions DEF BInv, TInv
<1>3. \A c \in stay[p] : now..asof[p] \subseteq cache[ResolveChat(c)] =>
         now'..asof[p] \subseteq cache'[ResolveChat(c)]
  <2>1. now'..asof[p] \subseteq now..asof[p]
    BY <1>1, Growth
  <2> QED BY <1>2, <2>1, Growth
<1>4. CASE Stands(p)
  BY <1>1, <1>3, <1>4 DEF Stands, ServedAt
<1>5. CASE Crash
  BY <1>1, <1>5 DEF Crash, ServedAt
<1>6. CASE Acts(p)
  <2> USE <1>1 DEF BInv, TInv, TypeOK
  <2>1. CASE Begins(p)
    BY <2>1 DEF Begins, ServedAt
  <2>2. CASE List(p)
    <3>1. /\ pc'[p] = "product" /\ region' = region
          /\ todo'[p] = IF DistinctRegions = {} THEN {Default} ELSE DistinctRegions
          /\ stay'[p] = IF DistinctRegions = {} THEN Chats
                         ELSE {c \in Chats : region[c] # NoRegion}
      BY <2>2 DEF List, dbVars
    <3>2. ASSUME NEW c \in stay'[p]
          PROVE  ResolveChat(c) \in todo'[p]
      BY <3>1 DEF DistinctRegions, ResolveChat
    <3>3. \A c \in stay'[p] : ResolveChat(c)' = ResolveChat(c)
      BY <3>1 DEF ResolveChat
    <3> QED BY <3>1, <3>2, <3>3 DEF ServedAt
  <2>3. CASE LatestAgileProduct(p) \/ Fetch(p)
    <3>1. /\ pc[p] \in {"product", "fetch"} /\ pc'[p] \in {"fetch", "upsert"}
          /\ UNCHANGED <<todo, asof, stay, region>>
      BY <2>3 DEF LatestAgileProduct, Fetch, dbVars, histVars
    <3> QED BY <1>3, <3>1 DEF ServedAt, ResolveChat
  <2>4. CASE UpsertRates(p)
    <3> DEFINE r == NextRegion(p)
    <3>1. /\ pc[p] = "upsert" /\ pc'[p] \in {"fetch", "done"}
          /\ todo'[p] = todo[p] \ {r} /\ (pc'[p] = "done" => todo'[p] = {})
          /\ UNCHANGED <<asof, stay, region, now>>
          /\ r \in Regions => cache'[r] = cache[r] \cup got[p]
      BY <2>4 DEF UpsertRates, Store, worldVars, histVars
    <3>2. now..asof[p] \subseteq got[p]
      <4>1. PICK u \in asof[p]..published : got[p] = from[p]..u
        BY <3>1 DEF Batches
      <4>2. from[p] <= now /\ from[p] \in Nat /\ now \in Nat /\ published \in Nat
        BY <3>1, SlotsAreNat DEF Batches
      <4> QED BY <4>1, <4>2
    <3>3. ASSUME NEW c \in stay[p]
          PROVE  \/ ResolveChat(c) \in todo'[p]
                 \/ now'..asof[p] \subseteq cache'[ResolveChat(c)]
      <4>1. CASE ResolveChat(c) = r
        BY <1>2, <3>1, <3>2, <4>1
      <4>2. CASE ResolveChat(c) # r
        BY <1>3, <3>1, <4>2 DEF ServedAt
      <4> QED BY <4>1, <4>2
    <3>4. \A c \in stay'[p] : ResolveChat(c)' = ResolveChat(c)
      BY <3>1 DEF ResolveChat
    <3> QED BY <3>1, <3>3, <3>4 DEF ServedAt
  <2>5. CASE \E s \in {"idle", "nap"} : Drops(p, s)
    BY <2>5 DEF Drops, Forget, ServedAt
  <2> QED BY <1>6, <2>1, <2>2, <2>3, <2>4, <2>5 DEF Acts
<1> QED BY <1>1, <1>4, <1>5, <1>6, Bystanders

LEMMA ServedServesAll == BInv /\ Served => RefreshServesAll
<1> SUFFICES ASSUME BInv, Served, NEW p \in Refreshers, pc[p] = "done", NEW c \in stay[p]
             PROVE  Covered(c, now, asof[p])
  BY DEF RefreshServesAll
<1>1. p \in Procs /\ now..asof[p] \subseteq cache[ResolveChat(c)]
  BY DEF Served, ServedAt, Procs
<1>2. /\ now \in Nat /\ asof[p] \in Nat /\ published \in Nat /\ Span \in Nat
      /\ asof[p] <= published /\ published < now + Span
  BY <1>1, SlotsAreNat, RefreshAssumption DEF BInv, TInv, TypeOK, Batches
<1>3. now..asof[p] \subseteq now..(now + Span)
  BY <1>2
<1> QED BY <1>1, <1>3 DEF Covered, Rates

\* A refresh that succeeds serves every chat it was made for and that did not move:
\* whatever failed in earlier tries, however late the rates are published, and
\* whatever is stored beside it.
THEOREM RefreshServesAllHolds == Spec => []RefreshServesAll
<1>1. Init => Served
  BY DEF Init, Served, ServedAt, Procs
<1> QED BY <1>1, BInvInvariant, StepServed, ServedServesAll, PTL DEF Spec

-----------------------------------------------------------------------------
(* A chat that moves.                                                      *)

\* A change of region works for the region its chat has now, and leaves it a rate
\* of a half-hour under way.
PrimedAt(s) ==
    /\ pc[s] \in {"check", "fetch", "upsert"} => \A c \in stay[s] : todo[s] = {ResolveChat(c)}
    /\ pc[s] = "done" =>
          \A c \in stay[s] :
              from[s] <= asof[s] => cache[ResolveChat(c)] \cap from[s]..now # {}

Primed == \A s \in Setters : PrimedAt(s)

\* A rate found in the cache, be it of a later half-hour, means one for now: there
\* is no hole.
LEMMA WarmMeansNow ==
    ASSUME BInv, NoHoleAhead, NEW r \in Regions, NEW f \in Slots, f <= now,
           NEW reach \in {1, 2}, Have(r, f, reach)
    PROVE  cache[r] \cap f..now # {}
<1>1. now \in Nat /\ f \in Nat /\ cache[r] \subseteq Nat
  BY SlotsAreNat DEF BInv, TInv, TypeOK
<1>2. PICK x \in cache[r] : x \in f..(f + reach)
  BY DEF Have
<1>3. CASE x <= now
  BY <1>1, <1>2, <1>3
<1>4. CASE now < x
  <2>1. now \in now..x
    BY <1>1, <1>2, <1>4
  <2>2. now \in cache[r]
    BY <1>2, <2>1 DEF NoHoleAhead
  <2> QED BY <1>1, <2>2
<1> QED BY <1>1, <1>2, <1>3, <1>4

LEMMA StepPrimed == BInv /\ NoHoleAhead /\ Primed /\ [Next]_vars => Primed'
<1> SUFFICES ASSUME BInv, NoHoleAhead, Primed, [Next]_vars, NEW s \in Setters
             PROVE  PrimedAt(s)'
  BY DEF Primed
<1>1. /\ s \in Procs /\ PrimedAt(s) /\ s \notin Refreshers
      /\ stay[s] \subseteq Chats /\ from[s] \in Nat /\ asof[s] \in Nat
      /\ pc[s] \in {"idle", "check", "fetch", "upsert", "done"}
  BY SlotsAreNat, RefreshAssumption DEF Primed, Procs, Refreshers, BInv, TInv, TypeOK, Roles
<1>2. \A c \in stay[s] : ResolveChat(c) \in Regions
  BY <1>1, ChatRegions DEF BInv, TInv
<1>3. \A c \in stay[s] : cache[ResolveChat(c)] \cap from[s]..now # {} =>
         cache'[ResolveChat(c)] \cap from[s]..now' # {}
  <2>1. from[s]..now \subseteq from[s]..now'
    BY <1>1, Growth
  <2> QED BY <1>2, <2>1, Growth
<1>4. CASE Stands(s)
  BY <1>1, <1>3, <1>4 DEF Stands, PrimedAt
<1>5. CASE Crash
  BY <1>1, <1>5 DEF Crash, PrimedAt
<1>6. CASE Acts(s)
  <2> USE <1>1 DEF BInv, TInv, TypeOK
  <2>1. CASE CheckCache(s)
    <3>1. PICK reach \in {1, 2} :
             pc' = [pc EXCEPT ![s] = IF Have(NextRegion(s), from[s], reach)
                                     THEN "done" ELSE "fetch"]
      BY <2>1 DEF CheckCache
    <3>2. pc[s] = "check" /\ UNCHANGED <<todo, from, asof, stay, region, cache, now>>
      BY <2>1 DEF CheckCache, worldVars, dbVars, histVars
    <3>3. ASSUME NEW c \in stay[s], Have(NextRegion(s), from[s], reach)
          PROVE  cache[ResolveChat(c)] \cap from[s]..now # {}
      <4>1. todo[s] = {ResolveChat(c)}
        BY <3>2 DEF PrimedAt
      <4>2. NextRegion(s) = ResolveChat(c)
        BY <1>2, <4>1, RefreshAssumption DEF NextRegion
      <4>3. from[s] \in Slots /\ from[s] <= now
        BY <3>2 DEF Batches
      <4> QED BY <1>2, <3>3, <4>2, <4>3, WarmMeansNow
    <3>4. \A c \in stay'[s] : ResolveChat(c)' = ResolveChat(c)
      BY <3>2 DEF ResolveChat
    <3>5. CASE Have(NextRegion(s), from[s], reach)
      <4>1. pc'[s] = "done"
        BY <3>1, <3>5
      <4> QED BY <3>2, <3>3, <3>4, <3>5, <4>1 DEF PrimedAt
    <3>6. CASE ~ Have(NextRegion(s), from[s], reach)
      <4>1. pc'[s] = "fetch"
        BY <3>1, <3>6
      <4> QED BY <3>2, <3>4, <4>1 DEF PrimedAt
    <3> QED BY <3>5, <3>6
  <2>2. ~ (List(s) \/ LatestAgileProduct(s))
    BY DEF List, LatestAgileProduct
  <2>3. CASE Fetch(s)
    <3>1. /\ pc[s] = "fetch" /\ pc'[s] = "upsert"
          /\ UNCHANGED <<todo, stay, region>>
      BY <2>3 DEF Fetch, dbVars, histVars
    <3> QED BY <3>1 DEF PrimedAt, ResolveChat
  <2>4. CASE UpsertRates(s)
    <3> DEFINE r == NextRegion(s)
    <3>1. /\ pc[s] = "upsert" /\ todo'[s] = todo[s] \ {r}
          /\ pc'[s] = IF todo[s] \ {r} = {} THEN "done" ELSE "fetch"
          /\ UNCHANGED <<from, asof, stay, region, now>>
          /\ r \in Regions => cache'[r] = cache[r] \cup got[s]
      BY <2>4 DEF UpsertRates, Store, worldVars, histVars
    <3>2. from[s] <= asof[s] => from[s] \in got[s] \cap from[s]..now
      <4>1. PICK u \in asof[s]..published : got[s] = from[s]..u
        BY <3>1 DEF Batches
      <4>2. from[s] <= now /\ now \in Nat /\ published \in Nat
        BY <3>1, SlotsAreNat DEF Batches
      <4> QED BY <4>1, <4>2
    <3>3. ASSUME NEW c \in stay[s]
          PROVE  /\ pc'[s] = "done"
                 /\ from[s] <= asof[s] => cache'[ResolveChat(c)] \cap from[s]..now # {}
      <4>1. todo[s] = {ResolveChat(c)}
        BY <3>1 DEF PrimedAt
      <4>2. r = ResolveChat(c)
        BY <1>2, <4>1, RefreshAssumption DEF NextRegion
      <4> QED BY <1>2, <3>1, <3>2, <4>1, <4>2
    <3>4. \A c \in stay'[s] : ResolveChat(c)' = ResolveChat(c)
      BY <3>1 DEF ResolveChat
    <3> QED BY <3>1, <3>3, <3>4 DEF PrimedAt
  <2>5. CASE \E t \in {"idle", "nap"} : Drops(s, t)
    BY <2>5 DEF Drops, Forget, PrimedAt
  <2> QED BY <1>6, <2>1, <2>2, <2>3, <2>4, <2>5 DEF Acts
<1>7. ASSUME NEW c \in Movers, NEW r \in Regions, SetRegion(s, c, r)
      PROVE  PrimedAt(s)'
  <2>1. c \in Chats /\ r # NoRegion /\ region \in [Chats -> Regions \cup {NoRegion}]
    BY RefreshAssumption DEF BInv, TInv, TypeOK
  <2>2. pc'[s] = "check" /\ todo'[s] = {r} /\ stay'[s] = {c}
    BY <1>1, <1>7 DEF SetRegion, BInv, TInv, TypeOK
  <2>3. ResolveChat(c)' = r
    BY <1>7, <2>1 DEF SetRegion, UpsertChatRegion, ResolveChat
  <2> QED BY <2>2, <2>3 DEF PrimedAt
<1> QED BY <1>1, <1>4, <1>5, <1>6, <1>7, Bystanders

\* A change of region that met no failure leaves its chat a rate of a half-hour that
\* was under way during the change, if it was published; also when it fetched nothing.
THEOREM RegionIsPrimedHolds == Spec => []RegionIsPrimed
<1>1. Init => Primed /\ NoHoleAhead
  BY DEF Init, Primed, PrimedAt, Procs, NoHoleAhead
<1>2. Primed => RegionIsPrimed
  BY DEF Primed, PrimedAt, RegionIsPrimed
<1> QED BY <1>1, <1>2, BInvInvariant, StepNoHole, StepPrimed, PTL DEF Spec

-----------------------------------------------------------------------------
(* The daily job's delays.                                                 *)

LEMMA PowersDouble ==
    /\ PowerOfTwo \in [Nat -> Nat] /\ PowerOfTwo[0] = 1
    /\ \A k \in Nat : PowerOfTwo[k + 1] = 2 * PowerOfTwo[k]
<1> DEFINE step == [a \in Nat \X Nat |-> 2 * a[2]]
           body(f, k) == IF k = 0 THEN 1 ELSE 2 * f[k - 1]
<1>1. step \in [Nat \X Nat -> Nat]
  OBVIOUS
<1>2. PICK f \in [Nat -> Nat] : f[0] = 1 /\ \A n \in Nat : f[n + 1] = step[<<n, f[n]>>]
  <2> HIDE DEF step
  <2>1. IsStep(Nat, step) /\ 1 \in Nat
    BY <1>1 DEF IsStep
  <2>2. \E f : IsRecursion(f, Nat, 1, step)
    BY <2>1, Recursion
  <2> QED BY <2>2 DEF IsRecursion
<1>3. f = [k \in Nat |-> body(f, k)]
  <2>1. ASSUME NEW k \in Nat PROVE f[k] = body(f, k)
    <3>1. CASE k = 0
      BY <1>2, <3>1
    <3>2. CASE k # 0
      <4>1. PICK n \in Nat : k = n + 1 /\ n = k - 1
        BY <3>2
      <4>2. f[n + 1] = 2 * f[n]
        BY <1>2
      <4> QED BY <3>2, <4>1, <4>2
    <3> QED BY <3>1, <3>2
  <2> QED BY <1>2, <2>1
<1>4. PowerOfTwo = CHOOSE g : g = [k \in Nat |-> body(g, k)]
  BY DEF PowerOfTwo
<1>5. PowerOfTwo = [k \in Nat |-> body(PowerOfTwo, k)]
  <2> HIDE DEF body
  <2> QED BY <1>3, <1>4
<1>6. PowerOfTwo[0] = 1 /\ \A k \in Nat : PowerOfTwo[k + 1] = 2 * PowerOfTwo[k]
  <2>1. \A k \in Nat : PowerOfTwo[k] = body(PowerOfTwo, k)
    <3> HIDE DEF body
    <3> QED BY <1>5
  <2>2. ASSUME NEW k \in Nat PROVE PowerOfTwo[k + 1] = 2 * PowerOfTwo[k]
    <3>1. k + 1 \in Nat /\ k + 1 # 0 /\ (k + 1) - 1 = k
      OBVIOUS
    <3>2. PowerOfTwo[k + 1] = body(PowerOfTwo, k + 1)
      BY <2>1, <3>1
    <3> QED BY <3>1, <3>2
  <2> QED BY <2>1, <2>2
<1>7. \A k \in Nat : PowerOfTwo[k] \in Nat
  <2> DEFINE S == {k \in Nat : PowerOfTwo[k] \in Nat}
  <2>1. 0 \in S /\ \A n \in Nat : n \in S => n + 1 \in S
    BY <1>6
  <2> HIDE DEF S
  <2>2. Nat \subseteq S
    BY <2>1, SetInduction
  <2> QED BY <2>2 DEF S
<1>8. PowerOfTwo \in [Nat -> Nat]
  <2>1. \E v : PowerOfTwo = [k \in Nat |-> v[k]]
    BY <1>5
  <2> QED BY <1>7, <2>1
<1> QED BY <1>6, <1>8

\* The delay doubles as the code's variable does, and is never nothing.
LEMMA DelayDoubles ==
    /\ Delay(0) = 1
    /\ \A k \in Nat : Delay(k) \in 1..MaxBackoff /\ Delay(k + 1) = Doubled(Delay(k))
<1>1. MaxBackoff \in Nat /\ MaxBackoff >= 1
  BY RefreshAssumption
<1>2. \A k \in Nat : PowerOfTwo[k] \in Nat
  BY PowersDouble
<1>3. \A k \in Nat : PowerOfTwo[k] >= 1
  <2> DEFINE S == {k \in Nat : PowerOfTwo[k] >= 1}
  <2>1. 0 \in S
    BY PowersDouble
  <2>2. ASSUME NEW n \in Nat, n \in S PROVE n + 1 \in S
    BY <1>2, <2>2, PowersDouble
  <2> HIDE DEF S
  <2>3. Nat \subseteq S
    BY <2>1, <2>2, SetInduction
  <2> QED BY <2>3 DEF S
<1>4. ASSUME NEW k \in Nat
      PROVE  Delay(k) \in 1..MaxBackoff /\ Delay(k + 1) = Doubled(Delay(k))
  <2>1. PICK p \in Nat : p = PowerOfTwo[k] /\ p >= 1 /\ PowerOfTwo[k + 1] = 2 * p
    BY <1>2, <1>3, PowersDouble
  <2>2. Delay(k) = IF p <= MaxBackoff THEN p ELSE MaxBackoff
    BY <2>1 DEF Delay
  <2>3. Delay(k + 1) = IF 2 * p <= MaxBackoff THEN 2 * p ELSE MaxBackoff
    BY <2>1 DEF Delay
  <2> QED BY <1>1, <2>1, <2>2, <2>3 DEF Doubled
<1>5. Delay(0) = 1
  BY <1>1, PowersDouble DEF Delay
<1> QED BY <1>4, <1>5

LEMMA DelaysAddUp ==
    /\ Delays[1] = 0
    /\ \A n \in Nat : /\ Delays[n] \in Nat
                      /\ n >= 1 => Delays[n + 1] = Delays[n] + Delay(n - 1)
                      /\ n >= 1 => n <= Delays[n] + 1
<1> DEFINE more(n) == IF n = 0 THEN 0 ELSE Delay(n - 1)
           step == [a \in Nat \X Nat |-> a[2] + more(a[1])]
           body(f, n) == IF n <= 1 THEN 0 ELSE f[n - 1] + Delay(n - 2)
<1>1. \A n \in Nat : more(n) \in Nat /\ (n # 0 => more(n) >= 1)
  <2>1. ASSUME NEW n \in Nat, n # 0 PROVE Delay(n - 1) \in 1..MaxBackoff
    BY <2>1, DelayDoubles
  <2>2. MaxBackoff \in Nat
    BY RefreshAssumption
  <2> QED BY <2>1, <2>2
<1>2. step \in [Nat \X Nat -> Nat]
  <2> HIDE DEF more
  <2> QED BY <1>1
<1>3. PICK f \in [Nat -> Nat] : f[0] = 0 /\ \A n \in Nat : f[n + 1] = step[<<n, f[n]>>]
  <2> HIDE DEF step
  <2>1. IsStep(Nat, step) /\ 0 \in Nat
    BY <1>2 DEF IsStep
  <2>2. \E f : IsRecursion(f, Nat, 0, step)
    BY <2>1, Recursion
  <2> QED BY <2>2 DEF IsRecursion
<1>4. \A n \in Nat : f[n + 1] = f[n] + more(n)
  <2> HIDE DEF more
  <2> QED BY <1>3
<1>5. f = [n \in Nat |-> body(f, n)]
  <2>1. ASSUME NEW n \in Nat PROVE f[n] = body(f, n)
    <3>1. CASE n = 0
      BY <1>3, <3>1
    <3>2. CASE n # 0
      <4>1. PICK m \in Nat : n = m + 1 /\ m = n - 1
        BY <3>2
      <4>2. f[n] = f[m] + more(m)
        BY <1>4, <4>1
      <4>3. CASE m = 0
        BY <1>3, <4>1, <4>2, <4>3
      <4>4. CASE m # 0
        <5>1. m - 1 = n - 2 /\ ~(n <= 1)
          BY <4>1, <4>4
        <5> QED BY <4>1, <4>2, <4>4, <5>1
      <4> QED BY <4>3, <4>4
    <3> QED BY <3>1, <3>2
  <2> QED BY <1>3, <2>1
<1>6. Delays = CHOOSE g : g = [n \in Nat |-> body(g, n)]
  BY DEF Delays
<1>7. Delays = [n \in Nat |-> body(Delays, n)]
  <2> HIDE DEF body
  <2> QED BY <1>5, <1>6
<1>8. \A n \in Nat : Delays[n] = body(Delays, n)
  <2> HIDE DEF body
  <2> QED BY <1>7
<1>9. ASSUME NEW n \in Nat, n >= 1 PROVE Delays[n + 1] = Delays[n] + Delay(n - 1)
  <2>1. n + 1 \in Nat /\ ~(n + 1 <= 1) /\ (n + 1) - 1 = n /\ (n + 1) - 2 = n - 1
    BY <1>9
  <2>2. Delays[n + 1] = body(Delays, n + 1)
    BY <1>8, <2>1
  <2> QED BY <2>1, <2>2
<1>10. Delays[0] = 0 /\ Delays[1] = 0
  BY <1>8
<1> DEFINE S == {n \in Nat : Delays[n] \in Nat /\ (n >= 1 => n <= Delays[n] + 1)}
<1>11. 0 \in S
  BY <1>10
<1>12. ASSUME NEW n \in Nat, n \in S PROVE n + 1 \in S
  <2>1. CASE n = 0
    BY <1>10, <2>1
  <2>2. CASE n # 0
    <3>1. Delays[n + 1] = Delays[n] + Delay(n - 1)
      BY <1>9, <2>2
    <3>2. Delay(n - 1) \in Nat /\ Delay(n - 1) >= 1
      BY <1>1, <2>2
    <3> QED BY <1>12, <2>2, <3>1, <3>2
  <2> QED BY <2>1, <2>2
<1> HIDE DEF S, more, step, body
<1>13. Nat \subseteq S
  BY <1>11, <1>12, SetInduction
<1> QED BY <1>9, <1>10, <1>13 DEF S

\* What a step may do to the daily job and its timers.
LEMMA DailyCases ==
    ASSUME TInv, [Next]_vars
    PROVE  \/ UNCHANGED timerVars /\ (pc[Daily] = "idle" => pc'[Daily] = "idle")
           \/ pc'[Daily] = "idle"
           \/ Fire \/ RetryLater \/ NextAttempt
<1> DEFINE Same == UNCHANGED timerVars /\ (pc[Daily] = "idle" => pc'[Daily] = "idle")
<1>1. Daily # Startup /\ Daily \notin Setters /\ Daily \in Procs
  BY RefreshAssumption DEF Procs, Refreshers
<1>2. pc \in [Procs -> Steps]
  BY DEF TInv, TypeOK
<1>3. CASE HalfHour \/ Publish \/ UNCHANGED vars
  BY <1>3 DEF HalfHour, Publish, vars, callVars
<1>4. CASE Start
  BY <1>1, <1>2, <1>4 DEF Start
<1>5. CASE Crash
  BY <1>1, <1>5 DEF Crash
<1>6. ASSUME NEW p \in Procs, Step(p) PROVE Same
  <2>1. CASE List(p) \/ LatestAgileProduct(p) \/ Fetch(p) \/ UpsertRates(p)
    BY <1>1, <1>2, <2>1 DEF List, LatestAgileProduct, Fetch, UpsertRates, Store
  <2>2. CASE Fails(p) \/ Return(p)
    BY <1>1, <1>2, <2>2 DEF Fails, Return, Forget
  <2> QED BY <1>6, <2>1, <2>2 DEF Step
<1>7. CASE Dispatch \/ RetriesExhausted
  BY <1>1, <1>2, <1>7 DEF Dispatch, RetriesExhausted, JobOver, Forget
<1>8. CASE Users
  BY <1>1, <1>2, <1>8 DEF Users, SetRegion, CheckCache, LinkUpsertsDefault, callVars
<1> HIDE DEF Same
<1>9. CASE DailyStep
  BY <1>1, <1>6, <1>7, <1>9 DEF DailyStep, Same
<1>10. CASE \E p \in Procs \ {Daily} : Step(p)
  BY <1>6, <1>10 DEF Same
<1> QED BY <1>3, <1>4, <1>5, <1>8, <1>9, <1>10 DEF Next

\* The job's backoff is the delay that comes after the present try, which did not
\* begin before those that precede it were over.
SpacedInv ==
    pc[Daily] # "idle" =>
        /\ attempt >= 1
        /\ attempt < Deadline + 2 => backoff = Delay(attempt - 1)
        /\ Delays[attempt] <= elapsed \/ Deadline < elapsed

LEMMA StepSpaced == TInv /\ SpacedInv /\ [Next]_vars => SpacedInv'
<1> SUFFICES ASSUME TInv, SpacedInv, [Next]_vars, pc'[Daily] # "idle"
             PROVE  /\ attempt' >= 1
                    /\ attempt' < Deadline + 2 => backoff' = Delay(attempt' - 1)
                    /\ Delays[attempt'] <= elapsed' \/ Deadline < elapsed'
  BY DEF SpacedInv
<1>1. /\ elapsed \in Nat /\ elapsed <= Deadline + 1 /\ backoff \in Nat /\ backoff >= 1
      /\ attempt \in Nat /\ attempt <= Deadline + 2 /\ Deadline \in Nat
      /\ Durations \subseteq Nat
  BY RefreshAssumption DEF TInv, TypeOK
<1>2. CASE UNCHANGED timerVars /\ (pc[Daily] = "idle" => pc'[Daily] = "idle")
  BY <1>2 DEF SpacedInv, timerVars
<1>3. CASE Fire
  <2>1. elapsed' = 0 /\ backoff' = 1 /\ attempt' = 1
    BY <1>3 DEF Fire
  <2> QED BY <1>1, <2>1, DelayDoubles, DelaysAddUp
<1>4. CASE RetryLater
  <2>1. PICK t \in Durations : After(t) <= Deadline /\ elapsed' = After(t)
    BY <1>4 DEF RetryLater
  <2>2. elapsed' >= elapsed /\ elapsed <= Deadline /\ elapsed' \in Nat
    BY <1>1, <2>1 DEF After
  <2>3. backoff' = backoff /\ attempt' = attempt /\ pc[Daily] # "idle"
    BY <1>4 DEF RetryLater, Calling
  <2>4. Delays[attempt] \in Nat
    BY <1>1, DelaysAddUp
  <2> QED BY <1>1, <2>2, <2>3, <2>4 DEF SpacedInv
<1>5. CASE NextAttempt
  <2>1. /\ elapsed' = After(backoff) /\ backoff' = Doubled(backoff)
        /\ attempt' = IF attempt < Deadline + 2 THEN attempt + 1 ELSE attempt
        /\ pc[Daily] # "idle"
    BY <1>5 DEF NextAttempt
  <2>2. attempt >= 1 /\ (Delays[attempt] <= elapsed \/ Deadline < elapsed)
        /\ Delays[attempt] \in Nat
    BY <1>1, <2>1, DelaysAddUp DEF SpacedInv
  <2>3. CASE attempt < Deadline + 2
    <3>1. attempt' = attempt + 1 /\ backoff = Delay(attempt - 1) /\ attempt - 1 \in Nat
          /\ (attempt - 1) + 1 = attempt' - 1
      BY <1>1, <2>1, <2>2, <2>3 DEF SpacedInv
    <3>2. backoff' = Delay(attempt' - 1)
      BY <2>1, <3>1, DelayDoubles
    <3>3. Delays[attempt'] = Delays[attempt] + backoff
      BY <1>1, <2>2, <3>1, DelaysAddUp
    <3>4. elapsed' = IF elapsed + backoff <= Deadline THEN elapsed + backoff ELSE Deadline + 1
      BY <2>1 DEF After
    <3> QED BY <1>1, <2>2, <3>1, <3>2, <3>3, <3>4
  <2>4. CASE ~(attempt < Deadline + 2)
    <3>1. attempt' = attempt /\ attempt = Deadline + 2
      BY <1>1, <2>1, <2>4
    <3>2. attempt <= Delays[attempt] + 1
      BY <1>1, <2>2, DelaysAddUp
    <3>3. Deadline < elapsed
      BY <1>1, <2>2, <3>1, <3>2
    <3>4. elapsed' = Deadline + 1
      BY <1>1, <2>1, <3>3 DEF After
    <3> QED BY <1>1, <2>2, <3>1, <3>4
  <2> QED BY <2>3, <2>4
<1> QED BY <1>2, <1>3, <1>4, <1>5, DailyCases

\* No try of the daily job comes before the delays before it are over, however many
\* there were: they double up to the longest, and are not cut short.
THEOREM TriesAreSpacedHolds == Spec => []TriesAreSpaced
<1>1. Init => SpacedInv
  BY DEF Init, SpacedInv, Procs, Refreshers
<1>2. SpacedInv => TriesAreSpaced
  BY DEF SpacedInv, TriesAreSpaced, Calling
<1>3. BInv => TInv
  BY DEF BInv
<1> QED BY <1>1, <1>2, <1>3, BInvInvariant, StepSpaced, PTL DEF Spec
=============================================================================
