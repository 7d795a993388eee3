---------------------- MODULE PriceAlertsSteadyProofs ----------------------
(***************************************************************************)
(* NoMiss, for every value of the constants: in a deployment in order no   *)
(* run is missed.                                                          *)
(***************************************************************************)
EXTENDS PriceAlertsSteady, PriceAlertsProofs

-----------------------------------------------------------------------------
(* The invariant.                                                          *)

\* The settings are those at the start, and a sweep has read them as they are.
SettingsInv ==
    /\ region \in [Chats -> Regions] /\ alert \in [Chats -> Thresholds]
    /\ \A s \in Sweeps :
          /\ \A a \in todo[s] : a.threshold = alert[a.chat]
          /\ pc[s] \in {"rates", "mark", "notify"} =>
                /\ cur[s].region = region[cur[s].chat]
                /\ cur[s].threshold = alert[cur[s].chat]

\* The next sweep is never too late for what the last one was too early for, and
\* one that has not read its clock was started just now.
ClockInv ==
    /\ lastFire \in Nat /\ lastFire <= now
    /\ up => now <= nextFire /\ InTime(nextFire)
    /\ ~up => InTime(now + Period) /\ \A s \in Sweeps : pc[s] = "idle"
    /\ \A s \in Sweeps : pc[s] \in {"list", "stamp"} => lastFire = now

\* Whatever a sweep still has to log or announce begins in its lead window.
WindowInv ==
    \A s \in Sweeps :
        /\ pc[s] = "mark" \/ pc[s] = "notify" =>
              \A u \in due[s] : InLeadWindow(u.start, at[s])
        /\ pc[s] = "notify" => InLeadWindow(run[s].start, at[s])

\* What is logged is announced, or about to be.
LoggedInv ==
    \A c \in Chats, f \in Starts : <<c, f>> \in log =>
        delivered[<<c, f>>] = 1 \/ \E s \in Sweeps : InFlight(s, c, f)

\* A run that a sweep has had in its lead window, or before it.
Wanted(c, f) == /\ f \in cache[region[c]] /\ RunStart(region[c], alert[c], f)
                /\ LeadMax <= f /\ f - LeadMax < lastFire

\* Sweep s still has chat c before it.
Waits(s, c) == [chat |-> c, threshold |-> alert[c]] \in todo[s]

\* Sweep s was started when f was in its lead window, and will come to c.
Comes(s, c, f) == /\ pc[s] = "list" \/ (pc[s] = "stamp" /\ Waits(s, c))
                  /\ InLeadWindow(f, now)

\* Sweep s, which looks for runs that start at times like f, has not yet done with f.
Handles(s, c, f) ==
    /\ pc[s] \in {"chat", "rates", "mark", "notify"}
    /\ InLeadWindow(f, at[s])
    /\ \/ Waits(s, c)
       \/ pc[s] = "rates" /\ cur[s].chat = c
       \/ pc[s] \in {"mark", "notify"} /\ cur[s].chat = c /\ \E u \in due[s] : u.start = f
       \/ InFlight(s, c, f)

\* It has been announced, or there is a sweep that will.
Served(c, f) == \/ delivered[<<c, f>>] = 1
                \/ \E s \in Sweeps : Comes(s, c, f) \/ Handles(s, c, f)

ServedInv == \A c \in Chats, f \in Starts : Wanted(c, f) => Served(c, f)

SteadyInv == /\ ClaimInv /\ SettingsInv /\ ClockInv /\ WindowInv
             /\ LoggedInv /\ ServedInv

-----------------------------------------------------------------------------
(* The steps.                                                              *)

LEMMA SteadyStepIsStep == [SteadyNext]_steadyVars => [Next]_vars
BY DEF SteadyNext, SteadyTick, SteadyCrash, SteadyRefresh, Next, RefreshStep, steadyVars

LEMMA InitSteady == SteadyInit => SteadyInv
<1> SUFFICES ASSUME SteadyInit PROVE SteadyInv
  OBVIOUS
<1> USE DEF SteadyInit, ProcessInit
<1>1. region \in [Chats -> Regions] /\ alert \in [Chats -> Thresholds]
  OBVIOUS
<1>2. Typed
  BY <1>1, TimingAssumption DEF Typed, TypeOK, SystemTypeOK, SweepTypeOK, LocalsSet, Keys
<1>3. ExclusiveClaim /\ SentOnce
  BY DEF ExclusiveClaim, InFlight, SentOnce
<1>4. SettingsInv
  BY <1>1 DEF SettingsInv
<1>5. ClockInv
  BY SteadyAssumption, TimingAssumption DEF ClockInv, InTime
<1>6. WindowInv /\ LoggedInv
  BY DEF WindowInv, LoggedInv
<1>7. ServedInv
  BY StartsAssumption, TimingAssumption DEF ServedInv, Wanted
<1> QED BY <1>2, <1>3, <1>4, <1>5, <1>6, <1>7 DEF SteadyInv, ClaimInv

\* What the steps of a sweep leave alone: everything but the log, the messages
\* and the sweep's own locals.
LEMMA SweepStepFrame ==
    ASSUME Typed, NEW s \in Sweeps, SweepStep(s)
    PROVE  /\ UNCHANGED <<now, up, nextFire, region, alert, cache>>
           /\ pc[s] # "idle"
           /\ \A x \in Sweeps : x # s =>
                 /\ pc'[x] = pc[x] /\ at'[x] = at[x] /\ todo'[x] = todo[x]
                 /\ cur'[x] = cur[x] /\ due'[x] = due[x] /\ run'[x] = run[x]
<1> USE DEF Typed, TypeOK, SweepTypeOK, LocalOnly, dbVars
<1>1. CASE ListEnabledPriceAlerts(s)
  BY <1>1 DEF ListEnabledPriceAlerts
<1>2. CASE ReadClock(s)
  BY <1>2 DEF ReadClock
<1>3. CASE GetChat(s)
  BY <1>3 DEF GetChat, NextAlert
<1>4. CASE Rates(s)
  BY <1>4 DEF Rates, NextRun, NextAlert
<1>5. CASE MarkPriceAlertDispatched(s)
  BY <1>5 DEF MarkPriceAlertDispatched, NextRun, NextAlert
<1>6. CASE Notify(s)
  BY <1>6 DEF Notify, NextRun, NextAlert
<1> QED BY <1>1, <1>2, <1>3, <1>4, <1>5, <1>6 DEF SweepStep

\* The run loop of a sweep goes on: with the runs that are left, or with the next
\* alert, or it is over.
LEMMA NextRunGoesOn ==
    ASSUME Typed, NEW s \in Sweeps, NEW rest, NextRun(s, rest)
    PROVE  /\ todo'[s] = todo[s]
           /\ rest # {} => pc'[s] = "mark"
           /\ rest = {} => pc'[s] = IF todo[s] = {} THEN "idle" ELSE "chat"
           /\ pc'[s] = "mark" => /\ due'[s] = rest
                                 /\ cur'[s] = cur[s] /\ at'[s] = at[s]
           /\ todo[s] # {} => at'[s] = at[s]
BY DEF NextRun, NextAlert, Typed, TypeOK, SweepTypeOK

LEMMA StepSettings == SteadyInv /\ [SteadyNext]_steadyVars => SettingsInv'
<1> SUFFICES ASSUME SteadyInv, [SteadyNext]_steadyVars PROVE SettingsInv'
  OBVIOUS
<1> USE DEF SteadyInv, ClaimInv, SettingsInv
<1>1. CASE SteadyTick \/ SteadyRefresh \/ Restart
  BY <1>1 DEF SteadyTick, Tick, SteadyRefresh, UpsertRates, Restart, dbVars, sweepVars
<1>2. CASE SteadyCrash
  BY <1>2 DEF SteadyCrash, Crash, dbVars
<1>3. ASSUME NEW s \in Sweeps, SweepStep(s) PROVE SettingsInv'
  <2>1. /\ UNCHANGED <<region, alert>>
        /\ \A x \in Sweeps : x # s =>
              pc'[x] = pc[x] /\ todo'[x] = todo[x] /\ cur'[x] = cur[x]
    BY <1>3, SweepStepFrame
  <2>2. /\ \A a \in todo'[s] : a.threshold = alert[a.chat]
        /\ pc'[s] \in {"rates", "mark", "notify"} =>
              /\ cur'[s].region = region[cur'[s].chat]
              /\ cur'[s].threshold = alert[cur'[s].chat]
    <3> USE DEF Typed, TypeOK, SweepTypeOK
    <3>1. CASE ListEnabledPriceAlerts(s)
      BY <3>1 DEF ListEnabledPriceAlerts
    <3>2. CASE ReadClock(s)
      BY <3>2 DEF ReadClock
    <3>3. CASE GetChat(s)
      BY <3>3 DEF GetChat, NextAlert
    <3>4. CASE Rates(s)
      BY <3>4, NextRunGoesOn DEF Rates
    <3>5. CASE MarkPriceAlertDispatched(s)
      BY <3>5, NextRunGoesOn DEF MarkPriceAlertDispatched
    <3>6. CASE Notify(s)
      BY <3>6, NextRunGoesOn DEF Notify
    <3> QED BY <1>3, <3>1, <3>2, <3>3, <3>4, <3>5, <3>6 DEF SweepStep
  <2> QED BY <2>1, <2>2
<1>4. ASSUME NEW s \in Sweeps, Fire(s) PROVE SettingsInv'
  BY <1>4 DEF Fire, dbVars, Typed, TypeOK, SweepTypeOK
<1>5. CASE UNCHANGED steadyVars
  BY <1>5 DEF steadyVars, vars
<1> QED BY <1>1, <1>2, <1>3, <1>4, <1>5 DEF SteadyNext

LEMMA StepClock == SteadyInv /\ [SteadyNext]_steadyVars => ClockInv'
<1> SUFFICES ASSUME SteadyInv, [SteadyNext]_steadyVars PROVE ClockInv'
  OBVIOUS
<1> USE TimingAssumption, SteadyAssumption
    DEF SteadyInv, ClaimInv, ClockInv, InTime, Typed, TypeOK, SystemTypeOK
<1>1. CASE SteadyTick /\ UNCHANGED lastFire
  BY <1>1 DEF SteadyTick, Tick, sweepVars, InTime
<1>2. CASE SteadyRefresh /\ UNCHANGED lastFire
  BY <1>2 DEF SteadyRefresh, UpsertRates, sweepVars
<1>3. CASE Restart /\ UNCHANGED lastFire
  BY <1>3 DEF Restart, sweepVars
<1>4. CASE SteadyCrash /\ UNCHANGED lastFire
  BY <1>4 DEF SteadyCrash, Crash
<1>5. ASSUME NEW s \in Sweeps, SweepStep(s), UNCHANGED lastFire PROVE ClockInv'
  <2>1. /\ UNCHANGED <<now, up, nextFire>> /\ pc[s] # "idle"
        /\ \A x \in Sweeps : x # s => pc'[x] = pc[x]
    BY <1>5, SweepStepFrame
  <2>2. pc'[s] \in {"list", "stamp"} => pc[s] \in {"list", "stamp"}
    <3> USE DEF SweepTypeOK
    <3>1. CASE ListEnabledPriceAlerts(s)
      BY <3>1 DEF ListEnabledPriceAlerts
    <3>2. CASE ReadClock(s)
      BY <3>2 DEF ReadClock
    <3>3. CASE GetChat(s)
      BY <3>3 DEF GetChat, NextAlert
    <3>4. CASE Rates(s)
      BY <3>4, NextRunGoesOn DEF Rates
    <3>5. CASE MarkPriceAlertDispatched(s)
      BY <3>5, NextRunGoesOn DEF MarkPriceAlertDispatched
    <3>6. CASE Notify(s)
      BY <3>6, NextRunGoesOn DEF Notify
    <3> QED BY <1>5, <3>1, <3>2, <3>3, <3>4, <3>5, <3>6 DEF SweepStep
  <2>3. up
    BY <2>1
  <2>4. ASSUME NEW x \in Sweeps, pc'[x] \in {"list", "stamp"} PROVE lastFire = now
    BY <2>1, <2>2, <2>4
  <2> QED BY <1>5, <2>1, <2>3, <2>4
<1>6. ASSUME NEW s \in Sweeps, Fire(s), lastFire' = now PROVE ClockInv'
  BY <1>6 DEF Fire, SweepTypeOK
<1>7. CASE UNCHANGED steadyVars
  BY <1>7 DEF steadyVars, vars
<1> QED BY <1>1, <1>2, <1>3, <1>4, <1>5, <1>6, <1>7 DEF SteadyNext

LEMMA StepWindow == SteadyInv /\ [SteadyNext]_steadyVars => WindowInv'
<1> SUFFICES ASSUME SteadyInv, [SteadyNext]_steadyVars PROVE WindowInv'
  OBVIOUS
<1> USE DEF SteadyInv, ClaimInv, WindowInv
<1>1. CASE SteadyTick \/ SteadyRefresh \/ Restart
  BY <1>1 DEF SteadyTick, Tick, SteadyRefresh, UpsertRates, Restart, sweepVars, InLeadWindow
<1>2. CASE SteadyCrash
  BY <1>2 DEF SteadyCrash, Crash
<1>3. ASSUME NEW s \in Sweeps, SweepStep(s) PROVE WindowInv'
  <2>1. \A x \in Sweeps : x # s =>
          pc'[x] = pc[x] /\ at'[x] = at[x] /\ due'[x] = due[x] /\ run'[x] = run[x]
    BY <1>3, SweepStepFrame
  <2>2. /\ pc'[s] = "mark" \/ pc'[s] = "notify" =>
              \A u \in due'[s] : InLeadWindow(u.start, at'[s])
        /\ pc'[s] = "notify" => InLeadWindow(run'[s].start, at'[s])
    <3> USE DEF Typed, TypeOK, SweepTypeOK
    <3>1. CASE ListEnabledPriceAlerts(s)
      BY <3>1 DEF ListEnabledPriceAlerts
    <3>2. CASE ReadClock(s)
      BY <3>2 DEF ReadClock
    <3>3. CASE GetChat(s)
      BY <3>3 DEF GetChat, NextAlert
    <3>4. CASE Rates(s)
      BY <3>4, NextRunGoesOn DEF Rates
    <3>5. CASE MarkPriceAlertDispatched(s)
      BY <3>5, NextRunGoesOn DEF MarkPriceAlertDispatched
    <3>6. CASE Notify(s)
      BY <3>6, NextRunGoesOn DEF Notify
    <3> QED BY <1>3, <3>1, <3>2, <3>3, <3>4, <3>5, <3>6 DEF SweepStep
  <2> QED BY <2>1, <2>2 DEF InLeadWindow
<1>4. ASSUME NEW s \in Sweeps, Fire(s) PROVE WindowInv'
  BY <1>4 DEF Fire, InLeadWindow, Typed, TypeOK, SweepTypeOK
<1>5. CASE UNCHANGED steadyVars
  BY <1>5 DEF steadyVars, vars, InLeadWindow
<1> QED BY <1>1, <1>2, <1>3, <1>4, <1>5 DEF SteadyNext

\* A sweep leaves the step "notify" by sending, and then the key is announced.
LEMMA StepLogged == SteadyInv /\ [SteadyNext]_steadyVars => LoggedInv'
<1> SUFFICES ASSUME SteadyInv, [SteadyNext]_steadyVars,
                    NEW c \in Chats, NEW f \in Starts, <<c, f>> \in log'
             PROVE  delivered'[<<c, f>>] = 1 \/ \E s \in Sweeps : InFlight(s, c, f)'
  BY DEF LoggedInv
<1> USE DEF SteadyInv, ClaimInv, InFlight
<1>1. CASE SteadyTick \/ SteadyRefresh \/ Restart
  BY <1>1 DEF SteadyTick, Tick, SteadyRefresh, UpsertRates, Restart, dbVars, sweepVars,
              LoggedInv
<1>2. CASE SteadyCrash
  BY <1>2 DEF SteadyCrash, Crash, dbVars, LoggedInv
<1>3. ASSUME NEW s \in Sweeps, SweepStep(s)
      PROVE  delivered'[<<c, f>>] = 1 \/ \E x \in Sweeps : InFlight(x, c, f)'
  <2>1. \A x \in Sweeps : x # s => pc'[x] = pc[x] /\ cur'[x] = cur[x] /\ run'[x] = run[x]
    BY <1>3, SweepStepFrame
  <2> USE DEF Typed, TypeOK, SystemTypeOK, SweepTypeOK, LocalsSet, Keys
  <2>2. CASE pc[s] # "mark" /\ pc[s] # "notify"
    <3>1. UNCHANGED <<log, delivered>>
      BY <1>3, <2>2 DEF SweepStep, ListEnabledPriceAlerts, ReadClock, GetChat, Rates,
                        MarkPriceAlertDispatched, Notify, LocalOnly, dbVars
    <3>2. delivered[<<c, f>>] = 1 \/ \E x \in Sweeps : InFlight(x, c, f)
      BY <3>1 DEF LoggedInv
    <3>3. ASSUME NEW x \in Sweeps, InFlight(x, c, f) PROVE InFlight(x, c, f)'
      <4>1. x # s
        BY <2>2, <3>3
      <4> QED BY <2>1, <3>3, <4>1
    <3> QED BY <3>1, <3>2, <3>3
  <2>3. CASE MarkPriceAlertDispatched(s)
    <3>1. delivered' = delivered /\ pc[s] = "mark"
      BY <2>3 DEF MarkPriceAlertDispatched
    <3>2. CASE <<c, f>> \in log
      <4>1. delivered[<<c, f>>] = 1 \/ \E x \in Sweeps : InFlight(x, c, f)
        BY <3>2 DEF LoggedInv
      <4>2. ASSUME NEW x \in Sweeps, InFlight(x, c, f) PROVE InFlight(x, c, f)'
        BY <2>1, <3>1, <4>2
      <4> QED BY <3>1, <4>1, <4>2
    <3>3. CASE <<c, f>> \notin log
      <4>1. PICK u \in due[s] :
              /\ log' = log \cup {<<cur[s].chat, u.start>>}
              /\ <<cur[s].chat, u.start>> \notin log =>
                    /\ pc' = [pc EXCEPT ![s] = "notify"] /\ cur' = cur
                    /\ run' = [run EXCEPT ![s] = u]
        BY <2>3 DEF MarkPriceAlertDispatched
      <4>2. <<c, f>> = <<cur[s].chat, u.start>>
        BY <3>3, <4>1
      <4>3. cur[s].chat = c /\ u.start = f
        BY <4>2
      <4> QED BY <3>3, <4>1, <4>2, <4>3
    <3> QED BY <3>2, <3>3
  <2>4. CASE Notify(s)
    <3>1. /\ log' = log /\ pc[s] = "notify"
          /\ delivered' = [delivered EXCEPT ![<<cur[s].chat, run[s].start>>] = @ + 1]
      BY <2>4 DEF Notify, dbVars
    <3>2. CASE InFlight(s, c, f)
      <4>1. delivered[<<c, f>>] = 0 /\ <<c, f>> \in Keys
        BY <3>2 DEF ExclusiveClaim
      <4> QED BY <3>1, <3>2, <4>1
    <3>3. CASE ~InFlight(s, c, f)
      <4>1. delivered[<<c, f>>] = 1 => delivered'[<<c, f>>] = 1
        <5>1. cur[s] \in Target /\ run[s] \in Run
          BY <3>1
        <5>2. cur[s].chat \in Chats /\ run[s].start \in Starts
          BY <5>1 DEF Target, Run
        <5>3. delivered[<<cur[s].chat, run[s].start>>] = 0
          BY <3>1, <5>2 DEF ExclusiveClaim
        <5> QED BY <3>1, <5>2, <5>3
      <4> QED BY <2>1, <3>1, <3>3, <4>1 DEF LoggedInv
    <3> QED BY <3>2, <3>3
  <2> QED BY <1>3, <2>2, <2>3, <2>4
         DEF SweepStep, ListEnabledPriceAlerts, ReadClock, GetChat, Rates
<1>4. ASSUME NEW s \in Sweeps, Fire(s)
      PROVE  delivered'[<<c, f>>] = 1 \/ \E x \in Sweeps : InFlight(x, c, f)'
  BY <1>4 DEF Fire, dbVars, LoggedInv, Typed, TypeOK, SweepTypeOK
<1>5. CASE UNCHANGED steadyVars
  BY <1>5 DEF steadyVars, vars, LoggedInv
<1> QED BY <1>1, <1>2, <1>3, <1>4, <1>5 DEF SteadyNext

\* A run of the published prices that is in the cache, and begins in the lead
\* window, is among the runs a sweep finds.
LEMMA StartIsFound ==
    ASSUME SystemTypeOK, NEW r \in Regions, NEW T \in Thresholds, NEW t \in Nat,
           NEW f \in cache[r], RunStart(r, T, f), InLeadWindow(f, t)
    PROVE  \E u \in ContiguousRunsBelow(r, T, t) : u.start = f
<1> DEFINE B == Below(r, T, t)
<1>1. /\ cache[r] \subseteq Starts /\ f \in Starts /\ f \in Nat
      /\ Starts \subseteq Nat /\ Slot \in Nat /\ LeadMin \in Nat /\ LeadMax \in Nat
      /\ 0 < LeadMin /\ LeadMax < Slot
  BY StartsAssumption, TimingAssumption DEF SystemTypeOK
<1>2. f \in B /\ f - Slot \notin B /\ B \subseteq Starts
  <2>1. f \in Visible(r, t)
    BY <1>1 DEF Visible, InLeadWindow
  <2>2. f - Slot \in B => FALSE
    <3> SUFFICES ASSUME f - Slot \in B PROVE FALSE
      OBVIOUS
    <3>1. f - Slot \in Starts /\ Price[r][f - Slot] < T
      BY <1>1 DEF Below, Visible
    <3>2. Price[r][f - Slot] >= T
      BY <3>1 DEF RunStart
    <3>3. Price[r][f - Slot] \in Int /\ T \in Int
      BY <3>1, EntityAssumption
    <3> QED BY <3>1, <3>2, <3>3
  <2> QED BY <1>1, <2>1, <2>2 DEF RunStart, Below, Visible
<1>3. PICK g \in B : /\ f <= g /\ g + Slot \notin B
                     /\ \A h \in Starts : f <= h /\ h <= g => h \in B
  <2>1. CASE f + Slot \notin B
    <3>1. \A h \in Starts : f <= h /\ h <= f => h \in B
      BY <1>1, <1>2
    <3> QED BY <1>1, <1>2, <2>1, <3>1
  <2>2. CASE f + Slot \in B
    <3>1. (f + Slot) + Slot \notin B
      BY <1>1 DEF Below, Visible, InLeadWindow
    <3>2. \A h \in Starts : f <= h /\ h <= f + Slot => h = f \/ h = f + Slot
      <4> SUFFICES ASSUME NEW h \in Starts, f < h, h < f + Slot PROVE FALSE
        BY <1>1
      <4> QED BY <1>1, StartsAssumption
    <3> QED BY <1>1, <1>2, <2>2, <3>1, <3>2
  <2> QED BY <2>1, <2>2
<1>4. [start |-> f, end |-> g + Slot] \in ContiguousRunsBelow(r, T, t)
  <2> DEFINE q == <<f, g>>
  <2>1. q \in B \X B /\ q[1] = f /\ q[2] = g
    BY <1>2, <1>3
  <2>2. /\ q[1] <= q[2]
        /\ \A h \in Starts : q[1] <= h /\ h <= q[2] => h \in B
        /\ q[1] - Slot \notin B /\ q[2] + Slot \notin B
    BY <1>2, <1>3, <2>1
  <2> HIDE DEF B, q
  <2>3. [start |-> q[1], end |-> q[2] + Slot] \in ContiguousRunsBelow(r, T, t)
    BY <2>1, <2>2 DEF ContiguousRunsBelow, B
  <2> QED BY <2>1, <2>3
<1> QED BY <1>4

\* A run loop that goes on has f still before it, if its alerts or its runs have.
LEMMA NextRunHandles ==
    ASSUME Typed, UNCHANGED alert, NEW s \in Sweeps, NEW rest, NextRun(s, rest),
           NEW c, NEW f, InLeadWindow(f, at[s]),
           Waits(s, c) \/ (cur[s].chat = c /\ \E u \in rest : u.start = f)
    PROVE  Handles(s, c, f)'
<1>1. CASE Waits(s, c)
  <2>1. todo[s] # {} /\ todo'[s] = todo[s] /\ at'[s] = at[s]
    BY <1>1, NextRunGoesOn DEF Waits
  <2>2. pc'[s] \in {"mark", "chat"}
    BY <2>1, NextRunGoesOn
  <2>3. Waits(s, c)'
    BY <1>1, <2>1 DEF Waits
  <2>4. InLeadWindow(f, at[s])'
    BY <2>1 DEF InLeadWindow
  <2> QED BY <2>2, <2>3, <2>4 DEF Handles
<1>2. CASE cur[s].chat = c /\ \E u \in rest : u.start = f
  <2>1. /\ pc'[s] = "mark" /\ due'[s] = rest
        /\ cur'[s] = cur[s] /\ at'[s] = at[s]
    BY <1>2, NextRunGoesOn
  <2>2. InLeadWindow(f, at[s])'
    BY <2>1 DEF InLeadWindow
  <2> QED BY <1>2, <2>1, <2>2 DEF Handles
<1> QED BY <1>1, <1>2

\* A step of sweep s leaves what another sweep has before it as it is.
LEMMA OtherSweepGoesOn ==
    ASSUME Typed, NEW s \in Sweeps, SweepStep(s), NEW x \in Sweeps, x # s,
           NEW c, NEW f, Comes(x, c, f) \/ Handles(x, c, f)
    PROVE  Comes(x, c, f)' \/ Handles(x, c, f)'
<1>1. /\ UNCHANGED <<now, alert>>
      /\ pc'[x] = pc[x] /\ at'[x] = at[x] /\ todo'[x] = todo[x]
      /\ cur'[x] = cur[x] /\ due'[x] = due[x] /\ run'[x] = run[x]
  BY SweepStepFrame
<1> QED BY <1>1 DEF Comes, Handles, Waits, InFlight, InLeadWindow

\* What has been announced once stays so.
LEMMA DeliveredStays ==
    ASSUME ClaimInv, NEW s \in Sweeps, SweepStep(s), NEW c \in Chats, NEW f \in Starts,
           delivered[<<c, f>>] = 1
    PROVE  delivered'[<<c, f>>] = 1
<1> USE DEF ClaimInv, Typed, TypeOK, SystemTypeOK, SweepTypeOK, LocalsSet, Keys
<1>1. CASE Notify(s)
  <2>1. /\ pc[s] = "notify"
        /\ delivered' = [delivered EXCEPT ![<<cur[s].chat, run[s].start>>] = @ + 1]
    BY <1>1 DEF Notify
  <2>2. cur[s].chat \in Chats /\ run[s].start \in Starts
    <3>1. cur[s] \in Target /\ run[s] \in Run
      BY <2>1
    <3> QED BY <3>1 DEF Target, Run
  <2>3. delivered[<<cur[s].chat, run[s].start>>] = 0
    BY <2>1, <2>2 DEF ExclusiveClaim, InFlight
  <2> QED BY <2>1, <2>2, <2>3
<1>2. CASE ~Notify(s)
  BY <1>2 DEF SweepStep, ListEnabledPriceAlerts, ReadClock, GetChat, Rates,
              MarkPriceAlertDispatched, LocalOnly
<1> QED BY <1>1, <1>2

\* A sweep that has f before it still has after a step, or has announced it, or
\* has found it logged, and another sweep is announcing it.
LEMMA SweepStepServes ==
    ASSUME SteadyInv, NEW s \in Sweeps, SweepStep(s), NEW c \in Chats, NEW f \in Starts,
           Wanted(c, f), Comes(s, c, f) \/ Handles(s, c, f)
    PROVE  Served(c, f)'
<1> USE DEF SteadyInv, ClaimInv
<1>1. /\ UNCHANGED <<now, alert, region, cache>>
      /\ region \in [Chats -> Regions] /\ alert \in [Chats -> Thresholds]
      /\ \A a \in todo[s] : a.threshold = alert[a.chat]
  BY SweepStepFrame DEF SettingsInv
<1>2. CASE ListEnabledPriceAlerts(s)
  <2>1. pc[s] = "list" /\ InLeadWindow(f, now)
    BY <1>2 DEF ListEnabledPriceAlerts, Comes, Handles
  <2> DEFINE enabled == {[chat |-> d, threshold |-> alert[d]] :
                            d \in {d \in Chats : alert[d] # Off}}
  <2>2. [chat |-> c, threshold |-> alert[c]] \in enabled
    BY <1>1, EntityAssumption
  <2>3. pc'[s] = "stamp" /\ todo'[s] = enabled
    BY <1>2, <2>2 DEF ListEnabledPriceAlerts, Typed, TypeOK, SweepTypeOK
  <2>4. Waits(s, c)' /\ InLeadWindow(f, now)'
    BY <1>1, <2>1, <2>2, <2>3 DEF Waits, InLeadWindow
  <2> QED BY <2>3, <2>4 DEF Served, Comes
<1>3. CASE ReadClock(s)
  <2>1. Waits(s, c) /\ InLeadWindow(f, now)
    BY <1>3 DEF ReadClock, Comes, Handles
  <2>2. pc'[s] = "chat" /\ at'[s] = now /\ todo' = todo
    BY <1>3 DEF ReadClock, Typed, TypeOK, SweepTypeOK
  <2>3. Waits(s, c)' /\ InLeadWindow(f, at[s])'
    BY <1>1, <2>1, <2>2 DEF Waits, InLeadWindow
  <2> QED BY <2>2, <2>3 DEF Served, Handles
<1>4. CASE GetChat(s)
  <2>1. Waits(s, c) /\ InLeadWindow(f, at[s])
    BY <1>4 DEF GetChat, Comes, Handles, InFlight
  <2>2. PICK a \in todo[s] :
          IF region[a.chat] = NoRegion
          THEN NextAlert(s, todo[s] \ {a})
          ELSE /\ pc' = [pc EXCEPT ![s] = "rates"]
               /\ todo' = [todo EXCEPT ![s] = @ \ {a}]
               /\ cur' = [cur EXCEPT ![s] = [chat |-> a.chat, threshold |-> a.threshold,
                                             region |-> region[a.chat]]]
               /\ UNCHANGED <<at, due, run>>
    BY <1>4 DEF GetChat
  <2>3. a \in Alert /\ a.chat \in Chats /\ a.threshold = alert[a.chat]
    BY <1>1 DEF Alert, Typed, TypeOK, SweepTypeOK
  <2>4. region[a.chat] # NoRegion
    BY <1>1, <2>3, EntityAssumption
  <2>5. /\ pc'[s] = "rates" /\ at'[s] = at[s]
        /\ todo'[s] = todo[s] \ {a} /\ cur'[s].chat = a.chat
    BY <2>2, <2>4 DEF Typed, TypeOK, SweepTypeOK
  <2>6. Waits(s, c)' \/ cur'[s].chat = c
    <3>1. CASE a.chat = c
      BY <2>5, <3>1
    <3>2. CASE a.chat # c
      BY <1>1, <2>1, <2>5, <3>2 DEF Waits
    <3> QED BY <3>1, <3>2
  <2>7. InLeadWindow(f, at[s])'
    BY <2>1, <2>5 DEF InLeadWindow
  <2> QED BY <2>5, <2>6, <2>7 DEF Served, Handles
<1>5. CASE Rates(s)
  <2>1. /\ pc[s] = "rates" /\ InLeadWindow(f, at[s])
        /\ Waits(s, c) \/ cur[s].chat = c
    BY <1>5 DEF Rates, Comes, Handles, InFlight
  <2> DEFINE found == {u \in ContiguousRunsBelow(cur[s].region, cur[s].threshold, at[s]) :
                         InLeadWindow(u.start, at[s])}
  <2>2. cur[s].chat = c => \E u \in found : u.start = f
    <3> SUFFICES ASSUME cur[s].chat = c PROVE \E u \in found : u.start = f
      OBVIOUS
    <3>1. cur[s].region = region[c] /\ cur[s].threshold = alert[c]
      BY <2>1 DEF SettingsInv
    <3>2. region[c] \in Regions /\ alert[c] \in Thresholds /\ at[s] \in Nat
      BY <1>1 DEF Typed, TypeOK, SweepTypeOK
    <3>3. PICK u \in ContiguousRunsBelow(region[c], alert[c], at[s]) : u.start = f
      BY <2>1, <3>2, StartIsFound DEF Wanted, Typed, TypeOK
    <3> QED BY <2>1, <3>1, <3>3
  <2>3. NextRun(s, found)
    BY <1>5 DEF Rates
  <2> HIDE DEF found
  <2>4. Handles(s, c, f)'
    BY <1>1, <2>1, <2>2, <2>3, NextRunHandles
  <2> QED BY <2>4 DEF Served
<1>6. CASE MarkPriceAlertDispatched(s)
  <2>1. /\ pc[s] = "mark" /\ InLeadWindow(f, at[s])
        /\ Waits(s, c) \/ (cur[s].chat = c /\ \E u \in due[s] : u.start = f)
    BY <1>6 DEF MarkPriceAlertDispatched, Comes, Handles, InFlight
  <2>2. PICK u \in due[s] :
          IF <<cur[s].chat, u.start>> \in log
          THEN NextRun(s, due[s] \ {u})
          ELSE /\ pc' = [pc EXCEPT ![s] = "notify"]
               /\ due' = [due EXCEPT ![s] = @ \ {u}]
               /\ run' = [run EXCEPT ![s] = u]
               /\ UNCHANGED <<at, todo, cur>>
    BY <1>6 DEF MarkPriceAlertDispatched
  <2>3. CASE <<cur[s].chat, u.start>> \notin log
    <3>1. /\ pc'[s] = "notify" /\ at'[s] = at[s] /\ todo'[s] = todo[s]
          /\ cur'[s] = cur[s] /\ due'[s] = due[s] \ {u} /\ run'[s] = u
      BY <2>2, <2>3 DEF Typed, TypeOK, SweepTypeOK
    <3>2. InLeadWindow(f, at[s])'
      BY <2>1, <3>1 DEF InLeadWindow
    <3>3. Handles(s, c, f)'
      BY <1>1, <2>1, <3>1, <3>2 DEF Handles, Waits, InFlight
    <3> QED BY <3>3 DEF Served
  <2>4. CASE <<cur[s].chat, u.start>> \in log
    <3>1. NextRun(s, due[s] \ {u})
      BY <2>2, <2>4
    <3>2. CASE Waits(s, c) \/ (cur[s].chat = c /\ u.start # f)
      <4>1. Waits(s, c) \/ (cur[s].chat = c /\ \E v \in due[s] \ {u} : v.start = f)
        BY <2>1, <3>2
      <4>2. Handles(s, c, f)'
        BY <1>1, <2>1, <3>1, <4>1, NextRunHandles
      <4> QED BY <4>2 DEF Served
    <3>3. CASE cur[s].chat = c /\ u.start = f
      <4>1. <<c, f>> \in log
        BY <2>4, <3>3
      <4>2. CASE delivered[<<c, f>>] = 1
        BY <4>2, DeliveredStays DEF Served
      <4>3. CASE delivered[<<c, f>>] # 1
        <5>1. PICK x \in Sweeps : InFlight(x, c, f)
          BY <4>1, <4>3 DEF LoggedInv
        <5>2. x # s /\ Handles(x, c, f)
          BY <2>1, <5>1 DEF InFlight, Handles, WindowInv
        <5> QED BY <5>2, OtherSweepGoesOn DEF Served
      <4> QED BY <4>2, <4>3
    <3> QED BY <2>1, <3>2, <3>3
  <2> QED BY <2>3, <2>4
<1>7. CASE Notify(s)
  <2>1. /\ pc[s] = "notify" /\ InLeadWindow(f, at[s]) /\ NextRun(s, due[s])
        /\ \/ Waits(s, c) \/ (cur[s].chat = c /\ \E u \in due[s] : u.start = f)
           \/ InFlight(s, c, f)
    BY <1>7 DEF Notify, Comes, Handles
  <2>2. CASE InFlight(s, c, f)
    <3>1. delivered[<<c, f>>] = 0
      BY <2>2 DEF ExclusiveClaim
    <3>2. delivered' = [delivered EXCEPT ![<<cur[s].chat, run[s].start>>] = @ + 1]
      BY <1>7 DEF Notify
    <3>3. delivered'[<<c, f>>] = 1
      BY <2>2, <3>1, <3>2 DEF InFlight, Typed, TypeOK, SystemTypeOK, Keys
    <3> QED BY <3>3 DEF Served
  <2>3. CASE ~InFlight(s, c, f)
    <3>1. Handles(s, c, f)'
      BY <1>1, <2>1, <2>3, NextRunHandles
    <3> QED BY <3>1 DEF Served
  <2> QED BY <2>2, <2>3
<1> QED BY <1>2, <1>3, <1>4, <1>5, <1>6, <1>7 DEF SweepStep

LEMMA StepServed == SteadyInv /\ [SteadyNext]_steadyVars => ServedInv'
<1> SUFFICES ASSUME SteadyInv, [SteadyNext]_steadyVars,
                    NEW c \in Chats, NEW f \in Starts, Wanted(c, f)'
             PROVE  Served(c, f)'
  BY DEF ServedInv
<1> USE DEF SteadyInv
<1>0. /\ \A s \in Sweeps : Comes(s, c, f) \/ Handles(s, c, f) => pc[s] # "idle"
      /\ f \in Nat /\ now \in Nat /\ lastFire \in Nat /\ lastFire <= now
      /\ LeadMin \in Nat /\ LeadMax \in Nat
  BY StartsAssumption, TimingAssumption
     DEF Comes, Handles, ClaimInv, Typed, TypeOK, SystemTypeOK, ClockInv
<1>1. CASE SteadyTick /\ UNCHANGED lastFire
  <2>1. Served(c, f)
    BY <1>1 DEF SteadyTick, Tick, dbVars, Wanted, RunStart, ServedInv
  <2>2. ASSUME NEW s \in Sweeps, Comes(s, c, f) \/ Handles(s, c, f) PROVE Handles(s, c, f)'
    BY <1>1, <2>2 DEF SteadyTick, Tick, dbVars, sweepVars, Comes, Handles, Waits, InFlight,
                      InLeadWindow
  <2>3. delivered' = delivered
    BY <1>1 DEF SteadyTick, Tick
  <2> QED BY <2>1, <2>2, <2>3 DEF Served
<1>2. CASE (SteadyRefresh \/ Restart) /\ UNCHANGED lastFire
  <2>1. UNCHANGED <<now, region, alert, delivered, sweepVars>>
    BY <1>2 DEF SteadyRefresh, UpsertRates, Restart, dbVars
  <2>2. f \in cache[region[c]]
    <3>1. CASE Restart
      BY <3>1, <2>1 DEF Restart, dbVars, Wanted
    <3>2. CASE SteadyRefresh
      <4>1. ASSUME f \notin cache[region[c]] PROVE FALSE
        <5>1. f \in cache'[region[c]] /\ f - LeadMax < lastFire
          BY <1>2, <2>1 DEF Wanted
        <5>2. region[c] \in Regions
          BY DEF SettingsInv
        <5>3. PICK r \in Regions, from \in Starts, last \in Starts :
                /\ UpsertRates(r, from, last)
                /\ \A g \in cache'[r] \ cache[r] : now + LeadMax < g
          BY <3>2 DEF SteadyRefresh
        <5>4. r = region[c]
          BY <4>1, <5>1, <5>2, <5>3 DEF UpsertRates, ClaimInv, Typed, TypeOK, SystemTypeOK
        <5>5. now + LeadMax < f
          BY <4>1, <5>1, <5>3, <5>4
        <5> QED BY <1>0, <5>1, <5>5
      <4> QED BY <4>1
    <3> QED BY <1>2, <3>1, <3>2
  <2>3. Served(c, f)
    BY <1>2, <2>1, <2>2 DEF Wanted, RunStart, ServedInv
  <2>4. ASSUME NEW s \in Sweeps
        PROVE  (Comes(s, c, f)' <=> Comes(s, c, f)) /\ (Handles(s, c, f)' <=> Handles(s, c, f))
    BY <2>1 DEF sweepVars, Comes, Handles, Waits, InFlight, InLeadWindow
  <2> QED BY <2>1, <2>3, <2>4 DEF Served
<1>3. CASE SteadyCrash /\ UNCHANGED lastFire
  <2>1. Served(c, f)
    BY <1>3 DEF SteadyCrash, Crash, dbVars, Wanted, RunStart, ServedInv
  <2>2. delivered[<<c, f>>] = 1 /\ delivered' = delivered
    BY <1>0, <1>3, <2>1 DEF SteadyCrash, Crash, Served
  <2> QED BY <2>2 DEF Served
<1>4. ASSUME NEW s \in Sweeps, SweepStep(s), UNCHANGED lastFire PROVE Served(c, f)'
  <2>1. UNCHANGED <<region, alert, cache>>
    BY <1>4, SweepStepFrame DEF ClaimInv
  <2>2. Wanted(c, f) /\ Served(c, f)
    BY <1>4, <2>1 DEF Wanted, RunStart, ServedInv
  <2>3. CASE delivered[<<c, f>>] = 1
    BY <1>4, <2>3, DeliveredStays DEF Served
  <2>4. ASSUME NEW x \in Sweeps, Comes(x, c, f) \/ Handles(x, c, f) PROVE Served(c, f)'
    <3>1. CASE x = s
      BY <1>4, <2>2, <2>4, <3>1, SweepStepServes
    <3>2. CASE x # s
      BY <1>4, <2>4, <3>2, OtherSweepGoesOn DEF Served, ClaimInv
    <3> QED BY <3>1, <3>2
  <2> QED BY <2>2, <2>3, <2>4 DEF Served
<1>5. ASSUME NEW s \in Sweeps, Fire(s), lastFire' = now PROVE Served(c, f)'
  <2>1. /\ UNCHANGED <<now, dbVars, delivered, at, todo, cur, due, run>>
        /\ up /\ now = nextFire /\ pc[s] = "idle" /\ pc'[s] = "list"
        /\ \A x \in Sweeps : x # s => pc'[x] = pc[x]
    BY <1>5 DEF Fire, ClaimInv, Typed, TypeOK, SweepTypeOK
  <2>2. /\ f \in cache[region[c]] /\ RunStart(region[c], alert[c], f)
        /\ LeadMax <= f /\ f - LeadMax < now
    BY <1>5, <2>1 DEF Wanted, RunStart, dbVars
  <2>3. CASE f - LeadMax < lastFire
    <3>1. Served(c, f)
      BY <2>2, <2>3 DEF Wanted, ServedInv
    <3>2. ASSUME NEW x \in Sweeps, Comes(x, c, f) \/ Handles(x, c, f)
          PROVE  Comes(x, c, f)' \/ Handles(x, c, f)'
      <4>1. x # s
        BY <1>0, <2>1, <3>2
      <4> QED BY <2>1, <3>2, <4>1 DEF dbVars, Comes, Handles, Waits, InFlight, InLeadWindow
    <3> QED BY <2>1, <3>1, <3>2 DEF Served
  <2>4. CASE lastFire <= f - LeadMax
    <3>1. InLeadWindow(f, now)
      BY <1>0, <2>1, <2>2, <2>4 DEF InLeadWindow, ClockInv, InTime
    <3> QED BY <2>1, <3>1 DEF Served, Comes, InLeadWindow
  <2> QED BY <1>0, <2>3, <2>4
<1>6. CASE UNCHANGED steadyVars
  <2>1. Served(c, f)
    BY <1>6 DEF steadyVars, vars, Wanted, RunStart, ServedInv
  <2> QED BY <1>6, <2>1
         DEF steadyVars, vars, Served, Comes, Handles, Waits, InFlight, InLeadWindow
<1> QED BY <1>1, <1>2, <1>3, <1>4, <1>5, <1>6 DEF SteadyNext

-----------------------------------------------------------------------------
(* The theorems.                                                           *)

\* In a deployment in order the whole invariant holds.
THEOREM SteadyInvariant == SteadySpec => []SteadyInv
<1>1. SteadyInv /\ [SteadyNext]_steadyVars => SteadyInv'
  BY SteadyStepIsStep, StepClaim, StepSettings, StepClock, StepWindow, StepLogged, StepServed
     DEF SteadyInv
<1> QED BY InitSteady, <1>1, PTL DEF SteadySpec

\* No run is missed: when the lead window of a published run has passed, its chat has
\* been told of it once, or a sweep that saw it in the window is still at work.
THEOREM NoMissHolds == SteadySpec => []NoMiss
<1>1. SteadyInv => NoMiss
  <2> SUFFICES ASSUME SteadyInv, NEW c \in Chats, NEW f \in cache[region[c]],
                      RunStart(region[c], alert[c], f), LeadMax <= f, f < now + LeadMin
               PROVE  \/ delivered[<<c, f>>] = 1
                      \/ \E s \in Sweeps : pc[s] # "idle" /\ InLeadWindow(f, at[s])
    BY DEF NoMiss
  <2>1. /\ f \in Starts /\ f \in Nat /\ now \in Nat /\ lastFire \in Nat
        /\ nextFire \in Nat /\ LeadMin \in Nat /\ LeadMax \in Nat /\ Period \in Nat
        /\ up \in BOOLEAN
    BY StartsAssumption, TimingAssumption
       DEF SteadyInv, ClaimInv, SettingsInv, ClockInv, Typed, TypeOK, SystemTypeOK
  <2>2. now - lastFire <= LeadMax - LeadMin
    BY <2>1 DEF SteadyInv, ClockInv, InTime
  <2>3. Wanted(c, f)
    BY <2>1, <2>2 DEF Wanted
  <2>4. Served(c, f)
    BY <2>1, <2>3 DEF SteadyInv, ServedInv
  <2>5. ASSUME NEW s \in Sweeps PROVE ~Comes(s, c, f)
    BY <2>1 DEF Comes, InLeadWindow
  <2> QED BY <2>4, <2>5 DEF Served, Handles
<1> QED BY SteadyInvariant, <1>1, PTL
=============================================================================
