------------------------ MODULE SubscriptionsProofs ------------------------
(***************************************************************************)
(* Theorems about Subscriptions for every value of its constants: any      *)
(* number of chats, any times of day and lengths.                          *)
(***************************************************************************)
EXTENDS SubscriptionsProperties, Induction

-----------------------------------------------------------------------------
(* The next run of a job.                                                  *)

\* The next run of a job is the first instant of its time of day still to come.
LEMMA RunAfterIsNext ==
    ASSUME NEW at \in Times, NEW t \in Instants
    PROVE  /\ RunAfter(at, t) \in at /\ RunAfter(at, t) \in Nat
           /\ t < RunAfter(at, t)
           /\ \A u \in at : t < u => RunAfter(at, t) <= u
<1> DEFINE T == {u \in at : t < u}
<1>1. at \subseteq Nat /\ T \in SUBSET Nat /\ T # {}
  BY SubscriptionAssumption DEF Instants
<1>2. PICK x \in T : \A y \in T : x <= y
  BY <1>1, LeastExists
<1>3. \E u \in at : t < u /\ \A v \in at : t < v => u <= v
  BY <1>2
<1>4. /\ RunAfter(at, t) \in at /\ t < RunAfter(at, t)
      /\ \A v \in at : t < v => RunAfter(at, t) <= v
  BY <1>3 DEF RunAfter
<1> QED BY <1>1, <1>4

-----------------------------------------------------------------------------
(* Types, and the jobs' timers.                                            *)

\* A job is of a process at work, its next run is to come, and every run that was
\* due since the process started has been started.
JobsInTime ==
    \A c \in Chats : jobs[c] # NoJob =>
        /\ up /\ started <= now
        /\ next[c] \in jobs[c] /\ 0 < next[c] /\ now <= next[c]
        /\ \A t \in jobs[c] : started < t /\ t < next[c] => <<c, t>> \in fired

\* What was started is past, also for the job that is registered now.
FiredIsPast ==
    \A c \in Chats, t \in 1..MaxTime : <<c, t>> \in fired =>
        t <= now /\ (jobs[c] # NoJob => t < next[c])

TInv == TypeOK /\ JobsInTime /\ FiredIsPast

LEMMA ClockBound == MaxTime \in Nat /\ 0 \in Instants /\ Instants \subseteq Nat
BY SubscriptionAssumption DEF Instants

LEMMA InitTimes == Init => TInv
<1> SUFFICES ASSUME Init PROVE TInv
  OBVIOUS
<1>1. TypeOK
  BY ClockBound DEF Init, TypeOK
<1>2. JobsInTime /\ FiredIsPast
  BY DEF Init, JobsInTime, FiredIsPast
<1> QED BY <1>1, <1>2 DEF TInv

LEMMA OneMore ==
    ASSUME NEW S, NEW f \in [S -> Nat], NEW k
    PROVE  [f EXCEPT ![k] = @ + 1] \in [S -> Nat]
<1>1. CASE k \in S
  <2>1. f[k] + 1 \in Nat
    BY <1>1
  <2> QED BY <2>1
<1>2. CASE k \notin S
  BY <1>2
<1> QED BY <1>1, <1>2

LEMMA StepTyped == TInv /\ [Next]_vars => TypeOK'
<1> SUFFICES ASSUME TInv, [Next]_vars
             PROVE  TypeOK'
  OBVIOUS
<1> USE ClockBound DEF TInv, TypeOK, procVars, runVars, histVars
<1>1. CASE Tick
  BY <1>1 DEF Tick, Instants
<1>2. CASE Start
  <2>1. \A c \in Chats : subs[c] # NoSub =>
           subs[c].at \in Times /\ RunAfter(subs[c].at, now) \in Nat
    BY RunAfterIsNext DEF Subscription
  <2>2. jobs' \in [Chats -> Times \cup {NoJob}] /\ next' \in [Chats -> Nat]
    BY <1>2, <2>1 DEF Start, AddSubscriptionJobs, ListEnabledSubscriptions
  <2> QED BY <1>2, <2>2 DEF Start
<1>3. CASE Crash
  BY <1>3 DEF Crash
<1>4. ASSUME NEW c \in Chats, Fire(c)
      PROVE  TypeOK'
  <2>1. jobs[c] \in Times /\ RunAfter(jobs[c], now) \in Nat
    <3>1. jobs[c] \in Times /\ now \in Instants
      BY <1>4 DEF Fire
    <3> QED BY <3>1, RunAfterIsNext
  <2>2. <<c, now>> \in Keys
    BY <1>4 DEF Fire, JobsInTime, Keys, Instants
  <2> QED BY <1>4, <2>1, <2>2 DEF Fire
<1>5. ASSUME NEW c \in Chats, RunStep(c)
      PROVE  TypeOK'
  <2>1. CASE GetSubscription(c)
    BY <2>1 DEF GetSubscription
  <2>2. CASE NotSubscribed(c)
    BY <2>2 DEF NotSubscribed, RunOver
  <2>3. CASE CheapestWindow(c)
    BY <2>3 DEF CheapestWindow
  <2>4. CASE Notify(c)
    <3>1. delivered' \in [Keys -> Nat]
      BY <2>4, OneMore DEF Notify
    <3> QED BY <2>4, <3>1 DEF Notify, RunOver
  <2>5. CASE DispatchFails(c)
    BY <2>5 DEF DispatchFails, RunOver
  <2> QED BY <1>5, <2>1, <2>2, <2>3, <2>4, <2>5 DEF RunStep
<1>6. ASSUME NEW c \in Chats, NEW s \in Subscription \cup {NoSub}, Write(c, s)
      PROVE  TypeOK'
  BY <1>6 DEF Write
<1>7. ASSUME NEW c \in Chats, UserStep(c)
      PROVE  TypeOK'
  BY <1>6, <1>7 DEF UserStep, SetSubscription, DeleteSubscription, Subscription
<1>8. CASE UNCHANGED vars
  BY <1>8 DEF vars
<1> QED BY <1>1, <1>2, <1>3, <1>4, <1>5, <1>7, <1>8 DEF Next

LEMMA StepJobs == TInv /\ [Next]_vars => JobsInTime'
<1> SUFFICES ASSUME TInv, [Next]_vars,
                    NEW c \in Chats, jobs'[c] # NoJob
             PROVE  /\ up' /\ started' <= now'
                    /\ next'[c] \in jobs'[c] /\ 0 < next'[c] /\ now' <= next'[c]
                    /\ \A t \in jobs'[c] : started' < t /\ t < next'[c] => <<c, t>> \in fired'
  BY DEF JobsInTime
<1> USE ClockBound DEF TInv
<1>1. CASE Tick
  BY <1>1 DEF Tick, JobsInTime, TypeOK, histVars
<1>2. CASE Start
  <2>1. /\ subs[c] # NoSub /\ subs[c] \in Subscription /\ now \in Instants
        /\ jobs'[c] = subs[c].at /\ next'[c] = RunAfter(subs[c].at, now)
        /\ up' /\ started' = now /\ now' = now
    BY <1>2 DEF Start, AddSubscriptionJobs, ListEnabledSubscriptions, TypeOK
  <2>2. subs[c].at \in Times
    BY <2>1 DEF Subscription
  <2>3. subs[c].at \subseteq Nat
    BY <2>2, SubscriptionAssumption
  <2>4. /\ next'[c] \in jobs'[c] /\ next'[c] \in Nat /\ now < next'[c]
        /\ \A u \in jobs'[c] : now < u => next'[c] <= u
    BY <2>1, <2>2, RunAfterIsNext
  <2>5. \A t \in jobs'[c] : ~ (started' < t /\ t < next'[c])
    BY <2>1, <2>3, <2>4
  <2>6. started' <= now' /\ 0 < next'[c] /\ now' <= next'[c]
    <3>1. now \in Nat /\ started' = now /\ now' = now
      BY <2>1, ClockBound DEF Instants
    <3>2. next'[c] \in Nat /\ now < next'[c]
      BY <2>4
    <3> HIDE ClockBound DEF TInv
    <3> QED BY <3>1, <3>2
  <2> QED BY <2>1, <2>4, <2>5, <2>6, Zenon
<1>3. CASE Crash
  BY <1>3 DEF Crash
<1>4. ASSUME NEW d \in Chats, Fire(d)
      PROVE  /\ up' /\ started' <= now'
             /\ next'[c] \in jobs'[c] /\ 0 < next'[c] /\ now' <= next'[c]
             /\ \A t \in jobs'[c] : started' < t /\ t < next'[c] => <<c, t>> \in fired'
  <2>1. CASE d = c
    <3>1. /\ jobs[c] \in Times /\ now \in Instants /\ now = next[c]
          /\ jobs' = jobs /\ next'[c] = RunAfter(jobs[c], now)
          /\ up' = up /\ started' = started /\ now' = now
          /\ fired' = fired \cup {<<c, now>>}
      BY <1>4, <2>1 DEF Fire, TypeOK
    <3>2. jobs[c] \subseteq Nat
      BY <3>1, SubscriptionAssumption
    <3>3. /\ next'[c] \in jobs[c] /\ next'[c] \in Nat /\ now < next'[c]
          /\ \A u \in jobs[c] : now < u => next'[c] <= u
      BY <3>1, RunAfterIsNext
    <3>4. /\ up /\ started <= now
          /\ \A t \in jobs[c] : started < t /\ t < now => <<c, t>> \in fired
      BY <3>1, <1>4 DEF JobsInTime, Fire
    <3>5. ASSUME NEW t \in jobs[c], started < t, t < next'[c]
          PROVE  <<c, t>> \in fired'
      <4>1. ~ (now < t)
        BY <3>2, <3>3, <3>5
      <4>2. CASE t = now
        BY <4>2, <3>1
      <4>3. CASE t < now
        BY <4>3, <3>1, <3>4, <3>5
      <4> QED BY <4>1, <4>2, <4>3, <3>1, <3>2
    <3> QED BY <3>1, <3>3, <3>4, <3>5
  <2>2. CASE d # c
    BY <1>4, <2>2 DEF Fire, JobsInTime, TypeOK
  <2> QED BY <2>1, <2>2
<1>5. ASSUME NEW d \in Chats, RunStep(d)
      PROVE  UNCHANGED <<procVars, fired, started>>
  BY <1>5 DEF RunStep, GetSubscription, NotSubscribed, CheapestWindow, Notify,
              DispatchFails, histVars
<1>6. ASSUME NEW d \in Chats, UserStep(d)
      PROVE  UNCHANGED <<procVars, fired, started>>
  BY <1>6 DEF UserStep, SetSubscription, DeleteSubscription, Write
<1>7. CASE UNCHANGED <<procVars, fired, started>>
  BY <1>7 DEF procVars, JobsInTime
<1>8. CASE UNCHANGED vars
  BY <1>8, <1>7 DEF vars, histVars
<1> QED BY <1>1, <1>2, <1>3, <1>4, <1>5, <1>6, <1>7, <1>8 DEF Next

LEMMA StepFired == TInv /\ [Next]_vars => FiredIsPast'
<1> SUFFICES ASSUME TInv, [Next]_vars,
                    NEW c \in Chats, NEW t \in 1..MaxTime, <<c, t>> \in fired'
             PROVE  t <= now' /\ (jobs'[c] # NoJob => t < next'[c])
  BY DEF FiredIsPast
<1> USE ClockBound DEF TInv
<1>1. CASE Tick
  BY <1>1 DEF Tick, FiredIsPast, TypeOK, histVars
<1>2. CASE Start
  <2>1. t <= now /\ now' = now /\ now \in Instants
    BY <1>2 DEF Start, FiredIsPast, TypeOK
  <2>2. ASSUME jobs'[c] # NoJob PROVE t < next'[c]
    <3>1. /\ subs[c] \in Subscription /\ next'[c] = RunAfter(subs[c].at, now)
      BY <1>2, <2>2 DEF Start, AddSubscriptionJobs, ListEnabledSubscriptions, TypeOK
    <3>2. subs[c].at \in Times
      BY <3>1 DEF Subscription
    <3>3. next'[c] \in Nat /\ now < next'[c]
      BY <3>1, <3>2, <2>1, RunAfterIsNext
    <3> QED BY <2>1, <3>3
  <2> QED BY <2>1, <2>2
<1>3. CASE Crash
  BY <1>3 DEF Crash, FiredIsPast
<1>4. ASSUME NEW d \in Chats, Fire(d)
      PROVE  t <= now' /\ (jobs'[c] # NoJob => t < next'[c])
  <2>1. CASE d = c
    <3>1. /\ jobs[c] \in Times /\ now \in Instants /\ now = next[c]
          /\ jobs' = jobs /\ next'[c] = RunAfter(jobs[c], now) /\ now' = now
          /\ fired' = fired \cup {<<c, now>>}
      BY <1>4, <2>1 DEF Fire, TypeOK
    <3>2. next'[c] \in Nat /\ now < next'[c]
      BY <3>1, RunAfterIsNext
    <3>3. t <= now
      BY <3>1 DEF FiredIsPast
    <3> QED BY <3>1, <3>2, <3>3
  <2>2. CASE d # c
    BY <1>4, <2>2 DEF Fire, FiredIsPast, TypeOK
  <2> QED BY <2>1, <2>2
<1>5. ASSUME NEW d \in Chats, RunStep(d)
      PROVE  UNCHANGED <<procVars, fired>>
  BY <1>5 DEF RunStep, GetSubscription, NotSubscribed, CheapestWindow, Notify,
              DispatchFails, histVars
<1>6. ASSUME NEW d \in Chats, UserStep(d)
      PROVE  UNCHANGED <<procVars, fired>>
  BY <1>6 DEF UserStep, SetSubscription, DeleteSubscription, Write
<1>7. CASE UNCHANGED <<procVars, fired>>
  BY <1>7 DEF procVars, FiredIsPast
<1>8. CASE UNCHANGED vars
  BY <1>8, <1>7 DEF vars, histVars
<1> QED BY <1>1, <1>2, <1>3, <1>4, <1>5, <1>6, <1>7, <1>8 DEF Next

LEMMA StepTInv == TInv /\ [Next]_vars => TInv'
BY StepTyped, StepJobs, StepFired DEF TInv

\* Every variable has its type: timers name instants of the jobs' own times of day.
THEOREM TypeCorrect == Spec => []TypeOK
<1>1. TInv => TypeOK
  BY DEF TInv
<1> QED BY InitTimes, StepTInv, <1>1, PTL DEF Spec

-----------------------------------------------------------------------------
(* Who has not touched the subscription is served.                         *)

\* The job of such a user is for the row he has.
JobsAsAsked ==
    \A c \in settled : jobs[c] = IF subs[c] = NoSub THEN NoJob ELSE subs[c].at

LEMMA StepJobsAsAsked == TInv /\ JobsAsAsked /\ [Next]_vars => JobsAsAsked'
<1> SUFFICES ASSUME TInv, JobsAsAsked, [Next]_vars
             PROVE  JobsAsAsked'
  OBVIOUS
<1> USE DEF TInv, TypeOK, JobsAsAsked
<1>1. CASE Tick
  BY <1>1 DEF Tick, histVars
<1>2. CASE Start
  BY <1>2 DEF Start, AddSubscriptionJobs, ListEnabledSubscriptions
<1>3. CASE Crash
  BY <1>3 DEF Crash
<1>4. ASSUME NEW c \in Chats, Fire(c)
      PROVE  JobsAsAsked'
  BY <1>4 DEF Fire
<1>5. ASSUME NEW c \in Chats, RunStep(c)
      PROVE  JobsAsAsked'
  BY <1>5 DEF RunStep, GetSubscription, NotSubscribed, CheapestWindow, Notify,
              DispatchFails, histVars, procVars
<1>6. ASSUME NEW c \in Chats, NEW s, Write(c, s)
      PROVE  JobsAsAsked'
  BY <1>6 DEF Write, procVars
<1>7. ASSUME NEW c \in Chats, UserStep(c)
      PROVE  JobsAsAsked'
  BY <1>6, <1>7 DEF UserStep, SetSubscription, DeleteSubscription
<1>8. CASE UNCHANGED vars
  BY <1>8 DEF vars, procVars, histVars
<1> QED BY <1>1, <1>2, <1>3, <1>4, <1>5, <1>7, <1>8 DEF Next

LEMMA ServedFromJobs == TInv /\ JobsAsAsked => SubscribersAreServed
<1> SUFFICES ASSUME TInv, JobsAsAsked,
                    NEW c \in settled, subs[c] # NoSub,
                    NEW t \in subs[c].at, started < t, t < now
             PROVE  <<c, t>> \in fired
  BY DEF SubscribersAreServed
<1>1. c \in Chats /\ jobs[c] = subs[c].at /\ subs[c] \in Subscription
  BY DEF TInv, TypeOK, JobsAsAsked
<1>2. jobs[c] \in Times /\ jobs[c] # NoJob
  BY <1>1, SubscriptionAssumption DEF Subscription
<1>3. t \in Nat /\ now \in Nat /\ next[c] \in Nat
  <2>1. now \in Nat /\ next[c] \in Nat
    BY <1>1, ClockBound DEF TInv, TypeOK
  <2>2. jobs[c] \subseteq Nat
    BY <1>2, SubscriptionAssumption
  <2> QED BY <1>1, <2>1, <2>2
<1>4. now <= next[c] /\ \A u \in jobs[c] : started < u /\ u < next[c] => <<c, u>> \in fired
  BY <1>1, <1>2 DEF TInv, JobsInTime
<1>5. t < next[c]
  BY <1>3, <1>4
<1> QED BY <1>1, <1>4, <1>5

\* Whatever the other users do and whatever fails, one who leaves the subscription
\* alone gets a run of the job whenever the clock shows the time of day chosen.
THEOREM SubscribersAreServedHolds == Spec => []SubscribersAreServed
<1>1. Init => JobsAsAsked
  BY DEF Init, JobsAsAsked
<1> QED BY <1>1, InitTimes, StepTInv, StepJobsAsAsked, ServedFromJobs, PTL DEF Spec

-----------------------------------------------------------------------------
(* Nothing is sent that was not asked for.                                 *)

\* A run's history holds every row of its user since it began, and so the one it read.
ReadIsHad ==
    \A c \in Chats : /\ pc[c] # "idle" => subs[c] \in had[c]
                     /\ pc[c] \in {"window", "notify"} => sub[c] \in had[c] \ {NoSub}

LEMMA StepReadIsHad == TInv /\ ReadIsHad /\ [Next]_vars => ReadIsHad'
<1> SUFFICES ASSUME TInv, ReadIsHad, [Next]_vars
             PROVE  ReadIsHad'
  OBVIOUS
<1> USE DEF TInv, TypeOK, ReadIsHad
<1>1. CASE Tick
  BY <1>1 DEF Tick, runVars, histVars
<1>2. CASE Start
  BY <1>2 DEF Start, runVars
<1>3. CASE Crash
  BY <1>3 DEF Crash
<1>4. ASSUME NEW c \in Chats, Fire(c)
      PROVE  ReadIsHad'
  BY <1>4 DEF Fire
<1>5. ASSUME NEW c \in Chats, RunStep(c)
      PROVE  ReadIsHad'
  <2>1. CASE GetSubscription(c)
    BY <2>1 DEF GetSubscription, histVars
  <2>2. CASE NotSubscribed(c)
    BY <2>2 DEF NotSubscribed, RunOver
  <2>3. CASE CheapestWindow(c)
    BY <2>3 DEF CheapestWindow, histVars
  <2>4. CASE Notify(c)
    BY <2>4 DEF Notify, RunOver
  <2>5. CASE DispatchFails(c)
    BY <2>5 DEF DispatchFails, RunOver
  <2> QED BY <1>5, <2>1, <2>2, <2>3, <2>4, <2>5 DEF RunStep
<1>6. ASSUME NEW c \in Chats, NEW s, Write(c, s)
      PROVE  ReadIsHad'
  BY <1>6 DEF Write, runVars
<1>7. ASSUME NEW c \in Chats, UserStep(c)
      PROVE  ReadIsHad'
  BY <1>6, <1>7 DEF UserStep, SetSubscription, DeleteSubscription
<1>8. CASE UNCHANGED vars
  BY <1>8 DEF vars, runVars, histVars
<1> QED BY <1>1, <1>2, <1>3, <1>4, <1>5, <1>7, <1>8 DEF Next

\* What a run sends is what its user had asked for at some moment of that run,
\* however edits and runs interleave.
THEOREM NothingUnaskedHolds == Spec => []NothingUnasked
<1>1. Init => ReadIsHad
  BY DEF Init, ReadIsHad
<1>2. ReadIsHad => NothingUnasked
  BY DEF ReadIsHad, NothingUnasked
<1> QED BY <1>1, <1>2, InitTimes, StepTInv, StepReadIsHad, PTL DEF Spec

-----------------------------------------------------------------------------
(* The runs implement OnceOnly.                                            *)

\* What is at work was started.
WorkWasFired == \A c \in Chats : pc[c] # "idle" => <<c, run[c]>> \in fired

LEMMA StepWorkWasFired == TInv /\ WorkWasFired /\ [Next]_vars => WorkWasFired'
<1> SUFFICES ASSUME TInv, WorkWasFired, [Next]_vars
             PROVE  WorkWasFired'
  OBVIOUS
<1> USE DEF TInv, TypeOK, WorkWasFired
<1>1. CASE Tick
  BY <1>1 DEF Tick, runVars, histVars
<1>2. CASE Start
  BY <1>2 DEF Start, runVars
<1>3. CASE Crash
  BY <1>3 DEF Crash
<1>4. ASSUME NEW c \in Chats, Fire(c)
      PROVE  WorkWasFired'
  BY <1>4 DEF Fire
<1>5. ASSUME NEW c \in Chats, RunStep(c)
      PROVE  WorkWasFired'
  BY <1>5 DEF RunStep, GetSubscription, NotSubscribed, CheapestWindow, Notify,
              DispatchFails, RunOver, histVars
<1>6. ASSUME NEW c \in Chats, UserStep(c)
      PROVE  WorkWasFired'
  BY <1>6 DEF UserStep, SetSubscription, DeleteSubscription, Write, runVars
<1>7. CASE UNCHANGED vars
  BY <1>7 DEF vars, runVars, histVars
<1> QED BY <1>1, <1>2, <1>3, <1>4, <1>5, <1>6, <1>7 DEF Next

\* A run that ends settles what it was for, and nothing else.
LEMMA EndSettles ==
    ASSUME TInv, WorkWasFired, NEW c \in Chats, pc[c] # "idle", RunOver(c), fired' = fired
    PROVE  /\ <<c, run[c]>> \in Keys \ Settled
           /\ Settled' = Settled \cup {<<c, run[c]>>}
<1> DEFINE k == <<c, run[c]>>
<1>1. k \in fired /\ k \in Keys /\ k \notin Settled
  BY DEF WorkWasFired, TInv, TypeOK, Settled, AtWork
<1>2. ASSUME NEW d \in Chats, NEW t \in 1..MaxTime
      PROVE  AtWork(d, t)' <=> AtWork(d, t) /\ <<d, t>> # k
  BY DEF TInv, TypeOK, AtWork, RunOver
<1>3. ASSUME NEW j \in Keys
      PROVE  j \in Settled' <=> j \in Settled \cup {k}
  <2>1. PICK d \in Chats, t \in 1..MaxTime : j = <<d, t>>
    BY DEF Keys
  <2>2. /\ j \in Settled  <=> j \in fired /\ ~AtWork(d, t)
        /\ j \in Settled' <=> j \in fired /\ ~(AtWork(d, t)')
    BY <2>1 DEF Settled
  <2> QED BY <1>1, <1>2, <2>1, <2>2
<1>4. Settled \subseteq Keys /\ Settled' \subseteq Keys
  BY DEF Settled, TInv, TypeOK
<1> QED BY <1>1, <1>3, <1>4

\* A step that neither starts nor ends a run settles nothing.
LEMMA QuietSettlesNothing ==
    ASSUME TInv, fired' = fired, run' = run, UNCHANGED delivered,
           \A c \in Chats : (pc'[c] = "idle") <=> (pc[c] = "idle")
    PROVE  UNCHANGED Promise!vars
<1>1. ASSUME NEW j \in fired
      PROVE  AtWork(j[1], j[2])' <=> AtWork(j[1], j[2])
  BY DEF TInv, TypeOK, Keys, AtWork
<1>2. Settled' = Settled
  BY <1>1 DEF Settled
<1> QED BY <1>2 DEF Promise!vars

LEMMA PromiseStep == TInv /\ WorkWasFired /\ [Next]_vars => [Promise!Next]_Promise!vars
<1> SUFFICES ASSUME TInv, WorkWasFired, [Next]_vars
             PROVE  [Promise!Next]_Promise!vars
  OBVIOUS
<1>1. CASE Tick
  BY <1>1, QuietSettlesNothing DEF Tick, runVars, histVars
<1>2. CASE Start
  BY <1>2, QuietSettlesNothing DEF Start, runVars
<1>3. CASE Crash
  <2> DEFINE lost == fired \ Settled
  <2>1. Settled' = fired
    BY <1>3 DEF Crash, Settled, AtWork, TInv, TypeOK, Keys
  <2>2. Promise!Abandon(lost)
    BY <1>3, <2>1 DEF Crash, Promise!Abandon, Settled
  <2>3. lost \in SUBSET Keys
    BY DEF TInv, TypeOK
  <2> QED BY <2>2, <2>3 DEF Promise!Next
<1>4. ASSUME NEW c \in Chats, Fire(c)
      PROVE  UNCHANGED Promise!vars
  <2>1. <<c, now>> \notin fired
    BY <1>4, ClockBound DEF Fire, TInv, TypeOK, FiredIsPast, JobsInTime, Instants, Keys
  <2>2. ASSUME NEW j \in fired
        PROVE  AtWork(j[1], j[2])' <=> AtWork(j[1], j[2])
    BY <1>4, <2>1 DEF Fire, AtWork, TInv, TypeOK, Keys
  <2>3. AtWork(c, now)'
    BY <1>4 DEF Fire, AtWork, TInv, TypeOK
  <2>4. Settled' = Settled
    BY <1>4, <2>2, <2>3 DEF Settled, Fire
  <2> QED BY <1>4, <2>4 DEF Fire, Promise!vars
<1>5. ASSUME NEW c \in Chats, RunStep(c)
      PROVE  [Promise!Next]_Promise!vars
  <2> DEFINE k == <<c, run[c]>>
  <2>1. CASE GetSubscription(c)
    BY <2>1, QuietSettlesNothing DEF GetSubscription, histVars, TInv, TypeOK
  <2>2. CASE CheapestWindow(c)
    BY <2>2, QuietSettlesNothing DEF CheapestWindow, histVars, TInv, TypeOK
  <2>3. CASE NotSubscribed(c) \/ DispatchFails(c)
    <3>1. /\ pc[c] # "idle" /\ RunOver(c) /\ fired' = fired /\ UNCHANGED delivered
      BY <2>3 DEF NotSubscribed, DispatchFails
    <3>2. k \in Keys \ Settled /\ Settled' = Settled \cup {k}
      BY <3>1, EndSettles
    <3>3. Promise!Abandon({k}) /\ {k} \in SUBSET Keys
      BY <3>1, <3>2 DEF Promise!Abandon
    <3> QED BY <3>3 DEF Promise!Next
  <2>4. CASE Notify(c)
    <3>1. /\ pc[c] # "idle" /\ RunOver(c) /\ fired' = fired
          /\ delivered' = [delivered EXCEPT ![k] = @ + 1]
      BY <2>4 DEF Notify
    <3>2. k \in Keys \ Settled /\ Settled' = Settled \cup {k}
      BY <3>1, EndSettles
    <3>3. Promise!Deliver(k)
      BY <3>1, <3>2 DEF Promise!Deliver
    <3> QED BY <3>2, <3>3 DEF Promise!Next
  <2> QED BY <1>5, <2>1, <2>2, <2>3, <2>4 DEF RunStep
<1>6. ASSUME NEW c \in Chats, UserStep(c)
      PROVE  UNCHANGED Promise!vars
  BY <1>6, QuietSettlesNothing
     DEF UserStep, SetSubscription, DeleteSubscription, Write, runVars
<1>7. CASE UNCHANGED vars
  BY <1>7, QuietSettlesNothing DEF vars, runVars, histVars
<1> QED BY <1>1, <1>2, <1>3, <1>4, <1>5, <1>6, <1>7 DEF Next

\* For each chat and instant at most one message is sent, and a run that failed is
\* never made up for: the runs keep the promise of OnceOnly.
THEOREM RunsImplementOnceOnly == Spec => ImplementsOnceOnly
<1>1. Init => WorkWasFired /\ Promise!Init
  BY DEF Init, WorkWasFired, Promise!Init, Settled
<1> QED BY <1>1, InitTimes, StepTInv, StepWorkWasFired, PromiseStep, PTL
    DEF Spec, ImplementsOnceOnly, Promise!Spec

=============================================================================
