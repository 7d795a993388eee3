------------------------- MODULE PriceAlertsProofs -------------------------
(***************************************************************************)
(* Theorems about PriceAlerts for every value of its constants.            *)
(***************************************************************************)
EXTENDS PriceAlertsProperties, TLAPS

-----------------------------------------------------------------------------
(* Types.                                                                  *)

\* A run found in the cached rates starts at a half-hour and ends at one's end.
LEMMA RunsAreTyped ==
    ASSUME SystemTypeOK, NEW r \in Regions, NEW T, NEW t \in Nat
    PROVE  ContiguousRunsBelow(r, T, t) \subseteq Run
<1>1. Below(r, T, t) \subseteq Starts
  BY DEF SystemTypeOK, Below, Visible
<1> SUFFICES ASSUME NEW f \in Below(r, T, t), NEW g \in Below(r, T, t)
             PROVE  [start |-> f, end |-> g + Slot] \in Run
  BY DEF ContiguousRunsBelow
<1>2. f \in Starts /\ g \in Nat /\ Slot \in Nat
  <2>1. Starts \subseteq Nat /\ Slot \in Nat
    BY StartsAssumption, TimingAssumption
  <2> QED BY <1>1, <2>1
<1> QED BY <1>2 DEF Run

\* Going on to the next alert keeps the locals typed.
LEMMA NextAlertTyped ==
    ASSUME SweepTypeOK, NEW s \in Sweeps, NEW rest \in SUBSET Alert, NextAlert(s, rest)
    PROVE  SweepTypeOK'
BY DEF SweepTypeOK, NextAlert

\* So does going on to the next run.
LEMMA NextRunTyped ==
    ASSUME SweepTypeOK, NEW s \in Sweeps, NEW rest \in SUBSET Run, NextRun(s, rest)
    PROVE  SweepTypeOK'
<1>1. CASE rest = {}
  <2>1. todo[s] \in SUBSET Alert
    BY DEF SweepTypeOK
  <2> QED BY <1>1, <2>1, NextAlertTyped DEF NextRun
<1>2. CASE rest # {}
  BY <1>2 DEF SweepTypeOK, NextRun
<1> QED BY <1>1, <1>2

\* In the loop body of a sweep, its alert and its run are set.
LocalsSet == \A s \in Sweeps : /\ pc[s] \in {"rates", "mark", "notify"} => cur[s] \in Target
                               /\ pc[s] = "notify" => run[s] \in Run

LEMMA NextAlertSet ==
    ASSUME SweepTypeOK, LocalsSet, NEW s \in Sweeps, NEW rest \in SUBSET Alert,
           NextAlert(s, rest)
    PROVE  LocalsSet'
BY DEF SweepTypeOK, LocalsSet, NextAlert

LEMMA NextRunSet ==
    ASSUME SweepTypeOK, LocalsSet, NEW s \in Sweeps, NEW rest \in SUBSET Run,
           pc[s] \in {"rates", "mark", "notify"}, NextRun(s, rest)
    PROVE  LocalsSet'
<1>1. CASE rest = {}
  <2>1. todo[s] \in SUBSET Alert
    BY DEF SweepTypeOK
  <2> QED BY <1>1, <2>1, NextAlertSet DEF NextRun
<1>2. CASE rest # {}
  BY <1>2 DEF SweepTypeOK, LocalsSet, NextRun
<1> QED BY <1>1, <1>2

Typed == TypeOK /\ LocalsSet

LEMMA InitTyped == Init => Typed
BY TimingAssumption DEF Init, ProcessInit, Typed, TypeOK, SystemTypeOK, SweepTypeOK, LocalsSet, Keys

LEMMA StepTyped == Typed /\ [Next]_vars => Typed'
<1> SUFFICES ASSUME Typed, [Next]_vars
             PROVE  Typed'
  OBVIOUS
<1> USE DEF Typed, TypeOK
<1>1. CASE Tick
  BY <1>1 DEF Tick, SystemTypeOK, SweepTypeOK, LocalsSet, dbVars, sweepVars
<1>2. CASE Crash
  BY <1>2 DEF Crash, SystemTypeOK, SweepTypeOK, LocalsSet, dbVars
<1>3. CASE Restart
  BY <1>3, TimingAssumption
     DEF Restart, SystemTypeOK, SweepTypeOK, LocalsSet, dbVars, sweepVars
<1>4. CASE UserStep
  BY <1>4 DEF UserStep, UpsertChatRegion, SetPriceAlert, DisablePriceAlert,
              SystemTypeOK, SweepTypeOK, LocalsSet, sweepVars
<1>5. CASE RefreshStep
  BY <1>5 DEF RefreshStep, UpsertRates, SystemTypeOK, SweepTypeOK, LocalsSet, sweepVars
<1>6. ASSUME NEW s \in Sweeps, Fire(s) PROVE Typed'
  BY <1>6, TimingAssumption DEF Fire, SystemTypeOK, SweepTypeOK, LocalsSet, dbVars
<1>7. ASSUME NEW s \in Sweeps, SweepStep(s) PROVE Typed'
  <2>1. CASE ListEnabledPriceAlerts(s)
    <3>1. SweepTypeOK' /\ LocalsSet'
      BY <2>1 DEF ListEnabledPriceAlerts, SystemTypeOK, SweepTypeOK, LocalsSet, Alert
    <3> QED BY <2>1, <3>1 DEF ListEnabledPriceAlerts, LocalOnly, SystemTypeOK, dbVars
  <2>2. CASE ReadClock(s)
    BY <2>2 DEF ReadClock, LocalOnly, SystemTypeOK, SweepTypeOK, LocalsSet, dbVars
  <2>3. CASE GetChat(s)
    <3>1. SystemTypeOK'
      BY <2>3 DEF GetChat, LocalOnly, SystemTypeOK, dbVars
    <3>2. PICK a \in todo[s] :
            IF region[a.chat] = NoRegion
            THEN NextAlert(s, todo[s] \ {a})
            ELSE /\ pc' = [pc EXCEPT ![s] = "rates"]
                 /\ todo' = [todo EXCEPT ![s] = @ \ {a}]
                 /\ cur' = [cur EXCEPT ![s] = [chat |-> a.chat, threshold |-> a.threshold,
                                               region |-> region[a.chat]]]
                 /\ UNCHANGED <<at, due, run>>
      BY <2>3 DEF GetChat
    <3>3. a \in Alert /\ todo[s] \ {a} \in SUBSET Alert
      BY DEF SweepTypeOK
    <3>4. CASE region[a.chat] = NoRegion
      BY <3>1, <3>2, <3>3, <3>4, NextAlertTyped, NextAlertSet
    <3>5. CASE region[a.chat] # NoRegion
      <4>1. [chat |-> a.chat, threshold |-> a.threshold, region |-> region[a.chat]] \in Target
        BY <3>3, <3>5 DEF Alert, Target, SystemTypeOK
      <4> QED BY <3>1, <3>2, <3>3, <3>5, <4>1 DEF SweepTypeOK, LocalsSet
    <3> QED BY <3>4, <3>5
  <2>4. CASE Rates(s)
    <3>1. SystemTypeOK'
      BY <2>4 DEF Rates, LocalOnly, SystemTypeOK, dbVars
    <3>2. /\ pc[s] = "rates" /\ cur[s].region \in Regions /\ at[s] \in Nat
      BY <2>4 DEF Rates, LocalsSet, Target, SweepTypeOK
    <3>3. ContiguousRunsBelow(cur[s].region, cur[s].threshold, at[s]) \subseteq Run
      BY <3>2, RunsAreTyped
    <3>4. \E rest \in SUBSET Run : NextRun(s, rest)
      BY <2>4, <3>3 DEF Rates
    <3> QED BY <3>1, <3>2, <3>4, NextRunTyped, NextRunSet
  <2>5. CASE MarkPriceAlertDispatched(s)
    <3>1. PICK u \in due[s] :
            /\ log' = log \cup {<<cur[s].chat, u.start>>}
            /\ IF <<cur[s].chat, u.start>> \in log
               THEN NextRun(s, due[s] \ {u})
               ELSE /\ pc' = [pc EXCEPT ![s] = "notify"]
                    /\ due' = [due EXCEPT ![s] = @ \ {u}]
                    /\ run' = [run EXCEPT ![s] = u]
                    /\ UNCHANGED <<at, todo, cur>>
      BY <2>5 DEF MarkPriceAlertDispatched
    <3>2. pc[s] = "mark" /\ cur[s] \in Target /\ u \in Run /\ due[s] \ {u} \in SUBSET Run
      BY <2>5 DEF MarkPriceAlertDispatched, SweepTypeOK, LocalsSet
    <3>3. SystemTypeOK'
      BY <2>5, <3>1, <3>2 DEF MarkPriceAlertDispatched, SystemTypeOK, Keys, Target, Run
    <3>4. CASE <<cur[s].chat, u.start>> \in log
      BY <3>1, <3>2, <3>3, <3>4, NextRunTyped, NextRunSet
    <3>5. CASE <<cur[s].chat, u.start>> \notin log
      BY <3>1, <3>2, <3>3, <3>5 DEF SweepTypeOK, LocalsSet
    <3> QED BY <3>4, <3>5
  <2>6. CASE Notify(s)
    <3>1. pc[s] = "notify" /\ due[s] \in SUBSET Run /\ NextRun(s, due[s])
      BY <2>6 DEF Notify, SweepTypeOK
    <3>2. <<cur[s].chat, run[s].start>> \in Keys
      BY <3>1 DEF LocalsSet, Target, Run, Keys
    <3>4. SystemTypeOK'
      BY <2>6, <3>2 DEF Notify, SystemTypeOK, dbVars
    <3>3. SweepTypeOK' /\ LocalsSet'
      BY <3>1, NextRunTyped, NextRunSet
    <3> QED BY <3>4, <3>3
  <2> QED BY <1>7, <2>1, <2>2, <2>3, <2>4, <2>5, <2>6 DEF SweepStep
<1>8. ASSUME NEW s \in Sweeps, StepFails(s) PROVE Typed'
  <2>1. SystemTypeOK'
    BY <1>8 DEF StepFails, ListFails, GetChatFails, RatesFails, MarkFails, NotifyFails,
                LocalOnly, SystemTypeOK, dbVars
  <2>2. todo[s] \in SUBSET Alert /\ due[s] \in SUBSET Run
    BY DEF SweepTypeOK
  <2>3. CASE ListFails(s)
    BY <2>1, <2>3 DEF ListFails, SweepTypeOK, LocalsSet
  <2>4. CASE GetChatFails(s)
    <3>1. \E rest \in SUBSET Alert : NextAlert(s, rest)
      BY <2>2, <2>4 DEF GetChatFails
    <3> QED BY <2>1, <3>1, NextAlertTyped, NextAlertSet
  <2>5. CASE RatesFails(s)
    BY <2>1, <2>2, <2>5, NextAlertTyped, NextAlertSet DEF RatesFails
  <2>6. CASE MarkFails(s)
    <3>1. pc[s] = "mark" /\ \E rest \in SUBSET Run : NextRun(s, rest)
      BY <2>2, <2>6 DEF MarkFails
    <3> QED BY <2>1, <3>1, NextRunTyped, NextRunSet
  <2>7. CASE NotifyFails(s)
    BY <2>1, <2>2, <2>7, NextRunTyped, NextRunSet DEF NotifyFails
  <2> QED BY <1>8, <2>3, <2>4, <2>5, <2>6, <2>7 DEF StepFails
<1>9. CASE UNCHANGED vars
  BY <1>9 DEF vars, SystemTypeOK, SweepTypeOK, LocalsSet
<1> QED BY <1>1, <1>2, <1>3, <1>4, <1>5, <1>6, <1>7, <1>8, <1>9 DEF Next

\* Every table row, message count and local of a sweep has its type, and a
\* sweep in its loop body always knows its alert (DispatchPriceAlerts).
THEOREM TypeCorrect == Spec => []TypeOK
<1>1. Spec => []Typed
  BY InitTyped, StepTyped, PTL DEF Spec
<1> QED BY <1>1, PTL DEF Typed

-----------------------------------------------------------------------------
(* Claims.  As far as log rows and messages go a step does one of three    *)
(* things: nothing new (claims may lapse), one claim, or one message.      *)

OthersKeepClaims(s) ==
    \A s2 \in Sweeps : s2 # s => /\ pc'[s2] = pc[s2]
                                 /\ cur'[s2] = cur[s2]
                                 /\ run'[s2] = run[s2]

SilentStep == /\ log' = log /\ delivered' = delivered
              /\ \A s \in Sweeps : pc'[s] = "notify" =>
                   pc[s] = "notify" /\ cur'[s] = cur[s] /\ run'[s] = run[s]

ClaimStep(s) == /\ pc[s] = "mark" /\ pc'[s] = "notify"
                /\ cur'[s] \in Target /\ run'[s] \in Run
                /\ <<cur'[s].chat, run'[s].start>> \notin log
                /\ log' = log \cup {<<cur'[s].chat, run'[s].start>>}
                /\ delivered' = delivered
                /\ OthersKeepClaims(s)

SendStep(s) == /\ pc[s] = "notify" /\ pc'[s] # "notify"
               /\ log' = log
               /\ delivered' = [delivered EXCEPT ![<<cur[s].chat, run[s].start>>] = @ + 1]
               /\ OthersKeepClaims(s)

LEMMA NextAlertClaimsNothing ==
    ASSUME Typed, NEW s \in Sweeps, NEW rest, NextAlert(s, rest)
    PROVE  OthersKeepClaims(s) /\ pc'[s] # "notify"
BY DEF NextAlert, Typed, TypeOK, SweepTypeOK, OthersKeepClaims

LEMMA NextRunClaimsNothing ==
    ASSUME Typed, NEW s \in Sweeps, NEW rest, NextRun(s, rest)
    PROVE  OthersKeepClaims(s) /\ pc'[s] # "notify"
<1>1. CASE rest = {}
  BY <1>1, NextAlertClaimsNothing DEF NextRun
<1>2. CASE rest # {}
  BY <1>2 DEF NextRun, Typed, TypeOK, SweepTypeOK, OthersKeepClaims
<1> QED BY <1>1, <1>2

LEMMA StepKinds ==
    Typed /\ [Next]_vars =>
      SilentStep \/ \E s \in Sweeps : ClaimStep(s) \/ SendStep(s)
<1> SUFFICES ASSUME Typed, [Next]_vars
             PROVE  SilentStep \/ \E s \in Sweeps : ClaimStep(s) \/ SendStep(s)
  OBVIOUS
<1>0. ASSUME NEW s \in Sweeps, log' = log, delivered' = delivered,
             OthersKeepClaims(s), pc'[s] # "notify"
      PROVE  SilentStep
  BY <1>0 DEF SilentStep, OthersKeepClaims
<1>1. CASE Tick \/ Restart \/ UserStep \/ RefreshStep \/ UNCHANGED vars
  BY <1>1 DEF Tick, Restart, UserStep, RefreshStep, vars, UpsertChatRegion, SetPriceAlert,
              DisablePriceAlert, UpsertRates, dbVars, sweepVars, SilentStep
<1>2. CASE Crash
  BY <1>2 DEF Crash, dbVars, SilentStep
<1>3. ASSUME NEW s \in Sweeps, Fire(s) PROVE SilentStep
  BY <1>3 DEF Fire, dbVars, SilentStep, Typed, TypeOK, SweepTypeOK
<1>4. ASSUME NEW s \in Sweeps, SweepStep(s)
      PROVE  SilentStep \/ ClaimStep(s) \/ SendStep(s)
  <2>1. CASE ListEnabledPriceAlerts(s) \/ ReadClock(s)
    BY <2>1 DEF ListEnabledPriceAlerts, ReadClock, LocalOnly, dbVars, SilentStep,
                Typed, TypeOK, SweepTypeOK
  <2>2. CASE GetChat(s)
    <3>1. log' = log /\ delivered' = delivered
      BY <2>2 DEF GetChat, LocalOnly, dbVars
    <3>2. PICK a \in todo[s] :
            \/ NextAlert(s, todo[s] \ {a})
            \/ /\ pc' = [pc EXCEPT ![s] = "rates"]
               /\ cur' = [cur EXCEPT ![s] = [chat |-> a.chat, threshold |-> a.threshold,
                                             region |-> region[a.chat]]]
               /\ UNCHANGED run
      BY <2>2 DEF GetChat
    <3>3. CASE NextAlert(s, todo[s] \ {a})
      BY <1>0, <3>1, <3>3, NextAlertClaimsNothing
    <3>4. CASE pc' = [pc EXCEPT ![s] = "rates"]
      BY <3>1, <3>2, <3>3, <3>4 DEF SilentStep, Typed, TypeOK, SweepTypeOK
    <3> QED BY <3>2, <3>3, <3>4
  <2>3. CASE Rates(s)
    <3>1. log' = log /\ delivered' = delivered /\ \E rest : NextRun(s, rest)
      BY <2>3 DEF Rates, LocalOnly, dbVars
    <3> QED BY <1>0, <3>1, NextRunClaimsNothing
  <2>4. CASE MarkPriceAlertDispatched(s)
    <3>1. PICK u \in due[s] :
            /\ log' = log \cup {<<cur[s].chat, u.start>>}
            /\ IF <<cur[s].chat, u.start>> \in log
               THEN NextRun(s, due[s] \ {u})
               ELSE /\ pc' = [pc EXCEPT ![s] = "notify"]
                    /\ due' = [due EXCEPT ![s] = @ \ {u}]
                    /\ run' = [run EXCEPT ![s] = u]
                    /\ UNCHANGED <<at, todo, cur>>
      BY <2>4 DEF MarkPriceAlertDispatched
    <3>2. delivered' = delivered /\ pc[s] = "mark" /\ cur[s] \in Target /\ u \in Run
      BY <2>4 DEF MarkPriceAlertDispatched, Typed, TypeOK, SweepTypeOK, LocalsSet
    <3>3. CASE <<cur[s].chat, u.start>> \in log
      <4>1. log' = log /\ NextRun(s, due[s] \ {u})
        BY <3>1, <3>3
      <4> QED BY <1>0, <3>2, <4>1, NextRunClaimsNothing
    <3>4. CASE <<cur[s].chat, u.start>> \notin log
      <4>1. OthersKeepClaims(s) /\ pc'[s] = "notify" /\ cur'[s] = cur[s] /\ run'[s] = u
        BY <3>1, <3>4 DEF OthersKeepClaims, Typed, TypeOK, SweepTypeOK
      <4> QED BY <3>1, <3>2, <3>4, <4>1 DEF ClaimStep
    <3> QED BY <3>3, <3>4
  <2>5. CASE Notify(s)
    <3>1. /\ pc[s] = "notify" /\ log' = log /\ NextRun(s, due[s])
          /\ delivered' = [delivered EXCEPT ![<<cur[s].chat, run[s].start>>] = @ + 1]
      BY <2>5 DEF Notify, dbVars
    <3> QED BY <3>1, NextRunClaimsNothing DEF SendStep
  <2> QED BY <1>4, <2>1, <2>2, <2>3, <2>4, <2>5 DEF SweepStep
<1>5. ASSUME NEW s \in Sweeps, StepFails(s) PROVE SilentStep
  <2>1. log' = log /\ delivered' = delivered
    BY <1>5 DEF StepFails, ListFails, GetChatFails, RatesFails, MarkFails, NotifyFails,
                LocalOnly, dbVars
  <2>2. CASE ListFails(s)
    BY <2>1, <2>2 DEF ListFails, SilentStep, Typed, TypeOK, SweepTypeOK
  <2>3. CASE \E rest : NextAlert(s, rest) \/ NextRun(s, rest)
    BY <1>0, <2>1, <2>3, NextAlertClaimsNothing, NextRunClaimsNothing
  <2> QED BY <1>5, <2>2, <2>3 DEF StepFails, GetChatFails, RatesFails, MarkFails, NotifyFails
<1> QED BY <1>1, <1>2, <1>3, <1>4, <1>5 DEF Next

-----------------------------------------------------------------------------
(* At most one message.                                                    *)

\* A message was preceded by its log row, and was the only one.
SentOnce == \A k \in Keys : delivered[k] <= 1 /\ (delivered[k] # 0 => k \in log)

ClaimInv == Typed /\ ExclusiveClaim /\ SentOnce

LEMMA InitClaim == Init => ClaimInv
BY InitTyped DEF Init, ProcessInit, ClaimInv, ExclusiveClaim, InFlight, SentOnce

LEMMA StepClaim == ClaimInv /\ [Next]_vars => ClaimInv'
<1> SUFFICES ASSUME ClaimInv, [Next]_vars PROVE ExclusiveClaim' /\ SentOnce'
  BY StepTyped DEF ClaimInv
<1> USE DEF ClaimInv
<1>0. /\ delivered \in [Keys -> Nat] /\ log \subseteq Keys
      /\ \A s \in Sweeps : pc[s] = "notify" => cur[s] \in Target /\ run[s] \in Run
  BY DEF Typed, TypeOK, SystemTypeOK, LocalsSet
<1>1. CASE SilentStep
  BY <1>1 DEF SilentStep, ExclusiveClaim, InFlight, SentOnce
<1>2. ASSUME NEW s \in Sweeps, ClaimStep(s) PROVE ExclusiveClaim' /\ SentOnce'
  <2> DEFINE k == <<cur'[s].chat, run'[s].start>>
  <2>1. k \in Keys /\ k \notin log /\ log' = log \cup {k} /\ delivered' = delivered
    BY <1>2 DEF ClaimStep, Target, Run, Keys
  <2>2. delivered[k] = 0
    BY <2>1, <1>0 DEF SentOnce
  <2>3. SentOnce'
    BY <2>1 DEF SentOnce
  <2>4. ASSUME NEW s2 \in Sweeps, NEW c \in Chats, NEW f \in Starts, InFlight(s2, c, f)',
               s2 # s
        PROVE  InFlight(s2, c, f) /\ <<c, f>> # k
    <3>1. InFlight(s2, c, f)
      BY <1>2, <2>4 DEF ClaimStep, OthersKeepClaims, InFlight
    <3> QED BY <2>1, <3>1 DEF ExclusiveClaim
  <2>5. ASSUME NEW c \in Chats, NEW f \in Starts, InFlight(s, c, f)'
        PROVE  <<c, f>> = k
    BY <2>5 DEF InFlight
  <2>6. ASSUME NEW s2 \in Sweeps, NEW c \in Chats, NEW f \in Starts, InFlight(s2, c, f)'
        PROVE  <<c, f>> \in log' /\ delivered'[<<c, f>>] = 0
    <3>1. CASE s2 = s
      BY <3>1, <2>1, <2>2, <2>5, <2>6
    <3>2. CASE s2 # s
      BY <3>2, <2>1, <2>4, <2>6 DEF ExclusiveClaim
    <3> QED BY <3>1, <3>2
  <2>7. ASSUME NEW s2 \in Sweeps, NEW s3 \in Sweeps, NEW c \in Chats, NEW f \in Starts,
               InFlight(s2, c, f)', InFlight(s3, c, f)'
        PROVE  s2 = s3
    <3>1. CASE s2 # s /\ s3 # s
      BY <3>1, <2>4, <2>7 DEF ExclusiveClaim
    <3>2. CASE s2 = s \/ s3 = s
      BY <3>2, <2>4, <2>5, <2>7
    <3> QED BY <3>1, <3>2
  <2> QED BY <2>3, <2>6, <2>7 DEF ExclusiveClaim
<1>3. ASSUME NEW s \in Sweeps, SendStep(s) PROVE ExclusiveClaim' /\ SentOnce'
  <2> DEFINE k == <<cur[s].chat, run[s].start>>
  <2>1. /\ k \in Keys /\ log' = log /\ delivered' = [delivered EXCEPT ![k] = @ + 1]
        /\ cur[s].chat \in Chats /\ run[s].start \in Starts /\ pc[s] = "notify"
    BY <1>0, <1>3 DEF SendStep, Target, Run, Keys
  <2>2. InFlight(s, cur[s].chat, run[s].start)
    BY <2>1 DEF InFlight
  <2>3. k \in log /\ delivered[k] = 0
    BY <2>1, <2>2 DEF ExclusiveClaim
  <2>4. SentOnce'
    BY <1>0, <2>1, <2>3 DEF SentOnce
  <2>5. ASSUME NEW s2 \in Sweeps, NEW c \in Chats, NEW f \in Starts, InFlight(s2, c, f)'
        PROVE  InFlight(s2, c, f) /\ <<c, f>> # k
    <3>1. s2 # s
      BY <1>3, <2>5 DEF SendStep, InFlight
    <3>2. InFlight(s2, c, f)
      BY <1>3, <3>1, <2>5 DEF SendStep, OthersKeepClaims, InFlight
    <3>3. c # cur[s].chat \/ f # run[s].start
      BY <2>1, <2>2, <3>1, <3>2 DEF ExclusiveClaim
    <3> QED BY <3>2, <3>3
  <2>6. ASSUME NEW s2 \in Sweeps, NEW c \in Chats, NEW f \in Starts, InFlight(s2, c, f)'
        PROVE  <<c, f>> \in log' /\ delivered'[<<c, f>>] = 0
    <3>1. <<c, f>> \in log /\ delivered[<<c, f>>] = 0 /\ <<c, f>> # k /\ <<c, f>> \in Keys
      BY <2>5, <2>6 DEF ExclusiveClaim, Keys
    <3> QED BY <1>0, <2>1, <3>1
  <2> QED BY <2>4, <2>5, <2>6 DEF ExclusiveClaim
<1> QED BY <1>1, <1>2, <1>3, StepKinds DEF ClaimInv

LEMMA ClaimInvariant == Spec => []ClaimInv
BY InitClaim, StepClaim, PTL DEF Spec

\* However sweeps overlap, settings change and the process crashes between
\* the log row and the send, no (chat, run start) gets a second message.
THEOREM AtMostOnceHolds == Spec => []AtMostOnce
<1>1. ClaimInv => AtMostOnce
  BY DEF ClaimInv, SentOnce, AtMostOnce
<1> QED BY <1>1, ClaimInvariant, PTL

\* A log row is held by one sweep at most, before its message is sent.
THEOREM ExclusiveClaimHolds == Spec => []ExclusiveClaim
BY ClaimInvariant, PTL DEF ClaimInv

-----------------------------------------------------------------------------
(* What a step may not do, and the promise the sweep implements.           *)

\* Only the sweep that holds the claim sends, once, and gives the claim up.
LEMMA SendEndsClaim ==
    ASSUME ClaimInv, NEW s \in Sweeps, SendStep(s)
    PROVE  \E k \in Keys :
              /\ k \in log /\ log' = log
              /\ delivered' = [delivered EXCEPT ![k] = @ + 1]
              /\ InFlight(s, k[1], k[2])
              /\ \A s2 \in Sweeps : ~InFlight(s2, k[1], k[2])'
              /\ \A k2 \in Keys : k2 # k =>
                   \A s2 \in Sweeps : InFlight(s2, k2[1], k2[2])' <=> InFlight(s2, k2[1], k2[2])
<1>1. PICK c \in Chats, f \in Starts : cur[s].chat = c /\ run[s].start = f
  BY DEF ClaimInv, Typed, LocalsSet, SendStep, Target, Run
<1> DEFINE k == <<c, f>>
<1>2. k \in Keys /\ InFlight(s, c, f)
  BY <1>1 DEF SendStep, InFlight, Keys
<1>3. /\ k \in log /\ log' = log
      /\ delivered' = [delivered EXCEPT ![k] = @ + 1]
  BY <1>1, <1>2 DEF ClaimInv, ExclusiveClaim, SendStep
<1>4. ASSUME NEW s2 \in Sweeps PROVE ~InFlight(s2, c, f)'
  <2>1. CASE s2 = s
    BY <2>1 DEF SendStep, InFlight
  <2>2. CASE s2 # s
    BY <1>2, <2>2 DEF SendStep, OthersKeepClaims, InFlight, ClaimInv, ExclusiveClaim
  <2> QED BY <2>1, <2>2
<1>5. ASSUME NEW k2 \in Keys, k2 # k, NEW s2 \in Sweeps
      PROVE  InFlight(s2, k2[1], k2[2])' <=> InFlight(s2, k2[1], k2[2])
  <2>1. CASE s2 = s
    BY <1>1, <1>5, <2>1 DEF SendStep, InFlight, Keys
  <2>2. CASE s2 # s
    BY <2>2 DEF SendStep, OthersKeepClaims, InFlight
  <2> QED BY <2>1, <2>2
<1>6. k[1] = c /\ k[2] = f
  OBVIOUS
<1> HIDE DEF k
<1> QED BY <1>2, <1>3, <1>4, <1>5, <1>6

LEMMA StepClaimBeforeSend ==
    ASSUME ClaimInv, [Next]_vars
    PROVE  /\ log \subseteq log'
           /\ \A k \in Keys : delivered'[k] # delivered[k] =>
                /\ delivered'[k] = delivered[k] + 1
                /\ \E s \in Sweeps : InFlight(s, k[1], k[2]) /\ ~InFlight(s, k[1], k[2])'
<1>1. CASE SilentStep \/ \E s \in Sweeps : ClaimStep(s)
  BY <1>1 DEF SilentStep, ClaimStep
<1>2. ASSUME NEW s \in Sweeps, SendStep(s), NEW k \in Keys, delivered'[k] # delivered[k]
      PROVE  /\ delivered'[k] = delivered[k] + 1
             /\ \E s2 \in Sweeps : InFlight(s2, k[1], k[2]) /\ ~InFlight(s2, k[1], k[2])'
  <2>1. delivered \in [Keys -> Nat]
    BY DEF ClaimInv, Typed, TypeOK, SystemTypeOK
  <2>2. PICK k0 \in Keys : /\ delivered' = [delivered EXCEPT ![k0] = @ + 1]
                           /\ InFlight(s, k0[1], k0[2])
                           /\ ~InFlight(s, k0[1], k0[2])'
    BY <1>2, SendEndsClaim
  <2>3. k = k0 /\ delivered'[k] = delivered[k] + 1
    BY <1>2, <2>1, <2>2
  <2> QED BY <2>2, <2>3
<1>3. ASSUME NEW s \in Sweeps, SendStep(s) PROVE log \subseteq log'
  BY <1>3 DEF SendStep
<1> QED BY <1>1, <1>2, <1>3, StepKinds DEF ClaimInv

\* The log only grows, and a message is sent only by ending a claim on it.
THEOREM ClaimBeforeSendHolds == Spec => ClaimBeforeSend
<1>1. ClaimInv /\ [Next]_vars =>
        [ /\ log \subseteq log'
          /\ \A k \in Keys : delivered'[k] # delivered[k] =>
               /\ delivered'[k] = delivered[k] + 1
               /\ \E s \in Sweeps : InFlight(s, k[1], k[2]) /\ ~InFlight(s, k[1], k[2])' ]_vars
  BY StepClaimBeforeSend
<1> QED BY <1>1, ClaimInvariant, PTL DEF Spec, ClaimBeforeSend

LEMMA InitPromise == Init => Promise!Init
BY DEF Init, ProcessInit, Promise!Init, Settled

\* A silent step settles the claims it lapses, a claim settles nothing yet, a
\* message settles its key.
LEMMA StepPromise == ClaimInv /\ [Next]_vars => [Promise!Next]_Promise!vars
<1> SUFFICES ASSUME ClaimInv, [Next]_vars PROVE [Promise!Next]_Promise!vars
  OBVIOUS
<1>0. Settled \subseteq Keys /\ log \subseteq Keys /\ delivered \in [Keys -> Nat]
  BY DEF Settled, ClaimInv, Typed, TypeOK, SystemTypeOK
<1>1. CASE SilentStep
  <2> DEFINE lost == Settled' \ Settled
  <2>1. Settled \subseteq Settled'
    BY <1>1 DEF SilentStep, Settled, InFlight
  <2>2. lost \in SUBSET Keys
    BY <1>0, <1>1 DEF SilentStep, Settled
  <2>3. Promise!Abandon(lost)
    BY <1>1, <2>1 DEF SilentStep, Promise!Abandon
  <2> QED BY <2>2, <2>3 DEF Promise!Next
<1>2. ASSUME NEW s \in Sweeps, ClaimStep(s) PROVE UNCHANGED Promise!vars
  <2> DEFINE k == <<cur'[s].chat, run'[s].start>>
  <2>1. /\ k \notin log /\ log' = log \cup {k} /\ k \in Keys /\ delivered' = delivered
        /\ cur'[s].chat \in Chats /\ run'[s].start \in Starts /\ pc[s] # "notify"
    BY <1>2 DEF ClaimStep, Target, Run, Keys
  <2>2. k \notin Settled'
    BY <1>2 DEF ClaimStep, Settled, InFlight
  <2>3. ASSUME NEW j \in log, NEW s2 \in Sweeps
        PROVE  InFlight(s2, j[1], j[2])' <=> InFlight(s2, j[1], j[2])
    <3>1. CASE s2 = s
      <4>1. j # k /\ j \in Keys
        BY <1>0, <2>1
      <4> QED BY <3>1, <4>1, <2>1 DEF InFlight, Keys
    <3>2. CASE s2 # s
      BY <1>2, <3>2 DEF ClaimStep, OthersKeepClaims, InFlight
    <3> QED BY <3>1, <3>2
  <2>4. Settled' = Settled
    BY <2>1, <2>2, <2>3 DEF Settled
  <2> QED BY <2>1, <2>4 DEF Promise!vars
<1>3. ASSUME NEW s \in Sweeps, SendStep(s) PROVE Promise!Next
  <2>1. PICK k \in Keys :
              /\ k \in log /\ log' = log
              /\ delivered' = [delivered EXCEPT ![k] = @ + 1]
              /\ InFlight(s, k[1], k[2])
              /\ \A s2 \in Sweeps : ~InFlight(s2, k[1], k[2])'
              /\ \A k2 \in Keys : k2 # k =>
                   \A s2 \in Sweeps : InFlight(s2, k2[1], k2[2])' <=> InFlight(s2, k2[1], k2[2])
    BY <1>3, SendEndsClaim
  <2>2. k \notin Settled /\ k \in Settled'
    BY <2>1 DEF Settled
  <2>3. Settled' = Settled \cup {k}
    <3>1. ASSUME NEW j \in log, j # k PROVE j \in Settled' <=> j \in Settled
      BY <1>0, <2>1, <3>1 DEF Settled
    <3> QED BY <1>0, <2>1, <2>2, <3>1 DEF Settled
  <2>4. Promise!Deliver(k)
    BY <2>1, <2>2, <2>3 DEF Promise!Deliver
  <2> QED BY <2>4 DEF Promise!Next
<1> QED BY <1>1, <1>2, <1>3, StepKinds DEF ClaimInv

\* The sweep over its tables implements OnceOnly, under the mapping that
\* settles a (chat, start) when its row is logged and no sweep holds it.
THEOREM SweepImplementsOnceOnly == Spec => ImplementsOnceOnly
BY InitPromise, StepPromise, ClaimInvariant, PTL DEF Spec, ImplementsOnceOnly, Promise!Spec

-----------------------------------------------------------------------------
(* What a sweep sees of the rates.                                         *)

LEMMA InitNoHole == Init => NoHoleAhead
BY DEF Init, NoHoleAhead

\* A half-hour still ahead is in every refresh that reaches beyond it,
\* however long ago the refresh began.
LEMMA StepNoHole == TypeOK /\ NoHoleAhead /\ [Next]_vars => NoHoleAhead'
<1> SUFFICES ASSUME TypeOK, NoHoleAhead, [Next]_vars PROVE NoHoleAhead'
  OBVIOUS
<1>1. now' \in Nat /\ now \in Nat /\ now <= now' /\ Slot \in Nat /\ Starts \subseteq Nat
  <2>1. now' = now \/ now' = now + 1
    BY DEF Next, vars, Tick, Crash, Restart, UserStep, UpsertChatRegion, SetPriceAlert,
           DisablePriceAlert, RefreshStep, UpsertRates, Fire, SweepStep, StepFails,
           ListEnabledPriceAlerts, ReadClock, GetChat, Rates, MarkPriceAlertDispatched,
           Notify, ListFails, GetChatFails, RatesFails, MarkFails, NotifyFails, LocalOnly
  <2> QED BY <2>1, StartsAssumption, TimingAssumption DEF TypeOK, SystemTypeOK
<1>2. CASE RefreshStep
  <2>1. PICK r0 \in Regions, from \in Starts, last \in Starts : UpsertRates(r0, from, last)
    BY <1>2 DEF RefreshStep
  <2>2. /\ from <= now /\ now' = now
        /\ cache' = [cache EXCEPT ![r0] = @ \cup {f \in Starts : from <= f /\ f <= last}]
    BY <2>1 DEF UpsertRates
  <2>3. ASSUME NEW r \in Regions, NEW f \in cache'[r], NEW g \in Starts,
               g < f, now < g + Slot
        PROVE  g \in cache'[r]
    <3>1. CASE f \in cache[r]
      BY <2>2, <2>3, <3>1 DEF NoHoleAhead, TypeOK, SystemTypeOK
    <3>2. CASE f \notin cache[r]
      <4>1. r = r0 /\ f \in Starts /\ f <= last
        BY <2>2, <2>3, <3>2 DEF TypeOK, SystemTypeOK
      <4>2. from <= g
        <5>1. from \in Nat /\ g \in Nat /\ (g < from => g + Slot <= from)
          BY StartsAssumption
        <5>2. now \in Nat /\ Slot \in Nat /\ from <= now /\ now < g + Slot
          BY <1>1, <2>2, <2>3
        <5> QED BY <5>1, <5>2
      <4>3. g <= last
        <5>1. f \in Nat /\ g \in Nat /\ last \in Nat
          BY <1>1, <4>1
        <5> QED BY <2>3, <4>1, <5>1
      <4> QED BY <2>2, <4>1, <4>2, <4>3 DEF TypeOK, SystemTypeOK
    <3> QED BY <3>1, <3>2
  <2> QED BY <2>2, <2>3 DEF NoHoleAhead
<1>3. CASE cache' = cache
  <2>1. ASSUME NEW g \in Starts, now' < g + Slot PROVE now < g + Slot
    <3>1. g \in Nat
      BY <1>1
    <3> QED BY <1>1, <2>1, <3>1
  <2> QED BY <1>3, <2>1 DEF NoHoleAhead
<1>4. RefreshStep \/ cache' = cache
  BY DEF Next, vars, Tick, Crash, Restart, UserStep, UpsertChatRegion, SetPriceAlert,
         DisablePriceAlert, Fire, SweepStep, StepFails, dbVars,
         ListEnabledPriceAlerts, ReadClock, GetChat, Rates, MarkPriceAlertDispatched,
         Notify, ListFails, GetChatFails, RatesFails, MarkFails, NotifyFails, LocalOnly
<1> QED BY <1>2, <1>3, <1>4

\* Refreshes of any age and horizon leave no hole ahead of the clock.
THEOREM NoHoleAheadHolds == Spec => []NoHoleAhead
<1>1. Spec => []TypeOK
  BY TypeCorrect
<1> QED BY <1>1, InitNoHole, StepNoHole, PTL DEF Spec

\* Half-hours that a sweep will log or announce, unless they have begun, are
\* true starts of a run for the threshold and region the sweep read.
LEMMA RunsInWindowAreTrue ==
    ASSUME TypeOK, NoHoleAhead, NEW r \in Regions, NEW T \in Thresholds, NEW t \in Nat,
           NEW u \in ContiguousRunsBelow(r, T, t), InLeadWindow(u.start, t), now < u.start
    PROVE  RunStart(r, T, u.start)
<1> DEFINE f == u.start
           g == f - Slot
<1>1. /\ f \in Below(r, T, t) /\ g \notin Below(r, T, t)
  BY DEF ContiguousRunsBelow
<1>2. /\ f \in Starts /\ f \in cache[r] /\ Price[r][f] < T
  BY <1>1 DEF Below, Visible, TypeOK, SystemTypeOK
<1>3. ASSUME g \in Starts PROVE Price[r][g] >= T
  <2>1. f \in Nat /\ Slot \in Nat /\ LeadMin \in Nat /\ LeadMax \in Nat /\ now \in Nat
    BY <1>2, StartsAssumption, TimingAssumption DEF TypeOK, SystemTypeOK
  <2>2. 0 < LeadMin /\ LeadMax < Slot
    BY TimingAssumption
  <2>3. g < f /\ g + Slot = f
    BY <2>1, <2>2
  <2>4. g \in cache[r]
    BY <1>2, <1>3, <2>3 DEF NoHoleAhead
  <2>5. g + Slot > t /\ g < t + LeadMax + Slot
    BY <2>1, <2>2, <2>3 DEF InLeadWindow
  <2>6. ~(Price[r][g] < T)
    BY <1>1, <2>4, <2>5 DEF Below, Visible
  <2>7. Price[r][g] \in Int /\ T \in Int
    BY <1>3, EntityAssumption
  <2> QED BY <2>6, <2>7
<1> QED BY <1>2, <1>3 DEF RunStart

\* What a sweep holds changes only when it reads the rates, or shrinks.
Held(s) == due[s] \cup {run[s]}

LEMMA NextAlertHolds ==
    ASSUME TypeOK, NEW s \in Sweeps, NEW rest, NextAlert(s, rest)
    PROVE  /\ pc'[s] \notin {"mark", "notify"}
           /\ \A s2 \in Sweeps : s2 # s => pc'[s2] = pc[s2] /\ cur'[s2] = cur[s2]
                                           /\ Held(s2)' = Held(s2)
BY DEF NextAlert, TypeOK, SweepTypeOK, Held

LEMMA NextRunHolds ==
    ASSUME TypeOK, NEW s \in Sweeps, NEW rest, NextRun(s, rest)
    PROVE  /\ pc'[s] \in {"mark", "notify"} =>
                cur'[s] = cur[s] /\ Held(s)' \subseteq rest \cup {NoRun}
           /\ \A s2 \in Sweeps : s2 # s => pc'[s2] = pc[s2] /\ cur'[s2] = cur[s2]
                                           /\ Held(s2)' = Held(s2)
<1>1. CASE rest = {}
  BY <1>1, NextAlertHolds DEF NextRun
<1>2. CASE rest # {}
  BY <1>2 DEF NextRun, TypeOK, SweepTypeOK, Held
<1> QED BY <1>1, <1>2

Found(s) == {u \in ContiguousRunsBelow(cur[s].region, cur[s].threshold, at[s]) :
               InLeadWindow(u.start, at[s])}

Shrinks(s) == /\ pc[s] \in {"mark", "notify"} /\ cur'[s] = cur[s]
              /\ Held(s)' \subseteq Held(s) \cup {NoRun}

Reads(s) == /\ pc[s] = "rates" /\ cur'[s] = cur[s]
            /\ Held(s)' \subseteq Found(s) \cup {NoRun}

LEMMA HeldKinds ==
    ASSUME Typed, [Next]_vars, NEW s \in Sweeps, pc'[s] \in {"mark", "notify"}
    PROVE  Shrinks(s) \/ Reads(s)
<1> USE DEF Typed, TypeOK
<1>0. ASSUME pc'[s] = pc[s], cur'[s] = cur[s], Held(s)' = Held(s)
      PROVE  Shrinks(s)
  BY <1>0 DEF Shrinks
<1>1. CASE Tick \/ Restart \/ UserStep \/ RefreshStep \/ UNCHANGED vars
  <2>1. UNCHANGED sweepVars
    BY <1>1 DEF Tick, Restart, UserStep, RefreshStep, vars, UpsertChatRegion,
                SetPriceAlert, DisablePriceAlert, UpsertRates, sweepVars
  <2> QED BY <1>0, <2>1 DEF sweepVars, Held
<1>2. CASE Crash
  BY <1>2 DEF Crash
<1>3. ASSUME NEW s0 \in Sweeps, Fire(s0) PROVE Shrinks(s)
  BY <1>0, <1>3 DEF Fire, SweepTypeOK, Held
<1>4. ASSUME NEW s0 \in Sweeps, NEW rest, NextAlert(s0, rest) PROVE Shrinks(s)
  BY <1>0, <1>4, NextAlertHolds
<1>5. ASSUME NEW s0 \in Sweeps, NEW rest \in SUBSET Held(s0), NextRun(s0, rest),
             pc[s0] \in {"mark", "notify"}
      PROVE  Shrinks(s)
  <2>1. CASE s0 = s
    BY <1>5, <2>1, NextRunHolds DEF Shrinks
  <2>2. CASE s0 # s
    BY <1>0, <1>5, <2>2, NextRunHolds
  <2> QED BY <2>1, <2>2
<1>6. ASSUME NEW s0 \in Sweeps, SweepStep(s0) PROVE Shrinks(s) \/ Reads(s)
  <2>1. CASE ListEnabledPriceAlerts(s0) \/ ReadClock(s0)
    BY <1>0, <2>1 DEF ListEnabledPriceAlerts, ReadClock, SweepTypeOK, Held
  <2>2. CASE GetChat(s0)
    <3>1. CASE \E rest : NextAlert(s0, rest)
      BY <1>4, <3>1
    <3>2. CASE ~ \E rest : NextAlert(s0, rest)
      <4>1. /\ pc' = [pc EXCEPT ![s0] = "rates"] /\ UNCHANGED <<due, run>>
            /\ \E t : cur' = [cur EXCEPT ![s0] = t]
        BY <2>2, <3>2 DEF GetChat
      <4> QED BY <1>0, <4>1 DEF SweepTypeOK, Held
    <3> QED BY <3>1, <3>2
  <2>3. CASE Rates(s0)
    <3>1. pc[s0] = "rates" /\ NextRun(s0, Found(s0))
      BY <2>3 DEF Rates, Found
    <3>2. CASE s0 = s
      BY <3>1, <3>2, NextRunHolds DEF Reads
    <3>3. CASE s0 # s
      BY <1>0, <3>1, <3>3, NextRunHolds
    <3> QED BY <3>2, <3>3
  <2>4. CASE MarkPriceAlertDispatched(s0)
    <3>1. PICK u \in due[s0] :
            \/ NextRun(s0, due[s0] \ {u})
            \/ /\ pc' = [pc EXCEPT ![s0] = "notify"]
               /\ due' = [due EXCEPT ![s0] = @ \ {u}]
               /\ run' = [run EXCEPT ![s0] = u]
               /\ UNCHANGED <<at, todo, cur>>
      BY <2>4 DEF MarkPriceAlertDispatched
    <3>2. pc[s0] = "mark" /\ u \in Held(s0) /\ due[s0] \ {u} \in SUBSET Held(s0)
      BY <2>4 DEF MarkPriceAlertDispatched, Held
    <3>3. CASE NextRun(s0, due[s0] \ {u})
      BY <1>5, <3>2, <3>3
    <3>4. CASE ~NextRun(s0, due[s0] \ {u})
      <4>1. CASE s0 = s
        BY <3>1, <3>2, <3>4, <4>1 DEF SweepTypeOK, Shrinks, Held
      <4>2. CASE s0 # s
        BY <1>0, <3>1, <3>4, <4>2 DEF SweepTypeOK, Held
      <4> QED BY <4>1, <4>2
    <3> QED BY <3>3, <3>4
  <2>5. CASE Notify(s0)
    BY <1>5, <2>5 DEF Notify, Held
  <2> QED BY <1>6, <2>1, <2>2, <2>3, <2>4, <2>5 DEF SweepStep
<1>7. ASSUME NEW s0 \in Sweeps, StepFails(s0) PROVE Shrinks(s)
  <2>1. CASE ListFails(s0)
    BY <1>0, <2>1 DEF ListFails, SweepTypeOK, Held
  <2>2. CASE GetChatFails(s0) \/ RatesFails(s0)
    BY <1>4, <2>2 DEF GetChatFails, RatesFails
  <2>3. CASE MarkFails(s0) \/ NotifyFails(s0)
    BY <1>5, <2>3 DEF MarkFails, NotifyFails, Held
  <2> QED BY <1>7, <2>1, <2>2, <2>3 DEF StepFails
<1> QED BY <1>1, <1>2, <1>3, <1>6, <1>7 DEF Next

TruthInv == Typed /\ NoHoleAhead /\ TruthfulStart

LEMMA StepTruth == TruthInv /\ [Next]_vars => TruthInv'
<1> SUFFICES ASSUME TruthInv, [Next]_vars PROVE TruthfulStart'
  BY StepTyped, StepNoHole DEF TruthInv, Typed
<1> SUFFICES ASSUME NEW s \in Sweeps, pc'[s] \in {"mark", "notify"},
                    NEW u \in Held(s)', u # NoRun, now' < u.start
             PROVE  RunStart(cur'[s].region, cur'[s].threshold, u.start)
  BY DEF TruthfulStart, Held, RunStart
<1>1. Typed /\ TypeOK /\ NoHoleAhead /\ TruthfulStart
  BY DEF TruthInv, Typed
<1>2. now < u.start
  <2>1. now \in Nat /\ (now' = now \/ now' = now + 1)
    BY <1>1 DEF TypeOK, SystemTypeOK,
           Next, vars, Tick, Crash, Restart, UserStep, UpsertChatRegion, SetPriceAlert,
           DisablePriceAlert, RefreshStep, UpsertRates, Fire, SweepStep, StepFails,
           ListEnabledPriceAlerts, ReadClock, GetChat, Rates, MarkPriceAlertDispatched,
           Notify, ListFails, GetChatFails, RatesFails, MarkFails, NotifyFails, LocalOnly
  <2>2. u \in Run
    BY <1>1, StepTyped DEF Typed, TypeOK, SweepTypeOK, Held
  <2>3. u.start \in Nat
    BY <2>2, StartsAssumption DEF Run
  <2> QED BY <2>1, <2>3
<1>3. CASE Shrinks(s)
  BY <1>1, <1>2, <1>3 DEF Shrinks, TruthfulStart, Held
<1>4. CASE Reads(s)
  <2>1. u \in Found(s) /\ cur'[s] = cur[s]
    BY <1>4 DEF Reads
  <2>2. cur[s].region \in Regions /\ cur[s].threshold \in Thresholds /\ at[s] \in Nat
    BY <1>1, <1>4 DEF Reads, Typed, TypeOK, SweepTypeOK, LocalsSet, Target
  <2> QED BY <1>1, <1>2, <2>1, <2>2, RunsInWindowAreTrue DEF Found
<1> QED BY <1>1, <1>3, <1>4, HeldKinds

\* The run a message announces before it begins is one that really begins
\* there, although the sweep sees a cut of the rates and the cache moves.
THEOREM TruthfulStartHolds == Spec => []TruthfulStart
<1>1. Init => TruthInv
  BY InitTyped, InitNoHole DEF Init, ProcessInit, TruthInv, TruthfulStart
<1>2. Spec => []TruthInv
  BY <1>1, StepTruth, PTL DEF Spec
<1> QED BY <1>2, PTL DEF TruthInv

-----------------------------------------------------------------------------
(* Alerts and chats.                                                       *)

\* The foreign key of price_alerts, and what it means for a running sweep.
AlertHasChat == \A c \in Chats : alert[c] # Off => region[c] # NoRegion

ChatInv == Typed /\ AlertHasChat /\ ListedChatExists

LEMMA StepChat == ChatInv /\ [Next]_vars => ChatInv'
<1> SUFFICES ASSUME ChatInv, [Next]_vars PROVE AlertHasChat' /\ ListedChatExists'
  BY StepTyped DEF ChatInv
<1> USE DEF ChatInv, Typed, TypeOK
<1>1. \A c \in Chats : region[c] # NoRegion => region'[c] # NoRegion
  BY EntityAssumption
     DEF Next, vars, Tick, Crash, Restart, UserStep, UpsertChatRegion, SetPriceAlert,
         DisablePriceAlert, RefreshStep, UpsertRates, Fire, SweepStep, StepFails, dbVars,
         ListEnabledPriceAlerts, ReadClock, GetChat, Rates, MarkPriceAlertDispatched,
         Notify, ListFails, GetChatFails, RatesFails, MarkFails, NotifyFails, LocalOnly,
         SystemTypeOK
<1>2. \A c \in Chats : alert'[c] # Off => alert[c] # Off \/ region'[c] # NoRegion
  BY DEF Next, vars, Tick, Crash, Restart, UserStep, UpsertChatRegion, SetPriceAlert,
         DisablePriceAlert, RefreshStep, UpsertRates, Fire, SweepStep, StepFails, dbVars,
         ListEnabledPriceAlerts, ReadClock, GetChat, Rates, MarkPriceAlertDispatched,
         Notify, ListFails, GetChatFails, RatesFails, MarkFails, NotifyFails, LocalOnly,
         SystemTypeOK
<1>3. AlertHasChat'
  BY <1>1, <1>2 DEF AlertHasChat
<1>4. \A s \in Sweeps : \A a \in todo'[s] : a \in todo[s] \/ alert[a.chat] # Off
  <2>1. ASSUME NEW s \in Sweeps, NEW rest, NextAlert(s, rest), rest \subseteq todo[s]
        PROVE  \A s2 \in Sweeps : todo'[s2] \subseteq todo[s2]
    BY <2>1 DEF NextAlert, SweepTypeOK
  <2>2. ASSUME NEW s \in Sweeps, NEW rest, NextRun(s, rest)
        PROVE  \A s2 \in Sweeps : todo'[s2] \subseteq todo[s2]
    BY <2>1, <2>2 DEF NextRun
  <2>3. CASE \E s \in Sweeps : ListEnabledPriceAlerts(s)
    BY <2>3 DEF ListEnabledPriceAlerts, SweepTypeOK
  <2>4. CASE \E s \in Sweeps : GetChat(s)
    <3>1. PICK s \in Sweeps : GetChat(s)
      BY <2>4
    <3>2. PICK a \in todo[s] : \/ NextAlert(s, todo[s] \ {a})
                              \/ todo' = [todo EXCEPT ![s] = @ \ {a}]
      BY <3>1 DEF GetChat
    <3> QED BY <2>1, <3>2 DEF SweepTypeOK
  <2>5. CASE \E s \in Sweeps : \/ StepFails(s) \/ Rates(s) \/ Notify(s)
                               \/ MarkPriceAlertDispatched(s)
    <3>1. PICK s \in Sweeps : \/ UNCHANGED todo
                              \/ \E rest : NextRun(s, rest)
                              \/ \E rest : NextAlert(s, rest) /\ rest \subseteq todo[s]
      BY <2>5 DEF StepFails, ListFails, GetChatFails, RatesFails, MarkFails, NotifyFails,
                  Rates, Notify, MarkPriceAlertDispatched
    <3> QED BY <2>1, <2>2, <3>1
  <2>6. CASE \/ Tick \/ Crash \/ Restart \/ UserStep \/ RefreshStep \/ UNCHANGED vars
             \/ \E s \in Sweeps : Fire(s) \/ ReadClock(s)
    BY <2>6 DEF Tick, Crash, Restart, UserStep, RefreshStep, UpsertChatRegion, SetPriceAlert,
                DisablePriceAlert, UpsertRates, Fire, ReadClock, vars, sweepVars
  <2> QED BY <2>3, <2>4, <2>5, <2>6 DEF Next, SweepStep
<1>5. ListedChatExists'
  <2> SUFFICES ASSUME NEW s \in Sweeps, NEW a \in todo'[s]
               PROVE  region'[a.chat] # NoRegion
    BY DEF ListedChatExists
  <2>1. a.chat \in Chats
    BY StepTyped DEF SweepTypeOK, Alert
  <2>2. region[a.chat] # NoRegion
    BY <1>4, <2>1 DEF AlertHasChat, ListedChatExists
  <2> QED BY <1>1, <2>1, <2>2
<1> QED BY <1>3, <1>5

\* A sweep never works on an alert whose chat has no row (or no region).
THEOREM ListedChatExistsHolds == Spec => []ListedChatExists
<1>1. Init => ChatInv
  BY InitTyped DEF Init, ProcessInit, ChatInv, AlertHasChat, ListedChatExists
<1>2. Spec => []ChatInv
  BY <1>1, StepChat, PTL DEF Spec
<1> QED BY <1>2, PTL DEF ChatInv
=============================================================================
