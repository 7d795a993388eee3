------------------------- MODULE PriceAlertsSteady -------------------------
(***************************************************************************)
(* PriceAlerts in a deployment in order, where it may miss no run.  The    *)
(* process starts on an existing database; calls do not fail; rates are    *)
(* published before a lead window reaches them; a sweep reads its clock in *)
(* the minute it was started in (it may take longer for the rest, and      *)
(* overlap the next); and the process may be down between sweeps, as often *)
(* as it likes, if two sweeps start no further apart than the lead window  *)
(* is wide: the brief outage the window was "picked wider than 10m" for.   *)
(***************************************************************************)
EXTENDS PriceAlertsProperties

\* A minute between sweeps, and three from one end of the lead window to the other.
ASSUME SteadyAssumption == Period <= LeadMax - LeadMin

VARIABLE lastFire   \* history: when the last sweep was started

steadyVars == <<vars, lastFire>>

SteadyInit == /\ ProcessInit /\ lastFire = 0
              /\ region \in [Chats -> Regions]
              /\ alert \in [Chats -> Thresholds]
              /\ \E last \in Starts :
                   cache = [r \in Regions |-> {f \in Starts : f <= last}]

\* A sweep that starts at t comes in time after the last one.
InTime(t) == t - lastFire <= LeadMax - LeadMin

SteadyTick == /\ Tick
              /\ \A s \in Sweeps : pc[s] \notin {"list", "stamp"}
              /\ ~up => InTime(now + 1 + Period)

SteadyCrash == /\ Crash
               /\ \A s \in Sweeps : pc[s] = "idle"
               /\ InTime(now + Period)

SteadyRefresh == \E r \in Regions, from, last \in Starts :
                   /\ UpsertRates(r, from, last)
                   /\ \A f \in cache'[r] \ cache[r] : now + LeadMax < f

SteadyNext == \/ /\ \/ SteadyTick \/ SteadyCrash \/ Restart \/ SteadyRefresh
                    \/ \E s \in Sweeps : SweepStep(s)
                 /\ UNCHANGED lastFire
              \/ /\ \E s \in Sweeps : Fire(s)
                 /\ lastFire' = now

SteadySpec == SteadyInit /\ [][SteadyNext]_steadyVars

\* No run is missed: once the lead window of a published run has passed, its
\* chat has been told of it once, or a sweep that saw it in time is at work.
NoMiss ==
    \A c \in Chats : \A f \in cache[region[c]] :
        /\ RunStart(region[c], alert[c], f)
        /\ LeadMax <= f /\ f < now + LeadMin
        => \/ delivered[<<c, f>>] = 1
           \/ \E s \in Sweeps : pc[s] # "idle" /\ InLeadWindow(f, at[s])
=============================================================================
