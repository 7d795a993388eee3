----------------------------- MODULE RateCache -----------------------------
(***************************************************************************)
(* What everything that reads the rates table may count on, whoever fills  *)
(* it and in whatever order the fills land: a fill stores, for one region, *)
(* a gapless stretch of published half-hours that begins no later than the *)
(* half-hour under way, and nothing is ever taken out.  Price alerts and   *)
(* charge plans are modelled against such a cache.                         *)
(***************************************************************************)
EXTENDS Naturals

CONSTANTS Regions, \* the regions whose rates are kept
          Last     \* the last half-hour looked at

VARIABLES now,       \* the half-hour under way
          published, \* Octopus has published the half-hours up to this one
          cache      \* the half-hours kept for each region

vars == <<now, published, cache>>

Init == /\ now = 0
        /\ published \in 0..Last
        /\ cache = [r \in Regions |-> {}]

HalfHour == /\ now' = now + 1
            /\ UNCHANGED <<published, cache>>

Publish == /\ published' \in (published + 1)..Last
           /\ UNCHANGED <<now, cache>>

Fill(r) == /\ \E f \in 0..now, u \in 0..published :
                cache' = [cache EXCEPT ![r] = @ \cup f..u]
           /\ UNCHANGED <<now, published>>

Next == HalfHour \/ Publish \/ \E r \in Regions : Fill(r)

Spec == Init /\ [][Next]_vars
=============================================================================
