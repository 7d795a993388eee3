------------------------- MODULE CheapRunsProperties ------------------------
(***************************************************************************)
(* What the passes of CheapRuns find, for every threshold that tells the   *)
(* prices apart.                                                           *)
(***************************************************************************)
EXTENDS CheapRuns, CheapestWindowProperties

Thresholds == Prices \cup {p + 1 : p \in Prices}

Given == pc = "add" /\ i = 0

Below(T) == {filt[k] : k \in {l \in 1..Len(filt) : PriceOf(l) < T}}

\* The n half-hours from f on are all there and below T, and those next to them
\* are not: what PriceAlerts takes for a run.
IsBlock(f, n, T) == /\ Stretch(f, n) \subseteq Below(T)
                    /\ f - Slot \notin Below(T) /\ f + n * Slot \notin Below(T)

\* The runs announced are the maximal gapless blocks of half-hours below the
\* threshold, each once and in order, with the number, the total and the least
\* price of their half-hours.
RunsAreMaximal ==
    Given => \A T \in Thresholds :
        LET runs == ContiguousRunsBelow(T)
        IN  /\ \A k, l \in 1..Len(runs) : k < l => runs[k].end < runs[l].start
            /\ {<<runs[k].start, runs[k].slots>> : k \in 1..Len(runs)} =
               {b \in Below(T) \X (1..Len(filt)) : IsBlock(b[1], b[2], T)}
            /\ \A k \in 1..Len(runs) :
                  LET r == runs[k]  H == Stretch(r.start, r.slots)
                  IN  /\ r.end = r.start + r.slots * Slot
                      /\ r.sum = Total(r.start, r.slots)
                      /\ r.min \in {rate[h] : h \in H}
                      /\ \A h \in H : r.min <= rate[h]

\* What the bot answers to "next" agrees with the runs it announces: the half-hour
\* is in the first run that is not over, and is its start or the one under way.
NextAgreesWithRuns ==
    Given => \A T \in Thresholds, t \in From..To :
        LET runs  == ContiguousRunsBelow(T)
            ahead == {j \in 1..Len(runs) : runs[j].end > t}
            k     == NextBelowThreshold(T, t)
        IN  IF ahead = {} THEN k = NoRate
            ELSE \E j \in ahead :
                   /\ \A l \in ahead : j <= l
                   /\ k # NoRate
                   /\ runs[j].start <= filt[k] /\ filt[k] < runs[j].end
                   /\ filt[k] = runs[j].start \/ filt[k] <= t
=============================================================================
