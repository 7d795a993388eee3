------------------------------ MODULE CheapRuns -----------------------------
(***************************************************************************)
(* What the bot makes of rates and a threshold: the runs of half-hours     *)
(* below it, as price alerts announce them (service.contiguousRunsBelow),  *)
(* and the next half-hour below it (agile.NextBelowThreshold).  Both are   *)
(* one pass over half-hours in order, here those that CheapestWindow keeps.*)
(***************************************************************************)
EXTENDS CheapestWindow, SequencesExt

NoRun  == [slots |-> 0]
NoRate == 0

\* The pass is at half-hour k: out are the runs that are complete, cur is the
\* one under way.  The sum of a run stands for its mean.
Flush(s) == IF s.cur = NoRun THEN s.out ELSE Append(s.out, s.cur)

Lengthen(r, k) == [start |-> r.start, end |-> filt[k] + Slot,
                   slots |-> r.slots + 1, sum |-> r.sum + PriceOf(k),
                   min |-> IF PriceOf(k) < r.min THEN PriceOf(k) ELSE r.min]

FirstOf(k) == [start |-> filt[k], end |-> filt[k] + Slot,
               slots |-> 1, sum |-> PriceOf(k), min |-> PriceOf(k)]

\* Mutant: a half-hour below the threshold goes on with the run, gap or not.
AfterRateAcrossGaps(s, k, T) ==
    IF ~(PriceOf(k) < T) THEN [out |-> Flush(s), cur |-> NoRun]
    ELSE IF s.cur # NoRun THEN [s EXCEPT !.cur = Lengthen(@, k)]
    ELSE [out |-> Flush(s), cur |-> FirstOf(k)]

AfterRate(s, k, T) ==
    IF ~(PriceOf(k) < T) THEN [out |-> Flush(s), cur |-> NoRun]
    ELSE IF Follows(k) /\ s.cur # NoRun THEN [s EXCEPT !.cur = Lengthen(@, k)]
    ELSE [out |-> Flush(s), cur |-> FirstOf(k)]

ContiguousRunsBelow(T) ==
    LET after[k \in 0..Len(filt)] == IF k = 0 THEN [out |-> <<>>, cur |-> NoRun]
                                     ELSE AfterRate(after[k - 1], k, T)
    IN  Flush(after[Len(filt)])

\* Mutant: the half-hour under way has begun, and is taken to be over.
NextNotBegun(T, t) ==
    SelectInSeq(filt, LAMBDA f : f > t /\ rate[f] < T)

\* The index of the first half-hour that is not over at t, or NoRate.
NextBelowThreshold(T, t) ==
    SelectInSeq(filt, LAMBDA f : f + Slot > t /\ rate[f] < T)
=============================================================================
