--------------------------- MODULE CheapestWindow ---------------------------
(***************************************************************************)
(* agile.CheapestWindow, statement by statement: the half-hours that lie   *)
(* in [from, to] are put in order, and one pass over them slides a window  *)
(* of the asked length, starting anew after every gap.                     *)
(*                                                                         *)
(* Time is counted in any unit that divides a half-hour, and prices are    *)
(* exact: the rounding of the floating-point running sum is left out.      *)
(* Indices start at 1, and 0 stands for the code's -1.                     *)
(***************************************************************************)
EXTENDS Integers, Sequences, FiniteSets

CONSTANTS Slot,       \* length of a half-hour
          Starts,     \* when half-hours may start (bound)
          Prices,     \* what they may cost (bound)
          Intervals,  \* the <<from, to>> callers may ask about (bound)
          Durations,  \* the durations they may ask for (bound)
          Inf         \* math.Inf(1)

ASSUME WindowAssumption == /\ Slot \in Nat \ {0}
                           /\ Starts \subseteq Int /\ IsFiniteSet(Starts)
                           /\ Prices \subseteq Int
                           /\ Intervals \subseteq Int \X Int
                           /\ Durations \subseteq Int
                           /\ Inf \notin Int
\* Half-hours do not overlap.
ASSUME StartsAssumption == \A f, g \in Starts : f < g => f + Slot <= g

VARIABLES rate, interval, duration,    \* the arguments; rate: start -> price
          slots, filt,                 \* half-hours asked for; those kept, in order
          pc, i, runStart, sum,        \* the pass
          bestStart, bestSum, result,  \* what it found
          cum                          \* history: cum[k] is the price of filt[1..k]

argVars  == <<rate, interval, duration>>
bestVars == <<bestStart, bestSum>>
vars     == <<argVars, slots, filt, pc, i, runStart, sum, bestVars, result, cum>>

From == interval[1]
To   == interval[2]

\* (Mutant of Kept: the last half-hour before the end is dropped.)
KeptBeforeEnd == {f \in DOMAIN rate : From <= f /\ f + Slot < To}

\* A cached half-hour is kept if it lies in the interval.
Kept == {f \in DOMAIN rate : From <= f /\ f + Slot <= To}

PriceOf(k) == rate[filt[k]]

ArgTypeOK  == /\ \E S \in SUBSET Starts : rate \in [S -> Prices]
              /\ interval \in Intervals /\ duration \in Durations
FiltTypeOK == slots \in Nat /\ filt \in Seq(Kept)
PassTypeOK == /\ i \in 0..Len(filt) /\ runStart \in 1..(i + 1) /\ sum \in Int
              /\ cum \in [0..i -> Int]
BestTypeOK == bestStart \in 0..Len(filt) /\ bestSum \in Int \cup {Inf}

TypeOK == /\ ArgTypeOK /\ FiltTypeOK /\ PassTypeOK /\ BestTypeOK
          /\ pc \in {"start", "filter", "add", "shrink", "done"}
          /\ result \in {"", "empty range", "no rates", "too long", "found"}

\* The rates table has one row per start of a half-hour.
Init == /\ rate \in UNION {[S -> Prices] : S \in SUBSET Starts}
        /\ interval \in Intervals /\ duration \in Durations
        /\ slots = 0 /\ filt = <<>>
        /\ pc = "start" /\ i = 0 /\ runStart = 1 /\ sum = 0
        /\ bestStart = 0 /\ bestSum = Inf /\ result = ""
        /\ cum = [k \in {0} |-> 0]

-----------------------------------------------------------------------------
\* (Mutant of RoundUpToSlot: a duration of no length is left alone.)
RoundUpNothing(d) == IF (d % Slot) # 0 THEN d + (Slot - (d % Slot)) ELSE d

RoundUpToSlot(d) == IF d <= 0 THEN Slot
                    ELSE IF (d % Slot) # 0 THEN d + (Slot - (d % Slot))
                    ELSE d

\* The sequences of all members of S in ascending order: there is one.
Ascending(S) == {s \in [1..Cardinality(S) -> S] :
                   /\ \A k, l \in 1..Cardinality(S) : k < l => s[k] < s[l]
                   /\ \A f \in S : \E k \in 1..Cardinality(S) : s[k] = f}

Return(r) == pc' = "done" /\ result' = r

CheckRange == /\ pc = "start"
              /\ IF To <= From
                 THEN Return("empty range") /\ UNCHANGED slots
                 ELSE /\ pc' = "filter" /\ UNCHANGED result
                      /\ slots' = RoundUpToSlot(duration) \div Slot
              /\ UNCHANGED <<argVars, filt, i, runStart, sum, bestVars, cum>>

FilterAndSort == /\ pc = "filter"
                 /\ filt' \in Ascending(Kept)
                 /\ IF filt' = <<>> THEN Return("no rates")
                    ELSE IF Len(filt') < slots THEN Return("too long")
                    ELSE pc' = "add" /\ UNCHANGED result
                 /\ UNCHANGED <<argVars, slots, i, runStart, sum, bestVars, cum>>

\* Does the half-hour filt[k] follow on the one before it?
Follows(k) == k > 1 /\ filt[k] = filt[k - 1] + Slot

\* (Mutant of Add: a gap does not end the run.)
AddAcrossGaps == /\ pc = "add" /\ i < Len(filt)
                 /\ i' = i + 1
                 /\ UNCHANGED runStart /\ sum' = sum + PriceOf(i + 1)
                 /\ cum' = [k \in 0..(i + 1) |-> IF k <= i THEN cum[k]
                                                 ELSE cum[i] + PriceOf(i + 1)]
                 /\ pc' = "shrink"
                 /\ UNCHANGED <<argVars, slots, filt, bestVars, result>>

\* The next half-hour: after a gap the run starts with it.
Add == /\ pc = "add" /\ i < Len(filt)
       /\ i' = i + 1
       /\ IF Follows(i + 1) \/ i = 0
          THEN UNCHANGED runStart /\ sum' = sum + PriceOf(i + 1)
          ELSE runStart' = i + 1 /\ sum' = PriceOf(i + 1)
       /\ cum' = [k \in 0..(i + 1) |-> IF k <= i THEN cum[k]
                                       ELSE cum[i] + PriceOf(i + 1)]
       /\ pc' = "shrink"
       /\ UNCHANGED <<argVars, slots, filt, bestVars, result>>

Length == i - runStart + 1

\* The inner loop: half-hours leave at the front.
Shrink == /\ pc = "shrink" /\ Length > slots
          /\ sum' = sum - PriceOf(runStart)
          /\ runStart' = runStart + 1
          /\ UNCHANGED <<argVars, slots, filt, pc, i, bestVars, result, cum>>

Better(s) == bestSum = Inf \/ s < bestSum

Compare == /\ pc = "shrink" /\ Length <= slots
           /\ IF Length = slots /\ Better(sum)
              THEN bestStart' = runStart /\ bestSum' = sum
              ELSE UNCHANGED bestVars
           /\ pc' = "add"
           /\ UNCHANGED <<argVars, slots, filt, i, runStart, sum, result, cum>>

Finish == /\ pc = "add" /\ i = Len(filt)
          /\ Return(IF bestStart = 0 THEN "too long" ELSE "found")
          /\ UNCHANGED <<argVars, slots, filt, i, runStart, sum, bestVars, cum>>

Next == CheckRange \/ FilterAndSort \/ Add \/ Shrink \/ Compare \/ Finish

Spec == Init /\ [][Next]_vars
=============================================================================
