---------------------- MODULE CheapestWindowProperties ----------------------
(***************************************************************************)
(* What CheapestWindow returns, and the invariant of its loop.             *)
(***************************************************************************)
EXTENDS CheapestWindow

\* The half-hours filt[a..b] follow on one another.
Linked(a, b) == \A k \in (a + 1)..b : Follows(k)

\* As many half-hours as asked for, without a gap, from filt[a] on.
IsWindow(a) == /\ a \in 1..Len(filt) /\ a + slots - 1 <= Len(filt)
               /\ Linked(a, a + slots - 1)

Cost(a) == cum[a + slots - 1] - cum[a - 1]

\* Of the windows that end at filt[e] or before, the best is the cheapest, and
\* the earliest of the cheapest.
BestUpTo(e) ==
    \/ /\ bestStart = 0 /\ bestSum = Inf
       /\ \A a \in 1..Len(filt) : a + slots - 1 <= e => ~IsWindow(a)
    \/ /\ bestStart # 0 /\ bestSum \in Int
       /\ IsWindow(bestStart) /\ bestStart + slots - 1 <= e
       /\ bestSum = Cost(bestStart)
       /\ \A a \in 1..Len(filt) : IsWindow(a) /\ a + slots - 1 <= e =>
             \/ bestSum < Cost(a)
             \/ bestSum = Cost(a) /\ bestStart <= a

\* The window of the pass is filt[runStart..i]: it has no gap, sum is its price,
\* and it is short of the asked length only if a gap or the first half-hour is
\* right before it.
PassInv == pc \in {"add", "shrink"} =>
    /\ slots >= 1
    /\ Linked(runStart, i)
    /\ sum = cum[i] - cum[runStart - 1]
    /\ i < runStart => pc = "add" /\ i = 0
    /\ Length < slots => runStart = 1 \/ ~Follows(runStart)
    /\ pc = "add" => Length <= slots

\* Once the pass has compared a half-hour, the best window up to it is known.
BestInv == /\ pc = "add" => BestUpTo(i)
           /\ pc = "shrink" => BestUpTo(i - 1)

-----------------------------------------------------------------------------
(* What is returned, in terms of times and prices: no indices, no history. *)

\* The n half-hours from f on, and what they cost together.
Stretch(f, n) == {f + k * Slot : k \in 0..(n - 1)}

Total(f, n) == LET sumOf[m \in 0..n] ==
                       IF m = 0 THEN 0 ELSE sumOf[m - 1] + rate[f + (m - 1) * Slot]
               IN  sumOf[n]

Fits(f) == /\ Stretch(f, slots) \subseteq DOMAIN rate
           /\ From <= f /\ f + slots * Slot <= To

\* CheapestWindow returns the cheapest window: its half-hours are as many as
\* cover the asked duration and not one more, they are cached and inside the
\* asked interval, and no others that are cost less in total.
ReturnsTheCheapest ==
    result = "found" =>
        LET best == filt[bestStart]
        IN  /\ duration <= slots * Slot
            /\ slots > 1 => (slots - 1) * Slot < duration
            /\ Fits(best) /\ Total(best, slots) = bestSum
            /\ \A f \in DOMAIN rate : Fits(f) =>
                  \/ bestSum < Total(f, slots)
                  \/ bestSum = Total(f, slots) /\ best <= f

\* An answer without a window is only given when none fits.
RefusesOnlyMisfits ==
    result \in {"no rates", "too long"} => \A f \in DOMAIN rate : ~Fits(f)
=============================================================================
