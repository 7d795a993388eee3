------------------------ MODULE RateRefreshProperties -----------------------
(***************************************************************************)
(* What the refreshes owe the chats, and the cache its readers.            *)
(***************************************************************************)
EXTENDS RateRefresh

\* Rates a reader finds for a chat cover everything from half-hour f to u.
Covered(c, f, u) == (f..u) \cap (now..u) \subseteq Rates(c)

\* When a refresh succeeds - for the daily job that is when it dispatches the
\* charge plans - every chat it was made for, and that has not moved since, is
\* answered from all that was published when it began: no region was passed
\* over, whichever calls failed in earlier tries, whatever half-hours went by,
\* and whoever moved meanwhile.
RefreshServesAll ==
    \A p \in Refreshers : pc[p] = "done" =>
        \A c \in stay[p] : Covered(c, now, asof[p])

\* A change of region that met no failure leaves the chat with the rate of a
\* half-hour that was under way during the change, if that was published: also
\* where it fetched nothing because it found some rate of the next hour or so.
RegionIsPrimed ==
    \A s \in Setters : pc[s] = "done" =>
        \A c \in stay[s] :
            from[s] <= asof[s] => cache[ResolveChat(c)] \cap from[s]..now # {}

\* The rates ahead of the clock have no hole: the cheapest window and the runs
\* of cheap half-hours are looked for in a gapless stretch from now on.
NoHoleAhead == \A r \in Regions : \A s \in cache[r] : now..s \subseteq cache[r]

\* The cache is filled as its readers' models assume.
Abstract == INSTANCE RateCache
FillsAsPromised == Abstract!Spec

\* The n-th try of the daily job does not start before the delays that precede
\* it are over: the delays double, up to the longest.
PowerOfTwo[k \in Nat] == IF k = 0 THEN 1 ELSE 2 * PowerOfTwo[k - 1]

Delay(k) == IF PowerOfTwo[k] <= MaxBackoff THEN PowerOfTwo[k] ELSE MaxBackoff

Delays[n \in Nat] == IF n <= 1 THEN 0 ELSE Delays[n - 1] + Delay(n - 2)

TriesAreSpaced ==
    Calling(Daily) => \/ Delays[attempt] <= elapsed
                      \/ Deadline < elapsed

\* A run of the daily job ends, whatever fails: with the dispatch, or given up
\* after its hour.
JobEnds == pc[Daily] # "idle" ~> pc[Daily] = "idle"
=============================================================================
