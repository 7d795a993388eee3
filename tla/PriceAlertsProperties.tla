----------------------- MODULE PriceAlertsProperties -----------------------
(***************************************************************************)
(* What the price-alert sweep must and must not do.  (PriceAlertsSteady:   *)
(* that it misses no run when nothing fails.)                              *)
(***************************************************************************)
EXTENDS PriceAlerts

\* Sweep s has logged (c, f) and not yet sent, nor failed to.
InFlight(s, c, f) == pc[s] = "notify" /\ cur[s].chat = c /\ run[s].start = f

\* The half-hour f is where a run below T really starts in region r: it is
\* below T, and the half-hour before it (if it is modelled) is not.
RunStart(r, T, f) == /\ Price[r][f] < T
                     /\ f - Slot \in Starts => Price[r][f - Slot] >= T

\* No chat is sent two messages about one run start: however sweeps overlap,
\* users edit, and the process crashes between the log row and the send.
AtMostOnce == \A k \in Keys : delivered[k] <= 1

\* The log row is the claim to a message: while a sweep holds it, nobody has
\* sent that message and no other sweep holds it.
ExclusiveClaim ==
    \A s \in Sweeps, c \in Chats, f \in Starts : InFlight(s, c, f) =>
        /\ <<c, f>> \in log /\ delivered[<<c, f>>] = 0
        /\ \A s2 \in Sweeps : InFlight(s2, c, f) => s2 = s

\* Whatever order refreshes of different ages land in, the cache of a region
\* has no hole between the current half-hour and the last one it holds.
\* (The sweep takes a hole for the end of a run.)
NoHoleAhead ==
    \A r \in Regions : \A f \in cache[r], g \in Starts :
        g < f /\ now < g + Slot => g \in cache[r]

\* A run a sweep is about to log or announce, as long as it has not begun, is
\* one of the prices Octopus published: its first half-hour is below the
\* threshold the sweep read and the half-hour before it is not, although the
\* sweep sees only a part of the rates and only a cut of the run.
TruthfulStart ==
    \A s \in Sweeps : pc[s] \in {"mark", "notify"} =>
        \A u \in due[s] \cup {run[s]} : u # NoRun /\ now < u.start =>
            RunStart(cur[s].region, cur[s].threshold, u.start)

\* Every alert a sweep works through belongs to a chat that has a row: the
\* foreign key holds when the alert is set, and chats are never deleted.
ListedChatExists ==
    \A s \in Sweeps : \A a \in todo[s] : region[a.chat] # NoRegion

\* Logging a run is final: no step of sweeps, users or restarts takes a row
\* back, and no message is sent but by the step that ends a claim.
ClaimBeforeSend ==
    [][ /\ log \subseteq log'
        /\ \A k \in Keys : delivered'[k] # delivered[k] =>
             /\ delivered'[k] = delivered[k] + 1
             /\ \E s \in Sweeps : InFlight(s, k[1], k[2]) /\ ~InFlight(s, k[1], k[2])' ]_vars

\* The sweep implements OnceOnly: a (chat, start) is settled once it is logged
\* and no sweep holds it any more, by a message, a failed send or a crash.
Settled == {k \in log : \A s \in Sweeps : ~InFlight(s, k[1], k[2])}
Promise == INSTANCE OnceOnly WITH settled <- Settled
ImplementsOnceOnly == Promise!Spec

\* A sweep ends, whatever users do to the alerts it is working through, and
\* whichever of its calls fail.
SweepEnds == \A s \in Sweeps : pc[s] # "idle" ~> pc[s] = "idle"

-----------------------------------------------------------------------------
(* What the repository's texts say and the code does not do.               *)

\* README, point 3: "it groups the upcoming rates into contiguous runs below
\* the user's threshold".  The run announced ends where the cached rates stop
\* being below the threshold.
AnnouncesWholeRun ==
    \A s \in Sweeps : pc[s] = "notify" =>
        ~ (/\ run[s].end \in cache[cur[s].region]
           /\ Price[cur[s].region][run[s].end] < cur[s].threshold)
=============================================================================
