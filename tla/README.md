# octopus-agile-bot: a TLA+ verification project

The bot tells people when electricity is cheap: it keeps the half-hourly Agile
prices of Octopus Energy in SQLite, announces cheap runs ten minutes ahead
(price alerts), picks tonight's charging window once a day (charge plans), and
answers questions over Telegram and a web API. This directory holds its formal
models, what TLC checks about them and what TLAPS proves. Paths such as
`service.go` are short for `src/internal/service/service.go`.

## The system

| Component | State | Operations | Modelled in |
|---|---|---|---|
| Price alerts (`service.go` 453-591, one-minute job of `scheduler.go`) | `price_alerts`, `price_alert_log`; the sweep's locals | set, disable, sweep: list, clock, chat, rates, mark, notify | `PriceAlerts`, `PriceAlertsSteady` |
| Charge plans (`service.go` 382-413, 780-849, daily job of `scheduler.go`) | `charge_plans`, `charge_dispatch_log`; the job's locals | create, cancel, daily run: refresh, list, clock, window, mark, notify | `ChargePlans` |
| Cheapest window (`agile/window.go`) | none (pure) | one pass over the sorted rates | `CheapestWindow` |
| Queries and charge planner (`service.go` 275-356, `window.go`) | none (they read) | cheapest window, rates, next half-hour below a threshold, instant charge | `CheapestWindow`, `CheapRuns`, `ChargePlanner`, `RateRefresh` |
| Rate cache and refresh (`service.go` 227-254, 743-778) | `rates`, `chats.region`; the job's timers | daily refresh with retries, refresh at start, change of region with priming | `RateRefresh`, `RateCache` |
| Subscriptions (`service.go` 358-380, 851-873; `scheduler.go` 138-182) | `subscriptions`, the scheduler's jobs | set, remove, registration at start, daily push | `Subscriptions` |
| Octopus account link (`service.go` 593-724) | four columns of `chats` | link, unlink, consumption with backfill, and `SetRegion`'s write | `AccountLink` |
| Scheduler (`scheduler.go`) | jobs and their next runs | start, fire, retry | in all models with a clock |
| App (`app.go`) | process up or down | start, start-up refresh, crash | in all models with a clock |
| Storage (`store.go`, migrations) | the tables | one statement or transaction per call | in all models |
| Telegram, HTTP API, web UI | none that matters here | parse, call one service operation, answer | users' steps |
| Octopus client | none | product and rates | by what they return, in `RateRefresh` |
| Sessions, login check, key encryption, config | none | pure, or I/O only | not modelled |

**How they interact.** Everything runs in one process with one database.
The gocron scheduler starts goroutines: the daily job at 16:15 local time, the
price-alert sweep every minute (without singleton mode, so a slow sweep runs
beside the next), one job per subscription. Telegram updates and HTTP requests
run beside them. They share nothing but SQLite, and every storage call is one
statement or one transaction; the service holds no lock between two calls.
That fixes the grain of the models: **one step is one storage call, one read of
the clock, one call to Octopus or one send**, and whatever the Go code does
with its locals in between belongs to the step before it.

**What is hard.**
- A dispatcher logs a subject first and sends afterwards. A crash or a failed
  send in between must not lead to a second message (it does lose one).
- Two sweeps at work at once look at overlapping lead windows.
- A sweep sees a cut of the rates and a cache that refreshes of different ages
  are writing to, and concludes where a run of cheap half-hours starts.
- The lead window (9 to 12 minutes) has to survive late sweeps and restarts.
- A day in London is not a day in UTC, and two days a year have 23 or 25 hours.
- Users cancel and re-create what a running job has listed.
- Requests of one user read a row, wait for Octopus, and write to the row.
- A refresh lists the regions once, then fetches them one by one while half-hours
  pass, Octopus publishes, chats move to other regions, and calls fail; and three
  kinds of goroutine refresh beside each other.
- Subscription jobs are made at start and live on while the rows they were made
  from change and go.

`PROJECT.json` lists the hazards one by one, each at its line with the
properties that would catch it.

## What each component owes

- *Price alerts*: a run is announced to a chat at most once; what is announced
  is really the start of a run below the chat's threshold; in a deployment in
  order none is missed; a sweep ends.
- *Charge plans*: a plan is announced at most once a day; it is passed over only
  because it was announced; a new plan is not mistaken for a cancelled one; and what fails for
  one plan is not missed by the others.
- *Cheapest window*: the window is gapless, long enough, inside the interval,
  and none is cheaper; an error means there is none.
- *Runs and the next cheap half-hour*: the runs announced are the maximal gapless
  cheap blocks, and `/next` agrees with them.
- *Instant charge*: the deadline is the next time the clock shows the time asked for.
- *Rate cache*: no hole ahead of the clock; a refresh that succeeds has served every
  chat it was for; a chat that moves finds a current rate; tries keep their delays, and
  the job ends.
- *Subscriptions*: nothing is sent that was not asked for, nothing twice, and one who
  leaves the subscription alone is served each day.
- *Account link*: the last thing a user did to the link stays done, up to the two races
  named below; account, key and meter belong together; a link reported is stored.

## The modules

| Module | What it is |
|---|---|
| `OnceOnly` | abstract: a subject is settled once, and a message about it is sent at most when it is settled |
| `PriceAlerts` | the sweep, the tables, users, refreshes, crash and restart |
| `PriceAlertsProperties` | its properties and its refinement of `OnceOnly` |
| `PriceAlertsSteady` | the same actions in a deployment in order, with a bound on outages: `NoMiss` |
| `LocalTime` | civil time in one zone over one stretch of summer time, as Go's `time` computes it |
| `ChargePlans` | the daily job, plans, dispatch log, crash and restart |
| `ChargePlansProperties` | its properties, its refinement of `OnceOnly`, and `CalmSpec` (no crash, failures for one plan only, a fair job) |
| `CheapestWindow` | `agile.CheapestWindow`, statement by statement |
| `ChargePlanner` | the deadline of an instant charge (its property is in `ChargePlansProperties`) |
| `CheapestWindowProperties` | its loop invariant, and what it returns in terms of times and prices |
| `CheapRuns` | the two passes over sorted rates with a threshold: `contiguousRunsBelow` and `agile.NextBelowThreshold` |
| `CheapRunsProperties` | what they find, against sets of half-hours, and that they agree |
| `RateCache` | abstract: what the readers of the rates table may count on |
| `RateRefresh` | the daily refresh with its retries, the refresh at start, the change of region |
| `RateRefreshProperties` | what they owe the chats, and the refinement of `RateCache` |
| `Subscriptions` | the table, the scheduler's jobs and their runs |
| `SubscriptionsProperties` | what is owed to subscribers, and the refinement of `OnceOnly` |
| `AccountLink` | requests that link, unlink and ask for consumption, statement by statement |
| `AccountLinkProperties` | what they may do to each other's work |
| `MC...` and `*.cfg` | small instances for TLC |
| `...Proofs` | theorems checked by TLAPS |
| `Induction` | facts about numbers that the proofs share: a least element, induction over a set, functions defined by recursion |

Operators whose comment starts with "Mutant" are plausible bugs. No
specification uses them: each can be put in the place of the operator after it
and then breaks a property, which shows that the property depends on the code.

### PriceAlerts and the code

| TLA+ | Code |
|---|---|
| `region`, `alert` | `chats.region`, `price_alerts` (`NoRegion`, `Off`: no row) |
| `cache`, `Price` | `rates`: the half-hours held per region; a published price does not change |
| `log` | `price_alert_log` |
| `delivered` | messages that reached the chat (no state of the code) |
| `pc, at, todo, cur, due, run` | locals of each running `DispatchPriceAlerts` |
| `Fire` | the one-minute `DurationJob` |
| `ListEnabledPriceAlerts`, `ReadClock`, `GetChat`, `Rates`, `MarkPriceAlertDispatched`, `Notify` | the calls of the sweep, in order; `...Fails` are their error branches (`return` for the list, `continue` for the others) |
| `ContiguousRunsBelow` | `contiguousRunsBelow`, as the set of maximal blocks of what `Visible` returns |
| `UpsertChatRegion`, `SetPriceAlert`, `DisablePriceAlert` | the commands and routes; without a chat row the foreign key refuses an alert |
| `UpsertRates` | the transaction of any refresh; `from` may be older than `now`, because the request was made in an earlier half-hour |
| `Crash`, `Restart` | the database survives, goroutines do not; the job is registered anew |

A send that fails for the bot but reaches the chat is the step `Notify` too:
the sweep does the same after either answer.

### ChargePlans and the code

| TLA+ | Code |
|---|---|
| `plans`, `seq` | `charge_plans` of one chat, and SQLite's AUTOINCREMENT sequence |
| `log` | `charge_dispatch_log`; `day`, the local day of the run that wrote a row, is history |
| `TargetDate` | local midnight formatted in UTC (`store.go:517`) |
| `From`, `To` | `service.go` 808-819 |
| `Candidates`, `FindWindow` | `GetChat`, `Rates` and `agile.CheapestWindow` in one step, since of what they read only the rates change here; any window that fits, since which is cheapest does not matter |
| `Fire`, `RefreshSucceeds`, `RefreshStopsShort`, `RefreshExhausted` | `runRefreshAndDispatch`: a try that succeeds, one that stored the region's rates and failed at a later region, and the end of the retries, within `JobMax` |
| `StartupRefresh` | the goroutine of `App.Run`, once per start, which dispatches nothing |

Times are counted in rate slots. The chat is in the job's zone, since no code
calls `SetChatTimezone` and both default to Europe/London; it stays in one region.

### CheapestWindow and the code

`pc` walks through the function; `i`, `runStart`, `sum`, `bestStart` and
`bestSum` are its variables (from 1, with 0 for -1), `cum` is history: the price
of the half-hours so far. Prices are integers: the rounding of the float sum
is left out.

`CheapRuns` is two passes over the same half-hours in order: the loop of `contiguousRunsBelow` as a
recursive function of how far it has come, and a search for the first half-hour of a kind. A run keeps its sum in
place of its mean. `RunsAreMaximal` is what entitles `PriceAlerts` to speak of maximal
blocks and to leave the loop out.

`ChargePlanner.Deadline` is the clock reading of today, or, if that is not ahead, of
tomorrow by `AddDate`; `LocalTime` says how `time.Date` treats readings that the clocks
skip or repeat.

### RateRefresh and the code

| TLA+ | Code |
|---|---|
| `region`, `cache` | `chats.region` (`NoRegion`: no row), `rates` |
| `now`, `published` | the half-hour under way, the last half-hour Octopus has published |
| `pc`, `todo`, `from`, `got` | locals of each goroutine: its next call, the regions it still has to fetch, the half-hour in which it read the clock, the rates it holds |
| `elapsed`, `backoff`, `attempt` | the deadline, the delay and the count of `runRefreshAndDispatch`, in units of the first delay |
| `Daily`, `Startup`, `Setters` | the job at 16:15, the goroutine of `App.Run`, the requests that set a region |
| `List`, `LatestAgileProduct`, `Fetch`, `UpsertRates` | the calls of `RefreshRates`, in order, the last two for one region after another |
| `Fails`, `RetryLater`, `RetriesExhausted` | every error branch; for the daily job, whether its hour is over when a try fails |
| `NextAttempt`, `Doubled` | the delay is over: the next try, from the list on |
| `SetRegion`, `CheckCache` | the row is written, then the rates of the next hour are read; a miss goes on to `Fetch` |
| `LinkUpsertsDefault` | `LinkOctopusAccount`'s row for a chat without one |
| `Crash`, `Start` | tables survive, goroutines do not |
| `asof`, `stay` | history: what was published when a goroutine began, and the chats it works for that have not moved since |

A setter's request for the product is part of its fetch: neither reads anything of the
model before the rates come, and both fail alike. `refreshRegion` looks at the half-hours
that overlap an hour from its clock: two, or three between two half-hours (`reach`). The half-hour
clock and the job's timers are not related, so a try may take no time while half-hours pass, or a
long time while none does: more than the program can do, never less. What one try takes is told when
it fails. `DistinctRegions` and the order of letters are as SQL gives them.

### Subscriptions and the code

| TLA+ | Code |
|---|---|
| `subs` | `subscriptions`, one row a chat; every chat has a row in `chats`, which the foreign key asks for |
| `jobs`, `next` | the scheduler's jobs: the time of day each was made for, its next run |
| `pc`, `sub`, `run` | a run's locals; `run` is the instant it was started at |
| `AddSubscriptionJobs` | the loop of `Scheduler.Start`, the only caller of `AddSubscriptionJob` |
| `RunAfter` | gocron: the first instant after now at which the clock shows the time |
| `GetSubscription`, `NotSubscribed`, `CheapestWindow`, `Notify`, `DispatchFails` | the calls of `DispatchSubscription`, in order, and its returns |
| `SetSubscription`, `DeleteSubscription` | the commands and routes: they write the row and touch no job |
| `fired`, `delivered`, `had`, `settled`, `started` | history: runs started, messages sent, the rows a user had during a run, the chats that have not touched theirs since the process started, and when that was |

A time of day is the set of instants at which the zone's clock shows it, so days of 23 and
25 hours need no case of their own. Assumed: gocron starts a job when it is due, and a run
ends before the job's next day. Users are let in after the scheduler has started (`app.go`),
so the table does not change while `Start` reads it.

### AccountLink and the code

| TLA+ | Code |
|---|---|
| `region`, `link` | the chat's row of `chats` (`NoRow`: none); account and key (`cred`), MPAN and serial (`meter`) |
| `pc`, `snap` | a request's locals: the link it is about to store, or the one it has read |
| `CheckChat`, `Placeholder`, `AccountWithKey`, `StoreLink` | the calls of `LinkOctopusAccount`, in order |
| `ReadLink`, `BackfillMeter`, `WriteBack`, `ConsumptionWithKey` | the calls of `Consumption`, in order |
| `UnlinkOctopusAccount`, `SetRegion` | one statement each |
| `Fails` | every error branch, and a client that goes away; a crash is the failure of all requests |
| `asked`, `stale`, `undone` | history: what the user stored last in each column, the requests that such a write has overtaken after they had read and before they write, and the columns these have written since |

The history variables say precisely how far the code can be relied on.
`LinkIsLastAsked` and `RegionIsLastAsked` hold in every state but those in which an
overtaken request has written: two windows, between `service.go` 675 and 698 and
between 627 and 633, and no other.

## What TLC checks

| Run | Question | Instance |
|---|---|---|
| `PriceAlerts_safety` | at most one message, exclusive claims, true run starts, no holes, refinement of `OnceOnly`; sweeps end | 1 chat, 2 regions, 2 half-hours, 2 sweeps, 6 minutes |
| `PriceAlerts_steady` | no run is missed | 2 chats, 2 regions, 2 thresholds, 3 half-hours, 2 sweeps |
| `PriceAlerts_cutrun` | *violated*: the whole run is announced | 3 half-hours, 1 sweep |
| `ChargePlans_safety` | at most one message a day, skips explained, ids never reused, refinement of `OnceOnly`; the deadline of an instant charge | 2 plan ids, 10 slots of days of 4, the spring change |
| `ChargePlans_spring` | *violated*: a plan skipped was sent today | 1 plan, the spring change |
| `ChargePlans_past` | *violated*: tonight's window is announced | 1 plan, for a window that is over a quarter of a day before the job |
| `ChargePlans_calm` | one plan's failures keep no other from being announced | 2 plan ids, overnight and morning windows, 6 slots, the spring change |
| `CheapestWindow` | the result against the definition; the runs announced are maximal, and `/next` agrees with them | every subset of 5 half-hours, 2 prices, 6 durations, 3 intervals |
| `AccountLink_safety` | the user's last word on link and region, meters with their accounts, links reported are stored | 3 requests at once, 2 accounts, 2 regions |
| `AccountLink_unlink` | *violated*: after unlinking no key is stored | 1 request, 1 account, 1 region |
| `RateRefresh` | a refresh that succeeds serves all it was for, a chat that moves finds a current rate, no holes, delays kept, the job ends, refinement of `RateCache` | 2 chats of which one moves, 2 regions, the daily job, the start and a change of region, two of them at once, 2 half-hours |
| `Subscriptions` | nothing unasked, at most one message a day, subscribers served, refinement of `OnceOnly` | 2 chats, 2 times of day, two days of 2 instants |

**Bounds.** A unit of time in the alert runs keeps the order of the real
constants (0 < lead minimum < lead maximum < half-hour, a period of one) and
not their size; the interesting moments are the ones at which a boundary of the
lead window, of the horizon or of a half-hour is crossed, and each is crossed.
Two sweeps are the fewest that overlap; one chat is enough where chats do not
meet (no table row is shared), and `PriceAlerts_steady` has two because there a
sweep's work on the first delays the second. Days of four slots leave room for
a window that crosses midnight, a job before midnight and a clock change of one
slot. Two plan ids are what cancelling and re-creating needs, and what it takes for one plan to fail before another. Five half-hours
allow a gap between two windows of two. Two requests and the user's own writes are
what the races of `AccountLink` need, a third can overtake the second; two accounts
and two regions make a wrong one visible; requests and accounts are symmetric. `Sweeps`, `MaxTime`, `Starts`, `Ids`,
`Horizons`, `JobMax`, `Requests` and the sets of `CheapestWindow`'s arguments are the bounds;
the proofs do without their values.
`CheapRuns` is evaluated on the same rates, for every threshold that tells their prices apart and
every moment of the interval; the deadline for every time of day at every instant, from the day before
the clocks go forward to the reading they repeat when they go back.
In `RateRefresh` a second half-hour is what it takes for the clock to move under a refresh, and for a fetch to
be older than its store; two regions make a refresh stop between them, and let a chat move from
the one to the other; two goroutines at once are every pair of a daily job, a start and
a setter. `Deadline` 2 and `MaxBackoff` 2 leave room for a try at once, one
after the first delay, and one after the doubled delay, past the deadline. `AtOnce`, `Movers`, `Durations`, `Span` and `Last` are its other bounds; the
proofs cover any number of regions, chats, setters at once and half-hours. In `Subscriptions` two days are needed for
a second run of a job, and two times of day for a change that the job does not follow;
`Times`, `Durations` and `MaxTime` are its bounds.

**Deadlock** is checked in all runs but `CheapestWindow`, whose function returns.

**Fairness.** Three specifications state any. `PriceAlerts` has weak fairness of the steps of a sweep
that runs. A goroutine that is not blocked is scheduled by Go, SQLite and
Telegram calls return (busy timeout, HTTP client timeout), and the sweep takes
no lock. An error may come in place of any of its steps, and a crash in place of all of them;
nothing is owed by users, refreshes, the clock or a restart.
`CalmSpec` of `ChargePlansProperties` has, for the same reason, weak fairness of the steps of the daily job. There
refreshes and the list may fail, and so may every call for the plan with the least id (the bound
`Unlucky`), which the loop may come to first; no crash, since a crash ends the run for all plans.
`RateRefresh` has weak fairness of the daily job's steps: its calls come back (ten seconds for Octopus,
the busy timeout of SQLite), with an answer or with an error that fairness does not choose between, and a
delay ends. It owes no success: that the job ends follows from its own deadline.

## What the code does and its texts do not say

- **Spring change** (`ChargePlans_spring`). On the Monday after the clocks go
  forward the target date is Sunday's, and the plan is skipped as "already
  dispatched today" (`service.go:838`). `SkipExplained` says that this is the
  only way: a plan skipped was logged by a run of the same local day, or of the day before if the
  clocks went forward between the two local midnights, or over the first of them (in a zone whose
  clocks skip midnight itself, as London's do not). The autumn change skips nothing.
- **Windows that are over** (`ChargePlans_past`). A plan for 07:00-12:00, say, is evaluated by
  the job of 16:15 for the same day. Its rates are in the cache, from the refresh at start or from
  the day before, and a window that has long ended is announced; README point 2 says "for tonight".
- **Cut runs** (`PriceAlerts_cutrun`). The sweep reads 42 minutes ahead, and announces
  the end and mean of what it sees; README point 3 says "contiguous runs".
- **Undone unlink** (`AccountLink_unlink`). `Consumption` writes account and key back as
  it read them when it stores a missing meter; an unlink that came in between is undone,
  where `service.go:658` says that the key is cleared. `LinkIsLastAsked` says that this is
  the only way (for a new link, too).
- Not checked by a run:
  - README point 4 says that subscription jobs are "registered/deregistered as users add or
    remove them". Only `Start` registers any: who subscribes is first served after a restart, and who
    changes the time is served at the old one until then. Hence `SubscribersAreServed` speaks of
    those only who have not touched their subscription since the process started.
  - A message that failed to send is not sent again although
  README point 3 says "hasn't been notified yet" (`OnceOnly` promises at most once, and
  `Abandon` is what a failed send does).
  - `/next` compares strictly (`window.go:131`), as its comment (`window.go:126`) and the help of the
    command say, where the table of commands (`src/README.md:20`) says "at or under". And it may answer with the half-hour under way
    (`ValidTo.After(now)`), where its comment (`window.go:125`) says "at or after `now`".
  - `/subscribe` looks 48 hours ahead (`service.go:325`) where README point 4 says 24.
  - The comment of `refreshRegion` (`service.go:222-226`) says that Octopus is not asked when the rates
    "cover at least the current window and the next hour"; the code is content with any
    one half-hour of them. `RegionIsPrimed` holds all the same, since a cache without holes ahead
    that has one of them has the one under way.
  - The default region is refreshed only while no chat has a row (`service.go:750`). Later a
    chat without one, which `service.go:256` means to serve "on first use", is answered
    from what is left in the default region's cache. `RefreshServesAll` leaves these chats out.
  - README point 1 says that the refresh backs off if the publication is late. An answer
    without new rates is a success: it is not repeated, and the plans are dispatched on
    the old rates. Only errors are retried.
  - `service.go:281` says that a time that is past is "rolled forward to tomorrow". On the day the clocks
    go forward a time they skip is moved by their shift first, and `AddDate` takes the moved
    reading over: asked in the afternoon for 01:30, the planner allows until 02:30. Likewise a time shown
    twice is its second showing. `DeadlineIsNextTime` says that there are no other exceptions, but for zones whose clocks go
    back over midnight, so that a day is begun twice (London's do not).

## What is proved

Every invariant, action property and refinement that a passing run checks (every one but the leads-to properties) is also a theorem, for
every value of the constants, from the named assumptions of the modules: the order of the lead
times, and sweeps no further apart than the lead window is wide; half-hours that do not overlap;
at least two days of summer time; finite sets of ids and of half-hours.

**`Induction`** is what the proofs share. The library's induction theorems take an operator, which the
installed provers cannot be given; these speak of sets and functions. `LeastExists` comes from a
well-founded order of finite sets, `SetInduction` from it, and `Recursion` says that a
function with a first value and a step exists. So a sum over a stretch (`Total`), the
sum of the delays (`Delays`) and the state of a loop (`ContiguousRunsBelow`), written as recursive
functions, can be unfolded in a proof: the function exists, it satisfies its equations (`TotalsAddUp`,
`DelaysAddUp`, `PassExists`), and what it returns follows by `SetInduction`.

- `PriceAlertsProofs`: type correctness; `AtMostOnce`, `ExclusiveClaim` and
  `ClaimBeforeSend`; that the sweep implements `OnceOnly`; `NoHoleAhead`,
  `TruthfulStart` and `ListedChatExists`.
  The invariant behind the first group says what a claim is: a sweep at "notify"
  holds a logged key that was never delivered, no other sweep holds it, and every
  key not in the log has had no message. `AtMostOnce` alone is not
  inductive, because it does not know that a sweep about to send is the first.
  Behind `TruthfulStart` is a chain of three facts: the cache has no hole from the
  current half-hour to its last; so whatever the sweep read at its clock
  contains the half-hour before any start it finds in the lead window (which is
  why the lead window must be shorter than a half-hour); and published prices
  do not change while the sweep is at work.
- `PriceAlertsSteadyProofs`: `NoMiss`. `SteadyInv` says what makes it inductive: the last sweep was
  started within the width of the lead window (`ClockInv`; also while the process is down, for which a
  restart must come in time); a start that the last sweep
  had in its lead window, or that was in one before it, is announced, or a sweep that was started
  in time will come to it or is at work on it (`ServedInv`); settings do not change, and a sweep
  has read them as they are (`SettingsInv`); what it has still to log begins in its lead window (`WindowInv`); and a logged start is announced or in flight
  (`LoggedInv`). The lead window's ends are inclusive, and the proof needs both.
- `ChargePlansProofs`: type correctness; `PlanAtMostOnce`; the refinement of
  `OnceOnly`; `NewPlanIsUnknown`, from the invariant that every id in the log,
  the job's list and its claim is at most `seq`. `SkipExplained` and `DeadlineIsNextTime` rest on
  `LocalTime` alone: where a local day begins and ends on either side of a change of the clocks,
  that UTC dates of midnights two local days apart differ, and what `FromLocal` does to a reading that is
  skipped or repeated. The prover found two cases that the runs' zone cannot show (the clocks of a zone may
  skip midnight, or go back over it), and both properties now name theirs.
- `CheapestWindowProofs`: type correctness; `ReturnsTheCheapest` and `RefusesOnlyMisfits`. First what the
  pass returns is said of indices, along the loop invariant `PassInv` (the window of the pass
  is linked, its sum is a difference of prefix sums, and it is short only behind a
  gap) and `BestInv` (the best so far is the cheapest, and the earliest of the
  cheapest, of the windows that end here or before); `RoundUpCovers`. Then it is carried over to
  times and prices: a stretch of cached half-hours in the interval is a
  linked stretch of indices and the other way round (`WindowFits`, `FitsIsWindow`: half-hours do not
  overlap, and all that are kept are passed over, in order), and a difference of prefix sums is the
  stretch's total (`TotalIsCost`).
  `RunsAreMaximal` follows the loop of `contiguousRunsBelow` with the invariant `PassAt`: the runs that are
  complete open and close at a gap, a dear half-hour or the end, are in order, and, with the one under way, hold
  every cheap half-hour so far. Each is then a block (`RunIsBlock`), and each block is one of them
  (`BlockIsTold`). `NextAgreesWithRuns` follows, since the last half-hour of a run that is not over is
  itself to come, and the half-hour before the first to come is over.
- `RateRefreshProofs`: type correctness; `RefreshServesAll`, `RegionIsPrimed`, `NoHoleAhead`,
  and that all the refreshes together implement `RateCache`. The fill of one region is one
  fill of the abstract cache: what a goroutine holds is what was published from the half-hour it read the
  clock in, and that is no later than now (`Batches`, with `Roles` saying which steps each
  goroutine can be at). `RefreshServesAll` becomes inductive
  when it is said of a refresh at work: of the chats in `stay`, the region is still in `todo`, or
  its cache covers everything from now to `asof`; that survives the clock, other fills (which
  only add), and moves (which take a chat out of `stay`, unless its region stays the same). `RegionIsPrimed` needs that what made
  the cache warm stays warm while half-hours pass, for which the cache must have no hole.
  `TriesAreSpaced`: while a try is at work, what has elapsed is at least the sum of the delays before it,
  and the next delay is the power of two that the count says, up to the longest (`SpacedInv`).
- `SubscriptionsProofs`: type correctness; `NothingUnasked`, `SubscribersAreServed`, and the
  refinement of `OnceOnly`. A job's next run is the first after now, of its own
  time of day, and all of them since the start have been fired (`JobsInTime`); what has
  been fired is not ahead of the clock (`FiredIsPast`), so a job made anew cannot repeat
  a run; an untouched row and its job agree (`JobsAsAsked`); what a run has read, its user
  had (`ReadIsHad`); and a run at work was fired and has sent nothing (`WorkWasFired`).
- `AccountLinkProofs`: type correctness; `MetersMatch`, `LinkIsLastAsked`,
  `RegionIsLastAsked` and `ReportedIsStored`, for any number of requests. `LinkIsLastAsked` is made inductive by what a request carries: a copy of
  the link that may still be written back is the one asked for, or its request is in
  `stale`; and rows are never deleted, so a link request past `Placeholder` finds one.

**Only model-checked**: liveness (`SweepEnds`, `FailuresStayApart`, `JobEnds`: the prover has no
rules for fairness with data, nor for ENABLED). The violations are TLC's.

## Plan

1. A refinement of the rates table in `PriceAlerts` and `ChargePlans` to `RateCache`, so that the
   three models are tied to each other by a theorem and not by their comments only.

## Not modelled, and why

- Parsing of user input, message texts, HTML and JSON; configuration; the web pages: text in, text out.
- Cryptography, the Telegram login check, session cookies: functions of one input, or of
  one input and the clock, without a state that two steps share (a one-to-one function in `AccountLink`).
- The HTTP client's paging and JSON: `StandardUnitRates` returns what is published in the interval, or fails.
- The order of a graceful shutdown: for the tables a crash, which may happen anywhere, is its superset.
- `SetChatTimezone`, `RemoveSubscriptionJob`, `CheapestWindowInDailyRange` and the replacement of a
  job that is there: nothing in the program calls them. So all chats are in the default zone.
- Migrations: they run before anything else does.
- Floating point; the rounding of stored times to seconds; the plans of several chats (a plan's rows and
  messages are its own); `Status` and the lists, which only read.

## Running it

    tlc -workers 2 -config PriceAlerts_safety.cfg MCPriceAlerts
    tlapm PriceAlertsProofs.tla
