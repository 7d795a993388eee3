--------------------------- MODULE Subscriptions ---------------------------
(***************************************************************************)
(* The daily "cheapest window" messages: the subscriptions table, the job  *)
(* the scheduler keeps for each row it found when the process started, and *)
(* the runs of these jobs (service.DispatchSubscription), while users      *)
(* subscribe, change and unsubscribe, and the process stops and starts.    *)
(*                                                                         *)
(* One step is one storage call, or the send.  A time of day is the set of *)
(* the instants at which the clocks of the job's zone show it.  Every chat *)
(* has a row in chats: the foreign key refuses a subscription to others,   *)
(* and no row of chats is ever removed.                                    *)
(***************************************************************************)
EXTENDS Naturals

CONSTANTS Chats,
          Times,     \* the times of day asked for (bound)
          Durations, \* the window lengths asked for (bound)
          NoSub,     \* no row
          NoJob,     \* no job
          MaxTime    \* the clock stops here (bound)

ASSUME SubscriptionAssumption ==
          /\ MaxTime \in Nat
          /\ \A at \in Times : at \subseteq Nat
          /\ \A at \in Times, t \in 0..MaxTime : \E u \in at : t < u
          /\ NoSub \notin [at : Times, duration : Durations]
          /\ NoJob \notin Times

Subscription == [at : Times, duration : Durations]
Instants     == 0..MaxTime
Keys         == Chats \X (1..MaxTime)  \* what is to be sent: to whom, and when

VARIABLES now, up,             \* clock, process
          subs,                \* the table subscriptions
          jobs, next,          \* the scheduler: time of day and next run of a job
          pc, sub, run,        \* a run's locals; run: when it was started
          fired, delivered,    \* history: runs started, messages sent, per key
          had,                 \* history: rows the user had since the run began
          settled, started     \* history: rows not touched since the process
                               \* started, and when that was

procVars == <<now, up, jobs, next>>
runVars  == <<pc, sub, run>>
histVars == <<fired, delivered, had, settled, started>>
vars     == <<procVars, subs, runVars, histVars>>

TypeOK == /\ now \in Instants /\ up \in BOOLEAN
          /\ subs \in [Chats -> Subscription \cup {NoSub}]
          /\ jobs \in [Chats -> Times \cup {NoJob}]
          /\ next \in [Chats -> Nat]
          /\ pc \in [Chats -> {"idle", "get", "window", "notify"}]
          /\ sub \in [Chats -> Subscription \cup {NoSub}]
          /\ run \in [Chats -> Instants]
          /\ fired \subseteq Keys
          /\ delivered \in [Keys -> Nat]
          /\ had \in [Chats -> SUBSET (Subscription \cup {NoSub})]
          /\ settled \subseteq Chats /\ started \in Instants

Init == /\ now = 0 /\ up = FALSE
        /\ subs = [c \in Chats |-> NoSub]
        /\ jobs = [c \in Chats |-> NoJob]
        /\ next = [c \in Chats |-> 0]
        /\ pc = [c \in Chats |-> "idle"]
        /\ sub = [c \in Chats |-> NoSub]
        /\ run = [c \in Chats |-> 0]
        /\ fired = {}
        /\ delivered = [k \in Keys |-> 0]
        /\ had = [c \in Chats |-> {}]
        /\ settled = {} /\ started = 0

-----------------------------------------------------------------------------
(* The clock and the scheduler.                                            *)

\* Mutant: a job registered in the minute it is for runs in that minute.
RunFrom(at, t) == CHOOSE u \in at : t <= u /\ \A v \in at : t <= v => u <= v

\* The first run after instant t of a job for time of day at.
RunAfter(at, t) == CHOOSE u \in at : t < u /\ \A v \in at : t < v => u <= v

\* Jobs are started when they are due, and a run is over before the next is due.
Tick == /\ now < MaxTime
        /\ \A c \in Chats : up /\ jobs[c] # NoJob => now < next[c]
        /\ now' = now + 1
        /\ UNCHANGED <<up, jobs, next, subs, runVars, histVars>>

ListEnabledSubscriptions == {c \in Chats : subs[c] # NoSub}

\* Mutant: the first row only.
AddFirstSubscriptionJob ==
    LET first == CHOOSE c \in Chats : ListEnabledSubscriptions # {} =>
                                         c \in ListEnabledSubscriptions
    IN  /\ jobs' = [c \in Chats |-> IF c = first /\ subs[c] # NoSub
                                    THEN subs[c].at ELSE NoJob]
        /\ next' = [c \in Chats |-> IF c = first /\ subs[c] # NoSub
                                    THEN RunAfter(subs[c].at, now) ELSE 0]

\* A job for each row.
AddSubscriptionJobs ==
    /\ jobs' = [c \in Chats |-> IF c \in ListEnabledSubscriptions
                                THEN subs[c].at ELSE NoJob]
    /\ next' = [c \in Chats |-> IF c \in ListEnabledSubscriptions
                                THEN RunAfter(subs[c].at, now) ELSE 0]

\* Users are listened to when the scheduler has started: nobody touches the table
\* while it is read.
Start == /\ ~up /\ up' = TRUE
         /\ AddSubscriptionJobs
         /\ settled' = Chats /\ started' = now
         /\ UNCHANGED <<now, subs, runVars, fired, delivered, had>>

Crash == /\ up /\ up' = FALSE
         /\ jobs' = [c \in Chats |-> NoJob]
         /\ next' = [c \in Chats |-> 0]
         /\ pc' = [c \in Chats |-> "idle"]
         /\ sub' = [c \in Chats |-> NoSub]
         /\ run' = [c \in Chats |-> 0]
         /\ had' = [c \in Chats |-> {}]
         /\ settled' = {} /\ started' = 0
         /\ UNCHANGED <<now, subs, fired, delivered>>

Fire(c) == /\ up /\ jobs[c] # NoJob /\ now = next[c] /\ pc[c] = "idle"
           /\ next' = [next EXCEPT ![c] = RunAfter(jobs[c], now)]
           /\ pc' = [pc EXCEPT ![c] = "get"]
           /\ run' = [run EXCEPT ![c] = now]
           /\ fired' = fired \cup {<<c, now>>}
           /\ had' = [had EXCEPT ![c] = {subs[c]}]
           /\ UNCHANGED <<now, up, jobs, subs, sub, delivered, settled, started>>

-----------------------------------------------------------------------------
(* DispatchSubscription.                                                   *)

RunOver(c) == /\ pc' = [pc EXCEPT ![c] = "idle"]
              /\ sub' = [sub EXCEPT ![c] = NoSub]
              /\ run' = [run EXCEPT ![c] = 0]
              /\ had' = [had EXCEPT ![c] = {}]

\* Mutant: the answer that there is no row is overlooked.
GetUnchecked(c) == /\ pc[c] = "get"
                   /\ pc' = [pc EXCEPT ![c] = "window"]
                   /\ sub' = [sub EXCEPT ![c] = subs[c]]
                   /\ UNCHANGED <<procVars, subs, run, histVars>>

\* The row is read anew: the job knows the chat only.
GetSubscription(c) ==
    /\ pc[c] = "get" /\ subs[c] # NoSub
    /\ pc' = [pc EXCEPT ![c] = "window"]
    /\ sub' = [sub EXCEPT ![c] = subs[c]]
    /\ UNCHANGED <<procVars, subs, run, histVars>>

NotSubscribed(c) == /\ pc[c] = "get" /\ subs[c] = NoSub
                    /\ RunOver(c)
                    /\ UNCHANGED <<procVars, subs, fired, delivered, settled, started>>

\* CheapestWindow and the chat's time zone; neither sees what users do here.
CheapestWindow(c) == /\ pc[c] = "window"
                     /\ pc' = [pc EXCEPT ![c] = "notify"]
                     /\ UNCHANGED <<procVars, subs, sub, run, histVars>>

Notify(c) == /\ pc[c] = "notify"
             /\ delivered' = [delivered EXCEPT ![<<c, run[c]>>] = @ + 1]
             /\ RunOver(c)
             /\ UNCHANGED <<procVars, subs, fired, settled, started>>

\* An error of a call, also that no window fits, is logged.
DispatchFails(c) == /\ pc[c] # "idle"
                    /\ RunOver(c)
                    /\ UNCHANGED <<procVars, subs, fired, delivered, settled, started>>

RunStep(c) == \/ GetSubscription(c) \/ NotSubscribed(c)
              \/ CheapestWindow(c) \/ Notify(c) \/ DispatchFails(c)

-----------------------------------------------------------------------------
(* Users.                                                                  *)

\* The row of c becomes s.  No job is added, changed or removed.
Write(c, s) == /\ up
               /\ subs' = [subs EXCEPT ![c] = s]
               /\ had' = [had EXCEPT ![c] = IF pc[c] = "idle" THEN @ ELSE @ \cup {s}]
               /\ settled' = settled \ {c}
               /\ UNCHANGED <<procVars, runVars, fired, delivered, started>>

\* Mutant: the arguments are mixed up.
SetSwapped(c, at, duration) == Write(c, [at |-> duration, duration |-> at])

SetSubscription(c, at, duration) == Write(c, [at |-> at, duration |-> duration])

DeleteSubscription(c) == Write(c, NoSub)

UserStep(c) == \/ \E at \in Times, duration \in Durations : SetSubscription(c, at, duration)
               \/ DeleteSubscription(c)

Next == \/ Tick \/ Start \/ Crash
        \/ \E c \in Chats : Fire(c) \/ RunStep(c) \/ UserStep(c)

Spec == Init /\ [][Next]_vars
=============================================================================
