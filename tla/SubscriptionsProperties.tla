----------------------- MODULE SubscriptionsProperties ----------------------
(***************************************************************************)
(* What the daily messages owe those who subscribed, and nobody else.      *)
(***************************************************************************)
EXTENDS Subscriptions

\* What is sent is what the user had asked for at some moment of the run: nothing
\* to one who had unsubscribed before the job was due, though his job is still
\* there, and no window of a length given up long ago.
NothingUnasked ==
    \A c \in Chats : pc[c] = "notify" => sub[c] \in had[c] \ {NoSub}

\* The run of c that was started at t is still at work.
AtWork(c, t) == pc[c] # "idle" /\ run[c] = t

\* A message for a chat and an instant is sent at most once: not again by the job
\* of a process started in that very minute, nor by a change of the subscription.
\* A run that fails is not made up for.
Settled == {k \in fired : ~AtWork(k[1], k[2])}
Promise == INSTANCE OnceOnly WITH settled <- Settled
ImplementsOnceOnly == Promise!Spec

\* One who has not touched the subscription since the process started gets a run
\* of his job each time the clock shows the time he chose.  (One who has touched
\* it need not: see the README.)
SubscribersAreServed ==
    \A c \in settled : subs[c] # NoSub =>
        \A t \in subs[c].at : started < t /\ t < now => <<c, t>> \in fired
=============================================================================
