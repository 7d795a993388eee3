------------------------------ MODULE OnceOnly ------------------------------
(***************************************************************************)
(* What both notification dispatchers of the bot promise their users: a    *)
(* subject - a cheap run of half-hours for a chat, a charge plan on a date *)
(* - is settled once, and a message about it is sent at most when it is    *)
(* settled.  The promise is at most once: a subject may be given up        *)
(* without a message, because the dispatcher logs a subject before it      *)
(* sends, so a failed send or a crash in between is never tried again.     *)
(***************************************************************************)
EXTENDS Naturals

CONSTANT Keys       \* the subjects a user can be told about

VARIABLES settled,  \* the subjects nothing more will be sent about
          delivered \* how many messages were sent about each subject

vars == <<settled, delivered>>

Init == /\ settled = {}
        /\ delivered = [k \in Keys |-> 0]

Deliver(k) == /\ k \notin settled
              /\ settled' = settled \cup {k}
              /\ delivered' = [delivered EXCEPT ![k] = @ + 1]

Abandon(lost) == /\ lost \cap settled = {}
                 /\ settled' = settled \cup lost
                 /\ UNCHANGED delivered

Next == \/ \E k \in Keys : Deliver(k)
        \/ \E lost \in SUBSET Keys : Abandon(lost)

Spec == Init /\ [][Next]_vars
=============================================================================
