---------------------------- MODULE AccountLink ----------------------------
(***************************************************************************)
(* Linking a chat to an Octopus account: LinkOctopusAccount,               *)
(* UnlinkOctopusAccount, Consumption and SetRegion, as requests of one     *)
(* user that run side by side (the web page, a second tab, Telegram).      *)
(* They read the chat's row, call Octopus, and write to the row.           *)
(*                                                                         *)
(* One step is one statement or one call to Octopus.  A credential stands  *)
(* for an account number and its key, and for the meter of that account;   *)
(* encryption maps keys one to one, so it is left out, and a key that      *)
(* cannot be decrypted is a failure like any other.  SetRegion's refresh   *)
(* of the rates does not touch the row.                                    *)
(***************************************************************************)

CONSTANTS Requests,   \* requests that may run at once (bound)
          Creds,      \* the accounts the user may link
          Regions, Default, NoRow,
          NoLink, NoMeter

ASSUME LinkAssumption == /\ Default \in Regions /\ NoRow \notin Regions
                         /\ NoMeter \notin Creds
                         /\ NoLink \notin [cred : Creds, meter : Creds \cup {NoMeter}]

VARIABLES region, link,       \* the chat's row; NoRow: there is none
          pc, snap,           \* each request's locals
          asked,              \* history: what the user last stored, per column
          stale,              \* history: requests overtaken by such a write
          undone              \* history: columns an overtaken request wrote

reqVars  == <<pc, snap>>
histVars == <<asked, stale, undone>>
vars     == <<region, link, reqVars, histVars>>

\* meter: the MPAN and serial stored with the account, if both are known.
Link == [cred : Creds, meter : Creds \cup {NoMeter}]

CredOf(l) == IF l = NoLink THEN NoLink ELSE l.cred

AtRest  == {"idle", "read"}
Linking == {"check", "placeholder", "account", "store"}
Reading == {"backfill", "write", "fetch"}

TypeOK == /\ region \in Regions \cup {NoRow}
          /\ link \in Link \cup {NoLink}
          /\ pc \in [Requests -> AtRest \cup Linking \cup Reading]
          /\ \A r \in Requests : IF pc[r] \in AtRest THEN snap[r] = NoLink
                                                     ELSE snap[r] \in Link
          /\ snap \in [Requests -> Link \cup {NoLink}]
          /\ asked \in [region : Regions \cup {NoRow}, link : Creds \cup {NoLink}]
          /\ stale \subseteq {r \in Requests : pc[r] \in {"placeholder", "backfill", "write"}}
          /\ undone \subseteq {"region", "link"}

\* A row as an earlier run of the program may have left it; a link older than the
\* meter's columns has none.
Init == /\ region \in Regions \cup {NoRow}
        /\ link \in {l \in Link : region # NoRow /\ l.meter \in {l.cred, NoMeter}} \cup {NoLink}
        /\ pc = [r \in Requests |-> "idle"]
        /\ snap = [r \in Requests |-> NoLink]
        /\ asked = [region |-> region, link |-> CredOf(link)]
        /\ stale = {} /\ undone = {}

Goto(r, l) == pc' = [pc EXCEPT ![r] = l]

Finish(r) == /\ Goto(r, "idle")
             /\ snap' = [snap EXCEPT ![r] = NoLink]

\* History: the user has written v to column k, overtaking the requests at these
\* points of their code.
UserWrote(k, v, points) ==
    /\ asked' = [asked EXCEPT ![k] = v]
    /\ stale' = stale \cup {r \in Requests : pc[r] \in points}
    /\ undone' = undone \ {k}

\* History: a write of k by r that no user asked for.
ServiceWrote(k, r) == /\ undone' = IF r \in stale THEN undone \cup {k} ELSE undone
                      /\ stale' = stale \ {r}
                      /\ UNCHANGED asked

-----------------------------------------------------------------------------
(* LinkOctopusAccount                                                      *)

LinkOctopusAccount(r, c) == /\ pc[r] = "idle"
                            /\ Goto(r, "check")
                            /\ snap' = [snap EXCEPT ![r] = [cred |-> c, meter |-> NoMeter]]
                            /\ UNCHANGED <<region, link, histVars>>

\* Mutant: the row is taken for granted.
CheckNothing(r)  == /\ pc[r] = "check" /\ Goto(r, "account")
                    /\ UNCHANGED <<region, link, snap, histVars>>

\* Mutant: the row is always upserted.
UpsertAlways(r)  == /\ pc[r] = "check" /\ Goto(r, "placeholder")
                    /\ UNCHANGED <<region, link, snap, histVars>>

\* GetChat: a chat without a row gets one first.
CheckChat(r) == /\ pc[r] = "check"
                /\ Goto(r, IF region = NoRow THEN "placeholder" ELSE "account")
                /\ UNCHANGED <<region, link, snap, histVars>>

\* UpsertChatRegion with the default region, whatever is in the row by now.
Placeholder(r) == /\ pc[r] = "placeholder"
                  /\ region' = Default
                  /\ Goto(r, "account")
                  /\ ServiceWrote("region", r)
                  /\ UNCHANGED <<link, snap>>

\* Octopus accepts the key; the account may have no meter (yet).
AccountWithKey(r) == /\ pc[r] = "account"
                     /\ \E m \in {snap[r].cred, NoMeter} : snap' = [snap EXCEPT ![r].meter = m]
                     /\ Goto(r, "store")
                     /\ UNCHANGED <<region, link, histVars>>

\* UPDATE chats SET ... WHERE chat_id=?: nothing happens without a row.
SetOctopusLink(l) == link' = IF region = NoRow THEN link ELSE l

StoreLink(r) == /\ pc[r] = "store"
                /\ SetOctopusLink(snap[r])
                /\ Finish(r)
                /\ UserWrote("link", snap[r].cred, {"backfill", "write"})
                /\ UNCHANGED region

-----------------------------------------------------------------------------
(* Consumption                                                             *)

Consumption(r) == /\ pc[r] = "idle" /\ Goto(r, "read")
                  /\ UNCHANGED <<region, link, snap, histVars>>

\* Mutant: the chat's link is not looked at.
ReadUnlinked(r) == /\ pc[r] = "read"
                   /\ snap' = [snap EXCEPT ![r] = link]
                   /\ Goto(r, "fetch")
                   /\ UNCHANGED <<region, link, histVars>>

\* GetChat: without a link it ends; without a meter it asks Octopus for one.
ReadLink(r) == /\ pc[r] = "read"
               /\ IF link = NoLink THEN Finish(r)
                  ELSE /\ snap' = [snap EXCEPT ![r] = link]
                       /\ Goto(r, IF link.meter = NoMeter THEN "backfill" ELSE "fetch")
               /\ UNCHANGED <<region, link, histVars>>

BackfillMeter(r) == /\ pc[r] = "backfill"
                    /\ snap' = [snap EXCEPT ![r].meter = snap[r].cred]
                    /\ Goto(r, "write")
                    /\ UNCHANGED <<region, link, histVars>>

\* Mutant: only the meter's columns are written.
WriteMeterOnly(r) == /\ pc[r] = "write"
                     /\ SetOctopusLink(IF link = NoLink THEN NoLink
                                       ELSE [link EXCEPT !.meter = snap[r].meter])
                     /\ Goto(r, "fetch")
                     /\ ServiceWrote("link", r)
                     /\ UNCHANGED <<region, snap>>

\* Account and key are written back as they were read.
WriteBack(r) == /\ pc[r] = "write"
                /\ SetOctopusLink(snap[r])
                /\ Goto(r, "fetch")
                /\ ServiceWrote("link", r)
                /\ UNCHANGED <<region, snap>>

\* The answer to the user.
ConsumptionWithKey(r) == /\ pc[r] = "fetch" /\ Finish(r)
                         /\ UNCHANGED <<region, link, histVars>>

-----------------------------------------------------------------------------
\* Any call of a request may fail, or its client goes away: the request ends, and
\* what it has written stays.  (A crash is the failure of all.)
Fails(r) == /\ pc[r] # "idle"
            /\ Finish(r)
            /\ stale' = stale \ {r}
            /\ UNCHANGED <<region, link, asked, undone>>

\* Mutant: the link is looked up by its meter, which may be NULL.
UnlinkByMeter == /\ link' = IF link # NoLink /\ link.meter = NoMeter THEN link ELSE NoLink
                 /\ UserWrote("link", NoLink, {"backfill", "write"})
                 /\ UNCHANGED <<region, reqVars>>

UnlinkOctopusAccount == /\ SetOctopusLink(NoLink)
                        /\ UserWrote("link", NoLink, {"backfill", "write"})
                        /\ UNCHANGED <<region, reqVars>>

SetRegion(x) == /\ region' = x
                /\ UserWrote("region", x, {"placeholder"})
                /\ UNCHANGED <<link, reqVars>>

RequestStep(r) == \/ CheckChat(r) \/ Placeholder(r) \/ AccountWithKey(r) \/ StoreLink(r)
                  \/ ReadLink(r) \/ BackfillMeter(r) \/ WriteBack(r) \/ ConsumptionWithKey(r)

Next == \/ UnlinkOctopusAccount
        \/ \E x \in Regions : SetRegion(x)
        \/ \E r \in Requests : \/ \E c \in Creds : LinkOctopusAccount(r, c)
                               \/ Consumption(r) \/ RequestStep(r) \/ Fails(r)

Spec == Init /\ [][Next]_vars
=============================================================================
