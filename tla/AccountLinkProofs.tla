------------------------- MODULE AccountLinkProofs -------------------------
(***************************************************************************)
(* Theorems about AccountLink for every value of its constants: any number *)
(* of requests at once, any accounts and regions.                          *)
(***************************************************************************)
EXTENDS AccountLinkProperties, TLAPS

USE DEF AtRest, Linking, Reading

-----------------------------------------------------------------------------
(* Types.                                                                  *)

LEMMA InitTyped == Init => TypeOK
BY DEF Init, TypeOK, Link, CredOf

LEMMA StepTyped == TypeOK /\ [Next]_vars => TypeOK'
<1> SUFFICES ASSUME TypeOK, [Next]_vars
             PROVE  TypeOK'
  OBVIOUS
<1> USE LinkAssumption DEF TypeOK, Link, Goto, UserWrote, ServiceWrote, histVars, reqVars
<1>1. CASE UnlinkOctopusAccount
  BY <1>1 DEF UnlinkOctopusAccount, SetOctopusLink
<1>2. ASSUME NEW x \in Regions, SetRegion(x)
      PROVE  TypeOK'
  BY <1>2 DEF SetRegion
<1>3. ASSUME NEW r \in Requests, NEW c \in Creds, LinkOctopusAccount(r, c)
      PROVE  TypeOK'
  BY <1>3 DEF LinkOctopusAccount
<1>4. ASSUME NEW r \in Requests, Consumption(r)
      PROVE  TypeOK'
  BY <1>4 DEF Consumption
<1>5. ASSUME NEW r \in Requests, Fails(r)
      PROVE  TypeOK'
  BY <1>5 DEF Fails, Finish
<1>6. ASSUME NEW r \in Requests, RequestStep(r)
      PROVE  TypeOK'
  <2>1. CASE CheckChat(r)
    BY <2>1 DEF CheckChat
  <2>2. CASE Placeholder(r)
    BY <2>2 DEF Placeholder
  <2>3. CASE AccountWithKey(r)
    BY <2>3 DEF AccountWithKey
  <2>4. CASE StoreLink(r)
    BY <2>4 DEF StoreLink, SetOctopusLink, Finish
  <2>5. CASE ReadLink(r)
    BY <2>5 DEF ReadLink, Finish
  <2>6. CASE BackfillMeter(r)
    BY <2>6 DEF BackfillMeter
  <2>7. CASE WriteBack(r)
    BY <2>7 DEF WriteBack, SetOctopusLink
  <2>8. CASE ConsumptionWithKey(r)
    BY <2>8 DEF ConsumptionWithKey, Finish
  <2> QED BY <1>6, <2>1, <2>2, <2>3, <2>4, <2>5, <2>6, <2>7, <2>8 DEF RequestStep
<1>7. CASE UNCHANGED vars
  BY <1>7 DEF vars
<1> QED BY <1>1, <1>2, <1>3, <1>4, <1>5, <1>6, <1>7 DEF Next

\* Rows, locals and history are well typed, and only a request that has read the row
\* and not yet written it can be overtaken.
THEOREM TypeCorrect == Spec => []TypeOK
<1> QED BY InitTyped, StepTyped, PTL DEF Spec

-----------------------------------------------------------------------------
(* The row.                                                                *)

\* A link needs a row, and a link request that goes on to Octopus has seen to one:
\* rows are never deleted.
RowThere == /\ link # NoLink => region # NoRow
            /\ \A r \in Requests : pc[r] \in {"account", "store"} => region # NoRow

LEMMA StepRow == TypeOK /\ RowThere /\ [Next]_vars => RowThere'
<1> SUFFICES ASSUME TypeOK, RowThere, [Next]_vars
             PROVE  RowThere'
  OBVIOUS
<1> USE LinkAssumption DEF TypeOK, RowThere
<1>1. CASE UnlinkOctopusAccount
  BY <1>1 DEF UnlinkOctopusAccount, SetOctopusLink, UserWrote, reqVars
<1>2. ASSUME NEW x \in Regions, SetRegion(x)
      PROVE  RowThere'
  BY <1>2 DEF SetRegion, UserWrote, reqVars
<1>3. ASSUME NEW r \in Requests, NEW c \in Creds, LinkOctopusAccount(r, c)
      PROVE  RowThere'
  BY <1>3 DEF LinkOctopusAccount, Goto, histVars
<1>4. ASSUME NEW r \in Requests, Consumption(r)
      PROVE  RowThere'
  BY <1>4 DEF Consumption, Goto, histVars
<1>5. ASSUME NEW r \in Requests, Fails(r)
      PROVE  RowThere'
  BY <1>5 DEF Fails, Finish, Goto
<1>6. ASSUME NEW r \in Requests, RequestStep(r)
      PROVE  RowThere'
  <2>1. CASE CheckChat(r)
    BY <2>1 DEF CheckChat, Goto, histVars
  <2>2. CASE Placeholder(r)
    BY <2>2 DEF Placeholder, Goto, ServiceWrote
  <2>3. CASE AccountWithKey(r)
    BY <2>3 DEF AccountWithKey, Goto, histVars
  <2>4. CASE StoreLink(r)
    BY <2>4 DEF StoreLink, SetOctopusLink, Finish, Goto, UserWrote
  <2>5. CASE ReadLink(r)
    BY <2>5 DEF ReadLink, Finish, Goto, histVars
  <2>6. CASE BackfillMeter(r)
    BY <2>6 DEF BackfillMeter, Goto, histVars
  <2>7. CASE WriteBack(r)
    BY <2>7 DEF WriteBack, SetOctopusLink, Goto, ServiceWrote
  <2>8. CASE ConsumptionWithKey(r)
    BY <2>8 DEF ConsumptionWithKey, Finish, Goto, histVars
  <2> QED BY <1>6, <2>1, <2>2, <2>3, <2>4, <2>5, <2>6, <2>7, <2>8 DEF RequestStep
<1>7. CASE UNCHANGED vars
  BY <1>7 DEF vars, reqVars, histVars
<1> QED BY <1>1, <1>2, <1>3, <1>4, <1>5, <1>6, <1>7 DEF Next

-----------------------------------------------------------------------------
(* Meters.                                                                 *)

\* Every copy of a link holds a meter of its own account, from the time on at which
\* it holds one; MetersMatch follows.
Matching(l) == l.meter \in {l.cred, NoMeter}

MetersKept == /\ link # NoLink => Matching(link)
              /\ \A r \in Requests : pc[r] \notin AtRest => Matching(snap[r])
              /\ \A r \in Requests : pc[r] \in {"write", "fetch"} => snap[r].meter = snap[r].cred

LEMMA StepMeters == TypeOK /\ MetersKept /\ [Next]_vars => MetersKept'
<1> SUFFICES ASSUME TypeOK, MetersKept, [Next]_vars
             PROVE  MetersKept'
  OBVIOUS
<1> USE LinkAssumption DEF TypeOK, Link, MetersKept, Matching
<1>1. CASE UnlinkOctopusAccount
  BY <1>1 DEF UnlinkOctopusAccount, SetOctopusLink, UserWrote, reqVars
<1>2. ASSUME NEW x \in Regions, SetRegion(x)
      PROVE  MetersKept'
  BY <1>2 DEF SetRegion, UserWrote, reqVars
<1>3. ASSUME NEW r \in Requests, NEW c \in Creds, LinkOctopusAccount(r, c)
      PROVE  MetersKept'
  BY <1>3 DEF LinkOctopusAccount, Goto, histVars
<1>4. ASSUME NEW r \in Requests, Consumption(r)
      PROVE  MetersKept'
  BY <1>4 DEF Consumption, Goto, histVars
<1>5. ASSUME NEW r \in Requests, Fails(r)
      PROVE  MetersKept'
  BY <1>5 DEF Fails, Finish, Goto
<1>6. ASSUME NEW r \in Requests, RequestStep(r)
      PROVE  MetersKept'
  <2>1. CASE CheckChat(r)
    BY <2>1 DEF CheckChat, Goto, histVars
  <2>2. CASE Placeholder(r)
    BY <2>2 DEF Placeholder, Goto, ServiceWrote
  <2>3. CASE AccountWithKey(r)
    BY <2>3 DEF AccountWithKey, Goto, histVars
  <2>4. CASE StoreLink(r)
    BY <2>4 DEF StoreLink, SetOctopusLink, Finish, Goto, UserWrote
  <2>5. CASE ReadLink(r)
    BY <2>5 DEF ReadLink, Finish, Goto, histVars
  <2>6. CASE BackfillMeter(r)
    BY <2>6 DEF BackfillMeter, Goto, histVars
  <2>7. CASE WriteBack(r)
    BY <2>7 DEF WriteBack, SetOctopusLink, Goto, ServiceWrote
  <2>8. CASE ConsumptionWithKey(r)
    BY <2>8 DEF ConsumptionWithKey, Finish, Goto, histVars
  <2> QED BY <1>6, <2>1, <2>2, <2>3, <2>4, <2>5, <2>6, <2>7, <2>8 DEF RequestStep
<1>7. CASE UNCHANGED vars
  BY <1>7 DEF vars, reqVars, histVars
<1> QED BY <1>1, <1>2, <1>3, <1>4, <1>5, <1>6, <1>7 DEF Next

-----------------------------------------------------------------------------
(* The last word on the link.                                              *)

\* The stored link is the one asked for, and so is every copy that a request not
\* overtaken may still write back.
LinkCurrent == \/ "link" \in undone
               \/ /\ CredOf(link) = asked.link
                  /\ \A r \in Requests : pc[r] \in {"backfill", "write"} /\ r \notin stale
                                           => snap[r].cred = asked.link

LEMMA StepLink == TypeOK /\ RowThere /\ LinkCurrent /\ [Next]_vars => LinkCurrent'
<1> SUFFICES ASSUME TypeOK, RowThere, LinkCurrent, [Next]_vars
             PROVE  LinkCurrent'
  OBVIOUS
<1> USE LinkAssumption DEF TypeOK, Link, RowThere, LinkCurrent, CredOf
<1>1. CASE UnlinkOctopusAccount
  BY <1>1 DEF UnlinkOctopusAccount, SetOctopusLink, UserWrote, reqVars
<1>2. ASSUME NEW x \in Regions, SetRegion(x)
      PROVE  LinkCurrent'
  BY <1>2 DEF SetRegion, UserWrote, reqVars
<1>3. ASSUME NEW r \in Requests, NEW c \in Creds, LinkOctopusAccount(r, c)
      PROVE  LinkCurrent'
  BY <1>3 DEF LinkOctopusAccount, Goto, histVars
<1>4. ASSUME NEW r \in Requests, Consumption(r)
      PROVE  LinkCurrent'
  BY <1>4 DEF Consumption, Goto, histVars
<1>5. ASSUME NEW r \in Requests, Fails(r)
      PROVE  LinkCurrent'
  BY <1>5 DEF Fails, Finish, Goto
<1>6. ASSUME NEW r \in Requests, RequestStep(r)
      PROVE  LinkCurrent'
  <2>1. CASE CheckChat(r)
    BY <2>1 DEF CheckChat, Goto, histVars
  <2>2. CASE Placeholder(r)
    BY <2>2 DEF Placeholder, Goto, ServiceWrote
  <2>3. CASE AccountWithKey(r)
    BY <2>3 DEF AccountWithKey, Goto, histVars
  <2>4. CASE StoreLink(r)
    BY <2>4 DEF StoreLink, SetOctopusLink, Finish, Goto, UserWrote
  <2>5. CASE ReadLink(r)
    BY <2>5 DEF ReadLink, Finish, Goto, histVars
  <2>6. CASE BackfillMeter(r)
    BY <2>6 DEF BackfillMeter, Goto, histVars
  <2>7. CASE WriteBack(r)
    BY <2>7 DEF WriteBack, SetOctopusLink, Goto, ServiceWrote
  <2>8. CASE ConsumptionWithKey(r)
    BY <2>8 DEF ConsumptionWithKey, Finish, Goto, histVars
  <2> QED BY <1>6, <2>1, <2>2, <2>3, <2>4, <2>5, <2>6, <2>7, <2>8 DEF RequestStep
<1>7. CASE UNCHANGED vars
  BY <1>7 DEF vars, reqVars, histVars
<1> QED BY <1>1, <1>2, <1>3, <1>4, <1>5, <1>6, <1>7 DEF Next

-----------------------------------------------------------------------------
(* The last word on the region.                                            *)

\* A request about to store the default, and not overtaken, does so for a user who
\* has chosen nothing.
RegionCurrent == \/ "region" \in undone
                 \/ /\ RegionIsLastAsked
                    /\ \A r \in Requests : pc[r] = "placeholder" /\ r \notin stale
                                             => asked.region = NoRow

LEMMA StepRegion == TypeOK /\ RegionCurrent /\ [Next]_vars => RegionCurrent'
<1> SUFFICES ASSUME TypeOK, RegionCurrent, [Next]_vars
             PROVE  RegionCurrent'
  OBVIOUS
<1> USE LinkAssumption DEF TypeOK, RegionCurrent, RegionIsLastAsked
<1>1. CASE UnlinkOctopusAccount
  BY <1>1 DEF UnlinkOctopusAccount, SetOctopusLink, UserWrote, reqVars
<1>2. ASSUME NEW x \in Regions, SetRegion(x)
      PROVE  RegionCurrent'
  BY <1>2 DEF SetRegion, UserWrote, reqVars
<1>3. ASSUME NEW r \in Requests, NEW c \in Creds, LinkOctopusAccount(r, c)
      PROVE  RegionCurrent'
  BY <1>3 DEF LinkOctopusAccount, Goto, histVars
<1>4. ASSUME NEW r \in Requests, Consumption(r)
      PROVE  RegionCurrent'
  BY <1>4 DEF Consumption, Goto, histVars
<1>5. ASSUME NEW r \in Requests, Fails(r)
      PROVE  RegionCurrent'
  BY <1>5 DEF Fails, Finish, Goto
<1>6. ASSUME NEW r \in Requests, RequestStep(r)
      PROVE  RegionCurrent'
  <2>1. CASE CheckChat(r)
    BY <2>1 DEF CheckChat, Goto, histVars
  <2>2. CASE Placeholder(r)
    BY <2>2 DEF Placeholder, Goto, ServiceWrote
  <2>3. CASE AccountWithKey(r)
    BY <2>3 DEF AccountWithKey, Goto, histVars
  <2>4. CASE StoreLink(r)
    BY <2>4 DEF StoreLink, SetOctopusLink, Finish, Goto, UserWrote
  <2>5. CASE ReadLink(r)
    BY <2>5 DEF ReadLink, Finish, Goto, histVars
  <2>6. CASE BackfillMeter(r)
    BY <2>6 DEF BackfillMeter, Goto, histVars
  <2>7. CASE WriteBack(r)
    BY <2>7 DEF WriteBack, SetOctopusLink, Goto, ServiceWrote
  <2>8. CASE ConsumptionWithKey(r)
    BY <2>8 DEF ConsumptionWithKey, Finish, Goto, histVars
  <2> QED BY <1>6, <2>1, <2>2, <2>3, <2>4, <2>5, <2>6, <2>7, <2>8 DEF RequestStep
<1>7. CASE UNCHANGED vars
  BY <1>7 DEF vars, reqVars, histVars
<1> QED BY <1>1, <1>2, <1>3, <1>4, <1>5, <1>6, <1>7 DEF Next

-----------------------------------------------------------------------------
(* The inductive invariant and what follows from it.                       *)

Kept == TypeOK /\ RowThere /\ MetersKept /\ LinkCurrent /\ RegionCurrent

LEMMA InitKept == Init => Kept
<1> SUFFICES ASSUME Init PROVE Kept
  OBVIOUS
<1>1. TypeOK
  BY InitTyped
<1>2. RowThere /\ MetersKept
  BY LinkAssumption DEF Init, RowThere, MetersKept, Matching
<1>3. LinkCurrent
  BY DEF Init, LinkCurrent
<1>4. RegionCurrent
  BY DEF Init, RegionCurrent, RegionIsLastAsked
<1> QED BY <1>1, <1>2, <1>3, <1>4 DEF Kept

LEMMA AlwaysKept == Spec => []Kept
<1>1. Kept /\ [Next]_vars => Kept'
  BY StepTyped, StepRow, StepMeters, StepLink, StepRegion DEF Kept
<1> QED BY InitKept, <1>1, PTL DEF Spec

\* A meter is kept, and asked for usage, only with the account it belongs to.
THEOREM MetersMatchHolds == Spec => []MetersMatch
<1>1. Kept => MetersMatch
  BY DEF Kept, MetersKept, Matching, MetersMatch
<1> QED BY AlwaysKept, <1>1, PTL

\* Only a Consumption overtaken by the user can make the link another than the
\* one the user stored last.
THEOREM LinkIsLastAskedHolds == Spec => []LinkIsLastAsked
<1>1. Kept => LinkIsLastAsked
  BY DEF Kept, LinkCurrent, LinkIsLastAsked
<1> QED BY AlwaysKept, <1>1, PTL

\* Only a link request overtaken by SetRegion can make the region another than the
\* one the user chose last.
THEOREM RegionIsLastAskedHolds == Spec => []RegionIsLastAsked
<1>1. Kept => RegionIsLastAsked
  BY DEF Kept, RegionCurrent, RegionIsLastAsked
<1> QED BY AlwaysKept, <1>1, PTL

\* The UPDATE of a link request finds its row.
THEOREM ReportedIsStoredHolds == Spec => ReportedIsStored
<1>1. Kept /\ [Next]_vars => [\A r \in Requests : StoreLink(r) => link' = snap[r]]_vars
  BY DEF Kept, RowThere, StoreLink, SetOctopusLink
<1> QED BY AlwaysKept, <1>1, PTL DEF Spec, ReportedIsStored
=============================================================================
