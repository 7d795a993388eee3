----------------------- MODULE AccountLinkProperties -----------------------
(***************************************************************************)
(* What the requests of one user may do to each other's work.              *)
(***************************************************************************)
EXTENDS AccountLink

\* A meter is only ever kept, and only ever asked for usage, together with the
\* account it belongs to, although account and meter come from different calls
\* and another account may be linked in between.
MetersMatch == /\ link # NoLink => link.meter \in {link.cred, NoMeter}
               /\ \A r \in Requests : pc[r] = "fetch" => snap[r].meter = snap[r].cred

\* A link that is reported to the user is stored: the row the UPDATE needs is
\* there, whoever made it.
ReportedIsStored == [][\A r \in Requests : StoreLink(r) => link' = snap[r]]_vars

\* The account linked is the one the user linked last, or none after unlinking -
\* unless a Consumption had read the row before that and wrote it back after it.
LinkIsLastAsked == "link" \in undone \/ CredOf(link) = asked.link

\* The region is the one the user chose last, or the default if none was chosen -
\* unless a link request had found no row before that and upserted it after it.
RegionIsLastAsked == \/ "region" \in undone
                     \/ region = asked.region
                     \/ asked.region = NoRow /\ region = Default

-----------------------------------------------------------------------------
(* What the repository's texts say and the code does not do.               *)

\* service.go on UnlinkOctopusAccount: "clears the stored account number + key
\* for the chat".  After it, and until the user links again, no key is stored.
UnlinkedStaysUnlinked == asked.link = NoLink => link = NoLink
=============================================================================
