--------------------------- MODULE MCAccountLink ---------------------------
(***************************************************************************)
(* Small instances of AccountLink for TLC: requests and accounts are       *)
(* interchangeable.                                                        *)
(***************************************************************************)
EXTENDS AccountLinkProperties, TLC

Alike == Permutations(Requests) \cup Permutations(Creds)
=============================================================================
