----------------------------- MODULE MCRssFeed -----------------------------
(***************************************************************************)
(* Instances of RssFeed for TLC.                                           *)
(***************************************************************************)
EXTENDS RssFeed
=============================================================================
