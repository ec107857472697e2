-------------------------- MODULE MCDocketAlerts --------------------------
(***************************************************************************)
(* Instances of DocketAlerts for TLC: a feed with entries of two dockets,  *)
(* and an upload and an email about the first of them.                     *)
(***************************************************************************)
EXTENDS DocketAlerts, TLC

CONSTANTS d1, d2, e1, e2, e3, f1, u1, m1

FirstTwo == (e1 :> d1) @@ (e2 :> d1) @@ (e3 :> d2)

Brought == (f1 :> {e1, e3}) @@ (u1 :> {e2}) @@ (m1 :> {e1})
=============================================================================
