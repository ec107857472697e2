--------------------------- MODULE MCTaskThrottle ---------------------------
(***************************************************************************)
(* Instances of TaskThrottle for TLC.                                      *)
(***************************************************************************)
EXTENDS TaskThrottle
=============================================================================
