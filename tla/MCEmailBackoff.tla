-------------------------- MODULE MCEmailBackoff --------------------------
(***************************************************************************)
(* Instances of EmailBackoff for TLC.                                      *)
(***************************************************************************)
EXTENDS EmailBackoff, TLC

\* Every message goes to every address.
ToAll == [m \in Messages |-> Recipients]

\* Messages with the same addresses are alike.
MessageSymmetry == Permutations(Messages)
=============================================================================
