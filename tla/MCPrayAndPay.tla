---------------------------- MODULE MCPrayAndPay ----------------------------
(***************************************************************************)
(* Instances of PrayAndPay for TLC.                                        *)
(***************************************************************************)
EXTENDS PrayAndPay

CONSTANTS u1, u2, d1, d2

\* Two users want the first document, which a fetch and an upload bring.
SameDoc == {<<u1, d1>>, <<u2, d1>>}
AndOther == SameDoc \cup {<<u1, d2>>}
Api == {<<u2, d1>>}
FirstDoc == [a \in Arrivals |-> d1]
=============================================================================
