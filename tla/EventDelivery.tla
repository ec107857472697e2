--------------------------- MODULE EventDelivery ---------------------------
(***************************************************************************)
(* What the webhook machinery promises about an event, without saying how: *)
(* an event is accepted once, its endpoint may acknowledge it any number   *)
(* of times while it is open, it is reported delivered only if the         *)
(* endpoint did acknowledge it, and a verdict is never taken back.  A      *)
(* verdict is forgotten only when the row is purged.                       *)
(* WebhookDelivery implements this module (see WebhookDelivery!Promise).   *)
(***************************************************************************)
EXTENDS Naturals

CONSTANT Events          \* the events that may be accepted

VARIABLES
    fate,                \* fate[e]: what the database says has become of e
    receipts             \* receipts[e]: how often the endpoint acknowledged e

vars == <<fate, receipts>>

Fate == {"none", "open", "delivered", "dropped", "purged"}

Init ==
    /\ fate = [e \in Events |-> "none"]
    /\ receipts = [e \in Events |-> 0]

\* A new event becomes visible.
Accept(e) ==
    /\ fate[e] = "none"
    /\ fate' = [fate EXCEPT ![e] = "open"]
    /\ UNCHANGED receipts

\* The endpoint answers a POST of e with 2xx.  The sender may not have
\* recorded an earlier answer, so this can happen more than once.
Acknowledge(e) ==
    /\ fate[e] = "open"
    /\ receipts' = [receipts EXCEPT ![e] = @ + 1]
    /\ UNCHANGED fate

\* Verdicts, of any number of open events at once, as a batch commits.
MayBecome(e, f) ==
    \/ f = fate[e]
    \/ fate[e] = "open" /\ f = "delivered" /\ receipts[e] > 0
    \/ fate[e] = "open" /\ f = "dropped"

Decide ==
    /\ fate' \in [Events -> Fate]
    /\ \A e \in Events : MayBecome(e, fate'[e])
    /\ UNCHANGED receipts

\* The row is deleted, whatever had become of it.
Purge ==
    /\ fate' \in [Events -> Fate]
    /\ \A e \in Events : fate'[e] # fate[e] => fate[e] # "none" /\ fate'[e] = "purged"
    /\ UNCHANGED receipts

Next ==
    \/ \E e \in Events : Accept(e) \/ Acknowledge(e)
    \/ Decide
    \/ Purge

Spec == Init /\ [][Next]_vars
=============================================================================
