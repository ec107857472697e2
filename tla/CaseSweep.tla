----------------------------- MODULE CaseSweep -----------------------------
(***************************************************************************)
(* What the sweeps of a court promise about the downloads they schedule,   *)
(* without saying who sweeps or how sweeps keep out of each other's way.   *)
(* The case ids from the seed up are a log with one reader.  A sweep       *)
(* claims the ids below a new case, schedules them one after the other     *)
(* from where the reader stands, and then saves where it stands.  A sweep  *)
(* that is abandoned sends the reader back to where it last saved, never   *)
(* further: those ids, and no others, are scheduled again.                 *)
(* IqueryProbe implements this module while its lock outlives its sweeps   *)
(* (see IqueryProbe!SweepsInOrder).                                        *)
(***************************************************************************)
EXTENDS Naturals

CONSTANT Start      \* the id from which the court is followed

VARIABLES
    known,          \* the highest id claimed
    sweeping,       \* is a sweep under way?
    position,       \* where the reader stands: the last id scheduled
    saved,          \* where it last saved
    scheduled       \* the ids that have been scheduled

vars == <<known, sweeping, position, saved, scheduled>>

Init ==
    /\ known = Start /\ position = Start /\ saved = Start
    /\ sweeping = FALSE
    /\ scheduled = {}

\* A case that is higher than all before it starts a sweep.
Claim ==
    /\ ~sweeping
    /\ sweeping' = TRUE
    /\ known' \in Nat /\ known' > known
    /\ UNCHANGED <<position, saved, scheduled>>

\* The case itself need not be downloaded: the sweep ends below it.
Schedule ==
    /\ sweeping /\ position + 1 < known
    /\ position' = position + 1
    /\ scheduled' = scheduled \cup {position + 1}
    /\ UNCHANGED <<known, sweeping, saved>>

Save ==
    /\ sweeping /\ position + 1 >= known
    /\ saved' = position
    /\ sweeping' = FALSE
    /\ UNCHANGED <<known, position, scheduled>>

Abandon ==
    /\ sweeping
    /\ sweeping' = FALSE
    /\ position' = saved
    /\ UNCHANGED <<known, saved, scheduled>>

Next == Claim \/ Schedule \/ Save \/ Abandon

Spec == Init /\ [][Next]_vars
=============================================================================
