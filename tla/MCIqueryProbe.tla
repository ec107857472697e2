--------------------------- MODULE MCIqueryProbe ---------------------------
(***************************************************************************)
(* Instances of IqueryProbe for TLC.                                       *)
(***************************************************************************)
EXTENDS IqueryProbe, TLC

\* What the theorems assume of the constants holds for the settings the
\* code has by default (settings/project/corpus_importer.py).
Settings == INSTANCE IqueryProbe WITH
                IQUERY_PROBE_MAX_OFFSET <- 400,
                IQUERY_MAX_PROBE <- 32,
                IQUERY_FIXED_SWEEP <- 100,
                BLOCKED_WAIT <- 600,
                BLOCKED_MAX_ATTEMPTS <- 6

ASSUME SettingsAssumption ==
    Settings!ProbeAssumption /\ Settings!DoublingAssumption /\ Settings!WaitAssumption

\* The probe tasks are interchangeable, and so are the uploads.
Symmetry == Permutations(Probes) \cup Permutations(Uploads)
=============================================================================
