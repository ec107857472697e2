------------------------ MODULE MCWebhookTimetable ------------------------
(***************************************************************************)
(* The timetable of the settings: WebhookDelivery with the delays, the     *)
(* retry limit and the cut-off of the code, in minutes.                    *)
(***************************************************************************)
EXTENDS MCWebhookDelivery

\* The age at which each attempt comes when all of them are as late as can be.
Attempts[n \in 1..(MaxRetry + 1)] ==
    IF n = 1 THEN 0
    ELSE Attempts[n - 1] + get_next_webhook_retry_date(n - 2) + MaxLate

\* What CutOffIsLateEnough, in WebhookDelivery_proofs, asks of the settings.
ASSUME SettingsAssumption == Timetable(Attempts)
=============================================================================
